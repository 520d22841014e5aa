# A verification of sleepyminer

sleepyminer is a RandomX (Monero) CPU miner for Apple Silicon, written in Rust
around the vendored RandomX C++ library. This directory holds TLA+
specifications of its concurrent and distributed parts, TLC configurations that
model-check them, and proofs for the TLA+ proof system. Source paths are those
of the repository, whose Rust sources are in `src/src/`.

Contents: [the system](#the-system) and its components, [the modules](#the-modules)
and how they correspond to the code, [the runs](#the-runs) with their bounds,
[fairness](#fairness), [proofs](#proofs), [what the code does against its
documentation](#disagreements-with-the-documentation), [what is left
out](#what-is-not-modelled) and [the plan](#plan).

## The system

One process mines. `run_miner` (`main.rs`) wires these parts together and then only
prints a status line:

```
 pool  <--TCP/TLS-->  stratum client task ---watch<Option<MiningJob>>--->  N mining threads
                       |   ^    ^                                          |  |   |
                       |   |    +------------mpsc(64) shares---------------+  |   |
                       |   | Notify, override slot                            |   |
                       |  donation task                                       |   |
                    stats mutex                SharedAlgoState mutex + condvar+   |
                    status line                                                   |
                       activity scaler task --AtomicUsize target_threads--> park condvar
```

Around it are the other commands (`setup`, `benchmark`, `install-service`,
`uninstall-service`), which share `~/.sleepyminer/config.json` with it, and launchd, which
starts it again whenever it ends.

| Component | State | Operations | Talks to |
|---|---|---|---|
| Shared RandomX state (`miner/worker.rs`, `algo/mod.rs`) | `SharedAlgoState {state, seed_hash, initializing}` under a mutex with a condvar; each thread's `hasher`, `current_seed` | `get_or_init_shared_state`: reuse, wait, claim, build (minutes, unlocked), publish or fail; `create_hasher` | all mining threads; the job channel |
| Mining coordinator, parking (`miner/mod.rs`, `miner/worker.rs`) | `running`, `target_threads`, the park mutex and condvar, each thread's location | `start`, `stop`, `wake_workers`, park/unpark, the hash loop | scaler, share channel |
| Activity scaler (`scaling/`) | `target_threads`, `last_scale_up`, the last CPU sample | `tick` every 10 s | user idle time, CPU load, target |
| Pool failover (`stratum/pool.rs`) | `current` index, `override_pool`, `redirect` | `current`, `next`, `set_redirect`, `clear_redirect` | stratum client, donation task |
| Donation loop (`donation/mod.rs`) | state, timer, the `Notify` permit | `tick`: flip the override slot, then `notify_one` | failover, client |
| Stratum client (`stratum/mod.rs`) | the pending await, `retry_count`, `rpc_id`, `seq` | connect, log in, serve messages, submit, keep alive, leave on redirect or signal, back off, fail over | everything |
| Shares and statistics (`stratum/mod.rs`, `miner/worker.rs`) | the bounded channel, `seq`, `StratumStats` | `blocking_send`, `submit_share`, `send_keepalive`, counting replies | threads, pool, status line |
| Stratum stream (`stratum/connection.rs`) | the socket buffer, `pending` messages | `connect`, `read_line`, `write_line` | client |
| Protocol (`stratum/protocol.rs`) | none | `from_params`: job parsing, target and seed conversion | client |
| Nonces (`miner/nonce.rs`) | one `AtomicU32` | `next` | mining threads |
| RandomX state and hashers (`randomx/hash.rs`) | cache, dataset, VM pointers, `Arc` counts | `new` with its team of threads, `with_state`, hash, the two `Drop`s | vendored library |
| Benchmark (`benchmark/mod.rs`) | `running`, `total_hashes`, the best so far | `find_optimal_threads`, `run_benchmark_shared` | RandomX state |
| Configuration (`config/`) | the config file | `load`, `validate`, `save`, defaults, overrides | all commands |
| Start-up, wizard, service (`main.rs`, `service/mod.rs`) | the plist, what launchd has loaded | `setup`, `run`, `benchmark`, install and remove the service | user, launchd, config file |
| Benchmark cache, logging, animation | files, the console | sequential | user |

What is hard in this code, and so what the properties are about:

- *Building shared state without a lock held.* `initializing` stands in for a
  lock over minutes of work; jobs for other seeds arrive meanwhile, builds fail,
  threads park and die. Builds must be exclusive, nobody may
  wait for a builder that is gone, nobody may hash with another seed's dataset,
  and everybody must end up on the newest seed.
- *Time slicing between wallets.* The donation task, the failover logic and the
  pools' own `client.reconnect` messages all decide where the next connection
  goes. A flip may fall at any await of the client. No flip may be missed, no
  wallet may be logged in at another pool's endpoint, and the client must get to
  the chosen side past dead pools, dead redirects and lost connections.
- *Parking.* The target is an atomic that is not written under the condvar's
  mutex. Threads must back off when it falls, and never park below the floor.
- *Shares over broken connections.* The channel outlives sessions; a share must
  be written once, in order, and neither be dropped nor resubmitted; threads may
  block on the full channel.
- *One task for both directions.* The session's `select!` drops the read in progress
  whenever it has something to send; replies must come through all the same, in order.
- *Measuring oneself.* The scaler infers the load of others from the total and from its own
  target. It must back off for the user, and neither from itself nor from a bad sample.
- *A file between programs.* Wizard, benchmark, editor and every start of the miner share
  a config file that is truncated before it is written; the service starts against
  whatever it finds there.
- *Memory of a C library.* Two gigabytes that threads share by reference count, through
  pointers; a VM must never outlive them and no error path may keep them.
- *Boundary arithmetic.* The nonce counter's width, NiceHash's mask, the
  partition of the dataset, CPU tick differences, the lengths of the donation's slices.

`PROJECT.json` lists the hazards with their lines and the properties that cover
them.

## The modules

A name in a module is the source's name where the source has one. An action is
what one thread or task does from one interaction with shared state to the next:
a locked section, or the code between two awaits.

### SharedAlgoState

One lock per `SharedAlgoState` value; no thread blocks while holding it except in
`cvar.wait`, so each locked section is one action: `Enter` (first section:
`TakeShared`, wait, or `Claim`), `Wake` (the same section resumed after
`cvar.wait`, its loop condition evaluated again), `BuildSucceeds`/`BuildFails`
(second section, with its `notify_all`). The build itself happens in the location
`"building"`. The other actions are the steps of `Worker::run`: `Top` parks a thread above
the target or goes on; `TakeJob`; `LeaveHashLoop`, on a newer job or a lower target;
`FindShare` and `SendShare`, between which a thread is deaf to both; `Retry`. `CreateHasher`
and `ReleaseOld` are the two halves of the assignment that replaces a hasher: a VM on the
new dataset is made and the old VM destroyed, then the old `Arc` is dropped. `vms` and
`hasher` say who has a VM on which dataset, and who a reference to it; datasets carry a build
number so that two of one seed can be told apart. `CreatePanics` is the assertion of
`create_hasher`: the thread is `"dead"`, and what is promised of the others leaves it out.
Condvars may wake spuriously (`SpuriousWake`), and that is what unparks a thread (`Unpark`):
the scaler, which stores the target (`Scale`), notifies nobody. There is one `Algorithm`, so
the key is the seed. `running` is true for good here, and its checks are left out: `stop()`
has no caller in the program, and what it does when called is `Coordinator`'s subject.
The bounds are `MaxJobs`, `MaxFailures` (builds and VMs) and `MaxScalings`.

### PoolFailover, DonationLoop, StratumClient, MCStratumClient

`PoolFailover` has the failover's three fields and operations; the dev pool is
pool `NPools + 1`, an endpoint is the pool that operates it and a number (0 is
the configured address, others are what that pool's `client.reconnect` may name),
and a connection pairs the pool whose wallet logs in with an endpoint.
`DonationLoop` extends it with the donation task's clock (`TimePasses`, in minutes of
the slices; the task runs when it is due before the next minute passes), its two steps
(write the slot, then `notify_one`) and `tokio::sync::Notify`: a permit is stored when nobody listens,
a listener that another `select!` branch beats passes a permit it has received
back. `StratumClient` extends both; its `phase` names the pending await: `idle`
(the pause before the next attempt), `connect`, `login`, `mining` (the `select!`
loop). What a pool may do is a constant: endpoints that are `Dead`, `Silent`, pools that are
`Redirecting`; other failures are bounded by `MaxDrops`. `MCStratumClient` names
the sets the configurations give to these constants.

### PoolChoice

The abstract specification of the client: which side, user or dev, is *wanted*
and which side the client *has*. The wanted side flips at any time, the client
disconnects at any time, takes the wanted side, and does not keep the other for
ever. `StratumClient` is shown to implement it with `want` the side of the override
slot and `have` the side of the connection's wallet.

### Coordinator, AdaptiveMiner

`Coordinator` has threads `0 .. MaxThreads - 1` and the parking protocol at the grain of its
mutex: `Top` (the unlocked check), `LockPark`, `CheckPark`, `Wait` (release and sleep),
`Unpark`; the hash loop (`LeaveHashLoop`, `NewJob`, `FindShare`), the blocking
`SendShare`; the scaler's two stores, with the reason for them left open; `StopStore` and
`WakeWorkers`, the two steps of `stop()`, which the coordinator offers and the program never
calls: `AtMostOneMissesStop` and `StopEndsHashing` are about what it would do. The stratum client appears as `SessionChange` and
`Receive`.

`AdaptiveMiner` extends it with `ActivityScaler::tick`: what is measured (the `user`, the
cores `other` processes ask for, the threads that hash), the estimate of external load,
`Yield` and `RampOn` with the ramp-up timer `since`. Loads are counted in cores and time in
ticks. `Samples` are the values `sample()` may lead to: the load of the moment, or nothing
(a failed sysctl, the first sample, a wrapped counter), which counts as no load. The total
saturates at the number of cores. `IdleProbeFails` is the early return. It is proved to
refine `Coordinator`.

### ShareFlow, StratumStream, StratumSession

`ShareFlow` follows a share. `FindShare` puts the number of a finding on the channel;
`SubmitShare` takes it off and writes it, or fails to; `SendKeepalive`; the pool
`PoolReceives`; a `Reply` is handled, in any order; `CountReply` is the last branch of
`handle_message`; `Unsolicited` are messages that answer no request and have an id all the
same, NiceHash's with id -1, with an error or without. `SessionEnds` drops what is in flight;
`Login` restarts the ids at 2. `arrived` is what the pools have received session by session:
what TCP still delivers over a connection after the client has left it counts as received
before, or not at all, since no later step of the client depends on which.

`StratumStream` is `StratumStream::read_line` and what `select!` does to it. A message on the
wire is two halves, a newline ends a line, `ReadPart` takes any number of units that have
arrived into the line buffer, `ReadNewline` and `ReadEof` complete a line and `Parse` it,
`PopPending` returns a queued message, and `Cancel` is a `read_line` future dropped because
another branch was ready: `buf`, a local of the future, is lost, `pending`, a field of the
stream, is not. `torn` remembers the messages of which a dropped read had a part.

`StratumSession` composes them into `cryptonote_session`. The stream is an instance of
`StratumStream` that is made anew with every connection; `contents` says what each of its
messages is: the login's reply, a reply to a request, or a notice, which `HandleNotice` counts
if it has an id and ignores if it is a job or has none. `LoginRefused` is a login answered by
an error, `Leave` every other way out of `select!`, a `client.reconnect` included. `Submit`
and `KeepAlive` are `ShareFlow`'s steps together with the `Cancel` they cause; `Read` is a
step of the stream together with the handling of the message it returned, if any. `ShareFlow` is the abstract
specification of this composition: its variables are the session's own, its atomic `Login`
and `Reply` are the moments the cut-up messages are handled, and replies that are torn or
never read are replies that are never handled.

### RandomXState, Benchmark, Startup

`RandomXState` has no `Next` of its own: it is the native cache and dataset (`native`), the
team of threads that writes the items (`written` says which thread wrote which), the holders
of `Arc`s (`refs`) and of VMs (`vms`), and the steps of `new`, `with_state` and the two
`Drop`s. The library may refuse any allocation or VM, `MaxRefusals` times.

`Benchmark` extends it with the sweep: `Build`, then rounds of `MakeHasher`, `Look`, `Hash`,
`Leave` in 1, 2, ... threads between `BeginRound`, `TimeUp` and `EndRound`. `made` remembers
the hashes the threads really made, beside `hashes`, what the rounds read of them. A round
lasts until its slowest thread is joined, so of the rate only this is known: it is 0 without
hashes and at least 1 with some (`Rates`).

`Startup` extends that with the commands at one terminal, the service that launchd runs
beside them, and an editor. `file` is the config file, `Absent`, `Torn` (truncated and not yet
written) or a config of one pool and an optional thread count. A save is two steps,
`Truncate` and `SaveEnds`. The pools are values; `BadPools` are those whose address
`PoolConnection::from_config` refuses. `TerminalDies`, `ServiceDies` and `Reboot` may come at
any step; a reboot loads what has a plist.

### HashLoop, Protocol

The inner loop of `Worker::run` in all threads, against the one `NonceCounter`.
`TakeJob` clones the job and prepares the input buffer, `Continue` is a pass of
the loop's head (the look at the job channel when `iterations` has reached
`next_job_check`), `Hash` draws a nonce, masks it and hashes, `LeaveHashLoop`
stands for every way out. The nonce field is a number of a top byte and the three
lower ones, with the widths as constants (`Tops`, `Low`: 256 and 2^24 in the
code), so overflow is the code's modulo. `log` and `late` are history variables.

`Protocol` has no state: it is the expansion of a job's 4-byte target to 8 bytes and the
comparison of a hash with it, for words of any width (`Word`: 2^32 in the code), against the
pool's own division. What it promises, `TargetsAreExact`, is about constants: it is
proved, and in no run.

### Proof modules

`SharedAlgoStateProofs`, `StratumClientProofs`, `CoordinatorProofs`, `AdaptiveMinerProofs`,
`HashLoopProofs`, `ShareFlowProofs`, `StratumSessionProofs` and `StartupProofs` extend the
module they are about; `AdaptiveMinerProofs` and `StratumSessionProofs` extend the proofs of
the specification they refine as well. Operators named "Faulty X" in a
comment are not part of the specification: each is X with a plausible bug, kept to
show that a property can fail.

## The runs

Runs that pass:

| Run | Configuration | Bounds | What it shows |
|---|---|---|---|
| `shared_state` | `SharedAlgoState.cfg` | 3 threads, 2 seeds, 2 jobs, 1 failed build or VM, a target of 1 or 3 that changes once | `OneBuilder`, `HashesWithJobSeed`, `NoForgottenWaiter`; no VM outlives its dataset (`VmsHaveMemory`); all threads that are not parked end on the newest seed (`EventuallyAllMine`), and the outdated datasets are released (`OldDatasetsGo`) |
| `client` | `StratumClient.cfg` | 3 user pools and the dev pool, 2 alternate endpoints each, 1 pool and 1 redirect target dead, slices of 2 and 1 minutes, 3 redirects, 3 failures, 2 tries per pool | no flip is missed (`StaleSessionIsSignalled`, `LeavesStaleSession`), user wallets do not cross (`WalletsDoNotCross`), the client ends on the chosen side (`MinesForChosenSide`) and implements `PoolChoice`; the dev pool gets its share of the time and no more (`DonationIsFair`) |
| `coordinator` | `AdaptiveMiner.cfg` | 3 threads of which 1 is the floor, 4 cores, other processes that want 1 or 2, failing probes and samples, a ramp-up of 1 tick, a channel of one place | `FloorNeverParks`, `StopEndsHashing`, and at most one thread sleeps through `stop()` (`AtMostOneMissesStop`); the miner yields to the user (`YieldsToUser`) and not to itself (`RampsUp`) |
| `session` | `StratumSession.cfg` | 2 shares, a channel of one, 1 keepalive or unsolicited message, at most 2 messages per line, 1 empty line, 1 broken connection | `ArriveInOrderOnce`, `SharesConserved`, `CountsAreBounded`, `EveryShareIsWritten` of the shares; `SeenInOrder`, `OnlyTornAreLost`, `EveryMessageIsSeen` of the stream; together they implement `ShareFlow` |
| `hash_loop` | `HashLoop.cfg` | 2 threads, 2 jobs of either kind, 4 nonces, a look every 2 hashes, 6 draws | `NoncesRepeatLate`, `ReservedByteIsKept`, `StaleHashesAreFew` |
| `startup` | `Startup.cfg` | 5 items, 2 cores, sweeps to 0 or 2 threads, about 1 hash per round, rates up to 2, 1 refusal; 2 pools of which one is bad, 2 edits, 1 crash | the dataset is complete (`DatasetIsComplete`) and is released with its VMs (`NothingLeaks`); a round counts all its hashes and no others (`EveryHashCounts`); the sweep's result is the first best (`BestIsFirstMaximum`); saved configs load (`SavedConfigsLoad`) and keep edits (`EditsSurvive`) |

Each also checks its module's type invariant. Runs that find a violation, each of one
statement the repository makes ([below](#disagreements-with-the-documentation)):

| Run | Configuration | Statement |
|---|---|---|
| `dev_redirect` | `DevRedirect.cfg` | `EndpointBelongsToWallet` |
| `silent_pool` | `SilentPool.cfg` | `LeavesStaleSession`, with a silent endpoint |
| `scale_up` | `ScaleUp.cfg` | `TargetIsActiveThreads` |
| `yields_to_others` | `YieldsToOthers.cfg` | `YieldsToOthers` |
| `cancelled_read` | `CancelledRead.cfg` | `CallersSeeEveryMessage` |
| `wizard_pool` | `WizardPool.cfg` | `SavedConfigsMine` |

Why the bounds are enough to be interesting:

- `shared_state`: three threads are a builder, a waiter and a newcomer at once; two
  seeds and two jobs let a job change under a build; one failure lets a waiter
  become the builder, or kills a thread for want of a VM; one change of the target parks two
  threads in any place they may be, or lets two join that were parked from the start.
- `client`: three pools make a failover over a dead pool distinct from one back to
  the start; two tries per pool (the code has 3) keep "another try" and "the next
  pool" apart; the client's steps take no time or many minutes, so a flip falls in every
  await of an attempt and after it; three redirects and failures suffice for a
  redirect to a dead endpoint, its removal and another one. An endpoint is down for the whole
  run, which is harder on liveness than one that recovers. A cycle of 3 minutes has first
  slices of 1, 2 and 3.
- `coordinator`: a full channel of one place blocks a thread after one share; with 4 cores
  and 3 threads a demand of 2 is above the ceiling while the miner is at its floor and
  hidden by saturation at its maximum, a demand of 1 below it. The target moves
  without end, so no number of changes is a bound.
- `session`: two shares over a channel of one block the finder; a broken connection makes two
  sessions, whose ids and message numbers start again; two messages per line exercise
  `pending`; a share or the keepalive can drop a read between any two halves.
  Keepalives and notices share one bound.
- `hash_loop`: six draws go around a space of four nonces once and around
  NiceHash's two values three times, with both kinds of job mixed.
- `startup`: five items for two threads leave a remainder; `--threads 0` and the number of
  cores are the extremes of a sweep, and two rounds are what ties and a shared dataset
  need; two rates make rounds tie or differ, and the second thread of a round can be hashing
  when its time is up; two edits fall before and after a
  benchmark's load, and one crash tears a save or ends a service.

Deadlock is checked in `client` and `dev_redirect`, whose client never stops.
The other modules stop by design: nothing changes any more for threads that have parked or
died (`SharedAlgoState`), the miner has stopped (`Coordinator`), the nonces, shares or
messages of the bound are used up, the session has failed, or the user types no more commands.

## Fairness

- `SharedAlgoState`, `Coordinator`: each thread is an OS thread that the scheduler
  runs: weak fairness of its own steps. Nothing is owed of jobs, `stop()`, changes
  of the target, shares, the user, other processes and spurious wake-ups. A build ends, in
  success or failure, and only `MaxFailures` of them fail. In `SharedAlgoState` a thread that
  sends a share has sent it in the end, for the reason given next. `AdaptiveMiner` adds weak fairness of
  `Tick`: the interval goes on, and of the idle probes some succeed.
- `Coordinator` also needs *strong* fairness of `SendShare` (tokio's semaphore hands
  places to its waiters in turn) and of `Receive` together with weak fairness of
  `SessionChange`: sessions recur and `select!` polls its branches in random order,
  so the share channel is received from sooner or later. Without a session ever
  again, a thread blocked in `blocking_send` stays there: `StopEndsHashing` holds
  only as far as the client reconnects.
- `StratumClient`: weak fairness of the next attempt (a timed sleep ends), of the
  outcome of a connect or login (the endpoint answers or fails, unless it is
  `Silent`), of `Signalled` (random polling: a branch that stays ready is
  taken) and of the donation task's `notify_one`. Flips, messages and failures are
  not owed. `MaxDrops` and `MaxRedirects` are what "the network settles down" means
  for `MinesForChosenSide`.
- `DonationLoop`: time itself owes nothing; the promises are about what is chosen now.
- `StratumSession`: the client reconnects, a pool answers a login (`silent_pool` shows what
  happens if it does not), what has arrived is read and the channel is served, since `select!`
  polls its branches in random order. Other replies are not owed. `ShareFlow`'s own fairness
  (`Login`, `SubmitShare`) is implied, and the run checks that it is.
- `Startup` and `HashLoop` have no liveness property and no fairness.

## Proofs

TLAPS checks these for every value of the constants that satisfies the named
assumptions of the module (numbers are naturals, positive where the code needs it;
`None` is not a value of the type it is added to).

| Module | Theorem | Property | Argument |
|---|---|---|---|
| `SharedAlgoStateProofs` | `TypeCorrect` | `TypeOK` | inductive together with `HasJob`: a thread past the outer loop's head has a job, whose seed a build uses |
| | `BuildsAreExclusive` | `OneBuilder` | inductive beside the types because it states both halves: nobody builds unless `initializing`, and then exactly one; either alone is not |
| | `NobodyIsForgotten` | `NoForgottenWaiter` | inductive: a thread waits only in a section that saw `initializing`, and the steps that reset it notify all |
| | `VmsAreSafe` | `VmsHaveMemory` | `VmsOwned`, part of `HasherInv`: a thread has no VM but on the dataset of its hasher, or, between the halves of `CreateHasher`, on the one it has just been given |
| | `HashesAreForTheJob` | `HashesWithJobSeed` | `HasherInv` ties the slot's dataset to its seed, the dataset handed out to the wanted seed, and the hasher to `curSeed`; the property follows from the three |
| `StratumClientProofs` | `TypeCorrect` | `TypeOK` | inductive |
| | `NoFlipIsMissed` | `StaleSessionIsSignalled` | inductive: only `Flip` makes a connection stale, and it leaves the task at `notify_one`; only `Signalled` uses up a signal, and it ends the session |
| | `WalletsStayApart` | `WalletsDoNotCross` | `OwnersInv`: the slot's endpoint belongs to the current or the dev pool, and a session's to its pool or the dev pool; slot and session feed each other, so neither is inductive alone |
| | `EndpointsStayOwn` | `EndpointBelongsToWallet` | the same, for a dev pool that never redirects: the exact condition the `dev_redirect` run violates |
| | `RefinesPoolChoice` | the safety of `PoolChoice` | each action is a `Flip`, `Begin` or `End` of `PoolChoice`, or a stutter |
| | `DonationTakesItsShare` | `DonationIsFair` | the balance of the slices is not inductive; `Offset`, the balance the present slice is to end with less what a full user slice adds, never changes, and the first draw bounds it (`ShareInv`) |
| `CoordinatorProofs` | `TypeCorrect` | `TypeOK` of `Coordinator` | inductive |
| | `FloorKeepsHashing` | `FloorNeverParks` | inductive with the types: the target is never under the floor |
| | `OneMissesStop` | `AtMostOneMissesStop` | `ParkInv`: the mutex is held from the check to the wait, so one thread at most is between the two when `stop()` notifies, and none enters there afterwards |
| `AdaptiveMinerProofs` | `RefinesCoordinator` | the safety of `Coordinator` | a tick is one of the two stores or a stutter; the environment stutters |
| | `AdaptiveTypeCorrect` | `AdaptiveTypeOK` | inductive, on `Coordinator`'s step lemma |
| | `FloorKeepsHashingAdaptively` | `FloorNeverParks` | from `FloorKeepsHashing` through the refinement |
| | `OneMissesStopAdaptively` | `AtMostOneMissesStop` | the same of `OneMissesStop` |
| `HashLoopProofs` | `TypeCorrect` | `TypeOK` | part of `IInv` |
| | `NoncesAreUnique` | `NoncesRepeatLate` | `Drawn`: the counter is the number of draws modulo the space and the i-th input is the i-th draw, masked as its job wants; two equal inputs are then a multiple of the job's period apart (lemmas `DivMod` to `ModOfMod`) |
| | `ReservedByteSurvives` | `ReservedByteIsKept` | `Drawn`, and `DivModUnique`: mask and shift do not overlap |
| | `StaleWorkIsBounded` | `StaleHashesAreFew` | `Budget`: the late hashes made and those still allowed before the next look add up to at most `CheckEvery` |
| | `ExpandedTargetsAreExact` | `TargetsAreExact` | no induction: products of the two quotients with their divisors, from `DivMod` |
| `ShareFlowProofs` | `TypeCorrect` | `TypeOK` of `ShareFlow` | inductive |
| | `FlowIsInvariant` | the three below | `FlowInv`, see below |
| `StratumSessionProofs` | `SessionIsInvariant` | | `SessionInv`, see below |
| | `SessionTypeCorrect` | `SessionTypeOK` | part of `SessionInv` |
| | `MessagesInOrder` | `SeenInOrder` | part of `SessionInv` |
| | `LossesAreTorn` | `OnlyTornAreLost` | part of `SessionInv` |
| | `SessionImplementsFlow` | the safety of `ShareFlow` | the step that parses a reply is `ShareFlow`'s `Login`, `Reply` or `Unsolicited`, the one that drops a read its `SubmitShare` or `KeepAlive`; cutting, reading and queueing stutter |
| | `ArrivalsInOrder`, `SharesAreConserved`, `CountsStayBounded` | `ArriveInOrderOnce`, `SharesConserved`, `CountsAreBounded` | from `FlowInv` through the refinement |
| `StartupProofs` | `StartupIsInvariant` | | `StartupInv`, see below |
| | `StartupTypeCorrect` | `StartupTypeOK` | part of `StartupInv` |
| | `DatasetsAreComplete` | `DatasetIsComplete` | `PartsWritten`, and the parts tile the items: `PartsCover`, `PartsAreDisjoint` |
| | `MemoryIsReleased` | `NothingLeaks` | `Holders`: a thread has a reference until it is joined and a VM only while it hashes; `Allocated`: the memory is there exactly while there are references |
| | `HashesAreCounted` | `EveryHashCounts` | `CountInv`: the hashes made in the present round are its `total`, and the count stands once the round is rated, for its threads are joined (`Rounds`) and none hashes |
| | `BestIsChosen` | `BestIsFirstMaximum` | `BestSoFar`: the same of the rounds that are over |
| | `SavedFilesLoad`, `EditsAreKept` | `SavedConfigsLoad`, `EditsSurvive` | inductive together with `Drafts`: what is about to be saved can be loaded, and names the pool the file names unless an edit fell in between |

The inductive invariants of the longer proofs:

- *The flow of shares* (`FlowInv`). That the counters are bounded is not inductive: a reply
  still to come will be counted. `Ledger` adds to the counters the verdicts and pings that are
  outstanding, and bounds the sum; `IdsGrow` says that no two requests of a session share an
  id, so that none is answered twice. `ClosedIsEmpty` and `ArrivalOrder` say what a broken
  connection leaves: nothing on the wire, and shares received in the order written.
- *The stream* (`StreamInv`). A message may be in three places at once: half in the line
  buffer, half on the wire, while earlier ones of its line are queued. `WellFormed` is about
  the concatenation of buffer and wire: between two newlines its halves are consecutive, no
  more than a line may hold, ascending, and a newline stands only between whole messages.
  What is left after a cancelled read is a suffix of such a sequence, and so again
  `WellFormed` (`CutKeeps`), but `StartsWhole` is lost, and with it a message: the one in
  `torn`. `SeenIsEarlier` and `NothingMissing` tie it to what has been parsed.
- *The sweep and the file* (`StartupInv`). `SweepInv` ties the stages of the sweep to the
  phases of the build (`StagesMatch`), the results to the rounds (`Rounds`: when a round's
  result is in, its threads are joined) and the references to where the threads are. The
  partition of the dataset is arithmetic: with q the equal share of t threads, part i starts at
  i * q, and the last one ends with the remainder; products are compared by `ProductGrows`,
  quotients by `DivMod`. Nothing is assumed of the numbers but that there is a core.

So the miner hashes no input twice before the job's nonces are used up, with any
number of threads, jobs, and interleavings of NiceHash and plain jobs.

Only model-checked, because liveness is beyond the prover: `EventuallyAllMine`,
`OldDatasetsGo`, `LeavesStaleSession`, `MinesForChosenSide`, the fairness half
of `ImplementsPoolChoice`, `StopEndsHashing`, `YieldsToUser`, `RampsUp`,
`EveryShareIsWritten`, `EveryMessageIsSeen`, and the fairness half of
`ImplementsShareFlow`. Every invariant that a run checks is proved.

## Disagreements with the documentation

Each is a run that finds a behaviour of the model, followed back to the code.

1. *The user's wallet at the dev pool's endpoint* (`dev_redirect`). The donation
   time-slices "without touching the user's config" (`stratum/pool.rs:82`), but a
   `client.reconnect` from the dev pool is stored in the slot that `current()` applies
   to the user's pool when the period ends. `EndpointsStayOwn` proves that this is
   the only way.
2. *Deaf while logging in* (`silent_pool`). The reconnect signal is to make the client
   "drop its current connection" (`stratum/pool.rs:77`); the login reply is awaited
   outside the `select!` and without a timeout.
3. *Raised targets wake nobody* (`scale_up`). "Call after changing target_threads"
   (`miner/mod.rs:97`) is said of `wake_workers`, which the scaler has no access to; a
   parked thread stays parked while `active_threads()` counts it.
4. *Other processes are not given way to* (`yields_to_others`). The scaler is to scale down
   when "external CPU usage" is not below the ceiling (`scaling/mod.rs:14`). What it sees of
   it is at most what its own threads leave of the processors, so once more than 65 % of the
   cores mine (the default maximum is all but one) the ceiling of 35 % is never reached.
5. *A dropped read tears a message* (`cancelled_read`). "Callers always see one message
   per `read_line()` call" (`stratum/connection.rs:16`); but `select!` drops a
   `read_line` that has taken part of a line off the socket when a share is ready.
   `OnlyTornAreLost` says that nothing worse happens.
6. *Setup saves what does not start* (`wizard_pool`). After the wizard "every subsequent
   `./sleepyminer` invocation reads it and starts mining straight away" (`README.md:105`); a
   custom pool address is saved as typed and refused by every start.

Others that the modules show, without a run of their own:

- "Only one copy of expensive shared state [...] is built per (algorithm, seed)"
  (`miner/worker.rs:13`). The slot remembers only the newest seed; after jobs for s0, s1, s0 a
  thread of `SharedAlgoState` that has not yet noticed the first change still holds the first
  s0 dataset while a second is built. `OldDatasetsGo` says that this passes.
- Any reply with an id is counted as a "submit response" (`stratum/mod.rs:285`), those to
  keepalives and NiceHash's notices included: hence the slack in `CountsAreBounded`.
- `README.md:233` says a donation level of 0 is rejected; `run_miner` raises it to 1
  (`main.rs:117`), and ignores the level in the config file. `-o` and `-u` change the first
  pool even if it is disabled. Neither is in the modules.

## What is not modelled

- *Most durations.* Back-off delays, the keepalive period and the scaler's ten seconds are
  steps that may be taken at any moment, which covers every timing and so proves
  nothing about durations. The donation's slices and the ramp-up are counted.
- *What a thread computes.* RandomX itself is the vendored C++ library; a hash
  either meets the target or does not. `randomx/{jit,aes,blake2b,cache,dataset,
  superscalar,vm}.rs` are not compiled into the program.
- *The liveness of the service.* That launchd does start the miner again is launchd's promise;
  `Startup` has what its starts may do to the file, and promises nothing of them.
- *Panics of a build.* A build returns its errors; only the failure to spawn one of its
  threads panics in it, and would leave `initializing` set.
- *Shares and pools together.* `ShareFlow` does not say for which pool's job a share was
  found; a share queued over a change of pools is submitted to the new one, which rejects it.
  `StratumSession` composes shares with the stream, `StratumClient` sessions with pools;
  the product of the two is beyond TLC.
- *The content of messages.* JSON and hex fields, beyond a job's seed (`SharedAlgoState`), its
  nonce bytes (`HashLoop`) and its target (`Protocol`).
- *The rest of the config.* A config is one pool and a thread count; the other fields take
  the same way through load and save.
- `benchmark::run_benchmark`, `benchmark_algo` and the benchmark cache have no callers.
- Logging, animation, status line: output only.

## Plan

Modelled and checked: all parts of the running program but those above. Proved: every
invariant the runs check, and the safety of the three refinements. Next:

1. *Safety behind the liveness*: the state facts the liveness properties need, proved for all
   constants: that a thread of `SharedAlgoState` with a job of the newest seed ends at the
   newest dataset if it takes its steps, that a full channel of `Coordinator` has a sender or
   a receiver that can move, that a session whose stream has input can read.
2. *Progress as action properties*: counters that only fall while a thread is on its way out
   of the hash loop, or the client on its way to another pool.
3. *Lemmas shared by the proofs*: `DivMod` and the sequence lemmas, stated in two modules.
