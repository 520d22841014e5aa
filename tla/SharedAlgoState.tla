-------------------------- MODULE SharedAlgoState --------------------------
(***************************************************************************)
(* The protocol by which the mining threads share one RandomX cache and    *)
(* dataset: Worker::get_or_init_shared_state and the part of Worker::run   *)
(* that calls it (src/src/miner/worker.rs).                                *)
(*                                                                         *)
(* A thread above the target parks, and one that has found a share stays   *)
(* in the hash loop until the channel takes it; the mutex of the one and   *)
(* the channel of the other are Coordinator's subject.  `running` is TRUE  *)
(* for good: stop(), which alone resets it, has no caller, and is          *)
(* Coordinator's subject too.                                              *)
(*                                                                         *)
(* The Mutex in SharedAlgoState is never held across a blocking call       *)
(* except cvar.wait, which releases it, so everything a thread does from   *)
(* one lock() to the matching release is one action.  The minutes that     *)
(* AlgoState::for_algo takes are spent outside the lock, in the state      *)
(* "building".  There is one algorithm, so a key is a seed.                *)
(***************************************************************************)
EXTENDS Naturals, FiniteSets

CONSTANTS
  Workers,      \* the mining threads, by their thread_id
  Targets,      \* the values target_threads takes
  Seeds,        \* the RandomX seed hashes the pools' jobs carry
  ZeroSeed,     \* [0u8; 32]: a job without seed_hash, and every initial seed
  None,         \* Option::None
  MaxJobs,      \* bound: how many jobs the pools send
  MaxFailures,  \* bound: failed builds and VMs (allocation errors)
  MaxScalings   \* bound: stores to target_threads

ASSUME ThreadsAssumption == Workers \subseteq Nat /\ Targets \subseteq Nat
ASSUME SeedAssumption == ZeroSeed \in Seeds
ASSUME BoundAssumption == {MaxJobs, MaxFailures, MaxScalings} \subseteq Nat

(* One built cache + dataset: its key, and which build produced it.  The   *)
(* second component tells two Arc<AlgoState> of equal seeds apart.         *)
Datasets == [seed : Seeds, build : Nat]
Jobs == [seed : Seeds, version : Nat]

ASSUME NoneAssumption == None \notin Datasets \cup Jobs

VARIABLES
  job,       \* the watch channel's value: Option<MiningJob> with its version
  target,    \* target_threads
  shared,    \* the fields of SharedAlgoState guarded by the mutex
  waiters,   \* threads asleep in cvar.wait
  pc,        \* where each thread is
  want,      \* each thread's clone of the job it works on
  got,       \* the Arc returned by get_or_init_shared_state
  hasher,    \* the dataset the thread's hasher references, or None
  vms,       \* the datasets each thread has a VM on
  curSeed,   \* the thread's current_seed
  builds,    \* datasets built so far
  failures,  \* builds and VMs that have failed so far
  scalings   \* stores to target_threads so far

hasherVars == <<hasher, vms, curSeed>>
countVars == <<builds, failures, scalings>>
vars == <<job, target, shared, waiters, pc, want, got, hasherVars, countVars>>

Locations == {"top", "parked", "job", "enter", "waiting", "building", "create",
              "release", "retry", "mining", "sending", "dead"}

Init ==
  /\ job = None
  /\ target \in Targets
  /\ shared = [state |-> None, seed |-> ZeroSeed, initializing |-> FALSE]
  /\ waiters = {}
  /\ pc = [w \in Workers |-> "top"]
  /\ want = [w \in Workers |-> None]
  /\ got = [w \in Workers |-> None]
  /\ hasher = [w \in Workers |-> None]
  /\ vms = [w \in Workers |-> {}]
  /\ curSeed = [w \in Workers |-> ZeroSeed]
  /\ builds = 0
  /\ failures = 0
  /\ scalings = 0

-----------------------------------------------------------------------------
(* The rest of the program, as far as these threads see it.                *)

(* Faulty NewJob: a missing seed_hash stays missing instead of zero.       *)
NewJobWithoutSeed(s) ==
  /\ job = None
  /\ job' = [seed |-> None, version |-> 1]
  /\ UNCHANGED <<target, shared, waiters, pc, want, got, hasherVars, countVars>>

(* job_tx.send(Some(job)): the stratum client publishes a job.             *)
NewJob(s) ==
  /\ (IF job = None THEN 0 ELSE job.version) < MaxJobs
  /\ job' = [seed |-> s,
             version |-> IF job = None THEN 1 ELSE job.version + 1]
  /\ UNCHANGED <<target, shared, waiters, pc, want, got, hasherVars, countVars>>

(* The scaler stores another target; it notifies nobody.                   *)
Scale(n) ==
  /\ scalings < MaxScalings
  /\ n # target
  /\ target' = n
  /\ scalings' = scalings + 1
  /\ UNCHANGED <<job, shared, waiters, pc, want, got, hasherVars, builds,
                 failures>>

-----------------------------------------------------------------------------
(* Worker::run.                                                            *)

Goto(w, l) == pc' = [pc EXCEPT ![w] = l]

(* A step that only moves w from one place to another.                     *)
Move(w, from, to) ==
  /\ pc[w] = from
  /\ Goto(w, to)
  /\ UNCHANGED <<job, target, shared, waiters, want, got, hasherVars, countVars>>

(* The head of the outer loop: park, or go on to the job.                  *)
Top(w) ==
  \/ w >= target /\ Move(w, "top", "parked")
  \/ w < target /\ Move(w, "top", "job")

(* The parking condvar wakes the thread although nobody notified it, and   *)
(* the target has been raised meanwhile.                                   *)
Unpark(w) == w < target /\ Move(w, "parked", "top")

(* There has been no job yet: sleep, and look again.                       *)
AwaitJob(w) == job = None /\ Move(w, "job", "top")

(* Faulty TakeJob: any hasher is taken to fit any job.                     *)
TakeJobWithAnyHasher(w) ==
  /\ pc[w] = "job" /\ job # None
  /\ want' = [want EXCEPT ![w] = job]
  /\ Goto(w, IF hasher[w] = None THEN "enter" ELSE "mining")
  /\ UNCHANGED <<job, target, shared, waiters, got, hasherVars, countVars>>

(* borrow_and_update: clone the current job, and skip the initialisation   *)
(* when the hasher in hand is for its seed.                                *)
TakeJob(w) ==
  /\ pc[w] = "job"
  /\ job # None
  /\ want' = [want EXCEPT ![w] = job]
  /\ Goto(w, IF hasher[w] = None \/ curSeed[w] # job.seed
             THEN "enter" ELSE "mining")
  /\ UNCHANGED <<job, target, shared, waiters, got, hasherVars, countVars>>

(* Faulty LeaveHashLoop: the job channel is not looked at.                 *)
LeaveHashLoopToPark(w) == w >= target /\ Move(w, "mining", "top")

(* The hash loop breaks on a newer job, or when the target falls to the    *)
(* thread.                                                                 *)
LeaveHashLoop(w) ==
  /\ job # want[w] \/ w >= target
  /\ Move(w, "mining", "top")

(* A hash meets the job's target: blocking_send, with no look at the job   *)
(* or the target until the channel has taken the share.  The loop's head   *)
(* follows: of the few hashes a thread makes for an outdated job (HashLoop *)
(* bounds them) one may be a share, and then it looks.                     *)
FindShare(w) == Move(w, "mining", "sending")
SendShare(w) ==
  IF job # want[w] \/ w >= target
  THEN Move(w, "sending", "top")
  ELSE Move(w, "sending", "mining")

(* Faulty CreateHasher: the old hasher lets go of its dataset first and    *)
(* destroys its VM in ReleaseOld.                                          *)
CreateHasherReleasingFirst(w) ==
  /\ pc[w] = "create"
  /\ hasher' = [hasher EXCEPT ![w] = got[w]]
  /\ vms' = [vms EXCEPT ![w] = @ \cup {got[w]}]
  /\ curSeed' = [curSeed EXCEPT ![w] = want[w].seed]
  /\ Goto(w, "release")
  /\ UNCHANGED <<job, target, shared, waiters, want, got, countVars>>

(* create_hasher makes a VM on the dataset; the assignment that follows    *)
(* drops the old hasher, of which Drop for RandomXHasher destroys the VM   *)
(* first.                                                                  *)
CreateHasher(w) ==
  /\ pc[w] = "create"
  /\ vms' = [vms EXCEPT ![w] = {got[w]}]
  /\ curSeed' = [curSeed EXCEPT ![w] = want[w].seed]
  /\ Goto(w, "release")
  /\ UNCHANGED <<job, target, shared, waiters, want, got, hasher, countVars>>

(* Its Arc is dropped next, with the dataset if that was the last one: the *)
(* thread is left with the new hasher, its reference and its VM.           *)
ReleaseOld(w) ==
  /\ pc[w] = "release"
  /\ hasher' = [hasher EXCEPT ![w] = got[w]]
  /\ vms' = [vms EXCEPT ![w] = {got[w]}]
  /\ got' = [got EXCEPT ![w] = None]
  /\ Goto(w, "mining")
  /\ UNCHANGED <<job, target, shared, waiters, want, curSeed, countVars>>

(* randomx_create_vm returned null: the assertion in with_state ends the   *)
(* thread, and unwinding drops what it held.                               *)
CreatePanics(w) ==
  /\ pc[w] = "create"
  /\ failures < MaxFailures
  /\ failures' = failures + 1
  /\ hasher' = [hasher EXCEPT ![w] = None]
  /\ vms' = [vms EXCEPT ![w] = {}]
  /\ got' = [got EXCEPT ![w] = None]
  /\ Goto(w, "dead")
  /\ UNCHANGED <<job, target, shared, waiters, want, curSeed, builds, scalings>>

(* get_or_init_shared_state returned None: sleep five seconds, try again.  *)
Retry(w) == Move(w, "retry", "top")

-----------------------------------------------------------------------------
(* get_or_init_shared_state.                                               *)

Matches(w) == shared.state # None /\ shared.seed = want[w].seed

(* return guard.state.clone()                                              *)
TakeShared(w) ==
  /\ Matches(w)
  /\ got' = [got EXCEPT ![w] = shared.state]
  /\ Goto(w, "create")
  /\ UNCHANGED <<shared, waiters>>

(* Become the thread that builds; the shared slot is emptied first.        *)
Claim(w) ==
  /\ shared' = [shared EXCEPT !.initializing = TRUE, !.state = None]
  /\ Goto(w, "building")
  /\ UNCHANGED <<waiters, got>>

(* Faulty Enter: `initializing` is not consulted.                          *)
EnterWithoutWaiting(w) ==
  /\ pc[w] = "enter"
  /\ TakeShared(w) \/ (~Matches(w) /\ Claim(w))
  /\ UNCHANGED <<job, target, want, hasherVars, countVars>>

(* The first locked section.                                               *)
Enter(w) ==
  /\ pc[w] = "enter"
  /\ \/ TakeShared(w)
     \/ /\ ~Matches(w)
        /\ shared.initializing
        /\ waiters' = waiters \cup {w}
        /\ Goto(w, "waiting")
        /\ UNCHANGED <<shared, got>>
     \/ /\ ~Matches(w)
        /\ ~shared.initializing
        /\ Claim(w)
  /\ UNCHANGED <<job, target, want, hasherVars, countVars>>

(* cvar.wait has returned and holds the mutex again: the while loop is     *)
(* re-evaluated, then the rest of the locked section runs.                 *)
Wake(w) ==
  /\ pc[w] = "waiting"
  /\ w \notin waiters
  /\ \/ /\ shared.initializing
        /\ waiters' = waiters \cup {w}
        /\ UNCHANGED <<shared, pc, got>>
     \/ ~shared.initializing /\ TakeShared(w)
     \/ ~shared.initializing /\ ~Matches(w) /\ Claim(w)
  /\ UNCHANGED <<job, target, want, hasherVars, countVars>>

(* A condition variable may wake a thread nobody notified.                 *)
SpuriousWake(w) ==
  /\ w \in waiters
  /\ waiters' = waiters \ {w}
  /\ UNCHANGED <<job, target, shared, pc, want, got, hasherVars, countVars>>

(* cvar.notify_all()                                                       *)
NotifyAll == waiters' = {}

(* for_algo succeeded: the second locked section publishes the state.      *)
BuildSucceeds(w) ==
  /\ pc[w] = "building"
  /\ LET d == [seed |-> want[w].seed, build |-> builds + 1]
     IN /\ shared' = [state |-> d, seed |-> want[w].seed,
                      initializing |-> FALSE]
        /\ got' = [got EXCEPT ![w] = d]
  /\ builds' = builds + 1
  /\ NotifyAll
  /\ Goto(w, "create")
  /\ UNCHANGED <<job, target, want, hasherVars, failures, scalings>>

(* Faulty BuildFails: the error arm returns without notify_all.            *)
BuildFailsSilently(w) ==
  /\ pc[w] = "building" /\ failures < MaxFailures
  /\ failures' = failures + 1
  /\ shared' = [shared EXCEPT !.initializing = FALSE]
  /\ Goto(w, "retry")
  /\ UNCHANGED <<job, target, waiters, want, got, hasherVars, builds, scalings>>

(* for_algo failed: the slot stays empty, the waiters are told.            *)
BuildFails(w) ==
  /\ pc[w] = "building"
  /\ failures < MaxFailures
  /\ failures' = failures + 1
  /\ shared' = [shared EXCEPT !.initializing = FALSE]
  /\ NotifyAll
  /\ Goto(w, "retry")
  /\ UNCHANGED <<job, target, want, got, hasherVars, builds, scalings>>

-----------------------------------------------------------------------------
WorkerStep(w) ==
  \/ Top(w)
  \/ AwaitJob(w)
  \/ TakeJob(w)
  \/ LeaveHashLoop(w)
  \/ SendShare(w)
  \/ CreateHasher(w)
  \/ ReleaseOld(w)
  \/ CreatePanics(w)
  \/ Retry(w)
  \/ Enter(w)
  \/ Wake(w)
  \/ BuildSucceeds(w)
  \/ BuildFails(w)

Next ==
  \/ \E s \in Seeds : NewJob(s)
  \/ \E n \in Targets : Scale(n)
  \/ \E w \in Workers : WorkerStep(w) \/ FindShare(w) \/ SpuriousWake(w)
                         \/ Unpark(w)

(* Every thread is an OS thread the scheduler runs, and the share channel  *)
(* has room in the end, for sessions recur (Coordinator).  Jobs, scalings, *)
(* shares and spurious wake-ups are never owed.                            *)
Fairness == \A w \in Workers : WF_vars(WorkerStep(w))

Spec == Init /\ [][Next]_vars /\ Fairness

-----------------------------------------------------------------------------
(* What the protocol is for.                                               *)

TypeOK ==
  /\ job \in Jobs \cup {None}
  /\ target \in Targets
  /\ shared \in [state : Datasets \cup {None}, seed : Seeds,
                 initializing : BOOLEAN]
  /\ waiters \subseteq Workers
  /\ pc \in [Workers -> Locations]
  /\ want \in [Workers -> Jobs \cup {None}]
  /\ got \in [Workers -> Datasets \cup {None}]
  /\ hasher \in [Workers -> Datasets \cup {None}]
  /\ vms \in [Workers -> SUBSET Datasets]
  /\ curSeed \in [Workers -> Seeds]
  /\ {builds, failures, scalings} \subseteq Nat

Builders == {w \in Workers : pc[w] = "building"}

(* "claim init": two threads are never inside AlgoState::for_algo at once, *)
(* and `initializing` says exactly whether one is, however the wake-ups,   *)
(* failures and job changes interleave.                                    *)
OneBuilder ==
  /\ \A v, w \in Builders : v = w
  /\ shared.initializing <=> Builders # {}

(* A thread in the hash loop hashes with the dataset of its job's seed: a  *)
(* hash under another seed is a share the pool rejects.  current_seed is   *)
(* recorded from the job, the dataset comes from the shared slot; nothing  *)
(* local ties the two together.                                            *)
HashesWithJobSeed ==
  \A w \in Workers :
    pc[w] \in {"mining", "sending"} =>
      hasher[w] # None /\ hasher[w].seed = want[w].seed

(* Nobody sleeps on the condvar unless a build that will notify it is      *)
(* under way: no wake-up is lost between the checks and cvar.wait.         *)
NoForgottenWaiter == waiters # {} => shared.initializing

(* The datasets somebody has an Arc of; the others' memory is released.    *)
Held == ({shared.state} \cup {got[w] : w \in Workers}
          \cup {hasher[w] : w \in Workers}) \ {None}

(* A VM never outlives the dataset it works on.  The slot is emptied for   *)
(* every build, so the last Arc of an outdated dataset is that of whichever*)
(* thread is last to change its hasher, or to die.                         *)
VmsHaveMemory == \A w \in Workers : vms[w] \subseteq Held

Alive == {w \in Workers : pc[w] # "dead"}

(* Once the pools are silent and the target stays, every thread that is    *)
(* not parked ends up hashing for the newest seed: no thread is left       *)
(* waiting, threads that still want an older seed cannot rebuild for ever, *)
(* and one that dies for want of a VM takes none of the others with it.    *)
EventuallyAllMine ==
  <>[](job # None
         => \A w \in Alive : \/ pc[w] = "parked"
                             \/ /\ pc[w] \in {"mining", "sending"}
                                /\ hasher[w].seed = job.seed)

(* "Drop old state before creating new one to free memory" (worker.rs:296) *)
(* says nothing of the Arcs in the threads' hands.  Once the pools are     *)
(* silent and the target stays, all outdated datasets are released but     *)
(* those of parked threads, whichever thread built last, and for which     *)
(* seed.  A run in which a thread died is excepted: it may have left nobody*)
(* to take the newest job, and the slot keeps the older dataset.           *)
OldDatasetsGo ==
  <>[](job # None /\ Alive = Workers
         => \A d \in Held :
              \/ d.seed = job.seed
              \/ \E w \in Workers : pc[w] = "parked" /\ hasher[w] = d)
=============================================================================
