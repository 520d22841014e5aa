---------------------------- MODULE Coordinator ----------------------------
(***************************************************************************)
(* How many threads hash: the parking and unparking of the mining threads  *)
(* against a target that goes up and down (Worker::run), stop() of         *)
(* MiningCoordinator, and the bounded channel on which a thread that found *)
(* a share can block while the stratum client is between sessions.         *)
(*                                                                         *)
(* Why the target moves is left open; AdaptiveMiner says it.  Which job is *)
(* hashed and how its dataset is built is SharedAlgoState's subject: here  *)
(* a thread that is not parked and not sending a share is hashing.  A      *)
(* fixed thread count, for which no scaler is started, is the case         *)
(* MinThreads = MaxThreads.                                                *)
(***************************************************************************)
EXTENDS Naturals, FiniteSets

CONSTANTS
  MaxThreads,  \* threads started; a thread is known by its thread_id
  MinThreads,  \* config.min_threads
  Capacity,    \* of the share channel
  None         \* the parking mutex is free

ASSUME ThreadsAssumption == MaxThreads \in Nat \ {0} /\ MinThreads \in Nat
ASSUME CapacityAssumption == Capacity \in Nat \ {0}

Workers == 0 .. MaxThreads - 1

ASSUME NoHolderAssumption == None \notin Workers

VARIABLES
  running,   \* the AtomicBool
  stopping,  \* stop(): not called, before its notify_all, or returned
  target,    \* target_threads
  pc,        \* where each thread is
  lock,      \* which thread holds the mutex of park_condvar, or None
  parked,    \* threads asleep in its cvar.wait
  queued,    \* shares in the channel
  draining   \* the stratum client is in a session and receives shares

vars == <<running, stopping, target, pc, lock, parked, queued, draining>>

controlVars == <<running, stopping, target>>

Locations == {"top", "lock", "check", "wait", "parked", "hashing", "sending",
              "stopped"}

Init ==
  /\ running = TRUE
  /\ stopping = "no"
  /\ target = MinThreads
  /\ pc = [w \in Workers |-> "top"]
  /\ lock = None
  /\ parked = {}
  /\ queued = 0
  /\ draining = FALSE

-----------------------------------------------------------------------------
(* The two stores of ActivityScaler::tick.                                 *)

SetTarget(n) ==
  /\ target' = n
  /\ UNCHANGED <<running, stopping, pc, lock, parked, queued, draining>>

ScaleUp == target < MaxThreads /\ SetTarget(target + 1)

ScaleDown == target > MinThreads /\ SetTarget(MinThreads)

-----------------------------------------------------------------------------
(* MiningCoordinator::stop: the store and the notify_all are two steps,    *)
(* and the mutex of the condvar is held for neither.                       *)
StopStore ==
  /\ running
  /\ running' = FALSE
  /\ stopping' = "notify"
  /\ UNCHANGED <<target, pc, lock, parked, queued, draining>>

(* wake_workers(): cvar.notify_all().                                      *)
WakeWorkers ==
  /\ stopping = "notify"
  /\ stopping' = "done"
  /\ parked' = {}
  /\ UNCHANGED <<running, target, pc, lock, queued, draining>>

-----------------------------------------------------------------------------
(* Worker::run.                                                            *)

Move(w, from, to) == pc[w] = from /\ pc' = [pc EXCEPT ![w] = to]

(* Faulty Top: thread_id is compared as if it counted from one.            *)
TopCountingFromOne(w) ==
  /\ \/ ~running /\ Move(w, "top", "stopped")
     \/ running /\ w + 1 >= target /\ Move(w, "top", "lock")
     \/ running /\ w + 1 < target /\ Move(w, "top", "hashing")
  /\ UNCHANGED <<controlVars, lock, parked, queued, draining>>

(* The head of the outer loop: leave, park, or go on to hash.              *)
Top(w) ==
  /\ \/ ~running /\ Move(w, "top", "stopped")
     \/ running /\ w >= target /\ Move(w, "top", "lock")
     \/ running /\ w < target /\ Move(w, "top", "hashing")
  /\ UNCHANGED <<controlVars, lock, parked, queued, draining>>

(* park_condvar.lock()                                                     *)
LockPark(w) ==
  /\ lock = None
  /\ lock' = w
  /\ Move(w, "lock", "check")
  /\ UNCHANGED <<controlVars, parked, queued, draining>>

(* Faulty CheckPark: the mutex is let go between the check and the wait.   *)
CheckParkUnguarded(w) ==
  /\ \/ /\ w >= target /\ running
        /\ Move(w, "check", "wait")
     \/ /\ w < target \/ ~running
        /\ Move(w, "check", "top")
  /\ lock' = None
  /\ UNCHANGED <<controlVars, parked, queued, draining>>

(* The condition of the while loop around cvar.wait.                       *)
CheckPark(w) ==
  /\ \/ /\ w >= target /\ running
        /\ Move(w, "check", "wait")
        /\ UNCHANGED lock
     \/ /\ w < target \/ ~running
        /\ Move(w, "check", "top")
        /\ lock' = None
  /\ UNCHANGED <<controlVars, parked, queued, draining>>

(* cvar.wait releases the mutex and sleeps in one step.                    *)
Wait(w) ==
  /\ Move(w, "wait", "parked")
  /\ parked' = parked \cup {w}
  /\ lock' = None
  /\ UNCHANGED <<controlVars, queued, draining>>

(* cvar.wait returns with the mutex held.                                  *)
Unpark(w) ==
  /\ w \notin parked
  /\ lock = None
  /\ lock' = w
  /\ Move(w, "parked", "check")
  /\ UNCHANGED <<controlVars, parked, queued, draining>>

(* A condition variable may wake a thread nobody notified.                 *)
SpuriousWake(w) ==
  /\ w \in parked
  /\ parked' = parked \ {w}
  /\ UNCHANGED <<controlVars, pc, lock, queued, draining>>

(* Faulty LeaveHashLoop: `running` is only looked at between jobs.         *)
LeaveHashLoopOnTarget(w) ==
  /\ w >= target
  /\ Move(w, "hashing", "top")
  /\ UNCHANGED <<controlVars, lock, parked, queued, draining>>

(* The check before each hash.                                             *)
LeaveHashLoop(w) ==
  /\ w >= target \/ ~running
  /\ Move(w, "hashing", "top")
  /\ UNCHANGED <<controlVars, lock, parked, queued, draining>>

(* The job channel has changed: the inner loop breaks.                     *)
NewJob(w) ==
  /\ Move(w, "hashing", "top")
  /\ UNCHANGED <<controlVars, lock, parked, queued, draining>>

(* The check passed and the hash meets the job's target: the thread enters *)
(* blocking_send.  Any other hash leaves the thread where it is.           *)
FindShare(w) ==
  /\ w < target /\ running
  /\ Move(w, "hashing", "sending")
  /\ UNCHANGED <<controlVars, lock, parked, queued, draining>>

(* Faulty SendShare: the share is pushed whatever the channel holds.       *)
SendUnbounded(w) ==
  /\ Move(w, "sending", "hashing")
  /\ queued' = queued + 1
  /\ UNCHANGED <<controlVars, lock, parked, draining>>

(* blocking_send returns once the channel has room.                        *)
SendShare(w) ==
  /\ queued < Capacity
  /\ queued' = queued + 1
  /\ Move(w, "sending", "hashing")
  /\ UNCHANGED <<controlVars, lock, parked, draining>>

-----------------------------------------------------------------------------
(* The stratum client, as the share channel sees it.                       *)

SessionChange ==
  /\ draining' = ~draining
  /\ UNCHANGED <<controlVars, pc, lock, parked, queued>>

(* submit_rx.recv() in the session's select! loop.                         *)
Receive ==
  /\ draining
  /\ queued > 0
  /\ queued' = queued - 1
  /\ UNCHANGED <<controlVars, pc, lock, parked, draining>>

-----------------------------------------------------------------------------
(* A thread's own steps, those that need nothing but a processor.          *)
WorkerStep(w) ==
  \/ Top(w)
  \/ LockPark(w)
  \/ CheckPark(w)
  \/ Wait(w)
  \/ Unpark(w)
  \/ LeaveHashLoop(w)
  \/ SendShare(w)

ThreadsNext ==
  \/ StopStore
  \/ WakeWorkers
  \/ \E w \in Workers : WorkerStep(w) \/ NewJob(w) \/ FindShare(w) \/ SpuriousWake(w)
  \/ SessionChange
  \/ Receive

Next == ScaleUp \/ ScaleDown \/ ThreadsNext

(* Threads are scheduled; the channel hands free places to its senders in  *)
(* turn; stop() runs to its end; sessions recur and receive the shares     *)
(* waiting.  Scalings, stop, jobs, shares and spurious wake-ups are not    *)
(* owed.                                                                   *)
Fairness ==
  /\ \A w \in Workers : WF_vars(WorkerStep(w)) /\ SF_vars(SendShare(w))
  /\ WF_vars(WakeWorkers)
  /\ WF_vars(SessionChange)
  /\ SF_vars(Receive)

Spec == Init /\ [][Next]_vars /\ Fairness

-----------------------------------------------------------------------------
TypeOK ==
  /\ running \in BOOLEAN
  /\ stopping \in {"no", "notify", "done"}
  /\ target \in Nat /\ MinThreads <= target
  /\ target <= MaxThreads \/ target = MinThreads
  /\ pc \in [Workers -> Locations]
  /\ lock \in Workers \cup {None}
  /\ parked \subseteq Workers
  /\ queued \in 0 .. Capacity
  /\ draining \in BOOLEAN

Parking == {"lock", "check", "wait", "parked"}

(* The first min_threads threads never park, however the target moves:     *)
(* nothing but a spurious wake-up would bring one back.                    *)
FloorNeverParks == \A w \in Workers : w < MinThreads => pc[w] \notin Parking

(* stop() notifies without the mutex, so a thread between its check and    *)
(* its wait misses that and sleeps on; since the check is made under the   *)
(* mutex, no more than one of the threads does.                            *)
Sleeps(w) == pc[w] = "wait" \/ w \in parked

AtMostOneMissesStop ==
  stopping = "done" => \A v, w \in Workers : Sleeps(v) /\ Sleeps(w) => v = w

(* After stop() no thread goes on hashing for ever, those blocked on the   *)
(* share channel included.                                                 *)
StopEndsHashing ==
  ~running ~> [](\A w \in Workers : pc[w] \notin {"hashing", "sending"})

-----------------------------------------------------------------------------
(* What the comments claim and the code does not do.                       *)

(* active_threads(), "Get number of currently active (non-parked) threads" *)
(* (miner/mod.rs:126), returns the target: once the target has settled,    *)
(* that many threads are not parked.                                       *)
ActiveThreads == {w \in Workers : pc[w] \notin Parking}

TargetIsActiveThreads ==
  \A n \in MinThreads .. MaxThreads :
    <>[](running /\ target = n) => <>[](Cardinality(ActiveThreads) = n)
=============================================================================
