------------------------- MODULE CoordinatorProofs -------------------------
(***************************************************************************)
(* The parking of the mining threads, for any number of threads.           *)
(***************************************************************************)
EXTENDS Coordinator, TLAPS

LEMMA InitTyped == Init => TypeOK
<1> SUFFICES ASSUME Init PROVE TypeOK
  OBVIOUS
<1>1. running \in BOOLEAN /\ draining \in BOOLEAN
  BY DEF Init
<1>2. target \in Nat /\ target = MinThreads
  BY ThreadsAssumption DEF Init
<1>3. pc \in [Workers -> Locations] /\ parked \subseteq Workers
  BY DEF Init, Locations
<1>4. queued \in 0 .. Capacity
  BY CapacityAssumption DEF Init
<1> QED BY <1>1, <1>2, <1>3, <1>4 DEF Init, TypeOK

LEMMA TypeStep == TypeOK /\ [Next]_vars => TypeOK'
<1> SUFFICES ASSUME TypeOK, [Next]_vars PROVE TypeOK'
  OBVIOUS
<1> USE ThreadsAssumption, CapacityAssumption
    DEF TypeOK, controlVars
<1>1. CASE ScaleUp
  BY <1>1 DEF ScaleUp, SetTarget
<1>2. CASE ScaleDown
  BY <1>2 DEF ScaleDown, SetTarget
<1>3. CASE StopStore \/ WakeWorkers \/ SessionChange
  BY <1>3 DEF StopStore, WakeWorkers, SessionChange
<1>4. CASE Receive
  BY <1>4 DEF Receive
<1>5. ASSUME NEW w \in Workers,
             WorkerStep(w) \/ NewJob(w) \/ FindShare(w) \/ SpuriousWake(w)
      PROVE  TypeOK'
  <2> USE DEF Move, Locations
  <2>1. CASE Top(w)
    BY <2>1 DEF Top
  <2>2. CASE LockPark(w) \/ CheckPark(w) \/ Wait(w) \/ Unpark(w)
    BY <2>2 DEF LockPark, CheckPark, Wait, Unpark
  <2>3. CASE LeaveHashLoop(w) \/ NewJob(w) \/ FindShare(w)
    BY <2>3 DEF LeaveHashLoop, NewJob, FindShare
  <2>4. CASE SendShare(w)
    BY <2>4 DEF SendShare
  <2>5. CASE SpuriousWake(w)
    BY <2>5 DEF SpuriousWake
  <2> QED BY <1>5, <2>1, <2>2, <2>3, <2>4, <2>5 DEF WorkerStep
<1>6. CASE UNCHANGED vars
  BY <1>6 DEF vars
<1> QED BY <1>1, <1>2, <1>3, <1>4, <1>5, <1>6 DEF Next, ThreadsNext

(* Type correctness: the target stays within its limits, and the channel   *)
(* within its capacity.                                                    *)
THEOREM TypeCorrect == Spec => []TypeOK
BY InitTyped, TypeStep, PTL DEF Spec

(* A thread parks only when it has seen a target not above its id, and no  *)
(* target is below min_threads.                                            *)
LEMMA FloorStep == TypeOK /\ FloorNeverParks /\ [Next]_vars => FloorNeverParks'
<1> SUFFICES ASSUME TypeOK, FloorNeverParks, [Next]_vars
             PROVE  FloorNeverParks'
  OBVIOUS
<1> USE ThreadsAssumption DEF TypeOK, FloorNeverParks, Parking, controlVars
<1>1. CASE ScaleUp \/ ScaleDown \/ StopStore \/ WakeWorkers \/ SessionChange
           \/ Receive \/ UNCHANGED vars
  BY <1>1 DEF ScaleUp, ScaleDown, SetTarget, StopStore, WakeWorkers,
              SessionChange, Receive, vars
<1>2. ASSUME NEW w \in Workers,
             WorkerStep(w) \/ NewJob(w) \/ FindShare(w) \/ SpuriousWake(w)
      PROVE  FloorNeverParks'
  <2> USE DEF Move, Workers
  <2>1. CASE Top(w)
    BY <2>1 DEF Top
  <2>2. CASE LockPark(w) \/ CheckPark(w) \/ Wait(w) \/ Unpark(w)
    BY <2>2 DEF LockPark, CheckPark, Wait, Unpark
  <2>3. CASE LeaveHashLoop(w) \/ NewJob(w) \/ FindShare(w) \/ SendShare(w)
    BY <2>3 DEF LeaveHashLoop, NewJob, FindShare, SendShare
  <2>4. CASE SpuriousWake(w)
    BY <2>4 DEF SpuriousWake
  <2> QED BY <1>2, <2>1, <2>2, <2>3, <2>4 DEF WorkerStep
<1> QED BY <1>1, <1>2 DEF Next, ThreadsNext

(* The first min_threads threads are never put to sleep, whatever the      *)
(* scaler does.                                                            *)
THEOREM FloorKeepsHashing == Spec => []FloorNeverParks
<1>1. Init => FloorNeverParks
  BY DEF Init, FloorNeverParks, Parking
<1> QED BY <1>1, FloorStep, TypeCorrect, PTL DEF Spec

-----------------------------------------------------------------------------
(* The mutex and the wake-up of stop().                                    *)

(* Who is past park_condvar.lock() and not asleep holds the mutex.         *)
MutexIsHeld == \A w \in Workers : pc[w] \in {"check", "wait"} => lock = w

SleepersArePut == \A w \in parked : pc[w] = "parked"

StoppedInOrder == running <=> stopping = "no"

ParkInv == MutexIsHeld /\ SleepersArePut /\ StoppedInOrder /\ AtMostOneMissesStop

LEMMA ParkInit == Init => ParkInv
BY DEF Init, ParkInv, MutexIsHeld, SleepersArePut, StoppedInOrder,
       AtMostOneMissesStop

(* What a move of one thread leaves to be shown.                           *)
LEMMA MoveKeeps ==
  ASSUME TypeOK, ParkInv, NEW w \in Workers, NEW from, NEW to, Move(w, from, to),
         UNCHANGED <<running, stopping>>,
         \A v \in Workers : v # w => (lock = v => lock' = v),
         to \in {"check", "wait"} => lock' = w,
         parked' \subseteq parked \cup {w},
         w \in parked' => to = "parked",
         stopping = "done" /\ (to = "wait" \/ w \in parked') => Sleeps(w)
  PROVE  ParkInv'
<1>1. /\ pc'[w] = to
      /\ \A v \in Workers : v # w => pc'[v] = pc[v]
  BY DEF Move, TypeOK
<1>2. parked \subseteq Workers
  BY DEF TypeOK
<1>3. MutexIsHeld'
  BY <1>1 DEF ParkInv, MutexIsHeld
<1>4. SleepersArePut'
  BY <1>1, <1>2 DEF ParkInv, SleepersArePut
<1>5. StoppedInOrder'
  BY DEF ParkInv, StoppedInOrder
<1>6. AtMostOneMissesStop'
  <2> SUFFICES ASSUME stopping = "done", NEW u \in Workers, NEW v \in Workers,
                      Sleeps(u)', Sleeps(v)'
               PROVE  u = v
    BY DEF AtMostOneMissesStop
  <2>1. ASSUME NEW x \in Workers, Sleeps(x)' PROVE Sleeps(x)
    <3>1. CASE x = w
      BY <2>1, <3>1, <1>1 DEF Sleeps
    <3>2. CASE x # w
      BY <2>1, <3>2, <1>1 DEF Sleeps
    <3> QED BY <3>1, <3>2
  <2> QED BY <2>1 DEF ParkInv, AtMostOneMissesStop
<1> QED BY <1>3, <1>4, <1>5, <1>6 DEF ParkInv

LEMMA ParkStep == TypeOK /\ ParkInv /\ [Next]_vars => ParkInv'
<1> SUFFICES ASSUME TypeOK, ParkInv, [Next]_vars PROVE ParkInv'
  OBVIOUS
<1>0. /\ \A v \in Workers : v # None
      /\ \A v \in Workers : pc[v] \in {"check", "wait"} => lock = v
      /\ \A v \in parked : pc[v] = "parked"
      /\ running <=> stopping = "no"
  BY NoHolderAssumption DEF ParkInv, MutexIsHeld, SleepersArePut, StoppedInOrder
<1>1. CASE ScaleUp \/ ScaleDown \/ SessionChange \/ Receive \/ UNCHANGED vars
  <2>1. UNCHANGED <<running, stopping, pc, lock, parked>>
    BY <1>1 DEF ScaleUp, ScaleDown, SetTarget, SessionChange, Receive,
                controlVars, vars
  <2> QED BY <2>1 DEF ParkInv, MutexIsHeld, SleepersArePut, StoppedInOrder,
                      AtMostOneMissesStop, Sleeps
<1>2. CASE StopStore
  BY <1>2 DEF StopStore, ParkInv, MutexIsHeld, SleepersArePut, StoppedInOrder,
              AtMostOneMissesStop
<1>3. CASE WakeWorkers
  <2>1. /\ stopping = "notify" /\ stopping' = "done" /\ parked' = {}
        /\ UNCHANGED <<running, pc, lock>>
    BY <1>3 DEF WakeWorkers
  <2>2. AtMostOneMissesStop'
    BY <1>0, <2>1 DEF AtMostOneMissesStop, Sleeps
  <2> QED BY <2>1, <2>2 DEF ParkInv, MutexIsHeld, SleepersArePut, StoppedInOrder
<1>4. ASSUME NEW w \in Workers,
             WorkerStep(w) \/ NewJob(w) \/ FindShare(w) \/ SpuriousWake(w)
      PROVE  ParkInv'
  <2>0. w \notin parked \/ pc[w] = "parked"
    BY <1>0
  <2>1. CASE Top(w)
    <3>1. PICK to \in {"stopped", "lock", "hashing"} : Move(w, "top", to)
      BY <2>1 DEF Top
    <3>2. UNCHANGED <<running, stopping, lock, parked>> /\ pc[w] = "top"
      BY <2>1, <3>1 DEF Top, controlVars, Move
    <3> QED BY <2>0, <3>1, <3>2, MoveKeeps
  <2>2. CASE LockPark(w)
    <3>1. /\ Move(w, "lock", "check") /\ lock = None /\ lock' = w
          /\ pc[w] = "lock" /\ UNCHANGED <<running, stopping, parked>>
      BY <2>2 DEF LockPark, controlVars, Move
    <3> QED BY <1>0, <2>0, <3>1, MoveKeeps
  <2>3. CASE CheckPark(w)
    <3>1. /\ pc[w] = "check" /\ lock = w
          /\ UNCHANGED <<running, stopping, parked>>
      BY <1>0, <2>3 DEF CheckPark, controlVars, Move
    <3>2. CASE running /\ Move(w, "check", "wait") /\ UNCHANGED lock
      <4>1. stopping # "done"
        BY <1>0, <3>2
      <4> QED BY <2>0, <3>1, <3>2, <4>1, MoveKeeps
    <3>3. CASE Move(w, "check", "top") /\ lock' = None
      BY <2>0, <3>1, <3>3, MoveKeeps
    <3> QED BY <2>3, <3>2, <3>3 DEF CheckPark
  <2>4. CASE Wait(w)
    <3>1. /\ Move(w, "wait", "parked") /\ pc[w] = "wait" /\ lock = w
          /\ parked' = parked \cup {w}
          /\ UNCHANGED <<running, stopping>>
      BY <1>0, <2>4 DEF Wait, controlVars, Move
    <3>2. Sleeps(w)
      BY <3>1 DEF Sleeps
    <3> QED BY <3>1, <3>2, MoveKeeps
  <2>5. CASE Unpark(w)
    <3>1. /\ Move(w, "parked", "check") /\ w \notin parked
          /\ lock = None /\ lock' = w
          /\ UNCHANGED <<running, stopping, parked>>
      BY <2>5 DEF Unpark, controlVars
    <3> QED BY <1>0, <3>1, MoveKeeps
  <2>6. CASE LeaveHashLoop(w) \/ NewJob(w) \/ FindShare(w) \/ SendShare(w)
    <3>1. PICK from \in {"hashing", "sending"}, to \in {"top", "sending", "hashing"} :
            Move(w, from, to)
      BY <2>6 DEF LeaveHashLoop, NewJob, FindShare, SendShare
    <3>2. UNCHANGED <<running, stopping, lock, parked>> /\ pc[w] # "parked"
      BY <2>6, <3>1 DEF LeaveHashLoop, NewJob, FindShare, SendShare,
                        controlVars, Move
    <3> QED BY <2>0, <3>1, <3>2, MoveKeeps
  <2>7. CASE SpuriousWake(w)
    <3>1. parked' \subseteq parked /\ UNCHANGED <<running, stopping, pc, lock>>
      BY <2>7 DEF SpuriousWake, controlVars
    <3> QED BY <3>1 DEF ParkInv, MutexIsHeld, SleepersArePut, StoppedInOrder,
                        AtMostOneMissesStop, Sleeps
  <2> QED BY <1>4, <2>1, <2>2, <2>3, <2>4, <2>5, <2>6, <2>7 DEF WorkerStep
<1> QED BY <1>1, <1>2, <1>3, <1>4 DEF Next, ThreadsNext

(* The mutex of park_condvar is held by one thread at a time, and so at    *)
(* most one thread sleeps through the notify_all of stop().                *)
THEOREM OneMissesStop == Spec => []AtMostOneMissesStop
<1>1. TypeOK /\ ParkInv /\ [Next]_vars => (TypeOK /\ ParkInv)'
  BY TypeStep, ParkStep
<1>2. ParkInv => AtMostOneMissesStop
  BY DEF ParkInv
<1> QED BY <1>1, <1>2, InitTyped, ParkInit, PTL DEF Spec
=============================================================================
