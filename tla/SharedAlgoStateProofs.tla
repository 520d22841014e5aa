----------------------- MODULE SharedAlgoStateProofs -----------------------
(***************************************************************************)
(* The safety of SharedAlgoState for every set of threads, every set of    *)
(* seeds and every number of jobs and failures.                            *)
(***************************************************************************)
EXTENDS SharedAlgoState, TLAPS

(* A thread inside the initialisation, or in the hash loop, has a job.     *)
HasJob ==
  \A w \in Workers :
    pc[w] \notin {"top", "parked", "job", "dead"} => want[w] # None

(* One that has come out of the initialisation holds a dataset.            *)
HasDataset == \A w \in Workers : pc[w] \in {"create", "release"} => got[w] # None

(* TypeOK is inductive only beside these: a build is for want[w].seed, and *)
(* a VM is made on got[w].                                                 *)
Typed == TypeOK /\ HasJob /\ HasDataset

(* Where the steps that change nothing else take a thread.                 *)
Moves == {<<"top", "parked">>, <<"top", "job">>, <<"parked", "top">>,
          <<"job", "top">>, <<"mining", "top">>, <<"mining", "sending">>,
          <<"sending", "mining">>, <<"sending", "top">>, <<"retry", "top">>}
Moving(w) == \E m \in Moves : Move(w, m[1], m[2])

(* The steps a thread takes on its own variables alone.                    *)
Local(w) == Moving(w) \/ TakeJob(w) \/ CreateHasher(w) \/ ReleaseOld(w)
              \/ CreatePanics(w)

(* The step of one thread, or one of the others.                           *)
LEMMA NextCases ==
  ASSUME [Next]_vars
  PROVE  \/ \E s \in Seeds : NewJob(s)
         \/ \E n \in Targets : Scale(n)
         \/ \E w \in Workers : SpuriousWake(w)
         \/ \E w \in Workers : Local(w)
         \/ \E w \in Workers : Enter(w) \/ Wake(w)
         \/ \E w \in Workers : BuildSucceeds(w)
         \/ \E w \in Workers : BuildFails(w)
         \/ UNCHANGED vars
<1>1. ASSUME NEW w \in Workers,
             \/ Top(w) \/ Unpark(w) \/ AwaitJob(w) \/ LeaveHashLoop(w)
             \/ FindShare(w) \/ SendShare(w) \/ Retry(w)
      PROVE  Moving(w)
  <2>1. \E m \in Moves : Move(w, m[1], m[2])
    <3>1. \E m \in Moves : \E from, to : m = <<from, to>> /\ Move(w, from, to)
      BY <1>1 DEF Moves, Top, Unpark, AwaitJob, LeaveHashLoop, FindShare,
                  SendShare, Retry
    <3> QED BY <3>1
  <2> QED BY <2>1 DEF Moving
<1> QED BY <1>1 DEF Next, WorkerStep, Local

(* What a locked section that ends at a match, a wait or a claim may do:   *)
(* this is all the invariants need to know of Enter and Wake.              *)
LEMMA LockedSection ==
  ASSUME NEW w \in Workers, Enter(w) \/ Wake(w)
  PROVE  /\ pc[w] \in {"enter", "waiting"}
         /\ UNCHANGED <<job, target, want, hasherVars, countVars>>
         /\ \/ TakeShared(w)
            \/ ~shared.initializing /\ Claim(w)
            \/ /\ shared.initializing
               /\ waiters' = waiters \cup {w}
               /\ pc' \in {pc, [pc EXCEPT ![w] = "waiting"]}
               /\ UNCHANGED <<shared, got>>
<1>1. CASE Enter(w)
  BY <1>1 DEF Enter, Goto
<1>2. CASE Wake(w)
  BY <1>2 DEF Wake, Goto
<1> QED BY <1>1, <1>2

(* Reading None out of the option types.                                   *)
LEMMA OptionTypes ==
  /\ \A x \in Jobs \cup {None} : x # None => x \in Jobs
  /\ \A x \in Datasets \cup {None} : x # None => x \in Datasets
OBVIOUS

(* Types and HasJob together are inductive.                                *)
LEMMA TypedStep == Typed /\ [Next]_vars => Typed'
<1> SUFFICES ASSUME Typed, [Next]_vars PROVE Typed'
  OBVIOUS
<1> USE DEF Typed, TypeOK, HasJob, HasDataset, Locations, hasherVars, countVars
<1>1. ASSUME NEW s \in Seeds, NewJob(s) PROVE Typed'
  <2>1. job' \in Jobs
    BY <1>1, OptionTypes DEF NewJob, Jobs
  <2> QED BY <1>1, <2>1 DEF NewJob
<1>2. ASSUME NEW n \in Targets, Scale(n) PROVE Typed'
  BY <1>2, BoundAssumption DEF Scale
<1>3. ASSUME NEW w \in Workers, SpuriousWake(w) PROVE Typed'
  BY <1>3 DEF SpuriousWake
<1>4. ASSUME NEW w \in Workers, Local(w) PROVE Typed'
  <2>1. CASE Moving(w)
    BY <2>1 DEF Moving, Moves, Move, Goto
  <2>2. CASE TakeJob(w)
    BY <2>2 DEF TakeJob, Goto
  <2>3. CASE CreateHasher(w)
    <3>1. want[w].seed \in Seeds
      BY <2>3, OptionTypes DEF CreateHasher, Jobs
    <3>2. got[w] \in Datasets
      BY <2>3, OptionTypes DEF CreateHasher
    <3> QED BY <2>3, <3>1, <3>2 DEF CreateHasher, Goto
  <2>4. CASE ReleaseOld(w)
    BY <2>4 DEF ReleaseOld, Goto
  <2>5. CASE CreatePanics(w)
    BY <2>5 DEF CreatePanics, Goto
  <2> QED BY <1>4, <2>1, <2>2, <2>3, <2>4, <2>5 DEF Local
<1>5. ASSUME NEW w \in Workers, Enter(w) \/ Wake(w) PROVE Typed'
  <2>1. CASE TakeShared(w)
    <3>1. shared.state \in Datasets
      BY <2>1, OptionTypes DEF TakeShared, Matches
    <3>2. /\ got' = [got EXCEPT ![w] = shared.state]
          /\ pc' = [pc EXCEPT ![w] = "create"]
          /\ UNCHANGED <<shared, waiters>>
      BY <2>1 DEF TakeShared, Goto
    <3>3. UNCHANGED <<job, target, want, hasherVars, countVars>>
      BY <1>5, LockedSection
    <3>4. pc[w] \in {"enter", "waiting"}
      BY <1>5, LockedSection
    <3>5. TypeOK'
      BY <3>1, <3>2, <3>3
    <3>6. HasJob' /\ HasDataset'
      BY <3>1, <3>2, <3>3, <3>4, NoneAssumption
    <3> QED BY <3>5, <3>6
  <2>2. CASE Claim(w)
    <3>1. /\ shared' = [shared EXCEPT !.initializing = TRUE, !.state = None]
          /\ pc' = [pc EXCEPT ![w] = "building"]
          /\ UNCHANGED <<waiters, got>>
      BY <2>2 DEF Claim, Goto
    <3>2. UNCHANGED <<job, target, want, hasherVars, countVars>>
      BY <1>5, LockedSection
    <3>3. pc[w] \in {"enter", "waiting"}
      BY <1>5, LockedSection
    <3>4. TypeOK'
      BY <3>1, <3>2
    <3> QED BY <3>1, <3>2, <3>3, <3>4
  <2>3. CASE /\ waiters' = waiters \cup {w}
             /\ pc' \in {pc, [pc EXCEPT ![w] = "waiting"]}
             /\ UNCHANGED <<shared, got>>
    BY <1>5, <2>3, LockedSection
  <2> QED BY <1>5, <2>1, <2>2, <2>3, LockedSection
<1>6. ASSUME NEW w \in Workers, BuildSucceeds(w) PROVE Typed'
  <2> DEFINE d == [seed |-> want[w].seed, build |-> builds + 1]
  <2>1. want[w].seed \in Seeds
    BY <1>6, OptionTypes DEF BuildSucceeds, Jobs
  <2>2. d \in Datasets
    BY <2>1 DEF Datasets
  <2>3. /\ shared' = [state |-> d, seed |-> want[w].seed, initializing |-> FALSE]
        /\ got' = [got EXCEPT ![w] = d]
    BY <1>6 DEF BuildSucceeds
  <2>4. /\ pc' = [pc EXCEPT ![w] = "create"] /\ waiters' = {}
        /\ builds' = builds + 1 /\ want[w] # None
        /\ UNCHANGED <<job, target, want, hasherVars, failures, scalings>>
    BY <1>6 DEF BuildSucceeds, NotifyAll, Goto
  <2> HIDE DEF d
  <2>5. shared' \in [state : Datasets \cup {None}, seed : Seeds,
                    initializing : BOOLEAN]
    BY <2>1, <2>2, <2>3
  <2>6. got' \in [Workers -> Datasets \cup {None}]
    BY <2>2, <2>3
  <2>7. TypeOK'
    <3>1. pc' \in [Workers -> Locations] /\ waiters' \subseteq Workers
      BY <2>4
    <3>2. builds' \in Nat
      BY <2>4
    <3> QED BY <2>4, <2>5, <2>6, <3>1, <3>2
  <2>8. d # None
    BY <2>2, NoneAssumption
  <2>9. HasJob' /\ HasDataset'
    BY <2>3, <2>4, <2>8
  <2> QED BY <2>7, <2>9
<1>7. ASSUME NEW w \in Workers, BuildFails(w) PROVE Typed'
  <2>1. want[w] # None
    BY <1>7 DEF BuildFails
  <2>2. TypeOK'
    <3>1. shared' \in [state : Datasets \cup {None}, seed : Seeds,
                      initializing : BOOLEAN]
      BY <1>7 DEF BuildFails
    <3>2. pc' \in [Workers -> Locations] /\ waiters' \subseteq Workers
      BY <1>7 DEF BuildFails, NotifyAll, Goto
    <3>3. failures' \in Nat
      BY <1>7 DEF BuildFails
    <3> QED BY <1>7, <3>1, <3>2, <3>3 DEF BuildFails
  <2>3. HasJob' /\ HasDataset'
    BY <1>7, <2>1 DEF BuildFails, Goto
  <2> QED BY <2>2, <2>3
<1>8. CASE UNCHANGED vars
  BY <1>8 DEF vars
<1> QED
  BY <1>1, <1>2, <1>3, <1>4, <1>5, <1>6, <1>7, <1>8, NextCases

LEMMA InitTyped == Init => Typed
BY SeedAssumption DEF Init, Typed, TypeOK, HasJob, HasDataset, Locations

(* Type correctness.                                                       *)
THEOREM TypeCorrect == Spec => []TypeOK
<1>1. Typed => TypeOK
  BY DEF Typed
<1> QED BY <1>1, InitTyped, TypedStep, PTL DEF Spec

-----------------------------------------------------------------------------
(* One builder at a time.                                                  *)
LEMMA OneBuilderStep == Typed /\ OneBuilder /\ [Next]_vars => OneBuilder'
<1> SUFFICES ASSUME Typed, OneBuilder, [Next]_vars PROVE OneBuilder'
  OBVIOUS
<1> USE DEF Typed, TypeOK, OneBuilder, Builders
<1>1. CASE \E s \in Seeds : NewJob(s)
  BY <1>1 DEF NewJob
<1>2. CASE \E n \in Targets : Scale(n)
  BY <1>2 DEF Scale
<1>3. CASE \E w \in Workers : SpuriousWake(w)
  BY <1>3 DEF SpuriousWake
<1>4. ASSUME NEW w \in Workers, Local(w) PROVE OneBuilder'
  <2>1. /\ pc[w] # "building" /\ pc'[w] # "building"
        /\ \A v \in Workers \ {w} : pc'[v] = pc[v]
        /\ UNCHANGED shared
    BY <1>4 DEF Local, Moving, Moves, Move, TakeJob, CreateHasher, ReleaseOld,
                CreatePanics, Goto
  <2>2. Builders' = Builders
    BY <2>1
  <2> QED BY <2>1, <2>2
<1>5. ASSUME NEW w \in Workers, Enter(w) \/ Wake(w) PROVE OneBuilder'
  <2>1. pc[w] # "building"
    BY <1>5, LockedSection
  <2>2. CASE ~shared.initializing /\ Claim(w)
    <3>1. Builders = {}
      BY <2>2
    <3>2. Builders' = {w}
      BY <2>2, <3>1 DEF Claim, Goto
    <3>3. shared'.initializing
      BY <2>2 DEF Claim
    <3> QED BY <3>2, <3>3
  <2>3. CASE ~Claim(w)
    <3>1. /\ pc'[w] # "building"
          /\ \A v \in Workers \ {w} : pc'[v] = pc[v]
          /\ UNCHANGED shared
      BY <1>5, <2>1, <2>3, LockedSection DEF TakeShared, Goto
    <3>2. Builders' = Builders
      BY <2>1, <3>1
    <3> QED BY <3>1, <3>2
  <2> QED BY <1>5, <2>2, <2>3, LockedSection DEF Claim, TakeShared, Goto
<1>6. ASSUME NEW w \in Workers, BuildSucceeds(w) \/ BuildFails(w)
      PROVE  OneBuilder'
  <2>1. /\ pc[w] = "building" /\ pc'[w] # "building"
        /\ \A v \in Workers \ {w} : pc'[v] = pc[v]
    BY <1>6 DEF BuildSucceeds, BuildFails, Goto
  <2>2. Builders' = {}
    BY <2>1
  <2>3. ~shared'.initializing
    BY <1>6 DEF BuildSucceeds, BuildFails
  <2> QED BY <2>2, <2>3
<1>7. CASE UNCHANGED vars
  BY <1>7 DEF vars
<1> QED
  BY <1>1, <1>2, <1>3, <1>4, <1>5, <1>6, <1>7, NextCases

(* At most one thread builds a dataset, and `initializing` tells whether.  *)
THEOREM BuildsAreExclusive == Spec => []OneBuilder
<1>1. Init => OneBuilder
  BY DEF Init, OneBuilder, Builders
<1> QED BY <1>1, InitTyped, TypedStep, OneBuilderStep, PTL DEF Spec

-----------------------------------------------------------------------------
(* Nobody sleeps unless a build is under way.                              *)
LEMMA WaiterStep ==
  Typed /\ NoForgottenWaiter /\ [Next]_vars => NoForgottenWaiter'
<1> SUFFICES ASSUME Typed, NoForgottenWaiter, [Next]_vars
             PROVE  NoForgottenWaiter'
  OBVIOUS
<1> USE DEF Typed, TypeOK, NoForgottenWaiter
<1>1. CASE \E s \in Seeds : NewJob(s)
  BY <1>1 DEF NewJob
<1>2. CASE \E n \in Targets : Scale(n)
  BY <1>2 DEF Scale
<1>3. CASE \E w \in Workers : SpuriousWake(w)
  BY <1>3 DEF SpuriousWake
<1>4. CASE \E w \in Workers : Local(w)
  BY <1>4 DEF Local, Moving, Move, TakeJob, CreateHasher, ReleaseOld,
              CreatePanics
<1>5. ASSUME NEW w \in Workers, Enter(w) \/ Wake(w) PROVE NoForgottenWaiter'
  <2>1. CASE Claim(w)
    BY <2>1 DEF Claim
  <2>2. CASE ~Claim(w)
    BY <1>5, <2>2, LockedSection DEF TakeShared
  <2> QED BY <2>1, <2>2
<1>6. CASE \E w \in Workers : BuildSucceeds(w) \/ BuildFails(w)
  BY <1>6 DEF BuildSucceeds, BuildFails, NotifyAll
<1>7. CASE UNCHANGED vars
  BY <1>7 DEF vars
<1> QED
  BY <1>1, <1>2, <1>3, <1>4, <1>5, <1>6, <1>7, NextCases

(* A sleeping thread has a builder that will wake it.                      *)
THEOREM NobodyIsForgotten == Spec => []NoForgottenWaiter
<1>1. Init => NoForgottenWaiter
  BY DEF Init, NoForgottenWaiter
<1> QED BY <1>1, InitTyped, TypedStep, WaiterStep, PTL DEF Spec

-----------------------------------------------------------------------------
(* Seeds.  The dataset a thread hashes with passes through three hands,    *)
(* and its seed is recorded beside each: shared.seed, the job of the       *)
(* thread that takes or builds it, and current_seed.                       *)
SlotSeed == shared.state # None => shared.state.seed = shared.seed
GotSeed(w) == pc[w] \in {"create", "release"} => got[w].seed = want[w].seed
HasherSeed(w) ==
  IF pc[w] = "release" THEN curSeed[w] = want[w].seed
  ELSE hasher[w] # None => hasher[w].seed = curSeed[w]
MiningSeed(w) ==
  pc[w] \in {"mining", "sending"} =>
    hasher[w] # None /\ hasher[w].seed = want[w].seed

(* A thread's VM is on the dataset of its hasher, or, when the new hasher  *)
(* is about to take the old one's place, on that of the new.               *)
VmsOwned(w) ==
  vms[w] = IF pc[w] = "release" THEN {got[w]} ELSE {hasher[w]} \ {None}

HasherOk(w) == GotSeed(w) /\ HasherSeed(w) /\ MiningSeed(w) /\ VmsOwned(w)
HasherInv == SlotSeed /\ \A w \in Workers : HasherOk(w)

(* A step that touches one thread's variables only leaves the others'      *)
(* hashers in order.                                                       *)
LEMMA OtherThreads ==
  ASSUME NEW w \in Workers, NEW v \in Workers \ {w}, HasherOk(v),
         pc'[v] = pc[v], want'[v] = want[v], got'[v] = got[v],
         hasher'[v] = hasher[v], vms'[v] = vms[v], curSeed'[v] = curSeed[v]
  PROVE  HasherOk(v)'
BY DEF HasherOk, GotSeed, HasherSeed, MiningSeed, VmsOwned

LEMMA HasherStep == Typed /\ HasherInv /\ [Next]_vars => HasherInv'
<1> SUFFICES ASSUME Typed, HasherInv, [Next]_vars PROVE HasherInv'
  OBVIOUS
<1> USE DEF Typed, TypeOK, HasDataset
<1>1. CASE \/ \E s \in Seeds : NewJob(s)
           \/ \E n \in Targets : Scale(n)
           \/ \E w \in Workers : SpuriousWake(w)
           \/ UNCHANGED vars
  <2>1. UNCHANGED <<shared, pc, want, got, hasher, vms, curSeed>>
    BY <1>1 DEF NewJob, Scale, SpuriousWake, vars, hasherVars
  <2> QED
    BY <2>1 DEF HasherInv, SlotSeed, HasherOk, GotSeed, HasherSeed, MiningSeed,
                VmsOwned
<1>2. ASSUME NEW w \in Workers, Local(w) PROVE HasherInv'
  <2> USE DEF Goto, hasherVars, countVars
  <2>1. \A v \in Workers \ {w} : HasherOk(v)'
    BY <1>2, OtherThreads
    DEF HasherInv, Local, Moving, Move, TakeJob, CreateHasher, ReleaseOld,
        CreatePanics
  <2>2. SlotSeed'
    BY <1>2 DEF HasherInv, SlotSeed, Local, Moving, Move, TakeJob, CreateHasher,
                ReleaseOld, CreatePanics
  <2>3. HasherOk(w)
    BY DEF HasherInv
  <2>4. HasherOk(w)'
    <3> USE DEF HasherOk, GotSeed, HasherSeed, MiningSeed, VmsOwned
    <3>1. CASE Moving(w)
      BY <3>1, <2>3 DEF Moving, Moves, Move
    <3>2. CASE TakeJob(w)
      BY <3>2, <2>3 DEF TakeJob
    <3>3. CASE CreateHasher(w)
      BY <3>3, <2>3 DEF CreateHasher
    <3>4. CASE ReleaseOld(w)
      BY <3>4, <2>3 DEF ReleaseOld
    <3>5. CASE CreatePanics(w)
      BY <3>5, <2>3 DEF CreatePanics
    <3> QED BY <1>2, <3>1, <3>2, <3>3, <3>4, <3>5 DEF Local
  <2> QED BY <2>1, <2>2, <2>4 DEF HasherInv
<1>3. ASSUME NEW w \in Workers, Enter(w) \/ Wake(w) PROVE HasherInv'
  <2>1. /\ pc[w] \in {"enter", "waiting"}
        /\ UNCHANGED <<want, hasher, vms, curSeed>>
    BY <1>3, LockedSection DEF hasherVars
  <2>2. /\ \A v \in Workers \ {w} : pc'[v] = pc[v] /\ got'[v] = got[v]
        /\ pc'[w] \in {"enter", "waiting", "building", "create"}
    BY <1>3, LockedSection DEF TakeShared, Claim, Goto
  <2>3. \A v \in Workers \ {w} : HasherOk(v)'
    BY <2>1, <2>2, OtherThreads DEF HasherInv
  <2>4. SlotSeed'
    BY <1>3, LockedSection DEF HasherInv, SlotSeed, TakeShared, Claim
  <2>5. GotSeed(w)'
    <3>1. CASE TakeShared(w)
      BY <2>1, <3>1 DEF TakeShared, Matches, HasherInv, SlotSeed, GotSeed
    <3>2. CASE ~TakeShared(w)
      <4>1. pc'[w] \notin {"create", "release"}
        BY <1>3, <2>1, <3>2, LockedSection DEF Claim, Goto
      <4> QED BY <4>1 DEF GotSeed
    <3> QED BY <3>1, <3>2
  <2>6. HasherSeed(w)' /\ MiningSeed(w)' /\ VmsOwned(w)'
    BY <2>1, <2>2 DEF HasherInv, HasherOk, HasherSeed, MiningSeed, VmsOwned
  <2> QED BY <2>3, <2>4, <2>5, <2>6 DEF HasherInv, HasherOk
<1>4. ASSUME NEW w \in Workers, BuildSucceeds(w) PROVE HasherInv'
  <2> DEFINE d == [seed |-> want[w].seed, build |-> builds + 1]
  <2>1. d.seed = want[w].seed
    OBVIOUS
  <2>2. /\ shared' = [state |-> d, seed |-> want[w].seed, initializing |-> FALSE]
        /\ got' = [got EXCEPT ![w] = d]
        /\ pc[w] = "building" /\ pc' = [pc EXCEPT ![w] = "create"]
        /\ UNCHANGED <<want, hasher, vms, curSeed>>
    BY <1>4 DEF BuildSucceeds, Goto, hasherVars
  <2> HIDE DEF d
  <2>3. SlotSeed'
    BY <2>1, <2>2 DEF SlotSeed
  <2>4. \A v \in Workers \ {w} : HasherOk(v)'
    BY <2>2, OtherThreads DEF HasherInv
  <2>5. HasherOk(w)'
    BY <2>1, <2>2
    DEF HasherInv, HasherOk, GotSeed, HasherSeed, MiningSeed, VmsOwned
  <2> QED BY <2>3, <2>4, <2>5 DEF HasherInv
<1>5. ASSUME NEW w \in Workers, BuildFails(w) PROVE HasherInv'
  <2>1. /\ shared'.state = shared.state /\ shared'.seed = shared.seed
        /\ pc[w] = "building" /\ pc' = [pc EXCEPT ![w] = "retry"]
        /\ UNCHANGED <<want, got, hasher, vms, curSeed>>
    BY <1>5 DEF BuildFails, Goto, hasherVars
  <2>2. \A v \in Workers \ {w} : HasherOk(v)'
    BY <2>1, OtherThreads DEF HasherInv
  <2>3. HasherOk(w)'
    BY <2>1
    DEF HasherInv, HasherOk, GotSeed, HasherSeed, MiningSeed, VmsOwned
  <2> QED BY <2>1, <2>2, <2>3 DEF HasherInv, SlotSeed
<1> QED
  BY <1>1, <1>2, <1>3, <1>4, <1>5, NextCases

LEMMA InitHasher == Init => HasherInv
BY DEF Init, HasherInv, SlotSeed, HasherOk, GotSeed, HasherSeed, MiningSeed,
       VmsOwned

(* Every hash a thread computes is computed with the dataset of its job's  *)
(* seed.                                                                   *)
THEOREM HashesAreForTheJob == Spec => []HashesWithJobSeed
<1>1. HasherInv => HashesWithJobSeed
  BY DEF HasherInv, HasherOk, MiningSeed, HashesWithJobSeed
<1> QED BY <1>1, InitHasher, InitTyped, TypedStep, HasherStep, PTL DEF Spec

(* No VM outlives its dataset, whichever thread is the last to change its  *)
(* hasher or to die.                                                       *)
THEOREM VmsAreSafe == Spec => []VmsHaveMemory
<1>1. ASSUME Typed, HasherInv PROVE VmsHaveMemory
  <2>1. ASSUME NEW w \in Workers PROVE vms[w] \subseteq Held
    <3>1. VmsOwned(w)
      BY <1>1 DEF HasherInv, HasherOk
    <3>2. CASE pc[w] = "release"
      <4>1. vms[w] = {got[w]} /\ got[w] # None
        BY <1>1, <3>1, <3>2 DEF VmsOwned, Typed, HasDataset
      <4> QED BY <4>1 DEF Held
    <3>3. CASE pc[w] # "release"
      BY <3>1, <3>3 DEF VmsOwned, Held
    <3> QED BY <3>2, <3>3
  <2> QED BY <2>1 DEF VmsHaveMemory
<1> QED BY <1>1, InitHasher, InitTyped, TypedStep, HasherStep, PTL DEF Spec
=============================================================================
