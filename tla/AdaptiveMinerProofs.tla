------------------------ MODULE AdaptiveMinerProofs ------------------------
(***************************************************************************)
(* The measured scaler is one of those Coordinator allows, so what is      *)
(* proved of the parking protocol for a target that moves freely holds for *)
(* the target the scaler chooses.                                          *)
(***************************************************************************)
EXTENDS AdaptiveMiner, CoordinatorProofs

(* A tick is a store to the target Coordinator knows, or none.             *)
LEMMA StepRefines == [AdaptiveNext]_adaptiveVars => [Next]_vars
<1> SUFFICES ASSUME [AdaptiveNext]_adaptiveVars PROVE [Next]_vars
  OBVIOUS
<1>1. CASE Tick
  BY <1>1 DEF Tick, Yield, RampOn, Next
<1>2. CASE IdleProbeFails \/ EnvironmentChanges
  BY <1>2 DEF IdleProbeFails, EnvironmentChanges
<1>3. CASE ThreadsNext
  BY <1>3 DEF Next
<1>4. CASE UNCHANGED adaptiveVars
  BY <1>4 DEF adaptiveVars
<1> QED BY <1>1, <1>2, <1>3, <1>4 DEF AdaptiveNext

(* ActivityScaler::tick implements the free target of Coordinator: every   *)
(* step of the measured miner is a step of Coordinator or leaves it alone. *)
THEOREM RefinesCoordinator == AdaptiveSpec => Init /\ [][Next]_vars
<1>1. AdaptiveInit => Init
  BY DEF AdaptiveInit
<1> QED BY <1>1, StepRefines, PTL DEF AdaptiveSpec

LEMMA AdaptiveTypeStep ==
  AdaptiveTypeOK /\ [AdaptiveNext]_adaptiveVars => AdaptiveTypeOK'
<1> SUFFICES ASSUME AdaptiveTypeOK, [AdaptiveNext]_adaptiveVars
             PROVE  AdaptiveTypeOK'
  OBVIOUS
<1>0. TypeOK'
  BY StepRefines, TypeStep DEF AdaptiveTypeOK
<1>1. TickCount \in 0 .. RampUp /\ 0 \in 0 .. RampUp
  BY RampUpAssumption DEF TickCount, AtMost, AdaptiveTypeOK
<1>2. CASE Tick
  BY <1>0, <1>1, <1>2 DEF Tick, Yield, RampOn, AdaptiveTypeOK
<1>3. CASE IdleProbeFails
  BY <1>0, <1>1, <1>3 DEF IdleProbeFails, AdaptiveTypeOK
<1>4. CASE EnvironmentChanges
  BY <1>0, <1>4 DEF EnvironmentChanges, AdaptiveTypeOK
<1>5. CASE ThreadsNext /\ UNCHANGED scalerVars
  BY <1>0, <1>5 DEF scalerVars, AdaptiveTypeOK
<1>6. CASE UNCHANGED adaptiveVars
  BY <1>0, <1>6 DEF adaptiveVars, scalerVars, AdaptiveTypeOK
<1> QED BY <1>2, <1>3, <1>4, <1>5, <1>6 DEF AdaptiveNext

(* Type correctness of the miner with its scaler: the target and the ramp  *)
(* timer stay within their limits, whatever is measured.                   *)
THEOREM AdaptiveTypeCorrect == AdaptiveSpec => []AdaptiveTypeOK
<1>1. AdaptiveInit => AdaptiveTypeOK
  BY InitTyped, RampUpAssumption DEF AdaptiveInit, AdaptiveTypeOK
<1> QED BY <1>1, AdaptiveTypeStep, PTL DEF AdaptiveSpec

(* The first min_threads threads are never parked by the scaler, for any   *)
(* numbers of threads and cores and any loads and idle times measured.     *)
THEOREM FloorKeepsHashingAdaptively == AdaptiveSpec => []FloorNeverParks
<1>1. Init => TypeOK /\ FloorNeverParks
  BY InitTyped DEF Init, FloorNeverParks, Parking
<1>2. TypeOK /\ FloorNeverParks /\ [Next]_vars => (TypeOK /\ FloorNeverParks)'
  BY TypeStep, FloorStep
<1> QED BY <1>1, <1>2, RefinesCoordinator, PTL

(* However the scaler raises and lowers the target meanwhile, at most one  *)
(* thread sleeps through the notify_all of stop().                         *)
THEOREM OneMissesStopAdaptively == AdaptiveSpec => []AtMostOneMissesStop
<1>1. TypeOK /\ ParkInv /\ [Next]_vars => (TypeOK /\ ParkInv)'
  BY TypeStep, ParkStep
<1>2. ParkInv => AtMostOneMissesStop
  BY DEF ParkInv
<1> QED BY <1>1, <1>2, InitTyped, ParkInit, RefinesCoordinator, PTL
=============================================================================
