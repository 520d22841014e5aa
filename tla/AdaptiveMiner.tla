--------------------------- MODULE AdaptiveMiner ---------------------------
(***************************************************************************)
(* The mining threads under their scaler: Coordinator with the target      *)
(* moved by what ActivityScaler::tick measures every ten seconds, the idle *)
(* time of the user and the load of the processors.                        *)
(*                                                                         *)
(* Time is counted in ticks.  Loads are counted in cores: the share of     *)
(* busy ticks of CpuLoadMonitor::sample is a load over Cores.  The load is *)
(* that of the moment, where the code takes the average since the tick     *)
(* before.                                                                 *)
(***************************************************************************)
EXTENDS Coordinator

CONSTANTS
  Cores,    \* num_cpus::get()
  Demands,  \* cores other processes may ask for, from time to time
  Ceiling,  \* cpu_ceiling, in percent
  Blind,    \* whether a load sample may fail
  RampUp    \* ramp_up_speed, in ticks

ASSUME CoresAssumption == Cores \in Nat \ {0} /\ Ceiling \in 0 .. 100
ASSUME DemandsAssumption == Demands \subseteq Nat /\ Blind \in BOOLEAN
ASSUME RampUpAssumption == RampUp \in Nat

VARIABLES
  user,    \* whether idle_secs is below idle_threshold
  other,   \* cores other processes ask for
  since    \* ticks since last_scale_up, counted up to RampUp

scalerVars == <<user, other, since>>

adaptiveVars == <<vars, scalerVars>>

AdaptiveInit ==
  /\ Init
  /\ user \in {"active", "idle"}
  /\ other \in Demands
  /\ since = 0

-----------------------------------------------------------------------------
(* What tick() measures.                                                   *)

Hashing == {w \in Workers : pc[w] = "hashing"}

AtMost(limit, n) == IF n <= limit THEN n ELSE limit

(* No more cores are busy than there are.                                  *)
TotalLoad == AtMost(Cores, Cardinality(Hashing) + other)

(* What tick() takes for the load.  sample() has none to return when       *)
(* sysctl fails now or failed the time before, when no tick has passed or  *)
(* a 32-bit counter has wrapped, for which saturating_sub makes the total  *)
(* zero; the machine then counts as free of external load.                 *)
Samples == {TotalLoad} \cup (IF Blind THEN {0} ELSE {})

(* Faulty External: the miner's own load counts.                           *)
ExternalWithOwn(load) == load

External(load) == IF load > target THEN load - target ELSE 0

SystemBusy(load) == 100 * External(load) > Ceiling * Cores

(* Faulty MustYield: the load is measured, and the user forgotten.         *)
MustYieldToLoad(load) == SystemBusy(load)

MustYield(load) == user = "active" \/ SystemBusy(load)

(* Ten-second ticks drift: after RampUp ticks ramp_up_speed may just have  *)
(* passed or not.                                                          *)
TickCount == AtMost(RampUp, since + 1)

MayRampUp == since + 1 >= RampUp

MustRampUp == since >= RampUp

-----------------------------------------------------------------------------
(* ActivityScaler::tick.                                                   *)

Yield ==
  \/ ScaleDown /\ since' = 0
  \/ /\ target <= MinThreads
     /\ since' = TickCount
     /\ UNCHANGED vars

RampOn ==
  \/ MayRampUp /\ ScaleUp /\ since' = 0
  \/ /\ target >= MaxThreads \/ ~MustRampUp
     /\ since' = TickCount
     /\ UNCHANGED vars

Tick ==
  /\ \E load \in Samples :
       \/ MustYield(load) /\ Yield
       \/ ~MustYield(load) /\ RampOn
  /\ UNCHANGED <<user, other>>

(* get_idle_seconds() fails and tick() returns.                            *)
IdleProbeFails ==
  /\ since' = TickCount
  /\ UNCHANGED <<vars, user, other>>

-----------------------------------------------------------------------------
(* The user and the other processes do as they please.                     *)
EnvironmentChanges ==
  /\ \/ user' \in {"active", "idle"} \ {user} /\ UNCHANGED other
     \/ other' \in Demands \ {other} /\ UNCHANGED user
  /\ UNCHANGED <<vars, since>>

AdaptiveNext ==
  \/ Tick
  \/ IdleProbeFails
  \/ EnvironmentChanges
  \/ ThreadsNext /\ UNCHANGED scalerVars

(* The timer keeps ticking, and the idle probe does not fail for ever.     *)
AdaptiveSpec ==
  /\ AdaptiveInit
  /\ [][AdaptiveNext]_adaptiveVars
  /\ Fairness
  /\ WF_adaptiveVars(Tick)

-----------------------------------------------------------------------------
AdaptiveTypeOK ==
  /\ TypeOK
  /\ user \in {"active", "idle"}
  /\ other \in Demands
  /\ since \in 0 .. RampUp

OnlyFloorHashes ==
  \A w \in Workers : w >= MinThreads => pc[w] \notin {"hashing", "sending"}

(* "Automatically backs off when you start using the machine": with the    *)
(* user back for good, no thread above min_threads goes on hashing, over   *)
(* probes that fail now and then and with the share channel full.          *)
YieldsToUser == <>[](user = "active") => <>[]OnlyFloorHashes

Crowded == other \in {n \in Demands : 100 * n > Ceiling * Cores}

Quiet == user = "idle" /\ ~Crowded

(* The miner does not back off from its own load: with the user away and   *)
(* the other processes below the ceiling, the target reaches max_threads   *)
(* and stays there.                                                        *)
RampsUp ==
  MinThreads <= MaxThreads => (<>[]Quiet => <>[](target = MaxThreads))

-----------------------------------------------------------------------------
(* What the comments claim and the code does not do.                       *)

(* "Scale up only when ... external CPU usage (other processes) is below   *)
(* cpu_ceiling ... Scale down when either condition flips"                 *)
(* (scaling/mod.rs:14): other processes that stay above the ceiling while  *)
(* the user is away are given way to, time and again.                      *)
YieldsToOthers ==
  <>[](running /\ user = "idle" /\ Crowded) => []<>(target = MinThreads)
=============================================================================
