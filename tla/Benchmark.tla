------------------------------ MODULE Benchmark ------------------------------
(***************************************************************************)
(* find_optimal_threads and run_benchmark_shared                           *)
(* (src/src/benchmark/mod.rs): one dataset is built, then hashed with by   *)
(* 1, 2, ... threads in turn, and the first best count of threads chosen.  *)
(*                                                                         *)
(* A round lasts until its slowest thread is joined, so its rate is not a  *)
(* function of its hashes: of some hashes it may be any, of none it is 0.  *)
(***************************************************************************)
EXTENDS RandomXState, Sequences

CONSTANTS
  Limits,     \* values of max_threads: --threads, or the number of cores
  MaxHashes,  \* bound: hashes begun in one round, about
  MaxRate     \* bound: the rates a round may have, from 1 on

ASSUME LimitsAssumption == Limits \subseteq Nat
ASSUME RateAssumption == MaxRate \in Nat

VARIABLES
  stage,    \* "idle", "building", "sweeping", "chosen" or "failed"
  limit,    \* max_threads
  round,    \* threads of the present round
  running,  \* its AtomicBool
  total,    \* its total_hashes
  results,  \* the rates of the rounds that are over
  hashes,   \* and their hashes
  best,     \* best_threads and best_hashrate
  at,       \* where each thread of the round is, "none" once joined
  made      \* history: the hashes the threads of each round have made

countVars == <<hashes, made>>
benchVars == <<stage, limit, round, running, total, results, best, at, countVars>>
sweepVars == <<nativeVars, benchVars>>

Threads == 1 .. limit

BenchInit ==
  /\ stage = "idle"
  /\ limit = 0
  /\ round = 0
  /\ running = FALSE
  /\ total = 0
  /\ results = <<>>
  /\ hashes = <<>>
  /\ best = [threads |-> 1, rate |-> 0]
  /\ at = <<>>
  /\ made = <<>>

StartSweep(n) ==
  /\ stage = "idle"
  /\ stage' = "building"
  /\ limit' = n
  /\ at' = [t \in 1 .. n |-> "none"]
  /\ UNCHANGED <<nativeVars, refusals, round, running, total, results, best,
                 countVars>>

Build ==
  /\ stage = "building"
  /\ BuildStep(limit)
  /\ stage' = CASE phase' = "built" -> "sweeping"
                [] phase' = "failed" -> "failed"
                [] OTHER -> "building"
  /\ UNCHANGED <<limit, round, running, total, results, best, at, countVars>>

-----------------------------------------------------------------------------
(* One round.                                                              *)

Joined == \A t \in Threads : at[t] = "none"

(* Faulty BeginRound: the sweep goes one thread too far.                   *)
BeginRoundOneMore ==
  /\ stage = "sweeping" /\ Len(results) = round /\ round <= limit
  /\ round' = round + 1
  /\ running' = TRUE
  /\ total' = 0
  /\ at' = [t \in Threads |-> IF t <= round' THEN "new" ELSE "none"]
  /\ made' = Append(made, 0)
  /\ CloneArcs(Threads)
  /\ UNCHANGED <<stage, limit, results, hashes, best>>

BeginRound ==
  /\ stage = "sweeping"
  /\ Len(results) = round
  /\ round < limit
  /\ round' = round + 1
  /\ running' = TRUE
  /\ total' = 0
  /\ at' = [t \in Threads |-> IF t <= round' THEN "new" ELSE "none"]
  /\ made' = Append(made, 0)
  /\ CloneArcs(1 .. round')
  /\ UNCHANGED <<stage, limit, results, hashes, best>>

Goto(t, l) ==
  /\ at' = [at EXCEPT ![t] = l]
  /\ UNCHANGED <<stage, limit, round, running, results, hashes, best>>

(* with_state; a panic ends the thread, and join's Err is ignored.         *)
MakeHasher(t) ==
  /\ at[t] = "new"
  /\ \/ CreateVm(t) /\ Goto(t, "looking")
     \/ CreateVmPanics(t) /\ Goto(t, "none")
  /\ UNCHANGED <<total, made>>

(* while running.load(): one more hash, or the hasher is dropped.          *)
Look(t) ==
  /\ at[t] = "looking"
  /\ \/ /\ running /\ total < MaxHashes
        /\ Goto(t, "hashing")
        /\ UNCHANGED <<nativeVars, refusals>>
     \/ /\ ~running
        /\ Goto(t, "leaving")
        /\ DestroyVm(t)
  /\ UNCHANGED <<total, made>>

Hash(t) ==
  /\ at[t] = "hashing"
  /\ total' = total + 1
  /\ made' = [made EXCEPT ![round] = @ + 1]
  /\ Goto(t, "looking")
  /\ UNCHANGED <<nativeVars, refusals>>

Leave(t) ==
  /\ at[t] = "leaving"
  /\ DropArc(t)
  /\ Goto(t, "none")
  /\ UNCHANGED <<total, made>>

(* sleep(duration) is over.                                                *)
TimeUp ==
  /\ running
  /\ running' = FALSE
  /\ UNCHANGED <<nativeVars, refusals, stage, limit, round, total, results,
                 best, at, countVars>>

(* hashes / elapsed                                                        *)
Rates == IF total = 0 THEN {0} ELSE 1 .. MaxRate

(* Faulty IsBetter: a later round wins a tie.                              *)
IsBetterOrEqual(r) == r >= best.rate

IsBetter(r) == r > best.rate

(* The round's result, and its comparison with the best one.               *)
Record ==
  /\ \E r \in Rates :
       /\ results' = Append(results, r)
       /\ best' = IF IsBetter(r) THEN [threads |-> round, rate |-> r] ELSE best
  /\ hashes' = Append(hashes, total)
  /\ UNCHANGED <<nativeVars, refusals, stage, limit, round, running, total, at,
                 made>>

(* Faulty EndRound: the threads are not waited for.                        *)
EndRoundWithoutJoin ==
  stage = "sweeping" /\ Len(results) = round - 1 /\ ~running /\ Record

(* All threads are joined, and the hashes they counted read.               *)
EndRound ==
  /\ stage = "sweeping"
  /\ Len(results) = round - 1
  /\ ~running
  /\ Joined
  /\ Record

(* find_optimal_threads returns, and drops the dataset.                    *)
ChooseBest ==
  /\ stage = "sweeping"
  /\ Len(results) = limit
  /\ stage' = "chosen"
  /\ DropArc(Main)
  /\ UNCHANGED <<limit, round, running, total, results, best, at, countVars>>

SweepStep ==
  \/ Build
  \/ BeginRound
  \/ \E t \in Threads : MakeHasher(t) \/ Look(t) \/ Hash(t) \/ Leave(t)
  \/ TimeUp
  \/ EndRound
  \/ ChooseBest

-----------------------------------------------------------------------------
RoundTypeOK ==
  /\ stage \in {"idle", "building", "sweeping", "chosen", "failed"}
  /\ limit \in Nat
  /\ round \in 0 .. limit
  /\ running \in BOOLEAN
  /\ total \in Nat
  /\ results \in Seq(Nat) /\ Len(results) <= round
  /\ best \in [threads : Nat \ {0}, rate : Nat]
  /\ at \in [Threads -> {"none", "new", "looking", "hashing", "leaving"}]

CountTypeOK == hashes \in Seq(Nat) /\ made \in Seq(Nat)

BenchTypeOK == RoundTypeOK /\ CountTypeOK

(* However the build fails and whatever threads die or linger, the         *)
(* gigabytes and the VMs are given back by the time find_optimal_threads   *)
(* returns: the command that goes on to the config file holds none of them.*)
NothingLeaks == stage \in {"chosen", "failed"} => native = {} /\ vms = {}

(* A round is rated by what its threads did, however long they go on after *)
(* its time is up and whichever of them die: every hash they made counts,  *)
(* and none is made once the round has been rated, beside the next one.    *)
EveryHashCounts == \A n \in 1 .. Len(hashes) : hashes[n] = made[n]

(* The thread count that goes into the config is the smallest of those     *)
(* with the highest rate, or 1 if nothing was hashed.                      *)
BestIsFirstMaximum ==
  stage = "chosen" =>
    LET IsBest(n) == /\ results[n] > 0
                     /\ \A m \in Threads : results[m] <= results[n]
                     /\ \A m \in 1 .. n - 1 : results[m] < results[n]
    IN \/ best.threads \in Threads /\ IsBest(best.threads)
       \/ best.threads = 1 /\ \A m \in Threads : results[m] = 0
=============================================================================
