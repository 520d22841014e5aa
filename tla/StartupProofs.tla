----------------------------- MODULE StartupProofs -----------------------------
(***************************************************************************)
(* What holds of the program's commands for every number of dataset items, *)
(* cores, threads and crashes: the build of the dataset, the sweep of the  *)
(* benchmark, and the config file that the commands share.                 *)
(***************************************************************************)
EXTENDS Startup, SequenceTheorems, TLAPS

-----------------------------------------------------------------------------
(* The inductive invariant: the dataset and who holds it.                  *)

Both == {"cache", "dataset"}
Returned == (0 .. team - 1) \ filling

(* What is allocated in which phase, and that references to it exist only  *)
(* once it is built.                                                       *)
Allocated ==
  /\ phase \in {"none", "failed"} => native = {}
  /\ phase = "cached" => native = {"cache"}
  /\ phase = "filling" => native = Both
  /\ phase = "built" => native = IF refs = {} THEN {} ELSE Both
  /\ phase # "built" => refs = {} /\ vms = {}
  /\ phase = "built" => filling = {}

(* The threads that have returned have written their parts, and no more.   *)
PartsWritten ==
  /\ phase \in {"filling", "built"} =>
       /\ \A t \in Returned : \A i \in Part(t) : <<i, t>> \in written
       /\ \A w \in written : \E t \in Returned : \E i \in Part(t) : w = <<i, t>>
  /\ phase \in {"none", "cached", "failed"} => written = {} /\ filling = {}

-----------------------------------------------------------------------------
(* The inductive invariant: the sweep.                                     *)

(* The stages of the sweep and the phases of the build.                    *)
StagesMatch ==
  /\ stage = "idle" => phase = "none"
  /\ stage = "building" <=> phase \in {"none", "cached", "filling"} /\ stage # "idle"
  /\ stage = "failed" <=> phase = "failed"
  /\ stage \in {"sweeping", "chosen"} <=> phase = "built"

(* A thread of the round has a reference until it is joined, and a VM      *)
(* while it hashes; the caller's own reference outlives the rounds.        *)
Holders ==
  /\ \A t \in Threads : t \in refs <=> at[t] # "none"
  /\ \A t \in Threads : t \in vms <=> at[t] \in {"looking", "hashing"}
  /\ refs \subseteq Threads \cup {Main} /\ vms \subseteq Threads
  /\ Main \in refs <=> stage = "sweeping"

(* A round is over when its result is in, and then no thread is left.      *)
Rounds ==
  /\ Len(results) \in {round - 1, round}
  /\ Len(results) = round => Joined
  /\ stage \in {"idle", "building", "failed"} => round = 0
  /\ stage = "chosen" => Len(results) = limit

(* The best so far is the first of the highest rates so far.               *)
BestSoFar ==
  /\ \A m \in DOMAIN results : results[m] <= best.rate
  /\ \/ best.threads = 1 /\ best.rate = 0
     \/ /\ best.threads \in DOMAIN results
        /\ best.rate = results[best.threads] /\ best.rate > 0
        /\ \A m \in 1 .. best.threads - 1 : results[m] < best.rate

SweepInv ==
  /\ NativeTypeOK /\ RoundTypeOK
  /\ Allocated /\ PartsWritten /\ StagesMatch /\ Holders /\ Rounds /\ BestSoFar

(* The counts of the rounds: the present round's is its total.             *)
CountInv ==
  /\ CountTypeOK /\ EveryHashCounts
  /\ Len(hashes) = Len(results) /\ Len(made) = round
  /\ round > 0 => made[round] = total

-----------------------------------------------------------------------------
(* The inductive invariant: the config file.                               *)

(* What a command is about to save can be loaded again, and what the       *)
(* benchmark is about to save names the pool the file named.               *)
Drafts ==
  /\ term \in {"updating", "saving"} => draft \in Configs /\ Usable(draft)
  /\ term \in {"sweeping", "updating"} => command = "benchmark"
  /\ term = "asking" => command # "benchmark"
  /\ term \in {"updating", "saving"} /\ command = "benchmark" /\ ~overtaken
       => draft.pool = named

CommandsTypeOK ==
  /\ file \in Configs \cup {Absent, Torn}
  /\ plist \in BOOLEAN /\ loaded \in BOOLEAN
  /\ overtaken \in BOOLEAN /\ interrupted \in BOOLEAN
  /\ service \subseteq Miners
  /\ term \in {"off", "asking", "saving", "loading", "mining", "sweeping",
               "updating"}
  /\ command \in {"none", "setup", "run", "benchmark"}
  /\ draft \in Configs \cup {Absent}
  /\ named \in Pools \cup {Empty}
  /\ edits \in Nat /\ crashes \in Nat

FileInv == CommandsTypeOK /\ Drafts /\ SavedConfigsLoad /\ EditsSurvive

StartupInv == SweepInv /\ CountInv /\ FileInv

-----------------------------------------------------------------------------
(* The parts of the team: they tile the dataset.                           *)

LEMMA DivMod ==
  ASSUME NEW x \in Nat, NEW n \in Nat \ {0}
  PROVE  /\ x \div n \in Nat /\ x % n \in 0 .. n - 1
         /\ x = n * (x \div n) + (x % n)
  BY Z3

(* p < q leaves room for a multiple of n.                                  *)
LEMMA ProductGrows ==
  ASSUME NEW n \in Nat, NEW p \in Nat, NEW q \in Nat, p < q
  PROVE  p * n \in Nat /\ q * n \in Nat /\ p * n + n <= q * n
<1>1. q * n = p * n + (q - p) * n
  BY Z3
<1>2. (q - p) * n >= n
  <2>1. PICK d \in Nat : q - p = 1 + d
    <3>1. q - p - 1 \in Nat
      OBVIOUS
    <3> QED BY <3>1
  <2>2. (1 + d) * n = n + d * n /\ d * n \in Nat
    BY Z3
  <2> QED BY <2>1, <2>2
<1>3. p * n \in Nat /\ q * n \in Nat /\ (q - p) * n \in Int
  BY Z3
<1> QED BY <1>1, <1>2, <1>3

(* Where the part of a thread lies: equal parts, then the remainder.       *)
LEMMA PartOfThread ==
  ASSUME Items \in Nat, team \in Nat \ {0}, NEW t \in 0 .. team - 1
  PROVE  /\ Items \div team \in Nat
         /\ t * (Items \div team) \in Nat
         /\ (t + 1) * (Items \div team)
              = t * (Items \div team) + (Items \div team)
         /\ (t + 1) * (Items \div team) <= Items
         /\ t # team - 1
              => Part(t) = t * (Items \div team) ..
                             t * (Items \div team) + (Items \div team) - 1
         /\ t = team - 1 => Part(t) = t * (Items \div team) .. Items - 1
         /\ Part(t) \subseteq 0 .. Items - 1
<1> DEFINE q == Items \div team
<1>1. q \in Nat /\ team * q <= Items /\ team * q \in Nat
  <2>1. q \in Nat /\ Items % team \in 0 .. team - 1
        /\ Items = team * q + (Items % team)
    BY DivMod
  <2>2. team * q \in Nat
    <3> HIDE DEF q
    <3> QED BY <2>1, Z3
  <2> HIDE DEF q
  <2> QED BY <2>1, <2>2
<1>2. t * q \in Nat /\ (t + 1) * q = t * q + q
  <2> HIDE DEF q
  <2> QED BY <1>1, Z3
<1>3. (t + 1) * q <= Items
  <2>1. CASE t + 1 = team
    BY <1>1, <2>1
  <2>2. CASE t + 1 # team
    <3>1. t + 1 \in Nat /\ t + 1 < team
      BY <2>2
    <3>2. (t + 1) * q + q <= team * q
      BY <3>1, <1>1, ProductGrows
    <3> HIDE DEF q
    <3> QED BY <3>2, <1>1, <1>2
  <2> QED BY <2>1, <2>2
<1>4. t # team - 1 => Part(t) = t * q .. t * q + q - 1
  BY DEF Part, Count, First
<1>5. t = team - 1 => Part(t) = t * q .. Items - 1
  <2>1. t = team - 1 => Part(t) = t * q .. t * q + (Items - t * q) - 1
    BY DEF Part, Count, First
  <2> HIDE DEF q
  <2> QED BY <2>1, <1>2
<1>6. Part(t) \subseteq 0 .. Items - 1
  <2> HIDE DEF q
  <2>1. CASE t = team - 1
    BY <1>5, <1>2, <2>1
  <2>2. CASE t # team - 1
    BY <1>4, <1>1, <1>2, <1>3, <2>2
  <2> QED BY <2>1, <2>2
<1> QED BY <1>1, <1>2, <1>3, <1>4, <1>5, <1>6

(* No gap: every item is in the part of some thread.                       *)
LEMMA PartsCover ==
  ASSUME Items \in Nat, team \in Nat \ {0}, NEW i \in 0 .. Items - 1
  PROVE  \E t \in 0 .. team - 1 : i \in Part(t)
<1> DEFINE q == Items \div team  l == team - 1
<1>1. l \in 0 .. team - 1 /\ q \in Nat /\ l * q \in Nat
      /\ Part(l) = l * q .. Items - 1
  <2>1. l \in 0 .. team - 1
    OBVIOUS
  <2>2. l = team - 1
    OBVIOUS
  <2> HIDE DEF l
  <2> QED BY <2>1, <2>2, PartOfThread
<1>2. CASE i >= l * q
  <2>1. i \in Part(l)
    <3> HIDE DEF q, l
    <3> QED BY <1>1, <1>2
  <2> QED BY <1>1, <2>1
<1>3. CASE i < l * q
  <2> DEFINE t == i \div q
  <2>1. q # 0
    <3>1. q = 0 => l * q = 0
      <4> HIDE DEF q
      <4> QED BY <1>1, Z3
    <3> HIDE DEF q, l
    <3> QED BY <1>3, <3>1
  <2>2. t \in Nat /\ i % q \in 0 .. q - 1 /\ i = q * t + (i % q)
    <3>1. i \in Nat /\ q \in Nat \ {0}
      BY <1>1, <2>1
    <3> HIDE DEF q
    <3> QED BY <3>1, DivMod
  <2>3. q * t = t * q
    <3> HIDE DEF q, t
    <3> QED BY <1>1, <2>2, Z3
  <2>4. t < l
    <3>1. SUFFICES ASSUME ~(t < l) PROVE FALSE
      OBVIOUS
    <3>2. l * q <= t * q
      <4>1. CASE t = l
        <5> HIDE DEF q, t, l
        <5> QED BY <4>1, <1>1
      <4>2. CASE t # l
        <5>1. l \in Nat /\ l < t
          <6> HIDE DEF t
          <6> QED BY <3>1, <4>2, <2>2
        <5>2. l * q + q <= t * q /\ t * q \in Nat
          <6> HIDE DEF q, t, l
          <6> QED BY <5>1, <1>1, <2>2, ProductGrows
        <5> HIDE DEF q, t, l
        <5> QED BY <5>2, <1>1
      <4> QED BY <4>1, <4>2
    <3>3. t * q \in Nat
      <4> HIDE DEF q, t
      <4> QED BY <1>1, <2>2, Z3
    <3>4. i >= t * q
      <4> HIDE DEF q, t
      <4> QED BY <2>2, <2>3, <3>3
    <3> HIDE DEF q, t, l
    <3> QED BY <3>2, <3>3, <3>4, <1>1, <1>3
  <2>5. t \in 0 .. team - 1 /\ t # team - 1
    <3> HIDE DEF t
    <3> QED BY <2>2, <2>4
  <2>6. t * q \in Nat /\ Part(t) = t * q .. t * q + q - 1
    <3> HIDE DEF t
    <3> QED BY <2>5, PartOfThread
  <2>7. i \in Part(t)
    <3> HIDE DEF q, t, l
    <3> QED BY <2>2, <2>3, <2>6, <1>1, <2>1
  <2> QED BY <2>5, <2>7
<1>4. i \in Int /\ l * q \in Int
  BY <1>1
<1> HIDE DEF q, l
<1> QED BY <1>2, <1>3, <1>4

(* No overlap: no item is in the parts of two threads.                     *)
LEMMA PartsAreDisjoint ==
  ASSUME Items \in Nat, team \in Nat \ {0},
         NEW t \in 0 .. team - 1, NEW u \in 0 .. team - 1, t < u,
         NEW i \in Part(t)
  PROVE  i \notin Part(u)
<1> DEFINE q == Items \div team
<1>1. t # team - 1 /\ t + 1 \in Nat /\ u \in Nat
  OBVIOUS
<1>2. q \in Nat /\ t * q \in Nat /\ (t + 1) * q = t * q + q
      /\ Part(t) = t * q .. t * q + q - 1
  BY <1>1, PartOfThread
<1>3. u * q \in Nat /\ Part(u) \subseteq u * q .. Items - 1
  <2>1. u * q \in Nat /\ (u + 1) * q = u * q + q /\ (u + 1) * q <= Items
        /\ (u # team - 1 => Part(u) = u * q .. u * q + q - 1)
        /\ (u = team - 1 => Part(u) = u * q .. Items - 1)
    BY PartOfThread
  <2> HIDE DEF q
  <2> QED BY <2>1, <1>2
<1>4. (t + 1) * q <= u * q
  <2>1. CASE t + 1 = u
    BY <2>1, <1>3
  <2>2. CASE t + 1 # u
    <3>1. t + 1 < u
      BY <2>2
    <3>2. (t + 1) * q + q <= u * q
      <4> HIDE DEF q
      <4> QED BY <1>1, <1>2, <3>1, ProductGrows
    <3> HIDE DEF q
    <3> QED BY <3>2, <1>2, <1>3
  <2> QED BY <2>1, <2>2
<1> HIDE DEF q
<1> QED BY <1>2, <1>3, <1>4

(* So a dataset whose whole team has returned is complete.                 *)
LEMMA WholeTeamCompletes ==
  ASSUME NativeTypeOK, PartsWritten, phase = "built", filling = {}
  PROVE  DatasetIsComplete
<1>1. Items \in Nat /\ team \in Nat \ {0} /\ Returned = 0 .. team - 1
  BY ItemsAssumption, CoresAssumption DEF NativeTypeOK, Returned
<1>2. \A t \in 0 .. team - 1 : \A i \in Part(t) : <<i, t>> \in written
  BY <1>1 DEF PartsWritten
<1>3. \A w \in written :
        \E t \in 0 .. team - 1 : \E i \in Part(t) : w = <<i, t>>
  BY <1>1 DEF PartsWritten
<1>4. {w[1] : w \in written} = 0 .. Items - 1
  <2>1. ASSUME NEW w \in written PROVE w[1] \in 0 .. Items - 1
    <3>1. PICK t \in 0 .. team - 1 : \E i \in Part(t) : w = <<i, t>>
      BY <1>3
    <3>2. Part(t) \subseteq 0 .. Items - 1
      BY <1>1, PartOfThread
    <3> QED BY <3>1, <3>2
  <2>2. ASSUME NEW i \in 0 .. Items - 1 PROVE \E w \in written : w[1] = i
    <3>1. PICK t \in 0 .. team - 1 : i \in Part(t)
      BY <1>1, PartsCover
    <3>2. <<i, t>> \in written /\ <<i, t>>[1] = i
      BY <3>1, <1>2
    <3> QED BY <3>2
  <2> QED BY <2>1, <2>2
<1>5. ASSUME NEW v \in written, NEW w \in written, v[1] = w[1] PROVE v = w
  <2>1. PICK t \in 0 .. team - 1 : \E i \in Part(t) : v = <<i, t>>
    BY <1>3
  <2>2. PICK i \in Part(t) : v = <<i, t>>
    BY <2>1
  <2>3. PICK u \in 0 .. team - 1 : \E j \in Part(u) : w = <<j, u>>
    BY <1>3
  <2>4. PICK j \in Part(u) : w = <<j, u>>
    BY <2>3
  <2>5. i = j
    BY <1>5, <2>2, <2>4
  <2>6. ~(t < u) /\ ~(u < t)
    BY <1>1, <2>5, PartsAreDisjoint
  <2>7. t = u
    BY <2>6
  <2> QED BY <2>2, <2>4, <2>5, <2>7
<1> QED BY <1>4, <1>5 DEF DatasetIsComplete

-----------------------------------------------------------------------------
(* The steps of the build.                                                 *)

(* The conjuncts that a step of the native side can leave alone.           *)
LEMMA PartsStay ==
  ASSUME PartsWritten, UNCHANGED <<phase, team, filling, written>>
  PROVE  PartsWritten'
BY DEF PartsWritten, Returned, Part, Count, First

LEMMA BenchStays ==
  ASSUME RoundTypeOK, Rounds, BestSoFar,
         UNCHANGED <<limit, round, running, total, results, best, at>>,
         stage' \in {"idle", "building", "sweeping", "chosen", "failed"}
  PROVE  /\ RoundTypeOK' /\ BestSoFar'
         /\ (Len(results) \in {round - 1, round})'
         /\ (Len(results) = round => Joined)'
BY DEF RoundTypeOK, Rounds, BestSoFar, Joined, Threads

LEMMA AllocCacheKeeps ==
  ASSUME NativeTypeOK, PartsWritten, Allocated, AllocCache
  PROVE  /\ NativeTypeOK' /\ PartsWritten' /\ Allocated'
         /\ phase = "none" /\ phase' \in {"cached", "failed"}
         /\ UNCHANGED <<refs, vms>>
<1>1. phase = "none" /\ phase' \in {"cached", "failed"}
      /\ UNCHANGED <<team, filling, written, refs, vms>>
  BY DEF AllocCache, Refuse
<1>2. NativeTypeOK'
  <2>1. native' \in {native, {"cache"}} /\ refusals' \in {refusals, refusals + 1}
    BY DEF AllocCache, Refuse
  <2>2. native' \subseteq {"cache", "dataset"} /\ refusals' \in Nat
    BY <2>1 DEF NativeTypeOK
  <2> QED BY ONLY <1>1, <2>2, NativeTypeOK DEF NativeTypeOK
<1>3. PartsWritten'
  BY <1>1 DEF PartsWritten
<1>4. Allocated'
  BY <1>1 DEF Allocated, AllocCache, Refuse
<1> QED BY <1>1, <1>2, <1>3, <1>4

LEMMA AllocDatasetKeeps ==
  ASSUME NativeTypeOK, PartsWritten, Allocated, NEW n \in Nat, AllocDataset(n)
  PROVE  /\ NativeTypeOK' /\ PartsWritten' /\ Allocated'
         /\ phase = "cached" /\ phase' \in {"filling", "failed"}
         /\ UNCHANGED <<refs, vms>>
<1>1. /\ phase = "cached" /\ phase' \in {"filling", "failed"}
      /\ UNCHANGED <<written, refs, vms>>
  BY DEF AllocDataset, Refuse
<1>2. /\ phase' = "filling" => /\ native' = {"cache", "dataset"}
                               /\ team' = TeamFor(n)
                               /\ filling' = 0 .. team' - 1
                               /\ refusals' = refusals
      /\ phase' = "failed" => /\ native' = {} /\ UNCHANGED <<team, filling>>
                              /\ refusals' = refusals + 1
  BY <1>1 DEF AllocDataset, Refuse
<1>3. TeamFor(n) \in 1 .. Cores
  BY CoresAssumption DEF TeamFor
<1>4. NativeTypeOK'
  <2>1. CASE phase' = "filling"
    <3>1. team' \in 1 .. Cores /\ filling' \subseteq 0 .. team' - 1
          /\ refusals' \in Nat
      BY <1>2, <1>3, <2>1 DEF NativeTypeOK
    <3> QED BY <1>1, <1>2, <2>1, <3>1 DEF NativeTypeOK
  <2>2. CASE phase' = "failed"
    <3>1. refusals' \in Nat /\ UNCHANGED <<team, filling>> /\ native' = {}
      BY <1>2, <2>2 DEF NativeTypeOK
    <3> QED BY ONLY <1>1, <2>2, <3>1, NativeTypeOK DEF NativeTypeOK
  <2> QED BY <1>1, <2>1, <2>2
<1>5. PartsWritten'
  <2>1. written = {} /\ filling = {}
    BY <1>1 DEF PartsWritten
  <2>2. phase' = "filling" => Returned' = {}
    BY <1>2 DEF Returned
  <2> QED BY <1>1, <1>2, <2>1, <2>2 DEF PartsWritten
<1>6. Allocated'
  BY <1>1, <1>2 DEF Allocated, Both
<1> QED BY <1>1, <1>4, <1>5, <1>6

LEMMA FillKeeps ==
  ASSUME NativeTypeOK, PartsWritten, Allocated, NEW t \in filling, Fill(t)
  PROVE  /\ NativeTypeOK' /\ PartsWritten' /\ Allocated'
         /\ phase = "filling" /\ phase' = "filling"
         /\ UNCHANGED <<refs, vms>>
<1>1. /\ phase = "filling"
      /\ written' = written \cup {<<i, t>> : i \in Part(t)}
      /\ filling' = filling \ {t}
      /\ UNCHANGED <<phase, native, team, refs, vms, refusals>>
  BY DEF Fill
<1>2. team \in Nat \ {0} /\ t \in 0 .. team - 1
  BY CoresAssumption DEF NativeTypeOK
<1>3. Part(t) \subseteq Int
  BY <1>2, ItemsAssumption, PartOfThread
<1>4. NativeTypeOK'
  <2>1. written' \subseteq (Int \X Int)
    BY <1>1, <1>2, <1>3 DEF NativeTypeOK
  <2>2. filling' \subseteq filling
    BY <1>1
  <2> QED BY ONLY <1>1, <2>1, <2>2, NativeTypeOK DEF NativeTypeOK
<1>5. Returned' = Returned \cup {t}
  BY <1>1, <1>2 DEF Returned
<1>6. \A u \in 0 .. team - 1 : Part(u)' = Part(u)
  BY <1>1 DEF Part, Count, First
<1>7. PartsWritten'
  <2>1. ASSUME NEW u \in Returned', NEW i \in Part(u)'
        PROVE  <<i, u>> \in written'
    <3>1. i \in Part(u) /\ u \in Returned \cup {t}
      BY <1>5, <1>6, <1>1, <2>1 DEF Returned
    <3>2. CASE u = t
      BY <3>1, <3>2, <1>1
    <3>3. CASE u # t
      BY <3>1, <3>3, <1>1 DEF PartsWritten
    <3> QED BY <3>2, <3>3
  <2>2. ASSUME NEW w \in written'
        PROVE  \E u \in Returned' : \E i \in Part(u)' : w = <<i, u>>
    <3>1. CASE w \in written
      <4>1. PICK u \in Returned : \E i \in Part(u) : w = <<i, u>>
        BY <1>1, <3>1 DEF PartsWritten
      <4>2. u \in Returned' /\ Part(u)' = Part(u)
        BY <1>5, <1>6, <4>1 DEF Returned
      <4> QED BY <4>1, <4>2
    <3>2. CASE w \notin written
      <4>1. PICK i \in Part(t) : w = <<i, t>>
        BY <3>2, <1>1, <2>2
      <4>2. t \in Returned' /\ Part(t)' = Part(t)
        BY <1>5, <1>6, <1>2
      <4> QED BY <4>1, <4>2
    <3> QED BY <3>1, <3>2
  <2>3. phase' = "filling"
    BY <1>1
  <2> QED BY <2>1, <2>2, <2>3 DEF PartsWritten
<1>8. Allocated'
  BY <1>1 DEF Allocated
<1> QED BY <1>1, <1>4, <1>7, <1>8

LEMMA BuiltKeeps ==
  ASSUME NativeTypeOK, PartsWritten, Allocated, Built
  PROVE  /\ NativeTypeOK' /\ PartsWritten' /\ Allocated'
         /\ phase = "filling" /\ phase' = "built" /\ refs' = {Main}
         /\ refs = {} /\ vms = {} /\ vms' = {}
<1>1. /\ phase = "filling" /\ filling = {} /\ phase' = "built"
      /\ refs' = {Main}
      /\ UNCHANGED <<native, team, filling, written, vms, refusals>>
  BY DEF Built
<1>2. NativeTypeOK'
  BY <1>1 DEF NativeTypeOK, Main
<1>3. PartsWritten'
  BY <1>1 DEF PartsWritten, Returned, Part, Count, First
<1>4. Allocated' /\ refs = {} /\ vms = {}
  BY <1>1 DEF Allocated
<1> QED BY <1>1, <1>2, <1>3, <1>4

(* Every step of the build, with the stage that goes with it.              *)
LEMMA BuildKeeps ==
  ASSUME SweepInv, Build
  PROVE  SweepInv'
<1>1. /\ stage = "building"
      /\ UNCHANGED <<limit, round, running, total, results, best, at>>
  BY DEF Build
<1>2. /\ phase' = "built" => stage' = "sweeping"
      /\ phase' = "failed" => stage' = "failed"
      /\ phase' \notin {"built", "failed"} => stage' = "building"
  BY DEF Build
<1>3. NativeTypeOK /\ PartsWritten /\ Allocated /\ limit \in Nat
  BY DEF SweepInv, RoundTypeOK
<1>4. /\ NativeTypeOK' /\ PartsWritten' /\ Allocated'
      /\ phase' \in {"cached", "filling", "built", "failed"}
      /\ phase' = "built" => refs' = {Main} /\ vms' = {} /\ refs = {} /\ vms = {}
      /\ phase' # "built" => UNCHANGED <<refs, vms>>
  <2>1. CASE AllocCache
    BY <1>3, <2>1, AllocCacheKeeps
  <2>2. CASE AllocDataset(limit)
    BY <1>3, <2>2, AllocDatasetKeeps
  <2>3. CASE \E t \in filling : Fill(t)
    BY <1>3, <2>3, FillKeeps
  <2>4. CASE Built
    BY <1>3, <2>4, BuiltKeeps
  <2> QED BY <2>1, <2>2, <2>3, <2>4 DEF Build, BuildStep
<1>5. stage' \in {"building", "sweeping", "failed"}
  BY <1>2, <1>4
<1>6. /\ RoundTypeOK' /\ BestSoFar'
      /\ (Len(results) \in {round - 1, round})'
      /\ (Len(results) = round => Joined)'
  BY <1>1, <1>5, BenchStays DEF SweepInv
<1>7. StagesMatch'
  BY <1>2, <1>4, <1>5 DEF StagesMatch
<1>8. Rounds'
  <2>1. round' = 0
    BY <1>1 DEF SweepInv, Rounds
  <2> QED BY <1>5, <1>6, <2>1 DEF Rounds
<1>9. Holders'
  <2>1. Holders /\ Threads' = Threads /\ at' = at /\ Main \notin Threads
    BY <1>1, <1>3 DEF SweepInv, Threads, Main
  <2>2. CASE phase' = "built"
    <3>1. stage' = "sweeping" /\ refs' = {Main} /\ vms' = {}
          /\ refs = {} /\ vms = {}
      BY <2>2, <1>2, <1>4
    <3> QED BY <2>1, <3>1 DEF Holders
  <2>3. CASE phase' # "built"
    <3>1. stage' # "sweeping" /\ refs' = refs /\ vms' = vms
      BY <2>3, <1>2, <1>4
    <3> QED BY <2>1, <3>1, <1>1 DEF Holders
  <2> QED BY <2>2, <2>3
<1> QED BY <1>4, <1>6, <1>7, <1>8, <1>9 DEF SweepInv

-----------------------------------------------------------------------------
(* The steps of a round.                                                   *)

(* What a thread's step does to the sets it is in, and nothing else.       *)
LEMMA GotoKeeps ==
  ASSUME RoundTypeOK, BestSoFar, NEW t \in Threads,
         NEW l \in {"none", "new", "looking", "hashing", "leaving"},
         Goto(t, l), total' \in Nat
  PROVE  /\ RoundTypeOK' /\ BestSoFar' /\ Threads' = Threads
         /\ at'[t] = l
         /\ \A u \in Threads : u # t => at'[u] = at[u]
<1>1. /\ at' = [at EXCEPT ![t] = l]
      /\ UNCHANGED <<stage, limit, round, running, results, best>>
  BY DEF Goto
<1>2. at \in [Threads -> {"none", "new", "looking", "hashing", "leaving"}]
  BY DEF RoundTypeOK
<1>3. Threads' = Threads
  BY <1>1 DEF Threads
<1>4. /\ at' \in [Threads -> {"none", "new", "looking", "hashing", "leaving"}]
      /\ at'[t] = l /\ \A u \in Threads : u # t => at'[u] = at[u]
  BY <1>1, <1>2
<1>5. RoundTypeOK'
  BY <1>1, <1>3, <1>4 DEF RoundTypeOK
<1>6. BestSoFar'
  BY <1>1 DEF BestSoFar
<1> QED BY <1>3, <1>4, <1>5, <1>6

(* Threads of a round are at work only before its result is in.            *)
LEMMA RoundIsOn ==
  ASSUME Rounds, NEW t \in Threads, at[t] # "none"
  PROVE  Len(results) = round - 1
BY DEF Rounds, Joined

(* One step of thread t, from where it is to l, gives and takes what       *)
(* Holders says it should.                                                 *)
LEMMA ThreadStepKeeps ==
  ASSUME SweepInv, NEW t \in Threads,
         NEW l \in {"none", "new", "looking", "hashing", "leaving"},
         at[t] # "none", Goto(t, l), total' \in Nat, refusals' \in Nat,
         UNCHANGED <<phase, team, filling, written>>,
         refs' = IF l = "none" THEN refs \ {t} ELSE refs,
         vms' = IF l \in {"looking", "hashing"} THEN vms \cup {t}
                                                ELSE vms \ {t},
         native' = IF refs' = {} THEN {} ELSE native
  PROVE  SweepInv'
<1>1. UNCHANGED <<stage, limit, round, running, results, best>>
  BY DEF Goto
<1>2. /\ RoundTypeOK' /\ BestSoFar' /\ Threads' = Threads
      /\ at'[t] = l
      /\ \A u \in Threads : u # t => at'[u] = at[u]
  BY GotoKeeps DEF SweepInv
<1>3. t \in Nat /\ t # Main
  BY DEF SweepInv, RoundTypeOK, Threads, Main
<1>4. Holders
  BY DEF SweepInv
<1>5. t \in refs /\ phase = "built"
  BY <1>4 DEF Holders, SweepInv, Allocated
<1>6. PartsWritten'
  BY PartsStay DEF SweepInv
<1>7. Holders'
  <2>1. \A u \in Threads : u \in refs' <=> at'[u] # "none"
    BY <1>2, <1>4 DEF Holders
  <2>2. \A u \in Threads : u \in vms' <=> at'[u] \in {"looking", "hashing"}
    BY <1>2, <1>4 DEF Holders
  <2>3. refs' \subseteq Threads \cup {Main} /\ vms' \subseteq Threads
    BY <1>4 DEF Holders
  <2>4. Main \in refs' <=> stage = "sweeping"
    BY <1>3, <1>4 DEF Holders
  <2> QED BY <2>1, <2>2, <2>3, <2>4, <1>1, <1>2 DEF Holders
<1>8. NativeTypeOK'
  <2>1. NativeTypeOK
    BY DEF SweepInv
  <2>2. refs' \subseteq Nat /\ vms' \subseteq Nat /\ native' \subseteq Both
    BY <2>1, <1>3 DEF NativeTypeOK, Both
  <2> QED BY ONLY <2>1, <2>2, refusals' \in Nat,
                  UNCHANGED <<phase, team, filling, written>>
           DEF NativeTypeOK, Both
<1>9. Allocated'
  <2>1. native = Both /\ filling = {}
    BY <1>5 DEF SweepInv, Allocated
  <2> QED BY <1>5, <2>1 DEF Allocated
<1>10. StagesMatch'
  BY <1>1 DEF SweepInv, StagesMatch
<1>11. Rounds'
  <2>1. Rounds
    BY DEF SweepInv
  <2>2. Len(results) = round - 1
    BY <2>1, RoundIsOn
  <2>3. round \in Nat
    BY DEF SweepInv, RoundTypeOK
  <2>4. round' = round /\ results' = results /\ stage' = stage /\ limit' = limit
    BY <1>1
  <2>5. Len(results') # round'
    BY <2>2, <2>3, <2>4
  <2>6. Len(results') \in {round' - 1, round'}
    BY <2>2, <2>4
  <2> QED BY <2>1, <2>4, <2>5, <2>6 DEF Rounds
<1> QED BY <1>2, <1>6, <1>7, <1>8, <1>9, <1>10, <1>11 DEF SweepInv

(* What ThreadStepKeeps needs to know of where the thread comes from.      *)
LEMMA WhereThreadIs ==
  ASSUME SweepInv, NEW t \in Threads, at[t] # "none"
  PROVE  /\ t \in refs /\ refs # {}
         /\ t \in vms <=> at[t] \in {"looking", "hashing"}
         /\ total \in Nat /\ refusals \in Nat
BY DEF SweepInv, Holders, RoundTypeOK, NativeTypeOK

LEMMA MakeHasherKeeps ==
  ASSUME SweepInv, NEW t \in Threads, MakeHasher(t)
  PROVE  SweepInv'
<1>1. at[t] = "new" /\ total' = total
  BY DEF MakeHasher
<1>2. /\ t \in refs /\ refs # {} /\ t \notin vms
      /\ total \in Nat /\ refusals \in Nat
  BY <1>1, WhereThreadIs
<1>3. CASE CreateVm(t) /\ Goto(t, "looking")
  <2>1. /\ vms' = vms \cup {t}
        /\ UNCHANGED <<phase, native, team, filling, written, refs, refusals>>
    BY <1>3 DEF CreateVm
  <2>2. total' \in Nat /\ refusals' \in Nat
        /\ native' = IF refs' = {} THEN {} ELSE native
    BY <1>1, <1>2, <2>1
  <2> QED BY <1>1, <1>3, <2>1, <2>2, ThreadStepKeeps
<1>4. CASE CreateVmPanics(t) /\ Goto(t, "none")
  <2>1. /\ refusals' = refusals + 1 /\ refs' = refs \ {t}
        /\ native' = IF refs' = {} THEN {} ELSE native
        /\ UNCHANGED <<phase, team, filling, written, vms>>
    BY <1>4 DEF CreateVmPanics, Release, Refuse
  <2>2. total' \in Nat /\ refusals' \in Nat /\ vms' = vms \ {t}
    BY <1>1, <1>2, <2>1
  <2> QED BY <1>1, <1>4, <2>1, <2>2, ThreadStepKeeps
<1> QED BY <1>3, <1>4 DEF MakeHasher

LEMMA LookKeeps ==
  ASSUME SweepInv, NEW t \in Threads, Look(t)
  PROVE  SweepInv'
<1>1. at[t] = "looking" /\ total' = total
  BY DEF Look
<1>2. /\ t \in refs /\ refs # {} /\ t \in vms
      /\ total \in Nat /\ refusals \in Nat
  BY <1>1, WhereThreadIs
<1>3. CASE Goto(t, "hashing") /\ UNCHANGED <<nativeVars, refusals>>
  <2>1. UNCHANGED <<phase, native, team, filling, written, refs, vms, refusals>>
    BY <1>3 DEF nativeVars
  <2>2. /\ total' \in Nat /\ refusals' \in Nat /\ vms' = vms \cup {t}
        /\ native' = IF refs' = {} THEN {} ELSE native
    BY <1>1, <1>2, <2>1
  <2> QED BY <1>1, <1>3, <2>1, <2>2, ThreadStepKeeps
<1>4. CASE Goto(t, "leaving") /\ DestroyVm(t)
  <2>1. /\ vms' = vms \ {t}
        /\ UNCHANGED <<phase, native, team, filling, written, refs, refusals>>
    BY <1>4 DEF DestroyVm
  <2>2. /\ total' \in Nat /\ refusals' \in Nat
        /\ native' = IF refs' = {} THEN {} ELSE native
    BY <1>1, <1>2, <2>1
  <2> QED BY <1>1, <1>4, <2>1, <2>2, ThreadStepKeeps
<1> QED BY <1>3, <1>4 DEF Look

LEMMA HashKeeps ==
  ASSUME SweepInv, NEW t \in Threads, Hash(t)
  PROVE  SweepInv'
<1>1. /\ at[t] = "hashing" /\ total' = total + 1 /\ Goto(t, "looking")
      /\ UNCHANGED <<phase, native, team, filling, written, refs, vms, refusals>>
  BY DEF Hash, nativeVars
<1>2. /\ t \in refs /\ refs # {} /\ t \in vms
      /\ total \in Nat /\ refusals \in Nat
  BY <1>1, WhereThreadIs
<1>3. /\ total' \in Nat /\ refusals' \in Nat /\ vms' = vms \cup {t}
      /\ native' = IF refs' = {} THEN {} ELSE native
  BY <1>1, <1>2
<1> QED BY <1>1, <1>3, ThreadStepKeeps

LEMMA LeaveKeeps ==
  ASSUME SweepInv, NEW t \in Threads, Leave(t)
  PROVE  SweepInv'
<1>1. /\ at[t] = "leaving" /\ total' = total /\ Goto(t, "none")
      /\ refs' = refs \ {t}
      /\ native' = IF refs' = {} THEN {} ELSE native
      /\ UNCHANGED <<phase, team, filling, written, vms, refusals>>
  BY DEF Leave, DropArc, Release
<1>2. t \notin vms /\ total \in Nat /\ refusals \in Nat
  BY <1>1, WhereThreadIs
<1>3. total' \in Nat /\ refusals' \in Nat /\ vms' = vms \ {t}
  BY <1>1, <1>2
<1> QED BY <1>1, <1>3, ThreadStepKeeps

LEMMA BeginRoundKeeps ==
  ASSUME SweepInv, BeginRound
  PROVE  SweepInv'
<1>1. /\ stage = "sweeping" /\ Len(results) = round /\ round < limit
      /\ round' = round + 1 /\ running' = TRUE /\ total' = 0
      /\ at' = [t \in Threads |-> IF t <= round' THEN "new" ELSE "none"]
      /\ refs' = refs \cup (1 .. round')
      /\ UNCHANGED <<phase, native, team, filling, written, vms, refusals>>
      /\ UNCHANGED <<stage, limit, results, best>>
  BY DEF BeginRound, CloneArcs
<1>2. limit \in Nat /\ round \in 0 .. limit /\ Threads' = Threads
  BY <1>1 DEF SweepInv, RoundTypeOK, Threads
<1>3. phase = "built" /\ Main \in refs /\ native = Both /\ filling = {}
  BY <1>1 DEF SweepInv, StagesMatch, Holders, Allocated
<1>4. \A t \in Threads : at[t] = "none" /\ t \notin refs /\ t \notin vms
  BY <1>1 DEF SweepInv, Rounds, Joined, Holders
<1>5. vms = {} /\ refs = {Main}
  BY <1>3, <1>4 DEF SweepInv, Holders
<1>6. round' \in 0 .. limit /\ 1 .. round' \subseteq Threads
  BY <1>1, <1>2 DEF Threads
<1>7. RoundTypeOK'
  <2>1. at' \in [Threads -> {"none", "new", "looking", "hashing", "leaving"}]
    BY <1>1
  <2>2. results \in Seq(Nat) /\ Len(results) <= round'
    BY <1>1, <1>2 DEF SweepInv, RoundTypeOK
  <2> QED BY <1>1, <1>2, <1>6, <2>1, <2>2 DEF SweepInv, RoundTypeOK
<1>8. Holders'
  <2>1. \A t \in Threads : t \in refs' <=> at'[t] # "none"
    <3>1. \A t \in Threads : t \in 1 .. round' <=> t <= round'
      BY <1>6, <1>2 DEF Threads
    <3>2. \A t \in Threads : at'[t] # "none" <=> t <= round'
      BY <1>1
    <3>3. \A t \in Threads : t \in refs' <=> t \in 1 .. round'
      BY <1>1, <1>4
    <3> QED BY <3>1, <3>2, <3>3
  <2>2. \A t \in Threads : at'[t] \notin {"looking", "hashing"}
    BY <1>1
  <2>3. refs' \subseteq Threads \cup {Main} /\ Main \in refs' /\ vms' = {}
    BY <1>1, <1>5, <1>6
  <2> QED BY <1>1, <1>2, <2>1, <2>2, <2>3 DEF Holders
<1>9. NativeTypeOK'
  <2>1. refs' \subseteq Nat
    BY <1>1, <1>5, <1>6 DEF Main, Threads
  <2>2. NativeTypeOK
    BY DEF SweepInv
  <2> QED BY ONLY <1>1, <2>1, <2>2 DEF NativeTypeOK
<1>10. Allocated'
  <2>1. refs' # {}
    BY <1>1, <1>5
  <2> QED BY <1>1, <1>3, <2>1 DEF Allocated
<1>11. PartsWritten'
  BY <1>1, PartsStay DEF SweepInv
<1>12. StagesMatch'
  BY <1>1 DEF SweepInv, StagesMatch
<1>13. Rounds'
  <2>1. Len(results') = round' - 1 /\ Len(results') # round'
    BY <1>1, <1>2
  <2> QED BY <1>1, <2>1 DEF Rounds
<1>14. BestSoFar'
  BY <1>1 DEF SweepInv, BestSoFar
<1> QED BY <1>7, <1>8, <1>9, <1>10, <1>11, <1>12, <1>13, <1>14 DEF SweepInv

LEMMA RatesAreNat ==
  ASSUME NEW r \in Rates
  PROVE  r \in Nat
BY RateAssumption DEF Rates

(* The rate of the round is compared with the best of the earlier ones.    *)
LEMMA EndRoundKeeps ==
  ASSUME SweepInv, EndRound
  PROVE  SweepInv'
<1>0. PICK r \in Rates :
        /\ results' = Append(results, r)
        /\ best' = IF r > best.rate THEN [threads |-> round, rate |-> r] ELSE best
  BY DEF EndRound, Record, IsBetter
<1>1. /\ stage = "sweeping" /\ Len(results) = round - 1 /\ Joined
      /\ results' = Append(results, r)
      /\ best' = IF r > best.rate THEN [threads |-> round, rate |-> r] ELSE best
      /\ UNCHANGED <<phase, native, team, filling, written, refs, vms, refusals>>
      /\ UNCHANGED <<stage, limit, round, running, total, at>>
  BY <1>0 DEF EndRound, Record, nativeVars
<1>2. /\ results \in Seq(Nat) /\ r \in Nat /\ round \in 0 .. limit
      /\ limit \in Nat /\ best \in [threads : Nat \ {0}, rate : Nat]
  BY <1>0, RatesAreNat DEF SweepInv, RoundTypeOK
<1>3. /\ results' \in Seq(Nat) /\ Len(results') = round
      /\ \A m \in 1 .. round - 1 : results'[m] = results[m]
      /\ results'[round] = r
      /\ DOMAIN results = 1 .. round - 1 /\ DOMAIN results' = 1 .. round
      /\ round \in Nat \ {0}
  <2>1. Len(results) \in Nat
    BY <1>2
  <2>2. round \in Nat \ {0}
    BY <2>1, <1>1, <1>2
  <2>3. results' \in Seq(Nat) /\ Len(results') = Len(results) + 1
        /\ \A m \in 1 .. Len(results) : results'[m] = results[m]
        /\ results'[Len(results) + 1] = r
    BY <1>1, <1>2
  <2>4. Len(results) + 1 = round
    BY <1>1, <2>2
  <2> QED BY <1>1, <1>2, <2>2, <2>3, <2>4
<1>4. best' \in [threads : Nat \ {0}, rate : Nat]
  BY <1>1, <1>2, <1>3
<1>5. RoundTypeOK'
  <2>1. Threads' = Threads
    BY <1>1 DEF Threads
  <2> QED BY <1>1, <1>2, <1>3, <1>4, <2>1 DEF SweepInv, RoundTypeOK
<1>6. BestSoFar'
  <2>1. \A m \in 1 .. round - 1 : results[m] <= best.rate /\ results[m] \in Nat
    <3>1. \A m \in 1 .. round - 1 : results[m] \in Nat
      BY <1>2, <1>3
    <3>2. \A m \in DOMAIN results : results[m] <= best.rate
      BY DEF SweepInv, BestSoFar
    <3> QED BY <1>3, <3>1, <3>2
  <2>2. CASE r > best.rate
    <3>1. best'.threads = round /\ best'.rate = r /\ best.rate \in Nat
      BY <1>1, <1>2, <2>2
    <3>2. \A m \in 1 .. round - 1 : results'[m] < r
      BY <1>2, <1>3, <2>1, <2>2, <3>1
    <3>3. \A m \in 1 .. round : results'[m] <= r
      BY <1>2, <1>3, <3>2
    <3>4. r > 0
      BY <1>2, <2>2, <3>1
    <3> QED BY <1>3, <3>1, <3>2, <3>3, <3>4 DEF BestSoFar
  <2>3. CASE ~(r > best.rate)
    <3>1. best' = best /\ best.rate \in Nat
      BY <1>1, <1>2, <2>3
    <3>2. \A m \in 1 .. round : results'[m] <= best.rate
      BY <1>2, <1>3, <2>1, <2>3, <3>1
    <3>3. CASE best.threads = 1 /\ best.rate = 0
      BY <1>3, <3>1, <3>2, <3>3 DEF BestSoFar
    <3>4. CASE ~(best.threads = 1 /\ best.rate = 0)
      <4>1. /\ best.threads \in 1 .. round - 1
            /\ best.rate = results[best.threads] /\ best.rate > 0
            /\ \A m \in 1 .. best.threads - 1 : results[m] < best.rate
        BY <1>3, <3>4 DEF SweepInv, BestSoFar
      <4>2. \A m \in 1 .. best.threads - 1 : m \in 1 .. round - 1
        BY <1>3, <4>1
      <4>3. best.rate = results'[best.threads] /\ best.threads \in 1 .. round
            /\ \A m \in 1 .. best.threads - 1 : results'[m] < best.rate
        BY <1>3, <4>1, <4>2
      <4> QED BY <1>3, <3>1, <3>2, <4>1, <4>3 DEF BestSoFar
    <3> QED BY <3>3, <3>4
  <2> QED BY <2>2, <2>3
<1>7. Rounds'
  <2>1. Joined'
    BY <1>1 DEF Joined, Threads
  <2> QED BY <1>1, <1>3, <2>1 DEF Rounds
<1>8. NativeTypeOK' /\ Allocated' /\ StagesMatch'
  BY <1>1 DEF SweepInv, NativeTypeOK, Allocated, StagesMatch
<1>9. Holders'
  BY <1>1 DEF SweepInv, Holders, Threads
<1>10. PartsWritten'
  BY <1>1, PartsStay DEF SweepInv
<1> QED BY <1>5, <1>6, <1>7, <1>8, <1>9, <1>10 DEF SweepInv

(* The sweep returns, and with it go the last reference and the dataset.   *)
LEMMA ChooseBestKeeps ==
  ASSUME SweepInv, ChooseBest
  PROVE  SweepInv'
<1>1. /\ stage = "sweeping" /\ Len(results) = limit /\ stage' = "chosen"
      /\ refs' = refs \ {Main}
      /\ native' = IF refs' = {} THEN {} ELSE native
      /\ UNCHANGED <<phase, team, filling, written, vms, refusals>>
      /\ UNCHANGED <<limit, round, running, total, results, best, at>>
  BY DEF ChooseBest, DropArc, Release
<1>2. /\ limit \in Nat /\ round \in 0 .. limit /\ Len(results) <= round
      /\ Threads' = Threads
  BY <1>1 DEF SweepInv, RoundTypeOK, Threads
<1>3. Len(results) = round /\ Joined
  <2>1. Len(results) = round
    BY <1>1, <1>2
  <2> QED BY <2>1 DEF SweepInv, Rounds
<1>4. refs' = {} /\ vms' = {}
  BY <1>1, <1>3 DEF SweepInv, Holders, Joined
<1>5. /\ RoundTypeOK' /\ BestSoFar'
      /\ (Len(results) \in {round - 1, round})'
      /\ (Len(results) = round => Joined)'
  <2>1. RoundTypeOK /\ Rounds /\ BestSoFar
    BY DEF SweepInv
  <2>2. stage' \in {"idle", "building", "sweeping", "chosen", "failed"}
    BY <1>1
  <2> QED BY <1>1, <2>1, <2>2, BenchStays
<1>6. Rounds'
  BY <1>1, <1>5 DEF Rounds
<1>7. StagesMatch' /\ phase = "built"
  BY <1>1 DEF SweepInv, StagesMatch
<1>8. Holders'
  BY <1>1, <1>2, <1>3, <1>4 DEF Holders, Joined
<1>9. Allocated'
  BY <1>1, <1>4, <1>7 DEF SweepInv, Allocated
<1>10. NativeTypeOK'
  <2>1. native' = {} /\ NativeTypeOK
    BY <1>1, <1>4 DEF SweepInv
  <2> QED BY ONLY <1>1, <1>4, <2>1 DEF NativeTypeOK
<1>11. PartsWritten'
  BY <1>1, PartsStay DEF SweepInv
<1> QED BY <1>5, <1>6, <1>7, <1>8, <1>9, <1>10, <1>11 DEF SweepInv

LEMMA TimeUpKeeps ==
  ASSUME SweepInv, TimeUp
  PROVE  SweepInv'
<1>1. /\ running' = FALSE
      /\ UNCHANGED <<phase, native, team, filling, written, refs, vms, refusals>>
      /\ UNCHANGED <<stage, limit, round, total, results, best, at>>
  BY DEF TimeUp, nativeVars
<1>2. NativeTypeOK' /\ Allocated' /\ StagesMatch'
  BY <1>1 DEF SweepInv, NativeTypeOK, Allocated, StagesMatch
<1>3. Holders'
  BY <1>1 DEF SweepInv, Holders, Threads
<1>4. PartsWritten'
  BY <1>1, PartsStay DEF SweepInv
<1>5. RoundTypeOK'
  BY <1>1 DEF SweepInv, RoundTypeOK, Threads
<1>6. Rounds' /\ BestSoFar'
  BY <1>1 DEF SweepInv, Rounds, BestSoFar, Joined, Threads
<1> QED BY <1>2, <1>3, <1>4, <1>5, <1>6 DEF SweepInv

LEMMA SweepStepKeeps ==
  ASSUME SweepInv, SweepStep
  PROVE  SweepInv'
BY BuildKeeps, BeginRoundKeeps, MakeHasherKeeps, LookKeeps, HashKeeps,
   LeaveKeeps, TimeUpKeeps, EndRoundKeeps, ChooseBestKeeps DEF SweepStep

-----------------------------------------------------------------------------
(* Before the sweep and after it.                                          *)

LEMMA SweepStays ==
  ASSUME SweepInv, UNCHANGED <<sweepVars, refusals>>
  PROVE  SweepInv'
<1>1. /\ UNCHANGED <<phase, native, team, filling, written, refs, vms, refusals>>
      /\ UNCHANGED <<stage, limit, round, running, total, results, best, at>>
  BY DEF sweepVars, nativeVars, benchVars
<1>2. NativeTypeOK' /\ Allocated' /\ StagesMatch'
  BY <1>1 DEF SweepInv, NativeTypeOK, Allocated, StagesMatch
<1>3. Holders'
  BY <1>1 DEF SweepInv, Holders, Threads
<1>4. PartsWritten'
  BY <1>1, PartsStay DEF SweepInv
<1>5. RoundTypeOK'
  BY <1>1 DEF SweepInv, RoundTypeOK, Threads
<1>6. Rounds' /\ BestSoFar'
  BY <1>1 DEF SweepInv, Rounds, BestSoFar, Joined, Threads
<1> QED BY <1>2, <1>3, <1>4, <1>5, <1>6 DEF SweepInv

(* Nothing is built, and no thread is there.                               *)
LEMMA NoSweep ==
  ASSUME NativeInit, BenchInit, refusals \in Nat
  PROVE  SweepInv
<1>1. /\ phase = "none" /\ native = {} /\ team = 1 /\ filling = {}
      /\ written = {} /\ refs = {} /\ vms = {}
  BY DEF NativeInit
<1>2. /\ stage = "idle" /\ limit = 0 /\ round = 0 /\ running = FALSE
      /\ total = 0 /\ results = <<>> /\ at = <<>>
      /\ best = [threads |-> 1, rate |-> 0]
  BY DEF BenchInit
<1>3. Threads = {}
  BY <1>2 DEF Threads
<1>4. NativeTypeOK
  BY <1>1, CoresAssumption DEF NativeTypeOK
<1>5. results \in Seq(Nat) /\ Len(results) = 0 /\ DOMAIN results = {}
  BY <1>2
<1>6. at \in [Threads -> {"none", "new", "looking", "hashing", "leaving"}]
  BY <1>2, <1>3
<1>7. RoundTypeOK
  <2>1. best \in [threads : Nat \ {0}, rate : Nat]
    BY <1>2
  <2>2. round \in 0 .. limit /\ Len(results) <= round
    BY <1>2, <1>5
  <2> QED BY ONLY <1>2, <1>5, <1>6, <2>1, <2>2 DEF RoundTypeOK
<1>8. Allocated /\ PartsWritten /\ StagesMatch
  BY <1>1, <1>2 DEF Allocated, PartsWritten, StagesMatch
<1>9. Holders
  BY <1>1, <1>2, <1>3 DEF Holders
<1>10. Rounds
  BY <1>2, <1>3, <1>5 DEF Rounds, Joined
<1>11. BestSoFar
  BY <1>2, <1>5 DEF BestSoFar
<1> QED BY <1>4, <1>7, <1>8, <1>9, <1>10, <1>11 DEF SweepInv

LEMMA FreshSweepKeeps ==
  ASSUME refusals \in Nat, UNCHANGED refusals, FreshSweep
  PROVE  SweepInv'
<1>1. NativeInit' /\ BenchInit'
  BY DEF FreshSweep, NativeInit, BenchInit
<1>2. (NativeInit /\ BenchInit /\ refusals \in Nat => SweepInv)'
  BY NoSweep, PTL
<1> QED BY <1>1, <1>2

LEMMA StartSweepKeeps ==
  ASSUME SweepInv, NEW n \in Nat, StartSweep(n)
  PROVE  SweepInv'
<1>1. /\ stage = "idle" /\ stage' = "building" /\ limit' = n
      /\ at' = [t \in 1 .. n |-> "none"]
      /\ UNCHANGED <<phase, native, team, filling, written, refs, vms, refusals>>
      /\ UNCHANGED <<round, running, total, results, best>>
  BY DEF StartSweep, nativeVars
<1>2. phase = "none" /\ round = 0 /\ native = {} /\ refs = {} /\ vms = {}
  BY <1>1 DEF SweepInv, StagesMatch, Rounds, Allocated
<1>3. Threads' = 1 .. n /\ Main \notin 1 .. n
  BY <1>1 DEF Threads, Main
<1>4. NativeTypeOK' /\ Allocated'
  BY <1>1 DEF SweepInv, NativeTypeOK, Allocated
<1>5. PartsWritten'
  BY <1>1, PartsStay DEF SweepInv
<1>6. RoundTypeOK'
  <2>1. at' \in [Threads' -> {"none", "new", "looking", "hashing", "leaving"}]
    BY <1>1, <1>3
  <2>2. RoundTypeOK
    BY DEF SweepInv
  <2>3. round' \in 0 .. limit'
    BY <1>1, <1>2
  <2> QED BY ONLY <1>1, <2>1, <2>2, <2>3, n \in Nat DEF RoundTypeOK
<1>7. StagesMatch' /\ BestSoFar'
  BY <1>1, <1>2 DEF SweepInv, StagesMatch, BestSoFar
<1>8. Holders'
  BY <1>1, <1>2, <1>3 DEF Holders
<1>9. Rounds'
  <2>1. Joined'
    BY <1>1, <1>3 DEF Joined
  <2> QED BY <1>1, <1>2, <2>1 DEF SweepInv, Rounds
<1> QED BY <1>4, <1>5, <1>6, <1>7, <1>8, <1>9 DEF SweepInv

-----------------------------------------------------------------------------
(* The file, the terminal and the service.                                 *)

(* The choices and overrides are configs.                                  *)
LEMMA ChoicesAreConfigs ==
  ASSUME NEW p \in Pools, NEW t \in ThreadChoices
  PROVE  /\ [pool |-> p, threads |-> t] \in Configs
         /\ Usable([pool |-> p, threads |-> t])
<1> DEFINE c == [pool |-> p, threads |-> t]
<1>1. t \in SUBSET Nat
  BY CoresAssumption DEF ThreadChoices, None
<1>2. c \in Configs
  BY <1>1 DEF Configs
<1>3. p # Empty
  BY PoolsAssumption
<1> QED BY <1>2, <1>3, FileAssumption DEF Usable

LEMMA EditsAreConfigs ==
  ASSUME NEW p \in Pools
  PROVE  /\ [pool |-> p, threads |-> None] \in Configs
         /\ Usable([pool |-> p, threads |-> None])
BY ChoicesAreConfigs DEF ThreadChoices

LEMMA OverridesAreConfigs ==
  ASSUME NEW c \in Configs, NEW d \in Overrides(c)
  PROVE  d \in Configs
BY CoresAssumption DEF Configs, Overrides

LEMMA UsableFile ==
  ASSUME file \in Configs \cup {Absent, Torn}, Usable(file)
  PROVE  file \in Configs
BY DEF Usable

LEMMA MinerIsTyped ==
  ASSUME NEW c \in Configs, Starts(c)
  PROVE  MinerOf(c) \in Miners
<1>1. c.pool \in Pools /\ c.threads \in SUBSET Nat
  BY DEF Configs, Starts, Usable
<1>2. MaxThreadsOf(c) \in Nat
  <2>1. CASE c.threads = None
    BY <2>1, CoresAssumption DEF MaxThreadsOf
  <2>2. CASE c.threads # None
    <3>1. PICK n : n \in c.threads
      BY <2>2 DEF None
    <3>2. (CHOOSE m \in c.threads : TRUE) \in c.threads
      BY <3>1
    <3> QED BY <1>1, <2>2, <3>2 DEF MaxThreadsOf
  <2> QED BY <2>1, <2>2
<1>3. MinThreads \in Nat
  BY MinThreadsAssumption
<1> QED BY <1>1, <1>2, <1>3 DEF MinerOf, Miners

(* Steps that leave the file and what is to be saved in it alone.          *)
LEMMA FileStays ==
  ASSUME FileInv, UNCHANGED <<file, historyVars>>,
         UNCHANGED termVars \/ term' \notin {"updating", "saving"},
         term' \in {"off", "asking", "saving", "loading", "mining", "sweeping",
                    "updating"},
         command' \in {"none", "setup", "run", "benchmark"},
         term' = "sweeping" => command' = "benchmark",
         term' = "asking" => command' # "benchmark",
         draft' \in Configs \cup {Absent},
         term = "saving" => term' = "saving" \/ ~(file # Absent /\ ~Usable(file)),
         plist' \in BOOLEAN, loaded' \in BOOLEAN, service' \subseteq Miners,
         edits' \in Nat, crashes' \in Nat
  PROVE  FileInv'
<1>1. UNCHANGED <<file, named, overtaken, interrupted>>
  BY DEF historyVars
<1>2. CommandsTypeOK'
  BY <1>1 DEF FileInv, CommandsTypeOK
<1>3. Drafts'
  <2>1. CASE UNCHANGED termVars
    BY <1>1, <2>1 DEF FileInv, Drafts, termVars, Usable
  <2>2. CASE term' \notin {"updating", "saving"}
    BY <2>2 DEF Drafts
  <2> QED BY <2>1, <2>2
<1>4. SavedConfigsLoad'
  BY <1>1 DEF FileInv, SavedConfigsLoad, Usable
<1>5. EditsSurvive'
  BY <1>1 DEF FileInv, EditsSurvive, Usable
<1> QED BY <1>2, <1>3, <1>4, <1>5 DEF FileInv

(* The file is truncated for a draft that can be loaded again.             *)
LEMMA TruncateKeeps ==
  ASSUME FileInv, NEW c \in Configs, Usable(c), Truncate(c),
         UNCHANGED <<plist, loaded, service, command, historyVars, edits,
                     crashes>>,
         command = "benchmark" /\ ~overtaken => c.pool = named
  PROVE  FileInv'
<1>1. /\ file' = Torn /\ draft' = c /\ term' = "saving"
      /\ UNCHANGED <<plist, loaded, service, command, named, overtaken,
                     interrupted, edits, crashes>>
  BY DEF Truncate, historyVars
<1>2. CommandsTypeOK'
  BY <1>1 DEF FileInv, CommandsTypeOK
<1>3. Drafts'
  BY <1>1 DEF Drafts, Usable
<1>4. SavedConfigsLoad'
  BY <1>1 DEF SavedConfigsLoad
<1>5. EditsSurvive'
  BY <1>1 DEF EditsSurvive, Usable
<1> QED BY <1>2, <1>3, <1>4, <1>5 DEF FileInv

(* Outside a save, a torn file is the trace of an interrupted one.         *)
LEMMA EndKeeps ==
  ASSUME FileInv, EndCommand, UNCHANGED <<file, plist, named, overtaken>>,
         interrupted' = (interrupted \/ term = "saving"),
         loaded' \in BOOLEAN, service' \subseteq Miners,
         edits' \in Nat, crashes' \in Nat
  PROVE  FileInv'
<1>1. term' = "off" /\ command' = "none" /\ draft' = Absent
  BY DEF EndCommand
<1>2. interrupted' \in BOOLEAN
  BY Zenon DEF FileInv, CommandsTypeOK
<1>3. CommandsTypeOK'
  BY <1>1, <1>2 DEF FileInv, CommandsTypeOK
<1>4. Drafts'
  BY <1>1 DEF Drafts
<1>5. SavedConfigsLoad'
  <2>1. SUFFICES ASSUME file # Absent /\ ~Usable(file) PROVE interrupted'
    BY DEF SavedConfigsLoad, Usable
  <2>2. term = "saving" \/ interrupted
    BY <2>1 DEF FileInv, SavedConfigsLoad
  <2> QED BY <2>2
<1>6. EditsSurvive'
  BY DEF FileInv, EditsSurvive, Usable
<1> QED BY <1>3, <1>4, <1>5, <1>6 DEF FileInv

LEMMA SaveEndsKeeps ==
  ASSUME FileInv, SaveEnds
  PROVE  FileInv'
<1>1. /\ term = "saving" /\ file' = draft /\ interrupted' = FALSE
      /\ term' \in {"off", "loading"} /\ draft' = Absent
      /\ command' \in {command, "none"}
      /\ command = "benchmark" => UNCHANGED <<named, overtaken>>
      /\ command # "benchmark" => named' = draft.pool /\ overtaken' = FALSE
      /\ UNCHANGED <<plist, loaded, service, edits, crashes>>
  BY DEF SaveEnds, EndCommand, budgetVars
<1>2. draft \in Configs /\ Usable(draft)
  BY <1>1 DEF FileInv, Drafts
<1>3. draft.pool \in Pools \cup {Empty}
  BY <1>2 DEF Configs
<1>4. named' \in Pools \cup {Empty} /\ overtaken' \in BOOLEAN
  BY <1>1, <1>3 DEF FileInv, CommandsTypeOK
<1>5. CommandsTypeOK'
  BY <1>1, <1>2, <1>4 DEF FileInv, CommandsTypeOK
<1>6. Drafts'
  BY <1>1 DEF Drafts
<1>7. SavedConfigsLoad'
  BY <1>1, <1>2 DEF SavedConfigsLoad, Usable
<1>8. EditsSurvive'
  <2>1. CASE command = "benchmark"
    BY <1>1, <2>1 DEF FileInv, Drafts, EditsSurvive
  <2>2. CASE command # "benchmark"
    BY <1>1, <2>2 DEF EditsSurvive
  <2> QED BY <2>1, <2>2
<1> QED BY <1>5, <1>6, <1>7, <1>8 DEF FileInv

LEMMA EditKeeps ==
  ASSUME FileInv, EditFile
  PROVE  FileInv'
<1>1. PICK p \in Pools :
        file' = [pool |-> p, threads |-> None] /\ named' = p
  BY DEF EditFile
<1>2. /\ edits' = edits + 1 /\ interrupted' = FALSE
      /\ overtaken' = (term \in {"updating", "saving"})
      /\ UNCHANGED <<plist, loaded, service, term, command, draft, crashes>>
  BY DEF EditFile, termVars
<1>3. file' \in Configs /\ Usable(file')
  BY <1>1, EditsAreConfigs
<1>4. overtaken' \in BOOLEAN
  BY <1>2
<1>5. edits' \in Nat
  BY <1>2 DEF FileInv, CommandsTypeOK
<1>6. CommandsTypeOK'
  BY <1>1, <1>2, <1>3, <1>4, <1>5 DEF FileInv, CommandsTypeOK
<1>7. Drafts'
  BY <1>2 DEF FileInv, Drafts, Usable
<1>8. SavedConfigsLoad'
  BY <1>3 DEF SavedConfigsLoad, Usable
<1>9. EditsSurvive'
  BY <1>1 DEF EditsSurvive
<1> QED BY <1>6, <1>7, <1>8, <1>9 DEF FileInv

LEMMA UseBestKeepsFile ==
  ASSUME StartupInv, UseBest
  PROVE  FileInv'
<1>1. /\ term = "sweeping"
      /\ UNCHANGED <<file, plist, loaded, service, named, overtaken,
                     interrupted, edits, crashes>>
  BY DEF UseBest, diskVars, historyVars, budgetVars
<1>2. FileInv /\ best.threads \in Nat
  BY DEF StartupInv, SweepInv, RoundTypeOK
<1>3. CASE stage = "chosen" /\ Usable(file)
  <2>1. /\ draft' = [file EXCEPT !.threads = {best.threads}]
        /\ term' = "updating" /\ command' = command
    BY <1>3 DEF UseBest
  <2>2. file \in Configs
    BY <1>2, <1>3, UsableFile DEF FileInv, CommandsTypeOK
  <2>3. draft' \in Configs /\ draft'.pool = file.pool
    BY <1>2, <2>1, <2>2 DEF Configs
  <2>4. Usable(draft')
    BY <1>3, <2>3, FileAssumption DEF Usable
  <2>5. ~overtaken => draft'.pool = named
    BY <1>2, <1>3, <2>3 DEF FileInv, EditsSurvive
  <2>6. CommandsTypeOK'
    BY <1>1, <1>2, <2>1, <2>3 DEF FileInv, CommandsTypeOK
  <2>7. Drafts'
    <3>1. command = "benchmark"
      BY <1>1, <1>2 DEF FileInv, Drafts
    <3> QED BY <1>1, <2>1, <2>3, <2>4, <2>5, <3>1 DEF Drafts, Usable
  <2>8. SavedConfigsLoad' /\ EditsSurvive'
    BY <1>1, <1>2, <1>3 DEF FileInv, SavedConfigsLoad, EditsSurvive, Usable
  <2> QED BY <2>6, <2>7, <2>8 DEF FileInv
<1>4. CASE ~(stage = "chosen" /\ Usable(file))
  <2>1. EndCommand
    BY <1>4 DEF UseBest
  <2>2. /\ interrupted' = (interrupted \/ term = "saving")
        /\ loaded' \in BOOLEAN /\ service' \subseteq Miners
        /\ edits' \in Nat /\ crashes' \in Nat
    BY <1>1, <1>2 DEF FileInv, CommandsTypeOK
  <2> QED BY <1>1, <1>2, <2>1, <2>2, EndKeeps
<1> QED BY <1>3, <1>4

-----------------------------------------------------------------------------
(* The theorems.                                                           *)

LEMMA InitEstablishes == Init => StartupInv
<1> SUFFICES ASSUME Init PROVE StartupInv
  OBVIOUS
<1>1. /\ NativeInit /\ BenchInit /\ refusals = 0
      /\ file = Absent /\ plist = FALSE /\ loaded = FALSE /\ service = {}
      /\ term = "off" /\ command = "none" /\ draft = Absent /\ named = Empty
      /\ overtaken = FALSE /\ interrupted = FALSE /\ edits = 0 /\ crashes = 0
  BY DEF Init, None
<1>2. SweepInv
  BY <1>1, NoSweep
<1>3. CommandsTypeOK
  BY <1>1 DEF CommandsTypeOK
<1>4. Drafts /\ SavedConfigsLoad /\ EditsSurvive
  BY <1>1 DEF Drafts, SavedConfigsLoad, EditsSurvive, Usable
<1>5. CountInv
  BY <1>1 DEF BenchInit, CountInv, CountTypeOK, EveryHashCounts
<1> QED BY <1>2, <1>3, <1>4, <1>5 DEF StartupInv, FileInv

(* The sweep's side of a step.                                             *)
LEMMA NextKeepsSweep ==
  ASSUME StartupInv, [Next]_vars
  PROVE  SweepInv'
<1>1. SweepInv /\ refusals \in Nat
  BY DEF StartupInv, SweepInv, NativeTypeOK
<1>2. CASE UNCHANGED <<sweepVars, refusals>>
  BY <1>1, <1>2, SweepStays
<1>3. CASE FreshSweep /\ UNCHANGED refusals
  BY <1>1, <1>3, FreshSweepKeeps
<1>4. CASE SweepStep
  BY <1>1, <1>4, SweepStepKeeps
<1>5. CASE \E n \in Limits : StartSweep(n)
  BY <1>1, <1>5, LimitsAssumption, StartSweepKeeps
<1>6. UNCHANGED vars => UNCHANGED <<sweepVars, refusals>>
  BY DEF vars, budgetVars
<1>7. ASSUME Setup \/ Answer \/ AnswerNothing \/ SaveEnds \/ Run
             \/ RunFromFlags \/ LoadAndMine \/ Interrupt \/ SaveBest
      PROVE  UNCHANGED <<sweepVars, refusals>>
  BY <1>7 DEF Setup, Answer, AnswerNothing, SaveEnds, Run, RunFromFlags,
              LoadAndMine, Interrupt, SaveBest, budgetVars
<1>8. ASSUME InstallService \/ UninstallService \/ StartService \/ EditFile
             \/ ServiceDies
      PROVE  UNCHANGED <<sweepVars, refusals>>
  BY <1>8 DEF InstallService, UninstallService, StartService, EditFile,
              ServiceDies, budgetVars
<1>9. StartBenchmark => \E n \in Limits : StartSweep(n)
  BY DEF StartBenchmark
<1>10. Sweep => SweepStep
  BY DEF Sweep
<1>11. UseBest \/ TerminalDies \/ Reboot => FreshSweep /\ UNCHANGED refusals
  BY DEF UseBest, TerminalDies, Reboot, budgetVars
<1> QED BY <1>2, <1>3, <1>4, <1>5, <1>6, <1>7, <1>8, <1>9, <1>10, <1>11 DEF Next

(* The counts of the sweep.                                                *)
LEMMA CountsStay ==
  ASSUME CountInv, UNCHANGED <<round, total, results, hashes, made>>
  PROVE  CountInv'
BY DEF CountInv, CountTypeOK, EveryHashCounts

(* A thread that hashes is one of the present round, whose count is not in *)
(* yet.                                                                    *)
LEMMA HashKeepsCounts ==
  ASSUME SweepInv, CountInv, NEW t \in Threads, Hash(t)
  PROVE  CountInv'
<1>1. /\ at[t] = "hashing" /\ total' = total + 1
      /\ made' = [made EXCEPT ![round] = @ + 1]
      /\ UNCHANGED <<round, results, hashes>>
  BY DEF Hash, Goto
<1>2. /\ Len(results) = round - 1 /\ results \in Seq(Nat)
      /\ round \in Nat /\ total \in Nat
  BY <1>1, RoundIsOn DEF SweepInv, RoundTypeOK
<1>3. /\ hashes \in Seq(Nat) /\ made \in Seq(Nat)
      /\ Len(hashes) = round - 1 /\ Len(made) = round
      /\ round > 0 => made[round] = total
  BY <1>2 DEF CountInv, CountTypeOK
<1>4. round > 0
  <2>1. Len(results) \in Nat
    BY <1>2
  <2> QED BY <1>2, <2>1
<1>5. /\ made' \in Seq(Nat) /\ Len(made') = round
      /\ made'[round] = total' /\ \A n \in 1 .. round - 1 : made'[n] = made[n]
  BY <1>1, <1>2, <1>3, <1>4
<1>6. EveryHashCounts'
  BY <1>1, <1>2, <1>3, <1>5 DEF CountInv, EveryHashCounts
<1> QED BY <1>1, <1>2, <1>3, <1>5, <1>6 DEF CountInv, CountTypeOK

LEMMA SweepKeepsCounts ==
  ASSUME SweepInv, CountInv, SweepStep
  PROVE  CountInv'
<1>1. /\ round \in Nat /\ total \in Nat /\ results \in Seq(Nat)
      /\ hashes \in Seq(Nat) /\ made \in Seq(Nat)
      /\ Len(hashes) = Len(results) /\ Len(made) = round
      /\ \A n \in 1 .. Len(hashes) : hashes[n] = made[n]
  BY DEF SweepInv, RoundTypeOK, CountInv, CountTypeOK, EveryHashCounts
<1>2. CASE Build \/ TimeUp \/ ChooseBest
           \/ \E t \in Threads : MakeHasher(t) \/ Look(t) \/ Leave(t)
  <2>1. UNCHANGED <<round, total, results, hashes, made>>
    BY <1>2 DEF Build, TimeUp, ChooseBest, MakeHasher, Look, Leave, Goto,
                countVars
  <2> QED BY <2>1, CountsStay
<1>3. CASE \E t \in Threads : Hash(t)
  BY <1>3, HashKeepsCounts
<1>4. CASE BeginRound
  <2>1. /\ Len(results) = round /\ round' = round + 1 /\ total' = 0
        /\ made' = Append(made, 0) /\ UNCHANGED <<results, hashes>>
    BY <1>4 DEF BeginRound
  <2>2. /\ made' \in Seq(Nat) /\ Len(made') = round' /\ made'[round'] = 0
        /\ \A n \in 1 .. round : made'[n] = made[n]
    BY <1>1, <2>1
  <2>3. EveryHashCounts'
    BY <1>1, <2>1, <2>2 DEF EveryHashCounts
  <2> QED BY <1>1, <2>1, <2>2, <2>3 DEF CountInv, CountTypeOK
<1>5. CASE EndRound
  <2>1. PICK r \in Rates : results' = Append(results, r)
    BY <1>5 DEF EndRound, Record
  <2>2. /\ Len(results) = round - 1 /\ hashes' = Append(hashes, total)
        /\ UNCHANGED <<round, total, made>>
    BY <1>5 DEF EndRound, Record
  <2>3. round > 0 /\ made[round] = total
    <3>1. Len(results) \in Nat
      BY <1>1
    <3> QED BY <1>1, <2>2, <3>1 DEF CountInv
  <2>4. /\ hashes' \in Seq(Nat) /\ Len(hashes') = round
        /\ hashes'[round] = total
        /\ \A n \in 1 .. round - 1 : hashes'[n] = hashes[n]
    BY <1>1, <2>2
  <2>5. Len(results') = round
    BY <1>1, <2>1, <2>2, RatesAreNat
  <2>6. EveryHashCounts'
    BY <1>1, <2>2, <2>3, <2>4 DEF EveryHashCounts
  <2> QED BY <1>1, <2>2, <2>3, <2>4, <2>5, <2>6 DEF CountInv, CountTypeOK
<1> QED BY <1>2, <1>3, <1>4, <1>5 DEF SweepStep

LEMMA NextKeepsCounts ==
  ASSUME StartupInv, [Next]_vars
  PROVE  CountInv'
<1>1. SweepInv /\ CountInv
  BY DEF StartupInv
<1>2. CASE UNCHANGED sweepVars
  <2>1. UNCHANGED <<round, total, results, hashes, made>>
    BY <1>2 DEF sweepVars, benchVars, countVars
  <2> QED BY <1>1, <2>1, CountsStay
<1>3. CASE FreshSweep
  <2>1. /\ round' = 0 /\ results' = <<>> /\ hashes' = <<>> /\ made' = <<>>
    BY <1>3 DEF FreshSweep
  <2> QED BY <2>1 DEF CountInv, CountTypeOK, EveryHashCounts
<1>4. CASE SweepStep
  BY <1>1, <1>4, SweepKeepsCounts
<1>5. CASE \E n \in Limits : StartSweep(n)
  <2>1. UNCHANGED <<round, total, results, hashes, made>>
    BY <1>5 DEF StartSweep, countVars
  <2> QED BY <1>1, <2>1, CountsStay
<1>6. CASE \/ Setup \/ Answer \/ AnswerNothing \/ SaveEnds \/ Run \/ SaveBest
           \/ RunFromFlags \/ LoadAndMine \/ Interrupt \/ InstallService
           \/ UninstallService \/ StartService \/ EditFile \/ ServiceDies
           \/ UNCHANGED vars
  <2>1. UNCHANGED sweepVars
    BY <1>6 DEF Setup, Answer, AnswerNothing, SaveEnds, Run, SaveBest,
                RunFromFlags, LoadAndMine, Interrupt, InstallService,
                UninstallService, StartService, EditFile, ServiceDies, vars
  <2> QED BY <1>2, <2>1
<1>7. StartBenchmark => \E n \in Limits : StartSweep(n)
  BY DEF StartBenchmark
<1>8. Sweep => SweepStep
  BY DEF Sweep
<1>9. UseBest \/ TerminalDies \/ Reboot => FreshSweep
  BY DEF UseBest, TerminalDies, Reboot
<1> QED BY <1>3, <1>4, <1>5, <1>6, <1>7, <1>8, <1>9 DEF Next

(* The file's side of a step of a command.                                 *)
LEMMA CommandsKeepFile ==
  ASSUME StartupInv,
         Setup \/ Answer \/ AnswerNothing \/ SaveEnds \/ Run \/ RunFromFlags
         \/ LoadAndMine \/ Interrupt \/ StartBenchmark \/ Sweep \/ UseBest
         \/ SaveBest
  PROVE  FileInv'
<1>1. FileInv /\ CommandsTypeOK
  BY DEF StartupInv, FileInv
<1>2. /\ draft \in Configs \cup {Absent} /\ plist \in BOOLEAN /\ loaded \in BOOLEAN
      /\ service \subseteq Miners /\ edits \in Nat /\ crashes \in Nat
      /\ command \in {"none", "setup", "run", "benchmark"}
  BY <1>1 DEF CommandsTypeOK
<1>3. CASE Setup
  <2>1. /\ term = "off" /\ term' = "asking" /\ command' = "setup"
        /\ UNCHANGED <<file, historyVars, plist, loaded, service, draft,
                       edits, crashes>>
    BY <1>3 DEF Setup, diskVars, budgetVars
  <2> QED BY <1>1, <1>2, <2>1, FileStays
<1>4. CASE Answer
  <2>1. PICK p \in Pools, t \in ThreadChoices :
          Truncate([pool |-> p, threads |-> t])
    BY <1>4 DEF Answer
  <2>2. /\ term = "asking"
        /\ UNCHANGED <<plist, loaded, service, command, historyVars, edits,
                       crashes>>
    BY <1>4 DEF Answer, budgetVars
  <2>3. command # "benchmark"
    BY <1>1, <2>2 DEF FileInv, Drafts
  <2> QED BY <1>1, <2>1, <2>2, <2>3, ChoicesAreConfigs, TruncateKeeps
<1>5. CASE AnswerNothing
  <2>1. /\ term = "asking" /\ term' = "off" /\ command' = "none"
        /\ draft' = Absent
        /\ UNCHANGED <<file, historyVars, plist, loaded, service, edits, crashes>>
    BY <1>5 DEF AnswerNothing, EndCommand, diskVars, budgetVars
  <2> QED BY <1>1, <1>2, <2>1, FileStays
<1>6. CASE SaveEnds
  BY <1>1, <1>6, SaveEndsKeeps
<1>7. CASE Run
  <2>1. /\ term = "off" /\ term' \in {"asking", "loading"} /\ command' = "run"
        /\ UNCHANGED <<file, historyVars, plist, loaded, service, draft,
                       edits, crashes>>
    BY <1>7 DEF Run, diskVars, budgetVars
  <2> QED BY <1>1, <1>2, <2>1, FileStays
<1>8. ASSUME NEW c \in Configs, Mine(c), term \in {"off", "loading"},
             UNCHANGED <<diskVars, service, historyVars, budgetVars>>
      PROVE  FileInv'
  <2>1. UNCHANGED <<file, historyVars, plist, loaded, service, edits, crashes>>
    BY <1>8 DEF diskVars, budgetVars
  <2>2. /\ term' \in {"off", "mining"} /\ command' \in {"none", "run"}
        /\ draft' \in {Absent, c}
    BY <1>8 DEF Mine, EndCommand
  <2>3. draft' \in Configs \cup {Absent}
    BY <2>2
  <2> QED BY <1>1, <1>2, <1>8, <2>1, <2>2, <2>3, FileStays
<1>9. CASE RunFromFlags
  <2>1. PICK p \in Pools : Mine([pool |-> p, threads |-> None])
    BY <1>9 DEF RunFromFlags
  <2>2. /\ term = "off"
        /\ UNCHANGED <<diskVars, service, historyVars, budgetVars>>
    BY <1>9 DEF RunFromFlags
  <2> QED BY <1>8, <2>1, <2>2, EditsAreConfigs
<1>10. CASE LoadAndMine
  <2>1. /\ term = "loading"
        /\ UNCHANGED <<diskVars, service, historyVars, budgetVars>>
    BY <1>10 DEF LoadAndMine
  <2>2. CASE Usable(file)
    <3>1. PICK c \in Overrides(file) : Mine(c)
      BY <1>10, <2>2 DEF LoadAndMine
    <3>2. file \in Configs
      BY <1>1, <2>2, UsableFile DEF CommandsTypeOK
    <3>3. c \in Configs
      BY <3>1, <3>2, OverridesAreConfigs
    <3> QED BY <1>8, <2>1, <3>1, <3>3
  <2>3. CASE ~Usable(file)
    <3>1. /\ term' = "off" /\ command' = "none" /\ draft' = Absent
          /\ UNCHANGED <<file, historyVars, plist, loaded, service, edits,
                         crashes>>
      BY <1>10, <2>3 DEF LoadAndMine, EndCommand, diskVars, budgetVars
    <3> QED BY <1>1, <1>2, <2>1, <3>1, FileStays
  <2> QED BY <2>2, <2>3
<1>11. CASE Interrupt
  <2>1. /\ term = "mining" /\ term' = "off" /\ command' = "none"
        /\ draft' = Absent
        /\ UNCHANGED <<file, historyVars, plist, loaded, service, edits, crashes>>
    BY <1>11 DEF Interrupt, EndCommand, diskVars, budgetVars
  <2> QED BY <1>1, <1>2, <2>1, FileStays
<1>12. CASE StartBenchmark
  <2>1. /\ term = "off" /\ term' = "sweeping" /\ command' = "benchmark"
        /\ UNCHANGED <<file, historyVars, plist, loaded, service, draft,
                       edits, crashes>>
    BY <1>12 DEF StartBenchmark, diskVars
  <2> QED BY <1>1, <1>2, <2>1, FileStays
<1>13. CASE Sweep
  <2>1. /\ term = "sweeping" /\ UNCHANGED termVars
        /\ UNCHANGED <<file, historyVars, plist, loaded, service, edits, crashes>>
    BY <1>13 DEF Sweep, diskVars
  <2>2. /\ term' = "sweeping" /\ command' = "benchmark" /\ draft' = draft
    BY <1>1, <2>1 DEF termVars, FileInv, Drafts
  <2> QED BY <1>1, <1>2, <2>1, <2>2, FileStays
<1>14. CASE UseBest
  BY <1>14, UseBestKeepsFile
<1>15. CASE SaveBest
  <2>1. /\ term = "updating" /\ Truncate(draft)
        /\ UNCHANGED <<plist, loaded, service, command, historyVars, edits,
                       crashes>>
    BY <1>15 DEF SaveBest, budgetVars
  <2>2. /\ draft \in Configs /\ Usable(draft)
        /\ command = "benchmark" /\ ~overtaken => draft.pool = named
    BY <1>1, <2>1 DEF FileInv, Drafts
  <2> QED BY <1>1, <2>1, <2>2, TruncateKeeps
<1> QED BY <1>3, <1>4, <1>5, <1>6, <1>7, <1>9, <1>10, <1>11, <1>12, <1>13,
           <1>14, <1>15

(* The file's side of every other step.                                    *)
LEMMA OthersKeepFile ==
  ASSUME StartupInv,
         InstallService \/ UninstallService \/ StartService \/ EditFile
         \/ TerminalDies \/ ServiceDies \/ Reboot \/ UNCHANGED vars
  PROVE  FileInv'
<1>1. FileInv /\ CommandsTypeOK
  BY DEF StartupInv, FileInv
<1>2. /\ draft \in Configs \cup {Absent} /\ plist \in BOOLEAN /\ loaded \in BOOLEAN
      /\ service \subseteq Miners /\ edits \in Nat /\ crashes \in Nat
      /\ command \in {"none", "setup", "run", "benchmark"}
      /\ term \in {"off", "asking", "saving", "loading", "mining", "sweeping",
                   "updating"}
  BY <1>1 DEF CommandsTypeOK
(* The terminal and the file stay as they are.                             *)
<1>3. ASSUME UNCHANGED <<file, historyVars, termVars>>,
             plist' \in BOOLEAN, loaded' \in BOOLEAN, service' \subseteq Miners,
             edits' \in Nat, crashes' \in Nat
      PROVE  FileInv'
  <2>1. UNCHANGED <<term, command, draft>> /\ UNCHANGED <<file, historyVars>>
    BY <1>3 DEF termVars
  <2>2. /\ term' = "sweeping" => command' = "benchmark"
        /\ term' = "asking" => command' # "benchmark"
    BY <1>1, <2>1 DEF FileInv, Drafts
  <2> QED BY <1>1, <1>2, <1>3, <2>1, <2>2, FileStays
<1>4. CASE InstallService
  <2>1. /\ plist' \in BOOLEAN /\ loaded' \in BOOLEAN
    BY <1>2, <1>4, Zenon DEF InstallService
  <2>2. UNCHANGED <<file, historyVars, termVars, service, edits, crashes>>
    BY <1>4 DEF InstallService, budgetVars
  <2> QED BY <1>2, <1>3, <2>1, <2>2
<1>5. CASE UninstallService
  <2>1. /\ plist' \in BOOLEAN /\ loaded' \in BOOLEAN
    BY <1>2, <1>5, Zenon DEF UninstallService
  <2>2. /\ UNCHANGED <<file, historyVars, termVars, edits, crashes>>
        /\ service' \in {service, {}}
    BY <1>5 DEF UninstallService, budgetVars, None
  <2> QED BY <1>2, <1>3, <2>1, <2>2
<1>6. CASE StartService
  <2>1. /\ Starts(file) /\ service' = {MinerOf(file)}
        /\ UNCHANGED <<file, plist, loaded, historyVars, termVars, edits, crashes>>
    BY <1>6 DEF StartService, diskVars, budgetVars
  <2>2. file \in Configs
    BY <1>1, <2>1, UsableFile DEF CommandsTypeOK, Starts
  <2>3. service' \subseteq Miners
    BY <2>1, <2>2, MinerIsTyped
  <2> QED BY <1>2, <1>3, <2>1, <2>3
<1>7. CASE EditFile
  BY <1>1, <1>7, EditKeeps
<1>8. CASE TerminalDies
  <2>1. /\ interrupted' = (interrupted \/ term = "saving") /\ EndCommand
        /\ crashes' = crashes + 1
        /\ UNCHANGED <<file, plist, loaded, service, named, overtaken, edits>>
    BY <1>8 DEF TerminalDies, Crash, diskVars
  <2> QED BY <1>1, <1>2, <2>1, EndKeeps
<1>9. CASE ServiceDies
  <2>1. /\ service' = {} /\ crashes' = crashes + 1
        /\ UNCHANGED <<file, plist, loaded, historyVars, termVars, edits>>
    BY <1>9 DEF ServiceDies, Crash, diskVars, None
  <2> QED BY <1>2, <1>3, <2>1
<1>10. CASE Reboot
  <2>1. /\ interrupted' = (interrupted \/ term = "saving") /\ EndCommand
        /\ crashes' = crashes + 1 /\ service' = {} /\ loaded' = plist
        /\ UNCHANGED <<file, plist, named, overtaken, edits>>
    BY <1>10 DEF Reboot, Crash, None
  <2> QED BY <1>1, <1>2, <2>1, EndKeeps
<1>11. CASE UNCHANGED vars
  <2>1. UNCHANGED <<file, plist, loaded, historyVars, termVars, service,
                    edits, crashes>>
    BY <1>11 DEF vars, diskVars, budgetVars
  <2> QED BY <1>2, <1>3, <2>1
<1> QED BY <1>4, <1>5, <1>6, <1>7, <1>8, <1>9, <1>10, <1>11

(* Every state of the commands, the sweep and the dataset satisfies the    *)
(* inductive invariant.                                                    *)
THEOREM StartupIsInvariant == Spec => []StartupInv
<1>1. Init => StartupInv
  BY InitEstablishes
<1>2. StartupInv /\ [Next]_vars => StartupInv'
  <2> SUFFICES ASSUME StartupInv, [Next]_vars PROVE StartupInv'
    OBVIOUS
  <2>1. SweepInv'
    BY NextKeepsSweep
  <2>2. FileInv'
    BY CommandsKeepFile, OthersKeepFile DEF Next
  <2>3. CountInv'
    BY NextKeepsCounts
  <2> QED BY <2>1, <2>2, <2>3 DEF StartupInv
<1> QED BY <1>1, <1>2, PTL DEF Spec

(* Every variable of the commands keeps its type, whatever the user types, *)
(* edits and kills.                                                        *)
THEOREM StartupTypeCorrect == Spec => []StartupTypeOK
<1>1. StartupInv => StartupTypeOK
  <2> SUFFICES ASSUME StartupInv PROVE StartupTypeOK
    OBVIOUS
  <2>1. NativeTypeOK /\ BenchTypeOK /\ CommandsTypeOK
    BY DEF StartupInv, SweepInv, CountInv, FileInv, BenchTypeOK
  <2>2. {plist, loaded, overtaken, interrupted} \subseteq BOOLEAN
    BY <2>1, Zenon DEF CommandsTypeOK
  <2>3. {edits, crashes} \subseteq Nat
    BY <2>1 DEF CommandsTypeOK
  <2> QED BY <2>1, <2>2, <2>3 DEF StartupTypeOK, CommandsTypeOK
<1> QED BY <1>1, StartupIsInvariant, PTL

(* The team of any size initialises every item of a dataset of any size,   *)
(* each by one thread, before a hasher sees it (RandomXState::new).        *)
THEOREM DatasetsAreComplete == Spec => []DatasetIsComplete
<1>1. StartupInv => DatasetIsComplete
  <2> SUFFICES ASSUME StartupInv, phase = "built" PROVE DatasetIsComplete
    BY DEF DatasetIsComplete
  <2>1. NativeTypeOK /\ PartsWritten /\ filling = {}
    BY DEF StartupInv, SweepInv, Allocated
  <2> QED BY <2>1, WholeTeamCompletes
<1> QED BY <1>1, StartupIsInvariant, PTL

(* When find_optimal_threads has returned, with a result or an error, the  *)
(* cache, the dataset and the VMs on it are released.                      *)
THEOREM MemoryIsReleased == Spec => []NothingLeaks
<1>1. StartupInv => NothingLeaks
  <2> SUFFICES ASSUME StartupInv, stage \in {"chosen", "failed"}
               PROVE  native = {} /\ vms = {}
    BY DEF NothingLeaks
  <2>1. Allocated /\ Holders /\ Rounds /\ StagesMatch
    BY DEF StartupInv, SweepInv
  <2>2. CASE stage = "failed"
    BY <2>1, <2>2 DEF StagesMatch, Allocated
  <2>3. CASE stage = "chosen"
    <3>1. phase = "built" /\ Main \notin refs
      BY <2>1, <2>3 DEF StagesMatch, Holders
    <3>2. limit \in Nat /\ round \in 0 .. limit /\ Len(results) <= round
      BY DEF StartupInv, SweepInv, RoundTypeOK
    <3>3. Len(results) = limit
      BY <2>1, <2>3 DEF Rounds
    <3>4. Len(results) = round
      BY <3>2, <3>3
    <3>5. Joined
      BY <2>1, <3>4 DEF Rounds
    <3>6. refs = {} /\ vms = {}
      BY <2>1, <3>1, <3>5 DEF Holders, Joined
    <3> QED BY <2>1, <3>1, <3>6 DEF Allocated
  <2> QED BY <2>2, <2>3
<1> QED BY <1>1, StartupIsInvariant, PTL

(* The rates of any number of rounds rest on all hashes their threads made *)
(* (run_benchmark_shared joins them before it reads the count).            *)
THEOREM HashesAreCounted == Spec => []EveryHashCounts
<1>1. StartupInv => EveryHashCounts
  BY DEF StartupInv, CountInv
<1> QED BY <1>1, StartupIsInvariant, PTL

(* The thread count chosen is the smallest with the highest rate, for any  *)
(* number of rounds.                                                       *)
THEOREM BestIsChosen == Spec => []BestIsFirstMaximum
<1>1. StartupInv => BestIsFirstMaximum
  <2> SUFFICES ASSUME StartupInv, stage = "chosen"
               PROVE  BestIsFirstMaximum
    BY DEF BestIsFirstMaximum
  <2>1. Len(results) = limit /\ BestSoFar /\ results \in Seq(Nat)
    BY DEF StartupInv, SweepInv, RoundTypeOK, Rounds
  <2>2. DOMAIN results = Threads /\ \A m \in Threads : results[m] \in Nat
    BY <2>1 DEF Threads
  <2>3. \A m \in Threads : results[m] <= best.rate
    BY <2>1, <2>2 DEF BestSoFar
  <2>4. CASE best.threads = 1 /\ best.rate = 0
    <3>1. \A m \in Threads : results[m] = 0
      BY <2>2, <2>3, <2>4
    <3> QED BY <2>4, <3>1 DEF BestIsFirstMaximum
  <2>5. CASE ~(best.threads = 1 /\ best.rate = 0)
    <3>1. /\ best.threads \in Threads
          /\ best.rate = results[best.threads] /\ best.rate > 0
          /\ \A m \in 1 .. best.threads - 1 : results[m] < best.rate
      BY <2>1, <2>2, <2>5 DEF BestSoFar
    <3>2. /\ results[best.threads] > 0
          /\ \A m \in Threads : results[m] <= results[best.threads]
          /\ \A m \in 1 .. best.threads - 1 :
               results[m] < results[best.threads]
      BY <2>3, <3>1
    <3> QED BY <3>1, <3>2 DEF BestIsFirstMaximum
  <2> QED BY <2>4, <2>5
<1> QED BY <1>1, StartupIsInvariant, PTL

(* Whatever the commands, errors, edits and crashes, the file can be       *)
(* loaded, unless a save is under way or was cut short (Config::save).     *)
THEOREM SavedFilesLoad == Spec => []SavedConfigsLoad
<1>1. StartupInv => SavedConfigsLoad
  BY DEF StartupInv, FileInv
<1> QED BY <1>1, StartupIsInvariant, PTL

(* An edit of the file during the benchmark's sweep is kept: the config is *)
(* loaded after the sweep (run_benchmark in main.rs).                      *)
THEOREM EditsAreKept == Spec => []EditsSurvive
<1>1. StartupInv => EditsSurvive
  BY DEF StartupInv, FileInv
<1> QED BY <1>1, StartupIsInvariant, PTL
=============================================================================
