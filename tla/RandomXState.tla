---------------------------- MODULE RandomXState ----------------------------
(***************************************************************************)
(* One RandomX cache and dataset in the memory of the C library, and the   *)
(* hashers that use it: RandomXState and RandomXHasher                     *)
(* (src/src/randomx/hash.rs).  The dataset's items are written by a team   *)
(* of threads, each its own part; the result is shared by reference count, *)
(* and the last reference to go releases the memory.                       *)
(*                                                                         *)
(* Actions only: Benchmark says when they are taken.                       *)
(***************************************************************************)
EXTENDS Integers, FiniteSets

CONSTANTS
  Items,       \* randomx_dataset_item_count()
  Cores,       \* num_cpus::get()
  MaxRefusals  \* bound: allocations and VMs the library refuses

ASSUME ItemsAssumption == Items \in Nat
ASSUME CoresAssumption == Cores \in Nat \ {0}

VARIABLES
  phase,    \* "none", "cached", "filling", "built" or "failed"
  native,   \* which of the cache and the dataset are allocated
  team,     \* num_threads
  filling,  \* threads of the team that have not returned
  written,  \* <<i, t>>: item i was initialised by thread t
  refs,     \* who holds an Arc<RandomXState>
  vms,      \* who has a VM on it
  refusals  \* refused so far

nativeVars == <<phase, native, team, filling, written, refs, vms>>

(* The thread that calls RandomXState::new; the others are 1, 2, ...       *)
Main == 0

NativeInit ==
  /\ phase = "none"
  /\ native = {}
  /\ team = 1
  /\ filling = {}
  /\ written = {}
  /\ refs = {}
  /\ vms = {}

-----------------------------------------------------------------------------
(* RandomXState::new.                                                      *)

Refuse == refusals < MaxRefusals /\ refusals' = refusals + 1

AllocCache ==
  /\ phase = "none"
  /\ \/ /\ phase' = "cached" /\ native' = {"cache"}
        /\ UNCHANGED refusals
     \/ Refuse /\ phase' = "failed" /\ UNCHANGED native
  /\ UNCHANGED <<team, filling, written, refs, vms>>

(* init_threads.max(1).min(num_cpus::get())                                *)
TeamFor(n) == IF n < 1 THEN 1 ELSE IF n > Cores THEN Cores ELSE n

(* Faulty AllocDataset: the error return forgets the cache.                *)
AllocDatasetOrLeak(n) ==
  /\ phase = "cached"
  /\ \/ /\ phase' = "filling" /\ native' = {"cache", "dataset"}
        /\ team' = TeamFor(n)
        /\ filling' = 0 .. team' - 1
        /\ UNCHANGED refusals
     \/ Refuse /\ phase' = "failed" /\ UNCHANGED <<native, team, filling>>
  /\ UNCHANGED <<written, refs, vms>>

(* The cache is initialised; the dataset is allocated and its team started,*)
(* or the cache released again.                                            *)
AllocDataset(n) ==
  /\ phase = "cached"
  /\ \/ /\ phase' = "filling" /\ native' = {"cache", "dataset"}
        /\ team' = TeamFor(n)
        /\ filling' = 0 .. team' - 1
        /\ UNCHANGED refusals
     \/ Refuse /\ phase' = "failed" /\ native' = {} /\ UNCHANGED <<team, filling>>
  /\ UNCHANGED <<written, refs, vms>>

(* Faulty Count: every thread takes an equal part.                         *)
CountEqually(t) == Items \div team

(* The part of thread t: equal ones, and the last takes the remainder.     *)
First(t) == t * (Items \div team)
Count(t) == IF t = team - 1 THEN Items - First(t) ELSE Items \div team
Part(t) == First(t) .. First(t) + Count(t) - 1

(* randomx_init_dataset, for the part of one thread.                       *)
Fill(t) ==
  /\ phase = "filling"
  /\ t \in filling
  /\ written' = written \cup {<<i, t>> : i \in Part(t)}
  /\ filling' = filling \ {t}
  /\ UNCHANGED <<phase, native, team, refs, vms, refusals>>

(* The scope has joined its threads: Ok(Arc::new(..)).                     *)
Built ==
  /\ phase = "filling"
  /\ filling = {}
  /\ phase' = "built"
  /\ refs' = {Main}
  /\ UNCHANGED <<native, team, filling, written, vms, refusals>>

BuildStep(n) ==
  \/ AllocCache
  \/ AllocDataset(n)
  \/ \E t \in filling : Fill(t)
  \/ Built

-----------------------------------------------------------------------------
(* References and hashers.                                                 *)

CloneArcs(hs) ==
  /\ refs' = refs \cup hs
  /\ UNCHANGED <<phase, native, team, filling, written, vms, refusals>>

(* The last reference releases the dataset and the cache.                  *)
Release(h) ==
  /\ refs' = refs \ {h}
  /\ native' = IF refs' = {} THEN {} ELSE native

CreateVm(h) ==
  /\ vms' = vms \cup {h}
  /\ UNCHANGED <<phase, native, team, filling, written, refs, refusals>>

(* The assertion in with_state unwinds, which drops the Arc it was given.  *)
CreateVmPanics(h) ==
  /\ Refuse
  /\ Release(h)
  /\ UNCHANGED <<phase, team, filling, written, vms>>

(* Drop for RandomXHasher destroys the VM, and only then its fields are    *)
(* dropped.                                                                *)
DestroyVm(h) ==
  /\ vms' = vms \ {h}
  /\ UNCHANGED <<phase, native, team, filling, written, refs, refusals>>

DropArc(h) ==
  /\ Release(h)
  /\ UNCHANGED <<phase, team, filling, written, vms, refusals>>

-----------------------------------------------------------------------------
NativeTypeOK ==
  /\ phase \in {"none", "cached", "filling", "built", "failed"}
  /\ native \subseteq {"cache", "dataset"}
  /\ team \in 1 .. Cores
  /\ filling \subseteq 0 .. team - 1
  /\ written \subseteq (Int \X Int)
  /\ refs \subseteq Nat
  /\ vms \subseteq Nat
  /\ refusals \in Nat

(* When the threads that hash are given the dataset, every item of it has  *)
(* been initialised, by one thread only, and nothing outside it: a gap or  *)
(* an overlap at the border of two parts would spoil every hash.           *)
DatasetIsComplete ==
  phase = "built" =>
    /\ {w[1] : w \in written} = 0 .. Items - 1
    /\ \A v, w \in written : v[1] = w[1] => v = w
=============================================================================
