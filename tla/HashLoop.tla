------------------------------ MODULE HashLoop ------------------------------
(***************************************************************************)
(* The inner loop of Worker::run (src/src/miner/worker.rs) in all threads: *)
(* looking for a newer job now and then, drawing nonces from the one       *)
(* NonceCounter, masking them for NiceHash, writing them into the thread's *)
(* copy of the job's blob and hashing it.                                  *)
(*                                                                         *)
(* The four nonce bytes are one number, Low * (top byte) + (lower three    *)
(* bytes): in the code Low is 2^24 and Tops is 256.  A blob is its nonce   *)
(* field; pools send blobs long enough to have one.  Parking and stopping  *)
(* are Coordinator's subject, datasets SharedAlgoState's, the shares that  *)
(* hashes make ShareFlow's; which hash is one is said in Protocol.         *)
(***************************************************************************)
EXTENDS Protocol, Sequences

CONSTANTS
  Workers,     \* the mining threads
  Low,         \* values of the three lower nonce bytes
  Tops,        \* values of the top nonce byte
  CheckEvery,  \* hashes between two looks at the job channel, 256
  None,        \* Option::None
  MaxJobs,     \* bound: jobs published
  MaxDraws     \* bound: nonces drawn

ASSUME WidthAssumption == Low \in Nat \ {0} /\ Tops \in Nat \ {0}
ASSUME CheckAssumption == CheckEvery \in Nat \ {0}
ASSUME BoundAssumption == MaxJobs \in Nat /\ MaxDraws \in Nat

Space == Low * Tops
Nonces == 0 .. Space - 1
TopBytes == 0 .. Tops - 1

ASSUME NoneAssumption == None \notin TopBytes

(* top is the top nonce byte of the blob the pool sent; extra is its       *)
(* extra_nonce, of one byte, the length at which it lands on the top byte. *)
Jobs == [version : Nat, nicehash : BOOLEAN, top : TopBytes,
         extra : TopBytes \cup {None}]

ASSUME NoJobAssumption == None \notin Jobs

VARIABLES
  job,      \* the watch channel's value
  counter,  \* the AtomicU32 of NonceCounter
  pc,       \* where each thread is
  want,     \* each thread's clone of the job
  fixed,    \* its fixed_top_byte
  iter,     \* its iterations
  check,    \* its next_job_check
  late,     \* history: hashes of an outdated job since it was taken
  log       \* history: the job and the nonce field hashed, in draw order

vars == <<job, counter, pc, want, fixed, iter, check, late, log>>

Init ==
  /\ job = None
  /\ counter = 0
  /\ pc = [w \in Workers |-> "top"]
  /\ want = [w \in Workers |-> None]
  /\ fixed = [w \in Workers |-> 0]
  /\ iter = [w \in Workers |-> 0]
  /\ check = [w \in Workers |-> 0]
  /\ late = [w \in Workers |-> 0]
  /\ log = <<>>

-----------------------------------------------------------------------------
Version(j) == IF j = None THEN 0 ELSE j.version

(* A job is published.  NiceHash is a flag of the pool, so jobs of both    *)
(* kinds follow each other when the client changes pools.                  *)
NewJob(j) ==
  /\ j.version <= MaxJobs
  /\ job' = j
  /\ UNCHANGED <<counter, pc, want, fixed, iter, check, late, log>>

(* The top byte of the input once the extra nonce is copied over it.       *)
Reserved(j) == IF j.extra = None THEN j.top ELSE j.extra

(* Faulty TakeJob: next_job_check outlives the job it was counted for.     *)
TakeJobKeepingCheck(w) ==
  /\ pc[w] = "top"
  /\ job # None
  /\ want' = [want EXCEPT ![w] = job]
  /\ fixed' = [fixed EXCEPT ![w] = IF job.nicehash THEN Reserved(job) ELSE 0]
  /\ iter' = [iter EXCEPT ![w] = 0]
  /\ late' = [late EXCEPT ![w] = 0]
  /\ pc' = [pc EXCEPT ![w] = "loop"]
  /\ UNCHANGED <<job, counter, check, log>>

(* The thread clones the job and prepares its input buffer.                *)
TakeJob(w) ==
  /\ pc[w] = "top"
  /\ job # None
  /\ want' = [want EXCEPT ![w] = job]
  /\ fixed' = [fixed EXCEPT ![w] = IF job.nicehash THEN Reserved(job) ELSE 0]
  /\ iter' = [iter EXCEPT ![w] = 0]
  /\ check' = [check EXCEPT ![w] = 0]
  /\ late' = [late EXCEPT ![w] = 0]
  /\ pc' = [pc EXCEPT ![w] = "loop"]
  /\ UNCHANGED <<job, counter, log>>

HasChanged(w) == want[w] # job

(* The target fell below the thread, or the look at the job channel finds  *)
(* a newer job.                                                            *)
LeaveHashLoop(w) ==
  /\ pc[w] = "loop"
  /\ pc' = [pc EXCEPT ![w] = "top"]
  /\ UNCHANGED <<job, counter, want, fixed, iter, check, late, log>>

(* The loop's conditions hold: one more hash.                              *)
Continue(w) ==
  /\ pc[w] = "loop"
  /\ \/ iter[w] < check[w] /\ UNCHANGED check
     \/ /\ iter[w] >= check[w]
        /\ ~HasChanged(w)
        /\ check' = [check EXCEPT ![w] = iter[w] + CheckEvery]
  /\ pc' = [pc EXCEPT ![w] = "hash"]
  /\ UNCHANGED <<job, counter, want, fixed, iter, late, log>>

(* Faulty NextNonce: a load and a store, between which another thread's    *)
(* draw may fall and be undone.                                            *)
NextNonceInTwoSteps == counter' \in {counter, (counter + 1) % Space}

(* Faulty NextNonce: the counter does not wrap.                            *)
NextNonceWithoutWrap == counter' = counter + 1

(* NonceCounter::next: fetch_add on an AtomicU32.                          *)
NextNonce == counter' = (counter + 1) % Space

(* Faulty Mask: a NiceHash job gets the raw nonce.                         *)
MaskNothing(w, raw) == raw

(* (raw & 0x00FFFFFF) | (fixed_top_byte << 24) for NiceHash.               *)
Mask(w, raw) ==
  IF want[w].nicehash THEN Low * fixed[w] + (raw % Low) ELSE raw

(* Draw a nonce, write it into the input, hash.                            *)
Hash(w) ==
  /\ pc[w] = "hash"
  /\ Len(log) < MaxDraws
  /\ NextNonce
  /\ log' = Append(log, [job |-> want[w], field |-> Mask(w, counter)])
  /\ iter' = [iter EXCEPT ![w] = @ + 1]
  /\ late' = [late EXCEPT ![w] = IF HasChanged(w) THEN @ + 1 ELSE @]
  /\ pc' = [pc EXCEPT ![w] = "loop"]
  /\ UNCHANGED <<job, want, fixed, check>>

-----------------------------------------------------------------------------
WorkerStep(w) ==
  \/ TakeJob(w)
  \/ LeaveHashLoop(w)
  \/ Continue(w)
  \/ Hash(w)

Next ==
  \/ \E nicehash \in BOOLEAN, top \in TopBytes, extra \in TopBytes \cup {None} :
       NewJob([version |-> Version(job) + 1, nicehash |-> nicehash,
               top |-> top, extra |-> extra])
  \/ \E w \in Workers : WorkerStep(w)

Spec == Init /\ [][Next]_vars

-----------------------------------------------------------------------------
TypeOK ==
  /\ job \in Jobs \cup {None}
  /\ counter \in Nonces
  /\ pc \in [Workers -> {"top", "loop", "hash"}]
  /\ want \in [Workers -> Jobs \cup {None}]
  /\ fixed \in [Workers -> TopBytes]
  /\ iter \in [Workers -> Nat]
  /\ check \in [Workers -> Nat]
  /\ late \in [Workers -> Nat]
  /\ log \in Seq([job : Jobs, field : Nonces])

(* Hashes after which a job's nonces start again.                          *)
Period(j) == IF j.nicehash THEN Low ELSE Space

(* "Each worker calls next() to get a unique nonce": threads that hash the *)
(* same job never hash the same input until the job's nonces are used up   *)
(* by all threads together, whatever other jobs, NiceHash or not, used the *)
(* counter in between.                                                     *)
NoncesRepeatLate ==
  \A i, j \in DOMAIN log :
    i < j /\ log[i] = log[j] => j - i >= Period(log[i].job)

(* "the pool reserves the top byte [...] Miners must preserve it": every   *)
(* input hashed for a NiceHash job carries the byte the pool reserved,     *)
(* though the counter is shared with jobs that use all four bytes.         *)
ReservedByteIsKept ==
  \A i \in DOMAIN log :
    log[i].job.nicehash => log[i].field \div Low = Reserved(log[i].job)

(* A thread hashes at most CheckEvery times for a job that is outdated,    *)
(* although it looks at the channel only every so many hashes and may have *)
(* been interrupted and have come back in between.                         *)
StaleHashesAreFew == \A w \in Workers : late[w] <= CheckEvery
=============================================================================
