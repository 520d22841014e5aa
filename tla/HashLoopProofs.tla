--------------------------- MODULE HashLoopProofs ---------------------------
(***************************************************************************)
(* The safety of HashLoop for any number of threads, any width of the      *)
(* nonce and any distance between two looks at the job channel.            *)
(***************************************************************************)
EXTENDS HashLoop, TLAPS

-----------------------------------------------------------------------------
(* Division.                                                               *)

(* What \div and % are.                                                   *)
LEMMA DivMod ==
  ASSUME NEW x \in Nat, NEW n \in Nat \ {0}
  PROVE  /\ x = n * (x \div n) + (x % n)
         /\ x % n \in 0 .. n - 1
         /\ x \div n \in Nat
BY Z3

(* A larger multiple is larger by at least one multiplicand.               *)
LEMMA ProductGrows ==
  ASSUME NEW n \in Nat, NEW p \in Nat, NEW q \in Nat, p < q
  PROVE  n * p + n <= n * q
<1>1. PICK d \in Nat : q = p + 1 + d
  <2>1. q - p - 1 \in Nat /\ q = p + 1 + (q - p - 1)
    OBVIOUS
  <2>2. QED
    BY <2>1
<1>2. n * (p + 1 + d) = n * p + n + n * d
  BY Z3
<1>3. n * d \in Nat /\ n * p \in Nat
  BY Z3
<1>4. QED
  BY <1>1, <1>2, <1>3

(* A quotient and a remainder that fit are the quotient and the remainder. *)
LEMMA DivModUnique ==
  ASSUME NEW n \in Nat \ {0}, NEW q \in Nat, NEW r \in 0 .. n - 1
  PROVE  /\ (n * q + r) \div n = q
         /\ (n * q + r) % n = r
<1> DEFINE x == n * q + r
<1>1. n * q \in Nat /\ x \in Nat
  BY Z3
<1>2. /\ x = n * (x \div n) + (x % n)
      /\ x % n \in 0 .. n - 1
      /\ x \div n \in Nat
  BY <1>1, DivMod
<1> HIDE DEF x
<1>3. ~(x \div n < q)
  <2>1. SUFFICES ASSUME x \div n < q PROVE FALSE
    OBVIOUS
  <2>2. n * (x \div n) + n <= n * q
    BY <1>2, <2>1, ProductGrows
  <2>3. n * (x \div n) \in Nat
    BY <1>2, Z3
  <2>4. QED
    BY <1>1, <1>2, <2>2, <2>3 DEF x
<1>4. ~(q < x \div n)
  <2>1. SUFFICES ASSUME q < x \div n PROVE FALSE
    OBVIOUS
  <2>2. n * q + n <= n * (x \div n)
    BY <1>2, <2>1, ProductGrows
  <2>3. n * (x \div n) \in Nat
    BY <1>2, Z3
  <2>4. QED
    BY <1>1, <1>2, <2>2, <2>3 DEF x
<1>5. x \div n = q
  BY <1>2, <1>3, <1>4
<1>6. x % n = r
  BY <1>1, <1>2, <1>5 DEF x
<1> QED
  BY <1>5, <1>6 DEF x

(* The remainder goes on where it was.                                     *)
LEMMA ModStep ==
  ASSUME NEW x \in Nat, NEW n \in Nat \ {0}
  PROVE  ((x % n) + 1) % n = (x + 1) % n
<1> DEFINE q == x \div n
           r == x % n
<1>1. x = n * q + r /\ r \in 0 .. n - 1 /\ q \in Nat
  BY DivMod
<1> HIDE DEF q, r
<1>2. CASE r + 1 < n
  <2>1. (n * q + (r + 1)) % n = r + 1
    BY <1>1, <1>2, DivModUnique
  <2>2. (n * 0 + (r + 1)) % n = r + 1
    BY <1>1, <1>2, DivModUnique
  <2>3. n * q \in Nat /\ n * 0 = 0
    BY <1>1, Z3
  <2>4. n * q + (r + 1) = x + 1 /\ n * 0 + (r + 1) = r + 1
    BY <1>1, <2>3
  <2> QED
    BY <2>1, <2>2, <2>4 DEF r
<1>3. CASE r + 1 = n
  <2>1. (n * (q + 1) + 0) % n = 0 /\ (n * 1 + 0) % n = 0
    BY <1>1, DivModUnique
  <2>2. n * (q + 1) = n * q + n /\ n * 1 = n /\ n * q \in Nat
    BY <1>1, Z3
  <2>3. n * (q + 1) + 0 = x + 1 /\ n * 1 + 0 = r + 1
    BY <1>1, <1>3, <2>2
  <2> QED
    BY <2>1, <2>3 DEF r
<1> QED
  BY <1>1, <1>2, <1>3

(* Equal remainders are a multiple of the divisor apart.                   *)
LEMMA ModRepeats ==
  ASSUME NEW x \in Nat, NEW y \in Nat, NEW n \in Nat \ {0},
         x < y, x % n = y % n
  PROVE  y - x >= n
<1> DEFINE p == x \div n
           q == y \div n
           r == x % n
<1>1. x = n * p + r /\ y = n * q + r /\ r \in 0 .. n - 1
      /\ p \in Nat /\ q \in Nat
  BY DivMod
<1> HIDE DEF p, q, r
<1>2. n * p \in Nat /\ n * q \in Nat
  BY <1>1, Z3
<1>3. CASE p < q
  BY <1>1, <1>2, <1>3, ProductGrows
<1>4. CASE p = q
  BY <1>1, <1>2, <1>4
<1>5. CASE q < p
  BY <1>1, <1>2, <1>5, ProductGrows
<1> QED
  BY <1>1, <1>3, <1>4, <1>5

(* The lower digits of a remainder are those of the number itself.         *)
LEMMA ModOfMod ==
  ASSUME NEW x \in Nat
  PROVE  (x % Space) % Low = x % Low
<1> DEFINE q == x \div Space
           r == x % Space
           s == r \div Low
           t == r % Low
<1>1. Low \in Nat \ {0} /\ Tops \in Nat \ {0} /\ Space \in Nat \ {0}
  BY WidthAssumption, Z3 DEF Space
<1>2. x = Space * q + r /\ r \in 0 .. Space - 1 /\ q \in Nat
  BY <1>1, DivMod
<1> HIDE DEF q, r
<1>3. r = Low * s + t /\ t \in 0 .. Low - 1 /\ s \in Nat
  <2>1. r \in Nat
    BY <1>1, <1>2
  <2> QED
    BY <1>1, <2>1, DivMod
<1> HIDE DEF s, t
<1>4. Space * q = Low * (Tops * q)
  BY <1>1, <1>2, Z3 DEF Space
<1>5. Tops * q \in Nat /\ Tops * q + s \in Nat
  BY <1>1, <1>2, <1>3, Z3
<1>6. Low * (Tops * q + s) = Low * (Tops * q) + Low * s
  BY <1>1, <1>3, <1>5, Z3
<1>7. Low * s \in Nat /\ Low * (Tops * q) \in Nat
  BY <1>1, <1>3, <1>5, Z3
<1>8. x = Low * (Tops * q + s) + t
  BY <1>2, <1>3, <1>4, <1>6, <1>7
<1>9. (Low * (Tops * q + s) + t) % Low = t
  BY <1>1, <1>3, <1>5, DivModUnique
<1> QED
  BY <1>8, <1>9 DEF r, t

-----------------------------------------------------------------------------
(* The invariant.                                                          *)

(* A thread in the hash loop has a job, not newer than the published one,  *)
(* and the top byte that was reserved for it.                              *)
Prepared(w) ==
  pc[w] # "top" =>
    /\ want[w] \in Jobs
    /\ job \in Jobs
    /\ want[w].version <= job.version
    /\ HasChanged(w) => want[w].version < job.version
    /\ want[w].nicehash => fixed[w] = Reserved(want[w])

(* The counter is the number of draws, and a logged input was made from    *)
(* the number of its draw.                                                 *)
FieldOf(j, n) == IF j.nicehash THEN Low * Reserved(j) + ((n % Space) % Low)
                               ELSE n % Space

Drawn ==
  /\ counter = Len(log) % Space
  /\ \A i \in DOMAIN log : log[i].field = FieldOf(log[i].job, i - 1)

(* How many hashes a thread may make before it looks at the channel.       *)
Left(w) == IF iter[w] < check[w] THEN check[w] - iter[w] ELSE 0

(* The late hashes made and those still possible are not too many.         *)
Budget(w) ==
  /\ Left(w) <= CheckEvery
  /\ pc[w] = "hash" => iter[w] < check[w]
  /\ pc[w] # "top" /\ ~HasChanged(w) => late[w] = 0
  /\ late[w] <= CheckEvery
  /\ pc[w] # "top" => late[w] + Left(w) <= CheckEvery

IInv ==
  /\ TypeOK
  /\ \A w \in Workers : Prepared(w)
  /\ Drawn
  /\ \A w \in Workers : Budget(w)

(* The constants are positive.                                             *)
LEMMA Widths ==
  /\ Low \in Nat \ {0}
  /\ Tops \in Nat \ {0}
  /\ Space \in Nat \ {0}
  /\ CheckEvery \in Nat \ {0}
  /\ Nonces \subseteq Nat
BY WidthAssumption, CheckAssumption, Z3 DEF Space, Nonces

(* A top byte and three lower bytes make a nonce.                          *)
LEMMA MaskedIsNonce ==
  ASSUME NEW top \in TopBytes, NEW low \in 0 .. Low - 1
  PROVE  Low * top + low \in Nonces
<1>1. Low * top + Low <= Low * Tops
  BY ProductGrows, Widths DEF TopBytes
<1>2. Low * top \in Nat
  BY Widths, Z3 DEF TopBytes
<1> QED
  BY <1>1, <1>2, Widths DEF Nonces, Space

(* What the pool reserves is a byte.                                       *)
LEMMA ReservedIsByte ==
  ASSUME NEW j \in Jobs
  PROVE  Reserved(j) \in TopBytes
BY DEF Reserved, Jobs

-----------------------------------------------------------------------------
(* Every step preserves it.                                                *)

LEMMA InitIsGood == Init => IInv
<1> SUFFICES ASSUME Init PROVE IInv
  OBVIOUS
<1>1. 0 \in Nonces /\ 0 \in TopBytes
  BY Widths DEF Nonces, TopBytes
<1>2. 0 % Space = 0
  BY Widths, Z3
<1>3. TypeOK
  BY <1>1 DEF Init, TypeOK
<1>4. ASSUME NEW w \in Workers PROVE Prepared(w) /\ Budget(w)
  <2>1. pc[w] = "top" /\ iter[w] = 0 /\ check[w] = 0 /\ late[w] = 0
    BY DEF Init
  <2>2. Left(w) = 0
    BY <2>1 DEF Left
  <2> QED
    BY <2>1, <2>2, Widths DEF Prepared, Budget
<1>5. Drawn
  BY <1>2 DEF Init, Drawn
<1> QED
  BY <1>3, <1>4, <1>5 DEF IInv

LEMMA NewJobIsGood ==
  ASSUME IInv, NEW j \in Jobs, j.version = Version(job) + 1, NewJob(j)
  PROVE  IInv'
<1> USE DEF IInv
<1>1. TypeOK'
  BY DEF TypeOK, NewJob
<1>2. Drawn'
  BY DEF Drawn, NewJob
<1>3. ASSUME NEW w \in Workers
      PROVE  Prepared(w)' /\ Budget(w)'
  <2>1. Prepared(w) /\ Budget(w)
    OBVIOUS
  <2>2. pc[w] # "top" => j.version = job.version + 1
    BY <2>1, NoJobAssumption DEF Prepared, Version
  <2>3. pc[w] # "top" => HasChanged(w)' /\ want[w].version < j.version
    BY <2>1, <2>2 DEF Prepared, HasChanged, NewJob, Jobs
  <2>4. Prepared(w)'
    BY <2>1, <2>2, <2>3 DEF Prepared, NewJob, Jobs, Reserved
  <2>5. Budget(w)'
    BY <2>1, <2>3 DEF Budget, Left, NewJob
  <2> QED
    BY <2>4, <2>5
<1> QED
  BY <1>1, <1>2, <1>3

LEMMA TakeJobIsGood ==
  ASSUME IInv, NEW v \in Workers, TakeJob(v)
  PROVE  IInv'
<1> USE DEF IInv
<1>1. job \in Jobs /\ Reserved(job) \in TopBytes /\ 0 \in TopBytes
  BY ReservedIsByte, Widths DEF TakeJob, TypeOK, TopBytes
<1>2. TypeOK'
  BY <1>1 DEF TypeOK, TakeJob
<1>3. Drawn'
  BY DEF Drawn, TakeJob
<1>4. ASSUME NEW w \in Workers
      PROVE  Prepared(w)' /\ Budget(w)'
  <2>1. Prepared(w) /\ Budget(w) /\ job.version \in Nat
    BY <1>1 DEF Jobs
  <2>2. CASE w = v
    BY <1>1, <2>1, <2>2, Widths
    DEF Prepared, Budget, Left, HasChanged, TakeJob, TypeOK, Reserved
  <2>3. CASE w # v
    BY <2>1, <2>3 DEF Prepared, Budget, Left, HasChanged, TakeJob, TypeOK, Reserved
  <2> QED
    BY <2>2, <2>3
<1> QED
  BY <1>2, <1>3, <1>4

LEMMA LeaveIsGood ==
  ASSUME IInv, NEW v \in Workers, LeaveHashLoop(v)
  PROVE  IInv'
<1> USE DEF IInv
<1>1. TypeOK' /\ Drawn'
  BY DEF TypeOK, Drawn, LeaveHashLoop
<1>2. ASSUME NEW w \in Workers
      PROVE  Prepared(w)' /\ Budget(w)'
  BY DEF Prepared, Budget, Left, HasChanged, LeaveHashLoop, TypeOK, Reserved
<1> QED
  BY <1>1, <1>2

LEMMA ContinueIsGood ==
  ASSUME IInv, NEW v \in Workers, Continue(v)
  PROVE  IInv'
<1> USE DEF IInv
<1>1. TypeOK'
  <2>1. iter[v] + CheckEvery \in Nat
    BY Widths DEF TypeOK
  <2>2. check' \in [Workers -> Nat] /\ pc' \in [Workers -> {"top", "loop", "hash"}]
    BY <2>1 DEF TypeOK, Continue
  <2> QED
    BY <2>2 DEF TypeOK, Continue
<1>3. Drawn'
  BY DEF Drawn, Continue
<1>2. ASSUME NEW w \in Workers
      PROVE  Prepared(w)' /\ Budget(w)'
  <2>1. Prepared(w) /\ Budget(w)
        /\ iter[w] \in Nat /\ check[w] \in Nat /\ late[w] \in Nat
    BY DEF TypeOK
  <2>2. Prepared(w)'
    BY <2>1 DEF Prepared, HasChanged, Continue, TypeOK, Reserved
  <2>3. Budget(w)'
    <3>1. CASE w = v
      BY <2>1, <3>1, Widths DEF Budget, Left, HasChanged, Continue, TypeOK
    <3>2. CASE w # v
      BY <2>1, <3>2 DEF Budget, Left, HasChanged, Continue, TypeOK
    <3> QED
      BY <3>1, <3>2
  <2> QED
    BY <2>2, <2>3
<1> QED
  BY <1>1, <1>2, <1>3

LEMMA HashIsGood ==
  ASSUME IInv, NEW v \in Workers, Hash(v)
  PROVE  IInv'
<1> USE DEF IInv
<1> DEFINE n == Len(log)
           e == [job |-> want[v], field |-> Mask(v, counter)]
<1>1. /\ Prepared(v) /\ want[v] \in Jobs /\ n \in Nat
      /\ log \in Seq([job : Jobs, field : Nonces])
  BY DEF Hash, Prepared, TypeOK
<1>2. counter \in Nonces /\ counter = n % Space
  BY DEF TypeOK, Drawn
<1>3. counter % Low \in 0 .. Low - 1
  BY <1>2, Widths, DivMod
<1>4. e.field = FieldOf(want[v], n)
  BY <1>1, <1>2 DEF Mask, FieldOf, Prepared, Hash
<1>5. e \in [job : Jobs, field : Nonces]
  <2>1. fixed[v] \in TopBytes
    BY DEF TypeOK
  <2>2. Mask(v, counter) \in Nonces
    BY <1>2, <1>3, <2>1, MaskedIsNonce DEF Mask
  <2> QED
    BY <1>1, <2>2
<1>6. counter' = (n + 1) % Space /\ counter' \in Nonces
  <2>1. ((n % Space) + 1) % Space = (n + 1) % Space
    BY <1>1, Widths, ModStep
  <2>2. (n + 1) % Space \in 0 .. Space - 1
    BY <1>1, Widths, DivMod
  <2> QED
    BY <1>2, <2>1, <2>2 DEF Hash, NextNonce, Nonces
<1>7. log' = Append(log, e)
  BY DEF Hash
<1> HIDE DEF e
<1>8. TypeOK'
  <2>1. log' \in Seq([job : Jobs, field : Nonces])
    BY <1>1, <1>5, <1>7
  <2> QED
    BY <1>6, <2>1 DEF TypeOK, Hash
<1>9. Drawn'
  <2>1. Len(log') = n + 1 /\ log'[n + 1] = e
        /\ \A i \in 1 .. n : log'[i] = log[i]
    BY <1>1, <1>7
  <2>2. DOMAIN log' = 1 .. n + 1 /\ DOMAIN log = 1 .. n
    BY <1>1, <1>7
  <2>3. e.job = want[v]
    BY DEF e
  <2>4. ASSUME NEW i \in 1 .. n + 1
        PROVE  log'[i].field = FieldOf(log'[i].job, i - 1)
    <3>1. CASE i = n + 1
      BY <1>1, <1>4, <2>1, <2>3, <3>1
    <3>2. CASE i \in 1 .. n
      BY <2>1, <2>2, <3>2 DEF Drawn
    <3> QED
      BY <1>1, <3>1, <3>2
  <2> QED
    BY <1>6, <2>1, <2>2, <2>4 DEF Drawn, FieldOf, Reserved
<1>10. ASSUME NEW w \in Workers
       PROVE  Prepared(w)' /\ Budget(w)'
  <2>1. Prepared(w) /\ Budget(w)
        /\ iter[w] \in Nat /\ check[w] \in Nat /\ late[w] \in Nat
    BY DEF TypeOK
  <2>2. Prepared(w)'
    BY <2>1 DEF Prepared, HasChanged, Hash, TypeOK, Reserved
  <2>3. Budget(w)'
    <3>1. CASE w = v
      BY <2>1, <3>1, Widths DEF Budget, Left, HasChanged, Hash, TypeOK
    <3>2. CASE w # v
      BY <2>1, <3>2 DEF Budget, Left, HasChanged, Hash, TypeOK
    <3> QED
      BY <3>1, <3>2
  <2> QED
    BY <2>2, <2>3
<1> QED
  BY <1>8, <1>9, <1>10

(* What the log holds.                                                     *)
LEMMA Entry ==
  ASSUME TypeOK, NEW i \in DOMAIN log
  PROVE  /\ i \in Nat /\ i - 1 \in Nat
         /\ log[i].job \in Jobs
         /\ (i - 1) % Space \in Nat /\ (i - 1) % Low \in Nat
         /\ ((i - 1) % Space) % Low \in 0 .. Low - 1
<1> DEFINE S == [job : Jobs, field : Nonces]
<1>1. log \in Seq(S)
  BY DEF TypeOK
<1> HIDE DEF S
<1>2. i \in 1 .. Len(log) /\ Len(log) \in Nat
  BY <1>1
<1>3. i \in Nat /\ i - 1 \in Nat
  BY <1>2
<1>4. log[i] \in S
  BY <1>1, <1>2
<1> DEFINE k == i - 1
<1> HIDE DEF k
<1>5. k % Space \in 0 .. Space - 1 /\ k % Low \in 0 .. Low - 1 /\ k \in Nat
  BY <1>3, Widths, DivMod DEF k
<1>6. k % Space \in Nat /\ k % Low \in Nat
  BY <1>5, Widths
<1> DEFINE m == k % Space
<1> HIDE DEF m
<1>7. m % Low \in 0 .. Low - 1
  BY <1>6, Widths, DivMod DEF m
<1> QED
  BY <1>3, <1>4, <1>6, <1>7 DEF k, m, S

(* A step that changes nothing.                                            *)
LEMMA StutterIsGood ==
  ASSUME IInv, UNCHANGED vars
  PROVE  IInv'
BY DEF IInv, vars, TypeOK, Prepared, Drawn, Budget, Left, HasChanged, FieldOf,
       Reserved

(* The invariant holds throughout.                                         *)
LEMMA Invariance == Spec => []IInv
<1>1. ASSUME IInv, [Next]_vars PROVE IInv'
  <2>1. CASE \E nicehash \in BOOLEAN, top \in TopBytes,
               extra \in TopBytes \cup {None} :
               NewJob([version |-> Version(job) + 1, nicehash |-> nicehash,
                       top |-> top, extra |-> extra])
    <3>1. PICK nicehash \in BOOLEAN, top \in TopBytes,
               extra \in TopBytes \cup {None} :
               NewJob([version |-> Version(job) + 1, nicehash |-> nicehash,
                       top |-> top, extra |-> extra])
      BY <2>1
    <3> DEFINE j == [version |-> Version(job) + 1, nicehash |-> nicehash,
                     top |-> top, extra |-> extra]
    <3>2. Version(job) \in Nat
      BY <1>1 DEF IInv, TypeOK, Version, Jobs
    <3>3. j \in Jobs /\ j.version = Version(job) + 1
      BY <3>2 DEF Jobs
    <3>4. NewJob(j)
      BY <3>1
    <3> QED
      BY <1>1, <3>3, <3>4, NewJobIsGood
  <2>2. CASE \E w \in Workers : WorkerStep(w)
    BY <1>1, <2>2, TakeJobIsGood, LeaveIsGood, ContinueIsGood, HashIsGood
    DEF WorkerStep
  <2>3. CASE UNCHANGED vars
    BY <1>1, <2>3, StutterIsGood
  <2> QED
    BY <1>1, <2>1, <2>2, <2>3 DEF Next
<1> QED
  BY <1>1, InitIsGood, PTL DEF Spec

-----------------------------------------------------------------------------
(* The variables of the hash loop keep their types; in particular the      *)
(* masked nonces fit the four bytes of the field they are written to.      *)
THEOREM TypeCorrect == Spec => []TypeOK
<1>1. IInv => TypeOK
  BY DEF IInv
<1> QED
  BY <1>1, Invariance, PTL

(* NonceCounter::next: no input is hashed again for a job until all        *)
(* threads together have used its nonces up, 2^24 of them for NiceHash and *)
(* 2^32 otherwise.                                                         *)
THEOREM NoncesAreUnique == Spec => []NoncesRepeatLate
<1>1. IInv => NoncesRepeatLate
  <2> SUFFICES ASSUME IInv, NEW i \in DOMAIN log, NEW j \in DOMAIN log,
                      i < j, log[i] = log[j]
               PROVE  j - i >= Period(log[i].job)
    BY DEF NoncesRepeatLate
  <2> DEFINE J == log[i].job
             x == i - 1
             y == j - 1
  <2>1. /\ x \in Nat /\ y \in Nat /\ i \in Nat /\ j \in Nat /\ J \in Jobs
        /\ x < y /\ j - i = y - x
        /\ x % Low \in Nat /\ y % Low \in Nat
    BY Entry DEF IInv
  <2>2. FieldOf(J, x) = FieldOf(J, y)
    BY DEF IInv, Drawn
  <2> HIDE DEF J, x, y
  <2>3. CASE J.nicehash
    <3>1. (x % Space) % Low = x % Low /\ (y % Space) % Low = y % Low
      BY <2>1, ModOfMod
    <3>2. Low * Reserved(J) + (x % Low) = Low * Reserved(J) + (y % Low)
      BY <2>2, <2>3, <3>1 DEF FieldOf
    <3>3. Low * Reserved(J) \in Nat
      <4>1. Reserved(J) \in Nat
        BY <2>1, ReservedIsByte DEF TopBytes
      <4> QED
        BY <4>1, Widths, Z3
    <3>4. x % Low = y % Low
      <4> DEFINE a == x % Low
                 b == y % Low
      <4>1. a \in Nat /\ b \in Nat /\ Low * Reserved(J) + a = Low * Reserved(J) + b
        BY <2>1, <3>2
      <4> HIDE DEF a, b
      <4>2. a = b
        BY <3>3, <4>1
      <4> QED
        BY <4>2 DEF a, b
    <3>5. y - x >= Low
      BY <2>1, <3>4, Widths, ModRepeats
    <3> QED
      BY <2>1, <2>3, <3>5 DEF Period, J
  <2>4. CASE ~J.nicehash
    <3>1. x % Space = y % Space
      BY <2>2, <2>4 DEF FieldOf
    <3>2. y - x >= Space
      BY <2>1, <3>1, Widths, ModRepeats
    <3> QED
      BY <2>1, <2>4, <3>2 DEF Period, J
  <2> QED
    BY <2>3, <2>4
<1> QED
  BY <1>1, Invariance, PTL

(* The mask of Worker::run: the byte a NiceHash pool reserves is in every  *)
(* input hashed for it.                                                    *)
THEOREM ReservedByteSurvives == Spec => []ReservedByteIsKept
<1>1. IInv => ReservedByteIsKept
  <2> SUFFICES ASSUME IInv, NEW i \in DOMAIN log, log[i].job.nicehash
               PROVE  log[i].field \div Low = Reserved(log[i].job)
    BY DEF ReservedByteIsKept
  <2> DEFINE r == Reserved(log[i].job)
             x == (i - 1) % Space
             low == x % Low
  <2>2. r \in Nat
    BY Entry, ReservedIsByte DEF IInv, TopBytes
  <2>4. low \in 0 .. Low - 1
    BY Entry DEF IInv
  <2>5. log[i].field = Low * r + low
    BY DEF IInv, Drawn, FieldOf
  <2> HIDE DEF low, r
  <2>6. (Low * r + low) \div Low = r
    BY <2>2, <2>4, DivModUnique, Widths
  <2> QED
    BY <2>5, <2>6 DEF r
<1> QED
  BY <1>1, Invariance, PTL

(* The look at the job channel every CheckEvery hashes: no thread ever     *)
(* makes more than that many for an outdated job.                          *)
THEOREM StaleWorkIsBounded == Spec => []StaleHashesAreFew
<1>1. IInv => StaleHashesAreFew
  BY DEF IInv, Budget, StaleHashesAreFew
<1> QED
  BY <1>1, Invariance, PTL

-----------------------------------------------------------------------------
(* The target.                                                             *)

LEMMA ProductMonotone ==
  ASSUME NEW n \in Nat, NEW p \in Nat, NEW q \in Nat, p <= q
  PROVE  n * p <= n * q
<1>1. PICK d \in Nat : q = p + d
  <2>1. q - p \in Nat /\ q = p + (q - p)
    OBVIOUS
  <2> QED
    BY <2>1
<1>2. n * (p + d) = n * p + n * d /\ n * d \in Nat /\ n * p \in Nat
  BY Z3
<1> QED
  BY <1>1, <1>2

(* A quotient times its divisor is no more than the dividend.              *)
LEMMA QuotientTimesDivisor ==
  ASSUME NEW x \in Nat, NEW n \in Nat \ {0}
  PROVE  x \div n \in Nat /\ n * (x \div n) <= x
<1>1. n * (x \div n) \in Nat
  BY DivMod, Z3
<1> QED
  BY <1>1, DivMod

(* What fits a dividend so often is no more than the quotient.             *)
LEMMA QuotientIsLargest ==
  ASSUME NEW x \in Nat, NEW n \in Nat \ {0}, NEW p \in Nat, n * p <= x
  PROVE  p <= x \div n
<1> SUFFICES ASSUME x \div n < p PROVE FALSE
  BY DivMod
<1>1. n * (x \div n) + n <= n * p
  BY DivMod, ProductGrows
<1>2. n * (x \div n) \in Nat /\ n * p \in Nat
  BY DivMod, Z3
<1> QED
  BY <1>1, <1>2, DivMod

(* The expansion of a target by MiningJob::from_params, for words of any   *)
(* width: what the pool's division and the miner's lose costs no share.    *)
THEOREM ExpandedTargetsAreExact == TargetsAreExact
<1> SUFFICES ASSUME NEW d \in 1 .. Max32, NEW h \in 0 .. Max64
    PROVE  /\ IsShare(h, Expand(SentFor(d))) => (h + 1) * d <= Word * Word
           /\ h \div Word < SentFor(d) => IsShare(h, Expand(SentFor(d)))
  BY DEF TargetsAreExact
<1> DEFINE t == SentFor(d)
           q == Max32 \div t
<1>1. /\ Word \in Nat \ {0} /\ Word * Word \in Nat /\ Word * Word >= 1
      /\ Max32 \in Nat /\ Max64 \in Nat /\ d \in Nat \ {0} /\ h \in Nat
      /\ Word * Word = Word * Max32 + Word /\ Word * Max32 \in Nat
  BY WordAssumption, Z3 DEF Max32, Max64
<1>2. t \in Nat \ {0} /\ d * t <= Max32
  <2>1. t \in Nat /\ d * t <= Max32
    BY <1>1, QuotientTimesDivisor DEF SentFor
  <2>2. 1 <= t
    <3>1. d * 1 <= Max32
      BY <1>1
    <3> QED
      BY <1>1, <3>1, QuotientIsLargest DEF SentFor
  <2> QED
    BY <2>1, <2>2
<1> HIDE DEF t
<1>3. q \in Nat \ {0} /\ d <= q /\ t * q <= Max32
  <2>1. t * d = d * t
    BY <1>1, <1>2, Z3
  <2>2. q \in Nat /\ t * q <= Max32
    BY <1>1, <1>2, QuotientTimesDivisor
  <2>3. d <= q
    BY <1>1, <1>2, <2>1, QuotientIsLargest
  <2> QED
    BY <1>1, <2>2, <2>3
<1>4. Expand(t) = Max64 \div q
  BY <1>2 DEF Expand
<1> HIDE DEF q
<1>5. ASSUME IsShare(h, Expand(t))
      PROVE  (h + 1) * d <= Word * Word
  <2>1. h + 1 <= Max64 \div q /\ Max64 \div q \in Nat
    BY <1>1, <1>3, <1>4, <1>5, QuotientTimesDivisor DEF IsShare
  <2>2. q * (h + 1) <= q * (Max64 \div q) /\ q * (Max64 \div q) <= Max64
    BY <1>1, <1>3, <2>1, ProductMonotone, QuotientTimesDivisor
  <2>3. (h + 1) * d <= (h + 1) * q
    BY <1>1, <1>3, ProductMonotone
  <2>4. (h + 1) * q = q * (h + 1) /\ q * (h + 1) \in Nat
        /\ q * (Max64 \div q) \in Nat /\ (h + 1) * d \in Nat
    BY <1>1, <1>3, <2>1, Z3
  <2> QED
    BY <1>1, <2>2, <2>3, <2>4 DEF Max64
<1>6. ASSUME h \div Word < t
      PROVE  IsShare(h, Expand(t))
  <2>1. h + 1 <= Word * t
    <3>1. h = Word * (h \div Word) + (h % Word) /\ h % Word \in 0 .. Word - 1
          /\ h \div Word \in Nat
      BY <1>1, DivMod
    <3>2. Word * (h \div Word) + Word <= Word * t
      BY <1>1, <1>2, <1>6, <3>1, ProductGrows
    <3>3. Word * (h \div Word) \in Nat /\ Word * t \in Nat
      BY <1>1, <1>2, <3>1, Z3
    <3> QED
      BY <1>1, <3>1, <3>2, <3>3
  <2>2. q * (h + 1) <= q * (Word * t)
    <3>1. Word * t \in Nat
      BY <1>1, <1>2, Z3
    <3> QED
      BY <1>1, <1>3, <2>1, <3>1, ProductMonotone
  <2>3. q * (Word * t) = Word * (t * q) /\ t * q \in Nat
    BY <1>1, <1>2, <1>3, Z3
  <2>4. Word * (t * q) <= Word * Max32
    BY <1>1, <1>3, <2>3, ProductMonotone
  <2>5. q * (h + 1) \in Nat /\ Word * (t * q) \in Nat
    BY <1>1, <1>3, <2>3, Z3
  <2>6. q * (h + 1) <= Max64
    BY <1>1, <2>2, <2>3, <2>4, <2>5 DEF Max64
  <2>7. h + 1 <= Max64 \div q
    BY <1>1, <1>3, <2>6, QuotientIsLargest
  <2> QED
    BY <1>1, <1>3, <1>4, <2>7, QuotientTimesDivisor DEF IsShare
<1> QED
  BY <1>5, <1>6 DEF t
=============================================================================
