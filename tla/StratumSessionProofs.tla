------------------------- MODULE StratumSessionProofs -------------------------
(***************************************************************************)
(* What holds of a session with its stream of messages for every bound and *)
(* every number of messages in a line: the stream's own properties, and    *)
(* those of the flow of shares, which the session implements.              *)
(***************************************************************************)
EXTENDS StratumSession, ShareFlowProofs

Halves == In!Halves
Newline == In!Newline
Units == In!Units

-----------------------------------------------------------------------------
(* The inductive invariant.                                                *)

(* What of the pool's messages has not been parsed, and what has been.     *)
Stream == buf \o incoming
Seen == delivered \o queued

(* Where a half stands among all the halves ever sent.                     *)
Pos(u) == 2 * u.msg + u.half

(* Between newlines R holds the halves of messages up to n without a gap,  *)
(* and only whole lines are cut off in front.                              *)
IsUnit(R, i) == R[i] # Newline
RunFrom(R, i, j) == \A k \in i .. j : IsUnit(R, k)
Numbers1To(R, n) == \A i \in DOMAIN R : IsUnit(R, i) => R[i].msg \in 1 .. n
Increases(R) ==
  \A i, j \in DOMAIN R :
    i < j /\ IsUnit(R, i) /\ IsUnit(R, j) => Pos(R[i]) < Pos(R[j])
RunsAreWhole(R) ==
  \A i, j \in DOMAIN R :
    i <= j /\ RunFrom(R, i, j) => /\ Pos(R[j]) = Pos(R[i]) + (j - i)
                                  /\ j - i < 2 * MaxPerLine
LinesEnd(R) ==
  \A i, j \in DOMAIN R :
    j = i + 1 => /\ IsUnit(R, i) /\ ~IsUnit(R, j) => R[i].half = 2
                 /\ ~IsUnit(R, i) /\ IsUnit(R, j) => R[j].half = 1
EndsInNewline(R) == R # <<>> => ~IsUnit(R, Len(R))
WellFormed(R, n) ==
  /\ R \in Seq(Units)
  /\ Numbers1To(R, n) /\ Increases(R) /\ RunsAreWhole(R)
  /\ LinesEnd(R) /\ EndsInNewline(R)

StreamTypeOK ==
  /\ sent \in 0 .. MaxMessages
  /\ blanks \in 0 .. MaxBlanks
  /\ incoming \in Seq(Units)
  /\ eof \in BOOLEAN
  /\ buf \in Seq(Halves)
  /\ queued \in Seq(1 .. sent) /\ Len(queued) < MaxPerLine
  /\ delivered \in Seq(1 .. sent)
  /\ cancels \in 0 .. MaxShares + MaxKeepalives
  /\ torn \subseteq 1 .. sent

(* Before a read was dropped, what is left starts at a message.            *)
StartsWhole ==
  torn = {} /\ Stream # <<>> /\ IsUnit(Stream, 1) => Stream[1].half = 1

(* What is yet to be parsed is later than all that was.                    *)
SeenIsEarlier ==
  \A m \in RangeOf(Seen), i \in DOMAIN Stream :
    IsUnit(Stream, i) => m < Stream[i].msg

(* A message sent is seen, torn, or in the stream with both its halves.    *)
InFlight(m) ==
  \A h \in {1, 2} : [msg |-> m, half |-> h] \in RangeOf(Stream)
NothingMissing ==
  Connected =>
    \A m \in 1 .. sent : m \in RangeOf(Seen) \cup torn \/ InFlight(m)

(* The first message of a session is the reply to its login.               *)
LoginFirst ==
  /\ state = "login" => delivered = <<>> /\ queued = <<>> /\ torn = {}
  /\ state = "session" => delivered # <<>> /\ delivered[1] = 1

StreamInv ==
  /\ StreamTypeOK
  /\ WellFormed(Stream, sent)
  /\ StartsWhole
  /\ SeenInOrder
  /\ SeenIsEarlier
  /\ NothingMissing
  /\ OnlyTornAreLost
  /\ LoginFirst

(* What the messages say.                                                  *)
Sayings ==
  [kind : {"login", "notice"}]
    \cup [kind : {"reply"}, request : Requests, error : BOOLEAN]
ContentsOK ==
  /\ contents \in Seq(Sayings)
  /\ Len(contents) = sent
  /\ \A i \in DOMAIN contents : contents[i].kind = "login" <=> i = 1

SessionStateOK ==
  /\ state \in {"closed", "login", "session", "failed"}
  /\ open <=> (state = "session")
  /\ notices \in Nat /\ keepalives + notices \in 0 .. MaxKeepalives
  /\ drops \in 0 .. MaxDrops

SessionInv == TypeOK /\ StreamInv /\ ContentsOK /\ SessionStateOK

-----------------------------------------------------------------------------
(* Units, and the sequences of them.                                       *)

LEMMA UnitFacts ==
  /\ \A u \in Units : u # Newline => u \in Halves
  /\ \A u \in Halves : /\ u \in Units /\ u # Newline
                       /\ u.msg \in Nat /\ u.half \in {1, 2}
                       /\ u = [msg |-> u.msg, half |-> u.half]
<1>1. \A u \in Units : u # Newline => u \in Halves
  BY DEF Units, In!Units, Newline, Halves
<1>2. \A u \in Halves : u.msg \in Nat /\ u.half \in {1, 2}
                        /\ u = [msg |-> u.msg, half |-> u.half]
  BY DEF Halves, In!Halves
<1>3. Newline.half = 0
  BY DEF Newline, In!Newline
<1>4. \A u \in Halves : u \in Units
  BY DEF Units, In!Units, Halves
<1> QED BY <1>1, <1>2, <1>3, <1>4

(* Cutting whatever was read off in front leaves a stream of lines, even   *)
(* where it is not a whole line.                                           *)
LEMMA CutKeeps ==
  ASSUME NEW n, NEW R, NEW T, NEW k \in 0 .. Len(R),
         WellFormed(R, n), T \in Seq(Units), Len(T) = Len(R) - k,
         \A i \in 1 .. Len(T) : T[i] = R[k + i]
  PROVE  WellFormed(T, n)
<1>0. /\ R \in Seq(Units) /\ Len(R) \in Nat /\ DOMAIN R = 1 .. Len(R)
      /\ Len(T) \in Nat /\ DOMAIN T = 1 .. Len(T) /\ k \in Nat
  BY LenProperties DEF WellFormed
<1>1. \A i \in 1 .. Len(T) : /\ k + i \in 1 .. Len(R)
                             /\ T[i] = R[k + i]
                             /\ IsUnit(T, i) <=> IsUnit(R, k + i)
  BY <1>0 DEF IsUnit
<1>2. Numbers1To(T, n)
  BY <1>0, <1>1 DEF WellFormed, Numbers1To
<1>3. Increases(T)
  <2> SUFFICES ASSUME NEW i \in 1 .. Len(T), NEW j \in 1 .. Len(T),
                      i < j, IsUnit(T, i), IsUnit(T, j)
               PROVE  Pos(T[i]) < Pos(T[j])
    BY <1>0 DEF Increases
  <2>1. k + i \in DOMAIN R /\ k + j \in DOMAIN R /\ k + i < k + j
    BY <1>0, <1>1
  <2>2. IsUnit(R, k + i) /\ IsUnit(R, k + j)
    BY <1>1
  <2>3. Pos(R[k + i]) < Pos(R[k + j])
    BY <2>1, <2>2 DEF WellFormed, Increases
  <2> QED BY <2>3, <1>1
<1>4. RunsAreWhole(T)
  <2> SUFFICES ASSUME NEW i \in 1 .. Len(T), NEW j \in 1 .. Len(T),
                      i <= j, RunFrom(T, i, j)
               PROVE  Pos(T[j]) = Pos(T[i]) + (j - i) /\ j - i < 2 * MaxPerLine
    BY <1>0 DEF RunsAreWhole
  <2>1. RunFrom(R, k + i, k + j)
    <3> SUFFICES ASSUME NEW x \in k + i .. k + j PROVE IsUnit(R, x)
      BY DEF RunFrom
    <3>1. x - k \in i .. j /\ x - k \in 1 .. Len(T) /\ k + (x - k) = x
      BY <1>0
    <3> QED BY <3>1, <1>1 DEF RunFrom
  <2>2. /\ Pos(R[k + j]) = Pos(R[k + i]) + ((k + j) - (k + i))
        /\ (k + j) - (k + i) < 2 * MaxPerLine
    <3>1. k + i \in DOMAIN R /\ k + j \in DOMAIN R /\ k + i <= k + j
      BY <1>0, <1>1
    <3> QED BY <3>1, <2>1 DEF WellFormed, RunsAreWhole
  <2>3. (k + j) - (k + i) = j - i
    BY <1>0
  <2> QED BY <2>2, <2>3, <1>1
<1>5. LinesEnd(T)
  <2> SUFFICES ASSUME NEW i \in 1 .. Len(T), NEW j \in 1 .. Len(T), j = i + 1
               PROVE  /\ IsUnit(T, i) /\ ~IsUnit(T, j) => T[i].half = 2
                      /\ ~IsUnit(T, i) /\ IsUnit(T, j) => T[j].half = 1
    BY <1>0 DEF LinesEnd
  <2>1. k + j = (k + i) + 1 /\ k + i \in DOMAIN R /\ k + j \in DOMAIN R
    BY <1>0, <1>1
  <2>2. /\ IsUnit(R, k + i) /\ ~IsUnit(R, k + j) => R[k + i].half = 2
        /\ ~IsUnit(R, k + i) /\ IsUnit(R, k + j) => R[k + j].half = 1
    BY <2>1 DEF WellFormed, LinesEnd
  <2>3. /\ IsUnit(T, i) <=> IsUnit(R, k + i)
        /\ IsUnit(T, j) <=> IsUnit(R, k + j)
        /\ T[i] = R[k + i] /\ T[j] = R[k + j]
    BY <1>1
  <2> HIDE DEF IsUnit
  <2> QED BY <2>2, <2>3
<1>6. EndsInNewline(T)
  <2>1. CASE T # <<>>
    <3>1. Len(T) \in 1 .. Len(T) /\ k + Len(T) = Len(R) /\ Len(R) # 0
      BY <2>1, <1>0, EmptySeq
    <3>2. R # <<>>
      BY <3>1
    <3> QED BY <3>1, <3>2, <1>1 DEF WellFormed, EndsInNewline
  <2> QED BY <2>1 DEF EndsInNewline
<1> QED BY <1>2, <1>3, <1>4, <1>5, <1>6 DEF WellFormed

LEMMA Halving ==
  ASSUME NEW i \in Nat
  PROVE  i \div 2 \in Nat /\ i % 2 \in {0, 1} /\ i = 2 * (i \div 2) + (i % 2)
BY Z3

(* A line of the messages s + 1 .. s + n.                                  *)
LineOf(s, n) ==
  [i \in 1 .. 2 * n |->
     [msg |-> (s + 1) + ((i - 1) \div 2), half |-> 1 + ((i - 1) % 2)]]

LEMMA LineIs ==
  ASSUME NEW s \in Nat, NEW n \in Nat
  PROVE  In!Line(s + 1, s + n) = LineOf(s, n)
<1>1. 2 * ((s + n) + 1 - (s + 1)) = 2 * n
  OBVIOUS
<1> QED BY <1>1 DEF In!Line, LineOf

LEMMA LineFacts ==
  ASSUME NEW s \in Nat, NEW n \in Nat
  PROVE  /\ LineOf(s, n) \in Seq(Halves) /\ Len(LineOf(s, n)) = 2 * n
         /\ \A i \in 1 .. 2 * n : /\ LineOf(s, n)[i].msg \in s + 1 .. s + n
                                  /\ LineOf(s, n)[i].half \in {1, 2}
                                  /\ Pos(LineOf(s, n)[i]) = 2 * s + 2 + i
         /\ \A m \in s + 1 .. s + n : \A h \in {1, 2} :
              \E i \in 1 .. 2 * n : LineOf(s, n)[i] = [msg |-> m, half |-> h]
<1> DEFINE L == LineOf(s, n)
<1>2. L = [i \in 1 .. 2 * n |->
             [msg |-> (s + 1) + ((i - 1) \div 2), half |-> 1 + ((i - 1) % 2)]]
  BY DEF LineOf
<1> HIDE DEF L
<1>3. ASSUME NEW i \in 1 .. 2 * n
      PROVE  /\ L[i] \in Halves
             /\ L[i].msg \in s + 1 .. s + n
             /\ L[i].half \in {1, 2}
             /\ Pos(L[i]) = 2 * s + 2 + i
  <2>1. i - 1 \in Nat /\ i - 1 < 2 * n
    OBVIOUS
  <2> DEFINE q == (i - 1) \div 2
             r == (i - 1) % 2
  <2>2. q \in Nat /\ r \in {0, 1} /\ i - 1 = 2 * q + r
    BY <2>1, Halving
  <2>3. L[i] = [msg |-> (s + 1) + q, half |-> 1 + r]
    BY <1>2
  <2> HIDE DEF q, r
  <2>4. (s + 1) + q \in s + 1 .. s + n /\ 1 + r \in {1, 2}
        /\ 2 * ((s + 1) + q) + (1 + r) = 2 * s + 2 + i
    BY <2>1, <2>2
  <2>5. L[i].msg = (s + 1) + q /\ L[i].half = 1 + r
    BY <2>3
  <2>6. L[i] \in Halves
    BY <2>3, <2>4 DEF Halves, In!Halves
  <2> QED BY <2>4, <2>5, <2>6 DEF Pos
<1>4. L \in Seq(Halves) /\ Len(L) = 2 * n
  <2>1. L \in [1 .. 2 * n -> Halves]
    BY <1>2, <1>3
  <2> QED BY <2>1
<1>5. ASSUME NEW m \in s + 1 .. s + n, NEW h \in {1, 2}
      PROVE  \E i \in 1 .. 2 * n : L[i] = [msg |-> m, half |-> h]
  <2> DEFINE i == 2 * (m - (s + 1)) + h
  <2>1. i \in 1 .. 2 * n /\ i - 1 = 2 * (m - (s + 1)) + (h - 1)
    OBVIOUS
  <2>2. (i - 1) \div 2 = m - (s + 1) /\ (i - 1) % 2 = h - 1
    <3> DEFINE q == (i - 1) \div 2
               r == (i - 1) % 2
    <3>1. i - 1 \in Nat
      BY <2>1
    <3>2. q \in Nat /\ r \in {0, 1} /\ i - 1 = 2 * q + r
      BY <3>1, Halving
    <3> HIDE DEF q, r
    <3>3. q = m - (s + 1) /\ r = h - 1
      BY <3>2, <2>1
    <3> QED BY <3>3 DEF q, r
  <2> HIDE DEF i
  <2>3. L[i] = [msg |-> (s + 1) + (m - (s + 1)), half |-> 1 + (h - 1)]
    BY <2>1, <2>2, <1>2
  <2>4. (s + 1) + (m - (s + 1)) = m /\ 1 + (h - 1) = h
    OBVIOUS
  <2> QED BY <2>1, <2>3, <2>4
<1> QED BY <1>3, <1>4, <1>5 DEF L

LEMMA Neighbours ==
  ASSUME NEW m \in Nat, NEW i \in 1 .. m
  PROVE  (i # m => i + 1 \in 1 .. m /\ i < m) /\ (i # 1 => i - 1 \in 1 .. m)
OBVIOUS

(* A line more at the end leaves a stream of lines.                        *)
LEMMA AppendKeeps ==
  ASSUME NEW s \in Nat, NEW n \in 0 .. MaxPerLine, NEW R, NEW T,
         WellFormed(R, s), T \in Seq(Units),
         Len(T) = Len(R) + 2 * n + 1,
         \A i \in 1 .. Len(R) : T[i] = R[i],
         \A i \in 1 .. 2 * n : /\ T[Len(R) + i] # Newline
                               /\ T[Len(R) + i].msg \in s + 1 .. s + n
                               /\ T[Len(R) + i].half \in {1, 2}
                               /\ Pos(T[Len(R) + i]) = 2 * s + 2 + i,
         T[Len(T)] = Newline
  PROVE  WellFormed(T, s + n)
<1> DEFINE l == Len(R)
<1>0. /\ R \in Seq(Units) /\ l \in Nat /\ DOMAIN R = 1 .. l
      /\ Len(T) \in Nat /\ DOMAIN T = 1 .. Len(T) /\ n \in Nat
      /\ Len(T) = l + 2 * n + 1 /\ MaxPerLine \in Nat
  BY LenProperties, PerLineAssumption DEF WellFormed
<1>1. \A i \in 1 .. l : /\ T[i] = R[i] /\ i \in DOMAIN T
                        /\ IsUnit(T, i) <=> IsUnit(R, i)
  BY <1>0 DEF IsUnit
<1>2. \A i \in 1 .. 2 * n : /\ IsUnit(T, l + i)
                            /\ T[l + i].msg \in s + 1 .. s + n
                            /\ T[l + i].half \in {1, 2}
                            /\ Pos(T[l + i]) = 2 * s + 2 + i
                            /\ l + i \in DOMAIN T
  <2>1. \A i \in 1 .. 2 * n : l + i \in DOMAIN T
    BY <1>0
  <2> QED BY <2>1 DEF IsUnit
<1>3. ~IsUnit(T, Len(T)) /\ (l # 0 => ~IsUnit(T, l))
  <2>1. l # 0 => R # <<>> /\ l \in 1 .. l
    BY <1>0, EmptySeq
  <2> QED BY <2>1, <1>1 DEF IsUnit, WellFormed, EndsInNewline
(* Two units that are not in the old stream are in the new line.           *)
<1>4. ASSUME NEW i \in DOMAIN T, IsUnit(T, i)
      PROVE  \/ i \in 1 .. l /\ i < l
             \/ i - l \in 1 .. 2 * n /\ i = l + (i - l)
  <2>1. i # Len(T) /\ (l # 0 => i # l)
    BY <1>3, <1>4
  <2>2. i \in Nat /\ 1 <= i /\ i <= Len(T) /\ l \in Nat
        /\ n \in Nat /\ Len(T) = l + 2 * n + 1
    BY <1>0
  <2> HIDE DEF l
  <2>3. CASE i <= l
    <3>1. i < l
      BY <2>1, <2>2, <2>3
    <3> QED BY <2>2, <2>3, <3>1
  <2>4. CASE ~(i <= l)
    <3>0. l < i
      BY <2>2, <2>4
    <3>1. i < l + 2 * n + 1
      <4>1. Len(T) \in Nat /\ i \in 1 .. Len(T)
        BY <1>0
      <4>2. i < Len(T)
        BY <4>1, <2>1, Neighbours
      <4> QED BY <4>2, <2>2
    <3> QED BY <2>2, <3>0, <3>1
  <2> QED BY <2>3, <2>4
<1> HIDE DEF l
<1>n. /\ l \in Nat /\ n \in Nat /\ n <= MaxPerLine /\ MaxPerLine \in Nat
      /\ 2 * n \in Nat
  BY <1>0
<1>d. \A i \in DOMAIN T : i \in Nat /\ 1 <= i
  BY <1>0
<1>5. Numbers1To(T, s + n)
  <2> SUFFICES ASSUME NEW i \in DOMAIN T, IsUnit(T, i)
               PROVE  T[i].msg \in 1 .. s + n
    BY DEF Numbers1To
  <2>1. CASE i \in 1 .. l
    <3>1. T[i].msg \in 1 .. s
      BY <2>1, <1>0, <1>1 DEF WellFormed, Numbers1To
    <3> QED BY <3>1, <1>0
  <2>2. CASE i - l \in 1 .. 2 * n /\ i = l + (i - l)
    <3>1. T[i].msg \in s + 1 .. s + n
      BY <2>2, <1>2
    <3> QED BY <3>1, <1>0
  <2> QED BY <2>1, <2>2, <1>4
<1>6. \A i \in 1 .. l : IsUnit(T, i) => Pos(T[i]) \in Nat /\ Pos(T[i]) <= 2 * s + 2
  <2> SUFFICES ASSUME NEW i \in 1 .. l, IsUnit(T, i)
               PROVE  Pos(T[i]) \in Nat /\ Pos(T[i]) <= 2 * s + 2
    OBVIOUS
  <2>1. R[i].msg \in 1 .. s
    BY <1>0, <1>1 DEF WellFormed, Numbers1To
  <2>2. R[i] \in Units /\ R[i] # Newline
    <3>1. i \in 1 .. Len(R)
      BY <1>0 DEF l
    <3>2. R[i] \in Units
      BY <3>1, <1>0, ElementOfSeq
    <3> QED BY <3>2, <1>1 DEF IsUnit
  <2>3. R[i].half \in {1, 2}
    BY <2>2, UnitFacts
  <2>4. 2 * R[i].msg + R[i].half \in Nat /\ 2 * R[i].msg + R[i].half <= 2 * s + 2
    <3> DEFINE m == R[i].msg
               h == R[i].half
    <3>1. m \in Nat /\ m <= s /\ h \in Nat /\ h <= 2
      BY <2>1, <2>3
    <3> HIDE DEF m, h
    <3>2. 2 * m + h \in Nat /\ 2 * m + h <= 2 * s + 2
      BY <3>1
    <3> QED BY <3>2 DEF m, h
  <2> QED BY <2>4, <1>1 DEF Pos
<1>7. Increases(T)
  <2> SUFFICES ASSUME NEW i \in DOMAIN T, NEW j \in DOMAIN T,
                      i < j, IsUnit(T, i), IsUnit(T, j)
               PROVE  Pos(T[i]) < Pos(T[j])
    BY DEF Increases
  <2>1. CASE j \in 1 .. l
    <3>1. i \in 1 .. l
      BY <2>1, <1>0
    <3> QED BY <2>1, <3>1, <1>0, <1>1 DEF WellFormed, Increases
  <2>2. CASE j - l \in 1 .. 2 * n /\ j = l + (j - l)
    <3>1. Pos(T[j]) = 2 * s + 2 + (j - l)
      BY <2>2, <1>2
    <3>2. CASE i \in 1 .. l
      <4>1. Pos(T[i]) \in Nat /\ Pos(T[i]) <= 2 * s + 2
        BY <3>2, <1>6
      <4>2. 0 < j - l /\ j - l \in Nat
        BY <2>2
      <4> QED BY <4>1, <4>2, <3>1
    <3>3. CASE i - l \in 1 .. 2 * n /\ i = l + (i - l)
      <4>1. Pos(T[i]) = 2 * s + 2 + (i - l)
        BY <3>3, <1>2
      <4>2. i - l < j - l /\ i - l \in Nat /\ j - l \in Nat
        BY <2>2, <3>3, <1>n, <1>d, SMTT(30)
      <4> QED BY <4>1, <4>2, <3>1
    <3> QED BY <3>2, <3>3, <1>4
  <2> QED BY <2>1, <2>2, <1>4
<1>8. RunsAreWhole(T)
  <2> SUFFICES ASSUME NEW i \in DOMAIN T, NEW j \in DOMAIN T,
                      i <= j, RunFrom(T, i, j)
               PROVE  Pos(T[j]) = Pos(T[i]) + (j - i) /\ j - i < 2 * MaxPerLine
    BY DEF RunsAreWhole
  <2>1. IsUnit(T, i) /\ IsUnit(T, j)
    BY <1>0 DEF RunFrom
  <2>2. CASE j \in 1 .. l
    <3>1. i \in 1 .. l
      BY <2>2, <1>0
    <3>2. RunFrom(R, i, j)
      <4> SUFFICES ASSUME NEW k \in i .. j PROVE IsUnit(R, k)
        BY DEF RunFrom
      <4>1. k \in 1 .. l
        BY <2>2, <3>1, <1>0
      <4> QED BY <4>1, <1>1 DEF RunFrom
    <3> QED BY <2>2, <3>1, <3>2, <1>0, <1>1 DEF WellFormed, RunsAreWhole
  <2>3. CASE j - l \in 1 .. 2 * n /\ j = l + (j - l)
    <3>1. i \notin 1 .. l
      <4> SUFFICES ASSUME i \in 1 .. l PROVE FALSE
        OBVIOUS
      <4>1. l \in i .. j /\ l # 0
        BY <2>3, <1>0
      <4> QED BY <4>1, <1>3 DEF RunFrom
    <3>2. i - l \in 1 .. 2 * n /\ i = l + (i - l)
      BY <3>1, <2>1, <1>4
    <3>3. Pos(T[j]) = 2 * s + 2 + (j - l) /\ Pos(T[i]) = 2 * s + 2 + (i - l)
      BY <2>3, <3>2, <1>2
    <3>4. /\ j - l \in Nat /\ i - l \in Nat /\ j - l <= 2 * n /\ 1 <= i - l
          /\ j - i = (j - l) - (i - l)
      BY <2>3, <3>2, <1>n, <1>d, SMTT(30)
    <3>5. j - i < 2 * n
      BY <3>4, <1>n
    <3>6. j - i < 2 * MaxPerLine
      BY <3>4, <3>5, <1>n, SMTT(30)
    <3>7. Pos(T[j]) = Pos(T[i]) + (j - i)
      BY <3>3, <3>4
    <3> QED BY <3>6, <3>7
  <2> QED BY <2>1, <2>2, <2>3, <1>4
<1>9. LinesEnd(T)
  <2> SUFFICES ASSUME NEW i \in DOMAIN T, NEW j \in DOMAIN T, j = i + 1
               PROVE  /\ IsUnit(T, i) /\ ~IsUnit(T, j) => T[i].half = 2
                      /\ ~IsUnit(T, i) /\ IsUnit(T, j) => T[j].half = 1
    BY DEF LinesEnd
  <2>1. ASSUME IsUnit(T, i), ~IsUnit(T, j) PROVE T[i].half = 2
    <3>1. CASE i \in 1 .. l /\ i < l
      <4>1. j \in 1 .. l
        BY <3>1, <1>0
      <4> QED BY <4>1, <3>1, <2>1, <1>0, <1>1 DEF WellFormed, LinesEnd
    <3>2. CASE i - l \in 1 .. 2 * n /\ i = l + (i - l)
      <4>1. i - l = 2 * n
        <5> SUFFICES ASSUME i - l # 2 * n PROVE FALSE
          OBVIOUS
        <5>1. (i - l) + 1 \in 1 .. 2 * n /\ j = l + ((i - l) + 1)
          <6>1. (i - l) + 1 \in 1 .. 2 * n
            BY <3>2, <1>n, Neighbours
          <6>2. i \in Nat
            BY <1>d
          <6> QED BY <6>1, <6>2, <1>n, SMTT(30)
        <5> QED BY <5>1, <1>2, <2>1
      <4>2. Pos(T[i]) = 2 * s + 2 + 2 * n /\ T[i].msg \in s + 1 .. s + n
            /\ T[i].half \in {1, 2}
        BY <3>2, <4>1, <1>2
      <4> QED BY <4>2, <1>0, SMTT(30) DEF Pos
    <3> QED BY <3>1, <3>2, <2>1, <1>4
  <2>2. ASSUME ~IsUnit(T, i), IsUnit(T, j) PROVE T[j].half = 1
    <3>1. CASE j \in 1 .. l
      <4>1. i \in 1 .. l
        BY <3>1, <1>0
      <4> QED BY <4>1, <3>1, <2>2, <1>0, <1>1 DEF WellFormed, LinesEnd
    <3>2. CASE j - l \in 1 .. 2 * n /\ j = l + (j - l)
      <4>1. j - l = 1
        <5> SUFFICES ASSUME j - l # 1 PROVE FALSE
          OBVIOUS
        <5>1. (j - l) - 1 \in 1 .. 2 * n /\ i = l + ((j - l) - 1)
          <6>1. (j - l) - 1 \in 1 .. 2 * n
            BY <3>2, <1>n, Neighbours
          <6>2. j \in Nat /\ i \in Nat
            BY <1>d
          <6> QED BY <6>1, <6>2, <1>n
        <5> QED BY <5>1, <1>2, <2>2
      <4>2. Pos(T[j]) = 2 * s + 2 + 1 /\ T[j].msg \in s + 1 .. s + n
            /\ T[j].half \in {1, 2}
        BY <3>2, <4>1, <1>2
      <4> QED BY <4>2, <1>0, SMTT(30) DEF Pos
    <3> QED BY <3>1, <3>2, <2>2, <1>4
  <2> QED BY <2>1, <2>2
<1>10. EndsInNewline(T)
  BY <1>3 DEF EndsInNewline
<1> QED BY <1>5, <1>7, <1>8, <1>9, <1>10 DEF WellFormed

-----------------------------------------------------------------------------
(* One sequence after the other.                                           *)

LEMMA ConcatAt ==
  ASSUME NEW S, NEW a \in Seq(S), NEW b \in Seq(S)
  PROVE  /\ a \o b \in Seq(S)
         /\ Len(a) \in Nat /\ Len(b) \in Nat
         /\ Len(a \o b) = Len(a) + Len(b)
         /\ \A i \in 1 .. Len(a) : (a \o b)[i] = a[i]
         /\ \A i \in 1 .. Len(b) : (a \o b)[Len(a) + i] = b[i]
         /\ \A i \in 1 .. Len(a) + Len(b) :
              i \in 1 .. Len(a) \/ i - Len(a) \in 1 .. Len(b)
<1>1. /\ a \o b \in Seq(S) /\ Len(a \o b) = Len(a) + Len(b)
      /\ Len(a) \in Nat /\ Len(b) \in Nat
      /\ \A i \in 1 .. Len(a) + Len(b) :
           (a \o b)[i] = IF i <= Len(a) THEN a[i] ELSE b[i - Len(a)]
  BY ConcatProperties, LenProperties
<1>2. ASSUME NEW i \in 1 .. Len(a) PROVE (a \o b)[i] = a[i]
  BY <1>1
<1>3. ASSUME NEW i \in 1 .. Len(b) PROVE (a \o b)[Len(a) + i] = b[i]
  <2>1. /\ Len(a) + i \in 1 .. Len(a) + Len(b) /\ ~(Len(a) + i <= Len(a))
        /\ (Len(a) + i) - Len(a) = i
    BY <1>1
  <2> QED BY <2>1, <1>1
<1> QED BY <1>1, <1>2, <1>3

LEMMA RangeOfConcat ==
  ASSUME NEW S, NEW a \in Seq(S), NEW b \in Seq(S)
  PROVE  RangeOf(a \o b) = RangeOf(a) \cup RangeOf(b)
<1> DEFINE c == a \o b
<1>1. /\ c \in Seq(S) /\ Len(a) \in Nat /\ Len(b) \in Nat
      /\ Len(c) = Len(a) + Len(b)
      /\ \A i \in 1 .. Len(a) : c[i] = a[i]
      /\ \A i \in 1 .. Len(b) : c[Len(a) + i] = b[i]
      /\ \A i \in 1 .. Len(a) + Len(b) :
           i \in 1 .. Len(a) \/ i - Len(a) \in 1 .. Len(b)
  BY ConcatAt
<1>2. /\ DOMAIN a = 1 .. Len(a) /\ DOMAIN b = 1 .. Len(b)
      /\ DOMAIN c = 1 .. Len(a) + Len(b)
  BY <1>1, LenProperties
<1> HIDE DEF c
<1>3. ASSUME NEW i \in DOMAIN c PROVE c[i] \in RangeOf(a) \cup RangeOf(b)
  <2>1. CASE i \in 1 .. Len(a)
    BY <2>1, <1>1, <1>2 DEF RangeOf
  <2>2. CASE i - Len(a) \in 1 .. Len(b)
    <3>1. i = Len(a) + (i - Len(a))
      BY <2>2, <1>1, <1>2
    <3>2. c[i] = b[i - Len(a)]
      BY <3>1, <2>2, <1>1
    <3> QED BY <3>2, <2>2, <1>2 DEF RangeOf
  <2> QED BY <2>1, <2>2, <1>1, <1>2
<1>4. ASSUME NEW i \in DOMAIN a PROVE a[i] \in RangeOf(c)
  <2>1. i \in DOMAIN c
    BY <1>1, <1>2
  <2> QED BY <2>1, <1>1, <1>2 DEF RangeOf
<1>5. ASSUME NEW i \in DOMAIN b PROVE b[i] \in RangeOf(c)
  <2>1. Len(a) + i \in DOMAIN c
    BY <1>1, <1>2
  <2> QED BY <2>1, <1>1, <1>2 DEF RangeOf
<1> QED BY <1>3, <1>4, <1>5 DEF RangeOf, c

(* Stream T is stream R with line l and its end f after it.                *)
Appends(S, R, l, f, T) ==
  /\ R \in Seq(S) /\ T \in Seq(S)
  /\ Len(T) = Len(R) + Len(l) + 1
  /\ \A i \in 1 .. Len(R) : T[i] = R[i]
  /\ \A i \in 1 .. Len(l) : T[Len(R) + i] = l[i]
  /\ T[Len(T)] = f[1]

(* What a line more does to the stream.                                    *)
LEMMA Appended ==
  ASSUME NEW S, NEW a \in Seq(S), NEW b \in Seq(S), NEW l \in Seq(S),
         NEW f \in Seq(S), Len(f) = 1
  PROVE  Appends(S, a \o b, l, f, a \o ((b \o l) \o f))
<1> DEFINE R == a \o b
           T == a \o ((b \o l) \o f)
           c == b \o l
           d == c \o f
<1>0. f \in Seq(S) /\ Len(f) = 1 /\ a \in Seq(S)
  OBVIOUS
<1>1. /\ R \in Seq(S) /\ Len(a) \in Nat /\ Len(b) \in Nat
      /\ Len(R) = Len(a) + Len(b)
      /\ \A i \in 1 .. Len(a) : R[i] = a[i]
      /\ \A i \in 1 .. Len(b) : R[Len(a) + i] = b[i]
      /\ \A i \in 1 .. Len(a) + Len(b) :
           i \in 1 .. Len(a) \/ i - Len(a) \in 1 .. Len(b)
  BY ConcatAt
<1>2. /\ c \in Seq(S) /\ Len(l) \in Nat
      /\ Len(c) = Len(b) + Len(l)
      /\ \A i \in 1 .. Len(b) : c[i] = b[i]
      /\ \A i \in 1 .. Len(l) : c[Len(b) + i] = l[i]
  BY ConcatAt
<1> HIDE DEF c, R, T
<1>4. /\ d \in Seq(S) /\ Len(d) = Len(c) + 1
      /\ \A i \in 1 .. Len(c) : d[i] = c[i]
      /\ \A i \in 1 .. Len(f) : d[Len(c) + i] = f[i]
  <2>1. c \in Seq(S) /\ f \in Seq(S)
    BY ONLY <1>0, <1>2
  <2>2. /\ c \o f \in Seq(S) /\ Len(c \o f) = Len(c) + Len(f)
        /\ \A i \in 1 .. Len(c) : (c \o f)[i] = c[i]
        /\ \A i \in 1 .. Len(f) : (c \o f)[Len(c) + i] = f[i]
    BY ONLY <2>1, ConcatAt
  <2> QED BY ONLY <2>2, <1>0
<1>5. d[Len(c) + 1] = f[1]
  BY <1>4
<1> HIDE DEF d
<1>6. /\ T \in Seq(S) /\ Len(T) = Len(a) + Len(d)
      /\ \A i \in 1 .. Len(a) : T[i] = a[i]
      /\ \A i \in 1 .. Len(d) : T[Len(a) + i] = d[i]
  <2>1. a \in Seq(S) /\ d \in Seq(S)
    BY ONLY <1>0, <1>4
  <2>2. /\ a \o d \in Seq(S) /\ Len(a \o d) = Len(a) + Len(d)
        /\ \A i \in 1 .. Len(a) : (a \o d)[i] = a[i]
        /\ \A i \in 1 .. Len(d) : (a \o d)[Len(a) + i] = d[i]
    BY ONLY <2>1, ConcatAt
  <2>3. T = a \o d
    BY DEF c, d, T
  <2> QED BY ONLY <2>2, <2>3
<1>7. Len(T) = Len(R) + Len(l) + 1
  BY <1>1, <1>2, <1>4, <1>6
<1>8. ASSUME NEW i \in 1 .. Len(R) PROVE T[i] = R[i]
  <2>1. CASE i \in 1 .. Len(a)
    BY <2>1, <1>1, <1>6
  <2>2. CASE i - Len(a) \in 1 .. Len(b)
    <3>1. i = Len(a) + (i - Len(a))
      BY <2>2, <1>1
    <3>2. i - Len(a) \in 1 .. Len(c) /\ i - Len(a) \in 1 .. Len(d)
      BY <2>2, <1>1, <1>2, <1>4
    <3>3. T[i] = d[i - Len(a)] /\ R[i] = b[i - Len(a)]
      BY <3>1, <3>2, <2>2, <1>1, <1>6
    <3> QED BY <3>2, <3>3, <2>2, <1>2, <1>4
  <2> QED BY <2>1, <2>2, <1>1
<1>9. ASSUME NEW i \in 1 .. Len(l) PROVE T[Len(R) + i] = l[i]
  <2>1. /\ Len(R) + i = Len(a) + (Len(b) + i)
        /\ Len(b) + i \in 1 .. Len(c) /\ Len(b) + i \in 1 .. Len(d)
    BY <1>1, <1>2, <1>4
  <2>2. T[Len(R) + i] = d[Len(b) + i]
    BY <2>1, <1>6
  <2> QED BY <2>1, <2>2, <1>2, <1>4
<1>10. T[Len(T)] = f[1]
  <2>1. /\ Len(T) = Len(a) + (Len(c) + 1)
        /\ Len(c) + 1 \in 1 .. Len(d)
    BY <1>2, <1>4, <1>6
  <2> QED BY <2>1, <1>5, <1>6
<1>11. Appends(S, R, l, f, T)
  BY <1>1, <1>6, <1>7, <1>8, <1>9, <1>10 DEF Appends
<1> QED BY <1>11 DEF R, T, c

LEMMA SeqWiden ==
  ASSUME NEW S, NEW T, S \subseteq T, NEW q \in Seq(S)
  PROVE  q \in Seq(T)
<1>1. q \in [1 .. Len(q) -> S] /\ Len(q) \in Nat
  BY LenProperties
<1>2. q \in [1 .. Len(q) -> T]
  BY <1>1
<1> QED BY <1>1, <1>2

LEMMA HalvesAreUnits == ASSUME NEW q \in Seq(Halves) PROVE q \in Seq(Units)
BY SeqWiden, UnitFacts

-----------------------------------------------------------------------------
(* The steps of the stream.                                                *)

(* What moves a message from one place to the next.                        *)
LEMMA MovedStep ==
  ASSUME StreamInv, StreamTypeOK', LoginFirst',
         Stream' = Stream, Seen' = Seen, sent' = sent, torn' = torn,
         state' = state, eof => eof'
  PROVE  StreamInv'
<1>1. WellFormed(Stream, sent)'
  BY DEF StreamInv
<1>2. StartsWhole'
  BY DEF StreamInv, StartsWhole, IsUnit, Newline, In!Newline
<1>3. SeenInOrder'
  BY DEF StreamInv, SeenInOrder, In!SeenInOrder, Seen
<1>4. SeenIsEarlier'
  BY DEF StreamInv, SeenIsEarlier, IsUnit, RangeOf, Newline, In!Newline
<1>5. NothingMissing'
  BY DEF StreamInv, NothingMissing, InFlight, RangeOf, Connected
<1>6. OnlyTornAreLost'
  BY DEF StreamInv, OnlyTornAreLost, In!OnlyTornAreLost, In!RangeOf, Seen
<1> QED BY <1>1, <1>2, <1>3, <1>4, <1>5, <1>6 DEF StreamInv

(* A session begins, or has ended.                                         *)
LEMMA FreshStep ==
  ASSUME NEW s \in {"login", "closed"}, FreshStream(s)
  PROVE  StreamInv'
<1>1. /\ sent' = 0 /\ blanks' = 0 /\ eof' = FALSE
      /\ incoming' = <<>> /\ buf' = <<>> /\ queued' = <<>> /\ delivered' = <<>>
      /\ state' = s /\ cancels' = 0 /\ torn' = {}
  BY DEF FreshStream
<1>2. Stream' = <<>> /\ Seen' = <<>>
  <2>1. <<>> \o <<>> = <<>>
    OBVIOUS
  <2> QED BY <1>1, <2>1 DEF Stream, Seen
<1>3. /\ DOMAIN <<>> = {} /\ \A S : <<>> \in Seq(S)
      /\ Len(<<>>) = 0
  OBVIOUS
<1>4. StreamTypeOK'
  <2>1. MaxMessages \in Nat /\ MaxBlanks \in Nat /\ MaxShares + MaxKeepalives \in Nat
    BY BoundsAssumption, SessionBoundsAssumption DEF MaxMessages
  <2>2. 0 < MaxPerLine
    BY PerLineAssumption
  <2>3. sent' \in 0 .. MaxMessages /\ blanks' \in 0 .. MaxBlanks
        /\ cancels' \in 0 .. MaxShares + MaxKeepalives
    BY <1>1, <2>1
  <2>4. /\ incoming' \in Seq(Units) /\ buf' \in Seq(Halves)
        /\ queued' \in Seq(1 .. sent') /\ delivered' \in Seq(1 .. sent')
    BY <1>1, <1>3
  <2>5. eof' \in BOOLEAN /\ torn' \subseteq 1 .. sent' /\ Len(queued') < MaxPerLine
    BY <1>1, <1>3, <2>2
  <2> QED BY <2>3, <2>4, <2>5 DEF StreamTypeOK
<1>5. WellFormed(Stream, sent)'
  <2>1. WellFormed(<<>>, 0)
    BY <1>3 DEF WellFormed, Numbers1To, Increases, RunsAreWhole, LinesEnd,
                EndsInNewline
  <2> QED BY <1>1, <1>2, <2>1
<1>6. RangeOf(Seen') = {}
  BY <1>2, <1>3 DEF RangeOf
<1>7. StartsWhole'
  BY <1>2 DEF StartsWhole
<1>8. SeenInOrder'
  BY <1>2, <1>3 DEF SeenInOrder, In!SeenInOrder, Seen
<1>9. SeenIsEarlier'
  BY <1>2, <1>3 DEF SeenIsEarlier
<1>10. NothingMissing'
  BY <1>1 DEF NothingMissing
<1>11. OnlyTornAreLost'
  BY <1>1, <1>6 DEF OnlyTornAreLost, In!OnlyTornAreLost, In!RangeOf, Seen, RangeOf
<1>12. LoginFirst'
  BY <1>1 DEF LoginFirst
<1> QED BY <1>4, <1>5, <1>7, <1>8, <1>9, <1>10, <1>11, <1>12 DEF StreamInv

(* The pool sends a line.                                                  *)
LEMMA SendStep ==
  ASSUME StreamInv, NEW n \in 0 .. MaxPerLine, In!SendLine(n)
  PROVE  StreamInv'
<1> DEFINE L == LineOf(sent, n)
<1>0. /\ sent \in Nat /\ n \in Nat /\ incoming \in Seq(Units)
      /\ buf \in Seq(Units) /\ StreamTypeOK
  BY HalvesAreUnits DEF StreamInv, StreamTypeOK
<1>1. /\ sent + n <= MaxMessages /\ sent' = sent + n
      /\ incoming' = (incoming \o L) \o <<Newline>>
      /\ (n = 0 => blanks < MaxBlanks)
      /\ blanks' = IF n = 0 THEN blanks + 1 ELSE blanks
      /\ UNCHANGED <<eof, buf, queued, delivered, state, cancels, torn>>
  BY <1>0, LineIs DEF In!SendLine, In!historyVars, Newline
<1>2. /\ L \in Seq(Halves) /\ Len(L) = 2 * n
      /\ \A i \in 1 .. 2 * n : /\ L[i].msg \in sent + 1 .. sent + n
                               /\ L[i].half \in {1, 2}
                               /\ Pos(L[i]) = 2 * sent + 2 + i
      /\ \A m \in sent + 1 .. sent + n : \A h \in {1, 2} :
           \E i \in 1 .. 2 * n : L[i] = [msg |-> m, half |-> h]
  BY <1>0, LineFacts
<1>3. \A i \in 1 .. 2 * n : L[i] # Newline
  <2>1. \A i \in 1 .. 2 * n : L[i] \in Halves
    BY <1>2, ElementOfSeq
  <2> QED BY <2>1, UnitFacts
<1> HIDE DEF L
<1>4. Newline \in Units /\ L \in Seq(Units)
  BY <1>2, HalvesAreUnits DEF Units, In!Units, Newline
<1>5. /\ Stream \in Seq(Units) /\ Stream' \in Seq(Units)
      /\ Len(Stream') = Len(Stream) + Len(L) + 1
      /\ \A i \in 1 .. Len(Stream) : Stream'[i] = Stream[i]
      /\ \A i \in 1 .. Len(L) : Stream'[Len(Stream) + i] = L[i]
      /\ Stream'[Len(Stream')] = Newline
  <2>1. Stream = buf \o incoming
        /\ Stream' = buf \o ((incoming \o L) \o <<Newline>>)
    BY <1>1 DEF Stream
  <2>2. /\ buf \in Seq(Units) /\ incoming \in Seq(Units)
        /\ L \in Seq(Units)
    BY <1>0, <1>4
  <2> DEFINE f == <<Newline>>
             R == buf \o incoming
             T == buf \o ((incoming \o L) \o f)
  <2>f. f \in Seq(Units) /\ Len(f) = 1 /\ f[1] = Newline
    BY <1>4
  <2> HIDE DEF f
  <2>3. Appends(Units, R, L, f, T)
    BY ONLY <2>2, <2>f, Appended
  <2> HIDE DEF R, T
  <2>4. Stream = R /\ Stream' = T
    BY <2>1 DEF f, R, T
  <2> QED BY ONLY <2>3, <2>4, <2>f DEF Appends
<1>6. /\ Len(Stream) \in Nat /\ DOMAIN Stream = 1 .. Len(Stream)
      /\ DOMAIN Stream' = 1 .. Len(Stream')
      /\ Len(Stream') = Len(Stream) + 2 * n + 1
  BY <1>2, <1>5, LenProperties
<1>7. \A i \in 1 .. 2 * n : /\ Stream'[Len(Stream) + i] # Newline
                            /\ Stream'[Len(Stream) + i] = L[i]
                            /\ Stream'[Len(Stream) + i].msg \in sent + 1 .. sent + n
                            /\ Stream'[Len(Stream) + i].half \in {1, 2}
                            /\ Pos(Stream'[Len(Stream) + i]) = 2 * sent + 2 + i
                            /\ Len(Stream) + i \in DOMAIN Stream'
  <2>1. \A i \in 1 .. 2 * n : Len(Stream) + i \in DOMAIN Stream'
    BY <1>0, <1>6
  <2> QED BY <2>1, <1>2, <1>3, <1>5, SMTT(30)
<1>8. WellFormed(Stream, sent)'
  <2>1. WellFormed(Stream, sent)
    BY DEF StreamInv
  <2>2. WellFormed(Stream', sent + n)
    BY <1>0, <1>5, <1>6, <1>7, <2>1, AppendKeeps
  <2> QED BY <2>2, <1>1
<1>9. ASSUME NEW i \in DOMAIN Stream', Stream'[i] # Newline
      PROVE  \/ i \in DOMAIN Stream /\ Stream'[i] = Stream[i]
             \/ i - Len(Stream) \in 1 .. 2 * n /\ i = Len(Stream) + (i - Len(Stream))
  <2> DEFINE l == Len(Stream)
             t == Len(Stream')
             x == 2 * n
  <2>0. t \in Nat /\ i \in 1 .. t /\ i # t
    BY <1>5, <1>6, <1>9, LenProperties
  <2>x. l \in Nat /\ x \in Nat /\ t = l + x + 1
    BY <1>0, <1>6
  <2>1. t \in Nat /\ i \in 1 .. t /\ i # t /\ l \in Nat /\ x \in Nat /\ t = l + x + 1
    BY <2>0, <2>x
  <2> HIDE DEF l, t, x
  <2>2. i < t /\ i \in Nat /\ 1 <= i
    BY <2>1, Neighbours
  <2>3. CASE i <= l
    <3>1. i \in 1 .. l
      BY <2>1, <2>2, <2>3
    <3> QED BY <3>1, <1>5, <1>6 DEF l
  <2>4. CASE ~(i <= l)
    <3>1. i - l \in 1 .. x /\ i = l + (i - l)
      BY <2>1, <2>2, <2>4
    <3> QED BY <3>1 DEF l, x
  <2> QED BY <2>3, <2>4
<1>10. StreamTypeOK'
  <2>1. sent' \in 0 .. MaxMessages /\ 1 .. sent \subseteq 1 .. sent'
    BY <1>0, <1>1 DEF MaxMessages
  <2>2. blanks' \in 0 .. MaxBlanks
    BY <1>0, <1>1, SessionBoundsAssumption DEF StreamTypeOK
  <2>3. incoming' \in Seq(Units)
    <3>1. incoming \o L \in Seq(Units)
      BY <1>0, <1>4
    <3> QED BY <3>1, <1>1, <1>4
  <2>4. /\ queued' \in Seq(1 .. sent') /\ Len(queued') < MaxPerLine
        /\ delivered' \in Seq(1 .. sent') /\ torn' \subseteq 1 .. sent'
    BY <1>0, <1>1, <2>1, SeqWiden DEF StreamTypeOK
  <2> QED BY <1>0, <1>1, <2>1, <2>2, <2>3, <2>4 DEF StreamTypeOK
<1>11. Seen' = Seen /\ RangeOf(Seen) \subseteq 1 .. sent
  <2>1. delivered \in Seq(1 .. sent) /\ queued \in Seq(1 .. sent)
    BY <1>0 DEF StreamTypeOK
  <2>2. Seen \in Seq(1 .. sent)
    BY <2>1 DEF Seen
  <2>3. RangeOf(Seen) \subseteq 1 .. sent
    BY <2>2, ElementOfSeq, LenProperties, ZenonT(60) DEF RangeOf
  <2> QED BY <2>3, <1>1 DEF Seen
<1>12. StartsWhole'
  <2> SUFFICES ASSUME torn' = {}, Stream'[1] # Newline PROVE Stream'[1].half = 1
    BY DEF StartsWhole, IsUnit, Newline, In!Newline
  <2>1. 1 \in DOMAIN Stream'
    BY <1>0, <1>6
  <2>2. CASE 1 \in DOMAIN Stream /\ Stream'[1] = Stream[1]
    <3>1. Stream # <<>>
      BY <2>2, <1>6, EmptySeq
    <3> QED BY <3>1, <2>2, <1>1 DEF StreamInv, StartsWhole, IsUnit
  <2>3. CASE 1 - Len(Stream) \in 1 .. 2 * n /\ 1 = Len(Stream) + (1 - Len(Stream))
    <3>1. Len(Stream) = 0 /\ 1 \in 1 .. 2 * n
      BY <2>3, <1>0, <1>6
    <3>2. /\ Stream'[0 + 1].msg \in sent + 1 .. sent + n
          /\ Stream'[0 + 1].half \in {1, 2}
          /\ Pos(Stream'[0 + 1]) = 2 * sent + 2 + 1
      BY <3>1, <1>7
    <3> QED BY <3>2, <1>0 DEF Pos
  <2> QED BY <2>1, <2>2, <2>3, <1>9
<1>13. SeenInOrder'
  BY <1>11 DEF StreamInv, SeenInOrder, In!SeenInOrder, Seen
<1>14. SeenIsEarlier'
  <2> SUFFICES ASSUME NEW m \in RangeOf(Seen), NEW i \in DOMAIN Stream',
                      Stream'[i] # Newline
               PROVE  m < Stream'[i].msg
    BY <1>11 DEF SeenIsEarlier, IsUnit, Newline, In!Newline, RangeOf
  <2>1. CASE i \in DOMAIN Stream /\ Stream'[i] = Stream[i]
    BY <2>1 DEF StreamInv, SeenIsEarlier, IsUnit
  <2>2. CASE i - Len(Stream) \in 1 .. 2 * n /\ i = Len(Stream) + (i - Len(Stream))
    <3>1. Stream'[i].msg \in sent + 1 .. sent + n /\ m \in 1 .. sent
      BY <2>2, <1>7, <1>11
    <3> QED BY <3>1, <1>0
  <2> QED BY <2>1, <2>2, <1>9
<1>15. NothingMissing'
  <2> SUFFICES ASSUME Connected, NEW m \in 1 .. sent + n
               PROVE  m \in RangeOf(Seen) \cup torn \/ InFlight(m)'
    BY <1>1, <1>11 DEF NothingMissing, Connected, RangeOf
  <2>1. \A i \in DOMAIN Stream : i \in DOMAIN Stream' /\ Stream'[i] = Stream[i]
    BY <1>0, <1>5, <1>6
  <2>2. RangeOf(Stream) \subseteq RangeOf(Stream')
    BY <2>1 DEF RangeOf
  <2>3. CASE m \in 1 .. sent
    BY <2>2, <2>3 DEF StreamInv, NothingMissing, InFlight, RangeOf
  <2>4. CASE m \in sent + 1 .. sent + n
    <3>1. \A h \in {1, 2} : [msg |-> m, half |-> h] \in RangeOf(Stream')
      <4> SUFFICES ASSUME NEW h \in {1, 2}
                   PROVE  [msg |-> m, half |-> h] \in RangeOf(Stream')
        OBVIOUS
      <4>1. PICK i \in 1 .. 2 * n : L[i] = [msg |-> m, half |-> h]
        BY <2>4, <1>2
      <4> QED BY <4>1, <1>7 DEF RangeOf
    <3> QED BY <3>1 DEF InFlight, RangeOf
  <2> QED BY <2>3, <2>4, <1>0
<1>16. OnlyTornAreLost'
  BY <1>1, <1>11 DEF StreamInv, OnlyTornAreLost, In!OnlyTornAreLost, In!RangeOf, Seen
<1>17. LoginFirst'
  BY <1>1 DEF StreamInv, LoginFirst
<1> QED BY <1>8, <1>10, <1>12, <1>13, <1>14, <1>15, <1>16, <1>17 DEF StreamInv

-----------------------------------------------------------------------------
(* Reading from the stream.                                                *)

LEMMA StreamFacts ==
  ASSUME StreamTypeOK
  PROVE  /\ Stream \in Seq(Units) /\ DOMAIN Stream = 1 .. Len(Stream)
         /\ Len(buf) \in Nat /\ Len(incoming) \in Nat
         /\ Len(Stream) = Len(buf) + Len(incoming)
         /\ \A i \in 1 .. Len(buf) : /\ Stream[i] = buf[i] /\ IsUnit(Stream, i)
                                     /\ buf[i] \in Halves
         /\ \A i \in 1 .. Len(incoming) : Stream[Len(buf) + i] = incoming[i]
<1>1. buf \in Seq(Halves) /\ buf \in Seq(Units) /\ incoming \in Seq(Units)
  BY HalvesAreUnits DEF StreamTypeOK
<1>2. \A i \in 1 .. Len(buf) : buf[i] \in Halves /\ buf[i] # Newline
  <2>1. \A i \in 1 .. Len(buf) : buf[i] \in Halves
    BY <1>1, ElementOfSeq
  <2> QED BY <2>1, UnitFacts
<1>3. /\ Stream \in Seq(Units) /\ Len(buf) \in Nat /\ Len(incoming) \in Nat
      /\ Len(Stream) = Len(buf) + Len(incoming)
      /\ \A i \in 1 .. Len(buf) : Stream[i] = buf[i]
      /\ \A i \in 1 .. Len(incoming) : Stream[Len(buf) + i] = incoming[i]
  BY <1>1, ConcatAt DEF Stream
<1> QED BY <1>2, <1>3, LenProperties DEF IsUnit

(* What is handed on stays in its place.                                   *)
LEMMA HandedOn ==
  ASSUME NEW S, NEW d \in Seq(S), NEW q \in Seq(S), q # <<>>
  PROVE  /\ Append(d, Head(q)) \o Tail(q) = d \o q
         /\ Head(q) \in S /\ Tail(q) \in Seq(S) /\ Len(Tail(q)) = Len(q) - 1
         /\ Append(d, Head(q)) \in Seq(S)
<1>1. /\ Head(q) \in S /\ Tail(q) \in Seq(S) /\ Len(Tail(q)) = Len(q) - 1
      /\ Head(q) = q[1] /\ Len(q) \in Nat /\ Len(q) # 0
  BY HeadTailProperties, EmptySeq, LenProperties
<1>2. Append(d, Head(q)) = d \o <<Head(q)>> /\ Append(d, Head(q)) \in Seq(S)
      /\ <<Head(q)>> \in Seq(S)
  BY <1>1, AppendIsConcat, AppendProperties
<1>3. (d \o <<Head(q)>>) \o Tail(q) = d \o (<<Head(q)>> \o Tail(q))
  BY <1>1, <1>2, ConcatAssociative
<1>4. <<Head(q)>> \o Tail(q) = q
  <2>1. 1 \in 1 .. Len(q) /\ Len(q) \in 1 .. Len(q)
    BY <1>1
  <2>2. SubSeq(q, 1, Len(q)) = <<q[1]>> \o SubSeq(q, 1 + 1, Len(q))
    BY <2>1, SubSeqRecursiveFirst
  <2>3. Tail(q) = SubSeq(q, 2, Len(q)) /\ SubSeq(q, 1, Len(q)) = q
    BY TailIsSubSeq, SubSeqFull
  <2> QED BY <2>2, <2>3, <1>1
<1> QED BY <1>1, <1>2, <1>3, <1>4

LEMMA AppendAt ==
  ASSUME NEW S, NEW d \in Seq(S), NEW e \in S
  PROVE  /\ Append(d, e) # <<>> /\ Append(d, e) # d
         /\ Append(d, e)[Len(Append(d, e))] = e
         /\ d # <<>> => Append(d, e)[1] = d[1]
         /\ d = <<>> => Append(d, e)[1] = e
<1> DEFINE a == Append(d, e)
<1>1. /\ a # <<>> /\ a[Len(d) + 1] = e /\ Len(a) = Len(d) + 1
      /\ \A i \in 1 .. Len(d) : a[i] = d[i]
      /\ Len(d) \in Nat
  BY AppendProperties, LenProperties
<1> HIDE DEF a
<1>2. a # d
  BY <1>1
<1>3. d # <<>> => 1 \in 1 .. Len(d)
  BY <1>1, EmptySeq
<1>4. d = <<>> => Len(d) + 1 = 1
  OBVIOUS
<1> QED BY <1>1, <1>2, <1>3, <1>4 DEF a

LEMMA CloseStep ==
  ASSUME StreamInv, In!CloseWire
  PROVE  StreamInv'
<1>1. eof' = TRUE /\ UNCHANGED <<sent, blanks, incoming, buf, queued, delivered,
                                 state, cancels, torn>>
  BY DEF In!CloseWire, In!historyVars
<1>2. StreamTypeOK' /\ LoginFirst'
  BY <1>1 DEF StreamInv, StreamTypeOK, LoginFirst
<1>3. Stream' = Stream /\ Seen' = Seen
  BY <1>1 DEF Stream, Seen
<1> QED BY <1>1, <1>2, <1>3, MovedStep

LEMMA PopStep ==
  ASSUME StreamInv, In!PopPending
  PROVE  StreamInv'
<1>1. /\ state = "session" /\ queued # <<>>
      /\ delivered' = Append(delivered, Head(queued)) /\ queued' = Tail(queued)
      /\ UNCHANGED <<sent, blanks, eof, incoming, buf, state, cancels, torn>>
  BY DEF In!PopPending, In!poolVars, In!historyVars
<1>2. /\ delivered \in Seq(1 .. sent) /\ queued \in Seq(1 .. sent)
      /\ Len(queued) < MaxPerLine /\ MaxPerLine \in Nat /\ Len(queued) \in Nat
  BY PerLineAssumption DEF StreamInv, StreamTypeOK
<1>3. /\ Append(delivered, Head(queued)) \o Tail(queued) = delivered \o queued
      /\ Head(queued) \in 1 .. sent /\ Tail(queued) \in Seq(1 .. sent)
      /\ Len(Tail(queued)) = Len(queued) - 1
      /\ Append(delivered, Head(queued)) \in Seq(1 .. sent)
  BY <1>1, <1>2, HandedOn, ZenonT(60)
<1>4. StreamTypeOK'
  <2>1. Len(Tail(queued)) < MaxPerLine
    BY <1>2, <1>3
  <2> QED BY <2>1, <1>1, <1>3 DEF StreamInv, StreamTypeOK
<1>5. LoginFirst'
  <2>1. delivered # <<>> /\ delivered[1] = 1
    BY <1>1 DEF StreamInv, LoginFirst
  <2>2. 1 \in 1 .. Len(delivered)
    BY <2>1, <1>2, EmptySeq, LenProperties
  <2>3. /\ Append(delivered, Head(queued)) # <<>>
        /\ Append(delivered, Head(queued))[1] = delivered[1]
    BY <2>2, <1>2, <1>3, AppendProperties
  <2> QED BY <2>1, <2>3, <1>1 DEF LoginFirst
<1>6. Stream' = Stream /\ Seen' = Seen
  BY <1>1, <1>3 DEF Stream, Seen
<1> QED BY <1>1, <1>4, <1>5, <1>6, MovedStep

LEMMA PartStep ==
  ASSUME StreamInv, In!ReadPart
  PROVE  StreamInv'
<1>1. PICK n \in 1 .. Len(incoming) :
        /\ \A i \in 1 .. n : incoming[i] # Newline
        /\ buf' = buf \o SubSeq(incoming, 1, n)
        /\ incoming' = SubSeq(incoming, n + 1, Len(incoming))
  BY DEF In!ReadPart, Newline
<1>2. UNCHANGED <<sent, blanks, eof, queued, delivered, state, cancels, torn>>
  BY DEF In!ReadPart, In!poolVars, In!historyVars
<1>3. /\ incoming \in Seq(Units) /\ buf \in Seq(Halves) /\ buf \in Seq(Units)
      /\ Len(incoming) \in Nat /\ n \in Nat
  BY HalvesAreUnits, LenProperties DEF StreamInv, StreamTypeOK
<1>4. SubSeq(incoming, 1, n) \in Seq(Halves) /\ SubSeq(incoming, 1, n) \in Seq(Units)
  <2>1. \A i \in 1 .. n : incoming[i] \in Halves
    <3>1. \A i \in 1 .. n : incoming[i] \in Units
      BY <1>3, ElementOfSeq
    <3> QED BY <3>1, <1>1, UnitFacts
  <2>2. SubSeq(incoming, 1, n) \in Seq(Halves)
    BY <2>1, <1>3, SubSeqProperties
  <2> QED BY <2>2, HalvesAreUnits
<1>5. SubSeq(incoming, n + 1, Len(incoming)) \in Seq(Units)
  <2>1. \A i \in n + 1 .. Len(incoming) : incoming[i] \in Units
    BY <1>3, ElementOfSeq
  <2> QED BY <2>1, <1>3, SubSeqProperties
<1>6. SubSeq(incoming, 1, n) \o SubSeq(incoming, n + 1, Len(incoming)) = incoming
  <2>1. /\ 1 \in 1 .. Len(incoming) + 1 /\ n \in 1 - 1 .. Len(incoming)
        /\ Len(incoming) \in n .. Len(incoming)
    BY <1>3
  <2>2. SubSeq(incoming, 1, n) \o SubSeq(incoming, n + 1, Len(incoming))
          = SubSeq(incoming, 1, Len(incoming))
    BY <2>1, <1>3, ConcatAdjacentSubSeq
  <2> QED BY <2>2, <1>3, SubSeqFull
<1>7. Stream' = Stream
  <2> DEFINE x == SubSeq(incoming, 1, n)
             y == SubSeq(incoming, n + 1, Len(incoming))
  <2>1. /\ x \in Seq(Units) /\ y \in Seq(Units) /\ x \o y = incoming
        /\ buf' = buf \o x /\ incoming' = y
    BY <1>1, <1>4, <1>5, <1>6
  <2> HIDE DEF x, y
  <2>2. (buf \o x) \o y = buf \o (x \o y)
    <3>1. buf \in Seq(Units) /\ x \in Seq(Units) /\ y \in Seq(Units)
      BY <2>1, <1>3
    <3> QED BY <3>1, ConcatAssociative, SMTT(30)
  <2> QED BY <2>1, <2>2 DEF Stream
<1>8. Seen' = Seen
  BY <1>2 DEF Seen
<1>9. StreamTypeOK'
  <2>1. buf' \in Seq(Halves)
    BY <1>1, <1>3, <1>4
  <2> QED BY <2>1, <1>1, <1>2, <1>5 DEF StreamInv, StreamTypeOK
<1>10. LoginFirst'
  BY <1>2 DEF StreamInv, LoginFirst
<1> QED BY <1>2, <1>7, <1>8, <1>9, <1>10, MovedStep

(* T is what is left of R after its first k.                               *)
CutOff(T, R, k) ==
  /\ k \in 0 .. Len(R) /\ Len(T) = Len(R) - k
  /\ R \in Seq(Units) /\ T \in Seq(Units)
  /\ \A i \in 1 .. Len(T) : T[i] = R[k + i]

LEMMA CutFacts ==
  ASSUME NEW R, NEW T, NEW k, CutOff(T, R, k)
  PROVE  /\ \A i \in DOMAIN T : k + i \in DOMAIN R /\ T[i] = R[k + i]
         /\ \A u \in RangeOf(R) :
              u \in RangeOf(T) \/ \E i \in 1 .. k : i \in DOMAIN R /\ R[i] = u
         /\ Len(R) \in Nat /\ DOMAIN R = 1 .. Len(R)
         /\ Len(T) \in Nat /\ DOMAIN T = 1 .. Len(T)
<1>1. /\ k \in 0 .. Len(R) /\ Len(T) = Len(R) - k
      /\ Len(R) \in Nat /\ DOMAIN R = 1 .. Len(R)
      /\ Len(T) \in Nat /\ DOMAIN T = 1 .. Len(T)
  BY LenProperties DEF CutOff
<1>2. \A i \in DOMAIN T : k + i \in DOMAIN R /\ T[i] = R[k + i]
  BY <1>1 DEF CutOff
<1>3. ASSUME NEW u \in RangeOf(R), u \notin RangeOf(T)
      PROVE  \E i \in 1 .. k : i \in DOMAIN R /\ R[i] = u
  <2>1. PICK x \in DOMAIN R : R[x] = u
    BY DEF RangeOf
  <2>2. CASE x \in 1 .. k
    BY <2>1, <2>2
  <2>3. CASE x \notin 1 .. k
    <3>1. x - k \in DOMAIN T /\ k + (x - k) = x
      BY <2>3, <1>1
    <3>2. T[x - k] = u
      BY <3>1, <2>1, <1>2
    <3> QED BY <3>1, <3>2, <1>3 DEF RangeOf
  <2> QED BY <2>2, <2>3
<1> QED BY <1>1, <1>2, <1>3

LEMMA EarlierAfterCut ==
  ASSUME NEW k, CutOff(Stream', Stream, k), SeenIsEarlier, Seen' = Seen
  PROVE  SeenIsEarlier'
<1>1. \A i \in DOMAIN Stream' : k + i \in DOMAIN Stream /\ Stream'[i] = Stream[k + i]
  BY CutFacts
<1> QED BY <1>1 DEF SeenIsEarlier, RangeOf, IsUnit, Newline, In!Newline

LEMMA WholeAfterNewline ==
  ASSUME NEW k \in DOMAIN Stream, CutOff(Stream', Stream, k),
         LinesEnd(Stream), ~IsUnit(Stream, k)
  PROVE  StartsWhole'
<1> SUFFICES ASSUME Stream' # <<>>, Stream'[1] # Newline PROVE Stream'[1].half = 1
  BY DEF StartsWhole, IsUnit, Newline, In!Newline
<1>1. \A i \in DOMAIN Stream' : k + i \in DOMAIN Stream /\ Stream'[i] = Stream[k + i]
  BY CutFacts
<1>2. Stream' \in Seq(Units) /\ DOMAIN Stream' = 1 .. Len(Stream') /\ Len(Stream') \in Nat
  BY CutFacts DEF CutOff
<1>3. 1 \in DOMAIN Stream'
  BY <1>2, EmptySeq
<1>4. k + 1 \in DOMAIN Stream /\ Stream'[1] = Stream[k + 1]
  BY <1>1, <1>3
<1> QED BY <1>4 DEF LinesEnd, IsUnit

-----------------------------------------------------------------------------
(* A line.                                                                 *)

LEMMA HalfOf ==
  ASSUME NEW u \in Halves, NEW c \in Nat, NEW h \in {1, 2}, Pos(u) = 2 * c + h
  PROVE  u.msg = c /\ u.half = h /\ u = [msg |-> c, half |-> h]
<1> DEFINE m == u.msg
           g == u.half
<1>1. m \in Nat /\ g \in {1, 2} /\ u = [msg |-> m, half |-> g]
  BY UnitFacts
<1>2. 2 * m + g = 2 * c + h
  BY DEF Pos
<1> HIDE DEF m, g
<1>3. m = c /\ g = h
  BY <1>1, <1>2
<1> QED BY <1>1, <1>3 DEF m, g

LEMMA Doubled ==
  ASSUME NEW p \in Nat
  PROVE  (2 * p) \div 2 = p /\ (2 * p) % 2 = 0
BY Z3

(* A line that starts and ends with a message is whole.                    *)
LEMMA LineIsWhole ==
  ASSUME NEW b \in Seq(Halves), b # <<>>,
         \A j \in 1 .. Len(b) : Pos(b[j]) = Pos(b[1]) + (j - 1),
         b[1].half = 1, b[Len(b)].half = 2
  PROVE  In!Whole(b)
<1> DEFINE l == Len(b)
           a == b[1].msg
           m == b[l].msg
<1>1. l \in Nat /\ l # 0 /\ 1 \in 1 .. l /\ l \in 1 .. l
  BY EmptySeq, LenProperties
<1>2. b[1] \in Halves /\ b[l] \in Halves /\ a \in Nat /\ m \in Nat
  BY <1>1, ElementOfSeq, UnitFacts
<1>3. Pos(b[1]) = 2 * a + 1 /\ Pos(b[l]) = 2 * m + 2
  BY DEF Pos
<1>4. Pos(b[l]) = Pos(b[1]) + (l - 1)
  BY <1>1
<1> HIDE DEF l, a, m
<1>5. 2 * m + 2 = (2 * a + 1) + (l - 1)
  BY <1>3, <1>4
<1> DEFINE p == (m - a) + 1
<1>6. p \in Nat /\ l = 2 * p
  BY <1>1, <1>2, <1>5
<1>7. ASSUME NEW k \in 1 .. p
      PROVE  /\ b[2 * k - 1].half = 1
             /\ b[2 * k] = [b[2 * k - 1] EXCEPT !.half = 2]
  <2> DEFINE c == a + (k - 1)
  <2>1. /\ c \in Nat /\ 2 * k - 1 \in 1 .. l /\ 2 * k \in 1 .. l
        /\ (2 * a + 1) + ((2 * k - 1) - 1) = 2 * c + 1
        /\ (2 * a + 1) + (2 * k - 1) = 2 * c + 2
    BY <1>2, <1>6
  <2> HIDE DEF c
  <2>2. b[2 * k - 1] \in Halves /\ b[2 * k] \in Halves
    BY <2>1, ElementOfSeq DEF l
  <2>3. Pos(b[2 * k - 1]) = 2 * c + 1 /\ Pos(b[2 * k]) = 2 * c + 2
    BY <2>1, <1>3 DEF l
  <2>4. /\ b[2 * k - 1] = [msg |-> c, half |-> 1]
        /\ b[2 * k] = [msg |-> c, half |-> 2]
    BY <2>1, <2>2, <2>3, HalfOf
  <2> QED BY <2>4
<1>8. l \div 2 = p /\ l % 2 = 0
  BY <1>6, Doubled
<1> QED BY <1>7, <1>8 DEF In!Whole, l

(* What read_line makes of a whole line.                                   *)
LEMMA MessagesOfLine ==
  ASSUME NEW b \in Seq(Halves), b # <<>>, NEW n, NEW q \in Nat,
         \A j \in 1 .. Len(b) : Pos(b[j]) = Pos(b[1]) + (j - 1),
         \A j \in 1 .. Len(b) : b[j].msg \in 1 .. n,
         Len(b) <= 2 * q, In!Whole(b)
  PROVE  /\ In!Messages(b) \in Seq(1 .. n) /\ In!Messages(b) # <<>>
         /\ Len(In!Messages(b)) <= q
         /\ \A i, j \in DOMAIN In!Messages(b) :
              i < j => In!Messages(b)[i] < In!Messages(b)[j]
         /\ \A j \in 1 .. Len(b) : b[j].msg \in RangeOf(In!Messages(b))
         /\ \A m \in RangeOf(In!Messages(b)) :
              \E j \in 1 .. Len(b) : b[j].msg = m /\ b[j].half = 2
<1> DEFINE l == Len(b)
           p == Len(b) \div 2
           ms == In!Messages(b)
<1>1. l \in Nat /\ l # 0
  BY EmptySeq, LenProperties
<1>2. /\ l % 2 = 0
      /\ \A k \in 1 .. p : /\ b[2 * k - 1].half = 1
                           /\ b[2 * k] = [b[2 * k - 1] EXCEPT !.half = 2]
  BY DEF In!Whole
<1>3. p \in Nat /\ l = 2 * p
  <2>1. l \div 2 \in Nat /\ l = 2 * (l \div 2) + (l % 2)
    BY <1>1, Halving
  <2> QED BY <2>1, <1>2
<1>4. ms = [k \in 1 .. p |-> b[2 * k].msg]
  BY DEF In!Messages
<1> HIDE DEF l, p, ms
<1>5. ASSUME NEW k \in 1 .. p
      PROVE  /\ 2 * k \in 1 .. l /\ 2 * k - 1 \in 1 .. l
             /\ b[2 * k] \in Halves /\ b[2 * k - 1] \in Halves
             /\ ms[k] = b[2 * k].msg
             /\ b[2 * k - 1].msg = b[2 * k].msg
             /\ b[2 * k].half = 2
  <2>1. 2 * k \in 1 .. l /\ 2 * k - 1 \in 1 .. l
    BY <1>3
  <2>2. b[2 * k] \in Halves /\ b[2 * k - 1] \in Halves
    BY <2>1, ElementOfSeq DEF l
  <2>3. b[2 * k - 1] = [msg |-> b[2 * k - 1].msg, half |-> b[2 * k - 1].half]
    BY <2>2, UnitFacts
  <2>4. b[2 * k] = [b[2 * k - 1] EXCEPT !.half = 2]
    BY <1>2
  <2>5. b[2 * k].msg = b[2 * k - 1].msg /\ b[2 * k].half = 2
    BY <2>3, <2>4
  <2> QED BY <2>1, <2>2, <2>5, <1>4
<1>6. /\ ms \in Seq(1 .. n) /\ Len(ms) = p /\ DOMAIN ms = 1 .. p
  <2>1. \A k \in 1 .. p : ms[k] \in 1 .. n
    BY <1>5 DEF l
  <2> DEFINE S == 1 .. n
  <2>2. ms \in [1 .. p -> S] /\ DOMAIN ms = 1 .. p /\ p \in Nat
    BY <2>1, <1>3, <1>4
  <2> HIDE DEF S
  <2>3. ms \in Seq(S) /\ Len(ms) = p
    BY <2>2
  <2> QED BY <2>2, <2>3 DEF S
<1>7. ms # <<>> /\ Len(ms) <= q
  <2>1. p <= q
    BY <1>3 DEF l
  <2>2. p # 0
    BY <1>1, <1>3
  <2> QED BY <2>1, <2>2, <1>6, EmptySeq
<1>8. ASSUME NEW i \in 1 .. p, NEW j \in 1 .. p, i < j PROVE ms[i] < ms[j]
  <2> DEFINE x == Pos(b[1])
             u == b[2 * i].msg
             v == b[2 * j].msg
  <2>1. u \in Nat /\ v \in Nat
    BY <1>5, UnitFacts
  <2>2. Pos(b[2 * i]) = x + (2 * i - 1) /\ Pos(b[2 * j]) = x + (2 * j - 1)
    BY <1>5 DEF l
  <2>3. Pos(b[2 * i]) = 2 * u + 2 /\ Pos(b[2 * j]) = 2 * v + 2
    BY <1>5 DEF Pos
  <2>4. x \in Nat
    <3>1. b[1] \in Halves
      BY <1>1, ElementOfSeq DEF l
    <3>2. b[1].msg \in Nat /\ b[1].half \in {1, 2}
      BY <3>1, UnitFacts
    <3> QED BY <3>2 DEF Pos
  <2> HIDE DEF x, u, v
  <2>5. 2 * u + 2 = x + (2 * i - 1) /\ 2 * v + 2 = x + (2 * j - 1)
    BY <2>2, <2>3
  <2>6. u < v
    BY <2>1, <2>4, <2>5, <1>8, <1>3
  <2> QED BY <2>6, <1>5 DEF u, v
<1>9. ASSUME NEW j \in 1 .. l PROVE b[j].msg \in RangeOf(ms)
  <2>1. PICK k \in 1 .. p : j = 2 * k \/ j = 2 * k - 1
    <3> DEFINE d == j \div 2
               e == j % 2
    <3>1. d \in Nat /\ e \in {0, 1} /\ j = 2 * d + e
      BY <1>1, Halving
    <3> HIDE DEF d, e
    <3>2. CASE e = 0
      <4>1. d \in 1 .. p /\ j = 2 * d
        BY <3>1, <3>2, <1>3
      <4> QED BY <4>1
    <3>3. CASE e = 1
      <4>1. d + 1 \in 1 .. p /\ j = 2 * (d + 1) - 1
        BY <3>1, <3>3, <1>3
      <4> QED BY <4>1
    <3> QED BY <3>1, <3>2, <3>3
  <2>2. b[j].msg = ms[k]
    BY <2>1, <1>5
  <2> QED BY <2>2, <1>6 DEF RangeOf
<1>10. ASSUME NEW m \in RangeOf(ms)
       PROVE  \E j \in 1 .. l : b[j].msg = m /\ b[j].half = 2
  <2>1. PICK k \in 1 .. p : ms[k] = m
    BY <1>6 DEF RangeOf
  <2> QED BY <2>1, <1>5
<1> QED BY <1>6, <1>7, <1>8, <1>9, <1>10 DEF l, ms

-----------------------------------------------------------------------------
(* Parsing a line.                                                         *)

LEMMA LineRun ==
  ASSUME StreamInv, buf # <<>>
  PROVE  /\ \A j \in 1 .. Len(buf) : Pos(buf[j]) = Pos(buf[1]) + (j - 1)
         /\ \A j \in 1 .. Len(buf) : buf[j].msg \in 1 .. sent
         /\ Len(buf) <= 2 * MaxPerLine
         /\ torn = {} => buf[1].half = 1
         /\ incoming # <<>> /\ Head(incoming) = Newline
              => buf[Len(buf)].half = 2
<1>1. /\ Stream \in Seq(Units) /\ DOMAIN Stream = 1 .. Len(Stream)
      /\ Len(buf) \in Nat /\ Len(incoming) \in Nat
      /\ Len(Stream) = Len(buf) + Len(incoming)
      /\ \A i \in 1 .. Len(buf) : /\ Stream[i] = buf[i] /\ IsUnit(Stream, i)
                                  /\ buf[i] \in Halves
      /\ \A i \in 1 .. Len(incoming) : Stream[Len(buf) + i] = incoming[i]
  BY StreamFacts DEF StreamInv
<1>2. Len(buf) # 0 /\ 1 \in 1 .. Len(buf) /\ Len(buf) \in 1 .. Len(buf)
  BY <1>1, EmptySeq DEF StreamInv, StreamTypeOK
<1>3. \A i \in 1 .. Len(buf) : i \in DOMAIN Stream
  BY <1>1
<1>4. WellFormed(Stream, sent)
  BY DEF StreamInv
<1>5. ASSUME NEW j \in 1 .. Len(buf)
      PROVE  Pos(buf[j]) = Pos(buf[1]) + (j - 1) /\ j - 1 < 2 * MaxPerLine
  <2>1. \A k \in 1 .. j : k \in 1 .. Len(buf)
    BY <1>1
  <2>2. RunFrom(Stream, 1, j)
    BY <2>1, <1>1 DEF RunFrom
  <2>3. 1 <= j /\ 1 \in DOMAIN Stream /\ j \in DOMAIN Stream
    BY <1>2, <1>3
  <2>4. Pos(Stream[j]) = Pos(Stream[1]) + (j - 1) /\ j - 1 < 2 * MaxPerLine
    BY <2>2, <2>3, <1>4 DEF WellFormed, RunsAreWhole
  <2> QED BY <2>4, <1>1, <1>2
<1>6. \A j \in 1 .. Len(buf) : buf[j].msg \in 1 .. sent
  BY <1>1, <1>3, <1>4 DEF WellFormed, Numbers1To
<1>7. Len(buf) <= 2 * MaxPerLine
  <2>1. Len(buf) - 1 < 2 * MaxPerLine
    BY <1>2, <1>5
  <2>2. 2 * MaxPerLine \in Nat
    BY PerLineAssumption
  <2> QED BY <2>1, <2>2, <1>1
<1>8. ASSUME torn = {} PROVE buf[1].half = 1
  <2>1. Stream # <<>>
    BY <1>1, <1>2, EmptySeq
  <2> QED BY <2>1, <1>1, <1>2, <1>8 DEF StreamInv, StartsWhole
<1>9. ASSUME incoming # <<>>, Head(incoming) = Newline
      PROVE  buf[Len(buf)].half = 2
  <2>1. 1 \in 1 .. Len(incoming) /\ incoming[1] = Newline
    BY <1>1, <1>9, EmptySeq DEF StreamInv, StreamTypeOK
  <2>2. ~IsUnit(Stream, Len(buf) + 1) /\ Len(buf) + 1 \in DOMAIN Stream
    BY <2>1, <1>1 DEF IsUnit
  <2>3. IsUnit(Stream, Len(buf)) /\ Len(buf) \in DOMAIN Stream
    BY <1>1, <1>2, <1>3
  <2>4. Stream[Len(buf)].half = 2
    BY <2>2, <2>3, <1>4 DEF WellFormed, LinesEnd
  <2> QED BY <2>4, <1>1, <1>2
<1> QED BY <1>5, <1>6, <1>7, <1>8, <1>9

(* Only a complete line is ever waiting to be read to its end.             *)
LEMMA NoPartAtEnd ==
  ASSUME StreamInv, incoming = <<>>
  PROVE  buf = <<>>
<1>1. /\ Stream \in Seq(Units)
      /\ Len(buf) \in Nat
      /\ Len(Stream) = Len(buf) + Len(incoming)
      /\ \A i \in 1 .. Len(buf) : IsUnit(Stream, i)
  BY StreamFacts DEF StreamInv
<1>2. Len(incoming) = 0
  OBVIOUS
<1>3. Len(Stream) = Len(buf)
  BY <1>1, <1>2
<1> SUFFICES ASSUME buf # <<>> PROVE FALSE
  OBVIOUS
<1>4. Len(buf) # 0
  BY EmptySeq DEF StreamInv, StreamTypeOK
<1>5. Stream # <<>> /\ Len(buf) \in 1 .. Len(buf)
  BY <1>1, <1>3, <1>4, EmptySeq
<1>6. ~IsUnit(Stream, Len(Stream))
  BY <1>5 DEF StreamInv, WellFormed, EndsInNewline
<1> QED BY <1>1, <1>3, <1>5, <1>6

LEMMA NewlineCut ==
  ASSUME StreamInv, incoming # <<>>, Head(incoming) = Newline,
         incoming' = Tail(incoming), buf' = <<>>
  PROVE  /\ CutOff(Stream', Stream, Len(buf) + 1)
         /\ Len(buf) + 1 \in DOMAIN Stream
         /\ ~IsUnit(Stream, Len(buf) + 1)
         /\ incoming' \in Seq(Units)
<1>1. /\ Stream \in Seq(Units) /\ DOMAIN Stream = 1 .. Len(Stream)
      /\ Len(buf) \in Nat /\ Len(incoming) \in Nat
      /\ Len(Stream) = Len(buf) + Len(incoming)
      /\ \A i \in 1 .. Len(incoming) : Stream[Len(buf) + i] = incoming[i]
  BY StreamFacts DEF StreamInv
<1>2. incoming \in Seq(Units)
  BY DEF StreamInv, StreamTypeOK
<1>3. /\ Tail(incoming) \in Seq(Units)
      /\ Len(Tail(incoming)) = Len(incoming) - 1
      /\ \A i \in 1 .. Len(Tail(incoming)) : Tail(incoming)[i] = incoming[i + 1]
      /\ Len(incoming) # 0 /\ incoming[1] = Newline
  BY <1>2, HeadTailProperties, EmptySeq
<1>4. Stream' = Tail(incoming)
  <2>1. <<>> \o Tail(incoming) = Tail(incoming)
    BY <1>3, ConcatEmptySeq
  <2> QED BY <2>1 DEF Stream
<1>5. ASSUME NEW i \in 1 .. Len(Tail(incoming))
      PROVE  Tail(incoming)[i] = Stream[(Len(buf) + 1) + i]
  <2>1. i + 1 \in 1 .. Len(incoming) /\ Len(buf) + (i + 1) = (Len(buf) + 1) + i
    BY <1>1, <1>3
  <2> QED BY <2>1, <1>1, <1>3
<1>6. CutOff(Stream', Stream, Len(buf) + 1)
  <2>1. /\ Len(buf) + 1 \in 0 .. Len(Stream)
        /\ Len(Tail(incoming)) = Len(Stream) - (Len(buf) + 1)
    BY <1>1, <1>3
  <2> QED BY <2>1, <1>1, <1>3, <1>4, <1>5 DEF CutOff
<1>7. Len(buf) + 1 \in DOMAIN Stream /\ Stream[Len(buf) + 1] = Newline
  <2>1. 1 \in 1 .. Len(incoming)
    BY <1>1, <1>3
  <2> QED BY <2>1, <1>1, <1>3
<1> QED BY <1>3, <1>6, <1>7 DEF IsUnit

(* What was read says nothing new, or ends the session.                    *)
LEMMA SkippedStep ==
  ASSUME StreamInv, StreamTypeOK', LoginFirst',
         NEW k \in DOMAIN Stream, CutOff(Stream', Stream, k), ~IsUnit(Stream, k),
         Seen' = Seen, sent' = sent, torn' = torn, eof' = eof,
         \/ state' = state /\ k = 1
         \/ state' = "failed" /\ torn # {}
  PROVE  StreamInv'
<1>1. WellFormed(Stream, sent) /\ k \in 0 .. Len(Stream) /\ Stream \in Seq(Units)
  BY DEF StreamInv, CutOff
<1>2. WellFormed(Stream', sent)
  BY <1>1, CutKeeps DEF CutOff
<1>3. WellFormed(Stream, sent)'
  BY <1>2
<1>4. StartsWhole'
  BY <1>1, WholeAfterNewline DEF WellFormed
<1>5. SeenInOrder'
  BY DEF StreamInv, SeenInOrder, In!SeenInOrder, Seen
<1>6. SeenIsEarlier'
  BY EarlierAfterCut DEF StreamInv
<1>7. NothingMissing'
  <2>1. CASE state' = state /\ k = 1
    <3> SUFFICES ASSUME Connected, NEW m \in 1 .. sent, InFlight(m)
                 PROVE  InFlight(m)'
      BY <2>1 DEF StreamInv, NothingMissing, Connected, RangeOf
    <3> SUFFICES ASSUME NEW h \in {1, 2}
                 PROVE  [msg |-> m, half |-> h] \in RangeOf(Stream')
      BY DEF InFlight, RangeOf
    <3>1. [msg |-> m, half |-> h] \in RangeOf(Stream)
      BY DEF InFlight
    <3>2. [msg |-> m, half |-> h] # Newline
      <4>1. [msg |-> m, half |-> h].half # 0
        OBVIOUS
      <4> QED BY <4>1 DEF Newline, In!Newline
    <3>3. \A i \in 1 .. k : i = k
      BY <2>1
    <3>4. Stream[k] = Newline
      BY DEF IsUnit
    <3> QED BY <3>1, <3>2, <3>3, <3>4, CutFacts
  <2>2. CASE state' = "failed"
    BY <2>2 DEF NothingMissing, Connected
  <2> QED BY <2>1, <2>2
<1>8. OnlyTornAreLost'
  BY DEF StreamInv, OnlyTornAreLost, In!OnlyTornAreLost, In!RangeOf, Seen
<1> QED BY <1>3, <1>4, <1>5, <1>6, <1>7, <1>8 DEF StreamInv

(* A line's messages are handed on.                                        *)
LEMMA AcceptStep ==
  ASSUME StreamInv, Connected, queued = <<>>, buf # <<>>, In!Whole(buf),
         state' = "session", In!Accept(buf),
         incoming # <<>>, Head(incoming) = Newline,
         incoming' = Tail(incoming), buf' = <<>>,
         UNCHANGED <<sent, blanks, eof, cancels, torn>>
  PROVE  StreamInv'
<1> DEFINE ms == In!Messages(buf)
           k == Len(buf) + 1
<1>1. /\ delivered \in Seq(1 .. sent) /\ sent \in Nat /\ StreamTypeOK
      /\ buf \in Seq(Halves) /\ torn \subseteq 1 .. sent
      /\ WellFormed(Stream, sent)
  BY DEF StreamInv, StreamTypeOK
<1>2. /\ \A j \in 1 .. Len(buf) : Pos(buf[j]) = Pos(buf[1]) + (j - 1)
      /\ \A j \in 1 .. Len(buf) : buf[j].msg \in 1 .. sent
      /\ Len(buf) <= 2 * MaxPerLine
  BY LineRun
<1>3. /\ ms \in Seq(1 .. sent) /\ ms # <<>>
      /\ Len(ms) <= MaxPerLine
      /\ \A i, j \in DOMAIN ms : i < j => ms[i] < ms[j]
      /\ \A j \in 1 .. Len(buf) : buf[j].msg \in RangeOf(ms)
      /\ \A m \in RangeOf(ms) :
           \E j \in 1 .. Len(buf) : buf[j].msg = m /\ buf[j].half = 2
  <2>1. MaxPerLine \in Nat
    BY PerLineAssumption
  <2> QED BY <2>1, <1>1, <1>2, MessagesOfLine
<1>4. delivered' = Append(delivered, Head(ms)) /\ queued' = Tail(ms)
  BY DEF In!Accept
<1> HIDE DEF ms
<1>5. /\ CutOff(Stream', Stream, k) /\ k \in DOMAIN Stream
      /\ ~IsUnit(Stream, k) /\ incoming' \in Seq(Units)
  BY NewlineCut
<1>6. /\ Append(delivered, Head(ms)) \o Tail(ms) = delivered \o ms
      /\ Head(ms) \in 1 .. sent /\ Tail(ms) \in Seq(1 .. sent)
      /\ Len(Tail(ms)) = Len(ms) - 1
      /\ Append(delivered, Head(ms)) \in Seq(1 .. sent)
  BY <1>1, <1>3, HandedOn, ZenonT(60)
<1>7. Seen' = delivered \o ms /\ Seen = delivered
  BY <1>1, <1>4, <1>6, ConcatEmptySeq DEF Seen
<1>8. RangeOf(delivered \o ms) = RangeOf(delivered) \cup RangeOf(ms)
  BY <1>1, <1>3, RangeOfConcat
<1>9. /\ \A i \in 1 .. Len(buf) : /\ Stream[i] = buf[i] /\ IsUnit(Stream, i)
                                  /\ buf[i] \in Halves /\ i \in DOMAIN Stream
                                  /\ i < k /\ i \in Nat
      /\ Len(buf) \in Nat
  BY <1>1, StreamFacts
<1>10. \A m \in RangeOf(delivered) : m \in Nat
  BY <1>1, ElementOfSeq, LenProperties DEF RangeOf
<1>11. ASSUME NEW m \in RangeOf(delivered), NEW n \in RangeOf(ms) PROVE m < n
  <2>1. PICK j \in 1 .. Len(buf) : buf[j].msg = n
    BY <1>3
  <2> QED BY <2>1, <1>7, <1>9 DEF StreamInv, SeenIsEarlier
<1> HIDE DEF k
<1>12. StreamTypeOK'
  <2>1. Len(Tail(ms)) < MaxPerLine
    BY <1>3, <1>6, LenProperties, PerLineAssumption
  <2> QED BY <2>1, <1>1, <1>4, <1>5, <1>6 DEF StreamTypeOK
<1>13. WellFormed(Stream, sent)'
  <2>1. k \in 0 .. Len(Stream) /\ Stream \in Seq(Units)
    BY <1>5 DEF CutOff
  <2>2. WellFormed(Stream', sent)
    BY <2>1, <1>1, <1>5, CutKeeps DEF CutOff
  <2> QED BY <2>2
<1>14. StartsWhole'
  BY <1>1, <1>5, WholeAfterNewline DEF WellFormed
<1>15. SeenInOrder'
  <2> DEFINE c == delivered \o ms
             l == Len(delivered)
  <2>1. /\ c \in Seq(1 .. sent) /\ l \in Nat /\ Len(ms) \in Nat
        /\ Len(c) = l + Len(ms)
        /\ \A i \in 1 .. l : c[i] = delivered[i]
        /\ \A i \in 1 .. Len(ms) : c[l + i] = ms[i]
        /\ \A i \in 1 .. l + Len(ms) : i \in 1 .. l \/ i - l \in 1 .. Len(ms)
    BY <1>1, <1>3, ConcatAt
  <2>2. /\ DOMAIN c = 1 .. l + Len(ms) /\ DOMAIN delivered = 1 .. l
        /\ DOMAIN ms = 1 .. Len(ms)
    BY <1>1, <1>3, <2>1, LenProperties
  <2>3. \A i, j \in DOMAIN delivered : i < j => delivered[i] < delivered[j]
    BY <1>7 DEF StreamInv, SeenInOrder, In!SeenInOrder, Seen
  <2> HIDE DEF c, l
  <2>4. ASSUME NEW i \in DOMAIN c
        PROVE  \/ i \in DOMAIN delivered /\ c[i] = delivered[i]
               \/ /\ i - l \in DOMAIN ms /\ c[i] = ms[i - l]
                  /\ i \notin 1 .. l /\ i \in Nat
    <3>1. CASE i \in 1 .. l
      BY <3>1, <2>1, <2>2
    <3>2. CASE i \notin 1 .. l
      <4>1. i - l \in 1 .. Len(ms) /\ i = l + (i - l) /\ i \in Nat
        BY <3>2, <2>1, <2>2
      <4>2. c[i] = ms[i - l]
        BY <4>1, <2>1
      <4> QED BY <3>2, <4>1, <4>2, <2>2
    <3> QED BY <3>1, <3>2
  <2>5. ASSUME NEW i \in DOMAIN c, NEW j \in DOMAIN c, i < j PROVE c[i] < c[j]
    <3>1. CASE j \in DOMAIN delivered /\ c[j] = delivered[j]
      <4>1. i \in 1 .. l
        BY <3>1, <2>1, <2>2, <2>5
      <4> QED BY <3>1, <4>1, <2>1, <2>2, <2>3, <2>5
    <3>2. CASE j - l \in DOMAIN ms /\ c[j] = ms[j - l]
      <4>1. CASE i \in DOMAIN delivered /\ c[i] = delivered[i]
        BY <3>2, <4>1, <1>11 DEF RangeOf
      <4>2. CASE i - l \in DOMAIN ms /\ c[i] = ms[i - l]
        <5>1. i \in Nat /\ j \in Nat
          BY <2>1, <2>2
        <5>2. i - l < j - l
          BY <5>1, <2>1, <2>5
        <5> QED BY <3>2, <4>2, <5>2, <1>3
      <4> QED BY <4>1, <4>2, <2>4
    <3> QED BY <3>1, <3>2, <2>4
  <2>6. \A i, j \in DOMAIN Seen' : i < j => Seen'[i] < Seen'[j]
    BY <1>7, <2>5 DEF c
  <2> QED BY <2>6 DEF SeenInOrder, In!SeenInOrder, Seen
<1>16. SeenIsEarlier'
  <2> SUFFICES ASSUME NEW m \in RangeOf(delivered) \cup RangeOf(ms),
                      NEW i \in DOMAIN Stream', Stream'[i] # Newline
               PROVE  m < Stream'[i].msg
    BY <1>7, <1>8 DEF SeenIsEarlier, RangeOf, IsUnit, Newline, In!Newline
  <2>1. k + i \in DOMAIN Stream /\ Stream'[i] = Stream[k + i] /\ i \in Nat
        /\ 1 <= i /\ k \in Nat
    BY <1>5, CutFacts DEF CutOff
  <2>2. IsUnit(Stream, k + i)
    BY <2>1 DEF IsUnit
  <2>3. CASE m \in RangeOf(delivered)
    BY <2>1, <2>2, <2>3, <1>7 DEF StreamInv, SeenIsEarlier
  <2>4. CASE m \in RangeOf(ms)
    <3>1. PICK j \in 1 .. Len(buf) : buf[j].msg = m /\ buf[j].half = 2
      BY <2>4, <1>3
    <3>2. j < k + i /\ j \in DOMAIN Stream /\ IsUnit(Stream, j) /\ Stream[j] = buf[j]
      BY <2>1, <1>9
    <3>3. Pos(Stream[j]) < Pos(Stream[k + i])
      BY <2>1, <2>2, <3>2, <1>1 DEF WellFormed, Increases
    <3> DEFINE u == Stream[k + i]
    <3>4. u \in Halves
      <4>1. u \in Units
        BY <2>1, <1>1, <1>5, CutFacts, ElementOfSeq DEF WellFormed
      <4> QED BY <4>1, <2>2, UnitFacts DEF IsUnit
    <3>5. u.msg \in Nat /\ u.half \in {1, 2} /\ m \in Nat
      BY <3>1, <3>4, <1>9, UnitFacts
    <3>6. 2 * m + 2 < 2 * u.msg + u.half
      BY <3>1, <3>2, <3>3 DEF Pos
    <3>7. m < u.msg
      BY <3>5, <3>6
    <3> QED BY <3>7, <2>1
  <2> QED BY <2>3, <2>4
<1>17. ASSUME NEW x \in 1 .. sent
       PROVE  x \in RangeOf(Seen') \cup torn \/ InFlight(x)'
  <2> SUFFICES ASSUME InFlight(x), NEW h \in {1, 2},
                      [msg |-> x, half |-> h] \notin RangeOf(Stream')
               PROVE  x \in RangeOf(ms)
    BY <1>7, <1>8, ZenonT(60) DEF StreamInv, NothingMissing, InFlight, RangeOf
  <2> DEFINE u == [msg |-> x, half |-> h]
  <2>1. u \in RangeOf(Stream)
    BY DEF InFlight
  <2>2. u # Newline /\ u.msg = x
    <3>1. u.half # 0 /\ u.msg = x
      OBVIOUS
    <3> QED BY <3>1 DEF Newline, In!Newline
  <2>3. PICK i \in 1 .. k : Stream[i] = u
    BY <2>1, <1>5, CutFacts
  <2>4. i # k
    BY <2>2, <2>3, <1>5 DEF IsUnit
  <2>5. i \in 1 .. Len(buf)
    BY <2>4, <1>9 DEF k
  <2> QED BY <2>2, <2>3, <2>5, <1>3, <1>9
<1>18. NothingMissing'
  BY <1>17 DEF NothingMissing, RangeOf
<1>19. OnlyTornAreLost'
  <2>1. ASSUME NEW m \in RangeOf(Seen'), NEW x \in 1 .. m
        PROVE  x \in RangeOf(Seen') \cup torn
    <3>1. m \in 1 .. sent
      <4>1. Seen' \in Seq(1 .. sent)
        BY <1>1, <1>3, <1>7
      <4> QED BY <4>1, ElementOfSeq, LenProperties, ZenonT(60) DEF RangeOf
    <3>2. x \in 1 .. sent /\ ~(m < x)
      BY <3>1, <1>1
    <3>3. ~InFlight(x)'
      <4> SUFFICES ASSUME InFlight(x)' PROVE FALSE
        OBVIOUS
      <4> DEFINE u == [msg |-> x, half |-> 1]
      <4>1. u \in RangeOf(Stream')
        BY DEF InFlight, RangeOf
      <4>2. u # Newline /\ u.msg = x
        <5>1. u.half # 0 /\ u.msg = x
          OBVIOUS
        <5> QED BY <5>1 DEF Newline, In!Newline
      <4>3. PICK i \in DOMAIN Stream' : Stream'[i] = u
        BY <4>1 DEF RangeOf
      <4>4. m < Stream'[i].msg
        BY <4>2, <4>3, <1>16 DEF SeenIsEarlier, RangeOf, IsUnit, Newline, In!Newline
      <4> QED BY <4>2, <4>3, <4>4, <3>2
    <3> QED BY <3>2, <3>3, <1>17
  <2>2. \A m \in RangeOf(Seen') : 1 .. m \subseteq RangeOf(Seen') \cup torn
    BY <2>1
  <2> QED BY <2>2 DEF OnlyTornAreLost, In!OnlyTornAreLost, In!RangeOf, RangeOf, Seen
<1>20. LoginFirst'
  <2>1. delivered' # <<>> /\ (delivered # <<>> => delivered'[1] = delivered[1])
        /\ (delivered = <<>> => delivered'[1] = Head(ms))
    <3> DEFINE S == 1 .. sent
               h == Head(ms)
    <3>1. h \in S /\ delivered \in Seq(S) /\ delivered' = Append(delivered, h)
      BY <1>1, <1>4, <1>6
    <3> HIDE DEF S, h
    <3>2. /\ Append(delivered, h) # <<>>
          /\ delivered # <<>> => Append(delivered, h)[1] = delivered[1]
          /\ delivered = <<>> => Append(delivered, h)[1] = h
      BY <3>1, AppendAt
    <3> QED BY <3>1, <3>2 DEF h
  <2>2. CASE state = "session"
    BY <2>1, <2>2 DEF StreamInv, LoginFirst
  <2>3. CASE state = "login"
    <3>1. delivered = <<>> /\ torn = {}
      BY <2>3 DEF StreamInv, LoginFirst
    <3>2. RangeOf(Seen') = RangeOf(ms)
      <4>1. RangeOf(delivered) = {}
        BY <3>1 DEF RangeOf
      <4> QED BY <4>1, <1>7, <1>8
    <3>3. /\ Head(ms) = ms[1] /\ 1 \in DOMAIN ms /\ ms[1] \in 1 .. sent
          /\ DOMAIN ms = 1 .. Len(ms) /\ Len(ms) \in Nat
      BY <1>3, <1>6, EmptySeq, LenProperties
    <3>4. 1 \in 1 .. ms[1] /\ ms[1] \in RangeOf(ms)
      BY <3>3, <1>1 DEF RangeOf
    <3>5. 1 \in RangeOf(ms)
      BY <3>1, <3>2, <3>4, <1>19
         DEF OnlyTornAreLost, In!OnlyTornAreLost, In!RangeOf, RangeOf, Seen
    <3>6. PICK i \in DOMAIN ms : ms[i] = 1
      BY <3>5 DEF RangeOf
    <3>7. i = 1
      <4> SUFFICES ASSUME i # 1 PROVE FALSE
        OBVIOUS
      <4>1. 1 < i
        BY <3>3
      <4>2. ms[1] < 1
        BY <4>1, <3>3, <3>6, <1>3
      <4> QED BY <4>2, <3>3, <1>1
    <3> QED BY <2>1, <3>1, <3>3, <3>6, <3>7 DEF LoginFirst
  <2> QED BY <2>2, <2>3 DEF Connected
<1> QED BY <1>12, <1>13, <1>14, <1>15, <1>16, <1>18, <1>19, <1>20 DEF StreamInv

LEMMA NewlineStep ==
  ASSUME StreamInv, Connected, In!ReadNewline
  PROVE  StreamInv'
<1>1. /\ queued = <<>> /\ incoming # <<>> /\ Head(incoming) = Newline
      /\ incoming' = Tail(incoming) /\ buf' = <<>>
      /\ UNCHANGED <<sent, blanks, eof, cancels, torn>>
  BY DEF In!ReadNewline, In!Reading, Newline, In!poolVars, In!historyVars
<1>2. IF buf = <<>> THEN UNCHANGED <<delivered, queued, state>> ELSE In!Parse(buf)
  BY DEF In!ReadNewline
<1>3. /\ CutOff(Stream', Stream, Len(buf) + 1)
      /\ Len(buf) + 1 \in DOMAIN Stream
      /\ ~IsUnit(Stream, Len(buf) + 1)
      /\ incoming' \in Seq(Units)
  BY <1>1, NewlineCut
<1>4. ASSUME UNCHANGED <<delivered, queued>>
      PROVE  StreamTypeOK' /\ Seen' = Seen
  <2>1. <<>> \in Seq(Halves)
    OBVIOUS
  <2>2. StreamTypeOK'
    BY <2>1, <1>1, <1>3, <1>4 DEF StreamInv, StreamTypeOK
  <2>3. Seen' = Seen
    BY <1>4 DEF Seen
  <2> QED BY <2>2, <2>3
<1>5. CASE buf = <<>>
  <2>1. UNCHANGED <<delivered, queued, state>>
    BY <1>2, <1>5
  <2>2. LoginFirst'
    BY <2>1, <1>1 DEF StreamInv, LoginFirst
  <2>3. Len(buf) + 1 = 1
    BY <1>5
  <2> QED BY <2>1, <2>2, <2>3, <1>1, <1>3, <1>4, SkippedStep
<1>6. CASE buf # <<>> /\ In!Whole(buf)
  <2>1. state' = "session" /\ In!Accept(buf)
    BY <1>2, <1>6 DEF In!Parse
  <2> QED BY <2>1, <1>1, <1>6, AcceptStep
<1>7. CASE buf # <<>> /\ ~In!Whole(buf)
  <2>1. state' = "failed" /\ UNCHANGED <<delivered, queued>>
    BY <1>2, <1>7 DEF In!Parse, In!Fail
  <2>2. torn # {}
    <3> SUFFICES ASSUME torn = {} PROVE In!Whole(buf)
      BY <1>7
    <3>1. buf \in Seq(Halves)
      BY DEF StreamInv, StreamTypeOK
    <3>2. /\ \A j \in 1 .. Len(buf) : Pos(buf[j]) = Pos(buf[1]) + (j - 1)
          /\ buf[1].half = 1 /\ buf[Len(buf)].half = 2
      BY <1>1, <1>7, LineRun
    <3> QED BY <3>1, <3>2, <1>7, LineIsWhole
  <2>3. LoginFirst'
    BY <2>1 DEF LoginFirst
  <2> QED BY <2>1, <2>2, <2>3, <1>1, <1>3, <1>4, SkippedStep
<1> QED BY <1>5, <1>6, <1>7

LEMMA EofStep ==
  ASSUME StreamInv, In!ReadEof
  PROVE  StreamInv' /\ state' = "failed" /\ delivered' = delivered
<1>1. /\ incoming = <<>> /\ eof = TRUE
      /\ IF buf = <<>> THEN In!Fail ELSE In!Parse(buf)
      /\ buf' = <<>>
      /\ UNCHANGED <<sent, blanks, eof, incoming, cancels, torn>>
  BY DEF In!ReadEof, In!poolVars, In!historyVars, StreamInv, StreamTypeOK
<1>2. buf = <<>>
  BY <1>1, NoPartAtEnd
<1>3. state' = "failed" /\ UNCHANGED <<delivered, queued>>
  BY <1>1, <1>2 DEF In!Fail
<1>4. Stream' = Stream /\ Seen' = Seen
  BY <1>1, <1>2, <1>3 DEF Stream, Seen
<1>5. StreamTypeOK'
  BY <1>1, <1>2, <1>3 DEF StreamInv, StreamTypeOK
<1>6. WellFormed(Stream, sent)'
  BY <1>1, <1>4 DEF StreamInv
<1>7. StartsWhole'
  BY <1>1, <1>4 DEF StreamInv, StartsWhole, IsUnit, Newline, In!Newline
<1>8. SeenInOrder'
  BY <1>4 DEF StreamInv, SeenInOrder, In!SeenInOrder, Seen
<1>9. SeenIsEarlier'
  BY <1>4 DEF StreamInv, SeenIsEarlier, IsUnit, RangeOf, Newline, In!Newline
<1>10. NothingMissing'
  BY <1>3 DEF NothingMissing, Connected
<1>11. OnlyTornAreLost'
  BY <1>1, <1>4 DEF StreamInv, OnlyTornAreLost, In!OnlyTornAreLost, In!RangeOf, Seen
<1>12. LoginFirst'
  BY <1>3 DEF LoginFirst
<1> QED
  BY <1>3, <1>5, <1>6, <1>7, <1>8, <1>9, <1>10, <1>11, <1>12 DEF StreamInv

(* A read is dropped, and with it what it had of a line.                   *)
LEMMA CancelStep ==
  ASSUME StreamInv, In!Cancel
  PROVE  StreamInv'
<1> DEFINE k == Len(buf)
<1>1. /\ state = "session" /\ cancels < MaxShares + MaxKeepalives
      /\ cancels' = cancels + 1
      /\ torn' = torn \cup {buf[i].msg : i \in DOMAIN buf}
      /\ buf' = <<>>
      /\ UNCHANGED <<sent, blanks, eof, incoming, queued, delivered, state>>
  BY DEF In!Cancel, In!poolVars
<1>2. /\ StreamTypeOK /\ WellFormed(Stream, sent)
      /\ buf \in Seq(Halves) /\ incoming \in Seq(Units) /\ DOMAIN buf = 1 .. k
  BY LenProperties DEF StreamInv, StreamTypeOK
<1>3. /\ Stream \in Seq(Units) /\ DOMAIN Stream = 1 .. Len(Stream)
      /\ k \in Nat /\ Len(incoming) \in Nat
      /\ Len(Stream) = k + Len(incoming)
      /\ \A i \in 1 .. k : Stream[i] = buf[i] /\ IsUnit(Stream, i)
      /\ \A i \in 1 .. Len(incoming) : Stream[k + i] = incoming[i]
  BY <1>2, StreamFacts
<1>4. Stream' = incoming
  <2>1. <<>> \o incoming = incoming
    BY <1>2, ConcatEmptySeq
  <2> QED BY <2>1, <1>1 DEF Stream
<1>5. CutOff(Stream', Stream, k) /\ k \in 0 .. Len(Stream)
  BY <1>2, <1>3, <1>4 DEF CutOff
<1>6. Seen' = Seen
  BY <1>1 DEF Seen
<1>7. \A i \in 1 .. k : buf[i].msg \in torn' /\ buf[i].msg \in 1 .. sent
  <2>1. \A i \in 1 .. k : i \in DOMAIN Stream
    BY <1>3
  <2> QED BY <2>1, <1>1, <1>2, <1>3 DEF WellFormed, Numbers1To
<1> HIDE DEF k
<1>8. StreamTypeOK'
  <2>1. torn' \subseteq 1 .. sent
    BY <1>1, <1>2, <1>7 DEF StreamTypeOK
  <2>2. cancels' \in 0 .. MaxShares + MaxKeepalives
    BY <1>1, <1>2, BoundsAssumption DEF StreamTypeOK
  <2>3. <<>> \in Seq(Halves)
    OBVIOUS
  <2> QED BY <2>1, <2>2, <2>3, <1>1, <1>2 DEF StreamTypeOK
<1>9. WellFormed(Stream, sent)'
  <2>1. WellFormed(Stream', sent)
    BY <1>2, <1>3, <1>5, CutKeeps DEF CutOff
  <2> QED BY <2>1, <1>1
<1>10. StartsWhole'
  <2> SUFFICES ASSUME torn' = {} PROVE StartsWhole'
    BY DEF StartsWhole
  <2>1. torn = {} /\ k = 0
    <3>1. torn = {} /\ ~(1 \in 1 .. k)
      BY <1>1, <1>7
    <3> QED BY <3>1, <1>3
  <2>2. buf = <<>>
    BY <2>1, <1>2, EmptySeq DEF k
  <2>3. Stream' = Stream
    BY <2>2, <1>1 DEF Stream
  <2> QED BY <2>1, <2>3 DEF StreamInv, StartsWhole, IsUnit, Newline, In!Newline
<1>11. SeenInOrder'
  BY <1>6 DEF StreamInv, SeenInOrder, In!SeenInOrder, Seen
<1>12. SeenIsEarlier'
  BY <1>5, <1>6, EarlierAfterCut DEF StreamInv
<1>13. NothingMissing'
  <2> SUFFICES ASSUME Connected, NEW m \in 1 .. sent, InFlight(m), m \notin torn',
                      NEW h \in {1, 2}
               PROVE  [msg |-> m, half |-> h] \in RangeOf(Stream')
    BY <1>1, <1>6 DEF StreamInv, NothingMissing, InFlight, RangeOf, Connected
  <2> DEFINE u == [msg |-> m, half |-> h]
  <2>1. u \in RangeOf(Stream) /\ u.msg = m
    BY DEF InFlight
  <2>2. u \in RangeOf(Stream') \/ \E i \in 1 .. k : i \in DOMAIN Stream /\ Stream[i] = u
    BY <2>1, <1>5, CutFacts
  <2>3. ASSUME NEW i \in 1 .. k, Stream[i] = u PROVE FALSE
    BY <2>1, <2>3, <1>3, <1>7
  <2> QED BY <2>2, <2>3
<1>14. OnlyTornAreLost'
  BY <1>1, <1>6 DEF StreamInv, OnlyTornAreLost, In!OnlyTornAreLost, In!RangeOf, Seen
<1>15. LoginFirst'
  BY <1>1 DEF StreamInv, LoginFirst
<1> QED
  BY <1>8, <1>9, <1>10, <1>11, <1>12, <1>13, <1>14, <1>15 DEF StreamInv

-----------------------------------------------------------------------------
(* The steps of the session.                                               *)

LEMMA ReadResult ==
  ASSUME StreamInv, Connected,
         In!PopPending \/ In!ReadPart \/ In!ReadNewline \/ In!ReadEof
  PROVE  /\ StreamInv' /\ sent' = sent
         /\ \/ delivered' = delivered /\ state' \in {state, "failed"}
            \/ /\ state' = "session"
               /\ \E x \in 1 .. sent : delivered' = Append(delivered, x)
<1>1. CASE In!PopPending
  <2>1. /\ delivered' = Append(delivered, Head(queued)) /\ sent' = sent
        /\ state' = "session" /\ queued # <<>> /\ queued \in Seq(1 .. sent)
    BY <1>1 DEF In!PopPending, In!poolVars, StreamInv, StreamTypeOK
  <2>2. Head(queued) \in 1 .. sent
    BY <2>1, HeadTailProperties
  <2> QED BY <1>1, <2>1, <2>2, PopStep
<1>2. CASE In!ReadPart
  BY <1>2, PartStep DEF In!ReadPart, In!poolVars
<1>3. CASE In!ReadNewline
  <2>1. sent' = sent
    BY <1>3 DEF In!ReadNewline, In!poolVars
  <2>2. CASE buf = <<>>
    BY <1>3, <2>1, <2>2, NewlineStep DEF In!ReadNewline
  <2>3. CASE buf # <<>> /\ In!Whole(buf)
    <3> DEFINE ms == In!Messages(buf)
    <3>1. state' = "session" /\ delivered' = Append(delivered, Head(ms))
      BY <1>3, <2>3 DEF In!ReadNewline, In!Parse, In!Accept
    <3>2. ms \in Seq(1 .. sent) /\ ms # <<>>
      <4>1. buf \in Seq(Halves) /\ MaxPerLine \in Nat
        BY PerLineAssumption DEF StreamInv, StreamTypeOK
      <4> QED BY <4>1, <2>3, LineRun, MessagesOfLine
    <3> HIDE DEF ms
    <3>3. Head(ms) \in 1 .. sent
      BY <3>2, HeadTailProperties
    <3> QED BY <1>3, <2>1, <3>1, <3>3, NewlineStep
  <2>4. CASE buf # <<>> /\ ~In!Whole(buf)
    <3>1. delivered' = delivered /\ state' = "failed"
      BY <1>3, <2>4 DEF In!ReadNewline, In!Parse, In!Fail
    <3> QED BY <1>3, <2>1, <3>1, NewlineStep
  <2> QED BY <2>2, <2>3, <2>4
<1>4. CASE In!ReadEof
  <2>1. sent' = sent
    BY <1>4 DEF In!ReadEof, In!poolVars
  <2> QED BY <1>4, <2>1, EofStep
<1> QED BY <1>1, <1>2, <1>3, <1>4

LEMMA ReadStep ==
  ASSUME SessionInv, Read
  PROVE  SessionInv' /\ [Next]_vars
<1>1. /\ Connected /\ Handle
      /\ In!PopPending \/ In!ReadPart \/ In!ReadNewline \/ In!ReadEof
      /\ UNCHANGED <<contents, notices, drops>>
  BY DEF Read
<1>2. TypeOK /\ StreamInv /\ ContentsOK /\ SessionStateOK
  BY DEF SessionInv
<1>3. /\ StreamInv' /\ sent' = sent
      /\ \/ delivered' = delivered /\ state' \in {state, "failed"}
         \/ /\ state' = "session"
            /\ \E x \in 1 .. sent : delivered' = Append(delivered, x)
  BY <1>1, <1>2, ReadResult
<1>4. ContentsOK'
  BY <1>1, <1>2, <1>3 DEF ContentsOK
<1>5. state \in {"login", "session"}
  BY <1>1 DEF Connected
<1>6. ASSUME keepalives' = keepalives, state' \in {"closed", "login", "session", "failed"},
             open' <=> (state' = "session")
      PROVE  SessionStateOK'
  BY <1>1, <1>2, <1>6 DEF SessionStateOK
<1>7. CASE delivered' = delivered /\ state' \in {state, "failed"}
  <2>1. CASE state' = "failed" /\ open
    <3>1. SessionEnds
      BY <1>1, <1>7, <2>1 DEF Handle
    <3>2. [Next]_vars /\ keepalives' = keepalives /\ open' = FALSE
      BY <3>1 DEF Next, SessionEnds, Close
    <3>3. TypeOK'
      BY <1>2, <3>2, TypeStep
    <3> QED BY <3>2, <3>3, <2>1, <1>3, <1>4, <1>6 DEF SessionInv
  <2>2. CASE ~(state' = "failed" /\ open)
    <3>1. UNCHANGED vars
      BY <1>1, <1>7, <2>2 DEF Handle
    <3>2. [Next]_vars /\ keepalives' = keepalives /\ open' = open
      BY <3>1 DEF vars
    <3>3. TypeOK'
      BY <1>2, <3>2, TypeStep
    <3>4. open' <=> (state' = "session")
      BY <1>2, <1>5, <1>7, <2>2, <3>2 DEF SessionStateOK
    <3> QED BY <3>2, <3>3, <3>4, <1>3, <1>4, <1>5, <1>6, <1>7 DEF SessionInv
  <2> QED BY <2>1, <2>2
<1>8. ASSUME state' = "session", NEW x \in 1 .. sent, delivered' = Append(delivered, x)
      PROVE  SessionInv' /\ [Next]_vars
  <2>1. delivered \in Seq(1 .. sent) /\ delivered' \in Seq(1 .. sent)
        /\ queued' \in Seq(1 .. sent)
    BY <1>2, <1>3, <1>8 DEF StreamInv, StreamTypeOK
  <2>2. /\ delivered' # delivered /\ delivered'[Len(delivered')] = x
        /\ delivered # <<>> => delivered'[1] = delivered[1]
        /\ delivered = <<>> => delivered'[1] = x
    <3>1. /\ Append(delivered, x) # delivered
          /\ Append(delivered, x)[Len(Append(delivered, x))] = x
          /\ delivered # <<>> => Append(delivered, x)[1] = delivered[1]
          /\ delivered = <<>> => Append(delivered, x)[1] = x
      BY <2>1, AppendAt
    <3> QED BY <3>1, <1>8
  <2> DEFINE c == contents[x]
  <2>3. /\ c \in Sayings /\ (c.kind = "login" <=> x = 1)
    <3>1. x \in DOMAIN contents /\ x \in 1 .. Len(contents)
      BY <1>2, LenProperties DEF ContentsOK
    <3> QED BY <3>1, <1>2, ElementOfSeq DEF ContentsOK
  <2>4. /\ c.kind = "login"  => Login
        /\ c.kind = "reply"  => Reply(c.request, c.error)
        /\ c.kind = "notice" => HandleNotice
    BY <1>1, <2>2 DEF Handle
  <2>5. /\ c.kind \in {"login", "reply", "notice"}
        /\ c.kind = "reply" => c.error \in BOOLEAN
    BY <2>3 DEF Sayings
  <2> HIDE DEF c
  <2>6. state = "login" => x = 1
    <3> SUFFICES ASSUME state = "login" PROVE x = 1
      OBVIOUS
    <3>1. delivered = <<>>
      BY <1>2 DEF StreamInv, LoginFirst
    <3>2. delivered'[1] = 1
      BY <1>3, <1>8 DEF StreamInv, LoginFirst
    <3> QED BY <3>1, <3>2, <2>2
  <2>7. state = "session" => x # 1
    <3> SUFFICES ASSUME state = "session" PROVE x # 1
      OBVIOUS
    <3>1. delivered # <<>> /\ delivered[1] = 1
      BY <1>2 DEF StreamInv, LoginFirst
    <3>2. 1 \in 1 .. Len(delivered) /\ Len(delivered) \in Nat
      BY <2>1, <3>1, EmptySeq, LenProperties
    <3>3. Len(delivered') = Len(delivered) + 1
      BY <1>8, <2>1, AppendProperties
    <3>4. /\ 1 \in 1 .. Len(delivered') /\ Len(delivered') \in 1 .. Len(delivered')
          /\ 1 < Len(delivered') /\ Len(delivered') \in Nat
      BY <3>2, <3>3
    <3> DEFINE c2 == delivered' \o queued'
    <3>5. /\ c2[1] = delivered'[1] /\ c2[Len(delivered')] = x
          /\ 1 \in DOMAIN c2 /\ Len(delivered') \in DOMAIN c2
      <4>1. /\ c2 \in Seq(1 .. sent) /\ Len(queued') \in Nat
            /\ Len(c2) = Len(delivered') + Len(queued')
            /\ \A i \in 1 .. Len(delivered') : c2[i] = delivered'[i]
        BY <2>1, ConcatAt
      <4>2. DOMAIN c2 = 1 .. Len(delivered') + Len(queued')
        BY <4>1, LenProperties
      <4> HIDE DEF c2
      <4>3. 1 \in DOMAIN c2 /\ Len(delivered') \in DOMAIN c2
        BY <4>1, <4>2, <3>4
      <4> QED BY <4>1, <4>3, <3>4, <2>2
    <3>6. \A i, j \in DOMAIN c2 : i < j => c2[i] < c2[j]
      BY <1>3 DEF StreamInv, SeenInOrder, In!SeenInOrder
    <3> HIDE DEF c2
    <3>7. c2[1] < c2[Len(delivered')]
      BY <3>4, <3>5, <3>6
    <3>8. 1 < x
      BY <3>1, <3>5, <3>7, <2>2
    <3> QED BY <3>8
  <2>8. CASE c.kind = "login"
    <3>1. Login
      BY <2>4, <2>8
    <3>2. [Next]_vars /\ keepalives' = keepalives /\ open' = TRUE
      BY <3>1 DEF Next, Login
    <3>3. TypeOK'
      BY <1>2, <3>2, TypeStep
    <3> QED BY <3>2, <3>3, <1>3, <1>4, <1>6, <1>8 DEF SessionInv
  <2>9. CASE c.kind # "login"
    <3>1. state = "session" /\ open = TRUE
      <4>1. state = "session"
        BY <2>3, <2>6, <2>9, <1>5 DEF c
      <4> QED BY <4>1, <1>2 DEF SessionStateOK, TypeOK
    <3>2. [Next]_vars /\ keepalives' = keepalives /\ open' = open
      <4>1. CASE c.kind = "reply"
        <5>1. Reply(c.request, c.error) /\ c.error \in BOOLEAN
          BY <2>4, <2>5, <4>1
        <5>2. c.request \in pending
          BY <5>1 DEF Reply
        <5>3. Next
          BY <5>1, <5>2 DEF Next
        <5> QED BY <5>1, <5>3 DEF Reply
      <4>2. CASE c.kind = "notice"
        <5>1. UNCHANGED vars \/ \E error \in BOOLEAN : Unsolicited(error)
          BY <2>4, <4>2 DEF HandleNotice
        <5>2. CASE UNCHANGED vars
          BY <5>2 DEF vars
        <5>3. CASE \E error \in BOOLEAN : Unsolicited(error)
          BY <5>3 DEF Next, Unsolicited
        <5> QED BY <5>1, <5>2, <5>3
      <4> QED BY <2>5, <2>9, <4>1, <4>2
    <3>3. TypeOK'
      BY <1>2, <3>2, TypeStep
    <3> QED BY <3>1, <3>2, <3>3, <1>3, <1>4, <1>6, <1>8 DEF SessionInv
  <2> QED BY <2>8, <2>9
<1> QED BY <1>3, <1>7, <1>8

LEMMA StreamUnchanged ==
  ASSUME StreamInv, UNCHANGED streamVars
  PROVE  StreamInv'
<1>1. UNCHANGED <<sent, blanks, incoming, eof, buf, queued, delivered, state,
                  cancels, torn>>
  BY DEF streamVars
<1>2. StreamTypeOK' /\ LoginFirst'
  BY <1>1 DEF StreamInv, StreamTypeOK, LoginFirst
<1>3. Stream' = Stream /\ Seen' = Seen
  BY <1>1 DEF Stream, Seen
<1> QED BY <1>1, <1>2, <1>3, MovedStep

(* The session's own part of a step that leaves the pool's words alone.    *)
LEMMA QuietStep ==
  ASSUME SessionInv, [Next]_vars, StreamInv', contents' = contents, sent' = sent,
         state' = state, open' = open, keepalives' = keepalives,
         notices' = notices, drops' = drops
  PROVE  SessionInv'
<1>1. TypeOK'
  BY TypeStep DEF SessionInv
<1>2. ContentsOK'
  BY DEF SessionInv, ContentsOK
<1>3. SessionStateOK'
  BY DEF SessionInv, SessionStateOK
<1> QED BY <1>1, <1>2, <1>3 DEF SessionInv

(* The connection comes or goes.                                           *)
LEMMA FreshSessionStep ==
  ASSUME SessionInv, [Next]_vars, NEW s \in {"login", "closed"}, FreshStream(s),
         open' = FALSE, notices' = notices, keepalives' \in Nat,
         keepalives' + notices \in 0 .. MaxKeepalives,
         drops' \in 0 .. MaxDrops
  PROVE  SessionInv'
<1>1. TypeOK'
  BY TypeStep DEF SessionInv
<1>2. ContentsOK'
  <2>1. contents' = <<>> /\ sent' = 0
    BY DEF FreshStream
  <2>2. <<>> \in Seq(Sayings) /\ Len(<<>>) = 0 /\ DOMAIN <<>> = {}
    OBVIOUS
  <2> QED BY <2>1, <2>2 DEF ContentsOK
<1>3. SessionStateOK'
  <2>1. state' = s
    BY DEF FreshStream
  <2> QED BY <2>1 DEF SessionInv, SessionStateOK
<1>4. StreamInv'
  BY FreshStep
<1> QED BY <1>1, <1>2, <1>3, <1>4 DEF SessionInv

(* A request is written, or its write fails.                               *)
LEMMA WrittenStep ==
  ASSUME SessionInv, [Next]_vars, Written, open,
         open' \in BOOLEAN, keepalives' \in Nat,
         keepalives' + notices \in 0 .. MaxKeepalives
  PROVE  SessionInv'
<1>1. CASE open' /\ In!Cancel /\ UNCHANGED <<contents, notices, drops>>
  <2>1. StreamInv'
    BY <1>1, CancelStep DEF SessionInv
  <2>2. state' = state /\ sent' = sent /\ state = "session"
    BY <1>1 DEF In!Cancel, In!poolVars
  <2>3. TypeOK'
    BY TypeStep DEF SessionInv
  <2>4. ContentsOK'
    BY <1>1, <2>2 DEF SessionInv, ContentsOK
  <2>5. SessionStateOK'
    BY <1>1, <2>2 DEF SessionInv, SessionStateOK
  <2> QED BY <2>1, <2>3, <2>4, <2>5 DEF SessionInv
<1>2. CASE ~open' /\ Drop /\ FreshStream("closed") /\ UNCHANGED notices
  <2>1. drops' \in 0 .. MaxDrops
    BY <1>2, SessionBoundsAssumption DEF SessionInv, SessionStateOK, Drop
  <2>2. open' = FALSE
    BY <1>2
  <2> QED BY <1>2, <2>1, <2>2, FreshSessionStep
<1> QED BY <1>1, <1>2 DEF Written

(* The pool says something.                                                *)
LEMMA SayStep ==
  ASSUME SessionInv, NEW n \in 0 .. MaxPerLine, NEW new \in [1 .. n -> Sayings],
         Say(new), notices' \in Nat, keepalives + notices' <= MaxKeepalives,
         \A i \in 1 .. n : new[i].kind = "login" <=> Len(contents) + i = 1
  PROVE  SessionInv' /\ [Next]_vars
<1>1. n \in Nat /\ new \in Seq(Sayings) /\ Len(new) = n
  BY PerLineAssumption
<1>2. /\ In!SendLine(n) /\ contents' = contents \o new
      /\ UNCHANGED <<vars, drops>>
  BY <1>1 DEF Say
<1>3. StreamInv'
  BY <1>2, SendStep DEF SessionInv
<1>4. sent' = sent + n /\ state' = state
  BY <1>2 DEF In!SendLine
<1>5. [Next]_vars /\ keepalives' = keepalives /\ open' = open
  BY <1>2 DEF vars
<1>6. TypeOK'
  BY <1>5, TypeStep DEF SessionInv
<1>7. ContentsOK'
  <2> DEFINE c == contents \o new
             l == Len(contents)
  <2>1. /\ contents \in Seq(Sayings) /\ l = sent
        /\ \A i \in DOMAIN contents : contents[i].kind = "login" <=> i = 1
    BY DEF SessionInv, ContentsOK
  <2>2. /\ c \in Seq(Sayings) /\ l \in Nat
        /\ Len(c) = l + n
        /\ \A i \in 1 .. l : c[i] = contents[i]
        /\ \A i \in 1 .. n : c[l + i] = new[i]
        /\ \A i \in 1 .. l + n : i \in 1 .. l \/ i - l \in 1 .. n
    <3>1. /\ c \in Seq(Sayings) /\ l \in Nat
          /\ Len(c) = l + Len(new)
          /\ \A i \in 1 .. l : c[i] = contents[i]
          /\ \A i \in 1 .. Len(new) : c[l + i] = new[i]
          /\ \A i \in 1 .. l + Len(new) : i \in 1 .. l \/ i - l \in 1 .. Len(new)
      <4>1. contents \in Seq(Sayings) /\ new \in Seq(Sayings)
        BY <1>1, <2>1
      <4> QED BY ONLY <4>1, ConcatAt
    <3> QED BY <3>1, <1>1
  <2>3. DOMAIN c = 1 .. l + n /\ DOMAIN contents = 1 .. l
    BY <2>1, <2>2, LenProperties
  <2> HIDE DEF c, l
  <2>4. ASSUME NEW i \in DOMAIN c PROVE c[i].kind = "login" <=> i = 1
    <3>1. CASE i \in 1 .. l
      BY <3>1, <2>1, <2>2, <2>3
    <3>2. CASE i - l \in 1 .. n
      <4>1. i = l + (i - l)
        BY <2>2, <2>3
      <4>2. c[i] = new[i - l]
        BY <3>2, <4>1, <2>2
      <4>3. c[i].kind = "login" <=> l + (i - l) = 1
        BY <3>2, <4>2 DEF l
      <4> QED BY <4>1, <4>3
    <3> QED BY <3>1, <3>2, <2>2, <2>3
  <2>5. contents' = c /\ sent' = l + n
    BY <1>2, <1>4, <2>1 DEF c
  <2> QED BY <2>2, <2>4, <2>5 DEF ContentsOK
<1>8. SessionStateOK'
  <2>1. keepalives + notices' \in 0 .. MaxKeepalives
    BY BoundsAssumption DEF SessionInv, TypeOK
  <2> QED BY <2>1, <1>2, <1>4, <1>5 DEF SessionInv, SessionStateOK
<1> QED BY <1>3, <1>5, <1>6, <1>7, <1>8 DEF SessionInv

LEMMA PoolSaysStep ==
  ASSUME SessionInv, PoolSays
  PROVE  SessionInv' /\ [Next]_vars
<1>1. PICK n \in 0 .. MaxPerLine : \E new \in [1 .. n -> Replies \cup {Notice}] :
         LET said == {i \in 1 .. n : new[i] = Notice}
         IN /\ keepalives + notices + Cardinality(said) <= MaxKeepalives
            /\ notices' = notices + Cardinality(said)
            /\ Say(new)
  BY DEF PoolSays
<1>2. PICK new \in [1 .. n -> Replies \cup {Notice}] :
         LET said == {i \in 1 .. n : new[i] = Notice}
         IN /\ keepalives + notices + Cardinality(said) <= MaxKeepalives
            /\ notices' = notices + Cardinality(said)
            /\ Say(new)
  BY <1>1
<1> DEFINE said == {i \in 1 .. n : new[i] = Notice}
<1>3. Cardinality(said) \in Nat
  <2>1. IsFiniteSet(1 .. n)
    BY FS_Interval
  <2>2. IsFiniteSet(said)
    BY <2>1, FS_Subset
  <2> QED BY <2>2, FS_CardinalityType
<1>4. /\ keepalives + notices + Cardinality(said) <= MaxKeepalives
      /\ notices' = notices + Cardinality(said)
      /\ Say(new)
  BY <1>2
<1> HIDE DEF said
<1>5. keepalives \in Nat /\ notices \in Nat
  BY DEF SessionInv, SessionStateOK, TypeOK
<1>6. notices' \in Nat /\ keepalives + notices' <= MaxKeepalives
  BY <1>3, <1>4, <1>5
<1>7. \A c \in Replies \cup {Notice} : c \in Sayings /\ c.kind # "login"
  <2>1. Notice \in Sayings /\ Notice.kind # "login"
    BY DEF Notice, Sayings
  <2>2. pending \subseteq Requests
    BY DEF SessionInv, TypeOK
  <2>3. \A c \in Replies : c \in [kind : {"reply"}, request : pending, error : BOOLEAN]
    BY DEF Replies
  <2>4. \A c \in [kind : {"reply"}, request : pending, error : BOOLEAN] :
          /\ c \in [kind : {"reply"}, request : Requests, error : BOOLEAN]
          /\ c.kind = "reply"
    BY <2>2
  <2> QED BY <2>1, <2>3, <2>4 DEF Sayings
<1>8. new \in [1 .. n -> Sayings] /\ \A i \in 1 .. n : new[i].kind # "login"
  BY <1>7
<1>9. Len(contents) \in Nat /\ Len(contents) # 0
  BY LenProperties, EmptySeq DEF SessionInv, ContentsOK, PoolSays
<1>10. \A i \in 1 .. n : new[i].kind = "login" <=> Len(contents) + i = 1
  BY <1>8, <1>9
<1> QED BY <1>4, <1>6, <1>8, <1>10, SayStep

LEMMA PoolLogsInStep ==
  ASSUME SessionInv, PoolLogsIn
  PROVE  SessionInv' /\ [Next]_vars
<1> DEFINE new == <<[kind |-> "login"]>>
<1>1. contents = <<>> /\ Say(new) /\ notices' = notices
  BY DEF PoolLogsIn
<1>2. 1 \in 0 .. MaxPerLine
  BY PerLineAssumption
<1>3. new \in [1 .. 1 -> Sayings] /\ \A i \in 1 .. 1 : i = 1 /\ new[i].kind = "login"
  <2>1. [kind |-> "login"] \in Sayings /\ [kind |-> "login"].kind = "login"
    BY DEF Sayings
  <2>2. \A i \in 1 .. 1 : i = 1
    OBVIOUS
  <2>3. new = [i \in 1 .. 1 |-> [kind |-> "login"]]
    OBVIOUS
  <2> QED BY <2>1, <2>2, <2>3
<1> HIDE DEF new
<1>4. Len(contents) = 0
  BY <1>1
<1>5. \A i \in 1 .. 1 : new[i].kind = "login" <=> Len(contents) + i = 1
  BY <1>3, <1>4
<1>6. notices' \in Nat /\ keepalives + notices' <= MaxKeepalives
  BY <1>1, BoundsAssumption DEF SessionInv, SessionStateOK, TypeOK
<1> QED BY <1>1, <1>2, <1>3, <1>5, <1>6, SayStep

(* Every step of the session is one of the flow of shares, and keeps what  *)
(* holds of the session.                                                   *)
LEMMA SessionStep ==
  ASSUME SessionInv, [SessionNext]_sessionVars
  PROVE  SessionInv' /\ [Next]_vars
<1>0. /\ StreamInv /\ keepalives \in Nat /\ notices \in Nat /\ open \in BOOLEAN
      /\ keepalives + notices \in 0 .. MaxKeepalives /\ drops \in 0 .. MaxDrops
      /\ MaxKeepalives \in Nat /\ MaxDrops \in Nat
      /\ open <=> (state = "session")
  BY BoundsAssumption, SessionBoundsAssumption
     DEF SessionInv, SessionStateOK, TypeOK
<1>1. CASE Find
  <2>1. FindShare /\ UNCHANGED <<streamVars, contents, notices, drops>>
    BY <1>1 DEF Find
  <2>2. [Next]_vars /\ open' = open /\ keepalives' = keepalives
    BY <2>1 DEF Next, FindShare
  <2>3. StreamInv' /\ sent' = sent /\ state' = state
    BY <2>1, <1>0, StreamUnchanged DEF streamVars
  <2> QED BY <2>1, <2>2, <2>3, QuietStep
<1>2. CASE Connect
  <2>1. ~Connected /\ FreshStream("login") /\ UNCHANGED <<vars, notices, drops>>
    BY <1>2 DEF Connect
  <2>2. [Next]_vars /\ open' = FALSE /\ keepalives' = keepalives
    BY <2>1, <1>0 DEF vars, Connected
  <2> QED BY <2>1, <2>2, <1>0, FreshSessionStep
<1>3. CASE Read
  BY <1>3, ReadStep
<1>4. CASE Submit
  <2>1. SubmitShare /\ Written
    BY <1>4 DEF Submit
  <2>2. [Next]_vars /\ open /\ keepalives' = keepalives
    BY <2>1 DEF Next, SubmitShare
  <2>3. open' \in BOOLEAN
    <3>1. TypeOK'
      BY <2>2, TypeStep DEF SessionInv
    <3> QED BY <3>1 DEF TypeOK
  <2> QED BY <2>1, <2>2, <2>3, <1>0, WrittenStep
<1>5. CASE KeepAlive
  <2>1. keepalives + notices < MaxKeepalives /\ SendKeepalive /\ Written
    BY <1>5 DEF KeepAlive
  <2>2. [Next]_vars /\ open /\ keepalives' = keepalives + 1
    BY <2>1 DEF Next, SendKeepalive
  <2>3. open' \in BOOLEAN
    <3>1. TypeOK'
      BY <2>2, TypeStep DEF SessionInv
    <3> QED BY <3>1 DEF TypeOK
  <2>4. keepalives' \in Nat /\ keepalives' + notices \in 0 .. MaxKeepalives
    BY <2>1, <2>2, <1>0
  <2> QED BY <2>1, <2>2, <2>3, <2>4, WrittenStep
<1>6. CASE Leave
  <2>1. SessionEnds /\ Drop /\ FreshStream("closed") /\ UNCHANGED notices
    BY <1>6 DEF Leave
  <2>2. [Next]_vars /\ open' = FALSE /\ keepalives' = keepalives
    BY <2>1 DEF Next, SessionEnds, Close
  <2>3. drops' \in 0 .. MaxDrops
    BY <2>1, <1>0 DEF Drop
  <2> QED BY <2>1, <2>2, <2>3, <1>0, FreshSessionStep
<1>7. CASE PoolLogsIn
  BY <1>7, PoolLogsInStep
<1>8. CASE PoolSays
  BY <1>8, PoolSaysStep
<1>9. CASE PoolTakes
  <2>1. PoolReceives /\ UNCHANGED <<streamVars, contents, notices, drops>>
    BY <1>9 DEF PoolTakes
  <2>2. [Next]_vars /\ open' = open /\ keepalives' = keepalives
    BY <2>1 DEF Next, PoolReceives
  <2>3. StreamInv' /\ sent' = sent /\ state' = state
    BY <2>1, <1>0, StreamUnchanged DEF streamVars
  <2> QED BY <2>1, <2>2, <2>3, QuietStep
<1>10. CASE PoolCloses
  <2>1. Drop /\ In!CloseWire /\ UNCHANGED <<vars, contents, notices>>
    BY <1>10 DEF PoolCloses
  <2>2. /\ [Next]_vars /\ open' = open /\ keepalives' = keepalives
    BY <2>1 DEF vars
  <2>3. StreamInv' /\ sent' = sent /\ state' = state
    BY <2>1, <1>0, CloseStep DEF In!CloseWire
  <2>4. drops' \in 0 .. MaxDrops
    BY <2>1, <1>0 DEF Drop
  <2>5. TypeOK'
    BY <2>2, TypeStep DEF SessionInv
  <2>6. ContentsOK'
    BY <2>1, <2>3 DEF SessionInv, ContentsOK
  <2>7. SessionStateOK'
    BY <2>1, <2>2, <2>3, <2>4 DEF SessionInv, SessionStateOK
  <2> QED BY <2>2, <2>3, <2>5, <2>6, <2>7 DEF SessionInv
<1>11. CASE UNCHANGED sessionVars
  <2>1. UNCHANGED <<vars, streamVars, contents, notices, drops>>
    BY <1>11 DEF sessionVars
  <2>2. [Next]_vars /\ open' = open /\ keepalives' = keepalives
    BY <2>1 DEF vars
  <2>3. StreamInv' /\ sent' = sent /\ state' = state
    BY <2>1, <1>0, StreamUnchanged DEF streamVars
  <2> QED BY <2>1, <2>2, <2>3, QuietStep
<1>12. CASE LoginRefused
  <2>1. /\ state = "login" /\ Drop /\ FreshStream("closed")
        /\ UNCHANGED <<vars, notices>>
    BY <1>12 DEF LoginRefused
  <2>2. [Next]_vars /\ open' = FALSE /\ keepalives' = keepalives
    BY <2>1, <1>0 DEF vars
  <2>3. drops' \in 0 .. MaxDrops
    BY <2>1, <1>0 DEF Drop
  <2> QED BY <2>1, <2>2, <2>3, <1>0, FreshSessionStep
<1> QED
  BY <1>1, <1>2, <1>3, <1>4, <1>5, <1>6, <1>7, <1>8, <1>9, <1>10, <1>11, <1>12
  DEF SessionNext

LEMMA SessionStarts == SessionInit => SessionInv
<1> SUFFICES ASSUME SessionInit PROVE SessionInv
  OBVIOUS
<1>1. /\ Init /\ sent = 0 /\ blanks = 0 /\ eof = FALSE
      /\ incoming = <<>> /\ buf = <<>> /\ queued = <<>> /\ delivered = <<>>
      /\ state = "closed" /\ cancels = 0 /\ torn = {} /\ contents = <<>>
      /\ notices = 0 /\ drops = 0
  BY DEF SessionInit
<1>2. TypeOK
  BY <1>1, TypeInit
<1>3. /\ DOMAIN <<>> = {} /\ \A S : <<>> \in Seq(S)
      /\ Len(<<>>) = 0 /\ <<>> \o <<>> = <<>>
  OBVIOUS
<1>4. Stream = <<>> /\ Seen = <<>> /\ RangeOf(Seen) = {}
  BY <1>1, <1>3 DEF Stream, Seen, RangeOf
<1>5. StreamTypeOK
  <2>1. MaxMessages \in Nat /\ MaxBlanks \in Nat /\ MaxShares + MaxKeepalives \in Nat
    BY BoundsAssumption, SessionBoundsAssumption DEF MaxMessages
  <2>2. sent \in 0 .. MaxMessages /\ blanks \in 0 .. MaxBlanks
        /\ cancels \in 0 .. MaxShares + MaxKeepalives
    BY <1>1, <2>1
  <2>3. /\ incoming \in Seq(Units) /\ buf \in Seq(Halves)
        /\ queued \in Seq(1 .. sent) /\ delivered \in Seq(1 .. sent)
    BY <1>1, <1>3
  <2>4. eof \in BOOLEAN /\ torn \subseteq 1 .. sent
    BY <1>1
  <2>5. Len(queued) < MaxPerLine
    BY <1>1, <1>3, PerLineAssumption
  <2> QED BY <2>2, <2>3, <2>4, <2>5 DEF StreamTypeOK
<1>6. WellFormed(Stream, sent)
  <2>1. WellFormed(<<>>, 0)
    BY <1>3 DEF WellFormed, Numbers1To, Increases, RunsAreWhole, LinesEnd,
                EndsInNewline
  <2> QED BY <1>1, <1>4, <2>1
<1>7. StartsWhole /\ SeenIsEarlier
  BY <1>3, <1>4 DEF StartsWhole, SeenIsEarlier
<1>8. SeenInOrder
  BY <1>3, <1>4 DEF SeenInOrder, In!SeenInOrder, Seen
<1>9. NothingMissing /\ LoginFirst
  BY <1>1 DEF NothingMissing, Connected, LoginFirst
<1>10. OnlyTornAreLost
  BY <1>1, <1>4 DEF OnlyTornAreLost, In!OnlyTornAreLost, In!RangeOf, Seen, RangeOf
<1>11. ContentsOK
  BY <1>1, <1>3 DEF ContentsOK
<1>12. SessionStateOK
  BY <1>1, BoundsAssumption, SessionBoundsAssumption DEF SessionStateOK, Init
<1> QED
  BY <1>2, <1>5, <1>6, <1>7, <1>8, <1>9, <1>10, <1>11, <1>12
  DEF SessionInv, StreamInv

-----------------------------------------------------------------------------
(* The theorems.                                                           *)

LEMMA SessionTypes == SessionInv => SessionTypeOK
<1> SUFFICES ASSUME SessionInv PROVE SessionTypeOK
  OBVIOUS
<1>1. state = "closed" \/ In!TypeOK
  BY DEF SessionInv, StreamInv, StreamTypeOK, SessionStateOK, In!TypeOK,
         Units, Halves
<1> QED
  BY <1>1 DEF SessionInv, SessionTypeOK, ContentsOK, SessionStateOK

(* The inductive invariant of the session.                                 *)
THEOREM SessionIsInvariant == SessionSpec => []SessionInv
BY SessionStarts, SessionStep, PTL DEF SessionSpec

(* Type correctness, for every number of messages in a line and every      *)
(* bound: the session is past its login exactly when shares may flow, and  *)
(* never more of a line is queued than the line's other messages.          *)
THEOREM SessionTypeCorrect == SessionSpec => []SessionTypeOK
BY SessionIsInvariant, SessionTypes, PTL

(* read_line returns the messages in the order the pool sent them and none *)
(* twice, however lines are cut up, filled and dropped.                    *)
THEOREM MessagesInOrder == SessionSpec => []SeenInOrder
<1>1. SessionInv => SeenInOrder
  BY DEF SessionInv, StreamInv
<1> QED BY <1>1, SessionIsInvariant, PTL

(* Only a message of which a dropped read had a part is lost, and only     *)
(* such a loss or the pool's closing makes a read fail.                    *)
THEOREM LossesAreTorn == SessionSpec => []OnlyTornAreLost
<1>1. SessionInv => OnlyTornAreLost
  BY DEF SessionInv, StreamInv
<1> QED BY <1>1, SessionIsInvariant, PTL

(* The session implements the flow of shares step by step: every step of   *)
(* its stream, its select! loop and its pool is one of ShareFlow's or      *)
(* leaves that alone.  (That it is fair to the flow is left to TLC.)       *)
THEOREM SessionImplementsFlow == SessionSpec => Init /\ [][Next]_vars
<1>1. SessionInit => Init
  BY DEF SessionInit
<1>2. SessionInv /\ [SessionNext]_sessionVars => [Next]_vars
  BY SessionStep
<1> QED BY <1>1, <1>2, SessionIsInvariant, PTL DEF SessionSpec

(* What the flow of shares keeps, the session does.                        *)
THEOREM SessionKeepsFlow == SessionSpec => []FlowInv
<1>1. Init /\ [][Next]_vars => []FlowInv
  BY FlowInit, FlowStep, PTL
<1> QED BY <1>1, SessionImplementsFlow, PTL

(* Across any number of sessions the pools receive the shares in the order *)
(* they were found and none twice.                                         *)
THEOREM ArrivalsInOrder == SessionSpec => []ArriveInOrderOnce
<1>1. FlowInv => ArriveInOrderOnce
  BY DEF FlowInv, ArrivalOrder
<1> QED BY <1>1, SessionKeepsFlow, PTL

(* No share is lost from the channel or written twice.                     *)
THEOREM SharesAreConserved == SessionSpec => []SharesConserved
<1>1. FlowInv => SharesConserved
  BY DEF FlowInv
<1> QED BY <1>1, SessionKeepsFlow, PTL

(* The counters exceed the pools' verdicts by no more than there were      *)
(* answers to something else.                                              *)
THEOREM CountsStayBounded == SessionSpec => []CountsAreBounded
BY SessionKeepsFlow, FlowCounts, PTL
=============================================================================
