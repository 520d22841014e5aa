--------------------------- MODULE ShareFlowProofs ---------------------------
(***************************************************************************)
(* What holds of ShareFlow for every capacity of the channel and any       *)
(* number of shares, sessions, keepalives and unsolicited messages.        *)
(***************************************************************************)
EXTENDS ShareFlow, SequenceTheorems, FiniteSetTheorems, TLAPS

-----------------------------------------------------------------------------
(* Sequences and sets of requests.                                         *)

(* What a sequence holds, seen from its domain.                            *)
LEMMA RangeOfAppend ==
  ASSUME NEW S, NEW s \in Seq(S), NEW e \in S
  PROVE  RangeOf(Append(s, e)) = RangeOf(s) \cup {e}
<1>1. /\ DOMAIN s = 1 .. Len(s) /\ Len(s) \in Nat
      /\ DOMAIN Append(s, e) = 1 .. Len(s) + 1
  BY AppendProperties, LenProperties
<1>2. \A i \in 1 .. Len(s) : Append(s, e)[i] = s[i]
  BY AppendProperties
<1>3. Append(s, e)[Len(s) + 1] = e
  BY AppendProperties
<1> QED BY <1>1, <1>2, <1>3 DEF RangeOf

LEMMA RangeOfTail ==
  ASSUME NEW S, NEW s \in Seq(S), s # <<>>
  PROVE  /\ Head(s) \in S
         /\ RangeOf(s) = {Head(s)} \cup RangeOf(Tail(s))
<1>1. /\ DOMAIN s = 1 .. Len(s) /\ Len(s) \in Nat \ {0}
      /\ DOMAIN Tail(s) = 1 .. Len(s) - 1
      /\ Head(s) = s[1]
  BY HeadTailProperties, LenProperties, EmptySeq
<1>2. \A i \in 1 .. Len(s) - 1 : Tail(s)[i] = s[i + 1]
  BY HeadTailProperties
<1>3. \A i \in 1 .. Len(s) : i = 1 \/ (i - 1 \in 1 .. Len(s) - 1 /\ i = (i - 1) + 1)
  BY <1>1
<1>4. RangeOf(s) \subseteq {Head(s)} \cup RangeOf(Tail(s))
  <2> SUFFICES ASSUME NEW i \in 1 .. Len(s)
               PROVE  s[i] = Head(s) \/ s[i] \in RangeOf(Tail(s))
    BY <1>1 DEF RangeOf
  <2>1. CASE i = 1
    BY <2>1, <1>1
  <2>2. CASE i # 1
    <3>1. i - 1 \in DOMAIN Tail(s) /\ Tail(s)[i - 1] = s[i]
      BY <2>2, <1>1, <1>2, <1>3
    <3> QED BY <3>1 DEF RangeOf
  <2> QED BY <2>1, <2>2
<1>5. {Head(s)} \cup RangeOf(Tail(s)) \subseteq RangeOf(s)
  <2>1. 1 \in DOMAIN s
    BY <1>1
  <2>2. \A i \in DOMAIN Tail(s) : i + 1 \in DOMAIN s
    BY <1>1
  <2> QED BY <2>1, <2>2, <1>1, <1>2 DEF RangeOf
<1> QED BY <1>4, <1>5, HeadTailProperties

(* The size of a set that gains or loses at most one element.              *)
LEMMA CountGrows ==
  ASSUME NEW S, IsFiniteSet(S), NEW x, NEW T, T \subseteq S \cup {x}
  PROVE  /\ IsFiniteSet(T)
         /\ Cardinality(T) \in Nat
         /\ Cardinality(T) <= Cardinality(S) + 1
<1>1. /\ IsFiniteSet(S \cup {x})
      /\ Cardinality(S \cup {x}) <= Cardinality(S) + 1
      /\ Cardinality(S) \in Nat
  BY FS_AddElement, FS_CardinalityType
<1>2. /\ IsFiniteSet(T)
      /\ Cardinality(T) <= Cardinality(S \cup {x})
  BY <1>1, FS_Subset
<1> QED BY <1>1, <1>2, FS_CardinalityType

LEMMA CountKept ==
  ASSUME NEW S, IsFiniteSet(S), NEW T, T \subseteq S
  PROVE  /\ IsFiniteSet(T)
         /\ Cardinality(T) \in Nat
         /\ Cardinality(T) <= Cardinality(S)
BY FS_Subset, FS_CardinalityType

LEMMA CountShrinks ==
  ASSUME NEW S, IsFiniteSet(S), NEW x \in S
  PROVE  /\ IsFiniteSet(S \ {x})
         /\ Cardinality(S \ {x}) \in Nat
         /\ Cardinality(S \ {x}) + 1 = Cardinality(S)
<1>1. Cardinality(S) \in Nat /\ Cardinality(S \ {x}) = Cardinality(S) - 1
  BY FS_RemoveElement, FS_CardinalityType
<1>2. IsFiniteSet(S \ {x}) /\ Cardinality(S \ {x}) \in Nat
  BY FS_RemoveElement, FS_CardinalityType
<1> QED BY <1>1, <1>2

(* A share is not the number of a keepalive.                               *)
LEMMA ShareNumbers ==
  /\ Shares \subseteq 0 .. MaxShares
  /\ 0 \notin Shares
  /\ IsFiniteSet(Shares)
BY BoundsAssumption, FS_Interval DEF Shares

-----------------------------------------------------------------------------
(* Types.                                                                  *)

LEMMA WriteType ==
  ASSUME TypeOK, NEW s \in 0 .. MaxShares, Write(s)
  PROVE  /\ wire' \in Seq(Requests)
         /\ seq' \in Nat
         /\ [id |-> seq, share |-> s] \in Requests
<1>1. [id |-> seq, share |-> s] \in Requests
  BY DEF TypeOK, Requests
<1> QED BY <1>1, AppendProperties DEF TypeOK, Write

LEMMA CloseType ==
  ASSUME Close
  PROVE  wire' \in Seq(Requests) /\ pending' \subseteq Requests
BY EmptySeq DEF Close

LEMMA TypeStep == TypeOK /\ [Next]_vars => TypeOK'
<1> SUFFICES ASSUME TypeOK, [Next]_vars PROVE TypeOK'
  OBVIOUS
<1> USE DEF TypeOK, channelVars, poolVars, statsVars
<1>1. CASE FindShare
  <2>1. found' \in 0 .. MaxShares /\ found + 1 \in Shares
    BY <1>1, BoundsAssumption DEF FindShare, Shares
  <2>2. queue' \in Seq(Shares) /\ Len(queue') <= Capacity
    BY <1>1, <2>1, CapacityAssumption, AppendProperties, LenProperties
    DEF FindShare
  <2> QED BY <1>1, <2>1, <2>2 DEF FindShare
<1>2. CASE Login
  BY <1>2 DEF Login
<1>3. CASE SessionEnds
  BY <1>3, CloseType DEF SessionEnds, Close
<1>4. CASE SubmitShare
  <2>1. /\ Head(queue) \in Shares
        /\ queue' \in Seq(Shares) /\ Len(queue') <= Capacity
    BY <1>4, HeadTailProperties, LenProperties, CapacityAssumption
    DEF SubmitShare
  <2>2. attempts' \in Seq(Shares)
    BY <1>4, <2>1, AppendProperties DEF SubmitShare
  <2>3. arrived' \in Seq(Shares)
    <3>1. Append(arrived, Head(queue)) \in Seq(Shares)
      BY <2>1, AppendProperties
    <3> QED BY <1>4, <3>1 DEF SubmitShare
  <2>4. CASE Write(Head(queue))
    BY <1>4, <2>1, <2>2, <2>3, <2>4, WriteType, ShareNumbers
    DEF SubmitShare, Write
  <2>5. CASE WriteFails
    BY <1>4, <2>1, <2>2, <2>3, <2>5, CloseType
    DEF SubmitShare, WriteFails, Close
  <2> QED BY <1>4, <2>4, <2>5 DEF SubmitShare
<1>5. CASE SendKeepalive
  <2>1. keepalives' \in Nat
    BY <1>5 DEF SendKeepalive
  <2>2. CASE Write(0)
    <3>1. 0 \in 0 .. MaxShares
      BY BoundsAssumption
    <3>2. wire' \in Seq(Requests) /\ seq' \in Nat
      BY <2>2, <3>1, WriteType
    <3> QED BY <1>5, <2>1, <2>2, <3>2 DEF SendKeepalive, Write
  <2>3. CASE WriteFails
    BY <1>5, <2>1, <2>3, CloseType DEF SendKeepalive, WriteFails, Close
  <2> QED BY <1>5, <2>2, <2>3 DEF SendKeepalive
<1>6. CASE PoolReceives
  <2>1. Head(wire) \in Requests /\ wire' \in Seq(Requests)
    BY <1>6, HeadTailProperties DEF PoolReceives
  <2>2. arrived' \in Seq(Shares) /\ good' \subseteq Shares
    <3>1. CASE Head(wire).share = 0
      BY <1>6, <3>1 DEF PoolReceives
    <3>2. CASE Head(wire).share # 0
      <4>1. Head(wire).share \in Shares
        BY <2>1, <3>2, BoundsAssumption, SMTT(30) DEF Requests, Shares
      <4>2. Append(arrived, Head(wire).share) \in Seq(Shares)
        BY <4>1, AppendProperties
      <4>3. /\ arrived' = Append(arrived, Head(wire).share)
            /\ good' \in {good, good \cup {Head(wire).share}}
        BY <1>6, <3>2 DEF PoolReceives
      <4> QED BY <4>1, <4>2, <4>3
    <3> QED BY <3>1, <3>2
  <2> QED BY <1>6, <2>1, <2>2 DEF PoolReceives
<1>7. ASSUME NEW r \in pending, NEW error \in BOOLEAN, Reply(r, error)
      PROVE  TypeOK'
  BY <1>7 DEF Reply, CountReply
<1>8. ASSUME NEW error \in BOOLEAN, Unsolicited(error)
      PROVE  TypeOK'
  <2>1. accepted' \in Nat /\ rejected' \in Nat /\ unsolicited' \in Nat
    BY <1>8 DEF Unsolicited, CountReply
  <2> QED BY <1>8, <2>1 DEF Unsolicited, channelVars, poolVars
<1>9. CASE UNCHANGED vars
  BY <1>9 DEF vars
<1> QED
  BY <1>1, <1>2, <1>3, <1>4, <1>5, <1>6, <1>7, <1>8, <1>9 DEF Next

LEMMA TypeInit == Init => TypeOK
<1> SUFFICES ASSUME Init PROVE TypeOK
  OBVIOUS
<1>1. /\ <<>> \in Seq(Shares) /\ <<>> \in Seq(Requests)
      /\ Len(<<>>) = 0
  BY EmptySeq
<1>2. 0 \in 0 .. MaxShares /\ 0 <= Capacity
  BY CapacityAssumption, BoundsAssumption
<1>3. /\ queue \in Seq(Shares) /\ Len(queue) <= Capacity
      /\ attempts \in Seq(Shares) /\ arrived \in Seq(Shares)
  BY <1>1, <1>2 DEF Init
<1>4. wire \in Seq(Requests)
  BY <1>1 DEF Init
<1>5. open \in BOOLEAN
  BY DEF Init
<1>6. pending \subseteq Requests /\ good \subseteq Shares
  BY DEF Init
<1>7. {accepted, rejected, keepalives, unsolicited} \subseteq Nat /\ seq \in Nat
  BY DEF Init
<1>8. found \in 0 .. MaxShares
  BY <1>2 DEF Init
<1> QED
  BY <1>3, <1>4, <1>5, <1>6, <1>7, <1>8 DEF TypeOK
(* Type correctness, for every capacity and every number of shares.        *)
THEOREM TypeCorrect == Spec => []TypeOK
BY TypeInit, TypeStep, PTL DEF Spec

-----------------------------------------------------------------------------
(* The inductive invariant.                                                *)

(* A connection that is down carries nothing.                              *)
ClosedIsEmpty == ~open => wire = <<>> /\ pending = {}

(* What the pool has received precedes what is on the wire, and that what  *)
(* is yet in the channel: attempts counts the shares that have left it.    *)
ArrivalOrder ==
  /\ ArriveInOrderOnce
  /\ \A i \in DOMAIN arrived : arrived[i] <= Len(attempts)
  /\ \A j \in DOMAIN wire :
       /\ wire[j].share <= Len(attempts)
       /\ wire[j].share # 0 =>
            \A i \in DOMAIN arrived : arrived[i] < wire[j].share
  /\ \A i, j \in DOMAIN wire :
       i < j /\ wire[i].share # 0 /\ wire[j].share # 0
         => wire[i].share < wire[j].share

(* A session's requests have different ids, and the pool receives them in  *)
(* the order of these.                                                     *)
IdsGrow ==
  /\ \A j \in DOMAIN wire : wire[j].id < seq
  /\ \A r \in pending : r.id < seq
  /\ \A i, j \in DOMAIN wire : i < j => wire[i].id < wire[j].id
  /\ \A r \in pending, j \in DOMAIN wire : r.id < wire[j].id

(* Verdicts outstanding, those of them that accept and that reject, and    *)
(* the keepalives not answered.                                            *)
Verdicts == {r \in pending : r.share \in Shares}
Accepts == {r \in pending : r.share \in good}
Rejects == {r \in pending : r.share \in Bad}
Pings == {r \in pending \cup RangeOf(wire) : r.share = 0}

(* A verdict is counted or outstanding, of a share the pool has.           *)
Judged ==
  /\ good \subseteq RangeOf(arrived)
  /\ \A r \in pending : r.share \in RangeOf(arrived) \cup {0}
  /\ IsFiniteSet(pending) /\ IsFiniteSet(Pings)
AcceptsCovered ==
  accepted + Cardinality(Accepts) + Cardinality(Pings)
    <= Cardinality(good) + Others
RejectsCovered ==
  rejected + Cardinality(Rejects) + Cardinality(Pings)
    <= Cardinality(Bad) + Others
VerdictsCovered ==
  accepted + rejected + Cardinality(Verdicts) + Cardinality(Pings)
    <= Len(arrived) + Others
Ledger == Judged /\ AcceptsCovered /\ RejectsCovered /\ VerdictsCovered

FlowInv ==
  TypeOK /\ ClosedIsEmpty /\ SharesConserved /\ ArrivalOrder /\ IdsGrow /\ Ledger

-----------------------------------------------------------------------------
(* Conservation.                                                           *)

(* The numbers 1 .. n cut in two: what each of the parts holds where.      *)
LEMMA Numbered ==
  ASSUME NEW S, NEW a \in Seq(S), NEW q \in Seq(S), NEW n \in Nat
  PROVE  (a \o q = [i \in 1 .. n |-> i])
           <=> /\ Len(a) + Len(q) = n
               /\ \A i \in 1 .. Len(a) : a[i] = i
               /\ \A i \in 1 .. Len(q) : q[i] = Len(a) + i
<1> DEFINE c == a \o q
           f == [i \in 1 .. n |-> i]
<1>1. /\ c \in Seq(S) /\ Len(c) = Len(a) + Len(q)
      /\ DOMAIN c = 1 .. Len(a) + Len(q)
      /\ \A i \in 1 .. Len(a) + Len(q) :
           c[i] = IF i <= Len(a) THEN a[i] ELSE q[i - Len(a)]
      /\ Len(a) \in Nat /\ Len(q) \in Nat
      /\ c = [i \in 1 .. Len(a) + Len(q) |-> c[i]]
  BY ConcatProperties, LenProperties
<1> HIDE DEF c
<1>2. ASSUME c = f
      PROVE  /\ Len(a) + Len(q) = n
             /\ \A i \in 1 .. Len(a) : a[i] = i
             /\ \A i \in 1 .. Len(q) : q[i] = Len(a) + i
  <2>1. 1 .. n = 1 .. Len(a) + Len(q)
    BY <1>1, <1>2
  <2>2. Len(a) + Len(q) = n
    <3> DEFINE m == Len(a) + Len(q)
    <3>1. m \in Nat
      BY <1>1
    <3>2. (m \in 1 .. n <=> m \in 1 .. m) /\ (n \in 1 .. n <=> n \in 1 .. m)
      BY <2>1
    <3> HIDE DEF m
    <3>3. m = n
      BY <3>1, <3>2
    <3> QED BY <3>3 DEF m
  <2>3. \A i \in 1 .. n : c[i] = i
    BY <1>2
  <2>4. ASSUME NEW i \in 1 .. Len(a) PROVE a[i] = i
    <3>1. i \in 1 .. n /\ i \in 1 .. Len(a) + Len(q) /\ i <= Len(a)
      BY <2>2, <1>1
    <3> QED BY <3>1, <2>3, <1>1
  <2>5. ASSUME NEW i \in 1 .. Len(q) PROVE q[i] = Len(a) + i
    <3>1. Len(a) + i \in 1 .. n /\ ~(Len(a) + i <= Len(a)) /\ (Len(a) + i) - Len(a) = i
      BY <2>2, <1>1
    <3> QED BY <3>1, <2>2, <2>3, <1>1
  <2> QED BY <2>2, <2>4, <2>5
<1>3. ASSUME Len(a) + Len(q) = n,
             \A i \in 1 .. Len(a) : a[i] = i,
             \A i \in 1 .. Len(q) : q[i] = Len(a) + i
      PROVE  c = f
  <2>1. ASSUME NEW i \in 1 .. n PROVE c[i] = i
    <3>1. CASE i <= Len(a)
      BY <3>1, <1>1, <1>3
    <3>2. CASE ~(i <= Len(a))
      <4>1. i - Len(a) \in 1 .. Len(q)
        BY <3>2, <1>1, <1>3
      <4>2. q[i - Len(a)] = Len(a) + (i - Len(a))
        BY <4>1, <1>3
      <4> QED BY <4>2, <3>2, <1>1, <1>3
    <3> QED BY <3>1, <3>2
  <2> QED BY <2>1, <1>1, <1>3
<1> QED BY <1>2, <1>3 DEF c

(* The share next in the channel is the first that no write was begun of.  *)
LEMMA NextShare ==
  ASSUME TypeOK, SharesConserved
  PROVE  /\ Len(attempts) + Len(queue) = found
         /\ \A i \in 1 .. Len(attempts) : attempts[i] = i
         /\ \A i \in 1 .. Len(queue) : queue[i] = Len(attempts) + i
         /\ Len(attempts) \in Nat /\ Len(queue) \in Nat
         /\ queue # <<>> => /\ Head(queue) = Len(attempts) + 1
                            /\ Head(queue) \in Shares
<1>1. found \in Nat
  BY BoundsAssumption DEF TypeOK
<1>2. Len(attempts) \in Nat /\ Len(queue) \in Nat
  BY LenProperties DEF TypeOK
<1>3. queue # <<>> => /\ Len(queue) # 0
                      /\ Head(queue) = queue[1]
                      /\ Head(queue) \in Shares
  BY EmptySeq, HeadTailProperties DEF TypeOK
<1> QED BY <1>1, <1>2, <1>3, Numbered, SMTT(30) DEF TypeOK, SharesConserved

LEMMA ConservedStep ==
  TypeOK /\ SharesConserved /\ [Next]_vars => SharesConserved'
<1> SUFFICES ASSUME TypeOK, SharesConserved, [Next]_vars
             PROVE  SharesConserved'
  OBVIOUS
<1>0. found' \in Nat /\ queue' \in Seq(Shares) /\ attempts' \in Seq(Shares)
  BY TypeStep, BoundsAssumption DEF TypeOK
<1>a. queue \in Seq(Shares) /\ attempts \in Seq(Shares) /\ found \in Nat
  BY BoundsAssumption DEF TypeOK
<1>b. SUFFICES /\ Len(attempts') + Len(queue') = found'
               /\ \A i \in 1 .. Len(attempts') : attempts'[i] = i
               /\ \A i \in 1 .. Len(queue') : queue'[i] = Len(attempts') + i
  BY <1>0, Numbered DEF SharesConserved
<1>1. CASE FindShare
  <2>1. queue' = Append(queue, found + 1) /\ found' = found + 1 /\ attempts' = attempts
    BY <1>1 DEF FindShare, channelVars
  <2>2. found + 1 \in Shares
    BY <1>1, BoundsAssumption DEF FindShare, TypeOK, Shares
  <2> QED BY <2>1, <2>2, <1>a, NextShare, AppendProperties
<1>2. CASE SubmitShare
  <2>1. /\ queue # <<>> /\ queue' = Tail(queue) /\ found' = found
        /\ attempts' = Append(attempts, Head(queue))
    BY <1>2 DEF SubmitShare
  <2>2. /\ Len(queue') = Len(queue) - 1
        /\ \A i \in 1 .. Len(queue') : queue'[i] = queue[i + 1]
    BY <2>1, <1>a, HeadTailProperties
  <2>3. /\ Len(attempts') = Len(attempts) + 1
        /\ \A i \in 1 .. Len(attempts) : attempts'[i] = attempts[i]
        /\ attempts'[Len(attempts) + 1] = Len(attempts) + 1
    BY <2>1, <1>a, NextShare, AppendProperties
  <2> QED BY <2>1, <2>2, <2>3, NextShare
<1>3. CASE ~FindShare /\ ~SubmitShare
  <2>1. UNCHANGED channelVars
    BY <1>3 DEF Next, Login, SessionEnds, SendKeepalive, PoolReceives, Reply,
                Unsolicited, vars, channelVars
  <2> QED BY <2>1, NextShare DEF channelVars
<1> QED BY <1>1, <1>2, <1>3

-----------------------------------------------------------------------------
(* Order.                                                                  *)

LEMMA ClosedStep ==
  ClosedIsEmpty /\ [Next]_vars => ClosedIsEmpty'
<1> SUFFICES ASSUME ClosedIsEmpty, [Next]_vars PROVE ClosedIsEmpty'
  OBVIOUS
<1> USE DEF ClosedIsEmpty
<1>1. CASE FindShare
  BY <1>1 DEF FindShare
<1>2. CASE Login
  BY <1>2 DEF Login
<1>3. CASE SessionEnds
  BY <1>3 DEF SessionEnds, Close
<1>4. CASE SubmitShare
  BY <1>4 DEF SubmitShare, Write, WriteFails, Close
<1>5. CASE SendKeepalive
  BY <1>5 DEF SendKeepalive, Write, WriteFails, Close
<1>6. CASE PoolReceives
  BY <1>6 DEF PoolReceives
<1>7. ASSUME NEW r \in pending, NEW error \in BOOLEAN, Reply(r, error)
      PROVE  ClosedIsEmpty'
  BY <1>7 DEF Reply
<1>8. CASE \E error \in BOOLEAN : Unsolicited(error)
  BY <1>8 DEF Unsolicited
<1>9. CASE UNCHANGED vars
  BY <1>9 DEF vars
<1> QED
  BY <1>1, <1>2, <1>3, <1>4, <1>5, <1>6, <1>7, <1>8, <1>9 DEF Next

(* The wire after a write, and after the pool has received from it.        *)
LEMMA WireAppended ==
  ASSUME TypeOK, NEW s \in 0 .. MaxShares, Write(s)
  PROVE  \E n \in Nat :
           /\ \A i \in DOMAIN wire : i \in Nat /\ i < n
           /\ \A i \in DOMAIN wire' :
                \/ i \in DOMAIN wire /\ wire'[i] = wire[i]
                \/ i = n /\ wire'[i].id = seq /\ wire'[i].share = s
<1>1. [id |-> seq, share |-> s] \in Requests
  BY WriteType
<1>2. /\ DOMAIN wire' = 1 .. Len(wire) + 1 /\ DOMAIN wire = 1 .. Len(wire)
      /\ Len(wire) \in Nat
      /\ \A i \in 1 .. Len(wire) : wire'[i] = wire[i]
      /\ wire'[Len(wire) + 1] = [id |-> seq, share |-> s]
  BY <1>1, AppendProperties, LenProperties DEF TypeOK, Write
<1>3. \A i \in DOMAIN wire' : i \in DOMAIN wire \/ i = Len(wire) + 1
  BY <1>2
<1> WITNESS Len(wire) + 1 \in Nat
<1> QED BY <1>2, <1>3

LEMMA WireConsumed ==
  ASSUME TypeOK, wire # <<>>
  PROVE  /\ DOMAIN wire = 1 .. Len(wire) /\ Len(wire) \in Nat \ {0}
         /\ DOMAIN Tail(wire) = 1 .. Len(wire) - 1
         /\ \A i \in 1 .. Len(wire) - 1 : Tail(wire)[i] = wire[i + 1]
         /\ Head(wire) = wire[1]
         /\ \A i \in DOMAIN wire : wire[i] \in Requests
BY HeadTailProperties, LenProperties, EmptySeq, ElementOfSeq DEF TypeOK

(* What the pool has received, after one share more.                       *)
LEMMA ArrivedAppended ==
  ASSUME TypeOK, NEW s \in Shares, arrived' = Append(arrived, s)
  PROVE  /\ DOMAIN arrived' = 1 .. Len(arrived) + 1
         /\ DOMAIN arrived = 1 .. Len(arrived) /\ Len(arrived) \in Nat
         /\ \A i \in 1 .. Len(arrived) : arrived'[i] = arrived[i]
         /\ arrived'[Len(arrived) + 1] = s
         /\ Len(arrived') = Len(arrived) + 1
         /\ RangeOf(arrived') = RangeOf(arrived) \cup {s}
BY AppendProperties, LenProperties, RangeOfAppend DEF TypeOK

(* All that is compared is a number.                                       *)
LEMMA OrderTypes ==
  ASSUME TypeOK
  PROVE  /\ \A i \in DOMAIN arrived : arrived[i] \in Nat \ {0}
         /\ \A i \in DOMAIN wire : /\ wire[i].id \in Nat
                                  /\ wire[i].share \in 0 .. MaxShares
         /\ \A r \in pending : r.id \in Nat /\ r.share \in 0 .. MaxShares
         /\ Len(attempts) \in Nat /\ seq \in Nat /\ MaxShares \in Nat
<1>1. \A i \in DOMAIN arrived : arrived[i] \in Shares
  BY LenProperties, ElementOfSeq DEF TypeOK
<1>2. \A i \in DOMAIN wire : wire[i] \in Requests
  BY LenProperties, ElementOfSeq DEF TypeOK
<1>3. Len(attempts) \in Nat
  BY LenProperties DEF TypeOK
<1>4. \A r \in Requests : r.id \in Nat /\ r.share \in 0 .. MaxShares
  BY DEF Requests
<1>5. Shares \subseteq Nat \ {0}
  BY BoundsAssumption DEF Shares
<1> QED BY <1>1, <1>2, <1>3, <1>4, <1>5, BoundsAssumption DEF TypeOK

LEMMA IdsStep ==
  TypeOK /\ ClosedIsEmpty /\ IdsGrow /\ [Next]_vars => IdsGrow'
<1> SUFFICES ASSUME TypeOK, ClosedIsEmpty, IdsGrow, [Next]_vars PROVE IdsGrow'
  OBVIOUS
<1> USE DEF IdsGrow
<1>2. ASSUME NEW s \in 0 .. MaxShares, Write(s) PROVE IdsGrow'
  <2>1. seq' = seq + 1 /\ pending' = pending
    BY <1>2 DEF Write
  <2>2. PICK n \in Nat :
           /\ \A i \in DOMAIN wire : i \in Nat /\ i < n
           /\ \A i \in DOMAIN wire' :
                \/ i \in DOMAIN wire /\ wire'[i] = wire[i]
                \/ i = n /\ wire'[i].id = seq /\ wire'[i].share = s
    BY <1>2, WireAppended
  <2> QED BY <2>1, <2>2, OrderTypes
<1>3. CASE FindShare \/ \E error \in BOOLEAN : Unsolicited(error)
  BY <1>3 DEF FindShare, Unsolicited
<1>4. CASE Login
  <2>1. wire = <<>> /\ pending = {}
    BY <1>4 DEF Login, ClosedIsEmpty
  <2>2. wire' = <<>> /\ pending' = {}
    BY <1>4, <2>1 DEF Login
  <2>3. DOMAIN wire' = {}
    BY <2>2
  <2> QED BY <2>2, <2>3
<1>5. ASSUME Close PROVE IdsGrow'
  <2>1. wire' = <<>> /\ pending' = {}
    BY <1>5 DEF Close
  <2>2. DOMAIN wire' = {}
    BY <2>1
  <2> QED BY <2>1, <2>2
<1>6. CASE SubmitShare
  <2>1. Head(queue) \in Shares
    BY <1>6, HeadTailProperties DEF SubmitShare, TypeOK
  <2>2. Head(queue) \in 0 .. MaxShares
    BY <2>1, ShareNumbers
  <2> QED BY <1>2, <1>5, <1>6, <2>2 DEF SubmitShare, WriteFails
<1>7. CASE SendKeepalive
  <2>1. 0 \in 0 .. MaxShares
    BY BoundsAssumption
  <2> QED BY <1>2, <1>5, <1>7, <2>1 DEF SendKeepalive, WriteFails
<1>8. CASE PoolReceives
  <2>1. /\ wire # <<>> /\ wire' = Tail(wire) /\ seq' = seq
        /\ pending' = pending \cup {wire[1]}
    BY <1>8, WireConsumed DEF PoolReceives
  <2>2. \A j \in DOMAIN wire' : /\ j \in DOMAIN wire /\ j + 1 \in DOMAIN wire
                                /\ wire'[j] = wire[j + 1] /\ 1 < j + 1
    BY <2>1, WireConsumed
  <2>3. 1 \in DOMAIN wire
    BY <2>1, WireConsumed
  <2>4. \A i, j \in DOMAIN wire' : i < j => i + 1 < j + 1
    BY <2>1, WireConsumed
  <2> QED BY <2>1, <2>2, <2>3, <2>4
<1>9. ASSUME NEW r \in pending, NEW error \in BOOLEAN, Reply(r, error)
      PROVE  IdsGrow'
  BY <1>9 DEF Reply
<1>10. CASE UNCHANGED vars
  BY <1>10 DEF vars
<1>11. CASE SessionEnds
  BY <1>11, <1>5 DEF SessionEnds
<1> QED
  BY <1>3, <1>4, <1>6, <1>7, <1>8, <1>9, <1>10, <1>11 DEF Next

LEMMA OrderStep ==
  /\ TypeOK /\ SharesConserved /\ ArrivalOrder /\ [Next]_vars
  => ArrivalOrder'
<1> SUFFICES ASSUME TypeOK, SharesConserved, ArrivalOrder, [Next]_vars
             PROVE  ArrivalOrder'
  OBVIOUS
<1> USE DEF ArrivalOrder, ArriveInOrderOnce
<1>0. Len(attempts') \in Nat /\ Len(attempts) <= Len(attempts')
  <2>1. CASE SubmitShare
    <3>1. /\ Head(queue) \in Shares /\ attempts \in Seq(Shares)
          /\ attempts' = Append(attempts, Head(queue))
      BY <2>1, NextShare DEF SubmitShare, TypeOK
    <3> QED BY <3>1, NextShare, AppendProperties
  <2>2. CASE ~SubmitShare
    <3>1. attempts' = attempts
      BY <2>2 DEF Next, FindShare, Login, SessionEnds, SendKeepalive,
                  PoolReceives, Reply, Unsolicited, vars, channelVars
    <3> QED BY <3>1, NextShare
  <2> QED BY <2>1, <2>2
<1>1. ASSUME wire' = <<>>, arrived' = arrived PROVE ArrivalOrder'
  <2>1. DOMAIN wire' = {}
    BY <1>1
  <2> QED BY <1>0, <1>1, <2>1, OrderTypes
<1>2. ASSUME wire' = wire, arrived' = arrived PROVE ArrivalOrder'
  BY <1>0, <1>2, OrderTypes
<1>a. ASSUME NEW s \in 0 .. MaxShares, Write(s), arrived' = arrived,
             s = 0 \/ (s = Len(attempts) + 1 /\ s <= Len(attempts'))
      PROVE  ArrivalOrder'
  <2>1. PICK n \in Nat :
           /\ \A i \in DOMAIN wire : i \in Nat /\ i < n
           /\ \A i \in DOMAIN wire' :
                \/ i \in DOMAIN wire /\ wire'[i] = wire[i]
                \/ i = n /\ wire'[i].id = seq /\ wire'[i].share = s
    BY <1>a, WireAppended
  <2>2. \A i \in DOMAIN arrived' : arrived'[i] <= Len(attempts')
    BY <1>0, <1>a, OrderTypes
  <2>3. ASSUME NEW j \in DOMAIN wire'
        PROVE  /\ wire'[j].share <= Len(attempts')
               /\ wire'[j].share # 0 =>
                     \A i \in DOMAIN arrived' : arrived'[i] < wire'[j].share
    BY <1>0, <1>a, <2>1, OrderTypes
  <2>4. ASSUME NEW i \in DOMAIN wire', NEW j \in DOMAIN wire', i < j,
               wire'[i].share # 0, wire'[j].share # 0
        PROVE  wire'[i].share < wire'[j].share
    BY <1>0, <1>a, <2>1, <2>4, OrderTypes
  <2> QED BY <1>a, <2>2, <2>3, <2>4
<1>3. CASE SubmitShare
  <2>1. /\ Head(queue) = Len(attempts) + 1 /\ Head(queue) \in Shares
        /\ Len(attempts') = Len(attempts) + 1
        /\ Head(queue) \in 0 .. MaxShares
    <3>1. queue # <<>> /\ attempts' = Append(attempts, Head(queue))
      BY <1>3 DEF SubmitShare
    <3>2. Head(queue) = Len(attempts) + 1 /\ Head(queue) \in Shares
      BY <3>1, NextShare
    <3>3. attempts \in Seq(Shares)
      BY DEF TypeOK
    <3>4. Len(Append(attempts, Head(queue))) = Len(attempts) + 1
      BY ONLY <3>2, <3>3, AppendProperties
    <3> QED BY <3>1, <3>2, <3>4, ShareNumbers
  <2>2. CASE Write(Head(queue)) /\ UNCHANGED arrived
    <3> QED BY <2>1, <2>2, <1>a
  <2>3. CASE WriteFails /\ UNCHANGED arrived
    BY <2>3, <1>1 DEF WriteFails, Close
  <2>4. CASE WriteFails /\ arrived' = Append(arrived, Head(queue))
    <3>1. DOMAIN wire' = {}
      BY <2>4 DEF WriteFails, Close
    <3>2. \A i \in 1 .. Len(arrived) : arrived[i] < Head(queue)
      BY <2>1, ArrivedAppended, OrderTypes, <2>4
    <3> QED BY <2>1, <2>4, <3>1, <3>2, ArrivedAppended, OrderTypes, SMTT(30)
  <2> QED BY <1>3, <2>2, <2>3, <2>4 DEF SubmitShare
<1>4. CASE SendKeepalive
  <2>1. arrived' = arrived
    BY <1>4 DEF SendKeepalive, poolVars
  <2>2. CASE Write(0)
    <3>1. 0 \in 0 .. MaxShares
      BY BoundsAssumption
    <3> QED BY <1>0, <2>1, <2>2, <3>1, <1>a
  <2>3. CASE WriteFails
    BY <1>1, <2>1, <2>3 DEF WriteFails, Close
  <2> QED BY <1>4, <2>2, <2>3 DEF SendKeepalive
<1>5. CASE PoolReceives
  <2>1. /\ wire # <<>> /\ wire' = Tail(wire) /\ attempts' = attempts
    BY <1>5 DEF PoolReceives, channelVars
  <2>2. \A j \in DOMAIN wire' : /\ j + 1 \in DOMAIN wire
                                /\ wire'[j] = wire[j + 1] /\ 1 < j + 1
    BY <2>1, WireConsumed
  <2>3. 1 \in DOMAIN wire /\ Head(wire) = wire[1]
    BY <2>1, WireConsumed
  <2>4. \A i, j \in DOMAIN wire' : i < j => i + 1 < j + 1
    BY <2>1, WireConsumed
  <2>5. CASE arrived' = arrived
    BY <2>1, <2>2, <2>4, <2>5
  <2>6. CASE wire[1].share # 0 /\ arrived' = Append(arrived, wire[1].share)
    <3> DEFINE s == wire[1].share
    <3>1. s \in Shares
      BY <2>3, <2>6, OrderTypes, BoundsAssumption DEF Shares
    <3>2. s <= Len(attempts) /\ \A i \in DOMAIN arrived : arrived[i] < s
      BY <2>3, <2>6
    <3>3. \A j \in DOMAIN wire' : wire'[j].share # 0 => s < wire'[j].share
      BY <2>2, <2>3, <2>6
    <3>4. s \in Nat
      BY <3>1, BoundsAssumption DEF Shares
    <3> HIDE DEF s
    <3>5. arrived' = Append(arrived, s)
      BY <2>6 DEF s
    <3>6. /\ \A i, j \in DOMAIN arrived' : i < j => arrived'[i] < arrived'[j]
          /\ \A i \in DOMAIN arrived' : arrived'[i] <= Len(attempts)
      BY <3>1, <3>2, <3>4, <3>5, ArrivedAppended, OrderTypes
    <3>7. \A j \in DOMAIN wire' : wire'[j].share # 0 =>
            \A i \in DOMAIN arrived' : arrived'[i] < wire'[j].share
      BY <2>2, <3>1, <3>2, <3>3, <3>4, <3>5, ArrivedAppended, OrderTypes
    <3> QED BY <2>1, <2>2, <2>4, <3>6, <3>7
  <2> QED BY <1>5, <2>3, <2>5, <2>6 DEF PoolReceives, poolVars
<1>6. CASE FindShare \/ Login \/ \E error \in BOOLEAN : Unsolicited(error)
  BY <1>6, <1>2 DEF FindShare, Login, Unsolicited, poolVars
<1>7. ASSUME NEW r \in pending, NEW error \in BOOLEAN, Reply(r, error)
      PROVE  ArrivalOrder'
  BY <1>7, <1>2 DEF Reply, poolVars
<1>8. CASE SessionEnds
  BY <1>8, <1>1 DEF SessionEnds, Close, poolVars
<1>9. CASE UNCHANGED vars
  BY <1>9, <1>2 DEF vars
<1> QED
  BY <1>3, <1>4, <1>5, <1>6, <1>7, <1>8, <1>9 DEF Next

-----------------------------------------------------------------------------
(* Counting.  Each step of the ledger changes a count on either side of an *)
(* inequality of Ledger by at most one, and never that on the left alone.*)

(* The counts are of finite sets, and are numbers.                         *)
LEMMA LedgerTypes ==
  ASSUME TypeOK, Judged
  PROVE  /\ IsFiniteSet(Verdicts) /\ Cardinality(Verdicts) \in Nat
         /\ IsFiniteSet(Accepts) /\ Cardinality(Accepts) \in Nat
         /\ IsFiniteSet(Rejects) /\ Cardinality(Rejects) \in Nat
         /\ IsFiniteSet(Pings) /\ Cardinality(Pings) \in Nat
         /\ IsFiniteSet(good) /\ Cardinality(good) \in Nat
         /\ IsFiniteSet(Bad) /\ Cardinality(Bad) \in Nat
         /\ accepted \in Nat /\ rejected \in Nat
         /\ keepalives \in Nat /\ unsolicited \in Nat
         /\ Len(arrived) \in Nat
<1>1. Verdicts \subseteq pending /\ Accepts \subseteq pending /\ Rejects \subseteq pending
  BY DEF Verdicts, Accepts, Rejects
<1>2. IsFiniteSet(pending) /\ IsFiniteSet(Pings)
  BY DEF Judged
<1>3. RangeOf(arrived) \subseteq Shares
  BY LenProperties, ElementOfSeq DEF TypeOK, RangeOf
<1>4. good \subseteq Shares /\ Bad \subseteq Shares
  BY <1>3 DEF TypeOK, Bad
<1>5. Len(arrived) \in Nat
  BY LenProperties DEF TypeOK
<1> QED
  BY <1>1, <1>2, <1>4, <1>5, ShareNumbers, CountKept, FS_CardinalityType
  DEF TypeOK

(* What is counted is a number.                                            *)
Numbers ==
  /\ Cardinality(Verdicts) \in Nat /\ Cardinality(Accepts) \in Nat
  /\ Cardinality(Rejects) \in Nat /\ Cardinality(Pings) \in Nat
  /\ Cardinality(good) \in Nat /\ Cardinality(Bad) \in Nat
  /\ accepted \in Nat /\ rejected \in Nat
  /\ Len(arrived) \in Nat /\ Others \in Nat

LEMMA LedgerNumbers ==
  ASSUME TypeOK, Ledger
  PROVE  Numbers /\ AcceptsCovered /\ RejectsCovered /\ VerdictsCovered
<1>1. Judged
  BY DEF Ledger
<1>2. Others \in Nat
  BY <1>1, LedgerTypes DEF Others
<1> QED BY <1>1, <1>2, LedgerTypes DEF Ledger, Numbers

(* Nothing outstanding any more, and perhaps a share more at the pool.     *)
LEMMA LedgerClosed ==
  ASSUME TypeOK, Ledger, Close,
         good' = good, accepted' = accepted, rejected' = rejected,
         unsolicited' = unsolicited, keepalives' \in {keepalives, keepalives + 1},
         \/ arrived' = arrived
         \/ \E s \in Shares : arrived' = Append(arrived, s)
  PROVE  Ledger'
<1>n. Numbers /\ AcceptsCovered /\ RejectsCovered /\ VerdictsCovered
  BY LedgerNumbers
<1>1. wire' = <<>> /\ pending' = {}
  BY DEF Close
<1>2. RangeOf(wire') = {}
  BY <1>1 DEF RangeOf
<1>3. Pings' = {} /\ Verdicts' = {} /\ Accepts' = {} /\ Rejects' = {}
  BY <1>1, <1>2 DEF Pings, Verdicts, Accepts, Rejects
<1>4. RangeOf(arrived) \subseteq RangeOf(arrived') /\ Len(arrived) <= Len(arrived')
      /\ Len(arrived') \in Nat
      /\ RangeOf(arrived') \subseteq Shares
  <2>1. RangeOf(arrived) \subseteq Shares /\ Len(arrived) \in Nat
    BY LenProperties, ElementOfSeq DEF TypeOK, RangeOf
  <2>2. CASE arrived' = arrived
    BY <2>1, <2>2
  <2>3. ASSUME NEW s \in Shares, arrived' = Append(arrived, s)
        PROVE  /\ RangeOf(arrived) \subseteq RangeOf(arrived')
               /\ Len(arrived) <= Len(arrived') /\ Len(arrived') \in Nat
               /\ RangeOf(arrived') \subseteq Shares
    BY <2>1, <2>3, ArrivedAppended
  <2> QED BY <2>2, <2>3
<1>5. /\ Judged'
  BY <1>1, <1>3, <1>4, FS_EmptySet DEF Ledger, Judged
<1>6. Cardinality(Bad) <= Cardinality(Bad') /\ Cardinality(Bad') \in Nat
  <2>1. Bad \subseteq Bad' /\ Bad' \subseteq Shares
    BY <1>4 DEF Bad
  <2>2. IsFiniteSet(Bad')
    BY <2>1, ShareNumbers, CountKept
  <2> QED BY <2>1, <2>2, CountKept, FS_CardinalityType
<1>7. Others' \in Nat /\ Others <= Others'
  BY LedgerTypes, SMTT(30) DEF Ledger, Others
<1>8. Cardinality({}) = 0
  BY FS_EmptySet
<1> HIDE DEF Others, Bad
<1>9. /\ Cardinality(Pings') = 0 /\ Cardinality(Verdicts') = 0
      /\ Cardinality(Accepts') = 0 /\ Cardinality(Rejects') = 0
  BY <1>3, <1>8
<1>10. AcceptsCovered'
  <2>1. accepted + 0 + 0 <= Cardinality(good) + Others'
    BY <1>7, <1>n DEF Numbers, AcceptsCovered
  <2> QED BY <1>9, <2>1 DEF AcceptsCovered
<1>11. RejectsCovered'
  <2>1. rejected + 0 + 0 <= Cardinality(Bad') + Others'
    BY <1>6, <1>7, <1>n, SMTT(30) DEF Numbers, RejectsCovered
  <2> QED BY <1>9, <2>1 DEF RejectsCovered
<1>12. VerdictsCovered'
  <2>1. accepted + rejected + 0 + 0 <= Len(arrived') + Others'
    BY <1>4, <1>7, <1>n DEF Numbers, VerdictsCovered
  <2> QED BY <1>9, <2>1 DEF VerdictsCovered
<1> QED BY <1>5, <1>10, <1>11, <1>12 DEF Ledger

(* A write puts a request of a share, or a keepalive, on the wire.         *)
LEMMA LedgerWritten ==
  ASSUME TypeOK, Ledger, NEW s \in 0 .. MaxShares, Write(s),
         UNCHANGED <<poolVars, statsVars, unsolicited>>,
         keepalives' = IF s = 0 THEN keepalives + 1 ELSE keepalives
  PROVE  Ledger'
<1>n. Numbers /\ AcceptsCovered /\ RejectsCovered /\ VerdictsCovered
  BY LedgerNumbers
<1> DEFINE r == [id |-> seq, share |-> s]
<1>1. r \in Requests /\ wire \in Seq(Requests) /\ r.share = s
  BY WriteType DEF TypeOK
<1>2. wire' = Append(wire, r) /\ pending' = pending
  BY DEF Write
<1>3. RangeOf(wire') = RangeOf(wire) \cup {r}
  BY <1>1, <1>2, RangeOfAppend
<1> HIDE DEF r
<1>4. arrived' = arrived /\ good' = good /\ accepted' = accepted
      /\ rejected' = rejected /\ unsolicited' = unsolicited
  BY DEF poolVars, statsVars
<1>5. /\ Accepts' = Accepts /\ Rejects' = Rejects
      /\ Verdicts' = Verdicts /\ Bad' = Bad
  BY <1>2, <1>4 DEF Verdicts, Accepts, Rejects, Bad
<1>6. CASE s = 0
  <2>1. Pings' \subseteq Pings \cup {r}
    BY <1>2, <1>3 DEF Pings
  <2>2. /\ IsFiniteSet(Pings') /\ Cardinality(Pings') \in Nat
        /\ Cardinality(Pings') <= Cardinality(Pings) + 1
    BY <2>1, LedgerTypes, CountGrows DEF Ledger
  <2>3. Others' = Others + 1 /\ Others \in Nat
    BY <1>4, <1>6, LedgerTypes, SMTT(30) DEF Ledger, Others
  <2>4. Judged'
    BY <1>2, <1>4, <2>2 DEF Ledger, Judged
  <2> HIDE DEF Others
  <2>5. AcceptsCovered'
    <3>1. accepted + Cardinality(Accepts) + Cardinality(Pings')
            <= Cardinality(good) + Others'
      BY <1>n, <2>2, <2>3, SMTT(30) DEF Numbers, AcceptsCovered
    <3> QED BY <1>4, <1>5, <3>1 DEF AcceptsCovered
  <2>6. RejectsCovered'
    <3>1. rejected + Cardinality(Rejects) + Cardinality(Pings')
            <= Cardinality(Bad) + Others'
      BY <1>n, <2>2, <2>3, SMTT(30) DEF Numbers, RejectsCovered
    <3> QED BY <1>4, <1>5, <3>1 DEF RejectsCovered
  <2>7. VerdictsCovered'
    <3>1. accepted + rejected + Cardinality(Verdicts) + Cardinality(Pings')
            <= Len(arrived) + Others'
      BY <1>n, <2>2, <2>3, SMTT(30) DEF Numbers, VerdictsCovered
    <3> QED BY <1>4, <1>5, <3>1 DEF VerdictsCovered
  <2> QED BY <2>4, <2>5, <2>6, <2>7 DEF Ledger
<1>7. CASE s # 0
  <2>1. Pings' = Pings
    BY <1>1, <1>2, <1>3, <1>7 DEF Pings
  <2>2. Others' = Others
    BY <1>4, <1>7 DEF Others
  <2> QED BY <1>2, <1>4, <1>5, <2>1, <2>2
      DEF Ledger, Judged, AcceptsCovered, RejectsCovered, VerdictsCovered
<1> QED BY <1>6, <1>7

(* The pool receives a keepalive: it is answered as it was before.         *)
LEMMA LedgerPinged ==
  ASSUME TypeOK, Ledger, PoolReceives, Head(wire).share = 0
  PROVE  Ledger'
<1>1. /\ wire' = Tail(wire) /\ pending' = pending \cup {Head(wire)}
      /\ arrived' = arrived /\ good' = good
      /\ accepted' = accepted /\ rejected' = rejected
      /\ keepalives' = keepalives /\ unsolicited' = unsolicited
  BY DEF PoolReceives, poolVars, statsVars
<1>2. RangeOf(wire) = {Head(wire)} \cup RangeOf(wire')
  BY <1>1, RangeOfTail DEF PoolReceives, TypeOK
<1>3. Pings' = Pings
  BY <1>1, <1>2 DEF Pings
<1>4. good \subseteq Shares /\ Bad \subseteq Shares
  BY LenProperties, ElementOfSeq DEF TypeOK, Bad, RangeOf
<1>5. /\ Verdicts' = Verdicts /\ Accepts' = Accepts /\ Rejects' = Rejects
      /\ Bad' = Bad
  BY <1>1, <1>4, ShareNumbers DEF Verdicts, Accepts, Rejects, Bad
<1>6. Judged'
  BY <1>1, <1>3, FS_AddElement DEF Ledger, Judged
<1> QED
  BY <1>1, <1>3, <1>5, <1>6
  DEF Ledger, AcceptsCovered, RejectsCovered, VerdictsCovered, Others

(* The pool receives a share, which is new to it, and judges it.           *)
LEMMA LedgerReceived ==
  ASSUME TypeOK, ArrivalOrder, Ledger, PoolReceives, Head(wire).share # 0
  PROVE  Ledger'
<1> DEFINE h == Head(wire)
           s == h.share
<1>n. Numbers /\ AcceptsCovered /\ RejectsCovered /\ VerdictsCovered
  BY LedgerNumbers
<1>1. /\ wire # <<>> /\ wire' = Tail(wire) /\ pending' = pending \cup {h}
      /\ arrived' = Append(arrived, s) /\ good' \in {good, good \cup {s}}
      /\ accepted' = accepted /\ rejected' = rejected
      /\ keepalives' = keepalives /\ unsolicited' = unsolicited
  BY DEF PoolReceives, poolVars, statsVars
<1>2. s \in Shares /\ s \in Nat
  <2>1. h \in Requests
    BY <1>1, HeadTailProperties DEF TypeOK
  <2> QED BY <2>1, BoundsAssumption DEF Requests, Shares
<1>3. \A i \in DOMAIN arrived : arrived[i] < s /\ arrived[i] \in Nat
  BY <1>1, WireConsumed, OrderTypes DEF ArrivalOrder
<1>4. s \notin RangeOf(arrived)
  BY <1>2, <1>3 DEF RangeOf
<1>5. RangeOf(wire) = {h} \cup RangeOf(wire')
  BY <1>1, RangeOfTail DEF TypeOK
<1>6. /\ RangeOf(arrived') = RangeOf(arrived) \cup {s}
      /\ Len(arrived') = Len(arrived) + 1
  BY <1>1, <1>2, ArrivedAppended
<1>7. h.share = s
  OBVIOUS
<1> HIDE DEF h, s
<1>8. Pings' = Pings
  BY <1>1, <1>5 DEF Pings
<1>9. good \subseteq RangeOf(arrived) /\ \A r \in pending : r.share # s
  BY <1>2, <1>4, ShareNumbers DEF Ledger, Judged
<1>10. Others' = Others
  BY <1>1 DEF Others
<1>11. Judged'
  BY <1>1, <1>6, <1>7, <1>8, <1>9, FS_AddElement DEF Ledger, Judged
<1>12. VerdictsCovered'
  <2>1. Verdicts' \subseteq Verdicts \cup {h}
    BY <1>1 DEF Verdicts
  <2>2. /\ Cardinality(Verdicts') \in Nat
        /\ Cardinality(Verdicts') <= Cardinality(Verdicts) + 1
    BY <2>1, LedgerTypes, CountGrows DEF Ledger
  <2>3. accepted + rejected + Cardinality(Verdicts') + Cardinality(Pings)
          <= (Len(arrived) + 1) + Others
    BY <1>n, <2>2, SMTT(30) DEF Numbers, VerdictsCovered
  <2> QED BY <1>1, <1>6, <1>8, <1>10, <2>3 DEF VerdictsCovered
<1>13. CASE good' = good \cup {s}
  <2>1. s \notin good
    BY <1>4, <1>9
  <2>2. Cardinality(good') = Cardinality(good) + 1
    BY <1>13, <2>1, LedgerTypes, FS_AddElement DEF Ledger
  <2>3. Bad' = Bad /\ Rejects' = Rejects
    BY <1>1, <1>4, <1>6, <1>7, <1>9, <1>13 DEF Bad, Rejects
  <2>4. Accepts' \subseteq Accepts \cup {h}
    BY <1>1, <1>9, <1>13 DEF Accepts
  <2>5. /\ Cardinality(Accepts') \in Nat
        /\ Cardinality(Accepts') <= Cardinality(Accepts) + 1
    BY <2>4, LedgerTypes, CountGrows DEF Ledger
  <2>6. AcceptsCovered'
    <3>1. accepted + Cardinality(Accepts') + Cardinality(Pings)
            <= (Cardinality(good) + 1) + Others
      BY <1>n, <2>5, SMTT(30) DEF Numbers, AcceptsCovered
    <3> QED BY <1>1, <1>8, <1>10, <2>2, <3>1 DEF AcceptsCovered
  <2>7. RejectsCovered'
    BY <1>1, <1>8, <1>10, <1>n, <2>3 DEF RejectsCovered
  <2> QED BY <1>11, <1>12, <2>6, <2>7 DEF Ledger
<1>14. CASE good' = good
  <2>1. s \notin Bad
    BY <1>4 DEF Bad
  <2>2. Bad' = Bad \cup {s}
    BY <1>4, <1>6, <1>9, <1>14 DEF Bad
  <2>3. Cardinality(Bad') = Cardinality(Bad) + 1
    BY <2>1, <2>2, LedgerTypes, FS_AddElement DEF Ledger
  <2>4. Accepts' = Accepts
    BY <1>1, <1>4, <1>7, <1>9, <1>14 DEF Accepts
  <2>5. Rejects' \subseteq Rejects \cup {h}
    BY <1>1, <1>9, <2>2 DEF Rejects
  <2>6. /\ Cardinality(Rejects') \in Nat
        /\ Cardinality(Rejects') <= Cardinality(Rejects) + 1
    BY <2>5, LedgerTypes, CountGrows DEF Ledger
  <2>7. RejectsCovered'
    <3>1. rejected + Cardinality(Rejects') + Cardinality(Pings)
            <= (Cardinality(Bad) + 1) + Others
      BY <1>n, <2>6, SMTT(30) DEF Numbers, RejectsCovered
    <3> QED BY <1>1, <1>8, <1>10, <2>3, <3>1 DEF RejectsCovered
  <2>8. AcceptsCovered'
    BY <1>1, <1>8, <1>10, <1>14, <1>n, <2>4 DEF AcceptsCovered
  <2> QED BY <1>11, <1>12, <2>7, <2>8 DEF Ledger
<1> QED BY <1>1, <1>13, <1>14

(* A keepalive's answer is counted for one of the pings.                   *)
LEMMA LedgerPong ==
  ASSUME TypeOK, IdsGrow, Ledger, NEW r \in pending, NEW error \in BOOLEAN,
         Reply(r, error), r.share = 0
  PROVE  Ledger'
<1>n. Numbers /\ AcceptsCovered /\ RejectsCovered /\ VerdictsCovered
  BY LedgerNumbers
<1>1. /\ wire' = wire /\ pending' = pending \ {r}
      /\ arrived' = arrived /\ good' = good
      /\ keepalives' = keepalives /\ unsolicited' = unsolicited
      /\ \/ accepted' = accepted + 1 /\ rejected' = rejected
         \/ accepted' = accepted /\ rejected' = rejected + 1
  BY DEF Reply, CountReply, poolVars
<1>2. r \notin RangeOf(wire)
  BY OrderTypes DEF IdsGrow, RangeOf
<1>3. r \in Pings /\ Pings' = Pings \ {r}
  BY <1>1, <1>2 DEF Pings
<1>4. good \subseteq Shares /\ Bad \subseteq Shares
  BY LenProperties, ElementOfSeq DEF TypeOK, Bad, RangeOf
<1>5. /\ Verdicts' = Verdicts /\ Accepts' = Accepts /\ Rejects' = Rejects
      /\ Bad' = Bad /\ Others' = Others
  BY <1>1, <1>4, ShareNumbers DEF Verdicts, Accepts, Rejects, Bad, Others
<1>6. /\ IsFiniteSet(Pings') /\ Cardinality(Pings') \in Nat
      /\ Cardinality(Pings') + 1 = Cardinality(Pings)
  BY <1>3, LedgerTypes, CountShrinks DEF Ledger
<1>7. Judged'
  BY <1>1, <1>6, FS_RemoveElement DEF Ledger, Judged
<1>8. AcceptsCovered'
  <2>1. accepted' + Cardinality(Accepts) + Cardinality(Pings')
          <= Cardinality(good) + Others
    BY <1>1, <1>6, <1>n, SMTT(30) DEF Numbers, AcceptsCovered
  <2> QED BY <1>1, <1>5, <2>1 DEF AcceptsCovered
<1>9. RejectsCovered'
  <2>1. rejected' + Cardinality(Rejects) + Cardinality(Pings')
          <= Cardinality(Bad) + Others
    BY <1>1, <1>6, <1>n, SMTT(30) DEF Numbers, RejectsCovered
  <2> QED BY <1>1, <1>5, <2>1 DEF RejectsCovered
<1>10. VerdictsCovered'
  <2>1. accepted' + rejected' = (accepted + rejected) + 1
    BY <1>1, <1>n DEF Numbers
  <2>2. ((accepted + rejected) + 1) + Cardinality(Verdicts) + Cardinality(Pings')
          <= Len(arrived) + Others
    BY <1>6, <1>n DEF Numbers, VerdictsCovered
  <2> QED BY <1>1, <1>5, <2>1, <2>2 DEF VerdictsCovered
<1> QED BY <1>7, <1>8, <1>9, <1>10 DEF Ledger

(* A verdict is counted under its heading, and outstanding no more.        *)
LEMMA LedgerVerdict ==
  ASSUME TypeOK, Ledger, NEW r \in pending, NEW error \in BOOLEAN,
         Reply(r, error), r.share # 0
  PROVE  Ledger'
<1>n. Numbers /\ AcceptsCovered /\ RejectsCovered /\ VerdictsCovered
  BY LedgerNumbers
<1>1. /\ wire' = wire /\ pending' = pending \ {r}
      /\ arrived' = arrived /\ good' = good
      /\ keepalives' = keepalives /\ unsolicited' = unsolicited
      /\ IF r.share \in good
         THEN accepted' = accepted + 1 /\ rejected' = rejected
         ELSE accepted' = accepted /\ rejected' = rejected + 1
  BY DEF Reply, CountReply, poolVars
<1>2. Pings' = Pings
  BY <1>1 DEF Pings
<1>3. r.share \in RangeOf(arrived) /\ r.share \in Shares
  <2>1. r.share \in RangeOf(arrived)
    BY DEF Ledger, Judged
  <2> QED BY <2>1, LenProperties, ElementOfSeq DEF TypeOK, RangeOf
<1>4. Bad' = Bad /\ Others' = Others
  BY <1>1 DEF Bad, Others
<1>5. Judged'
  BY <1>1, <1>2, FS_RemoveElement DEF Ledger, Judged
<1>6. VerdictsCovered'
  <2>1. r \in Verdicts /\ Verdicts' = Verdicts \ {r}
    BY <1>1, <1>3 DEF Verdicts
  <2>2. /\ Cardinality(Verdicts') \in Nat
        /\ Cardinality(Verdicts') + 1 = Cardinality(Verdicts)
    BY <2>1, LedgerTypes, CountShrinks DEF Ledger
  <2>3. accepted' + rejected' + Cardinality(Verdicts') + Cardinality(Pings)
          <= Len(arrived) + Others
    BY <1>1, <2>2, <1>n, SMTT(30) DEF Numbers, VerdictsCovered
  <2> QED BY <1>1, <1>2, <1>4, <2>3 DEF VerdictsCovered
<1>7. CASE r.share \in good
  <2>1. r \in Accepts /\ Accepts' = Accepts \ {r}
    BY <1>1, <1>7 DEF Accepts
  <2>2. Rejects' = Rejects
    BY <1>1, <1>4, <1>7 DEF Rejects, Bad
  <2>3. /\ Cardinality(Accepts') \in Nat
        /\ Cardinality(Accepts') + 1 = Cardinality(Accepts)
    BY <2>1, LedgerTypes, CountShrinks DEF Ledger
  <2>4. AcceptsCovered'
    <3>1. accepted' + Cardinality(Accepts') + Cardinality(Pings)
            <= Cardinality(good) + Others
      BY <1>1, <1>7, <2>3, <1>n DEF Numbers, AcceptsCovered
    <3> QED BY <1>1, <1>2, <1>4, <3>1 DEF AcceptsCovered
  <2>5. RejectsCovered'
    BY <1>1, <1>2, <1>4, <1>7, <2>2, <1>n DEF RejectsCovered
  <2> QED BY <1>5, <1>6, <2>4, <2>5 DEF Ledger
<1>8. CASE r.share \notin good
  <2>1. r \in Rejects /\ Rejects' = Rejects \ {r}
    BY <1>1, <1>3, <1>4, <1>8 DEF Rejects, Bad
  <2>2. Accepts' = Accepts
    BY <1>1, <1>8 DEF Accepts
  <2>3. /\ Cardinality(Rejects') \in Nat
        /\ Cardinality(Rejects') + 1 = Cardinality(Rejects)
    BY <2>1, LedgerTypes, CountShrinks DEF Ledger
  <2>4. RejectsCovered'
    <3>1. rejected' + Cardinality(Rejects') + Cardinality(Pings)
            <= Cardinality(Bad) + Others
      BY <1>1, <1>8, <2>3, <1>n DEF Numbers, RejectsCovered
    <3> QED BY <1>1, <1>2, <1>4, <3>1 DEF RejectsCovered
  <2>5. AcceptsCovered'
    BY <1>1, <1>2, <1>4, <1>8, <2>2, <1>n DEF AcceptsCovered
  <2> QED BY <1>5, <1>6, <2>4, <2>5 DEF Ledger
<1> QED BY <1>7, <1>8

(* A count that grows by one stays covered when its cover does.            *)
LEMMA OneMore ==
  ASSUME NEW n \in Nat, NEW m \in Nat, NEW a \in Nat, NEW b \in Nat,
         NEW c \in Nat, NEW o \in Nat, m <= n + 1, n + a + b <= c + o
  PROVE  m + a + b <= c + (o + 1)
  OBVIOUS

(* An answer to nothing is counted, and known as such.                     *)
LEMMA LedgerUnsolicited ==
  ASSUME TypeOK, Ledger, NEW error \in BOOLEAN, Unsolicited(error)
  PROVE  Ledger'
<1>n. Numbers /\ AcceptsCovered /\ RejectsCovered /\ VerdictsCovered
  BY LedgerNumbers
<1>1. /\ wire' = wire /\ pending' = pending
      /\ arrived' = arrived /\ good' = good
      /\ keepalives' = keepalives /\ unsolicited' = unsolicited + 1
      /\ accepted' = IF error THEN accepted ELSE accepted + 1
      /\ rejected' = IF error THEN rejected + 1 ELSE rejected
  BY DEF Unsolicited, CountReply, poolVars
<1>c. /\ accepted' \in Nat /\ accepted' <= accepted + 1
      /\ rejected' \in Nat /\ rejected' <= rejected + 1
  BY <1>1, <1>n DEF Numbers
<1>2. /\ Verdicts' = Verdicts /\ Accepts' = Accepts /\ Rejects' = Rejects
      /\ Pings' = Pings /\ Bad' = Bad
  BY <1>1 DEF Verdicts, Accepts, Rejects, Pings, Bad
<1>3. Others' = Others + 1
  BY <1>1, LedgerTypes DEF Others, Ledger
<1>4. Judged'
  BY <1>1, <1>2 DEF Ledger, Judged
<1> HIDE DEF Others
<1>5. AcceptsCovered'
  <2>1. accepted' + Cardinality(Accepts) + Cardinality(Pings)
          <= Cardinality(good) + (Others + 1)
    BY <1>n, <1>c, OneMore DEF Numbers, AcceptsCovered
  <2> QED BY <1>1, <1>2, <1>3, <2>1 DEF AcceptsCovered
<1>6. RejectsCovered'
  <2>1. rejected' + Cardinality(Rejects) + Cardinality(Pings)
          <= Cardinality(Bad) + (Others + 1)
    BY <1>n, <1>c, OneMore DEF Numbers, RejectsCovered
  <2> QED BY <1>1, <1>2, <1>3, <2>1 DEF RejectsCovered
<1>7. VerdictsCovered'
  <2>0. /\ accepted' + rejected' \in Nat /\ accepted + rejected \in Nat
        /\ accepted' + rejected' <= (accepted + rejected) + 1
    <3>1. accepted \in Nat /\ rejected \in Nat
      BY <1>n DEF Numbers
    <3>2. CASE error = TRUE
      <4>1. accepted' = accepted /\ rejected' = rejected + 1
        BY <1>1, <3>2
      <4> QED BY <3>1, <4>1
    <3>3. CASE error = FALSE
      <4>1. accepted' = accepted + 1 /\ rejected' = rejected
        BY <1>1, <3>3
      <4> QED BY <3>1, <4>1
    <3> QED BY <3>2, <3>3
  <2>1. (accepted' + rejected') + Cardinality(Verdicts) + Cardinality(Pings)
          <= Len(arrived) + (Others + 1)
    BY <1>n, <2>0, OneMore DEF Numbers, VerdictsCovered
  <2> QED BY <1>1, <1>2, <1>3, <2>1 DEF VerdictsCovered
<1> QED BY <1>4, <1>5, <1>6, <1>7 DEF Ledger

LEMMA LedgerStep ==
  TypeOK /\ ArrivalOrder /\ IdsGrow /\ Ledger /\ [Next]_vars => Ledger'
<1> SUFFICES ASSUME TypeOK, ArrivalOrder, IdsGrow, Ledger, [Next]_vars
             PROVE  Ledger'
  OBVIOUS
<1>1. ASSUME UNCHANGED <<wire, pending, arrived, good, accepted, rejected,
                         keepalives, unsolicited>>
      PROVE  Ledger'
  BY <1>1
  DEF Ledger, Judged, AcceptsCovered, RejectsCovered, VerdictsCovered,
      Verdicts, Accepts, Rejects, Pings, Bad, Others
<1>2. CASE FindShare
  BY <1>1, <1>2 DEF FindShare, poolVars, statsVars
<1>3. CASE Login
  BY <1>1, <1>3 DEF Login, poolVars, statsVars
<1>4. CASE SessionEnds
  BY <1>4, LedgerClosed DEF SessionEnds, poolVars, statsVars
<1>5. CASE SubmitShare
  <2>1. Head(queue) \in Shares
    BY <1>5, HeadTailProperties DEF SubmitShare, TypeOK
  <2>2. CASE Write(Head(queue)) /\ UNCHANGED arrived
    <3>1. Head(queue) \in 0 .. MaxShares /\ Head(queue) # 0
      BY <2>1, ShareNumbers
    <3> QED
      BY <1>5, <2>2, <3>1, LedgerWritten DEF SubmitShare, poolVars, statsVars
  <2>3. CASE WriteFails /\ (arrived' = arrived \/ arrived' = Append(arrived, Head(queue)))
    BY <1>5, <2>1, <2>3, LedgerClosed DEF SubmitShare, WriteFails, statsVars
  <2> QED BY <1>5, <2>2, <2>3 DEF SubmitShare
<1>6. CASE SendKeepalive
  <2>1. CASE Write(0)
    <3>1. 0 \in 0 .. MaxShares
      BY BoundsAssumption
    <3> QED BY <1>6, <2>1, <3>1, LedgerWritten DEF SendKeepalive
  <2>2. CASE WriteFails
    BY <1>6, <2>2, LedgerClosed DEF SendKeepalive, WriteFails, poolVars, statsVars
  <2> QED BY <1>6, <2>1, <2>2 DEF SendKeepalive
<1>7. CASE PoolReceives
  BY <1>7, LedgerPinged, LedgerReceived
<1>8. ASSUME NEW r \in pending, NEW error \in BOOLEAN, Reply(r, error)
      PROVE  Ledger'
  BY <1>8, LedgerPong, LedgerVerdict
<1>9. CASE \E error \in BOOLEAN : Unsolicited(error)
  BY <1>9, LedgerUnsolicited
<1>10. CASE UNCHANGED vars
  BY <1>1, <1>10 DEF vars
<1> QED
  BY <1>2, <1>3, <1>4, <1>5, <1>6, <1>7, <1>8, <1>9, <1>10 DEF Next

-----------------------------------------------------------------------------
(* The theorems.                                                           *)

LEMMA FlowInit == Init => FlowInv
<1> SUFFICES ASSUME Init PROVE FlowInv
  OBVIOUS
<1>1. TypeOK /\ ClosedIsEmpty
  BY TypeInit DEF Init, ClosedIsEmpty
<1>2. SharesConserved
  <2>1. <<>> \in Seq(Shares) /\ Len(<<>>) = 0
    BY EmptySeq
  <2>2. <<>> \o <<>> = [i \in 1 .. 0 |-> i]
    BY <2>1, Numbered
  <2> QED BY <2>2 DEF Init, SharesConserved
<1>3. DOMAIN arrived = {} /\ DOMAIN wire = {}
  BY DEF Init
<1>4. ArrivalOrder /\ IdsGrow
  BY <1>3 DEF ArrivalOrder, ArriveInOrderOnce, IdsGrow, Init
<1>5. /\ RangeOf(arrived) = {} /\ RangeOf(wire) = {}
      /\ pending = {} /\ good = {}
  BY <1>3 DEF RangeOf, Init
<1>6. /\ Pings = {} /\ Verdicts = {} /\ Accepts = {} /\ Rejects = {}
      /\ Bad = {} /\ Cardinality({}) = 0 /\ Len(arrived) = 0
  BY <1>5, FS_EmptySet, EmptySeq
  DEF Pings, Verdicts, Accepts, Rejects, Bad, Init
<1>7. Judged
  BY <1>5, <1>6, FS_EmptySet DEF Judged
<1>8. AcceptsCovered /\ RejectsCovered /\ VerdictsCovered
  <2>1. accepted = 0 /\ rejected = 0 /\ Others = 0
    BY DEF Init, Others
  <2> QED
    BY <1>5, <1>6, <2>1 DEF AcceptsCovered, RejectsCovered, VerdictsCovered
<1> QED BY <1>1, <1>2, <1>4, <1>7, <1>8 DEF FlowInv, Ledger

LEMMA FlowStep == FlowInv /\ [Next]_vars => FlowInv'
BY TypeStep, ClosedStep, ConservedStep, OrderStep, IdsStep, LedgerStep
DEF FlowInv

(* The bounds on the counters, once what is outstanding is left out.       *)
LEMMA FlowCounts == FlowInv => CountsAreBounded
<1> SUFFICES ASSUME FlowInv PROVE CountsAreBounded
  OBVIOUS
<1>1. Numbers /\ AcceptsCovered /\ RejectsCovered /\ VerdictsCovered
  BY LedgerNumbers DEF FlowInv
<1>2. accepted <= Cardinality(good) + Others
  BY <1>1 DEF Numbers, AcceptsCovered
<1>3. rejected <= Cardinality(Bad) + Others
  BY <1>1 DEF Numbers, RejectsCovered
<1>4. accepted + rejected <= Len(arrived) + Others
  BY <1>1 DEF Numbers, VerdictsCovered
<1> QED BY <1>2, <1>3, <1>4 DEF CountsAreBounded

(* The flow of shares keeps its invariant, for every capacity of the       *)
(* channel and every number of shares, sessions and keepalives: with it    *)
(* SharesConserved, ArriveInOrderOnce and, by FlowCounts, CountsAreBounded.*)
THEOREM FlowIsInvariant == Spec => []FlowInv
BY FlowInit, FlowStep, PTL DEF Spec
=============================================================================
