----------------------------- MODULE ShareFlow -----------------------------
(***************************************************************************)
(* The way of a share from the thread that found it to the status line:    *)
(* Worker::run puts it on the bounded channel, the session's select! loop  *)
(* takes it off and writes a submit request (StratumClient::submit_share), *)
(* and handle_message counts the pool's reply.  The connection may break   *)
(* at any point; the channel and the counters outlive it.                  *)
(*                                                                         *)
(* A share is the number of its finding.  Which pool a session is with is  *)
(* StratumClient's subject; StratumSession adds the stream of the pool's   *)
(* messages, in which logins and replies arrive, to what is here an atomic *)
(* step.                                                                   *)
(***************************************************************************)
EXTENDS Naturals, Sequences, FiniteSets

CONSTANTS
  Capacity,       \* of the share channel
  Keepalive,      \* the first pool's keepalive flag
  MaxShares,      \* bound: shares found
  MaxKeepalives   \* bound: keepalive requests

ASSUME CapacityAssumption == Capacity \in Nat \ {0}
ASSUME KeepaliveAssumption == Keepalive \in BOOLEAN
ASSUME BoundsAssumption ==
  {MaxShares, MaxKeepalives} \subseteq Nat

VARIABLES
  found,       \* shares found so far
  queue,       \* the mpsc channel
  open,        \* a session is past its login
  seq,         \* the id of the session's next request
  attempts,    \* shares whose write was begun, in order; it may have failed
  wire,        \* requests written and not yet received by the pool
  pending,     \* requests the pool has whose reply was not yet handled
  arrived,     \* shares the pool has received, session by session, in order
  good,        \* those of them it accepts
  accepted,    \* StratumStats.accepted
  rejected,    \* StratumStats.rejected
  keepalives,  \* keepalive requests so far
  unsolicited  \* messages handled that have an id and answer no request

channelVars == <<found, queue, attempts>>
poolVars == <<arrived, good>>
statsVars == <<accepted, rejected>>
vars == <<found, queue, attempts, open, seq, wire, pending, arrived, good,
          accepted, rejected, keepalives, unsolicited>>

Shares == 1 .. MaxShares

(* Every submit and every keepalive is a request; a keepalive's share is 0.*)
Requests == [id : Nat, share : 0 .. MaxShares]

Init ==
  /\ found = 0
  /\ queue = <<>>
  /\ open = FALSE
  /\ seq = 1
  /\ attempts = <<>>
  /\ wire = <<>>
  /\ pending = {}
  /\ arrived = <<>>
  /\ good = {}
  /\ accepted = 0
  /\ rejected = 0
  /\ keepalives = 0
  /\ unsolicited = 0

-----------------------------------------------------------------------------
(* Faulty FindShare: try_send, which drops the share when there is no room.*)
FindShareOrDrop ==
  /\ found < MaxShares
  /\ found' = found + 1
  /\ queue' = IF Len(queue) < Capacity THEN Append(queue, found + 1) ELSE queue
  /\ UNCHANGED <<attempts, open, seq, wire, pending, poolVars, statsVars,
                 keepalives, unsolicited>>

(* Faulty FindShare: an unbounded channel.                                 *)
FindShareUnbounded ==
  /\ found < MaxShares
  /\ found' = found + 1
  /\ queue' = Append(queue, found + 1)
  /\ UNCHANGED <<attempts, open, seq, wire, pending, poolVars, statsVars,
                 keepalives, unsolicited>>

(* submit_tx.blocking_send, once the channel has room.                     *)
FindShare ==
  /\ found < MaxShares
  /\ Len(queue) < Capacity
  /\ found' = found + 1
  /\ queue' = Append(queue, found + 1)
  /\ UNCHANGED <<attempts, open, seq, wire, pending, poolVars, statsVars,
                 keepalives, unsolicited>>

(* A login succeeds: the ids start again.                                  *)
Login ==
  /\ ~open
  /\ open' = TRUE
  /\ seq' = 2
  /\ UNCHANGED <<channelVars, wire, pending, poolVars, statsVars, keepalives,
                 unsolicited>>

(* The session is over.  What the pool still receives of it, it is taken   *)
(* to have received before: what it says to that has no way back, and      *)
(* PoolReceives may come first.  The rest is lost with the connection.     *)
Close ==
  /\ open' = FALSE
  /\ wire' = <<>>
  /\ pending' = {}

(* A read fails, the pool closes, or the client leaves.                    *)
SessionEnds ==
  /\ open
  /\ Close
  /\ UNCHANGED <<channelVars, seq, poolVars, statsVars, keepalives,
                 unsolicited>>

(* write_line succeeds: the request is on its way, under the next id.      *)
Write(s) ==
  /\ wire' = Append(wire, [id |-> seq, share |-> s])
  /\ seq' = seq + 1
  /\ UNCHANGED <<open, pending>>

(* write_line fails; the error ends the session.                           *)
WriteFails == Close /\ UNCHANGED seq

(* Faulty SubmitShare: a share is taken off the channel only when its      *)
(* write has succeeded, which it may have for the pool before it failed.   *)
SubmitShareThenTake ==
  /\ open
  /\ queue # <<>>
  /\ attempts' = Append(attempts, Head(queue))
  /\ \/ Write(Head(queue)) /\ queue' = Tail(queue) /\ UNCHANGED arrived
     \/ /\ wire = <<>> /\ WriteFails
        /\ arrived' = Append(arrived, Head(queue))
        /\ UNCHANGED queue
  /\ UNCHANGED <<found, good, statsVars, keepalives, unsolicited>>

(* Faulty SubmitShare: a share whose write failed goes back to the channel.*)
SubmitShareOrRequeue ==
  /\ open
  /\ queue # <<>>
  /\ attempts' = Append(attempts, Head(queue))
  /\ \/ Write(Head(queue)) /\ queue' = Tail(queue)
     \/ WriteFails /\ queue' = Append(Tail(queue), Head(queue))
  /\ UNCHANGED <<found, poolVars, statsVars, keepalives, unsolicited>>

(* submit_rx.recv(), then submit_share: the share has left the channel     *)
(* before it is written, and a write that fails is not repeated, though    *)
(* the pool may have received it all the same, as the last of this         *)
(* session; its verdict then has no way back.                              *)
SubmitShare ==
  /\ open
  /\ queue # <<>>
  /\ queue' = Tail(queue)
  /\ attempts' = Append(attempts, Head(queue))
  /\ \/ Write(Head(queue)) /\ UNCHANGED arrived
     \/ WriteFails /\ UNCHANGED arrived
     \/ wire = <<>> /\ WriteFails /\ arrived' = Append(arrived, Head(queue))
  /\ UNCHANGED <<found, good, statsVars, keepalives, unsolicited>>

(* keepalive_timer.tick(), then send_keepalive.                            *)
SendKeepalive ==
  /\ Keepalive
  /\ open
  /\ keepalives < MaxKeepalives
  /\ keepalives' = keepalives + 1
  /\ Write(0) \/ WriteFails
  /\ UNCHANGED <<channelVars, poolVars, statsVars, unsolicited>>

(* The pool receives a request, and makes up its mind about a share.       *)
PoolReceives ==
  /\ wire # <<>>
  /\ wire' = Tail(wire)
  /\ pending' = pending \cup {Head(wire)}
  /\ LET s == Head(wire).share
     IN IF s = 0
        THEN UNCHANGED poolVars
        ELSE arrived' = Append(arrived, s) /\ good' \in {good, good \cup {s}}
  /\ UNCHANGED <<channelVars, open, seq, statsVars, keepalives, unsolicited>>

(* Faulty CountReply: the reply's error field is not looked at.            *)
CountAllAccepted(error) ==
  /\ accepted' = accepted + 1
  /\ UNCHANGED rejected

(* The last branch of handle_message: whatever the message answers.        *)
CountReply(error) ==
  /\ accepted' = IF error THEN accepted ELSE accepted + 1
  /\ rejected' = IF error THEN rejected + 1 ELSE rejected

(* A reply is handled: to a submit it is the verdict, to a keepalive what  *)
(* the pool likes.                                                         *)
Reply(r, error) ==
  /\ open
  /\ r \in pending
  /\ r.share # 0 => error = (r.share \notin good)
  /\ pending' = pending \ {r}
  /\ CountReply(error)
  /\ UNCHANGED <<channelVars, open, seq, wire, poolVars, keepalives,
                 unsolicited>>

(* A message with an id that answers no request and is neither a job nor a *)
(* client.reconnect: NiceHash's id is -1 in "unsolicited notifications".   *)
Unsolicited(error) ==
  /\ open
  /\ unsolicited' = unsolicited + 1
  /\ CountReply(error)
  /\ UNCHANGED <<channelVars, open, seq, wire, pending, poolVars, keepalives>>

-----------------------------------------------------------------------------
Next ==
  \/ FindShare
  \/ Login
  \/ SessionEnds
  \/ SubmitShare
  \/ SendKeepalive
  \/ PoolReceives
  \/ \E r \in pending, error \in BOOLEAN : Reply(r, error)
  \/ \E error \in BOOLEAN : Unsolicited(error)

(* The client reconnects, and serves the channel while in a session.       *)
Fairness == WF_vars(Login) /\ WF_vars(SubmitShare)

Spec == Init /\ [][Next]_vars /\ Fairness

-----------------------------------------------------------------------------
RangeOf(s) == {s[i] : i \in DOMAIN s}

TypeOK ==
  /\ found \in 0 .. MaxShares
  /\ queue \in Seq(Shares) /\ Len(queue) <= Capacity
  /\ open \in BOOLEAN
  /\ seq \in Nat
  /\ wire \in Seq(Requests)
  /\ pending \subseteq Requests
  /\ attempts \in Seq(Shares)
  /\ arrived \in Seq(Shares)
  /\ good \subseteq Shares
  /\ {accepted, rejected, keepalives, unsolicited} \subseteq Nat

(* Within a session and from one to the next, the pool is sent the shares  *)
(* in the order they were found and receives none twice, however often the *)
(* connection breaks: a resubmitted share is rejected as a duplicate.      *)
ArriveInOrderOnce ==
  \A i, j \in DOMAIN arrived : i < j => arrived[i] < arrived[j]

(* The writes attempted, followed by what the channel holds, are exactly   *)
(* the shares found, in the order they were found: a broken connection     *)
(* costs no share still in the channel, and none is written twice.         *)
SharesConserved == attempts \o queue = [i \in 1 .. found |-> i]

(* No verdict is counted twice or under the wrong heading, across any      *)
(* number of sessions: what the counters exceed the pool's verdicts by are *)
(* answers that were to no submit.                                         *)
Bad == RangeOf(arrived) \ good
Others == keepalives + unsolicited
CountsAreBounded ==
  /\ accepted <= Cardinality(good) + Others
  /\ rejected <= Cardinality(Bad) + Others
  /\ accepted + rejected <= Len(arrived) + Others

(* The write of every share found is begun in the end, however long the    *)
(* client is between sessions; one that fails is not repeated.             *)
EveryShareIsWritten ==
  \A s \in Shares : (s <= found) ~> (s \in RangeOf(attempts))
=============================================================================
