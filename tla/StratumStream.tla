---------------------------- MODULE StratumStream ----------------------------
(***************************************************************************)
(* Reading the pool's messages: StratumStream::read_line                   *)
(* (src/src/stratum/connection.rs), its queue of messages that came in one *)
(* line, and the select! loop of the session (src/src/stratum/mod.rs) that *)
(* drops a pending read_line whenever another branch is ready first.       *)
(*                                                                         *)
(* Messages are numbered as the pool sends them.  On the wire a message is *)
(* its two halves, and a newline ends a line; a read takes any number of   *)
(* these units that have arrived.                                          *)
(***************************************************************************)
EXTENDS Naturals, Sequences

CONSTANTS
  MaxPerLine,  \* messages a pool puts in one line
  MaxMessages, \* bound: messages sent
  MaxBlanks,   \* bound: empty lines sent
  MaxCancels   \* bound: reads dropped by select!

Halves == [msg : Nat, half : {1, 2}]
Newline == [msg |-> 0, half |-> 0]
Units == Halves \cup {Newline}

VARIABLES
  sent,       \* messages the pool has sent
  blanks,     \* empty lines it has sent
  wire,       \* units sent and not yet read
  eof,        \* the pool has closed its side
  buf,        \* the line the pending read_line has read so far
  pending,    \* StratumStream.pending
  delivered,  \* messages returned by read_line, in order
  state,      \* "login", "session", or "failed" once read_line returned Err
  cancels,    \* history: reads dropped
  torn        \* history: messages of which a dropped read had read a part

vars == <<sent, blanks, wire, eof, buf, pending, delivered, state, cancels,
          torn>>
poolVars == <<sent, blanks, eof>>
historyVars == <<cancels, torn>>

Init ==
  /\ sent = 0
  /\ blanks = 0
  /\ wire = <<>>
  /\ eof = FALSE
  /\ buf = <<>>
  /\ pending = <<>>
  /\ delivered = <<>>
  /\ state = "login"
  /\ cancels = 0
  /\ torn = {}

-----------------------------------------------------------------------------
(* The pool.                                                               *)

(* A line of the messages first .. last, without its newline.              *)
Line(first, last) ==
  [i \in 1 .. 2 * (last + 1 - first) |->
     [msg |-> first + ((i - 1) \div 2), half |-> 1 + ((i - 1) % 2)]]

SendLine(n) ==
  /\ ~eof
  /\ sent + n <= MaxMessages
  /\ n = 0 => blanks < MaxBlanks
  /\ wire' = (wire \o Line(sent + 1, sent + n)) \o <<Newline>>
  /\ sent' = sent + n
  /\ blanks' = IF n = 0 THEN blanks + 1 ELSE blanks
  /\ UNCHANGED <<eof, buf, pending, delivered, state, historyVars>>

CloseWire ==
  /\ ~eof
  /\ eof' = TRUE
  /\ UNCHANGED <<sent, blanks, wire, buf, pending, delivered, state,
                 historyVars>>

-----------------------------------------------------------------------------
(* read_line.                                                              *)

(* The messages of a line, if the JSON parser reads it to its end.         *)
Whole(line) ==
  /\ Len(line) % 2 = 0
  /\ \A k \in 1 .. Len(line) \div 2 :
       /\ line[2 * k - 1].half = 1
       /\ line[2 * k] = [line[2 * k - 1] EXCEPT !.half = 2]
Messages(line) == [k \in 1 .. Len(line) \div 2 |-> line[2 * k].msg]

(* Faulty Accept: the rest of the line is queued before its first message. *)
AcceptReversed(line) ==
  /\ delivered' = Append(delivered, Messages(line)[Len(line) \div 2])
  /\ pending' = SubSeq(Messages(line), 1, Len(line) \div 2 - 1)

(* Faulty Accept: the first message is queued as well.                     *)
AcceptQueueingAll(line) ==
  /\ delivered' = Append(delivered, Head(Messages(line)))
  /\ pending' = Messages(line)

(* The first message is returned, the others wait in `pending`.            *)
Accept(line) ==
  /\ delivered' = Append(delivered, Head(Messages(line)))
  /\ pending' = Tail(Messages(line))

(* Err: the session ends and the stream with it.                           *)
Fail ==
  /\ state' = "failed"
  /\ UNCHANGED <<delivered, pending>>

Parse(line) ==
  IF Whole(line)
  THEN state' = "session" /\ Accept(line)
  ELSE Fail

(* A queued message is returned at once.                                   *)
PopPending ==
  /\ state = "session"
  /\ pending # <<>>
  /\ delivered' = Append(delivered, Head(pending))
  /\ pending' = Tail(pending)
  /\ UNCHANGED <<poolVars, wire, buf, state, historyVars>>

Reading == state # "failed" /\ pending = <<>>

(* BufReader::read_line takes what has arrived of the line, and waits for  *)
(* the rest of it.                                                         *)
ReadPart ==
  /\ Reading
  /\ \E n \in 1 .. Len(wire) :
       /\ \A i \in 1 .. n : wire[i] # Newline
       /\ buf' = buf \o SubSeq(wire, 1, n)
       /\ wire' = SubSeq(wire, n + 1, Len(wire))
  /\ UNCHANGED <<poolVars, pending, delivered, state, historyVars>>

(* The newline completes the line; an empty one is skipped.                *)
ReadNewline ==
  /\ Reading
  /\ wire # <<>>
  /\ Head(wire) = Newline
  /\ wire' = Tail(wire)
  /\ buf' = <<>>
  /\ IF buf = <<>>
     THEN UNCHANGED <<delivered, pending, state>>
     ELSE Parse(buf)
  /\ UNCHANGED <<poolVars, historyVars>>

(* At the end of the stream read_line takes the unfinished line for a      *)
(* line; if there is none, it is "Connection closed".                      *)
ReadEof ==
  /\ Reading
  /\ wire = <<>>
  /\ eof
  /\ buf' = <<>>
  /\ IF buf = <<>> THEN Fail ELSE Parse(buf)
  /\ UNCHANGED <<poolVars, wire, historyVars>>

(* Faulty Cancel: as the code, and the queue is emptied too.               *)
CancelDroppingPending ==
  /\ state = "session" /\ cancels < MaxCancels
  /\ cancels' = cancels + 1
  /\ torn' = torn \cup {buf[i].msg : i \in DOMAIN buf}
  /\ buf' = <<>>
  /\ pending' = <<>>
  /\ UNCHANGED <<poolVars, wire, delivered, state>>

(* Another branch of select! is ready first: a share is submitted or a     *)
(* keepalive sent, the read_line future is dropped, and its buffer with    *)
(* it.  The login response is read outside the select!.                    *)
Cancel ==
  /\ state = "session"
  /\ cancels < MaxCancels
  /\ cancels' = cancels + 1
  /\ torn' = torn \cup {buf[i].msg : i \in DOMAIN buf}
  /\ buf' = <<>>
  /\ UNCHANGED <<poolVars, wire, pending, delivered, state>>

-----------------------------------------------------------------------------
Next ==
  \/ \E n \in 0 .. MaxPerLine : SendLine(n)
  \/ CloseWire
  \/ PopPending
  \/ ReadPart
  \/ ReadNewline
  \/ ReadEof
  \/ Cancel

(* select! polls its branches in random order, so a read that can go on    *)
(* does; the pool owes nothing.                                            *)
Fairness == WF_vars(PopPending) /\ WF_vars(ReadPart \/ ReadNewline \/ ReadEof)

Spec == Init /\ [][Next]_vars /\ Fairness

-----------------------------------------------------------------------------
RangeOf(s) == {s[i] : i \in DOMAIN s}

TypeOK ==
  /\ sent \in 0 .. MaxMessages
  /\ blanks \in 0 .. MaxBlanks
  /\ wire \in Seq(Units)
  /\ eof \in BOOLEAN
  /\ buf \in Seq(Halves)
  /\ pending \in Seq(1 .. sent) /\ Len(pending) < MaxPerLine
  /\ delivered \in Seq(1 .. sent)
  /\ state \in {"login", "session", "failed"}
  /\ cancels \in 0 .. MaxCancels
  /\ torn \subseteq 1 .. sent

(* "so callers always see one message per read_line() call": the session   *)
(* sees the pool's messages in the order they were sent and none twice,    *)
(* those that shared a line included, whatever reads are dropped.  A job   *)
(* delivered late or twice would put the threads back on an old job.       *)
SeenInOrder ==
  LET seen == delivered \o pending
  IN \A i, j \in DOMAIN seen : i < j => seen[i] < seen[j]

(* Only a message of which a dropped read had a part is skipped, for what  *)
(* lies in `pending` or in the socket survives the drop; and a read fails  *)
(* only because the pool closed the connection or because a dropped read   *)
(* had left the rest of a message in the stream.                           *)
OnlyTornAreLost ==
  LET seen == RangeOf(delivered \o pending)
  IN /\ \A m \in seen : 1 .. m \subseteq seen \cup torn
     /\ state = "failed" => eof \/ torn # {}

(* Every message is seen in the end, however it was cut up on the way, if  *)
(* the session does not fail and no dropped read had a part of it.         *)
EveryMessageIsSeen ==
  \A m \in 1 .. MaxMessages :
    (m <= sent) ~> (m \in RangeOf(delivered) \cup torn \/ state = "failed")

-----------------------------------------------------------------------------
(* "we split those out at read time so callers always see one message per  *)
(* `read_line()` call" (connection.rs:16): of a pool that sends complete   *)
(* messages and keeps the connection open, the session sees them all.      *)
CallersSeeEveryMessage ==
  /\ state = "failed" => eof
  /\ \A m \in RangeOf(delivered \o pending) :
       1 .. m \subseteq RangeOf(delivered \o pending)
=============================================================================
