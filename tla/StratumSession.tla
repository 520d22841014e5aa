---------------------------- MODULE StratumSession ----------------------------
(***************************************************************************)
(* A session with a pool: StratumClient::cryptonote_session                *)
(* (src/src/stratum/mod.rs), which composes the flow of shares (ShareFlow) *)
(* with the reading of messages (StratumStream).  Its select! loop serves  *)
(* both, so each share or keepalive it sends drops the read it was waiting *)
(* for, and with that perhaps a part of the reply to an earlier one.       *)
(***************************************************************************)
EXTENDS ShareFlow

CONSTANTS
  MaxPerLine,  \* messages a pool puts in one line
  MaxBlanks,   \* bound: empty lines sent
  MaxDrops     \* bound: connections broken or left

ASSUME PerLineAssumption == MaxPerLine \in Nat \ {0}
ASSUME SessionBoundsAssumption == {MaxBlanks, MaxDrops} \subseteq Nat

VARIABLES
  sent, blanks, incoming, eof, buf, queued, delivered, state, cancels, torn,
  contents,  \* what each message of the session says
  notices,   \* messages sent so far that answer no request
  drops      \* connections broken or left so far

streamVars == <<sent, blanks, incoming, eof, buf, queued, delivered, state,
                cancels, torn>>
sessionVars == <<vars, streamVars, contents, notices, drops>>

(* Keepalives and notices share the bound MaxKeepalives.                   *)
MaxMessages == 1 + MaxShares + MaxKeepalives

(* The stream of one session; its state is "closed" between sessions.      *)
In == INSTANCE StratumStream
        WITH wire <- incoming, pending <- queued,
             MaxCancels <- MaxShares + MaxKeepalives

SessionInit ==
  /\ Init
  /\ sent = 0 /\ blanks = 0 /\ eof = FALSE
  /\ incoming = <<>> /\ buf = <<>> /\ queued = <<>> /\ delivered = <<>>
  /\ state = "closed"
  /\ cancels = 0 /\ torn = {}
  /\ contents = <<>>
  /\ notices = 0
  /\ drops = 0

(* With the connection go the stream and what it held.                     *)
FreshStream(s) ==
  /\ sent' = 0 /\ blanks' = 0 /\ eof' = FALSE
  /\ incoming' = <<>> /\ buf' = <<>> /\ queued' = <<>> /\ delivered' = <<>>
  /\ state' = s
  /\ cancels' = 0 /\ torn' = {}
  /\ contents' = <<>>

Connected == state \in {"login", "session"}

(* StratumStream::connect, with the login request.                         *)
Connect ==
  /\ ~Connected
  /\ FreshStream("login")
  /\ UNCHANGED <<vars, notices, drops>>

-----------------------------------------------------------------------------
(* The pool.                                                               *)

Say(new) ==
  /\ Connected
  /\ In!SendLine(Len(new))
  /\ contents' = contents \o new
  /\ UNCHANGED <<vars, drops>>

PoolLogsIn ==
  /\ contents = <<>>
  /\ Say(<<[kind |-> "login"]>>)
  /\ UNCHANGED notices

(* What it may say next: the verdict on a share, an answer to a keepalive, *)
(* or what it was not asked for, which HandleNotice takes apart.           *)
Notice == [kind |-> "notice"]
Replies ==
  {c \in [kind : {"reply"}, request : pending, error : BOOLEAN] :
     /\ c.request.share # 0 => c.error = (c.request.share \notin good)
     /\ \A i \in DOMAIN contents :
          contents[i].kind = "reply" => contents[i].request # c.request}

(* The pool answers, several messages to a line if it likes.               *)
PoolSays ==
  /\ contents # <<>>
  /\ \E n \in 0 .. MaxPerLine : \E new \in [1 .. n -> Replies \cup {Notice}] :
       LET said == {i \in 1 .. n : new[i] = Notice}
       IN /\ \A i, j \in (1 .. n) \ said :
                 i # j => new[i].request # new[j].request
          /\ keepalives + notices + Cardinality(said) <= MaxKeepalives
          /\ notices' = notices + Cardinality(said)
          /\ Say(new)

PoolTakes ==
  /\ ~eof
  /\ PoolReceives
  /\ UNCHANGED <<streamVars, contents, notices, drops>>

Drop == drops < MaxDrops /\ drops' = drops + 1

PoolCloses ==
  /\ Connected
  /\ Drop
  /\ In!CloseWire
  /\ UNCHANGED <<vars, contents, notices>>

-----------------------------------------------------------------------------
(* The client.                                                             *)

(* A job, which goes to the threads, or a message without an id changes    *)
(* nothing here; any other that was not asked for is counted.  (After a    *)
(* client.reconnect, or a job that cannot be decoded, the client Leaves.)  *)
HandleNotice ==
  \/ UNCHANGED vars
  \/ \E error \in BOOLEAN : Unsolicited(error)

(* Faulty Handle: the login response counts as well, for it has an id.     *)
HandleLoginAsReply ==
  IF delivered' = delivered
  THEN IF state' = "failed" /\ open THEN SessionEnds ELSE UNCHANGED vars
  ELSE LET c == contents[delivered'[Len(delivered')]]
       IN CASE c.kind = "login"  -> /\ open' = TRUE /\ seq' = 2
                                    /\ CountReply(FALSE)
                                    /\ UNCHANGED <<channelVars, wire, pending,
                                         poolVars, keepalives, unsolicited>>
            [] c.kind = "reply"  -> Reply(c.request, c.error)
            [] c.kind = "notice" -> HandleNotice

(* What read_line returned goes to the login or to handle_message; an      *)
(* error ends the session.                                                 *)
Handle ==
  IF delivered' = delivered
  THEN IF state' = "failed" /\ open THEN SessionEnds ELSE UNCHANGED vars
  ELSE LET c == contents[delivered'[Len(delivered')]]
       IN CASE c.kind = "login"  -> Login
            [] c.kind = "reply"  -> Reply(c.request, c.error)
            [] c.kind = "notice" -> HandleNotice

Read ==
  /\ Connected
  /\ In!PopPending \/ In!ReadPart \/ In!ReadNewline \/ In!ReadEof
  /\ Handle
  /\ UNCHANGED <<contents, notices, drops>>

(* A request was written in another branch of select!, which drops the     *)
(* pending read; or its write failed, which ends the session.              *)
Written ==
  \/ /\ open'
     /\ In!Cancel
     /\ UNCHANGED <<contents, notices, drops>>
  \/ /\ ~open'
     /\ Drop
     /\ FreshStream("closed")
     /\ UNCHANGED notices

Submit == SubmitShare /\ Written
KeepAlive == keepalives + notices < MaxKeepalives /\ SendKeepalive /\ Written

(* The login response is an error, or carries no job.                      *)
LoginRefused ==
  /\ state = "login"
  /\ contents # <<>>
  /\ Drop
  /\ FreshStream("closed")
  /\ UNCHANGED <<vars, notices>>

(* The donation's signal, a client.reconnect, or a message that is no JSON *)
(* of the kind it should be.                                               *)
Leave ==
  /\ SessionEnds
  /\ Drop
  /\ FreshStream("closed")
  /\ UNCHANGED notices

Find == FindShare /\ UNCHANGED <<streamVars, contents, notices, drops>>

-----------------------------------------------------------------------------
SessionNext ==
  \/ Find
  \/ Connect \/ LoginRefused \/ Read \/ Submit \/ KeepAlive \/ Leave
  \/ PoolLogsIn \/ PoolSays \/ PoolTakes \/ PoolCloses

(* The client reconnects; select! polls its branches in random order, so   *)
(* what is ready is served in the end.  Of the pool it is assumed only     *)
(* that it answers a login: StratumClient has the pool that does not.      *)
SessionFairness ==
  /\ WF_sessionVars(Connect)
  /\ WF_sessionVars(PoolLogsIn)
  /\ WF_sessionVars(Read)
  /\ WF_sessionVars(Submit)

SessionSpec == SessionInit /\ [][SessionNext]_sessionVars /\ SessionFairness

-----------------------------------------------------------------------------
SessionTypeOK ==
  /\ TypeOK
  /\ state = "closed" \/ In!TypeOK
  /\ open <=> (state = "session")
  /\ Len(contents) = sent
  /\ keepalives + notices \in 0 .. MaxKeepalives
  /\ drops \in 0 .. MaxDrops

(* "so callers always see one message per read_line() call"                *)
(* (connection.rs:16): within a session messages are handled in the order  *)
(* they were sent and none twice, those that shared a line included,       *)
(* whichever reads the client's own requests drop.                         *)
SeenInOrder == In!SeenInOrder

(* Only a message of which a dropped read had a part is skipped, for what  *)
(* lies in the queue or in the socket survives the drop; and a read fails  *)
(* only because the pool closed the connection or because a dropped read   *)
(* had left the rest of a message in the stream.                           *)
OnlyTornAreLost == In!OnlyTornAreLost

(* Every message is handled in the end, however it was cut up on the way,  *)
(* unless a dropped read had a part of it or its session is over: a        *)
(* verdict is not starved by the shares the client goes on submitting.     *)
EveryMessageIsSeen ==
  \A m \in 1 .. MaxMessages :
    (m <= sent) ~> (m \in RangeOf(delivered) \cup torn \/ ~Connected)

(* The session with its stream, in which a reply may be cut up, queued,    *)
(* lost to a dropped read or end the session, implements the flow of       *)
(* shares in which it is handled or not, and logins and submissions happen.*)
ImplementsShareFlow == Spec
=============================================================================
