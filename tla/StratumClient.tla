--------------------------- MODULE StratumClient ---------------------------
(***************************************************************************)
(* The life of the stratum client's connections (src/src/stratum/mod.rs):  *)
(* StratumClient::run choosing a pool, connecting, logging in, serving the *)
(* session, backing off and failing over, while the donation loop flips    *)
(* the override pool and pools redirect the client or drop it.             *)
(*                                                                         *)
(* Each await of the client is a value of `phase`; between two awaits it   *)
(* touches only its own fields and, in current() and next(), the override  *)
(* slot once, so that stretch is one action.  The shares and replies of a  *)
(* session are left out: they do not influence which pool is used.         *)
(***************************************************************************)
EXTENDS DonationLoop

CONSTANTS
  Retries,       \* config.retries
  Dead,          \* endpoints that refuse every connection
  Silent,        \* endpoints that accept the connection and never answer
  Redirecting,   \* pools that may send client.reconnect
  MaxRedirects,  \* bound: how often pools redirect the client
  MaxDrops       \* bound: failures of endpoints that are neither

ASSUME RetriesAssumption == Retries \in Nat
ASSUME EndpointAssumption == Dead \subseteq Endpoints /\ Silent \subseteq Endpoints
ASSUME RedirectingAssumption == Redirecting \subseteq Pools
ASSUME ClientBoundsAssumption == MaxRedirects \in Nat /\ MaxDrops \in Nat
ASSUME ConnectionNoneAssumption == None \notin Connections

VARIABLES
  phase,      \* which await of the client is pending
  session,    \* the `pool` of the running connect_and_mine, or None
  retry,      \* retry_count
  job,        \* whose job the job channel holds, or None
  redirects,  \* client.reconnect messages so far
  drops       \* bounded failures so far

clientVars == <<phase, session, retry, job, redirects, drops>>
vars == <<current, redirect, override, dpc, signals, left, balance,
          phase, session, retry, job, redirects, drops>>

Init ==
  /\ PoolInit
  /\ DonationInit
  /\ phase = "idle"
  /\ session = None
  /\ retry = 0
  /\ job = None
  /\ redirects = 0
  /\ drops = 0

-----------------------------------------------------------------------------
(* How connect_and_mine ends.                                              *)

EndSession ==
  /\ phase' = "idle"
  /\ session' = None

(* Ok(()): retry_count = 0.                                                *)
EndsOk ==
  /\ EndSession
  /\ retry' = 0

(* Faulty EndsWithError: the last retry starts a new count on the same     *)
(* pool.                                                                   *)
EndsWithErrorForGood ==
  /\ EndSession
  /\ retry' = IF retry + 1 >= Retries THEN 0 ELSE retry + 1
  /\ UNCHANGED poolVars

(* Err(e): count it; after Retries of them move to the next pool.          *)
EndsWithError ==
  /\ EndSession
  /\ IF retry + 1 >= Retries
     THEN retry' = 0 /\ NextPool
     ELSE retry' = retry + 1 /\ UNCHANGED poolVars

(* A failure the bound MaxDrops allows.                                    *)
SpendDrop ==
  /\ drops < MaxDrops
  /\ drops' = drops + 1

-----------------------------------------------------------------------------
(* StratumClient::run and the session, up to the next await.               *)

(* Faulty Begin: the override slot is not consulted.                       *)
BeginForUser ==
  /\ phase = "idle"
  /\ session' = [pool |-> current, at |-> Home(current)]
  /\ phase' = "connect"
  /\ UNCHANGED <<poolVars, donationVars, retry, job, redirects, drops>>

(* The back-off is over: pools.current(), then StratumStream::connect.     *)
Begin ==
  /\ phase = "idle"
  /\ session' = CurrentPool
  /\ phase' = "connect"
  /\ UNCHANGED <<poolVars, donationVars, retry, job, redirects, drops>>

(* The TCP (and TLS) connection stands; the login request is written.      *)
Connected ==
  /\ phase = "connect"
  /\ session.at \notin Dead
  /\ phase' = "login"
  /\ UNCHANGED <<poolVars, donationVars, session, retry, job, redirects,
                 drops>>

(* The login response carries the first job, which is published.           *)
LoggedIn ==
  /\ phase = "login"
  /\ session.at \notin Silent
  /\ phase' = "mining"
  /\ job' = session.pool
  /\ UNCHANGED <<poolVars, donationVars, session, retry, redirects, drops>>

(* The connection is refused, or lost before the session's select! loop,   *)
(* or the pool rejects the login.                                          *)
AttemptFails ==
  /\ \/ phase = "connect" /\ session.at \in Dead /\ UNCHANGED drops
     \/ phase = "connect" /\ session.at \notin Dead /\ SpendDrop
     \/ phase = "login" /\ SpendDrop
  /\ EndsWithError
  /\ UNCHANGED <<donationVars, job, redirects>>

(* Any branch of the select! that lets the session go on: a new job or a   *)
(* reply from the pool, a share or a keepalive sent.                       *)
Serve ==
  /\ phase = "mining"
  /\ job' = session.pool
  /\ DropListener
  /\ UNCHANGED <<poolVars, dpc, clockVars, phase, session, retry, redirects,
                 drops>>

(* handle_message: client.reconnect names another endpoint of the pool     *)
(* that operates the one connected to.                                     *)
Redirected ==
  /\ phase = "mining"
  /\ session.at.owner \in Redirecting
  /\ redirects < MaxRedirects
  /\ \E n \in 1 .. Alternates :
       SetRedirect([owner |-> session.at.owner, n |-> n])
  /\ redirects' = redirects + 1
  /\ EndsOk
  /\ DropListener
  /\ UNCHANGED <<dpc, clockVars, job, drops>>

(* The reconnect signal ends the session.                                  *)
Signalled ==
  /\ phase = "mining"
  /\ ConsumeSignal
  /\ EndsOk
  /\ UNCHANGED <<poolVars, dpc, clockVars, job, redirects, drops>>

(* A read, a write or a parse fails in the select! loop.                   *)
SessionFails ==
  /\ phase = "mining"
  /\ SpendDrop
  /\ EndsWithError
  /\ DropListener
  /\ UNCHANGED <<dpc, clockVars, job, redirects>>

(* The donation task's sleep and its two steps.                            *)
DonationSleep == TimePasses /\ UNCHANGED clientVars
DonationFlip == Flip /\ UNCHANGED clientVars
DonationNotify == NotifyOne(phase = "mining") /\ UNCHANGED clientVars

-----------------------------------------------------------------------------
Next ==
  \/ Begin
  \/ Connected
  \/ LoggedIn
  \/ AttemptFails
  \/ Serve
  \/ Redirected
  \/ Signalled
  \/ SessionFails
  \/ DonationSleep
  \/ DonationFlip
  \/ DonationNotify

(* The back-off timer fires; a connect or a login is answered one way or   *)
(* the other, except at a Silent endpoint; select! polls its branches in   *)
(* random order, so it does not ignore a pending signal for ever; the      *)
(* donation task is scheduled.  No minute, redirect or message is owed.    *)
Fairness ==
  /\ WF_vars(Begin)
  /\ WF_vars(Connected \/ LoggedIn \/ AttemptFails)
  /\ WF_vars(Signalled)
  /\ WF_vars(DonationNotify)

Spec == Init /\ [][Next]_vars /\ Fairness

-----------------------------------------------------------------------------
TypeOK ==
  /\ PoolTypeOK
  /\ DonationTypeOK
  /\ phase \in {"idle", "connect", "login", "mining"}
  /\ session \in IF phase = "idle" THEN {None} ELSE Connections
  /\ retry \in 0 .. Retries
  /\ job \in Pools \cup {None}
  /\ redirects \in Nat
  /\ drops \in Nat

(* The connection belongs to the side, user or dev, that the donation loop *)
(* has since left.                                                         *)
Stale == phase # "idle" /\ ((session.pool = Dev) # override)

(* "Caller is responsible for notifying the reconnect signal after         *)
(* flipping": whenever the connection is for the wrong side, a signal is   *)
(* on its way, whatever flips, failures and redirects did in between; no   *)
(* signal is spent on a session that was chosen after the flip while an    *)
(* older one is left unsignalled.                                          *)
StaleSessionIsSignalled == Stale => signals > 0 \/ dpc = "notify"

(* The wallet of one user pool is not logged in at an endpoint of another, *)
(* and the dev wallet only at the dev pool's configured address, whatever  *)
(* order redirects, failovers and flips come in: the one redirect slot is  *)
(* shared by all the pools.                                                *)
WalletsDoNotCross ==
  phase # "idle" =>
    IF session.pool = Dev
    THEN session.at = Home(Dev)
    ELSE session.at.owner \in {session.pool, Dev}

(* A wallet logs in only at an endpoint of its own pool: the donation time *)
(* slices go by "without touching the user's config" (pool.rs:82).  True   *)
(* only if the dev pool sends no client.reconnect.                         *)
EndpointBelongsToWallet == phase # "idle" => session.at.owner = session.pool

(* The client does not stay connected for the wrong side.                  *)
LeavesStaleSession == Stale ~> ~Stale

(* If the flips stop with the dev pool installed, the threads end up       *)
(* mining for the dev wallet, and if they stop with it removed, for a user *)
(* wallet, past dead endpoints, dead redirects and lost connections.       *)
MinesForChosenSide ==
  /\ <>[]override => <>[](job = Dev)
  /\ <>[]~override => <>[](job \in UserPools)

(* The client and the donation loop implement PoolChoice, its fairness     *)
(* included: the side of a connection is that of the wallet it logs in.    *)
Side(dev) == IF dev THEN "dev" ELSE "user"

Choice == INSTANCE PoolChoice WITH
  want <- Side(override),
  have <- IF phase = "idle" THEN "none" ELSE Side(session.pool = Dev)

ImplementsPoolChoice == Choice!Spec
=============================================================================
