---------------------------- MODULE PoolFailover ----------------------------
(***************************************************************************)
(* PoolFailover (src/src/stratum/pool.rs): which pool the stratum client   *)
(* connects to next.  The slot `override` is shared with the donation      *)
(* loop; `current` and `redirect` are written by the client only.          *)
(*                                                                         *)
(* A pool is known by its index, which stands for its wallet, password and *)
(* flags; an endpoint (host and port) by the pool that operates it and a   *)
(* number, 0 being the configured address and the others those a pool      *)
(* names in client.reconnect.                                              *)
(***************************************************************************)
EXTENDS Integers

CONSTANTS
  NPools,      \* self.pools.len()
  Alternates,  \* addresses a pool may redirect to, beside its own
  None         \* Option::None

ASSUME NPoolsAssumption == NPools \in Nat \ {0}
ASSUME AlternatesAssumption == Alternates \in Nat

UserPools == 0 .. NPools - 1
Dev == NPools                 \* the donation pool, in no user list
Pools == UserPools \cup {Dev}
Endpoints == [owner : Pools, n : 0 .. Alternates]

(* A PoolConnection: whose wallet logs in, and at which endpoint.          *)
Connections == [pool : Pools, at : Endpoints]

ASSUME RedirectNoneAssumption == None \notin Endpoints

VARIABLES
  current,    \* index into the user's pools
  redirect,   \* Option<(host, port)> of the last client.reconnect
  override    \* override_pool.is_some(): the dev pool is installed

poolVars == <<current, redirect, override>>

PoolInit ==
  /\ current = 0
  /\ redirect = None
  /\ override = FALSE

PoolTypeOK ==
  /\ current \in UserPools
  /\ redirect \in Endpoints \cup {None}
  /\ override \in BOOLEAN

(* PoolConnection::from_config: the configured address of a pool.          *)
Home(p) == [owner |-> p, n |-> 0]

(* Faulty CurrentPool: the redirect also rewrites the dev pool.            *)
CurrentPoolAlwaysRewritten ==
  LET p == IF override THEN Dev ELSE current
  IN [pool |-> p, at |-> IF redirect = None THEN Home(p) ELSE redirect]

(* PoolFailover::current                                                   *)
CurrentPool ==
  IF override
  THEN [pool |-> Dev, at |-> Home(Dev)]
  ELSE [pool |-> current,
        at |-> IF redirect = None THEN Home(current) ELSE redirect]

(* PoolFailover::set_redirect                                              *)
SetRedirect(e) ==
  /\ redirect' = e
  /\ UNCHANGED <<current, override>>

(* Faulty NextPool: the redirect of the abandoned pool survives.           *)
NextPoolKeepingRedirect ==
  /\ current' = IF override THEN current ELSE (current + 1) % NPools
  /\ UNCHANGED <<redirect, override>>

(* Faulty NextPool: failover has no successor for the last pool.           *)
NextPoolWithoutWrap ==
  \/ override /\ UNCHANGED poolVars
  \/ /\ ~override
     /\ redirect' = None
     /\ current' = current + 1
     /\ UNCHANGED override

(* PoolFailover::next, with the clear_redirect it calls.                   *)
NextPool ==
  \/ override /\ UNCHANGED poolVars
  \/ /\ ~override
     /\ redirect' = None
     /\ current' = (current + 1) % NPools
     /\ UNCHANGED override
=============================================================================
