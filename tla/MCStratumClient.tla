-------------------------- MODULE MCStratumClient --------------------------
(* Which endpoints fail and which pools redirect, for the runs of          *)
(* StratumClient.                                                          *)
EXTENDS StratumClient

NoEndpoints == {}

(* The first pool may redirect to an endpoint that is down, and the second *)
(* pool is down.                                                           *)
SomeDead == {[owner |-> 0, n |-> 1], Home(1)}

FirstHome == {Home(0)}
=============================================================================
