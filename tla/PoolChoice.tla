----------------------------- MODULE PoolChoice -----------------------------
(***************************************************************************)
(* What the stratum client and the donation loop promise together: the     *)
(* donation loop chooses a side, the miner's user or its developer; every  *)
(* connection is begun for the side chosen at that moment, and one that    *)
(* has become the wrong side's is given up.                                *)
(***************************************************************************)

VARIABLES
  want,   \* the side the donation loop has chosen
  have    \* the side the client is connected, or connecting, for; or "none"

vars == <<want, have>>

Sides == {"user", "dev"}

Init == want = "user" /\ have = "none"

Flip == want' \in Sides \ {want} /\ UNCHANGED have

Begin == have = "none" /\ have' = want /\ UNCHANGED want

End == have # "none" /\ have' = "none" /\ UNCHANGED want

Next == Flip \/ Begin \/ End

Safety == Init /\ [][Next]_vars

Spec == Safety /\ WF_vars(Begin) /\ WF_vars(have # want /\ End)
=============================================================================
