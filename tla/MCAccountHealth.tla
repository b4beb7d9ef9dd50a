--------------------------- MODULE MCAccountHealth --------------------------
(* Instances of AccountHealth: two accounts, a sweep and a view. *)
EXTENDS AccountHealth, TLC

CONSTANTS a1, a2, sweep, view

TwoIds == <<a1, a2>>

Logins == (a1 :> 2) @@ (a2 :> 1)

Revocations == (a1 :> 1) @@ (a2 :> 0)
=============================================================================
