--------------------------- MODULE MCOrderIntake ---------------------------
EXTENDS OrderIntake, TLC

CONSTANTS r1, r2, r3, r4

(* r1 and its network copy r2, the panel's retry r3 of the same order, and *)
(* r4, another order.                                                      *)
Requests == {r1, r2, r3, r4}

Nonces == r1 :> "n1" @@ r2 :> "n1" @@ r3 :> "n3" @@ r4 :> "n4"

Orders == r1 :> "o1" @@ r2 :> "o1" @@ r3 :> "o1" @@ r4 :> "o2"

Wanted == "o1" :> 1 @@ "o2" :> 2
=============================================================================
