--------------------------- MODULE MCAccountLogin ---------------------------
(* An instance of AccountLogin: one login with repeated verifies, a signup *)
(* and a cancel, of a phone that may have an account already.              *)
EXTENDS AccountLogin, TLC

CONSTANTS start1, v1, v2, sign, cancel, s1, s2, p1, p2

KindOf ==
    (start1 :> "start") @@ (v1 :> "verify") @@ (v2 :> "verify")
    @@ (sign :> "signup") @@ (cancel :> "cancel")

OneLogin == [c \in {start1, v1, v2, sign, cancel} |-> s1]

\* None, or the account of an earlier session of the phone.
MCEarlier == {<<>>, <<s2>>}
=============================================================================
