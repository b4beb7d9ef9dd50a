--------------------------- MODULE MCHttpTransport ---------------------------
(* Instances of HttpTransport: two URLs and a list that gets longer, two   *)
(* requests through the pool and one to a service URL.                     *)
EXTENDS HttpTransport, TLC

CONSTANTS r1, r2, s1, u1, u2, u3, v1

TwoUrls == <<u1, u2>>

Lists == {<<u2, u3, u2>>, <<u3, u1>>}

Ladder == (r1 :> 2) @@ (r2 :> 1) @@ (s1 :> 1)
=============================================================================
