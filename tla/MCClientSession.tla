--------------------------- MODULE MCClientSession ---------------------------
(* An instance of ClientSession: programs of four calls. *)
EXTENDS ClientSession, TLC

CONSTANTS start1, start2, stop1, invoke1, invoke2, login1, logout1, idle1

KindOf ==
    (start1 :> "start") @@ (start2 :> "start") @@ (stop1 :> "stop") @@ (invoke1 :> "invoke")
    @@ (invoke2 :> "invoke") @@ (login1 :> "login") @@ (logout1 :> "logout") @@ (idle1 :> "idle")

MCKind == [c \in Call |-> KindOf[c]]

MCPrograms ==
    {{start1, stop1, login1, logout1}, {start1, invoke1, login1, logout1},
     {start1, invoke1, invoke2, stop1}, {start1, idle1, logout1, stop1},
     {start1, start2, stop1, idle1}}
=============================================================================
