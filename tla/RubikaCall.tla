----------------------------- MODULE RubikaCall ------------------------------
(***************************************************************************)
(* What run_join, run_leave and run_view (worker/rubika.py) promise to the *)
(* item processor and to process_auto_leave: a call changes the standing   *)
(* of its account on the target at most towards what it was asked for, and *)
(* the answer it ends with can be acted upon.                              *)
(***************************************************************************)
VARIABLES
    wanted,     \* the standing asked for: "in" joined or seen, "out" left
    standing,   \* the account's standing at Rubika
    acted,      \* this call has asked Rubika for the change
    told        \* the answer, "nothing" before it is given

AllKinds == {"ok", "already_done", "invalid_target", "session_dead", "throttled",
             "conn_error", "failed"}

Init ==
    /\ wanted = "nothing"
    /\ standing \in {"in", "out"}
    /\ acted = FALSE
    /\ told = "nothing"

\* A target nobody can read is refused at once.
Begin ==
    /\ wanted = "nothing"
    /\ wanted' \in {"in", "out"}
    /\ standing' \in {"in", "out"}
    /\ told' \in {"nothing", "invalid_target"}
    /\ UNCHANGED acted

Ask ==
    /\ wanted # "nothing"
    /\ told = "nothing"
    /\ acted' = TRUE
    /\ standing' \in {standing, wanted}
    /\ UNCHANGED <<wanted, told>>

\* A success is one; "already done" is true and nothing was asked for;
\* a target is called invalid only by a call that changed nothing, for the
\* whole job is cancelled on that word.  Any other kind may hide a change.
Tell(kind) ==
    /\ wanted # "nothing"
    /\ told = "nothing"
    /\ kind = "ok" => acted /\ standing = wanted
    /\ kind = "already_done" => ~acted /\ standing = wanted
    /\ kind = "invalid_target" => ~acted
    /\ told' = kind
    /\ UNCHANGED <<wanted, standing, acted>>

Next == Begin \/ Ask \/ \E kind \in AllKinds : Tell(kind)

vars == <<wanted, standing, acted, told>>

Spec == Init /\ [][Next]_vars
=============================================================================
