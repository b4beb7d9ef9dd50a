--------------------------- MODULE StatusCallbacks ---------------------------
(***************************************************************************)
(* What the panel hears of a job: send_membership_callback_task            *)
(* (worker/tasks.py, callbacks.py), one task per event, on the callbacks   *)
(* queue.  A task reads the job when it sends, not when it was queued, is  *)
(* tried again after any failure, and its message comes back when its      *)
(* worker dies (acks_late).  Tasks of one job run side by side.            *)
(*                                                                         *)
(* JobPipeline and AutoLeave show which events are queued, and when; here  *)
(* a job simply goes from one status to the next.  External: the panel.    *)
(* Reading the job and stamping the payload is taken as one step: nothing  *)
(* but the assembly of the payload lies between them.                      *)
(***************************************************************************)
EXTENDS Naturals, Sequences, SequencesExt

CONSTANTS
    MaxRetries,     \* max_retries of the task
    MaxDeaths       \* bound on workers that die with a task

VARIABLES
    pc,
    status,         \* MembershipJob.status
    task,           \* the task of each event: where it is, the status it carries, its tries
    fresh,          \* the events whose payload carries a newer timestamp than any the panel got, in that order
    panel,          \* external: the status in the newest payload the panel got
    deaths

vars == <<pc, status, task, fresh, panel, deaths>>

\* The event of each status, as in finalize_job_if_done.
EventOf == [inprogress |-> "order_accepted", active |-> "order_active",
            completed |-> "order_completed", partial |-> "order_partial", fail |-> "order_failed"]

Statuses == DOMAIN EventOf
Events == {EventOf[s] : s \in Statuses}
TERMINAL_JOB_STATUSES == {"completed", "partial", "fail"}

NoTask == [at |-> "none", says |-> "unknown", tries |-> 0]
Under == pc = "callbacks"

Init ==
    /\ pc = "idle"
    /\ status = "inprogress"
    /\ task = [e \in Events |-> NoTask]
    /\ fresh = <<>>
    /\ panel = "unknown"
    /\ deaths = 0

Queued(E) ==
    [e \in Events |-> IF e \in E THEN [NoTask EXCEPT !.at = "queued", !.says = status'] ELSE task[e]]

\* create_membership_job: without an account the job has failed already.
Begin ==
    /\ pc = "idle"
    /\ pc' = "callbacks"
    /\ \E s \in {"inprogress", "fail"} :
          /\ status' = s
          /\ task' = Queued({"order_accepted", EventOf[s]})
    /\ UNCHANGED <<fresh, panel, deaths>>

\* finalize_job_if_done, cancel_job_invalid_target and
\* complete_active_job_if_auto_leaves_done: the commit and the hand-over.
Moves(s) ==
    /\ Under
    /\ \/ status = "inprogress" /\ s \in TERMINAL_JOB_STATUSES \cup {"active"}
       \/ status = "active" /\ s = "completed"
    /\ status' = s
    /\ task' = Queued({EventOf[s]})
    /\ UNCHANGED <<pc, fresh, panel, deaths>>

-----------------------------------------------------------------------------
AsQueued(e) == task[e].says                     \* mutant: the payload is built when the task is queued

\* build_callback_payload(MembershipJob.objects.get(id), ...)
StatusSent(e) == status

Send(e) ==
    /\ Under
    /\ task[e].at = "queued"
    /\ task' = [task EXCEPT ![e] = [@ EXCEPT !.at = "sending", !.says = StatusSent(e)]]
    /\ fresh' = Append(Remove(fresh, e), e)
    /\ UNCHANGED <<pc, status, panel, deaths>>

\* The panel goes by the timestamp: an older payload than its newest tells it nothing.
Arrives(e) ==
    /\ Under
    /\ task[e].at = "sending"
    /\ IF Contains(fresh, e)
       THEN /\ panel' = task[e].says
            /\ fresh' = SubSeq(fresh, SelectInSeq(fresh, LAMBDA f : f = e) + 1, Len(fresh))
       ELSE UNCHANGED <<panel, fresh>>
    /\ task' = [task EXCEPT ![e].at = "answering"]
    /\ UNCHANGED <<pc, status, deaths>>

Answered(e) ==
    /\ Under
    /\ task[e].at = "answering"
    /\ task' = [task EXCEPT ![e] = [NoTask EXCEPT !.at = "sent"]]
    /\ UNCHANGED <<pc, status, fresh, panel, deaths>>

\* httpx.HTTPError or an error status: autoretry_for, until max_retries.  The
\* panel may have got the payload, and never gets it later.
Fails(e) ==
    /\ Under
    /\ task[e].at \in {"sending", "answering"}
    /\ task' = IF task[e].tries < MaxRetries
               THEN [task EXCEPT ![e] = [@ EXCEPT !.at = "queued", !.tries = @ + 1]]
               ELSE [task EXCEPT ![e] = [NoTask EXCEPT !.at = "dropped"]]
    /\ fresh' = Remove(fresh, e)
    /\ UNCHANGED <<pc, status, panel, deaths>>

Dies(e) ==
    /\ Under
    /\ deaths < MaxDeaths
    /\ task[e].at \in {"sending", "answering"}
    /\ task' = [task EXCEPT ![e].at = "queued"]
    /\ fresh' = Remove(fresh, e)
    /\ deaths' = deaths + 1
    /\ UNCHANGED <<pc, status, panel>>

Delivery(e) == Send(e) \/ Arrives(e) \/ Answered(e) \/ Fails(e)

Next ==
    \/ Begin
    \/ \E s \in Statuses : Moves(s)
    \/ \E e \in Events : Delivery(e) \/ Dies(e)

\* A queued task is run, and httpx.post has a timeout.
Fairness == \A e \in Events : WF_vars(Delivery(e))

Spec == Init /\ [][Next]_vars /\ Fairness

-----------------------------------------------------------------------------
TypeOK ==
    /\ status \in Statuses
    /\ \A e \in Events :
          /\ task[e].at \in {"none", "queued", "sending", "answering", "sent", "dropped"}
          /\ task[e].says \in Statuses \cup {"unknown"}
          /\ task[e].tries \in 0 .. MaxRetries
    /\ fresh \in Seq(Events)
    /\ panel \in Statuses \cup {"unknown"}

(* However the callbacks of a job overtake each other, are repeated or lose *)
(* their answer, a panel that goes by the newest timestamp ends up with the *)
(* verdict of the job and keeps it, unless the callback of that verdict was *)
(* given up after max_retries.  A late order_accepted or order_active does  *)
(* not take it back: it tells the job's status as it is sent.               *)
PanelLearnsTheVerdict ==
    \A s \in TERMINAL_JOB_STATUSES :
        status = s ~> [](task[EventOf[s]].at = "dropped" \/ panel = s)
=============================================================================
