----------------------------- MODULE AutoLeave -----------------------------
(***************************************************************************)
(* The retention period of a join job: enqueue_due_auto_leaves,            *)
(* process_auto_leave and complete_active_job_if_auto_leaves_done of       *)
(* worker/recovery.py.  The job has been settled ACTIVE by                 *)
(* finalize_job_if_done; every account that joined has one                 *)
(* WorkerAutoLeaveSchedule row, so a row is named by its account.          *)
(*                                                                         *)
(* process_auto_leave takes no row lock and every save is a statement of   *)
(* its own, so each one is an action here.                                 *)
(***************************************************************************)
EXTENDS Integers

CONSTANTS
    Account,     \* the accounts that joined, one schedule row each
    Worker,      \* the Celery worker processes
    Kinds,       \* how a leave may end: "ok", "already_done", "error"
    MaxCrashes,  \* bound: worker process deaths
    MaxCopies    \* bound: copies of one message that are told apart

VARIABLES
    job,       \* MembershipJob.status
    row,       \* WorkerAutoLeaveSchedule.status
    due,       \* schedules whose due_at has passed
    errored,   \* schedules with a last_error
    joined,    \* accounts whose WorkerMembership.status is JOINED
    member,    \* accounts that are members of the target at Rubika
    queue,     \* copies of process_auto_leave(schedule) in the broker
    callbacks, \* order_completed callbacks handed over, at most two told apart
    pc,        \* control point of every worker process
    sched,     \* the schedule a worker process works on, as a set
    crashes    \* worker deaths so far

vars == <<job, row, due, errored, joined, member, queue, callbacks, pc, sched, crashes>>

PC == {"idle", "claim", "leave", "mark", "fail", "save", "check", "load", "complete", "notify"}

OPEN == {"pending", "processing"}

TypeOK ==
    /\ job \in {"active", "completed"}
    /\ row \in [Account -> {"pending", "processing", "completed", "fail"}]
    /\ due \subseteq Account /\ errored \subseteq Account
    /\ joined \subseteq Account /\ member \subseteq Account
    /\ queue \in [Account -> 0..MaxCopies]
    /\ callbacks \in 0..2
    /\ pc \in [Worker -> PC]
    /\ sched \in [Worker -> SUBSET Account]
    /\ crashes \in 0..MaxCrashes

At(w, point, a) == pc[w] = point /\ sched[w] = {a}

Goto(w, point) == pc' = [pc EXCEPT ![w] = point]

Finish(w) == Goto(w, "idle") /\ sched' = [sched EXCEPT ![w] = {}]

Capped(n) == IF n < MaxCopies THEN n + 1 ELSE n

-----------------------------------------------------------------------------
Init ==
    /\ job = "active"
    /\ row = [a \in Account |-> "pending"]
    /\ due = {} /\ errored = {}
    /\ joined = Account
    /\ member \in SUBSET Account    \* an account may have been removed meanwhile
    /\ queue = [a \in Account |-> 0]
    /\ callbacks = 0
    /\ pc = [w \in Worker |-> "idle"]
    /\ sched = [w \in Worker |-> {}]
    /\ crashes = 0

(* due_at of a schedule passes. *)
FallDue(a) ==
    /\ a \notin due
    /\ due' = due \cup {a}
    /\ UNCHANGED <<job, row, errored, joined, member, queue, callbacks, pc, sched, crashes>>

(* Mutant: schedules are queued and run before they are due. *)
AnyPending == {a \in Account : row[a] = "pending"}

(* The rows enqueue_due_auto_leaves and process_auto_leave go on with. *)
Due == {a \in Account : row[a] = "pending" /\ a \in due}

(* Mutant: the scan gives up once a row has failed. *)
EnqueueUntilError ==
    /\ Due # {} /\ errored = {}
    /\ queue' = [a \in Account |-> IF a \in Due THEN Capped(queue[a]) ELSE queue[a]]
    /\ UNCHANGED <<job, row, due, errored, joined, member, callbacks, pc, sched, crashes>>

(* enqueue_due_auto_leaves: a row is queued again on every scan for as     *)
(* long as no worker has taken it.                                         *)
EnqueueDue ==
    /\ Due # {}
    /\ queue' = [a \in Account |-> IF a \in Due THEN Capped(queue[a]) ELSE queue[a]]
    /\ UNCHANGED <<job, row, due, errored, joined, member, callbacks, pc, sched, crashes>>

(* process_auto_leave reads the row; one that is no longer due is dropped. *)
Take(w, a) ==
    /\ pc[w] = "idle"
    /\ queue[a] > 0
    /\ queue' = [queue EXCEPT ![a] = @ - 1]
    /\ \/ a \in Due /\ Goto(w, "claim") /\ sched' = [sched EXCEPT ![w] = {a}]
       \/ a \notin Due /\ UNCHANGED <<pc, sched>>
    /\ UNCHANGED <<job, row, due, errored, joined, member, callbacks, crashes>>

(* PROCESSING is saved whatever the row has become since it was read. *)
Claim(w, a) ==
    /\ At(w, "claim", a)
    /\ row' = [row EXCEPT ![a] = "processing"]
    /\ Goto(w, "leave")
    /\ UNCHANGED <<job, due, errored, joined, member, queue, callbacks, sched, crashes>>

(* run_leave.  After an error the account may have left all the same, when *)
(* only the answer was lost.                                               *)
Leave(w, a) ==
    /\ At(w, "leave", a)
    /\ \E kind \in Kinds :
        /\ kind = "already_done" => a \notin member
        /\ member' \in CASE kind = "ok" -> {member \ {a}}
                         [] kind = "already_done" -> {member}
                         [] kind = "error" -> {member, member \ {a}}
        /\ Goto(w, IF kind = "error" THEN "fail" ELSE "mark")
    /\ UNCHANGED <<job, row, due, errored, joined, queue, callbacks, sched, crashes>>

(* mark_membership(joined=False) *)
Mark(w, a) ==
    /\ At(w, "mark", a)
    /\ joined' = joined \ {a}
    /\ Goto(w, "save")
    /\ UNCHANGED <<job, row, due, errored, member, queue, callbacks, sched, crashes>>

(* Mutant: an account whose leave failed is recorded as left. *)
FailAndMark(w, a) ==
    /\ At(w, "fail", a)
    /\ row' = [row EXCEPT ![a] = "fail"]
    /\ joined' = joined \ {a}
    /\ errored' = errored \cup {a}
    /\ Finish(w)
    /\ UNCHANGED <<job, due, member, queue, callbacks, crashes>>

(* The error paths: FAIL is saved and the job is not looked at. *)
Fail(w, a) ==
    /\ At(w, "fail", a)
    /\ row' = [row EXCEPT ![a] = "fail"]
    /\ errored' = errored \cup {a}
    /\ Finish(w)
    /\ UNCHANGED <<job, due, joined, member, queue, callbacks, crashes>>

Save(w, a) ==
    /\ At(w, "save", a)
    /\ row' = [row EXCEPT ![a] = "completed"]
    /\ errored' = errored \ {a}
    /\ Goto(w, "check")
    /\ UNCHANGED <<job, due, joined, member, queue, callbacks, sched, crashes>>

(* Mutant: only rows in PROCESSING keep the job open. *)
NoneProcessing == \A a \in Account : row[a] # "processing"

NoneOpen == \A a \in Account : row[a] \notin OPEN

(* complete_active_job_if_auto_leaves_done: the query for open rows, the   *)
(* read of the job, its save and the callback are four statements.         *)
Check(w) ==
    /\ pc[w] = "check"
    /\ \/ ~NoneOpen /\ Finish(w)
       \/ NoneOpen /\ Goto(w, "load") /\ UNCHANGED sched
    /\ UNCHANGED <<job, row, due, errored, joined, member, queue, callbacks, crashes>>

LoadJob(w) ==
    /\ pc[w] = "load"
    /\ \/ job # "active" /\ Finish(w)
       \/ job = "active" /\ Goto(w, "complete") /\ UNCHANGED sched
    /\ UNCHANGED <<job, row, due, errored, joined, member, queue, callbacks, crashes>>

CompleteJob(w) ==
    /\ pc[w] = "complete"
    /\ job' = "completed"
    /\ Goto(w, "notify")
    /\ UNCHANGED <<row, due, errored, joined, member, queue, callbacks, sched, crashes>>

Notify(w) ==
    /\ pc[w] = "notify"
    /\ callbacks' = IF callbacks < 2 THEN callbacks + 1 ELSE callbacks
    /\ Finish(w)
    /\ UNCHANGED <<job, row, due, errored, joined, member, queue, crashes>>

(* A worker process dies; its message comes back or is acknowledged, as    *)
(* in JobPipeline.                                                         *)
Crash(w) ==
    /\ pc[w] # "idle"
    /\ crashes < MaxCrashes
    /\ queue' \in {queue, [a \in Account |-> IF a \in sched[w] THEN Capped(queue[a]) ELSE queue[a]]}
    /\ crashes' = crashes + 1
    /\ Finish(w)
    /\ UNCHANGED <<job, row, due, errored, joined, member, callbacks>>

-----------------------------------------------------------------------------
Step(w) ==
    \/ Check(w) \/ LoadJob(w) \/ CompleteJob(w) \/ Notify(w)
    \/ \E a \in Account : Claim(w, a) \/ Leave(w, a) \/ Mark(w, a) \/ Fail(w, a) \/ Save(w, a)

Next ==
    \/ EnqueueDue
    \/ \E a \in Account : FallDue(a)
    \/ \E w \in Worker : Step(w) \/ Crash(w) \/ \E a \in Account : Take(w, a)

Spec == Init /\ [][Next]_vars

(* Time passes, beat scans, workers run and take the messages there are.   *)
Fairness ==
    /\ \A a \in Account : WF_vars(FallDue(a))
    /\ WF_vars(EnqueueDue)
    /\ \A w \in Worker : WF_vars(Step(w))
    /\ \A a \in Account : SF_vars(\E w \in Worker : Take(w, a))

FairSpec == Spec /\ Fairness

-----------------------------------------------------------------------------
(* An account leaves only after its retention: until its schedule is due,  *)
(* no scan, duplicate message or redelivery makes it act.                  *)
NoEarlyLeave == [][\A a \in member \ member' : a \in due]_vars

(* An account recorded as LEFT has left: mark_membership(joined=False) is  *)
(* written only after Rubika confirmed it, however often the schedule ran. *)
LeftHasLeft == \A a \in Account : a \in member => a \in joined

(* The job completes only when every schedule was worked on: nothing that  *)
(* still waits for its retention to pass is dropped by a completed job.    *)
CompletesLast == job = "completed" => due = Account /\ \A a \in Account : row[a] # "pending"

(* An account of a completed job that is still recorded as joined is one   *)
(* whose leave failed, and its row says so in last_error.                  *)
CompletedAccountsFor == job = "completed" => joined \subseteq errored

(* Every due schedule is worked on, crashes and lost messages included.    *)
EveryScheduleRuns == \A a \in Account : row[a] = "pending" ~> row[a] # "pending"

(* docs/membership-worker.md, step 5: "beat runs them and the job moves    *)
(* from `active` to `completed`" - the schedules are run, so the job moves *)
(* on.                                                                     *)
ActiveCompletes == job = "active" ~> job = "completed"
=============================================================================
