---------------------------- MODULE JobPipeline ----------------------------
(***************************************************************************)
(* One order of the membership worker, from its creation to its            *)
(* settlement: worker/jobs.py, worker/items.py, the item and job parts of  *)
(* worker/recovery.py and the Celery tasks that call them.                 *)
(*                                                                         *)
(* The database rows, the Celery queue and the members of the worker pool  *)
(* are the state; every SQL statement or transaction that another process  *)
(* can observe is one action.  A worker process that runs a task is at a   *)
(* control point pc[w] and keeps the task's Python locals in reg[w].       *)
(***************************************************************************)
EXTENDS Integers, FiniteSets

CONSTANTS
    Account,      \* the WorkerAccount rows
    Worker,       \* the Celery worker processes
    Orders,       \* the orders the panel may send
    Already,      \* accounts that did the action at Rubika before the order
    Recorded,     \* accounts that may be recorded as done before the order
    Kinds,        \* how a Rubika action may end (rubika.ActionError kinds, "ok")
    Beats,        \* the recovery tasks that beat schedules
    CrashPoints   \* the control points at which a worker process may die

\* Bounds of the model.
CONSTANTS
    MaxTries,     \* items one account can get in the job
    MaxRetries,   \* actions that end in a retryable error
    MaxCrashes,   \* worker and web process deaths
    MaxLosses,    \* messages the broker loses
    MaxSlow,      \* actions that outlast the 60 s cutoff of the recovery task
    MaxCopies     \* copies of one message that are told apart

Actions == {"join", "view", "leave"}

RetryKinds == {"throttled", "conn_error"}

AllKinds == {"ok", "already_done", "invalid_target", "session_dead", "failed"} \cup RetryKinds

(* The control points of a worker process. *)
PC == {"idle", "claim", "act", "mark", "save", "count", "after", "cancel",
       "check", "read", "write", "enqueue", "dispatch", "settle", "notify",
       "reset", "requeue"}

ASSUME OrderAssumption ==
    Orders \subseteq [action : Actions, requested : Nat \ {0}, total : Nat \ {0}, retention : BOOLEAN]

ASSUME SetAssumption ==
    /\ IsFiniteSet(Account)
    /\ Already \subseteq Account /\ Recorded \subseteq Account
    /\ Kinds \subseteq AllKinds
    /\ CrashPoints \subseteq (PC \ {"idle"}) \cup {"accepted", "rejected"}
    /\ Beats \subseteq {"running", "pending", "jobs"}

ASSUME BoundAssumption ==
    /\ MaxTries \in Nat \ {0} /\ MaxRetries \in Nat /\ MaxRetries < MaxTries
    /\ MaxCrashes \in Nat /\ MaxLosses \in Nat /\ MaxSlow \in Nat
    /\ MaxCopies \in Nat \ {0}

(* An item row is named by its account and by its place among the items    *)
(* that account has in the job.                                            *)
Item == Account \X (1..MaxTries)

Acct(i) == i[1]

(* MembershipJobItem.Status.  "none" is a row that does not exist yet and  *)
(* "paused" is SKIPPED with a message in RETRYABLE_SKIP_PREFIXES, the only *)
(* messages the code looks at.                                             *)
ItemStatus == {"none", "pending", "running", "success", "failed", "skipped", "paused"}

RESERVED_ITEM_STATUSES == {"pending", "running"}

(* MembershipJob.Status; "new" is a job not created yet.  PENDING and      *)
(* ERROR are never assigned by the code.                                   *)
JobStatus == {"new", "inprogress", "active", "completed", "partial", "fail"}

(* Mutant: a failed job counts as open. *)
WithoutFail == {"partial", "completed"}

TERMINAL_JOB_STATUSES == {"fail", "partial", "completed"}

Settlements == {"order_completed", "order_partial", "order_failed"}

Events == Settlements \cup {"order_accepted", "order_active"}

(* Task messages: process_membership_job_item(item) and                    *)
(* retry_job_slot_fill(job).                                               *)
SlotFill == <<"slot_fill", 0>>

Message == Item \cup {SlotFill}

VARIABLES
    order,      \* what the panel ordered
    status,     \* MembershipJob.status
    success,    \* MembershipJob.success_count
    istat,      \* status of every item row
    tried,      \* items with attempts > 0
    enabled,    \* accounts whose status is ACTIVE
    paused,     \* accounts whose AccountThrottle.next_available_at is ahead
    marked,     \* accounts recorded as done on the target
    scheduled,  \* items with a WorkerAutoLeaveSchedule row
    effect,     \* accounts for which the action took effect at Rubika
    overdue,    \* running items whose live action outlasted the cutoff
    queue,      \* copies of every task message in the broker
    callbacks,  \* callbacks handed to the callbacks queue, per event
    web,        \* progress of create_membership_job in the API process
    pc,         \* control point of every worker process
    reg,        \* Python locals of every worker process
    spent       \* how much of each fault budget is used

jobVars   == <<order, status, success>>
itemVars  == <<istat, tried, scheduled, overdue>>
acctVars  == <<enabled, paused, marked, effect>>
brokerVars == <<queue, callbacks>>
procVars  == <<web, pc, reg>>
vars == <<jobVars, itemVars, acctVars, brokerVars, procVars, spent>>

(* The locals of a worker: msg holds the message being processed, still    *)
(* unacknowledged (empty for a task beat started), items the item ids a    *)
(* loop of the task iterates over, seen whether the job row read at the    *)
(* start of the task had successes, count the number refresh_job_counts    *)
(* read, event the callback to send.                                       *)
Registers == [msg : SUBSET Message, items : SUBSET Item, kind : Kinds \cup {"ok", "not_joined"},
              seen : BOOLEAN, count : Nat, event : Events \cup {"none"}]

NoTask == [msg |-> {}, items |-> {}, kind |-> "ok", seen |-> FALSE, count |-> 0, event |-> "none"]

TypeOK ==
    /\ order \in Orders
    /\ status \in JobStatus
    /\ success \in Nat
    /\ istat \in [Item -> ItemStatus]
    /\ tried \subseteq Item /\ scheduled \subseteq Item /\ overdue \subseteq Item
    /\ enabled \subseteq Account /\ paused \subseteq Account
    /\ marked \subseteq Account /\ effect \subseteq Account
    /\ queue \in [Message -> 0..MaxCopies]
    /\ callbacks \in [Events -> 0..2]
    /\ web \in {"idle", "accepted", "rejected", "done"}
    /\ pc \in [Worker -> PC]
    /\ reg \in [Worker -> Registers]
    /\ spent \in [retry : 0..MaxRetries, crash : 0..MaxCrashes, loss : 0..MaxLosses, slow : 0..MaxSlow]
-----------------------------------------------------------------------------
(* Helpers *)

Created == {i \in Item : istat[i] # "none"}

Reserved == {i \in Item : istat[i] \in RESERVED_ITEM_STATUSES}

Succeeded == {i \in Item : istat[i] = "success"}

Accounts(I) == {Acct(i) : i \in I}

Smaller(m, n) == IF m < n THEN m ELSE n

(* Hand messages to the broker; copies beyond MaxCopies are not told apart. *)
Send(M) == [m \in Message |-> IF m \in M THEN Smaller(queue[m] + 1, MaxCopies) ELSE queue[m]]

(* Hand callbacks to the callbacks queue; two of a kind are "several". *)
Report(E) == [e \in Events |-> IF e \in E THEN Smaller(callbacks[e] + 1, 2) ELSE callbacks[e]]

(* select_accounts for a job that already holds its own reservations.  A   *)
(* leave takes recorded members; marked then means "recorded as left".     *)
Selectable ==
    CASE order.action = "join" -> enabled \ (paused \cup marked \cup Accounts(Reserved))
      [] order.action = "view" -> enabled \ (marked \cup Accounts(Reserved))
      [] order.action = "leave" -> enabled \ marked

(* A result set of select_accounts: the first n rows of pool.  The order   *)
(* of the rows carries no meaning, so any n rows will do.                  *)
FirstOf(n, pool) == {A \in SUBSET pool : Cardinality(A) = Smaller(n, Cardinality(pool))}

(* The rows inserted for the accounts A. *)
NewItems(A) ==
    {i \in Item : /\ Acct(i) \in A
                  /\ istat[i] = "none"
                  /\ \A n \in 1..(i[2] - 1) : istat[<<Acct(i), n>>] # "none"}

SetItems(I, s) == istat' = [i \in Item |-> IF i \in I THEN s ELSE istat[i]]

Goto(w, point) == pc' = [pc EXCEPT ![w] = point]

Finish(w) == /\ Goto(w, "idle")
             /\ reg' = [reg EXCEPT ![w] = NoTask]

-----------------------------------------------------------------------------
(* create_membership_job, run by the API process *)

(* The transaction: pick accounts, insert the job and its items.  A join   *)
(* or view with no account is refused and inserts nothing.                 *)
CreateJob ==
    /\ web = "idle"
    /\ \E A \in FirstOf(order.total, Selectable) :
        /\ A = {} => order.action = "leave"
        /\ status' = IF A = {} THEN "fail" ELSE "inprogress"
        /\ web' = IF A = {} THEN "rejected" ELSE "accepted"
        /\ SetItems(NewItems(A), "pending")
    /\ UNCHANGED <<order, success, tried, scheduled, overdue, acctVars, brokerVars, pc, reg, spent>>

(* After the commit: one accepted callback, one message per item, and a    *)
(* failed callback for a job without items.                                *)
DispatchJob ==
    /\ web \in {"accepted", "rejected"}
    /\ web' = "done"
    /\ queue' = Send(Created)
    /\ callbacks' = Report({"order_accepted"} \cup (IF web = "rejected" THEN {"order_failed"} ELSE {}))
    /\ UNCHANGED <<jobVars, itemVars, acctVars, pc, reg, spent>>

(* The API process dies between the commit and the dispatch; a retry of    *)
(* the panel finds the idempotency key and dispatches nothing.             *)
CrashWeb ==
    /\ web \in {"accepted", "rejected"} \cap CrashPoints
    /\ spent.crash < MaxCrashes
    /\ web' = "done"
    /\ spent' = [spent EXCEPT !.crash = @ + 1]
    /\ UNCHANGED <<jobVars, itemVars, acctVars, brokerVars, pc, reg>>

-----------------------------------------------------------------------------
(* process_membership_job_item *)

(* A worker whose pc is one of these is running the action of item i.      *)
Runs(w, i) == pc[w] \in {"act", "mark", "save"} /\ reg[w].msg = {i}

Orphan(i) == istat[i] = "running" /\ \A w \in Worker : ~Runs(w, i)

TakeItem(w, i) ==
    /\ pc[w] = "idle"
    /\ queue[i] > 0
    /\ queue' = [queue EXCEPT ![i] = @ - 1]
    /\ Goto(w, "claim")
    /\ reg' = [reg EXCEPT ![w].msg = {i}]
    /\ UNCHANGED <<jobVars, itemVars, acctVars, callbacks, web, spent>>

(* Mutant: the claim takes a RUNNING item without looking at its age. *)
ClaimsRunning(i) == istat[i] \in RESERVED_ITEM_STATUSES

(* claim_item_and_reserve_throttle, one transaction.  A RUNNING item is    *)
(* reset only after RUNNING_ITEM_STALE_SECONDS, by when its runner is dead.*)
Claimable(i) == istat[i] = "pending" \/ Orphan(i)

Paced(i) == order.action # "view" /\ Acct(i) \in paused

ClaimDrop(w, i) ==
    /\ pc[w] = "claim" /\ reg[w].msg = {i}
    /\ istat[i] # "pending"
    /\ Finish(w)
    /\ UNCHANGED <<jobVars, itemVars, acctVars, brokerVars, web, spent>>

ClaimDelay(w, i) ==
    /\ pc[w] = "claim" /\ reg[w].msg = {i}
    /\ Claimable(i) /\ Paced(i)
    /\ SetItems({i}, "pending")
    /\ queue' = Send({i})
    /\ Finish(w)
    /\ UNCHANGED <<jobVars, tried, scheduled, overdue, acctVars, callbacks, web, spent>>

(* The claim proper, with the read of the job row that follows it. *)
ClaimRun(w, i) ==
    /\ pc[w] = "claim" /\ reg[w].msg = {i}
    /\ Claimable(i) /\ ~Paced(i)
    /\ SetItems({i}, "running")
    /\ tried' = tried \cup {i}
    /\ overdue' = overdue \ {i}
    /\ paused' = IF order.action = "view" THEN paused ELSE paused \cup {Acct(i)}
    /\ reg' = [reg EXCEPT ![w].seen = success > 0]
    /\ Goto(w, "act")
    /\ UNCHANGED <<jobVars, scheduled, enabled, marked, effect, brokerVars, web, spent>>

(* What a kind does to the item (_run_action, _handle_failure). *)
Outcome(kind) ==
    CASE kind = "ok" -> "success"
      [] kind = "already_done" -> IF order.action = "join" THEN "success" ELSE "skipped"
      [] kind \in RetryKinds -> "paused"
      [] kind = "failed" -> "failed"
      [] OTHER -> "skipped"

(* Mutant: the records are forgotten when Rubika says "already joined". *)
MarksOnlyOk(kind) == kind = "ok"

(* mark_membership or the view ledger is written before the item. *)
Marks(kind) == kind \in {"ok", "already_done"}

(* The Rubika call.  An account not recorded as joined skips a leave       *)
(* without a call; a call that ends in an error may still have taken       *)
(* effect when only its answer was lost.                                   *)
RunAction(w, i) ==
    /\ pc[w] = "act" /\ reg[w].msg = {i}
    /\ \/ /\ order.action = "leave" /\ Acct(i) \in marked
          /\ reg' = [reg EXCEPT ![w].kind = "not_joined"]
          /\ Goto(w, "save")
          /\ UNCHANGED <<effect, spent>>
       \/ /\ order.action = "leave" => Acct(i) \notin marked
          /\ \E kind \in Kinds :
              /\ kind = "already_done" => order.action # "view" /\ Acct(i) \in effect
              /\ kind \in RetryKinds => spent.retry < MaxRetries
              /\ spent' = [spent EXCEPT !.retry = @ + (IF kind \in RetryKinds THEN 1 ELSE 0)]
              /\ effect' \in IF kind = "ok" THEN {effect \cup {Acct(i)}}
                             ELSE IF kind \in {"conn_error", "failed"} THEN {effect, effect \cup {Acct(i)}}
                             ELSE {effect}
              /\ reg' = [reg EXCEPT ![w].kind = kind]
              /\ Goto(w, IF Marks(kind) THEN "mark" ELSE "save")
    /\ UNCHANGED <<jobVars, itemVars, enabled, paused, marked, brokerVars, web>>

(* The action is still under way 60 s after the claim. *)
Overrun(w, i) ==
    /\ Runs(w, i)
    /\ i \notin overdue
    /\ spent.slow < MaxSlow
    /\ overdue' = overdue \cup {i}
    /\ spent' = [spent EXCEPT !.slow = @ + 1]
    /\ UNCHANGED <<jobVars, istat, tried, scheduled, acctVars, brokerVars, procVars>>

(* mark_membership (or the WorkerPostView row), create_auto_leave_if_needed. *)
MarkDone(w, i) ==
    /\ pc[w] = "mark" /\ reg[w].msg = {i}
    /\ marked' = marked \cup {Acct(i)}
    /\ scheduled' = IF order.action = "join" /\ order.retention THEN scheduled \cup {i} ELSE scheduled
    /\ Goto(w, "save")
    /\ UNCHANGED <<jobVars, istat, tried, overdue, enabled, paused, effect, brokerVars, web, reg, spent>>

(* finish_item, first statement: the item row is saved whatever its status *)
(* has become meanwhile.                                                   *)
SaveItem(w, i) ==
    /\ pc[w] = "save" /\ reg[w].msg = {i}
    /\ SetItems({i}, Outcome(reg[w].kind))
    /\ Goto(w, "count")
    /\ UNCHANGED <<jobVars, tried, scheduled, overdue, acctVars, brokerVars, web, reg, spent>>

(* finish_item, second statement: the job's counter. *)
CountItem(w) ==
    /\ pc[w] = "count"
    /\ success' = success + (IF Outcome(reg[w].kind) = "success" THEN 1 ELSE 0)
    /\ Goto(w, "after")
    /\ UNCHANGED <<order, status, itemVars, acctVars, brokerVars, web, reg, spent>>

(* The rest of _handle_failure: disable or pause the account, cancel the   *)
(* job when the target is invalid and the job row read at the start showed *)
(* no success, finalize otherwise.                                         *)
AfterItem(w, i) ==
    /\ pc[w] = "after" /\ reg[w].msg = {i}
    /\ enabled' = IF reg[w].kind = "session_dead" THEN enabled \ {Acct(i)} ELSE enabled
    /\ paused' = IF reg[w].kind \in RetryKinds THEN paused \cup {Acct(i)} ELSE paused
    /\ Goto(w, IF reg[w].kind = "invalid_target" /\ ~reg[w].seen THEN "cancel" ELSE "check")
    /\ reg' = [reg EXCEPT ![w] = [NoTask EXCEPT !.msg = {i}]]
    /\ UNCHANGED <<jobVars, itemVars, marked, effect, brokerVars, web, spent>>

(* cancel_job_invalid_target: one transaction, then the refresh. *)
CancelJob(w) ==
    /\ pc[w] = "cancel"
    /\ \/ /\ status \in TERMINAL_JOB_STATUSES
          /\ Finish(w)
          /\ UNCHANGED <<status, istat>>
       \/ /\ status \notin TERMINAL_JOB_STATUSES
          /\ SetItems(Reserved, "skipped")
          /\ status' = IF success > 0 THEN "partial" ELSE "fail"
          /\ reg' = [reg EXCEPT ![w].event = IF success > 0 THEN "order_partial" ELSE "order_failed"]
          /\ Goto(w, "read")
    /\ UNCHANGED <<order, success, tried, scheduled, overdue, acctVars, brokerVars, web, spent>>

-----------------------------------------------------------------------------
(* finalize_job_if_done *)

(* The existence check, outside any transaction. *)
CheckIdle(w) ==
    /\ pc[w] = "check"
    /\ \/ Reserved # {} /\ Finish(w)
       \/ Reserved = {} /\ Goto(w, "read") /\ UNCHANGED reg
    /\ UNCHANGED <<jobVars, itemVars, acctVars, brokerVars, web, spent>>

(* refresh_job_counts: the items are counted before the job row is locked. *)
ReadCounts(w) ==
    /\ pc[w] = "read"
    /\ reg' = [reg EXCEPT ![w].count = Cardinality(Succeeded)]
    /\ Goto(w, "write")
    /\ UNCHANGED <<jobVars, itemVars, acctVars, brokerVars, web, spent>>

(* Mutant: a cancelled job goes on to the replacements. *)
WriteCountsThenEnqueue(w) ==
    /\ pc[w] = "write"
    /\ success' = reg[w].count
    /\ Goto(w, "enqueue")
    /\ reg' = [reg EXCEPT ![w].count = 0, ![w].event = "none"]
    /\ UNCHANGED <<order, status, itemVars, acctVars, brokerVars, web, spent>>

WriteCounts(w) ==
    /\ pc[w] = "write"
    /\ success' = reg[w].count
    /\ Goto(w, IF reg[w].event = "none" THEN "enqueue" ELSE "notify")
    /\ reg' = [reg EXCEPT ![w].count = 0]
    /\ UNCHANGED <<order, status, itemVars, acctVars, brokerVars, web, spent>>

(* Mutant: the slots already filled count as missing. *)
MissingForgetsSuccess == order.total - Cardinality(Reserved)

(* enqueue_replacement_items_if_needed, one transaction under the job lock. *)
Missing == order.total - success - Cardinality(Reserved)

(* Mutant: a settled job gets replacements. *)
ReplaceableAlways == order.action \in {"join", "view"} /\ Missing > 0

Replaceable == order.action \in {"join", "view"} /\ status = "inprogress" /\ Missing > 0

(* Mutant: accounts whose item was skipped or failed are used again. *)
UsedUnlessPaused == Accounts({i \in Created : istat[i] \notin {"paused", "skipped", "failed"}})

(* Accounts a replacement may not use: for a view every account of the     *)
(* job, for a join those whose item did not end retryably.                 *)
PermanentlyUsed ==
    Accounts(IF order.action = "view" THEN Created ELSE {i \in Created : istat[i] # "paused"})

Replacements == Selectable \ PermanentlyUsed

(* A join waits for accounts that are only throttled, until it is older    *)
(* than WORKER_JOB_MAX_WAIT_HOURS, which it may be at any time.            *)
CanWait == order.action = "join" /\ enabled \ (marked \cup PermanentlyUsed) # {}

EnqueueNothing(w) ==
    /\ pc[w] = "enqueue"
    /\ Replaceable => Replacements = {}
    /\ Goto(w, "settle")
    /\ UNCHANGED <<jobVars, itemVars, acctVars, brokerVars, web, reg, spent>>

EnqueueDefer(w) ==
    /\ pc[w] = "enqueue"
    /\ Replaceable /\ Replacements = {} /\ CanWait
    /\ queue' = Send({SlotFill})
    /\ Finish(w)
    /\ UNCHANGED <<jobVars, itemVars, acctVars, callbacks, web, spent>>

EnqueueItems(w) ==
    /\ pc[w] = "enqueue"
    /\ Replaceable /\ Replacements # {}
    /\ \E A \in FirstOf(Missing, Replacements) :
        /\ SetItems(NewItems(A), "pending")
        /\ reg' = [reg EXCEPT ![w].items = NewItems(A)]
    /\ status' = "inprogress"
    /\ Goto(w, "dispatch")
    /\ UNCHANGED <<order, success, tried, scheduled, overdue, acctVars, brokerVars, web, spent>>

DispatchItems(w) ==
    /\ pc[w] = "dispatch"
    /\ queue' = Send(reg[w].items)
    /\ Finish(w)
    /\ UNCHANGED <<jobVars, itemVars, acctVars, callbacks, web, spent>>

(* Mutant: no partial settlement. *)
VerdictAllOrNothing ==
    IF success >= order.requested
    THEN IF order.action = "join" /\ order.retention THEN "active" ELSE "completed"
    ELSE "fail"

(* The settling transaction. *)
Verdict ==
    IF success >= order.requested
    THEN IF order.action = "join" /\ order.retention THEN "active" ELSE "completed"
    ELSE IF success > 0 THEN "partial" ELSE "fail"

EventOf(s) == [completed |-> "order_completed", partial |-> "order_partial",
               fail |-> "order_failed", active |-> "order_active"][s]

SettleJob(w) ==
    /\ pc[w] = "settle"
    /\ \/ /\ status \in TERMINAL_JOB_STATUSES
          /\ Finish(w)
          /\ UNCHANGED status
       \/ /\ status \notin TERMINAL_JOB_STATUSES
          /\ status' = Verdict
          /\ reg' = [reg EXCEPT ![w].event = EventOf(Verdict)]
          /\ Goto(w, "notify")
    /\ UNCHANGED <<order, success, itemVars, acctVars, brokerVars, web, spent>>

(* After the commit: send_membership_callback_task.delay. *)
NotifyPanel(w) ==
    /\ pc[w] = "notify"
    /\ callbacks' = Report({reg[w].event})
    /\ Finish(w)
    /\ UNCHANGED <<jobVars, itemVars, acctVars, queue, web, spent>>

(* retry_job_slot_fill_task *)
TakeSlotFill(w) ==
    /\ pc[w] = "idle"
    /\ queue[SlotFill] > 0
    /\ queue' = [queue EXCEPT ![SlotFill] = @ - 1]
    /\ reg' = [reg EXCEPT ![w].msg = {SlotFill}]
    /\ Goto(w, "check")
    /\ UNCHANGED <<jobVars, itemVars, acctVars, callbacks, web, spent>>

-----------------------------------------------------------------------------
(* recovery.py, started by beat on any free worker *)

(* Mutant: items of dead workers are not found. *)
StaleOnlyOverdue == {i \in Item : istat[i] = "running" /\ i \in overdue}

(* RUNNING for more than 60 s: the worker died, or its action is slow. *)
Stale == {i \in Item : Orphan(i) \/ (istat[i] = "running" /\ i \in overdue)}

(* recover_stale_running_items reads the ids ... *)
RecoverRunning(w) ==
    /\ "running" \in Beats
    /\ pc[w] = "idle"
    /\ Stale # {}
    /\ reg' = [reg EXCEPT ![w].items = Stale]
    /\ Goto(w, "reset")
    /\ UNCHANGED <<jobVars, itemVars, acctVars, brokerVars, web, spent>>

(* ... sets those rows to PENDING whatever they are by then, clears their  *)
(* accounts' throttles ...                                                 *)
ResetItems(w) ==
    /\ pc[w] = "reset"
    /\ SetItems(reg[w].items, "pending")
    /\ paused' = paused \ Accounts(reg[w].items)
    /\ Goto(w, "requeue")
    /\ UNCHANGED <<jobVars, tried, scheduled, overdue, enabled, marked, effect, brokerVars, web, reg, spent>>

(* ... and queues them again. *)
RequeueItems(w) ==
    /\ pc[w] = "requeue"
    /\ queue' = Send(reg[w].items)
    /\ Finish(w)
    /\ UNCHANGED <<jobVars, itemVars, acctVars, callbacks, web, spent>>

(* recover_stale_pending_items: attempts = 0 only, job still in progress. *)
NeverTried == {i \in Item : istat[i] = "pending" /\ i \notin tried}

RecoverPending(w) ==
    /\ "pending" \in Beats
    /\ pc[w] = "idle"
    /\ status = "inprogress" /\ NeverTried # {}
    /\ queue' = Send(NeverTried)
    /\ UNCHANGED <<jobVars, itemVars, acctVars, callbacks, procVars, spent>>

(* recover_stale_inprogress_jobs finalizes a job without reserved items. *)
RecoverJobs(w) ==
    /\ "jobs" \in Beats
    /\ pc[w] = "idle"
    /\ status = "inprogress" /\ Reserved = {}
    /\ Goto(w, "check")
    /\ UNCHANGED <<jobVars, itemVars, acctVars, brokerVars, web, reg, spent>>

-----------------------------------------------------------------------------
(* Time and faults *)

(* next_available_at of an account passes. *)
ThrottleExpires(a) ==
    /\ a \in paused
    /\ paused' = paused \ {a}
    /\ UNCHANGED <<jobVars, itemVars, enabled, marked, effect, brokerVars, procVars, spent>>

LoseMessage(m) ==
    /\ queue[m] > 0
    /\ spent.loss < MaxLosses
    /\ queue' = [queue EXCEPT ![m] = @ - 1]
    /\ spent' = [spent EXCEPT !.loss = @ + 1]
    /\ UNCHANGED <<jobVars, itemVars, acctVars, callbacks, procVars>>

(* A worker process dies.  With CELERY_TASK_ACKS_LATE the message comes    *)
(* back when the whole worker died; when only a pool child died it is      *)
(* acknowledged (task_reject_on_worker_lost is not set).                   *)
CrashWorker(w) ==
    /\ pc[w] \in CrashPoints
    /\ spent.crash < MaxCrashes
    /\ queue' \in {queue, Send(reg[w].msg)}
    /\ spent' = [spent EXCEPT !.crash = @ + 1]
    /\ Finish(w)
    /\ UNCHANGED <<jobVars, itemVars, acctVars, callbacks, web>>

-----------------------------------------------------------------------------
Init ==
    /\ order \in Orders
    /\ status = "new" /\ success = 0
    /\ istat = [i \in Item |-> "none"]
    /\ tried = {} /\ scheduled = {} /\ overdue = {}
    /\ enabled = Account /\ paused = {}
    /\ marked \in SUBSET Recorded /\ effect = Already \cup marked
    /\ queue = [m \in Message |-> 0]
    /\ callbacks = [e \in Events |-> 0]
    /\ web = "idle"
    /\ pc = [w \in Worker |-> "idle"]
    /\ reg = [w \in Worker |-> NoTask]
    /\ spent = [retry |-> 0, crash |-> 0, loss |-> 0, slow |-> 0]

ItemStep(w, i) ==
    \/ ClaimDrop(w, i) \/ ClaimDelay(w, i) \/ ClaimRun(w, i) \/ RunAction(w, i)
    \/ MarkDone(w, i) \/ SaveItem(w, i) \/ AfterItem(w, i)

JobStep(w) ==
    \/ CountItem(w) \/ CancelJob(w) \/ CheckIdle(w) \/ ReadCounts(w) \/ WriteCounts(w)
    \/ EnqueueNothing(w) \/ EnqueueDefer(w) \/ EnqueueItems(w) \/ DispatchItems(w)
    \/ SettleJob(w) \/ NotifyPanel(w) \/ ResetItems(w) \/ RequeueItems(w)

(* A worker process goes on with the task it runs. *)
Step(w) == JobStep(w) \/ \E i \in Item : ItemStep(w, i)

Next ==
    \/ CreateJob \/ DispatchJob \/ CrashWeb
    \/ \E w \in Worker :
        \/ Step(w) \/ TakeSlotFill(w) \/ CrashWorker(w)
        \/ RecoverRunning(w) \/ RecoverPending(w) \/ RecoverJobs(w)
        \/ \E i \in Item : TakeItem(w, i) \/ Overrun(w, i)
    \/ \E a \in Account : ThrottleExpires(a)
    \/ \E m \in Message : LoseMessage(m)

Spec == Init /\ [][Next]_vars

(* The API finishes a request it serves, worker processes are scheduled,   *)
(* pauses end, the broker goes on delivering while messages are waiting,   *)
(* and beat goes on starting the recovery tasks that find something to do. *)
Fairness ==
    /\ WF_vars(CreateJob \/ DispatchJob)
    /\ \A w \in Worker : WF_vars(Step(w))
    /\ \A a \in Account : WF_vars(ThrottleExpires(a))
    /\ SF_vars(\E w \in Worker : TakeSlotFill(w) \/ \E i \in Item : TakeItem(w, i))
    /\ SF_vars(\E w \in Worker : RecoverRunning(w) \/ RecoverPending(w) \/ RecoverJobs(w))

FairSpec == Spec /\ Fairness

-----------------------------------------------------------------------------
(* Safety *)

Settled == TERMINAL_JOB_STATUSES \cup {"active"}

(* A terminal job status is final (the early returns of                    *)
(* cancel_job_invalid_target and finalize_job_if_done): late runners,      *)
(* recovery tasks and repeated finalizers never reopen or re-settle a job. *)
TerminalIsFinal ==
    [][(status \in TERMINAL_JOB_STATUSES) => status' = status]_vars

(* The panel is told one verdict at most: over all workers, retries and    *)
(* recovery tasks, no job gets two of order_completed, order_partial and   *)
(* order_failed, nor the same one twice.                                   *)
OneVerdict ==
    /\ \A e \in Settlements : callbacks[e] <= 1
    /\ \A e, f \in Settlements : callbacks[e] > 0 /\ callbacks[f] > 0 => e = f

(* The verdict sent is the verdict stored: a settlement callback is only   *)
(* handed over for a job whose row has the matching terminal status.       *)
VerdictMatchesStatus ==
    \A s \in TERMINAL_JOB_STATUSES : callbacks[EventOf(s)] > 0 => status = s

(* Every success has its records, whatever crashed on the way: an item is  *)
(* SUCCESS only if its account is recorded as done on the target and, for  *)
(* a join with retention, has its auto-leave row (_run_action writes both  *)
(* before finish_item).                                                    *)
SuccessIsRecorded ==
    \A i \in Succeeded :
        /\ Acct(i) \in marked
        /\ order.action = "join" /\ order.retention => i \in scheduled

(* A view order never uses an account twice (_replace_view_items).         *)
ViewAccountsDistinct ==
    order.action = "view" => \A i, j \in Created : Acct(i) = Acct(j) => i = j

(* The promise to the panel (JobLifecycle), of which this is one           *)
(* implementation: the callbacks that settle are what the panel is told.   *)
Lifecycle == INSTANCE JobLifecycle WITH told <- [e \in Settlements |-> callbacks[e]]

(* The items, workers, retries and recovery tasks behind a job never show: *)
(* one verdict after creation, final, and told once.                       *)
ImplementsLifecycle == Lifecycle!Spec

(* One account acts for one item at a time: duplicate messages, recovery   *)
(* re-dispatches and replacements never put two live actions on one        *)
(* account (the row lock of claim_item_and_reserve_throttle).  It takes an *)
(* action that outlasts the cutoff of recover_stale_running_items, or a    *)
(* crash whose redelivered message overtakes the reset of that task.       *)
AccountActsAlone ==
    spent.slow = 0 /\ spent.crash = 0 =>
        \A v, w \in Worker : \A i, j \in Item :
            Runs(v, i) /\ Runs(w, j) /\ Acct(i) = Acct(j) => v = w

(* finalize_job_if_done: "When no item is pending or running: fill missing *)
(* slots, else settle the job" - a job never settles over a reserved item. *)
SettlesWhenIdle ==
    [][(status \notin Settled) /\ status' \in Settled =>
         \A i \in Item : istat'[i] \notin RESERVED_ITEM_STATUSES]_vars

(* No order is delivered beyond its total: replacements make up for items  *)
(* that did not deliver, never add to those that did.                      *)
NeverOverDelivers == Cardinality(Succeeded) <= order.total

(* The verdict of a settled job agrees with its items and, when it says    *)
(* completed (or active), with what happened at Rubika: at least as many   *)
(* accounts as requested really acted.                                     *)
VerdictMatchesItems ==
    /\ status = "fail" => Succeeded = {}
    /\ status = "partial" => Cardinality(Succeeded) \in 1..(order.requested - 1)
    /\ status \in {"completed", "active"} =>
          Cardinality(effect \cap Accounts(Created)) >= order.requested

-----------------------------------------------------------------------------
(* Liveness *)

(* Every job is settled: lost workers, throttled accounts and retries only *)
(* delay it (docs: "when no item is pending the job settles").             *)
EventuallySettles == status = "inprogress" ~> status \in Settled

(* A settled job is reported to the panel. *)
EventuallyReported ==
    status \in TERMINAL_JOB_STATUSES ~> \E e \in Settlements : callbacks[e] > 0
=============================================================================
