---------------------------- MODULE OrderIntake ----------------------------
(***************************************************************************)
(* Orders of the panel reaching the API: _signed_payload and               *)
(* internal_orders_view of worker/views.py, remember_nonce,                *)
(* create_membership_job, select_accounts and count_free_accounts of       *)
(* worker/jobs.py.                                                         *)
(*                                                                         *)
(* Every request is served by a thread of its own, so requests interleave  *)
(* between their SQL statements.  All orders are joins (or views) of one   *)
(* target.  The database is PostgreSQL at its default isolation level,     *)
(* READ COMMITTED: a statement sees what was committed when it started,    *)
(* SKIP LOCKED passes over the rows other transactions have locked, and an *)
(* insert of a unique key waits for a transaction that inserted it first.  *)
(***************************************************************************)
EXTENDS Integers, FiniteSets

CONSTANTS
    Account,    \* the accounts that may take the action
    Request,    \* the HTTP requests that arrive, network copies included
    NonceOf,    \* the nonce a request is signed with; copies share it
    OrderOf,    \* the order (idempotency key) of a request
    WantedBy,   \* how many accounts an order asks for
    MaxCrashes  \* bound: requests whose API process dies

Nonce == {NonceOf[r] : r \in Request}

Order == {OrderOf[r] : r \in Request}

ASSUME RequestAssumption ==
    /\ DOMAIN NonceOf = Request /\ DOMAIN OrderOf = Request
    /\ WantedBy \in [Order -> Nat \ {0}]
    /\ \A r, s \in Request : NonceOf[r] = NonceOf[s] => OrderOf[r] = OrderOf[s]
    /\ MaxCrashes \in Nat

VARIABLES
    nonces,   \* WorkerSignedNonce rows
    jobs,     \* committed MembershipJob rows with the accounts of their items
    pc,       \* control point of the thread that serves a request
    seen,     \* the accounts the SELECT found, as of its start
    held,     \* account rows the open transaction has locked
    reply,    \* the answer to a request
    queued,   \* jobs whose items were sent to Celery, by request
    crashes

vars == <<nonces, jobs, pc, seen, held, reply, queued, crashes>>

PC == {"arriving", "lookup", "select", "lock", "count", "insert", "commit", "dispatch", "done"}

Job == [order : Order, accounts : SUBSET Account, by : Request]

Replies == {"none", "accepted", "replayed", "pool_busy", "insufficient_capacity", "no_answer"}

TypeOK ==
    /\ nonces \subseteq Nonce
    /\ jobs \subseteq Job
    /\ pc \in [Request -> PC]
    /\ seen \in [Request -> SUBSET Account]
    /\ held \in [Request -> SUBSET Account]
    /\ reply \in [Request -> Replies]
    /\ queued \in [Request -> SUBSET Job]
    /\ crashes \in 0..MaxCrashes

Reserved == UNION {j.accounts : j \in jobs}

Free == Account \ Reserved

LockedByOthers(r) == UNION {held[s] : s \in Request \ {r}}

Goto(r, point) == pc' = [pc EXCEPT ![r] = point]

(* The request is answered; the transaction, if any, is over. *)
Answer(r, answer) ==
    /\ reply' = [reply EXCEPT ![r] = answer]
    /\ Goto(r, "done")
    /\ held' = [held EXCEPT ![r] = {}]
    /\ seen' = [seen EXCEPT ![r] = {}]

-----------------------------------------------------------------------------
Init ==
    /\ nonces = {} /\ jobs = {}
    /\ pc = [r \in Request |-> "arriving"]
    /\ seen = [r \in Request |-> {}]
    /\ held = [r \in Request |-> {}]
    /\ reply = [r \in Request |-> "none"]
    /\ queued = [r \in Request |-> {}]
    /\ crashes = 0

(* Mutant: a replayed request is served. *)
ReceiveAny(r) ==
    /\ pc[r] = "arriving"
    /\ nonces' = nonces \cup {NonceOf[r]}
    /\ Goto(r, "lookup")
    /\ UNCHANGED <<jobs, seen, held, reply, queued, crashes>>

(* _signed_payload: the nonce is inserted, or the request is a replay. *)
Receive(r) ==
    /\ pc[r] = "arriving"
    /\ \/ /\ NonceOf[r] \in nonces
          /\ Answer(r, "replayed")
          /\ UNCHANGED nonces
       \/ /\ NonceOf[r] \notin nonces
          /\ nonces' = nonces \cup {NonceOf[r]}
          /\ Goto(r, "lookup")
          /\ UNCHANGED <<seen, held, reply>>
    /\ UNCHANGED <<jobs, queued, crashes>>

Existing(r) == {j \in jobs : j.order = OrderOf[r]}

(* Mutant: the items of the existing job are sent again. *)
LookupAndQueue(r) ==
    /\ pc[r] = "lookup"
    /\ \/ /\ Existing(r) # {}
          /\ queued' = [queued EXCEPT ![r] = Existing(r)]
          /\ Answer(r, "accepted")
       \/ Existing(r) = {} /\ Goto(r, "select") /\ UNCHANGED <<seen, held, reply, queued>>
    /\ UNCHANGED <<nonces, jobs, crashes>>

(* The idempotency key is looked up before the transaction. *)
Lookup(r) ==
    /\ pc[r] = "lookup"
    /\ \/ Existing(r) # {} /\ Answer(r, "accepted")
       \/ Existing(r) = {} /\ Goto(r, "select") /\ UNCHANGED <<seen, held, reply>>
    /\ UNCHANGED <<nonces, jobs, queued, crashes>>

(* select_accounts starts: its subqueries see what is committed now ... *)
SelectAccounts(r) ==
    /\ pc[r] = "select"
    /\ seen' = [seen EXCEPT ![r] = Free]
    /\ Goto(r, "lock")
    /\ UNCHANGED <<nonces, jobs, held, reply, queued, crashes>>

Lockable(r) == seen[r] \ LockedByOthers(r)

(* ... and it locks the first rows that no other transaction has locked.   *)
LockAccounts(r) ==
    /\ pc[r] = "lock"
    /\ \E A \in SUBSET Lockable(r) :
        /\ Cardinality(A) = (IF WantedBy[OrderOf[r]] < Cardinality(Lockable(r))
                             THEN WantedBy[OrderOf[r]] ELSE Cardinality(Lockable(r)))
        /\ held' = [held EXCEPT ![r] = A]
        /\ Goto(r, IF A = {} THEN "count" ELSE "insert")
    /\ seen' = [seen EXCEPT ![r] = {}]
    /\ UNCHANGED <<nonces, jobs, reply, queued, crashes>>

(* No row: count_free_accounts tells contention from a full pool. *)
CountFree(r) ==
    /\ pc[r] = "count"
    /\ Answer(r, IF Free # {} THEN "pool_busy" ELSE "insufficient_capacity")
    /\ UNCHANGED <<nonces, jobs, queued, crashes>>

(* Mutant: requests of one key wait for each other before the INSERT. *)
InsertingSoon(r) == \E s \in Request \ {r} : pc[s] \in {"insert", "commit"} /\ OrderOf[s] = OrderOf[r]

(* Another open transaction inserted the key of r already. *)
Inserting(r) == \E s \in Request \ {r} : pc[s] = "commit" /\ OrderOf[s] = OrderOf[r]

(* The INSERT of the job waits for a transaction that inserted the key; an *)
(* IntegrityError rolls back and answers with the job that won.            *)
InsertJob(r) ==
    /\ pc[r] = "insert"
    /\ ~Inserting(r)
    /\ \/ Existing(r) # {} /\ Answer(r, "accepted")
       \/ Existing(r) = {} /\ Goto(r, "commit") /\ UNCHANGED <<seen, held, reply>>
    /\ UNCHANGED <<nonces, jobs, queued, crashes>>

(* The COMMIT makes job and items visible and releases the row locks. *)
CommitJob(r) ==
    /\ pc[r] = "commit"
    /\ jobs' = jobs \cup {[order |-> OrderOf[r], accounts |-> held[r], by |-> r]}
    /\ held' = [held EXCEPT ![r] = {}]
    /\ Goto(r, "dispatch")
    /\ UNCHANGED <<nonces, seen, reply, queued, crashes>>

(* Callback and item messages, then the 202. *)
Dispatch(r) ==
    /\ pc[r] = "dispatch"
    /\ queued' = [queued EXCEPT ![r] = {j \in jobs : j.by = r}]
    /\ Answer(r, "accepted")
    /\ UNCHANGED <<nonces, jobs, crashes>>

(* The API process dies: an open transaction is rolled back. *)
Crash(r) ==
    /\ pc[r] \notin {"arriving", "done"}
    /\ crashes < MaxCrashes
    /\ crashes' = crashes + 1
    /\ Answer(r, "no_answer")
    /\ UNCHANGED <<nonces, jobs, queued>>

-----------------------------------------------------------------------------
Serve(r) ==
    \/ Lookup(r) \/ SelectAccounts(r) \/ LockAccounts(r) \/ CountFree(r)
    \/ InsertJob(r) \/ CommitJob(r) \/ Dispatch(r)

Next == \E r \in Request : Receive(r) \/ Serve(r) \/ Crash(r)

Spec == Init /\ [][Next]_vars

(* The threads that serve requests are scheduled. *)
FairSpec == Spec /\ \A r \in Request : WF_vars(Serve(r))

-----------------------------------------------------------------------------

(* A signed request acts once: of the copies of a request all but one are  *)
(* answered as replays (remember_nonce).                                   *)
CopiesActOnce ==
    \A r, s \in Request :
        r # s /\ NonceOf[r] = NonceOf[s] =>
            pc[r] = "arriving" \/ pc[s] = "arriving" \/ "replayed" \in {reply[r], reply[s]}

(* 202 is a promise: an order answered "accepted" has its job, with        *)
(* accounts, and unless a process died its items were sent, exactly once.  *)
AcceptedRuns ==
    \A r \in Request : reply[r] = "accepted" =>
        /\ Existing(r) # {}
        /\ \A j \in Existing(r) :
            /\ j.accounts # {}
            /\ Cardinality({s \in Request : j \in queued[s]}) = 1
                \/ pc[j.by] = "dispatch" \/ reply[j.by] = "no_answer"

(* Every request gets its answer: waiting for a transaction that inserted  *)
(* the same key never blocks for ever.                                     *)
EveryRequestAnswered == \A r \in Request : pc[r] = "lookup" ~> reply[r] # "none"

(* jobs.py, PoolBusyError: the panel treats insufficient_capacity "as      *)
(* final and refunds" - an order it refunds is not running.                *)
RefundedIsNotRunning ==
    \A r \in Request : reply[r] = "insufficient_capacity" => Existing(r) = {}
=============================================================================
