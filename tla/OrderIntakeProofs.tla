-------------------------- MODULE OrderIntakeProofs --------------------------
(***************************************************************************)
(* The promises of the intake for any accounts, requests, orders and       *)
(* number of dying processes.                                              *)
(*                                                                         *)
(* A nonce that was received stays received, so the second copy of a       *)
(* request finds it.  That an accepted order runs rests on who may still   *)
(* write a job of a key: while one transaction has inserted it, no other   *)
(* has, and no job of the key is committed.                                *)
(***************************************************************************)
EXTENDS OrderIntake, FiniteSetTheorems, TLAPS

(* What one request stores is never touched by another.                    *)
Typed ==
    /\ jobs \subseteq Job
    /\ pc \in [Request -> PC]
    /\ held \in [Request -> SUBSET Account]
    /\ seen \in [Request -> SUBSET Account]
    /\ reply \in [Request -> Replies]
    /\ queued \in [Request -> SUBSET jobs]

(* Copies of a request *)
Received ==
    /\ \A r \in Request : pc[r] # "arriving" => NonceOf[r] \in nonces
    /\ \A r \in Request : reply[r] # "none" <=> pc[r] = "done"

(* The transaction of r is about to commit: the key is its own.            *)
Alone ==
    \A r \in Request : pc[r] = "commit" =>
        /\ Existing(r) = {}
        /\ ~Inserting(r)

Holding == \A r \in Request : pc[r] \in {"insert", "commit"} => held[r] # {}

(* A committed job is known by its request, which alone sends its items.   *)
Owned ==
    \A j \in jobs :
        /\ j.order = OrderOf[j.by]
        /\ j.accounts # {}
        /\ pc[j.by] \in {"dispatch", "done"}
        /\ pc[j.by] = "done" => j \in queued[j.by] \/ reply[j.by] = "no_answer"
        /\ \A s \in Request : j \in queued[s] => s = j.by /\ pc[s] = "done"

Answered ==
    /\ \A r \in Request : pc[r] = "dispatch" => Existing(r) # {}
    /\ \A r \in Request : reply[r] = "accepted" => Existing(r) # {}

IInv == Typed /\ Received /\ Alone /\ Holding /\ Owned /\ Answered

LEMMA InitInv == Init => IInv
  BY RequestAssumption
  DEF Init, IInv, Typed, Received, Alone, Holding, Owned, Answered, PC, Replies

-----------------------------------------------------------------------------
(* An answer that changes no job and sends nothing.                        *)
LEMMA AnswerInv ==
    ASSUME IInv, NEW r \in Request, NEW answer \in Replies \ {"none"},
           pc[r] # "done", NonceOf[r] \in nonces, Answer(r, answer),
           UNCHANGED <<nonces, jobs, queued>>,
           answer = "accepted" => Existing(r) # {},
           pc[r] = "dispatch" => answer = "no_answer"
    PROVE  IInv'
<1>. USE DEF IInv
<1>1. /\ pc' = [pc EXCEPT ![r] = "done"] /\ reply' = [reply EXCEPT ![r] = answer]
      /\ held' = [held EXCEPT ![r] = {}] /\ seen' = [seen EXCEPT ![r] = {}]
      /\ pc \in [Request -> PC] /\ reply \in [Request -> Replies]
  BY DEF Answer, Goto, Typed
<1>2. Typed'
  BY <1>1 DEF Typed, PC
<1>3. Received'
  BY <1>1 DEF Received
<1>4. Alone'
  BY <1>1 DEF Alone, Existing, Inserting
<1>5. Holding'
  BY <1>1 DEF Holding, Typed
<1>6. Owned'
  BY <1>1 DEF Owned, Typed, Job
<1>7. Answered'
  BY <1>1 DEF Answered, Existing
<1>. QED  BY <1>2, <1>3, <1>4, <1>5, <1>6, <1>7

(* A step of r up to the insert.                                           *)
LEMMA AdvanceInv ==
    ASSUME IInv, NEW r \in Request, NEW point \in {"lookup", "select", "lock", "count", "insert"},
           pc[r] \notin {"commit", "dispatch", "done"}, Goto(r, point),
           UNCHANGED <<jobs, reply, queued>>,
           nonces \subseteq nonces', NonceOf[r] \in nonces',
           held' \in [Request -> SUBSET Account], seen' \in [Request -> SUBSET Account],
           \A s \in Request \ {r} : held'[s] = held[s],
           point = "insert" => held'[r] # {}
    PROVE  IInv'
<1>. USE DEF IInv
<1>1. pc' = [pc EXCEPT ![r] = point] /\ pc \in [Request -> PC]
  BY DEF Goto, Typed
<1>2. Typed'
  BY <1>1 DEF Typed, PC
<1>3. Received'
  BY <1>1 DEF Received
<1>4. Alone'
  BY <1>1 DEF Alone, Existing, Inserting
<1>5. Holding'
  BY <1>1 DEF Holding
<1>6. Owned'
  BY <1>1 DEF Owned, Typed, Job
<1>7. Answered'
  BY <1>1 DEF Answered, Existing
<1>. QED  BY <1>2, <1>3, <1>4, <1>5, <1>6, <1>7

LEMMA ReceiveInv == ASSUME IInv, NEW r \in Request, Receive(r) PROVE IInv'
<1>1. CASE NonceOf[r] \in nonces
  BY <1>1, AnswerInv DEF Receive, Replies
<1>2. CASE NonceOf[r] \notin nonces
  BY <1>2, AdvanceInv DEF Receive, IInv, Typed
<1>. QED  BY <1>1, <1>2

(* The insert succeeds: from now on the key is this transaction's.         *)
LEMMA InsertInv ==
    ASSUME IInv, NEW r \in Request, pc[r] = "insert", ~Inserting(r), Existing(r) = {},
           Goto(r, "commit"), UNCHANGED <<nonces, jobs, seen, held, reply, queued>>
    PROVE  IInv'
<1>. USE DEF IInv
<1>1. pc' = [pc EXCEPT ![r] = "commit"] /\ pc \in [Request -> PC]
  BY DEF Goto, Typed
<1>2. Typed' /\ Received' /\ Holding' /\ Owned' /\ Answered'
  BY <1>1 DEF Typed, PC, Received, Holding, Owned, Job, Answered, Existing
<1>3. Alone'
  <2> SUFFICES ASSUME NEW s \in Request, pc'[s] = "commit"
               PROVE  Existing(s)' = {} /\ ~Inserting(s)'
    BY DEF Alone
  <2>1. CASE s = r
    BY <1>1, <2>1 DEF Existing, Inserting
  <2>2. CASE s # r
    <3>1. pc[s] = "commit" /\ OrderOf[s] # OrderOf[r]
      BY <1>1, <2>2 DEF Inserting
    <3>2. Existing(s) = {} /\ ~Inserting(s)
      BY <3>1 DEF Alone
    <3>. QED  BY <1>1, <3>1, <3>2 DEF Existing, Inserting
  <2>. QED  BY <2>1, <2>2
<1>. QED  BY <1>2, <1>3

LEMMA CommitInv == ASSUME IInv, NEW r \in Request, CommitJob(r) PROVE IInv'
<1>. USE DEF IInv
<1> DEFINE new == [order |-> OrderOf[r], accounts |-> held[r], by |-> r]
<1>1. /\ pc[r] = "commit" /\ pc' = [pc EXCEPT ![r] = "dispatch"]
      /\ jobs' = jobs \cup {new} /\ held' = [held EXCEPT ![r] = {}]
      /\ UNCHANGED <<nonces, seen, reply, queued>>
      /\ pc \in [Request -> PC] /\ held \in [Request -> SUBSET Account]
  BY DEF CommitJob, Goto, Typed
<1>2. new \in Job /\ held[r] # {} /\ Existing(r) = {} /\ ~Inserting(r)
  BY <1>1 DEF Job, Order, Holding, Alone
<1>3. Typed'
  <2>1. queued' \in [Request -> SUBSET jobs']
    BY <1>1 DEF Typed
  <2>. QED  BY <1>1, <1>2, <2>1 DEF Typed, PC
<1>4. Received'
  BY <1>1 DEF Received
<1>5. Alone'
  <2> SUFFICES ASSUME NEW s \in Request, pc'[s] = "commit"
               PROVE  Existing(s)' = {} /\ ~Inserting(s)'
    BY DEF Alone
  <2>1. s # r /\ pc[s] = "commit" /\ Existing(s) = {} /\ ~Inserting(s)
    BY <1>1 DEF Alone
  <2>2. OrderOf[s] # OrderOf[r]
    BY <1>1, <2>1 DEF Inserting
  <2>. QED  BY <1>1, <2>1, <2>2 DEF Existing, Inserting
<1>6. Holding'
  BY <1>1 DEF Holding
<1>7. Owned'
  <2> SUFFICES ASSUME NEW j \in jobs'
               PROVE  /\ j.order = OrderOf[j.by] /\ j.accounts # {}
                      /\ pc'[j.by] \in {"dispatch", "done"}
                      /\ pc'[j.by] = "done" => j \in queued[j.by] \/ reply[j.by] = "no_answer"
                      /\ \A s \in Request : j \in queued[s] => s = j.by /\ pc'[s] = "done"
    BY <1>1 DEF Owned
  <2>1. CASE j \in jobs
    BY <1>1, <2>1 DEF Owned, Typed, Job
  <2>2. CASE j = new /\ j \notin jobs
    BY <1>1, <1>2, <2>2 DEF Typed
  <2>. QED  BY <1>1, <2>1, <2>2
<1>8. Answered'
  <2>1. new \in Existing(r)' /\ \A s \in Request : Existing(s) \subseteq Existing(s)'
    BY <1>1 DEF Existing
  <2>. QED  BY <1>1, <2>1 DEF Answered
<1>. QED  BY <1>3, <1>4, <1>5, <1>6, <1>7, <1>8

LEMMA DispatchInv == ASSUME IInv, NEW r \in Request, Dispatch(r) PROVE IInv'
<1>. USE DEF IInv
<1>1. /\ pc[r] = "dispatch" /\ pc' = [pc EXCEPT ![r] = "done"]
      /\ queued' = [queued EXCEPT ![r] = {j \in jobs : j.by = r}]
      /\ reply' = [reply EXCEPT ![r] = "accepted"]
      /\ held' = [held EXCEPT ![r] = {}] /\ seen' = [seen EXCEPT ![r] = {}]
      /\ UNCHANGED <<nonces, jobs>>
      /\ pc \in [Request -> PC] /\ reply \in [Request -> Replies]
      /\ held \in [Request -> SUBSET Account] /\ queued \in [Request -> SUBSET jobs]
  BY DEF Dispatch, Answer, Goto, Typed
<1>2. Typed'
  BY <1>1 DEF Typed, PC, Replies
<1>3. Received'
  BY <1>1 DEF Received
<1>4. Alone' /\ Holding'
  BY <1>1 DEF Alone, Existing, Inserting, Holding
<1>5. Owned'
  BY <1>1 DEF Owned, Typed, Job
<1>6. Answered'
  BY <1>1 DEF Answered, Existing
<1>. QED  BY <1>2, <1>3, <1>4, <1>5, <1>6

LEMMA StepInv == ASSUME IInv, [Next]_vars PROVE IInv'
<1>1. ASSUME NEW r \in Request, Receive(r) PROVE IInv'
  BY <1>1, ReceiveInv
<1>2. ASSUME NEW r \in Request, Crash(r) PROVE IInv'
  BY <1>2, AnswerInv DEF Crash, IInv, Received, Replies
<1>3. ASSUME NEW r \in Request, Serve(r) PROVE IInv'
  <2>1. pc[r] \in PC \ {"arriving", "done"} => NonceOf[r] \in nonces
    BY DEF IInv, Received
  <2>2. CASE Lookup(r)
    <3>1. CASE Existing(r) # {}
      BY <2>1, <2>2, <3>1, AnswerInv DEF Lookup, Replies, PC
    <3>2. CASE Existing(r) = {}
      BY <2>1, <2>2, <3>2, AdvanceInv DEF Lookup, IInv, Typed, PC
    <3>. QED  BY <3>1, <3>2
  <2>3. CASE SelectAccounts(r)
    BY <2>1, <2>3, AdvanceInv DEF SelectAccounts, IInv, Typed, PC, Free
  <2>4. CASE LockAccounts(r)
    <3>1. PICK A \in SUBSET Lockable(r) :
            /\ held' = [held EXCEPT ![r] = A]
            /\ Goto(r, IF A = {} THEN "count" ELSE "insert")
      BY <2>4 DEF LockAccounts
    <3>2. /\ pc[r] = "lock" /\ seen' = [seen EXCEPT ![r] = {}]
          /\ UNCHANGED <<nonces, jobs, reply, queued>>
      BY <2>4 DEF LockAccounts
    <3>3. A \in SUBSET Account
      BY DEF Lockable, IInv, Typed
    <3>. QED  BY <2>1, <3>1, <3>2, <3>3, AdvanceInv DEF IInv, Typed, PC
  <2>5. CASE CountFree(r)
    BY <2>1, <2>5, AnswerInv DEF CountFree, Replies, PC
  <2>6. CASE InsertJob(r)
    <3>1. CASE Existing(r) # {}
      BY <2>1, <2>6, <3>1, AnswerInv DEF InsertJob, Replies, PC
    <3>2. CASE Existing(r) = {}
      BY <2>6, <3>2, InsertInv DEF InsertJob
    <3>. QED  BY <3>1, <3>2
  <2>7. CASE CommitJob(r)
    BY <2>7, CommitInv
  <2>8. CASE Dispatch(r)
    BY <2>8, DispatchInv
  <2>. QED  BY <1>3, <2>2, <2>3, <2>4, <2>5, <2>6, <2>7, <2>8 DEF Serve
<1>4. CASE UNCHANGED vars
  BY <1>4 DEF vars, IInv, Typed, Received, Alone, Holding, Owned, Answered, Existing, Inserting
<1>. QED  BY <1>1, <1>2, <1>3, <1>4 DEF Next

LEMMA Invariance == Spec => []IInv
  BY InitInv, StepInv, PTL DEF Spec

-----------------------------------------------------------------------------
(* create_membership_job with dispatch: an order that was answered 202 has *)
(* a job with accounts, whose items were sent exactly once unless the      *)
(* process of its request died, however retries of the panel, copies and   *)
(* other orders overlap.                                                   *)
THEOREM AcceptedOrdersRun == Spec => []AcceptedRuns
<1>1. ASSUME IInv PROVE AcceptedRuns
  <2> SUFFICES ASSUME NEW r \in Request, reply[r] = "accepted"
               PROVE  /\ Existing(r) # {}
                      /\ \A j \in Existing(r) :
                            /\ j.accounts # {}
                            /\ \/ Cardinality({s \in Request : j \in queued[s]}) = 1
                               \/ pc[j.by] = "dispatch" \/ reply[j.by] = "no_answer"
    BY DEF AcceptedRuns
  <2>1. Existing(r) # {}
    BY <1>1 DEF IInv, Answered
  <2>2. ASSUME NEW j \in Existing(r), pc[j.by] # "dispatch", reply[j.by] # "no_answer"
        PROVE  Cardinality({s \in Request : j \in queued[s]}) = 1
    <3>1. j \in jobs /\ j.by \in Request /\ j \in queued[j.by]
      BY <1>1, <2>2 DEF IInv, Owned, Typed, Job, Existing
    <3>2. {s \in Request : j \in queued[s]} = {j.by}
      BY <1>1, <3>1 DEF IInv, Owned
    <3>. QED  BY <3>2, FS_Singleton
  <2>3. \A j \in Existing(r) : j.accounts # {}
    BY <1>1 DEF IInv, Owned, Existing
  <2>. QED  BY <2>1, <2>2, <2>3
<1>. QED  BY <1>1, Invariance, PTL

(* remember_nonce: of the copies of a signed request, or its replays, one  *)
(* at most is served.                                                      *)
THEOREM CopiesAreServedOnce == Spec => []CopiesActOnce
<1>1. Init => CopiesActOnce
  BY DEF Init, CopiesActOnce
<1>2. ASSUME IInv, CopiesActOnce, [Next]_vars PROVE CopiesActOnce'
  <2>1. ASSUME NEW r \in Request, Receive(r) PROVE CopiesActOnce'
    <3>1. CASE NonceOf[r] \in nonces
      <4>1. pc' = [pc EXCEPT ![r] = "done"] /\ reply' = [reply EXCEPT ![r] = "replayed"]
        BY <2>1, <3>1 DEF Receive, Answer, Goto
      <4>. QED  BY <1>2, <4>1 DEF CopiesActOnce, IInv, Typed
    <3>2. CASE NonceOf[r] \notin nonces
      <4>1. pc' = [pc EXCEPT ![r] = "lookup"] /\ reply' = reply
        BY <2>1, <3>2 DEF Receive, Goto
      <4>2. \A s \in Request : NonceOf[s] = NonceOf[r] => pc[s] = "arriving"
        BY <1>2, <3>2 DEF IInv, Received
      <4>. QED  BY <1>2, <4>1, <4>2 DEF CopiesActOnce, IInv, Typed
    <3>. QED  BY <3>1, <3>2
  <2>2. ASSUME NEW r \in Request, Serve(r) \/ Crash(r) PROVE CopiesActOnce'
    <3>1. pc[r] \notin {"arriving", "done"} /\ \A s \in Request \ {r} : pc'[s] = pc[s] /\ reply'[s] = reply[s]
      BY <1>2, <2>2 DEF Serve, Crash, Lookup, SelectAccounts, LockAccounts, CountFree, InsertJob,
                        CommitJob, Dispatch, Answer, Goto, IInv, Typed
    <3>2. reply[r] = "none"
      BY <1>2, <3>1 DEF IInv, Received
    <3>. QED  BY <1>2, <3>1, <3>2 DEF CopiesActOnce, IInv, Typed
  <2>3. CASE UNCHANGED vars
    BY <1>2, <2>3 DEF vars, CopiesActOnce
  <2>. QED  BY <1>2, <2>1, <2>2, <2>3 DEF Next
<1>. QED  BY <1>1, <1>2, Invariance, PTL DEF Spec
=============================================================================
