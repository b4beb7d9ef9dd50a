------------------------- MODULE JobPipelineProofs --------------------------
(***************************************************************************)
(* JobPipeline for any accounts, workers, orders, faults and bounds: its   *)
(* types, with the facts about its helpers that the proofs use; that a     *)
(* terminal status is final, and the panel is told one verdict, the one    *)
(* stored; that it implements JobLifecycle, where the refinement mapping   *)
(* keeps the status and forgets every callback but the settlements; that   *)
(* a success is never without its records; that a view order never uses an *)
(* account twice; that no account acts for two items at a time unless an   *)
(* action was slow or a worker died; that a single worker never delivers   *)
(* more than was ordered and settles every order on what was delivered;    *)
(* and what follows a retained order, AutoLeave, never leaves an account   *)
(* too early, nor records it as left or the job as completed too early.    *)
(***************************************************************************)
EXTENDS JobPipeline, RetentionPeriod, FiniteSetTheorems, TLAPS

-----------------------------------------------------------------------------
(* Helpers *)

(* There are finitely many items, so counting them gives a number. *)
LEMMA ItemsFinite ==
    ASSUME NEW I \in SUBSET Item
    PROVE  IsFiniteSet(I) /\ Cardinality(I) \in Nat
<1>1. IsFiniteSet(1..MaxTries)
  BY FS_Interval, BoundAssumption
<1>2. IsFiniteSet(Item)
  BY <1>1, FS_Product, SetAssumption DEF Item
<1> QED
  BY <1>2, FS_Subset, FS_CardinalityType

(* Send only adds messages that are handed to it. *)
LEMMA SendType ==
    ASSUME TypeOK, NEW M
    PROVE  Send(M) \in [Message -> 0..MaxCopies]
  BY BoundAssumption DEF TypeOK, Send, Smaller

(* Report counts callbacks up to two. *)
LEMMA ReportType ==
    ASSUME TypeOK, NEW E
    PROVE  Report(E) \in [Events -> 0..2]
  BY DEF TypeOK, Report, Smaller

(* SetItems changes the rows of one set of items to one status. *)
LEMMA SetItemsType ==
    ASSUME TypeOK, NEW I, NEW s \in ItemStatus, SetItems(I, s)
    PROVE  istat' \in [Item -> ItemStatus]
  BY DEF TypeOK, SetItems

LEMMA GotoType ==
    ASSUME TypeOK, NEW w \in Worker, NEW point \in PC, Goto(w, point)
    PROVE  pc' \in [Worker -> PC]
  BY DEF TypeOK, Goto

LEMMA FinishType ==
    ASSUME TypeOK, NEW w \in Worker, Finish(w)
    PROVE  pc' \in [Worker -> PC] /\ reg' \in [Worker -> Registers]
<1>1. NoTask \in Registers
  BY DEF NoTask, Registers
<1>2. "idle" \in PC
  BY DEF PC
<1> QED
  BY <1>1, <1>2 DEF TypeOK, Finish, Goto

LEMMA VerdictType ==
    /\ Verdict \in {"active", "completed", "partial", "fail"}
    /\ \A s \in {"active", "completed", "partial", "fail"} : EventOf(s) \in Events
  BY DEF Verdict, EventOf, Events, Settlements

LEMMA OutcomeType ==
    ASSUME NEW kind
    PROVE  Outcome(kind) \in ItemStatus \ {"none", "pending", "running"}
  BY DEF Outcome, ItemStatus

-----------------------------------------------------------------------------
LEMMA TypeInit == Init => TypeOK
<1> SUFFICES ASSUME Init PROVE TypeOK
  OBVIOUS
<1>1. NoTask \in Registers /\ "idle" \in PC
  BY DEF NoTask, Registers, PC
<1>2. marked \subseteq Account /\ effect \subseteq Account
  BY SetAssumption DEF Init
<1>3. spent \in [retry : 0..MaxRetries, crash : 0..MaxCrashes, loss : 0..MaxLosses, slow : 0..MaxSlow]
  BY BoundAssumption DEF Init
<1> QED
  BY <1>1, <1>2, <1>3, BoundAssumption DEF Init, TypeOK, JobStatus, ItemStatus

(* One lemma per group of actions; each leaf needs the type of the few     *)
(* variables its action changes.                                           *)
LEMMA TypeWeb ==
    ASSUME TypeOK, CreateJob \/ DispatchJob \/ CrashWeb
    PROVE  TypeOK'
<1> USE DEF vars, jobVars, itemVars, acctVars, brokerVars, procVars
<1>1. CASE CreateJob
  <2>1. istat' \in [Item -> ItemStatus]
    BY <1>1, SetItemsType DEF CreateJob, ItemStatus
  <2> QED
    BY <1>1, <2>1 DEF CreateJob, TypeOK, JobStatus
<1>2. CASE DispatchJob
  BY <1>2, SendType, ReportType DEF DispatchJob, TypeOK
<1>3. CASE CrashWeb
  BY <1>3, BoundAssumption DEF CrashWeb, TypeOK
<1> QED
  BY <1>1, <1>2, <1>3

(* The locals of a worker keep their type when one field is assigned. *)
LEMMA RegType ==
    ASSUME TypeOK, NEW w \in Worker
    PROVE  /\ \A M \in SUBSET Message : [reg EXCEPT ![w].msg = M] \in [Worker -> Registers]
           /\ \A I \in SUBSET Item : [reg EXCEPT ![w].items = I] \in [Worker -> Registers]
           /\ \A b \in BOOLEAN : [reg EXCEPT ![w].seen = b] \in [Worker -> Registers]
           /\ \A n \in Nat : [reg EXCEPT ![w].count = n] \in [Worker -> Registers]
           /\ \A k \in Kinds \cup {"ok", "not_joined"} : [reg EXCEPT ![w].kind = k] \in [Worker -> Registers]
           /\ \A e \in Events : [reg EXCEPT ![w].event = e] \in [Worker -> Registers]
           /\ \A M \in SUBSET Message : [reg EXCEPT ![w] = [NoTask EXCEPT !.msg = M]] \in [Worker -> Registers]
<1>1. reg \in [Worker -> Registers]
  BY DEF TypeOK
<1>2. \A M \in SUBSET Message : [NoTask EXCEPT !.msg = M] \in Registers
  BY DEF Registers, NoTask
<1>3. \A M \in SUBSET Message : [reg EXCEPT ![w].msg = M] \in [Worker -> Registers]
  BY <1>1 DEF Registers
<1>4. \A I \in SUBSET Item : [reg EXCEPT ![w].items = I] \in [Worker -> Registers]
  BY <1>1 DEF Registers
<1>5. \A b \in BOOLEAN : [reg EXCEPT ![w].seen = b] \in [Worker -> Registers]
  BY <1>1 DEF Registers
<1>6. \A n \in Nat : [reg EXCEPT ![w].count = n] \in [Worker -> Registers]
  BY <1>1 DEF Registers
<1>7. \A k \in Kinds \cup {"ok", "not_joined"} : [reg EXCEPT ![w].kind = k] \in [Worker -> Registers]
  BY <1>1 DEF Registers
<1>8. \A e \in Events : [reg EXCEPT ![w].event = e] \in [Worker -> Registers]
  BY <1>1 DEF Registers
<1>9. \A M \in SUBSET Message : [reg EXCEPT ![w] = [NoTask EXCEPT !.msg = M]] \in [Worker -> Registers]
  BY <1>1, <1>2
<1> QED
  BY <1>3, <1>4, <1>5, <1>6, <1>7, <1>8, <1>9

LEMMA TypeItemStep ==
    ASSUME TypeOK, NEW w \in Worker, NEW i \in Item,
           ItemStep(w, i) \/ TakeItem(w, i) \/ Overrun(w, i)
    PROVE  TypeOK'
<1> USE DEF vars, jobVars, itemVars, acctVars, brokerVars, procVars
<1>i. Acct(i) \in Account /\ {i} \in SUBSET Message
  BY DEF Item, Acct, Message
<1>1. CASE TakeItem(w, i)
  <2>1. pc' \in [Worker -> PC]
    BY <1>1, GotoType DEF TakeItem, PC
  <2>2. reg' \in [Worker -> Registers]
    BY <1>1, <1>i, RegType DEF TakeItem
  <2>3. queue' \in [Message -> 0..MaxCopies]
    BY <1>1, <1>i, BoundAssumption DEF TakeItem, TypeOK
  <2> QED
    BY <1>1, <2>1, <2>2, <2>3 DEF TakeItem, TypeOK
<1>2. CASE ClaimDrop(w, i)
  BY <1>2, FinishType DEF ClaimDrop, TypeOK
<1>3. CASE ClaimDelay(w, i)
  BY <1>3, FinishType, SetItemsType, SendType DEF ClaimDelay, TypeOK, ItemStatus
<1>4. CASE ClaimRun(w, i)
  <2>1. pc' \in [Worker -> PC]
    BY <1>4, GotoType DEF ClaimRun, PC
  <2>2. reg' \in [Worker -> Registers]
    <3>1. CASE success > 0
      <4>1. reg' = [reg EXCEPT ![w].seen = TRUE]
        BY <1>4, <3>1 DEF ClaimRun
      <4> QED
        BY <4>1, RegType
    <3>2. CASE ~(success > 0)
      <4>1. reg' = [reg EXCEPT ![w].seen = FALSE]
        <5>1. (success > 0) = FALSE
          BY <3>2
        <5>2. reg' = [reg EXCEPT ![w].seen = success > 0]
          BY <1>4 DEF ClaimRun
        <5> QED
          BY <5>1, <5>2, Zenon
      <4> QED
        BY <4>1, RegType
    <3> QED
      BY <3>1, <3>2
  <2>3. istat' \in [Item -> ItemStatus]
    BY <1>4, SetItemsType DEF ClaimRun, ItemStatus
  <2> QED
    BY <1>4, <1>i, <2>1, <2>2, <2>3 DEF ClaimRun, TypeOK
<1>5. CASE RunAction(w, i)
  <2>1. pc' \in [Worker -> PC]
    BY <1>5, GotoType DEF RunAction, PC
  <2>2. reg' \in [Worker -> Registers]
    <3>1. CASE reg' = [reg EXCEPT ![w].kind = "not_joined"]
      BY <3>1, RegType
    <3>2. CASE \E kind \in Kinds : reg' = [reg EXCEPT ![w].kind = kind]
      BY <3>2, RegType
    <3> QED
      BY <1>5, <3>1, <3>2 DEF RunAction
  <2>3. effect' \subseteq Account
    BY <1>5, <1>i DEF RunAction, TypeOK
  <2>4. spent' \in [retry : 0..MaxRetries, crash : 0..MaxCrashes, loss : 0..MaxLosses, slow : 0..MaxSlow]
    BY <1>5, BoundAssumption DEF RunAction, TypeOK
  <2> QED
    BY <1>5, <2>1, <2>2, <2>3, <2>4 DEF RunAction, TypeOK
<1>6. CASE MarkDone(w, i)
  <2>1. pc' \in [Worker -> PC]
    BY <1>6, GotoType DEF MarkDone, PC
  <2> QED
    BY <1>6, <1>i, <2>1 DEF MarkDone, TypeOK
<1>7. CASE SaveItem(w, i)
  <2>1. pc' \in [Worker -> PC]
    BY <1>7, GotoType DEF SaveItem, PC
  <2>2. istat' \in [Item -> ItemStatus]
    BY <1>7, SetItemsType, OutcomeType DEF SaveItem
  <2> QED
    BY <1>7, <2>1, <2>2 DEF SaveItem, TypeOK
<1>8. CASE AfterItem(w, i)
  <2>1. pc' \in [Worker -> PC]
    BY <1>8, GotoType DEF AfterItem, PC
  <2>2. reg' \in [Worker -> Registers]
    BY <1>8, <1>i, RegType DEF AfterItem
  <2> QED
    BY <1>8, <1>i, <2>1, <2>2 DEF AfterItem, TypeOK
<1>9. CASE Overrun(w, i)
  BY <1>9, BoundAssumption DEF Overrun, TypeOK
<1> QED
  BY <1>1, <1>2, <1>3, <1>4, <1>5, <1>6, <1>7, <1>8, <1>9 DEF ItemStep

LEMMA TypeJobStep ==
    ASSUME TypeOK, NEW w \in Worker, JobStep(w)
    PROVE  TypeOK'
<1> USE DEF vars, jobVars, itemVars, acctVars, brokerVars, procVars
<1>r. reg[w] \in Registers
  BY DEF TypeOK
<1>1. CASE CountItem(w)
  BY <1>1, GotoType DEF CountItem, TypeOK, PC
<1>2. CASE CancelJob(w)
  <2>1. CASE Finish(w) /\ UNCHANGED <<status, istat>>
    BY <1>2, <2>1, FinishType DEF CancelJob, TypeOK
  <2>2. CASE Goto(w, "read")
    <3>1. pc' \in [Worker -> PC]
      BY <2>2, GotoType DEF PC
    <3>2. SetItems(Reserved, "skipped") \/ UNCHANGED istat
      BY <1>2 DEF CancelJob
    <3>3. istat' \in [Item -> ItemStatus]
      BY <3>2, SetItemsType DEF ItemStatus, TypeOK
    <3>4. reg' \in [Worker -> Registers]
      <4>1. CASE Finish(w)
        BY <4>1, FinishType
      <4>2. CASE \E e \in {"order_partial", "order_failed"} : reg' = [reg EXCEPT ![w].event = e]
        <5>1. PICK e \in Events : reg' = [reg EXCEPT ![w].event = e]
          BY <4>2 DEF Events, Settlements
        <5> QED
          BY <5>1, RegType
      <4> QED
        BY <1>2, <4>1, <4>2 DEF CancelJob
    <3> QED
      BY <1>2, <3>1, <3>3, <3>4 DEF CancelJob, TypeOK, JobStatus
  <2> QED
    BY <1>2, <2>1, <2>2 DEF CancelJob
<1>3. CASE CheckIdle(w)
  <2>1. pc' \in [Worker -> PC] /\ reg' \in [Worker -> Registers]
    BY <1>3, FinishType, GotoType DEF CheckIdle, TypeOK, PC
  <2> QED
    BY <1>3, <2>1 DEF CheckIdle, TypeOK
<1>4. CASE ReadCounts(w)
  <2>1. Cardinality(Succeeded) \in Nat
    BY ItemsFinite DEF Succeeded
  <2>2. pc' \in [Worker -> PC] /\ reg' \in [Worker -> Registers]
    BY <1>4, <2>1, RegType, GotoType DEF ReadCounts, PC
  <2> QED
    BY <1>4, <2>2 DEF ReadCounts, TypeOK
<1>5. CASE WriteCounts(w)
  <2>1. pc' \in [Worker -> PC] /\ reg' \in [Worker -> Registers]
    BY <1>5, RegType, GotoType DEF WriteCounts, PC
  <2>2. success' \in Nat
    BY <1>5, <1>r DEF WriteCounts, Registers
  <2> QED
    BY <1>5, <2>1, <2>2 DEF WriteCounts, TypeOK
<1>6. CASE EnqueueNothing(w)
  BY <1>6, GotoType DEF EnqueueNothing, TypeOK, PC
<1>7. CASE EnqueueDefer(w)
  BY <1>7, FinishType, SendType DEF EnqueueDefer, TypeOK
<1>8. CASE EnqueueItems(w)
  <2>1. pc' \in [Worker -> PC]
    BY <1>8, GotoType DEF EnqueueItems, PC
  <2>2. istat' \in [Item -> ItemStatus]
    BY <1>8, SetItemsType DEF EnqueueItems, ItemStatus
  <2>3. reg' \in [Worker -> Registers]
    <3>1. PICK A : reg' = [reg EXCEPT ![w].items = NewItems(A)]
      BY <1>8 DEF EnqueueItems
    <3>2. NewItems(A) \in SUBSET Item
      BY DEF NewItems
    <3> QED
      BY <3>1, <3>2, RegType
  <2> QED
    BY <1>8, <2>1, <2>2, <2>3 DEF EnqueueItems, TypeOK, JobStatus
<1>9. CASE DispatchItems(w)
  BY <1>9, FinishType, SendType DEF DispatchItems, TypeOK
<1>10. CASE SettleJob(w)
  <2>1. pc' \in [Worker -> PC]
    BY <1>10, GotoType, FinishType DEF SettleJob, PC
  <2>2. reg' \in [Worker -> Registers]
    <3>1. CASE Finish(w)
      BY <3>1, FinishType
    <3>2. CASE reg' = [reg EXCEPT ![w].event = EventOf(Verdict)]
      <4>1. EventOf(Verdict) \in Events
        BY VerdictType
      <4> QED
        BY <3>2, <4>1, RegType
    <3> QED
      BY <1>10, <3>1, <3>2 DEF SettleJob
  <2> QED
    BY <1>10, <2>1, <2>2, VerdictType DEF SettleJob, TypeOK, JobStatus
<1>11. CASE NotifyPanel(w)
  BY <1>11, FinishType, ReportType DEF NotifyPanel, TypeOK
<1>12. CASE ResetItems(w)
  <2>1. pc' \in [Worker -> PC]
    BY <1>12, GotoType DEF ResetItems, PC
  <2>2. istat' \in [Item -> ItemStatus]
    BY <1>12, SetItemsType DEF ResetItems, ItemStatus
  <2> QED
    BY <1>12, <2>1, <2>2 DEF ResetItems, TypeOK
<1>13. CASE RequeueItems(w)
  BY <1>13, FinishType, SendType DEF RequeueItems, TypeOK
<1> QED
  BY <1>1, <1>2, <1>3, <1>4, <1>5, <1>6, <1>7, <1>8, <1>9, <1>10, <1>11, <1>12, <1>13
  DEF JobStep

(* The tasks beat starts, and the faults of a worker. *)
LEMMA TypeStart ==
    ASSUME TypeOK, NEW w \in Worker,
           TakeSlotFill(w) \/ CrashWorker(w) \/ RecoverRunning(w) \/ RecoverPending(w) \/ RecoverJobs(w)
    PROVE  TypeOK'
<1> USE DEF vars, jobVars, itemVars, acctVars, brokerVars, procVars
<1>s. {SlotFill} \in SUBSET Message /\ SlotFill \in Message
  BY DEF Message
<1>1. CASE TakeSlotFill(w)
  <2>1. pc' \in [Worker -> PC] /\ reg' \in [Worker -> Registers]
    BY <1>1, <1>s, RegType, GotoType DEF TakeSlotFill, PC
  <2>2. queue' \in [Message -> 0..MaxCopies]
    BY <1>1, <1>s, BoundAssumption DEF TakeSlotFill, TypeOK
  <2> QED
    BY <1>1, <2>1, <2>2 DEF TakeSlotFill, TypeOK
<1>2. CASE CrashWorker(w)
  <2>1. queue' \in [Message -> 0..MaxCopies]
    BY <1>2, SendType DEF CrashWorker, TypeOK
  <2>2. spent' \in [retry : 0..MaxRetries, crash : 0..MaxCrashes, loss : 0..MaxLosses, slow : 0..MaxSlow]
    BY <1>2, BoundAssumption DEF CrashWorker, TypeOK
  <2> QED
    BY <1>2, <2>1, <2>2, FinishType DEF CrashWorker, TypeOK
<1>3. CASE RecoverRunning(w)
  <2>1. pc' \in [Worker -> PC] /\ reg' \in [Worker -> Registers]
    BY <1>3, RegType, GotoType DEF RecoverRunning, PC, Stale
  <2> QED
    BY <1>3, <2>1 DEF RecoverRunning, TypeOK
<1>4. CASE RecoverPending(w)
  BY <1>4, SendType DEF RecoverPending, TypeOK
<1>5. CASE RecoverJobs(w)
  BY <1>5, GotoType DEF RecoverJobs, TypeOK, PC
<1> QED
  BY <1>1, <1>2, <1>3, <1>4, <1>5

LEMMA TypeTime ==
    ASSUME TypeOK,
           (\E a \in Account : ThrottleExpires(a)) \/ (\E m \in Message : LoseMessage(m))
    PROVE  TypeOK'
<1> USE DEF vars, jobVars, itemVars, acctVars, brokerVars, procVars
<1>1. CASE \E a \in Account : ThrottleExpires(a)
  BY <1>1 DEF ThrottleExpires, TypeOK
<1>2. CASE \E m \in Message : LoseMessage(m)
  <2> PICK m \in Message : LoseMessage(m)
    BY <1>2
  <2>1. queue' \in [Message -> 0..MaxCopies]
    BY BoundAssumption DEF LoseMessage, TypeOK
  <2> QED
    BY <2>1, BoundAssumption DEF LoseMessage, TypeOK
<1> QED
  BY <1>1, <1>2

LEMMA TypeNext ==
    ASSUME TypeOK, [Next]_vars
    PROVE  TypeOK'
<1>1. CASE UNCHANGED vars
  BY <1>1 DEF TypeOK, vars, jobVars, itemVars, acctVars, brokerVars, procVars, Created
<1>2. CASE Next
  BY <1>2, TypeWeb, TypeItemStep, TypeJobStep, TypeStart, TypeTime DEF Next, Step
<1> QED
  BY <1>1, <1>2

(* Every variable keeps the type TypeOK gives it, for any accounts,        *)
(* workers, orders and bounds.                                             *)
THEOREM TypeCorrect == Spec => []TypeOK
  BY TypeInit, TypeNext, PTL DEF Spec

-----------------------------------------------------------------------------
(* Nothing happens before the order is created. *)
StartInv ==
    web = "idle" =>
        /\ status = "new"
        /\ Created = {}
        /\ \A m \in Message : queue[m] = 0
        /\ \A w \in Worker : pc[w] = "idle"

LEMMA StartInit == Init => StartInv
  BY DEF Init, StartInv, Created

(* While the order is not created only its creation and the passing of     *)
(* throttles can happen.                                                   *)
LEMMA NothingBefore ==
    ASSUME TypeOK, StartInv, web = "idle", Next
    PROVE  CreateJob \/ UNCHANGED <<status, istat, queue, pc, web, callbacks, reg, order>>
<1> USE DEF vars, jobVars, itemVars, acctVars, brokerVars, procVars
<1>0. /\ status = "new" /\ \A i \in Item : istat[i] = "none"
      /\ \A m \in Message : ~(queue[m] > 0)
      /\ \A w \in Worker : pc[w] = "idle"
  BY DEF StartInv, Created, TypeOK
<1>1. ~(\E w \in Worker : Step(w))
  <2>1. \A w \in Worker : ~JobStep(w)
    BY <1>0 DEF JobStep, CountItem, CancelJob, CheckIdle, ReadCounts, WriteCounts, EnqueueNothing,
                EnqueueDefer, EnqueueItems, DispatchItems, SettleJob, NotifyPanel, ResetItems, RequeueItems
  <2>2. \A w \in Worker, i \in Item : ~ItemStep(w, i)
    BY <1>0 DEF ItemStep, ClaimDrop, ClaimDelay, ClaimRun, RunAction, MarkDone, SaveItem, AfterItem
  <2> QED
    BY <2>1, <2>2 DEF Step
<1>2. \A w \in Worker : ~TakeSlotFill(w) /\ ~CrashWorker(w)
  BY <1>0, SetAssumption DEF TakeSlotFill, CrashWorker, Message
<1>3. \A w \in Worker : ~RecoverRunning(w) /\ ~RecoverPending(w) /\ ~RecoverJobs(w)
  BY <1>0 DEF RecoverRunning, RecoverPending, RecoverJobs, Stale, Orphan
<1>4. \A w \in Worker, i \in Item : ~TakeItem(w, i) /\ ~Overrun(w, i)
  BY <1>0 DEF TakeItem, Overrun, Runs, Message
<1>5. ~DispatchJob /\ ~CrashWeb /\ ~\E m \in Message : LoseMessage(m)
  BY <1>0 DEF DispatchJob, CrashWeb, LoseMessage
<1> QED
  BY <1>1, <1>2, <1>3, <1>4, <1>5 DEF Next, ThrottleExpires

(* The creation of the order is not undone. *)
LEMMA WebForward ==
    ASSUME web # "idle", [Next]_vars
    PROVE  web' # "idle"
<1> USE DEF vars, jobVars, itemVars, acctVars, brokerVars, procVars
<1>1. ASSUME NEW w \in Worker, Step(w) PROVE web' = web
  <2>1. CASE JobStep(w)
    BY <2>1 DEF JobStep, CountItem, CancelJob, CheckIdle, ReadCounts, WriteCounts, EnqueueNothing,
                EnqueueDefer, EnqueueItems, DispatchItems, SettleJob, NotifyPanel, ResetItems, RequeueItems
  <2>2. CASE \E i \in Item : ItemStep(w, i)
    BY <2>2 DEF ItemStep, ClaimDrop, ClaimDelay, ClaimRun, RunAction, MarkDone, SaveItem, AfterItem
  <2> QED
    BY <1>1, <2>1, <2>2 DEF Step
<1>2. ASSUME NEW w \in Worker,
             \/ TakeSlotFill(w) \/ CrashWorker(w)
             \/ RecoverRunning(w) \/ RecoverPending(w) \/ RecoverJobs(w)
             \/ \E i \in Item : TakeItem(w, i) \/ Overrun(w, i)
      PROVE web' = web
  BY <1>2 DEF TakeSlotFill, CrashWorker, RecoverRunning, RecoverPending, RecoverJobs, TakeItem, Overrun
<1>3. CASE CreateJob \/ DispatchJob \/ CrashWeb
  BY <1>3 DEF CreateJob, DispatchJob, CrashWeb
<1>4. CASE (\E a \in Account : ThrottleExpires(a)) \/ (\E m \in Message : LoseMessage(m))
  BY <1>4 DEF ThrottleExpires, LoseMessage
<1>5. CASE UNCHANGED vars
  BY <1>5
<1> QED
  BY <1>1, <1>2, <1>3, <1>4, <1>5 DEF Next

LEMMA StartNext ==
    ASSUME TypeOK, StartInv, [Next]_vars
    PROVE  StartInv'
<1> USE DEF vars, jobVars, itemVars, acctVars, brokerVars, procVars
<1>1. CASE web # "idle"
  BY <1>1, WebForward DEF StartInv
<1>2. CASE web = "idle" /\ CreateJob
  BY <1>2 DEF CreateJob, StartInv
<1>3. CASE web = "idle" /\ UNCHANGED <<status, istat, queue, pc, web, callbacks, reg, order>>
  BY <1>3 DEF StartInv, Created
<1> QED
  BY <1>1, <1>2, <1>3, NothingBefore

-----------------------------------------------------------------------------
(* A terminal status is final *)

(* The actions of a worker keep a terminal status. *)
LEMMA WorkerKeepsTerminal ==
    ASSUME status \in TERMINAL_JOB_STATUSES, NEW w \in Worker, Step(w)
    PROVE  status' = status
<1> USE DEF vars, jobVars, itemVars, acctVars, brokerVars, procVars
<1>1. CASE \E i \in Item : ItemStep(w, i)
  BY <1>1 DEF ItemStep, ClaimDrop, ClaimDelay, ClaimRun, RunAction, MarkDone, SaveItem, AfterItem
<1>2. CASE CancelJob(w) \/ SettleJob(w)
  BY <1>2 DEF CancelJob, SettleJob
<1>3. CASE EnqueueItems(w)
  BY <1>3 DEF EnqueueItems, Replaceable, TERMINAL_JOB_STATUSES
<1>4. CASE JobStep(w) /\ ~CancelJob(w) /\ ~SettleJob(w) /\ ~EnqueueItems(w)
  BY <1>4 DEF JobStep, CountItem, CheckIdle, ReadCounts, WriteCounts, EnqueueNothing,
              EnqueueDefer, DispatchItems, NotifyPanel, ResetItems, RequeueItems
<1> QED
  BY <1>1, <1>2, <1>3, <1>4 DEF Step

LEMMA TerminalStep ==
    ASSUME StartInv, status \in TERMINAL_JOB_STATUSES, [Next]_vars
    PROVE  status' = status
<1> USE DEF vars, jobVars, itemVars, acctVars, brokerVars, procVars
<1>1. ~CreateJob
  BY DEF CreateJob, StartInv, TERMINAL_JOB_STATUSES
<1>2. CASE DispatchJob \/ CrashWeb
  BY <1>2 DEF DispatchJob, CrashWeb
<1>3. ASSUME NEW w \in Worker,
             \/ TakeSlotFill(w) \/ CrashWorker(w)
             \/ RecoverRunning(w) \/ RecoverPending(w) \/ RecoverJobs(w)
             \/ \E i \in Item : TakeItem(w, i) \/ Overrun(w, i)
      PROVE status' = status
  BY <1>3 DEF TakeSlotFill, CrashWorker, RecoverRunning, RecoverPending, RecoverJobs, TakeItem, Overrun
<1>4. CASE (\E a \in Account : ThrottleExpires(a)) \/ (\E m \in Message : LoseMessage(m))
  BY <1>4 DEF ThrottleExpires, LoseMessage
<1>5. CASE UNCHANGED vars
  BY <1>5
<1> QED
  BY <1>1, <1>2, <1>3, <1>4, <1>5, WorkerKeepsTerminal DEF Next

LEMMA StartCorrect == Spec => []StartInv
  BY TypeCorrect, StartInit, StartNext, PTL DEF Spec

(* A job that failed, was settled partial or completed never changes its   *)
(* status again, whatever late runners, recovery tasks and repeated        *)
(* finalizers do (the terminal checks of cancel_job_invalid_target and     *)
(* finalize_job_if_done under the row lock).                               *)
THEOREM TerminalStatusIsFinal == Spec => TerminalIsFinal
<1>1. StartInv /\ [Next]_vars => [(status \in TERMINAL_JOB_STATUSES) => status' = status]_vars
  BY TerminalStep
<1> QED
  BY <1>1, StartCorrect, PTL DEF Spec, TerminalIsFinal

-----------------------------------------------------------------------------
(* One verdict *)

(* A settlement is told by a token: the rejected order that create_        *)
(* membership_job still has to report, a worker on its way from the        *)
(* settling transaction to the callback, or the callback handed over.      *)
(* There is one token at most and it agrees with the stored status; a      *)
(* crash between commit and callback destroys it.                          *)
TokensAgree ==
    /\ web = "rejected" => status = "fail"
    /\ \A w \in Worker, s \in TERMINAL_JOB_STATUSES : reg[w].event = EventOf(s) => status = s
    /\ VerdictMatchesStatus

TokensUnique ==
    /\ \A v, w \in Worker : reg[v].event \in Settlements /\ reg[w].event \in Settlements => v = w
    /\ \A w \in Worker : reg[w].event \in Settlements =>
          web # "rejected" /\ \A e \in Settlements : callbacks[e] = 0
    /\ web = "rejected" => \A e \in Settlements : callbacks[e] = 0
    /\ \A e \in Settlements : callbacks[e] <= 1

VerdictInv == TokensAgree /\ TokensUnique

LEMMA EventTable ==
    /\ EventOf("completed") = "order_completed"
    /\ EventOf("partial") = "order_partial"
    /\ EventOf("fail") = "order_failed"
    /\ EventOf("active") = "order_active"
    /\ Settlements = {EventOf(s) : s \in TERMINAL_JOB_STATUSES}
    /\ \A s, t \in TERMINAL_JOB_STATUSES : EventOf(s) = EventOf(t) => s = t
<1>1. /\ EventOf("completed") = "order_completed"
      /\ EventOf("partial") = "order_partial"
      /\ EventOf("fail") = "order_failed"
      /\ EventOf("active") = "order_active"
  BY DEF EventOf
<1> QED
  BY <1>1 DEF Settlements, TERMINAL_JOB_STATUSES

(* What the invariant says. *)
LEMMA VerdictInvImplies ==
    ASSUME TypeOK, VerdictInv
    PROVE  OneVerdict /\ VerdictMatchesStatus
<1>1. ASSUME NEW e \in Settlements, NEW f \in Settlements, callbacks[e] > 0, callbacks[f] > 0
      PROVE  e = f
  <2>1. PICK s \in TERMINAL_JOB_STATUSES : e = EventOf(s)
    BY EventTable
  <2>2. PICK t \in TERMINAL_JOB_STATUSES : f = EventOf(t)
    BY EventTable
  <2>3. status = s /\ status = t
    BY <1>1, <2>1, <2>2 DEF VerdictInv, TokensAgree, VerdictMatchesStatus
  <2> QED
    BY <2>1, <2>2, <2>3
<1> QED
  BY <1>1 DEF VerdictInv, TokensAgree, TokensUnique, OneVerdict

LEMMA VerdictInit == Init => VerdictInv
  <1> SUFFICES ASSUME Init PROVE VerdictInv
    OBVIOUS
  <1>1. \A w \in Worker : reg[w].event = "none"
    BY DEF Init, NoTask
  <1>2. \A e \in Events : callbacks[e] = 0
    BY DEF Init
  <1>3. "none" \notin Settlements /\ Settlements \subseteq Events /\ web = "idle"
    BY DEF Settlements, Events, Init
  <1>4. \A s \in TERMINAL_JOB_STATUSES : EventOf(s) \in Settlements
    BY EventTable
  <1>5. TokensAgree
    BY <1>1, <1>2, <1>3, <1>4 DEF TokensAgree, VerdictMatchesStatus
  <1>6. TokensUnique
    BY <1>1, <1>2, <1>3 DEF TokensUnique
  <1> QED
    BY <1>5, <1>6 DEF VerdictInv

(* A step that settles nothing: no status, no callback, no new token. *)
Quiet ==
    /\ UNCHANGED <<status, callbacks>>
    /\ web' = web \/ web' # "rejected"
    /\ \A w \in Worker : reg'[w].event = reg[w].event \/ reg'[w].event \notin Settlements

LEMMA QuietKeeps ==
    ASSUME VerdictInv, Quiet
    PROVE  VerdictInv'
<1>1. \A s \in TERMINAL_JOB_STATUSES : EventOf(s) \in Settlements
  BY EventTable
<1>2. TokensAgree'
  BY <1>1 DEF VerdictInv, TokensAgree, VerdictMatchesStatus, Quiet, EventOf
<1>3. TokensUnique'
  BY DEF VerdictInv, TokensUnique, Quiet
<1> QED
  BY <1>2, <1>3 DEF VerdictInv

(* While the status is not terminal there is no token. *)
LEMMA NoTokenYet ==
    ASSUME TypeOK, VerdictInv, status \notin TERMINAL_JOB_STATUSES
    PROVE  /\ web # "rejected"
           /\ \A w \in Worker : reg[w].event \notin Settlements
           /\ \A e \in Settlements : callbacks[e] = 0
<1>1. "fail" \in TERMINAL_JOB_STATUSES
  BY DEF TERMINAL_JOB_STATUSES
<1>2. \A e \in Settlements : callbacks[e] \in Nat
  BY DEF TypeOK, Events
<1> QED
  BY <1>1, <1>2, EventTable DEF VerdictInv, TokensAgree, VerdictMatchesStatus

(* The two transactions that settle a job create the only token. *)
LEMMA SettleKeeps ==
    ASSUME TypeOK, VerdictInv, NEW w \in Worker, NEW s \in {"completed", "partial", "fail", "active"},
           status \notin TERMINAL_JOB_STATUSES, status' = s,
           reg' = [reg EXCEPT ![w].event = EventOf(s)],
           UNCHANGED <<callbacks, web>>
    PROVE  VerdictInv'
<1>1. /\ web # "rejected"
      /\ \A v \in Worker : reg[v].event \notin Settlements
      /\ \A e \in Settlements : callbacks[e] = 0
  BY NoTokenYet
<1>2. /\ \A v \in Worker \ {w} : reg'[v].event \notin Settlements
      /\ reg'[w].event = EventOf(s)
  BY <1>1 DEF TypeOK, Registers
<1>3. \A t \in TERMINAL_JOB_STATUSES : EventOf(t) \in Settlements /\ (EventOf(t) = EventOf(s) => t = s)
  BY EventTable DEF TERMINAL_JOB_STATUSES
<1>4. \A v \in Worker, t \in TERMINAL_JOB_STATUSES : reg'[v].event = EventOf(t) => status' = t
  BY <1>2, <1>3
<1>5. \A t \in TERMINAL_JOB_STATUSES : ~(callbacks'[EventOf(t)] > 0)
  BY <1>1, <1>3
<1>6. TokensAgree'
  BY <1>1, <1>4, <1>5 DEF TokensAgree, VerdictMatchesStatus, EventOf
<1>7. TokensUnique'
  BY <1>1, <1>2 DEF TokensUnique
<1> QED
  BY <1>6, <1>7 DEF VerdictInv

(* A worker that handed its callback over has spent its token. *)
LEMMA NotifyKeeps ==
    ASSUME TypeOK, VerdictInv, NEW w \in Worker, NotifyPanel(w)
    PROVE  VerdictInv'
<1> USE DEF jobVars, itemVars, acctVars
<1>1. /\ callbacks' = Report({reg[w].event})
      /\ reg' = [reg EXCEPT ![w] = NoTask]
      /\ UNCHANGED <<status, web>>
  BY DEF NotifyPanel, Finish
<1>2. /\ \A v \in Worker \ {w} : reg'[v] = reg[v]
      /\ reg'[w].event \notin Settlements
      /\ \A e \in Events : callbacks[e] \in Nat
      /\ Settlements \subseteq Events
  BY <1>1 DEF TypeOK, NoTask, Settlements, Events
<1>3. CASE reg[w].event \notin Settlements
  <2>1. \A e \in Settlements : callbacks'[e] = callbacks[e]
    BY <1>1, <1>2, <1>3 DEF Report
  <2>2. \A s \in TERMINAL_JOB_STATUSES : EventOf(s) \in Settlements
    BY EventTable
  <2>3. \A v \in Worker, s \in TERMINAL_JOB_STATUSES : reg'[v].event = EventOf(s) => status' = s
    BY <1>1, <1>2, <2>2 DEF VerdictInv, TokensAgree
  <2>4. \A s \in TERMINAL_JOB_STATUSES : callbacks'[EventOf(s)] > 0 => status' = s
    BY <1>1, <2>1, <2>2 DEF VerdictInv, TokensAgree, VerdictMatchesStatus
  <2>5. TokensAgree'
    BY <1>1, <2>3, <2>4 DEF VerdictInv, TokensAgree, VerdictMatchesStatus
  <2>6. TokensUnique'
    BY <1>1, <1>2, <2>1 DEF VerdictInv, TokensUnique
  <2> QED
    BY <2>5, <2>6 DEF VerdictInv
<1>4. CASE reg[w].event \in Settlements
  <2>1. /\ web # "rejected"
        /\ \A v \in Worker \ {w} : reg[v].event \notin Settlements
        /\ \A e \in Settlements : callbacks[e] = 0
    BY <1>4 DEF VerdictInv, TokensUnique
  <2>2. \A e \in Settlements : callbacks'[e] = IF e = reg[w].event THEN 1 ELSE 0
    BY <1>1, <1>2, <2>1 DEF Report, Smaller
  <2>3. \A s \in TERMINAL_JOB_STATUSES : callbacks'[EventOf(s)] > 0 => reg[w].event = EventOf(s)
    BY <2>2, EventTable
  <2>4. \A v \in Worker : reg'[v].event \notin Settlements
    BY <1>2, <2>1
  <2>5. \A s \in TERMINAL_JOB_STATUSES : callbacks'[EventOf(s)] > 0 => status' = s
    BY <1>1, <2>3 DEF VerdictInv, TokensAgree
  <2>6. \A v \in Worker, s \in TERMINAL_JOB_STATUSES : reg'[v].event = EventOf(s) => status' = s
    BY <2>4, EventTable
  <2>7. TokensAgree'
    BY <1>1, <2>1, <2>5, <2>6 DEF TokensAgree, VerdictMatchesStatus
  <2>8. TokensUnique'
    BY <1>1, <2>1, <2>2, <2>4 DEF TokensUnique
  <2> QED
    BY <2>7, <2>8 DEF VerdictInv
<1> QED
  BY <1>3, <1>4

(* The API: an order without accounts is stored FAIL, and reported once. *)
LEMMA WebKeeps ==
    ASSUME TypeOK, StartInv, VerdictInv, CreateJob \/ DispatchJob \/ CrashWeb
    PROVE  VerdictInv'
<1> USE DEF jobVars, itemVars, acctVars, brokerVars
<1>e. /\ Settlements \subseteq Events
      /\ "order_accepted" \notin Settlements /\ "order_failed" \in Settlements
      /\ \A e \in Events : callbacks[e] \in Nat
  BY DEF Settlements, Events, TypeOK
<1>1. CASE CreateJob
  <2>1. status \notin TERMINAL_JOB_STATUSES
    BY <1>1 DEF CreateJob, StartInv, TERMINAL_JOB_STATUSES
  <2>2. /\ \A w \in Worker : reg[w].event \notin Settlements
        /\ \A e \in Settlements : callbacks[e] = 0
    BY <2>1, NoTokenYet
  <2>3. /\ web' = "rejected" => status' = "fail"
        /\ UNCHANGED <<callbacks, reg>>
    BY <1>1 DEF CreateJob
  <2>4. TokensAgree'
    BY <1>e, <2>2, <2>3, EventTable DEF TokensAgree, VerdictMatchesStatus, EventOf
  <2>5. TokensUnique'
    BY <2>2, <2>3 DEF TokensUnique
  <2> QED
    BY <2>4, <2>5 DEF VerdictInv
<1>2. CASE DispatchJob /\ web # "rejected"
  <2>1. /\ \A e \in Settlements : callbacks'[e] = callbacks[e]
        /\ web' = "done" /\ UNCHANGED <<status, reg>>
    BY <1>2, <1>e DEF DispatchJob, Report
  <2>2. TokensAgree'
    BY <2>1, EventTable DEF VerdictInv, TokensAgree, VerdictMatchesStatus, EventOf
  <2>3. TokensUnique'
    BY <2>1 DEF VerdictInv, TokensUnique
  <2> QED
    BY <2>2, <2>3 DEF VerdictInv
<1>3. CASE DispatchJob /\ web = "rejected"
  <2>1. /\ status = "fail"
        /\ \A w \in Worker : reg[w].event \notin Settlements
        /\ \A e \in Settlements : callbacks[e] = 0
    BY <1>3 DEF VerdictInv, TokensAgree, TokensUnique
  <2>2. /\ callbacks' = Report({"order_accepted", "order_failed"})
        /\ web' = "done" /\ UNCHANGED <<status, reg>>
    BY <1>3 DEF DispatchJob
  <2>3. \A e \in Settlements : callbacks'[e] = IF e = "order_failed" THEN 1 ELSE 0
    BY <1>e, <2>1, <2>2 DEF Report, Smaller
  <2>4. \A s \in TERMINAL_JOB_STATUSES : callbacks'[EventOf(s)] > 0 => EventOf(s) = EventOf("fail")
    BY <2>3, EventTable
  <2>5. \A s \in TERMINAL_JOB_STATUSES : callbacks'[EventOf(s)] > 0 => status' = s
    BY <2>1, <2>2, <2>4, EventTable DEF TERMINAL_JOB_STATUSES
  <2>6. TokensAgree'
    BY <2>1, <2>2, <2>5, EventTable DEF TokensAgree, VerdictMatchesStatus, EventOf
  <2>7. TokensUnique'
    BY <2>1, <2>2, <2>3 DEF TokensUnique
  <2> QED
    BY <2>6, <2>7 DEF VerdictInv
<1>4. CASE CrashWeb
  <2>1. Quiet
    BY <1>4 DEF CrashWeb, Quiet
  <2> QED
    BY <2>1, QuietKeeps
<1> QED
  BY <1>1, <1>2, <1>3, <1>4

LEMMA ItemStepQuiet ==
    ASSUME TypeOK, NEW w \in Worker, NEW i \in Item,
           ItemStep(w, i) \/ TakeItem(w, i) \/ Overrun(w, i)
    PROVE  Quiet
<1> USE DEF jobVars, itemVars, acctVars, brokerVars, procVars
<1>1. UNCHANGED <<status, callbacks, web>>
  BY DEF ItemStep, TakeItem, Overrun, ClaimDrop, ClaimDelay, ClaimRun, RunAction, MarkDone, SaveItem, AfterItem
<1>n. "none" \notin Settlements
  BY DEF Settlements
<1>2. \A v \in Worker : reg'[v].event = reg[v].event \/ reg'[v].event \notin Settlements
  <2>1. CASE TakeItem(w, i)
    BY <2>1 DEF TakeItem, TypeOK, Registers
  <2>2. CASE ClaimDrop(w, i) \/ ClaimDelay(w, i)
    BY <2>2, <1>n DEF ClaimDrop, ClaimDelay, Finish, NoTask, TypeOK
  <2>3. CASE ClaimRun(w, i)
    BY <2>3 DEF ClaimRun, TypeOK, Registers
  <2>4. CASE RunAction(w, i)
    <3>1. PICK k : reg' = [reg EXCEPT ![w].kind = k]
      BY <2>4 DEF RunAction
    <3> QED
      BY <3>1 DEF TypeOK, Registers
  <2>5. CASE MarkDone(w, i) \/ SaveItem(w, i) \/ Overrun(w, i)
    BY <2>5 DEF MarkDone, SaveItem, Overrun
  <2>6. CASE AfterItem(w, i)
    BY <2>6, <1>n DEF AfterItem, NoTask, TypeOK
  <2> QED
    BY <2>1, <2>2, <2>3, <2>4, <2>5, <2>6 DEF ItemStep
<1> QED
  BY <1>1, <1>2 DEF Quiet

LEMMA JobStepKeeps ==
    ASSUME TypeOK, VerdictInv, NEW w \in Worker, JobStep(w)
    PROVE  VerdictInv'
<1> USE DEF jobVars, itemVars, acctVars, brokerVars, procVars
<1>n. "none" \notin Settlements
  BY DEF Settlements
<1>1. CASE CountItem(w) \/ EnqueueNothing(w) \/ ResetItems(w)
  <2>1. Quiet
    BY <1>1 DEF CountItem, EnqueueNothing, ResetItems, Quiet
  <2> QED
    BY <2>1, QuietKeeps
<1>2. CASE CheckIdle(w) \/ EnqueueDefer(w) \/ DispatchItems(w) \/ RequeueItems(w)
  <2>1. Quiet
    BY <1>2, <1>n DEF CheckIdle, EnqueueDefer, DispatchItems, RequeueItems, Quiet, Finish, NoTask, TypeOK
  <2> QED
    BY <2>1, QuietKeeps
<1>3. CASE ReadCounts(w) \/ WriteCounts(w)
  <2>1. Quiet
    BY <1>3 DEF ReadCounts, WriteCounts, Quiet, TypeOK, Registers
  <2> QED
    BY <2>1, QuietKeeps
<1>4. CASE EnqueueItems(w)
  <2>1. status' = status
    BY <1>4 DEF EnqueueItems, Replaceable
  <2>2. PICK I : reg' = [reg EXCEPT ![w].items = I]
    BY <1>4 DEF EnqueueItems
  <2>3. Quiet
    BY <1>4, <2>1, <2>2 DEF EnqueueItems, Quiet, TypeOK, Registers
  <2> QED
    BY <2>3, QuietKeeps
<1>5. CASE CancelJob(w)
  <2>1. CASE status \in TERMINAL_JOB_STATUSES
    <3>1. Quiet
      BY <1>5, <2>1, <1>n DEF CancelJob, Quiet, Finish, NoTask, TypeOK
    <3> QED
      BY <3>1, QuietKeeps
  <2>2. CASE status \notin TERMINAL_JOB_STATUSES
    <3>1. \E s \in {"partial", "fail"} :
             status' = s /\ reg' = [reg EXCEPT ![w].event = EventOf(s)]
      BY <1>5, <2>2, EventTable DEF CancelJob
    <3>2. UNCHANGED <<callbacks, web>>
      BY <1>5 DEF CancelJob
    <3> QED
      BY <2>2, <3>1, <3>2, SettleKeeps
  <2> QED
    BY <2>1, <2>2
<1>6. CASE SettleJob(w)
  <2>1. CASE status \in TERMINAL_JOB_STATUSES
    <3>1. Quiet
      BY <1>6, <2>1, <1>n DEF SettleJob, Quiet, Finish, NoTask, TypeOK
    <3> QED
      BY <3>1, QuietKeeps
  <2>2. CASE status \notin TERMINAL_JOB_STATUSES
    <3>1. status' = Verdict /\ reg' = [reg EXCEPT ![w].event = EventOf(Verdict)]
      BY <1>6, <2>2 DEF SettleJob
    <3>2. UNCHANGED <<callbacks, web>>
      BY <1>6 DEF SettleJob
    <3> QED
      BY <2>2, <3>1, <3>2, SettleKeeps, VerdictType
  <2> QED
    BY <2>1, <2>2
<1> QED
  BY <1>1, <1>2, <1>3, <1>4, <1>5, <1>6, NotifyKeeps DEF JobStep

LEMMA StartQuiet ==
    ASSUME TypeOK, NEW w \in Worker,
           TakeSlotFill(w) \/ CrashWorker(w) \/ RecoverRunning(w) \/ RecoverPending(w) \/ RecoverJobs(w)
    PROVE  Quiet
<1> USE DEF jobVars, itemVars, acctVars, brokerVars, procVars
<1>n. "none" \notin Settlements
  BY DEF Settlements
<1>1. CASE TakeSlotFill(w) \/ RecoverRunning(w)
  BY <1>1 DEF TakeSlotFill, RecoverRunning, Quiet, TypeOK, Registers
<1>2. CASE CrashWorker(w)
  BY <1>2, <1>n DEF CrashWorker, Quiet, Finish, NoTask, TypeOK
<1>3. CASE RecoverPending(w) \/ RecoverJobs(w)
  BY <1>3 DEF RecoverPending, RecoverJobs, Quiet
<1> QED
  BY <1>1, <1>2, <1>3

LEMMA VerdictNext ==
    ASSUME TypeOK, StartInv, VerdictInv, [Next]_vars
    PROVE  VerdictInv'
<1> USE DEF vars, jobVars, itemVars, acctVars, brokerVars, procVars
<1>1. CASE (\E a \in Account : ThrottleExpires(a)) \/ (\E m \in Message : LoseMessage(m)) \/ UNCHANGED vars
  <2>1. Quiet
    BY <1>1 DEF ThrottleExpires, LoseMessage, Quiet
  <2> QED
    BY <2>1, QuietKeeps
<1>2. ASSUME NEW w \in Worker, NEW i \in Item, ItemStep(w, i) \/ TakeItem(w, i) \/ Overrun(w, i)
      PROVE  VerdictInv'
  BY <1>2, ItemStepQuiet, QuietKeeps
<1>3. ASSUME NEW w \in Worker,
             TakeSlotFill(w) \/ CrashWorker(w) \/ RecoverRunning(w) \/ RecoverPending(w) \/ RecoverJobs(w)
      PROVE  VerdictInv'
  BY <1>3, StartQuiet, QuietKeeps
<1> QED
  BY <1>1, <1>2, <1>3, WebKeeps, JobStepKeeps DEF Next, Step

(* Over all workers, retries, crashes and recovery tasks the panel hears   *)
(* one verdict at most, and it is the one stored in the job.               *)
THEOREM OneVerdictIsTold == Spec => [](OneVerdict /\ VerdictMatchesStatus)
<1>1. TypeOK /\ VerdictInv => OneVerdict /\ VerdictMatchesStatus
  BY VerdictInvImplies
<1>2. Init => VerdictInv
  BY VerdictInit
<1>3. TypeOK /\ StartInv /\ VerdictInv /\ [Next]_vars => VerdictInv'
  BY VerdictNext
<1> QED
  BY <1>1, <1>2, <1>3, TypeCorrect, StartCorrect, PTL DEF Spec

-----------------------------------------------------------------------------
(* The job pipeline implements JobLifecycle.                               *)

(* A job that was created keeps a status. *)
CreatedInv == web # "idle" => status # "new"

(* The status moves as JobLifecycle lets it. *)
Moves ==
    \/ status' = status
    \/ status = "new" /\ status' \in {"inprogress", "fail"}
    \/ status \in {"inprogress", "active"} /\ status' \in {"active", "completed", "partial", "fail"}

(* Settlements are never withdrawn, and a step that hands one over leaves  *)
(* the status alone.                                                       *)
Grows ==
    \/ UNCHANGED callbacks
    \/ status' = status /\ \A e \in Settlements : callbacks'[e] >= callbacks[e]

-----------------------------------------------------------------------------
(* Report counts up to "several". *)
LEMMA ReportGrows ==
    ASSUME TypeOK, NEW E
    PROVE  \A e \in Settlements : Report(E)[e] >= callbacks[e]
<1>1. Settlements \subseteq Events
  BY DEF Events
<1>2. \A e \in Events : callbacks[e] \in 0..2
  BY DEF TypeOK
<1> QED
  BY <1>1, <1>2 DEF Report, Smaller

LEMMA WorkerMoves ==
    ASSUME TypeOK, status # "new", NEW w \in Worker, Step(w)
    PROVE  Moves /\ Grows
<1> USE DEF vars, jobVars, itemVars, acctVars, brokerVars, procVars
<1>1. CASE \E i \in Item : ItemStep(w, i)
  BY <1>1 DEF ItemStep, ClaimDrop, ClaimDelay, ClaimRun, RunAction, MarkDone, SaveItem, AfterItem,
              Moves, Grows
<1>2. CASE CancelJob(w)
  <2>1. callbacks' = callbacks
    BY <1>2 DEF CancelJob
  <2>2. Moves
    BY <1>2 DEF CancelJob, Moves, TypeOK, JobStatus, TERMINAL_JOB_STATUSES
  <2> QED
    BY <2>1, <2>2 DEF Grows
<1>3. CASE SettleJob(w)
  <2>1. callbacks' = callbacks
    BY <1>3 DEF SettleJob
  <2>2. Moves
    BY <1>3, VerdictType DEF SettleJob, Moves, TypeOK, JobStatus, TERMINAL_JOB_STATUSES
  <2> QED
    BY <2>1, <2>2 DEF Grows
<1>4. CASE EnqueueItems(w)
  BY <1>4 DEF EnqueueItems, Replaceable, Moves, Grows
<1>5. CASE NotifyPanel(w)
  BY <1>5, ReportGrows DEF NotifyPanel, Moves, Grows
<1>6. CASE CountItem(w) \/ CheckIdle(w) \/ ReadCounts(w) \/ WriteCounts(w) \/ EnqueueNothing(w)
           \/ EnqueueDefer(w) \/ DispatchItems(w) \/ ResetItems(w) \/ RequeueItems(w)
  BY <1>6 DEF CountItem, CheckIdle, ReadCounts, WriteCounts, EnqueueNothing, EnqueueDefer,
              DispatchItems, ResetItems, RequeueItems, Moves, Grows
<1> QED
  BY <1>1, <1>2, <1>3, <1>4, <1>5, <1>6 DEF Step, JobStep

(* Every step moves the job and tells the panel as it should. *)
LEMMA StepMoves ==
    ASSUME TypeOK, StartInv, CreatedInv, [Next]_vars
    PROVE  Moves /\ Grows
<1> USE DEF vars, jobVars, itemVars, acctVars, brokerVars, procVars
<1>1. ASSUME NEW w \in Worker, Step(w) PROVE Moves /\ Grows
  <2>1. pc[w] # "idle"
    <3>1. CASE JobStep(w)
      BY <3>1 DEF JobStep, CountItem, CancelJob, CheckIdle, ReadCounts, WriteCounts, EnqueueNothing,
                  EnqueueDefer, EnqueueItems, DispatchItems, SettleJob, NotifyPanel, ResetItems, RequeueItems
    <3>2. CASE \E i \in Item : ItemStep(w, i)
      BY <3>2 DEF ItemStep, ClaimDrop, ClaimDelay, ClaimRun, RunAction, MarkDone, SaveItem, AfterItem
    <3> QED
      BY <1>1, <3>1, <3>2 DEF Step
  <2>2. status # "new"
    BY <2>1 DEF StartInv, CreatedInv
  <2> QED
    BY <1>1, <2>2, WorkerMoves
<1>2. CASE CreateJob
  BY <1>2 DEF CreateJob, StartInv, Moves, Grows
<1>3. CASE DispatchJob
  BY <1>3, ReportGrows DEF DispatchJob, Moves, Grows
<1>4. CASE CrashWeb
  BY <1>4 DEF CrashWeb, Moves, Grows
<1>5. ASSUME NEW w \in Worker,
             \/ TakeSlotFill(w) \/ CrashWorker(w)
             \/ RecoverRunning(w) \/ RecoverPending(w) \/ RecoverJobs(w)
             \/ \E i \in Item : TakeItem(w, i) \/ Overrun(w, i)
      PROVE Moves /\ Grows
  BY <1>5 DEF TakeSlotFill, CrashWorker, RecoverRunning, RecoverPending, RecoverJobs, TakeItem, Overrun,
              Moves, Grows
<1>6. CASE (\E a \in Account : ThrottleExpires(a)) \/ (\E m \in Message : LoseMessage(m))
  BY <1>6 DEF ThrottleExpires, LoseMessage, Moves, Grows
<1>7. CASE UNCHANGED vars
  BY <1>7 DEF Moves, Grows
<1> QED
  BY <1>1, <1>2, <1>3, <1>4, <1>5, <1>6, <1>7 DEF Next

LEMMA CreatedInit == Init => CreatedInv
  BY DEF Init, CreatedInv

LEMMA CreatedNext ==
    ASSUME TypeOK, StartInv, CreatedInv, [Next]_vars
    PROVE  CreatedInv'
<1> USE DEF vars, jobVars, itemVars, acctVars, brokerVars, procVars
<1>1. CASE web # "idle"
  BY <1>1, StepMoves DEF CreatedInv, Moves
<1>2. CASE web = "idle" /\ CreateJob
  BY <1>2 DEF CreateJob, CreatedInv
<1>3. CASE web = "idle" /\ web' = web
  BY <1>3 DEF CreatedInv
<1> QED
  BY <1>1, <1>2, <1>3, NothingBefore

-----------------------------------------------------------------------------
(* The initial state maps to the initial state. *)
LEMMA InitMaps == Init => Lifecycle!Init
<1>1. Settlements \subseteq Events
  BY DEF Events
<1> QED
  BY <1>1 DEF Init, Lifecycle!Init, Settlements

(* A settlement handed over is the first, and reports the status. *)
LEMMA TellMaps ==
    ASSUME TypeOK, TypeOK', OneVerdict', VerdictMatchesStatus', status' = status,
           NEW e \in Settlements, callbacks'[e] > callbacks[e],
           \A f \in Settlements : callbacks'[f] >= callbacks[f]
    PROVE  Lifecycle!Tell
<1>1. Settlements \subseteq Events
  BY DEF Events
<1>2. \A f \in Settlements : callbacks[f] \in 0..2 /\ callbacks'[f] \in 0..2
  BY <1>1 DEF TypeOK
<1>3. callbacks'[e] = 1 /\ \A f \in Settlements \ {e} : callbacks'[f] = 0
  BY <1>2 DEF OneVerdict
<1>4. \A f \in Settlements : callbacks[f] = 0
  BY <1>2, <1>3
<1>5. status \in Lifecycle!Verdicts /\ Lifecycle!Reports[status] = e
  <2>1. PICK s \in TERMINAL_JOB_STATUSES : EventOf(s) = e
    BY DEF TERMINAL_JOB_STATUSES, EventOf, Settlements
  <2>2. status = s
    BY <1>3, <2>1 DEF VerdictMatchesStatus
  <2> QED
    BY <2>1, <2>2 DEF TERMINAL_JOB_STATUSES, EventOf, Lifecycle!Verdicts, Lifecycle!Reports
<1>6. [f \in Settlements |-> callbacks'[f]] = [[f \in Settlements |-> callbacks[f]] EXCEPT ![e] = 1]
  BY <1>3, <1>4
<1> QED
  BY <1>4, <1>5, <1>6 DEF Lifecycle!Tell

(* Every step maps to a step or a stutter. *)
LEMMA StepMaps ==
    ASSUME TypeOK, TypeOK', StartInv, CreatedInv, OneVerdict', VerdictMatchesStatus', [Next]_vars
    PROVE  [Lifecycle!Next]_(Lifecycle!vars)
<1>1. Moves /\ Grows
  BY StepMoves
<1>2. CASE UNCHANGED callbacks
  <2>1. [e \in Settlements |-> callbacks'[e]] = [e \in Settlements |-> callbacks[e]]
    BY <1>2
  <2> QED
    BY <1>1, <2>1 DEF Moves, Lifecycle!Next, Lifecycle!Accept, Lifecycle!Settle, Lifecycle!Verdicts, Lifecycle!vars
<1>3. CASE status' = status /\ \A e \in Settlements : callbacks'[e] >= callbacks[e]
  <2>1. CASE \A e \in Settlements : callbacks'[e] = callbacks[e]
    <3>1. [e \in Settlements |-> callbacks'[e]] = [e \in Settlements |-> callbacks[e]]
      BY <2>1
    <3> QED
      BY <1>3, <3>1 DEF Lifecycle!vars
  <2>2. CASE \E e \in Settlements : callbacks'[e] # callbacks[e]
    <3>1. Settlements \subseteq Events
      BY DEF Events
    <3>2. PICK e \in Settlements : callbacks'[e] > callbacks[e]
      BY <1>3, <2>2, <3>1 DEF TypeOK
    <3> QED
      BY <1>3, <3>2, TellMaps DEF Lifecycle!Next
  <2> QED
    BY <2>1, <2>2
<1> QED
  BY <1>1, <1>2, <1>3 DEF Grows

LEMMA CreatedCorrect == Spec => []CreatedInv
  BY TypeCorrect, StartCorrect, CreatedInit, CreatedNext, PTL DEF Spec

(* Whatever workers, retries, crashes and recovery tasks do to its items,  *)
(* a job moves from creation to a final verdict that is told once.         *)
THEOREM LifecycleIsImplemented == Spec => ImplementsLifecycle
<1>1. TypeOK /\ TypeOK' /\ StartInv /\ CreatedInv /\ (OneVerdict /\ VerdictMatchesStatus)' /\ [Next]_vars
      => [Lifecycle!Next]_(Lifecycle!vars)
  BY StepMaps
<1> QED
  BY <1>1, InitMaps, TypeCorrect, StartCorrect, CreatedCorrect, OneVerdictIsTold, PTL
  DEF Spec, ImplementsLifecycle, Lifecycle!Spec

-----------------------------------------------------------------------------
(* Records before successes *)

HasRecords(i) ==
    /\ Acct(i) \in marked
    /\ order.action = "join" /\ order.retention => i \in scheduled

(* A worker about to save a success has written the records already: they  *)
(* are three statements, and a crash may come between any two of them.     *)
RecordInv ==
    /\ \A i \in Succeeded : HasRecords(i)
    /\ \A w \in Worker, i \in Item :
          pc[w] = "save" /\ reg[w].msg = {i} /\ Marks(reg[w].kind) => HasRecords(i)

LEMMA OutcomeSuccess ==
    ASSUME NEW kind, Outcome(kind) = "success"
    PROVE  Marks(kind)
  BY DEF Outcome, Marks

(* The records are never taken back. *)
RecordsGrow ==
    /\ marked \subseteq marked' /\ scheduled \subseteq scheduled'
    /\ UNCHANGED order

(* A step that neither makes an item succeed nor brings a worker to "save". *)
NoSuccess ==
    /\ RecordsGrow
    /\ \A i \in Item : istat'[i] = "success" => istat[i] = "success"
    /\ \A w \in Worker : pc'[w] = "save" => pc[w] = "save" /\ reg'[w] = reg[w]

LEMMA NoSuccessKeeps ==
    ASSUME RecordInv, NoSuccess
    PROVE  RecordInv'
<1>1. \A i \in Item : HasRecords(i) => HasRecords(i)'
  BY DEF NoSuccess, RecordsGrow, HasRecords
<1>2. \A i \in Succeeded' : HasRecords(i)'
  BY <1>1 DEF RecordInv, NoSuccess, Succeeded
<1>3. ASSUME NEW w \in Worker, NEW i \in Item, (pc[w] = "save" /\ reg[w].msg = {i} /\ Marks(reg[w].kind))'
      PROVE  HasRecords(i)'
  <2>1. pc[w] = "save" /\ reg'[w] = reg[w]
    BY <1>3 DEF NoSuccess
  <2>2. HasRecords(i)
    BY <1>3, <2>1 DEF RecordInv, Marks
  <2> QED
    BY <1>1, <2>2
<1> QED
  BY <1>2, <1>3 DEF RecordInv, Marks

LEMMA ItemStepRecords ==
    ASSUME TypeOK, RecordInv, NEW w \in Worker, NEW i \in Item,
           ItemStep(w, i) \/ TakeItem(w, i) \/ Overrun(w, i)
    PROVE  RecordInv'
<1> USE DEF jobVars, itemVars, acctVars, brokerVars, procVars
<1>1. CASE TakeItem(w, i) \/ ClaimDrop(w, i) \/ Overrun(w, i)
  <2>1. NoSuccess
    BY <1>1 DEF TakeItem, ClaimDrop, Overrun, NoSuccess, RecordsGrow, Goto, Finish, TypeOK
  <2> QED
    BY <2>1, NoSuccessKeeps
<1>2. CASE ClaimDelay(w, i) \/ ClaimRun(w, i)
  <2>1. NoSuccess
    BY <1>2 DEF ClaimDelay, ClaimRun, NoSuccess, RecordsGrow, Goto, Finish, SetItems, TypeOK
  <2> QED
    BY <2>1, NoSuccessKeeps
<1>3. CASE AfterItem(w, i)
  <2>1. NoSuccess
    BY <1>3 DEF AfterItem, NoSuccess, RecordsGrow, Goto, TypeOK
  <2> QED
    BY <2>1, NoSuccessKeeps
<1>4. CASE RunAction(w, i)
  <2>1. /\ UNCHANGED <<order, istat, marked, scheduled>>
        /\ \A v \in Worker \ {w} : pc'[v] = pc[v] /\ reg'[v] = reg[v]
        /\ pc'[w] = "save" => ~Marks(reg'[w].kind)
    <3>1. CASE /\ reg' = [reg EXCEPT ![w].kind = "not_joined"] /\ Goto(w, "save")
      BY <1>4, <3>1 DEF RunAction, Marks, TypeOK, Registers, Goto
    <3>2. CASE \E kind \in Kinds : /\ reg' = [reg EXCEPT ![w].kind = kind]
                                   /\ Goto(w, IF Marks(kind) THEN "mark" ELSE "save")
      BY <1>4, <3>2 DEF RunAction, TypeOK, Registers, Goto
    <3> QED
      BY <1>4, <3>1, <3>2 DEF RunAction
  <2>2. \A j \in Item : HasRecords(j)' <=> HasRecords(j)
    BY <2>1 DEF HasRecords
  <2>3. \A v \in Worker, j \in Item :
           (pc[v] = "save" /\ reg[v].msg = {j} /\ Marks(reg[v].kind))' =>
               pc[v] = "save" /\ reg[v].msg = {j} /\ Marks(reg[v].kind)
    BY <2>1 DEF Marks
  <2> QED
    BY <2>1, <2>2, <2>3 DEF RecordInv, Succeeded
<1>5. CASE MarkDone(w, i)
  <2>1. /\ UNCHANGED <<order, istat, reg>>
        /\ marked \subseteq marked' /\ scheduled \subseteq scheduled'
        /\ \A v \in Worker \ {w} : pc'[v] = pc[v]
        /\ reg[w].msg = {i}
        /\ HasRecords(i)'
    BY <1>5 DEF MarkDone, Goto, HasRecords, TypeOK
  <2>2. \A j \in Item : HasRecords(j) => HasRecords(j)'
    BY <2>1 DEF HasRecords
  <2>3. \A v \in Worker, j \in Item :
           (pc[v] = "save" /\ reg[v].msg = {j} /\ Marks(reg[v].kind))' =>
               j = i \/ (pc[v] = "save" /\ reg[v].msg = {j} /\ Marks(reg[v].kind))
    BY <2>1 DEF Marks
  <2>4. \A v \in Worker, j \in Item :
           (pc[v] = "save" /\ reg[v].msg = {j} /\ Marks(reg[v].kind))' => HasRecords(j)'
    BY <2>1, <2>2, <2>3 DEF RecordInv
  <2> QED
    BY <2>1, <2>2, <2>4 DEF RecordInv, Succeeded
<1>6. CASE SaveItem(w, i)
  <2>1. /\ RecordsGrow
        /\ pc' = [pc EXCEPT ![w] = "count"] /\ reg' = reg
        /\ \A j \in Item \ {i} : istat'[j] = istat[j]
        /\ istat'[i] = Outcome(reg[w].kind)
    BY <1>6 DEF SaveItem, Goto, RecordsGrow, SetItems, TypeOK
  <2>2. istat'[i] = "success" => HasRecords(i)
    BY <1>6, <2>1, OutcomeSuccess DEF SaveItem, RecordInv
  <2>3. \A j \in Item : HasRecords(j) => HasRecords(j)'
    BY <2>1 DEF HasRecords, RecordsGrow
  <2>4. \A j \in Succeeded' : HasRecords(j)'
    BY <2>1, <2>2, <2>3 DEF RecordInv, Succeeded
  <2>5. \A v \in Worker, j \in Item :
           (pc[v] = "save" /\ reg[v].msg = {j} /\ Marks(reg[v].kind))' => HasRecords(j)'
    BY <2>1, <2>3 DEF RecordInv, TypeOK, Marks
  <2> QED
    BY <2>4, <2>5 DEF RecordInv
<1> QED
  BY <1>1, <1>2, <1>3, <1>4, <1>5, <1>6 DEF ItemStep

LEMMA OtherStepsRecordNothing ==
    ASSUME TypeOK, [Next]_vars,
           ~\E w \in Worker, i \in Item : ItemStep(w, i) \/ TakeItem(w, i) \/ Overrun(w, i)
    PROVE  NoSuccess
<1> USE DEF vars, jobVars, itemVars, acctVars, brokerVars, procVars
<1>1. CASE CreateJob \/ DispatchJob \/ CrashWeb
  BY <1>1 DEF CreateJob, DispatchJob, CrashWeb, NoSuccess, RecordsGrow, SetItems
<1>2. ASSUME NEW w \in Worker, JobStep(w)
      PROVE  NoSuccess
  <2>1. CASE CountItem(w) \/ ReadCounts(w) \/ WriteCounts(w) \/ EnqueueNothing(w)
    BY <2>1 DEF CountItem, ReadCounts, WriteCounts, EnqueueNothing, NoSuccess, RecordsGrow, Goto, TypeOK
  <2>2. CASE CheckIdle(w) \/ EnqueueDefer(w) \/ DispatchItems(w) \/ NotifyPanel(w) \/ RequeueItems(w)
    BY <2>2 DEF CheckIdle, EnqueueDefer, DispatchItems, NotifyPanel, RequeueItems,
                NoSuccess, RecordsGrow, Goto, Finish, TypeOK
  <2>3. CASE EnqueueItems(w)
    BY <2>3 DEF EnqueueItems, NoSuccess, RecordsGrow, Goto, SetItems, TypeOK
  <2>4. CASE ResetItems(w)
    BY <2>4 DEF ResetItems, NoSuccess, RecordsGrow, Goto, SetItems, TypeOK
  <2>5. CASE SettleJob(w)
    BY <2>5 DEF SettleJob, NoSuccess, RecordsGrow, Goto, Finish, TypeOK
  <2>6. CASE CancelJob(w)
    BY <2>6 DEF CancelJob, NoSuccess, RecordsGrow, Goto, Finish, SetItems, TypeOK
  <2> QED
    BY <1>2, <2>1, <2>2, <2>3, <2>4, <2>5, <2>6 DEF JobStep
<1>3. ASSUME NEW w \in Worker,
             TakeSlotFill(w) \/ CrashWorker(w) \/ RecoverRunning(w) \/ RecoverPending(w) \/ RecoverJobs(w)
      PROVE  NoSuccess
  BY <1>3 DEF TakeSlotFill, CrashWorker, RecoverRunning, RecoverPending, RecoverJobs,
              NoSuccess, RecordsGrow, Goto, Finish, TypeOK
<1>4. CASE (\E a \in Account : ThrottleExpires(a)) \/ (\E m \in Message : LoseMessage(m)) \/ UNCHANGED vars
  BY <1>4 DEF ThrottleExpires, LoseMessage, NoSuccess, RecordsGrow
<1> QED
  BY <1>1, <1>2, <1>3, <1>4 DEF Next, Step

LEMMA RecordNext ==
    ASSUME TypeOK, RecordInv, [Next]_vars
    PROVE  RecordInv'
  BY ItemStepRecords, OtherStepsRecordNothing, NoSuccessKeeps

(* An item is SUCCESS only if its account is recorded as done and, for a   *)
(* join with retention, has its auto-leave row: _run_action writes both    *)
(* before finish_item, so no crash leaves a success that is never made to  *)
(* leave again.                                                            *)
THEOREM SuccessesAreRecorded == Spec => []SuccessIsRecorded
<1>1. Init => RecordInv
  BY DEF Init, RecordInv, Succeeded
<1>2. RecordInv => SuccessIsRecorded
  BY DEF RecordInv, SuccessIsRecorded, HasRecords
<1>3. TypeOK /\ RecordInv /\ [Next]_vars => RecordInv'
  BY RecordNext
<1> QED
  BY <1>1, <1>2, <1>3, TypeCorrect, PTL DEF Spec

-----------------------------------------------------------------------------
(* Only rows that exist are worked on *)

ExistInv ==
    /\ \A i \in Item : queue[i] > 0 => i \in Created
    /\ \A w \in Worker : reg[w].msg \cap Item \subseteq Created /\ reg[w].items \subseteq Created

(* A step that inserts no row and talks of existing rows only. *)
NoNewRow ==
    /\ UNCHANGED order
    /\ Created' = Created
    /\ \A i \in Item : queue'[i] > 0 => i \in Created
    /\ \A w \in Worker : reg'[w].msg \cap Item \subseteq Created /\ reg'[w].items \subseteq Created

LEMMA NoNewRowKeeps ==
    ASSUME NoNewRow
    PROVE  ExistInv' /\ (ViewAccountsDistinct => ViewAccountsDistinct')
  BY DEF NoNewRow, ExistInv, ViewAccountsDistinct

(* Rows are updated, never deleted. *)
LEMMA SetItemsExisting ==
    ASSUME TypeOK, NEW I, NEW s, s # "none", SetItems(I, s)
    PROVE  Created' = Created \cup (I \cap Item)
  BY DEF SetItems, Created, TypeOK

LEMMA SendExisting ==
    ASSUME TypeOK, ExistInv, NEW M, M \cap Item \subseteq Created
    PROVE  \A i \in Item : Send(M)[i] > 0 => i \in Created
  BY DEF Send, ExistInv, Message, TypeOK

LEMMA SlotFillIsNoItem == {SlotFill} \cap Item = {} /\ SlotFill \in Message
  BY BoundAssumption DEF SlotFill, Item, Message

LEMMA FinishExisting ==
    ASSUME TypeOK, ExistInv, NEW w \in Worker, Finish(w)
    PROVE  \A v \in Worker : reg'[v].msg \cap Item \subseteq Created /\ reg'[v].items \subseteq Created
  BY DEF TypeOK, ExistInv, Finish, NoTask

LEMMA ItemStepNoNewRow ==
    ASSUME TypeOK, ExistInv, NEW w \in Worker, NEW i \in Item,
           ItemStep(w, i) \/ TakeItem(w, i) \/ Overrun(w, i)
    PROVE  NoNewRow
<1> USE DEF jobVars, itemVars, acctVars, brokerVars, procVars
<1>m. ASSUME reg[w].msg = {i} PROVE i \in Created
  BY <1>m DEF ExistInv
<1>1. CASE TakeItem(w, i)
  <2>1. i \in Created
    BY <1>1 DEF TakeItem, ExistInv
  <2>2. \A j \in Item : queue'[j] > 0 => queue[j] > 0
    BY <1>1 DEF TakeItem, TypeOK, Message
  <2> QED
    BY <1>1, <2>1, <2>2 DEF TakeItem, NoNewRow, ExistInv, Created, TypeOK, Registers
<1>2. CASE ClaimDrop(w, i)
  BY <1>2, FinishExisting DEF ClaimDrop, NoNewRow, ExistInv, Created
<1>3. CASE ClaimDelay(w, i)
  <2>1. i \in Created
    BY <1>3, <1>m DEF ClaimDelay
  <2>2. Created' = Created
    BY <1>3, <2>1, SetItemsExisting DEF ClaimDelay
  <2>3. \A j \in Item : queue'[j] > 0 => j \in Created
    BY <1>3, <2>1, SendExisting DEF ClaimDelay
  <2> QED
    BY <1>3, <2>2, <2>3, FinishExisting DEF ClaimDelay, NoNewRow
<1>4. CASE ClaimRun(w, i)
  <2>1. Created' = Created
    BY <1>4, <1>m, SetItemsExisting DEF ClaimRun
  <2> QED
    BY <1>4, <2>1 DEF ClaimRun, NoNewRow, ExistInv, TypeOK, Registers
<1>5. CASE RunAction(w, i)
  <2>1. PICK k : reg' = [reg EXCEPT ![w].kind = k]
    BY <1>5 DEF RunAction
  <2> QED
    BY <1>5, <2>1 DEF RunAction, NoNewRow, ExistInv, Created, TypeOK, Registers
<1>6. CASE MarkDone(w, i) \/ Overrun(w, i)
  BY <1>6 DEF MarkDone, Overrun, NoNewRow, ExistInv, Created
<1>7. CASE SaveItem(w, i)
  <2>1. Created' = Created
    BY <1>7, <1>m, SetItemsExisting, OutcomeType DEF SaveItem
  <2> QED
    BY <1>7, <2>1 DEF SaveItem, NoNewRow, ExistInv
<1>8. CASE AfterItem(w, i)
  BY <1>8, <1>m DEF AfterItem, NoNewRow, ExistInv, Created, NoTask, TypeOK
<1> QED
  BY <1>1, <1>2, <1>3, <1>4, <1>5, <1>6, <1>7, <1>8 DEF ItemStep

LEMMA JobStepNoNewRow ==
    ASSUME TypeOK, ExistInv, NEW w \in Worker, JobStep(w), ~EnqueueItems(w)
    PROVE  NoNewRow
<1> USE DEF jobVars, itemVars, acctVars, brokerVars, procVars
<1>1. CASE CountItem(w) \/ EnqueueNothing(w)
  BY <1>1 DEF CountItem, EnqueueNothing, NoNewRow, ExistInv, Created
<1>2. CASE ReadCounts(w) \/ WriteCounts(w)
  <2>0. PICK n : reg' = [reg EXCEPT ![w].count = n]
    BY <1>2 DEF ReadCounts, WriteCounts
  <2>1. \A v \in Worker : reg'[v].msg = reg[v].msg /\ reg'[v].items = reg[v].items
    BY <2>0 DEF TypeOK, Registers
  <2>2. UNCHANGED <<order, istat, queue>>
    BY <1>2 DEF ReadCounts, WriteCounts
  <2> QED
    BY <2>1, <2>2 DEF NoNewRow, ExistInv, Created
<1>3. CASE CheckIdle(w)
  BY <1>3, FinishExisting DEF CheckIdle, NoNewRow, ExistInv, Created
<1>4. CASE EnqueueDefer(w)
  <2>1. \A j \in Item : queue'[j] > 0 => j \in Created
    BY <1>4, SlotFillIsNoItem, SendExisting DEF EnqueueDefer
  <2> QED
    BY <1>4, <2>1, FinishExisting DEF EnqueueDefer, NoNewRow, Created
<1>5. CASE DispatchItems(w) \/ RequeueItems(w)
  <2>1. queue' = Send(reg[w].items) /\ reg[w].items \subseteq Created
    BY <1>5 DEF DispatchItems, RequeueItems, ExistInv
  <2>2. \A j \in Item : queue'[j] > 0 => j \in Created
    BY <2>1, SendExisting
  <2> QED
    BY <1>5, <2>2, FinishExisting DEF DispatchItems, RequeueItems, NoNewRow, Created
<1>6. CASE NotifyPanel(w)
  BY <1>6, FinishExisting DEF NotifyPanel, NoNewRow, ExistInv, Created
<1>7. CASE ResetItems(w)
  <2>1. Created' = Created
    BY <1>7, SetItemsExisting DEF ResetItems, ExistInv
  <2> QED
    BY <1>7, <2>1 DEF ResetItems, NoNewRow, ExistInv
<1>8. CASE SettleJob(w)
  <2>1. CASE Finish(w)
    BY <1>8, <2>1, FinishExisting DEF SettleJob, NoNewRow, ExistInv, Created
  <2>2. CASE reg' = [reg EXCEPT ![w].event = EventOf(Verdict)]
    BY <1>8, <2>2 DEF SettleJob, NoNewRow, ExistInv, Created, TypeOK, Registers
  <2> QED
    BY <1>8, <2>1, <2>2 DEF SettleJob
<1>9. CASE CancelJob(w)
  <2>1. CASE Finish(w) /\ UNCHANGED istat
    BY <1>9, <2>1, FinishExisting DEF CancelJob, NoNewRow, ExistInv, Created
  <2>2. CASE SetItems(Reserved, "skipped")
    <3>1. Reserved \subseteq Created
      BY DEF Reserved, Created, RESERVED_ITEM_STATUSES
    <3>2. Created' = Created
      BY <2>2, <3>1, SetItemsExisting
    <3>3. Finish(w) \/ \E e \in Events : reg' = [reg EXCEPT ![w].event = e]
      BY <1>9 DEF CancelJob, Events, Settlements
    <3>4. \A v \in Worker : reg'[v].msg \cap Item \subseteq Created /\ reg'[v].items \subseteq Created
      <4>1. CASE Finish(w)
        BY <4>1, FinishExisting
      <4>2. CASE \E e \in Events : reg' = [reg EXCEPT ![w].event = e]
        BY <4>2 DEF ExistInv, TypeOK, Registers
      <4> QED
        BY <3>3, <4>1, <4>2
    <3> QED
      BY <1>9, <3>2, <3>4 DEF CancelJob, NoNewRow, ExistInv
  <2> QED
    BY <1>9, <2>1, <2>2 DEF CancelJob
<1> QED
  BY <1>1, <1>2, <1>3, <1>4, <1>5, <1>6, <1>7, <1>8, <1>9 DEF JobStep

LEMMA StartNoNewRow ==
    ASSUME TypeOK, ExistInv, NEW w \in Worker,
           TakeSlotFill(w) \/ CrashWorker(w) \/ RecoverRunning(w) \/ RecoverPending(w) \/ RecoverJobs(w)
    PROVE  NoNewRow
<1> USE DEF jobVars, itemVars, acctVars, brokerVars, procVars
<1>1. CASE TakeSlotFill(w)
  <2>1. \A j \in Item : queue'[j] > 0 => queue[j] > 0
    BY <1>1, SlotFillIsNoItem DEF TakeSlotFill, TypeOK, Message
  <2> QED
    BY <1>1, <2>1, SlotFillIsNoItem DEF TakeSlotFill, NoNewRow, ExistInv, Created, TypeOK, Registers
<1>2. CASE CrashWorker(w)
  <2>1. reg[w].msg \cap Item \subseteq Created
    BY DEF ExistInv
  <2>2. \A j \in Item : queue'[j] > 0 => j \in Created
    BY <1>2, <2>1, SendExisting DEF CrashWorker, ExistInv
  <2> QED
    BY <1>2, <2>2, FinishExisting DEF CrashWorker, NoNewRow, Created
<1>3. CASE RecoverRunning(w)
  <2>1. Stale \subseteq Created
    BY DEF Stale, Orphan, Created
  <2> QED
    BY <1>3, <2>1 DEF RecoverRunning, NoNewRow, ExistInv, Created, TypeOK, Registers
<1>4. CASE RecoverPending(w)
  <2>1. NeverTried \subseteq Created
    BY DEF NeverTried, Created
  <2>2. \A j \in Item : queue'[j] > 0 => j \in Created
    BY <1>4, <2>1, SendExisting DEF RecoverPending
  <2> QED
    BY <1>4, <2>2 DEF RecoverPending, NoNewRow, ExistInv, Created
<1>5. CASE RecoverJobs(w)
  BY <1>5 DEF RecoverJobs, NoNewRow, ExistInv, Created
<1> QED
  BY <1>1, <1>2, <1>3, <1>4, <1>5

-----------------------------------------------------------------------------
(* Distinct accounts of a view order *)

(* An account the job has not used gets its first item. *)
LEMMA FirstItem ==
    ASSUME TypeOK, NEW A, A \cap Accounts(Created) = {}, NEW i \in NewItems(A)
    PROVE  i = <<Acct(i), 1>>
<1>1. i \in Item /\ Acct(i) \in A /\ i[2] \in 1..MaxTries /\ i = <<Acct(i), i[2]>> /\ Acct(i) \in Account
  BY DEF NewItems, Item, Acct
<1>2. CASE i[2] > 1
  <2>1. <<Acct(i), 1>> \in Item
    BY <1>1, BoundAssumption DEF Item
  <2>2. istat[<<Acct(i), 1>>] # "none"
    BY <1>1, <1>2, BoundAssumption DEF NewItems
  <2>3. Acct(i) \in Accounts(Created)
    BY <2>1, <2>2 DEF Accounts, Created, Acct
  <2> QED
    BY <1>1, <2>3
<1> QED
  BY <1>1, <1>2

LEMMA InsertKeepsDistinct ==
    ASSUME TypeOK, ViewAccountsDistinct, UNCHANGED order, NEW A,
           order.action = "view" => A \cap Accounts(Created) = {},
           Created' = Created \cup NewItems(A)
    PROVE  ViewAccountsDistinct'
<1> SUFFICES ASSUME order.action = "view", NEW i \in Created', NEW j \in Created', Acct(i) = Acct(j)
             PROVE  i = j
  BY DEF ViewAccountsDistinct
<1>1. A \cap Accounts(Created) = {}
  OBVIOUS
<1>2. \A k \in NewItems(A) : k = <<Acct(k), 1>> /\ Acct(k) \notin Accounts(Created)
  BY <1>1, FirstItem DEF NewItems
<1>3. \A k \in Created : Acct(k) \in Accounts(Created)
  BY DEF Accounts
<1>4. CASE i \in Created /\ j \in Created
  BY <1>4 DEF ViewAccountsDistinct
<1>5. CASE i \in NewItems(A) /\ j \in NewItems(A)
  BY <1>2, <1>5
<1>6. CASE (i \in NewItems(A)) # (j \in NewItems(A))
  BY <1>2, <1>3, <1>6
<1> QED
  BY <1>4, <1>5, <1>6

LEMMA CreateKeepsDistinct ==
    ASSUME TypeOK, StartInv, ExistInv, ViewAccountsDistinct, CreateJob
    PROVE  ExistInv' /\ ViewAccountsDistinct'
<1> USE DEF jobVars, itemVars, acctVars, brokerVars
<1>1. PICK A : SetItems(NewItems(A), "pending")
  BY DEF CreateJob
<1>2. Created = {}
  BY DEF CreateJob, StartInv
<1>3. Created' = Created \cup NewItems(A)
  BY <1>1, SetItemsExisting DEF NewItems
<1>4. ViewAccountsDistinct'
  BY <1>2, <1>3, InsertKeepsDistinct DEF CreateJob, Accounts
<1>5. ExistInv'
  BY <1>2, <1>3 DEF CreateJob, ExistInv
<1> QED
  BY <1>4, <1>5

LEMMA EnqueueKeepsDistinct ==
    ASSUME TypeOK, ExistInv, ViewAccountsDistinct, NEW w \in Worker, EnqueueItems(w)
    PROVE  ExistInv' /\ ViewAccountsDistinct'
<1> USE DEF jobVars, itemVars, acctVars, brokerVars
<1>1. PICK A \in FirstOf(Missing, Replacements) :
        /\ SetItems(NewItems(A), "pending")
        /\ reg' = [reg EXCEPT ![w].items = NewItems(A)]
  BY DEF EnqueueItems
<1>2. Created' = Created \cup NewItems(A)
  BY <1>1, SetItemsExisting DEF NewItems
<1>3. A \subseteq Replacements
  BY DEF FirstOf
<1>4. order.action = "view" => A \cap Accounts(Created) = {}
  BY <1>3 DEF Replacements, PermanentlyUsed
<1>5. ViewAccountsDistinct'
  BY <1>2, <1>4, InsertKeepsDistinct DEF EnqueueItems
<1>6. \A v \in Worker : /\ reg'[v].msg = reg[v].msg
                        /\ reg'[v].items \in {reg[v].items, NewItems(A)}
  BY <1>1 DEF TypeOK, Registers
<1>7. ExistInv'
  BY <1>2, <1>6 DEF EnqueueItems, ExistInv
<1> QED
  BY <1>5, <1>7

LEMMA DistinctNext ==
    ASSUME TypeOK, StartInv, ExistInv, ViewAccountsDistinct, [Next]_vars
    PROVE  ExistInv' /\ ViewAccountsDistinct'
<1> USE DEF vars, jobVars, itemVars, acctVars, brokerVars, procVars
<1>1. CASE CreateJob
  BY <1>1, CreateKeepsDistinct
<1>2. CASE DispatchJob
  <2>1. \A i \in Item : queue'[i] > 0 => i \in Created
    BY <1>2, SendExisting DEF DispatchJob
  <2>2. NoNewRow
    BY <1>2, <2>1 DEF DispatchJob, NoNewRow, ExistInv, Created
  <2> QED
    BY <2>2, NoNewRowKeeps
<1>3. CASE CrashWeb \/ (\E a \in Account : ThrottleExpires(a)) \/ UNCHANGED vars
  <2>1. NoNewRow
    BY <1>3 DEF CrashWeb, ThrottleExpires, NoNewRow, ExistInv, Created
  <2> QED
    BY <2>1, NoNewRowKeeps
<1>4. CASE \E m \in Message : LoseMessage(m)
  <2> PICK m \in Message : LoseMessage(m)
    BY <1>4
  <2>1. \A i \in Item : queue'[i] > 0 => queue[i] > 0
    BY DEF LoseMessage, TypeOK, Message
  <2>2. NoNewRow
    BY <2>1 DEF LoseMessage, NoNewRow, ExistInv, Created
  <2> QED
    BY <2>2, NoNewRowKeeps
<1>5. ASSUME NEW w \in Worker,
             JobStep(w) \/ TakeSlotFill(w) \/ CrashWorker(w)
                \/ RecoverRunning(w) \/ RecoverPending(w) \/ RecoverJobs(w)
      PROVE  ExistInv' /\ ViewAccountsDistinct'
  BY <1>5, EnqueueKeepsDistinct, JobStepNoNewRow, StartNoNewRow, NoNewRowKeeps
<1>6. ASSUME NEW w \in Worker, NEW i \in Item, ItemStep(w, i) \/ TakeItem(w, i) \/ Overrun(w, i)
      PROVE  ExistInv' /\ ViewAccountsDistinct'
  BY <1>6, ItemStepNoNewRow, NoNewRowKeeps
<1> QED
  BY <1>1, <1>2, <1>3, <1>4, <1>5, <1>6 DEF Next, Step

(* A view order never uses an account twice, through any number of         *)
(* replacements (_replace_view_items excludes every account of the job).   *)
THEOREM ViewsAreDistinct == Spec => []ViewAccountsDistinct
<1>1. Init => ExistInv /\ ViewAccountsDistinct
  BY DEF Init, ExistInv, ViewAccountsDistinct, Created, NoTask, Message
<1>2. TypeOK /\ StartInv /\ ExistInv /\ ViewAccountsDistinct /\ [Next]_vars =>
         ExistInv' /\ ViewAccountsDistinct'
  BY DistinctNext
<1> QED
  BY <1>1, <1>2, TypeCorrect, StartCorrect, PTL DEF Spec

-----------------------------------------------------------------------------
(* An account acts alone *)

(* No worker has died and no action has outlasted the cutoff so far. *)
Calm == spent.slow = 0 /\ spent.crash = 0

(* An item that is still to act or is acting. *)
Live(i) == istat[i] \in RESERVED_ITEM_STATUSES \/ \E w \in Worker : Runs(w, i)

(* As long as that is so, the recovery task finds nothing to reset: a row  *)
(* is RUNNING only under its runner, an item has one runner, and that one  *)
(* loses the row only to a cancellation, after which no row is inserted.   *)
(* And an account has one live item, since a replacement is never picked   *)
(* among the accounts of reserved items.                                   *)
AloneInv ==
    /\ overdue = {}
    /\ \A w \in Worker : pc[w] \notin {"reset", "requeue"}
    /\ \A i \in Item : istat[i] = "running" => \E w \in Worker : Runs(w, i)
    /\ \A w \in Worker, i \in Item :
          Runs(w, i) => istat[i] = "running" \/ (istat[i] = "skipped" /\ status \in TERMINAL_JOB_STATUSES)
    /\ \A v, w \in Worker, i \in Item : Runs(v, i) /\ Runs(w, i) => v = w
    /\ \A i, j \in Item : Live(i) /\ Live(j) /\ Acct(i) = Acct(j) => i = j

LEMMA AloneInit == Init => AloneInv
  BY DEF Init, AloneInv, Live, Runs, RESERVED_ITEM_STATUSES

(* One worker runs one item. *)
LEMMA RunsOne ==
    ASSUME NEW w \in Worker, NEW i, NEW j, Runs(w, i), Runs(w, j)
    PROVE  i = j
  BY DEF Runs

(* The fault budgets are only ever spent. *)
LEMMA CalmBefore ==
    ASSUME TypeOK, [Next]_vars, Calm'
    PROVE  Calm
<1> USE DEF vars, jobVars, itemVars, acctVars, brokerVars, procVars
<1>t. spent \in [retry : 0..MaxRetries, crash : 0..MaxCrashes, loss : 0..MaxLosses, slow : 0..MaxSlow]
  BY DEF TypeOK
<1>1. ASSUME NEW w \in Worker, JobStep(w) PROVE spent' = spent
  BY <1>1 DEF JobStep, CountItem, CancelJob, CheckIdle, ReadCounts, WriteCounts, EnqueueNothing,
              EnqueueDefer, EnqueueItems, DispatchItems, SettleJob, NotifyPanel, ResetItems, RequeueItems
<1>2. ASSUME NEW w \in Worker, NEW i \in Item, ItemStep(w, i) \/ TakeItem(w, i)
      PROVE  spent'.slow = spent.slow /\ spent'.crash = spent.crash
  <2>1. CASE RunAction(w, i)
    BY <2>1, <1>t DEF RunAction
  <2>2. CASE ~RunAction(w, i)
    BY <1>2, <2>2 DEF ItemStep, TakeItem, ClaimDrop, ClaimDelay, ClaimRun, MarkDone, SaveItem, AfterItem
  <2> QED
    BY <2>1, <2>2
<1>3. ASSUME NEW w \in Worker,
             TakeSlotFill(w) \/ RecoverRunning(w) \/ RecoverPending(w) \/ RecoverJobs(w)
      PROVE  spent' = spent
  BY <1>3 DEF TakeSlotFill, RecoverRunning, RecoverPending, RecoverJobs
<1>4. ASSUME NEW w \in Worker, CrashWorker(w) \/ \E i \in Item : Overrun(w, i)
      PROVE  ~Calm'
  BY <1>4, <1>t DEF CrashWorker, Overrun, Calm
<1>5. CrashWeb => ~Calm'
  BY <1>t DEF CrashWeb, Calm
<1>6. ASSUME NEW m \in Message, LoseMessage(m)
      PROVE  spent'.slow = spent.slow /\ spent'.crash = spent.crash
  BY <1>6, <1>t DEF LoseMessage
<1>7. CreateJob \/ DispatchJob \/ (\E a \in Account : ThrottleExpires(a)) \/ UNCHANGED vars => spent' = spent
  BY DEF CreateJob, DispatchJob, ThrottleExpires
<1> QED
  BY <1>1, <1>2, <1>3, <1>4, <1>5, <1>6, <1>7 DEF Next, Step, Calm

(* A step that neither takes up nor drops an action, and leaves the rows. *)
Aside ==
    /\ UNCHANGED <<istat, overdue>>
    /\ \A w \in Worker : pc'[w] \notin {"reset", "requeue"}
    /\ \A w \in Worker, i \in Item : Runs(w, i)' <=> Runs(w, i)

LEMMA AsideKeeps ==
    ASSUME AloneInv, Aside, status \in TERMINAL_JOB_STATUSES => status' = status
    PROVE  AloneInv'
<1>1. \A i \in Item : Live(i)' <=> Live(i)
  BY DEF Aside, Live
<1> QED
  BY <1>1 DEF AloneInv, Aside

(* A worker at a control point that runs no item goes to another one. *)
Acting == {"act", "mark", "save"}

LEMMA MoveAside ==
    ASSUME TypeOK, AloneInv, NEW w \in Worker, NEW point, pc[w] \notin Acting,
           point \notin Acting \cup {"reset", "requeue"},
           Goto(w, point), UNCHANGED <<istat, overdue>>,
           \A v \in Worker : v # w => reg'[v] = reg[v]
    PROVE  Aside
<1>1. /\ pc'[w] = point
      /\ \A v \in Worker : v # w => pc'[v] = pc[v]
  BY DEF Goto, TypeOK
<1> QED
  BY <1>1 DEF Aside, AloneInv, Runs, Acting

LEMMA ItemStepAside ==
    ASSUME TypeOK, AloneInv, NEW w \in Worker, NEW i \in Item,
           ItemStep(w, i) \/ TakeItem(w, i), ~ClaimRun(w, i), ~SaveItem(w, i)
    PROVE  Aside
<1> USE DEF jobVars, itemVars, acctVars, brokerVars, procVars
<1>1. CASE TakeItem(w, i)
  BY <1>1, MoveAside DEF TakeItem, Acting, TypeOK
<1>2. CASE ClaimDrop(w, i)
  BY <1>2, MoveAside DEF ClaimDrop, Finish, Acting, TypeOK
<1>3. CASE ClaimDelay(w, i)
  <2>1. istat[i] = "pending"
    BY <1>3 DEF ClaimDelay, Claimable, Orphan, AloneInv
  <2>2. istat' = istat
    BY <1>3, <2>1 DEF ClaimDelay, SetItems, TypeOK
  <2> QED
    BY <1>3, <2>2, MoveAside DEF ClaimDelay, Finish, Acting, TypeOK
<1>4. CASE RunAction(w, i)
  <2>1. PICK k : reg' = [reg EXCEPT ![w].kind = k]
    BY <1>4 DEF RunAction
  <2>2. \A v \in Worker : reg'[v].msg = reg[v].msg
    BY <2>1 DEF TypeOK, Registers
  <2>3. PICK point \in {"mark", "save"} : Goto(w, point)
    BY <1>4 DEF RunAction
  <2> QED
    BY <1>4, <2>2, <2>3 DEF RunAction, Goto, Aside, AloneInv, Runs, TypeOK
<1>5. CASE MarkDone(w, i)
  BY <1>5 DEF MarkDone, Goto, Aside, AloneInv, Runs, TypeOK
<1>6. CASE AfterItem(w, i)
  <2>1. PICK point \in {"cancel", "check"} : Goto(w, point)
    BY <1>6 DEF AfterItem
  <2> QED
    BY <1>6, <2>1, MoveAside DEF AfterItem, Acting, TypeOK
<1> QED
  BY <1>1, <1>2, <1>3, <1>4, <1>5, <1>6 DEF ItemStep

LEMMA JobStepAside ==
    ASSUME TypeOK, AloneInv, NEW w \in Worker, JobStep(w), ~CancelJob(w), ~EnqueueItems(w)
    PROVE  Aside
<1> USE DEF jobVars, itemVars, acctVars, brokerVars, procVars
<1>1. CASE CountItem(w) \/ EnqueueNothing(w)
  BY <1>1, MoveAside DEF CountItem, EnqueueNothing, Acting
<1>2. CASE ReadCounts(w)
  BY <1>2, MoveAside DEF ReadCounts, Acting, TypeOK
<1>3. CASE WriteCounts(w)
  <2>1. PICK point \in {"enqueue", "notify"} : Goto(w, point)
    BY <1>3 DEF WriteCounts
  <2> QED
    BY <1>3, <2>1, MoveAside DEF WriteCounts, Acting, TypeOK
<1>4. CASE CheckIdle(w)
  BY <1>4, MoveAside DEF CheckIdle, Finish, Acting, TypeOK
<1>5. CASE EnqueueDefer(w) \/ DispatchItems(w) \/ NotifyPanel(w)
  BY <1>5, MoveAside DEF EnqueueDefer, DispatchItems, NotifyPanel, Finish, Acting, TypeOK
<1>6. CASE SettleJob(w)
  BY <1>6, MoveAside DEF SettleJob, Finish, Acting, TypeOK
<1>7. ~ResetItems(w) /\ ~RequeueItems(w)
  BY DEF ResetItems, RequeueItems, AloneInv
<1> QED
  BY <1>1, <1>2, <1>3, <1>4, <1>5, <1>6, <1>7 DEF JobStep

LEMMA StartAside ==
    ASSUME TypeOK, AloneInv, NEW w \in Worker,
           TakeSlotFill(w) \/ RecoverRunning(w) \/ RecoverPending(w) \/ RecoverJobs(w)
    PROVE  Aside
<1> USE DEF jobVars, itemVars, acctVars, brokerVars, procVars
<1>1. CASE TakeSlotFill(w)
  BY <1>1, MoveAside DEF TakeSlotFill, Acting, TypeOK
<1>2. Stale = {}
  BY DEF Stale, Orphan, AloneInv
<1>3. CASE RecoverPending(w)
  BY <1>3 DEF RecoverPending, Aside, AloneInv, Runs
<1>4. CASE RecoverJobs(w)
  BY <1>4, MoveAside DEF RecoverJobs, Acting
<1> QED
  BY <1>1, <1>2, <1>3, <1>4 DEF RecoverRunning

(* The claim: a PENDING row becomes RUNNING under the worker that took it. *)
LEMMA ClaimAlone ==
    ASSUME TypeOK, AloneInv, NEW w \in Worker, NEW i \in Item, ClaimRun(w, i)
    PROVE  AloneInv'
<1> USE DEF jobVars, itemVars, acctVars, brokerVars, procVars
<1>1. istat[i] = "pending"
  BY DEF ClaimRun, Claimable, Orphan, AloneInv
<1>2. \A v \in Worker : ~Runs(v, i)
  BY <1>1 DEF AloneInv
<1>3. /\ \A j \in Item : istat'[j] = IF j = i THEN "running" ELSE istat[j]
      /\ \A v \in Worker : pc'[v] = IF v = w THEN "act" ELSE pc[v]
      /\ \A v \in Worker : reg'[v].msg = reg[v].msg
      /\ overdue' = {} /\ status' = status
  BY DEF ClaimRun, SetItems, Goto, TypeOK, Registers, AloneInv
<1>4. pc[w] = "claim" /\ reg[w].msg = {i}
  BY DEF ClaimRun
<1>5. \A v \in Worker, j \in Item : Runs(v, j)' <=> Runs(v, j) \/ (v = w /\ j = i)
  BY <1>3, <1>4 DEF Runs
<1>6. \A j \in Item : Live(j)' <=> Live(j)
  BY <1>1, <1>3, <1>5 DEF Live, RESERVED_ITEM_STATUSES
<1>7. \A v \in Worker : pc'[v] \notin {"reset", "requeue"}
  BY <1>3 DEF AloneInv
<1>8. \A j \in Item : istat'[j] = "running" => \E v \in Worker : Runs(v, j)'
  BY <1>3, <1>5 DEF AloneInv
<1>9. \A v \in Worker, j \in Item :
         Runs(v, j)' => istat'[j] = "running" \/ (istat'[j] = "skipped" /\ status' \in TERMINAL_JOB_STATUSES)
  BY <1>2, <1>3, <1>5 DEF AloneInv
<1>10. \A u, v \in Worker, j \in Item : Runs(u, j)' /\ Runs(v, j)' => u = v
  BY <1>2, <1>5 DEF AloneInv
<1>11. \A j, k \in Item : Live(j)' /\ Live(k)' /\ Acct(j) = Acct(k) => j = k
  BY <1>6 DEF AloneInv
<1> QED
  BY <1>3, <1>7, <1>8, <1>9, <1>10, <1>11 DEF AloneInv

(* finish_item: the row leaves RUNNING together with its runner. *)
LEMMA SaveAlone ==
    ASSUME TypeOK, AloneInv, NEW w \in Worker, NEW i \in Item, SaveItem(w, i)
    PROVE  AloneInv'
<1> USE DEF jobVars, itemVars, acctVars, brokerVars, procVars
<1>1. PICK s \in ItemStatus \ {"none", "pending", "running"} : SetItems({i}, s)
  BY OutcomeType DEF SaveItem
<1>2. /\ \A j \in Item : istat'[j] = IF j = i THEN s ELSE istat[j]
      /\ \A v \in Worker : pc'[v] = IF v = w THEN "count" ELSE pc[v]
      /\ reg' = reg /\ overdue' = {} /\ status' = status
  BY <1>1 DEF SaveItem, SetItems, Goto, TypeOK, AloneInv
<1>3. Runs(w, i)
  BY DEF SaveItem, Runs
<1>4. \A v \in Worker, j \in Item : Runs(v, j)' <=> Runs(v, j) /\ v # w
  BY <1>2 DEF Runs
<1>5. \A j \in Item : Live(j)' => Live(j)
  BY <1>2, <1>4 DEF Live, RESERVED_ITEM_STATUSES
<1>6. \A j \in Item : Runs(w, j) => j = i
  BY <1>3, RunsOne
<1>7. \A v \in Worker : pc'[v] \notin {"reset", "requeue"}
  BY <1>2 DEF AloneInv
<1>8. \A j \in Item : istat'[j] = "running" => \E v \in Worker : Runs(v, j)'
  <2> SUFFICES ASSUME NEW j \in Item, istat'[j] = "running" PROVE \E v \in Worker : Runs(v, j)'
    OBVIOUS
  <2>1. j # i /\ istat[j] = "running"
    BY <1>2
  <2>2. PICK v \in Worker : Runs(v, j)
    BY <2>1 DEF AloneInv
  <2> QED
    BY <1>4, <1>6, <2>1, <2>2
<1>9. \A v \in Worker, j \in Item :
         Runs(v, j)' => istat'[j] = "running" \/ (istat'[j] = "skipped" /\ status' \in TERMINAL_JOB_STATUSES)
  <2> SUFFICES ASSUME NEW v \in Worker, NEW j \in Item, Runs(v, j)'
               PROVE  istat'[j] = "running" \/ (istat'[j] = "skipped" /\ status' \in TERMINAL_JOB_STATUSES)
    OBVIOUS
  <2>1. Runs(v, j) /\ j # i
    BY <1>3, <1>4 DEF AloneInv
  <2> QED
    BY <1>2, <2>1 DEF AloneInv
<1>10. \A u, v \in Worker, j \in Item : Runs(u, j)' /\ Runs(v, j)' => u = v
  BY <1>4 DEF AloneInv
<1>11. \A j, k \in Item : Live(j)' /\ Live(k)' /\ Acct(j) = Acct(k) => j = k
  BY <1>5 DEF AloneInv
<1> QED
  BY <1>2, <1>7, <1>8, <1>9, <1>10, <1>11 DEF AloneInv

(* A cancellation skips every reserved row, also those being acted on. *)
LEMMA CancelAlone ==
    ASSUME TypeOK, AloneInv, NEW w \in Worker, CancelJob(w)
    PROVE  AloneInv'
<1> USE DEF jobVars, itemVars, acctVars, brokerVars, procVars
<1>1. CASE status \in TERMINAL_JOB_STATUSES
  <2>1. Finish(w) /\ UNCHANGED <<istat, overdue, status>>
    BY <1>1 DEF CancelJob
  <2>2. Aside
    BY <2>1, MoveAside DEF CancelJob, Finish, Acting, TypeOK
  <2> QED
    BY <2>1, <2>2, AsideKeeps
<1>2. CASE status \notin TERMINAL_JOB_STATUSES
  <2>1. PICK e : reg' = [reg EXCEPT ![w].event = e]
    BY <1>2 DEF CancelJob
  <2>2. /\ \A j \in Item : istat'[j] = IF j \in Reserved THEN "skipped" ELSE istat[j]
        /\ \A v \in Worker : pc'[v] = IF v = w THEN "read" ELSE pc[v]
        /\ \A v \in Worker : reg'[v].msg = reg[v].msg
        /\ overdue' = {} /\ status' \in TERMINAL_JOB_STATUSES
    BY <1>2, <2>1 DEF CancelJob, SetItems, Goto, TypeOK, Registers, AloneInv, TERMINAL_JOB_STATUSES
  <2>3. pc[w] = "cancel"
    BY DEF CancelJob
  <2>4. \A v \in Worker, j \in Item : Runs(v, j)' <=> Runs(v, j)
    BY <2>2, <2>3 DEF Runs
  <2>5. \A j \in Item : j \in Reserved <=> istat[j] \in {"pending", "running"}
    BY DEF Reserved, RESERVED_ITEM_STATUSES
  <2>6. \A j \in Item : Live(j)' => Live(j)
    BY <2>2, <2>4 DEF Live, RESERVED_ITEM_STATUSES
  <2>7. \A v \in Worker : pc'[v] \notin {"reset", "requeue"}
    BY <2>2 DEF AloneInv
  <2>8. \A j \in Item : istat'[j] # "running"
    BY <2>2, <2>5
  <2>9. \A v \in Worker, j \in Item : Runs(v, j)' => istat'[j] = "skipped"
    BY <2>2, <2>4, <2>5 DEF AloneInv
  <2>10. \A u, v \in Worker, j \in Item : Runs(u, j)' /\ Runs(v, j)' => u = v
    BY <2>4 DEF AloneInv
  <2>11. \A j, k \in Item : Live(j)' /\ Live(k)' /\ Acct(j) = Acct(k) => j = k
    BY <2>6 DEF AloneInv
  <2> QED
    BY <2>2, <2>7, <2>8, <2>9, <2>10, <2>11 DEF AloneInv
<1> QED
  BY <1>1, <1>2

(* An insertion adds one row per account. *)
LEMMA NewItemsDistinct ==
    ASSUME TypeOK, NEW A, NEW i \in NewItems(A), NEW j \in NewItems(A), Acct(i) = Acct(j)
    PROVE  i = j
<1>1. /\ i \in Item /\ i = <<Acct(i), i[2]>> /\ i[2] \in 1..MaxTries /\ istat[i] = "none"
      /\ \A n \in 1..(i[2] - 1) : istat[<<Acct(i), n>>] # "none"
  BY DEF NewItems, Item, Acct
<1>2. /\ j \in Item /\ j = <<Acct(j), j[2]>> /\ j[2] \in 1..MaxTries /\ istat[j] = "none"
      /\ \A n \in 1..(j[2] - 1) : istat[<<Acct(j), n>>] # "none"
  BY DEF NewItems, Item, Acct
<1>3. ~(i[2] < j[2])
  BY <1>1, <1>2, BoundAssumption
<1>4. ~(j[2] < i[2])
  BY <1>1, <1>2, BoundAssumption
<1> QED
  BY <1>1, <1>2, <1>3, <1>4, BoundAssumption

LEMMA InsertAlone ==
    ASSUME TypeOK, AloneInv, NEW A, SetItems(NewItems(A), "pending"),
           UNCHANGED overdue, status \in TERMINAL_JOB_STATUSES => status' = status,
           \A w \in Worker : pc'[w] \notin {"reset", "requeue"},
           \A w \in Worker, i \in Item : Runs(w, i)' <=> Runs(w, i),
           \A i \in Item : Live(i) => Acct(i) \notin A
    PROVE  AloneInv'
<1>1. \A j \in Item : istat'[j] = IF j \in NewItems(A) THEN "pending" ELSE istat[j]
  BY DEF SetItems, TypeOK
<1>2. \A j \in NewItems(A) : j \in Item /\ istat[j] = "none" /\ Acct(j) \in A
  BY DEF NewItems
<1>3. \A j \in Item : Live(j)' => Live(j) \/ j \in NewItems(A)
  BY <1>1 DEF Live
<1>4. \A j \in Item : istat'[j] = "running" => \E v \in Worker : Runs(v, j)'
  BY <1>1 DEF AloneInv
<1>5. \A v \in Worker, j \in Item :
         Runs(v, j)' => istat'[j] = "running" \/ (istat'[j] = "skipped" /\ status' \in TERMINAL_JOB_STATUSES)
  BY <1>1, <1>2 DEF AloneInv
<1>6. \A u, v \in Worker, j \in Item : Runs(u, j)' /\ Runs(v, j)' => u = v
  BY DEF AloneInv
<1>7. \A j, k \in Item : Live(j)' /\ Live(k)' /\ Acct(j) = Acct(k) => j = k
  <2> SUFFICES ASSUME NEW j \in Item, NEW k \in Item, Live(j)', Live(k)', Acct(j) = Acct(k)
               PROVE  j = k
    OBVIOUS
  <2>1. CASE Live(j) /\ Live(k)
    BY <2>1 DEF AloneInv
  <2>2. CASE j \in NewItems(A) /\ k \in NewItems(A)
    BY <2>2, NewItemsDistinct
  <2>3. ~(Live(j) /\ k \in NewItems(A)) /\ ~(Live(k) /\ j \in NewItems(A))
    BY <1>2
  <2> QED
    BY <1>3, <2>1, <2>2, <2>3
<1> QED
  BY <1>4, <1>5, <1>6, <1>7 DEF AloneInv

LEMMA CreateAlone ==
    ASSUME TypeOK, StartInv, AloneInv, CreateJob
    PROVE  AloneInv'
<1> USE DEF jobVars, itemVars, acctVars, brokerVars
<1>1. PICK A : SetItems(NewItems(A), "pending")
  BY DEF CreateJob
<1>2. \A i \in Item : istat[i] = "none"
  BY DEF CreateJob, StartInv, Created
<1>3. \A w \in Worker, i \in Item : ~Runs(w, i)
  BY DEF CreateJob, StartInv, Runs
<1>4. \A i \in Item : ~Live(i)
  BY <1>2, <1>3 DEF Live, RESERVED_ITEM_STATUSES
<1>5. status \notin TERMINAL_JOB_STATUSES
  BY DEF CreateJob, StartInv, TERMINAL_JOB_STATUSES
<1>6. UNCHANGED <<pc, reg, overdue>>
  BY DEF CreateJob
<1>7. \A w \in Worker, i \in Item : Runs(w, i)' <=> Runs(w, i)
  BY <1>6 DEF Runs
<1>8. \A w \in Worker : pc'[w] \notin {"reset", "requeue"}
  BY <1>6 DEF AloneInv
<1> QED
  BY <1>1, <1>4, <1>5, <1>6, <1>7, <1>8, InsertAlone

LEMMA EnqueueAlone ==
    ASSUME TypeOK, AloneInv, NEW w \in Worker, EnqueueItems(w)
    PROVE  AloneInv'
<1> USE DEF jobVars, itemVars, acctVars, brokerVars
<1>1. PICK A \in FirstOf(Missing, Replacements) :
        /\ SetItems(NewItems(A), "pending")
        /\ reg' = [reg EXCEPT ![w].items = NewItems(A)]
  BY DEF EnqueueItems
<1>2. A \subseteq Selectable /\ order.action \in {"join", "view"} /\ status = "inprogress"
  BY DEF FirstOf, Replacements, EnqueueItems, Replaceable
<1>3. A \cap Accounts(Reserved) = {}
  BY <1>2 DEF Selectable
<1>4. \A i \in Item : Live(i) => i \in Reserved
  BY <1>2 DEF Live, Reserved, RESERVED_ITEM_STATUSES, AloneInv, TERMINAL_JOB_STATUSES
<1>5. \A i \in Item : Live(i) => Acct(i) \notin A
  BY <1>3, <1>4 DEF Accounts
<1>6. /\ \A v \in Worker : pc'[v] = IF v = w THEN "dispatch" ELSE pc[v]
      /\ \A v \in Worker : reg'[v].msg = reg[v].msg
      /\ pc[w] = "enqueue" /\ UNCHANGED overdue /\ status' = status
  BY <1>1, <1>2 DEF EnqueueItems, Goto, TypeOK, Registers
<1>7. \A v \in Worker, i \in Item : Runs(v, i)' <=> Runs(v, i)
  BY <1>6 DEF Runs
<1>8. \A v \in Worker : pc'[v] \notin {"reset", "requeue"}
  BY <1>6 DEF AloneInv
<1> QED
  BY <1>1, <1>5, <1>6, <1>7, <1>8, InsertAlone

LEMMA AloneNext ==
    ASSUME TypeOK, StartInv, Calm => AloneInv, [Next]_vars
    PROVE  (Calm => AloneInv)'
<1> SUFFICES ASSUME Calm' PROVE AloneInv'
  OBVIOUS
<1> USE DEF vars, jobVars, itemVars, acctVars, brokerVars, procVars
<1>0. AloneInv
  BY CalmBefore
<1>t. status \in TERMINAL_JOB_STATUSES => status' = status
  BY TerminalStep
<1>1. CASE CreateJob
  BY <1>0, <1>1, CreateAlone
<1>2. CASE DispatchJob \/ CrashWeb \/ (\E a \in Account : ThrottleExpires(a))
            \/ (\E m \in Message : LoseMessage(m)) \/ UNCHANGED vars
  <2>1. UNCHANGED <<istat, overdue, pc, reg>>
    BY <1>2 DEF DispatchJob, CrashWeb, ThrottleExpires, LoseMessage
  <2>2. Aside
    BY <1>0, <2>1 DEF Aside, AloneInv, Runs
  <2> QED
    BY <1>0, <1>t, <2>2, AsideKeeps
<1>3. ASSUME NEW w \in Worker, JobStep(w) PROVE AloneInv'
  BY <1>0, <1>t, <1>3, JobStepAside, AsideKeeps, CancelAlone, EnqueueAlone
<1>4. ASSUME NEW w \in Worker, NEW i \in Item, ItemStep(w, i) \/ TakeItem(w, i) PROVE AloneInv'
  BY <1>0, <1>t, <1>4, ItemStepAside, AsideKeeps, ClaimAlone, SaveAlone
<1>5. ASSUME NEW w \in Worker,
             TakeSlotFill(w) \/ RecoverRunning(w) \/ RecoverPending(w) \/ RecoverJobs(w)
      PROVE AloneInv'
  BY <1>0, <1>t, <1>5, StartAside, AsideKeeps
<1>6. ASSUME NEW w \in Worker, CrashWorker(w) \/ \E i \in Item : Overrun(w, i) PROVE FALSE
  BY <1>6 DEF CrashWorker, Overrun, Calm, TypeOK
<1> QED
  BY <1>1, <1>2, <1>3, <1>4, <1>5, <1>6 DEF Next, Step

(* As long as no worker died and no action outlasted the 60 s cutoff, no   *)
(* account acts for two items at a time, however messages are duplicated   *)
(* and recovery tasks and replacements re-dispatch                         *)
(* (claim_item_and_reserve_throttle under the row lock, and the exclusion  *)
(* of reserved accounts in select_accounts).                               *)
THEOREM AccountsActAlone == Spec => []AccountActsAlone
<1>1. Init => (Calm => AloneInv)
  BY AloneInit
<1>2. TypeOK /\ StartInv /\ (Calm => AloneInv) /\ [Next]_vars => (Calm => AloneInv)'
  BY AloneNext
<1>3. (Calm => AloneInv) => AccountActsAlone
  <2> SUFFICES ASSUME AloneInv, NEW v \in Worker, NEW w \in Worker, NEW i \in Item, NEW j \in Item,
                      Runs(v, i), Runs(w, j), Acct(i) = Acct(j)
               PROVE  v = w
    BY DEF AccountActsAlone, Calm
  <2>1. Live(i) /\ Live(j)
    BY DEF Live
  <2>2. i = j
    BY <2>1 DEF AloneInv
  <2> QED
    BY <2>2 DEF AloneInv
<1> QED
  BY <1>1, <1>2, <1>3, TypeCorrect, StartCorrect, PTL DEF Spec

-----------------------------------------------------------------------------
(* One worker process *)

(* Two workers that finalize one job at a time may settle it on a count    *)
(* that is no longer true (SettlesWhenIdle is violated), and a worker that *)
(* dies between the two statements of finish_item leaves a success that is *)
(* not counted.  Without the one and the other the verdict is what the     *)
(* rows say, whatever else dies, is lost or is slow.                       *)
OneWorker == \A v, w \in Worker : v = w

(* The rows that delivered or still may. *)
Taken == Succeeded \cup Reserved

(* No more than were ordered, and one per account. *)
Filled ==
    /\ \A i, j \in Taken : Acct(i) = Acct(j) => i = j
    /\ Cardinality(Taken) <= order.total

Delivered == \A i \in Succeeded : Acct(i) \in effect

NothingLeft == status \in Settled => Reserved = {}

(* A success that finish_item has saved and not yet counted. *)
Uncounted(w) == IF pc[w] = "count" /\ Outcome(reg[w].kind) = "success" THEN 1 ELSE 0

(* Where finalize_job_if_done has found the job without reserved items. *)
Finishing == {"read", "write", "enqueue", "settle", "notify"}

(* What the one worker can rely on at each of its control points. *)
Place(w) ==
    /\ Cardinality(Succeeded) = success + Uncounted(w)
    /\ pc[w] = "write" => reg[w].count = Cardinality(Succeeded)
    /\ pc[w] = "reset" => \A i \in reg[w].items : istat[i] = "running"
    /\ \A i \in Item : Runs(w, i) => istat[i] = "running"
    /\ \A i \in Item : Runs(w, i) /\ pc[w] # "act" /\ Outcome(reg[w].kind) = "success" => Acct(i) \in effect
    /\ pc[w] \in Acting \cup {"count"} /\ ~reg[w].seen => success = 0
    /\ pc[w] = "after" /\ ~reg[w].seen /\ reg[w].kind = "invalid_target" => success = 0
    /\ pc[w] = "cancel" => success = 0
    /\ pc[w] \in Finishing => Reserved = {}

SoleInv == Filled /\ Delivered /\ NothingLeft /\ VerdictMatchesItems /\ \A w \in Worker : Place(w)

-----------------------------------------------------------------------------
(* Counting rows *)

(* The sets of rows and how they lie in each other. *)
LEMMA RowSets ==
    /\ Succeeded \subseteq Created /\ Reserved \subseteq Created /\ Created \subseteq Item
    /\ Taken \subseteq Created /\ Succeeded \cap Reserved = {}
  BY DEF Succeeded, Reserved, Created, Taken, RESERVED_ITEM_STATUSES

(* A row that delivered is not one that still may. *)
LEMMA TakenSize == Cardinality(Taken) = Cardinality(Succeeded) + Cardinality(Reserved)
<1>1. /\ IsFiniteSet(Succeeded) /\ Cardinality(Succeeded) \in Nat
      /\ IsFiniteSet(Reserved) /\ Cardinality(Reserved) \in Nat
  BY RowSets, ItemsFinite
<1>2. Cardinality(Succeeded \cap Reserved) = 0
  BY RowSets, FS_EmptySet
<1>3. Cardinality(Succeeded \cup Reserved)
        = Cardinality(Succeeded) + Cardinality(Reserved) - Cardinality(Succeeded \cap Reserved)
  BY <1>1, FS_Union
<1> QED
  BY <1>1, <1>2, <1>3 DEF Taken

(* Rows of different accounts are no more than their accounts. *)
LEMMA OnePerAccount ==
    ASSUME NEW I \in SUBSET Item, NEW A \in SUBSET Account,
           \A i, j \in I : Acct(i) = Acct(j) => i = j, \A i \in I : Acct(i) \in A
    PROVE  IsFiniteSet(A) /\ Cardinality(A) \in Nat /\ Cardinality(I) <= Cardinality(A)
<1>1. IsFiniteSet(A) /\ Cardinality(A) \in Nat
  BY SetAssumption, FS_Subset, FS_CardinalityType
<1> DEFINE f == [i \in I |-> Acct(i)]
<1>2. f \in Injection(I, A)
  BY DEF Injection, IsInjective
<1> QED
  BY <1>1, <1>2, FS_Injection

(* An insertion adds no more rows than there are accounts. *)
LEMMA NewItemsSize ==
    ASSUME TypeOK, NEW A \in SUBSET Account
    PROVE  /\ NewItems(A) \subseteq Item /\ Cardinality(NewItems(A)) \in Nat
           /\ Cardinality(A) \in Nat /\ Cardinality(NewItems(A)) <= Cardinality(A)
<1>1. /\ NewItems(A) \in SUBSET Item
      /\ \A i \in NewItems(A) : Acct(i) \in A
  BY DEF NewItems
<1>2. \A i, j \in NewItems(A) : Acct(i) = Acct(j) => i = j
  BY NewItemsDistinct
<1> QED
  BY <1>1, <1>2, OnePerAccount, ItemsFinite

(* Every success is an account that acted. *)
LEMMA SuccessesActed ==
    ASSUME TypeOK, Filled, Delivered
    PROVE  /\ Cardinality(effect \cap Accounts(Created)) \in Nat
           /\ Cardinality(Succeeded) <= Cardinality(effect \cap Accounts(Created))
<1>1. Succeeded \in SUBSET Item /\ effect \cap Accounts(Created) \in SUBSET Account
  BY RowSets DEF TypeOK
<1>2. \A i, j \in Succeeded : Acct(i) = Acct(j) => i = j
  BY DEF Filled, Taken
<1>3. \A i \in Succeeded : Acct(i) \in effect \cap Accounts(Created)
  BY RowSets DEF Delivered, Accounts
<1> QED
  BY <1>1, <1>2, <1>3, OnePerAccount

-----------------------------------------------------------------------------
(* Steps that neither begin, deliver nor drop a row. *)
RowsKept == /\ Succeeded' = Succeeded /\ Reserved' = Reserved /\ Created \subseteq Created'
            /\ effect \subseteq effect' /\ UNCHANGED <<order, status>>

(* They keep what speaks of rows and of the verdict. *)
LEMMA RowsKeep ==
    ASSUME TypeOK, TypeOK', SoleInv, RowsKept
    PROVE  (Filled /\ Delivered /\ NothingLeft /\ VerdictMatchesItems)'
<1>1. Taken' = Taken
  BY DEF RowsKept, Taken
<1>2. Filled'
  BY <1>1 DEF SoleInv, Filled, RowsKept
<1>3. Delivered' /\ NothingLeft'
  BY DEF SoleInv, Delivered, NothingLeft, RowsKept
<1>4. effect \cap Accounts(Created) \subseteq effect' \cap Accounts(Created')
  BY DEF RowsKept, Accounts
<1>5. effect' \cap Accounts(Created') \subseteq Account
  BY DEF TypeOK
<1>6. Cardinality(effect \cap Accounts(Created)) <= Cardinality(effect' \cap Accounts(Created'))
  BY <1>4, <1>5, SetAssumption, FS_Subset
<1>7. /\ Cardinality(effect \cap Accounts(Created)) \in Nat
      /\ Cardinality(effect' \cap Accounts(Created')) \in Nat
  BY <1>4, <1>5, SetAssumption, FS_Subset, FS_CardinalityType
<1>8. order.requested \in Nat
  BY OrderAssumption DEF TypeOK
<1>9. VerdictMatchesItems'
  <2>1. /\ status' = "fail" => Succeeded' = {}
        /\ status' = "partial" => Cardinality(Succeeded') \in 1..(order'.requested - 1)
    BY DEF SoleInv, VerdictMatchesItems, RowsKept
  <2>2. status' \in {"completed", "active"} =>
           Cardinality(effect' \cap Accounts(Created')) >= order'.requested
    BY <1>6, <1>7, <1>8 DEF SoleInv, VerdictMatchesItems, RowsKept
  <2>3. Accounts(Created)' = Accounts(Created')
    BY DEF Accounts
  <2> QED
    BY <2>1, <2>2, <2>3 DEF VerdictMatchesItems
<1> QED
  BY <1>2, <1>3, <1>9

(* Sets of rows depend on the rows alone. *)
LEMMA SameRows ==
    ASSUME UNCHANGED istat
    PROVE  Succeeded' = Succeeded /\ Reserved' = Reserved /\ Created' = Created
  BY DEF Succeeded, Reserved, Created

(* The one worker stands where nothing is expected of it. *)
Resting == {"idle", "claim", "check", "dispatch", "requeue"}

(* A step to such a place keeps the invariant. *)
LEMMA RestKeeps ==
    ASSUME TypeOK, TypeOK', SoleInv, OneWorker, NEW w \in Worker,
           RowsKept, UNCHANGED success, pc[w] # "count", pc'[w] \in Resting
    PROVE  SoleInv'
<1>1. Place(w)'
  BY DEF RowsKept, SoleInv, Place, Uncounted, Resting, Finishing, Acting, Runs
<1>2. \A v \in Worker : Place(v)'
  BY <1>1 DEF OneWorker
<1> QED
  BY <1>2, RowsKeep DEF SoleInv

(* Steps that leave the worker where it is. *)
LEMMA BesideKeeps ==
    ASSUME TypeOK, TypeOK', SoleInv,
           UNCHANGED <<order, status, success, istat, effect, pc, reg>>
    PROVE  SoleInv'
<1>1. Succeeded' = Succeeded /\ Reserved' = Reserved /\ RowsKept
  BY SameRows DEF RowsKept
<1>2. \A v \in Worker : Place(v)'
  BY <1>1 DEF SoleInv, Place, Uncounted, Runs, Outcome
<1> QED
  BY <1>1, <1>2, RowsKeep DEF SoleInv

(* A change among PENDING and RUNNING keeps the sets of rows. *)
LEMMA ReservedRows ==
    ASSUME TypeOK, NEW I, NEW s \in RESERVED_ITEM_STATUSES, SetItems(I, s), I \subseteq Reserved
    PROVE  Succeeded' = Succeeded /\ Reserved' = Reserved /\ Created' = Created
<1>1. \A i \in Item : istat'[i] = IF i \in I THEN s ELSE istat[i]
  BY DEF SetItems
<1>2. \A i \in I : i \in Item /\ istat[i] \in {"pending", "running"}
  BY DEF Reserved, RESERVED_ITEM_STATUSES
<1>3. s \in {"pending", "running"}
  BY DEF RESERVED_ITEM_STATUSES
<1> QED
  BY <1>1, <1>2, <1>3 DEF Succeeded, Reserved, Created, RESERVED_ITEM_STATUSES

-----------------------------------------------------------------------------
(* The item task *)

(* A claim moves a row from PENDING to RUNNING or leaves it. *)
LEMMA ClaimKeeps ==
    ASSUME TypeOK, TypeOK', SoleInv, OneWorker, NEW w \in Worker, NEW i \in Item,
           ClaimDrop(w, i) \/ ClaimDelay(w, i) \/ ClaimRun(w, i)
    PROVE  SoleInv'
<1> USE DEF jobVars, itemVars, acctVars, brokerVars, procVars
<1>1. CASE ClaimDrop(w, i)
  <2>1. RowsKept /\ UNCHANGED success /\ pc[w] = "claim" /\ pc'[w] = "idle"
    BY <1>1, SameRows DEF ClaimDrop, RowsKept, Finish, Goto, TypeOK
  <2> QED
    BY <2>1, RestKeeps DEF Resting
<1>2. ASSUME Claimable(i) PROVE {i} \subseteq Reserved
  BY <1>2 DEF Claimable, Orphan, Reserved, RESERVED_ITEM_STATUSES
<1>3. CASE ClaimDelay(w, i)
  <2>1. SetItems({i}, "pending") /\ Claimable(i)
    BY <1>3 DEF ClaimDelay
  <2>2. RowsKept
    BY <1>2, <1>3, <2>1, ReservedRows DEF ClaimDelay, RowsKept, RESERVED_ITEM_STATUSES
  <2>3. UNCHANGED success /\ pc[w] = "claim" /\ pc'[w] = "idle"
    BY <1>3 DEF ClaimDelay, Finish, Goto, TypeOK
  <2> QED
    BY <2>2, <2>3, RestKeeps DEF Resting
<1>4. CASE ClaimRun(w, i)
  <2>1. SetItems({i}, "running") /\ Claimable(i)
    BY <1>4 DEF ClaimRun
  <2>2. RowsKept
    BY <1>2, <1>4, <2>1, ReservedRows DEF ClaimRun, RowsKept, RESERVED_ITEM_STATUSES
  <2>3. /\ UNCHANGED success /\ pc[w] = "claim" /\ pc'[w] = "act" /\ istat'[i] = "running"
        /\ reg[w].msg = {i} /\ reg' = [reg EXCEPT ![w].seen = success > 0]
    BY <1>4, <2>1 DEF ClaimRun, SetItems, Goto, TypeOK
  <2>4. reg'[w].msg = {i} /\ (~reg'[w].seen => ~(success > 0)) /\ success \in Nat
    BY <2>3 DEF TypeOK, Registers
  <2>5. Cardinality(Succeeded') = success'
    BY <2>2, <2>3, <2>4 DEF RowsKept, SoleInv, Place, Uncounted
  <2>6. \A j \in Item : Runs(w, j)' => istat'[j] = "running"
    BY <2>3, <2>4 DEF Runs
  <2>7. Place(w)'
    BY <2>3, <2>4, <2>5, <2>6 DEF Place, Uncounted, Finishing, Acting
  <2>8. \A v \in Worker : Place(v)'
    BY <2>7 DEF OneWorker
  <2> QED
    BY <2>2, <2>8, RowsKeep DEF SoleInv
<1> QED
  BY <1>1, <1>3, <1>4

(* Whatever ends as a success took effect. *)
LEMMA ActKeeps ==
    ASSUME TypeOK, TypeOK', SoleInv, OneWorker, NEW w \in Worker, NEW i \in Item,
           RunAction(w, i) \/ MarkDone(w, i)
    PROVE  SoleInv'
<1> USE DEF jobVars, itemVars, acctVars, brokerVars, procVars
<1>1. RowsKept /\ UNCHANGED <<success, istat, order>>
  BY SameRows DEF RunAction, MarkDone, RowsKept
<1>2. /\ pc[w] \in {"act", "mark"} /\ pc'[w] \in {"mark", "save"}
      /\ reg[w].msg = {i} /\ reg'[w].msg = {i} /\ reg'[w].seen = reg[w].seen
  <2>1. CASE RunAction(w, i)
    <3>1. PICK k : reg' = [reg EXCEPT ![w].kind = k]
      BY <2>1 DEF RunAction
    <3>2. PICK point \in {"mark", "save"} : Goto(w, point)
      BY <2>1 DEF RunAction
    <3>3. reg'[w].msg = reg[w].msg /\ reg'[w].seen = reg[w].seen
      BY <3>1 DEF TypeOK, Registers
    <3> QED
      BY <2>1, <3>2, <3>3 DEF RunAction, Goto, TypeOK
  <2>2. CASE MarkDone(w, i)
    BY <2>2 DEF MarkDone, Goto, TypeOK
  <2> QED
    BY <2>1, <2>2
<1>3. Outcome(reg'[w].kind) = "success" => Acct(i) \in effect'
  <2>1. CASE MarkDone(w, i)
    BY <2>1 DEF MarkDone, SoleInv, Place, Runs
  <2>2. CASE RunAction(w, i) /\ order.action = "leave" /\ Acct(i) \in marked
    <3>1. reg'[w].kind = "not_joined"
      BY <2>2 DEF RunAction, TypeOK, Registers
    <3> QED
      BY <3>1 DEF Outcome, RetryKinds
  <2>3. CASE RunAction(w, i) /\ ~(order.action = "leave" /\ Acct(i) \in marked)
    <3>1. PICK k \in Kinds :
            /\ k = "already_done" => order.action # "view" /\ Acct(i) \in effect
            /\ effect' \in IF k = "ok" THEN {effect \cup {Acct(i)}}
                           ELSE IF k \in {"conn_error", "failed"} THEN {effect, effect \cup {Acct(i)}}
                           ELSE {effect}
            /\ reg' = [reg EXCEPT ![w].kind = k]
      BY <2>3 DEF RunAction
    <3>2. reg'[w].kind = k
      BY <3>1 DEF TypeOK, Registers
    <3> QED
      BY <3>1, <3>2 DEF Outcome, RetryKinds
  <2> QED
    BY <2>1, <2>2, <2>3
<1>4. Outcome(reg[w].kind)' = "success" => Acct(i) \in effect'
  BY <1>1, <1>3 DEF Outcome
<1>5. Place(w)'
  BY <1>1, <1>2, <1>4 DEF RowsKept, SoleInv, Place, Uncounted, Finishing, Acting, Runs
<1>6. \A v \in Worker : Place(v)'
  BY <1>5 DEF OneWorker
<1> QED
  BY <1>1, <1>6, RowsKeep DEF SoleInv

(* finish_item, first statement. *)
LEMMA SaveKeeps ==
    ASSUME TypeOK, TypeOK', SoleInv, OneWorker, NEW w \in Worker, NEW i \in Item, SaveItem(w, i)
    PROVE  SoleInv'
<1> USE DEF jobVars, itemVars, acctVars, brokerVars, procVars
<1> DEFINE s == Outcome(reg[w].kind)
<1>1. s \in ItemStatus \ {"none", "pending", "running"}
  BY OutcomeType
<1>2. /\ \A j \in Item : istat'[j] = IF j = i THEN s ELSE istat[j]
      /\ pc[w] = "save" /\ pc'[w] = "count" /\ reg' = reg /\ reg[w].msg = {i}
      /\ UNCHANGED <<order, status, success, effect>>
  BY DEF SaveItem, SetItems, Goto, TypeOK
<1>3. Outcome(reg[w].kind)' = s
  BY <1>2 DEF Outcome
<1> HIDE DEF s
<1>4. Runs(w, i) /\ istat[i] = "running" /\ (s = "success" => Acct(i) \in effect)
  <2>1. Runs(w, i)
    BY <1>2 DEF Runs
  <2> QED
    BY <1>2, <2>1 DEF SoleInv, Place, s
<1>5. i \in Reserved /\ i \notin Succeeded
  BY <1>4 DEF Reserved, Succeeded, RESERVED_ITEM_STATUSES
<1>6. Succeeded' = IF s = "success" THEN Succeeded \cup {i} ELSE Succeeded
  BY <1>2, <1>4 DEF Succeeded
<1>7. Taken' \subseteq Taken
  <2>1. Reserved' \subseteq Reserved
    BY <1>1, <1>2 DEF Reserved, RESERVED_ITEM_STATUSES
  <2> QED
    BY <2>1, <1>5, <1>6 DEF Taken
<1>8. Filled'
  <2>1. /\ Cardinality(Taken') \in Nat /\ Cardinality(Taken) \in Nat
        /\ Cardinality(Taken') <= Cardinality(Taken)
    BY <1>7, RowSets, ItemsFinite, FS_Subset
  <2>2. order.total \in Nat
    BY OrderAssumption DEF TypeOK
  <2>3. Cardinality(Taken') <= order'.total
    BY <1>2, <2>1, <2>2 DEF SoleInv, Filled
  <2>4. \A j, k \in Taken' : Acct(j) = Acct(k) => j = k
    BY <1>7 DEF SoleInv, Filled
  <2> QED
    BY <2>3, <2>4 DEF Filled
<1>9. Delivered'
  BY <1>2, <1>4, <1>6 DEF SoleInv, Delivered
<1>10. status' \notin Settled
  BY <1>2, <1>5 DEF SoleInv, NothingLeft
<1>11. NothingLeft' /\ VerdictMatchesItems'
  BY <1>10 DEF NothingLeft, VerdictMatchesItems, Settled, TERMINAL_JOB_STATUSES
<1>12. Cardinality(Succeeded') = success' + Uncounted(w)'
  <2>1. Cardinality(Succeeded) = success /\ success \in Nat
    BY <1>2 DEF SoleInv, Place, Uncounted, TypeOK
  <2>2. Cardinality(Succeeded \cup {i}) = Cardinality(Succeeded) + 1
    BY <1>5, RowSets, ItemsFinite, FS_AddElement
  <2>3. Uncounted(w)' = IF s = "success" THEN 1 ELSE 0
    BY <1>2, <1>3 DEF Uncounted
  <2> QED
    BY <1>2, <1>6, <2>1, <2>2, <2>3
<1>13. Place(w)'
  BY <1>2, <1>12 DEF SoleInv, Place, Finishing, Acting, Runs
<1>14. \A v \in Worker : Place(v)'
  BY <1>13 DEF OneWorker
<1> QED
  BY <1>8, <1>9, <1>11, <1>14 DEF SoleInv

(* finish_item, second statement, and what follows it. *)
LEMMA CountKeeps ==
    ASSUME TypeOK, TypeOK', SoleInv, OneWorker, NEW w \in Worker, CountItem(w)
    PROVE  SoleInv'
<1> USE DEF jobVars, itemVars, acctVars, brokerVars, procVars
<1>1. /\ RowsKept /\ pc[w] = "count" /\ pc'[w] = "after" /\ reg' = reg
      /\ success' = success + Uncounted(w)
  BY SameRows DEF CountItem, RowsKept, Goto, TypeOK, Uncounted
<1>2. success \in Nat /\ success' = Cardinality(Succeeded)
  BY <1>1 DEF SoleInv, Place, TypeOK
<1>3. reg[w].kind = "invalid_target" => success' = success
  BY <1>1, <1>2 DEF Uncounted, Outcome, RetryKinds
<1>4. Place(w)'
  BY <1>1, <1>2, <1>3 DEF RowsKept, SoleInv, Place, Uncounted, Finishing, Acting, Runs
<1>5. \A v \in Worker : Place(v)'
  BY <1>4 DEF OneWorker
<1> QED
  BY <1>1, <1>5, RowsKeep DEF SoleInv

(* Only a job in which nothing has succeeded goes on to its cancellation. *)
LEMMA AfterKeeps ==
    ASSUME TypeOK, TypeOK', SoleInv, OneWorker, NEW w \in Worker, NEW i \in Item, AfterItem(w, i)
    PROVE  SoleInv'
<1> USE DEF jobVars, itemVars, acctVars, brokerVars, procVars
<1>1. /\ RowsKept /\ UNCHANGED success /\ pc[w] = "after"
      /\ pc'[w] = IF reg[w].kind = "invalid_target" /\ ~reg[w].seen THEN "cancel" ELSE "check"
  BY SameRows DEF AfterItem, RowsKept, Goto, TypeOK
<1>2. CASE pc'[w] = "check"
  BY <1>1, <1>2, RestKeeps DEF Resting
<1>3. CASE pc'[w] = "cancel"
  <2>1. success' = 0
    BY <1>1, <1>3 DEF SoleInv, Place
  <2>2. Place(w)'
    BY <1>1, <1>3, <2>1 DEF RowsKept, SoleInv, Place, Uncounted, Finishing, Acting, Runs
  <2>3. \A v \in Worker : Place(v)'
    BY <2>2 DEF OneWorker
  <2> QED
    BY <1>1, <2>3, RowsKeep DEF SoleInv
<1> QED
  BY <1>1, <1>2, <1>3

(* cancel_job_invalid_target: nothing has succeeded. *)
LEMMA CancelKeeps ==
    ASSUME TypeOK, TypeOK', SoleInv, OneWorker, NEW w \in Worker, CancelJob(w)
    PROVE  SoleInv'
<1> USE DEF jobVars, itemVars, acctVars, brokerVars, procVars
<1>1. CASE status \in TERMINAL_JOB_STATUSES
  <2>1. RowsKept /\ UNCHANGED success /\ pc[w] = "cancel" /\ pc'[w] = "idle"
    BY <1>1, SameRows DEF CancelJob, RowsKept, Finish, Goto, TypeOK
  <2> QED
    BY <2>1, RestKeeps DEF Resting
<1>2. CASE status \notin TERMINAL_JOB_STATUSES
  <2>1. success = 0 /\ Cardinality(Succeeded) = 0
    BY <1>2 DEF CancelJob, SoleInv, Place, Uncounted
  <2>2. Succeeded = {}
    BY <2>1, RowSets, ItemsFinite, FS_EmptySet
  <2>3. /\ \A j \in Item : istat'[j] = IF j \in Reserved THEN "skipped" ELSE istat[j]
        /\ pc[w] = "cancel" /\ pc'[w] = "read" /\ status' = "fail"
        /\ UNCHANGED <<order, success, effect>>
    BY <1>2, <2>1 DEF CancelJob, SetItems, Goto, TypeOK
  <2>4. Succeeded' = {} /\ Reserved' = {}
    BY <2>2, <2>3 DEF Succeeded, Reserved, RESERVED_ITEM_STATUSES
  <2>5. Cardinality(Succeeded') = 0 /\ Cardinality(Taken') = 0 /\ Taken' = {}
    BY <2>4, FS_EmptySet DEF Taken
  <2>6. order'.total \in Nat
    BY OrderAssumption DEF TypeOK
  <2>7. Filled' /\ Delivered' /\ NothingLeft' /\ VerdictMatchesItems'
    BY <2>3, <2>4, <2>5, <2>6 DEF Filled, Delivered, NothingLeft, VerdictMatchesItems
  <2>8. Place(w)'
    BY <2>1, <2>3, <2>4, <2>5 DEF Place, Uncounted, Finishing, Acting, Runs
  <2>9. \A v \in Worker : Place(v)'
    BY <2>8 DEF OneWorker
  <2> QED
    BY <2>7, <2>9 DEF SoleInv
<1> QED
  BY <1>1, <1>2

-----------------------------------------------------------------------------
(* finalize_job_if_done and the recovery tasks *)

(* The worker goes on with a job that has no reserved item. *)
LEMMA FinishingKeeps ==
    ASSUME TypeOK, TypeOK', SoleInv, OneWorker, NEW w \in Worker,
           RowsKept, pc[w] # "count", pc'[w] \in Finishing, Reserved = {},
           success' = success, pc'[w] = "write" => reg'[w].count = Cardinality(Succeeded)
    PROVE  SoleInv'
<1>1. Place(w)'
  BY DEF RowsKept, SoleInv, Place, Uncounted, Finishing, Acting, Runs
<1>2. \A v \in Worker : Place(v)'
  BY <1>1 DEF OneWorker
<1> QED
  BY <1>2, RowsKeep DEF SoleInv

(* Up to the settlement nothing is reserved and the counter is the rows. *)
LEMMA FinalizeKeeps ==
    ASSUME TypeOK, TypeOK', SoleInv, OneWorker, NEW w \in Worker,
           \/ CheckIdle(w) \/ ReadCounts(w) \/ WriteCounts(w) \/ EnqueueNothing(w)
           \/ EnqueueDefer(w) \/ DispatchItems(w) \/ NotifyPanel(w)
    PROVE  SoleInv'
<1> USE DEF jobVars, itemVars, acctVars, brokerVars, procVars
<1>1. RowsKept
  BY SameRows DEF RowsKept, CheckIdle, ReadCounts, WriteCounts, EnqueueNothing, EnqueueDefer,
     DispatchItems, NotifyPanel
<1>2. CASE CheckIdle(w)
  <2>1. UNCHANGED success /\ pc[w] = "check" /\ (pc'[w] = "idle" \/ (pc'[w] = "read" /\ Reserved = {}))
    BY <1>2 DEF CheckIdle, Finish, Goto, TypeOK
  <2> QED
    BY <1>1, <2>1, RestKeeps, FinishingKeeps DEF Resting, Finishing
<1>3. CASE ReadCounts(w)
  <2>1. /\ UNCHANGED success /\ pc[w] = "read" /\ pc'[w] = "write"
        /\ reg'[w].count = Cardinality(Succeeded)
    BY <1>3 DEF ReadCounts, Goto, TypeOK, Registers
  <2>2. Reserved = {}
    BY <2>1 DEF SoleInv, Place, Finishing
  <2> QED
    BY <1>1, <2>1, <2>2, FinishingKeeps DEF Finishing
<1>4. CASE WriteCounts(w)
  <2>1. success' = reg[w].count /\ pc[w] = "write" /\ pc'[w] \in {"enqueue", "notify"}
    BY <1>4 DEF WriteCounts, Goto, TypeOK
  <2>2. Reserved = {} /\ success' = success
    BY <2>1 DEF SoleInv, Place, Finishing, Uncounted, TypeOK
  <2> QED
    BY <1>1, <2>1, <2>2, FinishingKeeps DEF Finishing
<1>5. CASE EnqueueNothing(w)
  <2>1. UNCHANGED success /\ pc[w] = "enqueue" /\ pc'[w] = "settle"
    BY <1>5 DEF EnqueueNothing, Goto, TypeOK
  <2>2. Reserved = {}
    BY <2>1 DEF SoleInv, Place, Finishing
  <2> QED
    BY <1>1, <2>1, <2>2, FinishingKeeps DEF Finishing
<1>6. CASE EnqueueDefer(w) \/ DispatchItems(w) \/ NotifyPanel(w)
  <2>1. UNCHANGED success /\ pc[w] # "count" /\ pc'[w] = "idle"
    BY <1>6 DEF EnqueueDefer, DispatchItems, NotifyPanel, Finish, Goto, TypeOK
  <2> QED
    BY <1>1, <2>1, RestKeeps DEF Resting
<1> QED
  BY <1>2, <1>3, <1>4, <1>5, <1>6

(* Rows inserted for accounts without a row that delivered or may deliver, *)
(* within what is missing.                                                 *)
LEMMA InsertFills ==
    ASSUME TypeOK, TypeOK', SoleInv, NEW A \in SUBSET Account,
           SetItems(NewItems(A), "pending"), UNCHANGED <<order, effect>>,
           Cardinality(A) + Cardinality(Taken) <= order.total,
           \A i \in Taken : Acct(i) \notin A
    PROVE  Filled' /\ Delivered' /\ Succeeded' = Succeeded
<1>1. \A j \in Item : istat'[j] = IF j \in NewItems(A) THEN "pending" ELSE istat[j]
  BY DEF SetItems, TypeOK
<1>2. \A j \in NewItems(A) : j \in Item /\ istat[j] = "none" /\ Acct(j) \in A
  BY DEF NewItems
<1>3. Succeeded' = Succeeded /\ Reserved' = Reserved \cup NewItems(A)
  BY <1>1, <1>2 DEF Succeeded, Reserved, RESERVED_ITEM_STATUSES
<1>4. Taken' = Taken \cup NewItems(A) /\ Taken \cap NewItems(A) = {}
  BY <1>2, <1>3 DEF Taken
<1>5. \A i, j \in Taken' : Acct(i) = Acct(j) => i = j
  <2>1. \A i, j \in NewItems(A) : Acct(i) = Acct(j) => i = j
    BY NewItemsDistinct
  <2>2. \A i \in Taken, j \in NewItems(A) : Acct(i) # Acct(j)
    BY <1>2
  <2>3. \A i, j \in Taken : Acct(i) = Acct(j) => i = j
    BY DEF SoleInv, Filled
  <2> QED
    BY <1>4, <2>1, <2>2, <2>3
<1>6. Cardinality(Taken') <= order'.total
  <2>1. /\ NewItems(A) \subseteq Item /\ Cardinality(NewItems(A)) \in Nat
        /\ Cardinality(A) \in Nat /\ Cardinality(NewItems(A)) <= Cardinality(A)
    BY NewItemsSize
  <2>2. IsFiniteSet(NewItems(A)) /\ IsFiniteSet(Taken) /\ Cardinality(Taken) \in Nat
    BY <2>1, RowSets, ItemsFinite
  <2>3. Cardinality(Taken \cap NewItems(A)) = 0
    BY <1>4, FS_EmptySet
  <2>4. Cardinality(Taken \cup NewItems(A)) = Cardinality(Taken) + Cardinality(NewItems(A))
    <3>1. Cardinality(Taken \cup NewItems(A))
            = Cardinality(Taken) + Cardinality(NewItems(A)) - Cardinality(Taken \cap NewItems(A))
      BY <2>2, FS_Union
    <3> QED
      BY <2>1, <2>2, <2>3, <3>1
  <2>5. order.total \in Nat
    BY OrderAssumption DEF TypeOK
  <2> QED
    BY <1>4, <2>1, <2>2, <2>4, <2>5
<1>7. Delivered'
  BY <1>3 DEF SoleInv, Delivered
<1> QED
  BY <1>3, <1>5, <1>6, <1>7 DEF Filled

(* Replacements are other accounts, and no more than are missing. *)
LEMMA EnqueueKeeps ==
    ASSUME TypeOK, TypeOK', SoleInv, OneWorker, NEW w \in Worker, EnqueueItems(w)
    PROVE  SoleInv'
<1> USE DEF jobVars, itemVars, acctVars, brokerVars
<1>1. PICK A \in FirstOf(Missing, Replacements) : SetItems(NewItems(A), "pending")
  BY DEF EnqueueItems
<1>2. A \in SUBSET Account /\ A \subseteq Replacements
  <2>1. Selectable \subseteq Account
    BY DEF Selectable, TypeOK, EnqueueItems, Replaceable
  <2> QED
    BY <2>1 DEF FirstOf, Replacements
<1>3. /\ pc[w] = "enqueue" /\ pc'[w] = "dispatch" /\ UNCHANGED <<order, success, effect>>
      /\ status' = "inprogress" /\ Missing > 0 /\ order.action \in {"join", "view"}
  BY DEF EnqueueItems, Goto, TypeOK, Replaceable
<1>4. \A i \in Taken : Acct(i) \notin A
  <2>1. \A i \in Taken : i \in Created /\ istat[i] # "paused"
    BY RowSets DEF Taken, Succeeded, Reserved, RESERVED_ITEM_STATUSES
  <2>2. \A i \in Taken : Acct(i) \in PermanentlyUsed
    BY <2>1 DEF PermanentlyUsed, Accounts
  <2> QED
    BY <1>2, <2>2 DEF Replacements
<1>5. Cardinality(A) + Cardinality(Taken) <= order.total
  <2>1. Cardinality(Succeeded) = success
    BY <1>3 DEF SoleInv, Place, Uncounted, TypeOK
  <2>2. /\ Cardinality(Succeeded) \in Nat /\ Cardinality(Reserved) \in Nat
        /\ Cardinality(Replacements) \in Nat /\ order.total \in Nat
    <3>1. Replacements \subseteq Account
      BY <1>3 DEF Replacements, Selectable, TypeOK
    <3> QED
      BY <3>1, RowSets, ItemsFinite, SetAssumption, FS_Subset, FS_CardinalityType, OrderAssumption DEF TypeOK
  <2>3. Cardinality(A) = Smaller(Missing, Cardinality(Replacements))
    BY DEF FirstOf
  <2>4. Missing \in Int /\ Missing = order.total - success - Cardinality(Reserved)
    BY <2>1, <2>2 DEF Missing
  <2>5. Cardinality(A) <= Missing /\ Cardinality(A) \in Int
    BY <2>2, <2>3, <2>4 DEF Smaller
  <2>6. Cardinality(Taken) = success + Cardinality(Reserved)
    BY <2>1, TakenSize
  <2> QED
    BY <2>1, <2>2, <2>4, <2>5, <2>6
<1>6. Filled' /\ Delivered' /\ Succeeded' = Succeeded
  BY <1>1, <1>2, <1>3, <1>4, <1>5, InsertFills
<1>7. NothingLeft' /\ VerdictMatchesItems'
  BY <1>3 DEF NothingLeft, VerdictMatchesItems, Settled, TERMINAL_JOB_STATUSES
<1>8. Place(w)'
  BY <1>3, <1>6 DEF SoleInv, Place, Uncounted, Finishing, Acting, Runs
<1>9. \A v \in Worker : Place(v)'
  BY <1>8 DEF OneWorker
<1> QED
  BY <1>6, <1>7, <1>9 DEF SoleInv

(* The verdict is taken from a counter that agrees with the rows. *)
LEMMA SettleKeepsRows ==
    ASSUME TypeOK, TypeOK', SoleInv, OneWorker, NEW w \in Worker, SettleJob(w)
    PROVE  SoleInv'
<1> USE DEF jobVars, itemVars, acctVars, brokerVars, procVars
<1>1. CASE status \in TERMINAL_JOB_STATUSES
  <2>1. RowsKept /\ UNCHANGED success /\ pc[w] = "settle" /\ pc'[w] = "idle"
    BY <1>1, SameRows DEF SettleJob, RowsKept, Finish, Goto, TypeOK
  <2> QED
    BY <2>1, RestKeeps DEF Resting
<1>2. CASE status \notin TERMINAL_JOB_STATUSES
  <2>1. /\ UNCHANGED <<order, success, istat, effect>> /\ status' = Verdict
        /\ pc[w] = "settle" /\ pc'[w] = "notify"
    BY <1>2 DEF SettleJob, Goto, TypeOK
  <2>2. /\ Reserved = {} /\ Cardinality(Succeeded) = success /\ success \in Nat
        /\ order.requested \in Nat \ {0}
    BY <2>1, OrderAssumption DEF SoleInv, Place, Finishing, Uncounted, TypeOK
  <2>3. Succeeded' = Succeeded /\ Reserved' = Reserved /\ Created' = Created /\ Taken' = Taken
    BY <2>1, SameRows DEF Taken
  <2>4. Filled' /\ Delivered' /\ NothingLeft'
    BY <2>1, <2>2, <2>3 DEF SoleInv, Filled, Delivered, NothingLeft
  <2>5. VerdictMatchesItems'
    <3>1. Verdict = "fail" => Succeeded = {}
      BY <2>2, RowSets, ItemsFinite, FS_EmptySet DEF Verdict
    <3>2. Verdict = "partial" => success \in 1..(order.requested - 1)
      BY <2>2 DEF Verdict
    <3>3. Verdict \in {"completed", "active"} => Cardinality(effect \cap Accounts(Created)) >= order.requested
      <4>1. /\ Cardinality(effect \cap Accounts(Created)) \in Nat
            /\ success <= Cardinality(effect \cap Accounts(Created))
        BY <2>2, SuccessesActed DEF SoleInv
      <4>2. Verdict \in {"completed", "active"} => success >= order.requested
        BY <2>2 DEF Verdict
      <4> QED
        BY <2>2, <4>1, <4>2
    <3>4. effect' \cap Accounts(Created)' = effect \cap Accounts(Created)
      BY <2>1, <2>3 DEF Accounts
    <3> QED
      BY <2>1, <2>2, <2>3, <3>1, <3>2, <3>3, <3>4 DEF VerdictMatchesItems
  <2>6. Place(w)'
    BY <2>1, <2>2, <2>3 DEF Place, Uncounted, Finishing, Acting, Runs
  <2>7. \A v \in Worker : Place(v)'
    BY <2>6 DEF OneWorker
  <2> QED
    BY <2>4, <2>5, <2>7 DEF SoleInv
<1> QED
  BY <1>1, <1>2

(* What the one worker resets is what it found RUNNING. *)
LEMMA RecoveryKeeps ==
    ASSUME TypeOK, TypeOK', SoleInv, OneWorker, NEW w \in Worker,
           RecoverRunning(w) \/ ResetItems(w) \/ RequeueItems(w) \/ RecoverPending(w) \/ RecoverJobs(w)
    PROVE  SoleInv'
<1> USE DEF jobVars, itemVars, acctVars, brokerVars, procVars
<1>1. CASE RecoverRunning(w)
  <2>1. RowsKept /\ UNCHANGED success /\ UNCHANGED istat
    BY <1>1, SameRows DEF RecoverRunning, RowsKept
  <2>2. pc[w] = "idle" /\ pc'[w] = "reset" /\ reg'[w].items = Stale
    BY <1>1 DEF RecoverRunning, Goto, TypeOK, Registers
  <2>3. \A i \in reg'[w].items : istat'[i] = "running"
    BY <2>1, <2>2 DEF Stale, Orphan
  <2>4. Place(w)'
    BY <2>1, <2>2, <2>3 DEF RowsKept, SoleInv, Place, Uncounted, Finishing, Acting, Runs
  <2>5. \A v \in Worker : Place(v)'
    BY <2>4 DEF OneWorker
  <2> QED
    BY <2>1, <2>5, RowsKeep DEF SoleInv
<1>2. CASE ResetItems(w)
  <2>1. SetItems(reg[w].items, "pending") /\ pc[w] = "reset" /\ pc'[w] = "requeue" /\ UNCHANGED success
    BY <1>2 DEF ResetItems, Goto, TypeOK
  <2>2. reg[w].items \subseteq Reserved
    BY <2>1 DEF SoleInv, Place, Reserved, RESERVED_ITEM_STATUSES, TypeOK, Registers
  <2>3. RowsKept
    BY <1>2, <2>1, <2>2, ReservedRows DEF ResetItems, RowsKept, RESERVED_ITEM_STATUSES
  <2> QED
    BY <2>1, <2>3, RestKeeps DEF Resting
<1>3. CASE RequeueItems(w) \/ RecoverJobs(w)
  <2>1. RowsKept /\ UNCHANGED success /\ pc[w] # "count" /\ pc'[w] \in {"idle", "check"}
    BY <1>3, SameRows DEF RequeueItems, RecoverJobs, RowsKept, Finish, Goto, TypeOK
  <2> QED
    BY <2>1, RestKeeps DEF Resting
<1>4. CASE RecoverPending(w)
  BY <1>4, BesideKeeps DEF RecoverPending
<1> QED
  BY <1>1, <1>2, <1>3, <1>4

-----------------------------------------------------------------------------
(* The creation inserts the first rows. *)
LEMMA CreateKeeps ==
    ASSUME TypeOK, TypeOK', StartInv, SoleInv, CreateJob
    PROVE  SoleInv'
<1> USE DEF jobVars, itemVars, acctVars, brokerVars
<1>1. PICK A \in FirstOf(order.total, Selectable) :
        /\ status' = IF A = {} THEN "fail" ELSE "inprogress"
        /\ SetItems(NewItems(A), "pending")
  BY DEF CreateJob
<1>2. A \in SUBSET Account
  BY OrderAssumption DEF FirstOf, Selectable, TypeOK, Actions
<1>3. Created = {} /\ Succeeded = {} /\ Taken = {} /\ Reserved = {} /\ \A w \in Worker : pc[w] = "idle"
  BY RowSets DEF StartInv, CreateJob
<1>4. /\ UNCHANGED <<order, effect, success, pc, reg>>
  BY DEF CreateJob
<1>5. Cardinality(A) + Cardinality(Taken) <= order.total
  <2>1. Cardinality(Taken) = 0
    BY <1>3, FS_EmptySet
  <2>2. Selectable \subseteq Account
    BY OrderAssumption DEF Selectable, TypeOK, Actions
  <2>3. Cardinality(Selectable) \in Nat /\ order.total \in Nat
    BY <2>2, SetAssumption, FS_Subset, FS_CardinalityType, OrderAssumption DEF TypeOK
  <2>4. Cardinality(A) = Smaller(order.total, Cardinality(Selectable))
    BY DEF FirstOf
  <2> QED
    BY <2>1, <2>3, <2>4 DEF Smaller
<1>6. Filled' /\ Delivered' /\ Succeeded' = {}
  BY <1>1, <1>2, <1>3, <1>4, <1>5, InsertFills
<1>7. NothingLeft' /\ VerdictMatchesItems'
  <2>1. CASE A = {}
    <3>1. NewItems(A) = {}
      BY <2>1 DEF NewItems
    <3>2. Reserved' = Reserved
      BY <1>1, <3>1 DEF SetItems, Reserved, TypeOK
    <3> QED
      BY <1>1, <1>3, <1>6, <2>1, <3>2 DEF NothingLeft, VerdictMatchesItems
  <2>2. CASE A # {}
    BY <1>1, <2>2 DEF NothingLeft, VerdictMatchesItems, Settled, TERMINAL_JOB_STATUSES
  <2> QED
    BY <2>1, <2>2
<1>8. \A w \in Worker : Place(w)'
  BY <1>3, <1>4, <1>6 DEF SoleInv, Place, Uncounted, Finishing, Acting, Runs
<1> QED
  BY <1>6, <1>7, <1>8 DEF SoleInv

LEMMA SoleInit == Init => SoleInv
<1> SUFFICES ASSUME Init PROVE SoleInv
  OBVIOUS
<1>1. Succeeded = {} /\ Reserved = {} /\ Taken = {}
  BY DEF Init, Succeeded, Reserved, Taken, RESERVED_ITEM_STATUSES
<1>2. order.total \in Nat /\ Cardinality({}) = 0
  BY OrderAssumption, FS_EmptySet DEF Init
<1>3. Filled /\ Delivered /\ NothingLeft /\ VerdictMatchesItems
  BY <1>1, <1>2 DEF Init, Filled, Delivered, NothingLeft, VerdictMatchesItems
<1>4. \A w \in Worker : Place(w)
  BY <1>1, <1>2 DEF Init, Place, Uncounted, Finishing, Acting, Runs
<1> QED
  BY <1>3, <1>4 DEF SoleInv

LEMMA SoleNext ==
    ASSUME TypeOK, StartInv, SoleInv, OneWorker, "count" \notin CrashPoints, [Next]_vars
    PROVE  SoleInv'
<1> USE DEF vars, jobVars, itemVars, acctVars, brokerVars, procVars
<1>0. TypeOK'
  BY TypeNext
<1>1. CASE CreateJob
  BY <1>0, <1>1, CreateKeeps
<1>2. CASE DispatchJob \/ CrashWeb \/ (\E a \in Account : ThrottleExpires(a))
            \/ (\E m \in Message : LoseMessage(m)) \/ UNCHANGED vars
  BY <1>0, <1>2, BesideKeeps DEF DispatchJob, CrashWeb, ThrottleExpires, LoseMessage
<1>3. ASSUME NEW w \in Worker, JobStep(w) PROVE SoleInv'
  BY <1>0, <1>3, CountKeeps, CancelKeeps, FinalizeKeeps, EnqueueKeeps, SettleKeepsRows, RecoveryKeeps
     DEF JobStep
<1>4. ASSUME NEW w \in Worker, NEW i \in Item, ItemStep(w, i) PROVE SoleInv'
  BY <1>0, <1>4, ClaimKeeps, ActKeeps, SaveKeeps, AfterKeeps DEF ItemStep
<1>5. ASSUME NEW w \in Worker, RecoverRunning(w) \/ RecoverPending(w) \/ RecoverJobs(w) PROVE SoleInv'
  BY <1>0, <1>5, RecoveryKeeps
<1>6. ASSUME NEW w \in Worker, TakeSlotFill(w) \/ CrashWorker(w) \/ \E i \in Item : TakeItem(w, i)
      PROVE  SoleInv'
  <2>1. RowsKept /\ UNCHANGED success
    BY <1>6, SameRows DEF TakeSlotFill, CrashWorker, TakeItem, RowsKept
  <2>2. pc[w] # "count" /\ pc'[w] \in Resting
    BY <1>6 DEF TakeSlotFill, CrashWorker, TakeItem, Finish, Goto, TypeOK, Resting
  <2> QED
    BY <1>0, <2>1, <2>2, RestKeeps
<1>7. ASSUME NEW w \in Worker, NEW i \in Item, Overrun(w, i) PROVE SoleInv'
  BY <1>0, <1>7, BesideKeeps DEF Overrun
<1> QED
  BY <1>1, <1>2, <1>3, <1>4, <1>5, <1>6, <1>7 DEF Next, Step

(* The invariant holds in every state of one worker. *)
LEMMA SoleAlways ==
    ASSUME OneWorker, "count" \notin CrashPoints
    PROVE  Spec => []SoleInv
<1>1. TypeOK /\ StartInv /\ SoleInv /\ [Next]_vars => SoleInv'
  BY SoleNext
<1> QED
  BY <1>1, SoleInit, TypeCorrect, StartCorrect, PTL DEF Spec

(* One worker that does not die between the two statements of finish_item  *)
(* settles every order as its rows and Rubika say: fail over no success,   *)
(* partial over too few, completed only when as many accounts as requested *)
(* acted (finalize_job_if_done, cancel_job_invalid_target).                *)
THEOREM VerdictsMatchItems ==
    ASSUME OneWorker, "count" \notin CrashPoints
    PROVE  Spec => []VerdictMatchesItems
<1>1. SoleInv => VerdictMatchesItems
  BY DEF SoleInv
<1> QED
  BY <1>1, SoleAlways, PTL

(* Nor is an order delivered beyond its total: what                        *)
(* enqueue_replacement_items_if_needed inserts is what is missing.         *)
THEOREM NothingIsOverDelivered ==
    ASSUME OneWorker, "count" \notin CrashPoints
    PROVE  Spec => []NeverOverDelivers
<1>1. TypeOK /\ SoleInv => NeverOverDelivers
  <2> SUFFICES ASSUME TypeOK, SoleInv PROVE NeverOverDelivers
    OBVIOUS
  <2>1. Cardinality(Taken) = Cardinality(Succeeded) + Cardinality(Reserved)
    BY TakenSize
  <2>2. Cardinality(Succeeded) \in Nat /\ Cardinality(Reserved) \in Nat /\ order.total \in Nat
    BY RowSets, ItemsFinite, OrderAssumption DEF TypeOK
  <2> QED
    BY <2>1, <2>2 DEF SoleInv, Filled, NeverOverDelivers
<1> QED
  BY <1>1, SoleAlways, TypeCorrect, PTL

(* It takes two workers to settle a job over a reserved item: one alone    *)
(* settles when no item is PENDING or RUNNING, as the comment of           *)
(* finalize_job_if_done says.                                              *)
THEOREM OneWorkerSettlesWhenIdle ==
    ASSUME OneWorker, "count" \notin CrashPoints
    PROVE  Spec => SettlesWhenIdle
<1>1. SoleInv' =>
        [(status \notin Settled) /\ status' \in Settled =>
            \A i \in Item : istat'[i] \notin RESERVED_ITEM_STATUSES]_vars
  BY DEF SoleInv, NothingLeft, Reserved
<1> QED
  BY <1>1, SoleAlways, PTL DEF Spec, SettlesWhenIdle

-----------------------------------------------------------------------------
(* Retention.                                                              *)

(* A join with retention that was settled ACTIVE goes on as AutoLeave,     *)
(* which is the Retention of RetentionPeriod.  process_auto_leave locks    *)
(* nothing, so no state of a row is stable; the argument rests on what     *)
(* only grows: the rows that were worked on, the accounts that left.       *)

(* A schedule that a worker holds, or that was worked on, is due. *)
HeldIsDue ==
    /\ \A w \in LeaveWorker : sched[w] \subseteq due
    /\ \A a \in Joiner : row[a] # "pending" => a \in due

(* Before an account is recorded as left it has left; before its row is    *)
(* saved as completed it is recorded as left.                              *)
LeftFirst ==
    \A w \in LeaveWorker : \A a \in Joiner :
        /\ Retention!At(w, "mark", a) => a \notin member
        /\ Retention!At(w, "save", a) => a \notin joined

(* Once true of an account this stays true. *)
Over(a) == a \notin joined \/ a \in errored

AllWorked == \A a \in Joiner : row[a] # "pending" /\ Over(a)

(* What completes the job has seen every row worked on. *)
WorkedFirst ==
    /\ \A a \in Joiner : row[a] \in {"completed", "fail"} => Over(a)
    /\ \A w \in LeaveWorker : at[w] \in {"load", "complete"} => AllWorked
    /\ job = "completed" => AllWorked

LeaveInv == Retention!TypeOK /\ HeldIsDue /\ LeftFirst /\ Retention!LeftHasLeft /\ WorkedFirst

(* The initial rows satisfy the invariant. *)
LEMMA LeaveInit == Retention!Init => LeaveInv
  BY LeaveAssumption DEF Retention!Init, LeaveInv, Retention!TypeOK, HeldIsDue, LeftFirst,
     Retention!LeftHasLeft, WorkedFirst, Retention!At, Retention!PC

(* A counted copy stays within the bound. *)
LEMMA CappedType == ASSUME NEW n \in 0..LeaveCopies PROVE Retention!Capped(n) \in 0..LeaveCopies
  BY LeaveAssumption DEF Retention!Capped

(* The types are preserved by every step. *)
LEMMA LeaveTypes == Retention!TypeOK /\ [Retention!Next]_(Retention!vars) => Retention!TypeOK'
<1> SUFFICES ASSUME Retention!TypeOK, [Retention!Next]_(Retention!vars) PROVE Retention!TypeOK'
  OBVIOUS
<1> USE LeaveAssumption
<1>1. CASE Retention!EnqueueDue
  BY <1>1, CappedType DEF Retention!EnqueueDue, Retention!TypeOK
<1>2. ASSUME NEW a \in Joiner, Retention!FallDue(a) PROVE Retention!TypeOK'
  BY <1>2 DEF Retention!FallDue, Retention!TypeOK
<1>3. ASSUME NEW w \in LeaveWorker, Retention!Crash(w) PROVE Retention!TypeOK'
  <2>1. leaves' \in [Joiner -> 0..LeaveCopies]
    BY <1>3, CappedType DEF Retention!Crash, Retention!TypeOK
  <2> QED
    BY <1>3, <2>1 DEF Retention!Crash, Retention!TypeOK, Retention!Finish, Retention!Goto,
       Retention!PC
<1>4. ASSUME NEW w \in LeaveWorker, NEW a \in Joiner, Retention!Take(w, a) PROVE Retention!TypeOK'
  BY <1>4 DEF Retention!Take, Retention!TypeOK, Retention!Goto, Retention!PC
<1>5. ASSUME NEW w \in LeaveWorker, Retention!Check(w) \/ Retention!LoadJob(w) \/ Retention!CompleteJob(w) \/ Retention!Notify(w) PROVE Retention!TypeOK'
  BY <1>5 DEF Retention!Check, Retention!LoadJob, Retention!CompleteJob, Retention!Notify,
     Retention!TypeOK, Retention!Goto, Retention!Finish, Retention!PC
<1>6. ASSUME NEW w \in LeaveWorker, NEW a \in Joiner, Retention!Claim(w, a) PROVE Retention!TypeOK'
  BY <1>6 DEF Retention!Claim, Retention!TypeOK, Retention!Goto, Retention!PC
<1>7. ASSUME NEW w \in LeaveWorker, NEW a \in Joiner, Retention!Leave(w, a) PROVE Retention!TypeOK'
  <2>1. member' \subseteq Joiner
    BY <1>7, LeaveAssumption DEF Retention!Leave, Retention!TypeOK
  <2>2. at' \in [LeaveWorker -> Retention!PC]
    BY <1>7, LeaveAssumption DEF Retention!Leave, Retention!TypeOK, Retention!Goto, Retention!PC
  <2> QED
    BY <1>7, <2>1, <2>2 DEF Retention!Leave, Retention!TypeOK
<1>8. ASSUME NEW w \in LeaveWorker, NEW a \in Joiner, Retention!Mark(w, a) PROVE Retention!TypeOK'
  BY <1>8 DEF Retention!Mark, Retention!TypeOK, Retention!Goto, Retention!PC
<1>9. ASSUME NEW w \in LeaveWorker, NEW a \in Joiner, Retention!Fail(w, a) PROVE Retention!TypeOK'
  BY <1>9 DEF Retention!Fail, Retention!TypeOK, Retention!Goto, Retention!Finish,
     Retention!PC
<1>10. ASSUME NEW w \in LeaveWorker, NEW a \in Joiner, Retention!Save(w, a) PROVE Retention!TypeOK'
  BY <1>10 DEF Retention!Save, Retention!TypeOK, Retention!Goto, Retention!PC
<1>11. CASE UNCHANGED Retention!vars
  BY <1>11 DEF Retention!vars, Retention!TypeOK
<1> QED
  BY <1>1, <1>2, <1>3, <1>4, <1>5, <1>6, <1>7, <1>8, <1>9, <1>10, <1>11 DEF Retention!Next,
     Retention!Step

(* Due dates only pass, and only due schedules are taken and worked on. *)
LEMMA HeldPreserved == LeaveInv /\ [Retention!Next]_(Retention!vars) => HeldIsDue'
<1> SUFFICES ASSUME LeaveInv, [Retention!Next]_(Retention!vars) PROVE HeldIsDue'
  OBVIOUS
<1> USE DEF LeaveInv, Retention!TypeOK, HeldIsDue
<1>1. CASE Retention!EnqueueDue
  BY <1>1 DEF Retention!EnqueueDue
<1>2. ASSUME NEW a \in Joiner, Retention!FallDue(a) PROVE HeldIsDue'
  BY <1>2 DEF Retention!FallDue
<1>3. ASSUME NEW w \in LeaveWorker, Retention!Crash(w) PROVE HeldIsDue'
  BY <1>3 DEF Retention!Crash, Retention!Finish
<1>4. ASSUME NEW w \in LeaveWorker, NEW a \in Joiner, Retention!Take(w, a) PROVE HeldIsDue'
  BY <1>4 DEF Retention!Take, Retention!Due
<1>5. ASSUME NEW w \in LeaveWorker, Retention!Check(w) \/ Retention!LoadJob(w) \/ Retention!CompleteJob(w) \/ Retention!Notify(w) PROVE HeldIsDue'
  BY <1>5 DEF Retention!Check, Retention!LoadJob, Retention!CompleteJob, Retention!Notify,
     Retention!Finish
<1>6. ASSUME NEW w \in LeaveWorker, NEW a \in Joiner, Retention!Claim(w, a) PROVE HeldIsDue'
  BY <1>6 DEF Retention!Claim, Retention!At
<1>7. ASSUME NEW w \in LeaveWorker, NEW a \in Joiner, Retention!Leave(w, a) \/ Retention!Mark(w, a) PROVE HeldIsDue'
  BY <1>7, LeaveAssumption DEF Retention!Leave, Retention!Mark
<1>8. ASSUME NEW w \in LeaveWorker, NEW a \in Joiner, Retention!Fail(w, a) \/ Retention!Save(w, a) PROVE HeldIsDue'
  BY <1>8 DEF Retention!Fail, Retention!Save, Retention!Finish, Retention!At
<1>9. CASE UNCHANGED Retention!vars
  BY <1>9 DEF Retention!vars
<1> QED
  BY <1>1, <1>2, <1>3, <1>4, <1>5, <1>6, <1>7, <1>8, <1>9 DEF Retention!Next, Retention!Step

(* An account that left stays away, one recorded as left stays recorded. *)
LEMMA LeftPreserved == LeaveInv /\ [Retention!Next]_(Retention!vars) => (LeftFirst /\ Retention!LeftHasLeft)'
<1> SUFFICES ASSUME LeaveInv, [Retention!Next]_(Retention!vars) PROVE (LeftFirst /\ Retention!LeftHasLeft)'
  OBVIOUS
<1> USE DEF LeaveInv, Retention!TypeOK, LeftFirst, Retention!LeftHasLeft, Retention!At
<1>1. CASE Retention!EnqueueDue
  BY <1>1 DEF Retention!EnqueueDue
<1>2. ASSUME NEW a \in Joiner, Retention!FallDue(a) PROVE (LeftFirst /\ Retention!LeftHasLeft)'
  BY <1>2 DEF Retention!FallDue
<1>3. ASSUME NEW w \in LeaveWorker, Retention!Crash(w) PROVE (LeftFirst /\ Retention!LeftHasLeft)'
  BY <1>3 DEF Retention!Crash, Retention!Finish, Retention!Goto
<1>4. ASSUME NEW w \in LeaveWorker, NEW a \in Joiner, Retention!Take(w, a) PROVE (LeftFirst /\ Retention!LeftHasLeft)'
  BY <1>4 DEF Retention!Take, Retention!Goto
<1>5. ASSUME NEW w \in LeaveWorker, Retention!Check(w) \/ Retention!LoadJob(w) \/ Retention!CompleteJob(w) \/ Retention!Notify(w)
      PROVE  (LeftFirst /\ Retention!LeftHasLeft)'
  BY <1>5 DEF Retention!Check, Retention!LoadJob, Retention!CompleteJob, Retention!Notify,
     Retention!Finish, Retention!Goto
<1>6. ASSUME NEW w \in LeaveWorker, NEW a \in Joiner, Retention!Claim(w, a) PROVE (LeftFirst /\ Retention!LeftHasLeft)'
  BY <1>6 DEF Retention!Claim, Retention!Goto
<1>7. ASSUME NEW w \in LeaveWorker, NEW a \in Joiner, Retention!Leave(w, a) PROVE (LeftFirst /\ Retention!LeftHasLeft)'
  <2>1. member' \subseteq member
    BY <1>7, LeaveAssumption DEF Retention!Leave
  <2>2. at'[w] = "mark" => a \notin member'
    BY <1>7, LeaveAssumption DEF Retention!Leave, Retention!Goto
  <2>3. /\ sched' = sched /\ joined' = joined
        /\ at' = [at EXCEPT ![w] = at'[w]] /\ at'[w] \in {"mark", "fail"}
        /\ sched[w] = {a}
    BY <1>7, LeaveAssumption DEF Retention!Leave, Retention!Goto
  <2> QED
    BY <2>1, <2>2, <2>3
<1>8. ASSUME NEW w \in LeaveWorker, NEW a \in Joiner, Retention!Mark(w, a) PROVE (LeftFirst /\ Retention!LeftHasLeft)'
  BY <1>8 DEF Retention!Mark, Retention!Goto
<1>9. ASSUME NEW w \in LeaveWorker, NEW a \in Joiner, Retention!Fail(w, a) \/ Retention!Save(w, a)
      PROVE  (LeftFirst /\ Retention!LeftHasLeft)'
  BY <1>9 DEF Retention!Fail, Retention!Save, Retention!Finish, Retention!Goto
<1>10. CASE UNCHANGED Retention!vars
  BY <1>10 DEF Retention!vars
<1> QED
  BY <1>1, <1>2, <1>3, <1>4, <1>5, <1>6, <1>7, <1>8, <1>9, <1>10 DEF Retention!Next,
     Retention!Step

(* No row returns to PENDING and no account returns to its group. *)
LEMMA WorkedPreserved == LeaveInv /\ [Retention!Next]_(Retention!vars) => WorkedFirst'
<1> SUFFICES ASSUME LeaveInv, [Retention!Next]_(Retention!vars) PROVE WorkedFirst'
  OBVIOUS
<1> USE DEF LeaveInv, Retention!TypeOK, WorkedFirst, AllWorked, Over
<1>1. CASE Retention!EnqueueDue
  BY <1>1 DEF Retention!EnqueueDue
<1>2. ASSUME NEW a \in Joiner, Retention!FallDue(a) PROVE WorkedFirst'
  BY <1>2 DEF Retention!FallDue
<1>3. ASSUME NEW w \in LeaveWorker, Retention!Crash(w) PROVE WorkedFirst'
  BY <1>3 DEF Retention!Crash, Retention!Finish, Retention!Goto
<1>4. ASSUME NEW w \in LeaveWorker, NEW a \in Joiner, Retention!Take(w, a) PROVE WorkedFirst'
  BY <1>4 DEF Retention!Take, Retention!Goto
<1>5. ASSUME NEW w \in LeaveWorker, Retention!Check(w) PROVE WorkedFirst'
  BY <1>5 DEF Retention!Check, Retention!Finish, Retention!Goto, Retention!NoneOpen,
     Retention!OPEN
<1>6. ASSUME NEW w \in LeaveWorker, Retention!LoadJob(w) \/ Retention!CompleteJob(w) \/ Retention!Notify(w) PROVE WorkedFirst'
  BY <1>6 DEF Retention!LoadJob, Retention!CompleteJob, Retention!Notify, Retention!Finish,
     Retention!Goto
<1>7. ASSUME NEW w \in LeaveWorker, NEW a \in Joiner, Retention!Claim(w, a) PROVE WorkedFirst'
  BY <1>7 DEF Retention!Claim, Retention!Goto
<1>8. ASSUME NEW w \in LeaveWorker, NEW a \in Joiner, Retention!Leave(w, a) \/ Retention!Mark(w, a) PROVE WorkedFirst'
  BY <1>8 DEF Retention!Leave, Retention!Mark, Retention!Goto
<1>9. ASSUME NEW w \in LeaveWorker, NEW a \in Joiner, Retention!Fail(w, a) PROVE WorkedFirst'
  BY <1>9 DEF Retention!Fail, Retention!Finish, Retention!Goto
<1>10. ASSUME NEW w \in LeaveWorker, NEW a \in Joiner, Retention!Save(w, a) PROVE WorkedFirst'
  BY <1>10 DEF Retention!Save, Retention!Goto, LeftFirst, Retention!At
<1>11. CASE UNCHANGED Retention!vars
  BY <1>11 DEF Retention!vars
<1> QED
  BY <1>1, <1>2, <1>3, <1>4, <1>5, <1>6, <1>7, <1>8, <1>9, <1>10, <1>11 DEF Retention!Next,
     Retention!Step

(* The invariant holds in every state. *)
LEMMA LeaveAlways == Retention!Spec => []LeaveInv
<1>1. LeaveInv /\ [Retention!Next]_(Retention!vars) => LeaveInv'
  BY LeaveTypes, HeldPreserved, LeftPreserved, WorkedPreserved DEF LeaveInv
<1> QED
  BY LeaveInit, <1>1, PTL DEF Retention!Spec

(* An account is recorded as LEFT only after it left the target, whatever  *)
(* duplicates and redeliveries of process_auto_leave overlap.              *)
THEOREM LeftIsTrue == Retention!Spec => []LeftHasLeft
<1>1. LeaveInv => LeftHasLeft
  BY DEF LeaveInv, LeftHasLeft
<1> QED
  BY LeaveAlways, <1>1, PTL

(* complete_active_job_if_auto_leaves_done completes the job only after    *)
(* every retention has passed and every schedule was worked on.            *)
THEOREM CompletionIsLast == Retention!Spec => []CompletesLast
<1>1. LeaveInv => CompletesLast
  BY DEF LeaveInv, Retention!TypeOK, HeldIsDue, WorkedFirst, AllWorked,
     CompletesLast, Retention!CompletesLast
<1> QED
  BY LeaveAlways, <1>1, PTL

(* A completed job leaves no account recorded as joined without an error   *)
(* in its schedule row.                                                    *)
THEOREM CompletionAccountsForAll == Retention!Spec => []Retention!CompletedAccountsFor
<1>1. LeaveInv => Retention!CompletedAccountsFor
  BY DEF LeaveInv, Retention!TypeOK, WorkedFirst, AllWorked, Over,
     Retention!CompletedAccountsFor
<1> QED
  BY LeaveAlways, <1>1, PTL

(* No account leaves before its retention has passed. *)
THEOREM RetentionIsKept == Retention!Spec => NoEarlyLeave
<1>1. LeaveInv /\ [Retention!Next]_(Retention!vars) => [\A a \in member \ member' : a \in due]_(Retention!vars)
  <2> SUFFICES ASSUME LeaveInv, Retention!Next, NEW b \in member \ member' PROVE b \in due
    OBVIOUS
  <2>1. PICK w \in LeaveWorker, a \in Joiner : Retention!Leave(w, a)
    BY DEF Retention!Next, Retention!Step, Retention!EnqueueDue, Retention!FallDue,
       Retention!Crash, Retention!Take, Retention!Check, Retention!LoadJob,
       Retention!CompleteJob, Retention!Notify, Retention!Claim, Retention!Mark,
       Retention!Fail, Retention!Save
  <2>2. b = a /\ sched[w] = {a}
    BY <2>1, LeaveAssumption DEF Retention!Leave, Retention!At
  <2> QED
    BY <2>2 DEF LeaveInv, HeldIsDue
<1> QED
  BY LeaveAlways, <1>1, PTL DEF Retention!Spec, NoEarlyLeave, Retention!NoEarlyLeave
=============================================================================
