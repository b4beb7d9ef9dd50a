------------------------- MODULE AccountLoginProofs -------------------------
(***************************************************************************)
(* That the worker processes lose no client of a login, for any calls of   *)
(* the panel, any processes, restarts and timeouts.                        *)
(***************************************************************************)
EXTENDS AccountLogin, SequenceTheorems, TLAPS

(* At work on the pending login. *)
Using(c) == pc[c] \in {"building", "signing", "finishing"}

Beside(c, d) == d # c /\ For[d] = For[c] /\ home[d] = home[c]

(* What a call that has not begun has not done, and where a lock belongs.  *)
Placed(c) ==
    /\ pc[c] = "idle" => c \notin live /\ lock[c] = none
    /\ pc[c] # "idle" => home[c] \in Process
    /\ lock[c] # none => pc[lock[c]] # "idle" /\ home[lock[c]] = home[c]

LocksPlaced ==
    \A p \in Process, s \in Session :
        locks[p][s] # none => pc[locks[p][s]] # "idle" /\ home[locks[p][s]] = p

(* The panel verifies, signs up or cancels what was started.               *)
Staged(c) ==
    /\ pc[c] = "opening" =>
        /\ panel[For[c]] = "none" /\ client[c] = c
        /\ \A d \in Call : pc[d] = "opening" /\ For[d] = For[c] => d = c
    /\ pc[c] = "waiting" => Kind[c] = "verify"
    /\ Using(c) => Kind[c] \in {"verify", "signup"}
    /\ pc[c] \in {"waiting", "saving"} \/ Using(c) => panel[For[c]] # "none"

NothingPending == \A p \in Process, s \in Session : panel[s] = "none" => pending[p][s] = none

(* A verify works on its login under the lock of the table, a signup alone *)
(* in its process, and a client is built where none is pending.            *)
Guarded(c) ==
    For[c] \notin disturbed =>
        /\ pc[c] = "waiting" \/ (Using(c) /\ Kind[c] = "verify") =>
               lock[c] # none /\ lock[c] = locks[home[c]][For[c]]
        /\ Using(c) /\ Kind[c] = "verify" => holder[lock[c]] = c
        /\ Active(c) /\ Kind[c] = "signup" => \A d \in Call : Beside(c, d) => ~Active(d)
        /\ pc[c] = "building" => pending[home[c]][For[c]] = none

Reached(k) ==
    k \in live => For[k] \in disturbed \/ pending[home[k]][For[k]] = k \/ pc[k] = "opening"

LoginInv ==
    /\ TypeOK /\ LocksPlaced /\ NothingPending
    /\ \A c \in Call : Placed(c) /\ Staged(c) /\ Guarded(c) /\ Reached(c)

-----------------------------------------------------------------------------
(* Types.                                                                  *)

LEMMA TypeInit == Init => TypeOK
  BY LoginAssumption DEF Init, TypeOK

LEMMA DoneTyped ==
    ASSUME TypeOK, NEW c \in Call, NEW how \in Ended, Done(c, how)
    PROVE  /\ pc' \in [Call -> Working \cup Ended \cup {"idle", "waiting"}]
           /\ client' \in [Call -> Call \cup {none}] /\ lock' \in [Call -> Call \cup {none}]
  BY DEF TypeOK, Done, Goto

LEMMA EndTyped ==
    ASSUME TypeOK, NEW c \in Call, NEW how \in Ended, End(c, how)
    PROVE  /\ pc' \in [Call -> Working \cup Ended \cup {"idle", "waiting"}]
           /\ client' \in [Call -> Call \cup {none}] /\ lock' \in [Call -> Call \cup {none}]
           /\ holder' \in [Call -> Call \cup {none}]
<1>1. holder' = [l \in Call |-> IF holder[l] = c THEN none ELSE holder[l]]
  BY DEF End
<1>2. holder' \in [Call -> Call \cup {none}]
  BY <1>1 DEF TypeOK
<1>. QED  BY <1>2, DoneTyped DEF End

LEMMA ForgetTyped ==
    ASSUME TypeOK, NEW p \in Process \cup {none}, NEW s \in Session, NEW c \in Call, Forget(p, s, c)
    PROVE  /\ pending' \in [Process -> [Session -> Call \cup {none}]]
           /\ locks' \in [Process -> [Session -> Call \cup {none}]]
           /\ live' \in SUBSET Call /\ disturbed' \in SUBSET Session
  BY DEF TypeOK, Forget

LEMMA TakeTyped ==
    ASSUME TypeOK, NEW c \in Call, NEW p \in Process, TakeClient(c, p)
    PROVE  /\ pc' \in [Call -> Working \cup Ended \cup {"idle", "waiting"}]
           /\ client' \in [Call -> Call \cup {none}]
<1>1. pending[p][For[c]] \in Call \cup {none}
  BY LoginAssumption DEF TypeOK
<1>. QED  BY <1>1 DEF TypeOK, TakeClient, Goto, Working

LEMMA ThreadTyped ==
    ASSUME TypeOK, NEW c \in Call, NEW how \in {"saved", "failed"}, ThreadEnds(c, how)
    PROVE  thread' \in [Call -> {"none", "looking", "missed", "saved", "failed"}]
  BY DEF TypeOK, ThreadEnds

LEMMA TypeEnter ==
    ASSUME TypeOK, NEW c \in Call, NEW p \in Process,
           Start(c, p) \/ Verify(c, p) \/ SignUp(c, p) \/ Cancel(c, p)
    PROVE  TypeOK'
<1>0. For[c] \in Session
  BY LoginAssumption
<1>1. CASE Start(c, p)
  BY <1>0, <1>1 DEF TypeOK, Start, Goto, Working, database, rubika, history
<1>2. CASE Verify(c, p)
  <2> DEFINE s == For[c]
             l == IF locks[p][s] = none THEN c ELSE locks[p][s]
  <2>1. l \in Call
    BY <1>0 DEF TypeOK
  <2>2. /\ home' = [home EXCEPT ![c] = p] /\ lock' = [lock EXCEPT ![c] = l]
        /\ locks' = [locks EXCEPT ![p][s] = l] /\ disturbed' = Overlap(c, p)
        /\ UNCHANGED <<pending, live, thread, rows, code, registered, panel, accepted, restarts, timeouts>>
    BY <1>2 DEF Verify, database, rubika
  <2>3. /\ holder' \in [Call -> Call \cup {none}] /\ client' \in [Call -> Call \cup {none}]
        /\ pc' \in [Call -> Working \cup Ended \cup {"idle", "waiting"}]
    <3>1. CASE Free(l) /\ holder' = [holder EXCEPT ![l] = c] /\ TakeClient(c, p)
      <4> HIDE DEF l
      <4>. QED  BY <2>1, <3>1, TakeTyped DEF TypeOK
    <3>2. CASE ~Free(l) /\ Goto(c, "waiting") /\ UNCHANGED <<holder, client>>
      BY <3>2 DEF TypeOK, Goto
    <3>. QED  BY <1>2, <3>1, <3>2 DEF Verify
  <2>4. home' \in [Call -> Process \cup {none}] /\ disturbed' \in SUBSET Session
    BY <1>0, <2>2 DEF TypeOK, Overlap
  <2> HIDE DEF l
  <2>5. lock' \in [Call -> Call \cup {none}] /\ locks' \in [Process -> [Session -> Call \cup {none}]]
    BY <1>0, <2>1, <2>2 DEF TypeOK
  <2>. QED  BY <2>2, <2>3, <2>4, <2>5 DEF TypeOK
<1>3. CASE SignUp(c, p)
  <2>1. /\ client' \in [Call -> Call \cup {none}]
        /\ pc' \in [Call -> Working \cup Ended \cup {"idle", "waiting"}]
    BY <1>3, TakeTyped DEF SignUp
  <2>. QED  BY <1>0, <1>3, <2>1 DEF TypeOK, SignUp, Overlap, memory, database, rubika
<1>4. CASE Cancel(c, p)
  BY <1>0, <1>4 DEF TypeOK, Cancel, Goto, Ended, database, rubika
<1>. QED  BY <1>1, <1>2, <1>3, <1>4

LEMMA TypeStep ==
    ASSUME TypeOK, NEW c \in Call, Step(c), pc[c] # "idle" => home[c] \in Process
    PROVE  TypeOK'
<1>0. For[c] \in Session /\ home[c] \in Process \cup {none} /\ lock[c] \in Call \cup {none}
  BY LoginAssumption DEF TypeOK
<1> USE <1>0 DEF memory, calls, database, rubika, history
<1>1. CASE CodeSent(c)
  BY <1>1, EndTyped DEF TypeOK, CodeSent, Ended
<1>2. CASE CodeNotSent(c)
  BY <1>2, EndTyped DEF TypeOK, CodeNotSent, Fail, Ended
<1>3. CASE Acquire(c)
  <2>1. TakeClient(c, home[c]) /\ home[c] \in Process
    BY <1>3 DEF Acquire
  <2>. QED  BY <1>3, <2>1, TakeTyped DEF TypeOK, Acquire
<1>4. CASE Built(c)
  BY <1>4 DEF TypeOK, Built, Goto, Working
<1>5. CASE NotBuilt(c)
  BY <1>5, EndTyped DEF TypeOK, NotBuilt, Fail, Ended
<1>6. CASE SignedIn(c)
  BY <1>6 DEF TypeOK, SignedIn, Goto, Working
<1>7. CASE NeedsName(c)
  BY <1>7, EndTyped DEF TypeOK, NeedsName, Ended
<1>8. CASE Refused(c)
  BY <1>8, EndTyped DEF TypeOK, Refused, Fail, Ended
<1>9. CASE Broken(c)
  <2>1. code' \in [Session -> {"none", "sent", "used"}] /\ registered' \in BOOLEAN
    BY <1>9 DEF TypeOK, Broken
  <2>. QED  BY <1>9, <2>1, EndTyped, ForgetTyped DEF TypeOK, Broken, Fail, Ended
<1>10. CASE Export(c)
  BY <1>10, ForgetTyped DEF TypeOK, Export, Goto, Working
<1>11. CASE StoreClosed(c)
  BY <1>11, EndTyped DEF TypeOK, StoreClosed, Fail, Ended
<1>12. CASE Refresh(c)
  <2>1. rows' \in Seq(Session)
    <3>1. rows \in Seq(Session) /\ Len(rows) \in 1 .. Len(rows)
      BY <1>12 DEF TypeOK, Refresh
    <3>2. rows' = [rows EXCEPT ![Len(rows)] = For[c]]
      BY <1>12 DEF Refresh
    <3>. QED  BY <3>1, <3>2, ExceptSeq
  <2>. QED  BY <1>12, <2>1, ThreadTyped DEF TypeOK, Refresh
<1>13. CASE Miss(c)
  BY <1>13 DEF TypeOK, Miss
<1>14. CASE Create(c)
  <2>1. rows' \in Seq(Session)
    <3>1. rows' = rows \/ rows' = Append(rows, For[c])
      BY <1>14 DEF Create
    <3>2. rows \in Seq(Session)
      BY DEF TypeOK
    <3>. QED  BY <3>1, <3>2
  <2>2. thread' \in [Call -> {"none", "looking", "missed", "saved", "failed"}]
    BY <1>14, ThreadTyped DEF Create
  <2>. QED  BY <1>14, <2>1, <2>2 DEF TypeOK, Create
<1>15. CASE Saved(c)
  <2>1. End(c, "ok") \/ End(c, "failed")
    BY <1>15 DEF Saved, Fail
  <2>2. thread' \in [Call -> {"none", "looking", "missed", "saved", "failed"}]
    BY <1>15 DEF TypeOK, Saved
  <2>. QED  BY <1>15, <2>1, <2>2, EndTyped DEF TypeOK, Saved, Ended
<1>. QED  BY <1>1, <1>2, <1>3, <1>4, <1>5, <1>6, <1>7, <1>8, <1>9, <1>10, <1>11, <1>12, <1>13, <1>14, <1>15 DEF Step

LEMMA TypeRest ==
    ASSUME TypeOK, (\E c \in Call : TimeOut(c)) \/ (\E p \in Process : Restart(p)) PROVE TypeOK'
<1>1. ASSUME NEW c \in Call, TimeOut(c) PROVE TypeOK'
  <2>1. timeouts' \in 0 .. MaxTimeouts /\ For[c] \in Session
    BY <1>1, LoginAssumption DEF TypeOK, TimeOut
  <2>. QED  BY <1>1, <2>1, EndTyped DEF TypeOK, TimeOut, Fail, Ended, database, rubika
<1>2. ASSUME NEW p \in Process, Restart(p) PROVE TypeOK'
  <2> DEFINE here == {c \in Call : home[c] = p}
  <2>1. restarts' \in 0 .. MaxRestarts
    BY <1>2, LoginAssumption DEF TypeOK, Restart
  <2>2. /\ pending' = [pending EXCEPT ![p] = [s \in Session |-> none]]
        /\ locks' = [locks EXCEPT ![p] = [s \in Session |-> none]]
        /\ live' = live \ here
        /\ holder' = [l \in Call |-> IF l \in here THEN none ELSE holder[l]]
        /\ disturbed' = disturbed \cup {For[c] : c \in {d \in here : Active(d) \/ thread[d] # "none"}}
        /\ pc' = [c \in Call |-> IF c \in here /\ Active(c) THEN "failed" ELSE pc[c]]
        /\ thread' = [c \in Call |-> IF c \in here THEN "none" ELSE thread[c]]
        /\ client' = [c \in Call |-> IF c \in here THEN none ELSE client[c]]
        /\ lock' = [c \in Call |-> IF c \in here THEN none ELSE lock[c]]
        /\ UNCHANGED <<home, rows, code, registered, panel, accepted, timeouts>>
    BY <1>2 DEF Restart, rubika
  <2>3. disturbed' \in SUBSET Session
    BY <2>2, LoginAssumption DEF TypeOK
  <2> HIDE DEF here
  <2>. QED  BY <2>1, <2>2, <2>3 DEF TypeOK, Ended
<1>. QED  BY <1>1, <1>2

-----------------------------------------------------------------------------
(* What keeps the invariant.                                               *)

Same(d) == pc'[d] = pc[d] /\ home'[d] = home[d] /\ lock'[d] = lock[d] /\ client'[d] = client[d]

(* No call uses a login beside another, unless they disturb each other.    *)
LEMMA AloneAtWork ==
    ASSUME LoginInv, NEW c \in Call, NEW d \in Call, Using(c), Using(d), Beside(c, d)
    PROVE  For[c] \in disturbed
<1>1. Staged(c) /\ Staged(d) /\ Guarded(c) /\ Guarded(d)
  BY DEF LoginInv
<1>2. ASSUME For[c] \notin disturbed PROVE FALSE
  <2>1. Kind[c] = "verify" /\ Kind[d] = "verify"
    BY <1>1, <1>2 DEF Staged, Guarded, Beside, Using, Active, Working
  <2>2. lock[c] = lock[d] /\ holder[lock[c]] = c /\ holder[lock[d]] = d
    BY <1>1, <1>2, <2>1 DEF Guarded, Beside
  <2>. QED  BY <2>2 DEF Beside
<1>. QED  BY <1>2

(* A call that is over leaves the others as they are. *)
LEMMA EndKeeps ==
    ASSUME LoginInv, NEW c \in Call, NEW how \in Ended, End(c, how), pc[c] # "idle",
           UNCHANGED <<home, pending, locks>>, disturbed \subseteq disturbed',
           \A s \in Session : panel'[s] = "none" <=> panel[s] = "none",
           live' \subseteq live \cup {c}, c \in live' => For[c] \in disturbed' \/ (c \in live /\ pc[c] # "opening")
    PROVE  /\ LocksPlaced' /\ NothingPending'
           /\ \A d \in Call : Placed(d)' /\ Staged(d)' /\ Guarded(d)' /\ Reached(d)'
<1>1. /\ pc'[c] \in Ended /\ lock'[c] = none /\ home'[c] = home[c]
      /\ \A d \in Call \ {c} : Same(d)
      /\ \A l \in Call : holder'[l] = IF holder[l] = c THEN none ELSE holder[l]
  BY DEF LoginInv, TypeOK, End, Done, Goto, Same
<1>2. TypeOK /\ \A d \in Call : For[d] \in Session /\ Placed(d) /\ Staged(d) /\ Guarded(d) /\ Reached(d)
  BY LoginAssumption DEF LoginInv
<1>3. LocksPlaced' /\ NothingPending'
  BY <1>1 DEF LoginInv, TypeOK, LocksPlaced, NothingPending, Same, Ended
<1>4. ASSUME NEW d \in Call PROVE Placed(d)' /\ Staged(d)' /\ Guarded(d)' /\ Reached(d)'
  <2>1. Placed(d)'
    BY <1>1, <1>2 DEF TypeOK, Placed, Same, Ended
  <2>2. Staged(d)'
    BY <1>1, <1>2 DEF Staged, Same, Using, Ended
  <2>3. Guarded(d)'
    BY <1>1, <1>2 DEF TypeOK, Guarded, Same, Using, Active, Working, Beside, Ended
  <2>4. Reached(d)'
    BY <1>1, <1>2 DEF Reached, Same, Ended
  <2>. QED  BY <2>1, <2>2, <2>3, <2>4
<1>. QED  BY <1>3, <1>4

(* A call goes on under way, with the same login. *)
LEMMA GoneOn ==
    ASSUME LoginInv, NEW c \in Call, NEW point \in {"signing", "finishing"}, Using(c), Goto(c, point),
           UNCHANGED <<home, client, lock, pending, locks, holder, live, panel, disturbed>>
    PROVE  /\ LocksPlaced' /\ NothingPending'
           /\ \A d \in Call : Placed(d)' /\ Staged(d)' /\ Guarded(d)' /\ Reached(d)'
<1>1. pc'[c] = point /\ \A d \in Call \ {c} : pc'[d] = pc[d]
  BY DEF LoginInv, TypeOK, Goto
<1>2. TypeOK /\ \A d \in Call : For[d] \in Session /\ Placed(d) /\ Staged(d) /\ Guarded(d) /\ Reached(d)
  BY LoginAssumption DEF LoginInv
<1>3. LocksPlaced' /\ NothingPending'
  BY <1>1 DEF LoginInv, TypeOK, LocksPlaced, NothingPending
<1>4. ASSUME NEW d \in Call PROVE Placed(d)' /\ Staged(d)' /\ Guarded(d)' /\ Reached(d)'
  <2>1. Placed(d)'
    BY <1>1, <1>2 DEF TypeOK, Placed, Using
  <2>2. Staged(d)'
    BY <1>1, <1>2 DEF Staged, Using
  <2>3. Guarded(d)'
    BY <1>1, <1>2 DEF TypeOK, Guarded, Using, Active, Working, Beside
  <2>4. Reached(d)'
    BY <1>1, <1>2 DEF Reached, Using
  <2>. QED  BY <2>1, <2>2, <2>3, <2>4
<1>. QED  BY <1>3, <1>4

(* A client is built where none was pending, or after a disturbance.       *)
LEMMA BuiltKeeps ==
    ASSUME LoginInv, NEW c \in Call, Built(c)
    PROVE  /\ LocksPlaced' /\ NothingPending'
           /\ \A d \in Call : Placed(d)' /\ Staged(d)' /\ Guarded(d)' /\ Reached(d)'
<1> DEFINE p == home[c]
           s == For[c]
<1>1. TypeOK /\ \A d \in Call : For[d] \in Session /\ Placed(d) /\ Staged(d) /\ Guarded(d) /\ Reached(d)
  BY LoginAssumption DEF LoginInv
<1>2. /\ pc[c] = "building" /\ p \in Process /\ s \in Session /\ panel[s] # "none"
      /\ Kind[c] \in {"verify", "signup"} /\ Using(c)
  BY <1>1 DEF Built, Placed, Staged, Using
<1>3. /\ pc'[c] = "signing" /\ \A d \in Call \ {c} : pc'[d] = pc[d]
      /\ pending'[p][s] = c /\ live' = live \cup {c}
      /\ \A q \in Process, t \in Session : (q # p \/ t # s) => pending'[q][t] = pending[q][t]
      /\ UNCHANGED <<home, lock, locks, holder, panel, disturbed>>
  BY <1>2 DEF LoginInv, TypeOK, Built, Goto, history
<1>4. \A d \in Call \ {c} : client'[d] = client[d]
  BY DEF LoginInv, TypeOK, Built
<1>5. LocksPlaced' /\ NothingPending'
  BY <1>2, <1>3 DEF LoginInv, TypeOK, LocksPlaced, NothingPending
<1>6. ASSUME NEW d \in Call PROVE Placed(d)' /\ Staged(d)' /\ Guarded(d)' /\ Reached(d)'
  <2>1. Placed(d)'
    BY <1>1, <1>2, <1>3 DEF TypeOK, Placed
  <2>2. Staged(d)'
    BY <1>1, <1>2, <1>3, <1>4 DEF Staged, Using
  <2>3. Guarded(d)'
    <3>1. CASE d = c
      BY <1>1, <1>2, <1>3, <3>1 DEF TypeOK, Guarded, Using, Active, Working, Beside
    <3>2. CASE d # c
      <4>1. pc[d] = "building" /\ home[d] = p /\ For[d] = s => s \in disturbed
        BY <1>2, <3>2, AloneAtWork DEF Using, Beside
      <4>. QED  BY <1>1, <1>2, <1>3, <3>2, <4>1 DEF TypeOK, Guarded, Placed, Using, Active, Working, Beside
    <3>. QED  BY <3>1, <3>2
  <2>4. Reached(d)'
    <3>1. CASE d = c
      BY <1>2, <1>3, <3>1 DEF Reached
    <3>2. CASE d # c
      <4>1. s \notin disturbed => pending[p][s] = none
        BY <1>1, <1>2 DEF Guarded
      <4>2. d \in live => home[d] \in Process
        BY <1>1 DEF Placed
      <4>. QED  BY <1>1, <1>2, <1>3, <3>2, <4>1, <4>2, LoginAssumption DEF Reached
    <3>. QED  BY <3>1, <3>2
  <2>. QED  BY <2>1, <2>2, <2>3, <2>4
<1>. QED  BY <1>5, <1>6

(* The first client of a login finds nothing to displace.                  *)
LEMMA CodeSentKeeps ==
    ASSUME LoginInv, NEW c \in Call, CodeSent(c)
    PROVE  /\ LocksPlaced' /\ NothingPending'
           /\ \A d \in Call : Placed(d)' /\ Staged(d)' /\ Guarded(d)' /\ Reached(d)'
<1> DEFINE p == home[c]
           s == For[c]
<1>1. TypeOK /\ \A d \in Call : For[d] \in Session /\ Placed(d) /\ Staged(d) /\ Guarded(d) /\ Reached(d)
  BY LoginAssumption DEF LoginInv
<1>2. /\ pc[c] = "opening" /\ p \in Process /\ s \in Session /\ panel[s] = "none" /\ pending[p][s] = none
      /\ \A d \in Call : For[d] = s /\ pc[d] = "opening" => d = c
  BY <1>1 DEF CodeSent, Placed, Staged, LoginInv, NothingPending
<1>3. /\ pc'[c] = "ok" /\ lock'[c] = none /\ home'[c] = home[c] /\ \A d \in Call \ {c} : Same(d)
      /\ \A l \in Call : holder'[l] = IF holder[l] = c THEN none ELSE holder[l]
      /\ pending'[p][s] = c
      /\ \A q \in Process, t \in Session : (q # p \/ t # s) => pending'[q][t] = pending[q][t]
      /\ panel'[s] = "started" /\ \A t \in Session \ {s} : panel'[t] = panel[t]
      /\ UNCHANGED <<home, locks, live, disturbed>>
  BY <1>2 DEF LoginInv, TypeOK, CodeSent, End, Done, Goto, history, Same
<1>4. LocksPlaced' /\ NothingPending'
  BY <1>2, <1>3 DEF LoginInv, TypeOK, LocksPlaced, NothingPending, Same
<1>5. ASSUME NEW d \in Call PROVE Placed(d)' /\ Staged(d)' /\ Guarded(d)' /\ Reached(d)'
  <2>1. Placed(d)'
    BY <1>1, <1>2, <1>3 DEF TypeOK, Placed, Same
  <2>2. Staged(d)'
    BY <1>1, <1>2, <1>3 DEF Staged, Using, Same
  <2>3. Guarded(d)'
    <3>1. For[d] = s => ~Using(d)
      BY <1>1, <1>2 DEF Staged
    <3>. QED  BY <1>1, <1>2, <1>3, <3>1 DEF TypeOK, Guarded, Placed, Same, Using, Active, Working, Beside
  <2>4. Reached(d)'
    <3>1. d \in live => home[d] \in Process
      BY <1>1 DEF Placed
    <3>. QED  BY <1>1, <1>2, <1>3, <3>1, LoginAssumption DEF Reached, Same
  <2>. QED  BY <2>1, <2>2, <2>3, <2>4
<1>. QED  BY <1>4, <1>5

(* Whoever forgets the pending login was the only one to use it, and a     *)
(* verify that waits for the lock is disturbed.                            *)
LEMMA ForgetKeeps ==
    ASSUME LoginInv, NEW c \in Call, NEW point \in {"failed", "saving"}, Using(c),
           Forget(home[c], For[c], c), Goto(c, point), UNCHANGED <<home, panel>>,
           \A d \in Call \ {c} : client'[d] = client[d] /\ lock'[d] = lock[d],
           lock'[c] \in {lock[c], none},
           \A l \in Call : holder'[l] = holder[l] \/ holder[l] = c
    PROVE  /\ LocksPlaced' /\ NothingPending'
           /\ \A d \in Call : Placed(d)' /\ Staged(d)' /\ Guarded(d)' /\ Reached(d)'
<1> DEFINE p == home[c]
           s == For[c]
<1>1. TypeOK /\ \A d \in Call : For[d] \in Session /\ Placed(d) /\ Staged(d) /\ Guarded(d) /\ Reached(d)
  BY LoginAssumption DEF LoginInv
<1>2. p \in Process /\ s \in Session /\ panel[s] # "none" /\ pc[c] # "idle"
  BY <1>1 DEF Placed, Staged, Using
<1>3. /\ pc'[c] = point /\ \A d \in Call \ {c} : pc'[d] = pc[d] /\ home'[d] = home[d]
      /\ pending'[p][s] = none /\ live' = live \ {pending[p][s]} /\ locks'[p][s] = none
      /\ \A q \in Process, t \in Session :
             (q # p \/ t # s) => pending'[q][t] = pending[q][t] /\ locks'[q][t] = locks[q][t]
      /\ disturbed \subseteq disturbed' /\ (Splits(p, s, c) => s \in disturbed')
  BY <1>2 DEF LoginInv, TypeOK, Forget, Goto
<1>4. LocksPlaced' /\ NothingPending'
  <2>1. NothingPending'
    BY <1>2, <1>3 DEF LoginInv, NothingPending
  <2>2. ASSUME NEW q \in Process, NEW t \in Session, locks'[q][t] # none
        PROVE  pc'[locks'[q][t]] # "idle" /\ home'[locks'[q][t]] = q
    <3>1. locks'[q][t] = locks[q][t] /\ locks[q][t] \in Call
      BY <1>1, <1>3, <2>2 DEF TypeOK
    <3>2. pc[locks[q][t]] # "idle" /\ home[locks[q][t]] = q
      BY <2>2, <3>1 DEF LoginInv, LocksPlaced
    <3>. QED  BY <1>3, <3>1, <3>2
  <2>. QED  BY <2>1, <2>2 DEF LocksPlaced
<1>5. ASSUME NEW d \in Call PROVE Placed(d)' /\ Staged(d)' /\ Guarded(d)' /\ Reached(d)'
  <2>1. Placed(d)'
    BY <1>1, <1>2, <1>3 DEF TypeOK, Placed
  <2>2. Staged(d)'
    BY <1>1, <1>2, <1>3 DEF Staged, Using
  <2>3. Guarded(d)'
    <3>1. CASE d = c
      BY <1>1, <1>2, <1>3, <3>1 DEF Guarded, Using, Active, Working, Beside
    <3>2. CASE d # c
      <4>1. For[d] = s /\ home[d] = p /\ (Using(d) \/ pc[d] = "waiting") => s \in disturbed'
        <5>1. For[d] = s /\ home[d] = p /\ Using(d) => s \in disturbed'
          BY <1>3, <3>2, AloneAtWork DEF Beside
        <5>2. For[d] = s /\ home[d] = p /\ pc[d] = "waiting" => s \in disturbed'
          BY <1>1, <1>3, <3>2 DEF Guarded, Splits
        <5>. QED  BY <5>1, <5>2
      <4>2. (Using(d)' <=> Using(d)) /\ (Active(d)' <=> Active(d)) /\ pc'[d] = pc[d] /\ lock'[d] = lock[d]
            /\ home'[d] = home[d]
        BY <1>3, <3>2 DEF Using, Active
      <4>3. ASSUME For[d] \notin disturbed' PROVE Guarded(d)'
        <5>1. For[d] \notin disturbed /\ Guarded(d) /\ For[d] \in Session
          BY <1>1, <1>3, <4>3
        <5>2. pc[d] # "idle" => home[d] \in Process
          BY <1>1 DEF Placed
        <5>3. pc'[d] = "waiting" \/ (Using(d)' /\ Kind[d] = "verify") =>
                  lock'[d] # none /\ lock'[d] = locks'[home'[d]][For[d]]
          BY <1>3, <4>1, <4>2, <4>3, <5>1, <5>2 DEF Guarded, Using
        <5>4. Using(d)' /\ Kind[d] = "verify" => holder'[lock'[d]] = d
          BY <1>1, <3>2, <4>2, <5>1 DEF Guarded, TypeOK
        <5>5. Active(d)' /\ Kind[d] = "signup" => \A e \in Call : Beside(d, e)' => ~Active(e)'
          <6>1. \A e \in Call : Beside(d, e)' => Beside(d, e)
            BY DEF Beside
          <6>2. \A e \in Call : Active(e)' => Active(e)
            BY <1>3 DEF Active, Using, Working
          <6>. QED  BY <4>2, <5>1, <6>1, <6>2 DEF Guarded
        <5>6. pc'[d] = "building" => pending'[home'[d]][For[d]] = none
          BY <1>3, <4>1, <4>2, <4>3, <5>1, <5>2 DEF Guarded, Using
        <5>. QED  BY <5>3, <5>4, <5>5, <5>6 DEF Guarded
      <4>. QED  BY <4>3 DEF Guarded
    <3>. QED  BY <3>1, <3>2
  <2>4. Reached(d)'
    <3>1. d \in live => home[d] \in Process
      BY <1>1 DEF Placed
    <3>2. d \in live' => d \in live /\ d # pending[p][s]
      BY <1>3
    <3>3. d = c => pc[d] # "opening"
      BY DEF Using
    <3>. QED  BY <1>1, <1>3, <3>1, <3>2, <3>3 DEF Reached
  <2>. QED  BY <2>1, <2>2, <2>3, <2>4
<1>. QED  BY <1>4, <1>5

(* A call begins, beside others of its login in its process or alone.      *)
LEMMA StartKeeps ==
    ASSUME LoginInv, NEW c \in Call, NEW p \in Process, Start(c, p)
    PROVE  /\ LocksPlaced' /\ NothingPending'
           /\ \A d \in Call : Placed(d)' /\ Staged(d)' /\ Guarded(d)' /\ Reached(d)'
<1>1. TypeOK /\ \A d \in Call : For[d] \in Session /\ Placed(d) /\ Staged(d) /\ Guarded(d) /\ Reached(d)
  BY LoginAssumption DEF LoginInv
<1>2. /\ pc[c] = "idle" /\ Kind[c] = "start" /\ panel[For[c]] = "none"
      /\ \A d \in Call : For[d] = For[c] => pc[d] = "idle"
      /\ pc'[c] = "opening" /\ home'[c] = p /\ client'[c] = c /\ lock'[c] = lock[c]
      /\ \A d \in Call \ {c} : Same(d)
      /\ live' = live \cup {c}
      /\ UNCHANGED <<pending, locks, holder, panel, disturbed>>
  BY DEF LoginInv, TypeOK, Start, Goto, history, Same
<1>3. LocksPlaced' /\ NothingPending'
  BY <1>1, <1>2 DEF LoginInv, TypeOK, LocksPlaced, NothingPending, Same
<1>4. ASSUME NEW d \in Call PROVE Placed(d)' /\ Staged(d)' /\ Guarded(d)' /\ Reached(d)'
  <2>1. Placed(d)'
    BY <1>1, <1>2 DEF TypeOK, Placed, Same
  <2>2. Staged(d)'
    BY <1>1, <1>2 DEF Staged, Using, Same
  <2>3. Guarded(d)'
    <3>1. CASE d = c
      BY <1>2, <3>1 DEF Guarded, Using
    <3>2. CASE d # c
      BY <1>1, <1>2, <3>2 DEF Guarded, Same, Using, Active, Working, Beside
    <3>. QED  BY <3>1, <3>2
  <2>4. Reached(d)'
    BY <1>1, <1>2 DEF Reached, Same
  <2>. QED  BY <2>1, <2>2, <2>3, <2>4
<1>. QED  BY <1>3, <1>4

LEMMA CancelKeeps ==
    ASSUME LoginInv, NEW c \in Call, NEW p \in Process, Cancel(c, p)
    PROVE  /\ LocksPlaced' /\ NothingPending'
           /\ \A d \in Call : Placed(d)' /\ Staged(d)' /\ Guarded(d)' /\ Reached(d)'
<1> DEFINE s == For[c]
<1>1. TypeOK /\ \A d \in Call : For[d] \in Session /\ Placed(d) /\ Staged(d) /\ Guarded(d) /\ Reached(d)
  BY LoginAssumption DEF LoginInv
<1>2. /\ pc[c] = "idle" /\ Kind[c] = "cancel" /\ panel[s] # "none" /\ s \in Session
      /\ pc'[c] = "ok" /\ home'[c] = p /\ lock'[c] = lock[c]
      /\ \A d \in Call \ {c} : Same(d)
      /\ pending'[p][s] = none /\ live' = live \ {pending[p][s]} /\ locks'[p][s] = none
      /\ \A q \in Process, t \in Session :
             (q # p \/ t # s) => pending'[q][t] = pending[q][t] /\ locks'[q][t] = locks[q][t]
      /\ disturbed \subseteq disturbed'
      /\ \A d \in Call : Active(d) /\ For[d] = s /\ home[d] = p => s \in disturbed'
      /\ UNCHANGED <<holder, panel>>
  BY <1>1 DEF TypeOK, Cancel, Goto, Same
<1>3. LocksPlaced' /\ NothingPending'
  <2>1. NothingPending'
    BY <1>2 DEF LoginInv, NothingPending
  <2>2. ASSUME NEW q \in Process, NEW t \in Session, locks'[q][t] # none
        PROVE  pc'[locks'[q][t]] # "idle" /\ home'[locks'[q][t]] = q
    <3>1. locks'[q][t] = locks[q][t] /\ locks[q][t] \in Call
      BY <1>1, <1>2, <2>2 DEF TypeOK
    <3>2. pc[locks[q][t]] # "idle" /\ home[locks[q][t]] = q
      BY <2>2, <3>1 DEF LoginInv, LocksPlaced
    <3>. QED  BY <1>2, <3>1, <3>2 DEF Same
  <2>. QED  BY <2>1, <2>2 DEF LocksPlaced
<1>4. ASSUME NEW d \in Call PROVE Placed(d)' /\ Staged(d)' /\ Guarded(d)' /\ Reached(d)'
  <2>1. Placed(d)'
    BY <1>1, <1>2 DEF TypeOK, Placed, Same
  <2>2. Staged(d)'
    BY <1>1, <1>2 DEF Staged, Using, Same
  <2>3. Guarded(d)'
    <3>1. CASE d = c
      BY <1>2, <3>1 DEF Guarded, Using, Active, Working
    <3>2. CASE d # c
      <4>1. ASSUME For[d] \notin disturbed', Active(d)' PROVE Guarded(d)'
        <5>1. /\ For[d] \notin disturbed /\ Guarded(d) /\ For[d] \in Session /\ Active(d) /\ home[d] \in Process
              /\ (home[d] # p \/ For[d] # s) /\ Same(d)
          BY <1>1, <1>2, <3>2, <4>1 DEF Same, Active, Placed, Working
        <5>2. pending'[home[d]][For[d]] = pending[home[d]][For[d]] /\ locks'[home[d]][For[d]] = locks[home[d]][For[d]]
          BY <1>2, <5>1
        <5>3. \A e \in Call : Beside(d, e)' /\ Active(e)' => Beside(d, e) /\ Active(e)
          BY <1>2, <5>1 DEF Beside, Active, Same, Working
        <5>. QED  BY <1>2, <5>1, <5>2, <5>3 DEF Guarded, Same, Using, Active
      <4>. QED  BY <4>1 DEF Guarded, Using, Active, Working
    <3>. QED  BY <3>1, <3>2
  <2>4. Reached(d)'
    <3>1. d \in live => home[d] \in Process
      BY <1>1 DEF Placed
    <3>2. d \in live' => d \in live /\ d # pending[p][s] /\ d # c
      BY <1>1, <1>2 DEF Placed
    <3>. QED  BY <1>1, <1>2, <3>1, <3>2 DEF Reached, Same
  <2>. QED  BY <2>1, <2>2, <2>3, <2>4
<1>. QED  BY <1>3, <1>4

(* A new verify or signup finds no signup at work beside it, nor a verify  *)
(* beside a signup, or disturbs it.                                        *)
LEMMA Overlaps ==
    ASSUME LoginInv, NEW c \in Call, NEW p \in Process, disturbed' = Overlap(c, p)
    PROVE  /\ disturbed \subseteq disturbed'
           /\ \A d \in Call \ {c} : Active(d) /\ For[d] = For[c] /\ home[d] = p /\ "signup" \in {Kind[c], Kind[d]}
                  => For[c] \in disturbed'
  BY DEF Overlap

LEMMA TakeEffect ==
    ASSUME TypeOK, NEW c \in Call, NEW p \in Process, TakeClient(c, p)
    PROVE  /\ pc'[c] \in {"signing", "building"} /\ (pc'[c] = "building" => pending[p][For[c]] = none)
           /\ \A d \in Call \ {c} : pc'[d] = pc[d] /\ client'[d] = client[d]
  BY DEF TypeOK, TakeClient, Goto

LEMMA SignUpKeeps ==
    ASSUME LoginInv, NEW c \in Call, NEW p \in Process, SignUp(c, p)
    PROVE  /\ LocksPlaced' /\ NothingPending'
           /\ \A d \in Call : Placed(d)' /\ Staged(d)' /\ Guarded(d)' /\ Reached(d)'
<1>1. TypeOK /\ \A d \in Call : For[d] \in Session /\ Placed(d) /\ Staged(d) /\ Guarded(d) /\ Reached(d)
  BY LoginAssumption DEF LoginInv
<1>2. /\ pc[c] = "idle" /\ Kind[c] = "signup" /\ panel[For[c]] # "none"
      /\ home' = [home EXCEPT ![c] = p] /\ disturbed' = Overlap(c, p) /\ TakeClient(c, p)
      /\ UNCHANGED <<lock, pending, locks, holder, live, panel>>
  BY DEF SignUp, memory
<1>3. home'[c] = p /\ \A d \in Call \ {c} : Same(d)
  BY <1>1, <1>2, TakeEffect DEF TypeOK, Same
<1>4. /\ disturbed \subseteq disturbed'
      /\ \A d \in Call \ {c} : Active(d) /\ For[d] = For[c] /\ home[d] = p => For[c] \in disturbed'
  BY <1>2, Overlaps
<1>5. pc'[c] \in {"signing", "building"} /\ (pc'[c] = "building" => pending[p][For[c]] = none)
  BY <1>1, <1>2, TakeEffect
<1>6. LocksPlaced' /\ NothingPending'
  BY <1>1, <1>2, <1>3, <1>5 DEF LoginInv, TypeOK, LocksPlaced, NothingPending, Same
<1>7. ASSUME NEW d \in Call PROVE Placed(d)' /\ Staged(d)' /\ Guarded(d)' /\ Reached(d)'
  <2>1. Placed(d)'
    BY <1>1, <1>2, <1>3, <1>5 DEF TypeOK, Placed, Same
  <2>2. Staged(d)'
    BY <1>1, <1>2, <1>3, <1>5 DEF Staged, Using, Same
  <2>3. Guarded(d)'
    <3>1. CASE d = c
      BY <1>2, <1>3, <1>4, <1>5, <3>1 DEF Guarded, Using, Active, Beside, Same
    <3>2. CASE d # c
      BY <1>1, <1>2, <1>3, <1>4, <3>2 DEF Guarded, Same, Using, Active, Working, Beside
    <3>. QED  BY <3>1, <3>2
  <2>4. Reached(d)'
    BY <1>1, <1>2, <1>3, <1>4 DEF Reached, Placed, Same
  <2>. QED  BY <2>1, <2>2, <2>3, <2>4
<1>. QED  BY <1>6, <1>7

(* The lock is free for a verify only when no other one holds it.          *)
LEMMA VerifyKeeps ==
    ASSUME LoginInv, NEW c \in Call, NEW p \in Process, Verify(c, p)
    PROVE  /\ LocksPlaced' /\ NothingPending'
           /\ \A d \in Call : Placed(d)' /\ Staged(d)' /\ Guarded(d)' /\ Reached(d)'
<1> DEFINE s == For[c]
           l == IF locks[p][s] = none THEN c ELSE locks[p][s]
<1>1. TypeOK /\ \A d \in Call : For[d] \in Session /\ Placed(d) /\ Staged(d) /\ Guarded(d) /\ Reached(d)
  BY LoginAssumption DEF LoginInv
<1>2. /\ pc[c] = "idle" /\ Kind[c] = "verify" /\ panel[s] # "none" /\ s \in Session
      /\ home' = [home EXCEPT ![c] = p] /\ lock' = [lock EXCEPT ![c] = l]
      /\ locks' = [locks EXCEPT ![p][s] = l] /\ disturbed' = Overlap(c, p)
      /\ \/ Free(l) /\ holder' = [holder EXCEPT ![l] = c] /\ TakeClient(c, p)
         \/ ~Free(l) /\ Goto(c, "waiting") /\ UNCHANGED <<holder, client>>
      /\ UNCHANGED <<pending, live, panel>>
  BY <1>1 DEF Verify
<1>3. /\ l \in Call /\ l # none /\ (locks[p][s] # none => l = locks[p][s])
      /\ (l = c \/ (pc[l] # "idle" /\ home[l] = p /\ l # c))
  BY <1>1, <1>2, LoginAssumption DEF LoginInv, LocksPlaced, TypeOK
<1> HIDE DEF l
<1>4. \/ /\ holder[l] = none /\ holder'[l] = c /\ \A m \in Call \ {l} : holder'[m] = holder[m]
         /\ pc'[c] \in {"signing", "building"} /\ (pc'[c] = "building" => pending[p][s] = none)
      \/ pc'[c] = "waiting" /\ holder' = holder
  BY <1>1, <1>2, <1>3, TakeEffect DEF TypeOK, Free, Goto
<1>5. /\ home'[c] = p /\ lock'[c] = l /\ locks'[p][s] = l /\ \A d \in Call \ {c} : Same(d)
      /\ \A q \in Process, t \in Session : (q # p \/ t # s) => locks'[q][t] = locks[q][t]
  BY <1>1, <1>2, TakeEffect DEF TypeOK, Same, Goto
<1>6. /\ disturbed \subseteq disturbed'
      /\ \A d \in Call \ {c} : Active(d) /\ For[d] = s /\ home[d] = p /\ Kind[d] = "signup" => s \in disturbed'
  BY <1>2, Overlaps
<1>7. LocksPlaced' /\ NothingPending'
  <2>1. NothingPending'
    BY <1>2 DEF LoginInv, NothingPending
  <2>2. ASSUME NEW q \in Process, NEW t \in Session, locks'[q][t] # none
        PROVE  pc'[locks'[q][t]] # "idle" /\ home'[locks'[q][t]] = q
    <3>1. CASE q = p /\ t = s
      BY <1>3, <1>4, <1>5, <3>1 DEF Same
    <3>2. CASE ~(q = p /\ t = s)
      <4>1. locks'[q][t] = locks[q][t] /\ locks[q][t] \in Call
        BY <1>1, <1>5, <2>2, <3>2 DEF TypeOK
      <4>2. pc[locks[q][t]] # "idle" /\ home[locks[q][t]] = q
        BY <2>2, <4>1 DEF LoginInv, LocksPlaced
      <4>. QED  BY <1>2, <1>5, <4>1, <4>2 DEF Same
    <3>. QED  BY <3>1, <3>2
  <2>. QED  BY <2>1, <2>2 DEF LocksPlaced
<1>8. ASSUME NEW d \in Call PROVE Placed(d)' /\ Staged(d)' /\ Guarded(d)' /\ Reached(d)'
  <2>1. Placed(d)'
    <3>1. CASE d = c
      BY <1>3, <1>4, <1>5, <3>1 DEF Placed, Same
    <3>2. CASE d # c
      <4>1. lock[d] # none => lock[d] \in Call /\ lock[d] # c
        BY <1>1, <1>2 DEF TypeOK, Placed
      <4>. QED  BY <1>1, <1>2, <1>5, <3>2, <4>1 DEF Placed, Same
    <3>. QED  BY <3>1, <3>2
  <2>2. Staged(d)'
    BY <1>1, <1>2, <1>4, <1>5 DEF Staged, Using, Same
  <2>3. Guarded(d)'
    <3>1. CASE d = c
      BY <1>2, <1>3, <1>4, <1>5, <3>1 DEF Guarded, Using
    <3>2. CASE d # c
      <4>1. ASSUME For[d] \notin disturbed', Active(d)' PROVE Guarded(d)'
        <5>1. /\ For[d] \notin disturbed /\ Guarded(d) /\ For[d] \in Session /\ Active(d) /\ home[d] \in Process
              /\ Same(d)
          BY <1>1, <1>5, <1>6, <3>2, <4>1 DEF Same, Active, Placed, Working
        <5>2. pc[d] = "waiting" \/ (Using(d) /\ Kind[d] = "verify") => locks'[home[d]][For[d]] = locks[home[d]][For[d]]
          BY <1>3, <1>5, <5>1 DEF Guarded
        <5>3. Using(d) /\ Kind[d] = "verify" => holder'[lock[d]] = holder[lock[d]]
          <6>1. Using(d) /\ Kind[d] = "verify" => lock[d] \in Call /\ holder[lock[d]] = d /\ d # none
            BY <1>1, <5>1, LoginAssumption DEF Guarded, TypeOK
          <6>. QED  BY <1>4, <6>1
        <5>4. Kind[d] = "signup" => \A e \in Call : Beside(d, e)' => ~Active(e)'
          <6>1. Kind[d] = "signup" => ~(For[d] = s /\ home[d] = p)
            BY <1>6, <3>2, <4>1, <5>1
          <6>. QED  BY <1>5, <5>1, <6>1 DEF Guarded, Beside, Active, Same
        <5>. QED  BY <1>2, <5>1, <5>2, <5>3, <5>4 DEF Guarded, Same, Using
      <4>. QED  BY <4>1 DEF Guarded, Using, Active, Working
    <3>. QED  BY <3>1, <3>2
  <2>4. Reached(d)'
    BY <1>1, <1>2, <1>5, <1>6 DEF Reached, Placed, Same
  <2>. QED  BY <2>1, <2>2, <2>3, <2>4
<1>. QED  BY <1>7, <1>8

(* A waiting verify gets the lock when nobody holds it: no other verify is *)
(* at work on the login.                                                   *)
LEMMA AcquireKeeps ==
    ASSUME LoginInv, NEW c \in Call, Acquire(c)
    PROVE  /\ LocksPlaced' /\ NothingPending'
           /\ \A d \in Call : Placed(d)' /\ Staged(d)' /\ Guarded(d)' /\ Reached(d)'
<1> DEFINE p == home[c]
           s == For[c]
<1>1. TypeOK /\ \A d \in Call : For[d] \in Session /\ Placed(d) /\ Staged(d) /\ Guarded(d) /\ Reached(d)
  BY LoginAssumption DEF LoginInv
<1>2. /\ pc[c] = "waiting" /\ holder[lock[c]] = none /\ holder' = [holder EXCEPT ![lock[c]] = c]
      /\ TakeClient(c, p) /\ p \in Process /\ s \in Session /\ Kind[c] = "verify" /\ panel[s] # "none"
      /\ UNCHANGED <<home, lock, pending, locks, live, panel, disturbed>>
  BY <1>1 DEF Acquire, history, Placed, Staged
<1>3. /\ pc'[c] \in {"signing", "building"} /\ (pc'[c] = "building" => pending[p][s] = none)
      /\ \A d \in Call \ {c} : Same(d)
  BY <1>1, <1>2, TakeEffect DEF Same
<1>4. /\ lock[c] \in Call => holder'[lock[c]] = c
      /\ \A m \in Call : m # lock[c] => holder'[m] = holder[m]
  BY <1>1, <1>2 DEF TypeOK
<1>5. LocksPlaced' /\ NothingPending'
  BY <1>1, <1>2, <1>3 DEF LoginInv, TypeOK, LocksPlaced, NothingPending, Same
<1>6. ASSUME NEW d \in Call PROVE Placed(d)' /\ Staged(d)' /\ Guarded(d)' /\ Reached(d)'
  <2>1. Placed(d)'
    <3>1. lock[d] # none => lock[d] \in Call
      BY <1>1 DEF TypeOK
    <3>. QED  BY <1>1, <1>2, <1>3, <3>1 DEF Placed, Same
  <2>2. Staged(d)'
    BY <1>1, <1>2, <1>3 DEF Staged, Using, Same
  <2>3. Guarded(d)'
    <3>1. CASE d = c
      <4>1. For[c] \notin disturbed => lock[c] \in Call /\ lock[c] # none /\ lock[c] = locks[p][s]
        BY <1>1, <1>2 DEF Guarded, TypeOK
      <4>. QED  BY <1>2, <1>3, <1>4, <3>1, <4>1 DEF Guarded, Using
    <3>2. CASE d # c
      <4>1. For[d] \notin disturbed /\ Using(d) /\ Kind[d] = "verify" => holder'[lock[d]] = d
        <5>1. For[d] \notin disturbed /\ Using(d) /\ Kind[d] = "verify" =>
                  lock[d] \in Call /\ holder[lock[d]] = d /\ d # none
          BY <1>1, LoginAssumption DEF Guarded, TypeOK
        <5>. QED  BY <1>2, <1>4, <5>1
      <4>2. \A e \in Call : Active(e)' => Active(e)
        BY <1>2, <1>3 DEF Active, Same
      <4>. QED  BY <1>1, <1>2, <1>3, <3>2, <4>1, <4>2 DEF Guarded, Same, Using, Active, Beside
    <3>. QED  BY <3>1, <3>2
  <2>4. Reached(d)'
    BY <1>1, <1>2, <1>3 DEF Reached, Same
  <2>. QED  BY <2>1, <2>2, <2>3, <2>4
<1>. QED  BY <1>5, <1>6

(* A process that dies takes its clients, and the locks of its calls.      *)
LEMMA RestartKeeps ==
    ASSUME LoginInv, NEW p \in Process, Restart(p)
    PROVE  /\ LocksPlaced' /\ NothingPending'
           /\ \A d \in Call : Placed(d)' /\ Staged(d)' /\ Guarded(d)' /\ Reached(d)'
<1>1. TypeOK /\ \A d \in Call : For[d] \in Session /\ Placed(d) /\ Staged(d) /\ Guarded(d) /\ Reached(d)
  BY LoginAssumption DEF LoginInv
<1>2. /\ pending' = [pending EXCEPT ![p] = [s \in Session |-> none]]
      /\ locks' = [locks EXCEPT ![p] = [s \in Session |-> none]]
      /\ live' = live \ {c \in Call : home[c] = p}
      /\ holder' = [l \in Call |-> IF home[l] = p THEN none ELSE holder[l]]
      /\ pc' = [c \in Call |-> IF home[c] = p /\ Active(c) THEN "failed" ELSE pc[c]]
      /\ client' = [c \in Call |-> IF home[c] = p THEN none ELSE client[c]]
      /\ lock' = [c \in Call |-> IF home[c] = p THEN none ELSE lock[c]]
      /\ disturbed \subseteq disturbed' /\ UNCHANGED <<home, panel>>
  BY DEF Restart
<1>3. /\ \A c \in Call : home[c] = p => ~Active(c)' /\ pc'[c] # "opening" /\ lock'[c] = none
      /\ \A c \in Call : home[c] # p => Same(c) /\ holder'[c] = holder[c]
      /\ \A c \in Call : (pc'[c] = "idle" <=> pc[c] = "idle") /\ (Active(c)' => Active(c))
      /\ \A s \in Session : pending'[p][s] = none /\ locks'[p][s] = none
      /\ \A q \in Process \ {p} : pending'[q] = pending[q] /\ locks'[q] = locks[q]
  BY <1>1, <1>2 DEF TypeOK, Same, Active, Working
<1>4. LocksPlaced' /\ NothingPending'
  <2>1. NothingPending'
    BY <1>2, <1>3 DEF LoginInv, NothingPending
  <2>2. ASSUME NEW q \in Process, NEW t \in Session, locks'[q][t] # none
        PROVE  pc'[locks'[q][t]] # "idle" /\ home'[locks'[q][t]] = q
    <3>1. locks'[q][t] = locks[q][t] /\ locks[q][t] \in Call
      BY <1>1, <1>3, <2>2 DEF TypeOK
    <3>2. pc[locks[q][t]] # "idle" /\ home[locks[q][t]] = q
      BY <2>2, <3>1 DEF LoginInv, LocksPlaced
    <3>. QED  BY <1>2, <1>3, <3>1, <3>2
  <2>. QED  BY <2>1, <2>2 DEF LocksPlaced
<1>5. ASSUME NEW d \in Call PROVE Placed(d)' /\ Staged(d)' /\ Guarded(d)' /\ Reached(d)'
  <2>1. lock[d] # none => lock[d] \in Call
    BY <1>1 DEF TypeOK
  <2>2. Placed(d)'
    BY <1>1, <1>2, <1>3, <2>1 DEF Placed, Same
  <2>3. Staged(d)'
    <3>1. CASE home[d] = p
      BY <1>3, <3>1 DEF Staged, Using, Active, Working
    <3>2. CASE home[d] # p
      BY <1>1, <1>2, <1>3, <3>2 DEF Staged, Using, Same
    <3>. QED  BY <3>1, <3>2
  <2>4. Guarded(d)'
    <3>1. CASE home[d] = p
      BY <1>3, <3>1 DEF Guarded, Using, Active, Working
    <3>2. CASE home[d] # p
      <4>1. pc[d] # "idle" => pending'[home[d]] = pending[home[d]] /\ locks'[home[d]] = locks[home[d]]
        BY <1>1, <1>3, <3>2 DEF Placed
      <4>2. lock[d] # none => holder'[lock[d]] = holder[lock[d]]
        BY <1>1, <1>3, <2>1, <3>2 DEF Placed
      <4>. QED  BY <1>1, <1>2, <1>3, <3>2, <4>1, <4>2 DEF Guarded, Same, Using, Active, Working, Beside
    <3>. QED  BY <3>1, <3>2
  <2>5. Reached(d)'
    <3>1. d \in live' => d \in live /\ home[d] # p /\ home[d] \in Process
      BY <1>1, <1>2 DEF Placed
    <3>. QED  BY <1>1, <1>2, <1>3, <3>1 DEF Reached, Same
  <2>. QED  BY <2>2, <2>3, <2>4, <2>5
<1>. QED  BY <1>4, <1>5

LEMMA StepKeeps ==
    ASSUME LoginInv, NEW c \in Call, Step(c)
    PROVE  /\ LocksPlaced' /\ NothingPending'
           /\ \A d \in Call : Placed(d)' /\ Staged(d)' /\ Guarded(d)' /\ Reached(d)'
<1>0. TypeOK /\ For[c] \in Session /\ Staged(c) /\ Placed(c) /\ panel \in [Session -> {"none", "started", "needs_name"}]
  BY LoginAssumption DEF LoginInv, TypeOK
<1> USE DEF history, memory, calls
<1>1. CASE CodeSent(c)
  BY <1>1, CodeSentKeeps
<1>2. CASE CodeNotSent(c)
  BY <1>2, EndKeeps DEF CodeNotSent, Fail, Ended
<1>3. CASE Acquire(c)
  BY <1>3, AcquireKeeps
<1>4. CASE Built(c)
  BY <1>4, BuiltKeeps
<1>5. CASE NotBuilt(c)
  BY <1>5, EndKeeps DEF NotBuilt, Fail, Ended
<1>6. CASE SignedIn(c)
  BY <1>6, GoneOn DEF SignedIn, Using
<1>7. CASE NeedsName(c)
  <2>1. \A s \in Session : panel'[s] = "none" <=> panel[s] = "none"
    BY <1>0, <1>7 DEF NeedsName, Staged, Using
  <2>. QED  BY <1>7, <2>1, EndKeeps DEF NeedsName, Ended
<1>8. CASE Refused(c)
  BY <1>8, EndKeeps DEF Refused, Fail, Ended
<1>9. CASE Broken(c)
  <2>1. /\ Using(c) /\ Forget(home[c], For[c], c) /\ Goto(c, "failed") /\ UNCHANGED <<home, panel>>
    BY <1>9 DEF Broken, Using, Fail, End, Done
  <2>2. /\ client' = [client EXCEPT ![c] = none] /\ lock' = [lock EXCEPT ![c] = none]
        /\ holder' = [l \in Call |-> IF holder[l] = c THEN none ELSE holder[l]]
    BY <1>9 DEF Broken, Fail, End, Done
  <2>3. /\ \A d \in Call \ {c} : client'[d] = client[d] /\ lock'[d] = lock[d]
        /\ lock'[c] \in {lock[c], none} /\ \A l \in Call : holder'[l] = holder[l] \/ holder[l] = c
    BY <1>0, <2>2 DEF TypeOK
  <2>. QED  BY <2>1, <2>3, ForgetKeeps
<1>10. CASE Export(c)
  BY <1>10, ForgetKeeps DEF Export, Using
<1>11. CASE StoreClosed(c)
  BY <1>11, EndKeeps DEF StoreClosed, Fail, Ended
<1>12. CASE Refresh(c) \/ Miss(c) \/ Create(c)
  <2>1. UNCHANGED <<pc, home, client, lock, pending, locks, holder, live, panel, disturbed>>
    BY <1>12 DEF Refresh, Miss, Create
  <2>. QED  BY <2>1 DEF LoginInv, LocksPlaced, NothingPending, Placed, Staged, Guarded, Reached, Using, Active,
                        Working, Beside
<1>13. CASE Saved(c)
  BY <1>13, EndKeeps DEF Saved, Fail, Ended
<1>. QED  BY <1>1, <1>2, <1>3, <1>4, <1>5, <1>6, <1>7, <1>8, <1>9, <1>10, <1>11, <1>12, <1>13 DEF Step

LEMMA TimeOutKeeps ==
    ASSUME LoginInv, NEW c \in Call, TimeOut(c)
    PROVE  /\ LocksPlaced' /\ NothingPending'
           /\ \A d \in Call : Placed(d)' /\ Staged(d)' /\ Guarded(d)' /\ Reached(d)'
<1>1. End(c, "failed") /\ pc[c] # "idle" /\ UNCHANGED <<home, pending, locks, panel>> /\ For[c] \in disturbed'
      /\ disturbed \subseteq disturbed' /\ live' \subseteq live \cup {c}
  BY DEF TimeOut, Fail, Active, Working
<1>. QED  BY <1>1, EndKeeps DEF Ended

LEMMA LoginInit == Init => LoginInv
<1> SUFFICES ASSUME Init PROVE LoginInv
  OBVIOUS
<1>1. LocksPlaced /\ NothingPending
  BY DEF Init, LocksPlaced, NothingPending
<1>2. \A c \in Call : Placed(c) /\ Staged(c) /\ Guarded(c) /\ Reached(c)
  BY DEF Init, Placed, Staged, Guarded, Reached, Using, Active, Working
<1>. QED  BY <1>1, <1>2, TypeInit DEF LoginInv

LEMMA LoginNext == LoginInv /\ [Next]_vars => LoginInv'
<1> SUFFICES ASSUME LoginInv, [Next]_vars PROVE LoginInv'
  OBVIOUS
<1>1. ASSUME NEW c \in Call, NEW p \in Process, Start(c, p) \/ Verify(c, p) \/ SignUp(c, p) \/ Cancel(c, p)
      PROVE  LoginInv'
  BY <1>1, TypeEnter, StartKeeps, VerifyKeeps, SignUpKeeps, CancelKeeps DEF LoginInv
<1>2. ASSUME NEW c \in Call, Step(c) PROVE LoginInv'
  BY <1>2, TypeStep, StepKeeps DEF LoginInv, Placed
<1>3. ASSUME NEW c \in Call, TimeOut(c) PROVE LoginInv'
  BY <1>3, TypeRest, TimeOutKeeps DEF LoginInv
<1>4. ASSUME NEW p \in Process, Restart(p) PROVE LoginInv'
  BY <1>4, TypeRest, RestartKeeps DEF LoginInv
<1>5. CASE UNCHANGED vars
  BY <1>5 DEF vars, calls, memory, database, rubika, history, LoginInv, TypeOK, LocksPlaced, NothingPending,
     Placed, Staged, Guarded, Reached, Using, Active, Working, Beside
<1>. QED  BY <1>1, <1>2, <1>3, <1>4, <1>5 DEF Next

LEMMA LoginAlways == Spec => []LoginInv
<1>. QED  BY LoginInit, LoginNext, PTL DEF Spec

-----------------------------------------------------------------------------
(* The registers of every call, process and session stay what they are     *)
(* meant to be.                                                            *)
THEOREM TypeCorrect == Spec => []TypeOK
<1>1. LoginInv => TypeOK
  BY DEF LoginInv
<1>. QED  BY <1>1, LoginAlways, PTL

(* A client start_phone_login or _login_client of accounts.py has started  *)
(* stays pending, or the call that started it is still at work, unless the *)
(* calls of its login disturbed each other: _forget and the exits of the   *)
(* calls drop none.  By LoginInv: a verify holds the lock of the table,    *)
(* so where it builds a client nothing is pending that it could displace.  *)
THEOREM NoClientIsOrphaned == Spec => []NoOrphanClient
<1>1. LoginInv => NoOrphanClient
  <2> SUFFICES ASSUME LoginInv, NEW k \in live
               PROVE  \/ pending[home[k]][For[k]] = k
                      \/ \E c \in Call : Active(c) /\ client[c] = k
                      \/ For[k] \in disturbed
    BY DEF NoOrphanClient
  <2>1. k \in Call /\ Reached(k) /\ Staged(k)
    BY DEF LoginInv, TypeOK
  <2>. QED  BY <2>1 DEF Reached, Staged, Active, Working
<1>. QED  BY <1>1, LoginAlways, PTL
=============================================================================
