---------------------------- MODULE AccountLogin ----------------------------
(***************************************************************************)
(* Adding an account: worker/accounts.py behind the login views, in        *)
(* several worker processes.  The panel starts a login, then verifies the  *)
(* code and, for a phone Rubika does not know, signs up; between two calls *)
(* the client waits in the _PENDING of the process that built it, and the  *)
(* login_state the panel holds lets any process build another one.         *)
(*                                                                         *)
(* Coroutines of a process share an event loop: a step runs from one await *)
(* to the next.  A client is named after the call that built it, and so is *)
(* the asyncio.Lock a verify leaves in _VERIFY_LOCKS.  All the sessions    *)
(* are logins of one phone.                                                *)
(***************************************************************************)
EXTENDS Naturals, Sequences, FiniteSets

CONSTANTS
    Process,     \* worker processes, each with its _PENDING and its locks
    Session,     \* session names, one for each login started
    Call,        \* requests of the panel
    Kind,        \* what a call asks for: start, verify, signup or cancel
    For,         \* the session it names
    Earlier,     \* the rows of the phone an earlier login may have left
    none,
    MaxRestarts, \* bound: restarts of a process
    MaxTimeouts  \* bound: calls given up by run_async

Kinds == {"start", "verify", "signup", "cancel"}

ASSUME LoginAssumption ==
    /\ Kind \in [Call -> Kinds] /\ For \in [Call -> Session]
    /\ Earlier \subseteq Seq(Session)
    /\ none \notin Call \cup Process
    /\ MaxRestarts \in Nat /\ MaxTimeouts \in Nat

VARIABLES
    pc, home, client, \* of a call: where it is, its process, its client
    lock,             \* the lock a verify took or waits for
    pending,          \* _PENDING of a process
    locks,            \* _VERIFY_LOCKS of a process
    holder,           \* the call that holds a lock
    live,             \* the clients that are started and not stopped
    thread,           \* the thread that runs save_account for a call
    rows,             \* the accounts of the phone, oldest first: a session each
    code, registered, \* Rubika: the code of a session, an account for the phone
    panel,            \* what the panel knows of a session
    accepted,         \* history: sessions a call saw Rubika sign in
    disturbed,        \* history: sessions whose calls stepped on each other
    restarts, timeouts

calls == <<pc, home, client, lock>>
memory == <<pending, locks, holder, live>>
database == <<thread, rows>>
rubika == <<code, registered>>
history == <<accepted, disturbed>>
vars == <<calls, memory, database, rubika, panel, history, restarts, timeouts>>

Working == {"opening", "building", "signing", "finishing", "saving"}
Ended == {"ok", "needs_name", "failed"}
Active(c) == pc[c] \in Working \cup {"waiting"}

TypeOK ==
    /\ pc \in [Call -> Working \cup Ended \cup {"idle", "waiting"}]
    /\ home \in [Call -> Process \cup {none}]
    /\ client \in [Call -> Call \cup {none}] /\ lock \in [Call -> Call \cup {none}]
    /\ pending \in [Process -> [Session -> Call \cup {none}]]
    /\ locks \in [Process -> [Session -> Call \cup {none}]]
    /\ holder \in [Call -> Call \cup {none}]
    /\ live \in SUBSET Call
    /\ thread \in [Call -> {"none", "looking", "missed", "saved", "failed"}]
    /\ rows \in Seq(Session)
    /\ code \in [Session -> {"none", "sent", "used"}] /\ registered \in BOOLEAN
    /\ panel \in [Session -> {"none", "started", "needs_name"}]
    /\ accepted \in SUBSET Session /\ disturbed \in SUBSET Session
    /\ restarts \in 0..MaxRestarts /\ timeouts \in 0..MaxTimeouts

-----------------------------------------------------------------------------
Init ==
    /\ pc = [c \in Call |-> "idle"] /\ home = [c \in Call |-> none]
    /\ client = [c \in Call |-> none] /\ lock = [c \in Call |-> none]
    /\ pending = [p \in Process |-> [s \in Session |-> none]]
    /\ locks = [p \in Process |-> [s \in Session |-> none]]
    /\ holder = [l \in Call |-> none] /\ live = {}
    /\ thread = [c \in Call |-> "none"] /\ rows \in Earlier
    /\ code = [s \in Session |-> "none"] /\ registered \in BOOLEAN /\ (rows # <<>> => registered)
    /\ panel = [s \in Session |-> "none"]
    /\ accepted = {} /\ disturbed = {} /\ restarts = 0 /\ timeouts = 0

-----------------------------------------------------------------------------
(* Parts of a step.                                                        *)

Goto(c, point) == pc' = [pc EXCEPT ![c] = point]

Done(c, how) ==
    /\ Goto(c, how)
    /\ client' = [client EXCEPT ![c] = none] /\ lock' = [lock EXCEPT ![c] = none]

(* Mutant: a call that is over keeps the lock. *)
EndLocked(c, how) == Done(c, how) /\ UNCHANGED holder

(* The call answers; `async with lock` lets the next verify in. *)
End(c, how) ==
    /\ Done(c, how)
    /\ holder' = [l \in Call |-> IF holder[l] = c THEN none ELSE holder[l]]

Fail(c) == End(c, "failed")

Others(c) == {d \in Call \ {c} : Active(d) /\ For[d] = For[c] /\ home[d] = home[c]}

(* Some other verify waits for the lock _forget takes out of the table: it *)
(* will run beside the next one, which makes a lock of its own.            *)
Splits(p, s, c) ==
    \E d \in Call \ {c} : pc[d] = "waiting" /\ home[d] = p /\ locks[p][s] # none /\ lock[d] = locks[p][s]

(* _forget: the pending login of the name, whosever it is, and its lock    *)
(* leave the tables, and its client is stopped.                            *)
Forget(p, s, c) ==
    /\ pending' = [pending EXCEPT ![p][s] = none]
    /\ locks' = [locks EXCEPT ![p][s] = none]
    /\ live' = live \ {pending[p][s]}
    /\ disturbed' = IF Splits(p, s, c) THEN disturbed \cup {s} ELSE disturbed

(* _login_client: the pending client, or a new one made of login_state. *)
TakeClient(c, p) ==
    IF pending[p][For[c]] # none
    THEN client' = [client EXCEPT ![c] = pending[p][For[c]]] /\ Goto(c, "signing")
    ELSE client' = client /\ Goto(c, "building")

-----------------------------------------------------------------------------
(* start_phone_login *)

Start(c, p) ==
    /\ pc[c] = "idle" /\ Kind[c] = "start"
    /\ panel[For[c]] = "none"
    /\ \A d \in Call : For[d] = For[c] => pc[d] = "idle"
    /\ home' = [home EXCEPT ![c] = p]
    /\ client' = [client EXCEPT ![c] = c]
    /\ live' = live \cup {c}
    /\ Goto(c, "opening")
    /\ UNCHANGED <<lock, pending, locks, holder, database, rubika, panel, history, restarts, timeouts>>

(* sendCode answered with a hash: the client waits in _PENDING. *)
CodeSent(c) ==
    /\ pc[c] = "opening"
    /\ code' = [code EXCEPT ![For[c]] = "sent"]
    /\ pending' = [pending EXCEPT ![home[c]][For[c]] = c]
    /\ panel' = [panel EXCEPT ![For[c]] = "started"]
    /\ End(c, "ok")
    /\ UNCHANGED <<home, locks, live, database, registered, history, restarts, timeouts>>

(* The start failed, a two-step password is asked for, or there is no hash. *)
CodeNotSent(c) ==
    /\ pc[c] = "opening"
    /\ live' = live \ {c}
    /\ Fail(c)
    /\ UNCHANGED <<home, pending, locks, database, rubika, panel, history, restarts, timeouts>>

-----------------------------------------------------------------------------
(* verify_phone_code and complete_phone_signup *)

Free(l) == holder[l] = none /\ \A d \in Call : ~(pc[d] = "waiting" /\ lock[d] = l)

(* A signup is not under the lock: it runs beside any other call. *)
Overlap(c, p) ==
    IF \E d \in Call \ {c} : /\ Active(d) /\ For[d] = For[c] /\ home[d] = p
                             /\ "signup" \in {Kind[c], Kind[d]}
    THEN disturbed \cup {For[c]} ELSE disturbed

(* Mutant: verify_phone_code takes no lock. *)
VerifyUnlocked(c, p) ==
    /\ pc[c] = "idle" /\ Kind[c] = "verify"
    /\ panel[For[c]] # "none"
    /\ home' = [home EXCEPT ![c] = p]
    /\ disturbed' = Overlap(c, p)
    /\ TakeClient(c, p)
    /\ UNCHANGED <<lock, memory, database, rubika, panel, accepted, restarts, timeouts>>

(* A verify makes the lock of its session, or queues for the one there. *)
Verify(c, p) ==
    LET s == For[c]
        l == IF locks[p][s] = none THEN c ELSE locks[p][s]
    IN  /\ pc[c] = "idle" /\ Kind[c] = "verify"
        /\ panel[s] # "none"
        /\ home' = [home EXCEPT ![c] = p]
        /\ lock' = [lock EXCEPT ![c] = l]
        /\ locks' = [locks EXCEPT ![p][s] = l]
        /\ disturbed' = Overlap(c, p)
        /\ \/ Free(l) /\ holder' = [holder EXCEPT ![l] = c] /\ TakeClient(c, p)
           \/ ~Free(l) /\ Goto(c, "waiting") /\ UNCHANGED <<holder, client>>
        /\ UNCHANGED <<pending, live, database, rubika, panel, accepted, restarts, timeouts>>

Acquire(c) ==
    /\ pc[c] = "waiting" /\ holder[lock[c]] = none
    /\ holder' = [holder EXCEPT ![lock[c]] = c]
    /\ TakeClient(c, home[c])
    /\ UNCHANGED <<home, lock, pending, locks, live, database, rubika, panel, history, restarts, timeouts>>

SignUp(c, p) ==
    /\ pc[c] = "idle" /\ Kind[c] = "signup"
    /\ panel[For[c]] = "needs_name"
    /\ home' = [home EXCEPT ![c] = p]
    /\ disturbed' = Overlap(c, p)
    /\ TakeClient(c, p)
    /\ UNCHANGED <<lock, memory, database, rubika, panel, accepted, restarts, timeouts>>

(* The client of login_state has started; it replaces what is pending. *)
Built(c) ==
    /\ pc[c] = "building"
    /\ live' = live \cup {c}
    /\ client' = [client EXCEPT ![c] = c]
    /\ pending' = [pending EXCEPT ![home[c]][For[c]] = c]
    /\ Goto(c, "signing")
    /\ UNCHANGED <<home, lock, locks, holder, database, rubika, panel, history, restarts, timeouts>>

(* It did not start, and start closed it: the error is the answer. *)
NotBuilt(c) ==
    /\ pc[c] = "building"
    /\ Fail(c)
    /\ UNCHANGED <<home, pending, locks, live, database, rubika, panel, history, restarts, timeouts>>

(* signIn or signUp signs the client in, if nobody stopped it meanwhile. *)
SignedIn(c) ==
    LET s == For[c] IN
    /\ pc[c] = "signing" /\ client[c] \in live
    /\ \/ Kind[c] = "verify" /\ code[s] = "sent" /\ registered
       \/ Kind[c] = "signup" /\ ~registered
    /\ code' = [code EXCEPT ![s] = "used"] /\ registered' = TRUE
    /\ accepted' = accepted \cup {s}
    /\ Goto(c, "finishing")
    /\ UNCHANGED <<home, client, lock, memory, database, panel, disturbed, restarts, timeouts>>

(* signIn finds no account for the phone: the client goes on waiting. *)
NeedsName(c) ==
    LET s == For[c] IN
    /\ pc[c] = "signing" /\ Kind[c] = "verify" /\ client[c] \in live
    /\ code[s] = "sent" /\ ~registered
    /\ code' = [code EXCEPT ![s] = "used"]
    /\ panel' = [panel EXCEPT ![s] = "needs_name"]
    /\ End(c, "needs_name")
    /\ UNCHANGED <<home, pending, locks, live, database, registered, history, restarts, timeouts>>

(* CodeIsInvalid, CodeIsExpired, CodeIsUsed, TooRequests: another try may  *)
(* be made with the same client.                                           *)
Refused(c) ==
    /\ pc[c] = "signing" /\ Kind[c] = "verify" /\ client[c] \in live
    /\ Fail(c)
    /\ UNCHANGED <<home, pending, locks, live, database, rubika, panel, history, restarts, timeouts>>

(* Any other error, an answer that got lost and a client stopped in the    *)
(* middle of the call among them, ends the pending login.                  *)
Broken(c) ==
    LET s == For[c] IN
    /\ pc[c] = "signing"
    /\ \/ UNCHANGED rubika
       \/ Kind[c] = "verify" /\ code[s] = "sent" /\ code' = [code EXCEPT ![s] = "used"]
          /\ UNCHANGED registered
       \/ Kind[c] = "signup" /\ registered' = TRUE /\ UNCHANGED code
    /\ Forget(home[c], s, c)
    /\ Fail(c)
    /\ UNCHANGED <<home, database, panel, accepted, restarts, timeouts>>

(* _finish_login after get_me, whose failure is only logged: the session   *)
(* is exported, from a store that is opened again if the client was        *)
(* stopped, the pending login forgotten and save_account handed to a       *)
(* thread.                                                                 *)
Export(c) ==
    /\ pc[c] = "finishing"
    /\ Forget(home[c], For[c], c)
    /\ thread' = [thread EXCEPT ![c] = "looking"]
    /\ Goto(c, "saving")
    /\ UNCHANGED <<home, client, lock, holder, rows, rubika, panel, accepted, restarts, timeouts>>

(* The client was stopped while sign_in was registering the device: its    *)
(* storage cannot say whether there is an auth.                            *)
StoreClosed(c) ==
    /\ pc[c] = "finishing" /\ client[c] \notin live
    /\ Fail(c)
    /\ UNCHANGED <<home, pending, locks, live, database, rubika, panel, history, restarts, timeouts>>

-----------------------------------------------------------------------------
(* save_account, in its thread *)

ThreadEnds(c, how) == thread' = [thread EXCEPT ![c] = IF pc[c] = "saving" THEN how ELSE "none"]

(* The newest row of the phone is locked and refreshed in one transaction. *)
Refresh(c) ==
    /\ thread[c] = "looking" /\ rows # <<>>
    /\ rows' = [rows EXCEPT ![Len(rows)] = For[c]]
    /\ ThreadEnds(c, "saved")
    /\ UNCHANGED <<calls, memory, rubika, panel, history, restarts, timeouts>>

(* No row to lock: another transaction may find none either. *)
Miss(c) ==
    /\ thread[c] = "looking" /\ rows = <<>>
    /\ thread' = [thread EXCEPT ![c] = "missed"]
    /\ UNCHANGED <<calls, memory, rows, rubika, panel, history, restarts, timeouts>>

(* session_name is unique, phone is not. *)
Create(c) ==
    /\ thread[c] = "missed"
    /\ IF \E i \in DOMAIN rows : rows[i] = For[c]
       THEN rows' = rows /\ ThreadEnds(c, "failed")
       ELSE rows' = Append(rows, For[c]) /\ ThreadEnds(c, "saved")
    /\ UNCHANGED <<calls, memory, rubika, panel, history, restarts, timeouts>>

(* wait_for: the answer of the thread, or 20 seconds without one, after    *)
(* which the thread goes on.                                               *)
Saved(c) ==
    /\ pc[c] = "saving"
    /\ IF thread[c] = "saved" THEN End(c, "ok") ELSE Fail(c)
    /\ thread' = [thread EXCEPT ![c] = IF @ \in {"saved", "failed"} THEN "none" ELSE @]
    /\ UNCHANGED <<home, pending, locks, live, rows, rubika, panel, history, restarts, timeouts>>

-----------------------------------------------------------------------------
(* cancel_pending_login *)

Cancel(c, p) ==
    /\ pc[c] = "idle" /\ Kind[c] = "cancel"
    /\ panel[For[c]] # "none"
    /\ home' = [home EXCEPT ![c] = p]
    /\ pending' = [pending EXCEPT ![p][For[c]] = none]
    /\ locks' = [locks EXCEPT ![p][For[c]] = none]
    /\ live' = live \ {pending[p][For[c]]}
    /\ disturbed' = IF \E d \in Call : Active(d) /\ For[d] = For[c] /\ home[d] = p
                    THEN disturbed \cup {For[c]} ELSE disturbed
    /\ Goto(c, "ok")
    /\ UNCHANGED <<client, lock, holder, database, rubika, panel, accepted, restarts, timeouts>>

(* run_async gives the call up after 120 seconds: the coroutine is         *)
(* cancelled where it is, which no `except Exception` sees.                *)
TimeOut(c) ==
    /\ Active(c) /\ timeouts < MaxTimeouts
    /\ timeouts' = timeouts + 1
    /\ disturbed' = disturbed \cup {For[c]}
    /\ live' = IF pc[c] = "building" THEN live \cup {c} ELSE live
    /\ Fail(c)
    /\ UNCHANGED <<home, pending, locks, database, rubika, panel, accepted, restarts>>

(* A process dies and comes back with empty tables. *)
Restart(p) ==
    LET here == {c \in Call : home[c] = p} IN
    /\ restarts < MaxRestarts
    /\ \E c \in here : c \in live \/ Active(c)
    /\ restarts' = restarts + 1
    /\ pending' = [pending EXCEPT ![p] = [s \in Session |-> none]]
    /\ locks' = [locks EXCEPT ![p] = [s \in Session |-> none]]
    /\ live' = live \ here
    /\ holder' = [l \in Call |-> IF l \in here THEN none ELSE holder[l]]
    /\ disturbed' = disturbed \cup {For[c] : c \in {d \in here : Active(d) \/ thread[d] # "none"}}
    /\ pc' = [c \in Call |-> IF c \in here /\ Active(c) THEN "failed" ELSE pc[c]]
    /\ thread' = [c \in Call |-> IF c \in here THEN "none" ELSE thread[c]]
    /\ client' = [c \in Call |-> IF c \in here THEN none ELSE client[c]]
    /\ lock' = [c \in Call |-> IF c \in here THEN none ELSE lock[c]]
    /\ UNCHANGED <<home, rows, rubika, panel, accepted, timeouts>>

-----------------------------------------------------------------------------
Step(c) ==
    \/ CodeSent(c) \/ CodeNotSent(c)
    \/ Acquire(c) \/ Built(c) \/ NotBuilt(c)
    \/ SignedIn(c) \/ NeedsName(c) \/ Refused(c) \/ Broken(c)
    \/ Export(c) \/ StoreClosed(c)
    \/ Refresh(c) \/ Miss(c) \/ Create(c) \/ Saved(c)

Next ==
    \/ \E c \in Call, p \in Process : Start(c, p) \/ Verify(c, p) \/ SignUp(c, p) \/ Cancel(c, p)
    \/ \E c \in Call : Step(c) \/ TimeOut(c)
    \/ \E p \in Process : Restart(p)

(* Every request ends: the transport answers or times out, a thread gets   *)
(* its turn, and a coroutine that can run is run.                          *)
Fairness == \A c \in Call : WF_vars(Step(c))

Spec == Init /\ [][Next]_vars /\ Fairness

-----------------------------------------------------------------------------
(* A login Rubika accepted, and the worker saw accepted, becomes a stored  *)
(* account, whichever process finishes it and however often the panel      *)
(* repeats the verify: the lock of verify_phone_code keeps a repetition    *)
(* from forgetting the login that is about to be saved.  A login is        *)
(* disturbed when a cancel, a signup beside another call, a timeout, a     *)
(* restart or a lock forgotten under a waiter (accounts.py:128) cuts in.   *)
AcceptedIsStored ==
    \A s \in Session :
        s \in accepted ~> (s \in disturbed \/ \E i \in DOMAIN rows : rows[i] = s)

(* A started client is one the process can still reach: it is pending or   *)
(* some call is using it; start_phone_login, _login_client and _forget     *)
(* lose none of them, unless the calls of its login disturbed each other.  *)
NoOrphanClient ==
    \A k \in live :
        \/ pending[home[k]][For[k]] = k
        \/ \E c \in Call : Active(c) /\ client[c] = k
        \/ For[k] \in disturbed

(* Every request of the panel is answered: no verify waits for ever for a  *)
(* lock that a failed, refused or abandoned one took with it.              *)
EveryCallEnds == \A c \in Call : Active(c) ~> ~Active(c)

(* "save_account keeps one row per phone" (docstring of                    *)
(* delete_worker_account).                                                 *)
OneRowPerPhone == Len(rows) <= 1
=============================================================================
