--------------------------- MODULE SocketTransport ---------------------------
(***************************************************************************)
(* SocketTransport of rubigram/network/ws.py: the tasks that share one     *)
(* update socket, namely callers of connect(), a caller of close(), and    *)
(* the reader, keepalive and reconnect tasks the transport starts itself.  *)
(*                                                                         *)
(* They run on one asyncio loop: a coroutine keeps the loop until it       *)
(* awaits.  A control point is an await or, for the points in Sync, a      *)
(* place passed with the loop in hand, so nobody else moves while a task   *)
(* is at one (Turn).                                                       *)
(*                                                                         *)
(* Frames, ping times and back-off delays are left out; "lost" is a socket *)
(* that is closed, broken or silent.  auto_reconnect is on, as the client  *)
(* leaves it, there is no frame callback, and the pool has a URL.          *)
(***************************************************************************)
EXTENDS Naturals, FiniteSets

CONSTANTS
    Caller,     \* tasks that call connect()
    closer,     \* the task that calls close()
    Reconnect,  \* names for the reconnect tasks alive at a time
    Socket,     \* names for the websockets in use at a time
    none,       \* None
    MaxCalls,   \* bound: calls of connect()
    MaxLosses,  \* bound: sockets that are lost
    MaxFails,   \* bound: attempts in which no URL answers the handshake
    MaxCancels  \* bound: calls of connect() that are cancelled

Task == Caller \cup {closer} \cup Reconnect

(* The reader and the keepalive task of a websocket. *)
Helper == {"reader", "keep"} \X Socket

VARIABLES
    socket,         \* _websocket
    current,        \* _reader_task and _keepalive_task
    reconnectTask,  \* _reconnect_task
    closed,         \* _closed
    connected,      \* _connected_event
    lock,           \* the holder of _connect_lock
    link,           \* what became of every websocket
    helper,         \* state of every reader and keepalive task
    pc,             \* control point of every other task
    ws,             \* local websocket of _drop_socket
    waits,          \* the task that _teardown or _drop_socket awaits
    raised,         \* the last call that took over has raised its error
    disposed,       \* the client let go of the transport and called close()
    spent           \* how much of each bound is used

fields == <<socket, current, reconnectTask, closed, connected>>
locals == <<ws, waits>>
calls == <<lock, raised, disposed>>
world == <<link, helper>>
vars == <<fields, locals, calls, world, pc, spent>>

Sync == {"drop", "drop_keep", "drop_ws", "dropped"}

PC == Sync \cup {"idle", "lock", "start", "reconnect", "reader", "keep", "closing", "sleep", "open", "shut"}

TypeOK ==
    /\ socket \in Socket \cup {none}
    /\ current \in [{"reader", "keep"} -> Helper \cup {none}]
    /\ reconnectTask \in Reconnect \cup {none}
    /\ {closed, connected, raised, disposed} \subseteq BOOLEAN
    /\ lock \in Caller \cup {none}
    /\ link \in [Socket -> {"unused", "open", "lost"}]
    /\ helper \in [Helper -> {"none", "run", "cancelled"}]
    /\ pc \in [Task -> PC]
    /\ ws \in [Task -> Socket \cup {none}]
    /\ waits \in [Task -> Helper \cup Reconnect \cup {none}]
    /\ spent \in [call : 0..MaxCalls, loss : 0..MaxLosses,
                  fail : 0..MaxFails, cancel : 0..MaxCancels]

(* The task d may move: no other one holds the loop. *)
Turn(d) == \A e \in Task \ {d} : pc[e] \notin Sync

LoopFree == \A e \in Task : pc[e] \notin Sync

Goto(d, point) == pc' = [pc EXCEPT ![d] = point]

Spend(what) == spent' = [spent EXCEPT ![what] = @ + 1]

is_connected == socket # none /\ ~closed

Done(t) ==
    CASE t = none -> TRUE
      [] t \in Reconnect -> pc[t] = "idle"
      [] OTHER -> helper[t] = "none"

(* Mutant: a reconnect task that is done still counts as one. *)
EverReconnected == reconnectTask # none

Reconnecting == ~Done(reconnectTask)

(* Names nothing refers to any more, for a new websocket or task. *)
FreeSocket ==
    {s \in Socket : /\ link[s] = "unused" /\ s # socket
                    /\ \A d \in Task : ws[d] # s
                    /\ \A k \in {"reader", "keep"} :
                        /\ Done(<<k, s>>) /\ current[k] # <<k, s>>
                        /\ \A d \in Task : waits[d] # <<k, s>>}

FreeReconnect == {r \in Reconnect : Done(r) /\ \A d \in Task : waits[d] # r}

-----------------------------------------------------------------------------
Init ==
    /\ socket = none /\ reconnectTask = none /\ lock = none
    /\ current = [k \in {"reader", "keep"} |-> none]
    /\ closed = TRUE /\ connected = FALSE /\ raised = FALSE /\ disposed = FALSE
    /\ link = [s \in Socket |-> "unused"]
    /\ helper = [h \in Helper |-> "none"]
    /\ pc = [d \in Task |-> "idle"]
    /\ ws = [d \in Task |-> none] /\ waits = [d \in Task |-> none]
    /\ spent = [call |-> 0, loss |-> 0, fail |-> 0, cancel |-> 0]

-----------------------------------------------------------------------------
(* _teardown and _drop_socket *)

CloseLinks(S) == link' = [s \in Socket |-> IF s \in S THEN "unused" ELSE link[s]]

(* A cancelled reconnect task ends, except that _drop_socket suppresses    *)
(* the CancelledError of a task it awaits, and with it its own; an attempt *)
(* may first close a half-open websocket.  A websocket whose close() is    *)
(* cut short is closed by its peer.                                        *)
CancelReconnect(r, d, point) ==
    /\ \E to \in CASE pc[r] \in {"reader", "keep"} -> {pc[r]}
                   [] pc[r] = "open" -> {"idle", "shut"}
                   [] OTHER -> {"idle"} :
          pc' = [pc EXCEPT ![d] = point, ![r] = to]
    /\ CloseLinks(IF pc[r] = "closing" THEN {ws[r]} ELSE {})
    /\ ws' = [ws EXCEPT ![r] = IF pc[r] = "closing" THEN none ELSE @]

(* Mutant: the reconnect task is left alone. *)
DropOnly(d) == Goto(d, "drop") /\ UNCHANGED <<reconnectTask, link, locals>>

(* First half of _teardown: cancel the reconnect task and await its end.   *)
Teardown(d) ==
    /\ reconnectTask' = none
    /\ \/ /\ Reconnecting
          /\ CancelReconnect(reconnectTask, d, "reconnect")
          /\ waits' = [waits EXCEPT ![d] = reconnectTask]
       \/ /\ ~Reconnecting
          /\ Goto(d, "drop")
          /\ UNCHANGED <<link, locals>>

Cancel(t) == helper' = [helper EXCEPT ![t] = "cancelled"]

(* One round of the loop in _drop_socket, at its turn or resumed. *)
Stop(d, k, next) ==
    /\ current' = [current EXCEPT ![k] = none]
    /\ \/ /\ ~Done(current[k])
          /\ Cancel(current[k])
          /\ waits' = [waits EXCEPT ![d] = current[k]]
          /\ Goto(d, k)
       \/ /\ Done(current[k])
          /\ waits' = [waits EXCEPT ![d] = none]
          /\ Goto(d, next)
          /\ UNCHANGED helper
    /\ UNCHANGED <<reconnectTask, closed, connected, calls, link, spent>>

(* d is at a point, or the task it awaits at another has ended. *)
At(d, point, await) == Turn(d) /\ (pc[d] = point \/ (pc[d] = await /\ Done(waits[d])))

(* Second half, _drop_socket: the socket is forgotten and its reader       *)
(* stopped, then its keepalive task, and the websocket is closed.          *)
DropReader(d) ==
    /\ At(d, "drop", "reconnect")
    /\ ws' = [ws EXCEPT ![d] = socket]
    /\ socket' = none
    /\ Stop(d, "reader", "drop_keep")

DropKeep(d) ==
    /\ At(d, "drop_keep", "reader")
    /\ Stop(d, "keep", "drop_ws")
    /\ UNCHANGED <<socket, ws>>

DropWs(d) ==
    /\ At(d, "drop_ws", "keep")
    /\ waits' = [waits EXCEPT ![d] = none]
    /\ Goto(d, IF ws[d] = none THEN "dropped" ELSE "closing")
    /\ UNCHANGED <<fields, calls, world, ws, spent>>

WsClosed(d) ==
    /\ Turn(d)
    /\ pc[d] = "closing"
    /\ CloseLinks({ws[d]})
    /\ ws' = [ws EXCEPT ![d] = none]
    /\ Goto(d, "dropped")
    /\ UNCHANGED <<fields, calls, helper, waits, spent>>

Drop(d) == DropReader(d) \/ DropKeep(d) \/ DropWs(d) \/ WsClosed(d)

-----------------------------------------------------------------------------
(* connect *)

(* A call waits for _connect_lock.  Before it calls close() the client     *)
(* forgets the transport (stop) or its auth (logout), so no call begins    *)
(* after close().                                                          *)
Connect(c) ==
    /\ LoopFree
    /\ ~disposed
    /\ pc[c] = "idle"
    /\ spent.call < MaxCalls
    /\ Goto(c, "lock")
    /\ Spend("call")
    /\ UNCHANGED <<fields, locals, calls, world>>

(* It has the lock: a connected socket is reused, unless the call forces a *)
(* reconnect or its auth is new; otherwise all is torn down.               *)
Enter(c) ==
    /\ LoopFree
    /\ pc[c] = "lock" /\ lock = none
    /\ \/ /\ is_connected
          /\ Goto(c, "idle")
          /\ UNCHANGED <<link, reconnectTask, lock, locals>>
       \/ /\ lock' = c
          /\ Teardown(c)
    /\ UNCHANGED <<socket, current, closed, connected, helper, raised, disposed, spent>>

(* The call goes on to _connect_any. *)
OpenCall(c) ==
    /\ pc[c] = "dropped"
    /\ Goto(c, "open")
    /\ UNCHANGED <<fields, locals, calls, world, spent>>

(* Mutant: a call that ends with an error keeps the lock. *)
ReturnLocked(c, error) ==
    /\ lock' = IF lock = c /\ ~error THEN none ELSE lock
    /\ raised' = IF lock = c THEN error ELSE raised
    /\ Goto(c, "idle")

(* The call is over and leaves the lock. *)
Return(c, error) ==
    /\ lock' = IF lock = c THEN none ELSE lock
    /\ raised' = IF lock = c THEN error ELSE raised
    /\ Goto(c, "idle")

Announce == connected' = TRUE

(* A URL answers the handshake: the websocket is stored, reader and        *)
(* keepalive are started.                                                  *)
StartSocket ==
    LET s == CHOOSE s \in FreeSocket : TRUE IN
        /\ FreeSocket # {}
        /\ socket' = s
        /\ current' = [k \in {"reader", "keep"} |-> <<k, s>>]
        /\ link' = [link EXCEPT ![s] = "open"]
        /\ helper' = [h \in Helper |-> IF h[2] = s THEN "run" ELSE helper[h]]
        /\ Announce
        /\ UNCHANGED <<reconnectTask, locals, disposed, spent>>

ConnectOk(c) ==
    /\ LoopFree
    /\ pc[c] = "open"
    /\ StartSocket
    /\ closed' = FALSE
    /\ Return(c, FALSE)

(* No URL does, or the answer is an RPC error: what was torn down stays    *)
(* so, and the error is raised.                                            *)
ConnectFails(c) ==
    /\ LoopFree
    /\ pc[c] = "open"
    /\ spent.fail < MaxFails
    /\ Spend("fail")
    /\ Return(c, TRUE)
    /\ UNCHANGED <<fields, locals, world, disposed>>

(* Cancelling a call ends it, at once or with the closing of a half-open   *)
(* websocket.  But _teardown passes it on to the reconnect task it awaits, *)
(* and _drop_socket to a helper that is cancelled already: both then       *)
(* suppress it.                                                            *)
CancelConnect(c) ==
    /\ LoopFree
    /\ spent.cancel < MaxCancels
    /\ \/ /\ pc[c] \in {"lock", "closing", "open", "shut"}
          /\ CloseLinks(IF pc[c] = "closing" THEN {ws[c]} ELSE {})
          /\ ws' = [ws EXCEPT ![c] = none]
          /\ Return(c, TRUE)
       \/ /\ pc[c] = "open"
          /\ Goto(c, "shut")
          /\ UNCHANGED <<link, ws, lock, raised>>
       \/ /\ pc[c] = "reconnect" /\ ~Done(waits[c])
          /\ CancelReconnect(waits[c], c, "reconnect")
          /\ UNCHANGED <<lock, raised>>
    /\ Spend("cancel")
    /\ UNCHANGED <<fields, helper, waits, disposed>>

ConnectShut(c) ==
    /\ LoopFree
    /\ pc[c] = "shut"
    /\ Return(c, TRUE)
    /\ UNCHANGED <<fields, locals, world, disposed, spent>>

-----------------------------------------------------------------------------
(* close, which does not take _connect_lock *)
Close ==
    /\ LoopFree
    /\ ~disposed
    /\ disposed' = TRUE
    /\ closed' = TRUE
    /\ Teardown(closer)
    /\ UNCHANGED <<socket, current, connected, helper, lock, raised, spent>>

(* Its end; the disconnect marker it queues is not modelled. *)
CloseEnds ==
    /\ pc[closer] = "dropped"
    /\ connected' = FALSE
    /\ Goto(closer, "idle")
    /\ UNCHANGED <<socket, current, reconnectTask, closed, locals, calls, world, spent>>

-----------------------------------------------------------------------------
(* The reader, keepalive and reconnect tasks *)

(* _schedule_reconnect: one reconnect task at a time. *)
ScheduleReconnect ==
    \/ Reconnecting /\ UNCHANGED <<reconnectTask, pc>>
    \/ /\ ~Reconnecting
       /\ FreeReconnect # {}
       /\ reconnectTask' = CHOOSE r \in FreeReconnect : TRUE
       /\ pc' = [pc EXCEPT ![reconnectTask'] = "start"]

Ends(t) ==
    /\ helper' = [helper EXCEPT ![t] = "none"]
    /\ UNCHANGED <<socket, current, closed, connected, link, calls, locals, spent>>

(* _reader_loop: recv() raises, *)
ReaderFails(s) ==
    /\ LoopFree
    /\ helper[<<"reader", s>>] = "run" /\ link[s] # "open"
    /\ Ends(<<"reader", s>>)
    /\ IF closed THEN UNCHANGED <<reconnectTask, pc>> ELSE ScheduleReconnect

(* or a frame comes on a websocket that is not the current one any more. *)
ReaderLeaves(s) ==
    /\ LoopFree
    /\ helper[<<"reader", s>>] = "run" /\ link[s] = "open" /\ s # socket
    /\ Ends(<<"reader", s>>)
    /\ UNCHANGED <<reconnectTask, pc>>

(* _keepalive_loop: the ping, sent on whatever websocket is current, fails *)
(* or stays without an answer.  No ping falls due in the one turn of the   *)
(* loop in which _drop_socket takes a healthy websocket away.              *)
KeepFails(s) ==
    /\ LoopFree
    /\ helper[<<"keep", s>>] = "run" /\ ~closed
    /\ link[IF socket = none THEN s ELSE socket] # "open"
    /\ Ends(<<"keep", s>>)
    /\ ScheduleReconnect

(* Either is cancelled, or the keepalive task sees _closed. *)
HelperStops(h) ==
    /\ LoopFree
    /\ helper[h] = "cancelled" \/ (helper[h] = "run" /\ h[1] = "keep" /\ closed)
    /\ Ends(h)
    /\ UNCHANGED <<reconnectTask, pc>>

(* _reconnect: the task runs for the first time. *)
ReconnectStarts(r) ==
    /\ LoopFree
    /\ pc[r] = "start"
    /\ Goto(r, "drop")
    /\ UNCHANGED <<fields, locals, calls, world, spent>>

(* The head of its loop. *)
Retry(r) == Goto(r, IF closed THEN "idle" ELSE "sleep")

(* After _drop_socket the event is cleared, and the loop entered. *)
ReconnectDropped(r) ==
    /\ pc[r] = "dropped"
    /\ connected' = FALSE
    /\ Retry(r)
    /\ UNCHANGED <<socket, current, reconnectTask, closed, locals, calls, world, spent>>

(* After the delay the next URL is tried, and answers ... *)
ReconnectWakes(r) ==
    /\ LoopFree
    /\ pc[r] = "sleep"
    /\ Goto(r, IF closed THEN "idle" ELSE "open")
    /\ UNCHANGED <<fields, locals, calls, world, spent>>

ReconnectOk(r) ==
    /\ LoopFree
    /\ pc[r] = "open"
    /\ StartSocket
    /\ raised' = FALSE
    /\ Goto(r, "idle")
    /\ UNCHANGED <<closed, lock>>

(* ... or not. *)
ReconnectFails(r) ==
    /\ LoopFree
    /\ pc[r] = "open"
    /\ spent.fail < MaxFails
    /\ Spend("fail")
    /\ Retry(r)
    /\ UNCHANGED <<fields, locals, calls, world>>

ReconnectShut(r) ==
    /\ LoopFree
    /\ pc[r] = "shut"
    /\ Goto(r, "idle")
    /\ UNCHANGED <<fields, locals, calls, world, spent>>

(* The server or the network drops a websocket, or it falls silent. *)
Lose(s) ==
    /\ LoopFree
    /\ link[s] = "open"
    /\ spent.loss < MaxLosses
    /\ link' = [link EXCEPT ![s] = "lost"]
    /\ Spend("loss")
    /\ UNCHANGED <<fields, locals, calls, helper, pc>>

-----------------------------------------------------------------------------
CallStep(c) == Enter(c) \/ Drop(c) \/ OpenCall(c) \/ ConnectOk(c) \/ ConnectFails(c) \/ ConnectShut(c)

CloseStep == Drop(closer) \/ CloseEnds

ReconnectStep(r) ==
    \/ ReconnectStarts(r) \/ Drop(r) \/ ReconnectDropped(r) \/ ReconnectWakes(r)
    \/ ReconnectOk(r) \/ ReconnectFails(r) \/ ReconnectShut(r)

Next ==
    \/ \E c \in Caller : Connect(c) \/ CallStep(c) \/ CancelConnect(c)
    \/ Close \/ CloseStep
    \/ \E r \in Reconnect : ReconnectStep(r)
    \/ \E s \in Socket : ReaderFails(s) \/ ReaderLeaves(s) \/ KeepFails(s) \/ Lose(s)
    \/ \E h \in Helper : HelperStops(h)

Spec == Init /\ [][Next]_vars

(* The loop runs what is ready; handshakes, closing handshakes and pings   *)
(* have timeouts, so each await but the one for the lock ends.             *)
Fairness ==
    /\ \A c \in Caller : WF_vars(CallStep(c))
    /\ WF_vars(CloseStep)
    /\ \A r \in Reconnect : WF_vars(ReconnectStep(r))
    /\ \A s \in Socket : WF_vars(KeepFails(s))
    /\ \A h \in Helper : WF_vars(HelperStops(h))

FairSpec == Spec /\ Fairness

-----------------------------------------------------------------------------
Busy == {d \in Task : pc[d] # "idle"}

(* After close(), once the calls it met have returned, no reconnect task   *)
(* goes on and no websocket is held - whatever cancellations were          *)
(* suppressed on the way.                                                  *)
ClosedIsQuiet ==
    closed /\ Busy \cap (Caller \cup {closer}) = {} => Busy = {} /\ socket = none

(* Every call of connect() and close() comes to an end, whatever it has to *)
(* wait for: the lock, a reconnect task that ignores its cancellation,     *)
(* helpers, the network.                                                   *)
CallsReturn == \A c \in Caller \cup {closer} : pc[c] # "idle" ~> pc[c] = "idle"

(* "automatic recovery": a socket that is gone or lost is replaced, unless *)
(* the client closes the transport or a call that took over raises its     *)
(* error.                                                                  *)
Recovers ==
    ~closed /\ (socket = none \/ link[socket] = "lost") ~>
        (socket # none /\ link[socket] = "open") \/ disposed \/ raised

(* close() is the end: a call of connect() that was under way does not     *)
(* open the transport again.                                               *)
StaysClosed == [][disposed /\ closed => closed']_vars
=============================================================================
