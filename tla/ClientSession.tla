---------------------------- MODULE ClientSession ----------------------------
(***************************************************************************)
(* The session of a rubigram Client (client/client.py with the mixins      *)
(* advanced.py, auth.py and updates.py): start(), stop(), invoke(),        *)
(* login(), logout() and idle() called by the tasks of a program, beside   *)
(* the socket listener the client starts, whose handlers may call stop().  *)
(*                                                                         *)
(* All of it shares one asyncio loop: a step runs from one await to the    *)
(* next.  The storages never suspend, and they raise once they are closed. *)
(* A SocketTransport is what its own module says of it: connect() opens it *)
(* or fails, a lost socket is replaced behind it, close() ends a recv().   *)
(* sendCode and signIn of a login() are one request.  Updates are pushed   *)
(* over the socket (Transport.WS) and the client has handlers.             *)
(***************************************************************************)
EXTENDS Naturals, FiniteSets

CONSTANTS
    Call,       \* calls a program makes of the client, each once
    Kind,       \* the method each of them calls
    Programs,   \* the sets of calls looked at together
    Task,       \* names for the listener tasks alive at a time
    none,       \* None
    MaxErrors   \* bound: requests and handshakes that fail

Kinds == {"start", "stop", "invoke", "login", "logout", "idle"}

ASSUME CallAssumption ==
    /\ Kind \in [Call -> Kinds] /\ Programs \subseteq SUBSET Call
    /\ Call \cap Task = {}
    /\ none \notin Call \cup Task
    /\ MaxErrors \in Nat

Actor == Call \cup Task

(* Auths are numbered as the server issues them; 0 is None.                *)
Auth == 0..(1 + Cardinality({c \in Call : Kind[c] = "login"}))
Transport == 1..(1 + Cardinality(Call))

VARIABLES
    store,      \* the storage: whether it is open, and its auth
    registered, \* its registered_device flag
    client,     \* _is_connected and _codec, _http, _socket, _listener_task
    lock,       \* _register_lock: its holder, and the auth it registers
    link,       \* of a transport: the auth it is connected with
    server,     \* auths issued, those valid, those with a registered device
    pc, then,   \* where an actor waits; what a call does once registered
    key, on,    \* the auth of a request; the transport and auth of a connect
    waits,      \* the listener a close awaits
    first,      \* the auth with which a call was first answered NOT_REGISTERED
    cancelled,  \* listeners that are cancelled
    silenced,   \* history: a refused handshake has ended the listener
    clash,      \* history: a close ran beside a start, a login, an idle or a connect
    errors      \* how much of the bound is used

program == <<client, link, pc, on, waits, cancelled, clash, silenced>>
session == <<store, registered, lock>>
request == <<then, key, first>>
vars == <<session, server, program, request, errors>>

Rest == {"unused", "idle", "ok", "failed", "unregistered"}
Closing == {"awaiting", "closing", "closing_rest"}
PC == Rest \cup Closing \cup
    {"discovering", "base_info", "waiting", "registering", "sending", "signing",
     "connecting", "scheduled", "receiving", "sleeping", "socket_close", "idling"}

Busy(a) == pc[a] \notin Rest

Nowhere == [socket |-> 0, auth |-> 0]

TypeOK ==
    /\ store \in [open : BOOLEAN, auth : Auth] /\ registered \in BOOLEAN
    /\ client \in [connected : BOOLEAN, http : BOOLEAN,
                   socket : Transport \cup {0}, task : Task \cup {none}]
    /\ lock \in [holder : Call \cup {none}, key : Auth]
    /\ link \in [Transport -> Auth]
    /\ server \in [issued : Auth, valid : SUBSET Auth, known : SUBSET Auth]
    /\ pc \in [Actor -> PC]
    /\ then \in [Call -> {"send", "call", "socket"}] /\ key \in [Call -> Auth]
    /\ on \in [Actor -> [socket : Transport \cup {0}, auth : Auth]]
    /\ waits \in [Actor -> Task \cup {none}]
    /\ first \in [Call -> Auth] /\ cancelled \in SUBSET Task
    /\ {silenced, clash} \subseteq BOOLEAN
    /\ errors \in 0..MaxErrors

-----------------------------------------------------------------------------
(* A program has a stored session, registered or not, or none; the server  *)
(* may have forgotten the device since.                                    *)
Init ==
    /\ \E a \in {0, 1}, known \in SUBSET {1} :
        /\ store = [open |-> FALSE, auth |-> a]
        /\ registered \in {FALSE, a = 1}
        /\ known \subseteq {a}
        /\ server = [issued |-> a, valid |-> {a} \ {0}, known |-> known]
    /\ client = [connected |-> FALSE, http |-> FALSE, socket |-> 0, task |-> none]
    /\ lock = [holder |-> none, key |-> 0]
    /\ link = [s \in Transport |-> 0]
    /\ \E p \in Programs :
        pc = [a \in Actor |-> IF a \in p \cup Task THEN "idle" ELSE "unused"]
    /\ then = [c \in Call |-> "send"] /\ key = [c \in Call |-> 0]
    /\ on = [a \in Actor |-> Nowhere]
    /\ waits = [a \in Actor |-> none]
    /\ first = [c \in Call |-> 0] /\ cancelled = {}
    /\ silenced = FALSE /\ clash = FALSE
    /\ errors = 0

-----------------------------------------------------------------------------
(* Parts of a step.  Those down to Loop say what becomes of program.       *)

Left(a) == on' = [on EXCEPT ![a] = Nowhere]

Stay(a, point) ==
    /\ pc' = [pc EXCEPT ![a] = point] /\ Left(a)
    /\ UNCHANGED <<client, waits, cancelled, clash, silenced>>

Goto(a, point) == Stay(a, point) /\ UNCHANGED link

(* idle_event.set() wakes whoever is in idle(). *)
Woken(points) == [a \in Actor |-> IF points[a] = "idling" THEN "ok" ELSE points[a]]

Error == errors < MaxErrors /\ errors' = errors + 1

(* What _call_rpc needs; `_codec` lives as long as `_is_connected`. *)
Ready == store.open /\ client.connected /\ client.http

ClosingNow == \E a \in Actor : pc[a] \in Closing

HasListener == client.task # none /\ Busy(client.task)

FreeTasks == {t \in Task : pc[t] = "idle" /\ \A a \in Actor : waits[a] # t}

FreeTask == CHOOSE t \in FreeTasks : TRUE

(* _ensure_listener, after which the call is at point. *)
Listen(c, point) ==
    /\ IF HasListener \/ store.auth = 0
       THEN pc' = [pc EXCEPT ![c] = point] /\ UNCHANGED <<client, silenced>>
       ELSE /\ FreeTasks # {}
            /\ client' = [client EXCEPT !.task = FreeTask]
            /\ pc' = [pc EXCEPT ![c] = point, ![FreeTask] = "scheduled"]
            /\ silenced' = FALSE
    /\ clash' = (clash \/ ClosingNow)
    /\ Left(c) /\ UNCHANGED <<waits, cancelled>>

(* It asks a closed storage for the auth, which raises. *)
CannotListen == ~HasListener /\ ~store.open

FreeTransports == {s \in Transport : link[s] = 0 /\ \A a \in Actor : on[a].socket # s}

FreeTransport == CHOOSE s \in FreeTransports : TRUE

(* connect() of the client's transport, a new one if there is none. *)
MakeSocket(a) ==
    LET s == IF client.socket = 0 THEN FreeTransport ELSE client.socket IN
    /\ client.socket = 0 => FreeTransports # {}
    /\ client' = [client EXCEPT !.socket = s]
    /\ on' = [on EXCEPT ![a] = [socket |-> s, auth |-> store.auth]]
    /\ pc' = [pc EXCEPT ![a] = "connecting"]
    /\ clash' = (clash \/ \E c \in Call : pc[c] = "socket_close")
    /\ UNCHANGED <<link, waits, cancelled, silenced>>

Closed(links, s) == [x \in Transport |-> IF x = s THEN 0 ELSE links[x]]

(* _safe_close from the socket on: an attribute is cleared, then its       *)
(* transport closed, one after the other.                                  *)
CloseSocket(a, c, links) ==
    /\ client' = IF c.socket = 0 THEN [c EXCEPT !.http = FALSE] ELSE [c EXCEPT !.socket = 0]
    /\ link' = Closed(links, c.socket)
    /\ pc' = Woken([pc EXCEPT ![a] = IF c.socket = 0 THEN "closing_rest" ELSE "closing"])
    /\ Left(a) /\ UNCHANGED silenced

Opening(a) ==
    {c \in Call \ {a} : Busy(c) /\ Kind[c] \in {"start", "login"} /\ pc[c] \notin Closing}

(* Mutant: _safe_close cancels the listener and goes on. *)
CloseAtOnce(a, links) ==
    /\ clash' = (clash \/ Opening(a) # {})
    /\ cancelled' = IF HasListener /\ client.task # a THEN cancelled \cup {client.task} ELSE cancelled
    /\ CloseSocket(a, [client EXCEPT !.task = none], links)
    /\ UNCHANGED waits

(* _safe_close: the listener is cancelled and awaited, unless it is the    *)
(* one that calls.                                                         *)
CloseFrom(a, links) ==
    LET gone == [client EXCEPT !.task = none] IN
    /\ clash' = (clash \/ Opening(a) # {})
    /\ IF HasListener /\ client.task # a
       THEN /\ client' = gone
            /\ cancelled' = cancelled \cup {client.task}
            /\ waits' = [waits EXCEPT ![a] = client.task]
            /\ pc' = [pc EXCEPT ![a] = "awaiting"] /\ link' = links
            /\ Left(a) /\ UNCHANGED silenced
       ELSE CloseSocket(a, gone, links) /\ UNCHANGED <<waits, cancelled>>

Close(a) == CloseFrom(a, link)

(* The end of start() and of login(), after the socket: _ensure_listener. *)
Finish(c, links) ==
    CASE ~CannotListen -> Listen(c, "ok") /\ link' = links
      [] CannotListen /\ Kind[c] = "login" -> Stay(c, "failed") /\ link' = links
      [] OTHER -> CloseFrom(c, links)

Connected == client.socket # 0 /\ link[client.socket] = store.auth

(* _ensure_socket, which a login forces to connect anew and whose errors   *)
(* are logged, before that.                                                *)
Resume(c) ==
    IF store.open /\ store.auth # 0 /\ (Kind[c] = "login" \/ ~Connected)
    THEN MakeSocket(c) ELSE Finish(c, link)

ListenerEnds(t) == pc' = Woken([pc EXCEPT ![t] = "idle"]) /\ Left(t)

(* The head of the listener loop and receive_update() up to an await. *)
Loop(t) ==
    CASE ~client.connected \/ ~store.open \/ store.auth = 0 ->
            ListenerEnds(t) /\ UNCHANGED <<client, link, waits, cancelled, clash, silenced>>
      [] client.connected /\ store.open /\ store.auth # 0 /\ Connected ->
            /\ on' = [on EXCEPT ![t] = [socket |-> client.socket, auth |-> store.auth]]
            /\ pc' = [pc EXCEPT ![t] = "receiving"]
            /\ UNCHANGED <<client, link, waits, cancelled, clash, silenced>>
      [] OTHER -> MakeSocket(t)

-----------------------------------------------------------------------------
(* start() and stop() *)

(* A program has one start() under way at a time. *)
Start(c) ==
    /\ pc[c] = "idle" /\ Kind[c] = "start"
    /\ \A d \in Call : Kind[d] = "start" => ~Busy(d)
    /\ pc' = [pc EXCEPT ![c] = IF client.connected THEN "ok" ELSE "discovering"]
    /\ store' = [store EXCEPT !.open = TRUE]
    /\ clash' = (clash \/ ClosingNow)
    /\ UNCHANGED <<registered, lock, server, client, link, on, waits, cancelled, silenced, request, errors>>

(* getDCs answered, or the stored configuration has to do. *)
Discovered(c) ==
    /\ pc[c] = "discovering"
    /\ IF store.open
       THEN /\ client' = [client EXCEPT !.connected = TRUE, !.http = TRUE]
            /\ pc' = [pc EXCEPT ![c] = IF store.auth = 0 THEN "ok" ELSE "base_info"]
            /\ UNCHANGED <<link, on, waits, cancelled, clash, silenced>>
       ELSE Close(c)
    /\ UNCHANGED <<session, server, request, errors>>

(* It did not, and is needed: start() closes what it opened. *)
NotDiscovered(c) ==
    /\ pc[c] = "discovering"
    /\ Error /\ Close(c)
    /\ UNCHANGED <<session, server, request>>

Stop(c) ==
    /\ pc[c] = "idle" /\ Kind[c] = "stop"
    /\ Close(c)
    /\ UNCHANGED <<session, server, request, errors>>

ListenerGone(a) ==
    /\ pc[a] = "awaiting" /\ ~Busy(waits[a])
    /\ waits' = [waits EXCEPT ![a] = none]
    /\ CloseSocket(a, client, link)
    /\ UNCHANGED <<session, server, cancelled, clash, request, errors>>

SocketClosed(a) ==
    /\ pc[a] = "closing"
    /\ client' = [client EXCEPT !.http = FALSE]
    /\ pc' = [pc EXCEPT ![a] = "closing_rest"]
    /\ UNCHANGED <<session, server, link, on, waits, cancelled, clash, silenced, request, errors>>

(* The storage goes last.  A listener whose handler called stop() finds    *)
(* the client closed and ends.                                             *)
RestClosed(a) ==
    /\ pc[a] = "closing_rest"
    /\ store' = [store EXCEPT !.open = FALSE]
    /\ client' = [client EXCEPT !.connected = FALSE]
    /\ CASE a \in Task -> ListenerEnds(a)
         [] a \in Call -> pc' = [pc EXCEPT ![a] = IF Kind[a] = "start" THEN "failed" ELSE "ok"] /\ Left(a)
    /\ UNCHANGED <<registered, lock, server, link, waits, cancelled, clash, silenced, request, errors>>

-----------------------------------------------------------------------------
(* invoke(), logout() and register_device(); r is what the flag becomes *)

(* The call raises, or a logout was answered: logout() forgets the auth    *)
(* and closes the socket in any case.                                      *)
Ends(c, how, r) ==
    IF Kind[c] = "logout" /\ store.open
    THEN /\ store' = [store EXCEPT !.auth = 0] /\ registered' = FALSE
         /\ link' = Closed(link, client.socket)
         /\ clash' = (clash \/ \E a \in Actor : pc[a] = "connecting")
         /\ pc' = [pc EXCEPT ![c] = IF client.socket = 0 THEN how ELSE "socket_close"]
         /\ UNCHANGED <<client, on, waits, cancelled, silenced>>
    ELSE Goto(c, how) /\ registered' = r /\ UNCHANGED store

LogoutClosed(c) ==
    /\ pc[c] = "socket_close"
    /\ client' = [client EXCEPT !.socket = 0]
    /\ pc' = [pc EXCEPT ![c] = "ok"]
    /\ UNCHANGED <<session, server, link, on, waits, cancelled, clash, silenced, request, errors>>

(* A login only logs that the device was not registered; start() closes.   *)
NotRegistered(c, next, r) ==
    IF next # "socket" THEN Ends(c, "failed", r)
    ELSE /\ IF Kind[c] = "start" THEN Close(c) ELSE Resume(c)
         /\ registered' = r /\ UNCHANGED store

Unlock == lock' = [holder |-> none, key |-> 0]

(* register_device under the lock, up to its request. *)
Enter(c, next) ==
    IF Ready /\ store.auth # 0
    THEN /\ lock' = [holder |-> c, key |-> store.auth] /\ registered' = FALSE
         /\ Goto(c, "registering") /\ UNCHANGED store
    ELSE NotRegistered(c, next, registered /\ ~store.open) /\ Unlock

LockFree == lock.holder = none /\ \A d \in Call : pc[d] # "waiting"

Register(c, next) ==
    /\ then' = [then EXCEPT ![c] = next]
    /\ CASE ~store.open \/ store.auth = 0 -> NotRegistered(c, next, registered) /\ UNCHANGED lock
         [] store.open /\ store.auth # 0 /\ LockFree -> Enter(c, next)
         [] OTHER -> Goto(c, "waiting") /\ UNCHANGED session

Acquire(c) ==
    /\ pc[c] = "waiting" /\ lock.holder = none
    /\ Enter(c, then[c])
    /\ UNCHANGED <<server, request, errors>>

(* _call_rpc up to an await: the request keeps the auth it finds here. *)
Invoke(c) ==
    /\ pc[c] = "idle" /\ Kind[c] \in {"invoke", "logout"}
    /\ key' = [key EXCEPT ![c] = store.auth]
    /\ CASE ~Ready \/ store.auth = 0 -> Ends(c, "failed", registered) /\ UNCHANGED <<lock, then>>
         [] Ready /\ store.auth # 0 /\ ~registered -> Register(c, "send")
         [] OTHER -> Goto(c, "sending") /\ UNCHANGED <<session, then>>
    /\ UNCHANGED <<server, first, errors>>

(* registerDevice is done: the request goes out, or is made anew, or the   *)
(* login goes on.                                                          *)
Registered(c) ==
    /\ pc[c] = "registering" /\ lock.key \in server.valid
    /\ store.open /\ client.connected
    /\ server' = [server EXCEPT !.known = @ \cup {lock.key}]
    /\ Unlock
    /\ key' = [key EXCEPT ![c] = IF then[c] = "call" THEN store.auth ELSE @]
    /\ CASE then[c] = "socket" -> Resume(c) /\ registered' = TRUE /\ UNCHANGED store
         [] then[c] # "socket" /\ client.http /\ (then[c] = "call" => store.auth # 0) ->
                Goto(c, "sending") /\ registered' = TRUE /\ UNCHANGED store
         [] OTHER -> Ends(c, "failed", TRUE)
    /\ UNCHANGED <<then, first, errors>>

(* Mutant: the lock is not released when the request fails. *)
RegistrationFailsLocked(c) ==
    /\ pc[c] = "registering"
    /\ \/ (lock.key \notin server.valid \/ ~store.open \/ ~client.connected) /\ UNCHANGED errors
       \/ Error
    /\ NotRegistered(c, then[c], registered)
    /\ UNCHANGED <<lock, server, request>>

RegistrationFails(c) ==
    /\ pc[c] = "registering"
    /\ \/ (lock.key \notin server.valid \/ ~store.open \/ ~client.connected) /\ UNCHANGED errors
       \/ Error
    /\ Unlock
    /\ NotRegistered(c, then[c], registered)
    /\ UNCHANGED <<server, request>>

Forget(c) ==
    /\ then' = [then EXCEPT ![c] = "send"]
    /\ key' = [key EXCEPT ![c] = 0] /\ first' = [first EXCEPT ![c] = 0]

(* The answer of the request itself; that of a logout ends the session. *)
Answered(c) ==
    /\ pc[c] = "sending" /\ key[c] \in server.known \cap server.valid
    /\ store.open /\ client.connected
    /\ server' = IF Kind[c] = "logout" THEN [server EXCEPT !.valid = @ \ {key[c]}] ELSE server
    /\ Ends(c, "ok", registered) /\ Forget(c)
    /\ UNCHANGED <<lock, errors>>

(* Mutant: the call is made again with no registration before it. *)
AnsweredNotRegisteredAgain(c) ==
    /\ pc[c] = "sending" /\ key[c] \in server.valid \ server.known
    /\ store.open /\ client.connected
    /\ first' = IF first[c] = 0 THEN [first EXCEPT ![c] = key[c]] ELSE first
    /\ IF first[c] = 0 THEN Goto(c, "sending") /\ UNCHANGED <<session, then>>
       ELSE Ends(c, "unregistered", registered) /\ UNCHANGED <<lock, then>>
    /\ UNCHANGED <<server, key, errors>>

(* NOT_REGISTERED: the device is registered and the call made once more. *)
AnsweredNotRegistered(c) ==
    /\ pc[c] = "sending" /\ key[c] \in server.valid \ server.known
    /\ store.open /\ client.connected
    /\ first' = IF first[c] = 0 THEN [first EXCEPT ![c] = key[c]] ELSE first
    /\ IF first[c] = 0 THEN Register(c, "call")
       ELSE Ends(c, "unregistered", registered) /\ UNCHANGED <<lock, then>>
    /\ UNCHANGED <<server, key, errors>>

(* INVALID_AUTH, no answer, or one that a closed client cannot read. *)
NotAnswered(c) ==
    /\ pc[c] = "sending"
    /\ \/ (key[c] \notin server.valid \/ ~store.open \/ ~client.connected) /\ UNCHANGED errors
       \/ Error
    /\ Ends(c, "failed", registered) /\ Forget(c)
    /\ UNCHANGED <<lock, server>>

-----------------------------------------------------------------------------
(* login() and the rest of start() *)

Login(c) ==
    /\ pc[c] = "idle" /\ Kind[c] = "login"
    /\ pc' = [pc EXCEPT ![c] = CASE store.open /\ store.auth # 0 -> "ok"
                                [] Ready /\ store.auth = 0 -> "signing"
                                [] OTHER -> "failed"]
    /\ clash' = (clash \/ ClosingNow)
    /\ UNCHANGED <<session, server, client, link, on, waits, cancelled, silenced, request, errors>>

(* _finalize_login: the auth is stored, then the device registered.  (If   *)
(* _http is already gone, the registration fails in the next step.)        *)
SignedIn(c) ==
    LET a == server.issued + 1 IN
    /\ pc[c] = "signing"
    /\ store.open /\ client.connected
    /\ server' = [server EXCEPT !.issued = a, !.valid = @ \cup {a}]
    /\ store' = [store EXCEPT !.auth = a] /\ registered' = FALSE
    /\ then' = [then EXCEPT ![c] = "socket"]
    /\ IF LockFree /\ client.http
       THEN lock' = [holder |-> c, key |-> a] /\ Goto(c, "registering")
       ELSE UNCHANGED lock /\ Goto(c, "waiting")
    /\ UNCHANGED <<key, first, errors>>

NotSignedIn(c) ==
    /\ pc[c] = "signing"
    /\ \/ (~store.open \/ ~client.connected) /\ UNCHANGED errors
       \/ Error
    /\ Goto(c, "failed")
    /\ UNCHANGED <<session, server, request>>

(* Whatever became of getBaseInfo, start() makes sure of the registration. *)
BaseInfo(c) ==
    /\ pc[c] = "base_info"
    /\ CASE ~store.open -> Close(c) /\ UNCHANGED <<session, then>>
         [] store.open /\ (registered \/ store.auth = 0) -> Resume(c) /\ UNCHANGED <<session, then>>
         [] OTHER -> Register(c, "socket")
    /\ UNCHANGED <<server, key, first, errors>>

-----------------------------------------------------------------------------
(* connect(), the listener and idle() *)

(* The handshake is accepted: the transport is open, whoever closed it in  *)
(* the meantime.  A listener whose client has no transport any more sleeps *)
(* a second and looks again.                                               *)
Opened(a) ==
    LET links == [link EXCEPT ![on[a].socket] = on[a].auth] IN
    /\ pc[a] = "connecting" /\ a \notin cancelled
    /\ CASE a \in Call -> Finish(a, links)
         [] a \in Task ->
                /\ on' = [on EXCEPT ![a].socket = client.socket]
                /\ pc' = [pc EXCEPT ![a] = IF client.socket = 0 THEN "sleeping" ELSE "receiving"]
                /\ link' = links
                /\ UNCHANGED <<client, waits, cancelled, clash, silenced>>
    /\ UNCHANGED <<session, server, request, errors>>

(* No URL answers the handshake. *)
NotOpened(a) ==
    LET links == Closed(link, on[a].socket) IN
    /\ pc[a] = "connecting" /\ a \notin cancelled
    /\ Error
    /\ IF a \in Call THEN Finish(a, links) ELSE Stay(a, "sleeping") /\ link' = links
    /\ UNCHANGED <<session, server, request>>

(* The handshake is answered by an RpcError, which ends the listener. *)
Refused(t) ==
    /\ pc[t] = "connecting" /\ t \notin cancelled
    /\ Error
    /\ ListenerEnds(t) /\ silenced' = TRUE
    /\ link' = Closed(link, on[t].socket)
    /\ UNCHANGED <<session, server, client, waits, cancelled, clash, request>>

(* A new listener, and one that has slept. *)
Wake(t) ==
    /\ pc[t] \in {"scheduled", "sleeping"} /\ t \notin cancelled
    /\ Loop(t)
    /\ UNCHANGED <<session, server, request, errors>>

(* An update is dispatched, to a handler that may call stop(). *)
Update(t) ==
    /\ pc[t] = "receiving" /\ t \notin cancelled /\ link[on[t].socket] # 0
    /\ Loop(t) \/ Close(t)
    /\ UNCHANGED <<session, server, request, errors>>

(* Mutant: a lost connection ends the listener. *)
DroppedForGood(t) ==
    /\ pc[t] = "receiving" /\ t \notin cancelled /\ link[on[t].socket] = 0
    /\ ListenerEnds(t)
    /\ UNCHANGED <<session, server, client, link, waits, cancelled, clash, silenced, request, errors>>

(* recv() of a closed transport raises. *)
Dropped(t) ==
    /\ pc[t] = "receiving" /\ t \notin cancelled /\ link[on[t].socket] = 0
    /\ Goto(t, "sleeping")
    /\ UNCHANGED <<session, server, request, errors>>

Cancelled(t) ==
    /\ t \in cancelled
    /\ ListenerEnds(t) /\ cancelled' = cancelled \ {t}
    /\ link' = IF pc[t] = "connecting" THEN Closed(link, on[t].socket) ELSE link
    /\ UNCHANGED <<session, server, client, waits, clash, silenced, request, errors>>

Idle(c) ==
    /\ pc[c] = "idle" /\ Kind[c] = "idle"
    /\ IF CannotListen THEN Stay(c, "failed") ELSE Listen(c, "idling")
    /\ UNCHANGED <<session, server, link, request, errors>>

-----------------------------------------------------------------------------
(* A program starts its client before anything else. *)
Begin(c) ==
    \/ Start(c)
    \/ /\ \E d \in Call : Kind[d] = "start" /\ pc[d] \notin {"unused", "idle"}
       /\ Stop(c) \/ Invoke(c) \/ Login(c) \/ Idle(c)

CallStep(c) ==
    \/ Discovered(c) \/ NotDiscovered(c) \/ BaseInfo(c)
    \/ Acquire(c) \/ Registered(c) \/ RegistrationFails(c)
    \/ Answered(c) \/ AnsweredNotRegistered(c) \/ NotAnswered(c) \/ LogoutClosed(c)
    \/ SignedIn(c) \/ NotSignedIn(c)

CloseStep(a) == ListenerGone(a) \/ SocketClosed(a) \/ RestClosed(a)

ConnectStep(a) == Opened(a) \/ NotOpened(a)

ListenerStep(t) == Refused(t) \/ Wake(t) \/ Dropped(t) \/ Cancelled(t)

Progress ==
    \/ \E c \in Call : CallStep(c)
    \/ \E a \in Actor : CloseStep(a) \/ ConnectStep(a)
    \/ \E t \in Task : ListenerStep(t)

Next ==
    \/ Progress
    \/ \E c \in Call : Begin(c)
    \/ \E t \in Task : Update(t)

(* The loop runs something while something can run: requests, handshakes   *)
(* and closes are answered or time out.                                    *)
Fairness == WF_vars(Progress)

Spec == Init /\ [][Next]_vars /\ Fairness

-----------------------------------------------------------------------------
(* Once stop() is through, or a start() failed, nothing of the client is   *)
(* left: no transport and no socket is open, the storage is closed and no  *)
(* listener runs, whatever calls were in flight; _safe_close must stop the *)
(* listener before it takes the socket from under it.  Not when a start,   *)
(* a login or an idle() ran beside a close, or a logout beside a connect:  *)
(* those may open the socket again behind it.                              *)
NothingLeftOpen ==
    ~client.connected /\ ~ClosingNow /\ ~clash
        /\ (\A c \in Call : Kind[c] = "start" => ~Busy(c))
    => /\ ~store.open /\ ~client.http /\ client.socket = 0
       /\ \A s \in Transport : link[s] = 0
       /\ \A t \in Task : ~Busy(t)

(* A session whose device the server forgot heals by itself: with one such *)
(* event no call ends with NOT_REGISTERED, even when others register or    *)
(* log out beside it, unless a login gave it another auth between its two  *)
(* attempts.                                                               *)
RegistrationHeals == \A c \in Call : pc[c] = "unregistered" => first[c] # key[c]

(* Every call returns: none waits for ever for the register lock, nor a    *)
(* stop() for a listener that waits for it, and idle() returns once the    *)
(* client is closed, unless it was called while the client was closing.    *)
CallsReturn ==
    <>[](\A c \in Call : Busy(c) => Kind[c] = "idle" /\ (client.connected \/ clash))

(* A client that stays connected and logged in has a listener, whatever    *)
(* lost sockets, logouts and logins went before: only a refused handshake  *)
(* leaves it without updates.                                              *)
UpdatesFlow ==
    <>[](client.connected /\ store.auth # 0 => HasListener \/ silenced)
=============================================================================
