------------------------- MODULE ClientSessionProofs -------------------------
(***************************************************************************)
(* What ClientSession promises for any program of calls, any numbers of    *)
(* listeners and transports, and any losses, failures and cancellations.   *)
(*                                                                         *)
(* Registration: the auth a call began with is never newer than the last   *)
(* one issued, whoever holds the lock registers that one, and a device     *)
(* once known stays known.                                                 *)
(*                                                                         *)
(* Closing: as long as no close met an opening (clash), nobody opens while *)
(* somebody closes, a transport is opened only while the client holds it,  *)
(* and a listener is the client's own or cancelled and awaited.            *)
(***************************************************************************)
EXTENDS ClientSession, TLAPS

Opens(c) == Kind[c] \in {"start", "login"}

TypedSession ==
    /\ store \in [open : BOOLEAN, auth : Nat] /\ registered \in BOOLEAN
    /\ lock \in [holder : Call \cup {none}, key : Nat]
    /\ server \in [issued : Nat, valid : SUBSET Nat, known : SUBSET Nat]
    /\ then \in [Call -> {"send", "call", "socket"}]
    /\ key \in [Call -> Nat] /\ first \in [Call -> Nat]

Typed ==
    /\ client \in [connected : BOOLEAN, http : BOOLEAN,
                   socket : Transport \cup {0}, task : Task \cup {none}]
    /\ link \in [Transport -> Nat]
    /\ pc \in [Actor -> PC]
    /\ on \in [Actor -> [socket : Transport \cup {0}, auth : Nat]]
    /\ waits \in [Actor -> Task \cup {none}]
    /\ cancelled \in SUBSET Task /\ clash \in BOOLEAN

(* A call and its attempts to be answered. *)
Attempts(c) ==
    /\ first[c] <= server.issued /\ key[c] <= server.issued
    /\ Opens(c) => first[c] = 0
    /\ first[c] # 0 =>
        /\ pc[c] \in {"waiting", "registering", "sending", "socket_close", "ok", "failed", "unregistered"}
        /\ pc[c] \in {"waiting", "registering"} => then[c] = "call"
    /\ pc[c] = "registering" => lock.holder = c
    /\ pc[c] = "registering" /\ first[c] = server.issued => lock.key = server.issued
    /\ pc[c] = "sending" /\ first[c] # 0 /\ key[c] = first[c] => first[c] \in server.known
    /\ pc[c] = "unregistered" => first[c] # key[c]

Registering == store.auth \in {0, server.issued} /\ \A c \in Call : Attempts(c)

(* Where calls of each kind, and listeners, can be. *)
Place(c) ==
    /\ pc[c] \in {"discovering", "base_info"} => Kind[c] = "start"
    /\ pc[c] = "signing" => Kind[c] = "login"
    /\ pc[c] = "connecting" => Opens(c)
    /\ pc[c] \in {"waiting", "registering"} => (then[c] = "socket" <=> Opens(c))
    /\ pc[c] = "sending" => ~Opens(c)
    /\ pc[c] \in Closing => Kind[c] \in {"start", "stop"}
    /\ pc[c] \notin {"scheduled", "receiving", "sleeping"}

Listening ==
    /\ \A t \in Task : pc[t] \in Closing \cup {"idle", "scheduled", "receiving", "connecting", "sleeping"}
    /\ \A a \in Actor : pc[a] = "awaiting" => waits[a] \in Task
    /\ \A t \in cancelled : Busy(t) /\ pc[t] \notin Closing
    /\ client.task # none => pc[client.task] \notin Closing

(* While something closes the client, nothing opens it ... *)
Shutting ==
    ClosingNow =>
        /\ client.task = none
        /\ \A c \in Call : Opens(c) /\ Busy(c) => pc[c] \in Closing

(* ... and what is closed stays closed. *)
Emptied ==
    \A a \in Actor :
        /\ pc[a] \in {"closing", "closing_rest"} => client.socket = 0
        /\ pc[a] = "closing_rest" => ~client.http

Fits(links) ==
    \A s \in Transport : links[s] # 0 => s = client.socket /\ \A c \in Call : pc[c] # "socket_close"

(* A transport is opened only while the client holds it. *)
Dials ==
    \A a \in Actor : pc[a] = "connecting" /\ a \notin cancelled =>
        /\ client.socket # 0 /\ on[a].socket = client.socket
        /\ \A c \in Call : pc[c] # "socket_close"

Discovering == \E c \in Call : pc[c] = "discovering"

(* What is open belongs to a client that is connected, that start() is     *)
(* about to connect, or that something closes.                             *)
Held ==
    /\ store.open /\ ~client.connected => ClosingNow \/ Discovering
    /\ client.http => client.connected
    /\ client.socket # 0 => client.connected
    /\ \A c \in Call : Opens(c) /\ pc[c] \in {"base_info", "signing", "waiting", "registering", "connecting"}
        => client.connected
    /\ client.task # none /\ Busy(client.task) => client.connected \/ Discovering

(* A listener is the client's, or it is cancelled and awaited. *)
Owned ==
    \A t \in Task : Busy(t) /\ pc[t] \notin Closing =>
        \/ client.task = t /\ t \notin cancelled
        \/ t \in cancelled /\ \E a \in Actor : pc[a] = "awaiting" /\ waits[a] = t

Whole == Shutting /\ Emptied /\ Fits(link) /\ Dials /\ Held /\ Owned

Sound == Typed /\ Listening /\ (\A c \in Call : Place(c)) /\ (~clash => Whole)

ClientInv == TypedSession /\ Registering /\ Sound

(* What a step of the actor a does to program, and keeps of it. *)
Quiet(a) == \A c \in Call \ {a} : pc'[c] = pc[c] \/ (pc[c] = "idling" /\ pc'[c] = "ok")

Kept(a) == Typed' /\ Listening' /\ (~clash' => Whole') /\ Quiet(a)

Calm == {"ok", "failed", "unregistered", "waiting", "registering", "sending", "sleeping"}

LEMMA Names ==
    /\ \A c \in Call : c \in Actor /\ c \notin Task /\ c # none
    /\ \A t \in Task : t \in Actor /\ t \notin Call /\ t # none
    /\ 0 \notin Transport
  BY CallAssumption DEF Actor, Transport

LEMMA KeptPlaces ==
    ASSUME Sound, NEW a \in Actor, Kept(a), \A c \in Call \ {a} : then'[c] = then[c],
           a \in Call => Place(a)'
    PROVE  Sound'
<1>1. ASSUME NEW c \in Call, c # a PROVE Place(c)'
  BY <1>1 DEF Sound, Kept, Quiet, Place, Opens, Closing
<1> QED
  BY <1>1 DEF Sound, Kept

LEMMA OwnedKept ==
    ASSUME Owned, cancelled' = cancelled,
           \A b \in Actor : pc[b] = "awaiting" => pc'[b] = "awaiting" /\ waits'[b] = waits[b],
           \A t \in Task : Busy(t)' /\ pc'[t] \notin Closing =>
               \/ Busy(t) /\ pc[t] \notin Closing /\ (client.task = t => client'.task = t)
               \/ client'.task = t /\ t \notin cancelled
    PROVE  Owned'
<1> SUFFICES ASSUME NEW t \in Task, Busy(t)', pc'[t] \notin Closing,
                    ~(client'.task = t /\ t \notin cancelled)
             PROVE  t \in cancelled /\ \E a \in Actor : pc'[a] = "awaiting" /\ waits'[a] = t
  BY DEF Owned
<1>1. t \in cancelled /\ \E a \in Actor : pc[a] = "awaiting" /\ waits[a] = t
  BY DEF Owned
<1> QED
  BY <1>1

(* A call or listener goes on to a point at which it closes nothing. *)
LEMMA StayKept ==
    ASSUME Sound, store'.open = store.open, NEW a \in Actor, NEW point \in Calm, Stay(a, point),
           link' \in [Transport -> Nat], ~clash => Fits(link'),
           pc[a] \notin Closing \cup {"discovering"},
           a \in Call => /\ point # "sleeping" /\ (Opens(a) => point # "sending" /\ (Busy(a) \/ point \in Rest))
                         /\ Opens(a) /\ ~clash /\ point \in {"waiting", "registering"} => client.connected,
           a \in Task => Busy(a) /\ point = "sleeping"
    PROVE  Kept(a) /\ pc'[a] = point
<1>0. /\ pc' = [pc EXCEPT ![a] = point] /\ on' = [on EXCEPT ![a] = Nowhere]
      /\ client' = client /\ waits' = waits /\ cancelled' = cancelled /\ clash' = clash
  BY DEF Stay, Left
<1>1. pc'[a] = point /\ \A b \in Actor \ {a} : pc'[b] = pc[b] /\ on'[b] = on[b]
  BY <1>0 DEF Sound, Typed
<1>2. Typed'
  BY <1>0 DEF Sound, Typed, Nowhere, Calm, PC, Rest
<1>3. Listening'
  BY <1>0, <1>1, Names DEF Sound, Listening, Typed, Busy, Rest, Closing, Calm
<1>4. Quiet(a)
  BY <1>1, Names DEF Quiet
<1>5. ASSUME ~clash' PROVE Whole'
  <2>1. ClosingNow' <=> ClosingNow
    BY <1>1 DEF ClosingNow, Closing, Calm
  <2>2. Shutting'
    BY <1>0, <1>1, <1>5, <2>1, Names DEF Sound, Whole, Shutting, Busy, Rest, Closing, ClosingNow, Opens, Calm
  <2>3. Emptied' /\ Fits(link)'
    BY <1>0, <1>1, <1>5 DEF Sound, Whole, Emptied, Fits, Closing, Calm
  <2>4. Dials'
    BY <1>0, <1>1, <1>5, Names DEF Sound, Whole, Dials, Calm
  <2>5. Discovering' <=> Discovering
    BY <1>1, Names DEF Discovering, Calm
  <2>6. Held'
    BY <1>0, <1>1, <1>5, <2>1, <2>5, Names DEF Sound, Whole, Held, Opens, Busy, Rest, Typed, Listening, Calm
  <2>7. Owned'
    BY <1>0, <1>1, <1>5, Names DEF Sound, Whole, Owned, Busy, Rest, Closing, Calm
  <2> QED  BY <2>2, <2>3, <2>4, <2>6, <2>7 DEF Whole
<1> QED
  BY <1>1, <1>2, <1>3, <1>4, <1>5 DEF Kept

(* It makes sure of a listener first. *)
LEMMA ListenKept ==
    ASSUME Sound, store'.open = store.open, NEW c \in Call, NEW point \in {"ok", "idling"}, Listen(c, point),
           ~CannotListen, link' \in [Transport -> Nat], ~clash => Fits(link'),
           pc[c] \notin Closing \cup {"discovering"},
           Opens(c) => Busy(c) /\ point = "ok" /\ (~clash => client.connected)
    PROVE  Kept(c) /\ pc'[c] = point
<1>0. /\ on' = [on EXCEPT ![c] = Nowhere] /\ clash' = (clash \/ ClosingNow)
      /\ waits' = waits /\ cancelled' = cancelled /\ c \in Actor /\ c \notin Task
  BY Names DEF Listen, Left
<1>1. CASE HasListener \/ store.auth = 0
  <2>1. pc' = [pc EXCEPT ![c] = point] /\ client' = client
    BY <1>1 DEF Listen
  <2>2. pc'[c] = point /\ \A b \in Actor \ {c} : pc'[b] = pc[b] /\ on'[b] = on[b]
    BY <1>0, <2>1 DEF Sound, Typed
  <2>3. Typed'
    BY <1>0, <2>1 DEF Sound, Typed, Nowhere, PC, Rest
  <2>4. Listening'
    BY <1>0, <2>1, <2>2, Names DEF Sound, Listening, Typed, Busy, Rest, Closing
  <2>5. Quiet(c)
    BY <2>2, Names DEF Quiet
  <2>6. ASSUME ~clash' PROVE Whole'
    <3>1. ~ClosingNow /\ ~ClosingNow'
      BY <1>0, <2>2, <2>6 DEF ClosingNow, Closing
    <3>2. Shutting'
      BY <3>1 DEF Shutting
    <3>3. Emptied' /\ Fits(link)'
      BY <1>0, <2>1, <2>2, <2>6, Names DEF Sound, Whole, Emptied, Fits
    <3>4. Dials'
      BY <1>0, <2>1, <2>2, <2>6, Names DEF Sound, Whole, Dials
    <3>5. Discovering' <=> Discovering
      BY <2>2, Names DEF Discovering
    <3>6. Held'
      BY <1>0, <2>1, <2>2, <2>6, <3>1, <3>5, Names DEF Sound, Whole, Held, Opens, Busy, Rest, Typed, Listening
    <3>7. Owned'
      <4>1. \A b \in Actor : pc[b] = "awaiting" => pc'[b] = "awaiting" /\ waits'[b] = waits[b]
        BY <1>0, <2>2 DEF Closing
      <4>2. \A u \in Task : pc'[u] = pc[u]
        BY <1>0, <2>2, Names
      <4> QED  BY <1>0, <2>1, <2>6, <4>1, <4>2, OwnedKept DEF Sound, Whole, Busy
    <3> QED  BY <3>2, <3>3, <3>4, <3>6, <3>7 DEF Whole
  <2> QED
    BY <2>2, <2>3, <2>4, <2>5, <2>6 DEF Kept
<1>2. CASE ~(HasListener \/ store.auth = 0)
  <2>1. PICK t \in Task : /\ pc[t] = "idle" /\ \A a \in Actor : waits[a] # t
                          /\ client' = [client EXCEPT !.task = t]
                          /\ pc' = [pc EXCEPT ![c] = point, ![t] = "scheduled"]
    <3>1. FreeTask \in FreeTasks
      BY <1>2 DEF Listen, FreeTask
    <3> QED  BY <1>2, <3>1 DEF Listen, FreeTasks
  <2>2. /\ pc'[c] = point /\ pc'[t] = "scheduled" /\ c # t
        /\ \A b \in Actor \ {c, t} : pc'[b] = pc[b] /\ on'[b] = on[b]
    BY <1>0, <2>1, Names DEF Sound, Typed
  <2>3. Typed'
    BY <1>0, <2>1 DEF Sound, Typed, Nowhere, PC, Rest
  <2>4. client'.task = t /\ client'.socket = client.socket /\ client'.http = client.http /\ client'.connected = client.connected
    BY <2>1 DEF Sound, Typed
  <2>5. t \notin cancelled
    BY <2>1 DEF Sound, Listening, Busy, Rest
  <2>6. Listening'
    <3>1. \A u \in Task : u # t => pc'[u] = pc[u]
      BY <2>2, Names
    <3>2. \A u \in Task : pc'[u] \in Closing \cup {"idle", "scheduled", "receiving", "connecting", "sleeping"}
      BY <2>2, <3>1 DEF Sound, Listening
    <3>3. \A u \in cancelled' : Busy(u)' /\ pc'[u] \notin Closing
      BY <1>0, <2>5, <3>1 DEF Sound, Typed, Listening, Busy
    <3>4. \A a \in Actor : pc'[a] = "awaiting" => waits'[a] \in Task
      BY <1>0, <2>2 DEF Sound, Listening
    <3> QED  BY <2>2, <2>4, <3>2, <3>3, <3>4 DEF Listening, Closing
  <2>7. Quiet(c)
    BY <2>2, Names DEF Quiet
  <2>8. ASSUME ~clash' PROVE Whole'
    <3>1. ~ClosingNow /\ ~ClosingNow'
      BY <1>0, <2>2, <2>8 DEF ClosingNow, Closing
    <3>2. Shutting'
      BY <3>1 DEF Shutting
    <3>3. Emptied' /\ Fits(link)'
      BY <1>0, <2>2, <2>4, <2>8, Names DEF Sound, Whole, Emptied, Fits
    <3>4. Dials'
      BY <1>0, <2>2, <2>4, <2>8, Names DEF Sound, Whole, Dials
    <3>5. Discovering' <=> Discovering
      BY <2>2, Names DEF Discovering
    <3>6. Held'
      <4>1. client.connected \/ Discovering
        BY <1>0, <1>2, <2>8, <3>1 DEF Sound, Whole, Held, CannotListen
      <4> QED  BY <1>0, <2>2, <2>4, <2>8, <3>1, <3>5, <4>1, Names DEF Sound, Whole, Held, Opens, Busy, Rest
    <3>7. Owned'
      <4>1. \A b \in Actor : pc[b] = "awaiting" => pc'[b] = "awaiting" /\ waits'[b] = waits[b]
        BY <1>0, <2>1, <2>2 DEF Closing
      <4>2. \A u \in Task : u # t => pc'[u] = pc[u]
        BY <2>2, Names
      <4>3. \A u \in Task : client.task = u => ~Busy(u)
        BY <1>2, Names DEF HasListener
      <4> QED  BY <1>0, <2>4, <2>5, <2>8, <4>1, <4>2, <4>3, OwnedKept DEF Sound, Whole, Busy
    <3> QED  BY <3>2, <3>3, <3>4, <3>6, <3>7 DEF Whole
  <2> QED
    BY <2>2, <2>3, <2>6, <2>7, <2>8 DEF Kept
<1> QED
  BY <1>1, <1>2

(* It connects the client's transport, a new one if there is none. *)
LEMMA MakeSocketKept ==
    ASSUME Sound, TypedSession, store'.open = store.open, NEW a \in Actor, MakeSocket(a),
           pc[a] \notin Closing \cup {"discovering"}, Busy(a), ~clash => client.connected,
           a \in Call => Opens(a), a \notin cancelled
    PROVE  Kept(a) /\ pc'[a] = "connecting"
<1>1. PICK s \in Transport : /\ client.socket # 0 => s = client.socket
                             /\ client' = [client EXCEPT !.socket = s]
                             /\ on' = [on EXCEPT ![a] = [socket |-> s, auth |-> store.auth]]
  <2>1. client.socket = 0 => FreeTransport \in Transport
    BY DEF MakeSocket, FreeTransport, FreeTransports
  <2>2. client.socket # 0 => client.socket \in Transport
    BY DEF Sound, Typed
  <2> QED  BY <2>1, <2>2 DEF MakeSocket
<1>2. /\ pc' = [pc EXCEPT ![a] = "connecting"] /\ clash' = (clash \/ \E c \in Call : pc[c] = "socket_close")
      /\ link' = link /\ waits' = waits /\ cancelled' = cancelled
  BY DEF MakeSocket
<1>3. pc'[a] = "connecting" /\ \A b \in Actor \ {a} : pc'[b] = pc[b] /\ on'[b] = on[b]
  BY <1>1, <1>2 DEF Sound, Typed
<1>4. /\ client'.task = client.task /\ client'.socket = s /\ client'.http = client.http
      /\ client'.connected = client.connected /\ s # 0 /\ on'[a].socket = s
  BY <1>1, Names DEF Sound, Typed
<1>5. Typed'
  BY <1>1, <1>2 DEF Sound, Typed, PC, TypedSession
<1>6. Listening'
  BY <1>2, <1>3, <1>4, Names DEF Sound, Listening, Busy, Rest, Closing
<1>7. Quiet(a)
  BY <1>3, Names DEF Quiet
<1>8. ASSUME ~clash' PROVE Whole'
  <2>1. ~ClosingNow
    BY <1>2, <1>8, Names DEF Sound, Whole, Shutting, Owned, Actor
  <2>2. ~ClosingNow'
    BY <1>3, <2>1 DEF ClosingNow, Closing
  <2>3. Shutting' /\ Emptied'
    BY <2>2 DEF Shutting, Emptied, ClosingNow, Closing
  <2>4. Fits(link)'
    BY <1>1, <1>2, <1>3, <1>4, <1>8, Names DEF Sound, Whole, Fits
  <2>5. Dials'
    BY <1>1, <1>2, <1>3, <1>4, <1>8, Names DEF Sound, Whole, Dials
  <2>6. Held'
    BY <1>2, <1>4, <1>8 DEF Sound, Whole, Held
  <2>7. Owned'
    <3>1. \A b \in Actor : pc[b] = "awaiting" => pc'[b] = "awaiting" /\ waits'[b] = waits[b]
      BY <1>2, <1>3 DEF Closing
    <3>2. \A u \in Task : u # a => pc'[u] = pc[u]
      BY <1>3, Names
    <3> QED  BY <1>2, <1>4, <1>8, <3>1, <3>2, OwnedKept DEF Sound, Whole, Busy
  <2> QED  BY <2>3, <2>4, <2>5, <2>6, <2>7 DEF Whole
<1> QED
  BY <1>3, <1>5, <1>6, <1>7, <1>8 DEF Kept

(* The socket, or what comes after it, is closed: nobody opens the client, *)
(* and every listener but the one that closes is cancelled and awaited.    *)
LEMMA CloseSocketKept ==
    ASSUME Sound, store'.open = store.open, NEW a \in Actor, a \notin cancelled,
           NEW c \in [connected : BOOLEAN, http : BOOLEAN, socket : Transport \cup {0}, task : Task \cup {none}],
           c.task # a, c.task \in {client.task, none}, ~clash' => c.task = none,
           c.socket = client.socket, c.http = client.http, c.connected = client.connected,
           NEW links \in [Transport -> Nat], ~clash => Fits(links), CloseSocket(a, c, links),
           clash' \in BOOLEAN, clash => clash', cancelled' = cancelled,
           waits' \in [Actor -> Task \cup {none}], \A b \in Actor \ {a} : waits'[b] = waits[b],
           ~clash' => \A b \in Call \ {a} : Opens(b) /\ Busy(b) => pc[b] \in Closing,
           ~clash' => \A t \in Task \ {a} : Busy(t) /\ pc[t] \notin Closing =>
               t \in cancelled /\ \E b \in Actor \ {a} : pc[b] = "awaiting" /\ waits[b] = t
    PROVE  Kept(a) /\ pc'[a] \in {"closing", "closing_rest"}
<1>1. /\ pc'[a] \in {"closing", "closing_rest"} /\ on'[a] = Nowhere
      /\ \A b \in Actor \ {a} : pc'[b] = (IF pc[b] = "idling" THEN "ok" ELSE pc[b]) /\ on'[b] = on[b]
  BY DEF CloseSocket, Woken, Left, Sound, Typed
<1>2. /\ client' \in [connected : BOOLEAN, http : BOOLEAN, socket : Transport \cup {0}, task : Task \cup {none}]
      /\ client'.task = c.task /\ client'.socket = 0 /\ client'.connected = client.connected
      /\ (client'.http => client.http) /\ (pc'[a] = "closing_rest" => ~client'.http)
  BY <1>1 DEF CloseSocket, Woken, Sound, Typed
<1>3. link' \in [Transport -> Nat] /\ (~clash => \A s \in Transport : link'[s] = 0)
  BY DEF CloseSocket, Closed, Fits
<1>4. Typed'
  <2>1. pc' \in [Actor -> PC]
    BY DEF CloseSocket, Woken, Sound, Typed, PC, Rest, Closing
  <2>2. on' \in [Actor -> [socket : Transport \cup {0}, auth : Nat]]
    BY DEF CloseSocket, Left, Nowhere, Sound, Typed
  <2> QED  BY <1>2, <1>3, <2>1, <2>2 DEF Sound, Typed
<1>5. Listening'
  <2>1. \A t \in Task : pc'[t] \in Closing \cup {"idle", "scheduled", "receiving", "connecting", "sleeping"}
    BY <1>1, Names DEF Sound, Listening, Closing
  <2>2. \A b \in Actor : pc'[b] = "awaiting" => waits'[b] \in Task
    BY <1>1 DEF Sound, Listening
  <2>3. \A t \in cancelled' : Busy(t)' /\ pc'[t] \notin Closing
    BY <1>1, Names DEF Sound, Typed, Listening, Busy, Rest, Closing
  <2>4. client'.task # none => pc'[client'.task] \notin Closing
    BY <1>1, <1>2, Names DEF Sound, Typed, Listening, Closing
  <2> QED  BY <2>1, <2>2, <2>3, <2>4 DEF Listening
<1>6. Quiet(a)
  BY <1>1, Names DEF Quiet
<1>7. ASSUME ~clash' PROVE Whole'
  <2>0. ClosingNow'
    BY <1>1 DEF ClosingNow, Closing
  <2>1. Shutting'
    BY <1>1, <1>2, <1>7, Names DEF Shutting, Opens, Busy, Rest, Closing
  <2>2. Emptied'
    BY <1>1, <1>2, <1>7 DEF Sound, Whole, Emptied
  <2>3. Fits(link)'
    BY <1>3, <1>7 DEF Fits
  <2>4. Dials'
    <3>1. ASSUME NEW b \in Actor, pc'[b] = "connecting", b \notin cancelled PROVE FALSE
      <4>1. b # a /\ pc[b] = "connecting"
        BY <1>1, <3>1
      <4>2. CASE b \in Call
        BY <1>7, <4>1, <4>2 DEF Sound, Place, Busy, Rest, Closing
      <4>3. CASE b \in Task
        BY <1>7, <3>1, <4>1, <4>3 DEF Busy, Rest, Closing
      <4> QED  BY <4>2, <4>3 DEF Actor
    <3> QED  BY <3>1 DEF Dials
  <2>5. Held'
    BY <1>1, <1>2, <1>7, <2>0, <2>1, Names DEF Sound, Whole, Held, Shutting, Busy, Rest, Closing
  <2>6. Owned'
    <3> SUFFICES ASSUME NEW t \in Task, Busy(t)', pc'[t] \notin Closing
                 PROVE  t \in cancelled /\ \E b \in Actor : pc'[b] = "awaiting" /\ waits'[b] = t
      BY DEF Owned
    <3>1. t # a /\ Busy(t) /\ pc[t] \notin Closing
      BY <1>1, Names DEF Busy, Rest, Closing
    <3>2. PICK b \in Actor \ {a} : t \in cancelled /\ pc[b] = "awaiting" /\ waits[b] = t
      BY <1>7, <3>1
    <3>3. pc'[b] = "awaiting" /\ waits'[b] = t
      BY <1>1, <3>2
    <3> QED  BY <3>2, <3>3
  <2> QED  BY <2>1, <2>2, <2>3, <2>4, <2>5, <2>6 DEF Whole
<1> QED
  BY <1>1, <1>4, <1>5, <1>6, <1>7 DEF Kept

(* _safe_close from its beginning. *)
LEMMA CloseKept ==
    ASSUME Sound, store'.open = store.open, NEW a \in Actor, NEW links \in [Transport -> Nat],
           ~clash => Fits(links), CloseFrom(a, links), pc[a] \notin Closing, a \notin cancelled
    PROVE  Kept(a) /\ pc'[a] \in Closing
<1>1. /\ clash' = (clash \/ Opening(a) # {}) /\ clash \in BOOLEAN
      /\ ~clash' => \A b \in Call \ {a} : Opens(b) /\ Busy(b) => pc[b] \in Closing
  BY DEF CloseFrom, Opening, Opens, Sound, Typed
<1>2. CASE HasListener /\ client.task # a
  <2> DEFINE t == client.task
  <2>0. t \in Task /\ t # a /\ Busy(t) /\ t \in Actor /\ pc[t] \notin Closing
    BY <1>2, Names DEF HasListener, Sound, Typed, Listening
  <2> HIDE DEF t
  <2>1. /\ client' = [client EXCEPT !.task = none] /\ cancelled' = cancelled \cup {t} /\ link' = links
        /\ waits' = [waits EXCEPT ![a] = t] /\ pc' = [pc EXCEPT ![a] = "awaiting"]
        /\ on' = [on EXCEPT ![a] = Nowhere]
    BY <1>2 DEF CloseFrom, Left, t
  <2>2. /\ client'.task = none /\ client'.socket = client.socket
        /\ client'.connected = client.connected /\ client'.http = client.http
    BY <2>1 DEF Sound, Typed
  <2>3. /\ pc'[a] = "awaiting" /\ waits'[a] = t
        /\ \A b \in Actor \ {a} : pc'[b] = pc[b] /\ on'[b] = on[b] /\ waits'[b] = waits[b]
    BY <2>1 DEF Sound, Typed
  <2>4. Typed'
    BY <1>1, <2>0, <2>1 DEF Sound, Typed, Nowhere, PC, Closing
  <2>5. Listening'
    <3>1. \A u \in Task : pc'[u] \in Closing \cup {"idle", "scheduled", "receiving", "connecting", "sleeping"}
      BY <2>3, Names DEF Sound, Listening, Closing
    <3>2. \A b \in Actor : pc'[b] = "awaiting" => waits'[b] \in Task
      BY <2>0, <2>3 DEF Sound, Listening
    <3>3. \A u \in cancelled' : Busy(u)' /\ pc'[u] \notin Closing
      BY <2>0, <2>1, <2>3, Names DEF Sound, Typed, Listening, Busy
    <3> QED  BY <2>2, <3>1, <3>2, <3>3 DEF Listening
  <2>6. Quiet(a)
    BY <2>3, Names DEF Quiet
  <2>7. ASSUME ~clash' PROVE Whole'
    <3>0. ClosingNow'
      BY <2>3 DEF ClosingNow, Closing
    <3>1. Shutting'
      BY <1>1, <2>2, <2>3, <2>7, Names DEF Shutting, Opens, Busy, Rest, Closing
    <3>2. Emptied' /\ Fits(link)'
      BY <1>1, <2>1, <2>2, <2>3, <2>7 DEF Sound, Whole, Emptied, Fits
    <3>3. Dials'
      BY <1>1, <2>1, <2>2, <2>3, <2>7, Names DEF Sound, Whole, Dials
    <3>4. Held'
      BY <1>1, <2>2, <2>3, <2>7, <3>0, <3>1, Names DEF Sound, Whole, Held, Shutting, Busy, Rest, Closing
    <3>5. Owned'
      <4> SUFFICES ASSUME NEW u \in Task, Busy(u)', pc'[u] \notin Closing
                   PROVE  u \in cancelled' /\ \E b \in Actor : pc'[b] = "awaiting" /\ waits'[b] = u
        BY DEF Owned
      <4>1. u # a /\ Busy(u) /\ pc[u] \notin Closing
        BY <2>3, Names DEF Busy, Rest, Closing
      <4>2. CASE u = t
        BY <2>1, <2>3, <4>2
      <4>3. CASE u # t
        <5>1. PICK b \in Actor : u \in cancelled /\ pc[b] = "awaiting" /\ waits[b] = u
          BY <1>1, <2>7, <4>1, <4>3 DEF Sound, Whole, Owned, t
        <5>2. pc'[b] = "awaiting" /\ waits'[b] = u
          BY <2>3, <5>1 DEF Closing
        <5> QED  BY <2>1, <5>1, <5>2
      <4> QED  BY <4>2, <4>3
    <3> QED  BY <3>1, <3>2, <3>3, <3>4, <3>5 DEF Whole
  <2> QED
    BY <2>3, <2>4, <2>5, <2>6, <2>7 DEF Kept, Closing
<1>3. CASE ~(HasListener /\ client.task # a)
  <2> DEFINE c == [client EXCEPT !.task = none]
  <2>1. CloseSocket(a, c, links) /\ waits' = waits /\ cancelled' = cancelled
    BY <1>3 DEF CloseFrom
  <2>2. /\ c \in [connected : BOOLEAN, http : BOOLEAN, socket : Transport \cup {0}, task : Task \cup {none}]
        /\ c.task = none /\ c.socket = client.socket /\ c.http = client.http /\ c.connected = client.connected
    BY DEF Sound, Typed
  <2> HIDE DEF c
  <2>3. ASSUME ~clash', NEW t \in Task \ {a}, Busy(t), pc[t] \notin Closing
        PROVE  t \in cancelled /\ \E b \in Actor \ {a} : pc[b] = "awaiting" /\ waits[b] = t
    <3>1. client.task # t
      BY <1>3, <2>3, Names DEF HasListener
    <3>2. PICK b \in Actor : t \in cancelled /\ pc[b] = "awaiting" /\ waits[b] = t
      BY <1>1, <2>3, <3>1 DEF Sound, Whole, Owned
    <3> QED  BY <3>2 DEF Closing
  <2>4. waits' \in [Actor -> Task \cup {none}] /\ clash' \in BOOLEAN
    BY <1>1, <2>1 DEF Sound, Typed
  <2>5. Kept(a) /\ pc'[a] \in {"closing", "closing_rest"}
    BY <1>1, <2>1, <2>2, <2>3, <2>4, Names, CloseSocketKept DEF Actor
  <2> QED
    BY <2>5 DEF Closing
<1> QED
  BY <1>2, <1>3

(* start() and login() end with a listener, or close what they opened. *)
LEMMA FinishKept ==
    ASSUME Sound, store'.open = store.open, NEW c \in Call, Opens(c), NEW links \in [Transport -> Nat],
           ~clash => Fits(links), Finish(c, links), pc[c] \notin Closing \cup {"discovering"},
           Busy(c), ~clash => client.connected
    PROVE  Kept(c) /\ pc'[c] \in {"ok", "failed"} \cup Closing /\ (Kind[c] = "login" => pc'[c] \notin Closing)
<1>0. c \in Actor /\ c \notin cancelled
  BY Names DEF Sound, Typed
<1>1. CASE ~CannotListen
  <2>1. Listen(c, "ok") /\ link' = links
    BY <1>1 DEF Finish
  <2>2. Kept(c) /\ pc'[c] = "ok"
    BY <1>1, <2>1, ListenKept
  <2> QED  BY <2>2 DEF Closing
<1>2. CASE CannotListen /\ Kind[c] = "login"
  <2>1. Stay(c, "failed") /\ link' = links
    BY <1>2 DEF Finish
  <2>2. Kept(c) /\ pc'[c] = "failed"
    BY <1>0, <2>1, Names, StayKept DEF Calm, Rest
  <2> QED  BY <2>2 DEF Closing
<1>3. CASE CannotListen /\ Kind[c] # "login"
  <2>1. CloseFrom(c, links)
    BY <1>3 DEF Finish
  <2> QED  BY <1>0, <1>3, <2>1, CloseKept
<1> QED
  BY <1>1, <1>2, <1>3

LEMMA ResumeKept ==
    ASSUME Sound, TypedSession, store'.open = store.open, NEW c \in Call, Opens(c), Resume(c),
           pc[c] \notin Closing \cup {"discovering"}, Busy(c), ~clash => client.connected
    PROVE  Kept(c) /\ pc'[c] \in {"ok", "failed", "connecting"} \cup Closing /\ (Kind[c] = "login" => pc'[c] \notin Closing)
<1>0. c \in Actor /\ c \notin cancelled /\ link \in [Transport -> Nat] /\ (~clash => Fits(link))
  BY Names DEF Sound, Typed, Whole
<1>1. CASE MakeSocket(c)
  <2>1. Kept(c) /\ pc'[c] = "connecting"
    BY <1>0, <1>1, MakeSocketKept
  <2> QED  BY <2>1 DEF Closing
<1>2. CASE Finish(c, link)
  BY <1>0, <1>2, FinishKept
<1> QED
  BY <1>1, <1>2 DEF Resume

(* A listener ends: whoever awaits it may go on. *)
LEMMA ListenerEndsKept ==
    ASSUME Sound, store'.open = store.open, NEW t \in Task, pc[t] \notin Closing, ListenerEnds(t),
           client' = client, waits' = waits, clash' = clash, cancelled' = cancelled \ {t},
           link' \in [Transport -> Nat], ~clash => Fits(link')
    PROVE  Kept(t)
<1>1. /\ pc'[t] = "idle" /\ on'[t] = Nowhere
      /\ \A b \in Actor \ {t} : pc'[b] = (IF pc[b] = "idling" THEN "ok" ELSE pc[b]) /\ on'[b] = on[b]
  BY Names DEF ListenerEnds, Woken, Left, Sound, Typed
<1>2. Typed'
  <2>1. pc' \in [Actor -> PC]
    BY DEF ListenerEnds, Woken, Sound, Typed, PC, Rest, Closing
  <2>2. on' \in [Actor -> [socket : Transport \cup {0}, auth : Nat]]
    BY DEF ListenerEnds, Left, Nowhere, Sound, Typed
  <2> QED  BY <2>1, <2>2 DEF Sound, Typed
<1>3. Listening'
  <2>1. \A u \in Task : pc'[u] \in Closing \cup {"idle", "scheduled", "receiving", "connecting", "sleeping"}
    BY <1>1, Names DEF Sound, Listening, Closing
  <2>2. \A b \in Actor : pc'[b] = "awaiting" => waits'[b] \in Task
    BY <1>1 DEF Sound, Listening
  <2>3. \A u \in cancelled' : Busy(u)' /\ pc'[u] \notin Closing
    BY <1>1, Names DEF Sound, Typed, Listening, Busy, Rest, Closing
  <2>4. client'.task # none => pc'[client'.task] \notin Closing
    BY <1>1, Names DEF Sound, Typed, Listening, Closing
  <2> QED  BY <2>1, <2>2, <2>3, <2>4 DEF Listening
<1>4. Quiet(t)
  BY <1>1, Names DEF Quiet
<1>5. ASSUME ~clash' PROVE Whole'
  <2>1. ClosingNow' <=> ClosingNow
    BY <1>1, Names DEF ClosingNow, Closing
  <2>2. Shutting'
    BY <1>1, <1>5, <2>1, Names DEF Sound, Whole, Shutting, Opens, Busy, Rest, Closing
  <2>3. Emptied' /\ Fits(link)'
    BY <1>1, <1>5, Names DEF Sound, Whole, Emptied, Fits
  <2>4. Dials'
    BY <1>1, <1>5, Names DEF Sound, Whole, Dials
  <2>5. Discovering' <=> Discovering
    BY <1>1, Names DEF Discovering
  <2>6. Held'
    BY <1>1, <1>5, <2>1, <2>5, Names DEF Sound, Whole, Held, Opens, Typed, Busy, Rest
  <2>7. Owned'
    <3> SUFFICES ASSUME NEW u \in Task, Busy(u)', pc'[u] \notin Closing
                 PROVE  \/ client.task = u /\ u \notin cancelled'
                        \/ u \in cancelled' /\ \E b \in Actor : pc'[b] = "awaiting" /\ waits'[b] = u
      BY DEF Owned
    <3>1. u # t /\ Busy(u) /\ pc[u] \notin Closing
      BY <1>1, Names DEF Busy, Rest, Closing
    <3>2. CASE client.task = u /\ u \notin cancelled
      BY <3>2
    <3>3. CASE u \in cancelled /\ \E b \in Actor : pc[b] = "awaiting" /\ waits[b] = u
      <4>1. PICK b \in Actor : pc[b] = "awaiting" /\ waits[b] = u
        BY <3>3
      <4>2. pc'[b] = "awaiting"
        BY <1>1, <4>1 DEF Sound, Closing
      <4> QED  BY <3>1, <3>3, <4>1, <4>2
    <3> QED  BY <1>5, <3>1, <3>2, <3>3 DEF Sound, Whole, Owned
  <2> QED  BY <2>2, <2>3, <2>4, <2>6, <2>7 DEF Whole
<1> QED
  BY <1>2, <1>3, <1>4, <1>5 DEF Kept

(* A listener waits for the next message, or until it looks again. *)
LEMMA ReceiveKept ==
    ASSUME Sound, store'.open = store.open, NEW t \in Task, pc[t] \notin Closing, Busy(t), t \notin cancelled,
           NEW point \in {"receiving", "sleeping"}, pc' = [pc EXCEPT ![t] = point],
           on' \in [Actor -> [socket : Transport \cup {0}, auth : Nat]], \A b \in Actor \ {t} : on'[b] = on[b],
           UNCHANGED <<client, waits, cancelled, clash>>, link' \in [Transport -> Nat], ~clash => Fits(link')
    PROVE  Kept(t)
<1>1. pc'[t] = point /\ \A b \in Actor \ {t} : pc'[b] = pc[b] /\ on'[b] = on[b]
  BY Names DEF Sound, Typed
<1>2. Typed'
  BY Names DEF Sound, Typed, PC
<1>3. Listening'
  BY <1>1, Names DEF Sound, Listening, Typed, Busy, Rest, Closing
<1>4. Quiet(t)
  BY <1>1, Names DEF Quiet
<1>5. ASSUME ~clash' PROVE Whole'
  <2>1. ClosingNow' <=> ClosingNow
    BY <1>1, Names DEF ClosingNow, Closing
  <2>2. Shutting'
    BY <1>1, <1>5, <2>1, Names DEF Sound, Whole, Shutting, Opens, Busy, Rest, Closing
  <2>3. Emptied' /\ Fits(link)'
    BY <1>1, <1>5, Names DEF Sound, Whole, Emptied, Fits
  <2>4. Dials'
    BY <1>1, <1>5, Names DEF Sound, Whole, Dials
  <2>5. Discovering' <=> Discovering
    BY <1>1, Names DEF Discovering
  <2>6. Held'
    BY <1>1, <1>5, <2>1, <2>5, Names DEF Sound, Whole, Held, Opens, Typed, Busy, Rest
  <2>7. Owned'
    <3>1. \A b \in Actor : pc[b] = "awaiting" => pc'[b] = "awaiting" /\ waits'[b] = waits[b]
      BY <1>1 DEF Closing
    <3>2. \A u \in Task : u # t => pc'[u] = pc[u]
      BY <1>1, Names
    <3> QED  BY <1>5, <3>1, <3>2, OwnedKept DEF Sound, Whole, Busy
  <2> QED  BY <2>2, <2>3, <2>4, <2>6, <2>7 DEF Whole
<1> QED
  BY <1>2, <1>3, <1>4, <1>5 DEF Kept

LEMMA LoopKept ==
    ASSUME Sound, TypedSession, store'.open = store.open, NEW t \in Task, pc[t] \notin Closing, Busy(t),
           t \notin cancelled, Loop(t)
    PROVE  Kept(t)
<1>0. t \in Actor /\ link \in [Transport -> Nat] /\ (~clash => Fits(link)) /\ pc[t] # "discovering"
  BY Names DEF Sound, Typed, Whole, Listening, Closing
<1>1. CASE ~client.connected \/ ~store.open \/ store.auth = 0
  BY <1>0, <1>1, ListenerEndsKept DEF Loop
<1>2. CASE client.connected /\ store.open /\ store.auth # 0 /\ Connected
  <2>1. client.socket \in Transport /\ store.auth \in Nat
    BY <1>2 DEF Connected, Sound, Typed, TypedSession
  <2>2. /\ on' = [on EXCEPT ![t] = [socket |-> client.socket, auth |-> store.auth]]
        /\ pc' = [pc EXCEPT ![t] = "receiving"]
        /\ UNCHANGED <<client, link, waits, cancelled, clash>>
    BY <1>2 DEF Loop
  <2>3. /\ on' \in [Actor -> [socket : Transport \cup {0}, auth : Nat]]
        /\ \A b \in Actor \ {t} : on'[b] = on[b]
    BY <2>1, <2>2 DEF Sound, Typed
  <2> QED  BY <1>0, <2>2, <2>3, ReceiveKept
<1>3. CASE client.connected /\ store.open /\ store.auth # 0 /\ ~Connected
  <2>1. MakeSocket(t)
    BY <1>3 DEF Loop
  <2> QED  BY <1>0, <1>3, <2>1, Names, MakeSocketKept
<1> QED
  BY <1>1, <1>2, <1>3

-----------------------------------------------------------------------------
(* The session.                                                            *)

LEMMA OthersAttempt ==
    ASSUME TypedSession, Registering, NEW a, Quiet(a),
           \A c \in Call \ {a} : then'[c] = then[c] /\ key'[c] = key[c] /\ first'[c] = first[c],
           \A c \in Call \ {a} : pc[c] = "registering" => lock' = lock,
           server'.issued \in {server.issued, server.issued + 1}, server.known \subseteq server'.known
    PROVE  \A c \in Call \ {a} : Attempts(c)'
<1> SUFFICES ASSUME NEW c \in Call \ {a} PROVE Attempts(c)'
  OBVIOUS
<1>1. first[c] \in Nat /\ key[c] \in Nat /\ server.issued \in Nat
  BY DEF TypedSession
<1>2. first[c] <= server'.issued /\ key[c] <= server'.issued /\ (first[c] = server'.issued => server'.issued = server.issued)
  BY <1>1 DEF Registering, Attempts
<1>3. CASE pc'[c] = pc[c]
  BY <1>2, <1>3 DEF Registering, Attempts, Opens
<1>4. CASE pc[c] = "idling" /\ pc'[c] = "ok"
  BY <1>2, <1>4 DEF Registering, Attempts, Opens
<1> QED
  BY <1>3, <1>4 DEF Quiet

(* A step of a call is sound when it is so for that call. *)
LEMMA CallKeeps ==
    ASSUME ClientInv, NEW c \in Call, Kept(c), TypedSession',
           \A d \in Call \ {c} : then'[d] = then[d] /\ key'[d] = key[d] /\ first'[d] = first[d],
           \A d \in Call \ {c} : pc[d] = "registering" => lock' = lock,
           server'.issued \in {server.issued, server.issued + 1}, server.known \subseteq server'.known,
           store'.auth \in {0, server'.issued}, Place(c)', Attempts(c)'
    PROVE  ClientInv'
<1>1. \A d \in Call \ {c} : Attempts(d)'
  BY OthersAttempt DEF ClientInv, Kept
<1>2. Sound'
  BY KeptPlaces, Names DEF ClientInv
<1> QED
  BY <1>1, <1>2 DEF ClientInv, Registering

(* The others keep what belongs to them when a call has not changed it. *)
LEMMA ListenerKeeps ==
    ASSUME ClientInv, NEW t \in Task, Kept(t), UNCHANGED <<session, server, request>>
    PROVE  ClientInv'
<1>1. \A d \in Call : d # t
  BY Names
<1>2. UNCHANGED <<store, registered, lock, server, then, key, first>>
  BY DEF session, request
<1>3. \A d \in Call : Attempts(d)'
  BY <1>1, <1>2, OthersAttempt DEF ClientInv, Kept, TypedSession
<1>4. Sound'
  BY <1>1, <1>2, KeptPlaces, Names DEF ClientInv
<1> QED
  BY <1>2, <1>3, <1>4 DEF ClientInv, Registering, TypedSession

(* A call is over, or on its way to an end without another request. *)
Released(c) ==
    /\ Kept(c) /\ Place(c)'
    /\ store'.open = store.open /\ store'.auth \in {store.auth, 0}
    /\ store' \in [open : BOOLEAN, auth : Nat] /\ registered' \in BOOLEAN
    /\ pc'[c] \in {"ok", "failed", "connecting", "socket_close"} \cup Closing
    /\ ~Opens(c) => pc'[c] \in {"ok", "failed", "socket_close"}

LEMMA ForgottenKept ==
    ASSUME Sound, NEW c \in Call, NEW how \in {"ok", "failed", "unregistered"},
           pc[c] \notin Closing \cup {"discovering"}, Kind[c] = "logout", store'.open = store.open,
           link' = Closed(link, client.socket), clash' = (clash \/ \E a \in Actor : pc[a] = "connecting"),
           pc' = [pc EXCEPT ![c] = IF client.socket = 0 THEN how ELSE "socket_close"],
           UNCHANGED <<client, on, waits, cancelled>>
    PROVE  Kept(c) /\ pc'[c] \in {how, "socket_close"}
<1>0. ~Opens(c) /\ c \in Actor
  BY Names DEF Opens
<1>1. pc'[c] \in {how, "socket_close"} /\ \A b \in Actor \ {c} : pc'[b] = pc[b]
  BY Names DEF Sound, Typed
<1>2. Typed'
  BY DEF Sound, Typed, Closed, PC, Rest
<1>3. Listening'
  BY <1>0, <1>1, Names DEF Sound, Listening, Typed, Busy, Rest, Closing
<1>4. Quiet(c)
  BY <1>1, Names DEF Quiet
<1>5. ASSUME ~clash' PROVE Whole'
  <2>1. ClosingNow' <=> ClosingNow
    BY <1>0, <1>1 DEF ClosingNow, Closing
  <2>2. Shutting'
    BY <1>0, <1>1, <1>5, <2>1, Names DEF Sound, Whole, Shutting, Busy, Rest, Closing, Opens
  <2>3. Emptied' /\ Fits(link)'
    BY <1>1, <1>5 DEF Sound, Whole, Emptied, Fits, Closing, Closed
  <2>4. Dials'
    BY <1>1, <1>5, Names DEF Dials
  <2>5. Discovering' <=> Discovering
    BY <1>1, Names DEF Discovering
  <2>6. Held'
    BY <1>0, <1>1, <1>5, <2>1, <2>5, Names DEF Sound, Whole, Held, Opens, Typed, Busy, Rest
  <2>7. Owned'
    <3>1. \A b \in Actor : pc[b] = "awaiting" => pc'[b] = "awaiting" /\ waits'[b] = waits[b]
      BY <1>1 DEF Closing
    <3>2. \A u \in Task : pc'[u] = pc[u]
      BY <1>1, Names
    <3> QED  BY <1>5, <3>1, <3>2, OwnedKept DEF Sound, Whole, Busy
  <2> QED  BY <2>2, <2>3, <2>4, <2>6, <2>7 DEF Whole
<1> QED
  BY <1>1, <1>2, <1>3, <1>4, <1>5 DEF Kept

LEMMA EndsKept ==
    ASSUME Sound, TypedSession, NEW c \in Call, NEW how \in {"ok", "failed", "unregistered"}, NEW r \in BOOLEAN,
           Ends(c, how, r), pc[c] \notin Closing \cup {"discovering"}, ~Opens(c)
    PROVE  /\ Kept(c) /\ Place(c)' /\ pc'[c] \in {how, "socket_close"}
           /\ how # "unregistered" => Released(c)
           /\ store'.open = store.open /\ store'.auth \in {store.auth, 0}
           /\ store' \in [open : BOOLEAN, auth : Nat] /\ registered' \in BOOLEAN
<1>0. c \in Actor /\ c \notin Task /\ link \in [Transport -> Nat] /\ (~clash => Fits(link))
  BY Names DEF Sound, Typed, Whole
<1>1. /\ store'.open = store.open /\ store'.auth \in {store.auth, 0}
      /\ store' \in [open : BOOLEAN, auth : Nat] /\ registered' \in BOOLEAN
  <2>1. registered' \in BOOLEAN
    BY DEF Ends
  <2>2. store' = store \/ store' = [store EXCEPT !.auth = 0]
    BY DEF Ends
  <2>3. /\ store'.open = store.open /\ store'.auth \in {store.auth, 0}
        /\ store' \in [open : BOOLEAN, auth : Nat]
    BY <2>2 DEF TypedSession
  <2> QED  BY <2>1, <2>3
<1>2. Kept(c) /\ pc'[c] \in {how, "socket_close"}
  <2>1. CASE Kind[c] = "logout" /\ store.open
    BY <1>1, <2>1, ForgottenKept DEF Ends
  <2>2. CASE Goto(c, how)
    <3>1. Stay(c, how) /\ link' = link
      BY <2>2 DEF Goto
    <3> QED  BY <1>0, <1>1, <3>1, StayKept DEF Calm, Rest
  <2> QED  BY <2>1, <2>2 DEF Ends
<1>3. Place(c)'
  BY <1>2 DEF Place, Closing
<1> QED
  BY <1>1, <1>2, <1>3 DEF Released

LEMMA NotRegisteredKept ==
    ASSUME Sound, TypedSession, NEW c \in Call, NEW next, NEW r \in BOOLEAN, NotRegistered(c, next, r),
           next = "socket" <=> Opens(c), pc[c] \notin Closing \cup {"discovering"},
           Opens(c) => Busy(c) /\ (~clash => client.connected)
    PROVE  Released(c)
<1>1. CASE next # "socket"
  <2>1. Ends(c, "failed", r)
    BY <1>1 DEF NotRegistered
  <2> QED  BY <1>1, <2>1, EndsKept
<1>2. CASE next = "socket"
  <2>0. /\ c \in Actor /\ c \notin cancelled /\ link \in [Transport -> Nat] /\ (~clash => Fits(link))
        /\ store' = store /\ registered' \in BOOLEAN /\ Opens(c)
    BY <1>2, Names DEF Sound, Typed, Whole, NotRegistered
  <2>1. Kept(c) /\ pc'[c] \in {"ok", "failed", "connecting"} \cup Closing /\ (Kind[c] = "login" => pc'[c] \notin Closing)
    <3>1. CASE Kind[c] = "start"
      BY <1>2, <2>0, <3>1, CloseKept DEF NotRegistered, Close
    <3>2. CASE Kind[c] # "start"
      BY <1>2, <2>0, <3>2, ResumeKept DEF NotRegistered
    <3> QED  BY <3>1, <3>2
  <2>2. Place(c)'
    BY <2>0, <2>1 DEF Place, Opens, Closing
  <2> QED
    BY <2>0, <2>1, <2>2 DEF Released, TypedSession
<1> QED
  BY <1>1, <1>2

LEMMA ReleasedKeeps ==
    ASSUME ClientInv, NEW c \in Call, Released(c), server'.issued = server.issued,
           server.known \subseteq server'.known,
           server' \in [issued : Nat, valid : SUBSET Nat, known : SUBSET Nat],
           \A d \in Call \ {c} : then'[d] = then[d] /\ key'[d] = key[d] /\ first'[d] = first[d],
           first'[c] <= server.issued, key'[c] <= server.issued, Opens(c) => first'[c] = 0,
           \A d \in Call \ {c} : pc[d] = "registering" => lock' = lock,
           lock' \in [holder : Call \cup {none}, key : Nat],
           then' \in [Call -> {"send", "call", "socket"}], key' \in [Call -> Nat], first' \in [Call -> Nat]
    PROVE  ClientInv'
<1>1. Attempts(c)'
  BY DEF Released, Attempts, Closing, Opens
<1>2. TypedSession'
  BY DEF Released, TypedSession, ClientInv
<1>3. store'.auth \in {0, server.issued}
  BY DEF Released, ClientInv, Registering
<1> QED
  BY <1>1, <1>2, <1>3, CallKeeps DEF Released, TypedSession

(* What register_device does before its request. *)
Entered(c) ==
    /\ Kept(c) /\ pc'[c] = "registering" /\ store' = store /\ store.auth # 0 /\ registered' \in BOOLEAN
    /\ lock' = [holder |-> c, key |-> store.auth]

LEMMA EnterKept ==
    ASSUME Sound, TypedSession, NEW c \in Call, NEW next, Enter(c, next),
           next = "socket" <=> Opens(c), pc[c] \notin Closing \cup {"discovering"}, Opens(c) => Busy(c),
           Opens(c) /\ ~clash => client.connected
    PROVE  Entered(c) \/ (Released(c) /\ Unlock)
<1>1. CASE Ready /\ store.auth # 0
  <2>1. /\ Stay(c, "registering") /\ link' = link /\ store' = store /\ registered' \in BOOLEAN
        /\ lock' = [holder |-> c, key |-> store.auth]
    BY <1>1 DEF Enter, Goto
  <2>2. c \in Actor /\ c \notin Task /\ link \in [Transport -> Nat] /\ (~clash => Fits(link))
    BY Names DEF Sound, Typed, Whole
  <2>3. Kept(c) /\ pc'[c] = "registering"
    BY <2>1, <2>2, StayKept DEF Calm
  <2> QED  BY <1>1, <2>1, <2>3 DEF Entered
<1>2. CASE ~(Ready /\ store.auth # 0)
  <2>1. NotRegistered(c, next, registered /\ ~store.open) /\ Unlock
    BY <1>2 DEF Enter
  <2>2. (registered /\ ~store.open) \in BOOLEAN
    OBVIOUS
  <2> QED  BY <2>1, <2>2, NotRegisteredKept
<1> QED
  BY <1>1, <1>2

LEMMA EnteredKeeps ==
    ASSUME ClientInv, NEW c \in Call, Entered(c), UNCHANGED server,
           \A d \in Call \ {c} : then'[d] = then[d] /\ key'[d] = key[d] /\ first'[d] = first[d],
           then'[c] = "socket" <=> Opens(c), first'[c] # 0 => then'[c] = "call",
           first'[c] <= server.issued, key'[c] <= server.issued,
           \A d \in Call \ {c} : pc[d] # "registering",
           then' \in [Call -> {"send", "call", "socket"}], key' \in [Call -> Nat], first' \in [Call -> Nat]
    PROVE  ClientInv'
<1>1. store.auth = server.issued /\ store.auth \in Nat
  BY DEF Entered, ClientInv, Registering, TypedSession
<1>2. Attempts(c)'
  BY <1>1 DEF Entered, Attempts, Opens
<1>3. Place(c)'
  BY DEF Entered, Place, Opens, Closing
<1>4. TypedSession'
  BY <1>1 DEF Entered, TypedSession, ClientInv
<1> QED
  BY <1>1, <1>2, <1>3, <1>4, CallKeeps DEF Entered

LEMMA LockHeld ==
    ASSUME ClientInv, NEW c \in Call, lock.holder = none \/ pc[c] = "registering"
    PROVE  \A d \in Call \ {c} : pc[d] # "registering"
  BY Names DEF ClientInv, Registering, Attempts

(* register_device() called by c, for itself or for a request. *)
LEMMA RegisterKeeps ==
    ASSUME ClientInv, NEW c \in Call, NEW next \in {"send", "call", "socket"}, Register(c, next),
           UNCHANGED server, next = "socket" <=> Opens(c), pc[c] \notin Closing \cup {"discovering", "registering"},
           Opens(c) => Busy(c) /\ (~clash => client.connected),
           \A d \in Call \ {c} : key'[d] = key[d] /\ first'[d] = first[d],
           first'[c] <= server.issued, key'[c] <= server.issued,
           first'[c] # 0 => next = "call", key' \in [Call -> Nat], first' \in [Call -> Nat]
    PROVE  ClientInv'
<1>0. Sound /\ TypedSession /\ c \in Actor /\ c \notin Task /\ link \in [Transport -> Nat] /\ (~clash => Fits(link))
  BY Names DEF ClientInv, Sound, Typed, Whole
<1>1. /\ then' \in [Call -> {"send", "call", "socket"}] /\ then'[c] = next
      /\ \A d \in Call \ {c} : then'[d] = then[d]
  BY <1>0 DEF Register, TypedSession
<1>2. CASE ~store.open \/ store.auth = 0
  <2>1. NotRegistered(c, next, registered) /\ UNCHANGED lock
    BY <1>2 DEF Register
  <2>2. Released(c)
    BY <1>0, <2>1, NotRegisteredKept DEF TypedSession
  <2>3. lock' \in [holder : Call \cup {none}, key : Nat]
    BY <1>0, <2>1 DEF TypedSession
  <2> QED  BY <1>0, <1>1, <2>1, <2>2, <2>3, ReleasedKeeps DEF TypedSession
<1>3. CASE store.open /\ store.auth # 0 /\ LockFree
  <2>1. Enter(c, next) /\ lock.holder = none
    BY <1>3 DEF Register, LockFree
  <2>2. \A d \in Call \ {c} : pc[d] # "registering"
    BY <2>1, LockHeld
  <2>3. CASE Entered(c)
    BY <1>1, <2>2, <2>3, EnteredKeeps
  <2>4. CASE Released(c) /\ Unlock
    <3>1. lock' \in [holder : Call \cup {none}, key : Nat]
      BY <2>4 DEF Unlock
    <3> QED  BY <1>0, <1>1, <2>2, <2>4, <3>1, ReleasedKeeps DEF TypedSession
  <2> QED  BY <1>0, <2>1, <2>3, <2>4, EnterKept
<1>4. CASE store.open /\ store.auth # 0 /\ ~LockFree
  <2>1. Stay(c, "waiting") /\ link' = link /\ UNCHANGED <<store, registered, lock>>
    BY <1>4 DEF Register, Goto, session
  <2>2. Kept(c) /\ pc'[c] = "waiting"
    BY <1>0, <2>1, StayKept DEF Calm
  <2>3. Place(c)' /\ Attempts(c)'
    BY <1>1, <2>2 DEF Place, Attempts, Opens, Closing
  <2>4. TypedSession' /\ store'.auth \in {0, server.issued}
    BY <1>0, <1>1, <2>1 DEF TypedSession, ClientInv, Registering
  <2> QED  BY <1>1, <2>1, <2>2, <2>3, <2>4, CallKeeps
<1> QED
  BY <1>2, <1>3, <1>4

-----------------------------------------------------------------------------
(* start(), stop() and the steps of a close                                *)

LEMMA Parts ==
    ASSUME ClientInv
    PROVE  /\ Sound /\ TypedSession /\ link \in [Transport -> Nat] /\ (~clash => Fits(link))
           /\ \A c \in Call : c \notin cancelled /\ Place(c) /\ Attempts(c)
           /\ \A t \in cancelled : pc[t] \notin Closing
  BY Names DEF ClientInv, Sound, Typed, Whole, Registering, Listening

(* A call of Kept whose requests are not concerned. *)
LEMMA OtherwiseKeeps ==
    ASSUME ClientInv, NEW c \in Call, Kept(c), UNCHANGED <<lock, server, request>>, TypedSession',
           store'.auth \in {store.auth, 0}, Place(c)', pc'[c] \notin {"registering", "sending", "unregistered"},
           first[c] # 0 => pc'[c] \in {"ok", "failed", "socket_close"}
    PROVE  ClientInv'
<1>1. UNCHANGED <<then, key, first>>
  BY DEF request
<1>2. Attempts(c)'
  BY <1>1, Parts DEF Attempts, Opens
<1> QED
  BY <1>1, <1>2, CallKeeps DEF ClientInv, Registering, TypedSession

(* start() and login() begin, but not while something closes the client.   *)
LEMMA BeginKept ==
    ASSUME ClientInv, NEW c \in Call, NEW point \in {"ok", "failed", "discovering", "signing"},
           pc[c] = "idle", pc' = [pc EXCEPT ![c] = point], clash' = (clash \/ ClosingNow),
           UNCHANGED <<client, link, on, waits, cancelled>>,
           store'.open = store.open \/ client.connected \/ point = "discovering",
           point = "signing" => client.connected
    PROVE  Kept(c) /\ pc'[c] = point
<1>1. /\ c \in Actor /\ pc'[c] = point /\ \A b \in Actor \ {c} : pc'[b] = pc[b]
  BY Names, Parts DEF Sound, Typed
<1>3. Typed'
  BY Parts DEF Sound, Typed, PC, Rest
<1>4. Listening'
  BY <1>1, Names, Parts DEF Sound, Listening, Typed, Busy, Rest, Closing
<1>5. Quiet(c)
  BY <1>1, Names DEF Quiet
<1>6. ASSUME ~clash' PROVE Whole'
  <2>1. ~ClosingNow /\ ~ClosingNow'
    BY <1>1, <1>6 DEF ClosingNow, Closing
  <2>2. Shutting' /\ Emptied'
    BY <2>1 DEF Shutting, Emptied, ClosingNow, Closing
  <2>3. Fits(link)'
    BY <1>1, <1>6, Names, Parts DEF Fits
  <2>4. Dials'
    BY <1>1, <1>6, Names, Parts DEF Sound, Whole, Dials
  <2>5. Discovering => Discovering'
    BY <1>1, Names DEF Discovering
  <2>6. point = "discovering" => Discovering'
    BY <1>1 DEF Discovering
  <2>7. Held'
    BY <1>1, <1>6, <2>1, <2>5, <2>6, Names, Parts DEF Sound, Whole, Held, Opens, Busy, Rest, Typed, Listening
  <2>8. Owned'
    <3>1. \A b \in Actor : pc[b] = "awaiting" => pc'[b] = "awaiting" /\ waits'[b] = waits[b]
      BY <1>1
    <3>2. \A u \in Task : pc'[u] = pc[u]
      BY <1>1, Names
    <3> QED  BY <1>6, <3>1, <3>2, Parts, OwnedKept DEF Sound, Whole, Busy
  <2> QED  BY <2>2, <2>3, <2>4, <2>7, <2>8 DEF Whole
<1> QED
  BY <1>1, <1>3, <1>4, <1>5, <1>6 DEF Kept

LEMMA StartKeeps == ASSUME ClientInv, NEW c \in Call, Start(c) PROVE ClientInv'
<1>0. /\ pc[c] = "idle" /\ Kind[c] = "start" /\ store' = [store EXCEPT !.open = TRUE]
      /\ UNCHANGED <<registered, lock, server, request>>
  BY DEF Start
<1>1. Kept(c) /\ pc'[c] \in {"ok", "discovering"}
  <2>1. CASE client.connected
    BY <1>0, <2>1, BeginKept DEF Start
  <2>2. CASE ~client.connected
    BY <1>0, <2>2, BeginKept DEF Start
  <2> QED  BY <2>1, <2>2
<1>2. TypedSession' /\ store'.auth = store.auth
  BY <1>0, Parts DEF TypedSession, request
<1>3. Place(c)' /\ first[c] = 0
  BY <1>0, <1>1, Parts DEF Place, Attempts, Closing
<1> QED
  BY <1>0, <1>1, <1>2, <1>3, OtherwiseKeeps

LEMMA LoginKeeps == ASSUME ClientInv, NEW c \in Call, Login(c) PROVE ClientInv'
<1>0. pc[c] = "idle" /\ Kind[c] = "login" /\ UNCHANGED <<session, server, request>>
  BY DEF Login
<1>1. PICK point \in {"ok", "failed", "signing"} :
          pc' = [pc EXCEPT ![c] = point] /\ (point = "signing" => client.connected)
  BY DEF Login, Ready
<1>2. TypedSession' /\ store' = store /\ lock' = lock
  BY <1>0, Parts DEF TypedSession, session, request
<1>3. Kept(c) /\ pc'[c] = point
  BY <1>0, <1>1, <1>2, BeginKept DEF Login
<1>4. Place(c)' /\ first[c] = 0
  BY <1>0, <1>1, <1>3, Parts DEF Place, Attempts, Closing
<1> QED
  BY <1>0, <1>1, <1>2, <1>3, <1>4, OtherwiseKeeps

(* The calls that close the client are start() and stop(). *)
LEMMA ClosesKeeps ==
    ASSUME ClientInv, NEW c \in Call, Close(c), pc[c] \notin Closing, Kind[c] \in {"start", "stop"},
           UNCHANGED <<session, server, request>>, first[c] = 0
    PROVE  ClientInv'
<1>1. Kept(c) /\ pc'[c] \in Closing
  BY Parts, Names, CloseKept DEF Close, session
<1>2. Place(c)'
  BY <1>1 DEF Place, Closing
<1>3. TypedSession' /\ store' = store /\ lock' = lock
  BY Parts DEF TypedSession, session, request
<1> QED
  BY <1>1, <1>2, <1>3, OtherwiseKeeps DEF Closing

LEMMA DiscoveredKeeps == ASSUME ClientInv, NEW c \in Call, Discovered(c) PROVE ClientInv'
<1>0. pc[c] = "discovering" /\ Kind[c] = "start" /\ first[c] = 0 /\ UNCHANGED <<session, server, request>>
  BY Parts DEF Discovered, Place, Attempts
<1>1. CASE ~store.open
  BY <1>0, <1>1, ClosesKeeps DEF Discovered, Closing
<1>2. CASE store.open
  <2>0. /\ client' = [client EXCEPT !.connected = TRUE, !.http = TRUE]
        /\ pc' = [pc EXCEPT ![c] = IF store.auth = 0 THEN "ok" ELSE "base_info"]
        /\ UNCHANGED <<link, on, waits, cancelled, clash>>
    BY <1>2 DEF Discovered
  <2>1. /\ pc'[c] \in {"ok", "base_info"} /\ \A b \in Actor \ {c} : pc'[b] = pc[b]
        /\ client'.connected /\ client'.socket = client.socket /\ client'.task = client.task
    BY <2>0, Names, Parts DEF Sound, Typed
  <2>2. TypedSession' /\ store' = store /\ lock' = lock
    BY <1>0, Parts DEF TypedSession, session, request
  <2>3. Typed'
    BY <2>0, Parts DEF Sound, Typed, PC, Rest
  <2>4. Listening'
    BY <1>0, <2>0, <2>1, Names, Parts DEF Sound, Listening, Typed, Busy, Rest, Closing
  <2>5. Quiet(c)
    BY <2>1, Names DEF Quiet
  <2>6. ASSUME ~clash' PROVE Whole'
    <3>1. ~ClosingNow
      BY <1>0, <2>0, <2>6, Parts DEF Sound, Whole, Shutting, Opens, Busy, Rest, Closing
    <3>2. ~ClosingNow'
      BY <2>1, <3>1 DEF ClosingNow, Closing
    <3>3. Shutting' /\ Emptied'
      BY <3>2 DEF Shutting, Emptied, ClosingNow, Closing
    <3>4. Fits(link)'
      BY <2>0, <2>1, <2>6, Parts DEF Fits
    <3>5. Dials'
      BY <2>0, <2>1, <2>6, Names, Parts DEF Sound, Whole, Dials
    <3>6. Held'
      BY <2>1 DEF Held
    <3>7. Owned'
      <4>1. \A b \in Actor : pc[b] = "awaiting" => pc'[b] = "awaiting" /\ waits'[b] = waits[b]
        BY <1>0, <2>0, <2>1
      <4>2. \A u \in Task : pc'[u] = pc[u]
        BY <2>1, Names
      <4> QED  BY <2>0, <2>1, <2>6, <4>1, <4>2, Parts, OwnedKept DEF Sound, Whole, Busy
    <3> QED  BY <3>3, <3>4, <3>5, <3>6, <3>7 DEF Whole
  <2>7. Place(c)'
    BY <1>0, <2>1 DEF Place, Closing
  <2> QED
    BY <1>0, <2>1, <2>2, <2>3, <2>4, <2>5, <2>6, <2>7, OtherwiseKeeps DEF Kept
<1> QED
  BY <1>1, <1>2

LEMMA NotDiscoveredKeeps == ASSUME ClientInv, NEW c \in Call, NotDiscovered(c) PROVE ClientInv'
<1>0. pc[c] = "discovering" /\ Kind[c] = "start" /\ first[c] = 0 /\ UNCHANGED <<session, server, request>>
  BY Parts DEF NotDiscovered, Place, Attempts
<1> QED
  BY <1>0, ClosesKeeps DEF NotDiscovered, Closing

LEMMA StopKeeps == ASSUME ClientInv, NEW c \in Call, Stop(c) PROVE ClientInv'
<1>0. pc[c] = "idle" /\ first[c] = 0 /\ UNCHANGED <<session, server, request>>
  BY Parts DEF Stop, Attempts
<1> QED
  BY <1>0, ClosesKeeps DEF Stop, Closing

(* A step of a close, by a call or by a listener. *)
LEMMA CloserKeeps ==
    ASSUME ClientInv, NEW a \in Actor, pc[a] \in Closing, Kept(a), UNCHANGED <<lock, server, request>>, TypedSession',
           store'.auth = store.auth, pc'[a] \in Closing \cup {"ok", "failed", "idle"}
    PROVE  ClientInv'
<1>1. CASE a \in Call
  <2>1. Kind[a] \in {"start", "stop"} /\ first[a] = 0
    BY <1>1, Parts DEF Place, Attempts, Closing
  <2>2. Place(a)'
    BY <2>1 DEF Place, Closing
  <2> QED  BY <1>1, <2>1, <2>2, OtherwiseKeeps DEF Closing
<1>2. CASE a \in Task
  <2>0. \A d \in Call : d # a
    BY <1>2, Names
  <2>1. UNCHANGED <<lock, server, then, key, first>>
    BY DEF request
  <2>2. \A d \in Call : Attempts(d)'
    BY <2>0, <2>1, Parts, OthersAttempt DEF ClientInv, Kept, TypedSession
  <2>3. Sound'
    BY <2>0, <2>1, KeptPlaces, Parts, Names
  <2> QED  BY <2>1, <2>2, <2>3 DEF ClientInv, Registering
<1> QED
  BY <1>1, <1>2 DEF Actor

LEMMA ListenerGoneKeeps == ASSUME ClientInv, NEW a \in Actor, ListenerGone(a) PROVE ClientInv'
<1>0. /\ pc[a] = "awaiting" /\ ~Busy(waits[a]) /\ waits' = [waits EXCEPT ![a] = none]
      /\ CloseSocket(a, client, link) /\ UNCHANGED <<session, server, cancelled, clash, request>>
  BY DEF ListenerGone
<1>1. TypedSession' /\ store' = store /\ lock' = lock
  BY <1>0, Parts DEF TypedSession, session, request
<1>2. client \in [connected : BOOLEAN, http : BOOLEAN, socket : Transport \cup {0}, task : Task \cup {none}]
  BY Parts DEF Sound, Typed
<1>3. client.task # a /\ a \notin cancelled
  BY <1>0, Parts, Names DEF Sound, Listening, Closing, Actor
<1>4. ~clash => client.task = none
  BY <1>0, Parts DEF Sound, Whole, Shutting, ClosingNow, Closing
<1>5. waits' \in [Actor -> Task \cup {none}] /\ \A b \in Actor \ {a} : waits'[b] = waits[b]
  BY <1>0, Parts DEF Sound, Typed
<1>6. ASSUME ~clash, NEW t \in Task \ {a}, Busy(t), pc[t] \notin Closing
      PROVE  t \in cancelled /\ \E b \in Actor \ {a} : pc[b] = "awaiting" /\ waits[b] = t
  <2>1. PICK b \in Actor : t \in cancelled /\ pc[b] = "awaiting" /\ waits[b] = t
    BY <1>4, <1>6, Parts, Names DEF Sound, Whole, Owned
  <2>2. b # a
    BY <1>0, <1>6, <2>1
  <2> QED  BY <2>1, <2>2
<1>7. ~clash => \A b \in Call \ {a} : Opens(b) /\ Busy(b) => pc[b] \in Closing
  BY <1>0, Parts DEF Sound, Whole, Shutting, ClosingNow, Closing
<1>8. Kept(a) /\ pc'[a] \in {"closing", "closing_rest"}
  BY <1>0, <1>1, <1>2, <1>3, <1>4, <1>5, <1>6, <1>7, Parts, CloseSocketKept DEF Sound, Typed
<1> QED
  BY <1>0, <1>1, <1>8, CloserKeeps DEF Closing

LEMMA SocketClosedKeeps == ASSUME ClientInv, NEW a \in Actor, SocketClosed(a) PROVE ClientInv'
<1>0. /\ pc[a] = "closing" /\ client' = [client EXCEPT !.http = FALSE] /\ pc' = [pc EXCEPT ![a] = "closing_rest"]
      /\ UNCHANGED <<session, server, request, link, on, waits, cancelled, clash>>
  BY DEF SocketClosed
<1>1. /\ pc'[a] = "closing_rest" /\ \A b \in Actor \ {a} : pc'[b] = pc[b]
      /\ ~client'.http /\ client'.socket = client.socket /\ client'.task = client.task
      /\ client'.connected = client.connected
  BY <1>0, Parts DEF Sound, Typed
<1>2. TypedSession' /\ store' = store /\ lock' = lock
  BY <1>0, Parts DEF TypedSession, session, request
<1>3. Typed'
  BY <1>0, Parts DEF Sound, Typed, PC, Closing
<1>4. Listening'
  BY <1>0, <1>1, Names, Parts DEF Sound, Listening, Typed, Busy, Rest, Closing
<1>5. Quiet(a)
  BY <1>1, Names DEF Quiet
<1>6. ASSUME ~clash' PROVE Whole'
  <2>1. ClosingNow /\ ClosingNow'
    BY <1>0, <1>1 DEF ClosingNow, Closing
  <2>2. Shutting'
    BY <1>0, <1>1, <1>6, <2>1, Names, Parts DEF Sound, Whole, Shutting, Opens, Busy, Rest, Closing
  <2>3. Emptied' /\ Fits(link)'
    BY <1>0, <1>1, <1>6, Parts DEF Sound, Whole, Emptied, Fits
  <2>4. Dials'
    BY <1>0, <1>1, <1>6, Names, Parts DEF Sound, Whole, Dials
  <2>5. Held'
    BY <1>0, <1>1, <1>2, <1>6, <2>1, <2>2, Names, Parts DEF Sound, Whole, Held, Shutting, Opens, Busy, Rest, Closing
  <2>6. Owned'
    <3>1. \A b \in Actor : pc[b] = "awaiting" => pc'[b] = "awaiting" /\ waits'[b] = waits[b]
      BY <1>0, <1>1
    <3>2. \A u \in Task : pc'[u] = pc[u] \/ pc'[u] \in Closing
      BY <1>1, Names DEF Closing
    <3> QED  BY <1>0, <1>1, <1>6, <3>1, <3>2, Parts, OwnedKept DEF Sound, Whole, Busy
  <2> QED  BY <2>2, <2>3, <2>4, <2>5, <2>6 DEF Whole
<1> QED
  BY <1>0, <1>1, <1>2, <1>3, <1>4, <1>5, <1>6, CloserKeeps DEF Kept, Closing

LEMMA RestClosedKeeps == ASSUME ClientInv, NEW a \in Actor, RestClosed(a) PROVE ClientInv'
<1>0. /\ pc[a] = "closing_rest" /\ client' = [client EXCEPT !.connected = FALSE]
      /\ store' = [store EXCEPT !.open = FALSE]
      /\ UNCHANGED <<registered, lock, server, request, link, waits, cancelled, clash>>
  BY DEF RestClosed
<1>1. /\ pc' \in [Actor -> PC] /\ on' \in [Actor -> [socket : Transport \cup {0}, auth : Nat]]
      /\ pc'[a] \in {"idle", "ok", "failed"} /\ (a \in Task => pc'[a] = "idle")
      /\ \A b \in Actor \ {a} : /\ pc'[b] = pc[b] \/ (pc[b] = "idling" /\ pc'[b] = "ok")
                                /\ on'[b] = on[b]
  <2>1. CASE a \in Task
    <3>1. /\ pc' = Woken([pc EXCEPT ![a] = "idle"]) /\ on' = [on EXCEPT ![a] = Nowhere]
          /\ pc \in [Actor -> PC] /\ on \in [Actor -> [socket : Transport \cup {0}, auth : Nat]]
      BY <2>1, Names, Parts DEF RestClosed, ListenerEnds, Left, Sound, Typed
    <3>2. pc' \in [Actor -> PC] /\ pc'[a] = "idle"
      BY <3>1 DEF Woken, PC, Rest
    <3>3. \A b \in Actor \ {a} : pc'[b] = pc[b] \/ (pc[b] = "idling" /\ pc'[b] = "ok")
      BY <3>1 DEF Woken
    <3> QED  BY <3>1, <3>2, <3>3 DEF Nowhere
  <2>2. CASE a \in Call
    BY <1>0, <2>2, Names, Parts DEF RestClosed, Left, Nowhere, Sound, Typed, PC, Rest
  <2> QED  BY <2>1, <2>2 DEF Actor
<1>2. /\ ~client'.connected /\ client'.socket = client.socket /\ client'.task = client.task
      /\ client'.http = client.http
      /\ client' \in [connected : BOOLEAN, http : BOOLEAN, socket : Transport \cup {0}, task : Task \cup {none}]
  BY <1>0, Parts DEF Sound, Typed
<1>3. TypedSession' /\ ~store'.open /\ store'.auth = store.auth
  BY <1>0, Parts DEF TypedSession, request
<1>4. Typed'
  BY <1>0, <1>1, <1>2, Parts DEF Sound, Typed
<1>5. Listening'
  <2>1. \A u \in Task : pc'[u] \in Closing \cup {"idle", "scheduled", "receiving", "connecting", "sleeping"}
    BY <1>1, Names, Parts DEF Sound, Listening, Closing
  <2>2. \A b \in Actor : pc'[b] = "awaiting" => waits'[b] \in Task
    BY <1>0, <1>1, Parts DEF Sound, Listening
  <2>3. \A u \in cancelled' : Busy(u)' /\ pc'[u] \notin Closing
    BY <1>0, <1>1, Names, Parts DEF Sound, Typed, Listening, Busy, Rest, Closing
  <2>4. client'.task # none => pc'[client'.task] \notin Closing
    BY <1>1, <1>2, Names, Parts DEF Sound, Typed, Listening, Closing
  <2> QED  BY <2>1, <2>2, <2>3, <2>4 DEF Listening
<1>6. Quiet(a)
  BY <1>1, Names DEF Quiet
<1>7. ASSUME ~clash' PROVE Whole'
  <2>1. ClosingNow
    BY <1>0 DEF ClosingNow, Closing
  <2>2. client.task = none /\ ~client.http /\ client.socket = 0
    BY <1>0, <1>7, <2>1, Parts DEF Sound, Whole, Shutting, Emptied
  <2>3. \A c \in Call : Opens(c) /\ Busy(c)' => pc'[c] \in Closing
    BY <1>0, <1>1, <1>7, <2>1, Names, Parts DEF Sound, Whole, Shutting, Busy, Rest, Closing
  <2>4. Shutting'
    BY <1>2, <2>2, <2>3 DEF Shutting, Opens
  <2>5. Emptied' /\ Fits(link)'
    BY <1>0, <1>1, <1>2, <1>7, <2>2, Names, Parts DEF Emptied, Fits
  <2>6. Dials'
    BY <1>0, <1>1, <1>2, <1>7, Names, Parts DEF Sound, Whole, Dials
  <2>7. Held'
    BY <1>2, <1>3, <2>2, <2>3 DEF Held, Opens, Busy, Rest, Closing
  <2>8. Owned'
    <3>1. \A b \in Actor : pc[b] = "awaiting" => pc'[b] = "awaiting" /\ waits'[b] = waits[b]
      BY <1>0, <1>1
    <3>2. \A u \in Task : pc'[u] = pc[u] \/ pc'[u] \in Rest
      BY <1>1, Names, Parts DEF Sound, Listening, Closing, Rest
    <3> QED  BY <1>0, <1>2, <1>7, <3>1, <3>2, Parts, OwnedKept DEF Sound, Whole, Busy
  <2> QED  BY <2>4, <2>5, <2>6, <2>7, <2>8 DEF Whole
<1> QED
  BY <1>0, <1>1, <1>3, <1>4, <1>5, <1>6, <1>7, CloserKeeps DEF Kept, Closing

LEMMA LogoutClosedKeeps == ASSUME ClientInv, NEW c \in Call, LogoutClosed(c) PROVE ClientInv'
<1>0. /\ pc[c] = "socket_close" /\ client' = [client EXCEPT !.socket = 0] /\ pc' = [pc EXCEPT ![c] = "ok"]
      /\ UNCHANGED <<session, server, request, link, on, waits, cancelled, clash>>
  BY DEF LogoutClosed
<1>1. /\ c \in Actor /\ pc'[c] = "ok" /\ \A b \in Actor \ {c} : pc'[b] = pc[b]
      /\ client'.http = client.http /\ client'.socket = 0 /\ client'.task = client.task
      /\ client'.connected = client.connected
  BY <1>0, Names, Parts DEF Sound, Typed
<1>2. TypedSession' /\ store' = store /\ lock' = lock
  BY <1>0, Parts DEF TypedSession, session, request
<1>3. Typed'
  BY <1>0, Parts DEF Sound, Typed, PC, Rest
<1>4. Listening'
  BY <1>0, <1>1, Names, Parts DEF Sound, Listening, Typed, Busy, Rest, Closing
<1>5. Quiet(c)
  BY <1>1, Names DEF Quiet
<1>6. ASSUME ~clash' PROVE Whole'
  <2>1. ClosingNow' <=> ClosingNow
    BY <1>0, <1>1 DEF ClosingNow, Closing
  <2>2. Shutting'
    BY <1>0, <1>1, <1>6, <2>1, Names, Parts DEF Sound, Whole, Shutting, Opens, Busy, Rest, Closing
  <2>3. Emptied' /\ Fits(link)'
    BY <1>0, <1>1, <1>6, Parts DEF Sound, Whole, Emptied, Fits
  <2>4. Dials'
    BY <1>0, <1>1, <1>6, Names, Parts DEF Sound, Whole, Dials
  <2>5. Discovering' <=> Discovering
    BY <1>0, <1>1, Names DEF Discovering
  <2>6. Held'
    BY <1>0, <1>1, <1>2, <1>6, <2>1, <2>5, Names, Parts DEF Sound, Whole, Held, Opens, Typed, Busy, Rest
  <2>7. Owned'
    <3>1. \A b \in Actor : pc[b] = "awaiting" => pc'[b] = "awaiting" /\ waits'[b] = waits[b]
      BY <1>0, <1>1
    <3>2. \A u \in Task : pc'[u] = pc[u]
      BY <1>1, Names
    <3> QED  BY <1>0, <1>1, <1>6, <3>1, <3>2, Parts, OwnedKept DEF Sound, Whole, Busy
  <2> QED  BY <2>2, <2>3, <2>4, <2>6, <2>7 DEF Whole
<1>7. Place(c)'
  BY <1>1 DEF Place, Closing
<1> QED
  BY <1>0, <1>1, <1>2, <1>3, <1>4, <1>5, <1>6, <1>7, OtherwiseKeeps DEF Kept

-----------------------------------------------------------------------------
(* Requests                                                                *)

LEMMA Auths == ASSUME ClientInv PROVE store.auth <= server.issued /\ store.auth \in Nat
  BY DEF ClientInv, Registering, TypedSession

LEMMA InvokeKeeps == ASSUME ClientInv, NEW c \in Call, Invoke(c) PROVE ClientInv'
<1>0. /\ pc[c] = "idle" /\ first[c] = 0 /\ ~Opens(c) /\ UNCHANGED <<server, first>>
      /\ key' = [key EXCEPT ![c] = store.auth]
  BY Parts DEF Invoke, Attempts, Opens
<1>1. /\ key'[c] <= server.issued /\ first'[c] <= server.issued
      /\ key' \in [Call -> Nat] /\ first' \in [Call -> Nat] /\ server.known \subseteq server'.known
      /\ \A d \in Call \ {c} : key'[d] = key[d] /\ first'[d] = first[d]
  BY <1>0, Auths, Parts DEF TypedSession, Attempts
<1>2. CASE ~Ready \/ store.auth = 0
  <2>1. Ends(c, "failed", registered) /\ UNCHANGED <<lock, then>>
    BY <1>2 DEF Invoke
  <2>2. Released(c)
    BY <1>0, <2>1, Parts, EndsKept DEF TypedSession, Closing
  <2> QED  BY <1>0, <1>1, <2>1, <2>2, Parts, ReleasedKeeps DEF TypedSession
<1>3. CASE Ready /\ store.auth # 0 /\ ~registered
  <2>1. Register(c, "send")
    BY <1>3 DEF Invoke
  <2> QED  BY <1>0, <1>1, <2>1, RegisterKeeps DEF Closing
<1>4. CASE Ready /\ store.auth # 0 /\ registered
  <2>1. Stay(c, "sending") /\ link' = link /\ UNCHANGED <<session, then>>
    BY <1>4 DEF Invoke, Goto
  <2>2. Kept(c) /\ pc'[c] = "sending"
    BY <1>0, <2>1, Parts, Names, StayKept DEF Calm, Closing, session
  <2>3. Place(c)' /\ Attempts(c)'
    BY <1>0, <1>1, <2>2 DEF Place, Attempts, Opens, Closing
  <2> QED  BY <1>0, <1>1, <2>1, <2>2, <2>3, Parts, CallKeeps DEF TypedSession, session, ClientInv, Registering
<1> QED
  BY <1>2, <1>3, <1>4

LEMMA WaitingParts ==
    ASSUME ClientInv, NEW c \in Call, pc[c] \in {"waiting", "registering"}
    PROVE  /\ (then[c] = "socket" <=> Opens(c)) /\ Busy(c) /\ pc[c] \notin Closing \cup {"discovering"}
           /\ Opens(c) /\ ~clash => client.connected
           /\ first[c] # 0 => then[c] = "call"
  BY Parts DEF Place, Attempts, Busy, Rest, Closing, Sound, Whole, Held

LEMMA AcquireKeeps == ASSUME ClientInv, NEW c \in Call, Acquire(c) PROVE ClientInv'
<1>0. pc[c] = "waiting" /\ lock.holder = none /\ Enter(c, then[c]) /\ UNCHANGED <<server, then, key, first>>
  BY DEF Acquire, request
<1>1. \A d \in Call \ {c} : pc[d] # "registering"
  BY <1>0, LockHeld
<1>2. Entered(c) \/ (Released(c) /\ Unlock)
  BY <1>0, WaitingParts, Parts, EnterKept
<1>3. first[c] <= server.issued /\ key[c] <= server.issued /\ (Opens(c) => first[c] = 0)
  BY Parts DEF Attempts
<1>4. CASE Entered(c)
  BY <1>0, <1>1, <1>3, <1>4, WaitingParts, Parts, EnteredKeeps DEF TypedSession
<1>5. CASE Released(c) /\ Unlock
  <2>1. lock' \in [holder : Call \cup {none}, key : Nat]
    BY <1>5 DEF Unlock
  <2> QED  BY <1>0, <1>1, <1>3, <1>5, <2>1, Parts, ReleasedKeeps DEF TypedSession
<1> QED
  BY <1>2, <1>4, <1>5

LEMMA RegisteredKeeps == ASSUME ClientInv, NEW c \in Call, Registered(c) PROVE ClientInv'
<1>0. /\ pc[c] = "registering" /\ Unlock /\ UNCHANGED <<then, first>>
      /\ server' = [server EXCEPT !.known = @ \cup {lock.key}]
      /\ key' = [key EXCEPT ![c] = IF then[c] = "call" THEN store.auth ELSE @]
  BY DEF Registered
<1>1. \A d \in Call \ {c} : pc[d] # "registering"
  BY <1>0, LockHeld
<1>2. /\ key'[c] <= server.issued /\ first'[c] <= server.issued /\ (Opens(c) => first'[c] = 0)
      /\ key' \in [Call -> Nat] /\ first' \in [Call -> Nat]
      /\ \A d \in Call \ {c} : key'[d] = key[d] /\ first'[d] = first[d]
      /\ lock' \in [holder : Call \cup {none}, key : Nat]
  BY <1>0, Auths, Parts DEF TypedSession, Attempts, Unlock
<1>3. /\ server'.issued = server.issued /\ server'.known = server.known \cup {lock.key}
      /\ server' \in [issued : Nat, valid : SUBSET Nat, known : SUBSET Nat]
  BY <1>0, Parts DEF TypedSession
<1>4. CASE then[c] = "socket"
  <2>1. Resume(c) /\ registered' = TRUE /\ store' = store
    BY <1>4 DEF Registered
  <2>2. /\ Kept(c) /\ pc'[c] \in {"ok", "failed", "connecting"} \cup Closing
        /\ (Kind[c] = "login" => pc'[c] \notin Closing)
    BY <1>0, <1>4, <2>1, WaitingParts, Parts, ResumeKept
  <2>3. Released(c)
    BY <1>0, <1>4, <2>1, <2>2, WaitingParts, Parts DEF Released, Place, Opens, Closing, TypedSession
  <2> QED  BY <1>0, <1>1, <1>2, <1>3, <2>3, Parts, ReleasedKeeps DEF TypedSession
<1>5. CASE then[c] # "socket" /\ Goto(c, "sending") /\ registered' = TRUE /\ store' = store
  <2>0. ~Opens(c)
    BY <1>0, <1>5, WaitingParts
  <2>1. Kept(c) /\ pc'[c] = "sending"
    BY <1>0, <1>5, <2>0, WaitingParts, Parts, Names, StayKept DEF Calm, Goto
  <2>2. first[c] # 0 /\ key'[c] = first[c] => first[c] \in server'.known
    <3>1. SUFFICES ASSUME first[c] # 0, key'[c] = first[c] PROVE first[c] \in server'.known
      OBVIOUS
    <3>2. key'[c] = store.auth
      BY <1>0, <3>1, WaitingParts, Parts DEF TypedSession
    <3>3. first[c] = server.issued
      BY <3>1, <3>2 DEF ClientInv, Registering
    <3>4. lock.key = server.issued
      BY <1>0, <3>3, Parts DEF Attempts
    <3> QED  BY <1>3, <3>3, <3>4
  <2>3. Place(c)' /\ Attempts(c)'
    BY <1>0, <1>2, <1>3, <2>0, <2>1, <2>2 DEF Place, Attempts, Opens, Closing
  <2> QED  BY <1>0, <1>1, <1>2, <1>3, <1>5, <2>1, <2>3, Parts, CallKeeps DEF TypedSession, ClientInv, Registering
<1>6. CASE then[c] # "socket" /\ Ends(c, "failed", TRUE)
  <2>1. Released(c)
    BY <1>0, <1>6, WaitingParts, Parts, EndsKept
  <2> QED  BY <1>0, <1>1, <1>2, <1>3, <2>1, Parts, ReleasedKeeps DEF TypedSession
<1> QED
  BY <1>4, <1>5, <1>6 DEF Registered

LEMMA RegistrationFailsKeeps == ASSUME ClientInv, NEW c \in Call, RegistrationFails(c) PROVE ClientInv'
<1>0. /\ pc[c] = "registering" /\ Unlock /\ NotRegistered(c, then[c], registered)
      /\ UNCHANGED <<server, then, key, first>>
  BY DEF RegistrationFails, request
<1>1. \A d \in Call \ {c} : pc[d] # "registering"
  BY <1>0, LockHeld
<1>2. Released(c)
  BY <1>0, WaitingParts, Parts, NotRegisteredKept DEF TypedSession
<1>3. /\ first[c] <= server.issued /\ key[c] <= server.issued /\ (Opens(c) => first[c] = 0)
      /\ lock' \in [holder : Call \cup {none}, key : Nat]
  BY <1>0, Parts DEF Attempts, Unlock
<1> QED
  BY <1>0, <1>1, <1>2, <1>3, Parts, ReleasedKeeps DEF TypedSession

(* A request is over and forgotten. *)
LEMMA ForgetKeeps ==
    ASSUME ClientInv, NEW c \in Call, pc[c] = "sending", NEW how \in {"ok", "failed"},
           Ends(c, how, registered), Forget(c), lock' = lock, server'.issued = server.issued,
           server.known \subseteq server'.known, server' \in [issued : Nat, valid : SUBSET Nat, known : SUBSET Nat]
    PROVE  ClientInv'
<1>1. Released(c)
  BY Parts, EndsKept DEF Place, TypedSession, Closing
<1>2. /\ first'[c] = 0 /\ key'[c] = 0 /\ 0 <= server.issued
      /\ then' \in [Call -> {"send", "call", "socket"}] /\ key' \in [Call -> Nat] /\ first' \in [Call -> Nat]
      /\ \A d \in Call \ {c} : then'[d] = then[d] /\ key'[d] = key[d] /\ first'[d] = first[d]
  BY Parts DEF Forget, TypedSession
<1> QED
  BY <1>1, <1>2, Parts, ReleasedKeeps DEF TypedSession

LEMMA AnsweredKeeps == ASSUME ClientInv, NEW c \in Call, Answered(c) PROVE ClientInv'
<1>1. /\ server'.issued = server.issued /\ server.known \subseteq server'.known
      /\ server' \in [issued : Nat, valid : SUBSET Nat, known : SUBSET Nat]
  BY Parts DEF Answered, TypedSession
<1> QED
  BY <1>1, ForgetKeeps DEF Answered

LEMMA NotAnsweredKeeps == ASSUME ClientInv, NEW c \in Call, NotAnswered(c) PROVE ClientInv'
<1>1. /\ server'.issued = server.issued /\ server.known \subseteq server'.known
      /\ server' \in [issued : Nat, valid : SUBSET Nat, known : SUBSET Nat]
  BY Parts DEF NotAnswered, TypedSession
<1> QED
  BY <1>1, ForgetKeeps DEF NotAnswered

LEMMA AnsweredNotRegisteredKeeps ==
    ASSUME ClientInv, NEW c \in Call, AnsweredNotRegistered(c) PROVE ClientInv'
<1>0. /\ pc[c] = "sending" /\ key[c] \notin server.known /\ ~Opens(c) /\ UNCHANGED <<server, key>>
      /\ first[c] <= server.issued /\ key[c] <= server.issued
      /\ first[c] # 0 => first[c] # key[c]
  BY Parts DEF AnsweredNotRegistered, Place, Attempts
<1>1. CASE first[c] = 0
  <2>1. Register(c, "call") /\ first' = [first EXCEPT ![c] = key[c]]
    BY <1>1 DEF AnsweredNotRegistered
  <2>2. /\ first'[c] = key[c] /\ first' \in [Call -> Nat] /\ \A d \in Call \ {c} : first'[d] = first[d]
    BY <2>1, Parts DEF TypedSession
  <2> QED  BY <1>0, <2>1, <2>2, Parts, RegisterKeeps DEF Opens, Closing, TypedSession
<1>2. CASE first[c] # 0
  <2>1. Ends(c, "unregistered", registered) /\ UNCHANGED <<lock, then>> /\ first' = first
    BY <1>2 DEF AnsweredNotRegistered
  <2>2. /\ Kept(c) /\ Place(c)' /\ pc'[c] \in {"unregistered", "socket_close"}
        /\ store'.auth \in {store.auth, 0} /\ store' \in [open : BOOLEAN, auth : Nat] /\ registered' \in BOOLEAN
    BY <1>0, <2>1, Parts, EndsKept DEF TypedSession, Closing
  <2>3. Attempts(c)'
    BY <1>0, <1>2, <2>1, <2>2 DEF Attempts, Opens
  <2> QED  BY <1>0, <2>1, <2>2, <2>3, Parts, CallKeeps DEF TypedSession, ClientInv, Registering
<1> QED
  BY <1>1, <1>2

-----------------------------------------------------------------------------
(* login() and the rest of start()                                         *)

LEMMA SignedInKeeps == ASSUME ClientInv, NEW c \in Call, SignedIn(c) PROVE ClientInv'
<1> DEFINE a == server.issued + 1
<1>0. /\ pc[c] = "signing" /\ Kind[c] = "login" /\ first[c] = 0 /\ UNCHANGED <<key, first>>
      /\ server' = [server EXCEPT !.issued = a, !.valid = @ \cup {a}]
      /\ store' = [store EXCEPT !.auth = a] /\ registered' = FALSE /\ then' = [then EXCEPT ![c] = "socket"]
      /\ link' = link
  BY Parts DEF SignedIn, Place, Attempts, Goto
<1>1. /\ server'.issued = server.issued + 1 /\ server'.known = server.known
      /\ server' \in [issued : Nat, valid : SUBSET Nat, known : SUBSET Nat]
      /\ store'.open = store.open /\ store'.auth = server.issued + 1
      /\ store' \in [open : BOOLEAN, auth : Nat] /\ server.issued \in Nat
  <2>1. server \in [issued : Nat, valid : SUBSET Nat, known : SUBSET Nat] /\ store \in [open : BOOLEAN, auth : Nat]
    BY Parts DEF TypedSession
  <2>2. a \in Nat
    BY <2>1
  <2> QED  BY <1>0, <2>1, <2>2
<1>2. /\ then' \in [Call -> {"send", "call", "socket"}] /\ then'[c] = "socket"
      /\ \A d \in Call \ {c} : then'[d] = then[d]
  BY <1>0, Parts DEF TypedSession
<1>3. ~clash => client.connected
  BY <1>0, Parts DEF Sound, Whole, Held, Opens
<1>4. first[c] <= server'.issued /\ key[c] <= server'.issued /\ key[c] \in Nat
  BY <1>0, <1>1, Parts DEF Attempts, TypedSession
<1>5. CASE LockFree /\ client.http
  <2>1. lock' = [holder |-> c, key |-> a] /\ Stay(c, "registering")
    BY <1>5 DEF SignedIn, Goto
  <2>2. Kept(c) /\ pc'[c] = "registering"
    BY <1>0, <1>1, <1>3, <2>1, Parts, Names, StayKept DEF Calm, Closing, Busy, Rest
  <2>3. \A d \in Call \ {c} : pc[d] # "registering"
    BY <1>5, LockHeld DEF LockFree
  <2>4. Place(c)' /\ Attempts(c)'
    BY <1>0, <1>1, <1>2, <1>4, <2>1, <2>2 DEF Place, Attempts, Opens, Closing
  <2>5. TypedSession'
    BY <1>0, <1>1, <1>2, <2>1, Parts DEF TypedSession
  <2> QED  BY <1>0, <1>1, <1>2, <2>2, <2>3, <2>4, <2>5, CallKeeps
<1>6. CASE ~(LockFree /\ client.http)
  <2>1. lock' = lock /\ Stay(c, "waiting")
    BY <1>6 DEF SignedIn, Goto
  <2>2. Kept(c) /\ pc'[c] = "waiting"
    BY <1>0, <1>1, <1>3, <2>1, Parts, Names, StayKept DEF Calm, Closing, Busy, Rest
  <2>3. Place(c)' /\ Attempts(c)'
    BY <1>0, <1>1, <1>2, <1>4, <2>2 DEF Place, Attempts, Opens, Closing
  <2>4. TypedSession'
    BY <1>0, <1>1, <1>2, <2>1, Parts DEF TypedSession
  <2> QED  BY <1>0, <1>1, <1>2, <2>1, <2>2, <2>3, <2>4, CallKeeps
<1> QED
  BY <1>5, <1>6

LEMMA NotSignedInKeeps == ASSUME ClientInv, NEW c \in Call, NotSignedIn(c) PROVE ClientInv'
<1>0. /\ pc[c] = "signing" /\ UNCHANGED <<session, server, request>> /\ Stay(c, "failed") /\ link' = link
  BY DEF NotSignedIn, Goto
<1>1. TypedSession' /\ store' = store /\ lock' = lock
  BY <1>0, Parts DEF TypedSession, session, request
<1>2. Kept(c) /\ pc'[c] = "failed"
  BY <1>0, <1>1, Parts, Names, StayKept DEF Calm, Closing, Rest
<1>3. Place(c)'
  BY <1>2 DEF Place, Closing
<1> QED
  BY <1>0, <1>1, <1>2, <1>3, OtherwiseKeeps

(* What start() and login() do after the registration. *)
LEMMA OpensKeeps ==
    ASSUME ClientInv, NEW c \in Call, UNCHANGED <<session, server, request>>, first[c] = 0, Opens(c), Kept(c),
           pc'[c] \in {"ok", "failed", "connecting"} \cup Closing, Kind[c] = "login" => pc'[c] \notin Closing
    PROVE  ClientInv'
<1>1. TypedSession' /\ store' = store /\ lock' = lock
  BY Parts DEF TypedSession, session, request
<1>2. Place(c)'
  BY DEF Place, Opens, Closing
<1> QED
  BY <1>1, <1>2, OtherwiseKeeps DEF Closing

LEMMA BaseInfoKeeps == ASSUME ClientInv, NEW c \in Call, BaseInfo(c) PROVE ClientInv'
<1>0. /\ pc[c] = "base_info" /\ Kind[c] = "start" /\ first[c] = 0 /\ Opens(c) /\ Busy(c)
      /\ UNCHANGED <<server, key, first>> /\ pc[c] \notin Closing \cup {"discovering"}
      /\ (~clash => client.connected)
  BY Parts DEF BaseInfo, Place, Attempts, Opens, Busy, Rest, Closing, Sound, Whole, Held
<1>1. CASE ~store.open
  <2>1. Close(c) /\ UNCHANGED <<session, then>>
    BY <1>1 DEF BaseInfo
  <2> QED  BY <1>0, <2>1, ClosesKeeps DEF request
<1>2. CASE store.open /\ (registered \/ store.auth = 0)
  <2>1. Resume(c) /\ UNCHANGED <<session, then>>
    BY <1>2 DEF BaseInfo
  <2>2. Kept(c) /\ pc'[c] \in {"ok", "failed", "connecting"} \cup Closing /\ (Kind[c] = "login" => pc'[c] \notin Closing)
    BY <1>0, <2>1, Parts, ResumeKept DEF session
  <2> QED  BY <1>0, <2>1, <2>2, OpensKeeps DEF request
<1>3. CASE store.open /\ ~(registered \/ store.auth = 0)
  <2>1. Register(c, "socket")
    BY <1>3 DEF BaseInfo
  <2>2. first[c] <= server.issued /\ key[c] <= server.issued /\ key \in [Call -> Nat] /\ first \in [Call -> Nat]
    BY Parts DEF Attempts, TypedSession
  <2> QED  BY <1>0, <2>1, <2>2, RegisterKeeps
<1> QED
  BY <1>1, <1>2, <1>3

-----------------------------------------------------------------------------
(* connect(), the listener and idle()                                      *)

(* A handshake ends: the transport of a keeps, or has not, its link. *)
LEMMA Dialled ==
    ASSUME ClientInv, NEW a \in Actor, pc[a] = "connecting", NEW links,
           \/ links = [link EXCEPT ![on[a].socket] = on[a].auth] /\ a \notin cancelled
           \/ links = Closed(link, on[a].socket)
    PROVE  /\ links \in [Transport -> Nat] /\ (~clash => Fits(links))
           /\ a \in Call => Opens(a) /\ Busy(a) /\ first[a] = 0 /\ (~clash => client.connected)
           /\ a \in Task => Busy(a)
           /\ pc[a] \notin Closing \cup {"discovering"}
<1>1. link \in [Transport -> Nat] /\ on[a].auth \in Nat /\ (~clash => Fits(link) /\ Dials /\ Held)
  BY Parts DEF Sound, Typed, Whole
<1>2. links \in [Transport -> Nat] /\ (~clash => Fits(links))
  BY <1>1 DEF Closed, Fits, Dials
<1>3. a \in Call => Opens(a) /\ first[a] = 0
  BY Parts DEF Place, Attempts
<1> QED
  BY <1>1, <1>2, <1>3 DEF Held, Busy, Rest, Closing

LEMMA OpenedKeeps == ASSUME ClientInv, NEW a \in Actor, Opened(a) PROVE ClientInv'
<1> DEFINE links == [link EXCEPT ![on[a].socket] = on[a].auth]
<1>0. pc[a] = "connecting" /\ a \notin cancelled /\ UNCHANGED <<session, server, request>>
  BY DEF Opened
<1>1. /\ links \in [Transport -> Nat] /\ (~clash => Fits(links))
      /\ a \in Call => Opens(a) /\ Busy(a) /\ first[a] = 0 /\ (~clash => client.connected)
      /\ a \in Task => Busy(a)
      /\ pc[a] \notin Closing \cup {"discovering"}
  BY <1>0, Dialled
<1>2. CASE a \in Call
  <2>1. Finish(a, links)
    BY <1>2, Names DEF Opened
  <2> HIDE DEF links
  <2> QED  BY <1>0, <1>1, <1>2, <2>1, Parts, FinishKept, OpensKeeps DEF session
<1>3. CASE a \in Task
  <2>1. /\ on' = [on EXCEPT ![a].socket = client.socket] /\ link' = links
        /\ pc' = [pc EXCEPT ![a] = IF client.socket = 0 THEN "sleeping" ELSE "receiving"]
        /\ UNCHANGED <<client, waits, cancelled, clash>>
    BY <1>3, Names DEF Opened
  <2> HIDE DEF links
  <2>2. /\ on' \in [Actor -> [socket : Transport \cup {0}, auth : Nat]]
        /\ \A b \in Actor \ {a} : on'[b] = on[b]
    BY <2>1, Parts DEF Sound, Typed
  <2>3. PICK point \in {"receiving", "sleeping"} : pc' = [pc EXCEPT ![a] = point]
    BY <2>1
  <2>4. Kept(a)
    BY <1>0, <1>1, <1>3, <2>1, <2>2, <2>3, Parts, ReceiveKept DEF session
  <2> QED  BY <1>0, <1>3, <2>4, ListenerKeeps
<1> QED
  BY <1>2, <1>3 DEF Actor

LEMMA NotOpenedKeeps == ASSUME ClientInv, NEW a \in Actor, NotOpened(a) PROVE ClientInv'
<1> DEFINE links == Closed(link, on[a].socket)
<1>0. pc[a] = "connecting" /\ a \notin cancelled /\ UNCHANGED <<session, server, request>>
  BY DEF NotOpened
<1>1. /\ links \in [Transport -> Nat] /\ (~clash => Fits(links))
      /\ a \in Call => Opens(a) /\ Busy(a) /\ first[a] = 0 /\ (~clash => client.connected)
      /\ a \in Task => Busy(a)
      /\ pc[a] \notin Closing \cup {"discovering"}
  BY <1>0, Dialled
<1>2. CASE a \in Call
  <2>1. Finish(a, links)
    BY <1>2, Names DEF NotOpened
  <2> HIDE DEF links
  <2> QED  BY <1>0, <1>1, <1>2, <2>1, Parts, FinishKept, OpensKeeps DEF session
<1>3. CASE a \in Task
  <2>1. Stay(a, "sleeping") /\ link' = links
    BY <1>3, Names DEF NotOpened
  <2> HIDE DEF links
  <2>2. Kept(a)
    BY <1>0, <1>1, <1>3, <2>1, Names, Parts, StayKept DEF session, Calm
  <2> QED  BY <1>0, <1>3, <2>2, ListenerKeeps
<1> QED
  BY <1>2, <1>3 DEF Actor

LEMMA RefusedKeeps == ASSUME ClientInv, NEW t \in Task, Refused(t) PROVE ClientInv'
<1>0. /\ pc[t] = "connecting" /\ t \notin cancelled /\ ListenerEnds(t) /\ link' = Closed(link, on[t].socket)
      /\ UNCHANGED <<session, server, request, client, waits, cancelled, clash>> /\ t \in Actor
  BY Names DEF Refused
<1>1. link' \in [Transport -> Nat] /\ (~clash => Fits(link')) /\ pc[t] \notin Closing
  BY <1>0, Dialled
<1>2. cancelled' = cancelled \ {t}
  BY <1>0
<1>3. Kept(t)
  BY <1>0, <1>1, <1>2, Parts, ListenerEndsKept DEF session
<1> QED
  BY <1>0, <1>3, ListenerKeeps

LEMMA WakeKeeps == ASSUME ClientInv, NEW t \in Task, Wake(t) PROVE ClientInv'
<1>0. /\ pc[t] \notin Closing /\ Busy(t) /\ t \notin cancelled /\ Loop(t) /\ UNCHANGED <<session, server, request>>
  BY DEF Wake, Closing, Busy, Rest
<1>1. Kept(t)
  BY <1>0, Parts, LoopKept DEF session
<1> QED
  BY <1>0, <1>1, ListenerKeeps

LEMMA UpdateKeeps == ASSUME ClientInv, NEW t \in Task, Update(t) PROVE ClientInv'
<1>0. /\ pc[t] \notin Closing /\ Busy(t) /\ t \notin cancelled /\ (Loop(t) \/ Close(t)) /\ t \in Actor
      /\ UNCHANGED <<session, server, request>>
  BY Names DEF Update, Closing, Busy, Rest
<1>1. Kept(t)
  BY <1>0, Parts, LoopKept, CloseKept DEF session, Close
<1> QED
  BY <1>0, <1>1, ListenerKeeps

LEMMA DroppedKeeps == ASSUME ClientInv, NEW t \in Task, Dropped(t) PROVE ClientInv'
<1>0. /\ pc[t] \notin Closing \cup {"discovering"} /\ Busy(t) /\ t \in Actor /\ Stay(t, "sleeping") /\ link' = link
      /\ UNCHANGED <<session, server, request>>
  BY Names DEF Dropped, Goto, Closing, Busy, Rest
<1>1. Kept(t)
  BY <1>0, Parts, Names, StayKept DEF session, Calm
<1> QED
  BY <1>0, <1>1, ListenerKeeps

LEMMA CancelledKeeps == ASSUME ClientInv, NEW t \in Task, Cancelled(t) PROVE ClientInv'
<1>0. /\ t \in cancelled /\ t \in Actor /\ ListenerEnds(t) /\ cancelled' = cancelled \ {t}
      /\ UNCHANGED <<session, server, request, client, waits, clash>>
  BY Names DEF Cancelled
<1>1. link' \in [Transport -> Nat] /\ (~clash => Fits(link'))
  BY <1>0, Parts, Dialled DEF Cancelled
<1>2. Kept(t)
  BY <1>0, <1>1, Parts, ListenerEndsKept DEF session
<1> QED
  BY <1>0, <1>2, ListenerKeeps

LEMMA IdleKeeps == ASSUME ClientInv, NEW c \in Call, Idle(c) PROVE ClientInv'
<1>0. /\ pc[c] = "idle" /\ ~Opens(c) /\ first[c] = 0 /\ UNCHANGED <<session, server, request>> /\ link' = link
      /\ pc[c] \notin Closing \cup {"discovering"}
  BY Parts DEF Idle, Opens, Attempts, Closing
<1>1. TypedSession' /\ store' = store /\ lock' = lock
  BY <1>0, Parts DEF TypedSession, session, request
<1>2. Kept(c) /\ pc'[c] \in {"failed", "idling"}
  <2>1. CASE CannotListen
    BY <1>0, <1>1, <2>1, Parts, Names, StayKept DEF Idle, Calm, Rest
  <2>2. CASE ~CannotListen
    BY <1>0, <1>1, <2>2, Parts, ListenKept DEF Idle
  <2> QED  BY <2>1, <2>2
<1>3. Place(c)'
  BY <1>2 DEF Place, Closing
<1> QED
  BY <1>0, <1>1, <1>2, <1>3, OtherwiseKeeps

-----------------------------------------------------------------------------
LEMMA ClientInit == Init => ClientInv
<1> SUFFICES ASSUME Init PROVE ClientInv
  OBVIOUS
<1>1. PICK a \in {0, 1}, known \in SUBSET {1} :
          /\ store = [open |-> FALSE, auth |-> a] /\ registered \in {FALSE, a = 1} /\ known \subseteq {a}
          /\ server = [issued |-> a, valid |-> {a} \ {0}, known |-> known]
  BY DEF Init
<1>2. TypedSession
  <2>1. store \in [open : BOOLEAN, auth : Nat]
    BY <1>1
  <2>2. known \in SUBSET Nat /\ {a} \ {0} \in SUBSET Nat /\ a \in Nat
    BY <1>1
  <2>3. server \in [issued : Nat, valid : SUBSET Nat, known : SUBSET Nat]
    BY <1>1, <2>2
  <2>4. registered \in BOOLEAN
    BY <1>1
  <2>5. lock \in [holder : Call \cup {none}, key : Nat]
    BY DEF Init
  <2> QED  BY <2>1, <2>3, <2>4, <2>5 DEF Init, TypedSession
<1>3. \A b \in Actor : pc[b] \in {"idle", "unused"}
  BY DEF Init
<1>4. \A t \in Task : pc[t] = "idle"
  BY Names DEF Init
<1>5. Registering
  BY <1>1, <1>3, Names DEF Init, Registering, Attempts
<1>6. Typed
  <2>1. pc \in [Actor -> PC]
    BY DEF Init, PC, Rest
  <2>2. 0 \in Nat /\ Nowhere \in [socket : Transport \cup {0}, auth : Nat]
    BY DEF Nowhere
  <2> QED  BY <2>1, <2>2 DEF Init, Typed
<1>7. Listening /\ \A c \in Call : Place(c)
  BY <1>3, <1>4, Names DEF Init, Listening, Place, Closing
<1>8. Whole
  BY <1>1, <1>3, Names DEF Init, Whole, Shutting, Emptied, Fits, Dials, Held, Owned, ClosingNow, Busy, Rest, Closing
<1> QED
  BY <1>2, <1>5, <1>6, <1>7, <1>8 DEF ClientInv, Sound

LEMMA ClientNext == ClientInv /\ [Next]_vars => ClientInv'
<1> SUFFICES ASSUME ClientInv, [Next]_vars PROVE ClientInv'
  OBVIOUS
<1>1. CASE \E c \in Call : Begin(c)
  BY <1>1, StartKeeps, StopKeeps, InvokeKeeps, LoginKeeps, IdleKeeps DEF Begin
<1>2. CASE \E c \in Call : CallStep(c)
  BY <1>2, DiscoveredKeeps, NotDiscoveredKeeps, BaseInfoKeeps, AcquireKeeps, RegisteredKeeps,
     RegistrationFailsKeeps, AnsweredKeeps, AnsweredNotRegisteredKeeps, NotAnsweredKeeps, LogoutClosedKeeps,
     SignedInKeeps, NotSignedInKeeps DEF CallStep
<1>3. CASE \E a \in Actor : CloseStep(a) \/ ConnectStep(a)
  BY <1>3, ListenerGoneKeeps, SocketClosedKeeps, RestClosedKeeps, OpenedKeeps, NotOpenedKeeps
     DEF CloseStep, ConnectStep
<1>4. CASE \E t \in Task : ListenerStep(t) \/ Update(t)
  BY <1>4, RefusedKeeps, WakeKeeps, DroppedKeeps, CancelledKeeps, UpdateKeeps DEF ListenerStep
<1>5. CASE UNCHANGED vars
  <2>1. UNCHANGED <<store, registered, lock, server, client, link, pc, on, waits, cancelled, clash, then, key, first>>
    BY <1>5 DEF vars, session, program, request
  <2>2. TypedSession' /\ Registering'
    BY <2>1 DEF ClientInv, TypedSession, Registering, Attempts
  <2>3. Typed' /\ Listening' /\ \A c \in Call : Place(c)'
    BY <2>1 DEF ClientInv, Sound, Typed, Listening, Place, Busy
  <2>4. ~clash => Whole'
    BY <2>1 DEF ClientInv, Sound, Whole, Shutting, Emptied, Fits, Dials, Held, Owned, ClosingNow, Discovering, Busy
  <2> QED  BY <2>1, <2>2, <2>3, <2>4 DEF ClientInv, Sound
<1> QED
  BY <1>1, <1>2, <1>3, <1>4, <1>5 DEF Next, Progress

LEMMA ClientAlways == Spec => []ClientInv
  BY ClientInit, ClientNext, PTL DEF Spec

(* Once stop() is through, or a start() failed, nothing of the client is   *)
(* left open, for any program of calls and however they overlap, unless    *)
(* one that opens the client ran beside one that closes it.                *)
THEOREM NothingIsLeftOpen == Spec => []NothingLeftOpen
<1>1. ASSUME ClientInv PROVE NothingLeftOpen
  <2> SUFFICES ASSUME ~client.connected, ~ClosingNow, ~clash, \A c \in Call : Kind[c] = "start" => ~Busy(c)
               PROVE  /\ ~store.open /\ ~client.http /\ client.socket = 0
                      /\ \A s \in Transport : link[s] = 0
                      /\ \A t \in Task : ~Busy(t)
    BY DEF NothingLeftOpen
  <2>1. ~Discovering
    BY <1>1, Parts DEF Discovering, Place, Busy, Rest
  <2>2. ~store.open /\ ~client.http /\ client.socket = 0 /\ \A t \in Task : client.task = t => ~Busy(t)
    BY <1>1, <2>1, Parts, Names DEF Sound, Typed, Whole, Held
  <2>3. \A s \in Transport : link[s] = 0
    BY <1>1, <2>2, Parts, Names DEF Fits
  <2>4. \A t \in Task : ~Busy(t)
    BY <1>1, <2>2, Parts, Names DEF Sound, Whole, Owned, ClosingNow, Closing, Actor
  <2> QED  BY <2>2, <2>3, <2>4
<1> QED
  BY <1>1, ClientAlways, PTL

(* A call is answered NOT_REGISTERED twice only when a login gave it       *)
(* another auth in between: the registration that the first answer leads   *)
(* to is that of the auth with which the call is made again, whoever else  *)
(* registers, logs in or logs out meanwhile.                               *)
THEOREM RegistrationsHeal == Spec => []RegistrationHeals
<1>1. ClientInv => RegistrationHeals
  BY Parts DEF RegistrationHeals, Attempts
<1> QED
  BY <1>1, ClientAlways, PTL
=============================================================================
