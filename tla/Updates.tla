------------------------------- MODULE Updates -------------------------------
(***************************************************************************)
(* How new messages reach the handlers of a Client: the three listener     *)
(* loops (rubigram/client/methods/updates.py), the stored position they    *)
(* ask from, and the dispatcher (rubigram/handlers/dispatcher.py).         *)
(*                                                                         *)
(* A bot polls getUpdates with an offset, a user session polls             *)
(* getChatsUpdates with a state, or reads pushed socket frames.  Storage   *)
(* methods never yield to the event loop; the steps below are what lies    *)
(* between two awaits of a request or of a handler.                        *)
(*                                                                         *)
(* External: the server.  It numbers its changes 1, 2, ... and the number  *)
(* of the change that posts a message is the message's id.                 *)
(***************************************************************************)
EXTENDS Integers, FiniteSets, SequencesExt

CONSTANTS
    Chat,
    Handler,
    KindOf,         \* the update kind each handler is registered for
    GroupOf,        \* and the group it is put in
    AtStart,        \* the handlers the program registers, in this order
    Modes,          \* the listeners explored, of {"bot", "http", "socket"}
    Limit,          \* the largest number of updates in an answer to a bot
    MaxLog,         \* bound on the server's changes
    Budget,         \* bounds on requests that fail, handlers added or removed,
                    \* restarts, manual calls and states the server forgets
    MaxTogether     \* bound on all of these together

ASSUME HandlerAssumption ==
    /\ KindOf \in [Handler -> {"raw", "message", "deleted_message", "chat_update"}]
    /\ GroupOf \in [Handler -> Int]
    /\ AtStart \in Seq(Handler) /\ IsInjective(AtStart)
ASSUME ModesAssumption == Modes \subseteq {"bot", "http", "socket"}
ASSUME BoundsAssumption ==
    /\ {Limit, MaxLog} \subseteq Nat \ {0}
    /\ Budget \in [{"error", "change", "restart", "manual", "forget"} -> Nat]
    /\ MaxTogether \in Nat

None == -1          \* a value the session has not stored yet
NoEvent == [kind |-> "none", id |-> 0]

VARIABLES
    mode,           \* the listener of this client
    log,            \* external: the server's changes, a sequence of [chat, what]
    alive,          \* external: the messages of each chat that still exist
    floor,          \* external: older states are answered OldState
    stored,         \* storage: updates_state, or bot_offset_id
    seen,           \* _http_polling_loop's seen: the last message of a chat, 0 = unknown
    fetch,          \* the requests of the loop and of a manual caller
    registry,       \* Dispatcher.groups: a sequence of handlers per group
    run,            \* the update being dispatched
    spent,          \* how much of each bound is used
    due,            \* history: messages somebody still has to be given
    dispatched,     \* history: messages the loop dispatched as new
    pruned,         \* history: chats in which a message was deleted
    track           \* history of the current event: handlers kept, tried, groups taken

server == <<log, alive, floor>>
vars == <<mode, log, alive, floor, stored, seen, fetch, registry, run, spent,
          due, dispatched, pruned, track>>

Fetcher == {"loop", "manual"}
Newest(c) == IF alive[c] = {} THEN 0 ELSE CHOOSE i \in alive[c] : \A j \in alive[c] : j <= i

\* There is something left of a bound.
Left(what) ==
    /\ spent[what] < Budget[what]
    /\ FoldFunction(+, 0, spent) < MaxTogether

\* The members of a finite set of numbers in ascending order.
Ascending(S) ==
    CHOOSE s \in [1 .. Cardinality(S) -> S] : \A j, k \in DOMAIN s : j < k => s[j] < s[k]

\* The elements of a sequence that are in H, in their order.
Within(s, H) ==
    LET places == {k \in DOMAIN s : s[k] \in H}
    IN  [k \in 1 .. Cardinality(places) |-> s[Ascending(places)[k]]]

-----------------------------------------------------------------------------
(* The dispatcher.                                                         *)

\* Dispatcher.add_handler appends; a new key makes a new group.
Added(h) ==
    [g \in DOMAIN registry \cup {GroupOf[h]} |->
        IF g = GroupOf[h]
        THEN Append(IF g \in DOMAIN registry THEN registry[g] ELSE <<>>, h)
        ELSE registry[g]]

Removed(h) == [registry EXCEPT ![GroupOf[h]] = Within(@, Handler \ {h})]

IsRegistered(h) ==
    GroupOf[h] \in DOMAIN registry /\ h \in ToSet(registry[GroupOf[h]])

InitialRegistry ==
    [g \in {GroupOf[AtStart[i]] : i \in DOMAIN AtStart} |->
        Within(AtStart, {h \in Handler : GroupOf[h] = g})]

SortedGroups == Ascending(DOMAIN registry)

NothingTracked == [kept |-> {}, tried |-> {}, taken |-> {}]
Idle == [todo |-> <<>>, on |-> NoEvent, groups |-> <<>>, line |-> <<>>]

\* dispatch_updates (a frame) and dispatch_bot_update: an update as its events.
FanOut(i) ==
    <<[kind |-> "raw", id |-> i]>> \o
        CASE log[i].what = "post"   -> <<[kind |-> "message", id |-> i]>>
          [] log[i].what = "delete" -> <<[kind |-> "deleted_message", id |-> i]>>
          [] log[i].what = "touch"  -> IF mode = "socket"
                                       THEN <<[kind |-> "chat_update", id |-> i]>>
                                       ELSE <<>>

\* dispatch() takes the groups as they are now, in ascending order.
BeginEvent ==
    /\ run.on = NoEvent
    /\ run.todo # <<>>
    /\ LET event == Head(run.todo) IN
       /\ run' = [todo |-> Tail(run.todo), on |-> event, groups |-> SortedGroups, line |-> <<>>]
       /\ track' = [NothingTracked EXCEPT !.kept = {h \in Handler : IsRegistered(h)}]
       /\ IF event.kind = "message"
          THEN /\ dispatched' = dispatched \cup {event.id}
               /\ due' = due \ {event.id}
          ELSE UNCHANGED <<dispatched, due>>
    /\ UNCHANGED <<mode, server, stored, seen, fetch, registry, spent, pruned>>

\* for handler in list(self.groups[key]): a copy of the group, handlers of
\* other kinds passed over.
BeginGroup ==
    /\ run.on # NoEvent
    /\ run.line = <<>>
    /\ run.groups # <<>>
    /\ run' = [run EXCEPT !.groups = Tail(@),
                          !.line = Within(registry[Head(run.groups)],
                                          {h \in Handler : KindOf[h] = run.on.kind})]
    /\ UNCHANGED <<mode, server, stored, seen, fetch, registry, spent, due, dispatched, pruned, track>>

\* The next handler's filter and callback.  "pass": the filter failed or did
\* not match; "continue" and "stop": the callback raised ContinuePropagation or
\* StopPropagation; "took": it returned, or failed with an error that is logged.
Try(outcome) ==
    /\ run.line # <<>>
    /\ LET h == Head(run.line) IN
       /\ run' = CASE outcome \in {"pass", "continue"} -> [run EXCEPT !.line = Tail(@)]
                   [] outcome = "took" -> [run EXCEPT !.line = <<>>]
                   [] outcome = "stop" -> [run EXCEPT !.on = NoEvent, !.groups = <<>>, !.line = <<>>]
       /\ track' = [track EXCEPT !.tried = @ \cup {h},
                                 !.taken = IF outcome = "took" THEN @ \cup {GroupOf[h]} ELSE @]
    /\ UNCHANGED <<mode, server, stored, seen, fetch, registry, spent, due, dispatched, pruned>>

EndEvent ==
    /\ run.on # NoEvent
    /\ run.line = <<>>
    /\ run.groups = <<>>
    /\ run' = [run EXCEPT !.on = NoEvent]
    /\ track' = NothingTracked
    /\ UNCHANGED <<mode, server, stored, seen, fetch, registry, spent, due, dispatched, pruned>>

-----------------------------------------------------------------------------
(* Adding and removing handlers, from a handler or from any other task.    *)

AddHandler(h) ==
    /\ Left("change")
    /\ ~IsRegistered(h)
    /\ registry' = Added(h)
    /\ spent' = [spent EXCEPT !.change = @ + 1]
    /\ UNCHANGED <<mode, server, stored, seen, fetch, run, due, dispatched, pruned, track>>

RemoveWhileIterating(h) ==      \* mutant: dispatch() walks the live list
    /\ Left("change")
    /\ IsRegistered(h)
    /\ registry' = Removed(h)
    /\ run' = IF h \in track.tried /\ run.line # <<>> THEN [run EXCEPT !.line = Tail(@)] ELSE run
    /\ track' = [track EXCEPT !.kept = @ \ {h}]
    /\ spent' = [spent EXCEPT !.change = @ + 1]
    /\ UNCHANGED <<mode, server, stored, seen, fetch, due, dispatched, pruned>>

RemoveHandler(h) ==
    /\ Left("change")
    /\ IsRegistered(h)
    /\ registry' = Removed(h)
    /\ track' = [track EXCEPT !.kept = @ \ {h}]
    /\ spent' = [spent EXCEPT !.change = @ + 1]
    /\ UNCHANGED <<mode, server, stored, seen, fetch, run, due, dispatched, pruned>>

-----------------------------------------------------------------------------
(* External: the server's changes.                                         *)

\* The stored state is too old for the server: it answers OldState from now on.
Outdated == mode = "http" /\ stored # None /\ stored < floor

Change(c, what) ==
    /\ Len(log) < MaxLog
    /\ log' = Append(log, [chat |-> c, what |-> what])
    /\ UNCHANGED <<mode, floor, stored, seen, fetch, registry, run, spent, dispatched, track>>

\* The poll shows the newest message of a chat only, and the loop can tell it
\* from an old one once it knows the chat.
Post(c) ==
    /\ Change(c, "post")
    /\ alive' = [alive EXCEPT ![c] = @ \cup {Len(log) + 1}]
    /\ due' = CASE mode = "http" -> (due \ alive[c]) \cup
                                     (IF seen[c] # 0 /\ ~Outdated THEN {Len(log) + 1} ELSE {})
               [] mode = "bot" -> due \cup {Len(log) + 1}
               [] mode = "socket" -> due
    /\ UNCHANGED pruned

\* Anything else that changes a chat, as its unread counter.
Touch(c) ==
    /\ Change(c, "touch")
    /\ UNCHANGED <<alive, due, pruned>>

Delete(c) ==
    /\ alive[c] # {}
    /\ Change(c, "delete")
    /\ alive' = [alive EXCEPT ![c] = @ \ {Newest(c)}]
    /\ due' = IF mode = "http" THEN due \ {Newest(c)} ELSE due
    /\ pruned' = pruned \cup {c}

Forget ==
    /\ mode = "http"
    /\ Left("forget")
    /\ floor' = Len(log)
    /\ due' = {}
    /\ spent' = [spent EXCEPT !.forget = @ + 1]
    /\ UNCHANGED <<mode, log, alive, stored, seen, fetch, registry, run, dispatched, pruned, track>>

-----------------------------------------------------------------------------
(* Requests: getUpdates, getChatsUpdates, or the wait for a frame.         *)

NoRequest(f) == [pc |-> IF f = "loop" THEN "ready" ELSE "off",
                 from |-> 0, upto |-> 0, old |-> FALSE, news |-> {}]

\* get_chats_updates() without a stored state asks from the current time,
\* get_bot_updates() without an offset from the oldest update kept.
Position == CASE stored # None -> stored
              [] stored = None /\ mode = "http" -> Len(log)
              [] OTHER -> 0

Ask(f) ==
    /\ \/ f = "loop" /\ fetch[f].pc = "ready" /\ run = Idle
       \/ f = "manual" /\ fetch[f].pc = "off" /\ mode = "http" /\ Left("manual")
    /\ fetch' = [fetch EXCEPT ![f] = [NoRequest(f) EXCEPT
                    !.pc = "asked",
                    !.from = IF mode = "socket" THEN fetch[f].from ELSE Position]]
    /\ spent' = IF f = "manual" THEN [spent EXCEPT !.manual = @ + 1] ELSE spent
    /\ UNCHANGED <<mode, server, stored, seen, registry, run, due, dispatched, pruned, track>>

\* External: the chats that changed with their newest message, or OldState.
ChatsAnswer(from) ==
    IF from < floor
    THEN [old |-> TRUE, upto |-> Len(log), news |-> {}]
    ELSE [old |-> FALSE, upto |-> Len(log),
          news |-> {Newest(log[i].chat) : i \in (from + 1) .. Len(log)} \ {0}]

\* External: the first updates after the offset, Limit at most.
BotAnswer(from) ==
    LET later == {i \in (from + 1) .. Len(log) : log[i].what # "touch"}
        news == {i \in later : Cardinality({j \in later : j < i}) < Limit}
    IN  [old |-> FALSE, news |-> news,
         upto |-> IF news = {} THEN from ELSE CHOOSE i \in news : \A j \in news : j <= i]

\* External: a pushed frame; those pushed while the socket was lost are gone.
Frames(from) ==
    {[old |-> FALSE, upto |-> i, news |-> {i}] : i \in (from + 1) .. Len(log)}

Answers(from) ==
    CASE mode = "http" -> {ChatsAnswer(from)}
      [] mode = "bot" -> {BotAnswer(from)}
      [] mode = "socket" -> Frames(from)

Serve(f) ==
    /\ fetch[f].pc = "asked"
    /\ \E a \in Answers(fetch[f].from) :
          fetch' = [fetch EXCEPT ![f] = [pc |-> "answered", from |-> fetch[f].from,
                                         old |-> a.old, upto |-> a.upto, news |-> a.news]]
    /\ UNCHANGED <<mode, server, stored, seen, registry, run, spent, due, dispatched, pruned, track>>

\* A RubigramError: the loop sleeps and asks again, a manual caller gets it.
RequestFails(f) ==
    /\ fetch[f].pc = "asked"
    /\ Left("error")
    /\ fetch' = [fetch EXCEPT ![f] = [NoRequest(f) EXCEPT !.from = fetch[f].from]]
    /\ spent' = [spent EXCEPT !.error = @ + 1]
    /\ UNCHANGED <<mode, server, stored, seen, registry, run, due, dispatched, pruned, track>>

-----------------------------------------------------------------------------
(* What the loops do with an answer.                                       *)

StoredNow(answer) == IF answer.old THEN stored ELSE Len(log)    \* mutant: the time of the arrival

\* get_chats_updates stores new_state unless the answer is OldState;
\* get_bot_updates stores next_offset_id when there is one, and both do so
\* before anything is dispatched.  Frames have no stored position.
Stored(answer) ==
    CASE mode = "http" -> IF answer.old THEN stored ELSE answer.upto
      [] mode = "bot" -> IF answer.news = {} THEN stored ELSE answer.upto
      [] mode = "socket" -> stored

UnknownOrAny(news) == {i \in news : seen[log[i].chat] # 0}      \* mutant: no look at the last message

\* Of the newest messages of the changed chats, those that are news: not the
\* first message seen of a chat, and not the one seen last.
IsNews(news) == {i \in news : seen[log[i].chat] \notin {0, i}}

\* One Updates object with a MessageUpdate for each, if there is any.
PollBatch(ids) ==
    IF ids = {} THEN <<>>
    ELSE <<[kind |-> "raw", id |-> 0]>> \o
         [k \in 1 .. Cardinality(ids) |-> [kind |-> "message", id |-> Ascending(ids)[k]]]

ArriveAtLoop ==
    LET answer == fetch["loop"] IN
    /\ answer.pc = "answered"
    /\ fetch' = [fetch EXCEPT !["loop"] = [NoRequest("loop") EXCEPT !.from = answer.upto]]
    /\ stored' = Stored(answer)
    /\ IF mode = "http"
       THEN /\ run' = [Idle EXCEPT !.todo = PollBatch(IsNews(answer.news))]
            /\ seen' = [c \in Chat |->
                          IF \E i \in answer.news : log[i].chat = c
                          THEN CHOOSE i \in answer.news : log[i].chat = c
                          ELSE seen[c]]
       ELSE /\ run' = [Idle EXCEPT !.todo =
                         FlattenSeq([k \in 1 .. Cardinality(answer.news) |->
                                       FanOut(Ascending(answer.news)[k])])]
            /\ UNCHANGED seen
    /\ UNCHANGED <<mode, server, registry, spent, due, dispatched, pruned, track>>

\* The caller of get_chats_updates() is given the chats.
ArriveAtCaller ==
    LET answer == fetch["manual"] IN
    /\ answer.pc = "answered"
    /\ fetch' = [fetch EXCEPT !["manual"] = NoRequest("manual")]
    /\ stored' = Stored(answer)
    /\ due' = due \ answer.news
    /\ UNCHANGED <<mode, server, seen, registry, run, spent, dispatched, pruned, track>>

\* The process ends and the program starts again from the stored session.
\* Nothing brings back what had been stored and not yet dispatched.
Restart ==
    /\ Left("restart")
    /\ spent' = [spent EXCEPT !.restart = @ + 1]
    /\ seen' = [c \in Chat |-> 0]
    /\ fetch' = [f \in Fetcher |-> [NoRequest(f) EXCEPT !.from = IF mode = "socket" THEN Len(log) ELSE 0]]
    /\ registry' = InitialRegistry
    /\ run' = Idle
    /\ track' = NothingTracked
    /\ due' = IF mode = "bot" THEN {i \in due : i > stored} ELSE {}
    /\ dispatched' = IF mode = "http" THEN {} ELSE dispatched
    /\ UNCHANGED <<mode, server, stored, pruned>>

-----------------------------------------------------------------------------
Init ==
    /\ mode \in Modes
    /\ log = <<>>
    /\ alive = [c \in Chat |-> {}]
    /\ floor = 0
    /\ stored = None
    /\ seen = [c \in Chat |-> 0]
    /\ fetch = [f \in Fetcher |-> NoRequest(f)]
    /\ registry = InitialRegistry
    /\ run = Idle
    /\ spent = [what \in DOMAIN Budget |-> 0]
    /\ due = {}
    /\ dispatched = {}
    /\ pruned = {}
    /\ track = NothingTracked

Loop ==
    \/ Ask("loop") \/ Serve("loop") \/ ArriveAtLoop
    \/ BeginEvent \/ BeginGroup \/ EndEvent
    \/ \E outcome \in {"pass", "continue", "stop", "took"} : Try(outcome)

Next ==
    \/ Loop
    \/ Ask("manual") \/ Serve("manual") \/ ArriveAtCaller
    \/ \E f \in Fetcher : RequestFails(f)
    \/ \E h \in Handler : AddHandler(h) \/ RemoveHandler(h)
    \/ \E c \in Chat : Post(c) \/ Touch(c) \/ Delete(c)
    \/ Forget
    \/ Restart

\* Requests are answered (timeouts end them) and handlers return.
Spec == Init /\ [][Next]_vars /\ WF_vars(Loop)

-----------------------------------------------------------------------------
TypeOK ==
    /\ mode \in Modes
    /\ log \in Seq([chat : Chat, what : {"post", "touch", "delete"}])
    /\ alive \in [Chat -> SUBSET (1 .. MaxLog)]
    /\ floor \in 0 .. MaxLog
    /\ stored \in {None} \cup 0 .. MaxLog
    /\ seen \in [Chat -> 0 .. MaxLog]
    /\ \A f \in Fetcher : fetch[f].pc \in {"off", "ready", "asked", "answered"}
    /\ \A g \in DOMAIN registry : registry[g] \in Seq(Handler)
    /\ run.line \in Seq(Handler)
    /\ {due, dispatched} \subseteq SUBSET (1 .. MaxLog)
    /\ track.tried \cup track.kept \subseteq Handler

(* Every new message reaches somebody: it is dispatched to the handlers or  *)
(* handed to a manual get_chats_updates(), however the two interleave, as   *)
(* long as it stays the newest of a chat the loop knows (a poll shows no    *)
(* other), the server accepts the stored state, and no restart falls        *)
(* between the stored position and the dispatch.  A bot is given every      *)
(* message, also one that was posted before a restart.                      *)
NewsArrives ==
    \A i \in 1 .. MaxLog :
        (i \in due /\ ~Outdated) ~> (i \notin due \/ Outdated)

(* No message is dispatched as new twice: not by a poll that returns the    *)
(* chat again for another change or for a state that moved back, and not by *)
(* a bot that restarts while it dispatches.  A deleted message makes the    *)
(* poll show an older one again; those chats are left out.                  *)
DispatchedOnce ==
    [][\A i \in 1 .. MaxLog :
         (run'.on # run.on /\ run'.on.kind = "message" /\ run'.on.id = i)
            => i \notin dispatched \/ (mode = "http" /\ log[i].chat \in pruned)]_vars

(* A handler that stays registered is reached by every event of its kind    *)
(* unless one before it in its group took the event or StopPropagation was  *)
(* raised, whatever handlers are added or removed meanwhile, and no group   *)
(* takes an event twice.                                                    *)
HandlersAreReached ==
    [][/\ \A h \in track.kept :
            (run.on # NoEvent /\ run.line = <<>> /\ run.groups = <<>> /\ run'.on = NoEvent)
                => \/ KindOf[h] # run.on.kind
                   \/ h \in track.tried
                   \/ GroupOf[h] \in track.taken
       /\ \A h \in track'.tried \ track.tried : GroupOf[h] \notin track.taken]_vars
=============================================================================
