------------------------------ MODULE ChatWalk -------------------------------
(***************************************************************************)
(* iter_messages (client/methods/messages.py) and iter_chats (chats.py):   *)
(* a generator walks a chat history, or the list of dialogs, page by page, *)
(* newest first, while messages come, go, and move their chats to the top. *)
(*                                                                         *)
(* An entry of either list has a place: the id of a message, the time of a *)
(* chat's last change.  External: the server, which answers a page of the  *)
(* newest entries at or below the place asked for, and new_start_id.       *)
(***************************************************************************)
EXTENDS Integers, FiniteSets, FiniteSetsExt, SequencesExt

CONSTANTS
    PageSize,
    Limits,         \* the limits a caller may give, 0 = none
    AtFirst,        \* entries when the walk begins
    MaxChange       \* bound on changes during the walk

VARIABLES
    pc,
    kind,           \* "messages" or "chats"
    limit,
    list,           \* external: the places of the entries there are
    next,           \* the largest place not taken yet
    below,          \* max_id, or start_id: the largest place asked for
    page,           \* the answer being yielded
    more,           \* has_continue of that answer
    yielded,        \* history: what the caller got, in order
    constant        \* history: entries that were there all the time, unmoved

vars == <<pc, kind, limit, list, next, below, page, more, yielded, constant>>

Everything == AtFirst + MaxChange

Init ==
    /\ pc = "idle"
    /\ kind = "none"
    /\ limit = 0
    /\ list = {}
    /\ next = AtFirst + 1
    /\ below = Everything
    /\ page = {}
    /\ more = FALSE
    /\ yielded = <<>>
    /\ constant = {}

\* The first page is asked for without a max_id or start_id.
Begin ==
    /\ pc = "idle"
    /\ pc' = "ask"
    /\ kind' \in {"messages", "chats"}
    /\ limit' \in Limits
    /\ list' \in {1 .. n : n \in 0 .. AtFirst}
    /\ constant' = list'
    /\ UNCHANGED <<next, below, page, more, yielded>>

-----------------------------------------------------------------------------
(* External: the lists change between two requests.                        *)

Walking == pc \in {"ask", "yield"}

New ==
    /\ Walking
    /\ next <= Everything
    /\ list' = list \cup {next}
    /\ next' = next + 1
    /\ UNCHANGED <<pc, kind, limit, below, page, more, yielded, constant>>

Gone(e) ==
    /\ Walking
    /\ next <= Everything
    /\ list' = list \ {e}
    /\ constant' = constant \ {e}
    /\ next' = next + 1
    /\ UNCHANGED <<pc, kind, limit, below, page, more, yielded>>

\* A chat with a new message moves to the top.
Moved(e) ==
    /\ Walking
    /\ kind = "chats"
    /\ next <= Everything
    /\ list' = (list \ {e}) \cup {next}
    /\ constant' = constant \ {e}
    /\ next' = next + 1
    /\ UNCHANGED <<pc, kind, limit, below, page, more, yielded>>

-----------------------------------------------------------------------------
Reached == {e \in list : e <= below}
FirstOf(S) == {e \in S : Cardinality({f \in S : f > e}) < PageSize}

\* A page without entries ends a walk of messages; a walk of chats goes on as
\* long as the server says there is more.
Ask ==
    /\ pc = "ask"
    /\ page' = FirstOf(Reached)
    /\ more' = (Reached # FirstOf(Reached))
    /\ pc' = IF kind = "messages" /\ page' = {} THEN "done" ELSE "yield"
    /\ UNCHANGED <<kind, limit, list, next, below, yielded, constant>>

\* A page's messages are sorted, newest first; chats come in the page's order.
\* A caller that got as many as it wanted is not given another.
Yield ==
    /\ pc = "yield"
    /\ page # {}
    /\ page' = page \ {Max(page)}
    /\ yielded' = Append(yielded, Max(page))
    /\ pc' = IF limit # 0 /\ Len(yielded') >= limit THEN "done" ELSE "yield"
    /\ UNCHANGED <<kind, limit, list, next, below, more, constant>>

SameOldest(oldest) == oldest                    \* mutant: the oldest is asked for again

\* max_id = oldest - 1.  For chats the server says where to go on.
Continue(oldest) == oldest - 1

\* The page is at its end: the oldest of it is the one yielded last.
Turn ==
    /\ pc = "yield"
    /\ page = {}
    /\ IF more /\ yielded # <<>>
       THEN pc' = "ask" /\ below' = Continue(Last(yielded))
       ELSE pc' = "done" /\ UNCHANGED below
    /\ UNCHANGED <<kind, limit, list, next, page, more, yielded, constant>>

\* The caller leaves the loop, or a request fails.
Break ==
    /\ Walking
    /\ pc' = "broken"
    /\ UNCHANGED <<kind, limit, list, next, below, page, more, yielded, constant>>

Next ==
    \/ Begin
    \/ New
    \/ \E e \in list : Gone(e) \/ Moved(e)
    \/ Ask \/ Yield \/ Turn \/ Break

Spec == Init /\ [][Next]_vars

-----------------------------------------------------------------------------
TypeOK ==
    /\ pc \in {"idle", "ask", "yield", "done", "broken"}
    /\ {list, page, constant} \subseteq SUBSET (1 .. Everything)
    /\ yielded \in Seq(1 .. Everything)

(* A walk gives every entry at most once, newest first, and one that ends   *)
(* by itself has given every entry that was there all the time, whatever    *)
(* was posted, deleted or moved between its pages; with a limit, the newest *)
(* of them.                                                                 *)
WalkIsComplete ==
    /\ \A i \in 1 .. Len(yielded) - 1 : yielded[i] > yielded[i + 1]
    /\ pc = "done" =>
          \A e \in constant \ ToSet(yielded) :
              limit # 0 /\ Len(yielded) = limit /\ e < Last(yielded)
=============================================================================
