---------------------------- MODULE RubikaActions ----------------------------
(***************************************************************************)
(* One join, leave or view on Rubika (worker/rubika.py): a throw-away      *)
(* client starts from the account's session string, resolves the target,   *)
(* acts, and stops; every failure is classified into an ActionError kind.  *)
(* The whole call is given four times the timeout of a request.            *)
(*                                                                         *)
(* A request is repeated by the retry ladder when it is not answered, and  *)
(* once more after NOT_REGISTERED (client/methods/advanced.py).  A request *)
(* that is not answered may have been carried out.                         *)
(*                                                                         *)
(* External: Rubika's answers.                                             *)
(***************************************************************************)
EXTENDS Naturals

CONSTANT Attempts   \* RetryPolicy(delays=(0, 2)): the first try and one per delay

VARIABLES
    pc,
    order,          \* what is asked for: [op, ref, target, probe]
    member,         \* external: the account's standing on the target
    acted,          \* the request that changes it was sent
    request,        \* attempts left, and whether the device was registered again
    result,         \* the kind the call will end with
    told            \* the kind the caller got

vars == <<pc, order, member, acted, request, result, told>>

Ops == {"join", "leave", "view"}
Refs == {"channel_link", "group_link", "username", "guid", "post", "guid_post"}

\* External: what a reference can lead to.  parse_target refuses "garbage".
Leads ==
    [channel_link |-> {"channel", "gone"},
     group_link   |-> {"group", "gone"},
     username     |-> {"channel", "group", "user", "gone", "garbage"},
     guid         |-> {"channel", "group", "gone", "garbage"},
     post         |-> {"channel", "group", "user", "gone"},
     guid_post    |-> {"channel", "gone"}]

Links == {"channel_link", "group_link"}
Posts == {"post", "guid_post"}

Orders == {o \in [op : Ops, ref : Refs, target : UNION {Leads[r] : r \in Refs}, probe : BOOLEAN] :
             o.target \in Leads[o.ref]}

NoOrder == [op |-> "none", ref |-> "none", target |-> "none", probe |-> FALSE]

Details == {"INVALID_INPUT", "INVALID_AUTH", "NOT_REGISTERED", "TOO_REQUESTS", "SERVER_ERROR"}
Steps == {"start", "resolve", "page", "act", "probe"}
Wanted == order.op # "leave"

\* map_rpc_error and classify_error: the detail of a refusal as an ActionError
\* kind.  Only resolve_target takes INVALID_INPUT for the target's fault.
Classified(detail) ==
    CASE detail = "INVALID_INPUT" /\ pc = "resolve"       -> "invalid_target"
      [] detail \in {"INVALID_AUTH", "NOT_REGISTERED"}    -> "session_dead"
      [] detail = "TOO_REQUESTS"                          -> "throttled"
      [] detail = "NETWORK"                               -> "conn_error"
      [] OTHER                                            -> "failed"

Fresh == [left |-> Attempts, again |-> FALSE]

Goto(step) == pc' = step /\ request' = Fresh

-----------------------------------------------------------------------------
Init ==
    /\ pc = "idle"
    /\ order = NoOrder
    /\ member = FALSE
    /\ acted = FALSE
    /\ request = Fresh
    /\ result = "nothing"
    /\ told = "nothing"

\* The end of the action: the client is stopped, whatever happened.
EndsWith(kind) ==
    /\ result' = kind
    /\ Goto("stop")

\* run_*: parse_target, then client.start().
Begin ==
    /\ pc = "idle"
    /\ order' \in Orders
    /\ member' \in BOOLEAN
    /\ IF order'.target = "garbage"
       THEN /\ pc' = "done"
            /\ told' = "invalid_target"
            /\ UNCHANGED request
       ELSE Goto("start") /\ UNCHANGED told
    /\ UNCHANGED <<acted, result>>

\* The session is known to be registered, or registerDevice was answered.
Started ==
    /\ pc = "start"
    /\ Goto("resolve")
    /\ UNCHANGED <<order, member, acted, result, told>>

\* mutant: what is not known counts as not being a member
FalsyMember(known) == IF order.op = "join" THEN known = "yes" ELSE known # "yes"

\* resolved.is_member is True for a join, is False for a leave; only the preview
\* of an invite link says it at all.
AlreadyDone(known) == IF order.op = "join" THEN known = "yes" ELSE known = "no"

Resolved ==
    /\ pc = "resolve"
    /\ \E known \in IF order.ref \in Links
                    THEN {IF member THEN "yes" ELSE "no", "unknown"}
                    ELSE {"unknown"} :
          CASE order.target \in {"gone", "user"} ->
                    EndsWith("invalid_target")
            [] order.op \in {"join", "leave"} /\ AlreadyDone(known) ->
                    EndsWith("already_done")
            [] order.op = "join" /\ order.target = "group" /\ order.ref \notin Links ->
                    EndsWith("invalid_target")
            [] OTHER ->
                    Goto(IF order.op = "view" THEN "page" ELSE "act") /\ UNCHANGED result
    /\ UNCHANGED <<order, member, acted, told>>

\* view_posts: get_message for a post, else the latest posts, as many as the
\* service id says.  A post may be gone; a channel may have no posts, and the
\* service id no meaning.
Paged ==
    /\ pc = "page"
    /\ \/ Goto("act") /\ UNCHANGED result
       \/ EndsWith(IF order.ref \in Posts THEN "invalid_target" ELSE "failed")
    /\ UNCHANGED <<order, member, acted, told>>

\* join_channel, join_channel_by_link, join_group, leave_channel, leave_group,
\* seen_chats.  The count of members is read from the answer when it is there.
Acted ==
    /\ pc = "act"
    /\ member' = Wanted
    /\ acted' = TRUE
    /\ \/ order.op = "join" /\ order.probe /\ Goto("probe") /\ UNCHANGED result
       \/ EndsWith("ok")
    /\ UNCHANGED <<order, told>>

\* _member_count; None when it cannot be had.
Counted ==
    /\ pc = "probe"
    /\ EndsWith("ok")
    /\ UNCHANGED <<order, member, acted, told>>

-----------------------------------------------------------------------------
\* _member_count swallows every error of rubigram's.
Outcome(kind) == IF pc = "probe" THEN "ok" ELSE kind

\* An error answer.  Rubika refuses a join of a member, or a leave of somebody
\* who is none, in whatever words it likes.
Refused(detail) ==
    /\ pc \in Steps
    /\ IF detail = "NOT_REGISTERED" /\ ~request.again /\ pc # "start"
       THEN /\ request' = [left |-> Attempts, again |-> TRUE]
            /\ UNCHANGED <<pc, result>>
       ELSE EndsWith(Outcome(Classified(detail)))
    /\ acted' = (acted \/ pc = "act")
    /\ UNCHANGED <<order, member, told>>

\* No answer, or one that cannot be read: an act may have been carried out.
Unanswered ==
    /\ pc \in Steps
    /\ member' \in IF pc = "act" THEN {member, Wanted} ELSE {member}
    /\ acted' = (acted \/ pc = "act")
    /\ \/ /\ request.left > 1
          /\ request' = [request EXCEPT !.left = @ - 1]
          /\ UNCHANGED <<pc, result>>
       \/ EndsWith(Outcome(Classified("NETWORK")))
    /\ UNCHANGED <<order, told>>

\* client.stop(), and the caller gets the outcome or the ActionError.
Stopped ==
    /\ pc = "stop"
    /\ pc' = "done"
    /\ told' = result
    /\ UNCHANGED <<order, member, acted, request, result>>

\* asyncio.wait_for: at any await, the client's stop included.
Overdue ==
    /\ pc \in Steps \cup {"stop"}
    /\ pc' = "done"
    /\ told' = "conn_error"
    /\ UNCHANGED <<order, member, acted, request, result>>

Next ==
    \/ Begin \/ Started \/ Resolved \/ Paged \/ Acted \/ Counted
    \/ \E detail \in Details : Refused(detail)
    \/ Unanswered
    \/ Stopped \/ Overdue

Spec == Init /\ [][Next]_vars

-----------------------------------------------------------------------------
TypeOK ==
    /\ pc \in Steps \cup {"idle", "stop", "done"}
    /\ order \in Orders \cup {NoOrder}
    /\ {member, acted} \subseteq BOOLEAN
    /\ request \in [left : 1 .. Attempts, again : BOOLEAN]

Call == INSTANCE RubikaCall WITH
    wanted <- IF order = NoOrder THEN "nothing" ELSE IF Wanted THEN "in" ELSE "out",
    standing <- IF member THEN "in" ELSE "out"

(* However the requests of a call are answered, lost, repeated or cut off,  *)
(* its answer is one the item processor can act upon: "ok" and "already     *)
(* done" are true of the account, and a target is called invalid only when  *)
(* nothing was changed.  JobPipeline and AutoLeave take this for granted.   *)
ImplementsCall == Call!Spec
=============================================================================
