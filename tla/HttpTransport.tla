--------------------------- MODULE HttpTransport ---------------------------
(***************************************************************************)
(* The HTTPS transports of rubigram/network/http.py under concurrent       *)
(* requests of one client: every request climbs its own retry ladder, all  *)
(* of them turn the same URL pool, and one that has failed on every URL    *)
(* asks getDCs for a new list (_refresh_api_urls of client.py).            *)
(*                                                                         *)
(* A coroutine runs from one await to the next in one step: a failed       *)
(* attempt, the rotation and, when the ladder does not sleep, the next     *)
(* attempt are one.  Bodies, headers and timeouts are left out; a URL that *)
(* is not up answers 5xx, no JSON, or nothing in time.                     *)
(***************************************************************************)
EXTENDS UrlPool, FiniteSets

CONSTANTS
    Request,     \* requests a client sends through one transport
    Pinned,      \* those sent to a service URL of their own, never rotated
    Retries,     \* the most retries a request asks for
    Configured,  \* the API URLs of the stored DC configuration
    Answers,     \* the lists getDCs may answer
    Reliable,    \* URLs that always answer
    ServiceUrl,  \* the URL of a pinned request
    none,
    MaxFlaps     \* bound: times a URL goes down or comes back

Url == (UNION {Listed(l) : l \in Answers \cup {Configured}}) \cup {ServiceUrl}

ASSUME RequestAssumption ==
    /\ Retries \in [Request -> Nat] /\ Pinned \subseteq Request
    /\ MaxFlaps \in Nat /\ none \notin Url

\* A configuration always lists some URL, and what getDCs answers is kept only if it does.
ASSUME ListAssumption ==
    /\ Answers \cup {Configured} \subseteq Seq(Url) \ {<<>>}
    /\ Reliable \subseteq Url

VARIABLES
    pool,       \* the UrlPool of the transport
    listed,     \* the API URLs of the DC repository, as saved
    apiUrl,     \* the api_url in the session storage
    up,         \* the URLs that answer at the moment
    pc,         \* control point of a request
    at,         \* the URL its last attempt was sent to
    index,      \* the number of that attempt
    refreshed,  \* it has consulted getDCs
    tried,      \* history: the URLs it was sent to
    offered,    \* history: the URLs of the pool when it was sent
    alone,      \* history: no other request has turned the pool since
    flaps

request == <<pc, at, index, refreshed, tried, offered, alone>>
vars == <<pool, listed, apiUrl, up, flaps, request>>

PC == {"idle", "posting", "refreshing", "sleeping", "ok", "raised", "failed"}

Active(r) == pc[r] \in {"posting", "refreshing", "sleeping"}

TypeOK ==
    /\ pool.urls \in Seq(Url) /\ pool.current \in DOMAIN pool.urls
    /\ listed \in Answers \cup {Configured}
    /\ apiUrl \in Url \cup {none}
    /\ up \in SUBSET Url /\ Reliable \subseteq up
    /\ pc \in [Request -> PC]
    /\ at \in [Request -> Url \cup {none}]
    /\ \A r \in Request : index[r] \in 0..RetriesOf(Retries[r])
    /\ refreshed \in [Request -> BOOLEAN]
    /\ tried \in [Request -> SUBSET Url] /\ offered \in [Request -> SUBSET Url]
    /\ alone \in [Request -> BOOLEAN]
    /\ flaps \in 0..MaxFlaps

Urls(p) == Listed(p.urls)

-----------------------------------------------------------------------------
Init ==
    /\ listed = Configured /\ apiUrl = none
    /\ pool = [urls |-> Deduped(Configured), current |-> 1]
    /\ up \in {Url, Reliable}
    /\ pc = [r \in Request |-> "idle"]
    /\ at = [r \in Request |-> none]
    /\ index = [r \in Request |-> 0]
    /\ refreshed = [r \in Request |-> FALSE]
    /\ tried = [r \in Request |-> {}] /\ offered = [r \in Request |-> {}]
    /\ alone = [r \in Request |-> TRUE]
    /\ flaps = 0

Goto(r, point) == pc' = [pc EXCEPT ![r] = point]

(* The request is over; of its history only that of a failure is kept.     *)
End(r, how) ==
    /\ Goto(r, how)
    /\ at' = [at EXCEPT ![r] = none]
    /\ index' = [index EXCEPT ![r] = 0]
    /\ refreshed' = [refreshed EXCEPT ![r] = FALSE]
    /\ tried' = [tried EXCEPT ![r] = {}]
    /\ offered' = [offered EXCEPT ![r] = IF how = "failed" THEN @ ELSE {}]
    /\ alone' = [alone EXCEPT ![r] = (how = "failed") => @]

(* The next attempt goes to the URL current in p by then. *)
Attempt(r, p) ==
    LET url == IF r \in Pinned THEN ServiceUrl ELSE Current(p)
    IN  /\ at' = [at EXCEPT ![r] = url]
        /\ tried' = [tried EXCEPT ![r] = @ \cup {url}]
        /\ Goto(r, "posting")

(* The pool is p from now on, which concerns the requests under way. *)
Turn(r, p) ==
    /\ pool' = p
    /\ alone' = [s \in Request |-> alone[s] /\ (s = r \/ ~Active(s) \/ p = pool)]

Send(r) ==
    /\ pc[r] = "idle"
    /\ Attempt(r, pool)
    /\ offered' = [offered EXCEPT ![r] = Urls(pool)]
    /\ UNCHANGED <<pool, listed, apiUrl, up, flaps, index, refreshed, alone>>

(* Mutant: the URL stored is the one after. *)
AnswerStored(r) ==
    /\ pc[r] = "posting" /\ at[r] \in up
    /\ \/ End(r, "ok") /\ apiUrl' = IF r \in Pinned THEN apiUrl ELSE Current(ForceRotate(pool))
       \/ End(r, "raised") /\ UNCHANGED apiUrl
    /\ UNCHANGED <<pool, listed, up, flaps>>

(* An answer of the server; after a good one _call_rpc stores the URL that *)
(* is current in the pool of its transport.  Any other answer is raised.   *)
Answer(r) ==
    /\ pc[r] = "posting" /\ at[r] \in up
    /\ \/ End(r, "ok") /\ apiUrl' = IF r \in Pinned THEN apiUrl ELSE Current(pool)
       \/ End(r, "raised") /\ UNCHANGED apiUrl
    /\ UNCHANGED <<pool, listed, up, flaps>>

(* Mutant: one URL short of the list. *)
ExhaustedEarly(r, p) == index[r] + 2 >= Len(p.urls)

Exhausted(r, p) == index[r] + 1 >= Len(p.urls)

(* After on_retry: sleep, or go on at once. *)
NextAttempt(r, p) ==
    /\ index' = [index EXCEPT ![r] = @ + 1]
    /\ IF Sleeps(index[r]) THEN Goto(r, "sleeping") /\ UNCHANGED <<at, tried>>
                           ELSE Attempt(r, p)

Fail(r) ==
    /\ pc[r] = "posting" /\ at[r] \notin up
    /\ \/ /\ index[r] = RetriesOf(Retries[r])
          /\ End(r, "failed")
          /\ UNCHANGED pool
       \/ /\ index[r] < RetriesOf(Retries[r]) /\ r \in Pinned
          /\ NextAttempt(r, pool)
          /\ UNCHANGED <<pool, refreshed, offered, alone>>
       \/ /\ index[r] < RetriesOf(Retries[r]) /\ r \notin Pinned
          /\ Turn(r, ForceRotate(pool))
          /\ IF ~refreshed[r] /\ Exhausted(r, pool)
             THEN /\ refreshed' = [refreshed EXCEPT ![r] = TRUE]
                  /\ Goto(r, "refreshing")
                  /\ UNCHANGED <<at, index, tried>>
             ELSE NextAttempt(r, ForceRotate(pool)) /\ UNCHANGED refreshed
          /\ UNCHANGED offered
    /\ UNCHANGED <<listed, apiUrl, up, flaps>>

(* getDCs answers a list, which is saved and handed to the pool of this    *)
(* transport, or it cannot be reached.                                     *)
Refresh(r) ==
    /\ pc[r] = "refreshing"
    /\ \/ \E list \in Answers :
            /\ listed' = list
            /\ Turn(r, Replace(pool, list))
            /\ NextAttempt(r, Replace(pool, list))
       \/ UNCHANGED <<pool, listed, alone>> /\ NextAttempt(r, pool)
    /\ UNCHANGED <<apiUrl, up, flaps, refreshed, offered>>

Wake(r) ==
    /\ pc[r] = "sleeping"
    /\ Attempt(r, pool)
    /\ UNCHANGED <<pool, listed, apiUrl, up, flaps, index, refreshed, offered, alone>>

(* The task of the request is cancelled at an await. *)
Cancel(r) ==
    /\ Active(r)
    /\ End(r, "raised")
    /\ UNCHANGED <<pool, listed, apiUrl, up, flaps>>

(* The client is stopped and started: DCs are discovered anew or the saved *)
(* list is used, and the stored URL becomes current if it is listed.       *)
Restart ==
    /\ \A r \in Request : ~Active(r)
    /\ \E r \in Request : pc[r] # "idle"
    /\ listed' \in Answers \cup {listed}
    /\ pool' = SetCurrent([urls |-> Deduped(listed'), current |-> 1], apiUrl)
    /\ pc' = [r \in Request |-> "idle"]
    /\ at' = [r \in Request |-> none]
    /\ index' = [r \in Request |-> 0]
    /\ refreshed' = [r \in Request |-> FALSE]
    /\ tried' = [r \in Request |-> {}] /\ offered' = [r \in Request |-> {}]
    /\ alone' = [r \in Request |-> TRUE]
    /\ UNCHANGED <<apiUrl, up, flaps>>

Flap(u) ==
    /\ u \notin Reliable /\ flaps < MaxFlaps
    /\ flaps' = flaps + 1
    /\ up' = IF u \in up THEN up \ {u} ELSE up \cup {u}
    /\ UNCHANGED <<pool, listed, apiUrl, request>>

Next ==
    \/ \E r \in Request : Send(r) \/ Answer(r) \/ Fail(r) \/ Refresh(r) \/ Wake(r) \/ Cancel(r)
    \/ Restart
    \/ \E u \in Url : Flap(u)

Spec == Init /\ [][Next]_vars

-----------------------------------------------------------------------------
(* getDCs is consulted when every URL of the list has failed once: a       *)
(* request nobody interfered with has been sent to all of them by then.    *)
RefreshesAfterAll ==
    \A r \in Request : pc[r] = "refreshing" /\ alone[r] => Urls(pool) \subseteq tried[r]

(* One URL that works is enough: a request nobody interfered with and that *)
(* may be retried once per URL does not fail while a listed URL answers.   *)
ReliableUrlIsFound ==
    \A r \in Request \ Pinned :
        pc[r] = "failed" /\ alone[r] /\ Cardinality(offered[r]) <= RetriesOf(Retries[r]) + 1
            => offered[r] \cap Reliable = {}

(* The URL the next start of the client begins with is one that answered,  *)
(* unless another request turned the pool in the meantime.                 *)
StoredUrlAnswered ==
    [][\A r \in Request \ Pinned :
        apiUrl' # apiUrl /\ pc[r] # "ok" /\ pc'[r] = "ok" /\ alone[r]
            => apiUrl' = at[r] /\ at[r] \in up]_vars
=============================================================================
