---------------------------- MODULE DcRepository ----------------------------
(***************************************************************************)
(* The client's view of Rubika's data centres, DcRepository of             *)
(* rubigram/network/discovery.py, over starts, restarts and refreshes.     *)
(* getDCs and getBaseInfo write the same URLs, the repository is saved and *)
(* restored, and the transports hold on to pools they were given long ago. *)
(*                                                                         *)
(* The storage does not suspend, so a step is what a coroutine does        *)
(* between two requests.  Where a pool stands is UrlPool's and             *)
(* HttpTransport's matter; a pool is the list of its URLs here.  The       *)
(* wallet's URLs go the way of Rubino's and are left out, as are those of  *)
(* storages and CDNs, which are only looked up.                            *)
(***************************************************************************)
EXTENDS Sequences, FiniteSets

LOCAL INSTANCE UrlPool

CONSTANTS
    Defaults,    \* the URLs of each type before getDCs has answered
    Dcs,         \* what getDCs may answer: URLs of some of the types
    Suggestions, \* Rubino's URLs getBaseInfo may suggest
    Custom,      \* socket_urls of the client
    Discover,    \* discover_dcs
    none

Type == {"api", "bot", "socket", "rubino"}

UrlsOf(lists) == UNION {{l[i] : i \in DOMAIN l} : l \in lists}

Url == UNION {UrlsOf({d[t] : t \in DOMAIN d}) : d \in Dcs \cup {Defaults}}
         \cup Suggestions \cup UrlsOf({Custom})

VARIABLES
    pc,      \* of the client
    repo,    \* client.dc: the lists, the suggestion, the pools made of them
    saved,   \* dc_repository in the session storage
    http,    \* the pool of _http and _service
    socket,  \* the pool of the socket transport, if there is one
    asking   \* a Rubino call waits for getBaseInfo

vars == <<pc, repo, saved, http, socket, asking>>

NoPools == [t \in {} |-> <<>>]
Fresh == [data |-> Defaults, suggested |-> none, pools |-> NoPools]

-----------------------------------------------------------------------------
(* Every key that says something replaces what was known. *)
UpdateFromDcs(r, answer) ==
    [r EXCEPT !.data = [t \in Type |-> IF t \in DOMAIN answer THEN answer[t] ELSE @[t]],
              !.pools = NoPools]

(* Mutant: the pools made before go on. *)
UpdateKeepingPools(r, url) ==
    [r EXCEPT !.suggested = url,
              !.data["rubino"] = IF url = none THEN @ ELSE <<url>>]

(* The suggestions are replaced as a whole; one for Rubino replaces its list. *)
UpdateFromBaseInfo(r, url) ==
    [r EXCEPT !.suggested = url,
              !.data["rubino"] = IF url = none THEN @ ELSE <<url>>,
              !.pools = NoPools]

MergeUrls(r, t, extra) ==
    [r EXCEPT !.data[t] = Deduped(@ \o extra),
              !.pools = [s \in DOMAIN @ \ {t} |-> @[s]]]

Urls(r, t) == Deduped(r.data[t])

(* pool(), which makes one where there is none. *)
Pool(r, t) == IF t \in DOMAIN r.pools THEN r.pools[t] ELSE Urls(r, t)

WithPool(r, t) ==
    [r EXCEPT !.pools = [s \in DOMAIN @ \cup {t} |-> Pool(r, s)]]

ToDict(r) == [dcs |-> r.data, suggested |-> r.suggested]

FromDict(s) ==
    IF s = none THEN Fresh
    ELSE LET r == UpdateFromDcs(Fresh, s.dcs)
         IN  IF s.suggested = none THEN r ELSE UpdateFromBaseInfo(r, s.suggested)

-----------------------------------------------------------------------------
Init ==
    /\ pc = "idle"
    /\ repo = Fresh /\ saved = none
    /\ http = <<>> /\ socket = <<>>
    /\ asking = FALSE

Open == pc \in {"starting", "running"}

(* start() goes on with r: the transports are made and get their pools. *)
OpenWith(r) ==
    LET merged == WithPool(WithPool(MergeUrls(r, "socket", Custom), "api"), "bot")
    IN  /\ repo' = merged
        /\ http' = Pool(merged, "api")
        /\ pc' = "starting"

(* getDCs is asked on request, or because no DC is known; it may fail when *)
(* one is.                                                                 *)
Start ==
    LET restored == FromDict(saved) IN
    /\ pc \in {"idle", "stopped"}
    /\ \/ /\ Discover \/ saved = none
          /\ \E answer \in Dcs :
                /\ OpenWith(UpdateFromDcs(restored, answer))
                /\ saved' = ToDict(UpdateFromDcs(restored, answer))
       \/ /\ saved # none
          /\ OpenWith(restored)
          /\ UNCHANGED saved
    /\ UNCHANGED <<socket, asking>>

Learn(url) ==
    /\ repo' = UpdateFromBaseInfo(repo, url)
    /\ saved' = ToDict(repo')

(* _after_login: getBaseInfo is asked once more, and may fail. *)
AfterLogin ==
    /\ pc = "starting"
    /\ \/ \E url \in Suggestions \cup {none} : Learn(url)
       \/ UNCHANGED <<repo, saved>>
    /\ pc' = "running"
    /\ UNCHANGED <<http, socket, asking>>

(* _ensure_socket, where there is none yet. *)
EnsureSocket ==
    /\ Open /\ socket = <<>>
    /\ repo' = WithPool(repo, "socket")
    /\ socket' = Pool(repo', "socket")
    /\ UNCHANGED <<saved, pc, http, asking>>

(* A request failed on every API URL: getDCs answers, the repository is    *)
(* saved and the HTTP transport gets the new list.                         *)
RefreshApiUrls ==
    /\ Open
    /\ \E answer \in Dcs : repo' = UpdateFromDcs(repo, answer)
    /\ saved' = ToDict(repo')
    /\ http' = Urls(repo', "api")
    /\ UNCHANGED <<pc, socket, asking>>

GetBaseInfo ==
    /\ pc = "running"
    /\ \E url \in Suggestions \cup {none} : Learn(url)
    /\ UNCHANGED <<pc, http, socket, asking>>

(* _call_service: to the URL current in Rubino's pool. *)
PostTo(r) == repo' = WithPool(r, "rubino")

(* get_rubino_post, get_rubino_stories *)
RubinoCall ==
    /\ pc = "running" /\ ~asking
    /\ IF repo.suggested # none
       THEN PostTo(repo) /\ UNCHANGED asking
       ELSE asking' = TRUE /\ UNCHANGED repo
    /\ UNCHANGED <<saved, pc, http, socket>>

(* _ensure_base_info, and the call itself whether it failed or not.        *)
EnsureBaseInfo ==
    /\ asking
    /\ asking' = FALSE
    /\ \/ \E url \in Suggestions \cup {none} :
            LET r == UpdateFromBaseInfo(repo, url)
            IN  PostTo(r) /\ saved' = ToDict(r)
       \/ PostTo(repo) /\ UNCHANGED saved
    /\ UNCHANGED <<pc, http, socket>>

(* stop(), or a start that fails: requests end with the transports. *)
Stop ==
    /\ Open
    /\ pc' = "stopped"
    /\ http' = <<>> /\ socket' = <<>>
    /\ asking' = FALSE
    /\ UNCHANGED <<repo, saved>>

Next ==
    \/ Start \/ AfterLogin \/ EnsureSocket \/ Stop
    \/ RefreshApiUrls \/ GetBaseInfo \/ RubinoCall \/ EnsureBaseInfo

Spec == Init /\ [][Next]_vars

-----------------------------------------------------------------------------
(* Nobody is sent to a URL that has been replaced: every pool the          *)
(* repository would hand out holds the URLs known now, and so does that of *)
(* the HTTP transport, which was handed out at the start                   *)
(* (_pools.clear, _refresh_api_urls).                                      *)
PoolsFollow ==
    /\ \A t \in DOMAIN repo.pools : repo.pools[t] = Urls(repo, t)
    /\ Open => http = Urls(repo, "api")
=============================================================================
