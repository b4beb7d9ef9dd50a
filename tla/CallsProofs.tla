----------------------------- MODULE CallsProofs ------------------------------
(***************************************************************************)
(* What Calls promises holds whatever the attempts, sizes, pages, limits,  *)
(* changes and configurations are: each part keeps an invariant of its     *)
(* own, and a step of one part finds the others not begun.                 *)
(***************************************************************************)
EXTENDS Calls, FiniteSetTheorems, SequenceTheorems, TLAPS

(* The least of a set of numbers, hence induction: no theorem of the       *)
(* libraries that can be instantiated here says it.                        *)
LEMMA LeastExists == ASSUME NEW S \in SUBSET Nat, S # {} PROVE \E n \in S : \A m \in S : n <= m
<1> DEFINE Upto(n) == 1 .. n
<1> DEFINE T == {Upto(n) : n \in S}
<1>1. T # {}
  OBVIOUS
<1>2. ASSUME NEW n \in S PROVE Upto(n) \in FiniteSubsetsOf(Nat)
  <2>1. IsFiniteSet(Upto(n)) /\ Upto(n) \subseteq Nat
    BY FS_Interval
  <2>. QED  BY <2>1 DEF FiniteSubsetsOf
<1>3. T \subseteq FiniteSubsetsOf(Nat)
  BY <1>2
<1>4. PICK x \in T : \A y \in T : <<y, x>> \notin StrictSubsetOrdering(Nat)
  <2> HIDE DEF T
  <2>. QED BY <1>1, <1>3, FS_StrictSubsetOrderingWellFounded, WFMin
<1>5. PICK n \in S : x = Upto(n)
  OBVIOUS
<1>6. ASSUME NEW m \in S, m < n PROVE FALSE
  <2>1. Upto(m) \in T /\ Upto(m) \subseteq Upto(n) /\ n \in Upto(n) /\ n \notin Upto(m) /\ Upto(n) \subseteq Nat
    BY <1>6
  <2>2. <<Upto(m), x>> \in StrictSubsetOrdering(Nat)
    BY <2>1, <1>5 DEF StrictSubsetOrdering
  <2>. QED  BY <2>1, <2>2, <1>4
<1>. QED  BY <1>6

-----------------------------------------------------------------------------
(* An action of the membership worker.                                     *)

(* The verdict is true of a call that has, or has not, asked for the       *)
(* change, and of an account that has, or has not, the standing asked for. *)
MayTell(verdict, asked, reached) ==
    /\ verdict \in Actions!Call!AllKinds
    /\ verdict = "ok" => asked /\ reached
    /\ verdict = "already_done" => ~asked /\ reached
    /\ verdict = "invalid_target" => ~asked

Reached == member = Actions!Wanted

ActionsTyped ==
    /\ member \in BOOLEAN /\ acted \in BOOLEAN
    /\ order \in Actions!Orders \cup {Actions!NoOrder}

ActionsPC == Actions!Steps \cup {"stop"}

ActionsInv ==
    /\ ActionsTyped
    /\ pc \in ActionsPC => order # Actions!NoOrder
    /\ order # Actions!NoOrder => pc \in ActionsPC \cup {"done"}
    /\ order = Actions!NoOrder => ~acted
    /\ order = Actions!NoOrder \/ pc # "done" => told = "nothing"
    /\ pc \in {"start", "resolve", "page"} => ~acted
    /\ pc = "probe" => acted /\ Reached
    /\ pc = "stop" => MayTell(result, acted, Reached)

LEMMA OrdersAreNotNone == Actions!NoOrder \notin Actions!Orders
  BY DEF Actions!NoOrder, Actions!Orders, Actions!Ops

LEMMA ActionsInit == Actions!Init => ActionsInv
  BY DEF Actions!Init, ActionsInv, ActionsPC, ActionsTyped, Actions!Steps

(* The kinds an error ends in claim nothing of the account, but for one: a *)
(* target is called invalid while it is resolved.                          *)
LEMMA ErrorKinds ==
    ASSUME NEW detail
    PROVE  /\ Actions!Classified(detail) \in {"invalid_target", "session_dead", "throttled",
                                      "conn_error", "failed"}
           /\ Actions!Classified(detail) = "invalid_target" => pc = "resolve"
  BY DEF Actions!Classified

(* An error of the probe is none of the join, any other may be told.       *)
LEMMA ErrorsMayBeTold ==
    ASSUME ActionsInv, pc \in Actions!Steps, NEW detail, NEW asked, NEW reached,
           pc = "resolve" => ~asked,
           pc = "probe" => asked /\ reached
    PROVE  MayTell(Actions!Outcome(Actions!Classified(detail)), asked, reached)
<1>1. CASE pc = "probe"
  BY <1>1 DEF Actions!Outcome, MayTell, Actions!Call!AllKinds
<1>2. CASE pc # "probe"
  BY <1>2, ErrorKinds DEF Actions!Outcome, MayTell, Actions!Call!AllKinds
<1>. QED  BY <1>1, <1>2

-----------------------------------------------------------------------------
LEMMA RefusedInv == ASSUME ActionsInv, NEW detail \in Actions!Details, Actions!Refused(detail) PROVE ActionsInv'
<1>1. pc \in Actions!Steps /\ UNCHANGED <<order, member, told>> /\ acted' = (acted \/ pc = "act")
  BY DEF Actions!Refused
<1>2. ActionsTyped' /\ Reached' = Reached /\ pc' \in {pc, "stop"}
  BY <1>1 DEF Actions!Refused, Actions!EndsWith, Actions!Goto, ActionsInv, ActionsPC, ActionsTyped, Reached, Actions!Wanted, Actions!Steps
<1>3. CASE UNCHANGED pc
  BY <1>1, <1>2, <1>3 DEF ActionsInv, ActionsPC, ActionsTyped, Actions!Steps
<1>4. CASE Actions!EndsWith(Actions!Outcome(Actions!Classified(detail)))
  <2>1. MayTell(Actions!Outcome(Actions!Classified(detail)), acted', Reached')
    BY <1>1, <1>2, ErrorsMayBeTold DEF ActionsInv, ActionsPC
  <2>2. pc' = "stop" /\ result' = Actions!Outcome(Actions!Classified(detail))
    BY <1>4 DEF Actions!EndsWith, Actions!Goto
  <2>. QED  BY <1>1, <1>2, <2>1, <2>2 DEF ActionsInv, ActionsPC, Actions!Steps
<1>. QED  BY <1>3, <1>4 DEF Actions!Refused

LEMMA UnansweredInv == ASSUME ActionsInv, Actions!Unanswered PROVE ActionsInv'
<1>1. /\ pc \in Actions!Steps /\ UNCHANGED <<order, told>> /\ acted' = (acted \/ pc = "act")
      /\ pc # "act" => UNCHANGED member
  BY DEF Actions!Unanswered
<1>2. ActionsTyped' /\ (pc # "act" => Reached' = Reached) /\ pc' \in {pc, "stop"}
  BY <1>1 DEF Actions!Unanswered, Actions!EndsWith, Actions!Goto, ActionsInv, ActionsPC, ActionsTyped, Reached, Actions!Wanted, Actions!Steps
<1>3. CASE UNCHANGED pc
  BY <1>1, <1>2, <1>3 DEF ActionsInv, ActionsPC, ActionsTyped, Actions!Steps
<1>4. CASE Actions!EndsWith(Actions!Outcome(Actions!Classified("NETWORK")))
  <2>1. MayTell(Actions!Outcome(Actions!Classified("NETWORK")), acted', Reached')
    BY <1>1, <1>2, ErrorsMayBeTold DEF ActionsInv, ActionsPC
  <2>2. pc' = "stop" /\ result' = Actions!Outcome(Actions!Classified("NETWORK"))
    BY <1>4 DEF Actions!EndsWith, Actions!Goto
  <2>. QED  BY <1>1, <1>2, <2>1, <2>2 DEF ActionsInv, ActionsPC, Actions!Steps
<1>. QED  BY <1>3, <1>4 DEF Actions!Unanswered

(* Only a preview that says so leads to "already done".                    *)
LEMMA ResolvedInv == ASSUME ActionsInv, Actions!Resolved PROVE ActionsInv'
<1>1. pc = "resolve" /\ UNCHANGED <<order, member, acted, told>> /\ Reached' = Reached
  BY DEF Actions!Resolved, Reached, Actions!Wanted
<1>2. \/ Actions!EndsWith("invalid_target")
      \/ Actions!EndsWith("already_done") /\ Reached
      \/ pc' \in {"page", "act"}
  <2>1. PICK is_member \in {IF member THEN "yes" ELSE "no", "unknown"} :
          CASE order.target \in {"gone", "user"} -> Actions!EndsWith("invalid_target")
            [] order.op \in {"join", "leave"} /\ Actions!AlreadyDone(is_member) -> Actions!EndsWith("already_done")
            [] order.op = "join" /\ order.target = "group" /\ order.ref \notin Actions!Links ->
                    Actions!EndsWith("invalid_target")
            [] OTHER ->
                    Actions!Goto(IF order.op = "view" THEN "page" ELSE "act") /\ UNCHANGED result
    BY DEF Actions!Resolved
  <2>2. order.op \in {"join", "leave"} /\ Actions!AlreadyDone(is_member) => Reached
    BY DEF Actions!AlreadyDone, Reached, Actions!Wanted, ActionsInv, ActionsPC, ActionsTyped
  <2>3. Actions!Goto(IF order.op = "view" THEN "page" ELSE "act") => pc' \in {"page", "act"}
    BY DEF Actions!Goto
  <2>. QED  BY <2>1, <2>2, <2>3
<1>. QED  BY <1>1, <1>2 DEF ActionsInv, ActionsPC, ActionsTyped, Actions!EndsWith, Actions!Goto, MayTell, Actions!Call!AllKinds, Actions!Steps

LEMMA ActionsStep == ASSUME ActionsInv, Actions!Next PROVE ActionsInv'
<1>1. CASE Actions!Begin
  BY <1>1, OrdersAreNotNone DEF Actions!Begin, ActionsInv, ActionsPC, ActionsTyped, Actions!Goto, Actions!Steps
<1>2. CASE Actions!Started
  BY <1>2 DEF Actions!Started, ActionsInv, ActionsPC, ActionsTyped, Actions!Goto, Actions!Steps
<1>3. CASE Actions!Resolved
  BY <1>3, ResolvedInv
<1>4. CASE Actions!Paged
  <2>1. pc = "page" /\ UNCHANGED <<order, member, acted, told>>
    BY <1>4 DEF Actions!Paged
  <2>2. pc' = "act" \/ (pc' = "stop" /\ result' \in {"invalid_target", "failed"})
    BY <1>4 DEF Actions!Paged, Actions!EndsWith, Actions!Goto
  <2>. QED  BY <2>1, <2>2 DEF ActionsInv, ActionsPC, ActionsTyped, Actions!Steps, MayTell, Actions!Call!AllKinds
<1>5. CASE Actions!Acted
  <2>1. pc = "act" /\ member' = Actions!Wanted /\ acted' = TRUE /\ UNCHANGED <<order, told>>
    BY <1>5 DEF Actions!Acted
  <2>2. Reached' /\ member' \in BOOLEAN
    BY <2>1 DEF Reached, Actions!Wanted
  <2>3. pc' = "probe" \/ (pc' = "stop" /\ result' = "ok")
    BY <1>5 DEF Actions!Acted, Actions!EndsWith, Actions!Goto
  <2>. QED  BY <2>1, <2>2, <2>3 DEF ActionsInv, ActionsPC, ActionsTyped, Actions!Steps, MayTell, Actions!Call!AllKinds
<1>6. CASE Actions!Counted
  <2>1. pc = "probe" /\ UNCHANGED <<order, member, acted, told>> /\ Reached' = Reached
    BY <1>6 DEF Actions!Counted, Reached, Actions!Wanted
  <2>2. pc' = "stop" /\ result' = "ok"
    BY <1>6 DEF Actions!Counted, Actions!EndsWith, Actions!Goto
  <2>. QED  BY <2>1, <2>2 DEF ActionsInv, ActionsPC, ActionsTyped, Actions!Steps, MayTell, Actions!Call!AllKinds
<1>7. CASE \E detail \in Actions!Details : Actions!Refused(detail)
  BY <1>7, RefusedInv
<1>8. CASE Actions!Unanswered
  BY <1>8, UnansweredInv
<1>9. CASE Actions!Stopped
  BY <1>9 DEF Actions!Stopped, ActionsInv, ActionsPC, ActionsTyped, Actions!Steps, MayTell, Actions!Call!AllKinds
<1>10. CASE Actions!Overdue
  BY <1>10 DEF Actions!Overdue, ActionsInv, ActionsPC, ActionsTyped, Actions!Steps
<1>. QED  BY <1>1, <1>2, <1>3, <1>4, <1>5, <1>6, <1>7, <1>8, <1>9, <1>10 DEF Actions!Next

-----------------------------------------------------------------------------
(* The refinement, action by action.                                       *)

LEMMA InitRefines == Actions!Init => Actions!Call!Init
  BY DEF Actions!Init, Actions!Call!Init

(* While the order stays, so does what is wanted.                          *)
LEMMA TellRefines ==
    ASSUME ActionsInv, pc \in Actions!Steps \cup {"stop"}, NEW verdict, told' = verdict,
           MayTell(verdict, acted, Reached), UNCHANGED <<order, member, acted>>
    PROVE  Actions!Call!Next
<1>1. order # Actions!NoOrder /\ told = "nothing"
  BY DEF ActionsInv, ActionsPC, Actions!Steps
<1>2. Actions!Call!Tell(verdict)
  BY <1>1 DEF Actions!Call!Tell, MayTell, Reached, ActionsInv, ActionsPC, ActionsTyped, Actions!Wanted
<1>. QED  BY <1>2 DEF Actions!Call!Next, MayTell

LEMMA AskRefines ==
    ASSUME ActionsInv, pc = "act", acted' = TRUE, member' \in {member, Actions!Wanted},
           UNCHANGED <<order, told>>
    PROVE  Actions!Call!Next
<1>1. order # Actions!NoOrder /\ told = "nothing" /\ Actions!Wanted' = Actions!Wanted
  BY DEF ActionsInv, ActionsPC, Actions!Steps, Actions!Wanted
<1>2. Actions!Call!Ask
  BY <1>1 DEF Actions!Call!Ask, ActionsInv, ActionsPC, ActionsTyped, Actions!Wanted
<1>. QED  BY <1>2 DEF Actions!Call!Next

(* Nothing the abstract call knows of changes.                             *)
LEMMA HiddenRefines ==
    ASSUME UNCHANGED <<order, member, acted, told>> PROVE UNCHANGED Actions!Call!vars
  BY DEF Actions!Call!vars, Actions!Wanted

LEMMA BeginRefines == ASSUME ActionsInv, Actions!Begin PROVE Actions!Call!Next
<1>1. order = Actions!NoOrder /\ told = "nothing" /\ order' # Actions!NoOrder
  BY OrdersAreNotNone DEF Actions!Begin, ActionsInv, ActionsPC, Actions!Steps
<1>2. Actions!Call!Begin
  BY <1>1 DEF Actions!Begin, Actions!Call!Begin, Actions!Wanted
<1>. QED  BY <1>2 DEF Actions!Call!Next

LEMMA ActionsRefine == ASSUME ActionsInv, Actions!Next PROVE [Actions!Call!Next]_(Actions!Call!vars)
<1>1. CASE Actions!Begin
  BY <1>1, BeginRefines
<1>2. CASE Actions!Started \/ Actions!Resolved \/ Actions!Paged \/ Actions!Counted
  BY <1>2, HiddenRefines DEF Actions!Started, Actions!Resolved, Actions!Paged, Actions!Counted
<1>3. CASE Actions!Acted
  BY <1>3, AskRefines DEF Actions!Acted
<1>4. CASE \E detail \in Actions!Details : Actions!Refused(detail)
  <2>1. UNCHANGED <<order, member, told>> /\ acted' = (acted \/ pc = "act")
    BY <1>4 DEF Actions!Refused
  <2>2. CASE pc = "act"
    BY <2>1, <2>2, AskRefines
  <2>3. CASE pc # "act"
    BY <2>1, <2>3, HiddenRefines DEF ActionsInv, ActionsPC, ActionsTyped
  <2>. QED  BY <2>2, <2>3
<1>5. CASE Actions!Unanswered
  <2>1. CASE pc = "act"
    BY <1>5, <2>1, AskRefines DEF Actions!Unanswered
  <2>2. CASE pc # "act"
    BY <1>5, <2>2, HiddenRefines DEF Actions!Unanswered, ActionsInv, ActionsPC, ActionsTyped
  <2>. QED  BY <2>1, <2>2
<1>6. CASE Actions!Stopped
  BY <1>6, TellRefines DEF Actions!Stopped, ActionsInv, ActionsPC
<1>7. CASE Actions!Overdue
  <2>1. MayTell("conn_error", acted, Reached)
    BY DEF MayTell, Actions!Call!AllKinds
  <2>. QED  BY <1>7, <2>1, TellRefines DEF Actions!Overdue
<1>. QED  BY <1>1, <1>2, <1>3, <1>4, <1>5, <1>6, <1>7 DEF Actions!Next

-----------------------------------------------------------------------------
(* The DC configuration.                                                   *)

DcPC == {"stopped", "starting", "running"}

(* A repository has a list for every type, and the pools it made hold the  *)
(* lists of now.                                                           *)
Repository(r) ==
    /\ DOMAIN r = {"data", "suggested", "pools"}
    /\ DOMAIN r.data = DcConfig!Type
    /\ DOMAIN r.pools \subseteq DcConfig!Type
    /\ r.pools = [t \in DOMAIN r.pools |-> DcConfig!Urls(r, t)]

DcInv ==
    /\ Repository(repo)
    /\ asking => pc = "running"
    /\ DcConfig!Open => http = DcConfig!Urls(repo, "api")

LEMMA FreshIsRepository == Repository(DcConfig!Fresh)
  BY UrlAssumption DEF Repository, DcConfig!Fresh, DcConfig!NoPools, UrlAssumption

LEMMA UpdateFromDcsKeeps ==
    ASSUME NEW r, Repository(r), NEW answer PROVE Repository(DcConfig!UpdateFromDcs(r, answer))
<1> DEFINE u == DcConfig!UpdateFromDcs(r, answer)
<1>1. DOMAIN u = {"data", "suggested", "pools"}
  BY DEF DcConfig!UpdateFromDcs, Repository
<1>2. DOMAIN u.data = DcConfig!Type /\ u.pools = DcConfig!NoPools
  BY DEF DcConfig!UpdateFromDcs, Repository
<1>. QED  BY <1>1, <1>2 DEF Repository, DcConfig!NoPools

(* Only Rubino's list is replaced by a suggestion. *)
LEMMA UpdateFromBaseInfoKeeps ==
    ASSUME NEW r, Repository(r), NEW url
    PROVE  /\ Repository(DcConfig!UpdateFromBaseInfo(r, url))
           /\ DcConfig!Urls(DcConfig!UpdateFromBaseInfo(r, url), "api") = DcConfig!Urls(r, "api")
<1> DEFINE u == DcConfig!UpdateFromBaseInfo(r, url)
<1>1. DOMAIN u = {"data", "suggested", "pools"}
  BY DEF DcConfig!UpdateFromBaseInfo, Repository
<1>2. u.data = [r.data EXCEPT !["rubino"] = IF url = none THEN @ ELSE <<url>>]
  BY DEF DcConfig!UpdateFromBaseInfo, Repository
<1>3. DOMAIN u.data = DcConfig!Type /\ u.data["api"] = r.data["api"]
  BY <1>2 DEF DcConfig!Type, Repository
<1>4. u.pools = DcConfig!NoPools
  BY DEF DcConfig!UpdateFromBaseInfo, Repository
<1>. QED  BY <1>1, <1>3, <1>4 DEF DcConfig!NoPools, DcConfig!Urls, Repository

LEMMA MergeUrlsKeeps ==
    ASSUME NEW r, Repository(r), NEW t \in DcConfig!Type, NEW extra
    PROVE  Repository(DcConfig!MergeUrls(r, t, extra))
<1> DEFINE u == DcConfig!MergeUrls(r, t, extra)
<1>1. DOMAIN u = {"data", "suggested", "pools"}
  BY DEF DcConfig!MergeUrls, Repository
<1>2. DOMAIN u.data = DcConfig!Type /\ \A s \in DcConfig!Type \ {t} : u.data[s] = r.data[s]
  BY DEF DcConfig!MergeUrls, Repository
<1>3. u.pools = [s \in DOMAIN r.pools \ {t} |-> r.pools[s]]
  BY DEF DcConfig!MergeUrls, Repository
<1>. QED  BY <1>1, <1>2, <1>3 DEF DcConfig!Urls, Repository

LEMMA WithPoolKeeps ==
    ASSUME NEW r, Repository(r), NEW t \in DcConfig!Type
    PROVE  /\ Repository(DcConfig!WithPool(r, t))
           /\ DcConfig!WithPool(r, t).data = r.data
           /\ \A s : DcConfig!Pool(r, s) = DcConfig!Urls(r, s)
  BY DEF Repository, DcConfig!WithPool, DcConfig!Pool, DcConfig!Urls

LEMMA FromDictKeeps == ASSUME NEW s PROVE Repository(DcConfig!FromDict(s))
  BY FreshIsRepository, UpdateFromDcsKeeps, UpdateFromBaseInfoKeeps DEF DcConfig!FromDict

LEMMA OpenWithKeeps ==
    ASSUME NEW r, Repository(r), DcConfig!OpenWith(r), asking' = asking, ~asking PROVE DcInv'
<1> DEFINE merged == DcConfig!WithPool(DcConfig!WithPool(DcConfig!MergeUrls(r, "socket", Custom), "api"), "bot")
<1>1. {"api", "bot", "socket", "rubino"} = DcConfig!Type
  BY DEF DcConfig!Type
<1>2. Repository(merged) /\ DcConfig!Pool(merged, "api") = DcConfig!Urls(merged, "api")
  BY <1>1, MergeUrlsKeeps, WithPoolKeeps
<1>3. repo' = merged /\ http' = DcConfig!Pool(merged, "api") /\ pc' = "starting"
  BY DEF DcConfig!OpenWith
<1>. QED  BY <1>2, <1>3 DEF DcInv, Repository, DcConfig!Urls

LEMMA DcInit == DcConfig!Init => DcInv
  BY FreshIsRepository DEF DcConfig!Init, DcInv, DcConfig!Open

LEMMA LearnKeeps ==
    ASSUME DcInv, NEW url, DcConfig!Learn(url)
    PROVE  Repository(repo') /\ DcConfig!Urls(repo', "api") = DcConfig!Urls(repo, "api")
  BY UpdateFromBaseInfoKeeps DEF DcInv, DcConfig!Learn

LEMMA PostToKeeps ==
    ASSUME NEW r, Repository(r), DcConfig!PostTo(r)
    PROVE  Repository(repo') /\ DcConfig!Urls(repo', "api") = DcConfig!Urls(r, "api")
<1>1. "rubino" \in DcConfig!Type
  BY DEF DcConfig!Type
<1>. QED  BY <1>1, WithPoolKeeps DEF DcConfig!PostTo, DcConfig!Urls

LEMMA DcStep == ASSUME DcInv, DcConfig!Next PROVE DcInv'
<1> USE DEF DcConfig!Open
<1>1. CASE DcConfig!Start
  <2>1. ~asking /\ asking' = asking
    BY <1>1 DEF DcConfig!Start, DcInv
  <2>2. CASE \E answer \in Dcs : DcConfig!OpenWith(DcConfig!UpdateFromDcs(DcConfig!FromDict(saved), answer))
    BY <2>1, <2>2, FromDictKeeps, UpdateFromDcsKeeps, OpenWithKeeps
  <2>3. CASE DcConfig!OpenWith(DcConfig!FromDict(saved))
    BY <2>1, <2>3, FromDictKeeps, OpenWithKeeps
  <2>. QED  BY <1>1, <2>2, <2>3 DEF DcConfig!Start
<1>2. CASE DcConfig!AfterLogin
  <2>1. pc = "starting" /\ pc' = "running" /\ UNCHANGED <<http, asking>>
    BY <1>2 DEF DcConfig!AfterLogin
  <2>2. Repository(repo') /\ DcConfig!Urls(repo', "api") = DcConfig!Urls(repo, "api")
    BY <1>2, LearnKeeps DEF DcConfig!AfterLogin, DcInv
  <2>. QED  BY <2>1, <2>2 DEF DcInv
<1>3. CASE DcConfig!EnsureSocket
  <2>1. Repository(repo') /\ repo'.data = repo.data
    BY <1>3, WithPoolKeeps DEF DcConfig!EnsureSocket, DcInv, DcConfig!Type
  <2>. QED  BY <1>3, <2>1 DEF DcInv, DcConfig!EnsureSocket, DcConfig!Urls
<1>4. CASE DcConfig!Stop
  BY <1>4 DEF DcInv, DcConfig!Stop
<1>5. CASE DcConfig!RefreshApiUrls
  BY <1>5, UpdateFromDcsKeeps DEF DcInv, DcConfig!RefreshApiUrls
<1>6. CASE DcConfig!GetBaseInfo
  BY <1>6, LearnKeeps DEF DcInv, DcConfig!GetBaseInfo
<1>7. CASE DcConfig!RubinoCall
  BY <1>7, PostToKeeps DEF DcInv, DcConfig!RubinoCall
<1>8. CASE DcConfig!EnsureBaseInfo
  <2>1. UNCHANGED <<pc, http>> /\ ~asking'
    BY <1>8 DEF DcConfig!EnsureBaseInfo
  <2>2. Repository(repo') /\ DcConfig!Urls(repo', "api") = DcConfig!Urls(repo, "api")
    BY <1>8, UpdateFromBaseInfoKeeps, PostToKeeps DEF DcInv, DcConfig!EnsureBaseInfo
  <2>. QED  BY <2>1, <2>2 DEF DcInv
<1>. QED  BY <1>1, <1>2, <1>3, <1>4, <1>5, <1>6, <1>7, <1>8 DEF DcConfig!Next

LEMMA DcPoolsFollow == ASSUME DcInv PROVE DcConfig!PoolsFollow
  BY DEF DcInv, Repository, DcConfig!PoolsFollow

-----------------------------------------------------------------------------
(* A walk through a list.                                                  *)

WalkPC == {"ask", "yield"}
Places == 1 .. Walk!Everything
Missing == constant \ Walk!ToSet(yielded)

WalkTyped ==
    /\ kind \in {"none", "messages", "chats"}
    /\ limit \in Nat /\ next \in Nat \ {0} /\ below \in Int
    /\ list \in SUBSET Places /\ page \in SUBSET Places /\ constant \in SUBSET list
    /\ yielded \in Seq(Places)

Descends == \A i, j \in 1 .. Len(yielded) : i < j => yielded[i] > yielded[j]

(* Every place of S comes after what was yielded. *)
After(S) == \A e \in S : \A i \in 1 .. Len(yielded) : yielded[i] > e

(* Before a page is asked for: it will begin with what is missing. *)
Resumes ==
    /\ page = {}
    /\ \A e \in Missing : e <= below
    /\ After({below})

(* While a page is given out: what is missing is on it or comes later. *)
Continues ==
    /\ After(page) /\ After(Missing)
    /\ \A e \in Missing \ page :
          more /\ (page = {} => yielded # <<>>) /\ \A p \in page : e < p

Complete == \A e \in Missing : limit # 0 /\ Len(yielded) = limit /\ e < Walk!Last(yielded)

WalkInv ==
    /\ WalkTyped /\ Descends
    /\ pc \in WalkPC => kind # "none"
    /\ kind # "none" => pc \in WalkPC \cup {"done", "broken"}
    /\ kind = "none" => constant = {} /\ yielded = <<>> /\ page = {} /\ below = Walk!Everything
    /\ pc \in WalkPC /\ limit # 0 => Len(yielded) < limit
    /\ pc = "ask" => Resumes
    /\ pc = "yield" => Continues
    /\ pc = "done" => Complete

LEMMA PlacesAreNumbers == Walk!Everything \in Nat /\ AtFirst \in Nat /\ AtFirst <= Walk!Everything /\ PageSize \in Nat \ {0}
  BY WalkAssumption DEF WalkAssumption, Walk!Everything

(* The largest of some places is one of them.                              *)
LEMMA MaxIsLargest ==
    ASSUME NEW n \in Nat, NEW S \in SUBSET (1 .. n), S # {}
    PROVE  Walk!Max(S) \in S /\ \A x \in S : x <= Walk!Max(S)
<1> DEFINE T == {n - x : x \in S}
<1>1. T \in SUBSET Nat /\ T # {}
  <2>1. PICK x \in S : n - x \in T
    OBVIOUS
  <2>2. \A k \in T : k \in Nat
    OBVIOUS
  <2>. QED  BY <2>1, <2>2
<1>2. PICK m \in T : \A k \in T : m <= k
  <2> HIDE DEF T
  <2>. QED BY <1>1, LeastExists
<1>3. n - m \in S /\ \A x \in S : n - m >= x
  BY <1>2
<1>. QED  BY <1>3 DEF Walk!Max

\* The same operator, by the instance's name.
LEMMA SameCardinality == ASSUME NEW S PROVE Walk!Cardinality(S) = Cardinality(S)
  BY DEF Walk!Cardinality, Cardinality, Walk!IsFiniteSet, IsFiniteSet

(* A page holds the newest of what can be reached.                        *)
LEMMA FirstOfIsNewest ==
    ASSUME NEW S \in SUBSET Places
    PROVE  /\ Walk!FirstOf(S) \subseteq S
           /\ \A e \in S \ Walk!FirstOf(S), f \in Walk!FirstOf(S) : e < f
           /\ S # {} => Walk!FirstOf(S) # {}
<1> DEFINE Newer(e) == {f \in S : f > e}
<1>0. Walk!Everything \in Nat /\ PageSize \in Nat \ {0} /\ S \in SUBSET (1 .. Walk!Everything)
  BY PlacesAreNumbers DEF Places
<1>1. IsFiniteSet(S)
  <2>1. IsFiniteSet(1 .. Walk!Everything)
    BY <1>0, FS_Interval
  <2>. QED  BY <2>1, <1>0, FS_Subset
<1>2. ASSUME NEW e \in S PROVE IsFiniteSet(Newer(e)) /\ Cardinality(Newer(e)) \in Nat
  <2>1. Newer(e) \in SUBSET S
    OBVIOUS
  <2>2. IsFiniteSet(Newer(e))
    BY <2>1, <1>1, FS_Subset
  <2>. QED  BY <2>2, FS_CardinalityType
<1>3. Walk!FirstOf(S) = {e \in S : Cardinality(Newer(e)) < PageSize}
  BY SameCardinality DEF Walk!FirstOf
<1>4. ASSUME NEW e \in S, NEW f \in Walk!FirstOf(S), f <= e PROVE e \in Walk!FirstOf(S)
  <2>0. f \in S /\ Cardinality(Newer(f)) < PageSize
    BY <1>3
  <2>1. ASSUME NEW x \in S, x > e PROVE x > f
    <3>1. x \in Int /\ e \in Int /\ f \in Int
      BY <1>0, <2>0
    <3>. QED  BY <3>1, <1>4, <2>1
  <2>2. Cardinality(Newer(e)) <= Cardinality(Newer(f))
    <3>1. IsFiniteSet(Newer(f))
      BY <1>2, <2>0
    <3>. QED  
      <4>1. Newer(e) \in SUBSET Newer(f)
        BY <2>1
      <4>. QED  BY <4>1, <3>1, FS_Subset
  <2>3. Cardinality(Newer(e)) \in Nat /\ Cardinality(Newer(f)) \in Nat
    BY <1>2, <2>0
  <2>4. Cardinality(Newer(e)) < PageSize
    BY <2>0, <2>2, <2>3, <1>0
  <2>. QED  BY <1>3, <2>4
<1>5. ASSUME S # {} PROVE Walk!FirstOf(S) # {}
  <2>1. Walk!Max(S) \in S /\ \A x \in S : x <= Walk!Max(S)
    BY <1>0, <1>5, MaxIsLargest
  <2>2. Newer(Walk!Max(S)) = {}
    <3>1. ASSUME NEW x \in S, x > Walk!Max(S) PROVE FALSE
      <4>1. \A y \in S : y \in Int
        BY <1>0
      <4>2. x \in Int /\ Walk!Max(S) \in Int
        BY <4>1, <2>1
      <4>. QED  BY <4>2, <2>1, <3>1
    <3>. QED  BY <3>1
  <2>3. Cardinality(Newer(Walk!Max(S))) = 0
    BY <2>2, FS_EmptySet
  <2>. QED  BY <1>0, <1>3, <2>1, <2>3
<1>6. ASSUME NEW e \in S \ Walk!FirstOf(S), NEW f \in Walk!FirstOf(S) PROVE e < f
  <2>1. f \in S /\ e \in S /\ ~(f <= e)
    BY <1>3, <1>4
  <2>. QED  BY <2>1, <1>0
<1>. QED  BY <1>3, <1>5, <1>6

LEMMA WalkInit == Walk!Init => WalkInv
  BY PlacesAreNumbers DEF Walk!Init, WalkInv, WalkTyped, Descends, WalkPC

LEMMA PlaceIsInteger == \A e \in Places : e \in Int /\ e >= 1 /\ e <= Walk!Everything
  BY PlacesAreNumbers DEF Places

(* Changes to the list leave the answer and what was yielded alone, and no *)
(* entry becomes one that was there all the time.                          *)
LEMMA ChangeKeeps ==
    ASSUME WalkInv, list' \in SUBSET Places, next' \in Nat \ {0},
           constant' \in SUBSET constant, constant' \subseteq list',
           UNCHANGED <<pc, kind, limit, below, page, more, yielded>>, kind # "none"
    PROVE  WalkInv'
<1>1. Missing' \in SUBSET Missing
  BY DEF Missing
<1>2. WalkTyped' /\ Descends'
  BY DEF WalkInv, WalkTyped, Descends, Places, Walk!Everything
<1>3. pc = "ask" => Resumes'
  BY <1>1 DEF WalkInv, Resumes, After
<1>4. pc = "yield" => Continues'
  BY <1>1 DEF WalkInv, Continues, After
<1>5. pc = "done" => Complete'
  BY <1>1 DEF WalkInv, Complete, Walk!Last
<1>. QED  BY <1>2, <1>3, <1>4, <1>5 DEF WalkInv

LEMMA BeginInv == ASSUME WalkInv, Walk!Begin PROVE WalkInv'
<1>1. kind = "none" /\ yielded = <<>> /\ page = {} /\ below = Walk!Everything /\ constant = {}
  BY DEF WalkInv, WalkPC, Walk!Begin
<1>2. PICK n \in 0 .. AtFirst : list' = 1 .. n
  BY DEF Walk!Begin
<1>3. list' \in SUBSET Places
  BY <1>2, PlacesAreNumbers DEF Places
<1>4. limit' \in Nat /\ kind' \in {"messages", "chats"} /\ constant' = list' /\ pc' = "ask"
      /\ UNCHANGED <<next, below, page, more, yielded>>
  BY WalkAssumption DEF WalkAssumption, Walk!Begin
<1>5. WalkTyped'
  BY <1>1, <1>3, <1>4 DEF WalkInv, WalkTyped, Places, Walk!Everything
<1>6. Descends'
  BY <1>1, <1>4 DEF Descends
<1>7. Resumes'
  BY <1>1, <1>3, <1>4, PlaceIsInteger DEF Resumes, Missing, After
<1>8. limit' # 0 => Len(yielded') < limit'
  BY <1>1, <1>4
<1>. QED  BY <1>4, <1>5, <1>6, <1>7, <1>8 DEF WalkInv, WalkPC

LEMMA AskInv == ASSUME WalkInv, Walk!Ask PROVE WalkInv'
<1>1. pc = "ask" /\ pc' \in {"yield", "done"} /\ page' = Walk!FirstOf(Walk!Reached)
      /\ more' = (Walk!Reached # Walk!FirstOf(Walk!Reached))
      /\ UNCHANGED <<kind, limit, list, next, below, yielded, constant>>
      /\ (pc' = "done" => page' = {})
  BY DEF Walk!Ask
<1>2. WalkTyped /\ Resumes /\ kind # "none" /\ Descends /\ (limit # 0 => Len(yielded) < limit)
  BY <1>1 DEF WalkInv, WalkPC
<1>3. Walk!Reached \in SUBSET Places /\ \A e \in Walk!Reached : e <= below
  BY <1>2 DEF WalkTyped, Walk!Reached
<1>4. Missing' = Missing /\ Missing \subseteq Walk!Reached
  BY <1>1, <1>2 DEF Missing, Resumes, WalkTyped, Walk!Reached
<1>5. page' \subseteq Walk!Reached
  BY <1>1, <1>3, FirstOfIsNewest
<1>6. WalkTyped' /\ Descends'
  BY <1>1, <1>2, <1>3, <1>5 DEF WalkTyped, Descends, Places, Walk!Everything
<1>7. \A e \in Walk!Reached : \A i \in 1 .. Len(yielded') : yielded'[i] > e
  <2>1. SUFFICES ASSUME NEW e \in Walk!Reached, NEW i \in 1 .. Len(yielded) PROVE yielded[i] > e
    BY <1>1
  <2>2. yielded[i] > below /\ below \in Int /\ yielded[i] \in Places
    BY <1>2 DEF Resumes, After, WalkTyped
  <2>. QED  BY <1>3, <2>2, PlaceIsInteger
<1>8. Continues'
  <2>1. After(page)' /\ After(Missing)'
    BY <1>4, <1>5, <1>7 DEF After
  <2>2. ASSUME NEW e \in Missing \ page' PROVE more' /\ page' # {} /\ \A p \in page' : e < p
    BY <1>1, <1>3, <1>4, FirstOfIsNewest
  <2>. QED  BY <1>4, <2>1, <2>2 DEF Continues
<1>9. pc' = "done" => Complete'
  BY <1>1, <1>3, <1>4, FirstOfIsNewest DEF Complete
<1>. QED  BY <1>1, <1>2, <1>6, <1>8, <1>9 DEF WalkInv, WalkPC

LEMMA YieldInv == ASSUME WalkInv, Walk!Yield PROVE WalkInv'
<1> DEFINE m == Walk!Max(page)
<1>1. pc = "yield" /\ pc' \in {"yield", "done"} /\ page # {} /\ page' = page \ {m} /\ yielded' = Append(yielded, m)
      /\ UNCHANGED <<kind, limit, list, next, below, more, constant>>
      /\ (pc' = "done" <=> limit # 0 /\ Len(yielded') >= limit)
  BY DEF Walk!Yield
<1>2. WalkTyped /\ Continues /\ kind # "none" /\ Descends /\ (limit # 0 => Len(yielded) < limit)
  BY <1>1 DEF WalkInv, WalkPC
<1>3. page \in SUBSET Places /\ m \in page /\ \A x \in page : x <= m
  BY <1>1, <1>2, PlacesAreNumbers, MaxIsLargest DEF WalkTyped, Places
<1> HIDE DEF m
<1>4. \A x \in page' : x < m
  BY <1>1, <1>3, PlaceIsInteger
<1>5. yielded \in Seq(Places) /\ m \in Places
  BY <1>2, <1>3 DEF WalkTyped
<1>6. /\ yielded' \in Seq(Places) /\ Len(yielded') = Len(yielded) + 1
      /\ yielded'[Len(yielded) + 1] = m
      /\ \A i \in 1 .. Len(yielded) : yielded'[i] = yielded[i]
  BY <1>1, <1>5
<1>7. Len(yielded) \in Nat
  BY <1>5
<1>8. Missing' = Missing \ {m}
  <2>1. Walk!ToSet(yielded)' = Walk!ToSet(yielded) \cup {m}
    <3>1. DOMAIN yielded = 1 .. Len(yielded) /\ DOMAIN yielded' = 1 .. Len(yielded')
      BY <1>5, <1>6
    <3>2. 1 .. Len(yielded') = 1 .. Len(yielded) \cup {Len(yielded) + 1}
      BY <1>6, <1>7
    <3>. QED  BY <1>6, <3>1, <3>2 DEF Walk!ToSet
  <2>. QED  BY <1>1, <2>1 DEF Missing
<1>9. \A e \in Missing' : e < m
  BY <1>2, <1>3, <1>8, PlaceIsInteger DEF Continues, WalkTyped, Missing
<1>10. WalkTyped'
  BY <1>1, <1>2, <1>6 DEF WalkTyped, Places, Walk!Everything
<1>11. \A i \in 1 .. Len(yielded) : yielded[i] > m
  BY <1>2, <1>3 DEF Continues, After
<1>12. Descends'
  <2>1. SUFFICES ASSUME NEW i \in 1 .. Len(yielded'), NEW j \in 1 .. Len(yielded'), i < j
                PROVE  yielded'[i] > yielded'[j]
    BY DEF Descends
  <2>2. i \in 1 .. Len(yielded)
    BY <2>1, <1>6, <1>7
  <2>3. CASE j = Len(yielded) + 1
    BY <2>2, <2>3, <1>6, <1>11
  <2>4. CASE j # Len(yielded) + 1
    <3>1. j \in 1 .. Len(yielded)
      BY <2>4, <1>6, <1>7
    <3>. QED  BY <2>1, <2>2, <3>1, <1>2, <1>6 DEF Descends
  <2>. QED  BY <2>3, <2>4
<1>13. ASSUME NEW e, e \in page' \/ e \in Missing', NEW i \in 1 .. Len(yielded') PROVE yielded'[i] > e
  <2>1. CASE i = Len(yielded) + 1
    <3>1. e < m
      BY <1>4, <1>9, <1>13
    <3>2. e \in Int
      BY <1>1, <1>2, <1>3, <1>8, <1>13, PlaceIsInteger DEF WalkTyped, Missing
    <3>. QED  BY <2>1, <3>1, <3>2, <1>5, <1>6, PlaceIsInteger
  <2>2. CASE i # Len(yielded) + 1
    <3>1. i \in 1 .. Len(yielded)
      BY <2>2, <1>6, <1>7
    <3>2. e \in page \/ e \in Missing
      BY <1>1, <1>8, <1>13
    <3>. QED  BY <3>1, <3>2, <1>2, <1>6 DEF Continues, After
  <2>. QED  BY <2>1, <2>2
<1>14. Continues'
  <2>1. After(page)' /\ After(Missing)'
    BY <1>13 DEF After
  <2>2. ASSUME NEW e \in Missing' \ page' PROVE more' /\ yielded' # <<>> /\ \A p \in page' : e < p
    <3>1. e \in Missing \ page /\ page' \subseteq page
      BY <1>1, <1>8
    <3>2. yielded' # <<>>
      BY <1>6, <1>7
    <3>. QED  BY <3>1, <3>2, <1>1, <1>2 DEF Continues
  <2>. QED  BY <2>1, <2>2 DEF Continues
<1>15. pc' = "done" => Complete'
  <2>1. Walk!Last(yielded)' = m
    BY <1>6, <1>7 DEF Walk!Last
  <2>2. pc' = "done" => limit # 0 /\ Len(yielded') = limit
    BY <1>1, <1>2, <1>6, <1>7 DEF WalkTyped
  <2>. QED  BY <1>1, <1>9, <2>1, <2>2 DEF Complete
<1>16. pc' = "yield" /\ limit' # 0 => Len(yielded') < limit'
  BY <1>1, <1>2, <1>6, <1>7 DEF WalkTyped
<1>. QED  BY <1>1, <1>2, <1>10, <1>12, <1>14, <1>15, <1>16 DEF WalkInv, WalkPC

LEMMA TurnInv == ASSUME WalkInv, Walk!Turn PROVE WalkInv'
<1>1. pc = "yield" /\ page = {} /\ UNCHANGED <<kind, limit, list, next, page, more, yielded, constant>>
  BY DEF Walk!Turn
<1>2. WalkTyped /\ Continues /\ kind # "none" /\ Descends /\ (limit # 0 => Len(yielded) < limit)
  BY <1>1 DEF WalkInv, WalkPC
<1>3. Missing' = Missing /\ Descends'
  BY <1>1, <1>2 DEF Missing, Descends
<1>4. CASE more /\ yielded # <<>>
  <2>1. pc' = "ask" /\ below' = yielded[Len(yielded)] - 1
    BY <1>4 DEF Walk!Turn, Walk!Continue, Walk!Last
  <2>2. yielded \in Seq(Places) /\ Len(yielded) \in Nat \ {0}
    BY <1>2, <1>4 DEF WalkTyped
  <2>3. yielded[Len(yielded)] \in Int
    BY <2>2, PlaceIsInteger
  <2>4. WalkTyped'
    BY <1>1, <1>2, <2>1, <2>3 DEF WalkTyped, Places, Walk!Everything
  <2>5. \A i \in 1 .. Len(yielded) : yielded[i] > below'
    <3>1. SUFFICES ASSUME NEW i \in 1 .. Len(yielded) PROVE yielded[i] > yielded[Len(yielded)] - 1
      BY <2>1
    <3>2. yielded[i] \in Int
      BY <2>2, PlaceIsInteger
    <3>3. i = Len(yielded) \/ yielded[i] > yielded[Len(yielded)]
      BY <1>2, <2>2 DEF Descends
    <3>. QED  BY <2>3, <3>2, <3>3
  <2>6. \A e \in Missing : e <= below'
    <3>1. SUFFICES ASSUME NEW e \in Missing PROVE e <= yielded[Len(yielded)] - 1
      BY <2>1
    <3>2. yielded[Len(yielded)] > e
      BY <1>2, <2>2 DEF Continues, After
    <3>3. e \in Int
      BY <1>2, PlaceIsInteger DEF Missing, WalkTyped
    <3>. QED  BY <2>3, <3>2, <3>3
  <2>7. Resumes'
    BY <1>1, <1>3, <2>5, <2>6 DEF Resumes, After
  <2>. QED  BY <1>1, <1>2, <1>3, <2>1, <2>4, <2>7 DEF WalkInv, WalkPC
<1>5. CASE ~(more /\ yielded # <<>>)
  <2>1. pc' = "done" /\ below' = below
    BY <1>5 DEF Walk!Turn
  <2>2. Missing = {}
    BY <1>1, <1>2, <1>5 DEF Continues
  <2>3. WalkTyped'
    BY <1>1, <1>2, <2>1 DEF WalkTyped, Places, Walk!Everything
  <2>. QED  BY <1>1, <1>2, <1>3, <2>1, <2>2, <2>3 DEF WalkInv, WalkPC, Complete
<1>. QED  BY <1>4, <1>5

LEMMA WalkStep == ASSUME WalkInv, Walk!Next PROVE WalkInv'
<1>1. ASSUME Walk!Walking PROVE kind # "none"
  BY <1>1 DEF WalkInv, WalkPC, Walk!Walking
<1>2. WalkTyped /\ constant \in SUBSET list /\ next \in Nat \ {0} /\ list \in SUBSET Places
  BY DEF WalkInv, WalkTyped
<1>3. next <= Walk!Everything => next \in Places
  BY <1>2, PlacesAreNumbers DEF Places
<1>4. CASE Walk!New
  BY <1>1, <1>2, <1>3, <1>4, ChangeKeeps DEF Walk!New
<1>5. ASSUME NEW e \in list, Walk!Gone(e) PROVE WalkInv'
  BY <1>1, <1>2, <1>5, ChangeKeeps DEF Walk!Gone
<1>6. ASSUME NEW e \in list, Walk!Moved(e) PROVE WalkInv'
  BY <1>1, <1>2, <1>3, <1>6, ChangeKeeps DEF Walk!Moved
<1>7. CASE Walk!Break
  <2>1. WalkTyped' /\ Descends'
    BY <1>7 DEF Walk!Break, WalkInv, WalkTyped, Descends, Places, Walk!Everything
  <2>. QED  BY <1>1, <1>7, <2>1 DEF WalkInv, WalkPC, Walk!Break
<1>. QED  BY <1>4, <1>5, <1>6, <1>7, BeginInv, AskInv, YieldInv, TurnInv DEF Walk!Next

LEMMA WalkCompletes == WalkInv => Walk!WalkIsComplete
<1> SUFFICES ASSUME WalkInv PROVE Walk!WalkIsComplete
  OBVIOUS
<1>1. Len(yielded) \in Nat /\ Descends /\ (pc = "done" => Complete)
  BY DEF WalkInv, WalkTyped
<1>2. ASSUME NEW i \in 1 .. Len(yielded) - 1 PROVE yielded[i] > yielded[i + 1]
  BY <1>1 DEF Descends
<1>. QED  BY <1>1, <1>2 DEF Walk!WalkIsComplete, Complete, Missing

-----------------------------------------------------------------------------
(* A file transfer.                                                        *)

Part(i) == Transfer!Bytes((i - 1) * ChunkSize + 1, Transfer!Least(i * ChunkSize, size))

TransferPC == {"ready", "asked"}

TransferTyped ==
    /\ way \in {"none", "up", "up_stream", "down"}
    /\ size \in Nat /\ known \in Nat /\ step \in Nat
    /\ spoilt \in BOOLEAN /\ failed \in BOOLEAN

(* The parts before this one are the file's, and so is the part being sent. *)
PartsArrive ==
    /\ there \in Seq(Seq(Nat)) /\ Len(there) = Transfer!Parts(size)
    /\ step \in 1 .. Len(there) + 1
    /\ \A i \in 1 .. step - 1 : there[i] = Part(i)
    /\ pc = "asked" => step <= Len(there) /\ chunk = Part(step)
    /\ pc = "done" /\ ~failed => step > Len(there)

(* What was written is the file up to the next range. *)
RangesArrive ==
    /\ known \in {0, size}
    /\ pc \in TransferPC => step <= size /\ there = Transfer!Bytes(1, step)
    /\ pc = "asked" /\ known > 0 => step < known
    /\ pc = "done" /\ ~failed => there = Transfer!Bytes(1, size)

TransferInv ==
    /\ TransferTyped
    /\ pc \in TransferPC => way # "none"
    /\ way # "none" => pc \in TransferPC \cup {"done"}
    /\ way = "none" => size = 0 /\ there = <<>>
    /\ ~spoilt /\ Transfer!Uploading => PartsArrive
    /\ ~spoilt /\ way = "down" => RangesArrive

(* The parts of a file of n bytes.                                         *)
PartOf(n, i) == Transfer!Bytes((i - 1) * ChunkSize + 1, Transfer!Least(i * ChunkSize, n))

LEMMA LastPart ==
    ASSUME NEW n \in Nat
    PROVE  /\ Transfer!Parts(n) \in Nat \ {0}
           /\ n <= Transfer!Parts(n) * ChunkSize
           /\ n > 0 => (Transfer!Parts(n) - 1) * ChunkSize < n
           /\ n = 0 => Transfer!Parts(n) = 1
<1> DEFINE q == (n + ChunkSize - 1) \div ChunkSize
<1>1. ChunkSize \in Nat \ {0}
  BY TransferAssumption DEF TransferAssumption
<1>2. q \in Int /\ q * ChunkSize <= n + ChunkSize - 1 /\ n + ChunkSize - 1 < q * ChunkSize + ChunkSize
  BY <1>1
<1>3. CASE n = 0
  BY <1>1, <1>3 DEF Transfer!Parts
<1>4. CASE n # 0
  <2>1. Transfer!Parts(n) = q
    BY <1>4 DEF Transfer!Parts
  <2> HIDE DEF q
  <2>2. n <= q * ChunkSize /\ (q - 1) * ChunkSize < n
    BY <1>1, <1>2
  <2>3. q \in Nat \ {0}
    BY <1>1, <1>2, <1>4, <2>2
  <2>. QED  BY <1>4, <2>1, <2>2, <2>3
<1>. QED  BY <1>3, <1>4

LEMMA EarlierParts ==
    ASSUME NEW n \in Nat, NEW i \in 1 .. Transfer!Parts(n)
    PROVE  /\ i * ChunkSize \in Nat /\ (i - 1) * ChunkSize \in Nat
           /\ i > 1 => (i - 1) * ChunkSize < n
           /\ (i - 1) * ChunkSize <= Transfer!Least(i * ChunkSize, n)
<1> DEFINE p == Transfer!Parts(n)
<1>1. ChunkSize \in Nat \ {0} /\ p \in Nat \ {0} /\ i \in Nat
  BY LastPart, TransferAssumption DEF TransferAssumption
<1>2. i <= p /\ (n > 0 => (p - 1) * ChunkSize < n) /\ (n = 0 => p = 1)
  BY <1>1, LastPart
<1> HIDE DEF p
<1>3. i * ChunkSize \in Nat /\ (i - 1) * ChunkSize \in Nat /\ (p - 1) * ChunkSize \in Nat
  BY <1>1
<1>4. (i - 1) * ChunkSize <= (p - 1) * ChunkSize
  <2>1. (p - i) * ChunkSize >= 0
    BY <1>1, <1>2
  <2>2. (p - i) * ChunkSize = (p - 1) * ChunkSize - (i - 1) * ChunkSize
    BY <1>1
  <2>. QED  BY <1>3, <2>1, <2>2
<1>5. (i - 1) * ChunkSize <= i * ChunkSize
  BY <1>1
<1>6. i > 1 => (i - 1) * ChunkSize < n
  BY <1>1, <1>2, <1>3, <1>4
<1>7. i = 1 => (i - 1) * ChunkSize = 0
  BY <1>1
<1>. QED  BY <1>1, <1>3, <1>5, <1>6, <1>7 DEF Transfer!Least

LEMMA BytesAre ==
    ASSUME NEW f \in Nat, NEW a \in Nat, f <= a + 1
    PROVE  /\ Transfer!Bytes(f, a) \in Seq(Nat) /\ Len(Transfer!Bytes(f, a)) = a - f + 1
           /\ \A i \in 1 .. a - f + 1 : Transfer!Bytes(f, a)[i] = f + i - 1
<1> DEFINE n == a - f + 1
<1>1. n \in Nat
  OBVIOUS
<1>2. Transfer!Bytes(f, a) = [i \in 1 .. n |-> f + i - 1]
  BY DEF Transfer!Bytes
<1>3. \A i \in 1 .. n : f + i - 1 \in Nat
  OBVIOUS
<1> HIDE DEF n
<1>4. [i \in 1 .. n |-> f + i - 1] \in Seq(Nat) /\ Len([i \in 1 .. n |-> f + i - 1]) = n
  BY <1>1, <1>3
<1>. QED  BY <1>2, <1>4 DEF n

LEMMA BytesJoin ==
    ASSUME NEW f \in Nat, NEW a \in Nat, NEW b \in Nat, f <= a + 1, a <= b
    PROVE  Transfer!Bytes(f, a) \o Transfer!Bytes(a + 1, b) = Transfer!Bytes(f, b)
<1> DEFINE x == Transfer!Bytes(f, a)
<1> DEFINE y == Transfer!Bytes(a + 1, b)
<1> DEFINE z == Transfer!Bytes(f, b)
<1>1. x \in Seq(Nat) /\ Len(x) = a - f + 1 /\ \A i \in 1 .. a - f + 1 : x[i] = f + i - 1
  BY BytesAre
<1>2. y \in Seq(Nat) /\ Len(y) = b - a /\ \A i \in 1 .. b - a : y[i] = a + i
  <2>1. a + 1 \in Nat /\ a + 1 <= b + 1 /\ b - (a + 1) + 1 = b - a
    OBVIOUS
  <2>2. y \in Seq(Nat) /\ Len(y) = b - a /\ \A i \in 1 .. b - a : y[i] = (a + 1) + i - 1
    BY <2>1, BytesAre
  <2>. QED  BY <2>2
<1>3. z \in Seq(Nat) /\ Len(z) = b - f + 1 /\ \A i \in 1 .. b - f + 1 : z[i] = f + i - 1
  <2>1. f <= b + 1
    OBVIOUS
  <2>. QED  BY <2>1, BytesAre
<1> HIDE DEF x, y, z
<1>6. x \o y \in Seq(Nat) /\ Len(x \o y) = Len(x) + Len(y)
  BY <1>1, <1>2, ConcatProperties
<1>7. Len(x \o y) = Len(z)
  BY <1>1, <1>2, <1>3, <1>6
<1>4. ASSUME NEW i \in 1 .. Len(z) PROVE (x \o y)[i] = z[i]
  <2>1. (x \o y)[i] = IF i <= Len(x) THEN x[i] ELSE y[i - Len(x)]
    <3>1. i \in 1 .. Len(x) + Len(y)
      BY <1>6, <1>7
    <3>. QED  BY <1>1, <1>2, <3>1, ConcatProperties
  <2>2. CASE i <= Len(x)
    BY <1>1, <1>3, <2>1, <2>2
  <2>3. CASE ~(i <= Len(x))
    <3> DEFINE k == i - (a - f + 1)
    <3>1. k \in 1 .. b - a /\ a + k = f + i - 1
      BY <1>1, <1>3, <2>3
    <3>2. (x \o y)[i] = y[k]
      BY <1>1, <2>1, <2>3
    <3>3. y[k] = a + k
      BY <1>2, <3>1
    <3>4. z[i] = f + i - 1
      BY <1>3
    <3>5. y[k] = z[i]
      BY <3>1, <3>3, <3>4
    <3> HIDE DEF k
    <3>. QED  BY <3>2, <3>5
  <2>. QED  BY <2>2, <2>3
<1>5. x \o y = z
  BY <1>3, <1>6, <1>7, <1>4, SeqEqual
<1>. QED  BY <1>5 DEF x, y, z

(* The parts of a file, one after the other, are the file.                 *)
LEMMA PartsMakeTheFile ==
    ASSUME NEW n \in Nat, NEW parts \in Seq(Seq(Nat)), Len(parts) = Transfer!Parts(n),
           \A i \in 1 .. Len(parts) : parts[i] = PartOf(n, i)
    PROVE  Transfer!FlattenSeq(parts) = Transfer!Bytes(1, n)
<1> DEFINE p == Len(parts)
<1> DEFINE Flat(f) == f = [i \in 1 .. p |-> IF i = 1 THEN parts[i] ELSE f[i - 1] \o parts[i]]
<1> DEFINE g == [i \in 1 .. p |-> Transfer!Bytes(1, Transfer!Least(i * ChunkSize, n))]
<1>1. p \in Nat \ {0} /\ p = Transfer!Parts(n) /\ ChunkSize \in Nat \ {0} /\ n <= p * ChunkSize
  BY LastPart, TransferAssumption DEF TransferAssumption
<1>2. ASSUME NEW i \in 1 .. p
      PROVE  g[i] = IF i = 1 THEN parts[i] ELSE g[i - 1] \o parts[i]
  <2>1. g[i] = Transfer!Bytes(1, Transfer!Least(i * ChunkSize, n)) /\ parts[i] = PartOf(n, i)
    OBVIOUS
  <2>2. CASE i = 1
    <3>1. (i - 1) * ChunkSize + 1 = 1
      BY <1>1, <2>2
    <3>. QED  BY <2>1, <2>2, <3>1 DEF PartOf
  <2>3. CASE i > 1
    <3> DEFINE a == (i - 1) * ChunkSize
    <3> DEFINE b == Transfer!Least(i * ChunkSize, n)
    <3>1. a \in Nat /\ a < n /\ a <= b /\ i * ChunkSize \in Nat
      BY <1>1, <2>3, EarlierParts
    <3>2. b \in Nat
      BY <3>1 DEF Transfer!Least
    <3>3. g[i - 1] = Transfer!Bytes(1, Transfer!Least(a, n))
      BY <1>1, <2>3
    <3>4. Transfer!Least(a, n) = a
      BY <3>1 DEF Transfer!Least
    <3> HIDE DEF a, b
    <3>5. Transfer!Bytes(1, a) \o Transfer!Bytes(a + 1, b) = Transfer!Bytes(1, b)
      <4>1. 1 \in Nat /\ a \in Nat /\ 1 <= a + 1 /\ a <= b
        BY <3>1
      <4>. QED  BY <4>1, <3>2, BytesJoin
    <3>6. g[i] = Transfer!Bytes(1, b) /\ parts[i] = Transfer!Bytes(a + 1, b)
      BY <2>1 DEF PartOf, a, b
    <3>7. g[i - 1] \o parts[i] = g[i]
      BY <3>3, <3>4, <3>5, <3>6
    <3>8. i # 1
      BY <2>3
    <3>. QED  BY <3>7, <3>8
  <2>. QED  BY <1>1, <2>2, <2>3
<1> HIDE DEF g
<1>3. Flat(g)
  <2>1. g = [i \in 1 .. p |-> g[i]]
    BY DEF g
  <2>. QED  BY <1>2, <2>1
<1>4. ASSUME NEW f, Flat(f) PROVE f[p] = g[p]
  <2> DEFINE D == {i \in 1 .. p : f[i] # g[i]}
  <2>1. ASSUME D # {} PROVE FALSE
    <3>1. D \in SUBSET Nat
      BY <1>1
    <3>2. PICK i \in D : \A j \in D : i <= j
      <4> HIDE DEF D
      <4>. QED  BY <2>1, <3>1, LeastExists
    <3>3. i \in 1 .. p /\ f[i] # g[i]
      OBVIOUS
    <3>4. f[i] = IF i = 1 THEN parts[i] ELSE f[i - 1] \o parts[i]
      BY <1>4, <3>3
    <3>5. i # 1 => f[i - 1] = g[i - 1]
      BY <1>1, <3>2, <3>3
    <3>. QED  BY <1>2, <3>3, <3>4, <3>5
  <2>2. p \notin D
    BY <2>1
  <2>. QED  BY <1>1, <2>2
<1>5. Transfer!FlattenSeq(parts) = (CHOOSE f : Flat(f))[p]
  BY <1>1 DEF Transfer!FlattenSeq
<1>6. Flat(CHOOSE f : Flat(f))
  BY <1>3
<1>7. Transfer!FlattenSeq(parts) = g[p]
  <2> HIDE DEF Flat
  <2>. QED  BY <1>4, <1>5, <1>6
<1>8. g[p] = Transfer!Bytes(1, Transfer!Least(p * ChunkSize, n)) /\ Transfer!Least(p * ChunkSize, n) = n
  <2>1. p * ChunkSize \in Nat
    BY <1>1
  <2>. QED  BY <1>1, <2>1 DEF g, Transfer!Least
<1>. QED  BY <1>7, <1>8

-----------------------------------------------------------------------------
LEMMA ChunkIsPositive == ChunkSize \in Nat \ {0}
  BY TransferAssumption DEF TransferAssumption

LEMMA TransferInit == Transfer!Init => TransferInv
<1> SUFFICES ASSUME Transfer!Init PROVE TransferInv
  OBVIOUS
<1>1. pc = "idle" /\ way = "none" /\ size = 0 /\ known = 0 /\ step = 0 /\ there = <<>>
  BY DEF Transfer!Init
<1>2. spoilt = FALSE /\ failed = FALSE
  BY DEF Transfer!Init
<1>3. TransferTyped
  BY <1>1, <1>2 DEF TransferTyped
<1>. QED  BY <1>1, <1>3 DEF TransferInv, TransferPC, Transfer!Uploading

(* A part of a file is a sequence of its bytes.                            *)
LEMMA PartIsBytes ==
    ASSUME NEW n \in Nat, NEW i \in 1 .. Transfer!Parts(n) PROVE PartOf(n, i) \in Seq(Nat)
<1> DEFINE a == (i - 1) * ChunkSize
<1> DEFINE b == Transfer!Least(i * ChunkSize, n)
<1>1. a \in Nat /\ i * ChunkSize \in Nat /\ a <= b
  BY EarlierParts
<1>2. b \in Nat
  BY <1>1 DEF Transfer!Least
<1>3. PartOf(n, i) = Transfer!Bytes(a + 1, b)
  BY DEF PartOf
<1> HIDE DEF a, b
<1>4. a + 1 \in Nat /\ a + 1 <= b + 1
  BY <1>1, <1>2
<1>. QED  BY <1>2, <1>3, <1>4, BytesAre

(* Where a request for a range ends.                                       *)
LEMMA EndIsThere ==
    ASSUME step \in Nat, known \in Nat
    PROVE  /\ Transfer!End \in Int /\ Transfer!End >= -1
           /\ (known > 0 => step < known) => Transfer!End >= step
<1> DEFINE e == step + ChunkSize - 1
<1>1. e \in Nat /\ e >= step
  BY ChunkIsPositive
<1>2. Transfer!End = IF known > 0 THEN Transfer!Least(e, known - 1) ELSE e
  BY DEF Transfer!End
<1> HIDE DEF e
<1>. QED  BY <1>1, <1>2 DEF Transfer!Least

LEMMA BeginUploadInv == ASSUME TransferInv, Transfer!BeginUpload PROVE TransferInv'
<1>1. /\ way' \in {"up", "up_stream"} /\ size' \in Nat /\ known' = size' /\ step' = 1 /\ pc' = "ready"
      /\ there' = [i \in 1 .. Transfer!Parts(size') |-> <<>>] /\ UNCHANGED <<chunk, left, spoilt, failed>>
  BY TransferAssumption DEF TransferAssumption, Transfer!BeginUpload
<1>2. Transfer!Parts(size') \in Nat \ {0}
  BY <1>1, LastPart
<1>3. there' \in Seq(Seq(Nat)) /\ Len(there') = Transfer!Parts(size')
  <2> DEFINE p == Transfer!Parts(size')
  <2>1. there' = [i \in 1 .. p |-> <<>>] /\ p \in Nat /\ <<>> \in Seq(Nat)
    BY <1>1, <1>2
  <2> HIDE DEF p
  <2>2. there' \in Seq(Seq(Nat)) /\ Len(there') = p
    BY <2>1
  <2>. QED  BY <2>2 DEF p
<1>4. PartsArrive'
  BY <1>1, <1>2, <1>3 DEF PartsArrive, Transfer!Parts
<1>5. TransferTyped'
  BY <1>1 DEF TransferInv, TransferTyped
<1>. QED  BY <1>1, <1>4, <1>5 DEF TransferInv, TransferPC

LEMMA BeginDownloadInv == ASSUME TransferInv, Transfer!BeginDownload PROVE TransferInv'
<1>1. /\ way' = "down" /\ size' \in Nat /\ known' \in {0, size'} /\ step' = 0 /\ pc' = "ready"
      /\ there' = <<>> /\ UNCHANGED <<chunk, left, spoilt, failed>>
  BY TransferAssumption DEF TransferAssumption, Transfer!BeginDownload
<1>2. RangesArrive'
  BY <1>1 DEF RangesArrive, Transfer!Bytes, TransferPC
<1>3. TransferTyped'
  BY <1>1 DEF TransferInv, TransferTyped
<1>. QED  BY <1>1, <1>2, <1>3 DEF TransferInv, TransferPC, Transfer!Uploading

LEMMA WrittenInv == ASSUME TransferInv, Transfer!Written PROVE TransferInv'
  BY TransferAssumption DEF TransferAssumption, Transfer!Written, TransferInv, TransferTyped, TransferPC

LEMMA NextPartInv == ASSUME TransferInv, Transfer!NextPart PROVE TransferInv'
<1>1. /\ Transfer!Uploading /\ pc = "ready" /\ UNCHANGED <<way, size, known, step, there, spoilt>>
      /\ IF step > Len(there) THEN pc' = "done" /\ failed' = FALSE
         ELSE pc' = "asked" /\ chunk' = Part(step) /\ failed' = failed
  BY DEF Transfer!NextPart, Transfer!Finish, Part
<1>2. TransferTyped'
  BY <1>1 DEF TransferInv, TransferTyped
<1>3. ASSUME ~spoilt PROVE PartsArrive'
  <2>1. PartsArrive
    BY <1>1, <1>3 DEF TransferInv
  <2>2. step \in Nat /\ Len(there) \in Nat
    BY <1>2, <2>1 DEF TransferInv, TransferTyped, PartsArrive
  <2>. QED  BY <1>1, <2>1, <2>2 DEF PartsArrive, Part, Transfer!Parts
<1>. QED  BY <1>1, <1>2, <1>3 DEF TransferInv, TransferPC, Transfer!Uploading

(* The part being sent may be stored: the ones before it stay.             *)
LEMMA StoredKeeps ==
    ASSUME TransferInv, Transfer!Uploading, pc = "asked", ~spoilt,
           there' \in {there, Transfer!Stored}, UNCHANGED <<way, size, known, chunk, spoilt>>
    PROVE  /\ there' \in Seq(Seq(Nat)) /\ Len(there') = Len(there)
           /\ \A i \in 1 .. step - 1 : there'[i] = Part(i)
           /\ there' = Transfer!Stored => there'[step] = Part(step)
<1>1. PartsArrive /\ step \in 1 .. Len(there) /\ chunk = Part(step) /\ size \in Nat
  BY DEF TransferInv, TransferTyped, PartsArrive
<1>2. chunk \in Seq(Nat)
  BY <1>1, PartIsBytes DEF PartsArrive, Part, PartOf
<1>3. there \in Seq(Seq(Nat)) /\ \A i \in 1 .. step - 1 : there[i] = Part(i)
  BY <1>1 DEF PartsArrive
<1>4. /\ Transfer!Stored \in Seq(Seq(Nat)) /\ Len(Transfer!Stored) = Len(there)
      /\ \A j \in 1 .. Len(there) : Transfer!Stored[j] = IF j = step THEN chunk ELSE there[j]
  BY <1>1, <1>2, <1>3, ExceptSeq DEF Transfer!Stored
<1>5. \A i \in 1 .. step - 1 : Transfer!Stored[i] = Part(i)
  BY <1>1, <1>3, <1>4
<1>. QED  BY <1>1, <1>3, <1>4, <1>5

LEMMA PartAnsweredInv == ASSUME TransferInv, Transfer!PartAnswered PROVE TransferInv'
<1>1. /\ Transfer!Uploading /\ pc = "asked" /\ there' = Transfer!Stored /\ pc' = "ready" /\ step' = step + 1
      /\ UNCHANGED <<way, size, known, chunk, left, spoilt, failed>>
  BY DEF Transfer!PartAnswered
<1>2. TransferTyped'
  BY <1>1 DEF TransferInv, TransferTyped
<1>3. ASSUME ~spoilt PROVE PartsArrive'
  <2>1. PartsArrive /\ step \in 1 .. Len(there)
    BY <1>1, <1>3 DEF TransferInv, PartsArrive
  <2>2. /\ there' \in Seq(Seq(Nat)) /\ Len(there') = Len(there)
        /\ \A i \in 1 .. step : there'[i] = Part(i)
    BY <1>1, <1>3, <2>1, StoredKeeps
  <2>3. Len(there) \in Nat /\ step' \in 1 .. Len(there) + 1 /\ 1 .. step' - 1 = 1 .. step
    BY <1>1, <2>1 DEF PartsArrive
  <2>. QED  BY <1>1, <2>1, <2>2, <2>3 DEF PartsArrive, Part, Transfer!Parts
<1>. QED  BY <1>1, <1>2, <1>3 DEF TransferInv, TransferPC, Transfer!Uploading

LEMMA PartUnansweredInv == ASSUME TransferInv, Transfer!PartUnanswered PROVE TransferInv'
<1>1. /\ Transfer!Uploading /\ pc = "asked" /\ there' \in {there, Transfer!Stored}
      /\ UNCHANGED <<way, size, known, step, chunk, spoilt>>
  BY DEF Transfer!PartUnanswered
<1>0. (pc' = "asked" /\ failed' = failed) \/ (pc' = "done" /\ failed' = TRUE)
  BY DEF Transfer!PartUnanswered, Transfer!Finish
<1>2. TransferTyped'
  BY <1>0, <1>1 DEF TransferInv, TransferTyped
<1>3. ASSUME ~spoilt PROVE PartsArrive'
  <2>1. PartsArrive
    BY <1>1, <1>3 DEF TransferInv
  <2>2. /\ there' \in Seq(Seq(Nat)) /\ Len(there') = Len(there)
        /\ \A i \in 1 .. step - 1 : there'[i] = Part(i)
    BY <1>1, <1>3, StoredKeeps
  <2>. QED  BY <1>0, <1>1, <2>1, <2>2 DEF PartsArrive, Part, Transfer!Parts
<1>. QED  BY <1>0, <1>1, <1>2, <1>3 DEF TransferInv, TransferPC, Transfer!Uploading

LEMMA NextRangeInv == ASSUME TransferInv, Transfer!NextRange PROVE TransferInv'
<1>1. /\ way = "down" /\ pc = "ready" /\ UNCHANGED <<way, size, known, step, there, spoilt>>
      /\ IF known > 0 /\ step > known - 1 THEN pc' = "done" /\ failed' = FALSE
         ELSE pc' = "asked" /\ failed' = failed
  BY DEF Transfer!NextRange, Transfer!Finish
<1>2. TransferTyped' /\ step \in Nat /\ known \in Nat /\ size \in Nat
  BY <1>1 DEF TransferInv, TransferTyped
<1>3. ASSUME ~spoilt PROVE RangesArrive'
  <2>1. known \in {0, size} /\ step <= size /\ there = Transfer!Bytes(1, step)
    BY <1>1, <1>3 DEF TransferInv, RangesArrive, TransferPC
  <2>2. CASE known > 0 /\ step > known - 1
    <3>1. step = size
      BY <1>2, <2>1, <2>2
    <3>. QED  BY <1>1, <2>1, <2>2, <3>1 DEF RangesArrive, TransferPC, Transfer!Bytes
  <2>3. CASE ~(known > 0 /\ step > known - 1)
    <3>1. known > 0 => step < known
      BY <1>2, <2>3
    <3>. QED  BY <1>1, <2>1, <2>3, <3>1 DEF RangesArrive, TransferPC, Transfer!Bytes
  <2>. QED  BY <2>2, <2>3
<1>. QED  BY <1>1, <1>2, <1>3 DEF TransferInv, TransferPC, Transfer!Uploading

LEMMA RangeAnsweredInv == ASSUME TransferInv, Transfer!RangeAnswered PROVE TransferInv'
<1>1. way = "down" /\ pc = "asked" /\ UNCHANGED <<way, size, chunk, left>>
  BY DEF Transfer!RangeAnswered
<1>2. TransferTyped /\ step \in Nat /\ known \in Nat /\ size \in Nat
  BY DEF TransferInv, TransferTyped
<1> DEFINE got(last) == Transfer!Bytes(step + 1, last + 1)
<1> DEFINE over(last) ==
        \/ got(last) = <<>>
        \/ known' > 0 /\ Len(there') >= known'
        \/ Len(got(last)) < Transfer!End - step + 1
<1>3. PICK last \in (step - 1) .. Transfer!Least(Transfer!End, size - 1) :
        /\ known' \in {known, IF known = 0 THEN size ELSE known}
        /\ there' = there \o got(last)
        /\ spoilt' = (spoilt \/ last < Transfer!Least(Transfer!End, size - 1))
        /\ IF over(last) THEN pc' = "done" /\ failed' = FALSE /\ step' = step
           ELSE pc' = "ready" /\ step' = Transfer!End + 1 /\ failed' = failed
  BY DEF Transfer!RangeAnswered, Transfer!Finish, Transfer!NextStart
<1>4. Transfer!End \in Int /\ Transfer!End >= -1
  BY <1>2, EndIsThere
<1>5. TransferTyped'
  <2>1. known' \in Nat /\ step' \in Nat
    BY <1>2, <1>3, <1>4
  <2>2. spoilt' \in BOOLEAN
    BY <1>3, Zenon
  <2>3. failed' \in BOOLEAN
    BY <1>2, <1>3 DEF TransferTyped
  <2>. QED  BY <1>1, <1>2, <2>1, <2>2, <2>3 DEF TransferTyped
<1>6. ASSUME ~spoilt' PROVE RangesArrive'
  <2>1. RangesArrive /\ ~spoilt
    BY <1>1, <1>3, <1>6 DEF TransferInv
  <2>2. /\ known \in {0, size} /\ step <= size /\ there = Transfer!Bytes(1, step)
        /\ (known > 0 => step < known)
    BY <1>1, <2>1 DEF RangesArrive, TransferPC
  <2>3. Transfer!End >= step
    BY <1>2, <2>2, EndIsThere
  <2>4. Transfer!Least(Transfer!End, size - 1) \in Int
        /\ Transfer!Least(Transfer!End, size - 1) \in {Transfer!End, size - 1}
        /\ Transfer!Least(Transfer!End, size - 1) <= Transfer!End
        /\ Transfer!Least(Transfer!End, size - 1) <= size - 1
    BY <1>2, <1>4 DEF Transfer!Least
  <2>5. last = Transfer!Least(Transfer!End, size - 1) /\ last \in Int
    <3>1. ~(last < Transfer!Least(Transfer!End, size - 1))
      BY <1>3, <1>6, Zenon
    <3>2. last \in (step - 1) .. Transfer!Least(Transfer!End, size - 1)
      OBVIOUS
    <3>. QED  BY <1>2, <2>4, <3>1, <3>2
  <2>6. last + 1 \in Nat /\ step <= last + 1 /\ last + 1 <= size /\ last <= Transfer!End
        /\ (last < Transfer!End => last + 1 = size)
    BY <1>2, <1>3, <1>4, <2>2, <2>3, <2>4, <2>5
  <2>7. there' = Transfer!Bytes(1, last + 1)
    <3>1. 1 \in Nat /\ 1 <= step + 1
      BY <1>2
    <3>2. Transfer!Bytes(1, step) \o got(last) = Transfer!Bytes(1, last + 1)
      BY <1>2, <2>6, <3>1, BytesJoin
    <3>. QED  BY <1>3, <2>2, <3>2
  <2>8. Len(there') = last + 1
    <3>1. 1 \in Nat /\ 1 <= (last + 1) + 1
      BY <2>6
    <3>2. Len(Transfer!Bytes(1, last + 1)) = (last + 1) - 1 + 1
      BY <2>6, <3>1, BytesAre
    <3>. QED  BY <2>6, <2>7, <3>2
  <2>9. Len(got(last)) = last + 1 - step
    <3>1. step + 1 \in Nat /\ step + 1 <= (last + 1) + 1
      BY <1>2, <2>6
    <3>2. Len(got(last)) = (last + 1) - (step + 1) + 1
      BY <2>6, <3>1, BytesAre
    <3>. QED  BY <1>2, <2>6, <3>2
  <2>10. known' \in {0, size}
    BY <1>3, <2>2
  <2> HIDE DEF got
  <2>11. CASE over(last)
    <3>1. last + 1 = size
      <4>1. CASE got(last) = <<>>
        <5>1. Len(got(last)) = 0
          BY <4>1
        <5>. QED  BY <1>2, <1>4, <2>3, <2>5, <2>6, <2>9, <5>1
      <4>2. CASE known' > 0 /\ Len(there') >= known'
        BY <1>2, <2>6, <2>8, <2>10, <4>2
      <4>3. CASE Len(got(last)) < Transfer!End - step + 1
        BY <1>2, <1>4, <2>5, <2>6, <2>9, <4>3
      <4>. QED  BY <2>11, <4>1, <4>2, <4>3
    <3>2. pc' = "done" /\ size' = size
      BY <1>1, <1>3, <2>11
    <3>. QED  BY <2>7, <2>10, <3>1, <3>2 DEF RangesArrive, TransferPC, Transfer!Bytes
  <2>12. CASE ~over(last)
    <3>1. last = Transfer!End
      BY <1>2, <1>4, <2>5, <2>6, <2>9, <2>12
    <3>2. pc' = "ready" /\ step' = last + 1 /\ size' = size
      BY <1>1, <1>3, <2>12, <3>1
    <3>. QED  BY <2>6, <2>7, <2>10, <3>2 DEF RangesArrive, TransferPC, Transfer!Bytes
  <2> HIDE DEF over
  <2>. QED  BY <2>11, <2>12
<1>7. pc' \in {"ready", "done"}
  BY <1>3
<1>. QED  BY <1>1, <1>5, <1>6, <1>7 DEF TransferInv, TransferPC, Transfer!Uploading

LEMMA RangeUnansweredInv == ASSUME TransferInv, Transfer!RangeUnanswered PROVE TransferInv'
<1>1. way = "down" /\ pc = "asked" /\ UNCHANGED <<way, size, known, step, there, spoilt>>
  BY DEF Transfer!RangeUnanswered
<1>0. (pc' = "asked" /\ failed' = failed) \/ (pc' = "done" /\ failed' = TRUE)
  BY <1>1 DEF Transfer!RangeUnanswered, Transfer!Finish
<1>2. TransferTyped'
  BY <1>0, <1>1 DEF TransferInv, TransferTyped
<1>3. ~spoilt => RangesArrive'
  BY <1>0, <1>1 DEF TransferInv, RangesArrive, TransferPC, Transfer!Bytes
<1>. QED  BY <1>0, <1>1, <1>2, <1>3 DEF TransferInv, TransferPC, Transfer!Uploading

LEMMA AbortInv == ASSUME TransferInv, Transfer!Abort PROVE TransferInv'
<1>1. /\ pc \in TransferPC /\ pc' = "done" /\ failed' = TRUE
      /\ UNCHANGED <<way, size, known, step, chunk, left, there, spoilt>>
  BY DEF Transfer!Abort, Transfer!Finish, TransferPC
<1>2. TransferTyped'
  BY <1>1 DEF TransferInv, TransferTyped
<1>3. way # "none"
  BY <1>1 DEF TransferInv
<1>4. Transfer!Uploading /\ ~spoilt => PartsArrive'
  BY <1>1 DEF TransferInv, PartsArrive, Part, Transfer!Parts
<1>5. way = "down" /\ ~spoilt => RangesArrive'
  BY <1>1 DEF TransferInv, RangesArrive, TransferPC, Transfer!Bytes
<1>. QED  BY <1>1, <1>2, <1>3, <1>4, <1>5 DEF TransferInv, TransferPC, Transfer!Uploading

LEMMA TransferStep == ASSUME TransferInv, Transfer!Next PROVE TransferInv'
  BY BeginUploadInv, BeginDownloadInv, WrittenInv, NextPartInv, PartAnsweredInv, PartUnansweredInv,
     NextRangeInv, RangeAnsweredInv, RangeUnansweredInv, AbortInv DEF Transfer!Next

LEMMA TransferWhole == TransferInv => Transfer!TransferIsWhole
<1> SUFFICES ASSUME TransferInv, pc = "done", ~failed, ~spoilt
             PROVE  (IF Transfer!Uploading THEN Transfer!FlattenSeq(there) ELSE there) = Transfer!Bytes(1, size)
  BY DEF Transfer!TransferIsWhole
<1>1. size \in Nat /\ way \in {"none", "up", "up_stream", "down"}
  BY DEF TransferInv, TransferTyped
<1>2. CASE Transfer!Uploading
  <2>1. PartsArrive /\ step > Len(there) /\ Len(there) \in Nat /\ step \in Int
    BY <1>2 DEF TransferInv, PartsArrive
  <2>2. \A i \in 1 .. Len(there) : there[i] = PartOf(size, i)
    BY <2>1 DEF PartsArrive, Part, PartOf
  <2>. QED  BY <1>1, <1>2, <2>1, <2>2, PartsMakeTheFile DEF PartsArrive
<1>3. CASE way = "down"
  BY <1>3 DEF TransferInv, RangesArrive, Transfer!Uploading
<1>4. CASE way = "none"
  BY <1>4 DEF TransferInv, Transfer!Uploading, Transfer!Bytes
<1>. QED  BY <1>1, <1>2, <1>3, <1>4 DEF Transfer!Uploading

-----------------------------------------------------------------------------
(* One call is under way: where its steps lead, and that the others, which *)
(* have not begun, stay as they are.                                       *)

ActionsFree == pc \notin ActionsPC \cup {"done"}
TransferFree == pc \notin TransferPC \cup {"done"}
WalkFree == pc \notin WalkPC \cup {"done", "broken"}
DcFree == pc \notin DcPC

LEMMA ActionsMoves ==
    ASSUME ActionsInv, Actions!Next
    PROVE  pc \in ActionsPC \cup {"idle"} /\ pc' \in ActionsPC \cup {"done"}
<1>1. CASE Actions!Begin
  BY <1>1 DEF Actions!Begin, Actions!Goto, ActionsPC, Actions!Steps
<1>2. CASE Actions!Started \/ Actions!Paged \/ Actions!Acted \/ Actions!Counted
  BY <1>2 DEF Actions!Started, Actions!Paged, Actions!Acted, Actions!Counted,
              Actions!EndsWith, Actions!Goto, ActionsPC, Actions!Steps
<1>3. CASE Actions!Resolved
  <2>1. pc = "resolve"
    BY <1>3 DEF Actions!Resolved
  <2>2. ActionsInv' /\ order' = order /\ order # Actions!NoOrder
    BY <1>3, <2>1, ResolvedInv DEF Actions!Resolved, ActionsInv, ActionsPC, Actions!Steps
  <2>. QED  BY <2>1, <2>2 DEF ActionsInv, ActionsPC, Actions!Steps
<1>4. CASE \E detail \in Actions!Details : Actions!Refused(detail)
  <2>1. PICK detail \in Actions!Details : Actions!Refused(detail)
    BY <1>4
  <2>. QED  BY <2>1 DEF Actions!Refused, Actions!EndsWith, Actions!Goto, ActionsPC
<1>5. CASE Actions!Unanswered
  BY <1>5 DEF Actions!Unanswered, Actions!EndsWith, Actions!Goto, ActionsPC
<1>6. CASE Actions!Stopped \/ Actions!Overdue
  BY <1>6 DEF Actions!Stopped, Actions!Overdue, ActionsPC
<1>. QED  BY <1>1, <1>2, <1>3, <1>4, <1>5, <1>6 DEF Actions!Next

LEMMA TransferMoves ==
    ASSUME Transfer!Next
    PROVE  pc \in TransferPC \cup {"idle"} /\ pc' \in TransferPC \cup {"done"}
<1>1. CASE Transfer!BeginUpload \/ Transfer!BeginDownload \/ Transfer!Written \/ Transfer!Abort
  BY <1>1 DEF Transfer!BeginUpload, Transfer!BeginDownload, Transfer!Written, Transfer!Abort,
              Transfer!Finish, TransferPC
<1>2. CASE Transfer!NextPart \/ Transfer!PartAnswered \/ Transfer!PartUnanswered
  BY <1>2 DEF Transfer!NextPart, Transfer!PartAnswered, Transfer!PartUnanswered, Transfer!Finish, TransferPC
<1>3. CASE Transfer!NextRange \/ Transfer!RangeAnswered \/ Transfer!RangeUnanswered
  BY <1>3 DEF Transfer!NextRange, Transfer!RangeAnswered, Transfer!RangeUnanswered, Transfer!Finish, TransferPC
<1>. QED  BY <1>1, <1>2, <1>3 DEF Transfer!Next

LEMMA WalkMoves ==
    ASSUME Walk!Next
    PROVE  pc \in WalkPC \cup {"idle"} /\ pc' \in WalkPC \cup {"done", "broken"}
  BY DEF Walk!Next, Walk!Begin, Walk!New, Walk!Gone, Walk!Moved, Walk!Ask, Walk!Yield, Walk!Turn,
         Walk!Break, Walk!Walking, WalkPC

LEMMA CallbacksMove ==
    ASSUME Callbacks!Next PROVE pc \in {"callbacks", "idle"} /\ pc' = "callbacks"
  BY DEF Callbacks!Next, Callbacks!Under, Callbacks!Begin, Callbacks!Moves, Callbacks!Delivery,
         Callbacks!Send, Callbacks!Arrives, Callbacks!Answered, Callbacks!Fails, Callbacks!Dies

LEMMA DcMoves ==
    ASSUME DcInv, DcConfig!Next PROVE pc \in DcPC \cup {"idle"} /\ pc' \in DcPC
  BY DEF DcInv, DcConfig!Next, DcConfig!Start, DcConfig!OpenWith, DcConfig!AfterLogin, DcConfig!EnsureSocket,
         DcConfig!Stop, DcConfig!RefreshApiUrls, DcConfig!GetBaseInfo, DcConfig!RubinoCall,
         DcConfig!EnsureBaseInfo, DcConfig!Open, DcPC

LEMMA ActionsStay ==
    ASSUME ActionsInv, ActionsFree, UNCHANGED actionVars, pc' \notin ActionsPC PROVE ActionsInv'
  BY DEF ActionsInv, ActionsTyped, ActionsFree, actionVars, ActionsPC, Actions!Steps

LEMMA TransferStays ==
    ASSUME TransferInv, TransferFree, UNCHANGED transferVars, pc' \notin TransferPC PROVE TransferInv'
  BY DEF TransferInv, TransferTyped, TransferFree, transferVars, Transfer!Uploading

LEMMA WalkStays ==
    ASSUME WalkInv, WalkFree, UNCHANGED walkVars, pc' \notin WalkPC PROVE WalkInv'
<1>1. kind = "none" /\ constant = {}
  BY DEF WalkInv, WalkFree
<1>2. UNCHANGED <<kind, limit, list, next, below, page, more, yielded, constant>>
  BY DEF walkVars
<1>3. WalkTyped' /\ Descends'
  BY <1>2 DEF WalkInv, WalkTyped, Descends, Places, Walk!Everything
<1>4. Complete'
  BY <1>1, <1>2 DEF Complete, Missing
<1>. QED  BY <1>1, <1>2, <1>3, <1>4 DEF WalkInv, WalkPC

LEMMA DcStays ==
    ASSUME DcInv, DcFree, UNCHANGED dcVars, pc' \notin DcPC PROVE DcInv'
  BY DEF DcInv, Repository, DcFree, dcVars, DcPC, DcConfig!Open, DcConfig!Urls

-----------------------------------------------------------------------------
Inv == ActionsInv /\ TransferInv /\ WalkInv /\ DcInv

LEMMA InitInv == Init => Inv
  BY ActionsInit, TransferInit, WalkInit, DcInit DEF Init, Inv

LEMMA NextInv == ASSUME Inv, Next PROVE Inv'
<1> USE DEF Inv
<1>1. CASE Actions!Next /\ UNCHANGED <<transferVars, walkVars, callbackVars, dcVars>>
  <2>1. TransferFree /\ WalkFree /\ DcFree /\ pc' \notin TransferPC \cup WalkPC \cup DcPC
    BY <1>1, ActionsMoves DEF TransferFree, WalkFree, DcFree, ActionsPC, Actions!Steps, TransferPC, WalkPC, DcPC
  <2>. QED  BY <1>1, <2>1, ActionsStep, TransferStays, WalkStays, DcStays
<1>2. CASE Transfer!Next /\ UNCHANGED <<actionVars, walkVars, callbackVars, dcVars>>
  <2>1. ActionsFree /\ WalkFree /\ DcFree /\ pc' \notin ActionsPC \cup WalkPC \cup DcPC
    BY <1>2, TransferMoves DEF ActionsFree, WalkFree, DcFree, ActionsPC, Actions!Steps, TransferPC, WalkPC, DcPC
  <2>. QED  BY <1>2, <2>1, TransferStep, ActionsStay, WalkStays, DcStays
<1>3. CASE Walk!Next /\ UNCHANGED <<actionVars, transferVars, callbackVars, dcVars>>
  <2>1. ActionsFree /\ TransferFree /\ DcFree /\ pc' \notin ActionsPC \cup TransferPC \cup DcPC
    BY <1>3, WalkMoves DEF ActionsFree, TransferFree, DcFree, ActionsPC, Actions!Steps, TransferPC, WalkPC, DcPC
  <2>. QED  BY <1>3, <2>1, WalkStep, ActionsStay, TransferStays, DcStays
<1>4. CASE Callbacks!Next /\ UNCHANGED <<actionVars, transferVars, walkVars, dcVars>>
  <2>1. ActionsFree /\ TransferFree /\ WalkFree /\ DcFree
        /\ pc' \notin ActionsPC \cup TransferPC \cup WalkPC \cup DcPC
    BY <1>4, CallbacksMove
       DEF ActionsFree, TransferFree, WalkFree, DcFree, ActionsPC, Actions!Steps, TransferPC, WalkPC, DcPC
  <2>. QED  BY <1>4, <2>1, ActionsStay, TransferStays, WalkStays, DcStays
<1>5. CASE DcConfig!Next /\ UNCHANGED <<actionVars, transferVars, walkVars, callbackVars>>
  <2>1. ActionsFree /\ TransferFree /\ WalkFree /\ pc' \notin ActionsPC \cup TransferPC \cup WalkPC
    BY <1>5, DcMoves DEF ActionsFree, TransferFree, WalkFree, ActionsPC, Actions!Steps, TransferPC, WalkPC, DcPC
  <2>. QED  BY <1>5, <2>1, DcStep, ActionsStay, TransferStays, WalkStays
<1>. QED  BY <1>1, <1>2, <1>3, <1>4, <1>5 DEF Next

LEMMA StutterInv == ASSUME Inv, UNCHANGED vars PROVE Inv'
<1>1. UNCHANGED <<pc, actionVars, transferVars, walkVars, dcVars>>
  BY DEF vars
<1>2. ActionsInv'
  BY <1>1 DEF Inv, ActionsInv, ActionsTyped, actionVars, MayTell, Reached, Actions!Wanted
<1>3. TransferInv'
  BY <1>1 DEF Inv, TransferInv, TransferTyped, transferVars, Transfer!Uploading, PartsArrive, RangesArrive,
              Part, Transfer!Parts, Transfer!Bytes, Transfer!Least
<1>4. WalkInv'
  BY <1>1 DEF Inv, WalkInv, WalkTyped, walkVars, Descends, Places, Walk!Everything, Resumes, Continues,
              Complete, After, Missing, Walk!ToSet, Walk!Last
<1>5. DcInv'
  BY <1>1 DEF Inv, DcInv, Repository, dcVars, DcConfig!Open, DcConfig!Urls
<1>. QED  BY <1>2, <1>3, <1>4, <1>5 DEF Inv

LEMMA AlwaysInv == Spec => []Inv
<1>1. Inv /\ [Next]_vars => Inv'
  BY NextInv, StutterInv
<1>. QED  BY InitInv, <1>1, PTL DEF Spec

(* A transfer that reports success moved every byte once and in order, for *)
(* every size of a file and of a chunk and every number of attempts:       *)
(* upload_file and download_file.                                          *)
THEOREM TransfersAreWhole == Spec => []TransferIsWhole
<1>1. Inv => TransferIsWhole
  BY TransferWhole DEF Inv, TransferIsWhole
<1>. QED  BY AlwaysInv, <1>1, PTL

(* A walk through a chat, or the chats, gives every entry at most once and *)
(* all those that stay, for every size of a page, limit and number of      *)
(* changes: iter_messages and iter_chats.                                  *)
THEOREM WalksAreComplete == Spec => []WalkIsComplete
<1>1. Inv => WalkIsComplete
  BY WalkCompletes DEF Inv, WalkIsComplete
<1>. QED  BY AlwaysInv, <1>1, PTL

(* No pool that a request is sent through holds URLs that a later          *)
(* configuration replaced, whatever getDCs and getBaseInfo answer:         *)
(* DcRepository.                                                           *)
THEOREM NobodyIsLeftBehind == Spec => []PoolsFollow
<1>1. Inv => PoolsFollow
  BY DcPoolsFollow DEF Inv, PoolsFollow
<1>. QED  BY AlwaysInv, <1>1, PTL

(* An action of the membership worker asks Rubika for one thing and tells  *)
(* its outcome once, truly: whatever is refused, lost or late, a call of   *)
(* actions.py is a RubikaCall.                                             *)
THEOREM CallIsImplemented == Spec => ImplementsCall
<1>1. Init => Actions!Call!Init
  BY InitRefines DEF Init
<1>2. ASSUME Inv, Next PROVE [Actions!Call!Next]_(Actions!Call!vars)
  <2>1. CASE Actions!Next
    BY <1>2, <2>1, ActionsRefine DEF Inv
  <2>2. CASE UNCHANGED actionVars
    BY <2>2, HiddenRefines DEF actionVars
  <2>. QED  BY <1>2, <2>1, <2>2 DEF Next
<1>3. ASSUME UNCHANGED vars PROVE UNCHANGED Actions!Call!vars
  BY <1>3, HiddenRefines DEF vars, actionVars
<1>4. Inv /\ [Next]_vars => [Actions!Call!Next]_(Actions!Call!vars)
  BY <1>2, <1>3
<1>. QED  BY AlwaysInv, <1>1, <1>4, PTL DEF Spec, ImplementsCall, Actions!ImplementsCall, Actions!Call!Spec
=============================================================================
