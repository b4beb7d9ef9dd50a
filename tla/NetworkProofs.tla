---------------------------- MODULE NetworkProofs ----------------------------
(***************************************************************************)
(* The two transports of rubigram/network: what HttpTransport promises of  *)
(* a request that nobody interferes with, for any requests, lists, retries *)
(* and outages, and what SocketTransport promises after close(), for any   *)
(* callers, losses, failures and cancellations.                            *)
(***************************************************************************)
EXTENDS HttpTransport, UpdateSocket, FiniteSetTheorems, TLAPS

(* The least of a set of numbers, hence induction: no theorem of the       *)
(* libraries that can be instantiated here says it.                        *)
LEMMA LeastExists == ASSUME NEW S \in SUBSET Nat, S # {} PROVE \E n \in S : \A m \in S : n <= m
<1> DEFINE Upto(n) == 1 .. n
<1> DEFINE T == {Upto(n) : n \in S}
<1>1. T # {}
  OBVIOUS
<1>2. ASSUME NEW n \in S PROVE Upto(n) \in FiniteSubsetsOf(Nat)
  <2>1. IsFiniteSet(Upto(n)) /\ Upto(n) \subseteq Nat
    BY FS_Interval
  <2>. QED  BY <2>1 DEF FiniteSubsetsOf
<1>3. T \subseteq FiniteSubsetsOf(Nat)
  BY <1>2
<1>4. PICK x \in T : \A y \in T : <<y, x>> \notin StrictSubsetOrdering(Nat)
  <2> HIDE DEF T
  <2>. QED BY <1>1, <1>3, FS_StrictSubsetOrderingWellFounded, WFMin
<1>5. PICK n \in S : x = Upto(n)
  OBVIOUS
<1>6. ASSUME NEW m \in S, m < n PROVE FALSE
  <2>1. Upto(m) \in T /\ Upto(m) \subseteq Upto(n) /\ n \in Upto(n) /\ n \notin Upto(m) /\ Upto(n) \subseteq Nat
    BY <1>6
  <2>2. <<Upto(m), x>> \in StrictSubsetOrdering(Nat)
    BY <2>1, <1>5 DEF StrictSubsetOrdering
  <2>. QED  BY <2>1, <2>2, <1>4
<1>. QED  BY <1>6

-----------------------------------------------------------------------------
(* The lists of a pool.                                                    *)

Distinct(list) == \A i, j \in 1 .. Len(list) : list[i] = list[j] => i = j

(* Deduped goes through the list as a loop does: every pass adds a URL or  *)
(* finds that it is there.                                                 *)
LEMMA DedupedIsDistinct ==
    ASSUME NEW X, NEW s \in Seq(X), s # <<>>
    PROVE  Deduped(s) \in Seq(X) /\ Deduped(s) # <<>> /\ Distinct(Deduped(s))
<1> DEFINE Pass(t, i) == IF s[i] \in Listed(t) THEN t ELSE Append(t, s[i])
<1> DEFINE Loop(f, n) == f = [i \in 0 .. n |-> IF i = 0 THEN <<>> ELSE Pass(f[i - 1], i)]
<1> DEFINE Good(t, i) == t \in Seq(X) /\ Distinct(t) /\ (i > 0 => t # <<>>)
<1>1. Len(s) \in Nat \ {0}
  OBVIOUS
<1>2. \A n \in 0 .. Len(s) : \E f : Loop(f, n)
  <2> DEFINE Bad == {n \in 0 .. Len(s) : ~\E f : Loop(f, n)}
  <2>1. ASSUME Bad # {} PROVE FALSE
    <3>1. PICK n \in Bad : \A m \in Bad : n <= m
      <4>1. Bad \in SUBSET Nat
        BY <1>1
      <4> HIDE DEF Bad
      <4>. QED  BY <2>1, <4>1, LeastExists
    <3>2. n \in 0 .. Len(s) /\ ~\E f : Loop(f, n)
      OBVIOUS
    <3>3. CASE n = 0
      <4> DEFINE f == [i \in 0 .. 0 |-> <<>>]
      <4>1. f = [i \in 0 .. n |-> IF i = 0 THEN <<>> ELSE Pass(f[i - 1], i)]
        <5>1. \A i \in 0 .. n : i = 0
          BY <3>3
        <5>. QED  BY <5>1, <3>3
      <4>. QED  BY <3>2, <4>1
    <3>4. CASE n # 0
      <4>1. n - 1 \in 0 .. Len(s) /\ ~(n <= n - 1)
        BY <1>1, <3>2, <3>4
      <4>2. PICK g : Loop(g, n - 1)
        BY <3>1, <4>1
      <4> DEFINE f == [i \in 0 .. n |-> IF i < n THEN g[i] ELSE Pass(g[n - 1], n)]
      <4>3. ASSUME NEW i \in 0 .. n PROVE f[i] = IF i = 0 THEN <<>> ELSE Pass(f[i - 1], i)
        <5>1. CASE i < n
          <6>1. i \in 0 .. n - 1 /\ f[i] = g[i]
            BY <5>1, <3>2
          <6>2. g[i] = IF i = 0 THEN <<>> ELSE Pass(g[i - 1], i)
            BY <4>2, <6>1
          <6>3. i # 0 => f[i - 1] = g[i - 1]
            BY <3>2, <5>1
          <6>. QED  BY <6>1, <6>2, <6>3
        <5>2. CASE ~(i < n)
          <6>1. i = n /\ f[i] = Pass(g[n - 1], n) /\ f[n - 1] = g[n - 1] /\ i # 0
            BY <5>2, <3>2, <3>4
          <6>. QED  BY <6>1
        <5>. QED  BY <5>1, <5>2
      <4>4. f = [i \in 0 .. n |-> f[i]]
        OBVIOUS
      <4> HIDE DEF f
      <4>5. Loop(f, n)
        BY <4>3, <4>4
      <4>. QED  BY <3>2, <4>5
    <3>. QED  BY <3>3, <3>4
  <2>. QED  BY <2>1
<1>3. ASSUME NEW t, NEW i \in 1 .. Len(s), Good(t, i - 1) PROVE Good(Pass(t, i), i)
  <2>1. t \in Seq(X) /\ Distinct(t) /\ s[i] \in X /\ Len(t) \in Nat
    BY <1>3
  <2>2. CASE s[i] \in Listed(t)
    <3>1. t # <<>>
      BY <2>2 DEF Listed
    <3>. QED  BY <2>1, <2>2, <3>1
  <2>3. CASE s[i] \notin Listed(t)
    <3> DEFINE a == Append(t, s[i])
    <3>1. Pass(t, i) = a
      BY <2>3
    <3>2. a \in Seq(X) /\ Len(a) = Len(t) + 1 /\ a[Len(t) + 1] = s[i] /\ \A j \in 1 .. Len(t) : a[j] = t[j]
      BY <2>1
    <3>3. \A j \in 1 .. Len(t) : t[j] # s[i]
      BY <2>1, <2>3 DEF Listed
    <3>4. a # <<>>
      BY <2>1, <3>2
    <3> HIDE DEF a
    <3>5. Distinct(a)
      <4>1. SUFFICES ASSUME NEW j \in 1 .. Len(a), NEW k \in 1 .. Len(a), a[j] = a[k] PROVE j = k
        BY DEF Distinct
      <4>2. (j \in 1 .. Len(t) \/ j = Len(t) + 1) /\ (k \in 1 .. Len(t) \/ k = Len(t) + 1)
        BY <2>1, <3>2
      <4>. QED  BY <2>1, <3>2, <3>3, <4>1, <4>2 DEF Distinct
    <3>. QED  BY <3>1, <3>2, <3>4, <3>5
  <2>. QED  BY <2>2, <2>3
<1>4. ASSUME NEW f, Loop(f, Len(s)) PROVE Good(f[Len(s)], Len(s))
  <2> DEFINE Bad == {n \in 0 .. Len(s) : ~Good(f[n], n)}
  <2>1. ASSUME Bad # {} PROVE FALSE
    <3>1. PICK n \in Bad : \A m \in Bad : n <= m
      <4>1. Bad \in SUBSET Nat
        BY <1>1
      <4> HIDE DEF Bad
      <4>. QED  BY <2>1, <4>1, LeastExists
    <3>2. n \in 0 .. Len(s) /\ ~Good(f[n], n)
      OBVIOUS
    <3>3. f[n] = IF n = 0 THEN <<>> ELSE Pass(f[n - 1], n)
      BY <1>4, <3>2
    <3>4. CASE n = 0
      <4>1. f[n] = <<>>
        BY <3>3, <3>4
      <4>2. Good(<<>>, 0)
        BY DEF Distinct
      <4>. QED  BY <3>2, <3>4, <4>1, <4>2
    <3>5. CASE n # 0
      <4>1. n \in 1 .. Len(s) /\ n - 1 \in 0 .. Len(s) /\ ~(n <= n - 1)
        BY <1>1, <3>2, <3>5
      <4>2. n - 1 \notin Bad
        BY <3>1, <4>1
      <4>3. Good(f[n - 1], n - 1)
        BY <4>1, <4>2
      <4> HIDE DEF Good, Pass, Bad
      <4>4. Good(Pass(f[n - 1], n), n)
        BY <1>3, <4>1, <4>3
      <4>. QED  BY <3>2, <3>3, <3>5, <4>4
    <3>. QED  BY <3>4, <3>5
  <2>2. Len(s) \notin Bad /\ Len(s) \in 0 .. Len(s)
    BY <1>1, <2>1
  <2>. QED  BY <2>2
<1>5. PICK f : Loop(f, Len(s)) /\ Deduped(s) = f[Len(s)]
  <2>1. Len(s) \in 0 .. Len(s)
    BY <1>1
  <2>2. \E f : Loop(f, Len(s))
    BY <1>2, <2>1
  <2>3. Loop(CHOOSE f : Loop(f, Len(s)), Len(s))
    BY <2>2
  <2>4. Deduped(s) = (CHOOSE f : Loop(f, Len(s)))[Len(s)]
    BY DEF Deduped
  <2> HIDE DEF Loop
  <2>. QED  BY <2>3, <2>4
<1>6. Good(Deduped(s), Len(s))
  <2> HIDE DEF Loop, Good
  <2>. QED  BY <1>4, <1>5
<1>. QED  BY <1>1, <1>6

(* No URL twice, and one of them current.                                  *)
IsPool(p) == p.urls \in Seq(Url) /\ p.current \in 1 .. Len(p.urls) /\ Distinct(p.urls)

LEMMA CurrentIsListed == ASSUME NEW p, IsPool(p) PROVE Current(p) \in Url /\ Current(p) \in Urls(p)
  BY DEF IsPool, Current, Urls, Listed

LEMMA ListCounts == ASSUME NEW p, IsPool(p) PROVE Cardinality(Urls(p)) = Len(p.urls)
<1>1. Len(p.urls) \in Nat /\ DOMAIN p.urls = 1 .. Len(p.urls)
  BY DEF IsPool
<1>2. p.urls \in Bijection(1 .. Len(p.urls), Urls(p))
  BY <1>1 DEF IsPool, Distinct, Urls, Listed, Bijection, Injection, Surjection, IsInjective
<1>. QED  BY <1>1, <1>2, FS_CountingElements DEF ExistsBijection

LEMMA RotateIsPool ==
    ASSUME NEW p, IsPool(p)
    PROVE  /\ IsPool(ForceRotate(p)) /\ ForceRotate(p).urls = p.urls
           /\ ForceRotate(p).current = IF p.current < Len(p.urls) THEN p.current + 1 ELSE 1
<1>1. Len(p.urls) \in Nat /\ p.current \in 1 .. Len(p.urls)
  BY DEF IsPool
<1>2. (p.current % Len(p.urls)) + 1 = IF p.current < Len(p.urls) THEN p.current + 1 ELSE 1
  BY <1>1
<1>. QED  BY <1>1, <1>2 DEF IsPool, ForceRotate

LEMMA ListsAreLists == ASSUME NEW list \in Answers \cup {Configured} PROVE list \in Seq(Url) /\ list # <<>>
  BY ListAssumption

LEMMA FreshIsPool ==
    ASSUME NEW list \in Answers \cup {Configured} PROVE IsPool([urls |-> Deduped(list), current |-> 1])
<1>1. Deduped(list) \in Seq(Url) /\ Deduped(list) # <<>> /\ Distinct(Deduped(list))
  BY ListsAreLists, DedupedIsDistinct
<1>. QED  BY <1>1 DEF IsPool

LEMMA ReplaceIsPool ==
    ASSUME NEW p, IsPool(p), NEW list \in Answers PROVE IsPool(Replace(p, list))
<1> DEFINE d == Deduped(list)
<1> DEFINE kept == {i \in DOMAIN d : d[i] = Current(p)}
<1>1. d \in Seq(Url) /\ d # <<>> /\ Distinct(d)
  BY ListsAreLists, DedupedIsDistinct
<1>2. Replace(p, list) = [urls |-> d, current |-> IF kept = {} THEN 1 ELSE CHOOSE i \in kept : TRUE]
  BY <1>1 DEF Replace
<1>3. kept # {} => (CHOOSE i \in kept : TRUE) \in kept
  OBVIOUS
<1>4. kept \subseteq 1 .. Len(d) /\ 1 \in 1 .. Len(d)
  BY <1>1
<1> HIDE DEF kept, d
<1>5. (IF kept = {} THEN 1 ELSE CHOOSE i \in kept : TRUE) \in 1 .. Len(d)
  BY <1>3, <1>4
<1>6. Replace(p, list).urls = d /\ Replace(p, list).current \in 1 .. Len(d)
  BY <1>2, <1>5
<1>. QED  BY <1>1, <1>6 DEF IsPool

LEMMA SetCurrentIsPool == ASSUME NEW p, IsPool(p), NEW url PROVE IsPool(SetCurrent(p, url))
<1>1. DOMAIN p.urls = 1 .. Len(p.urls)
  BY DEF IsPool
<1>2. url \in Listed(p.urls) => (CHOOSE i \in DOMAIN p.urls : p.urls[i] = url) \in DOMAIN p.urls
  BY DEF Listed
<1>. QED  BY <1>1, <1>2 DEF IsPool, SetCurrent

-----------------------------------------------------------------------------
(* The invariant.                                                          *)

Tries(r) == RetriesOf(Retries[r])

(* The URLs the pool has passed in as many turns as the request has failed.  *)
Passed(r) ==
    LET first == pool.current - index[r]
    IN  \A i \in 1 .. Len(pool.urls) :
            (first <= i /\ i < pool.current) \/ i >= first + Len(pool.urls) => pool.urls[i] \in tried[r]

(* What was tried failed, but for the attempt under way.                   *)
Failed(r) == \A u \in tried[r] \cap Reliable : pc[r] = "posting" /\ u = at[r]

RequestInv(r) ==
    /\ pc[r] = "idle" => tried[r] = {} /\ index[r] = 0 /\ ~refreshed[r]
    /\ pc[r] = "posting" => at[r] \in tried[r]
    /\ pc[r] = "refreshing" => r \notin Pinned /\ refreshed[r] /\ index[r] < Tries(r)
    /\ Failed(r)

(* A request that nobody interferes with goes round the pool. *)
ClimbsAlone(r) ==
    /\ pc[r] = "posting" => at[r] = Current(pool)
    /\ ~refreshed[r] => offered[r] = Urls(pool) /\ index[r] < Len(pool.urls) /\ Passed(r)
    /\ pc[r] = "refreshing" => Urls(pool) \subseteq tried[r]
    /\ refreshed[r] => offered[r] \cap Reliable = {}

Found(r) ==
    pc[r] = "failed" /\ alone[r] /\ Cardinality(offered[r]) <= Tries(r) + 1 => offered[r] \cap Reliable = {}

Kept(r) == RequestInv(r) /\ (r \notin Pinned => (Active(r) /\ alone[r] => ClimbsAlone(r)) /\ Found(r))

(* The histories and registers of the requests.                            *)
RequestsTyped ==
    /\ pc \in [Request -> PC] /\ at \in [Request -> Url \cup {none}]
    /\ DOMAIN index = Request /\ \A r \in Request : index[r] \in 0 .. Tries(r)
    /\ refreshed \in [Request -> BOOLEAN] /\ alone \in [Request -> BOOLEAN]
    /\ tried \in [Request -> SUBSET Url] /\ offered \in [Request -> SUBSET Url]

Configuration ==
    /\ IsPool(pool) /\ listed \in Answers \cup {Configured} /\ apiUrl \in Url \cup {none}
    /\ up \in SUBSET Url /\ Reliable \subseteq up /\ flaps \in 0 .. MaxFlaps

HttpInv == Configuration /\ RequestsTyped /\ \A r \in Request : Kept(r)

-----------------------------------------------------------------------------
(* Requests.                                                               *)

LEMMA RetriesAreNumbers == ASSUME NEW r \in Request PROVE Tries(r) \in Nat
  BY RequestAssumption DEF Tries, RetriesOf, Delays

(* Nothing of s changes but that somebody may turn the pool.               *)
Untouched(s) ==
    /\ pc'[s] = pc[s] /\ at'[s] = at[s] /\ index'[s] = index[s] /\ refreshed'[s] = refreshed[s]
    /\ tried'[s] = tried[s] /\ offered'[s] = offered[s]
    /\ alone'[s] => alone[s] /\ (Active(s) => pool' = pool)

LEMMA UntouchedKept == ASSUME NEW s \in Request, Kept(s), Untouched(s) PROVE Kept(s)'
<1>1. RequestInv(s)'
  BY DEF Kept, RequestInv, Untouched, Failed, Tries, RetriesOf
<1>2. ASSUME s \notin Pinned, Active(s)', alone'[s] PROVE ClimbsAlone(s)'
  <2>1. ClimbsAlone(s) /\ pool' = pool
    BY <1>2 DEF Kept, Untouched, Active
  <2>. QED  BY <2>1 DEF ClimbsAlone, Untouched, Current, Urls, Listed, Passed
<1>3. s \notin Pinned => Found(s)'
  BY DEF Kept, Found, Untouched, Tries, RetriesOf
<1>. QED  BY <1>1, <1>2, <1>3 DEF Kept

(* The end of a request.                                                   *)
LEMMA EndKept ==
    ASSUME RequestsTyped, NEW r \in Request, Kept(r), NEW how \in {"ok", "raised", "failed"},
           End(r, how), pool' = pool,
           how = "failed" /\ r \notin Pinned /\ alone[r] /\ Cardinality(offered[r]) <= Tries(r) + 1
               => offered[r] \cap Reliable = {}
    PROVE  Kept(r)' /\ RequestsTyped' /\ \A s \in Request \ {r} : Untouched(s)
<1>1. /\ pc' = [pc EXCEPT ![r] = how] /\ at' = [at EXCEPT ![r] = none]
      /\ index' = [index EXCEPT ![r] = 0] /\ refreshed' = [refreshed EXCEPT ![r] = FALSE]
      /\ tried' = [tried EXCEPT ![r] = {}]
      /\ offered' = [offered EXCEPT ![r] = IF how = "failed" THEN @ ELSE {}]
      /\ alone' = [alone EXCEPT ![r] = (how = "failed") => @]
  BY DEF End, Goto
<1>2. Tries(r) \in Nat /\ \A s \in Request : Tries(s)' = Tries(s)
  BY RetriesAreNumbers DEF Tries, RetriesOf
<1>3. RequestsTyped'
  BY <1>1, <1>2 DEF RequestsTyped, PC
<1>4. \A s \in Request \ {r} : Untouched(s)
  BY <1>1 DEF RequestsTyped, Untouched
<1>5. /\ pc'[r] = how /\ tried'[r] = {} /\ index'[r] = 0 /\ refreshed'[r] = FALSE
      /\ (how = "failed" => offered'[r] = offered[r] /\ (alone'[r] => alone[r]))
  BY <1>1 DEF RequestsTyped
<1>6. RequestInv(r)' /\ ~Active(r)'
  BY <1>5 DEF RequestInv, Failed, Active
<1>7. r \notin Pinned => Found(r)'
  BY <1>2, <1>5 DEF Found
<1>. QED  BY <1>3, <1>4, <1>6, <1>7 DEF Kept

LEMMA Attempted ==
    ASSUME RequestsTyped, NEW r \in Request, NEW p, IsPool(p), Attempt(r, p)
    PROVE  /\ pc' \in [Request -> PC] /\ at' \in [Request -> Url \cup {none}] /\ tried' \in [Request -> SUBSET Url]
           /\ \A s \in Request \ {r} : pc'[s] = pc[s] /\ at'[s] = at[s] /\ tried'[s] = tried[s]
           /\ pc'[r] = "posting" /\ tried'[r] = tried[r] \cup {at'[r]}
           /\ r \notin Pinned => at'[r] = Current(p)
<1> DEFINE url == IF r \in Pinned THEN ServiceUrl ELSE Current(p)
<1>1. url \in Url
  BY CurrentIsListed DEF Url
<1>2. at' = [at EXCEPT ![r] = url] /\ tried' = [tried EXCEPT ![r] = @ \cup {url}] /\ pc' = [pc EXCEPT ![r] = "posting"]
  BY DEF Attempt, Goto
<1>3. r \notin Pinned => url = Current(p)
  OBVIOUS
<1> HIDE DEF url
<1>. QED  BY <1>1, <1>2, <1>3 DEF RequestsTyped, PC

LEMMA NextAttempted ==
    ASSUME RequestsTyped, NEW r \in Request, NEW p, IsPool(p), NextAttempt(r, p), index[r] < Tries(r)
    PROVE  /\ pc' \in [Request -> PC] /\ at' \in [Request -> Url \cup {none}] /\ tried' \in [Request -> SUBSET Url]
           /\ DOMAIN index' = Request /\ \A s \in Request : index'[s] \in 0 .. Tries(s)
           /\ \A s \in Request \ {r} :
                  pc'[s] = pc[s] /\ at'[s] = at[s] /\ tried'[s] = tried[s] /\ index'[s] = index[s]
           /\ index'[r] = index[r] + 1
           /\ \/ pc'[r] = "sleeping" /\ tried'[r] = tried[r]
              \/ pc'[r] = "posting" /\ tried'[r] = tried[r] \cup {at'[r]} /\ (r \notin Pinned => at'[r] = Current(p))
<1>1. index' = [index EXCEPT ![r] = @ + 1]
  BY DEF NextAttempt
<1>2. Tries(r) \in Nat
  BY RetriesAreNumbers
<1>3. /\ DOMAIN index' = Request /\ index'[r] = index[r] + 1 /\ \A s \in Request \ {r} : index'[s] = index[s]
  BY <1>1 DEF RequestsTyped
<1>4. \A s \in Request : index'[s] \in 0 .. Tries(s)
  BY <1>2, <1>3 DEF RequestsTyped
<1>5. CASE Sleeps(index[r])
  <2>1. pc' = [pc EXCEPT ![r] = "sleeping"] /\ UNCHANGED <<at, tried>>
    BY <1>5 DEF NextAttempt, Goto
  <2>. QED  BY <1>3, <1>4, <2>1 DEF RequestsTyped, PC
<1>6. CASE ~Sleeps(index[r])
  <2>1. Attempt(r, p)
    BY <1>6 DEF NextAttempt
  <2>. QED  BY <1>3, <1>4, <2>1, Attempted
<1>. QED  BY <1>5, <1>6

(* Whoever turns the pool finds the others as alone as they were, or not.  *)
LEMMA Turned ==
    ASSUME RequestsTyped, NEW r \in Request, NEW p, Turn(r, p)
    PROVE  /\ pool' = p /\ alone' \in [Request -> BOOLEAN] /\ alone'[r] = alone[r]
           /\ \A s \in Request \ {r} : alone'[s] => alone[s] /\ (Active(s) => pool' = pool)
<1>1. pool' = p /\ alone' = [s \in Request |-> alone[s] /\ (s = r \/ ~Active(s) \/ p = pool)]
  BY DEF Turn
<1>2. \A s \in Request : alone[s] \in BOOLEAN
  BY DEF RequestsTyped
<1>. QED  BY <1>1, <1>2

-----------------------------------------------------------------------------
(* Going round the pool.                                                   *)

(* A request that has failed as often as there are URLs has tried them all. *)
LEMMA AllTried ==
    ASSUME IsPool(pool), RequestsTyped, NEW r \in Request, Kept(r), ClimbsAlone(r),
           pc[r] = "posting", ~refreshed[r], index[r] + 1 >= Len(pool.urls)
    PROVE  Urls(pool) \subseteq tried[r]
<1>1. /\ Len(pool.urls) \in Nat /\ pool.current \in 1 .. Len(pool.urls) /\ index[r] \in Nat
      /\ index[r] < Len(pool.urls) /\ Passed(r) /\ at[r] = pool.urls[pool.current] /\ at[r] \in tried[r]
      /\ DOMAIN pool.urls = 1 .. Len(pool.urls)
  BY RetriesAreNumbers DEF IsPool, RequestsTyped, ClimbsAlone, Current, Kept, RequestInv
<1>2. ASSUME NEW i \in 1 .. Len(pool.urls) PROVE pool.urls[i] \in tried[r]
  <2>1. index[r] = Len(pool.urls) - 1
    <3>1. Len(pool.urls) \in Int /\ index[r] \in Int /\ index[r] < Len(pool.urls)
      BY <1>1
    <3>. QED  BY <3>1
  <2> DEFINE first == pool.current - index[r]
  <2>2. i = pool.current \/ (first <= i /\ i < pool.current) \/ i >= first + Len(pool.urls)
    BY <1>1, <2>1
  <2>. QED  BY <1>1, <2>2 DEF Passed
<1>. QED  BY <1>1, <1>2 DEF Urls, Listed

(* The pool's next turn, and the request's next failure.                   *)
LEMMA PassedOneMore ==
    ASSUME IsPool(pool), RequestsTyped, NEW r \in Request, Kept(r), ClimbsAlone(r),
           pc[r] = "posting", ~refreshed[r], index[r] + 1 < Len(pool.urls),
           pool' = ForceRotate(pool), index'[r] = index[r] + 1, tried[r] \subseteq tried'[r]
    PROVE  Passed(r)' /\ index'[r] < Len(pool'.urls) /\ Urls(pool)' = Urls(pool)
<1>1. /\ Len(pool.urls) \in Nat /\ pool.current \in 1 .. Len(pool.urls) /\ index[r] \in Nat
      /\ Passed(r) /\ pool.urls[pool.current] \in tried[r]
  BY RetriesAreNumbers DEF IsPool, RequestsTyped, ClimbsAlone, Current, Kept, RequestInv
<1>2. pool'.urls = pool.urls /\ pool'.current = IF pool.current < Len(pool.urls) THEN pool.current + 1 ELSE 1
  BY RotateIsPool
<1>3. ASSUME NEW i \in 1 .. Len(pool.urls),
             \/ pool'.current - index'[r] <= i /\ i < pool'.current
             \/ i >= pool'.current - index'[r] + Len(pool.urls)
      PROVE  pool.urls[i] \in tried[r]
  <2> DEFINE first == pool.current - index[r]
  <2>1. i = pool.current \/ (first <= i /\ i < pool.current) \/ i >= first + Len(pool.urls)
    <3>1. Len(pool.urls) \in Int /\ pool.current \in 1 .. Len(pool.urls) /\ index[r] \in Nat
      BY <1>1
    <3>2. CASE pool.current < Len(pool.urls)
      <4>1. pool'.current = pool.current + 1
        BY <1>2, <3>2
      <4>. QED  BY <1>3, <3>1, <4>1
    <3>3. CASE ~(pool.current < Len(pool.urls))
      <4>1. pool'.current = 1 /\ pool.current = Len(pool.urls)
        BY <1>2, <3>1, <3>3
      <4>. QED  BY <1>3, <3>1, <4>1
    <3>. QED  BY <3>2, <3>3
  <2>. QED  BY <1>1, <2>1 DEF Passed
<1>. QED  BY <1>2, <1>3 DEF Passed, Urls, Listed

-----------------------------------------------------------------------------
(* The invariant is kept.                                                  *)

LEMMA HttpInit == Init => HttpInv
<1> SUFFICES ASSUME Init PROVE HttpInv
  OBVIOUS
<1>1. Configuration
  <2>1. IsPool(pool)
    BY FreshIsPool DEF Init
  <2>2. up \in SUBSET Url /\ Reliable \subseteq up /\ flaps \in 0 .. MaxFlaps
    BY ListAssumption, RequestAssumption DEF Init
  <2>. QED  BY <2>1, <2>2 DEF Init, Configuration
<1>2. RequestsTyped
  BY RetriesAreNumbers DEF Init, RequestsTyped, PC
<1>3. \A r \in Request : Kept(r)
  BY DEF Init, Kept, RequestInv, Failed, Active, Found
<1>. QED  BY <1>1, <1>2, <1>3 DEF HttpInv

LEMMA SendKeeps == ASSUME HttpInv, NEW r \in Request, Send(r) PROVE HttpInv'
<1>1. /\ IsPool(pool) /\ RequestsTyped /\ Kept(r) /\ Tries(r)' = Tries(r)
      /\ \A s \in Request : Tries(s)' = Tries(s)
  BY DEF HttpInv, Configuration, Tries, RetriesOf
<1>2. /\ pc[r] = "idle" /\ Attempt(r, pool) /\ offered' = [offered EXCEPT ![r] = Urls(pool)]
      /\ UNCHANGED <<pool, listed, apiUrl, up, flaps, index, refreshed, alone>>
  BY DEF Send
<1>3. /\ pc' \in [Request -> PC] /\ at' \in [Request -> Url \cup {none}] /\ tried' \in [Request -> SUBSET Url]
      /\ \A s \in Request \ {r} : pc'[s] = pc[s] /\ at'[s] = at[s] /\ tried'[s] = tried[s]
      /\ pc'[r] = "posting" /\ tried'[r] = tried[r] \cup {at'[r]}
      /\ r \notin Pinned => at'[r] = Current(pool)
  BY <1>1, <1>2, Attempted
<1>4. /\ offered' \in [Request -> SUBSET Url] /\ offered'[r] = Urls(pool)
      /\ \A s \in Request \ {r} : offered'[s] = offered[s]
  <2>1. Urls(pool) \subseteq Url
    BY <1>1 DEF IsPool, Urls, Listed
  <2>. QED  BY <1>1, <1>2, <2>1 DEF RequestsTyped
<1>5. Configuration' /\ RequestsTyped'
  <2>1. Configuration'
    BY <1>2 DEF HttpInv, Configuration, IsPool, Distinct
  <2>2. RequestsTyped'
    BY <1>1, <1>2, <1>3, <1>4 DEF RequestsTyped
  <2>. QED  BY <2>1, <2>2
<1>6. \A s \in Request \ {r} : Untouched(s)
  BY <1>2, <1>3, <1>4 DEF Untouched
<1>7. tried[r] = {} /\ index'[r] = 0 /\ ~refreshed'[r]
  BY <1>1, <1>2 DEF Kept, RequestInv
<1>8. RequestInv(r)'
  BY <1>3, <1>7 DEF RequestInv, Failed
<1>9. r \notin Pinned => ClimbsAlone(r)'
  <2>1. pool'.urls = pool.urls /\ pool'.current = pool.current /\ Len(pool.urls) \in Nat
        /\ pool.current \in 1 .. Len(pool.urls) /\ index'[r] = 0
    BY <1>1, <1>2, <1>7 DEF IsPool
  <2>2. Passed(r)' /\ index'[r] < Len(pool'.urls)
    BY <2>1 DEF Passed
  <2>. QED  BY <1>2, <1>3, <1>4, <1>7, <2>2 DEF ClimbsAlone, Urls, Current
<1>10. Kept(r)'
  BY <1>3, <1>8, <1>9 DEF Kept, Found
<1>11. \A s \in Request \ {r} : Kept(s)'
  BY <1>6, UntouchedKept DEF HttpInv
<1>. QED  BY <1>5, <1>10, <1>11 DEF HttpInv

(* A request is over: answered, cancelled or out of retries.               *)
LEMMA EndKeeps ==
    ASSUME HttpInv, NEW r \in Request, NEW how \in {"ok", "raised", "failed"}, End(r, how),
           UNCHANGED <<pool, listed, up, flaps>>, apiUrl' \in Url \cup {none},
           how = "failed" /\ r \notin Pinned /\ alone[r] /\ Cardinality(offered[r]) <= Tries(r) + 1
               => offered[r] \cap Reliable = {}
    PROVE  HttpInv'
<1>1. Kept(r)' /\ RequestsTyped' /\ \A s \in Request \ {r} : Untouched(s)
  BY EndKept DEF HttpInv
<1>2. \A s \in Request \ {r} : Kept(s)'
  BY <1>1, UntouchedKept DEF HttpInv
<1>3. Configuration'
  BY DEF HttpInv, Configuration, IsPool, Distinct
<1>. QED  BY <1>1, <1>2, <1>3 DEF HttpInv

LEMMA AnswerKeeps == ASSUME HttpInv, NEW r \in Request, Answer(r) PROVE HttpInv'
<1>1. apiUrl' \in Url \cup {none}
  BY CurrentIsListed DEF HttpInv, Configuration, Answer
<1>. QED  BY <1>1, EndKeeps DEF Answer

LEMMA CancelKeeps == ASSUME HttpInv, NEW r \in Request, Cancel(r) PROVE HttpInv'
<1>1. apiUrl' \in Url \cup {none}
  BY DEF HttpInv, Configuration, Cancel
<1>. QED  BY <1>1, EndKeeps DEF Cancel

(* A failure on the last retry: whoever could go once round the pool has.  *)
LEMMA FailedAll ==
    ASSUME HttpInv, NEW r \in Request, r \notin Pinned, pc[r] = "posting", at[r] \notin up,
           index[r] = Tries(r), alone[r], Cardinality(offered[r]) <= Tries(r) + 1
    PROVE  offered[r] \cap Reliable = {}
<1>1. IsPool(pool) /\ RequestsTyped /\ Kept(r) /\ Reliable \subseteq up /\ Tries(r) \in Nat
  BY RetriesAreNumbers DEF HttpInv, Configuration
<1>2. ClimbsAlone(r)
  BY <1>1 DEF Kept, Active
<1>3. CASE refreshed[r]
  BY <1>2, <1>3 DEF ClimbsAlone
<1>4. CASE ~refreshed[r]
  <2>1. offered[r] = Urls(pool)
    BY <1>2, <1>4 DEF ClimbsAlone
  <2>2. Cardinality(offered[r]) = Len(pool.urls)
    BY <1>1, <2>1, ListCounts
  <2>3. index[r] + 1 >= Len(pool.urls)
    <3>1. Len(pool.urls) \in Nat
      BY <1>1 DEF IsPool
    <3>. QED  BY <1>1, <2>2, <3>1
  <2>4. Urls(pool) \subseteq tried[r]
    BY <1>1, <1>2, <1>4, <2>3, AllTried
  <2>5. tried[r] \cap Reliable = {}
    BY <1>1 DEF Kept, RequestInv, Failed
  <2>. QED  BY <2>1, <2>4, <2>5
<1>. QED  BY <1>3, <1>4

(* The next attempt of a request none of whose URLs answered.              *)
LEMMA Advances ==
    ASSUME HttpInv, NEW r \in Request, NEW p, IsPool(p), NextAttempt(r, p), index[r] < Tries(r),
           tried[r] \cap Reliable = {}, pool' = p,
           UNCHANGED <<up, flaps, apiUrl, offered>>, listed' \in Answers \cup {Configured},
           refreshed' \in [Request -> BOOLEAN], alone' \in [Request -> BOOLEAN], alone'[r] = alone[r],
           \A s \in Request \ {r} :
               refreshed'[s] = refreshed[s] /\ (alone'[s] => alone[s] /\ (Active(s) => pool' = pool)),
           r \notin Pinned /\ alone[r] =>
               IF refreshed'[r] THEN offered[r] \cap Reliable = {}
               ELSE /\ offered[r] = Urls(p) /\ index[r] + 1 < Len(p.urls)
                    /\ tried[r] \subseteq tried'[r] /\ index'[r] = index[r] + 1 => Passed(r)'
    PROVE  HttpInv'
<1>1. /\ pc' \in [Request -> PC] /\ at' \in [Request -> Url \cup {none}] /\ tried' \in [Request -> SUBSET Url]
      /\ DOMAIN index' = Request /\ \A s \in Request : index'[s] \in 0 .. Tries(s)
      /\ \A s \in Request \ {r} :
             pc'[s] = pc[s] /\ at'[s] = at[s] /\ tried'[s] = tried[s] /\ index'[s] = index[s]
      /\ index'[r] = index[r] + 1
      /\ \/ pc'[r] = "sleeping" /\ tried'[r] = tried[r]
         \/ pc'[r] = "posting" /\ tried'[r] = tried[r] \cup {at'[r]} /\ (r \notin Pinned => at'[r] = Current(p))
  BY NextAttempted DEF HttpInv
<1>2. \A s \in Request : Tries(s)' = Tries(s)
  BY DEF Tries, RetriesOf
<1>3. RequestsTyped'
  BY <1>1, <1>2 DEF HttpInv, RequestsTyped
<1>4. Configuration'
  BY DEF HttpInv, Configuration, IsPool, Distinct
<1>5. \A s \in Request \ {r} : Kept(s)'
  <2>1. \A s \in Request \ {r} : Untouched(s)
    BY <1>1 DEF Untouched
  <2>. QED  BY <2>1, UntouchedKept DEF HttpInv
<1>6. RequestInv(r)'
  BY <1>1 DEF RequestInv, Failed
<1>7. ASSUME r \notin Pinned, alone'[r] PROVE ClimbsAlone(r)'
  <2>1. Current(pool)' = Current(p) /\ Urls(pool)' = Urls(p) /\ pool'.urls = p.urls
    BY DEF Current, Urls
  <2>2. pc'[r] = "posting" => at'[r] = Current(pool)'
    BY <1>1, <1>7, <2>1
  <2>3. CASE refreshed'[r]
    BY <1>1, <1>7, <2>2, <2>3 DEF ClimbsAlone
  <2>4. CASE ~refreshed'[r]
    <3>1. offered'[r] = Urls(pool)' /\ index'[r] < Len(pool'.urls) /\ Passed(r)'
      BY <1>1, <1>7, <2>1, <2>4
    <3>. QED  BY <1>1, <2>2, <2>4, <3>1 DEF ClimbsAlone
  <2>. QED  BY <2>3, <2>4
<1>8. Kept(r)'
  BY <1>1, <1>6, <1>7 DEF Kept, Found
<1>. QED  BY <1>3, <1>4, <1>5, <1>8 DEF HttpInv

LEMMA FailKeeps == ASSUME HttpInv, NEW r \in Request, Fail(r) PROVE HttpInv'
<1>1. /\ pc[r] = "posting" /\ at[r] \notin up /\ UNCHANGED <<listed, apiUrl, up, flaps>>
      /\ IsPool(pool) /\ RequestsTyped /\ Kept(r) /\ apiUrl \in Url \cup {none}
      /\ listed \in Answers \cup {Configured} /\ Reliable \subseteq up
  BY DEF HttpInv, Configuration, Fail
<1>2. tried[r] \cap Reliable = {} /\ Active(r)
  BY <1>1 DEF Kept, RequestInv, Failed, Active
<1>3. CASE index[r] = Tries(r) /\ End(r, "failed") /\ UNCHANGED pool
  BY <1>1, <1>3, FailedAll, EndKeeps
<1>4. CASE /\ index[r] < Tries(r) /\ r \in Pinned /\ NextAttempt(r, pool)
           /\ UNCHANGED <<pool, refreshed, offered, alone>>
  BY <1>1, <1>2, <1>4, Advances DEF RequestsTyped
<1>5. CASE /\ index[r] < Tries(r) /\ r \notin Pinned /\ Turn(r, ForceRotate(pool)) /\ UNCHANGED offered
           /\ ~refreshed[r] /\ Exhausted(r, pool) /\ refreshed' = [refreshed EXCEPT ![r] = TRUE]
           /\ Goto(r, "refreshing") /\ UNCHANGED <<at, index, tried>>
  <2>1. IsPool(ForceRotate(pool)) /\ ForceRotate(pool).urls = pool.urls
    BY <1>1, RotateIsPool
  <2>2. /\ pool' = ForceRotate(pool) /\ alone' \in [Request -> BOOLEAN] /\ alone'[r] = alone[r]
        /\ \A s \in Request \ {r} : alone'[s] => alone[s] /\ (Active(s) => pool' = pool)
    BY <1>1, <1>5, Turned
  <2>3. /\ pc' \in [Request -> PC] /\ pc'[r] = "refreshing" /\ \A s \in Request \ {r} : pc'[s] = pc[s]
        /\ refreshed' \in [Request -> BOOLEAN] /\ refreshed'[r]
        /\ \A s \in Request \ {r} : refreshed'[s] = refreshed[s]
    BY <1>1, <1>5 DEF Goto, RequestsTyped, PC
  <2>4. RequestsTyped'
    BY <1>1, <1>5, <2>2, <2>3 DEF RequestsTyped, Tries, RetriesOf
  <2>5. Configuration'
    BY <1>1, <2>1, <2>2 DEF HttpInv, Configuration, IsPool, Distinct
  <2>6. \A s \in Request \ {r} : Kept(s)'
    <3>1. \A s \in Request \ {r} : Untouched(s)
      BY <1>5, <2>2, <2>3 DEF Untouched
    <3>. QED  BY <3>1, UntouchedKept DEF HttpInv
  <2>7. RequestInv(r)'
    BY <1>2, <1>5, <2>3 DEF RequestInv, Failed, Tries, RetriesOf
  <2>8. ASSUME alone'[r] PROVE ClimbsAlone(r)'
    <3>1. ClimbsAlone(r)
      BY <1>1, <1>2, <1>5, <2>2, <2>8 DEF Kept
    <3>2. Urls(pool) \subseteq tried[r]
      BY <1>1, <1>5, <3>1, AllTried DEF Exhausted
    <3>3. offered[r] = Urls(pool)
      BY <1>5, <3>1 DEF ClimbsAlone
    <3>4. Urls(pool)' = Urls(pool)
      BY <2>1, <2>2 DEF Urls
    <3>5. Urls(pool)' \subseteq tried'[r] /\ offered'[r] \cap Reliable = {}
      BY <1>2, <1>5, <3>2, <3>3, <3>4
    <3>. QED  BY <2>3, <3>5 DEF ClimbsAlone
  <2>9. Kept(r)'
    BY <2>3, <2>7, <2>8 DEF Kept, Found
  <2>. QED  BY <2>4, <2>5, <2>6, <2>9 DEF HttpInv
<1>6. CASE /\ index[r] < Tries(r) /\ r \notin Pinned /\ Turn(r, ForceRotate(pool)) /\ UNCHANGED offered
           /\ ~(~refreshed[r] /\ Exhausted(r, pool))
           /\ NextAttempt(r, ForceRotate(pool)) /\ UNCHANGED refreshed
  <2>1. IsPool(ForceRotate(pool)) /\ ForceRotate(pool).urls = pool.urls
    BY <1>1, RotateIsPool
  <2>2. /\ pool' = ForceRotate(pool) /\ alone' \in [Request -> BOOLEAN] /\ alone'[r] = alone[r]
        /\ \A s \in Request \ {r} : alone'[s] => alone[s] /\ (Active(s) => pool' = pool)
    BY <1>1, <1>6, Turned
  <2>3. ASSUME alone[r]
        PROVE IF refreshed'[r] THEN offered[r] \cap Reliable = {}
              ELSE /\ offered[r] = Urls(ForceRotate(pool)) /\ index[r] + 1 < Len(ForceRotate(pool).urls)
                   /\ tried[r] \subseteq tried'[r] /\ index'[r] = index[r] + 1 => Passed(r)'
    <3>1. ClimbsAlone(r)
      BY <1>1, <1>2, <1>6, <2>3 DEF Kept
    <3>2. CASE refreshed[r]
      BY <1>6, <3>1, <3>2 DEF ClimbsAlone
    <3>3. CASE ~refreshed[r]
      <4>1. index[r] + 1 < Len(pool.urls)
        <5>1. index[r] \in Nat /\ Len(pool.urls) \in Nat /\ ~(index[r] + 1 >= Len(pool.urls))
          BY <1>1, <1>6, <3>3, RetriesAreNumbers DEF Exhausted, IsPool, RequestsTyped
        <5>. QED  BY <5>1
      <4>2. tried[r] \subseteq tried'[r] /\ index'[r] = index[r] + 1 => Passed(r)'
        BY <1>1, <2>2, <3>1, <3>3, <4>1, PassedOneMore
      <4>3. offered[r] = Urls(ForceRotate(pool))
        BY <2>1, <3>1, <3>3 DEF ClimbsAlone, Urls
      <4>. QED  BY <1>6, <2>1, <3>3, <4>1, <4>2, <4>3
    <3>. QED  BY <3>2, <3>3
  <2>. QED  BY <1>1, <1>2, <1>6, <2>1, <2>2, <2>3, Advances DEF RequestsTyped
<1>. QED
  <2>1. RetriesOf(Retries[r]) = Tries(r)
    BY DEF Tries
  <2>. QED  BY <1>3, <1>4, <1>5, <1>6, <2>1 DEF Fail

LEMMA RefreshKeeps == ASSUME HttpInv, NEW r \in Request, Refresh(r) PROVE HttpInv'
<1>1. /\ pc[r] = "refreshing" /\ UNCHANGED <<apiUrl, up, flaps, refreshed, offered>>
      /\ IsPool(pool) /\ RequestsTyped /\ Kept(r) /\ listed \in Answers \cup {Configured}
  BY DEF HttpInv, Configuration, Refresh
<1>2. r \notin Pinned /\ refreshed[r] /\ index[r] < Tries(r) /\ tried[r] \cap Reliable = {} /\ Active(r)
  BY <1>1 DEF Kept, RequestInv, Failed, Active
<1>3. alone[r] => offered[r] \cap Reliable = {}
  BY <1>1, <1>2 DEF Kept, ClimbsAlone
<1>4. ASSUME NEW list \in Answers, listed' = list, Turn(r, Replace(pool, list)), NextAttempt(r, Replace(pool, list))
      PROVE  HttpInv'
  <2>1. /\ pool' = Replace(pool, list) /\ alone' \in [Request -> BOOLEAN] /\ alone'[r] = alone[r]
        /\ \A s \in Request \ {r} : alone'[s] => alone[s] /\ (Active(s) => pool' = pool)
    BY <1>1, <1>4, Turned
  <2>2. IsPool(Replace(pool, list))
    BY <1>1, ReplaceIsPool
  <2>. QED  BY <1>1, <1>2, <1>3, <1>4, <2>1, <2>2, Advances DEF RequestsTyped
<1>5. CASE UNCHANGED <<pool, listed, alone>> /\ NextAttempt(r, pool)
  BY <1>1, <1>2, <1>3, <1>5, Advances DEF RequestsTyped
<1>. QED  BY <1>4, <1>5 DEF Refresh

LEMMA WakeKeeps == ASSUME HttpInv, NEW r \in Request, Wake(r) PROVE HttpInv'
<1>1. /\ pc[r] = "sleeping" /\ Attempt(r, pool) /\ IsPool(pool) /\ RequestsTyped /\ Kept(r)
      /\ UNCHANGED <<pool, listed, apiUrl, up, flaps, index, refreshed, offered, alone>>
  BY DEF HttpInv, Configuration, Wake
<1>2. /\ pc' \in [Request -> PC] /\ at' \in [Request -> Url \cup {none}] /\ tried' \in [Request -> SUBSET Url]
      /\ \A s \in Request \ {r} : pc'[s] = pc[s] /\ at'[s] = at[s] /\ tried'[s] = tried[s]
      /\ pc'[r] = "posting" /\ tried'[r] = tried[r] \cup {at'[r]}
      /\ r \notin Pinned => at'[r] = Current(pool)
  BY <1>1, Attempted
<1>3. Configuration'
  BY <1>1 DEF HttpInv, Configuration, IsPool, Distinct
<1>4. RequestsTyped'
  BY <1>1, <1>2 DEF RequestsTyped, Tries, RetriesOf
<1>5. \A s \in Request \ {r} : Kept(s)'
  <2>1. \A s \in Request \ {r} : Untouched(s)
    BY <1>1, <1>2 DEF Untouched
  <2>. QED  BY <2>1, UntouchedKept DEF HttpInv
<1>6. RequestInv(r)'
  BY <1>1, <1>2 DEF Kept, RequestInv, Failed
<1>7. ASSUME r \notin Pinned, alone'[r] PROVE ClimbsAlone(r)'
  <2>1. ClimbsAlone(r)
    BY <1>1, <1>7 DEF Kept, Active
  <2>. QED  BY <1>1, <1>2, <1>7, <2>1 DEF ClimbsAlone, Passed, Urls, Listed, Current
<1>8. Kept(r)'
  BY <1>2, <1>6, <1>7 DEF Kept, Found
<1>. QED  BY <1>3, <1>4, <1>5, <1>8 DEF HttpInv

LEMMA RestartKeeps == ASSUME HttpInv, Restart PROVE HttpInv'
<1>1. /\ listed' \in Answers \cup {Configured} /\ UNCHANGED <<apiUrl, up, flaps>>
      /\ pool' = SetCurrent([urls |-> Deduped(listed'), current |-> 1], apiUrl)
      /\ pc' = [r \in Request |-> "idle"] /\ at' = [r \in Request |-> none]
      /\ index' = [r \in Request |-> 0] /\ refreshed' = [r \in Request |-> FALSE]
      /\ tried' = [r \in Request |-> {}] /\ offered' = [r \in Request |-> {}]
      /\ alone' = [r \in Request |-> TRUE]
  BY DEF HttpInv, Configuration, Restart
<1>2. IsPool(pool')
  BY <1>1, FreshIsPool, SetCurrentIsPool
<1>3. Configuration'
  BY <1>1, <1>2 DEF HttpInv, Configuration, IsPool, Distinct
<1>4. RequestsTyped'
  <2>1. \A r \in Request : Tries(r)' \in Nat
    BY RetriesAreNumbers DEF Tries, RetriesOf
  <2>. QED  BY <1>1, <2>1 DEF RequestsTyped, PC
<1>5. \A r \in Request : Kept(r)'
  BY <1>1 DEF Kept, RequestInv, Failed, Active, Found
<1>. QED  BY <1>3, <1>4, <1>5 DEF HttpInv

LEMMA FlapKeeps == ASSUME HttpInv, NEW u \in Url, Flap(u) PROVE HttpInv'
<1>1. /\ UNCHANGED <<pool, listed, apiUrl, pc, at, index, refreshed, tried, offered, alone>>
      /\ u \notin Reliable /\ flaps < MaxFlaps /\ flaps' = flaps + 1
      /\ up' = IF u \in up THEN up \ {u} ELSE up \cup {u}
  BY DEF Flap, request
<1>2. Configuration'
  <2>1. up' \in SUBSET Url /\ Reliable \subseteq up' /\ flaps' \in 0 .. MaxFlaps
    BY <1>1, RequestAssumption DEF HttpInv, Configuration
  <2>. QED  BY <1>1, <2>1 DEF HttpInv, Configuration, IsPool, Distinct
<1>3. RequestsTyped'
  BY <1>1 DEF HttpInv, RequestsTyped, Tries, RetriesOf
<1>4. \A s \in Request : Kept(s)'
  <2>1. \A s \in Request : Untouched(s)
    BY <1>1 DEF Untouched
  <2>. QED  BY <2>1, UntouchedKept DEF HttpInv
<1>. QED  BY <1>2, <1>3, <1>4 DEF HttpInv

LEMMA HttpNext == HttpInv /\ [Next]_vars => HttpInv'
<1> SUFFICES ASSUME HttpInv, [Next]_vars PROVE HttpInv'
  OBVIOUS
<1>1. CASE Next
  BY <1>1, SendKeeps, AnswerKeeps, FailKeeps, RefreshKeeps, WakeKeeps, CancelKeeps, RestartKeeps, FlapKeeps
     DEF Next
<1>2. CASE UNCHANGED vars
  BY <1>2 DEF vars, request, HttpInv, Configuration, IsPool, Distinct, RequestsTyped, Tries, RetriesOf, Kept,
     RequestInv, Failed, Active, Found, ClimbsAlone, Urls, Listed, Current, Passed
<1>. QED  BY <1>1, <1>2

LEMMA HttpAlways == Spec => []HttpInv
<1>. QED  BY HttpInit, HttpNext, PTL DEF Spec

-----------------------------------------------------------------------------
(* The pool always has a current URL, the ladder's attempt numbers stay    *)
(* within the retries asked for, and the URLs that always answer do.       *)
THEOREM TypeCorrect == Spec => []TypeOK
<1>1. HttpInv => TypeOK
  BY DEF HttpInv, Configuration, RequestsTyped, IsPool, Tries, TypeOK
<1>. QED  BY <1>1, HttpAlways, PTL

(* A request with the pool to itself asks getDCs for new URLs only after   *)
(* every URL of the list was tried: _refresh_api_urls of client.py, called *)
(* from the retry loop of http.py.  By HttpInv, for any list and ladder.   *)
THEOREM ConsultsAfterAll == Spec => []RefreshesAfterAll
<1>1. HttpInv => RefreshesAfterAll
  BY DEF HttpInv, Kept, RequestInv, ClimbsAlone, Active, RefreshesAfterAll
<1>. QED  BY <1>1, HttpAlways, PTL

(* A request with the pool to itself, with at least as many attempts as    *)
(* the pool had URLs, never gives up while one of them always answers.     *)
THEOREM OneUrlIsEnough == Spec => []ReliableUrlIsFound
<1>1. HttpInv => ReliableUrlIsFound
  <2> SUFFICES ASSUME HttpInv, NEW r \in Request \ Pinned, pc[r] = "failed", alone[r],
                      Cardinality(offered[r]) <= Tries(r) + 1
               PROVE  offered[r] \cap Reliable = {}
    BY DEF ReliableUrlIsFound, Tries
  <2>. QED  BY DEF HttpInv, Kept, Found
<1>. QED  BY <1>1, HttpAlways, PTL

(* The URL _call_rpc stores for the next start of the client is the one    *)
(* that answered, when no other request has turned the pool since.         *)
THEOREM AnsweringUrlIsStored == Spec => StoredUrlAnswered
<1> DEFINE Stored == \A r \in Request \ Pinned :
        apiUrl' # apiUrl /\ pc[r] # "ok" /\ pc'[r] = "ok" /\ alone[r]
            => apiUrl' = at[r] /\ at[r] \in up
<1>1. HttpInv /\ [Next]_vars => [Stored]_vars
  <2> SUFFICES ASSUME HttpInv, Next, NEW r \in Request \ Pinned,
                      apiUrl' # apiUrl, pc[r] # "ok", pc'[r] = "ok", alone[r]
               PROVE  apiUrl' = at[r] /\ at[r] \in up
    OBVIOUS
  <2>1. PICK s \in Request : Answer(s) /\ apiUrl' # apiUrl
    BY DEF Next, Send, Fail, Refresh, Wake, Cancel, Restart, Flap
  <2>2. End(s, "ok") /\ apiUrl' = Current(pool) /\ at[s] \in up /\ pc[s] = "posting"
    BY <2>1 DEF Answer
  <2>3. r = s
    <3>1. pc \in [Request -> PC] /\ pc' = [pc EXCEPT ![s] = "ok"]
      BY <2>2 DEF HttpInv, RequestsTyped, End, Goto
    <3>. QED  BY <3>1
  <2>4. at[r] = Current(pool)
    BY <2>2, <2>3 DEF HttpInv, Kept, ClimbsAlone, Active
  <2>. QED  BY <2>2, <2>3, <2>4
<1>2. Spec => [][Stored]_vars
  BY <1>1, HttpAlways, PTL DEF Spec
<1>. QED  BY <1>2 DEF StoredUrlAnswered

-----------------------------------------------------------------------------
(* The update socket.                                                      *)

(* close() and every teardown let go of the reconnect task; a new one is   *)
(* scheduled only while the transport is open.                             *)
ClosedHasNoTask == closed => reconnectTask = nothing

(* A reconnect task waits neither for the lock nor for another one; the    *)
(* closer begins with close().                                             *)
TasksPlaced ==
    /\ \A r \in Reconnect : step[r] \notin {"lock", "reconnect"}
    /\ \A d \in Ws!Task : step[d] = "reconnect" => waits[d] \in Reconnect
    /\ ~disposed => step[closer] = "idle"

(* A reconnect task at work is the current one, or somebody awaits its     *)
(* end.                                                                    *)
NobodyLost ==
    \A r \in Reconnect : step[r] # "idle" =>
        r = reconnectTask \/ \E d \in Ws!Task : step[d] = "reconnect" /\ waits[d] = r

(* A websocket held after close() is still to be dropped, by a call that   *)
(* is not through with its teardown.                                       *)
TakenDown ==
    closed /\ socket # nothing =>
        \E d \in Ws!Task \ Reconnect : step[d] \in {"reconnect", "drop"}

SocketInv == Ws!TypeOK /\ ClosedHasNoTask /\ TasksPlaced /\ NobodyLost /\ TakenDown

(* No step disturbs any of these, one lemma for each action.              *)
LEMMA ConnectKeeps == ASSUME SocketInv, NEW c \in Caller, Ws!Connect(c) PROVE SocketInv'
<1> USE NameAssumption, BoundAssumption DEF Ws!fields, Ws!locals, Ws!calls, Ws!world
<1>1. Ws!TypeOK'
  BY DEF SocketInv, Ws!TypeOK, Ws!Connect, Ws!Goto, Ws!Spend, Ws!PC, Ws!Sync, Ws!Task,
     Ws!Helper, Ws!Done
<1>2. ClosedHasNoTask'
  BY DEF SocketInv, ClosedHasNoTask, Ws!Connect, Ws!Goto
<1>3. TasksPlaced'
  BY DEF SocketInv, Ws!TypeOK, ClosedHasNoTask, TasksPlaced, Ws!Connect, Ws!Goto, Ws!Sync,
     Ws!Task, Ws!Done
<1>4. NobodyLost'
  BY DEF SocketInv, Ws!TypeOK, TasksPlaced, NobodyLost, Ws!Connect, Ws!Goto, Ws!Sync,
     Ws!Task, Ws!Done
<1>5. TakenDown'
  BY DEF SocketInv, Ws!TypeOK, ClosedHasNoTask, TasksPlaced, NobodyLost, TakenDown,
     Ws!Connect, Ws!Goto, Ws!Sync, Ws!Task, Ws!Done
<1> QED
  BY <1>1, <1>2, <1>3, <1>4, <1>5 DEF SocketInv

LEMMA EnterKeeps == ASSUME SocketInv, NEW c \in Caller, Ws!Enter(c) PROVE SocketInv'
<1> USE NameAssumption, BoundAssumption DEF Ws!fields, Ws!locals, Ws!calls, Ws!world
<1>1. Ws!TypeOK'
  BY DEF SocketInv, Ws!TypeOK, Ws!Enter, Ws!Teardown, Ws!CancelReconnect, Ws!CloseLinks,
     Ws!Goto, Ws!PC, Ws!Sync, Ws!Task, Ws!Helper, Ws!Reconnecting, Ws!Done
<1>2. ClosedHasNoTask'
  BY DEF SocketInv, ClosedHasNoTask, Ws!Enter, Ws!Teardown, Ws!CancelReconnect,
     Ws!CloseLinks, Ws!Goto
<1>3. TasksPlaced'
  BY DEF SocketInv, Ws!TypeOK, ClosedHasNoTask, TasksPlaced, Ws!Enter, Ws!Teardown,
     Ws!CancelReconnect, Ws!CloseLinks, Ws!Goto, Ws!Sync, Ws!Task, Ws!Reconnecting, Ws!Done
<1>4. NobodyLost'
  BY DEF SocketInv, Ws!TypeOK, TasksPlaced, NobodyLost, Ws!Enter, Ws!Teardown,
     Ws!CancelReconnect, Ws!CloseLinks, Ws!Goto, Ws!Sync, Ws!Task, Ws!Reconnecting, Ws!Done
<1>5. TakenDown'
  BY DEF SocketInv, Ws!TypeOK, ClosedHasNoTask, TasksPlaced, NobodyLost, TakenDown,
     Ws!Enter, Ws!Teardown, Ws!CancelReconnect, Ws!CloseLinks, Ws!Goto, Ws!Sync, Ws!Task,
     Ws!Reconnecting, Ws!Done
<1> QED
  BY <1>1, <1>2, <1>3, <1>4, <1>5 DEF SocketInv

LEMMA OpenCallKeeps == ASSUME SocketInv, NEW c \in Caller, Ws!OpenCall(c) PROVE SocketInv'
<1> USE NameAssumption, BoundAssumption DEF Ws!fields, Ws!locals, Ws!calls, Ws!world
<1>1. Ws!TypeOK'
  BY DEF SocketInv, Ws!TypeOK, Ws!OpenCall, Ws!Goto, Ws!PC, Ws!Sync, Ws!Task, Ws!Helper,
     Ws!Done
<1>2. ClosedHasNoTask'
  BY DEF SocketInv, ClosedHasNoTask, Ws!OpenCall, Ws!Goto
<1>3. TasksPlaced'
  BY DEF SocketInv, Ws!TypeOK, ClosedHasNoTask, TasksPlaced, Ws!OpenCall, Ws!Goto, Ws!Sync,
     Ws!Task, Ws!Done
<1>4. NobodyLost'
  BY DEF SocketInv, Ws!TypeOK, TasksPlaced, NobodyLost, Ws!OpenCall, Ws!Goto, Ws!Sync,
     Ws!Task, Ws!Done
<1>5. TakenDown'
  BY DEF SocketInv, Ws!TypeOK, ClosedHasNoTask, TasksPlaced, NobodyLost, TakenDown,
     Ws!OpenCall, Ws!Goto, Ws!Sync, Ws!Task, Ws!Done
<1> QED
  BY <1>1, <1>2, <1>3, <1>4, <1>5 DEF SocketInv

LEMMA ConnectOkKeeps == ASSUME SocketInv, NEW c \in Caller, Ws!ConnectOk(c) PROVE SocketInv'
<1> USE NameAssumption, BoundAssumption DEF Ws!fields, Ws!locals, Ws!calls, Ws!world
<1>1. Ws!TypeOK'
  BY DEF SocketInv, Ws!TypeOK, Ws!ConnectOk, Ws!StartSocket, Ws!FreeSocket, Ws!Announce,
     Ws!Return, Ws!Goto, Ws!PC, Ws!Sync, Ws!Task, Ws!Helper, Ws!Done
<1>2. ClosedHasNoTask'
  BY DEF SocketInv, ClosedHasNoTask, Ws!ConnectOk, Ws!StartSocket, Ws!FreeSocket,
     Ws!Announce, Ws!Return, Ws!Goto
<1>3. TasksPlaced'
  BY DEF SocketInv, Ws!TypeOK, ClosedHasNoTask, TasksPlaced, Ws!ConnectOk, Ws!StartSocket,
     Ws!FreeSocket, Ws!Announce, Ws!Return, Ws!Goto, Ws!Sync, Ws!Task, Ws!Done
<1>4. NobodyLost'
  BY DEF SocketInv, Ws!TypeOK, TasksPlaced, NobodyLost, Ws!ConnectOk, Ws!StartSocket,
     Ws!FreeSocket, Ws!Announce, Ws!Return, Ws!Goto, Ws!Sync, Ws!Task, Ws!Done
<1>5. TakenDown'
  BY DEF SocketInv, Ws!TypeOK, ClosedHasNoTask, TasksPlaced, NobodyLost, TakenDown,
     Ws!ConnectOk, Ws!StartSocket, Ws!FreeSocket, Ws!Announce, Ws!Return, Ws!Goto, Ws!Sync,
     Ws!Task, Ws!Done
<1> QED
  BY <1>1, <1>2, <1>3, <1>4, <1>5 DEF SocketInv

LEMMA ConnectFailsKeeps == ASSUME SocketInv, NEW c \in Caller, Ws!ConnectFails(c) PROVE SocketInv'
<1> USE NameAssumption, BoundAssumption DEF Ws!fields, Ws!locals, Ws!calls, Ws!world
<1>1. spent' \in [call : 0..MaxCalls, loss : 0..MaxLosses, fail : 0..MaxFails, cancel : 0..MaxCancels]
  BY DEF SocketInv, Ws!TypeOK, Ws!ConnectFails, Ws!Spend
<1>2. step' \in [Ws!Task -> Ws!PC]
  BY DEF SocketInv, Ws!TypeOK, Ws!ConnectFails, Ws!Return, Ws!Goto, Ws!PC, Ws!Task
<1>3. {closed, connected, raised, disposed}' \subseteq BOOLEAN
  BY DEF SocketInv, Ws!TypeOK, Ws!ConnectFails, Ws!Return
<1>4. Ws!TypeOK'
  BY <1>1, <1>2, <1>3 DEF SocketInv, Ws!TypeOK, Ws!ConnectFails, Ws!Return
<1>5. ClosedHasNoTask' /\ TasksPlaced'
  BY DEF SocketInv, Ws!TypeOK, ClosedHasNoTask, TasksPlaced, Ws!ConnectFails, Ws!Return,
     Ws!Goto, Ws!Task
<1>6. NobodyLost' /\ TakenDown'
  BY DEF SocketInv, Ws!TypeOK, NobodyLost, TakenDown, Ws!ConnectFails, Ws!Return, Ws!Goto,
     Ws!Task
<1> QED
  BY <1>4, <1>5, <1>6 DEF SocketInv

LEMMA CancelConnectKeeps == ASSUME SocketInv, NEW c \in Caller, Ws!CancelConnect(c) PROVE SocketInv'
<1> USE NameAssumption, BoundAssumption DEF Ws!fields, Ws!locals, Ws!calls, Ws!world
<1>0. /\ c \in Ws!Task /\ step \in [Ws!Task -> Ws!PC] /\ ws \in [Ws!Task -> Socket \cup {nothing}]
      /\ link \in [Socket -> {"unused", "open", "lost"}]
  BY DEF SocketInv, Ws!TypeOK, Ws!Task
<1>1. spent' \in [call : 0..MaxCalls, loss : 0..MaxLosses, fail : 0..MaxFails, cancel : 0..MaxCancels]
  BY DEF SocketInv, Ws!TypeOK, Ws!CancelConnect, Ws!Spend
<1>2. CASE step[c] \in {"lock", "closing", "open", "shut"} /\ step' = [step EXCEPT ![c] = "idle"] /\ ws' = [ws EXCEPT ![c] = nothing]
           /\ Ws!CloseLinks(IF step[c] = "closing" THEN {ws[c]} ELSE {}) /\ lock' \in {lock, nothing} /\ raised' \in {raised, TRUE}
  <2>1. Ws!TypeOK'
    BY <1>1, <1>2, <1>0 DEF SocketInv, Ws!TypeOK, Ws!CancelConnect, Ws!CloseLinks, Ws!PC
  <2>2. ClosedHasNoTask' /\ TasksPlaced'
    BY <1>2, <1>0 DEF SocketInv, ClosedHasNoTask, TasksPlaced, Ws!CancelConnect, Ws!Task
  <2>3. NobodyLost' /\ TakenDown'
    BY <1>2, <1>0 DEF SocketInv, NobodyLost, TakenDown, Ws!CancelConnect, Ws!Task
  <2> QED  BY <2>1, <2>2, <2>3 DEF SocketInv
<1>3. CASE step[c] = "open" /\ Ws!Goto(c, "shut") /\ UNCHANGED <<link, ws, lock, raised>>
  <2>1. Ws!TypeOK'
    BY <1>1, <1>3, <1>0 DEF SocketInv, Ws!TypeOK, Ws!CancelConnect, Ws!Goto, Ws!PC
  <2>2. ClosedHasNoTask' /\ TasksPlaced'
    BY <1>3, <1>0 DEF SocketInv, ClosedHasNoTask, TasksPlaced, Ws!CancelConnect, Ws!Goto,
       Ws!Task
  <2>3. NobodyLost' /\ TakenDown'
    BY <1>3, <1>0 DEF SocketInv, NobodyLost, TakenDown, Ws!CancelConnect, Ws!Goto, Ws!Task
  <2> QED  BY <2>1, <2>2, <2>3 DEF SocketInv
<1>4. CASE /\ step[c] = "reconnect" /\ ~Ws!Done(waits[c])
           /\ Ws!CancelReconnect(waits[c], c, "reconnect")
           /\ UNCHANGED <<lock, raised>>
  <2> DEFINE r == waits[c]
  <2>1. r \in Reconnect /\ r \in Ws!Task /\ step[r] # "idle" /\ r # c
    BY <1>4, <1>0 DEF SocketInv, TasksPlaced, Ws!Done, Ws!Task
  <2>2. PICK to \in Ws!PC : step' = [step EXCEPT ![c] = "reconnect", ![r] = to] /\ to \notin {"lock", "reconnect", "drop"}
    BY <1>4, <1>0, <2>1 DEF Ws!CancelReconnect, Ws!PC
  <2> HIDE DEF r
  <2>3. \A d \in Ws!Task \ {r} : step'[d] = step[d]
    BY <1>4, <1>0, <2>1, <2>2
  <2>4. step'[r] = to /\ waits' = waits
    BY <1>0, <2>1, <2>2 DEF Ws!CancelConnect
  <2>5. Ws!TypeOK'
    BY <1>1, <1>4, <1>0, <2>2, <2>1 DEF SocketInv, Ws!TypeOK, Ws!CancelConnect,
       Ws!CancelReconnect, Ws!CloseLinks, r
  <2>6. ClosedHasNoTask' /\ TasksPlaced'
    BY <2>1, <2>3, <2>4, <2>2 DEF SocketInv, ClosedHasNoTask, TasksPlaced, Ws!CancelConnect,
       Ws!Task
  <2>7. NobodyLost'
    <3>1. \A d \in Ws!Task : step[d] = "reconnect" => step'[d] = "reconnect"
      BY <2>1, <2>3 DEF SocketInv, TasksPlaced
    <3>2. waits[c] = r /\ step[c] = "reconnect"
      BY <1>4 DEF r
    <3> QED  BY <1>0, <2>3, <2>4, <3>1, <3>2 DEF SocketInv, NobodyLost, Ws!CancelConnect, Ws!Task
  <2>8. TakenDown'
    BY <1>0, <2>1, <2>3 DEF SocketInv, TakenDown, Ws!CancelConnect
  <2> QED  BY <2>5, <2>6, <2>7, <2>8 DEF SocketInv
<1>5. raised \in BOOLEAN
  BY DEF SocketInv, Ws!TypeOK
<1> QED
  BY <1>2, <1>3, <1>4, <1>5 DEF Ws!CancelConnect, Ws!Return, Ws!Goto

LEMMA ConnectShutKeeps == ASSUME SocketInv, NEW c \in Caller, Ws!ConnectShut(c) PROVE SocketInv'
<1> USE NameAssumption, BoundAssumption DEF Ws!fields, Ws!locals, Ws!calls, Ws!world
<1>1. Ws!TypeOK'
  BY DEF SocketInv, Ws!TypeOK, Ws!ConnectShut, Ws!Return, Ws!Goto, Ws!PC, Ws!Sync, Ws!Task,
     Ws!Helper, Ws!Done
<1>2. ClosedHasNoTask'
  BY DEF SocketInv, ClosedHasNoTask, Ws!ConnectShut, Ws!Return, Ws!Goto
<1>3. TasksPlaced'
  BY DEF SocketInv, Ws!TypeOK, ClosedHasNoTask, TasksPlaced, Ws!ConnectShut, Ws!Return,
     Ws!Goto, Ws!Sync, Ws!Task, Ws!Done
<1>4. NobodyLost'
  BY DEF SocketInv, Ws!TypeOK, TasksPlaced, NobodyLost, Ws!ConnectShut, Ws!Return, Ws!Goto,
     Ws!Sync, Ws!Task, Ws!Done
<1>5. TakenDown'
  BY DEF SocketInv, Ws!TypeOK, ClosedHasNoTask, TasksPlaced, NobodyLost, TakenDown,
     Ws!ConnectShut, Ws!Return, Ws!Goto, Ws!Sync, Ws!Task, Ws!Done
<1> QED
  BY <1>1, <1>2, <1>3, <1>4, <1>5 DEF SocketInv

LEMMA CloseKeeps == ASSUME SocketInv, Ws!Close PROVE SocketInv'
<1> USE NameAssumption, BoundAssumption DEF Ws!fields, Ws!locals, Ws!calls, Ws!world
<1>1. Ws!TypeOK'
  BY DEF SocketInv, Ws!TypeOK, Ws!Close, Ws!Teardown, Ws!CancelReconnect, Ws!CloseLinks,
     Ws!Goto, Ws!PC, Ws!Sync, Ws!Task, Ws!Helper, Ws!Reconnecting, Ws!Done
<1>2. ClosedHasNoTask'
  BY DEF SocketInv, ClosedHasNoTask, Ws!Close, Ws!Teardown, Ws!CancelReconnect,
     Ws!CloseLinks, Ws!Goto
<1>3. TasksPlaced'
  BY DEF SocketInv, Ws!TypeOK, ClosedHasNoTask, TasksPlaced, Ws!Close, Ws!Teardown,
     Ws!CancelReconnect, Ws!CloseLinks, Ws!Goto, Ws!Sync, Ws!Task, Ws!Reconnecting, Ws!Done
<1>4. NobodyLost'
  BY DEF SocketInv, Ws!TypeOK, TasksPlaced, NobodyLost, Ws!Close, Ws!Teardown,
     Ws!CancelReconnect, Ws!CloseLinks, Ws!Goto, Ws!Sync, Ws!Task, Ws!Reconnecting, Ws!Done
<1>5. TakenDown'
  BY DEF SocketInv, Ws!TypeOK, ClosedHasNoTask, TasksPlaced, NobodyLost, TakenDown,
     Ws!Close, Ws!Teardown, Ws!CancelReconnect, Ws!CloseLinks, Ws!Goto, Ws!Sync, Ws!Task,
     Ws!Reconnecting, Ws!Done
<1> QED
  BY <1>1, <1>2, <1>3, <1>4, <1>5 DEF SocketInv

LEMMA CloseEndsKeeps == ASSUME SocketInv, Ws!CloseEnds PROVE SocketInv'
<1> USE NameAssumption, BoundAssumption DEF Ws!fields, Ws!locals, Ws!calls, Ws!world
<1>1. Ws!TypeOK'
  BY DEF SocketInv, Ws!TypeOK, Ws!CloseEnds, Ws!Goto, Ws!PC, Ws!Sync, Ws!Task, Ws!Helper,
     Ws!Done
<1>2. ClosedHasNoTask'
  BY DEF SocketInv, ClosedHasNoTask, Ws!CloseEnds, Ws!Goto
<1>3. TasksPlaced'
  BY DEF SocketInv, Ws!TypeOK, ClosedHasNoTask, TasksPlaced, Ws!CloseEnds, Ws!Goto, Ws!Sync,
     Ws!Task, Ws!Done
<1>4. NobodyLost'
  BY DEF SocketInv, Ws!TypeOK, TasksPlaced, NobodyLost, Ws!CloseEnds, Ws!Goto, Ws!Sync,
     Ws!Task, Ws!Done
<1>5. TakenDown'
  BY DEF SocketInv, Ws!TypeOK, ClosedHasNoTask, TasksPlaced, NobodyLost, TakenDown,
     Ws!CloseEnds, Ws!Goto, Ws!Sync, Ws!Task, Ws!Done
<1> QED
  BY <1>1, <1>2, <1>3, <1>4, <1>5 DEF SocketInv

LEMMA DropReaderKeeps == ASSUME SocketInv, NEW d \in Ws!Task, Ws!DropReader(d) PROVE SocketInv'
<1> USE NameAssumption, BoundAssumption DEF Ws!fields, Ws!locals, Ws!calls, Ws!world
<1>0. /\ current["reader"] \in Ws!Helper \cup {nothing} /\ socket \in Socket \cup {nothing}
  BY DEF SocketInv, Ws!TypeOK
<1>a. /\ current' \in [{"reader", "keep"} -> Ws!Helper \cup {nothing}] /\ ws' \in [Ws!Task -> Socket \cup {nothing}]
      /\ waits' \in [Ws!Task -> Ws!Helper \cup Reconnect \cup {nothing}] /\ step' \in [Ws!Task -> Ws!PC]
  BY <1>0 DEF SocketInv, Ws!TypeOK, Ws!DropReader, Ws!Stop, Ws!Goto, Ws!PC, Ws!Sync
<1>b. helper' \in [Ws!Helper -> {"none", "run", "cancelled"}]
  BY <1>0 DEF SocketInv, Ws!TypeOK, Ws!DropReader, Ws!Stop, Ws!Cancel, Ws!Done
<1>1. Ws!TypeOK'
  BY <1>a, <1>b DEF SocketInv, Ws!TypeOK, Ws!DropReader, Ws!Stop
<1>2. ClosedHasNoTask'
  BY DEF SocketInv, ClosedHasNoTask, Ws!DropReader, Ws!Stop, Ws!At, Ws!Cancel, Ws!Done,
     Ws!Goto
<1>3. TasksPlaced'
  BY DEF SocketInv, Ws!TypeOK, ClosedHasNoTask, TasksPlaced, Ws!DropReader, Ws!Stop, Ws!At,
     Ws!Cancel, Ws!Done, Ws!Goto, Ws!Sync, Ws!Task
<1>4. NobodyLost'
  BY DEF SocketInv, Ws!TypeOK, TasksPlaced, NobodyLost, Ws!DropReader, Ws!Stop, Ws!At,
     Ws!Cancel, Ws!Done, Ws!Goto, Ws!Sync, Ws!Task
<1>5. TakenDown'
  BY DEF SocketInv, Ws!TypeOK, ClosedHasNoTask, TasksPlaced, NobodyLost, TakenDown,
     Ws!DropReader, Ws!Stop, Ws!At, Ws!Cancel, Ws!Done, Ws!Goto, Ws!Sync, Ws!Task
<1> QED
  BY <1>1, <1>2, <1>3, <1>4, <1>5 DEF SocketInv

LEMMA DropKeepKeeps == ASSUME SocketInv, NEW d \in Ws!Task, Ws!DropKeep(d) PROVE SocketInv'
<1> USE NameAssumption, BoundAssumption DEF Ws!fields, Ws!locals, Ws!calls, Ws!world
<1>0. current["keep"] \in Ws!Helper \cup {nothing}
  BY DEF SocketInv, Ws!TypeOK
<1>a. /\ current' \in [{"reader", "keep"} -> Ws!Helper \cup {nothing}]
      /\ waits' \in [Ws!Task -> Ws!Helper \cup Reconnect \cup {nothing}] /\ step' \in [Ws!Task -> Ws!PC]
  BY <1>0 DEF SocketInv, Ws!TypeOK, Ws!DropKeep, Ws!Stop, Ws!Goto, Ws!PC, Ws!Sync
<1>b. helper' \in [Ws!Helper -> {"none", "run", "cancelled"}]
  BY <1>0 DEF SocketInv, Ws!TypeOK, Ws!DropKeep, Ws!Stop, Ws!Cancel, Ws!Done
<1>1. Ws!TypeOK'
  BY <1>a, <1>b DEF SocketInv, Ws!TypeOK, Ws!DropKeep, Ws!Stop
<1>2. ClosedHasNoTask'
  BY DEF SocketInv, ClosedHasNoTask, Ws!DropKeep, Ws!Stop, Ws!At, Ws!Cancel, Ws!Done,
     Ws!Goto
<1>3. TasksPlaced'
  BY DEF SocketInv, Ws!TypeOK, ClosedHasNoTask, TasksPlaced, Ws!DropKeep, Ws!Stop, Ws!At,
     Ws!Cancel, Ws!Done, Ws!Goto, Ws!Sync, Ws!Task
<1>4. NobodyLost'
  BY DEF SocketInv, Ws!TypeOK, TasksPlaced, NobodyLost, Ws!DropKeep, Ws!Stop, Ws!At,
     Ws!Cancel, Ws!Done, Ws!Goto, Ws!Sync, Ws!Task
<1>5. TakenDown'
  BY DEF SocketInv, Ws!TypeOK, ClosedHasNoTask, TasksPlaced, NobodyLost, TakenDown,
     Ws!DropKeep, Ws!Stop, Ws!At, Ws!Cancel, Ws!Done, Ws!Goto, Ws!Sync, Ws!Task
<1> QED
  BY <1>1, <1>2, <1>3, <1>4, <1>5 DEF SocketInv

LEMMA DropWsKeeps == ASSUME SocketInv, NEW d \in Ws!Task, Ws!DropWs(d) PROVE SocketInv'
<1> USE NameAssumption, BoundAssumption DEF Ws!fields, Ws!locals, Ws!calls, Ws!world
<1>1. Ws!TypeOK'
  BY DEF SocketInv, Ws!TypeOK, Ws!DropWs, Ws!At, Ws!Goto, Ws!PC, Ws!Sync, Ws!Task,
     Ws!Helper, Ws!Done
<1>2. ClosedHasNoTask'
  BY DEF SocketInv, ClosedHasNoTask, Ws!DropWs, Ws!At, Ws!Goto
<1>3. TasksPlaced'
  BY DEF SocketInv, Ws!TypeOK, ClosedHasNoTask, TasksPlaced, Ws!DropWs, Ws!At, Ws!Goto,
     Ws!Sync, Ws!Task, Ws!Done
<1>4. NobodyLost'
  BY DEF SocketInv, Ws!TypeOK, TasksPlaced, NobodyLost, Ws!DropWs, Ws!At, Ws!Goto, Ws!Sync,
     Ws!Task, Ws!Done
<1>5. TakenDown'
  BY DEF SocketInv, Ws!TypeOK, ClosedHasNoTask, TasksPlaced, NobodyLost, TakenDown,
     Ws!DropWs, Ws!At, Ws!Goto, Ws!Sync, Ws!Task, Ws!Done
<1> QED
  BY <1>1, <1>2, <1>3, <1>4, <1>5 DEF SocketInv

LEMMA WsClosedKeeps == ASSUME SocketInv, NEW d \in Ws!Task, Ws!WsClosed(d) PROVE SocketInv'
<1> USE NameAssumption, BoundAssumption DEF Ws!fields, Ws!locals, Ws!calls, Ws!world
<1>1. Ws!TypeOK'
  BY DEF SocketInv, Ws!TypeOK, Ws!WsClosed, Ws!CloseLinks, Ws!Goto, Ws!PC, Ws!Sync, Ws!Task,
     Ws!Helper, Ws!Done
<1>2. ClosedHasNoTask'
  BY DEF SocketInv, ClosedHasNoTask, Ws!WsClosed, Ws!CloseLinks, Ws!Goto
<1>3. TasksPlaced'
  BY DEF SocketInv, Ws!TypeOK, ClosedHasNoTask, TasksPlaced, Ws!WsClosed, Ws!CloseLinks,
     Ws!Goto, Ws!Sync, Ws!Task, Ws!Done
<1>4. NobodyLost'
  BY DEF SocketInv, Ws!TypeOK, TasksPlaced, NobodyLost, Ws!WsClosed, Ws!CloseLinks, Ws!Goto,
     Ws!Sync, Ws!Task, Ws!Done
<1>5. TakenDown'
  BY DEF SocketInv, Ws!TypeOK, ClosedHasNoTask, TasksPlaced, NobodyLost, TakenDown,
     Ws!WsClosed, Ws!CloseLinks, Ws!Goto, Ws!Sync, Ws!Task, Ws!Done
<1> QED
  BY <1>1, <1>2, <1>3, <1>4, <1>5 DEF SocketInv

LEMMA ReconnectStartsKeeps == ASSUME SocketInv, NEW r \in Reconnect, Ws!ReconnectStarts(r) PROVE SocketInv'
<1> USE NameAssumption, BoundAssumption DEF Ws!fields, Ws!locals, Ws!calls, Ws!world
<1>1. Ws!TypeOK'
  BY DEF SocketInv, Ws!TypeOK, Ws!ReconnectStarts, Ws!Goto, Ws!PC, Ws!Sync, Ws!Task,
     Ws!Helper, Ws!Done
<1>2. ClosedHasNoTask'
  BY DEF SocketInv, ClosedHasNoTask, Ws!ReconnectStarts, Ws!Goto
<1>3. TasksPlaced'
  BY DEF SocketInv, Ws!TypeOK, ClosedHasNoTask, TasksPlaced, Ws!ReconnectStarts, Ws!Goto,
     Ws!Sync, Ws!Task, Ws!Done
<1>4. NobodyLost'
  BY DEF SocketInv, Ws!TypeOK, TasksPlaced, NobodyLost, Ws!ReconnectStarts, Ws!Goto,
     Ws!Sync, Ws!Task, Ws!Done
<1>5. TakenDown'
  BY DEF SocketInv, Ws!TypeOK, ClosedHasNoTask, TasksPlaced, NobodyLost, TakenDown,
     Ws!ReconnectStarts, Ws!Goto, Ws!Sync, Ws!Task, Ws!Done
<1> QED
  BY <1>1, <1>2, <1>3, <1>4, <1>5 DEF SocketInv

LEMMA ReconnectDroppedKeeps == ASSUME SocketInv, NEW r \in Reconnect, Ws!ReconnectDropped(r) PROVE SocketInv'
<1> USE NameAssumption, BoundAssumption DEF Ws!fields, Ws!locals, Ws!calls, Ws!world
<1>1. Ws!TypeOK'
  BY DEF SocketInv, Ws!TypeOK, Ws!ReconnectDropped, Ws!Retry, Ws!Goto, Ws!PC, Ws!Sync,
     Ws!Task, Ws!Helper, Ws!Done
<1>2. ClosedHasNoTask'
  BY DEF SocketInv, ClosedHasNoTask, Ws!ReconnectDropped, Ws!Retry, Ws!Goto
<1>3. TasksPlaced'
  BY DEF SocketInv, Ws!TypeOK, ClosedHasNoTask, TasksPlaced, Ws!ReconnectDropped, Ws!Retry,
     Ws!Goto, Ws!Sync, Ws!Task, Ws!Done
<1>4. NobodyLost'
  BY DEF SocketInv, Ws!TypeOK, TasksPlaced, NobodyLost, Ws!ReconnectDropped, Ws!Retry,
     Ws!Goto, Ws!Sync, Ws!Task, Ws!Done
<1>5. TakenDown'
  BY DEF SocketInv, Ws!TypeOK, ClosedHasNoTask, TasksPlaced, NobodyLost, TakenDown,
     Ws!ReconnectDropped, Ws!Retry, Ws!Goto, Ws!Sync, Ws!Task, Ws!Done
<1> QED
  BY <1>1, <1>2, <1>3, <1>4, <1>5 DEF SocketInv

LEMMA ReconnectWakesKeeps == ASSUME SocketInv, NEW r \in Reconnect, Ws!ReconnectWakes(r) PROVE SocketInv'
<1> USE NameAssumption, BoundAssumption DEF Ws!fields, Ws!locals, Ws!calls, Ws!world
<1>1. Ws!TypeOK'
  BY DEF SocketInv, Ws!TypeOK, Ws!ReconnectWakes, Ws!Goto, Ws!PC, Ws!Sync, Ws!Task,
     Ws!Helper, Ws!Done
<1>2. ClosedHasNoTask'
  BY DEF SocketInv, ClosedHasNoTask, Ws!ReconnectWakes, Ws!Goto
<1>3. TasksPlaced'
  BY DEF SocketInv, Ws!TypeOK, ClosedHasNoTask, TasksPlaced, Ws!ReconnectWakes, Ws!Goto,
     Ws!Sync, Ws!Task, Ws!Done
<1>4. NobodyLost'
  BY DEF SocketInv, Ws!TypeOK, TasksPlaced, NobodyLost, Ws!ReconnectWakes, Ws!Goto, Ws!Sync,
     Ws!Task, Ws!Done
<1>5. TakenDown'
  BY DEF SocketInv, Ws!TypeOK, ClosedHasNoTask, TasksPlaced, NobodyLost, TakenDown,
     Ws!ReconnectWakes, Ws!Goto, Ws!Sync, Ws!Task, Ws!Done
<1> QED
  BY <1>1, <1>2, <1>3, <1>4, <1>5 DEF SocketInv

LEMMA ReconnectOkKeeps == ASSUME SocketInv, NEW r \in Reconnect, Ws!ReconnectOk(r) PROVE SocketInv'
<1> USE NameAssumption, BoundAssumption DEF Ws!fields, Ws!locals, Ws!calls, Ws!world
<1>1. Ws!TypeOK'
  BY DEF SocketInv, Ws!TypeOK, Ws!ReconnectOk, Ws!StartSocket, Ws!FreeSocket, Ws!Announce,
     Ws!Goto, Ws!PC, Ws!Sync, Ws!Task, Ws!Helper, Ws!Done
<1>2. ClosedHasNoTask'
  BY DEF SocketInv, ClosedHasNoTask, Ws!ReconnectOk, Ws!StartSocket, Ws!FreeSocket,
     Ws!Announce, Ws!Goto
<1>3. TasksPlaced'
  BY DEF SocketInv, Ws!TypeOK, ClosedHasNoTask, TasksPlaced, Ws!ReconnectOk, Ws!StartSocket,
     Ws!FreeSocket, Ws!Announce, Ws!Goto, Ws!Sync, Ws!Task, Ws!Done
<1>4. NobodyLost'
  BY DEF SocketInv, Ws!TypeOK, TasksPlaced, NobodyLost, Ws!ReconnectOk, Ws!StartSocket,
     Ws!FreeSocket, Ws!Announce, Ws!Goto, Ws!Sync, Ws!Task, Ws!Done
<1>5. TakenDown'
  <2>1. /\ step' = [step EXCEPT ![r] = "idle"] /\ closed' = closed /\ r \in Ws!Task /\ step[r] = "open"
        /\ step \in [Ws!Task -> Ws!PC]
    BY DEF SocketInv, Ws!TypeOK, Ws!ReconnectOk, Ws!Goto, Ws!Task
  <2>2. closed => \E d \in Ws!Task : step[d] = "reconnect" /\ d \notin Reconnect
    BY <2>1 DEF SocketInv, ClosedHasNoTask, NobodyLost, TasksPlaced
  <2>3. \A d \in Ws!Task \ {r} : step'[d] = step[d]
    BY <2>1
  <2> QED  BY <2>1, <2>2, <2>3 DEF TakenDown
<1> QED
  BY <1>1, <1>2, <1>3, <1>4, <1>5 DEF SocketInv

LEMMA ReconnectFailsKeeps == ASSUME SocketInv, NEW r \in Reconnect, Ws!ReconnectFails(r) PROVE SocketInv'
<1> USE NameAssumption, BoundAssumption DEF Ws!fields, Ws!locals, Ws!calls, Ws!world
<1>1. Ws!TypeOK'
  BY DEF SocketInv, Ws!TypeOK, Ws!ReconnectFails, Ws!Retry, Ws!Goto, Ws!Spend, Ws!PC,
     Ws!Sync, Ws!Task, Ws!Helper, Ws!Done
<1>2. ClosedHasNoTask'
  BY DEF SocketInv, ClosedHasNoTask, Ws!ReconnectFails, Ws!Retry, Ws!Goto
<1>3. TasksPlaced'
  BY DEF SocketInv, Ws!TypeOK, ClosedHasNoTask, TasksPlaced, Ws!ReconnectFails, Ws!Retry,
     Ws!Goto, Ws!Sync, Ws!Task, Ws!Done
<1>4. NobodyLost'
  BY DEF SocketInv, Ws!TypeOK, TasksPlaced, NobodyLost, Ws!ReconnectFails, Ws!Retry,
     Ws!Goto, Ws!Sync, Ws!Task, Ws!Done
<1>5. TakenDown'
  BY DEF SocketInv, Ws!TypeOK, ClosedHasNoTask, TasksPlaced, NobodyLost, TakenDown,
     Ws!ReconnectFails, Ws!Retry, Ws!Goto, Ws!Sync, Ws!Task, Ws!Done
<1> QED
  BY <1>1, <1>2, <1>3, <1>4, <1>5 DEF SocketInv

LEMMA ReconnectShutKeeps == ASSUME SocketInv, NEW r \in Reconnect, Ws!ReconnectShut(r) PROVE SocketInv'
<1> USE NameAssumption, BoundAssumption DEF Ws!fields, Ws!locals, Ws!calls, Ws!world
<1>1. Ws!TypeOK'
  BY DEF SocketInv, Ws!TypeOK, Ws!ReconnectShut, Ws!Goto, Ws!PC, Ws!Sync, Ws!Task,
     Ws!Helper, Ws!Done
<1>2. ClosedHasNoTask'
  BY DEF SocketInv, ClosedHasNoTask, Ws!ReconnectShut, Ws!Goto
<1>3. TasksPlaced'
  BY DEF SocketInv, Ws!TypeOK, ClosedHasNoTask, TasksPlaced, Ws!ReconnectShut, Ws!Goto,
     Ws!Sync, Ws!Task, Ws!Done
<1>4. NobodyLost'
  BY DEF SocketInv, Ws!TypeOK, TasksPlaced, NobodyLost, Ws!ReconnectShut, Ws!Goto, Ws!Sync,
     Ws!Task, Ws!Done
<1>5. TakenDown'
  BY DEF SocketInv, Ws!TypeOK, ClosedHasNoTask, TasksPlaced, NobodyLost, TakenDown,
     Ws!ReconnectShut, Ws!Goto, Ws!Sync, Ws!Task, Ws!Done
<1> QED
  BY <1>1, <1>2, <1>3, <1>4, <1>5 DEF SocketInv

LEMMA ReaderFailsKeeps == ASSUME SocketInv, NEW s \in Socket, Ws!ReaderFails(s) PROVE SocketInv'
<1> USE NameAssumption, BoundAssumption DEF Ws!fields, Ws!locals, Ws!calls, Ws!world
<1>1. Ws!TypeOK'
  BY DEF SocketInv, Ws!TypeOK, Ws!ReaderFails, Ws!Ends, Ws!ScheduleReconnect,
     Ws!FreeReconnect, Ws!PC, Ws!Sync, Ws!Task, Ws!Helper, Ws!Reconnecting, Ws!Done
<1>2. ClosedHasNoTask'
  BY DEF SocketInv, ClosedHasNoTask, Ws!ReaderFails, Ws!Ends, Ws!ScheduleReconnect,
     Ws!FreeReconnect
<1>3. TasksPlaced'
  BY DEF SocketInv, Ws!TypeOK, ClosedHasNoTask, TasksPlaced, Ws!ReaderFails, Ws!Ends,
     Ws!ScheduleReconnect, Ws!FreeReconnect, Ws!Sync, Ws!Task, Ws!Reconnecting, Ws!Done
<1>4. NobodyLost'
  BY DEF SocketInv, Ws!TypeOK, TasksPlaced, NobodyLost, Ws!ReaderFails, Ws!Ends,
     Ws!ScheduleReconnect, Ws!FreeReconnect, Ws!Sync, Ws!Task, Ws!Reconnecting, Ws!Done
<1>5. TakenDown'
  BY DEF SocketInv, Ws!TypeOK, ClosedHasNoTask, TasksPlaced, NobodyLost, TakenDown,
     Ws!ReaderFails, Ws!Ends, Ws!ScheduleReconnect, Ws!FreeReconnect, Ws!Sync, Ws!Task,
     Ws!Reconnecting, Ws!Done
<1> QED
  BY <1>1, <1>2, <1>3, <1>4, <1>5 DEF SocketInv

LEMMA ReaderLeavesKeeps == ASSUME SocketInv, NEW s \in Socket, Ws!ReaderLeaves(s) PROVE SocketInv'
<1> USE NameAssumption, BoundAssumption DEF Ws!fields, Ws!locals, Ws!calls, Ws!world
<1>1. Ws!TypeOK'
  BY DEF SocketInv, Ws!TypeOK, Ws!ReaderLeaves, Ws!Ends, Ws!PC, Ws!Sync, Ws!Task, Ws!Helper,
     Ws!Done
<1>2. ClosedHasNoTask'
  BY DEF SocketInv, ClosedHasNoTask, Ws!ReaderLeaves, Ws!Ends
<1>3. TasksPlaced'
  BY DEF SocketInv, Ws!TypeOK, ClosedHasNoTask, TasksPlaced, Ws!ReaderLeaves, Ws!Ends,
     Ws!Sync, Ws!Task, Ws!Done
<1>4. NobodyLost'
  BY DEF SocketInv, Ws!TypeOK, TasksPlaced, NobodyLost, Ws!ReaderLeaves, Ws!Ends, Ws!Sync,
     Ws!Task, Ws!Done
<1>5. TakenDown'
  BY DEF SocketInv, Ws!TypeOK, ClosedHasNoTask, TasksPlaced, NobodyLost, TakenDown,
     Ws!ReaderLeaves, Ws!Ends, Ws!Sync, Ws!Task, Ws!Done
<1> QED
  BY <1>1, <1>2, <1>3, <1>4, <1>5 DEF SocketInv

LEMMA KeepFailsKeeps == ASSUME SocketInv, NEW s \in Socket, Ws!KeepFails(s) PROVE SocketInv'
<1> USE NameAssumption, BoundAssumption DEF Ws!fields, Ws!locals, Ws!calls, Ws!world
<1>1. Ws!TypeOK'
  BY DEF SocketInv, Ws!TypeOK, Ws!KeepFails, Ws!Ends, Ws!ScheduleReconnect,
     Ws!FreeReconnect, Ws!PC, Ws!Sync, Ws!Task, Ws!Helper, Ws!Reconnecting, Ws!Done
<1>2. ClosedHasNoTask'
  BY DEF SocketInv, ClosedHasNoTask, Ws!KeepFails, Ws!Ends, Ws!ScheduleReconnect,
     Ws!FreeReconnect
<1>3. TasksPlaced'
  BY DEF SocketInv, Ws!TypeOK, ClosedHasNoTask, TasksPlaced, Ws!KeepFails, Ws!Ends,
     Ws!ScheduleReconnect, Ws!FreeReconnect, Ws!Sync, Ws!Task, Ws!Reconnecting, Ws!Done
<1>4. NobodyLost'
  BY DEF SocketInv, Ws!TypeOK, TasksPlaced, NobodyLost, Ws!KeepFails, Ws!Ends,
     Ws!ScheduleReconnect, Ws!FreeReconnect, Ws!Sync, Ws!Task, Ws!Reconnecting, Ws!Done
<1>5. TakenDown'
  BY DEF SocketInv, Ws!TypeOK, ClosedHasNoTask, TasksPlaced, NobodyLost, TakenDown,
     Ws!KeepFails, Ws!Ends, Ws!ScheduleReconnect, Ws!FreeReconnect, Ws!Sync, Ws!Task,
     Ws!Reconnecting, Ws!Done
<1> QED
  BY <1>1, <1>2, <1>3, <1>4, <1>5 DEF SocketInv

LEMMA LoseKeeps == ASSUME SocketInv, NEW s \in Socket, Ws!Lose(s) PROVE SocketInv'
<1> USE NameAssumption, BoundAssumption DEF Ws!fields, Ws!locals, Ws!calls, Ws!world
<1>1. Ws!TypeOK'
  BY DEF SocketInv, Ws!TypeOK, Ws!Lose, Ws!Spend, Ws!PC, Ws!Sync, Ws!Task, Ws!Helper,
     Ws!Done
<1>2. ClosedHasNoTask'
  BY DEF SocketInv, ClosedHasNoTask, Ws!Lose
<1>3. TasksPlaced'
  BY DEF SocketInv, Ws!TypeOK, ClosedHasNoTask, TasksPlaced, Ws!Lose, Ws!Sync, Ws!Task,
     Ws!Done
<1>4. NobodyLost'
  BY DEF SocketInv, Ws!TypeOK, TasksPlaced, NobodyLost, Ws!Lose, Ws!Sync, Ws!Task, Ws!Done
<1>5. TakenDown'
  BY DEF SocketInv, Ws!TypeOK, ClosedHasNoTask, TasksPlaced, NobodyLost, TakenDown, Ws!Lose,
     Ws!Sync, Ws!Task, Ws!Done
<1> QED
  BY <1>1, <1>2, <1>3, <1>4, <1>5 DEF SocketInv

LEMMA HelperStopsKeeps == ASSUME SocketInv, NEW h \in Ws!Helper, Ws!HelperStops(h) PROVE SocketInv'
<1> USE NameAssumption, BoundAssumption DEF Ws!fields, Ws!locals, Ws!calls, Ws!world
<1>1. Ws!TypeOK'
  BY DEF SocketInv, Ws!TypeOK, Ws!HelperStops, Ws!Ends, Ws!PC, Ws!Sync, Ws!Task, Ws!Helper,
     Ws!Done
<1>2. ClosedHasNoTask'
  BY DEF SocketInv, ClosedHasNoTask, Ws!HelperStops, Ws!Ends
<1>3. TasksPlaced'
  BY DEF SocketInv, Ws!TypeOK, ClosedHasNoTask, TasksPlaced, Ws!HelperStops, Ws!Ends,
     Ws!Sync, Ws!Task, Ws!Done
<1>4. NobodyLost'
  BY DEF SocketInv, Ws!TypeOK, TasksPlaced, NobodyLost, Ws!HelperStops, Ws!Ends, Ws!Sync,
     Ws!Task, Ws!Done
<1>5. TakenDown'
  BY DEF SocketInv, Ws!TypeOK, ClosedHasNoTask, TasksPlaced, NobodyLost, TakenDown,
     Ws!HelperStops, Ws!Ends, Ws!Sync, Ws!Task, Ws!Done
<1> QED
  BY <1>1, <1>2, <1>3, <1>4, <1>5 DEF SocketInv

-----------------------------------------------------------------------------
(* Hence they always hold.                                                 *)
LEMMA SocketInit == Ws!Init => SocketInv
<1> USE NameAssumption, BoundAssumption
<1>1. Ws!Init => spent \in [call : 0..MaxCalls, loss : 0..MaxLosses, fail : 0..MaxFails, cancel : 0..MaxCancels]
  BY DEF Ws!Init
<1>2. Ws!Init => step \in [Ws!Task -> Ws!PC] /\ {closed, connected, raised, disposed} \subseteq BOOLEAN
  BY DEF Ws!Init, Ws!PC
<1>3. Ws!Init => Ws!TypeOK
  BY <1>1, <1>2 DEF Ws!Init, Ws!TypeOK
<1>4. Ws!Init => ClosedHasNoTask /\ TasksPlaced /\ NobodyLost /\ TakenDown
  BY DEF Ws!Init, ClosedHasNoTask, TasksPlaced, NobodyLost, TakenDown, Ws!Task
<1> QED
  BY <1>3, <1>4 DEF SocketInv

LEMMA SocketNext == SocketInv /\ [Ws!Next]_(Ws!vars) => SocketInv'
<1> SUFFICES ASSUME SocketInv, [Ws!Next]_(Ws!vars) PROVE SocketInv'
  OBVIOUS
<1>1. ASSUME NEW d \in Ws!Task, Ws!Drop(d) PROVE SocketInv'
  BY <1>1, DropReaderKeeps, DropKeepKeeps, DropWsKeeps, WsClosedKeeps DEF Ws!Drop
<1>2. CASE \E c \in Caller : Ws!Connect(c) \/ Ws!CallStep(c) \/ Ws!CancelConnect(c)
  BY <1>1, <1>2, ConnectKeeps, EnterKeeps, OpenCallKeeps, ConnectOkKeeps, ConnectFailsKeeps,
     ConnectShutKeeps, CancelConnectKeeps DEF Ws!CallStep, Ws!Task
<1>3. CASE Ws!Close \/ Ws!CloseStep
  BY <1>1, <1>3, CloseKeeps, CloseEndsKeeps DEF Ws!CloseStep, Ws!Task
<1>4. CASE \E r \in Reconnect : Ws!ReconnectStep(r)
  BY <1>1, <1>4, ReconnectStartsKeeps, ReconnectDroppedKeeps, ReconnectWakesKeeps,
     ReconnectOkKeeps, ReconnectFailsKeeps, ReconnectShutKeeps DEF Ws!ReconnectStep, Ws!Task
<1>5. CASE \E s \in Socket : Ws!ReaderFails(s) \/ Ws!ReaderLeaves(s) \/ Ws!KeepFails(s) \/ Ws!Lose(s)
  BY <1>5, ReaderFailsKeeps, ReaderLeavesKeeps, KeepFailsKeeps, LoseKeeps
<1>6. CASE \E h \in Ws!Helper : Ws!HelperStops(h)
  BY <1>6, HelperStopsKeeps
<1>7. CASE UNCHANGED Ws!vars
  BY <1>7 DEF Ws!vars, Ws!fields, Ws!locals, Ws!calls, Ws!world, SocketInv, Ws!TypeOK,
     ClosedHasNoTask, TasksPlaced, NobodyLost, TakenDown
<1> QED
  BY <1>2, <1>3, <1>4, <1>5, <1>6, <1>7 DEF Ws!Next

LEMMA SocketAlways == Ws!Spec => []SocketInv
  BY SocketInit, SocketNext, PTL DEF Ws!Spec

-----------------------------------------------------------------------------
(* Every variable of the transport keeps its type, for any number of       *)
(* callers and whatever is lost, fails or is cancelled.                    *)
THEOREM SocketTypeCorrect == Ws!Spec => []Ws!TypeOK
<1>1. SocketInv => Ws!TypeOK
  BY DEF SocketInv
<1> QED
  BY <1>1, SocketAlways, PTL

(* After close(), once the calls it met have returned, no reconnect task   *)
(* goes on and no websocket is held: a task that is still at work is       *)
(* awaited by one of those calls, and so is whoever will take down the     *)
(* websocket that it may open.                                             *)
THEOREM CloseIsQuiet == Ws!Spec => []ClosedIsQuiet
<1>1. SocketInv => ClosedIsQuiet
  BY NameAssumption DEF SocketInv, ClosedHasNoTask, TasksPlaced, NobodyLost, TakenDown,
     ClosedIsQuiet, Ws!ClosedIsQuiet, Ws!Busy, Ws!Task
<1> QED
  BY <1>1, SocketAlways, PTL
=============================================================================
