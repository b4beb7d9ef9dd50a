---------------------------- MODULE UpdatesProofs ----------------------------
(***************************************************************************)
(* Updates for any chats, handlers, groups, listeners and bounds: its      *)
(* types, that every handler which stays registered is reached, and that   *)
(* no message is dispatched as new twice.                                  *)
(*                                                                         *)
(* The dispatcher's walk and the three listeners' positions have an        *)
(* invariant each (WalkInv, OnceInv); both rest on what the sorted copies  *)
(* of a set or of a group contain (AscendingLists, WithinKeeps) and on     *)
(* what an answer unfolds to (FlatFresh, PollFresh).                       *)
(***************************************************************************)
EXTENDS Updates, FiniteSetTheorems, WellFoundedInduction, TLAPS

-----------------------------------------------------------------------------
(* Sorting *)

(* The least of a set of numbers, hence induction. *)
LEMMA LeastExists == ASSUME NEW S \in SUBSET Nat, S # {} PROVE \E n \in S : \A m \in S : n <= m
<1> DEFINE R == {ss \in Nat \X Nat : ss[1] < ss[2]}
<1>1. IsWellFoundedOn(R, Nat)
  BY NatLessThanWellFounded, Zenon DEF OpToRel
<1>2. PICK x \in S : \A y \in S : ~ (<<y, x>> \in R)
  BY <1>1, WFMin
<1>3. \A y \in S : <<y, x>> \in Nat \X Nat
  OBVIOUS
<1>4. \A y \in S : ~(y < x)
  BY <1>2, <1>3
<1> QED
  BY <1>4

(* Finite sets of one size, and what removing an element leaves. *)
Sized(n) == {S \in SUBSET Int : IsFiniteSet(S) /\ Cardinality(S) = n}

LEMMA SizedLess ==
    ASSUME NEW n \in Nat, NEW S \in Sized(n), NEW x \in S
    PROVE  n > 0 /\ n - 1 \in Nat /\ S \ {x} \in Sized(n - 1)
<1>1. IsFiniteSet(S \ {x}) /\ Cardinality(S \ {x}) = n - 1
  BY FS_RemoveElement DEF Sized
<1>2. Cardinality(S \ {x}) \in Nat
  BY <1>1, FS_CardinalityType
<1> QED
  BY <1>1, <1>2 DEF Sized

(* A finite set of numbers that is not empty has a greatest member. *)
LEMMA GreatestExists ==
    ASSUME NEW S \in SUBSET Int, IsFiniteSet(S), S # {}
    PROVE  \E x \in S : \A y \in S : y <= x
<1> DEFINE Greatest(T, x) == x \in T /\ \A y \in T : y <= x
           Bad == {n \in Nat : \E T \in Sized(n) : T # {} /\ ~\E x \in T : Greatest(T, x)}
<1>1. Bad = {}
  <2> SUFFICES ASSUME Bad # {} PROVE FALSE
    OBVIOUS
  <2>1. PICK n \in Bad : \A m \in Bad : n <= m
    BY LeastExists
  <2>2. PICK T \in Sized(n) : T # {} /\ ~\E x \in T : Greatest(T, x)
    BY <2>1
  <2>3. PICK z \in T : TRUE
    BY <2>2
  <2>4. n - 1 \in Nat /\ n - 1 \notin Bad /\ T \ {z} \in Sized(n - 1)
    <3>1. n \in Nat
      BY <2>1
    <3>2. n - 1 \in Nat /\ T \ {z} \in Sized(n - 1)
      BY <3>1, SizedLess
    <3> HIDE DEF Bad
    <3>3. n - 1 \notin Bad
      BY <2>1, <3>1
    <3> QED
      BY <3>2, <3>3
  <2>5. CASE T \ {z} = {}
    BY <2>2, <2>3, <2>5 DEF Sized
  <2>6. CASE T \ {z} # {}
    <3>1. PICK x \in T \ {z} : Greatest(T \ {z}, x)
      BY <2>4, <2>6
    <3>2. T \subseteq Int
      BY DEF Sized
    <3>3. Greatest(T, x) \/ Greatest(T, z)
      BY <3>1, <3>2
    <3> QED
      BY <2>2, <3>1, <3>3
  <2> QED
    BY <2>5, <2>6
<1>2. Cardinality(S) \in Nat /\ S \in Sized(Cardinality(S))
  BY FS_CardinalityType DEF Sized
<1> QED
  BY <1>1, <1>2

Increasing(s) == \A j, k \in DOMAIN s : j < k => s[j] < s[k]

LEMMA SortExists ==
    ASSUME NEW S \in SUBSET Int, IsFiniteSet(S)
    PROVE  \E s \in [1 .. Cardinality(S) -> S] : Increasing(s)
<1> DEFINE Bad == {n \in Nat : \E T \in Sized(n) : ~\E s \in [1 .. n -> T] : Increasing(s)}
<1>1. Bad = {}
  <2> SUFFICES ASSUME Bad # {} PROVE FALSE
    OBVIOUS
  <2>1. PICK n \in Bad : \A m \in Bad : n <= m
    BY LeastExists
  <2>2. PICK T \in Sized(n) : ~\E s \in [1 .. n -> T] : Increasing(s)
    BY <2>1
  <2>3. T \in SUBSET Int /\ IsFiniteSet(T) /\ Cardinality(T) = n /\ n \in Nat
    BY <2>1, <2>2 DEF Sized
  <2>4. CASE T = {}
    <3>1. n = 0
      BY <2>3, <2>4, FS_EmptySet
    <3>2. [k \in {} |-> 0] \in [1 .. n -> T] /\ Increasing([k \in {} |-> 0])
      BY <3>1 DEF Increasing
    <3> QED
      BY <2>2, <3>2
  <2>5. CASE T # {}
    <3>1. PICK z \in T : \A y \in T : y <= z
      BY <2>3, <2>5, GreatestExists
    <3>2. n > 0 /\ n - 1 \in Nat /\ n - 1 \notin Bad /\ T \ {z} \in Sized(n - 1)
      BY <2>1, SizedLess
    <3>3. PICK t \in [1 .. n - 1 -> T \ {z}] : Increasing(t)
      BY <3>2
    <3> DEFINE s == [k \in 1 .. n |-> IF k = n THEN z ELSE t[k]]
    <3>4. \A k \in 1 .. n - 1 : t[k] \in T /\ t[k] < z
      <4> SUFFICES ASSUME NEW k \in 1 .. n - 1 PROVE t[k] \in T /\ t[k] < z
        OBVIOUS
      <4>1. t[k] \in T \ {z}
        BY <3>3
      <4>2. t[k] \in Int /\ z \in Int /\ t[k] <= z /\ t[k] # z
        BY <2>3, <3>1, <4>1
      <4> QED
        BY <4>1, <4>2
    <3>5. s \in [1 .. n -> T]
      BY <2>3, <3>4
    <3>6. \A j, k \in 1 .. n : j < k => s[j] < s[k]
      BY <2>3, <3>3, <3>4 DEF Increasing
    <3> QED
      BY <2>2, <3>5, <3>6 DEF Increasing
  <2> QED
    BY <2>4, <2>5
<1>2. Cardinality(S) \in Nat /\ S \in Sized(Cardinality(S))
  BY FS_CardinalityType DEF Sized
<1> QED
  BY <1>1, <1>2

(* Ascending lists a finite set of numbers, each member once. *)
LEMMA AscendingLists ==
    ASSUME NEW S \in SUBSET Int, IsFiniteSet(S)
    PROVE  /\ Cardinality(S) \in Nat
           /\ Ascending(S) \in [1 .. Cardinality(S) -> S]
           /\ \A j, k \in 1 .. Cardinality(S) : Ascending(S)[j] = Ascending(S)[k] => j = k
           /\ \A x \in S : \E k \in 1 .. Cardinality(S) : Ascending(S)[k] = x
<1> DEFINE n == Cardinality(S)
           s == Ascending(S)
<1>1. n \in Nat
  BY FS_CardinalityType
<1>2. s \in [1 .. n -> S] /\ Increasing(s)
  BY SortExists DEF Ascending, Increasing
<1> HIDE DEF n, s
<1>3. \A j, k \in 1 .. n : s[j] = s[k] => j = k
  <2> SUFFICES ASSUME NEW j \in 1 .. n, NEW k \in 1 .. n, s[j] = s[k] PROVE j = k
    OBVIOUS
  <2>1. s[j] \in Int /\ s[k] \in Int /\ DOMAIN s = 1 .. n
    BY <1>2
  <2>2. (j < k => s[j] < s[k]) /\ (k < j => s[k] < s[j])
    BY <1>2, <2>1 DEF Increasing
  <2> QED
    BY <1>1, <2>1, <2>2
<1>4. s \in Injection(1 .. n, S)
  BY <1>2, <1>3 DEF Injection, IsInjective
<1>5. Cardinality(1 .. n) = n
  BY <1>1, FS_Interval
<1>6. s \in Surjection(1 .. n, S)
  BY <1>4, <1>5, FS_Injection DEF n
<1>7. \A x \in S : \E k \in 1 .. n : s[k] = x
  BY <1>6 DEF Surjection
<1> QED
  BY <1>1, <1>2, <1>3, <1>7 DEF n, s

(* Within keeps the elements that are in the set, and no others. *)
LEMMA WithinKeeps ==
    ASSUME NEW X, NEW s \in Seq(X), NEW H
    PROVE  Within(s, H) \in Seq(X) /\ ToSet(Within(s, H)) = ToSet(s) \cap H
<1> DEFINE places == {k \in DOMAIN s : s[k] \in H}
           n == Cardinality(places)
           t == Within(s, H)
<1>1. DOMAIN s = 1 .. Len(s) /\ Len(s) \in Nat
  OBVIOUS
<1>2. IsFiniteSet(places) /\ places \in SUBSET Int
  <2>1. IsFiniteSet(1 .. Len(s)) /\ places \in SUBSET (1 .. Len(s))
    BY <1>1, FS_Interval
  <2> QED
    BY <2>1, FS_Subset
<1>3. /\ n \in Nat /\ Ascending(places) \in [1 .. n -> places]
      /\ \A x \in places : \E k \in 1 .. n : Ascending(places)[k] = x
  BY <1>2, AscendingLists
<1>4. t = [k \in 1 .. n |-> s[Ascending(places)[k]]]
  BY DEF Within
<1> HIDE DEF n, t
<1>5. \A k \in 1 .. n : s[Ascending(places)[k]] \in X \cap H
  BY <1>1, <1>3
<1>6. t \in Seq(X) /\ DOMAIN t = 1 .. n
  BY <1>3, <1>4, <1>5
<1>7. ToSet(t) \subseteq ToSet(s) \cap H
  BY <1>1, <1>3, <1>4, <1>5, <1>6 DEF ToSet
<1>8. ToSet(s) \cap H \subseteq ToSet(t)
  <2> SUFFICES ASSUME NEW x \in places PROVE s[x] \in ToSet(t)
    BY DEF ToSet
  <2>1. PICK k \in 1 .. n : Ascending(places)[k] = x
    BY <1>3
  <2>2. t[k] = s[x]
    BY <1>4, <2>1
  <2> QED
    BY <1>6, <2>2 DEF ToSet
<1> QED
  BY <1>6, <1>7, <1>8 DEF t

(* The first element of a sequence and the rest. *)
LEMMA HeadAndTail ==
    ASSUME NEW X, NEW s \in Seq(X), s # <<>>
    PROVE  /\ Head(s) \in X /\ Tail(s) \in Seq(X)
           /\ ToSet(s) = {Head(s)} \cup ToSet(Tail(s))
           /\ IsInjective(s) => IsInjective(Tail(s)) /\ Head(s) \notin ToSet(Tail(s))
<1>1. /\ Len(s) \in Nat /\ Len(s) > 0 /\ Head(s) = s[1] /\ Head(s) \in X /\ Tail(s) \in Seq(X)
      /\ DOMAIN s = 1 .. Len(s) /\ DOMAIN Tail(s) = 1 .. Len(s) - 1
      /\ \A k \in 1 .. Len(s) - 1 : Tail(s)[k] = s[k + 1]
  OBVIOUS
<1>2. ToSet(Tail(s)) = {s[k + 1] : k \in 1 .. Len(s) - 1}
  BY <1>1 DEF ToSet
<1>3. ToSet(s) = {Head(s)} \cup ToSet(Tail(s))
  <2>1. \A k \in 1 .. Len(s) : k = 1 \/ (k - 1 \in 1 .. Len(s) - 1 /\ s[k] = s[(k - 1) + 1])
    BY <1>1
  <2>2. \A k \in 1 .. Len(s) - 1 : k + 1 \in 1 .. Len(s)
    BY <1>1
  <2>3. \A x \in ToSet(s) : x = Head(s) \/ x \in ToSet(Tail(s))
    <3> SUFFICES ASSUME NEW k \in 1 .. Len(s), s[k] # Head(s) PROVE s[k] \in ToSet(Tail(s))
      BY <1>1 DEF ToSet
    <3> DEFINE l == k - 1
    <3>1. l \in 1 .. Len(s) - 1 /\ s[l + 1] = s[k]
      BY <1>1, <2>1
    <3> HIDE DEF l
    <3> QED
      BY <1>2, <3>1
  <2>4. 1 \in 1 .. Len(s)
    BY <1>1
  <2>5. Head(s) \in ToSet(s)
    BY <1>1, <2>4 DEF ToSet
  <2>6. \A x \in ToSet(Tail(s)) : x \in ToSet(s)
    BY <1>1, <1>2, <2>2 DEF ToSet
  <2> QED
    BY <2>3, <2>5, <2>6
<1>4. ASSUME IsInjective(s) PROVE IsInjective(Tail(s)) /\ Head(s) \notin ToSet(Tail(s))
  <2>1. \A k, l \in 1 .. Len(s) : s[k] = s[l] => k = l
    BY <1>1, <1>4 DEF IsInjective
  <2>2. \A k \in 1 .. Len(s) - 1 : k + 1 \in 1 .. Len(s) /\ 1 \in 1 .. Len(s) /\ k + 1 # 1
    BY <1>1
  <2>3. IsInjective(Tail(s))
    BY <1>1, <2>1, <2>2 DEF IsInjective
  <2>4. Head(s) \notin ToSet(Tail(s))
    BY <1>1, <1>2, <2>1, <2>2
  <2> QED
    BY <2>3, <2>4
<1> QED
  BY <1>1, <1>3, <1>4

(* The groups are walked in an order that has each of them once. *)
LEMMA GroupsListed ==
    ASSUME DOMAIN registry \in SUBSET Int, IsFiniteSet(DOMAIN registry)
    PROVE  /\ SortedGroups \in Seq(Int) /\ IsInjective(SortedGroups)
           /\ ToSet(SortedGroups) = DOMAIN registry
<1>1. /\ Cardinality(DOMAIN registry) \in Nat
      /\ SortedGroups \in [1 .. Cardinality(DOMAIN registry) -> DOMAIN registry]
      /\ \A j, k \in 1 .. Cardinality(DOMAIN registry) : SortedGroups[j] = SortedGroups[k] => j = k
      /\ \A x \in DOMAIN registry : \E k \in 1 .. Cardinality(DOMAIN registry) : SortedGroups[k] = x
  BY AscendingLists DEF SortedGroups
<1> DEFINE n == Cardinality(DOMAIN registry)
<1>2. DOMAIN SortedGroups = 1 .. n /\ \A k \in 1 .. n : SortedGroups[k] \in DOMAIN registry
  BY <1>1
<1>3. SortedGroups \in Seq(Int)
  <2>1. \A k \in 1 .. n : SortedGroups[k] \in Int
    BY <1>2
  <2>2. SortedGroups \in [1 .. n -> Int]
    BY <1>1, <2>1
  <2> HIDE DEF n
  <2> QED
    BY <1>1, <2>2 DEF n
<1>4. IsInjective(SortedGroups)
  BY <1>1, <1>2 DEF IsInjective
<1>5. ToSet(SortedGroups) = DOMAIN registry
  <2> DEFINE s == SortedGroups
             R == DOMAIN registry
  <2>1. DOMAIN s = 1 .. n /\ (\A k \in 1 .. n : s[k] \in R) /\ \A x \in R : \E k \in 1 .. n : s[k] = x
    BY <1>1, <1>2
  <2> HIDE DEF s, R, n
  <2>2. ToSet(s) = R
    BY <2>1 DEF ToSet
  <2> QED
    BY <2>2 DEF s, R
<1> QED
  BY <1>3, <1>4, <1>5

-----------------------------------------------------------------------------
(* The types *)

Entry == [chat : Chat, what : {"post", "touch", "delete"}]

EventKind == {"raw", "message", "deleted_message", "chat_update"}

Event == [kind : EventKind, id : Nat]

(* The server numbers what happened so far. *)
Numbers == 1 .. Len(log)

ServerTyped ==
    /\ mode \in Modes
    /\ log \in Seq(Entry) /\ Len(log) <= MaxLog
    /\ alive \in [Chat -> SUBSET Numbers]
    /\ \A c \in Chat : \A i \in alive[c] : log[i].chat = c
    /\ floor \in 0 .. Len(log)

Request == [pc : {"off", "ready", "asked", "answered"}, from : 0 .. Len(log), upto : 0 .. Len(log),
            old : BOOLEAN, news : SUBSET Numbers]

LoopTyped ==
    /\ stored \in {None} \cup 0 .. Len(log)
    /\ seen \in [Chat -> 0 .. Len(log)]
    /\ fetch \in [Fetcher -> Request]
    /\ due \subseteq Numbers /\ dispatched \subseteq Numbers /\ pruned \subseteq Chat

(* A group has the handlers that were put in it. *)
RegistryTyped(r) ==
    /\ DOMAIN r \in SUBSET Int /\ IsFiniteSet(DOMAIN r)
    /\ r \in [DOMAIN r -> Seq(Handler)]
    /\ \A g \in DOMAIN r : \A h \in ToSet(r[g]) : GroupOf[h] = g

RunTyped ==
    /\ run \in [todo : Seq(Event), on : Event \cup {NoEvent}, groups : Seq(Int), line : Seq(Handler)]
    /\ track \in [kept : SUBSET Handler, tried : SUBSET Handler, taken : SUBSET Int]

Typed == ServerTyped /\ LoopTyped /\ RegistryTyped(registry) /\ RunTyped

-----------------------------------------------------------------------------
(* The inductive invariants *)

(* While an event is dispatched its groups are still to come once each, the *)
(* handlers in line are of one group that no one took, and a handler that   *)
(* stays is passed over, done, in line or of a group to come.               *)
WalkInv ==
    /\ run.on = NoEvent => run.groups = <<>> /\ run.line = <<>>
    /\ run.on # NoEvent =>
        /\ IsInjective(run.groups)
        /\ ToSet(run.groups) \subseteq DOMAIN registry
        /\ ToSet(run.groups) \cap track.taken = {}
        /\ \A h \in ToSet(run.line) :
              /\ GroupOf[h] \notin track.taken \cup ToSet(run.groups)
              /\ \A k \in ToSet(run.line) : GroupOf[k] = GroupOf[h]
        /\ \A h \in track.kept :
              /\ IsRegistered(h)
              /\ \/ KindOf[h] # run.on.kind
                 \/ h \in track.tried
                 \/ GroupOf[h] \in track.taken
                 \/ h \in ToSet(run.line)
                 \/ GroupOf[h] \in ToSet(run.groups)

(* The messages of a sequence of events are of I and distinct. *)
Fresh(s, I) ==
    /\ s \in Seq(Event)
    /\ \A k \in DOMAIN s : s[k].kind = "message" => s[k].id \in I
    /\ \A j, k \in DOMAIN s :
          s[j].kind = "message" /\ s[k].kind = "message" /\ s[j].id = s[k].id => j = k

ChatOf(i) == log[i].chat

(* A poll shows one message of a chat, its newest. *)
HttpOnce ==
    /\ fetch["loop"].pc = "answered" =>
          \A i, j \in fetch["loop"].news : ChatOf(i) = ChatOf(j) => i = j
    /\ \A c \in Chat \ pruned :
        /\ seen[c] # 0 => seen[c] \in alive[c]
        /\ \A i \in dispatched : ChatOf(i) = c => i <= seen[c]
        /\ \A k \in DOMAIN run.todo :
              run.todo[k].kind = "message" /\ ChatOf(run.todo[k].id) = c => run.todo[k].id <= seen[c]
        /\ fetch["loop"].pc = "answered" =>
              \A i \in fetch["loop"].news : ChatOf(i) = c => i \in alive[c] /\ seen[c] <= i

(* What a bot or a socket was given, and asks to go on from. *)
Known == IF mode = "socket" THEN fetch["loop"].from ELSE IF stored = None THEN 0 ELSE stored

LineOnce ==
    /\ fetch["manual"].pc = "off"
    /\ \A i \in dispatched : i <= Known
    /\ \A k \in DOMAIN run.todo : run.todo[k].kind = "message" => run.todo[k].id <= Known
    /\ fetch["loop"].pc \in {"asked", "answered"} => fetch["loop"].from = Known
    /\ fetch["loop"].pc = "answered" =>
          /\ Known <= fetch["loop"].upto
          /\ \A i \in fetch["loop"].news : Known < i /\ i <= fetch["loop"].upto

(* What waits to be dispatched was not, and is there once. *)
TodoInv ==
    /\ Fresh(run.todo, Numbers)
    /\ \A k \in DOMAIN run.todo :
          run.todo[k].kind = "message" =>
            run.todo[k].id \notin dispatched \/ (mode = "http" /\ ChatOf(run.todo[k].id) \in pruned)

OnceInv == TodoInv /\ (mode = "http" => HttpOnce) /\ (mode # "http" => LineOnce)

-----------------------------------------------------------------------------
(* The registry *)

LEMMA InitialRegistryTyped == RegistryTyped(InitialRegistry)
<1> DEFINE G == {GroupOf[AtStart[i]] : i \in DOMAIN AtStart}
           r == [g \in G |-> Within(AtStart, {h \in Handler : GroupOf[h] = g})]
           n == Len(AtStart)
<1>1. DOMAIN AtStart = 1 .. n /\ n \in Nat /\ \A i \in 1 .. n : AtStart[i] \in Handler
  BY HandlerAssumption
<1>2. G \in SUBSET Int
  BY <1>1, HandlerAssumption
<1>3. IsFiniteSet(G)
  <2>1. [i \in 1 .. n |-> GroupOf[AtStart[i]]] \in Surjection(1 .. n, G)
    BY <1>1 DEF Surjection
  <2> QED
    BY <1>1, <2>1, FS_Interval, FS_Surjection
<1>4. \A g \in G : /\ r[g] \in Seq(Handler)
                   /\ ToSet(r[g]) = ToSet(AtStart) \cap {h \in Handler : GroupOf[h] = g}
  BY WithinKeeps, HandlerAssumption
<1>5. RegistryTyped(r)
  BY <1>2, <1>3, <1>4 DEF RegistryTyped
<1> QED
  BY <1>5 DEF InitialRegistry

LEMMA AddedTyped ==
    ASSUME RegistryTyped(registry), NEW h \in Handler
    PROVE  /\ RegistryTyped(Added(h))
           /\ DOMAIN registry \subseteq DOMAIN Added(h)
           /\ \A g \in DOMAIN registry : ToSet(registry[g]) \subseteq ToSet(Added(h)[g])
<1> DEFINE g == GroupOf[h]
           old == IF g \in DOMAIN registry THEN registry[g] ELSE <<>>
<1>1. g \in Int
  BY HandlerAssumption
<1>2. old \in Seq(Handler) /\ \A x \in ToSet(old) : GroupOf[x] = g
  BY DEF RegistryTyped, ToSet
<1>3. Append(old, h) \in Seq(Handler) /\ ToSet(Append(old, h)) = ToSet(old) \cup {h}
  <2> HIDE DEF old
  <2>1. /\ Append(old, h) \in Seq(Handler) /\ Len(Append(old, h)) = Len(old) + 1
        /\ \A k \in 1 .. Len(old) : Append(old, h)[k] = old[k]
        /\ Append(old, h)[Len(old) + 1] = h /\ Len(old) \in Nat
    BY <1>2
  <2>2. DOMAIN Append(old, h) = 1 .. Len(old) \cup {Len(old) + 1} /\ DOMAIN old = 1 .. Len(old)
    BY <1>2, <2>1
  <2> QED
    BY <2>1, <2>2 DEF ToSet
<1>4. /\ DOMAIN Added(h) = DOMAIN registry \cup {g}
      /\ \A k \in DOMAIN Added(h) : Added(h)[k] = IF k = g THEN Append(old, h) ELSE registry[k]
  BY DEF Added
<1>5. IsFiniteSet(DOMAIN Added(h)) /\ DOMAIN Added(h) \in SUBSET Int
  BY <1>1, <1>4, FS_AddElement DEF RegistryTyped
<1>6. Added(h) \in [DOMAIN Added(h) -> Seq(Handler)]
  BY <1>3, <1>4 DEF RegistryTyped, Added
<1>7. \A k \in DOMAIN Added(h) : \A x \in ToSet(Added(h)[k]) : GroupOf[x] = k
  BY <1>2, <1>3, <1>4 DEF RegistryTyped
<1>8. \A k \in DOMAIN registry : ToSet(registry[k]) \subseteq ToSet(Added(h)[k])
  BY <1>3, <1>4
<1> QED
  BY <1>4, <1>5, <1>6, <1>7, <1>8 DEF RegistryTyped

LEMMA RemovedTyped ==
    ASSUME RegistryTyped(registry), NEW h \in Handler, GroupOf[h] \in DOMAIN registry
    PROVE  /\ RegistryTyped(Removed(h)) /\ DOMAIN Removed(h) = DOMAIN registry
           /\ \A g \in DOMAIN registry : ToSet(registry[g]) \ {h} \subseteq ToSet(Removed(h)[g])
<1> DEFINE g == GroupOf[h]
<1>1. /\ DOMAIN Removed(h) = DOMAIN registry
      /\ \A k \in DOMAIN registry :
            Removed(h)[k] = IF k = g THEN Within(registry[g], Handler \ {h}) ELSE registry[k]
  BY DEF Removed, RegistryTyped
<1>2. \A k \in DOMAIN registry : registry[k] \in Seq(Handler) /\ ToSet(registry[k]) \subseteq Handler
  BY DEF RegistryTyped, ToSet
<1>3. /\ Within(registry[g], Handler \ {h}) \in Seq(Handler)
      /\ ToSet(Within(registry[g], Handler \ {h})) = ToSet(registry[g]) \cap (Handler \ {h})
  BY <1>2, WithinKeeps
<1>4. Removed(h) \in [DOMAIN registry -> Seq(Handler)]
  BY <1>3 DEF Removed, RegistryTyped
<1> QED
  BY <1>1, <1>2, <1>3, <1>4 DEF RegistryTyped

-----------------------------------------------------------------------------
(* What the server answers *)

LEMMA NewestIs ==
    ASSUME ServerTyped, NEW c \in Chat
    PROVE  /\ Newest(c) \in 0 .. Len(log)
           /\ alive[c] = {} => Newest(c) = 0
           /\ alive[c] # {} => Newest(c) \in alive[c] /\ \A j \in alive[c] : j <= Newest(c)
<1>1. Len(log) \in Nat /\ alive[c] \subseteq Numbers
  BY DEF ServerTyped
<1>2. IsFiniteSet(alive[c]) /\ alive[c] \in SUBSET Int
  <2>1. IsFiniteSet(Numbers)
    BY <1>1, FS_Interval DEF Numbers
  <2> QED
    BY <1>1, <2>1, FS_Subset DEF Numbers
<1>3. CASE alive[c] = {}
  BY <1>1, <1>3 DEF Newest
<1>4. CASE alive[c] # {}
  <2>1. \E x \in alive[c] : \A y \in alive[c] : y <= x
    BY <1>2, <1>4, GreatestExists
  <2>2. Newest(c) = CHOOSE i \in alive[c] : \A j \in alive[c] : j <= i
    BY <1>4 DEF Newest
  <2>3. Newest(c) \in alive[c] /\ \A j \in alive[c] : j <= Newest(c)
    BY <2>1, <2>2
  <2> QED
    BY <1>1, <1>4, <2>3 DEF Numbers
<1> QED
  BY <1>3, <1>4

LEMMA ChatsAnswerIs ==
    ASSUME ServerTyped, NEW from \in 0 .. Len(log)
    PROVE  /\ ChatsAnswer(from).old \in BOOLEAN
           /\ ChatsAnswer(from).upto \in 0 .. Len(log)
           /\ ChatsAnswer(from).news \subseteq Numbers
           /\ \A i \in ChatsAnswer(from).news : i \in alive[ChatOf(i)] /\ Newest(ChatOf(i)) = i
<1>1. Len(log) \in Nat /\ log \in Seq(Entry)
  BY DEF ServerTyped
<1>2. CASE from < floor
  <2>1. ChatsAnswer(from) = [old |-> TRUE, upto |-> Len(log), news |-> {}]
    BY <1>2 DEF ChatsAnswer
  <2> QED
    BY <1>1, <2>1
<1>3. CASE ~(from < floor)
  <2> DEFINE N == {Newest(log[i].chat) : i \in (from + 1) .. Len(log)} \ {0}
  <2>1. ChatsAnswer(from) = [old |-> FALSE, upto |-> Len(log), news |-> N]
    BY <1>3 DEF ChatsAnswer
  <2>2. ASSUME NEW n \in N PROVE n \in Numbers /\ n \in alive[ChatOf(n)] /\ Newest(ChatOf(n)) = n
    <3>1. PICK i \in (from + 1) .. Len(log) : n = Newest(log[i].chat)
      BY <2>2
    <3>2. i \in 1 .. Len(log)
      BY <1>1, <3>1
    <3>3. log[i].chat \in Chat
      <4>1. log[i] \in Entry
        BY <1>1, <3>2
      <4> QED
        BY <4>1 DEF Entry
    <3> DEFINE c == log[i].chat
    <3> HIDE DEF N
    <3>4. n # 0
      BY <2>2 DEF N
    <3>5. n \in alive[c]
      BY <3>1, <3>3, <3>4, NewestIs
    <3>6. alive[c] \subseteq Numbers /\ log[n].chat = c
      BY <3>3, <3>5 DEF ServerTyped
    <3> QED
      BY <3>1, <3>5, <3>6 DEF ChatOf
  <2> HIDE DEF N
  <2> QED
    BY <1>1, <2>1, <2>2
<1> QED
  BY <1>2, <1>3

LEMMA BotAnswerIs ==
    ASSUME ServerTyped, NEW from \in 0 .. Len(log)
    PROVE  /\ BotAnswer(from).old \in BOOLEAN
           /\ BotAnswer(from).upto \in 0 .. Len(log) /\ from <= BotAnswer(from).upto
           /\ BotAnswer(from).news \subseteq Numbers
           /\ \A i \in BotAnswer(from).news : from < i /\ i <= BotAnswer(from).upto
<1> DEFINE later == {i \in (from + 1) .. Len(log) : log[i].what # "touch"}
           news == {i \in later : Cardinality({j \in later : j < i}) < Limit}
           upto == IF news = {} THEN from ELSE CHOOSE i \in news : \A j \in news : j <= i
<1>1. Len(log) \in Nat
  BY DEF ServerTyped
<1>2. BotAnswer(from) = [old |-> FALSE, news |-> news, upto |-> upto]
  BY DEF BotAnswer
<1>3. news \subseteq (from + 1) .. Len(log)
  OBVIOUS
<1> HIDE DEF news
<1>4. IsFiniteSet(news) /\ news \in SUBSET Int
  <2>1. IsFiniteSet((from + 1) .. Len(log))
    BY <1>1, FS_Interval
  <2>2. IsFiniteSet(news)
    BY <1>3, <2>1, FS_Subset
  <2> QED
    BY <1>1, <1>3, <2>2
<1>5. upto \in 0 .. Len(log) /\ from <= upto /\ \A i \in news : i <= upto
  <2>1. CASE news = {}
    BY <1>1, <2>1
  <2>2. CASE news # {}
    <3>1. \E x \in news : \A y \in news : y <= x
      BY <1>4, <2>2, GreatestExists
    <3>2. upto \in news /\ \A j \in news : j <= upto
      BY <2>2, <3>1
    <3> HIDE DEF upto
    <3> QED
      BY <1>1, <1>3, <3>2
  <2> QED
    BY <2>1, <2>2
<1>6. news \subseteq Numbers /\ \A i \in news : from < i
  BY <1>1, <1>3 DEF Numbers
<1> HIDE DEF upto
<1> QED
  BY <1>2, <1>5, <1>6

LEMMA FramesAre ==
    ASSUME ServerTyped, NEW from \in 0 .. Len(log), NEW a \in Frames(from)
    PROVE  /\ a.old \in BOOLEAN
           /\ a.upto \in 0 .. Len(log) /\ from <= a.upto
           /\ a.news \subseteq Numbers
           /\ \A i \in a.news : from < i /\ i <= a.upto
<1>1. Len(log) \in Nat
  BY DEF ServerTyped
<1>2. PICK i \in (from + 1) .. Len(log) : a = [old |-> FALSE, upto |-> i, news |-> {i}]
  BY DEF Frames
<1>3. i \in 1 .. Len(log) /\ from < i
  BY <1>1, <1>2
<1> QED
  BY <1>1, <1>2, <1>3 DEF Numbers

LEMMA AnswersAre ==
    ASSUME ServerTyped, NEW from \in 0 .. Len(log), NEW a \in Answers(from)
    PROVE  /\ a.old \in BOOLEAN /\ a.upto \in 0 .. Len(log) /\ a.news \subseteq Numbers
           /\ mode = "http" => \A i \in a.news : i \in alive[ChatOf(i)] /\ Newest(ChatOf(i)) = i
           /\ mode # "http" => from <= a.upto /\ \A i \in a.news : from < i /\ i <= a.upto
<1>1. mode \in {"bot", "http", "socket"}
  BY ModesAssumption DEF ServerTyped
<1>2. CASE mode = "http"
  <2>1. a = ChatsAnswer(from)
    BY <1>2 DEF Answers
  <2> QED
    BY <1>2, <2>1, ChatsAnswerIs
<1>3. CASE mode = "bot"
  <2>1. a = BotAnswer(from)
    BY <1>3 DEF Answers
  <2> QED
    BY <1>3, <2>1, BotAnswerIs
<1>4. CASE mode = "socket"
  <2>1. a \in Frames(from)
    BY <1>4 DEF Answers
  <2> QED
    BY <1>4, <2>1, FramesAre
<1> QED
  BY <1>1, <1>2, <1>3, <1>4

-----------------------------------------------------------------------------
(* Types are kept *)

(* A change is numbered next. *)
LEMMA ChangeAppends ==
    ASSUME ServerTyped, NEW c \in Chat, NEW what \in {"post", "touch", "delete"}, Change(c, what)
    PROVE  /\ log' \in Seq(Entry) /\ Len(log') = Len(log) + 1 /\ Len(log') <= MaxLog
           /\ \A i \in Numbers : i \in Numbers' /\ log'[i] = log[i]
           /\ Len(log) + 1 \in Numbers' /\ log'[Len(log) + 1].chat = c
           /\ Numbers' = Numbers \cup {Len(log) + 1}
<1>1. Len(log) \in Nat /\ log \in Seq(Entry) /\ Len(log) < MaxLog /\ MaxLog \in Nat
  BY BoundsAssumption DEF ServerTyped, Change
<1>2. [chat |-> c, what |-> what] \in Entry
  BY DEF Entry
<1>3. log' = Append(log, [chat |-> c, what |-> what])
  BY DEF Change
<1>4. /\ log' \in Seq(Entry) /\ Len(log') = Len(log) + 1
      /\ \A i \in 1 .. Len(log) : log'[i] = log[i]
      /\ log'[Len(log) + 1] = [chat |-> c, what |-> what]
  BY <1>1, <1>2, <1>3
<1>5. Numbers' = 1 .. Len(log) + 1
  BY <1>4 DEF Numbers
<1>6. Numbers' = Numbers \cup {Len(log) + 1}
  BY <1>1, <1>5 DEF Numbers
<1> QED
  BY <1>1, <1>4, <1>6 DEF Numbers

LEMMA ServerStep ==
    ASSUME ServerTyped, [Next]_vars
    PROVE  ServerTyped'
<1>1. ASSUME UNCHANGED <<mode, server>> PROVE ServerTyped'
  <2>1. mode' = mode /\ log' = log /\ alive' = alive /\ floor' = floor
    BY <1>1 DEF server
  <2> QED
    BY <2>1 DEF ServerTyped, Numbers
<1>2. ASSUME NEW c \in Chat, NEW what \in {"post", "touch", "delete"}, Change(c, what),
             alive' \in [Chat -> SUBSET Numbers'],
             \A d \in Chat : \A i \in alive'[d] :
                i \in alive[d] \/ (d = c /\ i = Len(log) + 1)
      PROVE ServerTyped'
  <2>1. /\ log' \in Seq(Entry) /\ Len(log') = Len(log) + 1 /\ Len(log') <= MaxLog
        /\ \A i \in Numbers : log'[i] = log[i]
        /\ log'[Len(log) + 1].chat = c
    BY <1>2, ChangeAppends
  <2>2. mode' = mode /\ floor' = floor
    BY <1>2 DEF Change
  <2>3. floor' \in 0 .. Len(log')
    BY <2>1, <2>2 DEF ServerTyped
  <2>4. \A d \in Chat : \A i \in alive'[d] : log'[i].chat = d
    BY <1>2, <2>1 DEF ServerTyped
  <2> QED
    BY <1>2, <2>1, <2>2, <2>3, <2>4 DEF ServerTyped
<1>3. ASSUME NEW c \in Chat, Post(c) PROVE ServerTyped'
  <2>1. Change(c, "post") /\ alive' = [alive EXCEPT ![c] = @ \cup {Len(log) + 1}]
    BY <1>3 DEF Post
  <2>2. Numbers' = Numbers \cup {Len(log) + 1}
    BY <2>1, ChangeAppends
  <2>3. alive \in [Chat -> SUBSET Numbers]
    BY DEF ServerTyped
  <2>4. alive' \in [Chat -> SUBSET Numbers']
    BY <2>1, <2>2, <2>3
  <2> QED
    BY <1>2, <2>1, <2>3, <2>4
<1>4. ASSUME NEW c \in Chat, Touch(c) PROVE ServerTyped'
  <2>1. Change(c, "touch") /\ alive' = alive
    BY <1>4 DEF Touch
  <2>2. Numbers' = Numbers \cup {Len(log) + 1}
    BY <2>1, ChangeAppends
  <2>3. alive \in [Chat -> SUBSET Numbers]
    BY DEF ServerTyped
  <2>4. alive' \in [Chat -> SUBSET Numbers']
    BY <2>1, <2>2, <2>3
  <2> QED
    BY <1>2, <2>1, <2>3, <2>4
<1>5. ASSUME NEW c \in Chat, Delete(c) PROVE ServerTyped'
  <2>1. Change(c, "delete") /\ alive' = [alive EXCEPT ![c] = @ \ {Newest(c)}]
    BY <1>5 DEF Delete
  <2>2. Numbers' = Numbers \cup {Len(log) + 1}
    BY <2>1, ChangeAppends
  <2>3. alive \in [Chat -> SUBSET Numbers]
    BY DEF ServerTyped
  <2>4. alive' \in [Chat -> SUBSET Numbers']
    BY <2>1, <2>2, <2>3
  <2> QED
    BY <1>2, <2>1, <2>3, <2>4
<1>6. ASSUME Forget PROVE ServerTyped'
  <2>1. mode' = mode /\ log' = log /\ alive' = alive /\ floor' = Len(log) /\ Len(log) \in Nat
    BY <1>6 DEF Forget, ServerTyped
  <2> QED
    BY <2>1 DEF ServerTyped, Numbers
<1>7. ASSUME Loop \/ Ask("manual") \/ Serve("manual") \/ ArriveAtCaller \/ Restart
             \/ (\E f \in Fetcher : RequestFails(f))
             \/ (\E h \in Handler : AddHandler(h) \/ RemoveHandler(h))
             \/ UNCHANGED vars
      PROVE  UNCHANGED <<mode, server>>
  BY <1>7 DEF Loop, Ask, Serve, ArriveAtLoop, BeginEvent, BeginGroup, EndEvent, Try, ArriveAtCaller,
     Restart, RequestFails, AddHandler, RemoveHandler, vars, server
<1> QED
  BY <1>1, <1>3, <1>4, <1>5, <1>6, <1>7 DEF Next

LEMMA RequestGrows ==
    ASSUME Len(log) \in Nat, Len(log') \in Nat, Len(log) <= Len(log')
    PROVE  Numbers \subseteq Numbers' /\ 0 .. Len(log) \subseteq 0 .. Len(log') /\ Request \subseteq Request'
<1>1. Numbers \subseteq Numbers' /\ 0 .. Len(log) \subseteq 0 .. Len(log')
  BY DEF Numbers
<1>2. ASSUME NEW r \in Request PROVE r \in Request'
  <2>1. r.from \in 0 .. Len(log') /\ r.upto \in 0 .. Len(log') /\ r.news \subseteq Numbers'
    BY <1>1 DEF Request
  <2> QED
    BY <2>1 DEF Request
<1> QED
  BY <1>1, <1>2

LEMMA NoRequestTyped ==
    ASSUME NEW f \in Fetcher, NEW from \in 0 .. Len(log), Len(log) \in Nat
    PROVE  /\ NoRequest(f) \in Request
           /\ [NoRequest(f) EXCEPT !.from = from] \in Request
           /\ [NoRequest(f) EXCEPT !.pc = "asked", !.from = from] \in Request
<1>1. (IF f = "loop" THEN "ready" ELSE "off") \in {"off", "ready"} /\ 0 \in 0 .. Len(log)
  OBVIOUS
<1> QED
  BY <1>1 DEF NoRequest, Request

LEMMA LoopStep ==
    ASSUME ServerTyped, LoopTyped, ServerTyped', RunTyped, TodoInv, [Next]_vars
    PROVE  LoopTyped'
<1> USE DEF None
<1>0. /\ Len(log) \in Nat /\ Len(log') \in Nat /\ log \in Seq(Entry)
      /\ \A c \in Chat : alive[c] \subseteq Numbers
  BY DEF ServerTyped
<1>1. ASSUME UNCHANGED <<log, stored, seen, fetch>>,
             due' \subseteq Numbers, dispatched' \subseteq Numbers, pruned' \subseteq Chat
      PROVE LoopTyped'
  <2>1. Numbers' = Numbers /\ Request' = Request
    BY <1>1 DEF Numbers, Request
  <2> QED
    BY <1>1, <2>1 DEF LoopTyped
<1>2. ASSUME UNCHANGED <<log, seen, dispatched, pruned>>, due' \subseteq Numbers,
             stored' \in {None} \cup 0 .. Len(log), fetch' \in [Fetcher -> Request]
      PROVE LoopTyped'
  <2>1. Numbers' = Numbers /\ Request' = Request
    BY <1>2 DEF Numbers, Request
  <2> QED
    BY <1>2, <2>1 DEF LoopTyped
<1>3. ASSUME NEW c \in Chat, NEW what \in {"post", "touch", "delete"}, Change(c, what),
             due' \subseteq Numbers', pruned' \subseteq Chat
      PROVE LoopTyped'
  <2>1. Len(log') = Len(log) + 1
    BY <1>3, ChangeAppends
  <2>2. Numbers \subseteq Numbers' /\ 0 .. Len(log) \subseteq 0 .. Len(log') /\ Request \subseteq Request'
    BY <1>0, <2>1, RequestGrows
  <2>3. stored' = stored /\ seen' = seen /\ fetch' = fetch /\ dispatched' = dispatched
    BY <1>3 DEF Change
  <2> QED
    BY <1>3, <2>2, <2>3 DEF LoopTyped
<1>4. ASSUME NEW c \in Chat, Post(c) PROVE LoopTyped'
  <2>1. Change(c, "post") /\ pruned' = pruned
    BY <1>4 DEF Post
  <2>2. Numbers' = Numbers \cup {Len(log) + 1}
    BY <2>1, ChangeAppends
  <2>3. due' \subseteq due \cup {Len(log) + 1}
    <3>1. mode \in {"bot", "http", "socket"}
      BY ModesAssumption DEF ServerTyped
    <3> QED
      BY <1>4, <3>1 DEF Post
  <2> QED
    BY <1>3, <2>1, <2>2, <2>3 DEF LoopTyped
<1>5. ASSUME NEW c \in Chat, Touch(c) PROVE LoopTyped'
  <2>1. Change(c, "touch") /\ pruned' = pruned /\ due' = due
    BY <1>5 DEF Touch
  <2>2. Numbers' = Numbers \cup {Len(log) + 1}
    BY <2>1, ChangeAppends
  <2> QED
    BY <1>3, <2>1, <2>2 DEF LoopTyped
<1>6. ASSUME NEW c \in Chat, Delete(c) PROVE LoopTyped'
  <2>1. Change(c, "delete") /\ pruned' = pruned \cup {c} /\ due' \subseteq due
    BY <1>6 DEF Delete
  <2>2. Numbers' = Numbers \cup {Len(log) + 1}
    BY <2>1, ChangeAppends
  <2> QED
    BY <1>3, <2>1, <2>2 DEF LoopTyped
<1>7. ASSUME NEW f \in Fetcher, Ask(f) PROVE LoopTyped'
  <2>1. Position \in 0 .. Len(log)
    BY <1>0 DEF Position, LoopTyped
  <2>2. fetch[f].from \in 0 .. Len(log)
    BY DEF LoopTyped, Request
  <2> DEFINE from == IF mode = "socket" THEN fetch[f].from ELSE Position
  <2>3. from \in 0 .. Len(log)
    BY <2>1, <2>2
  <2>4. fetch' = [fetch EXCEPT ![f] = [NoRequest(f) EXCEPT !.pc = "asked", !.from = from]]
    BY <1>7 DEF Ask
  <2> HIDE DEF from
  <2>5. fetch' \in [Fetcher -> Request]
    BY <1>0, <2>3, <2>4, NoRequestTyped DEF LoopTyped
  <2>6. UNCHANGED <<log, stored, seen, due, dispatched, pruned>>
    BY <1>7 DEF Ask, server
  <2> QED
    BY <1>2, <2>5, <2>6 DEF LoopTyped
<1>8. ASSUME NEW f \in Fetcher, Serve(f) PROVE LoopTyped'
  <2>1. PICK a \in Answers(fetch[f].from) :
           fetch' = [fetch EXCEPT ![f] = [pc |-> "answered", from |-> fetch[f].from,
                                          old |-> a.old, upto |-> a.upto, news |-> a.news]]
    BY <1>8 DEF Serve
  <2>2. fetch[f].from \in 0 .. Len(log)
    BY DEF LoopTyped, Request
  <2>3. a.old \in BOOLEAN /\ a.upto \in 0 .. Len(log) /\ a.news \subseteq Numbers
    BY <2>1, <2>2, AnswersAre
  <2>4. [pc |-> "answered", from |-> fetch[f].from, old |-> a.old, upto |-> a.upto, news |-> a.news] \in Request
    BY <2>2, <2>3 DEF Request
  <2>5. fetch' \in [Fetcher -> Request]
    BY <2>1, <2>4 DEF LoopTyped
  <2>6. UNCHANGED <<log, stored, seen, due, dispatched, pruned>>
    BY <1>8 DEF Serve, server
  <2> QED
    BY <1>2, <2>5, <2>6 DEF LoopTyped
<1>9. ASSUME NEW f \in Fetcher, RequestFails(f) PROVE LoopTyped'
  <2>1. fetch[f].from \in 0 .. Len(log)
    BY DEF LoopTyped, Request
  <2>2. fetch' = [fetch EXCEPT ![f] = [NoRequest(f) EXCEPT !.from = fetch[f].from]]
    BY <1>9 DEF RequestFails
  <2>3. fetch' \in [Fetcher -> Request]
    BY <1>0, <2>1, <2>2, NoRequestTyped DEF LoopTyped
  <2>4. UNCHANGED <<log, stored, seen, due, dispatched, pruned>>
    BY <1>9 DEF RequestFails, server
  <2> QED
    BY <1>2, <2>3, <2>4 DEF LoopTyped
<1>10. ASSUME NEW f \in Fetcher PROVE Stored(fetch[f]) \in {None} \cup 0 .. Len(log)
  <2>1. mode \in {"bot", "http", "socket"}
    BY ModesAssumption DEF ServerTyped
  <2>2. fetch[f].upto \in 0 .. Len(log)
    BY DEF LoopTyped, Request
  <2> QED
    BY <2>1, <2>2 DEF Stored, LoopTyped
<1>11. ASSUME ArriveAtCaller PROVE LoopTyped'
  <2>1. "manual" \in Fetcher /\ 0 \in 0 .. Len(log)
    BY <1>0 DEF Fetcher
  <2>2. fetch' = [fetch EXCEPT !["manual"] = NoRequest("manual")]
    BY <1>11 DEF ArriveAtCaller
  <2>3. fetch' \in [Fetcher -> Request]
    BY <1>0, <2>1, <2>2, NoRequestTyped DEF LoopTyped
  <2>4. UNCHANGED <<log, seen, dispatched, pruned>> /\ due' \subseteq due /\ stored' = Stored(fetch["manual"])
    BY <1>11 DEF ArriveAtCaller, server
  <2>5. stored' \in {None} \cup 0 .. Len(log)
    BY <1>10, <2>1, <2>4
  <2> QED
    BY <1>2, <2>3, <2>4, <2>5 DEF LoopTyped
<1>12. ASSUME ArriveAtLoop PROVE LoopTyped'
  <2> DEFINE answer == fetch["loop"]
  <2>1. "loop" \in Fetcher /\ answer.upto \in 0 .. Len(log) /\ answer.news \subseteq Numbers
    BY DEF LoopTyped, Request, Fetcher
  <2>2. fetch' = [fetch EXCEPT !["loop"] = [NoRequest("loop") EXCEPT !.from = answer.upto]]
    BY <1>12 DEF ArriveAtLoop
  <2>3. fetch' \in [Fetcher -> Request]
    BY <1>0, <2>1, <2>2, NoRequestTyped DEF LoopTyped
  <2>4. UNCHANGED <<log, due, dispatched, pruned>> /\ stored' = Stored(answer)
    BY <1>12 DEF ArriveAtLoop, server
  <2>5. stored' \in {None} \cup 0 .. Len(log)
    BY <1>10, <2>1, <2>4
  <2>6. seen' \in [Chat -> 0 .. Len(log)]
    <3>1. CASE mode = "http"
      <4>1. seen' = [c \in Chat |-> IF \E i \in answer.news : log[i].chat = c
                                    THEN CHOOSE i \in answer.news : log[i].chat = c ELSE seen[c]]
        BY <1>12, <3>1 DEF ArriveAtLoop
      <4>2. ASSUME NEW c \in Chat
            PROVE (IF \E i \in answer.news : log[i].chat = c
                   THEN CHOOSE i \in answer.news : log[i].chat = c ELSE seen[c]) \in 0 .. Len(log)
        <5>1. seen[c] \in 0 .. Len(log)
          BY DEF LoopTyped
        <5>2. CASE \E i \in answer.news : log[i].chat = c
          <6>1. (CHOOSE i \in answer.news : log[i].chat = c) \in answer.news
            BY <5>2
          <6> HIDE DEF answer
          <6> QED
            BY <1>0, <2>1, <5>2, <6>1 DEF Numbers
        <5> QED
          BY <5>1, <5>2
      <4> HIDE DEF answer
      <4> QED
        BY <4>1, <4>2
    <3>2. CASE mode # "http"
      BY <1>12, <3>2 DEF ArriveAtLoop, LoopTyped
    <3> QED
      BY <3>1, <3>2
  <2>7. Numbers' = Numbers /\ Request' = Request
    BY <2>4 DEF Numbers, Request
  <2> QED
    BY <2>3, <2>4, <2>5, <2>6, <2>7 DEF LoopTyped
<1>13. ASSUME Restart PROVE LoopTyped'
  <2>1. log' = log /\ stored' = stored /\ pruned' = pruned /\ seen' = [c \in Chat |-> 0]
    BY <1>13 DEF Restart, server
  <2> DEFINE from == IF mode = "socket" THEN Len(log) ELSE 0
  <2>2. from \in 0 .. Len(log)
    BY <1>0
  <2>3. fetch' = [f \in Fetcher |-> [NoRequest(f) EXCEPT !.from = from]]
    BY <1>13 DEF Restart
  <2> HIDE DEF from
  <2>4. fetch' \in [Fetcher -> Request]
    BY <1>0, <2>2, <2>3, NoRequestTyped
  <2>5. due' \subseteq due /\ dispatched' \subseteq dispatched
    BY <1>13 DEF Restart
  <2>6. Numbers' = Numbers /\ Request' = Request
    BY <2>1 DEF Numbers, Request
  <2>7. seen' \in [Chat -> 0 .. Len(log')]
    BY <1>0, <2>1
  <2> QED
    BY <2>1, <2>4, <2>5, <2>6, <2>7 DEF LoopTyped
<1>14. ASSUME Forget PROVE LoopTyped'
  <2>1. UNCHANGED <<log, stored, seen, fetch, dispatched, pruned>> /\ due' = {}
    BY <1>14 DEF Forget
  <2> QED
    BY <1>1, <2>1 DEF LoopTyped
<1>15. ASSUME BeginEvent PROVE LoopTyped'
  <2>1. UNCHANGED <<log, stored, seen, fetch, pruned>> /\ due' \subseteq due
    BY <1>15 DEF BeginEvent, server
  <2>2. dispatched' \subseteq dispatched \cup Numbers
    <3>1. CASE Head(run.todo).kind = "message"
      <4>1. run.todo \in Seq(Event) /\ run.todo # <<>>
        BY <1>15 DEF BeginEvent, RunTyped
      <4>2. 1 \in DOMAIN run.todo /\ Head(run.todo) = run.todo[1]
        BY <4>1
      <4>3. Head(run.todo).id \in Numbers
        BY <3>1, <4>2 DEF TodoInv, Fresh
      <4> QED
        BY <1>15, <3>1, <4>3 DEF BeginEvent
    <3>2. CASE Head(run.todo).kind # "message"
      BY <1>15, <3>2 DEF BeginEvent
    <3> QED
      BY <3>1, <3>2
  <2> QED
    BY <1>1, <2>1, <2>2 DEF LoopTyped
<1>16. ASSUME \/ BeginGroup \/ EndEvent
              \/ \E outcome \in {"pass", "continue", "stop", "took"} : Try(outcome)
              \/ \E h \in Handler : AddHandler(h) \/ RemoveHandler(h)
              \/ UNCHANGED vars
       PROVE  UNCHANGED <<log, stored, seen, fetch, due, dispatched, pruned>>
  BY <1>16 DEF BeginGroup, EndEvent, Try, AddHandler, RemoveHandler, vars, server
<1> QED
  BY <1>1, <1>4, <1>5, <1>6, <1>7, <1>8, <1>9, <1>11, <1>12, <1>13, <1>14, <1>15, <1>16
     DEF Next, Loop, Fetcher, LoopTyped

LEMMA RegistryStep ==
    ASSUME RegistryTyped(registry), [Next]_vars
    PROVE  RegistryTyped(registry')
<1>1. ASSUME NEW h \in Handler, AddHandler(h) PROVE RegistryTyped(registry')
  BY <1>1, AddedTyped DEF AddHandler
<1>2. ASSUME NEW h \in Handler, RemoveHandler(h) PROVE RegistryTyped(registry')
  BY <1>2, RemovedTyped DEF RemoveHandler, IsRegistered
<1>3. ASSUME Restart PROVE RegistryTyped(registry')
  BY <1>3, InitialRegistryTyped DEF Restart
<1>4. ASSUME Loop \/ Ask("manual") \/ Serve("manual") \/ ArriveAtCaller \/ Forget
             \/ (\E f \in Fetcher : RequestFails(f))
             \/ (\E c \in Chat : Post(c) \/ Touch(c) \/ Delete(c))
             \/ UNCHANGED vars
      PROVE  registry' = registry
  BY <1>4 DEF Loop, Ask, Serve, ArriveAtLoop, BeginEvent, BeginGroup, EndEvent, Try, ArriveAtCaller,
     RequestFails, Post, Touch, Delete, Change, Forget, vars
<1> QED
  BY <1>1, <1>2, <1>3, <1>4 DEF Next

-----------------------------------------------------------------------------
(* Sequences of events *)

LEMMA FreshConcat ==
    ASSUME NEW I, NEW J, I \cap J = {}, NEW s, NEW t, Fresh(s, I), Fresh(t, J)
    PROVE  Fresh(s \o t, I \cup J)
<1> DEFINE m == Len(s)
           n == Len(t)
           u == s \o t
<1>1. s \in Seq(Event) /\ t \in Seq(Event)
  BY DEF Fresh
<1>2. /\ u \in Seq(Event) /\ m \in Nat /\ n \in Nat /\ DOMAIN u = 1 .. m + n
      /\ \A k \in 1 .. m : u[k] = s[k] /\ k \in DOMAIN s
      /\ \A k \in 1 .. m + n : k > m => u[k] = t[k - m] /\ k - m \in DOMAIN t
  BY <1>1
<1> HIDE DEF m, n, u
<1>3. ASSUME NEW k \in DOMAIN u, u[k].kind = "message"
      PROVE  IF k <= m THEN u[k].id \in I ELSE u[k].id \in J
  BY <1>2, <1>3 DEF Fresh
<1>4. ASSUME NEW j \in DOMAIN u, NEW k \in DOMAIN u, u[j].kind = "message", u[k].kind = "message",
             u[j].id = u[k].id
      PROVE  j = k
  <2>1. j <= m <=> k <= m
    BY <1>3, <1>4
  <2>2. CASE j <= m
    <3>1. j \in 1 .. m /\ k \in 1 .. m
      BY <1>2, <2>1, <2>2
    <3> QED
      BY <1>2, <1>4, <3>1 DEF Fresh
  <2>3. CASE ~(j <= m)
    <3>1. j > m /\ k > m /\ j \in 1 .. m + n /\ k \in 1 .. m + n
      BY <1>2, <2>1, <2>3
    <3>2. j - m = k - m
      BY <1>2, <1>4, <3>1 DEF Fresh
    <3> QED
      BY <1>2, <3>1, <3>2
  <2> QED
    BY <2>2, <2>3
<1>5. Fresh(u, I \cup J)
  BY <1>2, <1>3, <1>4 DEF Fresh
<1> QED
  BY <1>5 DEF u

LEMMA FreshOne ==
    ASSUME NEW e \in Event
    PROVE  Fresh(<<e>>, IF e.kind = "message" THEN {e.id} ELSE {})
<1>1. <<e>> \in Seq(Event) /\ DOMAIN <<e>> = {1} /\ <<e>>[1] = e
  OBVIOUS
<1> QED
  BY <1>1 DEF Fresh

LEMMA FreshEmpty == Fresh(<<>>, {})
<1>1. <<>> \in Seq(Event) /\ DOMAIN <<>> = {}
  OBVIOUS
<1> QED
  BY <1>1 DEF Fresh

LEMMA FreshMore ==
    ASSUME NEW I, NEW J, I \subseteq J, NEW s, Fresh(s, I)
    PROVE  Fresh(s, J)
  BY DEF Fresh

(* An update is one event of its own kind at most, after the raw one. *)
LEMMA FanOutFresh ==
    ASSUME ServerTyped, NEW i \in Numbers
    PROVE  Fresh(FanOut(i), {i})
<1> DEFINE raw == [kind |-> "raw", id |-> i]
           rest == CASE log[i].what = "post"   -> <<[kind |-> "message", id |-> i]>>
                     [] log[i].what = "delete" -> <<[kind |-> "deleted_message", id |-> i]>>
                     [] log[i].what = "touch"  -> IF mode = "socket"
                                                  THEN <<[kind |-> "chat_update", id |-> i]>>
                                                  ELSE <<>>
<1>1. i \in Nat /\ log[i] \in Entry
  BY DEF ServerTyped, Numbers
<1>2. log[i].what \in {"post", "touch", "delete"}
  BY <1>1 DEF Entry
<1>3. \A k \in EventKind : [kind |-> k, id |-> i] \in Event
  BY <1>1 DEF Event
<1>4. Fresh(<<raw>>, {})
  BY <1>3, FreshOne DEF EventKind
<1>5. Fresh(rest, {i})
  <2>1. CASE log[i].what = "post"
    <3>1. rest = <<[kind |-> "message", id |-> i]>>
      BY <2>1
    <3>2. Fresh(<<[kind |-> "message", id |-> i]>>, {i})
      BY <1>3, FreshOne DEF EventKind
    <3> QED
      BY <3>1, <3>2
  <2>2. CASE log[i].what = "delete"
    <3>1. rest = <<[kind |-> "deleted_message", id |-> i]>>
      BY <2>2
    <3>2. Fresh(<<[kind |-> "deleted_message", id |-> i]>>, {})
      BY <1>3, FreshOne DEF EventKind
    <3> HIDE DEF rest
    <3> QED
      BY <3>1, <3>2, FreshMore
  <2>3. CASE log[i].what = "touch"
    <3>1. rest = <<[kind |-> "chat_update", id |-> i]>> \/ rest = <<>>
      BY <2>3
    <3>2. Fresh(<<[kind |-> "chat_update", id |-> i]>>, {})
      BY <1>3, FreshOne DEF EventKind
    <3> HIDE DEF rest
    <3> QED
      BY <3>1, <3>2, FreshMore, FreshEmpty
  <2> QED
    BY <1>2, <2>1, <2>2, <2>3
<1>6. FanOut(i) = <<raw>> \o rest
  BY DEF FanOut
<1> HIDE DEF raw, rest
<1>7. Fresh(<<raw>> \o rest, {} \cup {i})
  BY <1>4, <1>5, FreshConcat
<1> QED
  BY <1>6, <1>7

LEMMA PollFresh ==
    ASSUME ServerTyped, NEW ids \in SUBSET Numbers
    PROVE  Fresh(PollBatch(ids), ids)
<1>1. Len(log) \in Nat
  BY DEF ServerTyped
<1>2. IsFiniteSet(ids) /\ ids \in SUBSET Int /\ ids \subseteq Nat
  <2>1. IsFiniteSet(Numbers) /\ Numbers \subseteq Int /\ Numbers \subseteq Nat
    BY <1>1, FS_Interval DEF Numbers
  <2> QED
    BY <2>1, FS_Subset
<1> DEFINE n == Cardinality(ids)
           a == Ascending(ids)
           s == [k \in 1 .. n |-> [kind |-> "message", id |-> a[k]]]
           raw == [kind |-> "raw", id |-> 0]
<1>3. n \in Nat /\ a \in [1 .. n -> ids] /\ \A j, k \in 1 .. n : a[j] = a[k] => j = k
  BY <1>2, AscendingLists
<1> HIDE DEF n, a
<1>4. \A k \in 1 .. n : s[k].kind = "message" /\ s[k].id = a[k] /\ s[k] \in Event
  BY <1>2, <1>3 DEF Event, EventKind
<1>5. s \in Seq(Event) /\ DOMAIN s = 1 .. n
  BY <1>3, <1>4
<1>6. Fresh(s, ids)
  <2> HIDE DEF s
  <2> QED
    BY <1>3, <1>4, <1>5 DEF Fresh
<1>7. Fresh(<<raw>>, {})
  <2>1. raw \in Event
    BY DEF Event, EventKind
  <2> QED
    BY <2>1, FreshOne
<1>8. PollBatch(ids) = <<>> \/ PollBatch(ids) = <<raw>> \o s
  BY DEF PollBatch, n, a
<1> HIDE DEF raw, s
<1>9. Fresh(<<raw>> \o s, {} \cup ids)
  BY <1>6, <1>7, FreshConcat
<1> QED
  BY <1>8, <1>9, FreshEmpty, FreshMore

(* FlattenSeq appends one sequence after the other. *)
Flattens(f, n, ss) == \A i \in 1 .. n : f[i] = IF i = 1 THEN ss[i] ELSE f[i - 1] \o ss[i]

LEMMA FlattenIs ==
    ASSUME NEW n \in Nat, n > 0, NEW ss, DOMAIN ss = 1 .. n, Len(ss) = n
    PROVE  \E f : Flattens(f, n, ss) /\ FlattenSeq(ss) = f[n]
<1> DEFINE Flat(f, m) == f = [i \in 1 .. m |-> IF i = 1 THEN ss[i] ELSE f[i - 1] \o ss[i]]
           Bad == {m \in Nat : ~\E f : Flat(f, m)}
<1>1. Bad = {}
  <2> SUFFICES ASSUME Bad # {} PROVE FALSE
    OBVIOUS
  <2>1. PICK m \in Bad : \A l \in Bad : m <= l
    BY LeastExists
  <2>2. m \in Nat /\ ~\E f : Flat(f, m)
    BY <2>1
  <2>3. CASE m = 0
    <3> DEFINE f == [i \in 1 .. m |-> 0]
    <3>1. Flat(f, m)
      BY <2>3
    <3> QED
      BY <2>2, <3>1
  <2>4. CASE m # 0
    <3>1. m - 1 \in Nat /\ ~(m <= m - 1)
      BY <2>2, <2>4
    <3>2. m - 1 \notin Bad
      BY <2>1, <3>1
    <3>3. PICK g : Flat(g, m - 1)
      BY <3>1, <3>2
    <3> DEFINE f == [i \in 1 .. m |-> IF i = 1 THEN ss[i] ELSE g[i - 1] \o ss[i]]
    <3>4. ASSUME NEW i \in 1 .. m, i # 1 PROVE g[i - 1] = f[i - 1]
      <4>1. i - 1 \in 1 .. m - 1 /\ i - 1 \in 1 .. m
        BY <2>2, <3>4
      <4> DEFINE k == i - 1
      <4> HIDE DEF k
      <4>2. k \in 1 .. m - 1 /\ k \in 1 .. m
        BY <4>1 DEF k
      <4>3. g[k] = IF k = 1 THEN ss[k] ELSE g[k - 1] \o ss[k]
        BY <3>3, <4>2
      <4>4. f[k] = IF k = 1 THEN ss[k] ELSE g[k - 1] \o ss[k]
        BY <4>2
      <4> QED
        BY <4>3, <4>4 DEF k
    <3>5. \A i \in 1 .. m : f[i] = IF i = 1 THEN ss[i] ELSE f[i - 1] \o ss[i]
      BY <3>4
    <3>6. f = [i \in 1 .. m |-> f[i]]
      OBVIOUS
    <3> HIDE DEF f
    <3>7. Flat(f, m)
      BY <3>5, <3>6
    <3> QED
      BY <2>2, <3>7
  <2> QED
    BY <2>3, <2>4
<1> DEFINE F == CHOOSE f : Flat(f, n)
<1>2. Flat(F, n)
  <2> HIDE DEF Flat
  <2>1. \E f : Flat(f, n)
    BY <1>1
  <2> QED
    BY <2>1
<1>3. FlattenSeq(ss) = F[n]
  BY DEF FlattenSeq
<1>4. Flattens(F, n, ss)
  BY <1>2 DEF Flattens
<1> HIDE DEF F
<1> QED
  BY <1>3, <1>4

LEMMA FlatFresh ==
    ASSUME ServerTyped, NEW ids \in SUBSET Numbers
    PROVE  Fresh(FlattenSeq([k \in 1 .. Cardinality(ids) |-> FanOut(Ascending(ids)[k])]), ids)
<1>1. Len(log) \in Nat
  BY DEF ServerTyped
<1>2. IsFiniteSet(ids) /\ ids \in SUBSET Int
  <2>1. IsFiniteSet(Numbers) /\ Numbers \subseteq Int
    BY <1>1, FS_Interval DEF Numbers
  <2> QED
    BY <2>1, FS_Subset
<1> DEFINE n == Cardinality(ids)
           a == Ascending(ids)
           ss == [k \in 1 .. n |-> FanOut(a[k])]
           First(m) == {a[k] : k \in 1 .. m}
<1>3. n \in Nat /\ a \in [1 .. n -> ids] /\ \A j, k \in 1 .. n : a[j] = a[k] => j = k
  BY <1>2, AscendingLists
<1> HIDE DEF n, a
<1>4. DOMAIN ss = 1 .. n /\ Len(ss) = n
  BY <1>3
<1>5. CASE n = 0
  <2>1. FlattenSeq(ss) = <<>>
    BY <1>4, <1>5 DEF FlattenSeq
  <2> QED
    BY <2>1, FreshEmpty, FreshMore DEF n, a
<1>6. CASE n # 0
  <2>1. PICK f : Flattens(f, n, ss) /\ FlattenSeq(ss) = f[n]
    <3>1. n > 0
      BY <1>3, <1>6
    <3> HIDE DEF ss
    <3> QED
      BY <1>3, <1>4, <3>1, FlattenIs, Zenon
  <2> DEFINE Bad == {m \in 1 .. n : ~Fresh(f[m], First(m))}
  <2>2. \A m \in 1 .. n : Fresh(FanOut(a[m]), {a[m]})
    BY <1>3, FanOutFresh
  <2>3. Bad = {}
    <3> SUFFICES ASSUME Bad # {} PROVE FALSE
      OBVIOUS
    <3>1. Bad \in SUBSET Nat
      OBVIOUS
    <3>2. PICK m \in Bad : \A l \in Bad : m <= l
      BY <3>1, LeastExists
    <3>3. m \in 1 .. n /\ ~Fresh(f[m], First(m))
      BY <3>2
    <3>4. CASE m = 1
      <4>1. f[m] = FanOut(a[m])
        BY <2>1, <3>3, <3>4 DEF Flattens
      <4>2. First(m) = {a[m]}
        BY <3>4
      <4> QED
        BY <2>2, <3>3, <4>1, <4>2
    <3>5. CASE m # 1
      <4>1. m - 1 \in 1 .. n /\ ~(m <= m - 1)
        BY <1>3, <3>3, <3>5
      <4> HIDE DEF Bad
      <4>2. m - 1 \notin Bad
        BY <3>2, <4>1
      <4>3. Fresh(f[m - 1], First(m - 1))
        BY <4>1, <4>2 DEF Bad
      <4>4. First(m - 1) \cap {a[m]} = {}
        BY <1>3, <3>3
      <4>5. First(m - 1) \cup {a[m]} = First(m)
        <5>1. 1 .. m = 1 .. (m - 1) \cup {m}
          BY <1>3, <3>3
        <5> QED
          BY <5>1
      <4>6. f[m] = f[m - 1] \o FanOut(a[m])
        BY <2>1, <3>3, <3>5 DEF Flattens
      <4> HIDE DEF First
      <4>7. Fresh(f[m - 1] \o FanOut(a[m]), First(m - 1) \cup {a[m]})
        BY <2>2, <3>3, <4>3, <4>4, FreshConcat
      <4> QED
        BY <3>3, <4>5, <4>6, <4>7
    <3> QED
      BY <3>4, <3>5
  <2>4. n \in 1 .. n
    BY <1>3, <1>6
  <2>5. Fresh(f[n], First(n)) /\ First(n) \subseteq ids
    BY <1>3, <2>3, <2>4
  <2> HIDE DEF First
  <2> QED
    BY <2>1, <2>5, FreshMore DEF n, a
<1> QED
  BY <1>5, <1>6

LEMMA FreshTail ==
    ASSUME NEW I, NEW s, Fresh(s, I), s # <<>>
    PROVE  /\ Fresh(Tail(s), I) /\ Head(s) \in Event
           /\ Head(s).kind = "message" => Head(s).id \in I
           /\ \A k \in DOMAIN Tail(s) :
                /\ \E l \in DOMAIN s : Tail(s)[k] = s[l]
                /\ Head(s).kind = "message" /\ Tail(s)[k].kind = "message" => Tail(s)[k].id # Head(s).id
           /\ \E l \in DOMAIN s : Head(s) = s[l]
<1>1. s \in Seq(Event)
  BY DEF Fresh
<1>2. /\ Len(s) \in Nat /\ Len(s) > 0 /\ Head(s) = s[1] /\ Head(s) \in Event /\ Tail(s) \in Seq(Event)
      /\ DOMAIN s = 1 .. Len(s) /\ DOMAIN Tail(s) = 1 .. Len(s) - 1
      /\ \A k \in 1 .. Len(s) - 1 : Tail(s)[k] = s[k + 1]
  BY <1>1
<1>3. /\ 1 \in DOMAIN s
      /\ \A k \in DOMAIN Tail(s) : k + 1 \in DOMAIN s /\ k + 1 # 1 /\ k \in Int
  BY <1>2
<1>4. ASSUME NEW j \in DOMAIN Tail(s), NEW k \in DOMAIN Tail(s),
             Tail(s)[j].kind = "message", Tail(s)[k].kind = "message", Tail(s)[j].id = Tail(s)[k].id
      PROVE  j = k
  <2>1. j + 1 = k + 1
    BY <1>2, <1>3, <1>4 DEF Fresh
  <2> QED
    BY <1>3, <2>1
<1>5. Fresh(Tail(s), I)
  <2>1. \A k \in DOMAIN Tail(s) : Tail(s)[k].kind = "message" => Tail(s)[k].id \in I
    BY <1>2, <1>3 DEF Fresh
  <2> QED
    BY <1>2, <1>4, <2>1 DEF Fresh
<1>6. Head(s).kind = "message" => Head(s).id \in I
  BY <1>2, <1>3 DEF Fresh
<1>7. ASSUME NEW k \in DOMAIN Tail(s) PROVE
         /\ \E l \in DOMAIN s : Tail(s)[k] = s[l]
         /\ Head(s).kind = "message" /\ Tail(s)[k].kind = "message" => Tail(s)[k].id # Head(s).id
  <2>1. Tail(s)[k] = s[k + 1] /\ k + 1 \in DOMAIN s /\ k + 1 # 1
    BY <1>2, <1>3
  <2> QED
    BY <1>2, <1>3, <2>1 DEF Fresh
<1> QED
  BY <1>2, <1>3, <1>5, <1>6, <1>7

(* What an answer gives the loop to dispatch. *)
LEMMA ArrivedTodo ==
    ASSUME ServerTyped, LoopTyped, ArriveAtLoop
    PROVE  /\ run' = [Idle EXCEPT !.todo = run'.todo]
           /\ \E ids \in SUBSET fetch["loop"].news :
                Fresh(run'.todo, ids) /\ (mode = "http" => ids = IsNews(fetch["loop"].news))
<1> DEFINE news == fetch["loop"].news
<1>1. news \in SUBSET Numbers
  BY DEF LoopTyped, Request, Fetcher
<1>2. CASE mode = "http"
  <2>1. run' = [Idle EXCEPT !.todo = PollBatch(IsNews(news))]
    BY <1>2 DEF ArriveAtLoop
  <2>2. run'.todo = PollBatch(IsNews(news)) /\ run' = [Idle EXCEPT !.todo = run'.todo]
    BY <2>1 DEF Idle
  <2>3. IsNews(news) \in SUBSET news
    BY DEF IsNews
  <2> HIDE DEF news
  <2>4. Fresh(PollBatch(IsNews(news)), IsNews(news))
    BY <1>1, <2>3, PollFresh
  <2> QED
    BY <2>2, <2>3, <2>4 DEF news
<1>3. CASE mode # "http"
  <2> DEFINE todo == FlattenSeq([k \in 1 .. Cardinality(news) |-> FanOut(Ascending(news)[k])])
  <2>1. run' = [Idle EXCEPT !.todo = todo]
    BY <1>3 DEF ArriveAtLoop
  <2>2. Fresh(todo, news)
    BY <1>1, FlatFresh
  <2> HIDE DEF todo, news
  <2>3. run'.todo = todo /\ run' = [Idle EXCEPT !.todo = run'.todo]
    BY <2>1 DEF Idle
  <2> QED
    BY <1>3, <2>2, <2>3 DEF news
<1> QED
  BY <1>2, <1>3

LEMMA HandlersIn ==
    ASSUME NEW s \in Seq(Handler)
    PROVE  ToSet(s) \subseteq Handler
  BY DEF ToSet

RunSet == [todo : Seq(Event), on : Event \cup {NoEvent}, groups : Seq(Int), line : Seq(Handler)]
TrackSet == [kept : SUBSET Handler, tried : SUBSET Handler, taken : SUBSET Int]

LEMMA RunStep ==
    ASSUME ServerTyped, LoopTyped, RegistryTyped(registry), RunTyped, TodoInv, WalkInv, [Next]_vars
    PROVE  RunTyped'
<1>0. /\ run \in RunSet /\ track \in TrackSet
      /\ Idle \in RunSet /\ NothingTracked \in TrackSet
  <2>1. <<>> \in Seq(Event) /\ <<>> \in Seq(Int) /\ <<>> \in Seq(Handler)
    OBVIOUS
  <2> QED
    BY <2>1 DEF RunTyped, RunSet, TrackSet, Idle, NothingTracked
<1>1. ASSUME run' \in RunSet, track' \in TrackSet PROVE RunTyped'
  BY <1>1 DEF RunTyped, RunSet, TrackSet, Event, EventKind, NoEvent
<1>2. CASE BeginEvent
  <2>1. Fresh(run.todo, Numbers) /\ run.todo # <<>>
    BY <1>2 DEF TodoInv, BeginEvent
  <2>2. Tail(run.todo) \in Seq(Event) /\ Head(run.todo) \in Event
    <3>1. Fresh(Tail(run.todo), Numbers) /\ Head(run.todo) \in Event
      BY <2>1, FreshTail
    <3> QED
      BY <3>1 DEF Fresh
  <2>3. SortedGroups \in Seq(Int)
    BY GroupsListed DEF RegistryTyped
  <2>4. run' = [todo |-> Tail(run.todo), on |-> Head(run.todo), groups |-> SortedGroups, line |-> <<>>]
    BY <1>2 DEF BeginEvent
  <2>5. track' = [NothingTracked EXCEPT !.kept = {h \in Handler : IsRegistered(h)}]
    BY <1>2 DEF BeginEvent
  <2>6. run' \in RunSet
    <3>1. <<>> \in Seq(Handler)
      OBVIOUS
    <3> QED
      BY <2>2, <2>3, <2>4, <3>1 DEF RunSet
  <2>7. track' \in TrackSet
    BY <1>0, <2>5 DEF TrackSet
  <2> QED
    BY <1>1, <2>6, <2>7
<1>3. CASE BeginGroup
  <2>1. run.groups \in Seq(Int) /\ run.groups # <<>> /\ run.on # NoEvent
    BY <1>0, <1>3 DEF RunSet, BeginGroup
  <2>2. Tail(run.groups) \in Seq(Int) /\ Head(run.groups) \in ToSet(run.groups)
    BY <2>1, HeadAndTail
  <2>3. Head(run.groups) \in DOMAIN registry
    BY <2>1, <2>2 DEF WalkInv
  <2>4. registry[Head(run.groups)] \in Seq(Handler)
    BY <2>3 DEF RegistryTyped
  <2> DEFINE line == Within(registry[Head(run.groups)], {h \in Handler : KindOf[h] = run.on.kind})
  <2>5. line \in Seq(Handler)
    BY <2>4, WithinKeeps
  <2>6. run' = [run EXCEPT !.groups = Tail(run.groups), !.line = line] /\ track' = track
    BY <1>3 DEF BeginGroup
  <2> HIDE DEF line
  <2>7. run' \in RunSet
    BY <1>0, <2>2, <2>5, <2>6 DEF RunSet
  <2> QED
    BY <1>0, <1>1, <2>6, <2>7
<1>4. ASSUME NEW outcome \in {"pass", "continue", "stop", "took"}, Try(outcome) PROVE RunTyped'
  <2>1. run.line \in Seq(Handler) /\ run.line # <<>>
    BY <1>0, <1>4 DEF RunSet, Try
  <2>2. Tail(run.line) \in Seq(Handler) /\ Head(run.line) \in Handler
    BY <2>1, HeadAndTail
  <2>3. \/ run' = [run EXCEPT !.line = Tail(run.line)]
        \/ run' = [run EXCEPT !.line = <<>>]
        \/ run' = [run EXCEPT !.on = NoEvent, !.groups = <<>>, !.line = <<>>]
    BY <1>4 DEF Try
  <2>4. track' = [track EXCEPT !.tried = track.tried \cup {Head(run.line)},
                               !.taken = IF outcome = "took" THEN track.taken \cup {GroupOf[Head(run.line)]}
                                         ELSE track.taken]
    BY <1>4 DEF Try
  <2>5. run' \in RunSet
    <3>1. <<>> \in Seq(Int) /\ <<>> \in Seq(Handler)
      OBVIOUS
    <3> QED
      BY <1>0, <2>2, <2>3, <3>1 DEF RunSet
  <2>6. GroupOf[Head(run.line)] \in Int
    BY <2>2, HandlerAssumption
  <2>7. track' \in TrackSet
    BY <1>0, <2>2, <2>4, <2>6 DEF TrackSet
  <2> QED
    BY <1>1, <2>5, <2>7
<1>5. CASE EndEvent
  <2>1. run' = [run EXCEPT !.on = NoEvent] /\ track' = NothingTracked
    BY <1>5 DEF EndEvent
  <2>2. run' \in RunSet
    BY <1>0, <2>1 DEF RunSet
  <2> QED
    BY <1>0, <1>1, <2>1, <2>2
<1>6. ASSUME NEW h \in Handler, RemoveHandler(h) PROVE RunTyped'
  <2>1. run' = run /\ track' = [track EXCEPT !.kept = track.kept \ {h}]
    BY <1>6 DEF RemoveHandler
  <2>2. track' \in TrackSet
    BY <1>0, <2>1 DEF TrackSet
  <2> QED
    BY <1>0, <1>1, <2>1, <2>2
<1>7. CASE ArriveAtLoop
  <2>1. run' = [Idle EXCEPT !.todo = run'.todo] /\ run'.todo \in Seq(Event)
    BY <1>7, ArrivedTodo DEF Fresh
  <2>2. run' \in RunSet
    BY <1>0, <2>1 DEF RunSet
  <2>3. track' = track
    BY <1>7 DEF ArriveAtLoop
  <2> QED
    BY <1>0, <1>1, <2>2, <2>3
<1>8. CASE Restart
  <2>1. run' = Idle /\ track' = NothingTracked
    BY <1>8 DEF Restart
  <2> QED
    BY <1>0, <1>1, <2>1
<1>9. ASSUME (\E f \in Fetcher : Ask(f) \/ Serve(f) \/ RequestFails(f)) \/ ArriveAtCaller \/ Forget
             \/ (\E h \in Handler : AddHandler(h))
             \/ (\E c \in Chat : Post(c) \/ Touch(c) \/ Delete(c))
             \/ UNCHANGED vars
      PROVE  RunTyped'
  <2>1. run' = run /\ track' = track
    BY <1>9 DEF Ask, Serve, ArriveAtCaller, RequestFails, AddHandler, Post, Touch, Delete, Change, Forget, vars
  <2> QED
    BY <1>0, <1>1, <2>1
<1> QED
  BY <1>2, <1>3, <1>4, <1>5, <1>6, <1>7, <1>8, <1>9 DEF Next, Loop, Fetcher

-----------------------------------------------------------------------------
(* The dispatcher's walk *)

LEMMA WalkStep ==
    ASSUME RegistryTyped(registry), RegistryTyped(registry'), RunTyped, WalkInv, ServerTyped, LoopTyped, TodoInv,
           [Next]_vars
    PROVE  WalkInv'
<1> USE DEF WalkInv
<1>0. /\ run \in RunSet /\ track \in TrackSet
      /\ \A h \in Handler : GroupOf[h] \in Int
  BY HandlerAssumption DEF RunTyped, RunSet, TrackSet
<1>1. ASSUME run'.on = NoEvent, run'.groups = <<>>, run'.line = <<>> PROVE WalkInv'
  BY <1>1
<1>2. CASE BeginEvent
  <2>1. run' = [todo |-> Tail(run.todo), on |-> Head(run.todo), groups |-> SortedGroups, line |-> <<>>]
    BY <1>2 DEF BeginEvent
  <2>2. track' = [NothingTracked EXCEPT !.kept = {h \in Handler : IsRegistered(h)}] /\ registry' = registry
    BY <1>2 DEF BeginEvent
  <2>3. run'.groups = SortedGroups /\ run'.line = <<>> /\ run'.on = Head(run.todo)
    BY <2>1
  <2>4. track'.kept = {h \in Handler : IsRegistered(h)} /\ track'.taken = {} /\ track'.tried = {}
    BY <2>2 DEF NothingTracked
  <2>5. IsInjective(SortedGroups) /\ ToSet(SortedGroups) = DOMAIN registry
    BY GroupsListed DEF RegistryTyped
  <2>6. ToSet(<<>>) = {}
    BY DEF ToSet
  <2>7. Head(run.todo) # NoEvent
    <3>1. Head(run.todo) \in Event
      BY <1>2, FreshTail DEF TodoInv, BeginEvent
    <3> QED
      BY <3>1 DEF Event, EventKind, NoEvent
  <2>8. \A h \in track'.kept : IsRegistered(h)' /\ GroupOf[h] \in ToSet(run'.groups)
    BY <2>2, <2>3, <2>4, <2>5 DEF IsRegistered
  <2> QED
    BY <2>2, <2>3, <2>4, <2>5, <2>6, <2>7, <2>8
<1>3. CASE BeginGroup
  <2> DEFINE g == Head(run.groups)
             line == Within(registry[g], {h \in Handler : KindOf[h] = run.on.kind})
  <2>1. run.groups \in Seq(Int) /\ run.groups # <<>> /\ run.on # NoEvent /\ run.line = <<>>
    BY <1>0, <1>3 DEF RunSet, BeginGroup
  <2>2. run' = [run EXCEPT !.groups = Tail(run.groups), !.line = line] /\ track' = track /\ registry' = registry
    BY <1>3 DEF BeginGroup
  <2>3. /\ ToSet(run.groups) = {g} \cup ToSet(Tail(run.groups))
        /\ IsInjective(Tail(run.groups)) /\ g \notin ToSet(Tail(run.groups))
    BY <2>1, HeadAndTail
  <2>4. g \in DOMAIN registry /\ registry[g] \in Seq(Handler)
    BY <2>1, <2>3 DEF RegistryTyped
  <2>5. line \in Seq(Handler) /\ ToSet(line) = ToSet(registry[g]) \cap {h \in Handler : KindOf[h] = run.on.kind}
    BY <2>4, WithinKeeps
  <2>6. \A h \in ToSet(line) : GroupOf[h] = g
    BY <2>4, <2>5 DEF RegistryTyped
  <2> HIDE DEF line, g
  <2>7. run'.groups = Tail(run.groups) /\ run'.line = line /\ run'.on = run.on
    BY <1>0, <2>2 DEF RunSet
  <2>8. ASSUME NEW h \in track.kept
        PROVE  /\ IsRegistered(h)'
               /\ \/ KindOf[h] # run.on.kind
                  \/ h \in track.tried
                  \/ GroupOf[h] \in track.taken
                  \/ h \in ToSet(line)
                  \/ GroupOf[h] \in ToSet(Tail(run.groups))
    <3>1. IsRegistered(h) /\ h \in Handler
      BY <1>0, <2>1, <2>8 DEF TrackSet
    <3>2. IsRegistered(h)'
      BY <2>2, <3>1 DEF IsRegistered
    <3>3. GroupOf[h] = g /\ KindOf[h] = run.on.kind => h \in ToSet(line)
      BY <2>5, <3>1 DEF IsRegistered
    <3>4. ToSet(run.line) = {}
      BY <2>1 DEF ToSet
    <3> QED
      BY <2>1, <2>3, <2>8, <3>2, <3>3, <3>4
  <2>9. \A h \in ToSet(line) : GroupOf[h] \notin track.taken \cup ToSet(Tail(run.groups))
    BY <2>1, <2>3, <2>6
  <2>10. ToSet(Tail(run.groups)) \subseteq DOMAIN registry' /\ ToSet(Tail(run.groups)) \cap track.taken = {}
    BY <2>1, <2>2, <2>3
  <2> QED
    BY <2>1, <2>2, <2>3, <2>6, <2>7, <2>8, <2>9, <2>10
<1>4. ASSUME NEW outcome \in {"pass", "continue", "stop", "took"}, Try(outcome) PROVE WalkInv'
  <2> DEFINE h == Head(run.line)
  <2>1. run.line \in Seq(Handler) /\ run.line # <<>> /\ run.on # NoEvent /\ registry' = registry
    BY <1>0, <1>4 DEF RunSet, Try
  <2>2. Tail(run.line) \in Seq(Handler) /\ h \in Handler /\ ToSet(run.line) = {h} \cup ToSet(Tail(run.line))
    BY <2>1, HeadAndTail
  <2>3. /\ track'.kept = track.kept /\ track'.tried = track.tried \cup {h}
        /\ track'.taken = IF outcome = "took" THEN track.taken \cup {GroupOf[h]} ELSE track.taken
    BY <1>0, <1>4 DEF Try, TrackSet
  <2>4. ASSUME NEW k \in track.kept
        PROVE  /\ IsRegistered(k)'
               /\ \/ KindOf[k] # run.on.kind
                  \/ k \in track.tried
                  \/ GroupOf[k] \in track.taken
                  \/ k \in {h} \cup ToSet(Tail(run.line))
                  \/ GroupOf[k] \in ToSet(run.groups)
    BY <2>1, <2>2 DEF IsRegistered
  <2>5. \A k \in {h} \cup ToSet(Tail(run.line)) :
           GroupOf[k] = GroupOf[h] /\ GroupOf[k] \notin track.taken \cup ToSet(run.groups)
    BY <2>1, <2>2
  <2> HIDE DEF h
  <2>6. CASE outcome \in {"pass", "continue"}
    <3>1. run' = [run EXCEPT !.line = Tail(run.line)]
      BY <1>4, <2>6 DEF Try
    <3>2. run'.line = Tail(run.line) /\ run'.groups = run.groups /\ run'.on = run.on
      BY <1>0, <3>1 DEF RunSet
    <3>3. track'.taken = track.taken
      BY <2>3, <2>6
    <3>4. \A x \in ToSet(run'.line) :
             GroupOf[x] \notin track.taken \cup ToSet(run.groups) /\ \A k \in ToSet(run'.line) : GroupOf[k] = GroupOf[x]
      BY <2>5, <3>2
    <3>5. \A k \in track'.kept :
              /\ IsRegistered(k)'
              /\ \/ KindOf[k] # run'.on.kind
                 \/ k \in track'.tried
                 \/ GroupOf[k] \in track'.taken
                 \/ k \in ToSet(run'.line)
                 \/ GroupOf[k] \in ToSet(run'.groups)
      BY <2>3, <2>4, <3>2, <3>3
    <3> QED
      BY <2>1, <3>2, <3>3, <3>4, <3>5
  <2>7. CASE outcome = "took"
    <3>1. run' = [run EXCEPT !.line = <<>>]
      BY <1>4, <2>7 DEF Try
    <3>2. run'.line = <<>> /\ run'.groups = run.groups /\ run'.on = run.on
      BY <1>0, <3>1 DEF RunSet
    <3>3. track'.taken = track.taken \cup {GroupOf[h]}
      BY <2>3, <2>7
    <3>4. ToSet(run'.line) = {}
      BY <3>2 DEF ToSet
    <3>5. \A k \in track'.kept :
              /\ IsRegistered(k)'
              /\ \/ KindOf[k] # run'.on.kind
                 \/ k \in track'.tried
                 \/ GroupOf[k] \in track'.taken
                 \/ GroupOf[k] \in ToSet(run'.groups)
      BY <2>3, <2>4, <2>5, <3>2, <3>3
    <3>6. ToSet(run.groups) \cap track'.taken = {}
      BY <2>1, <2>5, <3>3
    <3> QED
      BY <2>1, <3>2, <3>4, <3>5, <3>6
  <2>8. CASE outcome = "stop"
    <3>1. run' = [run EXCEPT !.on = NoEvent, !.groups = <<>>, !.line = <<>>]
      BY <1>4, <2>8 DEF Try
    <3>2. run'.on = NoEvent /\ run'.groups = <<>> /\ run'.line = <<>>
      BY <1>0, <3>1 DEF RunSet
    <3> QED
      BY <1>1, <3>2
  <2> QED
    BY <2>6, <2>7, <2>8
<1>5. CASE EndEvent
  <2>1. run'.on = NoEvent /\ run'.groups = run.groups /\ run'.line = run.line
    BY <1>0, <1>5 DEF RunSet, EndEvent
  <2> QED
    BY <1>1, <1>5, <2>1 DEF EndEvent
<1>6. ASSUME NEW x \in Handler, AddHandler(x) PROVE WalkInv'
  <2>1. run' = run /\ track' = track /\ registry' = Added(x)
    BY <1>6 DEF AddHandler
  <2>2. /\ DOMAIN registry \subseteq DOMAIN registry'
        /\ \A g \in DOMAIN registry : ToSet(registry[g]) \subseteq ToSet(registry'[g])
    BY <2>1, AddedTyped
  <2>3. \A h \in Handler : IsRegistered(h) => IsRegistered(h)'
    BY <2>2 DEF IsRegistered
  <2>4. track.kept \subseteq Handler
    BY <1>0 DEF TrackSet
  <2> QED
    BY <2>1, <2>2, <2>3, <2>4
<1>7. ASSUME NEW x \in Handler, RemoveHandler(x) PROVE WalkInv'
  <2>1. run' = run /\ track' = [track EXCEPT !.kept = track.kept \ {x}] /\ registry' = Removed(x)
    BY <1>7 DEF RemoveHandler
  <2>2. track'.kept = track.kept \ {x} /\ track'.tried = track.tried /\ track'.taken = track.taken
    BY <1>0, <2>1 DEF TrackSet
  <2>3. GroupOf[x] \in DOMAIN registry
    BY <1>7 DEF RemoveHandler, IsRegistered
  <2>4. /\ DOMAIN registry' = DOMAIN registry
        /\ \A g \in DOMAIN registry : ToSet(registry[g]) \ {x} \subseteq ToSet(registry'[g])
    BY <2>1, <2>3, RemovedTyped
  <2>5. \A h \in Handler \ {x} : IsRegistered(h) => IsRegistered(h)'
    BY <2>4 DEF IsRegistered
  <2>6. track.kept \subseteq Handler
    BY <1>0 DEF TrackSet
  <2>7. \A h \in track'.kept : h \in track.kept /\ (IsRegistered(h) => IsRegistered(h)')
    BY <2>2, <2>5, <2>6
  <2> QED
    BY <2>1, <2>2, <2>4, <2>7
<1>8. CASE ArriveAtLoop
  <2>1. run' = [Idle EXCEPT !.todo = run'.todo]
    BY <1>8, ArrivedTodo
  <2>2. run'.on = NoEvent /\ run'.groups = <<>> /\ run'.line = <<>>
    BY <2>1 DEF Idle
  <2> QED
    BY <1>1, <2>2
<1>9. CASE Restart
  <2>1. run'.on = NoEvent /\ run'.groups = <<>> /\ run'.line = <<>>
    BY <1>9 DEF Restart, Idle
  <2> QED
    BY <1>1, <2>1
<1>10. ASSUME (\E f \in Fetcher : Ask(f) \/ Serve(f) \/ RequestFails(f)) \/ ArriveAtCaller \/ Forget
             \/ (\E c \in Chat : Post(c) \/ Touch(c) \/ Delete(c))
             \/ UNCHANGED vars
      PROVE  WalkInv'
  <2>1. run' = run /\ track' = track /\ registry' = registry
    BY <1>10 DEF Ask, Serve, ArriveAtCaller, RequestFails, Post, Touch, Delete, Change, Forget, vars
  <2> QED
    BY <2>1 DEF IsRegistered
<1> QED
  BY <1>2, <1>3, <1>4, <1>5, <1>6, <1>7, <1>8, <1>9, <1>10 DEF Next, Loop, Fetcher

-----------------------------------------------------------------------------
(* A message is dispatched once *)

(* Messages wait in todo that are numbered. *)
LEMMA TodoNumbers ==
    ASSUME TodoInv, NEW k \in DOMAIN run.todo, run.todo[k].kind = "message"
    PROVE  run.todo[k].id \in Numbers
  BY DEF TodoInv, Fresh

LEMMA OnceKept ==
    ASSUME OnceInv, UNCHANGED <<mode, log, alive, stored, seen, fetch, dispatched, pruned>>, run'.todo = run.todo
    PROVE  OnceInv'
<1>1. TodoInv'
  BY DEF OnceInv, TodoInv, Fresh, Numbers, ChatOf
<1>2. mode = "http" => HttpOnce'
  BY DEF OnceInv, HttpOnce, ChatOf
<1>3. mode # "http" => LineOnce'
  BY DEF OnceInv, LineOnce, Known
<1> QED
  BY <1>1, <1>2, <1>3 DEF OnceInv

LEMMA OnceBegin ==
    ASSUME OnceInv, BeginEvent
    PROVE  OnceInv'
<1> DEFINE e == Head(run.todo)
<1>1. Fresh(run.todo, Numbers) /\ run.todo # <<>>
  BY DEF OnceInv, TodoInv, BeginEvent
<1>2. /\ Fresh(Tail(run.todo), Numbers)
      /\ \A k \in DOMAIN Tail(run.todo) :
           /\ \E l \in DOMAIN run.todo : Tail(run.todo)[k] = run.todo[l]
           /\ e.kind = "message" /\ Tail(run.todo)[k].kind = "message" => Tail(run.todo)[k].id # e.id
      /\ \E l \in DOMAIN run.todo : e = run.todo[l]
  BY <1>1, FreshTail
<1>3. run'.todo = Tail(run.todo)
  BY DEF BeginEvent
<1>4. UNCHANGED <<mode, log, alive, stored, seen, fetch, pruned>>
  BY DEF BeginEvent, server
<1>5. \A i \in dispatched' : i \in dispatched \/ (e.kind = "message" /\ i = e.id)
  BY DEF BeginEvent
<1> HIDE DEF e
<1>6. TodoInv'
  <2>1. Fresh(run'.todo, Numbers')
    BY <1>2, <1>3, <1>4 DEF Numbers
  <2>2. ASSUME NEW k \in DOMAIN run'.todo, run'.todo[k].kind = "message"
        PROVE  run'.todo[k].id \notin dispatched' \/ (mode = "http" /\ ChatOf(run'.todo[k].id) \in pruned)
    <3>1. PICK l \in DOMAIN run.todo : run'.todo[k] = run.todo[l]
      BY <1>2, <1>3, <2>2
    <3>2. e.kind = "message" => run'.todo[k].id # e.id
      BY <1>2, <1>3, <2>2
    <3>3. run'.todo[k].id \notin dispatched \/ (mode = "http" /\ ChatOf(run'.todo[k].id) \in pruned)
      BY <2>2, <3>1 DEF OnceInv, TodoInv
    <3> QED
      BY <1>4, <1>5, <3>2, <3>3 DEF ChatOf
  <2> QED
    BY <1>4, <2>1, <2>2 DEF TodoInv, ChatOf
<1>7. ASSUME mode = "http" PROVE HttpOnce'
  <2>1. ASSUME NEW c \in Chat \ pruned
        PROVE  /\ \A i \in dispatched' : ChatOf(i) = c => i <= seen[c]
               /\ \A k \in DOMAIN run'.todo :
                    run'.todo[k].kind = "message" /\ ChatOf(run'.todo[k].id) = c => run'.todo[k].id <= seen[c]
    <3>1. /\ \A i \in dispatched : ChatOf(i) = c => i <= seen[c]
          /\ \A l \in DOMAIN run.todo :
               run.todo[l].kind = "message" /\ ChatOf(run.todo[l].id) = c => run.todo[l].id <= seen[c]
      BY <1>7, <2>1 DEF OnceInv, HttpOnce
    <3>2. \A i \in dispatched' : ChatOf(i) = c => i <= seen[c]
      BY <1>2, <1>5, <3>1
    <3>3. \A k \in DOMAIN run'.todo : \E l \in DOMAIN run.todo : run'.todo[k] = run.todo[l]
      BY <1>2, <1>3
    <3> QED
      BY <3>1, <3>2, <3>3
  <2> QED
    BY <1>4, <1>7, <2>1 DEF OnceInv, HttpOnce, ChatOf
<1>8. ASSUME mode # "http" PROVE LineOnce'
  <2>1. Known' = Known
    BY <1>4 DEF Known
  <2>2. LineOnce
    BY <1>8 DEF OnceInv
  <2>3. \A i \in dispatched' : i <= Known
    BY <1>2, <1>5, <2>2 DEF LineOnce
  <2>4. \A k \in DOMAIN run'.todo : run'.todo[k].kind = "message" => run'.todo[k].id <= Known
    BY <1>2, <1>3, <2>2 DEF LineOnce
  <2> QED
    BY <1>4, <2>1, <2>2, <2>3, <2>4 DEF LineOnce
<1> QED
  BY <1>4, <1>6, <1>7, <1>8 DEF OnceInv

LEMMA OnceChange ==
    ASSUME OnceInv, ServerTyped, LoopTyped,
           NEW c \in Chat, NEW what \in {"post", "touch", "delete"}, Change(c, what),
           pruned \subseteq pruned', \A d \in Chat \ pruned' : alive[d] \subseteq alive'[d]
    PROVE  OnceInv'
<1>1. \A i \in Numbers : i \in Numbers' /\ log'[i] = log[i]
  BY ChangeAppends
<1>2. \A i \in Numbers : ChatOf(i)' = ChatOf(i)
  BY <1>1 DEF ChatOf
<1>3. UNCHANGED <<mode, stored, seen, fetch, run, dispatched>>
  BY DEF Change
<1>4. TodoInv
  BY DEF OnceInv
<1>5. dispatched \subseteq Numbers /\ fetch["loop"].news \subseteq Numbers
  BY DEF LoopTyped, Fetcher, Request
<1>6. TodoInv'
  <2>1. Fresh(run.todo, Numbers')
    BY <1>1, <1>4, FreshMore DEF TodoInv
  <2>2. ASSUME NEW k \in DOMAIN run.todo, run.todo[k].kind = "message"
        PROVE  run.todo[k].id \notin dispatched \/ (mode = "http" /\ ChatOf(run.todo[k].id)' \in pruned')
    <3>1. ChatOf(run.todo[k].id)' = ChatOf(run.todo[k].id)
      <4>1. run.todo[k].id \in Numbers
        BY <1>4, <2>2, TodoNumbers
      <4>2. ChatOf(run.todo[k].id)' = log'[run.todo[k].id].chat
        BY <1>3 DEF ChatOf
      <4> QED
        BY <1>1, <4>1, <4>2 DEF ChatOf
    <3> QED
      BY <1>4, <2>2, <3>1 DEF TodoInv
  <2> QED
    BY <1>3, <2>1, <2>2 DEF TodoInv, ChatOf
<1>7. ASSUME mode = "http" PROVE HttpOnce'
  <2>1. HttpOnce
    BY <1>7 DEF OnceInv
  <2>2. fetch["loop"].pc = "answered" =>
          \A i, j \in fetch["loop"].news : ChatOf(i)' = ChatOf(j)' => i = j
    BY <1>2, <1>5, <2>1 DEF HttpOnce
  <2>3. ASSUME NEW d \in Chat \ pruned'
        PROVE  /\ seen[d] # 0 => seen[d] \in alive'[d]
               /\ \A i \in dispatched : ChatOf(i)' = d => i <= seen[d]
               /\ \A k \in DOMAIN run.todo :
                     run.todo[k].kind = "message" /\ log'[run.todo[k].id].chat = d => run.todo[k].id <= seen[d]
               /\ fetch["loop"].pc = "answered" =>
                     \A i \in fetch["loop"].news : ChatOf(i)' = d => i \in alive'[d] /\ seen[d] <= i
    <3>1. d \in Chat \ pruned /\ alive[d] \subseteq alive'[d]
      BY <2>3
    <3>2. \A i \in dispatched : ChatOf(i)' = d => i <= seen[d]
      BY <1>2, <1>5, <2>1, <3>1 DEF HttpOnce
    <3>3. \A k \in DOMAIN run.todo :
             run.todo[k].kind = "message" /\ log'[run.todo[k].id].chat = d => run.todo[k].id <= seen[d]
      BY <1>1, <1>4, <2>1, <3>1, TodoNumbers DEF HttpOnce, ChatOf
    <3>4. fetch["loop"].pc = "answered" =>
             \A i \in fetch["loop"].news : ChatOf(i)' = d => i \in alive'[d] /\ seen[d] <= i
      BY <1>2, <1>5, <2>1, <3>1 DEF HttpOnce
    <3> QED
      BY <2>1, <3>1, <3>2, <3>3, <3>4 DEF HttpOnce
  <2> QED
    BY <1>3, <2>2, <2>3 DEF HttpOnce, ChatOf
<1>8. ASSUME mode # "http" PROVE LineOnce'
  BY <1>3, <1>8 DEF OnceInv, LineOnce, Known
<1> QED
  BY <1>3, <1>6, <1>7, <1>8 DEF OnceInv

(* The position and the requests move, nothing arrives. *)
LEMMA OnceFetch ==
    ASSUME OnceInv, UNCHANGED <<mode, log, alive, seen, run, dispatched, pruned>>,
           mode = "http" /\ fetch'["loop"].pc = "answered" =>
              fetch["loop"].pc = "answered" /\ fetch'["loop"].news = fetch["loop"].news,
           mode # "http" => LineOnce'
    PROVE  OnceInv'
<1>1. TodoInv'
  BY DEF OnceInv, TodoInv, Fresh, Numbers, ChatOf
<1>2. mode = "http" => HttpOnce'
  BY DEF OnceInv, HttpOnce, ChatOf
<1> QED
  BY <1>1, <1>2 DEF OnceInv

LEMMA OnceAsk ==
    ASSUME OnceInv, ServerTyped, LoopTyped, NEW f \in Fetcher, Ask(f)
    PROVE  OnceInv'
<1>1. UNCHANGED <<mode, log, alive, stored, seen, run, dispatched, pruned>>
  BY DEF Ask, server
<1>2. fetch \in [Fetcher -> Request] /\ {"loop", "manual"} \subseteq Fetcher
  BY DEF LoopTyped, Fetcher
<1> DEFINE from == IF mode = "socket" THEN fetch[f].from ELSE Position
<1>3. fetch' = [fetch EXCEPT ![f] = [NoRequest(f) EXCEPT !.pc = "asked", !.from = from]]
  BY DEF Ask
<1>4. mode = "http" /\ fetch'["loop"].pc = "answered" =>
         fetch["loop"].pc = "answered" /\ fetch'["loop"].news = fetch["loop"].news
  <2> HIDE DEF from
  <2> QED
    BY <1>2, <1>3 DEF NoRequest
<1>5. ASSUME mode # "http" PROVE LineOnce'
  <2>1. f = "loop" /\ LineOnce
    BY <1>5 DEF Ask, OnceInv, Fetcher
  <2>2. from = Known
    BY <1>5, <2>1 DEF Position, Known, None
  <2> HIDE DEF from
  <2>3. fetch'["loop"].pc = "asked" /\ fetch'["loop"].from = from /\ fetch'["manual"] = fetch["manual"]
    BY <1>2, <1>3, <2>1 DEF NoRequest
  <2>4. Known' = Known
    BY <1>1, <2>2, <2>3 DEF Known
  <2> QED
    BY <1>1, <2>1, <2>2, <2>3, <2>4 DEF LineOnce
<1> QED
  BY <1>1, <1>4, <1>5, OnceFetch

LEMMA OnceFails ==
    ASSUME OnceInv, ServerTyped, LoopTyped, NEW f \in Fetcher, RequestFails(f)
    PROVE  OnceInv'
<1>1. UNCHANGED <<mode, log, alive, stored, seen, run, dispatched, pruned>>
  BY DEF RequestFails, server
<1>2. fetch \in [Fetcher -> Request] /\ {"loop", "manual"} \subseteq Fetcher
  BY DEF LoopTyped, Fetcher
<1> DEFINE from == fetch[f].from
<1>3. fetch' = [fetch EXCEPT ![f] = [NoRequest(f) EXCEPT !.from = from]] /\ fetch[f].pc = "asked"
  BY DEF RequestFails
<1> HIDE DEF from
<1>4. mode = "http" /\ fetch'["loop"].pc = "answered" =>
         fetch["loop"].pc = "answered" /\ fetch'["loop"].news = fetch["loop"].news
  BY <1>2, <1>3 DEF NoRequest
<1>5. ASSUME mode # "http" PROVE LineOnce'
  <2>1. LineOnce
    BY <1>5 DEF OnceInv
  <2>2. f = "loop"
    BY <1>3, <2>1 DEF LineOnce, Fetcher
  <2>3. fetch'["loop"].pc = "ready" /\ fetch'["loop"].from = from /\ fetch'["manual"] = fetch["manual"]
    BY <1>2, <1>3, <2>2 DEF NoRequest
  <2>4. Known' = Known
    BY <1>1, <2>2, <2>3 DEF Known, from
  <2> QED
    BY <1>1, <2>1, <2>3, <2>4 DEF LineOnce
<1> QED
  BY <1>1, <1>4, <1>5, OnceFetch

LEMMA OnceCaller ==
    ASSUME OnceInv, ServerTyped, LoopTyped, ArriveAtCaller
    PROVE  OnceInv'
<1>1. UNCHANGED <<mode, log, alive, seen, run, dispatched, pruned>>
  BY DEF ArriveAtCaller, server
<1>2. fetch'["loop"] = fetch["loop"]
  BY DEF LoopTyped, ArriveAtCaller, Fetcher
<1>3. mode = "http"
  BY DEF ArriveAtCaller, OnceInv, LineOnce
<1> QED
  BY <1>1, <1>2, <1>3, OnceFetch

LEMMA OnceServe ==
    ASSUME OnceInv, ServerTyped, LoopTyped, NEW f \in Fetcher, Serve(f)
    PROVE  OnceInv'
<1>1. UNCHANGED <<mode, log, alive, stored, seen, run, dispatched, pruned>>
  BY DEF Serve, server
<1>2. fetch \in [Fetcher -> Request] /\ {"loop", "manual"} \subseteq Fetcher
  BY DEF LoopTyped, Fetcher
<1> DEFINE from == fetch[f].from
<1>3. PICK a \in Answers(from) :
         fetch' = [fetch EXCEPT ![f] = [pc |-> "answered", from |-> from,
                                        old |-> a.old, upto |-> a.upto, news |-> a.news]]
  BY DEF Serve
<1>4. from \in 0 .. Len(log) /\ fetch[f].pc = "asked"
  BY <1>2 DEF Request, Serve
<1>5. /\ a.news \subseteq Numbers /\ a.upto \in 0 .. Len(log)
      /\ mode = "http" => \A i \in a.news : i \in alive[ChatOf(i)] /\ Newest(ChatOf(i)) = i
      /\ mode # "http" => from <= a.upto /\ \A i \in a.news : from < i /\ i <= a.upto
  BY <1>3, <1>4, AnswersAre
<1>6. CASE f = "manual"
  <2>1. mode = "http"
    BY <1>4, <1>6 DEF OnceInv, LineOnce
  <2>2. fetch'["loop"] = fetch["loop"]
    BY <1>2, <1>3, <1>6
  <2> QED
    BY <1>1, <2>1, <2>2, OnceFetch
<1>7. CASE f = "loop"
  <2>1. /\ fetch'["loop"].pc = "answered" /\ fetch'["loop"].news = a.news
        /\ fetch'["loop"].from = from /\ fetch'["loop"].upto = a.upto /\ fetch'["manual"] = fetch["manual"]
    BY <1>2, <1>3, <1>7
  <2> HIDE DEF from
  <2>2. ASSUME mode = "http" PROVE HttpOnce'
    <3>1. HttpOnce
      BY <2>2 DEF OnceInv
    <3>2. \A i, j \in a.news : ChatOf(i) = ChatOf(j) => i = j
      BY <1>5, <2>2
    <3>3. ASSUME NEW c \in Chat \ pruned, NEW i \in a.news, ChatOf(i) = c
          PROVE  i \in alive[c] /\ seen[c] <= i
      <4>1. i \in alive[c] /\ Newest(c) = i
        BY <1>5, <2>2, <3>3
      <4>2. seen[c] # 0 => seen[c] \in alive[c]
        BY <3>1, <3>3 DEF HttpOnce
      <4>3. \A j \in alive[c] : j <= i
        BY <3>3, <4>1, NewestIs
      <4>4. i \in Nat /\ seen[c] \in Nat
        BY <1>5, <3>3 DEF Numbers, LoopTyped, ServerTyped
      <4> QED
        BY <4>1, <4>2, <4>3, <4>4
    <3> QED
      BY <1>1, <2>1, <3>1, <3>2, <3>3 DEF HttpOnce, ChatOf
  <2>3. ASSUME mode # "http" PROVE LineOnce'
    <3>1. LineOnce
      BY <2>3 DEF OnceInv
    <3>2. from = Known
      BY <1>4, <1>7, <3>1 DEF LineOnce, from
    <3>3. Known' = Known
      BY <1>1, <2>1, <3>2 DEF Known
    <3> QED
      BY <1>1, <1>5, <2>1, <2>3, <3>1, <3>2, <3>3 DEF LineOnce
  <2>4. TodoInv'
    BY <1>1 DEF OnceInv, TodoInv, Fresh, Numbers, ChatOf
  <2> QED
    BY <1>1, <2>2, <2>3, <2>4 DEF OnceInv
<1> QED
  BY <1>6, <1>7 DEF Fetcher

LEMMA OnceArrive ==
    ASSUME OnceInv, ServerTyped, LoopTyped, ArriveAtLoop
    PROVE  OnceInv'
<1> DEFINE answer == fetch["loop"]
           news == answer.news
<1>1. UNCHANGED <<mode, log, alive, dispatched, pruned>> /\ stored' = Stored(answer) /\ answer.pc = "answered"
  BY DEF ArriveAtLoop, server
<1>2. fetch \in [Fetcher -> Request] /\ {"loop", "manual"} \subseteq Fetcher
  BY DEF LoopTyped, Fetcher
<1>3. fetch' = [fetch EXCEPT !["loop"] = [NoRequest("loop") EXCEPT !.from = answer.upto]]
  BY DEF ArriveAtLoop
<1>4. fetch'["loop"].pc = "ready" /\ fetch'["loop"].from = answer.upto /\ fetch'["manual"] = fetch["manual"]
  BY <1>2, <1>3 DEF NoRequest
<1>5. PICK ids \in SUBSET news : Fresh(run'.todo, ids) /\ (mode = "http" => ids = IsNews(news))
  BY ArrivedTodo
<1>6. news \subseteq Numbers /\ dispatched \subseteq Numbers /\ answer.upto \in Nat /\ Len(log) \in Nat
  BY <1>2 DEF Request, LoopTyped, ServerTyped
<1>7. \A k \in DOMAIN run'.todo : run'.todo[k].kind = "message" => run'.todo[k].id \in ids
  BY <1>5 DEF Fresh
<1>8. Fresh(run'.todo, Numbers')
  <2>1. ids \subseteq Numbers'
    BY <1>1, <1>5, <1>6 DEF Numbers
  <2> QED
    BY <1>5, <2>1, FreshMore
<1> HIDE DEF news, answer
<1>9. ASSUME \A i \in ids : i \notin dispatched \/ (mode = "http" /\ ChatOf(i) \in pruned)
      PROVE  TodoInv'
  BY <1>1, <1>7, <1>8, <1>9 DEF TodoInv, ChatOf
<1>10. CASE mode = "http"
  <2>1. HttpOnce /\ ids = {i \in news : seen[log[i].chat] \notin {0, i}}
    BY <1>5, <1>10 DEF OnceInv, IsNews
  <2>2. seen' = [c \in Chat |-> IF \E i \in news : log[i].chat = c
                                THEN CHOOSE i \in news : log[i].chat = c ELSE seen[c]]
    BY <1>10 DEF ArriveAtLoop, answer, news
  <2>3. ASSUME NEW i \in news PROVE ChatOf(i) \in Chat /\ seen'[ChatOf(i)] = i
    <3>1. log[i] \in Entry
      BY <1>6, <2>3 DEF ServerTyped, Numbers
    <3>2. ChatOf(i) \in Chat
      BY <3>1 DEF Entry, ChatOf
    <3>3. \A j \in news : log[j].chat = ChatOf(i) => j = i
      BY <1>1, <2>1, <2>3 DEF HttpOnce, ChatOf, answer, news
    <3>4. (CHOOSE j \in news : log[j].chat = ChatOf(i)) = i
      BY <2>3, <3>3 DEF ChatOf
    <3> QED
      BY <2>2, <2>3, <3>2, <3>4 DEF ChatOf
  <2>4. ASSUME NEW c \in Chat, \A i \in news : ChatOf(i) # c PROVE seen'[c] = seen[c]
    BY <2>2, <2>4 DEF ChatOf
  <2>5. \A c \in Chat : seen[c] \in Nat /\ seen'[c] \in Nat
    <3>1. \A c \in Chat : seen[c] \in Nat
      BY <1>6 DEF LoopTyped
    <3>2. \A i \in news : i \in Nat
      BY <1>6 DEF Numbers
    <3> QED
      BY <2>3, <2>4, <3>1, <3>2
  <2>6. ASSUME NEW i \in news, ChatOf(i) \notin pruned
        PROVE i \in alive[ChatOf(i)] /\ seen[ChatOf(i)] <= i
    BY <1>1, <2>1, <2>3, <2>6 DEF HttpOnce, answer, news
  <2>7. ASSUME NEW c \in Chat \ pruned
        PROVE  /\ seen[c] <= seen'[c]
               /\ seen'[c] # 0 => seen'[c] \in alive[c]
               /\ \A i \in dispatched : ChatOf(i) = c => i <= seen'[c]
    <3>1. CASE \E i \in news : ChatOf(i) = c
      <4>1. PICK i \in news : ChatOf(i) = c
        BY <3>1
      <4>2. seen'[c] = i /\ i \in alive[c] /\ seen[c] <= i
        BY <2>3, <2>6, <2>7, <4>1
      <4>3. \A j \in dispatched : ChatOf(j) = c => j <= seen[c] /\ j \in Nat
        BY <1>6, <2>1, <2>7 DEF HttpOnce, Numbers
      <4> QED
        BY <2>5, <4>2, <4>3
    <3>2. CASE \A i \in news : ChatOf(i) # c
      BY <2>1, <2>4, <2>5, <2>7, <3>2 DEF HttpOnce
    <3> QED
      BY <3>1, <3>2
  <2>8. ASSUME NEW i \in ids PROVE i \notin dispatched \/ ChatOf(i) \in pruned
    <3> SUFFICES ASSUME i \in dispatched, ChatOf(i) \notin pruned PROVE FALSE
      OBVIOUS
    <3>1. i \in news /\ seen[ChatOf(i)] # i /\ i \in Nat
      BY <1>6, <2>1 DEF ChatOf, Numbers
    <3>2. i <= seen[ChatOf(i)] /\ seen[ChatOf(i)] <= i
      BY <2>1, <2>3, <2>6, <3>1 DEF HttpOnce
    <3> QED
      BY <2>3, <2>5, <3>1, <3>2
  <2>9. HttpOnce'
    <3>1. ASSUME NEW c \in Chat \ pruned, NEW k \in DOMAIN run'.todo, run'.todo[k].kind = "message",
                 ChatOf(run'.todo[k].id) = c
          PROVE  run'.todo[k].id <= seen'[c]
      <4>1. run'.todo[k].id \in news
        BY <1>5, <1>7, <3>1
      <4> QED
        BY <2>3, <2>5, <3>1, <4>1
    <3> QED
      BY <1>1, <1>4, <2>7, <3>1 DEF HttpOnce, ChatOf
  <2> QED
    BY <1>1, <1>9, <1>10, <2>8, <2>9 DEF OnceInv
<1>11. CASE mode # "http"
  <2>1. LineOnce
    BY <1>11 DEF OnceInv
  <2>2. /\ answer.from = Known /\ Known <= answer.upto
        /\ \A i \in news : Known < i /\ i <= answer.upto
    BY <1>1, <2>1 DEF LineOnce, answer, news
  <2>3. mode \in {"bot", "socket"}
    BY <1>11, ModesAssumption DEF ServerTyped
  <2>4. Known \in Int
    BY <1>2, <1>6 DEF Known, Request, LoopTyped, None
  <2>5. /\ Known <= Known' /\ Known' \in Int
        /\ news # {} => Known' = answer.upto
    <3>1. CASE mode = "socket"
      BY <1>1, <1>4, <1>6, <2>2, <3>1 DEF Known
    <3>2. CASE mode = "bot" /\ news = {}
      BY <1>1, <2>4, <3>2 DEF Known, Stored, news
    <3>3. CASE mode = "bot" /\ news # {}
      <4>1. stored' = answer.upto /\ answer.upto # None
        BY <1>1, <1>6, <3>3 DEF Stored, news, None
      <4> QED
        BY <1>1, <1>6, <2>2, <3>3, <4>1 DEF Known
    <3> QED
      BY <2>3, <3>1, <3>2, <3>3
  <2>6. \A i \in dispatched : i \in Int /\ i <= Known
    BY <1>6, <2>1 DEF LineOnce, Numbers
  <2>7. \A i \in ids : i \notin dispatched /\ i <= Known' /\ i \in Int
    <3>1. \A i \in ids : i \in news /\ i \in Int
      BY <1>5, <1>6 DEF Numbers
    <3> QED
      BY <2>2, <2>4, <2>5, <2>6, <3>1
  <2>8. LineOnce'
    <3>1. \A i \in dispatched' : i <= Known'
      BY <1>1, <2>4, <2>5, <2>6
    <3>2. \A k \in DOMAIN run'.todo : run'.todo[k].kind = "message" => run'.todo[k].id <= Known'
      BY <1>7, <2>7
    <3> QED
      BY <1>4, <2>1, <3>1, <3>2 DEF LineOnce
  <2> QED
    BY <1>1, <1>9, <1>11, <2>7, <2>8 DEF OnceInv
<1> QED
  BY <1>10, <1>11

LEMMA OnceRestart ==
    ASSUME OnceInv, ServerTyped, LoopTyped, Restart
    PROVE  OnceInv'
<1>1. UNCHANGED <<mode, log, alive, stored, pruned>> /\ run' = Idle /\ seen' = [c \in Chat |-> 0]
  BY DEF Restart, server
<1>2. dispatched' = IF mode = "http" THEN {} ELSE dispatched
  BY DEF Restart
<1> DEFINE from == IF mode = "socket" THEN Len(log) ELSE 0
<1>3. fetch' = [f \in Fetcher |-> [NoRequest(f) EXCEPT !.from = from]]
  BY DEF Restart
<1>4. fetch'["loop"].pc = "ready" /\ fetch'["loop"].from = from /\ fetch'["manual"].pc = "off"
  <2> HIDE DEF from
  <2> QED
    BY <1>3 DEF Fetcher, NoRequest
<1>5. run'.todo = <<>> /\ DOMAIN run'.todo = {}
  BY <1>1 DEF Idle
<1>6. Len(log) \in Nat /\ dispatched \subseteq Numbers
  BY DEF ServerTyped, LoopTyped
<1>7. TodoInv'
  <2>1. Fresh(run'.todo, Numbers')
    BY <1>5, FreshEmpty, FreshMore
  <2> QED
    BY <1>5, <2>1 DEF TodoInv
<1>8. ASSUME mode = "http" PROVE HttpOnce'
  BY <1>1, <1>2, <1>4, <1>5, <1>8 DEF HttpOnce
<1>9. ASSUME mode # "http" PROVE LineOnce'
  <2>1. LineOnce
    BY <1>9 DEF OnceInv
  <2>2. \A i \in dispatched : i <= Known'
    <3>1. CASE mode = "socket"
      BY <1>1, <1>4, <1>6, <3>1 DEF Known, Numbers
    <3>2. CASE mode # "socket"
      <4>1. Known' = Known
        BY <1>1, <3>2 DEF Known
      <4> QED
        BY <2>1, <4>1 DEF LineOnce
    <3> QED
      BY <3>1, <3>2
  <2> QED
    BY <1>2, <1>4, <1>5, <1>9, <2>2 DEF LineOnce
<1> QED
  BY <1>1, <1>7, <1>8, <1>9 DEF OnceInv

LEMMA OnceStep ==
    ASSUME OnceInv, ServerTyped, LoopTyped, RunTyped, [Next]_vars
    PROVE  OnceInv'
<1>0. run \in RunSet
  BY DEF RunTyped, RunSet
<1>1. ASSUME NEW c \in Chat, Post(c) PROVE OnceInv'
  <2>1. Change(c, "post") /\ pruned' = pruned /\ alive' = [alive EXCEPT ![c] = @ \cup {Len(log) + 1}]
    BY <1>1 DEF Post
  <2>2. \A d \in Chat : alive[d] \subseteq alive'[d]
    BY <2>1 DEF ServerTyped
  <2> QED
    BY <2>1, <2>2, OnceChange
<1>2. ASSUME NEW c \in Chat, Touch(c) PROVE OnceInv'
  <2>1. Change(c, "touch") /\ pruned' = pruned /\ alive' = alive
    BY <1>2 DEF Touch
  <2> QED
    BY <2>1, OnceChange
<1>3. ASSUME NEW c \in Chat, Delete(c) PROVE OnceInv'
  <2>1. Change(c, "delete") /\ pruned' = pruned \cup {c} /\ alive' = [alive EXCEPT ![c] = @ \ {Newest(c)}]
    BY <1>3 DEF Delete
  <2>2. \A d \in Chat \ pruned' : alive[d] \subseteq alive'[d]
    BY <2>1 DEF ServerTyped
  <2> QED
    BY <2>1, <2>2, OnceChange
<1>4. ASSUME \/ BeginGroup \/ EndEvent \/ Forget
             \/ \E outcome \in {"pass", "continue", "stop", "took"} : Try(outcome)
             \/ \E h \in Handler : AddHandler(h) \/ RemoveHandler(h)
             \/ UNCHANGED vars
      PROVE  OnceInv'
  <2>1. UNCHANGED <<mode, log, alive, stored, seen, fetch, dispatched, pruned>>
    BY <1>4 DEF BeginGroup, EndEvent, Forget, Try, AddHandler, RemoveHandler, vars, server
  <2>2. run'.todo = run.todo
    BY <1>0, <1>4 DEF BeginGroup, EndEvent, Forget, Try, AddHandler, RemoveHandler, vars, RunSet
  <2> QED
    BY <2>1, <2>2, OnceKept
<1> QED
  BY <1>1, <1>2, <1>3, <1>4, OnceBegin, OnceAsk, OnceFails, OnceCaller, OnceServe, OnceArrive, OnceRestart
     DEF Next, Loop, Fetcher

-----------------------------------------------------------------------------
(* The theorems *)

Inv == Typed /\ WalkInv /\ OnceInv

LEMMA InvInit == Init => Inv
<1> SUFFICES ASSUME Init PROVE Inv
  OBVIOUS
<1>1. /\ mode \in Modes /\ log = <<>> /\ alive = [c \in Chat |-> {}] /\ floor = 0 /\ stored = None
      /\ seen = [c \in Chat |-> 0] /\ registry = InitialRegistry /\ run = Idle
      /\ due = {} /\ dispatched = {} /\ pruned = {} /\ track = NothingTracked
  BY DEF Init
<1>2. fetch = [f \in Fetcher |-> NoRequest(f)]
  BY DEF Init
<1>3. Len(log) = 0 /\ log \in Seq(Entry) /\ MaxLog \in Nat
  BY <1>1, BoundsAssumption
<1>4. ServerTyped
  BY <1>1, <1>3 DEF ServerTyped
<1>5. LoopTyped
  <2>1. 0 \in 0 .. Len(log)
    BY <1>3
  <2>2. \A f \in Fetcher : NoRequest(f) \in Request
    <3>1. Len(log) \in Nat
      BY <1>3
    <3> QED
      BY <2>1, <3>1, NoRequestTyped
  <2>3. fetch \in [Fetcher -> Request]
    BY <1>2, <2>2
  <2> QED
    BY <1>1, <2>1, <2>3 DEF LoopTyped
<1>6. RegistryTyped(registry)
  BY <1>1, InitialRegistryTyped
<1>7. RunTyped
  <2>1. <<>> \in Seq(Event) /\ <<>> \in Seq(Int) /\ <<>> \in Seq(Handler)
    OBVIOUS
  <2> QED
    BY <1>1, <2>1 DEF RunTyped, Idle, NothingTracked
<1>8. WalkInv
  BY <1>1 DEF WalkInv, Idle
<1>9. OnceInv
  <2>1. run.todo = <<>> /\ DOMAIN run.todo = {}
    BY <1>1 DEF Idle
  <2>2. Fresh(run.todo, Numbers)
    BY <2>1, FreshEmpty, FreshMore
  <2>3. fetch["loop"].pc = "ready" /\ fetch["manual"].pc = "off"
    BY <1>2 DEF Fetcher, NoRequest
  <2>4. HttpOnce
    BY <1>1, <2>1, <2>3 DEF HttpOnce
  <2>5. LineOnce
    BY <1>1, <2>1, <2>3 DEF LineOnce
  <2>6. TodoInv
    BY <2>1, <2>2 DEF TodoInv
  <2> QED
    BY <2>4, <2>5, <2>6 DEF OnceInv
<1> QED
  BY <1>4, <1>5, <1>6, <1>7, <1>8, <1>9 DEF Inv, Typed

LEMMA InvStep == Inv /\ [Next]_vars => Inv'
<1> SUFFICES ASSUME Inv, [Next]_vars PROVE Inv'
  OBVIOUS
<1>1. ServerTyped /\ LoopTyped /\ RegistryTyped(registry) /\ RunTyped /\ WalkInv /\ OnceInv /\ TodoInv
  BY DEF Inv, Typed, OnceInv
<1>2. ServerTyped'
  BY <1>1, ServerStep
<1>3. LoopTyped'
  BY <1>1, <1>2, LoopStep
<1>4. RegistryTyped(registry')
  BY <1>1, RegistryStep
<1>5. RunTyped'
  BY <1>1, RunStep
<1>6. WalkInv'
  BY <1>1, <1>4, WalkStep
<1>7. OnceInv'
  BY <1>1, OnceStep
<1> QED
  BY <1>2, <1>3, <1>4, <1>5, <1>6, <1>7 DEF Inv, Typed

(* The server, the session, the listener and the dispatcher keep their     *)
(* types.                                                                  *)
THEOREM TypeCorrect == Spec => []TypeOK
<1>1. Inv => TypeOK
  <2> SUFFICES ASSUME Inv PROVE TypeOK
    OBVIOUS
  <2>1. ServerTyped /\ LoopTyped /\ RegistryTyped(registry) /\ RunTyped
    BY DEF Inv, Typed
  <2>2. Len(log) \in Nat /\ Len(log) <= MaxLog /\ MaxLog \in Nat
    BY <2>1, BoundsAssumption DEF ServerTyped
  <2>3. Numbers \subseteq 1 .. MaxLog /\ 0 .. Len(log) \subseteq 0 .. MaxLog
    BY <2>2 DEF Numbers
  <2>4. mode \in Modes /\ log \in Seq([chat : Chat, what : {"post", "touch", "delete"}])
    BY <2>1 DEF ServerTyped, Entry
  <2>5. alive \in [Chat -> SUBSET (1 .. MaxLog)] /\ floor \in 0 .. MaxLog
    BY <2>1, <2>3 DEF ServerTyped
  <2>6. stored \in {None} \cup 0 .. MaxLog /\ seen \in [Chat -> 0 .. MaxLog]
    BY <2>1, <2>3 DEF LoopTyped
  <2>7. \A f \in Fetcher : fetch[f].pc \in {"off", "ready", "asked", "answered"}
    BY <2>1 DEF LoopTyped, Request
  <2>8. due \subseteq 1 .. MaxLog /\ dispatched \subseteq 1 .. MaxLog
    BY <2>1, <2>3 DEF LoopTyped
  <2>9. \A g \in DOMAIN registry : registry[g] \in Seq(Handler)
    BY <2>1 DEF RegistryTyped
  <2>10. run.line \in Seq(Handler) /\ track.tried \cup track.kept \subseteq Handler
    BY <2>1 DEF RunTyped
  <2> QED
    BY <2>4, <2>5, <2>6, <2>7, <2>8, <2>9, <2>10 DEF TypeOK
<1> QED
  BY <1>1, InvInit, InvStep, PTL DEF Spec

(* However handlers are added and removed while an event is dispatched, a  *)
(* handler of its kind that stays registered is reached unless one before  *)
(* it in its group took the event or StopPropagation was raised, and no    *)
(* group takes an event twice.                                             *)
THEOREM EveryHandlerIsReached == Spec => HandlersAreReached
<1> DEFINE Reached ==
             /\ \A h \in track.kept :
                  (run.on # NoEvent /\ run.line = <<>> /\ run.groups = <<>> /\ run'.on = NoEvent)
                      => \/ KindOf[h] # run.on.kind
                         \/ h \in track.tried
                         \/ GroupOf[h] \in track.taken
             /\ \A h \in track'.tried \ track.tried : GroupOf[h] \notin track.taken
<1>1. Inv /\ [Next]_vars => [Reached]_vars
  <2> SUFFICES ASSUME Inv, [Next]_vars PROVE Reached
    OBVIOUS
  <2>1. WalkInv /\ RunTyped
    BY DEF Inv, Typed
  <2>2. ASSUME NEW h \in track.kept, run.on # NoEvent, run.line = <<>>, run.groups = <<>>
        PROVE  KindOf[h] # run.on.kind \/ h \in track.tried \/ GroupOf[h] \in track.taken
    <3>1. ToSet(run.line) = {} /\ ToSet(run.groups) = {}
      BY <2>2 DEF ToSet
    <3> QED
      BY <2>1, <2>2, <3>1 DEF WalkInv
  <2>3. ASSUME NEW h \in track'.tried \ track.tried PROVE GroupOf[h] \notin track.taken
    <3>1. PICK outcome \in {"pass", "continue", "stop", "took"} : Try(outcome)
      <4>1. CASE \E outcome \in {"pass", "continue", "stop", "took"} : Try(outcome)
        BY <4>1
      <4>2. CASE BeginEvent
        BY <2>3, <4>2 DEF BeginEvent, NothingTracked
      <4>3. CASE EndEvent \/ Restart
        BY <2>3, <4>3 DEF EndEvent, Restart, NothingTracked
      <4>4. CASE \E x \in Handler : RemoveHandler(x)
        BY <2>1, <2>3, <4>4 DEF RemoveHandler, RunTyped
      <4>5. CASE \/ \E f \in Fetcher : Ask(f) \/ Serve(f) \/ RequestFails(f)
                 \/ ArriveAtLoop \/ BeginGroup \/ ArriveAtCaller \/ Forget
                 \/ \E x \in Handler : AddHandler(x)
                 \/ \E c \in Chat : Post(c) \/ Touch(c) \/ Delete(c)
                 \/ UNCHANGED vars
        <5>1. track' = track
          BY <4>5 DEF Ask, Serve, RequestFails, ArriveAtLoop, BeginGroup, ArriveAtCaller, Forget, AddHandler,
             Post, Touch, Delete, Change, vars
        <5> QED
          BY <2>3, <5>1
      <4> QED
        BY <4>1, <4>2, <4>3, <4>4, <4>5 DEF Next, Loop, Fetcher
    <3>2. run.line # <<>> /\ run.line \in Seq(Handler) /\ track'.tried = track.tried \cup {Head(run.line)}
      BY <2>1, <3>1 DEF Try, RunTyped
    <3>3. h = Head(run.line) /\ h \in ToSet(run.line)
      BY <2>3, <3>2, HeadAndTail
    <3> QED
      BY <2>1, <3>2, <3>3 DEF WalkInv
  <2> QED
    BY <2>2, <2>3
<1> QED
  BY <1>1, InvInit, InvStep, PTL DEF Spec, HandlersAreReached

(* No message is dispatched as new twice, neither by a poll that returns   *)
(* its chat again or moved back nor by a bot that restarts; chats in which *)
(* a message was deleted are left out.                                     *)
THEOREM NoMessageTwice == Spec => DispatchedOnce
<1> DEFINE Once ==
             \A i \in 1 .. MaxLog :
                (run'.on # run.on /\ run'.on.kind = "message" /\ run'.on.id = i)
                   => i \notin dispatched \/ (mode = "http" /\ log[i].chat \in pruned)
<1>1. Inv /\ [Next]_vars => [Once]_vars
  <2> SUFFICES ASSUME Inv, [Next]_vars, NEW i \in 1 .. MaxLog,
                      run'.on # run.on, run'.on.kind = "message", run'.on.id = i
               PROVE  i \notin dispatched \/ (mode = "http" /\ log[i].chat \in pruned)
    OBVIOUS
  <2>1. ServerTyped /\ LoopTyped /\ RunTyped /\ TodoInv
    BY DEF Inv, Typed, OnceInv
  <2>2. CASE BeginEvent
    <3>1. run'.on = Head(run.todo) /\ run.todo # <<>> /\ Fresh(run.todo, Numbers)
      BY <2>1, <2>2 DEF BeginEvent, TodoInv
    <3>2. PICK l \in DOMAIN run.todo : Head(run.todo) = run.todo[l]
      BY <3>1, FreshTail
    <3> QED
      BY <2>1, <3>1, <3>2 DEF TodoInv, ChatOf
  <2>3. CASE ArriveAtLoop
    <3>1. run'.on = NoEvent
      BY <2>1, <2>3, ArrivedTodo DEF Idle
    <3> QED
      BY <3>1 DEF NoEvent
  <2>4. CASE ~BeginEvent /\ ~ArriveAtLoop
    <3>1. CASE \/ BeginGroup \/ EndEvent \/ Restart
               \/ \E outcome \in {"pass", "continue", "stop", "took"} : Try(outcome)
      <4>1. CASE BeginGroup
        BY <2>1, <4>1 DEF RunTyped, BeginGroup
      <4>2. CASE EndEvent \/ Restart
        BY <2>1, <4>2 DEF RunTyped, EndEvent, Restart, Idle, NoEvent
      <4>3. ASSUME NEW outcome \in {"pass", "continue", "stop", "took"}, Try(outcome) PROVE FALSE
        <5>1. \/ run' = [run EXCEPT !.line = Tail(@)]
              \/ run' = [run EXCEPT !.line = <<>>]
              \/ run' = [run EXCEPT !.on = NoEvent, !.groups = <<>>, !.line = <<>>]
          BY <4>3 DEF Try
        <5>2. run'.on = run.on \/ run'.on = NoEvent
          BY <2>1, <5>1 DEF RunTyped
        <5> QED
          BY <5>2 DEF NoEvent
      <4> QED
        BY <3>1, <4>1, <4>2, <4>3
    <3>2. CASE \/ \E f \in Fetcher : Ask(f) \/ Serve(f) \/ RequestFails(f)
               \/ ArriveAtCaller \/ Forget
               \/ \E h \in Handler : AddHandler(h) \/ RemoveHandler(h)
               \/ \E c \in Chat : Post(c) \/ Touch(c) \/ Delete(c)
               \/ UNCHANGED vars
      <4>1. run' = run
        BY <3>2 DEF Ask, Serve, RequestFails, ArriveAtCaller, Forget, AddHandler, RemoveHandler,
           Post, Touch, Delete, Change, vars
      <4> QED
        BY <4>1
    <3> QED
      BY <2>4, <3>1, <3>2 DEF Next, Loop, Fetcher
  <2> QED
    BY <2>2, <2>3, <2>4
<1> QED
  BY <1>1, InvInit, InvStep, PTL DEF Spec, DispatchedOnce
=============================================================================
