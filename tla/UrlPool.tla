------------------------------ MODULE UrlPool ------------------------------
(***************************************************************************)
(* The retry ladder of rubigram/network/retry.py and the rotating list of  *)
(* equivalent URLs of rubigram/network/pool.py, as operators.  A pool is a *)
(* record of its URLs and the index, from 1, of the current one.           *)
(***************************************************************************)
EXTENDS Integers, Sequences

Delays == <<0, 2, 3, 5, 10>>

(* How often a request is retried when its caller or its method asks for   *)
(* at most cap retries.                                                    *)
RetriesOf(cap) == IF cap < Len(Delays) THEN cap ELSE Len(Delays)

(* Whether the ladder sleeps after the failed attempt number i, from 0.    *)
Sleeps(i) == Delays[IF i < Len(Delays) THEN i + 1 ELSE Len(Delays)] > 0

Current(pool) == pool.urls[pool.current]

(* Mutant: the last URL of the list is never reached. *)
RotateShort(pool) ==
    [pool EXCEPT !.current = IF @ + 1 < Len(pool.urls) THEN @ + 1 ELSE 1]

ForceRotate(pool) == [pool EXCEPT !.current = (@ % Len(pool.urls)) + 1]

Listed(urls) == {urls[i] : i \in DOMAIN urls}

(* The first of every URL, in their order.                                 *)
Deduped(urls) ==
    LET kept[i \in 0 .. Len(urls)] ==
            IF i = 0 THEN <<>>
            ELSE IF urls[i] \in Listed(kept[i - 1]) THEN kept[i - 1]
            ELSE Append(kept[i - 1], urls[i])
    IN  kept[Len(urls)]

(* A new list keeps the current URL current when it is still listed; an    *)
(* empty list is not taken over.                                           *)
Replace(pool, urls) ==
    LET list == Deduped(urls)
        kept == {i \in DOMAIN list : list[i] = Current(pool)}
    IN  IF list = <<>> THEN pool
        ELSE [urls |-> list, current |-> IF kept = {} THEN 1 ELSE CHOOSE i \in kept : TRUE]

SetCurrent(pool, url) ==
    [pool EXCEPT !.current = IF url \in Listed(pool.urls)
                             THEN CHOOSE i \in DOMAIN pool.urls : pool.urls[i] = url
                             ELSE @]
=============================================================================
