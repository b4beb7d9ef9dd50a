----------------------------- MODULE FileTransfer ----------------------------
(***************************************************************************)
(* One upload_file (network/upload.py) or download_file                    *)
(* (network/download.py): a file is sent in numbered parts, or asked for   *)
(* by byte ranges, each request repeated by the retry ladder.              *)
(*                                                                         *)
(* A file is the sequence of its bytes; all that counts is which byte of   *)
(* it comes where, so the bytes of a file are 1, 2, ... in this order.     *)
(* External: the storage server and, for an upload, the program that may   *)
(* write the file while it is read.                                        *)
(***************************************************************************)
EXTENDS Integers, SequencesExt

CONSTANTS
    MaxSize,    \* bound on the size of a file
    ChunkSize,  \* bytes of a part or a range
    Attempts    \* of the retry ladder

VARIABLES
    pc,
    way,        \* "up", "up_stream" (from memory) or "down"
    size,       \* bytes of the file as it is now
    known,      \* the size the transfer goes by: total_size or total, 0 = unknown
    step,       \* the next part's number from 1 (up), or start (down)
    chunk,      \* the part being sent, read before the first attempt
    left,       \* attempts left for the request
    there,      \* what arrived: parts by number (up), or the bytes written (down)
    spoilt,     \* history: the file was written, or an answer was cut short
    failed      \* the transfer raised an error

vars == <<pc, way, size, known, step, chunk, left, there, spoilt, failed>>

Bytes(first, last) == [i \in 1 .. last - first + 1 |-> first + i - 1]
Least(a, b) == IF a < b THEN a ELSE b

\* max(1, math.ceil(total_size / chunk_size))
Parts(n) == IF n = 0 THEN 1 ELSE (n + ChunkSize - 1) \div ChunkSize

Uploading == way \in {"up", "up_stream"}

Init ==
    /\ pc = "idle"
    /\ way = "none"
    /\ size = 0
    /\ known = 0
    /\ step = 0
    /\ chunk = <<>>
    /\ left = Attempts
    /\ there = <<>>
    /\ spoilt = FALSE
    /\ failed = FALSE

Finish(error) ==
    /\ pc' = "done"
    /\ failed' = error

\* upload_file: stat, open and the number of parts.
BeginUpload ==
    /\ pc = "idle"
    /\ pc' = "ready"
    /\ way' \in {"up", "up_stream"}
    /\ size' \in 0 .. MaxSize
    /\ known' = size'
    /\ step' = 1
    /\ there' = [i \in 1 .. Parts(size') |-> <<>>]
    /\ UNCHANGED <<chunk, left, spoilt, failed>>

\* download_file: the size of the message's file, when the message says it, and
\* the destination emptied.
BeginDownload ==
    /\ pc = "idle"
    /\ pc' = "ready"
    /\ way' = "down"
    /\ size' \in 0 .. MaxSize
    /\ known' \in {0, size'}
    /\ step' = 0
    /\ there' = <<>>
    /\ UNCHANGED <<chunk, left, spoilt, failed>>

-----------------------------------------------------------------------------
(* Uploading.                                                              *)

\* External: another program appends to the file, or truncates it.
Written ==
    /\ way = "up"
    /\ pc \in {"ready", "asked"}
    /\ ~spoilt
    /\ size' \in (0 .. MaxSize) \ {size}
    /\ spoilt' = TRUE
    /\ UNCHANGED <<pc, way, known, step, chunk, left, there, failed>>

\* stream.read(chunk_size), once for all attempts of the part.
NextPart ==
    /\ Uploading /\ pc = "ready"
    /\ IF step > Len(there)
       THEN Finish(FALSE) /\ UNCHANGED <<chunk, left>>
       ELSE /\ pc' = "asked"
            /\ chunk' = Bytes((step - 1) * ChunkSize + 1, Least(step * ChunkSize, size))
            /\ left' = Attempts
            /\ UNCHANGED failed
    /\ UNCHANGED <<way, size, known, step, there, spoilt>>

Stored == [there EXCEPT ![step] = chunk]

PartAnswered ==
    /\ Uploading /\ pc = "asked"
    /\ there' = Stored
    /\ pc' = "ready"
    /\ step' = step + 1
    /\ UNCHANGED <<way, size, known, chunk, left, spoilt, failed>>

\* A timeout, a lost connection, 5xx, an answer that is not JSON or a rejected
\* part is tried again; the server may have taken the part.
PartUnanswered ==
    /\ Uploading /\ pc = "asked"
    /\ there' \in {there, Stored}
    /\ IF left > 1
       THEN left' = left - 1 /\ UNCHANGED <<pc, failed>>
       ELSE Finish(TRUE) /\ UNCHANGED left
    /\ UNCHANGED <<way, size, known, step, chunk, spoilt>>

-----------------------------------------------------------------------------
(* Downloading.                                                            *)

End == LET end == step + ChunkSize - 1
       IN  IF known > 0 THEN Least(end, known - 1) ELSE end

NextRange ==
    /\ way = "down" /\ pc = "ready"
    /\ IF known > 0 /\ step > known - 1
       THEN Finish(FALSE) /\ UNCHANGED left
       ELSE pc' = "asked" /\ left' = Attempts /\ UNCHANGED failed
    /\ UNCHANGED <<way, size, known, step, chunk, there, spoilt>>

RangeOverlaps == End                            \* mutant: ranges that share a byte

NextStart == End + 1

\* A chunk and, sometimes, the total length.  The server may cut a range short.
RangeAnswered ==
    /\ way = "down" /\ pc = "asked"
    /\ \E total \in {known, IF known = 0 THEN size ELSE known},
          last \in (step - 1) .. Least(End, size - 1) :
          LET got == Bytes(step + 1, last + 1) IN
          /\ known' = total
          /\ there' = there \o got
          /\ spoilt' = (spoilt \/ last < Least(End, size - 1))
          /\ IF \/ got = <<>>
                \/ total > 0 /\ Len(there') >= total
                \/ Len(got) < End - step + 1
             THEN Finish(FALSE) /\ UNCHANGED step
             ELSE pc' = "ready" /\ step' = NextStart /\ UNCHANGED failed
    /\ UNCHANGED <<way, size, chunk, left>>

RangeUnanswered ==
    /\ way = "down" /\ pc = "asked"
    /\ IF left > 1
       THEN left' = left - 1 /\ UNCHANGED <<pc, failed>>
       ELSE Finish(TRUE) /\ UNCHANGED left
    /\ UNCHANGED <<way, size, known, step, chunk, there, spoilt>>

\* 4xx, an error status or a missing field is not tried again; the progress
\* callback may raise, and the caller may be cancelled at any request.  A partial
\* destination file stays.
Abort ==
    /\ pc \in {"ready", "asked"}
    /\ Finish(TRUE)
    /\ UNCHANGED <<way, size, known, step, chunk, left, there, spoilt>>

Next ==
    \/ BeginUpload \/ BeginDownload
    \/ Written \/ NextPart \/ PartAnswered \/ PartUnanswered
    \/ NextRange \/ RangeAnswered \/ RangeUnanswered
    \/ Abort

Spec == Init /\ [][Next]_vars

-----------------------------------------------------------------------------
TypeOK ==
    /\ pc \in {"idle", "ready", "asked", "done"}
    /\ {size, known} \subseteq 0 .. MaxSize
    /\ left \in 1 .. Attempts
    /\ {spoilt, failed} \subseteq BOOLEAN

(* A transfer that reports success moved every byte of the file once and in *)
(* order, whatever parts or ranges were lost, repeated or taken twice, for  *)
(* every size: empty, an exact multiple of the chunk, or not; known, told   *)
(* by the server, or unknown.  The two ways out that the code has no answer *)
(* for are left out: a file written while it is read, and a range that the  *)
(* server cut short, which download_file takes for the end of the file.     *)
TransferIsWhole ==
    (pc = "done" /\ ~failed /\ ~spoilt) =>
        (IF Uploading THEN FlattenSeq(there) ELSE there) = Bytes(1, size)
=============================================================================
