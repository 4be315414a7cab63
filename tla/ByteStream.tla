----------------------------- MODULE ByteStream -----------------------------
(***************************************************************************)
(* What a pipe promises its users: a bounded first-in first-out stream of  *)
(* bytes with counted ends.  A read delivers the oldest bytes, a write     *)
(* appends as many bytes as fit, a reader sees the end of the stream only  *)
(* when no byte is left and no writer can send another, a writer without   *)
(* readers is told so, and the last end to go takes the bytes with it.     *)
(***************************************************************************)
EXTENDS Integers, Sequences

CONSTANTS Capacity,     \* bytes the stream holds
          EndLimit,     \* ends of one kind that may be open
          Messages,     \* byte sequences (not empty) that are written
          Wants         \* lengths (not zero) of reads

VARIABLES
    stream,     \* the bytes sent and not yet received
    readers,    \* open read ends
    writers,    \* open write ends
    result,     \* what the last call returned
    delivered   \* the bytes the last call delivered

svars == <<stream, readers, writers, result, delivered>>

InUse == readers + writers > 0

\* The shorter of two lengths.
Upto(m, n) == IF m <= n THEN m ELSE n

SInit ==
    /\ stream = <<>>
    /\ readers = 0 /\ writers = 0
    /\ result = "Ok" /\ delivered = <<>>

Open ==
    /\ ~InUse
    /\ readers' = 1 /\ writers' = 1
    /\ result' = "Ok" /\ delivered' = <<>>
    /\ UNCHANGED stream

Clone ==
    /\ InUse
    /\ \/ readers < EndLimit /\ readers' = readers + 1 /\ result' = "Ok" /\ UNCHANGED writers
       \/ writers < EndLimit /\ writers' = writers + 1 /\ result' = "Ok" /\ UNCHANGED readers
       \/ EndLimit \in {readers, writers} /\ result' = "Err" /\ UNCHANGED <<readers, writers>>
    /\ delivered' = <<>>
    /\ UNCHANGED stream

Close ==
    /\ \/ readers > 0 /\ readers' = readers - 1 /\ UNCHANGED writers
       \/ writers > 0 /\ writers' = writers - 1 /\ UNCHANGED readers
    /\ stream' = IF readers' + writers' = 0 THEN <<>> ELSE stream
    /\ result' = "Ok" /\ delivered' = <<>>

Receive ==
    /\ readers > 0
    /\ \/ /\ stream # <<>>
          /\ \E want \in Wants :
                LET n == Upto(want, Len(stream)) IN
                /\ delivered' = SubSeq(stream, 1, n)
                /\ stream' = SubSeq(stream, n + 1, Len(stream))
          /\ result' = "Data"
       \/ /\ stream = <<>>
          /\ result' = IF writers = 0 THEN "Eof" ELSE "WouldBlock"
          /\ delivered' = <<>>
          /\ UNCHANGED stream
    /\ UNCHANGED <<readers, writers>>

Send ==
    /\ writers > 0
    /\ \/ /\ readers > 0 /\ Len(stream) < Capacity
          /\ \E msg \in Messages :
                stream' = stream \o SubSeq(msg, 1, Upto(Len(msg), Capacity - Len(stream)))
          /\ result' = "Data"
       \/ /\ readers = 0 \/ Len(stream) = Capacity
          /\ result' = IF readers = 0 THEN "Broken" ELSE "WouldBlock"
          /\ UNCHANGED stream
    /\ delivered' = <<>>
    /\ UNCHANGED <<readers, writers>>

SNext == Open \/ Clone \/ Close \/ Receive \/ Send

SSpec == SInit /\ [][SNext]_svars
=============================================================================
