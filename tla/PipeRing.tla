------------------------------ MODULE PipeRing ------------------------------
(***************************************************************************)
(* One pipe of kernel/src/task/pipe.rs under the calls its holders make:   *)
(* the ring buffer with its head and length, as a state machine, and the   *)
(* promise of ByteStream that it keeps.  An end is cloned or used only by  *)
(* a holder of that end, as descriptors guarantee (see PipeRefs of Sched). *)
(***************************************************************************)
EXTENDS Pipe

CONSTANTS Messages,     \* byte sequences (not empty) that are written
          Wants         \* lengths (not zero) of reads

ASSUME RingAssumption ==
    /\ Messages \subseteq Seq(Bytes) \ {<<>>}
    /\ Wants \subseteq Nat \ {0}

VARIABLES pipe,     \* PIPES[0]
          result,   \* what the last call returned
          got       \* the bytes the last call copied out

rvars == <<pipe, result, got>>

RInit == pipe = empty /\ result = "Ok" /\ got = <<>>

RAlloc ==
    /\ ~pipe.used
    /\ pipe' = pipe_alloc([i \in PipeIds |-> pipe])[0]
    /\ result' = "Ok" /\ got' = <<>>

Holds(write) == IF write THEN pipe.n_writers > 0 ELSE pipe.n_readers > 0

RClone(write) ==
    /\ Holds(write)
    /\ \/ can_clone_end(pipe, write) /\ pipe' = clone_end(pipe, write) /\ result' = "Ok"
       \/ ~can_clone_end(pipe, write) /\ result' = "Err" /\ UNCHANGED pipe
    /\ got' = <<>>

RDrop(write) ==
    /\ Holds(write)
    /\ pipe' = drop_end(pipe, write)
    /\ result' = "Ok" /\ got' = <<>>

RRead(want) ==
    /\ Holds(FALSE)
    /\ result' = read_result(pipe)
    /\ IF read_result(pipe) = "Data"
       THEN pipe' = read_pipe_buf(pipe, want) /\ got' = read_data(pipe, want)
       ELSE got' = <<>> /\ UNCHANGED pipe

RWrite(src) ==
    /\ Holds(TRUE)
    /\ result' = write_result(pipe)
    /\ IF write_result(pipe) = "Data" THEN pipe' = write_pipe_buf(pipe, src)
                                      ELSE UNCHANGED pipe
    /\ got' = <<>>

RNext ==
    \/ RAlloc
    \/ \E w \in BOOLEAN : RClone(w) \/ RDrop(w)
    \/ \E n \in Wants : RRead(n)
    \/ \E src \in Messages : RWrite(src)

RSpec == RInit /\ [][RNext]_rvars

-----------------------------------------------------------------------------
\* The bytes in the ring, oldest first.
Contents == read_data(pipe, pipe.len)

Stream == INSTANCE ByteStream WITH
    Capacity <- PIPE_CAP, EndLimit <- END_MAX, stream <- Contents,
    readers <- pipe.n_readers, writers <- pipe.n_writers, delivered <- got

\* The ring implements the byte stream: bytes come out in the order they went
\* in, none lost, none twice, wherever head is, and the end of the stream, a
\* broken pipe and a full or empty one are reported as the stream does.
ImplementsStream == Stream!SSpec

\* head, len and the end counters stay in range, and every byte of the ring is
\* one, after any number of wraps (read_pipe_buf, write_pipe_buf).
RingOK == pipe \in PipeRec
=============================================================================
