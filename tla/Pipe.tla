-------------------------------- MODULE Pipe --------------------------------
(***************************************************************************)
(* The kernel's pipe table: kernel/src/task/pipe.rs.                       *)
(*                                                                         *)
(* A pipe is a ring of PIPE_CAP bytes with a head index, a length, and a   *)
(* count of open read ends and of open write ends.  The operators below    *)
(* are the functions of pipe.rs as functions of the table (or of one pipe).*)
(* The module has no variables: PipeRing and Sched hold a table.           *)
(***************************************************************************)
EXTENDS Integers, Sequences, FiniteSets

CONSTANTS
    PIPE_MAX,   \* number of pipes in the table (4 in the code)
    PIPE_CAP,   \* bytes a pipe holds (4096 in the code)
    END_MAX,    \* largest value of an end counter (255: they are u8)
    Bytes,      \* the byte values the model tells apart
    ZeroByte    \* the byte a fresh buffer is filled with

ASSUME PipeAssumption ==
    /\ PIPE_MAX \in Nat \ {0}
    /\ PIPE_CAP \in Nat \ {0}
    /\ END_MAX \in Nat \ {0}
    /\ ZeroByte \in Bytes

PipeIds == 0 .. PIPE_MAX - 1

PipeRec == [ used      : BOOLEAN,
             buf       : [0 .. PIPE_CAP - 1 -> Bytes],
             head      : 0 .. PIPE_CAP - 1,
             len       : 0 .. PIPE_CAP,
             n_readers : 0 .. END_MAX,
             n_writers : 0 .. END_MAX ]

empty == [ used |-> FALSE, buf |-> [i \in 0 .. PIPE_CAP - 1 |-> ZeroByte],
           head |-> 0, len |-> 0, n_readers |-> 0, n_writers |-> 0 ]

\* The smallest element of a set of integers: `position`, `for .. return`.
First(S) == CHOOSE x \in S : \A y \in S : x <= y

-----------------------------------------------------------------------------
(* Allocation and the life of an end.                                      *)

pipe_free(pipes) == {i \in PipeIds : ~pipes[i].used}

\* The pipe `alloc` hands out: the first unused one, with one end of each kind.
pipe_alloc(pipes) ==
    [pipes EXCEPT ![First(pipe_free(pipes))] =
        [empty EXCEPT !.used = TRUE, !.n_readers = 1, !.n_writers = 1]]

can_clone_end(p, write) ==
    /\ p.used
    /\ IF write THEN p.n_writers < END_MAX ELSE p.n_readers < END_MAX

clone_end(p, write) ==
    IF write THEN [p EXCEPT !.n_writers = @ + 1]
             ELSE [p EXCEPT !.n_readers = @ + 1]

saturating_sub(n, k) == IF n >= k THEN n - k ELSE 0

\* r calls of drop_end(id, false) and w of drop_end(id, true).  The order of
\* the calls does not matter: the pipe is emptied when both counts reach zero
\* and the calls that come after that find it unused.
drop_ends(p, r, w) ==
    LET nr == saturating_sub(p.n_readers, r)
        nw == saturating_sub(p.n_writers, w)
    IN  IF ~p.used \/ (r = 0 /\ w = 0) THEN p
        ELSE IF nr = 0 /\ nw = 0 THEN empty
        ELSE [p EXCEPT !.n_readers = nr, !.n_writers = nw]

drop_end(p, write) == IF write THEN drop_ends(p, 0, 1) ELSE drop_ends(p, 1, 0)

-----------------------------------------------------------------------------
(* Transfers.  Read and write are called with at least one byte to move:   *)
(* their callers return before on a length of zero.                        *)

read_result(p) ==
    IF ~p.used THEN "Eof"
    ELSE IF p.len # 0 THEN "Data"
    ELSE IF p.n_writers = 0 THEN "Eof" ELSE "WouldBlock"

read_count(p, want) == IF want <= p.len THEN want ELSE p.len

\* The bytes a read copies out, in order.
read_data(p, want) ==
    [i \in 1 .. read_count(p, want) |-> p.buf[(p.head + i - 1) % PIPE_CAP]]

\* Slip: the head stays where it was.
read_pipe_buf_slip(p, want) == [p EXCEPT !.len = @ - read_count(p, want)]

read_pipe_buf(p, want) ==
    [p EXCEPT !.head = (@ + read_count(p, want)) % PIPE_CAP,
              !.len  = @ - read_count(p, want)]

write_result(p) ==
    IF ~p.used \/ p.n_readers = 0 THEN "Broken"
    ELSE IF p.len = PIPE_CAP THEN "WouldBlock" ELSE "Data"

\* Slip: the room left in the ring is not looked at.
write_count_slip(p, src) == Len(src)

write_count(p, src) ==
    IF Len(src) <= PIPE_CAP - p.len THEN Len(src) ELSE PIPE_CAP - p.len

write_pipe_buf(p, src) ==
    LET tail == (p.head + p.len) % PIPE_CAP
        n    == write_count(p, src)
        \* position of cell j after tail, going round the ring
        off(j) == (j - tail + PIPE_CAP) % PIPE_CAP
    IN  [p EXCEPT !.buf = [j \in 0 .. PIPE_CAP - 1 |->
                              IF off(j) < n THEN src[off(j) + 1] ELSE p.buf[j]],
                  !.len = @ + n]
=============================================================================
