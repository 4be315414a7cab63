------------------------------ MODULE FdTable ------------------------------
(***************************************************************************)
(* A process's file descriptor table: FdTable in kernel/src/task/fd.rs.    *)
(*                                                                         *)
(* A table maps descriptors to open files.  What an open file holds beside *)
(* its kind (a path and an offset, directory entries) is abstracted; a     *)
(* pipe end keeps its pipe and direction, because closing or cloning it    *)
(* changes the pipe's end counters.                                        *)
(***************************************************************************)
EXTENDS Pipe

CONSTANT FD_MAX     \* descriptors per process (16 in the code)

ASSUME FdAssumption == FD_MAX \in Nat /\ FD_MAX >= 3

Fds == 0 .. FD_MAX - 1

\* u64::MAX as a descriptor argument of spawn: keep the default.
DEFAULT_FD == -1

Plain(kind) == [kind |-> kind, id |-> 0, write |-> FALSE]
PipeEnd(id, write) == [kind |-> "Pipe", id |-> id, write |-> write]

Closed == Plain("Closed")

OpenFd == {Plain(k) : k \in {"Closed", "Stdin", "Stdout", "Stderr", "File", "Dir"}}
             \cup {PipeEnd(i, w) : i \in PipeIds, w \in BOOLEAN}

NoFds == [fd \in Fds |-> Closed]

new_stdio == [fd \in Fds |-> IF fd = 0 THEN Plain("Stdin")
                             ELSE IF fd = 1 THEN Plain("Stdout")
                             ELSE IF fd = 2 THEN Plain("Stderr") ELSE Closed]

-----------------------------------------------------------------------------
free_fds(fds) == {fd \in Fds : fds[fd] = Closed}

\* FdTable::alloc: the first free descriptor (callers test free_fds first).
fd_alloc(fds, of) == [fds EXCEPT ![First(free_fds(fds))] = of]

\* The descriptors of a table that hold one given pipe end.
EndsIn(fds, id, write) == {fd \in Fds : fds[fd] = PipeEnd(id, write)}

\* The effect on the pipes of dropping one open file: drop_open.
drop_open(pipes, of) ==
    IF of.kind = "Pipe" THEN [pipes EXCEPT ![of.id] = drop_end(@, of.write)]
                        ELSE pipes

\* The effect on the pipes of close_all; the table itself becomes NoFds.
close_all(pipes, fds) ==
    [id \in PipeIds |-> drop_ends(pipes[id], Cardinality(EndsIn(fds, id, FALSE)),
                                             Cardinality(EndsIn(fds, id, TRUE)))]

\* clone_slot fails on a closed descriptor, a directory or a saturated pipe.
can_clone_slot(pipes, fds, fd) ==
    /\ fd \in Fds
    /\ fds[fd].kind \notin {"Closed", "Dir"}
    /\ fds[fd].kind = "Pipe" => can_clone_end(pipes[fds[fd].id], fds[fd].write)

\* Slip: the descriptor is copied but the pipe does not count its new end.
clone_slot_pipes_slip(pipes, of) == pipes

clone_slot_pipes(pipes, of) ==
    IF of.kind = "Pipe" THEN [pipes EXCEPT ![of.id] = clone_end(@, of.write)]
                        ELSE pipes

\* inherit_from: the child's table, the pipes afterwards, and whether it
\* succeeds.  The child's standard input is cloned first; if its standard
\* output then cannot be, the clone is closed again.
inherit_from(pipes, fds, stdin_fd, stdout_fd) ==
    LET keep0  == stdin_fd = DEFAULT_FD
        keep1  == stdout_fd = DEFAULT_FD
        ok0    == keep0 \/ can_clone_slot(pipes, fds, stdin_fd)
        t0     == IF keep0 THEN new_stdio ELSE [new_stdio EXCEPT ![0] = fds[stdin_fd]]
        pipes0 == IF keep0 THEN pipes ELSE clone_slot_pipes(pipes, fds[stdin_fd])
        ok1    == keep1 \/ can_clone_slot(pipes0, fds, stdout_fd)
        t1     == IF keep1 THEN t0 ELSE [t0 EXCEPT ![1] = fds[stdout_fd]]
        pipes1 == IF keep1 THEN pipes0 ELSE clone_slot_pipes(pipes0, fds[stdout_fd])
    IN  IF ~ok0 THEN [ok |-> FALSE, fds |-> NoFds, pipes |-> pipes]
        ELSE IF ~ok1 THEN [ok |-> FALSE, fds |-> NoFds, pipes |-> close_all(pipes0, t0)]
        ELSE [ok |-> TRUE, fds |-> t1, pipes |-> pipes1]
=============================================================================
