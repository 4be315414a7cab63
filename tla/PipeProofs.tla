----------------------------- MODULE PipeProofs -----------------------------
(***************************************************************************)
(* Lemmas about the operators of Pipe and FdTable: what a first-fit search *)
(* returns, that every pipe operation yields a well-formed pipe, and that  *)
(* every descriptor operation yields a well-formed table.                  *)
(***************************************************************************)
EXTENDS FdTable, FiniteSetTheorems, WellFoundedInduction, TLAPS

\* First returns the least element of a nonempty set of naturals: the slot, the
\* pipe, the descriptor that `position` finds.
LEMMA FirstIsLeast ==
    ASSUME NEW S, S \subseteq Nat, S # {}
    PROVE  First(S) \in S /\ \A y \in S : First(S) <= y
<1> DEFINE R == OpToRel(<, Nat)
<1>r. \A x, y \in Nat : x < y => <<x, y>> \in R
  BY DEF OpToRel
<1>w. IsWellFoundedOn(R, Nat)
  BY NatLessThanWellFounded
<1> HIDE DEF R
<1>1. PICK x \in S : \A y \in S : ~(<<y, x>> \in R)
  BY <1>w, WFMin
<1>2. \A y \in S : x <= y
  <2> TAKE y \in S
  <2>1. x \in Nat /\ y \in Nat
    OBVIOUS
  <2>2. ~(y < x)
    BY <1>1, <1>r, <2>1
  <2> QED
    BY <2>1, <2>2
<1> QED
  BY <1>2 DEF First

\* A remainder is in range.
LEMMA ModRange ==
    ASSUME NEW a \in Nat, NEW b \in Nat \ {0}
    PROVE  a % b \in 0 .. b - 1
OBVIOUS

\* An end counter stays in its range when ends are taken off (saturating_sub).
LEMMA SaturatingSub ==
    ASSUME NEW n \in 0 .. END_MAX, NEW k \in Nat
    PROVE  saturating_sub(n, k) \in 0 .. END_MAX
BY PipeAssumption DEF saturating_sub

\* The pipe that Pipe::empty makes is well-formed.
LEMMA EmptyType == empty \in PipeRec
BY PipeAssumption DEF empty, PipeRec

\* Dropping ends leaves a well-formed pipe.
LEMMA DropEndsType ==
    ASSUME NEW p \in PipeRec, NEW r \in Nat, NEW w \in Nat
    PROVE  drop_ends(p, r, w) \in PipeRec
<1> DEFINE nr == saturating_sub(p.n_readers, r)
           nw == saturating_sub(p.n_writers, w)
<1>1. nr \in 0 .. END_MAX /\ nw \in 0 .. END_MAX
  BY SaturatingSub DEF PipeRec
<1>2. [p EXCEPT !.n_readers = nr, !.n_writers = nw] \in PipeRec
  BY <1>1 DEF PipeRec
<1> QED
  BY <1>2, EmptyType DEF drop_ends

\* A pipe one of whose ends is cloned, as far as its counter allows, is well-formed.
LEMMA CloneEndType ==
    ASSUME NEW p \in PipeRec, NEW write \in BOOLEAN, can_clone_end(p, write)
    PROVE  clone_end(p, write) \in PipeRec
<1>1. CASE write
  <2>1. p.n_writers + 1 \in 0 .. END_MAX
    BY <1>1, PipeAssumption DEF PipeRec, can_clone_end
  <2>2. [p EXCEPT !.n_writers = @ + 1] \in PipeRec
    BY <2>1 DEF PipeRec
  <2> QED  BY <1>1, <2>2 DEF clone_end
<1>2. CASE ~write
  <2>1. p.n_readers + 1 \in 0 .. END_MAX
    BY <1>2, PipeAssumption DEF PipeRec, can_clone_end
  <2>2. [p EXCEPT !.n_readers = @ + 1] \in PipeRec
    BY <2>1 DEF PipeRec
  <2> QED  BY <1>2, <2>2 DEF clone_end
<1> QED  BY <1>1, <1>2

\* A read leaves head and len of the ring in range (read_pipe_buf).
LEMMA ReadType ==
    ASSUME NEW p \in PipeRec, NEW want \in Nat
    PROVE  read_pipe_buf(p, want) \in PipeRec
<1>1. read_count(p, want) \in Nat /\ p.len - read_count(p, want) \in 0 .. PIPE_CAP
  BY PipeAssumption DEF read_count, PipeRec
<1>2. (p.head + read_count(p, want)) % PIPE_CAP \in 0 .. PIPE_CAP - 1
  <2>1. p.head + read_count(p, want) \in Nat
    BY <1>1, PipeAssumption DEF PipeRec
  <2> QED
    BY <2>1, ModRange, PipeAssumption
<1> QED
  BY <1>1, <1>2 DEF read_pipe_buf, PipeRec

\* A write, also one that wraps round the end of the ring, leaves it well-formed
\* (write_pipe_buf).
LEMMA WriteType ==
    ASSUME NEW p \in PipeRec, NEW src \in Seq(Bytes)
    PROVE  write_pipe_buf(p, src) \in PipeRec
<1> DEFINE tail == (p.head + p.len) % PIPE_CAP
           n == write_count(p, src)
           off(j) == (j - tail + PIPE_CAP) % PIPE_CAP
<1>1. n \in 0 .. Len(src) /\ p.len + n \in 0 .. PIPE_CAP
  BY PipeAssumption DEF write_count, PipeRec
<1>2. tail \in 0 .. PIPE_CAP - 1
  <2>1. p.head + p.len \in Nat
    BY PipeAssumption DEF PipeRec
  <2> QED
    BY <2>1, ModRange, PipeAssumption
<1>3. \A j \in 0 .. PIPE_CAP - 1 : off(j) \in 0 .. PIPE_CAP - 1
  <2> TAKE j \in 0 .. PIPE_CAP - 1
  <2>1. j - tail + PIPE_CAP \in Nat
    BY <1>2, PipeAssumption
  <2> HIDE DEF tail
  <2> QED
    BY <2>1, ModRange, PipeAssumption
<1> HIDE DEF n, off
<1>4. \A j \in 0 .. PIPE_CAP - 1 : off(j) < n => src[off(j) + 1] \in Bytes
  BY <1>1, <1>3, PipeAssumption
<1>5. [j \in 0 .. PIPE_CAP - 1 |-> IF off(j) < n THEN src[off(j) + 1] ELSE p.buf[j]]
        \in [0 .. PIPE_CAP - 1 -> Bytes]
  BY <1>4 DEF PipeRec
<1>6. [p EXCEPT !.buf = [j \in 0 .. PIPE_CAP - 1 |->
                             IF off(j) < n THEN src[off(j) + 1] ELSE p.buf[j]],
                !.len = @ + n] \in PipeRec
  BY <1>1, <1>5 DEF PipeRec
<1> QED
  BY <1>6 DEF write_pipe_buf, n, off

-----------------------------------------------------------------------------
(* Descriptor tables.                                                      *)

Tables == [Fds -> OpenFd]
PipeTables == [PipeIds -> PipeRec]

\* Pipe ids are numbers, and there is a pipe 0.
LEMMA PipeIdsNat == PipeIds \subseteq Nat /\ 0 \in PipeIds
BY PipeAssumption DEF PipeIds

\* Descriptors are numbers, finitely many, the three standard ones among them.
LEMMA FdsNat == Fds \subseteq Nat /\ {0, 1, 2} \subseteq Fds /\ IsFiniteSet(Fds)
<1>1. IsFiniteSet(Fds)
  BY FS_Interval, FdAssumption DEF Fds
<1> QED
  BY <1>1, FdAssumption DEF Fds

\* An open file of kind Pipe names a pipe and a direction.
LEMMA OpenPipe ==
    ASSUME NEW of \in OpenFd, of.kind = "Pipe"
    PROVE  of.id \in PipeIds /\ of.write \in BOOLEAN
BY DEF OpenFd, Plain, PipeEnd

\* The end of a pipe is an open file.
LEMMA PipeEndOpen ==
    ASSUME NEW id \in PipeIds, NEW write \in BOOLEAN
    PROVE  PipeEnd(id, write) \in OpenFd
BY DEF OpenFd

\* So is whatever is not the end of a pipe.
LEMMA PlainOpen ==
    \A k \in {"Closed", "Stdin", "Stdout", "Stderr", "File", "Dir"} : Plain(k) \in OpenFd
BY DEF OpenFd

\* A new process starts with a well-formed descriptor table (new_stdio).
LEMMA StdioType == new_stdio \in Tables /\ NoFds \in Tables
BY PlainOpen DEF new_stdio, NoFds, Closed, Tables

\* A table to which fd_alloc adds a file is well-formed.
LEMMA FdAllocType ==
    ASSUME NEW fds \in Tables, NEW of \in OpenFd
    PROVE  fd_alloc(fds, of) \in Tables
BY DEF fd_alloc, Tables

\* Dropping one open file, or all of a table, leaves the pipes well formed.
LEMMA DropOpenType ==
    ASSUME NEW pipes \in PipeTables, NEW of \in OpenFd
    PROVE  drop_open(pipes, of) \in PipeTables
<1>1. CASE of.kind = "Pipe"
  <2>1. of.id \in PipeIds
    BY <1>1, OpenPipe
  <2>2. drop_end(pipes[of.id], of.write) \in PipeRec
    BY <2>1, DropEndsType DEF drop_end, PipeTables
  <2> QED
    BY <1>1, <2>1, <2>2 DEF drop_open, PipeTables
<1>2. CASE of.kind # "Pipe"
  BY <1>2 DEF drop_open
<1> QED  BY <1>1, <1>2

\* The descriptors of a table that hold an end can be counted.
LEMMA EndsInNat ==
    ASSUME NEW fds, NEW id, NEW write
    PROVE  Cardinality(EndsIn(fds, id, write)) \in Nat
<1>1. EndsIn(fds, id, write) \in SUBSET Fds
  BY DEF EndsIn
<1>2. IsFiniteSet(EndsIn(fds, id, write))
  BY <1>1, FdsNat, FS_Subset
<1> QED  BY <1>2, FS_CardinalityType

\* Closing a whole table, as exit and kill do, leaves the pipes well-formed (close_all).
LEMMA CloseAllType ==
    ASSUME NEW pipes \in PipeTables, NEW fds
    PROVE  close_all(pipes, fds) \in PipeTables
BY EndsInNat, DropEndsType DEF close_all, PipeTables

\* What clone_slot inherits is an open file, and the pipes stay well-formed.
LEMMA CloneSlotType ==
    ASSUME NEW pipes \in PipeTables, NEW fds \in Tables, NEW fd,
           can_clone_slot(pipes, fds, fd)
    PROVE  fds[fd] \in OpenFd /\ clone_slot_pipes(pipes, fds[fd]) \in PipeTables
<1>1. fds[fd] \in OpenFd
  BY DEF can_clone_slot, Tables
<1>2. CASE fds[fd].kind = "Pipe"
  <2>1. fds[fd].id \in PipeIds /\ fds[fd].write \in BOOLEAN
    BY <1>1, <1>2, OpenPipe
  <2>2. clone_end(pipes[fds[fd].id], fds[fd].write) \in PipeRec
    BY <1>2, <2>1, CloneEndType DEF can_clone_slot, PipeTables
  <2> QED
    BY <1>1, <1>2, <2>1, <2>2 DEF clone_slot_pipes, PipeTables
<1>3. CASE fds[fd].kind # "Pipe"
  BY <1>1, <1>3 DEF clone_slot_pipes
<1> QED  BY <1>2, <1>3

\* inherit_from yields well-formed pipes always, and a well-formed table.
LEMMA InheritType ==
    ASSUME NEW pipes \in PipeTables, NEW fds \in Tables, NEW a, NEW b
    PROVE  /\ inherit_from(pipes, fds, a, b).pipes \in PipeTables
           /\ inherit_from(pipes, fds, a, b).fds \in Tables
<1> DEFINE keep0  == a = DEFAULT_FD
           keep1  == b = DEFAULT_FD
           ok0    == keep0 \/ can_clone_slot(pipes, fds, a)
           t0     == IF keep0 THEN new_stdio ELSE [new_stdio EXCEPT ![0] = fds[a]]
           pipes0 == IF keep0 THEN pipes ELSE clone_slot_pipes(pipes, fds[a])
           ok1    == keep1 \/ can_clone_slot(pipes0, fds, b)
           t1     == IF keep1 THEN t0 ELSE [t0 EXCEPT ![1] = fds[b]]
           pipes1 == IF keep1 THEN pipes0 ELSE clone_slot_pipes(pipes0, fds[b])
<1>1. ok0 => pipes0 \in PipeTables /\ t0 \in Tables
  <2>1. CASE keep0
    BY <2>1, StdioType
  <2>2. CASE ~keep0 /\ ok0
    <3>1. fds[a] \in OpenFd /\ clone_slot_pipes(pipes, fds[a]) \in PipeTables
      BY <2>2, CloneSlotType
    <3> QED
      BY <3>1, <2>2, StdioType, FdsNat DEF Tables
  <2> QED  BY <2>1, <2>2
<1> HIDE DEF ok0, t0, pipes0
<1>2. ok0 /\ ok1 => pipes1 \in PipeTables /\ t1 \in Tables
  <2>1. CASE keep1
    BY <2>1, <1>1
  <2>2. CASE ~keep1 /\ ok0 /\ ok1
    <3>1. fds[b] \in OpenFd /\ clone_slot_pipes(pipes0, fds[b]) \in PipeTables
      BY <1>1, <2>2, CloneSlotType
    <3> QED
      BY <1>1, <3>1, <2>2, FdsNat DEF Tables
  <2> QED  BY <2>1, <2>2
<1> HIDE DEF ok1, t1, pipes1
<1>3. ok0 => close_all(pipes0, t0) \in PipeTables
  BY <1>1, CloseAllType
<1>4. inherit_from(pipes, fds, a, b) =
        IF ~ok0 THEN [ok |-> FALSE, fds |-> NoFds, pipes |-> pipes]
        ELSE IF ~ok1 THEN [ok |-> FALSE, fds |-> NoFds, pipes |-> close_all(pipes0, t0)]
        ELSE [ok |-> TRUE, fds |-> t1, pipes |-> pipes1]
  BY DEF inherit_from, ok0, t0, pipes0, ok1, t1, pipes1
<1> QED
  BY <1>2, <1>3, <1>4, StdioType
=============================================================================
