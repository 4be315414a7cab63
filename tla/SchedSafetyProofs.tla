------------------------- MODULE SchedSafetyProofs -------------------------
(***************************************************************************)
(* Proofs about Sched, for every number of processes, pipes, descriptors   *)
(* and keys: page tables, continuations, wakeups, the dead, the stack      *)
(* pointer and the pipes' end counters.  Every step of the kernel is one   *)
(* of nine kinds of change of the process table (StepKinds); each          *)
(* invariant but the last is then proved kind by kind.                     *)
(***************************************************************************)
EXTENDS SchedProofs

BlockedStates == {"BlockedStdin", "BlockedWait", "BlockedPipeRead", "BlockedPipeWrite"}
PipeBlocked == {"BlockedPipeRead", "BlockedPipeWrite"}

\* The loop a state is blocked in.
LoopOf(st) == CASE st = "BlockedWait" -> "wait" [] st = "BlockedStdin" -> "read_stdin"
                [] st = "BlockedPipeRead" -> "read_pipe" [] OTHER -> "write_pipe"

Same(p, q) ==
    /\ q.pid = p.pid /\ q.parent = p.parent /\ q.l4 = p.l4
    /\ q.kcont = p.kcont /\ q.user_rsp = p.user_rsp

\* At most, blocked processes have been made runnable.
WokenPcb(p, q) ==
    Same(p, q) /\ (q.state = p.state \/ (p.state \in BlockedStates /\ q.state = "Runnable"))

Woken(ps, qs) == \A s \in Slots : WokenPcb(ps[s], qs[s]) /\ qs[s].fds = ps[s].fds

-----------------------------------------------------------------------------
(* What the table's operators do to a slot.                                *)

\* wake_stdin and wake_pipe: those blocked in these states become runnable, and nothing
\* else changes.
LEMMA WakeFacts ==
    ASSUME NEW ps \in [Slots -> Pcb], NEW sts \in SUBSET BlockedStates
    PROVE  Woken(ps, Wake(ps, sts)) /\ \A s \in Slots : Wake(ps, sts)[s].state \notin sts
<1> SUFFICES ASSUME NEW s \in Slots
             PROVE  /\ WokenPcb(ps[s], Wake(ps, sts)[s]) /\ Wake(ps, sts)[s].fds = ps[s].fds
                    /\ Wake(ps, sts)[s].state \notin sts
  BY DEF Woken
<1> DEFINE p == ps[s]
<1>1. p \in Pcb
  OBVIOUS
<1>2. Wake(ps, sts)[s] = IF p.state \in sts THEN [p EXCEPT !.state = "Runnable"] ELSE p
  BY DEF Wake
<1> HIDE DEF p
<1>3. CASE p.state \in sts
  <2>1. /\ [p EXCEPT !.state = "Runnable"].state = "Runnable" /\ [p EXCEPT !.state = "Runnable"].fds = p.fds
        /\ Same(p, [p EXCEPT !.state = "Runnable"])
    BY <1>1 DEF Pcb, Same
  <2>2. p.state \in BlockedStates /\ "Runnable" \notin sts
    BY <1>3 DEF BlockedStates
  <2> QED  BY <1>2, <1>3, <2>1, <2>2 DEF WokenPcb, p
<1>4. CASE p.state \notin sts
  BY <1>2, <1>4 DEF WokenPcb, Same, p
<1> QED  BY <1>3, <1>4

\* wake_parent: no process of that pid is left in wait, and nothing else changes.
LEMMA WakeWaiterFacts ==
    ASSUME NEW ps \in [Slots -> Pcb], NEW pid
    PROVE  /\ Woken(ps, WakeWaiter(ps, pid))
           /\ \A s \in Slots : WakeWaiter(ps, pid)[s].state = "BlockedWait" => ps[s].pid # pid
<1> SUFFICES ASSUME NEW s \in Slots
             PROVE  /\ WokenPcb(ps[s], WakeWaiter(ps, pid)[s]) /\ WakeWaiter(ps, pid)[s].fds = ps[s].fds
                    /\ WakeWaiter(ps, pid)[s].state = "BlockedWait" => ps[s].pid # pid
  BY DEF Woken
<1> DEFINE p == ps[s]
<1>1. p \in Pcb
  OBVIOUS
<1>2. WakeWaiter(ps, pid)[s] = IF p.pid = pid /\ p.state = "BlockedWait"
                               THEN [p EXCEPT !.state = "Runnable"] ELSE p
  BY DEF WakeWaiter
<1> HIDE DEF p
<1>3. CASE p.pid = pid /\ p.state = "BlockedWait"
  <2>1. /\ [p EXCEPT !.state = "Runnable"].state = "Runnable" /\ [p EXCEPT !.state = "Runnable"].fds = p.fds
        /\ Same(p, [p EXCEPT !.state = "Runnable"])
    BY <1>1 DEF Pcb, Same
  <2> QED  BY <1>2, <1>3, <2>1 DEF WokenPcb, p, BlockedStates
<1>4. CASE ~(p.pid = pid /\ p.state = "BlockedWait")
  BY <1>2, <1>4 DEF WokenPcb, Same, p
<1> QED  BY <1>3, <1>4

\* Waking nobody is a case of waking.
LEMMA WokenRefl == \A ps : Woken(ps, ps)
BY DEF Woken, WokenPcb, Same

\* Waking twice is waking.
LEMMA WokenTrans ==
    ASSUME NEW ps, NEW qs, NEW rs, Woken(ps, qs), Woken(qs, rs)
    PROVE  Woken(ps, rs)
BY DEF Woken, WokenPcb, Same, BlockedStates

\* A process is made a zombie: it loses its descriptors and its continuation, and
\* everyone blocked on a pipe is woken.
LEMMA ZombieFacts ==
    ASSUME NEW ps \in [Slots -> Pcb], NEW v \in Slots
    PROVE  LET q == make_zombie(ps, v) IN
           /\ q \in [Slots -> Pcb]
           /\ q[v].state = "Zombie" /\ q[v].fds = NoFds /\ q[v].kcont = NoCall
           /\ q[v].pid = ps[v].pid /\ q[v].parent = ps[v].parent /\ q[v].l4 = ps[v].l4
           /\ q[v].user_rsp = ps[v].user_rsp
           /\ \A s \in Slots \ {v} : WokenPcb(ps[s], q[s]) /\ q[s].fds = ps[s].fds
           /\ \A s \in Slots : q[s].state \notin PipeBlocked
<1> DEFINE r == [ps[v] EXCEPT !.fds = NoFds, !.state = "Zombie", !.kcont = NoCall]
           z == [ps EXCEPT ![v] = r]
<1>1. ps[v] \in Pcb /\ r \in Pcb
  BY NoCallType, StdioType DEF Pcb, Tables, States
<1>2. /\ r.state = "Zombie" /\ r.fds = NoFds /\ r.kcont = NoCall /\ r.pid = ps[v].pid
      /\ r.parent = ps[v].parent /\ r.l4 = ps[v].l4 /\ r.user_rsp = ps[v].user_rsp
  BY <1>1 DEF Pcb
<1>3. [ps EXCEPT ![v].fds = NoFds, ![v].state = "Zombie", ![v].kcont = NoCall] = z
  OBVIOUS
<1>4. make_zombie(ps, v) = Wake(z, PipeBlocked)
  BY <1>3 DEF make_zombie, wake_pipe, PipeBlocked
<1> HIDE DEF r
<1>5. z \in [Slots -> Pcb] /\ z[v] = r /\ \A s \in Slots \ {v} : z[s] = ps[s]
  BY <1>1
<1> HIDE DEF z
<1> DEFINE q == Wake(z, PipeBlocked)
<1>6. Woken(z, q) /\ \A s \in Slots : q[s].state \notin PipeBlocked
  <2>1. PipeBlocked \in SUBSET BlockedStates
    BY DEF PipeBlocked, BlockedStates
  <2> QED  BY <1>5, <2>1, WakeFacts
<1>7. q \in [Slots -> Pcb]
  <2>1. \A s \in Slots : z[s] \in Pcb /\ [z[s] EXCEPT !.state = "Runnable"] \in Pcb
    BY <1>5, Runnables
  <2> QED  BY <2>1 DEF Wake
<1> HIDE DEF q
<1>8. /\ WokenPcb(r, q[v]) /\ q[v].fds = r.fds
      /\ \A s \in Slots \ {v} : WokenPcb(ps[s], q[s]) /\ q[s].fds = ps[s].fds
  BY <1>5, <1>6 DEF Woken
<1>9. Same(r, q[v]) /\ q[v].state = "Zombie"
  BY <1>2, <1>8 DEF WokenPcb, BlockedStates
<1> QED  BY <1>2, <1>4, <1>6, <1>7, <1>8, <1>9 DEF Same, q

\* The parent's note of its youngest child changes nothing else.
LEMMA NoteFacts ==
    ASSUME NEW ps \in [Slots -> Pcb], NEW parent, NEW pid
    PROVE  \A s \in Slots : LET q == note_child(ps, parent, pid)[s] IN
               Same(ps[s], q) /\ q.state = ps[s].state /\ q.fds = ps[s].fds
<1> DEFINE v == First(WithPid(ps, parent))
           r == [ps[v] EXCEPT !.spawned_child = TRUE, !.last_spawned = pid]
<1>1. note_child(ps, parent, pid) = ps \/ note_child(ps, parent, pid) = [ps EXCEPT ![v] = r]
  BY DEF note_child
<1>2. v \in Slots => Same(ps[v], r) /\ r.state = ps[v].state /\ r.fds = ps[v].fds
  BY DEF Pcb, Same
<1>3. \A s \in Slots : Same(ps[s], ps[s])
  BY DEF Same
<1> HIDE DEF v, r
<1> QED  BY <1>1, <1>2, <1>3

-----------------------------------------------------------------------------
(* Pipes: who would block on them.                                         *)

\* Whoever would have blocked on p would block on q.
PipeCalm(p, q) ==
    /\ read_result(p) = "WouldBlock" => read_result(q) = "WouldBlock"
    /\ write_result(p) = "WouldBlock" => write_result(q) = "WouldBlock"

PipesCalm(P, Q) == \A id \in PipeIds : PipeCalm(P[id], Q[id])

\* Two changes of the pipes that let nobody go on let nobody go on together.
LEMMA CalmTrans ==
    ASSUME NEW P, NEW Q, NEW R, PipesCalm(P, Q), PipesCalm(Q, R)
    PROVE  PipesCalm(P, R)
BY DEF PipesCalm, PipeCalm

\* Pipes left alone let nobody go on.
LEMMA CalmRefl == \A P : PipesCalm(P, P)
BY DEF PipesCalm, PipeCalm

\* A cloned end keeps those blocked who are.
LEMMA CloneCalm ==
    ASSUME NEW p \in PipeRec, NEW w \in BOOLEAN, can_clone_end(p, w)
    PROVE  PipeCalm(p, clone_end(p, w))
<1>1. p.n_writers \in Nat /\ p.n_readers \in Nat
  BY PipeAssumption DEF PipeRec
<1>2. CASE w
  <2>1. /\ clone_end(p, w).used = p.used /\ clone_end(p, w).len = p.len
        /\ clone_end(p, w).n_readers = p.n_readers /\ clone_end(p, w).n_writers = p.n_writers + 1
    BY <1>2 DEF clone_end, PipeRec
  <2>2. p.n_writers + 1 # 0
    BY <1>1
  <2> QED  BY <2>1, <2>2 DEF PipeCalm, read_result, write_result
<1>3. CASE ~w
  <2>1. /\ clone_end(p, w).used = p.used /\ clone_end(p, w).len = p.len
        /\ clone_end(p, w).n_writers = p.n_writers /\ clone_end(p, w).n_readers = p.n_readers + 1
    BY <1>3 DEF clone_end, PipeRec
  <2>2. p.n_readers + 1 # 0
    BY <1>1
  <2> QED  BY <2>1, <2>2 DEF PipeCalm, read_result, write_result
<1> QED  BY <1>2, <1>3

\* An end that is cloned and dropped again leaves the pipe as it was, if it had ends.
LEMMA CloneDrop ==
    ASSUME NEW p \in PipeRec, NEW w \in BOOLEAN, can_clone_end(p, w)
    PROVE  drop_end(clone_end(p, w), w) =
             IF p.n_readers = 0 /\ p.n_writers = 0 THEN empty ELSE p
<1> DEFINE q == clone_end(p, w)
           r == [q EXCEPT !.n_readers = p.n_readers, !.n_writers = p.n_writers]
<1>1. p.n_writers \in Nat /\ p.n_readers \in Nat /\ p.used
  BY PipeAssumption DEF PipeRec, can_clone_end
<1>2. q \in PipeRec
  BY CloneEndType
<1>3. q.used = p.used /\ q.buf = p.buf /\ q.head = p.head /\ q.len = p.len
  BY DEF clone_end, PipeRec
<1>4. /\ q.n_readers = IF w THEN p.n_readers ELSE p.n_readers + 1
      /\ q.n_writers = IF w THEN p.n_writers + 1 ELSE p.n_writers
  BY DEF clone_end, PipeRec
<1> HIDE DEF q
<1>5. r = p
  <2>1. r \in PipeRec /\ r.n_readers = p.n_readers /\ r.n_writers = p.n_writers
    BY <1>2 DEF PipeRec
  <2>2. r.used = q.used /\ r.buf = q.buf /\ r.head = q.head /\ r.len = q.len
    BY <1>2 DEF PipeRec
  <2> HIDE DEF r
  <2> QED  BY <1>3, <2>1, <2>2 DEF PipeRec
<1>6. /\ w => saturating_sub(q.n_readers, 0) = p.n_readers /\ saturating_sub(q.n_writers, 1) = p.n_writers
      /\ ~w => saturating_sub(q.n_readers, 1) = p.n_readers /\ saturating_sub(q.n_writers, 0) = p.n_writers
  BY <1>1, <1>4 DEF saturating_sub
<1>7. drop_end(q, w) = IF p.n_readers = 0 /\ p.n_writers = 0 THEN empty ELSE r
  <2>1. CASE w
    <3> DEFINE nr == saturating_sub(q.n_readers, 0)
               nw == saturating_sub(q.n_writers, 1)
    <3>1. drop_ends(q, 0, 1) = IF ~q.used \/ (0 = 0 /\ 1 = 0) THEN q
                               ELSE IF nr = 0 /\ nw = 0 THEN empty
                               ELSE [q EXCEPT !.n_readers = nr, !.n_writers = nw]
      BY DEF drop_ends
    <3>2. q.used /\ ~(0 = 0 /\ 1 = 0) /\ nr = p.n_readers /\ nw = p.n_writers
      BY <1>1, <1>3, <1>6, <2>1
    <3> HIDE DEF nr, nw
    <3>3. drop_ends(q, 0, 1) = IF p.n_readers = 0 /\ p.n_writers = 0 THEN empty ELSE r
      BY <3>1, <3>2
    <3> QED  BY <2>1, <3>3 DEF drop_end
  <2>2. CASE ~w
    <3> DEFINE nr == saturating_sub(q.n_readers, 1)
               nw == saturating_sub(q.n_writers, 0)
    <3>1. drop_ends(q, 1, 0) = IF ~q.used \/ (1 = 0 /\ 0 = 0) THEN q
                               ELSE IF nr = 0 /\ nw = 0 THEN empty
                               ELSE [q EXCEPT !.n_readers = nr, !.n_writers = nw]
      BY DEF drop_ends
    <3>2. q.used /\ ~(1 = 0 /\ 0 = 0) /\ nr = p.n_readers /\ nw = p.n_writers
      BY <1>1, <1>3, <1>6, <2>2
    <3> HIDE DEF nr, nw
    <3>3. drop_ends(q, 1, 0) = IF p.n_readers = 0 /\ p.n_writers = 0 THEN empty ELSE r
      BY <3>1, <3>2
    <3> QED  BY <2>2, <3>3 DEF drop_end
  <2> QED  BY <2>1, <2>2
<1> QED  BY <1>5, <1>7 DEF q

\* Can the open file be cloned, as far as the counters of its pipe go?
Clonable(P, of) == of.kind = "Pipe" => can_clone_end(P[of.id], of.write)

\* Inheriting one descriptor keeps those blocked who are.
LEMMA CloneSlotCalm ==
    ASSUME NEW P \in PipeTables, NEW of \in OpenFd, Clonable(P, of)
    PROVE  PipesCalm(P, clone_slot_pipes(P, of))
<1>1. CASE of.kind = "Pipe"
  <2>1. of.id \in PipeIds /\ of.write \in BOOLEAN /\ P[of.id] \in PipeRec
    BY <1>1, OpenPipe DEF PipeTables
  <2>2. PipeCalm(P[of.id], clone_end(P[of.id], of.write))
    BY <1>1, <2>1, CloneCalm DEF Clonable
  <2>3. \A id \in PipeIds : clone_slot_pipes(P, of)[id] =
                              IF id = of.id THEN clone_end(P[of.id], of.write) ELSE P[id]
    BY <1>1, <2>1 DEF clone_slot_pipes, PipeTables
  <2> QED  BY <2>2, <2>3 DEF PipesCalm, PipeCalm
<1>2. CASE of.kind # "Pipe"
  BY <1>2, CalmRefl DEF clone_slot_pipes
<1> QED  BY <1>1, <1>2

\* The standard descriptors, and closed ones, hold no end of a pipe.
LEMMA StdioNoEnds ==
    ASSUME NEW id, NEW w, NEW fd \in Fds
    PROVE  new_stdio[fd] # PipeEnd(id, w) /\ NoFds[fd] # PipeEnd(id, w) /\ Closed # PipeEnd(id, w)
BY DEF new_stdio, NoFds, Closed, Plain, PipeEnd

\* A child's first descriptor that is closed again.
LEMMA CloseBack ==
    ASSUME NEW P \in PipeTables, NEW of \in OpenFd, Clonable(P, of), NEW id \in PipeIds
    PROVE  LET q == close_all(clone_slot_pipes(P, of), [new_stdio EXCEPT ![0] = of])[id] IN
           q = P[id] \/ (q = empty /\ P[id].n_readers = 0 /\ P[id].n_writers = 0)
<1> DEFINE t == [new_stdio EXCEPT ![0] = of]
           C == clone_slot_pipes(P, of)
<1>1. t[0] = of /\ 0 \in Fds /\ \A fd \in Fds : fd # 0 => t[fd] = new_stdio[fd]
  BY FdsNat, StdioType DEF Tables
<1> HIDE DEF t
<1>2. ASSUME NEW w \in BOOLEAN PROVE EndsIn(t, id, w) = IF of = PipeEnd(id, w) THEN {0} ELSE {}
  BY <1>1, StdioNoEnds DEF EndsIn
<1>3. \A w \in BOOLEAN : Cardinality(EndsIn(t, id, w)) = IF of = PipeEnd(id, w) THEN 1 ELSE 0
  BY <1>2, FS_EmptySet, FS_Singleton
<1>4. close_all(C, t)[id] = drop_ends(C[id], Cardinality(EndsIn(t, id, FALSE)), Cardinality(EndsIn(t, id, TRUE)))
  BY DEF close_all
<1>5. CASE \E w \in BOOLEAN : of = PipeEnd(id, w)
  <2>1. PICK w \in BOOLEAN : of = PipeEnd(id, w)
    BY <1>5
  <2>2. of.kind = "Pipe" /\ of.id = id /\ of.write = w
    BY <2>1 DEF PipeEnd
  <2>3. C[id] = clone_end(P[id], w) /\ P[id] \in PipeRec /\ can_clone_end(P[id], w)
    BY <2>2 DEF clone_slot_pipes, PipeTables, Clonable
  <2>4. PipeEnd(id, TRUE) # PipeEnd(id, FALSE)
    BY DEF PipeEnd
  <2>5. close_all(C, t)[id] = drop_end(C[id], w)
    <3>1. CASE w
      BY <1>3, <1>4, <2>1, <2>4, <3>1 DEF drop_end
    <3>2. CASE ~w
      BY <1>3, <1>4, <2>1, <2>4, <3>2 DEF drop_end
    <3> QED  BY <3>1, <3>2
  <2> HIDE DEF C
  <2> QED  BY <2>3, <2>5, CloneDrop DEF t, C
<1>6. CASE \A w \in BOOLEAN : of # PipeEnd(id, w)
  <2>1. close_all(C, t)[id] = C[id]
    BY <1>3, <1>4, <1>6 DEF drop_ends
  <2>2. C[id] = P[id]
    <3>1. CASE of.kind = "Pipe"
      <4>1. of = PipeEnd(of.id, of.write) /\ of.write \in BOOLEAN
        BY <3>1 DEF OpenFd, Plain, PipeEnd
      <4>2. of.id # id
        BY <1>6, <4>1
      <4> QED  BY <3>1, <4>2 DEF clone_slot_pipes, PipeTables
    <3>2. CASE of.kind # "Pipe"
      BY <3>2 DEF clone_slot_pipes
    <3> QED  BY <3>1, <3>2
  <2> QED  BY <2>1, <2>2 DEF t
<1> QED  BY <1>5, <1>6

\* A pipe without ends blocks nobody.
LEMMA NoEndsCalm ==
    ASSUME NEW p \in PipeRec, p.n_readers = 0, p.n_writers = 0, NEW q
    PROVE  PipeCalm(p, q)
BY DEF PipeCalm, read_result, write_result

\* A descriptor that spawn's checks accept is open, and its pipe can count another end.
LEMMA CanClone ==
    ASSUME NEW P \in PipeTables, NEW fds \in Tables, NEW fd, can_clone_slot(P, fds, fd)
    PROVE  fds[fd] \in OpenFd /\ Clonable(P, fds[fd])
BY DEF can_clone_slot, Clonable, Tables

\* spawn keeps those blocked who are, and one that fails leaves the pipes as they were.
LEMMA InheritPipes ==
    ASSUME NEW P \in PipeTables, NEW fds \in Tables, NEW a, NEW b
    PROVE  LET h == inherit_from(P, fds, a, b) IN
           /\ PipesCalm(P, h.pipes)
           /\ ~h.ok => \A id \in PipeIds :
                 h.pipes[id] = P[id] \/ (h.pipes[id] = empty /\ P[id].n_readers = 0 /\ P[id].n_writers = 0)
<1> DEFINE keep0  == a = DEFAULT_FD
           keep1  == b = DEFAULT_FD
           ok0    == keep0 \/ can_clone_slot(P, fds, a)
           t0     == IF keep0 THEN new_stdio ELSE [new_stdio EXCEPT ![0] = fds[a]]
           pipes0 == IF keep0 THEN P ELSE clone_slot_pipes(P, fds[a])
           ok1    == keep1 \/ can_clone_slot(pipes0, fds, b)
           t1     == IF keep1 THEN t0 ELSE [t0 EXCEPT ![1] = fds[b]]
           pipes1 == IF keep1 THEN pipes0 ELSE clone_slot_pipes(pipes0, fds[b])
           h      == inherit_from(P, fds, a, b)
           Back(Q) == \A id \in PipeIds :
                         Q[id] = P[id] \/ (Q[id] = empty /\ P[id].n_readers = 0 /\ P[id].n_writers = 0)
<1>1. ok0 => pipes0 \in PipeTables /\ PipesCalm(P, pipes0)
  BY CanClone, CloneSlotType, CloneSlotCalm, CalmRefl
<1>2. ok0 => Back(close_all(pipes0, t0))
  <2>1. CASE keep0
    <3>1. \A id \in PipeIds, w \in BOOLEAN : EndsIn(new_stdio, id, w) = {}
      BY StdioNoEnds DEF EndsIn
    <3>2. \A id \in PipeIds, w \in BOOLEAN : Cardinality(EndsIn(new_stdio, id, w)) = 0
      BY <3>1, FS_EmptySet
    <3>3. \A id \in PipeIds : close_all(P, new_stdio)[id] = P[id]
      BY <3>2 DEF close_all, drop_ends
    <3> QED  BY <2>1, <3>3
  <2>2. CASE ~keep0 /\ ok0
    <3>1. fds[a] \in OpenFd /\ Clonable(P, fds[a])
      BY <2>2, CanClone
    <3> QED  BY <2>2, <3>1, CloseBack
  <2> QED  BY <2>1, <2>2
<1>3. ASSUME NEW Q, Back(Q) PROVE PipesCalm(P, Q)
  <2> SUFFICES ASSUME NEW id \in PipeIds PROVE PipeCalm(P[id], Q[id])
    BY DEF PipesCalm
  <2>1. P[id] \in PipeRec
    BY DEF PipeTables
  <2>2. CASE Q[id] = P[id]
    BY <2>2 DEF PipeCalm
  <2>3. CASE P[id].n_readers = 0 /\ P[id].n_writers = 0
    BY <2>1, <2>3, NoEndsCalm
  <2> QED  BY <1>3, <2>2, <2>3
<1> HIDE DEF ok0, t0, pipes0
<1>4. ok0 /\ ok1 => PipesCalm(P, pipes1)
  <2>1. CASE keep1
    BY <1>1, <2>1
  <2>2. CASE ~keep1 /\ ok0 /\ ok1
    <3>1. fds[b] \in OpenFd /\ Clonable(pipes0, fds[b])
      BY <1>1, <2>2, CanClone
    <3>2. PipesCalm(pipes0, clone_slot_pipes(pipes0, fds[b]))
      BY <1>1, <2>2, <3>1, CloneSlotCalm
    <3> QED  BY <1>1, <2>2, <3>2, CalmTrans
  <2> QED  BY <2>1, <2>2
<1> HIDE DEF ok1, t1, pipes1
<1>5. h = IF ~ok0 THEN [ok |-> FALSE, fds |-> NoFds, pipes |-> P]
          ELSE IF ~ok1 THEN [ok |-> FALSE, fds |-> NoFds, pipes |-> close_all(pipes0, t0)]
          ELSE [ok |-> TRUE, fds |-> t1, pipes |-> pipes1]
  BY DEF inherit_from, ok0, t0, pipes0, ok1, t1, pipes1
<1>6. Back(P)
  OBVIOUS
<1> HIDE DEF h, Back
<1>7. CASE ~ok0
  <2>1. h.pipes = P
    BY <1>5, <1>7
  <2> QED  BY <1>3, <1>6, <2>1 DEF h, Back
<1>8. CASE ok0 /\ ~ok1
  <2>1. h.pipes = close_all(pipes0, t0)
    BY <1>5, <1>8
  <2> QED  BY <1>2, <1>3, <1>8, <2>1 DEF h, Back
<1>9. CASE ok0 /\ ok1
  <2>1. h.pipes = pipes1 /\ h.ok = TRUE
    BY <1>5, <1>9
  <2> QED  BY <1>4, <1>9, <2>1 DEF h
<1> QED  BY <1>7, <1>8, <1>9

-----------------------------------------------------------------------------
(* The kinds of steps.                                                     *)

\* kmain runs, or comp::poll on its behalf.
AtKmain == mode \in {"host", "kshell"} \/ after = "kshell"

Steady == UNCHANGED <<current, next_pid, exclusive, cr3>>

\* schedule_next looks for a process, or waits for one.
Idle == mode \in {"sched", "hlt"} \/ after = "hlt"

\* No process is entered or left, unless it is dead, and kmain is not entered.
NoEntry ==
    /\ InProcess' => InProcess
    /\ mode' = "host" => mode = "host"
    /\ AtKmain' => AtKmain
    /\ Idle' => Idle \/ (current \in Slots /\ procs'[current].state \in {"None", "Zombie"})
    /\ Idle => Idle' /\ cpu_rsp' = cpu_rsp /\ (mode = "sched" /\ mode' # "sched" => runnable = {})

\* While nobody runs, at most those who wait for a key are woken.
OnlyStdin ==
    Idle => \A s \in Slots :
        procs'[s].state = procs[s].state \/ (procs[s].state = "BlockedStdin" /\ mode # "sched")

\* Nobody but blocked processes, and the descriptors of the one the CPU works for.
Quiet ==
    /\ \A s \in Slots : WokenPcb(procs[s], procs'[s])
    /\ \A s \in Slots : procs'[s].fds = procs[s].fds \/ (s = current /\ InProcess)
    /\ PipesCalm(pipes, pipes') \/ \A s \in Slots : procs'[s].state \notin PipeBlocked
    /\ OnlyStdin
    /\ Steady /\ NoEntry

\* A process ends: its parent, if it waits, is told, or it is the one that kills.
Dies(v) ==
    /\ v \in Slots /\ Live(v)
    /\ procs'[v].state = "Zombie" /\ procs'[v].fds = NoFds /\ procs'[v].kcont = NoCall
    /\ procs'[v].pid = procs[v].pid /\ procs'[v].parent = procs[v].parent
    /\ procs'[v].l4 = procs[v].l4
    /\ \A s \in Slots \ {v} : WokenPcb(procs[s], procs'[s]) /\ procs'[s].fds = procs[s].fds
    /\ \A s \in Slots : procs'[s].state \notin PipeBlocked
    /\ \/ procs[v].parent = 0
       \/ \A s \in Slots : procs'[s].state = "BlockedWait" => procs[s].pid # procs[v].parent
       \/ InProcess /\ Live(current) /\ procs[v].parent = procs[current].pid
    /\ v = current /\ InProcess' =>
          "ctrlc" \in PollEvents \/ ("kill" \in Calls /\ procs[v].parent = procs[v].pid)
    /\ Idle => "ctrlc" \in IrqKeys \cup PollEvents
    /\ Steady /\ NoEntry

\* The process the CPU works for blocks.
Blocks(st) ==
    /\ InProcess /\ current \in Slots /\ Live(current) /\ mode' = "sched"
    /\ st \in BlockedStates /\ call.op = LoopOf(st)
    /\ procs'[current].state = st /\ procs'[current].kcont = call
    /\ procs'[current].pid = procs[current].pid /\ procs'[current].parent = procs[current].parent
    /\ procs'[current].l4 = procs[current].l4 /\ procs'[current].fds = procs[current].fds
    /\ \A s \in Slots \ {current} : WokenPcb(procs[s], procs'[s]) /\ procs'[s].fds = procs[s].fds
    /\ st = "BlockedStdin" => \E s \in Slots \ {current} : procs'[s].state \in {"Runnable", "Running"}
    /\ st = "BlockedWait" => dead_children = {}
    /\ st = "BlockedPipeRead" => read_result(pipes[call.id]) = "WouldBlock"
    /\ st = "BlockedPipeWrite" => write_result(pipes[call.id]) = "WouldBlock"
    /\ pipes' = pipes /\ cpu_rsp' = cpu_rsp /\ Steady /\ ~AtKmain'

\* What a switch to slot leaves of another process s, whose PCB was p and is now q:
\* the process that was running is runnable, and keeps its stack pointer.
Parked(s, p, q) ==
    /\ q.pid = p.pid /\ q.parent = p.parent /\ q.l4 = p.l4 /\ q.fds = p.fds
    /\ q.user_rsp = IF s = current /\ p.state # "None" THEN cpu_rsp ELSE p.user_rsp
    /\ \/ q.kcont = p.kcont /\ q.state = p.state
       \/ /\ s = current /\ q.kcont \in {p.kcont, NoCall}
          /\ q.state = "Runnable" /\ p.state \notin {"None", "Zombie"}

\* A process is switched to.
Resumes(slot) ==
    /\ slot \in Slots /\ procs[slot].state \in {"Runnable", "Running"}
    /\ procs'[slot].state = "Running" /\ procs'[slot].kcont = NoCall
    /\ procs'[slot].pid = procs[slot].pid /\ procs'[slot].parent = procs[slot].parent
    /\ procs'[slot].l4 = procs[slot].l4 /\ procs'[slot].fds = procs[slot].fds
    /\ \A s \in Slots \ {slot} : Parked(s, procs[s], procs'[s])
    /\ current' = slot /\ cr3' = procs[slot].l4 /\ pipes' = pipes
    /\ cpu_rsp' = procs[slot].user_rsp /\ call' = procs[slot].kcont
    /\ mode' \in {"user", "call"} /\ mode \in {"sched", "user"} /\ after' = "none"
    /\ mode' = "user" => call' = NoCall
    /\ UNCHANGED <<next_pid, exclusive>>

\* Dead processes leave the table.
Reaps(S) ==
    /\ \A s \in S : s \in Slots /\ procs[s].state = "Zombie"
    /\ procs' = [s \in Slots |-> IF s \in S THEN NoPcb ELSE procs[s]]
    /\ pipes' = ClosedBy(S) /\ cr3' = unload(S)
    /\ UNCHANGED <<current, next_pid, exclusive>> /\ NoEntry

\* A new process enters the table.
Inserts(slot, parent) ==
    /\ slot \in Slots /\ procs[slot].state = "None"
    /\ procs'[slot].state = "Runnable" /\ procs'[slot].kcont = NoCall
    /\ procs'[slot].pid = next_pid /\ procs'[slot].parent = parent
    /\ parent = 0 \/ (InProcess /\ parent = procs[current].pid)
    /\ \A s \in Slots \ {slot} : /\ Same(procs[s], procs'[s]) /\ procs'[s].state = procs[s].state
                                /\ procs'[s].fds = procs[s].fds
    /\ next_pid' = next_pid + 1 /\ UNCHANGED <<current, exclusive, cr3>>
    /\ PipesCalm(pipes, pipes') /\ NoEntry
    /\ AtKmain' => "launch" \in PollEvents
    /\ mode' # "host"

\* kmain runs a program, or cannot.
Starts(slot) ==
    /\ slot \in Slots /\ procs[slot].state = "None" /\ mode \in {"host", "kshell"}
    /\ procs'[slot].state = "Running" /\ procs'[slot].kcont = NoCall
    /\ procs'[slot].pid = 1 /\ procs'[slot].parent = 0
    /\ \A s \in Slots \ {slot} : procs'[s] = procs[s]
    /\ current' = slot /\ cr3' = procs'[slot].l4 /\ next_pid' = 2
    /\ exclusive' \/ mode = "host"
    /\ pipes' = pipes /\ ~AtKmain'

Fails ==
    /\ mode \in {"host", "kshell"} /\ mode' = "kshell" /\ after' = after /\ procs' = procs
    /\ next_pid' = 1 /\ current' = None /\ UNCHANGED <<cr3, pipes>>
    /\ exclusive' \/ mode = "host"

\* The scheduler is left.
Leaves ==
    /\ procs' = [s \in Slots |-> NoPcb] /\ current' = None /\ cr3' = 0
    /\ exclusive' = FALSE /\ mode' \in {"host", "kshell"} /\ after' = "none"

AnyKind ==
    \/ Quiet \/ Fails \/ Leaves
    \/ \E v \in Slots : Dies(v) \/ Resumes(v) \/ Starts(v)
    \/ \E st \in BlockedStates : Blocks(st)
    \/ \E S \in SUBSET Slots : Reaps(S)
    \/ \E slot \in Slots, parent \in Pids : Inserts(slot, parent)

\* Where the CPU is in a call: polls return to the call they came from, and a loop
\* that may block is run for a process that is there.
CtlInv ==
    /\ mode \in {"stdin", "wait"} \/ after = "stdin" => call.op = "read_stdin"
    /\ after = "call" => call.op = "dispatch"
    /\ mode = "call" /\ call.op \in {"wait", "read_pipe", "write_pipe"} => Live(current)

\* schedule_next does not wait while the CPU works for a process.
LEMMA BusyNotIdle ==
    ASSUME CoreInv, InProcess
    PROVE  ~Idle
BY DEF CoreInv, ControlOK, InProcess, ProcModes, Idle

\* A step that leaves the process table, the pipes and CR3 alone is of the quiet kind.
LEMMA QuietMove ==
    ASSUME UNCHANGED <<table, pipes, cr3>>, NoEntry
    PROVE  AnyKind
<1>1. procs' = procs /\ pipes' = pipes /\ Steady
  BY DEF table, Steady
<1>2. Woken(procs, procs') /\ PipesCalm(pipes, pipes')
  BY <1>1, WokenRefl, CalmRefl
<1> QED  BY <1>2, <1>1 DEF AnyKind, Quiet, OnlyStdin, Woken

\* A step that at most wakes processes is of the quiet kind, if no pipe let anybody go on or
\* all who were blocked on one have been woken.
LEMMA QuietWake ==
    ASSUME Woken(procs, procs'), PipesCalm(pipes, pipes') \/ \A s \in Slots : procs'[s].state \notin PipeBlocked,
           OnlyStdin,
           UNCHANGED <<current, next_pid, exclusive, cr3>>, NoEntry
    PROVE  AnyKind
BY DEF AnyKind, Quiet, Woken, Steady

\* The bytes of the keyboard, wherever they come from.
LEMMA KeyKind ==
    ASSUME CoreInv, NEW key, enqueue_or_kill(key), Steady, NoEntry,
           \A v \in Slots : procs'[v].state = "Zombie" /\ v = current /\ InProcess'
                              => key # "ctrlc" \/ "ctrlc" \in PollEvents,
           key \in IrqKeys \cup PollEvents, mode # "sched"
    PROVE  AnyKind
<1>0. procs \in [Slots -> Pcb]
  BY DEF CoreInv, TableOK
<1>1. CASE key = "ctrlc" /\ kill_foreground
  <2> DEFINE v == First(victims)
             z == make_zombie(procs, v)
  <2>1. v \in victims /\ v \in Slots
    BY <1>1, FirstSlot DEF kill_foreground, victims, WithPid
  <2>2. Live(v)
    BY <2>1 DEF victims, WithPid, Live
  <2>3. procs' = WakeWaiter(z, procs[v].parent)
    BY <1>1 DEF kill_foreground
  <2> HIDE DEF v
  <2>4. /\ z \in [Slots -> Pcb]
        /\ z[v].state = "Zombie" /\ z[v].fds = NoFds /\ z[v].kcont = NoCall
        /\ z[v].pid = procs[v].pid /\ z[v].parent = procs[v].parent /\ z[v].l4 = procs[v].l4
        /\ \A s \in Slots \ {v} : WokenPcb(procs[s], z[s]) /\ z[s].fds = procs[s].fds
        /\ \A s \in Slots : z[s].state \notin PipeBlocked
    BY <1>0, <2>1, ZombieFacts
  <2> HIDE DEF z
  <2>5. /\ Woken(z, procs')
        /\ \A s \in Slots : procs'[s].state = "BlockedWait" => z[s].pid # procs[v].parent
    BY <2>3, <2>4, WakeWaiterFacts
  <2>6. /\ procs'[v].state = "Zombie" /\ procs'[v].fds = NoFds /\ procs'[v].kcont = NoCall
        /\ procs'[v].pid = procs[v].pid /\ procs'[v].parent = procs[v].parent /\ procs'[v].l4 = procs[v].l4
    BY <2>1, <2>4, <2>5 DEF Woken, WokenPcb, Same, BlockedStates
  <2>7. \A s \in Slots \ {v} : WokenPcb(procs[s], procs'[s]) /\ procs'[s].fds = procs[s].fds
    BY <2>4, <2>5 DEF Woken, WokenPcb, Same, BlockedStates
  <2>8. \A s \in Slots : procs'[s].state \notin PipeBlocked
    BY <2>4, <2>5 DEF Woken, WokenPcb, PipeBlocked
  <2>9. \A s \in Slots : z[s].pid = procs[s].pid
    BY <2>4 DEF WokenPcb, Same
  <2>10. \A s \in Slots : procs'[s].state = "BlockedWait" => procs[s].pid # procs[v].parent
    BY <2>5, <2>9
  <2>11. v = current /\ InProcess' => "ctrlc" \in PollEvents
    BY <1>1, <2>1, <2>6
  <2>12. Dies(v)
    BY <1>1, <2>1, <2>2, <2>6, <2>7, <2>8, <2>10, <2>11 DEF Dies
  <2> QED  BY <2>1, <2>12 DEF AnyKind
<1>2. CASE enqueue_byte
  <2>1. procs' = Wake(procs, {"BlockedStdin"}) /\ pipes' = pipes
    BY <1>2 DEF enqueue_byte, wake_stdin
  <2>2. {"BlockedStdin"} \in SUBSET BlockedStates
    BY DEF BlockedStates
  <2>3. Woken(procs, procs')
    BY <1>0, <2>1, <2>2, WakeFacts
  <2>4. PipesCalm(pipes, pipes')
    BY <2>1, CalmRefl
  <2>5. OnlyStdin
    BY <1>0, <2>1 DEF OnlyStdin, Wake
  <2> QED  BY <2>3, <2>4, <2>5, QuietWake DEF Steady
<1> QED  BY <1>1, <1>2 DEF enqueue_or_kill

\* insert_pcb.
LEMMA InsertKind ==
    ASSUME CoreInv, NEW parent \in Pids, NEW fds \in Tables, insert_pcb(parent, fds),
           parent = 0 \/ (InProcess /\ parent = procs[current].pid),
           UNCHANGED <<current, exclusive, cr3>>, PipesCalm(pipes, pipes'), NoEntry,
           AtKmain' => "launch" \in PollEvents, mode' # "host"
    PROVE  AnyKind
<1> DEFINE slot == First(free_slots(procs))
           p == new_pcb(next_pid, parent, fds, new_user_l4, "Runnable")
           q == [procs EXCEPT ![slot] = p]
<1>0. procs \in [Slots -> Pcb] /\ next_pid \in Pids
  BY SchedAssumption DEF CoreInv, TableOK, RestOK, insert_pcb, Pids
<1>1. slot \in Slots /\ procs[slot].state = "None"
  BY FirstSlot DEF insert_pcb, free_slots
<1>2. p \in Pcb /\ p.state = "Runnable"
  BY <1>0, NewPcbType, NewL4Type DEF insert_pcb, States, CoreInv
<1>3. p.pid = next_pid /\ p.parent = parent /\ p.kcont = NoCall /\ p.fds = fds
  BY NoPcbType DEF new_pcb, NoPcb
<1>4. procs' = note_child(q, parent, next_pid) /\ next_pid' = next_pid + 1
  BY DEF insert_pcb
<1> HIDE DEF slot, p
<1>5. q \in [Slots -> Pcb] /\ q[slot] = p /\ \A s \in Slots \ {slot} : q[s] = procs[s]
  BY <1>0, <1>1, <1>2
<1> HIDE DEF q
<1>6. \A s \in Slots : Same(q[s], procs'[s]) /\ procs'[s].state = q[s].state /\ procs'[s].fds = q[s].fds
  BY <1>4, <1>5, NoteFacts
<1>7. /\ procs'[slot].state = "Runnable" /\ procs'[slot].kcont = NoCall
      /\ procs'[slot].pid = next_pid /\ procs'[slot].parent = parent
  BY <1>1, <1>2, <1>3, <1>5, <1>6 DEF Same
<1>8. \A s \in Slots \ {slot} : /\ Same(procs[s], procs'[s]) /\ procs'[s].state = procs[s].state
                               /\ procs'[s].fds = procs[s].fds
  BY <1>5, <1>6
<1>9. Inserts(slot, parent)
  BY <1>1, <1>4, <1>7, <1>8 DEF Inserts
<1> QED  BY <1>1, <1>9 DEF AnyKind

\* comp::poll and the keyboard.
LEMMA InputKinds ==
    ASSUME CoreInv, CtlInv, PollStep \/ InputStep
    PROVE  AnyKind
<1>c. procs \in [Slots -> Pcb] /\ ControlOK /\ RestOK
  BY DEF CoreInv, TableOK
<1>1. CASE PollReap
  <2>1. NoEntry
    BY <1>1, <1>c DEF PollReap, NoEntry, InProcess, ProcModes, AtKmain, Idle, ControlOK
  <2>2. orphans \in SUBSET Slots
    BY DEF orphans
  <2>3. Reaps(orphans)
    BY <1>1, <2>1 DEF PollReap, Reaps, orphans
  <2> QED  BY <2>2, <2>3 DEF AnyKind
<1>2. CASE PollDone
  <2>1. NoEntry
    BY <1>2, <1>c DEF PollDone, NoEntry, InProcess, ProcModes, AtKmain, Idle, ControlOK, cpu
  <2> QED  BY <1>2, <2>1, QuietMove DEF PollDone, cpu
<1>3. ASSUME NEW key \in IrqKeys, KeyIrq(key) PROVE AnyKind
  <2>1. Steady /\ after' = after /\ after = "none" /\ current' = current
    BY <1>3, <1>c DEF KeyIrq, Steady, cpu, ControlOK, IrqModes
  <2>2. /\ mode \in IrqModes /\ cpu_rsp' = cpu_rsp
        /\ \/ mode' = "sched" /\ (mode = "hlt" \/ (current # None /\ procs'[current].state = "Zombie"))
           \/ mode' = "call" /\ mode = "wait"
           \/ mode' = mode
    BY <1>3 DEF KeyIrq, cpu
  <2>3. NoEntry
    BY <1>c, <2>1, <2>2 DEF RestOK, IrqModes, NoEntry, InProcess, ProcModes, AtKmain, Idle
  <2>4. current \in Slots /\ procs'[current].state = "Zombie" => mode' = "sched"
    BY <1>3, SlotsNat DEF KeyIrq
  <2>5. \A v \in Slots : procs'[v].state = "Zombie" /\ v = current /\ InProcess'
                             => key # "ctrlc" \/ "ctrlc" \in PollEvents
    BY <2>4 DEF InProcess, ProcModes
  <2> QED  BY <1>3, <2>1, <2>2, <2>3, <2>5, KeyKind DEF KeyIrq, IrqModes
<1>4. ASSUME NEW key \in {"key", "ctrlc"} \cap PollEvents, PollKey(key) PROVE AnyKind
  <2>1. Steady /\ NoEntry
    BY <1>4 DEF PollKey, Steady, cpu, NoEntry, InProcess, AtKmain, Idle
  <2>2. key # "ctrlc" \/ "ctrlc" \in PollEvents
    OBVIOUS
  <2> QED  BY <1>4, <2>1, <2>2, KeyKind DEF PollKey
<1>5. CASE "launch" \in PollEvents /\ PollLaunch
  <2>1. NoEntry /\ mode' # "host" /\ UNCHANGED <<current, exclusive, cr3>> /\ pipes' = pipes
    BY <1>5 DEF PollLaunch, NoEntry, InProcess, AtKmain, Idle, cpu
  <2>2. 0 \in Pids /\ PipesCalm(pipes, pipes')
    BY <2>1, SchedAssumption, CalmRefl DEF Pids
  <2> QED  BY <1>5, <2>1, <2>2, StdioType, InsertKind DEF PollLaunch
<1>6. ASSUME NEW id \in WinIds, PollCloseFrame(id) PROVE AnyKind
  <2>1. NoEntry
    BY <1>6 DEF PollCloseFrame, NoEntry, InProcess, AtKmain, Idle, cpu
  <2> QED  BY <1>6, <2>1, QuietMove DEF PollCloseFrame, cpu
<1> QED  BY <1>1, <1>2, <1>3, <1>4, <1>5, <1>6 DEF PollStep, InputStep

\* A process is resumed from a table in which the one that was left is parked.
LEMMA ResumeKind ==
    ASSUME procs \in [Slots -> Pcb], NEW ps \in [Slots -> Pcb], NEW slot \in Slots, Resume(ps, slot),
           ps[slot] = procs[slot], procs[slot].state \in {"Runnable", "Running"},
           \A s \in Slots \ {slot} : Parked(s, procs[s], ps[s]),
           mode \in {"sched", "user"}, after = "none", UNCHANGED <<next_pid, exclusive, pipes, after>>
    PROVE  Resumes(slot)
<1> DEFINE p == ps[slot]
           r == [p EXCEPT !.state = "Running", !.kcont = NoCall]
<1>1. procs' = [ps EXCEPT ![slot] = r]
  BY DEF Resume
<1>2. p \in Pcb
  OBVIOUS
<1> HIDE DEF p
<1>3. /\ r.state = "Running" /\ r.kcont = NoCall /\ r.pid = p.pid /\ r.parent = p.parent
      /\ r.l4 = p.l4 /\ r.fds = p.fds
  BY <1>2 DEF Pcb
<1> HIDE DEF r
<1>4. procs'[slot] = r /\ \A s \in Slots \ {slot} : procs'[s] = ps[s]
  BY <1>1
<1>5. /\ current' = slot /\ cr3' = procs[slot].l4 /\ cpu_rsp' = procs[slot].user_rsp
      /\ call' = procs[slot].kcont /\ mode' \in {"user", "call"} /\ (mode' = "user" => call' = NoCall)
  BY DEF Resume
<1> QED  BY <1>3, <1>4, <1>5 DEF Resumes, p

\* schedule_next and the timer switch to a process that may run.
LEMMA Switches ==
    ASSUME CoreInv, SchedPick \/ (TimerUser /\ procs[current].state \notin {"None", "Zombie"})
    PROVE  \E v \in Slots : Resumes(v)
<1>c. procs \in [Slots -> Pcb] /\ ControlOK /\ RestOK
  BY DEF CoreInv, TableOK
<1>t. start_slot \in Slots
  BY <1>c, StartSlotType DEF RestOK
<1>1. CASE SchedPick
  <2> DEFINE slot == pick_runnable
             ps == Leave(procs, current, slot)
  <2>1. slot \in Slots /\ procs[slot].state \in {"Runnable", "Running"}
    BY <1>1, <1>t, FirstFromIn DEF SchedPick, pick_runnable, runnable
  <2>2. Resume(ps, slot)
    BY <1>1 DEF SchedPick, switch_to
  <2> HIDE DEF slot
  <2>3. ps \in [Slots -> Pcb] /\ ps[slot] = procs[slot] /\ \A s \in Slots \ {slot} : Parked(s, procs[s], ps[s])
    <3>1. CASE current = None \/ current = slot \/ procs[current].state = "None"
      <4>1. ps = procs
        BY <3>1 DEF Leave
      <4>2. \A s \in Slots \ {slot} : s = current => procs[s].state = "None"
        BY <3>1, SlotsNat
      <4> QED  BY <1>c, <4>1, <4>2 DEF Parked
    <3>2. CASE ~(current = None \/ current = slot \/ procs[current].state = "None")
      <4> DEFINE p == procs[current]
                 st == IF p.state = "Running" THEN "Runnable" ELSE p.state
                 r == [p EXCEPT !.state = st, !.user_rsp = cpu_rsp]
      <4>1. current \in Slots /\ p \in Pcb
        BY <3>2, <1>c DEF RestOK
      <4>2. ps = [procs EXCEPT ![current] = r]
        BY <3>2 DEF Leave
      <4>3. p.state # "None" /\ cpu_rsp \in Rsps \cup {0}
        BY <3>2, <1>c DEF RestOK
      <4> HIDE DEF p
      <4>4. st \in States /\ (st = p.state \/ (p.state = "Running" /\ st = "Runnable"))
        BY <4>1 DEF Pcb, States
      <4> HIDE DEF st
      <4>5. r \in Pcb
        BY <4>1, <4>3, <4>4 DEF Pcb
      <4>6. /\ r.pid = p.pid /\ r.parent = p.parent /\ r.l4 = p.l4 /\ r.fds = p.fds
            /\ r.user_rsp = cpu_rsp /\ r.kcont = p.kcont /\ r.state = st
        BY <4>1 DEF Pcb
      <4> HIDE DEF r
      <4>7. Parked(current, p, r)
        BY <4>3, <4>4, <4>6 DEF Parked
      <4>8. \A s \in Slots : s # current => Parked(s, procs[s], procs[s])
        BY DEF Parked
      <4>9. ps \in [Slots -> Pcb] /\ ps[current] = r /\ \A s \in Slots : s # current => ps[s] = procs[s]
        BY <1>c, <4>1, <4>2, <4>5
      <4> HIDE DEF ps
      <4> QED  BY <2>1, <3>2, <4>7, <4>8, <4>9 DEF p
    <3> QED  BY <3>1, <3>2
  <2> HIDE DEF ps
  <2>4. mode = "sched" /\ after = "none" /\ UNCHANGED <<next_pid, exclusive, pipes, after>>
    BY <1>1, <1>c DEF SchedPick, ControlOK
  <2> QED  BY <1>c, <2>1, <2>2, <2>3, <2>4, ResumeKind
<1>2. CASE TimerUser /\ procs[current].state \notin {"None", "Zombie"}
  <2>1. current \in Slots /\ procs[current] \in Pcb /\ after = "none" /\ cpu_rsp \in Rsps \cup {0}
    BY <1>2, <1>c DEF TimerUser, RestOK, ControlOK, InProcess, ProcModes
  <2>3. procs[current].state \notin {"None", "Zombie"} => \E v \in Slots : Resumes(v)
    <3> SUFFICES ASSUME procs[current].state \notin {"None", "Zombie"} PROVE \E v \in Slots : Resumes(v)
      OBVIOUS
    <3> DEFINE slot == pick_runnable_other
               p == procs[current]
               r == [p EXCEPT !.state = "Runnable", !.kcont = NoCall, !.user_rsp = cpu_rsp]
               ps == [procs EXCEPT ![current] = r]
    <3>1. slot \in Slots /\ slot # current /\ procs[slot].state = "Runnable"
      <4>1. runnable_other \subseteq Slots /\ runnable_other # {}
        BY <1>2 DEF TimerUser, runnable_other
      <4>2. slot \in runnable_other
        BY <1>t, <4>1, FirstFromIn DEF pick_runnable_other
      <4> QED  BY <4>2 DEF runnable_other
    <3>2. Resume(ps, slot)
      BY <1>2 DEF TimerUser
    <3>3. p \in Pcb /\ p.state \notin {"None", "Zombie"}
      BY <2>1
    <3> HIDE DEF slot, p
    <3>4. r \in Pcb
      BY <2>1, <3>3, NoCallType DEF Pcb, States
    <3>5. /\ r.pid = p.pid /\ r.parent = p.parent /\ r.l4 = p.l4 /\ r.fds = p.fds
          /\ r.user_rsp = cpu_rsp /\ r.kcont = NoCall /\ r.state = "Runnable"
      BY <3>3 DEF Pcb
    <3> HIDE DEF r
    <3>6. Parked(current, p, r)
      BY <3>3, <3>5 DEF Parked
    <3>7. \A s \in Slots : s # current => Parked(s, procs[s], procs[s])
      BY DEF Parked
    <3>8. ps \in [Slots -> Pcb] /\ ps[current] = r /\ \A s \in Slots : s # current => ps[s] = procs[s]
      BY <1>c, <2>1, <3>4
    <3> HIDE DEF ps
    <3>9. mode = "user" /\ UNCHANGED <<next_pid, exclusive, pipes, after>>
      BY <1>2 DEF TimerUser
    <3>10. \A s \in Slots \ {slot} : Parked(s, procs[s], ps[s])
      BY <3>6, <3>7, <3>8 DEF p
    <3> QED  BY <1>c, <2>1, <3>1, <3>2, <3>8, <3>9, <3>10, ResumeKind
  <2> QED  BY <1>2, <2>3
<1> QED  BY <1>1, <1>2

\* The scheduler's loop and the timer.
LEMMA SwitchKinds ==
    ASSUME CoreInv, SchedStep \/ Timer
    PROVE  AnyKind
<1>c. ControlOK /\ RestOK
  BY DEF CoreInv
<1>1. CASE SchedPick \/ (TimerUser /\ procs[current].state \notin {"None", "Zombie"})
  BY <1>1, Switches DEF AnyKind
<1>2. CASE SchedIdle
  <2>1. NoEntry
    BY <1>2 DEF SchedIdle, NoEntry, InProcess, ProcModes, AtKmain, Idle, cpu
  <2> QED  BY <1>2, <2>1, QuietMove DEF SchedIdle, cpu
<1>3. CASE TimerKernel
  <2>1. NoEntry
    BY <1>3, <1>c DEF TimerKernel, NoEntry, InProcess, ProcModes, AtKmain, Idle, ControlOK, cpu
  <2> QED  BY <1>3, <2>1, QuietMove DEF TimerKernel, cpu
<1>4. CASE TimerUser /\ procs[current].state \in {"None", "Zombie"}
  <2>1. UNCHANGED <<table, pipes, cr3>>
    BY <1>4 DEF TimerUser, table, cpu
  <2>2. NoEntry
    BY <1>4, <1>c DEF TimerUser, NoEntry, InProcess, ProcModes, AtKmain, Idle, ControlOK, RestOK
  <2> QED  BY <2>1, <2>2, QuietMove
<1> QED  BY <1>1, <1>2, <1>3, <1>4 DEF SchedStep, Timer

\* user_exit: the process becomes a zombie, or the whole scheduler is left.
LEMMA ExitKind ==
    ASSUME CoreInv, mode \in {"user", "call"}, Live(current), NEW outcome, user_exit(outcome)
    PROVE  AnyKind
<1>0. current \in Slots /\ after = "none" /\ procs \in [Slots -> Pcb]
  BY DEF CoreInv, TableOK, RestOK, ControlOK, InProcess, ProcModes
<1>1. CASE leave_scheduler(outcome)
  <2>1. Leaves
    BY <1>0, <1>1 DEF leave_scheduler, Leaves, user_exit
  <2> QED  BY <2>1 DEF AnyKind
<1>2. CASE /\ procs' = wake_parent_of_slot(make_zombie(procs, current), current)
           /\ mode' = "sched"
           /\ UNCHANGED <<current, exclusive, init_pid, cr3>>
  <2> DEFINE z == make_zombie(procs, current)
             v == current
  <2>1. /\ z \in [Slots -> Pcb]
        /\ z[v].state = "Zombie" /\ z[v].fds = NoFds /\ z[v].kcont = NoCall
        /\ z[v].pid = procs[v].pid /\ z[v].parent = procs[v].parent /\ z[v].l4 = procs[v].l4
        /\ \A s \in Slots \ {v} : WokenPcb(procs[s], z[s]) /\ z[s].fds = procs[s].fds
        /\ \A s \in Slots : z[s].state \notin PipeBlocked
    BY <1>0, ZombieFacts
  <2>2. procs' = IF z[v].parent = 0 THEN z ELSE WakeWaiter(z, z[v].parent)
    BY <1>2 DEF wake_parent_of_slot
  <2> HIDE DEF z
  <2>3. /\ Woken(z, procs')
        /\ z[v].parent # 0 => \A s \in Slots : procs'[s].state = "BlockedWait" => z[s].pid # z[v].parent
    BY <2>1, <2>2, WokenRefl, WakeWaiterFacts
  <2>4. /\ procs'[v].state = "Zombie" /\ procs'[v].fds = NoFds /\ procs'[v].kcont = NoCall
        /\ procs'[v].pid = procs[v].pid /\ procs'[v].parent = procs[v].parent /\ procs'[v].l4 = procs[v].l4
    BY <1>0, <2>1, <2>3 DEF Woken, WokenPcb, Same, BlockedStates
  <2>5. \A s \in Slots \ {v} : WokenPcb(procs[s], procs'[s]) /\ procs'[s].fds = procs[s].fds
    BY <2>1, <2>3 DEF Woken, WokenPcb, Same, BlockedStates
  <2>6. \A s \in Slots : procs'[s].state \notin PipeBlocked
    BY <2>1, <2>3 DEF Woken, WokenPcb, PipeBlocked
  <2>7. \A s \in Slots : z[s].pid = procs[s].pid
    BY <2>1 DEF WokenPcb, Same
  <2>8. \/ procs[v].parent = 0
        \/ \A s \in Slots : procs'[s].state = "BlockedWait" => procs[s].pid # procs[v].parent
    BY <2>1, <2>3, <2>7
  <2>9. after' = "none" /\ Steady
    BY <1>0, <1>2 DEF user_exit, Steady
  <2>10. ~InProcess' /\ NoEntry
    BY <1>0, <1>2, <2>4, <2>9 DEF InProcess, ProcModes, NoEntry, AtKmain, Idle
  <2> HIDE DEF v
  <2>11. v \in Slots /\ Live(v)
    BY <1>0 DEF v
  <2>12. ~Idle
    BY <1>0 DEF Idle
  <2>13. Dies(v)
    BY <2>4, <2>5, <2>6, <2>8, <2>9, <2>10, <2>11, <2>12 DEF Dies
  <2> QED  BY <2>11, <2>13 DEF AnyKind
<1> QED  BY <1>1, <1>2 DEF user_exit

\* yield_block, after some of the others were woken.
LEMMA BlockKind ==
    ASSUME CoreInv, mode \in ProcModes, Live(current), NEW ps \in [Slots -> Pcb], Woken(procs, ps),
           NEW st \in BlockedStates, yield_block(ps, st), call.op = LoopOf(st),
           st = "BlockedStdin" => has_runnable_other,
           st = "BlockedWait" => dead_children = {},
           st = "BlockedPipeRead" => read_result(pipes[call.id]) = "WouldBlock",
           st = "BlockedPipeWrite" => write_result(pipes[call.id]) = "WouldBlock",
           UNCHANGED <<current, next_pid, exclusive, pipes, cr3, cpu_rsp, after>>
    PROVE  AnyKind
<1>0. current \in Slots /\ after = "none" /\ InProcess
  BY DEF CoreInv, RestOK, ControlOK, InProcess, ProcModes
<1> DEFINE p == ps[current]
           r == [p EXCEPT !.state = st, !.kcont = call]
<1>1. procs' = [ps EXCEPT ![current] = r] /\ mode' = "sched"
  BY DEF yield_block
<1>2. p \in Pcb
  BY <1>0
<1> HIDE DEF p
<1>3. /\ r.state = st /\ r.kcont = call /\ r.pid = p.pid /\ r.parent = p.parent /\ r.l4 = p.l4
      /\ r.fds = p.fds
  BY <1>2 DEF Pcb
<1> HIDE DEF r
<1>4. procs'[current] = r /\ \A s \in Slots \ {current} : procs'[s] = ps[s]
  BY <1>0, <1>1
<1>5. /\ p.pid = procs[current].pid /\ p.parent = procs[current].parent
      /\ p.l4 = procs[current].l4 /\ p.fds = procs[current].fds
  BY <1>0 DEF Woken, WokenPcb, Same, p
<1>6. \A s \in Slots \ {current} : WokenPcb(procs[s], procs'[s]) /\ procs'[s].fds = procs[s].fds
  BY <1>4 DEF Woken
<1>7. Steady /\ ~AtKmain'
  BY <1>0, <1>1 DEF Steady, AtKmain
<1>8. st = "BlockedStdin" => \E s \in Slots \ {current} : procs'[s].state \in {"Runnable", "Running"}
  BY <1>6 DEF has_runnable_other, WokenPcb, BlockedStates
<1>9. Blocks(st)
  BY <1>0, <1>1, <1>3, <1>4, <1>5, <1>6, <1>7, <1>8 DEF Blocks
<1> QED  BY <1>9 DEF AnyKind

\* run_with.
LEMMA StartKind ==
    ASSUME CoreInv, mode \in {"host", "kshell"}, NEW excl \in BOOLEAN, excl \/ mode = "host", run_with(excl),
           UNCHANGED <<pipes, after>>
    PROVE  AnyKind
<1> DEFINE slot == First(free_slots(procs))
           p == new_pcb(1, 0, new_stdio, new_user_l4, "Running")
<1>0. procs \in [Slots -> Pcb] /\ after = "none"
  BY DEF CoreInv, TableOK, ControlOK
<1>1. slot \in Slots /\ procs[slot].state = "None"
  BY FirstSlot DEF run_with, free_slots
<1>2. /\ p.state = "Running" /\ p.pid = 1 /\ p.parent = 0 /\ p.kcont = NoCall
      /\ p.l4 = new_user_l4
  BY DEF new_pcb, NoPcb
<1>3. /\ procs' = [procs EXCEPT ![slot] = p] /\ current' = slot /\ cr3' = new_user_l4
      /\ next_pid' = 2 /\ exclusive' = excl /\ mode' = "user"
  BY DEF run_with
<1> HIDE DEF slot, p
<1>4. procs'[slot] = p /\ \A s \in Slots \ {slot} : procs'[s] = procs[s]
  BY <1>0, <1>1, <1>3
<1>5. ~AtKmain'
  BY <1>0, <1>3 DEF AtKmain
<1>6. Starts(slot)
  BY <1>1, <1>2, <1>3, <1>4, <1>5 DEF Starts
<1> QED  BY <1>1, <1>6 DEF AnyKind

\* kmain, read_stdin's loop, faults and the entry of a system call.
LEMMA LoopKinds ==
    ASSUME CoreInv, CtlInv, KmainStep \/ StdinStep \/ UserStep \/ Panic
    PROVE  AnyKind
<1>c. procs \in [Slots -> Pcb] /\ ControlOK /\ RestOK
  BY DEF CoreInv, TableOK
<1>1. CASE HostRunInit
  BY <1>1, StartKind DEF HostRunInit
<1>2. CASE HostGiveUp
  <2>1. CASE run_with_fails(FALSE)
    <3>1. Fails
      BY <1>2, <2>1 DEF HostGiveUp, run_with_fails, Fails
    <3> QED  BY <3>1 DEF AnyKind
  <2>2. CASE mode' = "kshell" /\ UNCHANGED <<table, cpu>>
    <3>1. NoEntry
      BY <1>2, <2>2, <1>c DEF HostGiveUp, NoEntry, InProcess, ProcModes, AtKmain, Idle, ControlOK
    <3> QED  BY <1>2, <2>2, <3>1, QuietMove DEF HostGiveUp, cpu
  <2> QED  BY <1>2, <2>1, <2>2 DEF HostGiveUp
<1>3. CASE KshellByte
  <2>1. CASE UNCHANGED <<table, cpu, mode>>
    <3>1. NoEntry
      BY <1>3, <2>1, <1>c DEF KshellByte, NoEntry, InProcess, AtKmain, Idle, ControlOK
    <3> QED  BY <1>3, <2>1, <3>1, QuietMove DEF KshellByte, cpu
  <2>2. CASE run_with(TRUE)
    BY <1>3, <2>2, StartKind DEF KshellByte
  <2>3. CASE run_with_fails(TRUE)
    <3>1. Fails
      BY <1>3, <2>3 DEF KshellByte, run_with_fails, Fails
    <3> QED  BY <3>1 DEF AnyKind
  <2> QED  BY <1>3, <2>1, <2>2, <2>3 DEF KshellByte
<1>4. CASE KshellPoll
  <2>1. NoEntry
    BY <1>4, <1>c DEF KshellPoll, NoEntry, InProcess, ProcModes, AtKmain, Idle, ControlOK
  <2> QED  BY <1>4, <2>1, QuietMove DEF KshellPoll, cpu
<1>5. CASE StdinByte
  <2>1. NoEntry
    BY <1>5, <1>c DEF StdinByte, InCall, SysReturn, NoEntry, InProcess, ProcModes, AtKmain, Idle, ControlOK
  <2> QED  BY <1>5, <2>1, QuietMove DEF StdinByte, cpu
<1>6. CASE StdinPoll
  <2>1. NoEntry
    BY <1>6, <1>c DEF StdinPoll, InCall, NoEntry, InProcess, ProcModes, AtKmain, Idle, ControlOK
  <2> QED  BY <1>6, <2>1, QuietMove DEF StdinPoll, cpu
<1>7. CASE StdinBlock
  <2>1. Woken(procs, procs) /\ call.op = LoopOf("BlockedStdin") /\ "BlockedStdin" \in BlockedStates
    BY <1>7, WokenRefl DEF StdinBlock, CtlInv, LoopOf, BlockedStates
  <2> QED  BY <1>7, <1>c, <2>1, BlockKind DEF StdinBlock, ProcModes, Live, cpu
<1>8. CASE StdinHalt
  <2>1. NoEntry
    BY <1>8, <1>c DEF StdinHalt, NoEntry, InProcess, ProcModes, AtKmain, Idle, ControlOK
  <2> QED  BY <1>8, <2>1, QuietMove DEF StdinHalt, cpu
<1>9. CASE UserFault
  BY <1>9, ExitKind DEF UserFault, may_fault, Live
<1>10. ASSUME NEW rsp \in Rsps, Syscall(rsp) PROVE AnyKind
  <2>1. NoEntry
    BY <1>10, <1>c DEF Syscall, NoEntry, InProcess, ProcModes, AtKmain, Idle, ControlOK
  <2> QED  BY <1>10, <2>1, QuietMove DEF Syscall
<1>11. CASE Panic
  <2>1. NoEntry
    BY <1>11, <1>c DEF Panic, unwraps, may_fault, Asked, NoEntry, InProcess, ProcModes, AtKmain, Idle, ControlOK
  <2> QED  BY <1>11, <2>1, QuietMove DEF Panic, cpu
<1> QED
  BY <1>1, <1>2, <1>3, <1>4, <1>5, <1>6, <1>7, <1>8, <1>9, <1>10, <1>11
     DEF KmainStep, StdinStep, UserStep

\* A call returns to the process that made it.
LEMMA ReturnNoEntry ==
    ASSUME CoreInv, mode = "call", mode' \in {"call", "user"}, after' = after
    PROVE  NoEntry /\ InProcess /\ ~AtKmain' /\ current \in Slots
BY DEF CoreInv, ControlOK, RestOK, NoEntry, InProcess, ProcModes, AtKmain, Idle

\* A call that changes neither processes nor pipes.
LEMMA PlainReturn ==
    ASSUME CoreInv, mode = "call", mode' \in {"call", "user"}, UNCHANGED <<table, pipes, cr3, after>>
    PROVE  AnyKind
BY ReturnNoEntry, QuietMove

\* Calls about processes and windows.
LEMMA ProcessKinds ==
    ASSUME CoreInv, CtlInv
    PROVE  /\ SysOther \/ SysExit \/ SysWait \/ SysWinCreate \/ WaitStep => AnyKind
           /\ \A a, b \in SpawnFds : SysSpawn(a, b) \/ SysSpawnFails(a, b) => AnyKind
           /\ \A pid \in Pids : SysKill(pid) => AnyKind
<1>c. procs \in [Slots -> Pcb] /\ ControlOK /\ RestOK
  BY DEF CoreInv, TableOK
<1>p. mode = "call" => current \in Slots /\ InProcess
  BY <1>c DEF ControlOK, RestOK, InProcess, ProcModes
<1>1. CASE SysOther \/ SysWait \/ SysWinCreate \/ WaitNone
  BY <1>1, PlainReturn DEF SysOther, SysWait, SysWinCreate, WaitNone, InCall, Dispatch, Asked,
                           SysReturn, Enter, cpu
<1>2. CASE SysExit
  BY <1>2, ExitKind DEF SysExit, Dispatch, Asked, Live
<1>3. CASE WaitReap
  <2> DEFINE i == First(dead_children)
  <2>1. i \in Slots /\ procs[i].state = "Zombie"
    BY <1>3, FirstSlot DEF WaitReap, dead_children
  <2>2. procs' = [procs EXCEPT ![i] = NoPcb] /\ pipes' = ClosedBy({i}) /\ cr3' = unload({i})
    BY <1>3 DEF WaitReap
  <2> HIDE DEF i
  <2>3. procs' = [s \in Slots |-> IF s \in {i} THEN NoPcb ELSE procs[s]]
    BY <1>c, <2>1, <2>2
  <2>4. NoEntry
    BY <1>3, ReturnNoEntry DEF WaitReap, InCall, SysReturn
  <2>5. Reaps({i})
    BY <1>3, <2>1, <2>2, <2>3, <2>4 DEF WaitReap, Reaps
  <2> QED  BY <2>1, <2>5 DEF AnyKind
<1>4. CASE WaitBlock
  <2>1. /\ Woken(procs, procs) /\ call.op = LoopOf("BlockedWait") /\ "BlockedWait" \in BlockedStates
        /\ Live(current)
    BY <1>4, WokenRefl DEF WaitBlock, InCall, CtlInv, LoopOf, BlockedStates
  <2> QED  BY <1>4, <1>c, <2>1, BlockKind DEF WaitBlock, InCall, ProcModes, cpu
<1>5. ASSUME NEW a \in SpawnFds, NEW b \in SpawnFds, SysSpawn(a, b) \/ SysSpawnFails(a, b)
      PROVE  AnyKind
  <2> DEFINE pid == procs[current].pid
             inh == child_fds(pid, a, b)
             par == First(WithPid(procs, pid))
  <2>m. mode = "call" /\ mode' = "user" /\ after' = after
    BY <1>5 DEF SysSpawn, SysSpawnFails, Asked, SysReturn
  <2>n. NoEntry /\ InProcess /\ ~AtKmain' /\ current \in Slots
    BY <2>m, ReturnNoEntry
  <2>1. pid \in Pids
    BY <1>c, <2>n DEF Pcb
  <2>2. inh.fds \in Tables /\ PipesCalm(pipes, inh.pipes)
    <3>1. CASE pid = 0
      BY <3>1, <1>c, StdioType, CalmRefl DEF child_fds
    <3>2. CASE pid # 0
      <4>0. current \in WithPid(procs, pid)
        BY <3>2, <2>n DEF CoreInv, WithPid, TableOK
      <4>1. par \in Slots
        BY <3>2, <4>0, FirstSlot DEF WithPid
      <4>2. procs[par].fds \in Tables /\ pipes \in PipeTables
        BY <4>1, <1>c DEF Pcb, Tables, RestOK
      <4>3. inh = inherit_from(pipes, procs[par].fds, a, b)
        BY <3>2 DEF child_fds
      <4> HIDE DEF inh, par
      <4> QED  BY <4>2, <4>3, InheritType, InheritPipes
    <3> QED  BY <3>1, <3>2
  <2> HIDE DEF inh
  <2>3. CASE SysSpawn(a, b)
    <3>1. insert_pcb(pid, inh.fds) /\ pipes' = inh.pipes /\ UNCHANGED <<current, exclusive, cr3>>
      BY <2>3 DEF SysSpawn, inh, cpu
    <3>2. pid = procs[current].pid
      OBVIOUS
    <3> HIDE DEF pid
    <3> QED  BY <2>1, <2>2, <2>m, <2>n, <3>1, <3>2, InsertKind
  <2>4. CASE SysSpawnFails(a, b)
    <3>1. PipesCalm(pipes, pipes') /\ UNCHANGED <<procs, current, next_pid, exclusive, cr3>>
      BY <2>4, <2>2, CalmRefl DEF SysSpawnFails, inh, table, cpu
    <3>2. Woken(procs, procs')
      BY <3>1, WokenRefl
    <3> QED  BY <2>n, <3>1, <3>2, QuietWake DEF OnlyStdin
  <2> QED  BY <1>5, <2>3, <2>4
<1>6. ASSUME NEW pid \in Pids, SysKill(pid) PROVE AnyKind
  <2> DEFINE v == First(WithPid(procs, pid))
             z == make_zombie(procs, v)
  <2>1. v \in Slots /\ procs[v].state # "None"
    BY <1>6, FirstSlot DEF SysKill, WithPid
  <2>2. /\ procs' = z /\ procs[v].parent = procs[current].pid
        /\ mode = "call" /\ mode' = "user" /\ "kill" \in Calls /\ procs[current].state # "None"
        /\ UNCHANGED <<current, next_pid, exclusive, cr3, after>>
    BY <1>6 DEF SysKill, Dispatch, Asked, SysReturn, cpu
  <2>3. NoEntry /\ InProcess /\ ~Idle
    BY <2>2, ReturnNoEntry, BusyNotIdle
  <2> HIDE DEF v
  <2>4. /\ z[v].state = "Zombie" /\ z[v].fds = NoFds /\ z[v].kcont = NoCall
        /\ z[v].pid = procs[v].pid /\ z[v].parent = procs[v].parent /\ z[v].l4 = procs[v].l4
        /\ \A s \in Slots \ {v} : WokenPcb(procs[s], z[s]) /\ z[s].fds = procs[s].fds
        /\ \A s \in Slots : z[s].state \notin PipeBlocked
    BY <1>c, <2>1, ZombieFacts
  <2> HIDE DEF z
  <2>5. Dies(v)
    BY <2>1, <2>2, <2>3, <2>4 DEF Dies, Live, Steady
  <2> QED  BY <2>1, <2>5 DEF AnyKind
<1> QED  BY <1>1, <1>2, <1>3, <1>4, <1>5, <1>6 DEF WaitStep

-----------------------------------------------------------------------------
\* The descriptors of the process that calls change, and those blocked on pipes may be woken.
LEMMA FdsKind ==
    ASSUME CoreInv, mode = "call", mode' = "user", NEW t,
           LET q == [procs EXCEPT ![current].fds = t] IN
           \/ procs' = wake_pipe(q)
           \/ procs' = q /\ PipesCalm(pipes, pipes'),
           t \in Tables, UNCHANGED <<current, next_pid, exclusive, cr3, after>>
    PROVE  AnyKind
<1> DEFINE p == procs[current]
           r == [p EXCEPT !.fds = t]
           q == [procs EXCEPT ![current] = r]
<1>0. current \in Slots /\ InProcess /\ NoEntry /\ ~Idle /\ procs \in [Slots -> Pcb]
  BY ReturnNoEntry, BusyNotIdle DEF CoreInv, TableOK
<1>1. [procs EXCEPT ![current].fds = t] = q
  OBVIOUS
<1>2. p \in Pcb
  BY <1>0
<1> HIDE DEF p
<1>3. r \in Pcb /\ Same(p, r) /\ r.state = p.state
  BY <1>2 DEF Pcb, Same, Tables
<1> HIDE DEF r
<1>4. q \in [Slots -> Pcb] /\ q[current] = r /\ \A s \in Slots : s # current => q[s] = procs[s]
  BY <1>0, <1>3
<1>5. \A s \in Slots : WokenPcb(procs[s], q[s]) /\ (q[s].fds = procs[s].fds \/ s = current)
  BY <1>3, <1>4 DEF WokenPcb, Same, p
<1> HIDE DEF q
<1>6. CASE procs' = wake_pipe(q)
  <2>1. PipeBlocked \in SUBSET BlockedStates
    BY DEF PipeBlocked, BlockedStates
  <2>2. Woken(q, procs') /\ \A s \in Slots : procs'[s].state \notin PipeBlocked
    BY <1>4, <1>6, <2>1, WakeFacts DEF wake_pipe, PipeBlocked
  <2>3. \A s \in Slots : WokenPcb(procs[s], procs'[s]) /\ (procs'[s].fds = procs[s].fds \/ s = current)
    BY <1>5, <2>2 DEF Woken, WokenPcb, Same, BlockedStates
  <2>4. Quiet
    BY <1>0, <2>2, <2>3 DEF Quiet, OnlyStdin, Steady
  <2> QED  BY <2>4 DEF AnyKind
<1>7. CASE procs' = q /\ PipesCalm(pipes, pipes')
  <2>1. Quiet
    BY <1>0, <1>5, <1>7 DEF Quiet, OnlyStdin, Steady
  <2> QED  BY <2>1 DEF AnyKind
<1> QED  BY <1>1, <1>6, <1>7

\* A pipe that is not in use blocks nobody.
LEMMA UnusedCalm ==
    ASSUME NEW P, NEW Q, NEW id, \A i \in PipeIds : i # id => Q[i] = P[i], ~P[id].used
    PROVE  PipesCalm(P, Q)
BY DEF PipesCalm, PipeCalm, read_result, write_result

\* Calls about descriptors and pipes.
LEMMA DescriptorKinds ==
    ASSUME CoreInv, CtlInv
    PROVE  /\ SysPipe \/ SysPipeFails \/ ReadPipe \/ WritePipe => AnyKind
           /\ \A k \in {"File", "Dir"} : SysOpen(k) => AnyKind
           /\ \A fd \in Fds : SysClose(fd) => AnyKind
           /\ \A fd \in Fds, n \in Lens : SysRead(fd, n) \/ SysWrite(fd, n) => AnyKind
<1>c. procs \in [Slots -> Pcb] /\ ControlOK /\ RestOK /\ pipes \in PipeTables
  BY DEF CoreInv, TableOK, RestOK
<1>p. mode = "call" => /\ current \in Slots /\ procs[current] \in Pcb /\ my_fds \in Tables
                       /\ InProcess /\ current # None /\ after = "none"
  BY <1>c, MyFds DEF ControlOK, InProcess, ProcModes
<1>f. pipe_free(pipes) # {} => LET id == First(pipe_free(pipes)) IN id \in PipeIds /\ ~pipes[id].used
  BY PipeIdsNat, FirstIsLeast DEF pipe_free
<1>1. CASE SysPipe
  <2> DEFINE id == First(pipe_free(pipes))
             t == fd_alloc(fd_alloc(my_fds, PipeEnd(id, FALSE)), PipeEnd(id, TRUE))
  <2>m. mode = "call" /\ mode' = "user" /\ UNCHANGED <<current, next_pid, exclusive, cr3, after>>
    BY <1>1 DEF SysPipe, Dispatch, Asked, SysReturn, cpu
  <2>1. PipeEnd(id, FALSE) \in OpenFd /\ PipeEnd(id, TRUE) \in OpenFd
    BY <1>1, <1>f, PipeEndOpen DEF SysPipe
  <2>2. PipesCalm(pipes, pipes')
    <3>1. id \in PipeIds /\ ~pipes[id].used
      BY <1>1, <1>f DEF SysPipe
    <3>2. \A i \in PipeIds : i # id => pipes'[i] = pipes[i]
      BY <1>1, <1>c DEF SysPipe, pipe_alloc, PipeTables
    <3> HIDE DEF id
    <3> QED  BY <3>1, <3>2, UnusedCalm
  <2> HIDE DEF id
  <2>3. t \in Tables
    BY <1>p, <2>m, <2>1, FdAllocType
  <2>4. procs' = [procs EXCEPT ![current].fds = t]
    BY <1>1, <1>p, <2>m DEF SysPipe, id, my_fds
  <2> HIDE DEF t
  <2> QED  BY <2>m, <2>2, <2>3, <2>4, FdsKind
<1>2. CASE SysPipeFails
  <2> DEFINE id == First(pipe_free(pipes))
  <2>m. /\ mode = "call" /\ mode' = "user" /\ procs' = procs
        /\ UNCHANGED <<current, next_pid, exclusive, cr3, after>>
    BY <1>2 DEF SysPipeFails, Dispatch, Asked, SysReturn, table, cpu
  <2>1. id \in PipeIds /\ ~pipes[id].used
    BY <1>2, <1>f DEF SysPipeFails
  <2>2. \A i \in PipeIds : i # id => pipes'[i] = pipes[i]
    BY <1>2, <1>c DEF SysPipeFails, pipe_alloc, PipeTables
  <2> HIDE DEF id
  <2>3. PipesCalm(pipes, pipes')
    BY <2>1, <2>2, UnusedCalm
  <2>4. Woken(procs, procs') /\ NoEntry /\ OnlyStdin
    BY <2>m, WokenRefl, ReturnNoEntry DEF OnlyStdin
  <2> QED  BY <2>m, <2>3, <2>4, QuietWake
<1>3. ASSUME NEW k \in {"File", "Dir"}, SysOpen(k) PROVE AnyKind
  <2> DEFINE t == fd_alloc(my_fds, Plain(k))
  <2>m. /\ mode = "call" /\ mode' = "user" /\ pipes' = pipes
        /\ UNCHANGED <<current, next_pid, exclusive, cr3, after>>
    BY <1>3 DEF SysOpen, Dispatch, Asked, SysReturn, cpu
  <2>1. t \in Tables /\ PipesCalm(pipes, pipes')
    BY <1>p, <2>m, PlainOpen, FdAllocType, CalmRefl
  <2>2. procs' = [procs EXCEPT ![current].fds = t]
    BY <1>3, <1>p, <2>m DEF SysOpen, my_fds
  <2> HIDE DEF t
  <2> QED  BY <2>m, <2>1, <2>2, FdsKind
<1>4. ASSUME NEW fd \in Fds, SysClose(fd) PROVE AnyKind
  <2> DEFINE t == [my_fds EXCEPT ![fd] = Closed]
  <2>m. mode = "call" /\ mode' = "user" /\ UNCHANGED <<current, next_pid, exclusive, cr3, after>>
    BY <1>4 DEF SysClose, Dispatch, Asked, SysReturn, cpu
  <2>1. t \in Tables
    BY <1>p, <2>m, PlainOpen DEF Tables, Closed
  <2>2. procs' = wake_pipe([procs EXCEPT ![current].fds = t])
    BY <1>4, <1>p, <2>m DEF SysClose, my_fds
  <2> HIDE DEF t
  <2> QED  BY <2>m, <2>1, <2>2, FdsKind
<1>5. ASSUME NEW fd \in Fds, NEW n \in Lens, SysRead(fd, n) \/ SysWrite(fd, n) PROVE AnyKind
  BY <1>5, PlainReturn DEF SysRead, SysWrite, Dispatch, Asked, Enter, cpu
<1>w. /\ wake_pipe(procs) \in [Slots -> Pcb] /\ Woken(procs, wake_pipe(procs))
      /\ \A s \in Slots : wake_pipe(procs)[s].state \notin PipeBlocked
  <2>1. PipeBlocked \in SUBSET BlockedStates /\ wake_pipe(procs) = Wake(procs, PipeBlocked)
    BY DEF PipeBlocked, BlockedStates, wake_pipe
  <2>2. TableOK(wake_pipe(procs), current)
    BY WakeOK DEF wake_pipe, CoreInv
  <2> QED  BY <1>c, <2>1, <2>2, WakeFacts DEF TableOK
<1>6. CASE ReadPipe
  <2>m. mode = "call" /\ call.op = "read_pipe" /\ UNCHANGED <<current, next_pid, exclusive, cr3, cpu_rsp, after>>
    BY <1>6 DEF ReadPipe, InCall, cpu
  <2>1. CASE SysReturn /\ procs' = wake_pipe(procs)
    <3>1. NoEntry /\ OnlyStdin
      BY <2>1, <2>m, ReturnNoEntry, BusyNotIdle DEF SysReturn, OnlyStdin
    <3> QED  BY <2>1, <2>m, <3>1, <1>w, QuietWake
  <2>2. CASE SysReturn /\ UNCHANGED <<pipes, procs>>
    <3>1. NoEntry /\ OnlyStdin /\ Woken(procs, procs') /\ PipesCalm(pipes, pipes')
      BY <2>2, <2>m, ReturnNoEntry, WokenRefl, CalmRefl DEF SysReturn, OnlyStdin
    <3> QED  BY <2>m, <3>1, QuietWake
  <2>3. CASE /\ read_result(pipes[call.id]) = "WouldBlock"
             /\ yield_block(wake_pipe(procs), "BlockedPipeRead") /\ UNCHANGED pipes
    <3>1. /\ call.op = LoopOf("BlockedPipeRead") /\ "BlockedPipeRead" \in BlockedStates
          /\ Live(current) /\ mode \in ProcModes
      BY <2>m DEF CtlInv, LoopOf, BlockedStates, ProcModes
    <3> QED  BY <2>3, <2>m, <1>w, <3>1, BlockKind
  <2> QED  BY <1>6, <2>1, <2>2, <2>3 DEF ReadPipe
<1>7. CASE WritePipe
  <2>m. mode = "call" /\ call.op = "write_pipe" /\ UNCHANGED <<current, next_pid, exclusive, cr3, cpu_rsp, after>>
    BY <1>7 DEF WritePipe, InCall, cpu
  <2>1. CASE SysReturn /\ procs' = wake_pipe(procs)
    <3>1. NoEntry /\ OnlyStdin
      BY <2>1, <2>m, ReturnNoEntry, BusyNotIdle DEF SysReturn, OnlyStdin
    <3> QED  BY <2>1, <2>m, <3>1, <1>w, QuietWake
  <2>2. CASE SysReturn /\ UNCHANGED <<pipes, procs>>
    <3>1. NoEntry /\ OnlyStdin /\ Woken(procs, procs') /\ PipesCalm(pipes, pipes')
      BY <2>2, <2>m, ReturnNoEntry, WokenRefl, CalmRefl DEF SysReturn, OnlyStdin
    <3> QED  BY <2>m, <3>1, QuietWake
  <2>3. CASE /\ write_result(pipes[call.id]) = "WouldBlock"
             /\ yield_block(wake_pipe(procs), "BlockedPipeWrite") /\ UNCHANGED pipes
    <3>1. /\ call.op = LoopOf("BlockedPipeWrite") /\ "BlockedPipeWrite" \in BlockedStates
          /\ Live(current) /\ mode \in ProcModes
      BY <2>m DEF CtlInv, LoopOf, BlockedStates, ProcModes
    <3> QED  BY <2>3, <2>m, <1>w, <3>1, BlockKind
  <2> QED  BY <1>7, <2>1, <2>2, <2>3 DEF WritePipe
<1> QED  BY <1>1, <1>2, <1>3, <1>4, <1>5, <1>6, <1>7

-----------------------------------------------------------------------------
\* Every step of the kernel, of a process, of the timer and of the keyboard is of
\* one of the kinds.
LEMMA StepKinds ==
    ASSUME CoreInv, CtlInv, [Next]_vars
    PROVE  AnyKind
<1>1. CASE KernelStep
  <2>1. CASE DispatchStep \/ ReadPipe \/ WritePipe \/ WaitStep
    BY <2>1, ProcessKinds, DescriptorKinds DEF DispatchStep
  <2>2. CASE Panic \/ StdinStep \/ KmainStep
    BY <2>2, LoopKinds
  <2>3. CASE PollStep
    BY <2>3, InputKinds
  <2>4. CASE SchedStep
    BY <2>4, SwitchKinds
  <2> QED  BY <1>1, <2>1, <2>2, <2>3, <2>4 DEF KernelStep
<1>2. CASE UserStep
  BY <1>2, LoopKinds
<1>3. CASE Timer
  BY <1>3, SwitchKinds
<1>4. CASE InputStep
  BY <1>4, InputKinds
<1>5. CASE UNCHANGED vars
  <2>1. NoEntry /\ UNCHANGED <<table, pipes, cr3>>
    BY <1>5 DEF vars, NoEntry, InProcess, AtKmain, Idle, table
  <2> QED  BY <2>1, QuietMove
<1> QED  BY <1>1, <1>2, <1>3, <1>4, <1>5 DEF Next

-----------------------------------------------------------------------------
(* Where the CPU is in a call.                                             *)

\* A step after which no call is executed, or one that is only dispatched.
LEMMA CtlAtEnd ==
    ASSUME ControlOK, after' = "none", \/ mode' \in {"user", "sched", "hlt", "host", "kshell", "panic"}
                                       \/ mode' = "call" /\ call'.op \in {"dispatch", "read_stdin"}
    PROVE  CtlInv'
BY DEF CtlInv

\* CtlInv is inductive: a poll returns to the call it was made in, and the loops that
\* may block are entered, or resumed, by a process that is in the table.
LEMMA NextCtl == CoreInv /\ CtlInv /\ [Next]_vars => CtlInv'
<1> SUFFICES ASSUME CoreInv, CtlInv, [Next]_vars PROVE CtlInv'
  OBVIOUS
<1>c. ControlOK /\ (current \in Slots => procs[current] \in Pcb)
  BY DEF CoreInv, TableOK
<1>1. CASE \E v \in Slots : Resumes(v)
  BY <1>1 DEF Resumes, CtlInv, Live
<1>2. CASE SysWait
  BY <1>2, <1>c DEF SysWait, Dispatch, Asked, Enter, table, CtlInv, ControlOK, Live
<1>3. ASSUME NEW fd \in Fds, NEW n \in Lens, SysRead(fd, n) \/ SysWrite(fd, n) PROVE CtlInv'
  BY <1>3, <1>c DEF SysRead, SysWrite, Dispatch, Asked, Enter, table, CtlInv, ControlOK, Live
<1>4. CASE PollReap
  BY <1>4, <1>c DEF PollReap, CtlInv, ControlOK
<1>5. CASE PollDone
  BY <1>5, <1>c DEF PollDone, CtlInv, ControlOK
<1>6. CASE SchedIdle \/ TimerKernel
  BY <1>6, <1>c DEF SchedIdle, TimerKernel, CtlInv, ControlOK
<1>7. CASE WaitStep
  BY <1>7, <1>c, CtlAtEnd DEF WaitStep, WaitReap, WaitNone, WaitBlock, InCall, SysReturn, yield_block, ControlOK
<1>8. CASE StdinByte \/ StdinBlock
  BY <1>8, <1>c, CtlAtEnd DEF StdinByte, StdinBlock, InCall, SysReturn, yield_block, ControlOK
<1>9. CASE StdinPoll \/ StdinHalt
  BY <1>9, <1>c DEF StdinPoll, StdinHalt, InCall, CtlInv, ControlOK
<1>10. CASE KmainStep
  <2>1. CASE HostRunInit \/ HostGiveUp
    BY <1>c, <2>1, CtlAtEnd DEF HostRunInit, HostGiveUp, run_with, run_with_fails, ControlOK
  <2>2. CASE KshellByte
    BY <1>c, <2>2, CtlAtEnd DEF KshellByte, run_with, run_with_fails, ControlOK
  <2>3. CASE KshellPoll
    BY <1>c, <2>3 DEF KshellPoll, CtlInv, ControlOK
  <2> QED  BY <1>10, <2>1, <2>2, <2>3 DEF KmainStep
<1>11. CASE Panic
  BY <1>11, <1>c, CtlAtEnd DEF Panic, unwraps, may_fault, Asked, ControlOK
<1>12. CASE SysOther \/ SysPipe \/ SysPipeFails \/ SysWinCreate
  BY <1>12, <1>c, CtlAtEnd DEF SysOther, SysPipe, SysPipeFails, SysWinCreate, InCall, Dispatch, Asked, SysReturn, ControlOK
<1>13. ASSUME NEW out, user_exit(out), mode \in {"user", "call"} PROVE CtlInv'
  BY <1>13, <1>c, CtlAtEnd DEF user_exit, leave_scheduler, ControlOK
<1>14. ASSUME NEW a, NEW b, SysSpawn(a, b) \/ SysSpawnFails(a, b) PROVE CtlInv'
  BY <1>14, <1>c, CtlAtEnd DEF SysSpawn, SysSpawnFails, Asked, SysReturn, ControlOK
<1>15. ASSUME NEW x, SysKill(x) \/ SysOpen(x) \/ SysClose(x) PROVE CtlInv'
  BY <1>15, <1>c, CtlAtEnd DEF SysKill, SysOpen, SysClose, Dispatch, Asked, SysReturn, ControlOK
<1>16. CASE ReadPipe \/ WritePipe
  BY <1>16, <1>c, CtlAtEnd DEF ReadPipe, WritePipe, InCall, SysReturn, yield_block, ControlOK
<1>17. ASSUME NEW rsp, Syscall(rsp) PROVE CtlInv'
  BY <1>17, <1>c DEF Syscall, NoCall, CtlInv, ControlOK
<1>18. ASSUME NEW key, KeyIrq(key) PROVE CtlInv'
  <2>1. after' = "none" /\ (mode' = "sched" \/ (mode' = "call" /\ mode = "wait" /\ call' = call) \/ (mode' = mode /\ call' = call))
    BY <1>18, <1>c DEF KeyIrq, IrqModes, ControlOK
  <2>2. mode = "wait" => call.op = "read_stdin"
    BY DEF CtlInv
  <2>3. mode \in {"host", "kshell", "user", "wait", "hlt"}
    BY <1>18 DEF KeyIrq, IrqModes
  <2> QED  BY <2>1, <2>2, <2>3 DEF CtlInv
<1>19. ASSUME NEW x, PollKey(x) \/ PollLaunch \/ PollCloseFrame(x) PROVE CtlInv'
  BY <1>19 DEF PollKey, PollLaunch, PollCloseFrame, CtlInv
<1>20. CASE SchedPick \/ (TimerUser /\ procs[current].state \notin {"None", "Zombie"})
  BY <1>1, <1>20, Switches
<1>21. CASE TimerUser /\ procs[current].state \in {"None", "Zombie"}
  BY <1>21, <1>c, CtlAtEnd DEF TimerUser, ControlOK
<1>22. CASE UNCHANGED vars
  BY <1>22 DEF vars, CtlInv, Live
<1>23. CASE KernelStep
  <2>1. CASE DispatchStep
    BY <2>1, <1>2, <1>3, <1>12, <1>13, <1>14, <1>15 DEF DispatchStep, SysExit, Dispatch, Asked
  <2> QED  BY <1>23, <2>1, <1>4, <1>5, <1>6, <1>7, <1>8, <1>9, <1>10, <1>11, <1>16, <1>20
           DEF KernelStep, PollStep, SchedStep, StdinStep
<1>24. CASE UserStep
  BY <1>24, <1>13, <1>17 DEF UserStep, UserFault, may_fault
<1>25. CASE Timer \/ InputStep
  BY <1>25, <1>6, <1>18, <1>19, <1>20, <1>21 DEF Timer, InputStep
<1> QED  BY <1>22, <1>23, <1>24, <1>25 DEF Next

\* CoreInv and CtlInv are invariants of the kernel.
LEMMA CtlHolds == Spec => [](CoreInv /\ CtlInv)
<1>1. Init => CtlInv
  BY DEF Init, CtlInv
<1>2. CoreInv /\ CtlInv /\ [Next]_vars => (CoreInv /\ CtlInv)'
  BY NextCore, NextCtl
<1> QED  BY <1>1, <1>2, InitCore, PTL DEF Spec

-----------------------------------------------------------------------------
(* Page tables.                                                            *)

\* Whatever kind of step is taken, a loaded page table stays the current process's.
LEMMA Cr3Step ==
    ASSUME CoreInv, AnyKind, Cr3Owned
    PROVE  Cr3Owned'
<1>c. /\ procs \in [Slots -> Pcb] /\ current \in Slots \cup {None} /\ None \notin Slots
      /\ mode \in {"host", "kshell"} => current = None
  BY SlotsNat DEF CoreInv, TableOK, RestOK, ControlOK
<1>o. cr3 # 0 => current \in Slots /\ procs[current].state # "None" /\ procs[current].l4 = cr3
  BY <1>c DEF Cr3Owned, Live
<1>1. CASE Quiet
  BY <1>1, <1>o, <1>c DEF Quiet, Steady, WokenPcb, Same, Cr3Owned, Live, BlockedStates
<1>2. CASE Fails \/ Leaves
  BY <1>2, <1>o, <1>c DEF Fails, Leaves, Cr3Owned
<1>3. ASSUME NEW v \in Slots, Dies(v) PROVE Cr3Owned'
  BY <1>3, <1>o, <1>c DEF Dies, Steady, WokenPcb, Same, Cr3Owned, Live, BlockedStates
<1>4. ASSUME NEW v \in Slots, Resumes(v) PROVE Cr3Owned'
  BY <1>4, <1>c DEF Resumes, Cr3Owned, Live
<1>5. ASSUME NEW v \in Slots, Starts(v) PROVE Cr3Owned'
  BY <1>5, <1>c DEF Starts, Cr3Owned, Live
<1>6. ASSUME NEW st \in BlockedStates, Blocks(st) PROVE Cr3Owned'
  BY <1>6, <1>o, <1>c DEF Blocks, Steady, Cr3Owned, Live, BlockedStates
<1>7. ASSUME NEW S \in SUBSET Slots, Reaps(S) PROVE Cr3Owned'
  BY <1>7, <1>o, <1>c DEF Reaps, unload, Cr3Owned, Live
<1>8. ASSUME NEW slot \in Slots, NEW parent \in Pids, Inserts(slot, parent) PROVE Cr3Owned'
  BY <1>8, <1>o, <1>c DEF Inserts, Same, Cr3Owned, Live
<1> QED  BY <1>1, <1>2, <1>3, <1>4, <1>5, <1>6, <1>7, <1>8 DEF AnyKind

\* The CPU never uses a page table that was freed, whatever processes are started,
\* killed, reaped and switched between (elfload::unload, switch_to, leave_scheduler).
THEOREM SchedCr3Owned == Spec => []Cr3Owned
<1>1. Init => Cr3Owned
  BY DEF Init, Cr3Owned
<1>2. CoreInv /\ CtlInv /\ Cr3Owned /\ [Next]_vars => Cr3Owned'
  BY StepKinds, Cr3Step
<1> QED  BY <1>1, <1>2, CtlHolds, PTL DEF Spec

-----------------------------------------------------------------------------
(* Continuations.                                                          *)

\* The continuation of a PCB is one its state can resume in.
ResumePcb(p) ==
    /\ p.state \in BlockedStates => p.kcont.op = LoopOf(p.state)
    /\ p.state \in {"Running", "None"} => p.kcont = NoCall

ResumeInv == \A s \in Slots : ResumePcb(procs[s])

\* A free slot has no continuation.
LEMMA NoPcbFacts ==
    /\ NoPcb.state = "None" /\ NoPcb.kcont = NoCall /\ NoPcb.fds = NoFds
    /\ NoPcb.pid = 0 /\ NoPcb.parent = 0
BY DEF NoPcb

\* Waking keeps the continuation.
LEMMA WokenResume ==
    ASSUME NEW p, NEW q, WokenPcb(p, q), ResumePcb(p)
    PROVE  ResumePcb(q)
BY DEF WokenPcb, Same, ResumePcb, BlockedStates

\* Whatever kind of step is taken, continuations and states match.
LEMMA ResumeStep ==
    ASSUME CoreInv, AnyKind, ResumeInv
    PROVE  ResumeInv'
<1> SUFFICES ASSUME NEW s \in Slots PROVE ResumePcb(procs'[s])
  BY DEF ResumeInv
<1>o. ResumePcb(procs[s])
  BY DEF ResumeInv
<1>1. CASE Quiet
  BY <1>1, <1>o, WokenResume DEF Quiet
<1>2. CASE Fails \/ Leaves
  BY <1>2, <1>o, NoPcbFacts DEF Fails, Leaves, ResumePcb, BlockedStates
<1>3. ASSUME NEW v \in Slots, Dies(v) PROVE ResumePcb(procs'[s])
  <2>1. CASE s = v
    BY <1>3, <2>1 DEF Dies, ResumePcb, BlockedStates
  <2> QED  BY <1>3, <1>o, <2>1, WokenResume DEF Dies
<1>4. ASSUME NEW v \in Slots, Resumes(v) PROVE ResumePcb(procs'[s])
  <2>1. CASE s = v
    BY <1>4, <2>1 DEF Resumes, ResumePcb, BlockedStates
  <2>2. CASE s # v
    <3>1. Parked(s, procs[s], procs'[s])
      BY <1>4, <2>2 DEF Resumes
    <3> QED  BY <1>o, <3>1 DEF Parked, ResumePcb, BlockedStates
  <2> QED  BY <2>1, <2>2
<1>5. ASSUME NEW v \in Slots, Starts(v) PROVE ResumePcb(procs'[s])
  BY <1>5, <1>o DEF Starts, ResumePcb, BlockedStates
<1>6. ASSUME NEW st \in BlockedStates, Blocks(st) PROVE ResumePcb(procs'[s])
  <2>1. CASE s = current
    BY <1>6, <2>1 DEF Blocks, ResumePcb, BlockedStates
  <2> QED  BY <1>6, <1>o, <2>1, WokenResume DEF Blocks
<1>7. ASSUME NEW S \in SUBSET Slots, Reaps(S) PROVE ResumePcb(procs'[s])
  BY <1>7, <1>o, NoPcbFacts DEF Reaps, ResumePcb, BlockedStates
<1>8. ASSUME NEW slot \in Slots, NEW parent \in Pids, Inserts(slot, parent) PROVE ResumePcb(procs'[s])
  BY <1>8, <1>o DEF Inserts, Same, ResumePcb, BlockedStates
<1> QED  BY <1>1, <1>2, <1>3, <1>4, <1>5, <1>6, <1>7, <1>8 DEF AnyKind

\* ResumeInv holds in every state.
LEMMA ResumeHolds == Spec => []ResumeInv
<1>1. Init => ResumeInv
  BY NoPcbFacts DEF Init, ResumeInv, ResumePcb, BlockedStates
<1>2. CoreInv /\ CtlInv /\ ResumeInv /\ [Next]_vars => ResumeInv'
  BY StepKinds, ResumeStep
<1> QED  BY <1>1, <1>2, CtlHolds, PTL DEF Spec

\* A blocked process resumes in the loop it blocked in, however it is woken and
\* whoever runs in between (yield_block, KCONTS, switch_to).
THEOREM SchedResumePoint == Spec => []ResumePoint
<1>1. ResumeInv => ResumePoint
  BY DEF ResumeInv, ResumePcb, ResumePoint, BlockedStates, LoopOf
<1> QED  BY <1>1, ResumeHolds, PTL

-----------------------------------------------------------------------------
(* Pids, and the wakeups of parents.                                       *)

\* No process started by the launcher survives into a session in which kmain runs a
\* program alone: then no pid is handed out twice.
Tidy == ~exclusive \/ "launch" \notin PollEvents

LivePids ==
    /\ \A s \in Slots : Live(s) => /\ 1 <= procs[s].pid /\ procs[s].pid < next_pid
                                   /\ procs[s].parent < procs[s].pid
    /\ \A s, t \in Slots : Live(s) /\ Live(t) /\ procs[s].pid = procs[t].pid => s = t

\* kmain finds the table empty, except for what the launcher started.
KmainOK ==
    /\ mode = "host" => ~exclusive
    /\ mode = "host" \/ ("launch" \notin PollEvents /\ AtKmain) => \A s \in Slots : ~Live(s)

\* The process the CPU works for is not blocked.
NotBlocked == InProcess => procs[current].state \notin BlockedStates

PidInv == (Tidy => LivePids) /\ KmainOK /\ NotBlocked

\* A process that is woken is still the same one.
LEMMA WokenLive ==
    ASSUME NEW p, NEW q, WokenPcb(p, q)
    PROVE  /\ q.pid = p.pid /\ q.parent = p.parent
           /\ q.state = "None" <=> p.state = "None"
           /\ q.state = "Zombie" <=> p.state = "Zombie"
           /\ q.state \in BlockedStates => q.state = p.state
BY DEF WokenPcb, Same, BlockedStates

\* If processes only change state, or leave, pids stay apart.
LEMMA PidsKept ==
    ASSUME UNCHANGED <<next_pid, exclusive>>,
           \A s \in Slots : Live(s)' => /\ Live(s) /\ procs'[s].pid = procs[s].pid
                                        /\ procs'[s].parent = procs[s].parent,
           mode' = "host" => mode = "host", AtKmain' => AtKmain,
           Tidy => LivePids, KmainOK
    PROVE  (Tidy' => LivePids') /\ KmainOK'
<1>1. Tidy' => LivePids'
  <2> SUFFICES ASSUME Tidy' PROVE LivePids'
    OBVIOUS
  <2>1. LivePids
    BY DEF Tidy
  <2> QED  BY <2>1 DEF LivePids
<1>2. KmainOK'
  BY DEF KmainOK
<1> QED  BY <1>1, <1>2

\* Whatever kind of step is taken, pids stay apart and kmain's table empty.
LEMMA PidStep ==
    ASSUME CoreInv, AnyKind, PidInv
    PROVE  PidInv'
<1>c. /\ procs \in [Slots -> Pcb] /\ current \in Slots \cup {None} /\ None \notin Slots
      /\ next_pid \in Nat \ {0} /\ exclusive \in BOOLEAN
      /\ InProcess => current \in Slots
      /\ \A s \in Slots : ~Live(s) => procs[s].pid = 0
  BY SlotsNat, SchedAssumption DEF CoreInv, TableOK, RestOK, ControlOK, Live
<1>t. \A s \in Slots : procs[s].pid \in Nat /\ procs[s].parent \in Nat
  BY <1>c, SchedAssumption DEF Pcb, Pids
<1>o. (Tidy => LivePids) /\ KmainOK /\ NotBlocked
  BY DEF PidInv
<1>1. CASE Quiet
  <2>1. \A s \in Slots : /\ procs'[s].pid = procs[s].pid /\ procs'[s].parent = procs[s].parent
                         /\ procs'[s].state = "None" <=> procs[s].state = "None"
                         /\ procs'[s].state \in BlockedStates => procs'[s].state = procs[s].state
    BY <1>1, WokenLive DEF Quiet
  <2>2. \A s \in Slots : Live(s)' => /\ Live(s) /\ procs'[s].pid = procs[s].pid
                                     /\ procs'[s].parent = procs[s].parent
    BY <2>1 DEF Live
  <2>3. (Tidy' => LivePids') /\ KmainOK'
    BY <1>1, <1>o, <2>2, PidsKept DEF Quiet, Steady, NoEntry
  <2>4. NotBlocked'
    BY <1>1, <1>c, <1>o, <2>1 DEF Quiet, Steady, NoEntry, NotBlocked
  <2> QED  BY <2>3, <2>4 DEF PidInv
<1>2. ASSUME NEW v \in Slots, Dies(v) PROVE PidInv'
  <2>1. \A s \in Slots \ {v} : /\ procs'[s].pid = procs[s].pid /\ procs'[s].parent = procs[s].parent
                               /\ procs'[s].state = "None" <=> procs[s].state = "None"
                               /\ procs'[s].state \in BlockedStates => procs'[s].state = procs[s].state
    BY <1>2, WokenLive DEF Dies
  <2>2. \A s \in Slots : Live(s)' => /\ Live(s) /\ procs'[s].pid = procs[s].pid
                                     /\ procs'[s].parent = procs[s].parent
    BY <1>2, <2>1 DEF Live, Dies
  <2>3. (Tidy' => LivePids') /\ KmainOK'
    BY <1>2, <1>o, <2>2, PidsKept DEF Dies, Steady, NoEntry
  <2>4. NotBlocked'
    BY <1>2, <1>c, <1>o, <2>1 DEF Dies, Steady, NoEntry, NotBlocked, BlockedStates
  <2> QED  BY <2>3, <2>4 DEF PidInv
<1>3. ASSUME NEW v \in Slots, Resumes(v) PROVE PidInv'
  <2>1. \A s \in Slots : /\ procs'[s].pid = procs[s].pid /\ procs'[s].parent = procs[s].parent
                         /\ procs'[s].state = "None" => procs[s].state = "None"
                         /\ procs[s].state = "None" => procs'[s].state = "None"
    BY <1>3 DEF Resumes, Parked
  <2>2. \A s \in Slots : Live(s)' => /\ Live(s) /\ procs'[s].pid = procs[s].pid
                                     /\ procs'[s].parent = procs[s].parent
    BY <2>1 DEF Live
  <2>3. mode' # "host" /\ ~AtKmain' /\ UNCHANGED <<next_pid, exclusive>>
    BY <1>3 DEF Resumes, AtKmain
  <2>4. (Tidy' => LivePids') /\ KmainOK'
    BY <1>o, <2>2, <2>3, PidsKept
  <2>5. NotBlocked'
    BY <1>3 DEF Resumes, NotBlocked, BlockedStates
  <2> QED  BY <2>4, <2>5 DEF PidInv
<1>4. ASSUME NEW st \in BlockedStates, Blocks(st) PROVE PidInv'
  <2>1. \A s \in Slots \ {current} : /\ procs'[s].pid = procs[s].pid /\ procs'[s].parent = procs[s].parent
                                     /\ procs'[s].state = "None" <=> procs[s].state = "None"
    BY <1>4, WokenLive DEF Blocks
  <2>2. \A s \in Slots : Live(s)' => /\ Live(s) /\ procs'[s].pid = procs[s].pid
                                     /\ procs'[s].parent = procs[s].parent
    BY <1>4, <2>1 DEF Live, Blocks
  <2>3. mode' = "sched" /\ ~AtKmain' /\ UNCHANGED <<next_pid, exclusive>>
    BY <1>4 DEF Blocks, Steady
  <2>4. (Tidy' => LivePids') /\ KmainOK'
    BY <1>o, <2>2, <2>3, PidsKept
  <2>5. NotBlocked'
    BY <2>3 DEF NotBlocked, InProcess, ProcModes
  <2> QED  BY <2>4, <2>5 DEF PidInv
<1>5. ASSUME NEW S \in SUBSET Slots, Reaps(S) PROVE PidInv'
  <2>1. \A s \in Slots : procs'[s] = IF s \in S THEN NoPcb ELSE procs[s]
    BY <1>5 DEF Reaps
  <2>2. \A s \in Slots : Live(s)' => /\ Live(s) /\ procs'[s].pid = procs[s].pid
                                     /\ procs'[s].parent = procs[s].parent
    BY <2>1, NoPcbFacts DEF Live
  <2>3. (Tidy' => LivePids') /\ KmainOK'
    BY <1>5, <1>o, <2>2, PidsKept DEF Reaps, NoEntry
  <2>4. NotBlocked'
    BY <1>5, <1>c, <1>o, <2>1, NoPcbFacts DEF Reaps, NoEntry, NotBlocked, BlockedStates
  <2> QED  BY <2>3, <2>4 DEF PidInv
<1>6. ASSUME NEW slot \in Slots, NEW parent \in Pids, Inserts(slot, parent) PROVE PidInv'
  <2>1. /\ procs'[slot].state = "Runnable" /\ procs'[slot].pid = next_pid /\ procs'[slot].parent = parent
        /\ next_pid' = next_pid + 1 /\ exclusive' = exclusive /\ current' = current /\ NoEntry
        /\ AtKmain' => "launch" \in PollEvents /\ mode' # "host"
        /\ mode' # "host" /\ procs[slot].state = "None"
    BY <1>6 DEF Inserts
  <2>2. \A s \in Slots \ {slot} : /\ procs'[s].pid = procs[s].pid /\ procs'[s].parent = procs[s].parent
                                  /\ procs'[s].state = procs[s].state
    BY <1>6 DEF Inserts, Same
  <2>3. parent \in Nat /\ (Tidy => parent < next_pid)
    <3>1. parent \in Nat
      BY SchedAssumption DEF Pids
    <3>2. CASE parent = 0
      BY <1>c, <3>2
    <3>3. CASE InProcess /\ parent = procs[current].pid
      <4>1. current \in Slots
        BY <1>c, <3>3
      <4>2. CASE Live(current)
        BY <1>o, <3>1, <3>3, <4>1, <4>2 DEF LivePids
      <4>3. CASE ~Live(current)
        BY <1>c, <3>3, <4>1, <4>3
      <4> QED  BY <4>2, <4>3, <3>1
    <3> QED  BY <1>6, <3>1, <3>2, <3>3 DEF Inserts
  <2>4. Tidy' => LivePids'
    <3> SUFFICES ASSUME Tidy PROVE LivePids'
      BY <2>1 DEF Tidy
    <3>1. LivePids
      BY <1>o
    <3>2. \A s \in Slots : Live(s)' => 1 <= procs'[s].pid /\ procs'[s].pid < next_pid' /\ procs'[s].parent < procs'[s].pid
      <4> TAKE s \in Slots
      <4>1. CASE s = slot
        BY <1>c, <2>1, <2>3, <4>1
      <4>2. CASE s # slot
        BY <1>c, <1>t, <2>1, <2>2, <3>1, <4>2 DEF Live, LivePids
      <4> QED  BY <4>1, <4>2
    <3>3. \A s, t \in Slots : Live(s)' /\ Live(t)' /\ procs'[s].pid = procs'[t].pid => s = t
      <4>1. \A s \in Slots \ {slot} : Live(s)' => Live(s) /\ procs'[s].pid # next_pid
        BY <1>c, <1>t, <2>2, <3>1 DEF Live, LivePids
      <4> QED  BY <2>1, <2>2, <3>1, <4>1 DEF LivePids
    <3> QED  BY <3>2, <3>3 DEF LivePids
  <2>5. KmainOK'
    BY <2>1 DEF KmainOK
  <2>6. NotBlocked'
    BY <1>c, <1>o, <2>1, <2>2 DEF NoEntry, NotBlocked, BlockedStates
  <2> QED  BY <2>4, <2>5, <2>6 DEF PidInv
<1>7. ASSUME NEW v \in Slots, Starts(v) PROVE PidInv'
  <2>1. /\ procs'[v].state = "Running" /\ procs'[v].pid = 1 /\ procs'[v].parent = 0
        /\ \A s \in Slots \ {v} : procs'[s] = procs[s]
        /\ next_pid' = 2 /\ current' = v /\ (exclusive' \/ mode = "host") /\ ~AtKmain'
        /\ mode \in {"host", "kshell"}
    BY <1>7 DEF Starts
  <2>2. Tidy' => \A s \in Slots : ~Live(s)
    BY <1>o, <2>1 DEF Tidy, KmainOK, AtKmain
  <2>3. Tidy' => \A s \in Slots : Live(s)' => s = v
    BY <2>1, <2>2 DEF Live
  <2>4. Tidy' => LivePids'
    BY <2>1, <2>3 DEF LivePids
  <2>5. KmainOK'
    BY <2>1 DEF KmainOK, AtKmain
  <2>6. NotBlocked'
    BY <2>1 DEF NotBlocked, BlockedStates
  <2> QED  BY <2>4, <2>5, <2>6 DEF PidInv
<1>8. CASE Fails
  <2>1. /\ procs' = procs /\ mode' = "kshell" /\ after' = after /\ mode \in {"host", "kshell"}
        /\ exclusive' \/ mode = "host"
    BY <1>8 DEF Fails
  <2>2. Tidy' => \A s \in Slots : ~Live(s)
    BY <1>o, <2>1 DEF Tidy, KmainOK, AtKmain
  <2>3. Tidy' => LivePids'
    BY <2>1, <2>2 DEF LivePids, Live
  <2>4. KmainOK'
    BY <1>o, <2>1 DEF KmainOK, AtKmain, Live
  <2>5. NotBlocked'
    BY <2>1 DEF NotBlocked, InProcess, ProcModes
  <2> QED  BY <2>3, <2>4, <2>5 DEF PidInv
<1>9. CASE Leaves
  <2>1. /\ \A s \in Slots : ~Live(s)'
        /\ exclusive' = FALSE /\ mode' \in {"host", "kshell"}
    BY <1>9, NoPcbFacts DEF Leaves, Live
  <2>2. LivePids' /\ KmainOK'
    BY <2>1 DEF LivePids, KmainOK
  <2>3. NotBlocked'
    BY <2>1 DEF NotBlocked, InProcess, ProcModes
  <2> QED  BY <2>2, <2>3 DEF PidInv
<1> QED  BY <1>1, <1>2, <1>3, <1>4, <1>5, <1>6, <1>7, <1>8, <1>9 DEF AnyKind

\* PidInv holds in every state.
LEMMA PidHolds == Spec => []PidInv
<1>1. Init => PidInv
  <2> SUFFICES ASSUME Init PROVE PidInv
    OBVIOUS
  <2>1. \A s \in Slots : ~Live(s)
    BY NoPcbFacts DEF Init, Live
  <2> QED  BY <2>1 DEF Init, PidInv, LivePids, KmainOK, NotBlocked, InProcess, ProcModes
<1>2. CoreInv /\ CtlInv /\ PidInv /\ [Next]_vars => PidInv'
  BY StepKinds, PidStep
<1> QED  BY <1>1, <1>2, CtlHolds, PTL DEF Spec

\* Whatever kind of step is taken, nobody waits who has a dead child.
LEMMA MissedStep ==
    ASSUME CoreInv, AnyKind, PidInv, NoMissedChild
    PROVE  NoMissedChild'
<1> SUFFICES ASSUME ~exclusive', NEW s \in Slots, NEW t \in Slots,
                    procs'[s].state = "BlockedWait", procs'[t].state = "Zombie",
                    procs'[t].parent = procs'[s].pid
             PROVE  FALSE
  BY DEF NoMissedChild
<1>b. "BlockedWait" \in BlockedStates /\ "Zombie" \notin BlockedStates
  BY DEF BlockedStates
<1>o. /\ ~exclusive => LivePids
      /\ ~exclusive => ~(procs[s].state = "BlockedWait" /\ procs[t].state = "Zombie"
                           /\ procs[t].parent = procs[s].pid)
      /\ InProcess => procs[current].state # "BlockedWait"
  BY <1>b DEF PidInv, Tidy, NotBlocked, NoMissedChild
<1>1. CASE Quiet
  <2>1. /\ WokenPcb(procs[s], procs'[s]) /\ WokenPcb(procs[t], procs'[t]) /\ exclusive' = exclusive
    BY <1>1 DEF Quiet, Steady
  <2> QED  BY <1>o, <1>b, <2>1, WokenLive
<1>2. ASSUME NEW v \in Slots, Dies(v) PROVE FALSE
  <2>1. exclusive' = exclusive /\ s # v /\ WokenPcb(procs[s], procs'[s]) /\ Live(v)
    BY <1>2 DEF Dies, Steady
  <2>2. procs[s].state = "BlockedWait" /\ procs[s].pid = procs'[s].pid
    BY <1>b, <2>1, WokenLive
  <2>3. CASE t = v
    <3>1. procs[v].parent = procs[s].pid
      BY <1>2, <2>2, <2>3 DEF Dies
    <3>2. LivePids /\ Live(s)
      BY <1>o, <2>1, <2>2 DEF Live
    <3>3. procs[v].parent # 0
      BY <3>1, <3>2 DEF LivePids
    <3>4. InProcess /\ Live(current) /\ procs[v].parent = procs[current].pid
      BY <1>2, <2>2, <3>1, <3>3 DEF Dies
    <3>5. current \in Slots
      BY <3>4 DEF CoreInv, RestOK, ControlOK
    <3>6. current = s
      BY <3>1, <3>2, <3>4, <3>5 DEF LivePids
    <3> QED  BY <1>o, <2>2, <3>4, <3>6
  <2>4. CASE t # v
    <3>1. WokenPcb(procs[t], procs'[t])
      BY <1>2, <2>4 DEF Dies
    <3> QED  BY <1>o, <2>1, <2>2, <3>1, WokenLive
  <2> QED  BY <2>3, <2>4
<1>3. ASSUME NEW v \in Slots, Resumes(v) PROVE FALSE
  <2>1. exclusive' = exclusive /\ s # v /\ t # v
    BY <1>3 DEF Resumes
  <2>2. Parked(s, procs[s], procs'[s]) /\ Parked(t, procs[t], procs'[t])
    BY <1>3, <2>1 DEF Resumes
  <2> QED  BY <1>o, <2>1, <2>2 DEF Parked
<1>4. ASSUME NEW st \in BlockedStates, Blocks(st) PROVE FALSE
  <2>1. exclusive' = exclusive /\ t # current /\ WokenPcb(procs[t], procs'[t])
    BY <1>4, <1>b DEF Blocks, Steady
  <2>2. procs[t].state = "Zombie" /\ procs[t].parent = procs'[t].parent
    BY <2>1, WokenLive
  <2>3. CASE s = current
    BY <1>4, <2>2, <2>3 DEF Blocks, dead_children
  <2>4. CASE s # current
    <3>1. WokenPcb(procs[s], procs'[s])
      BY <1>4, <2>4 DEF Blocks
    <3> QED  BY <1>o, <1>b, <2>1, <2>2, <3>1, WokenLive
  <2> QED  BY <2>3, <2>4
<1>5. ASSUME NEW S \in SUBSET Slots, Reaps(S) PROVE FALSE
  BY <1>5, <1>o, NoPcbFacts DEF Reaps
<1>6. ASSUME NEW slot \in Slots, NEW parent \in Pids, Inserts(slot, parent) PROVE FALSE
  BY <1>6, <1>o DEF Inserts, Same
<1>7. ASSUME NEW v \in Slots, Starts(v) PROVE FALSE
  <2>1. mode = "host" /\ s # v /\ procs'[s] = procs[s]
    BY <1>7 DEF Starts
  <2> QED  BY <2>1 DEF PidInv, KmainOK, Live
<1>8. CASE Fails
  <2>1. mode = "host" /\ procs' = procs
    BY <1>8 DEF Fails
  <2> QED  BY <2>1 DEF PidInv, KmainOK, Live
<1>9. CASE Leaves
  BY <1>9, NoPcbFacts DEF Leaves
<1> QED  BY <1>1, <1>2, <1>3, <1>4, <1>5, <1>6, <1>7, <1>8, <1>9 DEF AnyKind

\* While init's session runs, a process blocked in wait has no dead child: exit and
\* Ctrl+C wake the parent, and a process that kills its child is not blocked.
THEOREM SchedNoMissedChild == Spec => []NoMissedChild
<1>1. Init => NoMissedChild
  BY NoPcbFacts DEF Init, NoMissedChild
<1>2. CoreInv /\ CtlInv /\ PidInv /\ NoMissedChild /\ [Next]_vars => NoMissedChild'
  BY StepKinds, MissedStep
<1> QED  BY <1>1, <1>2, CtlHolds, PidHolds, PTL DEF Spec

-----------------------------------------------------------------------------
(* The dead, and the wakeups of pipes.                                     *)

\* No process kills itself: a program that kmain runs alone has pid 1, like a process
\* that the launcher may have left.
Orderly == exclusive => "kill" \notin Calls \/ "launch" \notin PollEvents

\* The process the CPU works for is the running one, and the dead hold no descriptors.
Runs == InProcess => procs[current].state = "Running"
DeadHold == \A s \in Slots : procs[s].state = "Zombie" => procs[s].fds = NoFds

OrderInv == Orderly => Runs /\ DeadHold

\* kmain changes who runs alone only where there is nobody.
LEMMA OrderBack ==
    ASSUME AnyKind, PidInv, Orderly'
    PROVE  \/ Orderly
           \/ Leaves
<1>1. CASE Quiet \/ \E v \in Slots : Dies(v) \/ Resumes(v)
  BY <1>1 DEF Quiet, Dies, Resumes, Steady, Orderly
<1>2. CASE \E v \in Slots : Starts(v)
  BY <1>2 DEF Starts, Orderly, PidInv, KmainOK
<1>3. CASE Fails
  BY <1>3 DEF Fails, Orderly, PidInv, KmainOK
<1>4. CASE \/ \E st \in BlockedStates : Blocks(st)
           \/ \E S \in SUBSET Slots : Reaps(S)
           \/ \E slot \in Slots, parent \in Pids : Inserts(slot, parent)
  BY <1>4 DEF Blocks, Reaps, Inserts, Steady, Orderly
<1> QED  BY <1>1, <1>2, <1>3, <1>4 DEF AnyKind

\* Whatever kind of step is taken, the CPU works for a process that runs: without
\* Ctrl+C on a polled keyboard nobody else ends the one that is current.
LEMMA OrderStep ==
    ASSUME CoreInv, AnyKind, PidInv, OrderInv, "ctrlc" \notin PollEvents
    PROVE  OrderInv'
<1> SUFFICES ASSUME Orderly' PROVE Runs' /\ DeadHold'
  BY DEF OrderInv
<1>c. /\ InProcess => current \in Slots
      /\ \A s \in Slots : procs[s].pid \in Nat /\ procs[s].parent \in Nat
  BY SchedAssumption DEF CoreInv, TableOK, RestOK, ControlOK, Pcb, Pids
<1>9. CASE Leaves
  BY <1>9, NoPcbFacts DEF Leaves, Runs, DeadHold, InProcess, ProcModes
<1>o. CASE Orderly
  <2>o. Runs /\ DeadHold
    BY <1>o DEF OrderInv
  <2>1. CASE Quiet
    <3>1. Runs'
      BY <2>1, <2>o, <1>c DEF Quiet, Steady, NoEntry, Runs, WokenPcb, BlockedStates
    <3>2. DeadHold'
      BY <2>1, <2>o, <1>c DEF Quiet, Steady, Runs, DeadHold, WokenPcb, BlockedStates
    <3> QED  BY <3>1, <3>2
  <2>2. ASSUME NEW v \in Slots, Dies(v) PROVE Runs' /\ DeadHold'
    <3>1. InProcess' => v # current
      <4>1. Tidy \/ "kill" \notin Calls
        BY <1>o DEF Orderly, Tidy
      <4>2. Tidy => procs[v].parent # procs[v].pid
        BY <2>2, <1>c DEF PidInv, LivePids, Dies
      <4> QED  BY <2>2, <4>1, <4>2 DEF Dies
    <3>2. Runs'
      BY <2>2, <2>o, <1>c, <3>1 DEF Dies, Steady, NoEntry, Runs, WokenPcb, BlockedStates
    <3>3. DeadHold'
      BY <2>2, <2>o DEF Dies, DeadHold, WokenPcb, BlockedStates
    <3> QED  BY <3>2, <3>3
  <2>3. ASSUME NEW v \in Slots, Resumes(v) PROVE Runs' /\ DeadHold'
    BY <2>3, <2>o DEF Resumes, Parked, Runs, DeadHold
  <2>4. ASSUME NEW st \in BlockedStates, Blocks(st) PROVE Runs' /\ DeadHold'
    <3>1. ~InProcess'
      BY <2>4 DEF Blocks, InProcess, ProcModes
    <3>2. DeadHold'
      BY <2>4, <2>o DEF Blocks, DeadHold, WokenPcb, BlockedStates
    <3> QED  BY <3>1, <3>2 DEF Runs
  <2>5. ASSUME NEW S \in SUBSET Slots, Reaps(S) PROVE Runs' /\ DeadHold'
    BY <2>5, <2>o, <1>c, NoPcbFacts DEF Reaps, NoEntry, Runs, DeadHold
  <2>6. ASSUME NEW slot \in Slots, NEW parent \in Pids, Inserts(slot, parent) PROVE Runs' /\ DeadHold'
    BY <2>6, <2>o, <1>c DEF Inserts, NoEntry, Runs, DeadHold
  <2>7. ASSUME NEW v \in Slots, Starts(v) PROVE Runs' /\ DeadHold'
    BY <2>7, <2>o DEF Starts, Runs, DeadHold
  <2>8. CASE Fails
    BY <2>8, <2>o DEF Fails, Runs, DeadHold, InProcess, ProcModes
  <2> QED  BY <1>9, <2>1, <2>2, <2>3, <2>4, <2>5, <2>6, <2>7, <2>8 DEF AnyKind
<1> QED  BY <1>9, <1>o, OrderBack

\* OrderInv holds in every state, if Ctrl+C is not read by comp::poll.
LEMMA OrderHolds ==
    ASSUME "ctrlc" \notin PollEvents
    PROVE  Spec => []OrderInv
<1>1. Init => OrderInv
  BY NoPcbFacts DEF Init, OrderInv, Runs, DeadHold, InProcess, ProcModes
<1>2. CoreInv /\ CtlInv /\ PidInv /\ OrderInv /\ [Next]_vars => OrderInv'
  BY StepKinds, OrderStep
<1> QED  BY <1>1, <1>2, CtlHolds, PidHolds, PTL DEF Spec

\* Reaping the dead, who hold nothing, changes no pipe.
LEMMA ReapPipes ==
    ASSUME pipes \in PipeTables, NEW S, \A s \in S : s \in Slots /\ procs[s].fds = NoFds
    PROVE  \A id \in PipeIds : ClosedBy(S)[id] = pipes[id]
<1>1. \A id \in PipeIds, w \in BOOLEAN : EndsOf(procs, S, id, w) = {}
  <2> SUFFICES ASSUME NEW id \in PipeIds, NEW w \in BOOLEAN, NEW x \in S \X Fds
               PROVE  procs[x[1]].fds[x[2]] # PipeEnd(id, w)
    BY DEF EndsOf
  <2>1. x[1] \in S /\ x[2] \in Fds
    OBVIOUS
  <2> QED  BY <2>1, StdioNoEnds
<1>2. \A id \in PipeIds, w \in BOOLEAN : Cardinality(EndsOf(procs, S, id, w)) = 0
  BY <1>1, FS_EmptySet
<1> QED  BY <1>2 DEF ClosedBy, drop_ends

\* A process that is blocked on a pipe would block again.
StillBlocked(p, P) ==
    /\ p.state = "BlockedPipeRead" => read_result(P[p.kcont.id]) = "WouldBlock"
    /\ p.state = "BlockedPipeWrite" => write_result(P[p.kcont.id]) = "WouldBlock"

\* It still would if its pipe still blocks those it did.
LEMMA CalmBlocked ==
    ASSUME NEW p \in Pcb, NEW q, NEW P, NEW Q, StillBlocked(p, P), PipesCalm(P, Q),
           q.state \in PipeBlocked => q.state = p.state /\ q.kcont = p.kcont
    PROVE  StillBlocked(q, Q)
<1>1. p.kcont.id \in PipeIds
  BY DEF Pcb, Call
<1> QED  BY <1>1 DEF StillBlocked, PipesCalm, PipeCalm, PipeBlocked

\* Whatever kind of step is taken, no wakeup of a pipe is lost.
LEMMA LostStep ==
    ASSUME CoreInv, AnyKind, PidInv, OrderInv, Orderly => NoLostPipeWakeup, Orderly'
    PROVE  NoLostPipeWakeup'
<1> SUFFICES ASSUME NEW s \in Slots PROVE StillBlocked(procs'[s], pipes')
  BY DEF NoLostPipeWakeup, StillBlocked
<1>c. procs[s] \in Pcb /\ pipes \in PipeTables
  BY DEF CoreInv, TableOK, RestOK
<1>b. {"Runnable", "Running", "Zombie", "None"} \cap PipeBlocked = {} /\ PipeBlocked \subseteq BlockedStates
  BY DEF PipeBlocked, BlockedStates
<1>n. procs'[s].state \notin PipeBlocked => StillBlocked(procs'[s], pipes')
  BY DEF StillBlocked, PipeBlocked
<1>9. CASE Leaves
  BY <1>9, <1>n, <1>b, NoPcbFacts DEF Leaves
<1>o. CASE Orderly
  <2>o. StillBlocked(procs[s], pipes) /\ DeadHold
    BY <1>o DEF OrderInv, NoLostPipeWakeup, StillBlocked
  <2>r. PipesCalm(pipes, pipes)
    BY CalmRefl
  <2>1. CASE Quiet
    <3>1. WokenPcb(procs[s], procs'[s])
      BY <2>1 DEF Quiet
    <3>2. procs'[s].state \in PipeBlocked => procs'[s].state = procs[s].state /\ procs'[s].kcont = procs[s].kcont
      BY <3>1, <1>b DEF WokenPcb, Same
    <3> QED  BY <2>1, <1>c, <1>n, <2>o, <3>2, CalmBlocked DEF Quiet
  <2>2. ASSUME NEW v \in Slots, Dies(v) PROVE StillBlocked(procs'[s], pipes')
    BY <2>2, <1>n DEF Dies
  <2>3. ASSUME NEW v \in Slots, Resumes(v) PROVE StillBlocked(procs'[s], pipes')
    <3>1. procs'[s].state \in PipeBlocked => procs'[s].state = procs[s].state /\ procs'[s].kcont = procs[s].kcont
      BY <2>3, <1>b DEF Resumes, Parked
    <3>2. pipes' = pipes
      BY <2>3 DEF Resumes
    <3> QED  BY <1>c, <2>o, <2>r, <3>1, <3>2, CalmBlocked
  <2>4. ASSUME NEW st \in BlockedStates, Blocks(st) PROVE StillBlocked(procs'[s], pipes')
    <3>0. pipes' = pipes
      BY <2>4 DEF Blocks
    <3>1. CASE s = current
      BY <2>4, <3>0, <3>1 DEF Blocks, StillBlocked
    <3>2. CASE s # current
      <4>1. WokenPcb(procs[s], procs'[s])
        BY <2>4, <3>2 DEF Blocks
      <4>2. procs'[s].state \in PipeBlocked => procs'[s].state = procs[s].state /\ procs'[s].kcont = procs[s].kcont
        BY <4>1, <1>b DEF WokenPcb, Same
      <4> QED  BY <1>c, <2>o, <2>r, <3>0, <4>2, CalmBlocked
    <3> QED  BY <3>1, <3>2
  <2>5. ASSUME NEW S \in SUBSET Slots, Reaps(S) PROVE StillBlocked(procs'[s], pipes')
    <3>1. \A id \in PipeIds : ClosedBy(S)[id] = pipes[id]
      BY <2>5, <2>o, <1>c, ReapPipes DEF Reaps, DeadHold
    <3>2. PipesCalm(pipes, pipes')
      BY <2>5, <3>1 DEF Reaps, PipesCalm, PipeCalm
    <3>3. procs'[s].state \in PipeBlocked => procs'[s].state = procs[s].state /\ procs'[s].kcont = procs[s].kcont
      BY <2>5, <1>b, NoPcbFacts DEF Reaps
    <3> QED  BY <1>c, <2>o, <3>2, <3>3, CalmBlocked
  <2>6. ASSUME NEW slot \in Slots, NEW parent \in Pids, Inserts(slot, parent)
        PROVE  StillBlocked(procs'[s], pipes')
    <3>1. procs'[s].state \in PipeBlocked => procs'[s].state = procs[s].state /\ procs'[s].kcont = procs[s].kcont
      BY <2>6, <1>b DEF Inserts, Same
    <3> QED  BY <2>6, <1>c, <2>o, <3>1, CalmBlocked DEF Inserts
  <2>7. ASSUME NEW v \in Slots, Starts(v) PROVE StillBlocked(procs'[s], pipes')
    <3>1. procs'[s].state \in PipeBlocked => procs'[s].state = procs[s].state /\ procs'[s].kcont = procs[s].kcont
      BY <2>7, <1>b DEF Starts
    <3>2. pipes' = pipes
      BY <2>7 DEF Starts
    <3> QED  BY <1>c, <2>o, <2>r, <3>1, <3>2, CalmBlocked
  <2>8. CASE Fails
    BY <2>8, <2>o DEF Fails
  <2> QED  BY <1>9, <2>1, <2>2, <2>3, <2>4, <2>5, <2>6, <2>7, <2>8 DEF AnyKind
<1> QED  BY <1>9, <1>o, OrderBack

\* No wakeup of a pipe is lost: whoever is blocked on a pipe would block again if it
\* ran (enqueue_or_kill, wake_pipe, make_zombie, try_reap).  It is stated without a Ctrl+C
\* that comp::poll reads, which may kill the process that is making the call, and, while
\* kmain runs a program alone, without a kill of a process that the launcher left.
THEOREM SchedNoLostPipeWakeup ==
    ASSUME "ctrlc" \notin PollEvents
    PROVE  Spec => [](Orderly => NoLostPipeWakeup)
<1>1. Init => (Orderly => NoLostPipeWakeup)
  BY NoPcbFacts DEF Init, NoLostPipeWakeup
<1>2. CoreInv /\ CtlInv /\ PidInv /\ OrderInv /\ (Orderly => NoLostPipeWakeup) /\ [Next]_vars
        => (Orderly => NoLostPipeWakeup)'
  BY StepKinds, LostStep
<1> QED  BY <1>1, <1>2, CtlHolds, PidHolds, OrderHolds, PTL DEF Spec

\* Death is final: a process that exited or was killed never blocks, runs or is woken
\* again, if neither Ctrl+C is read by comp::poll nor a program run alone can kill itself.
THEOREM SchedZombieStays ==
    ASSUME "ctrlc" \notin PollEvents, "kill" \notin Calls \/ "launch" \notin PollEvents
    PROVE  Spec => ZombieStays
<1>1. ASSUME CoreInv, CtlInv, OrderInv, [Next]_vars, NEW s \in Slots, procs[s].state = "Zombie"
      PROVE  procs'[s].state \in {"Zombie", "None"}
  <2>1. Runs
    BY <1>1 DEF OrderInv, Orderly
  <2>2. AnyKind
    BY <1>1, StepKinds
  <2>3. CASE Quiet \/ Fails \/ Leaves
    BY <1>1, <2>3, WokenLive, NoPcbFacts DEF Quiet, Fails, Leaves
  <2>4. ASSUME NEW v \in Slots, Dies(v) \/ Resumes(v) \/ Starts(v) PROVE procs'[s].state \in {"Zombie", "None"}
    BY <1>1, <2>4, WokenLive DEF Dies, Resumes, Parked, Starts
  <2>5. ASSUME NEW st \in BlockedStates, Blocks(st) PROVE procs'[s].state \in {"Zombie", "None"}
    BY <1>1, <2>1, <2>5, WokenLive DEF Blocks, Runs
  <2>6. CASE \/ \E S \in SUBSET Slots : Reaps(S)
             \/ \E slot \in Slots, parent \in Pids : Inserts(slot, parent)
    BY <1>1, <2>6, NoPcbFacts DEF Reaps, Inserts
  <2> QED  BY <2>2, <2>3, <2>4, <2>5, <2>6 DEF AnyKind
<1>2. CoreInv /\ CtlInv /\ OrderInv /\ [Next]_vars =>
        [\A s \in Slots : procs[s].state = "Zombie"
            => procs'[s].state \in {"Zombie", "None"} \/ procs'[s].pid # procs[s].pid]_vars
  BY <1>1
<1> QED  BY <1>2, CtlHolds, OrderHolds, PTL DEF Spec, ZombieStays

-----------------------------------------------------------------------------
(* The stack pointer of a system call.                                     *)

\* The call the CPU executes was made with the stack pointer it will return on, and no
\* call is executed where none can be.
CallOK ==
    /\ SysretStack
    /\ mode \in {"user", "sched", "hlt", "host", "kshell"} \/ after \in {"hlt", "kshell"} => call = NoCall

\* The stack pointer of a call that is put off is in the PCB, or still in the CPU's
\* record if its process was the last to run.
KStack(s) ==
    procs[s].kcont # NoCall =>
        /\ s = current /\ Idle => cpu_rsp = procs[s].kcont.rsp
        /\ ~(s = current /\ Idle) => procs[s].user_rsp = procs[s].kcont.rsp

\* The last process to run is not woken before another one has run: it waits for a
\* process, or for a key when there is someone else to run.
Asleep ==
    Idle /\ current \in Slots /\ procs[current].kcont # NoCall =>
        \/ procs[current].state \in BlockedStates \ {"BlockedStdin"}
        \/ procs[current].state = "BlockedStdin" /\ mode = "sched" /\ runnable # {}

ContOK ==
    /\ \A s \in Slots : KStack(s)
    /\ Asleep
    /\ \A s \in Slots : procs[s].state \in {"Zombie", "None"} => procs[s].kcont = NoCall
    /\ InProcess => procs[current].kcont = NoCall

\* Those who can run still can.
LEMMA RunnableKept ==
    ASSUME runnable # {}, \A s \in Slots : procs[s].state \in {"Runnable", "Running"}
                                             => procs'[s].state \in {"Runnable", "Running"}
    PROVE  runnable' # {}
BY DEF runnable

\* A step that enters no process: what is put off stays so.
LEMMA ContKept ==
    ASSUME CoreInv, ContOK, ResumeInv', NoEntry, current' = current,
           \A s \in Slots : procs'[s].kcont # NoCall =>
               procs'[s].kcont = procs[s].kcont /\ procs'[s].user_rsp = procs[s].user_rsp,
           \A s \in Slots : procs'[s].state = "Zombie" => procs'[s].kcont = NoCall,
           \A s \in Slots : procs[s].state \in {"Runnable", "Running"} => procs'[s].state \in {"Runnable", "Running", "Zombie"},
           Idle => \A s \in Slots : procs'[s].kcont # NoCall =>
                        procs'[s].state = procs[s].state \/ (procs[s].state = "BlockedStdin" /\ mode # "sched"),
           Idle => \A s \in Slots : procs[s].state \in {"Runnable", "Running"} => procs'[s].state # "Zombie"
    PROVE  ContOK'
<1>1. \A s \in Slots : procs'[s].state \in {"Zombie", "None"} => procs'[s].kcont = NoCall
  BY DEF ResumeInv, ResumePcb
<1>2. Idle' /\ current \in Slots /\ procs'[current].kcont # NoCall => Idle /\ cpu_rsp' = cpu_rsp
  BY <1>1 DEF NoEntry
<1>3. ASSUME NEW s \in Slots PROVE KStack(s)'
  <2> SUFFICES ASSUME procs'[s].kcont # NoCall
               PROVE  /\ s = current /\ Idle' => cpu_rsp' = procs'[s].kcont.rsp
                      /\ ~(s = current /\ Idle') => procs'[s].user_rsp = procs'[s].kcont.rsp
    BY DEF KStack
  <2>1. /\ procs'[s].kcont = procs[s].kcont /\ procs'[s].user_rsp = procs[s].user_rsp
        /\ KStack(s)
    BY DEF ContOK
  <2>2. CASE s = current /\ Idle'
    BY <1>2, <2>1, <2>2 DEF KStack
  <2>3. CASE ~(s = current /\ Idle')
    BY <2>1, <2>3 DEF KStack, NoEntry
  <2> QED  BY <2>2, <2>3
<1>4. Asleep'
  <2> SUFFICES ASSUME Idle', current \in Slots, procs'[current].kcont # NoCall
               PROVE  \/ procs'[current].state \in BlockedStates \ {"BlockedStdin"}
                      \/ procs'[current].state = "BlockedStdin" /\ mode' = "sched" /\ runnable' # {}
    BY DEF Asleep
  <2>1. Idle /\ procs[current].kcont # NoCall
    BY <1>2
  <2>2. CASE procs[current].state \in BlockedStates \ {"BlockedStdin"}
    BY <2>1, <2>2
  <2>3. CASE procs[current].state = "BlockedStdin" /\ mode = "sched" /\ runnable # {}
    <3>1. procs'[current].state = procs[current].state /\ mode' = "sched"
      BY <2>1, <2>3 DEF NoEntry
    <3>2. \A s \in Slots : procs[s].state \in {"Runnable", "Running"} => procs'[s].state \in {"Runnable", "Running"}
      BY <2>1
    <3>3. runnable' # {}
      BY <2>3, <3>2, RunnableKept
    <3> QED  BY <2>3, <3>1, <3>3
  <2> QED  BY <2>1, <2>2, <2>3 DEF ContOK, Asleep
<1>5. InProcess' => procs'[current].kcont = NoCall
  <2>1. InProcess' => current \in Slots /\ procs[current].kcont = NoCall
    BY DEF NoEntry, ContOK, CoreInv, RestOK, ControlOK
  <2> QED  BY <2>1
<1> QED  BY <1>1, <1>3, <1>4, <1>5 DEF ContOK

\* Whatever kind of step is taken, the stack pointers of calls that are put off are kept:
\* without Ctrl+C nobody wakes the last process to run while there is no other to run.
LEMMA ContStep ==
    ASSUME CoreInv, AnyKind, ResumeInv, ContOK, CallOK, "ctrlc" \notin IrqKeys \cup PollEvents
    PROVE  ContOK'
<1>r. ResumeInv'
  BY ResumeStep
<1>c. /\ current \in Slots \cup {None} /\ None \notin Slots /\ (InProcess => current \in Slots)
      /\ mode \in {"host", "kshell"} => current = None
  BY SlotsNat DEF CoreInv, RestOK, ControlOK
<1>d. \A s \in Slots : procs[s].state \in {"Zombie", "None"} => procs[s].kcont = NoCall
  BY DEF ContOK
<1>k. \A s \in Slots : KStack(s)
  BY DEF ContOK
<1>1. CASE Quiet
  <2>1. \A s \in Slots : /\ procs'[s].kcont = procs[s].kcont /\ procs'[s].user_rsp = procs[s].user_rsp
                         /\ procs'[s].state = "Zombie" => procs[s].state = "Zombie"
                         /\ procs[s].state \in {"Runnable", "Running"} => procs'[s].state = procs[s].state
    BY <1>1 DEF Quiet, WokenPcb, Same, BlockedStates
  <2>2. NoEntry /\ OnlyStdin /\ current' = current
    BY <1>1 DEF Quiet, Steady
  <2> QED  BY <1>r, <1>d, <2>1, <2>2, ContKept DEF OnlyStdin
<1>2. ASSUME NEW v \in Slots, Dies(v) PROVE ContOK'
  <2>1. \A s \in Slots \ {v} : /\ procs'[s].kcont = procs[s].kcont /\ procs'[s].user_rsp = procs[s].user_rsp
                               /\ procs'[s].state = "Zombie" => procs[s].state = "Zombie"
                               /\ procs[s].state \in {"Runnable", "Running"} => procs'[s].state = procs[s].state
    BY <1>2 DEF Dies, WokenPcb, Same, BlockedStates
  <2>2. procs'[v].kcont = NoCall /\ procs'[v].state = "Zombie" /\ NoEntry /\ current' = current /\ ~Idle
    BY <1>2 DEF Dies, Steady
  <2> QED  BY <1>r, <1>d, <2>1, <2>2, ContKept
<1>3. ASSUME NEW v \in Slots, Resumes(v) PROVE ContOK'
  <2>1. ~Idle' /\ current' = v /\ procs'[v].kcont = NoCall /\ procs'[v].state = "Running"
    BY <1>3 DEF Resumes, Idle
  <2>2. ASSUME NEW s \in Slots \ {v} PROVE KStack(s)' /\ (procs'[s].state \in {"Zombie", "None"} => procs'[s].kcont = NoCall)
    <3>1. Parked(s, procs[s], procs'[s])
      BY <1>3 DEF Resumes
    <3>2. procs'[s].state \in {"Zombie", "None"} => procs'[s].kcont = NoCall
      BY <1>d, <3>1 DEF Parked
    <3>3. ASSUME procs'[s].kcont # NoCall PROVE procs'[s].user_rsp = procs'[s].kcont.rsp
      <4>1. procs'[s].kcont = procs[s].kcont /\ procs[s].state # "None"
        BY <1>d, <3>1, <3>3 DEF Parked
      <4>2. s = current => Idle
        BY <1>3, <3>3, <4>1 DEF Resumes, ContOK, InProcess, ProcModes, Idle
      <4> QED  BY <1>k, <3>1, <3>3, <4>1, <4>2 DEF Parked, KStack
    <3> QED  BY <2>1, <3>2, <3>3 DEF KStack
  <2>3. KStack(v)'
    BY <2>1 DEF KStack
  <2> QED  BY <2>1, <2>2, <2>3 DEF ContOK, Asleep
<1>4. ASSUME NEW st \in BlockedStates, Blocks(st) PROVE ContOK'
  <2>1. /\ current \in Slots /\ current' = current /\ procs'[current].state = st /\ procs'[current].kcont = call
        /\ mode' = "sched" /\ cpu_rsp' = cpu_rsp /\ InProcess /\ call.op = LoopOf(st)
    BY <1>4 DEF Blocks, Steady
  <2>2. Idle' /\ ~InProcess' /\ ~Idle
    BY <2>1, BusyNotIdle DEF Idle, InProcess, ProcModes
  <2>3. call # NoCall
    BY <2>1 DEF NoCall, LoopOf, BlockedStates
  <2>4. cpu_rsp = call.rsp
    BY <2>3 DEF CallOK, SysretStack
  <2>5. ASSUME NEW s \in Slots, s = current PROVE KStack(s)'
    BY <2>1, <2>2, <2>4, <2>5 DEF KStack
  <2>6. ASSUME NEW s \in Slots, s # current
        PROVE KStack(s)' /\ (procs'[s].state \in {"Zombie", "None"} => procs'[s].kcont = NoCall)
    <3>1. WokenPcb(procs[s], procs'[s])
      BY <1>4, <2>6 DEF Blocks
    <3>2. procs'[s].kcont = procs[s].kcont /\ procs'[s].user_rsp = procs[s].user_rsp
      BY <3>1 DEF WokenPcb, Same
    <3>3. KStack(s)'
      BY <1>k, <2>1, <2>6, <3>2 DEF KStack
    <3>4. procs'[s].state \in {"Zombie", "None"} => procs[s].state \in {"Zombie", "None"}
      BY <3>1, WokenLive
    <3> QED  BY <1>d, <3>2, <3>3, <3>4
  <2>7. Asleep'
    <3>1. st = "BlockedStdin" => runnable' # {}
      BY <1>4 DEF Blocks, runnable
    <3> QED  BY <2>1, <3>1 DEF Asleep
  <2>8. procs'[current].state \notin {"Zombie", "None"}
    BY <2>1 DEF BlockedStates
  <2>9. \A s \in Slots : KStack(s)'
    BY <2>5, <2>6
  <2>10. \A s \in Slots : procs'[s].state \in {"Zombie", "None"} => procs'[s].kcont = NoCall
    BY <2>6, <2>8
  <2> QED  BY <2>2, <2>7, <2>9, <2>10 DEF ContOK
<1>5. ASSUME NEW S \in SUBSET Slots, Reaps(S) PROVE ContOK'
  <2>1. /\ \A s \in Slots : procs'[s] = IF s \in S THEN NoPcb ELSE procs[s]
        /\ NoEntry /\ current' = current /\ \A s \in S : procs[s].state = "Zombie"
    BY <1>5 DEF Reaps
  <2> QED  BY <1>r, <1>d, <2>1, NoPcbFacts, ContKept
<1>6. ASSUME NEW slot \in Slots, NEW parent \in Pids, Inserts(slot, parent) PROVE ContOK'
  <2>1. /\ procs'[slot].state = "Runnable" /\ procs'[slot].kcont = NoCall /\ NoEntry /\ current' = current
        /\ \A s \in Slots \ {slot} : /\ procs'[s].kcont = procs[s].kcont /\ procs'[s].user_rsp = procs[s].user_rsp
                                      /\ procs'[s].state = procs[s].state
    BY <1>6 DEF Inserts, Same
  <2> QED  BY <1>r, <1>d, <2>1, ContKept
<1>7. ASSUME NEW v \in Slots, Starts(v) PROVE ContOK'
  <2>1. /\ current = None /\ current' = v /\ procs'[v].kcont = NoCall /\ procs'[v].state = "Running"
        /\ \A s \in Slots \ {v} : procs'[s] = procs[s]
    BY <1>7, <1>c DEF Starts
  <2>2. \A s \in Slots : KStack(s)'
    BY <1>c, <1>k, <2>1 DEF KStack
  <2> QED  BY <1>d, <2>1, <2>2 DEF ContOK, Asleep
<1>8. CASE Fails
  <2>1. current = None /\ current' = None /\ procs' = procs /\ mode' = "kshell"
    BY <1>8, <1>c DEF Fails
  <2>2. \A s \in Slots : KStack(s)'
    BY <1>c, <1>k, <2>1 DEF KStack
  <2>3. ~InProcess'
    BY <2>1 DEF InProcess, ProcModes
  <2> QED  BY <1>c, <1>d, <2>1, <2>2, <2>3 DEF ContOK, Asleep
<1>9. CASE Leaves
  <2>1. /\ \A s \in Slots : procs'[s].kcont = NoCall
        /\ mode' \in {"host", "kshell"} /\ current' = None
    BY <1>9, NoPcbFacts DEF Leaves
  <2>2. ~InProcess'
    BY <2>1 DEF InProcess, ProcModes
  <2> QED  BY <1>c, <2>1, <2>2 DEF ContOK, Asleep, KStack
<1> QED  BY <1>1, <1>2, <1>3, <1>4, <1>5, <1>6, <1>7, <1>8, <1>9 DEF AnyKind

\* A step after which the CPU executes no call.
LEMMA CallEnds == ASSUME call' = NoCall PROVE CallOK'
BY DEF CallOK, SysretStack

\* A step in which the CPU stays in the call it executes, if any.
LEMMA CallGoesOn ==
    ASSUME CallOK, call' = call, cpu_rsp' = cpu_rsp,
           mode' \in {"user", "sched", "hlt", "host", "kshell"} \/ after' \in {"hlt", "kshell"}
             => mode \in {"user", "sched", "hlt", "host", "kshell"} \/ after \in {"hlt", "kshell"}
    PROVE  CallOK'
BY DEF CallOK, SysretStack

\* CallOK is inductive with ContOK: a call is executed on the stack pointer it was made
\* with, until it returns, or is put off and resumed with the one ContOK keeps.
LEMMA NextCall == CoreInv /\ CtlInv /\ ContOK /\ CallOK /\ [Next]_vars => CallOK'
<1> SUFFICES ASSUME CoreInv, CtlInv, ContOK, CallOK, [Next]_vars PROVE CallOK'
  OBVIOUS
<1>c. ControlOK /\ call \in Call /\ (InProcess => current \in Slots)
  BY DEF CoreInv, RestOK, ControlOK
<1>1. ASSUME NEW v \in Slots, Resumes(v) PROVE CallOK'
  <2>1. /\ call' = procs[v].kcont /\ cpu_rsp' = procs[v].user_rsp /\ procs[v].state \in {"Runnable", "Running"}
        /\ mode' \in {"user", "call"} /\ after' = "none" /\ (mode' = "user" => call' = NoCall)
    BY <1>1 DEF Resumes
  <2>2. ASSUME procs[v].kcont # NoCall PROVE procs[v].user_rsp = procs[v].kcont.rsp
    <3>1. ~(v = current /\ Idle)
      BY <1>1, <2>1, <2>2 DEF ContOK, Asleep, BlockedStates
    <3> QED  BY <1>1, <2>2, <3>1 DEF ContOK, KStack
  <2> QED  BY <2>1, <2>2 DEF CallOK, SysretStack
<1>2. ASSUME NEW op, NEW id, NEW n, Enter(op, id, n), mode = "call", call.op = "dispatch" PROVE CallOK'
  <2>1. call' = [call EXCEPT !.op = op, !.id = id, !.n = n] /\ mode' = mode /\ after' = after /\ cpu_rsp' = cpu_rsp
    BY <1>2 DEF Enter, cpu
  <2>2. call'.rsp = call.rsp /\ call # NoCall
    BY <1>2, <1>c, <2>1 DEF Call, NoCall
  <2>3. after = "none"
    BY <1>2, <1>c DEF ControlOK
  <2> QED  BY <1>2, <2>1, <2>2, <2>3 DEF CallOK, SysretStack
<1>3. CASE PollReap \/ PollDone
  BY <1>3, <1>c, CallGoesOn DEF PollReap, PollDone, ControlOK, cpu
<1>4. CASE SchedIdle \/ TimerKernel
  BY <1>4, <1>c, CallGoesOn DEF SchedIdle, TimerKernel, ControlOK, cpu
<1>5. CASE StdinPoll \/ StdinHalt
  BY <1>5, <1>c, CallGoesOn DEF StdinPoll, StdinHalt, InCall, ControlOK, cpu
<1>6. CASE WaitStep \/ StdinByte \/ StdinBlock
  BY <1>6, CallEnds DEF WaitStep, WaitReap, WaitNone, WaitBlock, StdinByte, StdinBlock, SysReturn, yield_block
<1>7. CASE HostRunInit \/ HostGiveUp \/ KshellByte
  <2>1. call = NoCall
    BY <1>7 DEF HostRunInit, HostGiveUp, KshellByte, CallOK
  <2>2. call' = call
    BY <1>7 DEF HostRunInit, HostGiveUp, KshellByte
  <2> QED  BY <2>1, <2>2, CallEnds
<1>8. CASE KshellPoll
  BY <1>8, CallGoesOn DEF KshellPoll, cpu
<1>9. CASE Panic
  BY <1>9, <1>c, CallGoesOn DEF Panic, unwraps, may_fault, Asked, ControlOK, cpu
<1>10. CASE SysOther \/ SysPipe \/ SysPipeFails \/ SysWinCreate
  BY <1>10, CallEnds DEF SysOther, SysPipe, SysPipeFails, SysWinCreate, SysReturn
<1>11. ASSUME NEW out, user_exit(out) PROVE CallOK'
  BY <1>11, CallEnds DEF user_exit
<1>12. ASSUME NEW a, NEW b, SysSpawn(a, b) \/ SysSpawnFails(a, b) PROVE CallOK'
  BY <1>12, CallEnds DEF SysSpawn, SysSpawnFails, SysReturn
<1>13. ASSUME NEW x, SysKill(x) \/ SysOpen(x) \/ SysClose(x) PROVE CallOK'
  BY <1>13, CallEnds DEF SysKill, SysOpen, SysClose, SysReturn
<1>14. CASE ReadPipe \/ WritePipe
  BY <1>14, CallEnds DEF ReadPipe, WritePipe, SysReturn, yield_block
<1>15. ASSUME NEW rsp, Syscall(rsp) PROVE CallOK'
  BY <1>15 DEF Syscall, NoCall, CallOK, SysretStack
<1>16. ASSUME NEW key, KeyIrq(key) PROVE CallOK'
  <2>1. /\ cpu_rsp' = cpu_rsp /\ after' = after /\ mode \in IrqModes
        /\ call' = IF mode' = "sched" THEN NoCall ELSE call
        /\ mode' \in {"sched", "call"} \/ mode' = mode
    BY <1>16 DEF KeyIrq, cpu
  <2> QED  BY <2>1, CallEnds, CallGoesOn DEF IrqModes
<1>17. ASSUME NEW x, PollKey(x) \/ PollLaunch \/ PollCloseFrame(x) PROVE CallOK'
  BY <1>17, CallGoesOn DEF PollKey, PollLaunch, PollCloseFrame, cpu
<1>18. CASE SchedPick \/ (TimerUser /\ procs[current].state \notin {"None", "Zombie"})
  BY <1>1, <1>18, Switches
<1>19. CASE TimerUser /\ procs[current].state \in {"None", "Zombie"}
  BY <1>19, CallGoesOn DEF TimerUser, cpu
<1>20. CASE UNCHANGED vars
  BY <1>20, CallGoesOn DEF vars
<1>21. CASE KernelStep
  <2>1. CASE SysWait \/ \E fd \in Fds, n \in Lens : SysRead(fd, n) \/ SysWrite(fd, n)
    BY <2>1, <1>2 DEF SysWait, SysRead, SysWrite, Dispatch, Asked
  <2>2. CASE DispatchStep
    BY <2>1, <2>2, <1>10, <1>11, <1>12, <1>13 DEF DispatchStep, SysExit
  <2> QED  BY <1>21, <2>2, <1>3, <1>4, <1>5, <1>6, <1>7, <1>8, <1>9, <1>14, <1>18
           DEF KernelStep, PollStep, SchedStep, StdinStep, KmainStep
<1>22. CASE UserStep
  BY <1>22, <1>11, <1>15 DEF UserStep, UserFault
<1>23. CASE Timer \/ InputStep
  BY <1>23, <1>4, <1>16, <1>17, <1>18, <1>19 DEF Timer, InputStep
<1> QED  BY <1>20, <1>21, <1>22, <1>23 DEF Next

\* Every system call returns on the stack it was made with, whatever processes run and
\* are switched in the meantime, if no Ctrl+C is read.  (With it, a parent that is woken
\* for its killed child while schedule_next still runs on its record resumes with the
\* stack pointer of its previous switch.)
THEOREM SchedSysretStack ==
    ASSUME "ctrlc" \notin IrqKeys \cup PollEvents
    PROVE  Spec => []SysretStack
<1>1. Init => ContOK /\ CallOK
  BY SlotsNat, NoPcbFacts DEF Init, ContOK, KStack, Asleep, CallOK, SysretStack, InProcess, ProcModes
<1>2. CoreInv /\ CtlInv /\ ResumeInv /\ ContOK /\ CallOK /\ [Next]_vars => ContOK' /\ CallOK'
  BY StepKinds, ContStep, NextCall
<1>3. CallOK => SysretStack
  BY DEF CallOK
<1> QED  BY <1>1, <1>2, <1>3, CtlHolds, ResumeHolds, PTL DEF Spec

-----------------------------------------------------------------------------
(* Panics.                                                                 *)

\* Only the unwraps of a process that is not in the table panic.
LEMMA PanicOnly ==
    ASSUME CoreInv, [Next]_vars, mode # "panic", mode' = "panic"
    PROVE  InProcess /\ procs[current].state = "None"
<1>c. ControlOK
  BY DEF CoreInv
<1>1. CASE Panic
  BY <1>1 DEF Panic, unwraps, may_fault, Asked, InProcess, ProcModes
<1>2. CASE PollStep \/ SchedStep \/ WaitStep \/ StdinStep \/ KmainStep \/ ReadPipe \/ WritePipe
  <2>1. CASE PollStep \/ StdinStep
    BY <2>1, <1>c DEF PollStep, PollReap, PollDone, StdinStep, StdinByte, StdinPoll, StdinBlock, StdinHalt,
         SysReturn, yield_block, ControlOK
  <2>2. CASE SchedStep \/ KmainStep
    BY <2>2 DEF SchedStep, SchedPick, SchedIdle, switch_to, Resume, KmainStep, HostRunInit, HostGiveUp,
         KshellByte, KshellPoll, run_with, run_with_fails
  <2>3. CASE WaitStep \/ ReadPipe \/ WritePipe
    BY <2>3 DEF WaitStep, WaitReap, WaitNone, WaitBlock, ReadPipe, WritePipe, SysReturn, yield_block
  <2> QED  BY <1>2, <2>1, <2>2, <2>3
<1>3. ASSUME NEW out, user_exit(out) PROVE mode' # "panic"
  BY <1>3, <1>c DEF user_exit, leave_scheduler
<1>4. CASE DispatchStep
  <2>1. CASE SysOther \/ SysExit \/ SysWait \/ SysPipe \/ SysPipeFails \/ SysWinCreate
    BY <1>3, <2>1 DEF SysOther, SysExit, SysWait, SysPipe, SysPipeFails, SysWinCreate, Enter, SysReturn
  <2>2. ASSUME NEW a, NEW b, SysSpawn(a, b) \/ SysSpawnFails(a, b) PROVE mode' # "panic"
    BY <2>2 DEF SysSpawn, SysSpawnFails, SysReturn
  <2>3. ASSUME NEW x, SysKill(x) \/ SysOpen(x) \/ SysClose(x) PROVE mode' # "panic"
    BY <2>3 DEF SysKill, SysOpen, SysClose, SysReturn
  <2>4. ASSUME NEW fd, NEW n, SysRead(fd, n) \/ SysWrite(fd, n) PROVE mode' # "panic"
    BY <2>4 DEF SysRead, SysWrite, Enter
  <2> QED  BY <1>4, <2>1, <2>2, <2>3, <2>4 DEF DispatchStep
<1>5. CASE UserStep
  BY <1>3, <1>5 DEF UserStep, UserFault, Syscall
<1>6. CASE Timer
  BY <1>6 DEF Timer, TimerKernel, TimerUser, Resume
<1>7. CASE InputStep
  <2>1. ASSUME NEW key, KeyIrq(key) PROVE mode' # "panic"
    BY <2>1 DEF KeyIrq
  <2> QED  BY <1>7, <2>1 DEF InputStep, PollKey, PollLaunch, PollCloseFrame
<1> QED  BY <1>1, <1>2, <1>4, <1>5, <1>6, <1>7 DEF Next, KernelStep, vars

\* The kernel does not panic, under the same conditions as for ZombieStays: where it can
\* (the run reaped_current), the process the CPU works for was killed by a Ctrl+C that
\* comp::poll reads, or by itself, and its slot was reaped.
THEOREM SchedNoPanic ==
    ASSUME "ctrlc" \notin PollEvents, "kill" \notin Calls \/ "launch" \notin PollEvents
    PROVE  Spec => []NoPanic
<1>1. Init => NoPanic
  BY DEF Init, NoPanic
<1>2. CoreInv /\ OrderInv /\ NoPanic /\ [Next]_vars => NoPanic'
  BY PanicOnly DEF OrderInv, Orderly, Runs, NoPanic
<1> QED  BY <1>1, <1>2, CtlHolds, OrderHolds, PTL DEF Spec

-----------------------------------------------------------------------------
(* The end counters of the pipes.  What a process does with its            *)
(* descriptors, its birth and its death keep each counter equal to the     *)
(* number of descriptors that hold such an end.                            *)

\* The descriptor tables of the processes, and who holds an end.
Held(ps) == [s \in Slots |-> ps[s].fds]
Ends(F, id, w) == {x \in Slots \X Fds : F[x[1]][x[2]] = PipeEnd(id, w)}

\* The pipe p counts the read ends A and the write ends B, and is clean when there are none.
Counted(p, A, B) ==
    /\ p.n_readers = Cardinality(A) /\ p.n_writers = Cardinality(B)
    /\ p.used <=> A # {} \/ B # {}
    /\ ~p.used => p = empty

Refs(F, P) == \A id \in PipeIds : Counted(P[id], Ends(F, id, FALSE), Ends(F, id, TRUE))

\* A free slot holds no descriptor.
FreeHold == \A s \in Slots : procs[s].state = "None" => procs[s].fds = NoFds

RefInv == Refs(Held(procs), pipes) /\ FreeHold

-----------------------------------------------------------------------------
(* Counting.                                                               *)

\* A set of descriptors can be counted, and has none exactly if it is empty.
LEMMA EndsFinite ==
    ASSUME NEW A \in SUBSET (Slots \X Fds)
    PROVE  IsFiniteSet(A) /\ Cardinality(A) \in Nat /\ (Cardinality(A) = 0 <=> A = {})
<1>1. IsFiniteSet(Slots \X Fds)
  BY SlotsNat, FdsNat, FS_Product
<1>2. IsFiniteSet(A)
  BY <1>1, FS_Subset
<1> QED  BY <1>2, FS_CardinalityType, FS_EmptySet

\* The ends of a pipe that are held are descriptors.
LEMMA EndsAre == \A F, id, w : Ends(F, id, w) \in SUBSET (Slots \X Fds)
BY DEF Ends

\* An unused pipe has no ends.
LEMMA EmptyCounted == Counted(empty, {}, {})
BY FS_EmptySet DEF Counted, empty

\* A pipe with the ends of A and B from which those of C and D are dropped.
LEMMA DropCounted ==
    ASSUME NEW p \in PipeRec, NEW A \in SUBSET (Slots \X Fds), NEW B \in SUBSET (Slots \X Fds),
           NEW C \in SUBSET A, NEW D \in SUBSET B, Counted(p, A, B)
    PROVE  Counted(drop_ends(p, Cardinality(C), Cardinality(D)), A \ C, B \ D)
<1> DEFINE r == Cardinality(C)
           w == Cardinality(D)
           nr == saturating_sub(p.n_readers, r)
           nw == saturating_sub(p.n_writers, w)
           q == drop_ends(p, r, w)
<1>1. /\ r \in Nat /\ w \in Nat /\ (r = 0 <=> C = {}) /\ (w = 0 <=> D = {})
      /\ Cardinality(A) \in Nat /\ Cardinality(B) \in Nat /\ IsFiniteSet(A) /\ IsFiniteSet(B)
  BY EndsFinite
<1>2. /\ Cardinality(A \ C) = Cardinality(A) - r /\ Cardinality(B \ D) = Cardinality(B) - w
      /\ r <= Cardinality(A) /\ w <= Cardinality(B)
  <2>1. A \cap C = C /\ B \cap D = D
    OBVIOUS
  <2>2. Cardinality(A \ C) = Cardinality(A) - Cardinality(A \cap C)
    BY <1>1, FS_Difference
  <2>3. Cardinality(B \ D) = Cardinality(B) - Cardinality(B \cap D)
    BY <1>1, FS_Difference
  <2>4. r <= Cardinality(A) /\ w <= Cardinality(B)
    BY <1>1, FS_Subset
  <2> QED  BY <2>1, <2>2, <2>3, <2>4
<1>3. /\ Cardinality(A \ C) \in Nat /\ (Cardinality(A \ C) = 0 <=> A \ C = {})
      /\ Cardinality(B \ D) \in Nat /\ (Cardinality(B \ D) = 0 <=> B \ D = {})
  <2>1. A \ C \in SUBSET (Slots \X Fds) /\ B \ D \in SUBSET (Slots \X Fds)
    OBVIOUS
  <2> QED  BY <2>1, EndsFinite
<1>4. nr = Cardinality(A \ C) /\ nw = Cardinality(B \ D)
  BY <1>1, <1>2 DEF saturating_sub, Counted
<1>5. q = IF ~p.used \/ (r = 0 /\ w = 0) THEN p
          ELSE IF nr = 0 /\ nw = 0 THEN empty
          ELSE [p EXCEPT !.n_readers = nr, !.n_writers = nw]
  BY DEF drop_ends
<1> HIDE DEF nr, nw, q
<1>6. CASE ~p.used \/ (r = 0 /\ w = 0)
  <2>1. C = {} /\ D = {}
    BY <1>1, <1>6 DEF Counted
  <2>2. A \ C = A /\ B \ D = B
    BY <2>1
  <2> QED  BY <1>5, <1>6, <2>2 DEF q
<1>7. CASE ~(~p.used \/ (r = 0 /\ w = 0)) /\ nr = 0 /\ nw = 0
  <2>1. A \ C = {} /\ B \ D = {}
    BY <1>3, <1>4, <1>7
  <2> QED  BY <1>5, <1>7, <2>1, EmptyCounted DEF q
<1>8. CASE ~(~p.used \/ (r = 0 /\ w = 0)) /\ ~(nr = 0 /\ nw = 0)
  <2>1. q = [p EXCEPT !.n_readers = nr, !.n_writers = nw]
    BY <1>5, <1>8
  <2>2. q.used = p.used /\ q.n_readers = nr /\ q.n_writers = nw
    BY <2>1 DEF PipeRec
  <2>3. A \ C # {} \/ B \ D # {}
    BY <1>3, <1>4, <1>8
  <2>4. p.used
    BY <1>8
  <2> QED  BY <1>4, <2>2, <2>3, <2>4 DEF Counted, q
<1> QED  BY <1>6, <1>7, <1>8

\* A pipe one more end of which is held.
LEMMA CloneCounted ==
    ASSUME NEW p \in PipeRec, NEW A \in SUBSET (Slots \X Fds), NEW B \in SUBSET (Slots \X Fds),
           Counted(p, A, B), NEW w \in BOOLEAN, can_clone_end(p, w), NEW x, x \notin A, x \notin B
    PROVE  Counted(clone_end(p, w), IF w THEN A ELSE A \cup {x}, IF w THEN B \cup {x} ELSE B)
<1>1. /\ Cardinality(A \cup {x}) = Cardinality(A) + 1
      /\ Cardinality(B \cup {x}) = Cardinality(B) + 1
  BY EndsFinite, FS_AddElement
<1>2. p.used
  BY DEF can_clone_end
<1>3. CASE w
  <2>1. /\ clone_end(p, w).used = p.used
        /\ clone_end(p, w).n_readers = p.n_readers /\ clone_end(p, w).n_writers = p.n_writers + 1
    BY <1>3 DEF clone_end, PipeRec
  <2> QED  BY <1>1, <1>2, <1>3, <2>1 DEF Counted
<1>4. CASE ~w
  <2>1. /\ clone_end(p, w).used = p.used
        /\ clone_end(p, w).n_writers = p.n_writers /\ clone_end(p, w).n_readers = p.n_readers + 1
    BY <1>4 DEF clone_end, PipeRec
  <2> QED  BY <1>1, <1>2, <1>4, <2>1 DEF Counted
<1> QED  BY <1>3, <1>4

-----------------------------------------------------------------------------
(* Descriptors.                                                            *)

HeldTables == [Slots -> Tables]

\* The process in slot s opens of as its descriptor fd, which held no end.
LEMMA TakeRef ==
    ASSUME NEW F \in HeldTables, NEW P \in PipeTables, Refs(F, P), NEW s \in Slots, NEW fd \in Fds,
           F[s][fd].kind # "Pipe", NEW of \in OpenFd, Clonable(P, of)
    PROVE  Refs([F EXCEPT ![s] = [F[s] EXCEPT ![fd] = of]], clone_slot_pipes(P, of))
<1> DEFINE G == [F EXCEPT ![s] = [F[s] EXCEPT ![fd] = of]]
           Q == clone_slot_pipes(P, of)
           x == <<s, fd>>
<1>1. /\ G[s][fd] = of
      /\ \A t \in Slots, f \in Fds : <<t, f>> # x => G[t][f] = F[t][f]
  BY DEF HeldTables, Tables
<1> HIDE DEF G
<1> SUFFICES ASSUME NEW id \in PipeIds
             PROVE  Counted(Q[id], Ends(G, id, FALSE), Ends(G, id, TRUE))
  BY DEF Refs, G
<1>2. \A w \in BOOLEAN : x \notin Ends(F, id, w)
  BY DEF Ends, PipeEnd
<1>3. \A w \in BOOLEAN : Ends(G, id, w) = IF of = PipeEnd(id, w) THEN Ends(F, id, w) \cup {x} ELSE Ends(F, id, w)
  <2> SUFFICES ASSUME NEW w \in BOOLEAN
               PROVE  Ends(G, id, w) = IF of = PipeEnd(id, w) THEN Ends(F, id, w) \cup {x} ELSE Ends(F, id, w)
    OBVIOUS
  <2>1. ASSUME NEW y \in Slots \X Fds, y # x PROVE y \in Ends(G, id, w) <=> y \in Ends(F, id, w)
    BY <1>1, <2>1 DEF Ends
  <2>2. x \in Slots \X Fds /\ (x \in Ends(G, id, w) <=> of = PipeEnd(id, w))
    BY <1>1 DEF Ends
  <2> QED  BY <1>2, <2>1, <2>2, EndsAre
<1> HIDE DEF x
<1>4. P[id] \in PipeRec /\ Counted(P[id], Ends(F, id, FALSE), Ends(F, id, TRUE))
  BY DEF PipeTables, Refs
<1>5. CASE of.kind = "Pipe" /\ of.id = id
  <2>1. PICK w \in BOOLEAN : of = PipeEnd(id, w)
    BY <1>5 DEF OpenFd, Plain, PipeEnd
  <2>2. of.write = w /\ \A v \in BOOLEAN : of = PipeEnd(id, v) <=> v = w
    BY <2>1 DEF PipeEnd
  <2>3. Q[id] = clone_end(P[id], w) /\ can_clone_end(P[id], w)
    BY <1>5, <2>2 DEF clone_slot_pipes, PipeTables, Clonable
  <2>4. /\ Ends(G, id, FALSE) = IF w THEN Ends(F, id, FALSE) ELSE Ends(F, id, FALSE) \cup {x}
        /\ Ends(G, id, TRUE) = IF w THEN Ends(F, id, TRUE) \cup {x} ELSE Ends(F, id, TRUE)
    BY <1>3, <2>2
  <2> DEFINE A == Ends(F, id, FALSE)
             B == Ends(F, id, TRUE)
  <2>5. A \in SUBSET (Slots \X Fds) /\ B \in SUBSET (Slots \X Fds) /\ x \notin A /\ x \notin B
    BY <1>2, EndsAre
  <2> HIDE DEF A, B
  <2>6. Counted(clone_end(P[id], w), IF w THEN A ELSE A \cup {x}, IF w THEN B \cup {x} ELSE B)
    BY <1>4, <2>3, <2>5, CloneCounted DEF A, B
  <2> QED  BY <2>3, <2>4, <2>6 DEF A, B
<1>6. CASE ~(of.kind = "Pipe" /\ of.id = id)
  <2>1. \A w \in BOOLEAN : of # PipeEnd(id, w)
    BY <1>6 DEF PipeEnd
  <2>2. Q[id] = P[id]
    BY <1>6 DEF clone_slot_pipes, PipeTables
  <2> QED  BY <1>3, <1>4, <2>1, <2>2
<1> QED  BY <1>5, <1>6

\* The descriptors in the set X are closed, or hold something else than a pipe's end.
GivenUp(F, G, X) ==
    \A y \in Slots \X Fds : IF y \in X THEN G[y[1]][y[2]].kind # "Pipe" ELSE G[y[1]][y[2]] = F[y[1]][y[2]]

\* The pipes are told of each end that is given up.
Told(F, P, Q, X) ==
    \A id \in PipeIds : Q[id] = drop_ends(P[id], Cardinality(Ends(F, id, FALSE) \cap X),
                                                 Cardinality(Ends(F, id, TRUE) \cap X))

\* Then the counts are right again.
LEMMA DropRefs ==
    ASSUME NEW F \in HeldTables, NEW P \in PipeTables, Refs(F, P), NEW X \in SUBSET (Slots \X Fds), NEW G, NEW Q,
           GivenUp(F, G, X), Told(F, P, Q, X)
    PROVE  Refs(G, Q)
<1> SUFFICES ASSUME NEW id \in PipeIds
             PROVE  Counted(Q[id], Ends(G, id, FALSE), Ends(G, id, TRUE))
  BY DEF Refs
<1>1. ASSUME NEW w \in BOOLEAN PROVE Ends(G, id, w) = Ends(F, id, w) \ (Ends(F, id, w) \cap X)
  <2>1. ASSUME NEW y \in Slots \X Fds PROVE y \in Ends(G, id, w) <=> y \in Ends(F, id, w) /\ y \notin X
    <3>1. CASE y \in X
      BY <3>1 DEF Ends, PipeEnd, GivenUp
    <3>2. CASE y \notin X
      BY <3>2 DEF Ends, GivenUp
    <3> QED  BY <3>1, <3>2
  <2> QED  BY <2>1, EndsAre
<1>2. P[id] \in PipeRec /\ Counted(P[id], Ends(F, id, FALSE), Ends(F, id, TRUE))
  BY DEF PipeTables, Refs
<1>3. /\ Q[id] = drop_ends(P[id], Cardinality(Ends(F, id, FALSE) \cap X), Cardinality(Ends(F, id, TRUE) \cap X))
      /\ Ends(G, id, FALSE) = Ends(F, id, FALSE) \ (Ends(F, id, FALSE) \cap X)
      /\ Ends(G, id, TRUE) = Ends(F, id, TRUE) \ (Ends(F, id, TRUE) \cap X)
  BY <1>1 DEF Told
<1> DEFINE A == Ends(F, id, FALSE)
           B == Ends(F, id, TRUE)
           C == A \cap X
           D == B \cap X
<1>5. A \in SUBSET (Slots \X Fds) /\ B \in SUBSET (Slots \X Fds) /\ C \in SUBSET A /\ D \in SUBSET B
  BY EndsAre
<1>6. Counted(P[id], A, B)
  BY <1>2
<1> HIDE DEF A, B, C, D
<1>7. Counted(drop_ends(P[id], Cardinality(C), Cardinality(D)), A \ C, B \ D)
  BY <1>2, <1>5, <1>6, DropCounted
<1> QED  BY <1>3, <1>7 DEF A, B, C, D

\* A change that gives nobody an end and takes none keeps the counts.
LEMMA EndsSame ==
    ASSUME NEW F, NEW G, NEW P, Refs(F, P),
           \A s \in Slots, fd \in Fds : G[s][fd] = F[s][fd] \/ (G[s][fd].kind # "Pipe" /\ F[s][fd].kind # "Pipe")
    PROVE  Refs(G, P)
<1>1. ASSUME NEW id, NEW w PROVE Ends(G, id, w) = Ends(F, id, w)
  <2>1. \A s \in Slots, fd \in Fds : G[s][fd] = PipeEnd(id, w) <=> F[s][fd] = PipeEnd(id, w)
    BY DEF PipeEnd
  <2> QED  BY <2>1 DEF Ends
<1> QED  BY <1>1 DEF Refs

\* What the standard descriptors and closed ones hold is no pipe's end.
LEMMA PlainKinds ==
    /\ Closed.kind = "Closed"
    /\ \A fd \in Fds : NoFds[fd].kind # "Pipe" /\ new_stdio[fd].kind # "Pipe"
    /\ \A k : Plain(k).kind = k
BY DEF Closed, NoFds, new_stdio, Plain

\* Dropping no end changes nothing.
LEMMA DropNone == \A p : drop_ends(p, 0, 0) = p
BY DEF drop_ends

\* A process closes a descriptor.
LEMMA DropRef ==
    ASSUME NEW F \in HeldTables, NEW P \in PipeTables, Refs(F, P), NEW s \in Slots, NEW fd \in Fds
    PROVE  Refs([F EXCEPT ![s] = [F[s] EXCEPT ![fd] = Closed]], drop_open(P, F[s][fd]))
<1> DEFINE G == [F EXCEPT ![s] = [F[s] EXCEPT ![fd] = Closed]]
           of == F[s][fd]
           Q == drop_open(P, of)
           x == <<s, fd>>
<1>1. G[s][fd] = Closed /\ \A t \in Slots, f \in Fds : <<t, f>> # x => G[t][f] = F[t][f]
  BY DEF HeldTables, Tables
<1>2. of \in OpenFd
  BY DEF HeldTables, Tables
<1> HIDE DEF G
<1>3. \A y \in Slots \X Fds : IF y \in {x} THEN G[y[1]][y[2]].kind # "Pipe" ELSE G[y[1]][y[2]] = F[y[1]][y[2]]
  BY <1>1, PlainKinds
<1>4. ASSUME NEW id \in PipeIds
      PROVE Q[id] = drop_ends(P[id], Cardinality(Ends(F, id, FALSE) \cap {x}), Cardinality(Ends(F, id, TRUE) \cap {x}))
  <2>1. ASSUME NEW w \in BOOLEAN PROVE Cardinality(Ends(F, id, w) \cap {x}) = IF of = PipeEnd(id, w) THEN 1 ELSE 0
    <3>1. x \in Ends(F, id, w) <=> of = PipeEnd(id, w)
      BY DEF Ends
    <3>2. CASE of = PipeEnd(id, w)
      <4>1. Ends(F, id, w) \cap {x} = {x}
        BY <3>1, <3>2
      <4> QED  BY <3>2, <4>1, FS_Singleton
    <3>3. CASE of # PipeEnd(id, w)
      <4>1. Ends(F, id, w) \cap {x} = {}
        BY <3>1, <3>3
      <4> QED  BY <3>3, <4>1, FS_EmptySet
    <3> QED  BY <3>2, <3>3
  <2>2. CASE of.kind = "Pipe" /\ of.id = id
    <3>1. PICK w \in BOOLEAN : of = PipeEnd(id, w)
      BY <1>2, <2>2 DEF OpenFd, Plain, PipeEnd
    <3>2. of.write = w
      BY <3>1 DEF PipeEnd
    <3>3. Q[id] = drop_end(P[id], w)
      BY <2>2, <3>2 DEF drop_open, PipeTables
    <3>4. PipeEnd(id, TRUE) # PipeEnd(id, FALSE)
      BY DEF PipeEnd
    <3> HIDE DEF of, x, Q
    <3>5. CASE w = TRUE
      BY <2>1, <3>1, <3>3, <3>4, <3>5 DEF drop_end
    <3>6. CASE w = FALSE
      BY <2>1, <3>1, <3>3, <3>4, <3>6 DEF drop_end
    <3> QED  BY <3>5, <3>6
  <2>3. CASE ~(of.kind = "Pipe" /\ of.id = id)
    <3>1. \A w \in BOOLEAN : of # PipeEnd(id, w)
      BY <2>3 DEF PipeEnd
    <3>2. Q[id] = P[id]
      BY <2>3 DEF drop_open, PipeTables
    <3> HIDE DEF of, x, Q
    <3> QED  BY <2>1, <3>1, <3>2, DropNone
  <2> QED  BY <2>2, <2>3
<1>5. {x} \in SUBSET (Slots \X Fds)
  OBVIOUS
<1> HIDE DEF x, Q, of
<1>6. PICK X \in SUBSET (Slots \X Fds) : X = {x}
  BY <1>5
<1>7. GivenUp(F, G, X)
  BY <1>3, <1>6, Zenon DEF GivenUp
<1>8. Told(F, P, Q, X)
  BY <1>4, <1>6, Zenon DEF Told
<1>9. Refs(G, Q)
  BY <1>7, <1>8, DropRefs
<1> QED  BY <1>9 DEF G, Q, of

\* A process gets both ends of a new pipe.
LEMMA PipeRef ==
    ASSUME NEW F \in HeldTables, NEW P \in PipeTables, Refs(F, P), NEW s \in Slots,
           NEW f1 \in Fds, NEW f2 \in Fds, f1 # f2, F[s][f1] = Closed, F[s][f2] = Closed,
           NEW new \in PipeIds, ~P[new].used
    PROVE  Refs([F EXCEPT ![s] = [[F[s] EXCEPT ![f1] = PipeEnd(new, FALSE)] EXCEPT ![f2] = PipeEnd(new, TRUE)]],
                [P EXCEPT ![new] = [empty EXCEPT !.used = TRUE, !.n_readers = 1, !.n_writers = 1]])
<1> DEFINE G == [F EXCEPT ![s] = [[F[s] EXCEPT ![f1] = PipeEnd(new, FALSE)] EXCEPT ![f2] = PipeEnd(new, TRUE)]]
           p == [empty EXCEPT !.used = TRUE, !.n_readers = 1, !.n_writers = 1]
           Q == [P EXCEPT ![new] = p]
           x == <<s, f1>>
           y == <<s, f2>>
<1>1. /\ G[s][f1] = PipeEnd(new, FALSE) /\ G[s][f2] = PipeEnd(new, TRUE)
      /\ \A t \in Slots, f \in Fds : <<t, f>> \notin {x, y} => G[t][f] = F[t][f]
  BY DEF HeldTables, Tables
<1>2. Q[new] = p /\ \A id \in PipeIds : id # new => Q[id] = P[id]
  BY DEF PipeTables
<1>3. p.used /\ p.n_readers = 1 /\ p.n_writers = 1
  BY DEF empty
<1> HIDE DEF G, Q, p
<1> SUFFICES ASSUME NEW id \in PipeIds
             PROVE  Counted(Q[id], Ends(G, id, FALSE), Ends(G, id, TRUE))
  BY DEF Refs, G, Q, p
<1>4. Counted(P[id], Ends(F, id, FALSE), Ends(F, id, TRUE))
  BY DEF Refs
<1>5. Closed # PipeEnd(id, TRUE) /\ Closed # PipeEnd(id, FALSE) /\ PipeEnd(new, FALSE) # PipeEnd(id, TRUE)
      /\ PipeEnd(new, TRUE) # PipeEnd(id, FALSE)
  BY DEF Closed, Plain, PipeEnd
<1>6. CASE id = new
  <2>1. \A w \in BOOLEAN : Ends(F, id, w) = {}
    BY <1>4, <1>6 DEF Counted
  <2>2. ASSUME NEW z \in Slots \X Fds, NEW w \in BOOLEAN PROVE F[z[1]][z[2]] # PipeEnd(id, w)
    BY <2>1 DEF Ends
  <2>3. Ends(G, id, FALSE) = {x} /\ Ends(G, id, TRUE) = {y}
    <3>1. ASSUME NEW z \in Slots \X Fds PROVE /\ G[z[1]][z[2]] = PipeEnd(id, FALSE) <=> z = x
                                              /\ G[z[1]][z[2]] = PipeEnd(id, TRUE) <=> z = y
      <4>1. CASE z = x
        BY <1>1, <1>5, <1>6, <4>1
      <4>2. CASE z = y
        BY <1>1, <1>5, <1>6, <4>2
      <4>3. CASE z \notin {x, y}
        <5>1. z = <<z[1], z[2]>> /\ z[1] \in Slots /\ z[2] \in Fds
          OBVIOUS
        <5>2. G[z[1]][z[2]] = F[z[1]][z[2]]
          BY <1>1, <4>3, <5>1
        <5> QED  BY <2>2, <4>3, <5>2
      <4> QED  BY <4>1, <4>2, <4>3
    <3>2. x \in Slots \X Fds /\ y \in Slots \X Fds
      OBVIOUS
    <3> HIDE DEF x, y
    <3> QED  BY <3>1, <3>2 DEF Ends
  <2> QED  BY <1>2, <1>3, <1>6, <2>3, FS_Singleton DEF Counted
<1>7. CASE id # new
  <2>1. PipeEnd(new, FALSE) # PipeEnd(id, FALSE) /\ PipeEnd(new, TRUE) # PipeEnd(id, TRUE)
    BY <1>7 DEF PipeEnd
  <2>2. ASSUME NEW w \in BOOLEAN, NEW z \in Slots \X Fds
        PROVE  G[z[1]][z[2]] = PipeEnd(id, w) <=> F[z[1]][z[2]] = PipeEnd(id, w)
    <3>1. CASE z = x
      BY <1>1, <1>5, <2>1, <3>1
    <3>2. CASE z = y
      BY <1>1, <1>5, <2>1, <3>2
    <3>3. CASE z \notin {x, y}
      BY <1>1, <3>3
    <3> QED  BY <3>1, <3>2, <3>3
  <2>3. \A w \in BOOLEAN : Ends(G, id, w) = Ends(F, id, w)
    BY <2>2 DEF Ends
  <2> QED  BY <1>2, <1>4, <1>7, <2>3
<1> QED  BY <1>6, <1>7

\* A child that inherits descriptors.
LEMMA InheritRefs ==
    ASSUME NEW F \in HeldTables, NEW P \in PipeTables, Refs(F, P), NEW slot \in Slots, F[slot] = new_stdio,
           NEW fds \in Tables, NEW a, NEW b, inherit_from(P, fds, a, b).ok
    PROVE  Refs([F EXCEPT ![slot] = inherit_from(P, fds, a, b).fds], inherit_from(P, fds, a, b).pipes)
<1> DEFINE keep0  == a = DEFAULT_FD
           keep1  == b = DEFAULT_FD
           ok0    == keep0 \/ can_clone_slot(P, fds, a)
           t0     == IF keep0 THEN new_stdio ELSE [new_stdio EXCEPT ![0] = fds[a]]
           pipes0 == IF keep0 THEN P ELSE clone_slot_pipes(P, fds[a])
           ok1    == keep1 \/ can_clone_slot(pipes0, fds, b)
           t1     == IF keep1 THEN t0 ELSE [t0 EXCEPT ![1] = fds[b]]
           pipes1 == IF keep1 THEN pipes0 ELSE clone_slot_pipes(pipes0, fds[b])
           h      == inherit_from(P, fds, a, b)
           F0     == [F EXCEPT ![slot] = t0]
           F1     == [F EXCEPT ![slot] = t1]
<1>0. {0, 1} \subseteq Fds /\ 0 # 1
  BY FdsNat
<1>1. ok0 => /\ pipes0 \in PipeTables /\ t0 \in Tables /\ Refs(F0, pipes0) /\ t0[1].kind # "Pipe"
  <2>1. CASE keep0
    <3>1. F0 = F
      BY <2>1 DEF HeldTables
    <3> HIDE DEF F0
    <3> QED  BY <1>0, <2>1, <3>1, StdioType, PlainKinds
  <2>2. CASE ~keep0 /\ ok0
    <3>1. fds[a] \in OpenFd /\ Clonable(P, fds[a]) /\ clone_slot_pipes(P, fds[a]) \in PipeTables
      BY <2>2, CanClone, CloneSlotType
    <3>2. F0 = [F EXCEPT ![slot] = [F[slot] EXCEPT ![0] = fds[a]]]
      BY <2>2
    <3>3. F[slot][0].kind # "Pipe"
      BY <1>0, PlainKinds
    <3>4. Refs(F0, clone_slot_pipes(P, fds[a]))
      <4> HIDE DEF F0
      <4> QED  BY <1>0, <3>1, <3>2, <3>3, TakeRef
    <3>5. t0 \in Tables /\ t0[1] = new_stdio[1]
      BY <1>0, <2>2, <3>1, StdioType DEF Tables
    <3> HIDE DEF F0
    <3> QED  BY <1>0, <2>2, <3>1, <3>4, <3>5, PlainKinds
  <2> QED  BY <2>1, <2>2
<1> HIDE DEF ok0, t0, pipes0
<1>2. ok0 /\ ok1 => Refs(F1, pipes1)
  <2>1. CASE keep1
    BY <1>1, <2>1
  <2>2. CASE ~keep1 /\ ok0 /\ ok1
    <3>1. fds[b] \in OpenFd /\ Clonable(pipes0, fds[b])
      BY <1>1, <2>2, CanClone
    <3>2. F0 \in HeldTables /\ F0[slot] = t0 /\ F1 = [F0 EXCEPT ![slot] = [F0[slot] EXCEPT ![1] = fds[b]]]
      BY <1>1, <2>2 DEF HeldTables
    <3>3. F0[slot][1].kind # "Pipe"
      BY <1>1, <2>2, <3>2
    <3> HIDE DEF F0, F1
    <3>4. Refs(F1, clone_slot_pipes(pipes0, fds[b]))
      BY <1>0, <1>1, <2>2, <3>1, <3>2, <3>3, TakeRef
    <3> QED  BY <2>2, <3>4
  <2> QED  BY <2>1, <2>2
<1> HIDE DEF ok1, t1, pipes1, F1
<1>3. h = IF ~ok0 THEN [ok |-> FALSE, fds |-> NoFds, pipes |-> P]
          ELSE IF ~ok1 THEN [ok |-> FALSE, fds |-> NoFds, pipes |-> close_all(pipes0, t0)]
          ELSE [ok |-> TRUE, fds |-> t1, pipes |-> pipes1]
  BY DEF inherit_from, ok0, t0, pipes0, ok1, t1, pipes1
<1>4. ok0 /\ ok1
  BY <1>3
<1>5. h.fds = t1 /\ h.pipes = pipes1
  BY <1>3, <1>4
<1> HIDE DEF h
<1> QED  BY <1>2, <1>4, <1>5 DEF h, F1

-----------------------------------------------------------------------------
(* The steps of the kernel.                                                *)

\* The processes' tables are descriptor tables.
LEMMA HeldType == CoreInv => Held(procs) \in HeldTables /\ \A s \in Slots : Held(procs)[s] = procs[s].fds
<1> SUFFICES ASSUME CoreInv PROVE Held(procs) \in HeldTables /\ \A s \in Slots : Held(procs)[s] = procs[s].fds
  OBVIOUS
<1>1. \A s \in Slots : procs[s] \in Pcb
  BY DEF CoreInv, TableOK
<1>2. \A s \in Slots : procs[s].fds \in Tables
  BY <1>1 DEF Pcb, Tables
<1> QED  BY <1>2 DEF Held, HeldTables

\* A step that changes no descriptor and no pipe.
LEMMA Untouched ==
    ASSUME RefInv, pipes' = pipes, \A s \in Slots : procs'[s].fds = procs[s].fds,
           \A s \in Slots : procs'[s].state = "None" => procs[s].state = "None"
    PROVE  RefInv'
<1>1. Held(procs') = Held(procs)
  BY DEF Held
<1>2. FreeHold'
  BY DEF RefInv, FreeHold
<1> QED  BY <1>1, <1>2 DEF RefInv

\* At most, blocked processes are woken.
LEMMA WokenRefs ==
    ASSUME RefInv, pipes' = pipes, Woken(procs, procs')
    PROVE  RefInv'
BY Untouched DEF Woken, WokenPcb, BlockedStates

\* The descriptors of the processes in S are closed.
LEMMA CloseRefs ==
    ASSUME CoreInv, RefInv, NEW S \in SUBSET Slots, pipes' = ClosedBy(S),
           \A s \in S : procs'[s].fds = NoFds,
           \A s \in Slots \ S : procs'[s].fds = procs[s].fds /\ (procs'[s].state = "None" => procs[s].state = "None")
    PROVE  RefInv'
<1> DEFINE F == Held(procs)
           G == Held(procs')
           X == S \X Fds
<1>1. F \in HeldTables /\ pipes \in PipeTables /\ Refs(F, pipes)
  BY HeldType DEF CoreInv, RestOK, RefInv
<1>2. \A s \in Slots : F[s] = procs[s].fds /\ G[s] = procs'[s].fds
  BY DEF Held
<1> HIDE DEF F, G
<1>3. GivenUp(F, G, X)
  BY <1>2, PlainKinds DEF GivenUp
<1>4. ASSUME NEW id \in PipeIds, NEW w \in BOOLEAN PROVE EndsOf(procs, S, id, w) = Ends(F, id, w) \cap X
  BY <1>2 DEF EndsOf, Ends
<1>5. Told(F, pipes, pipes', X)
  <2>1. ASSUME NEW id \in PipeIds
        PROVE  pipes'[id] = drop_ends(pipes[id], Cardinality(Ends(F, id, FALSE) \cap X),
                                                 Cardinality(Ends(F, id, TRUE) \cap X))
    <3>1. pipes'[id] = drop_ends(pipes[id], Cardinality(EndsOf(procs, S, id, FALSE)),
                                            Cardinality(EndsOf(procs, S, id, TRUE)))
      BY DEF ClosedBy
    <3>2. EndsOf(procs, S, id, FALSE) = Ends(F, id, FALSE) \cap X
      BY <1>4
    <3>3. EndsOf(procs, S, id, TRUE) = Ends(F, id, TRUE) \cap X
      BY <1>4
    <3> HIDE DEF X
    <3> QED  BY <3>1, <3>2, <3>3
  <2> HIDE DEF X
  <2> QED  BY <2>1 DEF Told
<1>6. X \in SUBSET (Slots \X Fds)
  OBVIOUS
<1> HIDE DEF X
<1>7. Refs(G, pipes')
  BY <1>1, <1>3, <1>5, <1>6, DropRefs
<1>8. FreeHold'
  BY DEF RefInv, FreeHold
<1> QED  BY <1>7, <1>8 DEF RefInv, G

\* The process that calls gets the descriptor table t.
LEMMA FdsRefs ==
    ASSUME CoreInv, RefInv, mode = "call", procs[current].state # "None", NEW t \in Tables,
           LET q == [procs EXCEPT ![current].fds = t] IN procs' = q \/ procs' = wake_pipe(q),
           Refs([Held(procs) EXCEPT ![current] = t], pipes')
    PROVE  RefInv'
<1> DEFINE p == procs[current]
           r == [p EXCEPT !.fds = t]
           q == [procs EXCEPT ![current] = r]
<1>0. current \in Slots /\ procs \in [Slots -> Pcb]
  BY DEF CoreInv, TableOK, RestOK, ControlOK, InProcess, ProcModes
<1>1. procs' = q \/ procs' = wake_pipe(q)
  OBVIOUS
<1>2. p \in Pcb
  BY <1>0
<1> HIDE DEF p
<1>3. r \in Pcb /\ r.state = p.state /\ r.fds = t
  BY <1>2 DEF Pcb, Tables
<1> HIDE DEF r
<1>4. q \in [Slots -> Pcb] /\ q[current] = r /\ \A s \in Slots : s # current => q[s] = procs[s]
  BY <1>0, <1>3
<1> HIDE DEF q
<1>5. Woken(q, procs')
  <2>1. PipeBlocked \in SUBSET BlockedStates
    BY DEF PipeBlocked, BlockedStates
  <2>2. Woken(q, wake_pipe(q))
    BY <1>4, <2>1, WakeFacts DEF wake_pipe, PipeBlocked
  <2> QED  BY <1>1, <2>2, WokenRefl
<1>6. \A s \in Slots : procs'[s].fds = q[s].fds /\ (procs'[s].state = "None" => q[s].state = "None")
  BY <1>5 DEF Woken, WokenPcb, BlockedStates
<1>7. procs'[current].fds = t /\ \A s \in Slots : s # current => procs'[s].fds = procs[s].fds
  BY <1>0, <1>3, <1>4, <1>6
<1>8. Held(procs') = [Held(procs) EXCEPT ![current] = t]
  BY <1>0, <1>7 DEF Held
<1>9. FreeHold'
  <2>1. \A s \in Slots : procs'[s].state = "None" => s # current /\ procs[s].state = "None"
    BY <1>0, <1>3, <1>4, <1>6 DEF p
  <2> QED  BY <1>7, <2>1 DEF FreeHold, RefInv
<1> QED  BY <1>8, <1>9 DEF RefInv

\* A new process in a free slot: its standard descriptors hold no end.
LEMMA FreeSlot ==
    ASSUME CoreInv, RefInv, free_slots(procs) # {}
    PROVE  LET slot == First(free_slots(procs)) IN
           /\ slot \in Slots /\ procs[slot].state = "None"
           /\ Refs([Held(procs) EXCEPT ![slot] = new_stdio], pipes)
<1> DEFINE slot == First(free_slots(procs))
           F == Held(procs)
           G == [F EXCEPT ![slot] = new_stdio]
<1>1. slot \in Slots /\ procs[slot].state = "None"
  BY FirstSlot DEF free_slots
<1> HIDE DEF slot
<1>2. F \in HeldTables /\ F[slot] = NoFds
  BY <1>1, HeldType DEF RefInv, FreeHold
<1>3. Refs(F, pipes)
  BY DEF RefInv
<1> HIDE DEF F
<1>4. G[slot] = new_stdio /\ \A s \in Slots : s # slot => G[s] = F[s]
  BY <1>1, <1>2 DEF HeldTables
<1> HIDE DEF G
<1>5. \A s \in Slots, fd \in Fds : G[s][fd] = F[s][fd] \/ (G[s][fd].kind # "Pipe" /\ F[s][fd].kind # "Pipe")
  BY <1>2, <1>4, PlainKinds
<1>6. Refs(G, pipes)
  BY <1>3, <1>5, EndsSame
<1> QED  BY <1>1, <1>6 DEF F, G, slot

\* A process with the descriptors fds is put into the first free slot.
LEMMA NewRefs ==
    ASSUME CoreInv, RefInv, free_slots(procs) # {}, NEW fds, NEW ps \in [Slots -> Pcb], NEW p,
           p.state # "None", p.fds = fds,
           ps = [procs EXCEPT ![First(free_slots(procs))] = p],
           \A s \in Slots : procs'[s].fds = ps[s].fds /\ procs'[s].state = ps[s].state,
           Refs([Held(procs) EXCEPT ![First(free_slots(procs))] = fds], pipes')
    PROVE  RefInv'
<1> DEFINE slot == First(free_slots(procs))
<1>1. slot \in Slots /\ ps = [procs EXCEPT ![slot] = p] /\ Refs([Held(procs) EXCEPT ![slot] = fds], pipes')
  BY FreeSlot
<1>2. procs \in [Slots -> Pcb]
  BY DEF CoreInv, TableOK
<1> HIDE DEF slot
<1>3. ps[slot] = p /\ \A s \in Slots : s # slot => ps[s] = procs[s]
  BY <1>1, <1>2
<1>4. Held(procs') = [Held(procs) EXCEPT ![slot] = fds]
  <2>1. procs'[slot].fds = fds /\ \A s \in Slots : s # slot => procs'[s].fds = procs[s].fds
    BY <1>1, <1>3
  <2> QED  BY <1>1, <2>1 DEF Held
<1>5. FreeHold'
  BY <1>3 DEF FreeHold, RefInv
<1> QED  BY <1>1, <1>4, <1>5 DEF RefInv

\* insert_pcb.
LEMMA InsertRefs ==
    ASSUME CoreInv, RefInv, NEW parent \in Pids, NEW fds \in Tables, insert_pcb(parent, fds),
           Refs([Held(procs) EXCEPT ![First(free_slots(procs))] = fds], pipes')
    PROVE  RefInv'
<1> DEFINE slot == First(free_slots(procs))
           p == new_pcb(next_pid, parent, fds, new_user_l4, "Runnable")
           q == [procs EXCEPT ![slot] = p]
<1>0. procs \in [Slots -> Pcb] /\ next_pid \in Pids /\ free_slots(procs) # {}
  BY SchedAssumption DEF CoreInv, TableOK, RestOK, insert_pcb, Pids
<1>1. slot \in Slots
  BY <1>0, FreeSlot
<1>2. p \in Pcb /\ p.state = "Runnable"
  BY <1>0, NewPcbType, NewL4Type DEF insert_pcb, States, CoreInv
<1>3. p.fds = fds
  BY NoPcbType DEF new_pcb, NoPcb
<1>4. procs' = note_child(q, parent, next_pid)
  BY DEF insert_pcb
<1> HIDE DEF p
<1>5. q \in [Slots -> Pcb]
  BY <1>0, <1>1, <1>2
<1>6. PICK ps \in [Slots -> Pcb] : ps = q
  BY <1>5
<1>7. \A s \in Slots : procs'[s].fds = ps[s].fds /\ procs'[s].state = ps[s].state
  <2>1. procs' = note_child(ps, parent, next_pid)
    BY <1>4, <1>6
  <2> HIDE DEF q
  <2> QED  BY <2>1, NoteFacts
<1> QED  BY <1>0, <1>2, <1>3, <1>6, <1>7, NewRefs

\* A process blocks, after some of the others were woken.
LEMMA YieldRefs ==
    ASSUME CoreInv, RefInv, mode \in ProcModes, NEW ps \in [Slots -> Pcb], Woken(procs, ps),
           NEW st \in BlockedStates, yield_block(ps, st), pipes' = pipes
    PROVE  RefInv'
<1> DEFINE p == ps[current]
           r == [p EXCEPT !.state = st, !.kcont = call]
<1>0. current \in Slots
  BY DEF CoreInv, RestOK, ControlOK, InProcess, ProcModes
<1>1. procs' = [ps EXCEPT ![current] = r] /\ p \in Pcb
  BY <1>0 DEF yield_block
<1> HIDE DEF p
<1>2. r.state = st /\ r.fds = p.fds
  BY <1>1 DEF Pcb
<1> HIDE DEF r
<1>3. procs'[current] = r /\ \A s \in Slots : s # current => procs'[s] = ps[s]
  BY <1>0, <1>1
<1>4. \A s \in Slots : ps[s].fds = procs[s].fds /\ (ps[s].state = "None" => procs[s].state = "None")
  BY DEF Woken, WokenPcb, BlockedStates
<1>5. procs'[current].fds = procs[current].fds /\ procs'[current].state # "None"
  BY <1>0, <1>2, <1>3, <1>4 DEF p, BlockedStates
<1>6. \A s \in Slots : procs'[s].fds = procs[s].fds
  BY <1>3, <1>4, <1>5
<1>7. \A s \in Slots : procs'[s].state = "None" => procs[s].state = "None"
  BY <1>3, <1>4, <1>5
<1> QED  BY <1>6, <1>7, Untouched

\* A key, or a Ctrl+C.
LEMMA KeyRefs ==
    ASSUME CoreInv, RefInv, NEW key, enqueue_or_kill(key)
    PROVE  RefInv'
<1>0. procs \in [Slots -> Pcb]
  BY DEF CoreInv, TableOK
<1>1. CASE kill_foreground
  <2> DEFINE v == First(victims)
             z == make_zombie(procs, v)
  <2>1. v \in Slots
    BY <1>1, FirstSlot DEF kill_foreground, victims, WithPid
  <2>2. procs' = WakeWaiter(z, procs[v].parent) /\ pipes' = ClosedBy({v})
    BY <1>1 DEF kill_foreground
  <2> HIDE DEF v
  <2>3. /\ z \in [Slots -> Pcb] /\ z[v].state = "Zombie" /\ z[v].fds = NoFds
        /\ \A s \in Slots \ {v} : WokenPcb(procs[s], z[s]) /\ z[s].fds = procs[s].fds
    BY <1>0, <2>1, ZombieFacts
  <2> HIDE DEF z
  <2>4. Woken(z, procs')
    BY <2>2, <2>3, WakeWaiterFacts
  <2>5. \A s \in {v} : procs'[s].fds = NoFds
    BY <2>1, <2>3, <2>4 DEF Woken
  <2>6. \A s \in Slots \ {v} : procs'[s].fds = procs[s].fds /\ (procs'[s].state = "None" => procs[s].state = "None")
    BY <2>3, <2>4 DEF Woken, WokenPcb, BlockedStates
  <2>7. {v} \in SUBSET Slots
    BY <2>1
  <2> QED  BY <2>2, <2>5, <2>6, <2>7, CloseRefs
<1>2. CASE enqueue_byte
  <2>1. {"BlockedStdin"} \in SUBSET BlockedStates
    BY DEF BlockedStates
  <2>2. Woken(procs, procs') /\ pipes' = pipes
    BY <1>0, <1>2, <2>1, WakeFacts DEF enqueue_byte, wake_stdin
  <2> QED  BY <2>2, WokenRefs
<1> QED  BY <1>1, <1>2 DEF enqueue_or_kill

\* A process ends, or the scheduler is left.
LEMMA ExitRefs ==
    ASSUME CoreInv, RefInv, mode \in {"user", "call"}, NEW outcome, user_exit(outcome)
    PROVE  RefInv'
<1>0. current \in Slots /\ procs \in [Slots -> Pcb]
  BY DEF CoreInv, TableOK, RestOK, ControlOK, InProcess, ProcModes
<1>1. CASE leave_scheduler(outcome)
  <2>1. pipes' = ClosedBy(Slots) /\ \A s \in Slots : procs'[s].fds = NoFds
    BY <1>1 DEF leave_scheduler, NoPcb
  <2> QED  BY <2>1, CloseRefs
<1>2. CASE procs' = wake_parent_of_slot(make_zombie(procs, current), current) /\ pipes' = ClosedBy({current})
  <2> DEFINE z == make_zombie(procs, current)
  <2>1. /\ z \in [Slots -> Pcb] /\ z[current].state = "Zombie" /\ z[current].fds = NoFds
        /\ \A s \in Slots \ {current} : WokenPcb(procs[s], z[s]) /\ z[s].fds = procs[s].fds
    BY <1>0, ZombieFacts
  <2>2. procs' = z \/ procs' = WakeWaiter(z, z[current].parent)
    BY <1>2 DEF wake_parent_of_slot
  <2> HIDE DEF z
  <2>3. Woken(z, procs')
    BY <2>1, <2>2, WokenRefl, WakeWaiterFacts
  <2>4. \A s \in {current} : procs'[s].fds = NoFds
    BY <1>0, <2>1, <2>3 DEF Woken
  <2>5. \A s \in Slots \ {current} : procs'[s].fds = procs[s].fds /\ (procs'[s].state = "None" => procs[s].state = "None")
    BY <2>1, <2>3 DEF Woken, WokenPcb, BlockedStates
  <2>6. {current} \in SUBSET Slots
    BY <1>0
  <2> QED  BY <1>2, <2>4, <2>5, <2>6, CloseRefs
<1> QED  BY <1>1, <1>2 DEF user_exit

\* kmain runs a program, or cannot.
LEMMA RunRefs ==
    ASSUME CoreInv, RefInv, NEW excl, run_with(excl) \/ run_with_fails(excl), pipes' = pipes
    PROVE  RefInv'
<1>1. CASE run_with(excl)
  <2> DEFINE slot == First(free_slots(procs))
             p == new_pcb(1, 0, new_stdio, new_user_l4, "Running")
             q == [procs EXCEPT ![slot] = p]
  <2>1. free_slots(procs) # {} /\ procs' = q
    BY <1>1 DEF run_with
  <2>2. slot \in Slots /\ Refs([Held(procs) EXCEPT ![slot] = new_stdio], pipes')
    BY <2>1, FreeSlot
  <2>3. p.state = "Running" /\ p.fds = new_stdio
    BY DEF new_pcb, NoPcb
  <2>4. procs \in [Slots -> Pcb]
    BY DEF CoreInv, TableOK
  <2>5. p \in Pcb
    BY <2>1, SchedAssumption, StdioType, NewPcbType, NewL4Type DEF States, CoreInv, Pids
  <2> HIDE DEF p
  <2>6. q \in [Slots -> Pcb]
    BY <2>2, <2>4, <2>5
  <2>7. PICK ps \in [Slots -> Pcb] : ps = q
    BY <2>6
  <2>8. \A s \in Slots : procs'[s].fds = ps[s].fds /\ procs'[s].state = ps[s].state
    BY <2>1, <2>7
  <2> QED  BY <2>1, <2>2, <2>3, <2>7, <2>8, NewRefs
<1>2. CASE run_with_fails(excl)
  BY <1>2, Untouched DEF run_with_fails
<1> QED  BY <1>1, <1>2

\* A process is switched to.
LEMMA SwitchRefs ==
    ASSUME CoreInv, RefInv, SchedPick \/ TimerUser
    PROVE  RefInv'
<1>1. ASSUME NEW v \in Slots, Resumes(v) PROVE RefInv'
  <2>1. \A s \in Slots : procs'[s].fds = procs[s].fds /\ (procs'[s].state = "None" => procs[s].state = "None")
    BY <1>1 DEF Resumes, Parked
  <2> QED  BY <1>1, <2>1, Untouched DEF Resumes
<1>2. CASE TimerUser /\ procs[current].state \in {"None", "Zombie"}
  BY <1>2, Untouched DEF TimerUser
<1> QED  BY <1>1, <1>2, Switches

\* Dead processes leave the table.
LEMMA ReapRefs ==
    ASSUME CoreInv, RefInv, PollReap \/ WaitReap
    PROVE  RefInv'
<1>0. procs \in [Slots -> Pcb]
  BY DEF CoreInv, TableOK
<1>1. PICK S \in SUBSET Slots : /\ procs' = [s \in Slots |-> IF s \in S THEN NoPcb ELSE procs[s]]
                                /\ pipes' = ClosedBy(S)
  <2>1. CASE PollReap
    <3>1. orphans \in SUBSET Slots
      BY DEF orphans
    <3> QED  BY <2>1, <3>1 DEF PollReap
  <2>2. CASE WaitReap
    <3> DEFINE i == First(dead_children)
    <3>1. i \in Slots
      BY <2>2, FirstSlot DEF WaitReap, dead_children
    <3>2. procs' = [procs EXCEPT ![i] = NoPcb] /\ pipes' = ClosedBy({i})
      BY <2>2 DEF WaitReap
    <3> HIDE DEF i
    <3>3. procs' = [s \in Slots |-> IF s \in {i} THEN NoPcb ELSE procs[s]] /\ {i} \in SUBSET Slots
      BY <1>0, <3>1, <3>2
    <3> QED  BY <3>2, <3>3
  <2> QED  BY <2>1, <2>2
<1>2. \A s \in S : procs'[s].fds = NoFds
  BY <1>1 DEF NoPcb
<1>3. \A s \in Slots \ S : procs'[s].fds = procs[s].fds /\ (procs'[s].state = "None" => procs[s].state = "None")
  BY <1>1
<1> QED  BY <1>1, <1>2, <1>3, CloseRefs

\* A process is killed by its parent.
LEMMA KillRefs ==
    ASSUME CoreInv, RefInv, NEW pid, SysKill(pid)
    PROVE  RefInv'
<1> DEFINE v == First(WithPid(procs, pid))
           z == make_zombie(procs, v)
<1>1. v \in Slots /\ procs' = z /\ pipes' = ClosedBy({v})
  BY FirstSlot DEF SysKill, WithPid
<1>2. procs \in [Slots -> Pcb]
  BY DEF CoreInv, TableOK
<1> HIDE DEF v
<1>3. /\ z[v].state = "Zombie" /\ z[v].fds = NoFds
      /\ \A s \in Slots \ {v} : WokenPcb(procs[s], z[s]) /\ z[s].fds = procs[s].fds
  BY <1>1, <1>2, ZombieFacts
<1> HIDE DEF z
<1>4. \A s \in Slots \ {v} : procs'[s].fds = procs[s].fds /\ (procs'[s].state = "None" => procs[s].state = "None")
  BY <1>1, <1>3 DEF WokenPcb, BlockedStates
<1>5. {v} \in SUBSET Slots /\ \A s \in {v} : procs'[s].fds = NoFds
  BY <1>1, <1>3
<1> QED  BY <1>1, <1>4, <1>5, CloseRefs

\* spawn, and a spawn that fails.
LEMMA SpawnRefs ==
    ASSUME CoreInv, RefInv, NEW a, NEW b, SysSpawn(a, b) \/ SysSpawnFails(a, b)
    PROVE  RefInv'
<1> DEFINE pid == procs[current].pid
           inh == child_fds(pid, a, b)
           par == First(WithPid(procs, pid))
           slot == First(free_slots(procs))
           F == [Held(procs) EXCEPT ![slot] = new_stdio]
<1>c. procs \in [Slots -> Pcb] /\ pipes \in PipeTables /\ Refs(Held(procs), pipes)
  BY DEF CoreInv, TableOK, RestOK, RefInv
<1>m. mode = "call" /\ current \in Slots
  BY DEF SysSpawn, SysSpawnFails, Asked, CoreInv, RestOK, ControlOK, InProcess, ProcModes
<1>1. pid \in Pids
  BY <1>c, <1>m DEF Pcb
<1>2. pid # 0 => inh = inherit_from(pipes, procs[par].fds, a, b) /\ procs[par].fds \in Tables
  <2> SUFFICES ASSUME pid # 0 PROVE inh = inherit_from(pipes, procs[par].fds, a, b) /\ procs[par].fds \in Tables
    OBVIOUS
  <2>1. current \in WithPid(procs, pid)
    BY <1>m DEF CoreInv, WithPid, TableOK
  <2>2. par \in Slots
    BY <2>1, FirstSlot DEF WithPid
  <2>3. procs[par].fds \in Tables
    BY <2>2, <1>c DEF Pcb, Tables
  <2> QED  BY <2>3 DEF child_fds
<1>3. pid = 0 => inh = [ok |-> TRUE, fds |-> new_stdio, pipes |-> pipes]
  BY DEF child_fds
<1>4. CASE SysSpawn(a, b)
  <2>1. insert_pcb(pid, inh.fds) /\ pipes' = inh.pipes /\ inh.ok
    BY <1>4 DEF SysSpawn
  <2>2. free_slots(procs) # {}
    BY <2>1 DEF insert_pcb
  <2>3. slot \in Slots /\ Refs(F, pipes)
    BY <2>2, FreeSlot
  <2> HIDE DEF inh, slot, par, pid
  <2>4. F \in HeldTables /\ F[slot] = new_stdio
    BY <2>3, HeldType, StdioType DEF HeldTables
  <2>5. inh.fds \in Tables
    BY <1>c, <1>2, <1>3, StdioType, InheritType
  <2>6. \A t : [F EXCEPT ![slot] = t] = [Held(procs) EXCEPT ![slot] = t]
    BY <2>3 DEF Held
  <2> HIDE DEF F
  <2>7. Refs([F EXCEPT ![slot] = inh.fds], inh.pipes)
    <3>1. CASE pid = 0
      <4>1. [F EXCEPT ![slot] = new_stdio] = F
        BY <2>3, <2>4 DEF HeldTables
      <4> QED  BY <1>3, <2>3, <3>1, <4>1
    <3>2. CASE pid # 0
      BY <1>c, <1>2, <2>1, <2>3, <2>4, <3>2, InheritRefs
    <3> QED  BY <3>1, <3>2
  <2>8. Refs([Held(procs) EXCEPT ![slot] = inh.fds], pipes')
    BY <2>1, <2>6, <2>7
  <2> QED  BY <1>1, <2>1, <2>5, <2>8, InsertRefs DEF slot
<1>5. CASE SysSpawnFails(a, b)
  <2>1. procs' = procs /\ (pipes' = pipes \/ (pipes' = inh.pipes /\ ~inh.ok))
    BY <1>5 DEF SysSpawnFails, table
  <2>2. CASE pipes' = pipes
    BY <2>1, <2>2, Untouched
  <2>3. CASE pipes' = inh.pipes /\ ~inh.ok
    <3>1. pid # 0
      BY <1>3, <2>3
    <3> HIDE DEF inh, par, pid
    <3>2. \A id \in PipeIds : pipes'[id] = pipes[id]
                               \/ (pipes'[id] = empty /\ pipes[id].n_readers = 0 /\ pipes[id].n_writers = 0)
      BY <1>c, <1>2, <2>3, <3>1, InheritPipes
    <3>3. \A id \in PipeIds : pipes'[id] = pipes[id]
      <4> SUFFICES ASSUME NEW id \in PipeIds, pipes[id].n_readers = 0, pipes[id].n_writers = 0
                   PROVE  pipes[id] = empty
        BY <3>2
      <4> DEFINE A == Ends(Held(procs), id, FALSE)
                 B == Ends(Held(procs), id, TRUE)
      <4>1. Counted(pipes[id], A, B)
        BY <1>c DEF Refs
      <4>2. A \in SUBSET (Slots \X Fds) /\ B \in SUBSET (Slots \X Fds)
        BY EndsAre
      <4> HIDE DEF A, B
      <4>3. A = {} /\ B = {}
        BY <4>1, <4>2, EndsFinite DEF Counted
      <4> QED  BY <4>1, <4>3 DEF Counted
    <3>4. Refs(Held(procs'), pipes')
      BY <1>c, <2>1, <3>3 DEF Refs
    <3> QED  BY <2>1, <3>4 DEF RefInv, FreeHold
  <2> QED  BY <2>1, <2>2, <2>3
<1> QED  BY <1>4, <1>5

\* Calls about descriptors.
LEMMA DescriptorRefs ==
    ASSUME CoreInv, RefInv
    PROVE  /\ SysPipe \/ SysPipeFails => RefInv'
           /\ \A k \in {"File", "Dir"} : SysOpen(k) => RefInv'
           /\ \A fd \in Fds : SysClose(fd) => RefInv'
<1> DEFINE F == Held(procs)
           t == my_fds
<1>c. procs \in [Slots -> Pcb] /\ pipes \in PipeTables /\ Refs(F, pipes) /\ F \in HeldTables
  BY HeldType DEF CoreInv, TableOK, RestOK, RefInv
<1>m. mode = "call" => current \in Slots /\ t \in Tables /\ F[current] = t
  BY <1>c, HeldType, MyFds DEF CoreInv, RestOK, ControlOK, InProcess, ProcModes, my_fds
<1>f. \A u \in Tables : free_fds(u) # {} => First(free_fds(u)) \in Fds /\ u[First(free_fds(u))] = Closed
  BY FdsNat, FirstIsLeast DEF free_fds
<1>p. pipe_free(pipes) # {} => First(pipe_free(pipes)) \in PipeIds /\ ~pipes[First(pipe_free(pipes))].used
  BY PipeIdsNat, FirstIsLeast DEF pipe_free
<1>1. CASE SysPipe
  <2> DEFINE id == First(pipe_free(pipes))
             f1 == First(free_fds(t))
             t1 == fd_alloc(t, PipeEnd(id, FALSE))
             f2 == First(free_fds(t1))
             t2 == fd_alloc(t1, PipeEnd(id, TRUE))
  <2>1. /\ mode = "call" /\ procs[current].state # "None"
        /\ Cardinality(free_fds(t)) >= 2 /\ pipe_free(pipes) # {}
        /\ pipes' = [pipes EXCEPT ![id] = [empty EXCEPT !.used = TRUE, !.n_readers = 1, !.n_writers = 1]]
        /\ procs' = [procs EXCEPT ![current].fds = t2]
    BY <1>1, <1>c DEF SysPipe, Dispatch, Asked, pipe_alloc, my_fds
  <2>2. current \in Slots /\ t \in Tables /\ F[current] = t /\ id \in PipeIds /\ ~pipes[id].used
    BY <1>m, <1>p, <2>1
  <2> HIDE DEF id, t
  <2>3. IsFiniteSet(free_fds(t))
    BY FdsNat, FS_Subset DEF free_fds
  <2>4. free_fds(t) # {}
    BY <2>1, FS_EmptySet
  <2>5. f1 \in Fds /\ t[f1] = Closed
    BY <1>f, <2>2, <2>4
  <2>6. t1 = [t EXCEPT ![f1] = PipeEnd(id, FALSE)]
    BY DEF fd_alloc
  <2>o. PipeEnd(id, FALSE) \in OpenFd /\ PipeEnd(id, TRUE) \in OpenFd /\ PipeEnd(id, FALSE) # Closed
    BY <2>2, PipeEndOpen DEF PipeEnd, Closed, Plain
  <2> HIDE DEF f1
  <2>7. t1 \in Tables /\ t1[f1] = PipeEnd(id, FALSE) /\ \A fd \in Fds : fd # f1 => t1[fd] = t[fd]
    BY <2>2, <2>5, <2>6, <2>o DEF Tables
  <2> HIDE DEF t1
  <2>8. free_fds(t1) # {}
    <3>1. free_fds(t1) = free_fds(t) \ {f1}
      BY <2>5, <2>7, <2>o DEF free_fds
    <3>2. Cardinality(free_fds(t) \ {f1}) = Cardinality(free_fds(t)) - 1
      BY <2>3, <2>5, FS_RemoveElement DEF free_fds
    <3>3. Cardinality(free_fds(t)) \in Nat
      BY <2>3, FS_CardinalityType
    <3> QED  BY <2>1, <3>1, <3>2, <3>3, FS_EmptySet
  <2>9. f2 \in Fds /\ t1[f2] = Closed
    BY <1>f, <2>7, <2>8
  <2>10. t2 = [t1 EXCEPT ![f2] = PipeEnd(id, TRUE)]
    BY DEF fd_alloc
  <2> HIDE DEF f2
  <2>11. f1 # f2 /\ t[f2] = Closed
    BY <2>7, <2>9, <2>o
  <2>12. t2 \in Tables
    BY <2>7, <2>9, <2>10, <2>o DEF Tables
  <2>13. t2 = [[t EXCEPT ![f1] = PipeEnd(id, FALSE)] EXCEPT ![f2] = PipeEnd(id, TRUE)]
    BY <2>6, <2>10
  <2> HIDE DEF t2, F
  <2>14. Refs([F EXCEPT ![current] = t2], pipes')
    BY <1>c, <2>1, <2>2, <2>5, <2>9, <2>11, <2>13, PipeRef
  <2> QED  BY <2>1, <2>12, <2>14, FdsRefs DEF F
<1>2. CASE SysPipeFails
  <2> DEFINE id == First(pipe_free(pipes))
             p == [empty EXCEPT !.used = TRUE, !.n_readers = 1, !.n_writers = 1]
  <2>1. /\ procs' = procs /\ pipe_free(pipes) # {}
        /\ pipes' = [[pipes EXCEPT ![id] = p] EXCEPT ![id] = drop_end(drop_end(p, FALSE), TRUE)]
    BY <1>2, <1>c, <1>p DEF SysPipeFails, table, pipe_alloc, PipeTables
  <2>2. id \in PipeIds /\ ~pipes[id].used
    BY <1>p, <2>1
  <2> HIDE DEF id
  <2>3. drop_end(drop_end(p, FALSE), TRUE) = empty
    <3>1. p.used /\ p.n_readers = 1 /\ p.n_writers = 1
      BY DEF empty
    <3>2. PICK q : q = [p EXCEPT !.n_readers = 0, !.n_writers = 1]
      OBVIOUS
    <3>3. q.used /\ q.n_readers = 0 /\ q.n_writers = 1
      BY <3>2 DEF empty
    <3> HIDE DEF p
    <3>4. drop_end(p, FALSE) = q
      BY <3>1, <3>2 DEF drop_end, drop_ends, saturating_sub
    <3>5. drop_end(q, TRUE) = empty
      BY <3>3 DEF drop_end, drop_ends, saturating_sub
    <3> QED  BY <3>4, <3>5, Zenon
  <2>4. pipes[id] = empty
    BY <1>c, <2>2 DEF Refs, Counted
  <2> HIDE DEF p
  <2>5. pipes' = pipes
    BY <1>c, <2>1, <2>2, <2>3, <2>4 DEF PipeTables
  <2> QED  BY <2>1, <2>5, Untouched
<1>3. ASSUME NEW k \in {"File", "Dir"}, SysOpen(k) PROVE RefInv'
  <2> DEFINE f1 == First(free_fds(t))
             t1 == fd_alloc(t, Plain(k))
  <2>1. /\ mode = "call" /\ procs[current].state # "None" /\ pipes' = pipes /\ free_fds(t) # {}
        /\ procs' = [procs EXCEPT ![current].fds = t1]
    BY <1>3 DEF SysOpen, Dispatch, Asked, my_fds
  <2>2. current \in Slots /\ t \in Tables /\ F[current] = t
    BY <1>m, <2>1
  <2> HIDE DEF t, F
  <2>3. f1 \in Fds /\ t[f1] = Closed /\ t1 = [F[current] EXCEPT ![f1] = Plain(k)]
    BY <1>f, <2>1, <2>2 DEF fd_alloc
  <2> HIDE DEF f1
  <2>4. Plain(k) \in OpenFd /\ Plain(k).kind # "Pipe" /\ F[current][f1].kind # "Pipe"
    BY <2>2, <2>3, PlainOpen, PlainKinds
  <2>5. Clonable(pipes, Plain(k)) /\ clone_slot_pipes(pipes, Plain(k)) = pipes
    BY <2>4 DEF Clonable, clone_slot_pipes
  <2>6. t1 \in Tables
    BY <2>2, <2>4, FdAllocType
  <2> HIDE DEF t1
  <2>7. Refs([F EXCEPT ![current] = t1], pipes')
    BY <1>c, <2>1, <2>2, <2>3, <2>4, <2>5, TakeRef
  <2> QED  BY <2>1, <2>6, <2>7, FdsRefs DEF F
<1>4. ASSUME NEW fd \in Fds, SysClose(fd) PROVE RefInv'
  <2> DEFINE t1 == [t EXCEPT ![fd] = Closed]
  <2>1. /\ mode = "call" /\ procs[current].state # "None" /\ pipes' = drop_open(pipes, t[fd])
    BY <1>4 DEF SysClose, Dispatch, Asked
  <2>2. current \in Slots /\ t \in Tables /\ F[current] = t
    BY <1>m, <2>1
  <2>3. procs' = wake_pipe([procs EXCEPT ![current].fds = t1])
    BY <1>4, <1>c, <2>2 DEF SysClose, my_fds
  <2> HIDE DEF t, F
  <2>4. t1 \in Tables
    BY <2>2, PlainOpen DEF Tables, Closed
  <2>5. Refs([F EXCEPT ![current] = t1], pipes')
    BY <1>c, <2>1, <2>2, DropRef
  <2> HIDE DEF t1
  <2> QED  BY <2>1, <2>3, <2>4, <2>5, FdsRefs DEF F
<1> QED  BY <1>1, <1>2, <1>3, <1>4

\* Bytes are moved: the counts stay, and a pipe that is not in use is not written.
LEMMA MoveRefs ==
    ASSUME CoreInv, RefInv, ReadPipe \/ WritePipe
    PROVE  RefInv'
<1>c. procs \in [Slots -> Pcb] /\ pipes \in PipeTables /\ call.id \in PipeIds /\ mode = "call" /\ mode \in ProcModes
  BY DEF CoreInv, TableOK, RestOK, ReadPipe, WritePipe, InCall, Call, ProcModes
<1>w. /\ wake_pipe(procs) \in [Slots -> Pcb] /\ Woken(procs, wake_pipe(procs))
  <2>1. PipeBlocked \in SUBSET BlockedStates /\ wake_pipe(procs) = Wake(procs, PipeBlocked)
    BY DEF PipeBlocked, BlockedStates, wake_pipe
  <2>2. TableOK(wake_pipe(procs), current)
    BY WakeOK DEF wake_pipe, CoreInv
  <2> QED  BY <1>c, <2>1, <2>2, WakeFacts DEF TableOK
<1>1. ASSUME NEW q, q.used = pipes[call.id].used, q.n_readers = pipes[call.id].n_readers,
             q.n_writers = pipes[call.id].n_writers, pipes[call.id].used,
             pipes' = [pipes EXCEPT ![call.id] = q], procs' = wake_pipe(procs)
      PROVE  RefInv'
  <2>1. \A s \in Slots : procs'[s].fds = procs[s].fds /\ (procs'[s].state = "None" => procs[s].state = "None")
    BY <1>1, <1>w DEF Woken, WokenPcb, BlockedStates
  <2>2. Held(procs') = Held(procs)
    BY <2>1 DEF Held
  <2>3. pipes'[call.id] = q /\ \A id \in PipeIds : id # call.id => pipes'[id] = pipes[id]
    BY <1>1, <1>c DEF PipeTables
  <2>4. Refs(Held(procs), pipes')
    BY <1>1, <2>3 DEF Refs, Counted, RefInv
  <2> QED  BY <2>1, <2>2, <2>4 DEF RefInv, FreeHold
<1>2. CASE ReadPipe
  <2>1. CASE /\ read_result(pipes[call.id]) = "Data" /\ procs' = wake_pipe(procs)
             /\ pipes' = [pipes EXCEPT ![call.id] = read_pipe_buf(@, call.n)]
    <3> DEFINE p == pipes[call.id]
               q == read_pipe_buf(p, call.n)
    <3>1. p \in PipeRec /\ p.used
      BY <1>c, <2>1 DEF PipeTables, read_result
    <3> HIDE DEF p
    <3>2. q.used = p.used /\ q.n_readers = p.n_readers /\ q.n_writers = p.n_writers
      BY <3>1 DEF read_pipe_buf, PipeRec
    <3>3. pipes' = [pipes EXCEPT ![call.id] = q]
      BY <2>1 DEF p
    <3> HIDE DEF q
    <3> QED  BY <1>1, <2>1, <3>1, <3>2, <3>3 DEF p
  <2>2. CASE UNCHANGED <<pipes, procs>>
    BY <2>2, Untouched
  <2>3. CASE yield_block(wake_pipe(procs), "BlockedPipeRead") /\ UNCHANGED pipes
    BY <1>c, <1>w, <2>3, YieldRefs DEF BlockedStates
  <2> QED  BY <1>2, <2>1, <2>2, <2>3 DEF ReadPipe
<1>3. CASE WritePipe
  <2>1. CASE /\ write_result(pipes[call.id]) = "Data" /\ procs' = wake_pipe(procs)
             /\ pipes' = [pipes EXCEPT ![call.id] = write_pipe_buf(@, [i \in 1 .. call.n |-> ZeroByte])]
    <3> DEFINE p == pipes[call.id]
               src == [i \in 1 .. call.n |-> ZeroByte]
               q == write_pipe_buf(p, src)
    <3>1. p \in PipeRec /\ p.used
      BY <1>c, <2>1 DEF PipeTables, write_result
    <3> HIDE DEF p, src
    <3>2. q.used = p.used /\ q.n_readers = p.n_readers /\ q.n_writers = p.n_writers
      BY <3>1 DEF write_pipe_buf, PipeRec
    <3>3. pipes' = [pipes EXCEPT ![call.id] = q]
      BY <2>1 DEF p, src
    <3> HIDE DEF q
    <3> QED  BY <1>1, <2>1, <3>1, <3>2, <3>3 DEF p
  <2>2. CASE UNCHANGED <<pipes, procs>>
    BY <2>2, Untouched
  <2>3. CASE yield_block(wake_pipe(procs), "BlockedPipeWrite") /\ UNCHANGED pipes
    BY <1>c, <1>w, <2>3, YieldRefs DEF BlockedStates
  <2> QED  BY <1>3, <2>1, <2>2, <2>3 DEF WritePipe
<1> QED  BY <1>2, <1>3

\* RefInv is inductive.
LEMMA NextRefs == CoreInv /\ RefInv /\ [Next]_vars => RefInv'
<1> SUFFICES ASSUME CoreInv, RefInv, [Next]_vars PROVE RefInv'
  OBVIOUS
<1>0. procs \in [Slots -> Pcb] /\ Woken(procs, procs)
  BY WokenRefl DEF CoreInv, TableOK
<1>1. CASE UNCHANGED <<procs, pipes>>
  BY <1>1, Untouched
<1>2. CASE WaitBlock \/ StdinBlock
  <2>1. PICK st \in {"BlockedWait", "BlockedStdin"} : yield_block(procs, st)
    BY <1>2 DEF WaitBlock, StdinBlock
  <2>2. mode \in ProcModes /\ pipes' = pipes /\ st \in BlockedStates
    BY <1>2 DEF WaitBlock, StdinBlock, InCall, ProcModes, BlockedStates
  <2> QED  BY <1>0, <2>1, <2>2, YieldRefs
<1>3. CASE Panic \/ PollStep \/ SchedStep \/ WaitStep \/ StdinStep
  BY <1>1, <1>2, <1>3, SwitchRefs, ReapRefs
     DEF Panic, PollStep, PollDone, SchedStep, SchedIdle, WaitStep, WaitNone, StdinStep, StdinByte, StdinPoll,
         StdinHalt, table
<1>4. CASE KmainStep
  <2>1. pipes' = pipes
    BY <1>4 DEF KmainStep, HostRunInit, HostGiveUp, KshellByte, KshellPoll
  <2>2. \/ procs' = procs
        \/ \E excl \in BOOLEAN : run_with(excl) \/ run_with_fails(excl)
    BY <1>4 DEF KmainStep, HostRunInit, HostGiveUp, KshellByte, KshellPoll, table
  <2> QED  BY <1>1, <2>1, <2>2, RunRefs
<1>5. CASE SysOther \/ SysWait \/ SysWinCreate \/ \E fd \in Fds, n \in Lens : SysRead(fd, n) \/ SysWrite(fd, n)
  <2>1. ASSUME NEW op, NEW id, NEW n, Enter(op, id, n) PROVE UNCHANGED <<procs, pipes>>
    BY <2>1 DEF Enter, table
  <2>2. SysOther \/ SysWinCreate => UNCHANGED <<procs, pipes>>
    BY DEF SysOther, SysWinCreate, table
  <2>3. UNCHANGED <<procs, pipes>>
    BY <1>5, <2>1, <2>2 DEF SysWait, SysRead, SysWrite
  <2> QED  BY <1>1, <2>3
<1>6. CASE SysExit \/ UserFault
  BY <1>6, ExitRefs DEF SysExit, Dispatch, Asked, UserFault, may_fault
<1>7. CASE DispatchStep
  BY <1>5, <1>6, <1>7, SpawnRefs, KillRefs, DescriptorRefs DEF DispatchStep
<1>8. CASE UserStep
  <2>1. ASSUME NEW rsp, Syscall(rsp) PROVE UNCHANGED <<procs, pipes>>
    BY <2>1 DEF Syscall, table
  <2> QED  BY <1>1, <1>6, <1>8, <2>1 DEF UserStep
<1>9. CASE Timer
  BY <1>1, <1>9, SwitchRefs DEF Timer, TimerKernel, table
<1>10. CASE InputStep
  <2>1. CASE PollLaunch
    <3>1. insert_pcb(0, new_stdio) /\ pipes' = pipes
      BY <2>1 DEF PollLaunch
    <3>2. Refs([Held(procs) EXCEPT ![First(free_slots(procs))] = new_stdio], pipes')
      BY <3>1, FreeSlot DEF insert_pcb
    <3>3. 0 \in Pids
      BY SchedAssumption DEF Pids
    <3> QED  BY <3>1, <3>2, <3>3, StdioType, InsertRefs
  <2> QED  BY <1>1, <1>10, <2>1, KeyRefs DEF InputStep, KeyIrq, PollKey, PollCloseFrame, table
<1> QED  BY <1>1, <1>3, <1>4, <1>7, <1>8, <1>9, <1>10, MoveRefs DEF Next, KernelStep, vars

\* The end counters of every pipe equal the descriptors that hold its ends, whatever
\* processes spawn, close, exit, kill and reap, and whichever calls fail; a pipe that
\* nobody holds is free and clean.
THEOREM SchedPipeRefs == Spec => []PipeRefs
<1>1. Init => RefInv
  <2> SUFFICES ASSUME Init PROVE RefInv
    OBVIOUS
  <2>1. \A s \in Slots : procs[s].fds = NoFds
    BY DEF Init, NoPcb
  <2>2. \A id \in PipeIds, w \in BOOLEAN : Ends(Held(procs), id, w) = {}
    BY <2>1, PlainKinds DEF Ends, Held, PipeEnd
  <2>3. Refs(Held(procs), pipes)
    BY <2>2, EmptyCounted DEF Init, Refs
  <2> QED  BY <2>1, <2>3 DEF RefInv, FreeHold
<1>2. RefInv => PipeRefs
  <2> SUFFICES ASSUME RefInv, NEW id \in PipeIds
               PROVE  /\ pipes[id].n_readers = Cardinality(EndsOf(procs, Slots, id, FALSE))
                      /\ pipes[id].n_writers = Cardinality(EndsOf(procs, Slots, id, TRUE))
                      /\ pipes[id].used <=> \E w \in BOOLEAN : EndsOf(procs, Slots, id, w) # {}
                      /\ ~pipes[id].used => pipes[id] = empty
    BY DEF PipeRefs
  <2>1. ASSUME NEW w PROVE EndsOf(procs, Slots, id, w) = Ends(Held(procs), id, w)
    BY DEF EndsOf, Ends, Held
  <2>2. Counted(pipes[id], EndsOf(procs, Slots, id, FALSE), EndsOf(procs, Slots, id, TRUE))
    BY <2>1 DEF RefInv, Refs
  <2> QED  BY <2>2 DEF Counted
<1>3. CoreInv /\ RefInv /\ [Next]_vars => RefInv'
  BY NextRefs
<1> QED  BY <1>1, <1>2, <1>3, CoreHolds, PTL DEF Spec

=============================================================================
