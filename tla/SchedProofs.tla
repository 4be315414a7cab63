---------------------------- MODULE SchedProofs ----------------------------
(***************************************************************************)
(* Proofs about Sched, for every number of processes, pipes, descriptors   *)
(* and keys: the type invariant, and that the running process is the       *)
(* current one.  Both rest on one inductive invariant, CoreInv.            *)
(***************************************************************************)
EXTENDS SchedProps, PipeProofs

\* A well-formed process table whose running process, if any, is c.  An empty
\* slot has no pid and owns no page table, so a free slot means a free table.
TableOK(ps, c) ==
    /\ ps \in [Slots -> Pcb]
    /\ \A s \in Slots : ps[s].state = "None" => ps[s].l4 = 0 /\ ps[s].pid = 0
    /\ \A s \in Slots : ps[s].state = "Running" => s = c

RestOK ==
    /\ current \in Slots \cup {None}
    /\ next_pid \in 1 .. PID_MAX + 1
    /\ exclusive \in BOOLEAN
    /\ init_pid \in Pids
    /\ pipes \in PipeTables
    /\ wins \in [WinIds -> Pids]
    /\ queue \in 0 .. QUEUE_CAP - 1
    /\ cr3 \in L4s
    /\ cpu_rsp \in Rsps \cup {0}
    /\ call \in Call

\* Where the CPU is: comp::poll knows where it returns to, the CPU works for a
\* process only when there is a current one, and kmain runs when there is none.
ControlOK ==
    /\ mode \in Modes
    /\ after \in {"none", "call", "stdin", "hlt", "kshell"}
    /\ mode \in {"poll", "event"} <=> after # "none"
    /\ InProcess => current # None
    /\ mode \in {"host", "kshell"} \/ after = "kshell" => current = None

CoreInv == TableOK(procs, current) /\ RestOK /\ ControlOK

\* Slots are numbers, finitely many but not none; "no slot" is not one of them.
LEMMA SlotsNat == Slots \subseteq Nat /\ Slots # {} /\ None \notin Slots /\ IsFiniteSet(Slots)
<1>1. IsFiniteSet(Slots)
  BY FS_Interval, SchedAssumption DEF Slots
<1> QED
  BY <1>1, SchedAssumption DEF Slots, None

\* The call record of a process that is not in a call is well-formed.
LEMMA NoCallType == NoCall \in Call
BY PipeIdsNat DEF NoCall, Call, CallOps

\* A free slot is well-formed, and it has neither pid nor page table.
LEMMA NoPcbType == NoPcb \in Pcb /\ NoPcb.state = "None" /\ NoPcb.l4 = 0 /\ NoPcb.pid = 0
BY NoCallType, StdioType, SchedAssumption DEF NoPcb, Pcb, Pids, L4s, States, Tables

-----------------------------------------------------------------------------
(* Changes of the table.                                                   *)

\* A PCB with one field assigned is a PCB.
LEMMA FieldType ==
    ASSUME NEW p \in Pcb
    PROVE  /\ \A st \in States : [p EXCEPT !.state = st] \in Pcb
           /\ \A c \in Call : [p EXCEPT !.kcont = c] \in Pcb
           /\ \A r \in Rsps \cup {0} : [p EXCEPT !.user_rsp = r] \in Pcb
           /\ \A t \in Tables : [p EXCEPT !.fds = t] \in Pcb
           /\ \A pid \in Pids : [p EXCEPT !.last_spawned = pid] \in Pcb
           /\ [p EXCEPT !.spawned_child = TRUE] \in Pcb
BY DEF Pcb, Tables

\* A PCB that is made runnable is a PCB.
LEMMA Runnables ==
    ASSUME NEW p \in Pcb
    PROVE  /\ [p EXCEPT !.state = "Runnable"] \in Pcb
           /\ [p EXCEPT !.state = "Runnable"].state = "Runnable"
BY DEF Pcb, States

\* Waking everyone who is blocked for a reason keeps the table consistent.
LEMMA WakeOK ==
    ASSUME NEW ps, NEW c, TableOK(ps, c), NEW sts, "None" \notin sts
    PROVE  TableOK(Wake(ps, sts), c)
<1> DEFINE q(s) == IF ps[s].state \in sts THEN [ps[s] EXCEPT !.state = "Runnable"] ELSE ps[s]
<1>1. \A s \in Slots : ps[s] \in Pcb
  BY DEF TableOK
<1>2. \A s \in Slots : q(s) \in Pcb /\ (q(s) = ps[s] \/ q(s).state = "Runnable")
  BY <1>1, Runnables
<1> HIDE DEF q
<1>3. Wake(ps, sts) = [s \in Slots |-> q(s)]
  BY DEF Wake, q
<1> QED
  BY <1>2, <1>3 DEF TableOK

\* Waking the parent that waits keeps the table consistent (wake_waiter).
LEMMA WakeWaiterOK ==
    ASSUME NEW ps, NEW c, TableOK(ps, c), NEW pid
    PROVE  TableOK(WakeWaiter(ps, pid), c)
<1> DEFINE q(s) == IF ps[s].pid = pid /\ ps[s].state = "BlockedWait"
                   THEN [ps[s] EXCEPT !.state = "Runnable"] ELSE ps[s]
<1>1. \A s \in Slots : ps[s] \in Pcb
  BY DEF TableOK
<1>2. \A s \in Slots : q(s) \in Pcb /\ (q(s) = ps[s] \/ q(s).state = "Runnable")
  BY <1>1, Runnables
<1> HIDE DEF q
<1>3. WakeWaiter(ps, pid) = [s \in Slots |-> q(s)]
  BY DEF WakeWaiter, q
<1> QED
  BY <1>2, <1>3 DEF TableOK

\* One slot changes to a process record that is not running, or is and is c.
LEMMA SetSlotOK ==
    ASSUME NEW ps, NEW c, NEW d, TableOK(ps, c), NEW v \in Slots, NEW p \in Pcb,
           p.state = "None" => p.l4 = 0 /\ p.pid = 0,
           p.state = "Running" => v = d,
           c = d \/ v = c \/ \A s \in Slots : ps[s].state # "Running"
    PROVE  TableOK([ps EXCEPT ![v] = p], d)
BY DEF TableOK

\* A change of one slot that keeps its page table, is not running unless it was
\* before, and does not empty it.
LEMMA EditOK ==
    ASSUME NEW ps, NEW c, TableOK(ps, c), NEW v, NEW p,
           v \in Slots => /\ p \in Pcb
                          /\ p.l4 = ps[v].l4 /\ p.pid = ps[v].pid
                          /\ p.state = ps[v].state \/ p.state \notin {"None", "Running"}
    PROVE  TableOK([ps EXCEPT ![v] = p], c)
BY DEF TableOK

\* Killing a process keeps the table well formed.
LEMMA MakeZombieOK ==
    ASSUME NEW ps, NEW c, TableOK(ps, c), NEW v
    PROVE  TableOK(make_zombie(ps, v), c)
<1> DEFINE p == [ps[v] EXCEPT !.fds = NoFds, !.state = "Zombie", !.kcont = NoCall]
           q == [ps EXCEPT ![v].fds = NoFds, ![v].state = "Zombie", ![v].kcont = NoCall]
<1>1. v \in Slots => p \in Pcb /\ p.l4 = ps[v].l4 /\ p.pid = ps[v].pid /\ p.state = "Zombie"
  BY NoCallType, StdioType DEF TableOK, Pcb, Tables, States
<1>2. q = [ps EXCEPT ![v] = p]
  BY DEF TableOK
<1>3. TableOK(q, c)
  <2> HIDE DEF p, q
  <2> QED  BY <1>1, <1>2, EditOK
<1> HIDE DEF q
<1>4. TableOK(wake_pipe(q), c)
  BY <1>3, WakeOK DEF wake_pipe
<1> QED
  BY <1>4 DEF make_zombie, q

\* So does noting a child in its parent.
LEMMA NoteChildOK ==
    ASSUME NEW ps, NEW c, TableOK(ps, c), NEW parent, NEW pid \in Pids
    PROVE  TableOK(note_child(ps, parent, pid), c)
<1> DEFINE v == First(WithPid(ps, parent))
           p == [ps[v] EXCEPT !.spawned_child = TRUE, !.last_spawned = pid]
<1>1. v \in Slots => p \in Pcb /\ p.l4 = ps[v].l4 /\ p.pid = ps[v].pid /\ p.state = ps[v].state
  BY DEF TableOK, Pcb
<1>2. [ps EXCEPT ![v].spawned_child = TRUE, ![v].last_spawned = pid] = [ps EXCEPT ![v] = p]
  BY DEF TableOK
<1>3. TableOK([ps EXCEPT ![v] = p], c)
  <2> HIDE DEF p, v
  <2> QED  BY <1>1, EditOK
<1> QED
  BY <1>2, <1>3 DEF note_child

-----------------------------------------------------------------------------
(* What the scans and the allocators return.                               *)

\* Positions of a cyclic scan are natural numbers.
LEMMA ScanNat ==
    ASSUME NEW start \in Slots, NEW s \in Slots
    PROVE  Scan(start, s) \in Nat
<1>1. s - start + MAX_PROC \in Nat
  BY SchedAssumption DEF Slots
<1> QED  BY <1>1, ModRange, SchedAssumption DEF Scan

\* A scan that can find a slot finds one of those it looks for.
LEMMA FirstFromIn ==
    ASSUME NEW S, S \subseteq Slots, S # {}, NEW start \in Slots
    PROVE  FirstFrom(S, start) \in S
<1> DEFINE T == {Scan(start, s) : s \in S}
<1>1. T \subseteq Nat /\ T # {}
  BY ScanNat
<1>2. First(T) \in T /\ \A y \in T : First(T) <= y
  <2> HIDE DEF T
  <2> QED  BY <1>1, FirstIsLeast
<1>3. PICK s \in S : First(T) = Scan(start, s)
  BY <1>2
<1>4. \A t \in S : Scan(start, s) <= Scan(start, t)
  BY <1>2, <1>3
<1> QED  BY <1>4 DEF FirstFrom

\* The scan begins at a slot, also when there is no current process.
LEMMA StartSlotType ==
    ASSUME current \in Slots \cup {None}
    PROVE  start_slot \in Slots
<1>1. current + 1 \in Nat
  BY SchedAssumption DEF Slots, None
<1> QED  BY <1>1, ModRange, SchedAssumption DEF start_slot, Slots

\* A page table is free whenever a slot is: a slot that is not free owns one
\* page table, and there are as many as there are slots.
LEMMA NewL4Type ==
    ASSUME NEW c, TableOK(procs, c), free_slots(procs) # {}
    PROVE  new_user_l4 \in L4s
<1> DEFINE A == (L4s \ {0}) \ {procs[s].l4 : s \in Slots}
           B == 1 .. MAX_PROC
<1>1. L4s \ {0} = B /\ B \subseteq Nat
  BY SchedAssumption DEF L4s
<1>2. PICK f \in Slots : procs[f].l4 = 0
  BY DEF free_slots, TableOK
<1>3. A # {}
  <2>1. SUFFICES ASSUME A = {} PROVE FALSE
    OBVIOUS
  <2>2. \A l \in B : \E s \in Slots : procs[s].l4 = l
    BY <1>1, <2>1
  <2> DEFINE g == [l \in B |-> CHOOSE s \in Slots : procs[s].l4 = l]
  <2>3. \A l \in B : g[l] \in Slots /\ procs[g[l]].l4 = l
    BY <2>2
  <2>4. g \in [B -> Slots \ {f}]
    <3>1. \A l \in B : g[l] # f
      BY <1>2, <2>3
    <3> QED  BY <2>3, <3>1
  <2>5. IsFiniteSet(B) /\ Cardinality(B) = MAX_PROC
    BY FS_Interval, SchedAssumption
  <2>6. IsFiniteSet(Slots) /\ Cardinality(Slots) = MAX_PROC
    BY FS_Interval, SchedAssumption DEF Slots
  <2>7. IsFiniteSet(Slots \ {f}) /\ Cardinality(Slots \ {f}) = MAX_PROC - 1
    BY <1>2, <2>6, FS_RemoveElement
  <2>8. Cardinality(Slots \ {f}) < Cardinality(B)
    BY <2>5, <2>7, SchedAssumption
  <2> HIDE DEF g, B
  <2>9. \E x, y \in B : x # y /\ g[x] = g[y]
    BY <2>4, <2>5, <2>7, <2>8, FS_PigeonHole
  <2> QED  BY <2>3, <2>9
<1>4. A \subseteq Nat
  BY <1>1
<1>5. First(A) \in A
  <2> HIDE DEF A
  <2> QED  BY <1>3, <1>4, FirstIsLeast
<1> QED  BY <1>5 DEF new_user_l4

\* Closing the tables of some slots leaves the pipes well formed.
LEMMA ClosedByType ==
    ASSUME pipes \in PipeTables, NEW S, S \subseteq Slots
    PROVE  ClosedBy(S) \in PipeTables
<1>1. \A id, w : Cardinality(EndsOf(procs, S, id, w)) \in Nat
  <2> TAKE id, w
  <2>1. IsFiniteSet(S)
    BY SlotsNat, FS_Subset
  <2>2. IsFiniteSet(S \X Fds)
    BY <2>1, FdsNat, FS_Product
  <2>3. EndsOf(procs, S, id, w) \in SUBSET (S \X Fds)
    BY DEF EndsOf
  <2>4. IsFiniteSet(EndsOf(procs, S, id, w))
    BY <2>2, <2>3, FS_Subset
  <2> QED  BY <2>4, FS_CardinalityType
<1> QED
  BY <1>1, DropEndsType DEF ClosedBy, PipeTables
-----------------------------------------------------------------------------
(* Steps shared by several actions.                                        *)

\* A process resumed from a table in which no other one runs.
LEMMA ResumeOK ==
    ASSUME RestOK, NEW ps, NEW slot \in Slots, TableOK(ps, slot), Resume(ps, slot),
           after = "none",
           UNCHANGED <<next_pid, exclusive, init_pid, pipes, wins, queue, after>>
    PROVE  CoreInv'
<1> DEFINE p == [ps[slot] EXCEPT !.state = "Running", !.kcont = NoCall]
<1>1. ps[slot] \in Pcb /\ p \in Pcb /\ p.state = "Running"
  BY NoCallType DEF TableOK, Pcb, States
<1>2. procs' = [ps EXCEPT ![slot] = p]
  BY DEF Resume, TableOK
<1>3. TableOK(procs', slot)
  <2> HIDE DEF p
  <2> QED  BY <1>1, <1>2, SetSlotOK
<1>4. RestOK'
  BY <1>1 DEF RestOK, Resume, Pcb
<1>5. ControlOK'
  BY SlotsNat DEF ControlOK, InProcess, ProcModes, Modes, Resume
<1> QED
  BY <1>3, <1>4, <1>5 DEF CoreInv, Resume

\* The first free slot, and a victim, are slots.
LEMMA FirstSlot ==
    ASSUME NEW S, S \subseteq Slots, S # {}
    PROVE  First(S) \in S /\ First(S) \in Slots
BY SlotsNat, FirstIsLeast

\* A new process in a free slot.
LEMMA NewPcbType ==
    ASSUME NEW pid \in Pids, NEW parent \in Pids, NEW fds \in Tables, NEW l4 \in L4s,
           NEW st \in States
    PROVE  /\ new_pcb(pid, parent, fds, l4, st) \in Pcb
           /\ new_pcb(pid, parent, fds, l4, st).state = st
BY NoPcbType DEF new_pcb, Pcb, Tables

\* insert_pcb fills the first free slot with the next pid and a page table that
\* nobody owns: the table stays consistent.
LEMMA InsertOK ==
    ASSUME NEW c, TableOK(procs, c), next_pid \in 1 .. PID_MAX + 1,
           NEW parent \in Pids, NEW fds \in Tables, insert_pcb(parent, fds)
    PROVE  TableOK(procs', c) /\ next_pid' \in 1 .. PID_MAX + 1
<1> DEFINE slot == First(free_slots(procs))
           p == new_pcb(next_pid, parent, fds, new_user_l4, "Runnable")
           q == [procs EXCEPT ![slot] = p]
<1>1. slot \in Slots
  BY FirstSlot DEF insert_pcb, free_slots
<1>2. next_pid \in Pids /\ next_pid' \in 1 .. PID_MAX + 1
  BY SchedAssumption DEF insert_pcb, Pids
<1>3. p \in Pcb /\ p.state = "Runnable"
  BY <1>2, NewPcbType, NewL4Type DEF insert_pcb, States
<1> HIDE DEF slot, p
<1>4. TableOK(q, c)
  BY <1>1, <1>3, SetSlotOK
<1> HIDE DEF q
<1>5. TableOK(note_child(q, parent, next_pid), c)
  BY <1>2, <1>4, NoteChildOK
<1> QED
  BY <1>2, <1>5 DEF insert_pcb, q, p, slot

\* run_with, started where there is no current process.
LEMMA RunWithOK ==
    ASSUME CoreInv, mode \in {"host", "kshell"}, NEW excl \in BOOLEAN, run_with(excl),
           queue' \in 0 .. QUEUE_CAP - 1, UNCHANGED <<pipes, wins, after, call>>
    PROVE  CoreInv'
<1> DEFINE slot == First(free_slots(procs))
           p == new_pcb(1, 0, new_stdio, new_user_l4, "Running")
<1>1. current = None /\ after = "none"
  BY DEF CoreInv, ControlOK
<1>2. slot \in Slots
  BY FirstSlot DEF run_with, free_slots
<1>3. new_user_l4 \in L4s
  BY NewL4Type DEF CoreInv, run_with
<1>4. 1 \in Pids /\ 0 \in Pids /\ 2 \in 1 .. PID_MAX + 1
  BY SchedAssumption DEF Pids
<1>5. p \in Pcb /\ p.state = "Running"
  BY <1>3, <1>4, NewPcbType, StdioType DEF States
<1>6. \A s \in Slots : procs[s].state # "Running"
  BY <1>1, SlotsNat DEF CoreInv, TableOK
<1>7. TableOK([procs EXCEPT ![slot] = p], slot)
  <2> HIDE DEF slot, p
  <2> QED  BY <1>2, <1>5, <1>6, SetSlotOK DEF CoreInv
<1>8. TableOK(procs', current')
  BY <1>7 DEF run_with
<1>9. RestOK'
  BY <1>2, <1>3, <1>4 DEF CoreInv, RestOK, run_with
<1>10. ControlOK'
  BY <1>1, <1>2, SlotsNat DEF ControlOK, InProcess, ProcModes, Modes, run_with
<1> QED
  BY <1>8, <1>9, <1>10 DEF CoreInv

\* A run_with that finds no program, or no room, keeps CoreInv.
LEMMA RunWithFailsOK ==
    ASSUME CoreInv, mode \in {"host", "kshell"}, NEW excl \in BOOLEAN, run_with_fails(excl),
           queue' \in 0 .. QUEUE_CAP - 1, UNCHANGED <<pipes, wins, after, call>>
    PROVE  CoreInv'
<1>1. current = None /\ after = "none"
  BY DEF CoreInv, ControlOK
<1>2. 0 \in Pids /\ 1 \in 1 .. PID_MAX + 1
  BY SchedAssumption DEF Pids
<1>3. TableOK(procs', current')
  BY <1>1 DEF CoreInv, run_with_fails
<1>4. RestOK'
  BY <1>2 DEF CoreInv, RestOK, run_with_fails
<1>5. ControlOK'
  BY <1>1 DEF ControlOK, InProcess, ProcModes, Modes, run_with_fails
<1> QED
  BY <1>3, <1>4, <1>5 DEF CoreInv

\* A key, whether it is queued or kills.
LEMMA KeyOK ==
    ASSUME NEW c, TableOK(procs, c), pipes \in PipeTables, queue \in 0 .. QUEUE_CAP - 1,
           NEW key, enqueue_or_kill(key)
    PROVE  TableOK(procs', c) /\ pipes' \in PipeTables /\ queue' \in 0 .. QUEUE_CAP - 1
<1>1. CASE kill_foreground
  <2> DEFINE v == First(victims)
  <2>1. victims \subseteq Slots
    BY DEF victims, WithPid
  <2>2. v \in Slots
    BY <1>1, <2>1, FirstSlot DEF kill_foreground
  <2> HIDE DEF v
  <2>3. TableOK(WakeWaiter(make_zombie(procs, v), procs[v].parent), c)
    BY MakeZombieOK, WakeWaiterOK
  <2>4. ClosedBy({v}) \in PipeTables
    BY <2>2, ClosedByType
  <2> QED
    BY <1>1, <2>3, <2>4 DEF kill_foreground, v
<1>2. CASE enqueue_byte
  <2>1. enqueue(queue) \in 0 .. QUEUE_CAP - 1
    BY SchedAssumption DEF enqueue
  <2>2. TableOK(wake_stdin(procs), c)
    BY WakeOK DEF wake_stdin
  <2> QED
    BY <1>2, <2>1, <2>2 DEF enqueue_byte
<1> QED
  BY <1>1, <1>2 DEF enqueue_or_kill

\* Blocking the current process in a system call.
LEMMA YieldOK ==
    ASSUME CoreInv, InProcess, after = "none", NEW ps, TableOK(ps, current),
           NEW st \in {"BlockedStdin", "BlockedWait", "BlockedPipeRead", "BlockedPipeWrite"},
           yield_block(ps, st),
           UNCHANGED <<current, next_pid, exclusive, init_pid, pipes, wins, queue, cpu, after>>
    PROVE  CoreInv'
<1> DEFINE p == [ps[current] EXCEPT !.state = st, !.kcont = call]
<1>1. current \in Slots
  BY DEF CoreInv, RestOK, ControlOK
<1>2. p \in Pcb /\ p.l4 = ps[current].l4 /\ p.pid = ps[current].pid /\ p.state = st
  BY <1>1 DEF CoreInv, RestOK, TableOK, Pcb, States
<1>3. procs' = [ps EXCEPT ![current] = p]
  BY DEF yield_block, TableOK
<1>4. TableOK(procs', current)
  <2> HIDE DEF p
  <2> QED  BY <1>2, <1>3, EditOK
<1>5. RestOK'
  BY NoCallType DEF CoreInv, RestOK, yield_block, cpu
<1>6. ControlOK'
  BY <1>1 DEF ControlOK, InProcess, ProcModes, Modes, yield_block
<1> QED
  BY <1>4, <1>5, <1>6 DEF CoreInv

\* The end of the current process, from user code or a call.
LEMMA UserExitOK ==
    ASSUME CoreInv, mode \in {"user", "call"}, NEW outcome, user_exit(outcome)
    PROVE  CoreInv'
<1>1. current \in Slots /\ after = "none"
  BY DEF CoreInv, RestOK, ControlOK, InProcess, ProcModes
<1>2. wins' \in [WinIds -> Pids]
  BY SchedAssumption DEF user_exit, CoreInv, RestOK, Pids
<1>3. CASE leave_scheduler(outcome)
  <2>1. TableOK([s \in Slots |-> NoPcb], None)
    BY NoPcbType DEF TableOK
  <2>2. TableOK(procs', current')
    BY <1>3, <2>1 DEF leave_scheduler
  <2>3. ClosedBy(Slots) \in PipeTables
    BY ClosedByType DEF CoreInv, RestOK
  <2>4. 0 \in Pids /\ 0 \in L4s
    BY SchedAssumption DEF Pids, L4s
  <2>5. RestOK'
    BY <1>2, <1>3, <2>3, <2>4, NoCallType DEF user_exit, leave_scheduler, CoreInv, RestOK
  <2>6. ControlOK'
    BY <1>1, <1>3 DEF user_exit, leave_scheduler, ControlOK, InProcess, ProcModes, Modes
  <2> QED
    BY <2>2, <2>5, <2>6 DEF CoreInv
<1>4. CASE /\ procs' = wake_parent_of_slot(make_zombie(procs, current), current)
           /\ pipes' = ClosedBy({current})
           /\ mode' = "sched"
           /\ UNCHANGED <<current, exclusive, init_pid, cr3>>
  <2>1. TableOK(procs', current')
    BY <1>4, MakeZombieOK, WakeWaiterOK DEF CoreInv, wake_parent_of_slot
  <2>2. ClosedBy({current}) \in PipeTables
    BY <1>1, ClosedByType DEF CoreInv, RestOK
  <2>3. RestOK'
    BY <1>2, <1>4, <2>2, NoCallType DEF user_exit, CoreInv, RestOK
  <2>4. ControlOK'
    BY <1>1, <1>4 DEF user_exit, ControlOK, InProcess, ProcModes, Modes
  <2> QED
    BY <2>1, <2>3, <2>4 DEF CoreInv
<1> QED
  BY <1>3, <1>4 DEF user_exit

\* A call that returns to its caller, with a new table and new pipes.
LEMMA ReturnOK ==
    ASSUME CoreInv, mode = "call", SysReturn, TableOK(procs', current),
           pipes' \in PipeTables, wins' \in [WinIds -> Pids], queue' \in 0 .. QUEUE_CAP - 1,
           cr3' \in L4s, next_pid' \in 1 .. PID_MAX + 1,
           UNCHANGED <<current, exclusive, init_pid, cpu_rsp, after>>
    PROVE  CoreInv'
<1>1. current \in Slots /\ after = "none"
  BY DEF CoreInv, RestOK, ControlOK, InProcess, ProcModes
<1>2. RestOK'
  BY NoCallType DEF CoreInv, RestOK, SysReturn
<1>3. ControlOK'
  BY <1>1, SlotsNat DEF ControlOK, InProcess, ProcModes, Modes, SysReturn
<1> QED
  BY <1>2, <1>3 DEF CoreInv

\* A call that enters a loop of its own.
LEMMA EnterOK ==
    ASSUME CoreInv, mode = "call", NEW op \in CallOps, NEW id \in PipeIds,
           NEW n \in Lens \cup {0}, Enter(op, id, n)
    PROVE  CoreInv'
<1>1. call' \in Call
  BY DEF CoreInv, RestOK, Call, Enter
<1>2. TableOK(procs', current')
  BY DEF CoreInv, Enter, table
<1>3. RestOK' /\ ControlOK'
  BY <1>1 DEF CoreInv, RestOK, ControlOK, InProcess, Enter, table, cpu
<1> QED
  BY <1>2, <1>3 DEF CoreInv

\* A step that only moves the control on.
LEMMA MoveOK ==
    ASSUME CoreInv, UNCHANGED <<table, pipes, wins, cpu>>, queue' \in 0 .. QUEUE_CAP - 1,
           call' \in Call, ControlOK'
    PROVE  CoreInv'
BY DEF CoreInv, RestOK, table, cpu

\* Descriptors of the current process.
LEMMA MyFds ==
    ASSUME CoreInv, current # None
    PROVE  current \in Slots /\ procs[current] \in Pcb /\ my_fds \in Tables
BY DEF CoreInv, RestOK, TableOK, my_fds, Pcb, Tables

\* New descriptors for the current process.
LEMMA SetFdsOK ==
    ASSUME CoreInv, current # None, NEW t \in Tables
    PROVE  TableOK([procs EXCEPT ![current].fds = t], current)
<1> DEFINE p == [procs[current] EXCEPT !.fds = t]
<1>1. /\ current \in Slots /\ p \in Pcb
      /\ p.l4 = procs[current].l4 /\ p.pid = procs[current].pid /\ p.state = procs[current].state
  BY MyFds DEF Pcb, Tables
<1>2. [procs EXCEPT ![current].fds = t] = [procs EXCEPT ![current] = p]
  OBVIOUS
<1> HIDE DEF p
<1>3. TableOK([procs EXCEPT ![current] = p], current)
  BY <1>1, EditOK DEF CoreInv
<1> QED
  BY <1>2, <1>3

-----------------------------------------------------------------------------
(* The actions keep CoreInv.                                               *)

\* CoreInv holds at boot.
LEMMA InitCore == Init => CoreInv
<1> SUFFICES ASSUME Init PROVE CoreInv
  OBVIOUS
<1>1. TableOK(procs, current)
  BY NoPcbType DEF Init, TableOK
<1>2. 0 \in Pids /\ 0 \in L4s /\ 1 \in 1 .. PID_MAX + 1 /\ 0 \in 0 .. QUEUE_CAP - 1
  BY SchedAssumption DEF Pids, L4s
<1>3. RestOK
  BY <1>2, NoCallType, EmptyType DEF Init, RestOK, PipeTables
<1>4. ControlOK
  BY DEF Init, ControlOK, InProcess, ProcModes, Modes
<1> QED
  BY <1>1, <1>3, <1>4 DEF CoreInv

\* The scheduler's loop and the timer.
LEMMA SwitchSteps ==
    ASSUME CoreInv, SchedStep \/ Timer
    PROVE  CoreInv'
<1>t. start_slot \in Slots
  BY StartSlotType DEF CoreInv, RestOK
<1>1. CASE SchedPick
  <2> DEFINE slot == pick_runnable
             ps == Leave(procs, current, slot)
  <2>1. slot \in Slots
    BY <1>1, <1>t, FirstFromIn DEF SchedPick, pick_runnable, runnable
  <2> HIDE DEF slot
  <2>2. TableOK(ps, slot)
    <3>1. CASE current = None \/ current = slot \/ procs[current].state = "None"
      BY <3>1, SlotsNat DEF CoreInv, TableOK, Leave
    <3>2. CASE ~(current = None \/ current = slot \/ procs[current].state = "None")
      <4> DEFINE st == IF procs[current].state = "Running" THEN "Runnable"
                       ELSE procs[current].state
                 p == [procs[current] EXCEPT !.state = st, !.user_rsp = cpu_rsp]
      <4>1. current \in Slots /\ procs[current] \in Pcb
        BY <3>2 DEF CoreInv, RestOK, TableOK
      <4>2. st \in States /\ st # "Running" /\ st # "None"
        BY <3>2, <4>1 DEF Pcb, States
      <4>3. p \in Pcb /\ p.state = st
        BY <4>1, <4>2 DEF Pcb, CoreInv, RestOK
      <4>4. ps = [procs EXCEPT ![current] = p]
        BY <3>2 DEF Leave
      <4> HIDE DEF p, st, ps
      <4> QED
        BY <4>1, <4>2, <4>3, <4>4, SetSlotOK DEF CoreInv
    <3> QED  BY <3>1, <3>2
  <2>3. after = "none" /\ Resume(ps, slot) /\ RestOK
    BY <1>1 DEF SchedPick, switch_to, slot, CoreInv, ControlOK
  <2> HIDE DEF ps
  <2> QED
    BY <1>1, <2>1, <2>2, <2>3, ResumeOK DEF SchedPick
<1>2. CASE SchedIdle
  <2>1. ControlOK'
    BY <1>2 DEF SchedIdle, CoreInv, RestOK, ControlOK, InProcess, ProcModes, Modes, table
  <2> QED
    BY <1>2, <2>1, MoveOK DEF SchedIdle, CoreInv, RestOK
<1>3. CASE TimerKernel
  <2>1. ControlOK'
    BY <1>3 DEF TimerKernel, CoreInv, ControlOK, InProcess, ProcModes, Modes, table
  <2> QED
    BY <1>3, <2>1, MoveOK DEF TimerKernel, CoreInv, RestOK
<1>4. CASE TimerUser
  <2>1. current \in Slots /\ procs[current] \in Pcb /\ after = "none"
    BY <1>4 DEF TimerUser, CoreInv, RestOK, TableOK, ControlOK, InProcess, ProcModes
  <2>2. CASE procs[current].state \in {"None", "Zombie"}
    <3>1. UNCHANGED <<table, pipes, wins, cpu, queue, call>>
      BY <1>4, <2>2 DEF TimerUser, table, cpu
    <3>2. ControlOK'
      BY <1>4, <2>1, <2>2 DEF TimerUser, ControlOK, InProcess, ProcModes, Modes
    <3> QED
      BY <3>1, <3>2, MoveOK DEF CoreInv, RestOK
  <2>3. CASE procs[current].state \notin {"None", "Zombie"}
    <3> DEFINE slot == pick_runnable_other
               p == [procs[current] EXCEPT !.state = "Runnable", !.kcont = NoCall,
                                           !.user_rsp = cpu_rsp]
               ps == [procs EXCEPT ![current] = p]
    <3>1. slot \in Slots
      BY <1>4, <1>t, <2>3, FirstFromIn DEF TimerUser, pick_runnable_other, runnable_other
    <3>2. p \in Pcb /\ p.state = "Runnable"
      BY <2>1, NoCallType DEF Pcb, States, CoreInv, RestOK
    <3>3. ps = [procs EXCEPT ![current].state = "Runnable", ![current].kcont = NoCall,
                             ![current].user_rsp = cpu_rsp]
      OBVIOUS
    <3> HIDE DEF slot, p
    <3>4. TableOK(ps, slot)
      BY <2>1, <3>2, SetSlotOK DEF CoreInv
    <3>5. Resume(ps, slot)
      BY <1>4, <2>3, <3>3 DEF TimerUser, slot
    <3> HIDE DEF ps
    <3> QED
      BY <1>4, <2>1, <3>1, <3>4, <3>5, ResumeOK DEF TimerUser, CoreInv
  <2> QED  BY <2>2, <2>3
<1> QED
  BY <1>1, <1>2, <1>3, <1>4 DEF SchedStep, Timer

\* comp::poll and the keyboard.
LEMMA InputSteps ==
    ASSUME CoreInv, PollStep \/ InputStep
    PROVE  CoreInv'
<1>c. TableOK(procs, current) /\ RestOK /\ ControlOK
  BY DEF CoreInv
<1>1. CASE PollReap
  <2> DEFINE q == [s \in Slots |-> IF s \in orphans THEN NoPcb ELSE procs[s]]
  <2>1. TableOK(q, current)
    BY <1>c, NoPcbType DEF TableOK
  <2>2. ClosedBy(orphans) \in PipeTables
    BY <1>c, ClosedByType DEF RestOK, orphans
  <2>3. unload(orphans) \in L4s
    BY <1>c, SchedAssumption DEF RestOK, unload, L4s
  <2>4. RestOK'
    BY <1>1, <1>c, <2>2, <2>3 DEF PollReap, RestOK
  <2>5. ControlOK'
    BY <1>1, <1>c DEF PollReap, ControlOK, InProcess, ProcModes, Modes
  <2> QED
    BY <1>1, <2>1, <2>4, <2>5 DEF PollReap, CoreInv
<1>2. CASE PollDone
  <2>1. ControlOK'
    BY <1>2, <1>c DEF PollDone, ControlOK, InProcess, ProcModes, Modes, table
  <2> QED
    BY <1>2, <2>1, MoveOK DEF PollDone, CoreInv, RestOK
<1>3. ASSUME NEW key, KeyIrq(key) PROVE CoreInv'
  <2>1. TableOK(procs', current) /\ pipes' \in PipeTables /\ queue' \in 0 .. QUEUE_CAP - 1
    BY <1>3, <1>c, KeyOK DEF KeyIrq, RestOK
  <2>2. call' \in Call
    BY <1>3, <1>c, NoCallType DEF KeyIrq, RestOK
  <2>3. TableOK(procs', current')
    BY <1>3, <2>1 DEF KeyIrq
  <2>4. RestOK'
    BY <1>3, <1>c, <2>1, <2>2 DEF KeyIrq, RestOK, cpu
  <2>5. after' = "none" /\ current' = current
    BY <1>3, <1>c DEF KeyIrq, IrqModes, ControlOK
  <2>6. \/ mode' = "sched" /\ mode \notin {"host", "kshell"}
        \/ mode' = "call" /\ mode = "wait"
        \/ mode' = mode /\ mode \notin {"hlt", "wait"}
    BY <1>3, <1>c DEF KeyIrq, IrqModes, ControlOK
  <2>7. ControlOK'
    BY <1>3, <1>c, <2>5, <2>6 DEF KeyIrq, IrqModes, ControlOK, InProcess, ProcModes, Modes
  <2> QED
    BY <2>3, <2>4, <2>7 DEF CoreInv
<1>4. ASSUME NEW key, PollKey(key) PROVE CoreInv'
  <2>1. TableOK(procs', current) /\ pipes' \in PipeTables /\ queue' \in 0 .. QUEUE_CAP - 1
    BY <1>4, <1>c, KeyOK DEF PollKey, RestOK
  <2>2. RestOK' /\ ControlOK'
    BY <1>4, <1>c, <2>1 DEF PollKey, RestOK, ControlOK, InProcess, cpu
  <2> QED
    BY <1>4, <2>1, <2>2 DEF PollKey, CoreInv
<1>5. CASE PollLaunch
  <2>1. 0 \in Pids
    BY SchedAssumption DEF Pids
  <2>2. TableOK(procs', current) /\ next_pid' \in 1 .. PID_MAX + 1
    BY <1>5, <1>c, <2>1, InsertOK, StdioType DEF PollLaunch, RestOK
  <2>3. RestOK' /\ ControlOK'
    BY <1>5, <1>c, <2>2 DEF PollLaunch, RestOK, ControlOK, InProcess, cpu
  <2> QED
    BY <1>5, <2>2, <2>3 DEF PollLaunch, CoreInv
<1>6. ASSUME NEW id \in WinIds, PollCloseFrame(id) PROVE CoreInv'
  <2>1. wins' \in [WinIds -> Pids]
    BY <1>6, <1>c, SchedAssumption DEF PollCloseFrame, RestOK, Pids
  <2>2. RestOK' /\ ControlOK'
    BY <1>6, <1>c, <2>1 DEF PollCloseFrame, RestOK, ControlOK, InProcess, cpu, table
  <2> QED
    BY <1>6, <1>c, <2>2 DEF PollCloseFrame, CoreInv, table
<1> QED
  BY <1>1, <1>2, <1>3, <1>4, <1>5, <1>6 DEF PollStep, InputStep

\* kmain, read_stdin's loop, faults and the entry of a system call.
LEMMA LoopSteps ==
    ASSUME CoreInv, KmainStep \/ StdinStep \/ UserStep \/ Panic
    PROVE  CoreInv'
<1>c. TableOK(procs, current) /\ RestOK /\ ControlOK
  BY DEF CoreInv
<1>q. queue > 0 => queue - 1 \in 0 .. QUEUE_CAP - 1
  BY <1>c, SchedAssumption DEF RestOK
<1>1. CASE HostRunInit
  BY <1>1, <1>c, RunWithOK DEF HostRunInit, RestOK
<1>2. CASE HostGiveUp
  <2>1. CASE run_with_fails(FALSE)
    BY <1>2, <2>1, <1>c, RunWithFailsOK DEF HostGiveUp, RestOK
  <2>2. CASE mode' = "kshell" /\ UNCHANGED <<table, cpu>>
    <3>1. ControlOK'
      BY <1>2, <2>2, <1>c DEF HostGiveUp, ControlOK, InProcess, ProcModes, Modes, table
    <3> QED
      BY <1>2, <2>2, <3>1, <1>c, MoveOK DEF HostGiveUp, RestOK
  <2> QED
    BY <1>2, <2>1, <2>2 DEF HostGiveUp
<1>3. CASE KshellByte
  <2>1. CASE UNCHANGED <<table, cpu, mode>>
    <3>1. ControlOK'
      BY <1>3, <2>1, <1>c DEF KshellByte, ControlOK, InProcess, table
    <3> QED
      BY <1>3, <2>1, <3>1, <1>c, <1>q, MoveOK DEF KshellByte, RestOK
  <2>2. CASE run_with(TRUE)
    BY <1>3, <2>2, <1>q, RunWithOK DEF KshellByte
  <2>3. CASE run_with_fails(TRUE)
    BY <1>3, <2>3, <1>q, RunWithFailsOK DEF KshellByte
  <2> QED
    BY <1>3, <2>1, <2>2, <2>3 DEF KshellByte
<1>4. CASE KshellPoll
  <2>1. ControlOK'
    BY <1>4, <1>c DEF KshellPoll, ControlOK, InProcess, ProcModes, Modes, table
  <2> QED
    BY <1>4, <2>1, <1>c, MoveOK DEF KshellPoll, RestOK
<1>5. CASE StdinByte
  <2>1. ControlOK'
    BY <1>5, <1>c DEF StdinByte, InCall, SysReturn, ControlOK, InProcess, ProcModes, Modes, table
  <2> QED
    BY <1>5, <2>1, <1>q, MoveOK, NoCallType DEF StdinByte, SysReturn
<1>6. CASE StdinPoll
  <2>1. ControlOK'
    BY <1>6, <1>c DEF StdinPoll, InCall, ControlOK, InProcess, ProcModes, Modes, table
  <2> QED
    BY <1>6, <2>1, <1>c, MoveOK DEF StdinPoll, RestOK
<1>7. CASE StdinBlock
  <2>1. InProcess /\ after = "none"
    BY <1>7, <1>c DEF StdinBlock, InProcess, ProcModes, ControlOK
  <2> QED
    BY <1>7, <2>1, <1>c, YieldOK DEF StdinBlock
<1>8. CASE StdinHalt
  <2>1. ControlOK'
    BY <1>8, <1>c DEF StdinHalt, ControlOK, InProcess, ProcModes, Modes, table
  <2> QED
    BY <1>8, <2>1, <1>c, MoveOK DEF StdinHalt, RestOK
<1>9. CASE UserFault
  BY <1>9, UserExitOK DEF UserFault, may_fault
<1>10. ASSUME NEW rsp \in Rsps, Syscall(rsp) PROVE CoreInv'
  <2>1. call' \in Call
    BY <1>10, NoCallType DEF Syscall, Call, CallOps
  <2>2. ControlOK'
    BY <1>10, <1>c DEF Syscall, ControlOK, InProcess, ProcModes, Modes, table
  <2>3. RestOK' /\ TableOK(procs', current')
    BY <1>10, <2>1, <1>c DEF Syscall, RestOK, table
  <2> QED
    BY <2>2, <2>3 DEF CoreInv
<1>11. CASE Panic
  <2>1. mode \in {"user", "stdin", "call"}
    BY <1>11 DEF Panic, unwraps, may_fault, Asked
  <2>2. ControlOK'
    BY <1>11, <2>1, <1>c DEF Panic, ControlOK, InProcess, ProcModes, Modes, table
  <2> QED
    BY <1>11, <2>2, <1>c, MoveOK DEF Panic, RestOK
<1> QED
  BY <1>1, <1>2, <1>3, <1>4, <1>5, <1>6, <1>7, <1>8, <1>9, <1>10, <1>11
     DEF KmainStep, StdinStep, UserStep

\* Calls about processes and windows.
LEMMA ProcessCalls ==
    ASSUME CoreInv
    PROVE  /\ SysOther \/ SysExit \/ SysWait \/ SysWinCreate \/ WaitStep => CoreInv'
           /\ \A a, b \in SpawnFds : SysSpawn(a, b) \/ SysSpawnFails(a, b) => CoreInv'
           /\ \A pid \in Pids : SysKill(pid) => CoreInv'
<1>c. TableOK(procs, current) /\ RestOK /\ ControlOK
  BY DEF CoreInv
<1>p. mode = "call" => /\ current \in Slots /\ procs[current] \in Pcb /\ my_fds \in Tables
                       /\ InProcess /\ current # None /\ after = "none"
  BY <1>c, MyFds DEF ControlOK, InProcess, ProcModes
<1>1. CASE SysOther
  BY <1>1, <1>c, ReturnOK DEF SysOther, InCall, RestOK, table, cpu
<1>2. CASE SysExit
  BY <1>2, UserExitOK DEF SysExit, Dispatch, Asked
<1>3. CASE SysWait
  <2>1. 0 \in PipeIds /\ 0 \in Lens \cup {0} /\ "wait" \in CallOps
    BY PipeIdsNat DEF CallOps
  <2> QED
    BY <1>3, <2>1, EnterOK DEF SysWait, Dispatch, Asked
<1>4. CASE SysWinCreate
  <2>1. wins' \in [WinIds -> Pids]
    BY <1>4, <1>c, <1>p DEF SysWinCreate, Dispatch, Asked, RestOK, Pcb
  <2> QED
    BY <1>4, <2>1, <1>c, ReturnOK DEF SysWinCreate, Dispatch, Asked, RestOK, table, cpu
<1>5. CASE WaitReap
  <2> DEFINE i == First(dead_children)
  <2>1. i \in Slots
    BY <1>5, FirstSlot DEF WaitReap, dead_children
  <2> HIDE DEF i
  <2>2. TableOK([procs EXCEPT ![i] = NoPcb], current)
    BY <2>1, <1>c, NoPcbType, SetSlotOK
  <2>3. ClosedBy({i}) \in PipeTables
    BY <2>1, <1>c, ClosedByType DEF RestOK
  <2>4. unload({i}) \in L4s
    BY <1>c, SchedAssumption DEF RestOK, unload, L4s
  <2>5. TableOK(procs', current) /\ pipes' \in PipeTables /\ cr3' \in L4s
    BY <1>5, <2>2, <2>3, <2>4 DEF WaitReap, i
  <2> QED
    BY <1>5, <2>5, <1>c, ReturnOK DEF WaitReap, InCall, RestOK
<1>6. CASE WaitNone
  BY <1>6, <1>c, ReturnOK DEF WaitNone, InCall, RestOK, table, cpu
<1>7. CASE WaitBlock
  BY <1>7, <1>c, <1>p, YieldOK DEF WaitBlock, InCall
<1>8. ASSUME NEW a \in SpawnFds, NEW b \in SpawnFds, SysSpawn(a, b) \/ SysSpawnFails(a, b)
      PROVE  CoreInv'
  <2> DEFINE pid == procs[current].pid
             inh == child_fds(pid, a, b)
             par == First(WithPid(procs, pid))
  <2>m. mode = "call"
    BY <1>8 DEF SysSpawn, SysSpawnFails, Asked
  <2>1. pid \in Pids
    BY <1>p, <2>m DEF Pcb
  <2>2. inh.fds \in Tables /\ inh.pipes \in PipeTables
    <3>1. CASE pid = 0
      BY <3>1, <1>c, StdioType DEF child_fds, RestOK
    <3>2. CASE pid # 0
      <4>0. current \in WithPid(procs, pid)
        BY <3>2, <1>c, <1>p, <2>m DEF WithPid, TableOK
      <4>1. par \in Slots
        BY <3>2, <4>0, FirstSlot DEF WithPid
      <4>2. procs[par].fds \in Tables
        BY <4>1, <1>c DEF TableOK, Pcb, Tables
      <4> QED
        BY <3>2, <4>2, <1>c, InheritType DEF child_fds, RestOK
    <3> QED  BY <3>1, <3>2
  <2> HIDE DEF inh
  <2>3. CASE SysSpawn(a, b)
    <3>1. insert_pcb(pid, inh.fds) /\ pipes' = inh.pipes
      BY <2>3 DEF SysSpawn, inh
    <3> HIDE DEF pid
    <3>2. TableOK(procs', current) /\ next_pid' \in 1 .. PID_MAX + 1
      BY <2>1, <2>2, <3>1, <1>c, InsertOK DEF RestOK
    <3> QED
      BY <2>3, <2>m, <2>2, <3>1, <3>2, <1>c, ReturnOK DEF SysSpawn, RestOK, cpu
  <2>4. CASE SysSpawnFails(a, b)
    <3>1. pipes' \in PipeTables
      BY <2>4, <2>2, <1>c DEF SysSpawnFails, inh, RestOK
    <3> QED
      BY <2>4, <2>m, <3>1, <1>c, ReturnOK DEF SysSpawnFails, RestOK, table, cpu
  <2> QED  BY <1>8, <2>3, <2>4
<1>9. ASSUME NEW pid \in Pids, SysKill(pid) PROVE CoreInv'
  <2> DEFINE v == First(WithPid(procs, pid))
  <2>1. v \in Slots
    BY <1>9, FirstSlot DEF SysKill, WithPid
  <2> HIDE DEF v
  <2>2. TableOK(procs', current) /\ pipes' \in PipeTables
    BY <1>9, <2>1, <1>c, MakeZombieOK, ClosedByType DEF SysKill, v, RestOK
  <2> QED
    BY <1>9, <2>2, <1>c, ReturnOK DEF SysKill, Dispatch, Asked, RestOK, cpu
<1> QED
  BY <1>1, <1>2, <1>3, <1>4, <1>5, <1>6, <1>7, <1>8, <1>9 DEF WaitStep

\* Calls about descriptors and pipes.
LEMMA DescriptorCalls ==
    ASSUME CoreInv
    PROVE  /\ SysPipe \/ SysPipeFails \/ ReadPipe \/ WritePipe => CoreInv'
           /\ \A k \in {"File", "Dir"} : SysOpen(k) => CoreInv'
           /\ \A fd \in Fds : SysClose(fd) => CoreInv'
           /\ \A fd \in Fds, n \in Lens : SysRead(fd, n) \/ SysWrite(fd, n) => CoreInv'
<1>c. TableOK(procs, current) /\ RestOK /\ ControlOK
  BY DEF CoreInv
<1>p. mode = "call" => /\ current \in Slots /\ procs[current] \in Pcb /\ my_fds \in Tables
                       /\ InProcess /\ current # None /\ after = "none"
  BY <1>c, MyFds DEF ControlOK, InProcess, ProcModes
<1>e. [empty EXCEPT !.used = TRUE, !.n_readers = 1, !.n_writers = 1] \in PipeRec
  <2>1. 1 \in 0 .. END_MAX
    BY PipeAssumption
  <2> QED
    BY <2>1, EmptyType DEF PipeRec
<1>a. pipe_alloc(pipes) \in PipeTables
  BY <1>c, <1>e DEF pipe_alloc, RestOK, PipeTables
<1>f. pipe_free(pipes) # {} => First(pipe_free(pipes)) \in PipeIds
  BY PipeIdsNat, FirstIsLeast DEF pipe_free
<1>1. CASE SysPipe
  <2> DEFINE id == First(pipe_free(pipes))
             t == fd_alloc(fd_alloc(my_fds, PipeEnd(id, FALSE)), PipeEnd(id, TRUE))
  <2>m. mode = "call"
    BY <1>1 DEF SysPipe, Dispatch, Asked
  <2>1. PipeEnd(id, FALSE) \in OpenFd /\ PipeEnd(id, TRUE) \in OpenFd
    BY <1>1, <1>f, PipeEndOpen DEF SysPipe
  <2> HIDE DEF id
  <2>2. t \in Tables
    BY <1>p, <2>m, <2>1, FdAllocType
  <2>3. procs' = [procs EXCEPT ![current].fds = t]
    BY <1>1, <1>p, <2>m DEF SysPipe, id, my_fds
  <2> HIDE DEF t
  <2>4. TableOK(procs', current)
    BY <1>p, <2>m, <2>2, <2>3, SetFdsOK
  <2> QED
    BY <1>1, <2>m, <2>4, <1>a, <1>c, ReturnOK DEF SysPipe, RestOK, cpu
<1>2. CASE SysPipeFails
  <2> DEFINE id == First(pipe_free(pipes))
             q == pipe_alloc(pipes)
             p == drop_end(drop_end(q[id], FALSE), TRUE)
  <2>1. id \in PipeIds
    BY <1>2, <1>f DEF SysPipeFails
  <2>2. q[id] \in PipeRec
    BY <2>1, <1>a DEF PipeTables
  <2>3. p \in PipeRec
    BY <2>2, DropEndsType DEF drop_end
  <2>4. pipes' = [q EXCEPT ![id] = p]
    BY <1>2, <2>1, <1>a DEF SysPipeFails, PipeTables
  <2> HIDE DEF id, q, p
  <2>5. pipes' \in PipeTables
    BY <2>3, <2>4, <1>a DEF PipeTables, q
  <2> QED
    BY <1>2, <2>5, <1>c, ReturnOK DEF SysPipeFails, Dispatch, Asked, RestOK, table, cpu
<1>3. ASSUME NEW k \in {"File", "Dir"}, SysOpen(k) PROVE CoreInv'
  <2> DEFINE t == fd_alloc(my_fds, Plain(k))
  <2>m. mode = "call"
    BY <1>3 DEF SysOpen, Dispatch, Asked
  <2>1. t \in Tables
    BY <1>p, <2>m, PlainOpen, FdAllocType
  <2>2. procs' = [procs EXCEPT ![current].fds = t]
    BY <1>3, <1>p, <2>m DEF SysOpen, my_fds
  <2> HIDE DEF t
  <2>3. TableOK(procs', current)
    BY <1>p, <2>m, <2>1, <2>2, SetFdsOK
  <2> QED
    BY <1>3, <2>m, <2>3, <1>c, ReturnOK DEF SysOpen, RestOK, cpu
<1>4. ASSUME NEW fd \in Fds, SysClose(fd) PROVE CoreInv'
  <2> DEFINE t == [my_fds EXCEPT ![fd] = Closed]
             q == [procs EXCEPT ![current].fds = t]
  <2>m. mode = "call"
    BY <1>4 DEF SysClose, Dispatch, Asked
  <2>1. t \in Tables /\ my_fds[fd] \in OpenFd
    BY <1>p, <2>m, PlainOpen DEF Tables, Closed
  <2>2. procs' = wake_pipe(q)
    BY <1>4, <1>p, <2>m DEF SysClose, my_fds
  <2>3. pipes' \in PipeTables
    BY <1>4, <2>1, <1>c, DropOpenType DEF SysClose, RestOK
  <2>4. TableOK(q, current)
    <3> HIDE DEF t
    <3> QED  BY <1>p, <2>m, <2>1, SetFdsOK
  <2> HIDE DEF q
  <2>5. TableOK(procs', current)
    BY <2>2, <2>4, WakeOK DEF wake_pipe
  <2> QED
    BY <1>4, <2>m, <2>3, <2>5, <1>c, ReturnOK DEF SysClose, RestOK, cpu
<1>5. ASSUME NEW fd \in Fds, NEW n \in Lens, SysRead(fd, n) \/ SysWrite(fd, n) PROVE CoreInv'
  <2>m. mode = "call"
    BY <1>5 DEF SysRead, SysWrite, Dispatch, Asked
  <2>1. my_fds[fd] \in OpenFd
    BY <1>p, <2>m DEF Tables
  <2>2. my_fds[fd].kind = "Pipe" => my_fds[fd].id \in PipeIds
    BY <2>1, OpenPipe
  <2>3. "read_stdin" \in CallOps /\ "read_pipe" \in CallOps /\ "write_pipe" \in CallOps
    BY DEF CallOps
  <2> QED
    BY <1>5, <2>m, <2>2, <2>3, PipeIdsNat, EnterOK DEF SysRead, SysWrite
<1>w. TableOK(wake_pipe(procs), current)
  BY <1>c, WakeOK DEF wake_pipe
<1>i. call.id \in PipeIds /\ call.n \in Nat /\ pipes[call.id] \in PipeRec
  <2>1. call.id \in PipeIds /\ call.n \in Lens \cup {0}
    BY <1>c DEF RestOK, Call
  <2>2. \A n \in Lens \cup {0} : n \in Nat
    BY SchedAssumption
  <2> QED
    BY <1>c, <2>1, <2>2 DEF RestOK, PipeTables
<1>6. CASE ReadPipe
  <2>1. CASE SysReturn /\ pipes' = [pipes EXCEPT ![call.id] = read_pipe_buf(@, call.n)]
             /\ procs' = wake_pipe(procs)
    <3>1. pipes' \in PipeTables
      BY <2>1, <1>c, <1>i, ReadType DEF RestOK, PipeTables
    <3> QED
      BY <1>6, <2>1, <3>1, <1>c, <1>w, ReturnOK DEF ReadPipe, InCall, RestOK, cpu
  <2>2. CASE SysReturn /\ UNCHANGED <<pipes, procs>>
    BY <1>6, <2>2, <1>c, ReturnOK DEF ReadPipe, InCall, RestOK, cpu
  <2>3. CASE yield_block(wake_pipe(procs), "BlockedPipeRead") /\ UNCHANGED pipes
    BY <1>6, <2>3, <1>p, <1>w, YieldOK DEF ReadPipe, InCall
  <2> QED
    BY <1>6, <2>1, <2>2, <2>3 DEF ReadPipe
<1>7. CASE WritePipe
  <2> DEFINE src == [i \in 1 .. call.n |-> ZeroByte]
  <2>s. src \in Seq(Bytes)
    BY <1>i, PipeAssumption
  <2>1. CASE SysReturn /\ pipes' = [pipes EXCEPT ![call.id] = write_pipe_buf(@, src)]
             /\ procs' = wake_pipe(procs)
    <3> HIDE DEF src
    <3>1. write_pipe_buf(pipes[call.id], src) \in PipeRec
      BY <2>s, <1>i, WriteType
    <3>2. pipes' \in PipeTables
      BY <2>1, <3>1, <1>c, <1>i DEF RestOK, PipeTables
    <3> QED
      BY <1>7, <2>1, <3>2, <1>c, <1>w, ReturnOK DEF WritePipe, InCall, RestOK, cpu
  <2>2. CASE SysReturn /\ UNCHANGED <<pipes, procs>>
    BY <1>7, <2>2, <1>c, ReturnOK DEF WritePipe, InCall, RestOK, cpu
  <2>3. CASE yield_block(wake_pipe(procs), "BlockedPipeWrite") /\ UNCHANGED pipes
    BY <1>7, <2>3, <1>p, <1>w, YieldOK DEF WritePipe, InCall
  <2> QED
    BY <1>7, <2>1, <2>2, <2>3 DEF WritePipe
<1> QED
  BY <1>1, <1>2, <1>3, <1>4, <1>5, <1>6, <1>7

-----------------------------------------------------------------------------
\* Every step of the kernel, of a process, of the timer and of the keyboard
\* keeps the process table well formed and its running process the current one.
LEMMA NextCore == CoreInv /\ [Next]_vars => CoreInv'
<1> SUFFICES ASSUME CoreInv, [Next]_vars PROVE CoreInv'
  OBVIOUS
<1>1. CASE KernelStep
  <2>1. CASE DispatchStep \/ ReadPipe \/ WritePipe \/ WaitStep
    BY <2>1, ProcessCalls, DescriptorCalls DEF DispatchStep
  <2>2. CASE Panic \/ StdinStep \/ KmainStep
    BY <2>2, LoopSteps
  <2>3. CASE PollStep
    BY <2>3, InputSteps
  <2>4. CASE SchedStep
    BY <2>4, SwitchSteps
  <2> QED
    BY <1>1, <2>1, <2>2, <2>3, <2>4 DEF KernelStep
<1>2. CASE UserStep
  BY <1>2, LoopSteps
<1>3. CASE Timer
  BY <1>3, SwitchSteps
<1>4. CASE InputStep
  BY <1>4, InputSteps
<1>5. CASE UNCHANGED vars
  BY <1>5 DEF vars, CoreInv, RestOK, ControlOK, InProcess
<1> QED
  BY <1>1, <1>2, <1>3, <1>4, <1>5 DEF Next

\* CoreInv is an invariant of the kernel.
LEMMA CoreHolds == Spec => []CoreInv
<1>1. Init => CoreInv
  BY InitCore
<1>2. CoreInv /\ [Next]_vars => CoreInv'
  BY NextCore
<1> QED
  BY <1>1, <1>2, PTL DEF Spec

\* Every variable of the scheduler keeps its type: pids, slots, page tables,
\* queue and pipe counters never leave their ranges, whatever sequence of calls,
\* keys and ticks is made (procs of switch.rs, spawn.rs, fd.rs and pipe.rs).
THEOREM SchedTypeOK == Spec => []TypeOK
<1>1. CoreInv => TypeOK
  BY DEF CoreInv, TableOK, RestOK, ControlOK, TypeOK, PipeTables
<1> QED
  BY <1>1, CoreHolds, PTL

\* One process runs, it is the current one, and the kernel never works for a
\* process when there is none (switch_to, timer_from_user, user_exit).
THEOREM SchedRunningIsCurrent == Spec => []RunningIsCurrent
<1>1. CoreInv => RunningIsCurrent
  BY DEF CoreInv, TableOK, ControlOK, RunningIsCurrent
<1> QED
  BY <1>1, CoreHolds, PTL
=============================================================================
