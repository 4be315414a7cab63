------------------------------- MODULE Sched -------------------------------
(***************************************************************************)
(* The process scheduler of the kernel: kernel/src/task/sched/             *)
(* {pcb,switch,spawn}.rs, the system calls that change processes, pipes    *)
(* and descriptors (task/fd.rs, task/syscall.rs), the keyboard bytes that  *)
(* wake or kill processes (input/kbd.rs), and the loops of kmain that      *)
(* enter and leave the scheduler (main.rs, boot/init.rs).                  *)
(*                                                                         *)
(* There is one CPU and the kernel is not preemptible: interrupts are off  *)
(* in a system call (SFMask) and in an interrupt handler, except at the    *)
(* halts of schedule_next and read_stdin.  `mode` says where the CPU is,   *)
(* so an action is one stretch of kernel code between two points where     *)
(* something else may happen:                                              *)
(*                                                                         *)
(*   host    kmain's `try_sh` loop            poll    comp::poll, reaping  *)
(*   kshell  kmain's in-kernel shell          event   comp::poll, events   *)
(*   user    ring 3, process `current`        stdin   read_stdin, polled   *)
(*   call    ring 0, system call `call`       wait    read_stdin, halted   *)
(*   sched   head of schedule_next's loop     hlt     schedule_next, halted*)
(*   panic   the kernel has panicked                                       *)
(*                                                                         *)
(* Of a window the model keeps the owner only: placement, pixels, focus    *)
(* and the input queue are not scheduler state.                            *)
(***************************************************************************)
EXTENDS FdTable

CONSTANTS
    MAX_PROC,       \* process slots (8 in the code)
    PID_MAX,        \* bound: spawn fails once this many pids are used
    QUEUE_CAP,      \* slots of the keyboard byte ring; it holds one less
    MAX_SURFACES,   \* window slots (8 in the code)
    Rsps,           \* user stack pointers a system call may be made with
    SpawnFds,       \* descriptors spawn passes on: -1 is "the default one"
    Lens,           \* transfer lengths (at least 1) of read and write
    Calls,          \* system calls the processes of this instance make
    IrqKeys,        \* keys of a PS/2 keyboard: subset of {"key", "ctrlc"}
    PollEvents      \* what comp::poll finds: subset of AllPollEvents

AllCalls == {"exit", "fault", "spawn", "wait", "kill", "pipe", "close",
             "read", "write", "open", "win_create"}

AllPollEvents == {"key", "ctrlc", "launch", "close_frame"}

ASSUME SchedAssumption ==
    /\ MAX_PROC \in Nat \ {0}
    /\ PID_MAX \in Nat \ {0}
    /\ QUEUE_CAP \in Nat /\ QUEUE_CAP >= 2
    /\ MAX_SURFACES \in Nat
    /\ Rsps \subseteq Nat \ {0}
    /\ Lens \subseteq Nat \ {0}
    /\ SpawnFds \subseteq Fds \cup {DEFAULT_FD}
    /\ Calls \subseteq AllCalls
    /\ IrqKeys \subseteq {"key", "ctrlc"}
    /\ PollEvents \subseteq AllPollEvents

Slots == 0 .. MAX_PROC - 1
None  == -1
Pids  == 0 .. PID_MAX
WinIds == 1 .. MAX_SURFACES

\* A kernel page table (0) or the top-level table of a process.
L4s == 0 .. MAX_PROC

\* A system call in progress: the loop it is in, the pipe and the length it
\* moves, and (a history value) the stack pointer it was made with.  It is
\* also what a kernel continuation saves.
CallOps == {"none", "dispatch", "wait", "read_stdin", "read_pipe", "write_pipe"}
Call == [op : CallOps, id : PipeIds, n : Lens \cup {0}, rsp : Rsps \cup {0}]
NoCall == [op |-> "none", id |-> 0, n |-> 0, rsp |-> 0]

States == {"None", "Runnable", "Running", "BlockedStdin", "BlockedWait",
           "BlockedPipeRead", "BlockedPipeWrite", "Zombie"}

\* A slot of the table; state "None" is an empty slot.  kcont is NoCall when
\* the code's kcont_valid is false (KCONTS is read only when it is true).
Pcb == [ pid : Pids, parent : Pids, state : States, l4 : L4s, kcont : Call,
         user_rsp : Rsps \cup {0}, fds : [Fds -> OpenFd],
         spawned_child : BOOLEAN, last_spawned : Pids ]

NoPcb == [ pid |-> 0, parent |-> 0, state |-> "None", l4 |-> 0, kcont |-> NoCall,
           user_rsp |-> 0, fds |-> NoFds, spawned_child |-> FALSE, last_spawned |-> 0 ]

VARIABLES
    procs,      \* Sched.procs
    current,    \* Sched.current, or None
    next_pid,   \* Sched.next_pid
    exclusive,  \* Sched.exclusive
    init_pid,   \* Sched.init_pid
    pipes,      \* the pipe table
    wins,       \* the pid that owns each window slot, 0 when free
    queue,      \* number of bytes in the keyboard ring
    cr3,        \* the page table the CPU uses
    cpu_rsp,    \* CPU_LOCAL.user_rsp: the stack sysretq returns to
    mode,       \* where the CPU is
    after,      \* where comp::poll returns to, "none" outside it
    call        \* the system call the CPU executes, NoCall outside one

table == <<procs, current, next_pid, exclusive, init_pid>>
cpu   == <<cr3, cpu_rsp>>
vars  == <<procs, current, next_pid, exclusive, init_pid, pipes, wins, queue,
           cr3, cpu_rsp, mode, after, call>>

Modes == {"host", "kshell", "user", "call", "poll", "event", "stdin", "wait", "sched", "hlt",
          "panic"}

\* Modes in which interrupts are enabled.
IrqModes == {"host", "kshell", "user", "wait", "hlt"}

Init ==
    /\ procs = [s \in Slots |-> NoPcb]
    /\ current = None
    /\ next_pid = 1
    /\ exclusive = FALSE
    /\ init_pid = 0
    /\ pipes = [i \in PipeIds |-> empty]
    /\ wins = [i \in WinIds |-> 0]
    /\ queue = 0
    /\ cr3 = 0
    /\ cpu_rsp = 0
    /\ mode = "host"
    /\ after = "none"
    /\ call = NoCall

-----------------------------------------------------------------------------
(* Helpers on the table.                                                   *)

free_slots(ps) == {s \in Slots : ps[s].state = "None"}
WithPid(ps, pid) == {s \in Slots : ps[s].state # "None" /\ ps[s].pid = pid}

\* The wake functions make every process in one of the states runnable.
Wake(ps, states) ==
    [s \in Slots |-> IF ps[s].state \in states
                     THEN [ps[s] EXCEPT !.state = "Runnable"] ELSE ps[s]]

wake_stdin(ps) == Wake(ps, {"BlockedStdin"})
wake_pipe(ps)  == Wake(ps, {"BlockedPipeRead", "BlockedPipeWrite"})

\* Slip: whatever state the parent is in, it becomes runnable.
WakeWaiter_slip(ps, pid) ==
    [s \in Slots |-> IF ps[s].state # "None" /\ ps[s].pid = pid
                     THEN [ps[s] EXCEPT !.state = "Runnable"] ELSE ps[s]]

\* The processes that wait for a child, if they have the given pid.
WakeWaiter(ps, pid) ==
    [s \in Slots |-> IF ps[s].pid = pid /\ ps[s].state = "BlockedWait"
                     THEN [ps[s] EXCEPT !.state = "Runnable"] ELSE ps[s]]

\* Slip: nobody is told of the child's end.
wake_parent_of_slot_slip(ps, s) == ps

wake_parent_of_slot(ps, s) ==
    IF ps[s].parent = 0 THEN ps ELSE WakeWaiter(ps, ps[s].parent)

make_zombie(ps, v) ==
    wake_pipe([ps EXCEPT ![v].fds = NoFds, ![v].state = "Zombie", ![v].kcont = NoCall])

\* The descriptors, in the tables of the slots S, that hold one pipe end.
EndsOf(ps, S, id, write) == {x \in S \X Fds : ps[x[1]].fds[x[2]] = PipeEnd(id, write)}

\* FdTable::close_all on the tables of the slots S, as it changes the pipes.
ClosedBy(S) ==
    [id \in PipeIds |-> drop_ends(pipes[id], Cardinality(EndsOf(procs, S, id, FALSE)),
                                             Cardinality(EndsOf(procs, S, id, TRUE)))]

\* Slip: a page table may be freed while the CPU uses it.
unload_slip(S) == cr3

\* elfload::unload of the images of the slots S, as it changes CR3: an image
\* whose table is loaded is freed only after the kernel's own is restored.
unload(S) == IF \E s \in S : procs[s].l4 = cr3 THEN 0 ELSE cr3

has_runnable_other ==
    \E s \in Slots \ {current} : procs[s].state \in {"Runnable", "Running"}

\* The slots of a cyclic scan, numbered by the order in which it meets them.
Scan(start, s) == (s - start + MAX_PROC) % MAX_PROC

\* The first slot of S in a cyclic scan that begins at start.
FirstFrom(S, start) == CHOOSE s \in S : \A t \in S : Scan(start, s) <= Scan(start, t)

start_slot == (current + 1) % MAX_PROC

runnable == {s \in Slots : procs[s].state \in {"Runnable", "Running"}}
pick_runnable == FirstFrom(runnable, start_slot)

runnable_other == {s \in Slots \ {current} : procs[s].state = "Runnable"}
\* Slip: the scan always begins at slot 0.
pick_runnable_other_slip == First(runnable_other)

pick_runnable_other == FirstFrom(runnable_other, start_slot)

\* Slip: the ring is never full.
enqueue_slip(q) == q + 1

\* A byte that reaches a full ring is lost.
enqueue(q) == IF q = QUEUE_CAP - 1 THEN q ELSE q + 1

-----------------------------------------------------------------------------
(* Creating a process.                                                     *)

\* The page table of a new image: the first frame no process owns.
new_user_l4 == First((L4s \ {0}) \ {procs[s].l4 : s \in Slots})

new_pcb(pid, parent, fds, l4, state) ==
    [NoPcb EXCEPT !.pid = pid, !.parent = parent, !.state = state, !.l4 = l4, !.fds = fds]

\* insert_pcb's last part: the parent remembers its youngest child.
note_child(ps, parent, pid) ==
    IF parent = 0 THEN ps
    ELSE [ps EXCEPT ![First(WithPid(ps, parent))].spawned_child = TRUE,
                    ![First(WithPid(ps, parent))].last_spawned = pid]

insert_pcb(parent, fds) ==
    /\ free_slots(procs) # {}
    /\ next_pid <= PID_MAX
    /\ procs' = note_child(
          [procs EXCEPT ![First(free_slots(procs))] =
              new_pcb(next_pid, parent, fds, new_user_l4, "Runnable")],
          parent, next_pid)
    /\ next_pid' = next_pid + 1

\* run_with, when the image's argument block is written and a slot is free.
run_with(excl) ==
    /\ free_slots(procs) # {}
    /\ LET slot == First(free_slots(procs)) IN
       /\ procs' = [procs EXCEPT ![slot] =
                       new_pcb(1, 0, new_stdio, new_user_l4, "Running")]
       /\ current' = slot
       /\ cr3' = new_user_l4
    /\ cpu_rsp' = 0
    /\ next_pid' = 2
    /\ init_pid' = 1
    /\ exclusive' = excl
    /\ mode' = "user"

\* run_with when it cannot: the counters are reset, nothing is entered.
run_with_fails(excl) ==
    /\ next_pid' = 1
    /\ init_pid' = 0
    /\ exclusive' = excl
    /\ current' = None
    /\ mode' = "kshell"
    /\ UNCHANGED <<procs, cr3, cpu_rsp>>

-----------------------------------------------------------------------------
(* Keyboard bytes (kbd::enqueue_or_kill).                                  *)

waiters == {s \in Slots : procs[s].state = "BlockedWait"}

\* What kill_foreground kills: the youngest child of the first process, in
\* slot order, that waits for one.
victims ==
    IF waiters = {} THEN {}
    ELSE LET last == procs[First(waiters)].last_spawned IN
         {s \in WithPid(procs, last) : /\ last # 0 /\ last # init_pid
                                       /\ procs[s].state # "Zombie"}

kill_foreground ==
    LET v == First(victims) IN
    /\ victims # {}
    /\ procs' = WakeWaiter(make_zombie(procs, v), procs[v].parent)
    /\ pipes' = ClosedBy({v})
    /\ UNCHANGED queue

\* Slip: the readers are not woken.
enqueue_byte_slip == queue' = enqueue(queue) /\ UNCHANGED <<procs, pipes>>

enqueue_byte ==
    /\ queue' = enqueue(queue)
    /\ procs' = wake_stdin(procs)
    /\ UNCHANGED pipes

enqueue_or_kill(key) ==
    \/ key = "ctrlc" /\ kill_foreground
    \/ (key = "ctrlc" => victims = {}) /\ enqueue_byte

\* keyboard_interrupt.  A process killed while it was current is left at
\* once; else the interrupted code goes on, and a halt returns.
KeyIrq(key) ==
    /\ mode \in IrqModes
    /\ enqueue_or_kill(key)
    /\ mode' = IF mode = "hlt" \/ (current # None /\ procs'[current].state = "Zombie")
               THEN "sched"
               ELSE IF mode = "wait" THEN "call" ELSE mode
    /\ call' = IF mode' = "sched" THEN NoCall ELSE call
    /\ UNCHANGED <<current, next_pid, exclusive, init_pid, wins, cpu, after>>

-----------------------------------------------------------------------------
(* Switching.                                                              *)

\* What the CPU does once procs holds slot as current and running: it loads
\* the process's page table and stack pointer (apply_hw) and continues either
\* its kernel continuation, which is thereby used up, or its user code.
Resume(ps, slot) ==
    /\ procs' = [ps EXCEPT ![slot].state = "Running", ![slot].kcont = NoCall]
    /\ current' = slot
    /\ cr3' = ps[slot].l4
    /\ cpu_rsp' = ps[slot].user_rsp
    /\ call' = ps[slot].kcont
    /\ mode' = IF ps[slot].kcont = NoCall THEN "user" ELSE "call"

\* Slip: the stack pointer is not saved.
Leave_slip(ps, c, slot) ==
    IF c = None \/ c = slot \/ ps[c].state = "None" THEN ps
    ELSE [ps EXCEPT ![c].state = IF @ = "Running" THEN "Runnable" ELSE @]

\* A process that is switched from keeps its stack pointer in its PCB.
Leave(ps, c, slot) ==
    IF c = None \/ c = slot \/ ps[c].state = "None" THEN ps
    ELSE [ps EXCEPT ![c].state = IF @ = "Running" THEN "Runnable" ELSE @,
                    ![c].user_rsp = cpu_rsp]

switch_to(slot) == Resume(Leave(procs, current, slot), slot)

\* The head of schedule_next's loop.
SchedPick ==
    /\ mode = "sched"
    /\ runnable # {}
    /\ switch_to(pick_runnable)
    /\ UNCHANGED <<next_pid, exclusive, init_pid, pipes, wins, queue, after>>

SchedIdle ==
    /\ mode = "sched"
    /\ runnable = {}
    /\ mode' = "poll"
    /\ after' = "hlt"
    /\ UNCHANGED <<table, pipes, wins, queue, cpu, call>>

\* The timer ends a halt: of schedule_next, or of read_stdin.
TimerKernel ==
    /\ mode \in {"hlt", "wait"}
    /\ mode' = IF mode = "hlt" THEN "sched" ELSE "call"
    /\ UNCHANGED <<table, pipes, wins, queue, cpu, after, call>>

\* Slip: the preempted process stays marked as running.
TimerUser_slip ==
    /\ mode = "user"
    /\ runnable_other # {}
    /\ Resume([procs EXCEPT ![current].user_rsp = cpu_rsp], pick_runnable_other)
    /\ UNCHANGED <<next_pid, exclusive, init_pid, pipes, wins, queue, after>>

\* The timer in ring 3: the next runnable process, if there is one.  A tick
\* that finds none changes nothing.
TimerUser ==
    /\ mode = "user"
    /\ IF procs[current].state \in {"None", "Zombie"}
       THEN /\ mode' = "sched"
            /\ UNCHANGED <<procs, current, cpu, call>>
       ELSE /\ runnable_other # {}
            /\ Resume([procs EXCEPT ![current].state = "Runnable",
                                    ![current].kcont = NoCall,
                                    ![current].user_rsp = cpu_rsp],
                      pick_runnable_other)
    /\ UNCHANGED <<next_pid, exclusive, init_pid, pipes, wins, queue, after>>

\* Slip: kcont_valid is not set.
yield_block_slip(ps, state) ==
    /\ procs' = [ps EXCEPT ![current].state = state]
    /\ mode' = "sched"
    /\ call' = NoCall

\* A process gives the CPU up inside a system call.
yield_block(ps, state) ==
    /\ procs' = [ps EXCEPT ![current].state = state, ![current].kcont = call]
    /\ mode' = "sched"
    /\ call' = NoCall

-----------------------------------------------------------------------------
(* comp::poll: at the start of a system call, before read_stdin waits,     *)
(* when schedule_next is idle, and in the in-kernel shell's loop.          *)

orphans == {s \in Slots : procs[s].parent = 0 /\ procs[s].state = "Zombie"}

PollReap ==
    /\ mode = "poll"
    /\ procs' = [s \in Slots |-> IF s \in orphans THEN NoPcb ELSE procs[s]]
    /\ pipes' = ClosedBy(orphans)
    /\ cr3' = unload(orphans)
    /\ mode' = "event"
    /\ UNCHANGED <<current, next_pid, exclusive, init_pid, wins, queue, cpu_rsp, after, call>>

\* A key of a USB keyboard, or a byte that a launcher entry types.
PollKey(key) ==
    /\ mode = "event"
    /\ enqueue_or_kill(key)
    /\ UNCHANGED <<current, next_pid, exclusive, init_pid, wins, cpu, mode, after, call>>

\* The launcher starts a program: spawn_path.
PollLaunch ==
    /\ mode = "event"
    /\ insert_pcb(0, new_stdio)
    /\ UNCHANGED <<current, exclusive, init_pid, pipes, wins, queue, cpu, mode, after, call>>

\* The close button of a client's frame: win::drop_id.
PollCloseFrame(id) ==
    /\ mode = "event"
    /\ wins[id] # 0
    /\ wins' = [wins EXCEPT ![id] = 0]
    /\ UNCHANGED <<table, pipes, queue, cpu, mode, after, call>>

PollDone ==
    /\ mode = "event"
    /\ mode' = after
    /\ after' = "none"
    /\ UNCHANGED <<table, pipes, wins, queue, cpu, call>>

-----------------------------------------------------------------------------
(* The end of a process.                                                   *)

\* leave_scheduler: every process is unloaded and kmain continues, with the
\* next shell after an init that exited, else with the in-kernel shell.
leave_scheduler(outcome) ==
    /\ procs' = [s \in Slots |-> NoPcb]
    /\ pipes' = ClosedBy(Slots)
    /\ current' = None
    /\ exclusive' = FALSE
    /\ init_pid' = 0
    /\ cr3' = 0
    /\ mode' = IF outcome = "Exited" /\ ~exclusive THEN "host" ELSE "kshell"

user_exit(outcome) ==
    /\ wins' = [i \in WinIds |-> IF wins[i] = procs[current].pid THEN 0 ELSE wins[i]]
    /\ call' = NoCall
    /\ \/ /\ exclusive \/ procs[current].pid = init_pid
          /\ leave_scheduler(outcome)
       \/ /\ ~exclusive /\ procs[current].pid # init_pid
          /\ procs' = wake_parent_of_slot(make_zombie(procs, current), current)
          /\ pipes' = ClosedBy({current})
          /\ mode' = "sched"
          /\ UNCHANGED <<current, exclusive, init_pid, cr3>>
    /\ UNCHANGED <<next_pid, queue, cpu_rsp, after>>

\* A process may fault in ring 3, and must if its page table is gone.
may_fault == mode = "user" /\ ("fault" \in Calls \/ cr3 = 0)

\* A page or protection fault in ring 3.
UserFault ==
    /\ may_fault /\ procs[current].state # "None"
    /\ user_exit("Fault")

-----------------------------------------------------------------------------
(* System calls.                                                           *)

\* syscall_entry and the poll at the head of syscall_dispatch.
Syscall(rsp) ==
    /\ mode = "user" /\ cr3 # 0
    /\ cpu_rsp' = rsp
    /\ call' = [NoCall EXCEPT !.op = "dispatch", !.rsp = rsp]
    /\ mode' = "poll"
    /\ after' = "call"
    /\ UNCHANGED <<table, pipes, wins, queue, cr3>>

Asked(name) == mode = "call" /\ call.op = "dispatch" /\ name \in Calls

\* The calls need the caller's PCB; without one they fail, which is SysOther,
\* or panic.
Dispatch(name) == Asked(name) /\ procs[current].state # "None"
InCall(op) == mode = "call" /\ call.op = op

\* The call returns to user code (sysretq).
SysReturn == mode' = "user" /\ call' = NoCall

\* The call enters the loop op.
Enter(op, id, n) ==
    /\ call' = [call EXCEPT !.op = op, !.id = id, !.n = n]
    /\ UNCHANGED <<table, pipes, wins, queue, cpu, mode, after>>

my_fds == procs[current].fds

\* A call that changes none of this state: ps, clock_ms, files, an error.
SysOther ==
    /\ InCall("dispatch")
    /\ SysReturn
    /\ UNCHANGED <<table, pipes, wins, queue, cpu, after>>

SysExit == Dispatch("exit") /\ user_exit("Exited")

\* The table of a child: a process's pid selects whose descriptors are passed on.
child_fds(parent, stdin_fd, stdout_fd) ==
    IF parent = 0 THEN [ok |-> TRUE, fds |-> new_stdio, pipes |-> pipes]
    ELSE inherit_from(pipes, procs[First(WithPid(procs, parent))].fds, stdin_fd, stdout_fd)

SysSpawn(stdin_fd, stdout_fd) ==
    LET inh == child_fds(procs[current].pid, stdin_fd, stdout_fd) IN
    /\ Asked("spawn")
    /\ inh.ok
    /\ insert_pcb(procs[current].pid, inh.fds)
    /\ pipes' = inh.pipes
    /\ SysReturn
    /\ UNCHANGED <<current, exclusive, init_pid, wins, queue, cpu, after>>

\* A slot or a descriptor is missing (a missing file or image is SysOther).
SysSpawnFails(stdin_fd, stdout_fd) ==
    LET inh == child_fds(procs[current].pid, stdin_fd, stdout_fd) IN
    /\ Asked("spawn")
    /\ free_slots(procs) = {} \/ ~inh.ok
    /\ pipes' = IF free_slots(procs) = {} THEN pipes ELSE inh.pipes
    /\ SysReturn
    /\ UNCHANGED <<table, wins, queue, cpu, after>>

\* sys_kill: only a child, never init, and not one that is dead already.
SysKill(pid) ==
    LET v == First(WithPid(procs, pid)) IN
    /\ Dispatch("kill")
    /\ pid # init_pid /\ WithPid(procs, pid) # {}
    /\ procs[v].parent = procs[current].pid /\ procs[v].state # "Zombie"
    /\ procs' = make_zombie(procs, v)
    /\ pipes' = ClosedBy({v})
    /\ SysReturn
    /\ UNCHANGED <<current, next_pid, exclusive, init_pid, wins, queue, cpu, after>>

SysWait == Dispatch("wait") /\ Enter("wait", 0, 0)

dead_children == {s \in Slots : /\ procs[s].parent = procs[current].pid
                                /\ procs[s].state = "Zombie"}

\* One turn of sys_wait's loop (try_reap).
WaitReap ==
    LET i == First(dead_children) IN
    /\ InCall("wait")
    /\ dead_children # {}
    /\ procs' = [procs EXCEPT ![i] = NoPcb]
    /\ pipes' = ClosedBy({i})
    /\ cr3' = unload({i})
    /\ SysReturn
    /\ UNCHANGED <<current, next_pid, exclusive, init_pid, wins, queue, cpu_rsp, after>>

WaitNone ==
    /\ InCall("wait")
    /\ dead_children = {} /\ ~procs[current].spawned_child
    /\ SysReturn
    /\ UNCHANGED <<table, pipes, wins, queue, cpu, after>>

\* Slip: the parent stays runnable and asks again.
WaitBlock_slip ==
    /\ InCall("wait")
    /\ dead_children = {} /\ procs[current].spawned_child
    /\ yield_block(procs, "Runnable")
    /\ UNCHANGED <<current, next_pid, exclusive, init_pid, pipes, wins, queue, cpu, after>>

WaitBlock ==
    /\ InCall("wait")
    /\ dead_children = {} /\ procs[current].spawned_child
    /\ yield_block(procs, "BlockedWait")
    /\ UNCHANGED <<current, next_pid, exclusive, init_pid, pipes, wins, queue, cpu, after>>

-----------------------------------------------------------------------------
(* Descriptors, pipes, standard input and windows.                         *)

SysOpen(kind) ==
    /\ Dispatch("open")
    /\ free_fds(my_fds) # {}
    /\ procs' = [procs EXCEPT ![current].fds = fd_alloc(@, Plain(kind))]
    /\ SysReturn
    /\ UNCHANGED <<current, next_pid, exclusive, init_pid, pipes, wins, queue, cpu, after>>

SysPipe ==
    LET id == First(pipe_free(pipes)) IN
    /\ Dispatch("pipe")
    /\ pipe_free(pipes) # {} /\ Cardinality(free_fds(my_fds)) >= 2
    /\ pipes' = pipe_alloc(pipes)
    /\ procs' = [procs EXCEPT ![current].fds =
                    fd_alloc(fd_alloc(@, PipeEnd(id, FALSE)), PipeEnd(id, TRUE))]
    /\ SysReturn
    /\ UNCHANGED <<current, next_pid, exclusive, init_pid, wins, queue, cpu, after>>

\* Slip: the new pipe is forgotten with both ends counted.
SysPipeFails_slip ==
    /\ Dispatch("pipe")
    /\ pipe_free(pipes) # {} /\ Cardinality(free_fds(my_fds)) < 2
    /\ pipes' = pipe_alloc(pipes)
    /\ SysReturn
    /\ UNCHANGED <<table, wins, queue, cpu, after>>

\* Too few descriptors: both ends of the new pipe are dropped again.
SysPipeFails ==
    LET id == First(pipe_free(pipes)) IN
    /\ Dispatch("pipe")
    /\ pipe_free(pipes) # {} /\ Cardinality(free_fds(my_fds)) < 2
    /\ pipes' = [pipe_alloc(pipes) EXCEPT ![id] = drop_end(drop_end(@, FALSE), TRUE)]
    /\ SysReturn
    /\ UNCHANGED <<table, wins, queue, cpu, after>>

\* Slip: those blocked on the pipe are not woken.
SysClose_slip(fd) ==
    /\ Dispatch("close")
    /\ fd > 2 /\ my_fds[fd] # Closed
    /\ pipes' = drop_open(pipes, my_fds[fd])
    /\ procs' = [procs EXCEPT ![current].fds[fd] = Closed]
    /\ SysReturn
    /\ UNCHANGED <<current, next_pid, exclusive, init_pid, wins, queue, cpu, after>>

SysClose(fd) ==
    /\ Dispatch("close")
    /\ fd > 2 /\ my_fds[fd] # Closed
    /\ pipes' = drop_open(pipes, my_fds[fd])
    /\ procs' = wake_pipe([procs EXCEPT ![current].fds[fd] = Closed])
    /\ SysReturn
    /\ UNCHANGED <<current, next_pid, exclusive, init_pid, wins, queue, cpu, after>>

SysRead(fd, n) ==
    /\ Dispatch("read")
    /\ \/ my_fds[fd].kind = "Stdin" /\ Enter("read_stdin", 0, n)
       \/ my_fds[fd].kind = "Pipe" /\ ~my_fds[fd].write
          /\ Enter("read_pipe", my_fds[fd].id, n)

SysWrite(fd, n) ==
    /\ Dispatch("write")
    /\ my_fds[fd].kind = "Pipe" /\ my_fds[fd].write
    /\ Enter("write_pipe", my_fds[fd].id, n)

\* One turn of read_pipe's loop.
ReadPipe ==
    LET p == pipes[call.id] IN
    /\ InCall("read_pipe")
    /\ \/ /\ read_result(p) = "Data"
          /\ pipes' = [pipes EXCEPT ![call.id] = read_pipe_buf(@, call.n)]
          /\ procs' = wake_pipe(procs)
          /\ SysReturn
       \/ /\ read_result(p) = "Eof"
          /\ SysReturn
          /\ UNCHANGED <<pipes, procs>>
       \/ /\ read_result(p) = "WouldBlock"
          /\ yield_block(wake_pipe(procs), "BlockedPipeRead")
          /\ UNCHANGED pipes
    /\ UNCHANGED <<current, next_pid, exclusive, init_pid, wins, queue, cpu, after>>

\* One turn of write_pipe's loop.  What the bytes are does not matter here.
WritePipe ==
    LET p == pipes[call.id] IN
    /\ InCall("write_pipe")
    /\ \/ /\ write_result(p) = "Data"
          /\ pipes' = [pipes EXCEPT ![call.id] =
                          write_pipe_buf(@, [i \in 1 .. call.n |-> ZeroByte])]
          /\ procs' = wake_pipe(procs)
          /\ SysReturn
       \/ /\ write_result(p) = "Broken"
          /\ SysReturn
          /\ UNCHANGED <<pipes, procs>>
       \/ /\ write_result(p) = "WouldBlock"
          /\ yield_block(wake_pipe(procs), "BlockedPipeWrite")
          /\ UNCHANGED pipes
    /\ UNCHANGED <<current, next_pid, exclusive, init_pid, wins, queue, cpu, after>>

\* read_stdin's loop: take a byte, or poll and then block or halt.
StdinByte ==
    /\ InCall("read_stdin")
    /\ queue > 0
    /\ queue' = queue - 1
    /\ SysReturn
    /\ UNCHANGED <<table, pipes, wins, cpu, after>>

StdinPoll ==
    /\ InCall("read_stdin")
    /\ queue = 0
    /\ mode' = "poll"
    /\ after' = "stdin"
    /\ UNCHANGED <<table, pipes, wins, queue, cpu, call>>

StdinBlock ==
    /\ mode = "stdin" /\ procs[current].state # "None"
    /\ has_runnable_other
    /\ yield_block(procs, "BlockedStdin")
    /\ UNCHANGED <<current, next_pid, exclusive, init_pid, pipes, wins, queue, cpu, after>>

StdinHalt ==
    /\ mode = "stdin"
    /\ ~has_runnable_other
    /\ mode' = "wait"
    /\ UNCHANGED <<table, pipes, wins, queue, cpu, after, call>>

\* The places that unwrap the PCB of the current process: exit, fault, wait,
\* kill and yield_block.
unwraps ==
    \/ may_fault
    \/ mode = "stdin" /\ has_runnable_other
    \/ \E name \in {"exit", "wait", "kill"} : Asked(name)

Panic ==
    /\ unwraps /\ procs[current].state = "None"
    /\ mode' = "panic"
    /\ UNCHANGED <<table, pipes, wins, queue, cpu, after, call>>

free_wins == {i \in WinIds : wins[i] = 0}

SysWinCreate ==
    /\ Dispatch("win_create")
    /\ free_wins # {}
    /\ wins' = [wins EXCEPT ![First(free_wins)] = procs[current].pid]
    /\ SysReturn
    /\ UNCHANGED <<table, pipes, queue, cpu, after>>

-----------------------------------------------------------------------------
(* kmain.                                                                  *)

\* try_sh: run /sh as init, or give up for the in-kernel shell.
HostRunInit ==
    /\ mode = "host"
    /\ run_with(FALSE)
    /\ UNCHANGED <<pipes, wins, queue, after, call>>

HostGiveUp ==
    /\ mode = "host"
    /\ \/ run_with_fails(FALSE)
       \/ mode' = "kshell" /\ UNCHANGED <<table, cpu>>
    /\ UNCHANGED <<pipes, wins, queue, after, call>>

\* The in-kernel shell takes a byte; one that ends a `run` command starts a
\* program, alone.
KshellByte ==
    /\ mode = "kshell"
    /\ queue > 0
    /\ queue' = queue - 1
    /\ \/ UNCHANGED <<table, cpu, mode>>
       \/ run_with(TRUE)
       \/ run_with_fails(TRUE)
    /\ UNCHANGED <<pipes, wins, after, call>>

KshellPoll ==
    /\ mode = "kshell"
    /\ queue = 0
    /\ mode' = "poll"
    /\ after' = "kshell"
    /\ UNCHANGED <<table, pipes, wins, queue, cpu, call>>

-----------------------------------------------------------------------------
\* Steps of the kernel that nothing outside it delays.
PollStep == PollReap \/ PollDone
SchedStep == SchedPick \/ SchedIdle
WaitStep == WaitReap \/ WaitNone \/ WaitBlock
StdinStep == StdinByte \/ StdinPoll \/ StdinBlock \/ StdinHalt
KmainStep == HostRunInit \/ HostGiveUp \/ KshellByte \/ KshellPoll

\* What a process asks for.
DispatchStep ==
    \/ SysOther \/ SysExit \/ SysWait \/ SysPipe \/ SysPipeFails \/ SysWinCreate
    \/ \E a, b \in SpawnFds : SysSpawn(a, b) \/ SysSpawnFails(a, b)
    \/ \E pid \in Pids : SysKill(pid)
    \/ \E k \in {"File", "Dir"} : SysOpen(k)
    \/ \E fd \in Fds : SysClose(fd)
    \/ \E fd \in Fds, n \in Lens : SysRead(fd, n) \/ SysWrite(fd, n)

KernelStep == \/ Panic \/ PollStep \/ SchedStep \/ WaitStep \/ StdinStep \/ KmainStep
              \/ DispatchStep \/ ReadPipe \/ WritePipe

UserStep == UserFault \/ \E rsp \in Rsps : Syscall(rsp)

Timer == TimerKernel \/ TimerUser

InputStep ==
    \/ \E key \in IrqKeys : KeyIrq(key)
    \/ \E key \in {"key", "ctrlc"} \cap PollEvents : PollKey(key)
    \/ "launch" \in PollEvents /\ PollLaunch
    \/ "close_frame" \in PollEvents /\ \E id \in WinIds : PollCloseFrame(id)

Next == KernelStep \/ UserStep \/ Timer \/ InputStep

Spec == Init /\ [][Next]_vars

\* The kernel runs on and the timer ticks; what processes and the user at the
\* keyboard do is up to them.  A tick that comes while interrupts are off is
\* held by the LAPIC and taken on return to ring 3, hence strong fairness: a
\* process cannot dodge the timer by making system calls all the time.
FairSpec == /\ Spec
            /\ WF_vars(KernelStep) /\ WF_vars(PollDone)
            /\ WF_vars(TimerKernel) /\ SF_vars(TimerUser)
=============================================================================
