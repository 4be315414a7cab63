----------------------------- MODULE SchedProps -----------------------------
(***************************************************************************)
(* What the scheduler must keep, stated over the states of Sched.          *)
(***************************************************************************)
EXTENDS Sched

Live(s) == procs[s].state # "None"

\* Modes in which the CPU works for the current process.
ProcModes == {"user", "call", "stdin", "wait"}

InProcess == mode \in ProcModes \/ (mode \in {"poll", "event"} /\ after \in {"call", "stdin"})

\* Every variable of the kernel holds a value of its type: slots, pids and pipe
\* ids exist, the key ring is within bounds, and a poll knows where to return.
TypeOK ==
    /\ procs \in [Slots -> Pcb]
    /\ current \in Slots \cup {None}
    /\ next_pid \in 1 .. PID_MAX + 1
    /\ exclusive \in BOOLEAN
    /\ init_pid \in Pids
    /\ pipes \in [PipeIds -> PipeRec]
    /\ wins \in [WinIds -> Pids]
    /\ queue \in 0 .. QUEUE_CAP - 1
    /\ cr3 \in L4s
    /\ cpu_rsp \in Rsps \cup {0}
    /\ mode \in Modes
    /\ after \in {"none", "call", "stdin", "hlt", "kshell"}
    /\ call \in Call

\* At most one process is marked running, and it is the current one; while the
\* CPU works for a process there is a current one (switch_to, timer_from_user,
\* user_exit and leave_scheduler move both together).
RunningIsCurrent ==
    /\ \A s \in Slots : procs[s].state = "Running" => s = current
    /\ InProcess => current # None

\* The CPU never keeps a page table that was freed: if CR3 is not the kernel's,
\* it is the table of the current process, which still has its slot (unload
\* restores the kernel's table before it frees a loaded one).
Cr3Owned ==
    cr3 # 0 => current # None /\ Live(current) /\ procs[current].l4 = cr3

\* A blocked process resumes in the loop it blocked in: the kernel continuation
\* that switch_to restores is the one that yield_block saved for that state.
ResumePoint ==
    \A s \in Slots :
        /\ procs[s].state = "BlockedWait"      => procs[s].kcont.op = "wait"
        /\ procs[s].state = "BlockedStdin"     => procs[s].kcont.op = "read_stdin"
        /\ procs[s].state = "BlockedPipeRead"  => procs[s].kcont.op = "read_pipe"
        /\ procs[s].state = "BlockedPipeWrite" => procs[s].kcont.op = "write_pipe"
        /\ procs[s].state = "Running"          => procs[s].kcont = NoCall

\* The end counters of a pipe equal the descriptors that hold its ends, over all
\* processes: through spawn, close, exit, kill, reaping and failed calls.  A pipe is
\* in use exactly as long as some descriptor holds an end, and is clean otherwise: no
\* pipe is lost, and no old byte gets into a new one.
PipeRefs ==
    \A id \in PipeIds :
        /\ pipes[id].n_readers = Cardinality(EndsOf(procs, Slots, id, FALSE))
        /\ pipes[id].n_writers = Cardinality(EndsOf(procs, Slots, id, TRUE))
        /\ pipes[id].used <=> \E w \in BOOLEAN : EndsOf(procs, Slots, id, w) # {}
        /\ ~pipes[id].used => pipes[id] = empty

\* No wakeup of a pipe is lost: a process blocked on a pipe would block again if
\* it ran now.  Whoever moves bytes or closes an end wakes the blocked.
NoLostPipeWakeup ==
    \A s \in Slots :
        /\ procs[s].state = "BlockedPipeRead"
              => read_result(pipes[procs[s].kcont.id]) = "WouldBlock"
        /\ procs[s].state = "BlockedPipeWrite"
              => write_result(pipes[procs[s].kcont.id]) = "WouldBlock"

\* No wakeup of a parent is lost: while init's session runs, a process blocked
\* in wait has no dead child (exit and Ctrl+C wake the parent; kill need not).
NoMissedChild ==
    ~exclusive => \A s, t \in Slots :
        procs[s].state = "BlockedWait" /\ procs[t].state = "Zombie"
            => procs[t].parent # procs[s].pid

\* A system call returns on the stack it was made with: the value sysretq loads
\* is the caller's stack pointer whenever the CPU is in that call.
SysretStack == call # NoCall => cpu_rsp = call.rsp

\* Death is final: a dead process leaves the table or stays dead.
ZombieStays ==
    [][\A s \in Slots : procs[s].state = "Zombie"
            => procs'[s].state \in {"Zombie", "None"} \/ procs'[s].pid # procs[s].pid]_vars

\* The kernel does not panic: the process it works for has not been reaped under
\* it (the unwraps of yield_block, user_exit, try_reap and sys_kill).
NoPanic == mode # "panic"

\* Round robin does not starve: a runnable process runs, or is killed.
NoStarvation ==
    \A s \in Slots : procs[s].state = "Runnable" ~> procs[s].state # "Runnable"

\* The kernel never shuts interrupts out for good.
IrqWindow == []<>(mode \in IrqModes)

\* A byte typed while a process blocks on standard input is taken: by that
\* process once it is woken, or by another reader.
KeyDelivered ==
    \A s \in Slots : procs[s].state = "BlockedStdin" /\ queue > 0
        ~> procs[s].state # "BlockedStdin" \/ queue = 0
=============================================================================
