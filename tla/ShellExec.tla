----------------------------- MODULE ShellExec -----------------------------
(***************************************************************************)
(* How the shell runs programs: apps/sh/src/exec.rs, path.rs and the parts *)
(* of main.rs that start programs or run scripts.  The shell takes a       *)
(* system call at a time, and its children run in between; the kernel's    *)
(* side of the calls (Sched.tla, FdTable.tla, Pipe.tla) is external here:  *)
(* any of them may fail, and wait takes the first dead child by its slot.  *)
(***************************************************************************)
EXTENDS Integers, Sequences, FiniteSets, SequencesExt

CONSTANTS
    MAX_STAGES, MAX_WORDS,
    FD_MAX,         \* descriptors of the shell
    PROCS,          \* process slots its children may have
    PIPES,          \* pipes of the kernel
    PS_MAX,         \* processes a `ps` of the shell's buffer shows
    CmdLines        \* lines as sequences of "w" (a word), "|", "<" and ">"

ASSUME ShellConstants ==
    /\ MAX_STAGES \in Nat \ {0} /\ MAX_WORDS \in Nat \ {0} /\ PS_MAX \in Nat
    /\ FD_MAX \in Nat /\ FD_MAX >= 3 /\ PROCS \in Nat \ {0} /\ PIPES \in Nat

VARIABLES
    sfd,        \* the shell's descriptors
    kids,       \* its children, by slot
    sx,         \* the line being run
    scripts,    \* descriptors of the scripts being sourced, the innermost last
    clocks      \* clocks started so far, and never waited for

shellVars == <<sfd, kids, sx, scripts, clocks>>

Obj(k, p) == [k |-> k, p |-> p]
Free == Obj("free", 0)
Tty == Obj("tty", 0)
NoKid == [name |-> "none", st |-> "none", in |-> Tty, out |-> Tty]
AtPrompt == [pc |-> "prompt", stages |-> <<>>, pipes |-> <<>>, extra |-> <<>>, pids |-> <<>>, waits |-> 0]

----------------------------------------------------------------------------
\* The kernel: descriptors, pipe ends and children.
FreeFds(t) == {f \in DOMAIN t : t[f] = Free}
LowestOf(S) == CHOOSE x \in S : \A y \in S : x <= y
Close(t, S) == [f \in DOMAIN t |-> IF f \in S THEN Free ELSE t[f]]

Running == {s \in DOMAIN kids : kids[s].st = "run"}
Dead == {s \in DOMAIN kids : kids[s].st = "zombie"}
Slots == {s \in DOMAIN kids : kids[s].st = "none"}

EndHeld(o) == \/ \E f \in DOMAIN sfd : sfd[f] = o
           \/ \E s \in Running : o \in {kids[s].in, kids[s].out}
IdlePipes == {p \in 1 .. PIPES : ~EndHeld(Obj("r", p)) /\ ~EndHeld(Obj("w", p))}

Kid(name, in, out) == [name |-> name, st |-> "run", in |-> in, out |-> out]

\* A child waits for bytes of a pipe that someone may still write, or for room in a pipe
\* that is held open for reading and that no process reads.
Blocked(s) ==
    \/ kids[s].in.k = "r" /\ EndHeld(Obj("w", kids[s].in.p))
    \/ /\ kids[s].out.k = "w" /\ EndHeld(Obj("r", kids[s].out.p))
       /\ \A t \in Running : kids[t].in # Obj("r", kids[s].out.p)

KidEnds(s) ==
    /\ kids' = [kids EXCEPT ![s] = [@ EXCEPT !.st = "zombie", !.in = Tty, !.out = Tty]]
    /\ UNCHANGED <<sfd, sx, scripts, clocks>>

\* A program that is not blocked comes to its end; the clock has none.
KidExit(s) == s \in Running /\ kids[s].name # "clock" /\ ~Blocked(s) /\ KidEnds(s)

\* Any program may end before its input does, by a fault, a Ctrl+C or of its own accord.
KidQuits(s) == s \in Running /\ KidEnds(s)

----------------------------------------------------------------------------
\* parse: stages of words, with the files the first reads and the last writes.
is_meta(t) == t \in {"|", "<", ">"}
EmptyStage == [words |-> 0, in |-> FALSE, out |-> FALSE]

ParseToken(p, t) ==
    LET n == Len(p.stages)
        st == p.stages[n]
        bad == [p EXCEPT !.err = TRUE]
    IN  CASE p.err -> p
          [] p.expect = "<" -> IF is_meta(t) \/ st.in THEN bad
                               ELSE [p EXCEPT !.expect = "", !.stages[n].in = TRUE]
          [] p.expect = ">" -> IF is_meta(t) \/ st.out THEN bad
                               ELSE [p EXCEPT !.expect = "", !.stages[n].out = TRUE]
          [] p.expect = "" /\ t = "|" -> IF st.words = 0 \/ n >= MAX_STAGES THEN bad
                                         ELSE [p EXCEPT !.stages = Append(@, EmptyStage)]
          [] p.expect = "" /\ t \in {"<", ">"} -> [p EXCEPT !.expect = t]
          [] OTHER -> IF st.words >= MAX_WORDS THEN bad ELSE [p EXCEPT !.stages[n].words = @ + 1]

parse(line) ==
    LET p == FoldLeft(ParseToken, [err |-> FALSE, expect |-> "", stages |-> <<EmptyStage>>], line)
        n == Len(p.stages)
    IN  [p EXCEPT !.err = @ \/ p.expect # "" \/ p.stages[n].words = 0
                            \/ \E i \in 1 .. n : (i > 1 /\ p.stages[i].in) \/ (i < n /\ p.stages[i].out)]

----------------------------------------------------------------------------
\* run_line.  A line that does not parse is only complained about.
run_line(line) ==
    /\ sx.pc = "prompt" /\ \E i \in DOMAIN line : is_meta(line[i])
    /\ LET p == parse(line)
       IN  sx' = IF p.err THEN sx ELSE [AtPrompt EXCEPT !.pc = "pipe", !.stages = p.stages]
    /\ UNCHANGED <<sfd, kids, scripts, clocks>>

PipeFds == UNION {{sx.pipes[i][1], sx.pipes[i][2]} : i \in DOMAIN sx.pipes}
ExtraFds == {sx.extra[i] : i \in DOMAIN sx.extra}

\* The pipes between the stages; when one fails, those made are closed again.
MakePipe ==
    /\ sx.pc = "pipe" /\ Len(sx.pipes) < Len(sx.stages) - 1
    /\ \/ /\ IdlePipes # {} /\ Cardinality(FreeFds(sfd)) >= 2
          /\ LET p == LowestOf(IdlePipes)
                 r == LowestOf(FreeFds(sfd))
                 w == LowestOf(FreeFds(sfd) \ {r})
             IN  /\ sfd' = [sfd EXCEPT ![r] = Obj("r", p), ![w] = Obj("w", p)]
                 /\ sx' = [sx EXCEPT !.pipes = Append(@, <<r, w>>)]
       \/ /\ IdlePipes = {} \/ Cardinality(FreeFds(sfd)) < 2
          /\ sfd' = Close(sfd, PipeFds) /\ sx' = AtPrompt
    /\ UNCHANGED <<kids, scripts, clocks>>

StartStage_slip(got) ==
    /\ sx.pc = "pipe" /\ Len(sx.pipes) = Len(sx.stages) - 1 /\ Len(sx.pids) < Len(sx.stages)
    /\ LET i == Len(sx.pids) + 1
           st == sx.stages[i]
           n == (IF st.in THEN 1 ELSE 0) + (IF st.out THEN 1 ELSE 0)
           a == LowestOf(FreeFds(sfd))
           opened == CASE got = 0 -> <<>>
                       [] got = 1 -> <<a>>
                       [] got = 2 -> <<a, LowestOf(FreeFds(sfd) \ {a})>>
           in == IF st.in THEN Obj("file", 0) ELSE IF i > 1 THEN sfd[sx.pipes[i - 1][1]] ELSE Tty
           out == IF st.out THEN Obj("file", 0)
                  ELSE IF sx.pipes # <<>> THEN sfd[sx.pipes[IF i > 1 THEN i - 1 ELSE i][2]] ELSE Tty
           s == LowestOf(Slots)
       IN  /\ got <= n /\ got <= Cardinality(FreeFds(sfd))
           /\ sfd' = [f \in DOMAIN sfd |-> IF \E k \in DOMAIN opened : opened[k] = f THEN Obj("file", 0)
                                           ELSE sfd[f]]
           /\ \/ /\ got = n /\ Slots # {}
                 /\ kids' = [kids EXCEPT ![s] = Kid("stage", in, out)]
                 /\ sx' = [sx EXCEPT !.extra = @ \o opened, !.pids = Append(@, s)]
              \/ /\ sx' = [sx EXCEPT !.extra = @ \o opened, !.pc = "abort"]
                 /\ UNCHANGED kids
    /\ UNCHANGED <<scripts, clocks>>

\* One stage: its files are opened, then the program is started on them or on the pipes.
\* open_redir's table of descriptors is larger than a line can need.
StartStage(got) ==
    /\ sx.pc = "pipe" /\ Len(sx.pipes) = Len(sx.stages) - 1 /\ Len(sx.pids) < Len(sx.stages)
    /\ LET i == Len(sx.pids) + 1
           st == sx.stages[i]
           n == (IF st.in THEN 1 ELSE 0) + (IF st.out THEN 1 ELSE 0)
           a == LowestOf(FreeFds(sfd))
           opened == CASE got = 0 -> <<>>
                       [] got = 1 -> <<a>>
                       [] got = 2 -> <<a, LowestOf(FreeFds(sfd) \ {a})>>
           in == IF st.in THEN Obj("file", 0) ELSE IF i > 1 THEN sfd[sx.pipes[i - 1][1]] ELSE Tty
           out == IF st.out THEN Obj("file", 0)
                  ELSE IF i < Len(sx.stages) THEN sfd[sx.pipes[i][2]] ELSE Tty
           s == LowestOf(Slots)
       IN  /\ got <= n /\ got <= Cardinality(FreeFds(sfd))
           /\ sfd' = [f \in DOMAIN sfd |-> IF \E k \in DOMAIN opened : opened[k] = f THEN Obj("file", 0)
                                           ELSE sfd[f]]
           /\ \/ /\ got = n /\ Slots # {}
                 /\ kids' = [kids EXCEPT ![s] = Kid("stage", in, out)]
                 /\ sx' = [sx EXCEPT !.extra = @ \o opened, !.pids = Append(@, s)]
              \/ /\ sx' = [sx EXCEPT !.extra = @ \o opened, !.pc = "abort"]
                 /\ UNCHANGED kids
    /\ UNCHANGED <<scripts, clocks>>

abort_pipeline_slip ==
    /\ sx.pc = "abort"
    /\ sfd' = Close(sfd, PipeFds)
    /\ kids' = [s \in DOMAIN kids |-> IF s \in Running /\ \E k \in DOMAIN sx.pids : sx.pids[k] = s
                                      THEN [NoKid EXCEPT !.name = kids[s].name, !.st = "zombie"] ELSE kids[s]]
    /\ sx' = [AtPrompt EXCEPT !.pc = "wait", !.waits = Len(sx.pids)]
    /\ UNCHANGED <<scripts, clocks>>

\* abort_pipeline: everything is closed, the stages started are killed, then waited for.
abort_pipeline ==
    /\ sx.pc = "abort"
    /\ sfd' = Close(sfd, PipeFds \cup ExtraFds)
    /\ kids' = [s \in DOMAIN kids |-> IF s \in Running /\ \E k \in DOMAIN sx.pids : sx.pids[k] = s
                                      THEN [NoKid EXCEPT !.name = kids[s].name, !.st = "zombie"] ELSE kids[s]]
    /\ sx' = [AtPrompt EXCEPT !.pc = "wait", !.waits = Len(sx.pids)]
    /\ UNCHANGED <<scripts, clocks>>

\* All stages run: close_pipes and close_fds, then a wait for each.
CloseAll ==
    /\ sx.pc = "pipe" /\ Len(sx.pids) = Len(sx.stages)
    /\ sfd' = Close(sfd, PipeFds \cup ExtraFds)
    /\ sx' = [AtPrompt EXCEPT !.pc = "wait", !.waits = Len(sx.pids)]
    /\ UNCHANGED <<kids, scripts, clocks>>

\* wait: the first dead child by its slot, whichever it is; with none dead it blocks.
Wait ==
    /\ sx.pc = "wait"
    /\ \/ sx.waits = 0 /\ sx' = AtPrompt /\ UNCHANGED kids
       \/ /\ sx.waits > 0 /\ Dead # {}
          /\ kids' = [kids EXCEPT ![LowestOf(Dead)] = NoKid]
          /\ sx' = [sx EXCEPT !.waits = @ - 1]
    /\ UNCHANGED <<sfd, scripts, clocks>>

\* A line without metacharacters (cmd_path, cmd_run, cmd_spawn_wait): the program is
\* started and waited for; when it is found nowhere nothing happens.
RunProgram ==
    /\ sx.pc = "prompt" /\ Slots # {}
    /\ kids' = [kids EXCEPT ![LowestOf(Slots)] = Kid("program", Tty, Tty)]
    /\ sx' = [AtPrompt EXCEPT !.pc = "wait", !.waits = 1]
    /\ UNCHANGED <<sfd, scripts, clocks>>

\* cmd_clock: started and not waited for, unless the first processes that ps shows, dead
\* ones too, have a clock among them.
cmd_clock ==
    /\ sx.pc = "prompt" /\ Slots # {}
    /\ ~ \E s \in DOMAIN kids : /\ kids[s].name = "clock"
                                /\ Cardinality({t \in 1 .. s : kids[t].st # "none"}) <= PS_MAX
    /\ kids' = [kids EXCEPT ![LowestOf(Slots)] = Kid("clock", Tty, Tty)]
    /\ clocks' = clocks + 1
    /\ UNCHANGED <<sfd, sx, scripts>>

\* cmd_source: the script stays open while its lines are run.
SourceOpen ==
    /\ sx.pc = "prompt" /\ FreeFds(sfd) # {}
    /\ LET f == LowestOf(FreeFds(sfd))
       IN  sfd' = [sfd EXCEPT ![f] = Obj("file", 0)] /\ scripts' = Append(scripts, f)
    /\ UNCHANGED <<kids, sx, clocks>>

SourceEnd ==
    /\ sx.pc = "prompt" /\ scripts # <<>>
    /\ sfd' = Close(sfd, {Last(scripts)}) /\ scripts' = Front(scripts)
    /\ UNCHANGED <<kids, sx, clocks>>

ShellInit ==
    /\ sfd = [f \in 0 .. FD_MAX - 1 |-> IF f < 3 THEN Tty ELSE Free]
    /\ kids = [s \in 1 .. PROCS |-> NoKid]
    /\ sx = AtPrompt /\ scripts = <<>> /\ clocks = 0

ShellStep == MakePipe \/ (\E got \in 0 .. 2 : StartStage(got)) \/ abort_pipeline \/ CloseAll \/ Wait

ShellNext ==
    \/ \E line \in CmdLines : run_line(line)
    \/ ShellStep \/ RunProgram \/ cmd_clock \/ SourceOpen \/ SourceEnd
    \/ \E s \in 1 .. PROCS : KidExit(s) \/ KidQuits(s)

\* The scheduler runs the shell and its children again and again (NoStarvation), and a
\* program whose input has ended and whose output is read comes to its end.
ShellFair == WF_shellVars(ShellStep) /\ \A s \in 1 .. PROCS : WF_shellVars(KidExit(s))

ShellSpec == ShellInit /\ [][ShellNext]_shellVars /\ ShellFair

----------------------------------------------------------------------------
\* Every line ends: a pipeline's programs see the end of their input, whatever failed
\* while it was set up, and the shell asks for another line.
LineEnds == sx.pc # "prompt" ~> sx.pc = "prompt"

\* Between two lines the shell holds nothing of the lines before: its descriptors are
\* the standard ones and the scripts', and each line has reaped as many children as it
\* started, so that only as many are left as clocks were started.
PromptClean ==
    sx.pc = "prompt" =>
        /\ {f \in DOMAIN sfd : sfd[f] # Free} = 0 .. 2 \cup {scripts[i] : i \in DOMAIN scripts}
        /\ Cardinality(Running \cup Dead) = clocks
=============================================================================
