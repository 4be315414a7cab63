----------------------------- MODULE ShellFiles -----------------------------
(***************************************************************************)
(* The commands that read and write files: apps/sh/src/fs.rs, text.rs and  *)
(* pkg.rs with libs/pkg, and apps/edit.  A command takes a system call at  *)
(* a time, and any call may fail.  A file is a sequence of pieces, each as *)
(* long as one read; the kernel's files (FsTree.tla, FdTable.tla) are      *)
(* external here.                                                          *)
(***************************************************************************)
EXTENDS Integers, Sequences, FiniteSets, SequencesExt

CONSTANTS
    FilePaths,      \* paths the commands are given; a package goes to BinPath
    BinPath,        \* /bin/<name>
    Pieces,         \* what one read may bring, or one write write
    Downloads,      \* what http_get may bring
    StartFiles,     \* what the disk may hold at first: functions from paths to files
    WRITE_CAP, EDIT_CAP, PKG_CAP

\* What a package may come from.
Sources == Downloads \cup {f[p].data : f \in StartFiles, p \in FilePaths}

\* No package is installed at first, and a signature ends what it signs.
ASSUME FileConstants ==
    /\ BinPath \notin FilePaths /\ WRITE_CAP \in Nat /\ EDIT_CAP \in Nat /\ PKG_CAP \in Nat
    /\ "x" \in Pieces /\ \A d \in Downloads : d \in Seq(Pieces)
    /\ \A f \in StartFiles :
          /\ f \in [FilePaths \cup {BinPath} -> [kind : {"file", "dir", "absent"}, data : Seq(Pieces)]]
          /\ f[BinPath].kind # "file"
    /\ \A d \in Sources : \A i \in 1 .. Len(d) : d[i] = "signed" => i = Len(d)

VARIABLES
    disk,       \* path -> [kind, data]
    fcmd,       \* the command: its operation, place, paths, offset and buffer
    ffds        \* the descriptors it holds: "in" and "out"

fileVars == <<disk, fcmd, ffds>>

File(d) == [kind |-> "file", data |-> d]
Dir == [kind |-> "dir", data |-> <<>>]
NoFile == [kind |-> "absent", data |-> <<>>]

\* kept: what mv found at its source.
NoCommand == [op |-> "none", pc |-> "idle", src |-> BinPath, dst |-> BinPath, off |-> 0, buf |-> <<>>, kept |-> <<>>]

Copies == {"cp", "mv"}
Shows == {"show"}       \* cat, head, wc, grep and stat; tail reads the file twice

Goto(pc) == fcmd' = [fcmd EXCEPT !.pc = pc]
EndCommand == ffds' = {} /\ Goto("idle")

----------------------------------------------------------------------------
\* A command line: which command, and the paths it names.
StartCopy(op, src, dst) ==
    /\ fcmd.pc = "idle"
    /\ fcmd' = [NoCommand EXCEPT !.op = op, !.pc = "open", !.src = src, !.dst = dst]
    /\ UNCHANGED <<disk, ffds>>

StartRead(op, src) ==
    /\ fcmd.pc = "idle"
    /\ fcmd' = [NoCommand EXCEPT !.op = op, !.pc = "open", !.src = src, !.dst = IF op = "edit" THEN src ELSE BinPath]
    /\ UNCHANGED <<disk, ffds>>

\* cmd_write_enter: the lines go into a buffer until one is a single dot.
cmd_write_enter(dst) ==
    /\ fcmd.pc = "idle"
    /\ fcmd' = [NoCommand EXCEPT !.op = "write", !.pc = "typing", !.dst = dst]
    /\ UNCHANGED <<disk, ffds>>

\* pkg install of an address: what comes is taken as a package.
StartDownload(blob) ==
    /\ fcmd.pc = "idle"
    /\ fcmd' = [NoCommand EXCEPT !.op = "pkg", !.pc = "check", !.buf = blob]
    /\ UNCHANGED <<disk, ffds>>

\* touch, mkdir, rm and pkg remove are one call each.
cmd_touch(p) ==
    /\ fcmd.pc = "idle" /\ disk[p].kind = "absent"
    /\ disk' = [disk EXCEPT ![p] = File(<<>>)] /\ fcmd' = NoCommand /\ UNCHANGED ffds

cmd_mkdir(p) ==
    /\ fcmd.pc = "idle" /\ disk[p].kind = "absent"
    /\ disk' = [disk EXCEPT ![p] = Dir] /\ fcmd' = NoCommand /\ UNCHANGED ffds

cmd_rm(p) ==
    /\ fcmd.pc = "idle" /\ disk[p].kind = "file"
    /\ disk' = [disk EXCEPT ![p] = NoFile] /\ fcmd' = NoCommand /\ UNCHANGED ffds

----------------------------------------------------------------------------
\* open(src): a directory answers readdir and ends the command (wc and grep find out by
\* their first read); edit takes a file it cannot open for a new one.
OpenSource ==
    /\ fcmd.pc = "open"
    /\ \/ /\ disk[fcmd.src].kind = "file"
          /\ ffds' = {"in"}
          /\ fcmd' = [fcmd EXCEPT !.pc = IF fcmd.op \in Copies THEN "create" ELSE "read",
                                  !.kept = disk[fcmd.src].data]
       \/ disk[fcmd.src].kind = "dir" /\ EndCommand
       \/ \* absent, or the call fails
          /\ fcmd.op = "edit" => disk[fcmd.src].kind # "dir"
          /\ IF fcmd.op = "edit" THEN Goto("edit") /\ UNCHANGED ffds ELSE EndCommand
    /\ UNCHANGED disk

\* One read.  cp and mv write each piece before the next; a package and the editor's
\* text are read whole, up to the buffer; the editor takes an error for the end.
ReadSource ==
    /\ fcmd.pc = "read"
    /\ LET d == disk[fcmd.src].data
           AtEnd == CASE fcmd.op \in Copies -> Goto("finish") /\ UNCHANGED ffds
                      [] fcmd.op = "pkg" -> Goto("check") /\ ffds' = {}
                      [] fcmd.op = "edit" -> Goto("edit") /\ ffds' = {}
                      [] fcmd.op \in Shows -> EndCommand
           Full == \/ fcmd.op = "pkg" /\ Len(fcmd.buf) >= PKG_CAP
                   \/ fcmd.op = "edit" /\ Len(fcmd.buf) >= EDIT_CAP
       IN  \/ fcmd.op = "pkg" /\ Full /\ EndCommand
           \/ (IF Full THEN fcmd.op = "edit" ELSE fcmd.off >= Len(d) \/ fcmd.op = "edit") /\ AtEnd
           \/ /\ ~Full /\ fcmd.off < Len(d)
              /\ fcmd' = [fcmd EXCEPT !.off = @ + 1, !.buf = IF fcmd.op \in Shows THEN <<>> ELSE Append(@, d[fcmd.off + 1]),
                                      !.pc = IF fcmd.op \in Copies THEN "write" ELSE "read"]
              /\ UNCHANGED ffds
           \/ \* the read fails
              ~Full /\ fcmd.op # "edit" /\ EndCommand
    /\ UNCHANGED disk

----------------------------------------------------------------------------
\* libs/pkg: magic, name and sizes, then the signature over all of it.
pkg_parse(d) == Len(d) >= 3 /\ d[1] = "COE1" /\ d[Len(d)] \in {"signed", "unsigned"}
pkg_verify(d) == d[Len(d)] = "signed"
Payload(d) == SubSeq(d, 2, Len(d) - 1)

\* cmd_pkg_install: nothing is written of a package that is not whole and signed.
CheckPackage ==
    /\ fcmd.pc = "check"
    /\ IF pkg_parse(fcmd.buf) /\ pkg_verify(fcmd.buf)
       THEN fcmd' = [fcmd EXCEPT !.pc = "create", !.buf = Payload(@)] /\ UNCHANGED ffds
       ELSE EndCommand
    /\ UNCHANGED disk

AfterOutput_slip(done) == IF fcmd.op = "edit" THEN Goto("edit") /\ ffds' = {}
                          ELSE Goto("finish") /\ UNCHANGED ffds

\* Where a command goes when its output cannot be opened or written, or is complete.
AfterOutput(done) == IF fcmd.op = "edit" THEN Goto("edit") /\ ffds' = {}
                     ELSE IF done THEN Goto("finish") /\ UNCHANGED ffds ELSE EndCommand

\* open(dst, create | write | trunc): a directory is refused; the file is emptied before
\* a descriptor is looked for, so that a failing call may have emptied it.
CreateTarget ==
    /\ fcmd.pc = "create"
    /\ \/ /\ disk[fcmd.dst].kind # "dir"
          /\ disk' = [disk EXCEPT ![fcmd.dst] = File(<<>>)]
          /\ \/ /\ ffds' = ffds \cup {"out"}
                /\ fcmd' = [fcmd EXCEPT !.pc = IF fcmd.op \in Copies THEN "read" ELSE "write", !.off = 0]
             \/ AfterOutput(FALSE)
       \/ UNCHANGED disk /\ AfterOutput(FALSE)

\* One write.  The editor keeps its text, the others use theirs up.
WriteTarget ==
    /\ fcmd.pc = "write"
    /\ LET i == IF fcmd.op \in Copies THEN 1 ELSE fcmd.off + 1
           written == i > Len(fcmd.buf)
       IN  \/ written /\ AfterOutput(TRUE) /\ UNCHANGED disk
           \/ /\ ~written
              /\ disk' = [disk EXCEPT ![fcmd.dst].data = Append(@, fcmd.buf[i])]
              /\ fcmd' = IF fcmd.op \in Copies THEN [fcmd EXCEPT !.buf = <<>>, !.pc = "read"]
                         ELSE [fcmd EXCEPT !.off = @ + 1]
              /\ UNCHANGED ffds
           \/ ~written /\ AfterOutput(FALSE) /\ UNCHANGED disk

\* The descriptors are closed; mv unlinks its source, which may fail.
Finish ==
    /\ fcmd.pc = "finish"
    /\ \/ fcmd.op = "mv" /\ disk' = [disk EXCEPT ![fcmd.src] = NoFile]
       \/ UNCHANGED disk
    /\ EndCommand

----------------------------------------------------------------------------
\* submit_write, for a line and for the dot.
WriteLine ==
    /\ fcmd.pc = "typing"
    /\ IF Len(fcmd.buf) + 1 > WRITE_CAP THEN EndCommand
       ELSE fcmd' = [fcmd EXCEPT !.buf = Append(@, "x")] /\ UNCHANGED ffds
    /\ UNCHANGED disk

WriteDot == fcmd.pc = "typing" /\ Goto("create") /\ UNCHANGED <<disk, ffds>>

\* apps/edit: text is added and removed at its end, saved as often as asked for.
EditKey ==
    /\ fcmd.pc = "edit"
    /\ \/ Len(fcmd.buf) < EDIT_CAP /\ fcmd' = [fcmd EXCEPT !.buf = Append(@, "x")]
       \/ fcmd.buf # <<>> /\ fcmd' = [fcmd EXCEPT !.buf = Front(@)]
       \/ Goto("create")
       \/ fcmd' = NoCommand
    /\ UNCHANGED <<disk, ffds>>

FileInit == disk \in StartFiles /\ fcmd = NoCommand /\ ffds = {}

FileNext ==
    \/ \E op \in Copies, src, dst \in FilePaths : StartCopy(op, src, dst)
    \/ \E op \in Shows \cup {"pkg", "edit"}, src \in FilePaths : StartRead(op, src)
    \/ \E p \in FilePaths : cmd_write_enter(p) \/ cmd_touch(p) \/ cmd_mkdir(p) \/ cmd_rm(p)
    \/ cmd_rm(BinPath)
    \/ \E blob \in Downloads : StartDownload(blob)
    \/ OpenSource \/ ReadSource \/ CheckPackage \/ CreateTarget \/ WriteTarget \/ Finish
    \/ WriteLine \/ WriteDot \/ EditKey

FileSpec == FileInit /\ [][FileNext]_fileVars

----------------------------------------------------------------------------
\* Part of FilesKept.  What mv moves is never lost, whichever of its calls fails: until
\* it has ended the source has it, and then the source or the target has.  A command
\* that has ended holds no descriptor.
MoveKeeps ==
    /\ fcmd.op = "mv" /\ fcmd.src # fcmd.dst /\ fcmd.kept # <<>> =>
           \/ disk[fcmd.src] = File(fcmd.kept)
           \/ fcmd.pc = "idle" /\ disk[fcmd.dst] = File(fcmd.kept)
    /\ fcmd.pc = "idle" => ffds = {}

\* Part of FilesKept.  What pkg leaves under a package's name in /bin is a payload whose
\* signature it checked, or the beginning of one whose writing failed, whatever the file
\* or the download held.
BinSigned ==
    disk[BinPath].kind = "file" =>
        \E d \in Sources :
            pkg_parse(d) /\ pkg_verify(d) /\ IsPrefix(disk[BinPath].data, Payload(d))

\* Files survive the commands that work on them, whichever of their calls fails and at
\* whatever point: what mv moves is in one of its two places (fs.rs:257-319), and /bin
\* gets nothing that pkg did not verify (pkg.rs:91-118).
FilesKept == MoveKeeps /\ BinSigned
=============================================================================
