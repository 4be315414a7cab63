------------------------------ MODULE MCParts ------------------------------
(***************************************************************************)
(* Memory, drivers, file system, line editor and file commands, each a     *)
(* state machine of its own, checked side by side.  part says which of     *)
(* them a behaviour is about; the others stay as they start.               *)
(***************************************************************************)
EXTENDS FatDisk, Volumes, FsTree, Ahci, XhciRing, UsbXfer, E1000e, Memory, PipeRing, ShellFiles, LineEdit

VARIABLE part

Parts == {"Fat", "Vol", "Tree", "Ahci", "Ring", "Xfer", "Nic", "Mem", "Pipe", "Files", "Line"}

\* Of a part that starts in several ways the others need only one.
Init ==
    /\ part \in Parts
    /\ FatInit /\ (part # "Fat" => platter = CHOOSE p \in [0 .. LastLba -> Sectors] : TRUE)
    /\ VolInit /\ (part # "Vol" => media = CHOOSE m \in InitMedia : TRUE)
    /\ AhciInit /\ (part # "Ahci" => adisk = CHOOSE d \in [Lbas -> Datas] : TRUE)
    /\ XferInit /\ (part # "Xfer" => mdisk = CHOOSE d \in [MscLbas -> MscDatas] : TRUE)
    /\ FileInit /\ (part # "Files" => disk = CHOOSE d \in StartFiles : TRUE)
    /\ TreeInit /\ RingInit /\ NicInit /\ MemInit /\ RInit /\ LineInit

Next ==
    /\ UNCHANGED part
    /\ \/ part = "Fat" /\ FatNext /\ UNCHANGED <<volVars, treeVars, ahciVars, ringVars, xferVars, nicVars, memVars, rvars, fileVars, lineVars>>
       \/ part = "Vol" /\ VolNext /\ UNCHANGED <<fatVars, treeVars, ahciVars, ringVars, xferVars, nicVars, memVars, rvars, fileVars, lineVars>>
       \/ part = "Tree" /\ TreeNext /\ UNCHANGED <<fatVars, volVars, ahciVars, ringVars, xferVars, nicVars, memVars, rvars, fileVars, lineVars>>
       \/ part = "Ahci" /\ AhciNext /\ UNCHANGED <<fatVars, volVars, treeVars, ringVars, xferVars, nicVars, memVars, rvars, fileVars, lineVars>>
       \/ part = "Ring" /\ RingNext /\ UNCHANGED <<fatVars, volVars, treeVars, ahciVars, xferVars, nicVars, memVars, rvars, fileVars, lineVars>>
       \/ part = "Xfer" /\ XferNext /\ UNCHANGED <<fatVars, volVars, treeVars, ahciVars, ringVars, nicVars, memVars, rvars, fileVars, lineVars>>
       \/ part = "Nic" /\ NicNext /\ UNCHANGED <<fatVars, volVars, treeVars, ahciVars, ringVars, xferVars, memVars, rvars, fileVars, lineVars>>
       \/ part = "Mem" /\ MemNext /\ UNCHANGED <<fatVars, volVars, treeVars, ahciVars, ringVars, xferVars, nicVars, rvars, fileVars, lineVars>>
       \/ part = "Pipe" /\ RNext /\ UNCHANGED <<fatVars, volVars, treeVars, ahciVars, ringVars, xferVars, nicVars, memVars, fileVars, lineVars>>
       \/ part = "Files" /\ FileNext /\ UNCHANGED <<fatVars, volVars, treeVars, ahciVars, ringVars, xferVars, nicVars, memVars, rvars, lineVars>>
       \/ part = "Line" /\ LineNext /\ UNCHANGED <<fatVars, volVars, treeVars, ahciVars, ringVars, xferVars, nicVars, memVars, rvars, fileVars>>

vars == <<part, fatVars, volVars, treeVars, ahciVars, ringVars, xferVars, nicVars, memVars, rvars, fileVars, lineVars>>

Spec == Init /\ [][Next]_vars

----------------------------------------------------------------------------
\* Volumes: disks that are empty, unpartitioned, or hold an MBR or a GPT, with all or
\* only some of the files.
Medium(sec0, hdr, entry, fat, whole, esp) ==
    [sec0 |-> sec0, hdr |-> hdr, entry |-> entry, fat |-> [x \in {"esp"} |-> fat],
     files |-> [p \in {"whole", "esp"} |-> IF p = "whole" THEN whole ELSE esp]]
Blank     == Medium("none", FALSE, FALSE, FALSE, {}, {})
Floppy(f) == Medium("fat", FALSE, FALSE, FALSE, f, {})
Mbr(f)    == Medium("mbr", FALSE, FALSE, TRUE, {}, f)
Gpt(f)    == Medium("prot", TRUE, TRUE, TRUE, {}, f)
AllFiles  == {"kernel", "sh", "ia32"}
MCInitMedia ==
    {[d \in {"ahci", "usb"} |-> IF d = "ahci" THEN a ELSE u] :
        a \in {Blank, Floppy({}), Mbr({"kernel"})}, u \in {Gpt(AllFiles)}}
    \cup {[d \in {"ahci", "usb"} |-> IF d = "ahci" THEN Gpt({"kernel", "sh"}) ELSE Floppy(AllFiles \ {"ia32"})]}
MCDisks    == <<"ahci", "usb">>
MCRequired == <<"kernel", "sh">>
MCOptional == <<"ia32">>

\* FsTree: paths of two names, with dots, empty components and a way above the root.
Arg(abs, comps) == [abs |-> abs, comps |-> comps]
MCPathArgs ==
    {Arg(abs, c) : abs \in BOOLEAN,
        c \in {<<>>, <<"a">>, <<"b">>, <<"..">>, <<"a", "b">>, <<".", "b", "">>, <<"..", "a">>,
               <<"a", "b", "..", "..", "..", "a">>}}
Small == Len(cwd) <= 3 /\ \A p \in DOMAIN tree : Len(p) <= 2

\* Memory: images that load and images that fail at each of the loader's checks.
Ph(type, wx, vaddr, memsz, filesz, offset) ==
    [type |-> type, wx |-> wx, vaddr |-> vaddr, memsz |-> memsz, filesz |-> filesz, offset |-> offset]
Elf(verdict, bytes, phdrs) == [parse |-> verdict, bytes |-> bytes, phdrs |-> phdrs]
MCElfs ==
    {Elf("bad", 0, <<>>), Elf("machine", 0, <<>>), Elf("fine", 9, <<>>),
     Elf("fine", 70, <<Ph("OTHER", FALSE, 0, 0, 0, 0), Ph("LOAD", FALSE, 40, 40, 30, 8),
                       Ph("LOAD", FALSE, 128, 10, 0, 0)>>),
     Elf("fine", 40, <<Ph("LOAD", FALSE, 32, 70, 60, 8)>>),
     Elf("fine", 70, <<Ph("LOAD", FALSE, 0, 10, 10, 8), Ph("LOAD", FALSE, 16, 10, 10, 8)>>),
     Elf("fine", 70, <<Ph("LOAD", FALSE, 0, 10, 10, 8), Ph("DYNAMIC", FALSE, 0, 0, 0, 0)>>),
     Elf("fine", 70, <<Ph("LOAD", TRUE, 0, 10, 10, 8)>>)}
MCArgvs  == {<<3>>, <<7, 1>>, <<16, 16, 16>>, <<0>>}
MCMmio   == {[page |-> 3, n |-> 2]}
MCMemMap == {[base |-> 32, length |-> 70], [base |-> 96, length |-> 32 * 12]}

\* PipeRing: messages up to four bytes, so that writes wrap, are cut short, and find
\* the ring full.
MaxMessage == 4
SomeMessages == UNION {[1 .. n -> Bytes] : n \in 1 .. MaxMessage}

\* ShellFiles: a text longer than the editor holds, a signed package and one that is not.
Signed   == <<"COE1", "x", "signed">>
Unsigned == <<"COE1", "y", "unsigned">>
MCDownloads  == {Signed, Unsigned, <<"x">>}
MCStartFiles ==
    {[p \in {"a", "b", "bin"} |-> IF p = "a" THEN File(d) ELSE NoFile] :
        d \in {<<"x", "y", "y", "x">>, Signed, Unsigned}}

\* LineEdit: words of one letter; names to complete to that do and do not fit the line.
MCClips    == {<<"a">>, <<" ", "a">>}
MCBuiltins == <<<<"a", "a", "a">>>>
MCBin      == <<<<"a", "a">>>>
=============================================================================
