------------------------------- MODULE FsTree -------------------------------
(***************************************************************************)
(* The file operations of fs/mod.rs on the mounted volume: path            *)
(* resolution against the current directory, and the calls that create,    *)
(* write and remove.  fatfs is external; it is modelled by the answers     *)
(* this code tells apart.                                                  *)
(***************************************************************************)
EXTENDS Integers, Sequences, FiniteSets, SequencesExt

CONSTANTS
    Names,          \* file and directory names
    PathArgs        \* paths callers pass, cut at their slashes

\* What stands between two slashes.
Comps == Names \cup {"..", ".", ""}

ASSUME PathConstants == PathArgs \subseteq [abs : BOOLEAN, comps : Seq(Comps)]

VARIABLES
    tree,           \* what each path of the volume is: "dir" or "file"; the root is not listed
    cwd,            \* CWD, as its components
    mounted,        \* FS holds a volume
    err             \* what the last call returned

treeVars == <<tree, cwd, mounted, err>>

----------------------------------------------------------------------------
\* One component: "" and "." are dropped, ".." removes the last one and stops at the root.
Walk(parts, c) ==
    CASE c \in {"", "."} -> parts
      [] c = ".."        -> IF parts = <<>> THEN parts ELSE Front(parts)
      [] OTHER           -> Append(parts, c)

\* resolve: the components in turn, from the root or from the current directory.
resolve(dir, arg) ==
    LET path[n \in 0 .. Len(arg.comps)] ==
            IF n = 0 THEN IF arg.abs THEN <<>> ELSE dir ELSE Walk(path[n - 1], arg.comps[n])
    IN  path[Len(arg.comps)]

\* fatfs open_dir on a path: the whole path is a directory, some part of it is a
\* file, or it is missing.
OpenDir(p) ==
    IF \A i \in 1 .. Len(p) : SubSeq(p, 1, i) \in DOMAIN tree /\ tree[SubSeq(p, 1, i)] = "dir"
    THEN "Ok"
    ELSE IF \E i \in 1 .. Len(p) : SubSeq(p, 1, i) \in DOMAIN tree /\ tree[SubSeq(p, 1, i)] = "file"
         THEN "InvalidInput" ELSE "NotFound"

\* fatfs create_dir and create_file on a path that is no directory: the parent has
\* to be one, and a file stays the file it is.
Create(p, kind) ==
    IF OpenDir(Front(p)) = "Ok" /\ (p \in DOMAIN tree => tree[p] = kind)
    THEN "Ok" ELSE OpenDir(IF OpenDir(Front(p)) = "Ok" THEN p ELSE Front(p))

With(p, kind) == [q \in DOMAIN tree \cup {p} |-> IF q = p THEN kind ELSE tree[q]]
Without(p)    == [q \in DOMAIN tree \ {p} |-> tree[q]]

\* map_dir_err and map_file_err.
map_dir_err(e)  == CASE e = "InvalidInput" -> "NotDir" [] OTHER -> e
map_file_err(e) == CASE e = "InvalidInput" -> "IsDir" [] OTHER -> e

\* The call returns e and changes nothing.
Fail(e) == err' = e /\ UNCHANGED <<tree, cwd>>

\* Any transfer may fail.
Io(p) == p # <<>> /\ Fail("Io")

----------------------------------------------------------------------------
TreeInit == tree = << >> /\ cwd = <<>> /\ mounted = TRUE /\ err = "Ok"

\* chdir: the target must open as a directory before CWD moves.
Chdir(arg) ==
    LET p == resolve(cwd, arg)
    IN  \/ OpenDir(p) = "Ok" /\ cwd' = p /\ err' = "Ok" /\ UNCHANGED tree
        \/ OpenDir(p) # "Ok" /\ Fail(map_dir_err(OpenDir(p)))
        \/ Io(p)

\* read_at, which exists uses, read_chunks, which read_file uses, and write_at, which
\* changes the contents of a file that is there: a directory is refused before the
\* file is opened.
ReadAt(arg) ==
    LET p == resolve(cwd, arg)
    IN  \/ /\ err' = CASE p = <<>> \/ OpenDir(p) = "Ok" -> "IsDir"
                       [] OpenDir(p) = "NotFound" -> "NotFound"
                       [] OTHER -> IF p \in DOMAIN tree THEN "Ok" ELSE map_file_err("InvalidInput")
           /\ UNCHANGED <<tree, cwd>>
        \/ Io(p)

\* list: any directory, the root included.
List(arg) ==
    LET p == resolve(cwd, arg)
    IN  \/ err' = map_dir_err(OpenDir(p)) /\ UNCHANGED <<tree, cwd>>
        \/ Io(p)

\* mkdir: an existing directory is an error, a file in the way another.
Mkdir(arg) ==
    LET p == resolve(cwd, arg)
    IN  \/ (p = <<>> \/ OpenDir(p) = "Ok") /\ Fail("IsDir")
        \/ /\ p # <<>> /\ OpenDir(p) # "Ok"
           /\ err' = map_dir_err(Create(p, "dir"))
           /\ tree' = IF Create(p, "dir") = "Ok" THEN With(p, "dir") ELSE tree
           /\ UNCHANGED cwd
        \/ Io(p)

\* touch and write_file: the file is created, or kept; write_file then truncates and
\* writes it, and may fail after the file came to be.
WriteFile(arg) ==
    LET p == resolve(cwd, arg)
    IN  \/ (p = <<>> \/ OpenDir(p) = "Ok") /\ Fail("IsDir")
        \/ /\ p # <<>> /\ OpenDir(p) # "Ok"
           /\ err' \in {map_file_err(Create(p, "file"))} \cup
                       (IF Create(p, "file") = "Ok" THEN {"Io"} ELSE {})
           /\ tree' = IF Create(p, "file") = "Ok" THEN With(p, "file") ELSE tree
           /\ UNCHANGED cwd
        \/ Io(p)

RemoveFile_slip(arg) ==
    LET p == resolve(cwd, arg)
    IN  /\ p # <<>> /\ p \in DOMAIN tree
        /\ \A q \in DOMAIN tree : q # p => ~IsPrefix(p, q)
        /\ tree' = Without(p) /\ err' = "Ok" /\ UNCHANGED cwd

\* remove: reject_dir refuses every directory, so only files go.
RemoveFile(arg) ==
    LET p == resolve(cwd, arg)
    IN  \/ (p = <<>> \/ OpenDir(p) = "Ok") /\ Fail("IsDir")
        \/ /\ p # <<>> /\ OpenDir(p) # "Ok"
           /\ IF p \in DOMAIN tree
              THEN tree' = Without(p) /\ err' = "Ok" /\ UNCHANGED cwd
              ELSE Fail(map_file_err(OpenDir(p)))
        \/ Io(p)

\* sync whose remount fails (Volumes has the rest of it); every later call finds no
\* volume.
Unmount == mounted /\ mounted' = FALSE /\ err' = "Io" /\ UNCHANGED <<tree, cwd>>
NoFs    == ~mounted /\ Fail("NoFs") /\ UNCHANGED mounted

TreeNext ==
    \/ /\ mounted /\ UNCHANGED mounted
       /\ \E arg \in PathArgs : \/ Chdir(arg) \/ ReadAt(arg) \/ List(arg)
                               \/ Mkdir(arg) \/ WriteFile(arg) \/ RemoveFile(arg)
    \/ Unmount \/ NoFs

TreeSpec == TreeInit /\ [][TreeNext]_treeVars

----------------------------------------------------------------------------
\* The volume stays a tree and the current directory stays in it: whatever calls
\* are made through whatever relative paths, every entry's parent is a directory
\* and so is CWD, which no call looks at again after chdir accepted it
\* (mod.rs:159-171, 300-306, 366-393).
CwdInTree ==
    /\ OpenDir(cwd) = "Ok"
    /\ \A p \in DOMAIN tree : p # <<>> /\ ToSet(p) \subseteq Names /\ OpenDir(Front(p)) = "Ok"
=============================================================================
