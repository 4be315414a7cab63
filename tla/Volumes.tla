------------------------------ MODULE Volumes ------------------------------
(***************************************************************************)
(* The disks, the mounted volume and the installer: the table of fs/blk.rs,*)
(* the partition scan of fs/part.rs, mounting and sync of fs/mod.rs, the   *)
(* GPT that fs/gpt.rs writes and the two-call installer of fs/install.rs.  *)
(* A disk may stop answering and come back, and the machine may lose power *)
(* between any two transfers of an installation.                           *)
(***************************************************************************)
EXTENDS Integers, Sequences, FiniteSets, SequencesExt

CONSTANTS
    Disks,          \* the block devices, in the order blk::init probes them
    Big,            \* those of at least MIN_SECTORS
    Required,       \* the files install copies, in order; the first is /boot/kernel
    Optional,       \* files copied when the live volume has them
    InitMedia       \* what the disks may hold when the machine is first switched on

Kernel == Required[1]
None == "none"

ASSUME VolAssumption == None \notin ToSet(Disks)

VARIABLES
    media,          \* what each disk holds
    dead,           \* disks that do not answer
    table,          \* TABLE.disks: the disks found at boot, in order
    live_root,      \* TABLE.live_root
    FS,             \* the mounted volume, a [disk, place], or NoVolume
    VOLUME,         \* the volume sync remounts
    PENDING,        \* the disk install was armed for
    inst            \* the installation that is running

volVars == <<media, dead, table, live_root, FS, VOLUME, PENDING, inst>>

NoVolume == [disk |-> None, place |-> None]
NoInst == [disk |-> None, todo |-> <<>>]

----------------------------------------------------------------------------
\* part::volumes: a GPT header wins over the MBR; either lists the one partition,
\* the protective MBR none.
PartVolumes(m) ==
    IF m.hdr THEN (IF m.entry THEN {"esp"} ELSE {})
    ELSE IF m.sec0 = "mbr" THEN {"esp"} ELSE {}

\* A volume is mounted if its first sector looks like FAT32: sector 0 for the
\* whole disk, the partition's first sector otherwise.
looks_like_fat32(d, place) ==
    /\ d \notin dead
    /\ IF place = "whole" THEN media[d].sec0 = "fat" ELSE media[d].fat["esp"]

\* The volumes of the disks in the order fs::init comes to them, the whole disk and then
\* the partition, and the places in that order of those it considers.
VolumeAt(disks, n) == [disk |-> disks[(n + 1) \div 2], place |-> IF n % 2 = 1 THEN "whole" ELSE "esp"]

Candidates(disks) ==
    {n \in 1 .. 2 * Len(disks) :
        LET v == VolumeAt(disks, n)
        IN  v.place \in {"whole"} \cup PartVolumes(media[v.disk]) /\ looks_like_fat32(v.disk, v.place)}

FilesOf(v) == media[v.disk].files[v.place]

RootOf_slip(disks) ==
    LET cands == Candidates(disks)
    IN  IF cands # {} THEN VolumeAt(disks, Min(cands)) ELSE NoVolume

\* fs::init: the first volume that has /boot/kernel stays mounted, else the first
\* volume at all, which consider_mount kept as the fallback.
RootOf(disks) ==
    LET cands == Candidates(disks)
        kern  == {n \in cands : Kernel \in FilesOf(VolumeAt(disks, n))}
    IN  IF kern # {} THEN VolumeAt(disks, Min(kern))
        ELSE IF cands # {} THEN VolumeAt(disks, Min(cands)) ELSE NoVolume

\* try_mount succeeded: VOLUME, the live root and FS are set together.
Mounted(v) ==
    /\ FS' = v /\ VOLUME' = v /\ live_root' = v.disk

\* blk::init and fs::init: the disks that answer, the root, nothing armed.
BootState ==
    /\ table' = SelectSeq(Disks, LAMBDA d : d \notin dead)
    /\ Mounted(RootOf(SelectSeq(Disks, LAMBDA d : d \notin dead)))
    /\ PENDING' = None /\ inst' = NoInst

\* Power is lost and returns: only what is on the disks survives.
PowerLoss == BootState /\ UNCHANGED <<media, dead>>

\* A device stops answering its driver, or answers again; blk never probes again.
DeviceFails == \E d \in ToSet(Disks) \ dead :
    /\ dead' = dead \cup {d}
    /\ UNCHANGED <<media, table, live_root, FS, VOLUME, PENDING, inst>>

DeviceRecovers == \E d \in dead :
    /\ dead' = dead \ {d}
    /\ UNCHANGED <<media, table, live_root, FS, VOLUME, PENDING, inst>>

VolInit ==
    /\ media \in InitMedia /\ dead = {}
    /\ table = Disks
    /\ FS = RootOf(Disks) /\ VOLUME = FS /\ live_root = FS.disk
    /\ PENDING = None /\ inst = NoInst

----------------------------------------------------------------------------
Sync_slip ==
    /\ inst = NoInst /\ VOLUME # NoVolume /\ FS # NoVolume
    /\ IF looks_like_fat32(VOLUME.disk, VOLUME.place)
       THEN FS' = VOLUME /\ VOLUME' = VOLUME /\ live_root' = None
       ELSE FS' = NoVolume /\ VOLUME' = NoVolume /\ live_root' = None
    /\ UNCHANGED <<media, dead, table, PENDING, inst>>

\* fs::sync: unmount, flush, mount again.  A remount that fails leaves VOLUME and
\* the live root as they were, with nothing mounted.
Sync ==
    /\ inst = NoInst /\ VOLUME # NoVolume /\ FS # NoVolume
    /\ IF looks_like_fat32(VOLUME.disk, VOLUME.place)
       THEN Mounted(VOLUME)
       ELSE FS' = NoVolume /\ UNCHANGED <<VOLUME, live_root>>
    /\ UNCHANGED <<media, dead, table, PENDING, inst>>

\* A file is removed from the mounted volume, or written to it.
ChangeFile(f) ==
    /\ inst = NoInst /\ FS # NoVolume /\ FS.disk \notin dead
    /\ \E files \in {FilesOf(FS) \ {f}, FilesOf(FS) \cup {f}} :
            media' = [media EXCEPT ![FS.disk].files[FS.place] = files]
    /\ UNCHANGED <<dead, table, live_root, FS, VOLUME, PENDING, inst>>

----------------------------------------------------------------------------
\* fs::exists on the live volume.
exists(f) == FS # NoVolume /\ FS.disk \notin dead /\ f \in FilesOf(FS)

\* target_ok: in the table, large enough, and the live volume has every required file.
target_ok(d) == d \in ToSet(table) /\ d \in Big /\ \A f \in ToSet(Required) : exists(f)

\* What apply does, one transfer or file after another: write_esp (the protective
\* MBR, header, array and the backup of both), format_volume, then each file is
\* created and filled.
ApplySteps ==
    LET ofFile(f) == <<[do |-> "create", file |-> f], [do |-> "fill", file |-> f]>>
        step(s)   == [do |-> s, file |-> None]
    IN  <<step("mbr"), step("header"), step("array"), step("backup"),
          step("format"), step("formatted")>>
        \o FlattenSeq([i \in DOMAIN Required |-> ofFile(Required[i])])
        \o FlattenSeq([i \in DOMAIN Optional |-> ofFile(Optional[i])])
        \o <<step("flush")>>

\* install::step, reached by sys_install and by the kernel shell's install: the
\* live root and unfit disks are refused, a first call arms, a second one for the
\* same disk starts apply.
Install(d) ==
    /\ inst = NoInst
    /\ live_root # d /\ target_ok(d)
    /\ IF PENDING = d
       THEN PENDING' = None /\ inst' = [disk |-> d, todo |-> ApplySteps]
       ELSE PENDING' = d /\ UNCHANGED inst
    /\ UNCHANGED <<media, dead, table, live_root, FS, VOLUME>>

\* What one step of apply leaves on the target disk.
Applied(m, s) ==
    CASE s.do = "mbr"       -> [m EXCEPT !.sec0 = "prot"]
      [] s.do = "header"    -> [m EXCEPT !.hdr = TRUE]
      [] s.do = "array"     -> [m EXCEPT !.entry = TRUE]
      [] s.do = "format"    -> [m EXCEPT !.fat["esp"] = FALSE]
      [] s.do = "formatted" -> [m EXCEPT !.fat["esp"] = TRUE, !.files["esp"] = {}]
      [] s.do = "create"    -> [m EXCEPT !.files["esp"] = @ \cup {s.file}]
      [] OTHER              -> m

\* A step of apply that goes well; an optional file the live volume lacks is skipped.
ApplyStep ==
    LET s    == Head(inst.todo)
        d    == inst.disk
        skip == s.do = "create" /\ s.file \in ToSet(Optional) /\ ~exists(s.file)
        rest == IF skip THEN Tail(Tail(inst.todo)) ELSE Tail(inst.todo)
    IN  /\ inst # NoInst /\ d \notin dead
        /\ s.do = "fill" => exists(s.file)
        /\ media' = [media EXCEPT ![d] = IF skip THEN @ ELSE Applied(@, s)]
        /\ inst' = IF rest = <<>> THEN NoInst ELSE [inst EXCEPT !.todo = rest]
        /\ UNCHANGED <<dead, table, live_root, FS, VOLUME, PENDING>>

\* The target does not take a transfer, or the source file cannot be read: apply
\* returns an error and what it wrote stays.
ApplyFails ==
    LET s == Head(inst.todo)
    IN  /\ inst # NoInst
        /\ \/ inst.disk \in dead
           \/ s.do = "fill" /\ ~exists(s.file)
        /\ inst' = NoInst
        /\ UNCHANGED <<media, dead, table, live_root, FS, VOLUME, PENDING>>

VolNext ==
    \/ PowerLoss \/ DeviceFails \/ DeviceRecovers \/ Sync
    \/ \E f \in ToSet(Required) : ChangeFile(f)
    \/ \E d \in ToSet(Disks) : Install(d)
    \/ ApplyStep \/ ApplyFails

VolSpec == VolInit /\ [][VolNext]_volVars

----------------------------------------------------------------------------
\* The installer never touches the disk whose volume is, or was last, mounted: its
\* only guard is the live root, which mounting, a sync that failed to remount and
\* a restart must keep in step with FS and VOLUME (install.rs:85, mod.rs:309-320).
MountedDiskSafe ==
    inst # NoInst => inst.disk \notin {FS.disk, VOLUME.disk}

\* Whatever moment of an installation the power is lost at, the next boot finds a
\* root with a kernel as long as a disk that answers has one: a half-written disk
\* that comes first in the table does not hide the live one before it has a kernel
\* file of its own (mod.rs:41-84).
BootFindsKernel ==
    [][PowerLoss => \A n \in Candidates(table') :
            Kernel \in FilesOf(VolumeAt(table', n)) => FS' # NoVolume /\ Kernel \in FilesOf(FS')]_volVars
=============================================================================
