------------------------------ MODULE FatDisk ------------------------------
(***************************************************************************)
(* The byte-level FAT volume of fs/fat_disk.rs: a position, one bounce     *)
(* sector and the number of the sector it is said to hold, over a disk     *)
(* whose transfers may fail.  A call moves one sector per step, as the     *)
(* loops of read and write do.                                             *)
(***************************************************************************)
EXTENDS Integers, Sequences, FiniteSetsExt

CONSTANTS
    SECTOR_SIZE,    \* bytes in a sector
    VOL_SIZE,       \* bytes in the volume; the last sector may be cut
    ByteVals,       \* values of a byte, 0 among them
    MAX_BUF         \* bound: bytes one call moves

ASSUME FatAssumption ==
    /\ SECTOR_SIZE \in Nat \ {0} /\ VOL_SIZE \in Nat \ {0}
    /\ 0 \in ByteVals /\ MAX_BUF \in Nat

NoLba == -1
LastLba == (VOL_SIZE - 1) \div SECTOR_SIZE
Sectors == [0 .. SECTOR_SIZE - 1 -> ByteVals]

VARIABLES
    platter,        \* what the disk holds: a sector per lba
    pos, bounce, cached_lba,
    call,           \* the read or write in progress, its bytes still to move
    spoilt          \* what cached_lba was when a transfer failed, until a sector is loaded or stored

fatVars == <<platter, pos, bounce, cached_lba, call, spoilt>>

NoFatCall == [op |-> "none", rest |-> <<>>]

FatInit ==
    /\ platter \in [0 .. LastLba -> Sectors]
    /\ pos = 0 /\ cached_lba = NoLba
    /\ bounce = [o \in 0 .. SECTOR_SIZE - 1 |-> 0]
    /\ call = NoFatCall /\ spoilt = NoLba

----------------------------------------------------------------------------
Lba == pos \div SECTOR_SIZE
Off == pos % SECTOR_SIZE

\* Bytes the next iteration moves: to the end of the sector, the buffer or the volume.
Chunk == Min({SECTOR_SIZE - Off, Len(call.rest), VOL_SIZE - pos})

\* read and write loop while bytes are left and the volume has not ended.
Forward ==
    LET rest == SubSeq(call.rest, Chunk + 1, Len(call.rest))
    IN  /\ pos' = pos + Chunk
        /\ call' = IF rest = <<>> \/ pos + Chunk >= VOL_SIZE
                   THEN NoFatCall ELSE [call EXCEPT !.rest = rest]

\* FatDisk::read and write: an empty buffer or the end of the volume moves nothing.
FatBegin(op) ==
    /\ call = NoFatCall /\ pos < VOL_SIZE
    /\ \E n \in 1 .. MAX_BUF : \E buf \in [1 .. n -> ByteVals] :
            call' = [op |-> op, rest |-> buf]
    /\ UNCHANGED <<platter, pos, bounce, cached_lba, spoilt>>

ReadSector_slip ==
    /\ call.op = "read"
    /\ bounce' = IF cached_lba = Lba THEN bounce ELSE platter[Lba]
    /\ cached_lba' = IF cached_lba = NoLba THEN Lba ELSE cached_lba
    /\ spoilt' = IF cached_lba = Lba THEN spoilt ELSE NoLba
    /\ Forward /\ UNCHANGED platter

\* One iteration of read: the bounce sector is loaded unless it is cached.
ReadSector ==
    /\ call.op = "read"
    /\ bounce' = IF cached_lba = Lba THEN bounce ELSE platter[Lba]
    /\ cached_lba' = Lba
    /\ spoilt' = IF cached_lba = Lba THEN spoilt ELSE NoLba
    /\ Forward /\ UNCHANGED platter

\* A transfer that fails ends the call with an error and leaves cached_lba alone.
DiskFails ==
    /\ call' = NoFatCall /\ spoilt' = cached_lba
    /\ UNCHANGED <<pos, cached_lba>>

\* read: the transfer fails; the device may have filled part of the bounce sector.
ReadFails ==
    /\ call.op = "read" /\ cached_lba # Lba
    /\ bounce' \in Sectors
    /\ DiskFails /\ UNCHANGED platter

\* The bounce sector with the next bytes of the buffer laid over it.
Overlaid(sec) ==
    [o \in 0 .. SECTOR_SIZE - 1 |->
        IF o >= Off /\ o < Off + Chunk THEN call.rest[o - Off + 1] ELSE sec[o]]

\* write: a part of a sector is laid over what the sector holds, loaded unless cached.
WriteBounce ==
    IF Chunk = SECTOR_SIZE \/ cached_lba = Lba
    THEN Overlaid(bounce) ELSE Overlaid(platter[Lba])

\* One iteration of write that the device carries out.
WriteSector ==
    /\ call.op = "write"
    /\ bounce' = WriteBounce
    /\ platter' = [platter EXCEPT ![Lba] = WriteBounce]
    /\ cached_lba' = Lba
    /\ Forward /\ spoilt' = NoLba

\* write: loading the rest of the sector fails.
WriteLoadFails ==
    /\ call.op = "write" /\ Chunk < SECTOR_SIZE /\ cached_lba # Lba
    /\ bounce' \in Sectors
    /\ DiskFails /\ UNCHANGED platter

\* write: the device refuses the sector, or fails after it stored it.
WriteStoreFails ==
    /\ call.op = "write"
    /\ bounce' = WriteBounce
    /\ platter' \in {platter, [platter EXCEPT ![Lba] = WriteBounce]}
    /\ DiskFails

\* seek: Start, Current and End offsets; a negative target is an error, one past
\* the end stops at the end.
SeekTo(base, off) ==
    /\ call = NoFatCall /\ base + off >= 0
    /\ pos' = Min({base + off, VOL_SIZE})
    /\ UNCHANGED <<platter, bounce, cached_lba, call, spoilt>>

Seek ==
    \E base \in {0, pos, VOL_SIZE} : \E off \in -VOL_SIZE .. VOL_SIZE : SeekTo(base, off)

FatNext ==
    \/ FatBegin("read") \/ ReadSector \/ ReadFails
    \/ FatBegin("write") \/ WriteSector \/ WriteLoadFails \/ WriteStoreFails
    \/ Seek

FatSpec == FatInit /\ [][FatNext]_fatVars

----------------------------------------------------------------------------
\* The bounce sector is the sector cached_lba names, so that a read returns what
\* the disk holds and a partial write keeps the rest of its sector; the one
\* exception is the sector that was cached when a transfer failed, since read and
\* write return with the bounce sector overwritten and cached_lba as it was
\* (fat_disk.rs:43, 73-80).
CacheCoherent ==
    cached_lba # NoLba /\ bounce # platter[cached_lba] => spoilt = cached_lba
=============================================================================
