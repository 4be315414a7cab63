---------------------------- MODULE DeviceProofs ----------------------------
(***************************************************************************)
(* Proofs about the storage stack and the drivers: the cached sector of    *)
(* FatDisk, the transfers of Ahci, the disks of Volumes, the descriptor    *)
(* rings of E1000e, the transfers of UsbXfer and the rings of XhciRing;    *)
(* and about what they rest on and serve: the frames and the programs of   *)
(* Memory, and the directories of FsTree.                                  *)
(***************************************************************************)
EXTENDS FatDisk, Ahci, Volumes, E1000e, UsbXfer, XhciRing, FsTree, Memory,
        FiniteSetTheorems, SequenceTheorems, WellFoundedInduction,
        NaturalsInduction, TLAPS

-----------------------------------------------------------------------------
(* FatDisk: the bounce sector.                                             *)

\* What the position, the disk and a call in progress are: a call that still moves
\* bytes has not reached the end of the volume, so its sector is on the disk.
FatTypeOK ==
    /\ platter \in [0 .. LastLba -> Sectors]
    /\ bounce \in Sectors
    /\ pos \in 0 .. VOL_SIZE
    /\ cached_lba \in {NoLba} \cup 0 .. LastLba
    /\ call.rest \in Seq(ByteVals)
    /\ call # NoFatCall => pos < VOL_SIZE /\ call.rest # <<>>

FatInv == FatTypeOK /\ CacheCoherent

\* The smallest of three numbers is one of them and not above any.
LEMMA MinOfThree ==
    ASSUME NEW a \in Int, NEW b \in Int, NEW c \in Int
    PROVE  /\ Min({a, b, c}) \in {a, b, c}
           /\ Min({a, b, c}) <= a /\ Min({a, b, c}) <= b /\ Min({a, b, c}) <= c
<1>1. \E x \in {a, b, c} : \A y \in {a, b, c} : x <= y
  OBVIOUS
<1> QED
  BY <1>1 DEF Min

\* Division by a positive number keeps the order.
LEMMA DivMono ==
    ASSUME NEW n \in Nat \ {0}, NEW a \in Nat, NEW b \in Nat, a <= b
    PROVE  a \div n \in Nat /\ a \div n <= b \div n
OBVIOUS


\* The next chunk is not empty and ends inside sector, buffer and volume.
LEMMA ChunkRange ==
    ASSUME FatTypeOK, call # NoFatCall
    PROVE  /\ Chunk \in Nat \ {0} /\ Chunk <= SECTOR_SIZE - Off
           /\ Chunk <= Len(call.rest) /\ Chunk <= VOL_SIZE - pos
           /\ Off \in 0 .. SECTOR_SIZE - 1 /\ Lba \in 0 .. LastLba
<1>1. pos \in Nat /\ pos < VOL_SIZE /\ Len(call.rest) \in Nat \ {0}
  BY FatAssumption DEF FatTypeOK
<1>2. Off \in 0 .. SECTOR_SIZE - 1
  BY <1>1, FatAssumption DEF Off
<1>3. Lba \in 0 .. LastLba
  BY <1>1, DivMono, FatAssumption DEF Lba, LastLba
<1> DEFINE a == SECTOR_SIZE - Off
           b == Len(call.rest)
           c == VOL_SIZE - pos
<1>4. a \in Nat \ {0} /\ b \in Nat \ {0} /\ c \in Nat \ {0}
  BY <1>1, <1>2, FatAssumption
<1>5. Chunk = Min({a, b, c})
  BY DEF Chunk
<1> HIDE DEF a, b, c
<1>6. Chunk \in {a, b, c} /\ Chunk <= a /\ Chunk <= b /\ Chunk <= c
  BY <1>4, <1>5, MinOfThree
<1>7. Chunk \in Nat \ {0}
  BY <1>4, <1>6
<1> QED
  BY <1>2, <1>3, <1>6, <1>7 DEF a, b, c

\* Forward leaves position and call as they have to be.
LEMMA ForwardOK ==
    ASSUME FatTypeOK, call # NoFatCall, Forward
    PROVE  /\ pos' \in 0 .. VOL_SIZE /\ call'.rest \in Seq(ByteVals)
           /\ call' # NoFatCall => pos' < VOL_SIZE /\ call'.rest # <<>>
<1> DEFINE rest == SubSeq(call.rest, Chunk + 1, Len(call.rest))
<1>1. rest \in Seq(ByteVals)
  BY ChunkRange DEF FatTypeOK
<1>2. pos + Chunk \in 0 .. VOL_SIZE
  BY ChunkRange, FatAssumption DEF FatTypeOK
<1> QED
  BY <1>1, <1>2, FatAssumption DEF Forward, NoFatCall, FatTypeOK

\* What a write puts into the bounce sector is a sector.
LEMMA WriteBounceType ==
    ASSUME FatTypeOK, call # NoFatCall
    PROVE  WriteBounce \in Sectors
<1>1. ASSUME NEW sec \in Sectors PROVE Overlaid(sec) \in Sectors
  <2>1. ASSUME NEW o \in 0 .. SECTOR_SIZE - 1
        PROVE  (IF o >= Off /\ o < Off + Chunk THEN call.rest[o - Off + 1] ELSE sec[o]) \in ByteVals
    <3>1. CASE o >= Off /\ o < Off + Chunk
      <4>1. o - Off + 1 \in 1 .. Len(call.rest)
        BY <3>1, ChunkRange, FatAssumption DEF FatTypeOK
      <4> QED  BY <3>1, <4>1 DEF FatTypeOK
    <3>2. CASE ~(o >= Off /\ o < Off + Chunk)
      BY <3>2 DEF Sectors
    <3> QED  BY <3>1, <3>2
  <2> QED  BY <2>1 DEF Overlaid, Sectors
<1>2. bounce \in Sectors /\ platter[Lba] \in Sectors
  BY ChunkRange DEF FatTypeOK
<1> QED
  BY <1>1, <1>2 DEF WriteBounce

\* The first state of a volume.
LEMMA FatInitInv == FatInit => FatInv
<1> SUFFICES ASSUME FatInit PROVE FatInv
  OBVIOUS
<1>1. bounce \in Sectors
  BY FatAssumption DEF FatInit, Sectors
<1>2. call.rest = <<>>
  BY DEF FatInit, NoFatCall
<1> QED
  BY <1>1, <1>2, FatAssumption DEF FatInit, FatInv, FatTypeOK, CacheCoherent

\* Every step keeps the cached sector coherent.
LEMMA FatNextInv == FatInv /\ [FatNext]_fatVars => FatInv'
<1> SUFFICES ASSUME FatInv, [FatNext]_fatVars PROVE FatInv'
  OBVIOUS
<1> USE DEF FatInv
<1>n. call.op # "none" => call # NoFatCall
  BY DEF NoFatCall
<1>1. ASSUME NEW op \in {"read", "write"}, FatBegin(op) PROVE FatInv'
  <2>1. PICK n \in 1 .. MAX_BUF : \E buf \in [1 .. n -> ByteVals] : call' = [op |-> op, rest |-> buf]
    BY <1>1 DEF FatBegin
  <2>2. PICK buf \in [1 .. n -> ByteVals] : call' = [op |-> op, rest |-> buf]
    BY <2>1
  <2>3. buf \in Seq(ByteVals) /\ Len(buf) = n
    BY FatAssumption
  <2>4. buf # <<>>
    BY <2>3
  <2> QED
    BY <1>1, <2>2, <2>3, <2>4 DEF FatBegin, FatTypeOK, CacheCoherent
<1>2. CASE ReadSector
  <2>1. call # NoFatCall
    BY <1>2, <1>n DEF ReadSector
  <2>2. FatTypeOK'
    BY <1>2, <2>1, ForwardOK, ChunkRange DEF ReadSector, FatTypeOK
  <2>3. CacheCoherent'
    BY <1>2 DEF ReadSector, CacheCoherent
  <2> QED  BY <2>2, <2>3
<1>3. CASE ReadFails
  BY <1>3 DEF ReadFails, DiskFails, FatTypeOK, CacheCoherent, NoFatCall
<1>4. CASE WriteSector
  <2>1. call # NoFatCall
    BY <1>4, <1>n DEF WriteSector
  <2>2. FatTypeOK'
    BY <1>4, <2>1, ForwardOK, ChunkRange, WriteBounceType DEF WriteSector, FatTypeOK
  <2>3. CacheCoherent'
    BY <1>4, <2>1, ChunkRange DEF WriteSector, CacheCoherent, FatTypeOK
  <2> QED  BY <2>2, <2>3
<1>5. CASE WriteLoadFails
  BY <1>5 DEF WriteLoadFails, DiskFails, FatTypeOK, CacheCoherent, NoFatCall
<1>6. CASE WriteStoreFails
  <2>1. call # NoFatCall
    BY <1>6, <1>n DEF WriteStoreFails
  <2>2. FatTypeOK'
    BY <1>6, <2>1, ChunkRange, WriteBounceType DEF WriteStoreFails, DiskFails, FatTypeOK, NoFatCall
  <2>3. CacheCoherent'
    BY <1>6 DEF WriteStoreFails, DiskFails, CacheCoherent
  <2> QED  BY <2>2, <2>3
<1>7. ASSUME NEW base \in {0, pos, VOL_SIZE}, NEW off \in -VOL_SIZE .. VOL_SIZE, SeekTo(base, off)
      PROVE  FatInv'
  <2>1. base + off \in Nat
    BY <1>7, FatAssumption DEF SeekTo, FatTypeOK
  <2>2. {base + off, VOL_SIZE} = {base + off, VOL_SIZE, VOL_SIZE}
    OBVIOUS
  <2>3. pos' \in 0 .. VOL_SIZE
    BY <1>7, <2>1, <2>2, MinOfThree, FatAssumption DEF SeekTo
  <2> QED
    BY <1>7, <2>3 DEF SeekTo, FatTypeOK, CacheCoherent
<1>8. CASE UNCHANGED fatVars
  BY <1>8 DEF fatVars, FatTypeOK, CacheCoherent
<1> QED
  BY <1>1, <1>2, <1>3, <1>4, <1>5, <1>6, <1>7, <1>8 DEF FatNext, Seek

\* The bounce sector of the volume is what the disk holds at cached_lba, for every size
\* of sector, volume and transfer, and whatever transfers fail (FatDisk::read, write).
THEOREM FatCacheCoherent == FatSpec => []CacheCoherent
<1>1. FatInv => CacheCoherent
  BY DEF FatInv
<1> QED
  BY <1>1, FatInitInv, FatNextInv, PTL DEF FatSpec

-----------------------------------------------------------------------------
(* Ahci: what a finished command moved.                                    *)

AhciOps == {"none", "identify", "read", "write", "flush"}

AhciTypeOK ==
    /\ adisk \in [Lbas -> Datas]
    /\ abounce \in Datas \cup {NoData}
    /\ hba \in [cmd : [op : AhciOps, lba : Nat], moved : BOOLEAN, err : BOOLEAN]
    /\ adrv \in [pc : {"probe", "ready", "issued", "idle", "absent"}, op : AhciOps, lba : Nat,
                 bufs : Seq(Datas \cup {NoData})]
    /\ aret \in [ok : BOOLEAN, op : AhciOps, lba : Nat, data : Datas \cup {NoData}]

\* The driver is between the start of a command and its answer.
AhciAtWork == adrv.pc \in {"ready", "issued"}

\* The chunks of a call lie on the disk, one sector after another.
ChunksOK ==
    /\ adrv.pc = "probe" => adrv.op = "identify" /\ Len(adrv.bufs) = 1 /\ ~aret.ok
    /\ AhciAtWork =>
        /\ adrv.op # "none" /\ Len(adrv.bufs) >= 1
        /\ adrv.op = "write" =>
              \A k \in 1 .. Len(adrv.bufs) : adrv.bufs[k] \in Datas /\ adrv.lba + k - 1 \in Lbas
        /\ adrv.op = "read" => adrv.lba \in Lbas
        /\ adrv.op # "write" => Len(adrv.bufs) = 1

\* What the controller has been told: sectors of the disk, and data for a write.
CommandOK ==
    /\ hba.cmd.op \in {"read", "write"} => hba.cmd.lba \in Lbas
    /\ hba.cmd.op = "write" => abounce \in Datas
    /\ AhciAtWork /\ adrv.op = "write" => abounce \in Datas

\* The transfer the driver waits for has taken place.
TransferDone ==
    /\ adrv.op = "read"  => abounce = adisk[adrv.lba]
    /\ adrv.op = "write" => adisk[adrv.lba] = Head(adrv.bufs)

\* As long as nothing was given up on: the controller has a command only while the
\* driver waits for it, the bounce frame holds what is to be written, and the result of
\* the chunk before is not overwritten by the chunk under way.
SlotOK ==
    ~late =>
        /\ Busy => adrv.pc = "issued" /\ hba.cmd.op = adrv.op /\ hba.cmd.lba = adrv.lba
        /\ AhciAtWork /\ adrv.op = "write" => abounce = Head(adrv.bufs)
        /\ adrv.pc = "issued" /\ ((Busy /\ hba.moved) \/ (~Busy /\ ~hba.err)) => TransferDone
        /\ AhciAtWork /\ aret.ok => adrv.op = "write" /\ aret.op = "write" /\ aret.lba < adrv.lba

AhciInv == AhciTypeOK /\ ChunksOK /\ CommandOK /\ SlotOK /\ AhciOk

\* The first state of a port.
LEMMA AhciInitInv == AhciInit => AhciInv
BY DEF AhciInit, AhciInv, AhciTypeOK, ChunksOK, CommandOK, SlotOK, AhciOk, AhciOps, AhciAtWork, Busy, Done, Slot,
       NoCmd, Driver, NoRet

\* The arguments of a call: sectors of the disk, and data for those it writes.
CallOK(op, lba, bufs) ==
    /\ op \in {"read", "write", "flush"} /\ lba \in Nat
    /\ bufs \in Seq(Datas \cup {NoData}) /\ Len(bufs) >= 1
    /\ op = "write" => \A k \in 1 .. Len(bufs) : bufs[k] \in Datas /\ lba + k - 1 \in Lbas
    /\ op = "read" => lba \in Lbas
    /\ op # "write" => Len(bufs) = 1

\* A call starts with the first of its chunks.
LEMMA AhciCallInv ==
    ASSUME AhciInv, NEW op, NEW lba, NEW bufs, CallOK(op, lba, bufs), Call(op, lba, bufs)
    PROVE  AhciInv'
<1>1. /\ adrv' = [pc |-> "ready", op |-> op, lba |-> lba, bufs |-> bufs]
      /\ abounce' = IF op = "write" THEN Head(bufs) ELSE abounce
      /\ aret' = NoRet /\ UNCHANGED <<adisk, hba, late>>
      /\ adrv.pc = "idle"
  BY DEF Call, Driver, Load, Resting
<1>2. bufs \in Seq(Datas \cup {NoData}) /\ Len(bufs) >= 1 /\ Head(bufs) = bufs[1] /\ Head(bufs) \in Datas \cup {NoData}
      /\ (op = "write" => Head(bufs) \in Datas)
  BY DEF CallOK
<1>3. AhciTypeOK'
  <2>1. abounce' \in Datas \cup {NoData}
    BY <1>1, <1>2 DEF AhciInv, AhciTypeOK
  <2>2. aret' \in [ok : BOOLEAN, op : AhciOps, lba : Nat, data : Datas \cup {NoData}]
    BY <1>1 DEF NoRet, AhciOps
  <2> QED
    BY <1>1, <2>1, <2>2 DEF AhciInv, AhciTypeOK, CallOK, AhciOps
<1>4. ChunksOK'
  BY <1>1 DEF ChunksOK, CallOK
<1>5. CommandOK'
  BY <1>1, <1>2 DEF AhciInv, CommandOK
<1>6. SlotOK' /\ AhciOk'
  BY <1>1 DEF AhciInv, SlotOK, AhciOk, AhciAtWork, Busy, Done, NoRet
<1> QED  BY <1>3, <1>4, <1>5, <1>6 DEF AhciInv

\* Once the driver rests, is absent, or has given up, little is left to keep.
LEMMA AhciQuiet ==
    ASSUME AhciInv, AhciTypeOK', ~AhciAtWork', adrv'.pc # "probe", UNCHANGED <<adisk, hba, abounce>>,
           AhciOk', ~late' => ~late /\ ~Busy
    PROVE  AhciInv'
<1>1. ChunksOK' /\ CommandOK'
  BY DEF AhciInv, ChunksOK, CommandOK
<1>2. SlotOK'
  BY DEF SlotOK, Busy, AhciAtWork
<1> QED  BY <1>1, <1>2 DEF AhciInv

\* The driver carries a command out.
LEMMA AhciDriverSteps ==
    ASSUME AhciInv, ProbeFails \/ Probe \/ Issue \/ TimeOut \/ IssueFails \/ Complete
    PROVE  AhciInv'
<1>t. AhciTypeOK /\ ChunksOK /\ CommandOK /\ SlotOK /\ AhciOk
  BY DEF AhciInv
<1>1. CASE ProbeFails
  <2>1. adrv' = [pc |-> "absent", op |-> "none", lba |-> 0, bufs |-> <<>>] /\ UNCHANGED <<adisk, hba, abounce, aret, late>>
    BY <1>1 DEF ProbeFails, Absent, Driver
  <2>2. AhciTypeOK'
    BY <1>t, <2>1 DEF AhciTypeOK, AhciOps
  <2>3. AhciOk' /\ (~late => ~Busy)
    BY <1>1, <1>t, <2>1 DEF ProbeFails, AhciOk, Done, SlotOK
  <2> QED  BY <2>1, <2>2, <2>3, AhciQuiet DEF AhciAtWork
<1>2. CASE Probe
  <2>1. AhciTypeOK' /\ adrv.pc = "probe" /\ adrv'.pc = "ready" /\ adrv'.op = adrv.op /\ adrv'.lba = adrv.lba
        /\ adrv'.bufs = adrv.bufs /\ UNCHANGED <<adisk, hba, abounce, aret, late>>
    BY <1>2, <1>t DEF Probe, AhciTypeOK
  <2>p. adrv.op = "identify" /\ Len(adrv.bufs) = 1 /\ ~aret.ok
    BY <1>t, <2>1 DEF ChunksOK
  <2>2. ChunksOK'
    BY <2>1, <2>p DEF ChunksOK
  <2>3. CommandOK'
    BY <1>t, <2>1, <2>p DEF CommandOK
  <2>4. SlotOK'
    BY <1>t, <2>1 DEF ChunksOK, SlotOK, Busy
  <2>5. AhciOk'
    BY <1>t, <2>1 DEF AhciOk, Done
  <2> QED  BY <2>1, <2>2, <2>3, <2>4, <2>5 DEF AhciInv
<1>3. CASE Issue
  <2>1. /\ hba' = [cmd |-> [op |-> adrv.op, lba |-> adrv.lba], moved |-> FALSE, err |-> FALSE]
        /\ adrv.pc = "ready" /\ ~Busy /\ UNCHANGED <<adisk, abounce, aret, late>>
    BY <1>3 DEF Issue, Slot
  <2>2. /\ adrv'.pc = "issued" /\ adrv'.op = adrv.op /\ adrv'.lba = adrv.lba /\ adrv'.bufs = adrv.bufs
        /\ adrv' \in [pc : {"probe", "ready", "issued", "idle", "absent"}, op : AhciOps, lba : Nat,
                      bufs : Seq(Datas \cup {NoData})]
        /\ adrv.op \in AhciOps /\ adrv.lba \in Nat
    BY <1>3, <1>t DEF Issue, AhciTypeOK
  <2>3. adrv.op # "none" /\ hba'.cmd.op = adrv.op /\ hba'.cmd.lba = adrv.lba /\ ~hba'.moved
    BY <1>t, <2>1 DEF ChunksOK, AhciAtWork
  <2>4. hba'.cmd # NoCmd
    BY <2>3 DEF NoCmd
  <2>5. AhciTypeOK'
    <3>1. hba' \in [cmd : [op : AhciOps, lba : Nat], moved : BOOLEAN, err : BOOLEAN]
      BY <2>1, <2>2
    <3> QED  BY <1>t, <2>1, <2>2, <3>1 DEF AhciTypeOK
  <2>6. ChunksOK'
    BY <1>t, <2>1, <2>2 DEF ChunksOK, AhciAtWork
  <2>7. CommandOK'
    <3>1. adrv.op \in {"read", "write"} => adrv.lba \in Lbas
      BY <1>t, <2>1 DEF ChunksOK, AhciAtWork, AhciTypeOK
    <3>2. adrv.op = "write" => abounce \in Datas
      BY <1>t, <2>1 DEF CommandOK, AhciAtWork
    <3> QED  BY <2>1, <2>2, <2>3, <3>1, <3>2 DEF CommandOK
  <2>8. SlotOK'
    BY <1>t, <2>1, <2>2, <2>3, <2>4 DEF SlotOK, Busy, AhciAtWork
  <2>9. AhciOk'
    BY <1>t, <2>1 DEF AhciOk, Done
  <2> QED  BY <2>5, <2>6, <2>7, <2>8, <2>9 DEF AhciInv
<1>4. CASE TimeOut \/ IssueFails
  <2>1. aret' = NoRet /\ adrv' \in {Absent, Resting} /\ UNCHANGED <<adisk, hba, abounce>> /\ (~late' => ~late /\ ~Busy)
    BY <1>4 DEF TimeOut, IssueFails, Err
  <2>2. adrv'.pc \in {"absent", "idle"} /\ ~AhciAtWork'
    BY <2>1 DEF Absent, Resting, Driver, AhciAtWork
  <2>3. AhciTypeOK'
    <3>1. aret' \in [ok : BOOLEAN, op : AhciOps, lba : Nat, data : Datas \cup {NoData}]
      BY <2>1 DEF NoRet, AhciOps
    <3>2. adrv' \in [pc : {"probe", "ready", "issued", "idle", "absent"}, op : AhciOps, lba : Nat,
                     bufs : Seq(Datas \cup {NoData})]
      <4>1. <<>> \in Seq(Datas \cup {NoData})
        OBVIOUS
      <4>2. PICK pc \in {"idle", "absent"} : adrv' = [pc |-> pc, op |-> "none", lba |-> 0, bufs |-> <<>>]
        BY <2>1 DEF Absent, Resting, Driver
      <4> QED  BY <4>1, <4>2 DEF AhciOps
    <3> QED  BY <1>t, <2>1, <3>1, <3>2 DEF AhciTypeOK
  <2>4. AhciOk'
    BY <2>1 DEF AhciOk, Done, NoRet
  <2> QED  BY <2>1, <2>2, <2>3, <2>4, AhciQuiet
<1>5. CASE Complete
  <2> DEFINE bufs == adrv.bufs
             data == IF adrv.op = "write" THEN Head(bufs) ELSE abounce
  <2>1. /\ adrv.pc = "issued" /\ ~Busy /\ ~hba.err /\ UNCHANGED <<adisk, hba, late>>
        /\ aret' = [ok |-> TRUE, op |-> adrv.op, lba |-> adrv.lba, data |-> data]
    BY <1>5 DEF Complete
  <2>2. Len(bufs) >= 1 /\ bufs \in Seq(Datas \cup {NoData})
    BY <1>t, <2>1 DEF AhciTypeOK, ChunksOK, AhciAtWork
  <2>3. /\ Head(bufs) \in Datas \cup {NoData} /\ Tail(bufs) \in Seq(Datas \cup {NoData})
        /\ Len(Tail(bufs)) = Len(bufs) - 1 /\ Len(bufs) \in Nat
        /\ \A k \in 1 .. Len(Tail(bufs)) : Tail(bufs)[k] = bufs[k + 1]
    BY <2>2
  <2>4. AhciOk'
    BY <1>t, <2>1 DEF SlotOK, TransferDone, AhciOk, Done
  <2>5. aret' \in [ok : BOOLEAN, op : AhciOps, lba : Nat, data : Datas \cup {NoData}]
    <3>1. data \in Datas \cup {NoData} /\ adrv.op \in AhciOps /\ adrv.lba \in Nat
      BY <1>t, <2>3 DEF AhciTypeOK
    <3> HIDE DEF data
    <3> QED  BY <2>1, <3>1
  <2>6. CASE Tail(bufs) = <<>>
    <3>1. adrv' = Resting /\ abounce' = abounce
      BY <1>5, <2>6 DEF Complete
    <3>2. AhciTypeOK'
      BY <1>t, <2>1, <2>5, <3>1 DEF Resting, Driver, AhciTypeOK, AhciOps
    <3> QED  BY <2>1, <2>4, <3>1, <3>2, AhciQuiet DEF Resting, Driver, AhciAtWork
  <2>7. CASE Tail(bufs) # <<>>
    <3>1. /\ adrv' = [pc |-> "ready", op |-> adrv.op, lba |-> adrv.lba + 1, bufs |-> Tail(bufs)]
          /\ abounce' = IF adrv.op = "write" THEN Head(Tail(bufs)) ELSE abounce
      BY <1>5, <2>7 DEF Complete, Driver, Load
    <3>2. Len(Tail(bufs)) >= 1 /\ Head(Tail(bufs)) = bufs[2] /\ Len(bufs) >= 2
      BY <2>3, <2>7
    <3>3. /\ adrv.op = "write"
          /\ \A k \in 1 .. Len(bufs) : bufs[k] \in Datas /\ adrv.lba + k - 1 \in Lbas
      BY <1>t, <2>1, <3>2 DEF ChunksOK, AhciAtWork
    <3>4. ASSUME NEW k \in 1 .. Len(Tail(bufs))
          PROVE  Tail(bufs)[k] \in Datas /\ adrv.lba + 1 + k - 1 \in Lbas
      <4>1. k + 1 \in 1 .. Len(bufs) /\ adrv.lba + (k + 1) - 1 = adrv.lba + 1 + k - 1 /\ Tail(bufs)[k] = bufs[k + 1]
        BY <1>t, <2>3 DEF AhciTypeOK
      <4> QED  BY <3>3, <4>1
    <3>5. ChunksOK'
      BY <3>1, <3>2, <3>3, <3>4 DEF ChunksOK
    <3>6. abounce' \in Datas /\ abounce' = Head(Tail(bufs))
      BY <3>1, <3>2, <3>3
    <3>7. AhciTypeOK'
      <4>1. adrv.op \in AhciOps /\ adrv.lba + 1 \in Nat
        BY <1>t DEF AhciTypeOK
      <4>2. adrv' \in [pc : {"probe", "ready", "issued", "idle", "absent"}, op : AhciOps, lba : Nat,
                       bufs : Seq(Datas \cup {NoData})]
        BY <2>3, <3>1, <4>1
      <4> QED  BY <1>t, <2>1, <2>5, <3>6, <4>2 DEF AhciTypeOK
    <3>8. CommandOK'
      BY <1>t, <2>1, <3>6 DEF CommandOK
    <3>9. SlotOK'
      BY <1>t, <2>1, <3>1, <3>3, <3>6 DEF SlotOK, AhciAtWork, Busy, AhciTypeOK
    <3> QED  BY <2>4, <3>5, <3>7, <3>8, <3>9 DEF AhciInv
  <2> QED  BY <2>6, <2>7
<1> QED  BY <1>1, <1>2, <1>3, <1>4, <1>5

\* The controller moves data and reports.
LEMMA AhciControllerSteps ==
    ASSUME AhciInv, HbaMoves \/ HbaDone
    PROVE  AhciInv'
<1>t. AhciTypeOK /\ ChunksOK /\ CommandOK /\ SlotOK /\ AhciOk
  BY DEF AhciInv
<1>1. CASE HbaMoves
  <2>1. /\ Busy /\ Busy' /\ hba'.cmd = hba.cmd /\ hba'.moved /\ UNCHANGED <<adrv, aret, late>>
        /\ hba' \in [cmd : [op : AhciOps, lba : Nat], moved : BOOLEAN, err : BOOLEAN]
        /\ adisk' = IF hba.cmd.op = "write" THEN [adisk EXCEPT ![hba.cmd.lba] = abounce] ELSE adisk
        /\ abounce' = IF hba.cmd.op = "read" THEN adisk[hba.cmd.lba] ELSE abounce
    BY <1>1, <1>t DEF HbaMoves, Busy, AhciTypeOK
  <2>2. adisk' \in [Lbas -> Datas] /\ abounce' \in Datas \cup {NoData}
        /\ (abounce \in Datas => abounce' \in Datas)
    BY <1>t, <2>1 DEF AhciTypeOK, CommandOK
  <2>3. AhciTypeOK'
    BY <1>t, <2>1, <2>2 DEF AhciTypeOK
  <2>4. ChunksOK'
    BY <1>t, <2>1 DEF ChunksOK, AhciAtWork
  <2>5. CommandOK'
    BY <1>t, <2>1, <2>2 DEF CommandOK, AhciAtWork
  <2>6. SlotOK' /\ AhciOk'
    <3>1. CASE late
      BY <2>1, <3>1 DEF SlotOK, AhciOk
    <3>2. CASE ~late
      <4>1. adrv.pc = "issued" /\ hba.cmd.op = adrv.op /\ hba.cmd.lba = adrv.lba /\ adrv.lba \in Nat
        BY <1>t, <2>1, <3>2 DEF SlotOK, AhciTypeOK
      <4>2. adrv.op \in {"read", "write"} => adrv.lba \in Lbas
        BY <1>t, <4>1 DEF CommandOK
      <4>3. adrv.op = "write" => abounce = Head(adrv.bufs)
        BY <1>t, <3>2, <4>1 DEF SlotOK, AhciAtWork
      <4>4. TransferDone'
        BY <1>t, <2>1, <4>1, <4>2, <4>3 DEF TransferDone, AhciTypeOK
      <4>5. aret.ok => adrv.op = "write" /\ aret.op = "write" /\ aret.lba < adrv.lba
        BY <1>t, <3>2, <4>1 DEF SlotOK, AhciAtWork
      <4>6. SlotOK'
        BY <2>1, <4>1, <4>3, <4>4, <4>5 DEF SlotOK
      <4>7. AhciOk'
        BY <1>t, <2>1, <3>2, <4>1, <4>5 DEF AhciOk, Done, AhciTypeOK
      <4> QED  BY <4>6, <4>7
    <3> QED  BY <3>1, <3>2
  <2> QED  BY <2>3, <2>4, <2>5, <2>6 DEF AhciInv
<1>2. CASE HbaDone
  <2>1. PICK e \in BOOLEAN : hba' = [cmd |-> NoCmd, moved |-> FALSE, err |-> e] /\ (~e => hba.moved)
    BY <1>2 DEF HbaDone, Slot
  <2>2. ~Busy' /\ Busy /\ (~hba'.err => hba.moved) /\ UNCHANGED <<adisk, abounce, adrv, aret, late>>
    BY <1>2, <2>1 DEF Busy, HbaDone
  <2>3. AhciTypeOK'
    BY <1>t, <2>1, <2>2 DEF AhciTypeOK, NoCmd, AhciOps
  <2>4. ChunksOK'
    BY <1>t, <2>2 DEF ChunksOK, AhciAtWork
  <2>5. CommandOK'
    BY <1>t, <2>1, <2>2 DEF CommandOK, AhciAtWork, NoCmd
  <2>6. SlotOK'
    <3>1. ASSUME ~late, ~hba'.err PROVE TransferDone
      <4>1. hba.moved /\ Busy
        BY <2>2, <3>1
      <4>2. adrv.pc = "issued"
        BY <1>t, <3>1, <4>1 DEF SlotOK
      <4> QED  BY <1>t, <3>1, <4>1, <4>2, Zenon DEF SlotOK
    <3>2. TransferDone => TransferDone'
      BY <2>2 DEF TransferDone
    <3>3. ~late => /\ AhciAtWork /\ adrv.op = "write" => abounce = Head(adrv.bufs)
                   /\ AhciAtWork /\ aret.ok => adrv.op = "write" /\ aret.op = "write" /\ aret.lba < adrv.lba
      BY <1>t DEF SlotOK
    <3>4. UNCHANGED <<late, AhciAtWork, adrv, abounce, aret>> /\ ~Busy'
      BY <2>2 DEF AhciAtWork
    <3> QED  BY <3>1, <3>2, <3>3, <3>4 DEF SlotOK
  <2>7. AhciOk'
    BY <1>t, <2>2 DEF AhciOk, Done
  <2> QED  BY <2>3, <2>4, <2>5, <2>6, <2>7 DEF AhciInv
<1> QED  BY <1>1, <1>2

\* Every step of driver and controller keeps the invariant.
LEMMA AhciNextInv == AhciInv /\ [AhciNext]_ahciVars => AhciInv'
<1> SUFFICES ASSUME AhciInv, [AhciNext]_ahciVars PROVE AhciInv'
  OBVIOUS
<1>1. ASSUME NEW l \in Lbas, NEW d \in Datas
      PROVE  /\ CallOK("read", l, <<NoData>>) /\ CallOK("write", l, <<d>>)
             /\ \A d2 \in Datas : l + 1 \in Lbas => CallOK("write", l, <<d, d2>>)
  BY AhciAssumption DEF CallOK
<1>2. CallOK("flush", 0, <<NoData>>)
  BY DEF CallOK
<1>3. CASE UNCHANGED ahciVars
  BY <1>3 DEF ahciVars, AhciInv, AhciTypeOK, ChunksOK, CommandOK, SlotOK, AhciOk, AhciAtWork, Busy, Done, TransferDone
<1> QED
  BY <1>1, <1>2, <1>3, AhciCallInv, AhciDriverSteps, AhciControllerSteps DEF AhciNext

\* A transfer of the AHCI driver that returned Ok moved its data, for every disk and
\* every sequence of calls, errors and timeouts, as long as no command was given up
\* while the controller still had it (read_blocks, write_blocks, issue).
THEOREM AhciTransfers == AhciSpec => []AhciOk
<1>1. AhciInv => AhciOk
  BY DEF AhciInv
<1> QED
  BY <1>1, AhciInitInv, AhciNextInv, PTL DEF AhciSpec

-----------------------------------------------------------------------------
(* Volumes: the disk an installation writes.                               *)

\* The live root is the disk of VOLUME, what is mounted is VOLUME or nothing, and an
\* installation runs on another disk than the live root.
VolInv ==
    /\ live_root = VOLUME.disk /\ FS \in {VOLUME, NoVolume}
    /\ inst = [disk |-> inst.disk, todo |-> inst.todo]
    /\ inst # NoInst => inst.disk # live_root /\ inst.disk # None

\* Every step keeps live root and volume together.
LEMMA VolNextInv == VolInv /\ [VolNext]_volVars => VolInv'
<1> SUFFICES ASSUME VolInv, [VolNext]_volVars PROVE VolInv'
  OBVIOUS
<1>1. CASE PowerLoss
  BY <1>1 DEF PowerLoss, BootState, Mounted, VolInv, NoInst
<1>2. CASE DeviceFails \/ DeviceRecovers
  BY <1>2 DEF DeviceFails, DeviceRecovers, VolInv
<1>3. CASE Sync
  BY <1>3 DEF Sync, Mounted, VolInv
<1>4. ASSUME NEW f, ChangeFile(f) PROVE VolInv'
  BY <1>4 DEF ChangeFile, VolInv
<1>5. ASSUME NEW d \in ToSet(Disks), Install(d) PROVE VolInv'
  <2>1. d # None /\ live_root # d /\ UNCHANGED <<live_root, FS, VOLUME>>
    BY <1>5, VolAssumption DEF Install
  <2>2. inst' = inst \/ inst' = [disk |-> d, todo |-> ApplySteps]
    BY <1>5 DEF Install
  <2> QED  BY <2>1, <2>2 DEF VolInv
<1>6. CASE ApplyStep
  <2>1. UNCHANGED <<live_root, FS, VOLUME>> /\ inst # NoInst
    BY <1>6 DEF ApplyStep
  <2>2. inst' = NoInst \/ \E rest : inst' = [inst EXCEPT !.todo = rest]
    BY <1>6 DEF ApplyStep
  <2>3. inst' = NoInst \/ \E rest : inst' = [disk |-> inst.disk, todo |-> rest]
    BY <2>2 DEF VolInv
  <2> QED  BY <2>1, <2>3 DEF VolInv, NoInst
<1>7. CASE ApplyFails
  BY <1>7 DEF ApplyFails, VolInv, NoInst
<1>8. CASE UNCHANGED volVars
  BY <1>8 DEF volVars, VolInv
<1> QED
  BY <1>1, <1>2, <1>3, <1>4, <1>5, <1>6, <1>7, <1>8 DEF VolNext

\* The installer never writes the disk that is, or was last, mounted, for any number of
\* disks, whatever they hold, fail or lose power (install::step, fs::sync, fs::init).
THEOREM InstallSparesLiveDisk == VolSpec => []MountedDiskSafe
<1>1. VolInit => VolInv
  BY DEF VolInit, VolInv, NoInst
<1>2. VolInv => MountedDiskSafe
  BY DEF VolInv, MountedDiskSafe, NoVolume
<1> QED
  BY <1>1, <1>2, VolNextInv, PTL DEF VolSpec

\* A set of numbers has its least one.
LEMMA MinIn ==
    ASSUME NEW S \in SUBSET Nat, S # {}
    PROVE  Min(S) \in S
<1> DEFINE R == OpToRel(<, Nat)
<1>1. \A x, y \in Nat : x < y => <<x, y>> \in R
  BY DEF OpToRel
<1>2. IsWellFoundedOn(R, Nat)
  BY NatLessThanWellFounded
<1> HIDE DEF R
<1>3. S \subseteq Nat
  OBVIOUS
<1>4. \E x \in S : \A y \in S : ~(<<y, x>> \in R)
  BY <1>2, <1>3, WFMin
<1>5. PICK x \in S : \A y \in S : ~(<<y, x>> \in R)
  BY <1>4
<1>6. ASSUME NEW y \in S PROVE x <= y
  <2>1. x \in Nat /\ y \in Nat
    BY <1>3
  <2>2. ~(y < x)
    BY <1>1, <1>5, <2>1
  <2> QED  BY <2>1, <2>2
<1>7. \E z \in S : \A y \in S : z <= y
  BY <1>6
<1> QED  BY <1>7 DEF Min

\* Whatever the disks hold and wherever an installation was cut off, a boot mounts a volume
\* with a kernel if a disk that answers has one: the one that fs::init comes to first
\* (mod.rs:41-84).
THEOREM BootMountsKernel == VolSpec => BootFindsKernel
<1>1. ASSUME PowerLoss, NEW n \in Candidates(table'), Kernel \in FilesOf(VolumeAt(table', n))
      PROVE  FS' # NoVolume /\ Kernel \in FilesOf(FS')
  <2>1. PICK disks : disks = SelectSeq(Disks, LAMBDA d : d \notin dead)
    OBVIOUS
  <2>2. table' = disks /\ FS' = RootOf(disks)
    BY <1>1, <2>1 DEF PowerLoss, BootState, Mounted
  <2>3. PICK kern : kern = {k \in Candidates(disks) : Kernel \in FilesOf(VolumeAt(disks, k))}
    OBVIOUS
  <2>4. n \in kern /\ kern \in SUBSET Nat
    BY <1>1, <2>2, <2>3 DEF Candidates
  <2>5. PICK k \in kern : k = Min(kern)
    BY <2>4, MinIn
  <2>6. FS' = VolumeAt(disks, k)
    BY <2>2, <2>3, <2>4, <2>5 DEF RootOf
  <2>7. FS'.place # NoVolume.place
    BY <2>6 DEF VolumeAt, NoVolume, None
  <2> QED  BY <2>3, <2>5, <2>6, <2>7
<1>2. [VolNext]_volVars => [PowerLoss => \A n \in Candidates(table') :
            Kernel \in FilesOf(VolumeAt(table', n)) => FS' # NoVolume /\ Kernel \in FilesOf(FS')]_volVars
  BY <1>1
<1> QED
  BY <1>2, PTL DEF VolSpec, BootFindsKernel

-----------------------------------------------------------------------------
(* E1000e: the order of frames.                                            *)

\* The k-th place of a ring counted from r.
At(r, k) == IF r + k < RING THEN r + k ELSE r + k - RING

NicTypeOK ==
    /\ rxd \in [0 .. RING - 1 -> [full : BOOLEAN, bad : BOOLEAN, frame : EthFrames \cup {Empty}]]
    /\ txd \in [0 .. RING - 1 -> [done : BOOLEAN, frame : EthFrames \cup {Empty}]]
    /\ regs \in [RDH : 0 .. RING - 1, RDT : 0 .. RING - 1, TDH : 0 .. RING - 1, TDT : 0 .. RING - 1]
    /\ rx_i \in 0 .. RING - 1 /\ tx_i \in 0 .. RING - 1
    /\ spin \in BOOLEAN /\ wrong \in BOOLEAN
    /\ rxq \in Seq(EthFrames) /\ txq \in Seq(EthFrames)

\* The card has filled the n places from rx_i on, and at says where each frame of rxq is.
RxOK(n, at) ==
    /\ regs.RDH = At(rx_i, n) /\ regs.RDT = At(rx_i, RING - 1)
    /\ \A k \in 0 .. RING - 1 : rxd[At(rx_i, k)].full <=> k < n
    /\ \A i, j \in 1 .. Len(rxq) : i < j => at[i] < at[j]
    /\ \A k \in 0 .. n - 1 : ~rxd[At(rx_i, k)].bad <=> \E i \in 1 .. Len(rxq) : at[i] = k
    /\ \A i \in 1 .. Len(rxq) : rxd[At(rx_i, at[i])].frame = rxq[i]

RxInv == \E n \in 0 .. RING - 1 : \E at \in [1 .. Len(rxq) -> 0 .. n - 1] : RxOK(n, at)

\* Transmission: nothing is under way; the card has the frame at tx_i; it has sent it,
\* and the driver has not gone on, because it still spins or because it gave up; or the
\* driver that gave up has put a frame where the card does not look.
TxInv ==
    /\ \A i \in 0 .. RING - 1 : i # tx_i => txd[i].done
    /\ \/ regs.TDH = tx_i /\ regs.TDT = tx_i /\ txq = <<>> /\ txd[tx_i].done /\ ~spin
       \/ regs.TDH = tx_i /\ regs.TDT = NextDesc(tx_i) /\ txq = <<txd[tx_i].frame>> /\ ~txd[tx_i].done
       \/ regs.TDH = NextDesc(tx_i) /\ regs.TDT = NextDesc(tx_i) /\ txq = <<>> /\ txd[tx_i].done
       \/ regs.TDH = NextDesc(tx_i) /\ regs.TDT = NextDesc(tx_i) /\ Len(txq) = 1 /\ ~txd[tx_i].done

NicDown ==
    /\ nicPages = 0 /\ ~spin /\ rxq = <<>> /\ txq = <<>>
    /\ \A i \in 0 .. RING - 1 : ~rxd[i].full

NicInv ==
    /\ NicTypeOK /\ ~wrong /\ nic \in {"none", "up"}
    /\ nic = "none" => NicDown
    /\ nic = "up" => RxInv /\ TxInv

\* The next place of a ring is another one.
LEMMA NextPlace ==
    ASSUME NEW i \in 0 .. RING - 1
    PROVE  /\ NextDesc(i) = (IF i = RING - 1 THEN 0 ELSE i + 1)
           /\ NextDesc(i) \in 0 .. RING - 1 /\ NextDesc(i) # i
BY RingAtLeastTwo DEF NextDesc

\* Places are places of the ring, different for different counts, and all are reached.
LEMMA PlaceFacts ==
    ASSUME NEW r \in 0 .. RING - 1
    PROVE  /\ \A k \in 0 .. RING - 1 : At(r, k) \in 0 .. RING - 1
           /\ \A k, l \in 0 .. RING - 1 : At(r, k) = At(r, l) => k = l
           /\ \A i \in 0 .. RING - 1 : \E k \in 0 .. RING - 1 : At(r, k) = i
           /\ At(r, 0) = r
           /\ \A k \in 0 .. RING - 2 : NextDesc(At(r, k)) = At(r, k + 1)
           /\ \A k \in 0 .. RING - 2 : At(NextDesc(r), k) = At(r, k + 1)
           /\ At(NextDesc(r), RING - 1) = r
<1>1. /\ \A k \in 0 .. RING - 1 : At(r, k) \in 0 .. RING - 1
      /\ \A k, l \in 0 .. RING - 1 : At(r, k) = At(r, l) => k = l
      /\ At(r, 0) = r
  BY RingAtLeastTwo DEF At
<1>2. ASSUME NEW i \in 0 .. RING - 1 PROVE \E k \in 0 .. RING - 1 : At(r, k) = i
  <2>1. CASE i >= r
    <3>1. i - r \in 0 .. RING - 1 /\ At(r, i - r) = i
      BY <2>1, RingAtLeastTwo DEF At
    <3> QED  BY <3>1
  <2>2. CASE i < r
    <3>1. i - r + RING \in 0 .. RING - 1 /\ At(r, i - r + RING) = i
      BY <2>2, RingAtLeastTwo DEF At
    <3> QED  BY <3>1
  <2> QED  BY <2>1, <2>2, RingAtLeastTwo
<1>3. \A k \in 0 .. RING - 2 : NextDesc(At(r, k)) = At(r, k + 1)
  <2> TAKE k \in 0 .. RING - 2
  <2>1. At(r, k) \in 0 .. RING - 1
    BY RingAtLeastTwo DEF At
  <2> QED  BY <2>1, NextPlace, RingAtLeastTwo DEF At
<1>4. /\ \A k \in 0 .. RING - 2 : At(NextDesc(r), k) = At(r, k + 1)
      /\ At(NextDesc(r), RING - 1) = r
  BY NextPlace, RingAtLeastTwo DEF At
<1> QED  BY <1>1, <1>2, <1>3, <1>4

\* No frame has come in, and the card may fill every place but one.
LEMMA RxEmpty ==
    ASSUME rxq' = <<>>, regs'.RDH = rx_i', regs'.RDT = At(rx_i', RING - 1), rx_i' \in 0 .. RING - 1,
           \A i \in 0 .. RING - 1 : ~rxd'[i].full
    PROVE  RxInv'
<1>1. Len(rxq') = 0 /\ 1 .. Len(rxq') = {} /\ 0 .. 0 - 1 = {}
  OBVIOUS
<1>2. PICK at : at = [i \in {} |-> 0]
  OBVIOUS
<1>3. at \in [{} -> {}]
  BY <1>2
<1>4. /\ At(rx_i', 0) = rx_i'
      /\ \A k \in 0 .. RING - 1 : ~rxd'[At(rx_i', k)].full /\ ~(k < 0)
  <2>1. \A k \in 0 .. RING - 1 : At(rx_i', k) \in 0 .. RING - 1
    BY PlaceFacts
  <2>2. \A k \in 0 .. RING - 1 : ~(k < 0)
    BY RingAtLeastTwo
  <2> QED  BY <2>1, <2>2, PlaceFacts
<1>5. RxOK(0, at)'
  BY <1>1, <1>4 DEF RxOK
<1>6. 0 \in 0 .. RING - 1
  BY RingAtLeastTwo
<1>7. at \in [1 .. Len(rxq') -> 0 .. 0 - 1]
  BY <1>1, <1>3
<1> QED  BY <1>5, <1>6, <1>7 DEF RxInv

\* A frame comes in.
LEMMA RxTakes ==
    ASSUME NicTypeOK, RxInv, nic = "up", NEW f \in EthFrames, NEW bad \in BOOLEAN, CardReceives(f, bad)
    PROVE  RxInv'
<1>1. PICK n \in 0 .. RING - 1 : \E at \in [1 .. Len(rxq) -> 0 .. n - 1] : RxOK(n, at)
  BY DEF RxInv
<1>2. PICK at \in [1 .. Len(rxq) -> 0 .. n - 1] : RxOK(n, at)
  BY <1>1
<1>3. n < RING - 1 /\ regs.RDH = At(rx_i, n) /\ rx_i \in 0 .. RING - 1
  BY <1>2, RingAtLeastTwo DEF RxOK, CardReceives, NicTypeOK
<1>4. /\ rx_i' = rx_i /\ regs'.RDH = At(rx_i, n + 1) /\ regs'.RDT = At(rx_i, RING - 1)
      /\ rxd' = [rxd EXCEPT ![At(rx_i, n)] = [full |-> TRUE, bad |-> bad, frame |-> f]]
  <2>1. regs'.RDH = NextDesc(regs.RDH) /\ regs'.RDT = regs.RDT
    BY DEF CardReceives, NicTypeOK
  <2> QED
    BY <1>2, <1>3, <2>1, PlaceFacts, RingAtLeastTwo DEF CardReceives, RxOK
<1>5. /\ \A k \in 0 .. RING - 1 : k # n => rxd'[At(rx_i, k)] = rxd[At(rx_i, k)]
      /\ rxd'[At(rx_i, n)] = [full |-> TRUE, bad |-> bad, frame |-> f]
  BY <1>3, <1>4, PlaceFacts DEF NicTypeOK
<1>6. \A k \in 0 .. RING - 1 : rxd'[At(rx_i, k)].full <=> k < n + 1
  BY <1>2, <1>5, RingAtLeastTwo DEF RxOK
<1>7. Len(rxq) \in Nat
  BY DEF NicTypeOK
<1>8. \A i \in 1 .. Len(rxq) : at[i] \in 0 .. n - 1 /\ at[i] # n /\ at[i] \in 0 .. RING - 1 /\ at[i] \in 0 .. n
  BY RingAtLeastTwo
<1>9. CASE bad
  <2>1. rxq' = rxq
    BY <1>9 DEF CardReceives
  <2>2. at \in [1 .. Len(rxq') -> 0 .. (n + 1) - 1]
    BY <2>1
  <2>3. ASSUME NEW k \in 0 .. (n + 1) - 1
        PROVE  ~rxd'[At(rx_i, k)].bad <=> \E i \in 1 .. Len(rxq) : at[i] = k
    <3>1. CASE k = n
      <4>1. rxd'[At(rx_i, k)].bad = TRUE
        BY <1>5, <1>9, <3>1
      <4>2. \A i \in 1 .. Len(rxq) : at[i] # k
        BY <1>8, <3>1
      <4> QED  BY <4>1, <4>2
    <3>2. CASE k # n
      <4>1. k \in 0 .. n - 1 /\ k \in 0 .. RING - 1
        BY <3>2, <1>3, RingAtLeastTwo
      <4> QED  BY <1>2, <1>5, <3>2, <4>1 DEF RxOK
    <3> QED  BY <3>1, <3>2
  <2>4. \A i \in 1 .. Len(rxq) : rxd'[At(rx_i, at[i])].frame = rxq[i]
    BY <1>2, <1>5, <1>8 DEF RxOK
  <2>5. \A i, j \in 1 .. Len(rxq) : i < j => at[i] < at[j]
    BY <1>2 DEF RxOK
  <2>6. RxOK(n + 1, at)'
    BY <1>4, <1>6, <2>1, <2>3, <2>4, <2>5 DEF RxOK
  <2>7. n + 1 \in 0 .. RING - 1
    BY <1>3, RingAtLeastTwo
  <2> QED  BY <2>2, <2>6, <2>7 DEF RxInv
<1>10. CASE ~bad
  <2>m. PICK m \in Nat : m = Len(rxq)
    BY <1>7
  <2>t. PICK at2 : at2 = [i \in 1 .. m + 1 |-> IF i <= m THEN at[i] ELSE n]
    OBVIOUS
  <2>1. rxq' = Append(rxq, f) /\ Len(rxq') = m + 1 /\ (\A i \in 1 .. m : rxq'[i] = rxq[i]) /\ rxq'[m + 1] = f
    BY <1>10, <2>m DEF CardReceives, NicTypeOK
  <2>2. at2 \in [1 .. Len(rxq') -> 0 .. (n + 1) - 1]
    BY <1>8, <2>1, <2>m, <2>t
  <2>a. /\ at2[m + 1] = n /\ \A i \in 1 .. m : at2[i] = at[i]
        /\ \A i \in 1 .. m + 1 : i \in 1 .. m \/ i = m + 1
    BY <2>t
  <2>3. ASSUME NEW k \in 0 .. (n + 1) - 1
        PROVE  ~rxd'[At(rx_i, k)].bad <=> \E i \in 1 .. m + 1 : at2[i] = k
    <3>1. CASE k = n
      <4>1. ~rxd'[At(rx_i, k)].bad
        BY <1>5, <1>10, <3>1
      <4>2. m + 1 \in 1 .. m + 1 /\ at2[m + 1] = k
        BY <2>a, <3>1
      <4> QED  BY <4>1, <4>2
    <3>2. CASE k # n
      <4>1. k \in 0 .. n - 1 /\ k \in 0 .. RING - 1
        BY <3>2, <1>3, RingAtLeastTwo
      <4>2. ~rxd'[At(rx_i, k)].bad <=> \E i \in 1 .. m : at[i] = k
        BY <1>2, <1>5, <3>2, <4>1, <2>m DEF RxOK
      <4>3. (\E i \in 1 .. m + 1 : at2[i] = k) <=> \E i \in 1 .. m : at[i] = k
        <5>1. ASSUME NEW i \in 1 .. m + 1, at2[i] = k PROVE i \in 1 .. m /\ at[i] = k
          BY <2>a, <3>2, <5>1
        <5>2. ASSUME NEW i \in 1 .. m, at[i] = k PROVE i \in 1 .. m + 1 /\ at2[i] = k
          BY <2>a, <5>2
        <5> QED  BY <5>1, <5>2
      <4> QED  BY <4>2, <4>3
    <3> QED  BY <3>1, <3>2
  <2>4. \A i, j \in 1 .. m + 1 : i < j => at2[i] < at2[j]
    <3> SUFFICES ASSUME NEW i \in 1 .. m + 1, NEW j \in 1 .. m + 1, i < j PROVE at2[i] < at2[j]
      OBVIOUS
    <3>1. i \in 1 .. m /\ at2[i] = at[i]
      BY <2>a
    <3>2. CASE j = m + 1
      BY <1>8, <2>a, <2>m, <3>1, <3>2
    <3>3. CASE j # m + 1
      BY <1>2, <2>a, <2>m, <3>1, <3>3 DEF RxOK
    <3> QED  BY <3>2, <3>3
  <2>5. \A i \in 1 .. m + 1 : rxd'[At(rx_i, at2[i])].frame = rxq'[i]
    <3> TAKE i \in 1 .. m + 1
    <3>1. CASE i = m + 1
      BY <1>5, <2>1, <2>a, <3>1
    <3>2. CASE i # m + 1
      <4>1. i \in 1 .. m /\ at2[i] = at[i] /\ rxq'[i] = rxq[i]
        BY <2>1, <2>a, <3>2
      <4>2. at[i] \in 0 .. RING - 1 /\ at[i] # n /\ rxd[At(rx_i, at[i])].frame = rxq[i]
        BY <1>2, <1>8, <2>m, <4>1 DEF RxOK
      <4> QED  BY <1>5, <4>1, <4>2
    <3> QED  BY <3>1, <3>2
  <2>6. RxOK(n + 1, at2)'
    BY <1>4, <1>6, <2>1, <2>3, <2>4, <2>5 DEF RxOK
  <2>7. n + 1 \in 0 .. RING - 1
    BY <1>3, RingAtLeastTwo
  <2> QED  BY <2>2, <2>6, <2>7 DEF RxInv
<1> QED  BY <1>9, <1>10

\* The driver takes the oldest descriptor: a good one holds the oldest frame.
LEMMA RxGives ==
    ASSUME NicTypeOK, RxInv, ~wrong, receive
    PROVE  RxInv' /\ ~wrong'
<1>1. PICK n \in 0 .. RING - 1 : \E at \in [1 .. Len(rxq) -> 0 .. n - 1] : RxOK(n, at)
  BY DEF RxInv
<1>2. PICK at \in [1 .. Len(rxq) -> 0 .. n - 1] : RxOK(n, at)
  BY <1>1
<1>3. rx_i \in 0 .. RING - 1 /\ At(rx_i, 0) = rx_i /\ 0 \in 0 .. RING - 1
  BY PlaceFacts, RingAtLeastTwo DEF NicTypeOK
<1>4. n >= 1 /\ n - 1 \in 0 .. RING - 2 /\ n - 1 \in 0 .. RING - 1
  <2>1. 0 < n
    BY <1>2, <1>3 DEF RxOK, receive
  <2> QED  BY <2>1, RingAtLeastTwo
<1>5. rx_i' = NextDesc(rx_i) /\ regs'.RDH = At(NextDesc(rx_i), n - 1) /\ regs'.RDT = At(NextDesc(rx_i), RING - 1)
  <2>1. regs'.RDH = regs.RDH /\ regs'.RDT = rx_i
    BY DEF receive, recycle_rx, NicTypeOK
  <2>2. At(NextDesc(rx_i), n - 1) = At(rx_i, (n - 1) + 1) /\ (n - 1) + 1 = n
    BY <1>3, <1>4, PlaceFacts
  <2>3. At(NextDesc(rx_i), RING - 1) = rx_i
    BY <1>3, PlaceFacts
  <2> QED  BY <1>2, <2>1, <2>2, <2>3 DEF RxOK, receive
<1>6. \A k \in 0 .. RING - 2 : rxd'[At(NextDesc(rx_i), k)] = rxd[At(rx_i, k + 1)]
  <2> TAKE k \in 0 .. RING - 2
  <2>1. k + 1 \in 0 .. RING - 1 /\ k + 1 # 0
    BY RingAtLeastTwo
  <2>2. At(NextDesc(rx_i), k) = At(rx_i, k + 1) /\ At(rx_i, k + 1) \in 0 .. RING - 1 /\ At(rx_i, k + 1) # rx_i
    BY <1>3, <2>1, PlaceFacts
  <2> QED  BY <2>2 DEF receive, recycle_rx, NicTypeOK
<1>7. rxd'[At(NextDesc(rx_i), RING - 1)].full = FALSE
  <2>1. At(NextDesc(rx_i), RING - 1) = rx_i
    BY <1>3, PlaceFacts
  <2> QED  BY <1>3, <2>1 DEF receive, recycle_rx, NicTypeOK
<1>8. \A k \in 0 .. RING - 1 : rxd'[At(NextDesc(rx_i), k)].full <=> k < n - 1
  <2> TAKE k \in 0 .. RING - 1
  <2>1. CASE k = RING - 1
    BY <1>4, <1>7, <2>1, RingAtLeastTwo
  <2>2. CASE k # RING - 1
    <3>1. k \in 0 .. RING - 2 /\ k + 1 \in 0 .. RING - 1 /\ (k + 1 < n <=> k < n - 1)
      BY <2>2, RingAtLeastTwo
    <3>2. rxd[At(rx_i, k + 1)].full <=> k + 1 < n
      BY <1>2, <3>1 DEF RxOK
    <3> QED  BY <1>6, <3>1, <3>2
  <2> QED  BY <2>1, <2>2
<1>m. PICK m \in Nat : m = Len(rxq)
  BY DEF NicTypeOK
<1>9. \A i \in 1 .. m : at[i] \in 0 .. n - 1 /\ at[i] \in 0 .. RING - 1
  BY <1>m, RingAtLeastTwo
<1>10. /\ \A i, j \in 1 .. m : i < j => at[i] < at[j]
       /\ \A k \in 0 .. n - 1 : ~rxd[At(rx_i, k)].bad <=> \E i \in 1 .. m : at[i] = k
       /\ \A i \in 1 .. m : rxd[At(rx_i, at[i])].frame = rxq[i]
  BY <1>2, <1>m DEF RxOK
<1>11. ~rxd[rx_i].bad <=> \E i \in 1 .. m : at[i] = 0
  BY <1>3, <1>4, <1>10
<1>12. CASE rxd[rx_i].bad
  <2>1. rxq' = rxq /\ wrong' = wrong /\ Len(rxq') = m
    BY <1>12, <1>m DEF receive
  <2>2. PICK at2 : at2 = [i \in 1 .. m |-> at[i] - 1]
    OBVIOUS
  <2>3. \A i \in 1 .. m : at[i] # 0
    BY <1>11, <1>12
  <2>4. \A i \in 1 .. m : at2[i] = at[i] - 1 /\ at2[i] \in 0 .. (n - 1) - 1 /\ at2[i] \in 0 .. RING - 2
    BY <1>4, <1>9, <2>2, <2>3, RingAtLeastTwo
  <2>5. at2 \in [1 .. Len(rxq') -> 0 .. (n - 1) - 1]
    BY <2>1, <2>2, <2>4
  <2>6. \A i, j \in 1 .. m : i < j => at2[i] < at2[j]
    <3> SUFFICES ASSUME NEW i \in 1 .. m, NEW j \in 1 .. m, i < j PROVE at2[i] < at2[j]
      OBVIOUS
    <3>1. at[i] < at[j] /\ at[i] \in Int /\ at[j] \in Int
      BY <1>9, <1>10
    <3> QED  BY <2>4, <3>1
  <2>7. \A k \in 0 .. (n - 1) - 1 : ~rxd'[At(NextDesc(rx_i), k)].bad <=> \E i \in 1 .. m : at2[i] = k
    <3> TAKE k \in 0 .. (n - 1) - 1
    <3>1. k \in 0 .. RING - 2 /\ k + 1 \in 0 .. n - 1
      BY <1>4, RingAtLeastTwo
    <3>2. \A i \in 1 .. m : at2[i] = k <=> at[i] = k + 1
      BY <1>9, <2>4
    <3>3. rxd'[At(NextDesc(rx_i), k)] = rxd[At(rx_i, k + 1)]
      BY <1>6, <3>1
    <3> QED  BY <1>10, <3>1, <3>2, <3>3
  <2>8. \A i \in 1 .. m : rxd'[At(NextDesc(rx_i), at2[i])].frame = rxq'[i]
    <3> TAKE i \in 1 .. m
    <3>1. at2[i] \in 0 .. RING - 2 /\ at2[i] + 1 = at[i]
      BY <1>9, <2>4
    <3> QED  BY <1>6, <1>10, <2>1, <3>1
  <2>9. RxOK(n - 1, at2)'
    BY <1>5, <1>8, <2>1, <2>6, <2>7, <2>8 DEF RxOK
  <2> QED  BY <1>4, <2>1, <2>5, <2>9 DEF RxInv
<1>13. CASE ~rxd[rx_i].bad
  <2>1. m >= 1 /\ at[1] = 0
    <3>1. PICK i \in 1 .. m : at[i] = 0
      BY <1>11, <1>13
    <3>2. 1 \in 1 .. m /\ (i = 1 \/ 1 < i)
      OBVIOUS
    <3> QED  BY <1>9, <1>10, <3>1, <3>2
  <2>2. rxq \in Seq(EthFrames) /\ rxq # <<>> /\ Head(rxq) = rxq[1]
    BY <1>m, <2>1 DEF NicTypeOK
  <2>3. rxd[rx_i].frame = rxq[1]
    BY <1>3, <1>10, <2>1
  <2>4. wrong' = FALSE /\ rxq' = Tail(rxq)
    BY <1>13, <2>2, <2>3 DEF receive
  <2>5. Len(rxq') = m - 1 /\ \A i \in 1 .. m - 1 : rxq'[i] = rxq[i + 1]
    BY <1>m, <2>2, <2>4
  <2>6. PICK at2 : at2 = [i \in 1 .. m - 1 |-> at[i + 1] - 1]
    OBVIOUS
  <2>7. \A i \in 1 .. m - 1 : i + 1 \in 1 .. m /\ at[i + 1] # 0
    <3> TAKE i \in 1 .. m - 1
    <3>1. i + 1 \in 1 .. m /\ 1 < i + 1 /\ 1 \in 1 .. m
      BY <2>1
    <3>2. at[1] < at[i + 1]
      BY <1>10, <3>1
    <3> QED  BY <1>9, <2>1, <3>1, <3>2
  <2>8. \A i \in 1 .. m - 1 : at2[i] = at[i + 1] - 1 /\ at2[i] \in 0 .. (n - 1) - 1 /\ at2[i] \in 0 .. RING - 2
    <3> TAKE i \in 1 .. m - 1
    <3>1. at2[i] = at[i + 1] - 1 /\ at[i + 1] \in 0 .. n - 1 /\ at[i + 1] # 0
      BY <1>9, <2>6, <2>7
    <3> QED  BY <1>4, <3>1, RingAtLeastTwo
  <2>9. at2 \in [1 .. Len(rxq') -> 0 .. (n - 1) - 1]
    BY <2>5, <2>6, <2>8
  <2>10. \A i, j \in 1 .. m - 1 : i < j => at2[i] < at2[j]
    <3> SUFFICES ASSUME NEW i \in 1 .. m - 1, NEW j \in 1 .. m - 1, i < j PROVE at2[i] < at2[j]
      OBVIOUS
    <3>1. i + 1 \in 1 .. m /\ j + 1 \in 1 .. m /\ i + 1 < j + 1
      OBVIOUS
    <3>2. at[i + 1] < at[j + 1] /\ at[i + 1] \in Int /\ at[j + 1] \in Int
      BY <1>9, <1>10, <3>1
    <3> QED  BY <2>8, <3>2
  <2>11. \A k \in 0 .. (n - 1) - 1 : ~rxd'[At(NextDesc(rx_i), k)].bad <=> \E i \in 1 .. m - 1 : at2[i] = k
    <3> TAKE k \in 0 .. (n - 1) - 1
    <3>1. k \in 0 .. RING - 2 /\ k + 1 \in 0 .. n - 1
      BY <1>4, RingAtLeastTwo
    <3>2. (\E i \in 1 .. m - 1 : at2[i] = k) <=> \E i \in 1 .. m : at[i] = k + 1
      <4>1. ASSUME NEW i \in 1 .. m - 1, at2[i] = k PROVE i + 1 \in 1 .. m /\ at[i + 1] = k + 1
        <5>1. i + 1 \in 1 .. m
          BY <2>7
        <5>2. at[i + 1] \in Int
          BY <1>9, <5>1
        <5>3. k = at[i + 1] - 1
          BY <2>8, <4>1
        <5> QED  BY <5>1, <5>2, <5>3
      <4>2. ASSUME NEW i \in 1 .. m, at[i] = k + 1 PROVE \E j \in 1 .. m - 1 : at2[j] = k
        <5>1. i # 1
          BY <2>1, <4>2
        <5>2. i - 1 \in 1 .. m - 1 /\ (i - 1) + 1 = i
          BY <5>1
        <5>3. at2[i - 1] = k
          BY <2>8, <4>2, <5>2
        <5> QED  BY <5>2, <5>3
      <4> QED  BY <4>1, <4>2
    <3>3. rxd'[At(NextDesc(rx_i), k)] = rxd[At(rx_i, k + 1)]
      BY <1>6, <3>1
    <3> QED  BY <1>10, <3>1, <3>2, <3>3
  <2>12. \A i \in 1 .. m - 1 : rxd'[At(NextDesc(rx_i), at2[i])].frame = rxq'[i]
    <3> TAKE i \in 1 .. m - 1
    <3>1. at2[i] \in 0 .. RING - 2 /\ at2[i] + 1 = at[i + 1] /\ i + 1 \in 1 .. m
      BY <1>9, <2>7, <2>8
    <3>2. rxd[At(rx_i, at[i + 1])].frame = rxq[i + 1]
      BY <1>10, <3>1
    <3> QED  BY <1>6, <2>5, <3>1, <3>2
  <2>13. RxOK(n - 1, at2)'
    BY <1>5, <1>8, <2>5, <2>10, <2>11, <2>12 DEF RxOK
  <2> QED  BY <1>4, <2>4, <2>9, <2>13 DEF RxInv
<1> QED  BY <1>12, <1>13

\* What the other side of the card does leaves reception alone.
LEMMA RxSame ==
    ASSUME RxInv, UNCHANGED <<rxd, rx_i, rxq>>, regs'.RDH = regs.RDH, regs'.RDT = regs.RDT
    PROVE  RxInv'
<1>1. PICK n \in 0 .. RING - 1 : \E at \in [1 .. Len(rxq) -> 0 .. n - 1] : RxOK(n, at)
  BY DEF RxInv
<1>2. PICK at \in [1 .. Len(rxq) -> 0 .. n - 1] : RxOK(n, at)
  BY <1>1
<1>3. rxd' = rxd /\ rx_i' = rx_i /\ rxq' = rxq
  OBVIOUS
<1>4. RxOK(n, at)'
  BY <1>2, <1>3 DEF RxOK
<1>5. at \in [1 .. Len(rxq') -> 0 .. n - 1]
  BY <1>3
<1> QED  BY <1>4, <1>5 DEF RxInv

\* What happens on the receiving side leaves the transmitter as it was.
LEMMA TxSame ==
    ASSUME TxInv, UNCHANGED <<txd, tx_i, txq, spin>>, regs'.TDH = regs.TDH, regs'.TDT = regs.TDT
    PROVE  TxInv'
BY DEF TxInv

\* The frames the driver has not seen are as many as the good descriptors in the ring.
LEMMA RxCount ==
    ASSUME NicTypeOK, RxInv
    PROVE  Len(rxq) \in 0 .. RING /\ Len(rxq) = Cardinality({i \in DOMAIN rxd : rxd[i].full /\ ~rxd[i].bad})
<1>1. PICK n \in 0 .. RING - 1 : \E at \in [1 .. Len(rxq) -> 0 .. n - 1] : RxOK(n, at)
  BY DEF RxInv
<1>2. PICK at \in [1 .. Len(rxq) -> 0 .. n - 1] : RxOK(n, at)
  BY <1>1
<1>m. PICK m \in Nat : m = Len(rxq)
  BY DEF NicTypeOK
<1> DEFINE D == {i \in DOMAIN rxd : rxd[i].full /\ ~rxd[i].bad}
           b == [i \in 1 .. m |-> At(rx_i, at[i])]
<1>3. rx_i \in 0 .. RING - 1 /\ DOMAIN rxd = 0 .. RING - 1
  BY DEF NicTypeOK
<1>4. \A i \in 1 .. m : at[i] \in 0 .. n - 1 /\ at[i] \in 0 .. RING - 1 /\ at[i] < n
  BY <1>m, RingAtLeastTwo
<1>5. \A i \in 1 .. m : At(rx_i, at[i]) \in D
  <2> TAKE i \in 1 .. m
  <2>1. At(rx_i, at[i]) \in 0 .. RING - 1
    BY <1>3, <1>4, PlaceFacts
  <2>2. rxd[At(rx_i, at[i])].full /\ ~rxd[At(rx_i, at[i])].bad
    BY <1>2, <1>4, <1>m DEF RxOK
  <2> QED  BY <1>3, <2>1, <2>2
<1>6. \A i, j \in 1 .. m : b[i] = b[j] => i = j
  <2> SUFFICES ASSUME NEW i \in 1 .. m, NEW j \in 1 .. m, At(rx_i, at[i]) = At(rx_i, at[j]) PROVE i = j
    OBVIOUS
  <2>0. \A k, l \in 0 .. RING - 1 : At(rx_i, k) = At(rx_i, l) => k = l
    BY <1>3, PlaceFacts
  <2>1. at[i] = at[j]
    BY <1>4, <2>0
  <2>2. ~(i < j) /\ ~(j < i)
    BY <1>2, <1>4, <1>m, <2>1 DEF RxOK
  <2> QED  BY <2>2
<1>7. \A d \in D : \E i \in 1 .. m : b[i] = d
  <2> TAKE d \in D
  <2>1. PICK k \in 0 .. RING - 1 : At(rx_i, k) = d
    BY <1>3, PlaceFacts
  <2>2. k \in 0 .. n - 1
    BY <1>2, <2>1 DEF RxOK
  <2>3. PICK i \in 1 .. m : at[i] = k
    BY <1>2, <1>m, <2>1, <2>2 DEF RxOK
  <2> QED  BY <2>1, <2>3
<1>8. b \in Bijection(1 .. m, D)
  <2>1. b \in [1 .. m -> D]
    BY <1>5
  <2> HIDE DEF b, D
  <2>2. b \in Injection(1 .. m, D)
    BY <1>6, <2>1 DEF Injection, IsInjective
  <2>3. b \in Surjection(1 .. m, D)
    BY <1>7, <2>1 DEF Surjection
  <2> QED  BY <2>2, <2>3 DEF Bijection
<1>9. IsFiniteSet(1 .. m) /\ Cardinality(1 .. m) = m
  BY FS_Interval
<1> HIDE DEF b, D
<1>10. Cardinality(D) = m
  BY <1>8, <1>9, FS_Bijection DEF ExistsBijection
<1>11. D \subseteq 0 .. RING - 1
  BY <1>3 DEF D
<1>12. m <= RING
  <2>1. IsFiniteSet(0 .. RING - 1) /\ Cardinality(0 .. RING - 1) = RING
    BY FS_Interval, RingAtLeastTwo
  <2>2. D \in SUBSET (0 .. RING - 1)
    BY <1>11
  <2>3. Cardinality(D) <= Cardinality(0 .. RING - 1)
    BY <2>1, <2>2, FS_Subset
  <2> QED  BY <1>10, <2>1, <2>3
<1> QED  BY <1>10, <1>12, <1>m, RingAtLeastTwo DEF D

\* Every step of driver and card keeps the descriptors and registers in range.
LEMMA NicTypes == NicTypeOK /\ nic \in {"none", "up"} /\ [NicNext]_nicVars => NicTypeOK'
<1> SUFFICES ASSUME NicTypeOK, nic \in {"none", "up"}, [NicNext]_nicVars PROVE NicTypeOK'
  OBVIOUS
<1> USE NextPlace, RingAtLeastTwo DEF NicTypeOK
<1>1. ASSUME NEW answers \in BOOLEAN, NEW free \in 0 .. MAX_PAGES, probe(answers, free) PROVE NicTypeOK'
  <2>1. CASE UNCHANGED <<nic, rxd, txd, regs, rx_i, tx_i>>
    BY <1>1, <2>1 DEF probe
  <2>2. CASE program_rings
    <3>1. rxd' \in [0 .. RING - 1 -> [full : BOOLEAN, bad : BOOLEAN, frame : EthFrames \cup {Empty}]]
      BY <2>2 DEF program_rings, RingOf
    <3>2. txd' \in [0 .. RING - 1 -> [done : BOOLEAN, frame : EthFrames \cup {Empty}]]
      BY <2>2 DEF program_rings, RingOf
    <3>3. regs' \in [RDH : 0 .. RING - 1, RDT : 0 .. RING - 1, TDH : 0 .. RING - 1, TDT : 0 .. RING - 1]
      BY <2>2 DEF program_rings
    <3>4. rx_i' \in 0 .. RING - 1 /\ tx_i' \in 0 .. RING - 1
      BY <2>2 DEF program_rings
    <3> QED  BY <1>1, <3>1, <3>2, <3>3, <3>4 DEF probe
  <2> QED  BY <1>1, <2>1, <2>2 DEF probe
<1>2. ASSUME NEW f \in EthFrames, NEW bad \in BOOLEAN, CardReceives(f, bad) PROVE NicTypeOK'
  <2>1. rxd' \in [0 .. RING - 1 -> [full : BOOLEAN, bad : BOOLEAN, frame : EthFrames \cup {Empty}]]
    BY <1>2 DEF CardReceives
  <2>2. regs' \in [RDH : 0 .. RING - 1, RDT : 0 .. RING - 1, TDH : 0 .. RING - 1, TDT : 0 .. RING - 1]
    BY <1>2 DEF CardReceives
  <2>3. rxq' \in Seq(EthFrames)
    BY <1>2 DEF CardReceives
  <2> QED  BY <1>2, <2>1, <2>2, <2>3 DEF CardReceives
<1>3. ASSUME NEW f \in EthFrames, send_frame(f) PROVE NicTypeOK'
  <2>1. txd' \in [0 .. RING - 1 -> [done : BOOLEAN, frame : EthFrames \cup {Empty}]]
    BY <1>3 DEF send_frame
  <2>2. regs' \in [RDH : 0 .. RING - 1, RDT : 0 .. RING - 1, TDH : 0 .. RING - 1, TDT : 0 .. RING - 1]
    BY <1>3 DEF send_frame
  <2>3. txq' \in Seq(EthFrames)
    BY <1>3 DEF send_frame
  <2> QED  BY <1>3, <2>1, <2>2, <2>3 DEF send_frame
<1>4. CASE CardSends
  <2>1. txd' \in [0 .. RING - 1 -> [done : BOOLEAN, frame : EthFrames \cup {Empty}]]
    BY <1>4 DEF CardSends
  <2>2. regs' \in [RDH : 0 .. RING - 1, RDT : 0 .. RING - 1, TDH : 0 .. RING - 1, TDT : 0 .. RING - 1]
    BY <1>4 DEF CardSends
  <2>3. txq' \in Seq(EthFrames) /\ wrong' \in BOOLEAN
    BY <1>4 DEF CardSends
  <2> QED  BY <1>4, <2>1, <2>2, <2>3 DEF CardSends
<1>5. CASE receive
  <2>1. rxd' \in [0 .. RING - 1 -> [full : BOOLEAN, bad : BOOLEAN, frame : EthFrames \cup {Empty}]]
    BY <1>5 DEF receive, recycle_rx
  <2>2. regs' \in [RDH : 0 .. RING - 1, RDT : 0 .. RING - 1, TDH : 0 .. RING - 1, TDT : 0 .. RING - 1]
    BY <1>5 DEF receive, recycle_rx
  <2>3. rxq' \in Seq(EthFrames) /\ wrong' \in BOOLEAN
    <3>1. CASE rxd[rx_i].bad
      BY <1>5, <3>1 DEF receive
    <3>2. CASE ~rxd[rx_i].bad
      <4>1. rxq' \in Seq(EthFrames)
        <5>1. rxq' = (IF rxq = <<>> THEN rxq ELSE Tail(rxq))
          BY <1>5, <3>2 DEF receive
        <5>2. rxq \in Seq(EthFrames)
          OBVIOUS
        <5> HIDE DEF NicTypeOK
        <5> QED  BY <5>1, <5>2
      <4>2. wrong' \in BOOLEAN
        <5>1. wrong' = (wrong \/ rxq = <<>> \/ rxd[rx_i].frame # Head(rxq))
          BY <1>5, <3>2 DEF receive
        <5> QED  BY <5>1
      <4> QED  BY <4>1, <4>2
    <3> QED  BY <3>1, <3>2
  <2> QED  BY <1>5, <2>1, <2>2, <2>3 DEF receive
<1>6. CASE FrameSent
  BY <1>6 DEF FrameSent
<1>7. CASE SpinTimeout
  BY <1>7 DEF SpinTimeout
<1>8. CASE UNCHANGED nicVars
  BY <1>8 DEF nicVars
<1> QED  BY <1>1, <1>2, <1>3, <1>4, <1>5, <1>6, <1>7, <1>8 DEF NicNext

\* probe gives out empty rings, of which the card owns all receive places but one.
LEMMA ProbeStep ==
    ASSUME NicInv, NicTypeOK', NEW answers \in BOOLEAN, NEW free \in 0 .. MAX_PAGES, probe(answers, free)
    PROVE  NicInv'
<1>1. nic = "none" /\ NicDown /\ wrong' = wrong /\ UNCHANGED <<spin, rxq, txq>> /\ ~wrong
  BY DEF probe, NicInv
<1>2. nicPages' = 0 \/ nicPages' > 0
  BY RingAtLeastTwo DEF probe, alloc_rings
<1>3. CASE nicPages' = 0
  <2>1. UNCHANGED <<nic, rxd, txd, regs, rx_i, tx_i>>
    BY <1>3 DEF probe
  <2> QED  BY <1>1, <1>3, <2>1 DEF NicInv, NicDown
<1>4. CASE nicPages' > 0
  <2>1. nic' = "up" /\ program_rings
    BY <1>4 DEF probe
  <2>2. RxInv'
    <3>1. rxq' = <<>> /\ regs'.RDH = rx_i' /\ rx_i' \in 0 .. RING - 1
      BY <1>1, <2>1, RingAtLeastTwo DEF program_rings, NicDown
    <3>2. regs'.RDT = At(rx_i', RING - 1)
      BY <2>1, RingAtLeastTwo DEF program_rings, At
    <3>3. \A i \in 0 .. RING - 1 : ~rxd'[i].full
      BY <2>1 DEF program_rings, RingOf
    <3> QED  BY <3>1, <3>2, <3>3, RxEmpty
  <2>3. TxInv'
    BY <1>1, <2>1, RingAtLeastTwo DEF program_rings, RingOf, TxInv, NicDown
  <2> QED  BY <1>1, <2>1, <2>2, <2>3 DEF NicInv
<1> QED  BY <1>2, <1>3, <1>4

\* A frame handed over is the only one under way, at the driver's place.
LEMMA SendStep ==
    ASSUME NicTypeOK, TxInv, NEW f \in EthFrames, send_frame(f)
    PROVE  TxInv'
<1>1. tx_i \in 0 .. RING - 1 /\ NextDesc(tx_i) # tx_i
  BY NextPlace DEF NicTypeOK
<1>2. /\ tx_i' = tx_i /\ txd[tx_i].done /\ regs'.TDH = regs.TDH /\ regs'.TDT = NextDesc(tx_i)
      /\ txd'[tx_i].done = FALSE /\ txd'[tx_i].frame = f
      /\ \A i \in 0 .. RING - 1 : i # tx_i => txd'[i] = txd[i]
  BY <1>1 DEF send_frame, NicTypeOK
<1>3. txq = <<>> /\ txq' = <<f>> /\ Len(txq') = 1
  <2>1. txq = <<>>
    BY <1>2 DEF TxInv
  <2>2. txq' = Append(txq, f)
    BY DEF send_frame
  <2> QED  BY <2>1, <2>2
<1> QED  BY <1>1, <1>2, <1>3 DEF TxInv

\* The card sends the frame that was handed over.
LEMMA CardSendsStep ==
    ASSUME NicTypeOK, TxInv, ~wrong, CardSends
    PROVE  TxInv' /\ ~wrong'
<1>1. tx_i \in 0 .. RING - 1 /\ NextDesc(tx_i) # tx_i
  BY NextPlace DEF NicTypeOK
<1>2. regs.TDH = tx_i /\ regs.TDT = NextDesc(tx_i) /\ txq = <<txd[tx_i].frame>>
  BY DEF TxInv, CardSends
<1>3. txq # <<>> /\ Head(txq) = txd[tx_i].frame /\ Tail(txq) = <<>>
  BY <1>2
<1>4. /\ tx_i' = tx_i /\ txq' = <<>> /\ wrong' = FALSE
      /\ regs'.TDH = NextDesc(tx_i) /\ regs'.TDT = NextDesc(tx_i)
  BY <1>2, <1>3 DEF CardSends, NicTypeOK
<1>5. txd'[tx_i].done = TRUE /\ \A i \in 0 .. RING - 1 : i # tx_i => txd'[i] = txd[i]
  BY <1>1, <1>2 DEF CardSends, NicTypeOK
<1> QED  BY <1>4, <1>5 DEF TxInv

\* The driver goes on to the next place once the card is done with its own.
LEMMA FrameSentStep ==
    ASSUME NicTypeOK, TxInv, FrameSent
    PROVE  TxInv'
<1>1. tx_i \in 0 .. RING - 1 /\ NextDesc(tx_i) \in 0 .. RING - 1 /\ NextDesc(tx_i) # tx_i
  BY NextPlace DEF NicTypeOK
<1>2. regs.TDH = NextDesc(tx_i) /\ regs.TDT = NextDesc(tx_i) /\ txq = <<>> /\ txd[tx_i].done
  BY DEF TxInv, FrameSent
<1>3. \A i \in 0 .. RING - 1 : txd[i].done
  BY <1>2 DEF TxInv
<1> QED  BY <1>1, <1>2, <1>3 DEF TxInv, FrameSent

\* The rings of the network card, for every length: every good frame it took is handed
\* to the stack in order and once, what it sends is what was handed over, and a driver
\* that did not come up holds no pages.
THEOREM NicFramesInOrder == NicSpec => []FramesInOrder
<1>1. NicInit => NicInv
  <2> SUFFICES ASSUME NicInit PROVE NicInv
    OBVIOUS
  <2>1. rxd \in [0 .. RING - 1 -> [full : BOOLEAN, bad : BOOLEAN, frame : EthFrames \cup {Empty}]]
    BY DEF NicInit, RingOf
  <2>2. txd \in [0 .. RING - 1 -> [done : BOOLEAN, frame : EthFrames \cup {Empty}]]
    BY DEF NicInit, RingOf
  <2>3. regs \in [RDH : 0 .. RING - 1, RDT : 0 .. RING - 1, TDH : 0 .. RING - 1, TDT : 0 .. RING - 1]
    BY RingAtLeastTwo DEF NicInit
  <2>4. NicTypeOK
    <3>1. rx_i \in 0 .. RING - 1 /\ tx_i \in 0 .. RING - 1
      BY RingAtLeastTwo DEF NicInit
    <3>2. rxq \in Seq(EthFrames) /\ txq \in Seq(EthFrames)
      BY DEF NicInit
    <3> QED  BY <2>1, <2>2, <2>3, <3>1, <3>2 DEF NicInit, NicTypeOK
  <2>5. NicDown
    BY DEF NicInit, NicDown, RingOf
  <2> QED  BY <2>4, <2>5 DEF NicInit, NicInv
<1>2. NicInv /\ [NicNext]_nicVars => NicInv'
  <2> SUFFICES ASSUME NicInv, [NicNext]_nicVars PROVE NicInv'
    OBVIOUS
  <2>0. NicTypeOK' /\ NicTypeOK /\ ~wrong /\ nic \in {"none", "up"}
    BY NicTypes DEF NicInv
  <2>i. (nic = "none" => NicDown) /\ (nic = "up" => RxInv /\ TxInv)
    BY DEF NicInv
  <2>1. ASSUME NEW answers \in BOOLEAN, NEW free \in 0 .. MAX_PAGES, probe(answers, free) PROVE NicInv'
    BY <2>0, <2>1, ProbeStep
  <2>2. ASSUME NEW f \in EthFrames, NEW bad \in BOOLEAN, CardReceives(f, bad) PROVE NicInv'
    <3>1. nic = "up" /\ nic' = "up" /\ ~wrong' /\ RxInv' /\ regs'.TDH = regs.TDH /\ regs'.TDT = regs.TDT
      BY <2>0, <2>i, <2>2, RxTakes DEF CardReceives, NicTypeOK
    <3>2. TxInv'
      BY <2>i, <2>2, <3>1, TxSame DEF CardReceives
    <3> QED  BY <2>0, <3>1, <3>2 DEF NicInv
  <2>3. ASSUME NEW f \in EthFrames, send_frame(f) PROVE NicInv'
    <3>1. nic = "up" /\ nic' = "up" /\ ~wrong' /\ TxInv' /\ regs'.RDH = regs.RDH /\ regs'.RDT = regs.RDT
      BY <2>0, <2>i, <2>3, SendStep DEF send_frame, NicTypeOK
    <3>2. RxInv'
      BY <2>i, <2>3, <3>1, RxSame DEF send_frame
    <3> QED  BY <2>0, <3>1, <3>2 DEF NicInv
  <2>4. CASE CardSends
    <3>1. nic = "up" /\ nic' = "up" /\ ~wrong' /\ TxInv' /\ regs'.RDH = regs.RDH /\ regs'.RDT = regs.RDT
      BY <2>0, <2>i, <2>4, CardSendsStep DEF CardSends, NicTypeOK
    <3>2. RxInv'
      BY <2>i, <2>4, <3>1, RxSame DEF CardSends
    <3> QED  BY <2>0, <3>1, <3>2 DEF NicInv
  <2>5. CASE receive
    <3>1. nic = "up" /\ nic' = "up" /\ regs'.TDH = regs.TDH /\ regs'.TDT = regs.TDT
      BY <2>0, <2>5 DEF receive, recycle_rx, NicTypeOK
    <3>2. RxInv' /\ ~wrong'
      BY <2>0, <2>i, <2>5, <3>1, RxGives
    <3>3. TxInv'
      BY <2>i, <2>5, <3>1, TxSame DEF receive
    <3> QED  BY <2>0, <3>1, <3>2, <3>3 DEF NicInv
  <2>6. CASE FrameSent
    <3>1. nic = "up" /\ nic' = "up" /\ ~wrong'
      BY <2>0, <2>i, <2>6 DEF FrameSent, NicDown
    <3>2. RxInv'
      BY <2>i, <2>6, <3>1, RxSame DEF FrameSent
    <3>3. TxInv'
      BY <2>0, <2>i, <2>6, <3>1, FrameSentStep
    <3> QED  BY <2>0, <3>1, <3>2, <3>3 DEF NicInv
  <2>7. CASE SpinTimeout
    <3>1. nic = "up" /\ nic' = "up" /\ ~wrong'
      BY <2>0, <2>i, <2>7 DEF SpinTimeout, NicDown
    <3>2. RxInv'
      BY <2>i, <2>7, <3>1, RxSame DEF SpinTimeout
    <3>3. TxInv'
      BY <2>i, <2>7, <3>1 DEF SpinTimeout, TxInv
    <3> QED  BY <2>0, <3>1, <3>2, <3>3 DEF NicInv
  <2>8. CASE UNCHANGED nicVars
    <3>1. UNCHANGED <<rxd, rx_i, rxq, regs, txd, tx_i, txq, spin, nic, nicPages, wrong>>
      BY <2>8 DEF nicVars
    <3>2. NicDown => NicDown'
      BY <3>1 DEF NicDown
    <3>3. RxInv => RxInv'
      BY <3>1, RxSame
    <3>4. TxInv => TxInv'
      BY <3>1, TxSame
    <3> QED  BY <2>0, <2>i, <3>1, <3>2, <3>3, <3>4 DEF NicInv
  <2> QED  BY <2>1, <2>2, <2>3, <2>4, <2>5, <2>6, <2>7, <2>8 DEF NicNext
<1>3. NicInv => FramesInOrder
  <2> SUFFICES ASSUME NicInv PROVE FramesInOrder
    OBVIOUS
  <2>1. Len(rxq) \in 0 .. RING /\ Len(rxq) = Cardinality({i \in DOMAIN rxd : rxd[i].full /\ ~rxd[i].bad})
    <3>1. CASE nic = "up"
      BY <3>1, RxCount DEF NicInv
    <3>2. CASE nic = "none"
      <4>1. Len(rxq) = 0
        BY <3>2 DEF NicInv, NicDown
      <4>2. {i \in DOMAIN rxd : rxd[i].full /\ ~rxd[i].bad} = {}
        BY <3>2 DEF NicInv, NicDown, NicTypeOK
      <4>3. Cardinality({i \in DOMAIN rxd : rxd[i].full /\ ~rxd[i].bad}) = 0
        BY <4>2, FS_EmptySet
      <4> QED  BY <4>1, <4>3, RingAtLeastTwo
    <3> QED  BY <3>1, <3>2 DEF NicInv
  <2>2. nic = "none" => nicPages = 0
    BY DEF NicInv, NicDown
  <2>3. ~wrong
    BY DEF NicInv
  <2> QED  BY <2>1, <2>2, <2>3 DEF FramesInOrder
<1> QED  BY <1>1, <1>2, <1>3, PTL DEF NicSpec


-----------------------------------------------------------------------------
(* UsbXfer: the stash of events.                                           *)

\* Induction, for a set of natural numbers.
LEMMA AllNumbers ==
    ASSUME NEW S, 0 \in S, \A n \in Nat : n \in S => n + 1 \in S
    PROVE  \A n \in Nat : n \in S
<1> DEFINE R == OpToRel(<, Nat)  T == Nat \ S
<1>1. \A x, y \in Nat : x < y => <<x, y>> \in R
  BY DEF OpToRel
<1>2. IsWellFoundedOn(R, Nat)
  BY NatLessThanWellFounded
<1> SUFFICES ASSUME T # {} PROVE FALSE
  OBVIOUS
<1> HIDE DEF R
<1>3. PICK x \in T : \A y \in T : ~(<<y, x>> \in R)
  BY <1>2, WFMin
<1>4. x \in Nat /\ x # 0 /\ x - 1 \in Nat /\ x - 1 < x /\ (x - 1) + 1 = x
  OBVIOUS
<1>5. <<x - 1, x>> \in R
  BY <1>1, <1>4
<1>6. x - 1 \in S
  BY <1>3, <1>4, <1>5
<1> QED  BY <1>4, <1>6


IsPump(f, n) == f = [k \in 0 .. n |-> IF k = 0 THEN stash ELSE stash_xfer(f[k - 1], hcEv[k])]

\* The recursion of pump has a solution for any number of events.
LEMMA PumpExists == \A n \in Nat : \E f : IsPump(f, n)
<1> DEFINE S == {n \in Nat : \E f : IsPump(f, n)}
<1>1. 0 \in S
  <2>1. IsPump([k \in 0 .. 0 |-> stash], 0)
    BY DEF IsPump
  <2> QED  BY <2>1
<1>2. ASSUME NEW n \in Nat, n \in S PROVE n + 1 \in S
  <2>1. PICK f : IsPump(f, n)
    BY <1>2
  <2> DEFINE g == [k \in 0 .. n + 1 |-> IF k = n + 1 THEN stash_xfer(f[n], hcEv[n + 1]) ELSE f[k]]
  <2>2. \A k \in 0 .. n : g[k] = f[k] /\ f[k] = IF k = 0 THEN stash ELSE stash_xfer(f[k - 1], hcEv[k])
    BY <2>1 DEF IsPump
  <2>3. \A k \in 0 .. n + 1 : g[k] = IF k = 0 THEN stash ELSE stash_xfer(g[k - 1], hcEv[k])
    <3> TAKE k \in 0 .. n + 1
    <3>1. CASE k = 0
      <4>1. k \in 0 .. n
        BY <3>1
      <4> HIDE DEF g
      <4> QED  BY <2>2, <3>1, <4>1
    <3>2. CASE k \in 1 .. n
      <4>1. k - 1 \in 0 .. n /\ k \in 0 .. n /\ k # 0
        BY <3>2
      <4> HIDE DEF g
      <4> QED  BY <2>2, <4>1
    <3>3. CASE k = n + 1
      <4>1. k - 1 = n /\ n \in 0 .. n /\ k # 0
        BY <3>3
      <4>2. g[k] = stash_xfer(f[n], hcEv[k])
        BY <3>3
      <4> HIDE DEF g
      <4> QED  BY <2>2, <4>1, <4>2
    <3> QED  BY <3>1, <3>2, <3>3
  <2>4. g = [k \in 0 .. n + 1 |-> g[k]]
    OBVIOUS
  <2> HIDE DEF g
  <2>5. IsPump(g, n + 1)
    BY <2>3, <2>4 DEF IsPump
  <2> QED  BY <2>5
<1> HIDE DEF S
<1>3. \A n \in Nat : n \in S
  BY <1>1, <1>2, AllNumbers
<1> QED  BY <1>3 DEF S

XferEvents == [ep : Eps, code : {"ok", "stall"}]

\* pump is the last of a chain of stashes.
LEMMA PumpChain ==
    ASSUME hcEv \in Seq(XferEvents)
    PROVE  \E f : /\ pump = f[Len(hcEv)] /\ f[0] = stash
                  /\ \A n \in 1 .. Len(hcEv) : f[n] = stash_xfer(f[n - 1], hcEv[n])
<1>1. PICK f : f = CHOOSE g : IsPump(g, Len(hcEv))
  OBVIOUS
<1>2. IsPump(f, Len(hcEv))
  BY <1>1, PumpExists
<1>3. pump = f[Len(hcEv)]
  BY <1>1 DEF pump, IsPump
<1>4. 0 \in 0 .. Len(hcEv) /\ \A n \in 1 .. Len(hcEv) : n \in 0 .. Len(hcEv) /\ n # 0
  OBVIOUS
<1>5. f[0] = stash /\ \A n \in 1 .. Len(hcEv) : f[n] = stash_xfer(f[n - 1], hcEv[n])
  BY <1>2, <1>4 DEF IsPump
<1> QED  BY <1>3, <1>5


\* The events of an endpoint that are posted.
Posted(e) == {i \in DOMAIN hcEv : hcEv[i].ep = e}

XferTypes ==
    /\ trbs \in [Eps -> Nat]
    /\ hcEv \in Seq(XferEvents)
    /\ DOMAIN stash \subseteq Eps
    /\ armed \in [IntEps -> BOOLEAN]

\* There are as many endpoints as the stash has entries, at most.
LEMMA EpsFit ==
    ASSUME NEW D, D \subseteq Eps, NEW e \in Eps \ D
    PROVE  IsFiniteSet(D) /\ Cardinality(D) < XFER_Q
<1>1. IsFiniteSet({"out", "in"}) /\ Cardinality({"out", "in"}) = 2
  <2>1. IsFiniteSet({"in"}) /\ Cardinality({"in"}) = 1
    BY FS_Singleton
  <2>2. {"out", "in"} = {"in"} \cup {"out"} /\ "out" \notin {"in"}
    OBVIOUS
  <2> QED  BY <2>1, <2>2, FS_AddElement
<1>2. IsFiniteSet(Eps) /\ Cardinality(Eps) = Cardinality({"out", "in"}) + Cardinality(IntEps) - Cardinality({"out", "in"} \cap IntEps)
  BY <1>1, XferAssumption, FS_Union DEF Eps
<1>3. {"out", "in"} \cap IntEps = {} /\ Cardinality({}) = 0
  BY XferAssumption, FS_EmptySet
<1>4. Cardinality(Eps) <= XFER_Q
  <2>1. Cardinality(IntEps) \in Nat
    BY XferAssumption, FS_CardinalityType
  <2>2. Cardinality(Eps) = 2 + Cardinality(IntEps) - 0
    BY <1>1, <1>2, <1>3, Zenon
  <2>3. Cardinality(IntEps) + 2 <= XFER_Q /\ XFER_Q \in Nat
    BY XferAssumption, Zenon
  <2> QED  BY ONLY <2>1, <2>2, <2>3
<1>5. IsFiniteSet(D) /\ Cardinality(D) <= Cardinality(Eps) /\ (Cardinality(D) = Cardinality(Eps) => D = Eps)
  BY <1>2, FS_Subset
<1>6. D # Eps
  OBVIOUS
<1>7. Cardinality(D) \in Nat /\ Cardinality(Eps) \in Nat
  BY <1>2, <1>5, FS_CardinalityType
<1> QED  BY <1>4, <1>5, <1>6, <1>7, XferAssumption

\* Nothing is dropped: pump keeps an event of every endpoint that had one posted, and
\* the code of the only one (pump, stash_xfer).
LEMMA PumpFacts ==
    ASSUME XferTypes
    PROVE  /\ DOMAIN pump = DOMAIN stash \cup {e \in Eps : Posted(e) # {}}
           /\ \A e, i : Posted(e) = {i} => pump[e] = hcEv[i].code
<1> DEFINE L == Len(hcEv)
<1>0. L \in Nat /\ DOMAIN hcEv = 1 .. L /\ \A n \in 1 .. L : hcEv[n].ep \in Eps
  <2>1. L \in Nat /\ DOMAIN hcEv = 1 .. L /\ \A n \in 1 .. L : hcEv[n] \in XferEvents
    BY DEF XferTypes
  <2> HIDE DEF L
  <2> QED  BY ONLY <2>1 DEF XferEvents
<1>1. PICK f : /\ pump = f[L] /\ f[0] = stash
               /\ \A n \in 1 .. L : f[n] = stash_xfer(f[n - 1], hcEv[n])
  BY PumpChain DEF XferTypes
<1> DEFINE Dom(n) == DOMAIN stash \cup {hcEv[j].ep : j \in 1 .. n}
           Good(n) == /\ DOMAIN f[n] = Dom(n)
                      /\ \A e, i : Posted(e) = {i} /\ i <= n => f[n][e] = hcEv[i].code
           S == {n \in Nat : n <= L => Good(n)}
<1>2. 0 \in S
  <2>1. DOMAIN f[0] = Dom(0)
    <3>1. 1 .. 0 = {}
      OBVIOUS
    <3>2. {hcEv[j].ep : j \in {}} = {}
      OBVIOUS
    <3> QED  BY <1>1, <3>1, <3>2
  <2>2. \A e, i : Posted(e) = {i} => i \in 1 .. L
    BY <1>0 DEF Posted
  <2> QED  BY <2>1, <2>2, <1>0
<1>3. ASSUME NEW n \in Nat, n \in S PROVE n + 1 \in S
  <2> SUFFICES ASSUME n + 1 <= L PROVE Good(n + 1)
    OBVIOUS
  <2> PICK ev : ev = hcEv[n + 1]
    OBVIOUS
  <2>1. n + 1 \in 1 .. L /\ (n + 1) - 1 = n /\ n <= L /\ ev.ep \in Eps
    BY <1>0
  <2>2. Good(n)
    BY <1>3, <2>1
  <2>3. f[n + 1] = stash_xfer(f[n], ev)
    BY <1>1, <2>1
  <2>4. DOMAIN f[n] \subseteq Eps
    BY <2>2, <1>0, <2>1 DEF XferTypes
  <2>5. f[n + 1] = [e \in DOMAIN f[n] \cup {ev.ep} |-> IF e = ev.ep THEN ev.code ELSE f[n][e]]
    BY <2>1, <2>3, <2>4, EpsFit DEF stash_xfer
  <2>6. 1 .. n + 1 = (1 .. n) \cup {n + 1}
    OBVIOUS
  <2>7. Dom(n + 1) = Dom(n) \cup {ev.ep}
    BY <2>6
  <2>8. DOMAIN f[n + 1] = Dom(n + 1)
    BY <2>2, <2>5, <2>7
  <2>9. ASSUME NEW e, NEW i, Posted(e) = {i}, i <= n + 1 PROVE f[n + 1][e] = hcEv[i].code
    <3>1. i \in 1 .. L /\ hcEv[i].ep = e /\ (n + 1 \in Posted(e) <=> ev.ep = e)
      BY <1>0, <2>1, <2>9 DEF Posted
    <3>2. CASE i = n + 1
      BY <2>5, <3>1, <3>2
    <3>3. CASE i # n + 1
      <4>1. i <= n /\ ev.ep # e /\ i \in 1 .. n
        BY <2>9, <3>1, <3>3
      <4>2. f[n][e] = hcEv[i].code /\ e \in DOMAIN f[n]
        BY <2>2, <2>9, <3>1, <4>1
      <4> QED  BY <2>5, <4>1, <4>2
    <3> QED  BY <3>2, <3>3
  <2> QED  BY <2>8, <2>9
<1> HIDE DEF S
<1>4. \A n \in Nat : n \in S
  BY <1>2, <1>3, AllNumbers
<1>5. Good(L)
  BY <1>0, <1>4 DEF S
<1>6. {hcEv[j].ep : j \in 1 .. L} = {e \in Eps : Posted(e) # {}}
  BY <1>0 DEF Posted
<1>7. \A e, i : Posted(e) = {i} => i <= L
  BY <1>0 DEF Posted
<1> QED  BY <1>1, <1>5, <1>6, <1>7


-----------------------------------------------------------------------------
(* UsbXfer: where a transfer is, and what the disk has done.               *)

\* Where the one transfer of an endpoint is: queued, its event posted or its event kept.
Queued(e) == trbs[e] = 1 /\ Posted(e) = {} /\ e \notin DOMAIN stash
Answered(e) == trbs[e] = 0 /\ (\E i \in DOMAIN hcEv : Posted(e) = {i}) /\ e \notin DOMAIN stash
Kept(e) == trbs[e] = 0 /\ Posted(e) = {} /\ e \in DOMAIN stash
Quiet(e) == trbs[e] = 0 /\ Posted(e) = {} /\ e \notin DOMAIN stash

IntInv == \A e \in IntEps : IF armed[e] THEN Queued(e) \/ Answered(e) \/ Kept(e) ELSE Quiet(e)

\* The disk driver's transfer, as long as none was given up on.
BulkInv ==
    IF Locked
    THEN (Queued(Waiting) \/ Answered(Waiting)) /\ \A e \in {"in", "out"} \ {Waiting} : Quiet(e)
    ELSE Quiet("in") /\ Quiet("out")

\* The event that is posted, and the answer to the driver's transfer.
AnsweredAs(e, code) == \E i \in DOMAIN hcEv : Posted(e) = {i} /\ hcEv[i].code = code
AnsweredBy(code) == AnsweredAs(Waiting, code)

ScsiOps == {"read", "write", "flush", "ready", "capacity"}

DrvTypes ==
    /\ mdrv = [mode |-> mdrv.mode, tries |-> mdrv.tries, pc |-> mdrv.pc, op |-> mdrv.op, data |-> mdrv.data]
    /\ mdrv.pc \in {"idle", "cbw", "data", "csw"}
    /\ mdrv.pc # "idle" =>
          /\ mdrv.op.t \in ScsiOps /\ ~mret.ok
          /\ mdrv.op.t \in {"read", "write"} => mdrv.op.lba \in MscLbas
          /\ mdrv.mode = "run" => mdrv.op.t # "ready"
    /\ mdrv.pc = "data" => mdrv.op.t \in {"read", "write", "capacity"}
    /\ mdev = [phase |-> mdev.phase, op |-> mdev.op, good |-> mdev.good] /\ mdev.good \in BOOLEAN
    /\ DOMAIN mdisk = MscLbas

Sector(l) == Packet("data", l, mdisk[l])

\* The disk has done what the driver's command asks.
Obeyed ==
    /\ mdrv.op.t = "read" => mdrv.data = Sector(mdrv.op.lba)
    /\ mdrv.op.t = "write" => mdisk[mdrv.op.lba] = mdrv.op.v

\* Between commands a disk is ready, or it is stuck with a status nobody will ask for.
IdleInv == mdrv.pc = "idle" => mdev.phase \in {"cmd", "status"}

CbwInv == mdrv.pc = "cbw" =>
    /\ xbounce = Packet("cbw", mdrv.op.lba, mdrv.op)
    /\ Queued("out") \/ AnsweredBy("stall") => mdev.phase \in {"cmd", "status"}
    /\ AnsweredBy("ok") =>
          /\ mdev.op = mdrv.op
          /\ mdev.phase = CASE mdrv.op.t \in {"read", "capacity"} /\ mdev.good -> "in"
                            [] mdrv.op.t = "write" -> "out"
                            [] OTHER -> "status"

\* The data of a write, and of a read, for which a disk that failed may send its status.
OutInv == mdrv.pc = "data" /\ mdrv.op.t = "write" =>
    /\ mdev.op = mdrv.op /\ ~AnsweredBy("stall")
    /\ Queued("out") => mdev.phase = "out" /\ xbounce = Packet("data", 0, mdrv.op.v)
    /\ AnsweredBy("ok") => mdev.phase = "status" /\ (mdev.good => Obeyed)

InInv == mdrv.pc = "data" /\ mdrv.op.t # "write" =>
    /\ mdev.op = mdrv.op
    /\ Queued("in") => mdev.phase = IF mdev.good THEN "in" ELSE "status"
    /\ AnsweredBy("ok") => \/ mdev.phase = "status" /\ (mdrv.op.t = "read" => xbounce = Sector(mdrv.op.lba))
                           \/ mdev.phase = "cmd"
    /\ AnsweredBy("stall") => mdev.phase = "status"

\* The status is good only if the command was obeyed; a disk that sent it as data stays
\* silent.
CswInv == mdrv.pc = "csw" =>
    /\ Queued("in") => mdev.phase = "cmd" \/ (mdev.phase = "status" /\ (mdev.good => Obeyed))
    /\ AnsweredBy("ok") => mdev.phase = "cmd" /\ (csw_ok => Obeyed)
    /\ AnsweredBy("stall") => mdev.phase = "status"

MscInv == ~mlate => BulkInv /\ IdleInv /\ CbwInv /\ OutInv /\ InInv /\ CswInv

\* A step in which the posted events are pumped, seen from an endpoint whose event is not
\* taken from the stash.
LEMMA PumpedEp ==
    ASSUME XferTypes, NEW e \in Eps, hcEv' = <<>>, trbs'[e] = trbs[e], (e \in DOMAIN stash') <=> (e \in DOMAIN pump)
    PROVE  /\ Quiet(e) => Quiet(e)'
           /\ Queued(e) => Queued(e)'
           /\ Answered(e) \/ Kept(e) => Kept(e)'
<1>1. Posted(e)' = {}
  BY DEF Posted
<1>2. e \in DOMAIN pump <=> e \in DOMAIN stash \/ Posted(e) # {}
  BY PumpFacts
<1> QED  BY <1>1, <1>2 DEF Quiet, Queued, Answered, Kept

\* A step in which the event of an endpoint is taken from the stash.
LEMMA TakenEp ==
    ASSUME XferTypes, NEW e \in Eps, hcEv' = <<>>, e \notin DOMAIN stash'
    PROVE  /\ trbs'[e] = 0 => Quiet(e)'
           /\ trbs'[e] = 1 => Queued(e)'
<1>1. Posted(e)' = {}
  BY DEF Posted
<1> QED  BY <1>1 DEF Quiet, Queued

\* A step in which an event of another endpoint is posted changes nothing for e.
LEMMA OtherEp ==
    ASSUME XferTypes, NEW f \in Eps, NEW c \in {"ok", "stall"}, hcEv' = Append(hcEv, [ep |-> f, code |-> c]),
           stash' = stash, NEW e \in Eps \ {f}, trbs'[e] = trbs[e]
    PROVE  /\ Quiet(e)' <=> Quiet(e)
           /\ Queued(e)' <=> Queued(e)
           /\ Answered(e)' <=> Answered(e)
           /\ Kept(e)' <=> Kept(e)
           /\ \A d : AnsweredAs(e, d)' <=> AnsweredAs(e, d)
<1>1. [ep |-> f, code |-> c] \in XferEvents /\ [ep |-> f, code |-> c].ep = f
  BY DEF XferEvents
<1> PICK ev : ev = [ep |-> f, code |-> c]
  OBVIOUS
<1>2. /\ DOMAIN hcEv' = DOMAIN hcEv \cup {Len(hcEv) + 1} /\ hcEv'[Len(hcEv) + 1] = ev
      /\ \A i \in DOMAIN hcEv : hcEv'[i] = hcEv[i]
  BY <1>1 DEF XferTypes
<1>3. Posted(e)' = Posted(e) /\ Posted(e) \subseteq DOMAIN hcEv
  BY <1>1, <1>2 DEF Posted
<1>4. \A d : AnsweredAs(e, d)' <=> AnsweredAs(e, d)
  BY <1>2, <1>3 DEF AnsweredAs
<1>5. Answered(e)' <=> Answered(e)
  BY <1>2, <1>3 DEF Answered
<1> QED  BY <1>3, <1>4, <1>5 DEF Quiet, Queued, Kept

\* A step in which the transfer of an endpoint ends and its event is posted.
LEMMA EndedEp ==
    ASSUME XferTypes, NEW e \in Eps, NEW c \in {"ok", "stall"}, hcEv' = Append(hcEv, [ep |-> e, code |-> c]),
           stash' = stash, trbs'[e] = trbs[e] - 1, Queued(e)
    PROVE  Answered(e)' /\ ~Queued(e)' /\ \A d : AnsweredAs(e, d)' <=> d = c
<1>1. /\ [ep |-> e, code |-> c] \in XferEvents
      /\ [ep |-> e, code |-> c].ep = e /\ [ep |-> e, code |-> c].code = c
  BY DEF XferEvents
<1> PICK ev : ev = [ep |-> e, code |-> c]
  OBVIOUS
<1>2. /\ DOMAIN hcEv' = DOMAIN hcEv \cup {Len(hcEv) + 1} /\ hcEv'[Len(hcEv) + 1] = ev
      /\ \A i \in DOMAIN hcEv : hcEv'[i] = hcEv[i]
  BY <1>1 DEF XferTypes
<1>3. Posted(e) = {} /\ trbs'[e] = 0 /\ e \notin DOMAIN stash'
  BY DEF Queued
<1>4. Posted(e)' = {Len(hcEv) + 1}
  BY <1>1, <1>2, <1>3 DEF Posted
<1> QED  BY <1>1, <1>2, <1>3, <1>4 DEF Answered, Queued, AnsweredAs

\* What the driver finds of its transfer: nothing while it is queued, its code afterwards.
LEMMA FoundAnswer ==
    ASSUME XferTypes, NEW e \in Eps
    PROVE  /\ Queued(e) \/ Quiet(e) => e \notin DOMAIN pump
           /\ Answered(e) => e \in DOMAIN pump /\ AnsweredAs(e, pump[e]) /\ pump[e] \in {"ok", "stall"}
<1>1. e \in DOMAIN pump <=> e \in DOMAIN stash \/ Posted(e) # {}
  BY PumpFacts
<1>2. ASSUME Answered(e) PROVE AnsweredAs(e, pump[e]) /\ pump[e] \in {"ok", "stall"}
  <2>1. PICK i \in DOMAIN hcEv : Posted(e) = {i}
    BY <1>2 DEF Answered
  <2>2. pump[e] = hcEv[i].code
    BY <2>1, PumpFacts
  <2>3. hcEv[i] \in XferEvents
    BY <2>1 DEF XferTypes
  <2>4. hcEv[i].code \in {"ok", "stall"}
    BY <2>3 DEF XferEvents
  <2> QED  BY <2>1, <2>2, <2>4 DEF AnsweredAs
<1> QED  BY <1>1, <1>2 DEF Queued, Quiet, Answered


\* The endpoints of the disk are not interrupt endpoints.
LEMMA TwoKinds ==
    /\ "in" \in Eps /\ "out" \in Eps /\ "in" # "out" /\ Waiting \in {"in", "out"}
    /\ IntEps \subseteq Eps /\ "in" \notin IntEps /\ "out" \notin IntEps
BY XferAssumption DEF Eps, Waiting

\* What a step does to the transfers: one is queued, or one ends and its event is
\* posted, or the posted events are pumped and at most one is taken, when another
\* transfer may be queued.
PumpStep(e, t) ==
    /\ hcEv' = <<>> /\ DOMAIN stash' = DOMAIN pump \ {e}
    /\ trbs' = [trbs EXCEPT ![t] = @ + 1] \/ trbs' = trbs

QueueStep(t) == trbs' = [trbs EXCEPT ![t] = @ + 1] /\ hcEv' = hcEv /\ stash' = stash

EndStep(e, c) ==
    /\ trbs[e] > 0 /\ trbs' = [trbs EXCEPT ![e] = @ - 1]
    /\ hcEv' = Append(hcEv, [ep |-> e, code |-> c]) /\ stash' = stash

\* The steps that concern an interrupt endpoint, and the disk's.
LEMMA XferKinds ==
    ASSUME XferTypes, [XferNext]_xferVars
    PROVE  \/ \E e \in IntEps : InterruptPoll(e)
           \/ /\ armed' = armed
              /\ \/ \E e \in Eps, c \in {"ok", "stall"} : EndStep(e, c)
                 \/ \E e, t \in {"in", "out"} : PumpStep(e, t) \/ QueueStep(t)
                 \/ trbs' = trbs /\ hcEv' = hcEv /\ stash' = stash
<1> USE TwoKinds
<1>1. CASE \E e \in IntEps : Report(e)
  BY <1>1 DEF Report, EndStep
<1>2. CASE ScsiCall \/ ProbeCall
  <2>1. QueueStep("out") /\ armed' = armed
    BY <1>2 DEF ScsiCall, ProbeCall, Begin_, Submit, QueueStep
  <2> QED  BY <2>1
<1>3. CASE XferTimeout
  <2>1. DOMAIN pump = DOMAIN pump \ {Waiting}
    BY <1>3 DEF XferTimeout
  <2>2. PumpStep(Waiting, "in") /\ armed' = armed
    BY <1>3, <2>1 DEF XferTimeout, PumpStep
  <2> QED  BY <2>2
<1>4. CASE XferFails
  <2>1. PumpStep(Waiting, "in") /\ armed' = armed
    BY <1>4 DEF XferFails, PumpStep, Taken
  <2> QED  BY <2>1
<1>5. CASE XferDone
  <2>1. hcEv' = <<>> /\ armed' = armed /\ DOMAIN stash' = DOMAIN pump \ {Waiting}
    BY <1>5 DEF XferDone, Taken
  <2>2. trbs' = trbs \/ \E t \in {"in", "out"} : trbs' = [trbs EXCEPT ![t] = @ + 1]
    BY <1>5 DEF XferDone, Submit
  <2>3. \E t \in {"in", "out"} : PumpStep(Waiting, t)
    BY <2>1, <2>2 DEF PumpStep
  <2> QED  BY <2>1, <2>3
<1>6. CASE DeviceTakes \/ DeviceSends \/ DeviceStalls
  <2>1. armed' = armed /\ \E e \in {"in", "out"}, c \in {"ok", "stall"} : EndStep(e, c)
    BY <1>6 DEF DeviceTakes, DeviceSends, DeviceStalls, Moved, EndStep
  <2> QED  BY <2>1
<1>7. CASE UNCHANGED xferVars
  BY <1>7 DEF xferVars
<1> QED  BY <1>1, <1>2, <1>3, <1>4, <1>5, <1>6, <1>7 DEF XferNext

\* The transfers, the events and the stash keep their types.
LEMMA XferTypesNext ==
    ASSUME XferTypes, [XferNext]_xferVars
    PROVE  XferTypes'
<1> USE TwoKinds
<1>1. ASSUME NEW t \in Eps, trbs' = [trbs EXCEPT ![t] = @ + 1] \/ trbs' = trbs PROVE trbs' \in [Eps -> Nat]
  BY <1>1 DEF XferTypes
<1>2. DOMAIN pump \subseteq Eps
  BY PumpFacts DEF XferTypes
<1>3. ASSUME NEW e \in IntEps, InterruptPoll(e) PROVE XferTypes'
  <2>1. trbs' = [trbs EXCEPT ![e] = @ + 1] \/ trbs' = trbs
    BY <1>3 DEF InterruptPoll
  <2>2. armed' = [armed EXCEPT ![e] = TRUE] \/ armed' = armed
    BY <1>3 DEF InterruptPoll
  <2>3. DOMAIN stash' \subseteq DOMAIN pump /\ hcEv' = <<>>
    BY <1>3 DEF InterruptPoll, Taken
  <2>4. armed' \in [IntEps -> BOOLEAN]
    BY <2>2 DEF XferTypes
  <2> QED  BY <1>1, <1>2, <2>1, <2>3, <2>4 DEF XferTypes
<1>4. ASSUME NEW e \in Eps, NEW c \in {"ok", "stall"}, EndStep(e, c), armed' = armed PROVE XferTypes'
  <2>1. [ep |-> e, code |-> c] \in XferEvents
    BY DEF XferEvents
  <2>2. hcEv' \in Seq(XferEvents)
    BY <1>4, <2>1 DEF EndStep, XferTypes
  <2>3. trbs' \in [Eps -> Nat]
    BY <1>4 DEF EndStep, XferTypes
  <2> QED  BY <1>4, <2>2, <2>3 DEF EndStep, XferTypes
<1>5. ASSUME NEW e \in {"in", "out"}, NEW t \in {"in", "out"}, PumpStep(e, t) \/ QueueStep(t), armed' = armed
      PROVE  XferTypes'
  <2>1. trbs' \in [Eps -> Nat]
    BY <1>1, <1>5 DEF PumpStep, QueueStep
  <2>2. DOMAIN stash' \subseteq Eps /\ hcEv' \in Seq(XferEvents)
    <3>1. <<>> \in Seq(XferEvents)
      OBVIOUS
    <3>2. hcEv' = <<>> \/ hcEv' = hcEv
      BY <1>5 DEF PumpStep, QueueStep
    <3>3. DOMAIN stash' \subseteq DOMAIN pump \/ stash' = stash
      BY <1>5 DEF PumpStep, QueueStep
    <3> QED  BY <1>2, <3>1, <3>2, <3>3 DEF XferTypes
  <2> QED  BY <1>5, <2>1, <2>2 DEF XferTypes
<1> QED  BY <1>3, <1>4, <1>5, XferKinds DEF XferTypes

\* An armed endpoint has its transfer in exactly one place, whatever is pumped, taken and
\* queued for the disk (interrupt_poll, wait_xfer).
LEMMA IntNext ==
    ASSUME XferTypes, IntInv, [XferNext]_xferVars
    PROVE  IntInv'
<1> USE TwoKinds
<1> SUFFICES ASSUME NEW e \in IntEps
             PROVE  IF armed'[e] THEN Queued(e)' \/ Answered(e)' \/ Kept(e)' ELSE Quiet(e)'
  BY DEF IntInv
<1>0. IF armed[e] THEN Queued(e) \/ Answered(e) \/ Kept(e) ELSE Quiet(e)
  BY DEF IntInv
<1>1. trbs[e] \in Nat /\ DOMAIN armed = IntEps /\ DOMAIN trbs = Eps
  BY DEF XferTypes
<1>2. ASSUME InterruptPoll(e) PROVE IF armed'[e] THEN Queued(e)' \/ Answered(e)' \/ Kept(e)' ELSE Quiet(e)'
  <2>1. hcEv' = <<>>
    BY <1>2 DEF InterruptPoll
  <2>2. CASE armed[e] /\ e \in DOMAIN pump
    <3>1. trbs'[e] = trbs[e] + 1 /\ e \notin DOMAIN stash'
      BY <1>1, <1>2, <2>2 DEF InterruptPoll, Taken
    <3>2. armed'[e]
      BY <1>1, <1>2, <2>2 DEF InterruptPoll
    <3>3. trbs[e] = 0
      BY <1>0, <2>2, FoundAnswer DEF Answered, Kept
    <3> QED  BY <2>1, <3>1, <3>2, <3>3, TakenEp
  <2>3. CASE armed[e] /\ e \notin DOMAIN pump
    <3>1. trbs' = trbs /\ stash' = pump /\ armed' = armed
      BY <1>2, <2>3 DEF InterruptPoll
    <3> QED  BY <1>0, <2>1, <2>3, <3>1, PumpedEp
  <2>4. CASE ~armed[e]
    <3>1. trbs'[e] = trbs[e] + 1 /\ stash' = pump
      BY <1>1, <1>2, <2>4 DEF InterruptPoll
    <3>2. armed'[e]
      BY <1>1, <1>2, <2>4 DEF InterruptPoll
    <3>3. trbs[e] = 0 /\ e \notin DOMAIN pump
      BY <1>0, <2>4, FoundAnswer DEF Quiet
    <3> QED  BY <2>1, <3>1, <3>2, <3>3, TakenEp
  <2> QED  BY <2>2, <2>3, <2>4
<1>3. ASSUME NEW f \in IntEps \ {e}, InterruptPoll(f)
      PROVE  IF armed'[e] THEN Queued(e)' \/ Answered(e)' \/ Kept(e)' ELSE Quiet(e)'
  <2>1. hcEv' = <<>> /\ (e \in DOMAIN stash' <=> e \in DOMAIN pump)
    BY <1>3 DEF InterruptPoll, Taken
  <2>2. trbs'[e] = trbs[e]
    BY <1>1, <1>3 DEF InterruptPoll
  <2>3. armed'[e] = armed[e]
    BY <1>1, <1>3 DEF InterruptPoll
  <2> QED  BY <1>0, <2>1, <2>2, <2>3, PumpedEp
<1>4. ASSUME NEW f \in Eps, NEW c \in {"ok", "stall"}, EndStep(f, c), armed' = armed
      PROVE  IF armed'[e] THEN Queued(e)' \/ Answered(e)' \/ Kept(e)' ELSE Quiet(e)'
  <2>1. /\ trbs[f] > 0 /\ trbs'[e] = IF e = f THEN trbs[e] - 1 ELSE trbs[e]
        /\ hcEv' = Append(hcEv, [ep |-> f, code |-> c]) /\ stash' = stash
    BY <1>1, <1>4 DEF EndStep
  <2>2. CASE f = e
    <3>1. armed[e] /\ Queued(e)
      BY <1>0, <1>1, <2>1, <2>2 DEF Answered, Kept, Quiet
    <3>2. Answered(e)'
      BY <2>1, <2>2, <3>1, EndedEp
    <3> QED  BY <1>4, <3>1, <3>2
  <2>3. CASE f # e
    BY <1>0, <1>4, <2>1, <2>3, OtherEp
  <2> QED  BY <2>2, <2>3
<1>5. ASSUME NEW f \in {"in", "out"}, NEW t \in {"in", "out"}, PumpStep(f, t) \/ QueueStep(t), armed' = armed
      PROVE  IF armed'[e] THEN Queued(e)' \/ Answered(e)' \/ Kept(e)' ELSE Quiet(e)'
  <2>1. trbs'[e] = trbs[e]
    BY <1>1, <1>5 DEF PumpStep, QueueStep
  <2>2. CASE PumpStep(f, t)
    <3>1. hcEv' = <<>> /\ (e \in DOMAIN stash' <=> e \in DOMAIN pump)
      BY <2>2 DEF PumpStep
    <3> QED  BY <1>0, <1>5, <2>1, <3>1, PumpedEp
  <2>3. CASE QueueStep(t)
    BY <1>0, <1>5, <2>1, <2>3 DEF QueueStep, Quiet, Queued, Answered, Kept, Posted
  <2> QED  BY <1>5, <2>2, <2>3
<1>6. ASSUME trbs' = trbs, hcEv' = hcEv, stash' = stash, armed' = armed
      PROVE  IF armed'[e] THEN Queued(e)' \/ Answered(e)' \/ Kept(e)' ELSE Quiet(e)'
  BY <1>0, <1>6 DEF Quiet, Queued, Answered, Kept, Posted
<1> QED  BY <1>2, <1>3, <1>4, <1>5, <1>6, XferKinds

\* Nothing is under way at the start.
LEMMA XferInitTypes == XferInit => XferTypes /\ IntInv /\ DOMAIN stash = {}
<1> SUFFICES ASSUME XferInit PROVE XferTypes /\ IntInv /\ DOMAIN stash = {}
  OBVIOUS
<1>1. trbs = [e \in Eps |-> 0] /\ hcEv = <<>> /\ stash = <<>> /\ armed = [e \in IntEps |-> FALSE]
  BY DEF XferInit
<1>2. DOMAIN stash = {} /\ DOMAIN hcEv = {}
  BY <1>1
<1>3. XferTypes
  BY <1>1, <1>2 DEF XferTypes
<1>4. \A e \in IntEps : Quiet(e) /\ armed[e] = FALSE
  BY <1>1, <1>2, TwoKinds DEF Quiet, Posted
<1> QED  BY <1>2, <1>3, <1>4 DEF IntInv

\* No report of a keyboard or a mouse is lost for good (interrupt_poll, pump, stash_xfer).
THEOREM UsbArmedIsPending == XferSpec => []ArmedIsPending
<1>1. XferTypes /\ IntInv /\ [XferNext]_xferVars => XferTypes' /\ IntInv'
  BY XferTypesNext, IntNext
<1>2. IntInv => ArmedIsPending
  BY DEF IntInv, ArmedIsPending, Queued, Answered, Kept, Posted
<1> QED  BY <1>1, <1>2, XferInitTypes, PTL DEF XferSpec

-----------------------------------------------------------------------------
(* UsbXfer: a SCSI command.                                                *)

DiskInv == DrvTypes /\ MscInv /\ MscOk

\* As long as no transfer was given up on, the one the driver waits for is queued or
\* answered.
LEMMA WaitFacts ==
    ASSUME XferTypes, DiskInv, ~mlate, Locked
    PROVE  /\ Queued(Waiting) \/ Answered(Waiting)
           /\ \A e \in {"in", "out"} \ {Waiting} : Quiet(e)
           /\ IdleInv /\ CbwInv /\ OutInv /\ InInv /\ CswInv
BY DEF DiskInv, MscInv, BulkInv

\* The endpoint with something queued is the one the driver waits for.
LEMMA OnlyWaiting ==
    ASSUME XferTypes, DiskInv, ~mlate, NEW e \in {"in", "out"}, trbs[e] > 0
    PROVE  Locked /\ e = Waiting /\ Queued(e)
BY DEF DiskInv, MscInv, BulkInv, Quiet, Answered, Queued

\* Polls of interrupt endpoints and their reports pass the disk by.
LEMMA PollKeepsDisk ==
    ASSUME XferTypes, DiskInv, NEW e \in IntEps, InterruptPoll(e) \/ Report(e)
    PROVE  DiskInv'
<1> USE TwoKinds
<1>1. UNCHANGED <<xbounce, mdev, mdisk, halted, mdrv, mret, mlate>>
  BY DEF InterruptPoll, Report
<1>2. DrvTypes' /\ MscOk'
  BY <1>1 DEF DiskInv, DrvTypes, MscOk
<1>3. Waiting' = Waiting /\ Locked' = Locked
  BY <1>1 DEF Waiting, Locked
<1>4. DOMAIN trbs = Eps
  BY DEF XferTypes
<1>5. ASSUME InterruptPoll(e), ~mlate PROVE MscInv'
  <2>1. ~Locked /\ Quiet("in") /\ Quiet("out") /\ IdleInv
    BY <1>5 DEF InterruptPoll, DiskInv, MscInv, BulkInv
  <2>2. hcEv' = <<>> /\ \A f \in {"in", "out"} : trbs'[f] = trbs[f] /\ (f \in DOMAIN stash' <=> f \in DOMAIN pump)
    BY <1>4, <1>5 DEF InterruptPoll, Taken
  <2>3. Quiet("in")' /\ Quiet("out")'
    BY <2>1, <2>2, PumpedEp
  <2>4. BulkInv'
    BY <1>3, <2>1, <2>3 DEF BulkInv
  <2>5. mdrv.pc = "idle"
    BY <2>1 DEF DiskInv, DrvTypes, Locked
  <2>6. IdleInv' /\ CbwInv' /\ OutInv' /\ InInv' /\ CswInv'
    BY <1>1, <2>1, <2>5 DEF IdleInv, CbwInv, OutInv, InInv, CswInv
  <2> QED  BY <2>4, <2>6 DEF MscInv
<1>6. ASSUME Report(e), ~mlate PROVE MscInv'
  <2>1. ASSUME NEW f \in {"in", "out"}
        PROVE  /\ Quiet(f)' <=> Quiet(f)
               /\ Queued(f)' <=> Queued(f)
               /\ Answered(f)' <=> Answered(f)
               /\ \A d : AnsweredAs(f, d)' <=> AnsweredAs(f, d)
    <3>1. trbs'[f] = trbs[f] /\ hcEv' = Append(hcEv, [ep |-> e, code |-> "ok"]) /\ stash' = stash
      BY <1>4, <1>6 DEF Report
    <3> QED  BY <3>1, OtherEp
  <2>2. \A d : AnsweredBy(d)' <=> AnsweredBy(d)
    BY <1>3, <2>1 DEF AnsweredBy
  <2>3. BulkInv'
    BY <1>3, <1>6, <2>1 DEF BulkInv, DiskInv, MscInv
  <2>4. IdleInv' /\ CbwInv' /\ OutInv' /\ InInv' /\ CswInv'
    BY <1>1, <1>6, <2>1, <2>2 DEF IdleInv, CbwInv, OutInv, InInv, CswInv, DiskInv, MscInv, Obeyed, Sector, csw_ok
  <2> QED  BY <2>3, <2>4 DEF MscInv
<1> QED  BY <1>1, <1>2, <1>5, <1>6 DEF DiskInv, MscInv

\* A command begins with its block in the bounce page.
LEMMA BeginKeepsDisk ==
    ASSUME XferTypes, DiskInv, ScsiCall \/ ProbeCall
    PROVE  DiskInv'
<1> USE TwoKinds
<1>1. PICK op : /\ Begin_(op) /\ op.t \in ScsiOps
                /\ op.t \in {"read", "write"} => op.lba \in MscLbas
                /\ mdrv.mode = "run" => op.t # "ready"
  <2> DEFINE Fits(op) == /\ Begin_(op) /\ op.t \in ScsiOps
                         /\ op.t \in {"read", "write"} => op.lba \in MscLbas
                         /\ mdrv.mode = "run" => op.t # "ready"
  <2> SUFFICES \E op : Fits(op)
    OBVIOUS
  <2>1. CASE ScsiCall
    <3>1. PICK l \in MscLbas : \/ Begin_(Packet("read", l, 0))
                               \/ \E v \in MscDatas : Begin_(Packet("write", l, v))
                               \/ Begin_(Packet("flush", 0, 0))
      BY <2>1 DEF ScsiCall
    <3>2. Begin_(Packet("read", l, 0)) => Fits(Packet("read", l, 0))
      BY DEF Packet, ScsiOps
    <3>3. Begin_(Packet("flush", 0, 0)) => Fits(Packet("flush", 0, 0))
      BY DEF Packet, ScsiOps
    <3>4. \A v \in MscDatas : Begin_(Packet("write", l, v)) => Fits(Packet("write", l, v))
      BY DEF Packet, ScsiOps
    <3> HIDE DEF Fits
    <3> QED  BY <3>1, <3>2, <3>3, <3>4
  <2>2. CASE ProbeCall
    <3>1. PICK t \in {"ready", "capacity"} : Begin_(Packet(t, 0, 0)) /\ mdrv.mode = "probe"
      BY <2>2 DEF ProbeCall
    <3>2. Fits(Packet(t, 0, 0))
      BY <3>1 DEF Packet, ScsiOps
    <3> HIDE DEF Fits
    <3> QED  BY <3>2
  <2> QED  BY <2>1, <2>2
<1>2. /\ mdrv.pc = "idle" /\ mdrv' = [mdrv EXCEPT !.pc = "cbw", !.op = op, !.data = NoPacket] /\ mret' = NoMscRet
      /\ trbs' = [trbs EXCEPT !["out"] = @ + 1] /\ xbounce' = Packet("cbw", op.lba, op)
      /\ UNCHANGED <<hcEv, stash, armed, mdev, mdisk, halted, mlate>>
  BY <1>1 DEF Begin_, Submit
<1>3. /\ mdrv' = [mode |-> mdrv'.mode, tries |-> mdrv'.tries, pc |-> mdrv'.pc, op |-> mdrv'.op, data |-> mdrv'.data]
      /\ mdrv'.pc = "cbw" /\ mdrv'.op = op /\ mdrv'.mode = mdrv.mode
  BY <1>2 DEF DiskInv, DrvTypes
<1>4. ~mret'.ok
  BY <1>2 DEF NoMscRet
<1>5. DrvTypes'
  BY <1>1, <1>2, <1>3, <1>4 DEF DiskInv, DrvTypes
<1>6. MscOk'
  BY <1>4 DEF MscOk
<1>7. ASSUME ~mlate PROVE MscInv'
  <2>1. Quiet("in") /\ Quiet("out") /\ mdev.phase \in {"cmd", "status"}
    BY <1>2, <1>7 DEF DiskInv, MscInv, BulkInv, IdleInv, Locked
  <2>2. Waiting' = "out" /\ Locked'
    BY <1>3 DEF Waiting, Locked
  <2>3. trbs'["in"] = trbs["in"] /\ trbs'["out"] = trbs["out"] + 1
    BY <1>2 DEF XferTypes
  <2>4. Quiet("in")' /\ Queued("out")' /\ Posted("out")' = {}
    BY <1>2, <2>1, <2>3 DEF Quiet, Queued, Posted
  <2>5. BulkInv'
    BY <2>2, <2>4 DEF BulkInv
  <2>6. ~AnsweredBy("ok")'
    BY <2>2, <2>4 DEF AnsweredBy, AnsweredAs
  <2>7. CbwInv'
    BY <1>2, <1>3, <2>1, <2>6 DEF CbwInv
  <2> QED  BY <1>3, <2>5, <2>7 DEF MscInv, IdleInv, OutInv, InInv, CswInv
<1> QED  BY <1>2, <1>5, <1>6, <1>7 DEF DiskInv, MscInv

\* A command that is over leaves the driver idle.
LEMMA ReturnFacts ==
    ASSUME DrvTypes, Locked, NEW ok, Return(ok)
    PROVE  /\ mret' = [ok |-> ok, op |-> mdrv.op, data |-> mdrv.data]
           /\ mdrv' = [mode |-> mdrv'.mode, tries |-> mdrv'.tries, pc |-> "idle", op |-> mdrv'.op, data |-> mdrv'.data]
           /\ mdrv'.pc = "idle"
<1>1. \E m, n : mdrv' = Idle(m, n)
  <2>1. mdrv.mode = "run" => mdrv.op.t # "ready"
    BY DEF DrvTypes, Locked
  <2> QED  BY <2>1 DEF Return
<1> QED  BY <1>1 DEF Return, Idle

\* A transfer that is given up on, or that fails, ends the command.
LEMMA FailKeepsDisk ==
    ASSUME XferTypes, DiskInv, XferTimeout \/ XferFails
    PROVE  DiskInv'
<1> USE TwoKinds
<1>1. /\ Locked /\ Return(FALSE) /\ hcEv' = <<>>
      /\ UNCHANGED <<trbs, armed, xbounce, mdev, mdisk, halted>>
  BY DEF XferTimeout, XferFails
<1>2. /\ mdrv' = [mode |-> mdrv'.mode, tries |-> mdrv'.tries, pc |-> "idle", op |-> mdrv'.op, data |-> mdrv'.data]
      /\ mdrv'.pc = "idle" /\ ~mret'.ok
  <2>1. [ok |-> FALSE, op |-> mdrv.op, data |-> mdrv.data].ok = FALSE
    OBVIOUS
  <2> QED  BY <1>1, <2>1, ReturnFacts DEF DiskInv
<1>3. DrvTypes' /\ MscOk'
  BY <1>1, <1>2 DEF DiskInv, DrvTypes, MscOk
<1>4. ASSUME XferFails, ~mlate PROVE MscInv'
  <2> PICK w : w = Waiting
    OBVIOUS
  <2>1. w \in DOMAIN pump /\ pump[w] # "ok" /\ stash' = Taken(pump, w)
    BY <1>4 DEF XferFails
  <2>2. Answered(w) /\ \A e \in {"in", "out"} \ {w} : Quiet(e)
    BY <1>1, <1>4, <2>1, WaitFacts, FoundAnswer
  <2>3. AnsweredBy("stall")
    BY <2>1, <2>2, FoundAnswer DEF AnsweredBy
  <2>4. mdev.phase \in {"cmd", "status"}
    BY <1>1, <1>4, <2>3, WaitFacts DEF CbwInv, OutInv, InInv, CswInv, Locked
  <2>5. DOMAIN stash' = DOMAIN pump \ {w}
    BY <2>1 DEF Taken
  <2>6. ASSUME NEW e \in {"in", "out"} PROVE Quiet(e)'
    <3>1. trbs'[e] = 0 /\ e \notin DOMAIN stash'
      BY <1>1, <2>2, <2>5, FoundAnswer DEF Quiet, Answered
    <3> QED  BY <1>1, <3>1, TakenEp
  <2>7. BulkInv'
    BY <1>2, <2>6 DEF BulkInv, Locked
  <2>8. IdleInv' /\ CbwInv' /\ OutInv' /\ InInv' /\ CswInv'
    BY <1>1, <1>2, <2>4 DEF IdleInv, CbwInv, OutInv, InInv, CswInv
  <2> QED  BY <2>7, <2>8 DEF MscInv
<1>5. XferFails => mlate' = mlate
  BY DEF XferFails
<1>6. XferTimeout => mlate'
  BY DEF XferTimeout
<1> QED  BY <1>3, <1>4, <1>5, <1>6 DEF DiskInv, MscInv


\* A transfer that is done: the command goes on, or returns with its status.
LEMMA DoneKeepsDisk ==
    ASSUME XferTypes, DiskInv, XferDone
    PROVE  DiskInv'
<1> USE TwoKinds
<1> PICK w : w = Waiting
  OBVIOUS
<1>1. /\ Locked /\ w \in DOMAIN pump /\ pump[w] = "ok" /\ hcEv' = <<>> /\ DOMAIN stash' = DOMAIN pump \ {w}
      /\ UNCHANGED <<armed, mdev, mdisk, halted, mlate>>
  BY DEF XferDone, Taken
<1>2. mdrv.pc \in {"cbw", "data", "csw"} /\ DrvTypes
  BY <1>1 DEF Locked, DiskInv
<1>3. ~mlate => /\ Answered(w) /\ AnsweredBy("ok") /\ \A e \in {"in", "out"} \ {w} : Quiet(e)
                /\ IdleInv /\ CbwInv /\ OutInv /\ InInv /\ CswInv
  BY <1>1, WaitFacts, FoundAnswer DEF AnsweredBy
<1>4. ~mlate => \A e \in {"in", "out"} : trbs[e] = 0 /\ e \notin DOMAIN stash'
  BY <1>1, <1>3, FoundAnswer DEF Quiet, Answered
<1>5. CASE mdrv.pc = "csw"
  <2>1. Return(csw_ok) /\ UNCHANGED <<trbs, xbounce>>
    BY <1>5 DEF XferDone
  <2>2. /\ mret' = [ok |-> csw_ok, op |-> mdrv.op, data |-> mdrv.data]
        /\ mdrv' = [mode |-> mdrv'.mode, tries |-> mdrv'.tries, pc |-> "idle", op |-> mdrv'.op, data |-> mdrv'.data]
        /\ mdrv'.pc = "idle"
    BY <1>1, <1>2, <2>1, ReturnFacts
  <2>3. DrvTypes'
    BY <1>1, <1>2, <2>2 DEF DrvTypes
  <2>4. ~mlate => mdev.phase = "cmd" /\ (csw_ok => Obeyed)
    BY <1>3, <1>5 DEF CswInv
  <2>5. MscOk'
    <3> SUFFICES ASSUME csw_ok, ~mlate PROVE MscOk'
      BY <1>1, <2>2 DEF MscOk
    <3>1. mret'.op = mdrv.op /\ mret'.data = mdrv.data
      BY <2>2
    <3> QED  BY <1>1, <2>4, <3>1 DEF MscOk, Obeyed, Sector
  <2>6. ASSUME ~mlate PROVE MscInv'
    <3>1. Quiet("in")' /\ Quiet("out")'
      BY <1>1, <1>4, <2>1, <2>6, TakenEp
    <3>2. BulkInv'
      BY <2>2, <3>1 DEF BulkInv, Locked
    <3> QED  BY <1>1, <2>2, <2>4, <2>6, <3>2 DEF MscInv, IdleInv, CbwInv, OutInv, InInv, CswInv
  <2> QED  BY <1>1, <2>3, <2>5, <2>6 DEF DiskInv, MscInv
<1>6. CASE mdrv.pc # "csw"
  <2> PICK next : next = IF mdrv.pc = "cbw" /\ mdrv.op.t \in {"read", "write", "capacity"} THEN "data" ELSE "csw"
    OBVIOUS
  <2> PICK ep : ep = IF next = "data" /\ mdrv.op.t = "write" THEN "out" ELSE "in"
    OBVIOUS
  <2>1. /\ mdrv' = [mdrv EXCEPT !.pc = next,
                        !.data = IF mdrv.pc = "data" /\ mdrv.op.t # "write" THEN xbounce ELSE @]
        /\ Submit(ep, Packet("data", 0, mdrv.op.v)) /\ mret' = mret
    BY <1>6 DEF XferDone
  <2>2. /\ mdrv' = [mode |-> mdrv'.mode, tries |-> mdrv'.tries, pc |-> mdrv'.pc, op |-> mdrv'.op, data |-> mdrv'.data]
        /\ mdrv'.pc = next /\ mdrv'.op = mdrv.op /\ mdrv'.mode = mdrv.mode
        /\ mdrv'.data = IF mdrv.pc = "data" /\ mdrv.op.t # "write" THEN xbounce ELSE mdrv.data
    BY <1>2, <2>1 DEF DrvTypes
  <2>3. next \in {"data", "csw"} /\ (next = "data" => mdrv.op.t \in {"read", "write", "capacity"})
    OBVIOUS
  <2>4. DrvTypes' /\ ~mret'.ok
    BY <1>1, <1>2, <2>1, <2>2, <2>3 DEF DrvTypes
  <2>5. MscOk'
    BY <2>4 DEF MscOk
  <2>6. ASSUME ~mlate PROVE MscInv'
    <3>1. Waiting' = ep /\ Locked' /\ ep \in {"in", "out"}
      BY <2>2, <2>3 DEF Waiting, Locked
    <3>2. \A e \in {"in", "out"} : trbs'[e] = IF e = ep THEN 1 ELSE 0
      BY <1>4, <2>1, <2>6, <3>1 DEF Submit, XferTypes
    <3>3. Queued(ep)' /\ Posted(ep)' = {} /\ \A e \in {"in", "out"} \ {ep} : Quiet(e)'
      BY <1>1, <1>4, <2>6, <3>1, <3>2, TakenEp DEF Queued
    <3>4. BulkInv'
      BY <3>1, <3>3 DEF BulkInv
    <3>5. \A d : ~AnsweredBy(d)'
      BY <3>1, <3>3 DEF AnsweredBy, AnsweredAs
    <3>6. CASE next = "data" /\ mdrv.op.t = "write"
      <4>1. mdrv.pc = "cbw" /\ mdev.op = mdrv.op /\ mdev.phase = "out"
        BY <1>2, <1>3, <1>6, <2>6, <3>6 DEF CbwInv
      <4>2. xbounce' = Packet("data", 0, mdrv.op.v)
        BY <2>1, <3>6 DEF Submit
      <4>3. OutInv'
        BY <1>1, <2>2, <3>5, <4>1, <4>2 DEF OutInv
      <4> QED  BY <2>2, <3>4, <3>6, <4>3 DEF MscInv, IdleInv, CbwInv, InInv, CswInv
    <3>7. CASE next = "data" /\ mdrv.op.t # "write"
      <4>1. mdrv.pc = "cbw" /\ mdev.op = mdrv.op /\ mdev.phase = IF mdev.good THEN "in" ELSE "status"
        BY <1>2, <1>3, <1>6, <2>3, <2>6, <3>7 DEF CbwInv
      <4>2. InInv'
        BY <1>1, <2>2, <3>5, <4>1 DEF InInv
      <4> QED  BY <2>2, <3>4, <3>7, <4>2 DEF MscInv, IdleInv, CbwInv, OutInv, CswInv
    <3>8. CASE next = "csw"
      <4>1. mdev.phase = "cmd" \/ (mdev.phase = "status" /\ (mdev.good => Obeyed'))
        <5>1. CASE mdrv.pc = "cbw"
          <6>1. mdrv.op.t \notin {"read", "write", "capacity"}
            BY <3>8, <5>1
          <6>2. mdev.phase = "status"
            BY <1>3, <2>6, <5>1, <6>1 DEF CbwInv
          <6> QED  BY <2>2, <6>1, <6>2 DEF Obeyed
        <5>2. CASE mdrv.pc = "data" /\ mdrv.op.t = "write"
          <6>1. mdev.phase = "status" /\ (mdev.good => Obeyed)
            BY <1>3, <2>6, <5>2 DEF OutInv
          <6> QED  BY <1>1, <2>2, <5>2, <6>1 DEF Obeyed
        <5>3. CASE mdrv.pc = "data" /\ mdrv.op.t # "write"
          <6>1. \/ mdev.phase = "status" /\ (mdrv.op.t = "read" => xbounce = Sector(mdrv.op.lba))
                \/ mdev.phase = "cmd"
            BY <1>3, <2>6, <5>3 DEF InInv
          <6> QED  BY <1>1, <2>2, <5>3, <6>1 DEF Obeyed, Sector
        <5> QED  BY <1>2, <1>6, <5>1, <5>2, <5>3
      <4>2. CswInv'
        BY <1>1, <3>5, <4>1 DEF CswInv
      <4> QED  BY <2>2, <3>4, <3>8, <4>2 DEF MscInv, IdleInv, CbwInv, OutInv, InInv
    <3> QED  BY <2>3, <3>6, <3>7, <3>8
  <2> QED  BY <1>1, <2>4, <2>5, <2>6 DEF DiskInv, MscInv
<1> QED  BY <1>5, <1>6

\* What the controller's steps have in common: the transfer that ends is the driver's.
LEMMA MovedFacts ==
    ASSUME XferTypes, DiskInv, ~mlate, NEW e \in {"in", "out"}, NEW c \in {"ok", "stall"}, Moved(e, c)
    PROVE  /\ Locked /\ Waiting = e /\ Queued(e) /\ BulkInv'
           /\ Waiting' = Waiting /\ Locked' = Locked /\ mdrv' = mdrv /\ mret' = mret /\ mlate' = mlate
           /\ ~Queued(e)' /\ \A d : AnsweredBy(d)' <=> d = c
<1> USE TwoKinds
<1>1. /\ trbs[e] > 0 /\ trbs' = [trbs EXCEPT ![e] = @ - 1] /\ hcEv' = Append(hcEv, [ep |-> e, code |-> c])
      /\ UNCHANGED <<stash, armed, mdrv, mret, mlate>>
  BY DEF Moved
<1>2. Locked /\ Waiting = e /\ Queued(e)
  BY <1>1, OnlyWaiting
<1>3. Waiting' = Waiting /\ Locked' = Locked
  BY <1>1 DEF Waiting, Locked
<1>4. Answered(e)' /\ ~Queued(e)' /\ \A d : AnsweredAs(e, d)' <=> d = c
  BY <1>1, <1>2, EndedEp DEF XferTypes
<1>5. ASSUME NEW f \in {"in", "out"} \ {e} PROVE Quiet(f)'
  <2>1. Quiet(f) /\ trbs'[f] = trbs[f]
    BY <1>1, <1>2, WaitFacts DEF XferTypes
  <2> QED  BY <1>1, <2>1, OtherEp
<1> QED  BY <1>1, <1>2, <1>3, <1>4, <1>5 DEF BulkInv, AnsweredBy


\* The disk takes a command block, or the data of a write.
LEMMA TakesKeepsDisk ==
    ASSUME XferTypes, DiskInv, DeviceTakes
    PROVE  DiskInv'
<1> USE TwoKinds
<1>1. Moved("out", "ok") /\ UNCHANGED <<xbounce, halted>> /\ UNCHANGED <<mdrv, mret, mlate>>
  BY DEF DeviceTakes, Moved
<1>2. DrvTypes'
  <2>1. /\ mdev' = [phase |-> mdev'.phase, op |-> mdev'.op, good |-> mdev'.good]
        /\ mdev'.good \in BOOLEAN
    BY DEF DeviceTakes, DiskInv, DrvTypes
  <2>2. DOMAIN mdisk' = DOMAIN mdisk
    BY DEF DeviceTakes
  <2> QED  BY <1>1, <2>1, <2>2 DEF DiskInv, DrvTypes
<1>3. mlate => MscOk' /\ MscInv'
  BY <1>1 DEF MscOk, MscInv
<1>4. ASSUME ~mlate PROVE MscOk' /\ MscInv'
  <2>1. /\ Locked /\ Waiting = "out" /\ Queued("out") /\ BulkInv' /\ ~Queued("out")'
        /\ \A d : AnsweredBy(d)' <=> d = "ok"
    BY <1>1, <1>4, MovedFacts
  <2>2. IdleInv /\ CbwInv /\ OutInv /\ InInv /\ CswInv
    BY <1>4, <2>1, WaitFacts
  <2>3. mdrv.pc = "cbw" \/ (mdrv.pc = "data" /\ mdrv.op.t = "write")
    BY <2>1 DEF Waiting
  <2>4. MscOk'
    BY <1>1, <2>3 DEF DiskInv, DrvTypes, MscOk
  <2>5. CASE mdrv.pc = "cbw"
    <3>1. xbounce = Packet("cbw", mdrv.op.lba, mdrv.op) /\ mdev.phase \in {"cmd", "status"}
      BY <2>1, <2>2, <2>5 DEF CbwInv
    <3>2. xbounce.v = mdrv.op
      BY <3>1 DEF Packet
    <3>3. /\ mdev' = [op |-> mdrv.op, good |-> mdev'.good,
                      phase |-> CASE mdrv.op.t \in {"read", "capacity"} /\ mdev'.good -> "in"
                                  [] mdrv.op.t = "write" -> "out"
                                  [] OTHER -> "status"]
      <4>1. PICK good \in BOOLEAN :
                mdev' = [op |-> xbounce.v, good |-> good,
                         phase |-> CASE xbounce.v.t \in {"read", "capacity"} /\ good -> "in"
                                     [] xbounce.v.t = "write" -> "out"
                                     [] OTHER -> "status"]
        BY <3>1 DEF DeviceTakes
      <4>2. mdev'.good = good
        BY <4>1
      <4> QED  BY <3>2, <4>1, <4>2
    <3>4. mdev'.op = mdrv.op /\ mdev'.phase = CASE mdrv.op.t \in {"read", "capacity"} /\ mdev'.good -> "in"
                                                [] mdrv.op.t = "write" -> "out"
                                                [] OTHER -> "status"
      BY <3>3
    <3>5. CbwInv'
      BY <1>1, <2>1, <3>1, <3>4 DEF CbwInv
    <3> QED  BY <1>1, <2>1, <2>4, <2>5, <3>5 DEF MscInv, IdleInv, OutInv, InInv, CswInv
  <2>6. CASE mdrv.pc = "data" /\ mdrv.op.t = "write"
    <3>1. mdev.op = mdrv.op /\ mdev.phase = "out" /\ xbounce = Packet("data", 0, mdrv.op.v)
      BY <2>1, <2>2, <2>6 DEF OutInv
    <3>2. xbounce.t = "data" /\ xbounce.v = mdrv.op.v
      BY <3>1 DEF Packet
    <3>3. mdev' = [mdev EXCEPT !.phase = "status"] /\ (mdev.good => mdisk' = [mdisk EXCEPT ![mdrv.op.lba] = mdrv.op.v])
      BY <3>1, <3>2 DEF DeviceTakes
    <3>4. mdev'.phase = "status" /\ mdev'.op = mdrv.op /\ mdev'.good = mdev.good
      BY <3>1, <3>3 DEF DiskInv, DrvTypes
    <3>5. mdrv.op.lba \in DOMAIN mdisk
      BY <2>6 DEF DiskInv, DrvTypes
    <3>6. mdev.good => Obeyed'
      BY <1>1, <2>6, <3>3, <3>5 DEF Obeyed
    <3>7. OutInv'
      BY <1>1, <2>1, <3>4, <3>6 DEF OutInv
    <3> QED  BY <1>1, <2>1, <2>4, <2>6, <3>7 DEF MscInv, IdleInv, CbwInv, InInv, CswInv
  <2> QED  BY <2>3, <2>5, <2>6
<1> QED  BY <1>2, <1>3, <1>4 DEF DiskInv

\* The disk sends data, or its status.
LEMMA SendsKeepsDisk ==
    ASSUME XferTypes, DiskInv, DeviceSends
    PROVE  DiskInv'
<1> USE TwoKinds
<1>1. Moved("in", "ok") /\ UNCHANGED <<mdisk, halted>> /\ UNCHANGED <<mdrv, mret, mlate>>
  BY DEF DeviceSends, Moved
<1>2. /\ mdev' = [phase |-> mdev'.phase, op |-> mdev'.op, good |-> mdev'.good]
      /\ mdev'.good = mdev.good /\ mdev'.op = mdev.op
  BY DEF DeviceSends, DiskInv, DrvTypes
<1>3. DrvTypes' /\ MscOk'
  BY <1>1, <1>2 DEF DiskInv, DrvTypes, MscOk
<1>4. mlate => MscInv'
  BY <1>1 DEF MscInv
<1>5. ASSUME ~mlate PROVE MscInv'
  <2>1. /\ Locked /\ Waiting = "in" /\ Queued("in") /\ BulkInv' /\ ~Queued("in")'
        /\ \A d : AnsweredBy(d)' <=> d = "ok"
    BY <1>1, <1>5, MovedFacts
  <2>2. IdleInv /\ CbwInv /\ OutInv /\ InInv /\ CswInv
    BY <1>5, <2>1, WaitFacts
  <2>3. mdrv.pc = "csw" \/ (mdrv.pc = "data" /\ mdrv.op.t # "write")
    BY <2>1 DEF Waiting, Locked
  <2>4. \/ mdev.phase = "in" /\ mdev'.phase = "status" /\ xbounce' = Packet("data", mdev.op.lba, mdisk[mdev.op.lba])
        \/ mdev.phase = "status" /\ mdev'.phase = "cmd" /\ xbounce' = Packet("csw", 0, IF mdev.good THEN 0 ELSE 1)
    BY DEF DeviceSends, DiskInv, DrvTypes
  <2>5. CASE mdrv.pc = "csw"
    <3>1. mdev.phase = "status" /\ (mdev.good => Obeyed)
      BY <2>1, <2>2, <2>4, <2>5 DEF CswInv
    <3>2. mdev'.phase = "cmd" /\ xbounce' = Packet("csw", 0, IF mdev.good THEN 0 ELSE 1)
      BY <2>4, <3>1
    <3>3. csw_ok' => mdev.good
      BY <3>2 DEF csw_ok, Packet
    <3>4. csw_ok' => Obeyed'
      BY <1>1, <3>1, <3>3 DEF Obeyed, Sector
    <3>5. CswInv'
      BY <2>1, <3>2, <3>4 DEF CswInv
    <3> QED  BY <1>1, <2>1, <2>5, <3>5 DEF MscInv, IdleInv, CbwInv, OutInv, InInv
  <2>6. CASE mdrv.pc = "data" /\ mdrv.op.t # "write"
    <3>1. mdev.op = mdrv.op
      BY <2>2, <2>6 DEF InInv
    <3>2. InInv'
      BY <1>1, <1>2, <2>1, <2>4, <3>1 DEF InInv, Sector
    <3> QED  BY <1>1, <2>1, <2>6, <3>2 DEF MscInv, IdleInv, CbwInv, OutInv, CswInv
  <2> QED  BY <2>3, <2>5, <2>6
<1> QED  BY <1>3, <1>4, <1>5 DEF DiskInv

\* The disk stalls an endpoint.
LEMMA StallsKeepsDisk ==
    ASSUME XferTypes, DiskInv, DeviceStalls
    PROVE  DiskInv'
<1> USE TwoKinds
<1>1. PICK e \in {"in", "out"} : /\ Moved(e, "stall")
                                 /\ IF e = "out" THEN mdev.phase \in {"in", "status"} ELSE mdev.phase = "status"
  BY DEF DeviceStalls
<1>2. UNCHANGED <<xbounce, mdev, mdisk, mdrv, mret, mlate>>
  BY DEF DeviceStalls, Moved
<1>3. DrvTypes' /\ MscOk'
  BY <1>2 DEF DiskInv, DrvTypes, MscOk
<1>4. mlate => MscInv'
  BY <1>2 DEF MscInv
<1>5. ASSUME ~mlate PROVE MscInv'
  <2>1. /\ Locked /\ Waiting = e /\ Queued(e) /\ BulkInv' /\ ~Queued(e)'
        /\ \A d : AnsweredBy(d)' <=> d = "stall"
    BY <1>1, <1>5, MovedFacts
  <2>2. IdleInv /\ CbwInv /\ OutInv /\ InInv /\ CswInv
    BY <1>5, <2>1, WaitFacts
  <2>3. CbwInv'
    BY <1>2, <2>1, <2>2 DEF CbwInv, Waiting
  <2>4. OutInv'
    BY <1>1, <1>2, <2>1, <2>2 DEF OutInv, Waiting
  <2>5. InInv'
    BY <1>1, <1>2, <2>1, <2>2 DEF InInv, Waiting
  <2>6. CswInv'
    BY <1>1, <1>2, <2>1, <2>2 DEF CswInv, Waiting
  <2>7. IdleInv'
    BY <1>2, <2>2 DEF IdleInv
  <2> QED  BY <2>1, <2>3, <2>4, <2>5, <2>6, <2>7 DEF MscInv
<1> QED  BY <1>3, <1>4, <1>5 DEF DiskInv

\* A SCSI command that returned Ok did what it was asked, as long as no transfer was given
\* up on: the status that is accepted is that of the command (scsi_in, scsi_out, csw).
THEOREM UsbDiskObeys == XferSpec => []MscOk
<1>1. XferInit => XferTypes /\ IntInv /\ DiskInv
  <2> SUFFICES ASSUME XferInit PROVE XferTypes /\ IntInv /\ DiskInv
    OBVIOUS
  <2>1. XferTypes /\ IntInv /\ DOMAIN stash = {} /\ hcEv = <<>> /\ trbs = [e \in Eps |-> 0]
    BY XferInitTypes DEF XferInit
  <2>2. Quiet("in") /\ Quiet("out")
    BY <2>1, TwoKinds DEF Quiet, Posted
  <2>3. mdrv = Idle("probe", 0) /\ mret = NoMscRet /\ mdev = [phase |-> "cmd", op |-> NoPacket, good |-> TRUE]
    BY DEF XferInit
  <2>4. mdrv.pc = "idle" /\ ~mret.ok /\ mdev.phase = "cmd"
    BY <2>3 DEF Idle, NoMscRet
  <2>5. DrvTypes
    <3>1. DOMAIN mdisk = MscLbas
      BY DEF XferInit
    <3>2. mdev = [phase |-> mdev.phase, op |-> mdev.op, good |-> mdev.good] /\ mdev.good \in BOOLEAN
      BY <2>3
    <3>3. mdrv = [mode |-> mdrv.mode, tries |-> mdrv.tries, pc |-> mdrv.pc, op |-> mdrv.op, data |-> mdrv.data]
      BY <2>3 DEF Idle
    <3> QED  BY <2>4, <3>1, <3>2, <3>3 DEF DrvTypes
  <2>6. MscInv
    BY <2>2, <2>4 DEF MscInv, BulkInv, Locked, IdleInv, CbwInv, OutInv, InInv, CswInv
  <2> QED  BY <2>1, <2>4, <2>5, <2>6 DEF DiskInv, MscOk
<1>2. DiskInv /\ UNCHANGED xferVars => DiskInv'
  BY DEF DiskInv, DrvTypes, MscInv, MscOk, BulkInv, IdleInv, CbwInv, OutInv, InInv, CswInv, Obeyed, Sector,
         csw_ok, AnsweredBy, AnsweredAs, Queued, Answered, Quiet, Posted, Waiting, Locked, xferVars
<1>3. XferTypes /\ DiskInv /\ [XferNext]_xferVars => DiskInv'
  BY <1>2, PollKeepsDisk, BeginKeepsDisk, FailKeepsDisk, DoneKeepsDisk, TakesKeepsDisk, SendsKeepsDisk, StallsKeepsDisk
     DEF XferNext
<1>4. DiskInv => MscOk
  BY DEF DiskInv
<1> QED  BY <1>1, <1>3, <1>4, XferTypesNext, PTL DEF XferSpec

-----------------------------------------------------------------------------
(* FsTree: the volume stays a tree, and the current directory in it.       *)

PathSeqs == Seq(Names)

\* f is what the components of a path lead to, one after the other.
IsPath(f, start, comps, n) == f = [i \in 0 .. n |-> IF i = 0 THEN start ELSE Walk(f[i - 1], comps[i])]

LEMMA PathExists ==
    ASSUME NEW start, NEW comps
    PROVE  \A n \in Nat : \E f : IsPath(f, start, comps, n)
<1> DEFINE S == {n \in Nat : \E f : IsPath(f, start, comps, n)}
<1>1. 0 \in S
  <2> DEFINE f == [i \in 0 .. 0 |-> start]
  <2>1. IsPath(f, start, comps, 0)
    BY DEF IsPath
  <2> QED  BY <2>1
<1>2. ASSUME NEW n \in Nat, n \in S PROVE n + 1 \in S
  <2>1. PICK f : IsPath(f, start, comps, n)
    BY <1>2
  <2> DEFINE g == [i \in 0 .. n + 1 |-> IF i = n + 1 THEN Walk(f[n], comps[n + 1]) ELSE f[i]]
  <2>2. \A i \in 0 .. n + 1 : g[i] = IF i = 0 THEN start ELSE Walk(g[i - 1], comps[i])
    <3> TAKE i \in 0 .. n + 1
    <3>1. CASE i = n + 1
      <4>1. i # 0 /\ i - 1 = n /\ n \in 0 .. n + 1 /\ n # n + 1
        BY <3>1
      <4>2. g[i - 1] = f[n]
        BY <4>1
      <4>3. g[i] = Walk(f[n], comps[n + 1])
        BY <3>1
      <4> QED  BY <3>1, <4>1, <4>2, <4>3
    <3>2. CASE i # n + 1
      <4>1. i \in 0 .. n /\ (i # 0 => i - 1 \in 0 .. n + 1 /\ i - 1 # n + 1)
        BY <3>2
      <4>2. g[i] = f[i] /\ (i # 0 => g[i - 1] = f[i - 1])
        BY <3>2, <4>1
      <4>3. f[i] = IF i = 0 THEN start ELSE Walk(f[i - 1], comps[i])
        BY <2>1, <4>1 DEF IsPath
      <4> QED  BY <4>2, <4>3
    <3> QED  BY <3>1, <3>2
  <2>3. IsPath(g, start, comps, n + 1)
    BY <2>2 DEF IsPath
  <2> QED  BY <2>3
<1>3. \A n \in Nat : n \in S
  <2> HIDE DEF S
  <2> QED  BY <1>1, <1>2, AllNumbers
<1> QED  BY <1>3

\* A directory above a path is a path of names.
LEMMA FrontFacts ==
    ASSUME NEW p \in PathSeqs, p # <<>>
    PROVE  Front(p) \in PathSeqs /\ Len(Front(p)) = Len(p) - 1 /\ Len(p) \in Nat \ {0}
           /\ \A i \in 1 .. Len(p) - 1 : Front(p)[i] = p[i]
<1>1. Len(p) \in Nat \ {0} /\ \A i \in 1 .. Len(p) : p[i] \in Names
  BY EmptySeq, LenProperties DEF PathSeqs
<1>2. PICK n \in Nat : n = Len(p) - 1
  BY <1>1
<1>3. \A i \in 1 .. n : p[i] \in Names
  BY <1>1, <1>2
<1>4. SubSeq(p, 1, n) \in Seq(Names) /\ Len(SubSeq(p, 1, n)) = n /\ \A i \in 1 .. n : SubSeq(p, 1, n)[i] = p[i]
  BY <1>1, <1>2, <1>3, SubSeqProperties DEF PathSeqs
<1> QED  BY <1>1, <1>2, <1>4 DEF Front, PathSeqs

\* One component keeps a path of names one.
LEMMA WalkNames ==
    ASSUME NEW parts \in PathSeqs, NEW c \in Comps
    PROVE  Walk(parts, c) \in PathSeqs
<1>1. \A x \in Names : Append(parts, x) \in PathSeqs
  BY AppendProperties DEF PathSeqs
<1>2. parts # <<>> => Front(parts) \in PathSeqs
  BY FrontFacts
<1>3. \/ Walk(parts, c) = parts
      \/ parts # <<>> /\ Walk(parts, c) = Front(parts)
      \/ c \in Names /\ Walk(parts, c) = Append(parts, c)
  <2>1. CASE c \in {"", "."}
    BY <2>1, Zenon DEF Walk
  <2>2. CASE c = ".." /\ c \notin {"", "."} /\ parts = <<>>
    BY <2>2, Zenon DEF Walk
  <2>3. CASE c = ".." /\ c \notin {"", "."} /\ parts # <<>>
    BY <2>3, Zenon DEF Walk
  <2>4. CASE c # ".." /\ c \notin {"", "."}
    <3>1. Walk(parts, c) = Append(parts, c)
      BY <2>4, Zenon DEF Walk
    <3>2. c \in Names
      BY <2>4, Zenon DEF Comps
    <3> QED  BY <3>1, <3>2
  <2> QED  BY <2>1, <2>2, <2>3, <2>4, Zenon
<1> QED  BY <1>1, <1>2, <1>3

\* What a path resolves to is a path of names.
LEMMA ResolveNames ==
    ASSUME NEW dir \in PathSeqs, NEW arg \in PathArgs
    PROVE  resolve(dir, arg) \in PathSeqs
<1>1. arg.comps \in Seq(Comps) /\ Len(arg.comps) \in Nat /\ \A i \in 1 .. Len(arg.comps) : arg.comps[i] \in Comps
  <2>1. arg \in [abs : BOOLEAN, comps : Seq(Comps)]
    BY PathConstants, Zenon
  <2>2. arg.comps \in Seq(Comps)
    BY <2>1
  <2> QED  BY <2>2, LenProperties
<1>2. PICK comps : comps = arg.comps
  OBVIOUS
<1>3. PICK n \in Nat : n = Len(comps)
  BY <1>1, <1>2
<1>4. PICK start \in PathSeqs : start = IF arg.abs THEN <<>> ELSE dir
  <2>1. \A T : <<>> \in Seq(T)
    OBVIOUS
  <2>2. <<>> \in PathSeqs
    BY <2>1 DEF PathSeqs
  <2>3. (IF arg.abs THEN <<>> ELSE dir) \in PathSeqs
    BY <2>2
  <2> QED  BY <2>3
<1>5. PICK f : f = CHOOSE h : IsPath(h, start, comps, n)
  OBVIOUS
<1>6. IsPath(f, start, comps, n)
  BY <1>5, PathExists
<1>7. resolve(dir, arg) = f[n]
  BY <1>2, <1>3, <1>4, <1>5 DEF resolve, IsPath
<1> DEFINE S == {i \in Nat : i <= n => f[i] \in PathSeqs}
<1>8. 0 \in S
  <2>1. 0 \in 0 .. n
    OBVIOUS
  <2> QED  BY <1>6, <2>1 DEF IsPath
<1>9. ASSUME NEW i \in Nat, i \in S PROVE i + 1 \in S
  <2> SUFFICES ASSUME i + 1 <= n PROVE f[i + 1] \in PathSeqs
    OBVIOUS
  <2>1. i + 1 \in 0 .. n /\ i + 1 \in 1 .. n /\ i + 1 # 0 /\ (i + 1) - 1 = i /\ i <= n
    OBVIOUS
  <2>2. f[i + 1] = Walk(f[(i + 1) - 1], comps[i + 1])
    BY <1>6, <2>1 DEF IsPath
  <2>3. f[i] \in PathSeqs /\ comps[i + 1] \in Comps
    BY <1>1, <1>2, <1>3, <1>9, <2>1
  <2> QED  BY <2>1, <2>2, <2>3, WalkNames
<1>10. \A i \in Nat : i \in S
  <2> HIDE DEF S
  <2> QED  BY <1>8, <1>9, AllNumbers
<1>11. f[n] \in PathSeqs
  BY <1>10
<1> QED  BY <1>7, <1>11

\* Every part of p from the root on is a directory of t.
IsDirIn(t, p) == \A i \in 1 .. Len(p) : SubSeq(p, 1, i) \in DOMAIN t /\ t[SubSeq(p, 1, i)] = "dir"

LEMMA OpenIsDir == \A p : OpenDir(p) = "Ok" <=> IsDirIn(tree, p)
BY DEF OpenDir, IsDirIn

\* The tree, and with it the current directory.
GoodTree(t) == \A p \in DOMAIN t : p \in PathSeqs /\ p # <<>> /\ IsDirIn(t, Front(p))
TreeInv == GoodTree(tree) /\ cwd \in PathSeqs /\ IsDirIn(tree, cwd)

\* A tree that has what t has.
LEMMA MoreDirs ==
    ASSUME NEW t, NEW u, DOMAIN t \subseteq DOMAIN u, \A q \in DOMAIN t : u[q] = t[q]
    PROVE  \A p : IsDirIn(t, p) => IsDirIn(u, p)
BY DEF IsDirIn

LEMMA WithGood ==
    ASSUME TreeInv, NEW p \in PathSeqs, p # <<>>, NEW kind \in {"dir", "file"}, Create(p, kind) = "Ok", OpenDir(p) # "Ok"
    PROVE  GoodTree(With(p, kind)) /\ IsDirIn(With(p, kind), cwd)
<1>1. OpenDir(Front(p)) = "Ok" /\ (p \in DOMAIN tree => tree[p] = kind)
  <2>1. OpenDir(Front(p)) = "Ok"
    BY DEF Create
  <2> QED  BY <2>1 DEF Create
<1>2. PICK u : u = With(p, kind)
  OBVIOUS
<1>3. DOMAIN u = DOMAIN tree \cup {p} /\ \A q \in DOMAIN tree : u[q] = tree[q]
  BY <1>1, <1>2 DEF With
<1>4. \A q : IsDirIn(tree, q) => IsDirIn(u, q)
  BY <1>3, MoreDirs
<1>5. IsDirIn(tree, Front(p))
  BY <1>1, OpenIsDir
<1>6. GoodTree(u)
  BY <1>3, <1>4, <1>5 DEF TreeInv, GoodTree
<1> QED  BY <1>2, <1>4, <1>6 DEF TreeInv

\* Parts of a part of a path are parts of the path.
LEMMA PartOfPart ==
    ASSUME NEW q \in PathSeqs, NEW i \in 1 .. Len(q), NEW j \in 1 .. i
    PROVE  SubSeq(SubSeq(q, 1, i), 1, j) = SubSeq(q, 1, j) /\ Len(SubSeq(q, 1, i)) = i
<1>1. Len(q) \in Nat /\ \A k \in 1 .. Len(q) : q[k] \in Names
  BY LenProperties DEF PathSeqs
<1>2. PICK a : a = SubSeq(q, 1, i)
  OBVIOUS
<1>3. a \in PathSeqs /\ Len(a) = i /\ \A k \in 1 .. i : a[k] = q[k]
  BY <1>1, <1>2, SubSeqProperties DEF PathSeqs
<1>4. PICK b : b = SubSeq(a, 1, j)
  OBVIOUS
<1>5. \A k \in 1 .. j : a[k] \in Names
  BY <1>1, <1>3
<1>6. b \in PathSeqs /\ Len(b) = j /\ \A k \in 1 .. j : b[k] = a[k]
  BY <1>1, <1>3, <1>4, <1>5, SubSeqProperties DEF PathSeqs
<1>7. PICK c : c = SubSeq(q, 1, j)
  OBVIOUS
<1>8. c \in PathSeqs /\ Len(c) = j /\ \A k \in 1 .. j : c[k] = q[k]
  BY <1>1, <1>7, SubSeqProperties DEF PathSeqs
<1>9. b = c
  BY <1>3, <1>6, <1>8, SeqEqual DEF PathSeqs
<1> QED  BY <1>2, <1>3, <1>4, <1>7, <1>9

LEMMA WithoutGood ==
    ASSUME TreeInv, NEW p \in PathSeqs, p \in DOMAIN tree, OpenDir(p) # "Ok"
    PROVE  GoodTree(Without(p)) /\ IsDirIn(Without(p), cwd)
<1>1. ~IsDirIn(tree, p)
  BY OpenIsDir
<1>2. PICK u : u = Without(p)
  OBVIOUS
<1>3. DOMAIN u = DOMAIN tree \ {p} /\ \A q \in DOMAIN tree : q # p => u[q] = tree[q]
  BY <1>2 DEF Without
<1>4. ASSUME NEW q \in PathSeqs, IsDirIn(tree, q) PROVE IsDirIn(u, q)
  <2>1. ASSUME NEW i \in 1 .. Len(q) PROVE SubSeq(q, 1, i) # p
    <3> SUFFICES ASSUME SubSeq(q, 1, i) = p PROVE FALSE
      OBVIOUS
    <3>1. Len(q) \in Nat
      BY LenProperties DEF PathSeqs
    <3>2. Len(p) = i
      BY PartOfPart
    <3>3. ASSUME NEW j \in 1 .. i PROVE SubSeq(p, 1, j) \in DOMAIN tree /\ tree[SubSeq(p, 1, j)] = "dir"
      <4>1. SubSeq(p, 1, j) = SubSeq(q, 1, j) /\ j \in 1 .. Len(q)
        BY <3>1, PartOfPart
      <4> QED  BY <1>4, <4>1 DEF IsDirIn
    <3> QED  BY <1>1, <3>2, <3>3 DEF IsDirIn
  <2> QED  BY <1>3, <1>4, <2>1 DEF IsDirIn
<1>5. GoodTree(u)
  BY <1>3, <1>4, FrontFacts DEF TreeInv, GoodTree
<1> QED  BY <1>2, <1>4, <1>5 DEF TreeInv

\* A call that moves neither the tree nor the current directory.
LEMMA TreeStays == TreeInv /\ UNCHANGED <<tree, cwd>> => TreeInv'
BY DEF TreeInv, GoodTree, IsDirIn

LEMMA TreeCalls ==
    ASSUME TreeInv, NEW arg \in PathArgs,
           Chdir(arg) \/ ReadAt(arg) \/ List(arg) \/ Mkdir(arg) \/ WriteFile(arg) \/ RemoveFile(arg)
    PROVE  TreeInv'
<1>1. PICK p : p = resolve(cwd, arg)
  OBVIOUS
<1>2. p \in PathSeqs
  BY <1>1, ResolveNames DEF TreeInv
<1>3. \A e : Fail(e) => UNCHANGED <<tree, cwd>>
  BY DEF Fail
<1>4. Io(p) => UNCHANGED <<tree, cwd>>
  BY <1>3 DEF Io
<1>5. CASE UNCHANGED <<tree, cwd>>
  BY <1>5, TreeStays
<1>6. CASE OpenDir(p) = "Ok" /\ cwd' = p /\ UNCHANGED tree
  <2>1. IsDirIn(tree, p)
    BY <1>6, OpenIsDir
  <2>2. tree' = tree /\ cwd' = p
    BY <1>6
  <2> QED  BY <1>2, <2>1, <2>2 DEF TreeInv
<1>7. CASE \E kind \in {"dir", "file"} : /\ p # <<>> /\ OpenDir(p) # "Ok" /\ UNCHANGED cwd
                                         /\ tree' = IF Create(p, kind) = "Ok" THEN With(p, kind) ELSE tree
  <2>1. PICK kind \in {"dir", "file"} : /\ p # <<>> /\ OpenDir(p) # "Ok" /\ UNCHANGED cwd
                                        /\ tree' = IF Create(p, kind) = "Ok" THEN With(p, kind) ELSE tree
    BY <1>7
  <2>2. CASE Create(p, kind) = "Ok"
    <3>1. GoodTree(With(p, kind)) /\ IsDirIn(With(p, kind), cwd)
      BY <1>2, <2>1, <2>2, WithGood
    <3>2. tree' = With(p, kind) /\ cwd' = cwd
      BY <2>1, <2>2
    <3> QED  BY <3>1, <3>2 DEF TreeInv
  <2>3. CASE Create(p, kind) # "Ok"
    BY <2>1, <2>3, TreeStays
  <2> QED  BY <2>2, <2>3
<1>8. CASE p \in DOMAIN tree /\ OpenDir(p) # "Ok" /\ tree' = Without(p) /\ UNCHANGED cwd
  <2>1. GoodTree(Without(p)) /\ IsDirIn(Without(p), cwd)
    BY <1>2, <1>8, WithoutGood
  <2>2. tree' = Without(p) /\ cwd' = cwd
    BY <1>8
  <2> QED  BY <2>1, <2>2 DEF TreeInv
<1>9. Chdir(arg) => UNCHANGED <<tree, cwd>> \/ (OpenDir(p) = "Ok" /\ cwd' = p /\ UNCHANGED tree)
  BY <1>1, <1>3, <1>4 DEF Chdir
<1>10. ReadAt(arg) \/ List(arg) => UNCHANGED <<tree, cwd>>
  BY <1>1, <1>4, Zenon DEF ReadAt, List
<1>11. Mkdir(arg) => \/ UNCHANGED <<tree, cwd>>
                     \/ /\ p # <<>> /\ OpenDir(p) # "Ok" /\ UNCHANGED cwd
                        /\ tree' = IF Create(p, "dir") = "Ok" THEN With(p, "dir") ELSE tree
  BY <1>1, <1>3, <1>4, Zenon DEF Mkdir
<1>12. WriteFile(arg) => \/ UNCHANGED <<tree, cwd>>
                         \/ /\ p # <<>> /\ OpenDir(p) # "Ok" /\ UNCHANGED cwd
                            /\ tree' = IF Create(p, "file") = "Ok" THEN With(p, "file") ELSE tree
  BY <1>1, <1>3, <1>4, Zenon DEF WriteFile
<1>13. RemoveFile(arg) => \/ UNCHANGED <<tree, cwd>>
                          \/ p \in DOMAIN tree /\ OpenDir(p) # "Ok" /\ tree' = Without(p) /\ UNCHANGED cwd
  BY <1>1, <1>3, <1>4, Zenon DEF RemoveFile
<1> QED  BY <1>5, <1>6, <1>7, <1>8, <1>9, <1>10, <1>11, <1>12, <1>13

LEMMA TreeGood == TreeInv => CwdInTree
<1> SUFFICES ASSUME TreeInv PROVE CwdInTree
  OBVIOUS
<1>1. OpenDir(cwd) = "Ok"
  BY OpenIsDir DEF TreeInv
<1>2. ASSUME NEW p \in DOMAIN tree PROVE p # <<>> /\ ToSet(p) \subseteq Names /\ OpenDir(Front(p)) = "Ok"
  <2>1. p \in PathSeqs /\ p # <<>> /\ OpenDir(Front(p)) = "Ok"
    BY OpenIsDir DEF TreeInv, GoodTree
  <2>2. ToSet(p) \subseteq Names
    BY <2>1, LenProperties DEF ToSet, PathSeqs
  <2> QED  BY <2>1, <2>2
<1> QED  BY <1>1, <1>2 DEF CwdInTree

\* The volume stays a tree and the current directory stays in it: whatever calls are made
\* through whatever paths, every entry's parent is a directory and so is CWD, which no call looks
\* at again after chdir accepted it (mod.rs:159-171, 300-306, 366-393).
THEOREM CwdStaysInTree == TreeSpec => []CwdInTree
<1>1. TreeInit => TreeInv
  <2> SUFFICES ASSUME TreeInit PROVE TreeInv
    OBVIOUS
  <2>1. tree = << >> /\ cwd = <<>> /\ Len(<<>>) = 0 /\ DOMAIN << >> = {}
    BY DEF TreeInit
  <2>2. \A T : <<>> \in Seq(T)
    OBVIOUS
  <2>3. cwd \in PathSeqs
    BY <2>1, <2>2 DEF PathSeqs
  <2>4. GoodTree(tree)
    BY <2>1, Zenon DEF GoodTree
  <2>5. IsDirIn(tree, cwd)
    BY <2>1 DEF IsDirIn
  <2> QED  BY <2>3, <2>4, <2>5 DEF TreeInv
<1>2. TreeInv /\ [TreeNext]_treeVars => TreeInv'
  <2> SUFFICES ASSUME TreeInv, [TreeNext]_treeVars PROVE TreeInv'
    OBVIOUS
  <2>1. CASE \E arg \in PathArgs : Chdir(arg) \/ ReadAt(arg) \/ List(arg) \/ Mkdir(arg) \/ WriteFile(arg) \/ RemoveFile(arg)
    BY <2>1, TreeCalls
  <2>2. CASE Unmount \/ NoFs \/ UNCHANGED treeVars
    <3>1. UNCHANGED <<tree, cwd>>
      BY <2>2 DEF Unmount, NoFs, Fail, treeVars
    <3> QED  BY <3>1, TreeStays
  <2> QED  BY <2>1, <2>2 DEF TreeNext
<1> QED  BY <1>1, <1>2, TreeGood, PTL DEF TreeSpec

-----------------------------------------------------------------------------
(* Memory: every frame is accounted for.                                   *)

\* The allocator's counter is the number of its free bits.
GoodPmm(p) == p.used \subseteq Frames /\ p.FREE = Cardinality(Frames \ p.used)

\* From the allocator p and the tables t to the allocator q and the tables u: what was taken
\* from the allocator is in the tables, once.
Grows(p, t, q, u) ==
    /\ GoodPmm(q) /\ p.used \subseteq q.used /\ IsInjective(u)
    /\ Range(u) = Range(t) \cup (q.used \ p.used)

\* What create_table hands on.
IsMaking(a) == a = [p |-> a.p, ok |-> a.ok, tables |-> a.tables]

\* U falls into six parts.
Six(U, a, b, c, d, e, f) ==
    /\ U = a \cup b \cup c \cup d \cup e \cup f
    /\ a \cap b = {} /\ a \cap c = {} /\ a \cap d = {} /\ a \cap e = {} /\ a \cap f = {}
    /\ b \cap c = {} /\ b \cap d = {} /\ b \cap e = {} /\ b \cap f = {}
    /\ c \cap d = {} /\ c \cap e = {} /\ c \cap f = {}
    /\ d \cap e = {} /\ d \cap f = {} /\ e \cap f = {}

ImageFrames == UNION {FramesOf(i) : i \in images}
LoadFrames  == IF ldr.pc = "idle" THEN {} ELSE FramesOf(ldr)
DmaFrames   == UNION {Run(d.start, d.n) : d \in dma}

\* A load under way.
IsLoad(l) ==
    /\ l.pc # "idle" /\ FramesDiffer(l)
    /\ l = [pc |-> l.pc, l4 |-> l.l4, pages |-> l.pages, pts |-> l.pts, file |-> l.file, i |-> l.i, va |-> l.va, ok |-> l.ok]

PmmInv    == GoodPmm(Pmm) /\ Frames \ Usable \subseteq used
SplitInv  == Six(used \cap Usable, ImageFrames, LoadFrames, DmaFrames, Range(kmaps.tables), Run(heap, HEAP_FRAMES), lost)
LoadInv   == ldr = IdleLdr \/ IsLoad(ldr)
ImageInv  == /\ \A i \in images : FramesDiffer(i)
             /\ \A i, j \in images : i # j => FramesOf(i) \cap FramesOf(j) = {}
DmaInv    == \A c, d \in dma : c # d => Run(c.start, c.n) \cap Run(d.start, d.n) = {}
TablesInv == IsInjective(kmaps.tables)
RootInv   == cr3 \in {KERNEL_CR3} \cup {i.l4 : i \in images}
MemInv    == PmmInv /\ SplitInv /\ LoadInv /\ ImageInv /\ DmaInv /\ TablesInv /\ RootInv

LEMMA FrameFacts == Frames \subseteq Nat /\ IsFiniteSet(Frames) /\ NoFrame \notin Frames /\ MAX_FRAMES \in Nat
<1>1. MAX_FRAMES \in Nat
  BY MemoryConstants
<1>2. Frames \subseteq Nat /\ NoFrame \notin Frames
  BY <1>1 DEF Frames, NoFrame
<1>3. IsFiniteSet(Frames)
  BY <1>1, FS_Interval DEF Frames
<1> QED  BY <1>1, <1>2, <1>3

LEMMA RunFacts ==
    ASSUME NEW f \in Nat, NEW n \in Nat
    PROVE  /\ IsFiniteSet(Run(f, n)) /\ Cardinality(Run(f, n)) = n /\ (n # 0 => f \in Run(f, n))
           /\ (f + n <= MAX_FRAMES => Run(f, n) \subseteq Frames)
<1>1. f \in Int /\ f + n - 1 \in Int /\ MAX_FRAMES \in Nat
  BY FrameFacts
<1>2. IsFiniteSet(Run(f, n)) /\ Cardinality(Run(f, n)) = n
  <2>1. PICK b \in Int : b = f + n - 1
    BY <1>1
  <2>2. IsFiniteSet(f .. b) /\ Cardinality(f .. b) = IF f > b THEN 0 ELSE b - f + 1
    BY <1>1, FS_Interval
  <2>3. Run(f, n) = f .. b
    BY <2>1 DEF Run
  <2>4. (IF f > b THEN 0 ELSE b - f + 1) = n
    BY <2>1
  <2> QED  BY <2>2, <2>3, <2>4
<1>3. n # 0 => f \in Run(f, n)
  BY DEF Run
<1>4. f + n <= MAX_FRAMES => Run(f, n) \subseteq Frames
  BY <1>1 DEF Run, Frames
<1> QED  BY <1>2, <1>3, <1>4

LEMMA RunOne == \A f \in Nat : Run(f, 1) = {f}
BY DEF Run

\* Frames taken, and frames given back.
LEMMA CountTaken ==
    ASSUME NEW u \in SUBSET Frames, NEW F \in SUBSET Frames, F \cap u = {}
    PROVE  Cardinality(Frames \ (u \cup F)) = Cardinality(Frames \ u) - Cardinality(F)
<1>1. IsFiniteSet(Frames \ u)
  BY FrameFacts, FS_Difference
<1>2. Cardinality((Frames \ u) \ F) = Cardinality(Frames \ u) - Cardinality((Frames \ u) \cap F)
  BY <1>1, FS_Difference
<1>3. (Frames \ u) \ F = Frames \ (u \cup F) /\ (Frames \ u) \cap F = F
  OBVIOUS
<1> QED  BY <1>2, <1>3

LEMMA CountGiven ==
    ASSUME NEW u \in SUBSET Frames, NEW F
    PROVE  Cardinality(Frames \ (u \ F)) = Cardinality(Frames \ u) + Cardinality(F \cap u)
<1>1. IsFiniteSet(Frames \ u) /\ IsFiniteSet(F \cap u)
  <2>1. F \cap u \in SUBSET Frames
    OBVIOUS
  <2> QED  BY <2>1, FrameFacts, FS_Difference, FS_Subset
<1>2. Cardinality((Frames \ u) \cup (F \cap u)) =
          Cardinality(Frames \ u) + Cardinality(F \cap u) - Cardinality((Frames \ u) \cap (F \cap u))
  BY <1>1, FS_Union
<1>3. (Frames \ u) \cup (F \cap u) = Frames \ (u \ F) /\ (Frames \ u) \cap (F \cap u) = {}
  OBVIOUS
<1>4. Cardinality({}) = 0
  BY FS_EmptySet
<1>5. Cardinality(Frames \ u) \in Nat /\ Cardinality(F \cap u) \in Nat
  BY <1>1, FS_CardinalityType
<1>6. PICK k, n \in Nat : k = Cardinality(Frames \ u) /\ n = Cardinality(F \cap u)
  BY <1>5
<1>7. Cardinality(Frames \ (u \ F)) = k + n - 0
  BY <1>2, <1>3, <1>4, <1>6
<1>8. k + n - 0 = k + n
  OBVIOUS
<1> QED  BY <1>6, <1>7, <1>8

LEMMA AllocRun ==
    ASSUME NEW p, GoodPmm(p), NEW n \in Nat \ {0}, NEW r, r = alloc_contiguous(p, n)
    PROVE  \/ r.frame = NoFrame /\ r.p = p
           \/ /\ r.frame \in Frames /\ r.frame + n <= MAX_FRAMES /\ Run(r.frame, n) \subseteq Frames
              /\ Run(r.frame, n) \cap p.used = {}
              /\ GoodPmm(r.p) /\ r.p.used = p.used \cup Run(r.frame, n)
<1> DEFINE fits == {f \in Frames : f + n <= MAX_FRAMES /\ Run(f, n) \cap p.used = {}}
<1>1. CASE fits = {}
  BY <1>1 DEF alloc_contiguous
<1>2. CASE fits # {}
  <2>1. fits \in SUBSET Nat
    BY FrameFacts
  <2>2. PICK m : m = Min(fits)
    OBVIOUS
  <2>3. m \in fits
    <3> HIDE DEF fits
    <3> QED  BY <1>2, <2>1, <2>2, MinIn
  <2>4. r = [p |-> [used |-> p.used \cup Run(m, n), FREE |-> p.FREE - n], frame |-> m]
    BY <1>2, <2>2 DEF alloc_contiguous
  <2>5. m \in Frames /\ m \in Nat /\ m + n <= MAX_FRAMES /\ Run(m, n) \cap p.used = {}
    BY <2>3, FrameFacts
  <2> HIDE DEF fits
  <2>6. Run(m, n) \subseteq Frames /\ Cardinality(Run(m, n)) = n
    BY <2>5, RunFacts
  <2>7. p.used \in SUBSET Frames /\ Run(m, n) \in SUBSET Frames /\ p.FREE = Cardinality(Frames \ p.used)
    BY <2>6 DEF GoodPmm
  <2>8. Cardinality(Frames \ (p.used \cup Run(m, n))) = Cardinality(Frames \ p.used) - Cardinality(Run(m, n))
    BY <2>5, <2>7, CountTaken
  <2>9. r.frame = m /\ r.p.used = p.used \cup Run(m, n) /\ r.p.FREE = p.FREE - n
    BY <2>4
  <2>10. GoodPmm(r.p)
    BY <2>6, <2>7, <2>8, <2>9 DEF GoodPmm
  <2> QED  BY <2>5, <2>6, <2>9, <2>10
<1> QED  BY <1>1, <1>2

LEMMA AllocOne ==
    ASSUME NEW p, GoodPmm(p), NEW r, r = alloc(p)
    PROVE  \/ r.frame = NoFrame /\ r.p = p
           \/ /\ r.frame \in Frames \ p.used /\ r.frame # NoFrame
              /\ GoodPmm(r.p) /\ r.p.used = p.used \cup {r.frame}
<1>1. r = alloc_contiguous(p, 1) /\ 1 \in Nat \ {0}
  BY DEF alloc
<1>2. \/ r.frame = NoFrame /\ r.p = p
      \/ /\ r.frame \in Frames /\ Run(r.frame, 1) \cap p.used = {}
         /\ GoodPmm(r.p) /\ r.p.used = p.used \cup Run(r.frame, 1)
  BY <1>1, AllocRun
<1>3. r.frame \in Frames => Run(r.frame, 1) = {r.frame} /\ r.frame # NoFrame
  BY FrameFacts, RunOne
<1> QED  BY <1>2, <1>3

LEMMA FreeRun ==
    ASSUME NEW p, GoodPmm(p), NEW start, NEW n, NEW q, q = free_contiguous(p, start, n)
    PROVE  GoodPmm(q) /\ q.used = p.used \ Run(start, n)
<1>1. q = [used |-> p.used \ (Run(start, n) \cap p.used), FREE |-> p.FREE + Cardinality(Run(start, n) \cap p.used)]
  BY DEF free_contiguous
<1>2. p.used \in SUBSET Frames /\ p.FREE = Cardinality(Frames \ p.used)
  BY DEF GoodPmm
<1>3. p.used \ (Run(start, n) \cap p.used) = p.used \ Run(start, n)
  OBVIOUS
<1>4. Cardinality(Frames \ (p.used \ Run(start, n))) = Cardinality(Frames \ p.used) + Cardinality(Run(start, n) \cap p.used)
  BY <1>2, CountGiven
<1>5. q.used = p.used \ Run(start, n) /\ q.FREE = p.FREE + Cardinality(Run(start, n) \cap p.used)
  BY <1>1, <1>3
<1> QED  BY <1>2, <1>4, <1>5 DEF GoodPmm

LEMMA FreeSet ==
    ASSUME NEW p, GoodPmm(p), NEW F, NEW q, q = FreeAll(p, F)
    PROVE  GoodPmm(q) /\ q.used = p.used \ F
<1>1. q.used = p.used \ F /\ q.FREE = p.FREE + Cardinality(F \cap p.used)
  BY DEF FreeAll
<1>2. p.used \in SUBSET Frames /\ p.FREE = Cardinality(Frames \ p.used)
  BY DEF GoodPmm
<1>3. Cardinality(Frames \ (p.used \ F)) = Cardinality(Frames \ p.used) + Cardinality(F \cap p.used)
  BY <1>2, CountGiven
<1> QED  BY <1>1, <1>2, <1>3 DEF GoodPmm

LEMMA GrowsNot ==
    ASSUME NEW p, GoodPmm(p), NEW t, IsInjective(t)
    PROVE  Grows(p, t, p, t)
BY DEF Grows

LEMMA GrowsOn ==
    ASSUME NEW p, NEW t, NEW q, NEW u, NEW r, NEW v, Grows(p, t, q, u), Grows(q, u, r, v)
    PROVE  Grows(p, t, r, v)
BY DEF Grows

\* A function with one more entry.
LEMMA AddEntry ==
    ASSUME NEW f, IsInjective(f), NEW k, k \notin DOMAIN f, NEW x, x \notin Range(f), NEW g,
           g = [j \in DOMAIN f \cup {k} |-> IF j = k THEN x ELSE f[j]]
    PROVE  IsInjective(g) /\ Range(g) = Range(f) \cup {x} /\ DOMAIN g = DOMAIN f \cup {k}
<1>1. DOMAIN g = DOMAIN f \cup {k} /\ g[k] = x /\ \A j \in DOMAIN f : g[j] = f[j]
  OBVIOUS
<1>2. Range(g) = Range(f) \cup {x}
  BY <1>1 DEF Range
<1>3. IsInjective(g)
  BY <1>1 DEF IsInjective, Range
<1> QED  BY <1>1, <1>2, <1>3

LEMMA CreateGrows ==
    ASSUME NEW a, IsMaking(a), GoodPmm(a.p), IsInjective(a.tables), Range(a.tables) \subseteq a.p.used, NEW t,
           NEW b, b = create_table(a, t)
    PROVE  IsMaking(b) /\ Grows(a.p, a.tables, b.p, b.tables) /\ Range(b.tables) \subseteq b.p.used
<1>1. CASE ~a.ok \/ t \in DOMAIN a.tables
  <2>1. b = a
    BY <1>1 DEF create_table
  <2> QED  BY <2>1, GrowsNot
<1>2. CASE ~(~a.ok \/ t \in DOMAIN a.tables)
  <2>1. PICK r : r = alloc(a.p)
    OBVIOUS
  <2>2. b = IF r.frame = NoFrame THEN [a EXCEPT !.ok = FALSE]
            ELSE [p |-> r.p, ok |-> TRUE,
                  tables |-> [k \in DOMAIN a.tables \cup {t} |-> IF k = t THEN r.frame ELSE a.tables[k]]]
    BY <1>2, <2>1 DEF create_table
  <2>3. CASE r.frame = NoFrame
    <3>1. b.p = a.p /\ b.tables = a.tables /\ IsMaking(b)
      BY <2>2, <2>3 DEF IsMaking
    <3> QED  BY <3>1, GrowsNot
  <2>4. CASE r.frame # NoFrame
    <3>1. r.frame \in Frames \ a.p.used /\ GoodPmm(r.p) /\ r.p.used = a.p.used \cup {r.frame}
      BY <2>1, <2>4, AllocOne
    <3>2. PICK g : g = [k \in DOMAIN a.tables \cup {t} |-> IF k = t THEN r.frame ELSE a.tables[k]]
      OBVIOUS
    <3>3. r.frame \notin Range(a.tables) /\ t \notin DOMAIN a.tables
      BY <1>2, <3>1
    <3>4. IsInjective(g) /\ Range(g) = Range(a.tables) \cup {r.frame}
      BY <3>2, <3>3, AddEntry
    <3>5. b = [p |-> r.p, ok |-> TRUE, tables |-> g]
      BY <2>2, <2>4, <3>2
    <3>6. b.p = r.p /\ b.tables = g /\ IsMaking(b)
      BY <3>5 DEF IsMaking
    <3> QED  BY <3>1, <3>4, <3>6 DEF Grows
  <2> QED  BY <2>3, <2>4
<1> QED  BY <1>1, <1>2

LEMMA MapToGrows ==
    ASSUME NEW p, GoodPmm(p), NEW t, IsInjective(t), Range(t) \subseteq p.used, NEW mapped, NEW page,
           NEW m, m = map_to(p, t, mapped, page)
    PROVE  Grows(p, t, m.p, m.tables) /\ (m.ok => page \notin mapped) /\ Range(m.tables) \subseteq m.p.used
<1>1. PICK s : s = TablesFor(page)
  OBVIOUS
<1>2. PICK a : a = [p |-> p, ok |-> TRUE, tables |-> t]
  OBVIOUS
<1>3. IsMaking(a) /\ a.p = p /\ a.tables = t
  BY <1>2 DEF IsMaking
<1>4. PICK b : b = create_table(a, s[1])
  OBVIOUS
<1>5. IsMaking(b) /\ Grows(a.p, a.tables, b.p, b.tables) /\ Range(b.tables) \subseteq b.p.used
  BY <1>3, <1>4, CreateGrows
<1>6. GoodPmm(b.p) /\ IsInjective(b.tables)
  BY <1>5 DEF Grows
<1>7. PICK c : c = create_table(b, s[2])
  OBVIOUS
<1>8. IsMaking(c) /\ Grows(b.p, b.tables, c.p, c.tables) /\ Range(c.tables) \subseteq c.p.used
  BY <1>5, <1>6, <1>7, CreateGrows
<1>9. GoodPmm(c.p) /\ IsInjective(c.tables)
  BY <1>8 DEF Grows
<1>10. PICK d : d = create_table(c, s[3])
  OBVIOUS
<1>11. IsMaking(d) /\ Grows(c.p, c.tables, d.p, d.tables) /\ Range(d.tables) \subseteq d.p.used
  BY <1>8, <1>9, <1>10, CreateGrows
<1>12. m = [d EXCEPT !.ok = @ /\ page \notin mapped]
  BY <1>1, <1>2, <1>4, <1>7, <1>10 DEF map_to
<1>13. m.p = d.p /\ m.tables = d.tables /\ m.ok = (d.ok /\ page \notin mapped)
  BY <1>11, <1>12 DEF IsMaking
<1>14. Grows(p, t, c.p, c.tables)
  BY <1>3, <1>5, <1>8, GrowsOn
<1>15. Grows(p, t, d.p, d.tables)
  BY <1>11, <1>14, GrowsOn
<1> QED  BY <1>11, <1>13, <1>15

\* Frames are added to a part, taken away from one, or change from one part to another.
LEMMA SixAdd ==
    ASSUME NEW U, NEW a, NEW b, NEW c, NEW d, NEW e, NEW f, Six(U, a, b, c, d, e, f), NEW F, F \cap U = {}
    PROVE  /\ Six(U \cup F, a, b \cup F, c, d, e, f) /\ Six(U \cup F, a, b, c \cup F, d, e, f)
           /\ Six(U \cup F, a, b, c, d \cup F, e, f) /\ Six(U \cup F, a, b, c, d, e, f \cup F)
BY DEF Six

LEMMA SixDropFirst ==
    ASSUME NEW U, NEW a, NEW b, NEW c, NEW d, NEW e, NEW f, Six(U, a, b, c, d, e, f), NEW F, F \subseteq a
    PROVE  Six(U \ F, a \ F, b, c, d, e, f) /\ F \subseteq U
BY DEF Six

LEMMA SixDropSecond ==
    ASSUME NEW U, NEW a, NEW b, NEW c, NEW d, NEW e, NEW f, Six(U, a, b, c, d, e, f), NEW F, F \subseteq b
    PROVE  Six(U \ F, a, b \ F, c, d, e, f) /\ F \subseteq U
BY DEF Six

LEMMA SixDropThird ==
    ASSUME NEW U, NEW a, NEW b, NEW c, NEW d, NEW e, NEW f, Six(U, a, b, c, d, e, f), NEW F, F \subseteq c
    PROVE  Six(U \ F, a, b, c \ F, d, e, f) /\ F \subseteq U
BY DEF Six

LEMMA SixMove ==
    ASSUME NEW U, NEW a, NEW b, NEW c, NEW d, NEW e, NEW f, Six(U, a, b, c, d, e, f)
    PROVE  Six(U, a \cup b, {}, c, d, e, f)
BY DEF Six

\* What an allocation from free frames, and a release, does to the usable frames in use.
LEMMA UsableTaken ==
    ASSUME PmmInv, NEW F \in SUBSET Frames, F \cap used = {}
    PROVE  /\ (used \cup F) \cap Usable = (used \cap Usable) \cup F /\ F \cap (used \cap Usable) = {}
           /\ Frames \ Usable \subseteq used \cup F
BY DEF PmmInv

LEMMA UsableGiven ==
    ASSUME PmmInv, NEW F, F \subseteq used \cap Usable
    PROVE  (used \ F) \cap Usable = (used \cap Usable) \ F /\ Frames \ Usable \subseteq used \ F
BY DEF PmmInv

LEMMA PmmFields == Pmm.used = used /\ Pmm.FREE = FREE
BY DEF Pmm

LEMMA SetGood ==
    ASSUME NEW p, GoodPmm(p), SetPmm(p), Frames \ Usable \subseteq p.used
    PROVE  PmmInv' /\ used' = p.used
<1>1. used' = p.used /\ FREE' = p.FREE
  BY DEF SetPmm
<1>2. Pmm' = [used |-> p.used, FREE |-> p.FREE]
  BY <1>1 DEF Pmm
<1>3. GoodPmm(Pmm')
  BY <1>2 DEF GoodPmm
<1>4. GoodPmm(Pmm)'
  BY <1>3 DEF GoodPmm
<1> QED  BY <1>1, <1>4 DEF PmmInv

\* The load ends: its frames are free again.
LEMMA LoadEnds ==
    ASSUME MemInv, ldr.pc # "idle", NEW p, GoodPmm(p), p.used = used \ FramesOf(ldr), SetPmm(p), ldr' = IdleLdr,
           UNCHANGED <<heap, images, cr3, kmaps, dma, lost>>
    PROVE  MemInv'
<1>0. PmmInv /\ SplitInv /\ LoadInv /\ ImageInv /\ DmaInv /\ TablesInv /\ RootInv
  BY DEF MemInv
<1>1. LoadFrames = FramesOf(ldr) /\ LoadFrames' = {}
  BY DEF LoadFrames, IdleLdr
<1>2. PICK F : F = FramesOf(ldr)
  OBVIOUS
<1>3. Six(used \cap Usable, ImageFrames, F, DmaFrames, Range(kmaps.tables), Run(heap, HEAP_FRAMES), lost)
  BY <1>0, <1>1, <1>2 DEF SplitInv
<1>4. /\ Six((used \cap Usable) \ F, ImageFrames, F \ F, DmaFrames, Range(kmaps.tables), Run(heap, HEAP_FRAMES), lost)
      /\ F \subseteq used \cap Usable
  <2>1. F \subseteq F
    OBVIOUS
  <2> QED  BY <1>3, <2>1, SixDropSecond
<1>5. (used \ F) \cap Usable = (used \cap Usable) \ F /\ Frames \ Usable \subseteq used \ F
  BY <1>0, <1>4, UsableGiven
<1>6. PmmInv' /\ used' = used \ F
  BY <1>2, <1>5, SetGood
<1>7. ImageFrames' = ImageFrames /\ DmaFrames' = DmaFrames /\ F \ F = {}
  BY DEF ImageFrames, DmaFrames, FramesOf
<1>8. SplitInv'
  BY <1>1, <1>4, <1>5, <1>6, <1>7 DEF SplitInv, Usable
<1>9. LoadInv'
  BY DEF LoadInv
<1>10. ImageInv' /\ DmaInv' /\ TablesInv' /\ RootInv'
  BY <1>0 DEF ImageInv, DmaInv, TablesInv, RootInv
<1> QED  BY <1>6, <1>8, <1>9, <1>10 DEF MemInv

\* The load goes on: it may have taken frames.
LEMMA LoadGoes ==
    ASSUME MemInv, ldr.pc # "idle", NEW F \in SUBSET Frames, F \cap used = {}, NEW p, GoodPmm(p), p.used = used \cup F, SetPmm(p),
           IsLoad(ldr'), FramesOf(ldr)' = FramesOf(ldr) \cup F, UNCHANGED <<heap, images, cr3, kmaps, dma, lost>>
    PROVE  MemInv'
<1>0. PmmInv /\ SplitInv /\ LoadInv /\ ImageInv /\ DmaInv /\ TablesInv /\ RootInv
  BY DEF MemInv
<1>1. LoadFrames = FramesOf(ldr) /\ LoadFrames' = FramesOf(ldr) \cup F
  BY DEF LoadFrames, IsLoad
<1>2. /\ (used \cup F) \cap Usable = (used \cap Usable) \cup F /\ F \cap (used \cap Usable) = {}
      /\ Frames \ Usable \subseteq used \cup F
  BY <1>0, UsableTaken
<1>3. Six(used \cap Usable, ImageFrames, LoadFrames, DmaFrames, Range(kmaps.tables), Run(heap, HEAP_FRAMES), lost)
  BY <1>0 DEF SplitInv
<1>4. Six((used \cap Usable) \cup F, ImageFrames, LoadFrames \cup F, DmaFrames, Range(kmaps.tables), Run(heap, HEAP_FRAMES), lost)
  BY <1>2, <1>3, SixAdd
<1>5. PmmInv' /\ used' = used \cup F
  BY <1>2, SetGood
<1>6. ImageFrames' = ImageFrames /\ DmaFrames' = DmaFrames
  BY DEF ImageFrames, DmaFrames, FramesOf
<1>7. SplitInv'
  BY <1>1, <1>2, <1>4, <1>5, <1>6 DEF SplitInv, Usable
<1>8. LoadInv'
  BY DEF LoadInv
<1>9. ImageInv' /\ DmaInv' /\ TablesInv' /\ RootInv'
  BY <1>0 DEF ImageInv, DmaInv, TablesInv, RootInv
<1> QED  BY <1>5, <1>7, <1>8, <1>9 DEF MemInv

\* fail and Abort.
LEMMA AbortEnds ==
    ASSUME MemInv, ldr.pc # "idle", Abort(Pmm, ldr), UNCHANGED <<heap, images, cr3, kmaps, dma, lost>>
    PROVE  MemInv'
<1>1. PICK q : q = FreeAll(Pmm, FramesOf(ldr))
  OBVIOUS
<1>2. SetPmm(q) /\ ldr' = IdleLdr
  BY <1>1 DEF Abort, fail
<1>3. GoodPmm(q) /\ q.used = used \ FramesOf(ldr)
  BY <1>1, FreeSet, PmmFields DEF MemInv, PmmInv
<1> QED  BY <1>2, <1>3, LoadEnds

\* The load goes on without a frame.
LEMMA QuietLoad ==
    ASSUME MemInv, ldr.pc # "idle", IsLoad(ldr'), ldr'.l4 = ldr.l4, ldr'.pages = ldr.pages, ldr'.pts = ldr.pts,
           UNCHANGED <<used, FREE, heap, images, cr3, kmaps, dma, lost>>
    PROVE  MemInv'
<1>1. FramesOf(ldr)' = FramesOf(ldr) \cup {}
  BY DEF FramesOf
<1>2. SetPmm(Pmm) /\ GoodPmm(Pmm) /\ Pmm.used = used \cup {}
  BY PmmFields DEF SetPmm, MemInv, PmmInv
<1>3. {} \in SUBSET Frames /\ {} \cap used = {}
  OBVIOUS
<1> QED  BY <1>1, <1>2, <1>3, LoadGoes

LEMMA FramesAre == \A i : FramesOf(i) = {i.l4} \cup Range(i.pages) \cup Range(i.pts)
BY DEF FramesOf, Range

LEMMA MapPageStep ==
    ASSUME MemInv, ldr.pc # "idle", NEW short \in BOOLEAN, NEW v, MapPage(short, [ldr EXCEPT !.va = v]),
           UNCHANGED <<heap, images, cr3, kmaps, dma, lost>>
    PROVE  MemInv'
<1>0. PmmInv /\ SplitInv /\ IsLoad(ldr) /\ GoodPmm(Pmm)
  BY DEF MemInv, LoadInv, IdleLdr, PmmInv
<1>1. FramesOf(ldr) \subseteq used /\ Range(ldr.pts) \subseteq used /\ Range(ldr.pages) \subseteq used /\ ldr.l4 \in used
  BY <1>0, FramesAre DEF SplitInv, Six, LoadFrames
<1>2. PICK f : f = alloc(Pmm)
  OBVIOUS
<1>3. PICK m : m = map_user_in(f.p, ldr.pts, DOMAIN ldr.pages, ldr.va)
  OBVIOUS
<1>4. PICK page : page = Page(ldr.va)
  OBVIOUS
<1>5. CASE f.frame = NoFrame
  <2>1. Abort(Pmm, ldr)
    BY <1>2, <1>5 DEF MapPage
  <2> QED  BY <2>1, AbortEnds
<1>6. CASE f.frame # NoFrame
  <2>1. f.frame \in Frames \ used /\ GoodPmm(f.p) /\ f.p.used = used \cup {f.frame} /\ f.frame \in Nat
    BY <1>0, <1>2, <1>6, AllocOne, PmmFields, FrameFacts
  <2>2. Range(ldr.pts) \subseteq f.p.used /\ IsInjective(ldr.pts)
    BY <1>0, <1>1, <2>1 DEF IsLoad, FramesDiffer
  <2>3. Grows(f.p, ldr.pts, m.p, m.tables) /\ (m.ok => page \notin DOMAIN ldr.pages)
    <3>1. CASE ldr.va >= USER_CANON_MAX \/ ldr.va % FRAME_SIZE # 0
      <4>1. m = [p |-> f.p, ok |-> FALSE, tables |-> ldr.pts]
        BY <1>3, <3>1 DEF map_user_in
      <4>2. m.p = f.p /\ ~m.ok /\ m.tables = ldr.pts
        BY <4>1
      <4> QED  BY <2>1, <2>2, <4>2, GrowsNot
    <3>2. CASE ~(ldr.va >= USER_CANON_MAX \/ ldr.va % FRAME_SIZE # 0)
      <4>1. m = map_to(f.p, ldr.pts, DOMAIN ldr.pages, page)
        BY <1>3, <1>4, <3>2 DEF map_user_in
      <4> QED  BY <2>1, <2>2, <4>1, MapToGrows
    <3> QED  BY <3>1, <3>2
  <2>4. PICK G : G = m.p.used \ f.p.used
    OBVIOUS
  <2>5. /\ GoodPmm(m.p) /\ IsInjective(m.tables) /\ Range(m.tables) = Range(ldr.pts) \cup G
        /\ m.p.used = used \cup {f.frame} \cup G /\ G \cap used = {} /\ f.frame \notin G /\ G \subseteq Frames
    BY <2>1, <2>3, <2>4 DEF Grows, GoodPmm
  <2>6. CASE short
    <3>1. PICK q : q = pmm_free(f.p, f.frame)
      OBVIOUS
    <3>2. GoodPmm(q) /\ q.used = f.p.used \ {f.frame}
      BY <2>1, <3>1, FreeRun, RunOne DEF pmm_free
    <3>3. q.used = used
      BY <2>1, <3>2
    <3>4. Abort(q, ldr)
      BY <1>2, <1>6, <2>6, <3>1 DEF MapPage
    <3>5. PICK r : r = FreeAll(q, FramesOf(ldr))
      OBVIOUS
    <3>6. GoodPmm(r) /\ r.used = used \ FramesOf(ldr) /\ SetPmm(r) /\ ldr' = IdleLdr
      BY <3>2, <3>3, <3>4, <3>5, FreeSet DEF Abort, fail
    <3> QED  BY <3>6, LoadEnds
  <2>7. CASE ~short /\ ~m.ok
    <3>1. PICK q : q = pmm_free(m.p, f.frame)
      OBVIOUS
    <3>2. GoodPmm(q) /\ q.used = m.p.used \ {f.frame}
      BY <2>1, <2>5, <3>1, FreeRun, RunOne DEF pmm_free
    <3>3. PICK l : l = [ldr EXCEPT !.pts = m.tables]
      OBVIOUS
    <3>4. Abort(q, l)
      BY <1>2, <1>3, <1>6, <2>7, <3>1, <3>3 DEF MapPage
    <3>5. l.l4 = ldr.l4 /\ l.pages = ldr.pages /\ l.pts = m.tables
      BY <1>0, <3>3 DEF IsLoad
    <3>6. FramesOf(l) = FramesOf(ldr) \cup G
      BY <2>5, <3>5, FramesAre
    <3>7. PICK r : r = FreeAll(q, FramesOf(l))
      OBVIOUS
    <3>8. GoodPmm(r) /\ r.used = q.used \ FramesOf(l) /\ SetPmm(r) /\ ldr' = IdleLdr
      BY <3>2, <3>4, <3>7, FreeSet DEF Abort, fail
    <3>9. r.used = used \ FramesOf(ldr)
      BY <2>1, <2>5, <3>2, <3>6, <3>8
    <3> QED  BY <3>8, <3>9, LoadEnds
  <2>8. CASE ~short /\ m.ok
    <3>1. PICK g : g = [k \in DOMAIN ldr.pages \cup {page} |-> IF k = page THEN f.frame ELSE ldr.pages[k]]
      OBVIOUS
    <3>2. SetPmm(m.p) /\ ldr' = [[ldr EXCEPT !.va = v] EXCEPT !.pts = m.tables, !.pages = g]
      BY <1>2, <1>3, <1>4, <1>6, <2>8, <3>1 DEF MapPage
    <3>3. ldr' = [pc |-> ldr.pc, l4 |-> ldr.l4, pages |-> g, pts |-> m.tables, file |-> ldr.file, i |-> ldr.i, va |-> v, ok |-> ldr.ok]
      BY <1>0, <3>2 DEF IsLoad
    <3>4. IsInjective(ldr.pages) /\ Range(ldr.pages) \cap Range(ldr.pts) = {} /\ ldr.l4 \notin Range(ldr.pages) \cup Range(ldr.pts)
      BY <1>0 DEF IsLoad, FramesDiffer
    <3>5. f.frame \notin Range(ldr.pages) /\ page \notin DOMAIN ldr.pages
      BY <1>1, <2>1, <2>3, <2>8
    <3>6. IsInjective(g) /\ Range(g) = Range(ldr.pages) \cup {f.frame}
      BY <3>1, <3>4, <3>5, AddEntry
    <3>7. ldr'.pages = g /\ ldr'.pts = m.tables /\ ldr'.l4 = ldr.l4 /\ ldr'.pc # "idle"
      BY <3>3
    <3>8. FramesDiffer(ldr')
      BY <1>1, <2>1, <2>5, <3>4, <3>6, <3>7 DEF FramesDiffer
    <3>9. IsLoad(ldr')
      BY <3>3, <3>7, <3>8 DEF IsLoad
    <3>10. FramesOf(ldr') = FramesOf(ldr) \cup ({f.frame} \cup G)
      BY <2>5, <3>6, <3>7, FramesAre
    <3>11. FramesOf(ldr)' = FramesOf(ldr) \cup ({f.frame} \cup G)
      BY <3>10 DEF FramesOf
    <3>12. {f.frame} \cup G \in SUBSET Frames /\ ({f.frame} \cup G) \cap used = {} /\ m.p.used = used \cup ({f.frame} \cup G)
      BY <2>1, <2>5
    <3> QED  BY <2>5, <3>2, <3>9, <3>11, <3>12, LoadGoes
  <2> QED  BY <2>6, <2>7, <2>8
<1> QED  BY <1>5, <1>6

\* The load at another place, with the frames it has.
LoadAt(pc, i, va, ok) ==
    [pc |-> pc, l4 |-> ldr.l4, pages |-> ldr.pages, pts |-> ldr.pts, file |-> ldr.file, i |-> i, va |-> va, ok |-> ok]

LEMMA LoadMoves ==
    ASSUME MemInv, IsLoad(ldr), NEW pc, NEW i, NEW va, NEW ok, pc # "idle", ldr' = LoadAt(pc, i, va, ok), UNCHANGED <<used, FREE>>,
           UNCHANGED <<heap, images, cr3, kmaps, dma, lost>>
    PROVE  MemInv'
<1>1. ldr'.l4 = ldr.l4 /\ ldr'.pages = ldr.pages /\ ldr'.pts = ldr.pts /\ ldr'.pc # "idle"
  BY DEF LoadAt
<1>2. FramesDiffer(ldr')
  BY <1>1 DEF IsLoad, FramesDiffer
<1>3. IsLoad(ldr')
  BY <1>1, <1>2 DEF IsLoad, LoadAt
<1>4. UNCHANGED <<used, FREE, heap, images, cr3, kmaps, dma, lost>> /\ ldr.pc # "idle"
  BY DEF IsLoad
<1> QED  BY <1>1, <1>3, <1>4, QuietLoad

\* The steps of the loader.
LEMMA LoaderStep ==
    ASSUME MemInv, Segment \/ map_segment \/ EndSegments \/ map_stack
    PROVE  MemInv'
<1>0. LoadInv
  BY DEF MemInv
<1>1. ldr.pc # "idle" /\ UNCHANGED <<heap, images, cr3, kmaps, dma, lost>>
  BY DEF Segment, map_segment, EndSegments, map_stack
<1>2. IsLoad(ldr)
  BY <1>0, <1>1 DEF LoadInv, IdleLdr
<1>3. CASE Abort(Pmm, ldr)
  BY <1>1, <1>3, AbortEnds
<1>4. CASE \E short \in BOOLEAN : MapPage(short, [ldr EXCEPT !.va = @ + FRAME_SIZE])
  <2>1. PICK short \in BOOLEAN : MapPage(short, [ldr EXCEPT !.va = @ + FRAME_SIZE])
    BY <1>4
  <2>2. [ldr EXCEPT !.va = @ + FRAME_SIZE] = [ldr EXCEPT !.va = ldr.va + FRAME_SIZE]
    BY <1>2 DEF IsLoad
  <2>3. PICK v : v = ldr.va + FRAME_SIZE
    OBVIOUS
  <2>4. MapPage(short, [ldr EXCEPT !.va = v])
    BY <2>1, <2>2, <2>3
  <2> QED  BY <1>1, <2>4, MapPageStep
<1>6. CASE Segment
  <2>1. \/ Abort(Pmm, ldr)
        \/ ldr' = [ldr EXCEPT !.i = ldr.i + 1] /\ UNCHANGED <<used, FREE>>
        \/ /\ ldr' = [ldr EXCEPT !.pc = "page", !.ok = TRUE, !.va = Page(ldr.file.phdrs[ldr.i].vaddr) * FRAME_SIZE]
           /\ UNCHANGED <<used, FREE>>
    BY <1>6, <1>2 DEF Segment, IsLoad
  <2>2. CASE ldr' = [ldr EXCEPT !.i = ldr.i + 1] /\ UNCHANGED <<used, FREE>>
    <3>1. ldr' = LoadAt(ldr.pc, ldr.i + 1, ldr.va, ldr.ok)
      BY <1>2, <2>2 DEF IsLoad, LoadAt
    <3> QED  BY <1>1, <1>2, <2>2, <3>1, LoadMoves
  <2>3. CASE /\ ldr' = [ldr EXCEPT !.pc = "page", !.ok = TRUE, !.va = Page(ldr.file.phdrs[ldr.i].vaddr) * FRAME_SIZE]
             /\ UNCHANGED <<used, FREE>>
    <3>1. PICK va : va = Page(ldr.file.phdrs[ldr.i].vaddr) * FRAME_SIZE
      OBVIOUS
    <3>2. ldr' = LoadAt("page", ldr.i, va, TRUE)
      BY <1>2, <2>3, <3>1 DEF IsLoad, LoadAt
    <3> QED  BY <1>1, <1>2, <2>3, <3>2, LoadMoves
  <2> QED  BY <1>3, <2>1, <2>2, <2>3
<1>7. CASE map_segment
  <2>1. \/ \E short \in BOOLEAN : MapPage(short, [ldr EXCEPT !.va = @ + FRAME_SIZE])
        \/ ldr' = [ldr EXCEPT !.pc = "phdr", !.i = @ + 1] /\ UNCHANGED <<used, FREE>>
    <3> DEFINE ph == ldr.file.phdrs[ldr.i]
               lo == IF ph.vaddr > ldr.va THEN ph.vaddr ELSE ldr.va
               hi == Min({ph.vaddr + ph.filesz, ldr.va + FRAME_SIZE})
               short == lo < hi /\ ph.offset + (hi - ph.vaddr) > ldr.file.bytes
    <3>1. IF ldr.va < ph.vaddr + ph.memsz THEN MapPage(short, [ldr EXCEPT !.va = @ + FRAME_SIZE])
          ELSE ldr' = [ldr EXCEPT !.pc = "phdr", !.i = @ + 1] /\ UNCHANGED <<used, FREE>>
      BY <1>7, Zenon DEF map_segment
    <3>2. short \in BOOLEAN
      OBVIOUS
    <3> HIDE DEF short, ph
    <3> QED  BY <3>1, <3>2
  <2>2. CASE ldr' = [ldr EXCEPT !.pc = "phdr", !.i = @ + 1] /\ UNCHANGED <<used, FREE>>
    <3>1. ldr' = LoadAt("phdr", ldr.i + 1, ldr.va, ldr.ok)
      BY <1>2, <2>2 DEF IsLoad, LoadAt
    <3> QED  BY <1>1, <1>2, <2>2, <3>1, LoadMoves
  <2> QED  BY <1>4, <2>1, <2>2
<1>8. CASE EndSegments
  <2>1. CASE ldr' = [ldr EXCEPT !.pc = "stack", !.va = USER_STACK_BASE] /\ UNCHANGED <<used, FREE>>
    <3>1. ldr' = LoadAt("stack", ldr.i, USER_STACK_BASE, ldr.ok)
      BY <1>2, <2>1 DEF IsLoad, LoadAt
    <3> QED  BY <1>1, <1>2, <2>1, <3>1, LoadMoves
  <2> QED  BY <1>3, <1>8, <2>1 DEF EndSegments
<1>9. CASE map_stack
  <2>1. MapPage(FALSE, [ldr EXCEPT !.va = @ + FRAME_SIZE])
    BY <1>9 DEF map_stack
  <2> QED  BY <1>4, <2>1
<1> QED  BY <1>6, <1>7, <1>8, <1>9

\* The load becomes an image, or is given up.
LEMMA SpawnStep ==
    ASSUME MemInv, NEW strs, Spawn(strs)
    PROVE  MemInv'
<1>0. PmmInv /\ SplitInv /\ LoadInv /\ ImageInv /\ DmaInv /\ TablesInv /\ RootInv
  BY DEF MemInv
<1>1. ldr.pc # "idle" /\ UNCHANGED <<heap, cr3, kmaps, dma, lost>> /\ IsLoad(ldr)
  BY <1>0 DEF Spawn, LoadInv, IdleLdr
<1>2. CASE Abort(Pmm, ldr) /\ UNCHANGED images
  BY <1>1, <1>2, AbortEnds
<1>3. CASE \E a : /\ images' = images \cup {[l4 |-> ldr.l4, pages |-> ldr.pages, pts |-> ldr.pts, argv |-> a]}
                  /\ ldr' = IdleLdr /\ UNCHANGED <<used, FREE>>
  <2>1. PICK a : /\ images' = images \cup {[l4 |-> ldr.l4, pages |-> ldr.pages, pts |-> ldr.pts, argv |-> a]}
                 /\ ldr' = IdleLdr /\ UNCHANGED <<used, FREE>>
    BY <1>3
  <2>2. PICK x : x = [l4 |-> ldr.l4, pages |-> ldr.pages, pts |-> ldr.pts, argv |-> a]
    OBVIOUS
  <2>3. x.l4 = ldr.l4 /\ x.pages = ldr.pages /\ x.pts = ldr.pts /\ images' = images \cup {x}
    BY <2>1, <2>2
  <2>4. FramesOf(x) = FramesOf(ldr) /\ FramesDiffer(x)
    BY <1>1, <2>3, FramesAre DEF IsLoad, FramesDiffer
  <2>5. PICK L : L = FramesOf(ldr)
    OBVIOUS
  <2>6. LoadFrames = L /\ LoadFrames' = {}
    BY <1>1, <2>1, <2>5 DEF LoadFrames, IdleLdr
  <2>7. ImageFrames' = ImageFrames \cup L
    <3>1. ImageFrames' = UNION {FramesOf(i) : i \in images'}
      BY DEF ImageFrames, FramesOf
    <3> QED  BY <2>3, <2>4, <2>5, <3>1 DEF ImageFrames
  <2>8. DmaFrames' = DmaFrames
    BY <1>1 DEF DmaFrames
  <2>9. Six(used \cap Usable, ImageFrames, L, DmaFrames, Range(kmaps.tables), Run(heap, HEAP_FRAMES), lost)
    BY <1>0, <2>6 DEF SplitInv
  <2>10. Six(used \cap Usable, ImageFrames \cup L, {}, DmaFrames, Range(kmaps.tables), Run(heap, HEAP_FRAMES), lost)
    BY <2>9, SixMove
  <2>11. SplitInv'
    BY <1>1, <2>1, <2>6, <2>7, <2>8, <2>10 DEF SplitInv, Usable
  <2>12. ImageInv'
    <3>1. ASSUME NEW i \in images PROVE FramesOf(i) \cap FramesOf(x) = {}
      <4>1. FramesOf(i) \subseteq ImageFrames
        BY DEF ImageFrames
      <4> QED  BY <2>4, <2>5, <2>9, <4>1 DEF Six
    <3>2. \A i \in images' : FramesDiffer(i)
      BY <1>0, <2>3, <2>4 DEF ImageInv
    <3>3. ASSUME NEW i \in images', NEW j \in images', i # j PROVE FramesOf(i) \cap FramesOf(j) = {}
      <4>1. CASE i = x
        BY <2>3, <3>1, <3>3, <4>1
      <4>2. CASE j = x
        BY <2>3, <3>1, <3>3, <4>2
      <4>3. CASE i # x /\ j # x
        BY <1>0, <2>3, <3>3, <4>3 DEF ImageInv
      <4> QED  BY <4>1, <4>2, <4>3
    <3> QED  BY <3>2, <3>3 DEF ImageInv, FramesDiffer, FramesOf
  <2>13. PmmInv'
    BY <1>0, <2>1 DEF PmmInv, Pmm, GoodPmm, Usable
  <2>14. LoadInv' /\ DmaInv' /\ TablesInv' /\ RootInv'
    BY <1>0, <1>1, <2>1, <2>3 DEF LoadInv, DmaInv, TablesInv, RootInv
  <2> QED  BY <2>11, <2>12, <2>13, <2>14 DEF MemInv
<1> QED  BY <1>2, <1>3 DEF Spawn

LEMMA UnloadStep ==
    ASSUME MemInv, NEW i \in images, unload_image(i)
    PROVE  MemInv'
<1>0. PmmInv /\ SplitInv /\ LoadInv /\ ImageInv /\ DmaInv /\ TablesInv /\ RootInv
  BY DEF MemInv
<1>1. /\ UNCHANGED <<heap, ldr, kmaps, dma, lost>> /\ images' = images \ {i}
      /\ cr3' = IF cr3 = i.l4 THEN KERNEL_CR3 ELSE cr3
  BY DEF unload_image
<1>2. PICK F : F = FramesOf(i)
  OBVIOUS
<1>3. PICK q : q = FreeAll(Pmm, F)
  OBVIOUS
<1>4. SetPmm(q)
  BY <1>2, <1>3 DEF unload_image, fail
<1>5. GoodPmm(q) /\ q.used = used \ F
  BY <1>0, <1>3, FreeSet, PmmFields DEF PmmInv
<1>6. F \subseteq ImageFrames
  BY <1>2 DEF ImageFrames
<1>7. Six(used \cap Usable, ImageFrames, LoadFrames, DmaFrames, Range(kmaps.tables), Run(heap, HEAP_FRAMES), lost)
  BY <1>0 DEF SplitInv
<1>8. /\ Six((used \cap Usable) \ F, ImageFrames \ F, LoadFrames, DmaFrames, Range(kmaps.tables), Run(heap, HEAP_FRAMES), lost)
      /\ F \subseteq used \cap Usable
  BY <1>6, <1>7, SixDropFirst
<1>9. (used \ F) \cap Usable = (used \cap Usable) \ F /\ Frames \ Usable \subseteq used \ F
  BY <1>0, <1>8, UsableGiven
<1>10. PmmInv' /\ used' = used \ F
  BY <1>4, <1>5, <1>9, SetGood
<1>11. ImageFrames' = ImageFrames \ F
  <2>1. ImageFrames' = UNION {FramesOf(j) : j \in images \ {i}}
    BY <1>1 DEF ImageFrames, FramesOf
  <2>2. \A j \in images : j # i => FramesOf(j) \cap F = {}
    BY <1>0, <1>2 DEF ImageInv
  <2> QED  BY <1>2, <2>1, <2>2 DEF ImageFrames
<1>12. LoadFrames' = LoadFrames /\ DmaFrames' = DmaFrames
  BY <1>1 DEF LoadFrames, DmaFrames, FramesOf
<1>13. SplitInv'
  BY <1>1, <1>8, <1>9, <1>10, <1>11, <1>12 DEF SplitInv, Usable
<1>14. LoadInv' /\ DmaInv' /\ TablesInv'
  BY <1>0, <1>1 DEF LoadInv, DmaInv, TablesInv
<1>15. ImageInv'
  BY <1>0, <1>1 DEF ImageInv
<1>16. RootInv'
  BY <1>0, <1>1 DEF RootInv
<1> QED  BY <1>10, <1>13, <1>14, <1>15, <1>16 DEF MemInv

LEMMA RootStep ==
    ASSUME MemInv, NEW root \in {i.l4 : i \in images} \cup {KERNEL_CR3}, load_cr3(root)
    PROVE  MemInv'
<1>0. PmmInv /\ SplitInv /\ LoadInv /\ ImageInv /\ DmaInv /\ TablesInv /\ RootInv
  BY DEF MemInv
<1>1. cr3' = root /\ UNCHANGED <<used, FREE, heap, images, ldr, kmaps, dma, lost>>
  BY DEF load_cr3
<1>2. PmmInv' /\ SplitInv'
  BY <1>0, <1>1 DEF PmmInv, Pmm, GoodPmm, SplitInv, ImageFrames, LoadFrames, DmaFrames, FramesOf, Usable
<1>3. LoadInv' /\ ImageInv' /\ DmaInv' /\ TablesInv' /\ RootInv'
  BY <1>0, <1>1 DEF LoadInv, ImageInv, DmaInv, TablesInv, RootInv
<1> QED  BY <1>2, <1>3 DEF MemInv

LEMMA LoadStep ==
    ASSUME MemInv, NEW f \in Elfs, load(f)
    PROVE  MemInv'
<1>0. PmmInv /\ SplitInv /\ LoadInv /\ ImageInv /\ DmaInv /\ TablesInv /\ RootInv /\ GoodPmm(Pmm)
  BY DEF MemInv, PmmInv
<1>1. ldr.pc = "idle" /\ UNCHANGED <<heap, images, cr3, kmaps, dma>>
  BY DEF load
<1>2. PICK r : r = alloc(Pmm)
  OBVIOUS
<1>3. Six(used \cap Usable, ImageFrames, {}, DmaFrames, Range(kmaps.tables), Run(heap, HEAP_FRAMES), lost)
  BY <1>0, <1>1 DEF SplitInv, LoadFrames
<1>4. ImageFrames' = ImageFrames /\ DmaFrames' = DmaFrames
  BY <1>1 DEF ImageFrames, DmaFrames, FramesOf
<1>5. ImageInv' /\ DmaInv' /\ TablesInv' /\ RootInv'
  BY <1>0, <1>1 DEF ImageInv, DmaInv, TablesInv, RootInv
<1>6. CASE UNCHANGED <<used, FREE, ldr, lost>>
  <2>1. PmmInv' /\ SplitInv'
    BY <1>0, <1>1, <1>4, <1>6 DEF PmmInv, Pmm, GoodPmm, SplitInv, LoadFrames, FramesOf, Usable
  <2>2. LoadInv'
    BY <1>0, <1>6 DEF LoadInv
  <2> QED  BY <1>5, <2>1, <2>2 DEF MemInv
<1>7. CASE r.frame # NoFrame
  <2>1. r.frame \in Frames \ used /\ GoodPmm(r.p) /\ r.p.used = used \cup {r.frame} /\ r.frame \in Nat
    BY <1>0, <1>2, <1>7, AllocOne, PmmFields, FrameFacts
  <2>2. PICK F : F = {r.frame}
    OBVIOUS
  <2>3. F \in SUBSET Frames /\ F \cap used = {} /\ r.p.used = used \cup F
    BY <2>1, <2>2
  <2>4. /\ (used \cup F) \cap Usable = (used \cap Usable) \cup F /\ F \cap (used \cap Usable) = {}
        /\ Frames \ Usable \subseteq used \cup F
    BY <1>0, <2>3, UsableTaken
  <2>5. /\ Six((used \cap Usable) \cup F, ImageFrames, {} \cup F, DmaFrames, Range(kmaps.tables), Run(heap, HEAP_FRAMES), lost)
        /\ Six((used \cap Usable) \cup F, ImageFrames, {}, DmaFrames, Range(kmaps.tables), Run(heap, HEAP_FRAMES), lost \cup F)
    BY <1>3, <2>4, SixAdd
  <2>6. SetPmm(r.p) => PmmInv' /\ used' = used \cup F
    BY <2>1, <2>3, <2>4, SetGood
  <2>7. CASE SetPmm(r.p) /\ lost' = lost \cup {r.frame} /\ UNCHANGED ldr
    <3>1. LoadFrames' = {}
      BY <1>1, <2>7 DEF LoadFrames
    <3>2. SplitInv'
      BY <1>1, <1>4, <2>2, <2>4, <2>5, <2>6, <2>7, <3>1 DEF SplitInv, Usable
    <3>3. LoadInv'
      BY <1>0, <2>7 DEF LoadInv
    <3> QED  BY <1>5, <2>6, <2>7, <3>2, <3>3 DEF MemInv
  <2>8. CASE SetPmm(pmm_free(r.p, r.frame)) /\ UNCHANGED <<lost, ldr>>
    <3>1. PICK q : q = pmm_free(r.p, r.frame)
      OBVIOUS
    <3>2. GoodPmm(q) /\ q.used = r.p.used \ {r.frame}
      BY <2>1, <3>1, FreeRun, RunOne DEF pmm_free
    <3>3. q.used = used
      BY <2>1, <3>2
    <3>4. PmmInv' /\ used' = used
      BY <1>0, <2>8, <3>1, <3>2, <3>3, SetGood DEF PmmInv
    <3>5. SplitInv'
      BY <1>0, <1>1, <1>4, <2>8, <3>4 DEF SplitInv, LoadFrames, FramesOf, Usable
    <3>6. LoadInv'
      BY <1>0, <2>8 DEF LoadInv
    <3> QED  BY <1>5, <3>4, <3>5, <3>6 DEF MemInv
  <2>9. CASE /\ SetPmm(r.p) /\ UNCHANGED lost
             /\ ldr' = [pc |-> "phdr", l4 |-> r.frame, pages |-> <<>>, pts |-> <<>>, file |-> f, i |-> 1, va |-> 0, ok |-> FALSE]
    <3>1. Range(<<>>) = {} /\ IsInjective(<<>>)
      BY DEF Range, IsInjective
    <3>2. ldr'.pc = "phdr" /\ ldr'.l4 = r.frame /\ ldr'.pages = <<>> /\ ldr'.pts = <<>>
      BY <2>9
    <3>3. FramesDiffer(ldr')
      BY <3>1, <3>2 DEF FramesDiffer
    <3>4. IsLoad(ldr')
      BY <2>9, <3>2, <3>3 DEF IsLoad
    <3>5. FramesOf(ldr') = F
      BY <2>2, <3>1, <3>2, FramesAre
    <3>6. LoadFrames' = F
      BY <3>2, <3>5 DEF LoadFrames, FramesOf
    <3>7. {} \cup F = F
      OBVIOUS
    <3>8. SplitInv'
      BY <1>1, <1>4, <2>4, <2>5, <2>6, <2>9, <3>6, <3>7 DEF SplitInv, Usable
    <3>9. LoadInv'
      BY <3>4 DEF LoadInv
    <3> QED  BY <1>5, <2>6, <2>9, <3>8, <3>9 DEF MemInv
  <2> QED  BY <1>2, <1>7, <2>7, <2>8, <2>9 DEF load
<1> QED  BY <1>2, <1>6, <1>7 DEF load

\* A DMA buffer, taken and given back.
LEMMA DmaStep ==
    ASSUME MemInv, ldr.pc = "idle", \/ \E n \in 1 .. 2 : dma_alloc(n)
                                    \/ \E d \in dma : dma_dealloc(d)
    PROVE  MemInv'
<1>0. PmmInv /\ SplitInv /\ LoadInv /\ ImageInv /\ DmaInv /\ TablesInv /\ RootInv /\ GoodPmm(Pmm)
  BY DEF MemInv, PmmInv
<1>1. UNCHANGED <<heap, images, cr3, ldr, kmaps, lost>>
  BY DEF dma_alloc, dma_dealloc
<1>2. ImageFrames' = ImageFrames /\ LoadFrames' = LoadFrames
  BY <1>1 DEF ImageFrames, LoadFrames, FramesOf
<1>3. LoadInv' /\ ImageInv' /\ TablesInv' /\ RootInv'
  BY <1>0, <1>1 DEF LoadInv, ImageInv, TablesInv, RootInv
<1>4. Six(used \cap Usable, ImageFrames, LoadFrames, DmaFrames, Range(kmaps.tables), Run(heap, HEAP_FRAMES), lost)
  BY <1>0 DEF SplitInv
<1>5. ASSUME NEW n \in 1 .. 2, dma_alloc(n) PROVE MemInv'
  <2>0. n \in Nat \ {0}
    BY <1>5
  <2>1. PICK r : r = alloc_contiguous(Pmm, n)
    OBVIOUS
  <2>2. r.frame # NoFrame /\ SetPmm(r.p) /\ dma' = dma \cup {[start |-> r.frame, n |-> n]}
    BY <1>5, <2>1 DEF dma_alloc
  <2>3. PICK F : F = Run(r.frame, n)
    OBVIOUS
  <2>4. F \in SUBSET Frames /\ F \cap used = {} /\ GoodPmm(r.p) /\ r.p.used = used \cup F
    BY <1>0, <2>0, <2>1, <2>2, <2>3, AllocRun, PmmFields
  <2>5. /\ (used \cup F) \cap Usable = (used \cap Usable) \cup F /\ F \cap (used \cap Usable) = {}
        /\ Frames \ Usable \subseteq used \cup F
    BY <1>0, <2>4, UsableTaken
  <2>6. Six((used \cap Usable) \cup F, ImageFrames, LoadFrames, DmaFrames \cup F, Range(kmaps.tables), Run(heap, HEAP_FRAMES), lost)
    BY <1>4, <2>5, SixAdd
  <2>7. PmmInv' /\ used' = used \cup F
    BY <2>2, <2>4, <2>5, SetGood
  <2>8. PICK x : x = [start |-> r.frame, n |-> n]
    OBVIOUS
  <2>9. Run(x.start, x.n) = F /\ dma' = dma \cup {x}
    BY <2>2, <2>3, <2>8
  <2>10. DmaFrames' = DmaFrames \cup F
    BY <2>9 DEF DmaFrames
  <2>11. SplitInv'
    BY <1>1, <1>2, <2>5, <2>6, <2>7, <2>10 DEF SplitInv, Usable
  <2>12. DmaInv'
    <3>1. ASSUME NEW d \in dma PROVE Run(d.start, d.n) \cap F = {}
      <4>1. Run(d.start, d.n) \subseteq DmaFrames
        BY DEF DmaFrames
      <4>2. DmaFrames \subseteq used
        BY <1>4 DEF Six
      <4> QED  BY <2>4, <4>1, <4>2
    <3>2. ASSUME NEW c \in dma', NEW d \in dma', c # d PROVE Run(c.start, c.n) \cap Run(d.start, d.n) = {}
      <4>1. CASE c = x
        BY <2>9, <3>1, <3>2, <4>1
      <4>2. CASE d = x
        BY <2>9, <3>1, <3>2, <4>2
      <4>3. CASE c # x /\ d # x
        BY <1>0, <2>9, <3>2, <4>3 DEF DmaInv
      <4> QED  BY <4>1, <4>2, <4>3
    <3> QED  BY <3>2 DEF DmaInv
  <2> QED  BY <1>3, <2>7, <2>11, <2>12 DEF MemInv
<1>6. ASSUME NEW d \in dma, dma_dealloc(d) PROVE MemInv'
  <2>1. PICK F : F = Run(d.start, d.n)
    OBVIOUS
  <2>2. PICK q : q = free_contiguous(Pmm, d.start, d.n)
    OBVIOUS
  <2>3. SetPmm(q) /\ dma' = dma \ {d}
    BY <1>6, <2>2 DEF dma_dealloc
  <2>4. GoodPmm(q) /\ q.used = used \ F
    BY <1>0, <2>1, <2>2, FreeRun, PmmFields
  <2>5. F \subseteq DmaFrames
    BY <2>1 DEF DmaFrames
  <2>6. /\ Six((used \cap Usable) \ F, ImageFrames, LoadFrames, DmaFrames \ F, Range(kmaps.tables), Run(heap, HEAP_FRAMES), lost)
        /\ F \subseteq used \cap Usable
    BY <1>4, <2>5, SixDropThird
  <2>7. (used \ F) \cap Usable = (used \cap Usable) \ F /\ Frames \ Usable \subseteq used \ F
    BY <1>0, <2>6, UsableGiven
  <2>8. PmmInv' /\ used' = used \ F
    BY <2>3, <2>4, <2>7, SetGood
  <2>9. DmaFrames' = DmaFrames \ F
    <3>1. DmaFrames' = UNION {Run(c.start, c.n) : c \in dma \ {d}}
      BY <2>3 DEF DmaFrames
    <3>2. \A c \in dma : c # d => Run(c.start, c.n) \cap F = {}
      BY <1>0, <2>1 DEF DmaInv
    <3> QED  BY <2>1, <3>1, <3>2 DEF DmaFrames
  <2>10. SplitInv'
    BY <1>1, <1>2, <2>6, <2>7, <2>8, <2>9 DEF SplitInv, Usable
  <2>11. DmaInv'
    BY <1>0, <2>3 DEF DmaInv
  <2> QED  BY <1>3, <2>8, <2>10, <2>11 DEF MemInv
<1> QED  BY <1>5, <1>6

\* f is what mapping the pages from first on leads to, one after the other.
IsMapping(f, start, first, n) == f = [i \in 0 .. n |-> IF i = 0 THEN start ELSE map_one(f[i - 1], first + i - 1)]

LEMMA MappingExists ==
    ASSUME NEW start, NEW first
    PROVE  \A n \in Nat : \E f : IsMapping(f, start, first, n)
<1> DEFINE S == {n \in Nat : \E f : IsMapping(f, start, first, n)}
<1>1. 0 \in S
  <2> DEFINE f == [i \in 0 .. 0 |-> start]
  <2>1. IsMapping(f, start, first, 0)
    BY DEF IsMapping
  <2> QED  BY <2>1
<1>2. ASSUME NEW n \in Nat, n \in S PROVE n + 1 \in S
  <2>1. PICK f : IsMapping(f, start, first, n)
    BY <1>2
  <2> DEFINE g == [i \in 0 .. n + 1 |-> IF i = n + 1 THEN map_one(f[n], first + (n + 1) - 1) ELSE f[i]]
  <2>2. \A i \in 0 .. n + 1 : g[i] = IF i = 0 THEN start ELSE map_one(g[i - 1], first + i - 1)
    <3> TAKE i \in 0 .. n + 1
    <3>1. CASE i = n + 1
      <4>1. i # 0 /\ i - 1 = n /\ n \in 0 .. n + 1 /\ n # n + 1
        BY <3>1
      <4>2. g[i - 1] = f[n]
        BY <4>1
      <4>3. g[i] = map_one(f[n], first + i - 1)
        BY <3>1
      <4> QED  BY <4>1, <4>2, <4>3
    <3>2. CASE i # n + 1
      <4>1. i \in 0 .. n /\ (i # 0 => i - 1 \in 0 .. n + 1 /\ i - 1 # n + 1)
        BY <3>2
      <4>2. g[i] = f[i] /\ (i # 0 => g[i - 1] = f[i - 1])
        BY <3>2, <4>1
      <4>3. f[i] = IF i = 0 THEN start ELSE map_one(f[i - 1], first + i - 1)
        BY <2>1, <4>1 DEF IsMapping
      <4> QED  BY <4>2, <4>3
    <3> QED  BY <3>1, <3>2
  <2>3. IsMapping(g, start, first, n + 1)
    BY <2>2 DEF IsMapping
  <2> QED  BY <2>3
<1>3. \A n \in Nat : n \in S
  <2> HIDE DEF S
  <2> QED  BY <1>1, <1>2, AllNumbers
<1> QED  BY <1>3

LEMMA MapOneGrows ==
    ASSUME NEW a, GoodPmm(a.p), IsInjective(a.tables), Range(a.tables) \subseteq a.p.used, NEW page, NEW b, b = map_one(a, page)
    PROVE  Grows(a.p, a.tables, b.p, b.tables)
<1>1. CASE ~a.ok \/ page \in a.pages
  <2>1. b = a
    BY <1>1 DEF map_one
  <2> QED  BY <2>1, GrowsNot
<1>2. CASE ~(~a.ok \/ page \in a.pages)
  <2>1. PICK m : m = map_to(a.p, a.tables, a.pages, page)
    OBVIOUS
  <2>2. b = [p |-> m.p, ok |-> m.ok, tables |-> m.tables, pages |-> IF m.ok THEN a.pages \cup {page} ELSE a.pages]
    BY <1>2, <2>1 DEF map_one
  <2>3. b.p = m.p /\ b.tables = m.tables
    BY <2>2
  <2> QED  BY <2>1, <2>3, MapToGrows
<1> QED  BY <1>1, <1>2

LEMMA MmioStep ==
    ASSUME MemInv, NEW r \in Mmio, try_map_mmio_range(r)
    PROVE  MemInv'
<1>0. PmmInv /\ SplitInv /\ LoadInv /\ ImageInv /\ DmaInv /\ TablesInv /\ RootInv /\ GoodPmm(Pmm)
  BY DEF MemInv, PmmInv
<1>1. UNCHANGED <<heap, images, cr3, ldr, dma, lost>>
  BY DEF try_map_mmio_range
<1>2. PICK n \in Nat : n = r.n
  BY MemoryConstants
<1>3. PICK start : start = [p |-> Pmm, ok |-> TRUE, tables |-> kmaps.tables, pages |-> kmaps.pages]
  OBVIOUS
<1>4. PICK f : f = CHOOSE h : IsMapping(h, start, r.page, n)
  OBVIOUS
<1>5. IsMapping(f, start, r.page, n)
  BY <1>4, MappingExists
<1>6. PICK a : a = f[n]
  OBVIOUS
<1>7. SetPmm(a.p) /\ kmaps' = [pages |-> a.pages, tables |-> a.tables]
  BY <1>2, <1>3, <1>4, <1>6 DEF try_map_mmio_range, IsMapping
<1>8. start.p = Pmm /\ start.tables = kmaps.tables
  BY <1>3
<1>9. IsInjective(start.tables) /\ Range(start.tables) \subseteq start.p.used
  BY <1>0, <1>8, PmmFields DEF TablesInv, SplitInv, Six
<1> DEFINE S == {i \in Nat : i <= n => Grows(start.p, start.tables, f[i].p, f[i].tables)}
<1>10. 0 \in S
  <2>1. 0 \in 0 .. n
    OBVIOUS
  <2>2. f[0] = start
    BY <1>5, <2>1 DEF IsMapping
  <2> QED  BY <1>0, <1>8, <1>9, <2>2, GrowsNot
<1>11. ASSUME NEW i \in Nat, i \in S PROVE i + 1 \in S
  <2> SUFFICES ASSUME i + 1 <= n PROVE Grows(start.p, start.tables, f[i + 1].p, f[i + 1].tables)
    OBVIOUS
  <2>1. i + 1 \in 0 .. n /\ i + 1 # 0 /\ (i + 1) - 1 = i /\ i <= n
    OBVIOUS
  <2>2. f[i + 1] = map_one(f[(i + 1) - 1], r.page + (i + 1) - 1)
    BY <1>5, <2>1 DEF IsMapping
  <2>3. PICK b : b = f[i]
    OBVIOUS
  <2>4. PICK c : c = f[i + 1]
    OBVIOUS
  <2>5. PICK page : page = r.page + (i + 1) - 1
    OBVIOUS
  <2>6. c = map_one(b, page)
    BY <2>1, <2>2, <2>3, <2>4, <2>5
  <2>7. Grows(start.p, start.tables, b.p, b.tables)
    BY <1>11, <2>1, <2>3
  <2>8. GoodPmm(b.p) /\ IsInjective(b.tables) /\ Range(b.tables) \subseteq b.p.used
    BY <1>9, <2>7 DEF Grows
  <2>9. Grows(b.p, b.tables, c.p, c.tables)
    BY <2>6, <2>8, MapOneGrows
  <2> QED  BY <2>4, <2>7, <2>9, GrowsOn
<1>12. \A i \in Nat : i \in S
  <2> HIDE DEF S
  <2> QED  BY <1>10, <1>11, AllNumbers
<1>13. Grows(start.p, start.tables, a.p, a.tables)
  BY <1>6, <1>12
<1>14. PICK F : F = a.p.used \ used
  OBVIOUS
<1>15. /\ GoodPmm(a.p) /\ IsInjective(a.tables) /\ Range(a.tables) = Range(kmaps.tables) \cup F
       /\ a.p.used = used \cup F /\ F \cap used = {} /\ F \in SUBSET Frames
  BY <1>8, <1>13, <1>14, PmmFields DEF Grows, GoodPmm
<1>16. /\ (used \cup F) \cap Usable = (used \cap Usable) \cup F /\ F \cap (used \cap Usable) = {}
       /\ Frames \ Usable \subseteq used \cup F
  BY <1>0, <1>15, UsableTaken
<1>17. Six(used \cap Usable, ImageFrames, LoadFrames, DmaFrames, Range(kmaps.tables), Run(heap, HEAP_FRAMES), lost)
  BY <1>0 DEF SplitInv
<1>18. Six((used \cap Usable) \cup F, ImageFrames, LoadFrames, DmaFrames, Range(kmaps.tables) \cup F, Run(heap, HEAP_FRAMES), lost)
  BY <1>16, <1>17, SixAdd
<1>19. PmmInv' /\ used' = used \cup F
  BY <1>7, <1>15, <1>16, SetGood
<1>20. kmaps'.tables = a.tables
  BY <1>7
<1>21. ImageFrames' = ImageFrames /\ LoadFrames' = LoadFrames /\ DmaFrames' = DmaFrames
  BY <1>1 DEF ImageFrames, LoadFrames, DmaFrames, FramesOf
<1>22. SplitInv'
  BY <1>1, <1>15, <1>16, <1>18, <1>19, <1>20, <1>21 DEF SplitInv, Usable
<1>23. TablesInv'
  BY <1>15, <1>20 DEF TablesInv
<1>24. LoadInv' /\ ImageInv' /\ DmaInv' /\ RootInv'
  BY <1>0, <1>1 DEF LoadInv, ImageInv, DmaInv, RootInv
<1> QED  BY <1>19, <1>22, <1>23, <1>24 DEF MemInv

LEMMA MemInitStep == MemInit => MemInv
<1> SUFFICES ASSUME MemInit PROVE MemInv
  OBVIOUS
<1>1. PICK p : p = pmm_init
  OBVIOUS
<1>2. PICK r : r = alloc_contiguous(p, HEAP_FRAMES)
  OBVIOUS
<1>3. /\ used = r.p.used /\ FREE = r.p.FREE /\ heap = r.frame /\ heap # NoFrame
      /\ images = {} /\ cr3 = KERNEL_CR3 /\ ldr = IdleLdr
      /\ kmaps = [pages |-> {}, tables |-> <<>>] /\ dma = {} /\ lost = {}
  BY <1>1, <1>2 DEF MemInit
<1>4. Usable \subseteq Frames
  BY DEF Usable
<1>5. p.used = Frames \ Usable /\ p.FREE = Cardinality(Usable)
  BY <1>1 DEF pmm_init
<1>6. Frames \ p.used = Usable
  BY <1>4, <1>5
<1>7. GoodPmm(p)
  BY <1>5, <1>6 DEF GoodPmm
<1>8. HEAP_FRAMES \in Nat \ {0}
  BY MemoryConstants
<1>9. PICK H : H = Run(heap, HEAP_FRAMES)
  OBVIOUS
<1>10. H \subseteq Frames /\ H \cap p.used = {} /\ GoodPmm(r.p) /\ r.p.used = p.used \cup H
  BY <1>2, <1>3, <1>7, <1>8, <1>9, AllocRun
<1>11. GoodPmm(Pmm)
  BY <1>3, <1>10 DEF GoodPmm, Pmm
<1>12. PmmInv
  BY <1>3, <1>5, <1>10, <1>11 DEF PmmInv
<1>13. used \cap Usable = H
  BY <1>3, <1>4, <1>5, <1>10
<1>14. kmaps.tables = <<>> /\ Range(<<>>) = {} /\ IsInjective(<<>>)
  BY <1>3 DEF Range, IsInjective
<1>15. ImageFrames = {} /\ LoadFrames = {} /\ DmaFrames = {}
  BY <1>3 DEF ImageFrames, LoadFrames, DmaFrames, IdleLdr
<1>16. Six(H, {}, {}, {}, {}, H, {})
  BY DEF Six
<1>17. SplitInv
  BY <1>3, <1>9, <1>13, <1>14, <1>15, <1>16 DEF SplitInv
<1>18. LoadInv /\ ImageInv /\ DmaInv /\ TablesInv /\ RootInv
  BY <1>3, <1>14 DEF LoadInv, ImageInv, DmaInv, TablesInv, RootInv
<1> QED  BY <1>12, <1>17, <1>18 DEF MemInv

LEMMA MemNextStep == MemInv /\ [MemNext]_memVars => MemInv'
<1> SUFFICES ASSUME MemInv, [MemNext]_memVars PROVE MemInv'
  OBVIOUS
<1>1. CASE UNCHANGED memVars
  <2>1. UNCHANGED <<used, FREE, heap, images, cr3, ldr, kmaps, dma, lost>>
    BY <1>1 DEF memVars
  <2>2. PmmInv' /\ SplitInv'
    BY <2>1 DEF MemInv, PmmInv, Pmm, GoodPmm, SplitInv, ImageFrames, LoadFrames, DmaFrames, FramesOf, Usable
  <2>3. LoadInv' /\ ImageInv' /\ DmaInv' /\ TablesInv' /\ RootInv'
    BY <2>1 DEF MemInv, LoadInv, ImageInv, DmaInv, TablesInv, RootInv
  <2> QED  BY <2>2, <2>3 DEF MemInv
<1>2. CASE \E f \in Elfs : load(f)
  BY <1>2, LoadStep
<1>3. CASE Segment \/ map_segment \/ EndSegments \/ map_stack
  BY <1>3, LoaderStep
<1>4. CASE \E s \in Argvs : Spawn(s)
  BY <1>4, SpawnStep
<1>5. CASE \E i \in images : unload_image(i)
  BY <1>5, UnloadStep
<1>6. CASE \E root \in {i.l4 : i \in images} \cup {KERNEL_CR3} : load_cr3(root)
  BY <1>6, RootStep
<1>7. CASE \E r \in Mmio : try_map_mmio_range(r)
  BY <1>7, MmioStep
<1>8. CASE ldr.pc = "idle" /\ ((\E n \in 1 .. 2 : dma_alloc(n)) \/ \E d \in dma : dma_dealloc(d))
  BY <1>8, DmaStep
<1> QED  BY <1>1, <1>2, <1>3, <1>4, <1>5, <1>6, <1>7, <1>8 DEF MemNext

LEMMA MemInvAccounts == MemInv => FramesAccounted
<1> SUFFICES ASSUME MemInv PROVE FramesAccounted
  OBVIOUS
<1>0. PmmInv /\ SplitInv /\ LoadInv /\ ImageInv /\ DmaInv /\ TablesInv /\ RootInv
  BY DEF MemInv
<1> DEFINE HI == {Held(<<"image", i>>, FramesOf(i)) : i \in images}
           HL == {Held(<<"load", l>>, FramesOf(l)) : l \in {ldr} \ {IdleLdr}}
           HD == {Held(<<"dma", d>>, Run(d.start, d.n)) : d \in dma}
           T == Range(kmaps.tables)
           H == Run(heap, HEAP_FRAMES)
<1>1. Holders = HI \cup HL \cup HD \cup {Held(<<"tables">>, T), Held(<<"heap">>, H), Held(<<"lost">>, lost)}
  BY Zenon DEF Holders
<1>2. Six(used \cap Usable, ImageFrames, LoadFrames, DmaFrames, T, H, lost)
  BY <1>0 DEF SplitInv
<1>3. FREE = Cardinality(Frames \ used)
  BY <1>0 DEF PmmInv, Pmm, GoodPmm
<1>4. \A i \in images \cup ({ldr} \ {IdleLdr}) : FramesDiffer(i)
  BY <1>0 DEF ImageInv, LoadInv, IsLoad
<1>5. \A of, set : Held(of, set).frames = set
  BY DEF Held
<1>6. ldr # IdleLdr <=> ldr.pc # "idle"
  BY <1>0 DEF LoadInv, IdleLdr, IsLoad
<1>7. /\ \A h \in HI : \E i \in images : h = Held(<<"image", i>>, FramesOf(i))
      /\ \A i \in images : Held(<<"image", i>>, FramesOf(i)) \in HI
      /\ \A h \in HL : ldr # IdleLdr /\ h = Held(<<"load", ldr>>, FramesOf(ldr))
      /\ ldr # IdleLdr => Held(<<"load", ldr>>, FramesOf(ldr)) \in HL
      /\ \A h \in HD : \E d \in dma : h = Held(<<"dma", d>>, Run(d.start, d.n))
      /\ \A d \in dma : Held(<<"dma", d>>, Run(d.start, d.n)) \in HD
  BY Zenon
<1> HIDE DEF HI, HL, HD, T, H
<1>8. \A x : x \in ImageFrames <=> \E h \in HI : x \in h.frames
  <2>1. ASSUME NEW x \in ImageFrames PROVE \E h \in HI : x \in h.frames
    <3>1. PICK i \in images : x \in FramesOf(i)
      BY <2>1 DEF ImageFrames
    <3> QED  BY <1>5, <1>7, <3>1
  <2>2. ASSUME NEW h \in HI, NEW x \in h.frames PROVE x \in ImageFrames
    <3>1. PICK i \in images : h = Held(<<"image", i>>, FramesOf(i))
      BY <1>7
    <3>2. x \in FramesOf(i)
      BY <1>5, <3>1
    <3> QED  BY <3>2 DEF ImageFrames
  <2> QED  BY <2>1, <2>2
<1>9. \A x : x \in LoadFrames <=> \E h \in HL : x \in h.frames
  <2>1. ASSUME NEW x \in LoadFrames PROVE \E h \in HL : x \in h.frames
    <3>1. ldr # IdleLdr /\ x \in FramesOf(ldr)
      BY <1>6, <2>1 DEF LoadFrames
    <3> QED  BY <1>5, <1>7, <3>1
  <2>2. ASSUME NEW h \in HL, NEW x \in h.frames PROVE x \in LoadFrames
    <3>1. ldr # IdleLdr /\ x \in FramesOf(ldr)
      BY <1>5, <1>7
    <3> QED  BY <1>6, <3>1 DEF LoadFrames
  <2> QED  BY <2>1, <2>2
<1>10. \A x : x \in DmaFrames <=> \E h \in HD : x \in h.frames
  <2>1. ASSUME NEW x \in DmaFrames PROVE \E h \in HD : x \in h.frames
    <3>1. PICK d \in dma : x \in Run(d.start, d.n)
      BY <2>1 DEF DmaFrames
    <3> QED  BY <1>5, <1>7, <3>1
  <2>2. ASSUME NEW h \in HD, NEW x \in h.frames PROVE x \in DmaFrames
    <3>1. PICK d \in dma : h = Held(<<"dma", d>>, Run(d.start, d.n))
      BY <1>7
    <3>2. x \in Run(d.start, d.n)
      BY <1>5, <3>1
    <3> QED  BY <3>2 DEF DmaFrames
  <2> QED  BY <2>1, <2>2
<1>11. \A g, h : (g \in HI /\ h \in HI) \/ (g \in HL /\ h \in HL) \/ (g \in HD /\ h \in HD)
                    => (g # h => g.frames \cap h.frames = {})
  <2>1. ASSUME NEW g \in HI, NEW h \in HI, g # h PROVE g.frames \cap h.frames = {}
    <3>1. PICK i \in images : g = Held(<<"image", i>>, FramesOf(i))
      BY <1>7
    <3>2. PICK j \in images : h = Held(<<"image", j>>, FramesOf(j))
      BY <1>7
    <3>3. i # j
      BY <2>1, <3>1, <3>2
    <3>4. FramesOf(i) \cap FramesOf(j) = {}
      BY <1>0, <3>3 DEF ImageInv
    <3> QED  BY <1>5, <3>1, <3>2, <3>4
  <2>2. ASSUME NEW g \in HL, NEW h \in HL PROVE g = h
    BY <1>7
  <2>3. ASSUME NEW g \in HD, NEW h \in HD, g # h PROVE g.frames \cap h.frames = {}
    <3>1. PICK i \in dma : g = Held(<<"dma", i>>, Run(i.start, i.n))
      BY <1>7
    <3>2. PICK j \in dma : h = Held(<<"dma", j>>, Run(j.start, j.n))
      BY <1>7
    <3>3. i # j
      BY <2>3, <3>1, <3>2
    <3>4. Run(i.start, i.n) \cap Run(j.start, j.n) = {}
      BY <1>0, <3>3 DEF DmaInv
    <3> QED  BY <1>5, <3>1, <3>2, <3>4
  <2> QED  BY <2>1, <2>2, <2>3
<1>12. PICK ht, hh, hl : ht = Held(<<"tables">>, T) /\ hh = Held(<<"heap">>, H) /\ hl = Held(<<"lost">>, lost)
  OBVIOUS
<1>13. ht.frames = T /\ hh.frames = H /\ hl.frames = lost
  BY <1>5, <1>12
<1>14. Holders = HI \cup HL \cup HD \cup {ht, hh, hl}
  BY <1>1, <1>12
<1>15. used \cap Usable = UNION {h.frames : h \in Holders}
  <2>1. UNION {h.frames : h \in Holders} = ImageFrames \cup LoadFrames \cup DmaFrames \cup T \cup H \cup lost
    BY <1>8, <1>9, <1>10, <1>13, <1>14
  <2> QED  BY <1>2, <2>1 DEF Six
<1>16. ASSUME NEW g \in Holders, NEW h \in Holders, g # h PROVE g.frames \cap h.frames = {}
  <2>1. CASE g \in HI
    BY <1>2, <1>8, <1>9, <1>10, <1>11, <1>13, <1>14, <1>16, <2>1 DEF Six
  <2>2. CASE g \in HL
    BY <1>2, <1>8, <1>9, <1>10, <1>11, <1>13, <1>14, <1>16, <2>2 DEF Six
  <2>3. CASE g \in HD
    BY <1>2, <1>8, <1>9, <1>10, <1>11, <1>13, <1>14, <1>16, <2>3 DEF Six
  <2>4. CASE g \in {ht, hh, hl}
    BY <1>2, <1>8, <1>9, <1>10, <1>13, <1>14, <1>16, <2>4 DEF Six
  <2> QED  BY <1>14, <2>1, <2>2, <2>3, <2>4
<1> QED  BY <1>0, <1>3, <1>4, <1>15, <1>16 DEF FramesAccounted, TablesInv, RootInv

\* Frames are accounted for, whatever the files and the memory map are and whatever point of a
\* load the memory ran out at: the free counter is the number of free bits, and every used frame
\* has one holder and one use (pmm.rs:23-102, vmm.rs:80-169, elfload.rs:25-157).
THEOREM MemoryAccounted == MemSpec => []FramesAccounted
<1>1. MemInit => MemInv
  BY MemInitStep
<1>2. MemInv /\ [MemNext]_memVars => MemInv'
  BY MemNextStep
<1>3. MemInv => FramesAccounted
  BY MemInvAccounts
<1> QED  BY <1>1, <1>2, <1>3, PTL DEF MemSpec

-----------------------------------------------------------------------------
(* Memory: what the kernel takes for a program's memory.                   *)

LEMMA DivIs ==
    ASSUME NEW F \in Nat \ {0}, NEW a \in Nat
    PROVE  a \div F \in Nat /\ (a \div F) * F <= a /\ a < (a \div F) * F + F /\ a % F = a - (a \div F) * F
OBVIOUS

LEMMA DivUnique ==
    ASSUME NEW F \in Nat \ {0}, NEW q \in Nat, NEW a \in Nat, q * F <= a, a < q * F + F
    PROVE  a \div F = q
<1>1. PICK d \in Nat : d = a \div F /\ d * F <= a /\ a < d * F + F
  BY DivIs
<1>2. CASE d < q
  <2>1. d + 1 <= q
    BY <1>2
  <2>2. (d + 1) * F <= q * F
    BY <2>1
  <2>3. (d + 1) * F = d * F + F
    OBVIOUS
  <2> QED  BY <1>1, <2>2, <2>3
<1>3. CASE q < d
  <2>1. q + 1 <= d
    BY <1>3
  <2>2. (q + 1) * F <= d * F
    BY <2>1
  <2>3. (q + 1) * F = q * F + F
    OBVIOUS
  <2> QED  BY <1>1, <2>2, <2>3
<1> QED  BY <1>1, <1>2, <1>3

\* The pages lie in the user half; the stack is mapped below va.
Below(pages) == \A v \in DOMAIN pages : v \in Nat /\ (v + 1) * FRAME_SIZE <= USER_CANON_MAX
StackTo(pages, va) == \A x \in USER_STACK_BASE .. va - 1 : Page(x) \in DOMAIN pages

LEMMA MemSizes ==
    /\ FRAME_SIZE \in Nat \ {0} /\ USER_STACK_BASE \in Nat /\ USER_CANON_MAX \in Nat /\ ADDR_MAX \in Nat
    /\ USER_CANON_MAX < ADDR_MAX /\ USER_STACK_TOP \in Nat /\ USER_STACK_TOP <= USER_CANON_MAX
    /\ USER_CANON_MAX % FRAME_SIZE = 0
<1>1. FRAME_SIZE \in Nat /\ USER_STACK_PAGES \in Nat /\ USER_STACK_BASE \in Nat
  BY MemoryConstants
<1>2. USER_STACK_PAGES * FRAME_SIZE \in Nat
  BY <1>1
<1>3. USER_STACK_TOP \in Nat
  BY <1>1, <1>2 DEF USER_STACK_TOP
<1> QED  BY <1>3, MemoryConstants

LEMMA PageIs ==
    ASSUME NEW a \in Nat
    PROVE  /\ Page(a) \in Nat /\ Page(a) * FRAME_SIZE <= a /\ a < (Page(a) + 1) * FRAME_SIZE
           /\ \A q \in Nat : q * FRAME_SIZE <= a /\ a < (q + 1) * FRAME_SIZE => Page(a) = q
           /\ a % FRAME_SIZE = 0 => a = Page(a) * FRAME_SIZE
<1>1. PICK F \in Nat \ {0} : F = FRAME_SIZE
  BY MemSizes
<1>2. PICK d \in Nat : d = a \div F /\ d * F <= a /\ a < d * F + F /\ a % F = a - d * F
  BY DivIs
<1>3. \A q \in Nat : (q + 1) * F = q * F + F /\ q * F \in Nat
  OBVIOUS
<1>4. \A q \in Nat : q * F <= a /\ a < q * F + F => a \div F = q
  BY DivUnique
<1> QED  BY <1>1, <1>2, <1>3, <1>4 DEF Page

\* Multiples of the size of a frame are ordered as their factors.
LEMMA FactorOrder ==
    ASSUME NEW p \in Nat, NEW q \in Nat
    PROVE  /\ p * FRAME_SIZE \in Nat
           /\ p <= q => p * FRAME_SIZE <= q * FRAME_SIZE
           /\ p < q => (p + 1) * FRAME_SIZE <= q * FRAME_SIZE
           /\ p * FRAME_SIZE < q * FRAME_SIZE => p < q
           /\ (p + 1) * FRAME_SIZE = p * FRAME_SIZE + FRAME_SIZE
           /\ (p + q) * FRAME_SIZE = p * FRAME_SIZE + q * FRAME_SIZE
<1>1. PICK F \in Nat \ {0} : F = FRAME_SIZE
  BY MemSizes
<1>2. p * F \in Nat /\ q * F \in Nat /\ (p + 1) * F = p * F + F /\ (p + q) * F = p * F + q * F
  OBVIOUS
<1>3. \A a, b \in Nat : a <= b => a * F <= b * F
  OBVIOUS
<1>4. p < q => (p + 1) * F <= q * F
  BY <1>3
<1>5. p * F < q * F => p < q
  <2>1. q <= p => q * F <= p * F
    BY <1>3
  <2> QED  BY <1>2, <2>1
<1> QED  BY <1>1, <1>2, <1>3, <1>4, <1>5

\* A page that map_user_in takes lies in the user half.
LEMMA TakenBelow ==
    ASSUME NEW va \in Nat, va < USER_CANON_MAX, va % FRAME_SIZE = 0
    PROVE  /\ Page(va) \in Nat /\ (Page(va) + 1) * FRAME_SIZE <= USER_CANON_MAX
           /\ \A x \in va .. va + FRAME_SIZE - 1 : Page(x) = Page(va)
<1>1. PICK k \in Nat : USER_CANON_MAX = k * FRAME_SIZE
  <2>1. USER_CANON_MAX \in Nat /\ USER_CANON_MAX % FRAME_SIZE = 0
    BY MemSizes
  <2> QED  BY <2>1, PageIs
<1>2. PICK p \in Nat : p = Page(va) /\ va = p * FRAME_SIZE
  BY PageIs
<1>3. p < k /\ (p + 1) * FRAME_SIZE <= k * FRAME_SIZE
  <2>1. p * FRAME_SIZE < k * FRAME_SIZE
    BY <1>1, <1>2
  <2> QED  BY <2>1, FactorOrder
<1>4. ASSUME NEW x \in va .. va + FRAME_SIZE - 1 PROVE Page(x) = p
  <2>1. x \in Nat /\ p * FRAME_SIZE <= x /\ x < p * FRAME_SIZE + FRAME_SIZE /\ FRAME_SIZE \in Nat
    BY <1>2, MemSizes
  <2>2. (p + 1) * FRAME_SIZE = p * FRAME_SIZE + FRAME_SIZE
    BY FactorOrder
  <2>3. x < (p + 1) * FRAME_SIZE
    BY <2>1, <2>2
  <2> QED  BY <2>1, <2>3, PageIs
<1> QED  BY <1>1, <1>2, <1>3, <1>4

\* user_slice_ok says yes exactly for the ranges that user mode can see.
LEMMA SliceOk ==
    ASSUME \A i \in images : Below(i.pages), NEW ptr \in Nat, NEW len \in Nat
    PROVE  user_slice_ok(ptr, len) <=> \A b \in ptr .. ptr + len - 1 : b < ADDR_MAX /\ user_page_mapped(b)
<1> DEFINE M(p) == \E i \in images : i.l4 = cr3 /\ p \in DOMAIN i.pages
           first == (ptr \div FRAME_SIZE) * FRAME_SIZE
           d == (ptr + len - 1 - first) \div FRAME_SIZE
           Steps == {first + k * FRAME_SIZE : k \in 0 .. d}
<1>1. \A va : user_page_mapped(va) <=> M(Page(va))
  BY DEF user_page_mapped
<1>2. \A p : M(p) => p \in Nat /\ (p + 1) * FRAME_SIZE <= USER_CANON_MAX
  BY DEF Below
<1>3. user_slice_ok(ptr, len) <=> \/ len = 0
                                  \/ /\ ptr + len < ADDR_MAX
                                     /\ \A va \in Steps : user_page_mapped(va) /\ va + FRAME_SIZE < ADDR_MAX
  BY Zenon DEF user_slice_ok
<1> HIDE DEF M
<1>4. CASE len = 0
  BY <1>3, <1>4
<1>5. CASE len > 0
  <2>1. PICK F \in Nat \ {0} : F = FRAME_SIZE
    BY MemSizes
  <2>2. PICK f \in Nat : f = Page(ptr) /\ f * F <= ptr /\ ptr < (f + 1) * F /\ (f + 1) * F = f * F + F /\ f * F \in Nat
    BY <2>1, PageIs, FactorOrder
  <2>3. first = f * F
    BY <2>1, <2>2 DEF Page
  <2>4. PICK a \in Nat : a = ptr + len - 1 - first /\ ptr + len - 1 = f * F + a
    BY <1>5, <2>2, <2>3
  <2>5. PICK e \in Nat : d = e /\ e * F <= a /\ a < (e + 1) * F
    <3>1. Page(a) \in Nat /\ Page(a) * F <= a /\ a < (Page(a) + 1) * F
      BY <2>1, PageIs
    <3>2. d = Page(a)
      BY <2>1, <2>4 DEF Page
    <3> QED  BY <3>1, <3>2
  <2>6. Steps = {f * F + k * F : k \in 0 .. e}
    BY <2>1, <2>3, <2>5
  <2> HIDE DEF Steps, first, d
  <2>7. ASSUME ptr + len < ADDR_MAX, \A va \in Steps : user_page_mapped(va), NEW b \in ptr .. ptr + len - 1
        PROVE  b < ADDR_MAX /\ user_page_mapped(b)
    <3>1. b \in Nat /\ b <= ptr + len - 1 /\ ptr <= b /\ b < ADDR_MAX
      BY <2>7, MemSizes
    <3>2. PICK q \in Nat : q = Page(b) /\ q * F <= b /\ b < (q + 1) * F
      BY <2>1, <3>1, PageIs
    <3>3. f <= q
      <4>1. f * F < (q + 1) * F
        BY <2>2, <3>1, <3>2
      <4>2. f < q + 1
        BY <2>1, <4>1, FactorOrder
      <4> QED  BY <4>2
    <3>4. PICK k \in Nat : q = f + k
      BY <3>3
    <3>5. q * F = f * F + k * F /\ k * F \in Nat /\ q * F \in Nat
      BY <2>1, <3>4, FactorOrder
    <3>6. k * F <= a
      BY <2>2, <2>4, <3>1, <3>2, <3>5
    <3>7. k < e + 1
      <4>1. k * F < (e + 1) * F
        BY <2>5, <3>5, <3>6
      <4> QED  BY <2>1, <4>1, FactorOrder
    <3>8. q * F \in Steps
      BY <2>6, <3>5, <3>7
    <3>9. Page(q * F) = q
      <4>1. (q + 1) * F = q * F + F
        BY <2>1, FactorOrder
      <4>2. q * F <= q * F /\ q * F < (q + 1) * F
        BY <3>5, <4>1
      <4> QED  BY <2>1, <3>5, <4>2, PageIs
    <3> QED  BY <1>1, <2>7, <3>1, <3>2, <3>8, <3>9
  <2>8. ASSUME \A b \in ptr .. ptr + len - 1 : b < ADDR_MAX /\ user_page_mapped(b)
        PROVE  ptr + len < ADDR_MAX /\ \A va \in Steps : user_page_mapped(va) /\ va + FRAME_SIZE < ADDR_MAX
    <3>1. \A b \in ptr .. ptr + len - 1 : b \in Nat /\ M(Page(b)) /\ (Page(b) + 1) * F <= USER_CANON_MAX /\ b < (Page(b) + 1) * F
      <4> TAKE b \in ptr .. ptr + len - 1
      <4>1. b \in Nat /\ M(Page(b))
        BY <1>1, <2>8
      <4>2. b < (Page(b) + 1) * FRAME_SIZE
        BY <4>1, PageIs
      <4> QED  BY <1>2, <2>1, <4>1, <4>2
    <3>2. ptr + len < ADDR_MAX
      <4>1. PICK z \in ptr .. ptr + len - 1 : z = ptr + len - 1
        BY <1>5
      <4>2. Page(z) \in Nat
        BY <3>1, <4>1, PageIs
      <4>3. PICK y \in Nat : y = (Page(z) + 1) * F
        BY <4>2
      <4>4. y <= USER_CANON_MAX /\ z < y
        BY <3>1, <4>3
      <4> QED  BY <1>5, <4>1, <4>4, MemSizes
    <3>3. ASSUME NEW va \in Steps PROVE user_page_mapped(va) /\ va + FRAME_SIZE < ADDR_MAX
      <4>1. PICK k \in 0 .. e : va = f * F + k * F
        BY <2>6
      <4>2. PICK q \in Nat : q = f + k /\ va = q * F /\ (q + 1) * F = q * F + F /\ k * F \in Nat /\ q * F \in Nat /\ k \in Nat
        <5>1. k \in Nat /\ f + k \in Nat
          BY <2>5
        <5> QED  BY <2>1, <4>1, <5>1, FactorOrder
      <4>3. Page(va) = q
        <5>1. q * F <= va /\ va < (q + 1) * F /\ va \in Nat
          BY <4>2
        <5> QED  BY <2>1, <5>1, PageIs
      <4>4. M(q)
        <5>1. CASE k = 0
          <6>1. q = Page(ptr) /\ ptr \in ptr .. ptr + len - 1
            BY <1>5, <2>2, <4>2, <5>1
          <6> QED  BY <3>1, <6>1
        <5>2. CASE k # 0
          <6>1. F <= k * F
            <7>1. 1 \in Nat /\ 1 <= k
              BY <4>2, <5>2
            <7>2. 1 * F <= k * F
              BY <2>1, <4>2, <7>1, FactorOrder
            <7> QED  BY <7>2
          <6>2. k * F <= e * F /\ e * F \in Nat
            <7>1. k <= e
              BY <2>5
            <7> QED  BY <2>1, <4>2, <7>1, FactorOrder
          <6>3. va \in ptr .. ptr + len - 1
            BY <2>2, <2>4, <2>5, <4>1, <4>2, <6>1, <6>2
          <6> QED  BY <3>1, <4>3, <6>3
        <5> QED  BY <5>1, <5>2
      <4>5. (q + 1) * F <= USER_CANON_MAX
        BY <1>2, <2>1, <4>4
      <4>6. va + F < ADDR_MAX
        BY <4>2, <4>5, MemSizes
      <4> QED  BY <1>1, <2>1, <4>3, <4>4, <4>6
    <3> QED  BY <3>2, <3>3
  <2> QED  BY <1>3, <1>5, <2>7, <2>8
<1> QED  BY <1>4, <1>5

\* f is where the strings of write_argv begin, one after the other.
IsCursor(f, strs, n) == f = [k \in 0 .. n |-> IF k = 0 THEN USER_STACK_TOP ELSE f[k - 1] - (strs[k] + 1)]

LEMMA CursorExists ==
    ASSUME NEW strs
    PROVE  \A n \in Nat : \E f : IsCursor(f, strs, n)
<1> DEFINE S == {n \in Nat : \E f : IsCursor(f, strs, n)}
<1>1. 0 \in S
  <2> DEFINE f == [i \in 0 .. 0 |-> USER_STACK_TOP]
  <2>1. IsCursor(f, strs, 0)
    BY DEF IsCursor
  <2> QED  BY <2>1
<1>2. ASSUME NEW n \in Nat, n \in S PROVE n + 1 \in S
  <2>1. PICK f : IsCursor(f, strs, n)
    BY <1>2
  <2> DEFINE g == [i \in 0 .. n + 1 |-> IF i = n + 1 THEN f[n] - (strs[n + 1] + 1) ELSE f[i]]
  <2>2. \A i \in 0 .. n + 1 : g[i] = IF i = 0 THEN USER_STACK_TOP ELSE g[i - 1] - (strs[i] + 1)
    <3> TAKE i \in 0 .. n + 1
    <3>1. CASE i = n + 1
      <4>1. i # 0 /\ i - 1 = n /\ n \in 0 .. n + 1 /\ n # n + 1
        BY <3>1
      <4>2. g[i - 1] = f[n]
        BY <4>1
      <4>3. g[i] = f[n] - (strs[n + 1] + 1)
        BY <3>1
      <4> QED  BY <3>1, <4>1, <4>2, <4>3
    <3>2. CASE i # n + 1
      <4>1. i \in 0 .. n /\ (i # 0 => i - 1 \in 0 .. n + 1 /\ i - 1 # n + 1)
        BY <3>2
      <4>2. g[i] = f[i] /\ (i # 0 => g[i - 1] = f[i - 1])
        BY <3>2, <4>1
      <4>3. f[i] = IF i = 0 THEN USER_STACK_TOP ELSE f[i - 1] - (strs[i] + 1)
        BY <2>1, <4>1 DEF IsCursor
      <4> QED  BY <4>2, <4>3
    <3> QED  BY <3>1, <3>2
  <2>3. IsCursor(g, strs, n + 1)
    BY <2>2 DEF IsCursor
  <2> QED  BY <2>3
<1>3. \A n \in Nat : n \in S
  <2> HIDE DEF S
  <2> QED  BY <1>1, <1>2, AllNumbers
<1> QED  BY <1>3

\* Each string takes its bytes and a zero below the one before it.
LEMMA CursorIs ==
    ASSUME NEW strs \in Seq(Nat)
    PROVE  /\ Cursor(strs, 0) = USER_STACK_TOP
           /\ \A k \in 1 .. Len(strs) : Cursor(strs, k) = Cursor(strs, k - 1) - (strs[k] + 1)
<1>1. PICK n \in Nat : n = Len(strs)
  OBVIOUS
<1>2. PICK f : f = CHOOSE h : IsCursor(h, strs, n)
  OBVIOUS
<1>3. IsCursor(f, strs, n)
  BY <1>2, CursorExists
<1>4. \A k : Cursor(strs, k) = f[k]
  BY <1>1, <1>2 DEF Cursor, IsCursor
<1>5. f[0] = USER_STACK_TOP
  <2>1. 0 \in 0 .. n
    BY <1>1
  <2> QED  BY <1>3, <2>1 DEF IsCursor
<1>6. ASSUME NEW k \in 1 .. n PROVE f[k] = f[k - 1] - (strs[k] + 1)
  <2>1. k \in 0 .. n /\ k # 0
    OBVIOUS
  <2> QED  BY <1>3, <2>1 DEF IsCursor
<1> QED  BY <1>1, <1>4, <1>5, <1>6

LEMMA CursorDown ==
    ASSUME NEW strs \in Seq(Nat)
    PROVE  \A k \in 0 .. Len(strs) : Cursor(strs, k) \in Int /\ \A j \in 0 .. k : Cursor(strs, k) <= Cursor(strs, j)
<1>1. PICK n \in Nat : n = Len(strs)
  OBVIOUS
<1>2. PICK f : f = [k \in Nat |-> Cursor(strs, k)]
  OBVIOUS
<1>3. f[0] \in Int /\ \A k \in 1 .. n : f[k] = f[k - 1] - (strs[k] + 1)
  <2>1. f[0] \in Int
    BY <1>2, CursorIs, MemSizes
  <2>2. ASSUME NEW k \in 1 .. n PROVE f[k] = f[k - 1] - (strs[k] + 1)
    <3>1. k \in Nat /\ k - 1 \in Nat /\ k \in 1 .. Len(strs)
      BY <1>1
    <3>2. f[k] = Cursor(strs, k) /\ f[k - 1] = Cursor(strs, k - 1)
      BY <1>2, <3>1
    <3> QED  BY <3>1, <3>2, CursorIs
  <2> QED  BY <2>1, <2>2
<1> DEFINE S == {k \in Nat : k <= n => f[k] \in Int /\ \A j \in 0 .. k : f[j] \in Int /\ f[k] <= f[j]}
<1>4. 0 \in S
  <2>1. \A j \in 0 .. 0 : j = 0
    OBVIOUS
  <2> QED  BY <1>3, <2>1
<1>5. ASSUME NEW k \in Nat, k \in S PROVE k + 1 \in S
  <2> SUFFICES ASSUME k + 1 <= n PROVE f[k + 1] \in Int /\ \A j \in 0 .. k + 1 : f[j] \in Int /\ f[k + 1] <= f[j]
    OBVIOUS
  <2>1. k + 1 \in 1 .. n /\ (k + 1) - 1 = k /\ k <= n
    OBVIOUS
  <2>2. f[k] \in Int /\ \A j \in 0 .. k : f[j] \in Int /\ f[k] <= f[j]
    BY <1>5, <2>1
  <2>3. strs[k + 1] \in Nat
    BY <1>1, <2>1
  <2>4. f[k + 1] = f[k] - (strs[k + 1] + 1)
    BY <1>3, <2>1
  <2>5. f[k + 1] \in Int /\ f[k + 1] <= f[k]
    BY <2>2, <2>3, <2>4
  <2>6. ASSUME NEW j \in 0 .. k + 1 PROVE f[j] \in Int /\ f[k + 1] <= f[j]
    <3>1. CASE j = k + 1
      BY <2>5, <3>1
    <3>2. CASE j \in 0 .. k
      BY <2>2, <2>5, <3>2
    <3> QED  BY <3>1, <3>2
  <2> QED  BY <2>5, <2>6
<1>6. \A k \in Nat : k \in S
  <2> HIDE DEF S
  <2> QED  BY <1>4, <1>5, AllNumbers
<1> QED  BY <1>1, <1>2, <1>6

\* The arguments a lie on the mapped stack, none over another: ArgvFits for one image.
ArgvLies(a, pages) ==
    LET Str(k) == a.strs[k] .. a.strs[k] + a.lens[k]
        Table == a.rsp .. a.rsp + 8 + (a.argc + 2) * 8 - 1
    IN  /\ a.rsp % 16 = 0
        /\ \A k \in 1 .. a.argc : Str(k) \cap Table = {} /\ \A j \in 1 .. k - 1 : Str(j) \cap Str(k) = {}
        /\ \A b \in Table \cup UNION {Str(k) : k \in 1 .. a.argc} : Page(b) \in DOMAIN pages

LEMMA ArgvLie ==
    ASSUME NEW strs \in Seq(Nat), NEW a, a = write_argv(strs), a # NoArgv, NEW pages, StackTo(pages, USER_STACK_TOP)
    PROVE  ArgvLies(a, pages)
<1>1. PICK n, tab, rsp, c : /\ n = Len(strs) /\ tab = 8 + (n + 2) * 8 /\ c = [k \in 0 .. n |-> Cursor(strs, k)]
                              /\ rsp = ((Cursor(strs, n) - tab) \div 16) * 16
  OBVIOUS
<1>2. n \in Nat /\ tab \in Nat /\ tab > 0
  BY <1>1
<1>3. /\ \A k \in 0 .. n : c[k] = Cursor(strs, k) /\ c[k] \in Int
      /\ c[0] = USER_STACK_TOP
      /\ \A k \in 1 .. n : c[k - 1] = c[k] + (strs[k] + 1) /\ strs[k] \in Nat
      /\ \A k \in 0 .. n : \A j \in 0 .. k : c[k] <= c[j]
  <2>1. \A k \in 0 .. n : c[k] = Cursor(strs, k)
    BY <1>1
  <2>2. \A k \in 0 .. n : c[k] \in Int /\ \A j \in 0 .. k : c[k] <= c[j]
    <3> TAKE k \in 0 .. n
    <3>1. Cursor(strs, k) \in Int /\ \A j \in 0 .. k : Cursor(strs, k) <= Cursor(strs, j)
      BY <1>1, CursorDown
    <3>2. \A j \in 0 .. k : j \in 0 .. n
      BY <1>2
    <3> QED  BY <2>1, <3>1, <3>2
  <2>3. c[0] = USER_STACK_TOP
    BY <1>2, <2>1, CursorIs
  <2>4. ASSUME NEW k \in 1 .. n PROVE c[k - 1] = c[k] + (strs[k] + 1) /\ strs[k] \in Nat
    <3>1. k \in 1 .. Len(strs) /\ k \in 0 .. n /\ k - 1 \in 0 .. n
      BY <1>1, <1>2
    <3>2. Cursor(strs, k) = Cursor(strs, k - 1) - (strs[k] + 1)
      BY <3>1, CursorIs
    <3>3. strs[k] \in Nat
      BY <3>1
    <3>4. c[k] = c[k - 1] - (strs[k] + 1)
      BY <2>1, <3>1, <3>2
    <3> QED  BY <2>2, <3>1, <3>3, <3>4
  <2> QED  BY <2>1, <2>2, <2>3, <2>4
<1>4. PICK cursor \in Int : cursor = Cursor(strs, n) /\ cursor = c[n]
  BY <1>2, <1>3
<1>5. /\ a = [rsp |-> rsp, argc |-> n, strs |-> [i \in 1 .. n |-> Cursor(strs, i)], lens |-> strs]
      /\ ~(rsp < USER_STACK_BASE \/ rsp + tab > cursor)
  BY <1>1, <1>4 DEF write_argv
<1>6. rsp \in Int /\ rsp % 16 = 0 /\ rsp >= USER_STACK_BASE /\ rsp + tab <= cursor
  <2>1. rsp \in Int /\ rsp % 16 = 0
    <3>1. PICK d \in Int : d = (cursor - tab) \div 16
      BY <1>2
    <3>2. rsp = d * 16
      BY <1>1, <1>4, <3>1
    <3> QED  BY <3>2
  <2>2. PICK r \in Int, t \in Int, b \in Int : r = rsp /\ t = tab /\ b = USER_STACK_BASE
    BY <1>2, <2>1, MemSizes
  <2>3. ~(r < b) /\ ~(r + t > cursor)
    BY <1>5, <2>2
  <2>4. r >= b /\ r + t <= cursor
    BY <2>3
  <2> QED  BY <2>1, <2>2, <2>4
<1>7. /\ a.rsp = rsp /\ a.argc = n /\ a.lens = strs /\ \A k \in 1 .. n : a.strs[k] = c[k]
  <2>1. \A k \in 1 .. n : k \in 0 .. n
    BY <1>2
  <2> QED  BY <1>3, <1>5, <2>1
<1> DEFINE Str(k) == a.strs[k] .. a.strs[k] + a.lens[k]
           Table == a.rsp .. a.rsp + 8 + (a.argc + 2) * 8 - 1
<1>8. Table = rsp .. rsp + tab - 1
  <2>1. rsp + 8 + (n + 2) * 8 - 1 = rsp + tab - 1
    BY <1>1, <1>2, <1>6
  <2> QED  BY <1>7, <2>1
<1>9. \A k \in 1 .. n : Str(k) = c[k] .. c[k - 1] - 1
  <2> TAKE k \in 1 .. n
  <2>1. k \in 0 .. n
    BY <1>2
  <2>2. c[k] \in Int /\ strs[k] \in Nat /\ c[k - 1] = c[k] + (strs[k] + 1)
    BY <1>3, <2>1
  <2>3. c[k - 1] - 1 = c[k] + strs[k]
    BY <2>2
  <2> QED  BY <1>7, <2>2, <2>3
<1> HIDE DEF Str, Table
<1>10. ASSUME NEW k \in 1 .. n
       PROVE  /\ Str(k) \cap Table = {} /\ \A j \in 1 .. k - 1 : Str(j) \cap Str(k) = {}
              /\ \A b \in Str(k) : b \in USER_STACK_BASE .. USER_STACK_TOP - 1
  <2>1. k \in 0 .. n /\ k - 1 \in 0 .. n /\ n \in 0 .. n /\ k \in 0 .. n /\ 0 \in 0 .. k - 1
    BY <1>2
  <2>2. c[k] \in Int /\ c[k - 1] \in Int /\ cursor <= c[k] /\ c[k - 1] <= USER_STACK_TOP
    BY <1>3, <1>4, <2>1
  <2>3. PICK w, x, r, t \in Int : w = c[k] /\ x = c[k - 1] /\ r = rsp /\ t = tab
    BY <1>2, <1>6, <2>2
  <2>4. Str(k) = w .. x - 1 /\ Table = r .. r + t - 1
    BY <1>8, <1>9, <2>3
  <2>5. r >= USER_STACK_BASE /\ r + t <= cursor /\ cursor <= w /\ x <= USER_STACK_TOP /\ t > 0
    BY <1>2, <1>6, <2>2, <2>3
  <2>6. Str(k) \cap Table = {}
    BY <2>4, <2>5
  <2>7. ASSUME NEW j \in 1 .. k - 1 PROVE Str(j) \cap Str(k) = {}
    <3>1. j \in 1 .. n /\ j \in 0 .. n /\ j - 1 \in 0 .. n /\ j \in 0 .. k - 1
      BY <1>2
    <3>2. c[j] \in Int /\ c[j - 1] \in Int /\ c[k - 1] <= c[j]
      BY <1>3, <2>1, <3>1
    <3>3. PICK y, z \in Int : y = c[j] /\ z = c[j - 1]
      BY <3>2
    <3>4. Str(j) = y .. z - 1 /\ x <= y
      BY <1>9, <2>3, <3>1, <3>2, <3>3
    <3> QED  BY <2>4, <3>4
  <2>8. \A b \in Str(k) : b \in USER_STACK_BASE .. USER_STACK_TOP - 1
    BY <2>4, <2>5, MemSizes
  <2> QED  BY <2>6, <2>7, <2>8
<1>11. \A b \in Table : b \in USER_STACK_BASE .. USER_STACK_TOP - 1
  <2>1. cursor <= USER_STACK_TOP
    <3>1. n \in 0 .. n /\ 0 \in 0 .. n
      BY <1>2
    <3> QED  BY <1>3, <1>4, <3>1
  <2> QED  BY <1>2, <1>6, <1>8, <2>1, MemSizes
<1>12. \A b \in Table \cup UNION {Str(k) : k \in 1 .. n} : Page(b) \in DOMAIN pages
  BY <1>10, <1>11 DEF StackTo
<1>13. a.rsp % 16 = 0 /\ a.argc = n
  BY <1>6, <1>7
<1> QED
  <2>1. /\ a.rsp % 16 = 0
        /\ \A k \in 1 .. a.argc : Str(k) \cap Table = {} /\ \A j \in 1 .. k - 1 : Str(j) \cap Str(k) = {}
        /\ \A b \in Table \cup UNION {Str(k) : k \in 1 .. a.argc} : Page(b) \in DOMAIN pages
    BY <1>10, <1>12, <1>13
  <2> QED  BY Zenon, <2>1 DEF ArgvLies, Str, Table

\* A load has mapped pages of the user half only, and the stack as far as it has come; an
\* image has its whole stack, and arguments that write_argv took.
UserLoad(l) ==
    /\ Below(l.pages) /\ l.file \in Elfs /\ l.i \in Nat \ {0} /\ l.va \in Nat
    /\ l.pc = "stack" => StackTo(l.pages, l.va)
UserImage(i) ==
    /\ Below(i.pages) /\ StackTo(i.pages, USER_STACK_TOP) /\ i.argv # NoArgv
    /\ \E s \in Argvs : i.argv = write_argv(s)
UserInv == (ldr.pc # "idle" => UserLoad(ldr)) /\ \A i \in images : UserImage(i)

LEMMA UserKept ==
    ASSUME UserInv, images' \subseteq images, ldr' = IdleLdr \/ UserLoad(ldr') \/ ldr' = ldr
    PROVE  UserInv'
<1>1. \A i \in images' : UserImage(i)
  BY DEF UserInv
<1>2. ldr'.pc # "idle" => UserLoad(ldr')
  BY DEF UserInv, IdleLdr
<1> QED  BY <1>1, <1>2 DEF UserInv, UserLoad

\* A page mapped: it is in the user half, and the stack has come a page further.
LEMMA UserMap ==
    ASSUME IsLoad(ldr), UserLoad(ldr), NEW short \in BOOLEAN, NEW v, v = ldr.va + FRAME_SIZE,
           MapPage(short, [ldr EXCEPT !.va = v])
    PROVE  ldr' = IdleLdr \/ UserLoad(ldr')
<1>1. PICK f : f = alloc(Pmm)
  OBVIOUS
<1>2. PICK m : m = map_user_in(f.p, ldr.pts, DOMAIN ldr.pages, ldr.va)
  OBVIOUS
<1>3. PICK page : page = Page(ldr.va)
  OBVIOUS
<1>4. PICK g : g = [k \in DOMAIN ldr.pages \cup {page} |-> IF k = page THEN f.frame ELSE ldr.pages[k]]
  OBVIOUS
<1>5. \/ ldr' = IdleLdr
      \/ m.ok /\ ldr' = [[ldr EXCEPT !.va = v] EXCEPT !.pts = m.tables, !.pages = g]
  BY <1>1, <1>2, <1>3, <1>4 DEF MapPage, Abort
<1>6. CASE m.ok /\ ldr' = [[ldr EXCEPT !.va = v] EXCEPT !.pts = m.tables, !.pages = g]
  <2>1. ldr' = [pc |-> ldr.pc, l4 |-> ldr.l4, pages |-> g, pts |-> m.tables, file |-> ldr.file, i |-> ldr.i, va |-> v, ok |-> ldr.ok]
    BY <1>6 DEF IsLoad
  <2>2. /\ ldr'.pc = ldr.pc /\ ldr'.pages = g /\ ldr'.file = ldr.file /\ ldr'.i = ldr.i /\ ldr'.va = v
    BY <2>1
  <2>3. PICK va \in Nat : va = ldr.va /\ page = Page(va) /\ v = va + FRAME_SIZE
    BY <1>3 DEF UserLoad
  <2>4. va < USER_CANON_MAX /\ va % FRAME_SIZE = 0
    <3>1. ~(ldr.va >= USER_CANON_MAX \/ ldr.va % FRAME_SIZE # 0)
      BY <1>2, <1>6 DEF map_user_in
    <3> QED  BY <2>3, <3>1, MemSizes
  <2>5. /\ page \in Nat /\ (page + 1) * FRAME_SIZE <= USER_CANON_MAX
        /\ \A x \in va .. va + FRAME_SIZE - 1 : Page(x) = page
    BY <2>3, <2>4, TakenBelow
  <2>6. DOMAIN g = DOMAIN ldr.pages \cup {page}
    BY <1>4
  <2>7. Below(g)
    BY <2>5, <2>6 DEF UserLoad, Below
  <2>8. v \in Nat
    BY <2>3, MemSizes
  <2>9. ASSUME ldr.pc = "stack" PROVE StackTo(g, v)
    <3> SUFFICES ASSUME NEW x \in USER_STACK_BASE .. v - 1 PROVE Page(x) \in DOMAIN g
      BY DEF StackTo
    <3>1. x \in USER_STACK_BASE .. va - 1 \/ x \in va .. va + FRAME_SIZE - 1
      BY <2>3, MemSizes
    <3>2. CASE x \in USER_STACK_BASE .. va - 1
      BY <2>3, <2>6, <2>9, <3>2 DEF UserLoad, StackTo
    <3> QED  BY <2>5, <2>6, <3>1, <3>2
  <2>10. UserLoad(ldr')
    BY <2>2, <2>7, <2>8, <2>9 DEF UserLoad
  <2> QED  BY <2>10
<1> QED  BY <1>5, <1>6

\* The loader elsewhere in the file, or at the stack.
LEMMA UserAt ==
    ASSUME UserLoad(ldr), NEW pc, NEW i \in Nat \ {0}, NEW va \in Nat, NEW ok, ldr' = LoadAt(pc, i, va, ok),
           pc # "stack" \/ va = USER_STACK_BASE
    PROVE  UserLoad(ldr')
<1>1. ldr'.pc = pc /\ ldr'.pages = ldr.pages /\ ldr'.file = ldr.file /\ ldr'.i = i /\ ldr'.va = va
  BY DEF LoadAt
<1>2. StackTo(ldr.pages, USER_STACK_BASE)
  BY MemSizes DEF StackTo
<1> QED  BY <1>1, <1>2 DEF UserLoad

LEMMA UserLoader ==
    ASSUME MemInv, UserInv, Segment \/ map_segment \/ EndSegments \/ map_stack
    PROVE  UserInv'
<1>1. ldr.pc # "idle" /\ images' = images
  BY DEF Segment, map_segment, EndSegments, map_stack
<1>2. IsLoad(ldr) /\ UserLoad(ldr)
  BY <1>1 DEF MemInv, LoadInv, IdleLdr, UserInv
<1>3. SUFFICES ldr' = IdleLdr \/ UserLoad(ldr')
  BY <1>1, UserKept
<1>4. CASE Abort(Pmm, ldr)
  BY <1>4 DEF Abort
<1>5. CASE \E short \in BOOLEAN : MapPage(short, [ldr EXCEPT !.va = @ + FRAME_SIZE])
  <2>1. PICK short \in BOOLEAN : MapPage(short, [ldr EXCEPT !.va = @ + FRAME_SIZE])
    BY <1>5
  <2>2. [ldr EXCEPT !.va = @ + FRAME_SIZE] = [ldr EXCEPT !.va = ldr.va + FRAME_SIZE]
    BY <1>2 DEF IsLoad
  <2>3. PICK v : v = ldr.va + FRAME_SIZE
    OBVIOUS
  <2>4. MapPage(short, [ldr EXCEPT !.va = v])
    BY <2>1, <2>2, <2>3
  <2> QED  BY <1>2, <2>3, <2>4, UserMap
<1>6. ldr.i \in Nat \ {0} /\ ldr.i + 1 \in Nat \ {0} /\ ldr.va \in Nat /\ ldr.file \in Elfs /\ USER_STACK_BASE \in Nat
  BY <1>2, MemSizes DEF UserLoad
<1>7. CASE Segment
  <2>1. ldr.pc = "phdr" /\ ldr.i <= Len(ldr.file.phdrs)
    BY <1>7 DEF Segment
  <2>2. \/ Abort(Pmm, ldr)
        \/ ldr' = [ldr EXCEPT !.i = ldr.i + 1]
        \/ /\ ldr.i \in 1 .. Len(ldr.file.phdrs)
           /\ ldr' = [ldr EXCEPT !.pc = "page", !.ok = TRUE, !.va = Page(ldr.file.phdrs[ldr.i].vaddr) * FRAME_SIZE]
    <3>1. \/ Abort(Pmm, ldr)
          \/ ldr' = [ldr EXCEPT !.i = ldr.i + 1]
          \/ ldr' = [ldr EXCEPT !.pc = "page", !.ok = TRUE, !.va = Page(ldr.file.phdrs[ldr.i].vaddr) * FRAME_SIZE]
      BY <1>7, <1>2 DEF Segment, IsLoad
    <3>2. Len(ldr.file.phdrs) \in Nat
      BY <1>6, MemoryConstants
    <3>3. ldr.i \in 1 .. Len(ldr.file.phdrs)
      BY <1>6, <2>1, <3>2
    <3> QED  BY <3>1, <3>3
  <2>3. CASE ldr' = [ldr EXCEPT !.i = ldr.i + 1]
    <3>1. ldr' = LoadAt(ldr.pc, ldr.i + 1, ldr.va, ldr.ok)
      BY <1>2, <2>3 DEF IsLoad, LoadAt
    <3> QED  BY <1>2, <1>6, <2>1, <3>1, UserAt
  <2>4. CASE /\ ldr.i \in 1 .. Len(ldr.file.phdrs)
             /\ ldr' = [ldr EXCEPT !.pc = "page", !.ok = TRUE, !.va = Page(ldr.file.phdrs[ldr.i].vaddr) * FRAME_SIZE]
    <3>1. ldr.file.phdrs[ldr.i].vaddr \in Nat
      <4>1. ldr.file.phdrs \in Seq(Phdrs)
        BY <1>6, MemoryConstants
      <4>2. ldr.file.phdrs[ldr.i] \in Phdrs
        BY <2>4, <4>1
      <4> QED  BY <4>2 DEF Phdrs
    <3>2. PICK va \in Nat : va = Page(ldr.file.phdrs[ldr.i].vaddr) * FRAME_SIZE
      <4>1. Page(ldr.file.phdrs[ldr.i].vaddr) \in Nat
        BY <3>1, PageIs
      <4> QED  BY <4>1, MemSizes
    <3>3. ldr' = LoadAt("page", ldr.i, va, TRUE)
      BY <1>2, <2>4, <3>2 DEF IsLoad, LoadAt
    <3> QED  BY <1>2, <1>6, <3>3, UserAt
  <2> QED  BY <1>4, <2>2, <2>3, <2>4
<1>8. CASE map_segment
  <2>1. \/ \E short \in BOOLEAN : MapPage(short, [ldr EXCEPT !.va = @ + FRAME_SIZE])
        \/ ldr' = [ldr EXCEPT !.pc = "phdr", !.i = @ + 1]
    <3> DEFINE ph == ldr.file.phdrs[ldr.i]
               lo == IF ph.vaddr > ldr.va THEN ph.vaddr ELSE ldr.va
               hi == Min({ph.vaddr + ph.filesz, ldr.va + FRAME_SIZE})
               short == lo < hi /\ ph.offset + (hi - ph.vaddr) > ldr.file.bytes
    <3>1. IF ldr.va < ph.vaddr + ph.memsz THEN MapPage(short, [ldr EXCEPT !.va = @ + FRAME_SIZE])
          ELSE ldr' = [ldr EXCEPT !.pc = "phdr", !.i = @ + 1] /\ UNCHANGED <<used, FREE>>
      BY <1>8, Zenon DEF map_segment
    <3>2. short \in BOOLEAN
      OBVIOUS
    <3> HIDE DEF short, ph
    <3> QED  BY <3>1, <3>2
  <2>2. CASE ldr' = [ldr EXCEPT !.pc = "phdr", !.i = @ + 1]
    <3>1. ldr' = LoadAt("phdr", ldr.i + 1, ldr.va, ldr.ok)
      BY <1>2, <2>2 DEF IsLoad, LoadAt
    <3> QED  BY <1>2, <1>6, <3>1, UserAt
  <2> QED  BY <1>5, <2>1, <2>2
<1>9. CASE EndSegments
  <2>1. CASE ldr' = [ldr EXCEPT !.pc = "stack", !.va = USER_STACK_BASE]
    <3>1. ldr' = LoadAt("stack", ldr.i, USER_STACK_BASE, ldr.ok)
      BY <1>2, <2>1 DEF IsLoad, LoadAt
    <3> QED  BY <1>2, <1>6, <3>1, UserAt
  <2> QED  BY <1>4, <1>9, <2>1 DEF EndSegments
<1>10. CASE map_stack
  <2>1. MapPage(FALSE, [ldr EXCEPT !.va = @ + FRAME_SIZE])
    BY <1>10 DEF map_stack
  <2> QED  BY <1>5, <2>1
<1> QED  BY <1>7, <1>8, <1>9, <1>10

LEMMA UserInitStep == MemInit => UserInv
BY DEF MemInit, UserInv, IdleLdr

LEMMA UserNextStep == MemInv /\ UserInv /\ [MemNext]_memVars => UserInv'
<1> SUFFICES ASSUME MemInv, UserInv, [MemNext]_memVars PROVE UserInv'
  OBVIOUS
<1>1. CASE UNCHANGED memVars
  BY <1>1, UserKept DEF memVars
<1>2. CASE \E f \in Elfs : load(f)
  <2>1. PICK f \in Elfs : load(f)
    BY <1>2
  <2>2. PICK r : r = alloc(Pmm)
    OBVIOUS
  <2>3. /\ images' = images
        /\ \/ ldr' = ldr
           \/ ldr' = [pc |-> "phdr", l4 |-> r.frame, pages |-> <<>>, pts |-> <<>>, file |-> f, i |-> 1, va |-> 0, ok |-> FALSE]
    BY <2>1, <2>2 DEF load
  <2>4. CASE ldr' = [pc |-> "phdr", l4 |-> r.frame, pages |-> <<>>, pts |-> <<>>, file |-> f, i |-> 1, va |-> 0, ok |-> FALSE]
    <3>1. ldr'.pc # "stack" /\ ldr'.pages = <<>> /\ ldr'.file = f /\ ldr'.i = 1 /\ ldr'.va = 0
      BY <2>4
    <3>2. Below(<<>>)
      BY DEF Below
    <3>3. UserLoad(ldr')
      BY <3>1, <3>2 DEF UserLoad
    <3> QED  BY <2>3, <3>3, UserKept
  <2> QED  BY <2>3, <2>4, UserKept
<1>3. CASE Segment \/ map_segment \/ EndSegments \/ map_stack
  BY <1>3, UserLoader
<1>4. CASE \E s \in Argvs : Spawn(s)
  <2>1. PICK s \in Argvs : Spawn(s)
    BY <1>4
  <2>2. PICK a : a = write_argv(s)
    OBVIOUS
  <2>3. /\ ldr.pc = "stack" /\ ldr.va >= USER_STACK_TOP /\ ldr' = IdleLdr
        /\ \/ images' = images
           \/ /\ a # NoArgv
              /\ images' = images \cup {[l4 |-> ldr.l4, pages |-> ldr.pages, pts |-> ldr.pts, argv |-> a]}
    BY <2>1, <2>2 DEF Spawn, Abort
  <2>4. CASE images' = images
    BY <2>3, <2>4, UserKept
  <2>5. CASE /\ a # NoArgv
             /\ images' = images \cup {[l4 |-> ldr.l4, pages |-> ldr.pages, pts |-> ldr.pts, argv |-> a]}
    <3>1. PICK j : j = [l4 |-> ldr.l4, pages |-> ldr.pages, pts |-> ldr.pts, argv |-> a]
      OBVIOUS
    <3>2. j.pages = ldr.pages /\ j.argv = a
      BY <3>1
    <3>3. Below(ldr.pages) /\ ldr.va \in Nat /\ StackTo(ldr.pages, ldr.va)
      BY <2>3 DEF UserInv, UserLoad
    <3>4. StackTo(ldr.pages, USER_STACK_TOP)
      BY <2>3, <3>3, MemSizes DEF StackTo
    <3>5. UserImage(j)
      BY <2>2, <2>5, <3>2, <3>3, <3>4 DEF UserImage
    <3>6. \A i \in images' : UserImage(i)
      BY <2>5, <3>1, <3>5 DEF UserInv
    <3> QED  BY <2>3, <3>6 DEF UserInv, IdleLdr
  <2> QED  BY <2>3, <2>4, <2>5
<1>5. CASE \E i \in images : unload_image(i)
  <2>1. images' \subseteq images /\ ldr' = ldr
    BY <1>5 DEF unload_image
  <2> QED  BY <2>1, UserKept
<1>6. CASE \E root \in {i.l4 : i \in images} \cup {KERNEL_CR3} : load_cr3(root)
  BY <1>6, UserKept DEF load_cr3
<1>7. CASE \E r \in Mmio : try_map_mmio_range(r)
  <2>1. images' = images /\ ldr' = ldr
    BY <1>7 DEF try_map_mmio_range
  <2> QED  BY <2>1, UserKept
<1>8. CASE (\E n \in 1 .. 2 : dma_alloc(n)) \/ \E d \in dma : dma_dealloc(d)
  <2>1. images' = images /\ ldr' = ldr
    BY <1>8 DEF dma_alloc, dma_dealloc
  <2> QED  BY <2>1, UserKept
<1> QED  BY <1>1, <1>2, <1>3, <1>4, <1>5, <1>6, <1>7, <1>8 DEF MemNext

LEMMA EdgesAre == Edges \subseteq Nat
<1>1. \A p \in 1 .. ADDR_MAX \div FRAME_SIZE - 1 : \A d \in {-1, 0} : p * FRAME_SIZE + d \in Nat
  <2> TAKE p \in 1 .. ADDR_MAX \div FRAME_SIZE - 1
  <2> TAKE d \in {-1, 0}
  <2>1. p \in Nat /\ 1 \in Nat /\ 1 <= p
    OBVIOUS
  <2>2. 1 * FRAME_SIZE <= p * FRAME_SIZE /\ p * FRAME_SIZE \in Nat
    BY <2>1, FactorOrder
  <2>3. FRAME_SIZE \in Nat /\ FRAME_SIZE >= 1 /\ 1 * FRAME_SIZE = FRAME_SIZE
    BY MemSizes
  <2> QED  BY <2>2, <2>3
<1>2. 0 \in Nat /\ ADDR_MAX - 1 \in Nat
  BY MemSizes
<1> QED  BY <1>1, <1>2 DEF Edges

LEMMA UserInvIs == UserInv => UserMemory
<1> SUFFICES ASSUME UserInv PROVE UserMemory
  OBVIOUS
<1>1. ASSUME NEW i \in images PROVE ArgvLies(i.argv, i.pages)
  <2>1. UserImage(i)
    BY DEF UserInv
  <2>2. PICK s \in Argvs : i.argv = write_argv(s)
    BY <2>1 DEF UserImage
  <2>3. s \in Seq(Nat) /\ i.argv # NoArgv /\ StackTo(i.pages, USER_STACK_TOP)
    BY <2>1, MemoryConstants DEF UserImage
  <2> QED  BY <2>2, <2>3, ArgvLie
<1>2. ArgvFits
  BY Zenon, <1>1 DEF ArgvFits, ArgvLies
<1>3. \A i \in images : Below(i.pages)
  BY DEF UserInv, UserImage
<1>4. SliceIsMapped
  <2> SUFFICES ASSUME NEW ptr \in Edges, NEW len \in {0, 1, 2, FRAME_SIZE, FRAME_SIZE + 1}
               PROVE  user_slice_ok(ptr, len) <=> \A b \in ptr .. ptr + len - 1 : b < ADDR_MAX /\ user_page_mapped(b)
    BY Zenon DEF SliceIsMapped
  <2>1. ptr \in Nat /\ len \in Nat
    BY EdgesAre, MemSizes
  <2> QED  BY <1>3, <2>1, SliceOk
<1> QED  BY <1>2, <1>4 DEF UserMemory

\* What the kernel takes for a program's memory is the program's, whatever the files, the
\* arguments and the sizes of a frame, of the stack and of the address space: the arguments
\* lie on the mapped stack, none over another, and user_slice_ok says yes for the ranges that
\* user mode can see and for no others (elfload.rs:87-157, 183-246, vmm.rs:139-169, 226-255).
THEOREM ProgramMemory == MemSpec => []UserMemory
<1>1. MemInit => MemInv /\ UserInv
  BY MemInitStep, UserInitStep
<1>2. MemInv /\ UserInv /\ [MemNext]_memVars => MemInv' /\ UserInv'
  BY MemNextStep, UserNextStep
<1>3. UserInv => UserMemory
  BY UserInvIs
<1> QED  BY <1>1, <1>2, <1>3, PTL DEF MemSpec

-----------------------------------------------------------------------------
(* XhciRing: the rings carry every command.                                *)

Bits == {0, 1}

\* A ring of n TRBs whose consumer is at index i with cycle state c holds the sequence q:
\* the TRBs of q are the consumer's, and the others are not.
Carries(ring, n, i, c, q) ==
    /\ \A k \in 0 .. Len(q) - 1 : ring[TrbAt(n, i, k)] = Trb(Turn(n, i, c, k), q[k + 1])
    /\ \A k \in Len(q) .. n - 1 : ring[TrbAt(n, i, k)].cycle = Flip(Turn(n, i, c, k))

\* A ring is a function of the indices up to n.
IsRing(ring, n) == ring = [k \in 0 .. n |-> ring[k]]

LEMMA TrbAtIs ==
    ASSUME NEW n \in Nat \ {0}, NEW i \in Nat, NEW k \in Nat, i + k < 2 * n
    PROVE  /\ TrbAt(n, i, k) = IF i + k < n THEN i + k ELSE i + k - n
           /\ TrbAt(n, i, k) \in 0 .. n - 1
<1>1. \A b \in Nat \ {0} : \A a \in 0 .. b - 1 : a % b = a /\ (a + b) % b = a
  OBVIOUS
<1>2. CASE i + k < n
  BY <1>1, <1>2 DEF TrbAt
<1>3. CASE ~(i + k < n)
  <2>1. PICK a \in 0 .. n - 1 : a = i + k - n
    BY <1>3
  <2>2. i + k = a + n
    BY <2>1
  <2>3. (a + n) % n = a
    BY <1>1
  <2> QED  BY <1>3, <2>1, <2>2, <2>3 DEF TrbAt
<1> QED  BY <1>2, <1>3

\* Two TRBs less than a lap apart are two.
LEMMA TrbsDiffer ==
    ASSUME NEW n \in Nat \ {0}, NEW i \in 0 .. n, NEW j \in 0 .. n - 1, NEW k \in 0 .. n - 1, j # k
    PROVE  TrbAt(n, i, j) # TrbAt(n, i, k)
<1>1. i \in Nat /\ j \in Nat /\ k \in Nat /\ i + j < 2 * n /\ i + k < 2 * n
  OBVIOUS
<1>2. /\ TrbAt(n, i, j) = IF i + j < n THEN i + j ELSE i + j - n
      /\ TrbAt(n, i, k) = IF i + k < n THEN i + k ELSE i + k - n
  BY <1>1, TrbAtIs
<1> QED  BY <1>1, <1>2

LEMMA TurnIs ==
    ASSUME NEW n, NEW i, NEW c \in Bits, NEW k
    PROVE  /\ Turn(n, i, c, k) \in Bits /\ Flip(Turn(n, i, c, k)) \in Bits
           /\ Flip(Turn(n, i, c, k)) # Turn(n, i, c, k) /\ Flip(c) \in Bits /\ Flip(Flip(c)) = c
BY DEF Turn, Flip, Bits

\* A TRB written behind the last one is the consumer's next.
LEMMA CarriesMore ==
    ASSUME NEW n \in Nat \ {0}, NEW i \in 0 .. n, NEW c \in Bits, NEW D, NEW q \in Seq(D), NEW d \in D,
           Len(q) < n, NEW ring, NEW new,
           Carries(ring, n, i, c, q),
           new[TrbAt(n, i, Len(q))] = Trb(Turn(n, i, c, Len(q)), d),
           \A x \in 0 .. n - 1 : x # TrbAt(n, i, Len(q)) => new[x] = ring[x]
    PROVE  Carries(new, n, i, c, Append(q, d))
<1>1. /\ Len(q) \in Nat /\ Append(q, d) \in Seq(D) /\ Len(Append(q, d)) = Len(q) + 1
      /\ Append(q, d)[Len(q) + 1] = d
      /\ \A k \in 0 .. Len(q) - 1 : Append(q, d)[k + 1] = q[k + 1]
  OBVIOUS
<1>2. PICK r : r = Append(q, d)
  OBVIOUS
<1>3. \A k \in 0 .. n - 1 : k # Len(q) => new[TrbAt(n, i, k)] = ring[TrbAt(n, i, k)]
  <2> TAKE k \in 0 .. n - 1
  <2> HAVE k # Len(q)
  <2>1. Len(q) \in 0 .. n - 1 /\ k \in Nat /\ i \in Nat /\ i + k < 2 * n
    BY <1>1
  <2>2. TrbAt(n, i, k) # TrbAt(n, i, Len(q))
    BY <2>1, TrbsDiffer
  <2>3. TrbAt(n, i, k) \in 0 .. n - 1
    BY <2>1, TrbAtIs
  <2> QED  BY <2>2, <2>3
<1>4. ASSUME NEW k \in 0 .. Len(r) - 1 PROVE new[TrbAt(n, i, k)] = Trb(Turn(n, i, c, k), r[k + 1])
  <2>1. CASE k = Len(q)
    BY <1>1, <1>2, <2>1
  <2>2. CASE k # Len(q)
    <3>1. k \in 0 .. Len(q) - 1 /\ k \in 0 .. n - 1
      BY <1>1, <1>2, <2>2
    <3>2. ring[TrbAt(n, i, k)] = Trb(Turn(n, i, c, k), q[k + 1])
      BY <3>1 DEF Carries
    <3> QED  BY <1>1, <1>2, <1>3, <2>2, <3>1, <3>2
  <2> QED  BY <2>1, <2>2
<1>5. ASSUME NEW k \in Len(r) .. n - 1 PROVE new[TrbAt(n, i, k)].cycle = Flip(Turn(n, i, c, k))
  <2>1. k \in Len(q) .. n - 1 /\ k # Len(q) /\ k \in 0 .. n - 1
    BY <1>1, <1>2
  <2>2. ring[TrbAt(n, i, k)].cycle = Flip(Turn(n, i, c, k))
    BY <2>1 DEF Carries
  <2> QED  BY <1>3, <2>1, <2>2
<1>6. Carries(new, n, i, c, r)
  BY <1>4, <1>5 DEF Carries
<1> QED  BY <1>2, <1>6

\* A consumer that takes a TRB finds the rest behind it.
LEMMA CarriesLess ==
    ASSUME NEW n \in Nat \ {0}, NEW i \in 0 .. n - 1, NEW c \in Bits, NEW D, NEW q \in Seq(D), q # <<>>,
           Len(q) <= n, NEW ring, Carries(ring, n, i, c, q)
    PROVE  /\ ring[i] = Trb(c, Head(q))
           /\ Carries(ring, n, i + 1, c, Tail(q))
<1>1. /\ Len(q) \in Nat /\ Len(q) >= 1 /\ Tail(q) \in Seq(D) /\ Len(Tail(q)) = Len(q) - 1
      /\ Head(q) = q[1]
      /\ \A k \in 0 .. Len(q) - 2 : Tail(q)[k + 1] = q[k + 2]
  OBVIOUS
<1>2. PICK r : r = Tail(q)
  OBVIOUS
<1>3. i \in Nat /\ 0 \in 0 .. Len(q) - 1 /\ i + 0 = i /\ i < n /\ i + 0 < 2 * n
  BY <1>1
<1>4. TrbAt(n, i, 0) = i /\ Turn(n, i, c, 0) = c
  BY <1>3, TrbAtIs DEF Turn
<1>5. ring[TrbAt(n, i, 0)] = Trb(Turn(n, i, c, 0), q[0 + 1])
  BY <1>3 DEF Carries
<1>6. ring[i] = Trb(c, q[1])
  BY <1>4, <1>5
<1>7. \A k \in Nat : TrbAt(n, i + 1, k) = TrbAt(n, i, k + 1) /\ Turn(n, i + 1, c, k) = Turn(n, i, c, k + 1)
  <2> TAKE k \in Nat
  <2>1. (i + 1) + k = i + (k + 1)
    BY <1>3
  <2> QED  BY <2>1 DEF TrbAt, Turn
<1>8. ASSUME NEW k \in 0 .. Len(r) - 1 PROVE ring[TrbAt(n, i + 1, k)] = Trb(Turn(n, i + 1, c, k), r[k + 1])
  <2>1. k \in Nat /\ k + 1 \in 0 .. Len(q) - 1 /\ k \in 0 .. Len(q) - 2 /\ (k + 1) + 1 = k + 2
    BY <1>1, <1>2
  <2>2. ring[TrbAt(n, i, k + 1)] = Trb(Turn(n, i, c, k + 1), q[(k + 1) + 1])
    BY <2>1 DEF Carries
  <2> QED  BY <1>1, <1>2, <1>7, <2>1, <2>2
<1>9. ASSUME NEW k \in Len(r) .. n - 1 PROVE ring[TrbAt(n, i + 1, k)].cycle = Flip(Turn(n, i + 1, c, k))
  <2>1. CASE k = n - 1
    <3>1. i + 1 \in Nat /\ k \in Nat /\ (i + 1) + k = i + n /\ (i + 1) + k < 2 * n /\ ~((i + 1) + k < n)
      BY <1>3, <2>1
    <3>2. TrbAt(n, i + 1, k) = (i + 1) + k - n
      BY <3>1, TrbAtIs
    <3>3. TrbAt(n, i + 1, k) = i
      BY <1>3, <3>1, <3>2
    <3>4. Turn(n, i + 1, c, k) = Flip(c)
      BY <3>1 DEF Turn
    <3>5. ring[i].cycle = c
      BY <1>6 DEF Trb
    <3> QED  BY <3>3, <3>4, <3>5, TurnIs
  <2>2. CASE k # n - 1
    <3>1. k \in Nat /\ k + 1 \in Len(q) .. n - 1
      BY <1>1, <1>2, <2>2
    <3>2. ring[TrbAt(n, i, k + 1)].cycle = Flip(Turn(n, i, c, k + 1))
      BY <3>1 DEF Carries
    <3> QED  BY <1>7, <3>1, <3>2
  <2> QED  BY <2>1, <2>2
<1>10. Carries(ring, n, i + 1, c, r)
  BY <1>8, <1>9 DEF Carries
<1> QED  BY <1>1, <1>2, <1>6, <1>10

\* Behind the last TRB is the first, with the other cycle state.
LEMMA CarriesRound ==
    ASSUME NEW n \in Nat \ {0}, NEW c \in Bits, NEW D, NEW q \in Seq(D), Len(q) <= n, NEW ring,
           Carries(ring, n, n, c, q)
    PROVE  Carries(ring, n, 0, Flip(c), q)
<1>1. \A k \in 0 .. n - 1 : TrbAt(n, n, k) = TrbAt(n, 0, k) /\ Turn(n, n, c, k) = Turn(n, 0, Flip(c), k)
  <2> TAKE k \in 0 .. n - 1
  <2>1. n \in Nat /\ 0 \in Nat /\ k \in Nat /\ n + k < 2 * n /\ 0 + k < 2 * n /\ ~(n + k < n) /\ 0 + k < n /\ n + k - n = 0 + k
    OBVIOUS
  <2>2. TrbAt(n, n, k) = n + k - n
    BY <2>1, TrbAtIs
  <2>3. TrbAt(n, 0, k) = 0 + k
    BY <2>1, TrbAtIs
  <2> QED  BY <2>1, <2>2, <2>3 DEF Turn
<1>2. Len(q) \in Nat
  OBVIOUS
<1>3. (\A k \in 0 .. Len(q) - 1 : k \in 0 .. n - 1) /\ (\A k \in Len(q) .. n - 1 : k \in 0 .. n - 1)
  BY <1>2
<1> QED  BY <1>1, <1>3 DEF Carries

\* What a consumer that looks on until a TRB is not its own finds is q.
LEMMA CarriesSeen ==
    ASSUME NEW n \in Nat \ {0}, NEW i \in 0 .. n, NEW c \in Bits, NEW D, NEW q \in Seq(D), Len(q) <= n, NEW ring,
           Carries(ring, n, i, c, q)
    PROVE  /\ \A k \in 0 .. Len(q) - 1 : /\ ring[TrbAt(n, i, k)].cycle = Turn(n, i, c, k)
                                         /\ ring[TrbAt(n, i, k)].data = q[k + 1]
           /\ Len(q) < n => ring[TrbAt(n, i, Len(q))].cycle # Turn(n, i, c, Len(q))
<1>1. Len(q) \in Nat
  OBVIOUS
<1>2. ASSUME NEW k \in 0 .. Len(q) - 1
      PROVE  ring[TrbAt(n, i, k)].cycle = Turn(n, i, c, k) /\ ring[TrbAt(n, i, k)].data = q[k + 1]
  <2>1. ring[TrbAt(n, i, k)] = Trb(Turn(n, i, c, k), q[k + 1])
    BY DEF Carries
  <2> QED  BY <2>1 DEF Trb
<1>3. ASSUME Len(q) < n PROVE ring[TrbAt(n, i, Len(q))].cycle # Turn(n, i, c, Len(q))
  <2>1. Len(q) \in Len(q) .. n - 1
    BY <1>1, <1>3
  <2>2. ring[TrbAt(n, i, Len(q))].cycle = Flip(Turn(n, i, c, Len(q)))
    BY <2>1 DEF Carries
  <2> QED  BY <2>2, TurnIs
<1> QED  BY <1>2, <1>3

\* The index of the link, which is the number of TRBs for commands.
LinkAt == RING_TRBS - 1

\* The events q are between the controller and the driver; the dequeue pointer is the event
\* last taken, or the first TRB while none was, and keeps the controller from the whole lap.
EvtSide(q) ==
    /\ q \in Seq(Cmds)
    /\ drvEvt = [i |-> drvEvt.i, ccs |-> drvEvt.ccs] /\ drvEvt.i \in 0 .. EVT_TRBS - 1 /\ drvEvt.ccs \in Bits
    /\ evt = [trbs |-> evt.trbs, i |-> TrbAt(EVT_TRBS, drvEvt.i, Len(q)),
              pcs |-> Turn(EVT_TRBS, drvEvt.i, drvEvt.ccs, Len(q))]
    /\ IsRing(evt.trbs, EVT_TRBS - 1)
    /\ Carries(evt.trbs, EVT_TRBS, drvEvt.i, drvEvt.ccs, q)
    /\ \/ erdp = drvEvt.i /\ Len(q) < EVT_TRBS
       \/ erdp \in 0 .. EVT_TRBS - 1 /\ TrbAt(EVT_TRBS, erdp, 1) = drvEvt.i /\ Len(q) + 1 < EVT_TRBS

\* The commands q are between the driver and the controller; the link is the controller's
\* from the moment the driver wraps until the controller follows it.
CmdSide(q) ==
    /\ q \in Seq(Cmds) /\ Len(q) < LinkAt
    /\ hcCmd = [i |-> hcCmd.i, ccs |-> hcCmd.ccs] /\ hcCmd.i \in 0 .. LinkAt /\ hcCmd.ccs \in Bits
    /\ cmd = [trbs |-> cmd.trbs, i |-> TrbAt(LinkAt, hcCmd.i, Len(q)),
              pcs |-> Turn(LinkAt, hcCmd.i, hcCmd.ccs, Len(q))]
    /\ IsRing(cmd.trbs, LinkAt)
    /\ cmd.trbs[LinkAt] = Link(Flip(Turn(LinkAt, hcCmd.i, hcCmd.ccs, Len(q))))
    /\ Carries(cmd.trbs, LinkAt, hcCmd.i, hcCmd.ccs, q)

XhciInv == Len(flight) <= MAX_FLIGHT /\ \E qe, qc : flight = qe \o qc /\ EvtSide(qe) /\ CmdSide(qc)

LEMMA RingSizes ==
    /\ EVT_TRBS \in Nat \ {0} /\ LinkAt \in Nat \ {0} /\ MAX_FLIGHT \in Nat /\ MAX_FLIGHT < LinkAt
    /\ LinkAt = RING_TRBS - 1 /\ RING_TRBS \in Nat
BY RingConstants DEF LinkAt

\* One queue after the other: taking from the front, putting at the end, and moving the
\* first of the second behind the first.
LEMMA Queues ==
    ASSUME NEW D, NEW a \in Seq(D), NEW b \in Seq(D), NEW d \in D
    PROVE  /\ Append(a \o b, d) = a \o Append(b, d) /\ Len(a \o b) = Len(a) + Len(b)
           /\ a # <<>> => Tail(a \o b) = Tail(a) \o b
           /\ b # <<>> => a \o b = Append(a, Head(b)) \o Tail(b) /\ Head(b) \in D
<1>1. Append(a \o b, d) = a \o Append(b, d) /\ Len(a \o b) = Len(a) + Len(b)
  OBVIOUS
<1>2. ASSUME a # <<>> PROVE Tail(a \o b) = Tail(a) \o b
  <2>1. /\ Len(a) \in Nat \ {0} /\ Len(b) \in Nat /\ a \o b \in Seq(D) /\ a \o b # <<>> /\ Tail(a) \in Seq(D)
        /\ Tail(a \o b) \in Seq(D) /\ Tail(a) \o b \in Seq(D)
    BY <1>2
  <2>2. Len(Tail(a)) = Len(a) - 1 /\ Len(a \o b) = Len(a) + Len(b) /\ Len(Tail(a \o b)) = Len(a) + Len(b) - 1
        /\ Len(Tail(a) \o b) = Len(a) + Len(b) - 1
    BY <1>2, <2>1
  <2>3. \A k \in 1 .. Len(a) + Len(b) - 1 : Tail(a \o b)[k] = (Tail(a) \o b)[k]
    BY <1>2, <2>1, <2>2
  <2> QED  BY <2>1, <2>2, <2>3, SeqEqual
<1>3. ASSUME b # <<>> PROVE a \o b = Append(a, Head(b)) \o Tail(b) /\ Head(b) \in D
  <2>1. /\ Len(a) \in Nat /\ Len(b) \in Nat \ {0} /\ a \o b \in Seq(D) /\ Tail(b) \in Seq(D)
        /\ Head(b) \in D /\ Append(a, Head(b)) \in Seq(D) /\ Append(a, Head(b)) \o Tail(b) \in Seq(D)
    BY <1>3
  <2>2. /\ Len(Tail(b)) = Len(b) - 1 /\ Len(a \o b) = Len(a) + Len(b)
        /\ Len(Append(a, Head(b)) \o Tail(b)) = Len(a) + Len(b)
    BY <1>3, <2>1
  <2>3. \A k \in 1 .. Len(a) + Len(b) : (a \o b)[k] = (Append(a, Head(b)) \o Tail(b))[k]
    BY <1>3, <2>1, <2>2
  <2> QED  BY <2>1, <2>2, <2>3, SeqEqual
<1> QED  BY <1>1, <1>2, <1>3

LEMMA XhciInitStep == RingInit => XhciInv
<1> SUFFICES ASSUME RingInit PROVE XhciInv
  OBVIOUS
<1>1. \A D : <<>> \in Seq(D)
  OBVIOUS
<1>2. Len(<<>>) = 0 /\ <<>> \o <<>> = <<>>
  OBVIOUS
<1>3. 0 \in Nat /\ 0 \in Bits /\ 1 \in Bits /\ Flip(1) = 0 /\ Flip(0) = 1
  BY DEF Bits, Flip
<1>4. ASSUME NEW n \in Nat \ {0}, NEW ring, \A k \in 0 .. n - 1 : ring[k] = NoTrb
      PROVE  Carries(ring, n, 0, 1, <<>>) /\ TrbAt(n, 0, 0) = 0 /\ Turn(n, 0, 1, 0) = 1
  <2>1. \A k \in 0 .. n - 1 : TrbAt(n, 0, k) = k /\ Turn(n, 0, 1, k) = 1
    <3> TAKE k \in 0 .. n - 1
    <3>1. k \in Nat /\ 0 + k < 2 * n /\ 0 + k < n /\ 0 + k = k
      OBVIOUS
    <3> QED  BY <1>3, <3>1, TrbAtIs DEF Turn
  <2>2. \A k \in 0 .. n - 1 : ring[k].cycle = 0
    BY <1>4 DEF NoTrb, Trb
  <2> QED  BY <1>2, <1>3, <2>1, <2>2 DEF Carries
<1>5. EvtSide(<<>>)
  <2>1. \A k \in 0 .. EVT_TRBS - 1 : evt.trbs[k] = NoTrb
    BY DEF RingInit
  <2>2. drvEvt = [i |-> 0, ccs |-> 1] /\ erdp = 0 /\ evt = [trbs |-> [k \in 0 .. EVT_TRBS - 1 |-> NoTrb], i |-> 0, pcs |-> 1]
    BY DEF RingInit
  <2>3. IsRing(evt.trbs, EVT_TRBS - 1) /\ 0 \in 0 .. EVT_TRBS - 1
    BY <2>2, RingSizes DEF IsRing
  <2>4. /\ Carries(evt.trbs, EVT_TRBS, drvEvt.i, drvEvt.ccs, <<>>)
        /\ evt = [trbs |-> evt.trbs, i |-> TrbAt(EVT_TRBS, drvEvt.i, Len(<<>>)),
                  pcs |-> Turn(EVT_TRBS, drvEvt.i, drvEvt.ccs, Len(<<>>))]
    BY <1>2, <1>4, <2>1, <2>2, RingSizes
  <2> QED  BY <1>1, <1>2, <1>3, <2>2, <2>3, <2>4, RingSizes DEF EvtSide
<1>6. CmdSide(<<>>)
  <2>1. \A k \in 0 .. LinkAt - 1 : cmd.trbs[k] = NoTrb
    BY RingSizes DEF RingInit
  <2>2. cmd.trbs[LinkAt] = Link(0)
    BY RingSizes DEF RingInit
  <2>3. hcCmd = [i |-> 0, ccs |-> 1] /\ cmd = [trbs |-> cmd.trbs, i |-> 0, pcs |-> 1]
        /\ IsRing(cmd.trbs, LinkAt) /\ 0 \in 0 .. LinkAt /\ 0 < LinkAt
    BY RingSizes DEF RingInit, IsRing
  <2>4. /\ Carries(cmd.trbs, LinkAt, hcCmd.i, hcCmd.ccs, <<>>)
        /\ TrbAt(LinkAt, hcCmd.i, Len(<<>>)) = 0 /\ Turn(LinkAt, hcCmd.i, hcCmd.ccs, Len(<<>>)) = 1
    BY <1>2, <1>4, <2>1, <2>3, RingSizes
  <2> QED  BY <1>1, <1>2, <1>3, <2>2, <2>3, <2>4 DEF CmdSide
<1>7. flight = <<>> /\ Len(flight) <= MAX_FLIGHT
  BY <1>2, RingSizes DEF RingInit
<1> QED  BY <1>2, <1>5, <1>6, <1>7 DEF XhciInv

\* What bump and the write before it do to a ring that carries q: the link is handed over
\* where the index wraps.
LEMMA Enqueued ==
    ASSUME NEW n \in Nat \ {0}, RING_TRBS = n + 1, NEW i \in 0 .. n, NEW c \in Bits, NEW D, NEW q \in Seq(D), NEW d \in D,
           Len(q) + 1 < n, NEW t, IsRing(t, n), Carries(t, n, i, c, q),
           t[n] = Link(Flip(Turn(n, i, c, Len(q))))
    PROVE  \E m : /\ enqueue([trbs |-> t, i |-> TrbAt(n, i, Len(q)), pcs |-> Turn(n, i, c, Len(q))], d)
                       = [trbs |-> m, i |-> TrbAt(n, i, Len(q) + 1), pcs |-> Turn(n, i, c, Len(q) + 1)]
                  /\ IsRing(m, n) /\ Carries(m, n, i, c, Append(q, d))
                  /\ m[n] = Link(Flip(Turn(n, i, c, Len(q) + 1)))
<1>1. PICK L \in Nat : L = Len(q)
  OBVIOUS
<1>2. PICK s, p : s = TrbAt(n, i, L) /\ p = Turn(n, i, c, L)
  OBVIOUS
<1>3. i \in Nat /\ L \in Nat /\ L + 1 \in Nat /\ L + 1 < n /\ i + L < 2 * n /\ i + (L + 1) < 2 * n
  BY <1>1
<1>4. s = (IF i + L < n THEN i + L ELSE i + L - n) /\ s \in 0 .. n - 1
  BY <1>2, <1>3, TrbAtIs
<1>5. TrbAt(n, i, L + 1) = IF i + (L + 1) < n THEN i + (L + 1) ELSE i + (L + 1) - n
  BY <1>3, TrbAtIs
<1>6. PICK w : w = [t EXCEPT ![s] = Trb(p, d)]
  OBVIOUS
<1>7. w = [k \in 0 .. n |-> IF k = s THEN Trb(p, d) ELSE t[k]]
  BY <1>4, <1>6 DEF IsRing
<1>8. n \in 0 .. n /\ s \in 0 .. n /\ s # n /\ 0 .. n - 1 \subseteq 0 .. n
  BY <1>4
<1>9. enqueue([trbs |-> t, i |-> s, pcs |-> p], d) = bump([trbs |-> w, i |-> s, pcs |-> p])
  BY <1>6 DEF enqueue
<1>10. CASE s + 2 >= n + 1
  <2>1. i + (L + 1) = n /\ i + L < n
    BY <1>3, <1>4, <1>10
  <2>2. TrbAt(n, i, L + 1) = 0 /\ Turn(n, i, c, L + 1) = Flip(c) /\ p = c
    BY <1>2, <1>5, <2>1 DEF Turn
  <2>3. PICK m : m = [k \in 0 .. n |-> IF k = n THEN Link(p) ELSE w[k]]
    OBVIOUS
  <2>4. m = [w EXCEPT ![n] = Link(p)]
    BY <1>7, <2>3
  <2>9. RING_TRBS - 1 = n
    OBVIOUS
  <2>5. bump([trbs |-> w, i |-> s, pcs |-> p]) = [trbs |-> m, i |-> 0, pcs |-> Flip(p)]
    BY <1>10, <2>4, <2>9 DEF bump
  <2>6. IsRing(m, n) /\ m[s] = Trb(p, d) /\ m[n] = Link(p) /\ \A x \in 0 .. n - 1 : x # s => m[x] = t[x]
    BY <1>7, <1>8, <2>3 DEF IsRing
  <2>7. Carries(m, n, i, c, Append(q, d))
    BY <1>1, <1>2, <1>3, <2>6, CarriesMore
  <2>8. Flip(Turn(n, i, c, L + 1)) = p
    BY <2>2, TurnIs
  <2> QED  BY <1>1, <1>2, <1>9, <2>2, <2>5, <2>6, <2>7, <2>8
<1>11. CASE ~(s + 2 >= n + 1)
  <2>1. s + 1 = TrbAt(n, i, L + 1)
    BY <1>3, <1>4, <1>5, <1>11
  <2>2. (i + (L + 1) < n) <=> (i + L < n)
    BY <1>3, <1>4, <1>11
  <2>3. Turn(n, i, c, L + 1) = p
    BY <1>2, <2>2 DEF Turn
  <2>4. bump([trbs |-> w, i |-> s, pcs |-> p]) = [trbs |-> w, i |-> s + 1, pcs |-> p]
    BY <1>11 DEF bump
  <2>5. IsRing(w, n) /\ w[s] = Trb(p, d) /\ w[n] = t[n] /\ \A x \in 0 .. n - 1 : x # s => w[x] = t[x]
    BY <1>7, <1>8 DEF IsRing
  <2>6. Carries(w, n, i, c, Append(q, d))
    BY <1>1, <1>2, <1>3, <2>5, CarriesMore
  <2> QED  BY <1>1, <1>2, <1>9, <2>1, <2>3, <2>4, <2>5, <2>6
<1> QED  BY <1>10, <1>11

\* A command put on the ring.
LEMMA CmdSent ==
    ASSUME NEW q, CmdSide(q), NEW d \in Cmds, Len(q) + 1 < LinkAt, cmd' = enqueue(cmd, d), hcCmd' = hcCmd
    PROVE  CmdSide(Append(q, d))'
<1>1. PICK n, i, c, t : n = LinkAt /\ i = hcCmd.i /\ c = hcCmd.ccs /\ t = cmd.trbs
  OBVIOUS
<1>2. /\ n \in Nat \ {0} /\ i \in 0 .. n /\ c \in Bits /\ q \in Seq(Cmds) /\ RING_TRBS = n + 1 /\ Len(q) + 1 < n
      /\ IsRing(t, n) /\ Carries(t, n, i, c, q) /\ t[n] = Link(Flip(Turn(n, i, c, Len(q))))
  BY <1>1, RingSizes DEF CmdSide
<1>3. cmd = [trbs |-> t, i |-> TrbAt(n, i, Len(q)), pcs |-> Turn(n, i, c, Len(q))] /\ hcCmd = [i |-> i, ccs |-> c]
  BY <1>1 DEF CmdSide
<1>4. PICK m : /\ enqueue([trbs |-> t, i |-> TrbAt(n, i, Len(q)), pcs |-> Turn(n, i, c, Len(q))], d)
                    = [trbs |-> m, i |-> TrbAt(n, i, Len(q) + 1), pcs |-> Turn(n, i, c, Len(q) + 1)]
               /\ IsRing(m, n) /\ Carries(m, n, i, c, Append(q, d))
               /\ m[n] = Link(Flip(Turn(n, i, c, Len(q) + 1)))
  BY <1>2, Enqueued
<1>5. Append(q, d) \in Seq(Cmds) /\ Len(Append(q, d)) = Len(q) + 1
  BY <1>2
<1>6. cmd' = [trbs |-> m, i |-> TrbAt(n, i, Len(q) + 1), pcs |-> Turn(n, i, c, Len(q) + 1)]
  BY <1>3, <1>4
<1> QED  BY <1>1, <1>2, <1>3, <1>4, <1>5, <1>6 DEF CmdSide, LinkAt

\* The controller fetches the oldest command, never the link nor a TRB of the driver's.
LEMMA CmdFetched ==
    ASSUME NEW q, CmdSide(q), cmd.trbs[hcCmd.i].cycle = hcCmd.ccs, cmd.trbs[hcCmd.i].data # "link",
           hcCmd' = [hcCmd EXCEPT !.i = @ + 1], cmd' = cmd
    PROVE  q # <<>> /\ cmd.trbs[hcCmd.i].data = Head(q) /\ CmdSide(Tail(q))'
<1>0. PICK n, i, c, L, t : n = LinkAt /\ i = hcCmd.i /\ c = hcCmd.ccs /\ L = Len(q) /\ t = cmd.trbs
  OBVIOUS
<1>1. n \in Nat \ {0} /\ i \in 0 .. n /\ c \in Bits /\ q \in Seq(Cmds) /\ L \in Nat /\ L < n
  BY <1>0, RingSizes DEF CmdSide
<1>2. /\ cmd = [trbs |-> t, i |-> TrbAt(n, i, L), pcs |-> Turn(n, i, c, L)]
      /\ IsRing(t, n) /\ Carries(t, n, i, c, q)
      /\ t[n] = Link(Flip(Turn(n, i, c, L)))
      /\ hcCmd = [i |-> i, ccs |-> c]
  BY <1>0 DEF CmdSide
<1>3. i \in 0 .. n - 1 /\ i + 1 \in 0 .. n /\ i \in Nat
  <2>1. t[n].data = "link"
    BY <1>0, <1>2 DEF Link, Trb
  <2> QED  BY <1>0, <1>1, <2>1
<1>a. t[TrbAt(n, i, Len(q))].cycle # Turn(n, i, c, Len(q))
  <2>1. Len(q) <= n /\ Len(q) < n
    BY <1>0, <1>1
  <2> QED  BY <1>1, <1>2, <2>1, CarriesSeen
<1>4. q # <<>>
  <2> SUFFICES ASSUME q = <<>> PROVE FALSE
    OBVIOUS
  <2>1. L = 0 /\ L < n /\ i + 0 < 2 * n /\ i + 0 < n /\ i + 0 = i
    BY <1>0, <1>1, <1>3
  <2>2. TrbAt(n, i, 0) = i /\ Turn(n, i, c, 0) = c
    BY <1>0, <1>3, <1>1, <2>1, TrbAtIs DEF Turn
  <2> QED  BY <1>0, <1>a, <2>1, <2>2
<1>5. /\ t[i] = Trb(c, Head(q)) /\ Carries(t, n, i + 1, c, Tail(q))
  <2>1. Len(q) <= n
    BY <1>0, <1>1
  <2> QED  BY <1>1, <1>2, <1>3, <1>4, <2>1, CarriesLess
<1>6. Tail(q) \in Seq(Cmds) /\ Len(Tail(q)) = L - 1 /\ L >= 1
  BY <1>0, <1>1, <1>4
<1>7. (i + 1) + (L - 1) = i + L
  BY <1>0, <1>1, <1>3, <1>6
<1>8. TrbAt(n, i + 1, L - 1) = TrbAt(n, i, L) /\ Turn(n, i + 1, c, L - 1) = Turn(n, i, c, L)
  BY <1>0, <1>7 DEF TrbAt, Turn
<1>9. hcCmd' = [i |-> i + 1, ccs |-> c] /\ L - 1 < n
  BY <1>0, <1>1, <1>2
<1>10. CmdSide(Tail(q))'
  BY <1>0, <1>1, <1>2, <1>3, <1>5, <1>6, <1>8, <1>9 DEF CmdSide, LinkAt
<1>11. t[i].data = Head(q)
  BY <1>0, <1>5 DEF Trb
<1> QED  BY <1>0, <1>4, <1>10, <1>11

\* The link leads the controller to the first TRB, with the other cycle state.
LEMMA LinkFollowed ==
    ASSUME NEW q, CmdSide(q), cmd.trbs[hcCmd.i] = Link(hcCmd.ccs),
           hcCmd' = [i |-> 0, ccs |-> Flip(hcCmd.ccs)], cmd' = cmd
    PROVE  CmdSide(q)'
<1>0. PICK n, i, c, L, t : n = LinkAt /\ i = hcCmd.i /\ c = hcCmd.ccs /\ L = Len(q) /\ t = cmd.trbs
  OBVIOUS
<1>1. n \in Nat \ {0} /\ i \in 0 .. n /\ c \in Bits /\ q \in Seq(Cmds) /\ L \in Nat /\ L < n
  BY <1>0, RingSizes DEF CmdSide
<1>2. /\ cmd = [trbs |-> t, i |-> TrbAt(n, i, L), pcs |-> Turn(n, i, c, L)]
      /\ IsRing(t, n) /\ Carries(t, n, i, c, q)
      /\ t[n] = Link(Flip(Turn(n, i, c, L)))
  BY <1>0 DEF CmdSide
<1>3. i = n
  <2> SUFFICES ASSUME i # n PROVE FALSE
    OBVIOUS
  <2>1. i \in 0 .. n - 1 /\ i \in Nat /\ i + 0 = i /\ i + 0 < 2 * n /\ i + 0 < n
    BY <1>0, <1>1
  <2>2. TrbAt(n, i, 0) = i /\ Turn(n, i, c, 0) = c
    BY <1>0, <1>1, <2>1, TrbAtIs DEF Turn
  <2>3. t[i].cycle = c /\ t[i].data = "link"
    BY <1>0 DEF Link, Trb
  <2>4. CASE L = 0
    <3>1. t[TrbAt(n, i, L)].cycle # Turn(n, i, c, L)
      BY <1>0, <1>1, <1>2, CarriesSeen
    <3> QED  BY <1>0, <2>2, <2>3, <2>4, <3>1
  <2>5. CASE L # 0
    <3>1. 0 \in 0 .. Len(q) - 1 /\ q[1] \in Cmds
      BY <1>0, <1>1, <2>5
    <3>2. t[TrbAt(n, i, 0)].data = q[0 + 1]
      BY <1>0, <1>1, <1>2, <3>1, CarriesSeen
    <3> QED  BY <1>0, <2>2, <2>3, <3>1, <3>2, RingConstants
  <2> QED  BY <1>0, <2>4, <2>5
<1>4. Carries(t, n, 0, Flip(c), q)
  BY <1>0, <1>1, <1>2, <1>3, CarriesRound
<1>5. /\ n + L < 2 * n /\ ~(n + L < n) /\ 0 + L < n /\ 0 + L < 2 * n /\ n + L - n = 0 + L /\ n \in Nat /\ 0 \in Nat
      /\ 0 \in 0 .. n
  BY <1>0, <1>1
<1>6. TrbAt(n, n, L) = TrbAt(n, 0, L)
  BY <1>0, <1>1, <1>5, TrbAtIs
<1>7. Turn(n, n, c, L) = Flip(c) /\ Turn(n, 0, Flip(c), L) = Flip(c) /\ Flip(c) \in Bits
  BY <1>0, <1>1, <1>5, TurnIs DEF Turn
<1> QED  BY <1>0, <1>1, <1>2, <1>3, <1>4, <1>5, <1>6, <1>7 DEF CmdSide

\* An event posted: the dequeue pointer leaves room for it.
LEMMA EvtPosted ==
    ASSUME NEW q, EvtSide(q), NEW d \in Cmds, (evt.i + 1) % EVT_TRBS # erdp,
           evt' = [trbs |-> [evt.trbs EXCEPT ![evt.i] = Trb(evt.pcs, d)], i |-> (evt.i + 1) % EVT_TRBS,
                   pcs |-> IF (evt.i + 1) % EVT_TRBS = 0 THEN Flip(evt.pcs) ELSE evt.pcs],
           drvEvt' = drvEvt, erdp' = erdp
    PROVE  EvtSide(Append(q, d))'
<1>0. PICK n, i, c, L, t, s, p, j :
        /\ n = EVT_TRBS /\ i = drvEvt.i /\ c = drvEvt.ccs /\ L = Len(q) /\ t = evt.trbs /\ s = evt.i /\ p = evt.pcs
        /\ j = (s + 1) % n
  OBVIOUS
<1>1. n \in Nat \ {0} /\ i \in 0 .. n - 1 /\ i \in 0 .. n /\ c \in Bits /\ q \in Seq(Cmds) /\ L \in Nat
  BY <1>0, RingSizes DEF EvtSide
<1>2. s = TrbAt(n, i, L) /\ p = Turn(n, i, c, L) /\ IsRing(t, n - 1) /\ Carries(t, n, i, c, q) /\ drvEvt = [i |-> i, ccs |-> c]
  BY <1>0 DEF EvtSide
<1>3. (erdp = i /\ L < n) \/ (erdp \in 0 .. n - 1 /\ TrbAt(n, erdp, 1) = i /\ L + 1 < n)
  BY <1>0 DEF EvtSide
<1>4. L < n /\ L + 1 \in Nat /\ i \in Nat /\ i + L < 2 * n /\ i + (L + 1) < 2 * n
  BY <1>1, <1>3
<1>5. s = (IF i + L < n THEN i + L ELSE i + L - n) /\ s \in 0 .. n - 1
  BY <1>1, <1>2, <1>4, TrbAtIs
<1>6. 1 \in Nat /\ s + 1 < 2 * n /\ s \in Nat
  BY <1>1, <1>5
<1>7. j = TrbAt(n, s, 1)
  BY <1>0 DEF TrbAt
<1>8. j = (IF s + 1 < n THEN s + 1 ELSE s + 1 - n) /\ j \in 0 .. n - 1
  BY <1>1, <1>5, <1>6, <1>7, TrbAtIs
<1>9. /\ (erdp = i /\ L + 1 < n) \/ (erdp \in 0 .. n - 1 /\ TrbAt(n, erdp, 1) = i /\ (L + 1) + 1 < n)
      /\ L + 1 < n
  <2>1. j # erdp
    BY <1>0
  <2>2. CASE erdp = i /\ L < n
    BY <1>1, <1>5, <1>8, <2>1, <2>2
  <2>3. CASE erdp \in 0 .. n - 1 /\ TrbAt(n, erdp, 1) = i /\ L + 1 < n
    <3>1. erdp \in Nat /\ erdp + 1 < 2 * n
      BY <1>1, <2>3
    <3>2. TrbAt(n, erdp, 1) = IF erdp + 1 < n THEN erdp + 1 ELSE erdp + 1 - n
      BY <1>1, <1>6, <3>1, TrbAtIs
    <3>3. i = IF erdp + 1 < n THEN erdp + 1 ELSE erdp + 1 - n
      BY <2>3, <3>2
    <3>4. (L + 1) + 1 < n
      BY <1>1, <1>5, <1>8, <2>1, <2>3, <3>1, <3>3
    <3> QED  BY <2>3, <3>4
  <2> QED  BY <1>3, <2>2, <2>3
<1>10. TrbAt(n, i, L + 1) = IF i + (L + 1) < n THEN i + (L + 1) ELSE i + (L + 1) - n
  BY <1>1, <1>4, TrbAtIs
<1>11. j = TrbAt(n, i, L + 1) /\ (j = 0 <=> i + (L + 1) = n)
  BY <1>1, <1>5, <1>8, <1>9, <1>10
<1>12. Turn(n, i, c, L + 1) = IF j = 0 THEN Flip(p) ELSE p
  <2>1. CASE i + (L + 1) = n
    BY <1>1, <1>2, <1>11, <2>1 DEF Turn
  <2>2. CASE i + (L + 1) # n
    <3>1. i + (L + 1) < n => i + L < n
      BY <1>1, <1>4
    <3>2. i + L < n => i + (L + 1) < n
      BY <1>1, <1>4, <2>2
    <3> QED  BY <1>2, <1>11, <2>2, <3>1, <3>2 DEF Turn
  <2> QED  BY <2>1, <2>2
<1>13. PICK m : m = [t EXCEPT ![s] = Trb(p, d)]
  OBVIOUS
<1>14. IsRing(m, n - 1) /\ m[s] = Trb(p, d) /\ \A x \in 0 .. n - 1 : x # s => m[x] = t[x]
  BY <1>2, <1>5, <1>13 DEF IsRing
<1>15. Carries(m, n, i, c, Append(q, d))
  <2>1. Len(q) < n /\ s = TrbAt(n, i, Len(q)) /\ p = Turn(n, i, c, Len(q))
    BY <1>0, <1>2, <1>4
  <2> QED  BY <1>1, <1>2, <1>14, <2>1, CarriesMore
<1>16. Append(q, d) \in Seq(Cmds) /\ Len(Append(q, d)) = L + 1
  BY <1>0, <1>1
<1>17. evt' = [trbs |-> m, i |-> TrbAt(n, i, L + 1), pcs |-> Turn(n, i, c, L + 1)]
  BY <1>0, <1>11, <1>12, <1>13
<1>18. n = EVT_TRBS /\ drvEvt' = [i |-> i, ccs |-> c] /\ erdp' = erdp
  BY <1>0, <1>2
<1> QED  BY <1>1, <1>9, <1>14, <1>15, <1>16, <1>17, <1>18 DEF EvtSide

\* An event taken: it is the oldest, and the dequeue pointer is where it was.
LEMMA EvtTaken ==
    ASSUME NEW q, EvtSide(q), pop_evt
    PROVE  q # <<>> /\ EvtSide(Tail(q))'
<1>0. PICK n, i, c, L, t :
        n = EVT_TRBS /\ i = drvEvt.i /\ c = drvEvt.ccs /\ L = Len(q) /\ t = evt.trbs
  OBVIOUS
<1>1. n \in Nat \ {0} /\ i \in 0 .. n - 1 /\ i \in 0 .. n /\ c \in Bits /\ q \in Seq(Cmds) /\ L \in Nat
  BY <1>0, RingSizes DEF EvtSide
<1>2. /\ evt = [trbs |-> t, i |-> TrbAt(n, i, L), pcs |-> Turn(n, i, c, L)]
      /\ IsRing(t, n - 1) /\ Carries(t, n, i, c, q) /\ drvEvt = [i |-> i, ccs |-> c]
  BY <1>0 DEF EvtSide
<1>3. L < n /\ (L + 1 < n \/ erdp = i)
  BY <1>0, <1>1 DEF EvtSide
<1>4. /\ t[i].cycle = c /\ erdp' = i /\ evt' = evt
      /\ drvEvt' = IF i + 1 = n THEN [i |-> 0, ccs |-> Flip(c)] ELSE [i |-> i + 1, ccs |-> c]
  BY <1>0, <1>2 DEF pop_evt
<1>5. q # <<>>
  <2>1. Len(q) <= n /\ Len(q) < n
    BY <1>0, <1>1, <1>3
  <2>2. t[TrbAt(n, i, Len(q))].cycle # Turn(n, i, c, Len(q))
    BY <1>1, <1>2, <2>1, CarriesSeen
  <2>3. i \in Nat /\ i + 0 = i /\ i + 0 < n /\ i + 0 < 2 * n
    BY <1>1
  <2>4. TrbAt(n, i, 0) = i /\ Turn(n, i, c, 0) = c
    BY <1>1, <2>3, TrbAtIs DEF Turn
  <2>5. Len(q) # 0
    BY <1>4, <2>2, <2>4
  <2> QED  BY <2>5
<1>6. Carries(t, n, i + 1, c, Tail(q))
  <2>1. Len(q) <= n
    BY <1>0, <1>1, <1>3
  <2> QED  BY <1>1, <1>2, <1>5, <2>1, CarriesLess
<1>7. Tail(q) \in Seq(Cmds) /\ Len(Tail(q)) = L - 1 /\ L >= 1 /\ L - 1 \in Nat
  BY <1>0, <1>1, <1>5
<1>8. (i + 1) + (L - 1) = i + L /\ i \in Nat /\ i + 1 \in Nat /\ i + 1 < 2 * n
  BY <1>1, <1>7
<1>9. TrbAt(n, i + 1, L - 1) = TrbAt(n, i, L) /\ Turn(n, i + 1, c, L - 1) = Turn(n, i, c, L)
  BY <1>8 DEF TrbAt, Turn
<1>10. TrbAt(n, i, 1) = IF i + 1 < n THEN i + 1 ELSE i + 1 - n
  BY <1>1, <1>8, TrbAtIs
<1>11. L - 1 + 1 < n /\ i \in 0 .. n - 1
  BY <1>1, <1>3
<1>12. CASE i + 1 = n
  <2>1. Carries(t, n, n, c, Tail(q)) /\ Len(Tail(q)) <= n
    BY <1>1, <1>3, <1>6, <1>7, <1>12
  <2>2. Carries(t, n, 0, Flip(c), Tail(q))
    BY <1>1, <1>7, <2>1, CarriesRound
  <2>3. /\ n + (L - 1) < 2 * n /\ ~(n + (L - 1) < n) /\ 0 + (L - 1) < n /\ 0 + (L - 1) < 2 * n
        /\ n + (L - 1) - n = 0 + (L - 1) /\ n \in Nat /\ 0 \in Nat /\ 0 \in 0 .. n - 1
    BY <1>1, <1>3, <1>7
  <2>4. TrbAt(n, n, L - 1) = TrbAt(n, 0, L - 1)
    BY <1>1, <1>7, <2>3, TrbAtIs
  <2>5. Turn(n, n, c, L - 1) = Flip(c) /\ Turn(n, 0, Flip(c), L - 1) = Flip(c) /\ Flip(c) \in Bits
    BY <1>1, <2>3, TurnIs DEF Turn
  <2>6. TrbAt(n, i, L) = TrbAt(n, 0, L - 1) /\ Turn(n, i, c, L) = Turn(n, 0, Flip(c), L - 1) /\ TrbAt(n, i, 1) = 0
    BY <1>1, <1>9, <1>10, <1>12, <2>4, <2>5
  <2>7. drvEvt' = [i |-> 0, ccs |-> Flip(c)] /\ n = EVT_TRBS
    BY <1>0, <1>4, <1>12
  <2>8. evt' = [trbs |-> t, i |-> TrbAt(n, 0, L - 1), pcs |-> Turn(n, 0, Flip(c), L - 1)]
    BY <1>2, <1>4, <2>6
  <2>9. EvtSide(Tail(q))'
    BY <1>1, <1>2, <1>4, <1>7, <1>11, <2>2, <2>3, <2>5, <2>6, <2>7, <2>8 DEF EvtSide
  <2> QED  BY <1>5, <2>9
<1>13. CASE i + 1 # n
  <2>1. i + 1 \in 0 .. n - 1 /\ TrbAt(n, i, 1) = i + 1
    BY <1>1, <1>10, <1>13
  <2>2. drvEvt' = [i |-> i + 1, ccs |-> c] /\ n = EVT_TRBS
    BY <1>0, <1>4, <1>13
  <2>3. evt' = [trbs |-> t, i |-> TrbAt(n, i + 1, L - 1), pcs |-> Turn(n, i + 1, c, L - 1)]
    BY <1>2, <1>4, <1>9
  <2>4. EvtSide(Tail(q))'
    BY <1>1, <1>2, <1>4, <1>6, <1>7, <1>11, <2>1, <2>2, <2>3 DEF EvtSide
  <2> QED  BY <1>5, <2>4
<1> QED  BY <1>12, <1>13

LEMMA XhciNextStep == XhciInv /\ [RingNext]_ringVars => XhciInv'
<1> SUFFICES ASSUME XhciInv, [RingNext]_ringVars PROVE XhciInv'
  OBVIOUS
<1>1. PICK qe, qc : flight = qe \o qc /\ EvtSide(qe) /\ CmdSide(qc)
  BY DEF XhciInv
<1>2. qe \in Seq(Cmds) /\ qc \in Seq(Cmds) /\ Len(flight) <= MAX_FLIGHT /\ flight \in Seq(Cmds)
  BY <1>1 DEF EvtSide, CmdSide, XhciInv
<1>3. Len(flight) = Len(qe) + Len(qc)
  BY <1>1, <1>2
<1>4. CASE EnqueueCmd
  <2>1. PICK d \in Cmds : /\ Len(flight) < MAX_FLIGHT /\ cmd' = enqueue(cmd, d) /\ flight' = Append(flight, d)
                          /\ UNCHANGED <<hcCmd, evt, drvEvt, erdp>>
    BY <1>4 DEF EnqueueCmd
  <2>2. Len(qc) + 1 < LinkAt
    <3>1. Len(qc) \in Nat /\ Len(qe) \in Nat
      BY <1>2
    <3> QED  BY <1>3, <2>1, <3>1, RingSizes
  <2>3. CmdSide(Append(qc, d))'
    BY <1>1, <2>1, <2>2, CmdSent
  <2>4. EvtSide(qe)'
    BY <1>1, <2>1 DEF EvtSide
  <2>5. flight' = qe \o Append(qc, d) /\ Len(flight') = Len(flight) + 1
    <3>1. Append(qe \o qc, d) = qe \o Append(qc, d)
      BY <1>2, Queues
    <3>2. Len(Append(flight, d)) = Len(flight) + 1
      BY <1>2
    <3> QED  BY <1>1, <2>1, <3>1, <3>2
  <2>6. Len(flight') <= MAX_FLIGHT
    BY <1>2, <2>1, <2>5, RingSizes
  <2> QED  BY <2>3, <2>4, <2>5, <2>6 DEF XhciInv
<1>5. CASE HcLink
  <2>1. /\ cmd.trbs[hcCmd.i] = Link(hcCmd.ccs) /\ hcCmd' = [i |-> 0, ccs |-> Flip(hcCmd.ccs)]
        /\ cmd' = cmd /\ evt' = evt /\ drvEvt' = drvEvt /\ erdp' = erdp /\ flight' = flight
    BY <1>5 DEF HcLink
  <2>2. CmdSide(qc)'
    BY <1>1, <2>1, LinkFollowed
  <2>3. EvtSide(qe)'
    BY <1>1, <2>1 DEF EvtSide
  <2> QED  BY <1>1, <1>2, <2>1, <2>2, <2>3 DEF XhciInv
<1>6. CASE HcCommand
  <2>1. PICK t : t = cmd.trbs[hcCmd.i]
    OBVIOUS
  <2>2. /\ t.cycle = hcCmd.ccs /\ t.data # "link" /\ (evt.i + 1) % EVT_TRBS # erdp
        /\ hcCmd' = [hcCmd EXCEPT !.i = @ + 1]
        /\ evt' = [trbs |-> [evt.trbs EXCEPT ![evt.i] = Trb(evt.pcs, t.data)], i |-> (evt.i + 1) % EVT_TRBS,
                   pcs |-> IF (evt.i + 1) % EVT_TRBS = 0 THEN Flip(evt.pcs) ELSE evt.pcs]
        /\ cmd' = cmd /\ drvEvt' = drvEvt /\ erdp' = erdp /\ flight' = flight
    BY Zenon, <1>6, <2>1 DEF HcCommand
  <2>3. qc # <<>> /\ t.data = Head(qc) /\ CmdSide(Tail(qc))'
    BY <1>1, <2>1, <2>2, CmdFetched
  <2>4. Head(qc) \in Cmds /\ t.data \in Cmds
    BY <1>2, <2>3
  <2>5. EvtSide(Append(qe, t.data))'
    BY <1>1, <2>2, <2>4, EvtPosted
  <2>6. flight' = Append(qe, Head(qc)) \o Tail(qc)
    BY <1>1, <1>2, <2>2, <2>3, <2>4, Queues
  <2>7. EvtSide(Append(qe, Head(qc)))'
    BY <2>3, <2>5
  <2> QED  BY <1>2, <2>2, <2>3, <2>6, <2>7 DEF XhciInv
<1>7. CASE pop_evt
  <2>1. flight' = Tail(flight) /\ cmd' = cmd /\ hcCmd' = hcCmd
    BY <1>7 DEF pop_evt
  <2>2. qe # <<>> /\ EvtSide(Tail(qe))'
    BY <1>1, <1>7, EvtTaken
  <2>3. qe[1] \in Cmds /\ Len(qe) \in Nat /\ Len(qe) > 0 /\ Len(qc) \in Nat
    BY <1>2, <2>2
  <2>4. flight' = Tail(qe) \o qc
    BY <1>1, <1>2, <2>1, <2>2, <2>3, Queues
  <2>5. CmdSide(qc)'
    BY <1>1, <2>1 DEF CmdSide
  <2>6. Len(flight') <= MAX_FLIGHT
    <3>1. flight # <<>> /\ Len(flight) \in Nat
      BY <1>2, <1>3, <2>3
    <3>2. Len(Tail(flight)) = Len(flight) - 1
      BY <1>2, <3>1
    <3> QED  BY <1>2, <2>1, <3>1, <3>2, RingSizes
  <2> QED  BY <2>2, <2>4, <2>5, <2>6 DEF XhciInv
<1>8. CASE UNCHANGED ringVars
  <2>1. cmd' = cmd /\ hcCmd' = hcCmd /\ evt' = evt /\ drvEvt' = drvEvt /\ erdp' = erdp /\ flight' = flight
    BY <1>8 DEF ringVars
  <2>2. EvtSide(qe)' /\ CmdSide(qc)'
    BY <1>1, <2>1 DEF EvtSide, CmdSide
  <2> QED  BY <1>1, <1>2, <2>1, <2>2 DEF XhciInv
<1> QED  BY <1>4, <1>5, <1>6, <1>7, <1>8 DEF RingNext

\* The number of TRBs before the first that is not the consumer's is determined.
LEMMA CountIs ==
    ASSUME NEW P, NEW n \in Nat, NEW L \in 0 .. n, P \subseteq 0 .. n, \A k \in 0 .. L - 1 : k \in P, L < n => L \notin P
    PROVE  (CHOOSE m \in 0 .. n : (\A k \in 0 .. m - 1 : k \in P) /\ (m = n \/ m \notin P)) = L
<1>1. (\A k \in 0 .. L - 1 : k \in P) /\ (L = n \/ L \notin P)
  OBVIOUS
<1>2. ASSUME NEW m \in 0 .. n, \A k \in 0 .. m - 1 : k \in P, m = n \/ m \notin P PROVE m = L
  <2>1. ~(m < L)
    <3> SUFFICES ASSUME m < L PROVE FALSE
      OBVIOUS
    <3>1. m \in 0 .. L - 1 /\ m # n
      OBVIOUS
    <3> QED  BY <1>2, <3>1
  <2>2. ~(L < m)
    <3> SUFFICES ASSUME L < m PROVE FALSE
      OBVIOUS
    <3>1. L \in 0 .. m - 1 /\ L < n
      OBVIOUS
    <3> QED  BY <1>2, <3>1
  <2> QED  BY <2>1, <2>2
<1> QED  BY <1>1, <1>2

LEMMA XhciInvCarries == XhciInv => RingsCarry
<1> SUFFICES ASSUME XhciInv PROVE RingsCarry
  OBVIOUS
<1>1. PICK qe, qc : flight = qe \o qc /\ EvtSide(qe) /\ CmdSide(qc)
  BY DEF XhciInv
<1>2. EvtSeen = qe
  <2>1. PICK n, i, c, t : n = EVT_TRBS /\ i = drvEvt.i /\ c = drvEvt.ccs /\ t = evt.trbs
    OBVIOUS
  <2>2. n \in Nat \ {0} /\ i \in 0 .. n /\ c \in Bits /\ qe \in Seq(Cmds) /\ Len(qe) \in Nat /\ Len(qe) <= n
        /\ Carries(t, n, i, c, qe)
    BY <1>1, <2>1, RingSizes DEF EvtSide
  <2>3. /\ \A k \in 0 .. Len(qe) - 1 : /\ t[TrbAt(n, i, k)].cycle = Turn(n, i, c, k)
                                       /\ t[TrbAt(n, i, k)].data = qe[k + 1]
        /\ Len(qe) < n => t[TrbAt(n, i, Len(qe))].cycle # Turn(n, i, c, Len(qe))
    BY <2>2, CarriesSeen
  <2>4. /\ \A k \in 0 .. Len(qe) - 1 : EvtIs(k) /\ EvtTrb(k).data = qe[k + 1]
        /\ Len(qe) < n => ~EvtIs(Len(qe))
    BY <2>1, <2>3 DEF EvtIs, EvtTrb
  <2>5. EvtCount = Len(qe)
    <3> DEFINE P == {k \in 0 .. n : EvtIs(k)}
    <3>1. (\A k \in 0 .. Len(qe) - 1 : k \in P) /\ (Len(qe) < n => Len(qe) \notin P) /\ Len(qe) \in 0 .. n /\ n \in Nat /\ P \subseteq 0 .. n
      BY <2>2, <2>4
    <3>2. (CHOOSE m \in 0 .. n : (\A k \in 0 .. m - 1 : k \in P) /\ (m = n \/ m \notin P)) = Len(qe)
      <4> HIDE DEF P
      <4> QED  BY <3>1, CountIs
    <3>3. \A m \in 0 .. n : ((\A k \in 0 .. m - 1 : k \in P) /\ (m = n \/ m \notin P))
                              <=> ((\A k \in 0 .. m - 1 : EvtIs(k)) /\ (m = n \/ ~EvtIs(m)))
      BY <2>2
    <3>4. (CHOOSE m \in 0 .. n : (\A k \in 0 .. m - 1 : k \in P) /\ (m = n \/ m \notin P))
            = CHOOSE m \in 0 .. n : (\A k \in 0 .. m - 1 : EvtIs(k)) /\ (m = n \/ ~EvtIs(m))
      <4> HIDE DEF P
      <4> QED  BY <3>3
    <3> QED  BY <2>1, <3>2, <3>4 DEF EvtCount
  <2>6. qe = [k \in 1 .. Len(qe) |-> qe[k]]
    BY <2>2
  <2>7. \A k \in 1 .. Len(qe) : EvtTrb(k - 1).data = qe[k]
    <3> TAKE k \in 1 .. Len(qe)
    <3>1. k - 1 \in 0 .. Len(qe) - 1 /\ (k - 1) + 1 = k
      BY <2>2
    <3> QED  BY <2>4, <3>1
  <2> QED  BY <2>5, <2>6, <2>7 DEF EvtSeen
<1>3. CmdSeen = qc
  <2>1. PICK n, i, c, t : n = LinkAt /\ i = hcCmd.i /\ c = hcCmd.ccs /\ t = cmd.trbs
    OBVIOUS
  <2>2. n \in Nat \ {0} /\ i \in 0 .. n /\ c \in Bits /\ qc \in Seq(Cmds) /\ Len(qc) \in Nat /\ Len(qc) <= n
        /\ Carries(t, n, i, c, qc) /\ RING_TRBS - 1 = n /\ i \in Nat
        /\ t[n] = Link(Flip(Turn(n, i, c, Len(qc))))
    BY <1>1, <2>1, RingSizes DEF CmdSide
  <2>3. /\ \A k \in 0 .. Len(qc) - 1 : /\ t[TrbAt(n, i, k)].cycle = Turn(n, i, c, k)
                                       /\ t[TrbAt(n, i, k)].data = qc[k + 1]
        /\ Len(qc) < n => t[TrbAt(n, i, Len(qc))].cycle # Turn(n, i, c, Len(qc))
    BY <2>2, CarriesSeen
  <2>8. ASSUME NEW k \in 0 .. Len(qc) - 1, i + k >= n PROVE t[n] = Link(c)
    <3>1. ~(i + Len(qc) < n)
      BY <2>2, <2>8
    <3>2. Turn(n, i, c, Len(qc)) = Flip(c)
      BY <3>1 DEF Turn
    <3> QED  BY <2>2, <3>2, TurnIs
  <2>4. /\ \A k \in 0 .. Len(qc) - 1 : CmdIs(k) /\ CmdTrb(k).data = qc[k + 1]
        /\ Len(qc) < n => ~CmdIs(Len(qc))
    BY <2>1, <2>2, <2>3, <2>8 DEF CmdIs, CmdTrb
  <2>5. CmdCount = Len(qc)
    <3> DEFINE P == {k \in 0 .. n : CmdIs(k)}
    <3>1. (\A k \in 0 .. Len(qc) - 1 : k \in P) /\ (Len(qc) < n => Len(qc) \notin P) /\ Len(qc) \in 0 .. n /\ n \in Nat /\ P \subseteq 0 .. n
      BY <2>2, <2>4
    <3>2. (CHOOSE m \in 0 .. n : (\A k \in 0 .. m - 1 : k \in P) /\ (m = n \/ m \notin P)) = Len(qc)
      <4> HIDE DEF P
      <4> QED  BY <3>1, CountIs
    <3>3. \A m \in 0 .. n : ((\A k \in 0 .. m - 1 : k \in P) /\ (m = n \/ m \notin P))
                              <=> ((\A k \in 0 .. m - 1 : CmdIs(k)) /\ (m = n \/ ~CmdIs(m)))
      BY <2>2
    <3>4. (CHOOSE m \in 0 .. n : (\A k \in 0 .. m - 1 : k \in P) /\ (m = n \/ m \notin P))
            = CHOOSE m \in 0 .. n : (\A k \in 0 .. m - 1 : CmdIs(k)) /\ (m = n \/ ~CmdIs(m))
      <4> HIDE DEF P
      <4> QED  BY <3>3
    <3> QED  BY <2>2, <3>2, <3>4 DEF CmdCount
  <2>6. qc = [k \in 1 .. Len(qc) |-> qc[k]]
    BY <2>2
  <2>7. \A k \in 1 .. Len(qc) : CmdTrb(k - 1).data = qc[k]
    <3> TAKE k \in 1 .. Len(qc)
    <3>1. k - 1 \in 0 .. Len(qc) - 1 /\ (k - 1) + 1 = k
      BY <2>2
    <3> QED  BY <2>4, <3>1
  <2> QED  BY <2>5, <2>6, <2>7 DEF CmdSeen
<1> QED  BY <1>1, <1>2, <1>3 DEF RingsCarry

\* The rings carry every command once and in order, whatever their sizes and the commands,
\* as long as one more fits than are in flight (host.rs:399-449).
THEOREM RingsDeliver == RingSpec => []RingsCarry
<1>1. RingInit => XhciInv
  BY XhciInitStep
<1>2. XhciInv /\ [RingNext]_ringVars => XhciInv'
  BY XhciNextStep
<1>3. XhciInv => RingsCarry
  BY XhciInvCarries
<1> QED  BY <1>1, <1>2, <1>3, PTL DEF RingSpec

=============================================================================
