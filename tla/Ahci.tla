-------------------------------- MODULE Ahci --------------------------------
(***************************************************************************)
(* One port of the AHCI driver (fs/ahci.rs): a single command slot and one *)
(* DMA bounce frame.  The driver polls with a timeout; the controller      *)
(* carries a command out at its own pace, also after the driver gave up.   *)
(***************************************************************************)
EXTENDS Integers, Sequences

CONSTANTS Lbas, Datas,      \* sectors of the disk and their contents
          NoData            \* what the bounce frame holds before its first use

ASSUME AhciAssumption == Lbas \subseteq Nat

VARIABLES
    adisk,          \* what the disk holds
    hba,            \* the command slot: the command in it, whether its data moved, PxTFD.ERR
    abounce,        \* the bounce frame
    adrv,           \* the driver's call: where it is, its command, its chunks still to move
    aret,           \* what the last chunk returned
    late            \* a command was given up while the controller still had it

ahciVars == <<adisk, hba, abounce, adrv, aret, late>>

NoCmd == [op |-> "none", lba |-> 0]
Slot(cmd, moved, e) == [cmd |-> cmd, moved |-> moved, err |-> e]
NoRet == [ok |-> FALSE, op |-> "none", lba |-> 0, data |-> NoData]
Driver(pc, op, lba, bufs) == [pc |-> pc, op |-> op, lba |-> lba, bufs |-> bufs]
Resting == Driver("idle", "none", 0, <<>>)
Absent  == Driver("absent", "none", 0, <<>>)

AhciInit ==
    /\ adisk \in [Lbas -> Datas]
    /\ hba = Slot(NoCmd, FALSE, FALSE)
    /\ abounce = NoData
    /\ adrv = Driver("probe", "identify", 0, <<NoData>>)
    /\ aret = NoRet /\ late = FALSE

----------------------------------------------------------------------------
\* wait_until on PxTFD and PxCI: the controller is busy until its command is done.
Busy == hba.cmd # NoCmd

\* init_port: no device, no ATA signature, a port that does not stop, or no frame.
ProbeFails ==
    /\ adrv.pc = "probe"
    /\ adrv' = Absent /\ UNCHANGED <<adisk, hba, abounce, aret, late>>

\* init_port got the port running; IDENTIFY is its first command.
Probe ==
    /\ adrv.pc = "probe"
    /\ adrv' = [adrv EXCEPT !.pc = "ready"]
    /\ UNCHANGED <<adisk, hba, abounce, aret, late>>

\* write_blocks copies a chunk to the bounce frame before it looks at the port.
Load(d) == IF d.op = "write" THEN Head(d.bufs) ELSE abounce

Call_slip(op, lba, bufs) ==
    LET d == Driver("ready", op, lba, bufs)
    IN  /\ adrv = Resting
        /\ adrv' = d /\ abounce' = abounce
        /\ aret' = NoRet
        /\ UNCHANGED <<adisk, hba, late>>

\* read_blocks, write_blocks, flush: one command per chunk of at most a frame.
Call(op, lba, bufs) ==
    LET d == Driver("ready", op, lba, bufs)
    IN  /\ adrv = Resting
        /\ adrv' = d /\ abounce' = Load(d)
        /\ aret' = NoRet
        /\ UNCHANGED <<adisk, hba, late>>

\* issue: the port is free, the command is built and PxCI set.
Issue ==
    /\ adrv.pc = "ready" /\ ~Busy
    /\ hba' = Slot([op |-> adrv.op, lba |-> adrv.lba], FALSE, FALSE)
    /\ adrv' = [adrv EXCEPT !.pc = "issued"]
    /\ UNCHANGED <<adisk, abounce, aret, late>>

\* A failed command ends the call; a failed IDENTIFY leaves no disk.
Err == /\ adrv' = IF adrv.op = "identify" THEN Absent ELSE Resting
       /\ aret' = NoRet

\* issue: the port stays busy, or the command is not done in time.
TimeOut ==
    /\ adrv.pc \in {"ready", "issued"} /\ Busy
    /\ Err /\ late' = TRUE
    /\ UNCHANGED <<adisk, hba, abounce>>

\* issue: PxCI is clear and an error is flagged.
IssueFails ==
    /\ adrv.pc = "issued" /\ ~Busy /\ hba.err
    /\ Err /\ UNCHANGED <<adisk, hba, abounce, late>>

\* issue succeeded; the loop goes on with the next chunk or returns.
Complete ==
    LET rest == Tail(adrv.bufs)
        next == Driver("ready", adrv.op, adrv.lba + 1, rest)
    IN  /\ adrv.pc = "issued" /\ ~Busy /\ ~hba.err
        /\ aret' = [ok |-> TRUE, op |-> adrv.op, lba |-> adrv.lba,
                    data |-> IF adrv.op = "write" THEN Head(adrv.bufs) ELSE abounce]
        /\ adrv' = IF rest = <<>> THEN Resting ELSE next
        /\ abounce' = IF rest = <<>> THEN abounce ELSE Load(next)
        /\ UNCHANGED <<adisk, hba, late>>

----------------------------------------------------------------------------
\* The controller moves the data of its command, then reports it done; or it
\* reports an error.  External.
HbaMoves ==
    /\ Busy /\ ~hba.moved
    /\ hba' = [hba EXCEPT !.moved = TRUE]
    /\ adisk' = IF hba.cmd.op = "write" THEN [adisk EXCEPT ![hba.cmd.lba] = abounce] ELSE adisk
    /\ abounce' = IF hba.cmd.op = "read" THEN adisk[hba.cmd.lba] ELSE abounce
    /\ UNCHANGED <<adrv, aret, late>>

HbaDone ==
    /\ Busy
    /\ \/ hba.moved /\ hba' = Slot(NoCmd, FALSE, FALSE)
       \/ hba' = Slot(NoCmd, FALSE, TRUE)
    /\ UNCHANGED <<adisk, abounce, adrv, aret, late>>

AhciNext ==
    \/ ProbeFails \/ Probe
    \/ \E l \in Lbas : \E d \in Datas :
            \/ Call("read", l, <<NoData>>)
            \/ Call("write", l, <<d>>)
            \/ l + 1 \in Lbas /\ \E d2 \in Datas : Call("write", l, <<d, d2>>)
    \/ Call("flush", 0, <<NoData>>)
    \/ Issue \/ TimeOut \/ IssueFails \/ Complete
    \/ HbaMoves \/ HbaDone

AhciSpec == AhciInit /\ [][AhciNext]_ahciVars

----------------------------------------------------------------------------
Done == aret.ok /\ aret.op \in {"read", "write"}

\* A transfer that returned Ok moved what it was asked to: a read holds the sector's
\* contents and a written sector holds the data, whatever commands failed before,
\* as long as none was given up while the controller still had it (ahci.rs:121-166).
AhciOk == Done /\ ~late => adisk[aret.lba] = aret.data
=============================================================================
