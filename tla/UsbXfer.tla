------------------------------ MODULE UsbXfer ------------------------------
(***************************************************************************)
(* Transfers through the xHCI driver (bus/xhci/slot.rs, host.rs) and the   *)
(* USB disk on top of them (fs/usb_msc.rs): events wait in a small stash   *)
(* until their endpoint's owner asks, all bulk transfers share one bounce  *)
(* page, and a SCSI command is a command block, its data and a status.     *)
(* Interrupt endpoints of keyboards and mice are polled in between.        *)
(***************************************************************************)
EXTENDS Integers, Sequences, FiniteSets

CONSTANTS
    IntEps,         \* interrupt endpoints
    XFER_Q,         \* events the stash holds
    MscLbas, MscDatas,
    READY_TRIES,    \* test_ready attempts of configure_slot
    MAX_TRBS        \* bound: transfers given up on that a bulk endpoint still has

\* The stash has an entry for every endpoint: of MAX_SLOTS devices one is the disk with
\* two, the others have at most two interrupt endpoints (host.rs:74-76, 119).
ASSUME XferAssumption ==
    /\ IsFiniteSet(IntEps) /\ {"in", "out"} \cap IntEps = {}
    /\ XFER_Q \in Nat /\ Cardinality(IntEps) + 2 <= XFER_Q

VARIABLES
    trbs,           \* transfers queued at each endpoint
    hcEv,           \* transfer events the controller posted, not yet pumped
    stash,          \* Host.xfer: the endpoints with an event kept, and its code
    armed,          \* IntEp.armed
    xbounce,        \* Host.bounce
    mdev,           \* the disk: its phase, command and outcome
    mdisk,          \* what the disk holds
    halted,         \* bulk endpoints that stalled
    mdrv,           \* the SCSI command in progress
    mret,           \* what the last one returned
    mlate           \* a bulk transfer was given up on

xferVars == <<trbs, hcEv, stash, armed, xbounce, mdev, mdisk, halted, mdrv, mret, mlate>>

Eps == {"out", "in"} \cup IntEps
Packet(t, lba, v) == [t |-> t, lba |-> lba, v |-> v]
NoPacket == Packet("none", 0, 0)
Idle(mode, n) == [mode |-> mode, tries |-> n, pc |-> "idle", op |-> NoPacket, data |-> NoPacket]
NoMscRet == [ok |-> FALSE, op |-> NoPacket, data |-> NoPacket]

XferInit ==
    /\ trbs = [e \in Eps |-> 0] /\ hcEv = <<>> /\ stash = << >>
    /\ armed = [e \in IntEps |-> FALSE]
    /\ xbounce = NoPacket
    /\ mdev = [phase |-> "cmd", op |-> NoPacket, good |-> TRUE]
    /\ mdisk \in [MscLbas -> MscDatas]
    /\ halted = {} /\ mdrv = Idle("probe", 0) /\ mret = NoMscRet /\ mlate = FALSE

----------------------------------------------------------------------------
stash_xfer_slip(st, ev) ==
    IF Cardinality(DOMAIN st) + 1 < XFER_Q
    THEN [e \in DOMAIN st \cup {ev.ep} |-> IF e = ev.ep THEN ev.code ELSE st[e]]
    ELSE st

\* stash_xfer: an event replaces the one kept for its endpoint, else takes a free
\* entry, else is lost.
stash_xfer(st, ev) ==
    IF ev.ep \in DOMAIN st \/ Cardinality(DOMAIN st) < XFER_Q
    THEN [e \in DOMAIN st \cup {ev.ep} |-> IF e = ev.ep THEN ev.code ELSE st[e]]
    ELSE st

\* pump: every posted event is stashed, in order.
pump ==
    LET st[n \in 0 .. Len(hcEv)] == IF n = 0 THEN stash ELSE stash_xfer(st[n - 1], hcEv[n])
    IN  st[Len(hcEv)]

\* take_xfer.
Taken(st, e) == [x \in DOMAIN st \ {e} |-> st[x]]

\* A bulk transfer holds the HOSTS lock from its doorbell to its event.
Locked == mdrv.pc \in {"cbw", "data", "csw"}

----------------------------------------------------------------------------
\* interrupt_poll: arms an endpoint that is not armed; else takes its event, if any,
\* and arms it again.
InterruptPoll(e) ==
    LET st == pump
    IN  /\ ~Locked
        /\ hcEv' = <<>>
        /\ IF ~armed[e] \/ e \in DOMAIN st
           THEN /\ trbs' = [trbs EXCEPT ![e] = @ + 1]
                /\ armed' = [armed EXCEPT ![e] = TRUE]
                /\ stash' = IF armed[e] THEN Taken(st, e) ELSE st
           ELSE stash' = st /\ UNCHANGED <<trbs, armed>>
        /\ UNCHANGED <<xbounce, mdev, mdisk, halted, mdrv, mret, mlate>>

\* The device answers an interrupt transfer.  External.
Report(e) ==
    /\ trbs[e] > 0
    /\ trbs' = [trbs EXCEPT ![e] = @ - 1]
    /\ hcEv' = Append(hcEv, [ep |-> e, code |-> "ok"])
    /\ UNCHANGED <<stash, armed, xbounce, mdev, mdisk, halted, mdrv, mret, mlate>>

----------------------------------------------------------------------------
\* bounce_out and bounce_in: the transfer is queued; what goes out is put in the
\* bounce page first.
Submit(ep, packet) ==
    /\ trbs[ep] < MAX_TRBS
    /\ trbs' = [trbs EXCEPT ![ep] = @ + 1]
    /\ xbounce' = IF ep = "out" THEN packet ELSE xbounce

\* scsi_in, scsi_out and scsi_nodata start with the command block.
Begin_(op) ==
    /\ mdrv.pc = "idle"
    /\ mdrv' = [mdrv EXCEPT !.pc = "cbw", !.op = op, !.data = NoPacket]
    /\ mret' = NoMscRet
    /\ Submit("out", Packet("cbw", op.lba, op))
    /\ UNCHANGED <<hcEv, stash, armed, mdev, mdisk, halted, mlate>>

\* read_blocks, write_blocks and flush, one command of at most eight sectors each.
ScsiCall ==
    /\ mdrv.mode = "run"
    /\ \E l \in MscLbas : \/ Begin_(Packet("read", l, 0))
                          \/ \E v \in MscDatas : Begin_(Packet("write", l, v))
                          \/ Begin_(Packet("flush", 0, 0))

\* configure_slot: test_ready up to READY_TRIES times, then read_capacity.
ProbeCall ==
    /\ mdrv.mode = "probe"
    /\ Begin_(Packet(IF mdrv.tries < READY_TRIES THEN "ready" ELSE "capacity", 0, 0))

\* The command is over.  A disk that is not ready is asked again; without its
\* capacity there is no disk.
Return(ok) ==
    /\ mret' = [ok |-> ok, op |-> mdrv.op, data |-> mdrv.data]
    /\ mdrv' = CASE mdrv.mode = "run"      -> Idle("run", 0)
                 [] mdrv.op.t = "ready"    -> Idle("probe", IF ok THEN READY_TRIES ELSE mdrv.tries + 1)
                 [] OTHER                  -> Idle(IF ok THEN "run" ELSE "absent", 0)

\* The endpoint whose event the driver waits for.
Waiting == IF mdrv.pc = "cbw" \/ (mdrv.pc = "data" /\ mdrv.op.t = "write") THEN "out" ELSE "in"

\* wait_xfer gives up: the transfer stays with the controller.
XferTimeout ==
    /\ Locked /\ Waiting \notin DOMAIN pump
    /\ stash' = pump /\ hcEv' = <<>>
    /\ Return(FALSE) /\ mlate' = TRUE
    /\ UNCHANGED <<trbs, armed, xbounce, mdev, mdisk, halted>>

\* wait_xfer got an event with an error code.
XferFails ==
    /\ Locked /\ Waiting \in DOMAIN pump /\ pump[Waiting] # "ok"
    /\ stash' = Taken(pump, Waiting) /\ hcEv' = <<>>
    /\ Return(FALSE)
    /\ UNCHANGED <<trbs, armed, xbounce, mdev, mdisk, halted, mlate>>

csw_ok_slip == xbounce.t = "csw"

\* csw: the signature and the status byte are checked, the tag is not.
csw_ok == xbounce.t = "csw" /\ xbounce.v = 0

\* wait_xfer got the event: on to the data, to the status, or back to the caller.
XferDone ==
    LET next == IF mdrv.pc = "cbw" /\ mdrv.op.t \in {"read", "write", "capacity"} THEN "data" ELSE "csw"
    IN  /\ Locked /\ Waiting \in DOMAIN pump /\ pump[Waiting] = "ok"
        /\ stash' = Taken(pump, Waiting) /\ hcEv' = <<>>
        /\ IF mdrv.pc = "csw"
           THEN Return(csw_ok) /\ UNCHANGED <<trbs, xbounce>>
           ELSE /\ mdrv' = [mdrv EXCEPT !.pc = next,
                                !.data = IF mdrv.pc = "data" /\ mdrv.op.t # "write" THEN xbounce ELSE @]
                /\ Submit(IF next = "data" /\ mdrv.op.t = "write" THEN "out" ELSE "in",
                          Packet("data", 0, mdrv.op.v))
                /\ UNCHANGED mret
        /\ UNCHANGED <<armed, mdev, mdisk, halted, mlate>>

----------------------------------------------------------------------------
\* The controller moves the next packet of a bulk endpoint.
Moved(ep, code) ==
    /\ trbs[ep] > 0 /\ ep \notin halted
    /\ trbs' = [trbs EXCEPT ![ep] = @ - 1]
    /\ hcEv' = Append(hcEv, [ep |-> ep, code |-> code])
    /\ UNCHANGED <<stash, armed, mdrv, mret, mlate>>

\* The disk takes a command block, or the data of a write.  External.
DeviceTakes ==
    /\ UNCHANGED <<xbounce, halted>>
    /\ Moved("out", "ok")
    /\ \/ /\ mdev.phase = "cmd" /\ xbounce.t = "cbw"
          /\ \E good \in BOOLEAN :
                mdev' = [op |-> xbounce.v, good |-> good,
                         phase |-> CASE xbounce.v.t \in {"read", "capacity"} /\ good -> "in"
                                     [] xbounce.v.t = "write" -> "out"
                                     [] OTHER -> "status"]
          /\ UNCHANGED mdisk
       \/ /\ mdev.phase = "out" /\ mdev' = [mdev EXCEPT !.phase = "status"]
          /\ mdisk' = IF mdev.good /\ xbounce.t = "data"
                      THEN [mdisk EXCEPT ![mdev.op.lba] = xbounce.v] ELSE mdisk

\* The disk sends data, or its status.  External.
DeviceSends ==
    /\ Moved("in", "ok")
    /\ \/ /\ mdev.phase = "in" /\ mdev' = [mdev EXCEPT !.phase = "status"]
          /\ xbounce' = Packet("data", mdev.op.lba, mdisk[mdev.op.lba])
       \/ /\ mdev.phase = "status" /\ mdev' = [mdev EXCEPT !.phase = "cmd"]
          /\ xbounce' = Packet("csw", 0, IF mdev.good THEN 0 ELSE 1)
    /\ UNCHANGED <<mdisk, halted>>

\* The disk refuses what it did not expect, or a failed read's data: the endpoint
\* halts, and nothing in the driver clears it.  External.
DeviceStalls == \E ep \in {"in", "out"} :
    /\ Moved(ep, "stall")
    /\ IF ep = "out" THEN mdev.phase \in {"in", "status"} ELSE mdev.phase = "status" /\ ~mdev.good
    /\ halted' = halted \cup {ep}
    /\ UNCHANGED <<xbounce, mdev, mdisk>>

XferNext ==
    \/ \E e \in IntEps : InterruptPoll(e) \/ Report(e)
    \/ ScsiCall \/ ProbeCall \/ XferTimeout \/ XferFails \/ XferDone
    \/ DeviceTakes \/ DeviceSends \/ DeviceStalls

XferSpec == XferInit /\ [][XferNext]_xferVars

----------------------------------------------------------------------------
\* No report is lost for good: an armed endpoint has its transfer queued, or its event
\* posted or kept, so that a later poll rearms it, although the stash drops what does
\* not fit and disk transfers, late ones too, share it (host.rs:346-371, slot.rs:465-523).
ArmedIsPending == \A e \in IntEps :
    armed[e] => \/ trbs[e] = 1
                \/ \E i \in DOMAIN hcEv : hcEv[i].ep = e
                \/ e \in DOMAIN stash

\* A SCSI command that returned Ok did what it was asked: a read holds the sector, a
\* written sector the data, whatever failed, stalled or was polled in between, as long
\* as no transfer was given up on: the status' tag is never compared (usb_msc.rs:109-150).
MscOk ==
    mret.ok /\ ~mlate =>
        CASE mret.op.t = "read"  -> mret.data = Packet("data", mret.op.lba, mdisk[mret.op.lba])
          [] mret.op.t = "write" -> mdisk[mret.op.lba] = mret.op.v
          [] OTHER -> TRUE
=============================================================================
