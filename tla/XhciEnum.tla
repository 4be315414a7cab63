------------------------------ MODULE XhciEnum ------------------------------
(***************************************************************************)
(* Enumeration of the USB devices behind an xHCI controller                *)
(* (bus/xhci/mod.rs, slot.rs, hub.rs, port.rs): each root port is reset,   *)
(* gets a slot and an address and is classified; a hub's ports are walked  *)
(* the same way, one level deep.  Commands go to the controller one at a   *)
(* time and are answered by events, or given up.                           *)
(***************************************************************************)
EXTENDS Integers, Sequences, FiniteSets, SequencesExt, FiniteSetsExt

CONSTANTS
    MAX_PORTS,      \* root ports, at most the 32 bits of tried
    MAX_HUB_PORTS,  \* ports of a hub that are looked at
    MAX_SLOTS,      \* device slots of the controller
    MAX_ROUNDS,     \* rounds enumerate_host makes over the ports
    Plugged         \* what may be plugged in: functions from places to "msc", "hid", "hub", "other", "none"

ASSUME EnumAssumption == {MAX_PORTS, MAX_HUB_PORTS, MAX_SLOTS, MAX_ROUNDS} \subseteq Nat

VARIABLES
    plug,           \* what is plugged in, [root port, hub port], 0 for the root port itself
    slots,          \* Host.slots
    tried,          \* Host.tried
    en,             \* where enumerate_host is
    pend,           \* commands the controller has not answered
    evq,            \* command events not yet taken; wait_cmd keeps the last it pumped
    hwSlots,        \* slots the controller has enabled
    lateCmd         \* a command was given up on

enumVars == <<plug, slots, tried, en, pend, evq, hwSlots, lateCmd>>

Place(p, c) == <<p, c>>
NoDev == [kind |-> "none", loc |-> Place(0, 0), parent |-> 0]

EnumInit ==
    /\ plug \in Plugged
    /\ slots = [s \in 1 .. MAX_SLOTS |-> NoDev]
    /\ tried = {}
    /\ en = [pc |-> "off", round |-> 1, port |-> 1, progress |-> FALSE,
             hub |-> 0, child |-> 0, slot |-> 0]
    /\ pend = <<>> /\ evq = <<>> /\ hwSlots = {} /\ lateCmd = FALSE

----------------------------------------------------------------------------
\* The place being looked at: a root port, or a port of the hub in slot en.hub.
Here == Place(en.port, en.child)

\* The loops of enumerate_host and hub::attach: the hub's next port, then the next
\* root port, then another round while one made progress.
NextPlace(e) ==
    IF e.hub # 0 /\ e.child < MAX_HUB_PORTS
    THEN [e EXCEPT !.pc = "scan", !.child = @ + 1, !.slot = 0]
    ELSE LET f == [e EXCEPT !.pc = "scan", !.hub = 0, !.child = 0, !.slot = 0]
         IN  IF e.port < MAX_PORTS THEN [f EXCEPT !.port = @ + 1]
             ELSE IF e.progress /\ e.round < MAX_ROUNDS
                  THEN [f EXCEPT !.port = 1, !.round = @ + 1, !.progress = FALSE]
                  ELSE [f EXCEPT !.pc = "done"]

\* mark_tried: a root port is tried once, however it went.
MarkTried == tried' = IF en.hub = 0 THEN tried \cup {en.port} ELSE tried

\* enqueue_cmd and the doorbell.
Send(c, s) == pend' = Append(pend, [cmd |-> c, slot |-> s])

\* wait_cmd: pump empties the event ring and keeps the last command event.
Answer(ok) ==
    /\ evq # <<>> /\ (Last(evq).code = "ok") = ok
    /\ evq' = <<>> /\ UNCHANGED lateCmd

Failed_slip == Answer(FALSE)

\* wait_cmd gives up, or the command failed.
Failed ==
    \/ Answer(FALSE)
    \/ evq = <<>> /\ pend # <<>> /\ lateCmd' = TRUE /\ UNCHANGED evq

\* Nothing new at this port: it was tried, nothing is there, or its reset failed.
SkipPort ==
    /\ en.pc = "scan"
    /\ \/ en.hub = 0 /\ en.port \in tried /\ UNCHANGED tried
       \/ plug[Here] = "none" /\ UNCHANGED tried
       \/ (en.hub = 0 => en.port \notin tried) /\ plug[Here] # "none" /\ MarkTried
    /\ en' = NextPlace(en)
    /\ UNCHANGED <<plug, slots, pend, evq, hwSlots, lateCmd>>

\* The port is reset; enable_slot.
ResetPort ==
    /\ en.pc = "scan"
    /\ en.hub = 0 => en.port \notin tried
    /\ plug[Here] # "none"
    /\ en' = [en EXCEPT !.pc = "enable"]
    /\ Send("enable", 0)
    /\ UNCHANGED <<plug, slots, tried, evq, hwSlots, lateCmd>>

\* enable_slot got a slot, and its two pages; address_device is next.
EnableDone ==
    LET s == Last(evq).slot
    IN  /\ en.pc = "enable" /\ Answer(TRUE) /\ s # 0
        /\ slots' = [slots EXCEPT ![s] = [kind |-> "unknown", loc |-> Here, parent |-> en.hub]]
        /\ en' = [en EXCEPT !.pc = "address", !.slot = s]
        /\ Send("address", s)
        /\ UNCHANGED <<plug, tried, hwSlots>>

\* enable_slot returned None, for want of a slot, an answer or a page.
EnableFails ==
    /\ en.pc = "enable"
    /\ Failed \/ Answer(TRUE)
    /\ MarkTried /\ en' = NextPlace(en)
    /\ UNCHANGED <<plug, slots, pend, hwSlots>>

\* address_device succeeded: the root port counts as progress.
AddressDone ==
    /\ en.pc = "address" /\ Answer(TRUE)
    /\ MarkTried
    /\ en' = [en EXCEPT !.pc = "classify", !.progress = @ \/ en.hub = 0]
    /\ UNCHANGED <<plug, slots, pend, hwSlots>>

\* disable_slot is asked for; its answer is not looked at.
Disable(pc, s) == en' = [en EXCEPT !.pc = pc, !.slot = s] /\ Send("disable", s)

AddressFails ==
    /\ en.pc = "address" /\ Failed
    /\ Disable("disable", en.slot) /\ MarkTried
    /\ UNCHANGED <<plug, slots, hwSlots>>

DisableDone_slip ==
    /\ en.pc \in {"disable", "release"} /\ (Failed \/ Answer(TRUE))
    /\ en' = IF en.pc = "disable" THEN NextPlace(en) ELSE [en EXCEPT !.pc = "done"]
    /\ UNCHANGED <<plug, slots, tried, pend, hwSlots>>

DisableDone ==
    /\ en.pc \in {"disable", "release"} /\ (Failed \/ Answer(TRUE))
    /\ slots' = [slots EXCEPT ![en.slot] = NoDev]
    /\ en' = IF en.pc = "disable" THEN NextPlace(en) ELSE [en EXCEPT !.pc = "done"]
    /\ UNCHANGED <<plug, tried, pend, hwSlots>>

\* classify: a disk or a boot keyboard or mouse is kept.
ClassifyKeep ==
    /\ en.pc = "classify" /\ plug[Here] \in {"msc", "hid"}
    /\ slots' = [slots EXCEPT ![en.slot].kind = plug[Here]]
    /\ en' = NextPlace(en)
    /\ UNCHANGED <<plug, tried, pend, evq, hwSlots, lateCmd>>

\* classify: a descriptor that cannot be read, a hub behind a hub, anything else.
ClassifyDrop ==
    /\ en.pc = "classify"
    /\ Disable("disable", en.slot)
    /\ UNCHANGED <<plug, slots, tried, evq, hwSlots, lateCmd>>

\* hub::attach read the hub's descriptors; eval_hub.
AttachHub ==
    /\ en.pc = "classify" /\ plug[Here] = "hub" /\ en.hub = 0
    /\ en' = [en EXCEPT !.pc = "eval"]
    /\ Send("eval", en.slot)
    /\ UNCHANGED <<plug, slots, tried, evq, hwSlots, lateCmd>>

EvalDone ==
    /\ en.pc = "eval" /\ Answer(TRUE)
    /\ slots' = [slots EXCEPT ![en.slot].kind = "hub"]
    /\ en' = [en EXCEPT !.pc = "scan", !.hub = en.slot, !.child = 1, !.slot = 0]
    /\ UNCHANGED <<plug, tried, pend, hwSlots>>

EvalFails ==
    /\ en.pc = "eval" /\ Failed
    /\ Disable("disable", en.slot)
    /\ UNCHANGED <<plug, slots, tried, hwSlots>>

----------------------------------------------------------------------------
\* The controller answers its oldest command: enable picks a free slot.  External.
HcAnswers ==
    LET c    == Head(pend)
        free == (1 .. MAX_SLOTS) \ hwSlots
        post(code, s) == evq' = Append(evq, [code |-> code, slot |-> s])
    IN  /\ pend # <<>> /\ pend' = Tail(pend)
        /\ \/ c.cmd = "enable" /\ free # {} /\ post("ok", Min(free))
              /\ hwSlots' = hwSlots \cup {Min(free)}
           \/ c.cmd = "disable" /\ post("ok", c.slot) /\ hwSlots' = hwSlots \ {c.slot}
           \/ c.cmd \in {"address", "eval"} /\ post("ok", c.slot) /\ UNCHANGED hwSlots
           \/ post("err", c.slot) /\ UNCHANGED hwSlots
        /\ UNCHANGED <<plug, slots, tried, en, lateCmd>>

\* xhci::release: usb_msc gives back a disk it could not set up, once all is quiet.
Release(s) ==
    /\ en.pc = "done" /\ slots[s].kind = "msc"
    /\ Disable("release", s)
    /\ UNCHANGED <<plug, slots, tried, evq, hwSlots, lateCmd>>

\* enumerate, which blk::init calls once at boot.
enumerate == en.pc = "off" /\ en' = [en EXCEPT !.pc = "scan"]
             /\ UNCHANGED <<plug, slots, tried, pend, evq, hwSlots, lateCmd>>

DriverStep ==
    \/ SkipPort \/ ResetPort \/ EnableDone \/ EnableFails \/ AddressDone \/ AddressFails
    \/ DisableDone \/ ClassifyKeep \/ ClassifyDrop \/ AttachHub \/ EvalDone \/ EvalFails

EnumNext == enumerate \/ DriverStep \/ HcAnswers \/ \E s \in 1 .. MAX_SLOTS : Release(s)

----------------------------------------------------------------------------
\* While no command was given up on, the table describes the bus: an entry is a slot
\* the controller has enabled, no two entries stand for one place, and the parent of
\* an entry behind a hub is that hub (mod.rs:171-255, hub.rs:12-114, slot.rs:15-135).
UsbTable ==
    ~lateCmd => \A s, t \in 1 .. MAX_SLOTS : slots[s] # NoDev =>
        /\ s \in hwSlots \/ (en.pc \in {"disable", "release"} /\ en.slot = s)
        /\ slots[t].loc = slots[s].loc => t = s
        /\ slots[s].parent # 0 => slots[slots[s].parent].kind = "hub"

\* Enumeration ends, whatever the controller answers, fails to answer or is given up
\* on: the rounds are bounded and a port is tried once (mod.rs:172-205).
EnumerationEnds == en.pc \notin {"off", "done"} ~> en.pc = "done"

\* Every wait of the driver is a bounded spin, so its next step always comes.
EnumFair == WF_enumVars(DriverStep)

EnumSpec == EnumInit /\ [][EnumNext]_enumVars /\ EnumFair
=============================================================================
