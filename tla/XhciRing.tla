------------------------------ MODULE XhciRing ------------------------------
(***************************************************************************)
(* The producer and consumer rings of the xHCI driver (bus/xhci/host.rs):  *)
(* TRBs change owner by a cycle bit, the command ring wraps through a link *)
(* TRB, the event ring by toggling the consumer's cycle state.  The        *)
(* controller's side is external.                                          *)
(***************************************************************************)
EXTENDS Integers, Sequences

CONSTANTS
    RING_TRBS,      \* TRBs of the command ring; the last one links back to the first
    EVT_TRBS,       \* TRBs of the event ring
    Cmds,           \* what a command carries
    MAX_FLIGHT      \* bound: commands not yet answered.  enqueue never looks for room: with
                    \* RING_TRBS - 1 in flight it would overwrite a link not yet followed

\* A command is no link, and there is room for one more than may be in flight.
ASSUME RingConstants ==
    /\ {RING_TRBS, EVT_TRBS} \subseteq Nat \ {0} /\ MAX_FLIGHT \in Nat /\ MAX_FLIGHT < RING_TRBS - 1
    /\ "link" \notin Cmds

VARIABLES
    cmd,            \* Host.cmd: the ring, the driver's index and cycle state
    hcCmd,          \* the controller's index and cycle state in it
    evt,            \* the event ring, the controller's index and cycle state
    drvEvt,         \* Host.evt.i and evt_ccs
    erdp,           \* the dequeue pointer the driver last wrote
    flight          \* the commands sent and not yet seen answered, oldest first

ringVars == <<cmd, hcCmd, evt, drvEvt, erdp, flight>>

Trb(c, d) == [cycle |-> c, data |-> d]
NoTrb == Trb(0, "zero")
Link(c) == Trb(c, "link")
Flip(b) == 1 - b

RingInit ==
    /\ cmd = [trbs |-> [k \in 0 .. RING_TRBS - 1 |-> IF k = RING_TRBS - 1 THEN Link(0) ELSE NoTrb],
              i |-> 0, pcs |-> 1]
    /\ hcCmd = [i |-> 0, ccs |-> 1]
    /\ evt = [trbs |-> [k \in 0 .. EVT_TRBS - 1 |-> NoTrb], i |-> 0, pcs |-> 1]
    /\ drvEvt = [i |-> 0, ccs |-> 1]
    /\ erdp = 0 /\ flight = <<>>

bump_slip(r) ==
    IF r.i + 2 >= RING_TRBS
    THEN [trbs |-> r.trbs, i |-> 0, pcs |-> Flip(r.pcs)]
    ELSE [r EXCEPT !.i = @ + 1]

\* bump: at the last usable TRB the link is handed over with the current cycle,
\* the index wraps and the cycle state toggles.
bump(r) ==
    IF r.i + 2 >= RING_TRBS
    THEN [trbs |-> [r.trbs EXCEPT ![RING_TRBS - 1] = Link(r.pcs)], i |-> 0, pcs |-> Flip(r.pcs)]
    ELSE [r EXCEPT !.i = @ + 1]

\* enqueue_cmd and enqueue_ep: the TRB with the producer's cycle bit, then bump.
enqueue(r, d) == bump([r EXCEPT !.trbs[r.i] = Trb(r.pcs, d)])

EnqueueCmd == \E d \in Cmds :
    /\ Len(flight) < MAX_FLIGHT
    /\ cmd' = enqueue(cmd, d)
    /\ flight' = Append(flight, d)
    /\ UNCHANGED <<hcCmd, evt, drvEvt, erdp>>

----------------------------------------------------------------------------
\* The controller follows a link that is its own.
HcLink ==
    /\ cmd.trbs[hcCmd.i] = Link(hcCmd.ccs)
    /\ hcCmd' = [i |-> 0, ccs |-> Flip(hcCmd.ccs)]
    /\ UNCHANGED <<cmd, evt, drvEvt, erdp, flight>>

\* It carries a command out and posts its event, unless the event ring is full up to
\* the dequeue pointer.
HcCommand ==
    LET t == cmd.trbs[hcCmd.i]
        j == (evt.i + 1) % EVT_TRBS
    IN  /\ t.cycle = hcCmd.ccs /\ t.data # "link"
        /\ j # erdp
        /\ hcCmd' = [hcCmd EXCEPT !.i = @ + 1]
        /\ evt' = [trbs |-> [evt.trbs EXCEPT ![evt.i] = Trb(evt.pcs, t.data)],
                   i |-> j, pcs |-> IF j = 0 THEN Flip(evt.pcs) ELSE evt.pcs]
        /\ UNCHANGED <<cmd, drvEvt, erdp, flight>>

----------------------------------------------------------------------------
\* pop_evt: an event is the driver's when its cycle bit is evt_ccs; ERDP is set to
\* the event just taken.
pop_evt ==
    LET j == drvEvt.i + 1
    IN  /\ evt.trbs[drvEvt.i].cycle = drvEvt.ccs
        /\ drvEvt' = IF j = EVT_TRBS THEN [i |-> 0, ccs |-> Flip(drvEvt.ccs)]
                     ELSE [drvEvt EXCEPT !.i = j]
        /\ erdp' = drvEvt.i
        /\ flight' = Tail(flight)
        /\ UNCHANGED <<cmd, hcCmd, evt>>

RingNext == EnqueueCmd \/ HcLink \/ HcCommand \/ pop_evt

RingSpec == RingInit /\ [][RingNext]_ringVars

----------------------------------------------------------------------------
\* The k-th TRB, from 0, that a consumer at index i comes to on a ring of n, and the cycle
\* bit it must have to be the consumer's.
TrbAt(n, i, k) == (i + k) % n
Turn(n, i, c, k) == IF i + k < n THEN c ELSE Flip(c)

\* The events the driver would pop, and the commands the controller would fetch, the link
\* followed: those up to the first that is not the consumer's.
EvtTrb(k) == evt.trbs[TrbAt(EVT_TRBS, drvEvt.i, k)]
EvtIs(k) == EvtTrb(k).cycle = Turn(EVT_TRBS, drvEvt.i, drvEvt.ccs, k)
CmdTrb(k) == cmd.trbs[TrbAt(RING_TRBS - 1, hcCmd.i, k)]
CmdIs(k) ==
    /\ CmdTrb(k).cycle = Turn(RING_TRBS - 1, hcCmd.i, hcCmd.ccs, k)
    /\ hcCmd.i + k >= RING_TRBS - 1 => cmd.trbs[RING_TRBS - 1] = Link(hcCmd.ccs)

EvtCount == CHOOSE n \in 0 .. EVT_TRBS : (\A k \in 0 .. n - 1 : EvtIs(k)) /\ (n = EVT_TRBS \/ ~EvtIs(n))
CmdCount == CHOOSE n \in 0 .. RING_TRBS - 1 : (\A k \in 0 .. n - 1 : CmdIs(k)) /\ (n = RING_TRBS - 1 \/ ~CmdIs(n))
EvtSeen == [k \in 1 .. EvtCount |-> EvtTrb(k - 1).data]
CmdSeen == [k \in 1 .. CmdCount |-> CmdTrb(k - 1).data]

\* The rings carry every command once and in order: the events the driver would pop
\* followed by the commands the controller would fetch are the commands in flight,
\* across every wrap of either ring and the toggles of four cycle states
\* (host.rs:399-449).
RingsCarry ==
    EvtSeen \o CmdSeen = flight
=============================================================================
