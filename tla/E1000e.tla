------------------------------- MODULE E1000e -------------------------------
(***************************************************************************)
(* net/e1000e.rs: the descriptor rings the driver shares with the network  *)
(* card.  The card is external: it fills receive descriptors from its head *)
(* up to the tail the driver writes, and sends transmit descriptors        *)
(* likewise.                                                               *)
(***************************************************************************)
EXTENDS Integers, Sequences, FiniteSets

CONSTANTS
    RING,           \* descriptors of each ring
    EthFrames,      \* contents of frames
    MAX_PAGES,      \* bound: pages the allocator may still have at probe
    MAX_TXQ         \* bound: frames handed over and not yet on the wire

ASSUME RingAtLeastTwo == RING \in Nat /\ RING >= 2

VARIABLES
    nic,        \* "none" until probe succeeds, then "up"
    nicPages,   \* pages the driver holds
    rxd, txd,     \* the rings: descriptors [full, bad, frame] and [done, frame]
    regs,       \* [RDH, RDT, TDH, TDT]
    rx_i, tx_i, \* the driver's places
    spin,       \* the frame whose completion send_frame waits for: TRUE while it spins
    rxq, txq,   \* frames the card took in and the driver has not seen; handed over and not sent
    wrong       \* a frame was delivered or sent that was not the next one

nicVars == <<nic, nicPages, rxd, txd, regs, rx_i, tx_i, spin, rxq, txq, wrong>>

NextDesc(i) == (i + 1) % RING
RingOf(d) == [i \in 0 .. RING - 1 |-> d]
Empty == "none"

\* alloc_rings: two pages for the rings and one for every buffer; when the allocator
\* runs out, all are given back.
alloc_rings(free) == IF free >= 2 + 2 * RING THEN 2 + 2 * RING ELSE 0

\* program_rings: the card owns all receive descriptors but one, and no transmit one.
program_rings ==
    /\ rxd' = RingOf([full |-> FALSE, bad |-> FALSE, frame |-> Empty])
    /\ txd' = RingOf([done |-> TRUE, frame |-> Empty])
    /\ regs' = [RDH |-> 0, RDT |-> RING - 1, TDH |-> 0, TDT |-> 0]
    /\ rx_i' = 0 /\ tx_i' = 0

\* probe: no card, a reset that hangs, no link or no address ends it before the rings.
probe(answers, free) ==
    /\ nic = "none"
    /\ nicPages' = IF answers THEN alloc_rings(free) ELSE 0
    /\ IF nicPages' > 0 THEN nic' = "up" /\ program_rings ELSE UNCHANGED <<nic, rxd, txd, regs, rx_i, tx_i>>
    /\ UNCHANGED <<spin, rxq, txq, wrong>>

----------------------------------------------------------------------------
\* The card: a frame arrives when it owns a descriptor, and is dropped otherwise.
CardReceives(f, bad) ==
    /\ nic = "up" /\ regs.RDH # regs.RDT
    /\ rxd' = [rxd EXCEPT ![regs.RDH] = [full |-> TRUE, bad |-> bad, frame |-> f]]
    /\ regs' = [regs EXCEPT !.RDH = NextDesc(@)]
    /\ rxq' = IF bad THEN rxq ELSE Append(rxq, f)
    /\ UNCHANGED <<nic, nicPages, txd, rx_i, tx_i, spin, txq, wrong>>

CardSends ==
    /\ nic = "up" /\ regs.TDH # regs.TDT
    /\ wrong' = (wrong \/ txq = <<>> \/ txd[regs.TDH].frame # Head(txq))
    /\ txq' = IF txq = <<>> THEN txq ELSE Tail(txq)
    /\ txd' = [txd EXCEPT ![regs.TDH].done = TRUE]
    /\ regs' = [regs EXCEPT !.TDH = NextDesc(@)]
    /\ UNCHANGED <<nic, nicPages, rxd, rx_i, tx_i, spin, rxq>>

\* recycle_rx: the descriptor is cleared and the tail moved to it.
recycle_rx(i) ==
    /\ rxd' = [rxd EXCEPT ![i] = [full |-> FALSE, bad |-> FALSE, frame |-> @.frame]]
    /\ regs' = [regs EXCEPT !.RDT = i]

receive_slip ==
    /\ nic = "up" /\ ~spin /\ rxd[rx_i].full
    /\ IF rxd[rx_i].bad THEN UNCHANGED <<wrong, rxq>>
       ELSE /\ wrong' = (wrong \/ rxq = <<>> \/ rxd[rx_i].frame # Head(rxq))
            /\ rxq' = IF rxq = <<>> THEN rxq ELSE Tail(rxq)
    /\ recycle_rx(NextDesc(rx_i)) /\ rx_i' = NextDesc(rx_i)
    /\ UNCHANGED <<nic, nicPages, txd, tx_i, spin, txq>>

\* receive: the next descriptor if the card has filled it; a frame with errors, without
\* an end or of no length is dropped.
receive ==
    /\ nic = "up" /\ ~spin /\ rxd[rx_i].full
    /\ IF rxd[rx_i].bad THEN UNCHANGED <<wrong, rxq>>
       ELSE /\ wrong' = (wrong \/ rxq = <<>> \/ rxd[rx_i].frame # Head(rxq))
            /\ rxq' = IF rxq = <<>> THEN rxq ELSE Tail(rxq)
    /\ recycle_rx(rx_i) /\ rx_i' = NextDesc(rx_i)
    /\ UNCHANGED <<nic, nicPages, txd, tx_i, spin, txq>>

\* send_frame up to its spin; nothing is sent when the descriptor is not done.
send_frame(f) ==
    /\ nic = "up" /\ ~spin /\ txd[tx_i].done /\ Len(txq) < MAX_TXQ
    /\ txd' = [txd EXCEPT ![tx_i] = [done |-> FALSE, frame |-> f]]
    /\ regs' = [regs EXCEPT !.TDT = NextDesc(tx_i)]
    /\ spin' = TRUE /\ txq' = Append(txq, f)
    /\ UNCHANGED <<nic, nicPages, rxd, rx_i, tx_i, rxq, wrong>>

FrameSent ==
    /\ spin /\ txd[tx_i].done
    /\ spin' = FALSE /\ tx_i' = NextDesc(tx_i)
    /\ UNCHANGED <<nic, nicPages, rxd, txd, regs, rx_i, rxq, txq, wrong>>

\* The spin ends without the card: the place stays, though the tail has moved past it.
SpinTimeout ==
    /\ spin /\ ~txd[tx_i].done
    /\ spin' = FALSE
    /\ UNCHANGED <<nic, nicPages, rxd, txd, regs, rx_i, tx_i, rxq, txq, wrong>>

NicInit ==
    /\ nic = "none" /\ nicPages = 0
    /\ rxd = RingOf([full |-> FALSE, bad |-> FALSE, frame |-> Empty])
    /\ txd = RingOf([done |-> FALSE, frame |-> Empty])
    /\ regs = [RDH |-> 0, RDT |-> 0, TDH |-> 0, TDT |-> 0] /\ rx_i = 0 /\ tx_i = 0
    /\ spin = FALSE /\ rxq = <<>> /\ txq = <<>> /\ wrong = FALSE

NicNext ==
    \/ \E answers \in BOOLEAN, free \in 0 .. MAX_PAGES : probe(answers, free)
    \/ \E f \in EthFrames, bad \in BOOLEAN : CardReceives(f, bad)
    \/ \E f \in EthFrames : send_frame(f)
    \/ CardSends \/ receive \/ FrameSent \/ SpinTimeout

NicSpec == NicInit /\ [][NicNext]_nicVars

----------------------------------------------------------------------------
\* Frames come out of the rings as they went in: every good frame the card took is
\* handed to the stack, in order and once, and what goes on the wire is what was
\* handed over, in order and at most once, after a spin that timed out as well.  A
\* driver that did not come up holds no pages.
FramesInOrder ==
    /\ ~wrong
    /\ \E n \in 0 .. RING : Len(rxq) = n /\ n = Cardinality({i \in DOMAIN rxd : rxd[i].full /\ ~rxd[i].bad})
    /\ nic = "none" => nicPages = 0
=============================================================================
