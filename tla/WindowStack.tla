---------------------------- MODULE WindowStack ----------------------------
(***************************************************************************)
(* What the desktop promises about the windows one sees, as the docs put   *)
(* it: a stack, the last one is the active one.  A step brings one window  *)
(* to the front, new or old, or takes some away; the others keep their     *)
(* order, and no window is there twice.                                    *)
(***************************************************************************)

CONSTANT Windows

VARIABLES
    shown,      \* the windows in the stack
    below       \* the pairs of them of which the first is below the second

Init == shown = {} /\ below = {}

ToFront(w) ==
    LET others == shown \ {w}
    IN  /\ shown' = others \cup {w}
        /\ below' = (below \cap (others \X others)) \cup (others \X {w})

TakeAway ==
    /\ shown' \subseteq shown
    /\ below' = below \cap (shown' \X shown')

Next == TakeAway \/ \E w \in Windows : ToFront(w)

Spec == Init /\ [][Next]_<<shown, below>>
=============================================================================
