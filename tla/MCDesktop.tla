----------------------------- MODULE MCDesktop -----------------------------
(***************************************************************************)
(* DesktopProps for TLC.                                                   *)
(***************************************************************************)
EXTENDS DesktopProps

CONSTANT MAX_FRAMES     \* bound: windows open at once

\* Bound: of these at most one minimized and one maximized.
FewFrames ==
    /\ Len(st.frames) <= MAX_FRAMES
    /\ Cardinality({i \in DOMAIN st.frames : st.frames[i].minimized}) <= 1
    /\ Cardinality({i \in DOMAIN st.frames : st.frames[i].maximized}) <= 1

E(d, u, r, m) == [down |-> d, up |-> u, right |-> r, moved |-> m]

\* Press, release, both merged into one event, right press.
MCMouseEvents == {E(TRUE, FALSE, FALSE, FALSE), E(FALSE, TRUE, FALSE, TRUE),
                  E(TRUE, TRUE, FALSE, FALSE), E(FALSE, FALSE, TRUE, FALSE)}
=============================================================================
