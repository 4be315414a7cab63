----------------------------- MODULE MCServices -----------------------------
(***************************************************************************)
(* The parts that promise to come to an end: network calls, the search of  *)
(* the USB ports and the shell's lines, side by side.  part says which of  *)
(* them a behaviour is about; the others stay as they start.               *)
(***************************************************************************)
EXTENDS Network, XhciEnum, ShellExec, TLC

VARIABLE part

Parts == {"Net", "Enum", "Shell"}

\* Of a part that starts in several ways the others need only one.
Init ==
    /\ part \in Parts
    /\ NetInit /\ ShellInit
    /\ EnumInit /\ (part # "Enum" => plug = CHOOSE p \in Plugged : TRUE)

Next ==
    /\ UNCHANGED part
    /\ \/ part = "Net" /\ NetNext /\ UNCHANGED <<enumVars, shellVars>>
       \/ part = "Enum" /\ EnumNext /\ UNCHANGED <<netVars, shellVars>>
       \/ part = "Shell" /\ ShellNext /\ UNCHANGED <<netVars, enumVars>>

vars == <<part, netVars, enumVars, shellVars>>

\* No part is at work at the start, so the fairness of the others asks for nothing.
Spec == Init /\ [][Next]_vars /\ NetFair /\ EnumFair /\ ShellFair

----------------------------------------------------------------------------
\* Network: names that differ in case only; a body of no stated length longer than the
\* buffer, and one whose length says so.  A reset may cut either short.
R(length, body) == [length |-> length, body |-> body]
MCResponses == {R(NoLength, 2), R(2, 1)}
MCLower     == [n \in HostNames |-> "a"]

\* XhciEnum: two root ports, the first with or without a hub of two ports.
P(a, b, c, d) == (Place(1, 0) :> a) @@ (Place(2, 0) :> b) @@ (Place(1, 1) :> c) @@ (Place(1, 2) :> d)
                 @@ (Place(2, 1) :> "none") @@ (Place(2, 2) :> "none")
MCPlugged ==
    {P("msc", "hid", "none", "none"), P("hub", "msc", "hid", "other"),
     P("other", "hub", "none", "none"), P("hub", "none", "msc", "hub")}

\* ShellExec: pipelines of up to four stages with redirections, and lines that do not parse.
MCCmdLines ==
    {<<"w", "|", "w">>, <<"w", "<", "w", ">", "w">>, <<"w", "<", "w", "|", "w", ">", "w">>,
     <<"w", "|", "w", "|", "w">>, <<"|", "w">>, <<"w", "|">>, <<"w", "<">>, <<"w", "<", "|">>,
     <<"w", "<", "w", "<", "w">>, <<"w", ">", "w", ">", "w">>, <<"w", ">", "|">>,
     <<"w", ">", "w", "|", "w">>, <<"w", "w", "w", "<", "w">>,
     <<"w", "|", "w", "|", "w", "|", "w">>, <<"w", "|", "<", "w">>}
=============================================================================
