------------------------------ MODULE Desktop ------------------------------
(***************************************************************************)
(* The desktop of the kernel: the stack of windows, focus, drag and the    *)
(* overlays of the compositor (kernel/src/ui/comp/{mod,frames,chrome,      *)
(* state}.rs), the client windows behind its frames (ui/win.rs), and the   *)
(* choice of who gets a key (dispatch in input/kbd.rs, the irq functions). *)
(*                                                                         *)
(* A key is routed when it arrives, in an interrupt, by flags that mirror  *)
(* the state; if the desktop takes it, it waits in a queue and is applied  *)
(* by comp::poll, to the state of that time.  `mode` is where the CPU is:  *)
(* run (processes), poll (comp::poll applies the keys), mouse (comp::poll  *)
(* handles the mouse event), off.  Keys arrive at any time; the calls of   *)
(* processes only happen in run, because there is one CPU.                 *)
(*                                                                         *)
(* Geometry is abstracted: a click hits any part of any window that no     *)
(* maximized window covers.  Selections inside menus are abstracted too:   *)
(* Enter and click choose any row.  Pixels, hover marks and the panel's    *)
(* opacity are left out.                                                   *)
(***************************************************************************)
EXTENDS Naturals, Sequences, FiniteSets, TLC

CONSTANTS
    MAX_SURFACES,   \* client windows (8 in the code)
    IN_CAP,         \* slots of the clients' event ring (8); it holds one less
    KEY_CAP,        \* slots of the compositor's key ring (16); it holds one less
    Pids,           \* processes that may own windows
    Keys,           \* keys of this instance, a subset of AllKeys
    Names,          \* entries of the launchers: subset of AllNames
    Parts,          \* parts of a window that are clicked: subset of AllParts
    MouseEvents     \* merged mouse events of this instance

AllKeys == {"AltSpace", "Tab", "Esc", "Up", "Left", "Right", "Enter",
            "Delete", "Backspace", "Char", "CtrlC", "Home"}

AllNames == {"sh", "files", "settings", "edit", "app", "reboot", "poweroff"}

AllParts == {"Close", "Min", "Max", "Title", "Resize", "Client"}

\* mouse::Event after merging: press and release of both buttons, motion.
MouseEvent == [down : BOOLEAN, up : BOOLEAN, right : BOOLEAN, moved : BOOLEAN]

ASSUME DesktopAssumption ==
    /\ MAX_SURFACES \in Nat
    /\ IN_CAP \in Nat \ {0}
    /\ KEY_CAP \in Nat \ {0}
    /\ 0 \notin Pids
    /\ Keys \subseteq AllKeys
    /\ Names \subseteq AllNames
    /\ Parts \subseteq AllParts
    /\ MouseEvents \subseteq MouseEvent

WinIds == 1 .. MAX_SURFACES

\* FrameKind: a window of the kernel, or Client(id).
System == {"Vt", "Files", "Settings"}
Kinds  == [name : System, id : {0}] \cup [name : {"Client"}, id : WinIds]
Sys(n)     == [name |-> n, id |-> 0]
Client(id) == [name |-> "Client", id |-> id]
NoKind     == [name |-> "None", id |-> 0]

Frame == [kind : Kinds, minimized : BOOLEAN, maximized : BOOLEAN]

frame_new(k) == [kind |-> k, minimized |-> FALSE, maximized |-> FALSE]

VARIABLES
    mode,       \* where the CPU is
    st,         \* the compositor's State and the flags that mirror it
    keyq,       \* KEY_Q: keys taken by the desktop and not applied yet
    slots,      \* Win::slots: the owner of each client window, or 0
    evq,        \* Win::q: events that wait for their process
    exited,     \* the processes that have ended by themselves
    left        \* PREV_LEFT: is the left button down

vars == <<mode, st, keyq, slots, evq, exited, left>>

Overlays == {"launcher", "runner", "desk_menu", "files_menu"}

State == [frames : Seq(Frame), focus : {"Term", "Files", "Desk"},
          drag : Kinds \cup {NoKind}, btn_held : BOOLEAN,
          open : SUBSET Overlays,
          power : {"None", "Reboot", "PowerOff"}, power_ok : BOOLEAN,
          CLIENT_TOP : BOOLEAN]

Init ==
    /\ mode = "run"
    /\ st = [frames |-> << >>, focus |-> "Term", drag |-> NoKind,
             btn_held |-> FALSE, open |-> {},
             power |-> "None", power_ok |-> FALSE,
             CLIENT_TOP |-> FALSE]
    /\ keyq = << >>
    /\ slots = [w \in WinIds |-> 0]
    /\ evq = << >>
    /\ exited = {}
    /\ left = FALSE

-----------------------------------------------------------------------------
(* frames.rs: the stack of windows, last is on top *)

Visible(s) == {i \in DOMAIN s.frames : ~s.frames[i].minimized}

\* The index of the window that is drawn as the active one; 0 if there is none.
visible_top(s) ==
    IF Visible(s) = {} THEN 0
    ELSE CHOOSE i \in Visible(s) : \A j \in Visible(s) : j <= i

top_kind(s) == IF visible_top(s) = 0 THEN NoKind ELSE s.frames[visible_top(s)].kind

any_maximized(s) == \E i \in Visible(s) : s.frames[i].maximized

sync_client_top(s) == [s EXCEPT !.CLIENT_TOP = (top_kind(s).name = "Client")]

FocusOf(k) == CASE k.name = "Files"    -> "Files"
                [] k.name = "Settings" -> "Desk"
                [] OTHER               -> "Term"

focus_frame(s, i) == [s EXCEPT !.focus = FocusOf(s.frames[i].kind)]

\* What is left of q when only the entries at the indices in keep stay.
Kept(q, keep) ==
    LET upto[n \in 0 .. Len(q)] ==
            IF n = 0 THEN << >>
            ELSE IF n \in keep THEN Append(upto[n - 1], q[n]) ELSE upto[n - 1]
    IN  upto[Len(q)]

Without(q, i) == [j \in 1 .. Len(q) - 1 |-> IF j < i THEN q[j] ELSE q[j + 1]]

raise_swap_slip(s, i) ==        \* the window changes places with the last one
    sync_client_top([s EXCEPT !.frames[i] = s.frames[Len(s.frames)],
                              !.frames[Len(s.frames)] = s.frames[i]])

raise(s, i) ==
    sync_client_top([s EXCEPT !.frames = Append(Without(s.frames, i), s.frames[i])])

IndexOf(s, k) == {i \in DOMAIN s.frames : s.frames[i].kind = k}

Unminimized(s, i) == [s EXCEPT !.frames[i].minimized = FALSE]

retarget_focus(s) ==
    sync_client_top([s EXCEPT !.focus = FocusOf(top_kind(s))])

NoDragOf(s, k) == IF s.drag = k THEN [s EXCEPT !.drag = NoKind] ELSE s

minimize_frame(s, i) ==
    LET m == [s EXCEPT !.frames[i].minimized = TRUE]
    IN  retarget_focus(NoDragOf(m, s.frames[i].kind))

\* The window is restored, then index i is read again: it names the window
\* that has moved there.
restore_min(s, i) == focus_frame(raise(Unminimized(s, i), i), i)

close_frame(s, i) ==
    retarget_focus([NoDragOf(s, s.frames[i].kind) EXCEPT !.frames = Without(@, i)])

toggle_max(s, i) == raise([s EXCEPT !.frames[i].maximized = ~@], i)

\* ensure_frame and what its callers do with the frame.
Show(s, k) ==
    LET e == IF IndexOf(s, k) # {} THEN s
             ELSE [s EXCEPT !.frames = Append(@, frame_new(k))]
        i == CHOOSE j \in IndexOf(e, k) : TRUE
        r == raise(Unminimized(e, i), i)
    IN  focus_frame(r, Len(r.frames))

apply_drag(s) == IF IndexOf(s, s.drag) = {} THEN [s EXCEPT !.drag = NoKind] ELSE s

-----------------------------------------------------------------------------
(* chrome.rs: overlays *)

close_overlay(s, o) == [s EXCEPT !.open = @ \ {o}]

\* Which of the others an overlay closes when it opens.
Closes(o) == CASE o = "launcher"   -> {"runner", "desk_menu"}
               [] o = "runner"     -> {"launcher", "desk_menu"}
               [] o = "desk_menu"  -> {"files_menu", "launcher", "runner"}
               [] o = "files_menu" -> {"desk_menu", "launcher", "runner"}

open_overlay(s, o) == [s EXCEPT !.open = (@ \ Closes(o)) \cup {o}]

open_power_dlg(s, kind) ==
    [s EXCEPT !.open = @ \ {"launcher", "runner", "desk_menu"},
              !.power = kind, !.power_ok = FALSE]

close_power_dlg(s) == [s EXCEPT !.power = "None", !.power_ok = FALSE]

\* focus_named, or a process is started, or its file is not found.
Launched(s, name) ==
    CASE name \in {"sh", "edit"} -> Show(s, Sys("Vt"))
      [] name = "files"          -> Show(s, Sys("Files"))
      [] name = "settings"       -> Show(s, Sys("Settings"))
      [] OTHER                   -> s

runner_launch(s, name) == Launched(close_overlay(s, "runner"), name)

launch_index(s, name) ==
    CASE name = "reboot"   -> open_power_dlg(s, "Reboot")
      [] name = "poweroff" -> open_power_dlg(s, "PowerOff")
      [] OTHER             -> Launched(close_overlay(s, "launcher"), name)

RunnerNames == Names \ {"reboot", "poweroff"}

desk_menu_activate(s) == Show(close_overlay(s, "desk_menu"), Sys("Settings"))

-----------------------------------------------------------------------------
(* win.rs: the ring of events that wait for processes *)

push_ev(q, p, kind) ==
    IF Len(q) + 1 = IN_CAP THEN q ELSE Append(q, [pid |-> p, kind |-> kind])

push_client(id, kind) == IF slots[id] = 0 THEN evq ELSE push_ev(evq, slots[id], kind)

\* A move replaces the move before it, if it is of the same process.
push_client_move(id) ==
    IF slots[id] # 0 /\ evq # << >> /\ evq[Len(evq)] = [pid |-> slots[id], kind |-> "move"]
    THEN evq
    ELSE push_client(id, "move")

retain_q_slip(q, p) == q

retain_q(q, p) == Kept(q, {i \in DOMAIN q : q[i].pid # p})

drop_id_slip(id) == slots

drop_id(id) == [slots EXCEPT ![id] = 0]

-----------------------------------------------------------------------------
(* Who gets a key: kbd::dispatch and the irq functions of comp, by the flags *)

Top(o) == o \in st.open

PowerOpen == st.power # "None"

\* Who may claim a key, in the order in which irq_files_key asks.
Claims == << <<"power",      PowerOpen>>,
             <<"runner",     Top("runner")>>,
             <<"launcher",   Top("launcher")>>,
             <<"desk_menu",  Top("desk_menu")>>,
             <<"files_menu", Top("files_menu")>>,
             <<"client",     st.CLIENT_TOP>>,
             <<"settings",   st.focus = "Desk">>,
             <<"files",      st.focus = "Files">>,
             <<"stdin",      TRUE>> >>

Taker == Claims[CHOOSE i \in DOMAIN Claims :
                    Claims[i][2] /\ \A j \in 1 .. i - 1 : ~Claims[j][2]][1]

\* The code under which each of them queues a key; the keys it does not list
\* it swallows.
Arrows == [Up |-> "UP", Left |-> "LEFT", Right |-> "RIGHT", Enter |-> "ENTER", Backspace |-> "BACK"]
Menu   == [Up |-> "UP", Enter |-> "ENTER", Backspace |-> "ESC"]

Codes == [power      |-> [Enter |-> "ENTER", Backspace |-> "ESC", Left |-> "LEFT", Right |-> "RIGHT"],
          runner     |-> [Up |-> "UP", Enter |-> "ENTER", Backspace |-> "BACK"],
          launcher   |-> Menu,
          desk_menu  |-> [Enter |-> "ENTER", Backspace |-> "ESC"],
          files_menu |-> Menu,
          client     |-> Arrows,
          settings   |-> Arrows,
          files      |-> Arrows @@ [Delete |-> "DEL"]]

irq_files_key(k) ==
    IF Taker = "stdin" THEN "stdin"
    ELSE IF k \in DOMAIN Codes[Taker] THEN Codes[Taker][k] ELSE "drop"

irq_tab == IF Top("runner") THEN "drop" ELSE IF Taker = "stdin" THEN "stdin" ELSE "TAB"

irq_esc == IF Taker \in {"settings", "stdin"} THEN "drop" ELSE "ESC"

\* A printable character: irq_runner_char, irq_client_char, irq_files_char.
irq_char ==
    IF PowerOpen THEN "drop"
    ELSE IF \/ Top("runner")
            \/ st.open = {} /\ st.CLIENT_TOP
            \/ ~Top("launcher") /\ st.focus \in {"Desk", "Files"}
         THEN "CHAR"
    ELSE IF st.focus = "Files" THEN "drop" ELSE "stdin"

irq_ctrl_c ==
    IF PowerOpen \/ Top("runner") THEN "drop"
    ELSE IF ~Top("launcher") /\ st.focus = "Files" THEN "COPY" ELSE "stdin"

\* Where key k goes.  In Files, Left and Right are taken only while a path or
\* a preview wants them (fm::wants_arrows).
dispatch(k) ==
    CASE k = "AltSpace" -> {"RUNNER"}
      [] k = "Home"     -> {"stdin"}
      [] k = "Tab"      -> {irq_tab}
      [] k = "Esc"      -> {irq_esc}
      [] k = "Char"     -> {irq_char}
      [] k = "CtrlC"    -> {irq_ctrl_c}
      [] k \in {"Up", "Enter", "Delete", "Backspace"} -> {irq_files_key(k)}
      [] k \in {"Left", "Right"} ->
            {irq_files_key(k)} \cup (IF Taker = "files" THEN {"stdin"} ELSE {})

push_key(code) == IF Len(keyq) + 1 = KEY_CAP THEN keyq ELSE Append(keyq, code)

Key(k) ==
    /\ mode # "off"
    /\ \E code \in dispatch(k) :
        /\ code \notin {"drop", "stdin"}
        /\ keyq' = push_key(code)
    /\ UNCHANGED <<mode, st, slots, evq, exited, left>>

-----------------------------------------------------------------------------
(* comp::poll, first part: apply the queued keys *)

PollStart ==
    /\ mode = "run"
    /\ mode' = "poll"
    /\ UNCHANGED <<st, keyq, slots, evq, exited, left>>

\* pop_key; the key is then k.
Pop(k) ==
    /\ mode = "poll" /\ keyq # << >> /\ k = Head(keyq)
    /\ keyq' = Tail(keyq)
    /\ UNCHANGED <<slots, exited, left>>

\* apply_key_tab: the window after the active one, shown or not, comes up.
apply_key_tab(s) ==
    IF s.frames = << >> THEN [s EXCEPT !.focus = "Term"]
    ELSE LET cur  == IF visible_top(s) = 0 THEN 1 ELSE visible_top(s)
             next == (cur % Len(s.frames)) + 1
             r    == raise(Unminimized(s, next), next)
         IN  focus_frame(r, Len(r.frames))

KeyToggleRunner ==
    /\ Pop("RUNNER")
    /\ st' = IF PowerOpen THEN st
             ELSE IF Top("runner") THEN close_overlay(st, "runner")
             ELSE open_overlay(st, "runner")
    /\ UNCHANGED <<mode, evq>>

\* confirm_apply: the machine stops, or ACPI fails and the dialog is gone.
Confirm(next) ==
    /\ mode' \in {"off", next}
    /\ st' = close_power_dlg(st)

KeyConfirm(k) ==
    /\ Pop(k) /\ k # "RUNNER" /\ PowerOpen
    /\ \/ k = "ESC" /\ st' = close_power_dlg(st) /\ UNCHANGED mode
       \/ k \in {"LEFT", "TAB"} /\ st' = [st EXCEPT !.power_ok = ~@] /\ UNCHANGED mode
       \/ k = "RIGHT" /\ st' = [st EXCEPT !.power_ok = TRUE] /\ UNCHANGED mode
       \/ k = "ENTER" /\ ~st.power_ok /\ st' = close_power_dlg(st) /\ UNCHANGED mode
       \/ k = "ENTER" /\ st.power_ok /\ Confirm("poll")
       \/ k \notin {"ESC", "LEFT", "TAB", "RIGHT", "ENTER"} /\ UNCHANGED <<st, mode>>
    /\ UNCHANGED evq

\* With nothing found, Enter does nothing.
KeyRunner(k) ==
    /\ Pop(k) /\ k # "RUNNER" /\ ~PowerOpen /\ Top("runner")
    /\ \/ k = "ESC" /\ st' = close_overlay(st, "runner")
       \/ k = "ENTER" /\ \E n \in RunnerNames : st' = runner_launch(st, n)
       \/ k # "ESC" /\ UNCHANGED st
    /\ UNCHANGED <<mode, evq>>

KeyLauncher(k) ==
    /\ Pop(k) /\ k # "RUNNER" /\ ~PowerOpen /\ ~Top("runner") /\ Top("launcher")
    /\ \/ k = "ESC" /\ st' = close_overlay(st, "launcher")
       \/ k = "TAB" /\ st' = apply_key_tab(close_overlay(st, "launcher"))
       \/ k = "ENTER" /\ \E n \in Names : st' = launch_index(st, n)
       \/ k \notin {"ESC", "TAB", "ENTER"} /\ UNCHANGED st
    /\ UNCHANGED <<mode, evq>>

NoPopup == ~PowerOpen /\ ~Top("runner") /\ ~Top("launcher")

KeyMenu(k) ==
    /\ Pop(k) /\ k # "RUNNER" /\ NoPopup
    /\ \E m \in {"desk_menu", "files_menu"} :
        /\ Top(m) /\ (m = "files_menu" => ~Top("desk_menu"))
        /\ \/ k = "ESC" /\ st' = close_overlay(st, m)
           \/ k = "ENTER" /\ st' = IF m = "desk_menu" THEN desk_menu_activate(st)
                                   ELSE close_overlay(st, m)
           \/ k \notin {"ESC", "ENTER"} /\ UNCHANGED st
    /\ UNCHANGED <<mode, evq>>

\* No overlay: the active window decides, not the focus by which the key came.
\* Keys that are for neither a client nor Settings change only the file manager.
KeyWindow(k) ==
    /\ Pop(k) /\ k # "RUNNER" /\ NoPopup /\ st.open = {}
    /\ st' = IF k = "TAB" THEN apply_key_tab(st) ELSE st
    /\ evq' = IF top_kind(st).name = "Client" /\ k \notin {"TAB", "DEL", "COPY"}
              THEN push_client(top_kind(st).id, "key") ELSE evq
    /\ UNCHANGED mode

PollKeysDone ==
    /\ mode = "poll" /\ keyq = << >>
    /\ mode' = "mouse"
    /\ UNCHANGED <<st, keyq, slots, evq, exited, left>>

-----------------------------------------------------------------------------
(* Calls of processes: win.rs and comp::on_client_* *)

on_client_create(s, id) ==
    sync_client_top([s EXCEPT !.frames = Append(@, frame_new(Client(id))), !.focus = "Term"])

on_client_close_slip(s, ids) ==     \* the drag outlives its window
    LET stay == {i \in DOMAIN s.frames : s.frames[i].kind \notin {Client(w) : w \in ids}}
    IN  IF stay = DOMAIN s.frames THEN s
        ELSE retarget_focus([s EXCEPT !.frames = Kept(@, stay)])

\* on_client_close of each window in ids.
on_client_close(s, ids) ==
    LET gone == {Client(w) : w \in ids}
        stay == {i \in DOMAIN s.frames : s.frames[i].kind \notin gone}
    IN  IF stay = DOMAIN s.frames THEN s
        ELSE retarget_focus([s EXCEPT
                !.frames = Kept(@, stay),
                !.drag   = IF @ \in gone THEN NoKind ELSE @])

sys_create(p) ==
    /\ mode = "run" /\ p \notin exited
    /\ \E id \in WinIds :
        /\ slots[id] = 0 /\ \A w \in 1 .. id - 1 : slots[w] # 0
        /\ slots' = [slots EXCEPT ![id] = p]
        /\ st' = on_client_create(st, id)
    /\ UNCHANGED <<mode, keyq, evq, exited, left>>

\* Of the n events that fit, or of fewer, none is left behind.
take_for_pid(q, p, n) ==
    LET Mine(i) == Cardinality({j \in 1 .. i : q[j].pid = p})
    IN  Kept(q, {i \in DOMAIN q : q[i].pid # p \/ Mine(i) > n})

sys_poll_input(p) ==
    /\ mode = "run" /\ p \notin exited
    /\ \E n \in 1 .. IN_CAP : evq' = take_for_pid(evq, p, n)
    /\ UNCHANGED <<mode, st, keyq, slots, exited, left>>

Owned(p) == {w \in WinIds : slots[w] = p}

drop_pid(p) ==
    /\ slots' = [w \in WinIds |-> IF slots[w] = p THEN 0 ELSE slots[w]]
    /\ evq' = retain_q(evq, p)
    /\ st' = on_client_close(st, Owned(p))

\* A process that ends by itself takes its windows along.  One that is killed
\* leaves them: here it just does nothing
\* any more.
Exit(p) ==
    /\ mode = "run" /\ p \notin exited
    /\ drop_pid(p)
    /\ exited' = exited \cup {p}
    /\ UNCHANGED <<mode, keyq, left>>

-----------------------------------------------------------------------------
(* comp::poll, second part: the mouse event *)

\* Windows that can be hit: a maximized one covers all that is below it.
Hittable(s) ==
    {i \in Visible(s) : \A j \in Visible(s) : j > i => ~s.frames[j].maximized}

PanelHit == [part |-> "Panel", i |-> 0]
DeskHit  == [part |-> "Desk", i |-> 0]

\* hit_test and panel_hit, at any place.
hit_test(s) ==
    {h \in [part : Parts, i : Hittable(s)] : h.part = "Resize" => ~s.frames[h.i].maximized}
    \cup {PanelHit}
    \cup (IF any_maximized(s) THEN {} ELSE {DeskHit})

\* What mouse::drain merges out of the packets since the last poll.
Merged(e, l) ==
    /\ e.down /\ ~e.up => ~left /\ l
    /\ e.up /\ ~e.down => left /\ ~l
    /\ ~e.down /\ ~e.up => (l = left)

\* The state in which the branches on the event begin: drag and button.
Pressed(e) ==
    [(IF e.moved /\ st.drag # NoKind THEN apply_drag(st) ELSE st)
        EXCEPT !.btn_held = IF e.down THEN TRUE ELSE IF e.up THEN FALSE ELSE @]

Clicked(e) == e.down /\ ~st.btn_held

Released(s, e) == IF e.up THEN [s EXCEPT !.drag = NoKind] ELSE s

\* A move over a client window is queued for its process.
Hovered(e, h) ==
    IF e.moved /\ st.drag = NoKind /\ h.part = "Client" /\ st.frames[h.i].kind.name = "Client"
    THEN push_client_move(st.frames[h.i].kind.id)
    ELSE evq

RightClicked(e) == e.right /\ st.drag = NoKind

Mouse(e) ==
    /\ mode = "mouse"
    /\ \E l \in BOOLEAN : Merged(e, l) /\ left' = l
    /\ UNCHANGED <<keyq, exited>>

MouseIdle ==
    /\ mode = "mouse" /\ mode' = "run"
    /\ UNCHANGED <<st, keyq, slots, evq, exited, left>>

MouseMove(e, h) ==
    /\ ~Clicked(e) /\ ~RightClicked(e)
    /\ mode' = "run"
    /\ st' = Released(Pressed(e), e)
    /\ evq' = Hovered(e, h)
    /\ UNCHANGED slots

\* handle_right_click.  An open overlay is only closed.
RightOverlay(s) ==
    LET order == <<"files_menu", "desk_menu", "launcher", "runner">>
        i     == CHOOSE j \in 1 .. 4 : order[j] \in s.open /\ \A l \in 1 .. j - 1 : order[l] \notin s.open
    IN  close_overlay(s, order[i])

handle_right_click(s, h) ==
    CASE s.power # "None" -> {s}
      [] s.power = "None" /\ s.open # {} -> {RightOverlay(s)}
      [] s.power = "None" /\ s.open = {} ->
            IF h = DeskHit THEN {open_overlay(s, "desk_menu")}
            ELSE IF h.part = "Client" /\ s.frames[h.i].kind = Sys("Files")
            THEN LET f == [raise(s, h.i) EXCEPT !.focus = "Files"]
                 IN  {f, open_overlay(f, "files_menu")}
            ELSE {s}

MouseRight(e, h) ==
    /\ RightClicked(e)
    /\ mode' = "run"
    /\ st' \in handle_right_click(Pressed(e), h)
    /\ evq' = Hovered(e, h)
    /\ UNCHANGED slots

Click(e) == Clicked(e) /\ ~RightClicked(e)

\* The power dialog: Cancel or outside, its body, or Ok.
ClickConfirm(e, h) ==
    /\ Click(e) /\ PowerOpen
    /\ \/ mode' = "run" /\ st' \in {close_power_dlg(Pressed(e)), Pressed(e)}
       \/ mode' \in {"off", "run"} /\ st' = close_power_dlg(Pressed(e))
    /\ evq' = Hovered(e, h)
    /\ UNCHANGED slots

\* A menu, the runner or the launcher takes the click: one of its rows, its
\* body, or (menus) outside of it.
ClickOverlay(e, h) ==
    /\ Click(e) /\ ~PowerOpen
    /\ LET s == Pressed(e)
       IN  \/ Top("desk_menu")
              /\ st' \in {desk_menu_activate(s), s, close_overlay(s, "desk_menu")}
           \/ ~Top("desk_menu") /\ Top("files_menu")
              /\ st' \in {s, close_overlay(s, "files_menu")}
           \/ ~Top("desk_menu") /\ ~Top("files_menu") /\ Top("runner")
              /\ st' \in {s} \cup {runner_launch(s, n) : n \in RunnerNames}
           \/ ~Top("desk_menu") /\ ~Top("files_menu") /\ Top("launcher")
              /\ st' \in {launch_index(s, n) : n \in Names}
    /\ mode' = "run"
    /\ evq' = Hovered(e, h)
    /\ UNCHANGED slots

\* The click goes on to panel and windows; outside of the panel it closes the
\* runner, and the launcher unless it is in the launcher's frame.
Passed(e, h) ==
    LET s == Pressed(e)
        r == IF h = PanelHit THEN s ELSE close_overlay(s, "runner")
    IN  IF h = PanelHit THEN {s} ELSE {r, close_overlay(r, "launcher")}

ClickThrough(e) ==
    Click(e) /\ ~PowerOpen /\ ~Top("desk_menu") /\ ~Top("files_menu")

toggle_overlay(s, o) == IF o \in s.open THEN close_overlay(s, o) ELSE open_overlay(s, o)

\* After raise the index i is read again, as in restore_min.
handle_task_click(s, i) ==
    IF s.frames[i].minimized THEN restore_min(s, i)
    ELSE IF visible_top(s) = i THEN minimize_frame(s, i)
    ELSE focus_frame(raise(s, i), i)

NoLaunchers(s) == [s EXCEPT !.open = @ \ {"launcher", "runner"}]

ClickPanel(e, h) ==
    /\ ClickThrough(e) /\ h = PanelHit
    /\ \E s \in Passed(e, h) :
        \/ \E o \in {"launcher", "runner"} : st' = Released(toggle_overlay(s, o), e)
        \/ st' = Released([s EXCEPT !.open = @ \ {"launcher", "runner", "desk_menu"}], e)
        \/ \E i \in DOMAIN s.frames : st' = Released(handle_task_click(NoLaunchers(s), i), e)
    /\ mode' = "run"
    /\ UNCHANGED <<slots, evq>>

\* handle_task_close: close_frame, which for a client drops its surface.
ClickTaskClose(e, h) ==
    /\ ClickThrough(e) /\ h = PanelHit
    /\ \E s \in Passed(e, h), i \in DOMAIN st.frames :
        /\ st' = Released(close_frame(NoLaunchers(s), i), e)
        /\ slots' = IF s.frames[i].kind.name = "Client"
                    THEN drop_id(s.frames[i].kind.id) ELSE slots
    /\ mode' = "run"
    /\ UNCHANGED evq

\* The decoration's close button.
ClickClose(e, h) ==
    /\ ClickThrough(e) /\ h.part = "Close"
    /\ \E s \in Passed(e, h) :
        LET k == s.frames[h.i].kind
        IN  \/ k.name = "Client" /\ st' = on_client_close(s, {k.id}) /\ slots' = drop_id(k.id)
            \/ k.name # "Client" /\ st' = Released(close_frame(s, h.i), e) /\ UNCHANGED slots
    /\ mode' = "run"
    /\ UNCHANGED evq

ClickButton(e, h) ==
    /\ ClickThrough(e) /\ h.part \in {"Min", "Max"}
    /\ \E s \in Passed(e, h) :
        st' = Released(IF h.part = "Min" THEN minimize_frame(s, h.i) ELSE toggle_max(s, h.i), e)
    /\ mode' = "run"
    /\ UNCHANGED <<slots, evq>>

Grab(s, i) == IF s.frames[i].maximized THEN s ELSE [s EXCEPT !.drag = s.frames[i].kind]

\* A title is clicked: the window is raised, then grabbed, or maximized if this
\* is the second of two quick clicks.  Time is not modelled: it may be either.
ClickTitle(e, h) ==
    /\ ClickThrough(e) /\ h.part = "Title"
    /\ \E s \in Passed(e, h) :
        LET r == raise(s, h.i)
            n == Len(r.frames)
        IN  \E t \in {toggle_max(r, n), Grab(r, n)} : st' = Released(t, e)
    /\ mode' = "run"
    /\ UNCHANGED <<slots, evq>>

ClickResize(e, h) ==
    /\ ClickThrough(e) /\ h.part = "Resize"
    /\ \E s \in Passed(e, h) :
        LET r == raise(s, h.i) IN st' = Released(Grab(r, Len(r.frames)), e)
    /\ mode' = "run"
    /\ UNCHANGED <<slots, evq>>

\* The inside of a window.  A client is told, and does not take the focus.
ClickClient(e, h) ==
    /\ ClickThrough(e) /\ h.part = "Client"
    /\ \E s \in Passed(e, h) :
        LET r == raise(s, h.i)
            k == s.frames[h.i].kind
        IN  \/ /\ k.name = "Client"
               /\ st' = Released(r, e)
               /\ LET q == Hovered(e, h)
                  IN  evq' = IF slots[k.id] = 0 THEN q ELSE push_ev(q, slots[k.id], "down")
            \/ /\ k.name = "Vt"
               /\ st' = Released([r EXCEPT !.focus = "Term"], e)
               /\ UNCHANGED evq
            \/ /\ k.name \in {"Files", "Settings"}
               /\ st' = [r EXCEPT !.focus = FocusOf(k)]
               /\ UNCHANGED evq
    /\ mode' = "run"
    /\ UNCHANGED slots

\* A click on the bare desktop.
ClickDesk(e, h) ==
    /\ ClickThrough(e) /\ h = DeskHit
    /\ \E s \in Passed(e, h) : st' = Released(s, e)
    /\ mode' = "run"
    /\ UNCHANGED <<slots, evq>>

\* The event is taken, then one of the branches of poll is.
MouseStep(e) ==
    /\ Mouse(e)
    /\ \E h \in hit_test(st) :
        \/ MouseMove(e, h) \/ MouseRight(e, h) \/ ClickConfirm(e, h) \/ ClickOverlay(e, h)
        \/ ClickPanel(e, h) \/ ClickTaskClose(e, h) \/ ClickClose(e, h) \/ ClickButton(e, h)
        \/ ClickTitle(e, h) \/ ClickResize(e, h) \/ ClickClient(e, h) \/ ClickDesk(e, h)

KeyStep(k) ==
    \/ KeyConfirm(k) \/ KeyRunner(k) \/ KeyLauncher(k) \/ KeyMenu(k) \/ KeyWindow(k)

\* The codes of the key ring.
KeyCodes == {"TAB", "UP", "ENTER", "BACK", "ESC", "RUNNER", "LEFT", "RIGHT",
             "DEL", "COPY", "CHAR"}

Next ==
    \/ \E k \in Keys : Key(k)
    \/ PollStart \/ PollKeysDone \/ MouseIdle \/ KeyToggleRunner
    \/ mode = "poll" /\ keyq # << >> /\ KeyStep(Head(keyq))
    \/ \E e \in MouseEvents : MouseStep(e)
    \/ \E p \in Pids : sys_create(p) \/ sys_poll_input(p) \/ Exit(p)

Spec == Init /\ [][Next]_vars
=============================================================================
