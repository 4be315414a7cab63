--------------------------- MODULE DesktopProps ---------------------------
(***************************************************************************)
(* Correctness properties of Desktop.                                      *)
(***************************************************************************)
EXTENDS Desktop

\* Compositor and window server agree: every surface has exactly one frame,
\* every client frame a surface, and no window of the kernel is there twice.
\* A surface goes in three ways (exit, close button, task bar), each of which
\* has to take the frame along (sys_create, drop_id, drop_pid, on_client_close).
\* Keys go where the windows say: to a client exactly when the active window is one
\* (CLIENT_TOP), to Files or Settings only while their window is there (focus).
WindowsMatch ==
    /\ \A i, j \in DOMAIN st.frames : st.frames[i].kind = st.frames[j].kind => i = j
    /\ \A w \in WinIds : slots[w] # 0 <=> IndexOf(st, Client(w)) # {}
    /\ st.CLIENT_TOP = (top_kind(st).name = "Client")
    /\ st.focus = "Files" => IndexOf(st, Sys("Files")) # {}
    /\ st.focus = "Desk" => IndexOf(st, Sys("Settings")) # {}

\* A drag is of a window that exists, is shown and is not maximized, and lasts
\* no longer than the button: a window that reuses the id of a closed one is
\* not dragged along (Drag::kind, apply_drag, apply_resize).
DragTarget ==
    st.drag # NoKind =>
        /\ st.btn_held
        /\ \E i \in Visible(st) : st.frames[i].kind = st.drag /\ ~st.frames[i].maximized

\* A process that has ended by itself has no window, and no event for it takes
\* room in the ring that all clients share (drop_pid, retain_q).
NothingOfExited ==
    \A p \in exited :
        /\ Owned(p) = {}
        /\ \A i \in DOMAIN evq : evq[i].pid # p

\* The windows one sees, and the pairs of them of which the first is below the second.
Shown == {st.frames[i].kind : i \in Visible(st)}
Under ==
    {<<st.frames[p[1]].kind, st.frames[p[2]].kind>> :
        p \in {p \in Visible(st) \X Visible(st) : p[1] < p[2]}}

Stack == INSTANCE WindowStack WITH Windows <- Kinds, shown <- Shown, below <- Under

\* The windows one sees behave as a stack: whatever the user and the processes
\* do, one window comes to the front or some go, and the others keep their order
\* (raise, close_frame, minimize_frame, restore_min).
ImplementsStack == Stack!Spec

\* With the terminal as the active window and no overlay, arrows reach stdin
\* (docs/contrib/architecture.md on Tab and arrows; irq_files_key).
ArrowsReachStdin ==
    top_kind(st) = Sys("Vt") /\ st.open = {} /\ ~PowerOpen => irq_files_key("Up") = "stdin"
=============================================================================
