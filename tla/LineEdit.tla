------------------------------ MODULE LineEdit ------------------------------
(***************************************************************************)
(* The shell's line editor: apps/sh/src/line.rs and complete.rs.  One      *)
(* action takes one byte of the standard input through read_line, with all *)
(* it writes to the terminal.  The terminal is the row behind the prompt:  *)
(* a byte fills the cell under the cursor, a backspace moves it left.      *)
(***************************************************************************)
EXTENDS Integers, Sequences, FiniteSets, SequencesExt

CONSTANTS
    LINE_CAP, HIST_CAP, MAX_CAND,
    QUERY_CAP,              \* bytes a reverse search takes
    CSI_CAP,                \* parameter bytes an escape sequence may have
    Chars,                  \* printable bytes, " " among them
    Params,                 \* parameter bytes of escape sequences
    Clips,                  \* what the clipboard may hold
    Builtins, Bin, Files    \* names to complete to: built in, in /bin, in the cwd

BS == "BS"

\* read_line takes no control byte for a character, and drops those of the clipboard.
ASSUME LineConstants ==
    /\ LINE_CAP \in Nat \ {0} /\ HIST_CAP \in Nat \ {0} /\ MAX_CAND \in Nat
    /\ " " \in Chars /\ BS \notin Chars
    /\ \A clip \in Clips : clip \in Seq(Chars)
    /\ \A names \in {Builtins, Bin, Files} : names \in Seq(Seq(Chars))

VARIABLES
    ln, cur,        \* the line and the cursor's place in it
    kseq,           \* the bytes of the escape sequence so far, <<>> outside one
    search,         \* NoSearch, or the query and the match of a reverse search
    hist,           \* [lines, start, count, view, draft]
    fancy,          \* FALSE while `write` takes lines
    term,           \* [cells, col] behind the prompt
    garbled,        \* the terminal no longer shows the line: Tab away from its end
    pushed          \* the lines entered, the oldest dropped at HIST_CAP

lineVars == <<ln, cur, kseq, search, hist, fancy, term, garbled, pushed>>

NoAge == -1
NoSearch == [query |-> <<>>, idx |-> NoAge, on |-> FALSE]

----------------------------------------------------------------------------
\* What the terminal does with a byte, and with the bytes written to it.
Put(t, c) ==
    IF c = BS THEN [t EXCEPT !.col = @ - 1]
    ELSE [cells |-> [t.cells EXCEPT ![t.col] = c], col |-> t.col + 1]
Emit(t, out) ==
    LET row[i \in 0 .. Len(out)] == IF i = 0 THEN t ELSE Put(row[i - 1], out[i])
    IN  row[Len(out)]

FreshRow == [cells |-> [i \in 0 .. LINE_CAP |-> " "], col |-> 0]

Back(k) == [i \in 1 .. k |-> BS]
erase_n(k) == [i \in 1 .. 3 * k |-> IF i % 3 = 2 THEN " " ELSE BS]
From(l, c) == SubSeq(l, c + 1, Len(l))

LargestIn(S) == CHOOSE x \in S : \A y \in S : y <= x
LeastIn(S) == CHOOSE x \in S : \A y \in S : x <= y

\* The two loops over blanks and letters that word_left and kill_word start with, and
\* those of word_right.
WordStart(l, c) ==
    LET i == LargestIn({k \in 0 .. c : k = 0 \/ l[k] # " "})
    IN  LargestIn({k \in 0 .. i : k = 0 \/ l[k] = " "})
WordEnd(l, c) ==
    LET i == LeastIn({k \in c .. Len(l) : k = Len(l) \/ l[k + 1] # " "})
    IN  LeastIn({k \in i .. Len(l) : k = Len(l) \/ l[k + 1] = " "})

\* A line, the cursor in it and the bytes written on the way there.
Edit(l, c, out) == [ln |-> l, cur |-> c, out |-> out]
Same == Edit(ln, cur, <<>>)

go_home == Edit(ln, 0, Back(cur))
go_to_end == Edit(ln, Len(ln), From(ln, cur))
move_left == IF cur = 0 THEN Same ELSE Edit(ln, cur - 1, <<BS>>)
move_right == IF cur >= Len(ln) THEN Same ELSE Edit(ln, cur + 1, <<ln[cur + 1]>>)
word_left == LET i == WordStart(ln, cur) IN Edit(ln, i, Back(cur - i))
word_right == LET i == WordEnd(ln, cur) IN Edit(ln, i, SubSeq(ln, cur + 1, i))

\* insert, with show_tail.
insert(b) ==
    Edit(SubSeq(ln, 1, cur) \o <<b>> \o From(ln, cur), cur + 1,
         <<b>> \o From(ln, cur) \o Back(Len(ln) - cur))

backspace_slip ==
    IF cur = 0 THEN Same
    ELSE LET l == RemoveAt(ln, cur)
         IN  Edit(l, cur - 1, <<BS>> \o From(l, cur - 1) \o <<" ", BS>> \o Back(Len(l) - cur))

backspace ==
    IF cur = 0 THEN Same
    ELSE LET l == RemoveAt(ln, cur)
         IN  Edit(l, cur - 1, <<BS>> \o From(l, cur - 1) \o <<" ", BS>> \o Back(Len(l) - (cur - 1)))

forward_delete ==
    IF cur >= Len(ln) THEN Same
    ELSE LET l == RemoveAt(ln, cur + 1)
         IN  Edit(l, cur, From(l, cur) \o <<" ", BS>> \o Back(Len(l) - cur))

kill_to_end ==
    LET drop == Len(ln) - cur
    IN  Edit(SubSeq(ln, 1, cur), cur, [i \in 1 .. drop |-> " "] \o Back(drop))

kill_to_start ==
    IF cur = 0 THEN Same
    ELSE LET l == From(ln, cur) IN Edit(l, 0, l \o erase_n(Len(ln)) \o l \o Back(Len(l)))

kill_word ==
    IF cur = 0 THEN Same
    ELSE LET i == WordStart(ln, cur)
             l == SubSeq(ln, 1, i) \o From(ln, cur)
         IN  Edit(l, i, From(ln, cur) \o erase_n(Len(ln)) \o l \o Back(Len(l) - i))

transpose ==
    IF cur < 2 THEN Same
    ELSE Edit([ln EXCEPT ![cur - 1] = ln[cur], ![cur] = ln[cur - 1]], cur,
              <<BS, BS, ln[cur], ln[cur - 1]>>)

\* paint_replace: an entry of the history takes the line's place.
paint_replace(src) == Edit(src, Len(src), From(ln, cur) \o erase_n(Len(ln)) \o src)

----------------------------------------------------------------------------
\* The history: a ring of HIST_CAP lines from start on.
Newest(h, age) == h.lines[(h.start + h.count - 1 - age) % HIST_CAP]
get_at(h, idx) == h.lines[(h.start + idx) % HIST_CAP]

trim_bytes(s) ==
    LET black == {i \in DOMAIN s : s[i] # " "}
    IN  IF black = {} THEN <<>> ELSE SubSeq(s, LeastIn(black), LargestIn(black))

push_slip(h, s) ==
    LET t == trim_bytes(s)
        g == [h EXCEPT !.view = NoAge]
    IN  IF t = <<>> \/ (h.count > 0 /\ Newest(h, 0) = t) THEN g
        ELSE IF h.count < HIST_CAP
             THEN [g EXCEPT !.lines[(h.start + h.count) % HIST_CAP] = t, !.count = @ + 1]
             ELSE [g EXCEPT !.lines[h.start] = t]

\* push: an empty line and a repetition of the newest are not kept; a full ring loses
\* its oldest.
push(h, s) ==
    LET t == trim_bytes(s)
        g == [h EXCEPT !.view = NoAge]
    IN  IF t = <<>> \/ (h.count > 0 /\ Newest(h, 0) = t) THEN g
        ELSE IF h.count < HIST_CAP
             THEN [g EXCEPT !.lines[(h.start + h.count) % HIST_CAP] = t, !.count = @ + 1]
             ELSE [g EXCEPT !.lines[h.start] = t, !.start = (@ + 1) % HIST_CAP]

clear(h) == [h EXCEPT !.count = 0, !.start = 0, !.view = NoAge, !.draft = <<>>]

\* find_match: the newest entry at or before `from` that holds the query.
find_match(q, from) ==
    LET found == {i \in 0 .. from : i < hist.count
                     /\ \E k \in 0 .. LINE_CAP : k + Len(q) <= Len(get_at(hist, i))
                            /\ SubSeq(get_at(hist, i), k + 1, k + Len(q)) = q}
    IN  IF q = <<>> \/ found = {} THEN NoAge ELSE LargestIn(found)

----------------------------------------------------------------------------
\* What every byte does with an edit; a row that no longer shows the line is not
\* followed until it is written anew.
Show(e) ==
    /\ ln' = e.ln /\ cur' = e.cur
    /\ term' = IF garbled THEN term ELSE Emit(term, e.out)
    /\ UNCHANGED garbled

\* redraw: the screen is cleared, the prompt and the line are written.
redraw(l, c) ==
    /\ ln' = l /\ cur' = c /\ garbled' = FALSE
    /\ term' = Emit(FreshRow, l \o Back(Len(l) - c))

\* The line has ended and read_line is called again, behind a new prompt.
NextLine == ln' = <<>> /\ cur' = 0 /\ term' = FreshRow /\ garbled' = FALSE

Plain == kseq = <<>> /\ ~search.on
Forget(h) == [h EXCEPT !.view = NoAge]

\* The keys that only fancy lines have, and leave the history alone.
FancyKey ==
    /\ Plain /\ fancy
    /\ \/ \E e \in {go_home, go_to_end, kill_to_end, kill_to_start, kill_word, transpose} : Show(e)
       \/ ln # <<>> /\ Show(forward_delete)
       \/ redraw(ln, cur)
       \/ \E clip \in Clips :
             LET k == LeastIn({Len(clip), LINE_CAP - Len(ln)})
             IN  /\ k > 0
                 /\ redraw(SubSeq(ln, 1, cur) \o SubSeq(clip, 1, k) \o From(ln, cur), cur + k)
    /\ UNCHANGED <<kseq, search, hist, fancy, pushed>>

Type(b) ==
    /\ Plain /\ Len(ln) < LINE_CAP
    /\ Show(insert(b)) /\ hist' = Forget(hist)
    /\ UNCHANGED <<kseq, search, fancy, pushed>>

Backspace ==
    /\ Plain
    /\ Show(backspace) /\ hist' = Forget(hist)
    /\ UNCHANGED <<kseq, search, fancy, pushed>>

\* Enter, and what the shell makes of the line before it reads the next: a command may
\* clear the history (`history -c`) or ask for lines (`write`), which a line may end.
Enter(cleared, writes) ==
    /\ Plain
    /\ LET t == trim_bytes(ln)
           h == IF fancy THEN push(hist, ln) ELSE hist
           p == IF ~fancy \/ t = <<>> \/ (pushed # <<>> /\ Last(pushed) = t) THEN pushed
                ELSE IF Len(pushed) < HIST_CAP THEN Append(pushed, t) ELSE Append(Tail(pushed), t)
           runs == fancy /\ t # <<>>
       IN  /\ cleared => runs
           /\ (fancy /\ writes) => runs
           /\ hist' = IF cleared THEN clear(h) ELSE h
           /\ pushed' = IF cleared THEN <<>> ELSE p
    /\ fancy' = ~writes
    /\ NextLine
    /\ UNCHANGED <<kseq, search>>

\* Ctrl+C: a fancy line is given up, and the place in the history kept; another is wiped.
CtrlCKey ==
    /\ Plain
    /\ \/ fancy /\ NextLine /\ UNCHANGED hist
       \/ ~fancy /\ Show(Edit(<<>>, 0, From(ln, cur) \o erase_n(Len(ln)))) /\ hist' = Forget(hist)
    /\ UNCHANGED <<kseq, search, fancy, pushed>>

\* The end of the input, or Ctrl+D on an empty line: the shell exits, and another starts.
Eof ==
    /\ ~search.on
    /\ NextLine
    /\ kseq' = <<>> /\ search' = search /\ fancy' = TRUE /\ pushed' = <<>>
    /\ hist' = [lines |-> [i \in 0 .. HIST_CAP - 1 |-> <<>>], start |-> 0, count |-> 0,
                view |-> NoAge, draft |-> <<>>]

----------------------------------------------------------------------------
\* complete.rs.  collect_dir and already: the names a token may grow to, in the order
\* they are looked up.
AddCand(acc, tok, name) ==
    IF Len(acc) < MAX_CAND /\ IsPrefix(tok, name) /\ \A i \in DOMAIN acc : acc[i] # name
    THEN Append(acc, name) ELSE acc
collect(tok, first) ==
    LET names == IF first THEN Builtins \o Bin \o Files ELSE Files \o Bin
        found[i \in 0 .. Len(names)] == IF i = 0 THEN <<>> ELSE AddCand(found[i - 1], tok, names[i])
    IN  found[Len(names)]

common_prefix_len(cands) ==
    LargestIn({k \in 0 .. Len(cands[1]) : \A i \in DOMAIN cands :
                  IsPrefix(SubSeq(cands[1], 1, k), cands[i])})

\* replace_token: the line and what is written of the name; a name that does not fit
\* changes nothing.
replace_token(l, at, name) ==
    IF at + Len(name) > LINE_CAP \/ Len(name) < Len(l) - at THEN [ln |-> l, out |-> <<>>]
    ELSE [ln |-> SubSeq(l, 1, at) \o name, out |-> From(name, Len(l) - at)]

\* Tab: the last token of the line grows, wherever the cursor is, and the cursor's place
\* becomes the line's end; several candidates are listed and the line is written anew.
Tab ==
    /\ Plain /\ fancy
    /\ LET at == LargestIn({k \in 0 .. Len(ln) : k = 0 \/ ln[k] = " "})
           tok == From(ln, at)
           cands == IF tok = <<>> THEN <<>> ELSE collect(tok, at = 0)
           same == [ln |-> ln, out |-> <<>>]
           lcp == common_prefix_len(cands)
           r == CASE Len(cands) = 0 -> same
                  [] Len(cands) = 1 -> replace_token(ln, at, cands[1])
                  [] OTHER -> IF lcp > Len(tok) THEN replace_token(ln, at, SubSeq(cands[1], 1, lcp))
                              ELSE same
       IN  IF Len(cands) > 1 THEN redraw(r.ln, Len(r.ln))
           ELSE /\ ln' = r.ln /\ cur' = Len(r.ln)
                /\ garbled' = (garbled \/ cur < Len(ln))
                /\ term' = IF garbled' THEN FreshRow ELSE Emit(term, r.out)
    /\ hist' = Forget(hist)
    /\ UNCHANGED <<kseq, search, fancy, pushed>>

----------------------------------------------------------------------------
Escape == Plain /\ kseq' = <<"ESC">> /\ UNCHANGED <<ln, cur, search, hist, fancy, term, garbled, pushed>>

\* The byte behind an escape: "[" opens a sequence; Alt+B and Alt+F move by words.
EscByte ==
    /\ kseq = <<"ESC">>
    /\ \/ kseq' = <<"ESC", "[">> /\ Show(Same)
       \/ \E e \in (IF fancy THEN {word_left, word_right} ELSE {}) \cup {Same} : kseq' = <<>> /\ Show(e)
    /\ UNCHANGED <<search, hist, fancy, pushed>>

InCsi == Len(kseq) >= 2

CsiParam(b) ==
    /\ InCsi
    /\ kseq' = IF Len(kseq) < 2 + CSI_CAP THEN Append(kseq, b) ELSE <<>>
    /\ UNCHANGED <<ln, cur, search, hist, fancy, term, garbled, pushed>>

\* The final byte of a sequence.  The arms of the cursor keys come before the one that
\* looks at the parameters, so Ctrl+Left and Ctrl+Right move by one place.
CsiMove ==
    /\ InCsi /\ kseq' = <<>>
    /\ \E e \in (IF ~fancy THEN {Same}
                 ELSE {move_left, move_right, go_home, go_to_end, Same}
                      \cup (IF kseq = <<"ESC", "[", "3">> THEN {forward_delete} ELSE {})) : Show(e)
    /\ UNCHANGED <<search, hist, fancy, pushed>>

hist_up ==
    /\ InCsi /\ fancy /\ kseq' = <<>>
    /\ LET age == hist.view + 1
       IN  IF age >= hist.count THEN Show(Same) /\ UNCHANGED hist
           ELSE /\ Show(paint_replace(Newest(hist, age)))
                /\ hist' = [hist EXCEPT !.view = age, !.draft = IF age = 0 THEN ln ELSE @]
    /\ UNCHANGED <<search, fancy, pushed>>

hist_down ==
    /\ InCsi /\ fancy /\ kseq' = <<>>
    /\ IF hist.view = NoAge THEN Show(Same) /\ UNCHANGED hist
       ELSE /\ Show(paint_replace(IF hist.view = 0 THEN hist.draft ELSE Newest(hist, hist.view - 1)))
            /\ hist' = [hist EXCEPT !.view = @ - 1]
    /\ UNCHANGED <<search, fancy, pushed>>

----------------------------------------------------------------------------
\* reverse_search: its own loop of reads, which leaves the line alone until Enter.
SearchStart ==
    /\ Plain /\ fancy
    /\ search' = [NoSearch EXCEPT !.on = TRUE]
    /\ UNCHANGED <<ln, cur, kseq, hist, fancy, term, garbled, pushed>>

SearchType(b) ==
    /\ search.on /\ Len(search.query) < QUERY_CAP
    /\ LET q == Append(search.query, b)
       IN  search' = [search EXCEPT !.query = q, !.idx = find_match(q, hist.count - 1)]
    /\ UNCHANGED <<ln, cur, kseq, hist, fancy, term, garbled, pushed>>

SearchBack ==
    /\ search.on /\ search.query # <<>>
    /\ LET q == Front(search.query)
       IN  search' = [search EXCEPT !.query = q, !.idx = find_match(q, hist.count - 1)]
    /\ UNCHANGED <<ln, cur, kseq, hist, fancy, term, garbled, pushed>>

SearchAgain ==
    /\ search.on /\ search.idx > 0
    /\ search' = [search EXCEPT !.idx = find_match(search.query, search.idx - 1)]
    /\ UNCHANGED <<ln, cur, kseq, hist, fancy, term, garbled, pushed>>

\* Escape and Ctrl+C leave the line as it was, Enter takes the match; the end of the
\* input leaves the search's own prompt on the row.
SearchEnd ==
    /\ search.on /\ search' = NoSearch
    /\ \/ redraw(ln, Len(ln))
       \/ search.idx # NoAge /\ LET l == get_at(hist, search.idx) IN redraw(l, Len(l))
       \/ search.idx = NoAge /\ redraw(ln, cur)
       \/ garbled' = TRUE /\ term' = FreshRow /\ UNCHANGED <<ln, cur>>
    /\ UNCHANGED <<kseq, hist, fancy, pushed>>

LineInit ==
    /\ ln = <<>> /\ cur = 0 /\ kseq = <<>> /\ search = NoSearch
    /\ hist = [lines |-> [i \in 0 .. HIST_CAP - 1 |-> <<>>], start |-> 0, count |-> 0,
               view |-> NoAge, draft |-> <<>>]
    /\ fancy = TRUE /\ term = FreshRow /\ garbled = FALSE /\ pushed = <<>>

LineNext ==
    \/ \E b \in Chars : Type(b) \/ SearchType(b)
    \/ \E b \in Params : CsiParam(b)
    \/ \E cleared, writes \in BOOLEAN : Enter(cleared, writes)
    \/ FancyKey \/ Backspace \/ CtrlCKey \/ Eof \/ Tab
    \/ Escape \/ EscByte \/ CsiMove \/ hist_up \/ hist_down
    \/ SearchStart \/ SearchBack \/ SearchAgain \/ SearchEnd

LineSpec == LineInit /\ [][LineNext]_lineVars

----------------------------------------------------------------------------
\* The row shows the line, blanks behind it, and the terminal's cursor stands at the
\* editor's, after any keys: insertions and deletions in the middle, words killed,
\* history, completion and a search included.  Only a Tab away from the line's end, or
\* an input that ends in a search, breaks this until the row is written anew.
ScreenShows ==
    ~garbled /\ ~search.on =>
        /\ term.col = cur
        /\ term.cells = [i \in 0 .. LINE_CAP |-> IF i < Len(ln) THEN ln[i + 1] ELSE " "]

\* The ring holds the lines entered, oldest first, at most HIST_CAP of them, and neither
\* the place the arrow keys reached nor a search's match lies outside it.
HistoryKept ==
    /\ hist.count = Len(pushed)
    /\ \A i \in 1 .. Len(pushed) : get_at(hist, i - 1) = pushed[i]
    /\ hist.view < hist.count /\ search.idx < hist.count
=============================================================================
