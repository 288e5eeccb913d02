---------------------------- MODULE TermScreen ----------------------------
(***************************************************************************)
(* The screen of term (tools/gui/term.c): two grids of cells, the margins, *)
(* the cursor, and the lines that left the top of the first grid.  A step  *)
(* is one character or one escape sequence.  Colours and the parts of a    *)
(* character in UTF-8 are left out.                                        *)
(*                                                                         *)
(* The cells of the first grid hold different numbers to begin with, so    *)
(* that every cell can be told from the others; a printed character is     *)
(* Ink, an erased one 0.  Margins may be any numbers, and ESC M and ESC D  *)
(* move the cursor out of the grid.  What happens when cells outside of    *)
(* the grid are touched C does not say: the screen goes no further then.   *)
(***************************************************************************)
EXTENDS Integers, Sequences

CONSTANTS
    Cols, Rows,
    Scrollback,   \* lines that are kept
    Counts,       \* parameters of sequences
    Tab,          \* distance of tab stops
    MaxOps        \* bound: steps

VARIABLES
    grids,        \* [primary, alt]: rows 0 .. Rows - 1 of cells
    alt,          \* alt_screen
    cx, cy, saved,
    top, bot,     \* scroll_top, scroll_bot
    history, view,    \* scroll, view_offset
    ops,          \* bound: how many steps there were
    kept, lossless,   \* ghosts: the primary grid when alt was set; only whole screens were scrolled
    stray, wild       \* ghosts: the cursor has left the grid; cells outside of it were touched
screenVars == <<grids, alt, cx, cy, saved, top, bot, history, view, ops, kept, lossless, stray, wild>>

Ink == -1
Blank == [c \in 0 .. Cols - 1 |-> 0]
Empty == [r \in 0 .. Rows - 1 |-> Blank]
Numbered == [r \in 0 .. Rows - 1 |-> [c \in 0 .. Cols - 1 |-> r * Cols + c + 1]]
Grid == IF alt THEN grids.alt ELSE grids.primary
With(g) == IF alt THEN [grids EXCEPT !.alt = g] ELSE [grids EXCEPT !.primary = g]

Rows0 == 0 .. Rows - 1
Lines == [0 .. Cols - 1 -> -1 .. Rows * Cols]
TypeOK ==
    /\ grids \in [primary : [Rows0 -> Lines], alt : [Rows0 -> Lines]] /\ alt \in BOOLEAN
    /\ cx \in 0 .. Cols /\ cy \in Int /\ saved \in (0 .. Cols) \X Int
    /\ top \in Nat /\ bot \in Rows0 /\ Len(history) <= Scrollback /\ view \in Nat
    /\ ops \in 0 .. MaxOps /\ kept \in [Rows0 -> Lines] /\ {lossless, stray, wild} \subseteq BOOLEAN

Init ==
    /\ grids = [primary |-> Numbered, alt |-> Empty] /\ alt = FALSE /\ cx = 0 /\ cy = 0 /\ saved = <<0, 0>>
    /\ top = 0 /\ bot = Rows - 1 /\ history = <<>> /\ view = 0 /\ ops = 0 /\ kept = Numbered /\ lossless = TRUE
    /\ stray = FALSE /\ wild = FALSE

Least(a, b) == IF a < b THEN a ELSE b
Most(a, b) == IF a > b THEN a ELSE b
Clamp(v, hi) == Most(0, Least(v, hi))
Turn == ~ wild /\ ops < MaxOps /\ ops' = ops + 1
Step == Turn /\ UNCHANGED <<stray, wild>>
\* The cursor leaves the grid when b.
StepLeaving(b) == Turn /\ stray' = (stray \/ b) /\ UNCHANGED wild
\* Cells that are none of the grid are touched.
Outside ==
    /\ Turn /\ wild' = TRUE
    /\ UNCHANGED <<grids, alt, cx, cy, saved, top, bot, history, view, kept, lossless, stray>>

(***************************************************************************)
(* Scrolling                                                               *)
(***************************************************************************)
\* Mutant: the rows move one too far.
UpTooFar(g, a, b, n) == [r \in Rows0 |-> IF r \in a .. b THEN IF r + n < b THEN g[r + n] ELSE Blank ELSE g[r]]
\* Rows a .. b moved up by n, blank rows after them; and down.
Up(g, a, b, n) == [r \in Rows0 |-> IF r \in a .. b THEN IF r + n <= b THEN g[r + n] ELSE Blank ELSE g[r]]
Down(g, a, b, n) == [r \in Rows0 |-> IF r \in a .. b THEN IF r - n >= a THEN g[r - n] ELSE Blank ELSE g[r]]
Newest(h) == SubSeq(h, Most(1, Len(h) - Scrollback + 1), Len(h))
\* push_scrollback_row: rows that leave the top of a whole screen, not of the alternate one.
Pushed(a, b, n) ==
    IF a = 0 /\ b = Rows - 1 /\ ~alt THEN Newest(history \o [i \in 1 .. Least(n, Rows) |-> Grid[i - 1]]) ELSE history
ScrollUp(a, b, n) ==
    /\ grids' = With(Up(Grid, a, b, n)) /\ history' = Pushed(a, b, n)
    /\ view' = (IF a = 0 /\ b = Rows - 1 THEN 0 ELSE view) /\ lossless' = (lossless /\ a = 0 /\ b = Rows - 1)
ScrollDown(a, b, n) == grids' = With(Down(Grid, a, b, n)) /\ lossless' = FALSE /\ UNCHANGED <<history, view>>
Still == UNCHANGED <<grids, history, view, lossless>>
Marks == UNCHANGED <<alt, saved, top, bot, kept>>

(***************************************************************************)
(* Characters                                                              *)
(***************************************************************************)
\* The row after this one; below the last one of the margins they scroll.
LineFeed ==
    IF cy + 1 > bot THEN cy' = bot /\ ScrollUp(top, bot, 1) ELSE cy' = cy + 1 /\ Still
NewLine == Step /\ LineFeed /\ UNCHANGED cx /\ Marks
\* A character behind the last column goes to the next row first.
PutGlyph ==
    LET wrap == cx >= Cols
        scroll == wrap /\ cy + 1 > bot
        row == IF ~wrap THEN cy ELSE IF scroll THEN bot ELSE cy + 1
        col == IF wrap THEN 0 ELSE cx
        g == IF scroll THEN Up(Grid, top, bot, 1) ELSE Grid
    IN  IF row \notin Rows0 THEN Outside
        ELSE /\ Step /\ Marks /\ lossless' = FALSE
             /\ grids' = With([g EXCEPT ![row][col] = Ink]) /\ cy' = row /\ cx' = col + 1
             /\ history' = (IF scroll THEN Pushed(top, bot, 1) ELSE history)
             /\ view' = (IF scroll /\ top = 0 /\ bot = Rows - 1 THEN 0 ELSE view)
\* CR, BS and HT
Control(c) ==
    /\ Step /\ cx' = c /\ UNCHANGED cy /\ Still /\ Marks
    /\ c \in {0, Most(cx - 1, 0), Least((cx \div Tab + 1) * Tab, Cols - 1)}

(***************************************************************************)
(* Escape sequences                                                        *)
(***************************************************************************)
\* ESC M, ESC D and ESC E, from any row
ReverseIndex ==
    /\ StepLeaving(cy = 0 /\ top # 0) /\ Marks /\ UNCHANGED cx
    /\ IF cy = top THEN ScrollDown(top, bot, 1) /\ UNCHANGED cy ELSE cy' = cy - 1 /\ Still
Index ==
    /\ StepLeaving(cy = Rows - 1 /\ bot # Rows - 1) /\ Marks /\ UNCHANGED cx
    /\ IF cy = bot THEN ScrollUp(top, bot, 1) /\ UNCHANGED cy ELSE cy' = cy + 1 /\ Still
NextLine == Step /\ Marks /\ cx' = 0 /\ LineFeed
Save == Step /\ saved' = <<cx, cy>> /\ UNCHANGED <<cx, cy, alt, top, bot, kept>> /\ Still
Restore == Step /\ cx' = Clamp(saved[1], Cols - 1) /\ cy' = Clamp(saved[2], Rows - 1) /\ Marks /\ Still
\* ESC c clears the grid that is shown; margins and the other grid stay.
Reset ==
    /\ Step /\ cx' = 0 /\ cy' = 0 /\ grids' = With(Empty) /\ lossless' = FALSE
    /\ UNCHANGED <<history, view>> /\ Marks

\* CUU and CUD stop at the margins, wherever they began; the others at the edges.
CursorUp(n) == StepLeaving(top >= Rows) /\ cy' = Most(cy - n, top) /\ UNCHANGED cx /\ Marks /\ Still
Cursor(n, m) ==
    /\ Step /\ Marks /\ Still
    /\ \/ cy' = Least(cy + n, bot) /\ UNCHANGED cx
       \/ cx' = Least(cx + n, Cols - 1) /\ UNCHANGED cy
       \/ cx' = Most(cx - n, 0) /\ UNCHANGED cy
       \/ cx' = 0 /\ cy' \in {Clamp(cy + n, Rows - 1), Clamp(cy - n, Rows - 1)}
       \/ cy' = Clamp(cy, Rows - 1) /\ cx' = Clamp(m - 1, Cols - 1)
       \/ cy' = Clamp(n - 1, Rows - 1) /\ cx' \in {Clamp(m - 1, Cols - 1), Least(cx, Cols - 1)}

\* ED and EL: to the end, to the beginning, all; ED 3 forgets the history.
Wiped(S) == With([r \in Rows0 |-> [c \in 0 .. Cols - 1 |-> IF <<r, c>> \in S THEN 0 ELSE Grid[r][c]]])
Cells == Rows0 \X (0 .. Cols - 1)
Before(p) == p[1] < cy \/ (p[1] = cy /\ p[2] <= cx)
Behind(p) == p[1] > cy \/ (p[1] = cy /\ p[2] >= cx)
Reaches(mode, line) ==
    cy \in Rows0 \/ IF mode = 0 THEN cx = Cols /\ (line \/ cy >= -1) ELSE mode # 1 /\ ~ line
Erase(mode, line) ==
    LET all == IF line THEN {p \in Cells : p[1] = cy} ELSE Cells IN
    IF ~ Reaches(mode, line) THEN Outside ELSE
    /\ Step /\ Marks /\ UNCHANGED <<cx, cy>> /\ lossless' = FALSE
    /\ grids' = Wiped(IF mode = 0 THEN {p \in all : Behind(p)} ELSE IF mode = 1 THEN {p \in all : Before(p)} ELSE all)
    /\ history' = (IF mode = 3 /\ ~line THEN <<>> ELSE history) /\ view' = (IF mode = 3 /\ ~line THEN 0 ELSE view)

\* IL and DL between the margins, SU and SD
Inside == cy \in top .. bot
InsertLines(n) == Step /\ Inside /\ ScrollDown(cy, bot, n) /\ UNCHANGED <<cx, cy>> /\ Marks
DeleteLines(n) == Step /\ Inside /\ ScrollUp(cy, bot, n) /\ UNCHANGED <<cx, cy>> /\ Marks
ScrollBy(n, up) == Step /\ (IF up THEN ScrollUp(top, bot, n) ELSE ScrollDown(top, bot, n)) /\ UNCHANGED <<cx, cy>> /\ Marks

\* ICH and DCH move the cells behind the cursor, at most as many as there are.
Shifted(n, insert) ==
    LET k == Least(n, Cols - cx) IN
    [Grid EXCEPT ![cy] = [c \in 0 .. Cols - 1 |->
        IF c < cx THEN @[c]
        ELSE IF insert THEN IF c < cx + k THEN 0 ELSE @[c - k]
        ELSE IF c + k < Cols THEN @[c + k] ELSE 0]]
ShiftCells(n, insert) ==
    IF cy \notin Rows0 /\ cx < Cols THEN Outside ELSE
    /\ Step /\ grids' = With(Shifted(n, insert)) /\ lossless' = FALSE
    /\ UNCHANGED <<cx, cy, history, view>> /\ Marks

\* DECSTBM, and without parameters the whole screen: only the lower margin is bounded.
Margins(a, b) ==
    /\ Step /\ top' = a /\ bot' = Least(b, Rows - 1) /\ cx' = 0 /\ cy' = 0
    /\ UNCHANGED <<alt, saved, kept>> /\ Still

\* Mutant: there is one grid.
SwitchShared(on) ==
    /\ Step /\ on # alt /\ alt' = on /\ lossless' = FALSE
    /\ IF on THEN grids' = [primary |-> Empty, alt |-> Empty] /\ cx' = 0 /\ cy' = 0 /\ kept' = grids.primary
       ELSE UNCHANGED <<grids, cx, cy, kept>>
    /\ UNCHANGED <<saved, top, bot, history, view>>
\* switch_alt: the alternate grid begins empty, with the cursor at home; back, the cursor stays.
Switch(on) ==
    /\ Step /\ on # alt /\ alt' = on /\ lossless' = FALSE
    /\ IF on THEN grids' = [grids EXCEPT !.alt = Empty] /\ cx' = 0 /\ cy' = 0 /\ kept' = grids.primary
       ELSE UNCHANGED <<grids, cx, cy, kept>>
    /\ UNCHANGED <<saved, top, bot, history, view>>

(***************************************************************************)
(* What is seen                                                            *)
(***************************************************************************)
\* Shift with a page key moves through the history; any output goes back to the end.
View(up) ==
    /\ Step /\ view' = (IF up THEN Least(view + Rows \div 2, Len(history)) ELSE Most(view - Rows \div 2, 0))
    /\ UNCHANGED <<grids, history, lossless, cx, cy>> /\ Marks
Output == view > 0 /\ Step /\ view' = 0 /\ UNCHANGED <<grids, history, lossless, cx, cy>> /\ Marks
\* row_for_screen_line: the newest lines of the history, then the grid
Seen(line) ==
    IF line < view THEN <<"history", Len(history) - view + line + 1>> ELSE <<"grid", line - view>>

Next ==
    \/ NewLine \/ PutGlyph \/ (\E c \in 0 .. Cols : Control(c)) \/ ReverseIndex \/ Index \/ NextLine
    \/ Save \/ Restore \/ Reset \/ Output
    \/ \E n \in Counts : InsertLines(n) \/ DeleteLines(n) \/ CursorUp(n) \/ (\E m \in Counts : Cursor(n, m))
    \/ \E b \in BOOLEAN : Switch(b) \/ View(b) \/ \E n \in Counts : ScrollBy(n, b) \/ ShiftCells(n, b)
    \/ \E mode \in {0, 1, 2, 3}, line \in BOOLEAN : Erase(mode, line)
    \/ \E a, b \in 0 .. Rows : Margins(a, b)
Spec == Init /\ [][Next]_screenVars

(***************************************************************************)
(* Properties                                                              *)
(***************************************************************************)
\* The cursor leaves the grid only by ESC M on the first row with the margins below it, by
\* ESC D on the last row with the margins above it, and by CUU when the margins are below the
\* screen; until then no cell outside of the grid is touched, whatever the margins, and it is
\* never further to the right than one column behind the grid (term.c:239).
CursorInGrid == cx \in 0 .. Cols /\ (stray \/ (cy \in Rows0 /\ ~ wild))

\* The lines of the history and then those of the first grid, and their cells
Line(i) == IF i <= Len(history) THEN history[i] ELSE grids.primary[i - Len(history) - 1]
Places == (1 .. Len(history) + Rows) \X (0 .. Cols - 1)
Cell(p) == Line(p[1])[p[2]]
Earlier(p, q) == p[1] < q[1] \/ (p[1] = q[1] /\ p[2] < q[2])

\* Cells are moved, never copied: those of the history and of the first grid are in the
\* order in which they were written (term.c:203).
CellsInOrder == ~ wild => \A p, q \in Places : Earlier(p, q) /\ Cell(p) > 0 /\ Cell(q) > 0 => Cell(p) < Cell(q)

\* While only whole screens are scrolled, a line is gone only when Scrollback newer ones
\* have left the screen (term.c:190).
HistoryComplete ==
    lossless /\ ~ wild /\ Len(history) < Scrollback => \A n \in 1 .. Rows * Cols : \E p \in Places : Cell(p) = n

\* What was on the screen before an application took the other one is there when it goes
\* back (term.c:335).
PrimaryKept == alt /\ ~ wild => grids.primary = kept

\* Every line that is seen is a line of the history or of the grid (term.c:865).
ViewInside ==
    \A line \in Rows0 : LET s == Seen(line) IN IF s[1] = "history" THEN s[2] \in 1 .. Len(history) ELSE s[2] \in Rows0
=============================================================================
