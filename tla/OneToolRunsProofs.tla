-------------------------- MODULE OneToolRunsProofs -------------------------
(*****************************************************************************)
(* RunsSafe, ResultsRight and TypeOK, for inputs of any number and size:     *)
(* grids and histories, keys, downloads and rules, threads with their TLS    *)
(* sessions, and DHCP servers; with OneToolProofs for the desktop and the    *)
(* linker.  What a part's properties need beyond themselves:                 *)
(*   - screen: as long as the cursor has not strayed it is in the grid, the  *)
(*     lower margin is always, the view is in the history, and the first     *)
(*     grid is kept aside unchanged while the other one is shown;            *)
(*   - its lines: of any two written cells of history and grid the earlier   *)
(*     one is in place before the later one (InOrder), and all are there     *)
(*     while no line was lost (Complete);                                    *)
(*   - terminal session: what was taken and what waits are, one after the    *)
(*     other, keys in the order they were typed, and at each step of the     *)
(*     window it is known whether the shell lives;                           *)
(*   - download: which descriptors may be open at each of its steps, and     *)
(*     that nothing is asked for while robots.txt is still to be read; what  *)
(*     was written and what is still to come are, one after the other, the   *)
(*     body or a beginning of it, in the framing of the answer (BodyInv),    *)
(*     but for what came with the head, which a length doubles (Second);     *)
(*   - robots.txt: what the rules come to after k lines is told by the lines *)
(*     alone;                                                                *)
(*   - TLS sessions: the references are counted over slots and connections;  *)
(*     a closed connection holds none, a shaken one holds one; a slot was    *)
(*     used when its host was, and who has none was used before all that     *)
(*     have one (LatestInv);                                                 *)
(*   - DHCP: past the acknowledgement the lease is one that was granted, and *)
(*     the settings made so far are taken from it.                           *)
(*****************************************************************************)
EXTENDS OneToolProofs

-----------------------------------------------------------------------------
(* The screen of term *)

IsSequence(h) == h \in Seq({h[i] : i \in 1 .. Len(h)}) /\ Len(h) \in Nat
CursorInv ==
    /\ TS!CursorInGrid /\ cy \in Int /\ saved \in (0 .. Cols) \X Int
    /\ top \in Nat /\ bot \in TS!Rows0 /\ stray \in BOOLEAN /\ wild \in BOOLEAN
HistoryInv == IsSequence(history) /\ view \in 0 .. Len(history)
GridInv ==
    /\ grids = [primary |-> grids.primary, alt |-> grids.alt] /\ alt \in BOOLEAN
    /\ alt => grids.primary = kept
ScreenInv == CursorInv /\ HistoryInv /\ GridInv

\* A step draws on the grid that is shown.
LEMMA GridFollows ==
    ASSUME GridInv, NEW g, grids' = TS!With(g) \/ grids' = grids, UNCHANGED <<alt, kept>>
    PROVE GridInv'
<1>1. CASE grids' = grids
  BY <1>1 DEF GridInv
<1>2. CASE grids' = TS!With(g) /\ alt
  <2>1. grids' = [primary |-> grids.primary, alt |-> g]
    BY <1>2 DEF GridInv, TS!With
  <2> QED BY <1>2, <2>1 DEF GridInv
<1>3. CASE grids' = TS!With(g) /\ ~ alt
  <2>1. grids' = [primary |-> g, alt |-> grids.alt]
    BY <1>3 DEF GridInv, TS!With
  <2> QED BY <1>3, <2>1 DEF GridInv
<1> QED BY <1>1, <1>2, <1>3

LEMMA NewestIsSequence ==
    ASSUME HistoryInv, NEW n \in Nat
    PROVE IsSequence(TS!Newest(history \o [i \in 1 .. TS!Least(n, Rows) |-> TS!Grid[i - 1]]))
<1> DEFINE k == TS!Least(n, Rows)
           pushed == [i \in 1 .. k |-> TS!Grid[i - 1]]
           Lines == {history[i] : i \in 1 .. Len(history)} \cup {pushed[i] : i \in 1 .. k}
           h == history \o pushed
           m == TS!Most(1, Len(h) - Scrollback + 1)
           r == SubSeq(h, m, Len(h))
<1>1. k \in Nat
  BY ScreenAssumption DEF TS!Least
<1>2. history \in Seq(Lines) /\ pushed \in Seq(Lines)
  <2>1. history \in Seq({history[i] : i \in 1 .. Len(history)})
    BY DEF HistoryInv, IsSequence
  <2>2. history \in Seq(Lines)
    BY <2>1
  <2> HIDE DEF k
  <2>3. \A i \in 1 .. k : pushed[i] \in Lines
    OBVIOUS
  <2> HIDE DEF Lines
  <2>4. pushed \in Seq(Lines)
    BY <1>1, <2>3
  <2> QED BY <2>2, <2>4
<1> HIDE DEF k, pushed, Lines
<1>3. h \in Seq(Lines) /\ Len(h) \in Nat
  BY <1>2, ConcatProperties
<1> HIDE DEF h
<1>4. m \in Nat /\ 1 <= m
  BY <1>3, ScreenAssumption DEF TS!Most
<1> HIDE DEF m
<1>5. \A i \in m .. Len(h) : h[i] \in Lines
  BY <1>3, <1>4
<1>6. r \in Seq(Lines)
  BY <1>3, <1>4, <1>5, SubSeqProperties
<1> HIDE DEF r
<1>7. Len(r) \in Nat /\ r \in Seq({r[i] : i \in 1 .. Len(r)})
  BY <1>6
<1> QED BY <1>7 DEF IsSequence, TS!Newest, h, m, r, pushed, k

LEMMA PushedFollows ==
    ASSUME HistoryInv, NEW a, NEW b, NEW n \in Nat, history' = TS!Pushed(a, b, n),
           a = 0 /\ b = Rows - 1 => view' = 0, ~ (a = 0 /\ b = Rows - 1) => view' = view
    PROVE HistoryInv'
<1>1. CASE a = 0 /\ b = Rows - 1 /\ ~ alt
  <2>1. history' = TS!Newest(history \o [i \in 1 .. TS!Least(n, Rows) |-> TS!Grid[i - 1]]) /\ view' = 0
    BY <1>1 DEF TS!Pushed
  <2>2. IsSequence(history')
    BY <2>1, NewestIsSequence
  <2> QED BY <2>1, <2>2 DEF HistoryInv, IsSequence
<1>2. CASE ~ (a = 0 /\ b = Rows - 1 /\ ~ alt)
  <2>1. history' = history /\ view' \in {0, view}
    BY <1>2 DEF TS!Pushed
  <2> QED BY <2>1 DEF HistoryInv, IsSequence
<1> QED BY <1>1, <1>2

LEMMA ScrollFollows ==
    ASSUME HistoryInv, GridInv, NEW a, NEW b, NEW n \in Nat, UNCHANGED <<alt, kept>>,
           TS!ScrollUp(a, b, n) \/ TS!ScrollDown(a, b, n) \/ TS!Still
    PROVE HistoryInv' /\ GridInv'
<1>1. CASE TS!ScrollUp(a, b, n)
  <2>1. HistoryInv'
    BY <1>1, PushedFollows DEF TS!ScrollUp
  <2>2. grids' = TS!With(TS!Up(TS!Grid, a, b, n))
    BY <1>1 DEF TS!ScrollUp
  <2> QED BY <2>1, <2>2, GridFollows
<1>2. CASE TS!ScrollDown(a, b, n)
  <2>1. grids' = TS!With(TS!Down(TS!Grid, a, b, n)) /\ UNCHANGED <<history, view>>
    BY <1>2 DEF TS!ScrollDown
  <2> QED BY <2>1, GridFollows DEF HistoryInv, IsSequence
<1>3. CASE TS!Still
  BY <1>3 DEF TS!Still, HistoryInv, IsSequence, GridInv
<1> QED BY <1>1, <1>2, <1>3

\* Where a step may bring the cursor
Walks ==
    /\ cx' \in 0 .. Cols /\ cy' \in Int /\ stray' \in BOOLEAN /\ (stray' \/ cy' \in TS!Rows0)
    /\ wild' = wild /\ ~ wild

\* Steps that scroll at most, and move the cursor
LEMMA MoveFollows ==
    ASSUME ScreenInv, NEW a, NEW b, NEW n \in Nat, TS!Marks,
           TS!ScrollUp(a, b, n) \/ TS!ScrollDown(a, b, n) \/ TS!Still, Walks
    PROVE ScreenInv'
<1>1. HistoryInv' /\ GridInv'
  BY ScrollFollows DEF ScreenInv, TS!Marks
<1>2. CursorInv'
  BY DEF ScreenInv, CursorInv, TS!CursorInGrid, TS!Marks, TS!Rows0, Walks
<1> QED BY <1>1, <1>2 DEF ScreenInv

\* Steps after which nothing more is known
LEMMA OutsideFollows == ASSUME ScreenInv, TS!Outside, cy \notin TS!Rows0 \/ stray PROVE ScreenInv'
<1>1. stray
  BY DEF ScreenInv, CursorInv, TS!CursorInGrid
<1>2. CursorInv'
  BY <1>1 DEF ScreenInv, CursorInv, TS!CursorInGrid, TS!Outside, TS!Rows0
<1>3. HistoryInv' /\ GridInv'
  BY DEF ScreenInv, HistoryInv, IsSequence, GridInv, TS!Outside
<1> QED BY <1>2, <1>3 DEF ScreenInv

LEMMA ScreenInit == TS!Init => ScreenInv
<1> SUFFICES ASSUME TS!Init PROVE ScreenInv
  OBVIOUS
<1>1. CursorInv
  <2>1. cx = 0 /\ cy = 0 /\ saved = <<0, 0>> /\ top = 0 /\ bot = Rows - 1 /\ stray = FALSE /\ wild = FALSE
    BY DEF TS!Init
  <2>2. 0 \in 0 .. Cols /\ 0 \in TS!Rows0 /\ Rows - 1 \in TS!Rows0 /\ 0 \in Nat /\ 0 \in Int
    BY ScreenAssumption DEF TS!Rows0
  <2>3. <<0, 0>> \in (0 .. Cols) \X Int
    BY <2>2
  <2>4. stray \in BOOLEAN /\ wild \in BOOLEAN /\ ~ wild
    BY <2>1, Zenon
  <2> QED BY <2>1, <2>2, <2>3, <2>4, Zenon DEF CursorInv, TS!CursorInGrid
<1>2. HistoryInv
  BY DEF TS!Init, HistoryInv, IsSequence
<1>3. GridInv
  BY DEF TS!Init, GridInv
<1> QED BY <1>1, <1>2, <1>3 DEF ScreenInv

LEMMA ScreenNumbers ==
    ASSUME ScreenInv
    PROVE /\ Cols \in Nat /\ Cols >= 1 /\ Rows \in Nat /\ Rows >= 1
          /\ cx \in Nat /\ cx <= Cols /\ cy \in Int /\ (stray \/ (0 <= cy /\ cy <= Rows - 1)) /\ stray \in BOOLEAN
          /\ top \in Nat /\ bot \in Nat /\ bot <= Rows - 1
BY ScreenAssumption DEF ScreenInv, CursorInv, TS!CursorInGrid, TS!Rows0

\* Steps that leave the rows alone, or bring the cursor back to the grid
LEMMA WalksIn ==
    ASSUME ScreenInv, TS!Step, cx' \in 0 .. Cols, cy' = cy \/ cy' \in TS!Rows0
    PROVE Walks
<1>1. TS!Rows0 \subseteq Int
  BY DEF TS!Rows0
<1>2. cy \in Int /\ stray \in BOOLEAN /\ (stray \/ cy \in TS!Rows0)
  BY DEF ScreenInv, CursorInv, TS!CursorInGrid
<1>3. stray' = stray /\ wild' = wild /\ ~ wild
  BY DEF TS!Step, TS!Turn
<1> QED BY <1>1, <1>2, <1>3 DEF Walks

LEMMA ScreenStep == ASSUME ScreenInv, TS!Next PROVE ScreenInv'
<1>0. /\ Cols \in Nat /\ Cols >= 1 /\ Rows \in Nat /\ Rows >= 1
      /\ cx \in Nat /\ cx <= Cols /\ cy \in Int /\ (stray \/ (0 <= cy /\ cy <= Rows - 1)) /\ stray \in BOOLEAN
      /\ top \in Nat /\ bot \in Nat /\ bot <= Rows - 1
  BY ScreenNumbers
<1>00. /\ cx \in 0 .. Cols /\ \A n \in Counts : n \in Nat
       /\ 0 \in TS!Rows0 /\ bot \in TS!Rows0 /\ 0 \in 0 .. Cols
  BY <1>0, ScreenAssumption DEF TS!Rows0
<1>1. CASE TS!NewLine \/ TS!NextLine
  <2>1. TS!Step /\ TS!Marks /\ TS!LineFeed /\ cx' \in 0 .. Cols
    BY <1>1, <1>00 DEF TS!NewLine, TS!NextLine
  <2>2. TS!ScrollUp(top, bot, 1) \/ TS!Still
    BY <2>1 DEF TS!LineFeed
  <2>3. stray' = stray /\ wild' = wild /\ ~ wild
    BY <2>1 DEF TS!Step, TS!Turn
  <2>4. cy' \in Int /\ (stray \/ cy' \in TS!Rows0)
    BY <1>0, <2>1 DEF TS!LineFeed, TS!Rows0
  <2>5. Walks
    BY <1>0, <2>1, <2>3, <2>4 DEF Walks
  <2> QED BY <2>1, <2>2, <2>5, MoveFollows
<1>2. CASE TS!PutGlyph
  <2> DEFINE wrap == cx >= Cols
             scroll == wrap /\ cy + 1 > bot
             row == IF ~wrap THEN cy ELSE IF scroll THEN bot ELSE cy + 1
             col == IF wrap THEN 0 ELSE cx
             g == IF scroll THEN TS!Up(TS!Grid, top, bot, 1) ELSE TS!Grid
             drawn == [g EXCEPT ![row][col] = TS!Ink]
  <2>7. CASE row \notin TS!Rows0
    <3>1. TS!Outside
      BY <1>2, <2>7 DEF TS!PutGlyph
    <3>2. stray
      BY <1>0, <2>7 DEF TS!Rows0
    <3> QED BY <3>1, <3>2, OutsideFollows
  <2>8. CASE row \in TS!Rows0
    <3>1. /\ TS!Step /\ TS!Marks /\ grids' = TS!With(drawn) /\ cy' = row /\ cx' = col + 1
          /\ history' = (IF scroll THEN TS!Pushed(top, bot, 1) ELSE history)
          /\ view' = (IF scroll /\ top = 0 /\ bot = Rows - 1 THEN 0 ELSE view)
      BY <1>2, <2>8 DEF TS!PutGlyph
    <3> HIDE DEF drawn
    <3>2. cy' \in TS!Rows0 /\ cx' \in 0 .. Cols
      BY <1>0, <2>8, <3>1
    <3> HIDE DEF row, col, g
    <3>3. GridInv'
      BY <3>1, GridFollows DEF ScreenInv, TS!Marks
    <3>4. HistoryInv'
      <4>1. CASE scroll
        <5>1. history' = TS!Pushed(top, bot, 1) /\ view' = (IF top = 0 /\ bot = Rows - 1 THEN 0 ELSE view)
          BY <3>1, <4>1
        <5> HIDE DEF scroll, wrap
        <5> QED BY <5>1, PushedFollows DEF ScreenInv
      <4>2. CASE ~ scroll
        <5>1. UNCHANGED <<history, view>>
          BY <3>1, <4>2
        <5> HIDE DEF scroll, wrap
        <5> QED BY <5>1 DEF ScreenInv, HistoryInv, IsSequence
      <4> QED BY <4>1, <4>2
    <3>5. Walks
      BY <3>1, <3>2, WalksIn
    <3>6. CursorInv'
      BY <3>1, <3>5 DEF ScreenInv, CursorInv, TS!CursorInGrid, TS!Marks, TS!Rows0, Walks
    <3> QED BY <3>3, <3>4, <3>6 DEF ScreenInv
  <2> HIDE DEF row
  <2> QED BY <2>7, <2>8
<1>3. ASSUME NEW c \in 0 .. Cols, TS!Control(c) PROVE ScreenInv'
  <2>1. TS!Step /\ TS!Marks /\ TS!Still /\ cy' = cy /\ cx' \in 0 .. Cols
    BY <1>3, <1>00 DEF TS!Control
  <2> QED BY <2>1, MoveFollows, WalksIn
<1>4. CASE TS!ReverseIndex \/ TS!Index
  <2>1. /\ TS!Marks /\ cx' \in 0 .. Cols /\ wild' = wild /\ ~ wild
        /\ TS!ScrollUp(top, bot, 1) \/ TS!ScrollDown(top, bot, 1) \/ TS!Still
    BY <1>4, <1>00 DEF TS!ReverseIndex, TS!Index, TS!StepLeaving, TS!Turn
  <2>2. CASE TS!ReverseIndex
    <3>1. stray' = (stray \/ (cy = 0 /\ top # 0)) /\ cy' = (IF cy = top THEN cy ELSE cy - 1)
      BY <2>2 DEF TS!ReverseIndex, TS!StepLeaving
    <3>2. stray' \in BOOLEAN
      BY <3>1, Zenon
    <3>4. cy' = (IF cy = top THEN cy ELSE cy - 1) /\ (~ stray' => ~ stray /\ (cy # 0 \/ top = 0))
      BY <3>1, Zenon
    <3>3. cy' \in Int /\ (stray' \/ cy' \in TS!Rows0)
      BY <1>0, <3>4 DEF TS!Rows0
    <3> QED BY <2>1, <3>2, <3>3, MoveFollows DEF Walks
  <2>3. CASE TS!Index
    <3>1. stray' = (stray \/ (cy = Rows - 1 /\ bot # Rows - 1)) /\ cy' = (IF cy = bot THEN cy ELSE cy + 1)
      BY <2>3 DEF TS!Index, TS!StepLeaving
    <3>2. stray' \in BOOLEAN
      BY <3>1, Zenon
    <3>4. cy' = (IF cy = bot THEN cy ELSE cy + 1) /\ (~ stray' => ~ stray /\ (cy # Rows - 1 \/ bot = Rows - 1))
      BY <3>1, Zenon
    <3>3. cy' \in Int /\ (stray' \/ cy' \in TS!Rows0)
      BY <1>0, <3>4 DEF TS!Rows0
    <3> QED BY <2>1, <3>2, <3>3, MoveFollows DEF Walks
  <2> QED BY <1>4, <2>2, <2>3
<1>5. CASE TS!Save
  <2>1. HistoryInv' /\ GridInv'
    BY <1>5, ScrollFollows DEF TS!Save, ScreenInv
  <2>2. CursorInv'
    BY <1>5 DEF TS!Save, TS!Step, TS!Turn, ScreenInv, CursorInv, TS!CursorInGrid, TS!Rows0
  <2> QED BY <2>1, <2>2 DEF ScreenInv
<1>6. CASE TS!Restore
  <2>1. saved[1] \in Int /\ saved[2] \in Int
    BY <1>0 DEF ScreenInv, CursorInv
  <2>2. TS!Step /\ TS!Marks /\ TS!Still /\ cx' = TS!Clamp(saved[1], Cols - 1) /\ cy' = TS!Clamp(saved[2], Rows - 1)
    BY <1>6 DEF TS!Restore
  <2>3. cy' \in TS!Rows0 /\ cx' \in 0 .. Cols
    BY <1>0, <2>1, <2>2 DEF TS!Clamp, TS!Most, TS!Least, TS!Rows0
  <2> QED BY <2>2, <2>3, MoveFollows, WalksIn
<1>7. CASE TS!Reset
  <2>1. GridInv'
    BY <1>7, GridFollows DEF TS!Reset, TS!Marks, ScreenInv
  <2>2. CursorInv' /\ HistoryInv'
    BY <1>7, <1>00 DEF TS!Reset, TS!Step, TS!Turn, TS!Marks, ScreenInv, CursorInv, HistoryInv, IsSequence, TS!CursorInGrid, TS!Rows0
  <2> QED BY <2>1, <2>2 DEF ScreenInv
<1>8. CASE TS!Output \/ (\E up \in BOOLEAN : TS!View(up))
  <2>1. /\ TS!Step /\ TS!Marks /\ UNCHANGED <<grids, history, cx, cy>>
        /\ \/ view' = 0 \/ view' = TS!Least(view + Rows \div 2, Len(history))
           \/ view' = TS!Most(view - Rows \div 2, 0)
    BY <1>8 DEF TS!Output, TS!View
  <2>2. view \in 0 .. Len(history) /\ Len(history) \in Nat /\ Rows \div 2 \in Nat
    BY <1>0 DEF ScreenInv, HistoryInv, IsSequence
  <2>3. view' \in 0 .. Len(history)
    BY <2>1, <2>2 DEF TS!Least, TS!Most
  <2>4. HistoryInv'
    BY <2>1, <2>3 DEF ScreenInv, HistoryInv, IsSequence
  <2>5. CursorInv' /\ GridInv'
    BY <2>1 DEF TS!Step, TS!Turn, TS!Marks, ScreenInv, CursorInv, GridInv, TS!CursorInGrid, TS!Rows0
  <2> QED BY <2>4, <2>5 DEF ScreenInv
<1>9. ASSUME NEW n \in Counts, TS!InsertLines(n) \/ TS!DeleteLines(n) \/ (\E b \in BOOLEAN : TS!ScrollBy(n, b)) PROVE ScreenInv'
  <2>1. /\ TS!Step /\ TS!Marks /\ cy' = cy /\ cx' = cx
        /\ \/ TS!ScrollUp(cy, bot, n) \/ TS!ScrollDown(cy, bot, n)
           \/ TS!ScrollUp(top, bot, n) \/ TS!ScrollDown(top, bot, n)
    BY <1>9 DEF TS!InsertLines, TS!DeleteLines, TS!ScrollBy
  <2>2. n \in Nat /\ cx' \in 0 .. Cols
    BY <1>9, <1>00, <2>1
  <2> QED BY <2>1, <2>2, MoveFollows, WalksIn
<1>10. ASSUME NEW n \in Counts, NEW m \in Counts, TS!Cursor(n, m) PROVE ScreenInv'
  <2>1. n \in Nat /\ m \in Nat
    BY <1>10, <1>00
  <2>2. TS!Step /\ TS!Marks /\ TS!Still
    BY <1>10 DEF TS!Cursor
  <2>3. cy' \in Int /\ (stray \/ cy' \in TS!Rows0) /\ cx' \in 0 .. Cols
    <3> USE DEF TS!Most, TS!Least, TS!Clamp, TS!Rows0
    <3>2. CASE cy' = TS!Least(cy + n, bot) /\ cx' = cx
      BY <1>0, <2>1, <3>2
    <3>3. CASE cx' = TS!Least(cx + n, Cols - 1) /\ cy' = cy
      BY <1>0, <2>1, <3>3
    <3>4. CASE cx' = TS!Most(cx - n, 0) /\ cy' = cy
      BY <1>0, <2>1, <3>4
    <3>5. CASE cx' = 0 /\ cy' \in {TS!Clamp(cy + n, Rows - 1), TS!Clamp(cy - n, Rows - 1)}
      BY <1>0, <2>1, <3>5
    <3>6. CASE cy' = TS!Clamp(n - 1, Rows - 1) /\ cx' \in {TS!Clamp(m - 1, Cols - 1), TS!Least(cx, Cols - 1)}
      BY <1>0, <2>1, <3>6
    <3>1. CASE cy' = TS!Clamp(cy, Rows - 1) /\ cx' = TS!Clamp(m - 1, Cols - 1)
      BY <1>0, <2>1, <3>1
    <3>7. \/ cy' = TS!Least(cy + n, bot) /\ cx' = cx
          \/ cx' = TS!Least(cx + n, Cols - 1) /\ cy' = cy
          \/ cx' = TS!Most(cx - n, 0) /\ cy' = cy
          \/ cx' = 0 /\ cy' \in {TS!Clamp(cy + n, Rows - 1), TS!Clamp(cy - n, Rows - 1)}
          \/ cy' = TS!Clamp(cy, Rows - 1) /\ cx' = TS!Clamp(m - 1, Cols - 1)
          \/ cy' = TS!Clamp(n - 1, Rows - 1) /\ cx' \in {TS!Clamp(m - 1, Cols - 1), TS!Least(cx, Cols - 1)}
      BY <1>10 DEF TS!Cursor
    <3> QED BY <3>1, <3>2, <3>3, <3>4, <3>5, <3>6, <3>7
  <2>4. Walks
    BY <1>0, <2>2, <2>3 DEF Walks, TS!Step, TS!Turn
  <2> QED BY <2>1, <2>2, <2>4, MoveFollows
<1>15. ASSUME NEW n \in Counts, TS!CursorUp(n) PROVE ScreenInv'
  <2>1. /\ TS!Marks /\ TS!Still /\ wild' = wild /\ ~ wild /\ cx' = cx
        /\ stray' = (stray \/ top >= Rows) /\ cy' = TS!Most(cy - n, top)
    BY <1>15 DEF TS!CursorUp, TS!StepLeaving, TS!Turn
  <2>2. n \in Nat
    BY <1>15, <1>00
  <2>3. stray' \in BOOLEAN
    BY <2>1, Zenon
  <2>5. cy' = TS!Most(cy - n, top) /\ (~ stray' => ~ stray /\ ~ (top >= Rows))
    BY <2>1, Zenon
  <2>4. cy' \in Int /\ (stray' \/ cy' \in TS!Rows0)
    BY <1>0, <2>2, <2>5 DEF TS!Most, TS!Rows0
  <2> QED BY <1>00, <2>1, <2>2, <2>3, <2>4, MoveFollows DEF Walks
<1>11. ASSUME NEW n, NEW b, TS!ShiftCells(n, b) PROVE ScreenInv'
  <2>1. CASE cy \notin TS!Rows0 /\ cx < Cols
    BY <1>11, <2>1, OutsideFollows DEF TS!ShiftCells
  <2>2. CASE ~ (cy \notin TS!Rows0 /\ cx < Cols)
    <3>1. TS!Step /\ grids' = TS!With(TS!Shifted(n, b)) /\ UNCHANGED <<cx, cy, history, view>> /\ TS!Marks
      BY <1>11, <2>2 DEF TS!ShiftCells
    <3>2. GridInv'
      BY <3>1, GridFollows DEF ScreenInv, TS!Marks
    <3>3. CursorInv' /\ HistoryInv'
      BY <3>1 DEF TS!Step, TS!Turn, TS!Marks, ScreenInv, CursorInv, HistoryInv, IsSequence, TS!CursorInGrid, TS!Rows0
    <3> QED BY <3>2, <3>3 DEF ScreenInv
  <2> QED BY <2>1, <2>2
<1>12. ASSUME NEW erased, NEW line, TS!Erase(erased, line) PROVE ScreenInv'
  <2> DEFINE all == IF line THEN {p \in TS!Cells : p[1] = cy} ELSE TS!Cells
             g == TS!Wiped(IF erased = 0 THEN {p \in all : TS!Behind(p)} ELSE IF erased = 1 THEN {p \in all : TS!Before(p)} ELSE all)
  <2>6. CASE ~ TS!Reaches(erased, line)
    <3>1. TS!Outside /\ cy \notin TS!Rows0
      BY <1>12, <2>6 DEF TS!Erase, TS!Reaches
    <3> QED BY <3>1, OutsideFollows
  <2>7. CASE TS!Reaches(erased, line)
    <3>1. /\ TS!Step /\ TS!Marks /\ UNCHANGED <<cx, cy>> /\ grids' = g
          /\ (history' = <<>> /\ view' = 0) \/ UNCHANGED <<history, view>>
      BY <1>12, <2>7 DEF TS!Erase
    <3>2. \E h : g = TS!With(h)
      BY DEF TS!Wiped
    <3> HIDE DEF g, all
    <3>3. GridInv'
      BY <3>1, <3>2, GridFollows DEF ScreenInv, TS!Marks
    <3>4. HistoryInv'
      <4>1. CASE history' = <<>> /\ view' = 0
        BY <4>1 DEF HistoryInv, IsSequence
      <4>2. CASE UNCHANGED <<history, view>>
        BY <4>2 DEF ScreenInv, HistoryInv, IsSequence
      <4> QED BY <3>1, <4>1, <4>2
    <3>5. CursorInv'
      BY <3>1 DEF TS!Step, TS!Turn, ScreenInv, CursorInv, TS!CursorInGrid, TS!Marks, TS!Rows0
    <3> QED BY <3>3, <3>4, <3>5 DEF ScreenInv
  <2> QED BY <2>6, <2>7
<1>13. ASSUME NEW a \in 0 .. Rows, NEW b \in 0 .. Rows, TS!Margins(a, b) PROVE ScreenInv'
  <2>1. HistoryInv' /\ GridInv'
    BY <1>13, ScrollFollows DEF TS!Margins, ScreenInv
  <2>2. /\ top' = a /\ bot' = TS!Least(b, Rows - 1) /\ cx' = 0 /\ cy' = 0 /\ saved' = saved
        /\ stray' = stray /\ wild' = wild /\ ~ wild
    BY <1>13 DEF TS!Margins, TS!Step, TS!Turn
  <2>3. top' \in Nat /\ bot' \in 0 .. Rows - 1
    BY <1>0, <1>13, <2>2 DEF TS!Least
  <2>4. CursorInv'
    BY <1>00, <2>2, <2>3 DEF ScreenInv, CursorInv, TS!CursorInGrid, TS!Rows0
  <2> QED BY <2>1, <2>4 DEF ScreenInv
<1>14. ASSUME NEW on \in BOOLEAN, TS!Switch(on) PROVE ScreenInv'
  <2>1. /\ TS!Step /\ alt' = on /\ UNCHANGED <<saved, top, bot, history, view>>
        /\ IF on THEN grids' = [grids EXCEPT !.alt = TS!Empty] /\ cx' = 0 /\ cy' = 0 /\ kept' = grids.primary
           ELSE UNCHANGED <<grids, cx, cy, kept>>
    BY <1>14 DEF TS!Switch
  <2>2. GridInv'
    <3>1. CASE on
      <4>1. grids' = [primary |-> grids.primary, alt |-> TS!Empty] /\ kept' = grids.primary /\ alt' = TRUE
        BY <2>1, <3>1 DEF ScreenInv, GridInv
      <4> QED BY <4>1 DEF GridInv
    <3>2. CASE ~ on
      BY <2>1, <3>2 DEF ScreenInv, GridInv
    <3> QED BY <3>1, <3>2
  <2>3. (cy' = cy \/ cy' \in TS!Rows0) /\ cx' \in 0 .. Cols
    BY <2>1, <1>00
  <2>4. Walks
    BY <2>1, <2>3, WalksIn
  <2>5. CursorInv' /\ HistoryInv'
    BY <2>1, <2>4 DEF ScreenInv, CursorInv, HistoryInv, IsSequence, TS!CursorInGrid, TS!Rows0, Walks
  <2> QED BY <2>2, <2>5 DEF ScreenInv
<1> QED BY <1>1, <1>2, <1>3, <1>4, <1>5, <1>6, <1>7, <1>8, <1>9, <1>10, <1>11, <1>12, <1>13, <1>14, <1>15 DEF TS!Next

LEMMA ScreenStays == ASSUME ScreenInv, UNCHANGED screenVars PROVE ScreenInv'
BY DEF ScreenInv, CursorInv, HistoryInv, IsSequence, GridInv, screenVars, TS!CursorInGrid, TS!Rows0

LEMMA ScreenIsSafe == ASSUME ScreenInv PROVE TS!CursorInGrid /\ TS!PrimaryKept /\ TS!ViewInside
<1>1. ASSUME NEW line \in TS!Rows0
      PROVE IF line < view THEN Len(history) - view + line + 1 \in 1 .. Len(history) ELSE line - view \in TS!Rows0
  <2>1. view \in 0 .. Len(history) /\ Len(history) \in Nat
    BY DEF ScreenInv, HistoryInv, IsSequence
  <2>2. line \in 0 .. Rows - 1 /\ Rows \in Nat
    BY <1>1, ScreenAssumption DEF TS!Rows0
  <2> QED BY <2>1, <2>2 DEF TS!Rows0
<1>2. TS!ViewInside
  BY <1>1 DEF TS!ViewInside, TS!Seen
<1> QED BY <1>2 DEF ScreenInv, CursorInv, GridInv, TS!PrimaryKept

-----------------------------------------------------------------------------
(* The lines of the screen *)

Columns == 0 .. Cols - 1
\* Line i of a history and the grid after it, and how the cells of both are ordered
LineOf(h, g, i) == IF i <= Len(h) THEN h[i] ELSE g[i - Len(h) - 1]
InOrder(h, g) ==
    \A i, j \in 1 .. Len(h) + Rows, c, d \in Columns :
        /\ i < j \/ (i = j /\ c < d)
        /\ LineOf(h, g, i)[c] > 0 /\ LineOf(h, g, j)[d] > 0
        => LineOf(h, g, i)[c] < LineOf(h, g, j)[d]
Complete(h, g) == \A n \in 1 .. Rows * Cols : \E i \in 1 .. Len(h) + Rows, c \in Columns : LineOf(h, g, i)[c] = n

LEMMA OrderedIsInOrder ==
    /\ InOrder(history, grids.primary) => TS!CellsInOrder
    /\ Complete(history, grids.primary) => \A n \in 1 .. Rows * Cols : \E p \in TS!Places : TS!Cell(p) = n
<1>1. ASSUME InOrder(history, grids.primary) PROVE TS!CellsInOrder
  <2> SUFFICES ASSUME NEW p \in TS!Places, NEW q \in TS!Places, TS!Earlier(p, q), TS!Cell(p) > 0, TS!Cell(q) > 0
               PROVE TS!Cell(p) < TS!Cell(q)
    BY DEF TS!CellsInOrder
  <2>1. /\ p[1] \in 1 .. Len(history) + Rows /\ p[2] \in Columns
        /\ q[1] \in 1 .. Len(history) + Rows /\ q[2] \in Columns
    BY DEF TS!Places, Columns
  <2>2. /\ TS!Cell(p) = LineOf(history, grids.primary, p[1])[p[2]]
        /\ TS!Cell(q) = LineOf(history, grids.primary, q[1])[q[2]]
    BY DEF TS!Cell, TS!Line, LineOf
  <2>3. p[1] < q[1] \/ (p[1] = q[1] /\ p[2] < q[2])
    BY DEF TS!Earlier
  <2> QED BY <1>1, <2>1, <2>2, <2>3 DEF InOrder
<1>2. ASSUME Complete(history, grids.primary), NEW n \in 1 .. Rows * Cols PROVE \E p \in TS!Places : TS!Cell(p) = n
  <2>1. PICK i \in 1 .. Len(history) + Rows, c \in Columns : LineOf(history, grids.primary, i)[c] = n
    BY <1>2 DEF Complete
  <2>2. <<i, c>> \in TS!Places /\ TS!Cell(<<i, c>>) = n
    BY <2>1 DEF TS!Places, Columns, TS!Cell, TS!Line, LineOf
  <2> QED BY <2>2
<1> QED BY <1>1, <1>2

\* Cells come from others in the same order: those of line i from line f[i], cell <<i, c>> from
\* column e[<<i, c>>] of that.
Follows(h, g, k, m, f, e) ==
    \A i, j \in 1 .. Len(k) + Rows, c, d \in Columns :
        LineOf(k, m, i)[c] > 0 /\ LineOf(k, m, j)[d] > 0 =>
            /\ f[i] \in 1 .. Len(h) + Rows /\ e[<<i, c>>] \in Columns
            /\ LineOf(k, m, i)[c] = LineOf(h, g, f[i])[e[<<i, c>>]]
            /\ i < j => f[i] < f[j]
            /\ i = j /\ c < d => e[<<i, c>>] < e[<<i, d>>]

LEMMA OrderFollows ==
    ASSUME NEW h, NEW g, NEW k, NEW m, InOrder(h, g), NEW f, NEW e, Follows(h, g, k, m, f, e)
    PROVE InOrder(k, m)
<1> SUFFICES ASSUME NEW i \in 1 .. Len(k) + Rows, NEW j \in 1 .. Len(k) + Rows, NEW c \in Columns, NEW d \in Columns,
                    i < j \/ (i = j /\ c < d), LineOf(k, m, i)[c] > 0, LineOf(k, m, j)[d] > 0
             PROVE LineOf(k, m, i)[c] < LineOf(k, m, j)[d]
  BY DEF InOrder
<1>1. /\ f[i] \in 1 .. Len(h) + Rows /\ e[<<i, c>>] \in Columns /\ LineOf(k, m, i)[c] = LineOf(h, g, f[i])[e[<<i, c>>]]
      /\ f[j] \in 1 .. Len(h) + Rows /\ e[<<j, d>>] \in Columns /\ LineOf(k, m, j)[d] = LineOf(h, g, f[j])[e[<<j, d>>]]
  BY DEF Follows
<1>2. f[i] < f[j] \/ (f[i] = f[j] /\ e[<<i, c>>] < e[<<j, d>>])
  BY DEF Follows
<1> QED BY <1>1, <1>2 DEF InOrder

\* The cells of grid m come from those of g in the same order.
RowsFollow(g, m, row, col) ==
    \A r, s \in TS!Rows0, c, d \in Columns : m[r][c] > 0 /\ m[s][d] > 0 =>
        /\ row[r] \in TS!Rows0 /\ col[<<r, c>>] \in Columns /\ m[r][c] = g[row[r]][col[<<r, c>>]]
        /\ r < s => row[r] < row[s]
        /\ r = s /\ c < d => col[<<r, c>>] < col[<<r, d>>]

\* Cells moved by whole rows, or within their rows, while the history stays or is forgotten
LEMMA RowsMove ==
    ASSUME NEW h, NEW g, NEW k \in {h, <<>>}, NEW m, Len(h) \in Nat, InOrder(h, g), NEW row, NEW col,
           RowsFollow(g, m, row, col)
    PROVE InOrder(k, m)
<1>11. \A r \in TS!Rows0, c \in Columns : m[r][c] > 0 =>
           row[r] \in TS!Rows0 /\ col[<<r, c>>] \in Columns /\ m[r][c] = g[row[r]][col[<<r, c>>]]
  BY DEF RowsFollow
<1>12. \A r, s \in TS!Rows0, c, d \in Columns : m[r][c] > 0 /\ m[s][d] > 0 =>
           /\ r < s => row[r] < row[s]
           /\ r = s /\ c < d => col[<<r, c>>] < col[<<r, d>>]
  BY DEF RowsFollow
<1>1. Rows \in Nat /\ Cols \in Nat /\ Len(k) \in Nat /\ (k = h \/ Len(k) = 0)
  BY ScreenAssumption
<1> DEFINE old == Len(h)
           new == Len(k)
           f == [i \in 1 .. new + Rows |-> IF i <= new THEN i ELSE old + row[i - new - 1] + 1]
           e == [p \in (1 .. new + Rows) \X Columns |-> IF p[1] <= new THEN p[2] ELSE col[<<p[1] - new - 1, p[2]>>]]
<1>2. ASSUME NEW i \in 1 .. new + Rows, i <= new
      PROVE /\ k = h /\ f[i] = i /\ LineOf(k, m, i) = h[i] /\ LineOf(h, g, i) = h[i]
            /\ \A c \in Columns : e[<<i, c>>] = c
  BY <1>1, <1>2 DEF LineOf
<1>3. ASSUME NEW i \in 1 .. new + Rows, ~ (i <= new)
      PROVE /\ i - new - 1 \in TS!Rows0 /\ f[i] = old + row[i - new - 1] + 1 /\ LineOf(k, m, i) = m[i - new - 1]
            /\ \A c \in Columns : e[<<i, c>>] = col[<<i - new - 1, c>>]
  BY <1>1, <1>3 DEF LineOf, TS!Rows0
<1>4. \A r \in TS!Rows0 : old + r + 1 \in 1 .. old + Rows /\ ~ (old + r + 1 <= old) /\ LineOf(h, g, old + r + 1) = g[r]
  BY <1>1 DEF LineOf, TS!Rows0
<1>5. \A i \in 1 .. new : i \in 1 .. old + Rows
  BY <1>1
<1> HIDE DEF f, e
<1>6. ASSUME NEW i \in 1 .. new + Rows, NEW c \in Columns, LineOf(k, m, i)[c] > 0
      PROVE /\ f[i] \in 1 .. old + Rows /\ e[<<i, c>>] \in Columns
            /\ LineOf(k, m, i)[c] = LineOf(h, g, f[i])[e[<<i, c>>]]
  <2>1. CASE i <= new
    BY <1>1, <1>2, <1>5, <1>6, <2>1
  <2>2. CASE ~ (i <= new)
    <3>1. m[i - new - 1][c] > 0 /\ i - new - 1 \in TS!Rows0
      BY <1>3, <1>6, <2>2
    <3>2. /\ row[i - new - 1] \in TS!Rows0 /\ col[<<i - new - 1, c>>] \in Columns
          /\ m[i - new - 1][c] = g[row[i - new - 1]][col[<<i - new - 1, c>>]]
      BY <1>11, <3>1
    <3> QED BY <1>3, <1>4, <2>2, <3>2
  <2> QED BY <2>1, <2>2
<1>7. ASSUME NEW i \in 1 .. new + Rows, NEW j \in 1 .. new + Rows, NEW c \in Columns, NEW d \in Columns,
             LineOf(k, m, i)[c] > 0, LineOf(k, m, j)[d] > 0
      PROVE (i < j => f[i] < f[j]) /\ (i = j /\ c < d => e[<<i, c>>] < e[<<i, d>>])
  <2>1. CASE i <= new
    <3>1. f[i] = i /\ e[<<i, c>>] = c /\ e[<<i, d>>] = d /\ k = h
      BY <1>2, <2>1
    <3>2. CASE j <= new
      BY <1>2, <3>1, <3>2
    <3>3. CASE ~ (j <= new)
      <4>1. m[j - new - 1][d] > 0 /\ j - new - 1 \in TS!Rows0 /\ f[j] = old + row[j - new - 1] + 1
        BY <1>3, <1>7, <3>3
      <4>2. row[j - new - 1] \in TS!Rows0
        BY <1>11, <4>1
      <4>3. row[j - new - 1] \in Nat
        BY <4>2 DEF TS!Rows0
      <4> QED BY <1>1, <2>1, <3>1, <4>1, <4>3
    <3> QED BY <3>2, <3>3
  <2>2. CASE ~ (i <= new)
    <3> DEFINE r == i - new - 1
               s == j - new - 1
    <3>1. /\ m[r][c] > 0 /\ r \in TS!Rows0 /\ f[i] = old + row[r] + 1
          /\ e[<<i, c>>] = col[<<r, c>>] /\ e[<<i, d>>] = col[<<r, d>>]
      BY <1>3, <1>7, <2>2
    <3>2. ASSUME i < j PROVE f[i] < f[j]
      <4>1. ~ (j <= new) /\ r < s
        BY <1>1, <2>2, <3>2
      <4>2. m[s][d] > 0 /\ s \in TS!Rows0 /\ f[j] = old + row[s] + 1
        BY <1>3, <1>7, <4>1
      <4>3. row[r] < row[s] /\ row[r] \in TS!Rows0 /\ row[s] \in TS!Rows0
        BY <1>11, <1>12, <3>1, <4>1, <4>2
      <4>4. row[r] \in Int /\ row[s] \in Int
        BY <4>3 DEF TS!Rows0
      <4> QED BY <3>1, <4>2, <4>3, <4>4
    <3>3. ASSUME i = j, c < d PROVE e[<<i, c>>] < e[<<i, d>>]
      <4>1. m[r][d] > 0
        BY <1>3, <1>7, <2>2, <3>3
      <4> QED BY <1>12, <3>1, <3>3, <4>1
    <3> QED BY <3>2, <3>3
  <2> QED BY <2>1, <2>2
<1>8. Follows(h, g, k, m, f, e)
  <2> HIDE DEF InOrder
  <2> QED BY <1>6, <1>7 DEF Follows
<1> QED BY <1>8, OrderFollows

LEMMA CellsFade ==
    ASSUME NEW h, NEW g, NEW k \in {h, <<>>}, NEW m, Len(h) \in Nat, InOrder(h, g),
           \A r \in TS!Rows0, c \in Columns : m[r][c] > 0 => m[r][c] = g[r][c]
    PROVE InOrder(k, m)
<1> DEFINE row == [r \in TS!Rows0 |-> r]
           col == [p \in TS!Rows0 \X Columns |-> p[2]]
<1>1. RowsFollow(g, m, row, col)
  BY DEF RowsFollow
<1> HIDE DEF row, col
<1> QED BY <1>1, RowsMove

LEMMA UpInOrder ==
    ASSUME NEW h, NEW g, Len(h) \in Nat, InOrder(h, g), NEW a \in Nat, NEW b \in TS!Rows0, NEW n \in Nat
    PROVE InOrder(h, TS!Up(g, a, b, n))
<1> DEFINE m == TS!Up(g, a, b, n)
           row == [r \in TS!Rows0 |-> IF r \in a .. b THEN r + n ELSE r]
           col == [p \in TS!Rows0 \X Columns |-> p[2]]
<1>1. Rows \in Nat
  BY ScreenAssumption
<1>2. ASSUME NEW r \in TS!Rows0, NEW c \in Columns, m[r][c] > 0
      PROVE /\ row[r] \in TS!Rows0 /\ m[r][c] = g[row[r]][c] /\ r \in Int /\ row[r] \in Int
            /\ row[r] = (IF r \in a .. b THEN r + n ELSE r) /\ (r \in a .. b => r + n <= b)
  <2>1. TS!Blank[c] = 0 /\ r \in Int /\ b \in Int
    BY DEF TS!Blank, Columns, TS!Rows0
  <2>2. m[r] = IF r \in a .. b THEN IF r + n <= b THEN g[r + n] ELSE TS!Blank ELSE g[r]
    BY DEF TS!Up
  <2>3. r \in a .. b => r + n <= b
    BY <1>2, <2>1, <2>2
  <2> QED BY <1>1, <2>1, <2>2, <2>3 DEF TS!Rows0
<1> HIDE DEF m
<1>3. RowsFollow(g, m, row, col)
  <2> SUFFICES ASSUME NEW r \in TS!Rows0, NEW s \in TS!Rows0, NEW c \in Columns, NEW d \in Columns, m[r][c] > 0, m[s][d] > 0
               PROVE /\ row[r] \in TS!Rows0 /\ col[<<r, c>>] \in Columns /\ m[r][c] = g[row[r]][col[<<r, c>>]]
                     /\ r < s => row[r] < row[s]
                     /\ r = s /\ c < d => col[<<r, c>>] < col[<<r, d>>]
    BY DEF RowsFollow
  <2>1. col[<<r, c>>] = c /\ col[<<r, d>>] = d
    OBVIOUS
  <2>2. b \in Int
    BY DEF TS!Rows0
  <2>3. r < s => row[r] < row[s]
    BY <1>2, <2>2
  <2> HIDE DEF row, col
  <2> QED BY <1>2, <2>1, <2>3
<1> HIDE DEF row, col
<1> QED BY <1>3, RowsMove DEF m

LEMMA DownInOrder ==
    ASSUME NEW h, NEW g, Len(h) \in Nat, InOrder(h, g), NEW a \in Nat, NEW b \in TS!Rows0, NEW n \in Nat
    PROVE InOrder(h, TS!Down(g, a, b, n))
<1> DEFINE m == TS!Down(g, a, b, n)
           row == [r \in TS!Rows0 |-> IF r \in a .. b THEN r - n ELSE r]
           col == [p \in TS!Rows0 \X Columns |-> p[2]]
<1>1. Rows \in Nat
  BY ScreenAssumption
<1>2. ASSUME NEW r \in TS!Rows0, NEW c \in Columns, m[r][c] > 0
      PROVE /\ row[r] \in TS!Rows0 /\ m[r][c] = g[row[r]][c] /\ r \in Int /\ row[r] \in Int
            /\ row[r] = (IF r \in a .. b THEN r - n ELSE r) /\ (r \in a .. b => r - n >= a)
  <2>1. TS!Blank[c] = 0 /\ r \in Int /\ b \in Int
    BY DEF TS!Blank, Columns, TS!Rows0
  <2>2. m[r] = IF r \in a .. b THEN IF r - n >= a THEN g[r - n] ELSE TS!Blank ELSE g[r]
    BY DEF TS!Down
  <2>3. r \in a .. b => r - n >= a
    BY <1>2, <2>1, <2>2
  <2> QED BY <1>1, <2>1, <2>2, <2>3 DEF TS!Rows0
<1> HIDE DEF m
<1>3. RowsFollow(g, m, row, col)
  <2> SUFFICES ASSUME NEW r \in TS!Rows0, NEW s \in TS!Rows0, NEW c \in Columns, NEW d \in Columns, m[r][c] > 0, m[s][d] > 0
               PROVE /\ row[r] \in TS!Rows0 /\ col[<<r, c>>] \in Columns /\ m[r][c] = g[row[r]][col[<<r, c>>]]
                     /\ r < s => row[r] < row[s]
                     /\ r = s /\ c < d => col[<<r, c>>] < col[<<r, d>>]
    BY DEF RowsFollow
  <2>1. col[<<r, c>>] = c /\ col[<<r, d>>] = d
    OBVIOUS
  <2>2. b \in Int
    BY DEF TS!Rows0
  <2>3. r < s => row[r] < row[s]
    BY <1>2, <2>2
  <2> HIDE DEF row, col
  <2> QED BY <1>2, <2>1, <2>3
<1> HIDE DEF row, col
<1> QED BY <1>3, RowsMove DEF m

\* The cells of row y behind x, moved by k
LEMMA ShiftInOrder ==
    ASSUME NEW h, NEW g, NEW m, Len(h) \in Nat, InOrder(h, g), NEW x \in Nat, NEW k \in Nat, NEW insert \in BOOLEAN,
           NEW y \in TS!Rows0,
           \A r \in TS!Rows0 \ {y} : m[r] = g[r],
           \A c \in Columns : m[y][c] =
               IF c < x THEN g[y][c]
               ELSE IF insert THEN IF c < x + k THEN 0 ELSE g[y][c - k]
               ELSE IF c + k < Cols THEN g[y][c + k] ELSE 0
    PROVE InOrder(h, m)
<1> DEFINE to(c) == IF c < x THEN c ELSE IF insert THEN c - k ELSE c + k
           row == [r \in TS!Rows0 |-> r]
           col == [p \in TS!Rows0 \X Columns |-> IF p[1] = y THEN to(p[2]) ELSE p[2]]
<1>1. ASSUME NEW c \in Columns, m[y][c] > 0
      PROVE to(c) \in Columns /\ m[y][c] = g[y][to(c)] /\ (c < x \/ ~ insert \/ c >= x + k)
  BY <1>1, ScreenAssumption DEF Columns
<1>2. ASSUME NEW c \in Columns, NEW d \in Columns, m[y][c] > 0, m[y][d] > 0, c < d PROVE to(c) < to(d)
  BY <1>1, <1>2 DEF Columns
<1>3. \A r \in TS!Rows0, c \in Columns : row[r] = r /\ col[<<r, c>>] = IF r = y THEN to(c) ELSE c
  OBVIOUS
<1> HIDE DEF to, row, col
<1>4. RowsFollow(g, m, row, col)
  <2> SUFFICES ASSUME NEW r \in TS!Rows0, NEW s \in TS!Rows0, NEW c \in Columns, NEW d \in Columns, m[r][c] > 0, m[s][d] > 0
               PROVE /\ row[r] \in TS!Rows0 /\ col[<<r, c>>] \in Columns /\ m[r][c] = g[row[r]][col[<<r, c>>]]
                     /\ r < s => row[r] < row[s]
                     /\ r = s /\ c < d => col[<<r, c>>] < col[<<r, d>>]
    BY DEF RowsFollow
  <2>1. CASE r = y
    <3>1. row[r] = r /\ row[s] = s /\ col[<<r, c>>] = to(c) /\ to(c) \in Columns /\ m[r][c] = g[r][to(c)]
      BY <1>1, <1>3, <2>1
    <3>2. ASSUME r = s, c < d PROVE col[<<r, c>>] < col[<<r, d>>]
      <4>1. col[<<r, d>>] = to(d) /\ m[y][c] > 0 /\ m[y][d] > 0
        BY <1>3, <2>1, <3>2
      <4> QED BY <1>2, <3>1, <3>2, <4>1
    <3> QED BY <2>1, <3>1, <3>2
  <2>2. CASE r # y
    BY <1>3, <2>2
  <2> QED BY <2>1, <2>2
<1> QED BY <1>4, RowsMove

\* A whole screen that moves up: each line is what was d lines behind it, d the lines that are lost.
Leaving(h, g, n) == TS!Newest(h \o [i \in 1 .. TS!Least(n, Rows) |-> g[i - 1]])
LEMMA WholeScreen ==
    ASSUME NEW h \in Seq(TS!Lines), NEW g \in [TS!Rows0 -> TS!Lines], NEW n \in Nat, Len(h) <= Scrollback
    PROVE /\ Leaving(h, g, n) \in Seq(TS!Lines) /\ Len(Leaving(h, g, n)) <= Scrollback
          /\ InOrder(h, g) => InOrder(Leaving(h, g, n), TS!Up(g, 0, Rows - 1, n))
          /\ Len(Leaving(h, g, n)) < Scrollback =>
                /\ Len(h) <= Len(Leaving(h, g, n))
                /\ Complete(h, g) => Complete(Leaving(h, g, n), TS!Up(g, 0, Rows - 1, n))
<1> DEFINE k == Leaving(h, g, n)
           m == TS!Up(g, 0, Rows - 1, n)
           p == TS!Least(n, Rows)
           pushed == [i \in 1 .. p |-> g[i - 1]]
           x == h \o pushed
           start == TS!Most(1, Len(x) - Scrollback + 1)
           d == start - 1
<1>1. p \in Nat /\ p <= Rows /\ p <= n /\ (n <= Rows => p = n) /\ Rows \in Nat /\ Scrollback \in Nat /\ Len(h) \in Nat
  BY ScreenAssumption DEF TS!Least
<1>2. pushed \in Seq(TS!Lines) /\ Len(pushed) = p /\ \A i \in 1 .. p : pushed[i] = g[i - 1] /\ i - 1 \in TS!Rows0
  <2> HIDE DEF p
  <2>1. \A i \in 1 .. p : i - 1 \in TS!Rows0 /\ g[i - 1] \in TS!Lines
    BY <1>1 DEF TS!Rows0
  <2> QED BY <1>1, <2>1
<1> HIDE DEF k, m, p, pushed
<1>3. /\ x \in Seq(TS!Lines) /\ Len(x) = Len(h) + p
      /\ \A i \in 1 .. Len(h) + p : x[i] = IF i <= Len(h) THEN h[i] ELSE g[i - Len(h) - 1]
  <2>1. /\ x \in Seq(TS!Lines) /\ Len(x) = Len(h) + Len(pushed)
        /\ \A i \in 1 .. Len(h) + Len(pushed) : x[i] = IF i <= Len(h) THEN h[i] ELSE pushed[i - Len(h)]
    BY <1>2, ConcatProperties
  <2>2. \A i \in 1 .. Len(h) + p : ~ (i <= Len(h)) => i - Len(h) \in 1 .. p /\ pushed[i - Len(h)] = g[i - Len(h) - 1]
    BY <1>1, <1>2
  <2> QED BY <1>2, <2>1, <2>2
<1> HIDE DEF x
<1>4. d \in Nat /\ start = d + 1 /\ d <= Len(x) /\ (d = 0 \/ d = Len(x) - Scrollback) /\ Len(x) - d <= Scrollback
  BY <1>1, <1>3 DEF TS!Most
<1> HIDE DEF start, d
<1>5. k \in Seq(TS!Lines) /\ Len(k) = Len(h) + p - d /\ \A i \in 1 .. Len(k) : k[i] = x[i + d]
  <2>1. k = SubSeq(x, d + 1, Len(x))
    BY <1>4 DEF k, Leaving, TS!Newest, x, start, pushed, p
  <2>2. \A i \in d + 1 .. Len(x) : x[i] \in TS!Lines
    BY <1>1, <1>3, <1>4
  <2>3. d + 1 \in Int /\ Len(x) \in Int
    BY <1>1, <1>3, <1>4
  <2>4. /\ k \in Seq(TS!Lines)
        /\ Len(k) = IF d + 1 <= Len(x) THEN Len(x) - (d + 1) + 1 ELSE 0
        /\ \A i \in 1 .. Len(x) - (d + 1) + 1 : k[i] = x[d + 1 + i - 1]
    BY <2>1, <2>2, <2>3, SubSeqProperties
  <2>7. Len(x) \in Nat
    BY <1>1, <1>3
  <2>8. Len(k) = IF d + 1 <= Len(x) THEN Len(x) - (d + 1) + 1 ELSE 0
    BY <2>4
  <2>5. Len(k) = Len(x) - d
    BY <1>4, <2>7, <2>8
  <2>6. \A i \in 1 .. Len(k) : i \in 1 .. Len(x) - (d + 1) + 1 /\ d + 1 + i - 1 = i + d
    BY <1>4, <2>5, <2>7
  <2>9. ASSUME NEW i \in 1 .. Len(k) PROVE k[i] = x[i + d]
    <3>1. i \in 1 .. Len(x) - (d + 1) + 1 /\ d + 1 + i - 1 = i + d
      BY <2>6
    <3> QED BY <2>4, <3>1
  <2>10. Len(k) = Len(h) + p - d
    BY <1>1, <1>3, <1>4, <2>5
  <2> QED BY <2>4, <2>9, <2>10
<1>6. Len(k) \in Nat /\ Len(k) <= Scrollback
  BY <1>1, <1>3, <1>4, <1>5
<1>7. ASSUME NEW i \in 1 .. Len(k) + Rows
      PROVE LineOf(k, m, i) = IF i + d <= Len(h) + Rows THEN LineOf(h, g, i + d) ELSE TS!Blank
  <2>1. CASE i <= Len(k)
    <3>1. i + d \in 1 .. Len(h) + p /\ i \in 1 .. Len(k)
      BY <1>1, <1>4, <1>5, <1>6, <2>1
    <3>2. i + d <= Len(h) + Rows
      BY <1>1, <3>1
    <3> QED BY <1>3, <1>5, <2>1, <3>1, <3>2 DEF LineOf
  <2>2. CASE ~ (i <= Len(k))
    <3> DEFINE r == i - Len(k) - 1
    <3>1. r \in 0 .. Rows - 1 /\ r + n \in Nat /\ i + d = r + 1 + Len(h) + p
      BY <1>1, <1>4, <1>5, <1>6, <2>2
    <3>2. LineOf(k, m, i) = IF r + n <= Rows - 1 THEN g[r + n] ELSE TS!Blank
      BY <2>2, <3>1 DEF LineOf, m, TS!Up, TS!Rows0
    <3> HIDE DEF r
    <3>3. CASE r + n <= Rows - 1
      <4>1. n <= Rows
        BY <1>1, <3>1, <3>3
      <4>2. p = n /\ i + d = r + n + 1 + Len(h)
        BY <1>1, <3>1, <4>1
      <4>4. r \in Int /\ n \in Int /\ i \in Int /\ d \in Int /\ Len(h) \in Int /\ Rows \in Int /\ r + n >= 0
        BY <1>1, <1>4, <1>6, <3>1
      <4>3. i + d <= Len(h) + Rows /\ ~ (i + d <= Len(h)) /\ (i + d) - Len(h) - 1 = r + n
        BY <3>3, <4>2, <4>4
      <4> QED BY <3>2, <3>3, <4>3 DEF LineOf
    <3>4. CASE ~ (r + n <= Rows - 1)
      <4>1. p = n \/ (p = Rows /\ n > Rows)
        BY <1>1 DEF p, TS!Least
      <4>2. ~ (i + d <= Len(h) + Rows)
        BY <1>1, <3>1, <3>4, <4>1
      <4> QED BY <3>2, <3>4, <4>2
    <3> QED BY <3>3, <3>4
  <2> QED BY <2>1, <2>2
<1>8. ASSUME InOrder(h, g) PROVE InOrder(k, m)
  <2> DEFINE f == [i \in 1 .. Len(k) + Rows |-> i + d]
             e == [q \in (1 .. Len(k) + Rows) \X Columns |-> q[2]]
  <2>1. ASSUME NEW i \in 1 .. Len(k) + Rows, NEW c \in Columns, LineOf(k, m, i)[c] > 0
        PROVE f[i] = i + d /\ i + d \in 1 .. Len(h) + Rows /\ LineOf(k, m, i)[c] = LineOf(h, g, i + d)[c]
    <3>1. TS!Blank[c] = 0
      BY DEF TS!Blank, Columns
    <3>2. i + d <= Len(h) + Rows
      BY <1>7, <2>1, <3>1
    <3> QED BY <1>1, <1>4, <1>6, <1>7, <3>2
  <2>2. \A i \in 1 .. Len(k) + Rows, c \in Columns : e[<<i, c>>] = c
    OBVIOUS
  <2> HIDE DEF f, e
  <2>3. Follows(h, g, k, m, f, e)
    <3> SUFFICES ASSUME NEW i \in 1 .. Len(k) + Rows, NEW j \in 1 .. Len(k) + Rows, NEW c \in Columns, NEW b \in Columns,
                        LineOf(k, m, i)[c] > 0, LineOf(k, m, j)[b] > 0
                 PROVE /\ f[i] \in 1 .. Len(h) + Rows /\ e[<<i, c>>] \in Columns
                       /\ LineOf(k, m, i)[c] = LineOf(h, g, f[i])[e[<<i, c>>]]
                       /\ i < j => f[i] < f[j]
                       /\ i = j /\ c < b => e[<<i, c>>] < e[<<i, b>>]
      BY DEF Follows
    <3>1. i < j => i + d < j + d
      BY <1>1, <1>4, <1>6
    <3> QED BY <2>1, <2>2, <3>1
  <2> QED BY <1>8, <2>3, OrderFollows
<1>9. ASSUME Len(k) < Scrollback PROVE Len(h) <= Len(k) /\ (Complete(h, g) => Complete(k, m))
  <2>1. d = 0
    BY <1>1, <1>3, <1>4, <1>5, <1>9
  <2>2. Len(h) <= Len(k)
    BY <1>1, <1>5, <2>1
  <2>3. ASSUME Complete(h, g), NEW v \in 1 .. Rows * Cols
        PROVE \E i \in 1 .. Len(k) + Rows, c \in Columns : LineOf(k, m, i)[c] = v
    <3>1. PICK i \in 1 .. Len(h) + Rows, c \in Columns : LineOf(h, g, i)[c] = v
      BY <2>3 DEF Complete
    <3>2. i \in 1 .. Len(k) + Rows /\ i + d = i /\ i <= Len(h) + Rows
      BY <1>1, <1>6, <2>1, <2>2
    <3> QED BY <1>7, <3>1, <3>2
  <2> QED BY <2>2, <2>3 DEF Complete
<1> QED BY <1>5, <1>6, <1>8, <1>9 DEF k, m

ScreenTypes ==
    /\ grids \in [primary : [TS!Rows0 -> TS!Lines], alt : [TS!Rows0 -> TS!Lines]]
    /\ history \in Seq(TS!Lines) /\ Len(history) <= Scrollback
    /\ ops \in 0 .. MaxOps /\ kept \in [TS!Rows0 -> TS!Lines] /\ lossless \in BOOLEAN
OrderInv ==
    /\ InOrder(history, grids.primary)
    /\ lossless /\ Len(history) < Scrollback => Complete(history, grids.primary)
    /\ lossless => ~ alt
ScreenOrder == ScreenTypes /\ OrderInv

LEMMA GridBecomes ==
    ASSUME ScreenInv, ScreenOrder, TS!Turn, NEW g \in [TS!Rows0 -> TS!Lines], grids' = TS!With(g), UNCHANGED <<alt, kept>>,
           history' \in Seq(TS!Lines), Len(history') <= Scrollback, lossless' \in BOOLEAN, lossless' => lossless,
           InOrder(history', IF alt THEN grids.primary ELSE g),
           lossless' /\ Len(history') < Scrollback => Complete(history', g)
    PROVE ScreenOrder'
<1>1. ops' \in 0 .. MaxOps
  BY ScreenAssumption DEF TS!Turn, ScreenOrder, ScreenTypes
<1>2. alt \in BOOLEAN /\ (lossless => ~ alt)
  BY DEF ScreenInv, GridInv, ScreenOrder, OrderInv
<1>3. PICK p \in [TS!Rows0 -> TS!Lines], q \in [TS!Rows0 -> TS!Lines] : grids = [primary |-> p, alt |-> q]
  BY DEF ScreenOrder, ScreenTypes
<1>4. grids' = IF alt THEN [primary |-> p, alt |-> g] ELSE [primary |-> g, alt |-> q]
  BY <1>3 DEF TS!With
<1>5. grids'.primary = (IF alt THEN grids.primary ELSE g)
  BY <1>3, <1>4
<1>6. ScreenTypes'
  <2>1. grids' \in [primary : [TS!Rows0 -> TS!Lines], alt : [TS!Rows0 -> TS!Lines]]
    BY <1>4
  <2> QED BY <1>1, <2>1 DEF ScreenOrder, ScreenTypes, TS!Rows0, TS!Lines
<1>7. InOrder(history', grids'.primary) /\ (lossless' /\ Len(history') < Scrollback => Complete(history', grids'.primary))
  BY <1>2, <1>5
<1>8. OrderInv'
  BY <1>2, <1>7 DEF OrderInv, InOrder, Complete, LineOf, Columns
<1> QED BY <1>6, <1>8 DEF ScreenOrder

\* What is drawn over the grid moves or fades its cells, and less than a whole screen scrolls with it.
LEMMA DrawnStep ==
    ASSUME ScreenInv, ScreenOrder, TS!Turn, NEW g \in [TS!Rows0 -> TS!Lines], grids' = TS!With(g), UNCHANGED <<alt, kept>>,
           history' \in {history, <<>>}, lossless' = FALSE,
           InOrder(history, TS!Grid) => InOrder(history', g)
    PROVE ScreenOrder'
<1>1. history \in Seq(TS!Lines) /\ Len(history) <= Scrollback /\ Scrollback \in Nat /\ InOrder(history, grids.primary)
  BY ScreenAssumption DEF ScreenOrder, ScreenTypes, OrderInv
<1>2. history' \in Seq(TS!Lines) /\ Len(history') <= Scrollback /\ Len(history) \in Nat
  <2>1. CASE history' = history
    BY <1>1, <2>1
  <2>2. CASE history' = <<>>
    <3>1. <<>> \in Seq(TS!Lines) /\ Len(<<>>) = 0
      OBVIOUS
    <3> QED BY <1>1, <2>2, <3>1
  <2> QED BY <2>1, <2>2
<1>3. InOrder(history', grids.primary)
  BY <1>1, <1>2, CellsFade
<1>4. ~ alt => InOrder(history', g)
  BY <1>1 DEF TS!Grid
<1>5. InOrder(history', IF alt THEN grids.primary ELSE g)
  BY <1>3, <1>4
<1> QED BY <1>2, <1>5, GridBecomes

LEMMA StillOrder ==
    ASSUME ScreenOrder, TS!Turn, UNCHANGED <<grids, history, lossless, alt, kept>>
    PROVE ScreenOrder'
<1>1. ops' \in 0 .. MaxOps
  BY ScreenAssumption DEF TS!Turn, ScreenOrder, ScreenTypes
<1>2. ScreenTypes'
  BY <1>1 DEF ScreenOrder, ScreenTypes, TS!Rows0, TS!Lines
<1>3. OrderInv'
  BY DEF ScreenOrder, OrderInv, InOrder, Complete, LineOf, Columns
<1> QED BY <1>2, <1>3 DEF ScreenOrder

LEMMA CellTypes ==
    /\ Rows * Cols \in Nat /\ 0 \in -1 .. Rows * Cols /\ -1 \in -1 .. Rows * Cols
    /\ TS!Blank \in TS!Lines /\ TS!Empty \in [TS!Rows0 -> TS!Lines]
<1>1. Rows * Cols \in Nat
  BY ScreenAssumption
<1>2. 0 \in -1 .. Rows * Cols /\ -1 \in -1 .. Rows * Cols
  BY <1>1
<1>3. TS!Blank \in TS!Lines
  BY <1>2 DEF TS!Blank, TS!Lines
<1> QED BY <1>1, <1>2, <1>3 DEF TS!Empty, TS!Rows0

LEMMA GridTyped ==
    ASSUME ScreenOrder
    PROVE /\ grids.primary \in [TS!Rows0 -> TS!Lines] /\ TS!Grid \in [TS!Rows0 -> TS!Lines]
          /\ history \in Seq(TS!Lines) /\ Len(history) \in Nat /\ Len(history) <= Scrollback
BY DEF ScreenOrder, ScreenTypes, TS!Grid

\* The history and the grid that a scrolled screen shows
LEMMA ScrolledInOrder ==
    ASSUME ScreenInv, ScreenOrder, NEW a \in Nat, NEW b \in TS!Rows0, NEW n \in Nat
    PROVE /\ TS!Up(TS!Grid, a, b, n) \in [TS!Rows0 -> TS!Lines]
          /\ TS!Pushed(a, b, n) \in Seq(TS!Lines) /\ Len(TS!Pushed(a, b, n)) <= Scrollback
          /\ InOrder(TS!Pushed(a, b, n), IF alt THEN grids.primary ELSE TS!Up(TS!Grid, a, b, n))
          /\ lossless /\ a = 0 /\ b = Rows - 1 /\ Len(TS!Pushed(a, b, n)) < Scrollback =>
                Complete(TS!Pushed(a, b, n), TS!Up(TS!Grid, a, b, n))
<1> DEFINE g == TS!Grid
           k == TS!Pushed(a, b, n)
           m == TS!Up(g, a, b, n)
<1>1. /\ g \in [TS!Rows0 -> TS!Lines] /\ history \in Seq(TS!Lines) /\ Len(history) \in Nat /\ Len(history) <= Scrollback
      /\ (~ alt => g = grids.primary) /\ InOrder(history, grids.primary) /\ alt \in BOOLEAN /\ (lossless => ~ alt)
  BY GridTyped DEF TS!Grid, ScreenOrder, OrderInv, ScreenInv, GridInv
<1>2. m \in [TS!Rows0 -> TS!Lines]
  <2>1. ASSUME NEW r \in TS!Rows0, r \in a .. b, r + n <= b PROVE r + n \in TS!Rows0
    BY <2>1, ScreenAssumption DEF TS!Rows0
  <2> HIDE DEF g
  <2> QED BY <1>1, <2>1, CellTypes DEF TS!Up
<1>3. CASE a = 0 /\ b = Rows - 1 /\ ~ alt
  <2>1. k = Leaving(history, g, n)
    BY <1>3 DEF TS!Pushed, Leaving
  <2>2. /\ k \in Seq(TS!Lines) /\ Len(k) <= Scrollback
        /\ InOrder(history, g) => InOrder(k, TS!Up(g, 0, Rows - 1, n))
        /\ Len(k) < Scrollback =>
              /\ Len(history) <= Len(k)
              /\ Complete(history, g) => Complete(k, TS!Up(g, 0, Rows - 1, n))
    BY <1>1, <2>1, WholeScreen
  <2>3. ASSUME lossless, Len(k) < Scrollback PROVE Complete(k, m)
    <3>1. Len(history) < Scrollback
      BY <1>1, <2>2, <2>3, ScreenAssumption
    <3>2. Complete(history, g)
      BY <1>1, <1>3, <2>3, <3>1 DEF ScreenOrder, OrderInv
    <3> QED BY <1>3, <2>2, <2>3, <3>2
  <2> QED BY <1>1, <1>2, <1>3, <2>2, <2>3
<1>4. CASE ~ (a = 0 /\ b = Rows - 1 /\ ~ alt)
  <2>1. k = history
    BY <1>4 DEF TS!Pushed
  <2>2. ~ alt => InOrder(history, m)
    BY <1>1, UpInOrder
  <2> QED BY <1>1, <1>2, <1>4, <2>1, <2>2
<1> QED BY <1>3, <1>4

LEMMA ScrollStep ==
    ASSUME ScreenInv, ScreenOrder, TS!Turn, TS!Marks, NEW a \in Nat, NEW b \in TS!Rows0, NEW n \in Nat,
           TS!ScrollUp(a, b, n) \/ TS!ScrollDown(a, b, n) \/ TS!Still
    PROVE ScreenOrder'
<1>0. UNCHANGED <<alt, kept>>
  BY DEF TS!Marks
<1>1. CASE TS!ScrollUp(a, b, n)
  <2>1. /\ grids' = TS!With(TS!Up(TS!Grid, a, b, n)) /\ history' = TS!Pushed(a, b, n)
        /\ lossless' = (lossless /\ a = 0 /\ b = Rows - 1)
    BY <1>1 DEF TS!ScrollUp
  <2>2. lossless' \in BOOLEAN /\ (lossless' => lossless /\ a = 0 /\ b = Rows - 1)
    BY <2>1 DEF ScreenOrder, ScreenTypes
  <2> QED BY <1>0, <2>1, <2>2, ScrolledInOrder, GridBecomes
<1>2. CASE TS!ScrollDown(a, b, n)
  <2>1. grids' = TS!With(TS!Down(TS!Grid, a, b, n)) /\ lossless' = FALSE /\ history' = history
    BY <1>2 DEF TS!ScrollDown
  <2>2. TS!Down(TS!Grid, a, b, n) \in [TS!Rows0 -> TS!Lines]
    <3>1. ASSUME NEW r \in TS!Rows0, r \in a .. b, r - n >= a PROVE r - n \in TS!Rows0
      BY <3>1, ScreenAssumption DEF TS!Rows0
    <3> QED BY <3>1, CellTypes, GridTyped DEF TS!Down
  <2> QED BY <1>0, <2>1, <2>2, GridTyped, DownInOrder, DrawnStep
<1>3. CASE TS!Still
  BY <1>0, <1>3, StillOrder DEF TS!Still
<1> QED BY <1>1, <1>2, <1>3

LEMMA OrderInit == TS!Init => ScreenOrder
<1> SUFFICES ASSUME TS!Init PROVE ScreenOrder
  OBVIOUS
<1>0. Rows \in Nat /\ Cols \in Nat /\ Cols >= 1 /\ Rows * Cols \in Nat
  BY ScreenAssumption
<1>1. /\ grids = [primary |-> TS!Numbered, alt |-> TS!Empty] /\ alt = FALSE /\ history = <<>> /\ ops = 0
      /\ kept = TS!Numbered /\ lossless = TRUE
  BY DEF TS!Init
<1>2. ASSUME NEW r \in TS!Rows0, NEW c \in Columns
      PROVE TS!Numbered[r][c] = r * Cols + c + 1 /\ r * Cols \in Nat /\ r * Cols + Cols <= Rows * Cols
  <2>1. TS!Numbered[r][c] = r * Cols + c + 1
    BY DEF TS!Numbered, TS!Rows0, Columns
  <2>2. r \in Nat /\ r + 1 <= Rows
    BY <1>0 DEF TS!Rows0
  <2>3. r * Cols \in Nat
    BY <1>0, <2>2
  <2>4. (r + 1) * Cols <= Rows * Cols
    BY <1>0, <2>2
  <2>5. (r + 1) * Cols = r * Cols + Cols
    BY <1>0, <2>2
  <2> QED BY <2>1, <2>3, <2>4, <2>5
<1>3. ASSUME NEW r \in TS!Rows0, NEW s \in TS!Rows0, r < s PROVE r * Cols + Cols <= s * Cols
  <2>2. r \in Nat /\ s \in Nat /\ r + 1 <= s
    BY <1>0, <1>3 DEF TS!Rows0
  <2>4. (r + 1) * Cols <= s * Cols
    BY <1>0, <2>2
  <2>5. (r + 1) * Cols = r * Cols + Cols
    BY <1>0, <2>2
  <2> QED BY <2>4, <2>5
<1>4. TS!Numbered \in [TS!Rows0 -> TS!Lines]
  <2>1. \A r \in TS!Rows0, c \in Columns : r * Cols + c + 1 \in -1 .. Rows * Cols
    BY <1>0, <1>2 DEF Columns
  <2> QED BY <2>1 DEF TS!Numbered, TS!Lines, TS!Rows0, Columns
<1>5. \A i \in 1 .. Len(<<>>) + Rows : i - 1 \in TS!Rows0 /\ LineOf(<<>>, TS!Numbered, i) = TS!Numbered[i - 1]
  BY <1>0 DEF LineOf, TS!Rows0
<1>6. InOrder(<<>>, TS!Numbered)
  <2> SUFFICES ASSUME NEW i \in 1 .. Len(<<>>) + Rows, NEW j \in 1 .. Len(<<>>) + Rows, NEW c \in Columns, NEW d \in Columns,
                      i < j \/ (i = j /\ c < d)
               PROVE LineOf(<<>>, TS!Numbered, i)[c] < LineOf(<<>>, TS!Numbered, j)[d]
    BY DEF InOrder
  <2> DEFINE r == i - 1
             s == j - 1
  <2>1. r \in TS!Rows0 /\ s \in TS!Rows0 /\ (r < s \/ (r = s /\ c < d)) /\ c \in Nat /\ d \in Nat /\ c + 1 <= Cols
    BY <1>0, <1>5 DEF Columns, TS!Rows0
  <2>2. LineOf(<<>>, TS!Numbered, i)[c] = r * Cols + c + 1 /\ LineOf(<<>>, TS!Numbered, j)[d] = s * Cols + d + 1
    BY <1>2, <1>5, <2>1
  <2>3. r * Cols \in Nat /\ s * Cols \in Nat /\ (r < s => r * Cols + Cols <= s * Cols)
    BY <1>2, <1>3, <2>1
  <2> DEFINE p == r * Cols
             q == s * Cols
  <2>4. (r < s \/ (r = s /\ p = q /\ c < d)) /\ (r < s => p + Cols <= q) /\ p \in Nat /\ q \in Nat
    BY <2>1, <2>3
  <2>5. r \in Int /\ s \in Int
    BY <2>1 DEF TS!Rows0
  <2> HIDE DEF p, q, r, s
  <2>6. p + c + 1 < q + d + 1
    BY <1>0, <2>1, <2>4, <2>5
  <2> QED BY <2>2, <2>6 DEF p, q
<1>7. Complete(<<>>, TS!Numbered)
  <2> SUFFICES ASSUME NEW n \in 1 .. Rows * Cols
               PROVE \E i \in 1 .. Len(<<>>) + Rows, c \in Columns : LineOf(<<>>, TS!Numbered, i)[c] = n
    BY DEF Complete
  <2> DEFINE q == (n - 1) \div Cols
             c == (n - 1) % Cols
  <2>1. q \in Nat /\ c \in 0 .. Cols - 1 /\ n - 1 = q * Cols + c
    BY <1>0
  <2>2. q < Rows
    <3>1. SUFFICES ASSUME ~ (q < Rows) PROVE FALSE
      OBVIOUS
    <3>2. q * Cols >= Rows * Cols
      BY <1>0, <2>1, <3>1
    <3>3. q * Cols \in Int
      BY <1>0, <2>1
    <3> HIDE DEF q, c
    <3> QED BY <1>0, <2>1, <3>2, <3>3
  <2>3. q \in TS!Rows0 /\ c \in Columns /\ q + 1 \in 1 .. Len(<<>>) + Rows /\ (q + 1) - 1 = q
    BY <1>0, <2>1, <2>2 DEF TS!Rows0, Columns
  <2>4. q * Cols \in Int
    BY <1>0, <2>1
  <2> HIDE DEF q, c
  <2>5. LineOf(<<>>, TS!Numbered, q + 1)[c] = q * Cols + c + 1
    BY <1>2, <1>5, <2>3
  <2>6. q * Cols + c + 1 = n
    BY <2>1, <2>4
  <2> QED BY <2>3, <2>5, <2>6
<1>8. ScreenTypes
  <2>1. <<>> \in Seq(TS!Lines) /\ Len(<<>>) = 0 /\ Scrollback \in Nat /\ MaxOps \in Nat
    BY ScreenAssumption
  <2>2. TRUE \in BOOLEAN
    OBVIOUS
  <2> QED BY <1>1, <1>4, <2>1, <2>2, CellTypes DEF ScreenTypes
<1>9. OrderInv
  BY <1>1, <1>6, <1>7 DEF OrderInv
<1> QED BY <1>8, <1>9 DEF ScreenOrder

LEMMA OrderStep == ASSUME ScreenInv, ScreenOrder, TS!Next PROVE ScreenOrder'
<1>0. /\ top \in Nat /\ bot \in TS!Rows0 /\ cy \in Int /\ cx \in Nat /\ cx <= Cols
      /\ Cols \in Nat /\ Rows \in Nat /\ 1 \in Nat /\ Counts \subseteq Nat
  BY ScreenNumbers, ScreenAssumption DEF TS!Rows0
<1>00. TS!Step => TS!Turn
  BY DEF TS!Step
<1>11. CASE TS!Outside
  BY <1>11, StillOrder DEF TS!Outside
<1>1. CASE TS!NewLine \/ TS!NextLine
  <2>1. TS!Turn /\ TS!Marks /\ TS!LineFeed
    BY <1>00, <1>1 DEF TS!NewLine, TS!NextLine
  <2>2. TS!ScrollUp(top, bot, 1) \/ TS!Still
    BY <2>1 DEF TS!LineFeed
  <2> QED BY <1>0, <2>1, <2>2, ScrollStep
<1>2. CASE TS!PutGlyph
  <2> DEFINE wrap == cx >= Cols
             scroll == wrap /\ cy + 1 > bot
             row == IF ~wrap THEN cy ELSE IF scroll THEN bot ELSE cy + 1
             col == IF wrap THEN 0 ELSE cx
             g == IF scroll THEN TS!Up(TS!Grid, top, bot, 1) ELSE TS!Grid
             drawn == [g EXCEPT ![row][col] = TS!Ink]
  <2> SUFFICES ASSUME row \in TS!Rows0 PROVE ScreenOrder'
    BY <1>2, <1>11 DEF TS!PutGlyph
  <2>1. /\ TS!Turn /\ TS!Marks /\ grids' = TS!With(drawn) /\ lossless' = FALSE
        /\ history' = (IF scroll THEN TS!Pushed(top, bot, 1) ELSE history)
    BY <1>00, <1>2 DEF TS!PutGlyph
  <2>2. /\ g \in [TS!Rows0 -> TS!Lines] /\ history' \in Seq(TS!Lines) /\ Len(history') <= Scrollback
        /\ InOrder(history', IF alt THEN grids.primary ELSE g)
    <3>1. CASE scroll
      BY <1>0, <2>1, <3>1, ScrolledInOrder
    <3>2. CASE ~ scroll
      <4>1. InOrder(history, grids.primary) /\ (~ alt => TS!Grid = grids.primary) /\ alt \in BOOLEAN
        BY DEF ScreenOrder, OrderInv, TS!Grid, ScreenInv, GridInv
      <4>2. g = TS!Grid /\ history' = history
        BY <2>1, <3>2
      <4> HIDE DEF g
      <4> QED BY <4>1, <4>2, GridTyped
    <3> QED BY <3>1, <3>2
  <2> HIDE DEF g, row, col
  <2>3. drawn \in [TS!Rows0 -> TS!Lines] /\ \A r \in TS!Rows0, c \in Columns : drawn[r][c] > 0 => drawn[r][c] = g[r][c]
    <3>1. \A r \in TS!Rows0 : g[r] \in TS!Lines
      BY <2>2
    <3>2. ASSUME NEW r \in TS!Rows0
          PROVE drawn[r] \in TS!Lines /\ \A c \in Columns : drawn[r][c] > 0 => drawn[r][c] = g[r][c]
      <4>1. drawn[r] = IF r = row THEN [g[row] EXCEPT ![col] = TS!Ink] ELSE g[r]
        BY <2>2
      <4>2. TS!Ink \in -1 .. Rows * Cols /\ ~ (TS!Ink > 0)
        BY CellTypes DEF TS!Ink
      <4>3. g[r] \in [0 .. Cols - 1 -> -1 .. Rows * Cols]
        BY <3>1 DEF TS!Lines
      <4>4. CASE r = row
        <5>1. [g[row] EXCEPT ![col] = TS!Ink] \in [0 .. Cols - 1 -> -1 .. Rows * Cols]
          BY <4>2, <4>3, <4>4
        <5>2. \A c \in 0 .. Cols - 1 : [g[row] EXCEPT ![col] = TS!Ink][c] = IF c = col THEN TS!Ink ELSE g[row][c]
          BY <4>3, <4>4
        <5> HIDE DEF drawn
        <5> QED BY <4>1, <4>2, <4>4, <5>1, <5>2 DEF TS!Lines, Columns
      <4>5. CASE r # row
        BY <3>1, <4>1, <4>5
      <4> QED BY <4>4, <4>5
    <3>3. drawn \in [TS!Rows0 -> TS!Lines]
      <4>1. DOMAIN drawn = TS!Rows0 /\ drawn = [r \in TS!Rows0 |-> drawn[r]]
        BY <2>2
      <4> HIDE DEF drawn
      <4> QED BY <3>2, <4>1
    <3> QED BY <3>2, <3>3
  <2> HIDE DEF drawn
  <2>4. InOrder(history', IF alt THEN grids.primary ELSE drawn)
    <3>1. CASE alt
      BY <2>2, <3>1
    <3>2. CASE ~ alt
      <4>1. Len(history') \in Nat /\ InOrder(history', g)
        BY <2>2, <3>2
      <4>2. InOrder(history', drawn)
        BY <2>3, <4>1, CellsFade
      <4> QED BY <3>2, <4>2
    <3> QED BY <3>1, <3>2
  <2>5. UNCHANGED <<alt, kept>>
    BY <2>1 DEF TS!Marks
  <2>6. lossless' \in BOOLEAN
    BY <2>1
  <2> QED BY <2>1, <2>2, <2>3, <2>4, <2>5, <2>6, GridBecomes
<1>3. CASE TS!Save \/ TS!Restore \/ TS!Output \/ (\E c \in 0 .. Cols : TS!Control(c)) \/ (\E n, m \in Counts : TS!Cursor(n, m))
            \/ (\E n \in Counts : TS!CursorUp(n)) \/ (\E a, b \in 0 .. Rows : TS!Margins(a, b)) \/ (\E b \in BOOLEAN : TS!View(b))
  <2>1. TS!Turn /\ UNCHANGED <<grids, history, lossless, alt, kept>>
    BY <1>00, <1>3 DEF TS!Save, TS!Restore, TS!Output, TS!Control, TS!Cursor, TS!CursorUp, TS!StepLeaving, TS!Margins,
                       TS!View, TS!Still, TS!Marks
  <2> QED BY <2>1, StillOrder
<1>4. CASE TS!ReverseIndex \/ TS!Index
  <2>1. TS!Turn /\ TS!Marks /\ (TS!ScrollDown(top, bot, 1) \/ TS!ScrollUp(top, bot, 1) \/ TS!Still)
    BY <1>4 DEF TS!ReverseIndex, TS!Index, TS!StepLeaving
  <2> QED BY <1>0, <2>1, ScrollStep
<1>5. CASE TS!Reset
  <2>1. TS!Turn /\ grids' = TS!With(TS!Empty) /\ lossless' = FALSE /\ history' = history /\ UNCHANGED <<alt, kept>>
    BY <1>00, <1>5 DEF TS!Reset, TS!Marks
  <2>2. \A r \in TS!Rows0, c \in Columns : ~ (TS!Empty[r][c] > 0)
    BY DEF TS!Empty, TS!Blank, TS!Rows0, Columns
  <2>3. InOrder(history, TS!Grid) => InOrder(history', TS!Empty)
    BY <2>1, <2>2, GridTyped, CellsFade
  <2> QED BY <2>1, <2>3, CellTypes, DrawnStep
<1>6. ASSUME NEW n \in Counts, TS!InsertLines(n) \/ TS!DeleteLines(n) PROVE ScreenOrder'
  <2>1. TS!Turn /\ TS!Marks /\ TS!Inside /\ (TS!ScrollDown(cy, bot, n) \/ TS!ScrollUp(cy, bot, n))
    BY <1>00, <1>6 DEF TS!InsertLines, TS!DeleteLines
  <2>2. cy \in Nat
    BY <1>0, <2>1 DEF TS!Inside, TS!Rows0
  <2> QED BY <1>0, <2>1, <2>2, ScrollStep
<1>7. ASSUME NEW n \in Counts, NEW up \in BOOLEAN, TS!ScrollBy(n, up) PROVE ScreenOrder'
  <2>1. TS!Turn /\ TS!Marks /\ (TS!ScrollDown(top, bot, n) \/ TS!ScrollUp(top, bot, n))
    BY <1>00, <1>7 DEF TS!ScrollBy
  <2> QED BY <1>0, <2>1, ScrollStep
<1>8. ASSUME NEW n \in Counts, NEW insert \in BOOLEAN, TS!ShiftCells(n, insert) PROVE ScreenOrder'
  <2> DEFINE m == TS!Shifted(n, insert)
             g == TS!Grid
             k == TS!Least(n, Cols - cx)
  <2> SUFFICES ASSUME ~ (cy \notin TS!Rows0 /\ cx < Cols) PROVE ScreenOrder'
    BY <1>8, <1>11 DEF TS!ShiftCells
  <2>1. TS!Turn /\ grids' = TS!With(m) /\ lossless' = FALSE /\ history' = history /\ UNCHANGED <<alt, kept>>
    BY <1>00, <1>8 DEF TS!ShiftCells, TS!Marks
  <2>2. g \in [TS!Rows0 -> TS!Lines] /\ Len(history) \in Nat /\ k \in Nat
    BY <1>0, GridTyped DEF TS!Least
  <2> DEFINE moved == [c \in 0 .. Cols - 1 |->
                          IF c < cx THEN g[cy][c]
                          ELSE IF insert THEN IF c < cx + k THEN 0 ELSE g[cy][c - k]
                          ELSE IF c + k < Cols THEN g[cy][c + k] ELSE 0]
  <2>3. m = [g EXCEPT ![cy] = moved]
    BY DEF TS!Shifted
  <2> HIDE DEF g, k, m
  <2>8. CASE cy \notin TS!Rows0
    <3>1. m = g
      BY <2>2, <2>3, <2>8
    <3> QED BY <2>1, <2>2, <3>1, DrawnStep DEF g
  <2> SUFFICES ASSUME cy \in TS!Rows0 PROVE ScreenOrder'
    BY <2>8
  <2>4. /\ \A r \in TS!Rows0 \ {cy} : m[r] = g[r]
        /\ m[cy] = moved
    BY <1>0, <2>2, <2>3
  <2>5. moved \in TS!Lines
    <3>1. g[cy] \in [0 .. Cols - 1 -> -1 .. Rows * Cols]
      BY <1>0, <2>2 DEF TS!Lines
    <3>2. ASSUME NEW c \in 0 .. Cols - 1 PROVE moved[c] \in -1 .. Rows * Cols
      <4>1. ~ (c < cx + k) => c - k \in 0 .. Cols - 1
        BY <1>0, <2>2
      <4>2. c + k < Cols => c + k \in 0 .. Cols - 1
        BY <1>0, <2>2
      <4> QED BY <3>1, <4>1, <4>2, CellTypes
    <3> QED BY <3>2 DEF TS!Lines
  <2>6. m \in [TS!Rows0 -> TS!Lines]
    <3> HIDE DEF moved
    <3> QED BY <1>0, <2>2, <2>3, <2>5
  <2>7. ASSUME InOrder(history, g) PROVE InOrder(history, m)
    <3>1. \A c \in Columns : m[cy][c] =
              IF c < cx THEN g[cy][c]
              ELSE IF insert THEN IF c < cx + k THEN 0 ELSE g[cy][c - k]
              ELSE IF c + k < Cols THEN g[cy][c + k] ELSE 0
      BY <2>4 DEF Columns
    <3> HIDE DEF moved
    <3>2. cx \in Nat /\ cy \in TS!Rows0 /\ k \in Nat /\ Len(history) \in Nat /\ \A r \in TS!Rows0 \ {cy} : m[r] = g[r]
      BY <1>0, <2>2, <2>4
    <3> QED BY <2>7, <3>1, <3>2, ShiftInOrder
  <2> HIDE DEF moved
  <2> QED BY <2>1, <2>6, <2>7, DrawnStep DEF g
<1>9. ASSUME NEW b \in BOOLEAN, TS!Switch(b) PROVE ScreenOrder'
  <2>1. /\ TS!Turn /\ b # alt /\ alt' = b /\ lossless' = FALSE /\ history' = history
        /\ IF b THEN grids' = [grids EXCEPT !.alt = TS!Empty] /\ kept' = grids.primary ELSE UNCHANGED <<grids, kept>>
    BY <1>00, <1>9 DEF TS!Switch
  <2>2. ops' \in 0 .. MaxOps
    BY <2>1, ScreenAssumption DEF TS!Turn, ScreenOrder, ScreenTypes
  <2>3. PICK p \in [TS!Rows0 -> TS!Lines], q \in [TS!Rows0 -> TS!Lines] : grids = [primary |-> p, alt |-> q]
    BY DEF ScreenOrder, ScreenTypes
  <2>4. \E e \in [TS!Rows0 -> TS!Lines] : grids' = [primary |-> p, alt |-> e]
    BY <2>1, <2>3, CellTypes
  <2>5. grids'.primary = grids.primary /\ grids' \in [primary : [TS!Rows0 -> TS!Lines], alt : [TS!Rows0 -> TS!Lines]]
        /\ kept' \in [TS!Rows0 -> TS!Lines]
    BY <2>1, <2>3, <2>4 DEF ScreenOrder, ScreenTypes
  <2>6. lossless' \in BOOLEAN
    BY <2>1
  <2>7. ScreenTypes'
    BY <2>1, <2>2, <2>5, <2>6 DEF ScreenOrder, ScreenTypes, TS!Rows0, TS!Lines
  <2>8. OrderInv'
    BY <2>1, <2>5 DEF ScreenOrder, OrderInv, InOrder, LineOf, Columns
  <2> QED BY <2>7, <2>8 DEF ScreenOrder
<1>10. ASSUME NEW k \in {0, 1, 2, 3}, NEW line \in BOOLEAN, TS!Erase(k, line) PROVE ScreenOrder'
  <2> SUFFICES ASSUME TS!Reaches(k, line) PROVE ScreenOrder'
    BY <1>10, <1>11 DEF TS!Erase
  <2>1. PICK W : grids' = TS!Wiped(W)
    BY <1>10 DEF TS!Erase
  <2> DEFINE g == TS!Grid
             m == [r \in TS!Rows0 |-> [c \in 0 .. Cols - 1 |-> IF <<r, c>> \in W THEN 0 ELSE g[r][c]]]
  <2>2. /\ TS!Turn /\ grids' = TS!With(m) /\ lossless' = FALSE /\ history' \in {history, <<>>} /\ UNCHANGED <<alt, kept>>
    BY <1>00, <1>10, <2>1 DEF TS!Erase, TS!Wiped, TS!Marks
  <2> HIDE DEF g
  <2>3. g \in [TS!Rows0 -> [0 .. Cols - 1 -> -1 .. Rows * Cols]]
    BY GridTyped DEF g, TS!Lines
  <2>4. m \in [TS!Rows0 -> TS!Lines]
    BY <2>3, CellTypes DEF TS!Lines
  <2>5. \A r \in TS!Rows0, c \in Columns : m[r][c] > 0 => m[r][c] = g[r][c]
    BY DEF Columns
  <2> HIDE DEF m
  <2>6. InOrder(history, g) => InOrder(history', m)
    BY <2>2, <2>5, GridTyped, CellsFade
  <2> QED BY <2>2, <2>4, <2>6, DrawnStep DEF g
<1> QED BY <1>1, <1>2, <1>3, <1>4, <1>5, <1>6, <1>7, <1>8, <1>9, <1>10 DEF TS!Next

LEMMA OrderStays == ASSUME ScreenOrder, UNCHANGED screenVars PROVE ScreenOrder'
BY DEF ScreenOrder, ScreenTypes, OrderInv, InOrder, Complete, LineOf, Columns, screenVars, TS!screenVars, TS!Rows0, TS!Lines

LEMMA ScreenIsRight ==
    ASSUME ScreenInv, ScreenOrder
    PROVE TS!TypeOK /\ TS!CellsInOrder /\ TS!HistoryComplete
<1>1. TS!CellsInOrder /\ TS!HistoryComplete
  BY OrderedIsInOrder DEF ScreenOrder, OrderInv, TS!HistoryComplete
<1>2. /\ cy \in Int /\ top \in Nat /\ bot \in TS!Rows0 /\ cx \in 0 .. Cols /\ saved \in (0 .. Cols) \X Int /\ view \in Nat
      /\ {lossless, stray, wild} \subseteq BOOLEAN
  BY DEF ScreenInv, CursorInv, TS!CursorInGrid, HistoryInv, IsSequence, ScreenOrder, ScreenTypes
<1>3. TS!TypeOK
  BY <1>2 DEF ScreenOrder, ScreenTypes, ScreenInv, GridInv, TS!TypeOK
<1> QED BY <1>1, <1>3

-----------------------------------------------------------------------------
(* The shell of term *)

Ascending(s) == \A i, j \in 1 .. Len(s) : i < j => s[i] < s[j]

SessionInv ==
    /\ turn \in {"start", "drain", "flush", "reap", "draw", "end", "done"}
    /\ turn = "start" => shell = "none" /\ pty = "none"
    /\ TE!SessionClosed
    /\ typed \in Nat /\ waiting \in Seq(Nat) /\ taken \in Seq(Nat)
    /\ Ascending(taken \o waiting)
    /\ \A i \in 1 .. Len(taken \o waiting) : (taken \o waiting)[i] <= typed

\* What is taken from the end leaves the rest in order.
LEMMA PrefixAscends ==
    ASSUME NEW s \in Seq(Nat), NEW n \in 0 .. Len(s), NEW t \in Seq(Nat), Ascending(t \o s)
    PROVE /\ t \o SubSeq(s, 1, n) \in Seq(Nat) /\ Ascending(t \o SubSeq(s, 1, n))
          /\ \A i \in 1 .. Len(t \o SubSeq(s, 1, n)) : i \in 1 .. Len(t \o s) /\ (t \o SubSeq(s, 1, n))[i] = (t \o s)[i]
<1> DEFINE p == SubSeq(s, 1, n)
<1>1. p \in Seq(Nat) /\ Len(p) = n /\ \A i \in 1 .. n : p[i] = s[i]
  <2>1. n \in Int /\ Len(s) \in Nat /\ \A i \in 1 .. n : s[i] \in Nat
    OBVIOUS
  <2>2. /\ p \in Seq(Nat) /\ Len(p) = (IF 1 <= n THEN n - 1 + 1 ELSE 0)
        /\ \A i \in 1 .. n - 1 + 1 : p[i] = s[1 + i - 1]
    BY <2>1, SubSeqProperties
  <2> HIDE DEF p
  <2>3. n - 1 + 1 = n /\ \A i \in 1 .. n : 1 + i - 1 = i
    BY <2>1
  <2>4. Len(p) = n
    BY <2>1, <2>2
  <2> QED BY <2>2, <2>3, <2>4
<1> HIDE DEF p
<1>2. /\ t \o p \in Seq(Nat) /\ Len(t \o p) = Len(t) + n /\ Len(t \o s) = Len(t) + Len(s)
      /\ \A i \in 1 .. Len(t) + n : (t \o p)[i] = IF i <= Len(t) THEN t[i] ELSE p[i - Len(t)]
      /\ \A i \in 1 .. Len(t) + Len(s) : (t \o s)[i] = IF i <= Len(t) THEN t[i] ELSE s[i - Len(t)]
  <2>1. p \in Seq(Nat) /\ Len(p) = n
    BY <1>1
  <2>2. /\ t \o p \in Seq(Nat) /\ Len(t \o p) = Len(t) + Len(p)
        /\ \A i \in 1 .. Len(t) + Len(p) : (t \o p)[i] = IF i <= Len(t) THEN t[i] ELSE p[i - Len(t)]
    BY <2>1, ConcatProperties
  <2>3. /\ Len(t \o s) = Len(t) + Len(s)
        /\ \A i \in 1 .. Len(t) + Len(s) : (t \o s)[i] = IF i <= Len(t) THEN t[i] ELSE s[i - Len(t)]
    BY ConcatProperties
  <2> QED BY <2>1, <2>2, <2>3
<1>3. \A i \in 1 .. Len(t \o p) : i \in 1 .. Len(t \o s) /\ (t \o p)[i] = (t \o s)[i]
  BY <1>1, <1>2
<1>4. Ascending(t \o p)
  BY <1>3 DEF Ascending
<1> QED BY <1>2, <1>3, <1>4 DEF p

LEMMA SessionInit == TE!Init => SessionInv
BY DEF TE!Init, SessionInv, TE!SessionClosed, Ascending

LEMMA SessionStep == ASSUME SessionInv, TE!Next PROVE SessionInv'
<1> USE DEF TE!SessionClosed
<1>1. CASE TE!Spawn \/ TE!Drained \/ TE!Reap \/ TE!End \/ TE!ShellEnds \/ TE!ShellDetaches
           \/ (\E a, b \in BOOLEAN : TE!Draw(a, b)) \/ (\E b \in ShellOutput : TE!Read(b))
  <2>1. UNCHANGED <<typed, waiting, taken>>
    BY <1>1 DEF TE!Spawn, TE!Drained, TE!Reap, TE!End, TE!ShellEnds, TE!ShellDetaches, TE!Draw, TE!Read, TE!KeysKept
  <2>2. /\ turn' \in {"start", "drain", "flush", "reap", "draw", "end", "done"}
        /\ turn' = "start" => shell' = "none" /\ pty' = "none"
        /\ turn' = "done" => shell' # "runs" /\ pty' # "open"
    BY <1>1 DEF SessionInv, TE!Spawn, TE!Drained, TE!Reap, TE!End, TE!ShellEnds, TE!ShellDetaches, TE!Draw, TE!Read
  <2> QED BY <2>1, <2>2 DEF SessionInv, Ascending
<1>2. CASE TE!Flush
  <2>1. turn' = "reap" /\ typed' = typed
    BY <1>2 DEF TE!Flush
  <2>2. CASE UNCHANGED <<waiting, taken>>
    BY <2>1, <2>2 DEF SessionInv, Ascending
  <2>3. ASSUME NEW n \in 0 .. Len(waiting), waiting' = <<>>, taken' = taken \o SubSeq(waiting, 1, n) PROVE SessionInv'
    <3>1. /\ taken' \in Seq(Nat) /\ Ascending(taken')
          /\ \A i \in 1 .. Len(taken') : i \in 1 .. Len(taken \o waiting) /\ taken'[i] = (taken \o waiting)[i]
      BY <2>3, PrefixAscends DEF SessionInv
    <3>2. taken' \o waiting' = taken' /\ waiting' \in Seq(Nat)
      BY <2>3, <3>1
    <3>3. Ascending(taken \o waiting)'
      BY <3>1, <3>2 DEF Ascending
    <3>4. \A i \in 1 .. Len(taken' \o waiting') : (taken' \o waiting')[i] <= typed'
      BY <2>1, <3>1, <3>2 DEF SessionInv
    <3> QED BY <2>1, <3>1, <3>2, <3>3, <3>4 DEF SessionInv
  <2> QED BY <1>2, <2>2, <2>3 DEF TE!Flush
<1>3. CASE TE!Type
  <2>1. turn = "draw" /\ turn' = turn /\ typed' = typed + 1 /\ taken' = taken
    BY <1>3 DEF TE!Type
  <2>2. typed' \in Nat /\ typed < typed'
    BY <2>1 DEF SessionInv
  <2>3. CASE waiting' = waiting
    BY <2>1, <2>2, <2>3 DEF SessionInv, Ascending
  <2>4. CASE waiting' = Append(waiting, typed + 1)
    <3> DEFINE old == taken \o waiting
               new == taken \o Append(waiting, typed + 1)
    <3>1. /\ old \in Seq(Nat) /\ new \in Seq(Nat) /\ Len(new) = Len(old) + 1 /\ new[Len(new)] = typed + 1
          /\ \A i \in 1 .. Len(old) : new[i] = old[i]
      BY <2>2 DEF SessionInv
    <3>2. Ascending(old) /\ \A i \in 1 .. Len(old) : old[i] <= typed
      BY DEF SessionInv
    <3>3. Append(waiting, typed + 1) \in Seq(Nat)
      BY DEF SessionInv
    <3> HIDE DEF old, new
    <3>4. Ascending(new) /\ \A i \in 1 .. Len(new) : new[i] <= typed + 1
      <4>1. Len(old) \in Nat /\ (\A i \in 1 .. Len(old) : old[i] \in Nat) /\ typed \in Nat
        BY <3>1 DEF SessionInv
      <4>2. \A i \in 1 .. Len(new) : i \in 1 .. Len(old) \/ i = Len(old) + 1
        BY <3>1, <4>1
      <4>3. ASSUME NEW i \in 1 .. Len(new) PROVE new[i] <= typed + 1
        <5>1. CASE i \in 1 .. Len(old)
          <6>1. new[i] = old[i] /\ old[i] <= typed /\ old[i] \in Nat
            BY <3>1, <3>2, <4>1, <5>1
          <6> QED BY <4>1, <6>1
        <5>2. CASE i = Len(old) + 1
          BY <3>1, <4>1, <5>2
        <5> QED BY <4>2, <5>1, <5>2
      <4>4. ASSUME NEW i \in 1 .. Len(new), NEW j \in 1 .. Len(new), i < j PROVE new[i] < new[j]
        <5>1. i \in 1 .. Len(old)
          BY <3>1, <4>1, <4>4
        <5>2. CASE j \in 1 .. Len(old)
          BY <3>1, <3>2, <4>4, <5>1, <5>2 DEF Ascending
        <5>3. CASE j = Len(old) + 1
          <6>1. new[i] = old[i] /\ old[i] <= typed /\ old[i] \in Nat
            BY <3>1, <3>2, <4>1, <5>1
          <6>2. new[j] = typed + 1
            BY <3>1, <5>3
          <6> QED BY <4>1, <6>1, <6>2
        <5> QED BY <4>2, <5>2, <5>3
      <4> QED BY <4>3, <4>4 DEF Ascending
    <3>5. (taken \o waiting)' = new
      BY <2>1, <2>4 DEF new
    <3>6. Ascending(taken \o waiting)'
      BY <3>4, <3>5 DEF Ascending
    <3> QED BY <2>1, <2>2, <2>4, <3>3, <3>4, <3>5, <3>6 DEF SessionInv
  <2> QED BY <1>3, <2>3, <2>4 DEF TE!Type
<1> QED BY <1>1, <1>2, <1>3 DEF TE!Next, TE!SessionStep

LEMMA SessionStays == ASSUME SessionInv, UNCHANGED sessionVars PROVE SessionInv'
BY DEF SessionInv, sessionVars, TE!SessionClosed, Ascending

LEMMA SessionIsSafe == ASSUME SessionInv PROVE TE!SessionClosed /\ TE!KeysInOrder
BY DEF SessionInv, TE!KeysInOrder, Ascending

-----------------------------------------------------------------------------
(* A download *)

FetchInv ==
    /\ doing \in {"args", "file", "robots", "resolve", "try", "handshake", "send", "head", "chunk", "rest", "drain",
                  "answered", "rules", "end", "done"}
    /\ wants \in {"robots", "page"} /\ descriptors \subseteq {"out", "tmp", "conn"}
    /\ doing \in {"args", "file"} => descriptors = {}
    /\ doing \in {"args", "file", "robots", "rules"} => wants = "robots"
    /\ doing \in {"robots", "rules", "end"} => descriptors \subseteq {"out"}
    /\ NF!AllClosed
    \* The page is only requested for when it is wanted, and not after robots.txt has denied it.
    /\ wants = "robots" => "page" \notin requested
    /\ verdict = "denied" => doing \in {"end", "done"} /\ "page" \notin requested

LEMMA FetchInit == NF!Init => FetchInv
BY DEF NF!Init, FetchInv, NF!AllClosed

\* What any step that may give up does to the rest of the invariant.
LEMMA GivesUp ==
    ASSUME FetchInv, NF!GiveUp, UNCHANGED <<requested, verdict>>, doing \notin {"args", "file", "end", "done", "rules"}
    PROVE FetchInv'
BY DEF FetchInv, NF!GiveUp, NF!AllClosed

LEMMA FetchStep == ASSUME FetchInv, NF!Next PROVE FetchInv'
<1> USE DEF NF!AllClosed, NF!Request, NF!Answer, NF!Reading
<1>1. CASE NF!Args \/ NF!OpenFile \/ NF!Robots
  <2>1. CASE NF!Args
    <3>1. doing = "args" /\ doing' \in {"file", "done"} /\ UNCHANGED <<wants, descriptors, requested, verdict>>
      BY <2>1 DEF NF!Args
    <3> QED BY <3>1 DEF FetchInv
  <2>2. CASE NF!OpenFile
    <3>1. /\ doing = "file" /\ UNCHANGED <<wants, requested, verdict>>
          /\ \/ doing' = "robots" /\ descriptors' \subseteq {"out"}
             \/ doing' = "done" /\ descriptors' = descriptors
      BY <2>2 DEF NF!OpenFile
    <3> QED BY <3>1 DEF FetchInv
  <2>3. CASE NF!Robots
    <3>1. /\ doing = "robots" /\ doing' = "resolve" /\ UNCHANGED <<requested, verdict>>
          /\ \/ wants' = "page" /\ descriptors' = descriptors
             \/ wants' = "robots" /\ descriptors' = descriptors \cup {"tmp"}
      BY <2>3 DEF NF!Robots
    <3> QED BY <3>1 DEF FetchInv
  <2> QED BY <1>1, <2>1, <2>2, <2>3
<1>2. CASE NF!Resolve \/ NF!End
  BY <1>2 DEF FetchInv, NF!Resolve, NF!End
<1>3. CASE NF!NoHead
  BY <1>3, GivesUp DEF NF!NoHead
<1>4. ASSUME NEW b \in BOOLEAN, NF!TryAddress(b) PROVE FetchInv'
  <2>1. doing = "try" /\ UNCHANGED <<requested, verdict>>
    BY <1>4 DEF NF!TryAddress
  <2>2. CASE NF!GiveUp
    BY <2>1, <2>2, GivesUp
  <2>3. CASE ~ NF!GiveUp
    <3>1. addresses # 0
      BY <1>4, <2>3 DEF NF!TryAddress
    <3>2. CASE b
      <4>1. wants' = wants /\ doing' \in {"handshake", "send"} /\ descriptors' = descriptors \cup {"conn"}
        BY <1>4, <3>1, <3>2 DEF NF!TryAddress
      <4> QED BY <2>1, <4>1 DEF FetchInv
    <3>3. CASE ~ b
      BY <1>4, <2>1, <3>1, <3>3 DEF FetchInv, NF!TryAddress
    <3> QED BY <3>2, <3>3
  <2> QED BY <2>2, <2>3
<1>5. ASSUME NEW b \in BOOLEAN, NF!Handshake(b) PROVE FetchInv'
  <2>1. doing = "handshake" /\ UNCHANGED <<requested, verdict>>
    BY <1>5 DEF NF!Handshake
  <2>2. CASE NF!GiveUp
    BY <2>1, <2>2, GivesUp
  <2>3. CASE ~ NF!GiveUp
    BY <1>5, <2>1, <2>3 DEF FetchInv, NF!Handshake
  <2> QED BY <2>2, <2>3
<1>6. ASSUME NEW a, NEW cut, NF!Send(a, cut) PROVE FetchInv'
  <2>1. doing = "send" /\ verdict' = verdict
    BY <1>6 DEF NF!Send
  <2>2. CASE NF!GiveUp /\ requested' = requested
    BY <2>1, <2>2, GivesUp
  <2>3. CASE requested' = requested \cup {wants} /\ doing' = "head" /\ UNCHANGED <<wants, descriptors>>
    BY <2>1, <2>3 DEF FetchInv
  <2> QED BY <1>6, <2>2, <2>3 DEF NF!Send
<1>7. ASSUME NEW k, NF!ReadHead(k) PROVE FetchInv'
  <2>1. doing = "head" /\ doing' \in {"chunk", "rest", "drain"} /\ UNCHANGED <<wants, descriptors, requested, verdict>>
    BY <1>7 DEF NF!ReadHead
  <2> QED BY <2>1 DEF FetchInv
<1>8. CASE NF!ReadChunk
  <2>1. /\ doing = "chunk" /\ UNCHANGED <<requested, verdict>>
        /\ NF!GiveUp \/ (doing' \in {"chunk", "answered"} /\ UNCHANGED <<wants, descriptors>>)
    BY <1>8 DEF NF!ReadChunk, NF!Succeeded
  <2>2. CASE NF!GiveUp
    BY <2>1, <2>2, GivesUp
  <2>3. CASE doing' \in {"chunk", "answered"} /\ UNCHANGED <<wants, descriptors>>
    BY <2>1, <2>3 DEF FetchInv
  <2> QED BY <2>1, <2>2, <2>3
<1>9. ASSUME NEW k, NF!ReadRest(k) PROVE FetchInv'
  <2>1. /\ doing = "rest" /\ UNCHANGED <<requested, verdict>>
        /\ NF!GiveUp \/ (doing' \in {"rest", "answered"} /\ UNCHANGED <<wants, descriptors>>)
    BY <1>9 DEF NF!ReadRest, NF!Succeeded
  <2>2. CASE NF!GiveUp
    BY <2>1, <2>2, GivesUp
  <2>3. CASE doing' \in {"rest", "answered"} /\ UNCHANGED <<wants, descriptors>>
    BY <2>1, <2>3 DEF FetchInv
  <2> QED BY <2>1, <2>2, <2>3
<1>10. ASSUME NEW k, NF!ReadToEnd(k) PROVE FetchInv'
  <2>1. /\ doing = "drain" /\ UNCHANGED <<requested, verdict>>
        /\ doing' \in {"drain", "answered"} /\ UNCHANGED <<wants, descriptors>>
    BY <1>10 DEF NF!ReadToEnd, NF!Succeeded
  <2> QED BY <2>1 DEF FetchInv
<1>11. ASSUME NEW status, NF!Answered(status) PROVE FetchInv'
  <2>1. /\ doing = "answered" /\ UNCHANGED <<requested, verdict>> /\ descriptors' = descriptors \ {"tmp", "conn"}
        /\ \/ wants = "page" /\ doing' = "end" /\ wants' = wants
           \/ wants # "page" /\ doing' = "rules" /\ wants' = wants
           \/ doing' = "resolve" /\ wants' = "page"
    BY <1>11 DEF NF!Answered
  <2> QED BY <2>1 DEF FetchInv
<1>12. CASE NF!Obey
  BY <1>12 DEF FetchInv, NF!Obey
<1>13. ASSUME NEW l, NF!ReadLine(l) PROVE FetchInv'
  BY <1>13 DEF FetchInv, NF!ReadLine
<1> QED BY <1>1, <1>2, <1>3, <1>4, <1>5, <1>6, <1>7, <1>8, <1>9, <1>10, <1>11, <1>12, <1>13 DEF NF!Next, NF!FetchStep

LEMMA FetchStays == ASSUME FetchInv, UNCHANGED fetchVars PROVE FetchInv'
BY DEF FetchInv, fetchVars, NF!AllClosed

LEMMA FetchIsSafe == ASSUME FetchInv PROVE NF!RobotsHonoured /\ NF!AllClosed
BY DEF FetchInv, NF!RobotsHonoured

-----------------------------------------------------------------------------
(* What a download writes and how it is judged *)

Bytes == {"byte"} \X Nat
Tokens == {"head", "size", "byte", "line"} \X Nat
\* n bytes of a body behind the first o
Stretch(o, n) == [i \in 1 .. n |-> NF!Byte(o + i)]

Adds(a, b, c) == a + b = c
\* What lies behind the first a of b
Piece(s, a, b) == SubSeq(s, a + 1, b)
IsPiece(u, s, a, k) == Len(u) = k /\ \A i \in 1 .. k : u[i] = s[a + i]
LEMMA PieceOf ==
    ASSUME NEW T, NEW s \in Seq(T), NEW a \in Nat, NEW b \in Nat, NEW k \in Nat, Adds(a, k, b), b <= Len(s)
    PROVE Piece(s, a, b) \in Seq(T) /\ IsPiece(Piece(s, a, b), s, a, k)
<1>3. b = a + k
  BY DEF Adds
<1>1. ASSUME NEW i \in 1 .. k PROVE Piece(s, a, b)[i] = s[a + i]
  BY <1>3 DEF Piece
<1>2. Piece(s, a, b) \in Seq(T) /\ Len(Piece(s, a, b)) = k
  BY <1>3 DEF Piece
<1> QED BY <1>1, <1>2 DEF IsPiece

LEMMA StretchTyped ==
    ASSUME NEW o \in Nat, NEW n \in Nat
    PROVE /\ Stretch(o, n) \in Seq(Bytes) /\ Stretch(o, n) \in Seq(Tokens) /\ Len(Stretch(o, n)) = n
          /\ \A i \in 1 .. n : Stretch(o, n)[i] = NF!Byte(o + i)
          /\ NF!Body(n) = Stretch(0, n) /\ Stretch(o, 0) = <<>>
<1>1. \A i \in 1 .. n : NF!Byte(o + i) \in Bytes /\ NF!Byte(o + i) \in Tokens
  BY DEF NF!Byte, Bytes, Tokens
<1>2. /\ Stretch(o, n) \in Seq(Bytes) /\ Stretch(o, n) \in Seq(Tokens) /\ Len(Stretch(o, n)) = n
      /\ \A i \in 1 .. n : Stretch(o, n)[i] = NF!Byte(o + i)
  BY <1>1 DEF Stretch
<1>3. NF!Body(n) = Stretch(0, n)
  <2>1. \A i \in 1 .. n : 0 + i = i
    OBVIOUS
  <2> QED BY <2>1 DEF NF!Body, Stretch
<1>4. Stretch(o, 0) = <<>>
  BY DEF Stretch
<1> QED BY <1>2, <1>3, <1>4

LEMMA StretchPiece ==
    ASSUME NEW o \in Nat, NEW n \in Nat, NEW a \in Nat, NEW b \in Nat, NEW c \in Nat, NEW k \in Nat,
           Adds(o, a, c), Adds(a, k, b), b <= n
    PROVE Piece(Stretch(o, n), a, b) = Stretch(c, k)
<1> DEFINE s == Stretch(o, n)
           t == Stretch(c, k)
           u == Piece(s, a, b)
<1>1. \A i \in 1 .. k : a + i \in 1 .. n /\ o + (a + i) = c + i
  <2>1. c = o + a /\ b = a + k
    BY DEF Adds
  <2> QED BY <2>1
<1>2. s \in Seq(Tokens) /\ Len(s) = n /\ \A i \in 1 .. n : s[i] = NF!Byte(o + i)
  BY StretchTyped
<1>3. t \in Seq(Tokens) /\ Len(t) = k /\ \A i \in 1 .. k : t[i] = NF!Byte(c + i)
  BY StretchTyped
<1> HIDE DEF s, t
<1>5. u \in Seq(Tokens) /\ Len(u) = k /\ \A i \in 1 .. k : u[i] = s[a + i]
  <2>1. b <= Len(s)
    BY <1>2
  <2>2. s \in Seq(Tokens)
    BY <1>2
  <2>3. u \in Seq(Tokens) /\ IsPiece(u, s, a, k)
    BY <2>1, <2>2, PieceOf
  <2> QED BY <2>3 DEF IsPiece
<1> HIDE DEF u
<1>6. ASSUME NEW i \in 1 .. k PROVE u[i] = t[i]
  <2>1. s[a + i] = NF!Byte(o + (a + i))
    BY <1>1, <1>2
  <2> QED BY <1>1, <1>3, <1>5, <2>1
<1>7. u = t
  BY <1>3, <1>5, <1>6, SeqEqual
<1> QED BY <1>7 DEF s, t, u

LEMMA BodyPiece ==
    ASSUME NEW n \in Nat, NEW a \in Nat, NEW b \in Nat, NEW k \in Nat, Adds(a, k, b), b <= n
    PROVE Piece(NF!Body(n), a, b) = Stretch(a, k)
<1>1. PICK o \in Nat : o = 0
  OBVIOUS
<1>2. Adds(o, a, a)
  BY <1>1 DEF Adds
<1>3. Piece(Stretch(o, n), a, b) = Stretch(a, k)
  BY <1>2, StretchPiece
<1>4. NF!Body(n) = Stretch(o, n)
  BY <1>1, StretchTyped
<1> QED BY <1>3, <1>4

LEMMA StretchJoin ==
    ASSUME NEW o \in Nat, NEW n \in Nat, NEW k \in Nat, NEW c \in Nat, NEW m \in Nat, Adds(o, n, c), Adds(n, k, m)
    PROVE Stretch(o, n) \o Stretch(c, k) = Stretch(o, m)
<1> DEFINE s == Stretch(o, n)
           t == Stretch(c, k)
           u == Stretch(o, m)
<1>1. /\ s \in Seq(Tokens) /\ Len(s) = n /\ \A i \in 1 .. n : s[i] = NF!Byte(o + i)
      /\ t \in Seq(Tokens) /\ Len(t) = k /\ \A i \in 1 .. k : t[i] = NF!Byte(c + i)
      /\ u \in Seq(Tokens) /\ Len(u) = m /\ \A i \in 1 .. m : u[i] = NF!Byte(o + i)
  BY StretchTyped
<1> HIDE DEF s, t, u
<1>5. c = o + n /\ m = n + k
  BY DEF Adds
<1>2. /\ s \o t \in Seq(Tokens) /\ Len(s \o t) = m
      /\ \A i \in 1 .. m : (s \o t)[i] = IF i <= n THEN s[i] ELSE t[i - n]
  <2>1. /\ s \o t \in Seq(Tokens) /\ Len(s \o t) = Len(s) + Len(t)
        /\ \A i \in 1 .. Len(s) + Len(t) : (s \o t)[i] = IF i <= Len(s) THEN s[i] ELSE t[i - Len(s)]
    BY <1>1, ConcatProperties
  <2> QED BY <1>1, <1>5, <2>1
<1>3. ASSUME NEW i \in 1 .. m PROVE (s \o t)[i] = u[i]
  <2>1. CASE i <= n
    BY <1>1, <1>2, <1>5, <2>1
  <2>2. CASE ~ (i <= n)
    <3>1. i - n \in 1 .. k /\ c + (i - n) = o + i
      BY <1>5, <2>2
    <3>2. t[i - n] = NF!Byte(c + (i - n))
      BY <1>1, <3>1
    <3> QED BY <1>1, <1>2, <2>2, <3>1, <3>2
  <2> QED BY <2>1, <2>2
<1>4. s \o t = u
  BY <1>1, <1>2, <1>3, SeqEqual
<1> QED BY <1>4 DEF s, t, u

\* What is left of a body in chunks
InChunk(l) == IF l = 1 THEN 1 ELSE 2
LEMMA ChunkedIs ==
    ASSUME NEW n \in Nat
    PROVE /\ NF!Chunked(n)[0] = NF!LastChunk /\ NF!Chunked(n)[0] \in Seq(Tokens)
          /\ \A l \in 1 .. n :
                /\ NF!Chunked(n)[l] \in Seq(Tokens)
                /\ \A o \in Nat : o = n - l =>
                      NF!Chunked(n)[l] = NF!Chunk(Stretch(o, InChunk(l))) \o NF!Chunked(n)[l - InChunk(l)]
<1> DEFINE T == Seq(Tokens)
           p(l) == InChunk(l)
           b(l) == NF!Chunk(SubSeq(NF!Body(n), n - l + 1, n - l + p(l)))
           E == [q \in (0 .. n) \X Courses(n, T) |-> IF q[1] = 0 THEN NF!LastChunk ELSE b(q[1]) \o q[2][q[1] - p(q[1])]]
           Def(h) == h = [l \in 0 .. n |-> IF l = 0 THEN NF!LastChunk
                                           ELSE LET k == IF l = 1 THEN 1 ELSE 2 IN NF!Chunk(SubSeq(NF!Body(n), n - l + 1, n - l + k)) \o h[l - k]]
<1>1. NF!LastChunk \in T
  BY DEF NF!LastChunk, Tokens
<1>2. ASSUME NEW l \in 1 .. n
      PROVE /\ p(l) \in 1 .. l /\ l - p(l) \in 0 .. l - 1 /\ p(l) \in Nat
            /\ b(l) \in T /\ \A o \in Nat : o = n - l => b(l) = NF!Chunk(Stretch(o, p(l)))
  <2>1. p(l) \in 1 .. l /\ l - p(l) \in 0 .. l - 1 /\ p(l) \in Nat
    BY DEF InChunk
  <2> HIDE DEF p
  <2>3. PICK o \in Nat : o = n - l
    OBVIOUS
  <2>2. SubSeq(NF!Body(n), n - l + 1, n - l + p(l)) = Stretch(o, p(l))
    <3>1. PICK k \in Nat, e \in Nat : k = p(l) /\ e = o + k
      BY <2>1
    <3>2. e <= n /\ Adds(o, k, e)
      BY <2>1, <2>3, <3>1 DEF Adds
    <3>3. Piece(NF!Body(n), o, e) = Stretch(o, k)
      BY <3>1, <3>2, BodyPiece
    <3> QED BY <2>3, <3>1, <3>3 DEF Piece
  <2>5. b(l) = NF!Chunk(Stretch(o, p(l)))
    BY <2>2
  <2>4. b(l) \in T
    <3>1. Stretch(o, p(l)) \in Seq(Tokens) /\ Len(Stretch(o, p(l))) \in Nat
      BY <2>1, <2>3, StretchTyped
    <3>2. <<<<"size", Len(Stretch(o, p(l)))>>>> \in Seq(Tokens) /\ <<<<"line", 0>>>> \in Seq(Tokens)
      BY <3>1 DEF Tokens
    <3> HIDE DEF b
    <3>3. NF!Chunk(Stretch(o, p(l))) \in Seq(Tokens)
      BY <3>1, <3>2, ConcatProperties DEF NF!Chunk
    <3> QED BY <2>5, <3>3
  <2> HIDE DEF b
  <2>6. \A w \in Nat : w = n - l => w = o
    BY <2>3
  <2> QED BY <2>1, <2>4, <2>5, <2>6
<1> HIDE DEF b
<1>3. ASSUME NEW f \in Courses(n, T), NEW l \in 1 .. n PROVE b(l) \o f[l - p(l)] \in T /\ f[l - p(l)] \in T
  <2>1. l - p(l) \in 0 .. n
    BY <1>2
  <2>2. f[l - p(l)] \in Seq(Tokens)
    BY <2>1 DEF Courses
  <2> QED BY <1>2, <2>2, ConcatProperties
<1>4. E \in ToNext(n, T)
  <2>1. ASSUME NEW l \in 0 .. n, NEW f \in Courses(n, T) PROVE (IF l = 0 THEN NF!LastChunk ELSE b(l) \o f[l - p(l)]) \in T
    BY <1>1, <1>3
  <2> HIDE DEF p, T
  <2> QED BY <2>1 DEF ToNext
<1>5. ASSUME NEW l \in 0 .. n, NEW f \in Courses(n, T) PROVE E[<<l, f>>] = IF l = 0 THEN NF!LastChunk ELSE b(l) \o f[l - p(l)]
  OBVIOUS
<1> HIDE DEF E
<1>6. LooksBack(n, T, E)
  <2>1. ASSUME NEW l \in 0 .. n, NEW f \in Courses(n, T), NEW g \in Courses(n, T), \A m \in 0 .. l - 1 : f[m] = g[m]
        PROVE E[<<l, f>>] = E[<<l, g>>]
    <3>1. l # 0 => f[l - p(l)] = g[l - p(l)]
      <4>1. l # 0 => l \in 1 .. n /\ l - p(l) \in 0 .. l - 1
        BY <1>2
      <4> QED BY <2>1, <4>1
    <3> QED BY <1>5, <3>1
  <2> QED BY <2>1, Zenon DEF LooksBack
<1>7. PICK f \in Courses(n, T) : Obeys(f, E, n)
  BY <1>1, <1>4, <1>6, Recursion
<1>8. Def(f)
  <2>1. f = [l \in 0 .. n |-> f[l]]
    BY DEF Courses
  <2>2. \A l \in 0 .. n : f[l] = IF l = 0 THEN NF!LastChunk ELSE b(l) \o f[l - p(l)]
    BY <1>5, <1>7 DEF Obeys
  <2> QED BY <2>1, <2>2 DEF b, InChunk
<1> DEFINE c == NF!Chunked(n)
<1>9. c = CHOOSE h : Def(h)
  BY DEF NF!Chunked
<1>10. Def(c)
  <2> HIDE DEF Def
  <2> QED BY <1>8, <1>9
<1>11. c[0] = NF!LastChunk /\ \A l \in 1 .. n : c[l] = b(l) \o c[l - p(l)]
  <2> HIDE DEF c
  <2> QED BY <1>10 DEF b, InChunk
<1>12. \A l \in 0 .. n : c[l] = f[l]
  <2> DEFINE Wrong == {m \in 0 .. n : \E k \in 0 .. m : c[k] # f[k]}
  <2>1. 0 \notin Wrong
    <3>1. f[0] = NF!LastChunk
      <4>1. 0 \in 0 .. n
        OBVIOUS
      <4>2. f[0] = E[<<0, f>>] /\ E[<<0, f>>] = NF!LastChunk
        BY <1>5, <1>7, <4>1 DEF Obeys
      <4> QED BY <4>2
    <3> HIDE DEF c
    <3> QED BY <1>11, <3>1
  <2>2. ASSUME NEW m \in 1 .. n, m - 1 \notin Wrong PROVE m \notin Wrong
    <3>1. m - 1 \in 0 .. n
      OBVIOUS
    <3>2. \A k \in 0 .. m - 1 : c[k] = f[k]
      BY <2>2, <3>1
    <3>3. m \in 0 .. n /\ m # 0 /\ m - p(m) \in 0 .. m - 1
      BY <1>2
    <3>4. c[m] = b(m) \o c[m - p(m)] /\ f[m] = b(m) \o f[m - p(m)]
      BY <1>5, <1>7, <1>11, <3>3 DEF Obeys
    <3>5. c[m - p(m)] = f[m - p(m)]
      BY <3>2, <3>3
    <3>6. c[m] = f[m]
      BY <3>4, <3>5
    <3> HIDE DEF c
    <3> QED BY <3>2, <3>6
  <2>3. Wrong \subseteq 0 .. n
    OBVIOUS
  <2>4. Wrong = {}
    <3> HIDE DEF Wrong
    <3> QED BY <2>1, <2>2, <2>3, Climb
  <2> HIDE DEF c
  <2> QED BY <2>4
<1>13. \A l \in 0 .. n : c[l] \in T
  <2> HIDE DEF c
  <2> QED BY <1>12 DEF Courses
<1>14. 0 \in 0 .. n
  OBVIOUS
<1> HIDE DEF c, p
<1>15. ASSUME NEW l \in 1 .. n, NEW o \in Nat, o = n - l
       PROVE c[l] \in Seq(Tokens) /\ c[l] = NF!Chunk(Stretch(o, p(l))) \o c[l - p(l)]
  <2>1. l \in 0 .. n
    OBVIOUS
  <2>2. c[l] \in Seq(Tokens)
    BY <1>13, <2>1
  <2>3. c[l] = b(l) \o c[l - p(l)] /\ b(l) = NF!Chunk(Stretch(o, p(l)))
    BY <1>2, <1>11, <1>15
  <2> QED BY <2>2, <2>3
<1>16. c[0] = NF!LastChunk /\ c[0] \in Seq(Tokens)
  BY <1>1, <1>11
<1>17. \A l \in 1 .. n : c[l] \in Seq(Tokens)
  BY <1>13
<1> QED BY <1>15, <1>16, <1>17 DEF c, p

\* Pieces of parts, one part after another, and parts of what was put together
LEMMA PiecePiece ==
    ASSUME NEW T, NEW s \in Seq(T), NEW a \in Nat, NEW b \in Nat, NEW c \in Nat, NEW d \in Nat, NEW e \in Nat, NEW f \in Nat,
           Adds(a, c, e), Adds(a, d, f), c <= d, f <= b, b <= Len(s)
    PROVE Piece(Piece(s, a, b), c, d) = Piece(s, e, f)
<1> DEFINE t == Piece(s, a, b)
           u == Piece(t, c, d)
           v == Piece(s, e, f)
<1>9. e = a + c /\ f = a + d
  BY DEF Adds
<1>1. PICK j \in Nat, k \in Nat : b = a + j /\ d = c + k
  <2>1. b - a \in Nat /\ b = a + (b - a) /\ d - c \in Nat /\ d = c + (d - c)
    BY <1>9
  <2> QED BY <2>1
<1>2. Adds(a, j, b) /\ Adds(c, k, d) /\ Adds(e, k, f) /\ f <= Len(s)
  BY <1>1, <1>9 DEF Adds
<1>3. t \in Seq(T) /\ Len(t) = j /\ \A i \in 1 .. j : t[i] = s[a + i]
  <2>1. t \in Seq(T) /\ IsPiece(t, s, a, j)
    BY <1>2, PieceOf
  <2> QED BY <2>1 DEF IsPiece
<1>4. v \in Seq(T) /\ Len(v) = k /\ \A i \in 1 .. k : v[i] = s[e + i]
  <2>1. v \in Seq(T) /\ IsPiece(v, s, e, k)
    BY <1>2, PieceOf
  <2> QED BY <2>1 DEF IsPiece
<1> HIDE DEF t, v
<1>5. d <= Len(t)
  BY <1>1, <1>3, <1>9
<1>6. u \in Seq(T) /\ Len(u) = k /\ \A i \in 1 .. k : u[i] = t[c + i]
  <2>1. u \in Seq(T) /\ IsPiece(u, t, c, k)
    BY <1>2, <1>3, <1>5, PieceOf
  <2> QED BY <2>1 DEF IsPiece
<1> HIDE DEF u
<1>7. ASSUME NEW i \in 1 .. k PROVE u[i] = v[i]
  <2>1. c + i \in 1 .. j /\ a + (c + i) = e + i
    BY <1>1, <1>9
  <2>2. t[c + i] = s[a + (c + i)]
    BY <1>3, <2>1
  <2> QED BY <1>4, <1>6, <2>1, <2>2
<1>8. u = v
  BY <1>4, <1>6, <1>7, SeqEqual
<1> QED BY <1>8 DEF t, u, v

LEMMA PieceOfFirst ==
    ASSUME NEW T, NEW s \in Seq(T), NEW b \in Nat, NEW c \in Nat, NEW d \in Nat, c <= d, d <= b, b <= Len(s)
    PROVE Piece(Piece(s, 0, b), c, d) = Piece(s, c, d)
<1>1. PICK z \in Nat : z = 0 /\ Adds(z, c, c) /\ Adds(z, d, d)
  BY DEF Adds
<1>2. Piece(Piece(s, z, b), c, d) = Piece(s, c, d)
  BY <1>1, PiecePiece
<1> QED BY <1>1, <1>2

LEMMA PieceJoin ==
    ASSUME NEW T, NEW s \in Seq(T), NEW a \in Nat, NEW b \in Nat, NEW c \in Nat, a <= b, b <= c, c <= Len(s)
    PROVE Piece(s, a, b) \o Piece(s, b, c) = Piece(s, a, c)
<1> DEFINE t == Piece(s, a, b)
           u == Piece(s, b, c)
           v == Piece(s, a, c)
<1>1. PICK j \in Nat, k \in Nat, m \in Nat : b = a + j /\ c = b + k /\ c = a + m
  <2>1. b - a \in Nat /\ b = a + (b - a) /\ c - b \in Nat /\ c = b + (c - b) /\ c - a \in Nat /\ c = a + (c - a)
    OBVIOUS
  <2> QED BY <2>1
<1>2. b <= Len(s) /\ Adds(a, j, b) /\ Adds(b, k, c) /\ Adds(a, m, c)
  BY <1>1 DEF Adds
<1>3. t \in Seq(T) /\ Len(t) = j /\ \A i \in 1 .. j : t[i] = s[a + i]
  <2>1. t \in Seq(T) /\ IsPiece(t, s, a, j)
    BY <1>2, PieceOf
  <2> QED BY <2>1 DEF IsPiece
<1>4. u \in Seq(T) /\ Len(u) = k /\ \A i \in 1 .. k : u[i] = s[b + i]
  <2>1. u \in Seq(T) /\ IsPiece(u, s, b, k)
    BY <1>2, PieceOf
  <2> QED BY <2>1 DEF IsPiece
<1>5. v \in Seq(T) /\ Len(v) = m /\ \A i \in 1 .. m : v[i] = s[a + i]
  <2>1. v \in Seq(T) /\ IsPiece(v, s, a, m)
    BY <1>2, PieceOf
  <2> QED BY <2>1 DEF IsPiece
<1> HIDE DEF t, u, v
<1>6. m = j + k
  BY <1>1
<1>7. /\ t \o u \in Seq(T) /\ Len(t \o u) = m
      /\ \A i \in 1 .. m : (t \o u)[i] = IF i <= j THEN t[i] ELSE u[i - j]
  <2>1. /\ t \o u \in Seq(T) /\ Len(t \o u) = Len(t) + Len(u)
        /\ \A i \in 1 .. Len(t) + Len(u) : (t \o u)[i] = IF i <= Len(t) THEN t[i] ELSE u[i - Len(t)]
    BY <1>3, <1>4, ConcatProperties
  <2> QED BY <1>3, <1>4, <1>6, <2>1
<1>8. ASSUME NEW i \in 1 .. m PROVE (t \o u)[i] = v[i]
  <2>1. CASE i <= j
    BY <1>3, <1>5, <1>7, <2>1
  <2>2. CASE ~ (i <= j)
    <3>1. i - j \in 1 .. k /\ b + (i - j) = a + i
      BY <1>1, <2>2
    <3>2. u[i - j] = s[b + (i - j)]
      BY <1>4, <3>1
    <3> QED BY <1>5, <1>7, <2>2, <3>1, <3>2
  <2> QED BY <2>1, <2>2
<1>9. t \o u = v
  BY <1>5, <1>7, <1>8, SeqEqual
<1> QED BY <1>9 DEF t, u, v

LEMMA PieceBehind ==
    ASSUME NEW T, NEW s \in Seq(T), NEW t \in Seq(T), NEW a \in Nat, NEW b \in Nat, NEW c \in Nat, NEW d \in Nat,
           Adds(Len(s), c, a), Adds(Len(s), d, b), c <= d, d <= Len(t)
    PROVE Piece(s \o t, a, b) = Piece(t, c, d)
<1> DEFINE w == s \o t
           u == Piece(w, a, b)
           v == Piece(t, c, d)
<1>8. a = Len(s) + c /\ b = Len(s) + d
  BY DEF Adds
<1>1. PICK k \in Nat : Adds(a, k, b) /\ Adds(c, k, d)
  <2>1. d - c \in Nat /\ d = c + (d - c) /\ b = a + (d - c)
    BY <1>8
  <2> QED BY <2>1 DEF Adds
<1>2. w \in Seq(T) /\ Len(w) = Len(s) + Len(t)
      /\ \A i \in 1 .. Len(s) + Len(t) : w[i] = IF i <= Len(s) THEN s[i] ELSE t[i - Len(s)]
  BY ConcatProperties
<1> HIDE DEF w
<1>3. b <= Len(w) /\ w \in Seq(T)
  BY <1>2, <1>8
<1>4. u \in Seq(T) /\ Len(u) = k /\ \A i \in 1 .. k : u[i] = w[a + i]
  <2>1. u \in Seq(T) /\ IsPiece(u, w, a, k)
    BY <1>1, <1>3, PieceOf
  <2> QED BY <2>1 DEF IsPiece
<1>5. v \in Seq(T) /\ Len(v) = k /\ \A i \in 1 .. k : v[i] = t[c + i]
  <2>1. v \in Seq(T) /\ IsPiece(v, t, c, k)
    BY <1>1, PieceOf
  <2> QED BY <2>1 DEF IsPiece
<1> HIDE DEF u, v
<1>6. ASSUME NEW i \in 1 .. k PROVE u[i] = v[i]
  <2>1. /\ a + i \in 1 .. Len(s) + Len(t) /\ ~ (a + i <= Len(s)) /\ (a + i) - Len(s) = c + i
    BY <1>1, <1>8 DEF Adds
  <2>2. w[a + i] = t[(a + i) - Len(s)]
    BY <1>2, <2>1
  <2> QED BY <1>4, <1>5, <2>1, <2>2
<1>7. u = v
  BY <1>4, <1>5, <1>6, SeqEqual
<1> QED BY <1>7 DEF u, v, w

LEMMA PieceBefore ==
    ASSUME NEW T, NEW s \in Seq(T), NEW t \in Seq(T), NEW a \in Nat, NEW b \in Nat, a <= b, b <= Len(s)
    PROVE Piece(s \o t, a, b) = Piece(s, a, b)
<1> DEFINE w == s \o t
           u == Piece(w, a, b)
           v == Piece(s, a, b)
<1>1. PICK k \in Nat : Adds(a, k, b)
  <2>1. b - a \in Nat /\ a + (b - a) = b
    OBVIOUS
  <2> QED BY <2>1 DEF Adds
<1>2. w \in Seq(T) /\ Len(w) = Len(s) + Len(t)
      /\ \A i \in 1 .. Len(s) + Len(t) : w[i] = IF i <= Len(s) THEN s[i] ELSE t[i - Len(s)]
  BY ConcatProperties
<1> HIDE DEF w
<1>3. b <= Len(w) /\ w \in Seq(T)
  BY <1>2
<1>4. u \in Seq(T) /\ Len(u) = k /\ \A i \in 1 .. k : u[i] = w[a + i]
  <2>1. u \in Seq(T) /\ IsPiece(u, w, a, k)
    BY <1>1, <1>3, PieceOf
  <2> QED BY <2>1 DEF IsPiece
<1>5. v \in Seq(T) /\ Len(v) = k /\ \A i \in 1 .. k : v[i] = s[a + i]
  <2>1. v \in Seq(T) /\ IsPiece(v, s, a, k)
    BY <1>1, PieceOf
  <2> QED BY <2>1 DEF IsPiece
<1> HIDE DEF u, v
<1>6. ASSUME NEW i \in 1 .. k PROVE u[i] = v[i]
  <2>1. /\ a + i \in 1 .. Len(s) + Len(t) /\ a + i <= Len(s)
    BY <1>1 DEF Adds
  <2> QED BY <1>2, <1>4, <1>5, <2>1
<1>7. u = v
  BY <1>4, <1>5, <1>6, SeqEqual
<1> QED BY <1>7 DEF u, v, w

LEMMA PieceWhole ==
    ASSUME NEW T, NEW s \in Seq(T), NEW n \in Nat, n = Len(s)
    PROVE Piece(s, 0, n) = s
<1>1. PICK z \in Nat : z = 0 /\ Adds(z, n, n)
  BY DEF Adds
<1>2. Piece(s, z, n) \in Seq(T) /\ IsPiece(Piece(s, z, n), s, z, n)
  BY <1>1, PieceOf
<1>3. Len(Piece(s, z, n)) = n /\ \A i \in 1 .. n : Piece(s, z, n)[i] = s[i]
  BY <1>1, <1>2 DEF IsPiece
<1>4. Piece(s, z, n) = s
  BY <1>2, <1>3, SeqEqual
<1> QED BY <1>1, <1>4

\* What is under way behind the request, behind a chunk, and behind what has been written
Headed(a, w) == \E m \in 0 .. Len(NF!Encoded(a)) : w = Piece(NF!Encoded(a), 0, m)
InChunks(n, s, b) ==
    \E l \in 0 .. n, o \in Nat :
        /\ o + l = n /\ b = Stretch(0, o)
        /\ \E m \in 0 .. Len(NF!Chunked(n)[l]) : s = Piece(NF!Chunked(n)[l], 0, m)
Ahead(n, b, s) == \E w, l \in Nat : w + l <= n /\ b = Stretch(0, w) /\ s = Stretch(w, l)
\* Of a body of n, c came with the head and r are still asked for: only those were written, and
\* are to be read again; or the first g of them were written twice, and then what follows.
Fresh(n, c, r, b, q, s) ==
    /\ Adds(c, r, n) /\ b = Stretch(0, c) /\ q = b
    /\ \E l \in Nat : c + l <= n /\ s = Stretch(c, l)
Twice(c, g) == Stretch(0, c) \o Stretch(0, g)
Second(n, c, r, b, q, s) ==
    \E g, y, w, l \in Nat :
        /\ g = NF!Least(c, n - c) /\ c <= n /\ Adds(c, y, w) /\ Adds(w + g, r, n) /\ w + l <= n
        /\ b = Twice(c, g) \o Stretch(c, y) /\ s = Stretch(w, l)
        /\ q \in Seq(Bytes) /\ (q = <<>> \/ r = 0)
BodyRight ==
    /\ answer.framing = "chunked" => written = NF!Body(answer.size)
    /\ answer.framing = "close" => Len(written) <= answer.size /\ written = NF!Body(Len(written))
    /\ answer.framing = "length" => came <= answer.size /\ written = NF!Doubled
BodyTyped ==
    /\ answer \in [framing : NF!Framings, size : BodySizes]
    /\ exitcode \in {0, 1} /\ remain \in Nat /\ came \in Nat /\ written \in Seq(Bytes)
BodyInv ==
    /\ BodyTyped
    /\ doing \in {"args", "file"} => requested = {}
    /\ doing = "head" => written = <<>> /\ Headed(answer, wire)
    /\ doing = "chunk" => answer.framing = "chunked" /\ InChunks(answer.size, NF!Stream, written)
    /\ doing = "rest" =>
        /\ answer.framing = "length"
        /\ \/ Fresh(answer.size, came, remain, written, prefill, wire)
           \/ Second(answer.size, came, remain, written, prefill, wire)
    /\ doing = "drain" => answer.framing = "close" /\ Ahead(answer.size, written, wire)
    /\ doing \in {"answered", "rules"} \/ NF!Done \/ (doing = "end" /\ exitcode = 0) => BodyRight

LEMMA BodyInit == NF!Init => BodyInv
<1> SUFFICES ASSUME NF!Init PROVE BodyInv
  OBVIOUS
<1>1. PICK n \in BodySizes : TRUE
  BY FetchAssumption
<1>2. NF!NoAnswer \in [framing : NF!Framings, size : BodySizes]
  BY <1>1 DEF NF!NoAnswer, NF!Framings
<1>3. /\ answer = NF!NoAnswer /\ exitcode = 0 /\ remain = 0 /\ came = 0 /\ written = <<>>
      /\ doing = "args" /\ requested = {}
  BY DEF NF!Init
<1>4. <<>> \in Seq(Bytes)
  OBVIOUS
<1>5. BodyTyped
  BY <1>2, <1>3, <1>4 DEF BodyTyped
<1> QED BY <1>3, <1>5 DEF BodyInv, NF!Done

LEMMA SizeIsNat == ASSUME BodyTyped PROVE answer.size \in Nat /\ answer.framing \in {"length", "chunked", "close"}
BY FetchAssumption DEF BodyTyped, NF!Framings

\* Where no answer is read, its types are enough.
LEMMA NotReading ==
    ASSUME BodyTyped',
           \/ doing' \in {"robots", "resolve", "try", "handshake", "send"}
           \/ doing' \in {"end", "done"} /\ exitcode' = 1
    PROVE BodyInv'
BY DEF BodyInv, NF!Done
LEMMA BodyGivenUp ==
    ASSUME BodyTyped, NF!GiveUp, UNCHANGED <<answer, remain, came>>, written' \in Seq(Bytes) PROVE BodyInv'
<1>1. doing' = "resolve" \/ (doing' = "end" /\ exitcode' = 1)
  BY DEF NF!GiveUp
<1>2. exitcode' \in {0, 1}
  BY DEF NF!GiveUp, BodyTyped
<1>3. BodyTyped'
  BY <1>2 DEF BodyTyped
<1> QED BY <1>1, <1>3, NotReading
LEMMA BodySucceeded ==
    ASSUME BodyTyped, NF!Succeeded, UNCHANGED <<answer, remain, came>>, written' \in Seq(Bytes), BodyRight' PROVE BodyInv'
<1>1. doing' = "answered" /\ exitcode' = exitcode
  BY DEF NF!Succeeded
<1>2. BodyTyped'
  BY <1>1 DEF BodyTyped
<1> QED BY <1>1, <1>2 DEF BodyInv, NF!Done

\* A chunk begins with its size and its bytes.
LEMMA ChunkPieces ==
    ASSUME NEW o \in Nat, NEW p \in Nat, NEW h, h = NF!Chunk(Stretch(o, p)), NEW q \in Nat, Adds(1, p, q), NEW r \in Nat, Adds(1, q, r)
    PROVE h \in Seq(Tokens) /\ Len(h) = r /\ h[1] = <<"size", p>> /\ Piece(h, 1, q) = Stretch(o, p)
<1> DEFINE s == Stretch(o, p)
           a == <<<<"size", p>>>>
           z == <<<<"line", 0>>>>
           y == a \o s
<1>9. q = 1 + p /\ r = 1 + q
  BY DEF Adds
<1>1. s \in Seq(Tokens) /\ Len(s) = p
  BY StretchTyped
<1> HIDE DEF s
<1>2. h = y \o z
  BY <1>1 DEF NF!Chunk, s
<1>3. a \in Seq(Tokens) /\ z \in Seq(Tokens) /\ Len(a) = 1 /\ a[1] = <<"size", p>> /\ Len(z) = 1
  BY DEF Tokens
<1> HIDE DEF a, z
<1>4. y \in Seq(Tokens) /\ Len(y) = q /\ y[1] = <<"size", p>>
  <2>1. /\ a \o s \in Seq(Tokens) /\ Len(a \o s) = Len(a) + Len(s)
        /\ \A i \in 1 .. Len(a) + Len(s) : (a \o s)[i] = IF i <= Len(a) THEN a[i] ELSE s[i - Len(a)]
    BY <1>1, <1>3, ConcatProperties
  <2> QED BY <1>1, <1>3, <1>9, <2>1
<1>5. Piece(y, 1, q) = Piece(s, 0, p)
  <2>1. PICK n \in Nat, x \in Nat : n = 1 /\ x = 0
    OBVIOUS
  <2>2. Adds(Len(a), x, n) /\ Adds(Len(a), p, q) /\ x <= p /\ p <= Len(s) /\ a \in Seq(Tokens) /\ s \in Seq(Tokens)
    BY <1>1, <1>3, <1>9, <2>1 DEF Adds
  <2>3. Piece(a \o s, n, q) = Piece(s, x, p)
    BY <2>2, PieceBehind
  <2> QED BY <2>1, <2>3
<1>6. Piece(s, 0, p) = s
  BY <1>1, PieceWhole
<1> HIDE DEF y
<1>7. y \o z \in Seq(Tokens) /\ Len(y \o z) = r /\ (y \o z)[1] = <<"size", p>>
  <2>1. /\ y \o z \in Seq(Tokens) /\ Len(y \o z) = Len(y) + Len(z)
        /\ \A i \in 1 .. Len(y) + Len(z) : (y \o z)[i] = IF i <= Len(y) THEN y[i] ELSE z[i - Len(y)]
    BY <1>3, <1>4, ConcatProperties
  <2> QED BY <1>3, <1>4, <1>9, <2>1
<1>8. Piece(y \o z, 1, q) = Piece(y, 1, q)
  <2>1. 1 <= q /\ q <= Len(y) /\ y \in Seq(Tokens) /\ z \in Seq(Tokens) /\ 1 \in Nat
    BY <1>3, <1>4, <1>9
  <2> QED BY <2>1, PieceBefore
<1> QED BY <1>2, <1>5, <1>6, <1>7, <1>8 DEF s

\* An answer is its head and then its body.
LEMMA EncodedIs ==
    ASSUME NEW a \in [framing : NF!Framings, size : BodySizes]
    PROVE \E d \in Seq(Tokens) :
            /\ NF!Encoded(a) = <<<<"head", 0>>>> \o d
            /\ d = (IF a.framing = "chunked" THEN NF!Chunked(a.size)[a.size] ELSE Stretch(0, a.size))
<1> DEFINE n == a.size
           d == IF a.framing = "chunked" THEN NF!Chunked(n)[n] ELSE NF!Body(n)
<1>1. n \in Nat
  BY FetchAssumption
<1>2. NF!Body(n) = Stretch(0, n) /\ Stretch(0, n) \in Seq(Tokens)
  BY <1>1, StretchTyped
<1>3. NF!Chunked(n)[n] \in Seq(Tokens)
  <2>1. n = 0 \/ n \in 1 .. n
    BY <1>1
  <2> QED BY <1>1, <2>1, ChunkedIs
<1>4. NF!Encoded(a) = <<<<"head", 0>>>> \o d
  BY DEF NF!Encoded
<1>5. d \in Seq(Tokens)
  BY <1>2, <1>3
<1> QED BY <1>2, <1>4, <1>5

\* What a read brings along with the head, and what it leaves
Brought(a, w, k) ==
    \E d \in Seq(Tokens), j \in Nat, m \in Nat :
        /\ d = (IF a.framing = "chunked" THEN NF!Chunked(a.size)[a.size] ELSE Stretch(0, a.size))
        /\ j <= m /\ m <= Len(d) /\ k = 1 + j /\ Len(w) = 1 + m
        /\ SubSeq(w, 2, k) = Piece(d, 0, j) /\ SubSeq(w, k + 1, Len(w)) = Piece(d, j, m)
        /\ SubSeq(w, 2, k) \o SubSeq(w, k + 1, Len(w)) = Piece(d, 0, m)
LEMMA BehindHead ==
    ASSUME NEW a \in [framing : NF!Framings, size : BodySizes], NEW w, Headed(a, w), NEW k \in 1 .. Len(w)
    PROVE Brought(a, w, k)
<1> DEFINE h == <<<<"head", 0>>>>
           t == NF!Encoded(a)
<1>1. PICK d \in Seq(Tokens) :
        t = h \o d /\ d = (IF a.framing = "chunked" THEN NF!Chunked(a.size)[a.size] ELSE Stretch(0, a.size))
  BY EncodedIs
<1>2. h \in Seq(Tokens) /\ Len(h) = 1
  BY DEF Tokens
<1>3. PICK x \in 0 .. Len(t) : w = Piece(t, 0, x)
  BY DEF Headed
<1> HIDE DEF h, t
<1>4. t \in Seq(Tokens) /\ Len(t) = 1 + Len(d) /\ Len(d) \in Nat
  <2>1. h \in Seq(Tokens) /\ d \in Seq(Tokens) /\ Len(d) \in Nat
    BY <1>2
  <2>2. h \o d \in Seq(Tokens) /\ Len(h \o d) = Len(h) + Len(d)
    BY <2>1, ConcatProperties
  <2> QED BY <1>1, <1>2, <2>1, <2>2
<1>5. x \in Nat /\ x <= Len(t)
  BY <1>4
<1>6. w \in Seq(Tokens) /\ Len(w) = x
  <2>1. Adds(0, x, x) /\ 0 \in Nat
    BY <1>5 DEF Adds
  <2>2. w \in Seq(Tokens) /\ IsPiece(w, t, 0, x)
    BY <1>3, <1>4, <1>5, <2>1, PieceOf
  <2> QED BY <2>2 DEF IsPiece
<1>7. PICK j \in Nat, m \in Nat : k = 1 + j /\ x = 1 + m /\ j <= m /\ m <= Len(d) /\ k <= x /\ k \in Nat
  <2>1. k - 1 \in Nat /\ k = 1 + (k - 1) /\ x - 1 \in Nat /\ x = 1 + (x - 1) /\ k - 1 <= x - 1 /\ x - 1 <= Len(d) /\ k <= x /\ k \in Nat
    BY <1>4, <1>5, <1>6
  <2> QED BY <2>1
<1>8. SubSeq(w, 2, k) = Piece(w, 1, k) /\ SubSeq(w, k + 1, Len(w)) = Piece(w, k, x)
  BY <1>6, <1>7 DEF Piece
<1>9. PICK y \in Nat, z \in Nat : y = 1 /\ z = 0
  OBVIOUS
<1>10. /\ Adds(z, y, y) /\ Adds(z, k, k) /\ Adds(z, x, x) /\ y <= k /\ k <= x /\ x <= x /\ z <= j /\ x <= Len(t)
       /\ Adds(Len(h), z, y) /\ Adds(Len(h), j, k) /\ Adds(Len(h), m, x) /\ j <= Len(d)
  BY <1>2, <1>4, <1>5, <1>7, <1>9 DEF Adds
<1>19. k \in Nat /\ x \in Nat /\ y \in Nat /\ z \in Nat /\ j \in Nat /\ m \in Nat
       /\ t \in Seq(Tokens) /\ h \in Seq(Tokens) /\ d \in Seq(Tokens)
  BY <1>1, <1>2, <1>4, <1>5, <1>7, <1>9
<1>14. Piece(Piece(t, 0, x), y, k) = Piece(t, y, k)
  <2>1. y <= k /\ k <= x /\ x <= Len(t)
    BY <1>10
  <2>2. k \in Nat /\ x \in Nat /\ y \in Nat /\ t \in Seq(Tokens)
    BY <1>19
  <2> QED BY <2>1, <2>2, PieceOfFirst
<1>15. Piece(Piece(t, 0, x), k, x) = Piece(t, k, x)
  <2>1. k <= x /\ x <= x /\ x <= Len(t)
    BY <1>10
  <2>2. k \in Nat /\ x \in Nat /\ t \in Seq(Tokens)
    BY <1>19
  <2> QED BY <2>1, <2>2, PieceOfFirst
<1>16. Piece(h \o d, y, k) = Piece(d, z, j)
  BY <1>10, <1>19, PieceBehind
<1>17. Piece(h \o d, k, x) = Piece(d, j, m)
  <2>1. j <= m /\ m <= Len(d)
    BY <1>7
  <2> QED BY <1>10, <1>19, <2>1, PieceBehind
<1>18. Piece(w, 1, k) = Piece(d, 0, j) /\ Piece(w, k, x) = Piece(d, j, m)
  BY <1>1, <1>3, <1>9, <1>14, <1>15, <1>16, <1>17
<1>11. Piece(d, 0, j) \o Piece(d, j, m) = Piece(d, 0, m)
  <2>1. 0 \in Nat /\ 0 <= j
    OBVIOUS
  <2> QED BY <1>7, <2>1, PieceJoin
<1>12. Len(w) = 1 + m
  BY <1>6, <1>7
<1>13. SubSeq(w, 2, k) = Piece(d, 0, j) /\ SubSeq(w, k + 1, Len(w)) = Piece(d, j, m)
  BY <1>8, <1>18
<1>20. SubSeq(w, 2, k) \o SubSeq(w, k + 1, Len(w)) = Piece(d, 0, m)
  BY <1>11, <1>13
<1> QED BY <1>1, <1>7, <1>12, <1>13, <1>20, Zenon DEF Brought

LEMMA BodyReadHead == ASSUME BodyInv, NEW k, NF!ReadHead(k) PROVE BodyInv'
<1> DEFINE n == answer.size
           more == SubSeq(wire, 2, k)
           rest == SubSeq(wire, k + 1, Len(wire))
           part == SubSeq(more, 1, IF Len(more) < n THEN Len(more) ELSE n)
<1>1. doing = "head" /\ k \in 1 .. Len(wire) /\ wire' = rest /\ UNCHANGED <<answer, exitcode>>
  BY DEF NF!ReadHead
<1>2. BodyTyped /\ written = <<>> /\ Headed(answer, wire)
  BY <1>1 DEF BodyInv
<1>3. n \in Nat /\ answer.framing \in {"length", "chunked", "close"}
  BY <1>2, SizeIsNat
<1>4. PICK d \in Seq(Tokens), j \in Nat, m \in Nat :
        /\ d = (IF answer.framing = "chunked" THEN NF!Chunked(n)[n] ELSE Stretch(0, n))
        /\ j <= m /\ m <= Len(d) /\ k = 1 + j /\ Len(wire) = 1 + m
        /\ more = Piece(d, 0, j) /\ rest = Piece(d, j, m) /\ more \o rest = Piece(d, 0, m)
  <2>1. answer \in [framing : NF!Framings, size : BodySizes]
    BY <1>2 DEF BodyTyped
  <2>2. Brought(answer, wire, k)
    BY <1>1, <1>2, <2>1, BehindHead
  <2> QED BY <2>2, Zenon DEF Brought
<1>5. CASE answer.framing = "chunked"
  <2>1. doing' = "chunk" /\ prefill' = more /\ UNCHANGED <<remain, written, came>>
    BY <1>5 DEF NF!ReadHead
  <2>2. InChunks(n, more \o rest, <<>>)
    <3>1. n \in 0 .. n /\ 0 \in Nat /\ 0 + n = n
      BY <1>3
    <3>2. <<>> = Stretch(0, 0)
      BY StretchTyped
    <3>3. m \in 0 .. Len(d) /\ d = NF!Chunked(n)[n]
      BY <1>4, <1>5
    <3> QED BY <1>4, <3>1, <3>2, <3>3 DEF InChunks
  <2>3. BodyTyped'
    BY <1>1, <1>2, <2>1 DEF BodyTyped
  <2> HIDE DEF more, rest
  <2>4. InChunks(answer'.size, NF!Stream', written')
    BY <1>1, <1>2, <2>1, <2>2 DEF NF!Stream
  <2> QED BY <1>1, <1>5, <2>1, <2>3, <2>4 DEF BodyInv, NF!Done
<1>6. CASE answer.framing # "chunked"
  <2>1. /\ more \in Seq(Bytes) /\ Len(more) = j /\ more = Stretch(0, j)
        /\ \E l \in Nat : j + l = m /\ rest \in Seq(Bytes) /\ rest = Stretch(j, l)
        /\ m <= n
    <3>1. d = Stretch(0, n) /\ Len(d) = n
      BY <1>3, <1>4, <1>6, StretchTyped
    <3>2. PICK l \in Nat : m = j + l
      <4>1. m - j \in Nat /\ m = j + (m - j)
        BY <1>4
      <4> QED BY <4>1
    <3>7. PICK z \in Nat : z = 0
      OBVIOUS
    <3>3. Adds(z, z, z) /\ Adds(z, j, j) /\ Adds(j, l, m) /\ j <= n /\ m <= n
      BY <1>4, <3>1, <3>2, <3>7 DEF Adds
    <3>8. n \in Nat /\ j \in Nat /\ l \in Nat /\ m \in Nat /\ z \in Nat
      BY <1>3, <1>4, <3>2, <3>7
    <3>4. Piece(Stretch(z, n), z, j) = Stretch(z, j)
      <4>1. Adds(z, z, z) /\ Adds(z, j, j) /\ j <= n
        BY <3>3
      <4>2. n \in Nat /\ j \in Nat /\ z \in Nat
        BY <3>8
      <4> HIDE DEF n
      <4> QED BY <4>1, <4>2, StretchPiece
    <3>5. Piece(Stretch(z, n), j, m) = Stretch(j, l)
      <4>1. Adds(z, j, j) /\ Adds(j, l, m) /\ m <= n
        BY <3>3
      <4>2. n \in Nat /\ j \in Nat /\ l \in Nat /\ m \in Nat /\ z \in Nat
        BY <3>8
      <4> HIDE DEF n
      <4> QED BY <4>1, <4>2, StretchPiece
    <3>6. Stretch(0, j) \in Seq(Bytes) /\ Len(Stretch(0, j)) = j /\ Stretch(j, l) \in Seq(Bytes)
      BY <3>3, StretchTyped
    <3> QED BY <1>4, <3>1, <3>2, <3>3, <3>4, <3>5, <3>6, <3>7
  <2>2. PICK l \in Nat : j + l = m /\ rest \in Seq(Bytes) /\ rest = Stretch(j, l)
    BY <2>1
  <2>3. CASE answer.framing = "close"
    <3>1. doing' = "drain" /\ written' = more /\ UNCHANGED <<remain, came>>
      BY <2>3 DEF NF!ReadHead
    <3> HIDE DEF more, rest
    <3>2. Ahead(n, written', wire')
      BY <1>1, <2>1, <2>2, <3>1 DEF Ahead
    <3>3. BodyTyped'
      BY <1>1, <1>2, <2>1, <3>1 DEF BodyTyped
    <3> QED BY <1>1, <2>3, <3>1, <3>2, <3>3 DEF BodyInv, NF!Done
  <2>4. CASE answer.framing = "length"
    <3>1. /\ doing' = "rest" /\ written' = part /\ remain' = n - Len(part) /\ came' = Len(part) /\ prefill' = more
      BY <2>4 DEF NF!ReadHead
    <3>2. part = more /\ Len(part) = j
      <4>1. (IF Len(more) < n THEN Len(more) ELSE n) = j
        BY <1>3, <1>4, <2>1
      <4>2. SubSeq(more, 1, j) = Piece(more, 0, j)
        BY DEF Piece
      <4>3. Piece(more, 0, j) = more
        BY <2>1, PieceWhole
      <4> QED BY <2>1, <4>1, <4>2, <4>3
    <3> HIDE DEF more, rest, part
    <3>3. remain' = n - j /\ n - j \in Nat /\ came' = j
      BY <1>3, <1>4, <2>1, <3>1, <3>2
    <3>4. BodyTyped'
      BY <1>1, <1>2, <2>1, <3>1, <3>2, <3>3 DEF BodyTyped
    <3>5. Adds(j, n - j, n) /\ j + l <= n
      BY <1>3, <2>1, <2>2 DEF Adds
    <3>6. Fresh(n, j, n - j, more, more, rest)
      BY <2>1, <2>2, <3>5 DEF Fresh
    <3>7. Fresh(n, came', remain', written', prefill', wire')
      BY <1>1, <3>1, <3>2, <3>3, <3>6
    <3> QED BY <1>1, <2>4, <3>1, <3>4, <3>7 DEF BodyInv, NF!Done
  <2> QED BY <1>3, <1>6, <2>3, <2>4
<1> QED BY <1>5, <1>6

\* Bytes are tokens.
LEMMA BytesJoin == ASSUME NEW s \in Seq(Bytes), NEW t \in Seq(Bytes) PROVE s \o t \in Seq(Bytes) /\ Len(s \o t) = Len(s) + Len(t)
BY ConcatProperties

LEMMA BodySend == ASSUME BodyInv, NEW a \in [framing : NF!Framings, size : BodySizes],
                         NEW cut \in 0 .. Len(NF!Encoded(a)), NF!Send(a, cut) PROVE BodyInv'
<1>1. BodyTyped
  BY DEF BodyInv
<1>2. CASE NF!GiveUp /\ NF!Answer
  BY <1>1, <1>2, BodyGivenUp DEF NF!Answer, BodyTyped
<1>3. CASE ~ (NF!GiveUp /\ NF!Answer)
  <2> DEFINE t == NF!Encoded(a)
  <2>1. /\ doing' = "head" /\ answer' = a /\ wire' = SubSeq(t, 1, Len(t) - cut)
        /\ remain' = 0 /\ written' = <<>> /\ came' = 0 /\ exitcode' = exitcode
    BY <1>3 DEF NF!Send
  <2>2. Len(t) \in Nat
    <3>1. PICK d \in Seq(Tokens) : t = <<<<"head", 0>>>> \o d
      BY EncodedIs
    <3>2. <<<<"head", 0>>>> \in Seq(Tokens)
      BY DEF Tokens
    <3>3. t \in Seq(Tokens)
      BY <3>1, <3>2, ConcatProperties
    <3> QED BY <3>3
  <2> HIDE DEF t
  <2>3. cut \in 0 .. Len(t)
    BY DEF t
  <2>4. PICK m \in 0 .. Len(t) : m = Len(t) - cut
    <3>1. Len(t) - cut \in 0 .. Len(t)
      BY <2>2, <2>3
    <3> QED BY <3>1
  <2>5. wire' = Piece(t, 0, m)
    BY <2>1, <2>4 DEF Piece
  <2>6. Headed(a, wire')
    BY <2>2, <2>4, <2>5 DEF Headed, t
  <2>7. BodyTyped'
    <3>1. 0 \in Nat /\ <<>> \in Seq(Bytes)
      OBVIOUS
    <3> QED BY <1>1, <2>1, <3>1 DEF BodyTyped
  <2> QED BY <2>1, <2>6, <2>7 DEF BodyInv, NF!Done
<1> QED BY <1>2, <1>3

\* So far in a body: what was written, what comes next, and what is written then
LEMMA AheadPiece ==
    ASSUME NEW n \in Nat, NEW b, NEW s, Ahead(n, b, s), NEW k \in Nat, k <= Len(s)
    PROVE /\ Ahead(n, b \o SubSeq(s, 1, k), SubSeq(s, k + 1, Len(s)))
          /\ SubSeq(s, 1, k) \in Seq(Bytes) /\ SubSeq(s, k + 1, Len(s)) \in Seq(Bytes)
          /\ Len(b \o SubSeq(s, 1, k)) = Len(b) + k /\ Len(b) \in Nat
<1>1. PICK w \in Nat, l \in Nat : w + l <= n /\ b = Stretch(0, w) /\ s = Stretch(w, l)
  BY DEF Ahead
<1>2. Len(b) = w /\ s \in Seq(Bytes) /\ Len(s) = l
  BY <1>1, StretchTyped
<1>3. PICK v \in Nat, m \in Nat, z \in Nat :
        /\ Adds(w, k, v) /\ Adds(k, m, l) /\ z = 0 /\ Adds(w, z, w) /\ Adds(z, w, w) /\ Adds(z, k, k) /\ v + m <= n
  <2>1. w + k \in Nat /\ l - k \in Nat /\ k + (l - k) = l /\ (w + k) + (l - k) <= n /\ w + 0 = w /\ 0 + w = w /\ 0 + k = k
    BY <1>1, <1>2
  <2> QED BY <2>1 DEF Adds
<1>4. SubSeq(s, 1, k) = Piece(s, z, k) /\ SubSeq(s, k + 1, Len(s)) = Piece(s, k, l)
  BY <1>2, <1>3 DEF Piece
<1>5. Piece(Stretch(w, l), z, k) = Stretch(w, k)
  <2>1. Adds(w, z, w) /\ Adds(z, k, k) /\ k <= l /\ z \in Nat
    BY <1>2, <1>3
  <2> QED BY <1>1, <2>1, StretchPiece
<1>6. Piece(Stretch(w, l), k, l) = Stretch(v, m)
  <2>1. PICK e \in Nat : e = l /\ Adds(w, k, v) /\ Adds(k, m, e) /\ e <= l
    BY <1>2, <1>3
  <2>2. Piece(Stretch(w, l), k, e) = Stretch(v, m)
    BY <1>1, <1>3, <2>1, StretchPiece
  <2> QED BY <2>1, <2>2
<1>7. Stretch(z, w) \o Stretch(w, k) = Stretch(z, v)
  <2>1. Adds(z, w, w) /\ Adds(w, k, v) /\ z \in Nat /\ v \in Nat
    BY <1>3
  <2> QED BY <1>1, <2>1, StretchJoin
<1>8. /\ SubSeq(s, 1, k) = Stretch(w, k) /\ SubSeq(s, k + 1, Len(s)) = Stretch(v, m) /\ b \o SubSeq(s, 1, k) = Stretch(0, v)
  BY <1>1, <1>3, <1>4, <1>5, <1>6, <1>7
<1>9. Ahead(n, b \o SubSeq(s, 1, k), SubSeq(s, k + 1, Len(s)))
  BY <1>3, <1>8 DEF Ahead
<1>10. Stretch(w, k) \in Seq(Bytes) /\ Stretch(v, m) \in Seq(Bytes) /\ Len(Stretch(0, v)) = v
  BY <1>1, <1>3, StretchTyped
<1>11. v = w + k
  BY <1>3 DEF Adds
<1> QED BY <1>2, <1>8, <1>9, <1>10, <1>11

\* What was written of a body ahead is its beginning.
LEMMA AheadIs ==
    ASSUME NEW n \in Nat, NEW b, NEW s, Ahead(n, b, s)
    PROVE b \in Seq(Bytes) /\ Len(b) <= n /\ Len(b) \in Nat /\ b = NF!Body(Len(b))
<1>1. PICK w \in Nat, l \in Nat : w + l <= n /\ b = Stretch(0, w)
  BY DEF Ahead
<1>2. b \in Seq(Bytes) /\ Len(b) = w /\ NF!Body(w) = Stretch(0, w)
  BY <1>1, StretchTyped
<1> QED BY <1>1, <1>2

LEMMA BodyReadToEnd == ASSUME BodyInv, NEW k \in NF!Reads \cup {1}, NF!ReadToEnd(k) PROVE BodyInv'
<1>1. doing = "drain" /\ UNCHANGED <<answer, came, prefill, remain>>
  BY DEF NF!ReadToEnd, NF!Reading
<1>2. BodyTyped /\ answer.framing = "close" /\ Ahead(answer.size, written, wire)
  BY <1>1 DEF BodyInv
<1>3. answer.size \in Nat
  BY <1>2, SizeIsNat
<1>4. CASE wire = <<>>
  <2>1. NF!Succeeded /\ written' = written
    BY <1>4 DEF NF!ReadToEnd
  <2>2. written \in Seq(Bytes) /\ Len(written) <= answer.size /\ written = NF!Body(Len(written))
    BY <1>2, <1>3, AheadIs
  <2>3. BodyRight'
    BY <1>1, <1>2, <2>1, <2>2 DEF BodyRight
  <2> QED BY <1>1, <1>2, <2>1, <2>2, <2>3, BodySucceeded
<1>5. CASE wire # <<>>
  <2>1. /\ k <= Len(wire) /\ written' = written \o SubSeq(wire, 1, k) /\ wire' = SubSeq(wire, k + 1, Len(wire))
        /\ doing' = doing /\ exitcode' = exitcode
    BY <1>5 DEF NF!ReadToEnd
  <2>2. k \in Nat
    BY DEF NF!Reads
  <2>3. Ahead(answer.size, written \o SubSeq(wire, 1, k), SubSeq(wire, k + 1, Len(wire)))
    BY <1>2, <1>3, <2>1, <2>2, AheadPiece
  <2>4. Ahead(answer.size, written', wire')
    BY <2>1, <2>3
  <2>5. written' \in Seq(Bytes)
    BY <1>3, <2>4, AheadIs
  <2>6. BodyTyped'
    BY <1>1, <1>2, <2>1, <2>5 DEF BodyTyped
  <2> QED BY <1>1, <1>2, <2>1, <2>4, <2>6 DEF BodyInv, NF!Done
<1> QED BY <1>4, <1>5

\* Of a body with a length: what was written once is read again, or that is over at once.
LEMMA TwiceIs ==
    ASSUME NEW c \in Nat, NEW g \in Nat, NEW y \in Nat
    PROVE /\ Twice(c, g) \in Seq(Bytes) /\ Len(Twice(c, g)) = c + g
          /\ Twice(c, g) \o Stretch(c, y) \in Seq(Bytes) /\ Len(Twice(c, g) \o Stretch(c, y)) = (c + g) + y
          /\ Twice(c, g) \o Stretch(c, 0) = Twice(c, g) /\ Twice(c, 0) = Stretch(0, c)
<1>1. /\ Stretch(0, c) \in Seq(Bytes) /\ Stretch(0, g) \in Seq(Bytes) /\ Stretch(c, y) \in Seq(Bytes)
      /\ Len(Stretch(0, c)) = c /\ Len(Stretch(0, g)) = g /\ Len(Stretch(c, y)) = y /\ Stretch(c, 0) = <<>> /\ Stretch(0, 0) = <<>>
  BY StretchTyped
<1>2. Twice(c, g) \in Seq(Bytes) /\ Len(Twice(c, g)) = c + g
  BY <1>1, BytesJoin DEF Twice
<1>3. /\ Twice(c, g) \o Stretch(c, y) \in Seq(Bytes)
      /\ Len(Twice(c, g) \o Stretch(c, y)) = Len(Twice(c, g)) + Len(Stretch(c, y))
  BY <1>1, <1>2, BytesJoin
<1>4. Twice(c, g) \o <<>> = Twice(c, g)
  BY <1>2, ConcatEmptySeq
<1>5. Stretch(0, c) \o <<>> = Stretch(0, c)
  BY <1>1, ConcatEmptySeq
<1> QED BY <1>1, <1>2, <1>3, <1>4, <1>5 DEF Twice

Cut(w, l, k, s) ==
    \E v, m \in Nat :
        /\ Adds(w, k, v) /\ Adds(k, m, l)
        /\ SubSeq(s, 1, k) = Stretch(w, k) /\ SubSeq(s, k + 1, Len(s)) = Stretch(v, m)
LEMMA StretchCut ==
    ASSUME NEW w \in Nat, NEW l \in Nat, NEW s, s = Stretch(w, l), NEW k \in Nat, k <= Len(s)
    PROVE Cut(w, l, k, s)
<1>1. Len(s) = l
  BY StretchTyped
<1>2. PICK v \in Nat, m \in Nat, z \in Nat : z = 0 /\ Adds(w, k, v) /\ Adds(k, m, l)
  <2>1. w + k \in Nat /\ l - k \in Nat /\ k + (l - k) = l
    BY <1>1
  <2> QED BY <2>1 DEF Adds
<1>3. Adds(w, z, w) /\ Adds(z, k, k) /\ k <= l /\ Adds(k, m, l) /\ l <= l
  BY <1>1, <1>2 DEF Adds
<1>4. Piece(Stretch(w, l), z, k) = Stretch(w, k)
  BY <1>2, <1>3, StretchPiece
<1>5. PICK e \in Nat : e = l
  OBVIOUS
<1>6. Piece(Stretch(w, l), k, e) = Stretch(v, m)
  <2>1. Adds(w, k, v) /\ Adds(k, m, e) /\ e <= l
    BY <1>2, <1>3, <1>5
  <2> QED BY <1>2, <1>5, <2>1, StretchPiece
<1> QED BY <1>1, <1>2, <1>4, <1>5, <1>6 DEF Piece, Cut

LEMMA BytesRegroup ==
    ASSUME NEW s \in Seq(Bytes), NEW t \in Seq(Bytes), NEW u \in Seq(Bytes) PROVE (s \o t) \o u = s \o (t \o u)
BY ConcatAssociative

LEMMA FreshIs ==
    ASSUME NEW n \in Nat, NEW c \in Nat, NEW r \in Nat, NEW b, NEW q, NEW s, Fresh(n, c, r, b, q, s)
    PROVE c <= n /\ n - c = r /\ b \in Seq(Bytes) /\ q \in Seq(Bytes) /\ Len(q) = c /\ Len(b) = c
<1>1. c + r = n /\ b = Stretch(0, c) /\ q = b
  BY DEF Fresh, Adds
<1>2. Stretch(0, c) \in Seq(Bytes) /\ Len(Stretch(0, c)) = c
  BY StretchTyped
<1> QED BY <1>1, <1>2
\* What came with the head was taken from the stream, k of it.
LEMMA FreshRead ==
    ASSUME NEW n \in Nat, NEW c \in Nat, NEW r \in Nat, NEW b, NEW q, NEW s, Fresh(n, c, r, b, q, s),
           NEW k \in Nat, k = NF!Least(c, r)
    PROVE /\ Second(n, c, r - k, b \o SubSeq(q, 1, k), SubSeq(q, k + 1, Len(q)), s)
          /\ r - k \in Nat /\ b \o SubSeq(q, 1, k) \in Seq(Bytes)
<1>1. b = Stretch(0, c) /\ q = Stretch(0, c)
  BY DEF Fresh
<1>2. PICK l \in Nat : c + l <= n /\ s = Stretch(c, l)
  BY DEF Fresh
<1>3. c <= n /\ n - c = r /\ q \in Seq(Bytes) /\ Len(q) = c /\ c + r = n
  BY FreshIs
<1>4. k <= c /\ k <= r /\ (k = c \/ k = r)
  BY DEF NF!Least
<1>5. SubSeq(q, 1, k) = Stretch(0, k)
  <2>1. PICK z \in Nat : z = 0
    OBVIOUS
  <2>2. Adds(z, z, z) /\ Adds(z, k, k) /\ k <= c
    BY <1>4, <2>1 DEF Adds
  <2>3. Piece(Stretch(z, c), z, k) = Stretch(z, k)
    BY <2>2, StretchPiece
  <2>4. SubSeq(q, 1, k) = Piece(Stretch(z, c), z, k)
    BY <1>1, <2>1 DEF Piece
  <2> QED BY <2>1, <2>3, <2>4
<1>6. b \o SubSeq(q, 1, k) = Twice(c, k)
  BY <1>1, <1>5 DEF Twice
<1>7. /\ Twice(c, k) = Twice(c, k) \o Stretch(c, 0) /\ Twice(c, k) \in Seq(Bytes)
  BY TwiceIs
<1>8. SubSeq(q, k + 1, Len(q)) \in Seq(Bytes) /\ (SubSeq(q, k + 1, Len(q)) = <<>> \/ r - k = 0)
  <2>1. SubSeq(q, k + 1, Len(q)) \in Seq(Bytes)
    BY <1>3, <1>4
  <2>2. CASE k = c
    BY <1>3, <2>1, <2>2
  <2>3. CASE k = r
    BY <2>1, <2>3
  <2> QED BY <1>4, <2>2, <2>3
<1>9. Adds(c, 0, c) /\ Adds(c + k, r - k, n) /\ r - k \in Nat /\ k = NF!Least(c, n - c)
  BY <1>3, <1>4 DEF Adds
<1>10. Second(n, c, r - k, Twice(c, k), SubSeq(q, k + 1, Len(q)), s)
  <2> DEFINE q1 == SubSeq(q, k + 1, Len(q))
             r1 == r - k
             v == Twice(c, k)
  <2>1. /\ k = NF!Least(c, n - c) /\ c <= n /\ Adds(c, 0, c) /\ Adds(c + k, r1, n) /\ c + l <= n
        /\ v = Twice(c, k) \o Stretch(c, 0) /\ s = Stretch(c, l) /\ q1 \in Seq(Bytes) /\ (q1 = <<>> \/ r1 = 0)
    BY <1>2, <1>3, <1>7, <1>8, <1>9
  <2> HIDE DEF q1, r1, v
  <2>2. Second(n, c, r1, v, q1, s)
    BY <1>2, <2>1 DEF Second
  <2> QED BY <2>2 DEF q1, r1, v
<1> QED BY <1>6, <1>7, <1>9, <1>10
\* There is nothing to take from it, or nothing is asked for any more.
LEMMA FreshOver ==
    ASSUME NEW n \in Nat, NEW c \in Nat, NEW r \in Nat, NEW b, NEW q, NEW s, Fresh(n, c, r, b, q, s), q = <<>> \/ r = 0
    PROVE Second(n, c, r, b, q, s)
<1>1. b = Stretch(0, c)
  BY DEF Fresh
<1>2. PICK l \in Nat : c + l <= n /\ s = Stretch(c, l)
  BY DEF Fresh
<1>3. c <= n /\ n - c = r /\ q \in Seq(Bytes) /\ Len(q) = c
  BY FreshIs
<1>4. c = 0 \/ r = 0
  BY <1>3
<1>8. PICK z \in Nat : z = 0
  OBVIOUS
<1>5. z = NF!Least(c, n - c)
  BY <1>3, <1>4, <1>8 DEF NF!Least
<1>6. b = Twice(c, z) \o Stretch(c, z)
  BY <1>1, <1>8, TwiceIs
<1>7. Adds(c, z, c) /\ Adds(c + z, r, n)
  BY <1>3, <1>8 DEF Adds
<1>9. q = <<>> \/ r = 0
  OBVIOUS
<1> QED BY <1>2, <1>3, <1>5, <1>6, <1>7, <1>9 DEF Second
\* k more were read.
LEMMA SecondRead ==
    ASSUME NEW n \in Nat, NEW c \in Nat, NEW r \in Nat, NEW b, NEW q, NEW s, Second(n, c, r, b, q, s),
           NEW k \in Nat, k <= Len(s), k <= r, q = <<>>
    PROVE /\ Second(n, c, r - k, b \o SubSeq(s, 1, k), q, SubSeq(s, k + 1, Len(s)))
          /\ r - k \in Nat /\ b \o SubSeq(s, 1, k) \in Seq(Bytes)
<1>1. PICK g \in Nat, y \in Nat, w \in Nat, l \in Nat :
        /\ g = NF!Least(c, n - c) /\ c <= n /\ Adds(c, y, w) /\ Adds(w + g, r, n) /\ w + l <= n
        /\ b = Twice(c, g) \o Stretch(c, y) /\ s = Stretch(w, l)
  BY DEF Second
<1>2. Len(s) = l /\ Stretch(c, y) \in Seq(Bytes) /\ Twice(c, g) \in Seq(Bytes) /\ Stretch(w, k) \in Seq(Bytes)
  BY <1>1, StretchTyped, TwiceIs
<1>3. PICK v \in Nat, m \in Nat :
        /\ Adds(w, k, v) /\ Adds(k, m, l)
        /\ SubSeq(s, 1, k) = Stretch(w, k) /\ SubSeq(s, k + 1, Len(s)) = Stretch(v, m)
  <2>1. Cut(w, l, k, s)
    BY <1>1, StretchCut
  <2> QED BY <2>1 DEF Cut
<1>4. PICK x \in Nat : Adds(y, k, x) /\ Adds(c, x, v) /\ v + m <= n /\ Adds(v + g, r - k, n)
  <2>2. c + y = w /\ w + k = v /\ k + m = l /\ w + l <= n /\ (w + g) + r = n
    BY <1>1, <1>3 DEF Adds
  <2>3. y \in Nat /\ g \in Nat /\ w \in Nat /\ l \in Nat /\ v \in Nat /\ m \in Nat /\ k <= r
    BY <1>1, <1>3
  <2>1. y + k \in Nat /\ c + (y + k) = v /\ v + m <= n /\ (v + g) + (r - k) = n
    BY <2>2, <2>3
  <2> QED BY <2>1 DEF Adds
<1>6. b \o Stretch(w, k) = Twice(c, g) \o Stretch(c, x)
  <2>1. Stretch(c, y) \o Stretch(w, k) = Stretch(c, x)
    <3>1. Adds(c, y, w) /\ Adds(y, k, x) /\ y \in Nat /\ w \in Nat /\ x \in Nat
      BY <1>1, <1>4
    <3> QED BY <3>1, StretchJoin
  <2>2. (Twice(c, g) \o Stretch(c, y)) \o Stretch(w, k) = Twice(c, g) \o (Stretch(c, y) \o Stretch(w, k))
    BY <1>2, BytesRegroup
  <2> QED BY <1>1, <2>1, <2>2
<1>7. b \o Stretch(w, k) \in Seq(Bytes)
  <2>1. Twice(c, g) \o Stretch(c, x) \in Seq(Bytes)
    BY <1>1, <1>4, TwiceIs
  <2> QED BY <1>6, <2>1
<1>8. q \in Seq(Bytes)
  OBVIOUS
<1>9. Second(n, c, r - k, b \o Stretch(w, k), q, Stretch(v, m))
  BY <1>1, <1>3, <1>4, <1>6, <1>8 DEF Second
<1>10. r - k \in Nat
  OBVIOUS
<1> QED BY <1>3, <1>7, <1>9, <1>10
\* Nothing is asked for any more.
LEMMA SecondOver ==
    ASSUME NEW n \in Nat, NEW c \in Nat, NEW b, NEW q, NEW s, Second(n, c, 0, b, q, s)
    PROVE c <= n /\ b = NF!Body(c) \o NF!Body(NF!Least(c, n - c)) \o SubSeq(NF!Body(n), c + 1, n - NF!Least(c, n - c))
<1>1. PICK g \in Nat, y \in Nat, w \in Nat :
        /\ g = NF!Least(c, n - c) /\ c <= n /\ Adds(c, y, w) /\ Adds(w + g, 0, n)
        /\ b = Twice(c, g) \o Stretch(c, y)
  BY DEF Second
<1>2. w = n - g /\ w <= n
  BY <1>1 DEF Adds
<1>3. Piece(NF!Body(n), c, w) = Stretch(c, y)
  BY <1>1, <1>2, BodyPiece
<1>4. NF!Body(c) = Stretch(0, c) /\ NF!Body(g) = Stretch(0, g)
  BY <1>1, StretchTyped
<1> QED BY <1>1, <1>2, <1>3, <1>4 DEF Twice, Piece

LEMMA BodyReadRest == ASSUME BodyInv, NEW k \in NF!Reads \cup {1}, NF!ReadRest(k) PROVE BodyInv'
<1> DEFINE n == answer.size
<1>1. doing = "rest" /\ UNCHANGED <<answer, came>>
  BY DEF NF!ReadRest, NF!Reading
<1>2. /\ BodyTyped /\ answer.framing = "length"
      /\ \/ Fresh(n, came, remain, written, prefill, wire)
         \/ Second(n, came, remain, written, prefill, wire)
  BY <1>1 DEF BodyInv
<1>3. n \in Nat /\ remain \in Nat /\ written \in Seq(Bytes) /\ came \in Nat
  BY <1>2, SizeIsNat DEF BodyTyped
<1>8. ASSUME Second(n, came, remain', written', prefill', wire'), remain' \in Nat, written' \in Seq(Bytes),
             doing' = doing, exitcode' = exitcode PROVE BodyInv'
  <2>1. BodyTyped'
    BY <1>1, <1>2, <1>8 DEF BodyTyped
  <2>2. Second(answer'.size, came', remain', written', prefill', wire')
    BY <1>1, <1>8
  <2> QED BY <1>1, <1>2, <1>8, <2>1, <2>2 DEF BodyInv, NF!Done
<1>9. Fresh(n, came, remain, written, prefill, wire) /\ (prefill = <<>> \/ remain = 0)
        => Second(n, came, remain, written, prefill, wire)
  <2> HIDE DEF n
  <2> QED BY <1>3, FreshOver
<1>4. CASE remain = 0
  <2>1. NF!Succeeded /\ UNCHANGED <<written, wire, prefill, remain>>
    BY <1>4 DEF NF!ReadRest
  <2>2. Second(n, came, 0, written, prefill, wire)
    BY <1>2, <1>4, <1>9
  <2>3. came <= n /\ written = NF!Doubled
    <3>1. /\ came <= n
          /\ written = NF!Body(came) \o NF!Body(NF!Least(came, n - came)) \o SubSeq(NF!Body(n), came + 1, n - NF!Least(came, n - came))
      <4> HIDE DEF n
      <4> QED BY <1>3, <2>2, SecondOver
    <3> QED BY <3>1, Zenon DEF NF!Doubled, NF!Again
  <2>5. NF!Doubled' = NF!Doubled
    BY <1>1 DEF NF!Doubled, NF!Again, NF!Least, NF!Body
  <2>4. BodyRight'
    BY <1>1, <1>2, <2>1, <2>3, <2>5 DEF BodyRight
  <2> QED BY <1>1, <1>2, <1>3, <2>1, <2>4, BodySucceeded
<1>5. CASE remain # 0 /\ prefill # <<>>
  <2> DEFINE h == IF Len(prefill) < remain THEN Len(prefill) ELSE remain
  <2>1. /\ written' = written \o SubSeq(prefill, 1, h) /\ prefill' = SubSeq(prefill, h + 1, Len(prefill))
        /\ remain' = remain - h /\ UNCHANGED <<doing, exitcode, wire>>
    BY <1>5 DEF NF!ReadRest
  <2>2. Fresh(n, came, remain, written, prefill, wire)
    BY <1>2, <1>5 DEF Second
  <2>3. Len(prefill) = came
    <3> HIDE DEF n
    <3> QED BY <1>3, <2>2, FreshIs
  <2>4. h = NF!Least(came, remain) /\ h \in Nat
    BY <1>3, <2>3 DEF NF!Least
  <2>5. /\ Second(n, came, remain - h, written \o SubSeq(prefill, 1, h), SubSeq(prefill, h + 1, Len(prefill)), wire)
        /\ remain - h \in Nat /\ written \o SubSeq(prefill, 1, h) \in Seq(Bytes)
    <3> HIDE DEF n, h
    <3> QED BY <1>3, <2>2, <2>4, FreshRead
  <2> HIDE DEF h, n
  <2>6. Second(n, came, remain', written', prefill', wire') /\ remain' \in Nat /\ written' \in Seq(Bytes)
    BY <2>1, <2>5
  <2> QED BY <1>8, <2>1, <2>6
<1>6. CASE remain # 0 /\ prefill = <<>> /\ wire = <<>>
  <2>1. NF!GiveUp /\ UNCHANGED <<written, wire, prefill, remain>>
    BY <1>6 DEF NF!ReadRest
  <2> QED BY <1>1, <1>2, <1>3, <2>1, BodyGivenUp
<1>7. CASE remain # 0 /\ prefill = <<>> /\ wire # <<>>
  <2>1. /\ k <= Len(wire) /\ k <= remain
        /\ written' = written \o SubSeq(wire, 1, k) /\ wire' = SubSeq(wire, k + 1, Len(wire)) /\ remain' = remain - k
        /\ UNCHANGED <<doing, exitcode, prefill>>
    BY <1>7 DEF NF!ReadRest
  <2>2. k \in Nat
    BY DEF NF!Reads
  <2>3. Second(n, came, remain, written, prefill, wire)
    BY <1>2, <1>7, <1>9
  <2>4. /\ Second(n, came, remain - k, written \o SubSeq(wire, 1, k), prefill, SubSeq(wire, k + 1, Len(wire)))
        /\ remain - k \in Nat /\ written \o SubSeq(wire, 1, k) \in Seq(Bytes)
    <3> HIDE DEF n
    <3> QED BY <1>3, <1>7, <2>1, <2>2, <2>3, SecondRead
  <2> HIDE DEF n
  <2>5. Second(n, came, remain', written', prefill', wire') /\ remain' \in Nat /\ written' \in Seq(Bytes)
    BY <2>1, <2>4
  <2> QED BY <1>8, <2>1, <2>5
<1> QED BY <1>4, <1>5, <1>6, <1>7

\* A stream that is behind a chunk: nothing, or a size with what it announces, or not all of that
LEMMA BodyReadChunk == ASSUME BodyInv, NF!ReadChunk PROVE BodyInv'
<1> DEFINE N == answer.size
           s == NF!Stream
           n == IF s # <<>> THEN s[1][2] ELSE 0
           C(l) == NF!Chunked(N)[l]
<1>1. doing = "chunk" /\ UNCHANGED <<answer, came>>
  BY DEF NF!ReadChunk, NF!Reading
<1>2. BodyTyped /\ answer.framing = "chunked" /\ InChunks(N, s, written)
  BY <1>1 DEF BodyInv
<1>3. N \in Nat /\ written \in Seq(Bytes) /\ Len(written) \in Nat
  BY <1>2, SizeIsNat DEF BodyTyped
<1>4. IF s = <<>> \/ Len(s) < n + 2
      THEN /\ NF!GiveUp /\ written' = (IF Len(s) > n THEN written \o SubSeq(s, 2, n + 1) ELSE written)
           /\ UNCHANGED <<wire, prefill, remain>>
      ELSE /\ written' = written \o SubSeq(s, 2, n + 1) /\ prefill' = <<>> /\ wire' = SubSeq(s, n + 3, Len(s))
           /\ UNCHANGED remain
           /\ IF n = 0 THEN NF!Succeeded ELSE UNCHANGED <<doing, wants, descriptors, exitcode>>
  BY Zenon DEF NF!ReadChunk
<1>5. PICK l \in 0 .. N, o \in Nat : /\ o + l = N /\ written = Stretch(0, o)
                                 /\ \E m \in 0 .. Len(C(l)) : s = Piece(C(l), 0, m)
  <2> HIDE DEF N, s
  <2> QED BY <1>2, Zenon DEF InChunks
<1>12. PICK m \in 0 .. Len(C(l)) : s = Piece(C(l), 0, m)
  BY <1>5
<1> HIDE DEF N, s
<1>6. C(l) \in Seq(Tokens)
  <2>1. l = 0 \/ l \in 1 .. N
    BY <1>3, <1>5
  <2> QED BY <1>3, <2>1, ChunkedIs
<1>7. m \in Nat /\ m <= Len(C(l)) /\ l \in Nat /\ o \in Nat /\ l <= N
  BY <1>3, <1>5, <1>6, <1>12
<1>8. s \in Seq(Tokens) /\ Len(s) = m /\ \A i \in 1 .. m : s[i] = C(l)[i]
  <2>1. PICK z \in Nat : z = 0 /\ Adds(z, m, m)
    BY <1>7 DEF Adds
  <2>2. Piece(C(l), z, m) \in Seq(Tokens) /\ IsPiece(Piece(C(l), z, m), C(l), z, m)
    <3> HIDE DEF C
    <3> QED BY <1>6, <1>7, <2>1, PieceOf
  <2>3. s \in Seq(Tokens) /\ IsPiece(s, C(l), 0, m)
    BY <1>12, <2>1, <2>2
  <2> HIDE DEF C
  <2> QED BY <1>7, <2>3 DEF IsPiece
<1>9. CASE m = 0
  <2>1. s = <<>>
    BY <1>8, <1>9
  <2>2. n = 0 /\ ~ (Len(s) > n)
    BY <1>8, <1>9, <2>1
  <2>3. NF!GiveUp /\ written' = written /\ UNCHANGED <<wire, prefill, remain>>
    <3> HIDE DEF n
    <3> QED BY <1>4, <2>1, <2>2
  <2> QED BY <1>1, <1>2, <1>3, <2>3, BodyGivenUp
<1>10. CASE m # 0 /\ l = 0
  <2>1. C(l) = NF!LastChunk
    BY <1>3, <1>10, ChunkedIs
  <2>2. Len(C(l)) = 2 /\ C(l)[1] = <<"size", 0>>
    BY <2>1 DEF NF!LastChunk
  <2>3. s # <<>> /\ s[1] = <<"size", 0>> /\ m \in {1, 2}
    <3> HIDE DEF C
    <3> QED BY <1>7, <1>8, <1>10, <2>2
  <2>4. n = 0
    BY <2>3
  <2> HIDE DEF n, C
  <2>5. SubSeq(s, 2, n + 1) = <<>>
    <3>1. PICK o1 \in Nat, z \in Nat : o1 = 1 /\ z = 0 /\ Adds(o1, z, o1)
      BY DEF Adds
    <3>2. o1 <= Len(s)
      BY <1>7, <1>8, <1>10, <3>1
    <3>3. IsPiece(Piece(s, o1, o1), s, o1, z) /\ Piece(s, o1, o1) \in Seq(Tokens)
      BY <1>8, <3>1, <3>2, PieceOf
    <3>4. Len(Piece(s, o1, o1)) = 0
      BY <3>1, <3>3 DEF IsPiece
    <3>5. Piece(s, o1, o1) = <<>>
      BY <3>3, <3>4
    <3> QED BY <2>4, <3>1, <3>5 DEF Piece
  <2>6. written \o SubSeq(s, 2, n + 1) = written
    <3>1. written \o <<>> = written
      BY <1>3, ConcatEmptySeq
    <3> QED BY <2>5, <3>1
  <2>7. o = N
    BY <1>3, <1>5, <1>7, <1>10
  <2>8. written = NF!Body(N)
    BY <1>3, <1>5, <2>7, StretchTyped
  <2>9. CASE m = 1
    <3>1. Len(s) < n + 2
      BY <1>8, <2>4, <2>9
    <3>2. NF!GiveUp /\ written' = written /\ UNCHANGED <<wire, prefill, remain>>
      BY <1>4, <2>6, <3>1
    <3> QED BY <1>1, <1>2, <1>3, <3>2, BodyGivenUp
  <2>10. CASE m = 2
    <3>1. ~ (s = <<>> \/ Len(s) < n + 2)
      BY <1>8, <2>3, <2>4, <2>10
    <3>2. NF!Succeeded /\ written' = written /\ remain' = remain
      BY <1>4, <2>4, <2>6, <3>1
    <3>3. BodyRight'
      BY <1>1, <1>2, <2>8, <3>2 DEF BodyRight, N
    <3> QED BY <1>1, <1>2, <1>3, <3>2, <3>3, BodySucceeded
  <2> QED BY <2>3, <2>9, <2>10
<1>11. CASE m # 0 /\ l # 0
  <2>1. PICK p \in Nat, q \in Nat, r \in Nat, j \in Nat :
          p = InChunk(l) /\ q = 1 + p /\ r = 1 + q /\ p >= 1 /\ p <= l /\ j = l - p /\ j \in 0 .. N
    <3>1. InChunk(l) \in 1 .. 2 /\ InChunk(l) <= l /\ l - InChunk(l) \in 0 .. N
      BY <1>3, <1>7, <1>11 DEF InChunk
    <3> QED BY <3>1
  <2> DEFINE h == NF!Chunk(Stretch(o, p))
  <2>2. C(l) = h \o C(j)
    <3>1. l \in 1 .. N /\ o = N - l
      BY <1>3, <1>5, <1>7, <1>11
    <3>2. NF!Chunked(N)[l] = NF!Chunk(Stretch(o, InChunk(l))) \o NF!Chunked(N)[l - InChunk(l)]
      BY <1>3, <1>7, <3>1, ChunkedIs
    <3> QED BY <2>1, <3>2
  <2>3. C(j) \in Seq(Tokens)
    <3>1. j = 0 \/ j \in 1 .. N
      BY <1>3, <2>1
    <3> QED BY <1>3, <3>1, ChunkedIs
  <2>4. h \in Seq(Tokens) /\ Len(h) = r /\ h[1] = <<"size", p>> /\ Piece(h, 1, q) = Stretch(o, p)
    <3>1. Adds(1, p, q) /\ Adds(1, q, r) /\ p \in Nat /\ q \in Nat /\ r \in Nat
      BY <2>1 DEF Adds
    <3> QED BY <1>7, <3>1, ChunkPieces
  <2> HIDE DEF h, C
  <2>5. Len(C(j)) \in Nat /\ Len(C(l)) = r + Len(C(j)) /\ \A i \in 1 .. r : C(l)[i] = h[i]
    <3>1. Len(C(j)) \in Nat
      BY <2>3
    <3>2. /\ h \o C(j) \in Seq(Tokens) /\ Len(h \o C(j)) = Len(h) + Len(C(j))
          /\ \A i \in 1 .. Len(h) + Len(C(j)) : (h \o C(j))[i] = IF i <= Len(h) THEN h[i] ELSE C(j)[i - Len(h)]
      BY <2>3, <2>4, ConcatProperties
    <3> QED BY <2>2, <2>4, <3>1, <3>2
  <2>6. s # <<>> /\ s[1] = <<"size", p>>
    <3>1. 1 \in 1 .. m /\ 1 \in 1 .. r
      BY <1>7, <1>11, <2>1
    <3>2. s[1] = C(l)[1] /\ C(l)[1] = h[1]
      BY <1>8, <2>5, <3>1
    <3> QED BY <1>8, <1>11, <2>4, <3>2
  <2>7. n = p
    BY <2>6
  <2> HIDE DEF n
  <2>8. m >= q => SubSeq(s, 2, n + 1) = Stretch(o, p)
    <3>1. SUFFICES ASSUME m >= q PROVE SubSeq(s, 2, n + 1) = Stretch(o, p)
      OBVIOUS
    <3>2. SubSeq(s, 2, n + 1) = Piece(s, 1, q)
      <4>1. n + 1 = q /\ 1 + 1 = 2
        BY <2>1, <2>7
      <4> QED BY <4>1 DEF Piece
    <3>3. Piece(Piece(C(l), 0, m), 1, q) = Piece(C(l), 1, q)
      <4>1. 1 \in Nat /\ 1 <= q /\ q <= m /\ q \in Nat
        BY <1>7, <2>1, <3>1
      <4> QED BY <1>6, <1>7, <4>1, PieceOfFirst
    <3>4. Piece(h \o C(j), 1, q) = Piece(h, 1, q)
      <4>1. 1 \in Nat /\ 1 <= q /\ q <= Len(h) /\ q \in Nat
        BY <2>1, <2>4
      <4> QED BY <2>3, <2>4, <4>1, PieceBefore
    <3> QED BY <1>12, <2>2, <2>4, <3>2, <3>3, <3>4
  <2>9. PICK v \in Nat : v = o + p
    BY <1>7, <2>1
  <2>10. m >= q => written \o SubSeq(s, 2, n + 1) = Stretch(0, v) /\ Stretch(0, v) \in Seq(Bytes)
    <3>1. PICK z \in Nat : z = 0 /\ Adds(z, o, o) /\ Adds(o, p, v)
      BY <1>7, <2>1, <2>9 DEF Adds
    <3>2. Stretch(z, o) \o Stretch(o, p) = Stretch(z, v)
      <4>1. z \in Nat /\ o \in Nat /\ p \in Nat /\ v \in Nat
        BY <1>7, <2>1, <2>9, <3>1
      <4>2. Adds(z, o, o) /\ Adds(o, p, v)
        BY <3>1
      <4> QED BY <4>1, <4>2, StretchJoin
    <3>3. Stretch(0, v) \in Seq(Bytes)
      BY <2>9, StretchTyped
    <3> QED BY <1>5, <2>8, <3>1, <3>2, <3>3
  <2>11. CASE m < r
    <3>1. Len(s) < n + 2
      BY <1>8, <2>1, <2>7, <2>11
    <3>2. NF!GiveUp /\ written' = (IF Len(s) > n THEN written \o SubSeq(s, 2, n + 1) ELSE written) /\ UNCHANGED remain
      BY <1>4, <3>1
    <3>3. Len(s) > n => m >= q
      BY <1>7, <1>8, <2>1, <2>7
    <3>4. written' \in Seq(Bytes)
      BY <1>3, <2>10, <3>2, <3>3
    <3> QED BY <1>1, <1>2, <3>2, <3>4, BodyGivenUp
  <2>12. CASE ~ (m < r)
    <3>1. ~ (s = <<>> \/ Len(s) < n + 2) /\ n # 0 /\ m >= q
      <4>1. m \in Nat /\ Len(s) = m /\ ~ (m < r) /\ r = n + 2 /\ q = n + 1 /\ n >= 1 /\ n \in Nat
        <5>1. p \in Nat /\ p >= 1 /\ q = 1 + p /\ r = 1 + q /\ n = p
          BY <2>1, <2>7
        <5> QED BY <1>7, <1>8, <2>12, <5>1
      <4> QED BY <2>6, <4>1
    <3>2. /\ written' = written \o SubSeq(s, 2, n + 1) /\ prefill' = <<>> /\ wire' = SubSeq(s, n + 3, Len(s))
          /\ UNCHANGED remain /\ UNCHANGED <<doing, wants, descriptors, exitcode>>
      BY <1>4, <3>1
    <3>3. written' = Stretch(0, v) /\ written' \in Seq(Bytes)
      BY <2>10, <3>1, <3>2
    <3>4. PICK x \in Nat : m = r + x /\ x <= Len(C(j))
      <4>1. m - r \in Nat /\ m = r + (m - r) /\ m - r <= Len(C(j))
        <5>1. m \in Nat /\ r \in Nat /\ Len(C(j)) \in Nat /\ m <= r + Len(C(j)) /\ r <= m
          BY <1>7, <2>1, <2>5, <2>12
        <5> QED BY <5>1
      <4> QED BY <4>1
    <3>5. wire' = Piece(s, r, m)
      <4>1. n + 3 = r + 1 /\ Len(s) = m
        <5>1. r = 1 + q /\ q = 1 + p /\ p \in Nat /\ n = p
          BY <2>1, <2>7
        <5> QED BY <1>8, <5>1
      <4> QED BY <3>2, <4>1 DEF Piece
    <3>6. Piece(Piece(C(l), 0, m), r, m) = Piece(C(l), r, m)
      <4>1. r <= m /\ m <= m /\ r \in Nat
        BY <1>7, <2>1, <2>12
      <4> QED BY <1>6, <1>7, <4>1, PieceOfFirst
    <3>7. Piece(h \o C(j), r, m) = Piece(C(j), 0, x)
      <4>1. PICK z \in Nat : z = 0 /\ Adds(Len(h), z, r) /\ Adds(Len(h), x, m) /\ z <= x
        BY <1>7, <2>1, <2>4, <3>4 DEF Adds
      <4>2. r \in Nat /\ m \in Nat /\ x \in Nat /\ x <= Len(C(j)) /\ h \in Seq(Tokens)
        BY <1>7, <2>1, <2>4, <3>4
      <4>3. Piece(h \o C(j), r, m) = Piece(C(j), z, x)
        BY <2>3, <4>1, <4>2, PieceBehind
      <4> QED BY <4>1, <4>3
    <3>8. wire' = Piece(C(j), 0, x)
      BY <1>12, <2>2, <3>5, <3>6, <3>7
    <3>9. <<>> \o wire' = wire'
      <4>1. wire' \in Seq(Tokens)
        <5>1. PICK z \in Nat : z = 0 /\ Adds(z, x, x)
          BY <3>4 DEF Adds
        <5>2. Piece(C(j), z, x) \in Seq(Tokens)
          BY <2>3, <3>4, <5>1, PieceOf
        <5> QED BY <3>8, <5>1, <5>2
      <4> QED BY <4>1
    <3>10. InChunks(N, wire', written')
      <4>1. v + j = N /\ j \in 0 .. N /\ x \in 0 .. Len(C(j)) /\ v \in Nat
        <5>1. v = o + p /\ o + l = N /\ j = l - p /\ o \in Nat /\ l \in Nat /\ p \in Nat
          BY <1>5, <1>7, <2>1, <2>9
        <5>2. v + j = N
          BY <5>1
        <5>3. x \in 0 .. Len(C(j))
          BY <2>5, <3>4
        <5> QED BY <2>1, <2>9, <5>2, <5>3
      <4>2. \E y \in 0 .. Len(NF!Chunked(N)[j]) : wire' = Piece(NF!Chunked(N)[j], 0, y)
        BY <3>8, <4>1 DEF C
      <4> QED BY <3>3, <4>1, <4>2 DEF InChunks
    <3>11. NF!Stream' = wire'
      BY <3>2, <3>9 DEF NF!Stream
    <3>12. InChunks(answer'.size, NF!Stream', written')
      BY <1>1, <3>10, <3>11 DEF N
    <3>13. BodyTyped'
      BY <1>1, <1>2, <3>2, <3>3 DEF BodyTyped
    <3> QED BY <1>1, <1>2, <3>2, <3>12, <3>13 DEF BodyInv, NF!Done
  <2> QED BY <2>11, <2>12
<1> QED BY <1>9, <1>10, <1>11

LEMMA RightStays == ASSUME BodyRight, UNCHANGED <<answer, written, came>> PROVE BodyRight'
<1>1. NF!Doubled' = NF!Doubled
  BY DEF NF!Doubled, NF!Again, NF!Least, NF!Body
<1> QED BY <1>1 DEF BodyRight
LEMMA NothingRead ==
    ASSUME NF!NotRead
    PROVE answer' \in [framing : NF!Framings, size : BodySizes] /\ written' \in Seq(Bytes) /\ came' \in Nat
<1>1. PICK n \in BodySizes : TRUE
  BY FetchAssumption
<1> QED BY <1>1 DEF NF!NotRead, NF!NoAnswer, NF!Framings

LEMMA BodyStep == ASSUME BodyInv, NF!Next PROVE BodyInv'
<1> USE DEF NF!Answer, NF!Request
<1>1. BodyTyped
  BY DEF BodyInv
<1>2. ASSUME NF!Answer, exitcode' \in {0, 1},
             \/ doing' \in {"robots", "resolve", "try", "handshake", "send"}
             \/ doing' \in {"end", "done"} /\ exitcode' = 1
      PROVE BodyInv'
  <2>1. BodyTyped'
    BY <1>1, <1>2 DEF BodyTyped
  <2> QED BY <1>2, <2>1, NotReading
<1>3. ASSUME NF!GiveUp, NF!Answer PROVE BodyInv'
  <2>1. written' \in Seq(Bytes)
    BY <1>1, <1>3 DEF BodyTyped
  <2> QED BY <1>1, <1>3, <2>1, BodyGivenUp
<1>4. exitcode \in {0, 1}
  BY <1>1 DEF BodyTyped
<1>5. CASE NF!Args
  <2>1. requested = {} /\ requested' = requested /\ doing' \in {"file", "done"} /\ exitcode' \in {0, 1}
    BY <1>4, <1>5 DEF NF!Args, BodyInv
  <2>2. BodyTyped'
    BY <1>1, <1>5, <2>1 DEF NF!Args, BodyTyped
  <2> QED BY <2>1, <2>2 DEF BodyInv, NF!Done
<1>6. CASE NF!OpenFile
  <2>1. NF!Answer /\ exitcode' \in {0, 1} /\ (doing' = "robots" \/ (doing' = "done" /\ exitcode' = 1))
    BY <1>4, <1>6 DEF NF!OpenFile
  <2> QED BY <1>2, <2>1
<1>7. CASE NF!Robots \/ NF!Resolve
  <2>1. NF!Answer /\ exitcode' \in {0, 1} /\ doing' \in {"resolve", "try"}
    BY <1>4, <1>7 DEF NF!Robots, NF!Resolve
  <2> QED BY <1>2, <2>1
<1>8. CASE NF!NoHead
  BY <1>3, <1>8 DEF NF!NoHead
<1>9. CASE NF!ReadChunk
  BY <1>9, BodyReadChunk
<1>10. CASE NF!End
  <2>1. doing = "end" /\ doing' = "done" /\ UNCHANGED <<answer, remain, written, came, exitcode>>
    BY <1>10 DEF NF!End
  <2>2. BodyTyped'
    BY <1>1, <2>1 DEF BodyTyped
  <2>3. exitcode = 0 => BodyRight
    BY <2>1 DEF BodyInv
  <2>4. exitcode = 0 => BodyRight'
    BY <2>1, <2>3, RightStays
  <2> QED BY <2>1, <2>2, <2>4 DEF BodyInv, NF!Done
<1>11. ASSUME NEW b \in BOOLEAN, NF!TryAddress(b) PROVE BodyInv'
  <2>1. NF!Answer /\ (NF!GiveUp \/ (exitcode' = exitcode /\ doing' \in {"handshake", "send"}) \/ (exitcode' = exitcode /\ doing' = "try"))
    BY <1>11 DEF NF!TryAddress
  <2> QED BY <1>2, <1>3, <1>4, <2>1
<1>12. ASSUME NEW b \in BOOLEAN, NF!Handshake(b) PROVE BodyInv'
  <2>1. NF!Answer /\ (NF!GiveUp \/ (exitcode' = exitcode /\ doing' = "send"))
    BY <1>12 DEF NF!Handshake
  <2> QED BY <1>2, <1>3, <1>4, <2>1
<1>13. ASSUME NEW f \in NF!Framings, NEW n \in BodySizes, NEW cut \in 0 .. Len(NF!Encoded([framing |-> f, size |-> n])),
              NF!Send([framing |-> f, size |-> n], cut) PROVE BodyInv'
  <2>1. [framing |-> f, size |-> n] \in [framing : NF!Framings, size : BodySizes]
    OBVIOUS
  <2> DEFINE a == [framing |-> f, size |-> n]
  <2>2. a \in [framing : NF!Framings, size : BodySizes] /\ cut \in 0 .. Len(NF!Encoded(a)) /\ NF!Send(a, cut)
    BY <1>13, <2>1
  <2> HIDE DEF a
  <2> QED BY <2>2, BodySend
<1>14. ASSUME NEW k, NF!ReadHead(k) PROVE BodyInv'
  BY <1>14, BodyReadHead
<1>15. ASSUME NEW k \in NF!Reads \cup {1}, NF!ReadRest(k) PROVE BodyInv'
  BY <1>15, BodyReadRest
<1>16. ASSUME NEW k \in NF!Reads \cup {1}, NF!ReadToEnd(k) PROVE BodyInv'
  BY <1>16, BodyReadToEnd
<1>17. ASSUME NEW status, NF!Answered(status) PROVE BodyInv'
  <2>1. doing = "answered" /\ exitcode' = exitcode /\ BodyRight
    BY <1>17 DEF NF!Answered, BodyInv
  <2>2. CASE wants = "page" \/ status = "ok"
    <3>1. doing' \in {"end", "rules"} /\ UNCHANGED <<answer, written, came>> /\ remain' \in {remain, 0}
      BY <1>17, <2>2 DEF NF!Answered
    <3>2. BodyRight'
      BY <2>1, <3>1, RightStays
    <3>3. BodyTyped'
      BY <1>1, <2>1, <3>1 DEF BodyTyped
    <3> QED BY <3>1, <3>2, <3>3 DEF BodyInv, NF!Done
  <2>3. CASE ~ (wants = "page" \/ status = "ok")
    <3>1. doing' = "resolve" /\ NF!NotRead /\ remain' = 0
      BY <1>17, <2>3 DEF NF!Answered
    <3>2. BodyTyped'
      BY <1>4, <2>1, <3>1, NothingRead DEF BodyTyped
    <3> QED BY <3>1, <3>2, NotReading
  <2> QED BY <2>2, <2>3
<1>18. CASE NF!Obey
  <2>1. NF!NotRead /\ remain' = remain /\ exitcode' \in {0, 1} /\ (doing' = "resolve" \/ (doing' = "end" /\ exitcode' = 1))
    BY <1>4, <1>18 DEF NF!Obey
  <2>2. BodyTyped'
    BY <1>1, <2>1, NothingRead DEF BodyTyped
  <2> QED BY <2>1, <2>2, NotReading
<1>19. ASSUME NEW l, NF!ReadLine(l) PROVE BodyInv'
  <2>1. NF!Answer /\ exitcode' = exitcode /\ doing = "rules" /\ doing' = "rules"
    BY <1>19 DEF NF!ReadLine
  <2>2. BodyTyped'
    BY <1>1, <2>1 DEF BodyTyped
  <2>3. BodyRight'
    BY <2>1, RightStays DEF BodyInv
  <2> QED BY <2>1, <2>2, <2>3 DEF BodyInv, NF!Done
<1> QED BY <1>5, <1>6, <1>7, <1>8, <1>9, <1>10, <1>11, <1>12, <1>13, <1>14, <1>15, <1>16, <1>17, <1>18, <1>19 DEF NF!Next, NF!FetchStep

LEMMA BodyStays == ASSUME BodyInv, UNCHANGED fetchVars PROVE BodyInv'
<1>1. UNCHANGED <<doing, requested, answer, wire, prefill, remain, written, exitcode, came>>
  BY DEF fetchVars
<1>2. BodyTyped' /\ (NF!Done <=> NF!Done') /\ NF!Stream' = NF!Stream
  BY <1>1 DEF BodyInv, BodyTyped, NF!Done, NF!Stream
<1>3. BodyRight => BodyRight'
  BY <1>1, RightStays
<1> QED BY <1>1, <1>2, <1>3 DEF BodyInv

LEMMA BodyIsRight == ASSUME BodyInv PROVE NF!BodyWritten
<1>1. SUFFICES ASSUME NF!Done \/ doing = "rules" PROVE BodyRight
  <2>1. answer.framing \in {"length", "chunked", "close"}
    BY SizeIsNat DEF BodyInv
  <2> QED BY <1>1, <2>1 DEF NF!BodyWritten, BodyRight
<1> QED BY <1>1 DEF BodyInv

FetchRest ==
    /\ options \in [ignore : BOOLEAN, tls : BOOLEAN, file : BOOLEAN] /\ addresses \in 0 .. MaxAddresses
    /\ requested \subseteq {"robots", "page"} /\ verdict \in {"unknown", "allowed", "denied"}
    /\ lines \in Seq(NF!LineKinds) /\ IF doing = "rules" THEN Len(lines) <= Len(written) ELSE lines = <<>>

LEMMA FetchRestInit == NF!Init => FetchRest
BY FetchAssumption DEF NF!Init, FetchRest

LEMMA FetchRestStep == ASSUME FetchInv, FetchRest, BodyInv, NF!Next PROVE FetchRest'
<1> USE DEF NF!Request, NF!Reading
<1>14. ASSUME NF!GiveUp PROVE doing' # "rules"
  BY <1>14 DEF NF!GiveUp
<1>1. ASSUME UNCHANGED <<options, addresses, requested, verdict, lines>>, doing # "rules", doing' # "rules" PROVE FetchRest'
  BY <1>1 DEF FetchRest
<1>2. ASSUME UNCHANGED <<options, requested, verdict, lines>>, addresses' \in 0 .. MaxAddresses, doing # "rules", doing' # "rules"
      PROVE FetchRest'
  BY <1>2 DEF FetchRest
<1>3. CASE NF!Args
  BY <1>3 DEF NF!Args, FetchRest
<1>4. CASE NF!OpenFile \/ NF!Robots \/ NF!NoHead \/ NF!ReadChunk \/ NF!End
  BY <1>1, <1>4, <1>14 DEF NF!OpenFile, NF!Robots, NF!NoHead, NF!ReadChunk, NF!End, NF!Succeeded
<1>5. CASE NF!Resolve
  BY <1>2, <1>5 DEF NF!Resolve
<1>6. ASSUME NEW b \in BOOLEAN, NF!TryAddress(b) PROVE FetchRest'
  <2>1. addresses \in 0 .. MaxAddresses /\ MaxAddresses \in Nat
    BY FetchAssumption DEF FetchRest
  <2>2. UNCHANGED <<options, requested, verdict, lines>> /\ (addresses' = addresses \/ (addresses # 0 /\ addresses' = addresses - 1))
    BY <1>6 DEF NF!TryAddress
  <2>3. addresses' \in 0 .. MaxAddresses
    BY <2>1, <2>2
  <2>4. doing # "rules" /\ doing' # "rules"
    BY <1>6, <1>14 DEF NF!TryAddress
  <2> QED BY <1>2, <2>2, <2>3, <2>4
<1>7. ASSUME NEW b \in BOOLEAN, NF!Handshake(b) PROVE FetchRest'
  BY <1>1, <1>7, <1>14 DEF NF!Handshake
<1>8. ASSUME NEW a, NEW cut, NF!Send(a, cut) PROVE FetchRest'
  <2>1. UNCHANGED <<options, addresses, verdict, lines>> /\ requested' \subseteq requested \cup {wants} /\ doing # "rules" /\ doing' # "rules"
    BY <1>8, <1>14 DEF NF!Send
  <2> QED BY <2>1 DEF FetchRest, FetchInv
<1>9. ASSUME NEW k, NF!ReadHead(k) \/ NF!ReadRest(k) \/ NF!ReadToEnd(k) PROVE FetchRest'
  <2>1. UNCHANGED <<options, addresses, requested, verdict, lines>> /\ doing # "rules"
    BY <1>9 DEF NF!ReadHead, NF!ReadRest, NF!ReadToEnd
  <2>2. CASE NF!ReadHead(k)
    <3>1. answer.framing \in {"length", "chunked", "close"}
      BY SizeIsNat DEF BodyInv
    <3> QED BY <1>1, <2>1, <2>2, <3>1 DEF NF!ReadHead
  <2>3. CASE NF!ReadRest(k) \/ NF!ReadToEnd(k)
    BY <1>1, <1>14, <2>1, <2>3 DEF NF!ReadRest, NF!ReadToEnd, NF!Succeeded
  <2> QED BY <1>9, <2>2, <2>3
<1>10. ASSUME NEW status, NF!Answered(status) PROVE FetchRest'
  <2>1. 0 \in 0 .. MaxAddresses
    BY FetchAssumption
  <2>2. UNCHANGED <<options, requested, verdict, lines>> /\ addresses' = 0 /\ lines = <<>>
    BY <1>10 DEF NF!Answered, FetchRest
  <2>3. doing' = "rules" => written' = written
    BY <1>10 DEF NF!Answered, NF!Answer
  <2>4. Len(<<>>) <= Len(written)
    <3>1. written \in Seq(Bytes)
      BY DEF BodyInv, BodyTyped
    <3> QED BY <3>1
  <2> QED BY <2>1, <2>2, <2>3, <2>4 DEF FetchRest
<1>11. CASE NF!Obey
  <2>1. lines' = <<>> /\ UNCHANGED <<options, addresses, requested>> /\ verdict' \in {"allowed", "denied"} /\ doing' # "rules"
    BY <1>11 DEF NF!Obey
  <2>2. <<>> \in Seq(NF!LineKinds)
    OBVIOUS
  <2> QED BY <2>1, <2>2 DEF FetchRest
<1>12. ASSUME NEW l \in NF!LineKinds, NF!ReadLine(l) PROVE FetchRest'
  <2>1. /\ Len(lines) < Len(written) /\ lines' = Append(lines, l) /\ UNCHANGED <<options, addresses, requested, verdict>>
        /\ doing' = "rules" /\ written' = written
    BY <1>12 DEF NF!ReadLine, NF!Answer
  <2>2. lines \in Seq(NF!LineKinds) /\ written \in Seq(Bytes)
    BY DEF FetchRest, BodyInv, BodyTyped
  <2>3. lines' \in Seq(NF!LineKinds) /\ Len(lines') = Len(lines) + 1
    BY <2>1, <2>2, AppendProperties
  <2>4. Len(lines') <= Len(written')
    <3>1. Len(lines) \in Nat /\ Len(written) \in Nat
      BY <2>2
    <3> QED BY <2>1, <2>3, <3>1
  <2> QED BY <2>1, <2>3, <2>4 DEF FetchRest
<1> QED BY <1>3, <1>4, <1>5, <1>6, <1>7, <1>8, <1>9, <1>10, <1>11, <1>12 DEF NF!Next, NF!FetchStep

LEMMA FetchRestStays == ASSUME FetchRest, UNCHANGED fetchVars PROVE FetchRest'
BY DEF FetchRest, fetchVars

LEMMA FetchIsTyped == ASSUME FetchInv, FetchRest, BodyInv PROVE NF!TypeOK
<1>1. BodyTyped
  BY DEF BodyInv
<1>2. \A k \in 1 .. Len(written) : written[k][1] = "byte"
  BY <1>1 DEF BodyTyped, Bytes
<1>3. Len(lines) <= Len(written)
  <2>1. written \in Seq(Bytes)
    BY <1>1 DEF BodyTyped
  <2> QED BY <2>1 DEF FetchRest
<1> QED BY <1>1, <1>2, <1>3 DEF FetchInv, FetchRest, BodyTyped, NF!TypeOK

\* After k lines it is known whether their agents name us, and which rule is the longest so far.
Tallies == [match : BOOLEAN, saw : BOOLEAN, best : Nat, allow : BOOLEAN]
Named(k) == \E i \in 1 .. k : lines[i] = <<"agent", 1>> /\ \A m \in i + 1 .. k : lines[m][1] # "blank"
Decides(j, k) ==
    /\ NF!Ours(j)
    /\ \A i \in 1 .. k : NF!Ours(i) => lines[i][2] < lines[j][2] \/ (lines[i][2] = lines[j][2] /\ j <= i)
Tallied(k, t) ==
    /\ t.match => t.saw
    /\ t.match <=> Named(k)
    /\ \/ t.best = 0 /\ t.allow /\ \A j \in 1 .. k : ~ NF!Ours(j)
       \/ \E j \in 1 .. k : Decides(j, k) /\ t.best = lines[j][2] /\ t.allow = (lines[j][1] = "allow")

LEMMA LineIs ==
    ASSUME lines \in Seq(NF!LineKinds), NEW j \in 1 .. Len(lines)
    PROVE /\ lines[j][1] \in {"agent", "blank", "junk", "allow", "deny"} /\ lines[j][2] \in Nat
          /\ lines[j] = <<lines[j][1], lines[j][2]>>
          /\ NF!IsRule(lines[j]) <=> lines[j][1] \in {"allow", "deny"}
<1>1. lines[j] \in NF!LineKinds
  OBVIOUS
<1> QED BY <1>1, FetchAssumption DEF NF!LineKinds, NF!IsRule

LEMMA OursIs ==
    ASSUME NEW j \in Nat, NEW k \in Nat, k + 1 = j
    PROVE NF!Ours(j) <=> NF!IsRule(lines[j]) /\ lines[j][2] > 0 /\ Named(k)
<1>1. j - 1 = k
  OBVIOUS
<1>2. \A i \in 1 .. k : NF!Between(i, j, NF!Blank) <=> \E m \in i + 1 .. k : lines[m][1] = "blank"
  BY <1>1 DEF NF!Between, NF!Blank
<1> QED BY <1>1, <1>2 DEF NF!Ours, Named

LEMMA AfterIs ==
    ASSUME NEW t \in Tallies, lines \in Seq(NF!LineKinds), NEW j \in 1 .. Len(lines)
    PROVE NF!After(t, lines[j]) \in Tallies
<1> DEFINE l == lines[j]
<1>1. l[2] \in Nat
  BY LineIs
<1> HIDE DEF l
<1>2. CASE l[1] = "agent"
  <2>1. NF!After(t, l) = [t EXCEPT !.match = (l[2] = 1 \/ (t.saw /\ t.match)), !.saw = TRUE]
    BY <1>2 DEF NF!After
  <2>2. (l[2] = 1 \/ (t.saw /\ t.match)) \in BOOLEAN
    OBVIOUS
  <2> QED BY <2>1, <2>2 DEF Tallies, l
<1>3. CASE l[1] = "blank"
  <2>1. NF!After(t, l) = [t EXCEPT !.match = FALSE, !.saw = FALSE]
    BY <1>3 DEF NF!After
  <2> QED BY <2>1 DEF Tallies, l
<1>4. CASE l[1] \notin {"agent", "blank"}
  <2>1. NF!After(t, l) = [t EXCEPT !.best = l[2], !.allow = (l[1] = "allow")] \/ NF!After(t, l) = t
    BY <1>4 DEF NF!After
  <2>2. (l[1] = "allow") \in BOOLEAN
    OBVIOUS
  <2> QED BY <1>1, <2>1, <2>2 DEF Tallies, l
<1> QED BY <1>2, <1>3, <1>4

LEMMA TalliedAfter ==
    ASSUME lines \in Seq(NF!LineKinds), NEW j \in 1 .. Len(lines), NEW k \in Nat, k + 1 = j,
           NEW t \in Tallies, Tallied(k, t)
    PROVE Tallied(j, NF!After(t, lines[j]))
<1> DEFINE l == lines[j]
           u == NF!After(t, l)
<1>1. /\ l[1] \in {"agent", "blank", "junk", "allow", "deny"} /\ l[2] \in Nat /\ l = <<l[1], l[2]>>
      /\ NF!IsRule(l) <=> l[1] \in {"allow", "deny"}
  BY LineIs
<1>2. NF!Ours(j) <=> NF!IsRule(l) /\ l[2] > 0 /\ t.match
  BY OursIs DEF Tallied
<1>3. \A i : i \in 1 .. j <=> i \in 1 .. k \/ i = j
  OBVIOUS
<1>4. t.match \in BOOLEAN /\ t.saw \in BOOLEAN /\ t.best \in Nat /\ t.allow \in BOOLEAN /\ u \in Tallies
  BY AfterIs DEF Tallies
<1>5. t.match => t.saw
  BY DEF Tallied
<1>6. /\ l = <<"agent", 1>> => Named(j)
      /\ l[1] = "blank" => ~ Named(j)
      /\ l # <<"agent", 1>> /\ l[1] # "blank" => (Named(j) <=> Named(k))
  <2>1. \A i \in 1 .. k : \A m : m \in i + 1 .. j <=> m \in i + 1 .. k \/ m = j
    OBVIOUS
  <2>2. \A m \in j + 1 .. j : FALSE
    OBVIOUS
  <2>3. l = <<"agent", 1>> => l[1] # "blank"
    OBVIOUS
  <2> QED BY <1>3, <2>1, <2>2, <2>3 DEF Named
<1>7. u.match => u.saw
  BY <1>4, <1>5 DEF NF!After, Tallies
<1>8. u.match <=> Named(j)
  <2>1. t.match <=> Named(k)
    BY DEF Tallied
  <2>2. CASE l[1] = "agent"
    <3>1. u.match = (l[2] = 1 \/ (t.saw /\ t.match))
      BY <2>2, <1>4 DEF NF!After, Tallies
    <3>2. l[2] = 1 <=> l = <<"agent", 1>>
      BY <1>1, <2>2
    <3> HIDE DEF u, l
    <3> QED BY <1>5, <1>6, <2>1, <2>2, <3>1, <3>2, Zenon
  <2>3. CASE l[1] = "blank"
    <3>1. u.match = FALSE
      BY <2>3, <1>4 DEF NF!After, Tallies
    <3> QED BY <1>6, <2>3, <3>1
  <2>4. CASE l[1] \notin {"agent", "blank"}
    <3>1. u.match = t.match
      BY <2>4, <1>4 DEF NF!After, Tallies
    <3>2. l # <<"agent", 1>>
      BY <2>4
    <3> QED BY <1>6, <2>1, <2>4, <3>1, <3>2
  <2> QED BY <2>2, <2>3, <2>4
<1>9. CASE NF!IsRule(l) /\ t.match /\ l[2] > t.best
  <2>1. u.best = l[2] /\ u.allow = (l[1] = "allow")
    BY <1>1, <1>4, <1>9 DEF NF!After, Tallies
  <2>2. NF!Ours(j)
    BY <1>1, <1>2, <1>4, <1>9
  <2>3. \A i \in 1 .. k : NF!Ours(i) => lines[i][2] < l[2]
    <3>1. ASSUME NEW i \in 1 .. k, NF!Ours(i) PROVE lines[i][2] < l[2]
      <4>1. PICK m \in 1 .. k : Decides(m, k) /\ t.best = lines[m][2]
        BY <3>1 DEF Tallied
      <4>2. lines[i][2] <= t.best
        <5>1. lines[i][2] \in Nat
          BY <1>3, LineIs
        <5>2. lines[i][2] < lines[m][2] \/ (lines[i][2] = lines[m][2] /\ m <= i)
          BY <3>1, <4>1 DEF Decides
        <5> QED BY <1>4, <4>1, <5>1, <5>2
      <4>3. lines[i][2] \in Nat
        BY <1>3, LineIs
      <4> QED BY <1>1, <1>4, <1>9, <4>2, <4>3
    <3> QED BY <3>1
  <2>4. Decides(j, j)
    BY <1>3, <2>2, <2>3 DEF Decides
  <2> QED BY <1>7, <1>8, <2>1, <2>4 DEF Tallied
<1>10. CASE ~ (NF!IsRule(l) /\ t.match /\ l[2] > t.best)
  <2>1. u.best = t.best /\ u.allow = t.allow
    BY <1>1, <1>4, <1>10 DEF NF!After, Tallies
  <2>2. NF!Ours(j) => l[2] <= t.best /\ t.best > 0
    BY <1>1, <1>2, <1>4, <1>10
  <2>3. CASE \E m \in 1 .. k : Decides(m, k) /\ t.best = lines[m][2] /\ t.allow = (lines[m][1] = "allow")
    <3>1. PICK m \in 1 .. k : Decides(m, k) /\ t.best = lines[m][2] /\ t.allow = (lines[m][1] = "allow")
      BY <2>3
    <3>2. NF!Ours(j) => l[2] < lines[m][2] \/ (l[2] = lines[m][2] /\ m <= j)
      BY <1>1, <1>4, <2>2, <3>1
    <3>3. Decides(m, j)
      BY <1>3, <3>1, <3>2 DEF Decides
    <3>4. m \in 1 .. j
      BY <1>3
    <3> QED BY <1>7, <1>8, <2>1, <3>1, <3>3, <3>4 DEF Tallied
  <2>4. CASE t.best = 0 /\ t.allow /\ \A m \in 1 .. k : ~ NF!Ours(m)
    <3>1. ~ NF!Ours(j)
      BY <2>2, <2>4
    <3>2. \A m \in 1 .. j : ~ NF!Ours(m)
      BY <1>3, <2>4, <3>1
    <3> QED BY <1>7, <1>8, <2>1, <2>4, <3>2 DEF Tallied
  <2> QED BY <2>3, <2>4 DEF Tallied
<1> QED BY <1>9, <1>10

LEMMA RulesRight == ASSUME lines \in Seq(NF!LineKinds) PROVE Tallied(Len(lines), NF!Rules) /\ NF!Rules.allow \in BOOLEAN
<1> DEFINE N == Len(lines)
           E == [q \in (1 .. N) \X Tallies |-> NF!After(q[2], lines[q[1]])]
           f0 == NF!RulesTo
<1>1. N \in Nat
  OBVIOUS
<1>2. NF!NoRules \in Tallies
  BY DEF NF!NoRules, Tallies
<1>3. E \in Onward(N, Tallies)
  <2>1. ASSUME NEW n \in 1 .. N, NEW t \in Tallies PROVE NF!After(t, lines[n]) \in Tallies
    BY AfterIs
  <2> QED BY <2>1 DEF Onward
<1>4. \A n \in 1 .. N, t \in Tallies : E[<<n, t>>] = NF!After(t, lines[n])
  OBVIOUS
<1> HIDE DEF E
<1>14. PICK f \in Courses(N, Tallies) : Recurs(f, NF!NoRules, E, N)
  <2> HIDE DEF N
  <2> QED BY <1>1, <1>2, <1>3, Recurrence
<1>5. f \in [0 .. N -> Tallies] /\ f[0] = NF!NoRules /\ \A n \in 1 .. N : f[n] = E[<<n, f[n - 1]>>]
  BY <1>14 DEF Courses, Recurs
<1>6. f = [k \in 0 .. N |-> IF k = 0 THEN NF!NoRules ELSE NF!After(f[k - 1], lines[k])]
  <2>1. \A n \in 1 .. N : f[n] = NF!After(f[n - 1], lines[n])
    <3>1. ASSUME NEW n \in 1 .. N PROVE f[n] = NF!After(f[n - 1], lines[n])
      <4>1. n - 1 \in 0 .. N
        BY <1>1
      <4> QED BY <1>4, <1>5, <4>1
    <3> QED BY <3>1
  <2>2. \A k \in 0 .. N : k = 0 \/ k \in 1 .. N
    BY <1>1
  <2> HIDE DEF N
  <2> QED BY <1>5, <2>1, <2>2
<1>7. f0 = CHOOSE h : h = [k \in 0 .. N |-> IF k = 0 THEN NF!NoRules ELSE NF!After(h[k - 1], lines[k])]
  BY DEF NF!RulesTo
<1>8. f0 = [k \in 0 .. N |-> IF k = 0 THEN NF!NoRules ELSE NF!After(f0[k - 1], lines[k])]
  BY <1>6, <1>7
<1> HIDE DEF f0
<1> DEFINE Wrong == {k \in 0 .. N : ~ (f0[k] \in Tallies /\ Tallied(k, f0[k]))}
<1>9. 0 \notin Wrong
  <2>1. f0[0] = NF!NoRules
    BY <1>1, <1>8
  <2>2. ~ Named(0) /\ \A j \in 1 .. 0 : FALSE
    BY DEF Named
  <2>3. Tallied(0, NF!NoRules)
    BY <2>2 DEF Tallied, NF!NoRules
  <2> QED BY <1>2, <2>1, <2>3
<1>10. ASSUME NEW m \in 1 .. N, m - 1 \notin Wrong PROVE m \notin Wrong
  <2>1. PICK k \in Nat : k + 1 = m /\ k = m - 1 /\ k \in 0 .. N
    BY <1>1
  <2>2. f0[k] \in Tallies /\ Tallied(k, f0[k])
    BY <1>10, <2>1
  <2>3. f0[m] = NF!After(f0[k], lines[m])
    BY <1>1, <1>8, <2>1
  <2>4. NF!After(f0[k], lines[m]) \in Tallies
    BY <2>2, AfterIs
  <2>5. Tallied(m, NF!After(f0[k], lines[m]))
    BY <2>1, <2>2, TalliedAfter
  <2> QED BY <2>3, <2>4, <2>5
<1>11. Wrong \subseteq 0 .. N
  OBVIOUS
<1>12. Wrong = {}
  <2> HIDE DEF Wrong, N
  <2> QED BY <1>1, <1>9, <1>10, <1>11, Climb
<1>13. f0[N] \in Tallies /\ Tallied(N, f0[N])
  <2>1. N \in 0 .. N
    BY <1>1
  <2> HIDE DEF N
  <2> QED BY <1>12, <2>1
<1> QED BY <1>13 DEF NF!Rules, f0, Tallies

LEMMA VerdictIsRight == ASSUME FetchRest PROVE NF!VerdictRight
<1>1. lines \in Seq(NF!LineKinds)
  BY DEF FetchRest
<1>2. Tallied(Len(lines), NF!Rules) /\ NF!Rules.allow \in BOOLEAN
  BY <1>1, RulesRight
<1> QED BY <1>2 DEF Tallied, Decides, NF!VerdictRight, NF!Allowed

-----------------------------------------------------------------------------
(* TLS sessions *)

SlotsWith(x) == {s \in 1 .. Slots : table[s].session = x}
HeldBy(x) == {t \in Threads : connection[t].held = x}
ShakenWith(x) == {t \in Threads : connection[t].held = x /\ connection[t].step = "shaken"}

Entries == [host : Hosts \cup {""}, session : 0 .. MaxSessions, gen : Nat]
Steps == {"closed", "open", "set", "shaken", "connected"}
Connections == [step : Steps, host : Hosts \cup {""}, held : 0 .. MaxSessions]
TableInv ==
    /\ table \in [1 .. Slots -> Entries] /\ clock \in Nat
    /\ references \in [NS!Sessions -> Int] /\ connection \in [Threads -> Connections]
    /\ \A t \in Threads : connection[t].step = "closed" => connection[t].held = 0
    /\ \A t \in Threads : connection[t].step = "shaken" => connection[t].held # 0
    /\ \A x \in NS!Sessions :
          references[x] = Cardinality(SlotsWith(x)) + Cardinality(HeldBy(x)) + Cardinality(ShakenWith(x))

\* Without a free slot, the one that gives way was used before all the others.
LEMMA VictimRight ==
    ASSUME TableInv
    PROVE /\ NS!Victim \in 1 .. Slots
          /\ \/ table[NS!Victim].session = 0
             \/ \A o \in 1 .. Slots : table[o].session # 0 /\ table[NS!Victim].gen <= table[o].gen
<1> DEFINE free == {s \in 1 .. Slots : table[s].session = 0}
<1>1. CASE free # {}
  <2>1. \E s \in free : \A o \in free : s <= o
    <3>1. free \in SUBSET Nat
      OBVIOUS
    <3> HIDE DEF free
    <3> QED BY <1>1, <3>1, SmallestOfNumbers
  <2>2. NS!Victim = CHOOSE s \in free : \A o \in free : s <= o
    BY <1>1 DEF NS!Victim
  <2>3. NS!Victim \in free
    <3> HIDE DEF free
    <3> QED BY <2>1, <2>2
  <2> QED BY <2>3
<1>2. CASE free = {}
  <2> DEFINE Gens == {table[o].gen : o \in 1 .. Slots}
  <2>1. \A o \in 1 .. Slots : table[o].gen \in Nat
    BY DEF TableInv, Entries
  <2>2. Gens \in SUBSET Nat /\ Gens # {}
    <3>1. 1 \in 1 .. Slots
      BY SessionsAssumption
    <3> QED BY <2>1, <3>1
  <2>3. \E g \in Gens : \A k \in Gens : g <= k
    <3> HIDE DEF Gens
    <3> QED BY <2>2, SmallestOfNumbers
  <2>4. \E s \in 1 .. Slots : \A o \in 1 .. Slots : table[s].gen <= table[o].gen
    BY <2>3
  <2>5. NS!Victim = CHOOSE s \in 1 .. Slots : \A o \in 1 .. Slots : table[s].gen <= table[o].gen
    BY <1>2 DEF NS!Victim
  <2>6. \A o \in 1 .. Slots : table[o].session # 0
    BY <1>2
  <2> QED BY <2>4, <2>5, <2>6
<1> QED BY <1>1, <1>2

Same(a, b) == IF a = b THEN 1 ELSE 0
In(e, Some) == IF e \in Some THEN 1 ELSE 0
Shaken(c, x) == IF c.held = x /\ c.step = "shaken" THEN 1 ELSE 0

\* Two subsets that differ in one element at most
LEMMA DifferInOne ==
    ASSUME NEW Some, IsFiniteSet(Some), NEW A \in SUBSET Some, NEW Z \in SUBSET Some, NEW e,
           \A o \in Some \ {e} : o \in A <=> o \in Z
    PROVE Cardinality(A) \in Nat /\ Cardinality(Z) = Cardinality(A) + In(e, Z) - In(e, A)
<1>1. IsFiniteSet(A) /\ IsFiniteSet(Z)
  BY FS_Subset
<1>2. A \ {e} = Z \ {e}
  OBVIOUS
<1>3. Cardinality(A) \in Nat /\ Cardinality(Z) \in Nat
  BY <1>1, FS_CardinalityType
<1>4. /\ Cardinality(A \ {e}) = IF e \in A THEN Cardinality(A) - 1 ELSE Cardinality(A)
      /\ Cardinality(Z \ {e}) = IF e \in Z THEN Cardinality(Z) - 1 ELSE Cardinality(Z)
  BY <1>1, FS_RemoveElement
<1>5. Cardinality(A \ {e}) = Cardinality(Z \ {e})
  BY <1>2
<1>6. CASE e \in A
  BY <1>3, <1>4, <1>5, <1>6 DEF In
<1>7. CASE e \notin A
  BY <1>3, <1>4, <1>5, <1>7 DEF In
<1> QED BY <1>6, <1>7

\* How the counts follow when one slot and one connection change.
LEMMA CountsFollow ==
    ASSUME TableInv, NEW t \in Threads, NEW s \in 1 .. Slots, NEW x \in NS!Sessions,
           \A u \in Threads \ {t} : connection'[u] = connection[u],
           \A o \in 1 .. Slots \ {s} : table'[o].session = table[o].session,
           references'[x] = references[x]
               + (Same(table'[s].session, x) - Same(table[s].session, x))
               + (Same(connection'[t].held, x) - Same(connection[t].held, x))
               + (Shaken(connection'[t], x) - Shaken(connection[t], x))
    PROVE references'[x] = Cardinality(SlotsWith(x)') + Cardinality(HeldBy(x)') + Cardinality(ShakenWith(x)')
<1>1. IsFiniteSet(1 .. Slots) /\ IsFiniteSet(Threads)
  BY SessionsAssumption, FS_Interval
<1>2. /\ Cardinality(SlotsWith(x)) \in Nat
      /\ Cardinality(SlotsWith(x)') = Cardinality(SlotsWith(x)) + In(s, SlotsWith(x)') - In(s, SlotsWith(x))
  <2>1. \A o \in 1 .. Slots \ {s} : o \in SlotsWith(x) <=> o \in SlotsWith(x)'
    BY DEF SlotsWith
  <2>2. SlotsWith(x) \in SUBSET (1 .. Slots) /\ SlotsWith(x)' \in SUBSET (1 .. Slots)
    BY DEF SlotsWith
  <2>3. PICK All : All = 1 .. Slots
    OBVIOUS
  <2>4. PICK A, Z : A = SlotsWith(x) /\ Z = SlotsWith(x)'
    OBVIOUS
  <2>5. IsFiniteSet(All) /\ \A o \in All \ {s} : o \in A <=> o \in Z
    BY <1>1, <2>1, <2>3, <2>4
  <2>6. A \in SUBSET All /\ Z \in SUBSET All
    BY <2>2, <2>3, <2>4
  <2>7. Cardinality(A) \in Nat /\ Cardinality(Z) = Cardinality(A) + In(s, Z) - In(s, A)
    BY <2>5, <2>6, DifferInOne
  <2> QED BY <2>4, <2>7
<1>3. /\ Cardinality(HeldBy(x)) \in Nat
      /\ Cardinality(HeldBy(x)') = Cardinality(HeldBy(x)) + In(t, HeldBy(x)') - In(t, HeldBy(x))
  <2>1. \A o \in Threads \ {t} : o \in HeldBy(x) <=> o \in HeldBy(x)'
    BY DEF HeldBy
  <2>2. HeldBy(x) \in SUBSET Threads /\ HeldBy(x)' \in SUBSET Threads
    BY DEF HeldBy
  <2> QED BY <1>1, <2>1, <2>2, DifferInOne
<1>4. /\ Cardinality(ShakenWith(x)) \in Nat
      /\ Cardinality(ShakenWith(x)') = Cardinality(ShakenWith(x)) + In(t, ShakenWith(x)') - In(t, ShakenWith(x))
  <2>1. \A o \in Threads \ {t} : o \in ShakenWith(x) <=> o \in ShakenWith(x)'
    BY DEF ShakenWith
  <2>2. ShakenWith(x) \in SUBSET Threads /\ ShakenWith(x)' \in SUBSET Threads
    BY DEF ShakenWith
  <2> QED BY <1>1, <2>1, <2>2, DifferInOne
<1>5. /\ In(s, SlotsWith(x)') = Same(table'[s].session, x) /\ In(s, SlotsWith(x)) = Same(table[s].session, x)
      /\ In(t, HeldBy(x)') = Same(connection'[t].held, x) /\ In(t, HeldBy(x)) = Same(connection[t].held, x)
      /\ In(t, ShakenWith(x)') = Shaken(connection'[t], x)
      /\ In(t, ShakenWith(x)) = Shaken(connection[t], x)
  BY DEF Same, In, Shaken, SlotsWith, HeldBy, ShakenWith
<1>6. references[x] = Cardinality(SlotsWith(x)) + Cardinality(HeldBy(x)) + Cardinality(ShakenWith(x))
  BY DEF TableInv
<1> DEFINE a1 == Same(table'[s].session, x)  a0 == Same(table[s].session, x)
           b1 == Same(connection'[t].held, x)  b0 == Same(connection[t].held, x)
           c1 == Shaken(connection'[t], x)
           c0 == Shaken(connection[t], x)
<1>7. {a0, a1, b0, b1, c0, c1} \subseteq Int
  BY DEF Same, Shaken
<1>8. references'[x] = references[x] + (a1 - a0) + (b1 - b0) + (c1 - c0)
  OBVIOUS
<1>9. /\ Cardinality(SlotsWith(x)') = Cardinality(SlotsWith(x)) + a1 - a0
      /\ Cardinality(HeldBy(x)') = Cardinality(HeldBy(x)) + b1 - b0
      /\ Cardinality(ShakenWith(x)') = Cardinality(ShakenWith(x)) + c1 - c0
  BY <1>2, <1>3, <1>4, <1>5
<1> HIDE DEF a0, a1, b0, b1, c0, c1
<1> QED BY <1>2, <1>3, <1>4, <1>6, <1>7, <1>8, <1>9

LEMMA ConnectionIs ==
    ASSUME NEW k \in Steps, NEW h \in Hosts \cup {""}, NEW x \in 0 .. MaxSessions
    PROVE  [step |-> k, host |-> h, held |-> x] \in Connections
BY DEF Connections

LEMMA EntryIs ==
    ASSUME NEW h \in Hosts \cup {""}, NEW x \in 0 .. MaxSessions, NEW g \in Nat
    PROVE  [host |-> h, session |-> x, gen |-> g] \in Entries
BY DEF Entries

LEMMA NoSession == 0 \in 0 .. MaxSessions /\ NS!Sessions \subseteq 0 .. MaxSessions
BY SessionsAssumption DEF NS!Sessions

\* A step of a thread changes its connection, an entry of the table, and references by as much.
LEMMA TableFollows ==
    ASSUME TableInv, NEW t \in Threads, NEW s \in 1 .. Slots, NEW c \in Connections, NEW e \in Entries,
           connection' = [connection EXCEPT ![t] = c], table' = [table EXCEPT ![s] = e], clock' \in Nat,
           references' \in [NS!Sessions -> Int],
           c.step = "closed" => c.held = 0, c.step = "shaken" => c.held # 0,
           \A x \in NS!Sessions : references'[x] = references[x]
               + (Same(e.session, x) - Same(table[s].session, x))
               + (Same(c.held, x) - Same(connection[t].held, x))
               + (Shaken(c, x) - Shaken(connection[t], x))
    PROVE TableInv'
<1>1. /\ connection' \in [Threads -> Connections] /\ connection'[t] = c
      /\ \A u \in Threads \ {t} : connection'[u] = connection[u]
  BY DEF TableInv
<1>2. /\ table' \in [1 .. Slots -> Entries] /\ table'[s] = e
      /\ \A o \in 1 .. Slots \ {s} : table'[o] = table[o]
  BY DEF TableInv
<1>3. /\ \A u \in Threads : connection'[u].step = "closed" => connection'[u].held = 0
      /\ \A u \in Threads : connection'[u].step = "shaken" => connection'[u].held # 0
  BY <1>1 DEF TableInv
<1>4. ASSUME NEW x \in NS!Sessions
      PROVE references'[x] = Cardinality(SlotsWith(x)') + Cardinality(HeldBy(x)') + Cardinality(ShakenWith(x)')
  BY <1>1, <1>2, CountsFollow
<1>5. \A x \in NS!Sessions :
          references'[x] = Cardinality(SlotsWith(x))' + Cardinality(HeldBy(x))' + Cardinality(ShakenWith(x))'
  BY <1>4
<1> QED BY <1>1, <1>2, <1>3, <1>5 DEF TableInv, NS!Sessions

LEMMA TakingCounts ==
    ASSUME TableInv, NEW x \in 0 .. MaxSessions, NEW n \in Int
    PROVE /\ NS!Taking(x, n) \in [NS!Sessions -> Int]
          /\ \A y \in NS!Sessions : NS!Taking(x, n)[y] = references[y] + (IF y = x THEN n ELSE 0)
BY DEF TableInv, NS!Taking, NS!Sessions

\* When only connection t changes, nothing happens to the entry of slot 1.
LEMMA ConnectionFollows ==
    ASSUME TableInv, NEW t \in Threads, NEW c \in Connections,
           connection' = [connection EXCEPT ![t] = c], UNCHANGED <<table, clock>>,
           references' \in [NS!Sessions -> Int],
           c.step = "closed" => c.held = 0, c.step = "shaken" => c.held # 0,
           \A x \in NS!Sessions : references'[x] = references[x]
               + (Same(c.held, x) - Same(connection[t].held, x))
               + (Shaken(c, x) - Shaken(connection[t], x))
    PROVE TableInv'
<1> DEFINE e == table[1]
<1>1. 1 \in 1 .. Slots
  BY SessionsAssumption
<1>2. e \in Entries /\ table' = [table EXCEPT ![1] = e] /\ clock' \in Nat
  BY <1>1 DEF TableInv
<1>3. \A x \in NS!Sessions : references'[x] = references[x]
               + (Same(e.session, x) - Same(table[1].session, x))
               + (Same(c.held, x) - Same(connection[t].held, x))
               + (Shaken(c, x) - Shaken(connection[t], x))
  BY DEF TableInv, Same, Shaken
<1> HIDE DEF e
<1> QED BY <1>1, <1>2, <1>3, TableFollows

LEMMA TableInit == NS!Init => TableInv
<1> SUFFICES ASSUME NS!Init PROVE TableInv
  OBVIOUS
<1>1. /\ table \in [1 .. Slots -> Entries] /\ clock \in Nat
      /\ references \in [NS!Sessions -> Int] /\ connection \in [Threads -> Connections]
  <2>1. NS!Free \in Entries /\ NS!Closed \in Connections
    BY NoSession DEF NS!Free, NS!Closed, Entries, Connections, Steps
  <2> QED BY <2>1 DEF NS!Init
<1>2. \A t \in Threads : connection[t].step = "closed" /\ connection[t].held = 0
  BY DEF NS!Init, NS!Closed
<1>3. ASSUME NEW x \in NS!Sessions PROVE SlotsWith(x) = {} /\ HeldBy(x) = {} /\ ShakenWith(x) = {} /\ references[x] = 0
  <2>1. x # 0
    BY <1>3 DEF NS!Sessions
  <2>2. \A s \in 1 .. Slots : table[s].session = 0
    BY DEF NS!Init, NS!Free
  <2>3. references[x] = 0
    BY <1>3 DEF NS!Init
  <2> QED BY <1>2, <2>1, <2>2, <2>3 DEF SlotsWith, HeldBy, ShakenWith
<1>4. Cardinality({}) = 0
  BY FS_EmptySet
<1>5. \A x \in NS!Sessions : references[x] = Cardinality(SlotsWith(x)) + Cardinality(HeldBy(x)) + Cardinality(ShakenWith(x))
  <2>1. ASSUME NEW x \in NS!Sessions
        PROVE references[x] = Cardinality(SlotsWith(x)) + Cardinality(HeldBy(x)) + Cardinality(ShakenWith(x))
    <3>1. Cardinality(SlotsWith(x)) = 0 /\ Cardinality(HeldBy(x)) = 0 /\ Cardinality(ShakenWith(x)) = 0 /\ references[x] = 0
      BY <1>3, <1>4, <2>1
    <3> QED BY <3>1
  <2> QED BY <2>1
<1> QED BY <1>1, <1>2, <1>5 DEF TableInv

LEMMA TableStep == ASSUME TableInv, NS!Next PROVE TableInv'
<1> PICK t \in Threads :
        \/ NS!Set(t) \/ NS!Close(t) \/ (\E x \in {0} \cup NS!Sessions : NS!Shake(t, x))
        \/ NS!Put(t) \/ (\E h \in Hosts : NS!Get(t, h))
  BY DEF NS!Next
<1> DEFINE own == connection[t]
<1>0. /\ own \in Connections /\ own.held \in 0 .. MaxSessions
      /\ own.step = "closed" => own.held = 0
      /\ own.step = "shaken" => own.held # 0
  BY DEF TableInv, Connections
<1>00. \A y \in NS!Sessions : references[y] \in Int
  BY DEF TableInv
<1>000. own.host \in Hosts \cup {""}
  BY <1>0 DEF Connections
<1>1. CASE NS!Set(t)
  <2> DEFINE c == [own EXCEPT !.step = "set"]
  <2>1. own.step = "open" /\ connection' = [connection EXCEPT ![t] = c] /\ UNCHANGED <<table, clock, references>>
    BY <1>1 DEF NS!Set, TableInv
  <2>2. c \in Connections /\ c.held = own.held /\ c.step = "set"
    BY <1>0 DEF Connections, Steps
  <2>3. references' \in [NS!Sessions -> Int]
    BY <2>1 DEF TableInv
  <2> HIDE DEF c
  <2>4. \A y \in NS!Sessions : references'[y] = references[y]
             + (Same(c.held, y) - Same(own.held, y)) + (Shaken(c, y) - Shaken(own, y))
    BY <2>1, <2>2, <2>3, <1>00 DEF Same, Shaken
  <2> QED BY <2>1, <2>2, <2>3, <2>4, ConnectionFollows
<1>2. CASE NS!Close(t)
  <2> DEFINE c == NS!Closed
  <2>1. own.step = "connected" /\ connection' = [connection EXCEPT ![t] = c] /\ UNCHANGED <<table, clock>> /\ references' = NS!Taking(own.held, -1)
    BY <1>2 DEF NS!Close
  <2>2. c \in Connections /\ c.held = 0 /\ c.step = "closed"
    BY NoSession DEF Connections, Steps, NS!Closed
  <2>3. references' \in [NS!Sessions -> Int] /\ \A y \in NS!Sessions : references'[y] = references[y] + (IF y = own.held THEN -1 ELSE 0)
    BY <2>1, <1>0, TakingCounts
  <2>4. \A y \in NS!Sessions : y # 0
    BY DEF NS!Sessions
  <2> HIDE DEF c
  <2>5. \A y \in NS!Sessions : references'[y] = references[y]
             + (Same(c.held, y) - Same(own.held, y)) + (Shaken(c, y) - Shaken(own, y))
    BY <2>1, <2>2, <2>3, <2>4, <1>00 DEF Same, Shaken
  <2> QED BY <2>1, <2>2, <2>3, <2>4, <2>5, ConnectionFollows
<1>3. ASSUME NEW x \in {0} \cup NS!Sessions, NS!Shake(t, x) PROVE TableInv'
  <2>0. own.step = "set" /\ UNCHANGED <<table, clock>> /\ \A y \in NS!Sessions : y # 0
    BY <1>3 DEF NS!Shake, NS!Sessions
  <2>1. CASE connection' = [connection EXCEPT ![t] = NS!Closed] /\ references' = NS!Taking(own.held, -1)
    <3> DEFINE c == NS!Closed
    <3>1. connection' = [connection EXCEPT ![t] = c]
      BY <2>1
    <3>2. c \in Connections /\ c.held = 0 /\ c.step = "closed"
      BY NoSession DEF Connections, Steps, NS!Closed
    <3>3. references' \in [NS!Sessions -> Int] /\ \A y \in NS!Sessions : references'[y] = references[y] + (IF y = own.held THEN -1 ELSE 0)
      BY <2>1, <1>0, TakingCounts
    <3> HIDE DEF c
    <3>4. \A y \in NS!Sessions : references'[y] = references[y]
               + (Same(c.held, y) - Same(own.held, y)) + (Shaken(c, y) - Shaken(own, y))
      BY <2>0, <3>1, <3>2, <3>3, <1>00 DEF Same, Shaken
    <3> QED BY <2>0, <3>1, <3>2, <3>3, <3>4, ConnectionFollows
  <2>2. CASE /\ x \in NS!Sessions /\ x = own.held
             /\ connection' = [connection EXCEPT ![t].step = "shaken"] /\ references' = NS!Taking(x, 1)
    <3> DEFINE c == [own EXCEPT !.step = "shaken"]
    <3>1. connection' = [connection EXCEPT ![t] = c]
      BY <2>2 DEF TableInv
    <3>2. c \in Connections /\ c.held = x /\ c.step = "shaken"
      BY <1>0, <2>2 DEF Connections, Steps
    <3>3. references' \in [NS!Sessions -> Int] /\ \A y \in NS!Sessions : references'[y] = references[y] + (IF y = x THEN 1 ELSE 0)
      BY <2>2, <1>0, TakingCounts
    <3> HIDE DEF c
    <3>4. \A y \in NS!Sessions : references'[y] = references[y]
               + (Same(c.held, y) - Same(own.held, y)) + (Shaken(c, y) - Shaken(own, y))
      BY <2>0, <2>2, <3>1, <3>2, <3>3, <1>00 DEF Same, Shaken
    <3> QED BY <2>0, <2>2, <3>1, <3>2, <3>3, <3>4, ConnectionFollows
  <2>3. CASE /\ x \in NS!Sessions /\ references[x] = 0
             /\ connection' = [connection EXCEPT ![t] = [step |-> "shaken", host |-> own.host, held |-> x]]
             /\ references' = [NS!Taking(own.held, -1) EXCEPT ![x] = 2]
    <3> DEFINE c == [step |-> "shaken", host |-> own.host, held |-> x]
    <3>1. connection' = [connection EXCEPT ![t] = c]
      BY <2>3
    <3>2. c \in Connections /\ c.held = x /\ c.step = "shaken"
      <4>1. own.host \in Hosts \cup {""} /\ x \in 0 .. MaxSessions /\ "shaken" \in Steps
        BY <1>0, <2>3, NoSession DEF Connections, Steps
      <4> QED BY <4>1, ConnectionIs
    <3>3. /\ references' \in [NS!Sessions -> Int] /\ references'[x] = 2
          /\ \A y \in NS!Sessions \ {x} : references'[y] = references[y] + (IF y = own.held THEN -1 ELSE 0)
      <4>1. /\ NS!Taking(own.held, -1) \in [NS!Sessions -> Int]
            /\ \A y \in NS!Sessions : NS!Taking(own.held, -1)[y] = references[y] + (IF y = own.held THEN -1 ELSE 0)
        BY <1>0, TakingCounts
      <4> QED BY <2>3, <4>1
    \* A session without references is nobody's.
    <3>4. own.held # x
      <4> SUFFICES ASSUME own.held = x PROVE FALSE
        OBVIOUS
      <4>1. IsFiniteSet(1 .. Slots) /\ IsFiniteSet(Threads)
        BY SessionsAssumption, FS_Interval
      <4>2. SlotsWith(x) \in SUBSET (1 .. Slots) /\ HeldBy(x) \in SUBSET Threads /\ ShakenWith(x) \in SUBSET Threads
        BY DEF SlotsWith, HeldBy, ShakenWith
      <4>3. IsFiniteSet(SlotsWith(x)) /\ IsFiniteSet(HeldBy(x)) /\ IsFiniteSet(ShakenWith(x))
        BY <4>1, <4>2, FS_Subset
      <4>4. Cardinality(SlotsWith(x)) \in Nat /\ Cardinality(HeldBy(x)) \in Nat /\ Cardinality(ShakenWith(x)) \in Nat
        BY <4>3, FS_CardinalityType
      <4>5. Cardinality(HeldBy(x)) = 0
        BY <2>3, <4>4 DEF TableInv
      <4>6. HeldBy(x) = {}
        BY <4>3, <4>5, FS_EmptySet
      <4> QED BY <4>6 DEF HeldBy
    <3> HIDE DEF c
    <3>5. \A y \in NS!Sessions : references'[y] = references[y]
               + (Same(c.held, y) - Same(own.held, y))
               + (Shaken(c, y) - Shaken(own, y))
      BY <2>0, <2>3, <3>2, <3>3, <3>4, <1>00 DEF Same, Shaken
    <3>6. references' \in [NS!Sessions -> Int] /\ UNCHANGED <<table, clock>>
      BY <2>0, <3>3
    <3>7. (c.step = "closed" => c.held = 0) /\ (c.step = "shaken" => c.held # 0) /\ c \in Connections
      BY <2>0, <2>3, <3>2
    <3> QED BY <3>1, <3>5, <3>6, <3>7, ConnectionFollows
  <2> QED BY <1>3, <2>1, <2>2, <2>3 DEF NS!Shake
<1>4. ASSUME NEW h \in Hosts, NS!Get(t, h) PROVE TableInv'
  <2>0. own.step = "closed" /\ own.held = 0 /\ \A y \in NS!Sessions : y # 0
    BY <1>0, <1>4 DEF NS!Get, NS!Sessions
  <2>1. CASE NS!SlotOf(h) = {}
    <3> DEFINE c == [step |-> "open", host |-> h, held |-> 0]
    <3>1. connection' = [connection EXCEPT ![t] = c] /\ UNCHANGED <<table, clock, references>>
      BY <1>4, <2>1 DEF NS!Get
    <3>2. c \in Connections /\ c.held = 0 /\ c.step = "open"
      <4>1. h \in Hosts \cup {""} /\ 0 \in 0 .. MaxSessions /\ "open" \in Steps
        BY <1>4, NoSession DEF Steps
      <4> QED BY <4>1, ConnectionIs
    <3>3. references' \in [NS!Sessions -> Int]
      BY <3>1 DEF TableInv
    <3> HIDE DEF c
    <3>4. \A y \in NS!Sessions : references'[y] = references[y]
               + (Same(c.held, y) - Same(own.held, y)) + (Shaken(c, y) - Shaken(own, y))
      BY <2>0, <3>1, <3>2, <3>3, <1>00 DEF Same, Shaken
    <3> QED BY <2>0, <3>1, <3>2, <3>3, <3>4, ConnectionFollows
  <2>2. CASE NS!SlotOf(h) # {}
    <3> DEFINE s == CHOOSE s \in NS!SlotOf(h) : TRUE
               c == [step |-> "open", host |-> h, held |-> table[s].session]
               e == [table[s] EXCEPT !.gen = clock + 1]
    <3>1. s \in 1 .. Slots /\ table[s].session # 0
      <4>1. s \in NS!SlotOf(h)
        BY <2>2
      <4> QED BY <4>1 DEF NS!SlotOf
    <3>2. /\ connection' = [connection EXCEPT ![t] = c]
          /\ table' = [table EXCEPT ![s].gen = clock + 1] /\ clock' = clock + 1
          /\ references' = NS!Taking(table[s].session, 1)
      BY <1>4, <2>2 DEF NS!Get
    <3> HIDE DEF s
    <3>3. table[s] \in Entries /\ table[s].session \in 0 .. MaxSessions /\ clock' \in Nat /\ table \in [1 .. Slots -> Entries]
      <4>1. table[s] \in Entries /\ table \in [1 .. Slots -> Entries] /\ clock \in Nat
        BY <3>1 DEF TableInv
      <4>2. table[s].session \in 0 .. MaxSessions
        BY <4>1 DEF Entries
      <4>3. clock' \in Nat
        BY <3>2, <4>1
      <4> QED BY <4>1, <4>2, <4>3
    <3>4. e \in Entries /\ e.session = table[s].session /\ table' = [table EXCEPT ![s] = e]
      BY <3>1, <3>2, <3>3 DEF Entries
    <3>5. c \in Connections /\ c.held = table[s].session /\ c.step = "open"
      <4>1. h \in Hosts \cup {""} /\ "open" \in Steps
        BY <1>4 DEF Steps
      <4> QED BY <3>3, <4>1, ConnectionIs
    <3>6. /\ references' \in [NS!Sessions -> Int]
          /\ \A y \in NS!Sessions : references'[y] = references[y] + (IF y = table[s].session THEN 1 ELSE 0)
      <4> DEFINE x == table[s].session
      <4>1. x \in 0 .. MaxSessions /\ references' = NS!Taking(x, 1)
        BY <3>2, <3>3
      <4> HIDE DEF x, c, e
      <4>2. /\ NS!Taking(x, 1) \in [NS!Sessions -> Int]
            /\ \A y \in NS!Sessions : NS!Taking(x, 1)[y] = references[y] + (IF y = x THEN 1 ELSE 0)
        BY <4>1, TakingCounts
      <4>3. /\ references' \in [NS!Sessions -> Int]
            /\ \A y \in NS!Sessions : references'[y] = references[y] + (IF y = x THEN 1 ELSE 0)
        BY <4>1, <4>2
      <4> QED BY <4>3 DEF x
    <3> HIDE DEF c, e
    <3>7. \A y \in NS!Sessions : references'[y] = references[y]
               + (Same(e.session, y) - Same(table[s].session, y))
               + (Same(c.held, y) - Same(own.held, y))
               + (Shaken(c, y) - Shaken(own, y))
      BY <2>0, <3>4, <3>5, <3>6, <1>00 DEF Same, Shaken
    <3>8. /\ s \in 1 .. Slots /\ c \in Connections /\ e \in Entries
          /\ table' = [table EXCEPT ![s] = e] /\ clock' \in Nat /\ references' \in [NS!Sessions -> Int]
      BY <3>1, <3>3, <3>4, <3>5, <3>6
    <3>9. connection' = [connection EXCEPT ![t] = c] /\ (c.step = "closed" => c.held = 0) /\ (c.step = "shaken" => c.held # 0)
      BY <3>2, <3>5
    <3> QED BY <3>7, <3>8, <3>9, TableFollows
  <2> QED BY <2>1, <2>2
<1>5. CASE NS!Put(t)
  <2> DEFINE s == IF NS!SlotOf(own.host) # {} THEN CHOOSE s \in NS!SlotOf(own.host) : TRUE ELSE NS!Victim
             c == [own EXCEPT !.step = "connected"]
             e == [host |-> own.host, session |-> own.held, gen |-> clock + 1]
  <2>1. s \in 1 .. Slots
    <3>1. CASE NS!SlotOf(own.host) # {}
      <4>1. s \in NS!SlotOf(own.host)
        BY <3>1
      <4> QED BY <4>1 DEF NS!SlotOf
    <3>2. CASE NS!SlotOf(own.host) = {}
      BY <3>2, VictimRight
    <3> QED BY <3>1, <3>2
  <2>2. /\ own.step = "shaken" /\ connection' = [connection EXCEPT ![t].step = "connected"]
        /\ table' = [table EXCEPT ![s] = e] /\ clock' = clock + 1
        /\ references' = NS!Taking(table[s].session, -1)
    BY <1>5 DEF NS!Put
  <2> HIDE DEF s
  <2>3. connection' = [connection EXCEPT ![t] = c] /\ c \in Connections /\ c.held = own.held /\ c.step = "connected"
    <3>1. connection' = [connection EXCEPT ![t] = c]
      BY <2>2 DEF TableInv
    <3> QED BY <1>0, <3>1 DEF Connections, Steps
  <2>4. e \in Entries /\ e.session = own.held /\ clock' \in Nat /\ table[s].session \in 0 .. MaxSessions
    <3>1. table[s] \in Entries /\ clock \in Nat
      BY <2>1 DEF TableInv
    <3>2. own.host \in Hosts \cup {""} /\ clock + 1 \in Nat
      <4>1. clock \in Nat
        BY <3>1
      <4>2. clock + 1 \in Nat
        BY <4>1
      <4> HIDE DEF own
      <4> QED BY <1>000, <4>2
    <3>3. e \in Entries
      BY <1>0, <3>2, EntryIs
    <3>4. table[s].session \in 0 .. MaxSessions
      BY <3>1 DEF Entries
    <3> QED BY <2>2, <3>2, <3>3, <3>4
  <2>5. /\ references' \in [NS!Sessions -> Int]
        /\ \A y \in NS!Sessions : references'[y] = references[y] + (IF y = table[s].session THEN -1 ELSE 0)
    <3> DEFINE x == table[s].session
    <3>1. x \in 0 .. MaxSessions /\ references' = NS!Taking(x, -1)
      BY <2>2, <2>4
    <3> HIDE DEF x, c, e
    <3>2. /\ NS!Taking(x, -1) \in [NS!Sessions -> Int]
          /\ \A y \in NS!Sessions : NS!Taking(x, -1)[y] = references[y] + (IF y = x THEN -1 ELSE 0)
      BY <3>1, TakingCounts
    <3>3. /\ references' \in [NS!Sessions -> Int]
          /\ \A y \in NS!Sessions : references'[y] = references[y] + (IF y = x THEN -1 ELSE 0)
      BY <3>1, <3>2
    <3> QED BY <3>3 DEF x
  <2> HIDE DEF c, e
  <2>6. \A y \in NS!Sessions : references'[y] = references[y]
             + (Same(e.session, y) - Same(table[s].session, y))
             + (Same(c.held, y) - Same(own.held, y))
             + (Shaken(c, y) - Shaken(own, y))
    BY <2>2, <2>3, <2>4, <2>5, <1>00 DEF Same, Shaken
  <2>7. /\ s \in 1 .. Slots /\ c \in Connections /\ e \in Entries
        /\ table' = [table EXCEPT ![s] = e] /\ clock' \in Nat /\ references' \in [NS!Sessions -> Int]
    BY <2>1, <2>2, <2>3, <2>4, <2>5 DEF e
  <2>8. connection' = [connection EXCEPT ![t] = c] /\ (c.step = "closed" => c.held = 0) /\ (c.step = "shaken" => c.held # 0)
    BY <2>3
  <2> QED BY <2>6, <2>7, <2>8, TableFollows
<1> QED BY <1>1, <1>2, <1>3, <1>4, <1>5

LEMMA TableStays == ASSUME TableInv, UNCHANGED sessionsVars PROVE TableInv'
BY DEF TableInv, sessionsVars, SlotsWith, HeldBy, ShakenWith

LEMMA TableIsSafe == ASSUME TableInv PROVE NS!ReferencesExact
<1>1. \A T : NS!Cardinality(T) = Cardinality(T)
  BY DEF NS!Cardinality, Cardinality
<1> QED BY <1>1 DEF TableInv, NS!ReferencesExact, SlotsWith, HeldBy, ShakenWith

\* A full slot was used when its host was, no two hosts were used at a time, and one that was
\* used has a slot or was used before all that have one.
LatestInv ==
    /\ recent \in [Hosts -> Nat] /\ \A h \in Hosts : recent[h] <= clock
    /\ \A g, h \in Hosts : g # h /\ recent[g] = recent[h] => recent[g] = 0
    /\ \A t \in Threads : connection[t].step # "closed" => connection[t].host \in Hosts
    /\ \A s \in 1 .. Slots : table[s].session # 0 =>
          table[s].host \in Hosts /\ table[s].gen > 0 /\ table[s].gen = recent[table[s].host]
    /\ \A s, o \in 1 .. Slots : table[s].session # 0 /\ table[o].session # 0 /\ s # o => table[s].host # table[o].host
    /\ \A h \in Hosts : recent[h] > 0 =>
          \/ \E s \in 1 .. Slots : table[s].session # 0 /\ table[s].host = h
          \/ \A s \in 1 .. Slots : table[s].session # 0 /\ recent[h] < table[s].gen

LEMMA LatestInit == NS!Init => LatestInv
<1> SUFFICES ASSUME NS!Init PROVE LatestInv
  OBVIOUS
<1>1. \A t \in Threads : connection[t].step = "closed"
  BY DEF NS!Init, NS!Closed
<1>2. \A s \in 1 .. Slots : table[s].session = 0
  BY DEF NS!Init, NS!Free
<1>3. clock = 0 /\ recent \in [Hosts -> Nat] /\ \A h \in Hosts : recent[h] = 0
  BY DEF NS!Init
<1> QED BY <1>1, <1>2, <1>3 DEF LatestInv

\* A host gets the slot it has, one that is free, or that of the host used longest ago.
LEMMA HostUsed ==
    ASSUME TableInv, LatestInv, NEW h \in Hosts, NEW s \in 1 .. Slots, NEW e \in Entries,
           e.host = h, e.gen = clock + 1, e.session # 0, table' = [table EXCEPT ![s] = e],
           clock' = clock + 1, NS!Used(h),
           \A t \in Threads : connection'[t].step # "closed" => connection'[t].host \in Hosts,
           \/ table[s].session # 0 /\ table[s].host = h
           \/ /\ \A o \in 1 .. Slots : table[o].session # 0 => table[o].host # h
              /\ \/ table[s].session = 0
                 \/ \A o \in 1 .. Slots : table[o].session # 0 /\ table[s].gen <= table[o].gen
    PROVE LatestInv'
<1>1. clock \in Nat /\ clock + 1 \in Nat /\ \A o \in 1 .. Slots : table[o].gen \in Nat
  BY DEF TableInv, Entries
<1>2. /\ recent \in [Hosts -> Nat] /\ recent' \in [Hosts -> Nat] /\ recent'[h] = clock + 1
      /\ \A g \in Hosts : g # h => recent'[g] = recent[g]
      /\ \A g \in Hosts : recent[g] \in Nat /\ recent[g] <= clock
  BY <1>1 DEF LatestInv, NS!Used
<1>3. /\ table'[s] = e /\ \A o \in 1 .. Slots : o # s => table'[o] = table[o]
  BY DEF TableInv
<1>4. \A g \in Hosts : recent'[g] <= clock + 1
  BY <1>1, <1>2
<1>5. \A f, g \in Hosts : f # g /\ recent'[f] = recent'[g] => recent'[f] = 0
  <2> SUFFICES ASSUME NEW f \in Hosts, NEW g \in Hosts, f # g, recent'[f] = recent'[g] PROVE recent'[f] = 0
    OBVIOUS
  <2>1. f # h /\ g # h
    BY <1>1, <1>2
  <2> QED BY <1>2, <2>1 DEF LatestInv
<1>6. \A o \in 1 .. Slots : o # s /\ table[o].session # 0 => table[o].host # h
  BY DEF LatestInv
<1>7. \A o \in 1 .. Slots : table'[o].session # 0 =>
          table'[o].host \in Hosts /\ table'[o].gen > 0 /\ table'[o].gen = recent'[table'[o].host]
  BY <1>1, <1>2, <1>3, <1>6 DEF LatestInv
<1>8. \A o, q \in 1 .. Slots : table'[o].session # 0 /\ table'[q].session # 0 /\ o # q => table'[o].host # table'[q].host
  BY <1>3, <1>6 DEF LatestInv
<1>9. ASSUME NEW g \in Hosts, recent'[g] > 0
      PROVE \/ \E o \in 1 .. Slots : table'[o].session # 0 /\ table'[o].host = g
            \/ \A o \in 1 .. Slots : table'[o].session # 0 /\ recent'[g] < table'[o].gen
  <2>1. CASE g = h
    BY <1>3, <2>1
  <2>2. CASE g # h /\ \E o \in 1 .. Slots : o # s /\ table[o].session # 0 /\ table[o].host = g
    BY <1>3, <2>2
  <2>3. CASE g # h /\ table[s].session # 0 /\ table[s].host = g
    <3>1. \A o \in 1 .. Slots : table[o].session # 0 /\ table[s].gen <= table[o].gen
      BY <2>3
    <3>2. recent[g] = table[s].gen /\ recent[g] > 0 /\ recent'[g] = recent[g]
      BY <1>2, <2>3 DEF LatestInv
    <3>3. \A o \in 1 .. Slots : o # s => table[o].gen # table[s].gen
      BY <3>1, <3>2 DEF LatestInv
    <3>4. \A o \in 1 .. Slots : o # s => recent[g] < table[o].gen
      BY <1>1, <3>1, <3>2, <3>3
    <3>5. recent[g] < clock + 1
      BY <1>1, <1>2
    <3> QED BY <1>3, <3>1, <3>2, <3>4, <3>5
  <2>4. CASE g # h /\ ~ \E o \in 1 .. Slots : table[o].session # 0 /\ table[o].host = g
    <3>1. recent'[g] = recent[g] /\ recent[g] < clock + 1
      BY <1>1, <1>2, <2>4
    <3>2. \A o \in 1 .. Slots : table[o].session # 0 /\ recent[g] < table[o].gen
      BY <1>9, <2>4, <3>1 DEF LatestInv
    <3> QED BY <1>3, <3>1, <3>2
  <2> QED BY <2>1, <2>2, <2>3, <2>4
<1> QED BY <1>2, <1>4, <1>5, <1>7, <1>8, <1>9 DEF LatestInv

LEMMA LatestStep == ASSUME TableInv, LatestInv, NS!Next PROVE LatestInv'
<1> PICK t \in Threads :
        \/ NS!Set(t) \/ NS!Close(t) \/ (\E x \in {0} \cup NS!Sessions : NS!Shake(t, x))
        \/ NS!Put(t) \/ (\E h \in Hosts : NS!Get(t, h))
  BY DEF NS!Next
<1>1. connection \in [Threads -> Connections] /\ table \in [1 .. Slots -> Entries] /\ clock \in Nat
  BY DEF TableInv
<1>2. ASSUME NEW c, connection' = [connection EXCEPT ![t] = c],
             c.step = "closed" \/ c.host \in Hosts
      PROVE \A u \in Threads : connection'[u].step # "closed" => connection'[u].host \in Hosts
  BY <1>1, <1>2 DEF LatestInv
<1>3. ASSUME UNCHANGED <<table, clock, recent>>,
             \A u \in Threads : connection'[u].step # "closed" => connection'[u].host \in Hosts
      PROVE LatestInv'
  BY <1>3 DEF LatestInv
<1>4. \A u \in Threads : connection[u].step # "closed" => connection[u].host \in Hosts
  BY DEF LatestInv
<1>5. CASE NS!Set(t)
  <2>1. connection[t].step = "open" /\ connection' = [connection EXCEPT ![t].step = "set"] /\ UNCHANGED <<table, clock, recent>>
    BY <1>5 DEF NS!Set
  <2>2. \A u \in Threads : connection'[u].step # "closed" => connection'[u].host \in Hosts
    BY <1>1, <1>4, <2>1 DEF Connections
  <2> QED BY <1>3, <2>1, <2>2
<1>6. CASE NS!Close(t)
  <2>1. connection' = [connection EXCEPT ![t] = NS!Closed] /\ UNCHANGED <<table, clock, recent>>
    BY <1>6 DEF NS!Close
  <2>2. NS!Closed.step = "closed"
    BY DEF NS!Closed
  <2> QED BY <1>2, <1>3, <2>1, <2>2
<1>7. ASSUME NEW x \in {0} \cup NS!Sessions, NS!Shake(t, x) PROVE LatestInv'
  <2>1. connection[t].step = "set" /\ UNCHANGED <<table, clock, recent>>
    BY <1>7 DEF NS!Shake
  <2>2. connection[t].host \in Hosts
    BY <1>4, <2>1
  <2>3. CASE connection' = [connection EXCEPT ![t] = NS!Closed]
    <3>1. NS!Closed.step = "closed"
      BY DEF NS!Closed
    <3> QED BY <1>2, <1>3, <2>1, <2>3, <3>1
  <2>4. CASE connection' = [connection EXCEPT ![t].step = "shaken"]
    <3>1. \A u \in Threads : connection'[u].step # "closed" => connection'[u].host \in Hosts
      BY <1>1, <1>4, <2>1, <2>4 DEF Connections
    <3> QED BY <1>3, <2>1, <3>1
  <2>5. CASE connection' = [connection EXCEPT ![t] = [step |-> "shaken", host |-> connection[t].host, held |-> x]]
    <3>1. \A u \in Threads : connection'[u].step # "closed" => connection'[u].host \in Hosts
      BY <1>1, <1>4, <2>2, <2>5
    <3> QED BY <1>3, <2>1, <3>1
  <2> QED BY <1>7, <2>3, <2>4, <2>5 DEF NS!Shake
<1>8. ASSUME NEW h \in Hosts, NS!Get(t, h) PROVE LatestInv'
  <2>1. CASE NS!SlotOf(h) = {}
    <3>1. connection' = [connection EXCEPT ![t] = [step |-> "open", host |-> h, held |-> 0]] /\ UNCHANGED <<table, clock, recent>>
      BY <1>8, <2>1 DEF NS!Get
    <3>2. \A u \in Threads : connection'[u].step # "closed" => connection'[u].host \in Hosts
      BY <1>1, <1>4, <1>8, <3>1
    <3> QED BY <1>3, <3>1, <3>2
  <2>2. CASE NS!SlotOf(h) # {}
    <3> DEFINE s == CHOOSE s \in NS!SlotOf(h) : TRUE
               e == [table[s] EXCEPT !.gen = clock + 1]
    <3>1. s \in 1 .. Slots /\ table[s].session # 0 /\ table[s].host = h
      <4>1. s \in NS!SlotOf(h)
        BY <2>2
      <4> QED BY <4>1 DEF NS!SlotOf
    <3>2. /\ connection' = [connection EXCEPT ![t] = [step |-> "open", host |-> h, held |-> table[s].session]]
          /\ table' = [table EXCEPT ![s].gen = clock + 1] /\ clock' = clock + 1 /\ NS!Used(h)
      BY <1>8, <2>2 DEF NS!Get
    <3> HIDE DEF s
    <3>3. table[s] \in Entries
      BY <1>1, <3>1
    <3>4. e \in Entries /\ e.host = h /\ e.gen = clock + 1 /\ e.session # 0 /\ table' = [table EXCEPT ![s] = e]
      <4>1. table' = [table EXCEPT ![s] = e]
        BY <1>1, <3>1, <3>2
      <4> DEFINE next == clock + 1
      <4>0. next \in Nat
        BY <1>1
      <4> HIDE DEF next
      <4>2. e \in Entries /\ e.host = table[s].host /\ e.gen = clock + 1 /\ e.session = table[s].session
        <5>1. [table[s] EXCEPT !.gen = next] \in Entries
          BY <3>3, <4>0 DEF Entries
        <5>2. [table[s] EXCEPT !.gen = next].host = table[s].host
          BY <3>3, <4>0 DEF Entries
        <5>3. [table[s] EXCEPT !.gen = next].gen = next
          BY <3>3, <4>0 DEF Entries
        <5>4. [table[s] EXCEPT !.gen = next].session = table[s].session
          BY <3>3, <4>0 DEF Entries
        <5> QED BY <5>1, <5>2, <5>3, <5>4 DEF next
      <4> HIDE DEF e
      <4> QED BY <3>1, <4>1, <4>2
    <3>5. \A u \in Threads : connection'[u].step # "closed" => connection'[u].host \in Hosts
      BY <1>1, <1>4, <1>8, <3>2
    <3> HIDE DEF e
    <3> QED BY <1>8, <3>1, <3>2, <3>4, <3>5, HostUsed
  <2> QED BY <2>1, <2>2
<1>9. CASE NS!Put(t)
  <2> DEFINE h == connection[t].host
             s == IF NS!SlotOf(h) # {} THEN CHOOSE s \in NS!SlotOf(h) : TRUE ELSE NS!Victim
             e == [host |-> h, session |-> connection[t].held, gen |-> clock + 1]
  <2>1. /\ connection[t].step = "shaken" /\ connection' = [connection EXCEPT ![t].step = "connected"]
        /\ table' = [table EXCEPT ![s] = e] /\ clock' = clock + 1 /\ NS!Used(h)
    BY <1>9 DEF NS!Put
  <2>2. h \in Hosts /\ connection[t].held # 0 /\ connection[t].held \in 0 .. MaxSessions
    BY <1>1, <1>4, <2>1 DEF TableInv, Connections
  <2>3. /\ s \in 1 .. Slots
        /\ \/ table[s].session # 0 /\ table[s].host = h
           \/ /\ \A o \in 1 .. Slots : table[o].session # 0 => table[o].host # h
              /\ \/ table[s].session = 0
                 \/ \A o \in 1 .. Slots : table[o].session # 0 /\ table[s].gen <= table[o].gen
    <3>1. CASE NS!SlotOf(h) # {}
      <4>1. s \in NS!SlotOf(h)
        BY <3>1
      <4> QED BY <4>1 DEF NS!SlotOf
    <3>2. CASE NS!SlotOf(h) = {}
      <4>1. s = NS!Victim
        BY <3>2
      <4>2. \A o \in 1 .. Slots : table[o].session # 0 => table[o].host # h
        BY <3>2 DEF NS!SlotOf
      <4> QED BY <4>1, <4>2, VictimRight
    <3> QED BY <3>1, <3>2
  <2> HIDE DEF s
  <2>4. e \in Entries /\ e.host = h /\ e.gen = clock + 1 /\ e.session # 0
    <3>1. clock + 1 \in Nat
      BY <1>1
    <3> QED BY <2>2, <3>1 DEF Entries
  <2>5. \A u \in Threads : connection'[u].step # "closed" => connection'[u].host \in Hosts
    BY <1>1, <1>4, <2>1 DEF Connections
  <2> HIDE DEF e, h
  <2> QED BY <2>1, <2>2, <2>3, <2>4, <2>5, HostUsed
<1> QED BY <1>5, <1>6, <1>7, <1>8, <1>9

LEMMA LatestIsRight == ASSUME TableInv, LatestInv PROVE NS!LatestKept /\ NS!TypeOK
<1>1. NS!LatestKept
  BY DEF LatestInv, NS!LatestKept
<1>2. ASSUME NEW x \in NS!Sessions PROVE references[x] \in Nat
  <2>1. IsFiniteSet(1 .. Slots) /\ IsFiniteSet(Threads)
    BY SessionsAssumption, FS_Interval
  <2>2. SlotsWith(x) \in SUBSET (1 .. Slots) /\ HeldBy(x) \in SUBSET Threads /\ ShakenWith(x) \in SUBSET Threads
    BY DEF SlotsWith, HeldBy, ShakenWith
  <2>3. IsFiniteSet(SlotsWith(x)) /\ IsFiniteSet(HeldBy(x)) /\ IsFiniteSet(ShakenWith(x))
    BY <2>1, <2>2, FS_Subset
  <2>4. Cardinality(SlotsWith(x)) \in Nat /\ Cardinality(HeldBy(x)) \in Nat /\ Cardinality(ShakenWith(x)) \in Nat
    BY <2>3, FS_CardinalityType
  <2> QED BY <2>4 DEF TableInv
<1>3. references \in [NS!Sessions -> Nat]
  BY <1>2 DEF TableInv
<1> QED BY <1>1, <1>3 DEF TableInv, LatestInv, Entries, Connections, Steps, NS!TypeOK

LEMMA LatestStays == ASSUME LatestInv, UNCHANGED sessionsVars PROVE LatestInv'
BY DEF LatestInv, sessionsVars

-----------------------------------------------------------------------------
(* nsetup *)

\* The settings that come from a lease, in their order; the interface is brought up again before.
Order == [reup |-> 0, addr |-> 1, mask |-> 2, broadcast |-> 3, route |-> 4, gateway |-> 5, dns |-> 6]
FromLease == {"addr", "mask", "broadcast", "route", "gateway", "dns"}
Early == {"args", "mac", "up", "socket", "discover", "offer", "request", "ack"}

DhcpTypes ==
    /\ reached \in Early \cup FromLease \cup {"reup", "done"}
    /\ kernel \in [FromLease \cup {"up"} -> {0} \cup Servers]
    /\ granted \subseteq Servers /\ outcome \in {0, 1}

\* An acknowledgement for us comes from a server that gave us its address.
Acknowledged ==
    \A m \in replies : m.type = "ack" /\ m.for = "us" /\ m.ends => m.from \in granted /\ m.addr = m.from

\* The lease is that of one server, which gave us its address.
LeaseGranted ==
    /\ lease.addr \in granted
    /\ lease.mask = IF "mask" \in Gives[lease.addr] THEN lease.addr ELSE 0
    /\ lease.router = IF "router" \in Gives[lease.addr] THEN lease.addr ELSE 0
    /\ lease.dns = IF "dns" \in Gives[lease.addr] THEN lease.addr ELSE 0

\* What of it has been set
SetSoFar ==
    /\ reached \in Early => \A k \in FromLease : kernel[k] = 0
    /\ reached \in FromLease \cup {"reup"} =>
        LeaseGranted /\ \A k \in FromLease : kernel[k] = IF Order[k] < Order[reached] THEN ND!Value(k) ELSE 0
    /\ reached = "done" /\ outcome = 0 =>
        LeaseGranted /\ \A k \in FromLease : kernel[k] = ND!Value(k) \/ (k = "dns" /\ kernel[k] = 0)
    /\ reached # "done" => outcome = 0

DhcpInv ==
    /\ DhcpTypes /\ Acknowledged /\ SetSoFar
    /\ kernel["addr"] # 0 => kernel["addr"] \in granted
    /\ granted = {} => \A k \in FromLease : kernel[k] = 0
    /\ udp => reached \in {"discover", "offer", "request", "ack"}

LEMMA DhcpSettings ==
    /\ {ND!Settings[k] : k \in 1 .. Len(ND!Settings)} = FromLease \cup {"up"}
    /\ {ND!Settings[k] : k \in 2 .. Len(ND!Settings)} = FromLease
    /\ \A s \in FromLease : s # "dns" => ND!After(s) \in FromLease /\ Order[ND!After(s)] = Order[s] + 1
    /\ ND!After("dns") = "done"
<1>1. Len(ND!Settings) = 7
  BY DEF ND!Settings
<1>2. 1 .. 7 = {1, 2, 3, 4, 5, 6, 7} /\ 2 .. 7 = {2, 3, 4, 5, 6, 7}
  OBVIOUS
<1>3. /\ ND!Settings[1] = "up" /\ ND!Settings[2] = "addr" /\ ND!Settings[3] = "mask" /\ ND!Settings[4] = "broadcast"
      /\ ND!Settings[5] = "route" /\ ND!Settings[6] = "gateway" /\ ND!Settings[7] = "dns"
  BY DEF ND!Settings
<1>4. \A k, j \in 1 .. 7 : ND!Settings[k] = ND!Settings[j] => k = j
  BY <1>2, <1>3
<1>5. ASSUME NEW k \in 1 .. 7 PROVE ND!Position(ND!Settings[k]) = k
  BY <1>1, <1>4, <1>5 DEF ND!Position
<1>6. /\ ND!Position("addr") = 2 /\ ND!Position("mask") = 3 /\ ND!Position("broadcast") = 4
      /\ ND!Position("route") = 5 /\ ND!Position("gateway") = 6
  BY <1>3, <1>5
<1>7. /\ ND!After("addr") = "mask" /\ ND!After("mask") = "broadcast" /\ ND!After("broadcast") = "route"
      /\ ND!After("route") = "gateway" /\ ND!After("gateway") = "dns" /\ ND!After("dns") = "done"
  BY <1>3, <1>6 DEF ND!After
<1>8. \A s \in FromLease : s # "dns" => ND!After(s) \in FromLease /\ Order[ND!After(s)] = Order[s] + 1
  BY <1>7 DEF FromLease, Order
<1> QED BY <1>1, <1>2, <1>3, <1>7, <1>8 DEF FromLease

LEMMA DhcpInit == ND!Init => DhcpInv
BY DhcpSettings, DhcpAssumption DEF ND!Init, DhcpInv, DhcpTypes, Acknowledged, SetSoFar, Early, FromLease

\* A step of the program that neither sets what comes from a lease nor reads a reply.
LEMMA DhcpGoesOn ==
    ASSUME DhcpInv, UNCHANGED <<lease, replies, granted>>,
           kernel' \in [FromLease \cup {"up"} -> {0} \cup Servers], \A k \in FromLease : kernel'[k] = kernel[k],
           \/ ND!Fail
           \/ reached \in Early /\ reached' \in Early /\ outcome' = outcome /\ (udp' => reached' \in {"discover", "offer", "request", "ack"})
    PROVE DhcpInv'
<1>1. \A k \in FromLease : ND!Value(k)' = ND!Value(k)
  BY DEF ND!Value
<1> QED BY <1>1 DEF DhcpInv, DhcpTypes, Acknowledged, SetSoFar, LeaseGranted, ND!Fail, Early, FromLease

LEMMA DhcpStep == ASSUME DhcpInv, ND!Next PROVE DhcpInv'
<1> USE DEF ND!Network, ND!GoOn
<1>1. CASE ND!Args \/ ND!GetMac \/ ND!OpenSocket \/ ND!Timeout
  <2>1. UNCHANGED <<lease, kernel, replies, granted>>
    BY <1>1 DEF ND!Args, ND!GetMac, ND!OpenSocket, ND!Timeout
  <2>2. \/ ND!Fail
        \/ reached \in Early /\ reached' \in Early /\ outcome' = outcome /\ (udp' => reached' \in {"discover", "offer", "request", "ack"})
    BY <1>1 DEF ND!Args, ND!GetMac, ND!OpenSocket, ND!Timeout, Early, DhcpInv
  <2> QED BY <2>1, <2>2, DhcpGoesOn DEF DhcpInv, DhcpTypes
<1>2. CASE ND!Up
  <2>1. UNCHANGED <<lease, replies, granted>>
    BY <1>2 DEF ND!Up, ND!SetUp
  <2>2. /\ kernel' \in [FromLease \cup {"up"} -> {0} \cup Servers]
        /\ \A k \in FromLease : kernel'[k] = kernel[k]
    BY <1>2, DhcpAssumption DEF ND!Up, ND!SetUp, DhcpInv, DhcpTypes, FromLease
  <2>3. \/ ND!Fail
        \/ reached \in Early /\ reached' \in Early /\ outcome' = outcome /\ (udp' => reached' \in {"discover", "offer", "request", "ack"})
    BY <1>2 DEF ND!Up, ND!SetUp, Early, DhcpInv
  <2> QED BY <2>1, <2>2, <2>3, DhcpGoesOn
<1>3. CASE ND!Discover \/ ND!Request
  <2>1. UNCHANGED <<lease, kernel, replies, granted>>
    BY <1>3 DEF ND!Discover, ND!Request, ND!Send
  <2>2. \/ ND!Fail
        \/ reached \in Early /\ reached' \in Early /\ outcome' = outcome /\ (udp' => reached' \in {"discover", "offer", "request", "ack"})
    BY <1>3 DEF ND!Discover, ND!Request, ND!Send, Early, DhcpInv
  <2> QED BY <2>1, <2>2, DhcpGoesOn DEF DhcpInv, DhcpTypes
<1>4. CASE ND!Reup
  <2>1. UNCHANGED <<lease, replies, granted>> /\ reached = "reup"
    BY <1>4 DEF ND!Reup, ND!SetUp
  <2>2. /\ kernel' \in [FromLease \cup {"up"} -> {0} \cup Servers]
        /\ \A k \in FromLease : kernel'[k] = kernel[k]
    BY <1>4, DhcpAssumption DEF ND!Reup, ND!SetUp, DhcpInv, DhcpTypes, FromLease
  <2>3. CASE ND!Fail
    BY <2>1, <2>2, <2>3, DhcpGoesOn
  <2>4. CASE reached' = "addr" /\ UNCHANGED <<udp, outcome>>
    <3>1. \A k \in FromLease : ND!Value(k)' = ND!Value(k)
      BY <2>1 DEF ND!Value
    <3>2. \A k \in FromLease : ~ Order[k] < Order["reup"] /\ ~ Order[k] < Order["addr"]
      BY DEF FromLease, Order
    <3>3. SetSoFar'
      BY <2>1, <2>2, <2>4, <3>1, <3>2 DEF DhcpInv, SetSoFar, LeaseGranted, Early, FromLease
    <3> QED BY <2>1, <2>2, <2>4, <3>3 DEF DhcpInv, DhcpTypes, Acknowledged, FromLease
  <2> QED BY <1>4, <2>3, <2>4 DEF ND!Reup, ND!SetUp
<1>5. CASE ND!Apply
  <2>1. UNCHANGED <<lease, replies, granted>> /\ reached \in FromLease
    BY <1>5, DhcpSettings DEF ND!Apply
  <2>2. CASE ND!Fail /\ UNCHANGED kernel
    BY <2>1, <2>2, DhcpGoesOn DEF DhcpInv, DhcpTypes
  <2>3. \A k \in FromLease : ND!Value(k)' = ND!Value(k)
    BY <2>1 DEF ND!Value
  <2>4. LeaseGranted /\ LeaseGranted'
    BY <2>1 DEF DhcpInv, SetSoFar, LeaseGranted
  <2>5. \A k \in FromLease : ND!Value(k) \in {0} \cup Servers
    BY <2>4 DEF DhcpInv, DhcpTypes, LeaseGranted, ND!Value
  <2>6. ND!Value("addr") \in granted
    BY <2>4 DEF LeaseGranted, ND!Value
  <2>7. outcome = 0 /\ \A k \in FromLease : kernel[k] = IF Order[k] < Order[reached] THEN ND!Value(k) ELSE 0
    BY <2>1 DEF DhcpInv, SetSoFar, FromLease
  <2>8. CASE ND!GoOn(ND!After(reached)) /\ kernel' = [kernel EXCEPT ![reached] = ND!Value(reached)]
    <3>1. kernel' \in [FromLease \cup {"up"} -> {0} \cup Servers]
      BY <2>1, <2>5, <2>8 DEF DhcpInv, DhcpTypes
    <3>2. \A k \in FromLease : kernel'[k] = IF k = reached THEN ND!Value(k) ELSE kernel[k]
      BY <2>8 DEF DhcpInv, DhcpTypes
    <3>3. CASE reached # "dns"
      <4>1. ND!After(reached) \in FromLease /\ Order[ND!After(reached)] = Order[reached] + 1
        BY <2>1, <3>3, DhcpSettings
      <4>2. \A k \in FromLease : Order[k] < Order[reached] + 1 <=> Order[k] < Order[reached] \/ k = reached
        BY <2>1 DEF FromLease, Order
      <4>3. \A k \in FromLease : kernel'[k] = IF Order[k] < Order[ND!After(reached)] THEN ND!Value(k) ELSE 0
        BY <2>7, <3>2, <4>1, <4>2
      <4>4. SetSoFar'
        BY <2>3, <2>4, <2>7, <2>8, <4>1, <4>3 DEF SetSoFar, FromLease, Early
      <4> QED BY <2>1, <2>4, <2>6, <2>7, <2>8, <3>1, <3>2, <4>1, <4>4 DEF DhcpInv, DhcpTypes, Acknowledged, LeaseGranted, FromLease
    <3>4. CASE reached = "dns"
      <4>1. reached' = "done"
        BY <2>8, <3>4, DhcpSettings
      <4>2. \A k \in FromLease : k # "dns" => Order[k] < Order["dns"]
        BY DEF FromLease, Order
      <4>3. \A k \in FromLease : kernel'[k] = ND!Value(k)
        BY <2>7, <3>2, <3>4, <4>2
      <4>4. SetSoFar'
        BY <2>3, <2>4, <4>1, <4>3 DEF SetSoFar, FromLease, Early
      <4> QED BY <2>1, <2>4, <2>6, <2>7, <2>8, <3>1, <3>2, <4>1, <4>4 DEF DhcpInv, DhcpTypes, Acknowledged, LeaseGranted, FromLease
    <3> QED BY <3>3, <3>4
  <2>9. CASE reached = "dns" /\ ND!GoOn("done") /\ UNCHANGED kernel
    <3>1. \A k \in FromLease : k # "dns" => Order[k] < Order["dns"]
      BY DEF FromLease, Order
    <3>2. SetSoFar'
      BY <2>3, <2>4, <2>7, <2>9, <3>1 DEF SetSoFar, FromLease, Early, Order
    <3> QED BY <2>1, <2>7, <2>9, <3>2 DEF DhcpInv, DhcpTypes, Acknowledged, FromLease
  <2> QED BY <1>5, <2>2, <2>8, <2>9 DEF ND!Apply
<1>6. ASSUME NEW m \in replies, ND!Receive(m) PROVE DhcpInv'
  <2>1. /\ reached \in {"offer", "ack"} /\ m.for = "us" /\ lease' = ND!Parsed(m)
        /\ UNCHANGED <<kernel, packets, replies, granted>>
    BY <1>6 DEF ND!Receive, ND!Wanted
  <2>2. DhcpTypes /\ Acknowledged /\ \A k \in FromLease : kernel[k] = 0
    BY <2>1 DEF DhcpInv, SetSoFar, Early
  <2>3. CASE ND!Fail
    BY <2>1, <2>2, <2>3 DEF ND!Fail, DhcpInv, DhcpTypes, Acknowledged, SetSoFar, Early, FromLease
  <2>4. CASE /\ reached' \in Early /\ UNCHANGED outcome /\ udp' = udp
             /\ reached' \in {"discover", "offer", "request", "ack"}
    BY <2>1, <2>2, <2>4 DEF DhcpInv, DhcpTypes, Acknowledged, SetSoFar, Early, FromLease
  <2>5. CASE /\ reached = "ack" /\ reached' = "reup" /\ udp' = FALSE /\ UNCHANGED outcome
             /\ m.ends /\ m.type = "ack"
    <3>1. m.from \in granted /\ m.addr = m.from
      BY <2>1, <2>2, <2>5 DEF Acknowledged
    <3>2. LeaseGranted'
      BY <2>1, <3>1 DEF LeaseGranted, ND!Parsed
    <3>3. \A k \in FromLease : ~ Order[k] < Order["reup"]
      BY DEF FromLease, Order
    <3>4. SetSoFar'
      BY <2>1, <2>2, <2>5, <3>2, <3>3 DEF DhcpInv, SetSoFar, Early, FromLease
    <3> QED BY <2>1, <2>2, <2>5, <3>4 DEF DhcpInv, DhcpTypes, Acknowledged, FromLease
  <2>6. CASE UNCHANGED <<reached, udp, outcome>>
    BY <2>1, <2>4, <2>6 DEF Early
  <2>7. CASE m.ends /\ m.type # "nak" /\ ND!IsOf(m, reached)
    <3>1. ND!Answered
      BY <1>6, <2>7 DEF ND!Receive
    <3>2. CASE reached = "ack"
      BY <2>5, <2>7, <3>1, <3>2 DEF ND!Answered, ND!IsOf
    <3>3. CASE reached # "ack"
      <4>1. ND!Fail \/ (reached' = "request" /\ UNCHANGED <<udp, outcome>>)
        BY <3>1, <3>3 DEF ND!Answered
      <4> QED BY <2>3, <2>4, <4>1 DEF Early
    <3> QED BY <3>2, <3>3
  <2>8. CASE m.ends /\ m.type = "nak"
    BY <1>6, <2>3, <2>8 DEF ND!Receive
  <2>9. CASE ~ (m.ends /\ m.type = "nak") /\ ~ (m.ends /\ m.type # "nak" /\ ND!IsOf(m, reached))
    <3>1. UNCHANGED <<reached, udp, outcome>>
      BY <1>6, <2>9 DEF ND!Receive
    <3> QED BY <2>6, <3>1
  <2> QED BY <2>7, <2>8, <2>9
<1>7. ASSUME NEW s \in Servers, ND!Offer(s) \/ ND!Decide(s) PROVE DhcpInv'
  <2>1. UNCHANGED <<reached, udp, lease, kernel, outcome>>
    BY <1>7 DEF ND!Offer, ND!Decide, ND!Client
  <2>2. granted \subseteq granted' /\ granted' \subseteq Servers
    BY <1>7 DEF ND!Offer, ND!Decide, DhcpInv, DhcpTypes
  <2>3. \A m \in replies' : m \in replies \/ m.type # "ack" \/ (m.from = s /\ m.addr = s /\ s \in granted')
    BY <1>7 DEF ND!Offer, ND!Decide, ND!Reply
  <2>4. \A k \in FromLease : ND!Value(k)' = ND!Value(k)
    BY <2>1 DEF ND!Value
  <2>5. Acknowledged'
    BY <2>2, <2>3 DEF DhcpInv, Acknowledged
  <2>6. SetSoFar'
    BY <2>1, <2>2, <2>4 DEF DhcpInv, SetSoFar, LeaseGranted
  <2> QED BY <2>1, <2>2, <2>5, <2>6 DEF DhcpInv, DhcpTypes
<1> QED BY <1>1, <1>2, <1>3, <1>4, <1>5, <1>6, <1>7 DEF ND!Next, ND!NsetupStep

LEMMA DhcpStays == ASSUME DhcpInv, UNCHANGED nsetupVars PROVE DhcpInv'
<1>1. \A k \in FromLease : ND!Value(k)' = ND!Value(k)
  BY DEF ND!Value, nsetupVars
<1> QED BY <1>1 DEF DhcpInv, nsetupVars, DhcpTypes, Acknowledged, SetSoFar, LeaseGranted

LEMMA DhcpIsSafe == ASSUME DhcpInv PROVE ND!AddressGranted /\ ND!OfOneServer /\ ND!PortFree
<1>1. ND!AddressGranted
  BY DhcpSettings DEF DhcpInv, ND!AddressGranted
<1>2. ND!PortFree
  BY DhcpSettings DEF DhcpInv, ND!PortFree, FromLease
<1>3. ASSUME reached = "done", outcome = 0 PROVE ND!OfOneServer
  <2>1. LeaseGranted /\ \A k \in FromLease : kernel[k] = ND!Value(k) \/ (k = "dns" /\ kernel[k] = 0)
    BY <1>3 DEF DhcpInv, SetSoFar
  <2>2. /\ kernel["addr"] = lease.addr /\ kernel["mask"] = lease.mask /\ kernel["broadcast"] = lease.addr
        /\ kernel["route"] = lease.addr /\ kernel["gateway"] = lease.router /\ kernel["dns"] \in {0, lease.dns}
    BY <2>1 DEF FromLease, ND!Value
  <2>3. lease.addr # 0
    BY <2>1, DhcpAssumption DEF LeaseGranted, DhcpInv, DhcpTypes
  <2> QED BY <2>1, <2>2, <2>3 DEF LeaseGranted, ND!OfOneServer
<1> QED BY <1>1, <1>2, <1>3 DEF ND!OfOneServer

-----------------------------------------------------------------------------
(* The types of the other tools *)

\* What is stored is a number of a field, which is a part of a word, or a word.
LEMMA RelocTypesStep == ASSUME MR!TypeOK, MR!Next PROVE MR!TypeOK'
<1> PICK t \in MR!Types, s \in Addresses, a \in Addends, p \in Addresses, c \in MR!Codes :
        MR!Patch([type |-> t, s |-> s, a |-> a, p |-> p, code |-> c])
  BY DEF MR!Next
<1> DEFINE r == [type |-> t, s |-> s, a |-> a, p |-> p, code |-> c]
           bad == (t = "GOTPCREL" /\ ~ MR!Relaxable(c)) \/ ~ MR!Fits(r)
<1>1. /\ relocation' = r /\ refused' = bad
      /\ field' = IF bad THEN -1 ELSE IF t \in {"64", "PC64", "SIZE64"} THEN MR!Value(r) ELSE MR!Value(r) % Field
      /\ opcode' = IF t = "GOTPCREL" THEN MR!Relaxed(c) ELSE c
  BY DEF MR!Patch
<1>2. relocation' \in [type : MR!Types, s : Addresses, a : Addends, p : Addresses, code : MR!Codes]
  BY <1>1
<1>3. refused' \in BOOLEAN
  BY <1>1, Zenon
<1>4. opcode' \in MR!Codes \cup {"lea", "call direct", "jmp direct"}
  BY <1>1 DEF MR!Relaxed, MR!Codes
<1>5. \A v \in Int : v % Word \in 0 .. Word - 1 /\ v % Field \in 0 .. Word - 1 /\ MR!Signed(v) \in Int
  <2>1. \A v \in Int : v % Word \in 0 .. Word - 1 /\ v % Field \in 0 .. Field - 1
    BY RelocAssumption, SmallRemainders
  <2>2. Word - 1 \in Int /\ 0 .. Field - 1 \subseteq 0 .. Word - 1
    BY RelocAssumption
  <2>3. \A v \in Int : v % Word \in Int
    BY <2>1, RelocAssumption
  <2>4. \A v \in Int : MR!Signed(v) \in Int
    BY <2>3, RelocAssumption DEF MR!Signed
  <2> QED BY <2>1, <2>2, <2>4
<1>6. s + a \in Int /\ s + a - p \in Int /\ r.type = t /\ r.s = s /\ r.a = a /\ r.p = p
  BY RelocAssumption
<1> HIDE DEF r
<1>7. t \in {"64", "PC64", "SIZE64"} => MR!Value(r) \in 0 .. Word - 1
  BY <1>5, <1>6 DEF MR!Value, MR!Unsigned
<1>8. ~ t \in {"64", "PC64", "SIZE64"} => MR!Value(r) \in Int
  BY <1>5, <1>6 DEF MR!Value
<1>9. field' \in -1 .. Word - 1
  <2>1. bad \/ field' \in 0 .. Word - 1
    BY <1>1, <1>5, <1>7, <1>8
  <2> QED BY <1>1, <2>1, RelocAssumption
<1> QED BY <1>2, <1>3, <1>4, <1>9 DEF MR!TypeOK

LEMMA RelocTypesHold == (MR!Init => MR!TypeOK) /\ (MR!TypeOK /\ UNCHANGED relocVars => MR!TypeOK')
<1>1. -1 \in -1 .. Word - 1
  BY RelocAssumption
<1> QED BY <1>1 DEF MR!Init, MR!TypeOK, MR!Codes, relocVars

\* What waits and what was taken are keys that were typed.
SessionRest ==
    /\ shell \in {"none", "runs", "zombie", "reaped"} /\ pty \in {"none", "open", "closed"}
    /\ slave \in BOOLEAN /\ asked \in BOOLEAN /\ typed \in 0 .. MaxKeys
    /\ waiting \in Seq(1 .. MaxKeys) /\ taken \in Seq(1 .. MaxKeys) /\ Len(waiting) <= Buffer
    /\ state \in {"normal", "esc", "csi", "osc"} /\ understood \in {"none", "glyph", "sequence", "title"}

LEMMA SessionRestStep == ASSUME SessionRest, TE!Next PROVE SessionRest'
<1> USE DEF TE!KeysKept, TE!Parser
<1>1. CASE TE!Spawn \/ TE!Drained \/ TE!End \/ TE!ShellEnds \/ TE!ShellDetaches
  BY <1>1 DEF SessionRest, TE!Spawn, TE!Drained, TE!End, TE!ShellEnds, TE!ShellDetaches
<1>2. CASE TE!Reap \/ (\E a, b \in BOOLEAN : TE!Draw(a, b))
  <2>1. asked' \in BOOLEAN
    BY <1>2, Zenon DEF TE!Reap, TE!Draw
  <2> QED BY <1>2, <2>1 DEF SessionRest, TE!Reap, TE!Draw
<1>3. ASSUME NEW b \in ShellOutput, TE!Read(b) PROVE SessionRest'
  <2>1. UNCHANGED <<shell, pty, slave, asked, typed, waiting, taken>>
    BY <1>3 DEF TE!Read
  <2>2. state' \in {"normal", "esc", "csi", "osc"} /\ understood' \in {"none", "glyph", "sequence", "title"}
    BY <1>3 DEF TE!Read, TE!Understood, SessionRest
  <2> QED BY <2>1, <2>2 DEF SessionRest
<1>4. CASE TE!Flush
  <2>1. UNCHANGED <<shell, pty, slave, asked, typed, state, understood>>
    BY <1>4 DEF TE!Flush
  <2>2. ASSUME NEW n \in 0 .. Len(waiting), waiting' = <<>>, taken' = taken \o SubSeq(waiting, 1, n) PROVE SessionRest'
    <3>1. SubSeq(waiting, 1, n) \in Seq(1 .. MaxKeys)
      <4>1. waiting \in Seq(1 .. MaxKeys) /\ Len(waiting) \in Nat
        BY DEF SessionRest
      <4>2. n \in Int /\ \A i \in 1 .. n : i \in 1 .. Len(waiting)
        BY <4>1
      <4>3. \A i \in 1 .. n : waiting[i] \in 1 .. MaxKeys
        BY <4>1, <4>2, ElementOfSeq
      <4> QED BY <4>1, <4>2, <4>3, SubSeqProperties
    <3>2. taken' \in Seq(1 .. MaxKeys)
      BY <2>2, <3>1 DEF SessionRest
    <3>3. waiting' \in Seq(1 .. MaxKeys) /\ Len(waiting') <= Buffer
      BY <2>2, KeysAssumption
    <3> QED BY <2>1, <3>2, <3>3 DEF SessionRest
  <2>3. CASE UNCHANGED <<waiting, taken>>
    BY <2>1, <2>3 DEF SessionRest
  <2> QED BY <1>4, <2>2, <2>3 DEF TE!Flush
<1>5. CASE TE!Type
  <2>1. UNCHANGED <<shell, pty, slave, asked, taken, state, understood>> /\ typed' = typed + 1 /\ typed < MaxKeys
    BY <1>5 DEF TE!Type
  <2>2. typed' \in 0 .. MaxKeys /\ typed + 1 \in 1 .. MaxKeys
    BY <2>1, KeysAssumption DEF SessionRest
  <2>3. waiting' \in Seq(1 .. MaxKeys) /\ Len(waiting') <= Buffer
    <3>1. CASE Len(waiting) < Buffer
      BY <1>5, <2>2, <3>1, KeysAssumption DEF SessionRest, TE!Type
    <3>2. CASE ~ (Len(waiting) < Buffer)
      BY <1>5, <3>2 DEF SessionRest, TE!Type
    <3> QED BY <3>1, <3>2
  <2> QED BY <2>1, <2>2, <2>3 DEF SessionRest
<1> QED BY <1>1, <1>2, <1>3, <1>4, <1>5 DEF TE!Next, TE!SessionStep

LEMMA SessionRestHolds == (TE!Init => SessionRest) /\ (SessionRest /\ UNCHANGED sessionVars => SessionRest')
<1>1. TE!Init => SessionRest
  <2>1. 0 \in 0 .. MaxKeys /\ 0 <= Buffer
    BY KeysAssumption
  <2>2. <<>> \in Seq(1 .. MaxKeys) /\ Len(<<>>) <= Buffer
    BY <2>1
  <2> QED BY <2>1, <2>2, Zenon DEF TE!Init, SessionRest
<1> QED BY <1>1 DEF SessionRest, sessionVars

LEMMA SessionIsTyped == ASSUME SessionInv, SessionRest PROVE TE!TypeOK
<1>1. {slave, asked} \subseteq BOOLEAN
  BY Zenon DEF SessionRest
<1> QED BY <1>1, Zenon DEF SessionInv, SessionRest, TE!TypeOK

\* A request is made of an offer that says who made it, and of what.
DhcpRest ==
    /\ udp \in BOOLEAN /\ lease \in [DOMAIN ND!NoLease -> {0} \cup Servers]
    /\ packets \subseteq ([type : {"discover"}] \cup [type : {"request"}, addr : Servers, id : Servers])
    /\ replies \subseteq ND!Messages
    /\ reached = "request" => lease.addr # 0 /\ lease.id # 0

LEMMA DhcpRestStep == ASSUME DhcpRest, ND!Next PROVE DhcpRest'
<1> USE DEF ND!Network, ND!Fail, ND!GoOn, ND!Client
<1>1. CASE ND!Args \/ ND!GetMac \/ ND!Up \/ ND!OpenSocket \/ ND!Timeout \/ ND!Reup
  BY <1>1 DEF DhcpRest, ND!Args, ND!GetMac, ND!Up, ND!SetUp, ND!OpenSocket, ND!Timeout, ND!Reup
<1>2. CASE ND!Apply
  <2>1. UNCHANGED <<lease, packets, replies>> /\ udp' \in BOOLEAN
    BY <1>2 DEF ND!Apply, DhcpRest
  <2>2. reached' # "request"
    <3>1. reached' = "done" \/ (reached \in FromLease /\ reached' = ND!After(reached))
      BY <1>2, DhcpSettings DEF ND!Apply
    <3> QED BY <3>1, DhcpSettings DEF FromLease
  <2> QED BY <2>1, <2>2 DEF DhcpRest
<1>3. CASE ND!Discover
  <2>1. [type |-> "discover"] \in [type : {"discover"}]
    OBVIOUS
  <2>2. UNCHANGED <<lease, replies>> /\ reached' # "request" /\ udp' \in BOOLEAN
    BY <1>3 DEF DhcpRest, ND!Discover, ND!Send
  <2>3. packets' \subseteq packets \cup {[type |-> "discover"]}
    BY <1>3 DEF ND!Discover, ND!Send
  <2> QED BY <2>1, <2>2, <2>3 DEF DhcpRest
<1>4. CASE ND!Request
  <2>1. lease.addr \in Servers /\ lease.id \in Servers
    BY <1>4 DEF DhcpRest, ND!Request, ND!NoLease
  <2>2. UNCHANGED <<lease, replies>> /\ reached' # "request" /\ udp' \in BOOLEAN
    BY <1>4 DEF DhcpRest, ND!Request, ND!Send
  <2>3. packets' \subseteq packets \cup {[type |-> "request", addr |-> lease.addr, id |-> lease.id]}
    BY <1>4 DEF ND!Request, ND!Send
  <2>4. [type |-> "request", addr |-> lease.addr, id |-> lease.id] \in [type : {"request"}, addr : Servers, id : Servers]
    BY <2>1
  <2> QED BY <2>2, <2>3, <2>4 DEF DhcpRest
<1>5. ASSUME NEW m \in replies, ND!Receive(m) PROVE DhcpRest'
  <2>1. reached \in {"offer", "ack"} /\ lease' = ND!Parsed(m) /\ UNCHANGED <<packets, replies>>
    BY <1>5 DEF ND!Receive
  <2>2. m.from \in Servers /\ m.addr \in {0} \cup Servers
    BY DEF DhcpRest, ND!Messages
  <2>3. lease' \in [DOMAIN ND!NoLease -> {0} \cup Servers]
    BY <2>1, <2>2 DEF ND!Parsed, ND!NoLease
  <2>4. udp' \in BOOLEAN /\ (reached' = "request" => lease'.addr # 0 /\ lease'.id # 0)
    BY <1>5, <2>1 DEF ND!Receive, ND!Answered, DhcpRest
  <2> QED BY <2>1, <2>3, <2>4 DEF DhcpRest
<1>6. ASSUME NEW s \in Servers, ND!Offer(s) \/ ND!Decide(s) PROVE DhcpRest'
  <2>1. \A type \in {"offer", "ack", "nak"} : ND!Reply(type, s) \in ND!Messages
    BY DEF ND!Reply, ND!Messages
  <2>2. replies' \subseteq ND!Messages
    BY <1>6, <2>1 DEF DhcpRest, ND!Offer, ND!Decide
  <2>3. UNCHANGED <<udp, lease, packets, reached>>
    BY <1>6 DEF ND!Offer, ND!Decide
  <2> QED BY <2>2, <2>3 DEF DhcpRest
<1> QED BY <1>1, <1>2, <1>3, <1>4, <1>5, <1>6 DEF ND!Next, ND!NsetupStep

LEMMA DhcpRestHolds == (ND!Init => DhcpRest) /\ (DhcpRest /\ UNCHANGED nsetupVars => DhcpRest')
<1>1. ASSUME ND!Init PROVE DhcpRest
  <2>1. reached = "args" /\ udp = FALSE /\ packets = {} /\ replies = Noise /\ lease = ND!NoLease
    BY <1>1 DEF ND!Init
  <2>2. ND!NoLease \in [DOMAIN ND!NoLease -> {0} \cup Servers]
    BY DEF ND!NoLease
  <2> QED BY <2>1, <2>2, DhcpAssumption DEF DhcpRest
<1> QED BY <1>1 DEF DhcpRest, nsetupVars

LEMMA DhcpIsTyped == ASSUME DhcpInv, DhcpRest PROVE ND!TypeOK
<1>1. reached \in Early \cup {"done"} \cup {ND!Settings[k] : k \in 2 .. Len(ND!Settings)} \cup {"reup"}
  BY DhcpSettings DEF DhcpInv, DhcpTypes
<1>2. kernel \in [{ND!Settings[k] : k \in 1 .. Len(ND!Settings)} -> {0} \cup Servers]
  BY DhcpSettings DEF DhcpInv, DhcpTypes
<1> QED BY <1>1, <1>2 DEF Early, DhcpInv, DhcpTypes, DhcpRest, ND!TypeOK

-----------------------------------------------------------------------------
(* Any of the tools *)

ToolsInv == RelocInv /\ ScreenInv /\ SessionInv /\ FetchInv /\ TableInv /\ DhcpInv

toolsVars == <<relocVars, screenVars, sessionVars, fetchVars, sessionsVars, nsetupVars>>

LEMMA ToolsStay == ASSUME ToolsInv, UNCHANGED toolsVars PROVE ToolsInv'
BY RelocStays, ScreenStays, SessionStays, FetchStays, TableStays, DhcpStays DEF ToolsInv, toolsVars

LEMMA ToolsInit == Init => ToolsInv
BY RelocInit, ScreenInit, SessionInit, FetchInit, TableInit, DhcpInit DEF Init, ToolsInv

LEMMA ToolsStep == ASSUME ToolsInv, [Next]_vars PROVE ToolsInv'
<1>1. CASE MR!Next /\ UNCHANGED <<screenVars, sessionVars, fetchVars, sessionsVars, nsetupVars>>
  BY <1>1, RelocStep, ScreenStays, SessionStays, FetchStays, TableStays, DhcpStays DEF ToolsInv
<1>2. CASE TS!Next /\ UNCHANGED <<relocVars, sessionVars, fetchVars, sessionsVars, nsetupVars>>
  BY <1>2, ScreenStep, RelocStays, SessionStays, FetchStays, TableStays, DhcpStays DEF ToolsInv
<1>3. CASE TE!Next /\ UNCHANGED <<relocVars, screenVars, fetchVars, sessionsVars, nsetupVars>>
  BY <1>3, SessionStep, RelocStays, ScreenStays, FetchStays, TableStays, DhcpStays DEF ToolsInv
<1>4. CASE NF!Next /\ UNCHANGED <<relocVars, screenVars, sessionVars, sessionsVars, nsetupVars>>
  BY <1>4, FetchStep, RelocStays, ScreenStays, SessionStays, TableStays, DhcpStays DEF ToolsInv
<1>5. CASE NS!Next /\ UNCHANGED <<relocVars, screenVars, sessionVars, fetchVars, nsetupVars>>
  BY <1>5, TableStep, RelocStays, ScreenStays, SessionStays, FetchStays, DhcpStays DEF ToolsInv
<1>6. CASE ND!Next /\ UNCHANGED <<relocVars, screenVars, sessionVars, fetchVars, sessionsVars>>
  BY <1>6, DhcpStep, RelocStays, ScreenStays, SessionStays, FetchStays, TableStays DEF ToolsInv
<1>7. CASE UNCHANGED toolsVars
  BY <1>7, ToolsStay
<1>8. Next \/ UNCHANGED vars
  OBVIOUS
<1> QED BY <1>1, <1>2, <1>3, <1>4, <1>5, <1>6, <1>7, <1>8 DEF Next, vars, toolsVars

\* What the results of these tools rest on
ResultsInv == MR!TypeOK /\ ScreenOrder /\ SessionRest /\ FetchRest /\ BodyInv /\ LatestInv /\ DhcpRest

LEMMA ResultsStay == ASSUME ResultsInv, UNCHANGED toolsVars PROVE ResultsInv'
BY RelocTypesHold, OrderStays, SessionRestHolds, FetchRestStays, BodyStays, LatestStays, DhcpRestHolds
   DEF ResultsInv, toolsVars

LEMMA ResultsInit == Init => ResultsInv
BY RelocTypesHold, OrderInit, SessionRestHolds, FetchRestInit, BodyInit, LatestInit, DhcpRestHolds DEF Init, ResultsInv

LEMMA ResultsStep == ASSUME ToolsInv, ResultsInv, [Next]_vars PROVE ResultsInv'
<1>1. CASE MR!Next /\ UNCHANGED <<screenVars, sessionVars, fetchVars, sessionsVars, nsetupVars>>
  BY <1>1, RelocTypesStep, OrderStays, SessionRestHolds, FetchRestStays, BodyStays, LatestStays, DhcpRestHolds
     DEF ResultsInv
<1>2. CASE TS!Next /\ UNCHANGED <<relocVars, sessionVars, fetchVars, sessionsVars, nsetupVars>>
  <2>1. ScreenOrder'
    BY <1>2, OrderStep DEF ToolsInv, ResultsInv
  <2> QED BY <1>2, <2>1, RelocTypesHold, SessionRestHolds, FetchRestStays, BodyStays, LatestStays, DhcpRestHolds
          DEF ResultsInv
<1>3. CASE TE!Next /\ UNCHANGED <<relocVars, screenVars, fetchVars, sessionsVars, nsetupVars>>
  BY <1>3, SessionRestStep, RelocTypesHold, OrderStays, FetchRestStays, BodyStays, LatestStays, DhcpRestHolds
     DEF ResultsInv
<1>4. CASE NF!Next /\ UNCHANGED <<relocVars, screenVars, sessionVars, sessionsVars, nsetupVars>>
  <2>1. FetchRest' /\ BodyInv'
    BY <1>4, FetchRestStep, BodyStep DEF ToolsInv, ResultsInv
  <2> QED BY <1>4, <2>1, RelocTypesHold, OrderStays, SessionRestHolds, LatestStays, DhcpRestHolds DEF ResultsInv
<1>5. CASE NS!Next /\ UNCHANGED <<relocVars, screenVars, sessionVars, fetchVars, nsetupVars>>
  <2>1. LatestInv'
    BY <1>5, LatestStep DEF ToolsInv, ResultsInv
  <2> QED BY <1>5, <2>1, RelocTypesHold, OrderStays, SessionRestHolds, FetchRestStays, BodyStays, DhcpRestHolds
          DEF ResultsInv
<1>6. CASE ND!Next /\ UNCHANGED <<relocVars, screenVars, sessionVars, fetchVars, sessionsVars>>
  BY <1>6, DhcpRestStep, RelocTypesHold, OrderStays, SessionRestHolds, FetchRestStays, BodyStays, LatestStays
     DEF ResultsInv
<1>7. CASE UNCHANGED toolsVars
  BY <1>7, ResultsStay
<1>8. Next \/ UNCHANGED vars
  OBVIOUS
<1> QED BY <1>1, <1>2, <1>3, <1>4, <1>5, <1>6, <1>7, <1>8 DEF Next, vars, toolsVars

Running == tool \in Tools
LEMMA ToolStays == Init /\ [][Next]_vars => []Running
<1>1. Init => Running
  BY DEF Init, Running
<1>2. Running /\ [Next]_vars => Running'
  BY DEF Next, vars, Running
<1> QED BY <1>1, <1>2, PTL

\* RunsSafe: whatever comes in between, the linker, the terminal, a download and DHCP
\* leave nothing behind, mix nothing up and change only what they may.  A patched field
\* is read back as the address that was asked for (reloc.c); the cursor leaves the grid
\* only in three ways and the first grid survives the other one (term.c); the shell is
\* waited for and gets its keys in order (term.c); robots.txt is honoured and every descriptor of a
\* download closed (robots.c, transport.c); a TLS session has as many references as
\* there are slots and connections with it (transport.c); and an interface has the
\* address that one server has granted (nsetup.c).  For fields, grids, tables, keys,
\* threads and servers of any size and number.
THEOREM RunsAreSafe == Spec => []RunsSafe
<1>1. ToolsInv => RunsSafe
  BY ScreenIsSafe, SessionIsSafe, FetchIsSafe, TableIsSafe, DhcpIsSafe DEF ToolsInv, RelocInv, RunsSafe
<1> QED BY <1>1, ToolsInit, ToolsStep, PTL DEF Spec

\* ResultsRight: what the linker, the screen, a download and the session table make of
\* their input is what was asked for.  Archive members are selected for their names until
\* nothing is missing that one has, of several definitions the strong one, the first weak
\* or the largest common one is taken and none after a strong one, and an image is written
\* only with all that was asked for (symtab.c, cli.c, macro.c); sections
\* and common symbols share no byte, segments no page, and from edata to end lies all that
\* a program clears (layout.c, emit.c); cells are moved in the order they were written and
\* lines reach the history (term.c); a body in chunks or up to the end of the connection is
\* written as it was sent, one with a length with what came with the head doubled, and of
\* the rules for us that were written the longest decides (http.c, robots.c); the table
\* keeps the hosts used last (transport.c).  For any objects, sections, screens, bodies, rules, hosts and threads.
THEOREM ResultsAreRight == Spec => []ResultsRight
<1>1. ASSUME LinkerInv, ToolsInv, ResultsInv PROVE ResultsRight
  <2>1. LinkInv /\ LinkRight /\ LinkSelects /\ LayoutInv
    BY <1>1 DEF LinkerInv
  <2>2. ScreenInv /\ ScreenOrder /\ FetchInv /\ FetchRest /\ BodyInv /\ TableInv /\ LatestInv
    BY <1>1 DEF ToolsInv, ResultsInv
  <2>3. ML!ArchivesSettled /\ ML!ResolvedRight /\ ML!ImageComplete /\ ML!CommonsPlaced /\ ML!EntryAgreed
    BY <2>1, LinkIsRight
  <2>4. MO!NothingOverlaps /\ MO!SegmentsHold /\ MO!EndsRight
    BY <2>1, LayoutIsRight
  <2>5. TS!CellsInOrder /\ TS!HistoryComplete
    BY <2>2, ScreenIsRight
  <2>6. NF!BodyWritten /\ NF!VerdictRight
    BY <2>2, BodyIsRight, VerdictIsRight
  <2>7. NS!LatestKept
    BY <2>2, LatestIsRight
  <2> QED BY <2>3, <2>4, <2>5, <2>6, <2>7 DEF ResultsRight
<1> QED BY <1>1, LinkerInit, LinkerStep, ToolsInit, ToolsStep, ResultsInit, ResultsStep, PTL DEF Spec

\* TypeOK: the variables of the tool that runs have their types, whatever comes in between.
THEOREM ToolTypes == Spec => []TypeOK
<1>1. ASSUME Running, GuiInv, GuiTypes, LinkerInv, ToolsInv, ResultsInv PROVE TypeOK
  <2>1. R!TypeOK
    BY <1>1, RanalIsTyped DEF GuiInv, GuiTypes
  <2>2. F!TypeOK
    BY <1>1, FrameIsTyped DEF GuiInv, GuiTypes
  <2>3. B!TypeOK
    BY <1>1, BridgeIsTyped DEF GuiInv, GuiTypes
  <2>4. L!TypeOK
    BY <1>1, LauncherIsTyped DEF GuiInv, GuiTypes
  <2>5. S!TypeOK
    BY <1>1, SeatIsTyped DEF GuiInv, GuiTypes
  <2>6. D!TypeOK
    BY <1>1, DmabufIsTyped DEF GuiInv, GuiTypes
  <2>7. P!TypeOK
    BY <1>1, PositionerIsTyped DEF GuiInv, GuiTypes
  <2>8. ML!TypeOK
    BY <1>1, LinkIsTyped DEF LinkerInv
  <2>9. MO!TypeOK
    BY <1>1 DEF LinkerInv, LayoutInv
  <2>10. MR!TypeOK
    BY <1>1 DEF ResultsInv
  <2>11. TS!TypeOK
    BY <1>1, ScreenIsRight DEF ToolsInv, ResultsInv
  <2>12. TE!TypeOK
    BY <1>1, SessionIsTyped DEF ToolsInv, ResultsInv
  <2>13. NF!TypeOK
    BY <1>1, FetchIsTyped DEF ToolsInv, ResultsInv
  <2>14. NS!TypeOK
    BY <1>1, LatestIsRight DEF ToolsInv, ResultsInv
  <2>15. ND!TypeOK
    BY <1>1, DhcpIsTyped DEF ToolsInv, ResultsInv
  <2> QED BY <1>1, <2>1, <2>2, <2>3, <2>4, <2>5, <2>6, <2>7, <2>8, <2>9, <2>10, <2>11, <2>12, <2>13, <2>14, <2>15
          DEF TypeOK, Running
<1> QED BY <1>1, ToolStays, GuiInit, GuiStep, GuiTypesInit, GuiTypesStep, LinkerInit, LinkerStep, ToolsInit, ToolsStep,
           ResultsInit, ResultsStep, PTL DEF Spec
=============================================================================
