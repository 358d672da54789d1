----------------------------- MODULE LogProofs ------------------------------
(***************************************************************************)
(* What the operators of Log do to a terminal, whatever its width: a completed*)
(* line is one text, and log.c knows the width of the line it left open.   *)
(***************************************************************************)
EXTENDS Log, TLAPS

LogState ==
  [tty : BOOLEAN, level : 0..4, fp : BOOLEAN, active : BOOLEAN, width : Nat,
   row : [Columns -> Int], col : Nat, whole : BOOLEAN]

\* The row holds one text of that width and nothing else.
Text(row, width) == \E mark : \A c \in Columns : row[c] = IF c <= width THEN mark ELSE Blank

\* Without an open progress line the row is empty; with one it holds that line, and
\* log.c knows its width, the carriage return included.
LogOK(l) ==
  /\ l \in LogState /\ l.whole
  /\ ~l.active => l.row = BlankRow /\ l.col = 0
  /\ l.active => l.tty /\ l.width >= 1 /\ Text(l.row, l.width - 1)

\* Same settings of l and k.
Same(l, k) == k.tty = l.tty /\ k.level = l.level

\* A row that holds one text completes a whole line.
LEMMA TextIsOne ==
  ASSUME NEW row \in [Columns -> Int], NEW width \in 0..Cols, Text(row, width)
  PROVE  OneText(row)
<1>1. PICK mark : \A c \in Columns : row[c] = IF c <= width THEN mark ELSE Blank
  BY DEF Text
<1>2. CASE width = 0
  BY <1>1, <1>2, Screen DEF OneText, Columns
<1>3. CASE width # 0
  <2>1. 1 \in Columns /\ row[1] = mark
    BY <1>1, <1>3, Screen DEF Columns
  <2> QED
    BY <1>1, <2>1 DEF OneText
<1> QED
  BY <1>2, <1>3

\* k is l but for row and col.
Moved(l, k) ==
  /\ k \in LogState /\ k.tty = l.tty /\ k.level = l.level /\ k.active = l.active
  /\ k.width = l.width /\ k.whole = l.whole

\* Printing at the cursor.
LEMMA PutRow ==
  ASSUME NEW l \in LogState, NEW mark \in Int, NEW n \in Nat
  PROVE  /\ Moved(l, Put(l, mark, n))
         /\ \A c \in Columns : Put(l, mark, n).row[c] =
              IF c > l.col /\ c <= l.col + n THEN mark ELSE l.row[c]
         /\ Put(l, mark, n).col = l.col + n
<1> DEFINE r == [c \in Columns |-> IF c \in (l.col + 1)..(l.col + n) THEN mark ELSE l.row[c]]
           m == l.col + n
<1>1. r \in [Columns -> Int] /\ m \in Nat
  BY DEF LogState
<1>2. \A c \in Columns : r[c] = IF c > l.col /\ c <= l.col + n THEN mark ELSE l.row[c]
  BY DEF Columns, LogState
<1>3. Put(l, mark, n) = [l EXCEPT !.row = r, !.col = m]
  BY DEF Put
<1> HIDE DEF r, m
<1> DEFINE k == [l EXCEPT !.row = r, !.col = m]
<1>4. k \in LogState /\ k.row = r /\ k.col = m /\ k.level = l.level /\ k.width = l.width
  BY <1>1, Zenon DEF LogState
<1>5. k.tty = l.tty /\ k.active = l.active /\ k.whole = l.whole
  BY <1>1 DEF LogState
<1> QED
  BY <1>2, <1>3, <1>4, <1>5 DEF Moved, m

\* A carriage return moves the cursor only.
LEMMA Returned ==
  ASSUME NEW l \in LogState
  PROVE  Moved(l, CarriageReturn(l)) /\ CarriageReturn(l).row = l.row /\ CarriageReturn(l).col = 0
<1> DEFINE k == [l EXCEPT !.col = 0]
<1>1. k \in LogState /\ k.row = l.row /\ k.col = 0 /\ k.level = l.level /\ k.width = l.width
  BY DEF LogState
<1>2. k.tty = l.tty /\ k.active = l.active /\ k.whole = l.whole
  BY DEF LogState
<1> QED
  BY <1>1, <1>2 DEF Moved, CarriageReturn

\* The row is completed.
LEMMA Completed ==
  ASSUME NEW l \in LogState, OneText(l.row)
  PROVE  /\ Newline(l) \in LogState /\ Newline(l).row = BlankRow /\ Newline(l).col = 0
         /\ Newline(l).whole /\ Same(l, Newline(l)) /\ Newline(l).active = l.active
<1> DEFINE k == [l EXCEPT !.whole = TRUE, !.row = BlankRow, !.col = 0]
<1>1. BlankRow \in [Columns -> Int]
  BY DEF BlankRow, Blank
<1>2. Newline(l) = k
  BY Zenon DEF Newline, OneText
<1>3. k \in LogState /\ k.row = BlankRow /\ k.col = 0 /\ k.level = l.level
  BY <1>1, Zenon DEF LogState
<1>4. k.tty = l.tty /\ k.active = l.active /\ k.whole
  BY <1>1 DEF LogState
<1> QED
  BY <1>2, <1>3, <1>4 DEF Same

\* The row stays when log.c forgets its progress line.
LEMMA Reset ==
  ASSUME NEW l \in LogState
  PROVE  LET k == log_reset_progress_state(l)
         IN  /\ k \in LogState /\ Same(l, k) /\ ~k.active
             /\ k.row = l.row /\ k.col = l.col /\ k.whole = l.whole
<1> DEFINE k == [l EXCEPT !.active = FALSE, !.width = 0]
<1>1. k \in LogState /\ k.row = l.row /\ k.col = l.col /\ k.level = l.level
  BY Zenon DEF LogState
<1>2. k.tty = l.tty /\ ~k.active /\ k.whole = l.whole
  BY DEF LogState
<1> QED
  BY <1>1, <1>2 DEF Same, log_reset_progress_state

\* A line printed on an empty row.
LEMMA RenderLine ==
  ASSUME NEW l, LogOK(l), ~l.active, NEW mark \in Int, NEW n \in 0..Cols
  PROVE  /\ LogOK(log_render_line(l, mark, n)) /\ Same(l, log_render_line(l, mark, n))
         /\ ~log_render_line(l, mark, n).active
<1> DEFINE k == Put(l, mark, n)
<1>1. l \in LogState /\ l.col = 0 /\ l.row = BlankRow /\ n \in Nat
  BY Screen DEF LogOK
<1>2. Moved(l, k) /\ \A c \in Columns : k.row[c] = IF c <= n THEN mark ELSE l.row[c]
  BY <1>1, PutRow DEF Columns
<1>3. k \in LogState /\ k.row \in [Columns -> Int] /\ Same(l, k) /\ ~k.active
  BY <1>2 DEF Moved, LogState, Same
<1>4. Text(k.row, n)
  BY <1>1, <1>2 DEF Text, BlankRow
<1>5. OneText(k.row)
  BY <1>3, <1>4, TextIsOne
<1> HIDE DEF k
<1>6. LogOK(Newline(k)) /\ Same(l, Newline(k)) /\ ~Newline(k).active
  BY <1>3, <1>5, Completed DEF LogOK, Same
<1> QED
  BY <1>6 DEF log_render_line, k

\* log_progress_clear leaves an empty row.
LEMMA Clear ==
  ASSUME NEW l, LogOK(l)
  PROVE  LET k == log_progress_clear(l) IN LogOK(k) /\ Same(l, k) /\ ~k.active
<1>1. CASE ~l.active
  <2>1. log_progress_clear(l) = log_reset_progress_state(l)
    BY <1>1 DEF log_progress_clear
  <2> QED
    BY <1>1, <2>1, Reset DEF LogOK
<1>2. CASE l.active
  <2> DEFINE a == CarriageReturn(l)
             b == Put(a, Blank, l.width)
             d == CarriageReturn(b)
  <2>1. /\ l \in LogState /\ l.tty /\ l.width \in Nat /\ l.width >= 1
        /\ Text(l.row, l.width - 1) /\ l.whole
    BY <1>2 DEF LogOK, LogState
  <2>2. Moved(l, a) /\ a.row = l.row /\ a.col = 0
    BY <2>1, Returned
  <2>3. a \in LogState
    BY <2>2 DEF Moved
  <2>4. Moved(a, b) /\ \A c \in Columns : b.row[c] = IF c <= l.width THEN Blank ELSE a.row[c]
    BY <2>1, <2>2, <2>3, PutRow DEF Blank, Columns
  <2>5. Moved(b, d) /\ d.row = b.row /\ d.col = 0
    BY <2>4, Returned DEF Moved
  <2>6. b.row = BlankRow
    <3>1. \A c \in Columns : l.row[c] = Blank \/ c <= l.width
      BY <2>1 DEF Text, Columns
    <3>2. \A c \in Columns : b.row[c] = Blank
      BY <2>2, <2>4, <3>1
    <3>3. b.row \in [Columns -> Int]
      BY <2>4 DEF Moved, LogState
    <3> QED
      BY <3>2, <3>3 DEF BlankRow
  <2>7. log_progress_clear(l) = log_reset_progress_state(d)
    BY <1>2, <2>1 DEF log_progress_clear
  <2> HIDE DEF a, b, d
  <2>8. d \in LogState /\ Same(l, d) /\ d.row = BlankRow /\ d.col = 0 /\ d.whole
    BY <2>1, <2>2, <2>4, <2>5, <2>6 DEF Moved, Same
  <2>9. Same(d, log_reset_progress_state(d)) /\ LogOK(log_reset_progress_state(d))
        /\ ~log_reset_progress_state(d).active
    BY <2>8, Reset DEF LogOK
  <2> QED
    BY <2>7, <2>8, <2>9 DEF Same
<1> QED
  BY <1>1, <1>2 DEF LogOK, LogState
\* A message, after an open progress line is cleared.
LEMMA Vwrite ==
  ASSUME NEW l, LogOK(l), NEW level \in Int
  PROVE  LET k == log_vwrite(l, level)
         IN  /\ LogOK(k) /\ Same(l, k)
             /\ k.active => l.active
             /\ log_is_enabled(l, level) => ~k.active
<1>1. CASE ~log_is_enabled(l, level)
  BY <1>1 DEF log_vwrite, Same
<1>2. CASE log_is_enabled(l, level)
  <2> DEFINE a == IF l.active THEN log_progress_clear(l) ELSE l
  <2>1. LogOK(a) /\ Same(l, a) /\ ~a.active
    BY Clear DEF Same
  <2>2. log_vwrite(l, level) = log_render_line(a, Message, MsgWidth)
    BY <1>2 DEF log_vwrite
  <2> HIDE DEF a
  <2>3. LET k == log_render_line(a, Message, MsgWidth) IN LogOK(k) /\ Same(a, k) /\ ~k.active
    BY <2>1, Screen, RenderLine DEF Message
  <2> QED
    BY <2>1, <2>2, <2>3 DEF Same
<1> QED
  BY <1>1, <1>2

\* A progress line replaces the one before, however long that was.
LEMMA RenderProgress ==
  ASSUME NEW l, LogOK(l), NEW mark \in Int, NEW width \in 1..Cols, NEW final_line \in BOOLEAN
  PROVE  LET k == log_render_progress(l, [mark |-> mark, width |-> width], final_line)
         IN  /\ LogOK(k) /\ Same(l, k)
             /\ log_progress_enabled(l) /\ final_line => ~k.active
<1> DEFINE t == [mark |-> mark, width |-> width]
           k == log_render_progress(l, t, final_line)
           a == CarriageReturn(l)
           b == Put(a, mark, width)
           d == IF l.active /\ width + 1 < l.width THEN Put(b, Blank, l.width - (width + 1)) ELSE b
<1>1. CASE ~log_progress_enabled(l)
  BY <1>1 DEF log_render_progress, Same
<1>2. CASE log_progress_enabled(l) /\ ~l.tty
  <2>1. ~l.active /\ width \in 0..Cols
    BY <1>2 DEF LogOK
  <2>2. k = log_render_line(l, mark, width)
    BY <1>2 DEF log_render_progress
  <2> QED
    BY <2>1, <2>2, RenderLine
<1>3. CASE log_progress_enabled(l) /\ l.tty
  <2>1. l \in LogState /\ l.whole /\ l.width \in Nat
    BY DEF LogOK, LogState
  <2>2. Moved(l, a) /\ a.row = l.row /\ a.col = 0 /\ a \in LogState
    BY <2>1, Returned, Zenon DEF Moved
  <2>3. /\ Moved(a, b) /\ b.col = width /\ b \in LogState
        /\ \A c \in Columns : b.row[c] = IF c <= width THEN mark ELSE l.row[c]
    BY <2>2, PutRow DEF Moved, Columns
  <2>4. Moved(b, d) /\ d \in LogState /\ Text(d.row, width)
    <3>1. CASE l.active /\ width + 1 < l.width
      <4>1. l.width - (width + 1) \in Nat /\ Text(l.row, l.width - 1)
        BY <2>1, <3>1 DEF LogOK
      <4>2. d = Put(b, Blank, l.width - (width + 1))
        BY <3>1
      <4>3. /\ Moved(b, d)
            /\ \A c \in Columns : d.row[c] =
                 IF c > width /\ c <= l.width - 1 THEN Blank ELSE b.row[c]
        BY <2>1, <2>3, <4>1, <4>2, PutRow DEF Blank, Columns
      <4>4. \A c \in Columns : c > l.width - 1 => l.row[c] = Blank
        BY <2>1, <4>1 DEF Text, Columns
      <4>5. \A c \in Columns : d.row[c] = IF c <= width THEN mark ELSE Blank
        BY <2>1, <2>3, <4>3, <4>4 DEF Columns
      <4> QED
        BY <4>3, <4>5 DEF Text, Moved
    <3>2. CASE ~(l.active /\ width + 1 < l.width)
      <4>1. d = b
        BY <3>2
      <4>2. \A c \in Columns : c > width => l.row[c] = Blank
        <5>1. CASE l.active
          BY <2>1, <3>2, <5>1 DEF LogOK, Text, Columns
        <5>2. CASE ~l.active
          BY <5>2 DEF LogOK, BlankRow
        <5> QED
          BY <5>1, <5>2
      <4>3. \A c \in Columns : b.row[c] = IF c <= width THEN mark ELSE Blank
        BY <2>3, <4>2 DEF Columns
      <4> QED
        BY <2>3, <4>1, <4>3 DEF Text, Moved
    <3> QED
      BY <3>1, <3>2
  <2>5. d.row \in [Columns -> Int] /\ d.whole /\ Same(l, d) /\ d.tty
    BY <1>3, <2>1, <2>2, <2>3, <2>4, Zenon DEF Moved, Same, LogState
  <2>6. k = IF final_line THEN log_reset_progress_state(Newline(d))
            ELSE [d EXCEPT !.active = TRUE, !.width = width + 1]
    BY <1>3 DEF log_render_progress
  <2> HIDE DEF a, b, d, k
  <2>7. CASE final_line
    <3>1. OneText(d.row)
      BY <2>4, <2>5, TextIsOne
    <3>2. /\ Newline(d) \in LogState /\ Newline(d).row = BlankRow /\ Newline(d).col = 0
          /\ Newline(d).whole /\ Same(d, Newline(d))
      BY <2>4, <3>1, Completed
    <3>3. LogOK(k) /\ Same(Newline(d), k) /\ ~k.active
      BY <2>6, <2>7, <3>2, Reset DEF LogOK
    <3> QED
      BY <2>5, <3>2, <3>3 DEF Same, k
  <2>8. CASE ~final_line
    <3>1. k = [d EXCEPT !.active = TRUE, !.width = width + 1] /\ width + 1 \in Nat
      BY <2>6, <2>8
    <3>2. k \in LogState /\ k.width = width + 1 /\ k.row = d.row /\ k.level = d.level
      BY <2>4, <3>1, Zenon DEF LogState
    <3>3. k.tty = d.tty /\ k.active /\ k.whole = d.whole
      BY <2>4, <3>1 DEF LogState
    <3>4. k.width - 1 = width /\ k.width >= 1
      BY <3>2
    <3>5. LogOK(k)
      BY <2>4, <2>5, <3>2, <3>3, <3>4 DEF LogOK
    <3> QED
      BY <2>5, <2>8, <3>2, <3>3, <3>5, Zenon DEF Same, k
  <2> QED
    BY <2>7, <2>8 DEF k
<1> QED
  BY <1>1, <1>2, <1>3 DEF LogOK, LogState

\* log_progress_update and log_progress_finish with a line of the given width.
Update(l, mark, width) == log_render_progress(l, [mark |-> mark, width |-> width], FALSE)

Finish(l, mark, width) == log_render_progress(l, [mark |-> mark, width |-> width], TRUE)

\* Either draws one whole line, and the second closes it.
LEMMA Rendered ==
  ASSUME NEW l, LogOK(l), NEW mark \in Int, NEW width \in 1..Cols
  PROVE  /\ LogOK(Update(l, mark, width)) /\ Same(l, Update(l, mark, width))
         /\ LogOK(Finish(l, mark, width)) /\ Same(l, Finish(l, mark, width))
         /\ log_progress_enabled(l) => ~Finish(l, mark, width).active
<1>1. FALSE \in BOOLEAN /\ TRUE \in BOOLEAN
  OBVIOUS
<1> QED
  BY <1>1, RenderProgress, Zenon DEF Update, Finish

\* A terminal that nothing was printed on.
LEMMA FreshScreen ==
  ASSUME NEW tty \in BOOLEAN
  PROVE  LogOK(Fresh(tty)) /\ Fresh(tty).level = LOG_LEVEL_INFO /\ ~Fresh(tty).active
<1>1. BlankRow \in [Columns -> Int]
  BY DEF BlankRow, Blank
<1>2. Fresh(tty) \in LogState
  BY <1>1 DEF Fresh, LogState, LOG_LEVEL_INFO
<1>3. /\ Fresh(tty).whole /\ ~Fresh(tty).active /\ Fresh(tty).row = BlankRow
      /\ Fresh(tty).col = 0 /\ Fresh(tty).level = LOG_LEVEL_INFO
  BY DEF Fresh
<1> QED
  BY <1>2, <1>3 DEF LogOK

-----------------------------------------------------------------------------
(* What printing leaves alone *)

\* k has the field of l.
Keeps(field, l, k) == field \in DOMAIN l => field \in DOMAIN k /\ k[field] = l[field]

\* Whether stderr is a terminal, and whether the log file is open, are not changed by
\* what is printed.
LEMMA PrintingKeeps ==
  ASSUME NEW l, NEW mark, NEW n, NEW field \in {"tty", "fp"}
  PROVE  /\ Keeps(field, l, Put(l, mark, n)) /\ Keeps(field, l, CarriageReturn(l))
         /\ Keeps(field, l, Newline(l)) /\ Keeps(field, l, log_reset_progress_state(l))
<1>1. Keeps(field, l, Put(l, mark, n))
  BY Zenon DEF Keeps, Put
<1>2. Keeps(field, l, CarriageReturn(l))
  BY DEF Keeps, CarriageReturn
<1>3. Keeps(field, l, Newline(l))
  BY Zenon DEF Keeps, Newline
<1>4. Keeps(field, l, log_reset_progress_state(l))
  BY Zenon DEF Keeps, log_reset_progress_state
<1> QED
  BY <1>1, <1>2, <1>3, <1>4

\* One thing after the other.
LEMMA KeepsBoth ==
  ASSUME NEW l, NEW k, NEW m, NEW field, Keeps(field, l, k), Keeps(field, k, m)
  PROVE  Keeps(field, l, m)
BY Zenon DEF Keeps

\* Nor by messages, or a new level.
LEMMA MessagesKeep ==
  ASSUME NEW l, NEW level, NEW field \in {"tty", "fp"}
  PROVE  /\ Keeps(field, l, log_progress_clear(l)) /\ Keeps(field, l, log_vwrite(l, level))
         /\ Keeps(field, l, log_set_level(l, level))
<1>1. ASSUME NEW k PROVE Keeps(field, k, log_progress_clear(k))
  <2> DEFINE a == CarriageReturn(k)
             b == Put(a, Blank, k.width)
             c == CarriageReturn(b)
  <2>1. Keeps(field, k, a) /\ Keeps(field, a, b) /\ Keeps(field, b, c)
        /\ Keeps(field, c, log_reset_progress_state(c))
        /\ Keeps(field, k, log_reset_progress_state(k))
    BY PrintingKeeps
  <2>2. log_progress_clear(k) \in {log_reset_progress_state(k), log_reset_progress_state(c)}
    BY DEF log_progress_clear
  <2> HIDE DEF a, b, c
  <2>3. Keeps(field, k, log_reset_progress_state(c))
    BY <2>1, KeepsBoth
  <2> QED
    BY <2>1, <2>2, <2>3
<1>2. ASSUME NEW k PROVE Keeps(field, k, log_render_line(k, Message, MsgWidth))
  <2> DEFINE a == Put(k, Message, MsgWidth)
  <2>1. Keeps(field, k, a) /\ Keeps(field, a, Newline(a))
    BY PrintingKeeps
  <2> QED
    BY <2>1, KeepsBoth DEF log_render_line
<1>3. Keeps(field, l, log_vwrite(l, level))
  <2>1. Keeps(field, l, l)
    BY DEF Keeps
  <2> DEFINE a == IF l.active THEN log_progress_clear(l) ELSE l
  <2>2. Keeps(field, l, a)
    BY <1>1, <2>1
  <2>3. log_vwrite(l, level) \in {l, log_render_line(a, Message, MsgWidth)}
    BY DEF log_vwrite
  <2> HIDE DEF a
  <2> QED
    BY <1>2, <2>1, <2>2, <2>3, KeepsBoth
<1>4. Keeps(field, l, log_set_level(l, level))
  BY DEF Keeps, log_set_level
<1> QED
  BY <1>1, <1>3, <1>4

\* Nor by progress lines.
LEMMA ProgressKeeps ==
  ASSUME NEW l, NEW text, NEW final_line, NEW field \in {"tty", "fp"}
  PROVE  Keeps(field, l, log_render_progress(l, text, final_line))
<1> DEFINE moved   == CarriageReturn(l)
           printed == Put(moved, text.mark, text.width)
           padded  == IF l.active /\ text.width + 1 < l.width
                      THEN Put(printed, Blank, l.width - (text.width + 1)) ELSE printed
           opened  == [padded EXCEPT !.active = TRUE, !.width = text.width + 1]
           line    == Put(l, text.mark, text.width)
<1>1. log_render_progress(l, text, final_line) \in
        {l, Newline(line), log_reset_progress_state(Newline(padded)), opened}
  BY DEF log_render_progress, log_render_line
<1>2. /\ Keeps(field, l, l) /\ Keeps(field, printed, printed)
      /\ Keeps(field, padded, opened)
  BY Zenon DEF Keeps
<1>3. Keeps(field, l, moved) /\ Keeps(field, moved, printed)
  BY PrintingKeeps
<1>4. Keeps(field, printed, padded)
  BY <1>2, PrintingKeeps
<1>5. /\ Keeps(field, padded, Newline(padded))
      /\ Keeps(field, Newline(padded), log_reset_progress_state(Newline(padded)))
  BY PrintingKeeps
<1>6. Keeps(field, l, line) /\ Keeps(field, line, Newline(line))
  BY PrintingKeeps
<1> HIDE DEF moved, printed, padded, opened, line
<1>7. Keeps(field, l, padded) /\ Keeps(field, l, Newline(line))
  BY <1>3, <1>4, <1>6, KeepsBoth
<1>8. Keeps(field, l, opened) /\ Keeps(field, l, Newline(padded))
  BY <1>2, <1>5, <1>7, KeepsBoth
<1>9. Keeps(field, l, log_reset_progress_state(Newline(padded)))
  BY <1>5, <1>8, KeepsBoth
<1> QED
  BY <1>1, <1>2, <1>7, <1>8, <1>9
=============================================================================
