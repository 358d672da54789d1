-------------------------------- MODULE Log --------------------------------
(***************************************************************************)
(* Console logging and the progress line (src/log.c), as operators on the  *)
(* globals of log.c together with what stderr shows.                       *)
(*                                                                         *)
(* A log state is a record: tty, level, fp (a log file is open), active    *)
(* and width (g_progress_active, g_progress_width), row (the line that     *)
(* stderr is at, column by column), col (the columns left of the cursor)   *)
(* and whole (history: the line completed last held one text).  A text is  *)
(* a mark, which tells it from other texts, and the columns it takes with  *)
(* its "[LABEL] " prefix.                                                  *)
(***************************************************************************)
EXTENDS Integers

CONSTANTS
  Cols,      \* columns of the terminal
  MsgWidth   \* columns of a log message

ASSUME Screen == Cols \in Nat /\ MsgWidth \in 0..Cols

LOG_LEVEL_NONE  == 0
LOG_LEVEL_ERROR == 1
LOG_LEVEL_WARN  == 2
LOG_LEVEL_INFO  == 3
LOG_LEVEL_DEBUG == 4

Columns == 1..Cols
Blank   == 0
Message == -1   \* the mark of every message; those of progress lines are positive

BlankRow == [c \in Columns |-> Blank]

\* One text from the first column on, and nothing beside it.
OneText(row) ==
  \E width \in 0..Cols : \A c \in Columns : row[c] = IF c <= width THEN row[1] ELSE Blank

Fresh(tty) ==
  [tty |-> tty, level |-> LOG_LEVEL_INFO, fp |-> FALSE, active |-> FALSE, width |-> 0,
   row |-> BlankRow, col |-> 0, whole |-> TRUE]

-----------------------------------------------------------------------------
(* stderr *)

Put(l, mark, n) ==
  [l EXCEPT !.row = [c \in Columns |-> IF c \in (l.col + 1)..(l.col + n) THEN mark ELSE l.row[c]],
            !.col = l.col + n]

CarriageReturn(l) == [l EXCEPT !.col = 0]

Newline(l) == [l EXCEPT !.whole = OneText(l.row), !.row = BlankRow, !.col = 0]

-----------------------------------------------------------------------------
log_render_line(l, mark, n) == Newline(Put(l, mark, n))

log_reset_progress_state(l) == [l EXCEPT !.active = FALSE, !.width = 0]

log_set_level(l, level) ==
  [l EXCEPT !.level = IF level < LOG_LEVEL_NONE THEN LOG_LEVEL_NONE
                      ELSE IF level > LOG_LEVEL_DEBUG THEN LOG_LEVEL_DEBUG ELSE level]

log_is_enabled(l, level) == level > LOG_LEVEL_NONE /\ level <= l.level

log_progress_enabled(l) == log_is_enabled(l, LOG_LEVEL_INFO)

\* Mutant of log_render_progress: a shorter line is not padded.
log_render_progress_unpadded(l, text, final_line) ==
  LET printed == Put(CarriageReturn(l), text.mark, text.width)
  IN  IF ~log_progress_enabled(l) THEN l
      ELSE IF ~l.tty THEN log_render_line(l, text.mark, text.width)
      ELSE IF final_line THEN log_reset_progress_state(Newline(printed))
      ELSE [printed EXCEPT !.active = TRUE, !.width = text.width + 1]

\* printed_width counts the '\r'.
log_render_progress(l, text, final_line) ==
  LET printed_width == text.width + 1
      printed == Put(CarriageReturn(l), text.mark, text.width)
      padded  == IF l.active /\ printed_width < l.width
                 THEN Put(printed, Blank, l.width - printed_width) ELSE printed
  IN  IF ~log_progress_enabled(l) THEN l
      ELSE IF ~l.tty THEN log_render_line(l, text.mark, text.width)
      ELSE IF final_line THEN log_reset_progress_state(Newline(padded))
      ELSE [padded EXCEPT !.active = TRUE, !.width = printed_width]

log_progress_clear(l) ==
  IF ~l.active \/ ~l.tty THEN log_reset_progress_state(l)
  ELSE log_reset_progress_state(CarriageReturn(Put(CarriageReturn(l), Blank, l.width)))

\* The log file gets the same messages; its contents are left out.
log_vwrite(l, level) ==
  IF ~log_is_enabled(l, level) THEN l
  ELSE log_render_line(IF l.active THEN log_progress_clear(l) ELSE l, Message, MsgWidth)

\* path_set: a log_file is configured; opens: fopen succeeds.
log_set_file(l, path_set, opens) ==
  IF ~path_set THEN l
  ELSE IF ~opens THEN log_vwrite(l, LOG_LEVEL_WARN)
  ELSE [l EXCEPT !.fp = TRUE]

log_close(l) == [log_progress_clear(l) EXCEPT !.fp = FALSE]

\* The amount as text, and the columns that it, the speed and the time left take.
\* It returns -1 for a line that does not fit, but the caller's 128 bytes hold the
\* longest one (127 bytes: percentage, 31 bytes each for the two amounts and the
\* speed, 15 for the time), so that no line is dropped.
log_format_progress_line(transferred, width) == [mark |-> transferred, width |-> width]

-----------------------------------------------------------------------------
(* When download progress is printed.  -1 stands for "none". *)

log_progress_percent_milestone(percent) ==
  IF percent < 10 THEN -1 ELSE IF percent >= 100 THEN 100 ELSE (percent \div 10) * 10

log_progress_byte_milestone(transferred, interval) ==
  IF interval = 0 THEN 0 ELSE transferred \div interval

\* first: nothing was emitted yet (last_emit_ms < 0).
log_progress_should_emit(first, elapsed_ms, previous_percent, current_percent, completed) ==
  \/ completed
  \/ first
  \/ elapsed_ms >= 500
  \/ current_percent >= 0 /\ current_percent # previous_percent /\ elapsed_ms >= 200
=============================================================================
