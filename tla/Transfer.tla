------------------------------ MODULE Transfer ------------------------------
(***************************************************************************)
(* fetch_file and its progress output (src/ota_fetch.c), for processes     *)
(* that download the same URL to the same path: a service and an operator  *)
(* who runs ota-fetch by hand, say.  Nothing keeps them apart.             *)
(*                                                                         *)
(* A body comes in chunks.  Names refer to inodes, because a process goes  *)
(* on writing to the inode it opened whatever happens to the name.         *)
(***************************************************************************)
EXTENDS Log, Sequences, FiniteSets

CONSTANTS
  Procs,
  Tty,              \* Tty[p]: whether stderr of p may be a terminal, and may not be one
  Shows,            \* Shows[p]: values of show_progress in p's calls
  transfer_timeout, low_speed_limit, low_speed_time, \* configuration of p
  Sizes,            \* Sizes[v]: chunks of version v of the body
  Bytes,            \* Bytes[n]: size of the first n chunks
  Widths,           \* columns a progress line may take
  ByteInterval,     \* LOG_PROGRESS_NONTTY_BYTE_INTERVAL
  MaxFetches,       \* bound: calls of fetch_file per process
  MaxFaults         \* bound: failing calls, broken connections and kills

Versions == DOMAIN Sizes
Chunks   == DOMAIN Bytes

ASSUME TransferInputs ==
  /\ Tty \in [Procs -> SUBSET BOOLEAN] /\ Shows \in [Procs -> SUBSET BOOLEAN]
  /\ transfer_timeout \in [Procs -> Nat]
  /\ low_speed_limit \in [Procs -> Nat] /\ low_speed_time \in [Procs -> Nat]
  /\ Sizes \in Seq(Nat) /\ Bytes \in Seq(Nat \ {0}) /\ Versions # {}
  /\ \A v \in Versions : Sizes[v] \in Chunks
  /\ \A m, n \in Chunks : m <= n => Bytes[m] <= Bytes[n]
  /\ Widths \subseteq 1..Cols
  /\ ByteInterval \in Nat /\ MaxFetches \in Nat /\ MaxFaults \in Nat

VARIABLES
  pc,        \* pc[p]: the call p is about to make, "idle" outside fetch_file
  rc,        \* rc[p]: the result of p's last call
  progress_enabled, progress, \* locals of fetch_file
  fd,        \* fd[p]: the inode p writes to
  body,      \* body[p]: the version the server is sending to p, 0 before the response
  known,     \* known[p]: the response has a Content-Length
  got, put,  \* chunks that p has received, and has written to fd[p]
  tmp, dest, \* the inode that "<dest>.tmp" and <dest> refer to, 0 if none
  data,      \* data[i][n]: the version that chunk n of inode i is of, 0 if absent
  server,    \* the version the server offers
  log,       \* log[p]: see Log
  shown,     \* history: the progress line p printed last in this call
  lines,     \* history: how many progress lines p printed in this call, without a terminal
  shared,    \* history: processes whose download overlapped another one
  fetches, faults

local   == <<progress_enabled, progress, fd, body, known, got, put>>
files   == <<tmp, dest, data>>
display == <<log, shown, lines>>
vars    == <<pc, rc, local, files, display, server, shared, fetches, faults>>

Fault   == faults < MaxFaults /\ faults' = faults + 1
NoFault == UNCHANGED faults

Goto(p, label) == pc' = [pc EXCEPT ![p] = label] /\ UNCHANGED rc

Return(p, code) == pc' = [pc EXCEPT ![p] = "idle"] /\ rc' = [rc EXCEPT ![p] = code]

NoLine == [bytes |-> 0, final |-> FALSE]

\* started_ms only enters the speed that is printed.
download_progress_init ==
  [total |-> 0, transferred |-> 0, first |-> TRUE, last_percent |-> -1,
   percent_milestone |-> -1, byte_milestone |-> 0]

Init ==
  /\ pc = [p \in Procs |-> "idle"] /\ rc = [p \in Procs |-> "none"]
  /\ progress_enabled = [p \in Procs |-> FALSE]
  /\ progress = [p \in Procs |-> download_progress_init]
  /\ fd = [p \in Procs |-> 0] /\ body = [p \in Procs |-> 0]
  /\ known = [p \in Procs |-> FALSE]
  /\ got = [p \in Procs |-> 0] /\ put = [p \in Procs |-> 0]
  /\ tmp = 0 /\ dest = 0 /\ data = <<>> /\ server = 1
  /\ \E tty \in [Procs -> BOOLEAN] :
       (\A p \in Procs : tty[p] \in Tty[p]) /\ log = [p \in Procs |-> Fresh(tty[p])]
  /\ shown = [p \in Procs |-> NoLine] /\ lines = [p \in Procs |-> 0]
  /\ shared = {} /\ fetches = [p \in Procs |-> 0] /\ faults = 0

-----------------------------------------------------------------------------
(* Progress *)

download_progress_percent(transferred, total) ==
  IF total = 0 THEN -1
  ELSE IF transferred >= total THEN 100 ELSE (transferred * 100) \div total

\* Mutant of Unchanged: a milestone is printed again and again.
Unchanged_never(milestone, last) == FALSE

Unchanged(milestone, last) == milestone = last

\* Without a terminal: progress after the callback, and whether it prints.
Milestone(pr) ==
  LET percent == log_progress_percent_milestone(
                   download_progress_percent(pr.transferred, pr.total))
      bytes   == log_progress_byte_milestone(pr.transferred, ByteInterval)
      skip    == IF pr.total > 0
                 THEN percent < 0 \/ Unchanged(percent, pr.percent_milestone)
                 ELSE bytes = 0 \/ Unchanged(bytes, pr.byte_milestone)
  IN  [emit |-> ~skip,
       progress |-> IF skip THEN pr
                    ELSE IF pr.total > 0 THEN [pr EXCEPT !.percent_milestone = percent]
                    ELSE [pr EXCEPT !.byte_milestone = bytes]]

\* On a terminal.
Throttled(pr, elapsed_ms) ==
  LET percent == download_progress_percent(pr.transferred, pr.total)
      emit == log_progress_should_emit(pr.first, elapsed_ms, pr.last_percent, percent, FALSE)
  IN  [emit |-> emit,
       progress |-> IF emit THEN [pr EXCEPT !.first = FALSE, !.last_percent = percent]
                    ELSE pr]

\* pr: with the counts of this call.
download_progress_callback(l, pr, elapsed_ms) ==
  IF \/ ~log_progress_enabled(l) \/ pr.transferred = 0
     \/ pr.total > 0 /\ pr.transferred >= pr.total
  THEN [emit |-> FALSE, progress |-> pr]
  ELSE IF l.tty THEN Throttled(pr, elapsed_ms) ELSE Milestone(pr)

download_progress_render(l, pr, final_line, width) ==
  IF ~log_progress_enabled(l) \/ pr.transferred = 0 THEN l
  ELSE log_render_progress(l, log_format_progress_line(pr.transferred, width), final_line)

Record(p, pr, final_line) ==
  /\ shown' = [shown EXCEPT ![p] = [bytes |-> pr.transferred, final |-> final_line]]
  /\ lines' = [lines EXCEPT ![p] = IF log[p].tty THEN 0 ELSE @ + 1]

\* Mutant of Counts: a complete download is left before its counts are stored.
Counts_late(p, n) ==
  IF body[p] # 0 /\ n = Sizes[body[p]] THEN progress[p]
  ELSE [progress[p] EXCEPT !.total = IF known[p] THEN Bytes[Sizes[body[p]]] ELSE 0,
                           !.transferred = IF n = 0 THEN 0 ELSE Bytes[n]]

\* dltotal and dlnow, stored in progress before anything else.
Counts(p, n) ==
  [progress[p] EXCEPT !.total = IF known[p] THEN Bytes[Sizes[body[p]]] ELSE 0,
                      !.transferred = IF n = 0 THEN 0 ELSE Bytes[n]]

\* libcurl calls back when it has n chunks.
Callback(p, n) ==
  IF ~progress_enabled[p] THEN UNCHANGED <<progress, display>>
  ELSE \E elapsed_ms \in {0, 200, 500}, width \in Widths :
         LET r == download_progress_callback(log[p], Counts(p, n), elapsed_ms)
         IN  /\ progress' = [progress EXCEPT ![p] = r.progress]
             /\ IF r.emit
                THEN /\ log' = [log EXCEPT ![p] =
                                  download_progress_render(@, r.progress, FALSE, width)]
                     /\ Record(p, r.progress, FALSE)
                ELSE UNCHANGED display

-----------------------------------------------------------------------------
(* The file *)

\* Inode fd[p] when p has written its chunks up to n.
Written(p, n) ==
  [data EXCEPT ![fd[p]] = [c \in Chunks |-> IF c \in (put[p] + 1)..n THEN body[p] ELSE @[c]]]

LogError(p) == log' = [log EXCEPT ![p] = log_vwrite(@, LOG_LEVEL_ERROR)]

\* cleanup: fclose writes what is left in the buffer if it can, then unlink(tmp_path).
Fails(p) ==
  /\ LogError(p)
  /\ \E n \in {put[p], got[p]} : data' = Written(p, n)
  /\ tmp' = 0
  /\ Return(p, "error")
  /\ UNCHANGED <<local, dest, server, shown, lines, shared, fetches>>

\* The path cannot be made or allocated, or <dest>.tmp cannot be opened.
fetch_file(p, show_progress) ==
  /\ pc[p] = "idle" /\ fetches[p] < MaxFetches
  /\ fetches' = [fetches EXCEPT ![p] = @ + 1]
  /\ shown' = [shown EXCEPT ![p] = NoLine] /\ lines' = [lines EXCEPT ![p] = 0]
  /\ progress_enabled' = [progress_enabled EXCEPT ![p] =
                            show_progress /\ log_progress_enabled(log[p])]
  /\ \/ NoFault /\ Goto(p, "open") /\ UNCHANGED <<log, tmp>>
     \/ Fault /\ LogError(p) /\ Return(p, "error") /\ tmp' \in {tmp, 0}
  /\ UNCHANGED <<progress, fd, body, known, got, put, dest, data, server, shared>>

Downloading(p) == pc[p] \in {"perform", "flush", "rename"}

Opened(p) ==
  /\ Goto(p, "perform")
  /\ fd' = [fd EXCEPT ![p] = tmp']
  /\ progress' = [progress EXCEPT ![p] = download_progress_init]
  /\ body' = [body EXCEPT ![p] = 0]
  /\ got' = [got EXCEPT ![p] = 0] /\ put' = [put EXCEPT ![p] = 0]
  /\ LET others == {q \in Procs \ {p} : Downloading(q)}
     IN  shared' = IF others = {} THEN shared \ {p} ELSE shared \cup others \cup {p}
  /\ NoFault
  /\ UNCHANGED <<progress_enabled, known, dest, display, server, fetches>>

Absent == [c \in Chunks |-> 0]

\* fopen(tmp_path, "wb"): the inode at that name, truncated, or a new one.
fopen(p) ==
  /\ pc[p] = "open"
  /\ IF tmp = 0 THEN data' = Append(data, Absent) /\ tmp' = Len(data')
                ELSE data' = [data EXCEPT ![tmp] = Absent] /\ UNCHANGED tmp
  /\ Opened(p)

-----------------------------------------------------------------------------
(* curl_easy_perform *)

Respond(p) ==
  /\ pc[p] = "perform" /\ body[p] = 0
  /\ body' = [body EXCEPT ![p] = server]
  /\ \E length \in BOOLEAN : known' = [known EXCEPT ![p] = length]
  /\ NoFault
  /\ UNCHANGED <<pc, rc, progress_enabled, progress, fd, got, put, files, display, server,
                 shared, fetches>>

\* stdio passes on what it holds, or keeps it.
file_write_callback(p) ==
  /\ pc[p] = "perform" /\ body[p] # 0 /\ got[p] < Sizes[body[p]]
  /\ got' = [got EXCEPT ![p] = @ + 1]
  /\ put' \in {put, [put EXCEPT ![p] = got'[p]]}
  /\ data' = Written(p, put'[p])
  /\ Callback(p, got'[p])
  /\ NoFault
  /\ UNCHANGED <<pc, rc, progress_enabled, fd, body, known, tmp, dest, server, shared, fetches>>

\* libcurl calls back from time to time while nothing arrives.
Waiting(p) ==
  /\ pc[p] = "perform" /\ body[p] # 0
  /\ Callback(p, got[p])
  /\ NoFault
  /\ UNCHANGED <<pc, rc, progress_enabled, fd, body, known, got, put, files, server, shared,
                 fetches>>

\* CURLE_OK with a 2xx status.  Without a Content-Length a connection that breaks
\* looks like the end of the body.
Complete(p) ==
  /\ pc[p] = "perform" /\ body[p] # 0
  /\ IF got[p] = Sizes[body[p]] THEN NoFault ELSE ~known[p] /\ Fault
  /\ Callback(p, got[p])
  /\ Goto(p, "flush")
  /\ UNCHANGED <<progress_enabled, fd, body, known, got, put, files, server, shared, fetches>>

\* curl_easy_init, the connection, the status, a write or the body fails.
curl_fails(p) == pc[p] = "perform" /\ Fault /\ Fails(p)

\* Mutant of time_limited: CURLOPT_LOW_SPEED_* are not set.
time_limited_total(p) == transfer_timeout[p] > 0

\* CURLOPT_TIMEOUT, or CURLOPT_LOW_SPEED_LIMIT with CURLOPT_LOW_SPEED_TIME.
time_limited(p) ==
  transfer_timeout[p] > 0 \/ (low_speed_limit[p] > 0 /\ low_speed_time[p] > 0)

curl_times_out(p) == pc[p] = "perform" /\ time_limited(p) /\ NoFault /\ Fails(p)

-----------------------------------------------------------------------------
\* Mutant of flush: a failing fflush or fclose goes unnoticed.
flush_unchecked(p) ==
  /\ pc[p] = "flush"
  /\ Goto(p, "rename")
  /\ \/ NoFault /\ put' = [put EXCEPT ![p] = got[p]] /\ data' = Written(p, got[p])
     \/ Fault /\ UNCHANGED <<put, data>>
  /\ UNCHANGED <<progress_enabled, progress, fd, body, known, got, tmp, dest, display,
                 server, shared, fetches>>

\* fflush and fclose.
flush(p) ==
  /\ pc[p] = "flush"
  /\ \/ /\ NoFault /\ Goto(p, "rename")
        /\ put' = [put EXCEPT ![p] = got[p]] /\ data' = Written(p, got[p])
        /\ UNCHANGED <<progress_enabled, progress, fd, body, known, got, tmp, dest, display,
                       server, shared, fetches>>
     \/ Fault /\ Fails(p)

\* Mutant of finish: the last line is drawn like any other.
finish_open(p, width) ==
  log' = [log EXCEPT ![p] = download_progress_render(@, progress[p], FALSE, width)]

finish(p, width) ==
  log' = [log EXCEPT ![p] = download_progress_render(@, progress[p], TRUE, width)]

\* Mutant of rename: its result is not looked at.
rename_unchecked(p) ==
  /\ pc[p] = "rename" /\ NoFault
  /\ IF tmp = 0 THEN UNCHANGED <<tmp, dest>> ELSE dest' = tmp /\ tmp' = 0
  /\ IF progress_enabled[p] /\ progress[p].transferred > 0
     THEN (\E width \in Widths : finish(p, width)) /\ Record(p, progress[p], TRUE)
     ELSE UNCHANGED display
  /\ Return(p, "ok")
  /\ UNCHANGED <<local, data, server, shared, fetches>>

\* Fails if another process has renamed or removed the temporary file.
rename(p) ==
  /\ pc[p] = "rename"
  /\ \/ /\ tmp # 0 /\ NoFault
        /\ dest' = tmp /\ tmp' = 0
        /\ IF progress_enabled[p] /\ progress[p].transferred > 0
           THEN (\E width \in Widths : finish(p, width)) /\ Record(p, progress[p], TRUE)
           ELSE UNCHANGED display
        /\ Return(p, "ok")
        /\ UNCHANGED <<local, data, server, shared, fetches>>
     \/ (IF tmp = 0 THEN NoFault ELSE Fault) /\ Fails(p)

-----------------------------------------------------------------------------
(* Outside fetch_file *)

\* Whatever the callers log between two downloads.
Say(p, level) ==
  /\ pc[p] = "idle"
  /\ log' = [log EXCEPT ![p] = log_vwrite(@, level)]
  /\ NoFault
  /\ UNCHANGED <<pc, rc, local, files, shown, lines, server, shared, fetches>>

\* What is in the buffer is lost, the temporary file stays, and the terminal is
\* the shell's again.
Kill(p) ==
  /\ pc[p] # "idle" /\ Fault
  /\ Return(p, "killed")
  /\ log' = [log EXCEPT ![p] = Fresh(@.tty)]
  /\ UNCHANGED <<local, files, shown, lines, server, shared, fetches>>

Upload ==
  /\ server < Len(Sizes) /\ server' = server + 1
  /\ NoFault
  /\ UNCHANGED <<pc, rc, local, files, display, shared, fetches>>

Step(p) == fopen(p) \/ flush(p) \/ rename(p)

Curl(p) == Respond(p) \/ file_write_callback(p) \/ Waiting(p) \/ Complete(p)
           \/ curl_fails(p) \/ curl_times_out(p)

Next ==
  \/ \E p \in Procs :
       \/ Step(p) \/ Curl(p) \/ Kill(p)
       \/ \E show_progress \in Shows[p] : fetch_file(p, show_progress)
       \/ \E level \in LOG_LEVEL_ERROR..LOG_LEVEL_DEBUG : Say(p, level)
  \/ Upload

Spec == Init /\ [][Next]_vars

\* Nothing is assumed of the server: it may stall for ever.  Time passes.
FairSpec == Spec /\ \A p \in Procs : WF_vars(Step(p)) /\ WF_vars(curl_times_out(p))
-----------------------------------------------------------------------------
(* Properties *)

Progress ==
  [total : Nat, transferred : Nat, first : BOOLEAN, last_percent : Int,
   percent_milestone : Int, byte_milestone : Nat]

TypeOK ==
  /\ pc \in [Procs -> {"idle", "open", "perform", "flush", "rename"}]
  /\ rc \in [Procs -> {"none", "killed", "error", "ok"}]
  /\ progress_enabled \in [Procs -> BOOLEAN] /\ progress \in [Procs -> Progress]
  /\ data \in Seq([Chunks -> Versions \cup {0}])
  /\ fd \in [Procs -> 0..Len(data)] /\ \A p \in Procs : Downloading(p) => fd[p] # 0
  /\ tmp \in 0..Len(data) /\ dest \in 0..Len(data) /\ \A p \in Procs : rc[p] = "ok" => dest # 0
  /\ server \in Versions /\ body \in [Procs -> Versions \cup {0}]
  /\ known \in [Procs -> BOOLEAN] /\ got \in [Procs -> 0..Len(Bytes)]
  /\ put \in [Procs -> 0..Len(Bytes)] /\ \A p \in Procs : put[p] <= got[p]
  /\ shown \in [Procs -> [bytes : Nat, final : BOOLEAN]] /\ lines \in [Procs -> Nat]
  /\ shared \subseteq Procs /\ fetches \in [Procs -> Nat] /\ faults \in 0..MaxFaults

\* "Logs are written to stderr in a simple `[LEVEL] message` format" and progress is
\* updated in place (README.md:62, 66-68): every completed line of stderr is one text
\* from its first column on, with nothing left of a progress line beside it
\* (log_vwrite, log_render_progress and log_progress_clear).
WholeLines == \A p \in Procs : log[p].whole

\* No progress line is left open when fetch_file has returned, in whatever way: on
\* success it is finished, on failure the error message clears it.
ProgressEnds == \A p \in Procs : pc[p] = "idle" => ~log[p].active

\* The milestone of the first n chunks of a version, whose length is known or not, and
\* what stands for none.
At(length, v, n) ==
  IF length THEN log_progress_percent_milestone(
                   download_progress_percent(Bytes[n], Bytes[Sizes[v]]))
  ELSE log_progress_byte_milestone(Bytes[n], ByteInterval)

NoMilestone(length) == IF length THEN {-1, 100} ELSE {0}

\* The milestones that n chunks pass, and those a process has passed in this call.
Passed(length, v, n) == {At(length, v, k) : k \in 1..n} \ NoMilestone(length)

Milestones(p) == Passed(known[p], body[p], got[p])

\* "conservative line-based [PROGRESS] milestones ... without becoming noisy"
\* (README.md:69-71): without a terminal, however often libcurl calls back, there
\* is at most one line per milestone passed, and the final one.
QuietLog ==
  \A p \in Procs : ~log[p].tty =>
    lines[p] <= Cardinality(Milestones(p)) + (IF shown[p].final THEN 1 ELSE 0)

\* A download that succeeded has a final line with everything that was received
\* ("expected final progress milestone", tests/scripts/progress_ctest.py:498); one that did not
\* has none.
LastLineShowsAll ==
  \A p \in Procs : pc[p] = "idle" =>
    IF rc[p] = "ok"
    THEN progress_enabled[p] /\ got[p] > 0
         => shown[p] = [bytes |-> Bytes[got[p]], final |-> TRUE]
    ELSE ~shown[p].final

Body(version) == [n \in Chunks |-> IF n <= Sizes[version] THEN version ELSE 0]

\* fetch_file returns 0 only for a file that holds the whole body of one version,
\* whatever earlier calls left behind and whatever the publisher did, if the
\* response told its length and no other process was downloading to that path.
FetchedIsWhole ==
  [][\A p \in Procs :
       pc[p] = "rename" /\ pc'[p] = "idle" /\ rc'[p] = "ok" /\ known[p] /\ p \notin shared
       => data'[dest'] = Body(body[p])]_vars

\* With a transfer or low-speed timeout, fetch_file returns although the server may
\* stall for ever (CURLOPT_TIMEOUT, CURLOPT_LOW_SPEED_TIME).
FetchReturns == \A p \in Procs : pc[p] # "idle" ~> pc[p] = "idle"
=============================================================================
