--------------------------- MODULE TransferProofs ---------------------------
(***************************************************************************)
(* For any terminal, any bodies and any number of processes: what stderr   *)
(* shows is whole lines (WholeLines), no progress line outlives its        *)
(* download (ProgressEnds), a file that fetch_file returns 0 for is the    *)
(* whole body of one version (FetchedIsWhole), and the state keeps its     *)
(* types (TypeOK).                                                         *)
(***************************************************************************)
EXTENDS Transfer, LogProofs

\* Chunks that the response to p has.
Total(p) == IF body[p] = 0 THEN 0 ELSE Sizes[body[p]]

CountsOK ==
  /\ pc \in [Procs -> {"idle", "open", "perform", "flush", "rename"}]
  /\ progress_enabled \in [Procs -> BOOLEAN] /\ progress \in [Procs -> Progress]
  /\ server \in Versions /\ body \in [Procs -> Versions \cup {0}]
  /\ got \in [Procs -> Nat] /\ \A p \in Procs : got[p] <= Total(p)

\* A progress line is open only during a download that has a final line to come.
ScreenOK(p) ==
  /\ LogOK(log[p]) /\ log[p].level = LOG_LEVEL_INFO
  /\ log[p].active =>
       Downloading(p) /\ progress_enabled[p] /\ progress[p].transferred > 0 /\ got[p] > 0

ScreenInv == CountsOK /\ log \in [Procs -> LogState] /\ \A p \in Procs : ScreenOK(p)

\* Sizes in bytes.
LEMMA Sized ==
  ASSUME NEW v \in Versions
  PROVE  /\ Sizes[v] \in Nat /\ Sizes[v] \in Chunks
         /\ \A n \in 1..Sizes[v] : n \in Chunks /\ Bytes[n] \in Nat /\ Bytes[n] > 0
<1>1. Sizes[v] \in Chunks /\ Chunks = 1..Len(Bytes) /\ Len(Bytes) \in Nat
  BY TransferInputs DEF Chunks, Versions
<1>2. \A n \in Chunks : Bytes[n] \in Nat \ {0}
  BY TransferInputs DEF Chunks
<1> QED
  BY <1>1, <1>2

\* What the callback stores and whether it prints.
LEMMA CallbackResult ==
  ASSUME NEW l \in LogState, NEW pr \in Progress, NEW elapsed_ms \in Nat
  PROVE  LET r == download_progress_callback(l, pr, elapsed_ms)
         IN  /\ r.progress \in Progress /\ r.progress.transferred = pr.transferred
             /\ r.emit => pr.transferred > 0 /\ log_progress_enabled(l)
<1> DEFINE percent == download_progress_percent(pr.transferred, pr.total)
           tenth == log_progress_percent_milestone(percent)
           bytes == log_progress_byte_milestone(pr.transferred, ByteInterval)
<1>1. pr.transferred \in Nat /\ pr.total \in Nat
  BY DEF Progress
<1>2. percent \in Int
  BY <1>1 DEF download_progress_percent
<1>3. tenth \in Int
  <2> HIDE DEF percent
  <2> QED
    BY <1>2 DEF log_progress_percent_milestone
<1>4. bytes \in Nat
  <2>1. ByteInterval \in Nat
    BY TransferInputs
  <2>2. \A a, b \in Nat : b # 0 => a \div b \in Nat
    OBVIOUS
  <2> QED
    BY <1>1, <2>1, <2>2 DEF log_progress_byte_milestone
<1> HIDE DEF percent, tenth, bytes
<1>5. [pr EXCEPT !.percent_milestone = tenth] \in Progress
      /\ [pr EXCEPT !.percent_milestone = tenth].transferred = pr.transferred
  BY <1>3 DEF Progress
<1>6. [pr EXCEPT !.byte_milestone = bytes] \in Progress
      /\ [pr EXCEPT !.byte_milestone = bytes].transferred = pr.transferred
  BY <1>4 DEF Progress
<1>7. [pr EXCEPT !.first = FALSE, !.last_percent = percent] \in Progress
      /\ [pr EXCEPT !.first = FALSE, !.last_percent = percent].transferred = pr.transferred
  BY <1>2, Zenon DEF Progress
<1>8. Milestone(pr).progress \in
        {pr, [pr EXCEPT !.percent_milestone = tenth], [pr EXCEPT !.byte_milestone = bytes]}
  BY DEF Milestone, tenth, percent, bytes
<1>9. Throttled(pr, elapsed_ms).progress \in
        {pr, [pr EXCEPT !.first = FALSE, !.last_percent = percent]}
  BY DEF Throttled, percent
<1>10. \/ /\ download_progress_callback(l, pr, elapsed_ms).progress = pr
           /\ ~download_progress_callback(l, pr, elapsed_ms).emit
       \/ /\ log_progress_enabled(l) /\ pr.transferred # 0
          /\ download_progress_callback(l, pr, elapsed_ms) \in
               {Throttled(pr, elapsed_ms), Milestone(pr)}
  BY DEF download_progress_callback
<1> DEFINE r == download_progress_callback(l, pr, elapsed_ms)
<1>11. r.progress \in {pr, Throttled(pr, elapsed_ms).progress, Milestone(pr).progress}
       /\ (r.emit => log_progress_enabled(l) /\ pr.transferred # 0)
  BY <1>10
<1> HIDE DEF r
<1>12. r.progress \in Progress /\ r.progress.transferred = pr.transferred
  BY <1>5, <1>6, <1>7, <1>8, <1>9, <1>11, Zenon
<1> QED
  BY <1>1, <1>11, <1>12 DEF r

\* libcurl's progress callback, with a line drawn or not.
LEMMA CallbackScreen ==
  ASSUME ScreenInv, NEW p \in Procs, NEW n \in Nat, body[p] # 0, n <= Sizes[body[p]],
         got[p] <= n, Downloading(p), Callback(p, n)
  PROVE  /\ progress' \in [Procs -> Progress] /\ log' \in [Procs -> LogState]
         /\ \A q \in Procs \ {p} : log'[q] = log[q] /\ progress'[q] = progress[q]
         /\ LogOK(log'[p]) /\ log'[p].level = LOG_LEVEL_INFO
         /\ log'[p].active => progress_enabled[p] /\ progress'[p].transferred > 0 /\ n > 0
<1>1. /\ LogOK(log[p]) /\ log[p].level = LOG_LEVEL_INFO /\ log[p] \in LogState
      /\ log[p].active =>
           progress_enabled[p] /\ progress[p].transferred > 0 /\ got[p] > 0
      /\ progress \in [Procs -> Progress] /\ log \in [Procs -> LogState]
      /\ body[p] \in Versions /\ got[p] \in Nat
  BY DEF ScreenInv, ScreenOK, CountsOK
<1>2. CASE ~progress_enabled[p]
  BY <1>1, <1>2 DEF Callback, display
<1>3. CASE progress_enabled[p]
  <2> DEFINE intervals == {0, 200, 500}
  <2>1. PICK elapsed_ms \in intervals, width \in Widths :
          LET r == download_progress_callback(log[p], Counts(p, n), elapsed_ms)
          IN  /\ progress' = [progress EXCEPT ![p] = r.progress]
              /\ IF r.emit
                 THEN /\ log' = [log EXCEPT ![p] =
                                   download_progress_render(@, r.progress, FALSE, width)]
                      /\ Record(p, r.progress, FALSE)
                 ELSE UNCHANGED display
    BY <1>3, Zenon DEF Callback
  <2> DEFINE pr == Counts(p, n)
             r == download_progress_callback(log[p], pr, elapsed_ms)
  <2>2. pr \in Progress /\ (n > 0 => pr.transferred > 0) /\ (n = 0 => pr.transferred = 0)
    <3>1. Bytes[Sizes[body[p]]] \in Nat /\ (n # 0 => Bytes[n] \in Nat /\ Bytes[n] > 0)
      <4>1. Sizes[body[p]] \in Chunks /\ Sizes[body[p]] \in Nat
        BY <1>1, Sized
      <4>2. Bytes[Sizes[body[p]]] \in Nat
        BY <4>1, TransferInputs, SMTT(30) DEF Chunks
      <4> QED
        BY <1>1, <4>1, <4>2, Sized
    <3>2. progress[p] \in Progress
      BY <1>1
    <3> QED
      BY <3>1, <3>2, ZenonT(60) DEF Counts, Progress
  <2>3. elapsed_ms \in Nat /\ width \in 1..Cols
    BY TransferInputs
  <2> HIDE DEF pr, intervals
  <2>4. /\ r.progress \in Progress /\ r.progress.transferred = pr.transferred
        /\ r.emit => pr.transferred > 0 /\ log_progress_enabled(log[p])
    BY <1>1, <2>2, <2>3, CallbackResult
  <2>5. progress' = [progress EXCEPT ![p] = r.progress]
    BY <2>1 DEF pr
  <2>6. CASE ~r.emit
    <3>1. UNCHANGED log
      BY <2>1, <2>6 DEF display, pr
    <3>2. log[p].active => n > 0
      BY <1>1
    <3> HIDE DEF r
    <3> QED
      BY <1>1, <1>3, <2>2, <2>4, <2>5, <3>1, <3>2
  <2>7. CASE r.emit
    <3>1. log' = [log EXCEPT ![p] = download_progress_render(log[p], r.progress, FALSE, width)]
      BY <2>1, <2>7, Zenon DEF pr
    <3> HIDE DEF r
    <3>2. r.progress.transferred \in Int /\ r.progress.transferred # 0 /\ n > 0
      BY <2>2, <2>4, <2>7 DEF Progress
    <3> DEFINE k == download_progress_render(log[p], r.progress, FALSE, width)
    <3>3. k = Update(log[p], r.progress.transferred, width)
      BY <2>4, <2>7, <3>2, Zenon DEF download_progress_render, Update, log_format_progress_line
    <3>4. LogOK(k) /\ Same(log[p], k)
      <4>1. LogOK(log[p]) /\ width \in 1..Cols /\ r.progress.transferred \in Int
        BY <1>1, <2>3, <3>2, Zenon
      <4> HIDE DEF k
      <4>2. /\ LogOK(Update(log[p], r.progress.transferred, width))
            /\ Same(log[p], Update(log[p], r.progress.transferred, width))
        BY <4>1, Rendered, Zenon
      <4> QED
        BY <3>3, <4>2, Zenon
    <3> HIDE DEF k
    <3>5. k \in LogState
      BY <3>4 DEF LogOK
    <3>6. log'[p] = k /\ log' \in [Procs -> LogState] /\ \A q \in Procs \ {p} : log'[q] = log[q]
      <4>1. log' = [log EXCEPT ![p] = k] /\ log \in [Procs -> LogState]
        BY <1>1, <3>1 DEF k
      <4> QED
        BY <3>5, <4>1
    <3>7. /\ progress'[p] = r.progress /\ progress' \in [Procs -> Progress]
          /\ \A q \in Procs \ {p} : progress'[q] = progress[q]
      BY <1>1, <2>4, <2>5
    <3>8. log'[p].level = LOG_LEVEL_INFO
      BY <1>1, <3>4, <3>6 DEF Same
    <3> QED
      BY <1>3, <2>4, <2>7, <3>2, <3>4, <3>6, <3>7, <3>8
  <2> QED
    BY <2>6, <2>7
<1> QED
  BY <1>2, <1>3 DEF ScreenInv, CountsOK

\* A step of p alone.
LEMMA OneScreen ==
  ASSUME ScreenInv, NEW p \in Procs, CountsOK', log' \in [Procs -> LogState], ScreenOK(p)',
         \A q \in Procs \ {p} :
           /\ pc'[q] = pc[q] /\ progress'[q] = progress[q] /\ got'[q] = got[q]
           /\ log'[q] = log[q] /\ (progress_enabled[q] => progress_enabled'[q])
  PROVE  ScreenInv'
<1>1. ASSUME NEW q \in Procs \ {p}
      PROVE  ScreenOK(q)'
  BY <1>1 DEF ScreenInv, ScreenOK, Downloading
<1> QED
  BY <1>1 DEF ScreenInv

\* A message leaves no progress line, if it is printed.
LEMMA MessageScreen ==
  ASSUME ScreenInv, NEW p \in Procs, NEW level \in Int,
         log' = [log EXCEPT ![p] = log_vwrite(@, level)]
  PROVE  /\ log' \in [Procs -> LogState] /\ \A q \in Procs \ {p} : log'[q] = log[q]
         /\ LogOK(log'[p]) /\ log'[p].level = LOG_LEVEL_INFO
         /\ log'[p].active => log[p].active
         /\ level \in LOG_LEVEL_ERROR..LOG_LEVEL_INFO => ~log'[p].active
<1> DEFINE l == log[p]
           k == log_vwrite(l, level)
<1>1. LogOK(l) /\ l.level = LOG_LEVEL_INFO /\ log \in [Procs -> LogState]
  BY DEF ScreenInv, ScreenOK
<1>2. log' = [log EXCEPT ![p] = k]
  OBVIOUS
<1>3. level \in LOG_LEVEL_ERROR..LOG_LEVEL_INFO => log_is_enabled(l, level)
  BY <1>1 DEF log_is_enabled, LOG_LEVEL_ERROR, LOG_LEVEL_INFO, LOG_LEVEL_NONE
<1> HIDE DEF l
<1>4. /\ LogOK(k) /\ Same(l, k) /\ (k.active => l.active)
      /\ (log_is_enabled(l, level) => ~k.active)
  BY <1>1, Vwrite
<1> HIDE DEF k
<1>5. k \in LogState /\ k.level = LOG_LEVEL_INFO
  BY <1>1, <1>4 DEF LogOK, Same
<1>6. log'[p] = k
  BY <1>1, <1>2
<1> QED
  BY <1>1, <1>2, <1>3, <1>4, <1>5, <1>6 DEF l

\* fetch_file returns with an error message.
LEMMA FailsScreen ==
  ASSUME ScreenInv, NEW p \in Procs, Fails(p)
  PROVE  ScreenInv'
<1>1. /\ log' \in [Procs -> LogState] /\ \A q \in Procs \ {p} : log'[q] = log[q]
      /\ LogOK(log'[p]) /\ log'[p].level = LOG_LEVEL_INFO /\ ~log'[p].active
  <2>1. /\ LOG_LEVEL_ERROR \in Int /\ LOG_LEVEL_ERROR \in LOG_LEVEL_ERROR..LOG_LEVEL_INFO
        /\ log' = [log EXCEPT ![p] = log_vwrite(@, LOG_LEVEL_ERROR)]
    BY DEF LOG_LEVEL_ERROR, LOG_LEVEL_INFO, Fails, LogError
  <2> QED
    BY <2>1, MessageScreen, Zenon
<1>2. UNCHANGED <<local, server>> /\ pc' = [pc EXCEPT ![p] = "idle"]
  BY DEF Fails, Return
<1>3. CountsOK'
  BY <1>2 DEF ScreenInv, CountsOK, Total, local
<1>4. ScreenOK(p)'
  BY <1>1 DEF ScreenOK
<1>5. \A q \in Procs \ {p} : pc'[q] = pc[q]
  BY <1>2 DEF ScreenInv, CountsOK
<1> QED
  BY <1>1, <1>2, <1>3, <1>4, <1>5, OneScreen DEF local

\* A step of p during its download, with libcurl's callback or without.
LEMMA MovesScreen ==
  ASSUME ScreenInv, NEW p \in Procs, NEW n \in Nat, body[p] # 0, n <= Sizes[body[p]],
         got[p] <= n, Downloading(p), Callback(p, n), Downloading(p)', got'[p] = n,
         pc' \in [Procs -> {"idle", "open", "perform", "flush", "rename"}],
         got' \in [Procs -> Nat], UNCHANGED <<progress_enabled, body, server>>,
         \A q \in Procs \ {p} : pc'[q] = pc[q] /\ got'[q] = got[q]
  PROVE  ScreenInv'
<1>1. /\ progress' \in [Procs -> Progress] /\ log' \in [Procs -> LogState]
      /\ \A q \in Procs \ {p} : log'[q] = log[q] /\ progress'[q] = progress[q]
      /\ LogOK(log'[p]) /\ log'[p].level = LOG_LEVEL_INFO
      /\ log'[p].active => progress_enabled[p] /\ progress'[p].transferred > 0 /\ n > 0
  BY CallbackScreen
<1>2. ScreenOK(p)'
  BY <1>1 DEF ScreenOK
<1>3. CountsOK'
  <2>1. \A q \in Procs : got'[q] <= Total(q)'
    BY DEF Total, ScreenInv, CountsOK
  <2> QED
    BY <1>1, <2>1 DEF ScreenInv, CountsOK
<1> QED
  BY <1>1, <1>2, <1>3, OneScreen

\* The final line.
LEMMA FinishScreen ==
  ASSUME ScreenInv, NEW p \in Procs, NEW width \in Widths, finish(p, width),
         progress[p].transferred > 0
  PROVE  /\ log' \in [Procs -> LogState] /\ \A q \in Procs \ {p} : log'[q] = log[q]
         /\ LogOK(log'[p]) /\ log'[p].level = LOG_LEVEL_INFO /\ ~log'[p].active
<1> DEFINE l == log[p]
           t == progress[p].transferred
           k == Finish(l, t, width)
<1>1. LogOK(l) /\ l.level = LOG_LEVEL_INFO /\ log \in [Procs -> LogState] /\ width \in 1..Cols
  BY TransferInputs DEF ScreenInv, ScreenOK
<1>2. t \in Nat /\ t # 0 /\ t \in Int
  BY DEF ScreenInv, CountsOK, Progress
<1>3. log_progress_enabled(l)
  BY <1>1 DEF log_progress_enabled, log_is_enabled, LOG_LEVEL_INFO, LOG_LEVEL_NONE
<1>4. log' = [log EXCEPT ![p] = k]
  BY <1>2, <1>3 DEF finish, download_progress_render, Finish, log_format_progress_line
<1> HIDE DEF l, t
<1>5. LogOK(k) /\ Same(l, k) /\ ~k.active
  BY <1>1, <1>2, <1>3, Rendered, Zenon
<1> HIDE DEF k
<1>6. k \in LogState /\ k.level = LOG_LEVEL_INFO
  BY <1>1, <1>5 DEF LogOK, Same
<1>7. log'[p] = k
  BY <1>1, <1>4
<1> QED
  BY <1>1, <1>4, <1>5, <1>6, <1>7

\* At first no process has printed anything.
LEMMA InitScreen == Init => ScreenInv
<1> SUFFICES ASSUME Init PROVE ScreenInv
  OBVIOUS
<1>1. CountsOK
  <2>1. download_progress_init \in Progress
    BY DEF download_progress_init, Progress
  <2>2. 1 \in Versions
    BY TransferInputs DEF Versions
  <2> QED
    BY <2>1, <2>2 DEF Init, CountsOK, Total
<1>2. PICK tty \in [Procs -> BOOLEAN] : log = [p \in Procs |-> Fresh(tty[p])]
  BY DEF Init
<1>3. \A p \in Procs : LogOK(log[p]) /\ log[p].level = LOG_LEVEL_INFO /\ ~log[p].active
  BY <1>2, FreshScreen
<1>4. log \in [Procs -> LogState]
  BY <1>2, <1>3 DEF LogOK
<1> QED
  BY <1>1, <1>3, <1>4 DEF ScreenInv, ScreenOK

\* Every step keeps every terminal in order.
LEMMA NextScreen == ScreenInv /\ [Next]_vars => ScreenInv'
<1> SUFFICES ASSUME ScreenInv, [Next]_vars PROVE ScreenInv'
  OBVIOUS
<1>1. ASSUME NEW p \in Procs, fopen(p)
      PROVE  ScreenInv'
  <2>1. /\ pc' = [pc EXCEPT ![p] = "perform"] /\ pc[p] = "open"
        /\ progress' = [progress EXCEPT ![p] = download_progress_init]
        /\ body' = [body EXCEPT ![p] = 0] /\ got' = [got EXCEPT ![p] = 0]
        /\ UNCHANGED <<progress_enabled, log, server>>
    BY <1>1 DEF fopen, Opened, Goto, display
  <2>2. download_progress_init \in Progress
    BY DEF download_progress_init, Progress
  <2>3. CountsOK'
    BY <2>1, <2>2 DEF ScreenInv, CountsOK, Total
  <2>4. ScreenOK(p)'
    BY <2>1 DEF ScreenInv, ScreenOK, Downloading
  <2>5. /\ log' \in [Procs -> LogState]
        /\ \A q \in Procs \ {p} :
             pc'[q] = pc[q] /\ progress'[q] = progress[q] /\ got'[q] = got[q]
    BY <2>1 DEF ScreenInv, CountsOK
  <2> QED
    BY <2>1, <2>3, <2>4, <2>5, OneScreen
<1>2. ASSUME NEW p \in Procs, flush(p)
      PROVE  ScreenInv'
  <2>1. CASE Fails(p)
    BY <2>1, FailsScreen
  <2>2. CASE ~Fails(p)
    <3>1. /\ pc' = [pc EXCEPT ![p] = "rename"] /\ pc[p] = "flush"
          /\ UNCHANGED <<progress_enabled, progress, body, got, log, server>>
      BY <1>2, <2>2 DEF flush, Goto, display
    <3>2. CountsOK'
      BY <3>1 DEF ScreenInv, CountsOK, Total
    <3>3. ScreenOK(p)'
      BY <3>1 DEF ScreenInv, ScreenOK, Downloading, CountsOK
    <3>4. log' \in [Procs -> LogState] /\ \A q \in Procs \ {p} : pc'[q] = pc[q]
      BY <3>1 DEF ScreenInv, CountsOK
    <3> QED
      BY <3>1, <3>2, <3>3, <3>4, OneScreen
  <2> QED
    BY <2>1, <2>2
<1>3. ASSUME NEW p \in Procs, rename(p)
      PROVE  ScreenInv'
  <2>1. CASE Fails(p)
    BY <2>1, FailsScreen
  <2>2. CASE ~Fails(p)
    <3>1. /\ pc' = [pc EXCEPT ![p] = "idle"]
          /\ IF progress_enabled[p] /\ progress[p].transferred > 0
             THEN \E width \in Widths : finish(p, width)
             ELSE UNCHANGED log
          /\ UNCHANGED <<progress_enabled, progress, body, got, server>>
      BY <1>3, <2>2, Zenon DEF rename, Return, local, display
    <3>2. CountsOK'
      BY <3>1 DEF ScreenInv, CountsOK, Total
    <3>3. /\ log' \in [Procs -> LogState] /\ \A q \in Procs \ {p} : log'[q] = log[q]
          /\ LogOK(log'[p]) /\ log'[p].level = LOG_LEVEL_INFO /\ ~log'[p].active
      <4>1. CASE progress_enabled[p] /\ progress[p].transferred > 0
        BY <3>1, <4>1, FinishScreen
      <4>2. CASE ~(progress_enabled[p] /\ progress[p].transferred > 0)
        BY <3>1, <4>2 DEF ScreenInv, ScreenOK
      <4> QED
        BY <4>1, <4>2
    <3>4. ScreenOK(p)'
      BY <3>3 DEF ScreenOK
    <3>5. \A q \in Procs \ {p} : pc'[q] = pc[q]
      BY <3>1 DEF ScreenInv, CountsOK
    <3> QED
      BY <3>1, <3>2, <3>3, <3>4, <3>5, OneScreen
  <2> QED
    BY <2>1, <2>2
<1>4. ASSUME NEW p \in Procs, Respond(p)
      PROVE  ScreenInv'
  <2>1. /\ body[p] = 0 /\ body' = [body EXCEPT ![p] = server]
        /\ UNCHANGED <<pc, progress_enabled, progress, got, log, server>>
    BY <1>4 DEF Respond, display
  <2>2. CountsOK'
    <3>1. got[p] = 0 /\ Total(p)' \in Nat
      BY <2>1, Sized DEF ScreenInv, CountsOK, Total
    <3>2. \A q \in Procs : got'[q] <= Total(q)'
      BY <2>1, <3>1 DEF ScreenInv, CountsOK, Total
    <3> QED
      BY <2>1, <3>2 DEF ScreenInv, CountsOK
  <2> QED
    BY <2>1, <2>2 DEF ScreenInv, ScreenOK, Downloading
<1>5. ASSUME NEW p \in Procs, file_write_callback(p)
      PROVE  ScreenInv'
  <2>1. got[p] \in Nat /\ Sizes[body[p]] \in Nat /\ got \in [Procs -> Nat]
    BY <1>5, Sized DEF file_write_callback, ScreenInv, CountsOK
  <2>2. /\ pc[p] = "perform" /\ body[p] # 0 /\ got[p] < Sizes[body[p]]
        /\ got' = [got EXCEPT ![p] = got[p] + 1] /\ Callback(p, got'[p])
        /\ UNCHANGED <<pc, progress_enabled, body, server>>
    BY <1>5, Zenon DEF file_write_callback
  <2>3. PICK n \in Nat : n = got[p] + 1
    BY <2>1
  <2>4. got'[p] = n /\ got' \in [Procs -> Nat] /\ \A q \in Procs \ {p} : got'[q] = got[q]
    BY <2>1, <2>2, <2>3
  <2>5. Downloading(p) /\ Downloading(p)'
    BY <2>2 DEF Downloading
  <2>6. Callback(p, n) /\ n <= Sizes[body[p]] /\ got[p] <= n
    BY <2>1, <2>2, <2>3, <2>4
  <2>7. pc' \in [Procs -> {"idle", "open", "perform", "flush", "rename"}]
    BY <2>2 DEF ScreenInv, CountsOK
  <2> QED
    BY <2>2, <2>4, <2>5, <2>6, <2>7, MovesScreen
<1>6. ASSUME NEW p \in Procs, Waiting(p) \/ Complete(p)
      PROVE  ScreenInv'
  <2>1. got[p] \in Nat /\ got[p] <= Sizes[body[p]] /\ body[p] # 0 /\ got[p] <= got[p]
    BY <1>6 DEF Waiting, Complete, ScreenInv, CountsOK, Total
  <2>2. /\ pc[p] = "perform" /\ Callback(p, got[p])
        /\ pc' \in {pc, [pc EXCEPT ![p] = "flush"]}
        /\ UNCHANGED <<progress_enabled, body, got, server>>
    BY <1>6, Zenon DEF Waiting, Complete, Goto
  <2>3. Downloading(p) /\ Downloading(p)'
    BY <2>2 DEF Downloading, ScreenInv, CountsOK
  <2>4. /\ pc' \in [Procs -> {"idle", "open", "perform", "flush", "rename"}]
        /\ \A q \in Procs \ {p} : pc'[q] = pc[q]
    BY <2>2 DEF ScreenInv, CountsOK
  <2>5. got' \in [Procs -> Nat] /\ got' = got
    BY <2>2 DEF ScreenInv, CountsOK
  <2> QED
    BY <2>1, <2>2, <2>3, <2>4, <2>5, MovesScreen
<1>7. ASSUME NEW p \in Procs, curl_fails(p) \/ curl_times_out(p)
      PROVE  ScreenInv'
  BY <1>7, FailsScreen DEF curl_fails, curl_times_out
<1>8. ASSUME NEW p \in Procs, NEW show_progress \in Shows[p], fetch_file(p, show_progress)
      PROVE  ScreenInv'
  <2>1. /\ pc[p] = "idle" /\ pc' \in {[pc EXCEPT ![p] = "open"], [pc EXCEPT ![p] = "idle"]}
        /\ UNCHANGED log \/ LogError(p)
        /\ UNCHANGED <<progress, body, got, server>>
    BY <1>8, Zenon DEF fetch_file, Goto, Return
  <2>2. /\ progress_enabled' \in [Procs -> BOOLEAN]
        /\ \A q \in Procs \ {p} : progress_enabled'[q] = progress_enabled[q]
    <3> DEFINE b == show_progress /\ log_progress_enabled(log[p])
    <3>1. progress_enabled' = [progress_enabled EXCEPT ![p] = b] /\ b \in BOOLEAN
      BY <1>8, Zenon DEF fetch_file
    <3> HIDE DEF b
    <3> QED
      BY <3>1 DEF ScreenInv, CountsOK
  <2>3. CountsOK'
    BY <2>1, <2>2, Zenon DEF ScreenInv, CountsOK, Total
  <2>4. ~log[p].active
    BY <2>1, SMTT(30) DEF ScreenInv, ScreenOK, Downloading
  <2>5. /\ log' \in [Procs -> LogState] /\ \A q \in Procs \ {p} : log'[q] = log[q]
        /\ LogOK(log'[p]) /\ log'[p].level = LOG_LEVEL_INFO /\ ~log'[p].active
    <3>1. CASE UNCHANGED log
      BY <2>4, <3>1 DEF ScreenInv, ScreenOK
    <3>2. CASE LogError(p)
      <4>1. LOG_LEVEL_ERROR \in Int /\ log' = [log EXCEPT ![p] = log_vwrite(@, LOG_LEVEL_ERROR)]
        BY <3>2 DEF LOG_LEVEL_ERROR, LogError
      <4> QED
        BY <2>4, <4>1, MessageScreen, Zenon
    <3> QED
      BY <2>1, <3>1, <3>2
  <2>6. ScreenOK(p)'
    BY <2>5 DEF ScreenOK
  <2>7. \A q \in Procs \ {p} : pc'[q] = pc[q]
    BY <2>1 DEF ScreenInv, CountsOK
  <2> QED
    BY <2>1, <2>2, <2>3, <2>5, <2>6, <2>7, OneScreen
<1>9. ASSUME NEW p \in Procs, NEW level \in LOG_LEVEL_ERROR..LOG_LEVEL_DEBUG, Say(p, level)
      PROVE  ScreenInv'
  <2>1. /\ pc[p] = "idle" /\ level \in Int /\ log' = [log EXCEPT ![p] = log_vwrite(@, level)]
        /\ UNCHANGED <<pc, progress_enabled, progress, body, got, server>>
    BY <1>9 DEF Say, local, LOG_LEVEL_ERROR, LOG_LEVEL_DEBUG
  <2>2. CountsOK'
    BY <2>1, Zenon DEF ScreenInv, CountsOK, Total
  <2>3. ~log[p].active
    BY <2>1, SMTT(30) DEF ScreenInv, ScreenOK, Downloading
  <2>4. /\ log' \in [Procs -> LogState] /\ \A q \in Procs \ {p} : log'[q] = log[q]
        /\ LogOK(log'[p]) /\ log'[p].level = LOG_LEVEL_INFO /\ ~log'[p].active
    BY <2>1, <2>3, MessageScreen, Zenon
  <2>5. ScreenOK(p)'
    BY <2>4 DEF ScreenOK
  <2> QED
    BY <2>1, <2>2, <2>4, <2>5, OneScreen
<1>10. ASSUME NEW p \in Procs, Kill(p)
       PROVE  ScreenInv'
  <2>1. /\ pc' = [pc EXCEPT ![p] = "idle"] /\ log' = [log EXCEPT ![p] = Fresh(log[p].tty)]
        /\ UNCHANGED <<progress_enabled, progress, body, got, server>>
    BY <1>10 DEF Kill, Return, local
  <2>2. log[p].tty \in BOOLEAN
    BY DEF ScreenInv, LogState
  <2>3. CountsOK'
    BY <2>1 DEF ScreenInv, CountsOK, Total
  <2> DEFINE k == Fresh(log[p].tty)
  <2>4. LogOK(k) /\ k.level = LOG_LEVEL_INFO /\ ~k.active
    BY <2>2, FreshScreen
  <2>5. log' = [log EXCEPT ![p] = k]
    BY <2>1
  <2> HIDE DEF k
  <2>6. /\ log' \in [Procs -> LogState] /\ log'[p] = k
        /\ \A q \in Procs \ {p} : log'[q] = log[q] /\ pc'[q] = pc[q]
    BY <2>1, <2>4, <2>5 DEF ScreenInv, CountsOK, LogOK
  <2>7. ScreenOK(p)'
    BY <2>4, <2>6 DEF ScreenOK
  <2> QED
    BY <2>1, <2>3, <2>6, <2>7, OneScreen
<1>11. CASE Upload
  <2>1. server' \in Versions /\ UNCHANGED <<pc, progress_enabled, progress, body, got, log>>
    <3>1. server \in 1..Len(Sizes) /\ Versions = 1..Len(Sizes) /\ Len(Sizes) \in Nat
      BY TransferInputs DEF ScreenInv, CountsOK, Versions
    <3> QED
      BY <1>11, <3>1 DEF Upload, local, display
  <2> QED
    BY <2>1 DEF ScreenInv, CountsOK, ScreenOK, Total, Downloading
<1>12. CASE UNCHANGED vars
  BY <1>12 DEF vars, local, display, ScreenInv, CountsOK, ScreenOK, Total, Downloading
<1> QED
  BY <1>1, <1>2, <1>3, <1>4, <1>5, <1>6, <1>7, <1>8, <1>9, <1>10, <1>11, <1>12
  DEF Next, Step, Curl

\* The inductive invariant.
LEMMA Screens == Spec => []ScreenInv
  BY InitScreen, NextScreen, PTL DEF Spec

\* Every line that stderr shows is one text, for any terminal width, whatever the
\* callbacks, the messages and the failures.
THEOREM LinesAreWhole == Spec => []WholeLines
<1>1. ScreenInv => WholeLines
  BY Zenon DEF ScreenInv, ScreenOK, LogOK, WholeLines
<1> QED
  BY <1>1, Screens, PTL

\* No progress line outlives its download.
THEOREM LinesAreClosed == Spec => []ProgressEnds
<1>1. ScreenInv => ProgressEnds
  BY Zenon DEF ScreenInv, ScreenOK, Downloading, ProgressEnds
<1> QED
  BY <1>1, Screens, PTL
-----------------------------------------------------------------------------
(* What the calls return and show *)

HistoryTypes ==
  /\ shown \in [Procs -> [bytes : Nat, final : BOOLEAN]] /\ lines \in [Procs -> Nat]
  /\ known \in [Procs -> BOOLEAN] /\ rc \in [Procs -> {"none", "killed", "error", "ok"}]

\* Initially no call was made.
LEMMA InitTypes == Init => HistoryTypes
<1>1. NoLine \in [bytes : Nat, final : BOOLEAN]
  BY DEF NoLine
<1> QED
  BY <1>1 DEF Init, HistoryTypes

\* A line shows what progress says, for a step that leaves progress in order.
LEMMA RecordTypes ==
  ASSUME HistoryTypes, NEW p \in Procs, NEW pr \in Progress, NEW final_line \in BOOLEAN,
         Record(p, pr, final_line)
  PROVE  shown' \in [Procs -> [bytes : Nat, final : BOOLEAN]] /\ lines' \in [Procs -> Nat]
<1>1. pr.transferred \in Nat
  BY DEF Progress
<1>2. /\ shown \in [Procs -> [bytes : Nat, final : BOOLEAN]] /\ lines \in [Procs -> Nat]
  BY DEF HistoryTypes
<1> DEFINE line == [bytes |-> pr.transferred, final |-> final_line]
           more == IF log[p].tty THEN 0 ELSE lines[p] + 1
<1>3. shown' = [shown EXCEPT ![p] = line] /\ lines' = [lines EXCEPT ![p] = more]
  BY DEF Record
<1>4. line \in [bytes : Nat, final : BOOLEAN] /\ more \in Nat
  BY <1>1, <1>2
<1> HIDE DEF line, more
<1> QED
  BY <1>2, <1>3, <1>4

\* Every step keeps them.
LEMMA NextTypes == ScreenInv /\ HistoryTypes /\ [Next]_vars => HistoryTypes'
<1> SUFFICES ASSUME ScreenInv, HistoryTypes, [Next]_vars PROVE HistoryTypes'
  OBVIOUS
<1>1. /\ shown \in [Procs -> [bytes : Nat, final : BOOLEAN]] /\ lines \in [Procs -> Nat]
      /\ known \in [Procs -> BOOLEAN] /\ rc \in [Procs -> {"none", "killed", "error", "ok"}]
  BY DEF HistoryTypes
<1>2. progress \in [Procs -> Progress] /\ progress' \in [Procs -> Progress]
  <2>1. ScreenInv'
    BY NextScreen
  <2> QED
    BY <2>1 DEF ScreenInv, CountsOK
<1>3. rc' \in [Procs -> {"none", "killed", "error", "ok"}]
  <2>1. \/ rc' = rc
        \/ \E p \in Procs : Return(p, "killed") \/ Return(p, "error") \/ Return(p, "ok")
    BY Zenon DEF Next, Step, Curl, fopen, Opened, Goto, flush, rename, Fails, Respond,
         file_write_callback, Waiting, Complete, curl_fails, curl_times_out, Kill,
         fetch_file, Say, Upload, vars
  <2> QED
    BY <1>1, <2>1 DEF Return
<1>4. known' \in [Procs -> BOOLEAN]
  <2>1. \/ known' = known
        \/ \E p \in Procs, length \in BOOLEAN : known' = [known EXCEPT ![p] = length]
    BY Zenon DEF Next, Step, Curl, fopen, Opened, flush, rename, Fails, Respond,
         file_write_callback, Waiting, Complete, curl_fails, curl_times_out, Kill,
         fetch_file, Say, Upload, vars, local
  <2> QED
    BY <1>1, <2>1
<1>5. ASSUME NEW p \in Procs, NEW n, Callback(p, n)
      PROVE  UNCHANGED <<shown, lines>> \/ Record(p, progress'[p], FALSE)
  <2>1. CASE ~progress_enabled[p]
    BY <1>5, <2>1 DEF Callback, display
  <2>2. CASE progress_enabled[p]
    <3>1. PICK elapsed_ms \in {0, 200, 500}, width \in Widths :
            LET r == download_progress_callback(log[p], Counts(p, n), elapsed_ms)
            IN  /\ progress' = [progress EXCEPT ![p] = r.progress]
                /\ IF r.emit
                   THEN /\ log' = [log EXCEPT ![p] =
                                     download_progress_render(@, r.progress, FALSE, width)]
                        /\ Record(p, r.progress, FALSE)
                   ELSE UNCHANGED display
      BY <1>5, <2>2, Zenon DEF Callback
    <3> DEFINE r == download_progress_callback(log[p], Counts(p, n), elapsed_ms)
    <3>2. /\ progress' = [progress EXCEPT ![p] = r.progress]
          /\ Record(p, r.progress, FALSE) \/ UNCHANGED display
      BY <3>1, Zenon
    <3> HIDE DEF r
    <3>3. progress'[p] = r.progress
      BY <1>2, <3>2
    <3> QED
      BY <3>2, <3>3, Zenon DEF display
  <2> QED
    BY <2>1, <2>2, Zenon
<1>6. \/ UNCHANGED <<shown, lines>>
      \/ \E p \in Procs : \/ Record(p, progress'[p], FALSE) \/ Record(p, progress[p], TRUE)
                         \/ /\ shown' = [shown EXCEPT ![p] = NoLine]
                            /\ lines' = [lines EXCEPT ![p] = 0]
  <2>1. \/ UNCHANGED <<shown, lines>>
        \/ \E p \in Procs : \/ (\E n : Callback(p, n)) \/ Record(p, progress[p], TRUE)
                           \/ /\ shown' = [shown EXCEPT ![p] = NoLine]
                              /\ lines' = [lines EXCEPT ![p] = 0]
    BY ZenonT(60) DEF Next, Step, Curl, fopen, Opened, flush, rename, Fails, Respond,
         file_write_callback, Waiting, Complete, curl_fails, curl_times_out, Kill,
         fetch_file, Say, Upload, vars, display
  <2> QED
    BY <1>5, <2>1, Zenon
<1>7. shown' \in [Procs -> [bytes : Nat, final : BOOLEAN]] /\ lines' \in [Procs -> Nat]
  <2>1. CASE UNCHANGED <<shown, lines>>
    BY <1>1, <2>1
  <2>2. ASSUME NEW p \in Procs, Record(p, progress'[p], FALSE) \/ Record(p, progress[p], TRUE)
        PROVE  shown' \in [Procs -> [bytes : Nat, final : BOOLEAN]] /\ lines' \in [Procs -> Nat]
    <3>1. progress[p] \in Progress /\ progress'[p] \in Progress
      BY <1>2
    <3> QED
      BY <2>2, <3>1, RecordTypes, Zenon
  <2>3. ASSUME NEW p \in Procs, shown' = [shown EXCEPT ![p] = NoLine],
               lines' = [lines EXCEPT ![p] = 0]
        PROVE  shown' \in [Procs -> [bytes : Nat, final : BOOLEAN]] /\ lines' \in [Procs -> Nat]
    BY <1>1, <2>3 DEF NoLine
  <2> QED
    BY <1>6, <2>1, <2>2, <2>3, Zenon
<1> QED
  BY <1>3, <1>4, <1>7 DEF HistoryTypes

\* They hold in every reachable state.
LEMMA HistoryTypesHold == Spec => []HistoryTypes
BY Screens, InitTypes, NextTypes, PTL DEF Spec

\* stderr stays what it is.
LEMMA TtyKept ==
  ASSUME ScreenInv, [Next]_vars, NEW q \in Procs
  PROVE  log'[q].tty = log[q].tty
<1>1. log \in [Procs -> LogState] /\ \A p \in Procs : "tty" \in DOMAIN log[p]
  BY DEF ScreenInv, LogState
<1>2. ASSUME NEW p \in Procs, NEW k, log' = [log EXCEPT ![p] = k], Keeps("tty", log[p], k)
      PROVE  log'[q].tty = log[q].tty
  BY <1>1, <1>2 DEF Keeps
<1>3. \A p, level : Keeps("tty", log[p], log_vwrite(log[p], level))
  BY MessagesKeep
<1>4. ASSUME NEW p, NEW pr, NEW final_line, NEW width
      PROVE  Keeps("tty", log[p], download_progress_render(log[p], pr, final_line, width))
  BY ProgressKeeps DEF download_progress_render, Keeps
<1>5. \A p : Keeps("tty", log[p], Fresh(log[p].tty))
  BY DEF Keeps, Fresh
<1>6. ASSUME NEW p \in Procs, LogError(p)
      PROVE  log'[q].tty = log[q].tty
  BY <1>2, <1>3, <1>6, Zenon DEF LogError
<1>7. ASSUME NEW p \in Procs, NEW n, Callback(p, n)
      PROVE  log'[q].tty = log[q].tty
  <2>1. CASE ~progress_enabled[p]
    BY <1>7, <2>1, Zenon DEF Callback, display
  <2>2. CASE progress_enabled[p]
    <3>1. PICK elapsed_ms \in {0, 200, 500}, width \in Widths :
            LET r == download_progress_callback(log[p], Counts(p, n), elapsed_ms)
            IN  /\ progress' = [progress EXCEPT ![p] = r.progress]
                /\ IF r.emit
                   THEN /\ log' = [log EXCEPT ![p] =
                                     download_progress_render(@, r.progress, FALSE, width)]
                        /\ Record(p, r.progress, FALSE)
                   ELSE UNCHANGED display
      BY <1>7, <2>2, Zenon DEF Callback
    <3> DEFINE r == download_progress_callback(log[p], Counts(p, n), elapsed_ms)
               k == download_progress_render(log[p], r.progress, FALSE, width)
    <3>2. CASE r.emit
      <4>1. log' = [log EXCEPT ![p] = k]
        BY <3>1, <3>2, Zenon
      <4> HIDE DEF r
      <4>2. Keeps("tty", log[p], k)
        <5>1. \A f : Keeps("tty", log[p], download_progress_render(log[p], r.progress, f, width))
          BY <1>4
        <5> QED
          BY <5>1, Zenon
      <4> QED
        BY <1>2, <4>1, <4>2, Zenon
    <3>3. CASE ~r.emit
      BY <3>1, <3>3 DEF display
    <3> QED
      BY <3>2, <3>3
  <2> QED
    BY <2>1, <2>2
<1>8. ASSUME NEW p \in Procs, NEW width, finish(p, width)
      PROVE  log'[q].tty = log[q].tty
  BY <1>2, <1>4, <1>8, Zenon DEF finish
<1>9. ASSUME NEW p \in Procs, Step(p) \/ Curl(p)
      PROVE  log'[q].tty = log[q].tty
  <2>1. \/ log' = log \/ LogError(p) \/ (\E n : Callback(p, n)) \/ \E width : finish(p, width)
    BY <1>9, Zenon DEF Step, Curl, fopen, Opened, flush, rename, Fails, Respond,
         file_write_callback, Waiting, Complete, curl_fails, curl_times_out, display
  <2> QED
    BY <1>6, <1>7, <1>8, <2>1
<1>10. ASSUME NEW p \in Procs, Kill(p)
       PROVE  log'[q].tty = log[q].tty
  BY <1>2, <1>5, <1>10, Zenon DEF Kill
<1>11. ASSUME NEW p \in Procs, NEW show_progress, fetch_file(p, show_progress)
       PROVE  log'[q].tty = log[q].tty
  BY <1>6, <1>11, Zenon DEF fetch_file
<1>12. ASSUME NEW p \in Procs, NEW level, Say(p, level)
       PROVE  log'[q].tty = log[q].tty
  BY <1>2, <1>3, <1>12, Zenon DEF Say
<1>13. CASE Upload \/ UNCHANGED vars
  BY <1>13, Zenon DEF Upload, vars, display
<1> QED
  BY <1>9, <1>10, <1>11, <1>12, <1>13, Zenon DEF Next

-----------------------------------------------------------------------------
(* Files *)

Blocks == [Chunks -> Versions \cup {0}]

\* The first n chunks of a version.
Prefix(version, n) == [c \in Chunks |-> IF c <= n THEN version ELSE 0]

\* Two downloads at a time know of each other only in the history variable.
Alone == \A p, q \in Procs : p # q /\ Downloading(p) /\ Downloading(q) => p \in shared

\* The inode of a process that was alone holds what it has written, and nothing
\* else bears the temporary name.
FileOK(p) ==
  Downloading(p) =>
    /\ fd[p] \in 1..Len(data) /\ put[p] <= got[p]
    /\ pc[p] \in {"flush", "rename"} => body[p] # 0 /\ (known[p] => got[p] = Sizes[body[p]])
    /\ pc[p] = "rename" => put[p] = got[p]
    /\ p \notin shared => tmp \in {0, fd[p]} /\ data[fd[p]] = Prefix(body[p], put[p])

FileInv ==
  /\ data \in Seq(Blocks) /\ tmp \in 0..Len(data)
  /\ fd \in [Procs -> Nat] /\ put \in [Procs -> Nat] /\ known \in [Procs -> BOOLEAN]
  /\ Alone /\ \A p \in Procs : FileOK(p)

\* A sequence with one element replaced.
LEMMA Replaced ==
  ASSUME NEW S, NEW s \in Seq(S), NEW i \in 1..Len(s), NEW e \in S
  PROVE  /\ [s EXCEPT ![i] = e] \in Seq(S) /\ Len([s EXCEPT ![i] = e]) = Len(s)
         /\ [s EXCEPT ![i] = e][i] = e
OBVIOUS

\* A sequence with one element added.
LEMMA Added ==
  ASSUME NEW S, NEW s \in Seq(S), NEW e \in S
  PROVE  /\ Append(s, e) \in Seq(S) /\ Len(Append(s, e)) = Len(s) + 1
         /\ Append(s, e)[Len(s) + 1] = e
OBVIOUS

\* Writing chunks of p, in order, after those it has written.
LEMMA WrittenData ==
  ASSUME ScreenInv, FileInv, NEW p \in Procs, Downloading(p), NEW n \in Nat
  PROVE  /\ Written(p, n) \in Seq(Blocks) /\ Len(Written(p, n)) = Len(data)
         /\ p \notin shared /\ put[p] <= n => Written(p, n)[fd[p]] = Prefix(body[p], n)
<1>1. /\ data \in Seq(Blocks) /\ fd[p] \in 1..Len(data) /\ put[p] \in Nat
      /\ body[p] \in Versions \cup {0}
      /\ p \notin shared => data[fd[p]] = Prefix(body[p], put[p])
  BY DEF FileInv, FileOK, ScreenInv, CountsOK
<1> DEFINE block == [c \in Chunks |->
                       IF c \in (put[p] + 1)..n THEN body[p] ELSE data[fd[p]][c]]
<1>2. Written(p, n) = [data EXCEPT ![fd[p]] = block]
  BY DEF Written
<1>3. data[fd[p]] \in Blocks
  BY <1>1
<1>4. block \in Blocks
  BY <1>1, <1>3 DEF Blocks
<1>5. p \notin shared /\ put[p] <= n => block = Prefix(body[p], n)
  <2> SUFFICES ASSUME p \notin shared, put[p] <= n
               PROVE  block = Prefix(body[p], n)
    OBVIOUS
  <2>1. \A c \in Chunks : c \in Nat
    BY TransferInputs DEF Chunks
  <2>2. \A c \in Chunks : data[fd[p]][c] = IF c <= put[p] THEN body[p] ELSE 0
    BY <1>1 DEF Prefix
  <2>3. \A c \in Chunks : block[c] = IF c <= n THEN body[p] ELSE 0
    BY <1>1, <2>1, <2>2
  <2> QED
    BY <2>3 DEF Prefix
<1> HIDE DEF block
<1>6. /\ [data EXCEPT ![fd[p]] = block] \in Seq(Blocks)
      /\ Len([data EXCEPT ![fd[p]] = block]) = Len(data)
      /\ [data EXCEPT ![fd[p]] = block][fd[p]] = block
  BY <1>1, <1>4, Replaced, SMTT(30)
<1> QED
  BY <1>2, <1>5, <1>6

\* What p does in its download is nothing to others: they share or do not download.
LEMMA OtherFiles ==
  ASSUME FileInv, NEW p \in Procs, NEW q \in Procs \ {p}, Downloading(p), Len(data') = Len(data),
         shared' = shared, pc'[q] = pc[q], fd'[q] = fd[q], body'[q] = body[q],
         got'[q] = got[q], put'[q] = put[q], known' [q] = known[q]
  PROVE  FileOK(q)'
<1> SUFFICES ASSUME Downloading(q)'
             PROVE  FileOK(q)'
  BY DEF FileOK
<1>1. Downloading(q)
  BY DEF Downloading
<1>2. FileOK(q) /\ q \in shared
  BY <1>1 DEF FileInv, Alone
<1> QED
  BY <1>1, <1>2, Zenon DEF FileOK

\* p leaves fetch_file.
LEMMA EndsFiles ==
  ASSUME ScreenInv, FileInv, NEW p \in Procs, Downloading(p), data' \in Seq(Blocks),
         Len(data') = Len(data), tmp' \in 0..Len(data), pc' = [pc EXCEPT ![p] = "idle"],
         UNCHANGED <<local, shared>>
  PROVE  FileInv'
<1>1. ~Downloading(p)' /\ \A q \in Procs \ {p} : pc'[q] = pc[q]
  BY DEF Downloading, ScreenInv, CountsOK
<1>2. Alone'
  BY <1>1 DEF FileInv, Alone, Downloading
<1>3. FileOK(p)'
  BY <1>1, Zenon DEF FileOK
<1>4. \A q \in Procs \ {p} : FileOK(q)'
  BY <1>1, OtherFiles DEF local
<1> QED
  BY <1>2, <1>3, <1>4 DEF FileInv, local

\* A failing download removes the name, whoever wrote to it.
LEMMA FailsFiles ==
  ASSUME ScreenInv, FileInv, NEW p \in Procs, Downloading(p), Fails(p)
  PROVE  FileInv'
<1>1. PICK n \in {put[p], got[p]} : data' = Written(p, n)
  BY DEF Fails
<1>2. n \in Nat
  BY Zenon DEF FileInv, ScreenInv, CountsOK
<1>3. data' \in Seq(Blocks) /\ Len(data') = Len(data)
  BY <1>1, <1>2, WrittenData, Zenon
<1>4. pc' = [pc EXCEPT ![p] = "idle"] /\ UNCHANGED <<local, shared>>
  BY DEF Fails, Return
<1>5. tmp' \in 0..Len(data)
  BY SMTT(30) DEF Fails, FileInv
<1> QED
  BY <1>3, <1>4, <1>5, EndsFiles, Zenon

\* p goes on, having written up to its chunk put'[p].
Goes(p) ==
  /\ Downloading(p) /\ Downloading(p)' /\ body[p] # 0
  /\ put' \in [Procs -> Nat] /\ put'[p] <= got'[p]
  /\ data' \in Seq(Blocks) /\ Len(data') = Len(data)
  /\ p \notin shared => data'[fd[p]] = Prefix(body[p], put'[p])
  /\ pc'[p] \in {"flush", "rename"} => (known[p] => got'[p] = Sizes[body[p]])
  /\ pc'[p] = "rename" => put'[p] = got'[p]
  /\ \A q \in Procs \ {p} : pc'[q] = pc[q] /\ got'[q] = got[q] /\ put'[q] = put[q]
  /\ UNCHANGED <<fd, body, known, tmp, shared>>

\* Then its inode holds what it has written.
LEMMA GoesFiles ==
  ASSUME FileInv, NEW p \in Procs, Goes(p)
  PROVE  FileInv'
<1> USE DEF Goes
<1>1. Alone'
  <2>1. \A q \in Procs : Downloading(q)' => Downloading(q)
    BY SMTT(30) DEF Downloading
  <2> QED
    BY <2>1, Zenon DEF FileInv, Alone
<1>2. FileOK(p)'
  BY Zenon DEF FileInv, FileOK
<1>3. \A q \in Procs \ {p} : FileOK(q)'
  BY OtherFiles, Zenon
<1> QED
  BY <1>1, <1>2, <1>3, Zenon DEF FileInv

\* At first there is no file.
LEMMA InitFiles == Init => FileInv
<1> SUFFICES ASSUME Init PROVE FileInv
  OBVIOUS
<1>1. data \in Seq(Blocks) /\ tmp \in 0..Len(data)
  BY DEF Init
<1>2. fd \in [Procs -> Nat] /\ put \in [Procs -> Nat] /\ known \in [Procs -> BOOLEAN]
  BY DEF Init
<1>3. \A p \in Procs : ~Downloading(p)
  BY Zenon DEF Init, Downloading
<1> QED
  BY <1>1, <1>2, <1>3 DEF FileInv, Alone, FileOK

\* fopen: p starts with an empty inode, which others may be writing to.
LEMMA OpenFiles ==
  ASSUME ScreenInv, FileInv, NEW p \in Procs, fopen(p)
  PROVE  FileInv'
<1> DEFINE others == {q \in Procs \ {p} : Downloading(q)}
<1>1. /\ pc[p] = "open" /\ pc' = [pc EXCEPT ![p] = "perform"] /\ fd' = [fd EXCEPT ![p] = tmp']
      /\ body' = [body EXCEPT ![p] = 0] /\ got' = [got EXCEPT ![p] = 0]
      /\ put' = [put EXCEPT ![p] = 0] /\ UNCHANGED known
  BY DEF fopen, Opened, Goto
<1>2. shared' = IF others = {} THEN shared \ {p} ELSE shared \cup others \cup {p}
  BY DEF fopen, Opened
<1>3. /\ data' \in Seq(Blocks) /\ tmp' \in 1..Len(data') /\ Len(data) <= Len(data')
      /\ data'[tmp'] = Absent
  <2>1. data \in Seq(Blocks) /\ tmp \in 0..Len(data) /\ Absent \in Blocks /\ Len(data) \in Nat
    BY DEF FileInv, Absent, Blocks
  <2>2. CASE tmp = 0
    <3>1. data' = Append(data, Absent) /\ tmp' = Len(data')
      BY <2>2 DEF fopen
    <3> QED
      BY <2>1, <3>1, Added
  <2>3. CASE tmp # 0
    <3>1. data' = [data EXCEPT ![tmp] = Absent] /\ tmp' = tmp /\ tmp \in 1..Len(data)
      BY <2>1, <2>3 DEF fopen
    <3> QED
      BY <2>1, <3>1, Replaced
  <2> QED
    BY <2>2, <2>3
<1>4. /\ fd'[p] = tmp' /\ body'[p] = 0 /\ got'[p] = 0 /\ put'[p] = 0 /\ pc'[p] = "perform"
      /\ fd' \in [Procs -> Nat] /\ put' \in [Procs -> Nat] /\ known' \in [Procs -> BOOLEAN]
      /\ \A q \in Procs \ {p} :
           /\ pc'[q] = pc[q] /\ fd'[q] = fd[q] /\ body'[q] = body[q] /\ got'[q] = got[q]
           /\ put'[q] = put[q] /\ known'[q] = known[q]
  <2>1. tmp' \in Nat
    BY <1>3, SMTT(30)
  <2> QED
    BY <1>1, <2>1 DEF FileInv, ScreenInv, CountsOK
<1>5. \A q \in Procs \ {p} : Downloading(q)' => q \in others /\ others # {}
  BY <1>4 DEF Downloading
<1>6. Alone'
  BY <1>2, <1>5 DEF Alone
<1>7. Prefix(0, 0) = Absent
  BY Zenon DEF Prefix, Absent
<1>8. FileOK(p)'
  BY <1>3, <1>4, <1>7, SMTT(30) DEF FileOK
<1>9. ASSUME NEW q \in Procs \ {p}
      PROVE  FileOK(q)'
  <2> SUFFICES ASSUME Downloading(q)'
               PROVE  FileOK(q)'
    BY Zenon DEF FileOK
  <2>1. q \in shared'
    BY <1>2, <1>5
  <2>2. FileOK(q) /\ Downloading(q)
    BY <1>5, Zenon DEF FileInv
  <2>3. fd'[q] \in 1..Len(data')
    BY <1>3, <1>4, <2>2, SMTT(30) DEF FileOK, FileInv
  <2> QED
    BY <1>4, <2>1, <2>2, <2>3, SMTT(30) DEF FileOK
<1> QED
  BY <1>3, <1>4, <1>6, <1>8, <1>9 DEF FileInv

\* A step that neither writes nor moves a download, and at most removes the name.
LEMMA IdleFiles ==
  ASSUME FileInv, UNCHANGED <<fd, body, known, got, put, data, shared>>, tmp' \in {tmp, 0},
         \A q \in Procs : Downloading(q)' => pc'[q] = pc[q]
  PROVE  FileInv'
<1>1. \A q \in Procs : Downloading(q)' => Downloading(q)
  BY DEF Downloading
<1>2. tmp' \in 0..Len(data)
  BY SMTT(30) DEF FileInv
<1>3. ASSUME NEW q \in Procs
      PROVE  FileOK(q)'
  BY <1>1, <1>3, Zenon DEF FileInv, FileOK
<1>4. Alone'
  BY <1>1, SMTT(30) DEF FileInv, Alone
<1> QED
  BY <1>2, <1>3, <1>4, Zenon DEF FileInv

\* Every step keeps the files of downloads that are alone.
LEMMA NextFiles == ScreenInv /\ FileInv /\ [Next]_vars => FileInv'
<1> SUFFICES ASSUME ScreenInv, FileInv, [Next]_vars PROVE FileInv'
  OBVIOUS
<1>1. ASSUME NEW p \in Procs, fopen(p)
      PROVE  FileInv'
  BY <1>1, OpenFiles
<1>2. ASSUME NEW p \in Procs, Downloading(p), Fails(p)
      PROVE  FileInv'
  BY <1>2, FailsFiles
<1>3. ASSUME NEW p \in Procs, flush(p)
      PROVE  FileInv'
  <2>1. Downloading(p) /\ pc[p] = "flush"
    BY <1>3 DEF flush, Downloading
  <2>2. CASE Fails(p)
    BY <1>2, <2>1, <2>2, SMTT(30)
  <2>3. CASE ~Fails(p)
    <3>1. /\ pc' = [pc EXCEPT ![p] = "rename"] /\ put' = [put EXCEPT ![p] = got[p]]
          /\ data' = Written(p, got[p]) /\ UNCHANGED <<fd, body, known, got, tmp, shared>>
      BY <1>3, <2>3, Zenon DEF flush, Goto
    <3>2. /\ pc'[p] = "rename" /\ put'[p] = got[p] /\ got'[p] = got[p]
          /\ put' \in [Procs -> Nat] /\ got[p] \in Nat
          /\ \A q \in Procs \ {p} : pc'[q] = pc[q] /\ put'[q] = put[q]
      BY <3>1, Zenon DEF ScreenInv, CountsOK, FileInv
    <3>3. /\ put[p] <= got[p] /\ body[p] # 0 /\ (known[p] => got[p] = Sizes[body[p]])
      BY <2>1, SMTT(30) DEF FileInv, FileOK
    <3>4. /\ data' \in Seq(Blocks) /\ Len(data') = Len(data)
          /\ p \notin shared => data'[fd[p]] = Prefix(body[p], got[p])
      BY <2>1, <3>1, <3>2, <3>3, WrittenData, ZenonT(60)
    <3>5. Downloading(p)'
      BY <3>2 DEF Downloading
    <3>6. put'[p] <= got'[p] /\ put'[p] = got'[p]
      BY <3>2
    <3>7. Goes(p)
      BY <2>1, <3>1, <3>2, <3>3, <3>4, <3>5, <3>6, Zenon DEF Goes
    <3> QED
      BY <3>7, GoesFiles, Zenon
  <2> QED
    BY <2>2, <2>3, SMTT(30)
<1>4. ASSUME NEW p \in Procs, rename(p)
      PROVE  FileInv'
  <2>1. Downloading(p)
    BY <1>4 DEF rename, Downloading
  <2>2. CASE Fails(p)
    BY <1>2, <2>1, <2>2
  <2>3. CASE ~Fails(p)
    <3>1. /\ pc' = [pc EXCEPT ![p] = "idle"] /\ tmp' = 0 /\ UNCHANGED <<local, data, shared>>
      BY <1>4, <2>3, Zenon DEF rename, Return
    <3>2. data' \in Seq(Blocks) /\ Len(data') = Len(data) /\ tmp' \in 0..Len(data)
      BY <3>1 DEF FileInv
    <3> QED
      BY <2>1, <3>1, <3>2, EndsFiles, Zenon
  <2> QED
    BY <2>2, <2>3
<1>5. ASSUME NEW p \in Procs, Respond(p)
      PROVE  FileInv'
  <2>1. /\ pc[p] = "perform" /\ body[p] = 0 /\ body' = [body EXCEPT ![p] = server]
        /\ UNCHANGED <<pc, fd, got, put, tmp, data, shared>>
    BY <1>5 DEF Respond, files
  <2>2. known' \in [Procs -> BOOLEAN] /\ \A q \in Procs \ {p} : known'[q] = known[q]
    <3>1. PICK length \in BOOLEAN : known' = [known EXCEPT ![p] = length]
      BY <1>5, Zenon DEF Respond
    <3> QED
      BY <3>1 DEF FileInv
  <2>3. /\ Downloading(p) /\ FileOK(p) /\ got[p] = 0 /\ put[p] = 0
        /\ \A q \in Procs \ {p} : body'[q] = body[q]
    BY <2>1 DEF FileInv, FileOK, ScreenInv, CountsOK, Total, Downloading
  <2>4. Prefix(0, 0) = Prefix(body'[p], 0)
    BY TransferInputs DEF Prefix, Chunks
  <2>5. FileOK(p)'
    <3>1. /\ fd[p] \in 1..Len(data) /\ put[p] <= got[p]
          /\ p \notin shared => tmp \in {0, fd[p]} /\ data[fd[p]] = Prefix(body[p], put[p])
      BY <2>3, Zenon DEF FileOK
    <3>2. p \notin shared => data[fd[p]] = Prefix(body'[p], put[p])
      BY <2>1, <2>3, <2>4, <3>1, Zenon
    <3>3. pc'[p] \notin {"flush", "rename"} /\ pc'[p] # "rename"
      BY <2>1
    <3> QED
      BY <2>1, <3>1, <3>2, <3>3, Zenon DEF FileOK
  <2>6. \A q \in Procs \ {p} : FileOK(q)'
    BY <2>1, <2>2, <2>3, OtherFiles
  <2>7. Alone'
    BY <2>1, SMTT(30) DEF FileInv, Alone, Downloading
  <2> QED
    BY <2>1, <2>2, <2>5, <2>6, <2>7 DEF FileInv
<1>6. ASSUME NEW p \in Procs, file_write_callback(p)
      PROVE  FileInv'
  <2>1. /\ pc[p] = "perform" /\ body[p] # 0 /\ got' = [got EXCEPT ![p] = @ + 1]
        /\ put' \in {put, [put EXCEPT ![p] = got'[p]]} /\ data' = Written(p, put'[p])
        /\ UNCHANGED <<pc, fd, body, known, tmp, shared>>
    BY <1>6, Zenon DEF file_write_callback
  <2>2. Downloading(p) /\ Downloading(p)' /\ FileOK(p)
    BY <2>1, Zenon DEF Downloading, FileInv
  <2>3. /\ got'[p] = got[p] + 1 /\ got[p] \in Nat /\ put[p] \in Nat /\ put[p] <= got[p]
        /\ \A q \in Procs \ {p} : got'[q] = got[q]
    BY <2>1, <2>2 DEF ScreenInv, CountsOK, FileInv, FileOK
  <2>4. /\ put' \in [Procs -> Nat] /\ put'[p] \in {put[p], got'[p]}
        /\ \A q \in Procs \ {p} : put'[q] = put[q]
    <3>1. PICK n \in Nat : n = got'[p]
      BY <2>3, SMTT(30)
    <3>2. put' \in {put, [put EXCEPT ![p] = n]} /\ put \in [Procs -> Nat]
      BY <2>1, <3>1, Zenon DEF FileInv
    <3> QED
      BY <3>1, <3>2
  <2>5. put[p] <= put'[p] /\ put'[p] <= got'[p]
    BY <2>3, <2>4
  <2>6. pc'[p] = "perform"
    BY <2>1
  <2>7. put'[p] \in Nat
    BY <2>4, Zenon
  <2>8. /\ data' \in Seq(Blocks) /\ Len(data') = Len(data)
        /\ p \notin shared => data'[fd[p]] = Prefix(body[p], put'[p])
    BY <2>1, <2>2, <2>5, <2>7, WrittenData, SMTT(30)
  <2>9. pc'[p] \notin {"flush", "rename"} /\ pc'[p] # "rename"
    BY <2>6
  <2>10. Goes(p)
    BY <2>1, <2>2, <2>3, <2>4, <2>5, <2>8, <2>9, Zenon DEF Goes
  <2> QED
    BY <2>10, GoesFiles, Zenon
<1>7. ASSUME NEW p \in Procs, Waiting(p) \/ Complete(p)
      PROVE  FileInv'
  <2>1. /\ pc[p] = "perform" /\ body[p] # 0
        /\ UNCHANGED <<fd, body, known, got, put, files, shared>>
        /\ \/ pc' = pc
           \/ /\ pc' = [pc EXCEPT ![p] = "flush"]
              /\ known[p] => got[p] = Sizes[body[p]]
    BY <1>7 DEF Waiting, Complete, Goto
  <2>2. /\ pc'[p] \in {"perform", "flush"} /\ \A q \in Procs \ {p} : pc'[q] = pc[q]
        /\ pc'[p] = "flush" => (known[p] => got[p] = Sizes[body[p]])
    BY <2>1, Zenon DEF ScreenInv, CountsOK
  <2>3. Downloading(p) /\ Downloading(p)' /\ FileOK(p)
    BY <2>1, <2>2, Zenon DEF Downloading, FileInv
  <2>4. /\ put' \in [Procs -> Nat] /\ put[p] <= put'[p] /\ put'[p] <= got'[p]
        /\ data' \in Seq(Blocks) /\ Len(data') = Len(data)
        /\ p \notin shared => data'[fd[p]] = Prefix(body[p], put'[p])
    BY <2>1, <2>3 DEF FileInv, FileOK, files
  <2>5. pc'[p] # "rename"
    BY <2>2
  <2>6. Goes(p)
    BY <2>1, <2>2, <2>3, <2>4, <2>5, Zenon DEF Goes, files
  <2> QED
    BY <2>6, GoesFiles, Zenon
<1>8. ASSUME NEW p \in Procs, curl_fails(p) \/ curl_times_out(p)
      PROVE  FileInv'
  BY <1>2, <1>8, SMTT(30) DEF curl_fails, curl_times_out, Downloading
<1>9. ASSUME NEW p \in Procs, NEW show_progress \in Shows[p], fetch_file(p, show_progress)
      PROVE  FileInv'
  <2>1. /\ pc' \in {[pc EXCEPT ![p] = "open"], [pc EXCEPT ![p] = "idle"]} /\ tmp' \in {tmp, 0}
        /\ UNCHANGED <<fd, body, known, got, put, data, shared>>
    BY <1>9, Zenon DEF fetch_file, Goto, Return
  <2>2. \A q \in Procs : Downloading(q)' => pc'[q] = pc[q]
    BY <2>1 DEF Downloading, ScreenInv, CountsOK
  <2> QED
    BY <2>1, <2>2, IdleFiles, ZenonT(60)
<1>10. ASSUME NEW p \in Procs, Kill(p)
       PROVE  FileInv'
  <2>1. /\ pc' = [pc EXCEPT ![p] = "idle"]
        /\ UNCHANGED <<fd, body, known, got, put, data, tmp, shared>>
    BY <1>10 DEF Kill, Return, local, files
  <2>2. \A q \in Procs : Downloading(q)' => pc'[q] = pc[q]
    BY <2>1 DEF Downloading, ScreenInv, CountsOK
  <2> QED
    BY <2>1, <2>2, IdleFiles, ZenonT(60)
<1>11. CASE \/ \E p \in Procs, level \in LOG_LEVEL_ERROR..LOG_LEVEL_DEBUG : Say(p, level)
            \/ Upload \/ UNCHANGED vars
  <2>1. UNCHANGED <<pc, fd, body, known, got, put, data, tmp, shared>>
    BY <1>11 DEF Say, Upload, vars, local, files
  <2> QED
    BY <2>1, IdleFiles
<1> QED
  BY <1>1, <1>3, <1>4, <1>5, <1>6, <1>7, <1>8, <1>9, <1>10, <1>11 DEF Next, Step, Curl

\* Only rename lets fetch_file return 0.
LEMMA OkIsRenamed ==
  ASSUME ScreenInv, rc \in [Procs -> {"none", "killed", "error", "ok"}], [Next]_vars,
         NEW p \in Procs, pc[p] = "rename", pc'[p] = "idle", rc'[p] = "ok"
  PROVE  rename(p) /\ ~Fails(p)
<1>1. ~Fails(p) /\ ~Kill(p)
  BY Zenon DEF Fails, Kill, Return
<1>2. pc \in [Procs -> {"idle", "open", "perform", "flush", "rename"}] /\ pc' # pc
  BY DEF ScreenInv, CountsOK
<1>3. PICK q \in Procs : \/ Step(q) \/ Curl(q) \/ Kill(q)
                        \/ \E show_progress \in Shows[q] : fetch_file(q, show_progress)
  BY <1>2, Zenon DEF Next, Say, Upload, vars
<1>4. \E label \in {"idle", "open", "perform", "flush", "rename"} : pc' = [pc EXCEPT ![q] = label]
  BY <1>2, <1>3, Zenon DEF Step, Curl, fopen, Opened, flush, rename, Fails, Respond,
       file_write_callback, Waiting, Complete, curl_fails, curl_times_out, fetch_file, Kill,
       Goto, Return
<1>5. q = p
  BY <1>2, <1>4
<1> QED
  BY <1>1, <1>3, <1>5, Zenon DEF Step, Curl, fopen, flush, Respond, file_write_callback,
       Waiting, Complete, curl_fails, curl_times_out, fetch_file

\* The files of every reachable state.
LEMMA Files == Spec => []FileInv
BY Screens, InitFiles, NextFiles, PTL DEF Spec

\* A file that fetch_file returns 0 for is a whole body of one version, for any
\* number of processes, versions and sizes, if the response told its length and the
\* download was the only one: the step that renames it renames the inode that holds
\* all that was received.
THEOREM FetchedFilesAreWhole == Spec => FetchedIsWhole
<1> DEFINE ResultOK == rc \in [Procs -> {"none", "killed", "error", "ok"}]
<1>1. ASSUME ScreenInv, FileInv, ResultOK, [Next]_vars, NEW p \in Procs, pc[p] = "rename",
             pc'[p] = "idle", rc'[p] = "ok", known[p], p \notin shared
      PROVE  data'[dest'] = Body(body[p])
  <2>1. rename(p) /\ ~Fails(p)
    BY <1>1, OkIsRenamed, Zenon
  <2>2. dest' = tmp /\ tmp # 0 /\ data' = data
    BY <2>1, Zenon DEF rename
  <2>3. /\ tmp = fd[p] /\ data[fd[p]] = Prefix(body[p], put[p])
        /\ put[p] = got[p] /\ got[p] = Sizes[body[p]]
    BY <1>1, <2>2, Zenon DEF FileInv, FileOK, Downloading
  <2> QED
    BY <2>2, <2>3 DEF Prefix, Body
<1>2. ScreenInv /\ FileInv /\ ResultOK /\ [Next]_vars =>
        [\A p \in Procs :
           pc[p] = "rename" /\ pc'[p] = "idle" /\ rc'[p] = "ok" /\ known[p] /\ p \notin shared
           => data'[dest'] = Body(body[p])]_vars
  BY <1>1, Zenon
<1>3. HistoryTypes => ResultOK
  BY DEF HistoryTypes
<1> QED
  BY <1>2, <1>3, Screens, HistoryTypesHold, Files, PTL DEF Spec, FetchedIsWhole

-----------------------------------------------------------------------------
(* Types *)

\* What TypeOK says that the invariants above do not.
RestOK ==
  /\ \A p \in Procs : fd[p] <= Len(data) /\ put[p] <= got[p] /\ (rc[p] = "ok" => dest # 0)
  /\ dest \in 0..Len(data)
  /\ shared \subseteq Procs /\ fetches \in [Procs -> Nat] /\ faults \in 0..MaxFaults

\* Inodes are not removed while a name or a descriptor refers to them.
LEMMA DataGrows ==
  ASSUME ScreenInv, FileInv, [Next]_vars
  PROVE  Len(data) <= Len(data')
<1>1. /\ data \in Seq(Blocks) /\ tmp \in 0..Len(data) /\ Absent \in Blocks
      /\ put \in [Procs -> Nat] /\ got \in [Procs -> Nat]
      /\ Len(data) \in Nat
  <2>1. Absent \in Blocks
    BY DEF Absent, Blocks
  <2> QED
    BY <2>1 DEF FileInv, ScreenInv, CountsOK
<1>2. ASSUME NEW p \in Procs, fopen(p)
      PROVE  Len(data) <= Len(data')
  <2>1. CASE tmp = 0
    BY <1>1, <1>2, <2>1, Added DEF fopen
  <2>2. CASE tmp # 0
    BY <1>1, <1>2, <2>2, Replaced DEF fopen
  <2> QED
    BY <2>1, <2>2
<1>3. ASSUME NEW p \in Procs, NEW n \in Nat, Downloading(p), data' = Written(p, n)
      PROVE  Len(data) <= Len(data')
  BY <1>1, <1>3, WrittenData
<1>4. ASSUME NEW p \in Procs, Downloading(p), Fails(p)
      PROVE  Len(data) <= Len(data')
  <2>1. PICK n \in {put[p], got[p]} : data' = Written(p, n)
    BY <1>4 DEF Fails
  <2> QED
    BY <1>1, <1>3, <1>4, <2>1
<1>5. ASSUME NEW p \in Procs, file_write_callback(p)
      PROVE  Len(data) <= Len(data')
  <2>1. Downloading(p) /\ data' = Written(p, put'[p]) /\ got' = [got EXCEPT ![p] = @ + 1]
        /\ put' \in {put, [put EXCEPT ![p] = got'[p]]}
    BY <1>5 DEF file_write_callback, Downloading
  <2>2. put'[p] \in Nat
    BY <1>1, <2>1
  <2> QED
    BY <1>3, <2>1, <2>2, Zenon
<1>6. ASSUME NEW p \in Procs, flush(p)
      PROVE  Len(data) <= Len(data')
  <2>1. Downloading(p) /\ (Fails(p) \/ data' = Written(p, got[p]))
    BY <1>6 DEF flush, Downloading
  <2> QED
    BY <1>1, <1>3, <1>4, <2>1, Zenon
<1>7. ASSUME NEW p \in Procs, rename(p) \/ curl_fails(p) \/ curl_times_out(p)
      PROVE  Len(data) <= Len(data')
  <2>1. Downloading(p) /\ (Fails(p) \/ data' = data)
    BY <1>7, Zenon DEF rename, curl_fails, curl_times_out, Downloading
  <2> QED
    BY <1>1, <1>4, <2>1, SMTT(30)
<1>8. ASSUME data' = data
      PROVE  Len(data) <= Len(data')
  BY <1>1, <1>8
<1>9. \/ data' = data
      \/ \E p \in Procs : \/ fopen(p) \/ file_write_callback(p) \/ flush(p) \/ rename(p)
                          \/ curl_fails(p) \/ curl_times_out(p)
  BY Zenon DEF Next, Step, Curl, Respond, Waiting, Complete, fetch_file, Say, Kill, Upload,
       vars, files
<1> QED
  BY <1>2, <1>5, <1>6, <1>7, <1>8, <1>9, ZenonT(60)

\* A descriptor is of the inode that bears the temporary name when it is opened.
LEMMA DescriptorTypes ==
  ASSUME ScreenInv, FileInv, FileInv', RestOK, [Next]_vars, NEW q \in Procs
  PROVE  fd'[q] <= Len(data')
<1>1. /\ fd \in [Procs -> Nat] /\ fd[q] \in Nat /\ fd[q] <= Len(data) /\ Len(data) \in Nat
      /\ tmp' \in 0..Len(data') /\ Len(data') \in Nat /\ Len(data) <= Len(data')
  BY DataGrows DEF FileInv, RestOK
<1>2. fd' = fd \/ \E p \in Procs : fd' = [fd EXCEPT ![p] = tmp']
  BY ZenonT(60) DEF Next, Step, Curl, fopen, Opened, flush, rename, Fails, Respond,
       file_write_callback, Waiting, Complete, curl_fails, curl_times_out, fetch_file, Say,
       Kill, Upload, vars, local
<1> QED
  BY <1>1, <1>2

\* Nothing is written that was not received.
LEMMA WrittenTypes ==
  ASSUME ScreenInv, FileInv, RestOK, [Next]_vars, NEW q \in Procs
  PROVE  put'[q] <= got'[q]
<1>1. /\ got \in [Procs -> Nat] /\ put \in [Procs -> Nat] /\ put[q] <= got[q]
  BY DEF ScreenInv, CountsOK, FileInv, RestOK
<1>2. \/ UNCHANGED <<got, put>>
      \/ \E p \in Procs :
           \/ got' = [got EXCEPT ![p] = 0] /\ put' = [put EXCEPT ![p] = 0]
           \/ got' = [got EXCEPT ![p] = @ + 1] /\ put' \in {put, [put EXCEPT ![p] = got'[p]]}
           \/ got' = got /\ put' = [put EXCEPT ![p] = got[p]]
  BY ZenonT(60) DEF Next, Step, Curl, fopen, Opened, flush, rename, Fails, Respond,
       file_write_callback, Waiting, Complete, curl_fails, curl_times_out, fetch_file, Say,
       Kill, Upload, vars, local
<1> QED
  BY <1>1, <1>2

\* The destination comes from a rename, and is there once a call succeeded.
LEMMA DestTypes ==
  ASSUME ScreenInv, HistoryTypes, FileInv, FileInv', RestOK, [Next]_vars
  PROVE  dest' \in 0..Len(data') /\ \A q \in Procs : rc'[q] = "ok" => dest' # 0
<1>1. /\ dest \in 0..Len(data) /\ tmp \in 0..Len(data) /\ Len(data) \in Nat
      /\ Len(data') \in Nat /\ Len(data) <= Len(data')
      /\ rc \in [Procs -> {"none", "killed", "error", "ok"}]
      /\ \A q \in Procs : rc[q] = "ok" => dest # 0
  BY DataGrows DEF FileInv, RestOK, HistoryTypes
<1>2. \/ dest' = tmp /\ tmp # 0
      \/ dest' = dest /\ \/ rc' = rc
                         \/ \E p \in Procs, code \in {"killed", "error"} :
                              rc' = [rc EXCEPT ![p] = code]
  BY ZenonT(60) DEF Next, Step, Curl, fopen, Opened, flush, rename, Fails, Respond,
       file_write_callback, Waiting, Complete, curl_fails, curl_times_out, fetch_file, Say,
       Kill, Upload, vars, files, Goto, Return
<1> QED
  BY <1>1, <1>2

\* Every step keeps them.
LEMMA NextRest ==
  ScreenInv /\ HistoryTypes /\ FileInv /\ FileInv' /\ RestOK /\ [Next]_vars => RestOK'
<1> SUFFICES ASSUME ScreenInv, HistoryTypes, FileInv, FileInv', RestOK, [Next]_vars PROVE RestOK'
  OBVIOUS
<1>1. shared' = shared \/ \E p \in Procs : Opened(p)
  <2>1. ASSUME NEW p \in Procs, Step(p) \/ Curl(p)
        PROVE  shared' = shared \/ Opened(p)
    BY <2>1, Zenon DEF Step, Curl, fopen, flush, rename, Fails, Respond, file_write_callback,
         Waiting, Complete, curl_fails, curl_times_out
  <2> QED
    BY <2>1, Zenon DEF Next, fetch_file, Say, Kill, Upload, vars
<1>2. fetches' = fetches \/ \E p \in Procs : fetches' = [fetches EXCEPT ![p] = @ + 1]
  BY ZenonT(60) DEF Next, Step, Curl, fopen, Opened, flush, rename, Fails, Respond,
       file_write_callback, Waiting, Complete, curl_fails, curl_times_out, fetch_file, Say,
       Kill, Upload, vars
<1>3. faults' = faults \/ (faults < MaxFaults /\ faults' = faults + 1)
  BY ZenonT(60) DEF Next, Step, Curl, fopen, Opened, flush, rename, Respond,
       file_write_callback, Waiting, Complete, curl_fails, curl_times_out, fetch_file, Say,
       Kill, Upload, vars, Fault, NoFault
<1>4. shared' \subseteq Procs
  BY <1>1, ZenonT(60) DEF RestOK, Opened
<1>5. fetches' \in [Procs -> Nat]
  BY <1>2 DEF RestOK
<1>6. MaxFaults \in Nat
  BY TransferInputs, Zenon
<1>7. faults' \in 0..MaxFaults
  BY <1>3, <1>6 DEF RestOK
<1> QED
  BY <1>4, <1>5, <1>7, DescriptorTypes, WrittenTypes, DestTypes DEF RestOK

\* They hold in every reachable state.
LEMMA Rests == Spec => []RestOK
<1>1. Init => RestOK
  BY TransferInputs DEF Init, RestOK
<1> QED
  BY <1>1, NextRest, Screens, HistoryTypesHold, Files, PTL DEF Spec

\* In every execution the locals of fetch_file, the files and what is on the screen keep
\* their types: a descriptor and both names are of inodes that exist, and no process has
\* written or received more chunks than the body has.
THEOREM TransferTypesHold == Spec => []TypeOK
<1>1. ASSUME ScreenInv, HistoryTypes, FileInv, RestOK
      PROVE  TypeOK
  <2>1. ASSUME NEW p \in Procs
        PROVE  /\ got[p] \in 0..Len(Bytes) /\ put[p] \in 0..Len(Bytes) /\ fd[p] \in 0..Len(data)
               /\ Downloading(p) => fd[p] # 0
    <3>1. /\ got[p] \in Nat /\ put[p] \in Nat /\ put[p] <= got[p] /\ got[p] <= Total(p)
          /\ fd[p] \in Nat /\ fd[p] <= Len(data) /\ body[p] \in Versions \cup {0}
          /\ Downloading(p) => fd[p] \in 1..Len(data)
      BY <1>1 DEF ScreenInv, CountsOK, FileInv, FileOK, RestOK
    <3>2. Len(data) \in Nat /\ Len(Bytes) \in Nat /\ Chunks = 1..Len(Bytes)
      BY <1>1, TransferInputs DEF FileInv, Chunks
    <3>3. Total(p) \in 0..Len(Bytes)
      BY <3>1, <3>2, Sized DEF Total
    <3>4. got[p] \in 0..Len(Bytes) /\ put[p] \in 0..Len(Bytes)
      BY <3>1, <3>2, <3>3, SMTT(30)
    <3>5. fd[p] \in 0..Len(data) /\ (Downloading(p) => fd[p] # 0)
      BY <3>1, <3>2, SMTT(30)
    <3> QED
      BY <3>4, <3>5, Zenon
  <2>2. /\ got \in [Procs -> 0..Len(Bytes)] /\ put \in [Procs -> 0..Len(Bytes)]
        /\ fd \in [Procs -> 0..Len(data)]
    BY <1>1, <2>1 DEF ScreenInv, CountsOK, FileInv
  <2> QED
    BY <1>1, <2>1, <2>2, Zenon DEF TypeOK, ScreenInv, CountsOK, HistoryTypes, FileInv,
       Blocks, RestOK
<1> QED
  BY <1>1, Screens, HistoryTypesHold, Files, Rests, PTL
=============================================================================
