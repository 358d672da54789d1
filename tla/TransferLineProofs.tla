------------------------- MODULE TransferLineProofs -------------------------
(***************************************************************************)
(* For any sizes, any interval of the byte milestones and any number of    *)
(* processes and callbacks: a log that is not a terminal has one line per  *)
(* milestone (QuietLog), and the last line shows all that was received     *)
(* (LastLineShowsAll).                                                     *)
(***************************************************************************)
EXTENDS TransferProofs, FiniteSetTheorems

(* Milestones *)

\* A larger number has no smaller quotient.
LEMMA QuotientUp ==
  ASSUME NEW a \in Nat, NEW b \in Nat, NEW d \in Nat, d > 0, a <= b
  PROVE  a \div d \in Nat /\ b \div d \in Nat /\ a \div d <= b \div d
<1>1. PICK x \in Nat, y \in Nat : x = a \div d /\ y = b \div d
  OBVIOUS
<1>2. d * x <= a /\ b < d * y + d
  BY <1>1
<1>3. d * x < d * (y + 1)
  BY <1>2
<1>4. x < y + 1
  BY <1>3
<1> QED
  BY <1>1, <1>4

\* A part of a total is less than 100 percent.
LEMMA QuotientBelow ==
  ASSUME NEW a \in Nat, NEW c \in Nat, NEW d \in Nat, d > 0, a < c * d
  PROVE  a \div d < c
<1>1. PICK x \in Nat : x = a \div d /\ d * x <= a
  OBVIOUS
<1>2. d * x < d * c
  BY <1>1
<1> QED
  BY <1>1, <1>2

\* The percentage grows with what was received, to 100 and no further.
LEMMA PercentUp ==
  ASSUME NEW a \in Nat, NEW b \in Nat, NEW total \in Nat, total > 0, a <= b
  PROVE  /\ download_progress_percent(a, total) \in 0..100
         /\ download_progress_percent(b, total) \in 0..100
         /\ download_progress_percent(a, total) <= download_progress_percent(b, total)
         /\ b < total => download_progress_percent(b, total) < 100
<1>1. ASSUME NEW t \in Nat
      PROVE  /\ download_progress_percent(t, total) \in 0..100
             /\ t < total => download_progress_percent(t, total) < 100
  <2>1. CASE t >= total
    BY <2>1 DEF download_progress_percent
  <2>2. CASE t < total
    <3>1. t * 100 \in Nat /\ t * 100 < 100 * total
      BY <2>2
    <3>2. (t * 100) \div total < 100 /\ (t * 100) \div total \in Nat
      BY <3>1, QuotientBelow
    <3> QED
      BY <2>2, <3>2 DEF download_progress_percent
  <2> QED
    BY <2>1, <2>2
<1>2. CASE b >= total
  <2>1. download_progress_percent(b, total) = 100
    BY <1>2 DEF download_progress_percent
  <2> QED
    BY <1>1, <1>2, <2>1
<1>3. CASE b < total
  <2>1. a * 100 \in Nat /\ b * 100 \in Nat /\ a * 100 <= b * 100
    OBVIOUS
  <2>2. (a * 100) \div total <= (b * 100) \div total
    BY <2>1, QuotientUp
  <2>3. /\ download_progress_percent(a, total) = (a * 100) \div total
        /\ download_progress_percent(b, total) = (b * 100) \div total
    BY <1>3 DEF download_progress_percent
  <2> QED
    BY <1>1, <1>3, <2>2, <2>3
<1> QED
  BY <1>2, <1>3

\* So does the milestone.
LEMMA TenthUp ==
  ASSUME NEW a \in 0..100, NEW b \in 0..100, a <= b
  PROVE  /\ log_progress_percent_milestone(a) \in Int /\ log_progress_percent_milestone(b) \in Int
         /\ log_progress_percent_milestone(a) <= log_progress_percent_milestone(b)
         /\ b < 100 => log_progress_percent_milestone(b) < 100
BY DEF log_progress_percent_milestone

\* Milestones only go up as more is received.
LEMMA MilestonesUp ==
  ASSUME NEW length \in BOOLEAN, NEW v \in Versions,
         NEW m \in 1..Sizes[v], NEW n \in 1..Sizes[v], m <= n
  PROVE  /\ At(length, v, m) \in Int /\ At(length, v, n) \in Int
         /\ At(length, v, m) <= At(length, v, n)
         /\ length /\ Bytes[n] < Bytes[Sizes[v]] => At(length, v, n) < 100
<1> DEFINE total == Bytes[Sizes[v]]
           a == Bytes[m]
           b == Bytes[n]
<1>1. m \in Chunks /\ n \in Chunks /\ Sizes[v] \in Chunks /\ Sizes[v] \in 1..Sizes[v]
  BY Sized
<1>2. a \in Nat /\ b \in Nat /\ total \in Nat /\ total > 0
  BY <1>1, Sized
<1>3. a <= b
  BY <1>1, TransferInputs
<1> HIDE DEF a, b, total
<1>4. CASE length
  <2> DEFINE x == download_progress_percent(a, total)
             y == download_progress_percent(b, total)
  <2>1. x \in 0..100 /\ y \in 0..100 /\ x <= y /\ (b < total => y < 100)
    BY <1>2, <1>3, PercentUp, Zenon
  <2>2. /\ At(length, v, m) = log_progress_percent_milestone(x)
        /\ At(length, v, n) = log_progress_percent_milestone(y)
    BY <1>4 DEF At, a, b, total
  <2> HIDE DEF x, y
  <2>3. /\ At(length, v, m) \in Int /\ At(length, v, n) \in Int
        /\ At(length, v, m) <= At(length, v, n)
        /\ y < 100 => At(length, v, n) < 100
    BY <2>1, <2>2, TenthUp, Zenon
  <2> QED
    BY <2>1, <2>3 DEF b, total
<1>5. CASE ~length
  <2>1. /\ At(length, v, m) = log_progress_byte_milestone(a, ByteInterval)
        /\ At(length, v, n) = log_progress_byte_milestone(b, ByteInterval)
    BY <1>5 DEF At, a, b
  <2>2. CASE ByteInterval = 0
    BY <1>5, <2>1, <2>2 DEF log_progress_byte_milestone
  <2>3. CASE ByteInterval # 0
    <3>1. ByteInterval \in Nat /\ ByteInterval > 0
      BY <2>3, TransferInputs
    <3>2. /\ a \div ByteInterval \in Nat /\ b \div ByteInterval \in Nat
          /\ a \div ByteInterval <= b \div ByteInterval
      BY <1>2, <1>3, <3>1, QuotientUp
    <3> QED
      BY <1>5, <2>1, <2>3, <3>2 DEF log_progress_byte_milestone
  <2> QED
    BY <2>2, <2>3
<1> QED
  BY <1>4, <1>5

\* The milestones that n chunks pass are finitely many.
LEMMA PassedFinite ==
  ASSUME NEW length, NEW v, NEW n \in Nat
  PROVE  IsFiniteSet(Passed(length, v, n)) /\ Cardinality(Passed(length, v, n)) \in Nat
<1> DEFINE all == {At(length, v, k) : k \in 1..n}
           f   == [k \in 1..n |-> At(length, v, k)]
<1>1. f \in Surjection(1..n, all)
  BY DEF Surjection
<1>2. IsFiniteSet(1..n)
  BY FS_Interval
<1>3. Passed(length, v, n) \subseteq all
  BY DEF Passed
<1> HIDE DEF all, f
<1>4. IsFiniteSet(all)
  BY <1>1, <1>2, FS_Surjection
<1>5. IsFiniteSet(Passed(length, v, n))
  BY <1>3, <1>4, FS_Subset
<1> QED
  BY <1>5, FS_CardinalityType

-----------------------------------------------------------------------------
(* What a process has printed *)

\* The milestone p printed last.
LastMilestone(p) ==
  IF known[p] THEN progress[p].percent_milestone ELSE progress[p].byte_milestone

\* The milestones of the lines that p printed without a terminal.
Printed(p, passed) ==
  /\ passed \subseteq Milestones(p) /\ IsFiniteSet(passed) /\ lines[p] = Cardinality(passed)
  /\ passed # {} => LastMilestone(p) \in passed /\ \A m \in passed : m <= LastMilestone(p)

Received(n) == IF n = 0 THEN 0 ELSE Bytes[n]

\* Without a terminal r, what the callback returns for pr, has a line for a milestone other
\* than the last one, or leaves pr as it is.
NewMilestone(pr, r, tenth, bytes) ==
  IF ~r.emit THEN r.progress = pr
  ELSE /\ pr.transferred > 0
       /\ pr.total > 0 =>
            /\ pr.transferred < pr.total /\ ~(tenth < 0) /\ tenth # pr.percent_milestone
            /\ r.progress = [pr EXCEPT !.percent_milestone = tenth]
       /\ ~(pr.total > 0) =>
            /\ bytes # 0 /\ bytes # pr.byte_milestone
            /\ r.progress = [pr EXCEPT !.byte_milestone = bytes]

\* A line without a terminal is for a milestone other than the last one.
LEMMA CallbackMilestone ==
  ASSUME NEW l \in LogState, ~l.tty, NEW pr \in Progress, NEW elapsed_ms \in Nat
  PROVE  NewMilestone(pr, download_progress_callback(l, pr, elapsed_ms),
           log_progress_percent_milestone(download_progress_percent(pr.transferred, pr.total)),
           log_progress_byte_milestone(pr.transferred, ByteInterval))
<1> DEFINE r == download_progress_callback(l, pr, elapsed_ms)
           tenth == log_progress_percent_milestone(
                      download_progress_percent(pr.transferred, pr.total))
           bytes == log_progress_byte_milestone(pr.transferred, ByteInterval)
           early == \/ ~log_progress_enabled(l) \/ pr.transferred = 0
                    \/ pr.total > 0 /\ pr.transferred >= pr.total
           skip == IF pr.total > 0 THEN tenth < 0 \/ tenth = pr.percent_milestone
                   ELSE bytes = 0 \/ bytes = pr.byte_milestone
<1> SUFFICES NewMilestone(pr, r, tenth, bytes)
  OBVIOUS
<1>1. pr.transferred \in Nat /\ pr.total \in Nat
  BY DEF Progress
<1>2. r = IF early THEN [emit |-> FALSE, progress |-> pr] ELSE Milestone(pr)
  BY DEF download_progress_callback
<1>3. /\ Milestone(pr).emit <=> ~skip
      /\ Milestone(pr).progress = IF skip THEN pr
                                  ELSE IF pr.total > 0
                                  THEN [pr EXCEPT !.percent_milestone = tenth]
                                  ELSE [pr EXCEPT !.byte_milestone = bytes]
  BY Zenon DEF Milestone, Unchanged
<1> HIDE DEF tenth, bytes, r
<1>4. CASE early
  <2>1. r = [emit |-> FALSE, progress |-> pr]
    BY <1>2, <1>4
  <2>2. ~r.emit /\ r.progress = pr
    BY <2>1
  <2> QED
    BY <2>2 DEF NewMilestone
<1>5. CASE ~early /\ skip
  <2>1. r = Milestone(pr)
    BY <1>2, <1>5, Zenon
  <2>2. ~r.emit /\ r.progress = pr
    <3> HIDE DEF skip
    <3> QED
      BY <1>3, <1>5, <2>1
  <2> QED
    BY <2>2 DEF NewMilestone
<1>6. CASE ~early /\ ~skip
  <2>1. r = Milestone(pr)
    BY <1>2, <1>6, Zenon
  <2>2. /\ r.emit
        /\ r.progress = IF pr.total > 0 THEN [pr EXCEPT !.percent_milestone = tenth]
                        ELSE [pr EXCEPT !.byte_milestone = bytes]
    <3> HIDE DEF skip
    <3> QED
      BY <1>3, <1>6, <2>1
  <2>3. /\ pr.transferred > 0 /\ (pr.total > 0 => pr.transferred < pr.total)
        /\ pr.total > 0 => ~(tenth < 0) /\ tenth # pr.percent_milestone
        /\ ~(pr.total > 0) => bytes # 0 /\ bytes # pr.byte_milestone
    BY <1>1, <1>6
  <2> QED
    BY <2>2, <2>3 DEF NewMilestone
<1> QED
  BY <1>4, <1>5, <1>6

\* A line more, for a milestone that was not printed yet.
LEMMA OneMore ==
  ASSUME NEW passed, IsFiniteSet(passed), NEW m, m \notin passed
  PROVE  /\ IsFiniteSet(passed \cup {m})
         /\ Cardinality(passed \cup {m}) = Cardinality(passed) + 1
BY FS_AddElement

\* Nothing is printed.
LEMMA PrintedSame ==
  ASSUME NEW p \in Procs, NEW passed, Printed(p, passed), Milestones(p) \subseteq Milestones(p)',
         lines'[p] = lines[p], LastMilestone(p)' = LastMilestone(p)
  PROVE  Printed(p, passed)'
BY Zenon DEF Printed

\* A line for a milestone above all the others.
LEMMA PrintedMore ==
  ASSUME NEW p \in Procs, NEW passed, Printed(p, passed), Milestones(p) \subseteq Milestones(p)',
         NEW m \in Int, m \in Milestones(p)', m # LastMilestone(p),
         \A e \in Milestones(p) : e \in Int /\ e <= m,
         lines'[p] = lines[p] + 1, LastMilestone(p)' = m,
         NEW more, more = passed \cup {m}
  PROVE  Printed(p, more)'
<1>1. /\ passed \subseteq Milestones(p) /\ IsFiniteSet(passed) /\ lines[p] = Cardinality(passed)
      /\ passed # {} => LastMilestone(p) \in passed /\ \A e \in passed : e <= LastMilestone(p)
  BY DEF Printed
<1>2. m \notin passed
  <2> SUFFICES ASSUME m \in passed PROVE FALSE
    OBVIOUS
  <2>1. LastMilestone(p) \in passed /\ m <= LastMilestone(p)
    BY <1>1
  <2>2. LastMilestone(p) \in Int /\ LastMilestone(p) <= m
    BY <1>1, <2>1, Zenon
  <2> QED
    BY <2>1, <2>2
<1>3. /\ IsFiniteSet(passed \cup {m})
      /\ lines'[p] = Cardinality(passed \cup {m})
  BY <1>1, <1>2, OneMore
<1>4. passed \cup {m} \subseteq Milestones(p)'
  BY <1>1
<1>5. \A e \in passed \cup {m} : e <= m
  BY <1>1
<1> QED
  BY <1>3, <1>4, <1>5, Zenon DEF Printed

\* libcurl has n chunks of a body for p, some of them perhaps new.
Delivers(p, n) ==
  /\ body[p] # 0 /\ n <= Sizes[body[p]] /\ got[p] <= n /\ got' = [got EXCEPT ![p] = n]
  /\ UNCHANGED <<rc, progress_enabled, body, known>>

\* libcurl has n chunks: the counts are stored, no final line is printed, and without a
\* terminal at most a line for a new milestone.
LEMMA CallbackHistory ==
  ASSUME ScreenInv, HistoryTypes, NEW p \in Procs, NEW n \in Nat, Delivers(p, n),
         Callback(p, n)
  PROVE  /\ progress_enabled[p] => progress'[p].transferred = Received(n)
         /\ \A q \in Procs \ {p} : shown'[q] = shown[q] /\ lines'[q] = lines[q]
         /\ shown'[p].final => shown[p].final
         /\ ~log[p].tty /\ (\E passed : Printed(p, passed)) => \E passed : Printed(p, passed)'
<1>1. /\ log[p] \in LogState /\ progress \in [Procs -> Progress]
      /\ body[p] \in Versions /\ n <= Sizes[body[p]] /\ known[p] \in BOOLEAN
      /\ shown \in [Procs -> [bytes : Nat, final : BOOLEAN]] /\ lines \in [Procs -> Nat]
  BY DEF ScreenInv, CountsOK, HistoryTypes, Delivers
<1>2. /\ Milestones(p) = Passed(known[p], body[p], got[p])
      /\ Milestones(p)' = Passed(known[p], body[p], n)
  <2>1. got \in [Procs -> Nat]
    BY DEF ScreenInv, CountsOK
  <2>2. got'[p] = n /\ UNCHANGED <<body, known>>
    BY <2>1 DEF Delivers
  <2> QED
    BY <2>2, Zenon DEF Milestones
<1>3. Milestones(p) \subseteq Milestones(p)'
  <2>1. got[p] \in Nat /\ got[p] <= n
    BY DEF ScreenInv, CountsOK, Delivers
  <2>2. \A k \in 1..got[p] : k \in 1..n
    BY <2>1
  <2> QED
    BY <1>2, <2>2, Zenon DEF Passed
<1>4. CASE ~progress_enabled[p]
  <2>1. UNCHANGED <<progress, shown, lines>>
    BY <1>4 DEF Callback, display
  <2>2. LastMilestone(p)' = LastMilestone(p)
    BY <2>1 DEF LastMilestone, Delivers
  <2> QED
    BY <1>1, <1>3, <1>4, <2>1, <2>2, PrintedSame, Zenon
<1>5. CASE progress_enabled[p]
  <2>1. PICK elapsed_ms \in {0, 200, 500}, width \in Widths :
          LET r == download_progress_callback(log[p], Counts(p, n), elapsed_ms)
          IN  /\ progress' = [progress EXCEPT ![p] = r.progress]
              /\ IF r.emit
                 THEN /\ log' = [log EXCEPT ![p] =
                                   download_progress_render(@, r.progress, FALSE, width)]
                      /\ Record(p, r.progress, FALSE)
                 ELSE UNCHANGED display
    BY <1>5, Zenon DEF Callback
  <2> DEFINE pr == Counts(p, n)
             r == download_progress_callback(log[p], pr, elapsed_ms)
             total == IF known[p] THEN Bytes[Sizes[body[p]]] ELSE 0
  <2>2. /\ total \in Nat /\ (known[p] <=> total > 0) /\ Received(n) \in Nat
        /\ n # 0 => n \in 1..Sizes[body[p]]
    <3>1. Sizes[body[p]] \in Nat /\ Sizes[body[p]] \in Chunks
          /\ Bytes[Sizes[body[p]]] \in Nat /\ Bytes[Sizes[body[p]]] > 0
      <4>1. Sizes[body[p]] \in Chunks /\ Sizes[body[p]] \in Nat
        BY <1>1, Sized
      <4>2. Bytes[Sizes[body[p]]] \in Nat \ {0}
        BY <4>1, TransferInputs, SMTT(30) DEF Chunks
      <4> QED
        BY <4>1, <4>2
    <3>2. n # 0 => n \in 1..Sizes[body[p]] /\ Bytes[n] \in Nat
      BY <1>1, <3>1, Sized
    <3> QED
      BY <1>1, <3>1, <3>2 DEF Received
  <2> HIDE DEF total
  <2>3. /\ pr \in Progress /\ pr.total = total /\ pr.transferred = Received(n)
        /\ pr.percent_milestone = progress[p].percent_milestone
        /\ pr.byte_milestone = progress[p].byte_milestone
    <3>1. progress[p] \in Progress
      BY <1>1
    <3>2. pr = [progress[p] EXCEPT !.total = total, !.transferred = Received(n)]
      BY DEF Counts, total, Received
    <3> HIDE DEF pr
    <3> QED
      BY <2>2, <3>1, <3>2, Zenon DEF Progress
  <2> HIDE DEF pr
  <2>4. elapsed_ms \in Nat
    OBVIOUS
  <2>5. r.progress \in Progress /\ r.progress.transferred = Received(n)
    BY <1>1, <2>3, <2>4, CallbackResult
  <2>6. ~log[p].tty =>
          NewMilestone(pr, r,
            log_progress_percent_milestone(download_progress_percent(pr.transferred, pr.total)),
            log_progress_byte_milestone(pr.transferred, ByteInterval))
    BY <1>1, <2>3, <2>4, CallbackMilestone, Zenon
  <2>7. IF r.emit THEN Record(p, r.progress, FALSE) ELSE UNCHANGED <<shown, lines>>
    BY <2>1, Zenon DEF pr, display
  <2>8. progress'[p] = r.progress /\ known'[p] = known[p]
    <3>1. progress' = [progress EXCEPT ![p] = r.progress]
      BY <2>1, Zenon DEF pr
    <3> HIDE DEF r
    <3> QED
      BY <1>1, <3>1 DEF Delivers
  <2> HIDE DEF r
  <2>9. CASE ~r.emit
    <3>1. ~log[p].tty => LastMilestone(p)' = LastMilestone(p)
      <4>1. ~log[p].tty => r.progress = pr
        BY <2>6, <2>9, Zenon DEF NewMilestone
      <4>2. ~log[p].tty => /\ progress'[p].percent_milestone = progress[p].percent_milestone
                           /\ progress'[p].byte_milestone = progress[p].byte_milestone
        BY <2>3, <2>8, <4>1, ZenonT(60)
      <4> QED
        BY <2>8, <4>2, Zenon DEF LastMilestone
    <3> QED
      BY <1>1, <1>3, <2>5, <2>7, <2>8, <2>9, <3>1, PrintedSame, Zenon
  <2>10. CASE r.emit
    <3>1. /\ shown' = [shown EXCEPT ![p] = [bytes |-> r.progress.transferred, final |-> FALSE]]
          /\ lines' = [lines EXCEPT ![p] = IF log[p].tty THEN 0 ELSE @ + 1]
      BY <2>7, <2>10, Zenon DEF Record
    <3>2. /\ ~shown'[p].final
          /\ \A q \in Procs \ {p} : shown'[q] = shown[q]
      BY <1>1, <2>2, <2>5, <3>1
    <3>3. /\ ~log[p].tty => lines'[p] = lines[p] + 1
          /\ \A q \in Procs \ {p} : lines'[q] = lines[q]
      BY <1>1, <3>1
    <3>4. ASSUME ~log[p].tty, NEW passed, Printed(p, passed)
          PROVE  \E more : Printed(p, more)'
      <4> DEFINE m == At(known[p], body[p], n)
      <4>1. n # 0 /\ n \in 1..Sizes[body[p]]
        BY <2>2, <2>3, <2>6, <2>10, <3>4 DEF NewMilestone, Received
      <4>2. Received(n) = Bytes[n]
        BY <4>1, Zenon DEF Received
      <4>3. /\ m # LastMilestone(p) /\ LastMilestone(p)' = m
            /\ IF known[p] THEN ~(m < 0) /\ Bytes[n] < Bytes[Sizes[body[p]]] ELSE m # 0
        <5>1. CASE known[p]
          <6>1. total > 0 /\ total = Bytes[Sizes[body[p]]]
            BY <2>2, <5>1, Zenon DEF total
          <6>2. m = log_progress_percent_milestone(
                      download_progress_percent(pr.transferred, pr.total))
            BY <2>3, <4>2, <5>1, <6>1, ZenonT(60) DEF At
          <6> HIDE DEF m
          <6>3. /\ pr.transferred < pr.total /\ ~(m < 0) /\ m # pr.percent_milestone
                /\ r.progress = [pr EXCEPT !.percent_milestone = m]
            BY <2>3, <2>6, <2>10, <3>4, <6>1, <6>2, Zenon DEF NewMilestone
          <6>4. r.progress.percent_milestone = m
            BY <2>3, <6>3 DEF Progress
          <6> QED
            BY <2>3, <2>8, <4>2, <5>1, <6>1, <6>3, <6>4, ZenonT(60) DEF LastMilestone
        <5>2. CASE ~known[p]
          <6>1. ~(total > 0)
            BY <2>2, <5>2
          <6>2. m = log_progress_byte_milestone(pr.transferred, ByteInterval)
            BY <2>3, <4>2, <5>2, Zenon DEF At
          <6> HIDE DEF m
          <6>3. /\ m # 0 /\ m # pr.byte_milestone
                /\ r.progress = [pr EXCEPT !.byte_milestone = m]
            BY <2>3, <2>6, <2>10, <3>4, <6>1, <6>2, Zenon DEF NewMilestone
          <6>4. r.progress.byte_milestone = m
            BY <2>3, <6>3, Zenon DEF Progress
          <6> QED
            BY <2>3, <2>8, <5>2, <6>3, <6>4, Zenon DEF LastMilestone
        <5> QED
          BY <5>1, <5>2, Zenon
      <4>4. /\ m \in Int /\ (known[p] => m < 100)
            /\ \A k \in 1..n : At(known[p], body[p], k) \in Int /\ At(known[p], body[p], k) <= m
        <5>1. Sizes[body[p]] \in Nat
          BY <1>1, Sized
        <5>2. \A k \in 1..n : k \in 1..Sizes[body[p]] /\ k <= n
          BY <4>1, <5>1
        <5> QED
          BY <1>1, <4>1, <4>3, <5>2, MilestonesUp
      <4>5. m \in Milestones(p)'
        <5>1. m \notin NoMilestone(known[p])
          BY <4>3, <4>4 DEF NoMilestone
        <5>2. n \in 1..n
          BY <4>1
        <5> QED
          BY <1>2, <5>1, <5>2 DEF Passed
      <4>6. \A e \in Milestones(p) : e \in Int /\ e <= m
        <5>1. \A e \in Milestones(p)' : \E k \in 1..n : e = At(known[p], body[p], k)
          BY <1>2 DEF Passed
        <5> QED
          BY <1>3, <4>4, <5>1, Zenon
      <4>7. lines'[p] = lines[p] + 1
        BY <3>3, <3>4
      <4>8. PICK x \in Int : x = m
        BY <4>4
      <4> HIDE DEF m
      <4>9. /\ x \in Milestones(p)' /\ x # LastMilestone(p) /\ LastMilestone(p)' = x
            /\ \A e \in Milestones(p) : e \in Int /\ e <= x
        BY <4>3, <4>5, <4>6, <4>8, Zenon
      <4>10. PICK more \in {passed \cup {x}} : TRUE
        BY Zenon
      <4>11. Printed(p, more)'
        BY <1>3, <3>4, <4>7, <4>9, <4>10, PrintedMore, Zenon
      <4> QED
        BY <4>11
    <3> QED
      BY <2>5, <2>8, <3>2, <3>3, <3>4
  <2> QED
    BY <2>9, <2>10
<1> QED
  BY <1>4, <1>5

-----------------------------------------------------------------------------
(* The invariant of the lines *)

\* The final line of p's last call.
LastLine(p) ==
  IF rc[p] = "ok"
  THEN progress_enabled[p] /\ got[p] > 0 => shown[p] = [bytes |-> Bytes[got[p]], final |-> TRUE]
  ELSE ~shown[p].final

\* The final line comes last, and then progress knows of all that was received.
ShownOK(p) ==
  /\ pc[p] # "idle" => ~shown[p].final
  /\ pc[p] \in {"flush", "rename"} /\ progress_enabled[p] =>
       progress[p].transferred = Received(got[p])
  /\ pc[p] = "idle" => LastLine(p)

Quiet(p) == lines[p] <= Cardinality(Milestones(p)) + (IF shown[p].final THEN 1 ELSE 0)

\* Every line before the final one is for a milestone of its own.
LinesOK(p) ==
  ~log[p].tty =>
    /\ pc[p] = "open" => lines[p] = 0
    /\ Downloading(p) => (body[p] = 0 => lines[p] = 0) /\ \E passed : Printed(p, passed)
    /\ pc[p] = "idle" => Quiet(p)

HistoryInv == \A p \in Procs : ShownOK(p) /\ LinesOK(p)

\* Before the final line there are no more lines than milestones.
LEMMA EndsQuiet ==
  ASSUME ScreenInv, NEW p \in Procs, LinesOK(p), pc[p] # "idle", ~log[p].tty
  PROVE  Cardinality(Milestones(p)) \in Nat /\ lines[p] <= Cardinality(Milestones(p))
<1>1. got \in [Procs -> Nat] /\ pc[p] \in {"open", "perform", "flush", "rename"}
  BY DEF ScreenInv, CountsOK
<1>2. got[p] \in Nat
  BY <1>1
<1>3. IsFiniteSet(Milestones(p)) /\ Cardinality(Milestones(p)) \in Nat
  BY <1>2, PassedFinite, Zenon DEF Milestones
<1>4. CASE pc[p] = "open"
  BY <1>3, <1>4 DEF LinesOK
<1>5. CASE Downloading(p)
  <2>1. PICK passed : Printed(p, passed)
    BY <1>5, Zenon DEF LinesOK
  <2>2. passed \subseteq Milestones(p) /\ lines[p] = Cardinality(passed)
    BY <2>1, Zenon DEF Printed
  <2>3. Cardinality(passed) <= Cardinality(Milestones(p))
    BY <1>3, <2>2, FS_Subset
  <2> QED
    BY <1>3, <2>2, <2>3
<1> QED
  BY <1>1, <1>4, <1>5 DEF Downloading

\* Without a line printed none is owed to a milestone.
LEMMA NothingPrinted ==
  ASSUME NEW p \in Procs, lines'[p] = 0
  PROVE  \E passed : Printed(p, passed)'
<1>1. Printed(p, {})'
  BY FS_EmptySet DEF Printed
<1> QED
  BY <1>1

\* A step leaves a process alone.
Aside(q) ==
  /\ pc'[q] = pc[q] /\ rc'[q] = rc[q] /\ progress_enabled'[q] = progress_enabled[q]
  /\ progress'[q] = progress[q] /\ body'[q] = body[q] /\ known'[q] = known[q]
  /\ got'[q] = got[q] /\ shown'[q] = shown[q] /\ lines'[q] = lines[q]
  /\ log'[q].tty = log[q].tty

\* Its part of the invariant is left alone as well.
LEMMA AsideHistory ==
  ASSUME NEW q \in Procs, Aside(q), ShownOK(q), LinesOK(q)
  PROVE  ShownOK(q)' /\ LinesOK(q)'
<1>1. ShownOK(q)'
  BY DEF Aside, ShownOK, LastLine
<1>2. Milestones(q)' = Milestones(q) /\ LastMilestone(q)' = LastMilestone(q)
  BY Zenon DEF Aside, Milestones, LastMilestone
<1>3. Quiet(q)' <=> Quiet(q)
  BY <1>2, Zenon DEF Aside, Quiet
<1>4. \A passed : Printed(q, passed) => Printed(q, passed)'
  BY <1>2, PrintedSame, Zenon DEF Aside
<1>5. Downloading(q)' <=> Downloading(q)
  BY DEF Aside, Downloading
<1> QED
  BY <1>1, <1>3, <1>4, <1>5, Zenon DEF LinesOK, Aside

\* A step of one process needs to be looked at for that process only.
LEMMA OneHistory ==
  ASSUME HistoryInv, NEW p \in Procs, ShownOK(p)', LinesOK(p)',
         \A q \in Procs \ {p} : Aside(q)
  PROVE  HistoryInv'
BY AsideHistory, Zenon DEF HistoryInv

SameTtys == \A q \in Procs : log'[q].tty = log[q].tty

\* The milestones passed can be counted.
LEMMA MilestonesCount ==
  ASSUME ScreenInv, NEW p \in Procs
  PROVE  Cardinality(Milestones(p)) \in Nat
<1>1. got[p] \in Nat
  BY DEF ScreenInv, CountsOK
<1> QED
  BY <1>1, PassedFinite, Zenon DEF Milestones

\* The call ends without success.
LEMMA EndHistory ==
  ASSUME ScreenInv, HistoryTypes, HistoryInv, NEW p \in Procs, NEW code \in {"killed", "error"},
         pc[p] # "idle", Return(p, code), UNCHANGED <<local, shown, lines>>, SameTtys
  PROVE  HistoryInv'
<1>1. /\ pc' = [pc EXCEPT ![p] = "idle"] /\ rc' = [rc EXCEPT ![p] = code]
      /\ UNCHANGED <<progress_enabled, progress, body, known, got, shown, lines>>
  BY DEF Return, local
<1>2. /\ pc \in [Procs -> {"idle", "open", "perform", "flush", "rename"}]
      /\ rc \in [Procs -> {"none", "killed", "error", "ok"}]
  BY DEF ScreenInv, CountsOK, HistoryTypes
<1>3. \A q \in Procs \ {p} : Aside(q)
  BY <1>1, <1>2, Zenon DEF Aside, SameTtys
<1>4. ShownOK(p) /\ LinesOK(p) /\ ~shown[p].final
  BY DEF HistoryInv, ShownOK
<1>5. pc'[p] = "idle" /\ rc'[p] = code
  BY <1>1, <1>2, Zenon
<1>6. ShownOK(p)'
  BY <1>1, <1>4, <1>5, Zenon DEF ShownOK, LastLine
<1>7. LinesOK(p)'
  <2>1. Milestones(p)' = Milestones(p)
    BY <1>1, Zenon DEF Milestones
  <2>2. ~log[p].tty => Quiet(p)
    BY <1>4, EndsQuiet DEF Quiet
  <2>3. Quiet(p)' <=> Quiet(p)
    BY <1>1, <2>1, Zenon DEF Quiet
  <2>4. log'[p].tty = log[p].tty
    BY Zenon DEF SameTtys
  <2> QED
    BY <1>5, <2>2, <2>3, <2>4 DEF LinesOK, Downloading
<1> QED
  BY <1>3, <1>6, <1>7, OneHistory, Zenon

\* libcurl calls back, with n chunks received, and goes on or is done.
LEMMA CallHistory ==
  ASSUME ScreenInv, HistoryTypes, HistoryInv, NEW p \in Procs, NEW n \in Nat,
         pc[p] = "perform", Delivers(p, n), Callback(p, n), NEW label \in {"perform", "flush"},
         pc' = [pc EXCEPT ![p] = label], SameTtys
  PROVE  HistoryInv'
<1>1. /\ pc \in [Procs -> {"idle", "open", "perform", "flush", "rename"}]
      /\ got \in [Procs -> Nat] /\ ShownOK(p) /\ LinesOK(p) /\ Downloading(p)
  BY DEF ScreenInv, CountsOK, HistoryInv, Downloading
<1>2. /\ got'[p] = n /\ \A q \in Procs \ {p} : got'[q] = got[q]
      /\ body[p] # 0 /\ UNCHANGED <<rc, progress_enabled, body, known>>
  BY <1>1, Zenon DEF Delivers
<1>3. \A q \in Procs \ {p} : progress'[q] = progress[q]
  <2>1. body[p] # 0 /\ n <= Sizes[body[p]] /\ got[p] <= n
    BY Zenon DEF Delivers
  <2> QED
    BY <1>1, <2>1, CallbackScreen, Zenon
<1>4. /\ progress_enabled[p] => progress'[p].transferred = Received(n)
      /\ \A q \in Procs \ {p} : shown'[q] = shown[q] /\ lines'[q] = lines[q]
      /\ shown'[p].final => shown[p].final
      /\ ~log[p].tty /\ (\E passed : Printed(p, passed)) => \E passed : Printed(p, passed)'
  BY <1>1, CallbackHistory, Zenon
<1>5. \A q \in Procs \ {p} : Aside(q)
  BY <1>1, <1>2, <1>3, <1>4, Zenon DEF Aside, SameTtys
<1>6. pc'[p] = label /\ progress_enabled'[p] = progress_enabled[p] /\ body'[p] = body[p]
  BY <1>1, <1>2, Zenon
<1>7. ShownOK(p)'
  BY <1>1, <1>2, <1>4, <1>6 DEF ShownOK, Received
<1>8. LinesOK(p)'
  <2>1. ~log[p].tty => \E passed : Printed(p, passed)'
    BY <1>1, <1>4, Zenon DEF LinesOK
  <2>2. log'[p].tty = log[p].tty
    BY Zenon DEF SameTtys
  <2>3. pc'[p] # "open" /\ pc'[p] # "idle" /\ body'[p] # 0
    BY <1>2, <1>6
  <2> QED
    BY <2>1, <2>2, <2>3, Zenon DEF LinesOK
<1> QED
  BY <1>5, <1>7, <1>8, OneHistory, Zenon

\* The call succeeds, and the final line is printed if there is anything to show.
Succeeds(p) ==
  /\ Return(p, "ok") /\ UNCHANGED local
  /\ IF progress_enabled[p] /\ progress[p].transferred > 0
     THEN Record(p, progress[p], TRUE) ELSE UNCHANGED <<shown, lines>>

\* Then the final line shows everything.
LEMMA RenameHistory ==
  ASSUME ScreenInv, HistoryTypes, HistoryInv, NEW p \in Procs, pc[p] = "rename", Succeeds(p),
         SameTtys
  PROVE  HistoryInv'
<1>1. /\ pc' = [pc EXCEPT ![p] = "idle"] /\ rc' = [rc EXCEPT ![p] = "ok"]
      /\ UNCHANGED <<progress_enabled, progress, body, known, got>>
  BY DEF Succeeds, Return, local
<1>2. /\ pc \in [Procs -> {"idle", "open", "perform", "flush", "rename"}]
      /\ rc \in [Procs -> {"none", "killed", "error", "ok"}]
      /\ progress \in [Procs -> Progress] /\ got \in [Procs -> Nat]
      /\ shown \in [Procs -> [bytes : Nat, final : BOOLEAN]] /\ lines \in [Procs -> Nat]
  BY DEF ScreenInv, CountsOK, HistoryTypes
<1>3. progress[p] \in Progress /\ progress[p].transferred \in Nat
  BY <1>2, Zenon DEF Progress
<1>4. /\ ShownOK(p) /\ LinesOK(p) /\ ~shown[p].final
      /\ progress_enabled[p] => progress[p].transferred = Received(got[p])
  BY DEF HistoryInv, ShownOK
<1>5. pc'[p] = "idle" /\ rc'[p] = "ok"
  BY <1>1, <1>2, Zenon
<1>6. got[p] > 0 => Received(got[p]) = Bytes[got[p]] /\ Received(got[p]) > 0
  <2>1. body[p] \in Versions \cup {0} /\ got[p] <= Total(p)
    BY DEF ScreenInv, CountsOK
  <2>2. got[p] > 0 => body[p] \in Versions /\ got[p] <= Sizes[body[p]]
    BY <1>2, <2>1 DEF Total
  <2>3. got[p] > 0 => Bytes[got[p]] > 0
    BY <1>2, <2>2, Sized
  <2> QED
    BY <1>2, <2>3 DEF Received
<1>7. Milestones(p)' = Milestones(p) /\ Cardinality(Milestones(p)) \in Nat
  BY <1>1, MilestonesCount, Zenon DEF Milestones
<1>8. ~log[p].tty => lines[p] <= Cardinality(Milestones(p))
  BY <1>4, EndsQuiet, Zenon
<1>9. CASE progress_enabled[p] /\ progress[p].transferred > 0
  <2> DEFINE line == [bytes |-> progress[p].transferred, final |-> TRUE]
             more == IF log[p].tty THEN 0 ELSE lines[p] + 1
  <2>1. shown' = [shown EXCEPT ![p] = line] /\ lines' = [lines EXCEPT ![p] = more]
    BY <1>9 DEF Succeeds, Record
  <2>2. line.final /\ (got[p] > 0 => line = [bytes |-> Bytes[got[p]], final |-> TRUE])
    BY <1>4, <1>6, <1>9, Zenon
  <2>3. ~log[p].tty => more <= Cardinality(Milestones(p)) + 1
    BY <1>2, <1>7, <1>8
  <2> HIDE DEF line, more
  <2>4. shown'[p] = line /\ lines'[p] = more
    BY <1>2, <2>1, Zenon
  <2>5. \A q \in Procs \ {p} : Aside(q)
    BY <1>1, <1>2, <2>1, Zenon DEF Aside, SameTtys
  <2>6. ShownOK(p)'
    <3>1. LastLine(p)'
      BY <1>1, <1>5, <2>2, <2>4, Zenon DEF LastLine
    <3> QED
      BY <1>5, <3>1, Zenon DEF ShownOK
  <2>7. LinesOK(p)'
    <3>1. ~log[p].tty => Quiet(p)'
      BY <1>7, <2>2, <2>3, <2>4, Zenon DEF Quiet
    <3> QED
      BY <1>5, <3>1, Zenon DEF LinesOK, Downloading, SameTtys
  <2> QED
    BY <2>5, <2>6, <2>7, OneHistory, Zenon
<1>10. CASE ~(progress_enabled[p] /\ progress[p].transferred > 0)
  <2>1. UNCHANGED <<shown, lines>>
    BY <1>10, Zenon DEF Succeeds
  <2>2. \A q \in Procs \ {p} : Aside(q)
    BY <1>1, <1>2, <2>1, Zenon DEF Aside, SameTtys
  <2>3. ShownOK(p)'
    <3>1. progress_enabled[p] => ~(got[p] > 0)
      BY <1>3, <1>4, <1>6, <1>10, Zenon
    <3>2. LastLine(p)'
      BY <1>1, <1>5, <3>1, Zenon DEF LastLine
    <3> QED
      BY <1>5, <3>2 DEF ShownOK
  <2>4. LinesOK(p)'
    <3>1. lines'[p] = lines[p] /\ shown'[p] = shown[p] /\ ~shown'[p].final
      BY <1>4, <2>1, Zenon
    <3>2. ~log[p].tty => Quiet(p)'
      BY <1>2, <1>7, <1>8, <3>1 DEF Quiet
    <3> QED
      BY <1>5, <3>2 DEF LinesOK, Downloading, SameTtys
  <2> QED
    BY <2>2, <2>3, <2>4, OneHistory
<1> QED
  BY <1>9, <1>10, Zenon

\* Initially nothing was printed.
LEMMA InitHistory == Init => HistoryInv
<1> SUFFICES ASSUME Init PROVE HistoryInv
  OBVIOUS
<1>1. ~NoLine.final
  BY Zenon DEF NoLine
<1>2. ASSUME NEW p \in Procs
      PROVE  ShownOK(p) /\ LinesOK(p)
  <2>1. pc[p] = "idle" /\ rc[p] = "none" /\ shown[p] = NoLine /\ lines[p] = 0 /\ got[p] = 0
    BY Zenon DEF Init
  <2>2. ShownOK(p)
    BY <1>1, <2>1, Zenon DEF ShownOK, LastLine
  <2>3. Milestones(p) = {}
    BY <2>1 DEF Milestones, Passed
  <2>4. Quiet(p)
    BY <1>1, <2>1, <2>3, FS_EmptySet DEF Quiet
  <2> QED
    BY <2>1, <2>2, <2>4, Zenon DEF LinesOK, Downloading
<1> QED
  BY <1>2 DEF HistoryInv

\* Every step keeps the invariant of the lines.
LEMMA NextHistory == ScreenInv /\ HistoryTypes /\ HistoryInv /\ [Next]_vars => HistoryInv'
<1> SUFFICES ASSUME ScreenInv, HistoryTypes, HistoryInv, [Next]_vars PROVE HistoryInv'
  OBVIOUS
<1>1. SameTtys
  BY TtyKept DEF SameTtys
<1>2. /\ pc \in [Procs -> {"idle", "open", "perform", "flush", "rename"}]
      /\ rc \in [Procs -> {"none", "killed", "error", "ok"}]
      /\ progress_enabled \in [Procs -> BOOLEAN] /\ progress \in [Procs -> Progress]
      /\ server \in Versions /\ body \in [Procs -> Versions \cup {0}]
      /\ known \in [Procs -> BOOLEAN] /\ got \in [Procs -> Nat]
      /\ shown \in [Procs -> [bytes : Nat, final : BOOLEAN]] /\ lines \in [Procs -> Nat]
  BY DEF ScreenInv, CountsOK, HistoryTypes
<1>3. ASSUME NEW p \in Procs, Fails(p), pc[p] # "idle"
      PROVE  HistoryInv'
  BY <1>1, <1>3, EndHistory, Zenon DEF Fails
<1>4. ASSUME NEW p \in Procs, fopen(p)
      PROVE  HistoryInv'
  <2>1. /\ pc' = [pc EXCEPT ![p] = "perform"] /\ pc[p] = "open"
        /\ progress' = [progress EXCEPT ![p] = download_progress_init]
        /\ body' = [body EXCEPT ![p] = 0] /\ got' = [got EXCEPT ![p] = 0]
        /\ UNCHANGED <<rc, progress_enabled, known, shown, lines>>
    BY <1>4, Zenon DEF fopen, Opened, Goto, display
  <2>2. \A q \in Procs \ {p} : Aside(q)
    BY <1>1, <1>2, <2>1, Zenon DEF Aside, SameTtys
  <2>3. ShownOK(p) /\ LinesOK(p) /\ pc'[p] = "perform"
    BY <1>2, <2>1, Zenon DEF HistoryInv
  <2>4. ShownOK(p)'
    BY <2>1, <2>3, Zenon DEF ShownOK
  <2>5. ~log[p].tty => lines'[p] = 0 /\ \E passed : Printed(p, passed)'
    BY <2>1, <2>3, NothingPrinted DEF LinesOK
  <2>6. LinesOK(p)'
    BY <1>1, <2>3, <2>5, Zenon DEF LinesOK, SameTtys
  <2> QED
    BY <2>2, <2>4, <2>6, OneHistory, Zenon
<1>5. ASSUME NEW p \in Procs, flush(p)
      PROVE  HistoryInv'
  <2>1. CASE Fails(p)
    BY <1>3, <1>5, <2>1, Zenon DEF flush
  <2>2. CASE ~Fails(p)
    <3>1. /\ pc' = [pc EXCEPT ![p] = "rename"] /\ pc[p] = "flush"
          /\ UNCHANGED <<rc, progress_enabled, progress, body, known, got, shown, lines>>
      BY <1>5, <2>2, Zenon DEF flush, Goto, display
    <3>2. \A q \in Procs \ {p} : Aside(q)
      BY <1>1, <1>2, <3>1, Zenon DEF Aside, SameTtys
    <3>3. ShownOK(p) /\ LinesOK(p) /\ pc'[p] = "rename" /\ Downloading(p)
      BY <1>2, <3>1, Zenon DEF HistoryInv, Downloading
    <3>4. ShownOK(p)'
      BY <3>1, <3>3 DEF ShownOK
    <3>5. Milestones(p)' = Milestones(p) /\ LastMilestone(p)' = LastMilestone(p)
      BY <3>1, Zenon DEF Milestones, LastMilestone
    <3>6. \A passed : Printed(p, passed) => Printed(p, passed)'
      BY <3>1, <3>5, PrintedSame, Zenon
    <3>7. ~log[p].tty => /\ body'[p] = 0 => lines'[p] = 0
                         /\ \E passed : Printed(p, passed)'
      BY <3>1, <3>3, <3>6, Zenon DEF LinesOK
    <3>8. LinesOK(p)'
      BY <1>1, <3>3, <3>7, Zenon DEF LinesOK, SameTtys
    <3> QED
      BY <3>2, <3>4, <3>8, OneHistory
  <2> QED
    BY <2>1, <2>2, Zenon
<1>6. ASSUME NEW p \in Procs, rename(p)
      PROVE  HistoryInv'
  <2>1. CASE Fails(p)
    BY <1>3, <1>6, <2>1, Zenon DEF rename
  <2>2. CASE ~Fails(p)
    <3>1. pc[p] = "rename" /\ Succeeds(p)
      BY <1>6, <2>2, Zenon DEF rename, display, Succeeds
    <3> QED
      BY <1>1, <3>1, RenameHistory
  <2> QED
    BY <2>1, <2>2
<1>7. ASSUME NEW p \in Procs, Respond(p)
      PROVE  HistoryInv'
  <2>1. PICK length \in BOOLEAN : known' = [known EXCEPT ![p] = length]
    BY <1>7, Zenon DEF Respond
  <2>2. /\ pc[p] = "perform" /\ body[p] = 0 /\ body' = [body EXCEPT ![p] = server]
        /\ UNCHANGED <<pc, rc, progress_enabled, progress, got, shown, lines>>
    BY <1>7, Zenon DEF Respond, display
  <2>3. \A q \in Procs \ {p} : Aside(q)
    BY <1>1, <1>2, <2>1, <2>2, Zenon DEF Aside, SameTtys
  <2>4. ShownOK(p) /\ LinesOK(p) /\ Downloading(p)
    BY <2>2, Zenon DEF HistoryInv, Downloading
  <2>5. ShownOK(p)'
    BY <2>2, <2>4, Zenon DEF ShownOK
  <2>6. ~log[p].tty => lines'[p] = 0 /\ \E passed : Printed(p, passed)'
    BY <2>2, <2>4, NothingPrinted, Zenon DEF LinesOK
  <2>7. pc'[p] = "perform"
    BY <2>2
  <2>8. LinesOK(p)'
    BY <1>1, <2>6, <2>7, Zenon DEF LinesOK, SameTtys
  <2> QED
    BY <2>3, <2>5, <2>8, OneHistory, Zenon
<1>8. ASSUME NEW p \in Procs, file_write_callback(p)
      PROVE  HistoryInv'
  <2> DEFINE n == got[p] + 1
  <2>1. /\ pc[p] = "perform" /\ body[p] # 0 /\ got[p] < Sizes[body[p]]
        /\ got' = [got EXCEPT ![p] = n] /\ Callback(p, got'[p])
        /\ UNCHANGED <<pc, rc, progress_enabled, body, known>>
    BY <1>8, Zenon DEF file_write_callback
  <2>2. got'[p] = n /\ n \in Nat /\ got[p] <= n
    BY <1>2, <2>1
  <2>3. n <= Sizes[body[p]]
    BY <1>2, <2>1, Sized
  <2>4. pc' = [pc EXCEPT ![p] = "perform"]
    BY <1>2, <2>1, Zenon
  <2> HIDE DEF n
  <2>5. Callback(p, n) /\ Delivers(p, n)
    BY <2>1, <2>2, <2>3, Zenon DEF Delivers
  <2> QED
    BY <1>1, <2>1, <2>2, <2>4, <2>5, CallHistory, Zenon
<1>9. ASSUME NEW p \in Procs, Waiting(p) \/ Complete(p)
      PROVE  HistoryInv'
  <2> DEFINE n == got[p]
  <2>1. /\ pc[p] = "perform" /\ body[p] # 0 /\ Callback(p, n)
        /\ UNCHANGED <<rc, progress_enabled, body, known, got>>
        /\ pc' = pc \/ pc' = [pc EXCEPT ![p] = "flush"]
    BY <1>9 DEF Waiting, Complete, Goto
  <2>2. PICK label \in {"perform", "flush"} : pc' = [pc EXCEPT ![p] = label]
    BY <1>2, <2>1, Zenon
  <2>3. got' = [got EXCEPT ![p] = n] /\ n \in Nat /\ got[p] <= n
    BY <1>2, <2>1
  <2>4. n <= Sizes[body[p]]
    BY <2>1 DEF ScreenInv, CountsOK, Total
  <2> HIDE DEF n
  <2>5. Delivers(p, n)
    BY <2>1, <2>3, <2>4, ZenonT(60) DEF Delivers
  <2> QED
    BY <1>1, <2>1, <2>2, <2>3, <2>5, CallHistory, Zenon
<1>10. ASSUME NEW p \in Procs, curl_fails(p) \/ curl_times_out(p)
       PROVE  HistoryInv'
  BY <1>3, <1>10 DEF curl_fails, curl_times_out
<1>11. ASSUME NEW p \in Procs, Kill(p)
       PROVE  HistoryInv'
  BY <1>1, <1>11, EndHistory DEF Kill
<1>12. ASSUME NEW p \in Procs, NEW show_progress, fetch_file(p, show_progress)
       PROVE  HistoryInv'
  <2>1. /\ shown' = [shown EXCEPT ![p] = NoLine] /\ lines' = [lines EXCEPT ![p] = 0]
        /\ UNCHANGED <<progress, body, known, got>>
        /\ \A q \in Procs \ {p} : progress_enabled'[q] = progress_enabled[q]
    BY <1>2, <1>12, Zenon DEF fetch_file
  <2>2. PICK label \in {"open", "idle"}, code \in {rc[p], "error"} :
          /\ pc' = [pc EXCEPT ![p] = label] /\ rc' = [rc EXCEPT ![p] = code]
          /\ label = "idle" => code = "error"
    <3>1. rc = [rc EXCEPT ![p] = rc[p]]
      BY <1>2
    <3> QED
      BY <1>12, <3>1 DEF fetch_file, Goto, Return
  <2>3. ~NoLine.final
    BY Zenon DEF NoLine
  <2>4. \A q \in Procs \ {p} : Aside(q)
    BY <1>1, <1>2, <2>1, <2>2, Zenon DEF Aside, SameTtys
  <2>5. /\ pc'[p] = label /\ rc'[p] = code /\ shown'[p] = NoLine /\ lines'[p] = 0
    BY <1>2, <2>1, <2>2, Zenon
  <2>6. ShownOK(p)'
    BY <2>2, <2>3, <2>5 DEF ShownOK, LastLine
  <2>7. Milestones(p)' = Milestones(p) /\ Cardinality(Milestones(p)) \in Nat
    BY <2>1, MilestonesCount, ZenonT(60) DEF Milestones
  <2>8. Quiet(p)'
    BY <2>3, <2>5, <2>7 DEF Quiet
  <2>9. LinesOK(p)'
    BY <2>2, <2>5, <2>8, Zenon DEF LinesOK, Downloading
  <2> QED
    BY <2>4, <2>6, <2>9, OneHistory, Zenon
<1>13. ASSUME \/ \E p \in Procs, level \in LOG_LEVEL_ERROR..LOG_LEVEL_DEBUG : Say(p, level)
              \/ Upload \/ UNCHANGED vars
       PROVE  HistoryInv'
  <2>1. UNCHANGED <<pc, rc, progress_enabled, progress, body, known, got, shown, lines>>
    BY <1>13, Zenon DEF Say, Upload, vars, local, display
  <2>2. \A q \in Procs : Aside(q)
    BY <1>1, <2>1 DEF Aside, SameTtys
  <2> QED
    BY <2>2, AsideHistory DEF HistoryInv
<1> QED
  BY <1>4, <1>5, <1>6, <1>7, <1>8, <1>9, <1>10, <1>11, <1>12, <1>13, Zenon
     DEF Next, Step, Curl

\* It holds in every reachable state.
LEMMA Histories == Spec => []HistoryInv
BY Screens, HistoryTypesHold, InitHistory, NextHistory, PTL DEF Spec

\* Whatever the sizes of the chunks, the interval of the byte milestones and the number
\* of callbacks, a log that is not a terminal has at most one line per milestone passed
\* and the final one (Milestone, download_progress_callback and finish).
THEOREM LogIsQuiet == Spec => []QuietLog
<1>1. ScreenInv /\ HistoryInv => QuietLog
  <2> SUFFICES ASSUME ScreenInv, HistoryInv, NEW p \in Procs, ~log[p].tty
               PROVE  Quiet(p)
    BY DEF QuietLog, Quiet
  <2>1. ShownOK(p) /\ LinesOK(p)
    BY Zenon DEF HistoryInv
  <2>2. CASE pc[p] = "idle"
    BY <2>1, <2>2, Zenon DEF LinesOK
  <2>3. CASE pc[p] # "idle"
    BY <2>1, <2>3, EndsQuiet DEF ShownOK, Quiet
  <2> QED
    BY <2>2, <2>3, Zenon
<1> QED
  BY <1>1, Screens, Histories, PTL

\* In every execution a call of fetch_file that succeeds ends with a line that shows all
\* that was received, and one that fails or is killed has no final line.
THEOREM LastLineIsTotal == Spec => []LastLineShowsAll
<1>1. HistoryInv => LastLineShowsAll
  BY Zenon DEF HistoryInv, ShownOK, LastLine, LastLineShowsAll
<1> QED
  BY <1>1, Histories, PTL
=============================================================================
