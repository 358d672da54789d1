----------------------------- MODULE MainProofs -----------------------------
(***************************************************************************)
(* For every file, of any length: the parser ends up with what the lines   *)
(* say (ConfigSaysFile), reports the first bad line (FirstBadLine), and a  *)
(* command runs exactly if the file is acceptable (RunsIfAcceptable), with *)
(* the log file that the file names (LogFileSpansRun).                     *)
(*                                                                         *)
(* The properties speak of the lines alone, by looking back from each of   *)
(* them; the parser keeps a section, a name and an error as it goes.  The  *)
(* invariant says what these hold after any line.                          *)
(***************************************************************************)
EXTENDS Main, LogProofs

-----------------------------------------------------------------------------
(* What looking back gives when a line is added *)

\* text and the line that ini_parse_stream reads next.
Reads(line) == line \in Lines /\ text \in Seq(Lines) /\ text' = Append(text, line)

\* The lines read before stay as they are.
LEMMA Appended ==
  ASSUME NEW line, Reads(line)
  PROVE  /\ Len(text) \in Nat /\ Len(text') = Len(text) + 1
         /\ DOMAIN text = 1..Len(text) /\ DOMAIN text' = 1..(Len(text) + 1)
         /\ \A i \in 1..Len(text) : text'[i] = text[i]
         /\ text'[Len(text) + 1] = line
         /\ text' \in Seq(Lines)
BY DEF Reads

\* Whether line i stands below a setting is decided by the lines before it.
LEMMA BelowKept ==
  ASSUME NEW line, Reads(line), NEW i \in 1..(Len(text) + 1)
  PROVE  Below(i)' <=> Below(i)
<1>1. \A j \in 1..(i - 1) : j \in 1..Len(text) /\ text'[j] = text[j]
  BY Appended
<1>2. \A j \in 1..(i - 1) : \A k \in (j + 1)..(i - 1) : k \in 1..(i - 1)
  BY Appended
<1>3. Below(i)' <=>
        \E j \in 1..(i - 1) :
          Setting(text'[j]) /\ \A k \in (j + 1)..(i - 1) : text'[k].indent \/ ~Heading(text'[k])
  BY DEF Below, Setting, Heading
<1> QED
  BY <1>1, <1>2, <1>3 DEF Below

\* So are what line i continues, starts, and whether it is bad.
LEMMA LineKept ==
  ASSUME NEW line, Reads(line), NEW i \in 1..Len(text)
  PROVE  /\ Continues(i)' <=> Continues(i)
         /\ \A kind : Starts(i, kind)' <=> Starts(i, kind)
         /\ Given(i)' = Given(i)
         /\ Bad(i)' <=> Bad(i)
<1>1. i \in 1..(Len(text) + 1) /\ text'[i] = text[i]
  BY Appended
<1>2. Continues(i)' <=> Continues(i)
  BY <1>1, BelowKept DEF Continues, Skipped
<1> QED
  BY <1>1, <1>2 DEF Starts, Given, Bad

\* And what is in force at line i.
LEMMA UnderKept ==
  ASSUME NEW line, Reads(line), NEW i \in 1..(Len(text) + 1), NEW kind, NEW name
  PROVE  Under(i, kind, name)' <=> Under(i, kind, name)
<1>1. \A j \in 1..(i - 1) : /\ j \in 1..Len(text) /\ text'[j] = text[j]
                            /\ Starts(j, kind)' <=> Starts(j, kind)
  BY Appended, LineKept
<1>2. \A j \in 1..(i - 1) : \A k \in (j + 1)..(i - 1) : k \in 1..(i - 1)
  BY Appended
<1> QED
  BY <1>1, <1>2 DEF Under

\* A line that was read sets what it set.
LEMMA SetsKept ==
  ASSUME NEW line, Reads(line), NEW i \in 1..Len(text), NEW k
  PROVE  Sets(i, k)' <=> Sets(i, k)
<1>1. i \in 1..(Len(text) + 1) /\ text'[i] = text[i]
  BY Appended
<1> QED
  BY <1>1, LineKept, UnderKept DEF Sets

\* Below the new line.
LEMMA BelowStep ==
  ASSUME NEW line, Reads(line), NEW n \in Nat, n = Len(text) + 1, NEW m \in Nat, m = n + 1
  PROVE  Below(m)' <=> Setting(line) \/ (Below(n) /\ (line.indent \/ ~Heading(line)))
<1>1. text'[n] = line /\ \A j \in 1..(n - 1) : text'[j] = text[j]
  BY Appended
<1>2. \A j : j \in 1..(m - 1) <=> j \in 1..(n - 1) \/ j = n
  BY Appended
<1>3. \A j \in 1..(n - 1) :
        /\ n \in (j + 1)..(m - 1)
        /\ \A k \in (j + 1)..(m - 1) : k \in (j + 1)..(n - 1) \/ k = n
        /\ \A k \in (j + 1)..(n - 1) : k \in (j + 1)..(m - 1) /\ k \in 1..(n - 1)
  BY Appended
<1>4. \A k : k \notin (n + 1)..(m - 1)
  BY Appended
<1>5. Below(m)' <=>
        \E j \in 1..(m - 1) :
          Setting(text'[j]) /\ \A k \in (j + 1)..(m - 1) : text'[k].indent \/ ~Heading(text'[k])
  BY DEF Below, Setting, Heading
<1>6. ASSUME Below(m)'
      PROVE  Setting(line) \/ (Below(n) /\ (line.indent \/ ~Heading(line)))
  <2>1. PICK j \in 1..(m - 1) :
          Setting(text'[j]) /\ \A k \in (j + 1)..(m - 1) : text'[k].indent \/ ~Heading(text'[k])
    BY <1>5, <1>6
  <2>2. CASE j = n
    BY <1>1, <2>1, <2>2
  <2>3. CASE j \in 1..(n - 1)
    <3>1. Setting(text[j]) /\ (line.indent \/ ~Heading(line))
      BY <1>1, <1>3, <2>1, <2>3
    <3>2. \A k \in (j + 1)..(n - 1) : text[k].indent \/ ~Heading(text[k])
      BY <1>1, <1>3, <2>1, <2>3
    <3> QED
      BY <2>3, <3>1, <3>2 DEF Below
  <2> QED
    BY <1>2, <2>2, <2>3
<1>7. ASSUME Setting(line)
      PROVE  Below(m)'
  BY <1>1, <1>2, <1>4, <1>5, <1>7
<1>8. ASSUME Below(n), line.indent \/ ~Heading(line)
      PROVE  Below(m)'
  <2>1. PICK j \in 1..(n - 1) :
          Setting(text[j]) /\ \A k \in (j + 1)..(n - 1) : text[k].indent \/ ~Heading(text[k])
    BY <1>8 DEF Below
  <2>2. j \in 1..(m - 1) /\ Setting(text'[j])
    BY <1>1, <1>2, <2>1
  <2>3. \A k \in (j + 1)..(m - 1) : text'[k].indent \/ ~Heading(text'[k])
    BY <1>1, <1>3, <1>8, <2>1
  <2> QED
    BY <1>5, <2>2, <2>3
<1> QED
  BY <1>6, <1>7, <1>8

\* In force below the new line.
LEMMA UnderStep ==
  ASSUME NEW line, Reads(line), NEW n \in Nat, n = Len(text) + 1, NEW m \in Nat, m = n + 1,
         NEW kind, NEW name
  PROVE  Under(m, kind, name)' <=>
           IF Starts(n, kind)' THEN name = line.name ELSE Under(n, kind, name)
<1>1. /\ text'[n] = line
      /\ \A j \in 1..(n - 1) : text'[j] = text[j] /\ (Starts(j, kind)' <=> Starts(j, kind))
  BY Appended, LineKept
<1>2. \A j : j \in 1..(m - 1) <=> j \in 1..(n - 1) \/ j = n
  BY Appended
<1>3. \A j \in 1..(n - 1) :
        /\ n \in (j + 1)..(m - 1)
        /\ \A k \in (j + 1)..(m - 1) : k \in (j + 1)..(n - 1) \/ k = n
        /\ \A k \in (j + 1)..(n - 1) : k \in (j + 1)..(m - 1) /\ k \in 1..(n - 1)
  BY Appended
<1>4. \A k : k \notin (n + 1)..(m - 1)
  BY Appended
<1>5. Under(m, kind, name)' <=>
        \/ \E j \in 1..(m - 1) :
             /\ Starts(j, kind)' /\ text'[j].name = name
             /\ \A k \in (j + 1)..(m - 1) : ~Starts(k, kind)'
        \/ name = "" /\ \A j \in 1..(m - 1) : ~Starts(j, kind)'
  BY DEF Under
<1>6. CASE Starts(n, kind)'
  <2>1. \A j \in 1..(n - 1) : n \in (j + 1)..(m - 1)
    BY <1>3
  <2> QED
    BY <1>1, <1>2, <1>4, <1>5, <1>6, <2>1
<1>7. CASE ~Starts(n, kind)'
  <2>1. (\A j \in 1..(m - 1) : ~Starts(j, kind)') <=> (\A j \in 1..(n - 1) : ~Starts(j, kind))
    BY <1>1, <1>2, <1>7
  <2>2. \A j \in 1..(n - 1) : (\A k \in (j + 1)..(m - 1) : ~Starts(k, kind)')
                             <=> (\A k \in (j + 1)..(n - 1) : ~Starts(k, kind))
    BY <1>1, <1>3, <1>7
  <2>3. Under(m, kind, name)' <=>
        \/ \E j \in 1..(n - 1) :
             /\ Starts(j, kind) /\ text[j].name = name
             /\ \A k \in (j + 1)..(n - 1) : ~Starts(k, kind)
        \/ name = "" /\ \A j \in 1..(n - 1) : ~Starts(j, kind)
    BY <1>1, <1>2, <1>5, <1>7, <2>1, <2>2
  <2> QED
    BY <1>7, <2>3 DEF Under
<1> QED
  BY <1>6, <1>7

\* At most one name is in force.
LEMMA UnderUnique ==
  ASSUME NEW i \in Nat, NEW kind, NEW a, NEW b, Under(i, kind, a), Under(i, kind, b)
  PROVE  a = b
<1>1. CASE \A j \in 1..(i - 1) : ~Starts(j, kind)
  BY <1>1 DEF Under
<1>2. CASE \E j \in 1..(i - 1) : Starts(j, kind)
  <2>1. PICK j \in 1..(i - 1) : /\ Starts(j, kind) /\ text[j].name = a
                               /\ \A k \in (j + 1)..(i - 1) : ~Starts(k, kind)
    BY <1>2 DEF Under
  <2>2. PICK k \in 1..(i - 1) : /\ Starts(k, kind) /\ text[k].name = b
                               /\ \A l \in (k + 1)..(i - 1) : ~Starts(l, kind)
    BY <1>2 DEF Under
  <2>3. j = k
    BY <2>1, <2>2
  <2> QED
    BY <2>1, <2>2, <2>3
<1> QED
  BY <1>1, <1>2
\* A setting has one last line.
LEMMA LastUnique ==
  ASSUME NEW k, text \in Seq(Lines), NEW i \in DOMAIN text, NEW j \in DOMAIN text,
         SetLast(i, k), SetLast(j, k)
  PROVE  i = j
<1>1. Len(text) \in Nat /\ i \in 1..Len(text) /\ j \in 1..Len(text)
  OBVIOUS
<1>2. i \notin (j + 1)..Len(text) /\ j \notin (i + 1)..Len(text)
  BY DEF SetLast
<1> QED
  BY <1>1, <1>2

\* The last line for a setting, when a line is added.
LEMMA LastStep ==
  ASSUME NEW line, Reads(line), NEW n \in Nat, n = Len(text) + 1, NEW k
  PROVE  /\ Sets(n, k)' => SetLast(n, k)'
         /\ ~Sets(n, k)' => /\ \A i \in DOMAIN text : SetLast(i, k) => SetLast(i, k)'
                            /\ (\A i \in DOMAIN text : ~Sets(i, k))
                                => (\A i \in DOMAIN text' : ~Sets(i, k)')
<1>1. Len(text') = n /\ DOMAIN text' = 1..n /\ DOMAIN text = 1..(n - 1) /\ Len(text) = n - 1
  BY Appended
<1>2. \A i \in 1..(n - 1) : Sets(i, k)' <=> Sets(i, k)
  BY <1>1, SetsKept
<1>3. \A i : SetLast(i, k)' <=> Sets(i, k)' /\ \A j \in (i + 1)..n : ~Sets(j, k)'
  BY <1>1 DEF SetLast
<1>4. ASSUME Sets(n, k)'
      PROVE  SetLast(n, k)'
  BY <1>3, <1>4
<1>5. ASSUME ~Sets(n, k)', NEW i \in 1..(n - 1), SetLast(i, k)
      PROVE  SetLast(i, k)'
  <2>1. \A j \in (i + 1)..n : j = n \/ (j \in (i + 1)..(n - 1) /\ j \in 1..(n - 1))
    OBVIOUS
  <2> QED
    BY <1>1, <1>2, <1>3, <1>5, <2>1 DEF SetLast
<1>6. \A i \in 1..n : i = n \/ i \in 1..(n - 1)
  OBVIOUS
<1> QED
  BY <1>1, <1>2, <1>4, <1>5, <1>6

-----------------------------------------------------------------------------
(* The invariant *)

\* What the parser knows when line n is next.
AtLine(n) ==
  /\ prev_name # "" <=> Below(n)
  /\ Under(n, "section", section)
  /\ prev_name # "" => Under(n, "pair", prev_name)

ErrorIsFirst ==
  \/ error = 0 /\ \A i \in DOMAIN text : ~Bad(i)
  \/ \E e \in DOMAIN text : error = e /\ Bad(e) /\ \A i \in 1..(e - 1) : ~Bad(i)

ParserInv ==
  /\ text \in Seq(Lines) /\ lineno = Len(text)
  /\ \A n \in Nat : n = Len(text) + 1 => AtLine(n)
  /\ ErrorIsFirst
  /\ reading \in {"no", "yes"} => SaysFile

\* A step that gives the settings of the new line their values keeps the rest.
LEMMA SaysStep ==
  ASSUME NEW line, Reads(line), NEW n \in Nat, n = Len(text) + 1, SaysFile,
         \A k \in StringSettings :
           strings'[k] = IF Sets(n, k)' THEN Given(n)' ELSE strings[k],
         \A k \in NumberSettings :
           numbers'[k] = IF Sets(n, k)' THEN atoi[Given(n)'] ELSE numbers[k]
  PROVE  SaysFile'
<1>1. n \in DOMAIN text' /\ \A i \in DOMAIN text : i \in DOMAIN text' /\ Given(i)' = Given(i)
  BY Appended, LineKept
<1>2. ASSUME NEW k \in StringSettings
      PROVE  \/ \E i \in DOMAIN text' : SetLast(i, k)' /\ strings'[k] = Given(i)'
             \/ strings'[k] = NULL /\ \A i \in DOMAIN text' : ~Sets(i, k)'
  <2>1. CASE Sets(n, k)'
    BY <1>1, <2>1, LastStep
  <2>2. CASE ~Sets(n, k)'
    <3>1. strings'[k] = strings[k]
      BY <2>2
    <3>2. CASE \E i \in DOMAIN text : SetLast(i, k) /\ strings[k] = Given(i)
      BY <1>1, <2>2, <3>1, <3>2, LastStep
    <3>3. CASE strings[k] = NULL /\ \A i \in DOMAIN text : ~Sets(i, k)
      BY <2>2, <3>1, <3>3, LastStep
    <3> QED
      BY <3>2, <3>3 DEF SaysFile
  <2> QED
    BY <2>1, <2>2
<1>3. ASSUME NEW k \in NumberSettings
      PROVE  \/ \E i \in DOMAIN text' : SetLast(i, k)' /\ numbers'[k] = atoi[Given(i)']
             \/ numbers'[k] = 0 /\ \A i \in DOMAIN text' : ~Sets(i, k)'
  <2>1. CASE Sets(n, k)'
    BY <1>1, <2>1, LastStep
  <2>2. CASE ~Sets(n, k)'
    <3>1. numbers'[k] = numbers[k]
      BY <2>2
    <3>2. CASE \E i \in DOMAIN text : SetLast(i, k) /\ numbers[k] = atoi[Given(i)]
      BY <1>1, <2>2, <3>1, <3>2, LastStep
    <3>3. CASE numbers[k] = 0 /\ \A i \in DOMAIN text : ~Sets(i, k)
      BY <2>2, <3>1, <3>3, LastStep
    <3> QED
      BY <3>2, <3>3 DEF SaysFile
  <2> QED
    BY <2>1, <2>2
<1> QED
  BY <1>2, <1>3 DEF SaysFile
\* A setting is a section and a name.
LEMMA SettingPair ==
  ASSUME NEW k \in StringSettings \cup NumberSettings
  PROVE  k = <<k[1], k[2]>>
BY DEF StringSettings, NumberSettings

\* One turn of the parser's loop, with its invariant before.
LineStep(line, n, m) ==
  /\ ParserInv /\ Reads(line) /\ ini_parse_line(line)
  /\ n \in Nat /\ m \in Nat /\ n = Len(text) + 1 /\ m = n + 1

\* The parser takes the new line for what it is.
LEMMA NewLine ==
  ASSUME NEW line, NEW n, NEW m, LineStep(line, n, m)
  PROVE  /\ Continues(n)' <=> Continued(line)
         /\ \A kind : Starts(n, kind)' <=> line.kind = kind /\ ~Continued(line)
         /\ Given(n)' = IF Continued(line) THEN line.whole ELSE line.value
         /\ \A name : Under(n, "section", name)' <=> name = section
         /\ Continued(line) => \A name : Under(n, "pair", name)' <=> name = prev_name
<1>1. n \in 1..(Len(text) + 1) /\ text'[n] = line /\ AtLine(n)
  BY Appended DEF LineStep, ParserInv
<1>2. Continues(n)' <=> Continued(line)
  BY <1>1, BelowKept DEF LineStep, AtLine, Continues, Continued, Skipped
<1>3. Reads(line) /\ n \in Nat
  BY DEF LineStep
<1>4. \A kind, name : Under(n, kind, name)' <=> Under(n, kind, name)
  BY <1>1, <1>3, UnderKept
<1>5. \A name : Under(n, "section", name)' <=> name = section
  BY <1>1, <1>3, <1>4, UnderUnique DEF AtLine
<1>6. Continued(line) => \A name : Under(n, "pair", name)' <=> name = prev_name
  BY <1>1, <1>3, <1>4, UnderUnique DEF AtLine, Continued
<1> QED
  BY <1>1, <1>2, <1>5, <1>6 DEF Starts, Given

\* The five kinds of lines.
LEMMA LineCases ==
  ASSUME NEW line, NEW n, NEW m, LineStep(line, n, m)
  PROVE  ini_skip(line) \/ ini_continue(line) \/ ini_section(line) \/ ini_pair(line)
         \/ ini_reject(line)
BY DEF LineStep, ini_parse_line

\* section and prev_name are right again.
LEMMA AtLineStep ==
  ASSUME NEW line, NEW n, NEW m, LineStep(line, n, m)
  PROVE  AtLine(m)'
<1>1. /\ Below(m)' <=> Setting(line) \/ (Below(n) /\ (line.indent \/ ~Heading(line)))
      /\ AtLine(n)
  BY BelowStep DEF LineStep, ParserInv
<1>2. \A kind, name : Under(m, kind, name)' <=>
         IF line.kind = kind /\ ~Continued(line) THEN name = line.name ELSE Under(n, kind, name)
  <2> TAKE kind, name
  <2>1. Starts(n, kind)' <=> line.kind = kind /\ ~Continued(line)
    BY NewLine
  <2>2. Under(m, kind, name)' <=>
          IF Starts(n, kind)' THEN name = line.name ELSE Under(n, kind, name)
    BY UnderStep DEF LineStep
  <2> QED
    BY <2>1, <2>2
<1>3. AtLine(m)' <=> /\ prev_name' # "" <=> Below(m)'
                     /\ Under(m, "section", section)'
                     /\ prev_name' # "" => Under(m, "pair", prev_name)'
  BY DEF AtLine
<1>4. CASE ini_skip(line)
  BY <1>1, <1>2, <1>3, <1>4 DEF ini_skip, Skipped, Setting, Heading, AtLine, Continued
<1>5. CASE ini_continue(line)
  BY <1>1, <1>2, <1>3, <1>5 DEF ini_continue, Skipped, Setting, Heading, AtLine, Continued
<1>6. CASE ini_section(line)
  BY <1>1, <1>2, <1>3, <1>6 DEF ini_section, Skipped, Setting, Heading, AtLine, Continued
<1>7. CASE ini_pair(line)
  BY <1>1, <1>2, <1>3, <1>7 DEF ini_pair, Skipped, Setting, Heading, AtLine, Continued
<1>8. CASE ini_reject(line)
  BY <1>1, <1>2, <1>3, <1>8 DEF ini_reject, Skipped, Setting, Heading, AtLine, Continued
<1> QED
  BY <1>4, <1>5, <1>6, <1>7, <1>8, LineCases

\* error is right again.
LEMMA ErrorStep ==
  ASSUME NEW line, NEW n, NEW m, LineStep(line, n, m)
  PROVE  ErrorIsFirst'
<1>1. /\ n \in Nat /\ n >= 1 /\ DOMAIN text' = 1..n /\ DOMAIN text = 1..(n - 1) /\ text'[n] = line
      /\ \A i \in 1..(n - 1) : Bad(i)' <=> Bad(i)
  BY Appended, LineKept DEF LineStep
<1>2. Bad(n)' <=> line.size = "cut" \/ (~Continued(line) /\ line.kind \in {"badsection", "junk"})
  BY <1>1, NewLine DEF Bad
<1>3. error' = IF Bad(n)' /\ error = 0 THEN n ELSE error
  BY <1>2 DEF LineStep, ParserInv, ini_parse_line, FirstError
<1>4. ErrorIsFirst' <=>
        \/ error' = 0 /\ \A i \in 1..n : ~Bad(i)'
        \/ \E e \in 1..n : error' = e /\ Bad(e)' /\ \A i \in 1..(e - 1) : ~Bad(i)'
  BY <1>1 DEF ErrorIsFirst
<1>5. \A i \in 1..n : i = n \/ i \in 1..(n - 1)
  BY <1>1
<1>6. CASE error = 0
  <2>1. \A i \in 1..(n - 1) : ~Bad(i)'
    BY <1>1, <1>6 DEF LineStep, ParserInv, ErrorIsFirst
  <2>2. CASE Bad(n)'
    BY <1>1, <1>3, <1>4, <1>6, <2>1, <2>2
  <2>3. CASE ~Bad(n)'
    BY <1>3, <1>4, <1>5, <1>6, <2>1, <2>3
  <2> QED
    BY <2>2, <2>3
<1>7. CASE error # 0
  <2>1. PICK e \in 1..(n - 1) : error = e /\ Bad(e) /\ \A i \in 1..(e - 1) : ~Bad(i)
    BY <1>1, <1>7 DEF LineStep, ParserInv, ErrorIsFirst
  <2>2. e \in 1..n /\ error' = e /\ Bad(e)'
    BY <1>1, <1>3, <1>7, <2>1
  <2>3. \A i \in 1..(e - 1) : ~Bad(i)'
    BY <1>1, <2>1
  <2> QED
    BY <1>4, <2>2, <2>3
<1> QED
  BY <1>6, <1>7

\* The settings are right again.
LEMMA SettingsStep ==
  ASSUME NEW line, NEW n, NEW m, LineStep(line, n, m), reading = "yes"
  PROVE  SaysFile'
<1>1. \A k : Sets(n, k)' <=>
        /\ k[1] = section
        /\ \/ line.kind = "pair" /\ ~Continued(line) /\ line.name = k[2]
           \/ Continued(line) /\ k[2] = prev_name
  <2>1. text'[n] = line
    BY Appended DEF LineStep
  <2> QED
    BY <2>1, NewLine DEF Sets
<1>2. Given(n)' = IF Continued(line) THEN line.whole ELSE line.value
  BY NewLine
<1>3. SaysFile /\ Reads(line) /\ n \in Nat /\ n = Len(text) + 1
  BY DEF LineStep, ParserInv
<1>4. ASSUME NEW name, NEW value, config_handler(section, name, value), Given(n)' = value,
             \A k : Sets(n, k)' <=> k[1] = section /\ k[2] = name
      PROVE  SaysFile'
  <2>1. \A k \in StringSettings \cup NumberSettings : Sets(n, k)' <=> k = <<section, name>>
    BY <1>4, SettingPair
  <2>2. \A k \in StringSettings :
          strings'[k] = IF Sets(n, k)' THEN Given(n)' ELSE strings[k]
    BY <1>4, <2>1 DEF config_handler
  <2>3. \A k \in NumberSettings :
          numbers'[k] = IF Sets(n, k)' THEN atoi[Given(n)'] ELSE numbers[k]
    BY <1>4, <2>1 DEF config_handler
  <2> QED
    BY <1>3, <2>2, <2>3, SaysStep
<1>5. ASSUME UNCHANGED config, \A k : ~Sets(n, k)'
      PROVE  SaysFile'
  BY <1>3, <1>5, SaysStep DEF config
<1>6. CASE ini_skip(line)
  BY <1>1, <1>5, <1>6 DEF ini_skip, Skipped, Continued
<1>7. CASE ini_continue(line)
  BY <1>1, <1>2, <1>4, <1>7 DEF ini_continue
<1>8. CASE ini_section(line)
  BY <1>1, <1>5, <1>8 DEF ini_section
<1>9. CASE ini_pair(line)
  BY <1>1, <1>2, <1>4, <1>9 DEF ini_pair
<1>10. CASE ini_reject(line)
  BY <1>1, <1>5, <1>10 DEF ini_reject
<1> QED
  BY <1>6, <1>7, <1>8, <1>9, <1>10, LineCases
-----------------------------------------------------------------------------
(* Loading *)

\* The result of config_load fits the file.
Outcome ==
  /\ config_rc \in Int
  /\ config_rc = 0 => error = 0 /\ SaysFile /\ Acceptable
  /\ config_rc > 0 => config_rc = error
  /\ config_rc # 0 => ~Acceptable

\* Where main is.
Inv ==
  /\ ParserInv
  /\ reading = "no" => text = <<>> /\ error = 0
  /\ reading = "done" => Outcome
  /\ pc \in {"args", "config"} => reading \in {"no", "yes"} /\ parse_rc = 0 /\ result = NotRun
  /\ pc = "run" => reading = "done" /\ config_rc = 0 /\ parse_rc = 0 /\ result = NotRun
  /\ pc = "exit" /\ reading = "done" => config_rc # 0
  /\ result # NotRun => parse_rc = 0 /\ Acceptable

\* A line keeps the parser's invariant.
LEMMA ParserKept ==
  ASSUME ParserInv, reading = "yes", NEW line \in Lines, ini_parse_line(line)
  PROVE  ParserInv'
<1>1. PICK n \in Nat : n = Len(text) + 1
  BY DEF ParserInv
<1>2. PICK m \in Nat : m = n + 1
  OBVIOUS
<1>3. Reads(line)
  BY DEF Reads, ParserInv, ini_parse_line
<1>4. LineStep(line, n, m)
  BY <1>1, <1>2, <1>3 DEF LineStep
<1>5. text' \in Seq(Lines) /\ Len(text') = n /\ lineno' = Len(text')
  BY <1>1, <1>3, Appended DEF ParserInv, ini_parse_line
<1>6. ASSUME NEW i \in Nat, i = Len(text') + 1
      PROVE  AtLine(i)'
  <2>1. i = m
    BY <1>2, <1>5, <1>6
  <2> QED
    BY <1>4, <2>1, AtLineStep
<1>7. ErrorIsFirst' /\ SaysFile'
  BY <1>4, ErrorStep, SettingsStep
<1> QED
  BY <1>5, <1>6, <1>7 DEF ParserInv

\* A setting has a value if and only if its last line gives it one.
LEMMA ValueGiven ==
  ASSUME text \in Seq(Lines), SaysFile, NEW k \in StringSettings
  PROVE  (\E i \in DOMAIN text : SetLast(i, k) /\ Given(i) # "")
         <=> validate_required_string(strings[k])
<1>1. CASE strings[k] = NULL /\ \A i \in DOMAIN text : ~Sets(i, k)
  BY <1>1 DEF SetLast, validate_required_string
<1>2. CASE \E i \in DOMAIN text : SetLast(i, k) /\ strings[k] = Given(i)
  <2>1. PICK i \in DOMAIN text : SetLast(i, k) /\ strings[k] = Given(i)
    BY <1>2
  <2>2. Given(i) # NULL
    <3>1. text[i] \in Lines
      OBVIOUS
    <3>2. text[i].value \in Texts /\ text[i].whole \in Texts
      BY <3>1, ConfigInputs
    <3> QED
      BY <3>2, ConfigInputs DEF Given
  <2> QED
    BY <2>1, <2>2, LastUnique DEF validate_required_string
<1> QED
  BY <1>1, <1>2 DEF SaysFile

\* At the end of the file the required settings have values if and only if the lines
\* give them.
LEMMA CompleteMeansAcceptable ==
  ASSUME text \in Seq(Lines), SaysFile, ErrorIsFirst, error = 0
  PROVE  Acceptable <=> \A k \in Required : validate_required_string(strings[k])
<1>1. \A i \in DOMAIN text : ~Bad(i)
  <2>1. \A i \in DOMAIN text : i # 0
    OBVIOUS
  <2> QED
    BY <2>1 DEF ErrorIsFirst
<1>2. Required \subseteq StringSettings
  BY DEF Required, StringSettings
<1>3. \A k \in Required : (\E i \in DOMAIN text : SetLast(i, k) /\ Given(i) # "")
                             <=> validate_required_string(strings[k])
  BY <1>2, ValueGiven
<1> QED
  BY <1>1, <1>3 DEF Acceptable

\* What the lines mean changes with the lines only.
LEMMA SameText ==
  ASSUME text' = text
  PROVE  /\ Acceptable' <=> Acceptable
         /\ UNCHANGED <<lineno, error, section, prev_name>> =>
              /\ ErrorIsFirst' <=> ErrorIsFirst
              /\ \A n : AtLine(n)' <=> AtLine(n)
         /\ UNCHANGED <<strings, numbers>> => (SaysFile' <=> SaysFile)
<1>1. \A i : Below(i)' <=> Below(i)
  BY DEF Below
<1>2. \A i : Continues(i)' <=> Continues(i)
  BY <1>1 DEF Continues
<1>3. \A i, kind : Starts(i, kind)' <=> Starts(i, kind)
  BY <1>2 DEF Starts
<1>4. \A i : (Bad(i)' <=> Bad(i)) /\ Given(i)' = Given(i)
  BY <1>2, <1>3 DEF Bad, Given
<1>5. \A i, kind, name : Under(i, kind, name)' <=> Under(i, kind, name)
  BY <1>3 DEF Under
<1>6. \A i, k : Sets(i, k)' <=> Sets(i, k)
  BY <1>2, <1>3, <1>5 DEF Sets
<1>7. \A i, k : SetLast(i, k)' <=> SetLast(i, k)
  BY <1>6 DEF SetLast
<1>8. Acceptable' <=> Acceptable
  BY <1>4, <1>7 DEF Acceptable
<1>9. UNCHANGED error => (ErrorIsFirst' <=> ErrorIsFirst)
  BY <1>4 DEF ErrorIsFirst
<1>10. UNCHANGED <<section, prev_name>> => \A n : AtLine(n)' <=> AtLine(n)
  BY <1>1, <1>5 DEF AtLine
<1>11. UNCHANGED <<strings, numbers>> => (SaysFile' <=> SaysFile)
  BY <1>4, <1>6, <1>7 DEF SaysFile
<1> QED
  BY <1>8, <1>9, <1>10, <1>11

\* A bad line makes a file unacceptable.
LEMMA ErrorMeansBad ==
  ASSUME text \in Seq(Lines), ErrorIsFirst
  PROVE  error \in Nat /\ (error # 0 => ~Acceptable)
<1>1. DOMAIN text = 1..Len(text) /\ Len(text) \in Nat
  OBVIOUS
<1>2. CASE error = 0
  BY <1>2
<1>3. CASE error # 0
  <2>1. PICK e \in DOMAIN text : error = e /\ Bad(e)
    BY <1>3 DEF ErrorIsFirst
  <2>2. e \in Nat
    BY <1>1
  <2> QED
    BY <2>1, <2>2 DEF Acceptable
<1> QED
  BY <1>2, <1>3

\* config_load's result fits the file.
LEMMA LoadOutcome ==
  ASSUME ParserInv, reading = "yes", config_load
  PROVE  ParserInv' /\ reading' = "done" /\ Outcome'
<1>1. /\ UNCHANGED <<text, section, prev_name, lineno, error>> /\ reading' = "done"
      /\ config_rc' = IF error # 0 THEN error
                      ELSE IF \E k \in Required : ~validate_required_string(strings[k]) THEN -1
                      ELSE 0
      /\ config_rc' = 0 => UNCHANGED <<strings, numbers>>
  BY DEF config_load, parser, config
<1>2. text \in Seq(Lines) /\ lineno = Len(text) /\ ErrorIsFirst /\ SaysFile
      /\ \A n \in Nat : n = Len(text) + 1 => AtLine(n)
  BY DEF ParserInv
<1>3. /\ ErrorIsFirst' <=> ErrorIsFirst
      /\ Acceptable' <=> Acceptable
      /\ \A n : AtLine(n)' <=> AtLine(n)
      /\ config_rc' = 0 => (SaysFile' <=> SaysFile)
  BY <1>1, SameText
<1>4. ParserInv'
  BY <1>1, <1>2, <1>3 DEF ParserInv
<1>5. error \in Nat /\ (error # 0 => ~Acceptable)
  BY <1>2, ErrorMeansBad
<1>6. error = 0 => (Acceptable <=> \A k \in Required : validate_required_string(strings[k]))
  BY <1>2, CompleteMeansAcceptable
<1>7. Outcome'
  BY <1>1, <1>2, <1>3, <1>5, <1>6 DEF Outcome
<1> QED
  BY <1>1, <1>4, <1>7

\* A file that cannot be opened counts as one without lines.
LEMMA OpenOutcome ==
  ASSUME ParserInv, reading = "no", text = <<>>, error = 0, NEW opens \in BOOLEAN,
         ini_open(opens)
  PROVE  /\ ParserInv' /\ text' = text /\ error' = error
         /\ reading' = "yes" \/ (reading' = "done" /\ config_rc' = -1 /\ Outcome')
<1>1. UNCHANGED <<text, section, prev_name, lineno, error>>
  BY DEF ini_open, parser
<1>2. /\ ErrorIsFirst' <=> ErrorIsFirst
      /\ Acceptable' <=> Acceptable
      /\ \A n : AtLine(n)' <=> AtLine(n)
      /\ UNCHANGED <<strings, numbers>> => (SaysFile' <=> SaysFile)
  BY <1>1, SameText
<1>3. CASE opens
  BY <1>1, <1>2, <1>3 DEF ini_open, ParserInv, config
<1>4. CASE ~opens
  <2>1. ~Acceptable
    <3>1. <<"network", "server_url">> \in Required
      BY DEF Required
    <3>2. DOMAIN text = {}
      OBVIOUS
    <3> QED
      BY <3>1, <3>2 DEF Acceptable
  <2>2. reading' = "done" /\ config_rc' = -1
    BY <1>4 DEF ini_open
  <2>3. ParserInv'
    BY <1>1, <1>2, <2>2 DEF ParserInv
  <2>4. Outcome'
    BY <1>2, <2>1, <2>2 DEF Outcome
  <2> QED
    BY <1>1, <2>2, <2>3, <2>4
<1> QED
  BY <1>3, <1>4
-----------------------------------------------------------------------------
(* main *)

\* Steps of main outside config_load.
LEMMA SameConfig ==
  ASSUME UNCHANGED configVars
  PROVE  /\ ParserInv' <=> ParserInv
         /\ Outcome' <=> Outcome
         /\ Acceptable' <=> Acceptable
<1>1. UNCHANGED <<reading, text, section, prev_name, lineno, error, strings, numbers, config_rc>>
  BY DEF configVars, parser, config
<1>2. /\ ErrorIsFirst' <=> ErrorIsFirst
      /\ Acceptable' <=> Acceptable
      /\ \A n : AtLine(n)' <=> AtLine(n)
      /\ SaysFile' <=> SaysFile
  BY <1>1, SameText
<1> QED
  BY <1>1, <1>2 DEF ParserInv, Outcome

\* Nothing is read and nothing is set.
LEMMA InitInv == Init => Inv
<1> SUFFICES ASSUME Init PROVE Inv
  OBVIOUS
<1>1. /\ reading = "no" /\ section = "" /\ prev_name = "" /\ lineno = 0 /\ error = 0
      /\ strings = Unset /\ numbers = Zero /\ text = <<>>
  BY DEF Init, ConfigInit
<1>2. /\ text \in Seq(Lines)
      /\ Len(text) = 0
      /\ \A i \in DOMAIN text : FALSE
  <2>1. <<>> \in Seq(Lines) /\ Len(<<>>) = 0 /\ DOMAIN <<>> = {}
    OBVIOUS
  <2>2. text = <<>>
    BY <1>1
  <2> QED
    BY <2>1, <2>2
<1>3. AtLine(1)
  <2>1. \A j : j \notin 1..(1 - 1)
    OBVIOUS
  <2>2. ~Below(1)
    BY <2>1 DEF Below
  <2>3. Under(1, "section", "")
    BY <2>1 DEF Under
  <2> QED
    BY <1>1, <2>2, <2>3 DEF AtLine
<1>4. ErrorIsFirst
  BY <1>1, <1>2 DEF ErrorIsFirst
<1>5. SaysFile
  BY <1>1, <1>2 DEF SaysFile, Unset, Zero
<1>6. \A n \in Nat : n = Len(text) + 1 => AtLine(n)
  BY <1>2, <1>3
<1>7. ParserInv
  BY <1>1, <1>2, <1>4, <1>5, <1>6 DEF ParserInv
<1> QED
  BY <1>1, <1>7 DEF Inv, Init

\* config_load goes on, or returns.
LEMMA LoadStep ==
  ASSUME Inv, main_load
  PROVE  Inv'
<1>1. /\ ParserInv /\ pc = "config" /\ reading \in {"no", "yes"} /\ parse_rc = 0 /\ result = NotRun
      /\ reading = "no" => text = <<>> /\ error = 0
  BY DEF Inv, main_load
<1>2. parse_rc' = 0 /\ result' = NotRun
  BY <1>1 DEF main_load
<1>3. ASSUME ParserInv', reading' = "yes", UNCHANGED pc
      PROVE  Inv'
  BY <1>1, <1>2, <1>3 DEF Inv
<1>4. ASSUME ParserInv', reading' = "done", Outcome'
      PROVE  Inv'
  <2>1. IF config_rc' # 0 THEN pc' = "exit" ELSE pc' = "run"
    BY <1>4 DEF main_load, main_config
  <2> QED
    BY <1>2, <1>4, <2>1 DEF Inv
<1>5. reading' # "done" => UNCHANGED pc
  BY DEF main_load
<1>6. CASE \E opens \in BOOLEAN : ini_open(opens)
  <2>1. reading = "no"
    BY <1>6 DEF ini_open
  <2> QED
    BY <1>1, <1>3, <1>4, <1>5, <1>6, <2>1, OpenOutcome
<1>7. CASE \E line \in Lines : ini_parse_line(line)
  <2>1. reading = "yes" /\ reading' = "yes"
    BY <1>7 DEF ini_parse_line
  <2> QED
    BY <1>1, <1>3, <1>5, <1>7, <2>1, ParserKept
<1>8. CASE config_load
  <2>1. reading = "yes"
    BY <1>8 DEF config_load
  <2> QED
    BY <1>1, <1>4, <1>8, <2>1, LoadOutcome
<1> QED
  BY <1>6, <1>7, <1>8 DEF main_load

\* After the command nothing of the configuration is used.
LEMMA RunStep ==
  ASSUME Inv, NEW returned, main_run(returned)
  PROVE  Inv'
<1>1. /\ UNCHANGED <<section, prev_name, lineno, error, text, parse_rc>>
      /\ reading' = "freed" /\ pc' = "exit"
  BY DEF main_run, parser
<1>2. ParserInv /\ parse_rc = 0 /\ Acceptable
  BY DEF Inv, main_run, Outcome
<1>3. /\ ErrorIsFirst' <=> ErrorIsFirst
      /\ Acceptable' <=> Acceptable
      /\ \A n : AtLine(n)' <=> AtLine(n)
  BY <1>1, SameText
<1>4. ParserInv'
  BY <1>1, <1>2, <1>3 DEF ParserInv
<1> QED
  BY <1>1, <1>2, <1>3, <1>4 DEF Inv

\* Every step of main, of config_load and of ini_parse_stream keeps it.
LEMMA NextInv == Inv /\ [Next]_vars => Inv'
<1> SUFFICES ASSUME Inv, [Next]_vars PROVE Inv'
  OBVIOUS
<1>1. ASSUME NEW opt, parse_fetch_args(opt) \/ parse_enroll_args(opt)
      PROVE  Inv'
  <2>1. /\ UNCHANGED configVars /\ UNCHANGED result /\ pc = "args"
        /\ pc' = "exit" \/ (pc' = pc /\ parse_rc' = parse_rc)
    BY <1>1 DEF parse_fetch_args, parse_enroll_args, Option, Usage
  <2>2. UNCHANGED <<reading, text, error, config_rc>>
    BY <2>1 DEF configVars, parser
  <2> QED
    BY <2>1, <2>2, SameConfig DEF Inv
<1>2. CASE main_args_done
  <2>1. UNCHANGED configVars /\ UNCHANGED <<result, parse_rc>> /\ pc = "args" /\ pc' = "config"
    BY <1>2 DEF main_args_done
  <2>2. UNCHANGED <<reading, text, error, config_rc>>
    BY <2>1 DEF configVars, parser
  <2> QED
    BY <2>1, <2>2, SameConfig DEF Inv
<1>3. CASE UNCHANGED vars
  <2>1. UNCHANGED configVars /\ UNCHANGED <<result, parse_rc, pc>>
    BY <1>3 DEF vars, mainVars
  <2>2. UNCHANGED <<reading, text, error, config_rc>>
    BY <2>1 DEF configVars, parser
  <2> QED
    BY <2>1, <2>2, SameConfig DEF Inv
<1> QED
  BY <1>1, <1>2, <1>3, LoadStep, RunStep DEF Next

\* The inductive invariant.
LEMMA Invariant == Spec => []Inv
BY InitInv, NextInv, PTL DEF Spec

-----------------------------------------------------------------------------
\* In every accepted configuration, whatever the file, each setting has the value of the
\* last line for it (config_handler, ini_parse_stream).
THEOREM SettingsFollowFile == Spec => []ConfigSaysFile
<1>1. Inv => ConfigSaysFile
  BY DEF Inv, Outcome, ConfigSaysFile
<1> QED
  BY <1>1, Invariant, PTL

\* What config_load reports is the first bad line of the file, and a file with a bad line
\* is refused, whatever the file (ini_parse_stream).
THEOREM ErrorsAreFirst == Spec => []FirstBadLine
<1>1. Inv => FirstBadLine
  <2> SUFFICES ASSUME Inv, reading = "done" PROVE
        /\ config_rc > 0 => /\ config_rc \in DOMAIN text /\ Bad(config_rc)
                            /\ \A i \in 1..(config_rc - 1) : ~Bad(i)
        /\ config_rc = 0 => \A i \in DOMAIN text : ~Bad(i)
    BY DEF FirstBadLine
  <2>1. Outcome /\ ErrorIsFirst
    BY DEF Inv, ParserInv
  <2>2. config_rc > 0 => config_rc = error /\ error # 0
    BY <2>1 DEF Outcome
  <2>3. config_rc = 0 => \A i \in DOMAIN text : ~Bad(i)
    BY <2>1 DEF Outcome, Acceptable
  <2> QED
    BY <2>1, <2>2, <2>3 DEF ErrorIsFirst
<1> QED
  BY <1>1, Invariant, PTL

\* A command runs if and only if the options are right and the lines of the file are
\* acceptable, whatever the file (main, config_load).
THEOREM OnlyAcceptableRuns == Spec => []RunsIfAcceptable
<1>1. Inv => RunsIfAcceptable
  BY DEF Inv, Outcome, RunsIfAcceptable
<1> QED
  BY <1>1, Invariant, PTL

\* The exit status tells what happened, whatever the options and the file (main).
THEOREM StatusTellsOutcome == Spec => []ExitTellsOutcome
<1> DEFINE Status == /\ ExitTellsOutcome
                     /\ pc # "exit" => rc = 0 /\ parse_rc = 0 /\ result = NotRun
<1>1. Init => Status
  BY DEF Init, ExitTellsOutcome
<1>2. Inv /\ Status /\ [Next]_vars => Status'
  <2> SUFFICES ASSUME Inv, Status, [Next]_vars PROVE Status'
    OBVIOUS
  <2>1. ASSUME NEW opt, parse_fetch_args(opt) \/ parse_enroll_args(opt)
        PROVE  Status'
    BY <2>1 DEF parse_fetch_args, parse_enroll_args, Option, Usage, ExitTellsOutcome, NotRun
  <2>2. CASE main_args_done
    BY <2>2 DEF main_args_done, ExitTellsOutcome
  <2>3. CASE main_load
    <3>1. /\ pc = "config" /\ UNCHANGED <<parse_rc, result>>
          /\ \/ pc' = "exit" /\ rc' = 1
             \/ pc' = "run" /\ UNCHANGED rc
             \/ UNCHANGED <<pc, rc>>
      <4>1. pc = "config" /\ UNCHANGED <<parse_rc, result>>
        BY <2>3 DEF main_load
      <4>2. IF reading' = "done" THEN main_config ELSE UNCHANGED <<pc, rc, log, file>>
        BY <2>3, Zenon DEF main_load
      <4>3. CASE main_config
        BY <4>1, <4>3, Zenon DEF main_config
      <4> QED
        BY <4>1, <4>2, <4>3
    <3> QED
      BY <3>1 DEF ExitTellsOutcome, NotRun
  <2>4. ASSUME NEW returned \in {0, 1, -1}, main_run(returned)
        PROVE  Status'
    BY <2>4 DEF main_run, ExitTellsOutcome
  <2>5. CASE UNCHANGED vars
    BY <2>5 DEF vars, mainVars, ExitTellsOutcome
  <2> QED
    BY <2>1, <2>2, <2>3, <2>4, <2>5 DEF Next
<1> QED
  BY <1>1, <1>2, Invariant, PTL DEF Spec

-----------------------------------------------------------------------------
(* The log file *)

\* log_set_file opens the log file if one is configured and can be opened.
LEMMA FileOpens ==
  ASSUME NEW l, "fp" \in DOMAIN l, l.fp = FALSE, NEW path_set \in BOOLEAN, NEW opens \in BOOLEAN
  PROVE  LET k == log_set_file(l, path_set, opens)
         IN "fp" \in DOMAIN k /\ k.fp = (path_set /\ opens)
<1>1. CASE path_set /\ opens
  BY <1>1, Zenon DEF log_set_file
<1>2. CASE path_set /\ ~opens
  BY <1>2, MessagesKeep, Zenon DEF log_set_file, Keeps
<1>3. CASE ~path_set
  BY <1>3, Zenon DEF log_set_file
<1> QED
  BY <1>1, <1>2, <1>3

\* log_close closes it.
LEMMA FileCloses ==
  ASSUME NEW l, "fp" \in DOMAIN l
  PROVE  "fp" \in DOMAIN log_close(l) /\ log_close(l).fp = FALSE
BY MessagesKeep DEF log_close, Keeps

\* The log file is open while the command runs, if it is configured and can be opened.
FileSpan ==
  /\ "fp" \in DOMAIN log /\ log.fp \in BOOLEAN
  /\ pc # "run" => log.fp = FALSE
  /\ pc = "run" => /\ file \in BOOLEAN
                   /\ log.fp = (file /\ strings[<<"system", "log_file">>] \notin {NULL, ""})

\* config_load has returned.
LEMMA ConfigFile ==
  ASSUME "fp" \in DOMAIN log, log.fp = FALSE, main_config, pc # "run",
         config_rc' = 0 => UNCHANGED strings
  PROVE  FileSpan'
<1> DEFINE path_set == strings[<<"system", "log_file">>] \notin {NULL, ""}
<1>1. path_set \in BOOLEAN
  OBVIOUS
<1>2. CASE config_rc' # 0
  <2>1. pc' = "exit" /\ log' = log_vwrite(log, LOG_LEVEL_ERROR)
    BY <1>2 DEF main_config
  <2>2. "fp" \in DOMAIN log' /\ log'.fp = FALSE
    BY <2>1, MessagesKeep DEF Keeps
  <2> QED
    BY <2>1, <2>2, Zenon DEF FileSpan
<1>3. CASE config_rc' = 0
  <2> DEFINE opened == log_set_file(log, path_set, file')
             told   == log_vwrite(opened, LOG_LEVEL_DEBUG)
  <2>1. /\ pc' = "run" /\ file' \in BOOLEAN
        /\ log' = log_vwrite(told, LOG_LEVEL_INFO)
    BY <1>3 DEF main_config
  <2>2. "fp" \in DOMAIN opened /\ opened.fp = (path_set /\ file')
    BY <1>1, <2>1, FileOpens
  <2> HIDE DEF opened, path_set
  <2>3. "fp" \in DOMAIN told /\ told.fp = opened.fp
    BY <2>2, MessagesKeep DEF Keeps
  <2> HIDE DEF told
  <2>4. "fp" \in DOMAIN log' /\ log'.fp = (path_set /\ file')
    BY <2>1, <2>2, <2>3, MessagesKeep DEF Keeps
  <2>5. strings' = strings
    BY <1>3
  <2> QED
    BY <1>1, <2>1, <2>4, <2>5 DEF FileSpan, path_set
<1> QED
  BY <1>2, <1>3

\* Every step keeps it.
LEMMA NextSpan == Inv /\ FileSpan /\ [Next]_vars => FileSpan'
<1> SUFFICES ASSUME Inv, FileSpan, [Next]_vars PROVE FileSpan'
  OBVIOUS
<1>1. ASSUME NEW opt, parse_fetch_args(opt) \/ parse_enroll_args(opt)
      PROVE  FileSpan'
  <2>1. pc = "args" /\ pc' \in {"args", "exit"} /\ UNCHANGED log
    BY <1>1 DEF parse_fetch_args, parse_enroll_args, Option, Usage
  <2> QED
    BY <2>1 DEF FileSpan
<1>2. CASE main_args_done
  <2>1. pc = "args" /\ pc' = "config"
        /\ log' = log_set_level(log, IF debug_enabled THEN LOG_LEVEL_DEBUG ELSE LOG_LEVEL_INFO)
    BY <1>2 DEF main_args_done
  <2> QED
    BY <2>1, MessagesKeep DEF FileSpan, Keeps
<1>3. CASE main_load
  <2>1. /\ pc = "config"
        /\ IF reading' = "done" THEN main_config ELSE UNCHANGED <<pc, rc, log, file>>
    BY <1>3, Zenon DEF main_load
  <2>2. CASE reading' # "done"
    BY <2>1, <2>2 DEF FileSpan
  <2>3. CASE reading' = "done"
    <3>1. config_rc' = 0 => UNCHANGED strings
      <4>1. CASE \E opens \in BOOLEAN : ini_open(opens)
        BY <2>3, <4>1 DEF ini_open
      <4>2. CASE \E line \in Lines : ini_parse_line(line)
        BY <2>3, <4>2 DEF ini_parse_line
      <4>3. CASE config_load
        BY <4>3 DEF config_load, config
      <4> QED
        BY <1>3, <4>1, <4>2, <4>3 DEF main_load
    <3> QED
      BY <2>1, <2>3, <3>1, ConfigFile DEF FileSpan
  <2> QED
    BY <2>2, <2>3
<1>4. ASSUME NEW returned, main_run(returned)
      PROVE  FileSpan'
  BY <1>4, FileCloses DEF main_run, FileSpan
<1>5. CASE UNCHANGED vars
  BY <1>5 DEF vars, mainVars, configVars, config, FileSpan
<1> QED
  BY <1>1, <1>2, <1>3, <1>4, <1>5 DEF Next

\* Whatever the options and the file, the log file is open exactly while the command runs,
\* and then exactly if the last line for it names one that can be opened (main,
\* log_set_file, log_close).
THEOREM LogFileWhileRunning == Spec => []LogFileSpansRun
<1>1. Init => FileSpan
  BY DEF Init, Fresh, FileSpan
<1>2. Inv /\ FileSpan => LogFileSpansRun
  <2> SUFFICES ASSUME Inv, FileSpan PROVE LogFileSpansRun
    OBVIOUS
  <2>1. CASE pc # "run"
    BY <2>1 DEF FileSpan, LogFileSpansRun
  <2>2. CASE pc = "run"
    <3>1. text \in Seq(Lines) /\ SaysFile
      BY <2>2 DEF Inv, ParserInv, Outcome
    <3>2. <<"system", "log_file">> \in StringSettings
      BY DEF StringSettings
    <3>3. (\E i \in DOMAIN text : SetLast(i, <<"system", "log_file">>) /\ Given(i) # "")
          <=> strings[<<"system", "log_file">>] \notin {NULL, ""}
      BY <3>1, <3>2, ValueGiven DEF validate_required_string
    <3> QED
      BY <2>2, <3>3 DEF FileSpan, LogFileSpansRun
  <2> QED
    BY <2>1, <2>2
<1> QED
  BY <1>1, <1>2, NextSpan, Invariant, PTL DEF Spec

-----------------------------------------------------------------------------
(* Types *)

\* The names that the parser keeps, and the fields of *config.
NameTypes == {section, prev_name} \subseteq Names \cup {""}

ConfigTypes ==
  /\ reading \in {"no", "yes", "done", "freed"} /\ config_rc \in Int
  /\ strings \in [StringSettings -> Texts \cup {NULL}]
  /\ numbers \in [NumberSettings -> Int]

MainTypes ==
  /\ pc \in {"args", "config", "run", "exit"} /\ command \in {"CMD_FETCH", "CMD_ENROLL"}
  /\ mode \in {"MODE_ONESHOT", "MODE_DAEMON"}
  /\ force \in BOOLEAN /\ debug_enabled \in BOOLEAN
  /\ args \in 0..MaxArgs /\ parse_rc \in -1..1 /\ rc \in -1..1
  /\ file \in BOOLEAN /\ result \in -1..1 \cup {NotRun}

\* The handler stores texts and numbers.
LEMMA HandlerTypes ==
  ASSUME ConfigTypes, NEW sec, NEW name, NEW value \in Texts, config_handler(sec, name, value)
  PROVE  /\ strings' \in [StringSettings -> Texts \cup {NULL}]
         /\ numbers' \in [NumberSettings -> Int]
<1>1. \A k \in StringSettings :
        (IF k = <<sec, name>> THEN value ELSE strings[k]) \in Texts \cup {NULL}
  BY DEF ConfigTypes
<1>2. atoi[value] \in Int
  BY ConfigInputs
<1>3. \A k \in NumberSettings : (IF k = <<sec, name>> THEN atoi[value] ELSE numbers[k]) \in Int
  BY <1>2 DEF ConfigTypes
<1> QED
  BY <1>1, <1>3 DEF config_handler

\* A line is read.
LEMMA LineTypes ==
  ASSUME ConfigTypes, NEW line \in Lines, ini_parse_line(line)
  PROVE  ConfigTypes'
<1>1. line.value \in Texts /\ line.whole \in Texts
  BY ConfigInputs
<1>2. UNCHANGED <<reading, config_rc>>
  BY DEF ini_parse_line
<1>3. CASE ini_skip(line) \/ ini_reject(line)
  BY <1>2, <1>3 DEF ini_skip, ini_reject, config, ConfigTypes
<1>4. CASE ini_continue(line)
  BY <1>1, <1>2, <1>4, HandlerTypes DEF ini_continue, ConfigTypes
<1>5. CASE ini_section(line)
  <2>1. UNCHANGED <<strings, numbers>>
    BY <1>5, Zenon DEF ini_section, config
  <2> QED
    BY <1>2, <2>1 DEF ConfigTypes
<1>6. CASE ini_pair(line)
  BY <1>1, <1>2, <1>6, HandlerTypes DEF ini_pair, ConfigTypes
<1> QED
  BY <1>3, <1>4, <1>5, <1>6 DEF ini_parse_line

\* section and prev_name only take names from the file.
LEMMA LineNames ==
  ASSUME NameTypes, NEW line \in Lines, ini_parse_line(line)
  PROVE  NameTypes'
<1>1. line.name \in Names
  BY DEF Names
<1>2. CASE section' = section /\ prev_name' = prev_name
  BY <1>2 DEF NameTypes
<1>3. CASE section' = line.name /\ prev_name' = ""
  BY <1>1, <1>3, Zenon DEF NameTypes
<1>4. CASE section' = section /\ prev_name' = line.name
  BY <1>1, <1>4, Zenon DEF NameTypes
<1> QED
  BY <1>2, <1>3, <1>4, Zenon
     DEF ini_parse_line, ini_skip, ini_continue, ini_section, ini_pair, ini_reject

\* The result of config_load is a line number, 0 or -1.
LEMMA LoadTypes ==
  ASSUME ConfigTypes, error \in Nat,
         config_load \/ \E opens \in BOOLEAN : ini_open(opens)
  PROVE  ConfigTypes'
<1>1. Unset \in [StringSettings -> Texts \cup {NULL}]
  BY DEF Unset
<1>2. CASE config_load
  <2>1. /\ reading' = "done"
        /\ UNCHANGED config \/ config_free
    BY <1>2 DEF config_load
  <2>2. config_rc' \in Int
    BY <1>2 DEF config_load
  <2> QED
    BY <1>1, <2>1, <2>2 DEF config, config_free, ConfigTypes
<1>3. CASE \E opens \in BOOLEAN : ini_open(opens)
  BY <1>1, <1>3 DEF ini_open, config, config_free, ConfigTypes
<1> QED
  BY <1>2, <1>3

\* Every step of main keeps the types of its own variables.
LEMMA NextTypes == MainTypes /\ [Next]_vars => MainTypes'
<1> SUFFICES ASSUME MainTypes, [Next]_vars PROVE MainTypes'
  OBVIOUS
<1>1. ASSUME NEW opt, parse_fetch_args(opt) \/ parse_enroll_args(opt)
      PROVE  MainTypes'
  <2>1. args < MaxArgs /\ args' = args + 1 /\ UNCHANGED <<command, file, result>>
    BY <1>1 DEF parse_fetch_args, parse_enroll_args, Option
  <2>2. args' \in 0..MaxArgs
    BY <2>1, MainInputs DEF MainTypes
  <2>3. /\ pc' \in {"args", "config", "run", "exit"} /\ mode' \in {"MODE_ONESHOT", "MODE_DAEMON"}
        /\ parse_rc' \in -1..1 /\ rc' \in -1..1
    BY <1>1 DEF parse_fetch_args, parse_enroll_args, Usage, MainTypes
  <2>4. force' \in BOOLEAN /\ debug_enabled' \in BOOLEAN
    BY <1>1, Zenon DEF parse_fetch_args, parse_enroll_args, Usage, MainTypes
  <2> QED
    BY <2>1, <2>2, <2>3, <2>4 DEF MainTypes
<1>2. CASE main_args_done
  <2>1. pc' = "config" /\ args' = 0
        /\ UNCHANGED <<command, mode, force, debug_enabled, parse_rc, rc, file, result>>
    BY <1>2 DEF main_args_done
  <2> QED
    BY <2>1, MainInputs DEF MainTypes
<1>3. CASE main_load
  <2>1. /\ UNCHANGED <<command, mode, force, debug_enabled, args, parse_rc, result>>
        /\ main_config \/ UNCHANGED <<pc, rc, log, file>>
    BY <1>3, Zenon DEF main_load
  <2>2. pc' \in {"args", "config", "run", "exit"} /\ rc' \in -1..1 /\ file' \in BOOLEAN
    <3>1. CASE main_config
      <4>1. \/ pc' = "exit" /\ rc' = 1 /\ file' = file
            \/ pc' = "run" /\ rc' = rc /\ file' \in BOOLEAN
        BY <3>1, Zenon DEF main_config
      <4> QED
        BY <4>1 DEF MainTypes
    <3> QED
      BY <2>1, <3>1 DEF MainTypes
  <2> QED
    BY <2>1, <2>2 DEF MainTypes
<1>4. ASSUME NEW returned \in {0, 1, -1}, main_run(returned)
      PROVE  MainTypes'
  <2>1. /\ pc' = "exit" /\ rc' = returned /\ result' = returned
        /\ UNCHANGED <<command, mode, force, debug_enabled, args, parse_rc, file>>
    BY <1>4 DEF main_run
  <2> QED
    BY <2>1 DEF MainTypes
<1>5. CASE UNCHANGED vars
  BY <1>5 DEF vars, mainVars, MainTypes
<1> QED
  BY <1>1, <1>2, <1>3, <1>4, <1>5 DEF Next

\* The variables of main and of config_load keep their types, whatever is in the file: a
\* field is NULL or a text, and an error is the number of a line that was read.
THEOREM MainTypesHold == Spec => []MainTypeOK
<1>1. Init => ConfigTypes /\ NameTypes /\ MainTypes
  <2> SUFFICES ASSUME Init PROVE ConfigTypes /\ NameTypes /\ MainTypes
    OBVIOUS
  <2>1. ConfigTypes
    <3>1. reading = "no" /\ strings = Unset /\ numbers = Zero /\ config_rc = 0
      BY Zenon DEF Init, ConfigInit
    <3> QED
      BY <3>1 DEF Unset, Zero, ConfigTypes
  <2>2. MainTypes
    <3>1. args \in 0..MaxArgs /\ parse_rc \in -1..1 /\ rc \in -1..1
      BY MainInputs DEF Init
    <3>2. force \in BOOLEAN /\ debug_enabled \in BOOLEAN /\ file \in BOOLEAN
      BY Zenon DEF Init
    <3> QED
      BY <3>1, <3>2 DEF Init, MainTypes
  <2>3. NameTypes
    BY Zenon DEF Init, ConfigInit, NameTypes
  <2> QED
    BY <2>1, <2>2, <2>3
<1>2. Inv /\ ConfigTypes /\ NameTypes /\ [Next]_vars => ConfigTypes' /\ NameTypes'
  <2> SUFFICES ASSUME Inv, ConfigTypes, NameTypes, [Next]_vars PROVE ConfigTypes' /\ NameTypes'
    OBVIOUS
  <2>1. ASSUME UNCHANGED configVars
        PROVE  ConfigTypes' /\ NameTypes'
    <3>1. ConfigTypes'
      BY <2>1 DEF configVars, config, ConfigTypes
    <3>2. NameTypes'
      BY <2>1, Zenon DEF configVars, parser, NameTypes
    <3> QED
      BY <3>1, <3>2
  <2>2. CASE main_load
    <3>1. error \in Nat
      BY ErrorMeansBad DEF Inv, ParserInv
    <3>2. config_load \/ (\E opens \in BOOLEAN : ini_open(opens)) => NameTypes'
      BY Zenon DEF config_load, ini_open, parser, NameTypes
    <3> QED
      BY <2>2, <3>1, <3>2, LineTypes, LineNames, LoadTypes DEF main_load
  <2>3. ASSUME NEW returned, main_run(returned)
        PROVE  ConfigTypes' /\ NameTypes'
    <3>1. ConfigTypes'
      BY <2>3 DEF main_run, config_free, Unset, ConfigTypes
    <3>2. NameTypes'
      BY <2>3, Zenon DEF main_run, parser, NameTypes
    <3> QED
      BY <3>1, <3>2
  <2>4. ASSUME NEW opt, parse_fetch_args(opt) \/ parse_enroll_args(opt)
        PROVE  UNCHANGED configVars
    BY <2>4 DEF parse_fetch_args, parse_enroll_args, Option
  <2>5. main_args_done => UNCHANGED configVars
    BY DEF main_args_done
  <2>6. UNCHANGED vars => UNCHANGED configVars
    BY DEF vars
  <2> QED
    BY <2>1, <2>2, <2>3, <2>4, <2>5, <2>6 DEF Next
<1>3. Inv /\ ConfigTypes /\ NameTypes /\ MainTypes => MainTypeOK
  <2> SUFFICES ASSUME Inv, ConfigTypes, NameTypes, MainTypes PROVE MainTypeOK
    OBVIOUS
  <2>1. text \in Seq(Lines) /\ lineno = Len(text) /\ ErrorIsFirst
    BY DEF Inv, ParserInv
  <2>2. lineno \in Nat /\ DOMAIN text = 1..lineno
    BY <2>1
  <2>3. error \in 0..lineno
    BY <2>1, <2>2 DEF ErrorIsFirst
  <2> QED
    BY <2>1, <2>2, <2>3, Zenon DEF ConfigTypes, NameTypes, MainTypes, MainTypeOK, TypeOK
<1> QED
  BY <1>1, <1>2, <1>3, NextTypes, Invariant, PTL DEF Spec
=============================================================================
