------------------------------- MODULE Config -------------------------------
(***************************************************************************)
(* Reading the configuration: the INI parser (src/ini.c, built with its    *)
(* default options) and config_load with its handler (src/config.c).       *)
(*                                                                         *)
(* The file is found out about line by line, so that every file is read.   *)
(* A line is a record:                                                     *)
(*   indent  it starts with white space                                    *)
(*   kind    what the rest of it is: "blank", "comment", "section" for     *)
(*           [name], "badsection" without the "]", "pair" for name = value,*)
(*           "junk" for anything else                                      *)
(*   name, value                                                           *)
(*   whole   its text without surrounding space and inline comment         *)
(*   size    "fits" the buffer of INI_MAX_LINE with its newline, if any;   *)
(*           "full" has one character less than the buffer and the file    *)
(*           ends there; "cut" has as many, and more of the file, be it    *)
(*           only the newline, follows                                     *)
(***************************************************************************)
EXTENDS Integers, Sequences

CONSTANTS
  Lines,   \* the lines a file may have
  Start,   \* bound: the lines every file starts with, <<>> for any file
  MaxLines,\* bound: lines of a file
  Texts,   \* values, and the text of lines
  atoi,    \* the number that a text starts with, 0 if none
  NULL

Kinds == {"blank", "comment", "section", "badsection", "pair", "junk"}

ASSUME ConfigInputs ==
  /\ Lines \subseteq [indent : BOOLEAN, kind : Kinds, name : STRING, value : Texts,
                      whole : Texts, size : {"fits", "full", "cut"}]
  /\ Start \in Seq(Lines) /\ MaxLines \in Nat
  /\ atoi \in [Texts -> Int]
  /\ NULL \notin Texts

\* The settings of struct ota_config, as <<section, name>>.
StringSettings ==
  {"network"} \X {"server_url", "enroll_url", "tls_ca_cert", "tls_client_cert",
                  "tls_client_key"}
  \cup {"system"} \X {"inbox_manifest_dir", "current_manifest_dir", "manifest_ca_cert",
                      "log_file", "device_id"}

NumberSettings ==
  {"network"} \X {"connect_timeout", "transfer_timeout", "low_speed_limit",
                  "low_speed_time", "retry_attempts"}
  \cup {<<"system", "update_interval_sec">>}

Required ==
  {"network"} \X {"server_url", "tls_ca_cert", "tls_client_cert", "tls_client_key"}
  \cup {"system"} \X {"inbox_manifest_dir", "current_manifest_dir", "manifest_ca_cert"}

VARIABLES
  reading, \* "no", "yes", "done": config_load returned, "freed": its result is used up
  section, prev_name, lineno, error,  \* locals of ini_parse_stream
  strings, numbers,                   \* the fields of *config
  config_rc,                          \* what config_load returned
  text                                \* history: the lines read

parser == <<section, prev_name, lineno, error>>
config == <<strings, numbers>>
configVars == <<reading, parser, config, config_rc, text>>

Unset == [k \in StringSettings |-> NULL]
Zero  == [k \in NumberSettings |-> 0]

ConfigInit ==
  /\ reading = "no" /\ section = "" /\ prev_name = "" /\ lineno = 0 /\ error = 0
  /\ strings = Unset /\ numbers = Zero   \* memset
  /\ config_rc = 0 /\ text = <<>>

-----------------------------------------------------------------------------
(* src/config.c *)

\* Mutant of config_handler: of repeated settings the first stays.
config_handler_first(sec, name, value) ==
  /\ strings' = [k \in StringSettings |->
                   IF k = <<sec, name>> /\ strings[k] \in {NULL, ""} THEN value ELSE strings[k]]
  /\ numbers' = [k \in NumberSettings |-> IF k = <<sec, name>> THEN atoi[value] ELSE numbers[k]]

\* Always returns 1.  Of repeated settings the last stays.
config_handler(sec, name, value) ==
  /\ strings' = [k \in StringSettings |-> IF k = <<sec, name>> THEN value ELSE strings[k]]
  /\ numbers' = [k \in NumberSettings |-> IF k = <<sec, name>> THEN atoi[value] ELSE numbers[k]]

validate_required_string(value) == value # NULL /\ value # ""

\* The fields still hold the addresses, and nobody looks at them any more.
config_free == strings' = Unset /\ numbers' = numbers

-----------------------------------------------------------------------------
(* src/ini.c *)

Skipped(line) == line.kind \in {"blank", "comment"}

\* An indented line below a setting is a continuation, whatever it looks like.
Continued(line) == prev_name # "" /\ line.indent /\ ~Skipped(line)

\* Mutant of FirstError: the last one is kept.
FirstError_last(bad) == error' = IF bad THEN lineno' ELSE error

\* Mutant of FirstError: lines counted from the next one.
FirstError_next(bad) == error' = IF bad /\ error = 0 THEN lineno' + 1 ELSE error

\* if (!error) error = lineno
FirstError(bad) == error' = IF bad /\ error = 0 THEN lineno' ELSE error

\* What the line is taken for, and whether that fails.
ini_skip(line) == Skipped(line) /\ UNCHANGED <<section, prev_name, config>>

ini_continue(line) ==
  /\ Continued(line)
  /\ config_handler(section, prev_name, line.whole)
  /\ UNCHANGED <<section, prev_name>>

ini_section(line) ==
  /\ ~Continued(line) /\ line.kind = "section"
  /\ section' = line.name /\ prev_name' = ""
  /\ UNCHANGED config

ini_pair(line) ==
  /\ ~Continued(line) /\ line.kind = "pair"
  /\ prev_name' = line.name
  /\ config_handler(section, line.name, line.value)
  /\ UNCHANGED section

ini_reject(line) ==
  /\ ~Continued(line) /\ line.kind \in {"badsection", "junk"}
  /\ UNCHANGED <<section, prev_name, config>>

\* The line read last was known to end the file.
AtEnd == text # <<>> /\ text[Len(text)].size = "full"

\* One turn of the loop.  Of a line that does not fit the rest is dropped, what fits
\* is used all the same.
ini_parse_line(line) ==
  /\ reading = "yes" /\ ~AtEnd
  /\ Len(text) < MaxLines /\ (Len(text) < Len(Start) => line = Start[Len(text) + 1])
  /\ text' = Append(text, line)
  /\ lineno' = lineno + 1
  /\ FirstError(line.size = "cut"
                \/ (~Continued(line) /\ line.kind \in {"badsection", "junk"}))
  /\ \/ ini_skip(line) \/ ini_continue(line) \/ ini_section(line) \/ ini_pair(line)
     \/ ini_reject(line)
  /\ UNCHANGED <<reading, config_rc>>

ini_open(opens) ==
  /\ reading = "no"
  /\ IF opens THEN reading' = "yes" /\ UNCHANGED <<config, config_rc>>
     ELSE reading' = "done" /\ config_rc' = -1 /\ config_free
  /\ UNCHANGED <<parser, text>>

\* Mutant of config_load: an incomplete configuration is returned.
config_load_unchecked ==
  /\ reading = "yes"
  /\ reading' = "done" /\ config_rc' = error
  /\ IF config_rc' = 0 THEN UNCHANGED config ELSE config_free
  /\ UNCHANGED <<parser, text>>

\* fgets returns NULL: the end of the file.
config_load ==
  /\ reading = "yes"
  /\ reading' = "done"
  /\ config_rc' = IF error # 0 THEN error
                  ELSE IF \E k \in Required : ~validate_required_string(strings[k]) THEN -1
                  ELSE 0
  /\ IF config_rc' = 0 THEN UNCHANGED config ELSE config_free
  /\ UNCHANGED <<parser, text>>

-----------------------------------------------------------------------------
(* What a file means, said of its lines without a parser *)

Heading(line) == line.kind = "section" \/ (line.kind = "pair" /\ line.name = "")
Setting(line) == line.kind = "pair" /\ line.name # ""

\* Line i stands below a setting, with no unindented heading in between.
Below(i) ==
  \E j \in 1..(i - 1) :
    Setting(text[j]) /\ \A k \in (j + 1)..(i - 1) : text[k].indent \/ ~Heading(text[k])

Continues(i) == text[i].indent /\ ~Skipped(text[i]) /\ Below(i)

Starts(i, kind) == text[i].kind = kind /\ ~Continues(i)

\* The last line before line i that starts something of that kind has that name.
Under(i, kind, name) ==
  \/ \E j \in 1..(i - 1) :
       /\ Starts(j, kind) /\ text[j].name = name
       /\ \A k \in (j + 1)..(i - 1) : ~Starts(k, kind)
  \/ name = "" /\ \A j \in 1..(i - 1) : ~Starts(j, kind)

\* Line i gives setting k a value.
Sets(i, k) ==
  /\ Under(i, "section", k[1])
  /\ \/ Starts(i, "pair") /\ text[i].name = k[2]
     \/ Continues(i) /\ Under(i, "pair", k[2])

Given(i) == IF Continues(i) THEN text[i].whole ELSE text[i].value

SetLast(i, k) == Sets(i, k) /\ \A j \in (i + 1)..Len(text) : ~Sets(j, k)

\* Every setting has the value that the last line for it gives: the value after its
\* name, or the text of the last line that continues it.
SaysFile ==
  /\ \A k \in StringSettings :
       \/ \E i \in DOMAIN text : SetLast(i, k) /\ strings[k] = Given(i)
       \/ strings[k] = NULL /\ \A i \in DOMAIN text : ~Sets(i, k)
  /\ \A k \in NumberSettings :
       \/ \E i \in DOMAIN text : SetLast(i, k) /\ numbers[k] = atoi[Given(i)]
       \/ numbers[k] = 0 /\ \A i \in DOMAIN text : ~Sets(i, k)

Bad(i) == text[i].size = "cut" \/ Starts(i, "badsection") \/ Starts(i, "junk")

\* The file is fit to work with.
Acceptable ==
  /\ \A i \in DOMAIN text : ~Bad(i)
  /\ \A k \in Required : \E i \in DOMAIN text : SetLast(i, k) /\ Given(i) # ""

-----------------------------------------------------------------------------
(* Properties *)

\* The names that a file may hold.
Names == {line.name : line \in Lines}

TypeOK ==
  /\ reading \in {"no", "yes", "done", "freed"} /\ config_rc \in Int
  /\ {section, prev_name} \subseteq Names \cup {""}
  /\ lineno \in Nat /\ error \in 0..lineno
  /\ strings \in [StringSettings -> Texts \cup {NULL}]
  /\ numbers \in [NumberSettings -> Int]
  /\ text \in Seq(Lines)

\* In a configuration that was accepted every setting has the value that the last line
\* for it gives (config_handler as ini_parse_stream calls it).
ConfigSaysFile == reading = "done" /\ config_rc = 0 => SaysFile

\* "Returns 0 on success, line number of first error on parse error (doesn't stop on
\* first error), -1 on file open error" (ini.h:83): a positive result of config_load
\* is the number of the first bad line, and a file with a bad line is not accepted.
FirstBadLine ==
  reading = "done" =>
    /\ config_rc > 0 => /\ config_rc \in DOMAIN text /\ Bad(config_rc)
                        /\ \A i \in 1..(config_rc - 1) : ~Bad(i)
    /\ config_rc = 0 => \A i \in DOMAIN text : ~Bad(i)
=============================================================================
