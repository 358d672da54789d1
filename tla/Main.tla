-------------------------------- MODULE Main --------------------------------
(***************************************************************************)
(* main (src/main.c): options, configuration, log file, one command, exit  *)
(* status.  What the command does is the subject of OtaFetch and Enroll;   *)
(* here it returns some result.                                            *)
(***************************************************************************)
EXTENDS Config, Log

CONSTANT MaxArgs   \* bound: options given

ASSUME MainInputs == MaxArgs \in Nat

VARIABLES
  pc,        \* "args", "config", "run", "exit"
  command, mode, force, debug_enabled,
  args,      \* options seen, while they are looked at
  parse_rc,  \* what parsing the options returned
  log,       \* see Log
  rc,        \* the exit status
  file,      \* history: whether log_file could be opened
  result     \* history: what the command returned

mainVars == <<pc, command, mode, force, debug_enabled, args, parse_rc, log, rc, file,
              result>>
vars == <<configVars, mainVars>>

NotRun == 2

\* command: whether argv[1] is "enroll".
Init ==
  /\ ConfigInit
  /\ pc = "args" /\ command \in {"CMD_FETCH", "CMD_ENROLL"}
  /\ mode = "MODE_ONESHOT" /\ force = FALSE /\ debug_enabled = FALSE
  /\ args = 0 /\ parse_rc = 0 /\ log = Fresh(FALSE) /\ rc = 0 /\ file = FALSE
  /\ result = NotRun

\* One turn of a getopt_long loop.  "other" is any option that is not in the table
\* or lacks its argument.
Option ==
  /\ pc = "args" /\ parse_rc = 0 /\ args < MaxArgs
  /\ args' = args + 1
  /\ UNCHANGED <<configVars, command, log, file, result>>

Usage(opt) ==
  /\ pc' = "exit"
  /\ IF opt = "help" THEN parse_rc' = 1 /\ rc' = 0 ELSE parse_rc' = -1 /\ rc' = 1
  /\ UNCHANGED <<mode, force, debug_enabled>>

parse_fetch_args(opt) ==
  /\ command = "CMD_FETCH" /\ Option
  /\ \/ /\ opt \in {"daemon", "oneshot", "config", "debug"}
        /\ mode' = CASE opt = "daemon"  -> "MODE_DAEMON"
                     [] opt = "oneshot" -> "MODE_ONESHOT"
                     [] OTHER -> mode
        /\ debug_enabled' = (debug_enabled \/ opt = "debug")
        /\ UNCHANGED <<pc, parse_rc, rc, force>>
     \/ opt \in {"help", "other"} /\ Usage(opt)

parse_enroll_args(opt) ==
  /\ command = "CMD_ENROLL" /\ Option
  /\ \/ /\ opt \in {"config", "token-file", "force", "debug"}
        /\ force' = (force \/ opt = "force")
        /\ debug_enabled' = (debug_enabled \/ opt = "debug")
        /\ UNCHANGED <<pc, parse_rc, rc, mode>>
     \/ opt \in {"help", "other"} /\ Usage(opt)

\* getopt_long has returned -1.  The arguments that are no options are ignored.
main_args_done ==
  /\ pc = "args" /\ pc' = "config" /\ args' = 0
  /\ log' = log_set_level(log, IF debug_enabled THEN LOG_LEVEL_DEBUG ELSE LOG_LEVEL_INFO)
  /\ UNCHANGED <<configVars, command, mode, force, debug_enabled, parse_rc, rc, file,
                 result>>

\* After config_load.
main_config ==
  IF config_rc' # 0
  THEN /\ pc' = "exit" /\ rc' = 1 /\ UNCHANGED file
       /\ log' = log_vwrite(log, LOG_LEVEL_ERROR)
  ELSE /\ pc' = "run" /\ UNCHANGED rc
       /\ file' \in BOOLEAN
       /\ LET path == strings[<<"system", "log_file">>]
              opened == log_set_file(log, path \notin {NULL, ""}, file')
          IN  log' = log_vwrite(log_vwrite(opened, LOG_LEVEL_DEBUG), LOG_LEVEL_INFO)

\* Reading goes on, or config_load returns.
main_load ==
  /\ pc = "config"
  /\ (\E opens \in BOOLEAN : ini_open(opens)) \/ (\E line \in Lines : ini_parse_line(line))
     \/ config_load
  /\ IF reading' = "done" THEN main_config ELSE UNCHANGED <<pc, rc, log, file>>
  /\ UNCHANGED <<command, mode, force, debug_enabled, args, parse_rc, result>>

\* Mutant of main_run: the log file is not closed.
main_run_open(returned) ==
  /\ pc = "run" /\ pc' = "exit" /\ rc' = returned /\ result' = returned
  /\ config_free /\ reading' = "freed"
  /\ UNCHANGED <<parser, config_rc, text, command, mode, force, debug_enabled, args,
                 parse_rc, log, file>>

\* Mutant of main_run: the result is not passed on.
main_run_zero(returned) ==
  /\ pc = "run" /\ pc' = "exit" /\ UNCHANGED rc /\ result' = returned
  /\ config_free /\ reading' = "freed" /\ log' = log_close(log)
  /\ UNCHANGED <<parser, config_rc, text, command, mode, force, debug_enabled, args,
                 parse_rc, file>>

\* ota_fetch_run or ota_fetch_enroll returns.
main_run(returned) ==
  /\ pc = "run" /\ pc' = "exit" /\ rc' = returned /\ result' = returned
  /\ config_free /\ reading' = "freed" /\ log' = log_close(log)
  /\ UNCHANGED <<parser, config_rc, text, command, mode, force, debug_enabled, args,
                 parse_rc, file>>

Next ==
  \/ \E opt \in {"daemon", "oneshot", "config", "debug", "help", "other"} :
       parse_fetch_args(opt)
  \/ \E opt \in {"config", "token-file", "force", "debug", "help", "other"} :
       parse_enroll_args(opt)
  \/ main_args_done
  \/ main_load
  \/ \E returned \in {0, 1, -1} : main_run(returned)

Spec == Init /\ [][Next]_vars
-----------------------------------------------------------------------------
(* Properties *)

MainTypeOK ==
  /\ TypeOK
  /\ pc \in {"args", "config", "run", "exit"} /\ command \in {"CMD_FETCH", "CMD_ENROLL"}
  /\ mode \in {"MODE_ONESHOT", "MODE_DAEMON"}
  /\ force \in BOOLEAN /\ debug_enabled \in BOOLEAN
  /\ args \in 0..MaxArgs /\ parse_rc \in -1..1 /\ rc \in -1..1
  /\ file \in BOOLEAN /\ result \in -1..1 \cup {NotRun}

\* A command runs exactly if the options are right and the file could be read and is
\* acceptable, whatever is in it (main).  One bad line anywhere is enough to refuse.
RunsIfAcceptable ==
  /\ pc = "run" \/ result # NotRun => parse_rc = 0 /\ Acceptable
  /\ pc = "exit" /\ reading = "done" => ~Acceptable

\* "Exit code (0 on success, nonzero on error)" (main.c:141): the status is 0 for
\* --help and after a command that ran and returned 0, and only then.
ExitTellsOutcome == pc = "exit" => (rc = 0 <=> parse_rc = 1 \/ result = 0)

\* "If `log_file` is set, line-based logs are also appended to that file"
\* (README.md:63): while the command runs the log file is open if the last value the
\* configuration file gives it can be opened, and at no other time.
LogFileSpansRun ==
  log.fp <=> /\ pc = "run" /\ file
             /\ \E i \in DOMAIN text : SetLast(i, <<"system", "log_file">>) /\ Given(i) # ""
=============================================================================
