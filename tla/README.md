# A TLA+ model of ota-fetch

ota-fetch polls an update server, verifies a signed manifest, downloads the
payload it lists, hands it to RAUC, records the manifest as the current one and
reboots. A second command, `ota-fetch enroll`, obtains the TLS identity of the
device. These modules model both, with the download code, the configuration and the
console output they share. TLC checks them on small instances, and TLAPS proves the
safety properties of the passing runs for every instance.

Paths below are relative to the repository; the C code is in `src/`.

## The system

| Part | Source | State it keeps | Operations |
|---|---|---|---|
| update loop | `src/ota_fetch.c` | attempt counter, return code, `g_terminate`, the context (parsed manifest, release) | start, init, cleanup, fetch, validate, compare, load, fetch payload, validate payload, apply, record, reboot, end of attempt, sleep |
| downloads | `src/ota_fetch.c` (`fetch_file` and the progress callback) | `<dest>.tmp`, `<dest>` in the inbox, the download's progress | open, receive, write, time out, flush, rename |
| manifest | `src/manifest.c` | none (pure) | load, select a release, select a file |
| verification | `src/verify_libcrypto.c` | none (pure) | read, check the signer's certificate, check the signature |
| digests | `src/hash.c` | a ring of four buffers for `sha256_hex` | digest of a file, hexadecimal form |
| enrollment | `src/enroll.c` | key and certificate with their `.tmp` files, token file | check, read token, generate, post, write two files, remove token |
| configuration, INI parser | `src/config.c`, `src/ini.c` | the configuration record; section, last name and first error of the parser | open, parse a line, load, free |
| command line | `src/main.c` | mode, force, debug | parse options, load, dispatch, exit |
| logging | `src/log.c` | level, log file, the active progress line and its width | log, progress, clear, open and close the log file |

Outside the program: the update server with a publisher who replaces its files
one by one; RAUC, a child process; the supervisor that restarts the daemon; the
file system, which may lose what was not synced; signals, kills, power cuts.

The parts meet in few places. The loop calls the verifier and the manifest
functions on files of the inbox, and each call reads the file again. The child
gets a path of the inbox, not its contents. The record
(`current_manifest_dir/manifest.json`) and the boot slot are changed by
different programs at different times. The signal handler shares `g_terminate`
with the loop and interrupts `waitpid` and `sleep`. A progress line that a
download left open is cleared by the next message, whichever part writes it. Two
processes, of either command, share the `.tmp` names.

What is hard here, and hardly reached by the tests in `tests/`: interruptions
between installing and recording and between recording and rebooting; a publisher
who is half done; leftovers of earlier attempts; children that outlive their
parent; unsynced renames; overlapping downloads and enrollments; a server that
stalls; configuration lines that continue, repeat or break off. `PROJECT.json`
lists these under "hazards" with their lines.

## Modules

`Manifest` holds `manifest_load`, `manifest_select_release` and
`manifest_release_select_file` as operators on parsed JSON: a release is a record,
a missing field is `NULL`, an element that is no object is skipped. `Selection` has a
publisher who adds and edits releases one at a time, and says what a device with some
`device_id` selects from them.

`Verify` holds `verify_signature_with_cert` with its stages in order: the signer's
certificate, the CA, the chain between them, the public key, the signature file
and its size, then the check that belongs to the key type. Cryptography is symbolic: a signature names the key and the body it
is over, a certificate its issuer and key. `hex_encode` maps a body to a
lower-case digest, one to one; a manifest may hold upper-case digits, which the
code's `strcmp` does not match.

`OtaFetch` is the process with its environment. `pc` names the call the process
is about to make, and each action is one call that touches a file, the server or
the child, with the code up to the next one. The early returns of the source
are the disjuncts that end in `AttemptEnds` or `Return`.

| Variable | Code |
|---|---|
| `attempt`, `rc`, `daemon_mode` | locals of `ota_fetch_run` |
| `g_terminate` | the flag set by `handle_termination_signal` |
| `job`, `failed` | which call of `fetch_file`, and `rc1 \|\| rc2 \|\| rc3` |
| `manifest`, `file` | `ctx.inbox_manifest`, `ctx.release->files[0]` |
| `inbox`, `tmp` | the inbox directory and its `.tmp` files |
| `current`, `durable` | the current manifest, and what a power cut may leave of it |
| `rauc`, `orphans` | the child being waited for, children nobody waits for |
| `slot`, `booted` | what RAUC activated, what is running |
| `installs`, `verified`, `fetched` | history: everything installed, the manifest verified last, the names this attempt has fetched |

Failing calls, signals, kills and power cuts draw on one budget, `MaxFaults`. A
refusal that the inputs cause (bad signature, wrong digest, missing file) is
free. A transfer delivers the body, fails, or delivers part of it and passes for
complete, which happens when the length was not announced: such a file is renamed
like any other, and only the checks after it can refuse it. A `stat()` of the current
manifest that fails, for whatever reason, passes for its absence (`file_exists`).
`OrphansSurvive` says whether a RAUC child may outlive its process: FALSE is
a supervisor that stops the whole process group before it restarts the service.

`UpdateLedger` is the abstract specification of a device: a boot slot, a record, and
the records a power cut may bring back. The slot changes only to a bundle that a
trusted manifest lists, and the record only to a trusted manifest whose bundle is
in the slot. `OtaFetch` maps `current` to the record and `durable` to the
recoverable ones.

`Enroll` models names, inodes and synced contents, because two invocations that
open one `.tmp` name write to one inode. The n-th key pair is the number n. The
server is assumed to answer with a certificate for the key of the request;
`enroll.c` does not compare the two, so that the matching pair of
`TokenGoneMeansIdentity` rests on the server here.

`Transfer` opens up `fetch_file`, which `OtaFetch` takes in three steps, for any
number of processes that download to one path. A body arrives in chunks; `got` is
what libcurl has delivered, `put` what stdio has passed on to the inode `fd`. Its
actions are `fopen`, the response, `file_write_callback`, the end of the body,
errors, the timeouts of `CURLOPT_TIMEOUT` and `CURLOPT_LOW_SPEED_*`, `flush`
(`fflush` and `fclose`) and `rename`. `Fails` is the `cleanup:` label, which removes
`<dest>.tmp` whoever is writing to it. Whenever libcurl may call back,
`download_progress_callback` decides whether a line is printed.

`Log` has the functions of `log.c` as operators on its globals, together with the row
of the terminal that stderr is at, column by column: a text is a mark and a width,
so what is left of a longer line shows. A progress line always fits the buffer it is
formatted in (at most 127 of 128 bytes), so `log_format_progress_line` never returns
-1. `Transfer` and `Main` use it.

`Config` is `ini_parse_stream` and `config_load`. A file is chosen while it is
read, one classified line at a time, so that a run covers all files of the given
lines. The second half of the module says what a file means by looking back from
each line, without the parser's variables; the properties compare the two. `Main`
composes it with the option loops of `main.c`, the log file and the exit status.

| Variable | Code |
|---|---|
| `section`, `prev_name`, `lineno`, `error` | locals of `ini_parse_stream` |
| `strings`, `numbers` | the fields of `struct ota_config` |
| `config_rc`, `parse_rc`, `rc` | results of `config_load`, of the option loop, of `main` |
| `mode`, `force`, `debug_enabled` | locals of `main` |
| `text`, `file`, `result` | history: lines read, whether `log_file` opened, what the command returned |

`MCOtaFetch`, `MCOneshot`, `MCManifest`, `MCTransfer` and `MCMain` give the constants
their values; `Enroll` is small enough for its cfgs alone. `OtaFetchProofs`,
`OtaFetchLedgerProofs`, `EnrollProofs`, `LogProofs`, `TransferProofs`,
`TransferLineProofs`, `SelectionProofs` and `MainProofs` hold the theorems.

Operators whose comment says "Mutant of" are plausible bugs. Each property is
violated when its mutant takes the place of the definition it is named after.

## What TLC checks

| Run | Bounds | Shows |
|---|---|---|
| `daemon` | 2 releases, 3 bundles, 3 uploads, 2 faults; 1.3 M states | The current manifest was signed and applied; only validated bundles are installed; the process acts on the manifest it verified, and only on files its attempt fetched; what RAUC opens has the listed digest, although truncated and torn files get into the inbox; "up to date" is true; the old manifest is kept until the new one is applied; the loop implements `UpdateLedger`. |
| `oneshot` | 9 kinds of manifest, 2 attempts, 2 uploads, 1 fault; 164 k states | Exit status 0 means the verified manifest is current; failure is reported after exactly `retry_attempts` attempts. |
| `liveness` | 2 releases, 3 uploads, 1 fault, orphans; 145 k states | The device converges to a consistent server; a signalled process stops. |
| `selection` | manifests of up to 2 releases of up to 2 files; 13 k states | The device's own release wins over "default", the file of the wanted type over the first, and other devices' releases do not matter. |
| `enroll` | 1 process, 2 faults, 4 keys; 76 k states | The token goes only when a matching, durable pair is in place; nothing is overwritten without `--force`; retrying with `--force` succeeds. |
| `transfer` | 2 processes (one at a terminal or not, one a service), 2 versions of a body, 1 call of `fetch_file` each, 1 fault; 123 k states | What `fetch_file` reports as fetched is one whole version, unless downloads overlapped or the length was not announced; every line of stderr is one text; no progress line stays open; a log without a terminal gets one line per milestone; the final line shows everything received; `fetch_file` returns although the server stalls. |
| `config` | 3 free lines, of 23 kinds, after a start that lacks one required setting, 2 options; 267 k states | Settings are what the last line for them says; the first bad line is reported; a command runs exactly if options and file are acceptable; exit status and log file follow. |

Why the bounds suffice to be interesting: three uploads replace the manifest, its
signature and its payload, in every order and between any two requests. One
fault produces every single interruption, two let a second interruption hit the
recovery from the first. With four key pairs the last retry can always complete:
two are lost to faults, one enrolls the first token and one the second.
In `transfer` the second version is shorter than the first, so that leftovers of a
longer body could show, and progress lines are two or three columns wide on a
terminal of three, so that they shrink and grow. In `config` the three free lines
decide whether the last required setting is given, emptied, continued, moved to
another section or preceded by a bad line; `MaxLines` counts the start as well.
`oneshot` was also run with `retry_attempts` 0 and 1, and its properties hold; `enroll`
with `SyncsDir = FALSE` (paths without a directory part, which `fsync_parent_dir`
does not sync) violates `TokenGoneMeansIdentity`.
`transfer` without `p \notin shared` violates `FetchedIsWhole`: a second process
truncates the `.tmp` file that the first is about to rename. No document says what
overlapping processes may rely on, so no property is stated for them.
`CHECK_DEADLOCK FALSE` is set for `enroll`, where the operator may be done, and for
`transfer` and `config`, where the processes end.

### Disagreements between code and documentation

These runs violate what a comment or the README says. Their findings in
`PROJECT.json` quote the lines.

- `exit_code`: a one-shot run that gets a signal during a failing attempt returns 0
  after the retry sleep.
- `rollback`: release 2 is installed but not recorded, the publisher goes back to
  release 1, and the device calls itself up to date with release 2 in its slot. In
  `daemon`, where the publisher only goes forward, the same property holds.
- `reboot`: if the process is interrupted after recording, or `reboot()` fails, the
  installed system is not booted until something else resets the device.
- `orphan_install`: a child left behind opens its path after the next attempt has
  put a new, not yet validated download there.
- `enroll_race`: of two overlapping enrollments without `--force`, the later one
  overwrites the identity of the earlier.

Some smaller ones have no run. `manifest.h:90` speaks of a non-NULL `device_id` where
`manifest.c:281` also wants it non-empty, so `SelectionRule` says nothing of a device
with an empty id if there is a release with an empty id. An Ed25519 manifest above
1 MiB is refused (`verify_libcrypto.c:225`), an RSA or ECDSA one of that size is not. A
payload named `manifest.json` would replace the verified manifest and be recorded in
its place, which nothing refuses; the models assume that no publisher signs one.
Key and certificate are each replaced atomically, the pair is not; the token is
kept until both are in place, so a retry can repair it.

### Fairness

Only `Converges`, `TerminatesOnSignal`, `InstalledIsBooted`, `EventuallyEnrolled` and
`FetchReturns` use it. In `OtaFetch` a running process keeps taking steps, which
assumes that transfers end, that `sleep` returns and that RAUC ends. The first of
these is what `FetchReturns` shows of `Transfer`: there the process is scheduled
and time passes (weak fairness of its own steps and of the timeout), and the server
may stall for ever. It needs one of the two limits to be configured; with
`transfer_timeout` 0 and no low-speed limit, which the code allows, it would not
hold. A supervisor restarts what exited and reaps what is left. Nothing is assumed
of the publisher, of signals or of failures: the fault budget ends, which is the
"failures stop" of `Converges`. For enrollment an invocation runs to its end, and
the operator sooner or later retries with `--force`, whenever that is possible again
and again (strong fairness of that start). Without `--force` half an identity would
block every retry.

## What TLAPS proves

The theorems hold for all values of the constants that satisfy the named assumptions
of the modules (`Sentinels` and `Inputs` for the loop, `TransferInputs` and `Screen`
for downloads, `ConfigInputs` and `MainInputs` for configuration, `Pointers` and
`Bounds` for selection, `Bounds` for enrollment): all bodies, names, manifests and files, any server contents, any
number of processes, uploads, faults and restarts.

| Theorem | Statement | Hypotheses |
|---|---|---|
| `TypeCorrect` | `Spec => []TypeOK` (loop) | |
| `AttemptUsesOwnFiles` | `Spec => []UsesOwnFiles` | |
| `CurrentIsApplied` | `Spec => []CurrentWasApplied` | `NoReservedNames` |
| `ActsOnVerified` | `Spec => []LoadedIsVerified` | `NoReservedNames` |
| `OldManifestKept` | `Spec => OldManifestKeptUntilApplied` | `NoReservedNames` |
| `InstallsAreValidated` | `Spec => []OnlyValidatedInstalled` | `NoReservedNames`, `~OrphansSurvive` |
| `ChildOpensListed` | `Spec => []RaucOpensListed` | `NoReservedNames`, `~OrphansSurvive` |
| `LoopImplementsLedger` | `Spec => ImplementsLedger` | `NoReservedNames`, `~OrphansSurvive` |
| `UpToDateIsInstalled` | `Spec => []UpToDateMeansInstalled` | `NoReservedNames`, `~OrphansSurvive`, no signed test manifest, a publisher who goes only forward |
| `FailsAfterBudget` | `Spec => RetryBudget` | |
| `ZeroMeansCurrent` | `Spec => ExitZeroMeansCurrent` | `NoReservedNames` |
| `FetchedFilesAreWhole` | `Spec => FetchedIsWhole` | |
| `LinesAreWhole` | `Spec => []WholeLines` | |
| `LinesAreClosed` | `Spec => []ProgressEnds` | |
| `LogIsQuiet` | `Spec => []QuietLog` | |
| `LastLineIsTotal` | `Spec => []LastLineShowsAll` | |
| `TransferTypesHold` | `Spec => []TypeOK` (downloads) | |
| `SelectsRule` | `Spec => []SelectionRule` | |
| `SelectsFile` | `Spec => []FileRule` | |
| `OthersNeverMatter` | `Spec => OthersDoNotMatter` | |
| `SettingsFollowFile` | `Spec => []ConfigSaysFile` | |
| `ErrorsAreFirst` | `Spec => []FirstBadLine` | |
| `OnlyAcceptableRuns` | `Spec => []RunsIfAcceptable` | |
| `StatusTellsOutcome` | `Spec => []ExitTellsOutcome` | |
| `LogFileWhileRunning` | `Spec => []LogFileSpansRun` | |
| `MainTypesHold` | `Spec => []MainTypeOK` | |
| `EnrollTypes` | `Spec => []TypeOK` (enrollment) | |
| `NothingOverwritten` | `Spec => NoForceNoOverwrite` | `OneAtATime` |
| `TokenLast` | `Spec => []TokenGoneMeansIdentity` | `OneAtATime`, `SyncsDir` |

`NoReservedNames` says that no payload is named like a manifest file. Without it a
payload called `manifest.json` would take the place of the verified manifest between
`fetch_release` and `make_new_manifest_current`. `orphan_install` shows that
`~OrphansSurvive` is needed, and `enroll_race` the same of `OneAtATime`, which says
that there is a single process to enroll, so that invocations follow one another.
`SyncsDir` excludes paths without a directory part.

"Only forward" is a hypothesis on behaviours: manifests have distinct numbers, the
server holds the manifest of some release, a number that never decreases, or no
manifest. The uploads of `daemon` are of this kind. `rollback` shows that it is
needed. A signed test manifest would be recorded without anything in the slot, so
that one is excluded as well.

**The loop.** `CurrentWasApplied` is not inductive: when the manifest is renamed, one
has to know that the file at that name is still the one that was verified and that
its payload went through RAUC. The strengthening follows the stages of an attempt.

- `TypeInv` adds to the types what the context holds at each `pc`.
- `StageInv`: from verification to the rename, the inbox manifest is the verified
  one and authentic; from `validate_release` on, the payload has the listed digest.
- `RaucInv`: what the child opened is that payload; if it succeeded, that payload
  was installed; at the two steps of `make_new_manifest_current` the verified
  manifest was applied.
- `RecordInv`: everything a power cut may bring back was applied.

`UsesOwnFiles` rests on `OwnInv`, which needs none of these: while none of the
three downloads has failed, those done so far are in `fetched`, and the calls after
them are made only in that case.

For the ledger, `OrphanInv` adds that a child nobody waits for belongs to a process
about to stop, so nothing replaces its payload (`RaucOpensListed` is this and `RaucInv`
together), and `SlotInv` that the slot holds
the bundle of the manifest that is about to be recorded. For the exit status,
`BudgetInv` says that a running process has attempts left, and `ExitInv` that a
one-shot run comes to the end of an attempt only with a failure.

For "up to date", `AheadInv` compares release numbers along the way of a manifest
from the server through `.tmp` and inbox to the record. Wherever a manifest is, it is
not newer than the server's. Those an attempt can still compare or record (`InFlight`)
are not older than what is on record, also after a power cut. And what is on record
fits the slot, or is older than every manifest that it can still be compared with:
the second is the case between installing and recording, and stays so if the process
is interrupted there. `Brought` says that every step moves manifests only along this
way.

**Downloads.** `FileInv` says that the inode of a process that met no other holds
exactly the chunks it has written, that the temporary name refers to that inode or
to none, and that of two processes that are downloading both count as overlapping.
`HistoryTypes` and `RestOK` have the remaining types; they need the screen's invariant
for the counters.

**The screen.** `ScreenInv` relates what `log.c` remembers to what the terminal shows:
with an active progress line the row holds one text of the remembered width less
one, since the carriage return is counted, and without one it is empty; an active
line belongs to a process inside `fetch_file`. `LogProofs` has what each function of
`log.c` does to such a row, and what it leaves alone.

**Progress lines.** `HistoryInv` says that each line before the final one stands for a
milestone of its own: the milestones printed are a subset of those passed, and the
last one that the callback remembers is the greatest of them, whether or not the
length was announced. `TransferInputs` assumes for this that a longer
body has no fewer bytes. The final line comes after the rename; from the end of the
transfer on `progress` holds all that was received.

**Selection.** The code takes the first match of a loop, the model the least index of a
set. `LeastIndex` and `Found` relate the two, and a release that does not match
before or after an edit cannot be that index.

**Configuration.** The meaning of a file looks back from each line, the parser keeps
three variables as it goes. `ParserInv` says what these hold: `section` and
`prev_name` are what looking back from the next line finds, `error` is the first bad
line, and the settings are those of the lines so far. The lemmas show that adding a
line changes nothing of what the lines before it mean, and what looking back gives
one line further on. `Inv` carries this on to the exit of `main`. `FileSpan` adds that
the log file is open only while the command runs, and then exactly if the setting
that was read is a path that opened.

**Enrollment.** `NamesInv` is what the types need: a `.tmp` name never leads to an
inode that is in place or may be after a power cut. `ForceInv` says that without
`--force` the file about to be written is absent. `WriteInv` follows
`write_file_atomic` through its steps: the inode holds the key that was generated, is
synced before the rename, and is the only one a power cut may bring back after the
directory sync; the key stays so while the certificate is written. `TokenInv` adds
that an invocation that read the token still has it.

Only model-checked: the liveness properties `Converges`, `TerminatesOnSignal`,
`EventuallyEnrolled` and `FetchReturns`. They rest on fairness, whose `ENABLED` the
prover does not handle. Every invariant and action property of a passing run has a
theorem. Those of the runs that end in a violation are false as they stand.

## What is left out

- Wall-clock time, log texts, the contents of HTTP requests and TLS; `mkdir_p` and
  allocation failures except as a failing call of the stage they occur in; RAUC's own
  slots and the boot loader's fallback.
- `OtaFetch` has one ota-fetch process at a time; overlapping processes are modelled
  for downloads (`Transfer`) and for enrollment (`Enroll`), where they share files.
- Lines wider than the terminal, which wrap, and failing writes to stderr. `Screen`
  and `TransferInputs` assume that lines fit.
- Scanning characters in the INI parser: a line arrives classified. Running out of
  memory in `strdup` and overflow in `atoi`.
- The ring of four buffers in `sha256_hex`, which serves debug output only.
- `Verify` is exercised through the loop, not enumerated alone: a reference definition
  for it would be the same chain of stages.
- In enrollment, trimming of the token and joining of the certificate chain.
- Functions that only print or free (`manifest_print`, `config_print`,
  `manifest_free`) change no modelled state.
