------------------------------ MODULE OtaFetch ------------------------------
(***************************************************************************)
(* The update loop of src/ota_fetch.c: one ota-fetch process, the two      *)
(* directories it keeps, the server it polls, the RAUC child it starts,    *)
(* and what may happen to it on the way: failing calls, signals, kills,    *)
(* power cuts and restarts.                                                *)
(*                                                                         *)
(* One action is one call of the source that touches a file, the server or *)
(* the child; everything between two such calls is folded into it.  Wall   *)
(* clock time is not modelled: sleep(3) simply returns some time later.    *)
(***************************************************************************)
EXTENDS Integers, FiniteSets, Manifest, Verify

CONSTANTS
  Bundles,        \* bodies of payload files
  Filenames,      \* values of a file entry's "filename"
  Paths,          \* values of a file entry's "path"
  Partial,        \* body of a file whose transfer is running or was cut short
  Torn,           \* body of a file whose data a power cut destroyed
  Factory,        \* the system the device was shipped with
  Modes,          \* values of daemon_mode the process is started with
  device_id,      \* configuration: own device id, or NULL
  retry_attempts, \* configuration: attempts of a one-shot run
  manifest_ca,    \* configuration: roots that sign manifests
  InitServers,    \* what the server may offer at first
  Publishable,    \* pairs <<url, body>> the publisher may put there later
  OrphansSurvive, \* TRUE if a RAUC child may outlive the ota-fetch process
  MaxPublish,     \* bound: uploads
  MaxFaults       \* bound: failing calls, signals, kills and power cuts

MANIFEST == "manifest.json"
SIGNATURE == "manifest.json.sig"
SIGNER == "signer.crt"
Reserved == {MANIFEST, SIGNATURE, SIGNER}

InboxNames == Reserved \cup Filenames
Urls       == Reserved \cup Paths
Bodies     == Manifests \cup Sigs \cup Certs \cup Bundles

VARIABLES
  \* the process
  pc,          \* the call it is about to make; "exited" or "off" if not running
  daemon_mode,
  attempt, rc, \* locals of ota_fetch_run
  g_terminate, \* set by the signal handler
  job,         \* which file fetch_file is fetching
  failed,      \* rc1 || rc2 || rc3 of fetch_new_manifest
  manifest,    \* ctx.inbox_manifest: the body that was parsed, or NULL
  file,        \* ctx.release->files[0], or NULL
  rauc,        \* the child being waited for
  \* the file system
  inbox, tmp,  \* inbox directory: files, and "<file>.tmp" files
  current,     \* current_manifest_dir/manifest.json
  durable,     \* what a power cut may leave of current
  \* the rest of the device
  orphans,     \* RAUC children nobody waits for
  slot,        \* bundle RAUC activated last, booted after the next reset
  booted,      \* system that is running
  \* outside
  server, published, faults,
  \* history
  fetched,     \* files fetched since the attempt began to fetch
  installs,    \* every bundle RAUC installed
  verified     \* manifest this process verified last

loop    == <<daemon_mode, attempt, g_terminate>>
fetch   == <<job, failed, fetched>>
ctx     == <<manifest, file>>
disk    == <<inbox, tmp, current, durable>>
device  == <<orphans, slot, booted, installs>>
outside == <<server, published>>
vars    == <<pc, rc, loop, fetch, ctx, rauc, disk, device, outside, faults,
             verified>>

-----------------------------------------------------------------------------
Running == pc \notin {"exited", "off"}

NoChild == [state |-> "none", bundle |-> NoFile]

\* The manifest a body parses to, and the file entry this device picks from it.
Parsed(m)  == IF m \in Manifests THEN manifest_load(DataFile[m].json) ELSE NULL
FileFor(m) == SelectedFile(Parsed(m), device_id)

\* The sentinels are no file bodies and differ from each other.
ASSUME Sentinels ==
  /\ {NoFile, Partial, Torn} \cap Bodies = {}
  /\ NoFile # Partial /\ NoFile # Torn /\ Partial # Torn
  /\ NULL \notin Manifests

\* The sets of names cover the manifests, and signatures are over manifests.
ASSUME Inputs ==
  /\ \A m \in Manifests :
       FileFor(m) # NULL => FileFor(m).filename \in Filenames /\ FileFor(m).path \in Paths
  /\ \A s \in Sigs : SigFile[s].over \in Manifests
  /\ InitServers \subseteq [Urls -> Bodies \cup {NoFile}]
  /\ Publishable \subseteq Urls \X (Bodies \cup {NoFile})
  /\ Modes \subseteq BOOLEAN /\ OrphansSurvive \in BOOLEAN
  /\ retry_attempts \in Int /\ MaxPublish \in Nat /\ MaxFaults \in Nat

Init ==
  /\ pc = "off" /\ daemon_mode = FALSE /\ attempt = 0 /\ rc = 0
  /\ g_terminate = FALSE /\ job = "manifest" /\ failed = FALSE
  /\ manifest = NULL /\ file = NULL /\ rauc = NoChild
  /\ inbox = [n \in InboxNames |-> NoFile]
  /\ tmp = [n \in InboxNames |-> NoFile]
  /\ current = NoFile /\ durable = {NoFile}
  /\ orphans = {} /\ slot = Factory /\ booted = Factory
  /\ server \in InitServers /\ published = 0 /\ faults = 0
  /\ fetched = {} /\ installs = {} /\ verified = NULL

\* Every failure, signal or crash draws on one budget.
Fault   == faults < MaxFaults /\ faults' = faults + 1
NoFault == UNCHANGED faults

\* Control moves on inside the attempt.
Goto(label) == pc' = label /\ UNCHANGED <<rc, ctx>>

\* rc = code; goto attempt_end;
AttemptEnds(code) == pc' = "attempt_end" /\ rc' = code /\ UNCHANGED ctx

\* ota_ctx_free(&ctx); return code;
Return(code) == pc' = "exited" /\ rc' = code /\ manifest' = NULL /\ file' = NULL

\* A check that succeeded ends a one-shot run and lets a daemon go to sleep.
CheckSucceeds == IF daemon_mode THEN AttemptEnds(0) ELSE Return(0)

-----------------------------------------------------------------------------
(* Entering the loop *)

\* main() enters ota_fetch_run, started by the supervisor or by hand.
ota_fetch_run(d) ==
  /\ ~Running
  /\ OrphansSurvive \/ orphans = {}
  /\ pc' = "init" /\ rc' = 0
  /\ daemon_mode' = d /\ attempt' = 0 /\ g_terminate' = FALSE
  /\ verified' = NULL
  /\ NoFault
  /\ UNCHANGED <<fetch, ctx, rauc, disk, device, outside>>

ota_ctx_init ==
  /\ pc = "init"
  /\ \/ NoFault /\ pc' = "cleanup" /\ rc' = 0
     \/ Fault /\ pc' = "attempt_end" /\ rc' = -1
  /\ manifest' = NULL /\ file' = NULL
  /\ UNCHANGED <<loop, fetch, rauc, disk, device, outside, verified>>

\* Unlinks the three manifest files and every *.tmp file; what cannot be
\* unlinked stays and is only logged.
ota_inbox_cleanup ==
  /\ pc = "cleanup"
  /\ \E kept \in SUBSET {n \in Reserved : inbox[n] # NoFile},
        keptTmp \in SUBSET {n \in InboxNames : tmp[n] # NoFile} :
       /\ IF kept = {} /\ keptTmp = {} THEN NoFault ELSE Fault
       /\ inbox' = [n \in InboxNames |->
                      IF n \in Reserved \ kept THEN NoFile ELSE inbox[n]]
       /\ tmp' = [n \in InboxNames |->
                      IF n \in keptTmp THEN tmp[n] ELSE NoFile]
  /\ Goto("fetch_new_manifest")
  /\ UNCHANGED <<loop, fetch, rauc, current, durable, device, outside, verified>>

\* Up to its first call of fetch_file; an URL may fail to be built.
fetch_new_manifest ==
  /\ pc = "fetch_new_manifest"
  /\ \/ /\ NoFault
        /\ job' = "manifest" /\ failed' = FALSE /\ fetched' = {}
        /\ Goto("fetch_open")
     \/ Fault /\ AttemptEnds(-1) /\ UNCHANGED fetch
  /\ UNCHANGED <<loop, rauc, disk, device, outside, verified>>

-----------------------------------------------------------------------------
(* fetch_file, called for the three manifest files in turn and then for the *)
(* payload: write <dest>.tmp, then rename it over <dest>.                   *)

Dest == CASE job = "manifest" -> MANIFEST
          [] job = "sig"      -> SIGNATURE
          [] job = "cert"     -> SIGNER
          [] job = "payload"  -> file.filename

Url == IF job = "payload" THEN file.path ELSE Dest

\* Mutants of FetchReturns: the signature check is skipped; only the result of
\* the last download is looked at.
FetchReturns_unverified(ok) ==
  /\ failed' = (failed \/ ~ok)
  /\ fetched' = IF ok THEN fetched \cup {Dest} ELSE fetched
  /\ job' = CASE job = "manifest" -> "sig"
              [] job = "sig"      -> "cert"
              [] OTHER            -> job
  /\ CASE job \in {"manifest", "sig"} -> Goto("fetch_open")
       [] job = "cert"    -> IF failed' THEN AttemptEnds(1) ELSE Goto("compare")
       [] job = "payload" -> IF ok THEN Goto("validate_release")
                                   ELSE AttemptEnds(-1)

FetchReturns_last_result(ok) ==
  /\ failed' = ~ok
  /\ fetched' = IF ok THEN fetched \cup {Dest} ELSE fetched
  /\ job' = CASE job = "manifest" -> "sig"
              [] job = "sig"      -> "cert"
              [] OTHER            -> job
  /\ CASE job \in {"manifest", "sig"} -> Goto("fetch_open")
       [] job = "cert"    -> IF failed' THEN AttemptEnds(1) ELSE Goto("validate")
       [] job = "payload" -> IF ok THEN Goto("validate_release")
                                   ELSE AttemptEnds(-1)

\* fetch_file returns to fetch_new_manifest, which goes on after a failure and
\* reports it at the end, or to fetch_release.
FetchReturns(ok) ==
  /\ failed' = (failed \/ ~ok)
  /\ fetched' = IF ok THEN fetched \cup {Dest} ELSE fetched
  /\ job' = CASE job = "manifest" -> "sig"
              [] job = "sig"      -> "cert"
              [] OTHER            -> job
  /\ CASE job \in {"manifest", "sig"} -> Goto("fetch_open")
       [] job = "cert"    -> IF failed' THEN AttemptEnds(1) ELSE Goto("validate")
       [] job = "payload" -> IF ok THEN Goto("validate_release")
                                   ELSE AttemptEnds(-1)

fetch_file_open ==
  /\ pc = "fetch_open"
  /\ \/ /\ NoFault
        /\ tmp' = [tmp EXCEPT ![Dest] = Partial]
        /\ Goto("fetch_perform")
        /\ UNCHANGED fetch
     \/ /\ Fault
        /\ \E left \in {tmp[Dest], NoFile} : tmp' = [tmp EXCEPT ![Dest] = left]
        /\ FetchReturns(FALSE)
  /\ UNCHANGED <<loop, rauc, inbox, current, durable, device, outside, verified>>

\* curl_easy_perform: the whole body with a 2xx status, or an error.  A body
\* whose length the server did not announce may also end early, which passes for
\* its end.
fetch_file_perform ==
  /\ pc = "fetch_perform"
  /\ \/ /\ server[Url] # NoFile
        /\ \/ NoFault /\ tmp' = [tmp EXCEPT ![Dest] = server[Url]]
           \/ Fault /\ tmp' = [tmp EXCEPT ![Dest] = Partial]
        /\ Goto("fetch_rename")
        /\ UNCHANGED fetch
     \/ /\ IF server[Url] = NoFile THEN NoFault ELSE Fault
        /\ tmp' = [tmp EXCEPT ![Dest] = NoFile]
        /\ FetchReturns(FALSE)
  /\ UNCHANGED <<loop, rauc, inbox, current, durable, device, outside, verified>>

fetch_file_rename ==
  /\ pc = "fetch_rename"
  /\ \/ /\ NoFault
        /\ inbox' = [inbox EXCEPT ![Dest] = tmp[Dest]]
        /\ FetchReturns(TRUE)
     \/ /\ Fault
        /\ FetchReturns(FALSE)
        /\ UNCHANGED inbox
  /\ tmp' = [tmp EXCEPT ![Dest] = NoFile]
  /\ UNCHANGED <<loop, rauc, current, durable, device, outside, verified>>

-----------------------------------------------------------------------------
(* Verifying, comparing and parsing the manifest; each reads the file anew. *)

VerifyResult ==
  verify_signature_with_cert(inbox[MANIFEST], inbox[SIGNATURE], inbox[SIGNER],
                             manifest_ca)

validate_new_manifest ==
  /\ pc = "validate"
  /\ \/ /\ VerifyResult = "VERIFY_OK"
        /\ NoFault
        /\ verified' = inbox[MANIFEST]
        /\ Goto("compare")
     \/ /\ IF VerifyResult # "VERIFY_OK" THEN NoFault ELSE Fault
        /\ AttemptEnds(-1)
        /\ UNCHANGED verified
  /\ UNCHANGED <<loop, fetch, rauc, disk, device, outside>>

\* files_equal compares digests, and an unreadable file is an error.
files_equal(a, b) ==
  IF NoFile \in {a, b} THEN "FILES_ERR"
  ELSE IF hex_encode(a) = hex_encode(b) THEN "FILES_EQ" ELSE "FILES_NEQ"

\* stat(path) == 0.  A stat() that fails although the file is there is a fault of
\* compare_manifests.
file_exists(body) == body # NoFile

\* Mutants of CompareResult: a missing current manifest counts as equal, or as
\* an error.
CompareResult_missing_equal ==
  IF current = NoFile THEN "FILES_EQ" ELSE files_equal(current, inbox[MANIFEST])

CompareResult_missing_error == files_equal(current, inbox[MANIFEST])

CompareResult ==
  IF ~file_exists(current) THEN "FILES_NEQ" ELSE files_equal(current, inbox[MANIFEST])

\* A stat() of the current manifest that fails for any reason passes for its
\* absence; every other failing call is an error.
compare_manifests ==
  /\ pc = "compare"
  /\ \/ CompareResult = "FILES_EQ" /\ NoFault /\ CheckSucceeds
     \/ /\ IF CompareResult = "FILES_NEQ" THEN NoFault ELSE Fault
        /\ Goto("load")
     \/ /\ IF CompareResult = "FILES_ERR" THEN NoFault ELSE file_exists(current) /\ Fault
        /\ AttemptEnds(-1)
  /\ UNCHANGED <<loop, fetch, rauc, disk, device, outside, verified>>

load_inbox_manifest ==
  /\ pc = "load"
  /\ \/ /\ Parsed(inbox[MANIFEST]) # NULL
        /\ NoFault
        /\ manifest' = inbox[MANIFEST]
        /\ pc' = "fetch_release"
        /\ UNCHANGED <<rc, file>>
     \/ /\ IF Parsed(inbox[MANIFEST]) = NULL THEN NoFault ELSE Fault
        /\ AttemptEnds(-1)
  /\ UNCHANGED <<loop, fetch, rauc, disk, device, outside, verified>>

-----------------------------------------------------------------------------
(* The payload *)

\* Up to its call of fetch_file.
fetch_release ==
  /\ pc = "fetch_release"
  /\ \/ /\ FileFor(manifest) # NULL
        /\ NoFault
        /\ file' = FileFor(manifest)
        /\ job' = "payload" /\ failed' = FALSE /\ UNCHANGED fetched
        /\ pc' = "fetch_open"
        /\ UNCHANGED <<rc, manifest>>
     \/ /\ IF FileFor(manifest) = NULL THEN NoFault ELSE Fault
        /\ AttemptEnds(-1)
        /\ UNCHANGED fetch
  /\ UNCHANGED <<loop, rauc, disk, device, outside, verified>>

\* Mutant of PayloadHashMatches: only the presence of the payload is checked.
PayloadHashMatches_presence == inbox[file.filename] # NoFile

PayloadHashMatches == hex_encode(inbox[file.filename]) = file.sha256

validate_release ==
  /\ pc = "validate_release"
  /\ \/ PayloadHashMatches /\ NoFault /\ Goto("apply")
     \/ /\ IF PayloadHashMatches THEN Fault ELSE NoFault
        /\ AttemptEnds(-1)
  /\ UNCHANGED <<loop, fetch, rauc, disk, device, outside, verified>>

\* Up to waitpid, or up to make_new_manifest_current.
apply_release ==
  /\ pc = "apply"
  /\ \/ /\ file.file_type = "rauc_bundle_test"
        /\ NoFault
        /\ Goto("unlink_current")
        /\ UNCHANGED rauc
     \/ /\ file.file_type = "rauc_bundle"
        /\ NoFault
        /\ rauc' = [state |-> "running", bundle |-> NoFile]
        /\ Goto("waitpid")
     \/ /\ file.file_type = "rauc_bundle"   \* fork failed
        /\ Fault
        /\ AttemptEnds(-1)
        /\ UNCHANGED rauc
     \/ /\ file.file_type \notin {"rauc_bundle_test", "rauc_bundle"}
        /\ NoFault
        /\ AttemptEnds(1)
        /\ UNCHANGED rauc
  /\ UNCHANGED <<loop, fetch, disk, device, outside, verified>>

\* Mutant of waitpid: the exit status is not looked at.
waitpid_status_ignored ==
  /\ pc = "waitpid"
  /\ rauc.state \in {"ok", "failed"}
  /\ Goto("unlink_current")
  /\ rauc' = NoChild
  /\ NoFault
  /\ UNCHANGED <<loop, fetch, disk, device, outside, verified>>

waitpid ==
  /\ pc = "waitpid"
  /\ \/ rauc.state = "ok" /\ Goto("unlink_current")
     \/ rauc.state = "failed" /\ AttemptEnds(-1)
  /\ rauc' = NoChild
  /\ NoFault
  /\ UNCHANGED <<loop, fetch, disk, device, outside, verified>>

-----------------------------------------------------------------------------
(* make_new_manifest_current: unlink, then rename, whether or not the       *)
(* unlink succeeded.                                                        *)

unlink_current ==
  /\ pc = "unlink_current"
  /\ \/ NoFault /\ current' = NoFile /\ durable' = durable \cup {NoFile}
     \/ current # NoFile /\ Fault /\ UNCHANGED <<current, durable>>
  /\ Goto("rename_manifest")
  /\ UNCHANGED <<loop, fetch, rauc, inbox, tmp, device, outside, verified>>

\* Neither the file nor the directory is synced, so until sync() a power cut
\* may bring back an older state or leave the new name without its data.
rename_manifest ==
  /\ pc = "rename_manifest"
  /\ \/ /\ NoFault
        /\ current' = inbox[MANIFEST]
        /\ durable' = durable \cup {inbox[MANIFEST], Torn}
        /\ inbox' = [inbox EXCEPT ![MANIFEST] = NoFile]
        /\ IF file.file_type = "rauc_bundle" THEN Goto("reboot") ELSE CheckSucceeds
     \/ /\ Fault
        /\ AttemptEnds(IF file.file_type = "rauc_bundle" THEN 1 ELSE -1)
        /\ UNCHANGED <<inbox, current, durable>>
  /\ UNCHANGED <<loop, fetch, rauc, tmp, device, outside, verified>>

\* sync(); reboot(RB_AUTOBOOT); a reboot that fails is not noticed.
sync_and_reboot ==
  /\ pc = "reboot"
  /\ durable' = {current}
  /\ \/ /\ NoFault
        /\ pc' = "off" /\ manifest' = NULL /\ file' = NULL
        /\ booted' = slot /\ orphans' = {}
        /\ UNCHANGED rc
     \/ /\ Fault
        /\ CheckSucceeds
        /\ UNCHANGED <<booted, orphans>>
  /\ UNCHANGED <<loop, fetch, rauc, inbox, tmp, current, slot, installs, outside,
                 verified>>

-----------------------------------------------------------------------------
(* The end of an attempt *)

\* Mutants of attempt_end: one attempt too many, and counting down.
attempt_end_off_by_one ==
  /\ pc = "attempt_end"
  /\ attempt' = IF daemon_mode THEN attempt ELSE attempt + 1
  /\ pc' = IF daemon_mode \/ attempt' <= retry_attempts THEN "sleep" ELSE "exited"
  /\ manifest' = NULL /\ file' = NULL
  /\ NoFault
  /\ UNCHANGED <<rc, daemon_mode, g_terminate, fetch, rauc, disk, device, outside,
                 verified>>

attempt_end_counts_down ==
  /\ pc = "attempt_end"
  /\ attempt' = IF daemon_mode THEN attempt ELSE attempt - 1
  /\ pc' = IF daemon_mode \/ attempt' < retry_attempts THEN "sleep" ELSE "exited"
  /\ manifest' = NULL /\ file' = NULL
  /\ NoFault
  /\ UNCHANGED <<rc, daemon_mode, g_terminate, fetch, rauc, disk, device, outside,
                 verified>>

attempt_end ==
  /\ pc = "attempt_end"
  /\ attempt' = IF daemon_mode THEN attempt ELSE attempt + 1
  /\ pc' = IF daemon_mode \/ attempt' < retry_attempts THEN "sleep" ELSE "exited"
  /\ manifest' = NULL /\ file' = NULL
  /\ NoFault
  /\ UNCHANGED <<rc, daemon_mode, g_terminate, fetch, rauc, disk, device, outside,
                 verified>>

\* Mutant of sleep: g_terminate is never read.
sleep_flag_unread ==
  /\ pc = "sleep"
  /\ Goto("init")
  /\ NoFault
  /\ UNCHANGED <<loop, fetch, rauc, disk, device, outside, verified>>

\* The interval is over or a signal arrived; only here is g_terminate read.
sleep ==
  /\ pc = "sleep"
  /\ IF g_terminate THEN Return(0) ELSE Goto("init")
  /\ NoFault
  /\ UNCHANGED <<loop, fetch, rauc, disk, device, outside, verified>>

-----------------------------------------------------------------------------
(* Signals, kills and power cuts *)

ChildRuns == rauc.state = "running"

\* What becomes of the child when the process stops waiting for it.
Abandon ==
  /\ rauc' = NoChild
  /\ orphans' = IF ChildRuns
                THEN orphans \cup {[path |-> file.filename, bundle |-> rauc.bundle]}
                ELSE orphans

\* Mutant of handle_termination_signal: an interrupted waitpid passes for the
\* end of a successful installation.
handle_termination_signal_wait_succeeds ==
  /\ Running
  /\ Fault
  /\ g_terminate' = TRUE
  /\ IF pc = "waitpid" /\ ChildRuns
     THEN Goto("unlink_current") /\ Abandon
     ELSE UNCHANGED <<pc, rc, ctx, rauc, orphans>>
  /\ UNCHANGED <<daemon_mode, attempt, fetch, disk, slot, booted, installs, outside,
                 verified>>

\* SIGTERM or SIGINT.  The handler is installed without SA_RESTART, so a
\* blocked waitpid returns -1.
handle_termination_signal ==
  /\ Running
  /\ Fault
  /\ g_terminate' = TRUE
  /\ IF pc = "waitpid" /\ ChildRuns
     THEN AttemptEnds(-1) /\ Abandon
     ELSE UNCHANGED <<pc, rc, ctx, rauc, orphans>>
  /\ UNCHANGED <<daemon_mode, attempt, fetch, disk, slot, booted, installs, outside,
                 verified>>

Kill ==
  /\ Running
  /\ Fault
  /\ pc' = "off" /\ manifest' = NULL /\ file' = NULL
  /\ Abandon
  /\ UNCHANGED <<rc, loop, fetch, disk, slot, booted, installs, outside, verified>>

\* What a power cut may leave of a directory that is never synced: of the files
\* there, some are lost and some lose their data.
Present(dir) == {n \in InboxNames : dir[n] # NoFile}

Surviving(dir) ==
  {[n \in InboxNames |-> IF n \in lost THEN NoFile
                         ELSE IF n \in torn THEN Torn ELSE dir[n]] :
     lost \in SUBSET Present(dir), torn \in SUBSET Present(dir)}

PowerCut ==
  /\ Fault
  /\ pc' = "off" /\ manifest' = NULL /\ file' = NULL
  /\ rauc' = NoChild /\ orphans' = {}
  /\ booted' = slot
  /\ current' \in durable /\ durable' = {current'}
  /\ inbox' \in Surviving(inbox) /\ tmp' \in Surviving(tmp)
  /\ UNCHANGED <<rc, loop, fetch, slot, installs, outside, verified>>

-----------------------------------------------------------------------------
(* The RAUC child: "rauc install <payload_path>" opens the path some time    *)
(* after the fork, and installs what it opened or fails.                     *)

\* RAUC can install what it opened, or what it would find at the path now.
Installable(path, bundle) ==
  (IF bundle = NoFile THEN inbox[path] ELSE bundle) \in Bundles

RaucOpens ==
  /\ ChildRuns /\ rauc.bundle = NoFile
  /\ inbox[file.filename] # NoFile
  /\ rauc' = [rauc EXCEPT !.bundle = inbox[file.filename]]
  /\ NoFault
  /\ UNCHANGED <<pc, rc, loop, fetch, ctx, disk, device, outside, verified>>

RaucInstalls ==
  /\ ChildRuns /\ rauc.bundle \in Bundles
  /\ rauc' = [rauc EXCEPT !.state = "ok"]
  /\ slot' = rauc.bundle /\ installs' = installs \cup {rauc.bundle}
  /\ NoFault
  /\ UNCHANGED <<pc, rc, loop, fetch, ctx, disk, orphans, booted, outside, verified>>

\* execvp failed, a non-zero exit status, or a signal to the child.
RaucFails ==
  /\ ChildRuns
  /\ rauc' = [rauc EXCEPT !.state = "failed"]
  /\ IF Installable(file.filename, rauc.bundle) THEN Fault ELSE NoFault
  /\ UNCHANGED <<pc, rc, loop, fetch, ctx, disk, device, outside, verified>>

OrphanOpens(o) ==
  /\ o.bundle = NoFile /\ inbox[o.path] # NoFile
  /\ orphans' = (orphans \ {o}) \cup {[o EXCEPT !.bundle = inbox[o.path]]}
  /\ NoFault
  /\ UNCHANGED <<pc, rc, loop, fetch, ctx, rauc, disk, slot, booted, installs,
                 outside, verified>>

OrphanInstalls(o) ==
  /\ o.bundle \in Bundles
  /\ orphans' = orphans \ {o}
  /\ slot' = o.bundle /\ installs' = installs \cup {o.bundle}
  /\ NoFault
  /\ UNCHANGED <<pc, rc, loop, fetch, ctx, rauc, disk, booted, outside, verified>>

OrphanFails(o) ==
  /\ orphans' = orphans \ {o}
  /\ IF Installable(o.path, o.bundle) THEN Fault ELSE NoFault
  /\ UNCHANGED <<pc, rc, loop, fetch, ctx, rauc, disk, slot, booted, installs,
                 outside, verified>>

\* A supervisor that stops the whole process group takes the children along.
StopGroup ==
  /\ ~OrphansSurvive /\ ~Running /\ orphans # {}
  /\ orphans' = {}
  /\ NoFault
  /\ UNCHANGED <<pc, rc, loop, fetch, ctx, rauc, disk, slot, booted, installs,
                 outside, verified>>

\* The publisher replaces one file at a time.
Publish ==
  /\ published < MaxPublish
  /\ \E p \in Publishable :
       /\ server[p[1]] # p[2]
       /\ server' = [server EXCEPT ![p[1]] = p[2]]
  /\ published' = published + 1
  /\ NoFault
  /\ UNCHANGED <<pc, rc, loop, fetch, ctx, rauc, disk, device, verified>>

-----------------------------------------------------------------------------
Step ==
  \/ ota_ctx_init \/ ota_inbox_cleanup \/ fetch_new_manifest
  \/ fetch_file_open \/ fetch_file_perform \/ fetch_file_rename
  \/ validate_new_manifest \/ compare_manifests \/ load_inbox_manifest
  \/ fetch_release \/ validate_release \/ apply_release \/ waitpid
  \/ unlink_current \/ rename_manifest \/ sync_and_reboot
  \/ attempt_end \/ sleep

Rauc == RaucOpens \/ RaucInstalls \/ RaucFails

Orphan == \E o \in orphans : OrphanOpens(o) \/ OrphanInstalls(o) \/ OrphanFails(o)

Next ==
  \/ \E d \in Modes : ota_fetch_run(d)
  \/ Step \/ handle_termination_signal \/ Kill \/ PowerCut
  \/ Rauc \/ Orphan \/ StopGroup
  \/ Publish

Spec == Init /\ [][Next]_vars

\* The process is scheduled, transfers and sleeps end, RAUC ends, and a
\* supervisor restarts what exited.
Fairness ==
  /\ WF_vars(Step)
  /\ WF_vars(Rauc)
  /\ WF_vars(Orphan)
  /\ WF_vars(StopGroup)
  /\ WF_vars(\E d \in Modes : ota_fetch_run(d))

FairSpec == Spec /\ Fairness

-----------------------------------------------------------------------------
(* Properties *)

TypeOK ==
  /\ pc \in {"off", "exited", "init", "cleanup", "fetch_new_manifest",
             "fetch_open", "fetch_perform", "fetch_rename", "validate", "compare",
             "load", "fetch_release",
             "validate_release", "apply", "waitpid", "unlink_current",
             "rename_manifest", "reboot", "attempt_end", "sleep"}
  /\ daemon_mode \in BOOLEAN /\ g_terminate \in BOOLEAN /\ failed \in BOOLEAN
  /\ attempt \in Nat /\ rc \in {-1, 0, 1}
  /\ job \in {"manifest", "sig", "cert", "payload"} /\ fetched \subseteq InboxNames
  /\ tmp \in [InboxNames -> Bodies \cup {NoFile, Partial, Torn}]
  /\ inbox \in [InboxNames -> Bodies \cup {NoFile, Partial, Torn}]
  /\ rauc \in [state : {"none", "running", "ok", "failed"},
               bundle : Bodies \cup {NoFile, Partial, Torn}]
  /\ orphans \subseteq [path : Filenames, bundle : Bodies \cup {NoFile, Partial, Torn}]
  /\ current \in Bodies \cup {NoFile, Partial, Torn}
  /\ durable \subseteq Bodies \cup {NoFile, Partial, Torn} /\ current \in durable
  /\ slot \in Bundles \cup {Factory} /\ booted \in Bundles \cup {Factory}
  /\ installs \subseteq Bundles
  /\ manifest \in Manifests \cup {NULL} /\ verified \in Manifests \cup {NULL}
  /\ server \in [Urls -> Bodies \cup {NoFile}]
  /\ published \in 0..MaxPublish /\ faults \in 0..MaxFaults

\* m carries a signature that this device accepts.
Authentic(m) ==
  \E s \in Sigs, c \in Certs :
    verify_signature_with_cert(m, s, c, manifest_ca) = "VERIFY_OK"

\* b is the payload m lists for this device.
Fits(b, m) == FileFor(m) # NULL /\ FileFor(m).sha256 = hex_encode(b)

\* b is the payload of a signed manifest.
Vouched(b) == \E m \in Manifests : Authentic(m) /\ Fits(b, m)

IsTest(m) == FileFor(m) # NULL /\ FileFor(m).file_type = "rauc_bundle_test"

Applied(m) == Authentic(m) /\ (IsTest(m) \/ \E b \in installs : Fits(b, m))

\* "Stores the active manifest.json after a successful update" (README.md:121):
\* whatever was interrupted, the current manifest is one that passed signature
\* verification and whose payload RAUC has installed.  A power cut may also
\* leave no file, or one without data.
CurrentWasApplied ==
  current \in {NoFile, Torn} \/ (current \in Manifests /\ Applied(current))

\* RAUC only ever installs payloads whose digest an authentic manifest lists for
\* this device (validate_release before apply_release).
OnlyValidatedInstalled == \A b \in installs : Vouched(b)

\* The manifest the process acts on is the one whose signature it checked, even
\* though verification, comparison and parsing each read the file again.
LoadedIsVerified == manifest # NULL => manifest = verified

\* An attempt relies on files of its own only: nothing an earlier attempt left
\* behind completes the set it verifies or stands in for the payload it hands
\* over, although ota_inbox_cleanup ignores what it cannot unlink and
\* fetch_new_manifest fetches on after a failed download.
UsesOwnFiles ==
  /\ pc \in {"validate", "compare", "load", "fetch_release", "validate_release",
             "apply", "waitpid", "unlink_current", "rename_manifest", "reboot"}
       => Reserved \subseteq fetched
  /\ pc \in {"validate_release", "apply", "waitpid", "unlink_current",
             "rename_manifest", "reboot"}
       => file.filename \in fetched

\* What a RAUC child has opened, or would find at its path now.
Target(o) == IF o.bundle = NoFile THEN inbox[o.path] ELSE o.bundle

\* A RAUC child is given a path (apply_release), not the data validate_release
\* hashed.  Even so what it opens, now or later, waited for or left behind, has
\* the digest an authentic manifest lists, although truncated bodies and files
\* that a power cut tore do get under their final names.
RaucOpensListed ==
  /\ ChildRuns => Fits(Target([path |-> file.filename, bundle |-> rauc.bundle]),
                       verified)
  /\ \A o \in orphans : Vouched(Target(o))

\* The previous manifest is given up only for a verified one that has been
\* applied: make_new_manifest_current runs last.
OldManifestKeptUntilApplied ==
  [][(current \in Manifests /\ current' # current /\ pc' # "off")
       => Applied(verified)]_vars

\* A one-shot run that exits 0 without having been told to terminate leaves the
\* manifest it verified as the current one.
ExitZeroMeansCurrent ==
  [][Running /\ pc' = "exited" /\ rc' = 0 /\ ~g_terminate
       => ~daemon_mode /\ verified # NULL /\ current' = verified]_vars

\* A one-shot run reports failure only after all its attempts, and never makes
\* more than retry_attempts of them (one, if that is not positive).
RetryBudget ==
  [][Running /\ pc' = "exited" /\ rc' # 0
       => attempt' = (IF retry_attempts > 1 THEN retry_attempts ELSE 1)]_vars

\* What the server offers is complete and acceptable to this device.
ServerConsistent ==
  LET m == server[MANIFEST]
  IN  /\ m \in Manifests
      /\ verify_signature_with_cert(m, server[SIGNATURE], server[SIGNER],
                                    manifest_ca) = "VERIFY_OK"
      /\ FileFor(m) # NULL
      /\ FileFor(m).file_type \in {"rauc_bundle", "rauc_bundle_test"}
      /\ Fits(server[FileFor(m).path], m)

\* Once the publisher is done and failures stop, the offered manifest becomes
\* and stays the current one.
Converges == <>[]ServerConsistent => <>[](current = server[MANIFEST])

\* A process that was told to terminate does.
TerminatesOnSignal == g_terminate /\ Running ~> ~Running

-----------------------------------------------------------------------------
(* Refinement: seen from outside, the update loop is an update ledger. *)

Ledger ==
  INSTANCE UpdateLedger WITH
    Trusted <- {m \in Manifests : Authentic(m)},
    Simulated <- {m \in Manifests : IsTest(m)},
    active <- current, recoverable <- durable

\* The loop implements the ledger when no RAUC child outlives its process.
ImplementsLedger == Ledger!Spec

-----------------------------------------------------------------------------
(* What the documentation says and the code does not keep *)

\* "@return 0 on success, non-zero on failure" (ota_fetch.h:40): a one-shot run
\* that returns 0 leaves the verified manifest as the current one.
ReturnsZeroOnSuccess ==
  [][Running /\ pc' = "exited" /\ rc' = 0 /\ ~daemon_mode
       => verified # NULL /\ current' = verified]_vars

\* "Stores the active manifest.json after a successful update" (README.md:121):
\* a manifest that compare_manifests finds unchanged, and therefore reports as
\* up to date, is that of the bundle RAUC activated last.
UpToDateMeansInstalled ==
  pc = "compare" /\ CompareResult = "FILES_EQ" => Fits(slot, current)

\* "on success moves the manifest to current_manifest_dir and triggers a reboot"
\* (README.md:212): a system that was installed is eventually running.
InstalledIsBooted == slot # booted ~> slot = booted
=============================================================================
