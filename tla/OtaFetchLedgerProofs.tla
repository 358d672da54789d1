------------------------ MODULE OtaFetchLedgerProofs ------------------------
(***************************************************************************)
(* Proofs about OtaFetch when no RAUC child outlives its process: only     *)
(* validated bundles are installed, the loop implements UpdateLedger, and  *)
(* with a publisher who goes only forward an unchanged manifest is that of *)
(* the bundle activated last.                                              *)
(***************************************************************************)
EXTENDS OtaFetchProofs

\* A child nobody waits for belongs to a process that is about to stop, so the
\* inbox does not change under it; and only the child being waited for writes
\* the slot that make_new_manifest_current relies on.
OrphanInv ==
  /\ orphans # {} => \/ pc \in {"attempt_end", "sleep"} /\ g_terminate = TRUE
                     \/ pc \in {"exited", "off"}
  /\ \A o \in orphans : Vouched(Target(o))

SlotInv ==
  /\ OnlyValidatedInstalled
  /\ rauc.state = "ok" => slot = rauc.bundle
  /\ pc \in {"unlink_current", "rename_manifest"} =>
       IsTest(verified) \/ Fits(slot, verified)

SoleInv == OrphanInv /\ SlotInv

\* The payload that passed validate_release is that of the verified manifest.
LEMMA PayloadFits ==
  ASSUME TypeInv, SafeInv, pc = "waitpid"
  PROVE  /\ verified = inbox[MANIFEST] /\ verified \in Manifests /\ Authentic(verified)
         /\ Fits(inbox[file.filename], verified)
<1>1. /\ verified = inbox[MANIFEST] /\ verified \in Manifests /\ Authentic(verified)
      /\ file = FileFor(verified) /\ file # NULL
      /\ file.sha256 = hex_encode(inbox[file.filename])
  BY DEF TypeInv, CtxInv, Holding, SafeInv, StageInv, VerifiedStage, ValidatedStage,
         LoadedIsVerified
<1> QED
  BY <1>1 DEF Fits

\* So it is vouched for.
LEMMA PayloadVouched ==
  ASSUME TypeInv, SafeInv, pc = "waitpid"
  PROVE  Vouched(inbox[file.filename])
BY PayloadFits DEF Vouched

\* When children die with their process, the only one left behind is that of a
\* process that is still being stopped, and its payload is not replaced.
LEMMA OrphanNext ==
  ASSUME ~OrphansSurvive, TypeInv, SafeInv, SoleInv, [Next]_vars
  PROVE  OrphanInv'
<1> USE DEF SoleInv, OrphanInv, loop, fetch, ctx, disk, device
<1>1. CASE Step
  <2>1. CASE orphans = {}
    BY <1>1, <2>1, Zenon DEF Step, ota_ctx_init, ota_inbox_cleanup, fetch_new_manifest,
      fetch_file_open,
      fetch_file_perform, fetch_file_rename, validate_new_manifest, compare_manifests,
      load_inbox_manifest, fetch_release, validate_release, apply_release, waitpid,
      unlink_current, rename_manifest, sync_and_reboot, attempt_end, sleep
  <2>2. CASE orphans # {}
    <3>1. attempt_end \/ sleep
      BY <1>1, <2>2, Zenon DEF Step, ota_ctx_init, ota_inbox_cleanup, fetch_new_manifest,
        fetch_file_open,
        fetch_file_perform, fetch_file_rename, validate_new_manifest, compare_manifests,
        load_inbox_manifest, fetch_release, validate_release, apply_release, waitpid,
        unlink_current, rename_manifest, sync_and_reboot
    <3>2. UNCHANGED <<orphans, inbox, g_terminate>>
      BY <3>1 DEF attempt_end, sleep
    <3>3. pc' \in {"sleep", "exited"}
      BY <2>2, <3>1 DEF attempt_end, sleep, Return
    <3> QED BY <2>2, <3>1, <3>2, <3>3 DEF Target, attempt_end, sleep
  <2> QED BY <2>1, <2>2, Zenon
<1>2. ASSUME NEW d \in Modes, ota_fetch_run(d) PROVE OrphanInv'
  BY <1>2 DEF ota_fetch_run
<1>3. CASE handle_termination_signal \/ Kill
  <2>1. UNCHANGED inbox
    BY <1>3 DEF handle_termination_signal, Kill
  <2>2. \A o \in orphans' : o \in orphans
          \/ (ChildRuns /\ o = [path |-> file.filename, bundle |-> rauc.bundle])
    BY <1>3 DEF handle_termination_signal, Kill, Abandon
  <2>3. ChildRuns => Vouched(Target([path |-> file.filename, bundle |-> rauc.bundle]))
    <3> SUFFICES ASSUME ChildRuns
                 PROVE  Vouched(Target([path |-> file.filename,
                 bundle |-> rauc.bundle]))
      OBVIOUS
    <3>1. pc = "waitpid" /\ (rauc.bundle # NoFile => rauc.bundle = inbox[file.filename])
      BY DEF ChildRuns, SafeInv, RaucInv, TypeInv, CtxInv
    <3>2. Target([path |-> file.filename,
    bundle |-> rauc.bundle]) = inbox[file.filename]
      BY <3>1 DEF Target
    <3> QED BY <3>1, <3>2, PayloadVouched
  <2>4. orphans' # {} => \/ pc' \in {"attempt_end", "sleep"} /\ g_terminate' = TRUE
                         \/ pc' \in {"exited", "off"}
    BY <1>3 DEF handle_termination_signal, Kill, Abandon, AttemptEnds
  <2> QED BY <2>1, <2>2, <2>3, <2>4 DEF Target
<1>4. CASE PowerCut \/ StopGroup
  BY <1>4 DEF PowerCut, StopGroup
<1>5. CASE RaucOpens \/ RaucInstalls \/ RaucFails \/ Publish \/ UNCHANGED vars
  BY <1>5 DEF RaucOpens, RaucInstalls, RaucFails, Publish, vars, Target
<1>6. ASSUME NEW o \in orphans, OrphanOpens(o) PROVE OrphanInv'
  BY <1>6, Sentinels DEF OrphanOpens, Target, TypeInv, TypeOK
<1>7. ASSUME NEW o \in orphans, OrphanInstalls(o) \/ OrphanFails(o) PROVE OrphanInv'
  BY <1>7 DEF OrphanInstalls, OrphanFails, Target
<1> QED
  BY <1>1, <1>2, <1>3, <1>4, <1>5, <1>6, <1>7, Zenon DEF Next, Rauc, Orphan

\* Only the steps that fetch, apply and wait come before unlink_current, and no
\* other step touches the child or the slot.
LEMMA OtherSteps ==
  ASSUME Step, ~waitpid, ~apply_release, ~fetch_file_open, ~fetch_file_perform,
         ~fetch_file_rename
  PROVE  /\ UNCHANGED <<rauc, slot, installs>>
         /\ pc' \in {"unlink_current", "rename_manifest"} =>
              pc = "unlink_current" /\ UNCHANGED verified
<1> USE DEF device, Goto, AttemptEnds, CheckSucceeds, Return
<1>1. CASE ota_ctx_init \/ ota_inbox_cleanup \/ fetch_new_manifest
  BY <1>1 DEF ota_ctx_init, ota_inbox_cleanup, fetch_new_manifest
<1>2. CASE validate_new_manifest \/ compare_manifests \/ load_inbox_manifest
  BY <1>2 DEF validate_new_manifest, compare_manifests, load_inbox_manifest
<1>3. CASE fetch_release \/ validate_release \/ attempt_end \/ sleep
  BY <1>3 DEF fetch_release, validate_release, attempt_end, sleep
<1>4. CASE unlink_current \/ rename_manifest \/ sync_and_reboot
  BY <1>4 DEF unlink_current, rename_manifest, sync_and_reboot
<1> QED
  BY <1>1, <1>2, <1>3, <1>4 DEF Step

\* The boot slot holds the bundle of the manifest that is about to be recorded.
LEMMA SlotNext ==
  ASSUME ~OrphansSurvive, TypeInv, SafeInv, SoleInv, [Next]_vars
  PROVE  SlotInv'
<1> USE DEF SoleInv, SlotInv, loop, fetch, ctx, disk, device
<1>1. CASE waitpid
  <2>1. pc' = "unlink_current" => Fits(slot, verified)
    <3> SUFFICES ASSUME rauc.state = "ok" PROVE Fits(slot, verified)
      BY <1>1 DEF waitpid, AttemptEnds
    <3>1. slot = inbox[file.filename] /\ pc = "waitpid" /\ manifest = verified
      BY Sentinels DEF SafeInv, RaucInv, TypeInv, TypeOK, CtxInv, Bodies, StageInv,
                       LoadedIsVerified, Holding
    <3> QED BY <3>1 DEF Fits, SafeInv, StageInv, ValidatedStage, TypeInv, CtxInv,
    Holding
  <2> QED
    BY <1>1, <2>1 DEF waitpid, AttemptEnds, Goto, NoChild, OnlyValidatedInstalled
<1>2. CASE apply_release
  <2>1. IsTest(verified) \/ pc' # "unlink_current"
    BY <1>2 DEF apply_release, Goto, AttemptEnds, IsTest, SafeInv, StageInv,
                LoadedIsVerified, TypeInv, CtxInv, Holding
  <2>2. pc' \notin {"rename_manifest"} /\ rauc'.state # "ok"
    BY <1>2 DEF apply_release, Goto, AttemptEnds, TypeInv, CtxInv
  <2> QED
    BY <1>2, <2>1, <2>2 DEF apply_release, OnlyValidatedInstalled
<1>3. CASE fetch_file_open \/ fetch_file_perform \/ fetch_file_rename
  <2>1. pc \in Fetching /\ UNCHANGED <<rauc, slot, installs>>
    BY <1>3, Zenon DEF fetch_file_open, fetch_file_perform, fetch_file_rename, Fetching
  <2>2. pc' \in Fetching \/ FetchReturned
    BY <1>3, <2>1, FetchReturnsTo, Zenon
    DEF fetch_file_open, fetch_file_perform, fetch_file_rename, Fetching, Goto
  <2> QED
    BY <2>1, <2>2 DEF FetchReturned, Fetching, OnlyValidatedInstalled
<1>4. CASE Step /\ ~waitpid /\ ~apply_release /\ ~fetch_file_open
           /\ ~fetch_file_perform /\ ~fetch_file_rename
  <2>1. /\ UNCHANGED <<rauc, slot, installs>>
        /\ pc' \in {"unlink_current", "rename_manifest"} =>
             pc = "unlink_current" /\ UNCHANGED verified
    BY <1>4, OtherSteps
  <2> QED BY <2>1 DEF OnlyValidatedInstalled
<1>5. CASE RaucInstalls
  <2>1. pc = "waitpid" /\ rauc.bundle = inbox[file.filename]
    BY <1>5, Sentinels DEF RaucInstalls, ChildRuns, TypeInv, CtxInv, SafeInv, RaucInv,
                           Bodies
  <2>2. Vouched(rauc.bundle)
    BY <2>1, PayloadVouched
  <2> QED
    BY <1>5, <2>1, <2>2 DEF RaucInstalls, OnlyValidatedInstalled, Vouched, TypeInv,
      TypeOK
<1>6. ASSUME NEW o \in orphans, OrphanInstalls(o) PROVE SlotInv'
  <2>1. Vouched(o.bundle)
    BY <1>6, Sentinels, SMTT(30) DEF OrphanInv, OrphanInstalls, Target, Bodies
  <2>2. pc \in {"attempt_end", "sleep", "exited", "off"}
    BY DEF OrphanInv
  <2> QED
    BY <1>6, <2>1, <2>2, SMTT(30) DEF OrphanInstalls, OnlyValidatedInstalled, Vouched, TypeInv,
      CtxInv
<1>7. CASE RaucOpens \/ RaucFails
  BY <1>7 DEF RaucOpens, RaucFails, ChildRuns, TypeInv, TypeOK, OnlyValidatedInstalled
<1>8. ASSUME NEW o \in orphans, OrphanOpens(o) \/ OrphanFails(o) PROVE SlotInv'
  BY <1>8 DEF OrphanOpens, OrphanFails, OnlyValidatedInstalled
<1>9. ASSUME NEW d \in Modes, ota_fetch_run(d) PROVE SlotInv'
  BY <1>9 DEF ota_fetch_run, OnlyValidatedInstalled
<1>10. CASE handle_termination_signal \/ Kill \/ PowerCut
  BY <1>10 DEF handle_termination_signal, Kill, PowerCut, Abandon, AttemptEnds, NoChild,
               OnlyValidatedInstalled
<1>11. CASE StopGroup \/ Publish \/ UNCHANGED vars
  BY <1>11 DEF StopGroup, Publish, vars, OnlyValidatedInstalled
<1> QED
  BY <1>1, <1>2, <1>3, <1>4, <1>5, <1>6, <1>7, <1>8, <1>9, <1>10, <1>11
  DEF Next, Rauc, Orphan

\* SoleInv holds throughout when no child outlives its process.
LEMMA SoleAlways ==
  ASSUME NoReservedNames, ~OrphansSurvive
  PROVE  Spec => [](TypeInv /\ SafeInv /\ SoleInv)
<1>1. Init => SoleInv
  BY DEF Init, SoleInv, OrphanInv, SlotInv, OnlyValidatedInstalled, NoChild
<1>2. TypeInv /\ SafeInv /\ SoleInv /\ [Next]_vars => SoleInv'
  BY OrphanNext, SlotNext DEF SoleInv
<1> QED
  BY <1>1, <1>2, SafeAlways, PTL DEF Spec

\* RAUC installs only what validate_release accepted for an authentic manifest,
\* when the supervisor lets no child outlive the process and no payload is named
\* like a manifest file.  The run orphan_install violates its property without the
\* first; without the second a payload can take the place of the manifest in the
\* inbox after it was verified.
THEOREM InstallsAreValidated ==
  ASSUME NoReservedNames, ~OrphansSurvive
  PROVE  Spec => []OnlyValidatedInstalled
<1>1. SoleInv => OnlyValidatedInstalled
  BY DEF SoleInv, SlotInv
<1> QED
  BY <1>1, SoleAlways, PTL

\* A RAUC child that is given a path finds there, for as long as it may open it, the
\* payload that validate_release accepted, under the same two conditions: the daemon
\* must stop after an interrupted wait, and the child must not outlive it, because the
\* next attempt replaces the file.
THEOREM ChildOpensListed ==
  ASSUME NoReservedNames, ~OrphansSurvive
  PROVE  Spec => []RaucOpensListed
<1>1. TypeInv /\ SafeInv /\ SoleInv => RaucOpensListed
  <2> SUFFICES ASSUME TypeInv, SafeInv, SoleInv, ChildRuns
               PROVE  Fits(Target([path |-> file.filename, bundle |-> rauc.bundle]), verified)
    BY Zenon DEF RaucOpensListed, SoleInv, OrphanInv
  <2>1. pc = "waitpid" /\ (rauc.bundle # NoFile => rauc.bundle = inbox[file.filename])
    BY DEF ChildRuns, SafeInv, RaucInv, TypeInv, CtxInv
  <2>2. Target([path |-> file.filename, bundle |-> rauc.bundle]) = inbox[file.filename]
    BY <2>1 DEF Target
  <2> QED BY <2>1, <2>2, PayloadFits
<1> QED
  BY <1>1, SoleAlways, PTL

\* Every step of the loop is a step of the ledger or leaves it alone.
LEMMA LedgerNext ==
  ASSUME TypeInv, SafeInv, SoleInv, [Next]_vars
  PROVE  [Ledger!Next]_<<slot, current, durable>>
<1> DEFINE Same == UNCHANGED <<slot, current, durable>>
<1> USE DEF loop, fetch, ctx, disk, device
<1>a. ASSUME pc \in {"unlink_current", "rename_manifest"}
      PROVE  /\ verified = inbox[MANIFEST]
             /\ verified \in {x \in Manifests : Authentic(x)}
             /\ Ledger!Ready(verified)
  <2>1. verified = inbox[MANIFEST] /\ verified \in Manifests /\ Authentic(verified)
    BY <1>a DEF SafeInv, StageInv, VerifiedStage
  <2>2. IsTest(verified) \/ Fits(slot, verified)
    BY <1>a DEF SoleInv, SlotInv
  <2>3. Ledger!Ready(verified)
    BY <2>1, <2>2 DEF Ledger!Ready
  <2> QED BY <2>1, <2>3
<1>1. CASE unlink_current
  <2>1. pc = "unlink_current"
    BY <1>1 DEF unlink_current
  <2> QED BY <1>1, <1>a, <2>1 DEF unlink_current, Ledger!Next, Ledger!Discard
<1>2. CASE rename_manifest
  <2>1. pc = "rename_manifest"
    BY <1>2 DEF rename_manifest
  <2>2. Same \/ Ledger!Record
    BY <1>2, <1>a, <2>1 DEF rename_manifest, Ledger!Record
  <2> QED BY <2>2 DEF Ledger!Next
<1>3. CASE sync_and_reboot
  BY <1>3, SMTT(30) DEF sync_and_reboot, Ledger!Next, Ledger!Flush
<1>4. CASE Step /\ ~unlink_current /\ ~rename_manifest /\ ~sync_and_reboot
  BY <1>4, Zenon DEF Step, ota_ctx_init, ota_inbox_cleanup, fetch_new_manifest,
    fetch_file_open, fetch_file_perform,
    fetch_file_rename, validate_new_manifest, compare_manifests, load_inbox_manifest,
    fetch_release, validate_release, apply_release, waitpid, attempt_end, sleep
<1>5. CASE PowerCut
  BY <1>5 DEF PowerCut, Ledger!Next, Ledger!PowerCut
<1>6. CASE RaucInstalls
  <2>1. rauc.bundle = inbox[file.filename] /\ pc = "waitpid"
    BY <1>6, Sentinels DEF RaucInstalls, ChildRuns, TypeInv, CtxInv, SafeInv, RaucInv,
                           Bodies
  <2> QED
    BY <1>6, <2>1, PayloadVouched DEF RaucInstalls, Vouched, Ledger!Next, Ledger!Install
<1>7. ASSUME NEW o \in orphans, OrphanInstalls(o) PROVE Same \/ Ledger!Next
  <2>1. Vouched(o.bundle)
    BY <1>7, Sentinels DEF SoleInv, OrphanInv, OrphanInstalls, Target, Bodies
  <2> QED
    BY <1>7, <2>1 DEF OrphanInstalls, Vouched, Ledger!Next, Ledger!Install
<1>8. CASE RaucOpens \/ RaucFails \/ handle_termination_signal \/ Kill \/ StopGroup
           \/ Publish \/ UNCHANGED vars
  BY <1>8 DEF RaucOpens, RaucFails, handle_termination_signal, Kill, StopGroup, Publish,
              vars
<1>9. ASSUME NEW o \in orphans, OrphanOpens(o) \/ OrphanFails(o) PROVE Same
  BY <1>9 DEF OrphanOpens, OrphanFails
<1>10. ASSUME NEW d \in Modes, ota_fetch_run(d) PROVE Same
  BY <1>10 DEF ota_fetch_run
<1> QED
  BY <1>1, <1>2, <1>3, <1>4, <1>5, <1>6, <1>7, <1>8, <1>9, <1>10
  DEF Next, Rauc, Orphan

\* The update loop implements the ledger: the slot and the current manifest
\* change only as UpdateLedger says, through every failure, kill and power cut.
THEOREM LoopImplementsLedger ==
  ASSUME NoReservedNames, ~OrphansSurvive
  PROVE  Spec => ImplementsLedger
<1>1. Init => Ledger!Init
  BY DEF Init, Ledger!Init
<1>2. TypeInv /\ SafeInv /\ SoleInv /\ [Next]_vars
        => [Ledger!Next]_<<slot, current, durable>>
  BY LedgerNext
<1> QED
  BY <1>1, <1>2, SoleAlways, PTL DEF Spec, ImplementsLedger, Ledger!Spec

-----------------------------------------------------------------------------
(* Up to date, provided that the publisher numbers the releases and goes only *)
(* forward.                                                                   *)

\* f is the manifest of this attempt.
InFlight(f) ==
  \/ pc = "fetch_rename" /\ job = "manifest" /\ f = tmp[MANIFEST]
  \/ /\ \/ pc \in Fetching /\ job \in {"sig", "cert"} /\ failed = FALSE
        \/ FetchingPayload
        \/ pc \in {"validate", "compare", "load", "fetch_release"} \cup Holding
     /\ f = inbox[MANIFEST]

OnRecord == durable \cap Manifests

\* Manifests come from the server, by way of the temporary file and the inbox.
Brought ==
  \A f \in Manifests :
    /\ InFlight(f)' => InFlight(f) \/ f = server[MANIFEST]
    /\ f \in {inbox'[MANIFEST], tmp'[MANIFEST]}
         => f \in {inbox[MANIFEST], tmp[MANIFEST], server[MANIFEST]}
    /\ f \in durable' => f \in durable

\* Only the manifest itself is fetched to its name.
LEMMA ManifestDest ==
  ASSUME NoReservedNames, TypeInv, pc \in Fetching
  PROVE  (Dest = MANIFEST <=> job = "manifest") /\ (job = "manifest" => Url = MANIFEST)
<1>1. job = "payload" => file.filename \in Filenames
  <2> SUFFICES ASSUME job = "payload" PROVE file.filename \in Filenames
    OBVIOUS
  <2>1. file # NULL /\ manifest \in Manifests /\ file = FileFor(manifest)
    BY DEF TypeInv, TypeOK, CtxInv, FetchingPayload
  <2> QED
    BY <2>1, Inputs
<1>2. job \in {"manifest", "sig", "cert", "payload"}
  BY DEF TypeInv, TypeOK
<1> QED
  BY <1>1, <1>2 DEF Dest, Url, NoReservedNames, Reserved, MANIFEST, SIGNATURE, SIGNER

\* A fetch that failed leaves no manifest in flight.
LEMMA FailedFlight ==
  ASSUME TypeInv, pc \in Fetching, FetchReturns(FALSE), NEW f
  PROVE  ~InFlight(f)'
<1>1. failed' = TRUE /\ FetchReturned
  BY FetchReturnsTo, Zenon DEF FetchReturns
<1>2. pc' \in {"fetch_open", "attempt_end"}
  <2>1. job \in {"manifest", "sig", "cert", "payload"}
    BY DEF TypeInv, TypeOK
  <2> QED
    BY <1>1, <2>1, Zenon DEF FetchReturns, Goto, AttemptEnds
<1>3. pc' = "fetch_open" => job' # "payload"
  BY <1>1 DEF FetchReturned
<1> QED
  BY <1>1, <1>2, <1>3 DEF InFlight, FetchingPayload, Fetching, Holding

\* A fetch brings in the manifest that the server offers.
LEMMA FetchBrought ==
  ASSUME NoReservedNames, TypeInv,
         fetch_file_open \/ fetch_file_perform \/ fetch_file_rename
  PROVE  Brought
<1> SUFFICES ASSUME NEW f \in Manifests
             PROVE  /\ InFlight(f)' => InFlight(f) \/ f = server[MANIFEST]
                    /\ f \in {inbox'[MANIFEST], tmp'[MANIFEST]}
                         => f \in {inbox[MANIFEST], tmp[MANIFEST], server[MANIFEST]}
                    /\ f \in durable' => f \in durable
  BY DEF Brought
<1>1. pc \in Fetching /\ durable' = durable
  BY Zenon DEF fetch_file_open, fetch_file_perform, fetch_file_rename, Fetching
<1>2. /\ tmp \in [InboxNames -> Bodies \cup {NoFile, Partial, Torn}]
      /\ inbox \in [InboxNames -> Bodies \cup {NoFile, Partial, Torn}]
      /\ MANIFEST \in InboxNames /\ f \notin {NoFile, Partial, Torn}
      /\ job \in {"manifest", "sig", "cert", "payload"} /\ failed \in BOOLEAN
  BY Sentinels DEF TypeInv, TypeOK, InboxNames, Reserved, Bodies
<1>3. (Dest = MANIFEST <=> job = "manifest") /\ (job = "manifest" => Url = MANIFEST)
  BY <1>1, ManifestDest
<1>4. CASE fetch_file_open
  <2>1. inbox' = inbox /\ \E x \in {Partial, tmp[Dest], NoFile} : tmp' = [tmp EXCEPT ![Dest] = x]
    BY <1>4, Zenon DEF fetch_file_open
  <2>2. f \in {inbox'[MANIFEST], tmp'[MANIFEST]} => f \in {inbox[MANIFEST], tmp[MANIFEST]}
    BY <1>2, <2>1
  <2>3. CASE FetchReturns(FALSE)
    BY <1>1, <2>2, <2>3, FailedFlight
  <2>4. CASE pc' = "fetch_perform" /\ UNCHANGED fetch
    BY <1>1, <2>1, <2>2, <2>4 DEF InFlight, FetchingPayload, Fetching, Holding, fetch
  <2> QED
    BY <1>4, <2>3, <2>4, Zenon DEF fetch_file_open, Goto
<1>5. CASE fetch_file_perform
  <2>1. inbox' = inbox /\ \E x \in {server[Url], Partial, NoFile} :
                           tmp' = [tmp EXCEPT ![Dest] = x]
    BY <1>5, Zenon DEF fetch_file_perform
  <2>2. f \in {inbox'[MANIFEST], tmp'[MANIFEST]}
          => f \in {inbox[MANIFEST], tmp[MANIFEST], server[MANIFEST]}
    BY <1>2, <1>3, <2>1
  <2>3. CASE FetchReturns(FALSE)
    BY <1>1, <2>2, <2>3, FailedFlight
  <2>4. CASE pc' = "fetch_rename" /\ UNCHANGED fetch
             /\ \E x \in {server[Url], Partial} : tmp' = [tmp EXCEPT ![Dest] = x]
    <3>1. job = "manifest" => tmp'[MANIFEST] \in {server[MANIFEST], Partial}
      BY <1>2, <1>3, <2>4
    <3> QED
      BY <1>1, <1>2, <2>1, <2>2, <2>4, <3>1 DEF InFlight, FetchingPayload, Fetching, Holding, fetch
  <2> QED
    BY <1>5, <2>3, <2>4, Zenon DEF fetch_file_perform, Goto
<1>6. CASE fetch_file_rename
  <2>1. /\ tmp' = [tmp EXCEPT ![Dest] = NoFile] /\ pc = "fetch_rename"
        /\ \/ inbox' = [inbox EXCEPT ![Dest] = tmp[Dest]] /\ FetchReturns(TRUE)
           \/ inbox' = inbox /\ FetchReturns(FALSE)
    BY <1>6, Zenon DEF fetch_file_rename
  <2>2. f \in {inbox'[MANIFEST], tmp'[MANIFEST]} => f \in {inbox[MANIFEST], tmp[MANIFEST]}
    BY <1>2, <1>3, <2>1, Zenon
  <2>3. CASE FetchReturns(FALSE)
    BY <1>1, <2>2, <2>3, FailedFlight
  <2>4. CASE FetchReturns(TRUE) /\ inbox' = [inbox EXCEPT ![Dest] = tmp[Dest]]
    <3>1. IF job = "manifest" THEN inbox'[MANIFEST] = tmp[MANIFEST]
                              ELSE inbox'[MANIFEST] = inbox[MANIFEST]
      BY <1>2, <1>3, <2>4
    <3>2. failed' = failed
      BY <1>2, <2>4, Zenon DEF FetchReturns
    <3>3. CASE job \in {"manifest", "sig"}
      BY <1>1, <2>1, <2>2, <2>4, <3>1, <3>2, <3>3, Zenon
         DEF InFlight, FetchingPayload, Fetching, Holding, FetchReturns, Goto
    <3>4. CASE job = "cert"
      <4>1. job' = "cert" /\ (failed' = FALSE \/ pc' = "attempt_end")
            /\ pc' \in {"validate", "attempt_end"}
        BY <1>2, <2>4, <3>2, <3>4 DEF FetchReturns, Goto, AttemptEnds
      <4> QED
        BY <1>1, <2>1, <2>2, <3>1, <3>2, <3>4, <4>1
           DEF InFlight, FetchingPayload, Fetching, Holding
    <3>5. CASE job = "payload"
      <4>1. job' = "payload" /\ pc' = "validate_release"
        BY <2>4, <3>5 DEF FetchReturns, Goto
      <4> QED
        BY <1>1, <2>1, <2>2, <3>1, <3>5, <4>1 DEF InFlight, FetchingPayload, Fetching, Holding
    <3> QED
      BY <1>2, <3>3, <3>4, <3>5
  <2> QED
    BY <2>1, <2>3, <2>4, Zenon
<1> QED
  BY <1>1, <1>4, <1>5, <1>6

\* So does every other step of the process but the one that records the manifest.
LEMMA StepBrought ==
  ASSUME NoReservedNames, TypeInv, Step, ~rename_manifest
  PROVE  Brought
<1> USE DEF Goto, AttemptEnds, CheckSucceeds, Return
<1>1. CASE fetch_file_open \/ fetch_file_perform \/ fetch_file_rename
  BY <1>1, FetchBrought
<1>2. ASSUME pc' \notin Fetching /\ pc' \notin Holding
             /\ pc' \notin {"validate", "compare", "load", "fetch_release"}
      PROVE  \A f : ~InFlight(f)'
  BY <1>2 DEF InFlight, FetchingPayload, Fetching
<1>3. MANIFEST \in InboxNames /\ MANIFEST \in Reserved
  BY DEF InboxNames, Reserved
<1>4. CASE ota_inbox_cleanup
  <2>1. /\ inbox'[MANIFEST] \in {NoFile, inbox[MANIFEST]}
        /\ tmp'[MANIFEST] \in {NoFile, tmp[MANIFEST]}
        /\ durable' = durable /\ pc' = "fetch_new_manifest"
    BY <1>3, <1>4 DEF ota_inbox_cleanup
  <2>2. \A f : ~InFlight(f)'
    BY <1>2, <2>1 DEF Fetching, Holding
  <2>3. NoFile \notin Manifests
    BY Sentinels DEF Bodies
  <2> QED
    BY <2>1, <2>2, <2>3 DEF Brought
<1>5. CASE fetch_new_manifest
  <2>1. /\ UNCHANGED <<inbox, tmp, durable>>
        /\ \/ pc' = "attempt_end"
           \/ pc' = "fetch_open" /\ job' = "manifest"
    BY <1>5, Zenon DEF fetch_new_manifest, disk
  <2>2. \A f : ~InFlight(f)'
    BY <2>1 DEF InFlight, FetchingPayload, Fetching, Holding
  <2> QED
    BY <2>1, <2>2 DEF Brought
<1>6. CASE ota_ctx_init \/ attempt_end \/ sleep
  <2>1. UNCHANGED <<inbox, tmp, durable>>
        /\ pc' \in {"cleanup", "attempt_end", "sleep", "exited", "init"}
    BY <1>6 DEF ota_ctx_init, attempt_end, sleep, disk
  <2>2. \A f : ~InFlight(f)'
    BY <1>2, <2>1 DEF Fetching, Holding
  <2> QED
    BY <2>1, <2>2 DEF Brought
<1>7. CASE sync_and_reboot
  <2>1. UNCHANGED <<inbox, tmp>> /\ durable' = {current} /\ current \in durable
        /\ pc' \in {"off", "attempt_end", "exited"}
    BY <1>7 DEF sync_and_reboot, TypeInv, TypeOK
  <2>2. \A f : ~InFlight(f)'
    BY <1>2, <2>1 DEF Fetching, Holding
  <2> QED
    BY <2>1, <2>2 DEF Brought
<1>8. CASE unlink_current
  <2>1. UNCHANGED <<inbox, tmp>> /\ durable' \subseteq durable \cup {NoFile}
        /\ pc = "unlink_current" /\ pc' = "rename_manifest"
    BY <1>8 DEF unlink_current
  <2>2. \A f : InFlight(f)' => InFlight(f)
    BY <2>1 DEF InFlight, FetchingPayload, Fetching, Holding
  <2>3. NoFile \notin Manifests
    BY Sentinels DEF Bodies
  <2> QED
    BY <2>1, <2>2, <2>3 DEF Brought
<1>9. CASE validate_new_manifest \/ compare_manifests \/ load_inbox_manifest \/ fetch_release
  <2>1. /\ UNCHANGED <<inbox, tmp, durable>>
        /\ pc \in {"validate", "compare", "load", "fetch_release"}
        /\ \/ pc' \in {"compare", "load", "fetch_release", "attempt_end", "exited"}
           \/ pc' = "fetch_open" /\ job' = "payload"
    BY <1>9 DEF validate_new_manifest, compare_manifests, load_inbox_manifest, fetch_release,
                disk
  <2>2. \A f : InFlight(f)' => InFlight(f)
    BY <2>1, Zenon DEF InFlight, FetchingPayload, Fetching, Holding
  <2> QED
    BY <2>1, <2>2 DEF Brought
<1>10. CASE validate_release \/ apply_release \/ waitpid
  <2>1. /\ UNCHANGED <<inbox, tmp, durable>> /\ pc \in Holding
        /\ pc' \in {"apply", "waitpid", "unlink_current", "attempt_end"}
    BY <1>10 DEF validate_release, apply_release, waitpid, disk, Holding
  <2>2. \A f : InFlight(f)' => InFlight(f)
    BY <2>1 DEF InFlight, FetchingPayload, Fetching, Holding
  <2> QED
    BY <2>1, <2>2 DEF Brought
<1> QED
  BY <1>1, <1>4, <1>5, <1>6, <1>7, <1>8, <1>9, <1>10 DEF Step

\* And so does everything around the process.
LEMMA OutsideBrought ==
  ASSUME TypeInv,
         \/ (\E d \in Modes : ota_fetch_run(d)) \/ handle_termination_signal \/ Kill \/ PowerCut
         \/ Rauc \/ Orphan \/ StopGroup \/ Publish \/ UNCHANGED vars
  PROVE  Brought
<1>1. ASSUME NEW d \in Modes, ota_fetch_run(d) PROVE Brought
  <2>1. UNCHANGED <<inbox, tmp, durable>> /\ pc' = "init"
    BY <1>1 DEF ota_fetch_run, disk
  <2> QED
    BY <2>1 DEF Brought, InFlight, FetchingPayload, Fetching, Holding
<1>2. CASE handle_termination_signal
  <2>1. UNCHANGED <<inbox, tmp, durable, job, failed>> /\ (pc' = pc \/ pc' = "attempt_end")
    BY <1>2 DEF handle_termination_signal, AttemptEnds, disk, fetch
  <2> QED
    BY <2>1 DEF Brought, InFlight, FetchingPayload, Fetching, Holding
<1>3. CASE Kill
  <2>1. UNCHANGED <<inbox, tmp, durable>> /\ pc' = "off"
    BY <1>3 DEF Kill, disk
  <2> QED
    BY <2>1 DEF Brought, InFlight, FetchingPayload, Fetching, Holding
<1>4. CASE PowerCut
  <2>1. durable' \subseteq durable /\ pc' = "off"
    BY <1>4 DEF PowerCut
  <2>2. MANIFEST \in InboxNames /\ Torn \notin Manifests /\ NoFile \notin Manifests
    BY Sentinels DEF InboxNames, Reserved, Bodies
  <2>3. ASSUME NEW dir, NEW left \in Surviving(dir)
        PROVE  left[MANIFEST] \in {NoFile, Torn, dir[MANIFEST]}
    BY <2>2 DEF Surviving
  <2>4. /\ inbox'[MANIFEST] \in {NoFile, Torn, inbox[MANIFEST]}
        /\ tmp'[MANIFEST] \in {NoFile, Torn, tmp[MANIFEST]}
    BY <1>4, <2>3 DEF PowerCut
  <2>5. \A f : ~InFlight(f)'
    BY <2>1, SMTT(30) DEF InFlight, FetchingPayload, Fetching, Holding
  <2> QED
    BY <2>1, <2>2, <2>4, <2>5 DEF Brought
<1>5. CASE Rauc \/ Orphan \/ StopGroup \/ Publish \/ UNCHANGED vars
  <2>1. UNCHANGED <<inbox, tmp, durable, job, failed, pc>>
    BY <1>5, ZenonT(60) DEF Rauc, RaucOpens, RaucInstalls, RaucFails, Orphan, OrphanOpens,
       OrphanInstalls, OrphanFails, StopGroup, Publish, vars, disk, fetch
  <2> QED
    BY <2>1 DEF Brought, InFlight, FetchingPayload
<1> QED
  BY <1>1, <1>2, <1>3, <1>4, <1>5

\* Releases have numbers: number[m] that of a manifest, release that of the one the
\* server is at.
Numbered(number, release) ==
  /\ release \in Nat
  /\ server[MANIFEST] \in Manifests => number[server[MANIFEST]] = release

\* b is the bundle of a release not older than what is on record.
Newest(number, release, b) ==
  \E m \in Manifests :
    /\ Fits(b, m) /\ number[m] <= release
    /\ \A d \in OnRecord : number[d] <= number[m]

\* What is on record fits the slot, or is older than every manifest that this attempt
\* or a later one can compare it with.
AheadInv(number, release) ==
  /\ \A f \in Manifests :
       f \in durable \cup {inbox[MANIFEST], tmp[MANIFEST]} => number[f] <= release
  /\ \A d \in OnRecord, f \in Manifests : InFlight(f) => number[d] <= number[f]
  /\ \A d \in OnRecord :
       Fits(slot, d) \/ /\ number[d] < release
                        /\ \A f \in Manifests : InFlight(f) => number[d] < number[f]
  /\ \A o \in orphans : Newest(number, release, Target(o))

\* The slot stays, and nothing is recorded.
LEMMA AheadKept ==
  ASSUME NEW number \in [Manifests -> Nat], NEW VARIABLE release, AheadInv(number, release),
         Numbered(number, release), Numbered(number, release)', release <= release',
         Brought, slot' = slot, \A o \in orphans' : Newest(number, release, Target(o)')
  PROVE  AheadInv(number, release)'
<1>1. /\ release \in Nat /\ release' \in Nat
      /\ server[MANIFEST] \in Manifests => number[server[MANIFEST]] = release
  BY Zenon DEF Numbered
<1>2. OnRecord' \subseteq OnRecord /\ OnRecord \subseteq Manifests
  BY DEF OnRecord, Brought
<1>3. ASSUME NEW f \in Manifests, f \in durable' \cup {inbox'[MANIFEST], tmp'[MANIFEST]}
      PROVE  number[f] <= release'
  <2>1. f \in durable \cup {inbox[MANIFEST], tmp[MANIFEST]} \/ f = server[MANIFEST]
    BY <1>3, ZenonT(60) DEF Brought
  <2>2. number[f] <= release
    <3>1. CASE f \in durable \cup {inbox[MANIFEST], tmp[MANIFEST]}
      BY <3>1, Zenon DEF AheadInv
    <3>2. CASE f = server[MANIFEST]
      BY <1>1, <3>2
    <3> QED
      BY <2>1, <3>1, <3>2, Zenon
  <2> QED
    BY <1>1, <2>2, SMTT(30)
<1>4. ASSUME NEW d \in OnRecord', NEW f \in Manifests, InFlight(f)'
      PROVE  number[d] <= number[f]
  <2>1. d \in OnRecord /\ number[d] <= release
    BY <1>2, Zenon DEF AheadInv, OnRecord
  <2>2. InFlight(f) \/ f = server[MANIFEST]
    BY <1>4 DEF Brought
  <2> QED
    BY <1>1, <2>1, <2>2, Zenon DEF AheadInv
<1>5. ASSUME NEW d \in OnRecord', ~Fits(slot, d)
      PROVE  number[d] < release' /\ \A f \in Manifests : InFlight(f)' => number[d] < number[f]
  <2>1. d \in Manifests /\ number[d] < release
        /\ \A f \in Manifests : InFlight(f) => number[d] < number[f]
    BY <1>2, <1>5, ZenonT(60) DEF AheadInv
  <2>2. \A f \in Manifests : InFlight(f)' => number[d] < number[f]
    BY <1>1, <2>1 DEF Brought
  <2> QED
    BY <1>1, <2>1, <2>2
<1>6. ASSUME NEW o \in orphans'
      PROVE  Newest(number, release, Target(o))'
  <2>1. PICK m \in Manifests : /\ Fits(Target(o)', m) /\ number[m] <= release
                               /\ \A d \in OnRecord : number[d] <= number[m]
    BY DEF Newest
  <2> QED
    BY <1>1, <1>2, <2>1 DEF Newest
<1> QED
  BY <1>3, <1>4, <1>5, <1>6, Zenon DEF AheadInv

\* RAUC installs the bundle of a release not older than what is on record.
LEMMA AheadInstalled ==
  ASSUME NEW number \in [Manifests -> Nat], NEW VARIABLE release,
         \A m, n \in Manifests : number[m] = number[n] => m = n,
         AheadInv(number, release), Numbered(number, release), Numbered(number, release)',
         release <= release', NEW m \in Manifests, Fits(slot', m), number[m] <= release,
         \A d \in OnRecord : number[d] <= number[m],
         \A f \in Manifests : InFlight(f) => f = m,
         UNCHANGED <<pc, job, failed, inbox, tmp, durable>>, orphans' \subseteq orphans
  PROVE  AheadInv(number, release)'
<1>1. release \in Nat /\ release' \in Nat
  BY DEF Numbered
<1>2. OnRecord' = OnRecord /\ OnRecord \subseteq Manifests
  BY Zenon DEF OnRecord
<1>3. \A f : InFlight(f)' <=> InFlight(f)
  BY DEF InFlight, FetchingPayload
<1>4. ASSUME NEW f \in Manifests, f \in durable' \cup {inbox'[MANIFEST], tmp'[MANIFEST]}
      PROVE  number[f] <= release'
  <2>1. f \in durable \cup {inbox[MANIFEST], tmp[MANIFEST]}
    BY <1>4
  <2>2. number[f] <= release
    BY <2>1, Zenon DEF AheadInv
  <2> QED
    BY <1>1, <2>2, SMTT(30)
<1>5. ASSUME NEW d \in OnRecord', ~Fits(slot', d)
      PROVE  number[d] < release' /\ \A f \in Manifests : InFlight(f)' => number[d] < number[f]
  <2>1. d \in Manifests /\ number[d] <= number[m] /\ d # m
    BY <1>2, <1>5
  <2>2. number[d] < number[m]
    BY <2>1
  <2> QED
    BY <1>1, <1>3, <2>1, <2>2
<1>6. \A o : Target(o)' = Target(o)
  BY DEF Target
<1>7. ASSUME NEW o \in orphans'
      PROVE  Newest(number, release, Target(o))'
  <2>1. PICK w \in Manifests : /\ Fits(Target(o), w) /\ number[w] <= release
                               /\ \A d \in OnRecord : number[d] <= number[w]
    BY DEF AheadInv, Newest
  <2>2. Fits(Target(o)', w) /\ number[w] <= release'
    BY <1>1, <1>6, <2>1
  <2> QED
    BY <1>2, <2>1, <2>2, Zenon DEF Newest
<1> QED
  BY <1>2, <1>3, <1>4, <1>5, <1>7, ZenonT(60) DEF AheadInv

\* A child that is left behind has the payload of the verified manifest.
LEMMA AheadLeft ==
  ASSUME NEW number \in [Manifests -> Nat], NEW VARIABLE release, TypeInv, SafeInv,
         AheadInv(number, release), Numbered(number, release), ChildRuns
  PROVE  /\ Fits(Target([path |-> file.filename, bundle |-> rauc.bundle]), verified)
         /\ verified \in Manifests /\ number[verified] <= release
         /\ \A d \in OnRecord : number[d] <= number[verified]
         /\ \A f \in Manifests : InFlight(f) => f = verified
<1>1. pc = "waitpid" /\ (rauc.bundle # NoFile => rauc.bundle = inbox[file.filename])
  BY Zenon DEF ChildRuns, SafeInv, RaucInv, TypeInv, CtxInv
<1>2. Fits(inbox[file.filename], verified) /\ verified = inbox[MANIFEST] /\ verified \in Manifests
  BY <1>1, PayloadFits
<1>3. Target([path |-> file.filename, bundle |-> rauc.bundle]) = inbox[file.filename]
  BY <1>1 DEF Target
<1>4. \A f : InFlight(f) <=> f = verified
  BY <1>1, <1>2 DEF InFlight, FetchingPayload, Fetching, Holding
<1> QED
  BY <1>2, <1>3, <1>4, ZenonT(60) DEF AheadInv

\* The manifest is recorded when the slot holds its bundle.
LEMMA AheadRecorded ==
  ASSUME \A m \in Manifests : Authentic(m) => ~IsTest(m),
         NEW number \in [Manifests -> Nat], NEW VARIABLE release, TypeInv, SafeInv, SoleInv,
         AheadInv(number, release), Numbered(number, release), Numbered(number, release)',
         release <= release', rename_manifest
  PROVE  AheadInv(number, release)'
<1>1. pc = "rename_manifest" /\ orphans = {} /\ UNCHANGED <<slot, orphans, tmp>>
  BY Zenon DEF rename_manifest, device, SoleInv, OrphanInv
<1>2. verified = inbox[MANIFEST] /\ verified \in Manifests /\ Fits(slot, verified)
  BY <1>1, Zenon DEF SafeInv, StageInv, VerifiedStage, SoleInv, SlotInv
<1>3. /\ MANIFEST \in InboxNames /\ NoFile \notin Manifests /\ Torn \notin Manifests
      /\ inbox \in [InboxNames -> Bodies \cup {NoFile, Partial, Torn}]
  BY Sentinels DEF InboxNames, Reserved, Bodies, TypeInv, TypeOK
<1>4. CASE UNCHANGED <<inbox, durable>> /\ pc' = "attempt_end"
  <2>1. \A f : ~InFlight(f)'
    BY <1>4 DEF InFlight, FetchingPayload, Fetching, Holding
  <2>2. Brought /\ orphans' = {}
    BY <1>1, <1>4, <2>1, Zenon DEF Brought
  <2> QED
    BY <1>1, <2>2, AheadKept, SMTT(30)
<1>5. CASE /\ durable' = durable \cup {inbox[MANIFEST], Torn}
           /\ inbox' = [inbox EXCEPT ![MANIFEST] = NoFile]
           /\ pc' \in {"reboot", "attempt_end", "exited"}
  <2>1. inbox'[MANIFEST] = NoFile /\ release \in Nat /\ release' \in Nat
    BY <1>3, <1>5 DEF Numbered
  <2>2. \A f \in Manifests : ~InFlight(f)'
    BY <1>3, <1>5, <2>1 DEF InFlight, FetchingPayload, Fetching
  <2>3. OnRecord' \subseteq OnRecord \cup {verified}
    BY <1>2, <1>3, <1>5, Zenon DEF OnRecord
  <2>4. \A f \in Manifests :
          f \in durable' \cup {inbox'[MANIFEST], tmp'[MANIFEST]} => number[f] <= release'
    BY <1>1, <1>2, <1>3, <1>5, <2>1 DEF AheadInv
  <2>5. \A d \in OnRecord' : Fits(slot', d) \/ number[d] < release'
    <3>1. \A d \in OnRecord : number[d] \in Nat /\ (Fits(slot, d) \/ number[d] < release)
      BY DEF AheadInv, OnRecord
    <3>2. ASSUME NEW d \in OnRecord'
          PROVE  Fits(slot', d) \/ number[d] < release'
      <4> SUFFICES ASSUME ~Fits(slot', d) PROVE number[d] < release'
        OBVIOUS
      <4>1. ~Fits(slot, d)
        BY <1>1, Zenon
      <4>2. d \in OnRecord
        BY <1>2, <2>3, <4>1
      <4> QED
        BY <2>1, <3>1, <4>1, <4>2
    <3> QED
      BY <3>2, Zenon
  <2> QED
    BY <1>1, <2>2, <2>4, <2>5, Zenon DEF AheadInv
<1> QED
  BY <1>4, <1>5 DEF rename_manifest, Goto, AttemptEnds, CheckSucceeds, Return

\* Every step keeps the record apart from what it is compared with.
LEMMA AheadNext ==
  ASSUME NoReservedNames, ~OrphansSurvive, \A m \in Manifests : Authentic(m) => ~IsTest(m),
         NEW number \in [Manifests -> Nat],
         \A m, n \in Manifests : number[m] = number[n] => m = n,
         NEW VARIABLE release, TypeInv, SafeInv, SoleInv,
         AheadInv(number, release), Numbered(number, release), Numbered(number, release)',
         release <= release', [Next]_vars
  PROVE  AheadInv(number, release)'
<1>1. CASE rename_manifest
  BY <1>1, AheadRecorded
<1>2. CASE Step /\ ~rename_manifest
  <2>1. Brought
    BY <1>2, StepBrought, SMTT(30)
  <2>2. slot' = slot
    BY <1>2, Zenon DEF Step, ota_ctx_init, ota_inbox_cleanup, fetch_new_manifest, fetch_file_open,
       fetch_file_perform, fetch_file_rename, validate_new_manifest, compare_manifests,
       load_inbox_manifest, fetch_release, validate_release, apply_release, waitpid,
       unlink_current, sync_and_reboot, attempt_end, sleep, device
  <2>3. orphans' = {} \/ UNCHANGED <<orphans, inbox>>
    <3>1. CASE orphans = {}
      BY <1>2, <3>1, Zenon DEF Step, ota_ctx_init, ota_inbox_cleanup, fetch_new_manifest,
         fetch_file_open, fetch_file_perform, fetch_file_rename, validate_new_manifest,
         compare_manifests, load_inbox_manifest, fetch_release, validate_release,
         apply_release, waitpid, unlink_current, sync_and_reboot, attempt_end, sleep, device
    <3>2. CASE orphans # {}
      <4>1. attempt_end \/ sleep
        BY <1>2, <3>2, ZenonT(60) DEF SoleInv, OrphanInv, Step, ota_ctx_init, ota_inbox_cleanup,
           fetch_new_manifest, fetch_file_open, fetch_file_perform, fetch_file_rename,
           validate_new_manifest, compare_manifests, load_inbox_manifest, fetch_release,
           validate_release, apply_release, waitpid, unlink_current, sync_and_reboot
      <4> QED
        BY <4>1 DEF attempt_end, sleep, device, disk
    <3> QED
      BY <3>1, <3>2, SMTT(30)
  <2>4. \A o \in orphans' : Newest(number, release, Target(o)')
    BY <2>3, Zenon DEF Target, AheadInv
  <2> QED
    BY <2>1, <2>2, <2>4, AheadKept
<1>3. CASE RaucInstalls
  <2>1. ChildRuns /\ slot' = rauc.bundle /\ rauc.bundle \in Bundles
        /\ UNCHANGED <<pc, job, failed, inbox, tmp, durable, orphans>>
    BY <1>3 DEF RaucInstalls, fetch, disk
  <2>2. rauc.bundle # NoFile
    BY <2>1, Sentinels, Zenon DEF Bodies
  <2>3. Target([path |-> file.filename, bundle |-> rauc.bundle]) = slot'
    BY <2>1, <2>2, Zenon DEF Target
  <2> QED
    BY <2>1, <2>3, AheadLeft, AheadInstalled
<1>4. ASSUME NEW o \in orphans, OrphanInstalls(o)
      PROVE  AheadInv(number, release)'
  <2>1. /\ slot' = o.bundle /\ o.bundle \in Bundles /\ orphans' \subseteq orphans
        /\ UNCHANGED <<pc, job, failed, inbox, tmp, durable>>
    BY <1>4, SMTT(30) DEF OrphanInstalls, fetch, disk
  <2>2. Target(o) = slot'
    BY <2>1, Sentinels, ZenonT(60) DEF Target, Bodies
  <2>3. PICK m \in Manifests : /\ Fits(slot', m) /\ number[m] <= release
                               /\ \A d \in OnRecord : number[d] <= number[m]
    <3>1. Newest(number, release, Target(o))
      BY Zenon DEF AheadInv
    <3> QED
      BY <2>2, <3>1, Zenon DEF Newest
  <2>4. \A f : ~InFlight(f)
    BY DEF SoleInv, OrphanInv, InFlight, FetchingPayload, Fetching, Holding
  <2> QED
    BY <2>1, <2>3, <2>4, AheadInstalled, Zenon
<1>5. CASE handle_termination_signal \/ Kill
  <2>1. UNCHANGED <<slot, inbox>>
    BY <1>5 DEF handle_termination_signal, Kill, disk
  <2>2. Brought
    BY <1>5, OutsideBrought, Zenon
  <2>3. \A o : Target(o)' = Target(o)
    BY <2>1, Zenon DEF Target
  <2>4. \A o \in orphans' : o \in orphans
          \/ (ChildRuns /\ o = [path |-> file.filename, bundle |-> rauc.bundle])
    BY <1>5 DEF handle_termination_signal, Kill, Abandon
  <2>5. ChildRuns =>
          Newest(number, release, Target([path |-> file.filename, bundle |-> rauc.bundle]))
    BY AheadLeft, SMTT(30) DEF Newest
  <2>6. \A o \in orphans' : Newest(number, release, Target(o)')
    BY <2>3, <2>4, <2>5, Zenon DEF AheadInv
  <2> QED
    BY <2>1, <2>2, <2>6, AheadKept, Zenon
<1>6. ASSUME NEW o \in orphans, OrphanOpens(o)
      PROVE  AheadInv(number, release)'
  <2> PICK opened \in {[o EXCEPT !.bundle = inbox[o.path]]} : TRUE
    OBVIOUS
  <2>1. /\ UNCHANGED <<slot, inbox>> /\ orphans' = (orphans \ {o}) \cup {opened}
        /\ o.bundle = NoFile /\ inbox[o.path] # NoFile
    BY <1>6 DEF OrphanOpens, disk
  <2>2. Brought
    BY <1>6, OutsideBrought DEF Orphan
  <2>3. o \in [path : Filenames, bundle : Bodies \cup {NoFile, Partial, Torn}]
    BY DEF TypeInv, TypeOK
  <2>4. Target(opened)' = Target(o) /\ \A q : Target(q)' = Target(q)
    BY <2>1, <2>3 DEF Target
  <2>5. \A q \in orphans' : Newest(number, release, Target(q)')
    BY <2>1, <2>4 DEF AheadInv
  <2> QED
    BY <2>1, <2>2, <2>5, AheadKept
<1>7. ASSUME \/ \E o \in orphans : OrphanFails(o)
             \/ RaucOpens \/ RaucFails \/ StopGroup \/ Publish \/ UNCHANGED vars
             \/ \E d \in Modes : ota_fetch_run(d)
      PROVE  AheadInv(number, release)'
  <2>1. UNCHANGED <<slot, inbox>> /\ orphans' \subseteq orphans
    BY <1>7 DEF OrphanFails, RaucOpens, RaucFails, StopGroup, Publish, vars, ota_fetch_run,
       disk, device
  <2>2. Brought
    BY <1>7, OutsideBrought, SMTT(30) DEF Orphan, Rauc
  <2>3. \A o \in orphans' : Newest(number, release, Target(o)')
    BY <2>1, Zenon DEF AheadInv, Target
  <2> QED
    BY <2>1, <2>2, <2>3, AheadKept
<1>8. CASE PowerCut
  <2>1. slot' = slot /\ orphans' = {}
    BY <1>8 DEF PowerCut
  <2>2. Brought
    BY <1>8, OutsideBrought
  <2> QED
    BY <2>1, <2>2, AheadKept
<1> QED
  BY <1>1, <1>2, <1>3, <1>4, <1>5, <1>6, <1>7, <1>8 DEF Next, Rauc, Orphan

\* A manifest that compare_manifests finds unchanged is that of the bundle activated
\* last, through every failure, kill and power cut, if a publisher who numbers the
\* releases only goes forward, signed releases are for RAUC to install, no payload is
\* named like a manifest file and no child outlives its process.  The run rollback
\* violates its property when the publisher goes back.
THEOREM UpToDateIsInstalled ==
  ASSUME NoReservedNames, ~OrphansSurvive, \A m \in Manifests : Authentic(m) => ~IsTest(m),
         NEW number \in [Manifests -> Nat],
         \A m, n \in Manifests : number[m] = number[n] => m = n,
         NEW VARIABLE release
  PROVE  Spec /\ []Numbered(number, release) /\ [][release <= release']_release
         => []UpToDateMeansInstalled
<1> DEFINE Ahead == AheadInv(number, release)
           Number == Numbered(number, release)
<1>1. Init => Ahead
  <2> SUFFICES ASSUME Init PROVE Ahead
    OBVIOUS
  <2>1. NoFile \notin Manifests /\ MANIFEST \in InboxNames
    BY Sentinels DEF Bodies, InboxNames, Reserved
  <2> QED
    BY <2>1 DEF Init, AheadInv, OnRecord
<1> HIDE DEF Ahead, Number
<1>2. TypeInv /\ SafeInv /\ SoleInv /\ Ahead /\ Number /\ Number'
      /\ [Next]_vars /\ [release <= release']_release => Ahead'
  <2> SUFFICES ASSUME TypeInv, SafeInv, SoleInv, Ahead, Number, Number', [Next]_vars,
                      [release <= release']_release
               PROVE  Ahead'
    OBVIOUS
  <2>1. release <= release'
    BY SMTT(30) DEF Number, Numbered
  <2> QED
    BY <2>1, AheadNext DEF Ahead, Number
<1>3. TypeInv /\ SafeInv /\ Ahead /\ Number => UpToDateMeansInstalled
  <2> SUFFICES ASSUME TypeInv, SafeInv, Ahead, Number, pc = "compare",
                      CompareResult = "FILES_EQ"
               PROVE  Fits(slot, current)
    BY SMTT(30) DEF UpToDateMeansInstalled
  <2> USE DEF Ahead, Number
  <2>1. hex_encode(current) = hex_encode(inbox[MANIFEST])
    BY Zenon DEF CompareResult, files_equal
  <2>2. current = inbox[MANIFEST]
    BY <2>1, Zenon DEF hex_encode
  <2>3. inbox[MANIFEST] \in Manifests /\ current \in durable
    BY DEF SafeInv, StageInv, VerifiedStage, TypeInv, TypeOK
  <2>4. InFlight(current) /\ current \in OnRecord /\ ~(number[current] < number[current])
    BY <2>2, <2>3 DEF InFlight, OnRecord
  <2> QED
    BY <2>2, <2>3, <2>4, Zenon DEF AheadInv
<1> QED
  BY <1>1, <1>2, <1>3, SoleAlways, PTL DEF Spec, Number
=============================================================================
