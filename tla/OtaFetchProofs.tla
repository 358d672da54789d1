--------------------------- MODULE OtaFetchProofs ---------------------------
(***************************************************************************)
(* Proofs about OtaFetch, for all manifests, signatures, payloads, modes,  *)
(* server contents and fault budgets.                                      *)
(***************************************************************************)
EXTENDS OtaFetch, TLAPS

Fetching == {"fetch_open", "fetch_perform", "fetch_rename"}

\* The process holds a file entry of a manifest.
FetchingPayload == pc \in Fetching /\ job = "payload"
Holding == {"validate_release", "apply", "waitpid", "unlink_current",
            "rename_manifest", "reboot"}

\* The context agrees with the place in the code: it holds a manifest exactly
\* from load_inbox_manifest to the end of the attempt, and a file entry of that
\* manifest from fetch_release on; only waitpid has a child.
CtxInv ==
  /\ file # NULL => manifest # NULL /\ file = FileFor(manifest)
  /\ FetchingPayload \/ pc \in Holding => file # NULL
  /\ pc = "fetch_release" => manifest # NULL
  /\ manifest # NULL =>
       FetchingPayload \/ pc \in Holding \cup {"fetch_release", "attempt_end"}
  /\ rauc.state # "none" => pc = "waitpid"

TypeInv == TypeOK /\ CtxInv

\* What is accepted as signed is a manifest.
LEMMA VerifiedIsManifest ==
  ASSUME NEW d, NEW s, NEW c, NEW ca,
         verify_signature_with_cert(d, s, c, ca) = "VERIFY_OK"
  PROVE  d \in Manifests /\ s \in Sigs /\ c \in Certs
<1>1. load_signer_cert(c) = "VERIFY_OK" /\ read_signature_file(s) = "VERIFY_OK"
      /\ verify_by_key_type(d, s, c) = "VERIFY_OK"
  BY DEF verify_signature_with_cert, Then
<1>2. c \in Certs
  BY <1>1 DEF load_signer_cert, IsPem
<1>3. s \in Sigs
  BY <1>1 DEF read_signature_file, SigLen
<1>4. SigFile[s].over = d
  BY <1>1 DEF verify_by_key_type, verify_ed25519_signature, read_file_all,
              verify_rsa_ecdsa_signature, DigestVerify
<1> QED
  BY <1>2, <1>3, <1>4, Inputs

\* The loop starts with types and context as claimed.
LEMMA TypeInit == Init => TypeInv
<1> SUFFICES ASSUME Init PROVE TypeInv
  OBVIOUS
<1> USE Inputs, Sentinels
<1>1. daemon_mode \in BOOLEAN /\ g_terminate \in BOOLEAN /\ failed \in BOOLEAN
  BY Zenon DEF Init
<1>2. TypeOK
  BY <1>1 DEF Init, TypeOK, NoChild
<1>3. CtxInv
  BY DEF Init, CtxInv, NoChild, FetchingPayload, Fetching, Holding
<1> QED
  BY <1>2, <1>3 DEF TypeInv

\* Where fetch_file may return to.
FetchReturned ==
  /\ pc' \in {"fetch_open", "validate", "validate_release", "attempt_end"}
  /\ rc' \in {-1, 0, 1} /\ job' \in {"manifest", "sig", "cert", "payload"}
  /\ failed' \in BOOLEAN /\ fetched' \subseteq InboxNames /\ UNCHANGED ctx
  /\ pc' = "fetch_open" => job \in {"manifest", "sig"} /\ job' # "payload"
  /\ pc' = "validate_release" => job = "payload"
  /\ pc' = "validate" => job = "cert"

\* What is fetched is a manifest file or has the name that the manifest gives.
LEMMA DestNamed ==
  ASSUME TypeInv, pc \in Fetching
  PROVE  Dest \in InboxNames
<1>1. job \in {"manifest", "sig", "cert", "payload"}
  BY DEF TypeInv, TypeOK
<1>2. job = "payload" => file.filename \in Filenames
  BY Inputs DEF TypeInv, TypeOK, CtxInv, FetchingPayload
<1> QED
  BY <1>1, <1>2 DEF Dest, InboxNames, Reserved

\* Returning from fetch_file leaves the process in one of a few places, whatever
\* the file and the result.
LEMMA FetchReturnsTo ==
  ASSUME TypeInv, pc \in Fetching, FetchReturns(TRUE) \/ FetchReturns(FALSE)
  PROVE  FetchReturned
<1>0. fetched' \subseteq InboxNames
  <2>1. fetched \subseteq InboxNames /\ Dest \in InboxNames
    BY DestNamed DEF TypeInv, TypeOK
  <2>2. fetched' = fetched \cup {Dest} \/ fetched' = fetched
    BY Zenon DEF FetchReturns
  <2> QED BY <2>1, <2>2, Zenon
<1> USE <1>0 DEF FetchReturns, FetchReturned, Goto, AttemptEnds, TypeInv, TypeOK,
                 Fetching, ctx
<1>1. failed' \in BOOLEAN
  BY Zenon
<1>2. CASE job \in {"manifest", "sig"}
  BY <1>1, <1>2, Zenon
<1>3. CASE job = "cert"
  <2>1. CASE failed'
    BY <1>1, <1>3, <2>1, Zenon
  <2>2. CASE ~failed'
    BY <1>1, <1>3, <2>2
  <2> QED BY <2>1, <2>2
<1>4. CASE job = "payload"
  BY <1>1, <1>4
<1> QED
  BY <1>2, <1>3, <1>4

\* Every step of the process keeps types and context.
LEMMA TypeStep == TypeInv /\ Step => TypeInv'
<1> SUFFICES ASSUME TypeInv, Step PROVE TypeInv'
  OBVIOUS
<1> USE Inputs, Sentinels
    DEF TypeInv, TypeOK, CtxInv, FetchingPayload, Fetching, Holding, loop, fetch,
        ctx, disk, device, outside, Fault, NoFault, Goto, AttemptEnds
<1>1. CASE ota_ctx_init
  BY <1>1 DEF ota_ctx_init
<1>2. CASE ota_inbox_cleanup
  BY <1>2 DEF ota_inbox_cleanup
<1>2a. CASE fetch_new_manifest
  <2>1. failed' \in BOOLEAN
    BY <1>2a, Zenon DEF fetch_new_manifest
  <2>2. TypeOK'
    BY <1>2a, <2>1 DEF fetch_new_manifest
  <2>3. CtxInv'
    BY <1>2a DEF fetch_new_manifest
  <2> QED BY <2>2, <2>3
<1>3. CASE fetch_file_open
  <2>1. tmp' \in [InboxNames -> Bodies \cup {NoFile, Partial, Torn}]
    BY <1>3, ZenonT(60) DEF fetch_file_open
  <2>2. /\ pc \in Fetching /\ (NoFault \/ Fault)
        /\ UNCHANGED <<loop, rauc, inbox, current, durable, device, outside, verified>>
    BY <1>3, Zenon DEF fetch_file_open
  <2>3. CASE pc' = "fetch_perform" /\ UNCHANGED <<rc, ctx, fetch>>
    BY <2>1, <2>2, <2>3
  <2>4. CASE FetchReturns(FALSE)
    <3>1. FetchReturned
      BY <2>2, <2>4, FetchReturnsTo
    <3> QED BY <2>1, <2>2, <3>1 DEF FetchReturned
  <2> QED
    BY <1>3, <2>3, <2>4, Zenon DEF fetch_file_open
<1>4. CASE fetch_file_perform
  <2>1. Url \in Urls
    BY <1>4 DEF fetch_file_perform, Url, Dest, Urls, Reserved
  <2>2. tmp' \in [InboxNames -> Bodies \cup {NoFile, Partial, Torn}]
    BY <1>4, <2>1, Zenon DEF fetch_file_perform
  <2>3. /\ pc \in Fetching /\ (NoFault \/ Fault)
        /\ UNCHANGED <<loop, rauc, inbox, current, durable, device, outside, verified>>
    BY <1>4, Zenon DEF fetch_file_perform
  <2>4. CASE pc' = "fetch_rename" /\ UNCHANGED <<rc, ctx, fetch>>
    BY <2>2, <2>3, <2>4
  <2>5. CASE FetchReturns(FALSE)
    <3>1. FetchReturned
      BY <2>3, <2>5, FetchReturnsTo
    <3> QED BY <2>2, <2>3, <3>1 DEF FetchReturned
  <2> QED
    BY <1>4, <2>4, <2>5, Zenon DEF fetch_file_perform
<1>5. CASE fetch_file_rename
  <2>1. /\ tmp' \in [InboxNames -> Bodies \cup {NoFile, Partial, Torn}]
        /\ inbox' \in [InboxNames -> Bodies \cup {NoFile, Partial, Torn}]
    BY <1>5, Zenon DEF fetch_file_rename
  <2>2. /\ pc \in Fetching /\ (NoFault \/ Fault)
        /\ UNCHANGED <<loop, rauc, current, durable, device, outside, verified>>
    BY <1>5, Zenon DEF fetch_file_rename
  <2>3. FetchReturned
    BY <1>5, <2>2, FetchReturnsTo, Zenon DEF fetch_file_rename
  <2> QED
    BY <2>1, <2>2, <2>3 DEF FetchReturned
<1>6. CASE validate_new_manifest
  BY <1>6, VerifiedIsManifest DEF validate_new_manifest, VerifyResult
<1>7. CASE compare_manifests
  BY <1>7 DEF compare_manifests, CheckSucceeds, Return
<1>8. CASE load_inbox_manifest
  BY <1>8 DEF load_inbox_manifest, Parsed
<1>9. CASE fetch_release
  <2>1. failed' \in BOOLEAN
    BY <1>9, Zenon DEF fetch_release
  <2>2. TypeOK'
    BY <1>9, <2>1 DEF fetch_release
  <2>3. CtxInv'
    BY <1>9 DEF fetch_release
  <2> QED BY <2>2, <2>3
<1>10. CASE validate_release
  BY <1>10 DEF validate_release
<1>11. CASE apply_release
  BY <1>11 DEF apply_release
<1>12. CASE waitpid
  BY <1>12 DEF waitpid, NoChild
<1>13. CASE unlink_current
  BY <1>13 DEF unlink_current
<1>14. CASE rename_manifest
  BY <1>14 DEF rename_manifest, CheckSucceeds, Return, InboxNames, Reserved
<1>15. CASE sync_and_reboot
  BY <1>15 DEF sync_and_reboot, CheckSucceeds, Return
<1>16. CASE attempt_end
  BY <1>16 DEF attempt_end
<1>17. CASE sleep
  BY <1>17 DEF sleep, Return
<1> HIDE DEF TypeInv
<1> QED
  BY <1>1, <1>2, <1>3, <1>4, <1>5, <1>6, <1>7, <1>8, <1>9, <1>10, <1>11, <1>12,
     <1>13, <1>14, <1>15, <1>16, <1>17, <1>2a DEF Step

\* So do signals, crashes, RAUC, the publisher and restarts.
LEMMA TypeNext == TypeInv /\ [Next]_vars => TypeInv'
<1> SUFFICES ASSUME TypeInv, [Next]_vars PROVE TypeInv'
  OBVIOUS
<1>2. CASE Step
  BY <1>2, TypeStep
<1> USE Inputs, Sentinels
    DEF TypeInv, TypeOK, CtxInv, FetchingPayload, Fetching, Holding, loop, fetch,
        ctx, disk, device, outside, Fault, NoFault, NoChild
<1>1. ASSUME NEW d \in Modes, ota_fetch_run(d) PROVE TypeInv'
  BY <1>1, ZenonT(30) DEF ota_fetch_run, Running
<1>3. CASE handle_termination_signal
  BY <1>3 DEF handle_termination_signal, Running, AttemptEnds, Abandon, ChildRuns
<1>4. CASE Kill
  BY <1>4 DEF Kill, Running, Abandon, ChildRuns
<1>5. CASE PowerCut
  BY <1>5 DEF PowerCut, Surviving, Present
<1>6. CASE RaucOpens
  BY <1>6 DEF RaucOpens, ChildRuns, InboxNames
<1>7. CASE RaucInstalls
  BY <1>7 DEF RaucInstalls, ChildRuns
<1>8. CASE RaucFails
  BY <1>8 DEF RaucFails, ChildRuns
<1>9. ASSUME NEW o \in orphans, OrphanOpens(o) PROVE TypeInv'
  BY <1>9 DEF OrphanOpens, InboxNames
<1>10. ASSUME NEW o \in orphans, OrphanInstalls(o) PROVE TypeInv'
  BY <1>10 DEF OrphanInstalls
<1>11. ASSUME NEW o \in orphans, OrphanFails(o) PROVE TypeInv'
  BY <1>11 DEF OrphanFails
<1>12. CASE StopGroup
  BY <1>12 DEF StopGroup
<1>13. CASE Publish
  BY <1>13 DEF Publish
<1>14. CASE UNCHANGED vars
  BY <1>14 DEF vars
<1> HIDE DEF TypeInv
<1> QED
  BY <1>1, <1>2, <1>3, <1>4, <1>5, <1>6, <1>7, <1>8, <1>9, <1>10, <1>11, <1>12,
     <1>13, <1>14 DEF Next, Rauc, Orphan

\* Types and context hold throughout, whatever is served, fails or crashes.
THEOREM TypeCorrect == Spec => []TypeOK
<1>1. Spec => []TypeInv
  BY TypeInit, TypeNext, PTL DEF Spec
<1>2. TypeInv => TypeOK
  BY DEF TypeInv
<1> QED
  BY <1>1, <1>2, PTL

-----------------------------------------------------------------------------
(* Safety, provided no payload is named like one of the manifest files. *)

NoReservedNames == Filenames \cap Reserved = {}

\* The inbox manifest has been verified and not been touched since.
VerifiedStage ==
  FetchingPayload \/ pc \in {"compare", "load", "fetch_release", "validate_release",
                             "apply", "waitpid", "unlink_current", "rename_manifest"}

\* The payload has been validated and not been touched since.
ValidatedStage == pc \in {"apply", "waitpid", "unlink_current", "rename_manifest"}

StageInv ==
  /\ VerifiedStage =>
       verified = inbox[MANIFEST] /\ verified \in Manifests /\ Authentic(verified)
  /\ LoadedIsVerified
  /\ ValidatedStage => file.sha256 = hex_encode(inbox[file.filename])

RaucInv ==
  /\ rauc.state # "none" /\ rauc.bundle # NoFile => rauc.bundle = inbox[file.filename]
  /\ rauc.state = "ok" => rauc.bundle \in installs
  /\ pc \in {"unlink_current", "rename_manifest"} => Applied(verified)

\* Whatever a power cut may bring back was applied.
RecordInv == \A x \in durable : x \in {NoFile, Torn} \/ (x \in Manifests /\ Applied(x))

SafeInv == StageInv /\ RaucInv /\ RecordInv

\* Before the first process nothing is recorded, installed or in the inbox.
LEMMA SafeInit == Init => SafeInv
BY DEF Init, SafeInv, StageInv, RaucInv, RecordInv, NoChild, VerifiedStage,
       ValidatedStage, FetchingPayload, Fetching, LoadedIsVerified

\* What was applied stays applied when more is installed.
LEMMA AppliedStays ==
  ASSUME installs \subseteq installs', NEW m, Applied(m)
  PROVE  Applied(m)'
BY Zenon DEF Applied

\* A power cut brings back nothing new if nothing new is recorded.
LEMMA RecordKept ==
  ASSUME RecordInv, durable' \subseteq durable, installs \subseteq installs'
  PROVE  RecordInv'
<1> SUFFICES ASSUME NEW x \in durable'
             PROVE  x \in {NoFile, Torn} \/ (x \in Manifests /\ Applied(x)')
  BY Zenon DEF RecordInv
<1>1. x \in {NoFile, Torn} \/ (x \in Manifests /\ Applied(x))
  BY Zenon DEF RecordInv
<1> QED
  BY <1>1, AppliedStays, Zenon

\* Outside the stages that rely on the inbox, only the record matters.
LEMMA Idle ==
  ASSUME SafeInv, ~VerifiedStage', rauc'.state = "none",
         manifest' = NULL \/ UNCHANGED <<manifest, verified>>,
         durable' \subseteq durable, installs \subseteq installs'
  PROVE  SafeInv'
<1>1. RecordInv'
  BY RecordKept, Zenon DEF SafeInv
<1>2. ~ValidatedStage' /\ pc' \notin {"unlink_current", "rename_manifest"}
  BY DEF VerifiedStage, ValidatedStage
<1>3. RaucInv'
  BY <1>2 DEF RaucInv
<1>4. LoadedIsVerified'
  BY DEF SafeInv, StageInv, LoadedIsVerified
<1> QED
  BY <1>1, <1>2, <1>3, <1>4, Zenon DEF SafeInv, StageInv

\* A step that leaves the process and its files alone may only install more.
LEMMA Undisturbed ==
  ASSUME SafeInv, installs \subseteq installs',
         UNCHANGED <<pc, job, ctx, rauc, inbox, durable, verified>>
  PROVE  SafeInv'
<1>1. RecordInv'
  BY RecordKept, Zenon DEF SafeInv
<1>2. StageInv'
  BY DEF SafeInv, StageInv, VerifiedStage, ValidatedStage, LoadedIsVerified,
         FetchingPayload, ctx
<1>3. Applied(verified) => Applied(verified)'
  BY Zenon DEF Applied
<1>4. RaucInv'
  BY <1>3 DEF SafeInv, RaucInv, ctx
<1> QED
  BY <1>1, <1>2, <1>4 DEF SafeInv

\* fetch_file, whatever it returns, leaves a verified manifest alone.
LEMMA Fetched ==
  ASSUME TypeInv, SafeInv, pc \in Fetching, UNCHANGED <<rauc, durable, installs, verified>>,
         job = "payload" => inbox'[MANIFEST] = inbox[MANIFEST],
         (pc' \in Fetching /\ UNCHANGED <<ctx, fetch>>) \/ FetchReturned
  PROVE  SafeInv'
<1>1. UNCHANGED <<manifest, verified>> /\ rauc'.state = "none"
  BY DEF FetchReturned, ctx, TypeInv, CtxInv, Fetching
<1>2. pc' \notin {"apply", "waitpid", "unlink_current", "rename_manifest"}
  BY DEF FetchReturned, Fetching
<1>3. VerifiedStage' => VerifiedStage /\ job = "payload"
  BY <1>2 DEF FetchReturned, Fetching, VerifiedStage, FetchingPayload, fetch
<1>4. VerifiedStage' => verified = inbox'[MANIFEST] /\ verified \in Manifests
                        /\ Authentic(verified)
  BY <1>3 DEF SafeInv, StageInv
<1>5. LoadedIsVerified'
  BY <1>1 DEF SafeInv, StageInv, LoadedIsVerified
<1>6. StageInv'
  BY <1>1, <1>2, <1>4, <1>5 DEF StageInv, ValidatedStage
<1>7. RaucInv'
  BY <1>1, <1>2 DEF RaucInv
<1>8. RecordInv'
  BY RecordKept DEF SafeInv
<1> QED
  BY <1>6, <1>7, <1>8 DEF SafeInv

\* Every step of the process keeps what is staged, installed and recorded in
\* agreement.
LEMMA SafeStep ==
  ASSUME NoReservedNames, TypeInv, SafeInv, Step
  PROVE  SafeInv'
<1> USE DEF Goto, AttemptEnds, Return, CheckSucceeds, ctx, disk, device, fetch
<1>a. pc # "waitpid" => rauc.state = "none"
  BY DEF TypeInv, CtxInv
<1>b. ASSUME pc # "waitpid", UNCHANGED <<rauc, installs>>, durable' \subseteq durable,
             ~VerifiedStage', manifest' = NULL \/ UNCHANGED <<manifest, verified>>
      PROVE  SafeInv'
  BY <1>a, <1>b, Idle
<1>c. ASSUME pc' \in {"attempt_end", "exited", "off", "init", "sleep", "cleanup",
                      "fetch_new_manifest", "reboot"}
      PROVE  ~VerifiedStage'
  BY <1>c DEF VerifiedStage, FetchingPayload, Fetching
<1>1. CASE ota_ctx_init
  BY <1>1, <1>b, <1>c DEF ota_ctx_init
<1>2. CASE ota_inbox_cleanup
  BY <1>2, <1>b, <1>c DEF ota_inbox_cleanup
<1>2a. CASE fetch_new_manifest
  <2>1. ~VerifiedStage'
    BY <1>2a DEF fetch_new_manifest, VerifiedStage, FetchingPayload, Fetching
  <2> QED BY <1>2a, <1>b, <2>1 DEF fetch_new_manifest
<1>3. CASE fetch_file_open \/ fetch_file_perform
  <2>1. pc \in Fetching /\ UNCHANGED <<rauc, inbox, durable, installs, verified>>
    BY <1>3, Zenon DEF fetch_file_open, fetch_file_perform, Fetching
  <2>2. (pc' \in Fetching /\ UNCHANGED <<ctx, fetch>>) \/ FetchReturned
    BY <1>3, <2>1, FetchReturnsTo, Zenon DEF fetch_file_open, fetch_file_perform, Fetching
  <2> QED BY <2>1, <2>2, Fetched
<1>5. CASE fetch_file_rename
  <2>1. pc \in Fetching /\ UNCHANGED <<rauc, durable, installs, verified>>
    BY <1>5 DEF fetch_file_rename, Fetching
  <2>2. FetchReturned
    BY <1>5, <2>1, FetchReturnsTo, Zenon DEF fetch_file_rename
  <2>3. job = "payload" => inbox'[MANIFEST] = inbox[MANIFEST]
    <3>1. job = "payload" => Dest \in Filenames
      BY <2>1, Inputs DEF Dest, TypeInv, TypeOK, CtxInv, FetchingPayload
    <3>2. job = "payload" => Dest # MANIFEST
      BY <3>1 DEF NoReservedNames, Reserved
    <3>3. UNCHANGED inbox \/ inbox' = [inbox EXCEPT ![Dest] = tmp[Dest]]
      BY <1>5, Zenon DEF fetch_file_rename
    <3> QED BY <3>2, <3>3 DEF TypeInv, TypeOK, InboxNames, Reserved
  <2> QED BY <2>1, <2>2, <2>3, Fetched
<1>d. ASSUME pc # "waitpid", UNCHANGED <<rauc, inbox, durable, installs>>, RecordInv',
             pc' \notin {"unlink_current", "rename_manifest"},
             VerifiedStage' => verified' = inbox[MANIFEST] /\ verified' \in Manifests
                               /\ Authentic(verified'),
             LoadedIsVerified',
             ValidatedStage' => file'.sha256 = hex_encode(inbox[file'.filename])
      PROVE  SafeInv'
  <2>1. RaucInv'
    BY <1>a, <1>d DEF RaucInv
  <2> QED BY <1>d, <2>1 DEF SafeInv, StageInv
<1>e. UNCHANGED <<durable, installs>> => RecordInv'
  BY RecordKept DEF SafeInv
<1>f. VerifiedStage => verified = inbox[MANIFEST] /\ verified \in Manifests
                       /\ Authentic(verified)
  BY DEF SafeInv, StageInv
<1>g. LoadedIsVerified
  BY DEF SafeInv, StageInv
<1>h. pc \in {"apply", "unlink_current", "rename_manifest", "validate_release", "waitpid"}
      => VerifiedStage /\ manifest = verified /\ file = FileFor(verified) /\ file # NULL
  BY <1>g DEF VerifiedStage, TypeInv, CtxInv, Holding, LoadedIsVerified
<1>6. CASE validate_new_manifest
  <2>1. CASE pc' = "attempt_end"
    BY <1>6, <2>1, <1>b, <1>c DEF validate_new_manifest
  <2>2. CASE pc' # "attempt_end"
    <3>1. /\ pc = "validate" /\ pc' = "compare" /\ verified' = inbox[MANIFEST]
          /\ VerifyResult = "VERIFY_OK"
          /\ UNCHANGED <<rauc, inbox, durable, installs, manifest, file>>
      BY <1>6, <2>2 DEF validate_new_manifest
    <3>2. inbox[MANIFEST] \in Manifests /\ Authentic(inbox[MANIFEST])
      BY <3>1, VerifiedIsManifest DEF VerifyResult, Authentic
    <3>3. Authentic(verified')
      BY <3>1, <3>2
    <3>4. manifest' = NULL
      BY <3>1 DEF TypeInv, CtxInv, Holding, FetchingPayload, Fetching
    <3> QED BY <1>d, <1>e, <3>1, <3>2, <3>3, <3>4 DEF LoadedIsVerified, ValidatedStage
  <2> QED BY <2>1, <2>2
<1>7. CASE compare_manifests
  <2>1. CASE pc' # "load"
    BY <1>7, <2>1, <1>b, <1>c DEF compare_manifests
  <2>2. CASE pc' = "load"
    <3>1. /\ pc = "compare" /\ UNCHANGED <<rauc, inbox, durable, installs, manifest,
                                           verified>>
      BY <1>7, <2>2 DEF compare_manifests
    <3>2. VerifiedStage
      BY <3>1 DEF VerifiedStage
    <3> QED BY <1>d, <1>e, <1>f, <1>g, <2>2, <3>1, <3>2 DEF LoadedIsVerified, ValidatedStage
  <2> QED BY <2>1, <2>2
<1>8. CASE load_inbox_manifest
  <2>1. CASE pc' = "attempt_end"
    BY <1>8, <2>1, <1>b, <1>c DEF load_inbox_manifest
  <2>2. CASE pc' # "attempt_end"
    <3>1. /\ pc = "load" /\ pc' = "fetch_release" /\ manifest' = inbox[MANIFEST]
          /\ UNCHANGED <<rauc, inbox, durable, installs, verified>>
      BY <1>8, <2>2 DEF load_inbox_manifest
    <3>2. VerifiedStage
      BY <3>1 DEF VerifiedStage
    <3> QED BY <1>d, <1>e, <1>f, <3>1, <3>2 DEF LoadedIsVerified, ValidatedStage
  <2> QED BY <2>1, <2>2
<1>9. CASE fetch_release
  <2>1. CASE pc' = "attempt_end"
    BY <1>9, <2>1, <1>b, <1>c DEF fetch_release
  <2>2. CASE pc' # "attempt_end"
    <3>1. /\ pc = "fetch_release" /\ pc' = "fetch_open"
          /\ UNCHANGED <<rauc, inbox, durable, installs, manifest, verified>>
      BY <1>9, <2>2 DEF fetch_release
    <3>2. VerifiedStage
      BY <3>1 DEF VerifiedStage
    <3> QED BY <1>d, <1>e, <1>f, <1>g, <3>1, <3>2 DEF LoadedIsVerified, ValidatedStage
  <2> QED BY <2>1, <2>2
<1>10. CASE validate_release
  <2>1. CASE pc' = "attempt_end"
    BY <1>10, <2>1, <1>b, <1>c DEF validate_release
  <2>2. CASE pc' # "attempt_end"
    <3>1. /\ pc = "validate_release" /\ pc' = "apply"
          /\ file.sha256 = hex_encode(inbox[file.filename])
          /\ UNCHANGED <<rauc, inbox, durable, installs, manifest, file, verified>>
      BY <1>10, <2>2 DEF validate_release, PayloadHashMatches
    <3> QED BY <1>d, <1>e, <1>f, <1>g, <1>h, <3>1 DEF LoadedIsVerified
  <2> QED BY <2>1, <2>2
<1>i. ASSUME ValidatedStage, ValidatedStage', rauc'.bundle = NoFile \/ rauc'.state = "none",
             rauc'.state # "ok", UNCHANGED <<manifest, file, verified, inbox, installs>>,
             RecordInv',
             pc' \in {"unlink_current", "rename_manifest"} => Applied(verified)
      PROVE  SafeInv'
  <2>1. VerifiedStage
    BY <1>i DEF ValidatedStage, VerifiedStage
  <2>2. StageInv'
    BY <1>f, <1>g, <1>i, <2>1 DEF SafeInv, StageInv, LoadedIsVerified
  <2>3. Applied(verified) => Applied(verified)'
    BY <1>i, Zenon DEF Applied
  <2>4. RaucInv'
    BY <1>i, <2>3 DEF RaucInv
  <2> QED BY <1>i, <2>2, <2>4 DEF SafeInv
<1>11. CASE apply_release
  <2>0. pc = "apply" /\ UNCHANGED <<manifest, file, verified, inbox, installs, durable>>
    BY <1>11 DEF apply_release
  <2>1. CASE pc' = "attempt_end"
    BY <1>11, <2>1, <1>b, <1>c DEF apply_release
  <2>2. CASE pc' = "waitpid"
    <3>1. rauc'.bundle = NoFile /\ rauc'.state = "running"
      BY <1>11, <2>2 DEF apply_release
    <3> QED BY <1>e, <1>i, <2>0, <2>2, <3>1 DEF ValidatedStage
  <2>3. CASE pc' = "unlink_current"
    <3>1. UNCHANGED rauc /\ file.file_type = "rauc_bundle_test"
      BY <1>11, <2>3 DEF apply_release
    <3>2. Applied(verified)
      BY <1>f, <1>h, <2>0, <3>1 DEF Applied, IsTest
    <3> QED BY <1>a, <1>e, <1>i, <2>0, <2>3, <3>1, <3>2 DEF ValidatedStage
  <2> QED BY <1>11, <2>1, <2>2, <2>3 DEF apply_release
<1>12. CASE waitpid
  <2>1. /\ pc = "waitpid" /\ rauc'.state = "none" /\ rauc'.bundle = NoFile
        /\ pc' \in {"unlink_current", "attempt_end"}
        /\ pc' = "unlink_current" => rauc.state = "ok"
        /\ UNCHANGED <<manifest, file, inbox, durable, installs, verified>>
    BY <1>12 DEF waitpid, NoChild
  <2>2. CASE pc' = "attempt_end"
    BY <1>c, <2>1, <2>2, Idle
  <2>3. CASE pc' = "unlink_current"
    <3>1. rauc.bundle \in installs
      BY <2>1, <2>3 DEF SafeInv, RaucInv
    <3>2. rauc.bundle # NoFile
      BY <3>1, Sentinels, SMTT(30) DEF TypeInv, TypeOK, Bodies
    <3>3. rauc.bundle = inbox[file.filename]
      BY <2>1, <2>3, <3>2, Zenon DEF SafeInv, RaucInv
    <3>4. file.sha256 = hex_encode(inbox[file.filename])
      BY <2>1, Zenon DEF SafeInv, StageInv, ValidatedStage
    <3>5. Fits(rauc.bundle, verified)
      BY <1>h, <2>1, <3>3, <3>4 DEF Fits
    <3>6. Applied(verified)
      BY <1>f, <1>h, <2>1, <3>1, <3>5 DEF Applied
    <3> QED BY <1>e, <1>i, <2>1, <2>3, <3>6 DEF ValidatedStage
  <2> QED BY <2>1, <2>2, <2>3
<1>j. pc \in {"unlink_current", "rename_manifest"} => Applied(verified)
  BY DEF SafeInv, RaucInv
<1>k. ASSUME NEW new, durable' = durable \cup new, installs' = installs,
             \A x \in new : x \in {NoFile, Torn} \/ (x \in Manifests /\ Applied(x))
      PROVE  RecordInv'
  <2>1. \A x \in durable' : x \in {NoFile, Torn} \/ (x \in Manifests /\ Applied(x))
    BY <1>k DEF SafeInv, RecordInv
  <2>2. \A x : Applied(x) => Applied(x)'
    BY <1>k, AppliedStays
  <2> QED BY <2>1, <2>2, Zenon DEF RecordInv
<1>13. CASE unlink_current
  <2>1. /\ pc = "unlink_current" /\ pc' = "rename_manifest"
        /\ UNCHANGED <<rauc, manifest, file, inbox, installs, verified>>
        /\ durable' = durable \cup {NoFile} \/ UNCHANGED durable
    BY <1>13 DEF unlink_current
  <2>2. RecordInv'
    BY <1>e, <1>k, <2>1, ZenonT(60)
  <2> QED BY <1>a, <1>i, <1>j, <2>1, <2>2 DEF ValidatedStage
<1>14. CASE rename_manifest
  <2>1. /\ pc = "rename_manifest" /\ pc' \in {"attempt_end", "exited", "reboot"}
        /\ UNCHANGED <<rauc, installs, verified>>
        /\ manifest' = NULL \/ UNCHANGED manifest
        /\ durable' = durable \cup {inbox[MANIFEST], Torn} \/ UNCHANGED durable
    BY <1>14 DEF rename_manifest
  <2>2. inbox[MANIFEST] \in Manifests /\ Applied(inbox[MANIFEST])
    BY <1>f, <1>h, <1>j, <2>1
  <2>3. RecordInv'
    BY <1>e, <1>k, <2>1, <2>2, Zenon
  <2>4. ~VerifiedStage' /\ ~ValidatedStage'
    BY <1>c, <2>1 DEF ValidatedStage
  <2>5. LoadedIsVerified'
    BY <1>g, <2>1 DEF LoadedIsVerified
  <2>6. RaucInv'
    BY <1>a, <2>1 DEF RaucInv
  <2> QED BY <2>3, <2>4, <2>5, <2>6 DEF SafeInv, StageInv
<1>15. CASE sync_and_reboot
  <2>1. durable' \subseteq durable
    BY <1>15 DEF sync_and_reboot, TypeInv, TypeOK
  <2> QED BY <1>15, <1>b, <1>c, <2>1 DEF sync_and_reboot
<1>16. CASE attempt_end
  BY <1>16, <1>b, <1>c DEF attempt_end
<1>17. CASE sleep
  BY <1>17, <1>b, <1>c DEF sleep
<1> QED
  BY <1>1, <1>2, <1>3, <1>5, <1>6, <1>7, <1>8, <1>9, <1>10, <1>11, <1>12,
     <1>13, <1>14, <1>15, <1>16, <1>17, <1>2a DEF Step

\* So do signals, crashes, RAUC children, the publisher and restarts.
LEMMA SafeNext == NoReservedNames /\ TypeInv /\ SafeInv /\ [Next]_vars => SafeInv'
<1> SUFFICES ASSUME NoReservedNames, TypeInv, SafeInv, [Next]_vars PROVE SafeInv'
  OBVIOUS
<1> USE DEF ctx, disk, device
<1>a. rauc.state # "none" => pc = "waitpid"
  BY DEF TypeInv, CtxInv
<1>b. ASSUME pc' \in {"off", "init", "attempt_end"} PROVE ~VerifiedStage'
  BY <1>b DEF VerifiedStage, FetchingPayload, Fetching
<1>1. ASSUME NEW d \in Modes, ota_fetch_run(d) PROVE SafeInv'
  <2>1. /\ pc \in {"exited", "off"} /\ pc' = "init"
        /\ UNCHANGED <<manifest, rauc, durable, installs>>
    BY <1>1 DEF ota_fetch_run, Running
  <2>2. manifest' = NULL
    BY <2>1 DEF TypeInv, CtxInv, Holding, FetchingPayload, Fetching
  <2> QED BY <1>a, <1>b, <2>1, <2>2, Idle
<1>2. CASE Step
  BY <1>2, SafeStep
<1>3. CASE handle_termination_signal
  <2>1. CASE pc = "waitpid" /\ ChildRuns
    BY <1>3, <2>1, <1>b, Idle DEF handle_termination_signal, AttemptEnds, Abandon, NoChild
  <2>2. CASE ~(pc = "waitpid" /\ ChildRuns)
    BY <1>3, <2>2, Undisturbed DEF handle_termination_signal, fetch
  <2> QED BY <2>1, <2>2
<1>4. CASE Kill
  BY <1>4, <1>b, Idle DEF Kill, Abandon, NoChild
<1>5. CASE PowerCut
  BY <1>5, <1>b, Idle DEF PowerCut, NoChild
<1>c. ASSUME pc = "waitpid", UNCHANGED <<pc, job, ctx, inbox, durable, verified>>,
             installs \subseteq installs',
             rauc'.bundle # NoFile => rauc'.bundle = inbox[file.filename],
             rauc'.state = "ok" => rauc'.bundle \in installs'
      PROVE  SafeInv'
  <2>1. RecordInv'
    BY <1>c, RecordKept DEF SafeInv
  <2>2. StageInv'
    BY <1>c, SMTT(30) DEF SafeInv, StageInv, VerifiedStage, ValidatedStage, LoadedIsVerified,
                FetchingPayload
  <2>3. RaucInv'
    BY <1>c, SMTT(30) DEF RaucInv
  <2> QED BY <2>1, <2>2, <2>3 DEF SafeInv
<1>d. ASSUME ChildRuns
      PROVE  /\ pc = "waitpid"
             /\ rauc.bundle # NoFile => rauc.bundle = inbox[file.filename]
             /\ rauc = [state |-> rauc.state, bundle |-> rauc.bundle]
  BY <1>a, <1>d DEF ChildRuns, SafeInv, RaucInv, TypeInv, TypeOK
<1>6. CASE RaucOpens
  <2>1. rauc'.state = "running" /\ rauc'.bundle = inbox[file.filename]
    BY <1>6, <1>d DEF RaucOpens, ChildRuns
  <2> QED BY <1>6, <1>c, <1>d, <2>1 DEF RaucOpens, fetch
<1>7. CASE RaucInstalls
  <2>1. rauc'.bundle = rauc.bundle
    BY <1>7, <1>d DEF RaucInstalls
  <2> QED BY <1>7, <1>c, <1>d, <2>1 DEF RaucInstalls, fetch
<1>8. CASE RaucFails
  <2>1. rauc'.state = "failed" /\ rauc'.bundle = rauc.bundle
    BY <1>8, <1>d DEF RaucFails
  <2> QED BY <1>8, <1>c, <1>d, <2>1 DEF RaucFails, fetch
<1>9. ASSUME NEW o \in orphans, OrphanInstalls(o) PROVE SafeInv'
  BY <1>9, Undisturbed DEF OrphanInstalls, fetch
<1>11. ASSUME NEW o \in orphans, OrphanOpens(o) \/ OrphanFails(o) PROVE SafeInv'
  BY <1>11, Undisturbed DEF OrphanOpens, OrphanFails, fetch
<1>12. CASE StopGroup \/ Publish \/ UNCHANGED vars
  BY <1>12, Undisturbed DEF StopGroup, Publish, vars, fetch
<1> QED
  BY <1>1, <1>2, <1>3, <1>4, <1>5, <1>6, <1>7, <1>8, <1>9, <1>11, <1>12
  DEF Next, Rauc, Orphan

\* SafeInv holds throughout.
LEMMA SafeAlways ==
  ASSUME NoReservedNames
  PROVE  Spec => [](TypeInv /\ SafeInv)
<1>1. TypeInv /\ SafeInv /\ [Next]_vars => SafeInv'
  BY SafeNext
<1> QED
  BY <1>1, TypeInit, TypeNext, SafeInit, PTL DEF Spec

\* The current manifest was signed and its payload installed, for any inputs, any
\* number of faults and restarts, and RAUC children that outlive the process.
THEOREM CurrentIsApplied ==
  ASSUME NoReservedNames
  PROVE  Spec => []CurrentWasApplied
<1>1. TypeInv /\ SafeInv => CurrentWasApplied
  BY DEF TypeInv, TypeOK, SafeInv, RecordInv, CurrentWasApplied
<1> QED
  BY <1>1, SafeAlways, PTL

\* No unverified manifest is ever acted on.
THEOREM ActsOnVerified ==
  ASSUME NoReservedNames
  PROVE  Spec => []LoadedIsVerified
<1>1. SafeInv => LoadedIsVerified
  BY DEF SafeInv, StageInv
<1> QED
  BY <1>1, SafeAlways, PTL

\* A step that gives up the previous manifest has a verified and applied one in
\* hand.
THEOREM OldManifestKept ==
  ASSUME NoReservedNames
  PROVE  Spec => OldManifestKeptUntilApplied
<1>1. TypeInv /\ SafeInv /\ [Next]_vars =>
        [(current \in Manifests /\ current' # current /\ pc' # "off")
           => Applied(verified)]_vars
  <2> SUFFICES ASSUME TypeInv, SafeInv, Next, current' # current, pc' # "off"
               PROVE  pc \in {"unlink_current", "rename_manifest"}
    BY ZenonT(30) DEF SafeInv, RaucInv
  <2> USE DEF disk
  <2>1. CASE Step
    BY <2>1, ZenonT(30) DEF Step, ota_ctx_init, ota_inbox_cleanup, fetch_new_manifest,
      fetch_file_open, fetch_file_perform,
      fetch_file_rename, validate_new_manifest, compare_manifests, load_inbox_manifest,
      fetch_release, validate_release, apply_release, waitpid, unlink_current,
      rename_manifest, sync_and_reboot, attempt_end, sleep
  <2>2. CASE ~Step
    BY <2>2, Zenon DEF Next, ota_fetch_run, handle_termination_signal, Kill, PowerCut, Rauc,
      RaucOpens, RaucInstalls, RaucFails, Orphan, OrphanOpens, OrphanInstalls,
      OrphanFails, StopGroup, Publish
  <2> QED BY <2>1, <2>2
<1> QED
  BY <1>1, SafeAlways, PTL DEF Spec, OldManifestKeptUntilApplied

-----------------------------------------------------------------------------
(* The files of this attempt *)

\* While the manifest files are fetched without a failure, those before the
\* current one are in place; afterwards all three are, and the payload once it
\* has been fetched too.
OwnInv ==
  /\ pc \in Fetching /\ failed = FALSE =>
       /\ job \in {"sig", "cert"} => MANIFEST \in fetched
       /\ job = "cert" => SIGNATURE \in fetched
  /\ VerifiedStage \/ pc \in {"validate", "reboot"} => Reserved \subseteq fetched
  /\ pc \in Holding => file.filename \in fetched

\* Elsewhere nothing is claimed.
LEMMA OwnIdle ==
  ASSUME pc' \in {"off", "exited", "init", "cleanup", "fetch_new_manifest", "attempt_end",
                  "sleep"}
  PROVE  OwnInv'
BY DEF OwnInv, VerifiedStage, FetchingPayload, Fetching, Holding

\* A step from one use of the files to the next.
LEMMA OwnKept ==
  ASSUME OwnInv, UNCHANGED fetched,
         VerifiedStage' \/ pc' \in {"validate", "reboot"}
           => VerifiedStage \/ pc \in {"validate", "reboot"},
         pc' \in Holding => pc \in Holding /\ UNCHANGED file,
         pc' \in Fetching => job' = "payload" \/ (pc \in Fetching /\ UNCHANGED <<job, failed>>)
  PROVE  OwnInv'
BY DEF OwnInv

\* fetch_file adds the file to those of the attempt, or the attempt has failed.
LEMMA OwnFetched ==
  ASSUME TypeInv, OwnInv, pc \in Fetching, FetchReturns(TRUE) \/ FetchReturns(FALSE)
  PROVE  OwnInv'
<1>1. job \in {"manifest", "sig", "cert", "payload"} /\ failed \in BOOLEAN /\ FetchReturned
  BY FetchReturnsTo, Zenon DEF TypeInv, TypeOK
<1>2. CASE FetchReturns(FALSE)
  <2>1. failed' = TRUE /\ pc' \in {"fetch_open", "attempt_end"}
    BY <1>1, <1>2, Zenon DEF FetchReturns, Goto, AttemptEnds
  <2>2. pc' = "fetch_open" => job' # "payload"
    BY <1>1 DEF FetchReturned
  <2> QED
    BY <2>1, <2>2 DEF OwnInv, VerifiedStage, FetchingPayload, Fetching, Holding
<1>3. CASE FetchReturns(TRUE)
  <2>1. failed' = failed /\ fetched' = fetched \cup {Dest} /\ UNCHANGED file
    BY <1>1, <1>3, Zenon DEF FetchReturns, FetchReturned, ctx
  <2>2. CASE job = "manifest"
    <3>1. pc' = "fetch_open" /\ job' = "sig" /\ Dest = MANIFEST
      BY <1>3, <2>2 DEF FetchReturns, Goto, Dest
    <3> QED
      BY <2>1, <3>1 DEF OwnInv, VerifiedStage, FetchingPayload, Fetching, Holding
  <2>3. CASE job = "sig"
    <3>1. pc' = "fetch_open" /\ job' = "cert" /\ Dest = SIGNATURE
      BY <1>3, <2>3 DEF FetchReturns, Goto, Dest
    <3> QED
      BY <2>1, <2>3, <3>1 DEF OwnInv, VerifiedStage, FetchingPayload, Fetching, Holding
  <2>4. CASE job = "cert"
    <3>1. pc' \in {"attempt_end", "validate"} /\ (failed = FALSE \/ pc' = "attempt_end")
      BY <1>1, <1>3, <2>1, <2>4, Zenon DEF FetchReturns, Goto, AttemptEnds
    <3>2. Dest = SIGNER
      BY <2>4 DEF Dest
    <3>3. pc' = "validate" => Reserved \subseteq fetched'
      BY <2>1, <2>4, <3>1, <3>2 DEF OwnInv, Reserved
    <3> QED
      BY <3>1, <3>3 DEF OwnInv, VerifiedStage, FetchingPayload, Fetching, Holding
  <2>5. CASE job = "payload"
    <3>1. pc' = "validate_release" /\ Dest = file.filename
      BY <1>3, <2>5 DEF FetchReturns, Goto, Dest
    <3>2. Reserved \subseteq fetched
      BY <2>5 DEF OwnInv, VerifiedStage, FetchingPayload
    <3> QED
      BY <2>1, <3>1, <3>2 DEF OwnInv, Fetching
  <2> QED BY <1>1, <2>2, <2>3, <2>4, <2>5
<1> QED
  BY <1>2, <1>3

\* Every step of the process uses the files of its attempt.
LEMMA OwnStep ==
  ASSUME TypeInv, OwnInv, Step
  PROVE  OwnInv'
<1> USE DEF fetch, ctx, Goto, AttemptEnds, Return, CheckSucceeds
<1>1. CASE ota_ctx_init \/ ota_inbox_cleanup \/ sync_and_reboot \/ attempt_end \/ sleep
  <2>1. pc' \in {"off", "exited", "init", "cleanup", "fetch_new_manifest", "attempt_end",
                 "sleep"}
    BY <1>1 DEF ota_ctx_init, ota_inbox_cleanup, sync_and_reboot, attempt_end, sleep
  <2> QED BY <2>1, OwnIdle
<1>2. CASE fetch_new_manifest
  <2>1. pc' = "attempt_end" \/ (pc' = "fetch_open" /\ job' = "manifest")
    BY <1>2, Zenon DEF fetch_new_manifest
  <2> QED
    BY <2>1 DEF OwnInv, VerifiedStage, FetchingPayload, Fetching, Holding
<1>3. CASE fetch_file_open \/ fetch_file_perform \/ fetch_file_rename
  <2>1. pc \in Fetching
    BY <1>3, Zenon DEF fetch_file_open, fetch_file_perform, fetch_file_rename, Fetching
  <2>2. \/ FetchReturns(TRUE) \/ FetchReturns(FALSE)
        \/ pc' \in {"fetch_perform", "fetch_rename"} /\ UNCHANGED <<job, failed, fetched>>
    BY <1>3, ZenonT(60) DEF fetch_file_open, fetch_file_perform, fetch_file_rename
  <2>3. CASE pc' \in {"fetch_perform", "fetch_rename"} /\ UNCHANGED <<job, failed, fetched>>
    BY <2>1, <2>3, OwnKept DEF VerifiedStage, FetchingPayload, Fetching, Holding
  <2> QED BY <2>1, <2>2, <2>3, OwnFetched
<1>4. CASE validate_new_manifest \/ compare_manifests \/ load_inbox_manifest \/ fetch_release
  <2>1. /\ pc \in {"validate", "compare", "load", "fetch_release"}
        /\ \/ pc' \in {"attempt_end", "exited"}
           \/ pc' \in {"compare", "load", "fetch_release"} /\ UNCHANGED fetched
           \/ pc' = "fetch_open" /\ job' = "payload" /\ UNCHANGED fetched
    BY <1>4 DEF validate_new_manifest, compare_manifests, load_inbox_manifest, fetch_release
  <2> QED
    BY <2>1, OwnIdle, OwnKept DEF VerifiedStage, FetchingPayload, Fetching, Holding
<1>5. CASE validate_release \/ apply_release \/ waitpid \/ unlink_current \/ rename_manifest
  <2>1. /\ pc \in {"validate_release", "apply", "waitpid", "unlink_current", "rename_manifest"}
        /\ \/ pc' \in {"attempt_end", "exited"}
           \/ pc' \in Holding /\ UNCHANGED <<fetched, file>>
    BY <1>5 DEF validate_release, apply_release, waitpid, unlink_current, rename_manifest,
                Holding
  <2> QED
    BY <2>1, OwnIdle, OwnKept DEF VerifiedStage, FetchingPayload, Fetching, Holding
<1> QED
  BY <1>1, <1>2, <1>3, <1>4, <1>5 DEF Step

\* So does everything around it.
LEMMA OwnNext == TypeInv /\ OwnInv /\ [Next]_vars => OwnInv'
<1> SUFFICES ASSUME TypeInv, OwnInv, [Next]_vars PROVE OwnInv'
  OBVIOUS
<1>1. CASE Step
  BY <1>1, OwnStep
<1>2. CASE ~Step
  <2>1. pc' \in {"init", "attempt_end", "off"} \/ UNCHANGED <<pc, fetch, ctx>>
    BY <1>2, ZenonT(60) DEF Next, ota_fetch_run, handle_termination_signal, AttemptEnds, Kill,
       PowerCut, Rauc, RaucOpens, RaucInstalls, RaucFails, Orphan, OrphanOpens,
       OrphanInstalls, OrphanFails, StopGroup, Publish, vars
  <2>2. CASE UNCHANGED <<pc, fetch, ctx>>
    BY <2>2, OwnKept DEF VerifiedStage, FetchingPayload, fetch, ctx
  <2> QED BY <2>1, <2>2, OwnIdle
<1> QED
  BY <1>1, <1>2

\* An attempt verifies, hands over and records only what it fetched itself, whatever
\* earlier attempts, kills and power cuts left in the inbox and however many unlinks
\* and downloads fail.
THEOREM AttemptUsesOwnFiles == Spec => []UsesOwnFiles
<1>1. Init => OwnInv
  BY DEF Init, OwnInv, VerifiedStage, FetchingPayload, Fetching, Holding
<1>2. OwnInv => UsesOwnFiles
  BY DEF OwnInv, UsesOwnFiles, VerifiedStage, Holding
<1> QED
  BY <1>1, <1>2, TypeInit, TypeNext, OwnNext, PTL DEF Spec

-----------------------------------------------------------------------------
(* How a run of the update loop ends *)

\* The attempts a one-shot run makes before it gives up: the loop tests its
\* condition after the first attempt.
Budget == IF retry_attempts > 1 THEN retry_attempts ELSE 1

\* A process that is still running has attempts left, in either mode.
BudgetInv == Running => attempt < Budget

\* A one-shot run comes to the end of an attempt only with a failure, and the
\* manifest it reboots for is the one it verified.
ExitInv ==
  /\ pc = "attempt_end" => daemon_mode \/ rc # 0
  /\ pc = "reboot" => verified # NULL /\ current = verified

\* The result of a failed fetch_file is never 0 and never ends the process.
LEMMA FetchFails ==
  ASSUME TypeInv, pc \in Fetching, FetchReturns(TRUE) \/ FetchReturns(FALSE)
  PROVE  /\ pc' \in {"fetch_open", "validate", "validate_release", "attempt_end"}
         /\ pc' = "attempt_end" => rc' # 0
<1> USE DEF FetchReturns, Goto, AttemptEnds, TypeInv, TypeOK
<1>1. failed' \in BOOLEAN
  BY Zenon
<1>2. CASE job \in {"manifest", "sig"}
  BY <1>2, Zenon
<1>3. CASE job = "cert"
  <2>1. CASE failed'
    <3>1. pc' = "attempt_end" /\ rc' = 1
      BY <1>1, <1>3, <2>1, Zenon
    <3> QED BY <3>1
  <2>2. CASE ~failed'
    BY <1>1, <1>3, <2>2
  <2> QED BY <2>1, <2>2
<1>4. CASE job = "payload"
  BY <1>1, <1>4
<1> QED
  BY <1>2, <1>3, <1>4

\* What a step of fetch_file does to the state of the loop.
LEMMA FetchStep ==
  ASSUME TypeInv, fetch_file_open \/ fetch_file_perform \/ fetch_file_rename
  PROVE  /\ pc \in Fetching
         /\ pc' \in Fetching \cup {"validate", "validate_release", "attempt_end"}
         /\ pc' = "attempt_end" => rc' # 0
         /\ UNCHANGED <<loop, current, verified>>
<1> USE DEF Fetching
<1>1. CASE fetch_file_open
  <2>1. pc = "fetch_open" /\ UNCHANGED <<loop, current, verified>>
    BY <1>1 DEF fetch_file_open
  <2>2. pc' = "fetch_perform" \/ FetchReturns(FALSE)
    BY <1>1, Zenon DEF fetch_file_open, Goto
  <2> QED BY <2>1, <2>2, FetchFails, Zenon
<1>2. CASE fetch_file_perform
  <2>1. pc = "fetch_perform" /\ UNCHANGED <<loop, current, verified>>
    BY <1>2 DEF fetch_file_perform
  <2>2. pc' = "fetch_rename" \/ FetchReturns(FALSE)
    BY <1>2, Zenon DEF fetch_file_perform, Goto
  <2> QED BY <2>1, <2>2, FetchFails, Zenon
<1>3. CASE fetch_file_rename
  <2>1. pc = "fetch_rename" /\ UNCHANGED <<loop, current, verified>>
    BY <1>3 DEF fetch_file_rename
  <2>2. FetchReturns(TRUE) \/ FetchReturns(FALSE)
    BY <1>3, ZenonT(60) DEF fetch_file_rename
  <2> QED BY <2>1, <2>2, FetchFails, Zenon
<1> QED
  BY <1>1, <1>2, <1>3

\* The steps that neither count attempts nor belong to the end of one.
Inner ==
  \/ ota_ctx_init \/ ota_inbox_cleanup \/ fetch_new_manifest
  \/ validate_new_manifest \/ compare_manifests \/ load_inbox_manifest
  \/ fetch_release \/ validate_release \/ apply_release \/ waitpid
  \/ unlink_current \/ rename_manifest \/ sync_and_reboot

\* Inside an attempt the loop's own variables stay, and the process exits only
\* when a check has succeeded.
LEMMA InnerStep ==
  ASSUME Inner
  PROVE  /\ Running /\ UNCHANGED loop
         /\ pc' = "attempt_end" => daemon_mode \/ rc' # 0
         /\ pc' = "exited" => rc' = 0 /\ ~daemon_mode
<1> USE DEF Running, Goto, AttemptEnds, Return, CheckSucceeds
<1>1. CASE ota_ctx_init \/ ota_inbox_cleanup \/ fetch_new_manifest
  BY <1>1, SMTT(30) DEF ota_ctx_init, ota_inbox_cleanup, fetch_new_manifest
<1>2. CASE validate_new_manifest \/ load_inbox_manifest \/ fetch_release
  BY <1>2, SMTT(30) DEF validate_new_manifest, load_inbox_manifest, fetch_release
<1>3. CASE validate_release \/ apply_release \/ waitpid \/ unlink_current
  BY <1>3, SMTT(30) DEF validate_release, apply_release, waitpid, unlink_current
<1>4. CASE compare_manifests
  BY <1>4, SMTT(30) DEF compare_manifests
<1>5. CASE rename_manifest
  BY <1>5, SMTT(30) DEF rename_manifest
<1>6. CASE sync_and_reboot
  BY <1>6, SMTT(30) DEF sync_and_reboot
<1> QED
  BY <1>1, <1>2, <1>3, <1>4, <1>5, <1>6, Zenon DEF Inner

\* The environment neither makes the process exit nor counts attempts, and starts
\* it with a count of 0.
LEMMA EnvStep ==
  ASSUME Next, ~Step
  PROVE  \/ pc' = "init" /\ attempt' = 0
         \/ pc' = "off"
         \/ /\ UNCHANGED <<daemon_mode, attempt, verified, current>>
            /\ \/ UNCHANGED <<pc, rc>>
               \/ pc = "waitpid" /\ pc' = "attempt_end" /\ rc' = -1
<1> USE DEF loop, disk
<1>1. CASE \E d \in Modes : ota_fetch_run(d)
  BY <1>1 DEF ota_fetch_run
<1>2. CASE handle_termination_signal
  BY <1>2 DEF handle_termination_signal, AttemptEnds
<1>3. CASE Kill \/ PowerCut
  BY <1>3 DEF Kill, PowerCut
<1>4. CASE Rauc \/ Orphan \/ StopGroup \/ Publish
  BY <1>4 DEF Rauc, RaucOpens, RaucInstalls, RaucFails, Orphan, OrphanOpens,
    OrphanInstalls, OrphanFails, StopGroup, Publish
<1> QED
  BY <1>1, <1>2, <1>3, <1>4 DEF Next

-----------------------------------------------------------------------------
(* Attempts *)

\* Every step keeps the count of a running process below its budget.
LEMMA BudgetNext == TypeInv /\ BudgetInv /\ [Next]_vars => BudgetInv'
<1> SUFFICES ASSUME TypeInv, BudgetInv, [Next]_vars PROVE BudgetInv'
  OBVIOUS
<1> USE DEF BudgetInv, Budget
<1>0. attempt \in Nat /\ retry_attempts \in Int
  BY Inputs DEF TypeInv, TypeOK
<1>1. CASE fetch_file_open \/ fetch_file_perform \/ fetch_file_rename
  BY <1>1, FetchStep DEF Running, Fetching, loop
<1>2. CASE Inner
  BY <1>2, InnerStep DEF loop
<1>3. CASE attempt_end
  BY <1>0, <1>3 DEF attempt_end, Running
<1>4. CASE sleep
  BY <1>4 DEF sleep, Running, loop
<1>5. CASE Next /\ ~Step
  BY <1>0, <1>5, EnvStep DEF Running
<1>6. CASE UNCHANGED vars
  BY <1>6 DEF vars, loop, Running
<1> QED
  BY <1>1, <1>2, <1>3, <1>4, <1>5, <1>6, SMTT(30) DEF Step, Inner

\* A run reports failure after exactly its budget of attempts, whatever fails,
\* and for every retry_attempts, also zero and negative ones.
THEOREM FailsAfterBudget == Spec => RetryBudget
<1>1. Init => BudgetInv
  BY DEF Init, BudgetInv, Running
<1>2. TypeInv /\ BudgetInv /\ [Next]_vars =>
        [Running /\ pc' = "exited" /\ rc' # 0
           => attempt' = (IF retry_attempts > 1 THEN retry_attempts ELSE 1)]_vars
  <2> SUFFICES ASSUME TypeInv, BudgetInv, Next, Running, pc' = "exited", rc' # 0
               PROVE  attempt' = Budget
    BY Zenon DEF Budget
  <2>0. attempt \in Nat /\ retry_attempts \in Int
    BY Inputs DEF TypeInv, TypeOK
  <2>1. ~(fetch_file_open \/ fetch_file_perform \/ fetch_file_rename)
    BY FetchStep DEF Fetching
  <2>2. ~Inner
    BY InnerStep
  <2>3. ~sleep
    BY DEF sleep, Return, Goto
  <2>4. Step
    BY EnvStep DEF Running
  <2>5. attempt_end
    BY <2>1, <2>2, <2>3, <2>4 DEF Step, Inner
  <2> QED
    BY <2>0, <2>5 DEF attempt_end, BudgetInv, Budget
<1> QED
  BY <1>1, <1>2, TypeInit, TypeNext, BudgetNext, PTL DEF Spec, RetryBudget

-----------------------------------------------------------------------------
(* Exit status 0 *)

\* The verified manifest is the current one as soon as it has been renamed.
LEMMA Recorded ==
  ASSUME TypeInv, SafeInv, rename_manifest, pc' # "attempt_end" \/ rc' = 0
  PROVE  verified' = verified /\ verified # NULL /\ current' = verified
<1>1. verified = inbox[MANIFEST] /\ verified \in Manifests
  BY Zenon DEF rename_manifest, SafeInv, StageInv, VerifiedStage
<1>2. verified' = verified /\ current' = inbox[MANIFEST]
  BY DEF rename_manifest, AttemptEnds
<1> QED
  BY <1>1, <1>2, Sentinels, SMTT(30)

\* Every step keeps ExitInv.
LEMMA ExitNext ==
  TypeInv /\ SafeInv /\ ExitInv /\ [Next]_vars => ExitInv'
<1> SUFFICES ASSUME TypeInv, SafeInv, ExitInv, [Next]_vars PROVE ExitInv'
  OBVIOUS
<1> USE DEF ExitInv
<1>1. CASE fetch_file_open \/ fetch_file_perform \/ fetch_file_rename
  BY <1>1, FetchStep DEF Fetching, loop
<1>2. CASE Inner
  <2>1. pc' = "attempt_end" => daemon_mode' \/ rc' # 0
    BY <1>2, InnerStep, SMTT(30) DEF loop
  <2>2. pc' = "reboot" => rename_manifest
    BY <1>2, Zenon DEF Inner, ota_ctx_init, ota_inbox_cleanup, fetch_new_manifest,
      validate_new_manifest, compare_manifests, load_inbox_manifest, fetch_release,
      validate_release, apply_release, waitpid, unlink_current, sync_and_reboot,
      Goto, AttemptEnds, Return, CheckSucceeds
  <2> QED BY <2>1, <2>2, Recorded
<1>3. CASE attempt_end \/ sleep
  BY <1>3 DEF attempt_end, sleep, Return, Goto
<1>4. CASE Next /\ ~Step
  BY <1>4, EnvStep
<1>5. CASE UNCHANGED vars
  BY <1>5 DEF vars, loop, disk
<1> QED
  BY <1>1, <1>2, <1>3, <1>4, <1>5 DEF Step, Inner

\* A run that exits with 0 and was not told to terminate was a one-shot run, and
\* the manifest it verified is the current one.
THEOREM ZeroMeansCurrent ==
  ASSUME NoReservedNames
  PROVE  Spec => ExitZeroMeansCurrent
<1>1. Init => ExitInv
  BY DEF Init, ExitInv
<1>2. TypeInv /\ SafeInv /\ ExitInv /\ [Next]_vars =>
        [Running /\ pc' = "exited" /\ rc' = 0 /\ ~g_terminate
           => ~daemon_mode /\ verified # NULL /\ current' = verified]_vars
  <2> SUFFICES ASSUME TypeInv, SafeInv, ExitInv, Next, Running, pc' = "exited",
                      rc' = 0, ~g_terminate
               PROVE  ~daemon_mode /\ verified # NULL /\ current' = verified
    OBVIOUS
  <2>1. ~(fetch_file_open \/ fetch_file_perform \/ fetch_file_rename)
    BY FetchStep DEF Fetching
  <2>2. ~sleep
    BY DEF sleep, Goto
  <2>3. ~attempt_end
    BY DEF attempt_end, ExitInv
  <2>4. Step
    BY EnvStep DEF Running
  <2>5. Inner
    BY <2>1, <2>2, <2>3, <2>4 DEF Step, Inner
  <2>6. ~daemon_mode
    BY <2>5, InnerStep, SMTT(30)
  <2>7. compare_manifests \/ rename_manifest \/ sync_and_reboot
    BY <2>5, Zenon DEF Inner, ota_ctx_init, ota_inbox_cleanup, fetch_new_manifest,
      validate_new_manifest, load_inbox_manifest, fetch_release, validate_release,
      apply_release, waitpid, unlink_current, Goto, AttemptEnds
  <2>8. CASE compare_manifests
    <3>1. pc = "compare" /\ current' = current /\ CompareResult = "FILES_EQ"
      BY <2>8, SMTT(30) DEF compare_manifests, disk, Goto, AttemptEnds
    <3>2. verified = inbox[MANIFEST] /\ verified \in Manifests
      BY <3>1, Zenon DEF SafeInv, StageInv, VerifiedStage
    <3>3. hex_encode(current) = hex_encode(inbox[MANIFEST])
      BY <3>1 DEF CompareResult, files_equal
    <3>4. current = inbox[MANIFEST]
      BY <3>3 DEF hex_encode
    <3> QED BY <2>6, <3>1, <3>2, <3>4, Sentinels
  <2>9. CASE rename_manifest
    BY <2>6, <2>9, Recorded
  <2>10. CASE sync_and_reboot
    BY <2>6, <2>10 DEF sync_and_reboot, ExitInv
  <2> QED
    BY <2>7, <2>8, <2>9, <2>10
<1> QED
  BY <1>1, <1>2, SafeAlways, ExitNext, PTL DEF Spec, ExitZeroMeansCurrent
=============================================================================
