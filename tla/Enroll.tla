------------------------------- MODULE Enroll -------------------------------
(***************************************************************************)
(* Bootstrap enrollment (src/enroll.c): "ota-fetch enroll" generates a key *)
(* pair, has it certified and writes the client key and then the client    *)
(* certificate, each through "<path>.tmp".  Several invocations may run at *)
(* once; each may fail at any call or be killed, and power may be cut.     *)
(*                                                                         *)
(* Names refer to inodes and inodes have contents, because two processes   *)
(* that open the same temporary file write to the same inode.  The n-th    *)
(* key pair is the number n: a key file holds n if it holds that key, and  *)
(* a certificate file holds n if it certifies that key.                    *)
(***************************************************************************)
EXTENDS Naturals, Sequences, FiniteSets

CONSTANTS
  Procs,                         \* invocations that may overlap
  Forces,                        \* values of --force
  SyncsDir,                      \* FALSE if the paths have no directory to sync
  Empty, Partial, Mixed, Torn,   \* contents that are no key or certificate
  MaxKeys,                       \* bound: key pairs before the last start
  MaxTokens,                     \* bound: further bootstrap tokens
  MaxFaults                      \* bound: failing calls, kills and power cuts

ASSUME Bounds ==
  /\ Forces \subseteq BOOLEAN /\ SyncsDir \in BOOLEAN
  /\ MaxKeys \in Nat /\ MaxTokens \in Nat /\ MaxFaults \in Nat
  /\ {Empty, Partial, Mixed, Torn} \cap Nat = {}

KEY == "client.key"
CERT == "client.crt"
Files == {KEY, CERT}

VARIABLES
  pc,      \* pc[p]: the call p is about to make, "idle" if p is not running
  force, rc,
  path,    \* path[p]: the file p is writing
  fd,      \* fd[p]: the inode p has open for it
  key,     \* key[p]: the key pair p generated
  tmp, final, \* the inode "<path>.tmp" and <path> refer to, 0 if none
  durable, \* the inodes a power cut may leave at <path>
  data,    \* data[i]: contents of inode i
  synced,  \* inodes whose contents are on disk
  token,   \* the token file exists and is not blank
  durable_token, \* what a power cut may leave of it
  keys, tokens, faults

local   == <<force, path, fd, key>>
names   == <<tmp, final, durable>>
blocks  == <<data, synced>>
tokenfile == <<token, durable_token, tokens>>
vars    == <<pc, rc, local, names, blocks, tokenfile, keys, faults>>

Fault   == faults < MaxFaults /\ faults' = faults + 1
NoFault == UNCHANGED faults

\* A device without an identity, or with one that key pair 0 belongs to.
Init ==
  /\ pc = [p \in Procs |-> "idle"] /\ force = [p \in Procs |-> FALSE]
  /\ rc = [p \in Procs |-> "none"] /\ path = [p \in Procs |-> KEY]
  /\ fd = [p \in Procs |-> 0] /\ key = [p \in Procs |-> 0]
  /\ tmp = [f \in Files |-> 0]
  /\ \/ final = [f \in Files |-> 0] /\ data = <<>>
     \/ final = [f \in Files |-> IF f = KEY THEN 1 ELSE 2] /\ data = <<0, 0>>
  /\ durable = [f \in Files |-> {final[f]}]
  /\ synced = DOMAIN data
  /\ token = TRUE /\ durable_token = {TRUE}
  /\ keys = 0 /\ tokens = 0 /\ faults = 0

Goto(p, label) == pc' = [pc EXCEPT ![p] = label] /\ UNCHANGED rc

Return(p, code) == pc' = [pc EXCEPT ![p] = "idle"] /\ rc' = [rc EXCEPT ![p] = code]

-----------------------------------------------------------------------------
(* Up to the answer of the server *)

ota_fetch_enroll(p, f) ==
  /\ pc[p] = "idle" /\ keys < MaxKeys
  /\ force' = [force EXCEPT ![p] = f]
  /\ Goto(p, "check")
  /\ NoFault
  /\ UNCHANGED <<path, fd, key, names, blocks, tokenfile, keys>>

file_exists(f) == final[f] # 0

\* Mutant of identity_exists: half an identity is none.
identity_exists_complete == file_exists(KEY) /\ file_exists(CERT)

identity_exists == file_exists(KEY) \/ file_exists(CERT)

refuse_existing(p) ==
  /\ pc[p] = "check"
  /\ IF ~force[p] /\ identity_exists THEN Return(p, "error") ELSE Goto(p, "read_token")
  /\ NoFault
  /\ UNCHANGED <<local, names, blocks, tokenfile, keys>>

\* Mutant of read_token_file: the token is used up by reading it.
read_token_file_consumes(p) ==
  /\ pc[p] = "read_token"
  /\ NoFault
  /\ IF token THEN Goto(p, "generate") ELSE Return(p, "error")
  /\ token' = FALSE /\ durable_token' = {FALSE}
  /\ UNCHANGED <<local, names, blocks, tokens, keys>>

read_token_file(p) ==
  /\ pc[p] = "read_token"
  /\ \/ token /\ NoFault /\ Goto(p, "generate")
     \/ (IF token THEN Fault ELSE NoFault) /\ Return(p, "error")
  /\ UNCHANGED <<local, names, blocks, tokenfile, keys>>

\* Includes resolving the URL and building the request.
generate_key_and_csr(p) ==
  /\ pc[p] = "generate"
  /\ \/ /\ NoFault
        /\ keys' = keys + 1 /\ key' = [key EXCEPT ![p] = keys']
        /\ Goto(p, "post")
     \/ Fault /\ Return(p, "error") /\ UNCHANGED <<keys, key>>
  /\ UNCHANGED <<force, path, fd, names, blocks, tokenfile>>

\* Includes parse_enroll_response: the answer carries a certificate or it is an
\* error, and an answer may be lost.  The certificate is taken to be for the key of
\* the request; the code accepts any text, so this is an assumption on the server.
post_enroll_request(p) ==
  /\ pc[p] = "post"
  /\ \/ NoFault /\ Goto(p, "open") /\ path' = [path EXCEPT ![p] = KEY]
     \/ Fault /\ Return(p, "error") /\ UNCHANGED path
  /\ UNCHANGED <<force, fd, key, names, blocks, tokenfile, keys>>

-----------------------------------------------------------------------------
(* write_file_atomic, for the key and then for the certificate *)

\* cleanup: close, unlink(tmp_path), return -1.
WriteFails(p) == Return(p, "error") /\ tmp' = [tmp EXCEPT ![path[p]] = 0]

open_tmp(p) ==
  /\ pc[p] = "open"
  /\ \/ /\ NoFault /\ Goto(p, "write")
        /\ IF tmp[path[p]] = 0
           THEN data' = Append(data, Empty) /\ tmp' = [tmp EXCEPT ![path[p]] = Len(data')]
           ELSE data' = [data EXCEPT ![tmp[path[p]]] = Empty] /\ UNCHANGED tmp
        /\ fd' = [fd EXCEPT ![p] = tmp'[path[p]]]
        /\ synced' = synced \ {fd'[p]}
     \/ /\ Fault
        /\ WriteFails(p) \/ (Return(p, "error") /\ UNCHANGED tmp)
        /\ UNCHANGED <<fd, blocks>>
  /\ UNCHANGED <<force, path, key, final, durable, tokenfile, keys>>

\* What somebody else wrote to the inode meanwhile is overwritten, perhaps not
\* to its end.
write_all(p) ==
  /\ pc[p] = "write"
  /\ \/ /\ NoFault /\ Goto(p, "fsync")
        /\ \E content \in IF data[fd[p]] = Empty THEN {key[p]} ELSE {key[p], Mixed} :
             data' = [data EXCEPT ![fd[p]] = content]
        /\ UNCHANGED tmp
     \/ /\ Fault /\ WriteFails(p)
        /\ data' = [data EXCEPT ![fd[p]] = Partial]
  /\ synced' = synced \ {fd[p]}
  /\ UNCHANGED <<local, final, durable, tokenfile, keys>>

\* fchmod, fsync and close.
fsync(p) ==
  /\ pc[p] = "fsync"
  /\ \/ NoFault /\ Goto(p, "rename") /\ synced' = synced \cup {fd[p]} /\ UNCHANGED tmp
     \/ Fault /\ WriteFails(p) /\ UNCHANGED synced
  /\ UNCHANGED <<local, final, durable, data, tokenfile, keys>>

\* Mutant of rename: the temporary name is left behind.
rename_link(p) ==
  /\ pc[p] = "rename"
  /\ NoFault /\ Goto(p, "fsync_dir")
  /\ final' = [final EXCEPT ![path[p]] = tmp[path[p]]]
  /\ durable' = [durable EXCEPT ![path[p]] = @ \cup {tmp[path[p]]}]
  /\ UNCHANGED <<local, tmp, blocks, tokenfile, keys>>

\* Fails if another process has renamed or removed the temporary file.
rename(p) ==
  /\ pc[p] = "rename"
  /\ \/ /\ tmp[path[p]] # 0
        /\ NoFault /\ Goto(p, "fsync_dir")
        /\ final' = [final EXCEPT ![path[p]] = tmp[path[p]]]
        /\ durable' = [durable EXCEPT ![path[p]] = @ \cup {tmp[path[p]]}]
        /\ tmp' = [tmp EXCEPT ![path[p]] = 0]
     \/ /\ IF tmp[path[p]] # 0 THEN Fault ELSE NoFault
        /\ WriteFails(p)
        /\ UNCHANGED <<final, durable>>
  /\ UNCHANGED <<local, blocks, tokenfile, keys>>

\* Mutant of fsync_parent_dir: nothing is synced.
fsync_parent_dir_skipped(p) ==
  /\ pc[p] = "fsync_dir"
  /\ NoFault
  /\ path' = [path EXCEPT ![p] = CERT]
  /\ Goto(p, IF path[p] = KEY THEN "open" ELSE "unlink_token")
  /\ UNCHANGED <<force, fd, key, names, blocks, tokenfile, keys>>

fsync_parent_dir(p) ==
  /\ pc[p] = "fsync_dir"
  /\ \/ /\ NoFault
        /\ durable' = IF SyncsDir THEN [durable EXCEPT ![path[p]] = {final[path[p]]}]
                                  ELSE durable
        /\ path' = [path EXCEPT ![p] = CERT]
        /\ Goto(p, IF path[p] = KEY THEN "open" ELSE "unlink_token")
        /\ UNCHANGED tmp
     \/ SyncsDir /\ Fault /\ WriteFails(p) /\ UNCHANGED <<durable, path>>
  /\ UNCHANGED <<force, fd, key, final, blocks, tokenfile, keys>>

\* A token file that is gone already is no error.
unlink_token(p) ==
  /\ pc[p] = "unlink_token"
  /\ \/ /\ NoFault /\ Return(p, "ok")
        /\ token' = FALSE /\ durable_token' = durable_token \cup {FALSE}
     \/ token /\ Fault /\ Return(p, "error") /\ UNCHANGED <<token, durable_token>>
  /\ UNCHANGED <<local, names, blocks, tokens, keys>>

-----------------------------------------------------------------------------
(* Outside *)

Kill(p) ==
  /\ pc[p] # "idle"
  /\ Fault /\ Return(p, "killed")
  /\ UNCHANGED <<local, names, blocks, tokenfile, keys>>

\* Contents that were not synced may be lost, and so may unsynced changes of names.
PowerCut ==
  /\ Fault
  /\ pc' = [p \in Procs |-> "idle"] /\ rc' = [p \in Procs |-> "killed"]
  /\ \E lost \in SUBSET (DOMAIN data \ synced) :
       data' = [i \in DOMAIN data |-> IF i \in lost THEN Torn ELSE data[i]]
  /\ synced' = DOMAIN data
  /\ final' \in [Files -> UNION {durable[f] : f \in Files}]
  /\ \A f \in Files : final'[f] \in durable[f]
  /\ durable' = [f \in Files |-> {final'[f]}]
  /\ \E lost \in SUBSET Files :
       tmp' = [f \in Files |-> IF f \in lost \/ final'[f] = tmp[f] THEN 0 ELSE tmp[f]]
  /\ token' \in durable_token /\ durable_token' = {token'}
  /\ UNCHANGED <<local, tokens, keys>>

\* The operator provides another token.
ProvideToken ==
  /\ ~token /\ tokens < MaxTokens
  /\ token' = TRUE /\ durable_token' = {TRUE} /\ tokens' = tokens + 1
  /\ NoFault
  /\ UNCHANGED <<pc, rc, local, names, blocks, keys>>

-----------------------------------------------------------------------------
Step(p) ==
  \/ refuse_existing(p) \/ read_token_file(p) \/ generate_key_and_csr(p)
  \/ post_enroll_request(p) \/ open_tmp(p) \/ write_all(p) \/ fsync(p)
  \/ rename(p) \/ fsync_parent_dir(p) \/ unlink_token(p)

Start(p) == \E f \in Forces : ota_fetch_enroll(p, f)

Next ==
  \/ \E p \in Procs : Start(p) \/ Step(p) \/ Kill(p)
  \/ PowerCut \/ ProvideToken

Spec == Init /\ [][Next]_vars

\* Every invocation runs to its end, and the operator tries again, sooner or
\* later with --force.
FairSpec ==
  Spec /\ \A p \in Procs : WF_vars(Step(p)) /\ SF_vars(ota_fetch_enroll(p, TRUE))

-----------------------------------------------------------------------------
(* Properties *)

Contents == Nat \cup {Empty, Partial, Mixed, Torn}

TypeOK ==
  /\ pc \in [Procs -> {"idle", "check", "read_token", "generate", "post", "open",
                       "write", "fsync", "rename", "fsync_dir", "unlink_token"}]
  /\ rc \in [Procs -> {"none", "killed", "error", "ok"}]
  /\ force \in [Procs -> BOOLEAN] /\ path \in [Procs -> Files]
  /\ key \in [Procs -> Nat] /\ keys \in Nat
  /\ data \in Seq(Contents) /\ synced \subseteq DOMAIN data
  /\ fd \in [Procs -> 0..Len(data)]
  /\ tmp \in [Files -> 0..Len(data)] /\ final \in [Files -> 0..Len(data)]
  /\ durable \in [Files -> SUBSET (0..Len(data))]
  /\ \A f \in Files : final[f] \in durable[f] /\ (tmp[f] # 0 => tmp[f] # final[f])
  /\ token \in BOOLEAN /\ durable_token \subseteq BOOLEAN
  /\ tokens \in 0..MaxTokens /\ faults \in 0..MaxFaults

\* i and j are a key and the certificate for it.
IsPair(i, j) == i # 0 /\ j # 0 /\ data[i] \in Nat /\ data[i] = data[j]

\* "removes token on success" (enroll.h:18-19): when the token is gone, a key and
\* its certificate are in place, and survive a power cut.
TokenGoneMeansIdentity ==
  ~token => \A i \in durable[KEY], j \in durable[CERT] :
              IsPair(i, j) /\ {i, j} \subseteq synced

\* "Overwrite existing identity files when true" (enroll.h:23): without --force,
\* a rename that puts a key or a certificate in place replaces none.
NoForceNoOverwrite ==
  [][\A p \in Procs : pc[p] = "rename" /\ pc'[p] = "fsync_dir" /\ ~force[p]
       => ~file_exists(path[p])]_vars

\* An operator who retries with --force ends up with an identity and no token,
\* however many invocations were interrupted: failures keep the token.
EventuallyEnrolled ==
  <>[](~token /\ IsPair(final[KEY], final[CERT]))
=============================================================================
