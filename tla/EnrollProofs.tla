---------------------------- MODULE EnrollProofs ----------------------------
(***************************************************************************)
(* Proofs about Enroll.  The types hold for any number of overlapping      *)
(* invocations; that the token is not given up too early, and that nothing *)
(* is overwritten without --force, for invocations one at a time.          *)
(***************************************************************************)
EXTENDS Enroll, TLAPS

Writing(p) == pc[p] \in {"write", "fsync", "rename"}

\* A temporary name never leads to an inode that is in place, or may be after a
\* power cut, and the two lead to different ones.
NamesInv ==
  /\ \A f, g \in Files : tmp[f] # 0 => tmp[f] \notin durable[g]
  /\ tmp[KEY] # 0 => tmp[KEY] # tmp[CERT]
  /\ \A p \in Procs : Writing(p) => fd[p] # 0

Labels == {"idle", "check", "read_token", "generate", "post", "open", "write", "fsync",
           "rename", "fsync_dir", "unlink_token"}

\* The types, for what is not a file ...
Control ==
  /\ pc \in [Procs -> Labels] /\ rc \in [Procs -> {"none", "killed", "error", "ok"}]
  /\ force \in [Procs -> BOOLEAN] /\ path \in [Procs -> Files]
  /\ key \in [Procs -> Nat] /\ keys \in Nat
  /\ token \in BOOLEAN /\ durable_token \subseteq BOOLEAN
  /\ tokens \in 0..MaxTokens /\ faults \in 0..MaxFaults

\* ... and for names and inodes.
Store ==
  /\ data \in Seq(Contents) /\ synced \subseteq 1..Len(data)
  /\ fd \in [Procs -> 0..Len(data)]
  /\ tmp \in [Files -> 0..Len(data)] /\ final \in [Files -> 0..Len(data)]
  /\ durable \in [Files -> SUBSET (0..Len(data))]
  /\ \A f \in Files : final[f] \in durable[f]
  /\ NamesInv

TypeInv == Control /\ Store

-----------------------------------------------------------------------------
\* Replacing or adding contents gives contents.
LEMMA Replaced ==
  ASSUME NEW s \in Seq(Contents), NEW i \in 1..Len(s), NEW c \in Contents
  PROVE  [s EXCEPT ![i] = c] \in Seq(Contents) /\ Len([s EXCEPT ![i] = c]) = Len(s)
  OBVIOUS

\* ... and so does adding an inode (open with O_CREAT).
LEMMA Added ==
  ASSUME NEW s \in Seq(Contents), NEW c \in Contents
  PROVE  /\ Append(s, c) \in Seq(Contents) /\ Len(Append(s, c)) = Len(s) + 1
         /\ Append(s, c)[Len(s) + 1] = c
         /\ \A i \in 1..Len(s) : Append(s, c)[i] = s[i]
  OBVIOUS

\* Contents that are lost in a power cut are contents still.
LEMMA Lost ==
  ASSUME NEW s \in Seq(Contents), NEW lost, NEW c \in Contents
  PROVE  /\ [i \in DOMAIN s |-> IF i \in lost THEN c ELSE s[i]] \in Seq(Contents)
         /\ Len([i \in DOMAIN s |-> IF i \in lost THEN c ELSE s[i]]) = Len(s)
  OBVIOUS

\* The two parts give the type invariant of Enroll.
LEMMA TypeInvType == TypeInv => TypeOK
<1> SUFFICES ASSUME TypeInv PROVE TypeOK
  OBVIOUS
<1>1. DOMAIN data = 1..Len(data)
  BY DEF TypeInv, Store
<1>2. \A f \in Files : final[f] \in durable[f] /\ (tmp[f] # 0 => tmp[f] # final[f])
  BY DEF TypeInv, Store, NamesInv
<1> QED
  BY <1>1, <1>2 DEF TypeInv, Control, Store, Labels, TypeOK

\* Init of Enroll has the types.
LEMMA TypeInit == Init => TypeInv
<1> SUFFICES ASSUME Init PROVE TypeInv
  OBVIOUS
<1> USE Bounds DEF Init, Files, KEY, CERT
<1>1. data \in Seq(Contents) /\ synced \subseteq 1..Len(data)
  <2>1. 0 \in Contents
    BY DEF Contents
  <2>2. <<>> \in Seq(Contents) /\ <<0, 0>> \in Seq(Contents)
    BY <2>1
  <2>3. data \in Seq(Contents)
    BY <2>2, Zenon
  <2> QED
    BY <2>3
<1>2. Control
  BY DEF Control, Labels
<1>3. NamesInv
  BY DEF NamesInv, Writing
<1>4. Store
  BY <1>1, <1>3 DEF Store
<1> QED
  BY <1>2, <1>4 DEF TypeInv

\* Constants as the proofs use them.
LEMMA Constants ==
  /\ MaxKeys \in Nat /\ MaxTokens \in Nat /\ MaxFaults \in Nat /\ Forces \subseteq BOOLEAN
  /\ Files = {KEY, CERT} /\ KEY # CERT
  /\ Nat \subseteq Contents /\ {Empty, Partial, Mixed, Torn} \subseteq Contents
BY Bounds DEF Files, KEY, CERT, Contents

\* Every step of Enroll keeps the types of what is not a file.
LEMMA ControlNext == Control /\ [Next]_vars => Control'
<1> SUFFICES ASSUME Control, [Next]_vars PROVE Control'
  OBVIOUS
<1> USE Constants DEF Control, Labels, Fault, NoFault, Goto, Return
<1>1. ASSUME NEW p \in Procs, NEW f \in Forces, ota_fetch_enroll(p, f) PROVE Control'
  BY <1>1 DEF ota_fetch_enroll, tokenfile
<1>2. ASSUME NEW p \in Procs, refuse_existing(p) PROVE Control'
  BY <1>2 DEF refuse_existing, local, tokenfile
<1>3. ASSUME NEW p \in Procs, read_token_file(p) PROVE Control'
  BY <1>3 DEF read_token_file, local, tokenfile
<1>4. ASSUME NEW p \in Procs, generate_key_and_csr(p) PROVE Control'
  BY <1>4 DEF generate_key_and_csr, tokenfile
<1>5. ASSUME NEW p \in Procs, post_enroll_request(p) PROVE Control'
  BY <1>5 DEF post_enroll_request, tokenfile
<1>6. ASSUME NEW p \in Procs, open_tmp(p) PROVE Control'
  <2>1. /\ (NoFault /\ Goto(p, "write")) \/ (Fault /\ Return(p, "error"))
        /\ UNCHANGED <<force, path, key, tokenfile, keys>>
    <3> HIDE DEF Control, Labels, Fault, NoFault, Goto, Return
    <3> QED
      BY <1>6, SMT DEF open_tmp, WriteFails
  <2> QED
    BY <2>1 DEF tokenfile
<1>7. ASSUME NEW p \in Procs, write_all(p) PROVE Control'
  BY <1>7 DEF write_all, WriteFails, local, tokenfile
<1>8. ASSUME NEW p \in Procs, fsync(p) PROVE Control'
  BY <1>8 DEF fsync, WriteFails, local, tokenfile
<1>9. ASSUME NEW p \in Procs, rename(p) PROVE Control'
  BY <1>9 DEF rename, WriteFails, local, tokenfile
<1>10. ASSUME NEW p \in Procs, fsync_parent_dir(p) PROVE Control'
  BY <1>10 DEF fsync_parent_dir, WriteFails, tokenfile
<1>11. ASSUME NEW p \in Procs, unlink_token(p) PROVE Control'
  <2>1. token' \in BOOLEAN /\ durable_token' \subseteq BOOLEAN
    BY <1>11, Zenon DEF unlink_token
  <2>2. /\ NoFault \/ Fault
        /\ Return(p, "ok") \/ Return(p, "error")
        /\ UNCHANGED <<local, tokens, keys>>
    <3> HIDE DEF Control, Labels, Fault, NoFault, Goto, Return
    <3> QED
      BY <1>11, Zenon DEF unlink_token
  <2> QED
    BY <2>1, <2>2 DEF local
<1>12. ASSUME NEW p \in Procs, Kill(p) PROVE Control'
  BY <1>12 DEF Kill, local, tokenfile
<1>13. CASE PowerCut
  BY <1>13 DEF PowerCut, local
<1>14. CASE ProvideToken
  BY <1>14 DEF ProvideToken, local
<1>15. CASE UNCHANGED vars
  BY <1>15 DEF vars, local, tokenfile
<1> HIDE DEF Control
<1> QED
  BY <1>1, <1>2, <1>3, <1>4, <1>5, <1>6, <1>7, <1>8, <1>9, <1>10, <1>11, <1>12, <1>13,
     <1>14, <1>15 DEF Next, Step, Start

\* Nothing changes but which calls are next.
LEMMA StoreKept ==
  ASSUME Store, UNCHANGED <<fd, tmp, final, durable, data, synced>>,
         \A p \in Procs : Writing(p)' => Writing(p)
  PROVE  Store'
BY DEF Store, NamesInv

\* Moving p elsewhere does not make another one write.
LEMMA Moves ==
  ASSUME Control, NEW p \in Procs, NEW label, pc' = [pc EXCEPT ![p] = label]
  PROVE  /\ \A q \in Procs \ {p} : Writing(q)' <=> Writing(q)
         /\ label \notin {"write", "fsync", "rename"} => \A q \in Procs : Writing(q)' => Writing(q)
BY DEF Control, Writing

\* The same after returning from ota_fetch_enroll.
LEMMA Returns ==
  ASSUME Control, NEW p \in Procs, NEW code, Return(p, code)
  PROVE  \A q \in Procs : Writing(q)' => Writing(q)
BY Moves, ZenonT(60) DEF Return

\* write_file_atomic fails: its temporary file is removed.
LEMMA StoreFails ==
  ASSUME Control, Store, NEW p \in Procs, WriteFails(p),
         UNCHANGED <<fd, final, durable, data, synced>>
  PROVE  Store'
BY Returns, SMTT(30) DEF WriteFails, Store, NamesInv, Control

\* Contents change under the names (write, fsync).
LEMMA StoreWritten ==
  ASSUME Store, UNCHANGED <<fd, final, durable>>,
         data' \in Seq(Contents), Len(data') = Len(data), synced' \subseteq 1..Len(data),
         \A f \in Files : tmp'[f] \in {tmp[f], 0},
         tmp' \in [Files -> 0..Len(data)],
         \A p \in Procs : Writing(p)' => Writing(p)
  PROVE  Store'
BY Constants DEF Store, NamesInv

\* Every step of Enroll keeps names and inodes in order.
LEMMA StoreNext == Control /\ Store /\ [Next]_vars => Store'
<1> SUFFICES ASSUME Control, Store, [Next]_vars PROVE Store'
  OBVIOUS
<1>1. ASSUME NEW p \in Procs, NEW f \in Forces, ota_fetch_enroll(p, f) PROVE Store'
  BY <1>1, StoreKept, Moves, ZenonT(60) DEF ota_fetch_enroll, Goto, names, blocks
<1>2. ASSUME NEW p \in Procs, refuse_existing(p) PROVE Store'
  BY <1>2, StoreKept, Moves DEF refuse_existing, Goto, Return, local, names, blocks
<1>3. ASSUME NEW p \in Procs, read_token_file(p) PROVE Store'
  BY <1>3, StoreKept, Moves DEF read_token_file, Goto, Return, local, names, blocks
<1>4. ASSUME NEW p \in Procs, generate_key_and_csr(p) PROVE Store'
  BY <1>4, StoreKept, Moves DEF generate_key_and_csr, Goto, Return, names, blocks
<1>5. ASSUME NEW p \in Procs, post_enroll_request(p) PROVE Store'
  BY <1>5, StoreKept, Moves DEF post_enroll_request, Goto, Return, names, blocks
<1>6. ASSUME NEW p \in Procs, open_tmp(p) PROVE Store'
  <2>1. CASE UNCHANGED <<fd, blocks>> /\ UNCHANGED <<final, durable>> /\ WriteFails(p)
    BY <2>1, StoreFails DEF blocks
  <2>2. CASE UNCHANGED <<fd, blocks>> /\ UNCHANGED <<final, durable>>
             /\ Return(p, "error") /\ UNCHANGED tmp
    BY <2>2, StoreKept, Returns DEF blocks
  <2>3. ASSUME Goto(p, "write"), tmp[path[p]] = 0, data' = Append(data, Empty),
               tmp' = [tmp EXCEPT ![path[p]] = Len(data')],
               fd' = [fd EXCEPT ![p] = tmp'[path[p]]], synced' = synced \ {fd'[p]},
               UNCHANGED <<final, durable>>
        PROVE  Store'
    <3>1. data' \in Seq(Contents) /\ Len(data') = Len(data) + 1
      BY <2>3, Added, Constants DEF Store
    <3>2. path[p] \in Files /\ Len(data) \in Nat
      BY DEF Control, Store
    <3>3. \A q \in Procs \ {p} : Writing(q)' <=> Writing(q)
      BY <2>3, Moves, Zenon DEF Goto
    <3>4. NamesInv'
      BY <2>3, <3>1, <3>2, <3>3, Constants DEF Store, NamesInv
    <3>5. fd' \in [Procs -> 0..Len(data')] /\ tmp' \in [Files -> 0..Len(data')]
      BY <2>3, <3>1, <3>2 DEF Store
    <3>6. 0..Len(data) \subseteq 0..Len(data') /\ 1..Len(data) \subseteq 1..Len(data')
      BY <3>1, <3>2
    <3>7. durable' \in [Files -> SUBSET (0..Len(data'))] /\ synced' \subseteq 1..Len(data')
      BY <2>3, <3>6, Zenon DEF Store
    <3>8. final' \in [Files -> 0..Len(data')] /\ \A f \in Files : final'[f] \in durable'[f]
      BY <2>3, <3>6 DEF Store
    <3> QED
      BY <3>1, <3>4, <3>5, <3>7, <3>8 DEF Store
  <2>4. ASSUME Goto(p, "write"), tmp[path[p]] # 0,
               data' = [data EXCEPT ![tmp[path[p]]] = Empty],
               fd' = [fd EXCEPT ![p] = tmp'[path[p]]], synced' = synced \ {fd'[p]},
               UNCHANGED <<tmp, final, durable>>
        PROVE  Store'
    <3>1. path[p] \in Files /\ tmp[path[p]] \in 1..Len(data)
      BY <2>4 DEF Control, Store
    <3>2. data' \in Seq(Contents) /\ Len(data') = Len(data)
      BY <2>4, <3>1, Replaced, Constants DEF Store
    <3>3. \A q \in Procs \ {p} : Writing(q)' <=> Writing(q)
      BY <2>4, Moves, Zenon DEF Goto
    <3>4. NamesInv'
      BY <2>4, <3>1, <3>3 DEF Store, NamesInv
    <3> QED
      BY <2>4, <3>1, <3>2, <3>4, Zenon DEF Store
  <2> QED
    BY <1>6, <2>1, <2>2, <2>3, <2>4 DEF open_tmp
<1>7. ASSUME NEW p \in Procs, write_all(p) PROVE Store'
  <2>1. fd[p] \in 1..Len(data) /\ key[p] \in Contents
    BY <1>7, Constants DEF write_all, Store, NamesInv, Writing, Control
  <2>2. PICK content \in Contents : data' = [data EXCEPT ![fd[p]] = content]
    BY <1>7, <2>1, Constants DEF write_all
  <2>3. data' \in Seq(Contents) /\ Len(data') = Len(data)
    BY <2>1, <2>2, Replaced DEF Store
  <2>4. tmp' \in [Files -> 0..Len(data)] /\ \A f \in Files : tmp'[f] \in {tmp[f], 0}
    BY <1>7 DEF write_all, WriteFails, Store
  <2>5. \A q \in Procs : Writing(q)' => Writing(q)
    BY <1>7 DEF write_all, Goto, WriteFails, Return, Writing, Control
  <2> QED
    BY <1>7, <2>3, <2>4, <2>5, StoreWritten, Zenon DEF write_all, local, Store
<1>8. ASSUME NEW p \in Procs, fsync(p) PROVE Store'
  <2>1. fd[p] \in 1..Len(data)
    BY <1>8 DEF fsync, Store, NamesInv, Writing
  <2>2. tmp' \in [Files -> 0..Len(data)] /\ \A f \in Files : tmp'[f] \in {tmp[f], 0}
    BY <1>8 DEF fsync, WriteFails, Store
  <2>3. \A q \in Procs : Writing(q)' => Writing(q)
    BY <1>8 DEF fsync, Goto, WriteFails, Return, Writing, Control
  <2>4. synced' \subseteq 1..Len(data)
    BY <1>8, <2>1, Zenon DEF fsync, Store
  <2> QED
    BY <1>8, <2>2, <2>3, <2>4, StoreWritten DEF fsync, local, Store
<1>9. ASSUME NEW p \in Procs, rename(p) PROVE Store'
  <2>1. CASE WriteFails(p) /\ UNCHANGED <<final, durable>>
    BY <1>9, <2>1, StoreFails DEF rename, local, blocks
  <2>2. ASSUME tmp[path[p]] # 0, Goto(p, "fsync_dir"),
               final' = [final EXCEPT ![path[p]] = tmp[path[p]]],
               durable' = [durable EXCEPT ![path[p]] = @ \cup {tmp[path[p]]}],
               tmp' = [tmp EXCEPT ![path[p]] = 0], UNCHANGED <<local, blocks>>
        PROVE  Store'
    <3>1. \A q \in Procs : Writing(q)' => Writing(q)
      BY <2>2, Moves, ZenonT(60) DEF Goto
    <3>2. path[p] \in Files
      BY DEF Control
    <3>3. NamesInv'
      BY <2>2, <3>1, <3>2, Constants DEF Store, NamesInv, local
    <3> QED
      BY <2>2, <3>2, <3>3 DEF Store, local, blocks
  <2> QED
    BY <1>9, <2>1, <2>2 DEF rename
<1>10. ASSUME NEW p \in Procs, fsync_parent_dir(p) PROVE Store'
  <2>1. CASE WriteFails(p) /\ UNCHANGED <<durable, path>>
    BY <1>10, <2>1, StoreFails DEF fsync_parent_dir, blocks
  <2>2. ASSUME NEW label \in {"open", "unlink_token"}, Goto(p, label), UNCHANGED tmp,
               durable' = IF SyncsDir THEN [durable EXCEPT ![path[p]] = {final[path[p]]}]
                                      ELSE durable
        PROVE  Store'
    <3>1. \A q \in Procs : Writing(q)' => Writing(q)
      BY <2>2, Moves, Zenon DEF Goto
    <3>2. /\ durable' \in [Files -> SUBSET (0..Len(data))]
          /\ \A f \in Files : final[f] \in durable'[f] /\ durable'[f] \subseteq durable[f]
      BY <2>2 DEF Store, Control
    <3> QED
      BY <1>10, <2>2, <3>1, <3>2 DEF fsync_parent_dir, blocks, Store, NamesInv
  <2> QED
    BY <1>10, <2>1, <2>2 DEF fsync_parent_dir
<1>11. ASSUME NEW p \in Procs, unlink_token(p) PROVE Store'
  BY <1>11, StoreKept, Returns, Zenon DEF unlink_token, local, names, blocks
<1>12. ASSUME NEW p \in Procs, Kill(p) PROVE Store'
  BY <1>12, StoreKept, Returns DEF Kill, local, names, blocks
<1>13. CASE PowerCut
  <2>1. PICK lost \in SUBSET (DOMAIN data \ synced) :
          data' = [i \in DOMAIN data |-> IF i \in lost THEN Torn ELSE data[i]]
    BY <1>13, Zenon DEF PowerCut
  <2>2. data' \in Seq(Contents) /\ Len(data') = Len(data)
    <3>1. data \in Seq(Contents) /\ Torn \in Contents
      BY Constants DEF Store
    <3>2. LET d == [i \in DOMAIN data |-> IF i \in lost THEN Torn ELSE data[i]]
          IN  d \in Seq(Contents) /\ Len(d) = Len(data)
      BY <3>1, Lost
    <3> QED
      BY <2>1, <3>2
  <2>3. \A p \in Procs : ~Writing(p)'
    BY <1>13 DEF PowerCut, Writing
  <2>4. \A f \in Files : final'[f] \in durable[f] /\ durable'[f] = {final'[f]}
    BY <1>13 DEF PowerCut
  <2>5. \A f \in Files : tmp'[f] \in {tmp[f], 0}
    BY <1>13 DEF PowerCut
  <2>6. /\ final' \in [Files -> 0..Len(data)] /\ tmp' \in [Files -> 0..Len(data)]
        /\ durable' \in [Files -> SUBSET (0..Len(data))]
    BY <1>13, <2>4, <2>5 DEF PowerCut, Store
  <2>7. NamesInv'
    BY <2>3, <2>4, <2>5, Constants DEF Store, NamesInv
  <2>8. synced' = DOMAIN data /\ UNCHANGED fd
    BY <1>13 DEF PowerCut, local
  <2> QED
    BY <2>2, <2>4, <2>6, <2>7, <2>8 DEF Store
<1>14. CASE ProvideToken
  BY <1>14, StoreKept DEF ProvideToken, local, names, blocks, Writing
<1>15. CASE UNCHANGED vars
  BY <1>15, StoreKept DEF vars, local, names, blocks, Writing
<1> QED
  BY <1>1, <1>2, <1>3, <1>4, <1>5, <1>6, <1>7, <1>8, <1>9, <1>10, <1>11, <1>12, <1>13,
     <1>14, <1>15 DEF Next, Step, Start

\* Names, inodes, tokens and places in the code have their types for any number of
\* overlapping invocations, keys and faults (all of enroll.c).
THEOREM EnrollTypes == Spec => []TypeOK
<1>1. TypeInv /\ [Next]_vars => TypeInv'
  BY ControlNext, StoreNext DEF TypeInv
<1> QED
  BY TypeInit, <1>1, TypeInvType, PTL DEF Spec

-----------------------------------------------------------------------------
(* One invocation at a time *)

OneAtATime == \A p, q \in Procs : p = q

\* An invocation without --force has found no identity, and puts the two files in place
\* one after the other.
ForceInv(p) ==
  ~force[p] =>
    /\ pc[p] \in {"read_token", "generate", "post"} => final[KEY] = 0 /\ final[CERT] = 0
    /\ pc[p] \in {"open", "write", "fsync", "rename"} =>
         final[CERT] = 0 /\ (path[p] = KEY => final[KEY] = 0)
    /\ pc[p] = "fsync_dir" /\ path[p] = KEY => final[CERT] = 0

\* Every step keeps ForceInv.
LEMMA ForceNext ==
  ASSUME OneAtATime, Control, final \in [Files -> Nat], NEW p \in Procs, ForceInv(p), [Next]_vars
  PROVE  ForceInv(p)'
<1>0. path[p] \in {KEY, CERT} /\ KEY # CERT /\ Files = {KEY, CERT} /\ pc \in [Procs -> Labels]
      /\ force \in [Procs -> BOOLEAN] /\ path \in [Procs -> Files]
  BY Constants DEF Control
<1> USE <1>0 DEF ForceInv, Goto, Return
<1>1. ASSUME NEW f \in Forces, ota_fetch_enroll(p, f) PROVE ForceInv(p)'
  BY <1>1 DEF ota_fetch_enroll, names
<1>2. CASE refuse_existing(p)
  BY <1>2 DEF refuse_existing, identity_exists, file_exists, local, names
<1>3. CASE read_token_file(p)
  BY <1>3 DEF read_token_file, local, names
<1>4. CASE generate_key_and_csr(p)
  BY <1>4 DEF generate_key_and_csr, names
<1>5. CASE post_enroll_request(p)
  BY <1>5 DEF post_enroll_request, names
<1>6. CASE open_tmp(p)
  <2>1. /\ Goto(p, "write") \/ Return(p, "error")
        /\ pc[p] = "open" /\ UNCHANGED <<force, path, final>>
    <3> HIDE DEF Goto, Return, ForceInv
    <3> QED
      BY <1>6 DEF open_tmp, WriteFails
  <2> QED
    BY <2>1
<1>7. CASE write_all(p)
  BY <1>7 DEF write_all, WriteFails, local
<1>8. CASE fsync(p)
  BY <1>8 DEF fsync, WriteFails, local
<1>9. CASE rename(p)
  BY <1>9 DEF rename, WriteFails, local
<1>10. CASE fsync_parent_dir(p)
  BY <1>10 DEF fsync_parent_dir, WriteFails
<1>11. CASE unlink_token(p)
  BY <1>11, Zenon DEF unlink_token, local, names
<1>12. CASE Kill(p)
  BY <1>12 DEF Kill, local, names
<1>13. CASE PowerCut
  BY <1>13 DEF PowerCut
<1>14. CASE ProvideToken
  BY <1>14 DEF ProvideToken, local, names
<1>15. CASE UNCHANGED vars
  BY <1>15 DEF vars, local, names
<1> HIDE DEF ForceInv, Goto, Return
<1> QED
  BY <1>1, <1>2, <1>3, <1>4, <1>5, <1>6, <1>7, <1>8, <1>9, <1>10, <1>11, <1>12, <1>13,
     <1>14, <1>15 DEF Next, Step, Start, OneAtATime

\* With one invocation at a time, whatever fails and in whatever state earlier ones were
\* interrupted, nothing is overwritten without --force (refuse_existing, rename).
THEOREM NothingOverwritten ==
  ASSUME OneAtATime
  PROVE  Spec => NoForceNoOverwrite
<1> DEFINE Inv == TypeInv /\ \A p \in Procs : ForceInv(p)
<1>1. Init => Inv
  BY TypeInit DEF Init, ForceInv
<1>2. Inv /\ [Next]_vars => Inv'
  <2> SUFFICES ASSUME Inv, [Next]_vars PROVE Inv'
    OBVIOUS
  <2>1. final \in [Files -> Nat]
    BY DEF TypeInv, Store
  <2>2. \A p \in Procs : ForceInv(p)'
    BY <2>1, ForceNext DEF TypeInv
  <2> QED
    BY <2>2, ControlNext, StoreNext DEF TypeInv
<1>3. Inv => \A p \in Procs : pc[p] = "rename" /\ ~force[p] => ~file_exists(path[p])
  BY Constants DEF TypeInv, Control, ForceInv, file_exists
<1>4. Inv /\ [Next]_vars =>
        [\A p \in Procs : pc[p] = "rename" /\ pc'[p] = "fsync_dir" /\ ~force[p]
           => ~file_exists(path[p])]_vars
  BY <1>3
<1> QED
  BY <1>1, <1>2, <1>4, PTL DEF Spec, NoForceNoOverwrite

-----------------------------------------------------------------------------
\* The file in place is p's, and on disk ...
Holds(f, p) == final[f] # 0 /\ data[final[f]] = key[p] /\ final[f] \in synced

\* ... and a power cut leaves it there.
Kept(f, p) == durable[f] = {final[f]} /\ Holds(f, p)

\* How far p has come with its key and its certificate.
WriteInv(p) ==
  /\ Writing(p) => fd[p] = tmp[path[p]]
  /\ pc[p] = "write" => data[fd[p]] = Empty
  /\ pc[p] \in {"fsync", "rename"} => data[fd[p]] = key[p]
  /\ pc[p] = "rename" => fd[p] \in synced
  /\ pc[p] = "fsync_dir" => Holds(path[p], p)
  /\ path[p] = CERT /\ pc[p] \in {"open", "write", "fsync", "rename", "fsync_dir"}
     => Kept(KEY, p)
  /\ pc[p] = "unlink_token" => Kept(KEY, p) /\ Kept(CERT, p)

\* An invocation that has read the token still has it; a token that is there cannot be
\* lost in a power cut.
TokenInv ==
  /\ token => durable_token = {TRUE}
  /\ \A p \in Procs : pc[p] \notin {"idle", "check", "read_token"} => token
  /\ TokenGoneMeansIdentity

\* Every step of an invocation keeps WriteInv, if the directory can be synced.
LEMMA WriteNext ==
  ASSUME OneAtATime, SyncsDir, Control, Store, NEW p \in Procs, WriteInv(p), [Next]_vars
  PROVE  WriteInv(p)'
<1>0. /\ path[p] \in {KEY, CERT} /\ KEY # CERT /\ Files = {KEY, CERT} /\ pc \in [Procs -> Labels]
      /\ path \in [Procs -> Files]
  BY Constants DEF Control
<1>s. /\ Len(data) \in Nat /\ DOMAIN data = 1..Len(data) /\ fd[p] \in 0..Len(data)
      /\ tmp \in [Files -> 0..Len(data)] /\ final \in [Files -> 0..Len(data)]
      /\ durable \in [Files -> SUBSET (0..Len(data))] /\ synced \subseteq 1..Len(data)
      /\ fd \in [Procs -> 0..Len(data)]
      /\ \A f \in Files : final[f] \in durable[f]
      /\ Writing(p) => fd[p] # 0
  BY DEF Store, NamesInv
<1>n. tmp[path[p]] # 0 => tmp[path[p]] \notin durable[KEY]
  BY <1>0 DEF Store, NamesInv
<1>a. ASSUME pc'[p] \in {"idle", "check", "read_token", "generate", "post"} PROVE WriteInv(p)'
  BY <1>a DEF WriteInv, Writing
<1>u. ASSUME UNCHANGED pc, UNCHANGED path, UNCHANGED key, UNCHANGED fd, UNCHANGED tmp,
             UNCHANGED final, UNCHANGED durable, UNCHANGED data, UNCHANGED synced
      PROVE  WriteInv(p)'
  BY <1>u, Zenon DEF WriteInv, Writing, Kept, Holds
<1> USE <1>0 DEF Goto, Return
<1>1. ASSUME NEW f \in Forces, ota_fetch_enroll(p, f) PROVE WriteInv(p)'
  BY <1>1, <1>a DEF ota_fetch_enroll
<1>2. CASE refuse_existing(p)
  BY <1>2, <1>a DEF refuse_existing
<1>3. CASE read_token_file(p)
  BY <1>3, <1>a DEF read_token_file
<1>4. CASE generate_key_and_csr(p)
  BY <1>4, <1>a DEF generate_key_and_csr
<1>5. CASE post_enroll_request(p)
  <2>1. CASE Goto(p, "open") /\ path' = [path EXCEPT ![p] = KEY]
    BY <2>1 DEF WriteInv, Writing
  <2>2. CASE Return(p, "error")
    BY <2>2, <1>a
  <2> QED
    BY <1>5, <2>1, <2>2 DEF post_enroll_request
<1>6. CASE open_tmp(p)
  <2>0. pc[p] = "open"
    BY <1>6 DEF open_tmp
  <2>1. CASE Return(p, "error")
    BY <2>1, <1>a
  <2>2. ASSUME Goto(p, "write"), fd' = [fd EXCEPT ![p] = tmp'[path[p]]],
               synced' = synced \ {fd'[p]}, UNCHANGED <<path, key, final, durable>>,
               tmp'[path[p]] \notin 0..Len(data) \/ tmp'[path[p]] = tmp[path[p]],
               tmp'[path[p]] # 0, data'[tmp'[path[p]]] = Empty,
               \A i \in 1..Len(data) : i # tmp'[path[p]] => data'[i] = data[i]
        PROVE  WriteInv(p)'
    <3>1. tmp'[path[p]] \notin durable[KEY]
      <4>1. CASE tmp'[path[p]] \notin 0..Len(data)
        BY <1>s, <4>1, SMTT(30)
      <4>2. CASE tmp'[path[p]] = tmp[path[p]]
        BY <1>n, <2>2, <4>2, ZenonT(30)
      <4> QED
        BY <2>2, <4>1, <4>2, ZenonT(30)
    <3>2. Kept(KEY, p) => Kept(KEY, p)'
      BY <1>s, <2>2, <3>1, ZenonT(60) DEF Kept, Holds
    <3> QED
      BY <2>0, <1>s, <2>2, <3>2, ZenonT(30) DEF WriteInv, Writing
  <2>3. ASSUME tmp[path[p]] = 0, data' = Append(data, Empty),
               tmp' = [tmp EXCEPT ![path[p]] = Len(data')]
        PROVE  /\ tmp'[path[p]] \notin 0..Len(data) /\ tmp'[path[p]] # 0
               /\ data'[tmp'[path[p]]] = Empty
               /\ \A i \in 1..Len(data) : i # tmp'[path[p]] => data'[i] = data[i]
    <3>1. data \in Seq(Contents) /\ Empty \in Contents
      BY Constants DEF Store
    <3>2. /\ Len(data') = Len(data) + 1 /\ data'[Len(data) + 1] = Empty
          /\ \A i \in 1..Len(data) : data'[i] = data[i]
      BY <2>3, <3>1, Added
    <3>3. tmp'[path[p]] = Len(data) + 1
      BY <1>s, <2>3, <3>2
    <3>4. Len(data) \in Nat
      BY <1>s
    <3>5. tmp'[path[p]] \notin 0..Len(data) /\ tmp'[path[p]] # 0
      BY <3>3, <3>4
    <3> QED
      BY <3>2, <3>3, <3>5, Zenon
  <2>4. ASSUME tmp[path[p]] # 0, data' = [data EXCEPT ![tmp[path[p]]] = Empty], UNCHANGED tmp
        PROVE  /\ tmp'[path[p]] = tmp[path[p]] /\ tmp'[path[p]] # 0
               /\ data'[tmp'[path[p]]] = Empty
               /\ \A i \in 1..Len(data) : i # tmp'[path[p]] => data'[i] = data[i]
    BY <1>s, <2>4
  <2> HIDE DEF Goto, Return
  <2> QED
    BY <1>6, <2>1, <2>2, <2>3, <2>4 DEF open_tmp, WriteFails
<1>7. CASE write_all(p)
  <2>0. pc[p] = "write"
    BY <1>7 DEF write_all
  <2>1. CASE WriteFails(p)
    BY <2>1, <1>a DEF WriteFails
  <2>2. ASSUME Goto(p, "fsync"), data' = [data EXCEPT ![fd[p]] = key[p]],
               synced' = synced \ {fd[p]}, UNCHANGED <<local, tmp, final, durable>>
        PROVE  WriteInv(p)'
    <3>1. fd[p] = tmp[path[p]] /\ fd[p] # 0
      BY <1>s, <2>0, SMTT(30) DEF WriteInv, Writing
    <3>2. fd[p] \notin durable[KEY]
      BY <1>n, <3>1
    <3>3. Kept(KEY, p) => Kept(KEY, p)'
      BY <1>s, <2>2, <3>2 DEF Kept, Holds, local
    <3> QED
      BY <1>s, <2>0, <2>2, <3>1, <3>3 DEF WriteInv, Writing, local
  <2>3. data[fd[p]] = Empty
    BY <2>0 DEF WriteInv
  <2> QED
    BY <1>7, <2>1, <2>2, <2>3 DEF write_all
<1>8. CASE fsync(p)
  <2>0. pc[p] = "fsync"
    BY <1>8, SMTT(30) DEF fsync
  <2>1. CASE WriteFails(p)
    BY <2>1, <1>a DEF WriteFails
  <2>2. ASSUME Goto(p, "rename"), synced' = synced \cup {fd[p]},
               UNCHANGED <<local, tmp, final, durable, data>>
        PROVE  WriteInv(p)'
    <3>1. Kept(KEY, p) => Kept(KEY, p)'
      BY <1>s, <2>2, ZenonT(30) DEF Kept, Holds, local
    <3> QED
      BY <1>s, <2>0, <2>2, <3>1, Zenon DEF WriteInv, Writing, local
  <2> QED
    BY <1>8, <2>1, <2>2 DEF fsync
<1>9. CASE rename(p)
  <2>0. pc[p] = "rename"
    BY <1>9 DEF rename
  <2>1. CASE WriteFails(p)
    BY <2>1, <1>a DEF WriteFails
  <2>2. ASSUME tmp[path[p]] # 0, Goto(p, "fsync_dir"),
               final' = [final EXCEPT ![path[p]] = tmp[path[p]]],
               durable' = [durable EXCEPT ![path[p]] = @ \cup {tmp[path[p]]}],
               UNCHANGED <<local, blocks>>
        PROVE  WriteInv(p)'
    <3>1. Holds(path[p], p)'
      BY <1>s, <2>0, <2>2, ZenonT(30) DEF WriteInv, Writing, Holds, local, blocks
    <3>2. path[p] = CERT => Kept(KEY, p)'
      BY <1>s, <2>0, <2>2 DEF WriteInv, Kept, Holds, local, blocks
    <3> QED
      BY <2>2, <3>1, <3>2 DEF WriteInv, Writing, local
  <2> QED
    BY <1>9, <2>1, <2>2 DEF rename
<1>10. CASE fsync_parent_dir(p)
  <2>0. pc[p] = "fsync_dir"
    BY <1>10, SMTT(30) DEF fsync_parent_dir
  <2>1. CASE WriteFails(p)
    BY <2>1, <1>a DEF WriteFails
  <2>2. ASSUME durable' = [durable EXCEPT ![path[p]] = {final[path[p]]}],
               path' = [path EXCEPT ![p] = CERT],
               Goto(p, IF path[p] = KEY THEN "open" ELSE "unlink_token"),
               UNCHANGED <<key, final, blocks>>
        PROVE  WriteInv(p)'
    <3>1. path[p] = KEY => Kept(KEY, p)'
      BY <1>s, <2>0, <2>2 DEF WriteInv, Kept, Holds, blocks
    <3>2. path[p] = CERT => Kept(KEY, p)' /\ Kept(CERT, p)'
      BY <1>s, <2>0, <2>2 DEF WriteInv, Kept, Holds, blocks
    <3>3. path'[p] = CERT /\ pc'[p] = IF path[p] = KEY THEN "open" ELSE "unlink_token"
      BY <2>2, SMTT(30)
    <3>4. CASE path[p] = KEY
      BY <3>1, <3>3, <3>4 DEF WriteInv, Writing
    <3>5. CASE path[p] = CERT
      BY <3>2, <3>3, <3>5 DEF WriteInv, Writing
    <3> QED
      BY <3>4, <3>5
  <2> QED
    BY <1>10, <2>1, <2>2, SyncsDir DEF fsync_parent_dir
<1>11. CASE unlink_token(p)
  BY <1>11, <1>a, Zenon DEF unlink_token
<1>12. CASE Kill(p)
  BY <1>12, <1>a DEF Kill
<1>13. CASE PowerCut
  BY <1>13, <1>a, ZenonT(30) DEF PowerCut
<1>14. CASE ProvideToken
  BY <1>14, <1>u DEF ProvideToken, local, names, blocks
<1>15. CASE UNCHANGED vars
  BY <1>15, <1>u DEF vars, local, names, blocks
<1> HIDE DEF Goto, Return
<1> QED
  BY <1>1, <1>2, <1>3, <1>4, <1>5, <1>6, <1>7, <1>8, <1>9, <1>10, <1>11, <1>12, <1>13,
     <1>14, <1>15 DEF Next, Step, Start, OneAtATime

\* What is on disk and may be in place after a power cut stays as it is, but for the
\* steps of an invocation that has the token.
LEMMA IdentityKept ==
  ASSUME Store, TokenGoneMeansIdentity, UNCHANGED <<durable, data, synced>>, token' = token
  PROVE  TokenGoneMeansIdentity'
BY DEF TokenGoneMeansIdentity, IsPair

\* Every step keeps TokenInv.
LEMMA TokenNext ==
  ASSUME OneAtATime, Control, Store, \A p \in Procs : WriteInv(p), TokenInv, [Next]_vars
  PROVE  TokenInv'
<1> DEFINE Before == {"idle", "check", "read_token"}
<1>0. pc \in [Procs -> Labels] /\ token \in BOOLEAN
  BY DEF Control
<1>a. ASSUME NEW p \in Procs, NEW label, pc' = [pc EXCEPT ![p] = label],
             token \/ label \in Before, token' = token, durable_token' = durable_token,
             token \/ UNCHANGED <<durable, data, synced>>
      PROVE  TokenInv'
  <2>1. TokenGoneMeansIdentity'
    <3>1. CASE token
      BY <1>a, <3>1 DEF TokenGoneMeansIdentity
    <3>2. CASE UNCHANGED <<durable, data, synced>>
      BY <1>a, <3>2, IdentityKept DEF TokenInv
    <3> QED
      BY <1>a, <3>1, <3>2
  <2>2. \A q \in Procs : pc'[q] \notin Before => token'
    BY <1>0, <1>a DEF TokenInv
  <2> QED
    BY <1>a, <2>1, <2>2, Zenon DEF TokenInv
<1>b. ASSUME NEW p \in Procs, pc[p] \notin Before PROVE token
  BY <1>b DEF TokenInv
<1>1. ASSUME NEW p \in Procs, NEW f \in Forces, ota_fetch_enroll(p, f) PROVE TokenInv'
  BY <1>1, <1>a, Zenon DEF ota_fetch_enroll, Goto, names, blocks, tokenfile
<1>2. ASSUME NEW p \in Procs, refuse_existing(p) PROVE TokenInv'
  BY <1>2, <1>a DEF refuse_existing, Goto, Return, names, blocks, tokenfile
<1>3. ASSUME NEW p \in Procs, read_token_file(p) PROVE TokenInv'
  BY <1>3, <1>a DEF read_token_file, Goto, Return, names, blocks, tokenfile
<1>4. ASSUME NEW p \in Procs, generate_key_and_csr(p) PROVE TokenInv'
  BY <1>4, <1>a, <1>b DEF generate_key_and_csr, Goto, Return, names, blocks, tokenfile
<1>5. ASSUME NEW p \in Procs, post_enroll_request(p) PROVE TokenInv'
  BY <1>5, <1>a, <1>b DEF post_enroll_request, Goto, Return, names, blocks, tokenfile
<1>6. ASSUME NEW p \in Procs, open_tmp(p) PROVE TokenInv'
  BY <1>6, <1>a, <1>b, SMTT(30) DEF open_tmp, WriteFails, Goto, Return, tokenfile
<1>7. ASSUME NEW p \in Procs, write_all(p) PROVE TokenInv'
  BY <1>7, <1>a, <1>b DEF write_all, WriteFails, Goto, Return, tokenfile
<1>8. ASSUME NEW p \in Procs, fsync(p) PROVE TokenInv'
  BY <1>8, <1>a, <1>b DEF fsync, WriteFails, Goto, Return, tokenfile
<1>9. ASSUME NEW p \in Procs, rename(p) PROVE TokenInv'
  BY <1>9, <1>a, <1>b DEF rename, WriteFails, Goto, Return, tokenfile
<1>10. ASSUME NEW p \in Procs, fsync_parent_dir(p) PROVE TokenInv'
  BY <1>10, <1>a, <1>b DEF fsync_parent_dir, WriteFails, Goto, Return, tokenfile
<1>11. ASSUME NEW p \in Procs, unlink_token(p) PROVE TokenInv'
  <2>1. CASE Return(p, "error") /\ UNCHANGED <<token, durable_token>>
    BY <1>11, <2>1, <1>a, Zenon DEF unlink_token, Return, names, blocks
  <2>2. CASE Return(p, "ok") /\ token' = FALSE
    <3>1. Kept(KEY, p) /\ Kept(CERT, p) /\ key[p] \in Nat
      BY <1>11 DEF unlink_token, WriteInv, Control
    <3>2. UNCHANGED <<durable, data, synced>>
      BY <1>11 DEF unlink_token, names, blocks
    <3>3. TokenGoneMeansIdentity'
      BY <3>1, <3>2 DEF Kept, Holds, TokenGoneMeansIdentity, IsPair
    <3>4. \A q \in Procs : pc'[q] = "idle"
      BY <1>0, <2>2 DEF Return, OneAtATime
    <3> QED
      BY <2>2, <3>3, <3>4, Zenon DEF TokenInv
  <2> QED
    BY <1>11, <2>1, <2>2, Zenon DEF unlink_token
<1>12. ASSUME NEW p \in Procs, Kill(p) PROVE TokenInv'
  BY <1>12, <1>a, Zenon DEF Kill, Return, names, blocks, tokenfile
<1>13. CASE PowerCut
  <2>1. \A q \in Procs : pc'[q] = "idle"
    BY <1>13 DEF PowerCut
  <2>2. token' \in durable_token /\ durable_token' = {token'}
    BY <1>13 DEF PowerCut
  <2>3. ASSUME ~token' PROVE TokenGoneMeansIdentity'
    <3>1. ~token
      <4>1. token => token' \in {TRUE}
        BY <2>2, Zenon DEF TokenInv
      <4> QED
        BY <2>3, <4>1, Zenon
    <3>2. \A f \in Files : durable'[f] \subseteq durable[f]
      <4>1. durable' = [f \in Files |-> {final'[f]}]
        BY <1>13, Zenon DEF PowerCut
      <4>2. \A f \in Files : final'[f] \in durable[f]
        BY <1>13, Zenon DEF PowerCut
      <4> QED
        BY <4>1, <4>2
    <3>3. synced' = DOMAIN data /\ \A i \in synced : data'[i] = data[i]
      <4>1. PICK lost \in SUBSET (DOMAIN data \ synced) :
              data' = [i \in DOMAIN data |-> IF i \in lost THEN Torn ELSE data[i]]
        BY <1>13, Zenon DEF PowerCut
      <4>2. synced' = DOMAIN data /\ synced \subseteq DOMAIN data
        BY <1>13 DEF PowerCut, Store
      <4> QED
        BY <4>1, <4>2
    <3>4. \A i \in durable[KEY], j \in durable[CERT] : IsPair(i, j) /\ {i, j} \subseteq synced
      BY <3>1 DEF TokenInv, TokenGoneMeansIdentity
    <3>5. KEY \in Files /\ CERT \in Files
      BY Constants
    <3> QED
      BY <3>2, <3>3, <3>4, <3>5, SMTT(30) DEF TokenGoneMeansIdentity, IsPair, Store
  <2>4. TokenGoneMeansIdentity'
    BY <2>3 DEF TokenGoneMeansIdentity
  <2> QED
    BY <2>1, <2>2, <2>4, Zenon DEF TokenInv
<1>14. CASE ProvideToken
  <2>1. token' = TRUE /\ durable_token' = {TRUE}
    BY <1>14 DEF ProvideToken
  <2> QED
    BY <2>1 DEF TokenInv, TokenGoneMeansIdentity
<1>15. CASE UNCHANGED vars
  BY <1>15, IdentityKept, Zenon DEF vars, names, blocks, tokenfile, TokenInv
<1> QED
  BY <1>1, <1>2, <1>3, <1>4, <1>5, <1>6, <1>7, <1>8, <1>9, <1>10, <1>11, <1>12, <1>13,
     <1>14, <1>15 DEF Next, Step, Start

\* With one invocation at a time and a directory that can be synced, the token is gone
\* only if a matching key and certificate are in place and survive a power cut, whatever
\* failed before (write_file_atomic, unlink_token).
THEOREM TokenLast ==
  ASSUME OneAtATime, SyncsDir
  PROVE  Spec => []TokenGoneMeansIdentity
<1> DEFINE Inv == TypeInv /\ (\A p \in Procs : WriteInv(p)) /\ TokenInv
<1>1. Init => Inv
  <2> SUFFICES ASSUME Init PROVE Inv
    OBVIOUS
  <2>1. \A p \in Procs : WriteInv(p)
    BY DEF Init, WriteInv, Writing
  <2>2. TokenInv
    BY DEF Init, TokenInv, TokenGoneMeansIdentity
  <2> QED
    BY <2>1, <2>2, TypeInit
<1>2. Inv /\ [Next]_vars => Inv'
  <2> SUFFICES ASSUME Inv, [Next]_vars PROVE Inv'
    OBVIOUS
  <2>1. Control /\ Store
    BY DEF TypeInv
  <2>2. \A p \in Procs : WriteInv(p)'
    BY <2>1, WriteNext
  <2>3. TokenInv'
    BY <2>1, TokenNext
  <2> QED
    BY <2>1, <2>2, <2>3, ControlNext, StoreNext DEF TypeInv
<1>3. Inv => TokenGoneMeansIdentity
  BY DEF TokenInv
<1> QED
  BY <1>1, <1>2, <1>3, PTL DEF Spec
=============================================================================
