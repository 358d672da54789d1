-------------------------- MODULE SelectionProofs --------------------------
(***************************************************************************)
(* Release and file selection for any manifest, of any length, and any     *)
(* device id.  All of it rests on FirstWith, the loop that looks for the   *)
(* first element with a given field.                                       *)
(***************************************************************************)
EXTENDS Selection, TLAPS, WellFoundedInduction

-----------------------------------------------------------------------------
(* The first element with a given field *)

\* A set of array indices that is not empty has a least element.
LEMMA LeastIndex ==
  ASSUME NEW S \in SUBSET Nat, S # {}
  PROVE  Min(S) \in S /\ \A j \in S : Min(S) <= j
<1>1. PICK x \in S : \A y \in S : ~(<<y, x>> \in OpToRel(<, Nat))
  BY WFMin, NatLessThanWellFounded
<1>2. \A y \in S : ~(y < x)
  BY <1>1, Zenon DEF OpToRel
<1>3. \A y \in S : x <= y
  BY <1>2
<1> QED
  BY <1>3, Zenon DEF Min

\* Element j of s has the string want as its field k.
Has(s, j, k, want) == s[j][k] # NULL /\ s[j][k] = want

\* FirstWith finds an element exactly if there is one, and then the first.
LEMMA Found ==
  ASSUME NEW s, DOMAIN s \subseteq Nat \ {0}, NEW k, NEW want
  PROVE  /\ FirstWith(s, k, want) = 0 <=> \A j \in DOMAIN s : ~Has(s, j, k, want)
         /\ FirstWith(s, k, want) # 0 =>
              /\ FirstWith(s, k, want) \in DOMAIN s
              /\ Has(s, FirstWith(s, k, want), k, want)
              /\ \A j \in DOMAIN s : Has(s, j, k, want) => FirstWith(s, k, want) <= j
<1> DEFINE hits == {j \in DOMAIN s : Has(s, j, k, want)}
           first == FirstWith(s, k, want)
<1>1. first = IF hits = {} THEN 0 ELSE Min(hits)
  BY Zenon DEF FirstWith, Has
<1>2. hits \in SUBSET Nat /\ 0 \notin hits
  OBVIOUS
<1> HIDE DEF first
<1>3. CASE hits = {}
  BY <1>1, <1>3 DEF first
<1>4. CASE hits # {}
  <2>1. first \in hits /\ \A j \in hits : first <= j
    BY <1>1, <1>2, <1>4, LeastIndex
  <2> QED
    BY <1>2, <1>4, <2>1 DEF first
<1> QED
  BY <1>3, <1>4

\* Arrays with the same matches have the same first match.
LEMMA SameFound ==
  ASSUME NEW s, NEW t, NEW k, NEW want,
         \A j : (j \in DOMAIN s /\ Has(s, j, k, want)) <=> (j \in DOMAIN t /\ Has(t, j, k, want))
  PROVE  FirstWith(s, k, want) = FirstWith(t, k, want)
<1>1. {j \in DOMAIN s : Has(s, j, k, want)} = {j \in DOMAIN t : Has(t, j, k, want)}
  BY Zenon
<1> QED
  BY <1>1, Zenon DEF FirstWith, Has

-----------------------------------------------------------------------------
(* The publisher *)

Docs == releases \in Seq(ReleaseDocs) /\ Len(releases) <= MaxReleases

\* The manifest stays an array of releases, of whatever length.
LEMMA DocsAlways == Spec => []Docs
<1>1. Init => Docs
  BY Bounds DEF Init, Docs
<1>2. Docs /\ [Next]_<<releases, own>> => Docs'
  BY Bounds, SMTT(30) DEF Docs, Next, Add, Edit
<1> QED
  BY <1>1, <1>2, PTL DEF Spec

\* manifest_load keeps every release in its place, as a structure.
LEMMA Loaded ==
  ASSUME Docs
  PROVE  /\ loaded # NULL
         /\ DOMAIN loaded = DOMAIN releases /\ DOMAIN loaded \subseteq Nat \ {0}
         /\ \A i \in DOMAIN releases : loaded[i] = load_release(releases[i])
         /\ \A i \in DOMAIN releases : loaded[i] # NULL /\ releases[i] \in ReleaseDocs
<1> DEFINE structs == {load_release(rj) : rj \in ReleaseDocs}
           n == Len(releases)
<1>1. n \in 0..MaxReleases /\ DOMAIN releases = 1..n /\ releases \in [1..n -> ReleaseDocs]
  BY Bounds DEF Docs
<1>2. releases # NULL
  BY <1>1, Pointers
<1>3. loaded = [i \in DOMAIN releases |-> load_release(releases[i])]
  BY <1>2 DEF loaded, manifest_load
<1>4. \A i \in 1..n : load_release(releases[i]) \in structs
  BY <1>1
<1>5. loaded \in [1..n -> structs]
  <2> HIDE DEF structs
  <2> QED
    BY <1>1, <1>3, <1>4
<1>6. loaded # NULL
  BY <1>1, <1>5, Pointers
<1>7. /\ DOMAIN loaded = DOMAIN releases
      /\ \A i \in DOMAIN releases : loaded[i] = load_release(releases[i])
  BY <1>3
<1>8. \A i \in DOMAIN releases : loaded[i] # NULL
  BY <1>1, <1>4, <1>7, Pointers
<1> QED
  BY <1>1, <1>6, <1>7, <1>8

\* The files of a release that was loaded are an array, too.
LEMMA FilesLoaded ==
  ASSUME NEW rj \in ReleaseDocs
  PROVE  DOMAIN load_release(rj).files \subseteq Nat \ {0}
<1>1. CASE rj = NULL
  BY <1>1 DEF load_release
<1>2. CASE rj # NULL
  <2>1. rj \in [device_id : ReleaseIds, files : FileLists]
    BY <1>2 DEF ReleaseDocs
  <2>2. rj.files \in FileLists
    BY <2>1
  <2>3. PICK n \in 0..MaxFiles : rj.files \in [1..n -> FileDocs]
    BY <2>2 DEF FileLists
  <2>4. load_release(rj).files = [k \in DOMAIN rj.files |-> load_file(rj.files[k])]
    BY <1>2 DEF load_release
  <2> QED
    BY <2>3, <2>4, Bounds
<1> QED
  BY <1>1, <1>2

-----------------------------------------------------------------------------
(* Selection *)

\* For every manifest and device id: a release of this device if there is one, else a
\* default one, never another (manifest_select_release).  Releases with an empty id are
\* left open for a device with an empty id.
THEOREM SelectsRule == Spec => []SelectionRule
<1>1. ASSUME Docs
      PROVE  SelectionRule
  <2> DEFINE exact   == FirstWith(loaded, "device_id", own)
             default == FirstWith(loaded, "device_id", "default")
             Ids     == IdsOf(loaded)
  <2> SUFFICES ASSUME ~(own = "" /\ "" \in Ids)
               PROVE  SelectionRule
    BY Zenon DEF SelectionRule
  <2>1. /\ loaded # NULL /\ DOMAIN loaded \subseteq Nat \ {0}
        /\ \A i \in DOMAIN loaded : loaded[i] # NULL
    BY <1>1, Loaded
  <2>2. selected = IF IsSet(own) /\ exact # 0 THEN loaded[exact]
                   ELSE IF default # 0 THEN loaded[default] ELSE NULL
    BY <2>1, Zenon DEF selected, manifest_select_release
  <2>3. /\ exact = 0 <=> \A j \in DOMAIN loaded : ~Has(loaded, j, "device_id", own)
        /\ exact # 0 => exact \in DOMAIN loaded /\ Has(loaded, exact, "device_id", own)
    BY <2>1, Found
  <2>4. /\ default = 0 <=> \A j \in DOMAIN loaded : ~Has(loaded, j, "device_id", "default")
        /\ default # 0 =>
             default \in DOMAIN loaded /\ Has(loaded, default, "device_id", "default")
    BY <2>1, Found
  <2> HIDE DEF exact, default
  <2>5. \A id : id \in Ids <=> \E i \in DOMAIN loaded : loaded[i].device_id = id
    BY DEF IdsOf
  <2>6. "default" \in Ids <=> default # 0
    BY <2>4, <2>5, Pointers DEF Has
  <2>7. own \in OwnId /\ own \in Ids => IsSet(own)
    BY DEF OwnId, IsSet
  <2>8. IsSet(own) => (own \in Ids <=> exact # 0)
    BY <2>3, <2>5 DEF IsSet, Has
  <2>9. \A id \in OwnId : id = own
    BY DEF OwnId
  <2>10. CASE IsSet(own) /\ exact # 0
    <3>1. selected = loaded[exact] /\ selected # NULL /\ selected.device_id = own
      BY <2>1, <2>2, <2>3, <2>10 DEF Has
    <3>2. own \in Ids \cap OwnId
      BY <2>8, <2>10 DEF OwnId, IsSet
    <3> QED
      BY <2>3, <2>10, <3>1, <3>2 DEF SelectionRule
  <2>11. CASE ~(IsSet(own) /\ exact # 0)
    <3>1. OwnId \cap Ids = {}
      BY <2>7, <2>8, <2>9, <2>11
    <3>2. CASE default # 0
      <4>1. selected = loaded[default] /\ selected # NULL /\ selected.device_id = "default"
        BY <2>1, <2>2, <2>4, <2>11, <3>2 DEF Has
      <4> QED
        BY <2>4, <2>6, <3>1, <3>2, <4>1 DEF SelectionRule
    <3>3. CASE default = 0
      <4>1. selected = NULL
        BY <2>2, <2>11, <3>3
      <4> QED
        BY <2>6, <3>1, <3>3, <4>1 DEF SelectionRule
    <3> QED
      BY <3>2, <3>3
  <2> QED
    BY <2>10, <2>11
<1> QED
  BY <1>1, DocsAlways, PTL

\* For every release and file type: a file of that type if there is one, else the first
\* file, else none (manifest_release_select_file).
THEOREM SelectsFile == Spec => []FileRule
<1>1. ASSUME Docs
      PROVE  FileRule
  <2> SUFFICES ASSUME NEW i \in DOMAIN loaded, NEW wanted \in FileTypes \cup {NULL, ""}
               PROVE  LET r == loaded[i]
                          f == manifest_release_select_file(r, wanted)
                          hits == {k \in DOMAIN r.files : r.files[k].file_type = wanted}
                      IN  IF r.files = <<>> THEN f = NULL
                          ELSE IF wanted \in {NULL, ""} \/ hits = {} THEN f = r.files[1]
                          ELSE f.file_type = wanted /\ \E k \in hits : f = r.files[k]
    BY Zenon DEF FileRule
  <2> DEFINE r == loaded[i]
             f == manifest_release_select_file(r, wanted)
             hits == {k \in DOMAIN r.files : r.files[k].file_type = wanted}
             exact == FirstWith(r.files, "file_type", wanted)
  <2>1. r # NULL /\ DOMAIN r.files \subseteq Nat \ {0}
    <3>1. i \in DOMAIN releases /\ r = load_release(releases[i]) /\ r # NULL
      BY <1>1, Loaded
    <3>2. releases[i] \in ReleaseDocs
      BY <1>1, <3>1, Loaded
    <3> QED
      BY <3>1, <3>2, FilesLoaded
  <2> HIDE DEF r
  <2>2. f = IF r.files = <<>> THEN NULL
            ELSE IF IsSet(wanted) /\ exact # 0 THEN r.files[exact] ELSE r.files[1]
    BY <2>1, Zenon DEF manifest_release_select_file
  <2>3. /\ exact = 0 <=> \A j \in DOMAIN r.files : ~Has(r.files, j, "file_type", wanted)
        /\ exact # 0 => exact \in DOMAIN r.files /\ Has(r.files, exact, "file_type", wanted)
    BY <2>1, Found
  <2> HIDE DEF exact, f
  <2>4. IsSet(wanted) => (hits = {} <=> exact = 0)
    BY <2>3 DEF IsSet, Has
  <2>5. exact # 0 => exact \in hits /\ r.files[exact].file_type = wanted
    BY <2>3 DEF Has
  <2>6. IF r.files = <<>> THEN f = NULL
        ELSE IF wanted \in {NULL, ""} \/ hits = {} THEN f = r.files[1]
        ELSE f.file_type = wanted /\ \E k \in hits : f = r.files[k]
    <3> HIDE DEF hits
    <3> QED
      BY <2>2, <2>4, <2>5 DEF IsSet
  <2> QED
    BY <2>6, Zenon DEF r, f, hits
<1> QED
  BY <1>1, DocsAlways, PTL

\* Selection depends on the releases of this device and the default ones only.
LEMMA SameSelection ==
  ASSUME NEW s, NEW t, NEW id, s # NULL, t # NULL,
         DOMAIN s \subseteq Nat \ {0}, DOMAIN t \subseteq Nat \ {0},
         \A want \in {id, "default"} : \A j :
           (j \in DOMAIN s /\ Has(s, j, "device_id", want))
             <=> (j \in DOMAIN t /\ Has(t, j, "device_id", want)),
         \A want \in {id, "default"} : \A j \in DOMAIN s :
           Has(s, j, "device_id", want) => s[j] = t[j]
  PROVE  manifest_select_release(s, id) = manifest_select_release(t, id)
<1>1. \A want \in {id, "default"} :
        FirstWith(s, "device_id", want) = FirstWith(t, "device_id", want)
  BY SameFound
<1>2. \A want \in {id, "default"} :
        FirstWith(s, "device_id", want) # 0 =>
          s[FirstWith(s, "device_id", want)] = t[FirstWith(s, "device_id", want)]
  BY Found
<1> QED
  BY <1>1, <1>2, Zenon DEF manifest_select_release

\* Whatever the publisher does to the release of another device, this device downloads
\* what it would have downloaded without it (fetch_release).
THEOREM OthersNeverMatter == Spec => OthersDoNotMatter
<1> DEFINE Shape == /\ loaded # NULL /\ DOMAIN loaded = DOMAIN releases
                    /\ DOMAIN loaded \subseteq Nat \ {0}
                    /\ \A j \in DOMAIN releases : loaded[j] = load_release(releases[j])
<1>1. Docs => Shape
  BY Loaded
<1>2. (Docs => Shape)'
  BY <1>1, PTL
<1>3. ASSUME Docs, Docs', Next, NEW i \in DOMAIN releases',
             i \in DOMAIN releases => loaded[i].device_id \notin {own, "default"},
             loaded'[i].device_id \notin {own, "default"},
             \A j \in DOMAIN releases' \ {i} :
               j \in DOMAIN releases /\ releases'[j] = releases[j]
      PROVE  SelectedFile(loaded', own) = SelectedFile(loaded, own)
  <2>1. /\ loaded # NULL /\ DOMAIN loaded = DOMAIN releases
        /\ DOMAIN loaded \subseteq Nat \ {0}
        /\ \A j \in DOMAIN releases : loaded[j] = load_release(releases[j])
    BY <1>3, <1>1
  <2>2. /\ loaded' # NULL /\ DOMAIN loaded' = DOMAIN releases'
        /\ DOMAIN loaded' \subseteq Nat \ {0}
        /\ \A j \in DOMAIN releases' : loaded'[j] = load_release(releases'[j])
    BY <1>3, <1>2
  <2>3. DOMAIN releases \subseteq DOMAIN releases'
    <3>1. PICK rj \in ReleaseDocs : Add(rj) \/ \E k \in DOMAIN releases : Edit(k, rj)
      BY <1>3 DEF Next
    <3>2. CASE Add(rj)
      BY <1>3, <3>2 DEF Add, Docs
    <3>3. CASE \E k \in DOMAIN releases : Edit(k, rj)
      BY <3>3 DEF Edit
    <3> QED
      BY <3>1, <3>2, <3>3
  <2>4. \A j \in DOMAIN loaded' \ {i} : j \in DOMAIN loaded /\ loaded'[j] = loaded[j]
    BY <1>3, <2>1, <2>2
  <2>5. \A j \in DOMAIN loaded \ {i} : j \in DOMAIN loaded'
    BY <2>1, <2>2, <2>3
  <2>6. \A want \in {own, "default"} :
          /\ i \in DOMAIN loaded => ~Has(loaded, i, "device_id", want)
          /\ ~Has(loaded', i, "device_id", want)
    BY <1>3, <2>1 DEF Has
  <2> DEFINE s == loaded'
             t == loaded
  <2>7. /\ s # NULL /\ t # NULL
        /\ DOMAIN s \subseteq Nat \ {0} /\ DOMAIN t \subseteq Nat \ {0}
        /\ \A j \in DOMAIN s \ {i} : j \in DOMAIN t /\ s[j] = t[j]
        /\ \A j \in DOMAIN t \ {i} : j \in DOMAIN s
        /\ \A want \in {own, "default"} :
             /\ i \in DOMAIN t => ~Has(t, i, "device_id", want)
             /\ ~Has(s, i, "device_id", want)
    BY <2>1, <2>2, <2>4, <2>5, <2>6
  <2> HIDE DEF s, t
  <2>8. \A want \in {own, "default"} : \A j :
          (j \in DOMAIN s /\ Has(s, j, "device_id", want))
            <=> (j \in DOMAIN t /\ Has(t, j, "device_id", want))
    BY <2>7 DEF Has
  <2>9. \A want \in {own, "default"} : \A j \in DOMAIN s :
          Has(s, j, "device_id", want) => s[j] = t[j]
    BY <2>7
  <2>10. manifest_select_release(s, own) = manifest_select_release(t, own)
    BY <2>7, <2>8, <2>9, SameSelection
  <2>11. SelectedFile(s, own) = SelectedFile(t, own)
    BY <2>10, Zenon DEF SelectedFile
  <2> QED
    BY <2>11 DEF s, t
<1>4. Docs /\ Docs' /\ [Next]_<<releases, own>> =>
        [\A i \in DOMAIN releases' :
           (/\ i \in DOMAIN releases => loaded[i].device_id \notin {own, "default"}
            /\ loaded'[i].device_id \notin {own, "default"}
            /\ \A j \in DOMAIN releases' \ {i} :
                 j \in DOMAIN releases /\ releases'[j] = releases[j])
           => SelectedFile(loaded', own) = SelectedFile(loaded, own)]_<<releases, own>>
  BY <1>3, Zenon
<1> QED
  BY <1>4, DocsAlways, PTL DEF Spec, OthersDoNotMatter
=============================================================================
