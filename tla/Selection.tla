----------------------------- MODULE Selection -----------------------------
(***************************************************************************)
(* Release and file selection (see Manifest), for a manifest that its      *)
(* publisher edits one release at a time and a device with some device id. *)
(***************************************************************************)
EXTENDS Manifest

CONSTANTS
  OwnIds,       \* values of the configured device_id
  ReleaseIds,   \* values of a release's "device_id"
  FileDocs,     \* elements of a release's "files" array
  FileTypes,    \* file types a caller may ask for
  MaxReleases,  \* bound: length of the "releases" array
  MaxFiles      \* bound: length of a "files" array

VARIABLES releases, own

FileLists == UNION {[1..n -> FileDocs] : n \in 0..MaxFiles}

\* NULL is an array element that is not an object.
ReleaseDocs == [device_id : ReleaseIds, files : FileLists] \cup {NULL}

ASSUME Bounds == MaxReleases \in Nat /\ MaxFiles \in Nat

\* A pointer to a string, to a document that was parsed, or to a manifest or a
\* release that was loaded, is not NULL.
ASSUME Pointers ==
  LET structs == {load_release(rj) : rj \in ReleaseDocs}
  IN  /\ NULL \notin {"", "default"} /\ NULL \notin structs
      /\ \A n \in 0..MaxReleases :
           NULL \notin [1..n -> ReleaseDocs] /\ NULL \notin [1..n -> structs]

Init == releases = <<>> /\ own \in OwnIds

Add(rj) ==
  /\ Len(releases) < MaxReleases
  /\ releases' = Append(releases, rj)
  /\ UNCHANGED own

Edit(i, rj) ==
  /\ releases' = [releases EXCEPT ![i] = rj]
  /\ UNCHANGED own

Next == \E rj \in ReleaseDocs : Add(rj) \/ \E i \in DOMAIN releases : Edit(i, rj)

Spec == Init /\ [][Next]_<<releases, own>>

-----------------------------------------------------------------------------
(* Properties *)

loaded   == manifest_load(releases)
selected == manifest_select_release(loaded, own)

IdsOf(rs) == {rs[i].device_id : i \in DOMAIN rs}

\* The id this device goes by, if any.
OwnId == {own} \ {NULL}

\* "If device_id is non-NULL and a matching release exists, return it.  Else, if
\* a release with device_id == "default" exists, return it.  Else, return NULL."
\* (manifest.h:90-92, manifest_select_release), and never the release of another
\* device.  Nothing is said of a release whose device_id is empty, for a device
\* whose own is empty: manifest.h wants it returned, and manifest.c:281 passes it
\* over.
SelectionRule ==
  \/ own = "" /\ "" \in IdsOf(loaded)
  \/ /\ selected = NULL <=> IdsOf(loaded) \cap (OwnId \cup {"default"}) = {}
     /\ selected # NULL =>
          /\ \E i \in DOMAIN loaded : loaded[i] = selected
          /\ selected.device_id \in OwnId \cup {"default"}
          /\ OwnId \cap IdsOf(loaded) # {} => selected.device_id = own

\* What the publisher does to releases of other devices does not change what
\* this device downloads (fetch_release).
OthersDoNotMatter ==
  [][\A i \in DOMAIN releases' :
       (/\ i \in DOMAIN releases => loaded[i].device_id \notin {own, "default"}
        /\ loaded'[i].device_id \notin {own, "default"}
        /\ \A j \in DOMAIN releases' \ {i} :
             j \in DOMAIN releases /\ releases'[j] = releases[j])
       => SelectedFile(loaded', own) = SelectedFile(loaded, own)]_<<releases, own>>

\* "If file_type is non-NULL and a matching entry exists, return it.  Else, if
\* release has files, return the first file.  Else, return NULL."
\* (manifest.h:105-107), with an unset file_type for a NULL one.
FileRule ==
  \A i \in DOMAIN loaded, wanted \in FileTypes \cup {NULL, ""} :
    LET r == loaded[i]
        f == manifest_release_select_file(r, wanted)
        hits == {k \in DOMAIN r.files : r.files[k].file_type = wanted}
    IN  IF r.files = <<>> THEN f = NULL
        ELSE IF wanted \in {NULL, ""} \/ hits = {} THEN f = r.files[1]
        ELSE f.file_type = wanted /\ \E k \in hits : f = r.files[k]
=============================================================================
