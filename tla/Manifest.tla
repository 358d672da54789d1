------------------------------ MODULE Manifest ------------------------------
(***************************************************************************)
(* The release manifest (src/manifest.c): what manifest_load keeps of a    *)
(* JSON document, and which release and which file entry a device picks.   *)
(*                                                                         *)
(* A JSON document is abstracted to its "releases" array.  NULL stands for *)
(* a C null pointer and, inside a document, for a value that is absent or  *)
(* of the wrong JSON type.                                                 *)
(***************************************************************************)
EXTENDS Naturals, Sequences, FiniteSetsExt

CONSTANT NULL

-----------------------------------------------------------------------------
(* Loading *)

FileFields == {"file_type", "filename", "sha256", "path"}

\* An array element that is not an object stays as calloc left it.
load_file(fj) ==
  IF fj = NULL THEN [k \in FileFields |-> NULL]
  ELSE [k \in FileFields |-> fj[k]]

load_release(rj) ==
  IF rj = NULL THEN [device_id |-> NULL, files |-> <<>>]
  ELSE [device_id |-> rj.device_id,
        files |-> [k \in DOMAIN rj.files |-> load_file(rj.files[k])]]

\* NULL when the text is not a JSON object; otherwise the releases, as many
\* as the array has elements and in its order.
manifest_load(json) ==
  IF json = NULL THEN NULL
  ELSE [i \in DOMAIN json |-> load_release(json[i])]

-----------------------------------------------------------------------------
(* Selection *)

\* The first element of s whose field k is the string want; 0 if there is none.
FirstWith(s, k, want) ==
  LET hits == {i \in DOMAIN s : s[i][k] # NULL /\ s[i][k] = want}
  IN  IF hits = {} THEN 0 ELSE Min(hits)

\* The C test  p && p[0] != '\0'.
IsSet(p) == p \notin {NULL, ""}

\* Mutant of manifest_select_release: the default release is looked for first.
manifest_select_release_default_first(m, device_id) ==
  IF m = NULL THEN NULL
  ELSE LET exact   == FirstWith(m, "device_id", device_id)
           default == FirstWith(m, "device_id", "default")
       IN  IF default # 0 THEN m[default]
           ELSE IF IsSet(device_id) /\ exact # 0 THEN m[exact]
           ELSE NULL

\* Mutant of manifest_select_release: without a match, the first release is used.
manifest_select_release_any(m, device_id) ==
  IF m = NULL \/ m = <<>> THEN NULL
  ELSE LET exact   == FirstWith(m, "device_id", device_id)
       IN  IF IsSet(device_id) /\ exact # 0 THEN m[exact] ELSE m[1]

manifest_select_release(m, device_id) ==
  IF m = NULL THEN NULL
  ELSE LET exact   == FirstWith(m, "device_id", device_id)
           default == FirstWith(m, "device_id", "default")
       IN  IF IsSet(device_id) /\ exact # 0 THEN m[exact]
           ELSE IF default # 0 THEN m[default]
           ELSE NULL

\* Mutant of manifest_release_select_file: nothing to fall back on.
manifest_release_select_file_exact(r, file_type) ==
  IF r = NULL \/ r.files = <<>> THEN NULL
  ELSE LET exact == FirstWith(r.files, "file_type", file_type)
       IN  IF IsSet(file_type) /\ exact # 0 THEN r.files[exact] ELSE NULL

manifest_release_select_file(r, file_type) ==
  IF r = NULL \/ r.files = <<>> THEN NULL
  ELSE LET exact == FirstWith(r.files, "file_type", file_type)
       IN  IF IsSet(file_type) /\ exact # 0 THEN r.files[exact]
           ELSE r.files[1]

\* fetch_release uses the first file entry of the selected release, and only
\* if none of its four fields is missing.
HasRequiredFields(f) == \A k \in FileFields : f[k] # NULL

SelectedFile(m, device_id) ==
  LET r == manifest_select_release(m, device_id)
  IN  IF r = NULL \/ r.files = <<>> THEN NULL
      ELSE IF HasRequiredFields(r.files[1]) THEN r.files[1] ELSE NULL
=============================================================================
