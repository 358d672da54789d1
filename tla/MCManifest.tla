----------------------------- MODULE MCManifest -----------------------------
(* A small instance of Selection. *)
EXTENDS Selection

File(type, sha) == [file_type |-> type, filename |-> "f", path |-> "p", sha256 |-> sha]

\* NULL is an array element that is not an object.
MCFileDocs == {File("rauc_bundle", "x"), File("swu", NULL), NULL}
=============================================================================
