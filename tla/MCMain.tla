------------------------------- MODULE MCMain -------------------------------
(***************************************************************************)
(* Files that begin with what is required but for the last setting, and go *)
(* on with any few lines.                                                  *)
(***************************************************************************)
EXTENDS Main

Line(indent, kind, name, value, whole, size) ==
  [indent |-> indent, kind |-> kind, name |-> name, value |-> value, whole |-> whole,
   size |-> size]

Pair(indent, name, value) == Line(indent, "pair", name, value, name, "fits")
Section(indent, name)     == Line(indent, "section", name, "", name, "fits")

MCStart ==
  <<Section(FALSE, "network"),
    Pair(FALSE, "server_url", "x"), Pair(FALSE, "tls_ca_cert", "x"),
    Pair(FALSE, "tls_client_cert", "x"), Pair(FALSE, "tls_client_key", "x"),
    Section(FALSE, "system"),
    Pair(FALSE, "inbox_manifest_dir", "x"), Pair(FALSE, "current_manifest_dir", "x")>>

MCLines ==
  {MCStart[i] : i \in DOMAIN MCStart}
  \cup UNION {{Section(indent, "network"), Line(indent, "badsection", "", "", "[", "fits"),
               Line(indent, "junk", "", "", "7", "fits"), Pair(indent, "", "x"),
               Pair(indent, "manifest_ca_cert", "x")} : indent \in BOOLEAN}
  \cup {Line(FALSE, "comment", "", "", "", "fits"), Pair(FALSE, "manifest_ca_cert", ""),
        Pair(FALSE, "log_file", "x"), Pair(TRUE, "retry_attempts", "7")}
  \cup {Line(FALSE, "pair", "manifest_ca_cert", "x", "manifest_ca_cert", size) :
          size \in {"full", "cut"}}

MCTexts == {line.value : line \in MCLines} \cup {line.whole : line \in MCLines}
MCatoi  == [t \in MCTexts |-> IF t = "7" THEN 7 ELSE 0]
=============================================================================
