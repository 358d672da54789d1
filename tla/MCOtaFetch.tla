----------------------------- MODULE MCOtaFetch -----------------------------
(***************************************************************************)
(* Small instances of OtaFetch.  Two releases of RAUC bundles, with their  *)
(* manifests m1, m2, signatures s1, s2 and payloads b1, b2; a trusted      *)
(* signer certificate and an untrusted one; b3 is a payload no manifest    *)
(* lists, such as a half-finished upload.                                  *)
(***************************************************************************)
EXTENDS OtaFetch, TLC

CONSTANTS m1, m2, s1, s2, c1, c2, b1, b2, b3

File(name, type, body) ==
  [file_type |-> type, filename |-> name, path |-> "payload",
   sha256 |-> hex_encode(body)]

Release(dev, name, type, body) ==
  [device_id |-> dev, files |-> <<File(name, type, body)>>]

MCDataFile ==
  m1 :> [len |-> 2048,
         json |-> <<Release("default", "bundle", "rauc_bundle", b1)>>] @@
  m2 :> [len |-> 2048,
         json |-> <<Release("default", "bundle", "rauc_bundle", b1),
                    Release("dev", "bundle", "rauc_bundle", b2)>>]

MCSigFile ==
  s1 :> [len |-> 71, key |-> "k1", over |-> m1] @@
  s2 :> [len |-> 71, key |-> "k1", over |-> m2]

MCCertFile ==
  c1 :> [pem |-> TRUE, issuer |-> "root", key |-> "k1", key_type |-> "EC"] @@
  c2 :> [pem |-> TRUE, issuer |-> "other", key |-> "k1", key_type |-> "EC"]

MCCa == {"root"}

MCFilenames == {"bundle"}
MCPaths == {"payload"}
MCBundles == {b1, b2, b3}

\* Release 1 is complete on the server from the start.
MCInitServers ==
  {MANIFEST :> m1 @@ SIGNATURE :> s1 @@ SIGNER :> c1 @@ "payload" :> b1}

Release1 == {<<MANIFEST, m1>>, <<SIGNATURE, s1>>, <<"payload", b1>>}
Release2 == {<<MANIFEST, m2>>, <<SIGNATURE, s2>>, <<"payload", b2>>}

\* Release 2 replaces release 1, file by file in any order.
MCUpgrade == Release2 \cup {<<"payload", b3>>}
\* ... or release 1 is put back.
MCRollback == Release1 \cup Release2
=============================================================================
