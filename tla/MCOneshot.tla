----------------------------- MODULE MCOneshot ------------------------------
(***************************************************************************)
(* One-shot runs of OtaFetch against manifests of every kind the update    *)
(* loop tells apart.  They list the payload b that the server offers, and  *)
(* all but mForged are signed with a key that the device accepts.          *)
(***************************************************************************)
EXTENDS OtaFetch, TLC

CONSTANTS mTest, mRauc, mUnsupported, mUpper, mIncomplete, mNoFiles, mOther,
          mText, mForged, cert, forged, b

SignatureOf(m) == <<"signature", m>>

Entry(type, sha) ==
  [file_type |-> type, filename |-> "bundle", path |-> "payload", sha256 |-> sha]

Doc(dev, files) == [len |-> 2048, json |-> <<[device_id |-> dev, files |-> files]>>]

MCDataFile ==
  mTest        :> Doc("default", <<Entry("rauc_bundle_test", hex_encode(b))>>) @@
  mRauc        :> Doc("default", <<Entry("rauc_bundle", hex_encode(b))>>) @@
  mUnsupported :> Doc("default", <<Entry("swu", hex_encode(b))>>) @@
  mUpper       :> Doc("default", <<Entry("rauc_bundle",
                                     [digits |-> "upper", digest |-> b])>>) @@
  mIncomplete  :> Doc("default", <<Entry("rauc_bundle", NULL)>>) @@
  mNoFiles     :> Doc("default", <<>>) @@
  mOther       :> Doc("other", <<Entry("rauc_bundle", hex_encode(b))>>) @@
  mForged      :> Doc("default", <<Entry("rauc_bundle_test", hex_encode(b))>>) @@
  mText        :> [len |-> 10, json |-> NULL]

MCSigFile ==
  [s \in {SignatureOf(m) : m \in DOMAIN MCDataFile} |->
     [len |-> 71, key |-> IF s[2] = mForged THEN "k2" ELSE "k1", over |-> s[2]]]

MCCertFile ==
  cert   :> [pem |-> TRUE, issuer |-> "root", key |-> "k1", key_type |-> "RSA"] @@
  forged :> [pem |-> TRUE, issuer |-> "other", key |-> "k2", key_type |-> "RSA"]

MCCa == {"root"}
MCFilenames == {"bundle"}
MCPaths == {"payload"}
MCBundles == {b}

\* Each manifest with its own signature and the certificate of its key.
MCInitServers ==
  {MANIFEST :> m @@ SIGNATURE :> SignatureOf(m) @@
   SIGNER :> (IF m = mForged THEN forged ELSE cert) @@ "payload" :> b :
     m \in DOMAIN MCDataFile}

MCPublishable ==
  {<<MANIFEST, mTest>>, <<SIGNATURE, SignatureOf(mTest)>>, <<SIGNER, cert>>,
   <<"payload", NoFile>>}
=============================================================================
