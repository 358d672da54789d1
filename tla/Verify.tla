------------------------------- MODULE Verify -------------------------------
(***************************************************************************)
(* Detached-signature verification (src/verify_libcrypto.c) and payload    *)
(* digests (src/hash.c), with symbolic cryptography: a signature is good   *)
(* for exactly the file and the key it was made for, a certificate chains  *)
(* to exactly its issuer, and no two files have the same digest.           *)
(*                                                                         *)
(* Files are named by their body; the constants say what a body contains.  *)
(***************************************************************************)
EXTENDS Naturals

CONSTANTS
  DataFile,   \* [body of a manifest    -> [len, json]]
  SigFile,    \* [body of a signature   -> [len, key, over]]
  CertFile,   \* [body of a certificate -> [pem, issuer, key, key_type]]
  NoFile      \* the path does not exist

Manifests == DOMAIN DataFile
Sigs      == DOMAIN SigFile
Certs     == DOMAIN CertFile

SIG_MAX_LEN      == 16 * 1024
SIG_ED25519_LEN  == 64
MANIFEST_MAX_LEN == 1024 * 1024

\* A body of the wrong kind, or one that a power cut emptied, has no content
\* that could be signed or parsed.
FileLen(data) == IF data \in Manifests THEN DataFile[data].len ELSE 0
SigLen(sig)   == IF sig \in Sigs THEN SigFile[sig].len ELSE 0
IsPem(cert)   == cert \in Certs /\ CertFile[cert].pem

-----------------------------------------------------------------------------
load_signer_cert(cert) ==
  IF cert = NoFile THEN "VERIFY_ERR_OPEN_FILE"
  ELSE IF ~IsPem(cert) THEN "VERIFY_ERR_LOAD_CERT"
  ELSE "VERIFY_OK"

\* A CA path is the set of root certificates it holds.
load_ca_store(ca) ==
  IF ca = NoFile THEN "VERIFY_ERR_LOAD_CA" ELSE "VERIFY_OK"

verify_signer_cert(ca, cert) ==
  IF CertFile[cert].issuer \in ca THEN "VERIFY_OK"
  ELSE "VERIFY_ERR_CERT_VERIFY"

load_public_key(cert) ==
  IF CertFile[cert].key = "none" THEN "VERIFY_ERR_LOAD_PUBKEY" ELSE "VERIFY_OK"

read_signature_file(sig) ==
  IF sig = NoFile THEN "VERIFY_ERR_OPEN_FILE"
  ELSE IF SigLen(sig) \notin 1..SIG_MAX_LEN THEN "VERIFY_ERR_READ_SIG"
  ELSE "VERIFY_OK"

\* EVP_DigestVerify and EVP_DigestVerifyFinal.
DigestVerify(data, sig, key) ==
  IF SigFile[sig].key = key /\ SigFile[sig].over = data THEN "VERIFY_OK"
  ELSE "VERIFY_ERR_SIG_VERIFY"

\* An empty file is read like any other.  READ_FILE_READ and READ_FILE_MEM, like
\* every failing call here, are faults of validate_new_manifest in OtaFetch.
read_file_all(data) ==
  IF data = NoFile THEN "READ_FILE_OPEN"
  ELSE IF FileLen(data) > MANIFEST_MAX_LEN THEN "READ_FILE_TOO_LARGE"
  ELSE "READ_FILE_OK"

verify_ed25519_signature(data, sig, key) ==
  IF SigLen(sig) # SIG_ED25519_LEN THEN "VERIFY_ERR_SIG_VERIFY"
  ELSE CASE read_file_all(data) = "READ_FILE_OPEN"      -> "VERIFY_ERR_OPEN_FILE"
         [] read_file_all(data) = "READ_FILE_TOO_LARGE" -> "VERIFY_ERR_READ_DATA"
         [] read_file_all(data) = "READ_FILE_OK"        -> DigestVerify(data, sig, key)

verify_rsa_ecdsa_signature(data, sig, key) ==
  IF data = NoFile THEN "VERIFY_ERR_OPEN_FILE"
  ELSE DigestVerify(data, sig, key)

verify_by_key_type(data, sig, cert) ==
  LET key == CertFile[cert].key
  IN  IF CertFile[cert].key_type = "ED25519"
      THEN verify_ed25519_signature(data, sig, key)
      ELSE IF CertFile[cert].key_type \in {"EC", "RSA"}
      THEN verify_rsa_ecdsa_signature(data, sig, key)
      ELSE "VERIFY_ERR_SIG_VERIFY"

\* The stages in the order of the source; the first that fails is the result.
Then(result, next) == IF result # "VERIFY_OK" THEN result ELSE next

verify_signature_with_cert(data, sig, cert, ca) ==
  Then(load_signer_cert(cert),
    Then(load_ca_store(ca),
      Then(verify_signer_cert(ca, cert),
        Then(load_public_key(cert),
          Then(read_signature_file(sig),
            verify_by_key_type(data, sig, cert))))))

-----------------------------------------------------------------------------
\* hex_encode writes lower-case digits only.
hex_encode(body) == [digits |-> "lower", digest |-> body]
=============================================================================
