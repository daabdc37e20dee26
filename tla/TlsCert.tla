------------------------------ MODULE TlsCert ------------------------------
(***************************************************************************)
(* The local certificate of a struct tls (src/tls/openssl/tls.c) and the   *)
(* reference counts of the X509 and EVP_PKEY objects it shares with the    *)
(* SSL_CTX.  libre keeps tls->cert, one reference to the certificate it    *)
(* last installed, whose digest tls_fingerprint reports.  The SSL_CTX      *)
(* keeps one certificate/key slot per key type.                            *)
(*                                                                         *)
(* Every setter (tls_set_selfsigned_rsa/_ec, tls_set_certificate_pem/_der/ *)
(* _openssl) makes or takes a certificate and a key, calls                 *)
(* SSL_CTX_use_certificate and SSL_CTX_use_PrivateKey, and only when both  *)
(* succeed replaces tls->cert; its locals are freed at `out`.  A setter    *)
(* runs to completion in the calling thread, so each is one step.          *)
(*                                                                         *)
(* The SSL_CTX side is OpenSSL's (ssl_set_cert and ssl_set_pkey of         *)
(* ssl/ssl_rsa.c, 1.1.1 and 3.x): installing a certificate up_refs it,     *)
(* frees the slot's old certificate and drops the slot's key when the key  *)
(* does not match the new certificate; installing a key whose slot holds a *)
(* certificate it does not match frees that certificate, empties the slot  *)
(* and fails.                                                              *)
(*                                                                         *)
(* Objects are allocation ids 1..MaxObj: id i names the certificate and    *)
(* the key made by the same call.  rcx[i] and rck[i] are their reference   *)
(* counts (0: not allocated or freed).  pub[i] is the key that             *)
(* certificate i's public key belongs to (0: none of the model's keys).    *)
(***************************************************************************)
EXTENDS Naturals, FiniteSets, FiniteSetsExt

CONSTANTS
  KeyTypes,  \* enum tls_keytype values a key may have
  KeyMatch,  \* whether a PEM/DER/app certificate's key belongs to it
  Keyfile,   \* whether tls_alloc may be given a keyfile
  MaxObj     \* bound: certificate/key pairs made

ASSUME KeyTypes \subseteq {"RSA", "EC"} /\ KeyTypes # {}
ASSUME KeyMatch \subseteq BOOLEAN /\ KeyMatch # {}
ASSUME Keyfile \subseteq BOOLEAN /\ Keyfile # {}
ASSUME MaxObj \in Nat

Ids     == 1..MaxObj
NoObj   == 0
NoSlot  == [x |-> NoObj, k |-> NoObj]

VARIABLES
  t,      \* tls->cert, the SSL_CTX slots and the objects
  alive   \* the struct tls is not yet freed

vars == <<t, alive>>

-----------------------------------------------------------------------------
(***************************************************************************)
(* Objects and OpenSSL's SSL_CTX (environment).                            *)
(***************************************************************************)
X509_free(s, x)       == [s EXCEPT !.rcx[x] = @ - 1]
X509_up_ref(s, x)     == [s EXCEPT !.rcx[x] = @ + 1]
EVP_PKEY_free(s, k)   == [s EXCEPT !.rck[k] = @ - 1]
EVP_PKEY_up_ref(s, k) == [s EXCEPT !.rck[k] = @ + 1]

\* The next allocation id, for a certificate of key type ty whose public
\* key is the key of the same id when match holds; nothing allocated yet.
NewId(s, ty, match) ==
  LET i == s.n + 1 IN
  [s EXCEPT !.n = i, !.typ[i] = ty, !.pub[i] = IF match THEN i ELSE NoObj]

\* X509_check_private_key.
Matches(s, x, k) == s.pub[x] = k

\* ssl_set_cert, reached by SSL_CTX_use_certificate (the model's
\* certificates always carry a supported public key, so it succeeds).
SSL_CTX_use_certificate(s, x) ==
  LET ty == s.typ[x]
      sl == s.slot[ty]
      s1 == IF sl.k # NoObj /\ ~Matches(s, x, sl.k)
            THEN [EVP_PKEY_free(s, sl.k) EXCEPT !.slot[ty].k = NoObj]
            ELSE s
      s2 == X509_up_ref(s1, x)
      s3 == IF sl.x # NoObj THEN X509_free(s2, sl.x) ELSE s2
  IN [s3 EXCEPT !.slot[ty].x = x]

\* ssl_set_pkey, reached by SSL_CTX_use_PrivateKey: [s, ok].
SSL_CTX_use_PrivateKey(s, k) ==
  LET ty == s.typ[k]
      sl == s.slot[ty]
  IN IF sl.x # NoObj /\ ~Matches(s, sl.x, k)
     THEN [s |-> [X509_free(s, sl.x) EXCEPT !.slot[ty].x = NoObj], ok |-> FALSE]
     ELSE LET s1 == IF sl.k # NoObj THEN EVP_PKEY_free(s, sl.k) ELSE s
          IN [s |-> [EVP_PKEY_up_ref(s1, k) EXCEPT !.slot[ty].k = k], ok |-> TRUE]

\* SSL_CTX_free, once no SSL object holds the context: both slots drop
\* their references.
SSL_CTX_free(s) ==
  LET DropSlot(ty, acc) ==
        LET sl == acc.slot[ty]
            a1 == IF sl.x # NoObj THEN X509_free(acc, sl.x) ELSE acc
            a2 == IF sl.k # NoObj THEN EVP_PKEY_free(a1, sl.k) ELSE a1
        IN [a2 EXCEPT !.slot[ty] = NoSlot]
  IN FoldSet(DropSlot, s, KeyTypes)

-----------------------------------------------------------------------------
(***************************************************************************)
(* tls.c                                                                   *)
(***************************************************************************)

\* A setter's result: the new state and the error code it returns.
Res(s, err) == [s |-> s, err |-> err]

\* keytype2int: the EVP type of an enum tls_keytype ("NONE" for others).
keytype2int(kt) == IF kt \in {"RSA", "EC"} THEN kt ELSE "NONE"

\* tls_generate_cert: a new X509 (CN, serial, validity) as certificate i;
\* on any failure the half-built certificate is freed again.
tls_generate_cert(s, i, ok) ==
  IF ok THEN [s EXCEPT !.rcx[i] = 1] ELSE s

\* Mutant: the key is installed before the certificate.
Install_key_first(s, x, k) ==
  LET u  == SSL_CTX_use_PrivateKey(s, k)
      s1 == SSL_CTX_use_certificate(u.s, x)
      s2 == IF s1.cert # NoObj THEN X509_free(s1, s1.cert) ELSE s1
  IN IF u.ok THEN [s |-> [s2 EXCEPT !.cert = x], ok |-> TRUE] ELSE u

\* The tail every setter shares: SSL_CTX_use_certificate, then
\* SSL_CTX_use_PrivateKey; only when both return 1 is the old tls->cert
\* freed and x stored in its place.
Install(s, x, k) ==
  LET s1 == SSL_CTX_use_certificate(s, x)
      u  == SSL_CTX_use_PrivateKey(s1, k)
      s2 == IF u.s.cert # NoObj THEN X509_free(u.s, u.s.cert) ELSE u.s
  IN IF u.ok THEN [s |-> [s2 EXCEPT !.cert = x], ok |-> TRUE] ELSE u

\* tls_set_selfsigned_rsa and tls_set_selfsigned_ec (OpenSSL 3 branch),
\* for outcome o: "NOKEY" key generation fails (ENOMEM for RSA, ENOTSUP
\* for EC); "NOCERT" tls_generate_cert fails; "NOSIGN" X509_set_pubkey or
\* X509_sign fails; "OK".  The certificate carries the key's public key.
\* At `out` the key is always freed, the certificate unless it was stored.
SelfSigned(s, ty, o, keyerr) ==
  IF o = "NOKEY" THEN Res(s, keyerr)
  ELSE LET i  == s.n + 1
           s0 == [NewId(s, ty, TRUE) EXCEPT !.rck[i] = 1]
           s1 == tls_generate_cert(s0, i, o # "NOCERT")
           u  == IF o = "OK" THEN Install(s1, i, i) ELSE [s |-> s1, ok |-> FALSE]
           s2 == IF ~u.ok /\ o # "NOCERT" THEN X509_free(u.s, i) ELSE u.s
       IN Res(EVP_PKEY_free(s2, i), IF u.ok THEN "OK" ELSE "ENOMEM")

tls_set_selfsigned_rsa(s, o) == SelfSigned(s, "RSA", o, "ENOMEM")
tls_set_selfsigned_ec(s, o)  == SelfSigned(s, "EC", o, "ENOTSUP")

\* Mutant: x509 is not set to NULL after it was stored, so `out` frees it.
tls_set_certificate_pem_frees_stored(s, ty, match, p) ==
  IF p = "NOBIO" THEN Res(s, "ENOMEM")
  ELSE LET i  == s.n + 1
           s0 == [NewId(s, ty, match) EXCEPT !.rcx[i] = IF p # "NOCERT" THEN 1 ELSE 0,
                                             !.rck[i] = IF p # "NOKEY" THEN 1 ELSE 0]
           u  == IF p = "OK" THEN Install(s0, i, i) ELSE [s |-> s0, ok |-> FALSE]
           s1 == IF p # "NOCERT" THEN X509_free(u.s, i) ELSE u.s
           s2 == IF p # "NOKEY" THEN EVP_PKEY_free(s1, i) ELSE s1
       IN Res(s2, IF u.ok THEN "OK" ELSE "ENOMEM")

\* tls_set_certificate_pem for a PEM whose key has type ty and belongs to
\* the certificate when match holds; p: "NOBIO" a BIO_new_mem_buf fails,
\* "NOCERT"/"NOKEY" PEM_read_bio_X509/_PrivateKey returns NULL, "OK".
\* Both PEM reads are made before either result is checked.
tls_set_certificate_pem(s, ty, match, p) ==
  IF p = "NOBIO" THEN Res(s, "ENOMEM")
  ELSE LET i  == s.n + 1
           s0 == [NewId(s, ty, match) EXCEPT !.rcx[i] = IF p # "NOCERT" THEN 1 ELSE 0,
                                             !.rck[i] = IF p # "NOKEY" THEN 1 ELSE 0]
           u  == IF p = "OK" THEN Install(s0, i, i) ELSE [s |-> s0, ok |-> FALSE]
           s1 == IF ~u.ok /\ p # "NOCERT" THEN X509_free(u.s, i) ELSE u.s
           s2 == IF p # "NOKEY" THEN EVP_PKEY_free(s1, i) ELSE s1
       IN Res(s2, IF u.ok THEN "OK" ELSE "ENOMEM")

\* tls_set_certificate_der with keytype argument kt for a DER whose key
\* has type ty; p: "NOCERT" d2i_X509 fails, "NOKEY" the key bytes do not
\* parse, "OK".  d2i_PrivateKey(type, ...) reads a key of type kt only.
tls_set_certificate_der(s, kt, ty, match, p) ==
  IF keytype2int(kt) = "NONE" THEN Res(s, "EINVAL")
  ELSE IF p = "NOCERT" THEN Res(s, "ENOMEM")
  ELSE LET i     == s.n + 1
           keyok == p = "OK" /\ keytype2int(kt) = ty
           s0    == [NewId(s, ty, match) EXCEPT !.rcx[i] = 1,
                                                !.rck[i] = IF keyok THEN 1 ELSE 0]
           u     == IF keyok THEN Install(s0, i, i) ELSE [s |-> s0, ok |-> FALSE]
           s1    == IF ~u.ok THEN X509_free(u.s, i) ELSE u.s
           s2    == IF keyok THEN EVP_PKEY_free(s1, i) ELSE s1
       IN Res(s2, IF u.ok THEN "OK" ELSE "ENOMEM")

\* Mutant: without up_ref the caller's reference is freed instead of kept.
tls_set_certificate_openssl_frees_passed(s, i, up_ref) ==
  LET u == Install(s, i, i) IN
  IF ~u.ok THEN Res(u.s, "ENOMEM")
  ELSE Res(IF up_ref THEN X509_up_ref(u.s, i)
           ELSE [X509_free(u.s, i) EXCEPT !.appx[i] = FALSE], "OK")

\* tls_set_certificate_openssl with the application's certificate and key
\* i: on success tls->cert takes a reference of its own (up_ref) or the
\* application's (ownership passed); on failure nothing is freed.
tls_set_certificate_openssl(s, i, up_ref) ==
  LET u == Install(s, i, i) IN
  IF ~u.ok THEN Res(u.s, "ENOMEM")
  ELSE Res(IF up_ref THEN X509_up_ref(u.s, i) ELSE [u.s EXCEPT !.appx[i] = FALSE], "OK")

\* enum tls_fingerprint values and md buffer sizes around the digest sizes.
FpTypes == {"SHA1", "SHA256", "OTHER"}
FpSizes == {19, 20, 32}

\* cert_fingerprint: the digest of x (named by x and the algorithm), for
\* dig the outcome of X509_digest.
cert_fingerprint(x, type, size, dig) ==
  IF type = "SHA1" /\ size < 20 THEN [err |-> "EOVERFLOW", of |-> NoObj]
  ELSE IF type = "SHA256" /\ size < 32 THEN [err |-> "EOVERFLOW", of |-> NoObj]
  ELSE IF type \notin {"SHA1", "SHA256"} THEN [err |-> "ENOSYS", of |-> NoObj]
  ELSE IF ~dig THEN [err |-> "ENOENT", of |-> NoObj]
  ELSE [err |-> "OK", of |-> x]

\* tls_fingerprint: EINVAL without a tls->cert.
tls_fingerprint(s, type, size, dig) ==
  IF s.cert = NoObj THEN [err |-> "EINVAL", of |-> NoObj]
  ELSE cert_fingerprint(s.cert, type, size, dig)

\* The tls destructor: SSL_CTX_free, then X509_free(tls->cert).
destructor_cert(s) ==
  LET s1 == SSL_CTX_free(s) IN
  [IF s1.cert # NoObj THEN X509_free(s1, s1.cert) ELSE s1 EXCEPT !.cert = NoObj]

-----------------------------------------------------------------------------
(***************************************************************************)
(* Actions: the setters, the application's own objects, the destructor.    *)
(***************************************************************************)
CanAlloc == alive /\ t.n < MaxObj

SelfSignedOutcomes == {"OK", "NOKEY", "NOCERT", "NOSIGN"}
PemOutcomes        == {"OK", "NOBIO", "NOCERT", "NOKEY"}
DerOutcomes        == {"OK", "NOCERT", "NOKEY"}
KeyTypeArgs        == KeyTypes \cup {"NONE"}

SetSelfSignedRsa ==
  /\ CanAlloc
  /\ \E o \in SelfSignedOutcomes : t' = tls_set_selfsigned_rsa(t, o).s
  /\ UNCHANGED alive

SetSelfSignedEc ==
  /\ CanAlloc /\ "EC" \in KeyTypes
  /\ \E o \in SelfSignedOutcomes : t' = tls_set_selfsigned_ec(t, o).s
  /\ UNCHANGED alive

SetCertificatePem ==
  /\ CanAlloc
  /\ \E ty \in KeyTypes, m \in KeyMatch, p \in PemOutcomes :
       t' = tls_set_certificate_pem(t, ty, m, p).s
  /\ UNCHANGED alive

SetCertificateDer ==
  /\ CanAlloc
  /\ \E kt \in KeyTypeArgs, ty \in KeyTypes, m \in KeyMatch, p \in DerOutcomes :
       t' = tls_set_certificate_der(t, kt, ty, m, p).s
  /\ UNCHANGED alive

\* The application passes a certificate and key it holds.
SetCertificateOpenssl(i) ==
  /\ alive /\ t.appx[i] /\ t.appk[i]
  /\ \E up \in BOOLEAN : t' = tls_set_certificate_openssl(t, i, up).s
  /\ UNCHANGED alive

\* The application makes a certificate and its key (environment).
AppAlloc ==
  /\ t.n < MaxObj
  /\ \E ty \in KeyTypes, m \in KeyMatch :
       LET i == t.n + 1 IN
       t' = [NewId(t, ty, m) EXCEPT !.rcx[i] = 1, !.rck[i] = 1,
                                    !.appx[i] = TRUE, !.appk[i] = TRUE]
  /\ UNCHANGED alive

\* The application drops the references it still holds (environment).
AppFree(i) ==
  /\ t.appx[i] \/ t.appk[i]
  /\ t' = [t EXCEPT !.rcx[i] = IF t.appx[i] THEN @ - 1 ELSE @,
                    !.rck[i] = IF t.appk[i] THEN @ - 1 ELSE @,
                    !.appx[i] = FALSE, !.appk[i] = FALSE]
  /\ UNCHANGED alive

\* mem_deref of the struct tls.
Destroy ==
  /\ alive
  /\ t' = destructor_cert(t)
  /\ alive' = FALSE

\* tls_alloc: a fresh SSL_CTX; with a keyfile,
\* SSL_CTX_use_certificate_chain_file and SSL_CTX_use_PrivateKey_file put
\* the file's certificate and key (object 1) into the slot of its type and
\* leave tls->cert NULL.  A keyfile whose key does not fit makes tls_alloc
\* fail, so no struct tls exists.
tls_alloc(kf, ty) ==
  LET s0 == [cert |-> NoObj, slot |-> [y \in KeyTypes |-> NoSlot], n |-> 0,
             typ |-> [i \in Ids |-> "NONE"], pub |-> [i \in Ids |-> NoObj],
             rcx |-> [i \in Ids |-> 0], rck |-> [i \in Ids |-> 0],
             appx |-> [i \in Ids |-> FALSE], appk |-> [i \in Ids |-> FALSE]]
  IN IF ~kf THEN s0
     ELSE [NewId(s0, ty, TRUE) EXCEPT !.rcx[1] = 1, !.rck[1] = 1,
                                      !.slot[ty] = [x |-> 1, k |-> 1]]

Init ==
  /\ \E kf \in Keyfile, ty \in KeyTypes : t = tls_alloc(kf, ty)
  /\ alive = TRUE

Next ==
  \/ SetSelfSignedRsa \/ SetSelfSignedEc \/ SetCertificatePem \/ SetCertificateDer
  \/ \E i \in Ids : SetCertificateOpenssl(i) \/ AppFree(i)
  \/ AppAlloc
  \/ Destroy

Spec == Init /\ [][Next]_vars

-----------------------------------------------------------------------------
TypeOK ==
  /\ t.cert \in Ids \cup {NoObj} /\ t.n \in 0..MaxObj
  /\ t.slot \in [KeyTypes -> [x : Ids \cup {NoObj}, k : Ids \cup {NoObj}]]
  /\ t.typ \in [Ids -> KeyTypes \cup {"NONE"}] /\ t.pub \in [Ids -> Ids \cup {NoObj}]
  /\ t.rcx \in [Ids -> Nat] /\ t.rck \in [Ids -> Nat]
  /\ t.appx \in [Ids -> BOOLEAN] /\ t.appk \in [Ids -> BOOLEAN]
  /\ alive \in BOOLEAN

\* The holders of a reference to certificate i and to key i.
CertHolders(i) ==
  (IF t.cert = i THEN 1 ELSE 0) + (IF t.appx[i] THEN 1 ELSE 0)
  + Cardinality({ty \in KeyTypes : t.slot[ty].x = i})
KeyHolders(i) ==
  (IF t.appk[i] THEN 1 ELSE 0) + Cardinality({ty \in KeyTypes : t.slot[ty].k = i})

\* Every certificate's and key's reference count equals the number of its
\* holders (tls->cert, the SSL_CTX slots, the application): each setter's
\* `out` block frees exactly its locals that were not stored, on every
\* failure path, and tls_set_certificate_openssl's up_ref/ownership
\* transfer and the destructor neither leak nor over-free, over any
\* sequence of calls that replace the certificate.
CertRefsAccounted ==
  \A i \in 1..t.n : t.rcx[i] = CertHolders(i) /\ t.rck[i] = KeyHolders(i)

\* Whatever tls_fingerprint returns is the digest of a certificate that
\* the SSL_CTX holds together with its private key, i.e. one the
\* handshake can present: a fingerprint published for the local
\* certificate (as DTLS-SRTP does in SDP) matches what the peer receives,
\* across any sequence of successful and failing setters.
FingerprintInUse ==
  alive =>
    \A fp \in FpTypes, sz \in FpSizes, d \in BOOLEAN :
      LET r == tls_fingerprint(t, fp, sz, d) IN
      r.err = "OK" =>
        \E ty \in KeyTypes : /\ t.slot[ty].x = r.of
                             /\ t.slot[ty].k # NoObj
                             /\ Matches(t, r.of, t.slot[ty].k)
====
