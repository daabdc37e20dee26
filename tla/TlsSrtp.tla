------------------------------ MODULE TlsSrtp ------------------------------
(***************************************************************************)
(* tls_srtp_keyinfo of tls.c: the SRTP suite and master keys of a DTLS     *)
(* connection.  The exported keying material is a sequence of 2*size       *)
(* bytes; each byte is named by its position, so the result shows which    *)
(* bytes of the material every key byte was copied from.                   *)
(***************************************************************************)
EXTENDS Naturals, Sequences

\* SSL_get_selected_srtp_profile: the negotiated profile, or none.
Profiles == {"AES128_CM_SHA1_80", "AES128_CM_SHA1_32", "AEAD_AES_128_GCM",
             "AEAD_AES_256_GCM", "NULL_SHA1_80", "NONE"}

\* The switch on sel->id: suite, key and salt sizes, ENOSYS for others.
SuiteOf(p) ==
  CASE p = "AES128_CM_SHA1_80" -> [suite |-> "AES_CM_128_HMAC_SHA1_80", key |-> 16, salt |-> 14]
    [] p = "AES128_CM_SHA1_32" -> [suite |-> "AES_CM_128_HMAC_SHA1_32", key |-> 16, salt |-> 14]
    [] p = "AEAD_AES_128_GCM"  -> [suite |-> "AES_128_GCM", key |-> 16, salt |-> 12]
    [] p = "AEAD_AES_256_GCM"  -> [suite |-> "AES_256_GCM", key |-> 32, salt |-> 12]
    [] OTHER                   -> [suite |-> "NONE", key |-> 0, salt |-> 0]

KeymatLen == 256   \* sizeof(keymat)

NoKey == <<>>

\* Mutant: the two salts are copied in the order server, client.
Split_salts_swapped(km, key, salt) ==
  [cli |-> SubSeq(km, 1, key) \o SubSeq(km, 2 * key + salt + 1, 2 * key + 2 * salt),
   srv |-> SubSeq(km, key + 1, 2 * key) \o SubSeq(km, 2 * key + 1, 2 * key + salt)]

\* The four memcpy calls walking p through the material: client key,
\* server key, client salt, server salt; each key is followed by its salt.
Split(km, key, salt) ==
  [cli |-> SubSeq(km, 1, key) \o SubSeq(km, 2 * key + 1, 2 * key + salt),
   srv |-> SubSeq(km, key + 1, 2 * key) \o SubSeq(km, 2 * key + salt + 1, 2 * key + 2 * salt)]

\* tls_srtp_keyinfo(tc, &suite, cli_key, cli_size, srv_key, srv_size), with
\* `exported` the outcome of SSL_export_keying_material.
tls_srtp_keyinfo(p, cli_size, srv_size, exported) ==
  LET s    == SuiteOf(p)
      size == s.key + s.salt
      km   == [i \in 1..(2 * size) |-> i]
  IN IF p = "NONE" THEN [err |-> "ENOENT", cli |-> NoKey, srv |-> NoKey]
     ELSE IF s.suite = "NONE" THEN [err |-> "ENOSYS", cli |-> NoKey, srv |-> NoKey]
     ELSE IF cli_size < size \/ srv_size < size \/ KeymatLen < 2 * size
          THEN [err |-> "EOVERFLOW", cli |-> NoKey, srv |-> NoKey]
     ELSE IF ~exported THEN [err |-> "ENOENT", cli |-> NoKey, srv |-> NoKey]
     ELSE LET keys == Split(km, s.key, s.salt)
          IN [err |-> "OK", cli |-> keys.cli, srv |-> keys.srv]

-----------------------------------------------------------------------------
(***************************************************************************)
(* Reference: RFC 5764, 4.2.  The material is client_write_SRTP_master_key *)
(* | server_write_SRTP_master_key | client_write_SRTP_master_salt |        *)
(* server_write_SRTP_master_salt, and an endpoint's SRTP master key is its *)
(* write key followed by its write salt.  Byte j of each result is given  *)
(* by where RFC 5764 puts it.                                              *)
(***************************************************************************)
RfcClient(key, salt) == [j \in 1..(key + salt) |-> IF j <= key THEN j ELSE key + j]
RfcServer(key, salt) == [j \in 1..(key + salt) |-> IF j <= key THEN key + j ELSE key + salt + j]

\* Buffer sizes the callers pass: one byte short of and exactly key plus
\* salt of each suite (28, 30, 44); each is larger than the smaller suites.
BufSizes == {27, 28, 29, 30, 43, 44}

\* The call for a connection whose handshake selected profile p: it returns
\* 0 exactly when p is supported, both buffers hold key and salt and the
\* export worked, and then each master key is the RFC 5764 write key
\* followed by the write salt of that side.
KeyinfoMatchesRfc(p) ==
  \A cs, ss \in BufSizes, ok \in BOOLEAN :
    LET r == tls_srtp_keyinfo(p, cs, ss, ok)
        s == SuiteOf(p)
    IN /\ (r.err = "OK") <=> /\ p \notin {"NONE", "NULL_SHA1_80"}
                             /\ cs >= s.key + s.salt /\ ss >= s.key + s.salt
                             /\ ok
       /\ r.err = "OK" => /\ r.cli = RfcClient(s.key, s.salt)
                          /\ r.srv = RfcServer(s.key, s.salt)
=============================================================================
