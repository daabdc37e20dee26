-------------------------- MODULE TlsSessionCache --------------------------
(***************************************************************************)
(* The client TLS session cache of src/tls/openssl/tls.c and the           *)
(* reference counts of the SSL_SESSION objects it shares with OpenSSL.     *)
(*                                                                         *)
(* libre keeps reuse.ht_sessions, a hash of struct session_entry {peer,    *)
(* sess}; every entry owns one reference to its session and drops it in    *)
(* session_destructor.  OpenSSL owns one reference per SSL object using a  *)
(* session and one for its internal cache.  The ownership handshake of the *)
(* callbacks is OpenSSL's (1.1.1 and later): before calling new_cb it      *)
(* takes a reference for the callee, and frees it again when new_cb        *)
(* returns 0; it calls remove_cb before dropping the cache's reference.    *)
(* Those library steps are the environment actions NewSession, Resume,     *)
(* Expire, Connect and Close; the rest is translated from tls.c.           *)
(*                                                                         *)
(* Sessions are allocation ids 1..MaxSess; rc[s] is the reference count,   *)
(* and a session whose count reached 0 is freed.                           *)
(***************************************************************************)
EXTENDS Naturals, FiniteSets, FiniteSetsExt

CONSTANTS
  Conns,          \* struct tls_conn objects of one struct tls
  Peers,          \* remote addresses a connection may have
  NoPeer,         \* peer of a connection that is not open
  MaxSess,        \* bound: SSL_SESSION objects created
  CacheOutcomes,  \* outcomes of tls_session_update_cache's fallible calls
  ExDataOk        \* results SSL_SESSION_set_ex_data may return

ASSUME MaxSess \in Nat /\ NoPeer \notin Peers
ASSUME CacheOutcomes \subseteq {"ENODATA", "EINVAL", "ENOMEM", "OK"}
ASSUME ExDataOk \subseteq BOOLEAN /\ ExDataOk # {}

NoSess  == 0
SessIds == 1..MaxSess
NoEntry == [peer |-> NoPeer, sess |-> NoSess]

VARIABLES
  k,        \* rc, ex_data and internal cache of the sessions; the entries
  nsess,    \* sessions created so far
  enabled,  \* tls->reuse.enabled
  mode,     \* SSL_CTX session cache mode is SSL_SESS_CACHE_BOTH (else OFF)
  cbs,      \* session_new_cb and session_remove_cb are installed
  conn,     \* per connection: st ("none", "conn", "up"), peer, sess
  alive     \* the struct tls is not yet freed

vars == <<k, nsess, enabled, mode, cbs, conn, alive>>

-----------------------------------------------------------------------------
(***************************************************************************)
(* State transformers on k.                                                *)
(***************************************************************************)
SSL_SESSION_free(kk, s)   == [kk EXCEPT !.rc[s] = @ - 1]
SSL_SESSION_up_ref(kk, s) == [kk EXCEPT !.rc[s] = @ + 1]

\* session_destructor: hash_unlink, then SSL_SESSION_free(e->sess).
session_destructor(kk, e) ==
  SSL_SESSION_free([kk EXCEPT !.entries = @ \ {e}], e.sess)

\* hash_lookup with session_cmp_handler: the entry for this peer, if any.
Lookup(kk, p) ==
  LET m == {e \in kk.entries : e.peer = p} IN
  IF m = {} THEN NoEntry ELSE CHOOSE e \in m : TRUE

\* Mutant: the error of tcp_conn_peer_get is ignored; the entry gets the
\* unset address.
tls_session_update_cache_no_peer_check(kk, p, s, o) ==
  LET a   == IF o = "ENODATA" THEN NoPeer ELSE p
      old == Lookup(kk, a)
      k1  == IF old # NoEntry THEN session_destructor(kk, old) ELSE kk
  IN IF o \in {"OK", "ENODATA"}
     THEN [k |-> [k1 EXCEPT !.entries = @ \cup {[peer |-> a, sess |-> s]}],
           err |-> "OK"]
     ELSE [k |-> k1, err |-> o]

\* tls_session_update_cache, for outcome o of its fallible calls:
\* "ENODATA" tcp_conn_peer_get fails; "EINVAL" the session is not
\* resumable; "ENOMEM" mem_zalloc fails; "OK" all succeed.  The old entry
\* of the peer is mem_deref'd before the resumable check.
tls_session_update_cache(kk, p, s, o) ==
  IF o = "ENODATA" THEN [k |-> kk, err |-> o]
  ELSE LET old == Lookup(kk, p)
           k1  == IF old # NoEntry THEN session_destructor(kk, old) ELSE kk
       IN IF o = "OK"
          THEN [k |-> [k1 EXCEPT !.entries = @ \cup {[peer |-> p, sess |-> s]}],
                err |-> "OK"]
          ELSE [k |-> k1, err |-> o]

\* session_new_cb: 0 when the cache update fails or when
\* SSL_SESSION_set_ex_data fails (x = FALSE), after the entry was made;
\* 1 when the entry keeps the reference OpenSSL took for the callback.
session_new_cb(kk, p, s, o, x) ==
  LET u == tls_session_update_cache(kk, p, s, o) IN
  IF u.err # "OK" \/ ~x THEN [k |-> u.k, ret |-> 0]
  ELSE [k |-> [u.k EXCEPT !.exd[s] = TRUE], ret |-> 1]

\* The entries remove_handler mem_derefs: those holding the session.
remove_handler(kk, s) == {e \in kk.entries : e.sess = s}

\* session_remove_cb: the tls object from the session's ex_data (none:
\* return), then hash_apply(remove_handler) over the cache.
session_remove_cb(kk, s) ==
  IF ~kk.exd[s] THEN kk
  ELSE LET doomed == remove_handler(kk, s) IN
       [kk EXCEPT !.entries = @ \ doomed, !.rc[s] = @ - Cardinality(doomed)]

\* OpenSSL drops a session from its internal cache: remove_cb when
\* installed, then the cache's reference.
CacheRemove(kk, s) ==
  LET k1 == IF cbs THEN session_remove_cb(kk, s) ELSE kk IN
  SSL_SESSION_free([k1 EXCEPT !.icache = @ \ {s}], s)

\* The reference a connection holds is dropped.
DropConnSess(kk, c) ==
  IF conn[c].sess # NoSess THEN SSL_SESSION_free(kk, conn[c].sess) ELSE kk

-----------------------------------------------------------------------------
(***************************************************************************)
(* OpenSSL and the transport (environment).                                *)
(***************************************************************************)

\* A TCP connection is set up and a tls_conn made for it.
Connect(c, p) ==
  /\ alive /\ conn[c].st = "none"
  /\ conn' = [conn EXCEPT ![c] = [st |-> "conn", peer |-> p, sess |-> NoSess]]
  /\ UNCHANGED <<k, nsess, enabled, mode, cbs, alive>>

\* A full handshake (or a TLS 1.3 ticket) gives the connection a new
\* session; ssl_update_cache adds it to the internal cache and calls
\* new_cb with a reference taken for it, freed again if new_cb returns 0.
NewSession(c) ==
  /\ alive /\ conn[c].st \in {"conn", "up"} /\ nsess < MaxSess
  /\ LET s  == nsess + 1
         k1 == [DropConnSess(k, c) EXCEPT !.rc[s] = 1]
         k2 == IF mode THEN [k1 EXCEPT !.icache = @ \cup {s}, !.rc[s] = @ + 1]
               ELSE k1
     IN \E o \in CacheOutcomes, x \in ExDataOk :
          LET cb == session_new_cb(SSL_SESSION_up_ref(k2, s), conn[c].peer, s, o, x)
          IN k' = IF ~(mode /\ cbs) THEN k2
                  ELSE IF cb.ret = 0 THEN SSL_SESSION_free(cb.k, s) ELSE cb.k
  /\ nsess' = nsess + 1
  /\ conn' = [conn EXCEPT ![c].st = "up", ![c].sess = nsess + 1]
  /\ UNCHANGED <<enabled, mode, cbs, alive>>

\* An abbreviated handshake on the session set by tls_reuse_session.
Resume(c) ==
  /\ alive /\ conn[c].st = "conn" /\ conn[c].sess # NoSess
  /\ conn' = [conn EXCEPT ![c].st = "up"]
  /\ UNCHANGED <<k, nsess, enabled, mode, cbs, alive>>

\* The session times out of the internal cache (SSL_CTX_flush_sessions,
\* or eviction when the cache is full).
Expire(s) ==
  /\ alive /\ s \in k.icache
  /\ k' = CacheRemove(k, s)
  /\ UNCHANGED <<nsess, enabled, mode, cbs, conn, alive>>

\* The connection is closed: SSL_free drops its session.
Close(c) ==
  /\ alive /\ conn[c].st # "none"
  /\ k' = DropConnSess(k, c)
  /\ conn' = [conn EXCEPT ![c] = [st |-> "none", peer |-> NoPeer, sess |-> NoSess]]
  /\ UNCHANGED <<nsess, enabled, mode, cbs, alive>>

-----------------------------------------------------------------------------
(***************************************************************************)
(* The tls.c API.                                                          *)
(***************************************************************************)

\* tls_set_session_reuse: cache mode BOTH or OFF; the callbacks are
\* installed when enabling, and never removed.
tls_set_session_reuse(b) ==
  /\ alive
  /\ enabled' = b
  /\ mode' = b
  /\ cbs' = (cbs \/ b)
  /\ UNCHANGED <<k, nsess, conn, alive>>

\* tls_reuse_session, before the handshake: the peer's entry, if any, is
\* set on the SSL (SSL_set_session takes a reference and drops the one of
\* the session it replaces).  A failing tcp_conn_peer_get returns 0.
tls_reuse_session(c) ==
  /\ alive /\ conn[c].st = "conn"
  /\ \E o \in CacheOutcomes \cap {"ENODATA", "OK"} :
       LET e == Lookup(k, conn[c].peer) IN
       IF o = "ENODATA" \/ e = NoEntry THEN UNCHANGED <<k, conn>>
       ELSE /\ k' = SSL_SESSION_up_ref(DropConnSess(k, c), e.sess)
            /\ conn' = [conn EXCEPT ![c].sess = e.sess]
  /\ UNCHANGED <<nsess, enabled, mode, cbs, alive>>

tls_update_sessions(c) ==
  /\ alive /\ conn[c].st = "up" /\ conn[c].sess # NoSess
  /\ \E o \in CacheOutcomes :
       LET s == conn[c].sess
           u == tls_session_update_cache(SSL_SESSION_up_ref(k, s), conn[c].peer, s, o)
       IN k' = IF u.err # "OK" THEN SSL_SESSION_free(u.k, s) ELSE u.k
  /\ UNCHANGED <<nsess, enabled, mode, cbs, conn, alive>>

\* The tls destructor, once every connection is closed: SSL_CTX_free
\* flushes the internal cache (remove_cb for each session), then
\* hash_flush mem_derefs the remaining entries.
destructor ==
  /\ alive /\ \A c \in Conns : conn[c].st = "none"
  /\ LET k1 == FoldSet(LAMBDA s, acc : CacheRemove(acc, s), k, k.icache)
     IN k' = FoldSet(LAMBDA e, acc : session_destructor(acc, e), k1, k1.entries)
  /\ alive' = FALSE
  /\ UNCHANGED <<nsess, enabled, mode, cbs, conn>>

-----------------------------------------------------------------------------
Init ==
  /\ k = [rc |-> [s \in SessIds |-> 0], exd |-> [s \in SessIds |-> FALSE],
          icache |-> {}, entries |-> {}]
  /\ nsess = 0
  /\ enabled = FALSE /\ mode = FALSE /\ cbs = FALSE
  /\ conn = [c \in Conns |-> [st |-> "none", peer |-> NoPeer, sess |-> NoSess]]
  /\ alive = TRUE

Next ==
  \/ \E c \in Conns :
       \/ \E p \in Peers : Connect(c, p)
       \/ NewSession(c) \/ Resume(c) \/ Close(c)
       \/ tls_reuse_session(c) \/ tls_update_sessions(c)
  \/ \E s \in SessIds : Expire(s)
  \/ \E b \in BOOLEAN : tls_set_session_reuse(b)
  \/ destructor

Spec == Init /\ [][Next]_vars

-----------------------------------------------------------------------------
TypeOK ==
  /\ k.rc \in [SessIds -> Nat] /\ k.exd \in [SessIds -> BOOLEAN]
  /\ k.icache \subseteq SessIds
  /\ k.entries \subseteq [peer : Peers, sess : SessIds]
  /\ nsess \in 0..MaxSess
  /\ enabled \in BOOLEAN /\ mode \in BOOLEAN /\ cbs \in BOOLEAN
  /\ conn \in [Conns -> [st : {"none", "conn", "up"}, peer : Peers \cup {NoPeer},
                         sess : SessIds \cup {NoSess}]]
  /\ alive \in BOOLEAN

\* The holders of a reference to session s.
Owners(s) ==
  Cardinality(remove_handler(k, s))
  + (IF s \in k.icache THEN 1 ELSE 0)
  + Cardinality({c \in Conns : conn[c].sess = s})

NoDanglingSession ==
  /\ \A e \in k.entries : k.rc[e.sess] > 0
  /\ \A c \in Conns : conn[c].sess # NoSess => k.rc[conn[c].sess] > 0
=============================================================================
