------------------------- MODULE MCTlsSessionCache -------------------------
(* Instantiation of TlsSessionCache for TLC: two connections, two peers.   *)
EXTENDS TlsSessionCache, TlsSrtp, TLC

CONSTANTS c1, c2, p1, p2

MCConns == {c1, c2}
MCPeers == {p1, p2}

\* Connections and peers are interchangeable (used by safety-only runs).
TlsSym == Permutations(MCConns) \cup Permutations(MCPeers)

\* SSL_get_selected_srtp_profile of a connection: none before the handshake
\* has finished, afterwards whichever profile the handshake selected.
SelectedProfiles(c) == IF conn[c].st = "up" THEN Profiles ELSE {"NONE"}

\* tls_srtp_keyinfo, called on any connection at any time, fails with
\* ENOENT until the handshake is done, and afterwards succeeds exactly for
\* a supported profile with large enough buffers and a working export,
\* returning the client and server master keys in the RFC 5764 layout (the
\* order of the four memcpy calls and the advances of p in tls.c).
SrtpKeyinfoMatchesRfc5764 ==
  \A c \in MCConns : \A p \in SelectedProfiles(c) : KeyinfoMatchesRfc(p)
=============================================================================
