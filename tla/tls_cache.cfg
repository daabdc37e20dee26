\* Two connections to two peers, every failure of the cache update, and
\* SSL_SESSION_set_ex_data succeeding.
CONSTANTS
  c1 = c1
  c2 = c2
  p1 = p1
  p2 = p2
  NoPeer = NoPeer
  Conns <- MCConns
  Peers <- MCPeers
  MaxSess = 3
  CacheOutcomes = {"ENODATA", "EINVAL", "ENOMEM", "OK"}
  ExDataOk = {TRUE}
SPECIFICATION Spec
SYMMETRY TlsSym
CHECK_DEADLOCK FALSE
INVARIANT TypeOK
 
INVARIANT SrtpKeyinfoMatchesRfc5764
