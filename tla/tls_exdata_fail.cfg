\* As tls_cache, with SSL_SESSION_set_ex_data failing as well.
CONSTANTS
  c1 = c1
  c2 = c2
  p1 = p1
  p2 = p2
  NoPeer = NoPeer
  Conns <- MCConns
  Peers <- MCPeers
  MaxSess = 3
  CacheOutcomes = {"ENODATA", "EINVAL", "ENOMEM", "OK"}
  ExDataOk = {TRUE, FALSE}
SPECIFICATION Spec
SYMMETRY TlsSym
CHECK_DEADLOCK FALSE
INVARIANT NoDanglingSession
