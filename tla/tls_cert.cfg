\* RSA and EC slots, three certificate/key pairs, every failure of the
\* setters, keys that belong to their certificates, with and without a
\* keyfile given to tls_alloc.  The process may end after the tls is freed.
CONSTANTS
  KeyTypes = {"RSA", "EC"}
  KeyMatch = {TRUE}
  Keyfile = {FALSE, TRUE}
  MaxObj = 3
SPECIFICATION Spec
CHECK_DEADLOCK FALSE
INVARIANT TypeOK
INVARIANT CertRefsAccounted
INVARIANT FingerprintInUse
