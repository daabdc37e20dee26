----------------------------- MODULE MCTlsCert -----------------------------
(* Instantiation of TlsCert for TLC: both key types, three objects.        *)
EXTENDS TlsCert, TLC
=============================================================================
