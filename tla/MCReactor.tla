------------------------------ MODULE MCReactor ------------------------------
(* Instantiation of Reactor for TLC: two fds, up to two foreign threads.   *)
EXTENDS Reactor, TLC

CONSTANTS f1, f2

MCFD        == {3, 4}
MCFD1       == {3}
MCForeign1  == {f1}
MCForeign2  == {f1, f2}
MCInterests == {{"READ"}}

\* Foreign threads are interchangeable (used by safety-only runs).
ForeignSym == Permutations({f1, f2})
\* State constraint for the run that isolates re_cancel: no record on the
\* deferred-delete list has been given an index again (no fd is
\* re-registered while its record waits for list_flush).
NoDeferredRelisten ==
  \A k \in DOMAIN re.del : re.fhs[re.del[k]].index = -1
=============================================================================
