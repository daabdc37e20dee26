--------------------------- MODULE MCThreadLocal ---------------------------
EXTENDS ThreadLocal, TLC

CONSTANTS t1, t2, t3

MCThreads == {t1, t2, t3}

\* Threads are interchangeable: no action names a particular one.
ThreadSym == Permutations(MCThreads)
=============================================================================
