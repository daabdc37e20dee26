----------------------------- MODULE FdRegistry -----------------------------
(***************************************************************************)
(* What the fd registry of a reactor promises its callers, without the     *)
(* hash, the records, the slots or the backends: each fd is registered     *)
(* with a set of event flags (empty when it is not registered), a call of  *)
(* fd_listen or fd_close changes the flags of one fd, and the loop calls   *)
(* the handler of an fd only while that fd is registered.  In particular   *)
(* once fd_close has returned, no handler runs for that fd until it is     *)
(* listened to again.                                                      *)
(***************************************************************************)
CONSTANTS
  FD,         \* file descriptors
  Interests,  \* the non-empty flag sets callers register with
  NoFd        \* no handler is running

VARIABLES
  reg,  \* reg[fd]: the flags fd is registered with, {} when it is not
  cur   \* the fd whose handler is running, or NoFd

vars == <<reg, cur>>

Init ==
  /\ reg = [f \in FD |-> {}]
  /\ cur = NoFd

\* fd_listen(fd, flags) takes effect, or fd_close(fd) (or a failed
\* fd_listen that closed the fd); handlers may call it.
Set(fd, flags) ==
  /\ reg' = [reg EXCEPT ![fd] = flags]
  /\ UNCHANGED cur

\* The loop hands a ready event of fd to its handler.
Dispatch(fd) ==
  /\ cur = NoFd
  /\ reg[fd] # {}
  /\ cur' = fd
  /\ UNCHANGED reg

\* The handler returns.
Return ==
  /\ cur # NoFd
  /\ cur' = NoFd
  /\ UNCHANGED reg

Next ==
  \/ \E fd \in FD, flags \in Interests \cup {{}} : Set(fd, flags)
  \/ \E fd \in FD : Dispatch(fd)
  \/ Return

Spec == Init /\ [][Next]_vars
=============================================================================
