------------------------------- MODULE Reactor -------------------------------
(***************************************************************************)
(* The per-thread polling loop of libre, src/main/main.c.                  *)
(*                                                                         *)
(* The variable re mirrors struct re: the fd hash (fhl) of fhs records,    *)
(* the deferred-delete list, nfds, max_fd, the polling method, the update, *)
(* polling and thread_enter flags, the fhs_reuse policy, the signal latch  *)
(* and the two backends the model covers: the pollfd array of poll() and   *)
(* the interest list of an epoll instance.  fhs records are allocations    *)
(* named by Rids, so a freed record that is still pointed to is visible.   *)
(*                                                                         *)
(* Threads: the owning thread runs re_main (opc is where it is in the      *)
(* loop) and, inside fd handlers, signal and timer handlers or outside     *)
(* re_main, calls fd_listen, fd_close and re_cancel.  Foreign threads      *)
(* enter the reactor with re_thread_enter / re_thread_leave and make the   *)
(* same calls inside the window; a foreign thread may also call fd_listen  *)
(* without entering, which re_thread_check admits while another thread is  *)
(* inside its window.  Every API call is one atomic step.                  *)
(***************************************************************************)
EXTENDS Integers, Sequences, FiniteSets, SequencesExt

CONSTANTS
  FD,          \* fd numbers handed to fd_listen (positive integers)
  Owner,       \* the thread that called re_thread_init for this re
  Foreign,     \* other threads of the process
  NoThread,    \* lock holder when the mutex is free
  Interests,   \* the non-empty flag masks fd_listen is called with
  BestMethod,  \* poll_method_best(): "POLL" or "EPOLL"
  MaxFds,      \* re->maxfds, set by fd_setsize(DEFAULT_MAXFDS)
  Reuse0,      \* initial fhs_reuse: TRUE except on WIN32
  TimerDelay,  \* tmr_next_timeout(): ms to the next timer, 0 when none
  IntWidth,    \* bits of the C int the wait's timeout is converted to
  SwitchTo,    \* methods the program passes to poll_method_set at run time
  ReuseValues, \* values the program passes to re_fhs_reuse_set
  SetsizeZero, \* whether the owner calls fd_setsize(0) (libre_close's step)
  MaxRecs,     \* bound: number of fhs allocations
  MaxEnters    \* bound: number of foreign re_thread_enter calls

ASSUME FD \subseteq Nat \ {0}
ASSUME BestMethod \in {"POLL", "EPOLL"}
ASSUME MaxFds \in Nat \ {0} /\ MaxRecs \in Nat /\ MaxEnters \in Nat
ASSUME Owner \notin Foreign /\ NoThread \notin Foreign \cup {Owner}
ASSUME TimerDelay \in Nat /\ IntWidth \in Nat \ {0}
ASSUME SwitchTo \subseteq {"POLL", "EPOLL"} /\ ReuseValues \subseteq BOOLEAN
ASSUME SetsizeZero \in BOOLEAN

Threads == {Owner} \cup Foreign

\* FD_READ, FD_WRITE, FD_EXCEPT
Flag == {"READ", "WRITE", "EXCEPT"}
ASSUME Interests \subseteq (SUBSET Flag) \ {{}}

NoRec == 0
Rids  == 1..MaxRecs
Slots == 0..(MaxFds - 1)

(***************************************************************************)
(* Flag translation at the backend boundary (set_poll_fds, set_epoll_fds   *)
(* and the switch of fd_poll).                                             *)
(***************************************************************************)
PollEvents(flags) ==
  {CASE f = "READ" -> "POLLIN" [] f = "WRITE" -> "POLLOUT"
                               [] f = "EXCEPT" -> "POLLERR" : f \in flags}
PollFlags(revents) ==
  {f \in Flag : \/ f = "READ"   /\ "POLLIN" \in revents
                \/ f = "WRITE"  /\ "POLLOUT" \in revents
                \/ f = "EXCEPT" /\ revents \cap {"POLLERR", "POLLHUP", "POLLNVAL"} # {}}
EpollEvents(flags) ==
  {CASE f = "READ" -> "EPOLLIN" [] f = "WRITE" -> "EPOLLOUT"
                                [] f = "EXCEPT" -> "EPOLLERR" : f \in flags}
EpollFlags(events) ==
  {f \in Flag : \/ f = "READ"   /\ "EPOLLIN" \in events
                \/ f = "WRITE"  /\ "EPOLLOUT" \in events
                \/ f = "EXCEPT" /\ events \cap {"EPOLLERR", "EPOLLHUP"} # {}}

(***************************************************************************)
(* The timeout argument of poll()/epoll_wait(): `to ? (int)to : -1`.  The  *)
(* uint64_t is converted to a signed int of IntWidth bits, keeping the     *)
(* low bits in two's complement, as the builds of libre do.  A negative    *)
(* argument makes both calls block until an fd is ready or a signal.       *)
(***************************************************************************)
IntCast(x) ==
  LET m == x % (2 ^ IntWidth) IN
  IF m >= 2 ^ (IntWidth - 1) THEN m - 2 ^ IntWidth ELSE m

WaitArg(to) == IF to # 0 THEN IntCast(to) ELSE -1

NoFhs  == [fd |-> 0, index |-> -1, flags |-> {}, fh |-> FALSE]
ZeroFd == [fd |-> 0, events |-> {}, revents |-> {}]   \* mem_zalloc'd pollfd
NoEp   == [ptr |-> NoRec, events |-> {}]

VARIABLES
  re,     \* struct re
  lock,   \* holder of *re->mutexp
  opc,    \* where the owning thread is in re_main
  loop,   \* locals of fd_poll: nfds snapshot, loop index i, count n, cur
  fpc,    \* per foreign thread: "out", "in" (entered) or "call"
  enters  \* foreign re_thread_enter calls so far

vars == <<re, lock, opc, loop, fpc, enters>>

\* mutex_alloc creates the mutex with mtx_init(m, mtx_plain): a plain,
\* non-recursive mutex, so mtx_lock blocks while any thread holds it, the
\* calling thread included.
mtx_lock(t) ==
  /\ lock = NoThread
  /\ lock' = t

\* re_lock and re_unlock: mtx_lock/mtx_unlock of re->mutexp (the internal
\* mutex; re_set_mutex is not modelled), whose errors are only logged.
re_lock(t) == mtx_lock(t)

re_unlock == lock' = NoThread

ReInit ==
  [fhl |-> [f \in FD |-> NoRec], setup |-> FALSE,
   alloc |-> {}, nalloc |-> 0, fhs |-> [r \in Rids |-> NoFhs],
   del |-> <<>>, nfds |-> 0, max_fd |-> 0, method |-> "NULL",
   update |-> FALSE, polling |-> FALSE, reuse |-> Reuse0, sig |-> 0,
   thread_enter |-> FALSE,
   fds |-> [i \in Slots |-> ZeroFd], ep |-> [f \in FD |-> NoEp],
   events |-> <<>>, maxfds |-> 0, fds_alloc |-> FALSE, epfd |-> FALSE]

-----------------------------------------------------------------------------
(***************************************************************************)
(* State transformers: each takes a struct re and returns the new one.     *)
(***************************************************************************)

\* poll_init: EINVAL while maxfds is 0; allocate the hash (hash_alloc) and
\* the backend state when not yet allocated: a zeroed pollfd array for
\* poll, an epoll instance (epfd >= 0) for epoll.
poll_init(s) ==
  IF s.maxfds = 0 THEN s
  ELSE [s EXCEPT !.setup = TRUE,
                 !.fds = IF s.method = "POLL" /\ ~s.fds_alloc
                         THEN [i \in Slots |-> ZeroFd] ELSE @,
                 !.fds_alloc = @ \/ s.method = "POLL",
                 !.epfd = @ \/ s.method = "EPOLL"]

\* poll_close: maxfds = 0, free the pollfd array (its memory keeps its
\* contents), close the epoll instance (the kernel drops its interest
\* list) and free the event buffer.  The hash is kept.
poll_close(s) ==
  [s EXCEPT !.maxfds = 0, !.fds_alloc = FALSE, !.epfd = FALSE,
            !.ep = [f \in FD |-> NoEp], !.events = <<>>]

\* fd_setsize: 0 frees the backends (poll_close); any other size is
\* taken only while maxfds is 0.
fd_setsize(s, maxfds) ==
  IF maxfds = 0 THEN poll_close(s)
  ELSE IF s.maxfds = 0 THEN [s EXCEPT !.maxfds = maxfds]
  ELSE s

\* Mutant: the index is given only when the flags are non-empty.
fhs_update_index_on_flags(s, fd, flags, fh) ==
  LET found == s.setup /\ s.fhl[fd] # NoRec
      r     == IF found THEN s.fhl[fd] ELSE s.nalloc + 1
      old   == IF found THEN s.fhs[r] ELSE NoFhs
      fresh == old.index = -1 /\ flags # {}
  IN [r |-> r,
      s |-> [s EXCEPT
               !.fhs[r] = [fd |-> fd, flags |-> flags, fh |-> fh,
                           index |-> IF fresh THEN s.nfds ELSE old.index],
               !.nfds   = IF fresh THEN @ + 1 ELSE @,
               !.alloc  = @ \cup {r},
               !.nalloc = IF found THEN @ ELSE @ + 1,
               !.fhl    = IF ~found /\ s.setup THEN [@ EXCEPT ![fd] = r] ELSE @]]

\* Mutant: every call takes a new index, the "index == -1" test dropped.
fhs_update_always_index(s, fd, flags, fh) ==
  LET found == s.setup /\ s.fhl[fd] # NoRec
      r     == IF found THEN s.fhl[fd] ELSE s.nalloc + 1
  IN [r |-> r,
      s |-> [s EXCEPT
               !.fhs[r] = [fd |-> fd, flags |-> flags, fh |-> fh, index |-> s.nfds],
               !.nfds   = @ + 1,
               !.alloc  = @ \cup {r},
               !.nalloc = IF found THEN @ ELSE @ + 1,
               !.fhl    = IF ~found /\ s.setup THEN [@ EXCEPT ![fd] = r] ELSE @]]

\* fhs_update: look the fd up in the hash, or allocate a record; give it
\* the next index when it has none; store flags and handler; hash a new
\* record (hash_append is a no-op while the hash is not allocated).
fhs_update(s, fd, flags, fh) ==
  LET found == s.setup /\ s.fhl[fd] # NoRec
      r     == IF found THEN s.fhl[fd] ELSE s.nalloc + 1
      old   == IF found THEN s.fhs[r] ELSE NoFhs
      fresh == old.index = -1
  IN [r |-> r,
      s |-> [s EXCEPT
               !.fhs[r] = [fd |-> fd, flags |-> flags, fh |-> fh,
                           index |-> IF fresh THEN s.nfds ELSE old.index],
               !.nfds   = IF fresh THEN @ + 1 ELSE @,
               !.alloc  = @ \cup {r},
               !.nalloc = IF found THEN @ ELSE @ + 1,
               !.fhl    = IF ~found /\ s.setup THEN [@ EXCEPT ![fd] = r] ELSE @]]

\* set_poll_fds: write the record's slot; EMFILE past maxfds.
set_poll_fds(s, r) ==
  LET h == s.fhs[r] IN
  IF ~s.fds_alloc THEN [s |-> s, err |-> "OK"]
  ELSE IF h.index >= MaxFds THEN [s |-> s, err |-> "EMFILE"]
  ELSE [s |-> [s EXCEPT !.fds[h.index] =
                 [@ EXCEPT !.fd = IF h.flags # {} THEN h.fd ELSE -1,
                           !.events = PollEvents(h.flags)]],
        err |-> "OK"]

\* Mutant: empty flags leave the fd in the epoll set (no EPOLL_CTL_DEL).
set_epoll_fds_no_del(s, r) ==
  LET h == s.fhs[r] IN
  IF ~s.epfd THEN [s |-> s, err |-> "EBADFD"]
  ELSE IF h.flags # {}
  THEN [s |-> [s EXCEPT !.ep[h.fd] = [ptr |-> r, events |-> EpollEvents(h.flags)]],
        err |-> "OK"]
  ELSE [s |-> s, err |-> "OK"]

\* set_epoll_fds: EPOLL_CTL_ADD, or EPOLL_CTL_MOD when the fd is already
\* in the set; EPOLL_CTL_DEL on empty flags, failing when it is absent.
set_epoll_fds(s, r) ==
  LET h == s.fhs[r] IN
  IF ~s.epfd THEN [s |-> s, err |-> "EBADFD"]
  ELSE IF h.flags # {}
  THEN [s |-> [s EXCEPT !.ep[h.fd] = [ptr |-> r, events |-> EpollEvents(h.flags)]],
        err |-> "OK"]
  ELSE IF s.ep[h.fd].ptr # NoRec
       THEN [s |-> [s EXCEPT !.ep[h.fd] = NoEp], err |-> "OK"]
       ELSE [s |-> s, err |-> "ENOENT"]

\* The switch on re->method in fd_listen.
apply_method(s, r) ==
  CASE s.method = "POLL"  -> set_poll_fds(s, r)
    [] s.method = "EPOLL" -> set_epoll_fds(s, r)
    [] OTHER              -> [s |-> s, err |-> "OK"]

\* rebuild_fd, applied by hash_apply to every hashed record in bucket
\* order (ascending fd for fds below the bucket count): a record without
\* a handler is skipped; the first backend error stops the walk.
rebuild_fd(acc, fd) ==
  LET r == acc.s.fhl[fd] IN
  IF acc.stop \/ ~acc.s.fhs[r].fh THEN acc
  ELSE LET a == apply_method(acc.s, r) IN [s |-> a.s, stop |-> a.err # "OK"]

HashedFds(s) == SetToSortSeq({f \in FD : s.fhl[f] # NoRec}, <)

\* poll_method_set: set the method and the update flag, poll_init, then
\* rebuild the new backend from the hash; EBADF when the rebuild stopped.
\* The old backend is left as it is.
poll_method_set(s, method) ==
  LET s1 == poll_init([fd_setsize(s, MaxFds) EXCEPT !.method = method, !.update = TRUE])
      b  == FoldLeft(rebuild_fd, [s |-> s1, stop |-> FALSE], HashedFds(s1))
  IN [s |-> b.s, err |-> IF b.stop THEN "EBADF" ELSE "OK"]

\* poll_setup: fd_setsize(DEFAULT_MAXFDS); poll_method_set(best) when no
\* method is set (the hash is still empty then); poll_init.
poll_setup(s) ==
  LET s0 == fd_setsize(s, MaxFds) IN
  IF s0.method = "NULL" THEN poll_init(poll_method_set(s0, BestMethod).s)
  ELSE poll_init(s0)

\* mem_deref of a record: its destructor fhs_destroy unlinks it from the
\* hash; the memory is released, its contents left as they were.
fhs_free(s, r) ==
  [s EXCEPT !.alloc = @ \ {r},
            !.fhl = IF s.fhl[s.fhs[r].fd] = r THEN [@ EXCEPT ![s.fhs[r].fd] = NoRec]
                    ELSE @]

\* The !flags tail of fd_listen: without reuse, defer the release while
\* polling, else free at once; then index = -1 and --nfds (written to the
\* record after the mem_deref, as the code does).
fhs_release(s, r) ==
  LET s1 == IF s.reuse THEN s
            ELSE IF s.polling THEN [s EXCEPT !.del = Append(@, r)]
            ELSE fhs_free(s, r)
  IN [s1 EXCEPT !.fhs[r].index = -1, !.nfds = @ - 1]

\* fd_listen up to its error handling: returns the state, the error and
\* whether it returned early (epoll with no instance: EBADFD right after
\* fhs_update, before max_fd, the release and the error-path fd_close).
fd_listen_core(s, fd, flags, fh) ==
  LET s1 == IF flags # {} \/ fh THEN poll_setup(s) ELSE s
      u  == fhs_update(s1, fd, flags, fh)
  IN IF u.s.method = "EPOLL" /\ ~u.s.epfd
     THEN [s |-> u.s, err |-> "EBADFD", early |-> TRUE]
     ELSE LET a  == apply_method(u.s, u.r)
              s3 == IF a.err = "OK"
                    THEN [a.s EXCEPT !.max_fd = IF fd + 1 > @ THEN fd + 1 ELSE @]
                    ELSE a.s
          IN [s |-> IF flags = {} THEN fhs_release(s3, u.r) ELSE s3,
              err |-> a.err, early |-> FALSE]

\* fd_listen: a failed registration with flags closes the fd (fd_close).
fd_listen(s, fd, flags, fh) ==
  LET c == fd_listen_core(s, fd, flags, fh) IN
  IF c.err # "OK" /\ ~c.early /\ flags # {} THEN fd_listen_core(c.s, fd, {}, FALSE).s
  ELSE c.s

\* list_flush of the deferred-delete list: mem_deref of every entry.
list_flush(s) ==
  LET flushed == FoldLeft(LAMBDA acc, r : fhs_free(acc, r), s, s.del)
  IN [flushed EXCEPT !.del = <<>>]

\* A call stays within the bounds: fhs allocations at most MaxRecs, the
\* deferred-delete list at most MaxRecs entries long.
CanAlloc(s, fd) ==
  /\ (s.setup /\ s.fhl[fd] # NoRec) \/ s.nalloc < MaxRecs
  /\ Len(s.del) < MaxRecs

-----------------------------------------------------------------------------
(***************************************************************************)
(* API calls, made by thread t.                                            *)
(***************************************************************************)
Listen(fd, flags) ==
  /\ CanAlloc(re, fd)
  /\ re' = fd_listen(re, fd, flags, TRUE)

Close(fd) ==           \* fd_close: fd_listen(fd, 0, NULL, NULL)
  /\ CanAlloc(re, fd)
  /\ re' = fd_listen(re, fd, {}, FALSE)

re_cancel == re' = [re EXCEPT !.polling = FALSE]

\* poll_method_set called by the program (its error is returned to it).
MethodSet(method) == re' = poll_method_set(re, method).s

\* re_fhs_reuse_set(re, reuse).
ReuseSet(reuse) == re' = [re EXCEPT !.reuse = reuse]

ApiCall ==
  \/ \E fd \in FD, flags \in Interests : Listen(fd, flags)
  \/ \E fd \in FD : Close(fd)
  \/ re_cancel
  \/ \E m \in SwitchTo : MethodSet(m)
  \/ \E b \in ReuseValues : ReuseSet(b)

\* fd_setsize(0): libre_close's first step, called on the owner thread.
FdSetsizeZero ==
  /\ SetsizeZero
  /\ re' = fd_setsize(re, 0)

\* The owner calls the API outside re_main and from its handlers.
OwnerCall ==
  /\ opc \in {"idle", "cb", "sig", "tmr"}
  /\ ApiCall \/ FdSetsizeZero
  /\ UNCHANGED <<lock, opc, loop, fpc, enters>>

-----------------------------------------------------------------------------
(***************************************************************************)
(* re_main and fd_poll on the owning thread.                               *)
(***************************************************************************)

\* re_main: poll_setup, then polling = true before taking the lock.
re_main ==
  /\ opc = "idle"
  /\ ~re.polling
  /\ re' = [poll_setup(re) EXCEPT !.polling = TRUE]
  /\ opc' = "lock"
  /\ UNCHANGED <<lock, loop, fpc, enters>>

MainLock ==
  /\ opc = "lock"
  /\ re_lock(Owner)
  /\ opc' = "top"
  /\ UNCHANGED <<re, loop, fpc, enters>>

\* poll() on a freed pollfd array with nfds > 0 fails (EFAULT), and so
\* does epoll_wait() on a closed instance (EBADF).
WaitFails(s) ==
  \/ s.method = "POLL" /\ ~s.fds_alloc /\ s.nfds > 0
  \/ s.method = "EPOLL" /\ ~s.epfd

\* Mutant: the loop never tests the polling flag.
PollOrExit_no_check(s) ==
  /\ re' = s
  /\ re_unlock
  /\ opc' = "wait"
  /\ loop' = [loop EXCEPT !.nfds = s.nfds, !.wm = s.method, !.wf = WaitFails(s)]

\* The loop body after the signal check: leave when polling was cleared,
\* otherwise enter fd_poll, snapshot nfds, and unlock around the wait.
PollOrExit(s) ==
  IF ~s.polling
  THEN /\ re' = s
       /\ re_unlock
       /\ opc' = "exit"
       /\ UNCHANGED loop
  ELSE /\ re' = s
       /\ re_unlock
       /\ opc' = "wait"
       /\ loop' = [loop EXCEPT !.nfds = s.nfds, !.wm = s.method, !.wf = WaitFails(s)]

\* Top of the loop: a latched signal runs the signal handler first.
LoopTop ==
  /\ opc = "top"
  /\ IF re.sig # 0
     THEN opc' = "sig" /\ UNCHANGED <<re, lock, loop>>
     ELSE PollOrExit(re)
  /\ UNCHANGED <<fpc, enters>>

\* After signalh returns: re->sig = 0, then the rest of the iteration.
SigDone ==
  /\ opc = "sig"
  /\ PollOrExit([re EXCEPT !.sig = 0])
  /\ UNCHANGED <<fpc, enters>>

\* re_main returns: polling = false after the unlock.
MainExit ==
  /\ opc = "exit"
  /\ re' = [re EXCEPT !.polling = FALSE]
  /\ opc' = "idle"
  /\ UNCHANGED <<lock, loop, fpc, enters>>

\* A signal caught by signal_handler (installed by re_main) sets the latch.
Signal ==
  /\ opc # "idle"
  /\ re.sig = 0
  /\ re' = [re EXCEPT !.sig = 2]
  /\ UNCHANGED <<lock, opc, loop, fpc, enters>>

\* poll()/epoll_wait() interrupted by that signal: EINTR, loop continues.
WaitIntr ==
  /\ opc = "wait" /\ ~loop.wf
  /\ re.sig # 0
  /\ re_lock(Owner)
  /\ opc' = "top"
  /\ UNCHANGED <<re, loop, fpc, enters>>

\* poll() returns: the kernel reports some of the slots 0..nfds-1 that
\* name an fd, on the events they ask for; n is their number.
PollLive == {i \in Slots : i < loop.nfds /\ re.fds[i].fd \in FD
                          /\ re.fds[i].events # {}}

PollReturnWith(ready) ==
  /\ opc = "wait" /\ loop.wm = "POLL" /\ ~loop.wf
  /\ re' = [re EXCEPT !.fds = [i \in Slots |->
              IF i \in ready THEN [re.fds[i] EXCEPT !.revents = re.fds[i].events]
              ELSE re.fds[i]]]
  /\ loop' = [loop EXCEPT !.i = 0, !.n = Cardinality(ready)]
  /\ re_lock(Owner)
  /\ opc' = "disp"
  /\ UNCHANGED <<fpc, enters>>

PollReturn == \E ready \in (SUBSET PollLive) \ {{}} : PollReturnWith(ready)

\* epoll_wait() writes the ready entries to the front of re->events; the
\* entries after them keep what an earlier call wrote.
Batch(order) ==
  [k \in 1..Max({Len(order), Len(re.events)}) |->
     IF k <= Len(order) THEN re.ep[order[k]] ELSE re.events[k]]

\* Entry k of re->events: zero (a NULL data.ptr) where nothing was written.
EventAt(k) == IF k <= Len(re.events) THEN re.events[k] ELSE NoEp

\* Mutant: the mutex is not re-taken after epoll_wait().
EpollReturnWith_no_lock(order) ==
  /\ opc = "wait" /\ loop.wm = "EPOLL" /\ ~loop.wf
  /\ re' = [re EXCEPT !.events = Batch(order)]
  /\ loop' = [loop EXCEPT !.i = 0, !.n = Len(order)]
  /\ lock' = Owner
  /\ opc' = "disp"
  /\ UNCHANGED <<fpc, enters>>

\* epoll_wait() returns: ready entries of the interest list, each with
\* the record pointer it was registered with, in any order.
EpollReturnWith(order) ==
  /\ opc = "wait" /\ loop.wm = "EPOLL" /\ ~loop.wf
  /\ re' = [re EXCEPT !.events = Batch(order)]
  /\ loop' = [loop EXCEPT !.i = 0, !.n = Len(order)]
  /\ re_lock(Owner)
  /\ opc' = "disp"
  /\ UNCHANGED <<fpc, enters>>

EpollReturn ==
  \E ready \in (SUBSET {f \in FD : re.ep[f].ptr # NoRec}) \ {{}} :
    /\ Cardinality(ready) <= MaxFds
    /\ \E order \in SetToSeqs(ready) : EpollReturnWith(order)

\* The wait times out with nothing ready (n == 0): only when its timeout
\* argument is not negative.
WaitTimeout ==
  /\ WaitArg(TimerDelay) >= 0
  /\ \/ PollReturnWith({})
     \/ EpollReturnWith(<<>>)

\* The wait failed: fd_poll returns the error after re_lock; re_main
\* breaks out of its loop (the error is not EINTR) and unlocks.
WaitFail ==
  /\ opc = "wait" /\ loop.wf
  /\ lock = NoThread
  /\ opc' = "exit"
  /\ UNCHANGED <<re, lock, loop, fpc, enters>>

\* After a handler (or in place of one): an update from poll_method_set
\* ends fd_poll at once, skipping list_flush; else --n and next entry.
AfterHandler(s) ==
  IF s.update
  THEN /\ re' = [s EXCEPT !.update = FALSE]
       /\ opc' = "tmr"
       /\ UNCHANGED loop
  ELSE /\ re' = s
       /\ opc' = "disp"
       /\ loop' = [loop EXCEPT !.n = @ - 1, !.i = @ + 1]

\* Mutant: the record is handed to its handler without checking that it
\* still has one and an index.
Handle_no_check(s, r) ==
  /\ re' = s
  /\ opc' = "cb"
  /\ loop' = [loop EXCEPT !.cur = r]

\* Hand a ready record to its handler when it still has one and an index.
Handle(s, r) ==
  IF s.fhs[r].fh /\ s.fhs[r].index >= 0
  THEN /\ re' = s
       /\ opc' = "cb"
       /\ loop' = [loop EXCEPT !.cur = r]
  ELSE AfterHandler(s)

\* An entry without flags, or a polled fd the hash does not hold, is
\* skipped (continue: next i, n unchanged).
Skip(s) ==
  /\ re' = s
  /\ loop' = [loop EXCEPT !.i = @ + 1]
  /\ UNCHANGED opc

\* One pass of the dispatch loop of fd_poll for poll(): read the slot,
\* clear its revents, look the fd up in the hash.
PollDispatch ==
  /\ opc = "disp" /\ re.method = "POLL"
  /\ loop.n > 0 /\ loop.i < loop.nfds
  /\ LET i     == loop.i
         fd    == re.fds[i].fd
         flags == PollFlags(re.fds[i].revents)
         s     == [re EXCEPT !.fds[i].revents = {}]
     IN IF flags = {} \/ fd \notin FD \/ s.fhl[fd] = NoRec THEN Skip(s)
        ELSE Handle(s, s.fhl[fd])
  /\ UNCHANGED <<lock, fpc, enters>>

\* One pass for epoll: the record comes from the event's data.ptr (a NULL
\* one faults at fhs->fd, and the thread goes no further).  The kernel
\* reports some registered event or ERR/HUP, so the flags are never empty.
EpollDispatch ==
  /\ opc = "disp" /\ re.method = "EPOLL"
  /\ loop.n > 0 /\ loop.i < loop.nfds
  /\ LET e == EventAt(loop.i + 1) IN
       /\ e.ptr # NoRec
       /\ Handle(re, e.ptr)
  /\ UNCHANGED <<lock, fpc, enters>>

\* The handler returns.
HandlerDone ==
  /\ opc = "cb"
  /\ AfterHandler(re)
  /\ UNCHANGED <<lock, fpc, enters>>

\* The loop is over: flush the deferred-delete list, then tmr_poll.
DispatchEnd ==
  /\ opc = "disp"
  /\ ~(loop.n > 0 /\ loop.i < loop.nfds)
  /\ re' = list_flush(re)
  /\ opc' = "tmr"
  /\ UNCHANGED <<lock, loop, fpc, enters>>

\* tmr_poll has run the expired timers' handlers: back to the loop top.
TmrDone ==
  /\ opc = "tmr"
  /\ opc' = "top"
  /\ UNCHANGED <<re, lock, loop, fpc, enters>>

-----------------------------------------------------------------------------
(***************************************************************************)
(* Foreign threads.                                                        *)
(***************************************************************************)

\* re_thread_enter: lock, disable fhs reuse, set thread_enter.
re_thread_enter(t) ==
  /\ fpc[t] = "out"
  /\ enters < MaxEnters
  /\ re_lock(t)
  /\ re' = [re EXCEPT !.reuse = FALSE, !.thread_enter = TRUE]
  /\ fpc' = [fpc EXCEPT ![t] = "in"]
  /\ enters' = enters + 1
  /\ UNCHANGED <<opc, loop>>

\* re_thread_leave: clear thread_enter, unlock.
re_thread_leave(t) ==
  /\ fpc[t] = "in"
  /\ re' = [re EXCEPT !.thread_enter = FALSE]
  /\ re_unlock
  /\ fpc' = [fpc EXCEPT ![t] = "out"]
  /\ UNCHANGED <<opc, loop, enters>>

ForeignCall(t) ==
  /\ fpc[t] = "in"
  /\ ApiCall
  /\ UNCHANGED <<lock, opc, loop, fpc, enters>>

\* fd_listen from a thread that has not entered: re_thread_check passes
\* because thread_enter is set (by some other thread).
UnenteredCallBegin(t) ==
  /\ fpc[t] = "out"
  /\ re.thread_enter
  /\ fpc' = [fpc EXCEPT ![t] = "call"]
  /\ UNCHANGED <<re, lock, opc, loop, enters>>

UnenteredCallEnd(t) ==
  /\ fpc[t] = "call"
  /\ \/ \E fd \in FD, flags \in Interests : Listen(fd, flags)
     \/ \E fd \in FD : Close(fd)
  /\ fpc' = [fpc EXCEPT ![t] = "out"]
  /\ UNCHANGED <<lock, opc, loop, enters>>

-----------------------------------------------------------------------------
Init ==
  /\ re = ReInit
  /\ lock = NoThread
  /\ opc = "idle"
  /\ loop = [nfds |-> 0, i |-> 0, n |-> 0, cur |-> NoRec, wm |-> "NULL",
              wf |-> FALSE]
  /\ fpc = [t \in Foreign |-> "out"]
  /\ enters = 0

OwnerStep ==
  \/ OwnerCall \/ re_main \/ MainLock \/ LoopTop \/ SigDone \/ MainExit
  \/ WaitIntr \/ WaitFail \/ PollReturn \/ EpollReturn \/ WaitTimeout \/ PollDispatch \/ EpollDispatch
  \/ HandlerDone \/ DispatchEnd \/ TmrDone

ForeignStep(t) ==
  \/ re_thread_enter(t) \/ re_thread_leave(t) \/ ForeignCall(t)
  \/ UnenteredCallBegin(t) \/ UnenteredCallEnd(t)

Next ==
  \/ OwnerStep
  \/ Signal
  \/ \E t \in Foreign : ForeignStep(t)

\* The owner's loop steps are weakly fair, and a wait with a timer pending
\* times out; so is leaving a foreign window.  Readiness, handlers' calls,
\* signals, entering and calling re_main are not required to happen.
Fairness ==
  /\ WF_vars(MainLock \/ LoopTop \/ SigDone \/ MainExit)
  /\ WF_vars(WaitIntr \/ WaitTimeout \/ WaitFail)
  /\ WF_vars(PollDispatch \/ EpollDispatch \/ HandlerDone \/ DispatchEnd \/ TmrDone)
  /\ \A t \in Foreign : WF_vars(re_thread_leave(t) \/ UnenteredCallEnd(t))

Spec == Init /\ [][Next]_vars /\ Fairness

-----------------------------------------------------------------------------
(***************************************************************************)
(* Properties.                                                             *)
(***************************************************************************)

TypeOK ==
  /\ re.fhl \in [FD -> Rids \cup {NoRec}]
  /\ re.alloc \subseteq Rids /\ re.nalloc \in 0..MaxRecs
  /\ re.fhs \in [Rids -> [fd : FD \cup {0}, index : -1..MaxRecs,
                           flags : SUBSET Flag, fh : BOOLEAN]]
  /\ re.del \in Seq(Rids)
  /\ re.nfds \in 0..MaxRecs
  /\ re.method \in {"NULL", "POLL", "EPOLL"}
  /\ re.maxfds \in {0, MaxFds} /\ re.fds_alloc \in BOOLEAN /\ re.epfd \in BOOLEAN
  /\ re.fds \in [Slots -> [fd : FD \cup {-1, 0}, events : SUBSET PollEvents(Flag),
                            revents : SUBSET PollEvents(Flag)]]
  /\ lock \in Threads \cup {NoThread}
  /\ opc \in {"idle", "lock", "top", "sig", "wait", "disp", "cb", "tmr", "exit"}
  /\ fpc \in [Foreign -> {"out", "in", "call"}]

\* The records the hash holds for an fd with a non-empty interest.
Active == {f \in FD : re.fhl[f] # NoRec /\ re.fhs[re.fhl[f]].flags # {}}

\* fd_listen / fd_close / list_flush keep the registry consistent: every
\* hashed record is allocated and carries its fd, its index is -1 exactly
\* when its flags are empty, and nfds counts the fds with a non-empty
\* interest (the invariant re_nfds() reports).
RegistryConsistent ==
  /\ \A f \in FD : re.fhl[f] # NoRec =>
        LET h == re.fhs[re.fhl[f]] IN
        /\ re.fhl[f] \in re.alloc
        /\ h.fd = f
        /\ (h.index = -1) <=> (h.flags = {})
  /\ re.nfds = Cardinality(Active)

\* set_epoll_fds keeps the epoll interest list equal to the registry: an
\* fd is in the set exactly when its record has a non-empty interest, with
\* that record as data.ptr and the translated events.
EpollMirrorsRegistry ==
  re.method = "EPOLL" =>
    \A f \in FD :
      IF f \in Active
      THEN re.ep[f] = [ptr |-> re.fhl[f], events |-> EpollEvents(re.fhs[re.fhl[f]].flags)]
      ELSE re.ep[f].ptr = NoRec

\* set_poll_fds, rebuild_fd and the nfds passed to poll(): every fd with
\* a non-empty interest has a slot of the maxfds-long array, below nfds,
\* that names it with its events, so poll() watches it, including after
\* poll_method_set switched to poll at run time.
PollCoversRegistry ==
  re.method = "POLL" =>
    \A f \in Active :
      LET h == re.fhs[re.fhl[f]] IN
      /\ h.index < re.nfds
      /\ h.index \in Slots
      /\ re.fds[h.index].fd = f
      /\ re.fds[h.index].events = PollEvents(h.flags)

\* fd_poll with epoll dereferences events[i].data.ptr: the record it
\* points to is still allocated when the loop reaches it, whatever the
\* earlier handlers of the batch did (fd_close, fd_listen, re_cancel).
NoUseAfterFree ==
  (opc = "disp" /\ re.method = "EPOLL" /\ loop.n > 0 /\ loop.i < loop.nfds)
    => EventAt(loop.i + 1).ptr \in re.alloc

\* The deferred-delete list never holds a record twice (list_append of an
\* element that is already linked corrupts the list).
DeleteListUnique ==
  \A j, k \in DOMAIN re.del : j # k => re.del[j] # re.del[k]

\* No step of fd_listen writes to an fhs record it has already freed.
FreedRecordsUntouched ==
  [][\A r \in Rids \ re'.alloc : re'.fhs[r] = re.fhs[r]]_re

\* While a foreign thread is inside re_thread_enter/leave it holds the
\* mutex and the owner is not in a locked part of re_main (it is idle,
\* waiting for the lock, blocked in the wait, or exiting).
ForeignWindowExclusive ==
  \A t \in Foreign : fpc[t] = "in" =>
    /\ lock = t
    /\ opc \in {"idle", "lock", "wait", "exit"}

\* A thread whose fd_listen passed re_thread_check holds the mutex.
CheckedCallerHoldsLock ==
  \A t \in Foreign : fpc[t] = "call" => lock = t

\* re_cancel while re_main runs makes re_main return (the wait wakes at
\* the next timer at the latest).
CancelReturns ==
  (opc # "idle" /\ ~re.polling) ~> (opc = "idle")

\* Refinement mapping to FdRegistry: an fd's registered flags are those
\* of the record the hash holds for it; the running handler's fd is the
\* fd of the record fd_poll handed to it.
RegOf == [f \in FD |-> IF re.fhl[f] # NoRec THEN re.fhs[re.fhl[f]].flags ELSE {}]
CurFd == IF opc = "cb" THEN re.fhs[loop.cur].fd ELSE 0

Registry == INSTANCE FdRegistry WITH reg <- RegOf, cur <- CurFd, NoFd <- 0

\* Reactor implements FdRegistry: every fd_listen/fd_close changes the
\* flags of one fd only, to an interest or to none, and fd_poll runs a
\* handler only for an fd registered at that moment, whatever earlier
\* handlers of the same batch closed or re-listened (the fh/index check
\* of fd_poll's dispatch, fd_close clearing fh and the index).
FdRegistryRefined == Registry!Spec

=============================================================================
