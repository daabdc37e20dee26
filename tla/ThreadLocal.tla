---------------------------- MODULE ThreadLocal ----------------------------
(***************************************************************************)
(* The thread-affinity layer of main.c: the thread-specific slot `key`     *)
(* (one value per thread, tss_get/tss_set), the process-wide fallback      *)
(* re_global, and re_thread_init, re_thread_close, re_thread_attach,       *)
(* re_thread_detach, re_get and the tss destructor thread_destructor that  *)
(* runs when a thread exits.  A struct re is an allocation id; `alive` is  *)
(* the set not yet freed by mem_deref.  re_thread_init reads and writes    *)
(* re_global without a lock, so its check and its store are two steps.    *)
(***************************************************************************)
EXTENDS Naturals, FiniteSets

CONSTANTS
  Threads,      \* threads of the process
  MaxRe,        \* bound on re_alloc calls (a later one fails with ENOMEM)
  AllowAttach,  \* whether threads use re_thread_attach at all
  ExitAfterClose, \* threads exit only after re_thread_close or detach
  TssSetMayFail   \* whether tss_set may return an error

ASSUME MaxRe \in Nat /\ AllowAttach \in BOOLEAN /\ ExitAfterClose \in BOOLEAN
ASSUME TssSetMayFail \in BOOLEAN

NoRe == 0
ReIds == 1..MaxRe

VARIABLES
  tss,      \* tss_get(key) per thread
  global,   \* re_global
  alive,    \* struct re allocations not yet freed
  nalloc,   \* re_alloc calls that succeeded
  pc,       \* per thread: "run", "publish" (inside re_thread_init), "exited"
  pending   \* per thread: the re allocated by an unfinished re_thread_init

vars == <<tss, global, alive, nalloc, pc, pending>>

\* re_get: the thread's own re, else the global fallback.
ReGet(t) == IF tss[t] # NoRe THEN tss[t] ELSE global

\* Reactors some thread holds in its slot.
Held == {tss[u] : u \in Threads} \ {NoRe}

\* re_alloc succeeds while the allocation bound allows.
CanAllocRe == nalloc < MaxRe

\* Outcomes of tss_set in re_thread_init: on failure the slot stays NULL
\* and re_thread_init returns ENOMEM, keeping the allocated re.
TssSetOk == IF TssSetMayFail THEN BOOLEAN ELSE {TRUE}

\* tss_set(key, re) for thread t, succeeding or not.
InitTssSet(t, r, ok) == tss' = IF ok THEN [tss EXCEPT ![t] = r] ELSE tss

-----------------------------------------------------------------------------
\* Mutant: re_alloc's ENOMEM is ignored.
InitCheck_ignore_enomem(t) ==
  /\ pc[t] = "run"
  /\ tss[t] = NoRe
  /\ LET r == nalloc + 1 IN
       /\ alive' = alive \cup {r}
       /\ nalloc' = r
       /\ IF global = NoRe
            THEN /\ pc' = [pc EXCEPT ![t] = "publish"]
                 /\ pending' = [pending EXCEPT ![t] = r]
                 /\ tss' = tss
            ELSE /\ \E ok \in TssSetOk : InitTssSet(t, r, ok)
                 /\ UNCHANGED <<pc, pending>>
  /\ UNCHANGED global

\* re_thread_init up to `if (!re_global)`: EALREADY if the slot is set;
\* re_alloc (ENOMEM at the bound); then the unlocked read of re_global.
InitCheck(t) ==
  /\ pc[t] = "run"
  /\ tss[t] = NoRe
  /\ CanAllocRe
  /\ LET r == nalloc + 1 IN
       /\ alive' = alive \cup {r}
       /\ nalloc' = r
       /\ IF global = NoRe
            THEN /\ pc' = [pc EXCEPT ![t] = "publish"]
                 /\ pending' = [pending EXCEPT ![t] = r]
                 /\ tss' = tss
            ELSE /\ \E ok \in TssSetOk : InitTssSet(t, r, ok)
                 /\ UNCHANGED <<pc, pending>>
  /\ UNCHANGED global

\* re_global = re, then tss_set(key, re).
InitPublish(t) ==
  /\ pc[t] = "publish"
  /\ global' = pending[t]
  /\ \E ok \in TssSetOk : InitTssSet(t, pending[t], ok)
  /\ pc' = [pc EXCEPT ![t] = "run"]
  /\ pending' = [pending EXCEPT ![t] = NoRe]
  /\ UNCHANGED <<alive, nalloc>>

\* Mutant: the fallback is not cleared when its reactor is closed.
re_thread_close_keep_global(t) ==
  /\ pc[t] = "run"
  /\ tss[t] # NoRe
  /\ alive' = alive \ {tss[t]}
  /\ tss' = [tss EXCEPT ![t] = NoRe]
  /\ UNCHANGED <<global, nalloc, pc, pending>>

\* re_thread_close: clear re_global if it is this re, mem_deref it (the
\* only reference: re_thread_attach takes none), clear the slot.
re_thread_close(t) ==
  /\ pc[t] = "run"
  /\ tss[t] # NoRe
  /\ global' = IF tss[t] = global THEN NoRe ELSE global
  /\ alive' = alive \ {tss[t]}
  /\ tss' = [tss EXCEPT ![t] = NoRe]
  /\ UNCHANGED <<nalloc, pc, pending>>

\* re_thread_attach(context): EALREADY or a no-op when the slot is set,
\* else tss_set(key, context).  The context is a reactor another thread
\* holds in its slot (the only way a caller can have obtained one).
re_thread_attach(t, context) ==
  /\ AllowAttach
  /\ pc[t] = "run"
  /\ tss[t] = NoRe
  /\ tss' = [tss EXCEPT ![t] = context]
  /\ UNCHANGED <<global, alive, nalloc, pc, pending>>

\* re_thread_detach: tss_set(key, NULL).
re_thread_detach(t) ==
  /\ AllowAttach
  /\ pc[t] = "run"
  /\ tss[t] # NoRe
  /\ tss' = [tss EXCEPT ![t] = NoRe]
  /\ UNCHANGED <<global, alive, nalloc, pc, pending>>

\* The thread exits; thread_destructor mem_derefs a non-NULL slot value
\* and leaves re_global alone.
thread_destructor(t) ==
  /\ pc[t] = "run"
  /\ ExitAfterClose => tss[t] = NoRe
  /\ alive' = IF tss[t] # NoRe THEN alive \ {tss[t]} ELSE alive
  /\ pc' = [pc EXCEPT ![t] = "exited"]
  /\ UNCHANGED <<tss, global, nalloc, pending>>

Init ==
  /\ tss = [t \in Threads |-> NoRe]
  /\ global = NoRe
  /\ alive = {}
  /\ nalloc = 0
  /\ pc = [t \in Threads |-> "run"]
  /\ pending = [t \in Threads |-> NoRe]

Next ==
  \E t \in Threads :
    \/ InitCheck(t) \/ InitPublish(t) \/ re_thread_close(t)
    \/ \E c \in Held : re_thread_attach(t, c)
    \/ re_thread_detach(t) \/ thread_destructor(t)

Spec == Init /\ [][Next]_vars

-----------------------------------------------------------------------------
\* Type invariant.
TypeOK ==
  /\ tss \in [Threads -> {NoRe} \cup ReIds]
  /\ global \in {NoRe} \cup ReIds
  /\ alive \subseteq 1..nalloc
  /\ nalloc \in 0..MaxRe
  /\ pc \in [Threads -> {"run", "publish", "exited"}]
  /\ pending \in [Threads -> {NoRe} \cup ReIds]

\* The fallback re_global names a reactor that still exists: spec.md says it
\* is published "until it is destroyed" (re_thread_close, thread_destructor).
FallbackLive == global # NoRe => global \in alive

\* Every running thread's re_get() yields NULL or a live reactor, so the
\* next fd_listen, re_main or re_thread_enter of that thread is no use
\* after free (re_thread_close, re_thread_attach, thread_destructor).
ReGetLive ==
  \A t \in Threads : pc[t] = "run" /\ ReGet(t) # NoRe => ReGet(t) \in alive

\* Every live reactor is in some thread's slot (or about to be stored
\* there by an unfinished re_thread_init), so some thread can still
\* re_thread_close it: re_thread_init never leaks the re it allocated.
NoOrphan ==
  \A r \in alive : r \in Held \/ \E t \in Threads : pending[t] = r

\* Once published, re_global changes only by being cleared: a second
\* re_thread_init never replaces the fallback ("if no global fallback
\* exists yet"), whatever the interleaving of the unlocked check and store.
FallbackNotReplaced ==
  [][global # NoRe /\ global' # NoRe => global' = global]_global
=============================================================================
