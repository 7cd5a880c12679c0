------------------------------- MODULE Mutex -------------------------------
(***************************************************************************)
(* What wait_lock and unlock of src/lib/runtime_lowlevel.c promise to      *)
(* their callers (__xregion_lockop, _xregion_malloc, attach_region): a     *)
(* lock word that at most one thread owns, taken and given back in one     *)
(* atomic step each.  FutexLock is shown to implement this specification.  *)
(***************************************************************************)
CONSTANT Threads

VARIABLES owner,    \* the set of threads that own the lock
          waiting   \* the threads inside wait_lock

avars == <<owner, waiting>>

Init ==
    /\ owner = {}
    /\ waiting = {}

\* A thread calls wait_lock.
Request(t) ==
    /\ t \notin owner \cup waiting
    /\ waiting' = waiting \cup {t}
    /\ UNCHANGED owner

\* wait_lock returns: nobody else owns the lock.
Acquire(t) ==
    /\ t \in waiting
    /\ owner = {}
    /\ owner' = {t}
    /\ waiting' = waiting \ {t}

\* The store of 0 in unlock.
Release(t) ==
    /\ t \in owner
    /\ owner' = owner \ {t}
    /\ UNCHANGED waiting

Next == \E t \in Threads : Request(t) \/ Acquire(t) \/ Release(t)

Spec == Init /\ [][Next]_avars
=============================================================================
