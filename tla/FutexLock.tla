----------------------------- MODULE FutexLock -----------------------------
(***************************************************************************)
(* The region mutex of src/lib/runtime_lowlevel.c: wait_lock and unlock    *)
(* over one lock word, and the kernel futex they sleep on.  Every access   *)
(* to the lock word is a step of its own: the compare-and-swap, the plain  *)
(* read after it fails, the kernel's comparison when it queues the caller, *)
(* the store of 0 and the wake-up that follows the store.                  *)
(***************************************************************************)
EXTENDS Naturals, FiniteSets

CONSTANTS Threads,  \* thread ids (tcb()->tid)
          Free      \* the value 0 of the lock word

\* _next_tid never hands out 0, the value that means "unlocked"
\* (module MainJoin checks that of the tid counter).
ASSUME TidNotFree == Free \notin Threads

VARIABLES
    lock,      \* *lock: the owner's tid, or Free
    pc,        \* where each thread is in wait_lock / unlock
    prev_val,  \* the local prev_val of wait_lock
    queue      \* kernel: the threads asleep on the address of the lock word

vars == <<lock, pc, prev_val, queue>>

PCs == {"idle", "cas", "read", "wait", "asleep", "owns", "wake"}

\* The threads that are inside wait_lock, asleep or not.
Trying == {"cas", "read", "wait", "asleep"}

TypeOK ==
    /\ lock \in Threads \cup {Free}
    /\ pc \in [Threads -> PCs]
    /\ prev_val \in [Threads -> Threads \cup {Free}]
    /\ queue = {t \in Threads : pc[t] = "asleep"}

Init ==
    /\ lock = Free
    /\ pc = [t \in Threads |-> "idle"]
    /\ prev_val = [t \in Threads |-> Free]
    /\ queue = {}

Goto(t, label) == pc' = [pc EXCEPT ![t] = label]

-----------------------------------------------------------------------------
(* wait_lock *)

\* The call: self is read, prev_val is initialised to a nonzero value that
\* nothing reads.
CallWaitLock(t) ==
    /\ pc[t] = "idle"
    /\ Goto(t, "cas")
    /\ UNCHANGED <<lock, prev_val, queue>>

\* while(!__sync_bool_compare_and_swap(lock,0,self))
Cas(t) ==
    /\ pc[t] = "cas"
    /\ IF lock = Free
         THEN lock' = t /\ Goto(t, "owns")
         ELSE lock' = lock /\ Goto(t, "read")
    /\ UNCHANGED <<prev_val, queue>>

\* Mutant: the loop is left when the plain read finds the word free.
ReadLockBreaks(t) ==
    /\ pc[t] = "read"
    /\ prev_val' = [prev_val EXCEPT ![t] = lock]
    /\ Goto(t, IF lock = Free THEN "owns" ELSE "wait")
    /\ UNCHANGED <<lock, queue>>

\* prev_val = *lock; if(!prev_val) continue;
ReadLock(t) ==
    /\ pc[t] = "read"
    /\ prev_val' = [prev_val EXCEPT ![t] = lock]
    /\ Goto(t, IF lock = Free THEN "cas" ELSE "wait")
    /\ UNCHANGED <<lock, queue>>

\* Mutant: the caller is queued without a comparison of the word.
FutexWaitBlind(t) ==
    /\ pc[t] = "wait"
    /\ queue' = queue \cup {t}
    /\ Goto(t, "asleep")
    /\ UNCHANGED <<lock, prev_val>>

\* futex_wait(lock,prev_val): the kernel queues the caller only if the word
\* still holds prev_val, otherwise the call returns EWOULDBLOCK at once.  The
\* optional spin before the system call has the same two outcomes.
FutexWait(t) ==
    /\ pc[t] = "wait"
    /\ IF lock = prev_val[t]
         THEN queue' = queue \cup {t} /\ Goto(t, "asleep")
         ELSE queue' = queue /\ Goto(t, "cas")
    /\ UNCHANGED <<lock, prev_val>>

\* The system call returns without a wake-up: futex_wait accepts ETIMEDOUT,
\* although both system calls it is made with ask to wait indefinitely.
FutexTimeout(t) ==
    /\ t \in queue
    /\ queue' = queue \ {t}
    /\ Goto(t, "cas")
    /\ UNCHANGED <<lock, prev_val>>

-----------------------------------------------------------------------------
(* unlock *)

\* assert(*lock == self); *lock = 0;
UnlockStore(t) ==
    /\ pc[t] = "owns"
    /\ lock' = Free
    /\ Goto(t, "wake")
    /\ UNCHANGED <<prev_val, queue>>

\* Mutant: unlock wakes nobody.
FutexWakeNobody(t) ==
    /\ pc[t] = "wake"
    /\ Goto(t, "idle")
    /\ UNCHANGED <<lock, prev_val, queue>>

\* futex_wake(lock,1): at most one sleeper goes back to its compare-and-swap.
FutexWake(t) ==
    /\ pc[t] = "wake"
    /\ IF queue = {}
         THEN queue' = queue /\ Goto(t, "idle")
         ELSE \E w \in queue :
                /\ queue' = queue \ {w}
                /\ pc' = [pc EXCEPT ![t] = "idle", ![w] = "cas"]
    /\ UNCHANGED <<lock, prev_val>>

-----------------------------------------------------------------------------
\* The steps of the runtime; the calls themselves are the client's choice.
Step(t) ==
    \/ Cas(t) \/ ReadLock(t) \/ FutexWait(t)
    \/ UnlockStore(t) \/ FutexWake(t)

Next == \E t \in Threads : CallWaitLock(t) \/ Step(t) \/ FutexTimeout(t)

Spec == Init /\ [][Next]_vars

\* Weak fairness of every thread: a runnable thread is eventually scheduled.
\* A critical section ends (no client code runs while caps.lock is held).
\* Nothing is assumed of timeouts, nor that a thread's compare-and-swap ever
\* wins against the others'.
FairSpec == Spec /\ \A t \in Threads : WF_vars(Step(t))

-----------------------------------------------------------------------------
(* Properties *)

\* Between the successful compare-and-swap of wait_lock and the store of 0 in
\* unlock, the lock word holds the owner's tid, so the assertion *lock == self
\* of unlock holds and no two threads are in the critical section.
OwnerHoldsWord == \A t \in Threads : pc[t] = "owns" <=> lock = t

\* A thread asleep on the lock word is never forgotten: while one sleeps, the
\* word is owned (its owner will wake somebody), or an unlock is about to wake
\* a sleeper, or some other thread is awake inside wait_lock and will take the
\* lock and wake in its turn.
NoLostWakeup ==
    queue # {} => \/ lock # Free
                  \/ \E t \in Threads : pc[t] \in {"wake", "cas", "read", "wait"}

\* Whenever somebody is inside wait_lock, some thread eventually owns the
\* lock, with no timeout needed to get there (deadlock freedom; a particular
\* thread may lose every compare-and-swap).
SomebodyGetsIt ==
    (\E t \in Threads : pc[t] \in Trying) ~> (\E t \in Threads : pc[t] = "owns")

\* What callers rely on: the atomic lock of module Mutex.
owner == {t \in Threads : pc[t] = "owns"}
waiting == {t \in Threads : pc[t] \in Trying}
\* "wake" is the tail of unlock: the caller has given the lock back.
Abstract == INSTANCE Mutex WITH owner <- owner, waiting <- waiting

\* The compare-and-swap loop with its kernel queue implements the atomic lock.
ImplementsMutex == Abstract!Spec
=============================================================================
