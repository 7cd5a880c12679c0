---------------------------- MODULE XRegionLive ----------------------------
(***************************************************************************)
(* XRegionCaps with a program that uses its locks in a disciplined way, to *)
(* ask whether every call returns.  The discipline is the program's, not   *)
(* the runtime's: a thread asks for a lock only when it holds none on the  *)
(* region (two readers that both ask for the write lock wait for each      *)
(* other for ever), it lets go of what it holds in the end, and it makes   *)
(* finitely many calls (a writer can be overtaken by readers for ever).    *)
(***************************************************************************)
EXTENDS XRegionCaps

CONSTANT MaxCalls  \* lock requests per thread

ASSUME MaxCallsType == MaxCalls \in Nat

VARIABLE budget  \* lock requests each thread has left

lvars == <<vars, budget>>

LiveInit == Init /\ budget = [t \in Threads |-> MaxCalls]

\* A call that can wait: it asks for a lock.
Asks(c) == c[2] > 0 \/ c[3] > 0

Request(t) ==
    \E c \in CapOps :
        /\ Asks(c)
        /\ local_wr[t] = 0 /\ local_rd[t] = 0
        /\ budget[t] > 0
        /\ Cap(t, c)
        /\ budget' = [budget EXCEPT ![t] = @ - 1]

LetGo(t) ==
    /\ \E c \in CapOps : ~Asks(c) /\ (c[2] < 0 \/ c[3] < 0) /\ Cap(t, c)
    /\ UNCHANGED budget

Other(t) ==
    /\ \/ \E c \in CapOps : ~Asks(c) /\ c[2] = 0 /\ c[3] = 0 /\ Cap(t, c)
       \/ \E u \in Threads, c \in SpawnCaps : Spawn(t, u, c)
    /\ UNCHANGED budget

LiveStep(t) == Step(t) /\ UNCHANGED budget

LiveNext ==
    \E t \in Threads :
        \/ Request(t) \/ LetGo(t) \/ Other(t) \/ LiveStep(t)
        \/ CvTimeout(t) /\ UNCHANGED budget

\* Threads are scheduled and a lock that is held is let go, both as weak
\* fairness.  The compare-and-swap loop of wait_lock promises no more: a
\* thread may lose every race for the mutex.  Nothing is assumed of futex
\* timeouts.
LiveSpec ==
    /\ LiveInit
    /\ [][LiveNext]_lvars
    /\ \A t \in Threads : WF_lvars(LiveStep(t)) /\ WF_lvars(LetGo(t))

InCall(t) == pc[t] \in {"wait", "asleep", "lock", "body"}

\* A thread in the body that cannot have its lock and goes around the loop.
Polls(t) ==
    /\ pc[t] = "body"
    /\ \/ op[t][1] > 0 /\ ~Canlock(t)
       \/ op[t][2] > 0 /\ wr_cv \notin {t, None}

\* A thread at wait_lock, on its way to give back the lock it holds.
Leaving(t) == pc[t] = "lock" /\ (op[t][1] < 0 \/ op[t][2] < 0)

\* Calls of _xregion_cap return, except in one way: a thread whose condition
\* variable is 0 while it cannot have its lock polls, is in the body of
\* __xregion_lockop again and again, and the holder that wants to let go loses
\* every race for the mutex to it.  So somebody is always served: no call is
\* lost asleep on a condition variable of the region, and no two calls wait
\* for each other.
CallsReturnUnlessOvertaken ==
    \/ \A t \in Threads : InCall(t) ~> ~InCall(t)
    \/ /\ []<>(\E t \in Threads : Polls(t))
       /\ \E t \in Threads : <>[]Leaving(t)
=============================================================================
