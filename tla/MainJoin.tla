----------------------------- MODULE MainJoin -----------------------------
(***************************************************************************)
(* The life of threads in src/lib/runtime_stack.c and src/lib/runtime_cyc.c:*)
(* thread ids (_next_tid), the count all_done of threads that main has to  *)
(* wait for (_xspawn, _thread_internal2), and Cyc_Core_main_join, which    *)
(* sleeps on the address of all_done.                                      *)
(***************************************************************************)
EXTENDS Integers, FiniteSets

CONSTANTS Threads,    \* slots for threads that live at the same time
          Main,       \* the slot of the main thread
          None,       \* no child is being spawned
          Word,       \* 2^32, the range of unsigned int
          MaxSpawns   \* bound on the number of threads ever spawned

\* The constants that make sense.
JoinConstants ==
    /\ Main \in Threads /\ None \notin Threads /\ IsFiniteSet(Threads)
    /\ Word \in Nat /\ Word > 2 /\ Word % 2 = 0 /\ MaxSpawns \in Nat

ASSUME JoinAssumption == JoinConstants

VARIABLES next_tid, all_done,  \* the two counters
          tid,       \* _thread_key.tid of every slot
          birth,     \* how many spawns came before the thread's
          spawns,    \* number of threads spawned so far
          pc,        \* where each thread is
          child,     \* the slot _xspawn is filling
          val,       \* the value of all_done that main passes to futex_wait
          final,     \* is main_join the call at the end of main()?
          process    \* "running", "returned" (from main) or "aborted"

joinVars == <<next_tid, all_done, tid, birth, spawns, pc, child, val, final, process>>

Workers == Threads \ {Main}

PCs == {"free",                     \* no thread in the slot
        "unborn",                   \* its stack is ready, pthread_create is not done
        "run",                      \* program code
        "count", "create",          \* _xspawn
        "wake",                     \* _thread_internal2, about to futex_wake
        "test", "load", "wait", "asleep"}  \* main_join

Joining == {"test", "load", "wait", "asleep"}

JoinTypeOK ==
    /\ next_tid \in 0 .. Word - 1 /\ all_done \in Nat /\ spawns \in 0 .. MaxSpawns
    /\ tid \in [Threads -> 0 .. Word - 1]
    /\ birth \in [Threads -> Nat]
    /\ pc \in [Threads -> PCs]
    /\ child \in [Threads -> Threads \cup {None}]
    /\ val \in Nat
    /\ final \in BOOLEAN
    /\ process \in {"running", "returned", "aborted"}

\* main() has called _next_tid once.
JoinInit ==
    /\ next_tid = 3 % Word /\ all_done = 0 /\ spawns = 0
    /\ tid = [t \in Threads |-> IF t = Main THEN 1 ELSE 0]
    /\ birth = [t \in Threads |-> 0]
    /\ pc = [t \in Threads |-> IF t = Main THEN "run" ELSE "free"]
    /\ child = [t \in Threads |-> None]
    /\ val = 0 /\ final = FALSE
    /\ process = "running"

Goto(t, label) == pc' = [pc EXCEPT ![t] = label]

-----------------------------------------------------------------------------
\* __sync_fetch_and_add(&next_tid,2)
NextTid == next_tid' = (next_tid + 2) % Word

\* __init_new_thread_stack: the new thread's block is filled in.
InitNewThreadStack(t, u) ==
    /\ pc[t] = "run" /\ pc[u] = "free"
    /\ spawns < MaxSpawns
    /\ NextTid
    /\ tid' = [tid EXCEPT ![u] = next_tid]
    /\ spawns' = spawns + 1
    /\ birth' = [birth EXCEPT ![u] = spawns + 1]
    /\ pc' = [pc EXCEPT ![t] = "count", ![u] = "unborn"]
    /\ child' = [child EXCEPT ![t] = u]
    /\ UNCHANGED <<all_done, val, final, process>>

\* Mutant: nobody counts the child.
CountChildNot(t) ==
    /\ pc[t] = "count"
    /\ Goto(t, "create")
    /\ UNCHANGED <<next_tid, all_done, tid, birth, spawns, child, val, final, process>>

\* __sync_fetch_and_add(&all_done,1), before the thread exists
CountChild(t) ==
    /\ pc[t] = "count"
    /\ all_done' = all_done + 1
    /\ Goto(t, "create")
    /\ UNCHANGED <<next_tid, tid, birth, spawns, child, val, final, process>>

\* GC_pthread_create: the child runs, or the whole program quits.
PthreadCreate(t) ==
    /\ pc[t] = "create"
    /\ \/ /\ pc' = [pc EXCEPT ![t] = "run", ![child[t]] = "run"]
          /\ child' = [child EXCEPT ![t] = None]
          /\ UNCHANGED process
       \/ process' = "aborted" /\ UNCHANGED <<pc, child>>
    /\ UNCHANGED <<next_tid, all_done, tid, birth, spawns, val, final>>

\* Mutant: the thread that takes the count to one wakes main.
FinishEarly(t) ==
    /\ t # Main /\ pc[t] = "run"
    /\ all_done' = all_done - 1
    /\ Goto(t, IF all_done = 2 THEN "wake" ELSE "free")
    /\ UNCHANGED <<next_tid, tid, birth, spawns, child, val, final, process>>

\* _thread_internal2 after the thread's function has returned or thrown:
\* if(__sync_fetch_and_add(&all_done,-1) == 1) ...
Finish(t) ==
    /\ t # Main /\ pc[t] = "run"
    /\ all_done' = all_done - 1
    /\ Goto(t, IF all_done = 1 THEN "wake" ELSE "free")
    /\ UNCHANGED <<next_tid, tid, birth, spawns, child, val, final, process>>

\* ... futex_wake(&all_done,1)
FutexWake(t) ==
    /\ pc[t] = "wake"
    /\ pc' = [pc EXCEPT ![t] = "free",
                        ![Main] = IF @ = "asleep" THEN "test" ELSE @]
    /\ UNCHANGED <<next_tid, all_done, tid, birth, spawns, child, val, final, process>>

-----------------------------------------------------------------------------
\* main calls main_join, from the program or at the end of main().
MainJoin(f) ==
    /\ pc[Main] = "run"
    /\ final' = f
    /\ Goto(Main, "test")
    /\ UNCHANGED <<next_tid, all_done, tid, birth, spawns, child, val, process>>

\* Mutant: main does not wait for the last thread.
JoinTestOne ==
    /\ pc[Main] = "test"
    /\ IF all_done > 1
         THEN Goto(Main, "load") /\ UNCHANGED process
         ELSE IF final THEN process' = "returned" /\ UNCHANGED pc
                       ELSE Goto(Main, "run") /\ UNCHANGED process
    /\ UNCHANGED <<next_tid, all_done, tid, birth, spawns, child, val, final>>

\* while(all_done != 0)
JoinTest ==
    /\ pc[Main] = "test"
    /\ IF all_done # 0
         THEN Goto(Main, "load") /\ UNCHANGED process
         ELSE IF final THEN process' = "returned" /\ UNCHANGED pc
                       ELSE Goto(Main, "run") /\ UNCHANGED process
    /\ UNCHANGED <<next_tid, all_done, tid, birth, spawns, child, val, final>>

\* futex_wait(&all_done,all_done): the argument is a second read of all_done.
JoinLoad ==
    /\ pc[Main] = "load"
    /\ val' = all_done
    /\ Goto(Main, "wait")
    /\ UNCHANGED <<next_tid, all_done, tid, birth, spawns, child, final, process>>

\* The kernel puts main to sleep if all_done still has that value.
JoinWait ==
    /\ pc[Main] = "wait"
    /\ Goto(Main, IF all_done = val THEN "asleep" ELSE "test")
    /\ UNCHANGED <<next_tid, all_done, tid, birth, spawns, child, val, final, process>>

\* futex_wait returns without a wake-up (ETIMEDOUT).
JoinTimeout ==
    /\ pc[Main] = "asleep"
    /\ Goto(Main, "test")
    /\ UNCHANGED <<next_tid, all_done, tid, birth, spawns, child, val, final, process>>

\* An exception that main does not catch ends the program at once.
MainThrows ==
    /\ pc[Main] = "run"
    /\ process' = "aborted"
    /\ UNCHANGED <<next_tid, all_done, tid, birth, spawns, pc, child, val, final>>

-----------------------------------------------------------------------------
Runtime(t) ==
    \/ CountChild(t) \/ PthreadCreate(t) \/ FutexWake(t)
    \/ t = Main /\ (JoinTest \/ JoinLoad \/ JoinWait)

Program(t) ==
    \/ \E u \in Threads : InitNewThreadStack(t, u)
    \/ Finish(t)
    \/ t = Main /\ (MainThrows \/ \E f \in BOOLEAN : MainJoin(f))

Exited == process # "running" /\ UNCHANGED joinVars

JoinNext ==
    \/ process = "running" /\ \E t \in Threads : Runtime(t) \/ Program(t)
    \/ process = "running" /\ JoinTimeout
    \/ Exited

JoinSpec == JoinInit /\ [][JoinNext]_joinVars

\* A thread inside the runtime is eventually scheduled; nothing is assumed of
\* timeouts.
FairSpec ==
    JoinSpec /\ \A t \in Threads : WF_joinVars(process = "running" /\ Runtime(t))

-----------------------------------------------------------------------------
(* Properties *)

\* The threads that _xspawn has counted and that have not finished.
Counted == {u \in Workers : \/ pc[u] \notin {"free", "unborn", "wake"}
                            \/ \E t \in Threads : child[t] = u /\ pc[t] = "create"}

\* all_done counts them, so it is never decremented below zero.
AllDoneCounts == all_done = Cardinality(Counted)

\* "force main to wait for the new thread": when main returns, every thread
\* ever spawned has finished and none is about to start.
MainExitsLast ==
    process = "returned" => \A u \in Workers : pc[u] \in {"free", "wake"}

\* If main sleeps for threads that are still to finish, one of them will wake
\* it.
MainIsWoken ==
    pc[Main] = "asleep" /\ val # 0 =>
        all_done # 0 \/ \E t \in Threads : pc[t] = "wake"

\* No thread has id 0, the value of a free lock word, even after next_tid has
\* wrapped around; and two threads share an id only if 2^31 threads, half the range
\* of unsigned int, have been spawned between them.
TidsDistinct ==
    \A t, u \in {v \in Threads : pc[v] # "free"} :
        /\ tid[t] # 0
        /\ t # u /\ birth[t] <= birth[u] /\ birth[u] - birth[t] < Word \div 2
              => tid[t] # tid[u]

\* The two counters of the runtime mean what _xspawn, _thread_internal2 and the locks
\* take them for: all_done the threads to wait for, next_tid an id nobody living has.
CountersSound == JoinTypeOK /\ AllDoneCounts /\ TidsDistinct

\* "wake up main thread if I'm the last thread": a main_join that finds no
\* thread left returns.
JoinReturns ==
    (pc[Main] \in Joining /\ all_done = 0)
        ~> (pc[Main] \notin Joining \/ process # "running")
=============================================================================
