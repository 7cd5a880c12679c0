----------------------------- MODULE StopWorld -----------------------------
(***************************************************************************)
(* How the collector stops the threads that the runtime creates with       *)
(* GC_pthread_create: GC_stop_world, GC_start_world and the two signal     *)
(* handlers of src/gc/pthread_stop_world.c, and the registration of        *)
(* threads in src/gc/pthread_support.c.                                    *)
(*                                                                         *)
(* The allocation lock is held across a collection; every other section    *)
(* under it is one step, taken while nobody collects.  A suspend signal    *)
(* interrupts a thread anywhere, so the position in the signal handler is  *)
(* a variable of its own, next to the position in the program.             *)
(***************************************************************************)
EXTENDS Naturals, FiniteSets

CONSTANTS Threads,
          Main,
          Nobody,
          MaxStops,      \* bound on GC_stop_count
          MaxRetryStops  \* the same for runs with GC_retry_signals

ASSUME ConstantsAssumption ==
    /\ Main \in Threads /\ Nobody \notin Threads /\ IsFiniteSet(Threads)
    /\ MaxStops \in Nat /\ MaxRetryStops \in Nat

VARIABLES
    retry_signals,     \* GC_retry_signals, from the environment
    collector,         \* who holds GC_allocate_ml for a collection
    phase,             \* where the collector is
    todo,              \* the entries of GC_threads its loop has still to visit
    sent,              \* the signals it has sent
    n_live_threads,    \* the acknowledgements to come
    stop_count,        \* GC_stop_count
    world_is_stopped,  \* GC_world_is_stopped
    ack_sem,           \* GC_suspend_ack_sem
    gc_threads,        \* the threads in GC_threads that are not FINISHED
    thread_blocked,    \* those with thread_blocked set
    last_stop_count,
    pc,                \* where a thread is in the program
    child,             \* the thread whose registration it waits for
    handler,           \* where it is in GC_suspend_handler
    my_stop_count,
    signals            \* its pending signals

world == <<retry_signals, collector, phase, todo, sent, n_live_threads, stop_count,
           world_is_stopped>>
table == <<gc_threads, thread_blocked, pc, child>>
vars == <<world, ack_sem, table, last_stop_count, handler, my_stop_count, signals>>

Init ==
    /\ retry_signals \in BOOLEAN
    /\ collector = Nobody /\ phase = "none" /\ todo = {}
    /\ sent = 0 /\ n_live_threads = 0
    /\ stop_count = 0 /\ world_is_stopped = FALSE /\ ack_sem = 0
    /\ gc_threads = {Main} /\ thread_blocked = {}
    /\ last_stop_count = [t \in Threads |-> 0]
    /\ pc = [t \in Threads |-> IF t = Main THEN "run" ELSE "unborn"]
    /\ child = [t \in Threads |-> Nobody]
    /\ handler = [t \in Threads |-> "no"]
    /\ my_stop_count = [t \in Threads |-> 0]
    /\ signals = [t \in Threads |-> {}]

-----------------------------------------------------------------------------
(* The program: creation, registration, blocking calls, exit *)

handling == <<last_stop_count, handler, my_stop_count, signals>>

\* A thread that runs the program, and is neither waiting nor interrupted.
Runs(t) ==
    /\ pc[t] = "run" /\ child[t] = Nobody
    /\ handler[t] = "no" /\ t # collector

\* pthread_create waits until the new thread is in the table.
Create(t, u) ==
    /\ Runs(t) /\ pc[u] = "unborn"
    /\ pc' = [pc EXCEPT ![u] = "start"]
    /\ child' = [child EXCEPT ![t] = u]
    /\ UNCHANGED <<world, ack_sem, gc_threads, thread_blocked, handling>>

\* GC_inner_start_routine: a fresh entry, and the creator goes on.
Register(u) ==
    /\ pc[u] = "start" /\ collector = Nobody
    /\ pc' = [pc EXCEPT ![u] = "run"]
    /\ gc_threads' = gc_threads \cup {u}
    /\ last_stop_count' = [last_stop_count EXCEPT ![u] = 0]
    /\ child' = [t \in Threads |-> IF child[t] = u THEN Nobody ELSE child[t]]
    /\ UNCHANGED <<world, ack_sem, thread_blocked, handler, my_stop_count, signals>>

\* GC_unregister_my_thread; the main thread never calls it.
Unregister(t) ==
    /\ Runs(t) /\ t # Main /\ collector = Nobody
    /\ pc' = [pc EXCEPT ![t] = "gone"]
    /\ gc_threads' = gc_threads \ {t}
    /\ UNCHANGED <<world, ack_sem, thread_blocked, child, handling>>

\* GC_do_blocking, up to the call of fn.
BlockStart(t) ==
    /\ Runs(t) /\ collector = Nobody
    /\ pc' = [pc EXCEPT ![t] = "blocked"]
    /\ thread_blocked' = thread_blocked \cup {t}
    /\ UNCHANGED <<world, ack_sem, gc_threads, child, handling>>

\* Mutant: the second LOCK is missing.
BlockEndUnlocked(t) ==
    /\ pc[t] = "blocked"
    /\ pc' = [pc EXCEPT ![t] = "run"]
    /\ thread_blocked' = thread_blocked \ {t}
    /\ UNCHANGED <<world, ack_sem, gc_threads, child, handling>>

\* fn has returned; the lock is not to be had while the world is stopped.
BlockEnd(t) ==
    /\ pc[t] = "blocked" /\ collector = Nobody
    /\ pc' = [pc EXCEPT ![t] = "run"]
    /\ thread_blocked' = thread_blocked \ {t}
    /\ UNCHANGED <<world, ack_sem, gc_threads, child, handling>>

-----------------------------------------------------------------------------
(* The collector *)

others == <<retry_signals, table, last_stop_count, handler, my_stop_count>>

\* GC_stop_world begins.  The thread may still be on its way into the table:
\* GC_new_thread allocates.
StopWorld(t) ==
    /\ collector = Nobody
    /\ stop_count < IF retry_signals THEN MaxRetryStops ELSE MaxStops
    /\ Runs(t) \/ pc[t] = "start"
    /\ collector' = t
    /\ phase' = "flag"
    /\ stop_count' = stop_count + 1
    /\ UNCHANGED <<todo, sent, n_live_threads, world_is_stopped, ack_sem, signals,
                   others>>

\* The collector goes on to another phase, unless it is in a handler itself.
Goes(from, to) == phase = from /\ phase' = to /\ handler[collector] = "no"

\* Mutant: the loop does not leave out the calling thread.
WalkSelf ==
    /\ todo' = gc_threads /\ sent' = 0
    /\ UNCHANGED <<collector, stop_count, ack_sem, signals, others>>

\* GC_suspend_all and GC_start_world walk through the table.
Walk ==
    /\ todo' = gc_threads \ {collector} /\ sent' = 0
    /\ UNCHANGED <<collector, stop_count, ack_sem, signals, others>>

\* GC_world_is_stopped is set, and GC_suspend_all begins.
RaiseFlag ==
    /\ Goes("flag", "suspend")
    /\ world_is_stopped' = TRUE
    /\ Walk
    /\ UNCHANGED n_live_threads

\* The next entry of the table, which gets a signal unless it is skipped.
Visit(p, skipped, signal) ==
    /\ p \in todo /\ handler[collector] = "no"
    /\ todo' = todo \ {p}
    /\ sent' = sent + (IF skipped THEN 0 ELSE 1)
    /\ signals' = [signals EXCEPT ![p] = IF skipped THEN @ ELSE @ \cup {signal}]
    /\ UNCHANGED <<collector, phase, n_live_threads, stop_count, world_is_stopped,
                   ack_sem, others>>

\* GC_suspend_all: one entry.
Suspend(p) ==
    /\ phase \in {"suspend", "again"}
    /\ Visit(p, last_stop_count[p] = stop_count \/ p \in thread_blocked, "suspend")

\* GC_suspend_all returns to GC_stop_world.  With GC_retry_signals the
\* acknowledgements are counted before they are taken.
Suspended ==
    /\ Goes("suspend", IF retry_signals THEN "count" ELSE "take")
    /\ todo = {}
    /\ n_live_threads' = sent
    /\ UNCHANGED <<collector, todo, sent, stop_count, world_is_stopped, ack_sem, signals,
                   others>>

\* sem_getvalue finds all acknowledgements.
AllCounted ==
    /\ Goes("count", "take")
    /\ ack_sem = n_live_threads
    /\ UNCHANGED <<collector, todo, sent, n_live_threads, stop_count, world_is_stopped,
                   ack_sem, signals, others>>

\* RETRY_INTERVAL is over: GC_suspend_all once more.
Timeout ==
    /\ Goes("count", "again")
    /\ ack_sem # n_live_threads
    /\ Walk
    /\ UNCHANGED <<n_live_threads, world_is_stopped>>

\* "Lost some threads": no more acknowledgements are expected than can come.
Resent ==
    /\ Goes("again", "count")
    /\ todo = {}
    /\ n_live_threads' = IF sent + ack_sem < n_live_threads THEN ack_sem + sent
                         ELSE n_live_threads
    /\ UNCHANGED <<collector, todo, sent, stop_count, world_is_stopped, ack_sem, signals,
                   others>>

\* sem_wait returns.
TakeAck ==
    /\ Goes("take", "take")
    /\ n_live_threads > 0 /\ ack_sem > 0
    /\ n_live_threads' = n_live_threads - 1
    /\ ack_sem' = ack_sem - 1
    /\ UNCHANGED <<collector, todo, sent, stop_count, world_is_stopped, signals, others>>

\* Mutant: the loop over the acknowledgements ends one early.
AllTakenButOne == n_live_threads <= 1

AllTaken == n_live_threads = 0

\* GC_stop_world returns, and GC_stopped_mark marks from all stacks.
Mark ==
    /\ Goes("take", "mark")
    /\ AllTaken
    /\ UNCHANGED <<collector, todo, sent, n_live_threads, stop_count, world_is_stopped,
                   ack_sem, signals, others>>

\* Mutant: the flag is not taken down.
StartWorldFlagged ==
    /\ Goes("mark", "restart")
    /\ Walk
    /\ UNCHANGED <<n_live_threads, world_is_stopped>>

\* GC_start_world begins.
StartWorld ==
    /\ Goes("mark", "restart")
    /\ world_is_stopped' = FALSE
    /\ Walk
    /\ UNCHANGED n_live_threads

\* GC_start_world: one entry.
Restart(p) ==
    /\ phase = "restart"
    /\ Visit(p, p \in thread_blocked, "restart")

\* The collection is over and the allocation lock is given back.
Collected ==
    /\ Goes("restart", "none")
    /\ todo = {}
    /\ collector' = Nobody /\ sent' = 0 /\ n_live_threads' = 0
    /\ UNCHANGED <<todo, stop_count, world_is_stopped, ack_sem, signals, others>>

Collect ==
    \/ RaiseFlag \/ Suspended \/ AllCounted \/ Timeout \/ Resent \/ TakeAck \/ Mark
    \/ StartWorld \/ Collected
    \/ \E p \in Threads : Suspend(p) \/ Restart(p)

-----------------------------------------------------------------------------
(* The signal handlers *)

\* A suspend signal interrupts the program.
Deliver(t) ==
    /\ handler[t] = "no" /\ "suspend" \in signals[t]
    /\ handler' = [handler EXCEPT ![t] = "enter"]
    /\ signals' = [signals EXCEPT ![t] = @ \ {"suspend"}]
    /\ UNCHANGED <<world, ack_sem, table, last_stop_count, my_stop_count>>

\* GC_suspend_handler returns.  A suspend signal that came in the meantime was
\* masked and is delivered at once.
Return(t) ==
    /\ handler' = [handler EXCEPT ![t] =
                     IF "suspend" \in signals[t] THEN "enter" ELSE "no"]
    /\ signals' = [signals EXCEPT ![t] = @ \ {"suspend"}]

\* GC_stop_count is loaded; if the thread has stopped for it, the signal is a
\* duplicate.
Enter(t) ==
    /\ handler[t] = "enter"
    /\ my_stop_count' = [my_stop_count EXCEPT ![t] = stop_count]
    /\ IF last_stop_count[t] = stop_count
       THEN Return(t)
       ELSE handler' = [handler EXCEPT ![t] = "post"] /\ UNCHANGED signals
    /\ UNCHANGED <<world, ack_sem, table, last_stop_count>>

\* The stack pointer is saved; sem_post.
Post(t) ==
    /\ handler[t] = "post"
    /\ ack_sem' = ack_sem + 1
    /\ handler' = [handler EXCEPT ![t] = "store"]
    /\ UNCHANGED <<world, table, last_stop_count, my_stop_count, signals>>

\* last_stop_count is set after the acknowledgement; then sigsuspend.
Store(t) ==
    /\ handler[t] = "store"
    /\ last_stop_count' = [last_stop_count EXCEPT ![t] = my_stop_count[t]]
    /\ handler' = [handler EXCEPT ![t] = "sigsuspend"]
    /\ UNCHANGED <<world, ack_sem, table, my_stop_count, signals>>

\* The restart signal, or any other that is not masked, ends sigsuspend.
Wake(t) ==
    /\ handler[t] = "sigsuspend"
    /\ handler' = [handler EXCEPT ![t] = "flag"]
    /\ signals' = [signals EXCEPT ![t] = @ \ {"restart"}]
    /\ UNCHANGED <<world, ack_sem, table, last_stop_count, my_stop_count>>

\* Mutant: the end of sigsuspend is taken as authoritative.
CheckFlagNot(t) ==
    /\ handler[t] = "flag"
    /\ Return(t)
    /\ UNCHANGED <<world, ack_sem, table, last_stop_count, my_stop_count>>

\* The first condition of the loop: is the world still stopped?
CheckFlag(t) ==
    /\ handler[t] = "flag"
    /\ IF world_is_stopped
       THEN handler' = [handler EXCEPT ![t] = "count"] /\ UNCHANGED signals
       ELSE Return(t)
    /\ UNCHANGED <<world, ack_sem, table, last_stop_count, my_stop_count>>

\* The second one: is it stopped for the same collection?
CheckCount(t) ==
    /\ handler[t] = "count"
    /\ IF stop_count = my_stop_count[t]
       THEN handler' = [handler EXCEPT ![t] = "sigsuspend"] /\ UNCHANGED signals
       ELSE Return(t)
    /\ UNCHANGED <<world, ack_sem, table, last_stop_count, my_stop_count>>

\* GC_restart_handler in a thread that has gone on already.
RestartIgnored(t) ==
    /\ handler[t] = "no" /\ "restart" \in signals[t]
    /\ signals' = [signals EXCEPT ![t] = @ \ {"restart"}]
    /\ UNCHANGED <<world, ack_sem, table, last_stop_count, handler, my_stop_count>>

Handle(t) ==
    \/ Deliver(t) \/ Enter(t) \/ Post(t) \/ Store(t) \/ CheckFlag(t) \/ CheckCount(t)
    \/ RestartIgnored(t)
    \/ Wake(t) /\ "restart" \in signals[t]

Next ==
    \/ Collect
    \/ \E t \in Threads :
         \/ Handle(t) \/ Wake(t)
         \/ Register(t) \/ Unregister(t) \/ BlockStart(t) \/ BlockEnd(t) \/ StopWorld(t)
         \/ \E u \in Threads : Create(t, u)

Spec == Init /\ [][Next]_vars

\* The collector runs on, and signals are delivered and handled.
FairSpec == Spec /\ WF_vars(Collect) /\ \A t \in Threads : WF_vars(Handle(t))

-----------------------------------------------------------------------------
(* Properties *)

\* While the collector marks, every other thread that runs the program is held in
\* the handler with its stack pointer saved for this very collection: GC_stop_world
\* has counted the right acknowledgements.
WorldStopped ==
    phase = "mark" =>
        \A t \in Threads \ {collector} :
            pc[t] = "run" => /\ handler[t] \in {"store", "sigsuspend", "flag", "count"}
                             /\ my_stop_count[t] = stop_count

\* When the allocation lock is free, no acknowledgement is left over or still to
\* come that the next GC_stop_world would take for its own.
NoStrayAck ==
    collector = Nobody =>
        ack_sem = 0 /\ \A t \in Threads : handler[t] # "post"

\* From the first mark to GC_start_world no thread comes, goes, or moves on in the
\* program, threads in GC_do_blocking included.
MarkingUndisturbed == [][phase = "mark" => UNCHANGED table]_vars

\* GC_stop_world and GC_start_world return.
StopsEnd == phase # "none" ~> phase = "none"

\* A thread that was stopped goes on: the restart signal is not lost between
\* sem_post and sigsuspend, and a late one does no harm in the next collection.
ThreadsGoOn == \A t \in Threads : handler[t] # "no" ~> handler[t] = "no"
=============================================================================
