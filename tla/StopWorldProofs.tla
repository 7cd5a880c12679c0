-------------------------- MODULE StopWorldProofs --------------------------
(***************************************************************************)
(* Proofs about StopWorld for any finite set of threads and any number of  *)
(* collections, without GC_retry_signals: when GC_stop_world returns, all  *)
(* other threads are held, and no acknowledgement is left over.            *)
(***************************************************************************)
EXTENDS StopWorld, FiniteSetTheorems, TLAPS

\* Where a thread has acknowledged and not yet left the handler.
Holding == {"store", "sigsuspend", "flag", "count"}

\* A thread that has been sent the suspend signal and has not acknowledged it.
Asked(t) == "suspend" \in signals[t] \/ handler[t] \in {"enter", "post"}
AskedSet == {t \in Threads : Asked(t)}

\* A thread that has acknowledged for the current collection and waits.
Held(t) == handler[t] \in Holding /\ my_stop_count[t] = stop_count

\* The threads GC_suspend_all has come by, and has not left out.
Visited == gc_threads \ ({collector} \cup thread_blocked \cup todo)

\* The types the proofs need, and what the phase says about the flag and the loop.
Types ==
    /\ retry_signals = FALSE
    /\ collector \in Threads \cup {Nobody}
    /\ phase \in {"none", "flag", "suspend", "take", "mark", "restart"}
    /\ phase = "none" <=> collector = Nobody
    /\ world_is_stopped \in BOOLEAN
    /\ world_is_stopped <=> phase \in {"suspend", "take", "mark"}
    /\ phase \notin {"suspend", "restart"} => todo = {}
    /\ sent \in Nat /\ n_live_threads \in Nat /\ ack_sem \in Nat /\ stop_count \in Nat
    /\ last_stop_count \in [Threads -> Nat] /\ my_stop_count \in [Threads -> Nat]
    /\ handler \in [Threads -> {"no", "enter", "post"} \cup Holding]
    /\ signals \in [Threads -> SUBSET {"suspend", "restart"}]
    /\ pc \in [Threads -> {"unborn", "start", "run", "blocked", "gone"}]
    /\ gc_threads \subseteq Threads /\ todo \subseteq gc_threads \ {collector}

\* The table has the threads that run, and knows the blocked ones.
TableInv ==
    \A t \in Threads : /\ t \in gc_threads <=> pc[t] \in {"run", "blocked"}
                       /\ t \in thread_blocked <=> pc[t] = "blocked"

\* What a thread has read of GC_stop_count, and what it has stopped for.
CountsInv ==
    \A t \in Threads :
        last_stop_count[t] <= my_stop_count[t] /\ my_stop_count[t] <= stop_count

\* Signals and acknowledgements are under way only while the collector stops the
\* world; each thread it came by is asked once.
AskedInv ==
    /\ phase \notin {"suspend", "take"} => AskedSet = {} /\ ack_sem = 0
    /\ AskedSet \subseteq Visited
    /\ \A t \in Threads :
          "suspend" \in signals[t] => handler[t] \notin {"enter", "post"}

\* A thread has read the current GC_stop_count only after it was asked, and so takes
\* no signal for a duplicate.
FreshInv ==
    /\ \A t \in Threads : handler[t] = "post" => my_stop_count[t] = stop_count
    /\ phase = "flag" => \A t \in Threads : my_stop_count[t] # stop_count
    /\ phase \in {"suspend", "take"} =>
          \A t \in Threads : my_stop_count[t] = stop_count =>
              /\ handler[t] \in Holding \cup {"post"}
              /\ "suspend" \notin signals[t] /\ t \notin todo

\* Whoever the collector came by has yet to acknowledge, or waits.
HeldInv ==
    phase \in {"suspend", "take", "mark"} => \A t \in Visited : Asked(t) \/ Held(t)

\* The acknowledgements that are there or to come are those the collector expects.
AcksInv ==
    /\ phase = "suspend" => sent = Cardinality(AskedSet) + ack_sem
    /\ phase = "take" => n_live_threads = Cardinality(AskedSet) + ack_sem

\* The inductive invariant.
IInv == Types /\ TableInv /\ CountsInv /\ AskedInv /\ FreshInv /\ HeldInv /\ AcksInv

-----------------------------------------------------------------------------
(* The signal handlers *)

\* A step of a handler that neither asks nor acknowledges keeps the invariant, if it
\* lets no thread go that has stopped for this collection.
LEMMA HandlerStep ==
  ASSUME IInv, NEW t \in Threads,
         UNCHANGED <<world, ack_sem, table, my_stop_count>>,
         handler' \in [Threads -> {"no", "enter", "post"} \cup Holding],
         signals' \in [Threads -> SUBSET {"suspend", "restart"}],
         last_stop_count' \in [Threads -> Nat],
         \A v \in Threads \ {t} : /\ handler'[v] = handler[v] /\ signals'[v] = signals[v]
                                  /\ last_stop_count'[v] = last_stop_count[v],
         last_stop_count'[t] <= my_stop_count[t],
         Asked(t)' <=> Asked(t),
         "suspend" \in signals'[t] =>
             "suspend" \in signals[t] /\ handler'[t] \notin {"enter", "post"},
         handler'[t] = "post" => handler[t] = "post",
         /\ phase \in {"suspend", "take", "mark"} /\ my_stop_count[t] = stop_count
         /\ handler[t] \in Holding
         => handler'[t] \in Holding,
         /\ phase \in {"suspend", "take"} /\ my_stop_count[t] = stop_count
         => handler'[t] \in Holding \cup {"post"}
  PROVE  IInv'
<1> USE DEF IInv, world, table
<1>1. \A v \in Threads : Asked(v)' <=> Asked(v)
  BY Zenon DEF Asked
<1>2. AskedSet' = AskedSet
  BY Zenon, <1>1 DEF AskedSet
<1>3. Types'
  BY Zenon DEF Types
<1>4. TableInv'
  BY Zenon DEF TableInv
<1>5. CountsInv'
  BY Zenon DEF CountsInv
<1>6. Visited' = Visited
  BY Zenon DEF Visited
<1>7. AskedInv'
  BY Zenon, <1>2, <1>6 DEF AskedInv
<1>8. FreshInv'
  BY Zenon DEF FreshInv
<1>9. HeldInv'
  <2>1. \A v \in Threads : phase \in {"suspend", "take", "mark"} /\ Held(v) => Held(v)'
    BY Zenon DEF Held
  <2>2. Visited \subseteq Threads
    BY Zenon DEF Visited, Types
  <2> QED BY Zenon, <1>1, <1>6, <2>1, <2>2 DEF HeldInv
<1>10. AcksInv'
  BY Zenon, <1>2 DEF AcksInv
<1> QED BY Zenon, <1>3, <1>4, <1>5, <1>7, <1>8, <1>9, <1>10

\* A suspend signal is delivered.
LEMMA DeliverPreserves ==
  ASSUME IInv, NEW t \in Threads, Deliver(t)
  PROVE  IInv'
<1>1. /\ handler' = [handler EXCEPT ![t] = "enter"]
      /\ signals' = [signals EXCEPT ![t] = @ \ {"suspend"}]
      /\ handler[t] = "no" /\ "suspend" \in signals[t]
  BY Zenon DEF Deliver
<1>2. Types /\ FreshInv /\ CountsInv
  BY Zenon DEF IInv
<1>3. Asked(t)' <=> Asked(t)
  BY Zenon, <1>1, <1>2 DEF Asked, Types
<1> QED BY <1>1, <1>2, <1>3, HandlerStep DEF Deliver, Types, FreshInv, CountsInv, Holding

\* The handler of a thread that is not held for this collection returns.
LEMMA ReturnPreserves ==
  ASSUME IInv, NEW t \in Threads, Return(t),
         UNCHANGED <<world, ack_sem, table, last_stop_count, my_stop_count>>,
         handler[t] \in Holding,
         phase \in {"suspend", "take", "mark"} => my_stop_count[t] # stop_count
  PROVE  IInv'
<1>1. Types /\ CountsInv
  BY Zenon DEF IInv
<1>2. /\ handler' = [handler EXCEPT ![t] =
                       IF "suspend" \in signals[t] THEN "enter" ELSE "no"]
      /\ signals' = [signals EXCEPT ![t] = @ \ {"suspend"}]
  BY Zenon DEF Return
<1>3. /\ handler'[t] = (IF "suspend" \in signals[t] THEN "enter" ELSE "no")
      /\ signals'[t] = signals[t] \ {"suspend"}
  BY Zenon, <1>1, <1>2 DEF Types
<1>4. Asked(t)' <=> Asked(t)
  BY Zenon, <1>3 DEF Asked, Holding
<1> QED BY Zenon, <1>1, <1>2, <1>3, <1>4, HandlerStep DEF Types, CountsInv

\* The steps of the loop around sigsuspend, and the store before it.
LEMMA LoopPreserves ==
  ASSUME IInv, NEW t \in Threads,
         Store(t) \/ Wake(t) \/ CheckFlag(t) \/ CheckCount(t) \/ RestartIgnored(t)
  PROVE  IInv'
<1>1. Types /\ CountsInv /\ FreshInv
  BY Zenon DEF IInv
<1> DEFINE Kept ==
      /\ \A v \in Threads \ {t} : /\ handler'[v] = handler[v] /\ signals'[v] = signals[v]
                                /\ last_stop_count'[v] = last_stop_count[v]
      /\ last_stop_count'[t] <= my_stop_count[t]
      /\ handler'[t] \in Holding \/ handler'[t] = handler[t]
      /\ "suspend" \in signals'[t] <=> "suspend" \in signals[t]
      /\ handler[t] \in Holding \cup {"no"}
      /\ handler' \in [Threads -> {"no", "enter", "post"} \cup Holding]
      /\ signals' \in [Threads -> SUBSET {"suspend", "restart"}]
      /\ last_stop_count' \in [Threads -> Nat]
      /\ UNCHANGED <<world, ack_sem, table, my_stop_count>>
<1>2. ASSUME Kept
      PROVE  IInv'
  <2>1. handler'[t] \notin {"enter", "post"} /\ handler[t] \notin {"enter", "post"}
    BY Zenon, <1>2 DEF Holding
  <2>2. Asked(t)' <=> Asked(t)
    BY Zenon, <1>2, <2>1 DEF Asked
  <2>3. phase \in {"suspend", "take"} /\ my_stop_count[t] = stop_count
        => handler'[t] \in Holding \cup {"post"}
    BY Zenon, <1>1, <1>2 DEF FreshInv
  <2>4. handler[t] \in Holding => handler'[t] \in Holding
    BY Zenon, <1>2
  <2> QED BY Zenon, <1>2, <2>1, <2>2, <2>3, <2>4, HandlerStep
<1>3. CASE Store(t)
  BY <1>1, <1>2, <1>3 DEF Store, Types, CountsInv, Holding
<1>4. CASE Wake(t)
  BY Zenon, <1>1, <1>2, <1>4 DEF Wake, Types, CountsInv, Holding
<1>5. CASE CheckFlag(t)
  <2>1. CASE world_is_stopped
    BY Zenon, <1>1, <1>2, <1>5, <2>1 DEF CheckFlag, Types, CountsInv, Holding
  <2>2. CASE ~world_is_stopped
    <3>1. phase \notin {"suspend", "take", "mark"}
      BY Zenon, <1>1, <2>2 DEF Types
    <3> QED BY Zenon, <1>5, <2>2, <3>1, ReturnPreserves DEF CheckFlag, Holding
  <2> QED BY Zenon, <2>1, <2>2
<1>6. CASE CheckCount(t)
  <2>1. CASE stop_count = my_stop_count[t]
    BY Zenon, <1>1, <1>2, <1>6, <2>1 DEF CheckCount, Types, CountsInv, Holding
  <2>2. CASE stop_count # my_stop_count[t]
    BY Zenon, <1>6, <2>2, ReturnPreserves DEF CheckCount, Holding
  <2> QED BY Zenon, <2>1, <2>2
<1>7. CASE RestartIgnored(t)
  BY Zenon, <1>1, <1>2, <1>7 DEF RestartIgnored, Types, CountsInv
<1> QED BY Zenon, <1>3, <1>4, <1>5, <1>6, <1>7

\* The threads that are asked are finitely many.
LEMMA AskedFinite ==
  IsFiniteSet(AskedSet) /\ Cardinality(AskedSet) \in Nat
<1>1. AskedSet \subseteq Threads
  BY Zenon DEF AskedSet
<1>2. IsFiniteSet(Threads)
  BY Zenon, ConstantsAssumption
<1>3. IsFiniteSet(AskedSet)
  BY Zenon, <1>1, <1>2, FS_Subset
<1> QED BY Zenon, <1>3, FS_CardinalityType

\* GC_stop_count is loaded.  The signal is never a duplicate.
LEMMA EnterPreserves ==
  ASSUME IInv, NEW t \in Threads, Enter(t)
  PROVE  IInv'
<1> USE DEF IInv
<1>1. handler[t] = "enter" /\ t \in AskedSet /\ phase \in {"suspend", "take"}
  BY Zenon DEF Enter, AskedSet, Asked, AskedInv
<1>2. my_stop_count[t] # stop_count /\ last_stop_count[t] # stop_count
  BY <1>1 DEF FreshInv, CountsInv, Types, Holding
<1>3. /\ handler' = [handler EXCEPT ![t] = "post"]
      /\ my_stop_count' = [my_stop_count EXCEPT ![t] = stop_count]
      /\ UNCHANGED <<world, ack_sem, table, last_stop_count, signals>>
  BY Zenon, <1>2 DEF Enter
<1>4. \A v \in Threads : Asked(v)' <=> Asked(v)
  BY Zenon, <1>1, <1>3 DEF Asked, Types
<1>5. AskedSet' = AskedSet /\ Visited' = Visited
  BY Zenon, <1>3, <1>4 DEF AskedSet, Visited, world, table
<1>6. Types'
  BY Zenon, <1>3 DEF Types, world, table
<1>7. TableInv'
  BY Zenon, <1>3 DEF TableInv, world, table
<1>8. CountsInv'
  BY <1>3 DEF CountsInv, Types, world, table
<1>9. AskedInv'
  BY Zenon, <1>1, <1>3, <1>5 DEF AskedInv, Types, world, table
<1>10. FreshInv'
  <2>1. t \notin todo /\ "suspend" \notin signals[t]
    BY Zenon, <1>1 DEF AskedInv, Visited
  <2> QED BY Zenon, <1>1, <1>3, <2>1 DEF FreshInv, Types, world, table
<1>11. HeldInv'
  <2>1. \A v \in Threads : Held(v) => Held(v)'
    BY Zenon, <1>1, <1>3 DEF Held, Types, Holding, world, table
  <2>2. Visited \subseteq Threads
    BY Zenon DEF Visited, Types
  <2> QED BY Zenon, <1>3, <1>4, <1>5, <2>1, <2>2 DEF HeldInv, world
<1>12. AcksInv'
  BY Zenon, <1>3, <1>5 DEF AcksInv, world
<1> QED BY Zenon, <1>6, <1>7, <1>8, <1>9, <1>10, <1>11, <1>12

\* The acknowledgement is posted: one that was to come is there.
LEMMA PostPreserves ==
  ASSUME IInv, NEW t \in Threads, Post(t)
  PROVE  IInv'
<1> USE DEF IInv
<1>1. /\ handler[t] = "post" /\ handler' = [handler EXCEPT ![t] = "store"]
      /\ ack_sem' = ack_sem + 1
      /\ UNCHANGED <<world, table, last_stop_count, my_stop_count, signals>>
  BY Zenon DEF Post
<1>2. t \in AskedSet /\ phase \in {"suspend", "take"} /\ "suspend" \notin signals[t]
  BY Zenon, <1>1 DEF AskedSet, Asked, AskedInv
<1>3. /\ \A v \in Threads \ {t} : Asked(v)' <=> Asked(v)
      /\ ~Asked(t)'
  BY Zenon, <1>1, <1>2 DEF Asked, Types
<1>4. AskedSet' = AskedSet \ {t} /\ Visited' = Visited
  BY Zenon, <1>1, <1>3 DEF AskedSet, Visited, world, table
<1>5. Cardinality(AskedSet') = Cardinality(AskedSet) - 1
  BY Zenon, <1>2, <1>4, AskedFinite, FS_RemoveElement
<1>6. Types'
  BY <1>1 DEF Types, Holding, world, table
<1>7. TableInv'
  BY Zenon, <1>1 DEF TableInv, world, table
<1>8. CountsInv'
  BY Zenon, <1>1 DEF CountsInv, world, table
<1>9. AskedInv'
  BY Zenon, <1>1, <1>2, <1>4 DEF AskedInv, Types, world, table
<1>10. FreshInv'
  BY Zenon, <1>1 DEF FreshInv, Types, Holding, world, table
<1>11. HeldInv'
  <2>1. \A v \in Threads : Held(v) \/ v = t => Held(v)'
    BY Zenon, <1>1 DEF Held, FreshInv, Types, Holding, world, table
  <2>2. Visited \subseteq Threads
    BY Zenon DEF Visited, Types
  <2> QED BY Zenon, <1>1, <1>3, <1>4, <2>1, <2>2 DEF HeldInv, world
<1>12. AcksInv'
  BY <1>1, <1>5, AskedFinite DEF AcksInv, Types, world
<1> QED BY Zenon, <1>6, <1>7, <1>8, <1>9, <1>10, <1>11, <1>12

-----------------------------------------------------------------------------
(* The program *)

\* Threads come, block and go, but not while one collects.
LEMMA ProgramPreserves ==
  ASSUME IInv, NEW t \in Threads,
         \/ Register(t) \/ Unregister(t) \/ BlockStart(t) \/ BlockEnd(t)
         \/ \E u \in Threads : Create(t, u)
  PROVE  IInv'
<1> USE DEF IInv, handling, world
<1>1. /\ UNCHANGED <<world, ack_sem, handler, my_stop_count, signals>>
      /\ last_stop_count' \in [Threads -> Nat]
      /\ \A v \in Threads : last_stop_count'[v] \in {0, last_stop_count[v]}
  BY DEF Register, Unregister, BlockStart, BlockEnd, Create, Types
<1>2. \/ collector = Nobody
      \/ UNCHANGED <<gc_threads, thread_blocked>>
  BY Zenon DEF Register, Unregister, BlockStart, BlockEnd, Create
<1>3. AskedSet' = AskedSet /\ \A v \in Threads : Asked(v)' = Asked(v) /\ Held(v)' = Held(v)
  BY Zenon, <1>1 DEF AskedSet, Asked, Held
<1>4. Types' /\ TableInv'
  <2>1. CASE Register(t)
    BY Zenon, <2>1 DEF Register, Types, TableInv
  <2>2. CASE Unregister(t)
    BY Zenon, <2>2 DEF Unregister, Types, TableInv, Runs
  <2>3. CASE BlockStart(t)
    BY Zenon, <2>3 DEF BlockStart, Types, TableInv, Runs
  <2>4. CASE BlockEnd(t)
    BY Zenon, <2>4 DEF BlockEnd, Types, TableInv
  <2>5. ASSUME NEW u \in Threads, Create(t, u)
        PROVE  Types' /\ TableInv'
    BY Zenon, <2>5 DEF Create, Types, TableInv
  <2> QED BY Zenon, <2>1, <2>2, <2>3, <2>4, <2>5
<1>5. CountsInv'
  BY <1>1 DEF CountsInv, Types
<1>6. FreshInv'
  BY <1>1 DEF FreshInv
<1>7. AskedInv' /\ HeldInv'
  <2>1. CASE collector = Nobody
    <3>1. phase = "none" /\ AskedSet = {}
      BY Zenon, <2>1 DEF Types, AskedInv
    <3> QED BY Zenon, <1>1, <1>3, <3>1 DEF AskedInv, HeldInv
  <2>2. CASE UNCHANGED <<gc_threads, thread_blocked>>
    <3>1. Visited' = Visited /\ Visited \subseteq Threads
      BY Zenon, <1>1, <2>2 DEF Visited, Types
    <3> QED BY Zenon, <1>1, <1>3, <3>1 DEF AskedInv, HeldInv
  <2> QED BY Zenon, <1>2, <2>1, <2>2
<1>8. AcksInv'
  BY Zenon, <1>1, <1>3 DEF AcksInv
<1> QED BY Zenon, <1>4, <1>5, <1>6, <1>7, <1>8

-----------------------------------------------------------------------------
(* The collector *)

\* What no step of the collector changes, apart from its signals.
LEMMA CollectorFrame ==
  ASSUME UNCHANGED <<others, signals>>
  PROVE  /\ UNCHANGED <<retry_signals, gc_threads, thread_blocked, pc, last_stop_count,
                         handler, my_stop_count>>
         /\ AskedSet' = AskedSet
         /\ \A v \in Threads : Asked(v)' = Asked(v)
<1>1. UNCHANGED <<retry_signals, gc_threads, thread_blocked, pc, last_stop_count,
                  handler, my_stop_count>>
  BY Zenon DEF others, table
<1> QED BY Zenon, <1>1 DEF AskedSet, Asked

\* A collection begins, with a GC_stop_count that nobody has read.
LEMMA StopWorldPreserves ==
  ASSUME IInv, NEW t \in Threads, StopWorld(t)
  PROVE  IInv'
<1> USE DEF IInv
<1>1. /\ collector = Nobody /\ collector' = t /\ phase' = "flag"
      /\ stop_count' = stop_count + 1
      /\ UNCHANGED <<todo, sent, n_live_threads, world_is_stopped, ack_sem, signals, others>>
  BY Zenon DEF StopWorld
<1>2. phase = "none" /\ AskedSet = {} /\ ack_sem = 0
  BY Zenon, <1>1 DEF Types, AskedInv
<1>3. /\ UNCHANGED <<retry_signals, gc_threads, thread_blocked, pc, last_stop_count,
                      handler, my_stop_count>>
      /\ AskedSet' = {}
  BY Zenon, <1>1, <1>2, CollectorFrame
<1>4. Types'
  BY <1>1, <1>2, <1>3, ConstantsAssumption DEF Types
<1>5. TableInv'
  BY Zenon, <1>3 DEF TableInv
<1>6. CountsInv' /\ \A v \in Threads : my_stop_count'[v] # stop_count'
  BY <1>1, <1>3 DEF CountsInv, Types
<1>7. AskedInv'
  BY Zenon, <1>1, <1>2, <1>3 DEF AskedInv
<1>8. FreshInv'
  <2>1. \A v \in Threads : handler[v] # "post"
    BY Zenon, <1>2 DEF AskedSet, Asked
  <2> QED BY Zenon, <1>1, <1>3, <1>6, <2>1 DEF FreshInv
<1>9. HeldInv' /\ AcksInv'
  BY Zenon, <1>1 DEF HeldInv, AcksInv
<1> QED BY Zenon, <1>4, <1>5, <1>6, <1>7, <1>8, <1>9

\* GC_suspend_all begins: it has come by nobody.
LEMMA RaiseFlagPreserves ==
  ASSUME IInv, RaiseFlag
  PROVE  IInv'
<1> USE DEF IInv
<1>1. /\ phase = "flag" /\ phase' = "suspend" /\ world_is_stopped' = TRUE
      /\ todo' = gc_threads \ {collector} /\ sent' = 0
      /\ UNCHANGED <<n_live_threads, collector, stop_count, ack_sem, signals, others>>
  BY Zenon DEF RaiseFlag, Goes, Walk
<1>2. AskedSet = {} /\ ack_sem = 0
  BY Zenon, <1>1 DEF AskedInv
<1>3. /\ UNCHANGED <<retry_signals, gc_threads, thread_blocked, pc, last_stop_count,
                      handler, my_stop_count>>
      /\ AskedSet' = {}
  BY Zenon, <1>1, <1>2, CollectorFrame
<1>4. Types'
  BY Zenon, <1>1, <1>3 DEF Types
<1>5. TableInv' /\ CountsInv'
  BY Zenon, <1>1, <1>3 DEF TableInv, CountsInv
<1>6. AskedInv' /\ FreshInv'
  BY Zenon, <1>1, <1>3 DEF AskedInv, FreshInv
<1>7. HeldInv'
  <2>1. Visited' = {}
    BY Zenon, <1>1, <1>3 DEF Visited
  <2> QED BY Zenon, <2>1 DEF HeldInv
<1>8. AcksInv'
  BY <1>1, <1>2, <1>3, FS_EmptySet DEF AcksInv
<1> QED BY Zenon, <1>4, <1>5, <1>6, <1>7, <1>8

\* GC_suspend_all comes by a thread, and asks it unless it is blocked.
LEMMA SuspendPreserves ==
  ASSUME IInv, NEW p \in Threads, Suspend(p)
  PROVE  IInv'
<1> USE DEF IInv
<1>1. /\ phase = "suspend" /\ p \in todo /\ todo' = todo \ {p}
      /\ UNCHANGED <<collector, phase, n_live_threads, stop_count, world_is_stopped,
                      ack_sem, others>>
  BY Zenon DEF Suspend, Visit, Types
<1>2. my_stop_count[p] # stop_count /\ last_stop_count[p] # stop_count
  BY <1>1 DEF FreshInv, CountsInv, Types
<1>3. UNCHANGED <<retry_signals, gc_threads, thread_blocked, pc, last_stop_count,
                  handler, my_stop_count>>
  BY Zenon, <1>1 DEF others, table
<1>4. p \notin AskedSet
  BY Zenon, <1>1 DEF AskedInv, Visited
<1>5. TableInv' /\ CountsInv'
  BY Zenon, <1>1, <1>3 DEF TableInv, CountsInv
<1>6. CASE p \in thread_blocked
  <2>1. UNCHANGED <<signals, sent>>
    BY <1>6 DEF Suspend, Visit, Types
  <2>2. AskedSet' = AskedSet /\ \A v \in Threads : Asked(v)' = Asked(v)
    BY Zenon, <1>1, <2>1, CollectorFrame
  <2>3. Visited' = Visited
    BY Zenon, <1>1, <1>3, <1>6 DEF Visited
  <2>4. Types'
    BY Zenon, <1>1, <1>3, <2>1 DEF Types
  <2>5. AskedInv' /\ FreshInv'
    BY Zenon, <1>1, <1>3, <2>1, <2>2, <2>3 DEF AskedInv, FreshInv
  <2>6. HeldInv'
    BY Zenon, <1>1, <1>3, <2>2, <2>3 DEF HeldInv, Held, Visited, Types
  <2>7. AcksInv'
    BY Zenon, <1>1, <2>1, <2>2 DEF AcksInv
  <2> QED BY Zenon, <1>5, <2>4, <2>5, <2>6, <2>7
<1>7. CASE p \notin thread_blocked
  <2>1. /\ sent' = sent + 1
        /\ signals' = [signals EXCEPT ![p] = @ \cup {"suspend"}]
    BY Zenon, <1>2, <1>7 DEF Suspend, Visit
  <2>2. \A v \in Threads : Asked(v)' <=> Asked(v) \/ v = p
    BY Zenon, <1>3, <2>1 DEF Asked, Types
  <2>3. AskedSet' = AskedSet \cup {p}
    BY Zenon, <2>2 DEF AskedSet
  <2>4. Cardinality(AskedSet') = Cardinality(AskedSet) + 1
    BY Zenon, <1>4, <2>3, AskedFinite, FS_AddElement
  <2>5. p \in gc_threads /\ p # collector
    BY Zenon, <1>1 DEF Types
  <2>6. Visited' = Visited \cup {p}
    BY Zenon, <1>1, <1>3, <1>7, <2>5 DEF Visited
  <2>7. Types'
    BY <1>1, <1>3, <2>1 DEF Types
  <2>8. AskedInv'
    <3>1. handler[p] \notin {"enter", "post"}
      BY Zenon, <1>4 DEF AskedSet, Asked
    <3> QED BY Zenon, <1>1, <1>3, <2>1, <2>3, <2>6, <3>1 DEF AskedInv, Types
  <2>9. FreshInv'
    BY Zenon, <1>1, <1>2, <1>3, <2>1 DEF FreshInv, Types
  <2>10. HeldInv'
    BY Zenon, <1>1, <1>3, <2>2, <2>6 DEF HeldInv, Held, Visited, Types
  <2>11. AcksInv'
    BY <1>1, <2>1, <2>4, AskedFinite DEF AcksInv, Types
  <2> QED BY Zenon, <1>5, <2>7, <2>8, <2>9, <2>10, <2>11
<1> QED BY Zenon, <1>6, <1>7

\* GC_stop_world has sent its signals, takes an acknowledgement, or has them all.
LEMMA AckPreserves ==
  ASSUME IInv, Suspended \/ TakeAck \/ Mark
  PROVE  IInv'
<1> USE DEF IInv
<1>1. UNCHANGED <<collector, todo, sent, stop_count, world_is_stopped, signals, others>>
  BY Zenon DEF Suspended, TakeAck, Mark
<1>2. /\ UNCHANGED <<retry_signals, gc_threads, thread_blocked, pc, last_stop_count,
                      handler, my_stop_count>>
      /\ AskedSet' = AskedSet
      /\ \A v \in Threads : Asked(v)' = Asked(v)
  BY Zenon, <1>1, CollectorFrame
<1>3. TableInv' /\ CountsInv'
  BY Zenon, <1>1, <1>2 DEF TableInv, CountsInv
<1>4. /\ phase \in {"suspend", "take"} /\ phase' \in {"take", "mark"} /\ todo = {}
      /\ phase' = "mark" => n_live_threads = 0 /\ phase = "take" /\ UNCHANGED ack_sem
  BY Zenon DEF Suspended, TakeAck, Mark, Goes, AllTaken, Types
<1>5. AcksInv' /\ n_live_threads' \in Nat /\ ack_sem' \in Nat
  <2>1. CASE Suspended
    BY Zenon, <1>2, <2>1 DEF Suspended, Goes, AcksInv, Types
  <2>2. CASE TakeAck
    BY <1>2, <2>2, AskedFinite DEF TakeAck, Goes, AcksInv, Types
  <2>3. CASE Mark
    BY Zenon, <1>2, <2>3 DEF Mark, Goes, AcksInv, Types
  <2> QED BY Zenon, <2>1, <2>2, <2>3
<1>6. Types'
  BY Zenon, <1>1, <1>2, <1>4, <1>5 DEF Types
<1>7. FreshInv'
  BY <1>1, <1>2, <1>4 DEF FreshInv
<1>8. Visited' = Visited /\ Visited \subseteq Threads
  BY Zenon, <1>1, <1>2 DEF Visited, Types
<1>9. HeldInv'
  BY Zenon, <1>1, <1>2, <1>4, <1>8 DEF HeldInv, Held
<1>10. phase' = "mark" => AskedSet = {} /\ ack_sem = 0
  <2>1. phase' = "mark" => Cardinality(AskedSet) = 0 /\ ack_sem = 0
    BY <1>4, AskedFinite DEF AcksInv, Types
  <2> QED BY Zenon, <2>1, AskedFinite, FS_EmptySet
<1>11. AskedInv'
  BY Zenon, <1>1, <1>2, <1>4, <1>8, <1>10 DEF AskedInv
<1> QED BY Zenon, <1>3, <1>5, <1>6, <1>7, <1>9, <1>11

\* GC_start_world: the flag goes down, and the others get the restart signal.
LEMMA StartPreserves ==
  ASSUME IInv, StartWorld \/ Collected \/ \E p \in Threads : Restart(p)
  PROVE  IInv'
<1> USE DEF IInv
<1>1. /\ phase \in {"mark", "restart"} /\ phase' \in {"restart", "none"}
      /\ UNCHANGED <<stop_count, ack_sem, others>>
  BY Zenon DEF StartWorld, Collected, Restart, Visit, Goes, Walk
<1>2. UNCHANGED <<retry_signals, gc_threads, thread_blocked, pc, last_stop_count,
                  handler, my_stop_count>>
  BY Zenon, <1>1 DEF others, table
<1>3. /\ signals' \in [Threads -> SUBSET {"suspend", "restart"}]
      /\ \A v \in Threads : "suspend" \in signals'[v] <=> "suspend" \in signals[v]
  <2>1. ASSUME NEW p \in Threads, Restart(p)
        PROVE  /\ signals' \in [Threads -> SUBSET {"suspend", "restart"}]
               /\ \A v \in Threads : "suspend" \in signals'[v] <=> "suspend" \in signals[v]
    BY Zenon, <2>1 DEF Restart, Visit, Types
  <2>2. CASE StartWorld \/ Collected
    BY Zenon, <2>2 DEF StartWorld, Collected, Walk, Types
  <2> QED BY Zenon, <2>1, <2>2
<1>4. AskedSet' = {} /\ AskedSet = {} /\ ack_sem = 0
  <2>1. AskedSet = {} /\ ack_sem = 0
    BY Zenon, <1>1 DEF AskedInv
  <2> QED BY Zenon, <1>2, <1>3, <2>1 DEF AskedSet, Asked
<1>5. Types'
  <2>1. ASSUME NEW p \in Threads, Restart(p)
        PROVE  Types'
    BY <1>2, <1>3, <2>1 DEF Restart, Visit, Types
  <2>2. CASE StartWorld
    <3>1. /\ phase = "mark" /\ phase' = "restart" /\ world_is_stopped' = FALSE
          /\ todo' = gc_threads \ {collector} /\ sent' = 0
          /\ UNCHANGED <<collector, n_live_threads, stop_count, ack_sem>>
      BY Zenon, <2>2 DEF StartWorld, Goes, Walk
    <3> QED BY Zenon, <1>2, <1>3, <3>1 DEF Types
  <2>3. CASE Collected
    BY Zenon, <1>2, <1>3, <2>3 DEF Collected, Goes, Types
  <2> QED BY Zenon, <2>1, <2>2, <2>3
<1>6. TableInv' /\ CountsInv'
  BY Zenon, <1>1, <1>2 DEF TableInv, CountsInv
<1>7. AskedInv'
  BY Zenon, <1>1, <1>2, <1>3, <1>4 DEF AskedInv
<1>8. FreshInv' /\ HeldInv' /\ AcksInv'
  BY Zenon, <1>1, <1>2 DEF FreshInv, HeldInv, AcksInv
<1> QED BY Zenon, <1>5, <1>6, <1>7, <1>8

-----------------------------------------------------------------------------
(* The theorems *)

\* The invariant of a collector that does not retry its signals: who is asked, who
\* has acknowledged and how many acknowledgements are to come.
THEOREM Invariance ==
  Spec /\ retry_signals = FALSE => []IInv
<1>1. ASSUME Init, retry_signals = FALSE
      PROVE  IInv
  <2>1. AskedSet = {}
    BY Zenon, <1>1 DEF Init, AskedSet, Asked
  <2>2. Types
    BY Zenon, <1>1, ConstantsAssumption DEF Init, Types
  <2>3. TableInv /\ CountsInv
    BY <1>1 DEF Init, TableInv, CountsInv
  <2>4. AskedInv /\ FreshInv /\ HeldInv /\ AcksInv
    BY Zenon, <1>1, <2>1 DEF Init, AskedInv, FreshInv, HeldInv, AcksInv
  <2> QED BY Zenon, <2>2, <2>3, <2>4 DEF IInv
<1>2. ASSUME IInv, [Next]_vars
      PROVE  IInv'
  <2>1. CASE Collect
    <3>1. ~(AllCounted \/ Timeout \/ Resent)
      BY Zenon, <1>2 DEF AllCounted, Timeout, Resent, Goes, IInv, Types
    <3> QED BY Zenon, <1>2, <2>1, <3>1, RaiseFlagPreserves, SuspendPreserves, AckPreserves,
               StartPreserves DEF Collect
  <2>2. ASSUME NEW t \in Threads, Handle(t) \/ Wake(t)
        PROVE  IInv'
    BY Zenon, <1>2, <2>2, DeliverPreserves, EnterPreserves, PostPreserves, LoopPreserves DEF Handle
  <2>3. ASSUME NEW t \in Threads,
               \/ Register(t) \/ Unregister(t) \/ BlockStart(t) \/ BlockEnd(t)
               \/ \E u \in Threads : Create(t, u)
        PROVE  IInv'
    BY Zenon, <1>2, <2>3, ProgramPreserves
  <2>4. ASSUME NEW t \in Threads, StopWorld(t)
        PROVE  IInv'
    BY Zenon, <1>2, <2>4, StopWorldPreserves
  <2>5. CASE UNCHANGED vars
    BY <1>2, <2>5 DEF vars, world, table, IInv, Types, TableInv, CountsInv, AskedInv,
                      FreshInv, HeldInv, AcksInv, AskedSet, Asked, Held, Visited
  <2> QED BY Zenon, <1>2, <2>1, <2>2, <2>3, <2>4, <2>5 DEF Next
<1> QED BY <1>1, <1>2, PTL DEF Spec

\* While the collector marks, every other thread that runs the program is held in
\* its handler for this collection.
THEOREM OthersHeld ==
  Spec /\ retry_signals = FALSE => []WorldStopped
<1>1. IInv => WorldStopped
  <2> SUFFICES ASSUME IInv, phase = "mark", NEW t \in Threads \ {collector}, pc[t] = "run"
               PROVE  handler[t] \in Holding /\ my_stop_count[t] = stop_count
    BY Zenon DEF WorldStopped, Holding
  <2>1. t \in Visited
    BY Zenon DEF IInv, TableInv, Types, Visited
  <2>2. ~Asked(t)
    BY Zenon DEF IInv, AskedInv, AskedSet
  <2> QED BY Zenon, <2>1, <2>2 DEF IInv, HeldInv, Held
<1> QED BY <1>1, Invariance, PTL

\* When the allocation lock is free, there is no acknowledgement that the next
\* GC_stop_world could take for its own.
THEOREM AcksMatched ==
  Spec /\ retry_signals = FALSE => []NoStrayAck
<1>1. IInv => NoStrayAck
  BY Zenon DEF IInv, Types, AskedInv, AskedSet, Asked, NoStrayAck
<1> QED BY <1>1, Invariance, PTL

\* While the collector marks, no thread comes, goes, or moves on in the program.
THEOREM NothingMoves ==
  Spec /\ retry_signals = FALSE => MarkingUndisturbed
<1>1. IInv /\ [Next]_vars => [phase = "mark" => UNCHANGED table]_vars
  <2> SUFFICES ASSUME IInv, Next, phase = "mark"
               PROVE  UNCHANGED table
    BY Zenon
  <2>1. collector # Nobody
    BY Zenon DEF IInv, Types
  <2>2. \A t \in Threads : ~Runs(t)
    <3> SUFFICES ASSUME NEW t \in Threads, Runs(t)
                 PROVE  FALSE
      BY Zenon
    <3>1. t \in Visited /\ ~Held(t)
      BY Zenon DEF Runs, IInv, TableInv, Types, Visited, Held, Holding
    <3>2. ~Asked(t)
      BY Zenon DEF IInv, AskedInv, AskedSet
    <3> QED BY Zenon, <3>1, <3>2 DEF IInv, HeldInv
  <2>3. CASE Collect
    BY Zenon, <2>3 DEF Collect, RaiseFlag, Suspended, AllCounted, Timeout, Resent, TakeAck, Mark,
                StartWorld, Collected, Suspend, Restart, Visit, Walk, others
  <2>4. ASSUME NEW t \in Threads, Handle(t) \/ Wake(t)
        PROVE  UNCHANGED table
    BY <2>4 DEF Handle, Deliver, Enter, Post, Store, CheckFlag, CheckCount, RestartIgnored,
                Wake
  <2>5. ASSUME NEW t \in Threads, StopWorld(t)
        PROVE  UNCHANGED table
    BY Zenon, <2>1, <2>5 DEF StopWorld
  <2> QED BY Zenon, <2>1, <2>2, <2>3, <2>4, <2>5
          DEF Next, Register, Unregister, BlockStart, BlockEnd, Create
<1> QED BY <1>1, Invariance, PTL DEF Spec, MarkingUndisturbed
=============================================================================
