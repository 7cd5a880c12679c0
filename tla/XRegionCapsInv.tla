---------------------------- MODULE XRegionCapsInv --------------------------
(***************************************************************************)
(* Proofs about XRegionCaps for any set of threads, any bound on the       *)
(* counts and any calls the program makes, provided that                   *)
(*   - no call asks for the write lock and changes the read count at once, *)
(*   - no spawn hands over a lock (references only).                       *)
(* Both provisos are necessary.  The runs spawn_write and spawn_read show  *)
(* what happens without the second; without the first, the read part of a  *)
(* call that waits for the write lock is applied once per round.           *)
(* This module has the inductive invariant, and that the calls of the      *)
(* program preserve it; XRegionCapsProofs has __xregion_lockop and the     *)
(* theorems.                                                               *)
(***************************************************************************)
EXTENDS XRegionCaps, FiniteSetTheorems, TLAPS

\* No cap(h,rgc,wc,rc) with wc > 0 and rc # 0.
NoMixedRequest == \A c \in CapOps : c[2] > 0 => c[3] = 0

\* Only spawn ($(h,rc,0,0)).
ReferencesOnly == \A c \in SpawnCaps : c[2] = 0 /\ c[3] = 0

InLockop == {"wait", "asleep", "lock", "body"}

-----------------------------------------------------------------------------
(* The inductive invariant *)

\* The mutex is held by the thread in the body or in the allocator.
MutexInv ==
    \A t \in Threads : /\ pc[t] = "body" => lock = t
                       /\ lock = t => pc[t] \in {"body", "alloc"}

\* The frame of a running __xregion_lockop: its counts suffice, and a thread
\* that waits has waited for one thing only.
OpInv ==
    \A t \in Threads :
        /\ pc[t] \in InLockop =>
              /\ op[t] # <<0, 0>>
              /\ local_wr[t] + op[t][1] >= 0
              /\ local_rd[t] + op[t][2] >= 0
              /\ op[t][1] > 0 => op[t][2] = 0
        /\ pc[t] \in {"wait", "asleep"} => wait_wq[t] \/ wait_rq[t]
        /\ wait_wq[t] => /\ pc[t] \in {"wait", "asleep", "lock"} /\ ~wait_rq[t]
                         /\ local_wr[t] = 0 /\ op[t][1] > 0
        /\ wait_rq[t] => /\ pc[t] \in {"wait", "asleep", "lock"}
                         /\ local_wr[t] = 0 /\ local_rd[t] = 0

\* A thread that gives its last reference up releases exactly what it holds.
DropInv ==
    \A t \in Threads :
        /\ dropping[t] =>
              /\ pc[t] \in {"lock", "body", "drop"}
              /\ pc[t] # "drop" => op[t] = <<-local_wr[t], -local_rd[t]>>
        /\ pc[t] = "drop" => dropping[t] /\ local_wr[t] = 0 /\ local_rd[t] = 0

\* Locks and calls presuppose a reference.
RefInv ==
    \A t \in Threads :
        (\/ local_wr[t] > 0 \/ local_rd[t] > 0
         \/ pc[t] \notin {"unborn", "idle", "create"}) => local_ref[t] > 0

\* A thread that is being spawned has references, no locks and one parent.
SpawnInv ==
    /\ \A t \in Threads :
        /\ pc[t] = "unborn" => /\ local_wr[t] = 0 /\ local_rd[t] = 0
                               /\ child[t] = None
                               /\ local_ref[t] > 0 => \E v \in Threads : child[v] = t
        /\ child[t] # None => /\ pc[child[t]] = "unborn"
                              /\ pc[t] \in {"lock", "body", "drop", "create"}
                              /\ pc[t] \in {"lock", "body"} => dropping[t]
        /\ pc[t] = "create" => child[t] # None
    /\ \A t, u \in Threads : child[t] = child[u] /\ child[t] # None => t = u

\* What was loaded under the mutex is still there: only the body changes it.
RegInv == \A t \in Threads : pc[t] = "body" => reg[t] = rd_cnt

\* writer_cv names the writer, and nobody else reads.
WriterInv ==
    /\ \A t \in Threads : local_wr[t] > 0 <=> wr_cv = t
    /\ \A t, u \in Threads : wr_cv = t /\ u # t => local_rd[u] = 0

FreesInv == frees = IF g_rcnt = 0 THEN 1 ELSE 0

\* A cached key is the creator's, who has not shared the region yet.
KeyInv == skey # None => skey = Main /\ \A u \in Threads \ {Main} : local_ref[u] = 0

\* Who allocates has the mutex or the region to itself.
AllocInv ==
    \A t \in Threads :
        pc[t] = "alloc" => lock = t \/ \A u \in Threads \ {t} : local_ref[u] = 0

\* Sleepers hold nothing; readers sleep only while reader_cv is set; and while
\* a writer sleeps, or a reader may go to sleep, somebody is active.
SleepInv ==
    /\ \A t \in Threads :
        pc[t] = "asleep" => /\ local_wr[t] = 0 /\ local_rd[t] = 0
                            /\ wait_rq[t] => rd_cv = 1
    /\ (\E t \in Threads : pc[t] = "asleep" /\ wait_wq[t])
          => \E u \in Threads : Active(u)
    /\ (\E t \in Threads : wait_rq[t]) /\ rd_cv = 1
          => \E u \in Threads : Active(u)

IInv ==
    /\ TypeOK /\ MutexInv /\ OpInv /\ DropInv /\ RefInv /\ SpawnInv /\ RegInv
    /\ WriterInv /\ ReadersCounted /\ RefsCounted /\ QueuesCounted
    /\ FreesInv /\ KeyInv /\ AllocInv /\ SleepInv

-----------------------------------------------------------------------------
(* Counting *)

\* A set of threads is finite and has a cardinality.
LEMMA ThreadSets ==
  ASSUME NEW S \in SUBSET Threads
  PROVE  IsFiniteSet(S) /\ Cardinality(S) \in Nat
BY Zenon, ThreadsFinite, FS_Subset, FS_CardinalityType

\* What a change of one thread's count does to the number of holders.
LEMMA HoldingUpdate ==
  ASSUME NEW f \in [Threads -> Nat], NEW g \in [Threads -> Nat], NEW t \in Threads,
         \A u \in Threads \ {t} : g[u] = f[u]
  PROVE  Cardinality(Holding(g)) =
           Cardinality(Holding(f)) + (IF g[t] > 0 THEN 1 ELSE 0) - (IF f[t] > 0 THEN 1 ELSE 0)
<1>1. /\ IsFiniteSet(Holding(f)) /\ Cardinality(Holding(f)) \in Nat
      /\ IsFiniteSet(Holding(g)) /\ Cardinality(Holding(g)) \in Nat
  BY Zenon, ThreadSets DEF Holding
<1>2. CASE g[t] > 0
  <2>1. Holding(g) = Holding(f) \cup {t}
    BY <1>2 DEF Holding
  <2>2. t \in Holding(f) <=> f[t] > 0
    BY Zenon DEF Holding
  <2>3. Cardinality(Holding(f) \cup {t}) =
          IF t \in Holding(f) THEN Cardinality(Holding(f)) ELSE Cardinality(Holding(f)) + 1
    BY Zenon, <1>1, FS_AddElement
  <2> QED BY <1>1, <1>2, <2>1, <2>2, <2>3
<1>3. CASE ~(g[t] > 0)
  <2>1. Holding(g) = Holding(f) \ {t}
    BY <1>3 DEF Holding
  <2>2. t \in Holding(f) <=> f[t] > 0
    BY Zenon DEF Holding
  <2>3. Cardinality(Holding(f) \ {t}) =
          IF t \in Holding(f) THEN Cardinality(Holding(f)) - 1 ELSE Cardinality(Holding(f))
    BY Zenon, <1>1, FS_RemoveElement
  <2> QED BY <1>1, <1>3, <2>1, <2>2, <2>3
<1> QED BY Zenon, <1>2, <1>3

\* The same for flags.
LEMMA MarkedUpdate ==
  ASSUME NEW f \in [Threads -> BOOLEAN], NEW g \in [Threads -> BOOLEAN], NEW t \in Threads,
         \A u \in Threads \ {t} : g[u] = f[u]
  PROVE  Cardinality(Marked(g)) =
           Cardinality(Marked(f)) + (IF g[t] THEN 1 ELSE 0) - (IF f[t] THEN 1 ELSE 0)
<1>1. /\ IsFiniteSet(Marked(f)) /\ Cardinality(Marked(f)) \in Nat
      /\ IsFiniteSet(Marked(g)) /\ Cardinality(Marked(g)) \in Nat
  BY Zenon, ThreadSets DEF Marked
<1>2. CASE g[t]
  <2>1. Marked(g) = Marked(f) \cup {t}
    BY Zenon, <1>2 DEF Marked
  <2>2. t \in Marked(f) <=> f[t]
    BY Zenon DEF Marked
  <2>3. Cardinality(Marked(f) \cup {t}) =
          IF t \in Marked(f) THEN Cardinality(Marked(f)) ELSE Cardinality(Marked(f)) + 1
    BY Zenon, <1>1, FS_AddElement
  <2> QED BY <1>1, <1>2, <2>1, <2>2, <2>3
<1>3. CASE ~g[t]
  <2>1. Marked(g) = Marked(f) \ {t}
    BY Zenon, <1>3 DEF Marked
  <2>2. t \in Marked(f) <=> f[t]
    BY Zenon DEF Marked
  <2>3. Cardinality(Marked(f) \ {t}) =
          IF t \in Marked(f) THEN Cardinality(Marked(f)) - 1 ELSE Cardinality(Marked(f))
    BY Zenon, <1>1, FS_RemoveElement
  <2> QED BY <1>1, <1>3, <2>1, <2>2, <2>3
<1> QED BY Zenon, <1>2, <1>3

\* Nobody, or exactly one thread, holds.
LEMMA HoldingFew ==
  ASSUME NEW f \in [Threads -> Nat]
  PROVE  /\ Cardinality(Holding(f)) = 0 <=> \A u \in Threads : f[u] = 0
         /\ Cardinality(Holding(f)) = 1 =>
               \A t, u \in Threads : f[t] > 0 /\ u # t => f[u] = 0
         /\ \A t \in Threads : f[t] > 0 => Cardinality(Holding(f)) > 0
<1>1. IsFiniteSet(Holding(f)) /\ Cardinality(Holding(f)) \in Nat
  BY Zenon, ThreadSets DEF Holding
<1>2. Cardinality(Holding(f)) = 0 <=> Holding(f) = {}
  BY Zenon, <1>1, FS_EmptySet
<1>3. Cardinality(Holding(f)) = 1 => \E x : Holding(f) = {x}
  BY Zenon, <1>1, FS_Singleton
<1> QED BY <1>1, <1>2, <1>3 DEF Holding

\* A flag is counted exactly if some thread has raised it.
LEMMA MarkedSome ==
  ASSUME NEW f \in [Threads -> BOOLEAN]
  PROVE  Cardinality(Marked(f)) # 0 <=> \E u \in Threads : f[u]
<1>1. IsFiniteSet(Marked(f))
  BY Zenon, ThreadSets DEF Marked
<1>2. Cardinality(Marked(f)) = 0 <=> Marked(f) = {}
  BY Zenon, <1>1, FS_EmptySet
<1> QED BY Zenon, <1>2 DEF Marked

-----------------------------------------------------------------------------
(* The simple actions *)

\* A step that leaves the region, the counts and the queues alone preserves what
\* is said about them.
LEMMA CountsFrame ==
  ASSUME IInv, UNCHANGED <<shared, counts, wait_wq, wait_rq>>
  PROVE  /\ WriterInv' /\ ReadersCounted' /\ RefsCounted'
         /\ QueuesCounted' /\ FreesInv' /\ KeyInv'
<1> USE DEF IInv, shared, counts
<1>1. WriterInv' /\ FreesInv' /\ KeyInv'
  BY Zenon DEF WriterInv, FreesInv, KeyInv
<1>2. ReadersCounted' /\ RefsCounted'
  BY Zenon DEF ReadersCounted, RefsCounted, Holding
<1>3. QueuesCounted'
  BY Zenon DEF QueuesCounted, Marked
<1> QED BY Zenon, <1>1, <1>2, <1>3

\* A thread with a reference moves between the program and the allocator.
LEMMA AllocFrame ==
  ASSUME IInv, NEW t \in Threads, UNCHANGED <<shared, counts, frame>>,
         local_ref[t] > 0, pc[t] \in {"idle", "mlock", "alloc"},
         NEW x \in {"idle", "mlock", "alloc"}, pc' = [pc EXCEPT ![t] = x],
         lock' \in Threads \cup {None}
  PROVE  TypeOK' /\ OpInv' /\ DropInv' /\ RefInv' /\ SpawnInv' /\ RegInv' /\ SleepInv'
<1> USE MainIsThread, NoneNotThread DEF IInv, shared, counts, frame
<1>1. TypeOK'
  BY Zenon DEF TypeOK, PCs
<1>2. OpInv'
  BY DEF TypeOK, OpInv, InLockop
<1>3. DropInv'
  BY Zenon DEF TypeOK, DropInv
<1>4. RefInv'
  BY Zenon DEF TypeOK, RefInv
<1>5. SpawnInv'
  BY DEF TypeOK, SpawnInv
<1>6. RegInv'
  BY Zenon DEF TypeOK, RegInv
<1>7. SleepInv'
  BY DEF TypeOK, SleepInv, Active, OpInv
<1> QED BY Zenon, <1>1, <1>2, <1>3, <1>4, <1>5, <1>6, <1>7

\* A thread reads its condition variable, and perhaps sleeps.
LEMMA CvWaitPreserves ==
  ASSUME IInv, NEW t \in Threads, CvWait(t)
  PROVE  IInv'
<1> USE MainIsThread, NoneNotThread DEF IInv, CvWait, shared, counts, frame
<1>1. TypeOK'
  BY Zenon DEF TypeOK, PCs
<1>2. MutexInv'
  BY Zenon DEF TypeOK, MutexInv
<1>3. OpInv'
  BY Zenon DEF TypeOK, OpInv, InLockop
<1>4. DropInv'
  BY Zenon DEF TypeOK, DropInv
<1>5. RefInv'
  BY Zenon DEF TypeOK, RefInv
<1>6. SpawnInv'
  BY DEF TypeOK, SpawnInv
<1>7. RegInv'
  BY Zenon DEF TypeOK, RegInv
<1>8. AllocInv'
  BY Zenon DEF TypeOK, AllocInv
<1>9. SleepInv'
  BY DEF TypeOK, SleepInv, Active, OpInv, WriterInv
<1> QED BY Zenon, <1>1, <1>2, <1>3, <1>4, <1>5, <1>6, <1>7, <1>8, <1>9, CountsFrame DEF IInv, frame

\* A sleeper returns by itself.
LEMMA CvTimeoutPreserves ==
  ASSUME IInv, NEW t \in Threads, CvTimeout(t)
  PROVE  IInv'
<1> USE MainIsThread, NoneNotThread DEF IInv, CvTimeout, shared, counts, frame
<1>1. TypeOK'
  BY Zenon DEF TypeOK, PCs
<1>2. MutexInv'
  BY Zenon DEF TypeOK, MutexInv
<1>3. OpInv'
  BY DEF TypeOK, OpInv, InLockop
<1>4. DropInv'
  BY Zenon DEF TypeOK, DropInv
<1>5. RefInv'
  BY Zenon DEF TypeOK, RefInv
<1>6. SpawnInv'
  BY DEF TypeOK, SpawnInv
<1>7. RegInv'
  BY Zenon DEF TypeOK, RegInv
<1>8. AllocInv'
  BY Zenon DEF TypeOK, AllocInv
<1>9. SleepInv'
  BY DEF TypeOK, SleepInv, Active, OpInv
<1> QED BY Zenon, <1>1, <1>2, <1>3, <1>4, <1>5, <1>6, <1>7, <1>8, <1>9, CountsFrame DEF IInv, frame

\* The allocator decides whether to take the mutex.
LEMMA MallocPreserves ==
  ASSUME IInv, NEW t \in Threads, Malloc(t)
  PROVE  IInv'
<1> USE MainIsThread, NoneNotThread DEF IInv, Malloc
<1>1. TypeOK' /\ OpInv' /\ DropInv' /\ RefInv' /\ SpawnInv' /\ RegInv' /\ SleepInv'
  <2>1. local_ref[t] > 0 /\ lock' \in Threads \cup {None} /\ UNCHANGED <<shared, counts, frame>>
    BY Zenon DEF TypeOK, RefInv
  <2> QED BY Zenon, <2>1, AllocFrame
<1>2. MutexInv'
  BY Zenon DEF TypeOK, MutexInv
<1>3. AllocInv'
  <2>1. g_rcnt = 1 => \A u \in Threads \ {t} : local_ref[u] = 0
    BY Zenon, HoldingFew DEF TypeOK, RefsCounted
  <2> QED BY Zenon, <2>1 DEF TypeOK, AllocInv, counts
<1> QED BY Zenon, <1>1, <1>2, <1>3, CountsFrame DEF IInv, frame

\* attach_region asks for the mutex.
LEMMA AttachPreserves ==
  ASSUME IInv, NEW t \in Threads, Attach(t)
  PROVE  IInv'
<1> USE MainIsThread, NoneNotThread DEF IInv, Attach
<1>1. TypeOK' /\ OpInv' /\ DropInv' /\ RefInv' /\ SpawnInv' /\ RegInv' /\ SleepInv'
  <2>1. local_ref[t] > 0 /\ lock' \in Threads \cup {None} /\ UNCHANGED <<shared, counts, frame>>
    BY Zenon DEF TypeOK, RefInv
  <2> QED BY Zenon, <2>1, AllocFrame
<1>2. MutexInv'
  BY Zenon DEF TypeOK, MutexInv
<1>3. AllocInv'
  BY Zenon DEF TypeOK, AllocInv, RefInv, counts
<1> QED BY Zenon, <1>1, <1>2, <1>3, CountsFrame DEF IInv, frame

\* The allocator takes the mutex.
LEMMA MallocLockPreserves ==
  ASSUME IInv, NEW t \in Threads, MallocLock(t)
  PROVE  IInv'
<1> USE MainIsThread, NoneNotThread DEF IInv, MallocLock
<1>1. TypeOK' /\ OpInv' /\ DropInv' /\ RefInv' /\ SpawnInv' /\ RegInv' /\ SleepInv'
  <2>1. local_ref[t] > 0 /\ lock' \in Threads \cup {None} /\ UNCHANGED <<shared, counts, frame>>
    BY Zenon DEF TypeOK, RefInv
  <2> QED BY Zenon, <2>1, AllocFrame
<1>2. MutexInv'
  BY Zenon DEF TypeOK, MutexInv
<1>3. AllocInv'
  BY Zenon DEF TypeOK, AllocInv, RefInv, counts
<1> QED BY Zenon, <1>1, <1>2, <1>3, CountsFrame DEF IInv, frame

\* The allocator is done.
LEMMA MallocDonePreserves ==
  ASSUME IInv, NEW t \in Threads, MallocDone(t)
  PROVE  IInv'
<1> USE MainIsThread, NoneNotThread DEF IInv, MallocDone
<1>1. TypeOK' /\ OpInv' /\ DropInv' /\ RefInv' /\ SpawnInv' /\ RegInv' /\ SleepInv'
  <2>1. local_ref[t] > 0 /\ lock' \in Threads \cup {None} /\ UNCHANGED <<shared, counts, frame>>
    BY Zenon DEF TypeOK, RefInv
  <2> QED BY Zenon, <2>1, AllocFrame
<1>2. MutexInv'
  BY Zenon DEF TypeOK, MutexInv
<1>3. AllocInv'
  BY Zenon DEF TypeOK, AllocInv, RefInv, counts
<1> QED BY Zenon, <1>1, <1>2, <1>3, CountsFrame DEF IInv, frame

\* pthread_create starts the new thread.
LEMMA CreatePreserves ==
  ASSUME IInv, NEW t \in Threads, Create(t)
  PROVE  IInv'
<1> USE MainIsThread, NoneNotThread DEF IInv, Create, shared, counts, frame
<1>1. TypeOK'
  BY Zenon DEF TypeOK, PCs, SpawnInv
<1>2. MutexInv'
  BY DEF TypeOK, MutexInv, SpawnInv
<1>3. OpInv'
  BY DEF TypeOK, OpInv, InLockop, SpawnInv
<1>4. DropInv'
  BY DEF TypeOK, DropInv, SpawnInv
<1>5. RefInv'
  <2>1. \A u \in Threads : pc'[u] = pc[u] \/ pc'[u] = "idle"
    BY Zenon DEF TypeOK
  <2> QED BY Zenon, <2>1 DEF RefInv
<1>6. SpawnInv'
  BY DEF TypeOK, SpawnInv
<1>7. RegInv'
  BY DEF TypeOK, RegInv, SpawnInv
<1>8. AllocInv'
  BY DEF TypeOK, AllocInv, SpawnInv
<1>9. SleepInv'
  BY DEF TypeOK, SleepInv, Active, OpInv, SpawnInv
<1> QED BY Zenon, <1>1, <1>2, <1>3, <1>4, <1>5, <1>6, <1>7, <1>8, <1>9, CountsFrame DEF IInv

\* A thread takes the mutex, leaves its queue and loads rd_cnt.
LEMMA EnterBodyPreserves ==
  ASSUME IInv, NEW t \in Threads, EnterBody(t)
  PROVE  IInv'
<1> USE MainIsThread, NoneNotThread DEF IInv, EnterBody, shared, counts, frame
<1>1. TypeOK'
  <2>1. (wait_wq[t] => wr_q > 0) /\ (wait_rq[t] => rd_q > 0)
    <3>1. /\ Cardinality(Marked(wait_wq)) \in Nat /\ Cardinality(Marked(wait_rq)) \in Nat
      BY Zenon, ThreadSets DEF Marked
    <3> QED BY <3>1, MarkedSome DEF TypeOK, QueuesCounted
  <2> QED BY <2>1 DEF TypeOK, PCs, Dequeue
<1>2. MutexInv'
  BY Zenon DEF TypeOK, MutexInv
<1>3. OpInv'
  BY DEF TypeOK, OpInv, InLockop, OpInv
<1>4. DropInv'
  BY DEF TypeOK, DropInv, OpInv
<1>5. RefInv'
  BY Zenon DEF TypeOK, RefInv
<1>6. SpawnInv'
  BY DEF TypeOK, SpawnInv
<1>7. RegInv'
  BY Zenon DEF TypeOK, RegInv, MutexInv
<1>8. WriterInv'
  BY Zenon DEF WriterInv
<1>9. ReadersCounted'
  BY Zenon DEF ReadersCounted
<1>10. RefsCounted'
  BY Zenon DEF RefsCounted
<1>11. QueuesCounted'
  <2>1. /\ wait_wq' \in [Threads -> BOOLEAN] /\ ~wait_wq'[t]
        /\ \A u \in Threads \ {t} : wait_wq'[u] = wait_wq[u]
        /\ wait_rq' \in [Threads -> BOOLEAN] /\ ~wait_rq'[t]
        /\ \A u \in Threads \ {t} : wait_rq'[u] = wait_rq[u]
    BY Zenon DEF TypeOK
  <2>2. /\ Cardinality(Marked(wait_wq')) = Cardinality(Marked(wait_wq)) - (IF wait_wq[t] THEN 1 ELSE 0)
        /\ Cardinality(Marked(wait_rq')) = Cardinality(Marked(wait_rq)) - (IF wait_rq[t] THEN 1 ELSE 0)
    <3>1. /\ Cardinality(Marked(wait_wq)) \in Nat /\ Cardinality(Marked(wait_rq)) \in Nat
      BY Zenon, ThreadSets DEF Marked
    <3>2. Cardinality(Marked(wait_wq')) = Cardinality(Marked(wait_wq)) +
             (IF wait_wq'[t] THEN 1 ELSE 0) - (IF wait_wq[t] THEN 1 ELSE 0)
      BY Zenon, <2>1, MarkedUpdate DEF TypeOK
    <3>3. Cardinality(Marked(wait_rq')) = Cardinality(Marked(wait_rq)) +
             (IF wait_rq'[t] THEN 1 ELSE 0) - (IF wait_rq[t] THEN 1 ELSE 0)
      BY Zenon, <2>1, MarkedUpdate DEF TypeOK
    <3> QED BY <2>1, <3>1, <3>2, <3>3
  <2>3. ~(wait_wq[t] /\ wait_rq[t])
    BY Zenon DEF OpInv
  <2>4. Marked(wait_wq)' = Marked(wait_wq') /\ Marked(wait_rq)' = Marked(wait_rq')
    BY Zenon DEF Marked
  <2> QED BY <2>2, <2>3, <2>4 DEF QueuesCounted, Dequeue
<1>12. FreesInv'
  BY Zenon DEF FreesInv
<1>13. KeyInv'
  BY Zenon DEF KeyInv
<1>14. AllocInv'
  BY Zenon DEF TypeOK, AllocInv
<1>15. SleepInv'
  BY DEF TypeOK, SleepInv, Active, OpInv, MutexInv
<1> QED BY Zenon, <1>1, <1>2, <1>3, <1>4, <1>5, <1>6, <1>7, <1>8, <1>9, <1>10, <1>11, <1>12, <1>13, <1>14, <1>15 DEF IInv

-----------------------------------------------------------------------------
(* _xregion_cap and _xspawn *)

\* What _xregion_cap_th leaves behind, for Cap and for the end of __treecopy.
LEMMA CapThFacts ==
  ASSUME TypeOK, NEW t \in Threads, NEW c \in Int \X Int \X Int,
         NEW ch \in Threads \cup {None},
         Enough(t, c), CapTh(t, c, ch), c[2] > 0 => c[3] = 0
  PROVE  /\ op' \in [Threads -> Int \X Int]
         /\ dropping' \in [Threads -> BOOLEAN]
         /\ child' \in [Threads -> Threads \cup {None}]
         /\ pc' \in [Threads -> PCs]
         /\ \A u \in Threads \ {t} : /\ op'[u] = op[u] /\ dropping'[u] = dropping[u]
                                     /\ child'[u] = child[u] /\ pc'[u] = pc[u]
         /\ child'[t] = ch
         /\ pc'[t] \in {"lock", "drop", Return(ch)}
         /\ pc'[t] = "lock" => /\ op'[t] # <<0, 0>>
                               /\ local_wr[t] + op'[t][1] >= 0
                               /\ local_rd[t] + op'[t][2] >= 0
                               /\ op'[t][1] > 0 => op'[t][2] = 0
         /\ dropping'[t] => /\ pc'[t] \in {"lock", "drop"}
                            /\ op'[t] = <<-local_wr[t], -local_rd[t]>>
         /\ pc'[t] = "drop" => dropping'[t] /\ local_wr[t] = 0 /\ local_rd[t] = 0
         /\ c[2] = 0 /\ c[3] = 0 => (pc'[t] = "lock" => dropping'[t])
<1> DEFINE last == local_ref[t] + c[1] <= 0
           lk == IF last THEN <<-local_wr[t], -local_rd[t]>> ELSE <<c[2], c[3]>>
<1>1. local_wr[t] \in Nat /\ local_rd[t] \in Nat /\ local_ref[t] \in Nat
  BY Zenon DEF TypeOK
<1>2. c[1] \in Int /\ c[2] \in Int /\ c[3] \in Int
  BY Zenon
<1>3. /\ op'[t] = lk /\ lk \in Int \X Int
      /\ dropping'[t] = last /\ last \in BOOLEAN
      /\ child'[t] = ch
      /\ pc'[t] = IF lk # <<0, 0>> THEN "lock" ELSE IF last THEN "drop" ELSE Return(ch)
  BY <1>1, <1>2 DEF CapTh, TypeOK
<1>4. /\ op' \in [Threads -> Int \X Int]
      /\ dropping' \in [Threads -> BOOLEAN]
      /\ child' \in [Threads -> Threads \cup {None}]
      /\ pc' \in [Threads -> PCs]
  BY <1>1, <1>2 DEF CapTh, TypeOK, PCs, Return
<1>5. \A u \in Threads \ {t} : /\ op'[u] = op[u] /\ dropping'[u] = dropping[u]
                               /\ child'[u] = child[u] /\ pc'[u] = pc[u]
  BY Zenon DEF CapTh, TypeOK
<1>6. CASE last
  <2>1. lk = <<-local_wr[t], -local_rd[t]>>
    BY Zenon, <1>6
  <2>2. lk[1] = -local_wr[t] /\ lk[2] = -local_rd[t]
    BY Zenon, <2>1
  <2>3. lk = <<0, 0>> => local_wr[t] = 0 /\ local_rd[t] = 0
    BY <1>1, <2>2
  <2>4. Return(ch) \in {"idle", "create"}
    BY Zenon DEF Return
  <2>5. pc'[t] = IF lk # <<0, 0>> THEN "lock" ELSE "drop"
    BY Zenon, <1>3, <1>6
  <2>6. dropping'[t]
    BY Zenon, <1>3, <1>6
  <2>7. op'[t][1] = -local_wr[t] /\ op'[t][2] = -local_rd[t]
    BY Zenon, <1>3, <2>2
  <2> HIDE DEF lk
  <2>8. pc'[t] = "lock" => /\ op'[t] # <<0, 0>>
                           /\ local_wr[t] + op'[t][1] >= 0
                           /\ local_rd[t] + op'[t][2] >= 0
                           /\ op'[t][1] > 0 => op'[t][2] = 0
    BY <1>1, <1>3, <2>5, <2>7
  <2> QED BY Zenon, <1>3, <1>4, <1>5, <2>1, <2>3, <2>5, <2>6, <2>8
<1>7. CASE ~last
  <2>1. lk = <<c[2], c[3]>>
    BY Zenon, <1>7
  <2>2. Return(ch) \in {"idle", "create"}
    BY Zenon DEF Return
  <2>3. lk[1] = c[2] /\ lk[2] = c[3]
    BY Zenon, <2>1
  <2> QED BY Zenon, <1>1, <1>2, <1>3, <1>4, <1>5, <1>7, <2>1, <2>2, <2>3 DEF Enough
<1> QED BY Zenon, <1>6, <1>7

\* A call of cap.
LEMMA CapPreserves ==
  ASSUME NoMixedRequest, IInv, NEW t \in Threads, NEW c \in CapOps, Cap(t, c)
  PROVE  IInv'
<1> USE MainIsThread, NoneNotThread DEF IInv
<1>a. /\ c \in Int \X Int \X Int
      /\ c[2] > 0 => c[3] = 0
      /\ pc[t] = "idle" /\ Enough(t, c) /\ CapTh(t, c, None)
      /\ local_ref[t] > 0
      /\ UNCHANGED <<shared, lock, local_wr, local_rd>>
  BY Zenon, CapOpsType DEF NoMixedRequest, Cap, Enough
<1>b. UNCHANGED <<wait_wq, wait_rq, reg>>
  BY Zenon, <1>a DEF CapTh
<1>c. /\ op' \in [Threads -> Int \X Int]
      /\ dropping' \in [Threads -> BOOLEAN]
      /\ child' \in [Threads -> Threads \cup {None}]
      /\ pc' \in [Threads -> PCs]
      /\ \A u \in Threads \ {t} : /\ op'[u] = op[u] /\ dropping'[u] = dropping[u]
                                  /\ child'[u] = child[u] /\ pc'[u] = pc[u]
      /\ child'[t] = None
      /\ pc'[t] \in {"lock", "drop", "idle"}
      /\ pc'[t] = "lock" => /\ op'[t] # <<0, 0>>
                            /\ local_wr[t] + op'[t][1] >= 0
                            /\ local_rd[t] + op'[t][2] >= 0
                            /\ op'[t][1] > 0 => op'[t][2] = 0
      /\ dropping'[t] => /\ pc'[t] \in {"lock", "drop"}
                         /\ op'[t] = <<-local_wr[t], -local_rd[t]>>
      /\ pc'[t] = "drop" => dropping'[t] /\ local_wr[t] = 0 /\ local_rd[t] = 0
  <2>1. Return(None) = "idle"
    BY Zenon DEF Return
  <2> QED BY <1>a, <2>1, CapThFacts
<1>d. /\ local_ref' \in [Threads -> Nat]
      /\ local_ref'[t] > 0
      /\ \A u \in Threads \ {t} : local_ref'[u] = local_ref[u]
  <2>1. RefAfter(t, c) \in Nat /\ RefAfter(t, c) > 0
    BY <1>a DEF RefAfter, TypeOK
  <2> QED BY Zenon, <2>1 DEF Cap, TypeOK
<1>e. \A u \in Threads \ {t} : pc'[u] = pc[u]
  BY Zenon, <1>c
<1>f. \A u \in Threads \ {t} : op'[u] = op[u] /\ dropping'[u] = dropping[u]
  BY Zenon, <1>c
<1>g. pc'[t] \in {"lock", "drop", "idle"} /\ pc[t] = "idle"
  BY Zenon, <1>a, <1>c
<1>h. UNCHANGED <<lock, local_wr, local_rd, wait_wq, wait_rq>>
  BY Zenon, <1>a, <1>b
<1>i. UNCHANGED <<wr_cv, rd_cv, wr_q, rd_q, rd_cnt>>
  BY Zenon, <1>a DEF shared
<1>1. TypeOK'
  BY Zenon, <1>a, <1>b, <1>c, <1>d DEF TypeOK, shared
<1>2. MutexInv'
  BY Zenon, <1>e, <1>g, <1>h DEF MutexInv
<1>3. OpInv'
  <2>1. ~wait_wq[t] /\ ~wait_rq[t]
    BY Zenon, <1>g DEF OpInv
  <2>2. pc'[t] = "lock" => /\ op'[t] # <<0, 0>>
                           /\ local_wr[t] + op'[t][1] >= 0
                           /\ local_rd[t] + op'[t][2] >= 0
                           /\ op'[t][1] > 0 => op'[t][2] = 0
    BY Zenon, <1>c
  <2> QED BY Zenon, <1>e, <1>f, <1>g, <1>h, <2>1, <2>2 DEF OpInv, InLockop
<1>4. DropInv'
  <2>1. /\ dropping'[t] => /\ pc'[t] \in {"lock", "drop"}
                           /\ op'[t] = <<-local_wr[t], -local_rd[t]>>
        /\ pc'[t] = "drop" => dropping'[t] /\ local_wr[t] = 0 /\ local_rd[t] = 0
    BY Zenon, <1>c
  <2> QED BY Zenon, <1>e, <1>f, <1>h, <2>1 DEF DropInv
<1>5. RefInv'
  <2>1. local_wr' = local_wr /\ local_rd' = local_rd
    BY Zenon, <1>h
  <2> QED BY Zenon, <1>d, <1>e, <2>1 DEF RefInv
<1>6. SpawnInv'
  <2>1. child[t] = None
    BY Zenon, <1>a DEF SpawnInv, TypeOK
  <2>2. \A u \in Threads : /\ child'[u] = child[u]
                           /\ pc'[u] = "unborn" <=> pc[u] = "unborn"
                           /\ pc[u] = "unborn" => local_ref'[u] = local_ref[u]
    <3> TAKE u \in Threads
    <3>1. CASE u = t
      <4>1. child'[t] = None
        BY Zenon, <1>c
      <4> QED BY Zenon, <1>g, <2>1, <3>1, <4>1
    <3>2. CASE u # t
      BY Zenon, <1>c, <1>d, <3>2
    <3> QED BY Zenon, <3>1, <3>2
  <2>3. \A u \in Threads : child[u] # None => u # t /\ child[u] \in Threads
    BY Zenon, <2>1 DEF TypeOK
  <2>4. UNCHANGED <<local_wr, local_rd>>
    BY Zenon, <1>h
  <2>5. \A u \in Threads \ {t} : dropping'[u] = dropping[u] /\ pc'[u] = pc[u]
    BY Zenon, <1>e, <1>f
  <2>6. pc'[t] # "create"
    BY Zenon, <1>g
  <2> QED BY <2>2, <2>3, <2>4, <2>5, <2>6 DEF SpawnInv
<1>7. RegInv'
  BY Zenon, <1>b, <1>e, <1>g, <1>i DEF RegInv
<1>8. WriterInv'
  BY Zenon, <1>h, <1>i DEF WriterInv
<1>9. ReadersCounted'
  BY Zenon, <1>h, <1>i DEF ReadersCounted, Holding
<1>10. RefsCounted'
  <2>1. Cardinality(Holding(local_ref')) = Cardinality(Holding(local_ref)) +
             (IF local_ref'[t] > 0 THEN 1 ELSE 0) - (IF local_ref[t] > 0 THEN 1 ELSE 0)
    BY Zenon, <1>d, HoldingUpdate DEF TypeOK
  <2>2. Holding(local_ref)' = Holding(local_ref')
    BY Zenon DEF Holding
  <2>3. Cardinality(Holding(local_ref)) \in Nat
    BY Zenon, ThreadSets DEF Holding
  <2> QED BY <1>a, <1>d, <2>1, <2>2, <2>3 DEF RefsCounted, shared
<1>11. QueuesCounted'
  BY Zenon, <1>h, <1>i DEF QueuesCounted, Marked
<1>12. FreesInv'
  BY Zenon, <1>a DEF FreesInv, shared
<1>13. KeyInv'
  BY <1>a, <1>d DEF KeyInv, TypeOK, shared
<1>14. AllocInv'
  <2>1. ASSUME NEW v \in Threads, pc'[v] = "alloc", lock # v
        PROVE  \A u \in Threads \ {v} : local_ref'[u] = 0
    <3>1. v # t /\ pc[v] = "alloc"
      BY Zenon, <1>e, <1>g, <2>1
    <3>2. local_ref[t] = 0
      BY Zenon, <2>1, <3>1 DEF AllocInv
    <3> QED BY <1>a, <3>2 DEF TypeOK
  <2> QED BY Zenon, <1>h, <2>1 DEF AllocInv
<1>15. SleepInv'
  <2>1. \A u \in Threads : Active(u) => Active(u)'
    BY Zenon, <1>e, <1>g, <1>h, <1>i DEF Active
  <2> QED BY Zenon, <1>e, <1>g, <1>h, <1>i, <2>1 DEF SleepInv
<1> QED BY <1>1, <1>2, <1>3, <1>4, <1>5, <1>6, <1>7, <1>8, <1>9, <1>10, <1>11, <1>12, <1>13, <1>14, <1>15 DEF IInv

\* A thread is spawned with references only.
LEMMA SpawnPreserves ==
  ASSUME ReferencesOnly, IInv, NEW t \in Threads, NEW u \in Threads,
         NEW c \in SpawnCaps, Spawn(t, u, c)
  PROVE  IInv'
<1> USE MainIsThread, NoneNotThread DEF IInv
<1> DEFINE n == <<-c[1], -c[2], -c[3]>>
<1>a. /\ c[1] \in Nat \ {0} /\ c[2] = 0 /\ c[3] = 0
      /\ n \in Int \X Int \X Int /\ n[2] = 0 /\ n[3] = 0 /\ n[1] = -c[1]
  <2>1. c \in (Nat \ {0}) \X Nat \X Nat
    BY Zenon, SpawnCapsType
  <2>2. c[1] \in Nat \ {0} /\ c[2] \in Nat /\ c[3] \in Nat
    BY Zenon, <2>1
  <2>3. c[2] = 0 /\ c[3] = 0
    BY Zenon DEF ReferencesOnly
  <2>4. -c[1] \in Int /\ -c[2] = 0 /\ -c[3] = 0
    <3>1. \A i \in Nat : -i \in Int /\ i + (-i) = 0
      OBVIOUS
    <3>2. \A i, j \in Int : i = 0 /\ i + j = 0 => j = 0
      OBVIOUS
    <3>3. c[2] + (-c[2]) = 0 /\ c[3] + (-c[3]) = 0 /\ -c[1] \in Int /\ -c[2] \in Int /\ -c[3] \in Int
      BY Zenon, <2>2, <3>1
    <3> DEFINE j == -c[2]  k == -c[3]
    <3> HIDE DEF j, k
    <3>4. /\ c[2] + j = 0 /\ c[3] + k = 0 /\ j \in Int /\ k \in Int
      BY Zenon, <3>3 DEF j, k
    <3>5. j = 0 /\ k = 0
      BY <2>2, <2>3, <3>2, <3>4
    <3> QED BY Zenon, <3>3, <3>5 DEF j, k
  <2>5. n[1] = -c[1] /\ n[2] = -c[2] /\ n[3] = -c[3]
    BY Zenon
  <2>6. n \in Int \X Int \X Int
    BY <2>4
  <2> HIDE DEF n
  <2> QED BY Zenon, <2>2, <2>3, <2>4, <2>5, <2>6
<1>b. /\ pc[t] = "idle" /\ pc[u] = "unborn" /\ u # t /\ child[t] = None
      /\ \A v \in Threads : child[v] # u
      /\ local_ref[u] = 0 /\ local_wr[u] = 0 /\ local_rd[u] = 0
      /\ local_ref[t] > 0 /\ Enough(t, n) /\ CapTh(t, n, u)
  <2>1. /\ pc[t] = "idle" /\ pc[u] = "unborn" /\ child[t] = None
        /\ \A v \in Threads : child[v] # u
        /\ Enough(t, n) /\ CapTh(t, n, u)
    BY Zenon DEF Spawn
  <2>2. local_ref[t] > 0
    BY Zenon, <2>1 DEF Enough
  <2>3. local_ref[u] \in Nat /\ ~(local_ref[u] > 0) /\ local_wr[u] = 0 /\ local_rd[u] = 0
    BY <2>1 DEF SpawnInv, TypeOK
  <2> QED BY <2>1, <2>2, <2>3
<1>c. /\ UNCHANGED <<lock, rd_cv, wr_q, rd_q, frees, wr_cv, rd_cnt>>
      /\ UNCHANGED <<local_wr, local_rd, wait_wq, wait_rq, reg>>
      /\ g_rcnt' = g_rcnt + 1 /\ skey' = None
  <2>1. local_wr' = local_wr /\ local_rd' = local_rd
    BY Zenon, <1>a, <1>b DEF Spawn, TypeOK
  <2> QED BY Zenon, <1>a, <1>b, <2>1 DEF Spawn, Treecopy, CapTh
<1>d. /\ local_ref' \in [Threads -> Nat]
      /\ local_ref'[t] > 0 /\ local_ref'[u] > 0
      /\ \A v \in Threads \ {t, u} : local_ref'[v] = local_ref[v]
  <2>1. RefAfter(t, n) \in Nat /\ RefAfter(t, n) > 0
    BY <1>a, <1>b DEF RefAfter, TypeOK
  <2> QED BY <1>a, <1>b, <2>1 DEF Spawn, TypeOK
<1> HIDE DEF n
<1>e. /\ op' \in [Threads -> Int \X Int]
      /\ dropping' \in [Threads -> BOOLEAN]
      /\ child' \in [Threads -> Threads \cup {None}]
      /\ pc' \in [Threads -> PCs]
      /\ \A v \in Threads \ {t} : /\ op'[v] = op[v] /\ dropping'[v] = dropping[v]
                                  /\ child'[v] = child[v] /\ pc'[v] = pc[v]
      /\ child'[t] = u
      /\ pc'[t] \in {"lock", "drop", "create"}
      /\ pc'[t] = "lock" => /\ op'[t] # <<0, 0>>
                            /\ local_wr[t] + op'[t][1] >= 0
                            /\ local_rd[t] + op'[t][2] >= 0
                            /\ op'[t][1] > 0 => op'[t][2] = 0
                            /\ dropping'[t]
      /\ dropping'[t] => /\ pc'[t] \in {"lock", "drop"}
                         /\ op'[t] = <<-local_wr[t], -local_rd[t]>>
      /\ pc'[t] = "drop" => dropping'[t] /\ local_wr[t] = 0 /\ local_rd[t] = 0
  <2>1. Return(u) = "create"
    BY Zenon DEF Return
  <2> QED BY <1>a, <1>b, <2>1, CapThFacts
<1>f. \A v \in Threads \ {t} : pc'[v] = pc[v]
  BY Zenon, <1>e
<1>g. \A v \in Threads \ {t} : child'[v] = child[v] /\ dropping'[v] = dropping[v]
  BY Zenon, <1>e
<1>h. child'[t] = u /\ pc'[t] \in {"lock", "drop", "create"}
  BY Zenon, <1>e
<1>i. pc'[t] = "lock" => dropping'[t]
  BY Zenon, <1>e
<1>j. /\ pc[t] = "idle" /\ pc[u] = "unborn" /\ u # t
      /\ \A v \in Threads : child[v] # u
  BY Zenon, <1>b
<1>k. UNCHANGED <<local_wr, local_rd>> /\ UNCHANGED <<lock, wr_cv, rd_cnt, wait_wq, wait_rq>>
  BY Zenon, <1>c
<1>l. UNCHANGED <<rd_cv, wr_q, rd_q>>
  BY Zenon, <1>c
<1>m. \A v \in Threads \ {t} : op'[v] = op[v] /\ dropping'[v] = dropping[v]
  BY Zenon, <1>e
<1>1. TypeOK'
  <2>1. /\ op' \in [Threads -> Int \X Int]
        /\ dropping' \in [Threads -> BOOLEAN]
        /\ child' \in [Threads -> Threads \cup {None}]
        /\ pc' \in [Threads -> PCs]
    BY Zenon, <1>e
  <2>2. local_ref' \in [Threads -> Nat]
    BY Zenon, <1>d
  <2> QED BY <1>c, <2>1, <2>2 DEF TypeOK
<1>2. MutexInv'
  BY Zenon, <1>f, <1>h, <1>j, <1>k DEF MutexInv
<1>3. OpInv'
  <2>1. ~wait_wq[t] /\ ~wait_rq[t]
    BY Zenon, <1>j DEF OpInv
  <2>2. pc'[t] = "lock" => /\ op'[t] # <<0, 0>>
                           /\ local_wr[t] + op'[t][1] >= 0
                           /\ local_rd[t] + op'[t][2] >= 0
                           /\ op'[t][1] > 0 => op'[t][2] = 0
    BY Zenon, <1>e
  <2> QED BY Zenon, <1>f, <1>h, <1>k, <1>m, <2>1, <2>2 DEF OpInv, InLockop
<1>4. DropInv'
  <2>1. /\ dropping'[t] => /\ pc'[t] \in {"lock", "drop"}
                           /\ op'[t] = <<-local_wr[t], -local_rd[t]>>
        /\ pc'[t] = "drop" => dropping'[t] /\ local_wr[t] = 0 /\ local_rd[t] = 0
    BY Zenon, <1>e
  <2> QED BY <1>f, <1>k, <1>m, <2>1 DEF DropInv
<1>5. RefInv'
  <2>1. local_wr' = local_wr /\ local_rd' = local_rd
    BY Zenon, <1>k
  <2>2. \A v \in Threads : v = t \/ v = u => local_ref'[v] > 0
    BY Zenon, <1>d
  <2>3. \A v \in Threads : v # t /\ v # u => local_ref'[v] = local_ref[v]
    BY Zenon, <1>d
  <2> QED BY Zenon, <1>f, <2>1, <2>2, <2>3 DEF RefInv
<1>6. SpawnInv'
  <2>1. \A v \in Threads : pc'[v] = "unborn" <=> pc[v] = "unborn"
    BY Zenon, <1>f, <1>h, <1>j
  <2>2. ASSUME NEW v \in Threads, pc[v] = "unborn", local_ref'[v] > 0
        PROVE  \E w \in Threads : child'[w] = v
    <3>1. CASE v = u
      BY Zenon, <1>h, <3>1
    <3>2. CASE v # u
      <4>1. local_ref[v] > 0
        BY Zenon, <1>d, <1>j, <2>2, <3>2
      <4>2. PICK w \in Threads : child[w] = v
        BY Zenon, <2>2, <4>1 DEF SpawnInv
      <4>3. w # t
        BY Zenon, <1>b, <4>2, NoneNotThread
      <4> QED BY Zenon, <1>g, <4>2, <4>3
    <3> QED BY Zenon, <3>1, <3>2
  <2>3. \A v \in Threads :
           pc'[v] = "unborn" => /\ local_wr'[v] = 0 /\ local_rd'[v] = 0
                                /\ child'[v] = None
                                /\ local_ref'[v] > 0 => \E w \in Threads : child'[w] = v
    <3> TAKE v \in Threads
    <3>1. HAVE pc'[v] = "unborn"
    <3>2. pc[v] = "unborn" /\ v # t
      BY Zenon, <1>j, <2>1, <3>1
    <3> QED BY <1>g, <1>k, <2>2, <3>2 DEF SpawnInv
  <2>4. \A v \in Threads :
           /\ child'[v] # None => /\ pc'[child'[v]] = "unborn"
                                  /\ pc'[v] \in {"lock", "body", "drop", "create"}
                                  /\ pc'[v] \in {"lock", "body"} => dropping'[v]
           /\ pc'[v] = "create" => child'[v] # None
    <3> TAKE v \in Threads
    <3>1. CASE v = t
      BY Zenon, <1>h, <1>i, <1>j, <2>1, <3>1
    <3>2. CASE v # t
      <4>1. /\ pc'[v] = pc[v] /\ child'[v] = child[v] /\ dropping'[v] = dropping[v]
            /\ child[v] \in Threads \cup {None}
        BY Zenon, <1>f, <1>g, <3>2 DEF TypeOK
      <4> QED BY <2>1, <4>1 DEF SpawnInv
    <3> QED BY Zenon, <3>1, <3>2
  <2>5. \A v, w \in Threads : child'[v] = child'[w] /\ child'[v] # None => v = w
    BY <1>g, <1>h, <1>j DEF SpawnInv
  <2> QED BY Zenon, <2>3, <2>4, <2>5 DEF SpawnInv
<1>7. RegInv'
  <2>1. reg' = reg
    BY Zenon, <1>c
  <2> QED BY Zenon, <1>f, <1>h, <1>k, <2>1 DEF RegInv
<1>8. WriterInv'
  BY Zenon, <1>k DEF WriterInv
<1>9. ReadersCounted'
  BY Zenon, <1>k DEF ReadersCounted, Holding
<1>10. RefsCounted'
  <2> DEFINE mid == [local_ref' EXCEPT ![u] = 0]
  <2>1. /\ mid \in [Threads -> Nat] /\ mid[t] > 0 /\ mid[u] = 0
        /\ \A v \in Threads \ {t} : mid[v] = local_ref[v]
        /\ \A v \in Threads \ {u} : local_ref'[v] = mid[v]
    BY Zenon, <1>b, <1>d
  <2> HIDE DEF mid
  <2>2. Cardinality(Holding(mid)) = Cardinality(Holding(local_ref)) +
             (IF mid[t] > 0 THEN 1 ELSE 0) - (IF local_ref[t] > 0 THEN 1 ELSE 0)
    BY Zenon, <2>1, HoldingUpdate DEF TypeOK
  <2>3. Cardinality(Holding(local_ref')) = Cardinality(Holding(mid)) +
             (IF local_ref'[u] > 0 THEN 1 ELSE 0) - (IF mid[u] > 0 THEN 1 ELSE 0)
    BY Zenon, <1>d, <2>1, HoldingUpdate
  <2>4. Holding(local_ref)' = Holding(local_ref')
    BY Zenon DEF Holding
  <2>5. Cardinality(Holding(local_ref)) \in Nat /\ Cardinality(Holding(mid)) \in Nat
    BY Zenon, ThreadSets DEF Holding
  <2>6. g_rcnt' = g_rcnt + 1
    BY Zenon, <1>c
  <2>7. local_ref[t] > 0 /\ local_ref'[u] > 0
    BY Zenon, <1>b, <1>d
  <2> QED BY <2>1, <2>2, <2>3, <2>4, <2>5, <2>6, <2>7 DEF RefsCounted
<1>11. QueuesCounted'
  BY <1>k, <1>l DEF QueuesCounted, Marked
<1>12. FreesInv'
  <2>1. g_rcnt > 0
    <3>1. Cardinality(Holding(local_ref)) > 0
      BY Zenon, <1>b, HoldingFew DEF TypeOK
    <3> QED BY Zenon, <3>1 DEF RefsCounted
  <2>2. g_rcnt' = g_rcnt + 1 /\ frees' = frees
    BY Zenon, <1>c
  <2> QED BY <2>1, <2>2 DEF FreesInv, TypeOK
<1>13. KeyInv'
  <2>1. skey' = None
    BY Zenon, <1>c
  <2> QED BY Zenon, <2>1 DEF KeyInv
<1>14. AllocInv'
  <2>1. ASSUME NEW v \in Threads, pc'[v] = "alloc", lock # v
        PROVE  FALSE
    <3>1. v # t /\ pc[v] = "alloc"
      BY <1>f, <1>h, <2>1
    <3>2. local_ref[t] = 0
      BY <2>1, <3>1 DEF AllocInv
    <3>3. local_ref[t] > 0
      BY Zenon, <1>b
    <3> QED BY <3>2, <3>3
  <2>2. lock' = lock
    BY Zenon, <1>k
  <2> QED BY Zenon, <2>1, <2>2 DEF AllocInv
<1>15. SleepInv'
  <2>1. \A v \in Threads : Active(v) => Active(v)'
    BY Zenon, <1>f, <1>h, <1>j, <1>k DEF Active
  <2> QED BY <1>f, <1>h, <1>j, <1>k, <1>l, <2>1 DEF SleepInv
<1> QED BY Zenon, <1>1, <1>2, <1>3, <1>4, <1>5, <1>6, <1>7, <1>8, <1>9, <1>10, <1>11, <1>12, <1>13, <1>14, <1>15 DEF IInv
=============================================================================
