---------------------------- MODULE XRegionCaps ----------------------------
(***************************************************************************)
(* One shared region of src/lib/runtime_memory.c and the capabilities that *)
(* threads hold on it: the local counts of every thread's _XTreeHandle,    *)
(* the shared _RegionCaps, the reader/writer lock of __xregion_lockop, the *)
(* reference counting of __xregion_refcnt, the hand-over of capabilities   *)
(* at a spawn (__treecopy of src/lib/runtime_stack.c) and the use of the   *)
(* region's mutex by _xregion_malloc and attach_region.                    *)
(*                                                                         *)
(* wait_lock/unlock are the atomic lock that FutexLock implements.  The    *)
(* body of __xregion_lockop that runs under the mutex is two steps, the    *)
(* load of rd_cnt and everything after it, because __treecopy changes      *)
(* rd_cnt without the mutex.  The region has no sub-regions here; module   *)
(* XRegionTree has them.                                                   *)
(***************************************************************************)
EXTENDS Integers, FiniteSets

CONSTANTS
    Threads,    \* thread ids
    Main,       \* the thread that created the region (_new_xregion)
    None,       \* 0: no writer, no owner, no cached key
    CapOps,     \* the <<rgc, wc, rc>> that cap(h,rgc,wc,rc) is called with
    SpawnCaps,  \* the <<rc, wc, lc>> that spawn ($(h,rc,wc,lc)) hands over
    MaxCount    \* bound on the local counts (unsigned short in the code)

ASSUME MainIsThread == Main \in Threads
ASSUME NoneNotThread == None \notin Threads
ASSUME ThreadsFinite == IsFiniteSet(Threads)
ASSUME CapOpsType == CapOps \subseteq Int \X Int \X Int
ASSUME SpawnCapsType == SpawnCaps \subseteq (Nat \ {0}) \X Nat \X Nat
ASSUME MaxCountType == MaxCount \in Nat \ {0}

VARIABLES
    g_rcnt, lock, wr_cv, rd_cv, wr_q, rd_q, rd_cnt,  \* h->caps
    skey,       \* h->single_thread_key: the thread whose handle it is, or None
    frees,      \* how many times _xregion_free ran on the region
    local_ref, local_wr, local_rd,  \* tk->caps of every thread's handle
    pc,         \* where each thread is
    op,         \* <<write_lock, read_lock>> of the running __xregion_lockop
    wait_wq, wait_rq,  \* its wait flags
    reg,        \* the value of rd_cnt it loaded under the mutex
    dropping,   \* is the lockop the one of step 2 of __xregion_refcnt?
    child       \* the thread being spawned, until pthread_create

shared == <<g_rcnt, wr_cv, rd_cv, wr_q, rd_q, rd_cnt, skey, frees>>
counts == <<local_ref, local_wr, local_rd>>
frame == <<op, wait_wq, wait_rq, reg, dropping, child>>
vars == <<shared, lock, counts, pc, frame>>

PCs == {"unborn", "idle",          \* outside the runtime
        "wait", "asleep", "lock", "body",  \* __xregion_lockop
        "drop",                    \* __xregion_refcnt, steps 3 and 4
        "create",                  \* _xspawn, before pthread_create
        "mlock", "alloc"}          \* _xregion_malloc, attach_region

TypeOK ==
    /\ g_rcnt \in Nat /\ rd_cnt \in Nat /\ wr_q \in Nat /\ rd_q \in Nat
    /\ frees \in Nat
    /\ rd_cv \in {0, 1}
    /\ lock \in Threads \cup {None}
    /\ wr_cv \in Threads \cup {None}
    /\ skey \in Threads \cup {None}
    /\ local_ref \in [Threads -> Nat]
    /\ local_wr \in [Threads -> Nat]
    /\ local_rd \in [Threads -> Nat]
    /\ pc \in [Threads -> PCs]
    /\ op \in [Threads -> Int \X Int]
    /\ wait_wq \in [Threads -> BOOLEAN]
    /\ wait_rq \in [Threads -> BOOLEAN]
    /\ reg \in [Threads -> Nat]
    /\ dropping \in [Threads -> BOOLEAN]
    /\ child \in [Threads -> Threads \cup {None}]

\* _new_xregion with no parent: the creator holds the region alone, with one
\* reference and one write count; reader_cv is 0 although there is a writer.
Init ==
    /\ g_rcnt = 1 /\ lock = None /\ wr_cv = Main /\ rd_cv = 0
    /\ wr_q = 0 /\ rd_q = 0 /\ rd_cnt = 0
    /\ skey = Main /\ frees = 0
    /\ local_ref = [t \in Threads |-> IF t = Main THEN 1 ELSE 0]
    /\ local_wr = [t \in Threads |-> IF t = Main THEN 1 ELSE 0]
    /\ local_rd = [t \in Threads |-> 0]
    /\ pc = [t \in Threads |-> IF t = Main THEN "idle" ELSE "unborn"]
    /\ op = [t \in Threads |-> <<0, 0>>]
    /\ wait_wq = [t \in Threads |-> FALSE]
    /\ wait_rq = [t \in Threads |-> FALSE]
    /\ reg = [t \in Threads |-> 0]
    /\ dropping = [t \in Threads |-> FALSE]
    /\ child = [t \in Threads |-> None]

-----------------------------------------------------------------------------
(* _xregion_cap_th: reference count first, then the lock counts *)

\* What a call leaves behind when it has nothing (more) to do with the lock:
\* the thread returns to the program, or _xspawn goes on to pthread_create.
Return(ch) == IF ch = None THEN "idle" ELSE "create"

\* local_ref_cnt after __xregion_refcnt(tk,rgc), up to step 4: a count that
\* would become zero is kept until the locks are released.
RefAfter(t, c) == IF local_ref[t] + c[1] > 0 THEN local_ref[t] + c[1] ELSE local_ref[t]

\* __xregion_refcnt and the call of __xregion_lockop that follows: with the
\* counts given, or, for the last reference, with all counts the thread holds.
CapTh(t, c, ch) ==
    LET last == local_ref[t] + c[1] <= 0
        lk == IF last THEN <<-local_wr[t], -local_rd[t]>> ELSE <<c[2], c[3]>>
        noop == lk = <<0, 0>>
    IN /\ op' = [op EXCEPT ![t] = lk]
       /\ dropping' = [dropping EXCEPT ![t] = last]
       /\ child' = [child EXCEPT ![t] = ch]
       /\ pc' = [pc EXCEPT ![t] =
                   IF ~noop THEN "lock" ELSE IF last THEN "drop" ELSE Return(ch)]
       /\ UNCHANGED <<wait_wq, wait_rq, reg>>

\* What the type system guarantees and the assertions of __xregion_refcnt and
\* __xregion_lockop check: no count goes below zero.
Enough(t, c) ==
    /\ local_ref[t] > 0
    /\ local_ref[t] + c[1] >= 0
    /\ local_wr[t] + c[2] >= 0
    /\ local_rd[t] + c[3] >= 0

Bounded(t, c) ==
    /\ local_ref[t] + c[1] <= MaxCount
    /\ local_wr[t] + c[2] <= MaxCount
    /\ local_rd[t] + c[3] <= MaxCount

\* cap(h,rgc,wc,rc): _xregion_cap.
Cap(t, c) ==
    /\ pc[t] = "idle"
    /\ Enough(t, c)
    /\ Bounded(t, c)
    /\ local_ref' = [local_ref EXCEPT ![t] = RefAfter(t, c)]
    /\ CapTh(t, c, None)
    /\ UNCHANGED <<shared, lock, local_wr, local_rd>>

-----------------------------------------------------------------------------
(* __xregion_lockop *)

\* The loop in front of the mutex: *wr_cv (or *rd_cv) is read, and the thread
\* sleeps on it unless it is 0.  Reading the value and the kernel's comparison
\* with it are one step: when they disagree, the loop only reads again.
CvWait(t) ==
    /\ pc[t] = "wait"
    /\ LET zero == IF wait_wq[t] THEN wr_cv = None ELSE rd_cv = 0
       IN pc' = [pc EXCEPT ![t] = IF zero THEN "lock" ELSE "asleep"]
    /\ UNCHANGED <<shared, lock, counts, frame>>

\* futex_wait returns without a wake-up (ETIMEDOUT); the loop reads again.
CvTimeout(t) ==
    /\ pc[t] = "asleep"
    /\ pc' = [pc EXCEPT ![t] = "wait"]
    /\ UNCHANGED <<shared, lock, counts, frame>>

\* Mutant: the waiting thread stays counted.
DequeueNobody(t) == UNCHANGED <<wr_q, rd_q>>

\* The thread leaves the queue it waited in (only the write queue, if it was
\* in both).
Dequeue(t) ==
    /\ wr_q' = IF wait_wq[t] THEN wr_q - 1 ELSE wr_q
    /\ rd_q' = IF ~wait_wq[t] /\ wait_rq[t] THEN rd_q - 1 ELSE rd_q

\* wait_lock(lock); the thread is dequeued; rd_cnt is loaded.
EnterBody(t) ==
    /\ pc[t] = "lock"
    /\ lock = None
    /\ lock' = t
    /\ Dequeue(t)
    /\ wait_wq' = [wait_wq EXCEPT ![t] = FALSE]
    /\ wait_rq' = [wait_rq EXCEPT ![t] = FALSE]
    /\ reg' = [reg EXCEPT ![t] = rd_cnt]
    /\ pc' = [pc EXCEPT ![t] = "body"]
    /\ UNCHANGED <<g_rcnt, wr_cv, rd_cv, rd_cnt, skey, frees, counts, op,
                   dropping, child>>

\* Mutant: a single reader does not keep a writer out.
CanlockOneReader(t) == reg[t] < 2 /\ wr_cv = None

\* if(write_lock) ...
Canlock(t) ==
    /\ reg[t] < 2
    /\ reg[t] = 0 \/ local_rd[t] # 0
    /\ wr_cv = None

WriteHold(t) ==   \* the thread is the writer: adjust, release at zero
    /\ op[t][1] # 0 /\ local_wr[t] # 0
    /\ local_wr' = [local_wr EXCEPT ![t] = @ + op[t][1]]
    /\ wr_cv' = IF local_wr'[t] = 0 THEN None ELSE wr_cv
    /\ UNCHANGED <<wait_wq, wr_q>>

WriteTake(t) ==
    /\ op[t][1] # 0 /\ local_wr[t] = 0 /\ Canlock(t)
    /\ local_wr' = [local_wr EXCEPT ![t] = @ + op[t][1]]
    /\ wr_cv' = t
    /\ UNCHANGED <<wait_wq, wr_q>>

WriteWait(t) ==
    /\ op[t][1] # 0 /\ local_wr[t] = 0 /\ ~Canlock(t)
    /\ wait_wq' = [wait_wq EXCEPT ![t] = TRUE]
    /\ wr_q' = wr_q + 1
    /\ UNCHANGED <<local_wr, wr_cv>>

WritePart(t) ==
    \/ op[t][1] = 0 /\ UNCHANGED <<local_wr, wr_cv, wait_wq, wr_q>>
    \/ WriteHold(t) \/ WriteTake(t) \/ WriteWait(t)

\* if(read_lock) ..., after the write part
ReadHold(t) ==   \* the thread is a reader: adjust, leave rd_cnt at zero
    /\ op[t][2] # 0 /\ local_rd[t] # 0
    /\ local_rd' = [local_rd EXCEPT ![t] = @ + op[t][2]]
    /\ rd_cnt' = IF local_rd'[t] = 0 THEN reg[t] - 1 ELSE rd_cnt
    /\ UNCHANGED <<wait_rq, rd_q>>

ReadTake(t) ==
    /\ op[t][2] # 0 /\ local_rd[t] = 0 /\ wr_cv' \in {t, None}
    /\ local_rd' = [local_rd EXCEPT ![t] = @ + op[t][2]]
    /\ rd_cnt' = reg[t] + 1
    /\ UNCHANGED <<wait_rq, rd_q>>

\* Mutant: a reader is let in although another thread writes.
ReadWaitNot(t) ==
    /\ op[t][2] # 0 /\ local_rd[t] = 0 /\ wr_cv' \notin {t, None}
    /\ local_rd' = [local_rd EXCEPT ![t] = @ + op[t][2]]
    /\ rd_cnt' = reg[t] + 1
    /\ UNCHANGED <<wait_rq, rd_q>>

ReadWait(t) ==
    /\ op[t][2] # 0 /\ local_rd[t] = 0 /\ wr_cv' \notin {t, None}
    /\ wait_rq' = [wait_rq EXCEPT ![t] = TRUE]
    /\ rd_q' = rd_q + 1
    /\ UNCHANGED <<local_rd, rd_cnt>>

ReadPart(t) ==
    \/ op[t][2] = 0 /\ UNCHANGED <<local_rd, rd_cnt, wait_rq, rd_q>>
    \/ ReadHold(t) \/ ReadTake(t) \/ ReadWait(t)

\* The threads asleep on the address of writer_cv and on that of reader_cv.
WriterQueue == {u \in Threads : pc[u] = "asleep" /\ wait_wq[u]}
ReaderQueue == {u \in Threads : pc[u] = "asleep" /\ ~wait_wq[u]}

\* Where the thread goes after unlock(lock): around the loop again if it has
\* to wait, else to the end of the call.
AfterBody(t) ==
    IF wait_wq'[t] \/ wait_rq'[t] THEN "wait"
    ELSE IF dropping[t] THEN "drop" ELSE Return(child[t])

\* The thread leaves the body and the sleepers in woken read their variable
\* again.
Leave(t, woken) ==
    pc' = [u \in Threads |-> IF u = t THEN AfterBody(t)
                             ELSE IF u \in woken THEN "wait" ELSE pc[u]]

\* Mutant: readers are woken, writers are not.
WakePartReadersOnly(t) ==
    \/ /\ wr_cv' = None /\ rd_q' # 0
       /\ rd_cv' = 0
       /\ Leave(t, ReaderQueue)
    \/ /\ wr_cv' # None \/ rd_q' = 0
       /\ rd_cv' = IF wr_cv = None /\ wr_cv' = t THEN 1 ELSE rd_cv
       /\ Leave(t, {})

\* if(!wr_cv[0]) ...: nobody writes; one writer is woken if writers wait and
\* nobody reads, else all readers if readers wait.
WakePart(t) ==
    LET writers == wr_cv' = None /\ wr_q' # 0 /\ rd_cnt' = 0
        readers == wr_cv' = None /\ ~writers /\ rd_q' # 0
    IN \/ /\ writers
          /\ \/ WriterQueue = {} /\ Leave(t, {})
             \/ \E w \in WriterQueue : Leave(t, {w})
          /\ UNCHANGED rd_cv
       \/ /\ readers
          /\ rd_cv' = 0
          /\ Leave(t, ReaderQueue)
       \/ /\ ~writers /\ ~readers
          /\ rd_cv' = IF wr_cv = None /\ wr_cv' = t THEN 1 ELSE rd_cv
          /\ Leave(t, {})

\* The rest of the loop body, up to unlock(lock).
Body(t) ==
    /\ pc[t] = "body"
    /\ WritePart(t)
    /\ ReadPart(t)
    /\ WakePart(t)
    /\ lock' = None
    /\ op' = [op EXCEPT ![t] = IF AfterBody(t) = "wait" THEN @ ELSE <<0, 0>>]
    /\ reg' = [reg EXCEPT ![t] = 0]
    /\ UNCHANGED <<g_rcnt, skey, frees, local_ref, dropping, child>>

-----------------------------------------------------------------------------
\* Mutant: the count after the decrement is compared with 1.
FreesNew == IF g_rcnt' = 1 THEN frees + 1 ELSE frees

\* Who takes the shared count from 1 frees the region.
Frees == IF g_rcnt = 1 THEN frees + 1 ELSE frees

\* Steps 3 and 4 of __xregion_refcnt: the local count is cleared, the shared
\* one is decremented atomically, and the region is perhaps freed.
Drop(t) ==
    /\ pc[t] = "drop"
    /\ local_ref' = [local_ref EXCEPT ![t] = 0]
    /\ g_rcnt' = g_rcnt - 1
    /\ frees' = Frees
    /\ dropping' = [dropping EXCEPT ![t] = FALSE]
    /\ pc' = [pc EXCEPT ![t] = Return(child[t])]
    /\ UNCHANGED <<lock, wr_cv, rd_cv, wr_q, rd_q, rd_cnt, skey, local_wr,
                   local_rd, op, wait_wq, wait_rq, reg, child>>

-----------------------------------------------------------------------------
(* spawn: _xspawn, __init_new_thread_stack, __treecopy *)

\* Mutant: the cached key of the creator stays.
TreecopyKeepsKey(u, c) ==
    /\ g_rcnt' = g_rcnt + 1
    /\ wr_cv' = IF c[2] # 0 THEN u ELSE wr_cv
    /\ rd_cnt' = IF c[3] # 0 THEN rd_cnt + 1 ELSE rd_cnt
    /\ UNCHANGED skey

\* What __treecopy does to the shared counts, without the mutex.
Treecopy(u, c) ==
    /\ g_rcnt' = g_rcnt + 1
    /\ skey' = None
    /\ wr_cv' = IF c[2] # 0 THEN u ELSE wr_cv
    /\ rd_cnt' = IF c[3] # 0 THEN rd_cnt + 1 ELSE rd_cnt

\* __treecopy fills in the handle of the new thread u, then takes the
\* capabilities away from t with _xregion_cap_th.  (It quits the program if
\* writer_cv is not t.  The type checker, join_env_spawn of ioeffect.cyc,
\* lets a thread hand over a write lock only if it retains no lock.)
Spawn(t, u, c) ==
    /\ pc[t] = "idle" /\ pc[u] = "unborn" /\ child[t] = None
    /\ \A v \in Threads : child[v] # u
    /\ Enough(t, <<-c[1], -c[2], -c[3]>>)
    /\ c[2] # 0 => wr_cv = t /\ local_wr[t] = c[2] /\ local_rd[t] = c[3]
    /\ local_ref' = [local_ref EXCEPT ![u] = c[1],
                                      ![t] = RefAfter(t, <<-c[1], -c[2], -c[3]>>)]
    /\ local_wr' = [local_wr EXCEPT ![u] = c[2]]
    /\ local_rd' = [local_rd EXCEPT ![u] = c[3]]
    /\ Treecopy(u, c)
    /\ CapTh(t, <<-c[1], -c[2], -c[3]>>, u)
    /\ UNCHANGED <<lock, rd_cv, wr_q, rd_q, frees>>

\* GC_pthread_create: the new thread runs.
Create(t) ==
    /\ pc[t] = "create"
    /\ pc' = [pc EXCEPT ![t] = "idle", ![child[t]] = "idle"]
    /\ child' = [child EXCEPT ![t] = None]
    /\ UNCHANGED <<shared, lock, counts, op, wait_wq, wait_rq, reg, dropping>>

-----------------------------------------------------------------------------
(* allocation: the mutex protects the page list too *)

\* _xregion_malloc reads rcnt once, without the mutex, and skips the mutex if
\* the thread is alone.
Malloc(t) ==
    /\ pc[t] = "idle" /\ local_ref[t] > 0
    /\ pc' = [pc EXCEPT ![t] = IF g_rcnt # 1 THEN "mlock" ELSE "alloc"]
    /\ UNCHANGED <<shared, lock, counts, frame>>

\* attach_region (map_file) always takes it.
Attach(t) ==
    /\ pc[t] = "idle" /\ local_ref[t] > 0
    /\ pc' = [pc EXCEPT ![t] = "mlock"]
    /\ UNCHANGED <<shared, lock, counts, frame>>

MallocLock(t) ==
    /\ pc[t] = "mlock"
    /\ lock = None
    /\ lock' = t
    /\ pc' = [pc EXCEPT ![t] = "alloc"]
    /\ UNCHANGED <<shared, counts, frame>>

\* The page list has been changed; the mutex is given back if it was taken.
MallocDone(t) ==
    /\ pc[t] = "alloc"
    /\ lock' = IF lock = t THEN None ELSE lock
    /\ pc' = [pc EXCEPT ![t] = "idle"]
    /\ UNCHANGED <<shared, counts, frame>>

-----------------------------------------------------------------------------
\* Steps of the runtime, once a call has been made.
Step(t) ==
    \/ CvWait(t) \/ EnterBody(t) \/ Body(t) \/ Drop(t) \/ Create(t)
    \/ MallocLock(t) \/ MallocDone(t)

\* Calls made by the program.
Call(t) ==
    \/ \E c \in CapOps : Cap(t, c)
    \/ \E u \in Threads, c \in SpawnCaps : Spawn(t, u, c)
    \/ Malloc(t) \/ Attach(t)

\* The region has been freed and every thread is done with it.
Done ==
    /\ frees > 0
    /\ \A t \in Threads : pc[t] \in {"idle", "unborn"}
    /\ UNCHANGED vars

Next ==
    \/ \E t \in Threads : Call(t) \/ Step(t) \/ CvTimeout(t)
    \/ Done

Spec == Init /\ [][Next]_vars

-----------------------------------------------------------------------------
(* Properties *)

Born(t) == pc[t] # "unborn"

\* The threads with a positive count, and those with a raised flag.
Holding(f) == {t \in Threads : f[t] > 0}
Marked(f) == {t \in Threads : f[t]}

\* A thread that holds write counts is alone: no other running thread holds a
\* write or a read count on the region.
Exclusion ==
    \A t, u \in Threads :
        t # u /\ Born(t) /\ Born(u) /\ local_wr[t] > 0
            => local_wr[u] = 0 /\ local_rd[u] = 0

\* The assertion of __xregion_lockop (before and after its loop body) for the
\* thread named by writer_cv, and its converse: writer_cv names the writer.
WriterCvNamesWriter ==
    \A t \in Threads :
        /\ local_wr[t] > 0 <=> wr_cv = t
        /\ wr_cv = t => rd_cnt = IF local_rd[t] > 0 THEN 1 ELSE 0

\* rd_cnt counts every thread with a read count once, however often that
\* thread has taken the lock.
ReadersCounted == rd_cnt = Cardinality(Holding(local_rd))

\* g_rcnt counts every thread with a reference once, through spawns and
\* __xregion_refcnt.
RefsCounted == g_rcnt = Cardinality(Holding(local_ref))

\* _xregion_free is called by exactly one thread, the last one to give its
\* references up, and after that no thread has a capability or is inside a call
\* that touches the handle.
FreedOnceAndLast ==
    /\ frees = IF g_rcnt = 0 THEN 1 ELSE 0
    /\ frees > 0 => \A t \in Threads : /\ local_ref[t] = 0
                                      /\ local_wr[t] = 0 /\ local_rd[t] = 0
                                      /\ pc[t] \in {"unborn", "idle", "create"}

\* get_tkey's short cut (rcnt == 1 and a cached key) never yields another
\* thread's handle.
CachedKeyIsOwn ==
    \A t \in Threads :
        local_ref[t] > 0 /\ g_rcnt = 1 /\ skey # None => skey = t

\* Two threads never change the page list at once, although a thread that is
\* alone on the region does so without the mutex.
AllocExclusive ==
    \A t, u \in Threads : pc[t] = "alloc" /\ pc[u] = "alloc" => t = u

\* writer_q and reader_q count the threads in the wait loops.
QueuesCounted ==
    /\ wr_q = Cardinality(Marked(wait_wq))
    /\ rd_q = Cardinality(Marked(wait_rq))

\* The words of the shared handle say what the threads have: whatever __xregion_lockop,
\* __xregion_refcnt and __treecopy have done, in any order, writer_cv, rd_cnt, rcnt,
\* writer_q and reader_q agree with the local counts and the wait loops.
CountsExact == WriterCvNamesWriter /\ ReadersCounted /\ RefsCounted /\ QueuesCounted

\* While a thread sleeps on a condition variable of the region, some thread
\* that does not sleep holds a lock on it (and wakes when it lets go), is
\* awake in the write queue, or is in the body (and wakes there).
Active(u) ==
    /\ pc[u] # "asleep"
    /\ local_wr[u] > 0 \/ local_rd[u] > 0 \/ wait_wq[u] \/ pc[u] = "body"

NoSleeperForgotten ==
    (\E t \in Threads : pc[t] = "asleep") => \E u \in Threads : Active(u)

\* With queues and counts forgotten, the region is the reader/writer lock of
\* module RegionLock, alive while a thread has a reference.
holders == Holding(local_ref)
writers == Holding(local_wr)
readers == Holding(local_rd)
alive == frees = 0

Abstract == INSTANCE RegionLock WITH holders <- holders, writers <- writers,
                                    readers <- readers, alive <- alive

\* __xregion_lockop, __xregion_refcnt and __treecopy implement that lock.
ImplementsRegionLock == Abstract!Spec
=============================================================================
