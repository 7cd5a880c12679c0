------------------------- MODULE XRegionCapsProofs --------------------------
(***************************************************************************)
(* __xregion_lockop and __xregion_refcnt preserve the invariant of         *)
(* XRegionCapsInv; and the theorems about XRegionCaps, for any number of   *)
(* threads: its invariants, and that it implements RegionLock, under the   *)
(* two provisos that XRegionCapsInv states.                                *)
(***************************************************************************)
EXTENDS XRegionCapsInv

-----------------------------------------------------------------------------
(* __xregion_lockop and __xregion_refcnt *)

\* What a thread in the body knows.
LEMMA InBody ==
  ASSUME IInv, NEW t \in Threads, pc[t] = "body"
  PROVE  /\ lock = t /\ reg[t] = rd_cnt /\ local_ref[t] > 0
         /\ op[t][1] \in Int /\ op[t][2] \in Int
         /\ local_wr[t] \in Nat /\ local_rd[t] \in Nat
         /\ op[t] # <<0, 0>> /\ (op[t][1] > 0 => op[t][2] = 0)
         /\ local_wr[t] + op[t][1] >= 0 /\ local_rd[t] + op[t][2] >= 0
         /\ ~wait_wq[t] /\ ~wait_rq[t]
         /\ dropping[t] => op[t][1] = -local_wr[t] /\ op[t][2] = -local_rd[t]
         /\ rd_cnt = Cardinality(Holding(local_rd))
         /\ local_rd[t] > 0 => rd_cnt > 0
         /\ (local_wr[t] > 0 <=> wr_cv = t)
<1> USE DEF IInv
<1>1. lock = t /\ reg[t] = rd_cnt /\ local_ref[t] > 0
  BY Zenon DEF MutexInv, RegInv, RefInv
<1>2. /\ op[t][1] \in Int /\ op[t][2] \in Int
      /\ local_wr[t] \in Nat /\ local_rd[t] \in Nat
  BY Zenon DEF TypeOK
<1>3. /\ op[t] # <<0, 0>> /\ (op[t][1] > 0 => op[t][2] = 0)
      /\ local_wr[t] + op[t][1] >= 0 /\ local_rd[t] + op[t][2] >= 0
  BY Zenon DEF OpInv, InLockop
<1>4. ~wait_wq[t] /\ ~wait_rq[t]
  BY Zenon DEF OpInv
<1>5. dropping[t] => op[t][1] = -local_wr[t] /\ op[t][2] = -local_rd[t]
  BY DEF DropInv
<1>6. rd_cnt = Cardinality(Holding(local_rd))
  BY Zenon DEF ReadersCounted
<1>7. local_rd[t] > 0 => rd_cnt > 0
  BY Zenon, <1>6, HoldingFew DEF TypeOK
<1>8. local_wr[t] > 0 <=> wr_cv = t
  BY Zenon DEF WriterInv
<1> QED BY Zenon, <1>1, <1>2, <1>3, <1>4, <1>5, <1>6, <1>7, <1>8

\* Write and read part together: the thread has to wait and has changed nothing
\* but a queue, or it has everything it asked for.
WaitsForWriter(t) ==
    /\ wait_wq'[t] /\ ~wait_rq'[t] /\ wr_q' = wr_q + 1 /\ rd_q' = rd_q
    /\ op[t][1] > 0 /\ local_wr[t] = 0
    /\ UNCHANGED <<local_wr, local_rd, wr_cv, rd_cnt>>

WaitsForReader(t) ==
    /\ ~wait_wq'[t] /\ wait_rq'[t] /\ wr_q' = wr_q /\ rd_q' = rd_q + 1
    /\ local_wr[t] = 0 /\ local_rd[t] = 0 /\ op[t][2] # 0
    /\ UNCHANGED <<local_wr, local_rd, wr_cv, rd_cnt>>

Served(t) ==
    /\ ~wait_wq'[t] /\ ~wait_rq'[t] /\ wr_q' = wr_q /\ rd_q' = rd_q
    /\ local_wr' = [local_wr EXCEPT ![t] = @ + op[t][1]]
    /\ local_rd' = [local_rd EXCEPT ![t] = @ + op[t][2]]
    /\ rd_cnt' = rd_cnt + (IF local_rd'[t] > 0 THEN 1 ELSE 0) - (IF local_rd[t] > 0 THEN 1 ELSE 0)
    /\ wr_cv' = IF local_wr'[t] > 0 THEN t ELSE IF local_wr[t] > 0 THEN None ELSE wr_cv
    /\ local_wr[t] = 0 /\ local_wr'[t] > 0 => Canlock(t)
    /\ local_rd[t] = 0 /\ local_rd'[t] > 0 => wr_cv' \in {t, None}

\* The three outcomes are all there are.
LEMMA Outcome ==
  ASSUME IInv, NEW t \in Threads, pc[t] = "body", WritePart(t), ReadPart(t)
  PROVE  /\ WaitsForWriter(t) \/ WaitsForReader(t) \/ Served(t)
         /\ wait_wq' \in [Threads -> BOOLEAN] /\ wait_rq' \in [Threads -> BOOLEAN]
         /\ \A u \in Threads \ {t} : wait_wq'[u] = wait_wq[u] /\ wait_rq'[u] = wait_rq[u]
         /\ dropping[t] => Served(t)
<1> DEFINE w == op[t][1]  r == op[t][2]
<1>0. /\ local_wr \in [Threads -> Nat] /\ local_rd \in [Threads -> Nat]
      /\ wait_wq \in [Threads -> BOOLEAN] /\ wait_rq \in [Threads -> BOOLEAN]
      /\ rd_cnt \in Nat
  BY Zenon DEF IInv, TypeOK
<1>1. /\ reg[t] = rd_cnt /\ w \in Int /\ r \in Int
      /\ local_wr[t] \in Nat /\ local_rd[t] \in Nat
      /\ (w > 0 => r = 0)
      /\ local_wr[t] + w >= 0 /\ local_rd[t] + r >= 0
      /\ ~wait_wq[t] /\ ~wait_rq[t]
      /\ dropping[t] => w = -local_wr[t] /\ r = -local_rd[t]
      /\ (local_wr[t] > 0 <=> wr_cv = t)
  BY Zenon, InBody
<1>2. /\ wait_wq' \in [Threads -> BOOLEAN] /\ wait_rq' \in [Threads -> BOOLEAN]
      /\ \A u \in Threads \ {t} : wait_wq'[u] = wait_wq[u] /\ wait_rq'[u] = wait_rq[u]
  BY Zenon, <1>0 DEF WritePart, ReadPart, WriteHold, WriteTake, WriteWait, ReadHold, ReadTake, ReadWait
<1>3. CASE WriteWait(t)
  <2>1. w > 0 /\ r = 0
    BY <1>1, <1>3 DEF WriteWait
  <2>2. UNCHANGED <<local_rd, rd_cnt, wait_rq, rd_q>>
    BY Zenon, <2>1 DEF ReadPart, ReadHold, ReadTake, ReadWait
  <2>3. WaitsForWriter(t)
    BY Zenon, <1>0, <1>1, <1>3, <2>1, <2>2 DEF WriteWait, WaitsForWriter
  <2>4. ~dropping[t]
    BY <1>1, <1>3, <2>1 DEF WriteWait
  <2> QED BY Zenon, <1>2, <2>3, <2>4
<1>4. CASE ~WriteWait(t)
  <2>1. /\ wait_wq' = wait_wq /\ wr_q' = wr_q
        /\ local_wr' = [local_wr EXCEPT ![t] = @ + w]
        /\ wr_cv' = IF local_wr'[t] > 0 THEN t ELSE IF local_wr[t] > 0 THEN None ELSE wr_cv
        /\ local_wr[t] = 0 /\ local_wr'[t] > 0 => Canlock(t)
    <3>1. CASE w = 0 /\ UNCHANGED <<local_wr, wr_cv, wait_wq, wr_q>>
      <4>1. local_wr = [local_wr EXCEPT ![t] = @ + w]
        BY <1>0, <1>1, <3>1
      <4> QED BY <1>0, <1>1, <3>1, <4>1
    <3>2. CASE WriteHold(t)
      BY <1>0, <1>1, <3>2 DEF WriteHold
    <3>3. CASE WriteTake(t)
      BY <1>0, <1>1, <3>3 DEF WriteTake
    <3> QED BY Zenon, <1>4, <3>1, <3>2, <3>3 DEF WritePart
  <2>2. CASE ReadWait(t)
    <3>1. local_rd[t] = 0 /\ r # 0 /\ wr_cv' # t /\ wr_cv' # None
      BY Zenon, <2>2 DEF ReadWait
    <3>2. local_wr'[t] = local_wr[t] + w
      BY Zenon, <1>0, <2>1
    <3>3. wr_cv' = wr_cv /\ local_wr[t] = 0
      BY <1>1, <2>1, <3>1, <3>2
    <3>4. w = 0
      BY <1>1, <2>1, <3>1, <3>2, <3>3
    <3>5. local_wr' = local_wr
      BY <1>0, <1>1, <2>1, <3>4
    <3>6. WaitsForReader(t)
      BY Zenon, <1>0, <1>1, <2>1, <2>2, <3>1, <3>3, <3>5 DEF ReadWait, WaitsForReader
    <3>7. ~dropping[t]
      BY <1>1, <3>1
    <3> QED BY Zenon, <1>2, <3>6, <3>7
  <2>3. CASE ~ReadWait(t)
    <3>1. /\ wait_rq' = wait_rq /\ rd_q' = rd_q
          /\ local_rd' = [local_rd EXCEPT ![t] = @ + r]
          /\ rd_cnt' = rd_cnt + (IF local_rd'[t] > 0 THEN 1 ELSE 0) - (IF local_rd[t] > 0 THEN 1 ELSE 0)
          /\ local_rd[t] = 0 /\ local_rd'[t] > 0 => wr_cv' \in {t, None}
      <4>1. CASE r = 0 /\ UNCHANGED <<local_rd, rd_cnt, wait_rq, rd_q>>
        <5>1. local_rd = [local_rd EXCEPT ![t] = @ + r]
          BY <1>0, <1>1, <4>1
        <5> QED BY <1>0, <1>1, <4>1, <5>1
      <4>2. CASE ReadHold(t)
        BY <1>0, <1>1, <4>2 DEF ReadHold
      <4>3. CASE ReadTake(t)
        BY <1>0, <1>1, <4>3 DEF ReadTake
      <4> QED BY Zenon, <2>3, <4>1, <4>2, <4>3 DEF ReadPart
    <3>2. Served(t)
      BY Zenon, <1>1, <2>1, <3>1 DEF Served
    <3> QED BY Zenon, <1>2, <3>2
  <2> QED BY Zenon, <2>2, <2>3
<1> QED BY Zenon, <1>3, <1>4

\* The thread leaves the body; sleepers may be woken, nobody else moves.
LEMMA BodyMoves ==
  ASSUME IInv, NEW t \in Threads, Body(t)
  PROVE  /\ pc' \in [Threads -> PCs]
         /\ pc'[t] = AfterBody(t)
         /\ \A u \in Threads \ {t} : \/ pc'[u] = pc[u]
                                     \/ pc[u] = "asleep" /\ pc'[u] = "wait"
         /\ rd_cv' \in {0, 1}
<1>1. pc \in [Threads -> PCs] /\ rd_cv \in {0, 1}
  BY Zenon DEF IInv, TypeOK
<1>2. AfterBody(t) \in PCs
  BY Zenon DEF AfterBody, Return, PCs
<1>3. ASSUME NEW W \in SUBSET Threads, \A u \in W : pc[u] = "asleep", Leave(t, W)
      PROVE  /\ pc' \in [Threads -> PCs]
             /\ pc'[t] = AfterBody(t)
             /\ \A u \in Threads \ {t} : \/ pc'[u] = pc[u]
                                         \/ pc[u] = "asleep" /\ pc'[u] = "wait"
  BY Zenon, <1>1, <1>2, <1>3 DEF Leave, PCs
<1>4. \E W \in SUBSET Threads : (\A u \in W : pc[u] = "asleep") /\ Leave(t, W)
  BY Zenon DEF Body, WakePart, WriterQueue, ReaderQueue
<1>5. rd_cv' \in {0, 1}
  BY Zenon, <1>1 DEF Body, WakePart
<1> QED BY Zenon, <1>3, <1>4, <1>5

\* The body changes the counts and the queue marks of its own thread only.
LEMMA BodyOthers ==
  ASSUME IInv, NEW t \in Threads, Body(t)
  PROVE  \A u \in Threads \ {t} : /\ local_wr'[u] = local_wr[u] /\ local_rd'[u] = local_rd[u]
                                  /\ wait_wq'[u] = wait_wq[u] /\ wait_rq'[u] = wait_rq[u]
<1>1. local_wr \in [Threads -> Nat] /\ local_rd \in [Threads -> Nat]
  BY Zenon DEF IInv, TypeOK
<1>2. /\ WaitsForWriter(t) \/ WaitsForReader(t) \/ Served(t)
      /\ \A u \in Threads \ {t} : wait_wq'[u] = wait_wq[u] /\ wait_rq'[u] = wait_rq[u]
  BY Zenon, Outcome DEF Body
<1> QED BY Zenon, <1>1, <1>2 DEF Served, WaitsForWriter, WaitsForReader

\* A thread that holds the lock after the body is awake.
LEMMA HoldersAwake ==
  ASSUME IInv, NEW t \in Threads, Body(t), NEW u \in Threads,
         local_wr'[u] > 0 \/ local_rd'[u] > 0
  PROVE  Active(u)'
<1>1. pc'[t] # "asleep"
  BY Zenon, BodyMoves DEF AfterBody, Return
<1>2. u # t => local_wr'[u] = local_wr[u] /\ local_rd'[u] = local_rd[u]
  BY Zenon, BodyOthers
<1>3. u # t => (pc'[u] = "asleep" => pc[u] = "asleep")
  BY Zenon, BodyMoves
<1>4. pc[u] = "asleep" => local_wr[u] = 0 /\ local_rd[u] = 0
  BY Zenon DEF IInv, SleepInv
<1> QED BY <1>1, <1>2, <1>3, <1>4 DEF Active

\* Leaving the body, a thread leaves no sleeper behind that nobody will wake.
LEMMA BodySleep ==
  ASSUME IInv, TypeOK', WriterInv', ReadersCounted', QueuesCounted', OpInv',
         NEW t \in Threads, Body(t)
  PROVE  SleepInv'
<1>0. TypeOK /\ OpInv /\ SleepInv
  BY Zenon DEF IInv
<1>1. /\ \A u \in Threads \ {t} : wait_wq'[u] = wait_wq[u] /\ wait_rq'[u] = wait_rq[u]
      /\ \A u \in Threads \ {t} : local_wr'[u] = local_wr[u] /\ local_rd'[u] = local_rd[u]
  BY Zenon, BodyOthers
<1>2. /\ \A u \in Threads : pc'[u] = "asleep" => u # t /\ pc[u] = "asleep"
      /\ pc'[t] # "asleep"
  BY Zenon, BodyMoves DEF AfterBody, Return
<1>3. \A u \in Threads : local_wr'[u] > 0 \/ local_rd'[u] > 0 => Active(u)'
  BY Zenon, HoldersAwake
<1>4. /\ wr_cv' # None => \E u \in Threads : Active(u)'
      /\ rd_cnt' # 0 => \E u \in Threads : Active(u)'
  <2>1. wr_cv' # None => \E u \in Threads : local_wr'[u] > 0
    BY Zenon DEF WriterInv, TypeOK
  <2>2. rd_cnt' # 0 => \E u \in Threads : local_rd'[u] > 0
    <3>1. Cardinality(Holding(local_rd')) = 0 <=> \A u \in Threads : local_rd'[u] = 0
      BY Zenon, HoldingFew DEF TypeOK
    <3>2. rd_cnt' = Cardinality(Holding(local_rd'))
      BY Zenon DEF ReadersCounted, Holding
    <3> QED BY <3>1, <3>2 DEF TypeOK
  <2> QED BY Zenon, <1>3, <2>1, <2>2
<1>5. /\ wr_q' # 0 <=> \E u \in Threads : wait_wq'[u]
      /\ rd_q' # 0 <=> \E u \in Threads : wait_rq'[u]
  <2>1. /\ Cardinality(Marked(wait_wq')) # 0 <=> \E u \in Threads : wait_wq'[u]
        /\ Cardinality(Marked(wait_rq')) # 0 <=> \E u \in Threads : wait_rq'[u]
    BY Zenon, MarkedSome DEF TypeOK
  <2> QED BY Zenon, <2>1 DEF QueuesCounted, Marked
<1>6. \A u \in Threads : pc'[u] = "asleep" => local_wr'[u] = 0 /\ local_rd'[u] = 0
  BY Zenon, <1>0, <1>1, <1>2 DEF SleepInv
<1>7. CASE wr_cv' = None /\ wr_q' # 0 /\ rd_cnt' = 0
  <2>1. rd_cv' = rd_cv
    BY Zenon, <1>7 DEF Body, WakePart
  <2>2. WriterQueue # {} => \E u \in Threads : Active(u)'
    <3>1. SUFFICES ASSUME WriterQueue # {} PROVE \E u \in Threads : Active(u)'
      BY Zenon
    <3>2. PICK v \in WriterQueue : Leave(t, {v})
      BY Zenon, <1>7, <3>1 DEF Body, WakePart
    <3>3. v \in Threads /\ v # t /\ wait_wq[v]
      BY Zenon, <1>0 DEF WriterQueue, Body
    <3>4. pc'[v] = "wait"
      BY Zenon, <3>2, <3>3 DEF Leave
    <3>5. wait_wq'[v]
      BY Zenon, <1>1, <3>3
    <3> QED BY Zenon, <3>3, <3>4, <3>5 DEF Active
  <2>3. \E u \in Threads : Active(u)'
    <3>1. PICK u \in Threads : wait_wq'[u]
      BY Zenon, <1>5, <1>7
    <3>2. CASE pc'[u] = "asleep"
      <4>1. u \in WriterQueue
        BY Zenon, <1>1, <1>2, <3>1, <3>2 DEF WriterQueue
      <4> QED BY Zenon, <2>2, <4>1
    <3>3. CASE pc'[u] # "asleep"
      BY Zenon, <3>1, <3>3 DEF Active
    <3> QED BY Zenon, <3>2, <3>3
  <2>4. \A u \in Threads : pc'[u] = "asleep" => (wait_rq'[u] => rd_cv' = 1)
    BY Zenon, <1>0, <1>1, <1>2, <2>1 DEF SleepInv
  <2> QED BY Zenon, <1>6, <2>3, <2>4 DEF SleepInv
<1>8. CASE wr_cv' = None /\ ~(wr_q' # 0 /\ rd_cnt' = 0) /\ rd_q' # 0
  <2>1. rd_cv' = 0 /\ Leave(t, ReaderQueue)
    BY Zenon, <1>8 DEF Body, WakePart
  <2>2. \A u \in Threads : pc'[u] = "asleep" => ~wait_rq'[u]
    <3>1. SUFFICES ASSUME NEW u \in Threads, pc'[u] = "asleep", wait_rq'[u] PROVE FALSE
      BY Zenon
    <3>2. u # t /\ pc[u] = "asleep" /\ wait_rq[u]
      BY Zenon, <1>1, <1>2, <3>1
    <3>3. u \in ReaderQueue
      BY Zenon, <1>0, <3>2 DEF OpInv, ReaderQueue
    <3>4. pc'[u] = "wait"
      BY Zenon, <2>1, <3>2, <3>3 DEF Leave
    <3> QED BY Zenon, <3>1, <3>4
  <2>3. (\E u \in Threads : wait_wq'[u]) => \E u \in Threads : Active(u)'
    BY Zenon, <1>4, <1>5, <1>8
  <2> QED BY <1>6, <2>1, <2>2, <2>3 DEF SleepInv
<1>9. CASE ~(wr_cv' = None /\ wr_q' # 0 /\ rd_cnt' = 0) /\ ~(wr_cv' = None /\ rd_q' # 0)
  <2>1. rd_cv' = 1 \/ rd_cv' = rd_cv
    BY Zenon, <1>9 DEF Body, WakePart
  <2>2. \A u \in Threads : pc'[u] = "asleep" => (wait_rq'[u] => rd_cv' = 1)
    BY Zenon, <1>0, <1>1, <1>2, <2>1 DEF SleepInv
  <2>3. (\E u \in Threads : wait_wq'[u]) => \E u \in Threads : Active(u)'
    BY Zenon, <1>4, <1>5, <1>9
  <2>4. (\E u \in Threads : wait_rq'[u]) => \E u \in Threads : Active(u)'
    BY Zenon, <1>4, <1>5, <1>9
  <2> QED BY Zenon, <1>6, <2>2, <2>3, <2>4 DEF SleepInv
<1> QED BY Zenon, <1>7, <1>8, <1>9

\* The body preserves the invariant.
LEMMA BodyPreserves ==
  ASSUME IInv, NEW t \in Threads, Body(t)
  PROVE  IInv'
<1> USE MainIsThread, NoneNotThread
<1>a. /\ TypeOK /\ MutexInv /\ OpInv /\ DropInv /\ RefInv /\ SpawnInv /\ RegInv
      /\ WriterInv /\ ReadersCounted /\ RefsCounted /\ QueuesCounted
      /\ FreesInv /\ KeyInv /\ AllocInv /\ SleepInv
  BY Zenon DEF IInv
<1>b. /\ pc[t] = "body" /\ WritePart(t) /\ ReadPart(t) /\ lock' = None
      /\ op' = [op EXCEPT ![t] = IF AfterBody(t) = "wait" THEN @ ELSE <<0, 0>>]
      /\ reg' = [reg EXCEPT ![t] = 0]
      /\ UNCHANGED <<g_rcnt, skey, frees, local_ref, dropping, child>>
  BY Zenon DEF Body
<1>c. /\ WaitsForWriter(t) \/ WaitsForReader(t) \/ Served(t)
      /\ wait_wq' \in [Threads -> BOOLEAN] /\ wait_rq' \in [Threads -> BOOLEAN]
      /\ \A u \in Threads \ {t} : wait_wq'[u] = wait_wq[u] /\ wait_rq'[u] = wait_rq[u]
      /\ dropping[t] => Served(t)
  BY Zenon, <1>b, Outcome
<1>d. /\ pc' \in [Threads -> PCs]
      /\ pc'[t] = AfterBody(t)
      /\ \A u \in Threads \ {t} : \/ pc'[u] = pc[u]
                                  \/ pc[u] = "asleep" /\ pc'[u] = "wait"
      /\ rd_cv' \in {0, 1}
  BY Zenon, BodyMoves
<1>e. /\ lock = t /\ reg[t] = rd_cnt /\ local_ref[t] > 0
      /\ op[t][1] \in Int /\ op[t][2] \in Int
      /\ local_wr[t] \in Nat /\ local_rd[t] \in Nat
      /\ op[t] # <<0, 0>> /\ (op[t][1] > 0 => op[t][2] = 0)
      /\ local_wr[t] + op[t][1] >= 0 /\ local_rd[t] + op[t][2] >= 0
      /\ ~wait_wq[t] /\ ~wait_rq[t]
      /\ dropping[t] => op[t][1] = -local_wr[t] /\ op[t][2] = -local_rd[t]
      /\ rd_cnt = Cardinality(Holding(local_rd))
      /\ local_rd[t] > 0 => rd_cnt > 0
      /\ (local_wr[t] > 0 <=> wr_cv = t)
  BY Zenon, <1>b, InBody
<1>f. /\ local_wr' \in [Threads -> Nat] /\ local_rd' \in [Threads -> Nat]
      /\ \A u \in Threads \ {t} : local_wr'[u] = local_wr[u] /\ local_rd'[u] = local_rd[u]
      /\ Served(t) => /\ local_wr'[t] = local_wr[t] + op[t][1]
                      /\ local_rd'[t] = local_rd[t] + op[t][2]
      /\ ~Served(t) => local_wr' = local_wr /\ local_rd' = local_rd
  <2>1. CASE Served(t)
    BY <1>a, <1>e, <2>1 DEF TypeOK, Served
  <2>2. CASE ~Served(t)
    BY Zenon, <1>a, <1>c, <2>2 DEF TypeOK, WaitsForWriter, WaitsForReader
  <2> QED BY Zenon, <2>1, <2>2
<1>g. /\ pc'[t] \in {"wait", "drop", "idle", "create"}
      /\ pc'[t] = "wait" <=> wait_wq'[t] \/ wait_rq'[t]
      /\ pc'[t] = "wait" => op'[t] = op[t]
      /\ pc'[t] = "drop" => dropping[t]
      /\ pc'[t] = "create" => child[t] # None
  BY Zenon, <1>a, <1>b, <1>d DEF AfterBody, Return, TypeOK
<1>h. \A u \in Threads \ {t} : op'[u] = op[u] /\ reg'[u] = reg[u] /\ pc[u] # "body"
  BY Zenon, <1>a, <1>b, <1>e DEF TypeOK, MutexInv
<1>1. TypeOK'
  <2>1. rd_cnt' \in Nat /\ wr_q' \in Nat /\ rd_q' \in Nat /\ wr_cv' \in Threads \cup {None}
    <3>1. CASE Served(t)
      <4>1. /\ rd_cnt \in Nat /\ wr_q \in Nat /\ rd_q \in Nat
            /\ wr_cv \in Threads \cup {None}
        BY Zenon, <1>a DEF TypeOK
      <4>2. local_rd[t] \in Nat /\ (local_rd[t] > 0 => rd_cnt > 0)
        BY Zenon, <1>e
      <4> QED BY <3>1, <4>1, <4>2 DEF Served
    <3>2. CASE ~Served(t)
      BY <1>a, <1>c, <3>2 DEF WaitsForWriter, WaitsForReader, TypeOK
    <3> QED BY Zenon, <3>1, <3>2
  <2>2. op' \in [Threads -> Int \X Int] /\ reg' \in [Threads -> Nat]
    BY <1>a, <1>b DEF TypeOK
  <2> QED BY Zenon, <1>a, <1>b, <1>c, <1>d, <1>f, <2>1, <2>2 DEF TypeOK
<1>2. MutexInv'
  BY Zenon, <1>b, <1>d, <1>g, <1>h DEF MutexInv
<1>3. OpInv'
  <2>1. ASSUME NEW u \in Threads, u # t
        PROVE  /\ pc'[u] \in InLockop =>
                     /\ op'[u] # <<0, 0>>
                     /\ local_wr'[u] + op'[u][1] >= 0
                     /\ local_rd'[u] + op'[u][2] >= 0
                     /\ op'[u][1] > 0 => op'[u][2] = 0
               /\ pc'[u] \in {"wait", "asleep"} => wait_wq'[u] \/ wait_rq'[u]
               /\ wait_wq'[u] => /\ pc'[u] \in {"wait", "asleep", "lock"} /\ ~wait_rq'[u]
                                 /\ local_wr'[u] = 0 /\ op'[u][1] > 0
               /\ wait_rq'[u] => /\ pc'[u] \in {"wait", "asleep", "lock"}
                                 /\ local_wr'[u] = 0 /\ local_rd'[u] = 0
    BY <1>a, <1>c, <1>d, <1>f, <1>h, <2>1 DEF OpInv, InLockop
  <2>2. /\ pc'[t] \in InLockop =>
              /\ op'[t] # <<0, 0>>
              /\ local_wr'[t] + op'[t][1] >= 0
              /\ local_rd'[t] + op'[t][2] >= 0
              /\ op'[t][1] > 0 => op'[t][2] = 0
        /\ pc'[t] \in {"wait", "asleep"} => wait_wq'[t] \/ wait_rq'[t]
        /\ wait_wq'[t] => /\ pc'[t] \in {"wait", "asleep", "lock"} /\ ~wait_rq'[t]
                          /\ local_wr'[t] = 0 /\ op'[t][1] > 0
        /\ wait_rq'[t] => /\ pc'[t] \in {"wait", "asleep", "lock"}
                          /\ local_wr'[t] = 0 /\ local_rd'[t] = 0
    <3>1. CASE Served(t)
      BY Zenon, <1>g, <3>1 DEF Served, InLockop
    <3>2. CASE WaitsForWriter(t)
      BY Zenon, <1>e, <1>g, <3>2 DEF WaitsForWriter, InLockop
    <3>3. CASE WaitsForReader(t)
      BY Zenon, <1>e, <1>g, <3>3 DEF WaitsForReader, InLockop
    <3>4. WaitsForWriter(t) \/ WaitsForReader(t) \/ Served(t)
      BY Zenon, <1>c
    <3> QED BY Zenon, <3>1, <3>2, <3>3, <3>4
  <2> QED BY Zenon, <2>1, <2>2 DEF OpInv
<1>4. DropInv'
  <2>1. ASSUME dropping[t]
        PROVE  pc'[t] = "drop" /\ local_wr'[t] = 0 /\ local_rd'[t] = 0
    <3>1. Served(t)
      BY Zenon, <1>c, <2>1
    <3>2. ~wait_wq'[t] /\ ~wait_rq'[t]
      BY Zenon, <3>1 DEF Served
    <3> QED BY <1>d, <1>e, <1>f, <2>1, <3>1, <3>2 DEF AfterBody
  <2> QED BY <1>a, <1>b, <1>d, <1>f, <1>g, <1>h, <2>1 DEF DropInv
<1>5. RefInv'
  BY Zenon, <1>a, <1>b, <1>d, <1>e, <1>f DEF RefInv
<1>6. SpawnInv'
  <2>1. child[t] # None => dropping[t]
    BY Zenon, <1>a, <1>b DEF SpawnInv
  <2>2. dropping[t] => pc'[t] = "drop"
    <3>1. SUFFICES ASSUME dropping[t] PROVE pc'[t] = "drop"
      BY Zenon
    <3>2. ~wait_wq'[t] /\ ~wait_rq'[t]
      BY Zenon, <1>c, <3>1 DEF Served
    <3> QED BY Zenon, <1>d, <3>1, <3>2 DEF AfterBody
  <2>3. \A u \in Threads : pc'[u] = "unborn" <=> pc[u] = "unborn"
    BY Zenon, <1>b, <1>d, <1>g
  <2>4. \A u \in Threads : pc'[u] = "unborn" =>
            /\ local_wr'[u] = 0 /\ local_rd'[u] = 0 /\ child'[u] = None
            /\ local_ref'[u] > 0 => \E v \in Threads : child'[v] = u
    BY <1>a, <1>b, <1>f, <2>3 DEF SpawnInv
  <2>5. \A u \in Threads :
           /\ child'[u] # None => /\ pc'[child'[u]] = "unborn"
                                  /\ pc'[u] \in {"lock", "body", "drop", "create"}
                                  /\ pc'[u] \in {"lock", "body"} => dropping'[u]
           /\ pc'[u] = "create" => child'[u] # None
    <3> TAKE u \in Threads
    <3>1. child'[u] = child[u] /\ dropping'[u] = dropping[u] /\ child[u] \in Threads \cup {None}
      BY Zenon, <1>a, <1>b DEF TypeOK
    <3>2. CASE u = t
      BY <1>a, <1>g, <2>1, <2>2, <2>3, <3>1, <3>2 DEF SpawnInv
    <3>3. CASE u # t
      BY <1>a, <1>d, <2>3, <3>1, <3>3 DEF SpawnInv
    <3> QED BY Zenon, <3>2, <3>3
  <2> QED BY <1>a, <1>b, <2>4, <2>5 DEF SpawnInv
<1>7. RegInv'
  BY Zenon, <1>d, <1>g, <1>h DEF RegInv
<1>8. WriterInv'
  <2>1. CASE ~Served(t)
    BY Zenon, <1>a, <1>c, <2>1 DEF WriterInv, WaitsForWriter, WaitsForReader
  <2>2. CASE Served(t)
    <3>1. \A u \in Threads : local_wr'[u] > 0 <=> wr_cv' = u
      <4> TAKE u \in Threads
      <4>1. /\ local_wr[u] > 0 <=> wr_cv = u
            /\ local_wr[t] > 0 <=> wr_cv = t
        BY Zenon, <1>a DEF WriterInv
      <4>2. CASE u = t
        BY Zenon, <2>2, <4>1, <4>2 DEF Served
      <4>3. CASE u # t
        <5>1. local_wr'[u] = local_wr[u]
          BY Zenon, <1>f, <4>3
        <5>2. local_wr[t] = 0 /\ local_wr'[t] > 0 => wr_cv = None \/ wr_cv = t
          BY Zenon, <2>2 DEF Served, Canlock
        <5>3. local_wr[t] \in Nat
          BY Zenon, <1>e
        <5> QED BY <2>2, <4>1, <4>3, <5>1, <5>2, <5>3 DEF Served
      <4> QED BY Zenon, <4>2, <4>3
    <3>2. ASSUME local_wr[t] = 0, local_wr'[t] > 0
          PROVE  \A u \in Threads \ {t} : local_rd[u] = 0
      <4>1. Canlock(t)
        BY Zenon, <2>2, <3>2 DEF Served
      <4>2. rd_cnt < 2 /\ (rd_cnt = 0 \/ local_rd[t] > 0)
        BY <1>e, <4>1 DEF Canlock
      <4>3. rd_cnt = 0 \/ (rd_cnt = 1 /\ local_rd[t] > 0)
        BY <1>a, <4>2 DEF TypeOK
      <4> QED BY <1>a, <1>e, <4>3, HoldingFew DEF TypeOK
    <3>3. wr_cv' = t => \A u \in Threads \ {t} : local_rd'[u] = 0
      BY <1>a, <1>e, <1>f, <3>1, <3>2 DEF WriterInv
    <3>4. ASSUME NEW v \in Threads, v # t, wr_cv' = v
          PROVE  \A u \in Threads \ {v} : local_rd'[u] = 0
      <4>1. wr_cv = v
        BY Zenon, <2>2, <3>4 DEF Served
      <4>2. \A u \in Threads \ {v} : local_rd[u] = 0
        BY Zenon, <1>a, <4>1 DEF WriterInv
      <4>3. ~(local_rd'[t] > 0)
        BY Zenon, <2>2, <3>4, <4>2 DEF Served
      <4> QED BY <1>f, <4>2, <4>3
    <3> QED BY Zenon, <3>1, <3>3, <3>4 DEF WriterInv
  <2> QED BY Zenon, <2>1, <2>2
<1>9. ReadersCounted'
  <2>1. Cardinality(Holding(local_rd')) = Cardinality(Holding(local_rd)) +
             (IF local_rd'[t] > 0 THEN 1 ELSE 0) - (IF local_rd[t] > 0 THEN 1 ELSE 0)
    BY Zenon, <1>a, <1>f, HoldingUpdate DEF TypeOK
  <2>2. Holding(local_rd)' = Holding(local_rd')
    BY Zenon DEF Holding
  <2>3. CASE Served(t)
    BY Zenon, <1>e, <2>1, <2>2, <2>3 DEF Served, ReadersCounted
  <2>4. CASE ~Served(t)
    BY Zenon, <1>a, <1>c, <1>f, <2>4 DEF ReadersCounted, WaitsForWriter, WaitsForReader, Holding
  <2> QED BY Zenon, <2>3, <2>4
<1>10. RefsCounted'
  BY Zenon, <1>a, <1>b DEF RefsCounted, Holding
<1>11. QueuesCounted'
  <2>1. Cardinality(Marked(wait_wq')) = Cardinality(Marked(wait_wq)) +
             (IF wait_wq'[t] THEN 1 ELSE 0) - (IF wait_wq[t] THEN 1 ELSE 0)
    BY Zenon, <1>a, <1>c, MarkedUpdate DEF TypeOK
  <2>2. Cardinality(Marked(wait_rq')) = Cardinality(Marked(wait_rq)) +
             (IF wait_rq'[t] THEN 1 ELSE 0) - (IF wait_rq[t] THEN 1 ELSE 0)
    BY Zenon, <1>a, <1>c, MarkedUpdate DEF TypeOK
  <2>3. Marked(wait_wq)' = Marked(wait_wq') /\ Marked(wait_rq)' = Marked(wait_rq')
    BY Zenon DEF Marked
  <2>4. Cardinality(Marked(wait_wq)) \in Nat /\ Cardinality(Marked(wait_rq)) \in Nat
    BY Zenon, ThreadSets DEF Marked
  <2>5. /\ wr_q' = wr_q + (IF wait_wq'[t] THEN 1 ELSE 0)
        /\ rd_q' = rd_q + (IF wait_rq'[t] THEN 1 ELSE 0)
    BY <1>a, <1>c DEF Served, WaitsForWriter, WaitsForReader, TypeOK
  <2> QED BY <1>a, <1>e, <2>1, <2>2, <2>3, <2>4, <2>5 DEF QueuesCounted
<1>12. FreesInv'
  BY Zenon, <1>a, <1>b DEF FreesInv
<1>13. KeyInv'
  BY Zenon, <1>a, <1>b DEF KeyInv
<1>14. AllocInv'
  <2>1. ASSUME NEW v \in Threads, pc'[v] = "alloc"
        PROVE  FALSE
    <3>1. v # t /\ pc[v] = "alloc" /\ lock # v
      BY Zenon, <1>d, <1>e, <1>g, <2>1
    <3>2. local_ref[t] = 0
      BY Zenon, <1>a, <3>1 DEF AllocInv
    <3> QED BY <1>e, <3>2
  <2> QED BY Zenon, <2>1 DEF AllocInv
<1>15. SleepInv'
  BY Zenon, <1>1, <1>3, <1>8, <1>9, <1>11, BodySleep
<1> QED BY <1>1, <1>2, <1>3, <1>4, <1>5, <1>6, <1>7, <1>8, <1>9, <1>10, <1>11, <1>12, <1>13, <1>14, <1>15 DEF IInv

\* A thread gives its last reference up.
LEMMA DropPreserves ==
  ASSUME IInv, NEW t \in Threads, Drop(t)
  PROVE  IInv'
<1> USE MainIsThread, NoneNotThread DEF IInv, Drop, shared, counts, frame
<1>a. g_rcnt > 0
  <2>1. local_ref[t] > 0
    BY Zenon DEF RefInv
  <2>2. Cardinality(Holding(local_ref)) > 0
    BY Zenon, <2>1, HoldingFew DEF TypeOK
  <2> QED BY Zenon, <2>2 DEF RefsCounted
<1>1. TypeOK'
  BY <1>a DEF TypeOK, PCs, Return, Frees
<1>2. MutexInv'
  BY Zenon DEF TypeOK, MutexInv, Return
<1>3. OpInv'
  BY Zenon DEF TypeOK, OpInv, InLockop, Return
<1>4. DropInv'
  BY Zenon DEF TypeOK, DropInv, Return
<1>5. RefInv'
  BY Zenon DEF TypeOK, RefInv, DropInv, Return
<1>6. SpawnInv'
  BY DEF TypeOK, SpawnInv, RefInv, Return
<1>7. RegInv'
  BY Zenon DEF TypeOK, RegInv, Return
<1>8. WriterInv'
  BY Zenon DEF WriterInv
<1>9. ReadersCounted'
  BY Zenon DEF ReadersCounted
<1>10. RefsCounted'
  <2>1. /\ local_ref' \in [Threads -> Nat] /\ local_ref'[t] = 0 /\ local_ref[t] > 0
        /\ \A u \in Threads \ {t} : local_ref'[u] = local_ref[u]
    BY Zenon DEF TypeOK, RefInv
  <2>2. Cardinality(Holding(local_ref')) = Cardinality(Holding(local_ref)) +
             (IF local_ref'[t] > 0 THEN 1 ELSE 0) - (IF local_ref[t] > 0 THEN 1 ELSE 0)
    BY Zenon, <2>1, HoldingUpdate DEF TypeOK
  <2>3. Holding(local_ref)' = Holding(local_ref')
    BY Zenon DEF Holding
  <2>4. Cardinality(Holding(local_ref)) \in Nat
    BY Zenon, ThreadSets DEF Holding
  <2> QED BY <2>1, <2>2, <2>3, <2>4 DEF RefsCounted
<1>11. QueuesCounted'
  BY Zenon DEF QueuesCounted
<1>12. FreesInv'
  BY <1>a DEF TypeOK, FreesInv, Frees
<1>13. KeyInv'
  BY Zenon DEF KeyInv, TypeOK
<1>14. AllocInv'
  BY Zenon DEF TypeOK, AllocInv, RefInv, Return
<1>15. SleepInv'
  BY DEF TypeOK, SleepInv, Active, OpInv, Return, DropInv
<1> QED BY Zenon, <1>1, <1>2, <1>3, <1>4, <1>5, <1>6, <1>7, <1>8, <1>9, <1>10, <1>11, <1>12, <1>13, <1>14, <1>15 DEF IInv

-----------------------------------------------------------------------------
(* The whole specification *)

\* A new region satisfies the invariant.
LEMMA InitIInv ==
  ASSUME Init
  PROVE  IInv
<1> USE MainIsThread, NoneNotThread DEF Init
<1>1. TypeOK
  BY DEF TypeOK, PCs
<1>2. MutexInv /\ OpInv /\ DropInv /\ RefInv /\ SpawnInv /\ RegInv
  BY DEF MutexInv, OpInv, InLockop, DropInv, RefInv, SpawnInv, RegInv
<1>3. WriterInv /\ FreesInv /\ KeyInv /\ AllocInv /\ SleepInv
  BY DEF WriterInv, FreesInv, KeyInv, AllocInv, SleepInv
<1>4. ReadersCounted
  BY Zenon, <1>1, HoldingFew DEF ReadersCounted, TypeOK
<1>5. RefsCounted
  <2>1. Holding(local_ref) = {Main}
    BY DEF Holding
  <2> QED BY Zenon, <2>1, FS_Singleton DEF RefsCounted
<1>6. QueuesCounted
  <2>1. Marked(wait_wq) = {} /\ Marked(wait_rq) = {}
    BY Zenon DEF Marked
  <2> QED BY Zenon, <2>1, FS_EmptySet DEF QueuesCounted
<1> QED BY Zenon, <1>1, <1>2, <1>3, <1>4, <1>5, <1>6 DEF IInv

\* Every step of the program and of the runtime preserves it.
LEMMA NextIInv ==
  ASSUME NoMixedRequest, ReferencesOnly, IInv, [Next]_vars
  PROVE  IInv'
<1>1. ASSUME NEW t \in Threads, NEW c \in CapOps, Cap(t, c)
      PROVE  IInv'
  BY Zenon, <1>1, CapPreserves
<1>2. ASSUME NEW t \in Threads, NEW u \in Threads, NEW c \in SpawnCaps, Spawn(t, u, c)
      PROVE  IInv'
  BY Zenon, <1>2, SpawnPreserves
<1>3. ASSUME NEW t \in Threads, Malloc(t) \/ Attach(t) \/ MallocLock(t) \/ MallocDone(t)
      PROVE  IInv'
  BY Zenon, <1>3, MallocPreserves, AttachPreserves, MallocLockPreserves, MallocDonePreserves
<1>4. ASSUME NEW t \in Threads,
             CvWait(t) \/ CvTimeout(t) \/ EnterBody(t) \/ Body(t) \/ Drop(t) \/ Create(t)
      PROVE  IInv'
  BY Zenon, <1>4, CvWaitPreserves, CvTimeoutPreserves, EnterBodyPreserves, BodyPreserves,
     DropPreserves, CreatePreserves
<1>5. CASE UNCHANGED vars
  BY <1>5 DEF vars, shared, counts, frame, IInv, TypeOK, MutexInv, OpInv, InLockop, DropInv,
     RefInv, SpawnInv, RegInv, WriterInv, ReadersCounted, RefsCounted, QueuesCounted,
     FreesInv, KeyInv, AllocInv, SleepInv, Active, Holding, Marked
<1> QED BY Zenon, <1>1, <1>2, <1>3, <1>4, <1>5 DEF Next, Call, Step, Done

\* The strengthened invariant holds in every reachable state, whatever the
\* number of threads and whatever the counts.
THEOREM Invariance ==
  ASSUME NoMixedRequest, ReferencesOnly
  PROVE  Spec => []IInv
<1>1. Init => IInv
  BY Zenon, InitIInv
<1>2. IInv /\ [Next]_vars => IInv'
  BY Zenon, NextIInv
<1> QED BY <1>1, <1>2, PTL DEF Spec

\* Reader/writer exclusion of __xregion_lockop: a thread that holds a write
\* count is alone on the region, writer_cv names it, and rd_cnt counts the
\* readers.
THEOREM LocksExclude ==
  ASSUME NoMixedRequest, ReferencesOnly
  PROVE  Spec => [](TypeOK /\ Exclusion /\ WriterCvNamesWriter /\ ReadersCounted)
<1>1. IInv => TypeOK /\ Exclusion /\ WriterCvNamesWriter /\ ReadersCounted
  <2> SUFFICES ASSUME IInv
               PROVE  TypeOK /\ Exclusion /\ WriterCvNamesWriter /\ ReadersCounted
    BY Zenon
  <2>1. TypeOK /\ WriterInv /\ ReadersCounted
    BY Zenon DEF IInv
  <2>2. Exclusion
    BY <2>1, NoneNotThread DEF Exclusion, WriterInv, TypeOK
  <2>3. ASSUME NEW t \in Threads, wr_cv = t
        PROVE  rd_cnt = IF local_rd[t] > 0 THEN 1 ELSE 0
    <3>1. CASE local_rd[t] > 0
      <4>1. Holding(local_rd) = {t}
        BY <2>1, <2>3, <3>1 DEF WriterInv, Holding, TypeOK
      <4> QED BY Zenon, <2>1, <3>1, <4>1, FS_Singleton DEF ReadersCounted
    <3>2. CASE ~(local_rd[t] > 0)
      <4>1. Holding(local_rd) = {}
        BY <2>1, <2>3, <3>2 DEF WriterInv, Holding, TypeOK
      <4> QED BY Zenon, <2>1, <3>2, <4>1, FS_EmptySet DEF ReadersCounted
    <3> QED BY Zenon, <3>1, <3>2
  <2> QED BY Zenon, <2>1, <2>2, <2>3 DEF WriterCvNamesWriter, WriterInv
<1> QED BY <1>1, Invariance, PTL

\* Reference counting of __xregion_refcnt: the region is freed exactly once,
\* by the last thread to leave, when nobody can touch the handle any more; and
\* get_tkey's cached key is the calling thread's.
THEOREM FreedByTheLast ==
  ASSUME NoMixedRequest, ReferencesOnly
  PROVE  Spec => [](RefsCounted /\ FreedOnceAndLast /\ CachedKeyIsOwn)
<1>1. IInv => RefsCounted /\ FreedOnceAndLast /\ CachedKeyIsOwn
  <2> SUFFICES ASSUME IInv
               PROVE  RefsCounted /\ FreedOnceAndLast /\ CachedKeyIsOwn
    BY Zenon
  <2>1. /\ TypeOK /\ RefsCounted /\ FreesInv /\ RefInv /\ KeyInv
        /\ Cardinality(Holding(local_ref)) = 0 <=> \A u \in Threads : local_ref[u] = 0
    BY Zenon, HoldingFew DEF IInv, TypeOK
  <2>2. FreedOnceAndLast
    <3>1. frees > 0 => \A t \in Threads : local_ref[t] = 0
      BY <2>1 DEF FreesInv, RefsCounted
    <3>2. \A t \in Threads : local_ref[t] = 0 =>
              local_wr[t] = 0 /\ local_rd[t] = 0 /\ pc[t] \in {"unborn", "idle", "create"}
      BY <2>1 DEF RefInv, TypeOK
    <3> QED BY Zenon, <2>1, <3>1, <3>2 DEF FreedOnceAndLast, FreesInv
  <2>3. CachedKeyIsOwn
    BY <2>1, MainIsThread DEF CachedKeyIsOwn, KeyInv, TypeOK
  <2> QED BY Zenon, <2>1, <2>2, <2>3
<1> QED BY <1>1, Invariance, PTL

\* The page list of the region is changed by one thread at a time, although
\* _xregion_malloc skips the mutex for a thread that is alone.
THEOREM AllocationExclusive ==
  ASSUME NoMixedRequest, ReferencesOnly
  PROVE  Spec => []AllocExclusive
<1>1. IInv => AllocExclusive
  BY DEF IInv, AllocExclusive, AllocInv, RefInv, MutexInv, TypeOK
<1> QED BY <1>1, Invariance, PTL

\* The queues of __xregion_lockop are counted, and no thread sleeps on a
\* condition variable while nobody is left to wake it.
THEOREM SleepersRemembered ==
  ASSUME NoMixedRequest, ReferencesOnly
  PROVE  Spec => [](QueuesCounted /\ NoSleeperForgotten)
<1>1. IInv => QueuesCounted /\ NoSleeperForgotten
  BY Zenon DEF IInv, NoSleeperForgotten, SleepInv, OpInv, TypeOK
<1> QED BY <1>1, Invariance, PTL

-----------------------------------------------------------------------------
(* Refinement *)

\* Steps that leave the sets of holders and the memory alone are invisible.
LEMMA Invisible ==
  ASSUME UNCHANGED <<local_ref, local_wr, local_rd, frees>>
  PROVE  UNCHANGED Abstract!avars
BY Zenon DEF Abstract!avars, holders, writers, readers, alive, Holding

\* The body of __xregion_lockop is one change of a thread's access.
LEMMA BodyAdjusts ==
  ASSUME IInv, IInv', NEW t \in Threads, Body(t)
  PROVE  Abstract!Adjust(t)
<1>1. /\ local_wr' \in [Threads -> Nat] /\ local_rd' \in [Threads -> Nat]
      /\ local_wr \in [Threads -> Nat] /\ local_rd \in [Threads -> Nat]
      /\ \A u \in Threads \ {t} : local_wr'[u] = local_wr[u] /\ local_rd'[u] = local_rd[u]
  BY Zenon, BodyOthers DEF IInv, TypeOK
<1>2. t \in holders
  BY Zenon, InBody DEF Body, holders, Holding
<1>3. /\ writers' \in {writers \cup {t}, writers \ {t}}
      /\ readers' \in {readers \cup {t}, readers \ {t}}
  <2>1. local_wr'[t] > 0 => writers' = writers \cup {t}
    BY Zenon, <1>1 DEF writers, Holding
  <2>2. ~(local_wr'[t] > 0) => writers' = writers \ {t}
    BY Zenon, <1>1 DEF writers, Holding
  <2>3. local_rd'[t] > 0 => readers' = readers \cup {t}
    BY Zenon, <1>1 DEF readers, Holding
  <2>4. ~(local_rd'[t] > 0) => readers' = readers \ {t}
    BY Zenon, <1>1 DEF readers, Holding
  <2> QED BY Zenon, <2>1, <2>2, <2>3, <2>4
<1>4. Abstract!Compatible(writers', readers')
  <2>1. WriterInv'
    BY Zenon DEF IInv
  <2>2. /\ \A v \in Threads : local_wr'[v] > 0 <=> wr_cv' = v
        /\ \A v, u \in Threads : wr_cv' = v /\ u # v => local_rd'[u] = 0
    BY Zenon, <2>1 DEF WriterInv
  <2> QED BY <1>1, <2>2 DEF Abstract!Compatible, writers, readers, Holding
<1>5. UNCHANGED <<holders, alive>>
  BY Zenon DEF Body, holders, alive, Holding
<1> QED BY Zenon, <1>2, <1>3, <1>4, <1>5 DEF Abstract!Adjust

\* A call of cap only announces what the body will do: the thread keeps a
\* reference until Drop.
LEMMA CapInvisible ==
  ASSUME IInv, NEW t \in Threads, NEW c \in CapOps, Cap(t, c)
  PROVE  UNCHANGED Abstract!avars
<1>1. c[1] \in Int /\ local_ref \in [Threads -> Nat]
  BY Zenon, CapOpsType DEF IInv, TypeOK
<1>2. local_ref[t] > 0 /\ RefAfter(t, c) > 0
  BY Zenon, <1>1 DEF Cap, Enough, RefAfter
<1>3. Holding(local_ref)' = Holding(local_ref)
  BY Zenon, <1>1, <1>2 DEF Holding, Cap
<1>4. UNCHANGED <<local_wr, local_rd, frees>>
  BY Zenon DEF Cap, shared
<1> QED BY Zenon, <1>3, <1>4 DEF Abstract!avars, holders, writers, readers, alive, Holding

\* A spawn makes the new thread a holder.
LEMMA SpawnShares ==
  ASSUME ReferencesOnly, IInv, NEW t \in Threads, NEW u \in Threads, NEW c \in SpawnCaps,
         Spawn(t, u, c)
  PROVE  Abstract!Share(t, u)
<1>1. c[1] \in Nat \ {0} /\ c[2] = 0 /\ c[3] = 0
  <2>1. c \in (Nat \ {0}) \X Nat \X Nat
    BY Zenon, SpawnCapsType
  <2> QED BY Zenon, <2>1 DEF ReferencesOnly
<1>2. /\ local_ref \in [Threads -> Nat] /\ local_wr \in [Threads -> Nat]
      /\ local_rd \in [Threads -> Nat]
      /\ local_ref[u] = 0 /\ local_wr[u] = 0 /\ local_rd[u] = 0 /\ u # t
  <2>1. /\ TypeOK /\ SpawnInv
        /\ pc[t] = "idle" /\ pc[u] = "unborn" /\ \A v \in Threads : child[v] # u
    BY Zenon DEF IInv, Spawn
  <2>2. local_ref[u] \in Nat /\ ~(local_ref[u] > 0)
    BY <2>1 DEF TypeOK, SpawnInv
  <2> QED BY <2>1, <2>2 DEF TypeOK, SpawnInv
<1>3. local_ref[t] > 0 /\ RefAfter(t, <<-c[1], -c[2], -c[3]>>) > 0
  <2>1. local_ref[t] > 0
    BY Zenon DEF Spawn, Enough
  <2> QED BY Zenon, <1>1, <1>2, <2>1 DEF RefAfter
<1>4. Holding(local_ref)' = Holding(local_ref) \cup {u}
  BY <1>1, <1>2, <1>3 DEF Holding, Spawn
<1>5. local_wr' = local_wr /\ local_rd' = local_rd /\ frees' = frees
  BY Zenon, <1>1, <1>2 DEF Spawn
<1> QED BY <1>2, <1>3, <1>4, <1>5 DEF Abstract!Share, holders, writers, readers, alive, Holding

\* Giving the last reference up is leaving.
LEMMA DropLeaves ==
  ASSUME IInv, IInv', NEW t \in Threads, Drop(t)
  PROVE  Abstract!Leave(t)
<1>1. /\ TypeOK /\ DropInv /\ RefInv /\ FreesInv' /\ RefsCounted' /\ TypeOK'
  BY Zenon DEF IInv
<1>2. t \in holders \ (writers \cup readers)
  <2>1. pc[t] = "drop"
    BY Zenon DEF Drop
  <2>2. local_ref[t] > 0
    BY Zenon, <1>1, <2>1 DEF RefInv
  <2>3. ~(local_wr[t] > 0) /\ ~(local_rd[t] > 0)
    BY <1>1, <2>1 DEF DropInv
  <2> QED BY Zenon, <2>2, <2>3 DEF holders, writers, readers, Holding
<1>3. holders' = holders \ {t}
  BY <1>1 DEF Drop, TypeOK, holders, Holding
<1>4. alive' = (holders' # {})
  <2>1. Cardinality(Holding(local_ref')) = 0 <=> \A u \in Threads : local_ref'[u] = 0
    BY Zenon, <1>1, HoldingFew DEF TypeOK
  <2>2. g_rcnt' = Cardinality(Holding(local_ref'))
    BY Zenon, <1>1 DEF RefsCounted, Holding
  <2>3. frees' = 0 <=> g_rcnt' # 0
    BY <1>1 DEF FreesInv
  <2>4. holders' # {} <=> ~(\A u \in Threads : local_ref'[u] = 0)
    BY <1>1 DEF holders, Holding, TypeOK
  <2> QED BY Zenon, <2>1, <2>2, <2>3, <2>4 DEF alive
<1>5. UNCHANGED <<writers, readers>>
  BY Zenon DEF Drop, writers, readers, Holding
<1> QED BY Zenon, <1>2, <1>3, <1>4, <1>5 DEF Abstract!Leave

\* The four counters of __xregion_lockop and __xregion_refcnt are exact whenever the
\* mutex is free or held: writer_cv, rd_cnt, the reference count and the queue lengths
\* say what the threads' own counts and flags say.
THEOREM CountersExact ==
  ASSUME NoMixedRequest, ReferencesOnly
  PROVE  Spec => []CountsExact
<1>1. WriterCvNamesWriter /\ ReadersCounted /\ RefsCounted /\ QueuesCounted => CountsExact
  BY DEF CountsExact
<1> QED BY <1>1, LocksExclude, FreedByTheLast, SleepersRemembered, PTL

\* The key that get_tkey caches in the region is the calling thread's own.
THEOREM CachedKeyOwn ==
  ASSUME NoMixedRequest, ReferencesOnly
  PROVE  Spec => []CachedKeyIsOwn
  BY FreedByTheLast, PTL

\* The runtime's region implements the reader/writer lock of RegionLock.
THEOREM Refinement ==
  ASSUME NoMixedRequest, ReferencesOnly
  PROVE  Spec => ImplementsRegionLock
<1>1. Init => Abstract!Init
  BY MainIsThread DEF Init, Abstract!Init, holders, writers, readers, alive, Holding
<1>2. IInv /\ IInv' /\ [Next]_vars => [Abstract!Next]_Abstract!avars
  <2> SUFFICES ASSUME IInv, IInv', [Next]_vars
               PROVE  Abstract!Next \/ UNCHANGED Abstract!avars
    BY Zenon
  <2>1. ASSUME NEW t \in Threads, NEW c \in CapOps, Cap(t, c)
        PROVE  UNCHANGED Abstract!avars
    BY Zenon, <2>1, CapInvisible
  <2>2. ASSUME NEW t \in Threads, NEW u \in Threads, NEW c \in SpawnCaps, Spawn(t, u, c)
        PROVE  Abstract!Next
    BY Zenon, <2>2, SpawnShares DEF Abstract!Next
  <2>3. ASSUME NEW t \in Threads,
               \/ Malloc(t) \/ Attach(t) \/ MallocLock(t) \/ MallocDone(t)
               \/ CvWait(t) \/ CvTimeout(t) \/ EnterBody(t) \/ Create(t)
        PROVE  UNCHANGED Abstract!avars
    <3>1. UNCHANGED <<local_ref, local_wr, local_rd, frees>>
      BY Zenon, <2>3 DEF Malloc, Attach, MallocLock, MallocDone, CvWait, CvTimeout, EnterBody,
         Create, shared, counts
    <3> QED BY Zenon, <3>1, Invisible
  <2>4. ASSUME NEW t \in Threads, Body(t)
        PROVE  Abstract!Next
    BY Zenon, <2>4, BodyAdjusts DEF Abstract!Next
  <2>5. ASSUME NEW t \in Threads, Drop(t)
        PROVE  Abstract!Next
    BY Zenon, <2>5, DropLeaves DEF Abstract!Next
  <2>6. CASE UNCHANGED vars
    BY Zenon, <2>6, Invisible DEF vars, shared, counts
  <2> QED BY Zenon, <2>1, <2>2, <2>3, <2>4, <2>5, <2>6 DEF Next, Call, Step, Done
<1> QED BY <1>1, <1>2, Invariance, PTL DEF Spec, ImplementsRegionLock, Abstract!Spec
=============================================================================
