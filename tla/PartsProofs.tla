---------------------------- MODULE PartsProofs -----------------------------
(***************************************************************************)
(* Proofs about two parts of the runtime that work apart from each other.  *)
(* MainJoin, for any number of threads, of spawns and any even word size:  *)
(* all_done counts the threads main has to wait for, main is the last to   *)
(* leave and is not forgotten asleep, and thread ids are distinct although *)
(* next_tid wraps around.                                                  *)
(* RegionTable: whatever is inserted, removed, moved to a larger or a      *)
(* smaller table and cached, for every list of sizes and every set of keys *)
(* and addresses, a lookup gives the handle the thread has for the region. *)
(***************************************************************************)
EXTENDS MainJoin, RegionTable, FiniteSetTheorems, TLAPS

-----------------------------------------------------------------------------
(* MainJoin: the invariant *)

\* Where the main thread and the others can be.
Places ==
    /\ pc[Main] \notin {"free", "unborn", "wake"}
    /\ \A u \in Workers : pc[u] \notin Joining

\* A thread that is being spawned has one parent, which is in _xspawn.
Spawning ==
    /\ \A t \in Threads : /\ pc[t] \in {"count", "create"} <=> child[t] # None
                          /\ child[t] # None => pc[child[t]] = "unborn"
                          /\ pc[t] = "unborn" => \E v \in Threads : child[v] = t
    /\ \A t, u \in Threads : child[t] = child[u] /\ child[t] # None => t = u

\* A living thread got its id at its birth, and no two were born together.
Births ==
    /\ next_tid = (2 * (spawns + 1) + 1) % Word
    /\ \A t \in Threads : pc[t] # "free" => /\ birth[t] <= spawns
                                            /\ tid[t] = (2 * birth[t] + 1) % Word
    /\ \A t, u \in Threads : pc[t] # "free" /\ pc[u] # "free" /\ t # u => birth[t] # birth[u]

\* The inductive invariant.
JoinIInv == JoinTypeOK /\ Places /\ Spawning /\ Births /\ AllDoneCounts /\ MainIsWoken /\ MainExitsLast

\* Two odd numbers less than the word size apart differ modulo the word size.
LEMMA OddMod ==
  ASSUME NEW w \in Nat, w > 2, w % 2 = 0, NEW a \in Nat
  PROVE  /\ (2 * a + 1) % w \in 1 .. w - 1
         /\ \A b \in Nat : a < b /\ b - a < w \div 2 => (2 * a + 1) % w # (2 * b + 1) % w
<1> DEFINE h == w \div 2
           q == (2 * a + 1) \div w
           r == (2 * a + 1) % w
<1>1. h \in Nat /\ w = 2 * h
  OBVIOUS
<1>2. q \in Nat /\ r \in 0 .. w - 1 /\ 2 * a + 1 = w * q + r
  OBVIOUS
<1>3. r # 0
  <2>1. h * q \in Nat
    BY <1>1, <1>2
  <2>2. w * q = 2 * (h * q)
    BY <1>1, <1>2
  <2>3. 2 * a + 1 # 2 * (h * q)
    BY <2>1
  <2> QED BY <1>2, <2>2, <2>3
<1>4. ASSUME NEW b \in Nat, a < b, b - a < h, r = (2 * b + 1) % w
      PROVE  FALSE
  <2> DEFINE p == (2 * b + 1) \div w
  <2>1. p \in Nat /\ 2 * b + 1 = w * p + r
    BY <1>4
  <2>2. 2 * (b - a) = w * p - w * q
    BY <1>2, <2>1
  <2>3. h * p \in Nat /\ h * q \in Nat /\ w * p = 2 * (h * p) /\ w * q = 2 * (h * q)
    BY <1>1, <1>2, <2>1
  <2> HIDE DEF p, q, h, r
  <2>4. b - a = h * p - h * q
    BY <2>2, <2>3
  <2>5. CASE p <= q
    <3>1. h * p <= h * q
      BY <1>1, <1>2, <2>1, <2>5
    <3> QED BY <1>4, <2>3, <2>4, <3>1
  <2>6. CASE p >= q + 1
    <3>1. h * p >= h * (q + 1)
      BY <1>1, <1>2, <2>1, <2>6
    <3>2. h * (q + 1) = h * q + h
      BY <1>1, <1>2
    <3> QED BY <1>1, <1>4, <2>3, <2>4, <3>1, <3>2
  <2> QED BY <1>2, <2>1, <2>5, <2>6
<1> QED BY <1>1, <1>2, <1>3, <1>4

\* What determines the remainder.
LEMMA ModUnique ==
  ASSUME NEW w \in Nat \ {0}, NEW a \in Nat, NEW q \in Nat, NEW r \in 0 .. w - 1, a = w * q + r
  PROVE  a % w = r
<1> DEFINE p == a \div w
           s == a % w
<1>1. p \in Nat /\ s \in 0 .. w - 1 /\ a = w * p + s
  OBVIOUS
<1>2. w * p \in Nat /\ w * q \in Nat
  BY <1>1
<1> HIDE DEF p, s
<1>3. CASE p = q
  <2>1. w * p = w * q
    BY Zenon, <1>3
  <2>2. \A i, j, k \in Int : i + j = i + k => j = k
    OBVIOUS
  <2> QED BY <1>1, <1>2, <2>1, <2>2 DEF s
<1>4. CASE p >= q + 1
  <2>1. w * p >= w * (q + 1) /\ w * (q + 1) = w * q + w
    BY <1>1, <1>4
  <2> QED BY <1>1, <1>2, <2>1
<1>5. CASE q >= p + 1
  <2>1. w * q >= w * (p + 1) /\ w * (p + 1) = w * p + w
    BY <1>1, <1>5
  <2> QED BY <1>1, <1>2, <2>1
<1>6. a % w = s
  BY Zenon DEF s
<1> QED BY <1>1, <1>3, <1>4, <1>5, <1>6

\* Adding to a remainder is adding to the number.
LEMMA ModAdd ==
  ASSUME NEW w \in Nat, w > 2, NEW x \in Nat
  PROVE  ((x % w) + 2) % w = (x + 2) % w
<1> DEFINE q == x \div w
           r == x % w
<1>1. q \in Nat /\ r \in 0 .. w - 1 /\ x = w * q + r /\ w * q \in Nat
  OBVIOUS
<1> HIDE DEF q, r
<1>2. CASE r + 2 < w
  <2>1. (r + 2) % w = r + 2
    BY <1>1, <1>2
  <2>2. (x + 2) % w = r + 2
    <3>1. x + 2 = w * q + (r + 2) /\ r + 2 \in 0 .. w - 1
      BY <1>1, <1>2
    <3> QED BY <1>1, <3>1, ModUnique
  <2> QED BY Zenon, <2>1, <2>2 DEF r
<1>3. CASE r + 2 >= w
  <2> DEFINE s == r + 2 - w
  <2>1. s \in 0 .. w - 1 /\ r + 2 = w * 1 + s
    BY <1>1, <1>3
  <2>2. x + 2 = w * (q + 1) + s
    <3>1. w * (q + 1) = w * q + w
      BY <1>1
    <3> QED BY <1>1, <3>1
  <2> HIDE DEF s
  <2>3. (r + 2) % w = s
    BY <1>1, <2>1, ModUnique
  <2>4. (x + 2) % w = s
    BY <1>1, <2>1, <2>2, ModUnique
  <2> QED BY Zenon, <2>3, <2>4 DEF r
<1> QED BY <1>1, <1>2, <1>3

-----------------------------------------------------------------------------
\* JoinIInv holds when main() starts.
LEMMA JoinInitIInv ==
  ASSUME JoinConstants
  PROVE  JoinInit => JoinIInv
<1> SUFFICES ASSUME JoinInit PROVE JoinIInv
  BY Zenon
<1> USE DEF JoinInit, JoinConstants
<1>1. 3 % Word \in 0 .. Word - 1 /\ 1 % Word = 1
  OBVIOUS
<1>2. JoinTypeOK
  <2>1. tid \in [Threads -> 0 .. Word - 1] /\ birth \in [Threads -> Nat]
    OBVIOUS
  <2>2. pc \in [Threads -> PCs] /\ child \in [Threads -> Threads \cup {None}]
    BY Zenon DEF PCs
  <2>3. next_tid \in 0 .. Word - 1 /\ all_done \in Nat /\ spawns \in 0 .. MaxSpawns /\ val \in Nat
    BY <1>1
  <2>4. final \in BOOLEAN /\ process \in {"running", "returned", "aborted"}
    BY Zenon
  <2> QED BY Zenon, <2>1, <2>2, <2>3, <2>4 DEF JoinTypeOK
<1>3. Places /\ Spawning
  BY Zenon DEF Places, Spawning, Workers, Joining
<1>4. Births
  BY <1>1 DEF Births
<1>5. AllDoneCounts
  <2>1. Counted = {}
    BY Zenon DEF Counted, Workers
  <2> QED BY Zenon, <2>1, FS_EmptySet DEF AllDoneCounts
<1> QED BY Zenon, <1>2, <1>3, <1>4, <1>5 DEF JoinIInv, MainIsWoken, MainExitsLast

\* A set of workers is finite.
LEMMA CountedFinite ==
  ASSUME JoinConstants
  PROVE  IsFiniteSet(Counted) /\ Cardinality(Counted) \in Nat
  BY Zenon, FS_Subset, FS_CardinalityType DEF JoinConstants, Counted, Workers

\* __init_new_thread_stack takes an id nobody has, and counts nothing.
LEMMA InitNewThreadStackIInv ==
  ASSUME JoinConstants, JoinIInv, process = "running", NEW t \in Threads, NEW u \in Threads,
         InitNewThreadStack(t, u)
  PROVE  JoinIInv'
<1> USE DEF JoinConstants
<1>0. JoinTypeOK /\ Places /\ Spawning /\ Births /\ AllDoneCounts /\ MainIsWoken /\ MainExitsLast
  BY Zenon DEF JoinIInv
<1>1. /\ pc[t] = "run" /\ pc[u] = "free" /\ t # u /\ spawns < MaxSpawns /\ u # Main
      /\ child[t] = None /\ \A v \in Threads : child[v] # u
  BY Zenon, <1>0 DEF InitNewThreadStack, Places, Spawning
<1>2. /\ pc' = [pc EXCEPT ![t] = "count", ![u] = "unborn"]
      /\ child' = [child EXCEPT ![t] = u]
      /\ UNCHANGED <<all_done, val, final, process>>
      /\ tid' = [tid EXCEPT ![u] = next_tid] /\ spawns' = spawns + 1
      /\ birth' = [birth EXCEPT ![u] = spawns + 1]
      /\ next_tid' = (next_tid + 2) % Word
  BY Zenon DEF InitNewThreadStack, NextTid
<1>3. /\ pc'[t] = "count" /\ pc'[u] = "unborn" /\ child'[t] = u
      /\ \A v \in Threads \ {t} : child'[v] = child[v]
      /\ \A v \in Threads \ {t, u} : pc'[v] = pc[v]
      /\ pc' \in [Threads -> PCs] /\ child' \in [Threads -> Threads \cup {None}]
  BY Zenon, <1>0, <1>1, <1>2 DEF JoinTypeOK, PCs
<1>4. /\ tid'[u] = next_tid /\ birth'[u] = spawns + 1
      /\ \A v \in Threads \ {u} : tid'[v] = tid[v] /\ birth'[v] = birth[v]
      /\ tid' \in [Threads -> 0 .. Word - 1] /\ birth' \in [Threads -> Nat]
  BY <1>0, <1>2 DEF JoinTypeOK
<1>5. JoinTypeOK'
  <2>1. next_tid' \in 0 .. Word - 1
    BY <1>0, <1>2 DEF JoinTypeOK
  <2> QED BY <1>0, <1>1, <1>2, <1>3, <1>4, <2>1 DEF JoinTypeOK
<1>6. Places'
  BY Zenon, <1>0, <1>1, <1>3 DEF Places, Workers, Joining
<1>7. Spawning'
  <2>1. \A v \in Threads : /\ pc'[v] \in {"count", "create"} <=> child'[v] # None
                           /\ child'[v] # None => pc'[child'[v]] = "unborn"
    <3> TAKE v \in Threads
    <3>1. CASE v = t
      BY Zenon, <1>3, <3>1
    <3>2. CASE v # t
      BY <1>0, <1>1, <1>3, <3>2 DEF Spawning, JoinTypeOK
    <3> QED BY Zenon, <3>1, <3>2
  <2>2. \A v \in Threads : pc'[v] = "unborn" => \E w \in Threads : child'[w] = v
    <3> SUFFICES ASSUME NEW v \in Threads, pc'[v] = "unborn", v # u
                 PROVE  \E w \in Threads : child'[w] = v
      BY Zenon, <1>3
    <3>1. PICK w \in Threads : child[w] = v
      BY Zenon, <1>0, <1>3 DEF Spawning
    <3> QED BY Zenon, <1>1, <1>3, <3>1
  <2>3. \A v, w \in Threads : child'[v] = child'[w] /\ child'[v] # None => v = w
    BY <1>0, <1>1, <1>3 DEF Spawning
  <2> QED BY Zenon, <2>1, <2>2, <2>3 DEF Spawning
<1>8. Births'
  <2>1. next_tid' = (2 * (spawns' + 1) + 1) % Word
    <3> DEFINE x == 2 * (spawns + 1) + 1
    <3>1. x \in Nat /\ 2 * (spawns' + 1) + 1 = x + 2
      BY <1>0, <1>2 DEF JoinTypeOK
    <3>2. next_tid = x % Word
      BY Zenon, <1>0 DEF Births
    <3>3. next_tid' = ((x % Word) + 2) % Word
      BY Zenon, <1>2, <3>2
    <3> HIDE DEF x
    <3>4. ((x % Word) + 2) % Word = (x + 2) % Word
      BY Zenon, <3>1, ModAdd
    <3> QED BY Zenon, <3>1, <3>3, <3>4
  <2>2. \A v \in Threads : pc'[v] # "free" => birth'[v] <= spawns'
    BY <1>0, <1>1, <1>2, <1>3, <1>4 DEF Births, JoinTypeOK
  <2>3. \A v \in Threads : pc'[v] # "free" => tid'[v] = (2 * birth'[v] + 1) % Word
    BY <1>0, <1>1, <1>3, <1>4 DEF Births
  <2>4. \A v, w \in Threads : pc'[v] # "free" /\ pc'[w] # "free" /\ v # w => birth'[v] # birth'[w]
    <3>1. \A v \in Threads \ {u} : pc'[v] # "free" => pc[v] # "free" /\ birth[v] < birth'[u]
      BY <1>0, <1>1, <1>3, <1>4 DEF Births, JoinTypeOK
    <3>2. \A v \in Threads \ {u} : birth'[v] = birth[v] /\ birth[v] \in Nat
      BY Zenon, <1>0, <1>4 DEF JoinTypeOK
    <3> QED BY <1>0, <3>1, <3>2 DEF Births
  <2> QED BY Zenon, <2>1, <2>2, <2>3, <2>4 DEF Births
<1>9. AllDoneCounts'
  <2>1. \A v \in Workers : v \in Counted' <=> v \in Counted
    <3> TAKE v \in Workers
    <3>1. (\E w \in Threads : child'[w] = v /\ pc'[w] = "create")
             <=> (\E w \in Threads : child[w] = v /\ pc[w] = "create")
      BY <1>0, <1>1, <1>3 DEF Spawning
    <3> QED BY Zenon, <1>0, <1>1, <1>3, <3>1 DEF Counted, Workers
  <2>2. Counted' = Counted
    BY Zenon, <2>1 DEF Counted
  <2> QED BY Zenon, <1>0, <1>2, <2>2 DEF AllDoneCounts
<1>10. MainIsWoken'
  BY Zenon, <1>0, <1>1, <1>2, <1>3 DEF MainIsWoken
<1>11. MainExitsLast'
  BY Zenon, <1>2 DEF MainExitsLast
<1> QED BY Zenon, <1>5, <1>6, <1>7, <1>8, <1>9, <1>10, <1>11 DEF JoinIInv

\* _xspawn counts the child before it exists.
LEMMA CountChildIInv ==
  ASSUME JoinConstants, JoinIInv, NEW t \in Threads, CountChild(t)
  PROVE  JoinIInv'
<1> USE DEF JoinConstants
<1>0. JoinTypeOK /\ Places /\ Spawning /\ Births /\ AllDoneCounts /\ MainIsWoken /\ MainExitsLast
  BY Zenon DEF JoinIInv
<1> DEFINE u == child[t]
<1>1. /\ pc[t] = "count" /\ pc' = [pc EXCEPT ![t] = "create"] /\ all_done' = all_done + 1
      /\ UNCHANGED <<next_tid, tid, birth, spawns, child, val, final, process>>
  BY Zenon DEF CountChild, Goto
<1>2. /\ pc'[t] = "create" /\ \A v \in Threads \ {t} : pc'[v] = pc[v]
      /\ pc' \in [Threads -> PCs]
  BY Zenon, <1>0, <1>1 DEF JoinTypeOK, PCs
<1>3. u \in Threads /\ pc[u] = "unborn" /\ u # t /\ u # Main
  BY <1>0, <1>1 DEF Spawning, Places, JoinTypeOK
<1>4. JoinTypeOK'
  BY <1>0, <1>1, <1>2 DEF JoinTypeOK
<1>5. Places' /\ Births' /\ MainExitsLast'
  BY Zenon, <1>0, <1>1, <1>2 DEF Places, Births, MainExitsLast, Workers, Joining
<1>6. Spawning'
  <2>1. \A v \in Threads : child[v] # None => pc'[child[v]] = "unborn"
    BY <1>0, <1>1, <1>2 DEF Spawning, JoinTypeOK
  <2> QED BY <1>0, <1>1, <1>2, <2>1 DEF Spawning
<1>7. AllDoneCounts'
  <2>1. u \notin Counted
    BY Zenon, <1>0, <1>1, <1>3 DEF Counted, Spawning
  <2>2. Counted' = Counted \cup {u}
    <3>1. \A v \in Workers : v \in Counted' <=> v \in Counted \/ v = u
      BY <1>0, <1>1, <1>2, <1>3 DEF Counted, Workers, Spawning
    <3>2. u \in Workers
      BY Zenon, <1>3 DEF Workers
    <3> QED BY Zenon, <3>1, <3>2 DEF Counted
  <2> HIDE DEF u
  <2>3. Cardinality(Counted \cup {u}) = Cardinality(Counted) + 1
    BY Zenon, <2>1, CountedFinite, FS_AddElement
  <2> QED BY Zenon, <1>0, <1>1, <2>2, <2>3 DEF AllDoneCounts
<1>8. MainIsWoken'
  BY <1>0, <1>1 DEF MainIsWoken, JoinTypeOK
<1> QED BY Zenon, <1>4, <1>5, <1>6, <1>7, <1>8 DEF JoinIInv

\* GC_pthread_create: the child, counted already, runs.
LEMMA PthreadCreateIInv ==
  ASSUME JoinConstants, JoinIInv, process = "running", NEW t \in Threads, PthreadCreate(t)
  PROVE  JoinIInv'
<1> USE DEF JoinConstants
<1>0. JoinTypeOK /\ Places /\ Spawning /\ Births /\ AllDoneCounts /\ MainIsWoken /\ MainExitsLast
  BY Zenon DEF JoinIInv
<1>1. /\ pc[t] = "create"
      /\ UNCHANGED <<next_tid, all_done, tid, birth, spawns, val, final>>
  BY Zenon DEF PthreadCreate
<1>2. CASE process' = "aborted" /\ UNCHANGED <<pc, child>>
  <2>1. JoinTypeOK'
    BY Zenon, <1>0, <1>1, <1>2 DEF JoinTypeOK
  <2>2. Counted' = Counted
    BY Zenon, <1>2 DEF Counted
  <2> QED BY <1>0, <1>1, <1>2, <2>1, <2>2
          DEF JoinIInv, Places, Spawning, Births, AllDoneCounts, MainIsWoken, MainExitsLast
<1>3. CASE /\ pc' = [pc EXCEPT ![t] = "run", ![child[t]] = "run"]
           /\ child' = [child EXCEPT ![t] = None]
           /\ UNCHANGED process
  <2> DEFINE u == child[t]
  <2>1. u \in Threads /\ pc[u] = "unborn" /\ u # t /\ u # Main
    BY <1>0, <1>1 DEF Spawning, Places, JoinTypeOK
  <2>2. /\ pc'[t] = "run" /\ pc'[u] = "run" /\ \A v \in Threads \ {t, u} : pc'[v] = pc[v]
        /\ child'[t] = None /\ \A v \in Threads \ {t} : child'[v] = child[v]
        /\ pc' \in [Threads -> PCs] /\ child' \in [Threads -> Threads \cup {None}]
    BY Zenon, <1>0, <1>3, <2>1 DEF JoinTypeOK, PCs
  <2>3. child[u] = None
    BY Zenon, <1>0, <2>1 DEF Spawning
  <2>4. JoinTypeOK'
    BY Zenon, <1>0, <1>1, <1>3, <2>2 DEF JoinTypeOK
  <2>5. Places'
    BY Zenon, <1>0, <2>1, <2>2 DEF Places, Workers, Joining
  <2>6. Births' /\ MainExitsLast'
    BY <1>0, <1>1, <1>3, <2>1, <2>2 DEF Births, MainExitsLast
  <2>7. Spawning'
    <3>1. \A v \in Threads : /\ pc'[v] \in {"count", "create"} <=> child'[v] # None
                             /\ child'[v] # None => pc'[child'[v]] = "unborn"
      <4> TAKE v \in Threads
      <4>1. CASE v = t \/ v = u
        BY Zenon, <2>1, <2>2, <2>3, <4>1
      <4>2. CASE v # t /\ v # u
        <5>1. pc'[v] = pc[v] /\ child'[v] = child[v]
          BY Zenon, <2>2, <4>2
        <5>2. child[v] # None => child[v] \in Threads /\ child[v] # u /\ child[v] # t
          BY <1>0, <1>1, <2>1, <4>2 DEF Spawning, JoinTypeOK
        <5> QED BY <1>0, <2>2, <5>1, <5>2 DEF Spawning
      <4> QED BY Zenon, <4>1, <4>2
    <3>2. \A v \in Threads : pc'[v] = "unborn" => \E w \in Threads : child'[w] = v
      <4> SUFFICES ASSUME NEW v \in Threads, pc'[v] = "unborn"
                   PROVE  \E w \in Threads : child'[w] = v
        BY Zenon
      <4>1. v # u /\ pc[v] = "unborn"
        BY Zenon, <2>2
      <4>2. PICK w \in Threads : child[w] = v
        BY Zenon, <1>0, <4>1 DEF Spawning
      <4> QED BY Zenon, <2>2, <4>1, <4>2
    <3>3. \A v, w \in Threads : child'[v] = child'[w] /\ child'[v] # None => v = w
      BY <1>0, <2>2 DEF Spawning
    <3> QED BY Zenon, <3>1, <3>2, <3>3 DEF Spawning
  <2>8. AllDoneCounts'
    <3>1. \A v \in Workers : v \in Counted' <=> v \in Counted
      <4> TAKE v \in Workers
      <4>1. CASE v = u
        BY Zenon, <1>1, <2>1, <2>2, <4>1 DEF Counted
      <4>2. CASE v # u
        <5>1. (\E w \in Threads : child'[w] = v /\ pc'[w] = "create")
                 <=> (\E w \in Threads : child[w] = v /\ pc[w] = "create")
          BY Zenon, <2>1, <2>2, <2>3, <4>2 DEF Workers
        <5>2. pc'[v] \notin {"free", "unborn", "wake"} <=> pc[v] \notin {"free", "unborn", "wake"}
          BY Zenon, <1>1, <2>2, <4>2 DEF Workers
        <5> QED BY Zenon, <5>1, <5>2 DEF Counted
      <4> QED BY Zenon, <4>1, <4>2
    <3>2. Counted' = Counted
      BY Zenon, <3>1 DEF Counted
    <3> QED BY Zenon, <1>0, <1>1, <3>2 DEF AllDoneCounts
  <2>9. MainIsWoken'
    BY Zenon, <1>0, <1>1, <2>1, <2>2 DEF MainIsWoken
  <2> QED BY Zenon, <2>4, <2>5, <2>6, <2>7, <2>8, <2>9 DEF JoinIInv
<1> QED BY Zenon, <1>2, <1>3 DEF PthreadCreate

\* _thread_internal2 gives the count back; the last one goes on to wake main.
LEMMA FinishIInv ==
  ASSUME JoinConstants, JoinIInv, NEW t \in Threads, Finish(t)
  PROVE  JoinIInv'
<1> USE DEF JoinConstants
<1>0. JoinTypeOK /\ Places /\ Spawning /\ Births /\ AllDoneCounts /\ MainIsWoken /\ MainExitsLast
  BY Zenon DEF JoinIInv
<1> DEFINE x == IF all_done = 1 THEN "wake" ELSE "free"
<1>1. /\ t # Main /\ pc[t] = "run" /\ pc' = [pc EXCEPT ![t] = x] /\ all_done' = all_done - 1
      /\ UNCHANGED <<next_tid, tid, birth, spawns, child, val, final, process>>
  BY Zenon DEF Finish, Goto
<1>2. x \in {"wake", "free"} /\ (all_done = 1 => x = "wake")
  BY Zenon
<1> HIDE DEF x
<1>3. /\ pc'[t] = x /\ \A v \in Threads \ {t} : pc'[v] = pc[v]
      /\ pc' \in [Threads -> PCs]
  BY Zenon, <1>0, <1>1, <1>2 DEF JoinTypeOK, PCs
<1>4. \A v \in Threads : child[v] # t
  BY Zenon, <1>0, <1>1 DEF Spawning
<1>5. all_done' = Cardinality(Counted') /\ all_done' \in Nat
  <2>1. t \in Counted
    BY Zenon, <1>1 DEF Counted, Workers
  <2>2. Counted' = Counted \ {t}
    <3>1. \A v \in Workers : v \in Counted' <=> v \in Counted /\ v # t
      BY <1>0, <1>1, <1>2, <1>3, <1>4 DEF Counted, Spawning
    <3> QED BY <3>1 DEF Counted
  <2>3. Cardinality(Counted \ {t}) = Cardinality(Counted) - 1 /\ Cardinality(Counted \ {t}) \in Nat
    BY Zenon, <2>1, CountedFinite, FS_RemoveElement, FS_CardinalityType
  <2> QED BY Zenon, <1>0, <1>1, <2>2, <2>3 DEF AllDoneCounts
<1>6. JoinTypeOK'
  BY Zenon, <1>0, <1>1, <1>3, <1>5 DEF JoinTypeOK
<1>7. Places' /\ Births' /\ MainExitsLast'
  BY Zenon, <1>0, <1>1, <1>2, <1>3 DEF Places, Births, MainExitsLast, Workers, Joining
<1>8. Spawning'
  <2>1. child[t] = None
    BY Zenon, <1>0, <1>1 DEF Spawning
  <2>2. \A v \in Threads : child[v] # None => child[v] \in Threads \ {t}
    BY Zenon, <1>0, <1>4 DEF JoinTypeOK
  <2> QED BY <1>0, <1>1, <1>2, <1>3, <1>4, <2>1, <2>2 DEF Spawning
<1>9. MainIsWoken'
  <2>1. all_done = 1 => pc'[t] = "wake"
    BY Zenon, <1>2, <1>3
  <2>2. all_done' = 0 => all_done = 1
    BY <1>0, <1>1 DEF JoinTypeOK
  <2> QED BY Zenon, <1>1, <2>1, <2>2 DEF MainIsWoken
<1> QED BY Zenon, <1>5, <1>6, <1>7, <1>8, <1>9 DEF JoinIInv, AllDoneCounts

\* A step of main between the program and main_join changes nothing that is counted.
LEMMA MainMoves ==
  ASSUME JoinConstants, JoinIInv, NEW x \in {"run", "test", "load", "wait", "asleep"},
         pc[Main] \in {"run", "test", "load", "wait", "asleep"},
         pc' = [pc EXCEPT ![Main] = x],
         UNCHANGED <<next_tid, all_done, tid, birth, spawns, child>>
  PROVE  /\ pc' \in [Threads -> PCs] /\ pc'[Main] = x
         /\ \A u \in Threads \ {Main} : pc'[u] = pc[u]
         /\ Places' /\ Spawning' /\ Births' /\ AllDoneCounts'
<1> USE DEF JoinConstants
<1>0. JoinTypeOK /\ Places /\ Spawning /\ Births /\ AllDoneCounts
  BY Zenon DEF JoinIInv
<1>1. /\ pc'[Main] = x /\ \A v \in Threads \ {Main} : pc'[v] = pc[v]
      /\ pc' \in [Threads -> PCs]
  BY Zenon, <1>0 DEF JoinTypeOK, PCs
<1>2. Places' /\ Births'
  BY <1>0, <1>1 DEF Places, Births, Workers, Joining
<1>3. Spawning'
  <2>1. child[Main] = None
    BY Zenon, <1>0 DEF Spawning
  <2>2. \A v \in Threads : child[v] # None => child[v] \in Threads \ {Main}
    BY <1>0 DEF JoinTypeOK, Spawning
  <2> QED BY <1>0, <1>1, <2>1, <2>2 DEF Spawning
<1>4. AllDoneCounts'
  <2>1. \A v \in Workers : v \in Counted' <=> v \in Counted
    BY Zenon, <1>0, <1>1 DEF Counted, Workers
  <2>2. Counted' = Counted
    BY Zenon, <2>1 DEF Counted
  <2> QED BY Zenon, <1>0, <2>2 DEF AllDoneCounts
<1> QED BY Zenon, <1>1, <1>2, <1>3, <1>4

\* The last thread wakes main.
LEMMA FutexWakeIInv ==
  ASSUME JoinConstants, JoinIInv, NEW t \in Threads, FutexWake(t)
  PROVE  JoinIInv'
<1> USE DEF JoinConstants
<1>0. JoinTypeOK /\ Places /\ Spawning /\ Births /\ AllDoneCounts /\ MainIsWoken /\ MainExitsLast
  BY Zenon DEF JoinIInv
<1>1. /\ pc[t] = "wake" /\ t # Main
      /\ UNCHANGED <<next_tid, all_done, tid, birth, spawns, child, val, final, process>>
      /\ pc' = [pc EXCEPT ![t] = "free", ![Main] = IF @ = "asleep" THEN "test" ELSE @]
  BY Zenon, <1>0 DEF FutexWake, Places
<1>2. /\ pc'[t] = "free" /\ pc' \in [Threads -> PCs]
      /\ \A v \in Threads \ {t, Main} : pc'[v] = pc[v]
      /\ pc'[Main] # "asleep"
      /\ pc'[Main] = pc[Main] \/ (pc[Main] = "asleep" /\ pc'[Main] = "test")
  <2>1. pc \in [Threads -> PCs]
    BY Zenon, <1>0 DEF JoinTypeOK
  <2>2. pc'[Main] = IF pc[Main] = "asleep" THEN "test" ELSE pc[Main]
    BY Zenon, <1>1, <2>1
  <2>3. pc'[t] = "free" /\ \A v \in Threads \ {t, Main} : pc'[v] = pc[v]
    BY Zenon, <1>1, <2>1
  <2>4. pc' \in [Threads -> PCs]
    <3>1. pc' = [v \in Threads |-> pc'[v]]
      BY Zenon, <1>1, <2>1
    <3>2. \A v \in Threads : pc'[v] \in PCs
      BY Zenon, <2>1, <2>2, <2>3 DEF PCs
    <3> QED BY Zenon, <3>1, <3>2
  <2>5. CASE pc[Main] = "asleep"
    BY Zenon, <2>2, <2>3, <2>4, <2>5
  <2>6. CASE pc[Main] # "asleep"
    BY Zenon, <2>2, <2>3, <2>4, <2>6
  <2> QED BY Zenon, <2>5, <2>6
<1>3. \A v \in Threads : child[v] # t
  BY Zenon, <1>0, <1>1 DEF Spawning
<1>4. JoinTypeOK'
  BY Zenon, <1>0, <1>1, <1>2 DEF JoinTypeOK
<1>5. Places' /\ Births' /\ MainExitsLast'
  BY <1>0, <1>1, <1>2 DEF Places, Births, MainExitsLast, Workers, Joining
<1>6. Spawning'
  <2>1. child[t] = None /\ \A v \in Threads : child[v] # Main
    BY <1>0, <1>1 DEF Spawning, Places
  <2>2. \A v \in Threads : child[v] # None => child[v] \in Threads \ {t, Main}
    BY Zenon, <1>0, <1>3, <2>1 DEF JoinTypeOK
  <2>3. \A v \in Threads : /\ pc'[v] = "unborn" <=> pc[v] = "unborn"
                           /\ pc'[v] \in {"count", "create"} <=> pc[v] \in {"count", "create"}
    BY Zenon, <1>1, <1>2
  <2>4. \A v \in Threads : child[v] # None => pc'[child[v]] = "unborn"
    BY Zenon, <1>0, <2>2, <2>3 DEF Spawning
  <2>5. child' = child
    BY Zenon, <1>1
  <2> QED BY <1>0, <2>3, <2>4, <2>5 DEF Spawning
<1>7. AllDoneCounts'
  <2>1. \A v \in Workers : v \in Counted' <=> v \in Counted
    BY <1>0, <1>1, <1>2, <1>3 DEF Counted, Workers, Spawning
  <2>2. Counted' = Counted
    BY Zenon, <2>1 DEF Counted
  <2> QED BY Zenon, <1>0, <1>1, <2>2 DEF AllDoneCounts
<1>8. MainIsWoken'
  BY Zenon, <1>2 DEF MainIsWoken
<1> QED BY Zenon, <1>4, <1>5, <1>6, <1>7, <1>8 DEF JoinIInv

\* main_join returns only when every thread has finished.
LEMMA JoinTestIInv ==
  ASSUME JoinConstants, JoinIInv, process = "running", JoinTest
  PROVE  JoinIInv'
<1> USE DEF JoinConstants
<1>0. JoinTypeOK /\ Places /\ Spawning /\ Births /\ AllDoneCounts /\ MainIsWoken /\ MainExitsLast
  BY Zenon DEF JoinIInv
<1>1. /\ pc[Main] = "test"
      /\ UNCHANGED <<next_tid, all_done, tid, birth, spawns, child, val, final>>
  BY Zenon DEF JoinTest
<1>2. CASE UNCHANGED process /\ \E x \in {"run", "load"} : pc' = [pc EXCEPT ![Main] = x]
  <2>1. PICK x \in {"run", "load"} : pc' = [pc EXCEPT ![Main] = x]
    BY Zenon, <1>2
  <2>2. /\ pc' \in [Threads -> PCs] /\ pc'[Main] = x
        /\ Places' /\ Spawning' /\ Births' /\ AllDoneCounts'
    BY Zenon, <1>1, <2>1, MainMoves
  <2>3. JoinTypeOK'
    BY Zenon, <1>0, <1>1, <1>2, <2>2 DEF JoinTypeOK
  <2> QED BY Zenon, <1>2, <2>2, <2>3 DEF JoinIInv, MainIsWoken, MainExitsLast
<1>3. CASE all_done = 0 /\ process' = "returned" /\ UNCHANGED pc
  <2>1. \A u \in Workers : pc[u] \in {"free", "wake"}
    <3>1. Counted = {}
      BY Zenon, <1>0, <1>3, CountedFinite, FS_EmptySet DEF AllDoneCounts
    <3>2. \A u \in Workers : pc[u] \in {"free", "unborn", "wake"}
      BY Zenon, <3>1 DEF Counted
    <3>3. \A u \in Workers : pc[u] # "unborn"
      <4> SUFFICES ASSUME NEW u \in Workers, pc[u] = "unborn" PROVE FALSE
        BY Zenon
      <4>1. PICK v \in Threads : child[v] = u
        BY Zenon, <1>0 DEF Spawning, Workers
      <4>2. pc[v] \in {"count", "create"}
        BY Zenon, <1>0, <4>1 DEF Spawning, Workers
      <4> QED BY Zenon, <1>1, <3>2, <4>2 DEF Workers
    <3> QED BY Zenon, <3>2, <3>3
  <2>2. JoinTypeOK'
    BY Zenon, <1>0, <1>1, <1>3 DEF JoinTypeOK
  <2>3. Counted' = Counted
    BY Zenon, <1>1, <1>3 DEF Counted
  <2>7. pc' = pc /\ child' = child
    BY Zenon, <1>1, <1>3
  <2>8. next_tid' = next_tid /\ tid' = tid /\ birth' = birth /\ spawns' = spawns
    BY Zenon, <1>1
  <2>9. Places' /\ Spawning'
    BY Zenon, <1>0, <2>7 DEF Places, Spawning
  <2>4. Births'
    BY Zenon, <1>0, <2>7, <2>8 DEF Births
  <2>6. AllDoneCounts' /\ MainIsWoken'
    BY Zenon, <1>0, <1>1, <1>3, <2>3 DEF AllDoneCounts, MainIsWoken
  <2>5. MainExitsLast'
    BY Zenon, <1>3, <2>1 DEF MainExitsLast
  <2> QED BY Zenon, <2>2, <2>4, <2>5, <2>6, <2>9 DEF JoinIInv
<1> QED BY Zenon, <1>2, <1>3 DEF JoinTest, Goto

\* The other steps of main.
LEMMA MainIInv ==
  ASSUME JoinConstants, JoinIInv, process = "running",
         \/ JoinLoad \/ JoinWait \/ JoinTimeout \/ MainThrows
         \/ \E f \in BOOLEAN : MainJoin(f)
  PROVE  JoinIInv'
<1> USE DEF JoinConstants
<1>0. JoinTypeOK /\ Places /\ Spawning /\ Births /\ AllDoneCounts /\ MainIsWoken /\ MainExitsLast
  BY Zenon DEF JoinIInv
<1>1. CASE JoinLoad
  <2>1. /\ pc' \in [Threads -> PCs] /\ pc'[Main] = "wait"
        /\ Places' /\ Spawning' /\ Births' /\ AllDoneCounts'
    BY Zenon, <1>1, MainMoves DEF JoinLoad, Goto
  <2> QED BY Zenon, <1>0, <1>1, <2>1 DEF JoinLoad, JoinIInv, JoinTypeOK, MainIsWoken, MainExitsLast
<1>2. CASE JoinWait
  <2>1. PICK x \in {"asleep", "test"} : pc' = [pc EXCEPT ![Main] = x]
                                        /\ (x = "asleep" => all_done = val)
    BY Zenon, <1>2 DEF JoinWait, Goto
  <2>2. pc[Main] = "wait" /\ UNCHANGED <<next_tid, all_done, tid, birth, spawns, child, val, final, process>>
    BY Zenon, <1>2 DEF JoinWait
  <2>3. /\ pc' \in [Threads -> PCs] /\ pc'[Main] = x
        /\ Places' /\ Spawning' /\ Births' /\ AllDoneCounts'
    BY Zenon, <2>1, <2>2, MainMoves
  <2>4. JoinTypeOK'
    BY Zenon, <1>0, <2>2, <2>3 DEF JoinTypeOK
  <2> QED BY Zenon, <2>1, <2>2, <2>3, <2>4 DEF JoinIInv, MainIsWoken, MainExitsLast
<1>3. CASE JoinTimeout
  <2>1. /\ pc' \in [Threads -> PCs] /\ pc'[Main] = "test"
        /\ Places' /\ Spawning' /\ Births' /\ AllDoneCounts'
    BY Zenon, <1>3, MainMoves DEF JoinTimeout, Goto
  <2> QED BY Zenon, <1>0, <1>3, <2>1 DEF JoinTimeout, JoinIInv, JoinTypeOK, MainIsWoken, MainExitsLast
<1>4. CASE MainThrows
  <2>1. /\ next_tid' = next_tid /\ all_done' = all_done /\ tid' = tid /\ birth' = birth
        /\ spawns' = spawns /\ pc' = pc /\ child' = child /\ val' = val /\ final' = final
        /\ process' = "aborted"
    BY Zenon, <1>4 DEF MainThrows
  <2>2. Counted' = Counted
    BY Zenon, <2>1 DEF Counted
  <2>3. JoinTypeOK'
    BY Zenon, <1>0, <2>1 DEF JoinTypeOK
  <2>4. Places' /\ Spawning' /\ Births'
    <3>1. Places'
      BY Zenon, <2>1 DEF JoinIInv, Places
    <3>2. Spawning'
      BY Zenon, <2>1 DEF JoinIInv, Spawning
    <3>3. Births'
      BY Zenon, <2>1 DEF JoinIInv, Births
    <3> QED BY Zenon, <3>1, <3>2, <3>3
  <2>5. AllDoneCounts' /\ MainIsWoken'
    BY Zenon, <1>0, <2>1, <2>2 DEF JoinIInv, AllDoneCounts, MainIsWoken
  <2>6. MainExitsLast'
    BY Zenon, <2>1 DEF MainExitsLast
  <2> QED BY Zenon, <2>3, <2>4, <2>5, <2>6 DEF JoinIInv
<1>5. ASSUME NEW f \in BOOLEAN, MainJoin(f)
      PROVE  JoinIInv'
  <2>1. /\ pc' \in [Threads -> PCs] /\ pc'[Main] = "test"
        /\ Places' /\ Spawning' /\ Births' /\ AllDoneCounts'
    BY Zenon, <1>5, MainMoves DEF MainJoin, Goto
  <2> QED BY Zenon, <1>0, <1>5, <2>1 DEF MainJoin, JoinIInv, JoinTypeOK, MainIsWoken, MainExitsLast
<1> QED BY Zenon, <1>1, <1>2, <1>3, <1>4, <1>5

\* Every step of the threads and of main preserves JoinIInv.
LEMMA JoinNextIInv ==
  ASSUME JoinConstants
  PROVE  JoinIInv /\ [JoinNext]_joinVars => JoinIInv'
<1> SUFFICES ASSUME JoinIInv, [JoinNext]_joinVars PROVE JoinIInv'
  BY Zenon
<1>1. CASE UNCHANGED joinVars
  <2>1. Counted' = Counted
    BY Zenon, <1>1 DEF joinVars, Counted
  <2> QED BY <1>1, <2>1 DEF joinVars, JoinIInv, JoinTypeOK, Places, Spawning, Births,
          AllDoneCounts, MainIsWoken, MainExitsLast
<1> QED
  BY Zenon, <1>1, InitNewThreadStackIInv, CountChildIInv, PthreadCreateIInv, FinishIInv, FutexWakeIInv,
     JoinTestIInv, MainIInv DEF JoinNext, Runtime, Program, Exited

\* The inductive invariant holds in every behaviour, fair or not.
THEOREM JoinInvariance == JoinSpec => []JoinIInv
<1>1. JoinInit => JoinIInv
  BY Zenon, JoinAssumption, JoinInitIInv
<1>2. JoinIInv /\ [JoinNext]_joinVars => JoinIInv'
  BY Zenon, JoinAssumption, JoinNextIInv
<1> QED BY <1>1, <1>2, PTL DEF JoinSpec

\* The two counters mean what the runtime takes them for, for any threads and any word
\* size: all_done is the number of threads to wait for, and no living thread has id 0 or
\* the id of another, unless half the word size threads were spawned between the two.
THEOREM CountersMean == JoinSpec => []CountersSound
<1>1. JoinIInv => TidsDistinct
  <2> SUFFICES ASSUME JoinIInv, NEW t \in Threads, NEW u \in Threads, pc[t] # "free", pc[u] # "free"
               PROVE  /\ tid[t] # 0
                      /\ t # u /\ birth[t] <= birth[u] /\ birth[u] - birth[t] < Word \div 2
                            => tid[t] # tid[u]
    BY Zenon DEF TidsDistinct
  <2>1. birth[t] \in Nat /\ birth[u] \in Nat /\ (t # u => birth[t] # birth[u])
    BY Zenon DEF JoinIInv, JoinTypeOK, Births
  <2>2. tid[t] = (2 * birth[t] + 1) % Word /\ tid[u] = (2 * birth[u] + 1) % Word
    BY Zenon DEF JoinIInv, Births
  <2>3. (2 * birth[t] + 1) % Word \in 1 .. Word - 1
    BY Zenon, <2>1, JoinAssumption, OddMod DEF JoinConstants
  <2>4. birth[t] < birth[u] /\ birth[u] - birth[t] < Word \div 2
           => (2 * birth[t] + 1) % Word # (2 * birth[u] + 1) % Word
    BY Zenon, <2>1, JoinAssumption, OddMod DEF JoinConstants
  <2> QED BY <2>1, <2>2, <2>3, <2>4
<1>2. JoinIInv => CountersSound
  BY Zenon, <1>1 DEF JoinIInv, CountersSound
<1> QED BY <1>2, JoinInvariance, PTL

\* main() returns after every thread ever spawned has given its count back.
THEOREM MainLast == JoinSpec => []MainExitsLast
<1>1. JoinIInv => MainExitsLast
  BY Zenon DEF JoinIInv
<1> QED BY <1>1, JoinInvariance, PTL

\* A main thread that sleeps for a count above zero will be woken.
THEOREM MainWoken == JoinSpec => []MainIsWoken
<1>1. JoinIInv => MainIsWoken
  BY Zenon DEF JoinIInv
<1> QED BY <1>1, JoinInvariance, PTL

-----------------------------------------------------------------------------
(* RegionTable: the invariant *)

\* A handle the thread has is a handle of a region, and the only one of it; the
\* thread keeps the handle of a region whose insertion failed.
OneHandle ==
    /\ \A a \in live : /\ key[a] \in Keys
                       /\ \A b \in live : key[b] = key[a] => b = a
    /\ \A k \in lost : \E a \in live : key[a] = k

\* The inductive invariant.
TableIInv == TableSound /\ OneHandle

\* The handles on chain i of tbl belong there: ky gives their keys, n is the
\* number of chains.
Chained(tbl, n, ky) ==
    /\ tbl \in [0 .. n - 1 -> SUBSET Addrs]
    /\ \A i \in 0 .. n - 1 : \A a \in tbl[i] : ky[a] \in Nat /\ ky[a] % n = i

-----------------------------------------------------------------------------
(* Chains *)

\* indexFor gives the number of a chain.
LEMMA IndexIn ==
    ASSUME NEW k \in Nat, NEW n \in Nat \ {0}
    PROVE  indexFor(n, k) \in 0 .. n - 1
BY DEF indexFor

\* hashtable_expand moves every handle of the old table to its chain in the new one.
LEMMA RehashEntries ==
    ASSUME NEW tbl, NEW n \in Nat \ {0},
           Entries(tbl) \subseteq Addrs, \A a \in Entries(tbl) : key[a] \in Nat
    PROVE  Entries(Rehash(tbl, n)) = Entries(tbl) /\ Chained(Rehash(tbl, n), n, key)
<1> DEFINE new == Rehash(tbl, n)
           old == Entries(tbl)
<1>1. new = [i \in 0 .. n - 1 |-> {a \in old : indexFor(n, key[a]) = i}]
  BY Zenon DEF Rehash
<1> HIDE DEF old
<1>2. \A a \in old : indexFor(n, key[a]) \in 0 .. n - 1
  BY Zenon, IndexIn DEF old
<1>3. DOMAIN new = 0 .. n - 1 /\ \A i \in 0 .. n - 1 : new[i] = {a \in old : indexFor(n, key[a]) = i}
  BY Zenon, <1>1
<1> HIDE DEF new
<1>4. ASSUME NEW a \in Entries(new) PROVE a \in old
  BY <1>3 DEF Entries
<1>5. ASSUME NEW a \in old PROVE a \in Entries(new)
  BY Zenon, <1>2, <1>3 DEF Entries
<1>6. Entries(new) = old
  BY Zenon, <1>4, <1>5
<1>7. new \in [0 .. n - 1 -> SUBSET Addrs]
  BY Zenon, <1>1 DEF old, new
<1>8. \A i \in 0 .. n - 1 : \A a \in new[i] : key[a] \in Nat /\ key[a] % n = i
  BY Zenon, <1>3 DEF old, indexFor
<1> QED BY Zenon, <1>6, <1>7, <1>8 DEF Chained, new, old

-----------------------------------------------------------------------------
(* The invariant *)

\* A set of numbers that is not empty has a least one.
LEMMA NatLeast ==
    ASSUME NEW S \in SUBSET Nat, S # {}
    PROVE  \E n \in S : \A m \in S : n <= m
<1> DEFINE R == {ss \in Nat \X Nat : ss[1] < ss[2]}
<1>1. IsWellFoundedOn(R, Nat)
  BY Zenon, NatLessThanWellFounded DEF OpToRel
<1>2. PICK n \in S : \A m \in S : ~(<<m, n>> \in R)
  <2> HIDE DEF R
  <2> QED BY Zenon, <1>1, WFMin
<1>3. \A m \in S : ~(m < n)
  BY Zenon, <1>2
<1> QED BY <1>3

\* Sizes and load limits are numbers, and a size is not 0.
LEMMA Sizes ==
    ASSUME TableConstants, NEW i \in 0 .. Len(Primes) - 1
    PROVE  /\ Primes[i + 1] \in Nat \ {0}
           /\ upper_loadlimit(Primes[i + 1]) \in Nat
           /\ lower_loadlimit(Primes[i + 1]) \in Nat
<1>1. Primes[i + 1] \in Nat \ {0} /\ MaxLoad \in Nat /\ MinLoad \in Nat
  BY DEF TableConstants
<1>2. \A x, y \in Nat : x * y \in Nat
  OBVIOUS
<1>3. \A x \in Nat : x \div 100 \in Nat
  OBVIOUS
<1>4. Primes[i + 1] * MaxLoad \in Nat /\ Primes[i + 1] * MinLoad \in Nat
  BY Zenon, <1>1, <1>2
<1> QED BY Zenon, <1>1, <1>3, <1>4 DEF upper_loadlimit, lower_loadlimit

\* create_hashtable makes an empty table of the first size above MinSize.
LEMMA CreateIn ==
    ASSUME TableConstants
    PROVE  CreateIndex \in 0 .. Len(Primes) - 1
<1> DEFINE S == {i \in Nat : i \in 1 .. Len(Primes) /\ Primes[i] > MinSize}
<1>1. Len(Primes) \in Nat /\ S # {} /\ \A i \in 1 .. Len(Primes) : Primes[i] \in Nat
  <2>1. Primes \in Seq(Nat \ {0}) /\ \E i \in 1 .. Len(Primes) : Primes[i] > MinSize
    BY Zenon DEF TableConstants
  <2> QED BY <2>1
<1>2. PICK n \in S : \A m \in S : n <= m
  BY Zenon, <1>1, NatLeast
<1>3. \E i \in 0 .. Len(Primes) - 1 : /\ Primes[i + 1] > MinSize
                                      /\ \A j \in 0 .. i - 1 : Primes[j + 1] <= MinSize
  <2>1. n - 1 \in 0 .. Len(Primes) - 1 /\ Primes[(n - 1) + 1] > MinSize
    BY <1>1, <1>2
  <2>2. ASSUME NEW j \in 0 .. (n - 1) - 1 PROVE Primes[j + 1] <= MinSize
    <3>1. j + 1 \in 1 .. Len(Primes) /\ j + 1 < n /\ j + 1 \in Nat
      BY <1>1, <1>2
    <3>2. ~(Primes[j + 1] > MinSize)
      BY <1>2, <3>1
    <3> QED BY <1>1, <3>1, <3>2 DEF TableConstants
  <2> QED BY Zenon, <2>1, <2>2
<1> QED BY Zenon, <1>3 DEF CreateIndex

\* What the invariant says of the chains.
LEMMA Chains ==
    ASSUME TableConstants, TableIInv
    PROVE  /\ Chained(table, tablelength, key) /\ tablelength \in Nat \ {0}
           /\ Entries(table) = {a \in live : key[a] \notin lost}
           /\ Entries(table) \subseteq Addrs /\ IsFiniteSet(Entries(table))
           /\ \A a \in Entries(table) : key[a] \in Nat
<1>1. tablelength \in Nat \ {0}
  BY Zenon, Sizes DEF TableIInv, TableSound, TableTypeOK, tablelength
<1>2. Entries(table) = {a \in live : key[a] \notin lost}
  BY Zenon DEF TableIInv, TableSound, CountExact
<1>3. live \subseteq Addrs /\ Keys \subseteq Nat /\ IsFiniteSet(Addrs)
      /\ \A a \in live : key[a] \in Keys
  BY Zenon DEF TableIInv, TableSound, TableTypeOK, TableConstants, OneHandle
<1>4. Entries(table) \subseteq Addrs /\ \A a \in Entries(table) : key[a] \in Nat
  BY Zenon, <1>2, <1>3
<1>5. table \in [0 .. tablelength - 1 -> SUBSET Addrs]
  BY Zenon DEF TableIInv, TableSound, TableTypeOK
<1>6. ASSUME NEW i \in 0 .. tablelength - 1, NEW a \in table[i]
      PROVE  key[a] \in Nat /\ key[a] % tablelength = i
  <2>1. i \in DOMAIN table
    BY Zenon, <1>5
  <2>2. a \in Entries(table)
    BY Zenon, <2>1 DEF Entries
  <2> QED BY Zenon, <2>1, <2>2, <1>4 DEF TableIInv, TableSound, CountExact, indexFor
<1> QED BY Zenon, <1>1, <1>2, <1>3, <1>4, <1>5, <1>6, FS_Subset DEF Chained

\* The initial table is empty.
LEMMA TableInitIInv ==
    ASSUME TableConstants, TableInit
    PROVE  TableIInv
<1>1. CreateIndex \in 0 .. Len(Primes) - 1 /\ primeindex = CreateIndex
  BY Zenon, CreateIn DEF TableInit
<1>2. tablelength \in Nat \ {0} /\ upper_loadlimit(tablelength) \in Nat
  BY Zenon, <1>1, Sizes DEF tablelength
<1>3. table = [i \in 0 .. tablelength - 1 |-> {}]
  BY Zenon, <1>1 DEF TableInit, tablelength
<1>4. Entries(table) = {}
  BY Zenon, <1>3 DEF Entries
<1>5. TableTypeOK
  BY Zenon, <1>1, <1>3 DEF TableInit, TableTypeOK
<1>6. CountExact
  BY Zenon, <1>3, <1>4, FS_EmptySet DEF TableInit, CountExact
<1>7. CacheCurrent
  BY Zenon DEF TableInit, CacheCurrent
<1>8. LoadBounded
  BY <1>2 DEF TableInit, LoadBounded
<1> QED BY Zenon, <1>5, <1>6, <1>7, <1>8 DEF TableInit, TableIInv, TableSound, OneHandle

-----------------------------------------------------------------------------
(* The operations *)

\* A handle of the table that is not in the cache may replace either slot.
LEMMA CachedIn ==
    ASSUME TableConstants, TableIInv, NEW a \in Addrs, Cached(a), \A i \in {0, 1} : cache[i] # a,
           Entries(table) \subseteq Entries(table'), a \in Entries(table')
    PROVE  /\ cache' \in [{0, 1} -> Addrs \cup {Null}] /\ cache_idx' \in {0, 1}
           /\ CacheCurrent'
<1>1. /\ cache \in [{0, 1} -> Addrs \cup {Null}] /\ cache_idx \in {0, 1} /\ a # Null
      /\ cache' = [cache EXCEPT ![cache_idx] = a] /\ cache_idx' = (cache_idx + 1) % 2
  BY Zenon DEF TableIInv, TableSound, TableTypeOK, Cached, TableConstants
<1>2. /\ \A i \in {0, 1} : cache[i] # Null => cache[i] \in Entries(table)
      /\ cache[0] = cache[1] => cache[0] = Null
  BY Zenon DEF TableIInv, TableSound, CacheCurrent
<1>3. cache' \in [{0, 1} -> Addrs \cup {Null}] /\ cache_idx' \in {0, 1}
  BY <1>1
<1>4. \A i \in {0, 1} : cache'[i] = IF i = cache_idx THEN a ELSE cache[i]
  BY Zenon, <1>1
<1>5. \A i \in {0, 1} : cache'[i] # Null => cache'[i] \in Entries(table')
  BY <1>2, <1>4
<1>6. cache'[0] # cache'[1]
  BY <1>1, <1>4
<1> QED BY Zenon, <1>3, <1>5, <1>6 DEF CacheCurrent

\* A new handle, put into a table of n chains that holds the handles of the old
\* one and has room for it.
LEMMA PushIInv ==
    ASSUME TableConstants, TableIInv, NEW k \in Keys, NEW a \in Addrs, NEW tbl, NEW n \in Nat \ {0},
           a \notin live, \A b \in live : key[b] # k,
           live' = live \cup {a}, key' = [key EXCEPT ![a] = k],
           Chained(tbl, n, key), Entries(tbl) = Entries(table),
           Push(tbl, n, k, a), primeindex' \in 0 .. Len(Primes) - 1, tablelength' = n,
           entrycount + 1 <= upper_loadlimit(n)
    PROVE  TableIInv'
<1>1. /\ Entries(table) = {b \in live : key[b] \notin lost}
      /\ Entries(table) \subseteq Addrs /\ IsFiniteSet(Entries(table))
  BY Zenon, Chains
<1>2. /\ k \in Nat /\ k \notin lost /\ live \subseteq Addrs /\ lost \subseteq Keys
      /\ key \in [Addrs -> Keys \cup {Null}] /\ entrycount \in Nat
      /\ entrycount = Cardinality(Entries(table))
  <2>1. /\ live \subseteq Addrs /\ lost \subseteq Keys
        /\ key \in [Addrs -> Keys \cup {Null}] /\ entrycount \in Nat
    BY Zenon DEF TableIInv, TableSound, TableTypeOK
  <2>2. entrycount = Cardinality(Entries(table))
    BY Zenon DEF TableIInv, TableSound, CountExact
  <2>3. k \in Nat
    BY Zenon DEF TableConstants
  <2>4. k \notin lost
    BY Zenon DEF TableIInv, OneHandle
  <2> QED BY Zenon, <2>1, <2>2, <2>3, <2>4
<1>3. /\ table' = [tbl EXCEPT ![indexFor(n, k)] = @ \cup {a}]
      /\ entrycount' = entrycount + 1 /\ Cached(a) /\ lost' = lost
  BY Zenon DEF Push
<1>4. /\ key'[a] = k /\ \A b \in live : key'[b] = key[b] /\ b # a
      /\ key' \in [Addrs -> Keys \cup {Null}]
  BY Zenon, <1>2
<1>5. Entries(table') = Entries(table) \cup {a} /\ Chained(table', n, key')
  <2> DEFINE x == indexFor(n, k)
  <2>1. x \in 0 .. n - 1 /\ tbl \in [0 .. n - 1 -> SUBSET Addrs]
    BY Zenon, <1>2, IndexIn DEF Chained
  <2>2. table' = [tbl EXCEPT ![x] = tbl[x] \cup {a}] /\ x = k % n
    BY Zenon, <1>3 DEF indexFor
  <2> HIDE DEF x
  <2>3. /\ DOMAIN tbl = 0 .. n - 1 /\ DOMAIN table' = DOMAIN tbl
        /\ table'[x] = tbl[x] \cup {a} /\ \A i \in DOMAIN tbl : i # x => table'[i] = tbl[i]
        /\ table' \in [0 .. n - 1 -> SUBSET Addrs]
    BY Zenon, <2>1, <2>2
  <2>4. \A b : b \in Entries(table') <=> b \in Entries(tbl) \/ b = a
    <3>1. x \in DOMAIN tbl
      BY Zenon, <2>1, <2>3
    <3>2. ASSUME NEW b, b \in Entries(table') PROVE b \in Entries(tbl) \/ b = a
      <4>1. PICK i \in DOMAIN tbl : b \in table'[i]
        BY Zenon, <2>3, <3>2 DEF Entries
      <4>2. b \in tbl[i] \/ b = a
        BY Zenon, <2>3, <4>1
      <4> QED BY Zenon, <4>2 DEF Entries
    <3>3. ASSUME NEW b, b \in Entries(tbl) PROVE b \in Entries(table')
      <4>1. PICK i \in DOMAIN tbl : b \in tbl[i]
        BY Zenon, <3>3 DEF Entries
      <4>2. b \in table'[i] /\ i \in DOMAIN table'
        BY Zenon, <2>3, <4>1
      <4> QED BY Zenon, <4>2 DEF Entries
    <3>4. a \in table'[x] /\ x \in DOMAIN table'
      BY Zenon, <2>3, <3>1
    <3>5. a \in Entries(table')
      BY Zenon, <3>4 DEF Entries
    <3> QED BY Zenon, <3>2, <3>3, <3>5
  <2>5. \A b \in Entries(tbl) : key'[b] = key[b]
    BY Zenon, <1>1, <1>4
  <2>6. ASSUME NEW i \in 0 .. n - 1, NEW b \in table'[i]
        PROVE  key'[b] \in Nat /\ key'[b] % n = i
    <3>1. CASE b = a /\ i = x
      BY Zenon, <1>2, <1>4, <2>2, <3>1
    <3>2. CASE b \in tbl[i]
      BY Zenon, <2>1, <2>5, <3>2 DEF Chained, Entries
    <3> QED BY Zenon, <2>3, <3>1, <3>2
  <2>7. Entries(table') = Entries(table) \cup {a}
    BY Zenon, <2>4
  <2> QED BY Zenon, <2>3, <2>6, <2>7 DEF Chained
<1>6. CountExact'
  <2>1. a \notin Entries(table)
    BY Zenon, <1>1
  <2>2. entrycount' = Cardinality(Entries(table'))
    BY Zenon, <1>1, <1>2, <1>3, <1>5, <2>1, FS_AddElement
  <2>3. Entries(table') = {b \in live' : key'[b] \notin lost'}
    <3>1. ASSUME NEW b PROVE b \in Entries(table') <=> b \in live' /\ key'[b] \notin lost'
      BY Zenon, <1>1, <1>2, <1>3, <1>4, <1>5
    <3> QED BY Zenon, <3>1
  <2>4. \A i \in DOMAIN table' : \A b \in table'[i] : indexFor(tablelength', key'[b]) = i
    BY Zenon, <1>5 DEF Chained, indexFor
  <2> QED BY Zenon, <2>2, <2>3, <2>4 DEF CountExact
<1>7. /\ cache' \in [{0, 1} -> Addrs \cup {Null}] /\ cache_idx' \in {0, 1}
      /\ CacheCurrent'
  <2>1. \A i \in {0, 1} : cache[i] # a
    BY Zenon, <1>1, TableConstants DEF TableIInv, TableSound, CacheCurrent, TableConstants
  <2>2. Entries(table) \subseteq Entries(table') /\ a \in Entries(table')
    BY Zenon, <1>5
  <2> QED BY Zenon, <1>3, <2>1, <2>2, CachedIn
<1>8. TableTypeOK'
  <2>1. live' \subseteq Addrs /\ lost' \subseteq Keys /\ entrycount' \in Nat
    BY <1>2, <1>3
  <2>2. table' \in [0 .. tablelength' - 1 -> SUBSET Addrs]
    BY Zenon, <1>5 DEF Chained
  <2> QED BY Zenon, <2>1, <2>2, <1>4, <1>7 DEF TableTypeOK
<1>9. LoadBounded'
  BY Zenon, <1>3 DEF LoadBounded, upper_loadlimit
<1>10. OneHandle'
  BY <1>2, <1>3, <1>4 DEF OneHandle, TableIInv
<1> QED BY Zenon, <1>6, <1>7, <1>8, <1>9, <1>10 DEF TableIInv, TableSound

\* hashtable_insert keeps the invariant, whether the table has room, grows or
\* cannot grow.
LEMMA InsertIInv ==
    ASSUME TableConstants, TableIInv, NEW k \in Keys, NEW a \in Addrs, hashtable_insert(k, a)
    PROVE  TableIInv'
<1>1. /\ a \notin live /\ (\A b \in live : key[b] # k)
      /\ live' = live \cup {a} /\ key' = [key EXCEPT ![a] = k]
  BY Zenon DEF hashtable_insert
<1>2. /\ Chained(table, tablelength, key) /\ tablelength \in Nat \ {0}
      /\ Entries(table) = {b \in live : key[b] \notin lost}
      /\ Entries(table) \subseteq Addrs /\ IsFiniteSet(Entries(table))
      /\ \A b \in Entries(table) : key[b] \in Nat
  BY Zenon, Chains
<1>3. CASE /\ entrycount + 1 <= upper_loadlimit(tablelength)
           /\ Push(table, tablelength, k, a) /\ UNCHANGED primeindex
  <2>1. primeindex' \in 0 .. Len(Primes) - 1 /\ tablelength' = tablelength
    BY Zenon, <1>3 DEF TableIInv, TableSound, TableTypeOK, tablelength
  <2> QED BY Zenon, <1>1, <1>2, <1>3, <2>1, PushIInv
<1>4. CASE /\ primeindex < Len(Primes) - 1
           /\ Push(Rehash(table, Primes[primeindex + 2]), Primes[primeindex + 2], k, a)
           /\ primeindex' = primeindex + 1
  <2> DEFINE n == Primes[primeindex + 2]
  <2>1. /\ primeindex \in Nat /\ Len(Primes) \in Nat /\ primeindex' \in 0 .. Len(Primes) - 1
        /\ primeindex' + 1 = primeindex + 2 /\ primeindex + 1 \in 1 .. Len(Primes) - 1
    <3>1. primeindex \in 0 .. Len(Primes) - 1 /\ Primes \in Seq(Nat \ {0})
      BY Zenon DEF TableIInv, TableSound, TableTypeOK, TableConstants
    <3> QED BY <3>1, <1>4
  <2>2. tablelength' = n /\ n \in Nat \ {0} /\ upper_loadlimit(n) \in Nat
    BY Zenon, <2>1, Sizes DEF tablelength
  <2>3. Chained(Rehash(table, n), n, key) /\ Entries(Rehash(table, n)) = Entries(table)
    BY Zenon, <1>2, <2>2, RehashEntries
  <2>4. entrycount + 1 <= upper_loadlimit(n)
    <3>1. upper_loadlimit(tablelength) < upper_loadlimit(n)
      BY <2>1 DEF TableConstants, tablelength
    <3>2. upper_loadlimit(tablelength) \in Nat /\ entrycount \in Nat
      BY Zenon, Sizes DEF TableIInv, TableSound, TableTypeOK, tablelength
    <3>3. entrycount <= upper_loadlimit(tablelength)
      BY Zenon DEF TableIInv, TableSound, LoadBounded
    <3> HIDE DEF n
    <3> QED BY <3>1, <3>2, <3>3, <2>2
  <2> QED BY Zenon, <1>1, <1>4, <2>1, <2>2, <2>3, <2>4, PushIInv
<1>5. CASE /\ lost' = lost \cup {k}
           /\ UNCHANGED <<table, cache, cache_idx, entrycount, primeindex>>
  <2>1. /\ table' = table /\ cache' = cache /\ cache_idx' = cache_idx
        /\ entrycount' = entrycount /\ primeindex' = primeindex
        /\ tablelength' = tablelength /\ Entries(table') = Entries(table)
    BY Zenon, <1>5 DEF tablelength
  <2>2. /\ live \subseteq Addrs /\ lost \subseteq Keys /\ key \in [Addrs -> Keys \cup {Null}]
    BY Zenon DEF TableIInv, TableSound, TableTypeOK
  <2>3. /\ key'[a] = k /\ \A b \in live : key'[b] = key[b] /\ b # a
        /\ key' \in [Addrs -> Keys \cup {Null}]
        /\ live' \subseteq Addrs /\ lost' \subseteq Keys
    BY Zenon, <1>1, <1>5, <2>2
  <2>4. TableTypeOK'
    BY Zenon, <2>1, <2>3 DEF TableIInv, TableSound, TableTypeOK
  <2>5. CountExact'
    <3>1. Entries(table') = {b \in live' : key'[b] \notin lost'}
      BY Zenon, <1>1, <1>2, <1>5, <2>1, <2>3
    <3>2. \A i \in DOMAIN table : \A b \in table[i] : b \in live
      BY Zenon, <1>2 DEF Entries
    <3>3. \A i \in DOMAIN table' : \A b \in table'[i] : indexFor(tablelength', key'[b]) = i
      BY Zenon, <2>1, <2>3, <3>2 DEF TableIInv, TableSound, CountExact, indexFor
    <3> QED BY Zenon, <2>1, <3>1, <3>3 DEF TableIInv, TableSound, CountExact
  <2>6. CacheCurrent' /\ LoadBounded'
    BY Zenon, <2>1 DEF TableIInv, TableSound, CacheCurrent, LoadBounded, upper_loadlimit
  <2>7. OneHandle'
    BY <1>1, <1>5, <2>3 DEF OneHandle, TableIInv
  <2> QED BY Zenon, <2>4, <2>5, <2>6, <2>7 DEF TableIInv, TableSound
<1> QED BY Zenon, <1>3, <1>4, <1>5 DEF hashtable_insert
\* hashtable_search changes nothing but the cache, and gives the handle the thread
\* has, or gives up on a key that was never inserted.
LEMMA SearchIInv ==
    ASSUME TableConstants, TableIInv, NEW k \in Keys, hashtable_search(k)
    PROVE  TableIInv' /\ SearchExact'
<1>1. PICK a \in live : key[a] = k
  BY Zenon DEF hashtable_search
<1>2. /\ table' = table /\ entrycount' = entrycount /\ primeindex' = primeindex
      /\ live' = live /\ key' = key /\ lost' = lost /\ tablelength' = tablelength
  BY Zenon DEF hashtable_search, tablelength
<1>3. /\ Chained(table, tablelength, key) /\ tablelength \in Nat \ {0}
      /\ Entries(table) = {b \in live : key[b] \notin lost}
      /\ k \in Nat
  BY Zenon, Chains DEF TableConstants
<1>4. /\ cache \in [{0, 1} -> Addrs \cup {Null}] /\ cache_idx \in {0, 1}
      /\ live \subseteq Addrs /\ key \in [Addrs -> Keys \cup {Null}]
      /\ \A i \in {0, 1} : cache[i] # Null => cache[i] \in Entries(table)
      /\ \A b \in live : \A c \in live : key[c] = key[b] => c = b
  BY Zenon DEF TableIInv, TableSound, TableTypeOK, CacheCurrent, OneHandle
<1>5. CountExact' /\ LoadBounded' /\ OneHandle'
  BY Zenon, <1>2 DEF TableIInv, TableSound, CountExact, LoadBounded, OneHandle
<1>6. ASSUME cache' \in [{0, 1} -> Addrs \cup {Null}], cache_idx' \in {0, 1}, CacheCurrent'
      PROVE  TableIInv'
  <2>1. TableTypeOK'
    BY Zenon, <1>2, <1>6 DEF TableIInv, TableSound, TableTypeOK
  <2> QED BY Zenon, <1>5, <1>6, <2>1 DEF TableIInv, TableSound
<1>7. ASSUME cache' = cache, cache_idx' = cache_idx
      PROVE  TableIInv'
  BY Zenon, <1>2, <1>6, <1>7 DEF TableIInv, TableSound, TableTypeOK, CacheCurrent
<1>8. ASSUME NEW b \in Entries(table), key[b] = k, ret' = <<"search", k, b>>
      PROVE  SearchExact'
  <2>1. ret'[2] = k /\ ret'[3] = b
    BY Zenon, <1>8
  <2>2. b \in live /\ k \notin lost
    BY Zenon, <1>3, <1>8
  <2> QED BY Zenon, <1>2, <1>8, <2>1, <2>2 DEF SearchExact
<1>9. CASE /\ Hits(k) # {}
           /\ ret' = <<"search", k, cache[IF 0 \in Hits(k) THEN 0 ELSE 1]>>
           /\ UNCHANGED <<cache, cache_idx>>
  <2> DEFINE i == IF 0 \in Hits(k) THEN 0 ELSE 1
  <2>1. i \in Hits(k) /\ i \in {0, 1}
    BY Zenon, <1>9 DEF Hits
  <2>2. cache[i] \in Entries(table) /\ key[cache[i]] = k
    BY Zenon, <1>4, <2>1 DEF Hits
  <2> QED BY Zenon, <1>7, <1>8, <1>9, <2>2
<1>10. ASSUME NEW e \in Find(k), Hits(k) = {}, ret' = <<"search", k, e>>, Cached(e)
       PROVE  TableIInv' /\ SearchExact'
  <2>1. indexFor(tablelength, k) \in DOMAIN table
    BY Zenon, <1>3, IndexIn DEF Chained
  <2>2. e \in Entries(table) /\ key[e] = k /\ e \in Addrs
    <3>1. e \in Entries(table) /\ key[e] = k
      BY Zenon, <2>1 DEF Find, Entries
    <3> QED BY Zenon, <1>3, <1>4, <3>1
  <2>3. \A i \in {0, 1} : cache[i] # e
    BY Zenon, <1>10, <2>2 DEF Hits, TableConstants
  <2>4. Entries(table) \subseteq Entries(table') /\ e \in Entries(table')
    BY Zenon, <1>2, <2>2
  <2> QED BY Zenon, <1>6, <1>8, <1>10, <2>2, <2>3, <2>4, CachedIn
<1>11. CASE /\ Hits(k) = {} /\ Find(k) = {} /\ ret' = <<"search", k, "quit">>
            /\ UNCHANGED <<cache, cache_idx>>
  <2>1. k \in lost
    <3>1. SUFFICES ASSUME k \notin lost PROVE FALSE
      BY Zenon
    <3>2. a \in Entries(table)
      BY Zenon, <1>1, <1>3, <3>1
    <3>3. PICK i \in DOMAIN table : a \in table[i]
      BY Zenon, <3>2 DEF Entries
    <3>4. i = indexFor(tablelength, k)
      BY Zenon, <1>1, <3>3 DEF TableIInv, TableSound, CountExact
    <3> QED BY Zenon, <1>1, <1>11, <3>3, <3>4 DEF Find
  <2>2. ret'[2] = k /\ ret'[3] = "quit"
    BY Zenon, <1>11
  <2>3. SearchExact'
    BY Zenon, <1>2, <2>1, <2>2 DEF SearchExact
  <2> QED BY Zenon, <1>7, <1>11, <2>3
<1> QED BY Zenon, <1>9, <1>10, <1>11 DEF hashtable_search

\* After hashtable_remove has looked at the cache, no slot holds the handle.
LEMMA InvalidateOut ==
    ASSUME TableConstants, TableIInv, NEW k \in Keys, NEW a \in live, key[a] = k, Invalidate(k)
    PROVE  /\ cache' \in [{0, 1} -> Addrs \cup {Null}]
           /\ \A i \in {0, 1} : cache'[i] = Null \/ (cache'[i] = cache[i] /\ cache[i] # a)
<1>1. /\ cache \in [{0, 1} -> Addrs \cup {Null}]
      /\ \A i \in {0, 1} : cache[i] # Null => cache[i] \in Entries(table)
      /\ \A b \in live : \A c \in live : key[c] = key[b] => c = b
      /\ cache[0] = cache[1] => cache[0] = Null
  BY Zenon DEF TableIInv, TableSound, TableTypeOK, CacheCurrent, OneHandle
<1>2. Entries(table) = {b \in live : key[b] \notin lost}
  BY Zenon, Chains
<1>3. \A i \in {0, 1} : i \in Hits(k) => cache[i] = a /\ a # Null
  BY Zenon, <1>1, <1>2 DEF Hits
<1>4. \A i \in {0, 1} : i \notin Hits(k) => cache[i] = Null \/ cache[i] # a
  BY Zenon, <1>1 DEF Hits
<1>5. CASE 0 \in Hits(k)
  <2>1. cache' = [cache EXCEPT ![0] = Null]
    BY Zenon, <1>5 DEF Invalidate
  <2>2. cache' \in [{0, 1} -> Addrs \cup {Null}] /\ cache'[0] = Null /\ cache'[1] = cache[1]
    BY Zenon, <1>1, <2>1
  <2>3. cache[1] # a
    BY Zenon, <1>1, <1>3, <1>5
  <2> QED BY Zenon, <2>2, <2>3
<1>6. CASE 0 \notin Hits(k) /\ 1 \in Hits(k)
  <2>1. cache' = [cache EXCEPT ![1] = Null]
    BY Zenon, <1>6 DEF Invalidate
  <2>2. cache' \in [{0, 1} -> Addrs \cup {Null}] /\ cache'[1] = Null /\ cache'[0] = cache[0]
    BY Zenon, <1>1, <2>1
  <2> QED BY Zenon, <1>4, <1>6, <2>2
<1>7. CASE 0 \notin Hits(k) /\ 1 \notin Hits(k)
  <2>1. cache' = cache
    BY Zenon, <1>7 DEF Invalidate
  <2> QED BY Zenon, <1>1, <1>4, <1>7, <2>1
<1> QED BY Zenon, <1>5, <1>6, <1>7
\* The handle a is removed from the table, which becomes the table tbl of n chains.
LEMMA DropIInv ==
    ASSUME TableConstants, TableIInv, NEW k \in Keys, NEW a \in live, key[a] = k, Invalidate(k),
           NEW n \in Nat \ {0}, Chained(table', n, key),
           \A b : b \in Entries(table') <=> b \in Entries(table) /\ b # a,
           a \in Entries(table), live' = live \ {a}, NEW last \in BOOLEAN,
           key' = [key EXCEPT ![a] = IF last THEN Null ELSE k],
           primeindex' \in 0 .. Len(Primes) - 1, tablelength' = n,
           entrycount' = entrycount - 1, entrycount' <= upper_loadlimit(n),
           cache_idx' = cache_idx, lost' = lost
    PROVE  TableIInv'
<1>1. /\ Entries(table) = {b \in live : key[b] \notin lost}
      /\ Entries(table) \subseteq Addrs /\ IsFiniteSet(Entries(table))
  BY Zenon, Chains
<1>2. /\ live \subseteq Addrs /\ key \in [Addrs -> Keys \cup {Null}]
      /\ entrycount \in Nat /\ entrycount = Cardinality(Entries(table))
  BY Zenon DEF TableIInv, TableSound, TableTypeOK, CountExact
<1>3. /\ key' \in [Addrs -> Keys \cup {Null}] /\ live' \subseteq Addrs
      /\ \A b \in live' : b \in live /\ key'[b] = key[b]
  BY Zenon, <1>2
<1>4. Entries(table') = Entries(table) \ {a}
  BY Zenon
<1>5. CountExact' /\ entrycount' \in Nat
  <2>1. Cardinality(Entries(table')) = entrycount - 1 /\ IsFiniteSet(Entries(table'))
    <3>1. /\ IsFiniteSet(Entries(table) \ {a})
          /\ Cardinality(Entries(table) \ {a}) = Cardinality(Entries(table)) - 1
      BY Zenon, <1>1, FS_RemoveElement
    <3> QED BY Zenon, <1>2, <1>4, <3>1
  <2>2. Cardinality(Entries(table')) \in Nat
    BY Zenon, <2>1, FS_CardinalityType
  <2>3. Entries(table') = {b \in live' : key'[b] \notin lost'}
    <3>1. ASSUME NEW b PROVE b \in Entries(table') <=> b \in live' /\ key'[b] \notin lost'
      BY Zenon, <1>1, <1>3
    <3> QED BY Zenon, <3>1
  <2>4. \A i \in DOMAIN table' : \A b \in table'[i] : b \in live'
    BY Zenon, <2>3 DEF Entries
  <2>5. \A i \in DOMAIN table' : \A b \in table'[i] : indexFor(tablelength', key'[b]) = i
    BY Zenon, <1>3, <2>4 DEF Chained, indexFor
  <2> QED BY Zenon, <2>1, <2>2, <2>3, <2>5 DEF CountExact
<1>6. cache' \in [{0, 1} -> Addrs \cup {Null}] /\ CacheCurrent'
  <2>1. /\ cache' \in [{0, 1} -> Addrs \cup {Null}]
        /\ \A i \in {0, 1} : cache'[i] = Null \/ (cache'[i] = cache[i] /\ cache[i] # a)
    BY Zenon, InvalidateOut
  <2>2. \A i \in {0, 1} : cache'[i] # Null => cache'[i] \in Entries(table')
    BY Zenon, <2>1 DEF TableIInv, TableSound, CacheCurrent
  <2>3. cache'[0] = cache'[1] => cache'[0] = Null
    BY Zenon, <2>1 DEF TableIInv, TableSound, CacheCurrent
  <2> QED BY Zenon, <2>1, <2>2, <2>3 DEF CacheCurrent
<1>7. TableTypeOK'
  <2>1. table' \in [0 .. tablelength' - 1 -> SUBSET Addrs]
    BY Zenon DEF Chained
  <2> QED BY Zenon, <1>3, <1>5, <1>6, <2>1 DEF TableIInv, TableSound, TableTypeOK
<1>8. LoadBounded'
  BY Zenon DEF LoadBounded, upper_loadlimit
<1>9. OneHandle'
  <2>1. k \notin lost
    BY Zenon, <1>1
  <2>2. ASSUME NEW j \in lost PROVE \E b \in live' : key'[b] = j
    <3>1. PICK b \in live : key[b] = j
      BY Zenon DEF TableIInv, OneHandle
    <3>2. b \in live'
      BY Zenon, <2>1, <3>1
    <3> QED BY Zenon, <1>3, <3>1, <3>2
  <2>3. \A b \in live' : key'[b] \in Keys /\ \A c \in live' : key'[c] = key'[b] => c = b
    BY Zenon, <1>3 DEF TableIInv, OneHandle
  <2> QED BY Zenon, <2>2, <2>3 DEF OneHandle
<1> QED BY Zenon, <1>5, <1>6, <1>7, <1>8, <1>9 DEF TableIInv, TableSound

\* hashtable_remove keeps the invariant, whether or not the table is compacted.
LEMMA RemoveIInv ==
    ASSUME TableConstants, TableIInv, NEW k \in Keys, hashtable_remove(k)
    PROVE  TableIInv'
<1>1. PICK a \in live :
         /\ key[a] = k
         /\ Invalidate(k)
         /\ \/ /\ \E e \in Find(k) : Unlink(k, e)
               /\ live' = live \ {a}
               /\ \E last \in BOOLEAN : key' = [key EXCEPT ![a] = IF last THEN Null ELSE k]
            \/ UNCHANGED <<table, entrycount, primeindex, live, key>>
  BY Zenon DEF hashtable_remove
<1>2. cache_idx' = cache_idx /\ lost' = lost
  BY Zenon DEF hashtable_remove
<1>3. /\ Chained(table, tablelength, key) /\ tablelength \in Nat \ {0} /\ k \in Nat
      /\ Entries(table) = {b \in live : key[b] \notin lost}
      /\ \A b \in Entries(table) : key[b] \in Nat
      /\ Entries(table) \subseteq Addrs
  BY Zenon, Chains DEF TableConstants
<1>4. CASE UNCHANGED <<table, entrycount, primeindex, live, key>>
  <2>1. /\ table' = table /\ entrycount' = entrycount /\ primeindex' = primeindex
        /\ live' = live /\ key' = key /\ tablelength' = tablelength
    BY Zenon, <1>4 DEF tablelength
  <2>2. /\ cache' \in [{0, 1} -> Addrs \cup {Null}]
        /\ \A i \in {0, 1} : cache'[i] = Null \/ (cache'[i] = cache[i] /\ cache[i] # a)
    BY Zenon, <1>1, InvalidateOut
  <2>3. CacheCurrent'
    BY Zenon, <2>1, <2>2 DEF TableIInv, TableSound, CacheCurrent
  <2>4. TableTypeOK'
    BY Zenon, <1>2, <2>1, <2>2 DEF TableIInv, TableSound, TableTypeOK
  <2>5. CountExact' /\ LoadBounded' /\ OneHandle'
    BY Zenon, <1>2, <2>1 DEF TableIInv, TableSound, CountExact, LoadBounded, OneHandle
  <2> QED BY Zenon, <2>3, <2>4, <2>5 DEF TableIInv, TableSound
<1>5. ASSUME NEW e \in Find(k), Unlink(k, e), live' = live \ {a}, NEW last \in BOOLEAN,
             key' = [key EXCEPT ![a] = IF last THEN Null ELSE k]
      PROVE  TableIInv'
  <2> DEFINE x == indexFor(tablelength, k)
             tbl == [table EXCEPT ![x] = table[x] \ {e}]
             n == entrycount - 1
  <2>1. x \in 0 .. tablelength - 1 /\ table \in [0 .. tablelength - 1 -> SUBSET Addrs]
    BY Zenon, <1>3, IndexIn DEF Chained
  <2>2. e \in table[x] /\ key[e] = k /\ x = k % tablelength
    BY Zenon DEF Find, indexFor
  <2>3. /\ entrycount' = n
        /\ \/ /\ table' = tbl
              /\ primeindex' = primeindex
           \/ /\ primeindex > 0 /\ n <= lower_loadlimit(tablelength)
              /\ table' = Rehash(tbl, Primes[primeindex])
              /\ primeindex' = primeindex - 1
    BY Zenon, <1>5 DEF Unlink, Shrinkable
  <2> HIDE DEF x
  <2>4. /\ DOMAIN table = 0 .. tablelength - 1 /\ DOMAIN tbl = DOMAIN table
        /\ \A i \in DOMAIN table : tbl[i] = IF i = x THEN table[i] \ {e} ELSE table[i]
        /\ tbl \in [0 .. tablelength - 1 -> SUBSET Addrs]
    BY Zenon, <2>1
  <2> HIDE DEF tbl
  <2>5. e \in Entries(table) /\ e = a
    <3>1. x \in DOMAIN table
      BY Zenon, <2>1
    <3>2. e \in Entries(table)
      BY Zenon, <2>2, <3>1 DEF Entries
    <3> QED BY Zenon, <1>1, <1>3, <2>2, <3>2 DEF TableIInv, OneHandle
  <2>6. \A b : b \in Entries(tbl) <=> b \in Entries(table) /\ b # a
    <3>1. \A i \in DOMAIN table : e \in table[i] => i = x
      BY Zenon, <2>2, <2>4, <1>3 DEF Chained
    <3>2. ASSUME NEW i \in DOMAIN table PROVE \A b : b \in tbl[i] <=> b \in table[i] /\ b # a
      BY Zenon, <2>4, <2>5, <3>1
    <3>3. \A b : b \in Entries(tbl) <=> \E i \in DOMAIN table : b \in tbl[i]
      BY Zenon, <2>4 DEF Entries
    <3>4. \A b : b \in Entries(table) <=> \E i \in DOMAIN table : b \in table[i]
      BY Zenon DEF Entries
    <3> QED BY Zenon, <3>2, <3>3, <3>4
  <2>7. Chained(tbl, tablelength, key)
    <3>1. \A i \in 0 .. tablelength - 1 : \A b \in tbl[i] : b \in table[i]
      BY Zenon, <2>4
    <3> QED BY Zenon, <1>3, <2>4, <3>1 DEF Chained
  <2>8. CASE table' = tbl /\ primeindex' = primeindex
    <3>1. primeindex' \in 0 .. Len(Primes) - 1 /\ tablelength' = tablelength
      BY Zenon, <2>8 DEF TableIInv, TableSound, TableTypeOK, tablelength
    <3>2. entrycount' <= upper_loadlimit(tablelength)
      <4>1. upper_loadlimit(tablelength) \in Nat /\ entrycount \in Nat
        BY Zenon, Sizes DEF TableIInv, TableSound, TableTypeOK, tablelength
      <4>2. entrycount <= upper_loadlimit(tablelength)
        BY Zenon DEF TableIInv, TableSound, LoadBounded
      <4> QED BY <4>1, <4>2, <2>3
    <3>3. Chained(table', tablelength, key)
      BY Zenon, <2>7, <2>8
    <3>4. \A b : b \in Entries(table') <=> b \in Entries(table) /\ b # a
      BY Zenon, <2>6, <2>8
    <3> QED BY Zenon, <1>1, <1>2, <1>3, <1>5, <2>3, <2>5, <3>1, <3>2, <3>3, <3>4, DropIInv
  <2>9. CASE /\ primeindex > 0 /\ n <= lower_loadlimit(tablelength)
             /\ table' = Rehash(tbl, Primes[primeindex])
             /\ primeindex' = primeindex - 1
    <3> DEFINE m == Primes[primeindex]
    <3>1. /\ primeindex \in Nat /\ primeindex' \in 0 .. Len(Primes) - 1
          /\ primeindex' + 1 = primeindex /\ primeindex \in 1 .. Len(Primes) - 1
          /\ entrycount \in Nat /\ n \in Int
      BY <2>9 DEF TableIInv, TableSound, TableTypeOK
    <3>2. tablelength' = m /\ m \in Nat \ {0} /\ upper_loadlimit(m) \in Nat
          /\ lower_loadlimit(tablelength) \in Nat
      <4>1. primeindex \in 0 .. Len(Primes) - 1
        BY <3>1
      <4>2. m \in Nat \ {0} /\ upper_loadlimit(m) \in Nat
        <5>1. Primes[primeindex' + 1] \in Nat \ {0}
              /\ upper_loadlimit(Primes[primeindex' + 1]) \in Nat
          BY Zenon, <3>1, Sizes
        <5> QED BY Zenon, <3>1, <5>1
      <4>3. lower_loadlimit(tablelength) \in Nat
        BY Zenon, <4>1, Sizes DEF tablelength
      <4> QED BY Zenon, <3>1, <4>2, <4>3 DEF tablelength
    <3>3. lower_loadlimit(tablelength) <= upper_loadlimit(m)
      BY Zenon, <3>1 DEF TableConstants, tablelength
    <3>4. n <= upper_loadlimit(m)
      <4> HIDE DEF m, n
      <4> QED BY <2>9, <3>1, <3>2, <3>3
    <3>5. Entries(tbl) \subseteq Addrs /\ \A b \in Entries(tbl) : key[b] \in Nat
      BY Zenon, <1>3, <2>6
    <3>6. Chained(table', m, key) /\ Entries(table') = Entries(tbl)
      BY Zenon, <2>9, <3>2, <3>5, RehashEntries
    <3>7. \A b : b \in Entries(table') <=> b \in Entries(table) /\ b # a
      BY Zenon, <2>6, <3>6
    <3>8. entrycount' <= upper_loadlimit(m)
      BY Zenon, <2>3, <3>4
    <3> QED BY Zenon, <1>1, <1>2, <1>3, <1>5, <2>3, <2>5, <3>1, <3>2, <3>6, <3>7, <3>8, DropIInv
  <2> QED BY Zenon, <2>3, <2>8, <2>9
<1> QED BY Zenon, <1>1, <1>4, <1>5
-----------------------------------------------------------------------------
(* The theorems *)

\* Every step keeps the invariant and what SearchExact says of the last result.
LEMMA TableNextIInv ==
    ASSUME TableConstants, TableIInv, SearchExact, [TableNext]_tableVars
    PROVE  TableIInv' /\ SearchExact'
<1>1. CASE UNCHANGED tableVars
  <2>1. /\ table' = table /\ cache' = cache /\ cache_idx' = cache_idx
        /\ entrycount' = entrycount /\ primeindex' = primeindex /\ live' = live
        /\ key' = key /\ lost' = lost /\ ret' = ret /\ tablelength' = tablelength
    BY Zenon, <1>1 DEF tableVars, tablelength
  <2>2. TableTypeOK' /\ CacheCurrent' /\ CountExact' /\ LoadBounded'
    BY Zenon, <2>1 DEF TableIInv, TableSound, TableTypeOK, CacheCurrent, CountExact, LoadBounded
  <2> QED BY Zenon, <2>1, <2>2 DEF TableIInv, TableSound, OneHandle, SearchExact
<1>2. ASSUME NEW k \in Keys, NEW a \in Addrs, hashtable_insert(k, a)
      PROVE  TableIInv' /\ SearchExact'
  <2>1. ret'[1] = "insert"
    BY <1>2 DEF hashtable_insert, Push
  <2> QED BY Zenon, <1>2, <2>1, InsertIInv DEF SearchExact
<1>3. ASSUME NEW k \in Keys, hashtable_search(k)
      PROVE  TableIInv' /\ SearchExact'
  BY Zenon, <1>3, SearchIInv
<1>4. ASSUME NEW k \in Keys, hashtable_remove(k)
      PROVE  TableIInv' /\ SearchExact'
  <2>1. ret'[1] = "remove"
    BY <1>4 DEF hashtable_remove
  <2> QED BY Zenon, <1>4, <2>1, RemoveIInv DEF SearchExact
<1> QED BY Zenon, <1>1, <1>2, <1>3, <1>4 DEF TableNext, Quit

\* The invariant holds in every state of every behaviour of the table.
THEOREM TableInvariance == TableSpec => [](TableIInv /\ SearchExact)
<1>1. TableInit => TableIInv /\ SearchExact
  <2>1. TableInit => ret[1] = "create"
    BY DEF TableInit
  <2> QED BY Zenon, <2>1, TableAssumption, TableInitIInv DEF SearchExact
<1>2. TableIInv /\ SearchExact /\ [TableNext]_tableVars => (TableIInv /\ SearchExact)'
  BY Zenon, TableAssumption, TableNextIInv
<1> QED BY <1>1, <1>2, PTL DEF TableSpec

\* Chains, cache, entry count and load limit of the thread's table agree, through
\* insertions, removals, growth, compaction and recycled addresses.
THEOREM TableStaysSound == TableSpec => []TableSound
<1>1. TableIInv => TableSound
  BY Zenon DEF TableIInv
<1> QED BY <1>1, TableInvariance, PTL

\* get_tkey gives the handle the thread now has for the region; it gives up only on
\* a region whose insertion failed.
THEOREM SearchIsExact == TableSpec => []SearchExact
BY TableInvariance, PTL
=============================================================================
