------------------------- MODULE XRegionTreeInv ----------------------------
(***************************************************************************)
(* Proofs about XRegionTree for any regions, threads and shapes of         *)
(* forests, provided that                                                  *)
(*   - no region is created below one that the thread only reads,          *)
(*   - no spawn hands over a lock (references only).                       *)
(* This module has the inductive invariant, and that the calls of the      *)
(* program preserve it; XRegionTreeProofs has the steps of a call and the  *)
(* theorems.                                                               *)
(***************************************************************************)
EXTENDS XRegionTree, TLAPS

\* Spawn hands over references only.
HandsNoLocks == \A l \in SpawnLists, r \in Regions : Total(l, r, 3) = 0 /\ Total(l, r, 4) = 0

\* The shared words of a region say what the handles of the threads say.
Readers(r) == {t \in Threads : hd[t][r].rd > 0}
LockWords ==
    \A r \in Regions : /\ \A t \in Threads : wr_cv[r] = t <=> hd[t][r].wr > 0
                       /\ rd_cnt[r] = Cardinality(Readers(r))

\* What does not exist yet has left no trace.
Fresh ==
    /\ \A t \in Threads, r \in Regions :
          /\ r \notin created => hd[t][r] = NoHandle
          /\ hd[t][r].parent \in created \cup {None}
          /\ \A i \in DOMAIN hd[t][r].sub : hd[t][r].sub[i] \in created
    /\ \A r \in Regions \ created : wr_cv[r] = None
    /\ \A t \in Threads : \A i \in DOMAIN todo[t] :
          todo[t][i][1] # "create" => todo[t][i][2] \in created

\* A thread that is not started does nothing and has no locks, and has handles only
\* if its creator is about to start it.
Expected(u) ==
    \E t \in Threads : \E i \in DOMAIN todo[t] : todo[t][i][1] = "create" /\ todo[t][i][2] = u
Unborn ==
    \A u \in Threads : depth[u] = -1 =>
        /\ todo[u] = <<>>
        /\ \A r \in Regions : /\ hd[u][r].wr = 0 /\ hd[u][r].rd = 0
                              /\ hd[u][r].rcnt > 0 => Expected(u)

\* Handles h form a forest that rank bears out: ranks grow from parent to child.
Ranked(h, rank) ==
    \A r \in Regions :
        /\ h[r].parent # None => rank[h[r].parent] < rank[r]
        /\ \A i \in DOMAIN h[r].sub : rank[r] < rank[h[r].sub[i]]

\* In the list q of what a thread with handles h has left to do, step j gives up a
\* handle that is still there.  Right before that its locks are given up, all of
\* them, and until then the thread works on handles further down.
Due(q, j, h, rank) ==
    LET r == q[j][2]
    IN /\ h[r].rcnt > 0
       /\ j = 1 => h[r].wr = 0 /\ h[r].rd = 0
       /\ j > 1 => /\ q[j - 1][1] \in {"lockop", "lock"} /\ q[j - 1][2] = r
                   /\ q[j - 1][3] = <<0, -h[r].wr, -h[r].rd>>
       /\ \A i \in 1 .. j - 2 : q[i][1] # "create" /\ rank[r] < rank[q[i][2]]

Pending(q, h, rank) == \A j \in DOMAIN q : q[j][1] = "unlink" => Due(q, j, h, rank)

Layered(rank) == \A t \in Threads : Ranked(hd[t], rank) /\ Pending(todo[t], hd[t], rank)

\* The inductive invariant.
IInv ==
    /\ TypeOK /\ LockWords /\ TreeExclusion /\ FreedOnce /\ Fresh /\ Unborn
    /\ \E rank \in [Regions -> Nat] : Layered(rank)

\* The step Lock(t) on region r, when the lock may be had.
Granted(t, r, c) ==
    /\ Asserted(t, r, c) /\ CanWrite(t, r, c) /\ CanRead(t, r, c)
    /\ wr_cv' = [wr_cv EXCEPT ![r] = WriterAfter(t, r, c)]
    /\ rd_cnt' = [rd_cnt EXCEPT ![r] = ReadersAfter(t, r, c)]
    /\ hd'[t][r].wr = hd[t][r].wr + c[2] /\ hd'[t][r].rd = hd[t][r].rd + c[3]
    /\ \A p \in Regions \ {r} : hd'[t][p] = hd[t][p]
    /\ \A v \in Threads \ {t} : hd'[v] = hd[v]

\* What the proofs need to know of finite sets, and of the lists __treecopy makes.
\* It is shown at the end, where the library comes in.
Subsets == \A S : IsFiniteSet(S) => \A T \in SUBSET S : IsFiniteSet(T)
Sizes ==
    /\ Cardinality({}) = 0
    /\ \A S : IsFiniteSet(S) => Cardinality(S) \in Nat /\ (Cardinality(S) = 0 <=> S = {})
Singles ==
    /\ \A x : Cardinality({x}) = 1
    /\ \A S : IsFiniteSet(S) => (Cardinality(S) = 1 <=> \E x : S = {x})
Added ==
    \A S, x : IsFiniteSet(S) /\ x \notin S => Cardinality(S \cup {x}) = Cardinality(S) + 1
Removed ==
    \A S, x : IsFiniteSet(S) /\ x \in S => Cardinality(S \ {x}) = Cardinality(S) - 1
Intervals == \A n \in Nat : IsFiniteSet(1 .. n)
Listing ==
    \A S \in SUBSET Nat : IsFiniteSet(S) =>
        /\ Cardinality(S) \in Nat /\ DOMAIN Descending(S) = 1 .. Cardinality(S)
        /\ \A k \in 1 .. Cardinality(S) : Descending(S)[k] \in S
Counting == Subsets /\ Sizes /\ Singles /\ Added /\ Removed /\ Intervals /\ Listing

-----------------------------------------------------------------------------
(* The lock of one region *)

\* The read and the write part of __xregion_lockop: who gets the lock excludes.
LEMMA LockGranted ==
    ASSUME Counting, TypeOK, LockWords, TreeExclusion, NEW t \in Threads, NEW r \in Regions, NEW c \in Counts,
           Granted(t, r, c)
    PROVE  LockWords' /\ TreeExclusion'
<1> DEFINE kw == hd[t][r].wr
           kd == hd[t][r].rd
           w == c[2]
           d == c[3]
           w2 == hd'[t][r].wr
           d2 == hd'[t][r].rd
           cv == wr_cv[r]
           n == rd_cnt[r]
           R == Readers(r)
           R2 == Readers(r)'
<1>1. /\ kw \in Nat /\ kd \in Nat /\ w \in Int /\ d \in Int
      /\ w2 = kw + w /\ d2 = kd + d /\ kw + w >= 0 /\ kd + d >= 0
  <2>1. hd[t][r] \in Handles /\ w \in Int /\ d \in Int
    BY DEF TypeOK, Counts
  <2>2. kw \in Nat /\ kd \in Nat
    BY <2>1 DEF Handles
  <2>3. kw + w >= 0 /\ kd + d >= 0
    BY Zenon DEF Asserted, Granted
  <2>4. w2 = kw + w /\ d2 = kd + d
    BY Zenon DEF Granted
  <2> QED BY Zenon, <2>1, <2>2, <2>3, <2>4
<1>2. /\ w = 0 \/ kw # 0 \/ (cv = None /\ (n = 0 \/ (n = 1 /\ kd # 0)))
      /\ d = 0 \/ kd # 0 \/ cv \in {t, None}
  BY Zenon DEF CanWrite, CanRead, Granted
<1>3. /\ \A v \in Threads : cv = v <=> hd[v][r].wr > 0
      /\ n = Cardinality(R)
      /\ cv = t <=> kw > 0
  BY Zenon DEF LockWords
<1>4. IsFiniteSet(R) /\ n \in Nat
  <2>1. R \in SUBSET Threads /\ IsFiniteSet(Threads)
    BY Zenon, TreeAssumption DEF Readers
  <2>2. IsFiniteSet(R)
    BY Zenon, <2>1 DEF Counting, Subsets
  <2> QED BY Zenon, <1>3, <2>2 DEF Counting, Sizes
<1>5. /\ wr_cv'[r] = IF w = 0 THEN cv ELSE IF kw = 0 THEN t ELSE IF kw + w = 0 THEN None ELSE cv
      /\ rd_cnt'[r] = IF d = 0 THEN n ELSE IF kd = 0 THEN n + 1
                      ELSE IF kd + d = 0 THEN n - 1 ELSE n
  BY Zenon DEF TypeOK, WriterAfter, ReadersAfter, Granted
<1>6. /\ \A v \in Threads \ {t} : hd'[v][r] = hd[v][r]
      /\ None \notin Threads
  BY Zenon, NoneIsNone DEF Granted
<1>7. /\ \A v \in Threads \ {t} : v \in R2 <=> v \in R
      /\ t \in R2 <=> d2 > 0
      /\ t \in R <=> kd > 0
      /\ R \subseteq Threads /\ R2 \subseteq Threads
  <2>1. \A v \in Threads \ {t} : hd'[v][r].rd = hd[v][r].rd
    BY Zenon, <1>6
  <2>2. \A v \in Threads \ {t} : v \in R2 <=> v \in R
    BY <2>1 DEF Readers
  <2> QED BY Zenon, <2>2 DEF Readers
<1>8. \A u \in Threads \ {t} :
          /\ hd[u][r].wr \in Nat /\ hd[u][r].rd \in Nat
          /\ u \in R <=> hd[u][r].rd > 0
          /\ kw > 0 => hd[u][r].wr = 0 /\ hd[u][r].rd = 0
          /\ hd[u][r].wr > 0 => kw = 0 /\ kd = 0
  <2>1. \A u \in Threads \ {t} : hd[u][r] \in Handles
    BY DEF TypeOK
  <2>2. \A u \in Threads \ {t} : hd[u][r].wr \in Nat /\ hd[u][r].rd \in Nat
    BY <2>1 DEF Handles
  <2> QED BY Zenon, <2>2 DEF TreeExclusion, Readers
<1>9. \A p \in Regions \ {r} : wr_cv'[p] = wr_cv[p] /\ rd_cnt'[p] = rd_cnt[p]
  BY Zenon DEF TypeOK, Granted
<1> HIDE DEF kw, kd, w, d, w2, d2, cv, n, R, R2
<1>10. \A v \in Threads : wr_cv'[r] = v <=> hd'[v][r].wr > 0
  <2>1. wr_cv'[r] = t <=> w2 > 0
    BY <1>1, <1>2, <1>3, <1>5, <1>6
  <2>2. \A v \in Threads \ {t} : wr_cv'[r] = v <=> hd[v][r].wr > 0
    <3>1. CASE w = 0
      BY Zenon, <1>3, <1>5, <3>1
    <3>2. CASE w # 0
      <4>1. wr_cv'[r] \in {t, None} /\ cv \in {t, None}
        BY <1>1, <1>2, <1>3, <1>5, <3>2
      <4>2. \A v \in Threads \ {t} : v # t /\ v # None
        BY Zenon, <1>6
      <4> QED BY <1>3, <4>1, <4>2
    <3> QED BY Zenon, <3>1, <3>2
  <2> QED BY Zenon, <1>6, <2>1, <2>2 DEF w2
<1>11. rd_cnt'[r] = Cardinality(R2)
  <2>1. CASE kd > 0 <=> d2 > 0
    <3>1. \A v \in Threads : v \in R2 <=> v \in R
      BY Zenon, <1>7, <2>1
    <3>3. R2 = R
      BY Zenon, <1>7, <3>1
    <3>2. rd_cnt'[r] = n
      BY <1>1, <1>5, <2>1
    <3> QED BY Zenon, <1>3, <3>2, <3>3
  <2>2. CASE ~(kd > 0) /\ d2 > 0
    <3>1. R2 = R \cup {t} /\ t \notin R
      BY Zenon, <1>7, <2>2
    <3>2. rd_cnt'[r] = n + 1
      BY <1>1, <1>5, <2>2
    <3>3. Cardinality(R \cup {t}) = Cardinality(R) + 1
      BY Zenon, <1>4, <3>1 DEF Counting, Added
    <3> QED BY Zenon, <1>3, <3>1, <3>2, <3>3
  <2>3. CASE kd > 0 /\ ~(d2 > 0)
    <3>1. R2 = R \ {t} /\ t \in R
      BY Zenon, <1>7, <2>3
    <3>2. rd_cnt'[r] = n - 1
      BY <1>1, <1>5, <2>3
    <3>3. Cardinality(R \ {t}) = Cardinality(R) - 1
      BY Zenon, <1>4, <3>1 DEF Counting, Removed
    <3> QED BY Zenon, <1>3, <3>1, <3>2, <3>3
  <2> QED BY Zenon, <2>1, <2>2, <2>3
<1>12. \A p \in Regions \ {r} : /\ \A v \in Threads : hd'[v][p] = hd[v][p]
                                /\ Readers(p)' = Readers(p)
  <2>1. \A p \in Regions \ {r} : \A v \in Threads : hd'[v][p] = hd[v][p]
    BY Zenon DEF Granted
  <2>2. \A p \in Regions \ {r} : Readers(p)' = Readers(p)
    BY Zenon, <2>1 DEF Readers
  <2> QED BY Zenon, <2>1, <2>2
<1>13. LockWords'
  <2> SUFFICES ASSUME NEW p \in Regions
               PROVE  /\ \A v \in Threads : wr_cv'[p] = v <=> hd'[v][p].wr > 0
                      /\ rd_cnt'[p] = Cardinality(Readers(p)')
    BY Zenon DEF LockWords
  <2>1. CASE p = r
    BY Zenon, <1>10, <1>11, <2>1 DEF R2
  <2>2. CASE p # r
    <3>1. p \in Regions \ {r}
      BY Zenon, <2>2
    <3>2. /\ \A v \in Threads : wr_cv[p] = v <=> hd[v][p].wr > 0
          /\ rd_cnt[p] = Cardinality(Readers(p))
      BY Zenon DEF LockWords
    <3>3. \A v \in Threads : hd'[v][p].wr = hd[v][p].wr
      BY Zenon, <1>12, <3>1
    <3> QED BY <1>9, <1>12, <3>1, <3>2, <3>3
  <2> QED BY Zenon, <2>1, <2>2
<1>14. ASSUME NEW u \in Threads \ {t}
       PROVE  /\ w2 > 0 => hd[u][r].wr = 0 /\ hd[u][r].rd = 0
              /\ hd[u][r].wr > 0 => w2 = 0 /\ d2 = 0
  <2> DEFINE uw == hd[u][r].wr
             ud == hd[u][r].rd
  <2>1. /\ uw \in Nat /\ ud \in Nat
        /\ u \in R <=> ud > 0
        /\ kw > 0 => uw = 0 /\ ud = 0
        /\ uw > 0 => kw = 0 /\ kd = 0
        /\ uw > 0 <=> cv = u
    BY Zenon, <1>3, <1>8
  <2> HIDE DEF uw, ud
  <2>2. w2 > 0 => uw = 0
    BY <1>1, <1>2, <1>6, <2>1
  <2>3. w2 > 0 => ud = 0
    <3> SUFFICES ASSUME kw = 0, w # 0 PROVE ud = 0
      BY <1>1, <2>1
    <3>1. n = 0 \/ (n = 1 /\ kd # 0)
      BY Zenon, <1>2
    <3>2. CASE n = 0
      <4>1. R = {}
        BY Zenon, <1>3, <1>4, <3>2 DEF Counting, Sizes
      <4> QED BY <2>1, <4>1
    <3>3. CASE n = 1 /\ kd # 0
      <4>1. PICK x : R = {x}
        BY Zenon, <1>3, <1>4, <3>3 DEF Counting, Singles
      <4>2. t \in R
        BY <1>1, <1>7, <3>3
      <4>3. u \notin R
        BY Zenon, <4>1, <4>2
      <4> QED BY <2>1, <4>3
    <3> QED BY Zenon, <3>1, <3>2, <3>3
  <2>4. uw > 0 => d2 = 0
    BY <1>1, <1>2, <1>6, <2>1
  <2>5. uw > 0 => w2 = 0
    BY <1>1, <2>1, <2>2
  <2> QED BY Zenon, <2>2, <2>3, <2>4, <2>5 DEF uw, ud
<1>15. TreeExclusion'
  <2> SUFFICES ASSUME NEW p \in Regions, NEW v \in Threads, NEW u \in Threads, v # u,
                      hd'[v][p].wr > 0
               PROVE  hd'[u][p].wr = 0 /\ hd'[u][p].rd = 0
    BY Zenon DEF TreeExclusion
  <2>1. CASE p # r
    <3>1. hd'[v][p] = hd[v][p] /\ hd'[u][p] = hd[u][p]
      BY Zenon, <1>12, <2>1
    <3>2. hd[v][p].wr > 0
      BY Zenon, <3>1
    <3>3. hd[u][p].wr = 0 /\ hd[u][p].rd = 0
      BY Zenon, <3>2 DEF TreeExclusion
    <3> QED BY Zenon, <3>1, <3>3
  <2>2. CASE p = r /\ v = t
    <3>1. w2 > 0 /\ hd'[u][p] = hd[u][r]
      BY Zenon, <1>6, <2>2 DEF w2
    <3>2. u \in Threads \ {t}
      BY Zenon, <2>2
    <3>3. hd[u][r].wr = 0 /\ hd[u][r].rd = 0
      BY Zenon, <1>14, <3>1, <3>2
    <3> QED BY Zenon, <3>1, <3>3
  <2>3. CASE p = r /\ u = t
    <3>1. hd[v][r].wr > 0
      BY Zenon, <1>6, <2>3
    <3> QED BY Zenon, <1>14, <2>3, <3>1 DEF w2, d2
  <2>4. CASE p = r /\ v # t /\ u # t
    <3>1. hd'[v][p] = hd[v][p] /\ hd'[u][p] = hd[u][p]
      BY Zenon, <1>6, <2>4
    <3>2. hd[v][p].wr > 0
      BY Zenon, <3>1
    <3>3. hd[u][p].wr = 0 /\ hd[u][p].rd = 0
      BY Zenon, <3>2 DEF TreeExclusion
    <3> QED BY Zenon, <3>1, <3>3
  <2> QED BY Zenon, <2>1, <2>2, <2>3, <2>4
<1> QED BY Zenon, <1>13, <1>15

-----------------------------------------------------------------------------
(* Lists of sub-keys *)

\* Taking a handle out of a list of sub-keys adds none.
LEMMA WithoutIn ==
    ASSUME NEW s \in Seq(Regions), NEW e
    PROVE  /\ Without(s, e) \in Seq(Regions)
           /\ \A i \in DOMAIN Without(s, e) : \E k \in DOMAIN s : Without(s, e)[i] = s[k]
<1>1. CASE e \notin Range(s)
  <2>1. Without(s, e) = s
    BY Zenon, <1>1 DEF Without
  <2> QED BY Zenon, <2>1
<1>2. CASE e \in Range(s)
  <2> DEFINE m == CHOOSE j \in DOMAIN s : s[j] = e
             z == SubSeq(s, 1, m - 1) \o SubSeq(s, m + 1, Len(s))
  <2>1. Without(s, e) = z
    BY Zenon, <1>2 DEF Without
  <2>2. m \in DOMAIN s
    BY Zenon, <1>2 DEF Range
  <2> HIDE DEF m
  <2>3. Len(s) \in Nat /\ DOMAIN s = 1 .. Len(s)
    OBVIOUS
  <2>4. /\ z \in Seq(Regions) /\ Len(z) = Len(s) - 1
        /\ \A i \in 1 .. Len(s) - 1 : z[i] = IF i < m THEN s[i] ELSE s[i + 1]
    <3> DEFINE a == SubSeq(s, 1, m - 1)
               b == SubSeq(s, m + 1, Len(s))
    <3>1. a \in Seq(Regions) /\ Len(a) = m - 1 /\ \A i \in 1 .. m - 1 : a[i] = s[i]
      BY <2>2, <2>3
    <3>2. b \in Seq(Regions) /\ Len(b) = Len(s) - m /\ \A i \in 1 .. Len(s) - m : b[i] = s[m + i]
      BY <2>2, <2>3
    <3> HIDE DEF a, b
    <3>3. a \o b \in Seq(Regions) /\ Len(a \o b) = Len(a) + Len(b)
      BY <3>1, <3>2
    <3>4. /\ \A i \in 1 .. Len(a) : (a \o b)[i] = a[i]
          /\ \A i \in 1 .. Len(b) : (a \o b)[Len(a) + i] = b[i]
      BY <3>1, <3>2
    <3>5. Len(a \o b) = Len(s) - 1
      BY <2>2, <2>3, <3>1, <3>2, <3>3
    <3>6. ASSUME NEW i \in 1 .. Len(s) - 1
          PROVE  (a \o b)[i] = IF i < m THEN s[i] ELSE s[i + 1]
      <4>1. CASE i < m
        <5>1. i \in 1 .. m - 1
          BY <2>2, <2>3, <4>1
        <5> QED BY Zenon, <3>1, <3>4, <4>1, <5>1
      <4>2. CASE ~(i < m)
        <5>1. i - m + 1 \in 1 .. Len(s) - m /\ (m - 1) + (i - m + 1) = i /\ m + (i - m + 1) = i + 1
          BY <2>2, <2>3, <4>2
        <5>2. (a \o b)[(m - 1) + (i - m + 1)] = b[i - m + 1] /\ b[i - m + 1] = s[m + (i - m + 1)]
          BY Zenon, <3>1, <3>2, <3>4, <5>1
        <5> QED BY Zenon, <4>2, <5>1, <5>2
      <4> QED BY Zenon, <4>1, <4>2
    <3> QED BY Zenon, <3>3, <3>5, <3>6 DEF a, b
  <2> HIDE DEF z
  <2>5. ASSUME NEW i \in DOMAIN z PROVE \E k \in DOMAIN s : z[i] = s[k]
    <3>1. i \in 1 .. Len(s) - 1
      BY <2>4
    <3>2. i \in DOMAIN s /\ i + 1 \in DOMAIN s /\ (z[i] = s[i] \/ z[i] = s[i + 1])
      BY <2>3, <2>4, <3>1
    <3> QED BY <3>2
  <2> QED BY <2>1, <2>4, <2>5
<1> QED BY <1>1, <1>2

-----------------------------------------------------------------------------
(* _new_xregion *)

\* A handle that is in use is the handle of a region that exists.
LEMMA LiveCreated ==
    ASSUME TypeOK, Fresh, NEW t \in Threads, NEW r \in Regions, hd[t][r].rcnt > 0
    PROVE  r \in created
BY DEF Fresh, NoHandle

\* From a step to the next, handle s of thread v stays as it is, but that r may be
\* added to the sub-keys of p.
SameBut(v, s, r, p) ==
    /\ hd'[v][s].rcnt = hd[v][s].rcnt /\ hd'[v][s].wr = hd[v][s].wr
    /\ hd'[v][s].rd = hd[v][s].rd /\ hd'[v][s].parent = hd[v][s].parent
    /\ s \notin created => hd'[v][s] = hd[v][s]
    /\ \A i \in DOMAIN hd'[v][s].sub :
          \/ s = p /\ hd'[v][s].sub[i] = r
          \/ \E j \in DOMAIN hd[v][s].sub : hd'[v][s].sub[i] = hd[v][s].sub[j]

\* What _new_xregion does to the handles.
LEMMA NewXregionHandles ==
    ASSUME Counting, ~ReadsBelow, IInv, NEW t \in Threads, NEW r \in Regions,
           NEW p \in Regions \cup {None}, NewXregion(t, r, p)
    PROVE  /\ hd' \in [Threads -> [Regions -> Handles]] /\ \A v \in Threads \ {t} : hd'[v] = hd[v]
           /\ p # None => p \in Regions /\ p \in created /\ p # r
           /\ hd'[t][r].rcnt = 1 /\ hd'[t][r].wr > 0 /\ hd'[t][r].rd = 0
           /\ hd'[t][r].parent = p /\ hd'[t][r].sub = <<>>
           /\ \A v \in Threads, s \in Regions : s # r => SameBut(v, s, r, p)
<1> DEFINE new == [rcnt |-> 1, wr |-> Inherited(t, p).wr + 1, rd |-> Inherited(t, p).rd,
                   parent |-> p, sub |-> <<>>, addr |-> -1 - Cardinality(created)]
           old == hd[t][p]
           linked == [old EXCEPT !.sub = <<r>> \o @]
<1>1. TypeOK /\ Fresh
  BY Zenon DEF IInv
<1>3. r \notin created /\ p \in Live(t) \cup {None} /\ Inherited(t, p).rd = 0
  BY Zenon DEF NewXregion
<1>4. hd' = [hd EXCEPT ![t] = [s \in Regions |-> IF s = r THEN new
                                                ELSE IF s = p THEN linked ELSE hd[t][s]]]
  BY Zenon DEF NewXregion
<1>5. p # None => p \in Regions /\ p \in created /\ p # r
  <2>1. p # None => p \in Regions /\ hd[t][p].rcnt > 0
    BY <1>3 DEF Live
  <2> QED BY Zenon, <1>1, <1>3, <2>1, LiveCreated
<1>6. p # r
  BY Zenon, <1>5, NoneIsNone
<1>7. new \in Handles /\ new.rcnt = 1 /\ new.wr > 0 /\ new.rd = 0 /\ new.parent = p /\ new.sub = <<>>
  <2>1. Inherited(t, p).wr \in Nat
    <3>1. p # None => hd[t][p] \in Handles
      BY <1>1, <1>5 DEF TypeOK
    <3> QED BY <3>1 DEF Inherited, Handles
  <2>2. -1 - Cardinality(created) \in Int
    <3>1. IsFiniteSet(created)
      BY <1>1, TreeAssumption DEF Counting, Subsets, TypeOK
    <3>2. Cardinality(created) \in Nat
      BY Zenon, <3>1 DEF Counting, Sizes
    <3> QED BY <3>2
  <2> QED BY <1>3, <2>1, <2>2 DEF Handles
<1>8. p # None => /\ linked \in Handles /\ linked.rcnt = old.rcnt /\ linked.wr = old.wr
                  /\ linked.rd = old.rd /\ linked.parent = old.parent
                  /\ \A i \in DOMAIN linked.sub : linked.sub[i] = r
                                                  \/ \E j \in DOMAIN old.sub : linked.sub[i] = old.sub[j]
  <2> SUFFICES ASSUME p # None
               PROVE  /\ linked \in Handles /\ linked.rcnt = old.rcnt /\ linked.wr = old.wr
                      /\ linked.rd = old.rd /\ linked.parent = old.parent
                      /\ \A i \in DOMAIN linked.sub : linked.sub[i] = r
                                                     \/ \E j \in DOMAIN old.sub : linked.sub[i] = old.sub[j]
    BY Zenon
  <2> DEFINE sub == old.sub
             sub2 == <<r>> \o sub
  <2>1. old \in Handles /\ sub \in Seq(Regions) /\ Len(sub) \in Nat /\ DOMAIN sub = 1 .. Len(sub)
    BY <1>1, <1>5 DEF TypeOK, Handles
  <2>2. sub2 \in Seq(Regions) /\ Len(sub2) = Len(sub) + 1
    BY <2>1
  <2>3. sub2[1] = r /\ \A i \in 2 .. Len(sub) + 1 : sub2[i] = sub[i - 1]
    BY <2>1
  <2> HIDE DEF sub2, old
  <2>4. ASSUME NEW i \in DOMAIN sub2 PROVE sub2[i] = r \/ \E j \in DOMAIN sub : sub2[i] = sub[j]
    <3> HIDE DEF sub
    <3>1. i \in 1 .. Len(sub) + 1
      BY <2>2
    <3>2. i = 1 \/ (i \in 2 .. Len(sub) + 1 /\ i - 1 \in DOMAIN sub)
      BY <2>1, <3>1
    <3> QED BY <2>3, <3>2
  <2>5. LET l == [old EXCEPT !.sub = sub2]
        IN /\ l \in Handles /\ l.rcnt = old.rcnt /\ l.wr = old.wr
           /\ l.rd = old.rd /\ l.parent = old.parent /\ l.sub = sub2
    BY <2>1, <2>2 DEF Handles
  <2> QED BY Zenon, <2>4, <2>5 DEF sub2, sub
<1> HIDE DEF new, linked
<1>9. /\ hd' \in [Threads -> [Regions -> Handles]] /\ \A v \in Threads \ {t} : hd'[v] = hd[v]
      /\ hd'[t][r] = new /\ (p # None => hd'[t][p] = linked)
      /\ \A s \in Regions : s # r /\ s # p => hd'[t][s] = hd[t][s]
  <2> DEFINE h2 == [s \in Regions |-> IF s = r THEN new ELSE IF s = p THEN linked ELSE hd[t][s]]
  <2>1. hd \in [Threads -> [Regions -> Handles]]
    BY Zenon, <1>1 DEF TypeOK
  <2>2. h2[r] = new /\ (p # None => h2[p] = linked)
        /\ \A s \in Regions : s # r /\ s # p => h2[s] = hd[t][s]
    BY Zenon, <1>5, <1>6
  <2>3. h2 \in [Regions -> Handles]
    <3>1. \A s \in Regions : h2[s] \in Handles
      <4>1. \A s \in Regions : hd[t][s] \in Handles
        BY <2>1
      <4>2. \A s \in Regions : s = p => p # None
        BY Zenon, NoneIsNone
      <4> QED BY Zenon, <1>7, <1>8, <2>2, <4>1, <4>2
    <3> QED BY Zenon, <3>1
  <2> HIDE DEF h2
  <2>4. hd' = [hd EXCEPT ![t] = h2]
    BY Zenon, <1>4 DEF h2
  <2> QED BY <2>1, <2>2, <2>3, <2>4
<1>10. ASSUME NEW v \in Threads, NEW s \in Regions, s # r PROVE SameBut(v, s, r, p)
  <2>1. CASE v = t /\ s = p
    <3>1. p # None /\ p \in created
      BY Zenon, <1>5, <2>1, NoneIsNone
    <3>2. hd'[v][s] = linked /\ hd[v][s] = old
      BY Zenon, <1>9, <2>1, <3>1
    <3> HIDE DEF old
    <3> QED BY <1>8, <2>1, <3>1, <3>2 DEF SameBut
  <2>2. CASE ~(v = t /\ s = p)
    <3>1. hd'[v][s] = hd[v][s]
      BY Zenon, <1>9, <1>10, <2>2
    <3> QED BY Zenon, <3>1 DEF SameBut
  <2> QED BY Zenon, <2>1, <2>2
<1> QED BY Zenon, <1>5, <1>7, <1>9, <1>10

\* _new_xregion: the new handle is one further down than its parent.
LEMMA NewXregionKeeps ==
    ASSUME Counting, ~ReadsBelow, IInv, NEW t \in Threads, NEW r \in Regions,
           NEW p \in Regions \cup {None}, NewXregion(t, r, p)
    PROVE  IInv'
<1>1. TypeOK /\ Fresh /\ Unborn /\ LockWords /\ TreeExclusion /\ FreedOnce
  BY Zenon DEF IInv
<1>2. PICK rank \in [Regions -> Nat] : Layered(rank)
  BY Zenon DEF IInv
<1>3. /\ depth[t] # -1 /\ r \notin created /\ created' = created \cup {r}
      /\ wr_cv' = [wr_cv EXCEPT ![r] = t] /\ g_rcnt' = [g_rcnt EXCEPT ![r] = 1]
      /\ UNCHANGED <<rd_cnt, frees, todo, depth, quit>>
  <2>1. /\ Idle(t) /\ r \notin created /\ created' = created \cup {r}
        /\ wr_cv' = [wr_cv EXCEPT ![r] = t] /\ g_rcnt' = [g_rcnt EXCEPT ![r] = 1]
        /\ UNCHANGED <<rd_cnt, frees, todo, depth, quit>>
    BY Zenon DEF NewXregion
  <2>2. depth[t] >= 0
    BY Zenon, <2>1 DEF Idle
  <2>3. depth[t] # -1
    BY <2>2
  <2> QED BY Zenon, <2>1, <2>2, <2>3
<1>4. /\ hd' \in [Threads -> [Regions -> Handles]] /\ \A v \in Threads \ {t} : hd'[v] = hd[v]
      /\ p # None => p \in Regions /\ p \in created /\ p # r
      /\ hd'[t][r].rcnt = 1 /\ hd'[t][r].wr > 0 /\ hd'[t][r].rd = 0
      /\ hd'[t][r].parent = p /\ hd'[t][r].sub = <<>>
      /\ \A v \in Threads, s \in Regions : s # r => SameBut(v, s, r, p)
  BY Zenon, NewXregionHandles
<1>5. \A v \in Threads, s \in Regions : s # r => /\ hd'[v][s].rcnt = hd[v][s].rcnt
                                               /\ hd'[v][s].wr = hd[v][s].wr
                                               /\ hd'[v][s].rd = hd[v][s].rd
  <2> SUFFICES ASSUME NEW v \in Threads, NEW s \in Regions, s # r
               PROVE  /\ hd'[v][s].rcnt = hd[v][s].rcnt
                      /\ hd'[v][s].wr = hd[v][s].wr /\ hd'[v][s].rd = hd[v][s].rd
    BY Zenon
  <2>1. SameBut(v, s, r, p)
    BY Zenon, <1>4
  <2> QED BY Zenon, <2>1 DEF SameBut
<1>6. \A v \in Threads : /\ hd[v][r].rd = 0
                         /\ v # t => /\ hd'[v][r].rcnt = 0 /\ hd'[v][r].wr = 0 /\ hd'[v][r].rd = 0
                                     /\ hd'[v][r].parent = None /\ hd'[v][r].sub = <<>>
  <2>1. /\ NoHandle.rcnt = 0 /\ NoHandle.wr = 0 /\ NoHandle.rd = 0
        /\ NoHandle.parent = None /\ NoHandle.sub = <<>>
    BY DEF NoHandle
  <2>2. \A v \in Threads : hd[v][r] = NoHandle
    BY Zenon, <1>1, <1>3 DEF Fresh
  <2>3. \A v \in Threads : v # t => hd'[v][r] = NoHandle
    BY Zenon, <1>4, <2>2
  <2> QED BY Zenon, <2>1, <2>2, <2>3
<1>13. TypeOK'
  BY <1>1, <1>3, <1>4 DEF TypeOK
<1>14. LockWords'
  <2>1. \A s \in Regions : Readers(s)' = Readers(s)
    <3> SUFFICES ASSUME NEW s \in Regions PROVE Readers(s)' = Readers(s)
      BY Zenon
    <3>1. \A v \in Threads : hd'[v][s].rd = hd[v][s].rd
      BY Zenon, <1>4, <1>5, <1>6
    <3> QED BY Zenon, <3>1 DEF Readers
  <2>2. wr_cv'[r] = t /\ \A s \in Regions : s # r => wr_cv'[s] = wr_cv[s]
    BY <1>1, <1>3 DEF TypeOK
  <2> SUFFICES ASSUME NEW s \in Regions
               PROVE  /\ \A v \in Threads : wr_cv'[s] = v <=> hd'[v][s].wr > 0
                      /\ rd_cnt'[s] = Cardinality(Readers(s)')
    BY Zenon DEF LockWords
  <2>3. rd_cnt'[s] = Cardinality(Readers(s)')
    <3>1. rd_cnt[s] = Cardinality(Readers(s)) /\ rd_cnt' = rd_cnt /\ Readers(s)' = Readers(s)
      BY Zenon, <1>1, <1>3, <2>1 DEF LockWords
    <3> QED BY <3>1
  <2>4. ASSUME NEW v \in Threads PROVE wr_cv'[s] = v <=> hd'[v][s].wr > 0
    <3>1. CASE s = r
      <4>1. v # t => hd'[v][r].wr = 0
        BY Zenon, <1>6
      <4>2. hd'[t][r].wr > 0
        BY Zenon, <1>4
      <4> QED BY <2>2, <3>1, <4>1, <4>2
    <3>2. CASE s # r
      <4>1. hd'[v][s].wr = hd[v][s].wr /\ wr_cv'[s] = wr_cv[s]
        BY Zenon, <1>5, <2>2, <3>2
      <4>2. wr_cv[s] = v <=> hd[v][s].wr > 0
        BY Zenon, <1>1 DEF LockWords
      <4> QED BY <4>1, <4>2
    <3> QED BY Zenon, <3>1, <3>2
  <2> QED BY Zenon, <2>3, <2>4
<1>15. TreeExclusion'
  <2> SUFFICES ASSUME NEW s \in Regions, NEW v \in Threads, NEW u \in Threads, v # u,
                      hd'[v][s].wr > 0
               PROVE  hd'[u][s].wr = 0 /\ hd'[u][s].rd = 0
    BY Zenon DEF TreeExclusion
  <2>1. CASE s # r
    <3>1. hd'[v][s].wr = hd[v][s].wr /\ hd'[u][s].wr = hd[u][s].wr /\ hd'[u][s].rd = hd[u][s].rd
      BY Zenon, <1>5, <2>1
    <3>2. hd[v][s].wr > 0
      BY Zenon, <3>1
    <3> QED BY Zenon, <1>1, <3>1, <3>2 DEF TreeExclusion
  <2>2. CASE s = r
    <3>1. v = t
      <4>1. v # t => hd'[v][r].wr = 0
        BY Zenon, <1>6
      <4> QED BY <2>2, <4>1
    <3> QED BY Zenon, <1>6, <2>2, <3>1
  <2> QED BY Zenon, <2>1, <2>2
<1>16. FreedOnce'
  <2> DEFINE Users(s) == {v \in Threads : hd[v][s].rcnt > 0}
             Users2(s) == {v \in Threads : hd'[v][s].rcnt > 0}
  <2> SUFFICES ASSUME NEW s \in Regions
               PROVE  /\ g_rcnt'[s] = Cardinality(Users2(s))
                      /\ frees'[s] = IF s \in created' /\ g_rcnt'[s] = 0 THEN 1 ELSE 0
    BY Zenon DEF FreedOnce
  <2>1. /\ g_rcnt[s] = Cardinality(Users(s))
        /\ frees[s] = IF s \in created /\ g_rcnt[s] = 0 THEN 1 ELSE 0
    BY Zenon, <1>1 DEF FreedOnce
  <2>2. CASE s = r
    <3>1. hd'[t][r].rcnt > 0 /\ \A v \in Threads : v # t => ~(hd'[v][r].rcnt > 0)
      BY <1>4, <1>6
    <3>2. Users2(r) = {t}
      BY Zenon, <3>1
    <3>3. Cardinality({t}) = 1
      BY Zenon DEF Counting, Singles
    <3>4. g_rcnt'[r] = 1 /\ frees' = frees
      BY <1>1, <1>3 DEF TypeOK
    <3>5. frees[r] = 0
      BY Zenon, <1>3, <2>1, <2>2
    <3> HIDE DEF Users2
    <3> QED BY <2>2, <3>2, <3>3, <3>4, <3>5
  <2>3. CASE s # r
    <3>1. \A v \in Threads : hd'[v][s].rcnt = hd[v][s].rcnt
      BY Zenon, <1>5, <2>3
    <3>2. Users2(s) = Users(s)
      BY Zenon, <3>1
    <3>3. g_rcnt'[s] = g_rcnt[s] /\ frees' = frees /\ (s \in created' <=> s \in created)
      BY <1>1, <1>3, <2>3 DEF TypeOK
    <3> HIDE DEF Users, Users2
    <3> QED BY <2>1, <3>2, <3>3
  <2> QED BY Zenon, <2>2, <2>3
<1>17. Fresh'
  <2>1. ASSUME NEW v \in Threads, NEW s \in Regions
        PROVE  /\ s \notin created' => hd'[v][s] = NoHandle
               /\ hd'[v][s].parent \in created' \cup {None}
               /\ \A i \in DOMAIN hd'[v][s].sub : hd'[v][s].sub[i] \in created'
    <3>1. CASE s = r
      <4>1. hd'[v][s].parent \in {p, None} /\ hd'[v][s].sub = <<>>
        BY Zenon, <1>4, <1>6, <3>1
      <4> QED BY <1>3, <1>4, <3>1, <4>1
    <3>2. CASE s # r
      <4>1. /\ s \notin created => hd[v][s] = NoHandle
            /\ hd[v][s].parent \in created \cup {None}
            /\ \A i \in DOMAIN hd[v][s].sub : hd[v][s].sub[i] \in created
        BY Zenon, <1>1 DEF Fresh
      <4>2. SameBut(v, s, r, p)
        BY Zenon, <1>4, <3>2
      <4>3. s \notin created' => hd'[v][s] = NoHandle
        BY Zenon, <1>3, <4>1, <4>2 DEF SameBut
      <4>4. hd'[v][s].parent \in created' \cup {None}
        BY Zenon, <1>3, <4>1, <4>2 DEF SameBut
      <4>5. \A i \in DOMAIN hd'[v][s].sub : hd'[v][s].sub[i] \in created'
        BY Zenon, <1>3, <4>1, <4>2 DEF SameBut
      <4> QED BY Zenon, <4>3, <4>4, <4>5
    <3> QED BY Zenon, <3>1, <3>2
  <2>2. \A s \in Regions \ created' : wr_cv'[s] = None
    BY <1>1, <1>3 DEF Fresh, TypeOK
  <2>3. \A v \in Threads : \A i \in DOMAIN todo'[v] :
            todo'[v][i][1] # "create" => todo'[v][i][2] \in created'
    BY Zenon, <1>1, <1>3 DEF Fresh
  <2> QED BY Zenon, <2>1, <2>2, <2>3 DEF Fresh
<1>18. Unborn'
  <2>1. \A u \in Threads : Expected(u) => Expected(u)'
    BY Zenon, <1>3 DEF Expected
  <2>2. \A u \in Threads : depth[u] = -1 => hd'[u] = hd[u]
    BY Zenon, <1>3, <1>4
  <2> SUFFICES ASSUME NEW u \in Threads, depth'[u] = -1
               PROVE  /\ todo'[u] = <<>>
                      /\ \A s \in Regions : /\ hd'[u][s].wr = 0 /\ hd'[u][s].rd = 0
                                            /\ hd'[u][s].rcnt > 0 => Expected(u)'
    BY Zenon DEF Unborn
  <2>3. depth[u] = -1 /\ todo'[u] = todo[u] /\ hd'[u] = hd[u]
    BY Zenon, <1>3, <2>2
  <2> QED BY Zenon, <1>1, <2>1, <2>3 DEF Unborn
<1>19. \E rank2 \in [Regions -> Nat] : Layered(rank2)'
  <2> DEFINE rank2 == [rank EXCEPT ![r] = IF p = None THEN 0 ELSE rank[p] + 1]
  <2>1. /\ rank2 \in [Regions -> Nat] /\ \A s \in Regions \ {r} : rank2[s] = rank[s]
        /\ p # None => rank2[p] < rank2[r]
    BY <1>4
  <2> HIDE DEF rank2
  <2>2. \A s \in created : s \in Regions \ {r} /\ rank2[s] = rank[s]
    BY <1>1, <1>3, <2>1 DEF TypeOK
  <2> SUFFICES ASSUME NEW v \in Threads
               PROVE  Ranked(hd'[v], rank2) /\ Pending(todo[v], hd'[v], rank2)
    BY Zenon, <1>3, <2>1 DEF Layered
  <2>3. Ranked(hd[v], rank) /\ Pending(todo[v], hd[v], rank) /\ todo[v] \in Seq(Todo)
    BY Zenon, <1>1, <1>2 DEF Layered, TypeOK
  <2>4. Ranked(hd'[v], rank2)
    <3>1. ASSUME NEW s \in Regions
          PROVE  /\ hd'[v][s].parent # None => rank2[hd'[v][s].parent] < rank2[s]
                 /\ \A i \in DOMAIN hd'[v][s].sub : rank2[s] < rank2[hd'[v][s].sub[i]]
      <4>1. CASE s = r
        <5>1. hd'[v][s].parent \in {p, None} /\ hd'[v][s].sub = <<>>
          BY Zenon, <1>4, <1>6, <4>1
        <5> QED BY <2>1, <4>1, <5>1
      <4>2. CASE s # r
        <5>1. /\ hd[v][s].parent # None => rank[hd[v][s].parent] < rank[s]
              /\ \A i \in DOMAIN hd[v][s].sub : rank[s] < rank[hd[v][s].sub[i]]
          BY Zenon, <2>3 DEF Ranked
        <5>2. /\ hd[v][s].parent \in created \cup {None}
              /\ \A i \in DOMAIN hd[v][s].sub : hd[v][s].sub[i] \in created
          BY Zenon, <1>1 DEF Fresh
        <5>3. rank2[s] = rank[s]
          BY <2>1, <4>2
        <5>6. SameBut(v, s, r, p)
          BY Zenon, <1>4, <4>2
        <5>4. hd'[v][s].parent # None => rank2[hd'[v][s].parent] < rank2[s]
          <6>1. hd[v][s].parent # None => rank2[hd[v][s].parent] = rank[hd[v][s].parent]
            BY Zenon, <2>2, <5>2
          <6>2. hd'[v][s].parent = hd[v][s].parent
            BY Zenon, <5>6 DEF SameBut
          <6> QED BY Zenon, <5>1, <5>3, <6>1, <6>2
        <5>5. ASSUME NEW i \in DOMAIN hd'[v][s].sub PROVE rank2[s] < rank2[hd'[v][s].sub[i]]
          <6>1. CASE s = p /\ hd'[v][s].sub[i] = r
            <7>1. p # None
              BY Zenon, <6>1, NoneIsNone
            <7> QED BY Zenon, <2>1, <6>1, <7>1
          <6>2. ASSUME NEW k \in DOMAIN hd[v][s].sub, hd'[v][s].sub[i] = hd[v][s].sub[k]
                PROVE  rank2[s] < rank2[hd'[v][s].sub[i]]
            <7>1. rank[s] < rank[hd[v][s].sub[k]]
              BY Zenon, <5>1
            <7>2. rank2[hd[v][s].sub[k]] = rank[hd[v][s].sub[k]]
              BY Zenon, <2>2, <5>2
            <7> QED BY Zenon, <5>3, <6>2, <7>1, <7>2
          <6> QED BY Zenon, <5>6, <6>1, <6>2 DEF SameBut
        <5> QED BY Zenon, <5>4, <5>5
      <4> QED BY Zenon, <4>1, <4>2
    <3> QED BY Zenon, <3>1 DEF Ranked
  <2>5. Pending(todo[v], hd'[v], rank2)
    <3> DEFINE z == todo[v]
    <3> SUFFICES ASSUME NEW j \in DOMAIN z, z[j][1] = "unlink"
                 PROVE  Due(z, j, hd'[v], rank2)
      BY Zenon DEF Pending
    <3> DEFINE y == z[j][2]
    <3>1. \A i \in DOMAIN z : z[i][1] # "create" => z[i][2] \in created
      BY Zenon, <1>1 DEF Fresh
    <3>2. y \in created /\ Due(z, j, hd[v], rank)
      <4>1. "unlink" # "create"
        OBVIOUS
      <4> QED BY Zenon, <2>3, <3>1, <4>1 DEF Pending
    <3>3. \A i \in 1 .. j - 2 : i \in DOMAIN z
      BY <2>3
    <3>4. /\ hd'[v][y].rcnt = hd[v][y].rcnt /\ hd'[v][y].wr = hd[v][y].wr
          /\ hd'[v][y].rd = hd[v][y].rd /\ rank2[y] = rank[y]
      <4>1. y \in Regions /\ y # r /\ rank2[y] = rank[y]
        BY Zenon, <2>2, <3>2
      <4> HIDE DEF y
      <4> QED BY Zenon, <1>5, <4>1
    <3>5. /\ hd[v][y].rcnt > 0
          /\ j = 1 => hd[v][y].wr = 0 /\ hd[v][y].rd = 0
          /\ j > 1 => /\ z[j - 1][1] \in {"lockop", "lock"} /\ z[j - 1][2] = y
                      /\ z[j - 1][3] = <<0, -hd[v][y].wr, -hd[v][y].rd>>
          /\ \A i \in 1 .. j - 2 : z[i][1] # "create" /\ rank[y] < rank[z[i][2]]
      BY Zenon, <3>2 DEF Due
    <3>6. \A i \in 1 .. j - 2 : z[i][1] # "create" /\ rank2[y] < rank2[z[i][2]]
      <4>1. \A i \in 1 .. j - 2 : z[i][1] # "create" /\ rank2[z[i][2]] = rank[z[i][2]]
        BY Zenon, <2>2, <3>1, <3>3, <3>5
      <4> QED BY Zenon, <3>4, <3>5, <4>1
    <3>7. z[j][2] = y
      OBVIOUS
    <3> HIDE DEF y
    <3> QED BY Zenon, <3>4, <3>5, <3>6, <3>7 DEF Due
  <2> QED BY Zenon, <2>4, <2>5
<1> QED BY Zenon, <1>13, <1>14, <1>15, <1>16, <1>17, <1>18, <1>19 DEF IInv

-----------------------------------------------------------------------------
(* Steps that leave the locks or the references alone *)

\* A step that changes no lock keeps the exclusion.
LEMMA SameLocks ==
    ASSUME LockWords, TreeExclusion, wr_cv' = wr_cv, rd_cnt' = rd_cnt,
           \A v \in Threads, p \in Regions : hd'[v][p].wr = hd[v][p].wr /\ hd'[v][p].rd = hd[v][p].rd
    PROVE  LockWords' /\ TreeExclusion'
<1>1. \A p \in Regions : Readers(p)' = Readers(p)
  BY Zenon DEF Readers
<1>2. LockWords'
  <2> SUFFICES ASSUME NEW r \in Regions
               PROVE  /\ \A t \in Threads : wr_cv'[r] = t <=> hd'[t][r].wr > 0
                      /\ rd_cnt'[r] = Cardinality(Readers(r)')
    BY Zenon DEF LockWords
  <2>1. rd_cnt'[r] = Cardinality(Readers(r)')
    BY Zenon, <1>1 DEF LockWords
  <2>2. ASSUME NEW t \in Threads PROVE wr_cv'[r] = t <=> hd'[t][r].wr > 0
    <3>1. hd'[t][r].wr = hd[t][r].wr /\ (wr_cv[r] = t <=> hd[t][r].wr > 0)
      BY Zenon DEF LockWords
    <3> QED BY <3>1
  <2> QED BY Zenon, <2>1, <2>2
<1>3. TreeExclusion'
  <2> SUFFICES ASSUME NEW r \in Regions, NEW t \in Threads, NEW u \in Threads, t # u,
                      hd'[t][r].wr > 0
               PROVE  hd'[u][r].wr = 0 /\ hd'[u][r].rd = 0
    BY Zenon DEF TreeExclusion
  <2>1. hd'[t][r].wr = hd[t][r].wr /\ hd'[u][r].wr = hd[u][r].wr /\ hd'[u][r].rd = hd[u][r].rd
    BY Zenon
  <2>2. hd[t][r].wr > 0
    BY <2>1
  <2> QED BY Zenon, <2>1, <2>2 DEF TreeExclusion
<1> QED BY <1>2, <1>3

\* A step that gives no handle up and makes none keeps the counts of handles.
LEMMA SameUsers ==
    ASSUME FreedOnce, g_rcnt' = g_rcnt, frees' = frees, created' = created,
           \A v \in Threads, p \in Regions : hd'[v][p].rcnt > 0 <=> hd[v][p].rcnt > 0
    PROVE  FreedOnce'
<1>1. \A p \in Regions : {v \in Threads : hd'[v][p].rcnt > 0} = {v \in Threads : hd[v][p].rcnt > 0}
  BY Zenon
<1> QED BY Zenon, <1>1 DEF FreedOnce

\* The program stops at a failed assertion.
LEMMA Stops ==
    ASSUME IInv, UNCHANGED <<shared, hd, todo, depth>>,
           quit' \in {"no", "refcnt", "lockop", "treecopy"}
    PROVE  IInv'
<1>1. UNCHANGED <<wr_cv, rd_cnt, g_rcnt, frees, created, hd, todo, depth>>
  BY DEF shared
<1>2. TypeOK'
  BY <1>1 DEF IInv, TypeOK
<1>3. LockWords' /\ TreeExclusion' /\ FreedOnce'
  BY Zenon, <1>1, SameLocks, SameUsers DEF IInv
<1>4. \A u \in Threads : Expected(u)' = Expected(u)
  BY Zenon, <1>1 DEF Expected
<1>5. Fresh' /\ Unborn'
  BY Zenon, <1>1, <1>4 DEF IInv, Fresh, Unborn
<1>6. \A rank \in [Regions -> Nat] : Layered(rank) => Layered(rank)'
  BY Zenon, <1>1 DEF Layered
<1> QED BY Zenon, <1>2, <1>3, <1>5, <1>6 DEF IInv

\* cap: the call begins.
LEMMA CapKeeps ==
    ASSUME IInv, NEW t \in Threads, NEW r \in Regions, NEW c \in Counts, Cap(t, r, c)
    PROVE  IInv'
<1> DEFINE s == << <<"cap", r, c>> >>
<1>1. TypeOK /\ Fresh /\ Unborn
  BY Zenon DEF IInv
<1>2. PICK rank \in [Regions -> Nat] : Layered(rank)
  BY Zenon DEF IInv
<1>3. /\ depth[t] # -1 /\ todo[t] = <<>> /\ hd[t][r].rcnt > 0
      /\ todo' = [todo EXCEPT ![t] = s]
      /\ UNCHANGED <<wr_cv, rd_cnt, g_rcnt, frees, created, hd, depth, quit>>
  BY DEF Cap, Idle, Live, shared
<1>4. s \in Seq(Todo) /\ DOMAIN s = {1} /\ s[1][1] = "cap" /\ s[1][2] = r /\ "cap" # "unlink"
  BY DEF Todo
<1>5. DOMAIN todo' = Threads /\ todo'[t] = s /\ \A v \in Threads \ {t} : todo'[v] = todo[v]
  BY <1>1, <1>3 DEF TypeOK
<1> HIDE DEF s
<1>6. TypeOK'
  BY <1>1, <1>3, <1>4, <1>5 DEF TypeOK
<1>7. LockWords' /\ TreeExclusion' /\ FreedOnce'
  BY Zenon, <1>3, SameLocks, SameUsers DEF IInv
<1>8. Fresh'
  <2>1. r \in created
    BY Zenon, <1>1, <1>3, LiveCreated
  <2>2. \A v \in Threads : \A i \in DOMAIN todo'[v] :
            todo'[v][i][1] # "create" => todo'[v][i][2] \in created
    <3> SUFFICES ASSUME NEW v \in Threads, NEW i \in DOMAIN todo'[v], todo'[v][i][1] # "create"
                 PROVE  todo'[v][i][2] \in created
      BY Zenon
    <3>1. CASE v = t
      <4>1. todo'[v][i] = s[1]
        BY Zenon, <1>4, <1>5, <3>1
      <4> QED BY Zenon, <1>4, <2>1, <4>1
    <3>2. CASE v # t
      <4>1. todo'[v] = todo[v]
        BY Zenon, <1>5, <3>2
      <4> QED BY Zenon, <1>1, <4>1 DEF Fresh
    <3> QED BY Zenon, <3>1, <3>2
  <2> QED BY Zenon, <1>1, <1>3, <2>2 DEF Fresh
<1>9. Unborn'
  <2>1. \A u \in Threads : Expected(u) => Expected(u)'
    <3>1. DOMAIN <<>> = {}
      OBVIOUS
    <3> SUFFICES ASSUME NEW u \in Threads, Expected(u) PROVE Expected(u)'
      BY Zenon
    <3>2. PICK v \in Threads : \E i \in DOMAIN todo[v] :
              todo[v][i][1] = "create" /\ todo[v][i][2] = u
      BY Zenon DEF Expected
    <3>3. v # t
      BY Zenon, <1>3, <3>1, <3>2
    <3>4. todo'[v] = todo[v]
      BY Zenon, <1>5, <3>3
    <3> QED BY Zenon, <3>2, <3>4 DEF Expected
  <2> SUFFICES ASSUME NEW u \in Threads, depth[u] = -1
               PROVE  /\ todo'[u] = <<>>
                      /\ \A p \in Regions : /\ hd[u][p].wr = 0 /\ hd[u][p].rd = 0
                                            /\ hd[u][p].rcnt > 0 => Expected(u)'
    BY Zenon, <1>3 DEF Unborn
  <2>2. todo'[u] = todo[u]
    BY Zenon, <1>3, <1>5
  <2> QED BY Zenon, <1>1, <2>1, <2>2 DEF Unborn
<1>10. Layered(rank)'
  <2>1. Pending(s, hd[t], rank)
    BY Zenon, <1>4 DEF Pending
  <2> QED BY Zenon, <1>2, <1>3, <1>5, <2>1 DEF Layered
<1> QED BY Zenon, <1>6, <1>7, <1>8, <1>9, <1>10 DEF IInv

-----------------------------------------------------------------------------
(* spawn *)

\* A merged list as spawn may hand it over.
HandedOver(t, o, n) ==
    /\ n \in Nat /\ DOMAIN o = 1 .. n
    /\ \A i \in 1 .. n : /\ o[i][1] \in Regions /\ o[i][2] \in Nat /\ o[i][2] > 0
                         /\ o[i][3] = 0 /\ o[i][4] = 0 /\ hd[t][o[i][1]].rcnt > 0

\* merge_caps: a list of handles with positive counts of references and no locks.
LEMMA MergedFacts ==
    ASSUME Counting, HandsNoLocks, TypeOK, NEW t \in Threads, NEW list \in SpawnLists,
           NEW order \in Orders(t, list)
    PROVE  LET o == Merged(order, list)
               n == Len(order)
           IN /\ n \in Nat /\ DOMAIN o = 1 .. n
              /\ \A i \in 1 .. n : /\ o[i][1] \in Regions /\ o[i][2] \in Nat
                                   /\ o[i][3] = 0 /\ o[i][4] = 0
<1> DEFINE S == Listed(list)
           first == [i \in DOMAIN list |-> list[i][1]]
           o == Merged(order, list)
<1>1. list \in Seq(Regions \X Nat \X Nat \X Nat)
  BY Zenon, TreeAssumption
<1>2. S \subseteq Regions
  BY <1>1 DEF Listed
<1>3. IsFiniteSet(S)
  BY <1>2, TreeAssumption DEF Counting, Subsets
<1>4. order \in [1 .. Cardinality(S) -> S]
  BY Zenon DEF Orders, Bijection, Injection
<1>5. Cardinality(S) \in Nat
  BY Zenon, <1>3 DEF Counting, Sizes
<1> HIDE DEF S
<1>6. order \in Seq(Regions) /\ Len(order) = Cardinality(S) /\ DOMAIN order = 1 .. Cardinality(S)
  <2>1. order \in [1 .. Cardinality(S) -> Regions] /\ DOMAIN order = 1 .. Cardinality(S)
    BY <1>2, <1>4
  <2> QED BY <1>5, <2>1
<1>7. DOMAIN o = 1 .. Len(order)
  BY <1>6 DEF Merged
<1>8. ASSUME NEW i \in 1 .. Len(order)
      PROVE  o[i][1] \in Regions /\ o[i][2] \in Nat /\ o[i][3] = 0 /\ o[i][4] = 0
  <2>1. order[i] \in Regions
    BY <1>6
  <2>2. o[i] = <<order[i], Total(list, order[i], 2), Total(list, order[i], 3),
                 Total(list, order[i], 4)>>
    BY <1>6 DEF Merged
  <2>3. Total(list, order[i], 2) \in Nat
    <3>1. 2 \in 2 .. 4
      OBVIOUS
    <3> QED BY Zenon, <2>1, <3>1, TreeAssumption
  <2>4. Total(list, order[i], 3) = 0 /\ Total(list, order[i], 4) = 0
    BY Zenon, <2>1 DEF HandsNoLocks
  <2> HIDE DEF o
  <2> QED BY <2>1, <2>2, <2>3, <2>4
<1> QED BY <1>5, <1>6, <1>7, <1>8

\* The handles that __treecopy builds have references and no locks, and parents and
\* sub-keys as the handles they are copied from.
LEMMA NewTreeFacts ==
    ASSUME Counting, TypeOK, NEW t \in Threads, NEW o, NEW n, HandedOver(t, o, n)
    PROVE  /\ NewTree(t, o) \in [Regions -> Handles]
           /\ \A r \in Regions \ Listed(o) : NewTree(t, o)[r] = NoHandle
           /\ \A r \in Listed(o) :
                 LET k == NewTree(t, o)[r]
                 IN /\ k.rcnt > 0 /\ k.wr = 0 /\ k.rd = 0 /\ k.parent \in {hd[t][r].parent, None}
                    /\ \A i \in DOMAIN k.sub : k.sub[i] \in Listed(o) /\ hd[t][k.sub[i]].parent = r
<1>1. /\ n \in Nat /\ DOMAIN o = 1 .. n
      /\ \A i \in 1 .. n : o[i][1] \in Regions /\ o[i][2] \in Nat /\ o[i][2] > 0
                           /\ o[i][3] = 0 /\ o[i][4] = 0
  BY Zenon DEF HandedOver
<1>2. \A r \in Regions \ Listed(o) : NewTree(t, o)[r] = NoHandle
  BY Zenon DEF NewTree
<1>3. NoHandle \in Handles
  BY DEF NoHandle, Handles
<1>4. ASSUME NEW r \in Listed(o)
      PROVE  LET k == NewTree(t, o)[r]
             IN /\ r \in Regions /\ k \in Handles
                /\ k.rcnt > 0 /\ k.wr = 0 /\ k.rd = 0 /\ k.parent \in {hd[t][r].parent, None}
                /\ \A i \in DOMAIN k.sub : k.sub[i] \in Listed(o) /\ hd[t][k.sub[i]].parent = r
  <2> DEFINE i == CHOOSE j \in DOMAIN o : o[j][1] = r
             S == {j \in DOMAIN o : hd[t][o[j][1]].parent = r}
             subs == Descending(S)
             par == IF hd[t][r].parent \in Listed(o) THEN hd[t][r].parent ELSE None
             sub == [k \in DOMAIN subs |-> o[subs[k]][1]]
             k2 == [rcnt |-> o[i][2], wr |-> o[i][3], rd |-> o[i][4], parent |-> par,
                    sub |-> sub, addr |-> i]
  <2>1. i \in 1 .. n /\ o[i][1] = r /\ r \in Regions /\ i \in Int
    <3>1. \E j \in DOMAIN o : o[j][1] = r
      BY Zenon DEF Listed
    <3>2. i \in DOMAIN o /\ o[i][1] = r
      BY Zenon, <3>1
    <3> QED BY <1>1, <3>2
  <2>2. NewTree(t, o)[r] = k2
    BY Zenon, <2>1 DEF NewTree
  <2>3. par \in Regions \cup {None} /\ par \in {hd[t][r].parent, None}
    <3>1. Listed(o) \subseteq Regions
      BY Zenon, <1>1 DEF Listed
    <3> QED BY Zenon, <3>1
  <2>4. S \in SUBSET Nat /\ IsFiniteSet(S)
    <3>1. S \in SUBSET (1 .. n) /\ S \in SUBSET Nat
      BY <1>1
    <3>2. IsFiniteSet(1 .. n)
      BY <1>1 DEF Counting, Intervals
    <3> QED BY Zenon, <3>1, <3>2 DEF Counting, Subsets
  <2>5. /\ Cardinality(S) \in Nat /\ DOMAIN subs = 1 .. Cardinality(S)
        /\ \A k \in 1 .. Cardinality(S) : subs[k] \in S
    BY Zenon, <2>4 DEF Counting, Listing
  <2> HIDE DEF i, subs, par
  <2>6. DOMAIN sub = 1 .. Cardinality(S)
    BY Zenon, <2>5
  <2>7. \A k \in 1 .. Cardinality(S) : /\ sub[k] \in Regions /\ sub[k] \in Listed(o)
                                       /\ hd[t][sub[k]].parent = r
    <3> SUFFICES ASSUME NEW k \in 1 .. Cardinality(S)
                 PROVE  sub[k] \in Regions /\ sub[k] \in Listed(o) /\ hd[t][sub[k]].parent = r
      BY Zenon
    <3>1. sub[k] = o[subs[k]][1] /\ subs[k] \in DOMAIN o /\ hd[t][o[subs[k]][1]].parent = r
      BY Zenon, <2>5
    <3> QED BY Zenon, <1>1, <3>1 DEF Listed
  <2>8. sub \in Seq(Regions)
    <3>1. sub \in [1 .. Cardinality(S) -> Regions]
      BY Zenon, <2>5, <2>7
    <3> HIDE DEF sub, S
    <3> QED BY <2>5, <3>1
  <2> HIDE DEF sub, S
  <2>9. k2 \in Handles /\ k2.rcnt > 0 /\ k2.wr = 0 /\ k2.rd = 0 /\ k2.parent = par /\ k2.sub = sub
    BY <1>1, <2>1, <2>3, <2>8 DEF Handles
  <2> HIDE DEF k2
  <2> QED BY Zenon, <2>1, <2>2, <2>3, <2>6, <2>7, <2>9
<1>5. NewTree(t, o) \in [Regions -> Handles]
  <2>1. \A r \in Regions : NewTree(t, o)[r] \in Handles
    BY Zenon, <1>2, <1>3, <1>4
  <2>2. NewTree(t, o) = [r \in Regions |-> NewTree(t, o)[r]]
    BY Zenon DEF NewTree
  <2> QED BY Zenon, <2>1, <2>2
<1> QED BY Zenon, <1>2, <1>4, <1>5

\* Two lists, one after the other.
LEMMA Joined ==
    ASSUME NEW a \in Seq(Todo), NEW b \in Seq(Todo)
    PROVE  LET n == Len(a) m == Len(b)
           IN /\ n \in Nat /\ m \in Nat
              /\ a \o b \in Seq(Todo) /\ Len(a \o b) = n + m /\ DOMAIN (a \o b) = 1 .. n + m
              /\ \A i \in 1 .. n : (a \o b)[i] = a[i]
              /\ \A i \in 1 .. m : (a \o b)[n + i] = b[i]
OBVIOUS

\* What is left to do after __treecopy: give up references, then start the thread.
LEMMA AfterCopyFacts ==
    ASSUME TypeOK, NEW t \in Threads, NEW o, NEW n, HandedOver(t, o, n), NEW u \in Threads
    PROVE  LET s == AfterCopy(o, u)
           IN /\ s \in Seq(Todo) /\ Len(s) = n + 1 /\ DOMAIN s = 1 .. n + 1
              /\ \A i \in 1 .. n : s[i][1] = "cap" /\ s[i][2] \in Listed(o)
              /\ s[n + 1][1] = "create" /\ s[n + 1][2] = u
<1> DEFINE b == [i \in DOMAIN o |-> LET e == o[Len(o) - i + 1]
                                    IN <<"cap", e[1], <<-e[2], -e[3], -e[4]>>>>]
           d == << <<"create", u, <<0, 0, 0>>>> >>
<1>1. /\ n \in Nat /\ DOMAIN o = 1 .. n
      /\ \A i \in 1 .. n : o[i][1] \in Regions /\ o[i][2] \in Nat
                           /\ o[i][3] = 0 /\ o[i][4] = 0
  BY Zenon DEF HandedOver
<1>2. Len(o) = n
  BY <1>1
<1>3. \A i \in 1 .. n : n - i + 1 \in 1 .. n
  BY <1>1
<1>4. ASSUME NEW i \in 1 .. n PROVE b[i] \in Todo /\ b[i][1] = "cap" /\ b[i][2] \in Listed(o)
  <2> DEFINE e == o[n - i + 1]
  <2>1. e[1] \in Regions /\ e[1] \in Listed(o) /\ e[2] \in Nat /\ e[3] = 0 /\ e[4] = 0
    BY Zenon, <1>1, <1>3 DEF Listed
  <2>2. b[i] = <<"cap", e[1], <<-e[2], -e[3], -e[4]>>>>
    BY Zenon, <1>1, <1>2
  <2> HIDE DEF e, b
  <2> QED BY <2>1, <2>2 DEF Todo, Counts
<1>5. b \in Seq(Todo) /\ Len(b) = n
  <2>1. b \in [1 .. n -> Todo]
    BY Zenon, <1>1, <1>4
  <2> HIDE DEF b
  <2> QED BY <1>1, <2>1
<1> HIDE DEF b
<1>6. d \in Seq(Todo) /\ Len(d) = 1 /\ d[1] = <<"create", u, <<0, 0, 0>>>>
  <2>1. <<"create", u, <<0, 0, 0>>>> \in Todo
    BY DEF Todo, Counts
  <2> QED BY <2>1
<1> HIDE DEF d
<1>7. /\ b \o d \in Seq(Todo) /\ Len(b \o d) = n + 1
      /\ \A i \in 1 .. n : (b \o d)[i] = b[i]
      /\ (b \o d)[n + 1] = d[1]
  <2>1. /\ b \o d \in Seq(Todo) /\ Len(b \o d) = Len(b) + Len(d)
        /\ \A i \in 1 .. Len(b) : (b \o d)[i] = b[i]
        /\ \A i \in 1 .. Len(d) : (b \o d)[Len(b) + i] = d[i]
    BY Zenon, <1>5, <1>6, Joined
  <2>2. Len(b) = n /\ Len(d) = 1 /\ 1 \in 1 .. 1
    BY <1>5, <1>6
  <2> QED BY Zenon, <2>1, <2>2
<1>8. DOMAIN (b \o d) = 1 .. n + 1
  BY <1>1, <1>7
<1>9. AfterCopy(o, u) = b \o d
  BY Zenon DEF AfterCopy, b, d
<1>11. d[1][1] = "create" /\ d[1][2] = u
  BY <1>6
<1> QED BY Zenon, <1>4, <1>7, <1>8, <1>9, <1>11

\* _xspawn up to the release loop of __treecopy.
LEMMA SpawnKeeps ==
    ASSUME Counting, HandsNoLocks, IInv, NEW t \in Threads, NEW u \in Threads, NEW list \in SpawnLists,
           Spawn(t, u, list)
    PROVE  IInv'
<1>1. TypeOK /\ Fresh /\ Unborn /\ LockWords /\ TreeExclusion /\ FreedOnce
  BY Zenon DEF IInv
<1>2. PICK rank \in [Regions -> Nat] : Layered(rank)
  BY Zenon DEF IInv
<1>3. /\ depth[t] # -1 /\ todo[t] = <<>> /\ depth[u] = -1 /\ u # t
      /\ \A v \in Threads : \A i \in DOMAIN todo[v] : todo[v][i][2] # u
      /\ UNCHANGED <<frees, created, depth>>
  BY DEF Spawn, Idle
<1>4. PICK order \in Orders(t, list) :
          LET o == Merged(order, list)
          IN /\ Owns(t, o)
             /\ hd' = [hd EXCEPT ![u] = NewTree(t, o)]
             /\ g_rcnt' = [r \in Regions |-> g_rcnt[r] + IF r \in Listed(o) THEN 1 ELSE 0]
             /\ wr_cv' = [r \in Regions |-> IF Given(o, r, 3) THEN u ELSE wr_cv[r]]
             /\ rd_cnt' = [r \in Regions |-> rd_cnt[r] + IF Given(o, r, 4) THEN 1 ELSE 0]
             /\ quit' = IF \E r \in Regions : Given(o, r, 3) /\ wr_cv[r] # t
                        THEN "treecopy" ELSE "no"
             /\ todo' = [todo EXCEPT ![t] = AfterCopy(o, u)]
  BY Zenon DEF Spawn
<1> DEFINE o == Merged(order, list)
           n == Len(order)
           tree == NewTree(t, o)
           s == AfterCopy(o, u)
<1>5. HandedOver(t, o, n)
  <2>1. /\ n \in Nat /\ DOMAIN o = 1 .. n
        /\ \A i \in 1 .. n : /\ o[i][1] \in Regions /\ o[i][2] \in Nat
                             /\ o[i][3] = 0 /\ o[i][4] = 0
    BY Zenon, <1>1, MergedFacts
  <2>2. Owns(t, o)
    BY Zenon, <1>4
  <2> HIDE DEF o, n
  <2>3. ASSUME NEW i \in 1 .. n PROVE o[i][2] > 0 /\ hd[t][o[i][1]].rcnt > 0
    <3>1. hd[t][o[i][1]].rcnt \in Nat
      BY <1>1, <2>1 DEF TypeOK, Handles
    <3>2. o[i][2] \in 1 .. hd[t][o[i][1]].rcnt
      BY Zenon, <2>1, <2>2 DEF Owns
    <3> QED BY <3>1, <3>2
  <2> QED BY Zenon, <2>1, <2>3 DEF HandedOver
<1> HIDE DEF o, n
<1>6. /\ tree \in [Regions -> Handles]
      /\ \A r \in Regions \ Listed(o) : tree[r] = NoHandle
      /\ \A r \in Listed(o) :
            LET k == tree[r]
            IN /\ k.rcnt > 0 /\ k.wr = 0 /\ k.rd = 0 /\ k.parent \in {hd[t][r].parent, None}
               /\ \A i \in DOMAIN k.sub : k.sub[i] \in Listed(o) /\ hd[t][k.sub[i]].parent = r
  BY <1>1, <1>5, NewTreeFacts
<1>7. /\ s \in Seq(Todo) /\ n \in Nat /\ DOMAIN s = 1 .. n + 1
      /\ \A i \in 1 .. n : s[i][1] = "cap" /\ s[i][2] \in Listed(o)
      /\ s[n + 1][1] = "create" /\ s[n + 1][2] = u
  <2>1. n \in Nat
    BY Zenon, <1>5 DEF HandedOver
  <2> QED BY <1>1, <1>5, <2>1, AfterCopyFacts
<1>8. \A r \in Regions : ~Given(o, r, 3) /\ ~Given(o, r, 4)
  BY Zenon, <1>5 DEF Given, HandedOver
<1>9. \A r \in Listed(o) : r \in Regions /\ hd[t][r].rcnt > 0
  BY Zenon, <1>5 DEF Listed, HandedOver
<1>10. /\ hd' = [hd EXCEPT ![u] = tree] /\ todo' = [todo EXCEPT ![t] = s]
       /\ g_rcnt' = [r \in Regions |-> g_rcnt[r] + IF r \in Listed(o) THEN 1 ELSE 0]
       /\ wr_cv' = wr_cv /\ rd_cnt' = rd_cnt /\ quit' = "no"
  <2>1. wr_cv' = [r \in Regions |-> wr_cv[r]]
    BY Zenon, <1>4, <1>8 DEF o
  <2>2. rd_cnt' = [r \in Regions |-> rd_cnt[r] + 0]
    BY Zenon, <1>4, <1>8 DEF o
  <2>3. quit' = "no"
    BY Zenon, <1>4, <1>8 DEF o
  <2>4. wr_cv' = wr_cv /\ rd_cnt' = rd_cnt
    BY <1>1, <2>1, <2>2 DEF TypeOK
  <2> QED BY Zenon, <1>4, <2>3, <2>4 DEF o
<1> HIDE DEF tree, s
<1>11. /\ hd'[u] = tree /\ \A v \in Threads \ {u} : hd'[v] = hd[v]
       /\ todo'[t] = s /\ \A v \in Threads \ {t} : todo'[v] = todo[v]
       /\ DOMAIN todo' = Threads /\ hd' \in [Threads -> [Regions -> Handles]]
  BY <1>1, <1>6, <1>10 DEF TypeOK
<1>12. NoHandle.rcnt = 0 /\ NoHandle.wr = 0 /\ NoHandle.rd = 0
       /\ NoHandle.parent = None /\ NoHandle.sub = <<>> /\ DOMAIN <<>> = {}
  BY DEF NoHandle
<1>13. \A r \in Regions : r \in Listed(o) \/ tree[r] = NoHandle
  BY Zenon, <1>6
<1>14. \A r \in Regions : tree[r].wr = 0 /\ tree[r].rd = 0
  BY Zenon, <1>6, <1>12, <1>13
<1>15. \A r \in Regions : hd[u][r].wr = 0 /\ hd[u][r].rd = 0 /\ ~(hd[u][r].rcnt > 0)
  BY Zenon, <1>1, <1>3 DEF Unborn, Expected
<1>16. TypeOK'
  <2>1. g_rcnt' \in [Regions -> Nat]
    BY <1>1, <1>10 DEF TypeOK
  <2>2. \A v \in Threads : todo'[v] \in Seq(Todo)
    BY Zenon, <1>1, <1>7, <1>11 DEF TypeOK
  <2> QED BY <1>1, <1>3, <1>10, <1>11, <2>1, <2>2 DEF TypeOK
<1>17. LockWords' /\ TreeExclusion'
  <2>1. \A v \in Threads, r \in Regions : hd'[v][r].wr = hd[v][r].wr /\ hd'[v][r].rd = hd[v][r].rd
    <3> SUFFICES ASSUME NEW v \in Threads, NEW r \in Regions
                 PROVE  hd'[v][r].wr = hd[v][r].wr /\ hd'[v][r].rd = hd[v][r].rd
      BY Zenon
    <3>1. CASE v = u
      BY Zenon, <1>11, <1>14, <1>15, <3>1
    <3>2. CASE v # u
      <4>1. hd'[v] = hd[v]
        BY Zenon, <1>11, <3>2
      <4> QED BY Zenon, <4>1
    <3> QED BY Zenon, <3>1, <3>2
  <2> QED BY Zenon, <1>1, <1>10, <2>1, SameLocks
<1>18. FreedOnce'
  <2> DEFINE Users(r) == {v \in Threads : hd[v][r].rcnt > 0}
             Users2(r) == {v \in Threads : hd'[v][r].rcnt > 0}
  <2>1. \A r \in Regions : /\ g_rcnt[r] = Cardinality(Users(r)) /\ g_rcnt[r] \in Nat
                           /\ frees[r] = IF r \in created /\ g_rcnt[r] = 0 THEN 1 ELSE 0
    BY Zenon, <1>1 DEF FreedOnce, TypeOK
  <2>2. \A r \in Regions : IsFiniteSet(Users(r)) /\ u \notin Users(r)
    <3>1. \A r \in Regions : Users(r) \in SUBSET Threads
      BY Zenon
    <3> QED BY Zenon, <1>15, <3>1, TreeAssumption DEF Counting, Subsets
  <2>3. \A r \in Listed(o) : Users2(r) = Users(r) \cup {u} /\ t \in Users(r)
    <3> SUFFICES ASSUME NEW r \in Listed(o)
                 PROVE  Users2(r) = Users(r) \cup {u} /\ t \in Users(r)
      BY Zenon
    <3>1. r \in Regions /\ hd[t][r].rcnt > 0
      BY Zenon, <1>9
    <3>2. hd'[u][r].rcnt > 0
      BY Zenon, <1>6, <1>11
    <3>3. \A v \in Threads \ {u} : hd'[v][r].rcnt = hd[v][r].rcnt
      BY Zenon, <1>11
    <3>4. \A v \in Threads : hd'[v][r].rcnt > 0 <=> v = u \/ hd[v][r].rcnt > 0
      BY Zenon, <3>2, <3>3
    <3> QED BY Zenon, <3>1, <3>4
  <2>4. \A r \in Regions \ Listed(o) : Users2(r) = Users(r)
    <3>1. ~(0 > 0)
      OBVIOUS
    <3> SUFFICES ASSUME NEW r \in Regions \ Listed(o) PROVE Users2(r) = Users(r)
      BY Zenon
    <3>2. ~(hd'[u][r].rcnt > 0) /\ ~(hd[u][r].rcnt > 0)
      <4>1. hd'[u][r] = NoHandle
        BY Zenon, <1>6, <1>11
      <4> QED BY Zenon, <1>12, <1>15, <3>1, <4>1
    <3>3. \A v \in Threads \ {u} : hd'[v][r].rcnt = hd[v][r].rcnt
      BY Zenon, <1>11
    <3>4. \A v \in Threads : hd'[v][r].rcnt > 0 <=> hd[v][r].rcnt > 0
      BY Zenon, <3>2, <3>3
    <3> QED BY Zenon, <3>4
  <2> HIDE DEF Users, Users2
  <2>5. \A r \in Listed(o) : /\ g_rcnt'[r] = Cardinality(Users2(r))
                             /\ frees'[r] = IF r \in created' /\ g_rcnt'[r] = 0 THEN 1 ELSE 0
    <3> SUFFICES ASSUME NEW r \in Listed(o)
                 PROVE  /\ g_rcnt'[r] = Cardinality(Users2(r))
                        /\ frees'[r] = IF r \in created' /\ g_rcnt'[r] = 0 THEN 1 ELSE 0
      BY Zenon
    <3>1. r \in Regions /\ g_rcnt'[r] = g_rcnt[r] + 1
      BY <1>9, <1>10
    <3>2. Cardinality(Users2(r)) = Cardinality(Users(r)) + 1
      BY <2>2, <2>3, <3>1 DEF Counting, Added
    <3>3. Cardinality(Users(r)) # 0
      BY <2>2, <2>3, <3>1 DEF Counting, Sizes
    <3> QED BY <1>3, <2>1, <3>1, <3>2, <3>3
  <2>6. \A r \in Regions \ Listed(o) :
            /\ g_rcnt'[r] = Cardinality(Users2(r))
            /\ frees'[r] = IF r \in created' /\ g_rcnt'[r] = 0 THEN 1 ELSE 0
    <3>1. \A r \in Regions \ Listed(o) : g_rcnt'[r] = g_rcnt[r]
      BY <2>1, <1>10
    <3> QED BY Zenon, <1>3, <2>1, <2>4, <3>1
  <2> QED BY Zenon, <2>5, <2>6 DEF FreedOnce, Users2
<1>19. \A r \in Listed(o) : r \in created
  BY Zenon, <1>1, <1>9, LiveCreated
<1>20. Fresh'
  <2>1. \A r \in Regions : /\ r \notin created => tree[r] = NoHandle
                           /\ tree[r].parent \in created \cup {None}
                           /\ \A i \in DOMAIN tree[r].sub : tree[r].sub[i] \in created
    <3>1. \A r \in Listed(o) : hd[t][r].parent \in created \cup {None}
      BY Zenon, <1>1, <1>9 DEF Fresh
    <3>2. \A r \in Listed(o) : /\ tree[r].parent \in created \cup {None}
                               /\ \A i \in DOMAIN tree[r].sub : tree[r].sub[i] \in created
      BY Zenon, <1>6, <1>19, <3>1
    <3> QED BY Zenon, <1>12, <1>13, <1>19, <3>2
  <2>2. \A v \in Threads : \A i \in DOMAIN todo'[v] :
            todo'[v][i][1] # "create" => todo'[v][i][2] \in created
    <3>1. \A i \in DOMAIN s : s[i][1] # "create" => s[i][2] \in created
      <4>1. \A i \in 1 .. n + 1 : i \in 1 .. n \/ i = n + 1
        BY <1>7
      <4>2. \A i \in 1 .. n : s[i][2] \in created
        BY Zenon, <1>7, <1>19
      <4> QED BY Zenon, <1>7, <4>1, <4>2
    <3>2. \A v \in Threads : \A i \in DOMAIN todo[v] :
              todo[v][i][1] # "create" => todo[v][i][2] \in created
      BY Zenon, <1>1 DEF Fresh
    <3> SUFFICES ASSUME NEW v \in Threads, NEW i \in DOMAIN todo'[v], todo'[v][i][1] # "create"
                 PROVE  todo'[v][i][2] \in created
      BY Zenon
    <3>3. CASE v = t
      BY Zenon, <1>11, <3>1, <3>3
    <3>4. CASE v # t
      <4>1. todo'[v] = todo[v]
        BY Zenon, <1>11, <3>4
      <4> QED BY Zenon, <3>2, <4>1
    <3> QED BY Zenon, <3>3, <3>4
  <2>3. \A v \in Threads, r \in Regions :
            /\ r \notin created => hd'[v][r] = NoHandle
            /\ hd'[v][r].parent \in created \cup {None}
            /\ \A i \in DOMAIN hd'[v][r].sub : hd'[v][r].sub[i] \in created
    <3> SUFFICES ASSUME NEW v \in Threads, NEW r \in Regions
                 PROVE  /\ r \notin created => hd'[v][r] = NoHandle
                        /\ hd'[v][r].parent \in created \cup {None}
                        /\ \A i \in DOMAIN hd'[v][r].sub : hd'[v][r].sub[i] \in created
      BY Zenon
    <3>1. CASE v = u
      <4>1. hd'[v] = tree
        BY Zenon, <1>11, <3>1
      <4> QED BY Zenon, <2>1, <4>1
    <3>2. CASE v # u
      <4>1. hd'[v] = hd[v]
        BY Zenon, <1>11, <3>2
      <4> QED BY Zenon, <1>1, <4>1 DEF Fresh
    <3> QED BY Zenon, <3>1, <3>2
  <2>4. \A r \in Regions \ created : wr_cv[r] = None
    BY Zenon, <1>1 DEF Fresh
  <2>5. created' = created /\ wr_cv' = wr_cv
    BY Zenon, <1>3, <1>10
  <2> QED BY Zenon, <2>2, <2>3, <2>4, <2>5 DEF Fresh
<1>21. Unborn'
  <2>1. \A w \in Threads : Expected(w) => Expected(w)'
    <3> SUFFICES ASSUME NEW w \in Threads, Expected(w) PROVE Expected(w)'
      BY Zenon
    <3>1. PICK v \in Threads : \E i \in DOMAIN todo[v] : todo[v][i][1] = "create" /\ todo[v][i][2] = w
      BY Zenon DEF Expected
    <3>2. v # t
      BY Zenon, <1>3, <1>12, <3>1
    <3>3. todo'[v] = todo[v]
      BY Zenon, <1>11, <3>2
    <3> QED BY Zenon, <3>1, <3>3 DEF Expected
  <2>2. Expected(u)'
    <3>1. n + 1 \in DOMAIN s
      BY <1>7
    <3>2. n + 1 \in DOMAIN todo'[t] /\ todo'[t][n + 1][1] = "create" /\ todo'[t][n + 1][2] = u
      BY Zenon, <1>7, <1>11, <3>1
    <3>3. \E i \in DOMAIN todo'[t] : todo'[t][i][1] = "create" /\ todo'[t][i][2] = u
      BY Zenon, <3>2
    <3> QED BY Zenon, <3>3 DEF Expected
  <2> SUFFICES ASSUME NEW v \in Threads, depth'[v] = -1
               PROVE  /\ todo'[v] = <<>>
                      /\ \A r \in Regions : /\ hd'[v][r].wr = 0 /\ hd'[v][r].rd = 0
                                            /\ hd'[v][r].rcnt > 0 => Expected(v)'
    BY Zenon DEF Unborn
  <2>3. /\ todo[v] = <<>>
        /\ \A r \in Regions : /\ hd[v][r].wr = 0 /\ hd[v][r].rd = 0
                              /\ hd[v][r].rcnt > 0 => Expected(v)
    BY Zenon, <1>1, <1>3 DEF Unborn
  <2>4. todo'[v] = <<>>
    BY Zenon, <1>3, <1>11, <2>3
  <2>5. CASE v = u
    BY Zenon, <1>11, <1>14, <2>2, <2>4, <2>5
  <2>6. CASE v # u
    <3>1. hd'[v] = hd[v]
      BY Zenon, <1>11, <2>6
    <3> QED BY Zenon, <2>1, <2>3, <2>4, <3>1
  <2> QED BY Zenon, <2>5, <2>6
<1>22. Layered(rank)'
  <2>1. Ranked(tree, rank)
    <3>1. Ranked(hd[t], rank)
      BY Zenon, <1>2 DEF Layered
    <3>2. \A r \in Listed(o) :
             /\ tree[r].parent # None => rank[tree[r].parent] < rank[r]
             /\ \A i \in DOMAIN tree[r].sub : rank[r] < rank[tree[r].sub[i]]
      <4> SUFFICES ASSUME NEW r \in Listed(o)
                   PROVE  /\ tree[r].parent # None => rank[tree[r].parent] < rank[r]
                          /\ \A i \in DOMAIN tree[r].sub : rank[r] < rank[tree[r].sub[i]]
        BY Zenon
      <4>1. /\ r \in Regions /\ tree[r].parent \in {hd[t][r].parent, None}
            /\ \A i \in DOMAIN tree[r].sub : /\ tree[r].sub[i] \in Listed(o)
                                             /\ hd[t][tree[r].sub[i]].parent = r
        BY Zenon, <1>6, <1>9
      <4>2. r # None
        BY Zenon, <4>1, NoneIsNone
      <4>3. \A p \in Regions : hd[t][p].parent # None => rank[hd[t][p].parent] < rank[p]
        BY Zenon, <3>1 DEF Ranked
      <4>4. tree[r].parent # None => rank[tree[r].parent] < rank[r]
        BY Zenon, <4>1, <4>3
      <4>5. ASSUME NEW i \in DOMAIN tree[r].sub PROVE rank[r] < rank[tree[r].sub[i]]
        BY Zenon, <1>9, <4>1, <4>2, <4>3
      <4> QED BY Zenon, <4>4, <4>5
    <3> QED BY Zenon, <1>12, <1>13, <3>2 DEF Ranked
  <2>2. Pending(s, hd'[t], rank)
    <3>1. \A i \in DOMAIN s : s[i][1] # "unlink"
      <4>1. \A i \in 1 .. n + 1 : i \in 1 .. n \/ i = n + 1
        BY <1>7
      <4>2. "cap" # "unlink" /\ "create" # "unlink"
        OBVIOUS
      <4> QED BY Zenon, <1>7, <4>1, <4>2
    <3> QED BY Zenon, <3>1 DEF Pending
  <2>3. Pending(todo'[u], hd'[u], rank)
    <3>1. todo'[u] = <<>>
      BY Zenon, <1>1, <1>3, <1>11 DEF Unborn
    <3> QED BY Zenon, <1>12, <3>1 DEF Pending
  <2>4. \A v \in Threads \ {t, u} : Ranked(hd'[v], rank) /\ Pending(todo'[v], hd'[v], rank)
    BY Zenon, <1>2, <1>11 DEF Layered
  <2>5. Ranked(hd'[t], rank) /\ Ranked(hd'[u], rank) /\ Pending(todo'[t], hd'[t], rank)
    BY Zenon, <1>2, <1>3, <1>11, <2>1, <2>2 DEF Layered
  <2> QED BY Zenon, <2>3, <2>4, <2>5 DEF Layered
<1> QED BY Zenon, <1>16, <1>17, <1>18, <1>20, <1>21, <1>22 DEF IInv

-----------------------------------------------------------------------------
(* The initial states *)

\* IInv holds when the program starts.
LEMMA InitIInv ==
    ASSUME Counting, Init
    PROVE  IInv
<1>1. TypeOK
  <2>1. NoHandle \in Handles
    BY DEF NoHandle, Handles
  <2> QED BY <2>1 DEF Init, TypeOK
<1>2. \A t \in Threads : todo[t] = <<>> /\ DOMAIN todo[t] = {}
  BY DEF Init
<1>3. \A t \in Threads, r \in Regions :
         hd[t][r] = NoHandle /\ hd[t][r].rcnt = 0 /\ hd[t][r].wr = 0 /\ hd[t][r].rd = 0
         /\ hd[t][r].parent = None /\ DOMAIN hd[t][r].sub = {}
  BY DEF Init, NoHandle
<1>4. /\ created = {} /\ \A r \in Regions : /\ wr_cv[r] = None /\ rd_cnt[r] = 0
                                            /\ g_rcnt[r] = 0 /\ frees[r] = 0
  BY DEF Init
<1>5. ~(0 > 0)
  OBVIOUS
<1>6. Cardinality({}) = 0
  BY Zenon DEF Counting, Sizes
<1>7. LockWords /\ TreeExclusion
  <2>1. \A r \in Regions : Readers(r) = {}
    BY Zenon, <1>3, <1>5 DEF Readers
  <2>2. \A r \in Regions, t \in Threads : wr_cv[r] # t
    BY Zenon, <1>4, NoneIsNone
  <2> QED BY Zenon, <1>3, <1>4, <1>5, <1>6, <2>1, <2>2 DEF LockWords, TreeExclusion
<1>8. FreedOnce
  <2>1. \A r \in Regions : {t \in Threads : hd[t][r].rcnt > 0} = {}
    BY Zenon, <1>3, <1>5
  <2> QED BY Zenon, <1>4, <1>6, <2>1 DEF FreedOnce
<1>9. Fresh /\ Unborn
  BY Zenon, <1>2, <1>3, <1>4, <1>5 DEF Fresh, Unborn
<1>10. \E rank \in [Regions -> Nat] : Layered(rank)
  <2>1. [r \in Regions |-> 0] \in [Regions -> Nat]
    OBVIOUS
  <2>2. Layered([r \in Regions |-> 0])
    BY Zenon, <1>2, <1>3 DEF Layered, Ranked, Pending
  <2> QED BY Zenon, <2>1, <2>2
<1> QED BY Zenon, <1>1, <1>7, <1>8, <1>9, <1>10 DEF IInv
=============================================================================
