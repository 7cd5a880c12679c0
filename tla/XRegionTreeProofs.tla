------------------------- MODULE XRegionTreeProofs --------------------------
(***************************************************************************)
(* __xregion_refcnt, __xregion_lockop, the unlinking of a handle and the   *)
(* start of a thread preserve the invariant of XRegionTreeInv; and the     *)
(* theorems: the lock of a tree excludes as the lock of one region does,   *)
(* and every region is freed once.                                         *)
(***************************************************************************)
EXTENDS XRegionTreeInv

-----------------------------------------------------------------------------
(* Lists of things to do *)

\* The steps s work on handle x or further down.
Under(s, x, rank) ==
    \A i \in DOMAIN s : s[i][1] # "create" /\ s[i][2] \in Regions /\ rank[x] <= rank[s[i][2]]

\* The steps s end with giving up the locks of handle x, or it has none.
Unlocks(s, x, h, rank) ==
    /\ h[x].rcnt > 0
    /\ Len(s) = 0 => h[x].wr = 0 /\ h[x].rd = 0
    /\ Len(s) > 0 => /\ s[Len(s)][1] \in {"lockop", "lock"} /\ s[Len(s)][2] = x
                     /\ s[Len(s)][3] = <<0, -h[x].wr, -h[x].rd>>
    /\ \A i \in 1 .. Len(s) - 1 : rank[x] < rank[s[i][2]]

\* From h to h2 no handle further up than x changes its locks, and none disappears.
SameAbove(h, h2, x, rank) ==
    \A r \in Regions : rank[r] < rank[x] =>
        /\ h[r].rcnt > 0 => h2[r].rcnt > 0
        /\ h2[r].wr = h[r].wr /\ h2[r].rd = h[r].rd

\* Steps that a step on a region is replaced by.
Plain(s) == \A k \in DOMAIN s : s[k][1] # "create" /\ s[k][2] \in created

\* What step e does, to what, and with which counts.
Is(e, what, x, c) == e[1] = what /\ e[2] = x /\ e[3] = c

\* A step of a call is replaced by the steps it consists of.
LEMMA Spliced ==
    ASSUME NEW q \in Seq(Todo), q # <<>>, NEW s \in Seq(Todo)
    PROVE  LET z == s \o Tail(q)
               n == Len(s)
               m == Len(q)
           IN /\ z \in Seq(Todo) /\ n \in Nat /\ m \in Nat \ {0}
              /\ DOMAIN z = 1 .. n + m - 1 /\ DOMAIN q = 1 .. m /\ DOMAIN s = 1 .. n
              /\ \A i \in 1 .. n : z[i] = s[i]
              /\ \A i \in n + 1 .. n + m - 1 : z[i] = q[i - n + 1]
              /\ \A i \in DOMAIN z : \/ \E k \in DOMAIN s : z[i] = s[k]
                                     \/ \E k \in DOMAIN q : k # 1 /\ z[i] = q[k]
              /\ \A k \in DOMAIN q : k # 1 => \E i \in DOMAIN z : z[i] = q[k]
<1> DEFINE z == s \o Tail(q)
           n == Len(s)
           m == Len(q)
<1>1. /\ Tail(q) \in Seq(Todo) /\ Len(Tail(q)) = m - 1 /\ m \in Nat \ {0} /\ n \in Nat
      /\ DOMAIN q = 1 .. m /\ DOMAIN s = 1 .. n
  OBVIOUS
<1>2. \A i \in 1 .. m - 1 : Tail(q)[i] = q[i + 1]
  OBVIOUS
<1>3. z \in Seq(Todo) /\ Len(z) = n + m - 1
  BY <1>1
<1>4. \A i \in 1 .. n : z[i] = s[i]
  BY <1>1
<1>5. \A i \in n + 1 .. n + m - 1 : z[i] = q[i - n + 1]
  BY <1>1, <1>2
<1>6. DOMAIN z = 1 .. n + m - 1
  BY <1>1, <1>3
<1> HIDE DEF z, n, m
<1>7. \A i \in 1 .. n + m - 1 : \/ i \in 1 .. n
                                \/ i - n + 1 \in 1 .. m /\ i - n + 1 # 1 /\ i \in n + 1 .. n + m - 1
  BY <1>1
<1>8. \A k \in 1 .. m : k # 1 => /\ k + n - 1 \in n + 1 .. n + m - 1
                                 /\ k + n - 1 \in 1 .. n + m - 1 /\ (k + n - 1) - n + 1 = k
  BY <1>1
<1>9. \A i \in DOMAIN z : \/ \E k \in DOMAIN s : z[i] = s[k]
                          \/ \E k \in DOMAIN q : k # 1 /\ z[i] = q[k]
  BY Zenon, <1>1, <1>4, <1>5, <1>6, <1>7
<1>10. \A k \in DOMAIN q : k # 1 => \E i \in DOMAIN z : z[i] = q[k]
  BY Zenon, <1>1, <1>5, <1>6, <1>8
<1> QED BY Zenon, <1>1, <1>3, <1>4, <1>5, <1>6, <1>9, <1>10 DEF z, n, m

\* A step of t leaves the other threads' calls alone; what t has left to do is what
\* it had without the first step, and the new steps.
LEMMA RestFacts ==
    ASSUME TypeOK, NEW t \in Threads, todo[t] # <<>>, NEW s \in Seq(Todo), Rest(t, s)
    PROVE  /\ DOMAIN todo' = Threads /\ \A v \in Threads : todo'[v] \in Seq(Todo)
           /\ \A v \in Threads \ {t} : todo'[v] = todo[v]
           /\ todo'[t] = s \o Tail(todo[t])
           /\ \A i \in DOMAIN todo'[t] :
                 \/ \E k \in DOMAIN s : todo'[t][i] = s[k]
                 \/ \E k \in DOMAIN todo[t] : k # 1 /\ todo'[t][i] = todo[t][k]
           /\ \A k \in DOMAIN todo[t] : k # 1 => \E i \in DOMAIN todo'[t] : todo'[t][i] = todo[t][k]
<1> DEFINE q == todo[t]
           z == s \o Tail(q)
<1>1. DOMAIN todo = Threads /\ \A v \in Threads : todo[v] \in Seq(Todo)
  BY Zenon DEF TypeOK
<1>2. todo' = [todo EXCEPT ![t] = z]
  BY Zenon DEF Rest
<1>3. /\ z \in Seq(Todo)
      /\ \A i \in DOMAIN z : \/ \E k \in DOMAIN s : z[i] = s[k]
                             \/ \E k \in DOMAIN q : k # 1 /\ z[i] = q[k]
      /\ \A k \in DOMAIN q : k # 1 => \E i \in DOMAIN z : z[i] = q[k]
  BY Zenon, <1>1, Spliced
<1> HIDE DEF z
<1>4. DOMAIN todo' = Threads /\ todo'[t] = z /\ \A v \in Threads \ {t} : todo'[v] = todo[v]
  BY Zenon, <1>1, <1>2
<1>5. \A v \in Threads : todo'[v] \in Seq(Todo)
  BY Zenon, <1>1, <1>3, <1>4
<1>6. /\ \A i \in DOMAIN todo'[t] : \/ \E k \in DOMAIN s : todo'[t][i] = s[k]
                                   \/ \E k \in DOMAIN q : k # 1 /\ todo'[t][i] = q[k]
      /\ \A k \in DOMAIN q : k # 1 => \E i \in DOMAIN todo'[t] : todo'[t][i] = q[k]
  <2> HIDE DEF q
  <2> QED BY <1>3, <1>4
<1>7. todo'[t] = s \o Tail(q)
  BY Zenon, <1>4 DEF z
<1> QED BY Zenon, <1>4, <1>5, <1>6, <1>7

\* Such a step keeps what Fresh and Unborn say about calls.
LEMMA TodoKept ==
    ASSUME TypeOK, Fresh, NEW t \in Threads, todo[t] # <<>>, NEW s \in Seq(Todo), Rest(t, s),
           Plain(s)
    PROVE  /\ \A v \in Threads : \A i \in DOMAIN todo'[v] :
                 todo'[v][i][1] # "create" => todo'[v][i][2] \in created
           /\ todo[t][1][1] # "create" => \A u \in Threads : Expected(u) => Expected(u)'
<1>1. /\ \A v \in Threads \ {t} : todo'[v] = todo[v]
      /\ \A i \in DOMAIN todo'[t] :
            \/ \E k \in DOMAIN s : todo'[t][i] = s[k]
            \/ \E k \in DOMAIN todo[t] : k # 1 /\ todo'[t][i] = todo[t][k]
      /\ \A k \in DOMAIN todo[t] : k # 1 => \E i \in DOMAIN todo'[t] : todo'[t][i] = todo[t][k]
  BY Zenon, RestFacts
<1>2. ASSUME NEW v \in Threads, NEW i \in DOMAIN todo'[v], todo'[v][i][1] # "create"
      PROVE  todo'[v][i][2] \in created
  <2>1. CASE v = t
    <3>1. CASE \E k \in DOMAIN s : todo'[t][i] = s[k]
      BY Zenon, <2>1, <3>1 DEF Plain
    <3>2. CASE \E k \in DOMAIN todo[t] : todo'[t][i] = todo[t][k]
      BY Zenon, <1>2, <2>1, <3>2 DEF Fresh
    <3> QED BY Zenon, <1>1, <2>1, <3>1, <3>2
  <2>2. CASE v # t
    BY Zenon, <1>1, <1>2, <2>2 DEF Fresh
  <2> QED BY Zenon, <2>1, <2>2
<1>3. ASSUME todo[t][1][1] # "create", NEW u \in Threads, Expected(u) PROVE Expected(u)'
  <2>1. PICK v \in Threads : \E i \in DOMAIN todo[v] :
            todo[v][i][1] = "create" /\ todo[v][i][2] = u
    BY Zenon, <1>3 DEF Expected
  <2>2. PICK i \in DOMAIN todo[v] : todo[v][i][1] = "create" /\ todo[v][i][2] = u
    BY Zenon, <2>1
  <2>3. \E j \in DOMAIN todo'[v] : todo'[v][j] = todo[v][i]
    <3>1. CASE v = t
      <4>1. i # 1
        BY Zenon, <1>3, <2>2, <3>1
      <4> QED BY Zenon, <1>1, <2>2, <3>1, <4>1
    <3>2. CASE v # t
      BY Zenon, <1>1, <2>2, <3>2
    <3> QED BY Zenon, <3>1, <3>2
  <2> QED BY Zenon, <2>2, <2>3 DEF Expected
<1> QED BY Zenon, <1>2, <1>3

\* _xspawn starts the new thread.
LEMMA CreateKeeps ==
    ASSUME IInv, NEW t \in Threads, Create(t)
    PROVE  IInv'
<1> DEFINE q == todo[t]
           u == q[1][2]
<1>1. TypeOK /\ Fresh /\ Unborn
  BY Zenon DEF IInv
<1>2. PICK rank \in [Regions -> Nat] : Layered(rank)
  BY Zenon DEF IInv
<1>3. /\ q \in Seq(Todo) /\ q # <<>> /\ Head(q) = q[1] /\ 1 \in DOMAIN q /\ q[1][1] = "create"
      /\ u \in Threads /\ depth \in [Threads -> Nat \cup {-1}]
  <2>1. q \in Seq(Todo) /\ q # <<>> /\ Head(q)[1] = "create" /\ depth \in [Threads -> Nat \cup {-1}]
    BY <1>1 DEF TypeOK, Create, Doing
  <2>2. Head(q) = q[1] /\ 1 \in DOMAIN q /\ q[1] \in Todo
    BY <2>1
  <2> QED BY <2>1, <2>2 DEF Todo
<1>4. /\ depth' = [depth EXCEPT ![u] = depth[t] + 1] /\ Rest(t, <<>>)
      /\ UNCHANGED <<wr_cv, rd_cnt, g_rcnt, frees, created, hd, quit>>
  BY Zenon, <1>3 DEF Create, shared
<1>5. depth[t] # -1
  BY Zenon, <1>1, <1>3 DEF Unborn
<1>6. depth' \in [Threads -> Nat \cup {-1}] /\ depth'[u] # -1 /\ \A w \in Threads \ {u} : depth'[w] = depth[w]
  BY <1>3, <1>4, <1>5
<1>7. <<>> \in Seq(Todo) /\ Plain(<<>>)
  BY DEF Plain
<1>8. /\ DOMAIN todo' = Threads /\ \A v \in Threads : todo'[v] \in Seq(Todo)
      /\ \A v \in Threads \ {t} : todo'[v] = todo[v]
      /\ todo'[t] = <<>> \o Tail(q)
      /\ \A i \in DOMAIN todo'[t] : \/ \E k \in DOMAIN <<>> : todo'[t][i] = <<>>[k]
                                   \/ \E k \in DOMAIN q : k # 1 /\ todo'[t][i] = q[k]
      /\ \A k \in DOMAIN q : k # 1 => \E i \in DOMAIN todo'[t] : todo'[t][i] = q[k]
  BY Zenon, <1>1, <1>3, <1>4, <1>7, RestFacts
<1>9. TypeOK'
  BY <1>1, <1>4, <1>6, <1>8 DEF TypeOK
<1>10. LockWords' /\ TreeExclusion' /\ FreedOnce'
  BY Zenon, <1>4, SameLocks, SameUsers DEF IInv
<1>11. Fresh'
  <2>1. \A v \in Threads : \A i \in DOMAIN todo'[v] :
            todo'[v][i][1] # "create" => todo'[v][i][2] \in created
    BY Zenon, <1>1, <1>3, <1>4, <1>7, TodoKept
  <2> QED BY Zenon, <1>1, <1>4, <2>1 DEF Fresh
<1>12. Unborn'
  <2> SUFFICES ASSUME NEW w \in Threads, depth'[w] = -1
               PROVE  /\ todo'[w] = <<>>
                      /\ \A r \in Regions : /\ hd'[w][r].wr = 0 /\ hd'[w][r].rd = 0
                                            /\ hd'[w][r].rcnt > 0 => Expected(w)'
    BY Zenon DEF Unborn
  <2>1. w # u /\ depth[w] = -1 /\ w # t
    BY Zenon, <1>5, <1>6
  <2>2. Expected(w) => Expected(w)'
    <3> SUFFICES ASSUME Expected(w) PROVE Expected(w)'
      OBVIOUS
    <3>1. PICK v \in Threads : \E i \in DOMAIN todo[v] :
              todo[v][i][1] = "create" /\ todo[v][i][2] = w
      BY Zenon DEF Expected
    <3>2. PICK i \in DOMAIN todo[v] : todo[v][i][1] = "create" /\ todo[v][i][2] = w
      BY Zenon, <3>1
    <3>3. \E j \in DOMAIN todo'[v] : todo'[v][j] = todo[v][i]
      <4>1. CASE v = t
        <5>1. i # 1
          BY Zenon, <2>1, <3>2, <4>1
        <5> QED BY Zenon, <1>8, <4>1, <5>1
      <4>2. CASE v # t
        BY Zenon, <1>8, <4>2
      <4> QED BY Zenon, <4>1, <4>2
    <3> QED BY Zenon, <3>2, <3>3 DEF Expected
  <2> QED BY Zenon, <1>1, <1>4, <1>8, <2>1, <2>2 DEF Unborn
<1>13. Layered(rank)'
  <2>1. Pending(q, hd[t], rank) /\ DOMAIN q = 1 .. Len(q) /\ Len(q) \in Nat
    BY <1>2, <1>3 DEF Layered
  <2>2. \A j \in DOMAIN q : q[j][1] # "unlink"
    <3> SUFFICES ASSUME NEW j \in DOMAIN q, q[j][1] = "unlink" PROVE FALSE
      BY Zenon
    <3>1. Due(q, j, hd[t], rank) /\ j > 1
      <4>1. j # 1
        BY <1>3
      <4> QED BY <2>1, <4>1 DEF Pending
    <3>2. j # 2
      <4>1. j = 2 => q[j - 1] = q[1]
        OBVIOUS
      <4>2. q[j - 1][1] \in {"lockop", "lock"}
        BY Zenon, <3>1 DEF Due
      <4> QED BY <1>3, <4>1, <4>2
    <3>3. 1 \in 1 .. j - 2
      BY <2>1, <3>1, <3>2
    <3> QED BY Zenon, <1>3, <3>1, <3>3 DEF Due
  <2>3. Pending(todo'[t], hd[t], rank)
    <3>1. DOMAIN <<>> = {}
      OBVIOUS
    <3>2. \A j \in DOMAIN todo'[t] : todo'[t][j][1] # "unlink"
      <4>1. \A k : k \notin DOMAIN <<>>
        BY Zenon, <3>1
      <4>2. \A j \in DOMAIN todo'[t] : \E k \in DOMAIN q : todo'[t][j] = q[k]
        BY <1>8, <4>1
      <4> QED BY Zenon, <2>2, <4>2
    <3> QED BY Zenon, <3>2 DEF Pending
  <2> QED BY Zenon, <1>2, <1>4, <1>8, <2>3 DEF Layered
<1> QED BY Zenon, <1>9, <1>10, <1>11, <1>12, <1>13 DEF IInv

\* Splicing keeps the order in which handles are given up, when the new steps work
\* on the handle of the replaced one or further down, and the locks of a handle
\* that is given up next are still given up right before.
LEMMA PendingSpliced ==
    ASSUME NEW q \in Seq(Todo), q # <<>>, NEW s \in Seq(Todo), NEW h, NEW h2,
           NEW rank \in [Regions -> Nat], NEW x \in Regions, q[1][2] = x,
           Pending(q, h, rank), Pending(s, h2, rank), Under(s, x, rank),
           SameAbove(h, h2, x, rank),
           Len(q) > 1 /\ q[2][1] = "unlink" => Unlocks(s, x, h2, rank)
    PROVE  Pending(s \o Tail(q), h2, rank)
<1> DEFINE z == s \o Tail(q)
           n == Len(s)
           m == Len(q)
<1>1. /\ DOMAIN z = 1 .. n + m - 1 /\ DOMAIN q = 1 .. m /\ DOMAIN s = 1 .. n
      /\ \A i \in 1 .. n : z[i] = s[i]
      /\ \A i \in n + 1 .. n + m - 1 : z[i] = q[i - n + 1]
      /\ n \in Nat /\ m \in Nat \ {0}
  BY Zenon, Spliced
<1> HIDE DEF z, n, m
<1> SUFFICES ASSUME NEW k \in 1 .. n + m - 1, z[k][1] = "unlink"
             PROVE  Due(z, k, h2, rank)
  BY Zenon, <1>1 DEF Pending, z
<1>2. CASE k <= n
  <2>1. k \in DOMAIN s /\ s[k] = z[k] /\ Due(s, k, h2, rank)
    <3>1. k \in DOMAIN s /\ s[k] = z[k]
      BY <1>1, <1>2
    <3> QED BY Zenon, <3>1 DEF Pending
  <2>2. k > 1 => s[k - 1] = z[k - 1]
    BY <1>1, <1>2
  <2>3. \A i \in 1 .. k - 2 : z[i] = s[i]
    BY <1>1, <1>2
  <2> QED BY Zenon, <2>1, <2>2, <2>3 DEF Due
<1>3. CASE k = n + 1
  <2>1. m > 1 /\ z[k] = q[2] /\ 2 \in DOMAIN q
    BY <1>1, <1>3
  <2>2. q[2][1] = "unlink" /\ Due(q, 2, h, rank) /\ Unlocks(s, x, h2, rank)
    BY Zenon, <2>1 DEF Pending, m
  <2>3. 2 > 1 /\ 2 - 1 = 1
    OBVIOUS
  <2>4. z[k][2] = x
    BY Zenon, <2>1, <2>2, <2>3 DEF Due
  <2>5. k > 1 => n > 0 /\ z[k - 1] = s[n]
    BY <1>1, <1>3
  <2>6. \A i \in 1 .. k - 2 : z[i] = s[i] /\ i \in 1 .. n - 1 /\ i \in DOMAIN s
    BY <1>1, <1>3
  <2>7. k = 1 => n = 0
    BY <1>1, <1>3
  <2> QED BY Zenon, <2>2, <2>4, <2>5, <2>6, <2>7 DEF Due, Unlocks, Under, n
<1>4. CASE k > n + 1
  <2> DEFINE j == k - n + 1
             r == z[k][2]
  <2>1. /\ j \in DOMAIN q /\ j > 1 /\ 1 \in 1 .. j - 2 /\ q[j] = z[k] /\ k # 1
        /\ z[k - 1] = q[j - 1]
    BY <1>1, <1>4
  <2>2. \A i \in 1 .. k - 2 : \/ i \in DOMAIN s /\ z[i] = s[i]
                              \/ i - n + 1 \in 1 .. j - 2 /\ z[i] = q[i - n + 1]
    <3>1. \A i \in 1 .. k - 2 : \/ i \in 1 .. n
                                \/ i - n + 1 \in 1 .. j - 2 /\ i \in n + 1 .. n + m - 1
      BY <1>1, <1>4
    <3> QED BY Zenon, <1>1, <3>1
  <2> HIDE DEF j, r
  <2>3. /\ h[r].rcnt > 0 /\ q[j] = z[k] /\ q[j][2] = r
        /\ q[j - 1][1] \in {"lockop", "lock"} /\ q[j - 1][2] = r
        /\ q[j - 1][3] = <<0, -h[r].wr, -h[r].rd>>
        /\ \A i \in 1 .. j - 2 : q[i][1] # "create" /\ rank[r] < rank[q[i][2]]
    <3>1. Due(q, j, h, rank) /\ q[j][2] = r
      BY Zenon, <2>1 DEF Pending, r
    <3> QED BY Zenon, <2>1, <3>1 DEF Due
  <2>4. rank[r] < rank[x]
    BY Zenon, <2>1, <2>3
  <2>5. r \in Regions
    <3>1. q[j] \in Todo
      BY <2>1
    <3> QED BY <2>3, <3>1 DEF Todo
  <2>6. /\ h2[r].rcnt > 0 /\ h2[r].wr = h[r].wr /\ h2[r].rd = h[r].rd
    BY Zenon, <2>3, <2>4, <2>5 DEF SameAbove
  <2>7. \A y \in Regions : rank[x] <= rank[y] => rank[r] < rank[y]
    BY <2>4, <2>5
  <2>8. \A i \in 1 .. k - 2 : z[i][1] # "create" /\ rank[r] < rank[z[i][2]]
    BY Zenon, <2>2, <2>3, <2>7 DEF Under
  <2> QED BY Zenon, <2>1, <2>3, <2>6, <2>8 DEF Due, r
<1> QED BY <1>1, <1>2, <1>3, <1>4

\* The first step gives the locks of a handle up when the second gives the handle up.
LEMMA FirstDue ==
    ASSUME NEW q \in Seq(Todo), NEW h, NEW rank, Pending(q, h, rank),
           Len(q) > 1, q[2][1] = "unlink"
    PROVE  LET x == q[1][2]
           IN /\ q[1][1] \in {"lockop", "lock"} /\ h[x].rcnt > 0
              /\ q[1][3] = <<0, -h[x].wr, -h[x].rd>>
<1>1. 2 \in DOMAIN q /\ 2 > 1 /\ 2 - 1 = 1
  OBVIOUS
<1>2. Due(q, 2, h, rank)
  BY Zenon, <1>1 DEF Pending
<1> QED BY Zenon, <1>1, <1>2 DEF Due

\* What the step that t takes next is about.
LEMMA HeadFacts ==
    ASSUME TypeOK, Fresh, Unborn, NEW t \in Threads,
           NEW k \in {"cap", "lockop", "lock", "unlink"}, Doing(t, k)
    PROVE  /\ todo[t] \in Seq(Todo) /\ todo[t] # <<>> /\ Head(todo[t]) = todo[t][1]
           /\ 1 \in DOMAIN todo[t] /\ todo[t][1][1] = k
           /\ todo[t][1][2] \in Regions /\ todo[t][1][2] \in created
           /\ todo[t][1][3] \in Counts /\ depth[t] # -1
<1>1. todo[t] \in Seq(Todo) /\ todo[t] # <<>> /\ Head(todo[t])[1] = k
  BY DEF TypeOK, Doing
<1>2. Head(todo[t]) = todo[t][1] /\ 1 \in DOMAIN todo[t] /\ todo[t][1] \in Todo
  BY <1>1
<1>3. todo[t][1] \in {"cap", "lockop", "lock", "unlink"} \X Regions \X Counts
  BY <1>1, <1>2 DEF Todo
<1>4. k # "create"
  OBVIOUS
<1> QED BY <1>1, <1>2, <1>3, <1>4 DEF Fresh, Unborn

\* A step of thread t within its call: the first thing it has to do is replaced by s.
LEMMA StepKeeps ==
    ASSUME IInv, NEW t \in Threads, todo[t] # <<>>, todo[t][1][1] # "create",
           NEW s \in Seq(Todo), Plain(s), Rest(t, s), created' = created, depth' = depth,
           TypeOK' <=> DOMAIN todo' = Threads /\ \A v \in Threads : todo'[v] \in Seq(Todo),
           LockWords', TreeExclusion', FreedOnce',
           \A v \in Threads \ {t} : hd'[v] = hd[v],
           \A r \in Regions : /\ r \notin created => hd'[t][r] = NoHandle /\ wr_cv'[r] = None
                              /\ hd'[t][r].parent \in created \cup {None}
                              /\ \A i \in DOMAIN hd'[t][r].sub : hd'[t][r].sub[i] \in created,
           NEW rank \in [Regions -> Nat], Layered(rank),
           Ranked(hd'[t], rank), Pending(s \o Tail(todo[t]), hd'[t], rank)
    PROVE  IInv'
<1>a. TypeOK /\ Fresh /\ Unborn
  BY Zenon DEF IInv
<1>b. /\ DOMAIN todo' = Threads /\ \A v \in Threads : todo'[v] \in Seq(Todo)
      /\ \A v \in Threads \ {t} : todo'[v] = todo[v]
      /\ todo'[t] = s \o Tail(todo[t])
  BY Zenon, <1>a, RestFacts
<1>c. /\ \A v \in Threads : \A i \in DOMAIN todo'[v] :
            todo'[v][i][1] # "create" => todo'[v][i][2] \in created
      /\ \A u \in Threads : Expected(u) => Expected(u)'
  BY Zenon, <1>a, TodoKept
<1>d. depth[t] # -1
  BY Zenon, <1>a DEF Unborn
<1>1. Fresh'
  <2>1. \A v \in Threads, r \in Regions :
            /\ r \notin created => hd'[v][r] = NoHandle
            /\ hd'[v][r].parent \in created \cup {None}
            /\ \A i \in DOMAIN hd'[v][r].sub : hd'[v][r].sub[i] \in created
    <3> SUFFICES ASSUME NEW v \in Threads, NEW r \in Regions
                 PROVE  /\ r \notin created => hd'[v][r] = NoHandle
                        /\ hd'[v][r].parent \in created \cup {None}
                        /\ \A i \in DOMAIN hd'[v][r].sub : hd'[v][r].sub[i] \in created
      BY Zenon
    <3>1. CASE v = t
      BY Zenon, <3>1
    <3>2. CASE v # t
      <4>1. hd'[v][r] = hd[v][r]
        BY Zenon, <3>2
      <4>2. /\ r \notin created => hd[v][r] = NoHandle
            /\ hd[v][r].parent \in created \cup {None}
            /\ \A i \in DOMAIN hd[v][r].sub : hd[v][r].sub[i] \in created
        BY Zenon, <1>a DEF Fresh
      <4> QED BY <4>1, <4>2
    <3> QED BY Zenon, <3>1, <3>2
  <2>2. \A r \in Regions \ created : wr_cv'[r] = None
    BY Zenon
  <2>3. Fresh' <=> /\ \A v \in Threads, r \in Regions :
                        /\ r \notin created => hd'[v][r] = NoHandle
                        /\ hd'[v][r].parent \in created \cup {None}
                        /\ \A i \in DOMAIN hd'[v][r].sub : hd'[v][r].sub[i] \in created
                   /\ \A r \in Regions \ created : wr_cv'[r] = None
                   /\ \A v \in Threads : \A i \in DOMAIN todo'[v] :
                        todo'[v][i][1] # "create" => todo'[v][i][2] \in created
    BY Zenon DEF Fresh, NoHandle
  <2> QED BY Zenon, <1>c, <2>1, <2>2, <2>3
<1>2. Unborn'
  <2> SUFFICES ASSUME NEW u \in Threads, depth[u] = -1
               PROVE  /\ todo'[u] = <<>>
                      /\ \A r \in Regions : /\ hd'[u][r].wr = 0 /\ hd'[u][r].rd = 0
                                            /\ hd'[u][r].rcnt > 0 => Expected(u)'
    BY Zenon DEF Unborn
  <2>1. u # t /\ todo'[u] = todo[u] /\ hd'[u] = hd[u]
    BY Zenon, <1>b, <1>d
  <2>2. /\ todo[u] = <<>>
        /\ \A r \in Regions : /\ hd[u][r].wr = 0 /\ hd[u][r].rd = 0
                              /\ hd[u][r].rcnt > 0 => Expected(u)
    BY Zenon, <1>a DEF Unborn
  <2>3. Expected(u) => Expected(u)'
    BY Zenon, <1>c
  <2> QED BY Zenon, <2>1, <2>2, <2>3
<1>3. Layered(rank)'
  <2>1. ASSUME NEW v \in Threads
        PROVE  Ranked(hd'[v], rank) /\ Pending(todo'[v], hd'[v], rank)
    <3>1. Ranked(hd[v], rank) /\ Pending(todo[v], hd[v], rank)
      BY Zenon DEF Layered
    <3>2. v # t => hd'[v] = hd[v] /\ todo'[v] = todo[v]
      BY Zenon, <1>b
    <3> QED BY Zenon, <1>b, <3>1, <3>2
  <2> QED BY Zenon, <2>1 DEF Layered
<1> QED BY Zenon, <1>b, <1>1, <1>2, <1>3 DEF IInv

-----------------------------------------------------------------------------
(* __xregion_refcnt and __xregion_lockop *)

\* __xregion_refcnt at its end: the handle is given up, and the region freed with
\* the last one.
LEMMA UnlinkKeeps ==
    ASSUME Counting, IInv, NEW t \in Threads, Unlink(t)
    PROVE  IInv'
<1> DEFINE q == todo[t]
           r == q[1][2]
           k == hd[t][r]
<1>1. PICK rank \in [Regions -> Nat] : Layered(rank)
  BY Zenon DEF IInv
<1>2. /\ q \in Seq(Todo) /\ q # <<>> /\ Head(q) = q[1] /\ 1 \in DOMAIN q /\ q[1][1] = "unlink"
      /\ r \in Regions /\ r \in created /\ depth[t] # -1
  BY Zenon, HeadFacts DEF Unlink, IInv
<1>3. /\ hd \in [Threads -> [Regions -> Handles]] /\ k \in Handles
      /\ rank[r] \in Nat /\ Ranked(hd[t], rank) /\ Pending(q, hd[t], rank)
  BY <1>1, <1>2 DEF IInv, TypeOK, Layered
<1>4. k.rcnt > 0 /\ k.wr = 0 /\ k.rd = 0
  BY Zenon, <1>2, <1>3 DEF Pending, Due
<1>5. ~(Len(q) > 1 /\ q[2][1] = "unlink")
  <2>1. Len(q) > 1 /\ q[2][1] = "unlink" => q[1][1] \in {"lockop", "lock"}
    BY Zenon, <1>2, <1>3, FirstDue
  <2> QED BY <1>2, <2>1
<1>19. k = hd[t][r] /\ q = todo[t] /\ r = q[1][2]
  OBVIOUS
<1> HIDE DEF q, r, k
<1>6. /\ hd' = [hd EXCEPT ![t] = Unlinked(t, r)]
      /\ g_rcnt' = [g_rcnt EXCEPT ![r] = @ - 1] /\ frees' = [frees EXCEPT ![r] = Frees(r)]
      /\ Rest(t, <<>>) /\ UNCHANGED <<wr_cv, rd_cnt, created, depth, quit>>
  BY Zenon, <1>2, <1>19 DEF Unlink
<1>7. /\ NoHandle \in Handles /\ NoHandle.rcnt = 0 /\ NoHandle.wr = 0 /\ NoHandle.rd = 0
      /\ NoHandle.parent = None /\ NoHandle.sub = <<>>
  BY DEF NoHandle, Handles
<1>8. \A p \in Regions \ {r} :
          LET h == hd[t][p]
              h2 == Unlinked(t, r)[p]
          IN /\ h2 \in Handles /\ h2.rcnt = h.rcnt /\ h2.wr = h.wr /\ h2.rd = h.rd
             /\ h2.parent = h.parent
             /\ \A i \in DOMAIN h2.sub : \E j \in DOMAIN h.sub : h2.sub[i] = h.sub[j]
             /\ p \notin created => h2 = h
  <2> SUFFICES ASSUME NEW p \in Regions \ {r}
               PROVE  LET h == hd[t][p]
                          h2 == Unlinked(t, r)[p]
                      IN /\ h2 \in Handles /\ h2.rcnt = h.rcnt /\ h2.wr = h.wr /\ h2.rd = h.rd
                         /\ h2.parent = h.parent
                         /\ \A i \in DOMAIN h2.sub : \E j \in DOMAIN h.sub : h2.sub[i] = h.sub[j]
                         /\ p \notin created => h2 = h
    BY Zenon
  <2> DEFINE h == hd[t][p]
             new == Without(h.sub, r)
  <2>1. h \in Handles /\ h.sub \in Seq(Regions)
    BY <1>3 DEF Handles
  <2>2. CASE p = k.parent
    <3>1. Unlinked(t, r)[p] = [h EXCEPT !.sub = new]
      BY Zenon, <1>19, <2>2 DEF Unlinked
    <3>2. new \in Seq(Regions) /\ \A i \in DOMAIN new : \E j \in DOMAIN h.sub : new[i] = h.sub[j]
      <4>1. \A sub \in Seq(Regions) :
                /\ Without(sub, r) \in Seq(Regions)
                /\ \A i \in DOMAIN Without(sub, r) : \E j \in DOMAIN sub : Without(sub, r)[i] = sub[j]
        BY WithoutIn
      <4> HIDE DEF h
      <4> QED BY Zenon, <2>1, <4>1
    <3>3. p \in created
      <4>1. p \in created \cup {None}
        BY Zenon, <1>2, <1>19, <2>2 DEF IInv, Fresh
      <4> QED BY Zenon, <4>1, NoneIsNone
    <3> HIDE DEF new
    <3> HIDE DEF h
    <3>4. /\ [h EXCEPT !.sub = new] \in Handles
          /\ [h EXCEPT !.sub = new].rcnt = h.rcnt /\ [h EXCEPT !.sub = new].wr = h.wr
          /\ [h EXCEPT !.sub = new].rd = h.rd /\ [h EXCEPT !.sub = new].parent = h.parent
          /\ [h EXCEPT !.sub = new].sub = new
      BY Zenon, <2>1, <3>2 DEF Handles
    <3> DEFINE h2 == [h EXCEPT !.sub = new]
    <3>5. Unlinked(t, r)[p] = h2 /\ hd[t][p] = h
      BY Zenon, <3>1 DEF h
    <3>6. /\ h2 \in Handles /\ h2.rcnt = h.rcnt /\ h2.wr = h.wr /\ h2.rd = h.rd
          /\ h2.parent = h.parent /\ h2.sub = new
      BY Zenon, <3>4
    <3> HIDE DEF h2
    <3> QED BY Zenon, <3>2, <3>3, <3>5, <3>6
  <2>3. CASE p # k.parent
    <3>1. Unlinked(t, r)[p] = h
      BY Zenon, <1>19, <2>3 DEF Unlinked
    <3> QED BY Zenon, <2>1, <3>1
  <2> QED BY Zenon, <2>2, <2>3
<1>9. /\ \A v \in Threads \ {t} : hd'[v] = hd[v]
      /\ hd'[t][r] = NoHandle /\ \A p \in Regions \ {r} : hd'[t][p] = Unlinked(t, r)[p]
      /\ hd' \in [Threads -> [Regions -> Handles]]
  <2>1. Unlinked(t, r)[r] = NoHandle /\ Unlinked(t, r) = [p \in Regions |-> Unlinked(t, r)[p]]
    BY Zenon, <1>2 DEF Unlinked
  <2>2. Unlinked(t, r) \in [Regions -> Handles]
    <3>1. \A p \in Regions : Unlinked(t, r)[p] \in Handles
      BY Zenon, <1>7, <1>8, <2>1
    <3> QED BY Zenon, <2>1, <3>1
  <2> QED BY <1>3, <1>6, <2>1, <2>2
<1>20. ASSUME NEW p \in Regions \ {r}
       PROVE  /\ hd'[t][p].rcnt = hd[t][p].rcnt /\ hd'[t][p].parent = hd[t][p].parent
              /\ \A i \in DOMAIN hd'[t][p].sub : \E j \in DOMAIN hd[t][p].sub :
                    hd'[t][p].sub[i] = hd[t][p].sub[j]
  <2> DEFINE h == hd[t][p]
             h2 == Unlinked(t, r)[p]
  <2>1. /\ h2.rcnt = h.rcnt /\ h2.parent = h.parent
        /\ \A i \in DOMAIN h2.sub : \E j \in DOMAIN h.sub : h2.sub[i] = h.sub[j]
    BY Zenon, <1>8
  <2>2. hd'[t][p] = h2
    BY Zenon, <1>9
  <2> HIDE DEF h2
  <2> QED BY <2>1, <2>2
<1>10. \A v \in Threads, p \in Regions : hd'[v][p].wr = hd[v][p].wr /\ hd'[v][p].rd = hd[v][p].rd
  <2> SUFFICES ASSUME NEW v \in Threads, NEW p \in Regions
               PROVE  hd'[v][p].wr = hd[v][p].wr /\ hd'[v][p].rd = hd[v][p].rd
    BY Zenon
  <2>1. CASE v # t
    BY Zenon, <1>9, <2>1
  <2>2. CASE v = t /\ p # r
    BY Zenon, <1>8, <1>9, <2>2
  <2>3. CASE v = t /\ p = r
    BY Zenon, <1>4, <1>7, <1>9, <1>19, <2>3
  <2> QED BY Zenon, <2>1, <2>2, <2>3
<1>11. LockWords' /\ TreeExclusion'
  BY Zenon, <1>6, <1>10, SameLocks DEF IInv
<1>12. /\ g_rcnt' \in [Regions -> Nat] /\ frees' \in [Regions -> Nat] /\ FreedOnce'
  <2> DEFINE Users(p) == {v \in Threads : hd[v][p].rcnt > 0}
             Users2(p) == {v \in Threads : hd'[v][p].rcnt > 0}
  <2>1. \A p \in Regions \ {r} : Users2(p) = Users(p)
    <3>1. \A p \in Regions \ {r}, v \in Threads : hd'[v][p].rcnt = hd[v][p].rcnt
      <4>1. \A p \in Regions \ {r}, v \in Threads : v # t => hd'[v][p] = hd[v][p]
        BY Zenon, <1>9
      <4> QED BY Zenon, <1>20, <4>1
    <3> QED BY Zenon, <3>1
  <2>2. Users2(r) = Users(r) \ {t} /\ t \in Users(r)
    <3>1. ~(0 > 0)
      OBVIOUS
    <3>2. t \in Users(r) /\ t \notin Users2(r)
      BY Zenon, <1>4, <1>7, <1>9, <1>19, <3>1
    <3>3. \A v \in Threads \ {t} : v \in Users2(r) <=> v \in Users(r)
      BY Zenon, <1>9
    <3> QED BY Zenon, <3>2, <3>3
  <2>3. g_rcnt \in [Regions -> Nat] /\ frees \in [Regions -> Nat]
    BY DEF IInv, TypeOK
  <2>4. IsFiniteSet(Users(r))
    <3>1. Users(r) \in SUBSET Threads
      BY Zenon
    <3> HIDE DEF Users
    <3> QED BY Zenon, <3>1, TreeAssumption DEF Counting, Subsets
  <2>5. g_rcnt[r] = Cardinality(Users(r)) /\ frees[r] = IF r \in created /\ g_rcnt[r] = 0 THEN 1 ELSE 0
    BY Zenon, <1>2 DEF IInv, FreedOnce
  <2> HIDE DEF Users, Users2
  <2>6. g_rcnt[r] > 0 /\ Cardinality(Users2(r)) = g_rcnt[r] - 1
    <3>1. Cardinality(Users(r)) # 0
      BY Zenon, <2>2, <2>4 DEF Counting, Sizes
    <3>2. Cardinality(Users(r) \ {t}) = Cardinality(Users(r)) - 1
      BY Zenon, <2>2, <2>4 DEF Counting, Removed
    <3>3. g_rcnt[r] \in Nat /\ Cardinality(Users2(r)) = g_rcnt[r] - 1 /\ g_rcnt[r] # 0
      BY <1>2, <2>2, <2>3, <2>5, <3>1, <3>2
    <3> QED BY <3>3
  <2>7. frees[r] = 0
    BY <2>5, <2>6
  <2>8. /\ g_rcnt'[r] = g_rcnt[r] - 1 /\ frees'[r] = IF g_rcnt[r] = 1 THEN 1 ELSE 0
        /\ \A p \in Regions \ {r} : g_rcnt'[p] = g_rcnt[p] /\ frees'[p] = frees[p]
    BY <1>2, <1>6, <2>3, <2>7 DEF Frees
  <2>9. g_rcnt' \in [Regions -> Nat] /\ frees' \in [Regions -> Nat]
    BY <1>2, <1>6, <2>3, <2>6, <2>7 DEF Frees
  <2>10. FreedOnce'
    <3>1. \A p \in Regions : p = r \/ p \in Regions \ {r}
      OBVIOUS
    <3>4. g_rcnt[r] = 1 <=> g_rcnt[r] - 1 = 0
      BY <1>2, <2>3
    <3>2. /\ g_rcnt'[r] = Cardinality(Users2(r))
          /\ frees'[r] = IF r \in created' /\ g_rcnt'[r] = 0 THEN 1 ELSE 0
      BY Zenon, <1>2, <1>6, <2>6, <2>8, <3>4
    <3>3. \A p \in Regions \ {r} :
             /\ g_rcnt'[p] = Cardinality(Users2(p))
             /\ frees'[p] = IF p \in created' /\ g_rcnt'[p] = 0 THEN 1 ELSE 0
      BY Zenon, <1>6, <2>1, <2>8 DEF IInv, FreedOnce, Users
    <3> QED BY Zenon, <3>1, <3>2, <3>3 DEF FreedOnce, Users2
  <2> QED BY Zenon, <2>9, <2>10
<1>13. TypeOK' <=> DOMAIN todo' = Threads /\ \A v \in Threads : todo'[v] \in Seq(Todo)
  BY <1>6, <1>9, <1>12 DEF IInv, TypeOK
<1>14. \A p \in Regions : /\ p \notin created => hd'[t][p] = NoHandle /\ wr_cv'[p] = None
                          /\ hd'[t][p].parent \in created \cup {None}
                          /\ \A i \in DOMAIN hd'[t][p].sub : hd'[t][p].sub[i] \in created
  <2>1. /\ hd'[t][r].parent \in created \cup {None}
        /\ \A i \in DOMAIN hd'[t][r].sub : hd'[t][r].sub[i] \in created
    BY <1>7, <1>9
  <2>2. \A p \in Regions \ {r} :
           /\ p \notin created => hd'[t][p] = NoHandle /\ wr_cv'[p] = None
           /\ hd'[t][p].parent \in created \cup {None}
           /\ \A i \in DOMAIN hd'[t][p].sub : hd'[t][p].sub[i] \in created
    <3> SUFFICES ASSUME NEW p \in Regions \ {r}
                 PROVE  /\ p \notin created => hd'[t][p] = NoHandle /\ wr_cv'[p] = None
                        /\ hd'[t][p].parent \in created \cup {None}
                        /\ \A i \in DOMAIN hd'[t][p].sub : hd'[t][p].sub[i] \in created
      BY Zenon
    <3>5. /\ p \notin created => hd[t][p] = NoHandle /\ wr_cv[p] = None
          /\ hd[t][p].parent \in created \cup {None}
      BY Zenon DEF IInv, Fresh
    <3>1. p \notin created => hd'[t][p] = NoHandle /\ wr_cv'[p] = None
      BY Zenon, <1>6, <1>8, <1>9, <3>5
    <3>2. hd'[t][p].parent \in created \cup {None}
      BY Zenon, <1>8, <1>9, <3>5
    <3>3. \A i \in DOMAIN hd'[t][p].sub : \E j \in DOMAIN hd[t][p].sub :
              hd'[t][p].sub[i] = hd[t][p].sub[j]
      BY Zenon, <1>20
    <3>4. \A j \in DOMAIN hd[t][p].sub : hd[t][p].sub[j] \in created
      BY Zenon DEF IInv, Fresh
    <3> QED BY Zenon, <3>1, <3>2, <3>3, <3>4
  <2> QED BY Zenon, <1>2, <2>1, <2>2
<1>15. Ranked(hd'[t], rank)
  <2>1. DOMAIN <<>> = {}
    OBVIOUS
  <2> SUFFICES ASSUME NEW p \in Regions
               PROVE  /\ hd'[t][p].parent # None => rank[hd'[t][p].parent] < rank[p]
                      /\ \A i \in DOMAIN hd'[t][p].sub : rank[p] < rank[hd'[t][p].sub[i]]
    BY Zenon DEF Ranked
  <2>2. CASE p = r
    BY Zenon, <1>7, <1>9, <2>1, <2>2
  <2>3. CASE p # r
    <3>1. hd'[t][p].parent = hd[t][p].parent
      BY Zenon, <1>8, <1>9, <2>3
    <3>2. \A i \in DOMAIN hd'[t][p].sub : \E j \in DOMAIN hd[t][p].sub :
              hd'[t][p].sub[i] = hd[t][p].sub[j]
      BY Zenon, <1>20, <2>3
    <3> QED BY Zenon, <1>3, <3>1, <3>2 DEF Ranked
  <2> QED BY Zenon, <2>2, <2>3
<1>16. <<>> \in Seq(Todo) /\ Len(<<>>) = 0 /\ Plain(<<>>) /\ Pending(<<>>, hd'[t], rank)
  BY DEF Plain, Pending
<1>17. Pending(<<>> \o Tail(q), hd'[t], rank)
  <2>1. SameAbove(hd[t], hd'[t], r, rank)
    <3>1. \A p \in Regions : rank[p] < rank[r] => p \in Regions \ {r}
      BY <1>3
    <3> QED BY Zenon, <1>8, <1>9, <3>1 DEF SameAbove
  <2>2. Under(<<>>, r, rank)
    BY DEF Under
  <2> QED BY Zenon, <1>2, <1>3, <1>5, <1>16, <1>19, <2>1, <2>2, PendingSpliced
<1>18. q[1][1] # "create"
  BY <1>2
<1> QED BY Zenon, <1>1, <1>2, <1>6, <1>9, <1>11, <1>12, <1>13, <1>14, <1>15, <1>16, <1>17, <1>18, <1>19,
           StepKeeps

\* The part of __xregion_lockop on the region itself.
LEMMA LockKeeps ==
    ASSUME Counting, IInv, NEW t \in Threads, Lock(t)
    PROVE  IInv'
<1> DEFINE q == todo[t]
           r == q[1][2]
           c == q[1][3]
           k == hd[t][r]
           k2 == [k EXCEPT !.wr = k.wr + c[2], !.rd = k.rd + c[3]]
<1>1. PICK rank \in [Regions -> Nat] : Layered(rank)
  BY Zenon DEF IInv
<1>2. /\ q \in Seq(Todo) /\ q # <<>> /\ Head(q) = q[1] /\ 1 \in DOMAIN q /\ q[1][1] = "lock"
      /\ r \in Regions /\ r \in created /\ c \in Counts /\ depth[t] # -1
  BY Zenon, HeadFacts DEF Lock, IInv
<1>3. /\ hd \in [Threads -> [Regions -> Handles]] /\ k \in Handles
      /\ rank[r] \in Nat /\ Ranked(hd[t], rank) /\ Pending(q, hd[t], rank)
  <2>1. TypeOK /\ rank \in [Regions -> Nat] /\ Layered(rank) /\ t \in Threads
    BY Zenon, <1>1 DEF IInv
  <2>2. hd \in [Threads -> [Regions -> Handles]]
    BY Zenon, <2>1 DEF TypeOK
  <2>5. k \in Handles
    BY Zenon, <1>2, <2>1, <2>2
  <2>3. rank[r] \in Nat
    BY Zenon, <1>2, <2>1
  <2>7. \A v \in Threads : Ranked(hd[v], rank) /\ Pending(todo[v], hd[v], rank)
    BY Zenon, <2>1 DEF Layered
  <2>4. Ranked(hd[t], rank) /\ Pending(q, hd[t], rank)
    BY Zenon, <2>1, <2>7
  <2> QED BY Zenon, <2>2, <2>3, <2>4, <2>5
<1>4. UNCHANGED <<g_rcnt, frees, created, depth>> /\ q[1][1] # "create"
  BY Zenon, <1>2 DEF Lock
<1>7. k = hd[t][r] /\ q = todo[t] /\ r = q[1][2]
  OBVIOUS
<1>8. /\ k.wr \in Nat /\ k.rd \in Nat /\ c[2] \in Int /\ c[3] \in Int
      /\ Asserted(t, r, c) => k.wr + c[2] >= 0 /\ k.rd + c[3] >= 0
  <2>1. k.wr \in Nat /\ k.rd \in Nat
    BY <1>3 DEF Handles
  <2>2. c[2] \in Int /\ c[3] \in Int
    BY <1>2 DEF Counts
  <2> QED BY Zenon, <2>1, <2>2 DEF Asserted
<1>9. Len(q) > 1 /\ q[2][1] = "unlink" => k.rcnt > 0 /\ c = <<0, -k.wr, -k.rd>>
  BY Zenon, <1>2, <1>3, FirstDue
<1> HIDE DEF q, r, c, k
<1>5. CASE quit' = "lockop" /\ UNCHANGED <<wr_cv, rd_cnt, hd, todo>>
  BY Zenon, <1>4, <1>5, Stops DEF shared
<1>6. CASE /\ Asserted(t, r, c) /\ CanWrite(t, r, c) /\ CanRead(t, r, c)
           /\ wr_cv' = [wr_cv EXCEPT ![r] = WriterAfter(t, r, c)]
           /\ rd_cnt' = [rd_cnt EXCEPT ![r] = ReadersAfter(t, r, c)]
           /\ hd' = [hd EXCEPT ![t][r].wr = @ + c[2], ![t][r].rd = @ + c[3]]
           /\ Rest(t, <<>>)
           /\ quit' \in {"no", "lockop"}
  <2>1. k2 \in Handles /\ k2.wr = k.wr + c[2] /\ k2.rd = k.rd + c[3]
    <3>1. k.wr + c[2] \in Nat /\ k.rd + c[3] \in Nat
      BY <1>6, <1>8
    <3> QED BY Zenon, <1>3, <3>1 DEF Handles
  <2>2. k2.rcnt = k.rcnt /\ k2.sub = k.sub /\ k2.parent = k.parent
    BY <1>3 DEF Handles
  <2>3. /\ hd' \in [Threads -> [Regions -> Handles]] /\ \A v \in Threads \ {t} : hd'[v] = hd[v]
        /\ hd'[t][r] = k2 /\ \A p \in Regions \ {r} : hd'[t][p] = hd[t][p]
    <3> DEFINE h2 == [hd[t] EXCEPT ![r] = k2]
    <3>1. hd' = [hd EXCEPT ![t] = h2]
      BY Zenon, <1>6 DEF k
    <3> HIDE DEF k2
    <3>2. /\ h2 \in [Regions -> Handles] /\ h2[r] = k2
          /\ \A p \in Regions \ {r} : h2[p] = hd[t][p]
      BY <1>2, <1>3, <2>1
    <3> HIDE DEF h2
    <3> QED BY <1>3, <3>1, <3>2
  <2> HIDE DEF k2
  <2>4. LockWords' /\ TreeExclusion'
    <3>1. Granted(t, r, c)
      BY Zenon, <1>6, <1>7, <2>1, <2>3 DEF Granted
    <3> QED BY Zenon, <1>2, <3>1, LockGranted DEF IInv
  <2>5. \A v \in Threads, p \in Regions :
            /\ hd'[v][p].parent = hd[v][p].parent /\ hd'[v][p].sub = hd[v][p].sub
            /\ hd'[v][p].rcnt = hd[v][p].rcnt
    <3> SUFFICES ASSUME NEW v \in Threads, NEW p \in Regions
                 PROVE  /\ hd'[v][p].parent = hd[v][p].parent /\ hd'[v][p].sub = hd[v][p].sub
                        /\ hd'[v][p].rcnt = hd[v][p].rcnt
      BY Zenon
    <3>1. CASE v # t \/ p # r
      <4>1. hd'[v][p] = hd[v][p]
        BY Zenon, <2>3, <3>1
      <4> QED BY Zenon, <4>1
    <3>2. CASE v = t /\ p = r
      BY Zenon, <1>7, <2>2, <2>3, <3>2
    <3> QED BY Zenon, <3>1, <3>2
  <2>6. FreedOnce'
    BY Zenon, <1>4, <2>5, SameUsers DEF IInv
  <2>7. wr_cv' \in [Regions -> Threads \cup {None}] /\ rd_cnt' \in [Regions -> Nat]
    <3>1. WriterAfter(t, r, c) \in Threads \cup {None}
      BY <1>2 DEF WriterAfter, IInv, TypeOK
    <3>2. rd_cnt' \in [Regions -> Nat]
      <4>1. \A p \in Regions : rd_cnt'[p] \in Nat
        <5>1. \A p \in Regions : rd_cnt'[p] = Cardinality(Readers(p)')
          BY Zenon, <2>4 DEF LockWords
        <5>2. \A p \in Regions : Readers(p)' \in SUBSET Threads
          BY Zenon DEF Readers
        <5> QED BY <5>1, <5>2, TreeAssumption DEF Counting, Subsets, Sizes
      <4>2. rd_cnt' = [p \in Regions |-> rd_cnt'[p]]
        BY Zenon, <1>6 DEF IInv, TypeOK
      <4> QED BY <4>1, <4>2
    <3> QED BY <1>2, <1>6, <3>1, <3>2 DEF IInv, TypeOK
  <2>8. TypeOK' <=> DOMAIN todo' = Threads /\ \A v \in Threads : todo'[v] \in Seq(Todo)
    BY <1>4, <1>6, <2>3, <2>7 DEF IInv, TypeOK
  <2>9. \A p \in Regions : /\ p \notin created => hd'[t][p] = NoHandle /\ wr_cv'[p] = None
                           /\ hd'[t][p].parent \in created \cup {None}
                           /\ \A i \in DOMAIN hd'[t][p].sub : hd'[t][p].sub[i] \in created
    <3>1. \A p \in Regions \ {r} : wr_cv'[p] = wr_cv[p]
      BY <1>6 DEF IInv, TypeOK
    <3> SUFFICES ASSUME NEW p \in Regions
                 PROVE  /\ p \notin created => hd'[t][p] = NoHandle /\ wr_cv'[p] = None
                        /\ hd'[t][p].parent \in created \cup {None}
                        /\ \A i \in DOMAIN hd'[t][p].sub : hd'[t][p].sub[i] \in created
      BY Zenon
    <3>2. p \notin created => hd'[t][p] = NoHandle /\ wr_cv'[p] = None
      BY Zenon, <1>2, <2>3, <3>1 DEF IInv, Fresh
    <3>3. hd'[t][p].parent = hd[t][p].parent /\ hd'[t][p].sub = hd[t][p].sub
      BY Zenon, <2>5
    <3>4. /\ hd[t][p].parent \in created \cup {None}
          /\ \A i \in DOMAIN hd[t][p].sub : hd[t][p].sub[i] \in created
      BY Zenon DEF IInv, Fresh
    <3> QED BY Zenon, <3>2, <3>3, <3>4
  <2>10. Ranked(hd'[t], rank)
    BY Zenon, <1>3, <2>5 DEF Ranked
  <2>11. <<>> \in Seq(Todo) /\ Len(<<>>) = 0 /\ Plain(<<>>) /\ Pending(<<>>, hd'[t], rank)
    BY DEF Plain, Pending
  <2>12. Pending(<<>> \o Tail(q), hd'[t], rank)
    <3>1. ASSUME Len(q) > 1, q[2][1] = "unlink" PROVE Unlocks(<<>>, r, hd'[t], rank)
      <4>1. k.rcnt > 0 /\ c = <<0, -k.wr, -k.rd>>
        BY Zenon, <1>9, <3>1
      <4>2. c[2] = -k.wr /\ c[3] = -k.rd
        BY <4>1
      <4>3. k2.wr = 0 /\ k2.rd = 0
        BY <1>8, <2>1, <4>2
      <4>4. ~(Len(<<>>) > 0) /\ 1 .. Len(<<>>) - 1 = {}
        OBVIOUS
      <4> QED BY Zenon, <2>2, <2>3, <4>1, <4>3, <4>4 DEF Unlocks
    <3>2. SameAbove(hd[t], hd'[t], r, rank)
      <4>1. ~(rank[r] < rank[r])
        BY <1>3
      <4> QED BY Zenon, <2>3, <4>1 DEF SameAbove
    <3>3. Under(<<>>, r, rank)
      BY DEF Under
    <3> QED BY Zenon, <1>2, <1>3, <1>7, <2>11, <3>1, <3>2, <3>3, PendingSpliced
  <2> QED BY Zenon, <1>1, <1>2, <1>4, <1>6, <1>7, <2>3, <2>4, <2>6, <2>8, <2>9, <2>10, <2>11, <2>12,
             StepKeeps
<1> QED
  <2>1. Head(todo[t]) = q[1]
    BY Zenon, <1>2 DEF q
  <2> QED BY Zenon, <2>1, <1>5, <1>6 DEF Lock, q, r, c

\* What a list holds.
LEMMA TakesFrom ==
    ASSUME NEW S, NEW f \in Seq(S), NEW n \in Nat, Len(f) = n, NEW i \in 1 .. n
    PROVE  f[i] \in S
OBVIOUS

\* A function on 1 .. n is a list.
LEMMA MakesSeq ==
    ASSUME NEW n \in Nat, NEW f \in [1 .. n -> Todo]
    PROVE  f \in Seq(Todo) /\ Len(f) = n
OBVIOUS

\* A step is what it consists of.
LEMMA StepIs ==
    ASSUME NEW e, NEW what, NEW x, NEW c, e = <<what, x, c>>
    PROVE  Is(e, what, x, c)
BY DEF Is

\* The steps of __xregion_refcnt after the last reference is given up.
LEMMA ReleaseSteps ==
    ASSUME TypeOK, NEW t \in Threads, NEW r \in Regions
    PROVE  LET s == Release(t, r)
               k == hd[t][r]
               n == Len(k.sub)
           IN /\ s \in Seq(Todo) /\ Len(s) = n + 2 /\ n \in Nat /\ DOMAIN k.sub = 1 .. n
              /\ \A i \in 1 .. n : Is(s[i], "cap", k.sub[i], <<-hd[t][k.sub[i]].rcnt, 0, 0>>)
              /\ Is(s[n + 1], "lockop", r, <<0, -k.wr, -k.rd>>)
              /\ Is(s[n + 2], "unlink", r, <<0, 0, 0>>)
<1> DEFINE k == hd[t][r]
           n == Len(k.sub)
           a == [i \in DOMAIN k.sub |-> <<"cap", k.sub[i], <<-hd[t][k.sub[i]].rcnt, 0, 0>>>>]
           b == << <<"lockop", r, <<0, -k.wr, -k.rd>>>>, <<"unlink", r, <<0, 0, 0>>>> >>
<1>1. k \in Handles /\ \A p \in Regions : hd[t][p] \in Handles
  BY Zenon DEF TypeOK
<1>2. k.sub \in Seq(Regions) /\ n \in Nat /\ DOMAIN k.sub = 1 .. n /\ k.wr \in Nat /\ k.rd \in Nat
  BY <1>1 DEF Handles
<1>3. \A i \in 1 .. n : a[i] = <<"cap", k.sub[i], <<-hd[t][k.sub[i]].rcnt, 0, 0>>>>
  BY Zenon, <1>2
<1>4. \A i \in 1 .. n : <<"cap", k.sub[i], <<-hd[t][k.sub[i]].rcnt, 0, 0>>>> \in Todo
  <2> SUFFICES ASSUME NEW i \in 1 .. n
               PROVE  <<"cap", k.sub[i], <<-hd[t][k.sub[i]].rcnt, 0, 0>>>> \in Todo
    BY Zenon
  <2>1. k.sub[i] \in Regions
    BY <1>2, TakesFrom
  <2>2. hd[t][k.sub[i]].rcnt \in Nat
    BY <1>1, <2>1 DEF Handles
  <2> QED BY <2>1, <2>2 DEF Todo, Counts
<1>5. a \in Seq(Todo) /\ Len(a) = n
  <2>1. a \in [1 .. n -> Todo]
    BY Zenon, <1>2, <1>3, <1>4
  <2> QED BY Zenon, <1>2, <2>1, MakesSeq
<1>6. b[1] = <<"lockop", r, <<0, -k.wr, -k.rd>>>> /\ b[2] = <<"unlink", r, <<0, 0, 0>>>>
  OBVIOUS
<1>7. b \in Seq(Todo) /\ Len(b) = 2 /\ 1 \in 1 .. 2 /\ 2 \in 1 .. 2
  <2>1. b[1] \in Todo /\ b[2] \in Todo
    BY <1>2 DEF Todo, Counts
  <2> QED BY <2>1
<1>8. Release(t, r) = a \o b
  BY Zenon DEF Release
<1> HIDE DEF a, b, k, n
<1>9. /\ a \o b \in Seq(Todo) /\ Len(a \o b) = n + 2
      /\ \A i \in 1 .. n : (a \o b)[i] = a[i]
      /\ \A i \in 1 .. 2 : (a \o b)[n + i] = b[i]
  <2>1. /\ a \o b \in Seq(Todo) /\ Len(a \o b) = Len(a) + Len(b)
        /\ \A i \in 1 .. Len(a) : (a \o b)[i] = a[i]
        /\ \A i \in 1 .. Len(b) : (a \o b)[Len(a) + i] = b[i]
    BY Zenon, <1>5, <1>7, Joined
  <2>2. Len(a) = n /\ Len(b) = 2
    BY Zenon, <1>5, <1>7
  <2> QED BY Zenon, <2>1, <2>2
<1>10. \A i \in 1 .. n : Is((a \o b)[i], "cap", k.sub[i], <<-hd[t][k.sub[i]].rcnt, 0, 0>>)
  <2>1. \A i \in 1 .. n : (a \o b)[i] = <<"cap", k.sub[i], <<-hd[t][k.sub[i]].rcnt, 0, 0>>>>
    BY Zenon, <1>3, <1>9
  <2> QED BY Zenon, <2>1, StepIs
<1>11. /\ Is((a \o b)[n + 1], "lockop", r, <<0, -k.wr, -k.rd>>)
       /\ Is((a \o b)[n + 2], "unlink", r, <<0, 0, 0>>)
  <2>1. (a \o b)[n + 1] = b[1] /\ (a \o b)[n + 2] = b[2]
    BY Zenon, <1>7, <1>9
  <2> QED BY Zenon, <1>6, <2>1, StepIs
<1> QED BY Zenon, <1>2, <1>8, <1>9, <1>10, <1>11 DEF k, n

\* __xregion_refcnt: a count changes, or the last reference is given up.
LEMMA CapThKeeps ==
    ASSUME IInv, NEW t \in Threads, CapTh(t)
    PROVE  IInv'
<1> DEFINE q == todo[t]
           r == q[1][2]
           c == q[1][3]
           k == hd[t][r]
           n == k.rcnt + c[1]
<1>1. PICK rank \in [Regions -> Nat] : Layered(rank)
  BY Zenon DEF IInv
<1>2. /\ q \in Seq(Todo) /\ q # <<>> /\ Head(q) = q[1] /\ 1 \in DOMAIN q /\ q[1][1] = "cap"
      /\ r \in Regions /\ r \in created /\ c \in Counts /\ depth[t] # -1
  BY Zenon, HeadFacts DEF CapTh, IInv
<1>3. /\ hd \in [Threads -> [Regions -> Handles]] /\ k \in Handles /\ c[1] \in Int
      /\ rank[r] \in Nat /\ Ranked(hd[t], rank) /\ Pending(q, hd[t], rank)
  <2>1. TypeOK /\ rank \in [Regions -> Nat] /\ Layered(rank) /\ t \in Threads
    BY Zenon, <1>1 DEF IInv
  <2>2. hd \in [Threads -> [Regions -> Handles]]
    BY Zenon, <2>1 DEF TypeOK
  <2>5. k \in Handles
    BY Zenon, <1>2, <2>1, <2>2
  <2>6. c[1] \in Int
    BY <1>2 DEF Counts
  <2>3. rank[r] \in Nat
    BY Zenon, <1>2, <2>1
  <2>7. \A v \in Threads : Ranked(hd[v], rank) /\ Pending(todo[v], hd[v], rank)
    BY Zenon, <2>1 DEF Layered
  <2>4. Ranked(hd[t], rank) /\ Pending(q, hd[t], rank)
    BY Zenon, <2>1, <2>7
  <2> QED BY Zenon, <2>2, <2>3, <2>4, <2>5, <2>6
<1>4. UNCHANGED <<wr_cv, rd_cnt, g_rcnt, frees, created, depth>>
  BY Zenon DEF CapTh, shared
<1>5. ~(Len(q) > 1 /\ q[2][1] = "unlink")
  <2> SUFFICES ASSUME Len(q) > 1, q[2][1] = "unlink"
               PROVE  FALSE
    BY Zenon
  <2>1. q[1][1] \in {"lockop", "lock"}
    BY Zenon, <1>2, <1>3, FirstDue
  <2> QED BY <1>2, <2>1
<1>9. q[1][1] # "create"
  BY <1>2
<1>10. k = hd[t][r] /\ q = todo[t] /\ r = q[1][2] /\ n = k.rcnt + c[1]
  OBVIOUS
<1> HIDE DEF q, r, c, k, n
<1>6. CASE quit' = "refcnt" /\ UNCHANGED <<hd, todo>>
  BY Zenon, <1>4, <1>6, Stops DEF shared
<1>7. CASE /\ k.rcnt > 0 /\ n > 0 /\ hd' = [hd EXCEPT ![t][r].rcnt = n]
           /\ Rest(t, << <<"lockop", r, c>> >>) /\ quit' = quit
  <2> DEFINE s == << <<"lockop", r, c>> >>
             k2 == [k EXCEPT !.rcnt = n]
  <2>1. s \in Seq(Todo) /\ Len(s) = 1 /\ s[1] = <<"lockop", r, c>>
    BY <1>2 DEF Todo
  <2>2. k2 \in Handles /\ n \in Nat
    <3>1. k.rcnt \in Nat
      BY <1>3 DEF Handles
    <3>2. n \in Nat
      BY <1>3, <1>7, <1>10, <3>1
    <3> QED BY Zenon, <1>3, <3>2 DEF Handles
  <2>3. /\ hd' \in [Threads -> [Regions -> Handles]] /\ \A v \in Threads \ {t} : hd'[v] = hd[v]
        /\ hd'[t][r] = k2 /\ \A p \in Regions \ {r} : hd'[t][p] = hd[t][p]
    BY Zenon, <1>2, <1>3, <1>7, <1>10, <2>2
  <2>4. /\ k2.rcnt = n /\ k2.wr = k.wr /\ k2.rd = k.rd /\ k2.sub = k.sub /\ k2.parent = k.parent
    BY <1>3 DEF Handles
  <2> HIDE DEF k2, s
  <2>5. \A v \in Threads, p \in Regions :
            /\ hd'[v][p].wr = hd[v][p].wr /\ hd'[v][p].rd = hd[v][p].rd
            /\ hd'[v][p].parent = hd[v][p].parent /\ hd'[v][p].sub = hd[v][p].sub
            /\ hd'[v][p].rcnt > 0 <=> hd[v][p].rcnt > 0
    <3> SUFFICES ASSUME NEW v \in Threads, NEW p \in Regions
                 PROVE  /\ hd'[v][p].wr = hd[v][p].wr /\ hd'[v][p].rd = hd[v][p].rd
                        /\ hd'[v][p].parent = hd[v][p].parent /\ hd'[v][p].sub = hd[v][p].sub
                        /\ hd'[v][p].rcnt > 0 <=> hd[v][p].rcnt > 0
      BY Zenon
    <3>1. CASE v # t \/ p # r
      <4>1. hd'[v][p] = hd[v][p]
        BY Zenon, <2>3, <3>1
      <4> QED BY Zenon, <4>1
    <3>2. CASE v = t /\ p = r
      <4>1. hd'[v][p] = k2 /\ hd[v][p] = k
        BY Zenon, <1>10, <2>3, <3>2
      <4> QED BY Zenon, <1>7, <2>4, <4>1
    <3> QED BY Zenon, <3>1, <3>2
  <2>6. Rest(t, s)
    BY Zenon, <1>7 DEF s
  <2>7. Plain(s)
    BY <1>2, <2>1 DEF Plain
  <2>10. TypeOK' <=> DOMAIN todo' = Threads /\ \A v \in Threads : todo'[v] \in Seq(Todo)
    BY <1>4, <1>7, <2>3 DEF IInv, TypeOK
  <2>11. LockWords' /\ TreeExclusion' /\ FreedOnce'
    BY Zenon, <1>4, <2>5, SameLocks, SameUsers DEF IInv
  <2>12. \A p \in Regions : /\ p \notin created => hd'[t][p] = NoHandle /\ wr_cv'[p] = None
                            /\ hd'[t][p].parent \in created \cup {None}
                            /\ \A i \in DOMAIN hd'[t][p].sub : hd'[t][p].sub[i] \in created
    <3> SUFFICES ASSUME NEW p \in Regions
                 PROVE  /\ p \notin created => hd'[t][p] = NoHandle /\ wr_cv'[p] = None
                        /\ hd'[t][p].parent \in created \cup {None}
                        /\ \A i \in DOMAIN hd'[t][p].sub : hd'[t][p].sub[i] \in created
      BY Zenon
    <3>1. p \notin created => hd'[t][p] = NoHandle /\ wr_cv'[p] = None
      BY Zenon, <1>2, <1>4, <2>3 DEF IInv, Fresh
    <3>2. hd'[t][p].parent = hd[t][p].parent /\ hd'[t][p].sub = hd[t][p].sub
      BY Zenon, <2>5
    <3>3. /\ hd[t][p].parent \in created \cup {None}
          /\ \A i \in DOMAIN hd[t][p].sub : hd[t][p].sub[i] \in created
      BY Zenon DEF IInv, Fresh
    <3> QED BY Zenon, <3>1, <3>2, <3>3
  <2>13. Ranked(hd'[t], rank)
    BY Zenon, <1>3, <2>5 DEF Ranked
  <2>14. Pending(s \o Tail(q), hd'[t], rank)
    <3>1. DOMAIN s = {1} /\ rank[r] <= rank[r]
      BY <1>3, <2>1
    <3>2. s[1][1] = "lockop" /\ s[1][2] = r /\ "lockop" # "unlink" /\ "lockop" # "create"
      BY <2>1
    <3>3. Pending(s, hd'[t], rank) /\ Under(s, r, rank)
      BY Zenon, <1>2, <3>1, <3>2 DEF Pending, Under
    <3>4. SameAbove(hd[t], hd'[t], r, rank)
      BY Zenon, <2>5 DEF SameAbove
    <3> QED BY Zenon, <1>2, <1>3, <1>5, <1>10, <2>1, <3>3, <3>4, PendingSpliced
  <2> QED BY Zenon, <1>1, <1>2, <1>4, <1>9, <1>10, <2>1, <2>3, <2>6, <2>7, <2>10, <2>11, <2>12, <2>13,
             <2>14, StepKeeps
<1>8. CASE k.rcnt > 0 /\ Rest(t, Release(t, r)) /\ UNCHANGED <<hd, quit>>
  <2> DEFINE s == Release(t, r)
             m == Len(k.sub)
  <2>1. /\ s \in Seq(Todo) /\ Len(s) = m + 2 /\ m \in Nat /\ DOMAIN k.sub = 1 .. m
        /\ \A i \in 1 .. m : Is(s[i], "cap", k.sub[i], <<-hd[t][k.sub[i]].rcnt, 0, 0>>)
        /\ Is(s[m + 1], "lockop", r, <<0, -k.wr, -k.rd>>)
        /\ Is(s[m + 2], "unlink", r, <<0, 0, 0>>)
    BY Zenon, <1>2, <1>10, ReleaseSteps DEF IInv
  <2>2. Rest(t, s)
    BY Zenon, <1>8
  <2> HIDE DEF s, m
  <2>3. \A i \in 1 .. m : k.sub[i] \in created /\ k.sub[i] \in Regions /\ rank[r] < rank[k.sub[i]]
    <3>1. \A i \in 1 .. m : k.sub[i] \in created /\ rank[r] < rank[k.sub[i]]
      BY Zenon, <1>2, <1>3, <1>10, <2>1 DEF IInv, Fresh, Ranked
    <3> QED BY Zenon, <3>1 DEF IInv, TypeOK
  <2>4. DOMAIN s = 1 .. m + 2
    BY <2>1
  <2>5. \A i \in 1 .. m + 2 : i \in 1 .. m \/ i = m + 1 \/ i = m + 2
    BY <2>1
  <2>6. \A i \in 1 .. m + 2 : s[i][1] # "create" /\ s[i][2] \in created /\ s[i][2] \in Regions
    <3> "cap" # "create" /\ "lockop" # "create" /\ "unlink" # "create"
      OBVIOUS
    <3> QED BY Zenon, <1>2, <2>1, <2>3, <2>5 DEF Is
  <2>7. Plain(s)
    BY Zenon, <2>4, <2>6 DEF Plain
  <2>10. TypeOK' <=> DOMAIN todo' = Threads /\ \A v \in Threads : todo'[v] \in Seq(Todo)
    BY <1>4, <1>8 DEF IInv, TypeOK
  <2>11. LockWords' /\ TreeExclusion' /\ FreedOnce'
    BY Zenon, <1>4, <1>8, SameLocks, SameUsers DEF IInv
  <2>12. \A p \in Regions : /\ p \notin created => hd'[t][p] = NoHandle /\ wr_cv'[p] = None
                            /\ hd'[t][p].parent \in created \cup {None}
                            /\ \A i \in DOMAIN hd'[t][p].sub : hd'[t][p].sub[i] \in created
    BY Zenon, <1>4, <1>8 DEF IInv, Fresh
  <2>13. Ranked(hd'[t], rank) /\ hd'[t] = hd[t] /\ \A v \in Threads \ {t} : hd'[v] = hd[v]
    BY Zenon, <1>3, <1>8
  <2>14. Pending(s \o Tail(q), hd[t], rank)
    <3>1. Pending(s, hd[t], rank)
      <4> SUFFICES ASSUME NEW j \in DOMAIN s, s[j][1] = "unlink"
                   PROVE  Due(s, j, hd[t], rank)
        BY Zenon DEF Pending
      <4>1. j \notin 1 .. m /\ j # m + 1
        BY <2>1 DEF Is
      <4>2. j = m + 2 /\ j - 2 = m /\ j # 1 /\ j - 1 = m + 1
        BY <2>1, <2>4, <2>5, <4>1
      <4>3. s[j][2] = r /\ s[j - 1][1] = "lockop" /\ s[j - 1][2] = r
            /\ s[j - 1][3] = <<0, -k.wr, -k.rd>>
        BY Zenon, <2>1, <4>2 DEF Is
      <4>4. \A i \in 1 .. j - 2 : s[i][1] # "create" /\ rank[r] < rank[s[i][2]]
        <5> "cap" # "create"
          OBVIOUS
        <5> QED BY Zenon, <2>1, <2>3, <4>2 DEF Is
      <4> QED BY Zenon, <1>8, <1>10, <4>2, <4>3, <4>4 DEF Due
    <3>2. Under(s, r, rank)
      <4>1. \A i \in 1 .. m : rank[s[i][2]] \in Nat /\ rank[r] < rank[s[i][2]]
        <5>1. \A i \in 1 .. m : rank[k.sub[i]] \in Nat
          BY <2>3
        <5> QED BY Zenon, <2>1, <2>3, <5>1 DEF Is
      <4>2. \A i \in 1 .. m + 2 : rank[r] <= rank[s[i][2]]
        <5>1. \A i \in 1 .. m : rank[r] <= rank[s[i][2]]
          BY <1>3, <4>1
        <5>2. s[m + 1][2] = r /\ s[m + 2][2] = r /\ rank[r] <= rank[r]
          BY <1>3, <2>1 DEF Is
        <5> QED BY Zenon, <2>5, <5>1, <5>2
      <4> QED BY Zenon, <2>4, <2>6, <4>2 DEF Under
    <3>3. SameAbove(hd[t], hd[t], r, rank)
      BY Zenon DEF SameAbove
    <3> QED BY Zenon, <1>2, <1>3, <1>5, <1>10, <2>1, <3>1, <3>2, <3>3, PendingSpliced
  <2> QED BY Zenon, <1>1, <1>2, <1>4, <1>9, <1>10, <2>1, <2>2, <2>7, <2>10, <2>11, <2>12, <2>13, <2>14,
             StepKeeps
<1> QED
  <2>1. Head(todo[t]) = q[1]
    BY Zenon, <1>2 DEF q
  <2> QED BY Zenon, <2>1, <1>6, <1>7, <1>8 DEF CapTh, q, r, c, k, n

\* The steps of __xregion_lockop.
LEMMA LockStepsFacts ==
    ASSUME TypeOK, NEW t \in Threads, NEW r \in Regions, NEW c \in Counts
    PROVE  LET s == LockSteps(t, r, c)
               k == hd[t][r]
               n == Len(k.sub)
           IN /\ s \in Seq(Todo) /\ Len(s) = n + 1 /\ n \in Nat /\ DOMAIN k.sub = 1 .. n
              /\ \A i \in 1 .. n : Is(s[i], "lockop", k.sub[i], c)
              /\ Is(s[n + 1], "lock", r, c)
<1> DEFINE k == hd[t][r]
           n == Len(k.sub)
           a == [i \in DOMAIN k.sub |-> <<"lockop", k.sub[i], c>>]
           b == << <<"lock", r, c>> >>
<1>1. k.sub \in Seq(Regions) /\ n \in Nat /\ DOMAIN k.sub = 1 .. n
  BY DEF TypeOK, Handles
<1>2. \A i \in 1 .. n : a[i] = <<"lockop", k.sub[i], c>>
  BY Zenon, <1>1
<1>3. \A i \in 1 .. n : <<"lockop", k.sub[i], c>> \in Todo
  <2> SUFFICES ASSUME NEW i \in 1 .. n PROVE <<"lockop", k.sub[i], c>> \in Todo
    BY Zenon
  <2>1. k.sub[i] \in Regions
    BY <1>1
  <2> QED BY <2>1 DEF Todo
<1>4. a \in Seq(Todo) /\ Len(a) = n
  <2>1. a \in [1 .. n -> Todo]
    BY Zenon, <1>1, <1>2, <1>3
  <2> QED BY Zenon, <1>1, <2>1, MakesSeq
<1>5. b \in Seq(Todo) /\ Len(b) = 1 /\ b[1] = <<"lock", r, c>> /\ 1 \in 1 .. 1
  <2>1. b[1] \in Todo
    BY DEF Todo
  <2> QED BY <2>1
<1>6. LockSteps(t, r, c) = a \o b
  BY Zenon DEF LockSteps
<1> HIDE DEF a, b, k, n
<1>7. /\ a \o b \in Seq(Todo) /\ Len(a \o b) = n + 1
      /\ \A i \in 1 .. n : (a \o b)[i] = a[i]
      /\ \A i \in 1 .. 1 : (a \o b)[n + i] = b[i]
  <2>1. /\ a \o b \in Seq(Todo) /\ Len(a \o b) = Len(a) + Len(b)
        /\ \A i \in 1 .. Len(a) : (a \o b)[i] = a[i]
        /\ \A i \in 1 .. Len(b) : (a \o b)[Len(a) + i] = b[i]
    BY Zenon, <1>4, <1>5, Joined
  <2>2. Len(a) = n /\ Len(b) = 1
    BY Zenon, <1>4, <1>5
  <2> QED BY Zenon, <2>1, <2>2
<1>8. \A i \in 1 .. n : Is((a \o b)[i], "lockop", k.sub[i], c)
  <2>1. \A i \in 1 .. n : (a \o b)[i] = <<"lockop", k.sub[i], c>>
    BY Zenon, <1>2, <1>7
  <2> QED BY Zenon, <2>1, StepIs
<1>9. Is((a \o b)[n + 1], "lock", r, c)
  <2>1. (a \o b)[n + 1] = <<"lock", r, c>>
    BY Zenon, <1>5, <1>7
  <2> QED BY Zenon, <2>1, StepIs
<1> QED BY Zenon, <1>1, <1>6, <1>7, <1>8, <1>9 DEF k, n

\* __xregion_lockop: nothing to do, or the sub-regions and then the region itself.
LEMMA LockopKeeps ==
    ASSUME IInv, NEW t \in Threads, Lockop(t)
    PROVE  IInv'
<1> DEFINE q == todo[t]
           r == q[1][2]
           c == q[1][3]
           k == hd[t][r]
<1>1. PICK rank \in [Regions -> Nat] : Layered(rank)
  BY Zenon DEF IInv
<1>2. /\ q \in Seq(Todo) /\ q # <<>> /\ Head(q) = q[1] /\ 1 \in DOMAIN q /\ q[1][1] = "lockop"
      /\ r \in Regions /\ r \in created /\ c \in Counts /\ depth[t] # -1
  BY Zenon, HeadFacts DEF Lockop, IInv
<1>3. /\ hd[t] \in [Regions -> Handles] /\ k \in Handles
      /\ rank[r] \in Nat /\ Ranked(hd[t], rank) /\ Pending(q, hd[t], rank)
  <2>1. hd[t] \in [Regions -> Handles]
    BY Zenon DEF IInv, TypeOK
  <2>2. k \in Handles /\ rank[r] \in Nat
    BY Zenon, <1>1, <1>2, <2>1
  <2>3. Ranked(hd[t], rank) /\ Pending(q, hd[t], rank)
    BY Zenon, <1>1 DEF Layered
  <2> QED BY Zenon, <2>1, <2>2, <2>3
<1>4. UNCHANGED <<wr_cv, rd_cnt, g_rcnt, frees, created, hd, depth>>
  BY DEF Lockop, shared
<1>5. q[1][1] # "create"
  BY <1>2
<1>6. Len(q) > 1 /\ q[2][1] = "unlink" => k.rcnt > 0 /\ c = <<0, -k.wr, -k.rd>>
  BY Zenon, <1>2, <1>3, FirstDue
<1>11. k = hd[t][r] /\ q = todo[t] /\ r = q[1][2]
  OBVIOUS
<1> HIDE DEF q, r, c, k
<1>7. ASSUME NEW s \in Seq(Todo), Rest(t, s), quit' = quit, Plain(s),
             Pending(s \o Tail(q), hd[t], rank)
      PROVE  IInv'
  <2>1. TypeOK' <=> DOMAIN todo' = Threads /\ \A v \in Threads : todo'[v] \in Seq(Todo)
    BY <1>4, <1>7 DEF IInv, TypeOK
  <2>2. LockWords' /\ TreeExclusion' /\ FreedOnce'
    BY Zenon, <1>4, SameLocks, SameUsers DEF IInv
  <2>3. \A p \in Regions : /\ p \notin created => hd'[t][p] = NoHandle /\ wr_cv'[p] = None
                           /\ hd'[t][p].parent \in created \cup {None}
                           /\ \A i \in DOMAIN hd'[t][p].sub : hd'[t][p].sub[i] \in created
    BY Zenon, <1>4 DEF IInv, Fresh
  <2>4. hd' = hd /\ \A v \in Threads \ {t} : hd'[v] = hd[v]
    BY Zenon, <1>4
  <2> QED BY Zenon, <1>1, <1>2, <1>3, <1>4, <1>5, <1>7, <1>11, <2>1, <2>2, <2>3, <2>4, StepKeeps
<1>8. CASE c[2] = 0 /\ c[3] = 0 /\ Rest(t, <<>>) /\ quit' = quit
  <2>1. <<>> \in Seq(Todo) /\ Len(<<>>) = 0 /\ Plain(<<>>) /\ Pending(<<>>, hd[t], rank)
    BY DEF Plain, Pending
  <2>2. ASSUME Len(q) > 1, q[2][1] = "unlink" PROVE Unlocks(<<>>, r, hd[t], rank)
    <3>1. k.rcnt > 0 /\ c = <<0, -k.wr, -k.rd>>
      BY Zenon, <1>6, <2>2
    <3>2. -k.wr = 0 /\ -k.rd = 0
      BY <1>8, <3>1
    <3>3. k.wr = 0 /\ k.rd = 0
      BY <1>3, <3>2 DEF Handles
    <3>4. ~(Len(<<>>) > 0) /\ 1 .. Len(<<>>) - 1 = {}
      OBVIOUS
    <3> QED BY Zenon, <1>11, <3>1, <3>3, <3>4 DEF Unlocks
  <2>3. Pending(<<>> \o Tail(q), hd[t], rank)
    <3>1. Under(<<>>, r, rank) /\ SameAbove(hd[t], hd[t], r, rank)
      BY DEF Under, SameAbove
    <3> QED BY Zenon, <1>2, <1>3, <1>11, <2>1, <2>2, <3>1, PendingSpliced
  <2> QED BY Zenon, <1>7, <1>8, <2>1, <2>3
<1>9. CASE Rest(t, LockSteps(t, r, c)) /\ quit' = quit
  <2> DEFINE s == LockSteps(t, r, c)
             m == Len(k.sub)
  <2>1. /\ s \in Seq(Todo) /\ Len(s) = m + 1 /\ m \in Nat /\ DOMAIN k.sub = 1 .. m
        /\ \A i \in 1 .. m : Is(s[i], "lockop", k.sub[i], c)
        /\ Is(s[m + 1], "lock", r, c)
    BY Zenon, <1>2, <1>11, LockStepsFacts DEF IInv
  <2> HIDE DEF s, m
  <2>2. \A i \in 1 .. m : k.sub[i] \in created /\ k.sub[i] \in Regions /\ rank[r] < rank[k.sub[i]]
    <3>1. \A i \in 1 .. m : k.sub[i] \in created /\ rank[r] < rank[k.sub[i]]
      BY Zenon, <1>2, <1>3, <1>11, <2>1 DEF IInv, Fresh, Ranked
    <3> QED BY Zenon, <3>1 DEF IInv, TypeOK
  <2>3. DOMAIN s = 1 .. m + 1 /\ \A i \in 1 .. m + 1 : i \in 1 .. m \/ i = m + 1
    BY <2>1
  <2>4. \A i \in 1 .. m + 1 : /\ s[i][1] \in {"lockop", "lock"} /\ s[i][2] \in created
                              /\ s[i][2] \in Regions /\ rank[r] <= rank[s[i][2]]
    <3>1. \A i \in 1 .. m : rank[k.sub[i]] \in Nat
      BY <2>2
    <3>2. \A i \in 1 .. m : rank[r] <= rank[k.sub[i]]
      BY <1>3, <2>2, <3>1
    <3>3. rank[r] <= rank[r]
      BY <1>3
    <3> QED BY Zenon, <1>2, <2>1, <2>2, <2>3, <3>2, <3>3 DEF Is
  <2>5. Plain(s) /\ Pending(s, hd[t], rank) /\ Under(s, r, rank)
    <3>1. \A i \in 1 .. m + 1 : s[i][1] # "create" /\ s[i][1] # "unlink"
      BY <2>4
    <3> QED BY Zenon, <2>3, <2>4, <3>1 DEF Plain, Pending, Under
  <2>6. ASSUME Len(q) > 1, q[2][1] = "unlink" PROVE Unlocks(s, r, hd[t], rank)
    <3>1. Len(s) # 0 /\ Len(s) = m + 1 /\ Len(s) - 1 = m
      BY <2>1
    <3>2. \A i \in 1 .. m : rank[r] < rank[s[i][2]]
      BY Zenon, <2>1, <2>2 DEF Is
    <3> QED BY Zenon, <1>6, <1>11, <2>1, <2>6, <3>1, <3>2 DEF Unlocks, Is
  <2>7. Pending(s \o Tail(q), hd[t], rank)
    <3>1. SameAbove(hd[t], hd[t], r, rank)
      BY Zenon DEF SameAbove
    <3> QED BY Zenon, <1>2, <1>3, <1>11, <2>1, <2>5, <2>6, <3>1, PendingSpliced
  <2> QED BY Zenon, <1>7, <1>9, <2>1, <2>5, <2>7 DEF s
<1>10. CASE quit' = "lockop" /\ todo' = todo
  BY Zenon, <1>4, <1>10, Stops DEF shared
<1> QED
  <2>1. Head(todo[t]) = q[1]
    BY Zenon, <1>2 DEF q
  <2> QED BY Zenon, <2>1, <1>8, <1>9, <1>10 DEF Lockop, q, r, c

-----------------------------------------------------------------------------
(* The theorems *)

INSTANCE FiniteSetTheorems

\* The i-th largest of a finite set of numbers is one of them.
LEMMA DescendingIn ==
    ASSUME NEW S \in SUBSET Nat, IsFiniteSet(S)
    PROVE  /\ Cardinality(S) \in Nat
           /\ DOMAIN Descending(S) = 1 .. Cardinality(S)
           /\ \A k \in 1 .. Cardinality(S) : Descending(S)[k] \in S
<1> DEFINE n == Cardinality(S)
           Above(i) == {j \in S : j >= i}
           f == [i \in S |-> Cardinality(Above(i))]
<1>1. n \in Nat /\ IsFiniteSet(1 .. n) /\ Cardinality(1 .. n) = n
  BY FS_CardinalityType, FS_Interval
<1>2. ASSUME NEW i \in S PROVE f[i] \in 1 .. n
  <2>1. IsFiniteSet(Above(i)) /\ Cardinality(Above(i)) <= n
    BY FS_Subset
  <2>2. Cardinality(Above(i)) \in Nat /\ Cardinality(Above(i)) # 0
    <3>1. i \in Above(i)
      OBVIOUS
    <3> QED BY <2>1, <3>1, FS_CardinalityType, FS_EmptySet
  <2> QED BY <1>1, <2>1, <2>2
<1>3. ASSUME NEW i \in S, NEW k \in S, i < k PROVE f[i] # f[k]
  <2>1. IsFiniteSet(Above(i)) /\ Above(k) \in SUBSET Above(i) /\ Above(i) # Above(k)
    <3>1. IsFiniteSet(Above(i))
      BY FS_Subset
    <3>2. \A j \in S : j >= k => j >= i
      BY <1>3
    <3>3. i >= i /\ ~(i >= k)
      BY <1>3
    <3> QED BY Zenon, <3>1, <3>2, <3>3
  <2>2. Cardinality(Above(i)) # Cardinality(Above(k))
    BY <2>1, FS_Subset
  <2> QED BY <2>2
<1>4. f \in Injection(S, 1 .. n)
  <2>1. f \in [S -> 1 .. n]
    BY <1>2
  <2>2. \A i, k \in S : f[i] = f[k] => i = k
    <3>1. \A i, k \in S : i # k => i < k \/ k < i
      OBVIOUS
    <3> QED BY <1>3, <3>1
  <2> QED BY Zenon, <2>1, <2>2 DEF Injection, IsInjective
<1>5. f \in Surjection(S, 1 .. n)
  <2> HIDE DEF f
  <2> QED BY <1>1, <1>4, FS_Injection
<1>6. ASSUME NEW k \in 1 .. n PROVE Descending(S)[k] \in S
  <2>1. PICK i \in S : f[i] = k
    BY Zenon, <1>5 DEF Surjection
  <2>2. Cardinality({j \in S : j >= i}) = k
    BY Zenon, <2>1
  <2>3. Descending(S)[k] = CHOOSE m \in S : Cardinality({j \in S : j >= m}) = k
    BY Zenon DEF Descending
  <2> QED BY Zenon, <2>2, <2>3
<1>7. DOMAIN Descending(S) = 1 .. n
  BY Zenon DEF Descending
<1> QED BY Zenon, <1>1, <1>6, <1>7

\* Counting, from the library.
LEMMA Counted == Counting
<1>1. Subsets
  BY FS_Subset DEF Subsets
<1>2. Sizes
  BY FS_EmptySet, FS_CardinalityType DEF Sizes
<1>3. Singles
  BY Zenon, FS_Singleton DEF Singles
<1>4. Added
  BY FS_AddElement DEF Added
<1>5. Removed
  BY FS_RemoveElement DEF Removed
<1>6. Intervals
  BY FS_Interval DEF Intervals
<1>7. Listing
  BY DescendingIn DEF Listing
<1> QED BY Zenon, <1>1, <1>2, <1>3, <1>4, <1>5, <1>6, <1>7 DEF Counting

\* Every step keeps IInv.
LEMMA NextIInv ==
    ASSUME ~ReadsBelow, HandsNoLocks
    PROVE  IInv /\ [Next]_vars => IInv'
<1> SUFFICES ASSUME IInv, [Next]_vars PROVE IInv'
  OBVIOUS
<1>1. ASSUME NEW t \in Threads, Step(t) PROVE IInv'
  BY Zenon, <1>1, Counted, CapThKeeps, LockopKeeps, LockKeeps, UnlinkKeeps, CreateKeeps DEF Step
<1>2. ASSUME NEW t \in Threads, Call(t) PROVE IInv'
  <2>1. ASSUME NEW s \in Shape, NewXregion(t, s[1], s[2]) PROVE IInv'
    <3>1. s[1] \in Regions /\ s[2] \in Regions \cup {None}
      BY TreeAssumption
    <3> QED BY Zenon, <2>1, <3>1, Counted, NewXregionKeeps
  <2>2. ASSUME NEW c \in CapOps, Cap(t, c[1], c[2]) PROVE IInv'
    <3>1. c[1] \in Regions /\ c[2] \in Counts
      BY TreeAssumption
    <3> QED BY Zenon, <2>2, <3>1, CapKeeps
  <2> QED BY Zenon, <1>2, <2>1, <2>2, Counted, SpawnKeeps DEF Call
<1>3. CASE UNCHANGED vars
  <2>1. UNCHANGED <<shared, hd, todo, depth>> /\ quit' = quit
    BY <1>3 DEF vars
  <2>2. quit' \in {"no", "refcnt", "lockop", "treecopy"}
    BY <2>1 DEF IInv, TypeOK
  <2> QED BY Zenon, <2>1, <2>2, Stops
<1> QED BY Zenon, <1>1, <1>2, <1>3 DEF Next

\* IInv is an invariant.
THEOREM Invariance ==
    ASSUME ~ReadsBelow, HandsNoLocks
    PROVE  Spec => []IInv
BY Counted, InitIInv, NextIInv, PTL DEF Spec

\* A thread that has locked a region, itself or by way of an ancestor, excludes all
\* others: whatever forests the threads have, in whatever order __xregion_lockop
\* works through them, and while __xregion_refcnt gives parts of them up.
THEOREM TreesExclude ==
    ASSUME ~ReadsBelow, HandsNoLocks
    PROVE  Spec => []TreeExclusion
<1>1. IInv => TreeExclusion
  BY DEF IInv
<1> QED BY <1>1, Invariance, PTL

\* The count of a region is the number of threads that have a handle of it, and the
\* region is freed once, by the thread that gives the last one up in __xregion_refcnt.
THEOREM RegionsFreedOnce ==
    ASSUME ~ReadsBelow, HandsNoLocks
    PROVE  Spec => []FreedOnce
<1>1. IInv => FreedOnce
  BY DEF IInv
<1> QED BY <1>1, Invariance, PTL
=============================================================================
