---------------------------- MODULE XRegionTree ----------------------------
(***************************************************************************)
(* Hierarchies of regions: every thread has a forest of handles            *)
(* (struct _XTreeHandle), and the operations on a handle run over its      *)
(* sub-regions.  _new_xregion links a handle into the forest,              *)
(* __xregion_lockop and __xregion_refcnt recurse over it, merge_caps and   *)
(* __treecopy rebuild part of it for a new thread.                         *)
(*                                                                         *)
(* The lock of one region is the atomic reader/writer lock that            *)
(* XRegionCaps implements; here a thread that cannot have it is blocked.   *)
(* The recursion is a list of things a thread still has to do, so that     *)
(* threads interleave between the regions of one call.  __treecopy up to   *)
(* its release loop is one step: the thread holds a reference to all it    *)
(* touches, and its atomic increments commute with what others do.         *)
(***************************************************************************)
EXTENDS Integers, Sequences, FiniteSets, Functions

CONSTANTS Regions, Threads, Main, None,
          Shape,       \* the <<region, parent>> of region h @ parent
          CapOps,      \* the <<h, <<rgc, wc, rc>>>> of cap(h,rgc,wc,rc)
          SpawnLists,  \* the lists of <<h, rc, wc, lc>> of spawn
          MaxCount,    \* bound on the counts a program builds up
          MaxDepth,    \* main spawns threads of depth 1, they of depth 2, ...
          Polite,      \* do programs lock only when they hold no lock?
          ReadsBelow,  \* do programs create regions below one they read?
          SignKept     \* has the quotient of caps_cmp the sign of the distance?

ASSUME MainIsThread == Main \in Threads
ASSUME NoneIsNone == None \notin Threads \cup Regions
\* A request for a write lock does not come with one for a read lock: the code
\* does not grant the two together (XRegionCaps has that case).
ASSUME NotMixed == \A c \in CapOps : c[2][2] > 0 => c[2][3] = 0
\* The distance of two handles is divided by the size of another structure; when
\* that loses the sign, the order of a list is any, and lists name no handle twice.
ASSUME MergedLists ==
    SignKept \/ \A l \in SpawnLists : IsInjective([i \in DOMAIN l |-> l[i][1]])

VARIABLES
    wr_cv, rd_cnt, g_rcnt, frees,  \* the shared part of every region
    created,   \* regions that exist or existed
    hd,        \* hd[t][r]: thread t's handle of region r
    todo,      \* what is left of t's call, as <<step, region or thread, counts>>
    depth,     \* 0 for main, -1 for a thread that does not exist yet
    quit       \* "no", or which assertion has ended the program

shared == <<wr_cv, rd_cnt, g_rcnt, frees, created>>
vars == <<shared, hd, todo, depth, quit>>

NoHandle == [rcnt |-> 0, wr |-> 0, rd |-> 0, parent |-> None, sub |-> <<>>, addr |-> 0]

Live(t) == {r \in Regions : hd[t][r].rcnt > 0}
Idle(t) == depth[t] >= 0 /\ todo[t] = <<>> /\ quit = "no"

\* A handle, and what a call has left to do: the counts go with a region.
Handles == [rcnt : Nat, wr : Nat, rd : Nat, parent : Regions \cup {None},
            sub : Seq(Regions), addr : Int]
Counts == Int \X Int \X Int
Todo == ({"cap", "lockop", "lock", "unlink"} \X Regions \X Counts)
            \cup ({"create"} \X Threads \X Counts)

TypeOK ==
    /\ wr_cv \in [Regions -> Threads \cup {None}]
    /\ rd_cnt \in [Regions -> Nat] /\ g_rcnt \in [Regions -> Nat]
    /\ frees \in [Regions -> Nat] /\ created \subseteq Regions
    /\ hd \in [Threads -> [Regions -> Handles]]
    /\ DOMAIN todo = Threads /\ \A t \in Threads : todo[t] \in Seq(Todo)
    /\ depth \in [Threads -> Nat \cup {-1}]
    /\ quit \in {"no", "refcnt", "lockop", "treecopy"}

Init ==
    /\ wr_cv = [r \in Regions |-> None]
    /\ rd_cnt = [r \in Regions |-> 0] /\ g_rcnt = [r \in Regions |-> 0]
    /\ frees = [r \in Regions |-> 0] /\ created = {}
    /\ hd = [t \in Threads |-> [r \in Regions |-> NoHandle]]
    /\ todo = [t \in Threads |-> <<>>]
    /\ depth = [t \in Threads |-> IF t = Main THEN 0 ELSE -1]
    /\ quit = "no"

Rest(t, steps) == todo' = [todo EXCEPT ![t] = steps \o Tail(@)]

\* Is s the next thing t has to do?
Doing(t, s) == todo[t] # <<>> /\ Head(todo[t])[1] = s /\ quit = "no"

-----------------------------------------------------------------------------
\* Mutant: the counts of the parent are not inherited.
InheritedNot(t, p) == [wr |-> 0, rd |-> 0]

\* The counts of the parent's handle.
Inherited(t, p) ==
    IF p = None THEN [wr |-> 0, rd |-> 0] ELSE [wr |-> hd[t][p].wr, rd |-> hd[t][p].rd]

\* _new_xregion(parent,...): the creator is the writer, with one count of its
\* own on top of its parent's; the new handle is the first sub-key, and lies
\* lower on the stack than all earlier ones.
NewXregion(t, r, p) ==
    /\ Idle(t) /\ r \notin created /\ p \in Live(t) \cup {None}
    /\ ReadsBelow \/ Inherited(t, p).rd = 0
    /\ created' = created \cup {r}
    /\ wr_cv' = [wr_cv EXCEPT ![r] = t]
    /\ g_rcnt' = [g_rcnt EXCEPT ![r] = 1]
    /\ LET new == [rcnt |-> 1, wr |-> Inherited(t, p).wr + 1, rd |-> Inherited(t, p).rd,
                   parent |-> p, sub |-> <<>>, addr |-> -1 - Cardinality(created)]
       IN hd' = [hd EXCEPT ![t] =
                   [s \in Regions |-> IF s = r THEN new
                                      ELSE IF s = p THEN [hd[t][p] EXCEPT !.sub = <<r>> \o @]
                                      ELSE hd[t][s]]]
    /\ UNCHANGED <<rd_cnt, frees, todo, depth, quit>>

-----------------------------------------------------------------------------
(* __xregion_refcnt and __xregion_lockop *)

\* The steps after the last reference is given up: the sub-regions, then all
\* locks of the region, then the handle itself.
Release(t, r) ==
    LET k == hd[t][r]
    IN [i \in DOMAIN k.sub |-> <<"cap", k.sub[i], <<-hd[t][k.sub[i]].rcnt, 0, 0>>>>]
       \o << <<"lockop", r, <<0, -k.wr, -k.rd>>>>, <<"unlink", r, <<0, 0, 0>>>> >>

\* _xregion_cap_th(rgc,wc,rc,tk)
CapTh(t) ==
    /\ Doing(t, "cap")
    /\ LET r == Head(todo[t])[2]
           c == Head(todo[t])[3]
           n == hd[t][r].rcnt + c[1]
       IN \/ /\ hd[t][r].rcnt = 0 \/ n < 0 \/ g_rcnt[r] = 0
             /\ quit' = "refcnt"
             /\ UNCHANGED <<hd, todo>>
          \/ /\ hd[t][r].rcnt > 0 /\ n > 0 /\ g_rcnt[r] > 0
             /\ hd' = [hd EXCEPT ![t][r].rcnt = n]
             /\ Rest(t, << <<"lockop", r, c>> >>)
             /\ UNCHANGED quit
          \/ /\ hd[t][r].rcnt > 0 /\ n = 0 /\ g_rcnt[r] > 0
             /\ Rest(t, Release(t, r))
             /\ UNCHANGED <<hd, quit>>
    /\ UNCHANGED <<shared, depth>>

\* Mutant: the lock operation stops at the region itself.
LockStepsFlat(t, r, c) == << <<"lock", r, c>> >>

\* Step 1 of __xregion_lockop: the sub-regions come first.
LockSteps(t, r, c) ==
    LET sub == hd[t][r].sub
    IN [i \in DOMAIN sub |-> <<"lockop", sub[i], c>>] \o << <<"lock", r, c>> >>

Lockop(t) ==
    /\ Doing(t, "lockop")
    /\ LET r == Head(todo[t])[2]
           c == Head(todo[t])[3]
       IN \/ c[2] = 0 /\ c[3] = 0 /\ Rest(t, <<>>) /\ UNCHANGED quit
          \/ /\ c[2] # 0 \/ c[3] # 0
             /\ hd[t][r].rcnt > 0
             /\ Rest(t, LockSteps(t, r, c))
             /\ UNCHANGED quit
          \/ /\ c[2] # 0 \/ c[3] # 0
             /\ hd[t][r].rcnt = 0
             /\ quit' = "lockop"
             /\ UNCHANGED todo
    /\ UNCHANGED <<shared, hd, depth>>

\* The assertion in front of the loop of __xregion_lockop and at its end: a
\* writer is the only reader.
WriterAlone(t, cv, k, n) == cv = t => k.wr > 0 /\ n = IF k.rd # 0 THEN 1 ELSE 0

\* All assertions in front of the loop.
Asserted(t, r, c) ==
    /\ hd[t][r].wr + c[2] >= 0 /\ hd[t][r].rd + c[3] >= 0
    /\ WriterAlone(t, wr_cv[r], hd[t][r], rd_cnt[r])

\* Does the loop of __xregion_lockop end at once?
CanWrite(t, r, c) ==
    LET k == hd[t][r]
    IN \/ c[2] = 0
       \/ k.wr # 0
       \/ wr_cv[r] = None /\ (rd_cnt[r] = 0 \/ (rd_cnt[r] = 1 /\ k.rd # 0))

\* Mutant: readers do not look for a writer.
CanReadAlways(t, r, c) == TRUE

CanRead(t, r, c) == c[3] = 0 \/ hd[t][r].rd # 0 \/ wr_cv[r] \in {t, None}

\* writer_cv and rd_cnt after the write and the read part.
WriterAfter(t, r, c) ==
    IF c[2] = 0 THEN wr_cv[r]
    ELSE IF hd[t][r].wr = 0 THEN t
    ELSE IF hd[t][r].wr + c[2] = 0 THEN None ELSE wr_cv[r]

ReadersAfter(t, r, c) ==
    IF c[3] = 0 THEN rd_cnt[r]
    ELSE IF hd[t][r].rd = 0 THEN rd_cnt[r] + 1
    ELSE IF hd[t][r].rd + c[3] = 0 THEN rd_cnt[r] - 1 ELSE rd_cnt[r]

\* The assertions, the loop and the part under the region's mutex; a thread
\* that may not have the lock waits.
Lock(t) ==
    /\ Doing(t, "lock")
    /\ LET r == Head(todo[t])[2]
           c == Head(todo[t])[3]
       IN \/ /\ ~Asserted(t, r, c)
             /\ quit' = "lockop"
             /\ UNCHANGED <<wr_cv, rd_cnt, hd, todo>>
          \/ /\ Asserted(t, r, c) /\ CanWrite(t, r, c) /\ CanRead(t, r, c)
             /\ wr_cv' = [wr_cv EXCEPT ![r] = WriterAfter(t, r, c)]
             /\ rd_cnt' = [rd_cnt EXCEPT ![r] = ReadersAfter(t, r, c)]
             /\ hd' = [hd EXCEPT ![t][r].wr = @ + c[2], ![t][r].rd = @ + c[3]]
             /\ Rest(t, <<>>)
             /\ quit' = IF WriterAlone(t, wr_cv'[r], hd'[t][r], rd_cnt'[r])
                        THEN "no" ELSE "lockop"
    /\ UNCHANGED <<g_rcnt, frees, created, depth>>

\* The list without r.
Without(sub, r) ==
    LET i == CHOOSE j \in DOMAIN sub : sub[j] = r
    IN IF r \in Range(sub) THEN SubSeq(sub, 1, i - 1) \o SubSeq(sub, i + 1, Len(sub)) ELSE sub

\* Step 3 of __xregion_refcnt: the handle leaves its parent's list.
Unlinked(t, r) ==
    LET p == hd[t][r].parent
    IN [s \in Regions |-> IF s = r THEN NoHandle
                          ELSE IF s = p THEN [hd[t][p] EXCEPT !.sub = Without(@, r)]
                          ELSE hd[t][s]]

\* Mutant: the count after the decrement is compared with 1.
FreesNew(r) == IF g_rcnt'[r] = 1 THEN frees[r] + 1 ELSE frees[r]

\* Who takes the shared count from 1 frees the region.
Frees(r) == IF g_rcnt[r] = 1 THEN frees[r] + 1 ELSE frees[r]

\* Steps 3 and 4.
Unlink(t) ==
    /\ Doing(t, "unlink")
    /\ LET r == Head(todo[t])[2]
       IN /\ hd' = [hd EXCEPT ![t] = Unlinked(t, r)]
          /\ g_rcnt' = [g_rcnt EXCEPT ![r] = @ - 1]
          /\ frees' = [frees EXCEPT ![r] = Frees(r)]
    /\ Rest(t, <<>>)
    /\ UNCHANGED <<wr_cv, rd_cnt, created, depth, quit>>

-----------------------------------------------------------------------------
(* spawn *)

Listed(list) == {list[i][1] : i \in DOMAIN list}

\* Mutant: the lowest address first.
OrdersUpward(t, list) ==
    {order \in Bijection(1 .. Cardinality(Listed(list)), Listed(list)) :
        \A i, j \in DOMAIN order : i < j => hd[t][order[i]].addr < hd[t][order[j]].addr}

\* The orders in which qsort with caps_cmp may leave the handles: the one with
\* the highest address first, or any.
Orders(t, list) ==
    {order \in Bijection(1 .. Cardinality(Listed(list)), Listed(list)) :
        SignKept => \A i, j \in DOMAIN order :
                        i < j => hd[t][order[i]].addr > hd[t][order[j]].addr}

\* merge_caps: one entry per handle, with the summed counts.
Total(list, r, f) ==
    SumFunctionOnSet([i \in DOMAIN list |-> list[i][f]], {i \in DOMAIN list : list[i][1] = r})

Merged(order, list) ==
    [i \in DOMAIN order |-> <<order[i], Total(list, order[i], 2), Total(list, order[i], 3),
                              Total(list, order[i], 4)>>]

\* The numbers of S, the largest first.
Descending(S) ==
    [k \in 1 .. Cardinality(S) |-> CHOOSE i \in S : Cardinality({j \in S : j >= i}) = k]

\* The handles __treecopy builds: an array in the order of o; a handle whose
\* parent is in the list is pushed onto the sub-keys of its parent.
NewTree(t, o) ==
    [r \in Regions |->
        IF r \notin Listed(o) THEN NoHandle
        ELSE LET i == CHOOSE j \in DOMAIN o : o[j][1] = r
                 subs == Descending({j \in DOMAIN o : hd[t][o[j][1]].parent = r})
             IN [rcnt |-> o[i][2], wr |-> o[i][3], rd |-> o[i][4],
                 parent |-> IF hd[t][r].parent \in Listed(o) THEN hd[t][r].parent ELSE None,
                 sub |-> [k \in DOMAIN subs |-> o[subs[k]][1]],
                 addr |-> i]]

\* The counts of r that the merged list o hands over.
Given(o, r, f) == \E i \in DOMAIN o : o[i][1] = r /\ o[i][f] # 0

\* The program has what it hands over, and hands over references.
Owns(t, o) ==
    \A i \in DOMAIN o : LET k == hd[t][o[i][1]]
                        IN o[i][2] \in 1 .. k.rcnt /\ k.wr >= o[i][3] /\ k.rd >= o[i][4]

\* The loop at the end of __treecopy takes the capabilities away from t, last
\* entry first; then the thread is started.
AfterCopy(o, u) ==
    [i \in DOMAIN o |-> LET e == o[Len(o) - i + 1]
                        IN <<"cap", e[1], <<-e[2], -e[3], -e[4]>>>>]
    \o << <<"create", u, <<0, 0, 0>>>> >>

\* _xspawn, up to that loop: the tree of u and the shared counts.
Spawn(t, u, list) ==
    /\ Idle(t) /\ depth[u] = -1 /\ depth[t] < MaxDepth
    /\ \A v \in Threads : \A i \in DOMAIN todo[v] : todo[v][i][2] # u
    /\ \E order \in Orders(t, list) :
          LET o == Merged(order, list)
          IN /\ Owns(t, o)
             /\ hd' = [hd EXCEPT ![u] = NewTree(t, o)]
             /\ g_rcnt' = [r \in Regions |-> g_rcnt[r] + IF r \in Listed(o) THEN 1 ELSE 0]
             /\ wr_cv' = [r \in Regions |-> IF Given(o, r, 3) THEN u ELSE wr_cv[r]]
             /\ rd_cnt' = [r \in Regions |-> rd_cnt[r] + IF Given(o, r, 4) THEN 1 ELSE 0]
             /\ quit' = IF \E r \in Regions : Given(o, r, 3) /\ wr_cv[r] # t
                        THEN "treecopy" ELSE "no"
             /\ todo' = [todo EXCEPT ![t] = AfterCopy(o, u)]
    /\ UNCHANGED <<frees, created, depth>>

Create(t) ==
    /\ Doing(t, "create")
    /\ depth' = [depth EXCEPT ![Head(todo[t])[2]] = depth[t] + 1]
    /\ Rest(t, <<>>)
    /\ UNCHANGED <<shared, hd, quit>>

-----------------------------------------------------------------------------
\* Threads and regions are finitely many, and the constants are lists of counts.
ASSUME TreeAssumption ==
    /\ IsFiniteSet(Threads) /\ IsFiniteSet(Regions)
    /\ Shape \subseteq Regions \X (Regions \cup {None})
    /\ CapOps \subseteq Regions \X Counts
    /\ \A l \in SpawnLists :
          /\ l \in Seq(Regions \X Nat \X Nat \X Nat)
          /\ \A r \in Regions, f \in 2 .. 4 : Total(l, r, f) \in Nat

HoldsNothing(t) == \A r \in Regions : hd[t][r].wr = 0 /\ hd[t][r].rd = 0

\* cap(h,rgc,wc,rc), as the type checker allows it: a thread gives up only what
\* it took on this very region, not what it has from an ancestor.
Cap(t, r, c) ==
    /\ Idle(t) /\ r \in Live(t)
    /\ hd[t][r].rcnt + c[1] \in 0 .. MaxCount
    /\ hd[t][r].wr + c[2] \in Inherited(t, hd[t][r].parent).wr .. MaxCount
    /\ hd[t][r].rd + c[3] \in Inherited(t, hd[t][r].parent).rd .. MaxCount
    /\ Polite /\ (c[2] > 0 \/ c[3] > 0) => HoldsNothing(t)
    /\ todo' = [todo EXCEPT ![t] = << <<"cap", r, c>> >>]
    /\ UNCHANGED <<shared, hd, depth, quit>>

Step(t) == CapTh(t) \/ Lockop(t) \/ Lock(t) \/ Unlink(t) \/ Create(t)

Call(t) ==
    \/ \E s \in Shape : NewXregion(t, s[1], s[2])
    \/ \E c \in CapOps : Cap(t, c[1], c[2])
    \/ \E u \in Threads, l \in SpawnLists : Spawn(t, u, l)

Next == \E t \in Threads : Step(t) \/ Call(t)

Spec == Init /\ [][Next]_vars

-----------------------------------------------------------------------------
(* Properties *)

\* Locking a region by way of an ancestor excludes just as locking it does.
TreeExclusion ==
    \A r \in Regions, t, u \in Threads :
        t # u /\ hd[t][r].wr > 0 => hd[u][r].wr = 0 /\ hd[u][r].rd = 0

\* Between calls, a thread that holds a lock on a region holds it on the whole
\* subtree: "locks acquired by ancestor regions" are counted in every handle.
CoveredByAncestors ==
    \A t \in Threads : todo[t] = <<>> =>
        \A r \in Live(t) : LET p == hd[t][r].parent
                           IN p # None => /\ hd[t][r].wr >= hd[t][p].wr
                                          /\ hd[t][r].rd >= hd[t][p].rd

\* A handle is in the list of its parent's sub-keys and in no other, a live
\* handle has a live parent, and no list holds a dead one.
TreeLinked ==
    \A t \in Threads, r \in Regions :
        /\ r \in Live(t) /\ hd[t][r].parent # None =>
              hd[t][r].parent \in Live(t) /\ r \in Range(hd[t][hd[t][r].parent].sub)
        /\ \A s \in Range(hd[t][r].sub) : s \in Live(t) /\ hd[t][s].parent = r
        /\ IsInjective(hd[t][r].sub)

\* The forests of handles that _new_xregion, __xregion_lockop, __xregion_refcnt and
\* __treecopy build stay sound: linked both ways, the locks of a parent in its children.
TreeSound == TypeOK /\ TreeLinked /\ CoveredByAncestors

\* Every region is freed exactly once, when the last thread has given it up.
FreedOnce ==
    \A r \in Regions :
        /\ g_rcnt[r] = Cardinality({t \in Threads : hd[t][r].rcnt > 0})
        /\ frees[r] = IF r \in created /\ g_rcnt[r] = 0 THEN 1 ELSE 0

\* "start off child nodes so that we don't bump into a deallocated node": no
\* reference count is decremented on a handle that has been given up.
NoDeadHandle == quit # "refcnt"

\* The assertions of __xregion_lockop hold.
LockopAssertions == quit # "lockop"

\* t waits for a lock that u holds.
WaitsFor(t, u) ==
    /\ Doing(t, "lock")
    /\ LET r == Head(todo[t])[2]
           c == Head(todo[t])[3]
       IN /\ ~(CanWrite(t, r, c) /\ CanRead(t, r, c))
          /\ hd[u][r].wr > 0 \/ hd[u][r].rd > 0

\* "this may cause DEADLOCKS if the locking ORDER is different": threads that
\* lock whole subtrees never wait for each other in a circle.
NoCircularWait ==
    \A S \in SUBSET Threads \ {{}} : \E t \in S : \A u \in S \ {t} : ~WaitsFor(t, u)
=============================================================================
