--------------------------- MODULE RuntimeProofs ----------------------------
(***************************************************************************)
(* Proofs about the frames on the stack of a thread, and about the lock that *)
(* threads take to change the words of a region.                           *)
(* RuntimeStack, for programs of any nesting that jump out of no `open'    *)
(* scope: the frame stack has the frames of the scopes the program is in,  *)
(* whatever way scopes are left.                                           *)
(* FutexLock, for any set of threads: the lock word names the owner, no    *)
(* sleeper is forgotten, and the compare-and-swap loop with its kernel     *)
(* queue implements the atomic lock of module Mutex.                       *)
(***************************************************************************)
EXTENDS RuntimeStack, FutexLock, FiniteSetTheorems, TLAPS

-----------------------------------------------------------------------------
(* RuntimeStack: the invariant *)

\* A try block or a region has a handle of its own, and no program has "open".
ScopesOwn ==
    /\ \A i \in DOMAIN scope : /\ Pushes(scope[i].kind) => scope[i].id \in Ids
                               /\ Framed(scope[i].kind) => Pushes(scope[i].kind)
    /\ \A i, j \in DOMAIN scope : scope[i].id = scope[j].id /\ scope[i].id \in Ids => i = j

\* The inductive invariant.
StackIInv == StackTypeOK /\ FramesMatchScopes /\ NoInternalError /\ RegionsReclaimed /\ ScopesOwn

-----------------------------------------------------------------------------
(* Counting frames *)

\* The a-th of c frames above the b at the bottom.
LEMMA Within ==
    ASSUME NEW b \in Nat, NEW a \in Nat, NEW c \in Nat, NEW d \in Nat, a = d + 1, a <= c
    PROVE  b + a \in 1 .. b + c
OBVIOUS

\* Frames above the b at the bottom, c of them on top of p.
LEMMA Sums ==
    ASSUME NEW b \in Nat, NEW p \in Nat, NEW c \in Nat
    PROVE  /\ (b + p) + 1 = b + (p + 1)
           /\ (b + (p + c)) - c = b + p /\ c <= b + (p + c)
OBVIOUS

\* A set of numbers that is not empty has a least one.
LEMMA NatLeast ==
    ASSUME NEW S \in SUBSET Nat, S # {}
    PROVE  \E n \in S : \A m \in S : n <= m
<1> DEFINE R == {ss \in Nat \X Nat : ss[1] < ss[2]}
<1>1. IsWellFoundedOn(R, Nat)
  BY Zenon, NatLessThanWellFounded DEF OpToRel
<1>2. PICK n \in S : \A m \in S : ~(<<m, n>> \in R)
  <2> HIDE DEF R
  <2> QED BY Zenon, <1>1, WFMin
<1>3. \A m \in S : ~(m < n)
  BY Zenon, <1>2
<1> QED BY <1>3

\* The scopes among the i outermost ones that have pushed a frame.
Pushing(i) == {j \in 1 .. i : Pushes(scope[j].kind)}

\* Pushed counts them.
LEMMA PushedType ==
    ASSUME NEW i \in Nat
    PROVE  Pushed(i) \in Nat /\ IsFiniteSet(Pushing(i)) /\ Pushed(i) = Cardinality(Pushing(i))
<1>1. IsFiniteSet(1 .. i)
  BY FS_Interval
<1>2. Pushing(i) \subseteq 1 .. i
  BY Zenon DEF Pushing
<1>3. IsFiniteSet(Pushing(i))
  BY Zenon, <1>1, <1>2, FS_Subset
<1>4. Pushed(i) = Cardinality(Pushing(i))
  BY Zenon DEF Pushed, Pushing
<1> QED BY Zenon, <1>3, <1>4, FS_CardinalityType

\* Nothing is pushed outside all scopes sc, and every scope adds its frame, if it has
\* one.
LEMMA StepIn ==
    ASSUME NEW sc, NEW i \in Nat
    PROVE  LET count(k) == Cardinality({j \in 1 .. k : Pushes(sc[j].kind)})
           IN /\ count(0) = 0
              /\ Pushes(sc[i + 1].kind) => count(i + 1) = count(i) + 1
              /\ ~Pushes(sc[i + 1].kind) => count(i + 1) = count(i)
<1> DEFINE T(k) == {j \in 1 .. k : Pushes(sc[j].kind)}
<1>1. T(0) = {}
  OBVIOUS
<1>2. Cardinality(T(0)) = 0
  BY Zenon, <1>1, FS_EmptySet
<1>3. CASE Pushes(sc[i + 1].kind)
  <2>1. T(i + 1) = T(i) \cup {i + 1} /\ i + 1 \notin T(i) /\ T(i) \subseteq 1 .. i
    BY <1>3
  <2>2. IsFiniteSet(T(i))
    <3>1. IsFiniteSet(1 .. i)
      BY FS_Interval
    <3> QED BY Zenon, <2>1, <3>1, FS_Subset
  <2> HIDE DEF T
  <2>3. Cardinality(T(i + 1)) = Cardinality(T(i)) + 1
    BY Zenon, <2>1, <2>2, FS_AddElement
  <2> QED BY Zenon, <1>2, <1>3, <2>3 DEF T
<1>4. CASE ~Pushes(sc[i + 1].kind)
  <2>1. T(i + 1) = T(i)
    BY <1>4
  <2> HIDE DEF T
  <2>2. Cardinality(T(i + 1)) = Cardinality(T(i))
    BY Zenon, <2>1
  <2> QED BY Zenon, <1>2, <1>4, <2>2 DEF T
<1> QED BY Zenon, <1>3, <1>4

\* The same of the scopes the program is in.
LEMMA PushedStep ==
    ASSUME NEW i \in Nat
    PROVE  /\ Pushed(0) = 0
           /\ Pushes(scope[i + 1].kind) => Pushed(i + 1) = Pushed(i) + 1
           /\ ~Pushes(scope[i + 1].kind) => Pushed(i + 1) = Pushed(i)
BY Zenon, StepIn DEF Pushed

\* Inner scopes have their frames above those of outer ones.
LEMMA PushedMono ==
    ASSUME NEW i \in Nat, NEW k \in Nat, i <= k
    PROVE  /\ Pushed(i) <= Pushed(k)
           /\ i < k /\ Pushes(scope[k].kind) => Pushed(i) < Pushed(k)
<1>1. ASSUME NEW m \in Nat, i <= m PROVE Pushed(i) <= Pushed(m)
  <2>1. Pushing(i) \subseteq Pushing(m)
    BY <1>1 DEF Pushing
  <2> QED BY Zenon, <2>1, PushedType, FS_Subset
<1>2. ASSUME i < k, Pushes(scope[k].kind) PROVE Pushed(i) < Pushed(k)
  <2>1. k - 1 \in Nat /\ i <= k - 1 /\ (k - 1) + 1 = k
    BY <1>2
  <2>2. Pushed(k) = Pushed(k - 1) + 1
    BY Zenon, <1>2, <2>1, PushedStep
  <2>3. Pushed(i) <= Pushed(k - 1)
    BY Zenon, <1>1, <2>1
  <2> QED BY <2>1, <2>2, <2>3, PushedType
<1> QED BY Zenon, <1>1, <1>2

\* Every frame above the base is that of a scope.
LEMMA PushedOnto ==
    ASSUME NEW k \in Nat, NEW p \in 1 .. Pushed(k)
    PROVE  \E i \in 1 .. k : Pushes(scope[i].kind) /\ Pushed(i) = p
<1> DEFINE S == {i \in Nat : p <= Pushed(i)}
<1>1. k \in S
  BY PushedType
<1>2. PICK i \in S : \A m \in S : i <= m
  BY Zenon, <1>1, NatLeast
<1>3. i <= k /\ i \in Nat /\ p <= Pushed(i) /\ p \in Nat /\ p > 0
  BY <1>1, <1>2, PushedType
<1>4. i # 0
  BY <1>3, PushedStep
<1>5. i - 1 \in Nat /\ (i - 1) + 1 = i /\ ~(p <= Pushed(i - 1))
  BY <1>2, <1>3, <1>4
<1>6. Pushed(i - 1) \in Nat /\ Pushed(i) \in Nat
  BY Zenon, <1>3, <1>5, PushedType
<1>7. Pushes(scope[i].kind)
  BY Zenon, <1>3, <1>5, <1>6, PushedStep
<1>8. Pushed(i) = Pushed(i - 1) + 1
  BY Zenon, <1>5, <1>7, PushedStep
<1> QED BY <1>3, <1>4, <1>5, <1>6, <1>7, <1>8

\* The frames of the n innermost scopes are as many as a jump pops.
LEMMA PushedNpop ==
    ASSUME ScopesOwn, NEW n \in 0 .. Len(scope), Len(scope) \in Nat,
           DOMAIN scope = 1 .. Len(scope)
    PROVE  Pushed(Len(scope)) = Pushed(Len(scope) - n) + Npop(n) /\ Npop(n) \in Nat
<1> DEFINE k == Len(scope)
           T == {i \in DOMAIN scope : i > k - n /\ Framed(scope[i].kind)}
<1>1. k \in Nat /\ k - n \in Nat
  OBVIOUS
<1>2. \A i \in DOMAIN scope : Framed(scope[i].kind) <=> Pushes(scope[i].kind)
  BY Zenon DEF ScopesOwn, Framed, Pushes
<1>3. Pushing(k) = Pushing(k - n) \cup T /\ Pushing(k - n) \cap T = {}
  BY <1>2 DEF Pushing
<1>4. T \subseteq Pushing(k)
  BY Zenon, <1>3
<1>5. IsFiniteSet(T) /\ IsFiniteSet(Pushing(k - n))
  BY Zenon, <1>1, <1>4, PushedType, FS_Subset
<1>6. Cardinality(Pushing(k)) = Cardinality(Pushing(k - n)) + Cardinality(T)
  <2>1. Cardinality(Pushing(k - n) \cap T) = 0
    BY Zenon, <1>3, FS_EmptySet
  <2>2. Cardinality(Pushing(k - n)) \in Nat /\ Cardinality(T) \in Nat
    BY Zenon, <1>5, FS_CardinalityType
  <2>3. Cardinality(Pushing(k - n) \cup T)
           = Cardinality(Pushing(k - n)) + Cardinality(T) - Cardinality(Pushing(k - n) \cap T)
    BY Zenon, <1>5, FS_Union
  <2> HIDE DEF T
  <2> QED BY <1>3, <2>1, <2>2, <2>3
<1>7. Npop(n) = Cardinality(T)
  BY Zenon DEF Npop
<1> QED BY Zenon, <1>1, <1>5, <1>6, <1>7, PushedType, FS_CardinalityType
-----------------------------------------------------------------------------
(* What the invariant says *)

\* The stack of a program that has not been ended.
LEMMA Facts ==
    ASSUME StackIInv, quit = "no"
    PROVE  /\ Len(scope) \in Nat /\ DOMAIN scope = 1 .. Len(scope)
           /\ Len(stack) \in Nat /\ DOMAIN stack = 1 .. Len(stack)
           /\ Base \in {0, 1} /\ Pushed(Len(scope)) \in Nat
           /\ Len(stack) = Base + Pushed(Len(scope))
           /\ ~in_uncaught_fun => stack[1] = [tag |-> 0, id |-> Top]
           /\ \A i \in DOMAIN scope :
                 Pushes(scope[i].kind) => stack[Base + Pushed(i)] = Frame(scope[i])
<1>1. /\ scope \in Seq([kind : Kinds \cup {"fun"}, id : Ids \cup {Top}])
      /\ stack \in Seq([tag : {0, 1}, id : Ids \cup {Top}])
  BY Zenon DEF StackIInv, StackTypeOK
<1>2. /\ Len(scope) \in Nat /\ DOMAIN scope = 1 .. Len(scope)
      /\ Len(stack) \in Nat /\ DOMAIN stack = 1 .. Len(stack)
  BY <1>1
<1>3. Base \in {0, 1}
  BY Zenon DEF Base
<1> QED BY Zenon, <1>2, <1>3, PushedType DEF StackIInv, FramesMatchScopes

\* A frame is the frame of the top handler, or of a scope the program is in.
LEMMA FrameAt ==
    ASSUME StackIInv, quit = "no", NEW k \in 1 .. Len(stack)
    PROVE  \/ ~in_uncaught_fun /\ k = 1
           \/ \E i \in DOMAIN scope : /\ Pushes(scope[i].kind) /\ k = Base + Pushed(i)
                                      /\ stack[k] = Frame(scope[i])
<1>1. CASE k = Base /\ Base = 1
  BY <1>1 DEF Base
<1>2. CASE k > Base
  <2>1. k - Base \in 1 .. Pushed(Len(scope)) /\ Len(scope) \in Nat
    BY <1>2, Facts
  <2>2. PICK i \in 1 .. Len(scope) : Pushes(scope[i].kind) /\ Pushed(i) = k - Base
    BY Zenon, <2>1, PushedOnto
  <2>3. i \in DOMAIN scope /\ k = Base + Pushed(i)
    BY <2>2, Facts
  <2> QED BY Zenon, <2>2, <2>3, Facts
<1>3. Base \in {0, 1}
  BY Zenon DEF Base
<1> QED BY <1>1, <1>2, <1>3

\* The first n elements of a sequence.
LEMMA Prefix ==
    ASSUME NEW S, NEW s \in Seq(S), NEW n \in 0 .. Len(s)
    PROVE  /\ SubSeq(s, 1, n) \in Seq(S) /\ Len(SubSeq(s, 1, n)) = n
           /\ \A i \in 1 .. n : SubSeq(s, 1, n)[i] = s[i]
OBVIOUS

\* Scopes outside those that begin or end keep their number of frames.
LEMMA PushedSame ==
    ASSUME NEW i \in Nat, \A j \in 1 .. i : scope'[j] = scope[j]
    PROVE  Pushed(i)' = Pushed(i)
<1>1. {j \in 1 .. i : Pushes(scope'[j].kind)} = {j \in 1 .. i : Pushes(scope[j].kind)}
  BY Zenon
<1> QED BY Zenon, <1>1 DEF Pushed

\* All but the m outermost scopes are left, and as many frames are popped as they
\* had pushed, after their cleanup.
LEMMA TruncIInv ==
    ASSUME StackIInv, quit = "no", quit' = "no", in_uncaught_fun' = in_uncaught_fun,
           NEW m \in 0 .. Len(scope), scope' = SubSeq(scope, 1, m),
           stack' = SubSeq(stack, 1, Base + Pushed(m)),
           pages' \in [Ids -> 0 .. MaxPages],
           \A r \in Ids : pages'[r] # 0 =>
               /\ pages'[r] = pages[r]
               /\ \A k \in DOMAIN stack :
                     k > Base + Pushed(m) => stack[k] # [tag |-> 1, id |-> r]
    PROVE  StackIInv'
<1> DEFINE b == Base + Pushed(m)
           C == [kind : Kinds \cup {"fun"}, id : Ids \cup {Top}]
           F == [tag : {0, 1}, id : Ids \cup {Top}]
<1>1. /\ Len(scope) \in Nat /\ DOMAIN scope = 1 .. Len(scope)
      /\ Len(stack) \in Nat /\ DOMAIN stack = 1 .. Len(stack)
      /\ Base \in {0, 1} /\ Pushed(Len(scope)) \in Nat
      /\ Len(stack) = Base + Pushed(Len(scope))
  BY Zenon, Facts
<1>2. m \in Nat /\ m <= Len(scope) /\ Pushed(m) \in Nat /\ Pushed(m) <= Pushed(Len(scope))
  BY <1>1, PushedMono, PushedType
<1>3. b \in 0 .. Len(stack)
  BY <1>1, <1>2
<1>4. scope \in Seq(C) /\ stack \in Seq(F)
  BY Zenon DEF StackIInv, StackTypeOK
<1>5. /\ scope' \in Seq(C) /\ Len(scope') = m /\ \A i \in 1 .. m : scope'[i] = scope[i]
  <2> HIDE DEF C
  <2> QED BY <1>4, Prefix
<1>6. /\ stack' \in Seq(F) /\ Len(stack') = b /\ \A i \in 1 .. b : stack'[i] = stack[i]
  <2> HIDE DEF F, b
  <2>1. stack' = SubSeq(stack, 1, b)
    BY Zenon DEF b
  <2>2. /\ SubSeq(stack, 1, b) \in Seq(F) /\ Len(SubSeq(stack, 1, b)) = b
        /\ \A i \in 1 .. b : SubSeq(stack, 1, b)[i] = stack[i]
    BY <1>3, <1>4, Prefix
  <2> QED BY Zenon, <2>1, <2>2
<1>7. DOMAIN scope' = 1 .. m /\ \A i \in DOMAIN scope' : i \in DOMAIN scope /\ scope'[i] = scope[i]
  BY <1>1, <1>2, <1>5
<1>8. Base' = Base
  BY Zenon DEF Base
<1>9. StackTypeOK'
  BY Zenon, <1>5, <1>6 DEF StackIInv, StackTypeOK
<1>10. FramesMatchScopes'
  <2>1. ASSUME NEW i \in 0 .. m PROVE Pushed(i)' = Pushed(i)
    <3>1. i \in Nat /\ \A j \in 1 .. i : scope'[j] = scope[j]
      BY <1>2, <1>5
    <3> QED BY Zenon, <3>1, PushedSame
  <2>2. m \in 0 .. m
    BY <1>2
  <2>3. (Len(stack) = Base + Pushed(Len(scope)))'
    <3>1. Pushed(m)' = Pushed(m)
      BY Zenon, <2>1, <2>2
    <3>2. Pushed(Len(scope))' = Pushed(m)'
      BY Zenon, <1>5 DEF Pushed
    <3> QED BY Zenon, <1>6, <1>8, <3>1, <3>2
  <2>4. ~in_uncaught_fun' => stack'[1] = [tag |-> 0, id |-> Top]
    <3>1. ~in_uncaught_fun => 1 \in 1 .. b
      BY <1>2 DEF Base
    <3> QED BY Zenon, <1>6, <3>1, Facts
  <2>5. ASSUME NEW i \in DOMAIN scope', Pushes(scope'[i].kind)
        PROVE  stack'[Base' + Pushed(i)'] = Frame(scope'[i])
    <3>1. i \in 0 .. m /\ i \in Nat /\ i <= m /\ i - 1 \in Nat /\ (i - 1) + 1 = i
      BY <1>7
    <3>2. scope'[i] = scope[i] /\ i \in DOMAIN scope
      BY Zenon, <1>7
    <3>3. Pushed(i) \in Nat /\ Pushed(i) <= Pushed(m) /\ Pushed(i) >= 1
      <4>1. Pushed(i) \in Nat /\ Pushed(i - 1) \in Nat
        BY Zenon, <3>1, PushedType
      <4>2. Pushed(i) <= Pushed(m)
        BY Zenon, <1>2, <3>1, PushedMono
      <4>3. Pushes(scope[(i - 1) + 1].kind)
        BY Zenon, <2>5, <3>1, <3>2
      <4>4. Pushed((i - 1) + 1) = Pushed(i - 1) + 1
        BY Zenon, <3>1, <4>3, PushedStep
      <4>5. Pushed(i) = Pushed(i - 1) + 1
        BY Zenon, <3>1, <4>4
      <4> QED BY <4>1, <4>2, <4>5
    <3>4. Base + Pushed(i) \in 1 .. b
      BY <1>1, <1>2, <3>3
    <3>5. stack'[Base + Pushed(i)] = Frame(scope[i])
      BY Zenon, <1>6, <2>5, <3>2, <3>4, Facts
    <3>6. Base' + Pushed(i)' = Base + Pushed(i)
      BY Zenon, <1>8, <2>1, <3>1
    <3> QED BY Zenon, <3>2, <3>5, <3>6
  <2> QED BY Zenon, <2>3, <2>4, <2>5 DEF FramesMatchScopes
<1>11. NoInternalError'
  BY Zenon DEF NoInternalError
<1>12. RegionsReclaimed'
  <2>1. SUFFICES ASSUME NEW r \in Ids, pages'[r] > 0 PROVE InScope("region", r)'
    BY Zenon DEF RegionsReclaimed
  <2>2. pages'[r] # 0 /\ pages'[r] = pages[r]
    BY <2>1
  <2>3. PICK i \in DOMAIN scope : scope[i] = [kind |-> "region", id |-> r]
    BY Zenon, <2>1, <2>2 DEF StackIInv, RegionsReclaimed, InScope
  <2>4. i <= m
    <3>1. SUFFICES ASSUME i > m PROVE FALSE
      BY <1>1, <1>2
    <3>2. Pushes(scope[i].kind) /\ Frame(scope[i]) = [tag |-> 1, id |-> r]
      BY <2>3 DEF Pushes, Frame
    <3>3. i \in Nat /\ m < i /\ m <= i
      BY <1>1, <1>2, <3>1
    <3>4. Pushed(i) \in Nat /\ Pushed(m) < Pushed(i) /\ Pushed(i) <= Pushed(Len(scope))
      <4>1. i <= Len(scope)
        BY <1>1
      <4> QED BY Zenon, <1>1, <1>2, <3>2, <3>3, <4>1, PushedMono, PushedType
    <3>5. Base + Pushed(i) \in DOMAIN stack /\ Base + Pushed(i) > b
      BY <1>1, <1>2, <3>4
    <3>6. stack[Base + Pushed(i)] = [tag |-> 1, id |-> r]
      BY Zenon, <3>2, Facts
    <3> QED BY Zenon, <2>2, <3>5, <3>6
  <2>5. i \in DOMAIN scope' /\ scope'[i] = scope[i]
    BY <1>1, <1>2, <1>5, <2>4
  <2> QED BY Zenon, <2>3, <2>5 DEF InScope
<1>13. ScopesOwn'
  <2>1. ScopesOwn
    BY Zenon DEF StackIInv
  <2>2. ASSUME NEW i \in DOMAIN scope'
        PROVE  /\ Pushes(scope'[i].kind) => scope'[i].id \in Ids
               /\ Framed(scope'[i].kind) => Pushes(scope'[i].kind)
    BY Zenon, <1>7, <2>1 DEF ScopesOwn
  <2>3. ASSUME NEW i \in DOMAIN scope', NEW j \in DOMAIN scope',
               scope'[i].id = scope'[j].id, scope'[i].id \in Ids
        PROVE  i = j
    <3>1. /\ i \in DOMAIN scope /\ j \in DOMAIN scope
          /\ scope[i].id = scope[j].id /\ scope[i].id \in Ids
      BY Zenon, <1>7, <2>3
    <3> QED BY Zenon, <2>1, <3>1 DEF ScopesOwn
  <2> QED BY Zenon, <2>2, <2>3 DEF ScopesOwn
<1> QED BY Zenon, <1>9, <1>10, <1>11, <1>12, <1>13 DEF StackIInv
-----------------------------------------------------------------------------
(* Scopes begin *)

\* A scope begins: it pushes its frame, if it has one.
LEMMA EnterIInv ==
    ASSUME StackConstants, "open" \notin Kinds, StackIInv, quit = "no", quit' = "no",
           in_uncaught_fun' = in_uncaught_fun,
           NEW s \in [kind : Kinds \cup {"fun"}, id : Ids \cup {Top}],
           scope' = Append(scope, s),
           Pushes(s.kind) => s.id \in Ids \ Used /\ stack' = Append(stack, Frame(s)),
           ~Pushes(s.kind) => s.id \notin Ids /\ stack' = stack,
           pages' \in [Ids -> 0 .. MaxPages],
           \A r \in Ids : pages'[r] = 0 \/ pages'[r] = pages[r]
    PROVE  StackIInv'
<1>0. PICK n : n = Len(scope)
  BY Zenon
<1> DEFINE C == [kind : Kinds \cup {"fun"}, id : Ids \cup {Top}]
           F == [tag : {0, 1}, id : Ids \cup {Top}]
<1>1. /\ n \in Nat /\ DOMAIN scope = 1 .. n
      /\ Len(stack) \in Nat /\ DOMAIN stack = 1 .. Len(stack)
      /\ Base \in {0, 1} /\ Pushed(n) \in Nat /\ Len(stack) = Base + Pushed(n)
  BY Zenon, <1>0, Facts
<1>2. scope \in Seq(C) /\ stack \in Seq(F)
  BY Zenon DEF StackIInv, StackTypeOK
<1>3. /\ scope' \in Seq(C) /\ Len(scope') = n + 1 /\ DOMAIN scope' = 1 .. n + 1
      /\ scope'[n + 1] = s /\ \A i \in 1 .. n : scope'[i] = scope[i]
  <2> HIDE DEF C
  <2>1. s \in C
    BY Zenon DEF C
  <2> QED BY <1>0, <1>2, <2>1
<1>4. Frame(s) \in F
  BY Zenon DEF Frame
<1>5. /\ stack' \in Seq(F) /\ \A i \in 1 .. Len(stack) : stack'[i] = stack[i]
      /\ Pushes(s.kind) => Len(stack') = Len(stack) + 1 /\ stack'[Len(stack) + 1] = Frame(s)
      /\ ~Pushes(s.kind) => Len(stack') = Len(stack)
  <2> HIDE DEF F
  <2>1. CASE Pushes(s.kind)
    <3>1. stack' = Append(stack, Frame(s)) /\ Frame(s) \in F
      BY Zenon, <1>4, <2>1
    <3>2. PICK f \in F : f = Frame(s)
      BY Zenon, <3>1
    <3>3. stack' = Append(stack, f)
      BY Zenon, <3>1, <3>2
    <3>4. /\ stack' \in Seq(F) /\ \A i \in 1 .. Len(stack) : stack'[i] = stack[i]
          /\ Len(stack') = Len(stack) + 1 /\ stack'[Len(stack) + 1] = f
      BY <1>2, <3>3
    <3> QED BY Zenon, <2>1, <3>2, <3>4
  <2> QED BY Zenon, <1>2, <2>1
<1>6. Base' = Base
  BY Zenon DEF Base
<1>7. StackTypeOK'
  BY Zenon, <1>3, <1>5 DEF StackIInv, StackTypeOK
<1>8. ASSUME NEW i \in 0 .. n PROVE Pushed(i)' = Pushed(i)
  <2>1. i \in Nat /\ \A j \in 1 .. i : scope'[j] = scope[j]
    BY <1>1, <1>3
  <2> QED BY Zenon, <2>1, PushedSame
<1>9. /\ Pushes(s.kind) => Pushed(n + 1)' = Pushed(n) + 1
      /\ ~Pushes(s.kind) => Pushed(n + 1)' = Pushed(n)
  <2>1. n \in 0 .. n
    BY <1>1
  <2>2. Pushed(n)' = Pushed(n)
    BY Zenon, <1>8, <2>1
  <2>3. /\ Pushes(scope'[n + 1].kind) => Pushed(n + 1)' = Pushed(n)' + 1
        /\ ~Pushes(scope'[n + 1].kind) => Pushed(n + 1)' = Pushed(n)'
    <3>1. PICK sc : sc = scope'
      BY Zenon
    <3>2. \A k : Pushed(k)' = Cardinality({j \in 1 .. k : Pushes(sc[j].kind)})
      BY Zenon, <3>1 DEF Pushed
    <3>3. LET count(k) == Cardinality({j \in 1 .. k : Pushes(sc[j].kind)})
          IN /\ Pushes(sc[n + 1].kind) => count(n + 1) = count(n) + 1
             /\ ~Pushes(sc[n + 1].kind) => count(n + 1) = count(n)
      <4>1. n \in Nat
        BY Zenon, <1>1
      <4> QED BY Zenon, <4>1, StepIn
    <3> QED BY Zenon, <3>1, <3>2, <3>3
  <2> QED BY Zenon, <1>3, <2>2, <2>3
<1>10. FramesMatchScopes'
  <2>1. (Len(stack) = Base + Pushed(Len(scope)))'
    <3>1. Pushed(Len(scope))' = Pushed(n + 1)'
      BY Zenon, <1>3 DEF Pushed
    <3>2. CASE Pushes(s.kind)
      <4>1. Len(stack') = Base + (Pushed(n) + 1)
        <5>1. Base \in Nat
          <6>1. {0, 1} \subseteq Nat
            OBVIOUS
          <6> QED BY Zenon, <1>1, <6>1
        <5>2. (Base + Pushed(n)) + 1 = Base + (Pushed(n) + 1)
          BY Zenon, <1>1, <5>1, Sums
        <5> QED BY Zenon, <1>1, <1>5, <3>2, <5>2
      <4> QED BY Zenon, <1>6, <1>9, <3>1, <3>2, <4>1
    <3>3. CASE ~Pushes(s.kind)
      BY Zenon, <1>1, <1>5, <1>6, <1>9, <3>1, <3>3
    <3> QED BY Zenon, <3>2, <3>3
  <2>2. ~in_uncaught_fun' => stack'[1] = [tag |-> 0, id |-> Top]
    <3>1. ~in_uncaught_fun => 1 \in 1 .. Len(stack)
      BY <1>1 DEF Base
    <3> QED BY Zenon, <1>5, <3>1, Facts
  <2>3. ASSUME NEW i \in 1 .. n, Pushes(scope'[i].kind)
        PROVE  stack'[Base' + Pushed(i)'] = Frame(scope'[i])
    <3>1. /\ i \in 0 .. n /\ i \in Nat /\ i <= n /\ i - 1 \in Nat /\ (i - 1) + 1 = i
          /\ i \in DOMAIN scope
      BY <1>1
    <3>2. scope'[i] = scope[i]
      BY Zenon, <1>3
    <3>3. Base + Pushed(i) \in 1 .. Len(stack)
      <4>1. Pushed(i) \in Nat /\ Pushed(i - 1) \in Nat
        BY Zenon, <3>1, PushedType
      <4>2. Pushed(i) <= Pushed(n)
        BY Zenon, <1>1, <3>1, PushedMono
      <4>3. Pushes(scope[(i - 1) + 1].kind)
        BY Zenon, <2>3, <3>1, <3>2
      <4>4. Pushed((i - 1) + 1) = Pushed(i - 1) + 1
        BY Zenon, <3>1, <4>3, PushedStep
      <4>5. Pushed(i) = Pushed(i - 1) + 1
        BY Zenon, <3>1, <4>4
      <4>6. Base \in Nat /\ Pushed(n) \in Nat /\ Len(stack) = Base + Pushed(n)
        <5>1. {0, 1} \subseteq Nat
          OBVIOUS
        <5> QED BY Zenon, <1>1, <5>1
      <4> QED BY Zenon, <4>1, <4>2, <4>5, <4>6, Within
    <3>4. stack'[Base + Pushed(i)] = Frame(scope[i])
      BY Zenon, <1>5, <2>3, <3>1, <3>2, <3>3, Facts
    <3>5. Base' + Pushed(i)' = Base + Pushed(i)
      BY Zenon, <1>6, <1>8, <3>1
    <3> QED BY Zenon, <3>2, <3>4, <3>5
  <2>4. ASSUME Pushes(scope'[n + 1].kind)
        PROVE  stack'[Base' + Pushed(n + 1)'] = Frame(scope'[n + 1])
    <3>1. Pushes(s.kind) /\ scope'[n + 1] = s
      BY Zenon, <1>3, <2>4
    <3>2. Base' + Pushed(n + 1)' = Len(stack) + 1
      <4>1. Pushed(n + 1)' = Pushed(n) + 1
        BY Zenon, <1>9, <3>1
      <4> QED BY <1>1, <1>6, <4>1
    <3> QED BY Zenon, <1>5, <3>1, <3>2
  <2>5. \A i \in DOMAIN scope' : i \in 1 .. n \/ i = n + 1
    BY <1>1, <1>3
  <2> QED BY Zenon, <2>1, <2>2, <2>3, <2>4, <2>5 DEF FramesMatchScopes
<1>11. NoInternalError'
  BY Zenon DEF NoInternalError
<1>12. RegionsReclaimed'
  <2>1. SUFFICES ASSUME NEW r \in Ids, pages'[r] > 0 PROVE InScope("region", r)'
    BY Zenon DEF RegionsReclaimed
  <2>2. pages'[r] = pages[r]
    BY <2>1
  <2>3. PICK i \in DOMAIN scope : scope[i] = [kind |-> "region", id |-> r]
    BY Zenon, <2>1, <2>2 DEF StackIInv, RegionsReclaimed, InScope
  <2>4. i \in DOMAIN scope' /\ scope'[i] = scope[i]
    BY <1>1, <1>3
  <2> QED BY Zenon, <2>3, <2>4 DEF InScope
<1>13. ScopesOwn'
  <2>1. ScopesOwn
    BY Zenon DEF StackIInv
  <2>2. \A i \in DOMAIN scope' : \/ i \in DOMAIN scope /\ scope'[i] = scope[i]
                                 \/ i = n + 1 /\ scope'[i] = s
    BY <1>1, <1>3
  <2>3. ASSUME NEW i \in DOMAIN scope'
        PROVE  /\ Pushes(scope'[i].kind) => scope'[i].id \in Ids
               /\ Framed(scope'[i].kind) => Pushes(scope'[i].kind)
    <3>1. Framed(s.kind) => Pushes(s.kind)
      BY Zenon DEF Framed, Pushes
    <3> QED BY Zenon, <2>1, <2>2, <3>1 DEF ScopesOwn
  <2>4. \A i \in DOMAIN scope : scope[i].id # s.id \/ s.id \notin Ids
    BY Zenon DEF Used
  <2>5. ASSUME NEW i \in DOMAIN scope', NEW j \in DOMAIN scope',
               scope'[i].id = scope'[j].id, scope'[i].id \in Ids
        PROVE  i = j
    <3>1. CASE i \in DOMAIN scope /\ j \in DOMAIN scope
      <4>1. scope[i].id = scope[j].id /\ scope[i].id \in Ids
        BY Zenon, <1>1, <1>3, <2>5, <3>1
      <4> QED BY Zenon, <2>1, <3>1, <4>1 DEF ScopesOwn
    <3> QED BY Zenon, <2>2, <2>4, <2>5, <3>1
  <2> QED BY Zenon, <2>3, <2>5 DEF ScopesOwn
<1> QED BY Zenon, <1>7, <1>10, <1>11, <1>12, <1>13 DEF StackIInv
\* try {, { region r;, the scopes without a frame, and the calls of functions.
LEMMA BeginIInv ==
    ASSUME StackConstants, "open" \notin Kinds, StackIInv,
           \/ \E i \in Ids : EnterTry(i) \/ EnterRegion(i)
           \/ \E k \in Kinds : EnterFrameless(k)
           \/ Call
    PROVE  StackIInv'
<1>0. /\ pages \in [Ids -> 0 .. MaxPages] /\ MaxPages \in Nat /\ Top \notin Ids
  BY Zenon DEF StackConstants, StackIInv, StackTypeOK
<1>1. ASSUME NEW h \in Ids, EnterTry(h) PROVE StackIInv'
  <2> DEFINE s == [kind |-> "try", id |-> h]
  <2>1. /\ "try" \in Kinds /\ h \notin Used /\ quit = "no" /\ quit' = quit
        /\ in_uncaught_fun' = in_uncaught_fun /\ pages' = pages /\ scope' = Append(scope, s)
        /\ stack' = Append(stack, [tag |-> 0, id |-> h])
    BY Zenon, <1>1 DEF EnterTry, Enter, Running, PushFrame
  <2>2. /\ s \in [kind : Kinds \cup {"fun"}, id : Ids \cup {Top}] /\ s.id = h
        /\ Pushes(s.kind) /\ Frame(s) = [tag |-> 0, id |-> h]
    BY Zenon, <2>1 DEF Pushes, Frame
  <2> HIDE DEF s
  <2>3. s.id \in Ids \ Used /\ stack' = Append(stack, Frame(s))
    BY Zenon, <2>1, <2>2
  <2> QED BY Zenon, <1>0, <2>1, <2>2, <2>3, EnterIInv
<1>2. ASSUME NEW r \in Ids, EnterRegion(r) PROVE StackIInv'
  <2> DEFINE s == [kind |-> "region", id |-> r]
  <2>1. /\ "region" \in Kinds /\ r \notin Used /\ quit = "no" /\ quit' = quit
        /\ in_uncaught_fun' = in_uncaught_fun /\ scope' = Append(scope, s)
        /\ stack' = Append(stack, [tag |-> 1, id |-> r])
        /\ pages' = [pages EXCEPT ![r] = 0]
    BY Zenon, <1>2 DEF EnterRegion, Enter, Running, PushFrame
  <2>2. /\ s \in [kind : Kinds \cup {"fun"}, id : Ids \cup {Top}] /\ s.id = r
        /\ Pushes(s.kind) /\ Frame(s) = [tag |-> 1, id |-> r]
    BY Zenon, <2>1 DEF Pushes, Frame
  <2> HIDE DEF s
  <2>3. s.id \in Ids \ Used /\ stack' = Append(stack, Frame(s))
    BY Zenon, <2>1, <2>2
  <2>4. /\ pages' \in [Ids -> 0 .. MaxPages]
        /\ \A q \in Ids : pages'[q] = 0 \/ pages'[q] = pages[q]
    BY <1>0, <2>1
  <2> QED BY Zenon, <2>1, <2>2, <2>3, <2>4, EnterIInv
<1>3. ASSUME NEW k \in {"open", "xrgn", "fun"}, k \in Kinds \cup {"fun"},
             Enter(k, Top), UNCHANGED <<stack, pages>>
      PROVE  StackIInv'
  <2> DEFINE s == [kind |-> k, id |-> Top]
  <2>1. /\ quit = "no" /\ quit' = quit /\ stack' = stack /\ pages' = pages
        /\ in_uncaught_fun' = in_uncaught_fun /\ scope' = Append(scope, s)
    BY Zenon, <1>3 DEF Enter, Running
  <2>2. /\ s \in [kind : Kinds \cup {"fun"}, id : Ids \cup {Top}] /\ s.id = Top
        /\ ~Pushes(s.kind)
    BY Zenon, <1>3 DEF Pushes
  <2> HIDE DEF s
  <2>3. s.id \notin Ids
    BY Zenon, <1>0, <2>2
  <2> QED BY Zenon, <1>0, <2>1, <2>2, <2>3, EnterIInv
<1>4. ASSUME NEW k \in Kinds, EnterFrameless(k) PROVE StackIInv'
  BY Zenon, <1>3, <1>4 DEF EnterFrameless
<1>5. ASSUME Call PROVE StackIInv'
  BY Zenon, <1>3, <1>5 DEF Call
<1> QED BY Zenon, <1>1, <1>2, <1>4, <1>5

-----------------------------------------------------------------------------
(* Scopes end *)

\* What the cleanup of the top c frames does to the regions.
LEMMA CleanedIs ==
    ASSUME pages \in [Ids -> 0 .. MaxPages], MaxPages \in Nat, NEW c
    PROVE  /\ Cleaned(c) \in [Ids -> 0 .. MaxPages]
           /\ \A r \in Ids : Cleaned(c)[r] # 0 =>
                 /\ Cleaned(c)[r] = pages[r]
                 /\ \A k \in DOMAIN stack :
                       k > Len(stack) - c => stack[k] # [tag |-> 1, id |-> r]
<1> DEFINE Freed(r) == \E i \in DOMAIN stack :
                          i > Len(stack) - c /\ stack[i] = [tag |-> 1, id |-> r]
<1>1. Cleaned(c) = [r \in Ids |-> IF Freed(r) THEN 0 ELSE pages[r]]
  BY Zenon DEF Cleaned
<1>2. \A r \in Ids : ~Freed(r) => \A k \in DOMAIN stack :
                       k > Len(stack) - c => stack[k] # [tag |-> 1, id |-> r]
  BY Zenon
<1> HIDE DEF Freed
<1>3. Cleaned(c) \in [Ids -> 0 .. MaxPages]
  BY <1>1
<1>4. \A r \in Ids : Cleaned(c)[r] # 0 => Cleaned(c)[r] = pages[r] /\ ~Freed(r)
  BY Zenon, <1>1
<1> QED BY Zenon, <1>2, <1>3, <1>4

\* A jump out of all but the m outermost scopes that pops the frames they pushed.
LEMMA PopIInv ==
    ASSUME StackConstants, StackIInv, Running, NEW m \in 0 .. Len(scope), scope' = SubSeq(scope, 1, m),
           NEW c \in Nat, Pushed(Len(scope)) = Pushed(m) + c, NpopBefore(c),
           in_uncaught_fun' = in_uncaught_fun
    PROVE  StackIInv'
<1>1. /\ Len(scope) \in Nat /\ Len(stack) \in Nat /\ Base \in {0, 1}
      /\ Pushed(Len(scope)) \in Nat /\ Len(stack) = Base + Pushed(Len(scope))
      /\ quit = "no" /\ stack \in Seq([tag : {0, 1}, id : Ids \cup {Top}])
      /\ pages \in [Ids -> 0 .. MaxPages] /\ MaxPages \in Nat
  BY Zenon, Facts DEF Running, StackIInv, StackTypeOK, StackConstants
<1>2. m \in Nat /\ Pushed(m) \in Nat
  BY <1>1, PushedType
<1>3. Len(stack) - c = Base + Pushed(m) /\ c <= Len(stack)
  <2>1. {0, 1} \subseteq Nat
    OBVIOUS
  <2>2. Base \in Nat /\ Len(stack) = Base + (Pushed(m) + c)
    BY Zenon, <1>1, <2>1
  <2>3. (Base + (Pushed(m) + c)) - c = Base + Pushed(m) /\ c <= Base + (Pushed(m) + c)
    BY Zenon, <1>2, <2>2, Sums
  <2> QED BY Zenon, <2>2, <2>3
<1>4. CASE c > 0 /\ NpopFrame(c - 1)
  <2>1. c - 1 + 1 = c
    OBVIOUS
  <2>2. /\ stack' = SubSeq(stack, 1, Len(stack) - c)
        /\ pages' = Cleaned(c)
        /\ quit' = IF c > Len(stack) THEN "empty" ELSE quit
    BY Zenon, <1>4, <2>1 DEF NpopFrame
  <2>3. quit' = "no"
    BY <1>1, <1>3, <2>2
  <2>4. stack' = SubSeq(stack, 1, Base + Pushed(m))
    BY Zenon, <1>3, <2>2
  <2>5. /\ pages' \in [Ids -> 0 .. MaxPages]
        /\ \A r \in Ids : pages'[r] # 0 =>
              /\ pages'[r] = pages[r]
              /\ \A k \in DOMAIN stack :
                    k > Base + Pushed(m) => stack[k] # [tag |-> 1, id |-> r]
    <3>1. /\ Cleaned(c) \in [Ids -> 0 .. MaxPages]
          /\ \A r \in Ids : Cleaned(c)[r] # 0 =>
                /\ Cleaned(c)[r] = pages[r]
                /\ \A k \in DOMAIN stack :
                      k > Len(stack) - c => stack[k] # [tag |-> 1, id |-> r]
      BY Zenon, <1>1, CleanedIs
    <3> QED BY Zenon, <1>3, <2>2, <3>1
  <2> QED BY Zenon, <1>1, <2>3, <2>4, <2>5, TruncIInv
<1>5. CASE c = 0 /\ UNCHANGED <<stack, pages, quit>>
  <2>1. stack' = stack /\ pages' = pages /\ quit' = "no" /\ Base + Pushed(m) = Len(stack)
    BY <1>1, <1>2, <1>3, <1>5
  <2>2. stack = SubSeq(stack, 1, Len(stack))
    BY <1>1
  <2>3. stack' = SubSeq(stack, 1, Base + Pushed(m))
    BY Zenon, <2>1, <2>2
  <2>4. \A k \in DOMAIN stack : ~(k > Base + Pushed(m))
    BY <1>1, <2>1
  <2> QED BY Zenon, <1>1, <2>1, <2>3, <2>4, TruncIInv
<1> QED BY Zenon, <1>4, <1>5 DEF NpopBefore
\* The end of a try block, of a region and of a scope without a frame; jumps and
\* returns.
LEMMA EndIInv ==
    ASSUME StackConstants, StackIInv,
           \/ ExitTry \/ ExitRegion \/ ExitFrameless
           \/ \E n \in 1 .. Len(scope) - 1 : Jump(n)
           \/ \E n \in 0 .. Len(scope) - 1 : Return(n)
    PROVE  StackIInv'
<1>1. Running
  BY Zenon DEF ExitTry, ExitRegion, ExitFrameless, AtEnd, Jump, Return
<1>2. /\ Len(scope) \in Nat /\ DOMAIN scope = 1 .. Len(scope) /\ ScopesOwn
      /\ Len(stack) \in Nat /\ Base \in {0, 1} /\ Pushed(Len(scope)) \in Nat
      /\ Len(stack) = Base + Pushed(Len(scope))
      /\ scope # <<>> /\ scope \in Seq([kind : Kinds \cup {"fun"}, id : Ids \cup {Top}])
  BY Zenon, <1>1, Facts DEF Running, StackIInv, StackTypeOK
<1>3. Len(scope) - 1 \in Nat /\ Len(scope) - 1 \in 0 .. Len(scope) /\ (Len(scope) - 1) + 1 = Len(scope)
      /\ Len(scope) \in DOMAIN scope
  BY <1>2
<1> DEFINE last == scope[Len(scope)]
<1>4. /\ Pushes(last.kind) => Pushed(Len(scope)) = Pushed(Len(scope) - 1) + 1
      /\ ~Pushes(last.kind) => Pushed(Len(scope)) = Pushed(Len(scope) - 1)
  <2>1. /\ Pushes(scope[(Len(scope) - 1) + 1].kind) =>
              Pushed((Len(scope) - 1) + 1) = Pushed(Len(scope) - 1) + 1
        /\ ~Pushes(scope[(Len(scope) - 1) + 1].kind) =>
              Pushed((Len(scope) - 1) + 1) = Pushed(Len(scope) - 1)
    BY Zenon, <1>3, PushedStep
  <2> QED BY Zenon, <1>3, <2>1
<1>5. ASSUME Pushes(last.kind), NpopFrame(0), in_uncaught_fun' = in_uncaught_fun, Leave(1)
      PROVE  StackIInv'
  <2>1. 1 \in Nat /\ 1 > 0 /\ 1 - 1 = 0
    OBVIOUS
  <2>2. NpopBefore(1)
    BY Zenon, <1>5, <2>1 DEF NpopBefore
  <2> QED BY Zenon, <1>1, <1>3, <1>4, <1>5, <2>1, <2>2, PopIInv DEF Leave
<1>6. CASE ExitTry
  <2>1. last.kind = "try" /\ NpopFrame(0) /\ in_uncaught_fun' = in_uncaught_fun /\ Leave(1)
    BY Zenon, <1>6 DEF ExitTry, AtEnd
  <2>2. Pushes(last.kind)
    BY Zenon, <2>1 DEF Pushes
  <2> QED BY Zenon, <1>5, <2>1, <2>2
<1>7. CASE ExitRegion
  <2>1. last.kind = "region" /\ in_uncaught_fun' = in_uncaught_fun /\ Leave(1)
    BY Zenon, <1>7 DEF ExitRegion, AtEnd
  <2>2. Pushes(last.kind)
    BY Zenon, <2>1 DEF Pushes
  <2>3. stack[Base + Pushed(Len(scope))] = Frame(last)
    BY Zenon, <1>1, <1>3, <2>2, Facts DEF Running
  <2>4. stack[Len(stack)].tag = 1
    BY <1>2, <2>1, <2>3 DEF Frame
  <2>5. stack # <<>>
    <3>1. Pushed(Len(scope) - 1) \in Nat
      BY Zenon, <1>3, PushedType
    <3>2. Len(stack) > 0
      BY <1>2, <1>4, <2>2, <3>1
    <3> QED BY <3>2
  <2>6. NpopFrame(0)
    BY Zenon, <1>7, <2>4, <2>5 DEF ExitRegion
  <2> QED BY Zenon, <1>5, <2>1, <2>2, <2>6
<1>8. CASE ExitFrameless
  <2>1. /\ ~Pushes(last.kind) /\ Leave(1) /\ in_uncaught_fun' = in_uncaught_fun
        /\ UNCHANGED <<stack, pages, quit>>
    BY Zenon, <1>8 DEF ExitFrameless, AtEnd, Pushes
  <2>2. 0 \in Nat /\ Pushed(Len(scope)) = Pushed(Len(scope) - 1) + 0
    BY <1>2, <1>4, <2>1
  <2>3. NpopBefore(0)
    BY Zenon, <2>1 DEF NpopBefore
  <2> QED BY Zenon, <1>1, <1>3, <2>1, <2>2, <2>3, PopIInv DEF Leave
<1>9. ASSUME NEW n \in 1 .. Len(scope) - 1, Jump(n) PROVE StackIInv'
  <2>1. n \in 0 .. Len(scope) /\ Len(scope) - n \in 0 .. Len(scope)
    BY <1>2
  <2>2. Pushed(Len(scope)) = Pushed(Len(scope) - n) + Npop(n) /\ Npop(n) \in Nat
    BY Zenon, <1>2, <2>1, PushedNpop
  <2>3. /\ NpopBefore(Npop(n)) /\ scope' = SubSeq(scope, 1, Len(scope) - n)
        /\ in_uncaught_fun' = in_uncaught_fun
    BY Zenon, <1>9 DEF Jump, Leave
  <2> QED BY Zenon, <1>1, <2>1, <2>2, <2>3, PopIInv
<1>10. ASSUME NEW n \in 0 .. Len(scope) - 1, Return(n) PROVE StackIInv'
  <2>1. n \in 0 .. Len(scope) /\ Len(scope) - (n + 1) \in 0 .. Len(scope)
        /\ Len(scope) - (n + 1) \in Nat /\ (Len(scope) - (n + 1)) + 1 = Len(scope) - n
    BY <1>2
  <2>2. Pushed(Len(scope)) = Pushed(Len(scope) - n) + Npop(n) /\ Npop(n) \in Nat
    BY Zenon, <1>2, <2>1, PushedNpop
  <2>3. /\ NpopBefore(Npop(n)) /\ scope' = SubSeq(scope, 1, Len(scope) - (n + 1))
        /\ in_uncaught_fun' = in_uncaught_fun /\ scope[Len(scope) - n].kind = "fun"
    BY Zenon, <1>10 DEF Return, Leave
  <2>4. ~Pushes(scope[Len(scope) - n].kind)
    BY Zenon, <2>3 DEF Pushes
  <2>5. Pushed(Len(scope) - n) = Pushed(Len(scope) - (n + 1))
    <3>1. ~Pushes(scope[(Len(scope) - (n + 1)) + 1].kind)
      BY Zenon, <2>1, <2>4
    <3>2. Pushed((Len(scope) - (n + 1)) + 1) = Pushed(Len(scope) - (n + 1))
      BY Zenon, <2>1, <3>1, PushedStep
    <3> QED BY Zenon, <2>1, <3>2
  <2>6. Pushed(Len(scope)) = Pushed(Len(scope) - (n + 1)) + Npop(n)
    BY Zenon, <2>2, <2>5
  <2> QED BY Zenon, <1>1, <2>1, <2>2, <2>3, <2>6, PopIInv
<1> QED BY Zenon, <1>6, <1>7, <1>8, <1>9, <1>10
-----------------------------------------------------------------------------
(* Exceptions *)

\* The handler _throw_fn finds is that of the innermost try block.
LEMMA NoTryAbove ==
    ASSUME StackIInv, quit = "no", NEW i \in 0 .. Len(stack), FirstHandler(i),
           NEW j \in DOMAIN scope, Base + Pushed(j) > i
    PROVE  scope[j].kind # "try"
<1>1. SUFFICES ASSUME scope[j].kind = "try" PROVE FALSE
  BY Zenon
<1>2. Pushes(scope[j].kind) /\ Frame(scope[j]).tag = 0
  BY Zenon, <1>1 DEF Pushes, Frame
<1>3. stack[Base + Pushed(j)].tag = 0
  BY Zenon, <1>2, Facts
<1>4. Base + Pushed(j) \in DOMAIN stack
  <2>1. /\ Len(scope) \in Nat /\ DOMAIN scope = 1 .. Len(scope)
        /\ Len(stack) \in Nat /\ DOMAIN stack = 1 .. Len(stack)
        /\ Base \in {0, 1} /\ Pushed(Len(scope)) \in Nat
        /\ Len(stack) = Base + Pushed(Len(scope))
    BY Zenon, Facts
  <2>2. j \in Nat /\ j <= Len(scope)
    BY <2>1
  <2>3. Pushed(j) \in Nat /\ Pushed(j) <= Pushed(Len(scope))
    BY Zenon, <2>1, <2>2, PushedType, PushedMono
  <2> QED BY <2>1, <2>3
<1> QED BY Zenon, <1>3, <1>4 DEF FirstHandler

\* No handler is left: this is an exception thrown by uncaught_fun.
LEMMA ThrowNone ==
    ASSUME StackConstants, StackIInv, Throw(0)
    PROVE  StackIInv' /\ quit' # "no"
<1>1. /\ quit = "no" /\ quit' = "no handler" /\ FirstHandler(0) /\ pages' = Cleaned(Len(stack) - 0)
      /\ stack' = stack /\ scope' = scope /\ in_uncaught_fun' = in_uncaught_fun
  <2>1. ~(0 > 0)
    OBVIOUS
  <2> QED BY Zenon, <2>1 DEF Throw, Running
<1>2. in_uncaught_fun
  <2>1. SUFFICES ASSUME ~in_uncaught_fun PROVE FALSE
    BY Zenon
  <2>2. stack[1] = [tag |-> 0, id |-> Top] /\ 1 \in DOMAIN stack
    <3>1. /\ stack[1] = [tag |-> 0, id |-> Top] /\ DOMAIN stack = 1 .. Len(stack)
          /\ Pushed(Len(scope)) \in Nat /\ Len(stack) = Base + Pushed(Len(scope))
      BY Zenon, <1>1, <2>1, Facts
    <3>2. Base = 1
      BY Zenon, <2>1 DEF Base
    <3> QED BY <3>1, <3>2
  <2>3. stack[1].tag = 0 /\ 1 > 0
    BY <2>2
  <2> QED BY Zenon, <1>1, <2>2, <2>3 DEF FirstHandler
<1>3. pages' \in [Ids -> 0 .. MaxPages]
  BY Zenon, <1>1, CleanedIs DEF StackIInv, StackTypeOK, StackConstants
<1>4. quit' # "no" /\ quit' \in {"no", "pop_region", "empty", "no handler", "dangling"}
  BY Zenon, <1>1
<1>5. StackTypeOK'
  BY Zenon, <1>1, <1>3, <1>4 DEF StackIInv, StackTypeOK
<1>6. FramesMatchScopes' /\ RegionsReclaimed'
  BY Zenon, <1>4 DEF FramesMatchScopes, RegionsReclaimed
<1>7. NoInternalError'
  BY Zenon, <1>1, <1>2 DEF NoInternalError
<1>8. ScopesOwn'
  BY Zenon, <1>1 DEF StackIInv, ScopesOwn
<1> QED BY Zenon, <1>4, <1>5, <1>6, <1>7, <1>8 DEF StackIInv

\* The top handler is taken: the thread ends, or runs uncaught_fun.
LEMMA ThrowTop ==
    ASSUME StackConstants, StackIInv, NEW i \in 1 .. Len(stack), Throw(i), stack[i].id = Top
    PROVE  StackIInv' /\ Caught
<1>1. /\ quit = "no" /\ quit' = "no" /\ FirstHandler(i) /\ pages' = Cleaned(Len(stack) - i)
      /\ stack' = SubSeq(stack, 1, i - 1) /\ in_uncaught_fun' = TRUE
      /\ scope' = IF UncaughtFun /\ ~in_uncaught_fun THEN <<Fun>> ELSE <<>>
  <2>1. i # 0
    OBVIOUS
  <2> QED BY Zenon, <2>1 DEF Throw, Running, AfterHandler
<1>2. /\ Len(scope) \in Nat /\ DOMAIN scope = 1 .. Len(scope)
      /\ Len(stack) \in Nat /\ DOMAIN stack = 1 .. Len(stack)
      /\ \A j \in DOMAIN scope : Pushes(scope[j].kind) => scope[j].id \in Ids
      /\ Top \notin Ids /\ MaxPages \in Nat /\ pages \in [Ids -> 0 .. MaxPages]
      /\ stack \in Seq([tag : {0, 1}, id : Ids \cup {Top}])
  BY Zenon, <1>1, Facts DEF StackIInv, ScopesOwn, StackConstants, StackTypeOK
<1>3. i = 1 /\ ~in_uncaught_fun
  <2>1. ASSUME NEW j \in DOMAIN scope, Pushes(scope[j].kind), stack[i] = Frame(scope[j])
        PROVE  FALSE
    <3>1. stack[i].id = scope[j].id
      BY <2>1 DEF Frame
    <3> QED BY Zenon, <1>2, <2>1, <3>1
  <2> QED BY Zenon, <1>1, <2>1, FrameAt
<1>4. stack' = <<>> /\ Base = 1 /\ Base' = 0
  BY <1>1, <1>2, <1>3 DEF Base
<1>5. ASSUME NEW j \in DOMAIN scope, Pushes(scope[j].kind)
      PROVE  Base + Pushed(j) > 1 /\ Base + Pushed(j) \in DOMAIN stack
  <2>1. j \in Nat /\ j <= Len(scope) /\ 0 < j /\ 0 <= j /\ 0 \in Nat
    BY <1>2
  <2>2. Pushed(0) < Pushed(j) /\ Pushed(j) <= Pushed(Len(scope))
    BY Zenon, <1>2, <1>5, <2>1, PushedMono
  <2>3. Pushed(0) = 0 /\ Pushed(j) \in Nat /\ Pushed(Len(scope)) \in Nat
    BY Zenon, <1>2, <2>1, PushedStep, PushedType
  <2>4. Len(stack) = Base + Pushed(Len(scope))
    BY Zenon, <1>1, Facts
  <2> QED BY <1>2, <1>4, <2>2, <2>3, <2>4
<1>6. \A j \in DOMAIN scope : scope[j].kind # "try"
  <2>1. SUFFICES ASSUME NEW j \in DOMAIN scope, scope[j].kind = "try" PROVE FALSE
    BY Zenon
  <2>2. Pushes(scope[j].kind) /\ i \in 0 .. Len(stack)
    BY <2>1 DEF Pushes
  <2>3. Base + Pushed(j) > i
    BY Zenon, <1>3, <1>5, <2>2
  <2> QED BY Zenon, <1>1, <2>1, <2>2, <2>3, NoTryAbove
<1>7. Caught
  BY Zenon, <1>1, <1>4, <1>6 DEF Caught
<1>8. pages' \in [Ids -> 0 .. MaxPages] /\ \A r \in Ids : pages'[r] = 0
  <2> DEFINE c == Len(stack) - i
  <2>1. /\ Cleaned(c) \in [Ids -> 0 .. MaxPages]
        /\ \A r \in Ids : Cleaned(c)[r] # 0 =>
              /\ Cleaned(c)[r] = pages[r]
              /\ \A k \in DOMAIN stack :
                    k > Len(stack) - c => stack[k] # [tag |-> 1, id |-> r]
    BY Zenon, <1>2, CleanedIs
  <2>2. Len(stack) - c = 1 /\ pages' = Cleaned(c)
    BY <1>1, <1>2, <1>3
  <2>3. ASSUME NEW r \in Ids, pages'[r] # 0 PROVE FALSE
    <3>1. /\ pages'[r] = pages[r]
          /\ \A k \in DOMAIN stack : k > 1 => stack[k] # [tag |-> 1, id |-> r]
      BY Zenon, <2>1, <2>2, <2>3
    <3>2. pages[r] > 0
      BY <1>2, <2>3, <3>1
    <3>3. PICK j \in DOMAIN scope : scope[j] = [kind |-> "region", id |-> r]
      BY Zenon, <1>1, <3>2 DEF StackIInv, RegionsReclaimed, InScope
    <3>4. Pushes(scope[j].kind) /\ Frame(scope[j]) = [tag |-> 1, id |-> r]
      BY <3>3 DEF Pushes, Frame
    <3>5. stack[Base + Pushed(j)] = [tag |-> 1, id |-> r]
      BY Zenon, <1>1, <3>4, Facts
    <3> QED BY Zenon, <1>5, <3>1, <3>4, <3>5
  <2> QED BY Zenon, <2>1, <2>2, <2>3
<1>9. scope' = <<>> \/ scope' = <<[kind |-> "fun", id |-> Top]>>
  BY Zenon, <1>1 DEF Fun
<1>10. /\ scope' \in Seq([kind : Kinds \cup {"fun"}, id : Ids \cup {Top}])
       /\ \A j \in DOMAIN scope' : j = 1 /\ scope'[j].kind = "fun" /\ scope'[j].id = Top
       /\ Len(scope') = 0 \/ (Len(scope') = 1 /\ scope'[1].kind = "fun")
  <2>1. CASE scope' = <<>>
    BY <2>1
  <2>2. CASE scope' = <<[kind |-> "fun", id |-> Top]>>
    <3> DEFINE f == [kind |-> "fun", id |-> Top]
    <3>1. f \in [kind : Kinds \cup {"fun"}, id : Ids \cup {Top}] /\ f.kind = "fun" /\ f.id = Top
      BY Zenon
    <3> HIDE DEF f
    <3>2. scope' = <<f>>
      BY Zenon, <2>2 DEF f
    <3> QED BY <3>1, <3>2
  <2> QED BY Zenon, <1>9, <2>1, <2>2
<1>11. StackTypeOK'
  <2>1. /\ stack' \in Seq([tag : {0, 1}, id : Ids \cup {Top}])
        /\ in_uncaught_fun' \in BOOLEAN
        /\ quit' \in {"no", "pop_region", "empty", "no handler", "dangling"}
    BY <1>1, <1>4
  <2> QED BY Zenon, <1>8, <1>10, <2>1 DEF StackTypeOK
<1>12. FramesMatchScopes'
  <2>1. Pushed(Len(scope))' = 0
    <3>1. PICK sc : sc = scope'
      BY Zenon
    <3>2. \A k : Pushed(k)' = Cardinality({j \in 1 .. k : Pushes(sc[j].kind)})
      BY Zenon, <3>1 DEF Pushed
    <3>3. 0 \in Nat /\ 0 + 1 = 1
      OBVIOUS
    <3>4. LET count(k) == Cardinality({j \in 1 .. k : Pushes(sc[j].kind)})
          IN count(0) = 0 /\ (~Pushes(sc[0 + 1].kind) => count(0 + 1) = count(0))
      BY Zenon, <3>3, StepIn
    <3>5. Pushed(0)' = 0 /\ (~Pushes(scope'[1].kind) => Pushed(1)' = 0)
      BY Zenon, <3>1, <3>2, <3>3, <3>4
    <3>6. Len(scope') = 1 => ~Pushes(scope'[1].kind)
      BY <1>10 DEF Pushes
    <3>7. Pushed(Len(scope))' = Cardinality({j \in 1 .. Len(scope') : Pushes(sc[j].kind)})
      BY Zenon, <3>1 DEF Pushed
    <3> QED BY Zenon, <1>10, <3>2, <3>5, <3>6, <3>7
  <2>2. (Len(stack) = Base + Pushed(Len(scope)))'
    BY <1>4, <2>1
  <2>3. \A j \in DOMAIN scope' : ~Pushes(scope'[j].kind)
    BY Zenon, <1>10 DEF Pushes
  <2> QED BY Zenon, <1>1, <2>2, <2>3 DEF FramesMatchScopes
<1>13. NoInternalError' /\ RegionsReclaimed'
  BY <1>1, <1>8 DEF NoInternalError, RegionsReclaimed
<1>14. ScopesOwn'
  <2>1. \A j \in DOMAIN scope' : ~Pushes(scope'[j].kind) /\ ~Framed(scope'[j].kind)
    BY Zenon, <1>10 DEF Pushes, Framed
  <2> QED BY Zenon, <1>2, <1>10, <2>1 DEF ScopesOwn
<1> QED BY Zenon, <1>7, <1>11, <1>12, <1>13, <1>14 DEF StackIInv
\* The handler of a try block is taken: control goes behind it.
LEMMA ThrowCaught ==
    ASSUME StackConstants, StackIInv, NEW i \in 1 .. Len(stack), Throw(i), stack[i].id # Top
    PROVE  StackIInv' /\ Caught
<1>1. /\ quit = "no" /\ FirstHandler(i) /\ pages' = Cleaned(Len(stack) - i)
      /\ stack' = SubSeq(stack, 1, i - 1) /\ in_uncaught_fun' = in_uncaught_fun
      /\ Resume(stack[i].id)
  <2>1. i # 0
    OBVIOUS
  <2> QED BY Zenon, <2>1 DEF Throw, Running, AfterHandler
<1>2. /\ Len(scope) \in Nat /\ DOMAIN scope = 1 .. Len(scope)
      /\ Len(stack) \in Nat /\ DOMAIN stack = 1 .. Len(stack) /\ Base \in {0, 1}
      /\ ~in_uncaught_fun => stack[1] = [tag |-> 0, id |-> Top]
      /\ scope \in Seq([kind : Kinds \cup {"fun"}, id : Ids \cup {Top}])
      /\ MaxPages \in Nat /\ pages \in [Ids -> 0 .. MaxPages]
  BY Zenon, <1>1, Facts DEF StackIInv, StackConstants, StackTypeOK
<1>3. stack[i].tag = 0 /\ i \in 0 .. Len(stack) /\ i \in DOMAIN stack
  BY <1>1, <1>2 DEF FirstHandler
<1>4. ~(~in_uncaught_fun /\ i = 1)
  <2>1. stack[1] = [tag |-> 0, id |-> Top] => stack[1].id = Top
    OBVIOUS
  <2> QED BY Zenon, <1>2, <2>1
<1>5. PICK j \in DOMAIN scope : /\ Pushes(scope[j].kind) /\ i = Base + Pushed(j)
                                /\ stack[i] = Frame(scope[j])
  BY Zenon, <1>1, <1>4, FrameAt
<1>6. /\ j \in Nat /\ j - 1 \in Nat /\ (j - 1) + 1 = j /\ j - 1 \in 0 .. Len(scope)
      /\ j <= Len(scope) /\ j > 0
  BY <1>2
<1>7. scope[j].kind = "try" /\ scope[j].id = stack[i].id
  BY <1>3, <1>5 DEF Frame
<1>8. scope[j] = [kind |-> "try", id |-> stack[i].id]
  <2> DEFINE C == [kind : Kinds \cup {"fun"}, id : Ids \cup {Top}]
  <2>1. scope[j] \in C
    <3> HIDE DEF C
    <3>1. scope \in Seq(C)
      BY Zenon, <1>2 DEF C
    <3> QED BY <1>2, <3>1
  <2> QED BY Zenon, <1>7, <2>1
<1>9. scope' = SubSeq(scope, 1, j - 1) /\ quit' = "no"
  <2> DEFINE tries == {k \in DOMAIN scope : scope[k] = [kind |-> "try", id |-> stack[i].id]}
  <2>1. j \in tries
    BY Zenon, <1>8
  <2>2. \A k \in tries : k = j
    <3>1. \A k \in tries : k \in DOMAIN scope /\ scope[k].id = scope[j].id
      BY Zenon, <1>8
    <3>2. scope[j].id \in Ids
      BY Zenon, <1>5 DEF StackIInv, ScopesOwn
    <3> QED BY Zenon, <3>1, <3>2 DEF StackIInv, ScopesOwn
  <2>3. /\ \E k \in tries : scope' = SubSeq(scope, 1, k - 1)
        /\ quit' = quit
    BY Zenon, <1>1, <2>1 DEF Resume
  <2> QED BY Zenon, <1>1, <2>2, <2>3
<1>10. Base + Pushed(j - 1) = i - 1
  <2>1. Pushes(scope[(j - 1) + 1].kind)
    BY Zenon, <1>5, <1>6
  <2>2. Pushed((j - 1) + 1) = Pushed(j - 1) + 1
    BY Zenon, <1>6, <2>1, PushedStep
  <2>3. Pushed(j) = Pushed(j - 1) + 1 /\ Pushed(j - 1) \in Nat
    BY Zenon, <1>6, <2>2, PushedType
  <2> QED BY <1>2, <1>5, <2>3
<1>11. StackIInv'
  <2> DEFINE c == Len(stack) - i
  <2>1. /\ Cleaned(c) \in [Ids -> 0 .. MaxPages]
        /\ \A r \in Ids : Cleaned(c)[r] # 0 =>
              /\ Cleaned(c)[r] = pages[r]
              /\ \A k \in DOMAIN stack :
                    k > Len(stack) - c => stack[k] # [tag |-> 1, id |-> r]
    BY Zenon, <1>2, CleanedIs
  <2>2. Len(stack) - c = i /\ pages' = Cleaned(c)
    BY <1>1, <1>2
  <2>3. \A k \in DOMAIN stack : k > Base + Pushed(j - 1) => k > i \/ stack[k].tag = 0
    BY <1>2, <1>3, <1>10
  <2>4. ASSUME NEW r \in Ids, NEW k \in DOMAIN stack, stack[k].tag = 0
        PROVE  stack[k] # [tag |-> 1, id |-> r]
    BY <2>4
  <2>5. \A r \in Ids : pages'[r] # 0 =>
              /\ pages'[r] = pages[r]
              /\ \A k \in DOMAIN stack :
                    k > Base + Pushed(j - 1) => stack[k] # [tag |-> 1, id |-> r]
    BY Zenon, <2>1, <2>2, <2>3, <2>4
  <2>6. stack' = SubSeq(stack, 1, Base + Pushed(j - 1)) /\ pages' \in [Ids -> 0 .. MaxPages]
    BY Zenon, <1>1, <1>10, <2>1, <2>2
  <2> QED BY Zenon, <1>1, <1>6, <1>9, <2>5, <2>6, TruncIInv
<1>12. \A m \in DOMAIN scope : m > j => scope[m].kind # "try"
  <2>1. SUFFICES ASSUME NEW m \in DOMAIN scope, m > j, scope[m].kind = "try" PROVE FALSE
    BY Zenon
  <2>2. m \in Nat /\ j < m /\ j <= m /\ Pushes(scope[m].kind)
    BY <1>2, <1>6, <2>1 DEF Pushes
  <2>3. Pushed(j) < Pushed(m) /\ Pushed(j) \in Nat /\ Pushed(m) \in Nat
    BY Zenon, <1>6, <2>2, PushedMono, PushedType
  <2>4. Base + Pushed(m) > i
    BY <1>2, <1>5, <2>3
  <2> QED BY Zenon, <1>1, <1>3, <2>1, <2>4, NoTryAbove
<1>13. Caught
  BY Zenon, <1>7, <1>9, <1>12 DEF Caught
<1> QED BY Zenon, <1>11, <1>13

-----------------------------------------------------------------------------
(* The theorems *)

\* A thread starts with the frame of the top handler.
LEMMA StackInitIInv ==
    ASSUME StackConstants, StackInit
    PROVE  StackIInv
<1>1. /\ stack = <<[tag |-> 0, id |-> Top]>> /\ scope = <<[kind |-> "fun", id |-> Top]>>
      /\ pages = [r \in Ids |-> 0] /\ in_uncaught_fun = FALSE /\ quit = "no"
      /\ MaxPages \in Nat /\ Top \notin Ids
  BY Zenon DEF StackInit, Fun, StackConstants
<1>2. /\ Len(scope) = 1 /\ DOMAIN scope = {1} /\ scope[1].kind = "fun" /\ scope[1].id = Top
      /\ scope \in Seq([kind : Kinds \cup {"fun"}, id : Ids \cup {Top}])
  <2> DEFINE f == [kind |-> "fun", id |-> Top]
  <2>1. f \in [kind : Kinds \cup {"fun"}, id : Ids \cup {Top}] /\ f.kind = "fun" /\ f.id = Top
    BY Zenon
  <2>2. scope = <<f>>
    BY Zenon, <1>1
  <2> HIDE DEF f
  <2> QED BY <2>1, <2>2
<1>3. /\ Len(stack) = 1 /\ stack[1] = [tag |-> 0, id |-> Top]
      /\ stack \in Seq([tag : {0, 1}, id : Ids \cup {Top}])
  <2> DEFINE f == [tag |-> 0, id |-> Top]
  <2>1. f \in [tag : {0, 1}, id : Ids \cup {Top}]
    BY Zenon
  <2>2. stack = <<f>>
    BY Zenon, <1>1
  <2> HIDE DEF f
  <2> QED BY <2>1, <2>2 DEF f
<1>4. ~Pushes(scope[1].kind) /\ ~Framed(scope[1].kind)
  BY Zenon, <1>2 DEF Pushes, Framed
<1>5. Pushed(Len(scope)) = 0
  <2>1. 0 \in Nat /\ 0 + 1 = 1
    OBVIOUS
  <2> QED BY Zenon, <1>2, <1>4, <2>1, PushedStep
<1>6. StackTypeOK
  <2>1. pages \in [Ids -> 0 .. MaxPages]
    BY <1>1
  <2> QED BY Zenon, <1>1, <1>2, <1>3, <2>1 DEF StackTypeOK
<1>7. FramesMatchScopes
  <2>1. Base = 1
    BY Zenon, <1>1 DEF Base
  <2>2. Len(stack) = Base + Pushed(Len(scope))
    BY <1>3, <1>5, <2>1
  <2>3. \A i \in DOMAIN scope : ~Pushes(scope[i].kind)
    BY Zenon, <1>2, <1>4
  <2> QED BY Zenon, <1>3, <2>2, <2>3 DEF FramesMatchScopes
<1>8. NoInternalError /\ RegionsReclaimed
  BY <1>1 DEF NoInternalError, RegionsReclaimed
<1>9. ScopesOwn
  BY Zenon, <1>1, <1>2, <1>4 DEF ScopesOwn
<1> QED BY Zenon, <1>6, <1>7, <1>8, <1>9 DEF StackIInv

\* _region_malloc adds a page to a region in scope.
LEMMA MallocIInv ==
    ASSUME StackConstants, StackIInv, NEW r \in Ids, Malloc(r)
    PROVE  StackIInv'
<1>1. /\ stack' = stack /\ scope' = scope /\ in_uncaught_fun' = in_uncaught_fun /\ quit' = quit
      /\ pages' = [pages EXCEPT ![r] = pages[r] + 1] /\ pages[r] < MaxPages
      /\ InScope("region", r)
  BY Zenon DEF Malloc
<1>2. pages \in [Ids -> 0 .. MaxPages] /\ MaxPages \in Nat
  BY Zenon DEF StackIInv, StackTypeOK, StackConstants
<1>3. pages' \in [Ids -> 0 .. MaxPages] /\ \A q \in Ids : q # r => pages'[q] = pages[q]
  BY <1>1, <1>2
<1>4. StackTypeOK'
  BY Zenon, <1>1, <1>3 DEF StackIInv, StackTypeOK
<1>5. \A i : Pushed(i)' = Pushed(i)
  BY Zenon, <1>1 DEF Pushed
<1>6. Base' = Base /\ Pushed(Len(scope))' = Pushed(Len(scope))
  BY Zenon, <1>1 DEF Base, Pushed
<1>7. FramesMatchScopes' /\ NoInternalError' /\ ScopesOwn'
  BY Zenon, <1>1, <1>5, <1>6 DEF StackIInv, FramesMatchScopes, NoInternalError, ScopesOwn
<1>8. RegionsReclaimed'
  BY Zenon, <1>1, <1>3 DEF StackIInv, RegionsReclaimed, InScope
<1> QED BY Zenon, <1>4, <1>7, <1>8 DEF StackIInv

\* _throw_fn keeps the invariant, and the exception goes to the innermost handler.
LEMMA ThrowIInv ==
    ASSUME StackConstants, StackIInv, NEW i \in 0 .. Len(stack), Throw(i)
    PROVE  StackIInv' /\ (quit' = "no" => Caught)
<1>1. CASE i = 0
  BY Zenon, <1>1, ThrowNone
<1>2. CASE i # 0
  <2>1. Len(stack) \in Nat
    BY Zenon, Facts DEF Throw, Running
  <2>2. i \in 1 .. Len(stack)
    BY <1>2, <2>1
  <2> QED BY Zenon, <2>2, ThrowTop, ThrowCaught
<1> QED BY Zenon, <1>1, <1>2

\* Every step keeps the invariant.
LEMMA StackNextIInv ==
    ASSUME StackConstants, "open" \notin Kinds, StackIInv, [StackNext]_stackVars
    PROVE  StackIInv'
<1>1. CASE UNCHANGED stackVars
  <2>1. /\ stack' = stack /\ scope' = scope /\ pages' = pages
        /\ in_uncaught_fun' = in_uncaught_fun /\ quit' = quit
    BY Zenon, <1>1 DEF stackVars
  <2>2. \A i : Pushed(i)' = Pushed(i)
    BY Zenon, <2>1 DEF Pushed
  <2>3. Base' = Base /\ Pushed(Len(scope))' = Pushed(Len(scope))
    BY Zenon, <2>1 DEF Base, Pushed
  <2>4. FramesMatchScopes' /\ NoInternalError' /\ ScopesOwn'
    BY Zenon, <2>1, <2>2, <2>3 DEF StackIInv, FramesMatchScopes, NoInternalError, ScopesOwn
  <2>5. StackTypeOK' /\ RegionsReclaimed'
    BY Zenon, <2>1 DEF StackIInv, StackTypeOK, RegionsReclaimed, InScope
  <2> QED BY Zenon, <2>4, <2>5 DEF StackIInv
<1>2. CASE \/ \E i \in Ids : EnterTry(i) \/ EnterRegion(i)
           \/ \E k \in Kinds : EnterFrameless(k)
           \/ Call
  BY Zenon, <1>2, BeginIInv
<1>3. CASE \E i \in Ids : Malloc(i)
  BY Zenon, <1>3, MallocIInv
<1>4. CASE \/ ExitTry \/ ExitRegion \/ ExitFrameless
           \/ \E n \in 1 .. Len(scope) - 1 : Jump(n)
           \/ \E n \in 0 .. Len(scope) - 1 : Return(n)
  BY Zenon, <1>4, EndIInv
<1>5. CASE \E i \in 0 .. Len(stack) : Throw(i)
  BY Zenon, <1>5, ThrowIInv
<1>6. CASE Ended
  BY Zenon, <1>1, <1>6 DEF Ended
<1> QED BY Zenon, <1>1, <1>2, <1>3, <1>4, <1>5, <1>6 DEF StackNext

\* The invariant holds in every reachable state, however try blocks, lexical regions,
\* calls, jumps, returns and exceptions are nested, in a thread without _open blocks.
THEOREM StackInvariance ==
    ASSUME "open" \notin Kinds
    PROVE  StackSpec => []StackIInv
<1>1. StackInit => StackIInv
  BY Zenon, StackAssumption, StackInitIInv
<1>2. StackIInv /\ [StackNext]_stackVars => StackIInv'
  BY Zenon, StackAssumption, StackNextIInv
<1> QED BY <1>1, <1>2, PTL DEF StackSpec

\* The frames of _current_frame are those of the scopes the program is in, and
\* _pop_region, _npop_handler and _throw_fn never find another one.
THEOREM StackStaysSound ==
    ASSUME "open" \notin Kinds
    PROVE  StackSpec => []StackSound
<1>1. StackIInv => StackSound
  BY Zenon DEF StackIInv, StackSound
<1> QED BY <1>1, StackInvariance, PTL

\* free_regions has freed the pages of every lexical region whose scope has been left,
\* on whatever path.
THEOREM RegionsAreReclaimed ==
    ASSUME "open" \notin Kinds
    PROVE  StackSpec => []RegionsReclaimed
<1>1. StackIInv => RegionsReclaimed
  BY Zenon DEF StackIInv
<1> QED BY <1>1, StackInvariance, PTL

\* _throw_fn resumes behind the innermost try block in scope, or in the top handler when
\* there is none.
THEOREM ExceptionsCaughtInnermost ==
    ASSUME "open" \notin Kinds
    PROVE  StackSpec => CaughtInnermost
<1>1. StackIInv => [(\E i \in 0 .. Len(stack) : Throw(i)) /\ quit' = "no" => Caught]_stackVars
  BY Zenon, StackAssumption, ThrowIInv
<1> QED BY <1>1, StackInvariance, PTL DEF CaughtInnermost

-----------------------------------------------------------------------------
(* FutexLock *)

\* A thread about to call futex_wait has read a nonzero lock word: without
\* this, a sleeper could be queued on a free word.
WaitsOnOwned == \A t \in Threads : pc[t] = "wait" => prev_val[t] # Free

\* The inductive invariant.
LockIInv == TypeOK /\ OwnerHoldsWord /\ WaitsOnOwned /\ NoLostWakeup

\* LockIInv holds initially: the word is free and every thread is outside.
LEMMA LockInitIInv == Init => LockIInv
  BY TidNotFree DEF Init, LockIInv, TypeOK, OwnerHoldsWord, WaitsOnOwned, NoLostWakeup, PCs

\* Every step of wait_lock, unlock and the kernel preserves LockIInv.
LEMMA LockNextIInv == LockIInv /\ [Next]_vars => LockIInv'
<1> SUFFICES ASSUME LockIInv, [Next]_vars PROVE LockIInv'
  OBVIOUS
<1> USE TidNotFree DEF LockIInv, TypeOK, OwnerHoldsWord, WaitsOnOwned, NoLostWakeup, PCs, Goto
<1>1. ASSUME NEW t \in Threads, CallWaitLock(t) PROVE LockIInv'
  BY <1>1 DEF CallWaitLock
<1>2. ASSUME NEW t \in Threads, Cas(t) PROVE LockIInv'
  <2>1. CASE lock = Free
    BY <1>2, <2>1 DEF Cas
  <2>2. CASE lock # Free
    BY <1>2, <2>2 DEF Cas
  <2> QED BY <2>1, <2>2
<1>3. ASSUME NEW t \in Threads, ReadLock(t) PROVE LockIInv'
  BY <1>3 DEF ReadLock
<1>4. ASSUME NEW t \in Threads, FutexWait(t) PROVE LockIInv'
  BY <1>4 DEF FutexWait
<1>5. ASSUME NEW t \in Threads, FutexTimeout(t) PROVE LockIInv'
  BY <1>5 DEF FutexTimeout
<1>6. ASSUME NEW t \in Threads, UnlockStore(t) PROVE LockIInv'
  BY <1>6 DEF UnlockStore
<1>7. ASSUME NEW t \in Threads, FutexWake(t) PROVE LockIInv'
  <2>1. CASE queue = {}
    BY <1>7, <2>1 DEF FutexWake
  <2>2. ASSUME NEW w \in queue, queue' = queue \ {w},
               pc' = [pc EXCEPT ![t] = "idle", ![w] = "cas"]
        PROVE  LockIInv'
    BY <1>7, <2>2 DEF FutexWake
  <2> QED BY <1>7, <2>1, <2>2 DEF FutexWake
<1>8. CASE UNCHANGED vars
  BY <1>8 DEF vars
<1> QED
  BY <1>1, <1>2, <1>3, <1>4, <1>5, <1>6, <1>7, <1>8 DEF Next, Step

\* LockIInv is an invariant of every behaviour, fair or not.
THEOREM LockInvariance == Spec => []LockIInv
  BY LockInitIInv, LockNextIInv, PTL DEF Spec

\* At every moment the lock word holds the tid of the thread in the critical
\* section, or nobody is there: the assertion of unlock cannot fail.
THEOREM MutualExclusion == Spec => []OwnerHoldsWord
<1>1. LockIInv => OwnerHoldsWord
  BY DEF LockIInv
<1> QED BY <1>1, LockInvariance, PTL

\* wait_lock and unlock never leave a sleeper behind with the lock free and
\* nobody on the way to take or wake.
THEOREM WakeupsNotLost == Spec => []NoLostWakeup
<1>1. LockIInv => NoLostWakeup
  BY DEF LockIInv
<1> QED BY <1>1, LockInvariance, PTL

\* wait_lock and unlock implement the atomic lock: the successful
\* compare-and-swap is Acquire, the store of 0 is Release, the rest stutters.
THEOREM Refinement == Spec => ImplementsMutex
<1>1. Init => Abstract!Init
  BY DEF Init, Abstract!Init, owner, waiting, Trying
<1>2. LockIInv /\ [Next]_vars => [Abstract!Next]_(Abstract!avars)
  <2> SUFFICES ASSUME LockIInv, [Next]_vars
               PROVE  Abstract!Next \/ UNCHANGED Abstract!avars
    OBVIOUS
  <2> USE TidNotFree DEF LockIInv, TypeOK, OwnerHoldsWord, PCs, Goto, owner, waiting,
          Trying, Abstract!avars
  <2>1. ASSUME NEW t \in Threads, CallWaitLock(t) PROVE Abstract!Request(t)
    BY <2>1 DEF CallWaitLock, Abstract!Request
  <2>2. ASSUME NEW t \in Threads, Cas(t)
        PROVE  Abstract!Acquire(t) \/ UNCHANGED Abstract!avars
    <3>1. CASE lock = Free
      BY <2>2, <3>1 DEF Cas, Abstract!Acquire
    <3>2. CASE lock # Free
      BY <2>2, <3>2 DEF Cas
    <3> QED BY <3>1, <3>2
  <2>3. ASSUME NEW t \in Threads, ReadLock(t) PROVE UNCHANGED Abstract!avars
    BY <2>3 DEF ReadLock
  <2>4. ASSUME NEW t \in Threads, FutexWait(t) PROVE UNCHANGED Abstract!avars
    BY <2>4 DEF FutexWait
  <2>5. ASSUME NEW t \in Threads, FutexTimeout(t) PROVE UNCHANGED Abstract!avars
    BY <2>5 DEF FutexTimeout
  <2>6. ASSUME NEW t \in Threads, UnlockStore(t) PROVE Abstract!Release(t)
    BY <2>6 DEF UnlockStore, Abstract!Release
  <2>7. ASSUME NEW t \in Threads, FutexWake(t) PROVE UNCHANGED Abstract!avars
    <3>1. CASE queue = {}
      BY <2>7, <3>1 DEF FutexWake
    <3>2. ASSUME NEW w \in queue, queue' = queue \ {w},
                 pc' = [pc EXCEPT ![t] = "idle", ![w] = "cas"]
          PROVE  UNCHANGED Abstract!avars
      BY <2>7, <3>2 DEF FutexWake
    <3> QED BY <2>7, <3>1, <3>2 DEF FutexWake
  <2>8. CASE UNCHANGED vars
    BY <2>8 DEF vars
  <2> QED
    BY <2>1, <2>2, <2>3, <2>4, <2>5, <2>6, <2>7, <2>8 DEF Next, Step, Abstract!Next
<1> QED
  BY <1>1, <1>2, LockInvariance, PTL DEF Spec, ImplementsMutex, Abstract!Spec
=============================================================================
