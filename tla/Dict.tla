------------------------------- MODULE Dict -------------------------------
(***************************************************************************)
(* The dictionaries of src/lib/dict.cyc, in which the compiler keeps its   *)
(* environments: persistent red-black trees.  One dictionary goes through  *)
(* the calls of the library; `bound' is what a finite map would hold.      *)
(***************************************************************************)
EXTENDS Integers, Sequences, FiniteSets, SequencesExt

CONSTANTS Pairs,     \* the bindings <<key, value>> a program makes, of numbers
          MaxOther   \* bound on the bindings of the other dictionary of a call

VARIABLES dict,      \* the tree
          bound,     \* the set of bindings <<key, value>> it should have
          crossed    \* does it go back to intersect_c?

vars == <<dict, bound, crossed>>

Words == {kv[1] : kv \in Pairs}

\* The constants that make sense.
ConstantsOK == Pairs \subseteq Nat \X Nat /\ MaxOther \in Nat

\* A tree is NULL or <<color, left, right, <<key, value>>>>.
NULL == <<>>
T(color, left, right, key_val) == <<color, left, right, key_val>>
Left(t) == t[2]
Right(t) == t[3]
KeyVal(t) == t[4]
Red(t) == t # NULL /\ t[1] = "R"

Init == dict = NULL /\ bound = {} /\ crossed = FALSE

-----------------------------------------------------------------------------
(* Trees *)

\* member, lookup, lookup_opt, lookup_bool: what the loop ends at.
RECURSIVE Search(_, _)
Search(t, k) ==
    IF t = NULL \/ KeyVal(t)[1] = k THEN t
    ELSE Search(IF k < KeyVal(t)[1] THEN Left(t) ELSE Right(t), k)

Member(t, k) == Search(t, k) # NULL
Lookup(t, k) == KeyVal(Search(t, k))[2]

\* The four cases of balance that have something to do end up like this.
Rotated(a, x, b, y, c, z, d) == T("R", T("B", a, b, x), T("B", c, d, z), y)

\* Mutant: the case of a red right child with a red left child is missing.
BalanceThree(color, l, r, key_val) ==
    IF color = "B" /\ Red(l) /\ Red(Left(l))
    THEN Rotated(Left(Left(l)), KeyVal(Left(l)), Right(Left(l)), KeyVal(l),
                 Right(l), key_val, r)
    ELSE IF color = "B" /\ Red(l) /\ Red(Right(l))
    THEN Rotated(Left(l), KeyVal(l), Left(Right(l)), KeyVal(Right(l)),
                 Right(Right(l)), key_val, r)
    ELSE IF color = "B" /\ Red(r) /\ Red(Right(r))
    THEN Rotated(l, key_val, Left(r), KeyVal(r), Left(Right(r)), KeyVal(Right(r)),
                 Right(Right(r)))
    ELSE T(color, l, r, key_val)

Balance(color, l, r, key_val) ==
    IF color = "B" /\ Red(l) /\ Red(Left(l))
    THEN Rotated(Left(Left(l)), KeyVal(Left(l)), Right(Left(l)), KeyVal(l),
                 Right(l), key_val, r)
    ELSE IF color = "B" /\ Red(l) /\ Red(Right(l))
    THEN Rotated(Left(l), KeyVal(l), Left(Right(l)), KeyVal(Right(l)),
                 Right(Right(l)), key_val, r)
    ELSE IF color = "B" /\ Red(r) /\ Red(Left(r))
    THEN Rotated(l, key_val, Left(Left(r)), KeyVal(Left(r)), Right(Left(r)),
                 KeyVal(r), Right(r))
    ELSE IF color = "B" /\ Red(r) /\ Red(Right(r))
    THEN Rotated(l, key_val, Left(r), KeyVal(r), Left(Right(r)), KeyVal(Right(r)),
                 Right(Right(r)))
    ELSE T(color, l, r, key_val)

RECURSIVE Ins(_, _)
Ins(key_val, t) ==
    IF t = NULL THEN T("R", NULL, NULL, key_val)
    ELSE IF key_val[1] < KeyVal(t)[1]
    THEN Balance(t[1], Ins(key_val, Left(t)), Right(t), KeyVal(t))
    ELSE IF key_val[1] > KeyVal(t)[1]
    THEN Balance(t[1], Left(t), Ins(key_val, Right(t)), KeyVal(t))
    ELSE T(t[1], Left(t), Right(t), key_val)

\* The new root is painted black.
Insert(t, key_val) == [Ins(key_val, t) EXCEPT ![1] = "B"]

\* The order of fold_tree.
RECURSIVE InOrder(_)
InOrder(t) ==
    IF t = NULL THEN <<>> ELSE InOrder(Left(t)) \o <<KeyVal(t)>> \o InOrder(Right(t))

\* The order of a stack that takes the left child before the right one.
RECURSIVE RightFirst(_)
RightFirst(t) ==
    IF t = NULL THEN <<>>
    ELSE <<KeyVal(t)>> \o RightFirst(Right(t)) \o RightFirst(Left(t))

\* rfilter_c builds a new dictionary, of the keys in keep.
Filter(t, keep) ==
    FoldLeft(Insert, NULL, SelectSeq(InOrder(t), LAMBDA kv : kv[1] \in keep))

\* The function that union_two_c and intersect_c get.
F(v1, v2) == IF v1 < v2 THEN v2 ELSE v1

\* Mutant: a key that is there keeps its value.
UnionKeepsOld(d1, kv) == IF Member(d1, kv[1]) THEN d1 ELSE Insert(d1, kv)

UnionF(d1, kv) ==
    IF ~Member(d1, kv[1]) THEN Insert(d1, kv)
    ELSE LET old_val == Lookup(d1, kv[1])
             new_val == F(old_val, kv[2])
         IN IF new_val # old_val THEN Insert(d1, <<kv[1], new_val>>) ELSE d1

\* For one tree twice the code returns it at once; F makes the fold do the same.
UnionTwo(d1, d2) ==
    IF d1 = NULL THEN d2 ELSE FoldLeft(UnionF, d1, InOrder(d2))

\* intersect_c calls ins, and nobody paints the root.  (Never the same tree twice here.)
Intersect(d1, d2) ==
    FoldLeft(LAMBDA acc, kv : IF Member(d1, kv[1])
                              THEN Ins(<<kv[1], F(Lookup(d1, kv[1]), kv[2])>>, acc)
                              ELSE acc,
             NULL, RightFirst(d2))

-----------------------------------------------------------------------------
(* Calls, whose result takes the place of the dictionary *)

Becomes(t, map, cross) == dict' = t /\ bound' = map /\ crossed' = cross

\* bound, as a map
Domain(map) == {kv[1] : kv \in map}
Without(map, keys) == {kv \in map : kv[1] \notin keys}
Value(map, k) == (CHOOSE kv \in map : kv[1] = k)[2]

insert(kv) == Becomes(Insert(dict, kv), Without(bound, {kv[1]}) \cup {kv}, crossed)

\* insert_new throws if the key is there.
insert_new(kv) == ~Member(dict, kv[1]) /\ insert(kv)

\* delete and rdelete_same rebuild nothing for a key that is not there.
delete(k) ==
    /\ Member(dict, k)
    /\ Becomes(Filter(dict, Words \ {k}), Without(bound, {k}), FALSE)

difference(d2) ==
    Becomes(Filter(dict, {k \in Words : ~Member(d2, k)}),
            Without(bound, Domain(ToSet(InOrder(d2)))), FALSE)

\* The dictionary is the first argument or the second.
union_two_c(d2, first) ==
    LET map == ToSet(InOrder(d2))
    IN Becomes(IF first THEN UnionTwo(dict, d2) ELSE UnionTwo(d2, dict),
               {<<k, F(Value(bound, k), Value(map, k))>> :
                    k \in Domain(bound) \cap Domain(map)}
                 \cup Without(bound, Domain(map)) \cup Without(map, Domain(bound)),
               crossed /\ (first \/ d2 = NULL))

intersect_c(d2, first) ==
    LET map == ToSet(InOrder(d2))
    IN Becomes(IF first THEN Intersect(dict, d2) ELSE Intersect(d2, dict),
               {<<k, F(Value(bound, k), Value(map, k))>> :
                    k \in Domain(bound) \cap Domain(map)},
               TRUE)

\* The keys of the list come in their order.
Ascending(list) == \A i \in 1 .. Len(list) - 1 : list[i][1] < list[i + 1][1]

\* Other dictionaries: inserts of a list, in the order of the keys.
Others ==
    {FoldLeft(Insert, NULL, list) :
        list \in {l \in UNION {[1 .. n -> Pairs] : n \in 0 .. MaxOther} : Ascending(l)}}

Next ==
    \/ \E kv \in Pairs : insert(kv) \/ insert_new(kv) \/ delete(kv[1])
    \/ \E d2 \in Others :
          \/ difference(d2)
          \/ \E first \in BOOLEAN : union_two_c(d2, first) \/ intersect_c(d2, first)

Spec == Init /\ [][Next]_vars

-----------------------------------------------------------------------------
\* Black nodes on every path from t down, or -1 if there is no such number.
RECURSIVE BlackHeight(_)
BlackHeight(t) ==
    IF t = NULL THEN 0
    ELSE LET l == BlackHeight(Left(t))
             r == BlackHeight(Right(t))
         IN IF l # r \/ l = -1 \/ (Red(t) /\ (Red(Left(t)) \/ Red(Right(t)))) THEN -1
            ELSE l + (IF Red(t) THEN 0 ELSE 1)

\* Every lookup finds the binding of the map, and a traversal visits the bindings once
\* each in the order of the keys, for all ways insert, filter, union_two_c and
\* intersect_c (which leaves its tree unbalanced) can have built the tree.
DictExact ==
    /\ \A k \in Words : Member(dict, k) <=> k \in Domain(bound)
    /\ \A kv \in bound : Lookup(dict, kv[1]) = kv[2]
    /\ ToSet(InOrder(dict)) = bound /\ Ascending(InOrder(dict))

\* A dictionary that does not go back to an intersection is a red-black tree with a
\* black root, whatever calls it went through: balance and the repainting in insert
\* keep what make_iter relies on for the size of its stack.
RedBlack == ~crossed => ~Red(dict) /\ BlackHeight(dict) # -1
=============================================================================
