----------------------------- MODULE SlowDict -----------------------------
(***************************************************************************)
(* The dictionaries of src/lib/slowdict.cyc on the splay trees of          *)
(* src/lib/splay.cyc.  The calls return new dictionaries that share their  *)
(* nodes with the old ones, and yet every lookup rotates nodes in place:   *)
(* a noderef keeps its identity and gets another node.  `heap' holds the   *)
(* node of every noderef, `trees' the root of two dictionaries, and        *)
(* `bindings' what finite maps would hold.                                 *)
(***************************************************************************)
EXTENDS Integers, Sequences, SequencesExt

CONSTANTS Pairs,  \* the bindings <<key, value>> a program makes; reln compares numbers
          Above   \* a number above all keys: get_largest goes where it would go

VARIABLES heap, trees, bindings

vars == <<heap, trees, bindings>>

Dicts == {1, 2}
Leaf == 0
Node(key, data, left, right) ==
    [key |-> key, data |-> data, left |-> left, right |-> right]

Words == {kv[1] : kv \in Pairs}

\* The constants that make sense.
ConstantsOK == Words \subseteq Nat /\ Above \in Nat /\ \A k \in Words : k < Above

Init ==
    /\ heap = <<>>
    /\ trees = [d \in Dicts |-> Leaf]
    /\ bindings = [d \in Dicts |-> {}]

-----------------------------------------------------------------------------
(* splay.cyc *)

\* Mutant: the old root is not copied but changed, under its old left child.
RotateLeftInPlace(h, nr) ==
    LET n == h[nr]
        n2 == h[n.left]
    IN [h EXCEPT ![n.left] = Node(n.key, n.data, n2.right, n.right),
                 ![nr] = Node(n2.key, n2.data, n2.left, n.left)]

\* rotate_left brings the left child up.
RotateLeft(h, nr) ==
    LET n == h[nr]
        n2 == h[n.left]
    IN Append([h EXCEPT ![nr] = Node(n2.key, n2.data, n2.left, Len(h) + 1)],
              Node(n.key, n.data, n2.right, n.right))

RotateRight(h, nr) ==
    LET n == h[nr]
        n2 == h[n.right]
    IN Append([h EXCEPT ![nr] = Node(n2.key, n2.data, Len(h) + 1, n2.right)],
              Node(n.key, n.data, n.left, n2.left))

Rotate(h, dir, nr) == IF dir = "LEFT" THEN RotateLeft(h, nr) ELSE RotateRight(h, nr)

\* The path goes up, as <<direction, noderef>>; two levels at a time.
RECURSIVE Lift(_, _)
Lift(h, dnl) ==
    IF dnl = <<>> THEN h
    ELSE LET p == dnl[1]
         IN IF Len(dnl) = 1 THEN Rotate(h, p[1], p[2])
            ELSE LET g == dnl[2]
                     h1 == IF p[1] = g[1] THEN Rotate(h, g[1], g[2])
                           ELSE Rotate(h, p[1], p[2])
                 IN Lift(Rotate(h1, g[1], g[2]), SubSeq(dnl, 3, Len(dnl)))

\* The way to k, and the noderef that has it, or Leaf.
RECURSIVE Descend(_, _, _, _)
Descend(h, k, tree, path) ==
    IF tree = Leaf \/ h[tree].key = k THEN [path |-> path, at |-> tree]
    ELSE IF k < h[tree].key
         THEN Descend(h, k, h[tree].left, <<<<"LEFT", tree>>>> \o path)
         ELSE Descend(h, k, h[tree].right, <<<<"RIGHT", tree>>>> \o path)

Found(h, k, tree) == Descend(h, k, tree, <<>>).at # Leaf

\* Mutant: the key found stays one level below the root.
SplayShort(h, k, tree) ==
    LET way == Descend(h, k, tree, <<>>)
    IN IF way.path = <<>> THEN h ELSE Lift(h, Tail(way.path))

\* rsplay: k comes to the root, or the last node on the way to it.
Splay(h, k, tree) ==
    LET way == Descend(h, k, tree, <<>>)
    IN IF way.at # Leaf \/ way.path = <<>> THEN Lift(h, way.path)
       ELSE Lift(h, Tail(way.path))

-----------------------------------------------------------------------------
(* Memory: what no dictionary reaches is collected, and the rest renumbered *)

RECURSIVE Reached(_, _, _)
Reached(h, todo, seen) ==
    IF todo = <<>> THEN seen
    ELSE LET x == Head(todo)
         IN IF x = Leaf \/ Contains(seen, x) THEN Reached(h, Tail(todo), seen)
            ELSE Reached(h, <<h[x].left, h[x].right>> \o Tail(todo), Append(seen, x))

Collected(h, roots) ==
    \E order \in {Reached(h, roots, <<>>)} :
        LET new(x) == IF x = Leaf THEN Leaf
                      ELSE CHOOSE i \in DOMAIN order : order[i] = x
        IN /\ heap' = [i \in DOMAIN order |->
                         [h[order[i]] EXCEPT !.left = new(@), !.right = new(@)]]
           /\ trees' = [d \in Dicts |-> new(roots[d])]

\* Dictionary e becomes the tree t of heap h.
Becomes(h, e, t, map) ==
    /\ Collected(h, [trees EXCEPT ![e] = t])
    /\ bindings' = [bindings EXCEPT ![e] = map]

-----------------------------------------------------------------------------
(* slowdict.cyc *)

Without(map, k) == {kv \in map : kv[1] # k}

\* member, lookup and lookup_opt splay the tree.
lookup(d, k) ==
    /\ Collected(Splay(heap, k, trees[d]), trees)
    /\ UNCHANGED bindings

\* insert hangs both parts of the splayed tree under a new root.  insert_new is a
\* lookup that throws if it finds the key, and then an insert.
insert(d, e, k, v) ==
    LET h == Splay(heap, k, trees[d])
        n == h[trees[d]]
        map == Without(bindings[d], k) \cup {<<k, v>>}
        new == Len(h) + 1
    IN IF trees[d] = Leaf
       THEN Becomes(Append(h, Node(k, v, Leaf, Leaf)), e, new, map)
       ELSE IF n.key = k
       THEN Becomes(Append(h, Node(k, v, n.left, n.right)), e, new, map)
       ELSE IF k < n.key
       THEN Becomes(h \o <<Node(k, v, n.left, new + 1),
                           Node(n.key, n.data, Leaf, n.right)>>, e, new, map)
       ELSE Becomes(h \o <<Node(k, v, new + 1, n.right),
                           Node(n.key, n.data, n.left, Leaf)>>, e, new, map)

delete(d, e, k) ==
    LET h == Splay(heap, k, trees[d])
        n == h[trees[d]]
        map == Without(bindings[d], k)
    IN IF ~Found(heap, k, trees[d])
       THEN Becomes(h, e, trees[d], map)
       ELSE IF n.left = Leaf THEN Becomes(h, e, n.right, map)
       ELSE IF n.right = Leaf THEN Becomes(h, e, n.left, map)
       ELSE LET h2 == Splay(h, Above, n.left)
                newtop == h2[n.left]
            IN Becomes(Append(h2, Node(newtop.key, newtop.data, newtop.left, n.right)),
                       e, Len(h2) + 1, map)

Next ==
    \E d \in Dicts, k \in Words :
        \/ lookup(d, k)
        \/ \E e \in Dicts : delete(d, e, k)
        \/ \E e \in Dicts, v \in {kv[2] : kv \in Pairs} :
              <<k, v>> \in Pairs /\ insert(d, e, k, v)

Spec == Init /\ [][Next]_vars

-----------------------------------------------------------------------------
\* The order of app_tree and iter_tree.
RECURSIVE InOrder(_)
InOrder(t) ==
    IF t = Leaf THEN <<>>
    ELSE InOrder(heap[t].left) \o <<<<heap[t].key, heap[t].data>>>>
           \o InOrder(heap[t].right)

\* The dictionaries are functional although lookups rotate: whatever a call does to
\* the noderefs a dictionary shares with another, both keep their bindings, in order.
VersionsExact ==
    \A d \in Dicts :
        LET list == InOrder(trees[d])
        IN /\ ToSet(list) = bindings[d]
           /\ \A i \in 1 .. Len(list) - 1 : list[i][1] < list[i + 1][1]

\* lookup reads the data at the root after splay has returned true: then the root has
\* the key, and its data is the latest binding; splay returns false for all other keys.
RootFound ==
    \A d \in Dicts, k \in Words :
        LET h == Splay(heap, k, trees[d])
        IN \/ \E kv \in bindings[d] :
                /\ kv[1] = k /\ Found(heap, k, trees[d])
                /\ h[trees[d]].key = k /\ h[trees[d]].data = kv[2]
           \/ (\A kv \in bindings[d] : kv[1] # k) /\ ~Found(heap, k, trees[d])
=============================================================================
