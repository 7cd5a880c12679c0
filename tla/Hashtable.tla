---------------------------- MODULE Hashtable ----------------------------
(***************************************************************************)
(* The hash tables of src/lib/hashtable.cyc: chained buckets in which a    *)
(* binding hides the earlier ones of its key until it is removed.          *)
(* `shadow' is, for every key, the stack of the values it is bound to.     *)
(***************************************************************************)
EXTENDS Integers, Sequences, SequencesExt

CONSTANTS Pairs,        \* the bindings <<key, value>> a program makes; hash(k) = k
          InitialSize,  \* the argument sz of create
          InitialLen,   \* the first max_len (3 in the code)
          MaxBindings   \* bound on the bindings in the table

VARIABLES tab, max_len, shadow

vars == <<tab, max_len, shadow>>

Words == {kv[1] : kv \in Pairs}

\* The constants that make sense.
ConstantsOK ==
    /\ Words \subseteq Nat /\ MaxBindings \in Nat
    /\ InitialSize \in Nat \ {0} /\ InitialLen \in Nat \ {0}

Init ==
    /\ tab = [i \in 1 .. InitialSize |-> <<>>]
    /\ max_len = InitialLen
    /\ shadow = [k \in Words |-> <<>>]

Bucket(t, k) == 1 + (k % Len(t))

\* assoc_cmp, and the loops of lookup_opt and try_lookup: the first binding of k.
First(k) == SelectInSeq(tab[Bucket(tab, k)], LAMBDA kv : kv[1] = k)

\* Mutant: the bucket is copied from its front, and comes out the other way round.
InsertBucketReversed(t, elems) ==
    FoldLeft(LAMBDA acc, kv : [acc EXCEPT ![Bucket(acc, kv[1])] = <<kv>> \o @],
             t, elems)

\* insert_bucket does the tail of the list first.
InsertBucket(t, elems) ==
    FoldRight(LAMBDA kv, acc : [acc EXCEPT ![Bucket(acc, kv[1])] = <<kv>> \o @],
              elems, t)

\* resize: the old buckets one after the other.
Resized(t) ==
    FoldLeft(InsertBucket, [i \in 1 .. 2 * Len(t) + 1 |-> <<>>], t)

\* The table is resized at most once, when the bucket has become too long.
insert(kv) ==
    LET b == Bucket(tab, kv[1])
        longer == [tab EXCEPT ![b] = <<kv>> \o @]
    IN /\ IF Len(longer[b]) > max_len
          THEN tab' = Resized(longer) /\ max_len' = 2 * max_len
          ELSE tab' = longer /\ UNCHANGED max_len
       /\ shadow' = [shadow EXCEPT ![kv[1]] = <<kv[2]>> \o @]

\* remove takes the most recent binding out, if there is one.
remove(k) ==
    /\ tab' = IF First(k) = 0 THEN tab
              ELSE [tab EXCEPT ![Bucket(tab, k)] = RemoveAt(@, First(k))]
    /\ shadow' = [shadow EXCEPT ![k] = IF @ = <<>> THEN @ ELSE Tail(@)]
    /\ UNCHANGED max_len

Next ==
    \/ Len(FlattenSeq(tab)) < MaxBindings /\ \E kv \in Pairs : insert(kv)
    \/ \E k \in Words : remove(k)

Spec == Init /\ [][Next]_vars

-----------------------------------------------------------------------------
\* The values that the bindings of k in a bucket have, the most recent first.
Values(bucket, k) ==
    LET mine == SelectSeq(bucket, LAMBDA kv : kv[1] = k)
    IN [i \in DOMAIN mine |-> mine[i][2]]

\* lookup finds the latest binding that is left, and what it hides is there in the
\* order it was made, also when resize copied the buckets in between; no bucket has a
\* binding that lookup would not find there, so that iter visits nothing else.
ShadowingKept ==
    \A k \in Words, b \in DOMAIN tab :
        Values(tab[b], k) = IF b = Bucket(tab, k) THEN shadow[k] ELSE <<>>
=============================================================================
