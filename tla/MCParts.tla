------------------------------ MODULE MCParts ------------------------------
(***************************************************************************)
(* The small parts of the runtime, and the collections of the library, in  *)
(* one run of TLC.  They share no state, so a behaviour exercises one of   *)
(* them, which `part' names from the start, and the others keep their      *)
(* initial state.  Behaviours of main_join are long and its states few:    *)
(* TLC, which searches breadth first, gets them with a head start, `delay' *)
(* idle steps of every other part.                                         *)
(***************************************************************************)
EXTENDS MainJoin, RegionTable, RuntimeStack, TLC

CONSTANTS MaxOther, Above, InitialSize, InitialLen, MaxBindings

VARIABLES part, delay,
          dict, bound, crossed,
          heap, trees, bindings,
          tab, max_len, shadow

Sizes == <<1, 2, 5>>

\* Bindings of the library's collections.
DictPairs == {<<1, 0>>, <<2, 0>>, <<2, 1>>, <<3, 0>>, <<4, 0>>, <<4, 1>>, <<5, 0>>}
SlowDictPairs == {<<1, 0>>, <<2, 0>>, <<2, 1>>, <<3, 0>>, <<4, 0>>}
TablePairs == {<<0, 0>>, <<0, 1>>, <<1, 0>>, <<1, 1>>, <<3, 0>>}

Red == INSTANCE Dict WITH Pairs <- DictPairs
Slow == INSTANCE SlowDict WITH Pairs <- SlowDictPairs
Hash == INSTANCE Hashtable WITH Pairs <- TablePairs

ASSUME LibraryConstants == Red!ConstantsOK /\ Slow!ConstantsOK /\ Hash!ConstantsOK

\* Handles have no order.
Perms == Permutations(Addrs)

redVars == <<dict, bound, crossed>>
slowVars == <<heap, trees, bindings>>
hashVars == <<tab, max_len, shadow>>
runtimeVars == <<joinVars, tableVars, stackVars>>
libraryVars == <<redVars, slowVars, hashVars>>
vars == <<part, delay, runtimeVars, libraryVars>>

Init ==
    /\ part \in {"join", "table", "stack", "dict", "slowdict", "hashtable"}
    /\ delay = IF part = "join" THEN 0 ELSE 9
    /\ JoinInit /\ TableInit /\ StackInit
    /\ Red!Init /\ Slow!Init /\ Hash!Init

Wait == delay > 0 /\ delay' = delay - 1 /\ UNCHANGED <<runtimeVars, libraryVars>>

Exercise ==
    /\ delay = 0 /\ UNCHANGED delay
    /\ \/ /\ part = "join" /\ JoinNext
          /\ UNCHANGED <<tableVars, stackVars, libraryVars>>
       \/ /\ part = "table" /\ TableNext
          /\ UNCHANGED <<joinVars, stackVars, libraryVars>>
       \/ /\ part = "stack" /\ StackNext
          /\ UNCHANGED <<joinVars, tableVars, libraryVars>>
       \/ /\ part = "dict" /\ Red!Next
          /\ UNCHANGED <<runtimeVars, slowVars, hashVars>>
       \/ /\ part = "slowdict" /\ Slow!Next
          /\ UNCHANGED <<runtimeVars, redVars, hashVars>>
       \/ /\ part = "hashtable" /\ Hash!Next
          /\ UNCHANGED <<runtimeVars, redVars, slowVars>>

Next == UNCHANGED part /\ (Wait \/ Exercise)

Spec == Init /\ [][Next]_vars

-----------------------------------------------------------------------------
\* Every lookup and every traversal of a dictionary gives what a finite map would.
DictExact == Red!DictExact

\* A dictionary that does not go back to an intersection is a red-black tree.
RedBlack == Red!RedBlack

\* Rotations in place leave the bindings of every dictionary that shares nodes alone.
VersionsExact == Slow!VersionsExact

\* A splay that returns true has brought the key, with its data, to the root.
RootFound == Slow!RootFound

\* A lookup in a hash table finds the latest binding, over the ones it hides.
ShadowingKept == Hash!ShadowingKept
=============================================================================
