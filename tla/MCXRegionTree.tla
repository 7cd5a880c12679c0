--------------------------- MODULE MCXRegionTree ---------------------------
\* Instances of XRegionTree for TLC.
EXTENDS XRegionTree, TLC

CONSTANTS par, c1, c2

\* A parent and a child, and a parent with two children.
Couple == {<<par, None>>, <<c1, par>>}
Fork == {<<par, None>>, <<c1, par>>, <<c2, par>>}

\* Share any region, unlock what its creation has locked, lock the parent.
ShareCaps ==
    (Regions \X {<<1, 0, 0>>, <<0, -1, 0>>}) \cup {<<par, <<0, 1, 0>>>>}
\* Also give up the parent, and with it the children, and read it.
ParentCaps == ShareCaps \cup ({par} \X {<<-1, 0, 0>>, <<0, 0, 1>>, <<0, 0, -1>>})
ReadCaps == Regions \X {<<0, 0, 1>>, <<0, 0, -1>>}
WriteCaps == Regions \X {<<1, 0, 0>>, <<-1, 0, 0>>, <<0, 1, 0>>, <<0, -1, 0>>}

\* Spawn with references to the parent and one child, to the whole family, or to
\* the family with one child named twice, which the spawning thread gives up.
Ref(r) == <<r, 1, 0, 0>>
Pair == {<<Ref(c1), Ref(par)>>}
Siblings == {<<Ref(c1), Ref(c2), Ref(par)>>}
Family == {<<Ref(c1), Ref(c2), Ref(par)>> \o l : l \in {<<>>, <<Ref(c1)>>, <<Ref(c2)>>}}

\* The two children play the same part in the caps and lists above.
Children == Permutations({c1, c2})
=============================================================================
