--------------------------- MODULE MCXRegionCaps ---------------------------
(***************************************************************************)
(* Instances of XRegionCaps for TLC: the cap and spawn calls of the        *)
(* programs under src/tests and src/shootout.                              *)
(***************************************************************************)
EXTENDS XRegionCaps, TLC

\* cap(h,0,1,0), cap(h,0,-1,0), cap(h,0,0,1), cap(h,0,0,-1), cap(h,1,0,0),
\* cap(h,-1,0,0) (tests t6 to t8) and the downgrade cap(r,n,-1,m) of
\* regex-dna, all counts at most 1.
TestOps == {<<0, 1, 0>>, <<0, -1, 0>>, <<0, 0, 1>>, <<0, 0, -1>>,
            <<1, 0, 0>>, <<-1, 0, 0>>, <<0, -1, 1>>}

\* spawn ($(h,1,0,0)): a reference and no lock.
RefOnly == {<<1, 0, 0>>}

WriteOps == {<<0, 1, 0>>, <<0, -1, 0>>, <<1, 0, 0>>, <<-1, 0, 0>>}

\* spawn ($(h1,1,1,0)) of test t5: a write lock is handed over.
WithWrite == RefOnly \cup {<<1, 1, 0>>}

\* spawn ($(h,1,0,1)) of test t5 and of regex-dna: a read lock is handed over.
WithRead == RefOnly \cup {<<1, 0, 1>>}

Perms == Permutations(Threads \ {Main})
=============================================================================
