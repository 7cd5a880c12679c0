--------------------------- MODULE MCXRegionLive ---------------------------
EXTENDS XRegionLive

\* Take and release one write or read lock, a second reference, drop all.
LockOps == {<<0, 1, 0>>, <<0, -1, 0>>, <<0, 0, 1>>, <<0, 0, -1>>,
            <<1, 0, 0>>, <<-1, 0, 0>>}

RefOnly == {<<1, 0, 0>>}
=============================================================================
