------------------------------- MODULE MCKeeper -------------------------------
(* Instances of KeeperNames. *)
EXTENDS KeeperNames, TLC

CONSTANTS k1, k2, r1, r2

MCKeepers  == {k1, k2}
MCKeeper1  == {k1}
MCReaders  == {r1, r2}
MCTroubles == {"failed", "refused", "rename", "reconfigure"}
Symmetry   == Permutations(MCKeepers) \cup Permutations(MCReaders)
=============================================================================
