---------------------------- MODULE MC_KexStore ----------------------------
(* Small instance of KexStore for TLC: two processes, one key this        *)
(* persona generates, one peer key that messages carry, private key      *)
(* files of one and one-and-a-half zero blocks.                           *)
EXTENDS KexStore, TLC

CONSTANTS p1, p2, g1, k1, none

MC_Proc    == {p1, p2}
MC_GenId   == {g1}
MC_PeerKey == {k1}
MC_KeyLen  == {2, 3}
MC_Blk     == 2

MC_Symmetry == Permutations(MC_Proc)
=============================================================================
