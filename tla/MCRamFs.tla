------------------------------ MODULE MCRamFs ------------------------------
(* Small instance of RamFs for TLC: hello.txt and up to two more nodes,  *)
(* two heap blocks of three bytes, one name that holds a slash.          *)
EXTENDS RamFs

MCSymmetry == Permutations(Blocks)
MCPathOf == [n \in Names |-> IF n = "x/y" THEN <<"x", "y">> ELSE <<n>>]
=============================================================================
