------------------------------ MODULE MCAtaPio ------------------------------
(* Small instance of AtaPio for TLC: a drive of three sectors, calls for   *)
(* one and two of them, two polls and three attempts.                      *)
EXTENDS AtaPio

MCCounts == {1, 2}
=============================================================================
