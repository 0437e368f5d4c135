----------------------------- MODULE MCUserMode -----------------------------
(* Small instance of UserMode for TLC.                                     *)
EXTENDS UserMode
=============================================================================
