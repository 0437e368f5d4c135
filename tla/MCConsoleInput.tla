--------------------------- MODULE MCConsoleInput ---------------------------
(* Small instance of ConsoleInput for TLC.                                 *)
EXTENDS ConsoleInput
=============================================================================
