-------------------------------- MODULE MCIpc --------------------------------
(* Small instance of Ipc for TLC.                                          *)
EXTENDS Ipc
=============================================================================
