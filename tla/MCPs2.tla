-------------------------------- MODULE MCPs2 --------------------------------
(* Small instance of Ps2 for TLC: the keys 7 (scancode 8), which is also a *)
(* byte the mouse sends, and 8 (9).  Taken for the configuration byte the  *)
(* one switches the keyboard's interrupt off and the other leaves it on.   *)
EXTENDS Ps2, TLC

MCLayout == (8 :> "7") @@ (9 :> "8")
MCKeys == {8, 9}
(* What common firmware leaves: keyboard interrupt on, translation on, the *)
(* mouse off (0x61) or on (0x45).                                          *)
MCBiosCtrs == {97, 69}
=============================================================================
