---------------------------- MODULE MCRP2040Log ----------------------------
(* Small instances of RP2040Log for TLC: one message that fits a slot and  *)
(* one that is cut.                                                        *)
EXTENDS RP2040Log, TLC

CONSTANTS core0, core1, irq0, short, long

MCCallers == {core0, core1, irq0}
MCMessages == {short, long}
MCMsgChars == (short :> 1) @@ (long :> 6)
=============================================================================
