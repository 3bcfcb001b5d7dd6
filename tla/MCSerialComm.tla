---------------------------- MODULE MCSerialComm ----------------------------
(* SerialComm for TLC: the levels that look like the markers are the ones     *)
(* that can confuse the framing.                                             *)
EXTENDS SerialComm

MCLevels == {254, 255}
MCTypes == {0, 1, 2, 3}
=============================================================================
