---------------------------- MODULE MCCallQueue ----------------------------
(* Small instances of CallQueue for TLC. *)
EXTENDS CallQueue

CONSTANTS charger, usb, wireless

MCHeldPins == {charger, usb}
MCTogglePins == {wireless}
=============================================================================
