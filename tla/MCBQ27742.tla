----------------------------- MODULE MCBQ27742 -----------------------------
(* BQ27742 for TLC. *)
EXTENDS BQ27742

Block(b0, b1, c) == [p \in Positions |-> <<b0, b1, 7, c>>[p + 1]]

\* To be configured in either order; configured in the manual's order but for
\* BTP_EN; configured; to be configured with two bytes that are equal.
MCBlocks == {Block(98, 5, 1), Block(16, 34, 1), Block(18, 4, 0), Block(33, 33, 0)}
MCNoise == {0, 16, 255}
=============================================================================
