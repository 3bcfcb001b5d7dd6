---------------------------- MODULE MCMAX77976 ----------------------------
(* MAX77976 for TLC, and the bit operations against what bit_ops.h's users *)
(* expect of them, bit by bit.                                             *)
EXTENDS MAX77976

Indices == 0..7
Samples == {0, 90, 137, 255}

ASSUME OneBitIsAssigned ==
    \A v \in Byte, new \in {0, 1, 2}, idx \in Indices, i \in Indices :
        bit_check(bit_assign(v, new, idx), i) =
            IF i # idx THEN bit_check(v, i) ELSE IF new = 0 THEN 0 ELSE 1

ASSUME RangeIsReplaced ==
    \A v \in Samples, new \in Byte, lsb \in Indices :
        \A msb \in lsb..7, i \in Indices :
            bit_check(bit_set_range(v, lsb, msb, new), i) =
                IF i \in lsb..msb THEN bit_check(new, i - lsb) ELSE bit_check(v, i)
=============================================================================
