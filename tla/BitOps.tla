------------------------------ MODULE BitOps -------------------------------
(***************************************************************************)
(* The helpers of src/src/bit_ops.c on bytes.  A byte is a number in       *)
(* 0..255 and a shift a multiplication; what a function shifts beyond bit  *)
(* 7 its uint8_t result drops.                                             *)
(***************************************************************************)
EXTENDS Integers

Byte == 0..255

\* Bit i of a vector, 0 or 1.
bit_check(v, i) == (v \div 2^i) % 2

\* The bits two bytes share (the operator & of C).
And(v, w) ==
    LET both(i) == bit_check(v, i) * bit_check(w, i) * 2^i
    IN  both(0) + both(1) + both(2) + both(3) + both(4) + both(5) + both(6) + both(7)

bitmask_clear(v, mask) == v - And(v, mask)

bit_set(v, i) == IF bit_check(v, i) = 1 THEN v ELSE v + 2^i
bit_clear(v, i) == IF bit_check(v, i) = 1 THEN v - 2^i ELSE v

bit_assign(v, new_value, i) ==
    IF new_value = 0 THEN bit_clear(v, i) ELSE bit_set(v, i)

bitmask_from_x_2_y(lsb, msb) == ((2^(msb - lsb + 1) - 1) * 2^lsb) % 256

bit_set_range(v, lsb, msb, new_val) ==
    LET mask == bitmask_from_x_2_y(lsb, msb)
    IN  bitmask_clear(v, mask) + And(new_val * 2^lsb, mask)
=============================================================================
