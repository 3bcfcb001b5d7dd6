--------------------------- MODULE MAX77976_proofs ---------------------------
(***************************************************************************)
(* The charger and the I2C transfers under it: whose Catch a Throw ends    *)
(* in, who reads the interrupts, and what settings are left.               *)
(***************************************************************************)
EXTENDS MAX77976, SequenceTheorems, TLAPS

-----------------------------------------------------------------------------
(* CException's frame. *)

States == {"run", "try", "stopped", "astray"}

\* The frame belongs to every core that is inside Try, unless both were.
FrameIsOwn == \A c \in Cores : state[c] = "try" => frame = c \/ nested

FrameInv ==
    /\ state \in [Cores -> States]
    /\ FrameIsOwn
    /\ ThrownAtHome

LEMMA InitFrameInv == Init => FrameInv
BY DEF Init, FrameInv, FrameIsOwn, ThrownAtHome, Astray, States

LEMMA EnterTryInv ==
    ASSUME FrameInv, NEW c \in Cores, EnterTry(c)
    PROVE  FrameInv'
<1>. USE DEF FrameInv
<1>1. ~Astray /\ state' = [state EXCEPT ![c] = "try"]
  BY DEF EnterTry, At
<1>2. state' \in [Cores -> States]
  BY <1>1 DEF States
<1>3. FrameIsOwn'
  <2>. SUFFICES ASSUME NEW d \in Cores, state'[d] = "try"
                PROVE  frame' = d \/ nested'
    BY DEF FrameIsOwn
  <2>1. CASE d = c
    BY <2>1 DEF EnterTry
  <2>2. CASE d # c
    <3>1. d = Other(c) /\ state[d] = "try"
      BY <1>1, <2>2 DEF Cores, Other
    <3>. QED
      BY <3>1 DEF EnterTry
  <2>. QED
    BY <2>1, <2>2
<1>4. ~Astray'
  BY <1>1 DEF Astray
<1>. QED
  BY <1>2, <1>3, <1>4 DEF ThrownAtHome

LEMMA SucceedInv ==
    ASSUME FrameInv, NEW c \in Cores, Succeed(c)
    PROVE  FrameInv'
<1>. USE DEF FrameInv
<1>1. PICK s \in {"run", "stopped"} : state' = [state EXCEPT ![c] = s]
  BY DEF Succeed
<1>2. ~Astray /\ frame' = frame /\ nested' = nested
  BY DEF Succeed, At
<1>. QED
  BY <1>1, <1>2 DEF FrameIsOwn, ThrownAtHome, Astray, States

LEMMA ThrowInv ==
    ASSUME FrameInv, NEW c \in Cores, At(c, "try"), nested' = nested, Throw(c)
    PROVE  FrameInv'
<1>. USE DEF FrameInv
<1>1. CASE frame = c
  <2>1. state' = [state EXCEPT ![c] = "stopped"]
    BY <1>1 DEF Throw
  <2>2. ~Astray'
    BY <2>1 DEF At, Astray
  <2>3. FrameIsOwn'
    <3>. SUFFICES ASSUME NEW d \in Cores, state'[d] = "try"
                  PROVE  nested'
      BY DEF FrameIsOwn
    <3>1. d # c /\ state[d] = "try"
      BY <2>1
    <3>. QED
      BY <1>1, <3>1 DEF FrameIsOwn
  <2>. QED
    BY <2>1, <2>2, <2>3 DEF ThrownAtHome, States
<1>2. CASE frame # c
  <2>1. state' = [state EXCEPT ![c] = "astray"] /\ frame' = frame
    BY <1>2 DEF Throw
  <2>2. nested
    BY <1>2 DEF FrameIsOwn, At
  <2>. QED
    BY <2>1, <2>2 DEF FrameIsOwn, ThrownAtHome, States
<1>. QED
  BY <1>1, <1>2

LEMMA FailInv ==
    ASSUME FrameInv, NEW c \in Cores, Fail(c)
    PROVE  FrameInv'
<1>1. nested' = nested /\ At(c, "try")
  BY DEF Fail
<1>2. CASE Retry(c)
  BY <1>1, <1>2 DEF Retry, FrameInv, FrameIsOwn, ThrownAtHome, Astray
<1>3. CASE Throw(c)
  BY <1>1, <1>3, ThrowInv
<1>. QED
  BY <1>2, <1>3 DEF Fail

LEMMA NextFrameInv == FrameInv /\ [Next]_vars => FrameInv'
<1>. SUFFICES ASSUME FrameInv, [Next]_vars PROVE FrameInv'
  OBVIOUS
<1>1. CASE \E c \in Cores : CoreStep(c)
  BY <1>1, EnterTryInv, SucceedInv, FailInv DEF CoreStep
<1>2. CASE UNCHANGED <<state, frame, nested>>
  BY <1>2 DEF FrameInv, FrameIsOwn, ThrownAtHome, Astray
<1>3. CASE Scan
  BY <1>2, <1>3 DEF Scan
<1>4. CASE Core1Pop
  BY <1>2, <1>4 DEF Core1Pop
<1>5. CASE OnBatteryChargerInterrupt
  BY <1>2, <1>5 DEF OnBatteryChargerInterrupt
<1>6. CASE GetState
  BY <1>2, <1>6 DEF GetState
<1>7. CASE Alarm
  BY <1>2, <1>7 DEF Alarm
<1>8. CASE UNCHANGED vars
  BY <1>2, <1>8 DEF vars
<1>. QED
  BY <1>1, <1>3, <1>4, <1>5, <1>6, <1>7, <1>8
     DEF Next, Core0Step, Core1Step, Cores

\* For any MAX_RETRIES and whatever the transfers are, a Throw ends in the frame
\* of a call that is under way on the core that throws, unless both cores were
\* inside Try at once (robot.c:481-530).
THEOREM ThrowEndsAtHome == Spec => []ThrownAtHome
<1>. QED
  BY InitFrameInv, NextFrameInv, PTL DEF Spec, FrameInv

-----------------------------------------------------------------------------
(* The lists of transfers. *)

Dos == {"write", "point", "read", "expect", "scan"}
Transfers == [do : Dos, reg : Byte, arg : Byte]

ReadInts == Transfer("read", CHG_INT, 3)

LEMMA TransferFields ==
    ASSUME NEW do \in Dos, NEW reg \in Byte, NEW arg \in Byte
    PROVE  /\ Transfer(do, reg, arg) \in Transfers
           /\ Transfer(do, reg, arg).do = do
           /\ Transfer(do, reg, arg).reg = reg
           /\ Transfer(do, reg, arg).arg = arg
BY DEF Transfer, Transfers

LEMMA Masked == bit_clear(ALL_MASKED, CHGIN_I) = 191
<1>1. 2^6 = 64
  BY SMT
<1>. QED
  BY <1>1, SMT DEF bit_clear, bit_check, ALL_MASKED, CHGIN_I

LEMMA Frequency == bit_assign(Reset[CNFG_08], 0, 1) = 0
<1>1. 2^1 = 2
  BY SMT
<1>2. Reset[CNFG_08] = 2
  BY DEF Reset, Registers, CHG_INT_MASK, CNFG_00, CNFG_02, CNFG_06, CNFG_08, CNFG_09
<1>. QED
  BY <1>1, <1>2, SMT DEF bit_assign, bit_clear, bit_check

LEMMA Powers ==
    2^0 = 1 /\ 2^1 = 2 /\ 2^2 = 4 /\ 2^3 = 8 /\ 2^4 = 16 /\ 2^5 = 32 /\ 2^6 = 64 /\ 2^7 = 128
BY SMT

LEMMA InputLimit == bit_set_range(Reset[CNFG_09], 0, 5, 59) = 187
<1>1. Reset[CNFG_09] = 137
  BY DEF Reset, Registers, CHG_INT_MASK, CNFG_00, CNFG_02, CNFG_06, CNFG_08, CNFG_09
<1>2. bitmask_from_x_2_y(0, 5) = 63
  BY Powers, SMT DEF bitmask_from_x_2_y
<1>3. /\ bit_check(63, 0) = 1 /\ bit_check(63, 1) = 1 /\ bit_check(63, 2) = 1
      /\ bit_check(63, 3) = 1 /\ bit_check(63, 4) = 1 /\ bit_check(63, 5) = 1
      /\ bit_check(63, 6) = 0 /\ bit_check(63, 7) = 0
  BY Powers, SMT DEF bit_check
<1>4. And(137, 63) = 9
  <2>1. /\ bit_check(137, 0) = 1 /\ bit_check(137, 1) = 0 /\ bit_check(137, 2) = 0
        /\ bit_check(137, 3) = 1 /\ bit_check(137, 4) = 0 /\ bit_check(137, 5) = 0
        /\ bit_check(137, 6) = 0 /\ bit_check(137, 7) = 1
    BY Powers, SMT DEF bit_check
  <2>. QED
    BY <1>3, <2>1, Powers, SMT DEF And
<1>5. And(59, 63) = 59
  <2>1. /\ bit_check(59, 0) = 1 /\ bit_check(59, 1) = 1 /\ bit_check(59, 2) = 0
        /\ bit_check(59, 3) = 1 /\ bit_check(59, 4) = 1 /\ bit_check(59, 5) = 1
        /\ bit_check(59, 6) = 0 /\ bit_check(59, 7) = 0
    BY Powers, SMT DEF bit_check
  <2>. QED
    BY <1>3, <2>1, Powers, SMT DEF And
<1>6. 59 * 2^0 = 59
  BY Powers
<1>. QED
  BY <1>1, <1>2, <1>4, <1>5, <1>6, SMT DEF bit_set_range, bitmask_clear

Mask == Transfer("write", CHG_INT_MASK, 191)
MaskAll == Transfer("write", CHG_INT_MASK, ALL_MASKED)

\* One list after another: the elements of both keep their order.
Joins(u, s, t) ==
    /\ u \in Seq(Transfers)
    /\ Len(u) = Len(s) + Len(t)
    /\ \A i \in 1..Len(s) : u[i] = s[i]
    /\ \A i \in 1..Len(t), j \in Int : j = Len(s) + i => u[j] = t[i]

LEMMA After ==
    ASSUME NEW s \in Seq(Transfers), NEW t \in Seq(Transfers)
    PROVE  Joins(s \o t, s, t)
<1>1. \A i \in 1..Len(t) : Len(s) + i \in 1..(Len(s) + Len(t)) /\ ~(Len(s) + i <= Len(s))
                           /\ (Len(s) + i) - Len(s) = i
  OBVIOUS
<1>2. \A i \in 1..Len(s) : i \in 1..(Len(s) + Len(t)) /\ i <= Len(s)
  OBVIOUS
<1>. QED
  BY <1>1, <1>2, ConcatProperties DEF Joins

LEMMA Bytes ==
    /\ {CHIP_ID, CHG_INT, CHG_INT_MASK, DETAILS_00, DETAILS_00 + 1, DETAILS_00 + 2} \subseteq Byte
    /\ {CNFG_00, CNFG_02, CNFG_06, CNFG_08, CNFG_09} \subseteq Byte
    /\ {UNLOCKED, LOCKED, ALL_MASKED, 0, 1, 3, 5, 25, 118, 187, 191} \subseteq Byte
BY DEF Byte, CHIP_ID, CHG_INT, CHG_INT_MASK, DETAILS_00, CNFG_00, CNFG_02, CNFG_06,
       CNFG_08, CNFG_09, UNLOCKED, LOCKED, ALL_MASKED

LEMMA WriteIs ==
    ASSUME NEW reg \in Byte, NEW val \in Byte
    PROVE  /\ Write(reg, val) \in Seq(Transfers) /\ Len(Write(reg, val)) = 1
           /\ Write(reg, val)[1] = Transfer("write", reg, val)
<1>1. Transfer("write", reg, val) \in Transfers
  BY TransferFields DEF Dos
<1>. QED
  BY <1>1 DEF Write

LEMMA GetIs ==
    ASSUME NEW reg \in Byte, NEW n \in Byte
    PROVE  /\ Get(reg, n) \in Seq(Transfers) /\ Len(Get(reg, n)) = 2
           /\ Get(reg, n)[1] = Transfer("point", reg, 0)
           /\ Get(reg, n)[2] = Transfer("read", reg, n)
<1>1. /\ Transfer("point", reg, 0) \in Transfers
      /\ Transfer("read", reg, n) \in Transfers
  BY TransferFields, Bytes DEF Dos
<1>. QED
  BY <1>1 DEF Get

LEMMA ExpectIs ==
    ASSUME NEW reg \in Byte, NEW val \in Byte
    PROVE  /\ Expect(reg, val) \in Seq(Transfers) /\ Len(Expect(reg, val)) = 2
           /\ Expect(reg, val)[1] = Transfer("point", reg, 0)
           /\ Expect(reg, val)[2] = Transfer("expect", reg, val)
<1>1. /\ Transfer("point", reg, 0) \in Transfers
      /\ Transfer("expect", reg, val) \in Transfers
  BY TransferFields, Bytes DEF Dos
<1>. QED
  BY <1>1 DEF Expect

LEMMA MasksAre ==
    /\ set_interrupt_masks \in Seq(Transfers) /\ Len(set_interrupt_masks) = 1
    /\ set_interrupt_masks[1] = Mask
    /\ set_interrupt_masks_all_masked \in Seq(Transfers)
    /\ Len(set_interrupt_masks_all_masked) = 1
    /\ set_interrupt_masks_all_masked[1] = MaskAll
BY Masked, WriteIs, Bytes DEF set_interrupt_masks, set_interrupt_masks_all_masked, Mask, MaskAll


LEMMA InitIs ==
    /\ MAX77976Init \in Seq(Transfers) /\ Len(MAX77976Init) = 9
    /\ MAX77976Init[1] = Mask /\ MAX77976Init[2] = Transfer("point", CHG_INT, 0)
    /\ MAX77976Init[3] = ReadInts
    /\ MAX77976Init[4] = Transfer("write", CNFG_06, UNLOCKED)
    /\ MAX77976Init[5] = Transfer("write", CNFG_00, 5)
    /\ MAX77976Init[6] = Transfer("write", CNFG_02, 25)
    /\ MAX77976Init[7] = Transfer("write", CNFG_08, 0)
    /\ MAX77976Init[8] = Transfer("write", CNFG_09, 187)
    /\ MAX77976Init[9] = Transfer("write", CNFG_06, LOCKED)
<1>. DEFINE p1 == set_interrupt_masks
            p2 == GetInterruptVals
            p3 == Write(CNFG_06, UNLOCKED)
            p4 == Write(CNFG_00, 5)
            p5 == Write(CNFG_02, 25)
            p6 == Write(CNFG_08, bit_assign(Reset[CNFG_08], 0, 1))
            p7 == Write(CNFG_09, bit_set_range(Reset[CNFG_09], 0, 5, 59))
            p8 == Write(CNFG_06, LOCKED)
            b2 == p1 \o p2
            b3 == b2 \o p3
            b4 == b3 \o p4
            b5 == b4 \o p5
            b6 == b5 \o p6
            b7 == b6 \o p7
            b8 == b7 \o p8
<1>1. /\ p1 \in Seq(Transfers) /\ Len(p1) = 1
      /\ p1[1] = Mask
  BY MasksAre
<1>2. /\ p2 \in Seq(Transfers) /\ Len(p2) = 2
      /\ p2[1] = Transfer("point", CHG_INT, 0) /\ p2[2] = ReadInts
  BY GetIs, Bytes DEF GetInterruptVals, ReadInts
<1>3. /\ p3 \in Seq(Transfers) /\ Len(p3) = 1
      /\ p3[1] = Transfer("write", CNFG_06, UNLOCKED)
      /\ p4 \in Seq(Transfers) /\ Len(p4) = 1
      /\ p4[1] = Transfer("write", CNFG_00, 5)
      /\ p5 \in Seq(Transfers) /\ Len(p5) = 1
      /\ p5[1] = Transfer("write", CNFG_02, 25)
      /\ p6 \in Seq(Transfers) /\ Len(p6) = 1
      /\ p6[1] = Transfer("write", CNFG_08, 0)
      /\ p7 \in Seq(Transfers) /\ Len(p7) = 1
      /\ p7[1] = Transfer("write", CNFG_09, 187)
      /\ p8 \in Seq(Transfers) /\ Len(p8) = 1
      /\ p8[1] = Transfer("write", CNFG_06, LOCKED)
  BY WriteIs, Bytes, Frequency, InputLimit
<1>4. MAX77976Init = b8
  BY DEF MAX77976Init
<1>. HIDE DEF p1, p2, p3, p4, p5, p6, p7, p8
<1>5. /\ b2 = p1 \o p2 /\ b3 = b2 \o p3 /\ b4 = b3 \o p4 /\ b5 = b4 \o p5
      /\ b6 = b5 \o p6 /\ b7 = b6 \o p7 /\ b8 = b7 \o p8
  OBVIOUS
<1>. HIDE DEF b2, b3, b4, b5, b6, b7, b8
<1>6. /\ b2 \in Seq(Transfers) /\ Len(b2) = 3
      /\ b2[2] = Transfer("point", CHG_INT, 0) /\ b2[3] = ReadInts
      /\ \A i \in 1..1 : b2[i] = p1[i]
  <2>1. Joins(b2, p1, p2)
    BY <1>1, <1>2, <1>5, After
  <2>. QED
    BY <1>1, <1>2, <2>1 DEF Joins
<1>7. /\ b3 \in Seq(Transfers) /\ Len(b3) = 4
      /\ b3[4] = Transfer("write", CNFG_06, UNLOCKED)
      /\ \A i \in 1..3 : b3[i] = b2[i]
  <2>1. Joins(b3, b2, p3)
    BY <1>6, <1>3, <1>5, After
  <2>. QED
    BY <1>6, <1>3, <2>1 DEF Joins
<1>8. /\ b4 \in Seq(Transfers) /\ Len(b4) = 5
      /\ b4[5] = Transfer("write", CNFG_00, 5)
      /\ \A i \in 1..4 : b4[i] = b3[i]
  <2>1. Joins(b4, b3, p4)
    BY <1>7, <1>3, <1>5, After
  <2>. QED
    BY <1>7, <1>3, <2>1 DEF Joins
<1>9. /\ b5 \in Seq(Transfers) /\ Len(b5) = 6
      /\ b5[6] = Transfer("write", CNFG_02, 25)
      /\ \A i \in 1..5 : b5[i] = b4[i]
  <2>1. Joins(b5, b4, p5)
    BY <1>8, <1>3, <1>5, After
  <2>. QED
    BY <1>8, <1>3, <2>1 DEF Joins
<1>10. /\ b6 \in Seq(Transfers) /\ Len(b6) = 7
       /\ b6[7] = Transfer("write", CNFG_08, 0)
       /\ \A i \in 1..6 : b6[i] = b5[i]
  <2>1. Joins(b6, b5, p6)
    BY <1>9, <1>3, <1>5, After
  <2>. QED
    BY <1>9, <1>3, <2>1 DEF Joins
<1>11. /\ b7 \in Seq(Transfers) /\ Len(b7) = 8
       /\ b7[8] = Transfer("write", CNFG_09, 187)
       /\ \A i \in 1..7 : b7[i] = b6[i]
  <2>1. Joins(b7, b6, p7)
    BY <1>10, <1>3, <1>5, After
  <2>. QED
    BY <1>10, <1>3, <2>1 DEF Joins
<1>12. /\ b8 \in Seq(Transfers) /\ Len(b8) = 9
       /\ b8[9] = Transfer("write", CNFG_06, LOCKED)
       /\ \A i \in 1..8 : b8[i] = b7[i]
  <2>1. Joins(b8, b7, p8)
    BY <1>11, <1>3, <1>5, After
  <2>. QED
    BY <1>11, <1>3, <2>1 DEF Joins
<1>. QED
  BY <1>1, <1>4, <1>6, <1>7, <1>8, <1>9, <1>10, <1>11, <1>12

LEMMA TestGetIdIs ==
    /\ TestGetId \in Seq(Transfers) /\ Len(TestGetId) = 4
    /\ TestGetId[1] = MaskAll /\ TestGetId[2] = Transfer("point", CHIP_ID, 0)
    /\ TestGetId[3] = Transfer("expect", CHIP_ID, 118) /\ TestGetId[4] = Mask
<1>. DEFINE p1 == set_interrupt_masks_all_masked
            p2 == Expect(CHIP_ID, 118)
            p3 == set_interrupt_masks
            b2 == p1 \o p2
            b3 == b2 \o p3
<1>1. /\ p1 \in Seq(Transfers) /\ Len(p1) = 1
      /\ p1[1] = MaskAll
      /\ p3 \in Seq(Transfers) /\ Len(p3) = 1
      /\ p3[1] = Mask
  BY MasksAre
<1>2. /\ p2 \in Seq(Transfers) /\ Len(p2) = 2
      /\ p2[1] = Transfer("point", CHIP_ID, 0)
      /\ p2[2] = Transfer("expect", CHIP_ID, 118)
  BY ExpectIs, Bytes
<1>3. TestGetId = b3
  BY DEF TestGetId
<1>. HIDE DEF p1, p2, p3
<1>4. /\ b2 = p1 \o p2 /\ b3 = b2 \o p3
  OBVIOUS
<1>. HIDE DEF b2, b3
<1>5. /\ b2 \in Seq(Transfers) /\ Len(b2) = 3
      /\ b2[2] = Transfer("point", CHIP_ID, 0)
      /\ b2[3] = Transfer("expect", CHIP_ID, 118)
      /\ \A i \in 1..1 : b2[i] = p1[i]
  <2>1. Joins(b2, p1, p2)
    BY <1>1, <1>2, <1>4, After
  <2>. QED
    BY <1>1, <1>2, <2>1 DEF Joins
<1>6. /\ b3 \in Seq(Transfers) /\ Len(b3) = 4
      /\ b3[4] = Mask
      /\ \A i \in 1..3 : b3[i] = b2[i]
  <2>1. Joins(b3, b2, p3)
    BY <1>5, <1>1, <1>4, After
  <2>. QED
    BY <1>5, <1>1, <2>1 DEF Joins
<1>. QED
  BY <1>1, <1>3, <1>5, <1>6

LEMMA TestGetFSWIs ==
    /\ TestGetFSW \in Seq(Transfers) /\ Len(TestGetFSW) = 4
    /\ TestGetFSW[1] = MaskAll /\ TestGetFSW[2] = Transfer("point", CNFG_08, 0)
    /\ TestGetFSW[3] = Transfer("expect", CNFG_08, 0) /\ TestGetFSW[4] = Mask
<1>. DEFINE p1 == set_interrupt_masks_all_masked
            p2 == Expect(CNFG_08, 0)
            p3 == set_interrupt_masks
            b2 == p1 \o p2
            b3 == b2 \o p3
<1>1. /\ p1 \in Seq(Transfers) /\ Len(p1) = 1
      /\ p1[1] = MaskAll
      /\ p3 \in Seq(Transfers) /\ Len(p3) = 1
      /\ p3[1] = Mask
  BY MasksAre
<1>2. /\ p2 \in Seq(Transfers) /\ Len(p2) = 2
      /\ p2[1] = Transfer("point", CNFG_08, 0)
      /\ p2[2] = Transfer("expect", CNFG_08, 0)
  BY ExpectIs, Bytes
<1>3. TestGetFSW = b3
  BY DEF TestGetFSW
<1>. HIDE DEF p1, p2, p3
<1>4. /\ b2 = p1 \o p2 /\ b3 = b2 \o p3
  OBVIOUS
<1>. HIDE DEF b2, b3
<1>5. /\ b2 \in Seq(Transfers) /\ Len(b2) = 3
      /\ b2[2] = Transfer("point", CNFG_08, 0)
      /\ b2[3] = Transfer("expect", CNFG_08, 0)
      /\ \A i \in 1..1 : b2[i] = p1[i]
  <2>1. Joins(b2, p1, p2)
    BY <1>1, <1>2, <1>4, After
  <2>. QED
    BY <1>1, <1>2, <2>1 DEF Joins
<1>6. /\ b3 \in Seq(Transfers) /\ Len(b3) = 4
      /\ b3[4] = Mask
      /\ \A i \in 1..3 : b3[i] = b2[i]
  <2>1. Joins(b3, b2, p3)
    BY <1>5, <1>1, <1>4, After
  <2>. QED
    BY <1>5, <1>1, <2>1 DEF Joins
<1>. QED
  BY <1>1, <1>3, <1>5, <1>6

LEMMA ScanIs ==
    /\ I2CScan \in Seq(Transfers) /\ Len(I2CScan) = 1
    /\ I2CScan[1] = Transfer("scan", CHIP_ID, 1)
<1>1. Transfer("scan", CHIP_ID, 1) \in Transfers
  BY TransferFields, Bytes DEF Dos
<1>. QED
  BY <1>1 DEF I2CScan

LEMMA OnStartIs ==
    /\ OnStart \in Seq(Transfers) /\ Len(OnStart) = 18
    /\ OnStart[1] = Mask /\ OnStart[2] = Transfer("point", CHG_INT, 0)
    /\ OnStart[3] = ReadInts /\ OnStart[4] = Transfer("write", CNFG_06, UNLOCKED)
    /\ OnStart[5] = Transfer("write", CNFG_00, 5)
    /\ OnStart[6] = Transfer("write", CNFG_02, 25)
    /\ OnStart[7] = Transfer("write", CNFG_08, 0)
    /\ OnStart[8] = Transfer("write", CNFG_09, 187)
    /\ OnStart[9] = Transfer("write", CNFG_06, LOCKED) /\ OnStart[10] = MaskAll
    /\ OnStart[11] = Transfer("point", CHIP_ID, 0)
    /\ OnStart[12] = Transfer("expect", CHIP_ID, 118) /\ OnStart[13] = Mask
    /\ OnStart[14] = MaskAll /\ OnStart[15] = Transfer("point", CNFG_08, 0)
    /\ OnStart[16] = Transfer("expect", CNFG_08, 0) /\ OnStart[17] = Mask
    /\ OnStart[18] = Transfer("scan", CHIP_ID, 1)
<1>. DEFINE p1 == MAX77976Init
            p2 == TestGetId
            p3 == TestGetFSW
            p4 == I2CScan
            b2 == p1 \o p2
            b3 == b2 \o p3
            b4 == b3 \o p4
<1>1. /\ p1 \in Seq(Transfers) /\ Len(p1) = 9
      /\ p1[1] = Mask /\ p1[2] = Transfer("point", CHG_INT, 0) /\ p1[3] = ReadInts
      /\ p1[4] = Transfer("write", CNFG_06, UNLOCKED)
      /\ p1[5] = Transfer("write", CNFG_00, 5)
      /\ p1[6] = Transfer("write", CNFG_02, 25)
      /\ p1[7] = Transfer("write", CNFG_08, 0)
      /\ p1[8] = Transfer("write", CNFG_09, 187)
      /\ p1[9] = Transfer("write", CNFG_06, LOCKED)
  BY InitIs
<1>2. /\ p2 \in Seq(Transfers) /\ Len(p2) = 4
      /\ p2[1] = MaskAll /\ p2[2] = Transfer("point", CHIP_ID, 0)
      /\ p2[3] = Transfer("expect", CHIP_ID, 118) /\ p2[4] = Mask
  BY TestGetIdIs
<1>3. /\ p3 \in Seq(Transfers) /\ Len(p3) = 4
      /\ p3[1] = MaskAll /\ p3[2] = Transfer("point", CNFG_08, 0)
      /\ p3[3] = Transfer("expect", CNFG_08, 0) /\ p3[4] = Mask
  BY TestGetFSWIs
<1>4. /\ p4 \in Seq(Transfers) /\ Len(p4) = 1
      /\ p4[1] = Transfer("scan", CHIP_ID, 1)
  BY ScanIs
<1>5. OnStart = b4
  BY DEF OnStart
<1>. HIDE DEF p1, p2, p3, p4
<1>6. /\ b2 = p1 \o p2 /\ b3 = b2 \o p3 /\ b4 = b3 \o p4
  OBVIOUS
<1>. HIDE DEF b2, b3, b4
<1>7. /\ b2 \in Seq(Transfers) /\ Len(b2) = 13
      /\ b2[10] = MaskAll /\ b2[11] = Transfer("point", CHIP_ID, 0)
      /\ b2[12] = Transfer("expect", CHIP_ID, 118) /\ b2[13] = Mask
      /\ \A i \in 1..9 : b2[i] = p1[i]
  <2>1. Joins(b2, p1, p2)
    BY <1>1, <1>2, <1>6, After
  <2>. QED
    BY <1>1, <1>2, <2>1 DEF Joins
<1>8. /\ b3 \in Seq(Transfers) /\ Len(b3) = 17
      /\ b3[14] = MaskAll /\ b3[15] = Transfer("point", CNFG_08, 0)
      /\ b3[16] = Transfer("expect", CNFG_08, 0) /\ b3[17] = Mask
      /\ \A i \in 1..13 : b3[i] = b2[i]
  <2>1. Joins(b3, b2, p3)
    BY <1>7, <1>3, <1>6, After
  <2>. QED
    BY <1>7, <1>3, <2>1 DEF Joins
<1>9. /\ b4 \in Seq(Transfers) /\ Len(b4) = 18
      /\ b4[18] = Transfer("scan", CHIP_ID, 1)
      /\ \A i \in 1..17 : b4[i] = b3[i]
  <2>1. Joins(b4, b3, p4)
    BY <1>8, <1>4, <1>6, After
  <2>. QED
    BY <1>8, <1>4, <2>1 DEF Joins
<1>. QED
  BY <1>1, <1>5, <1>7, <1>8, <1>9

LEMMA GetChgDetailsIs ==
    /\ GetChgDetails \in Seq(Transfers) /\ Len(GetChgDetails) = 8
    /\ GetChgDetails[1] = Transfer("point", DETAILS_00, 0)
    /\ GetChgDetails[2] = Transfer("read", DETAILS_00, 1)
    /\ GetChgDetails[3] = Transfer("point", DETAILS_00 + 1, 0)
    /\ GetChgDetails[4] = Transfer("read", DETAILS_00 + 1, 1)
    /\ GetChgDetails[5] = Transfer("point", DETAILS_00 + 2, 0)
    /\ GetChgDetails[6] = Transfer("read", DETAILS_00 + 2, 1)
    /\ GetChgDetails[7] = Transfer("point", CNFG_00, 0)
    /\ GetChgDetails[8] = Transfer("read", CNFG_00, 1)
<1>. DEFINE p1 == Get(DETAILS_00, 1)
            p2 == Get(DETAILS_00 + 1, 1)
            p3 == Get(DETAILS_00 + 2, 1)
            p4 == Get(CNFG_00, 1)
            b2 == p1 \o p2
            b3 == b2 \o p3
            b4 == b3 \o p4
<1>1. /\ p1 \in Seq(Transfers) /\ Len(p1) = 2
      /\ p1[1] = Transfer("point", DETAILS_00, 0)
      /\ p1[2] = Transfer("read", DETAILS_00, 1)
  BY GetIs, Bytes DEF DETAILS_00
<1>2. /\ p2 \in Seq(Transfers) /\ Len(p2) = 2
      /\ p2[1] = Transfer("point", DETAILS_00 + 1, 0)
      /\ p2[2] = Transfer("read", DETAILS_00 + 1, 1)
  BY GetIs, Bytes DEF DETAILS_00
<1>3. /\ p3 \in Seq(Transfers) /\ Len(p3) = 2
      /\ p3[1] = Transfer("point", DETAILS_00 + 2, 0)
      /\ p3[2] = Transfer("read", DETAILS_00 + 2, 1)
  BY GetIs, Bytes DEF DETAILS_00
<1>4. /\ p4 \in Seq(Transfers) /\ Len(p4) = 2
      /\ p4[1] = Transfer("point", CNFG_00, 0)
      /\ p4[2] = Transfer("read", CNFG_00, 1)
  BY GetIs, Bytes DEF DETAILS_00
<1>5. GetChgDetails = b4
  BY DEF GetChgDetails
<1>. HIDE DEF p1, p2, p3, p4
<1>6. /\ b2 = p1 \o p2 /\ b3 = b2 \o p3 /\ b4 = b3 \o p4
  OBVIOUS
<1>. HIDE DEF b2, b3, b4
<1>7. /\ b2 \in Seq(Transfers) /\ Len(b2) = 4
      /\ b2[3] = Transfer("point", DETAILS_00 + 1, 0)
      /\ b2[4] = Transfer("read", DETAILS_00 + 1, 1)
      /\ \A i \in 1..2 : b2[i] = p1[i]
  <2>1. Joins(b2, p1, p2)
    BY <1>1, <1>2, <1>6, After
  <2>. QED
    BY <1>1, <1>2, <2>1 DEF Joins
<1>8. /\ b3 \in Seq(Transfers) /\ Len(b3) = 6
      /\ b3[5] = Transfer("point", DETAILS_00 + 2, 0)
      /\ b3[6] = Transfer("read", DETAILS_00 + 2, 1)
      /\ \A i \in 1..4 : b3[i] = b2[i]
  <2>1. Joins(b3, b2, p3)
    BY <1>7, <1>3, <1>6, After
  <2>. QED
    BY <1>7, <1>3, <2>1 DEF Joins
<1>9. /\ b4 \in Seq(Transfers) /\ Len(b4) = 8
      /\ b4[7] = Transfer("point", CNFG_00, 0)
      /\ b4[8] = Transfer("read", CNFG_00, 1)
      /\ \A i \in 1..6 : b4[i] = b3[i]
  <2>1. Joins(b4, b3, p4)
    BY <1>8, <1>4, <1>6, After
  <2>. QED
    BY <1>8, <1>4, <2>1 DEF Joins
<1>. QED
  BY <1>1, <1>5, <1>7, <1>8, <1>9

-----------------------------------------------------------------------------
(* What the lists look like, at the start and after any part of them. *)

\* A read that is for the caller: of the pointer's register, if nobody moves it.
Asks(t) == t.do \in {"read", "expect"}

MayFollow(t, u) ==
    /\ t.do = "point" <=> Asks(u)
    /\ Asks(u) => u.reg = t.reg
    /\ u.do = "scan" => t.do = "write" /\ t.reg = CHG_INT_MASK

Orderly(s) ==
    /\ \A i \in 1..(Len(s) - 1) : MayFollow(s[i], s[i + 1])
    /\ s # <<>> => s[Len(s)].do # "point"

Sane(t) ==
    /\ Asks(t) => \/ t = ReadInts
                  \/ t.reg # CHG_INT /\ CHG_INT \notin t.reg .. t.reg + Length(t) - 1
    /\ t.do = "scan" => t = Transfer("scan", CHIP_ID, 1)

Polls(t) == t \in {Transfer("point", CHG_INT, 0), ReadInts}

AllSane(s) == \A i \in 1..Len(s) : Sane(s[i])
AllPolls(s) == \A i \in 1..Len(s) : Polls(s[i])

Lists ==
    /\ \A c \in Cores : Orderly(todo[c]) /\ AllSane(todo[c])
    /\ AllPolls(todo[1])

LEMMA NonEmpty ==
    ASSUME NEW s \in Seq(Transfers), Len(s) # 0
    PROVE  s # <<>> /\ Head(s) = s[1]
<1>1. s # <<>>
  <2>1. Len(<<>>) = 0
    OBVIOUS
  <2>. QED
    BY <2>1
<1>. QED
  BY <1>1

LEMMA TailKeeps ==
    ASSUME NEW s \in Seq(Transfers), s # <<>>, Orderly(s)
    PROVE  /\ Orderly(Tail(s))
           /\ Head(s) = s[1] /\ Head(s) \in Transfers /\ Len(s) \in Nat \ {0}
           /\ Tail(s) # <<>> => MayFollow(Head(s), Head(Tail(s)))
           /\ Head(s).do = "point" => Tail(s) # <<>>
           /\ AllSane(s) => AllSane(Tail(s)) /\ Sane(Head(s))
           /\ AllPolls(s) => AllPolls(Tail(s)) /\ Polls(Head(s))
<1>. DEFINE u == Tail(s)
<1>1. /\ Head(s) = s[1] /\ Head(s) \in Transfers /\ Len(s) \in Nat \ {0}
      /\ u \in Seq(Transfers) /\ Len(u) = Len(s) - 1
      /\ \A i \in 1..Len(u) : u[i] = s[i + 1]
  BY HeadTailProperties, EmptySeq
<1>2. u # <<>> => Len(u) \in Nat \ {0} /\ Head(u) = u[1]
  BY <1>1, EmptySeq
<1>. HIDE DEF u
<1>3. u = <<>> => Len(s) = 1
  BY <1>1, EmptySeq
<1>4. Orderly(u)
  <2>1. \A i \in 1..(Len(u) - 1) : MayFollow(u[i], u[i + 1])
    <3>. SUFFICES ASSUME NEW i \in 1..(Len(u) - 1) PROVE MayFollow(u[i], u[i + 1])
      OBVIOUS
    <3>1. i \in 1..Len(u) /\ i + 1 \in 1..Len(u) /\ i + 1 \in 1..(Len(s) - 1)
      BY <1>1
    <3>2. u[i] = s[i + 1] /\ u[i + 1] = s[(i + 1) + 1]
      BY <1>1, <3>1
    <3>3. MayFollow(s[i + 1], s[(i + 1) + 1])
      BY <3>1 DEF Orderly
    <3>. QED
      BY <3>2, <3>3
  <2>2. ASSUME u # <<>> PROVE u[Len(u)].do # "point"
    <3>1. Len(u) \in 1..Len(u) /\ Len(u) + 1 = Len(s)
      BY <1>1, <1>2, <2>2
    <3>2. u[Len(u)] = s[Len(u) + 1]
      BY <1>1, <3>1
    <3>. QED
      BY <3>1, <3>2 DEF Orderly
  <2>. QED
    BY <2>1, <2>2 DEF Orderly
<1>5. ASSUME u # <<>> PROVE MayFollow(Head(s), Head(u))
  <2>1. 1 \in 1..Len(u) /\ 1 \in 1..(Len(s) - 1)
    BY <1>1, <1>2, <1>5
  <2>2. u[1] = s[1 + 1] /\ MayFollow(s[1], s[1 + 1])
    BY <1>1, <2>1 DEF Orderly
  <2>. QED
    BY <1>1, <1>2, <1>5, <2>2
<1>6. ASSUME Head(s).do = "point" PROVE u # <<>>
  BY <1>1, <1>3, <1>6 DEF Orderly
<1>7. \A i \in 1..Len(u) : i + 1 \in 1..Len(s)
  BY <1>1
<1>8. AllSane(s) => AllSane(u) /\ Sane(Head(s))
  BY <1>1, <1>7 DEF AllSane
<1>9. AllPolls(s) => AllPolls(u) /\ Polls(Head(s))
  BY <1>1, <1>7 DEF AllPolls
<1>. QED
  BY <1>1, <1>4, <1>5, <1>6, <1>8, <1>9 DEF u

LEMMA Fields ==
    /\ Mask.do = "write" /\ Mask.reg = CHG_INT_MASK
    /\ MaskAll.do = "write" /\ MaskAll.reg = CHG_INT_MASK
    /\ ReadInts.do = "read" /\ ReadInts.reg = CHG_INT /\ ReadInts.arg = 3
    /\ \A r \in Byte, v \in Byte :
         /\ Transfer("write", r, v).do = "write" /\ Transfer("write", r, v).reg = r
         /\ Transfer("write", r, v).arg = v
         /\ Transfer("point", r, v).do = "point" /\ Transfer("point", r, v).reg = r
         /\ Transfer("read", r, v).do = "read" /\ Transfer("read", r, v).reg = r
         /\ Transfer("read", r, v).arg = v
         /\ Transfer("expect", r, v).do = "expect" /\ Transfer("expect", r, v).reg = r
         /\ Transfer("scan", r, v).do = "scan" /\ Transfer("scan", r, v).reg = r
         /\ Transfer("scan", r, v).arg = v
BY DEF Mask, MaskAll, ReadInts, Transfer

LEMMA Lengths ==
    ASSUME NEW t \in Transfers
    PROVE  /\ Length(t) \in Nat
           /\ t.do = "point" => Length(t) = 0
           /\ t.do = "expect" => Length(t) = 1
           /\ t.do \in {"read", "scan"} => Length(t) = t.arg
           /\ t.do = "write" => Length(t) = IF t.reg = CHG_INT_MASK THEN 3 ELSE 1
<1>1. t.do \in Dos /\ t.arg \in Nat
  BY DEF Transfers, Byte
<1>2. CASE t.do = "point"
  BY <1>2 DEF Length
<1>3. CASE t.do = "write"
  BY <1>3 DEF Length
<1>4. CASE t.do = "expect"
  BY <1>4 DEF Length
<1>5. CASE t.do = "read"
  BY <1>1, <1>5 DEF Length
<1>6. CASE t.do = "scan"
  BY <1>1, <1>6 DEF Length
<1>. QED
  BY <1>1, <1>2, <1>3, <1>4, <1>5, <1>6 DEF Dos

\* A write that configures the charger.
Configures(t) == t.do = "write" /\ t.reg # CHG_INT_MASK

LEMMA Numbers ==
    /\ CHIP_ID # CHG_INT /\ CNFG_08 # CHG_INT /\ CNFG_00 # CHG_INT
    /\ CHG_INT_MASK + 3 # CHG_INT /\ CHG_INT + 3 # CHG_INT
    /\ \A n \in {0, 19, 20, 21, 22, 30} : CHG_INT \notin n .. n + 1 - 1
    /\ CHIP_ID = 0 /\ CNFG_08 = 30 /\ CNFG_00 = 22 /\ DETAILS_00 = 19 /\ CHG_INT = 16
BY DEF CHIP_ID, CHG_INT, CHG_INT_MASK, CNFG_08, CNFG_00, DETAILS_00

\* The reads of the lists.
LEMMA SaneReads ==
    /\ Sane(ReadInts) /\ Asks(ReadInts)
    /\ \A r \in {0, 19, 20, 21, 22} :
         Sane(Transfer("read", r, 1)) /\ Asks(Transfer("read", r, 1))
    /\ \A r \in {0, 30}, v \in Byte :
         Sane(Transfer("expect", r, v)) /\ Asks(Transfer("expect", r, v))
    /\ Sane(Transfer("scan", CHIP_ID, 1)) /\ ~Asks(Transfer("scan", CHIP_ID, 1))
<1>1. 1 \in Byte /\ {0, 19, 20, 21, 22, 30} \subseteq Byte
  BY DEF Byte
<1>2. \A r \in {0, 19, 20, 21, 22} :
         Sane(Transfer("read", r, 1)) /\ Asks(Transfer("read", r, 1))
  <2>. SUFFICES ASSUME NEW r \in {0, 19, 20, 21, 22}
                PROVE  Sane(Transfer("read", r, 1)) /\ Asks(Transfer("read", r, 1))
    OBVIOUS
  <2>. DEFINE t == Transfer("read", r, 1)
  <2>1. t \in Transfers /\ t.do = "read" /\ t.reg = r /\ t.arg = 1
    BY <1>1, TransferFields DEF Dos
  <2>. HIDE DEF t
  <2>2. Length(t) = 1 /\ r # CHG_INT /\ CHG_INT \notin r .. r + 1 - 1
    BY <2>1, Lengths, Numbers
  <2>3. Sane(t) /\ Asks(t)
    BY <2>1, <2>2 DEF Sane, Asks
  <2>. QED
    BY <2>3 DEF t
<1>3. \A r \in {0, 30}, v \in Byte :
         Sane(Transfer("expect", r, v)) /\ Asks(Transfer("expect", r, v))
  <2>. SUFFICES ASSUME NEW r \in {0, 30}, NEW v \in Byte
                PROVE  Sane(Transfer("expect", r, v)) /\ Asks(Transfer("expect", r, v))
    OBVIOUS
  <2>. DEFINE t == Transfer("expect", r, v)
  <2>1. t \in Transfers /\ t.do = "expect" /\ t.reg = r
    BY <1>1, TransferFields DEF Dos
  <2>. HIDE DEF t
  <2>2. Length(t) = 1 /\ r # CHG_INT /\ CHG_INT \notin r .. r + 1 - 1
    BY <2>1, Lengths, Numbers
  <2>3. Sane(t) /\ Asks(t)
    BY <2>1, <2>2 DEF Sane, Asks
  <2>. QED
    BY <2>3 DEF t
<1>4. Sane(ReadInts) /\ Asks(ReadInts)
  BY Fields DEF Sane, Asks
<1>5. Sane(Transfer("scan", CHIP_ID, 1)) /\ ~Asks(Transfer("scan", CHIP_ID, 1))
  BY Fields, Bytes DEF Sane, Asks
<1>. QED
  BY <1>2, <1>3, <1>4, <1>5

LEMMA OnStartLooks == Orderly(OnStart) /\ AllSane(OnStart)
<1>1. /\ OnStart[1].do = "write" /\ OnStart[1].reg = CHG_INT_MASK
      /\ OnStart[2].do = "point" /\ OnStart[2].reg = CHG_INT
      /\ OnStart[3].do = "read" /\ OnStart[3].reg = CHG_INT
      /\ OnStart[4].do = "write"
      /\ OnStart[5].do = "write"
      /\ OnStart[6].do = "write"
      /\ OnStart[7].do = "write"
      /\ OnStart[8].do = "write"
      /\ OnStart[9].do = "write"
      /\ OnStart[10].do = "write" /\ OnStart[10].reg = CHG_INT_MASK
      /\ OnStart[11].do = "point" /\ OnStart[11].reg = CHIP_ID
      /\ OnStart[12].do = "expect" /\ OnStart[12].reg = CHIP_ID
      /\ OnStart[13].do = "write" /\ OnStart[13].reg = CHG_INT_MASK
      /\ OnStart[14].do = "write" /\ OnStart[14].reg = CHG_INT_MASK
      /\ OnStart[15].do = "point" /\ OnStart[15].reg = CNFG_08
      /\ OnStart[16].do = "expect" /\ OnStart[16].reg = CNFG_08
      /\ OnStart[17].do = "write" /\ OnStart[17].reg = CHG_INT_MASK
      /\ OnStart[18].do = "scan"
  BY OnStartIs DEF Transfer, Mask, MaskAll, ReadInts
<1>2. /\ MayFollow(OnStart[1], OnStart[2])
      /\ MayFollow(OnStart[2], OnStart[3])
      /\ MayFollow(OnStart[3], OnStart[4])
      /\ MayFollow(OnStart[4], OnStart[5])
      /\ MayFollow(OnStart[5], OnStart[6])
      /\ MayFollow(OnStart[6], OnStart[7])
      /\ MayFollow(OnStart[7], OnStart[8])
      /\ MayFollow(OnStart[8], OnStart[9])
      /\ MayFollow(OnStart[9], OnStart[10])
      /\ MayFollow(OnStart[10], OnStart[11])
      /\ MayFollow(OnStart[11], OnStart[12])
      /\ MayFollow(OnStart[12], OnStart[13])
      /\ MayFollow(OnStart[13], OnStart[14])
      /\ MayFollow(OnStart[14], OnStart[15])
      /\ MayFollow(OnStart[15], OnStart[16])
      /\ MayFollow(OnStart[16], OnStart[17])
      /\ MayFollow(OnStart[17], OnStart[18])
  BY <1>1 DEF MayFollow, Asks
<1>0. Len(OnStart) = 18
  BY OnStartIs
<1>3. \A i \in 1..(Len(OnStart) - 1) : MayFollow(OnStart[i], OnStart[i + 1])
  <2>1. \A i \in 1..17, j \in 1..18 : j = i + 1 => MayFollow(OnStart[i], OnStart[j])
    BY <1>2
  <2>2. \A i \in 1..17 : i + 1 \in 1..18
    OBVIOUS
  <2>. QED
    BY <1>0, <2>1, <2>2
<1>4. OnStart[Len(OnStart)].do # "point"
  BY <1>0, <1>1
<1>5. \A i \in 1..18 : Sane(OnStart[i])
  <2>1. \A i \in 1..18 : OnStart[i].do \in {"write", "point"} => Sane(OnStart[i])
    BY DEF Sane, Asks
  <2>2. \A i \in 1..18 : i \in {3, 12, 16, 18} \/ OnStart[i].do \in {"write", "point"}
    BY <1>1
  <2>3. Sane(OnStart[3]) /\ Sane(OnStart[18])
    BY OnStartIs, SaneReads
  <2>4. Sane(OnStart[12]) /\ Sane(OnStart[16])
    BY OnStartIs, SaneReads, Bytes, Numbers
  <2>. QED
    BY <2>1, <2>2, <2>3, <2>4
<1>. QED
  BY <1>0, <1>3, <1>4, <1>5 DEF Orderly, AllSane

LEMMA GetChgDetailsLooks == Orderly(GetChgDetails) /\ AllSane(GetChgDetails)
<1>1. /\ GetChgDetails[1].do = "point" /\ GetChgDetails[1].reg = DETAILS_00
      /\ GetChgDetails[2].do = "read" /\ GetChgDetails[2].reg = DETAILS_00
      /\ GetChgDetails[3].do = "point" /\ GetChgDetails[3].reg = DETAILS_00 + 1
      /\ GetChgDetails[4].do = "read" /\ GetChgDetails[4].reg = DETAILS_00 + 1
      /\ GetChgDetails[5].do = "point" /\ GetChgDetails[5].reg = DETAILS_00 + 2
      /\ GetChgDetails[6].do = "read" /\ GetChgDetails[6].reg = DETAILS_00 + 2
      /\ GetChgDetails[7].do = "point" /\ GetChgDetails[7].reg = CNFG_00
      /\ GetChgDetails[8].do = "read" /\ GetChgDetails[8].reg = CNFG_00
  BY GetChgDetailsIs DEF Transfer
<1>2. /\ MayFollow(GetChgDetails[1], GetChgDetails[2])
      /\ MayFollow(GetChgDetails[2], GetChgDetails[3])
      /\ MayFollow(GetChgDetails[3], GetChgDetails[4])
      /\ MayFollow(GetChgDetails[4], GetChgDetails[5])
      /\ MayFollow(GetChgDetails[5], GetChgDetails[6])
      /\ MayFollow(GetChgDetails[6], GetChgDetails[7])
      /\ MayFollow(GetChgDetails[7], GetChgDetails[8])
  BY <1>1 DEF MayFollow, Asks
<1>0. Len(GetChgDetails) = 8
  BY GetChgDetailsIs
<1>3. \A i \in 1..(Len(GetChgDetails) - 1) : MayFollow(GetChgDetails[i], GetChgDetails[i + 1])
  <2>1. \A i \in 1..7, j \in 1..8 : j = i + 1 => MayFollow(GetChgDetails[i], GetChgDetails[j])
    BY <1>2
  <2>2. \A i \in 1..7 : i + 1 \in 1..8
    OBVIOUS
  <2>. QED
    BY <1>0, <2>1, <2>2
<1>4. GetChgDetails[Len(GetChgDetails)].do # "point"
  BY <1>0, <1>1
<1>5. \A i \in 1..8 : Sane(GetChgDetails[i])
  <2>1. \A i \in 1..8 : GetChgDetails[i].do = "point" => Sane(GetChgDetails[i])
    BY DEF Sane, Asks
  <2>2. \A i \in 1..8 : i \in {2, 4, 6, 8} \/ GetChgDetails[i].do = "point"
    BY <1>1
  <2>3. /\ Sane(GetChgDetails[2]) /\ Sane(GetChgDetails[4])
        /\ Sane(GetChgDetails[6]) /\ Sane(GetChgDetails[8])
    BY GetChgDetailsIs, SaneReads, Numbers
  <2>. QED
    BY <2>1, <2>2, <2>3
<1>. QED
  BY <1>0, <1>3, <1>4, <1>5 DEF Orderly, AllSane

LEMMA ParseInterruptValsIs ==
    /\ ParseInterruptVals \in Seq(Transfers) /\ Len(ParseInterruptVals) = 2
    /\ ParseInterruptVals[1] = Transfer("point", CHG_INT, 0)
    /\ ParseInterruptVals[2] = ReadInts
    /\ Orderly(ParseInterruptVals) /\ AllSane(ParseInterruptVals)
    /\ AllPolls(ParseInterruptVals)
<1>. DEFINE p == ParseInterruptVals
<1>1. /\ p \in Seq(Transfers) /\ Len(p) = 2
      /\ p[1] = Transfer("point", CHG_INT, 0) /\ p[2] = ReadInts
  BY GetIs, Bytes DEF ParseInterruptVals, GetInterruptVals, ReadInts
<1>. HIDE DEF p
<1>2. \A i \in 1..Len(p) : i = 1 \/ i = 2
  BY <1>1
<1>3. Orderly(p)
  <2>1. \A i \in 1..(Len(p) - 1) : i = 1 /\ i + 1 = 2
    BY <1>1
  <2>2. MayFollow(p[1], p[2])
    BY <1>1 DEF MayFollow, Asks, Transfer, ReadInts
  <2>3. p[Len(p)].do # "point"
    BY <1>1, Fields, Bytes
  <2>. QED
    BY <2>1, <2>2, <2>3 DEF Orderly
<1>4. AllSane(p)
  BY <1>1, <1>2, SaneReads DEF AllSane, Sane, Asks, Transfer
<1>5. AllPolls(p)
  BY <1>1, <1>2 DEF AllPolls, Polls
<1>. QED
  BY <1>1, <1>3, <1>4, <1>5 DEF p

-----------------------------------------------------------------------------
(* The inductive invariant. *)

\* The attempts at a core's transfer, and that there is one while it tries.
Runs ==
    \A c \in Cores :
        /\ state[c] = "run" => attempts[c] = 0
        /\ state[c] = "try" => /\ attempts[c] < MaxRetries
                               /\ todo[c] # <<>>
                               /\ Head(todo[c]).do # "scan"

\* Until somebody came in between, a core that reads next reads where it
\* pointed, and the scan does not read the interrupts.
PointsRight ==
    ~crossed /\ ~partial =>
        /\ \A c \in Cores : todo[c] # <<>> /\ Asks(Head(todo[c])) =>
               pointer = Head(todo[c]).reg
        /\ todo[0] # <<>> /\ Head(todo[0]).do = "scan" /\ ~Pointed(1) =>
               pointer # CHG_INT

BusInv == TypeOK /\ Runs /\ Lists /\ PointsRight /\ AlarmIsOnItsWay

LEMMA TodoTypes ==
    ASSUME TypeOK
    PROVE  todo \in [Cores -> Seq(Transfers)]
BY DEF TypeOK, Transfers, Dos

LEMMA TypesOfTodo ==
    ASSUME NEW f \in [Cores -> Seq(Transfers)]
    PROVE  f \in [Cores -> Seq([do : {"write", "point", "read", "expect", "scan"},
                                reg : Byte, arg : Byte])]
BY DEF Transfers, Dos

LEMMA TheOther ==
    ASSUME NEW c \in Cores
    PROVE  Other(c) \in Cores /\ Other(c) # c /\ \A d \in Cores : d = c \/ d = Other(c)
BY DEF Cores, Other

LEMMA EffectTypes ==
    ASSUME TypeOK, NEW t \in Transfers, Effect(t)
    PROVE  /\ regs' \in [Registers -> Byte]
           /\ pointer' \in Nat
           /\ alarm' \in BOOLEAN
           /\ edge' \in BOOLEAN
<1>1. t.reg \in Byte /\ t.arg \in Byte /\ Length(t) \in Nat
  BY Lengths DEF Transfers
<1>2. pointer' \in Nat
  <2>1. pointer \in Nat /\ t.reg \in Nat
    <3>1. pointer \in Nat
      BY DEF TypeOK
    <3>2. t.reg \in Nat
      BY <1>1 DEF Byte
    <3>. QED
      BY <3>1, <3>2
  <2>2. From(t) \in Nat
    BY <2>1 DEF From
  <2>. QED
    BY <1>1, <2>2 DEF Effect
<1>3. regs' \in [Registers -> Byte]
  <2>1. regs' = regs \/ regs' = [regs EXCEPT ![t.reg] = t.arg]
    BY DEF Effect
  <2>. QED
    BY <1>1, <2>1 DEF TypeOK
<1>4. alarm' \in BOOLEAN
  BY DEF Effect, TypeOK
<1>5. edge' \in BOOLEAN
  BY DEF Effect, Pin, TypeOK
<1>. QED
  BY <1>2, <1>3, <1>4, <1>5

LEMMA InitTypes == Init => TypeOK
<1>. SUFFICES ASSUME Init PROVE TypeOK
  OBVIOUS
<1>1. regs \in [Registers -> Byte]
  <2>1. Reset \in [Registers -> Byte]
    BY Bytes DEF Reset, Registers, Byte, CHG_INT_MASK, CNFG_00, CNFG_02, CNFG_06, CNFG_08,
       CNFG_09, ALL_MASKED, LOCKED
  <2>2. 191 \in Byte /\ UNLOCKED \in Byte
    BY Bytes
  <2>3. [Reset EXCEPT ![CHG_INT_MASK] = 191, ![CNFG_06] = UNLOCKED] \in [Registers -> Byte]
    BY <2>1, <2>2
  <2>. QED
    BY <2>1, <2>3 DEF Init
<1>2. todo \in [Cores -> Seq(Transfers)]
  BY OnStartIs DEF Init
<1>3. pointer \in Nat /\ queued \in Nat
  BY DEF Init, CHIP_ID
<1>4. attempts \in [Cores -> 0..MaxRetries]
  BY MAX77976Assumption DEF Init
<1>5. /\ state \in [Cores -> {"run", "try", "stopped", "astray"}]
      /\ frame \in Cores \cup {Nobody}
      /\ previous \in [Cores -> Cores \cup {Nobody}]
  BY DEF Init
<1>6. alarm \in BOOLEAN /\ edge \in BOOLEAN /\ partial \in BOOLEAN /\ crossed \in BOOLEAN
      /\ nested \in BOOLEAN
  BY DEF Init
<1>. QED
  BY <1>1, <1>2, <1>3, <1>4, <1>5, <1>6, TypesOfTodo DEF TypeOK

LEMMA EnterTryTypes ==
    ASSUME TypeOK, Runs, NEW c \in Cores, EnterTry(c)
    PROVE  TypeOK' /\ Runs'
<1>1. /\ state[c] = "run"
      /\ todo[c] # <<>> /\ Head(todo[c]).do # "scan"
      /\ state' = [state EXCEPT ![c] = "try"]
      /\ previous' = [previous EXCEPT ![c] = frame]
      /\ frame' = c
      /\ nested' \in {nested, TRUE}
      /\ UNCHANGED <<regs, pointer, alarm, edge, queued, todo, attempts, partial, crossed>>
  BY DEF EnterTry, At, TypeOK
<1>2. TypeOK'
  BY <1>1 DEF TypeOK
<1>3. Runs'
  BY <1>1, MAX77976Assumption DEF Runs, TypeOK
<1>. QED
  BY <1>2, <1>3

LEMMA SucceedTypes ==
    ASSUME TypeOK, Runs, NEW c \in Cores, Succeed(c)
    PROVE  TypeOK' /\ Runs'
<1>. DEFINE t == Head(todo[c])
<1>1. todo \in [Cores -> Seq(Transfers)] /\ todo[c] # <<>>
  BY TodoTypes DEF Succeed, At, Runs
<1>2. t \in Transfers /\ Tail(todo[c]) \in Seq(Transfers)
  BY <1>1, HeadTailProperties
<1>3. PICK s \in {"run", "stopped"} : state' = [state EXCEPT ![c] = s]
  BY DEF Succeed
<1>4. /\ Effect(t)
      /\ todo' = [todo EXCEPT ![c] = Tail(@)]
      /\ attempts' = [attempts EXCEPT ![c] = 0]
      /\ previous' = [previous EXCEPT ![c] = Nobody]
      /\ UNCHANGED <<queued, frame, partial, nested>>
  BY DEF Succeed
<1>5. crossed' \in BOOLEAN
  BY DEF Succeed, Meet, Pointed, TypeOK
<1>. HIDE DEF t
<1>6. todo' \in [Cores -> Seq(Transfers)]
  BY <1>1, <1>2, <1>4
<1>7. attempts' \in [Cores -> 0..MaxRetries]
  BY <1>4, MAX77976Assumption DEF TypeOK
<1>8. /\ state' \in [Cores -> {"run", "try", "stopped", "astray"}]
      /\ previous' \in [Cores -> Cores \cup {Nobody}]
  BY <1>3, <1>4 DEF TypeOK
<1>9. TypeOK'
  BY <1>2, <1>4, <1>5, <1>6, <1>7, <1>8, EffectTypes, TypesOfTodo DEF TypeOK
<1>10. Runs'
  <2>. SUFFICES ASSUME NEW d \in Cores
                PROVE  /\ state'[d] = "run" => attempts'[d] = 0
                       /\ state'[d] = "try" => /\ attempts'[d] < MaxRetries
                                               /\ todo'[d] # <<>>
                                               /\ Head(todo'[d]).do # "scan"
    BY DEF Runs
  <2>1. CASE d = c
    BY <1>3, <1>4, <2>1 DEF TypeOK
  <2>2. CASE d # c
    <3>1. state'[d] = state[d] /\ attempts'[d] = attempts[d] /\ todo'[d] = todo[d]
      BY <1>1, <1>3, <1>4, <2>2 DEF TypeOK
    <3>. QED
      BY <3>1 DEF Runs
  <2>. QED
    BY <2>1, <2>2
<1>. QED
  BY <1>9, <1>10

LEMMA FailTypes ==
    ASSUME TypeOK, Runs, NEW c \in Cores, Fail(c)
    PROVE  TypeOK' /\ Runs'
<1>. DEFINE t == Head(todo[c])
<1>1. /\ todo \in [Cores -> Seq(Transfers)] /\ todo[c] # <<>>
      /\ state[c] = "try" /\ attempts[c] < MaxRetries
  BY TodoTypes DEF Fail, At, Runs
<1>2. t \in Transfers
  BY <1>1, HeadTailProperties
<1>3. /\ regs' \in [Registers -> Byte] /\ pointer' \in Nat
      /\ alarm' \in BOOLEAN /\ edge' \in BOOLEAN
      /\ crossed' \in BOOLEAN /\ partial' \in BOOLEAN
  <2>1. CASE Effect(t) /\ Meet(c) /\ partial' = (partial \/ Reads(t))
    BY <1>2, <2>1, EffectTypes DEF Meet, Pointed, Reads, TypeOK
  <2>2. CASE UNCHANGED <<regs, pointer, alarm, edge, crossed, partial>>
    BY <2>2 DEF TypeOK
  <2>. QED
    BY <2>1, <2>2 DEF Fail
<1>4. /\ attempts' = [attempts EXCEPT ![c] = @ + 1]
      /\ UNCHANGED <<queued, todo, previous, nested>>
  BY DEF Fail
<1>5. /\ attempts \in [Cores -> 0..MaxRetries] /\ MaxRetries \in Nat
      /\ attempts[c] \in 0..MaxRetries
      /\ state \in [Cores -> {"run", "try", "stopped", "astray"}]
      /\ previous \in [Cores -> Cores \cup {Nobody}]
  BY MAX77976Assumption DEF TypeOK
<1>6. attempts' \in [Cores -> 0..MaxRetries] /\ attempts'[c] = attempts[c] + 1
      /\ \A d \in Cores : d # c => attempts'[d] = attempts[d]
  BY <1>1, <1>4, <1>5
<1>7. \/ attempts[c] + 1 < MaxRetries /\ UNCHANGED <<state, frame>>
      \/ \E s \in {"stopped", "astray"} :
           /\ state' = [state EXCEPT ![c] = s]
           /\ frame' \in {previous[c], frame}
  BY DEF Fail, Retry, Throw
<1>8. /\ state' \in [Cores -> {"run", "try", "stopped", "astray"}]
      /\ frame' \in Cores \cup {Nobody}
  <2>1. frame \in Cores \cup {Nobody} /\ previous[c] \in Cores \cup {Nobody}
    BY <1>5 DEF TypeOK
  <2>. QED
    BY <1>5, <1>7, <2>1
<1>9. TypeOK'
  BY <1>3, <1>4, <1>6, <1>8 DEF TypeOK
<1>10. Runs'
  <2>. SUFFICES ASSUME NEW d \in Cores
                PROVE  /\ state'[d] = "run" => attempts'[d] = 0
                       /\ state'[d] = "try" => /\ attempts'[d] < MaxRetries
                                               /\ todo'[d] # <<>>
                                               /\ Head(todo'[d]).do # "scan"
    BY DEF Runs
  <2>1. CASE d = c
    <3>1. state'[c] = "run" => FALSE
      BY <1>1, <1>5, <1>7
    <3>2. state'[c] = "try" => attempts'[c] < MaxRetries
      BY <1>5, <1>6, <1>7
    <3>3. todo'[c] # <<>> /\ Head(todo'[c]).do # "scan"
      BY <1>1, <1>4 DEF Runs
    <3>. QED
      BY <2>1, <3>1, <3>2, <3>3
  <2>2. CASE d # c
    <3>1. state'[d] = state[d] /\ attempts'[d] = attempts[d] /\ todo'[d] = todo[d]
      BY <1>4, <1>5, <1>6, <1>7, <2>2
    <3>. QED
      BY <3>1 DEF Runs
  <2>. QED
    BY <2>1, <2>2
<1>. QED
  BY <1>9, <1>10

LEMMA ScanTypes ==
    ASSUME TypeOK, Runs, Scan
    PROVE  TypeOK' /\ Runs'
<1>. DEFINE t == Head(todo[0])
<1>1. /\ todo \in [Cores -> Seq(Transfers)] /\ 0 \in Cores
      /\ todo[0] # <<>> /\ state[0] = "run"
  BY TodoTypes DEF Scan, At, Cores
<1>2. t \in Transfers /\ Tail(todo[0]) \in Seq(Transfers)
  BY <1>1, HeadTailProperties
<1>3. /\ regs' \in [Registers -> Byte] /\ pointer' \in Nat
      /\ alarm' \in BOOLEAN /\ edge' \in BOOLEAN /\ crossed' \in BOOLEAN
  <2>1. CASE Effect(t) /\ Meet(0)
    BY <1>2, <2>1, EffectTypes DEF Meet, Pointed, TypeOK
  <2>2. CASE UNCHANGED <<regs, pointer, alarm, edge, crossed>>
    BY <2>2 DEF TypeOK
  <2>. QED
    BY <2>1, <2>2 DEF Scan
<1>4. /\ todo' = [todo EXCEPT ![0] = Tail(@)]
      /\ UNCHANGED <<queued, state, attempts, frame, previous, partial, nested>>
  BY DEF Scan
<1>. HIDE DEF t
<1>5. todo' \in [Cores -> Seq(Transfers)]
  BY <1>1, <1>2, <1>4
<1>6. TypeOK'
  BY <1>3, <1>4, <1>5, TypesOfTodo DEF TypeOK
<1>7. Runs'
  <2>1. \A d \in Cores : d = 0 \/ todo'[d] = todo[d]
    BY <1>1, <1>4
  <2>. QED
    BY <1>1, <1>4, <2>1 DEF Runs
<1>. QED
  BY <1>6, <1>7

\* A core takes on a list.
LEMMA StartTypes ==
    ASSUME TypeOK, Runs, NEW c \in Cores, NEW s \in Seq(Transfers),
           At(c, "run"), todo' = [todo EXCEPT ![c] = s], queued' \in Nat,
           UNCHANGED <<regs, pointer, alarm, edge, state, attempts, frame, previous,
                       partial, crossed, nested>>
    PROVE  TypeOK' /\ Runs'
<1>1. todo \in [Cores -> Seq(Transfers)] /\ state[c] = "run"
  BY TodoTypes DEF At
<1>2. todo' \in [Cores -> Seq(Transfers)]
  BY <1>1
<1>3. TypeOK'
  BY <1>2, TypesOfTodo DEF TypeOK
<1>4. \A d \in Cores : d = c \/ todo'[d] = todo[d]
  BY <1>1
<1>5. Runs'
  BY <1>1, <1>4 DEF Runs
<1>. QED
  BY <1>3, <1>5

LEMMA NextTypes == TypeOK /\ Runs /\ [Next]_vars => TypeOK' /\ Runs'
<1>. SUFFICES ASSUME TypeOK, Runs, [Next]_vars PROVE TypeOK' /\ Runs'
  OBVIOUS
<1>1. CASE \E c \in Cores : CoreStep(c)
  BY <1>1, EnterTryTypes, SucceedTypes, FailTypes DEF CoreStep
<1>2. CASE Scan
  BY <1>2, ScanTypes
<1>3. CASE Core1Pop
  <2>1. /\ 1 \in Cores /\ At(1, "run") /\ queued' \in Nat
        /\ todo' = [todo EXCEPT ![1] = ParseInterruptVals]
        /\ UNCHANGED <<regs, pointer, alarm, edge, state, attempts, frame, previous,
                       partial, crossed, nested>>
    BY <1>3 DEF Core1Pop, TypeOK, Cores
  <2>. QED
    BY <2>1, ParseInterruptValsIs, StartTypes
<1>4. CASE GetState
  <2>1. /\ 0 \in Cores /\ At(0, "run") /\ queued' \in Nat
        /\ todo' = [todo EXCEPT ![0] = GetChgDetails]
        /\ UNCHANGED <<regs, pointer, alarm, edge, state, attempts, frame, previous,
                       partial, crossed, nested>>
    BY <1>4 DEF GetState, TypeOK, Cores
  <2>. QED
    BY <2>1, GetChgDetailsIs, StartTypes
<1>5. CASE OnBatteryChargerInterrupt
  <2>1. /\ edge' = FALSE /\ queued' \in Nat
        /\ UNCHANGED <<regs, pointer, alarm, todo, state, attempts, frame, previous,
                       partial, crossed, nested>>
    BY <1>5 DEF OnBatteryChargerInterrupt, TypeOK
  <2>2. Runs'
    BY <2>1 DEF Runs
  <2>3. TypeOK'
    BY <2>1 DEF TypeOK
  <2>. QED
    BY <2>2, <2>3
<1>6. CASE Alarm
  <2>1. /\ alarm' = TRUE /\ edge' \in BOOLEAN
        /\ UNCHANGED <<regs, pointer, queued, todo, state, attempts, frame, previous,
                       partial, crossed, nested>>
    BY <1>6 DEF Alarm, Pin, TypeOK
  <2>2. Runs'
    BY <2>1 DEF Runs
  <2>3. TypeOK'
    BY <2>1 DEF TypeOK
  <2>. QED
    BY <2>2, <2>3
<1>7. CASE UNCHANGED vars
  BY <1>7 DEF vars, TypeOK, Runs
<1>. QED
  BY <1>1, <1>2, <1>3, <1>4, <1>5, <1>6, <1>7
     DEF Next, Core0Step, Core1Step, Cores

-----------------------------------------------------------------------------
(* The lists and the pointer. *)

LEMMA BytesAreNumbers == Byte \subseteq Nat
BY DEF Byte

\* A core's list loses its head.
LEMMA ListsShrink ==
    ASSUME TypeOK, Lists, NEW c \in Cores, todo[c] # <<>>,
           todo' = [todo EXCEPT ![c] = Tail(@)]
    PROVE  /\ Lists'
           /\ todo'[c] = Tail(todo[c])
           /\ \A d \in Cores : d # c => todo'[d] = todo[d]
           /\ Head(todo[c]) = todo[c][1] /\ Head(todo[c]) \in Transfers
           /\ Sane(Head(todo[c])) /\ (c = 1 => Polls(Head(todo[c])))
           /\ Tail(todo[c]) # <<>> => MayFollow(Head(todo[c]), Head(Tail(todo[c])))
           /\ Head(todo[c]).do = "point" => Tail(todo[c]) # <<>>
           /\ Tail(todo[c]) \in Seq(Transfers) /\ Len(Tail(todo[c])) = Len(todo[c]) - 1
           /\ \A i \in 1..Len(Tail(todo[c])) : Tail(todo[c])[i] = todo[c][i + 1]
<1>1. todo \in [Cores -> Seq(Transfers)] /\ todo[c] \in Seq(Transfers)
  BY TodoTypes
<1>2. todo'[c] = Tail(todo[c]) /\ \A d \in Cores : d # c => todo'[d] = todo[d]
  BY <1>1
<1>3. /\ Orderly(todo[c]) /\ AllSane(todo[c]) /\ (c = 1 => AllPolls(todo[c]))
  BY DEF Lists
<1>4. /\ Orderly(Tail(todo[c])) /\ AllSane(Tail(todo[c]))
      /\ c = 1 => AllPolls(Tail(todo[c])) /\ Polls(Head(todo[c]))
      /\ Head(todo[c]) = todo[c][1] /\ Head(todo[c]) \in Transfers
      /\ Sane(Head(todo[c]))
      /\ Tail(todo[c]) # <<>> => MayFollow(Head(todo[c]), Head(Tail(todo[c])))
      /\ Head(todo[c]).do = "point" => Tail(todo[c]) # <<>>
  BY <1>1, <1>3, TailKeeps
<1>5. Lists'
  <2>1. \A d \in Cores : Orderly(todo'[d]) /\ AllSane(todo'[d])
    BY <1>2, <1>4 DEF Lists
  <2>2. AllPolls(todo'[1])
    BY <1>2, <1>4 DEF Lists, Cores
  <2>. QED
    BY <2>1, <2>2 DEF Lists
<1>6. /\ Tail(todo[c]) \in Seq(Transfers) /\ Len(Tail(todo[c])) = Len(todo[c]) - 1
      /\ \A i \in 1..Len(Tail(todo[c])) : Tail(todo[c])[i] = todo[c][i + 1]
  BY <1>1, HeadTailProperties
<1>. QED
  BY <1>2, <1>4, <1>5, <1>6

\* What a read that is asked for gets, if nobody came in between.
LEMMA ReadIsOwn ==
    ASSUME BusInv, NEW c \in Cores, todo[c] # <<>>, Effect(Head(todo[c])), Meet(c),
           ~crossed', ~partial
    PROVE  /\ ~crossed /\ ~Pointed(Other(c))
           /\ Asks(Head(todo[c])) =>
                /\ pointer = Head(todo[c]).reg
                /\ ClearsInt(Head(todo[c])) => Head(todo[c]) = ReadInts
                /\ Head(todo[c]).reg = CHG_INT => ~alarm' /\ pointer' = CHG_INT + 3
           /\ c = 0 /\ Head(todo[c]).do = "scan" => ~ClearsInt(Head(todo[c]))
<1>. DEFINE t == Head(todo[c])
<1>1. ~crossed /\ ~Pointed(Other(c))
  BY DEF Meet
<1>2. t \in Transfers /\ Sane(t)
  <2>1. todo[c] \in Seq(Transfers) /\ Orderly(todo[c]) /\ AllSane(todo[c])
    BY TodoTypes DEF BusInv, Lists
  <2>. QED
    BY <2>1, TailKeeps
<1>3. Asks(t) => pointer = t.reg
  BY <1>1 DEF BusInv, PointsRight
<1>4. pointer \in Nat /\ Effect(t)
  BY DEF BusInv, TypeOK
<1>5. c = 0 /\ t.do = "scan" => pointer # CHG_INT
  <2>1. Other(0) = 1
    BY DEF Other
  <2>. QED
    BY <1>1, <2>1 DEF BusInv, PointsRight
<1>. HIDE DEF t
<1>6. Asks(t) => Reads(t)
  BY DEF Asks, Reads
<1>7. ASSUME Asks(t), ClearsInt(t) PROVE t = ReadInts
  <2>1. CHG_INT \in t.reg .. t.reg + Length(t) - 1
    BY <1>3, <1>7 DEF ClearsInt
  <2>. QED
    BY <1>2, <1>7, <2>1 DEF Sane
<1>8. ASSUME Asks(t), t.reg = CHG_INT PROVE ~alarm' /\ pointer' = CHG_INT + 3
  <2>1. t = ReadInts
    BY <1>2, <1>8 DEF Sane
  <2>2. Length(t) = 3 /\ pointer = 16 /\ CHG_INT = 16
    BY <1>2, <1>3, <1>8, <2>1, Lengths, Fields DEF CHG_INT
  <2>3. ClearsInt(t)
    BY <1>6, <1>8, <2>2 DEF ClearsInt
  <2>4. pointer' = CHG_INT + 3
    BY <1>4, <1>6, <1>8, <2>2 DEF Effect, From
  <2>. QED
    BY <1>4, <2>3, <2>4 DEF Effect
<1>9. ASSUME c = 0, t.do = "scan" PROVE ~ClearsInt(t)
  <2>1. t = Transfer("scan", CHIP_ID, 1)
    BY <1>2, <1>9 DEF Sane
  <2>2. Length(t) = 1
    <3>1. t.arg = 1
      BY <2>1 DEF Transfer
    <3>. QED
      BY <1>2, <1>9, <3>1, Lengths
  <2>3. pointer # 16 /\ CHG_INT = 16
    BY <1>5, <1>9 DEF CHG_INT
  <2>. QED
    BY <1>4, <2>2, <2>3 DEF ClearsInt
<1>. QED
  BY <1>1, <1>3, <1>7, <1>8, <1>9 DEF t

\* The pin's latch: an alarm that starts to hold the pin low sets it.
LEMMA EdgeOfLow ==
    ASSUME Pin, Low(regs'[CHG_INT_MASK], alarm')
    PROVE  edge' \/ (~edge /\ Low(regs[CHG_INT_MASK], alarm))
BY DEF Pin

\* A transfer is through.
LEMMA DoneInv ==
    ASSUME BusInv, NEW c \in Cores, todo[c] # <<>>, Effect(Head(todo[c])), Meet(c),
           todo' = [todo EXCEPT ![c] = Tail(@)],
           \A d \in Cores : d # c => attempts'[d] = attempts[d],
           UNCHANGED <<queued, partial>>
    PROVE  Lists' /\ PointsRight' /\ AlarmIsOnItsWay'
<1>. DEFINE t == Head(todo[c])
<1>0. TypeOK /\ Lists /\ PointsRight /\ AlarmIsOnItsWay
  BY DEF BusInv
<1>1. /\ Lists'
      /\ todo'[c] = Tail(todo[c])
      /\ \A d \in Cores : d # c => todo'[d] = todo[d]
      /\ t = todo[c][1] /\ t \in Transfers
      /\ Sane(t) /\ (c = 1 => Polls(t))
      /\ Tail(todo[c]) # <<>> => MayFollow(t, Head(Tail(todo[c])))
      /\ t.do = "point" => Tail(todo[c]) # <<>>
      /\ Tail(todo[c]) \in Seq(Transfers) /\ Len(Tail(todo[c])) = Len(todo[c]) - 1
      /\ \A i \in 1..Len(Tail(todo[c])) : Tail(todo[c])[i] = todo[c][i + 1]
  BY <1>0, ListsShrink
<1>2. Other(c) \in Cores /\ Other(c) # c /\ \A d \in Cores : d = c \/ d = Other(c)
  BY TheOther
<1>3. \A d \in Cores : d # c => (Pointed(d)' <=> Pointed(d))
  BY <1>1 DEF Pointed
<1>4. ASSUME ~crossed', ~partial'
      PROVE  /\ ~crossed /\ ~partial /\ ~Pointed(Other(c))
             /\ Asks(t) => /\ pointer = t.reg
                           /\ ClearsInt(t) => t = ReadInts
                           /\ t.reg = CHG_INT => ~alarm' /\ pointer' = CHG_INT + 3
  BY <1>4, ReadIsOwn
<1>5. Effect(t)
  OBVIOUS
<1>. HIDE DEF t
<1>6. PointsRight'
  <2>. SUFFICES ASSUME ~crossed', ~partial'
                PROVE  /\ \A d \in Cores : todo'[d] # <<>> /\ Asks(Head(todo'[d])) =>
                            pointer' = Head(todo'[d]).reg
                       /\ todo'[0] # <<>> /\ Head(todo'[0]).do = "scan" /\ ~Pointed(1)' =>
                            pointer' # CHG_INT
    BY DEF PointsRight
  <2>1. ASSUME NEW d \in Cores, todo'[d] # <<>>, Asks(Head(todo'[d]))
        PROVE  pointer' = Head(todo'[d]).reg
    <3>1. CASE d = c
      <4>1. MayFollow(t, Head(todo'[c])) /\ Asks(Head(todo'[c]))
        BY <1>1, <2>1, <3>1
      <4>2. t.do = "point" /\ Head(todo'[c]).reg = t.reg
        BY <4>1 DEF MayFollow
      <4>3. Length(t) = 0 /\ From(t) = t.reg
        BY <1>1, <4>2, Lengths DEF From, Reads
      <4>4. t.reg \in Nat
        <5>1. t.reg \in Byte
          BY <1>1 DEF Transfers
        <5>. QED
          BY <5>1, BytesAreNumbers
      <4>5. pointer' = t.reg
        BY <1>5, <4>3, <4>4 DEF Effect
      <4>. QED
        BY <3>1, <4>2, <4>5
    <3>2. CASE d # c
      <4>1. d = Other(c) /\ todo'[d] = todo[d]
        BY <1>1, <1>2, <3>2
      <4>2. Pointed(d)
        BY <2>1, <4>1 DEF Pointed, Asks
      <4>. QED
        BY <1>4, <4>1, <4>2
    <3>. QED
      BY <3>1, <3>2
  <2>2. ASSUME todo'[0] # <<>>, Head(todo'[0]).do = "scan", ~Pointed(1)'
        PROVE  pointer' # CHG_INT
    <3>1. CASE c = 0
      <4>1. MayFollow(t, Head(todo'[0]))
        BY <1>1, <2>2, <3>1
      <4>2. t.do = "write" /\ t.reg = CHG_INT_MASK
        BY <2>2, <4>1 DEF MayFollow
      <4>3. Length(t) = 3 /\ From(t) = CHG_INT_MASK
        BY <1>1, <4>2, Lengths DEF From, Reads
      <4>. QED
        BY <1>5, <4>3, Numbers DEF Effect
    <3>2. CASE c = 1
      <4>1. t = Transfer("point", CHG_INT, 0) \/ t = ReadInts
        BY <1>1, <3>2 DEF Polls
      <4>2. CASE t = Transfer("point", CHG_INT, 0)
        <5>1. t.do = "point"
          BY <4>2 DEF Transfer
        <5>2. todo'[1] # <<>> /\ MayFollow(t, Head(todo'[1]))
          BY <1>1, <3>2, <5>1
        <5>3. Asks(Head(todo'[1]))
          BY <5>1, <5>2 DEF MayFollow
        <5>. QED
          BY <2>2, <5>2, <5>3 DEF Pointed, Asks
      <4>3. CASE t = ReadInts
        BY <1>4, <4>3, Fields, Numbers DEF Asks
      <4>. QED
        BY <4>1, <4>2, <4>3
    <3>. QED
      BY <3>1, <3>2 DEF Cores
  <2>. QED
    BY <2>1, <2>2
<1>7. AlarmIsOnItsWay'
  <2>. SUFFICES ASSUME Low(regs'[CHG_INT_MASK], alarm'), ~crossed', ~partial', ~edge'
                PROVE  queued' > 0 \/ \E d \in Cores : WillReadInts(d)'
    BY DEF AlarmIsOnItsWay
  <2>1. Low(regs[CHG_INT_MASK], alarm) /\ ~edge
    BY <1>5, EdgeOfLow DEF Effect
  <2>2. CASE queued > 0
    BY <2>2
  <2>3. CASE \E d \in Cores : WillReadInts(d)
    <3>1. PICK d \in Cores : WillReadInts(d)
      BY <2>3
    <3>2. CASE d # c
      BY <1>1, <3>1, <3>2 DEF WillReadInts
    <3>3. CASE d = c
      <4>1. PICK i \in 1..Len(todo[c]) : Reads(todo[c][i]) /\ todo[c][i].reg = CHG_INT
        BY <3>1, <3>3 DEF WillReadInts
      <4>2. CASE i = 1
        <5>1. Reads(t) /\ t.reg = CHG_INT
          BY <1>1, <4>1, <4>2
        <5>2. t.do # "scan"
          BY <1>1, <5>1, Numbers DEF Sane, Transfer
        <5>3. Asks(t)
          BY <5>1, <5>2 DEF Reads, Asks
        <5>. QED
          BY <1>4, <5>1, <5>3 DEF Low
      <4>3. CASE i # 1
        <5>1. todo[c] \in Seq(Transfers)
          BY <1>0, TodoTypes
        <5>2. Len(todo[c]) \in Nat
          BY <5>1
        <5>3. i - 1 \in 1..Len(Tail(todo[c])) /\ (i - 1) + 1 = i
          BY <1>1, <4>3, <5>2
        <5>4. Tail(todo[c])[i - 1] = todo[c][i]
          BY <1>1, <5>3
        <5>5. WillReadInts(c)'
          BY <1>1, <4>1, <5>3, <5>4 DEF WillReadInts
        <5>. QED
          BY <5>5
      <4>. QED
        BY <4>2, <4>3
    <3>. QED
      BY <3>2, <3>3
  <2>. QED
    BY <1>0, <1>4, <2>1, <2>2, <2>3 DEF AlarmIsOnItsWay
<1>. QED
  BY <1>1, <1>6, <1>7

\* An attempt fails: the list stays, and a read that may have emptied a register
\* is remembered.
LEMMA FailBus ==
    ASSUME BusInv, NEW c \in Cores, Fail(c)
    PROVE  Lists' /\ PointsRight' /\ AlarmIsOnItsWay'
<1>. DEFINE t == Head(todo[c])
<1>1. /\ todo' = todo /\ queued' = queued /\ partial \in BOOLEAN /\ crossed \in BOOLEAN
      /\ attempts' = [attempts EXCEPT ![c] = @ + 1]
      /\ attempts \in [Cores -> 0..MaxRetries] /\ MaxRetries \in Nat
      /\ todo[c] # <<>> /\ t.do # "scan"
  BY MAX77976Assumption DEF Fail, BusInv, TypeOK, Runs, At
<1>2. /\ attempts'[c] > 0
      /\ \A d \in Cores : d # c => attempts'[d] = attempts[d]
      /\ \A d \in Cores : Pointed(d) => Pointed(d)'
  <2>1. attempts[c] \in 0..MaxRetries
    BY <1>1
  <2>2. attempts'[c] = attempts[c] + 1
    BY <1>1
  <2>3. attempts'[c] > 0
    BY <1>1, <2>1, <2>2
  <2>4. \A d \in Cores : d # c => attempts'[d] = attempts[d]
    BY <1>1
  <2>. QED
    BY <1>1, <2>3, <2>4 DEF Pointed
<1>3. Lists'
  BY <1>1 DEF BusInv, Lists
<1>4. t \in Transfers /\ (c = 1 => Polls(t)) /\ Sane(t)
  <2>1. todo[c] \in Seq(Transfers)
    BY TodoTypes DEF BusInv
  <2>2. Orderly(todo[c]) /\ AllSane(todo[c]) /\ (c = 1 => AllPolls(todo[c]))
    BY DEF BusInv, Lists
  <2>. QED
    BY <1>1, <2>1, <2>2, TailKeeps
<1>5. CASE Effect(t) /\ Meet(c) /\ partial' = (partial \/ Reads(t))
  <2>1. PointsRight'
    <3>. SUFFICES ASSUME ~crossed', ~partial'
                  PROVE  /\ \A d \in Cores : ~(todo'[d] # <<>> /\ Asks(Head(todo'[d])))
                         /\ todo'[0] # <<>> /\ Head(todo'[0]).do = "scan" =>
                              Pointed(1)'
      BY DEF PointsRight
    <3>1. ~Reads(t) /\ ~Pointed(Other(c)) /\ Other(c) \in Cores
      BY <1>5, TheOther DEF Meet
    <3>2. \A d \in Cores : ~(todo'[d] # <<>> /\ Asks(Head(todo'[d])))
      <4>. SUFFICES ASSUME NEW d \in Cores, todo[d] # <<>>, Asks(Head(todo[d]))
                    PROVE  FALSE
        BY <1>1
      <4>1. CASE d = c
        BY <3>1, <4>1 DEF Asks, Reads
      <4>2. CASE d # c
        BY <3>1, <4>2, TheOther DEF Pointed, Asks
      <4>. QED
        BY <4>1, <4>2
    <3>3. ASSUME todo'[0] # <<>>, Head(todo'[0]).do = "scan" PROVE Pointed(1)'
      <4>1. c = 1
        BY <1>1, <3>3 DEF Cores
      <4>2. t = Transfer("point", CHG_INT, 0) \/ t = ReadInts
        BY <1>4, <4>1 DEF Polls
      <4>3. t.do = "point"
        BY <3>1, <4>2 DEF Transfer, ReadInts, Reads
      <4>. QED
        BY <1>1, <1>2, <4>1, <4>3 DEF Pointed
    <3>. QED
      BY <3>2, <3>3
  <2>2. AlarmIsOnItsWay'
    <3>. SUFFICES ASSUME Low(regs'[CHG_INT_MASK], alarm'), ~crossed', ~partial', ~edge'
                  PROVE  queued' > 0 \/ \E d \in Cores : WillReadInts(d)'
      BY DEF AlarmIsOnItsWay
    <3>1. Low(regs[CHG_INT_MASK], alarm) /\ ~edge /\ ~crossed /\ ~partial
      BY <1>5, EdgeOfLow DEF Effect, Meet
    <3>. QED
      BY <1>1, <3>1 DEF BusInv, AlarmIsOnItsWay, WillReadInts
  <2>. QED
    BY <1>3, <2>1, <2>2
<1>6. CASE UNCHANGED <<regs, pointer, alarm, edge, crossed, partial>>
  <2>1. PointsRight'
    BY <1>1, <1>2, <1>6 DEF BusInv, PointsRight, Cores
  <2>2. AlarmIsOnItsWay'
    BY <1>1, <1>6 DEF BusInv, AlarmIsOnItsWay, WillReadInts
  <2>. QED
    BY <1>3, <2>1, <2>2
<1>. QED
  BY <1>5, <1>6 DEF Fail

LEMMA SucceedBus ==
    ASSUME BusInv, NEW c \in Cores, Succeed(c)
    PROVE  Lists' /\ PointsRight' /\ AlarmIsOnItsWay'
<1>1. /\ todo[c] # <<>> /\ Effect(Head(todo[c])) /\ Meet(c)
      /\ todo' = [todo EXCEPT ![c] = Tail(@)]
      /\ attempts' = [attempts EXCEPT ![c] = 0]
      /\ UNCHANGED <<queued, partial>>
  BY DEF Succeed, BusInv, Runs, At
<1>2. \A d \in Cores : d # c => attempts'[d] = attempts[d]
  BY <1>1 DEF BusInv, TypeOK
<1>. QED
  BY <1>1, <1>2, DoneInv

LEMMA ScanBus ==
    ASSUME BusInv, Scan
    PROVE  Lists' /\ PointsRight' /\ AlarmIsOnItsWay'
<1>1. /\ 0 \in Cores /\ todo[0] # <<>> /\ Head(todo[0]).do = "scan"
      /\ todo' = [todo EXCEPT ![0] = Tail(@)]
      /\ UNCHANGED <<queued, attempts, partial>>
  BY DEF Scan, Cores
<1>2. CASE Effect(Head(todo[0])) /\ Meet(0)
  BY <1>1, <1>2, DoneInv
<1>3. CASE UNCHANGED <<regs, pointer, alarm, edge, crossed>>
  <2>. DEFINE t == Head(todo[0])
  <2>1. /\ Lists'
        /\ todo'[0] = Tail(todo[0])
        /\ \A d \in Cores : d # 0 => todo'[d] = todo[d]
        /\ t = todo[0][1] /\ Sane(t)
        /\ Tail(todo[0]) # <<>> => MayFollow(t, Head(Tail(todo[0])))
        /\ Len(Tail(todo[0])) = Len(todo[0]) - 1
        /\ \A i \in 1..Len(Tail(todo[0])) : Tail(todo[0])[i] = todo[0][i + 1]
    BY <1>1, ListsShrink DEF BusInv
  <2>2. todo'[0] # <<>> => ~Asks(Head(todo'[0])) /\ Head(todo'[0]).do # "scan"
    BY <1>1, <2>1 DEF MayFollow
  <2>3. PointsRight'
    BY <1>1, <1>3, <2>1, <2>2 DEF BusInv, PointsRight
  <2>4. ASSUME NEW d \in Cores, WillReadInts(d) PROVE WillReadInts(d)'
    <3>1. PICK i \in 1..Len(todo[d]) : Reads(todo[d][i]) /\ todo[d][i].reg = CHG_INT
      BY <2>4 DEF WillReadInts
    <3>2. CASE d # 0
      BY <2>1, <2>4, <3>2 DEF WillReadInts
    <3>3. CASE d = 0
      <4>1. t.reg # CHG_INT
        BY <1>1, <2>1, Numbers DEF Sane, Transfer
      <4>2. i # 1
        BY <2>1, <3>1, <3>3, <4>1
      <4>3. todo[0] \in Seq(Transfers)
        BY <1>1, TodoTypes DEF BusInv
      <4>4. Len(todo[0]) \in Nat
        BY <4>3
      <4>5. i - 1 \in 1..Len(Tail(todo[0])) /\ (i - 1) + 1 = i
        BY <2>1, <3>1, <3>3, <4>2, <4>4
      <4>6. Tail(todo[0])[i - 1] = todo[0][i]
        BY <2>1, <4>5
      <4>. QED
        BY <2>1, <3>1, <3>3, <4>5, <4>6 DEF WillReadInts
    <3>. QED
      BY <3>2, <3>3
  <2>5. AlarmIsOnItsWay'
    BY <1>1, <1>3, <2>4 DEF BusInv, AlarmIsOnItsWay
  <2>. QED
    BY <2>1, <2>3, <2>5
<1>. QED
  BY <1>2, <1>3 DEF Scan

LEMMA PopBus ==
    ASSUME BusInv, Core1Pop
    PROVE  Lists' /\ PointsRight' /\ AlarmIsOnItsWay'
<1>. DEFINE p == ParseInterruptVals
<1>1. /\ 1 \in Cores /\ todo[1] = <<>> /\ state[1] = "run"
      /\ todo' = [todo EXCEPT ![1] = p]
      /\ UNCHANGED <<regs, pointer, alarm, edge, attempts, partial, crossed>>
  BY DEF Core1Pop, At, Cores
<1>2. p \in Seq(Transfers) /\ Len(p) = 2 /\ p[1] = Transfer("point", CHG_INT, 0)
      /\ p[2] = ReadInts /\ Orderly(p) /\ AllSane(p) /\ AllPolls(p)
  BY ParseInterruptValsIs
<1>3. todo'[1] = p /\ todo'[0] = todo[0]
  BY <1>1, TodoTypes DEF BusInv, Cores
<1>. HIDE DEF p
<1>4. Lists'
  BY <1>2, <1>3 DEF BusInv, Lists, Cores
<1>5. p # <<>> /\ Head(p).do = "point"
  <2>1. p \in Seq(Transfers) /\ Len(p) # 0
    BY <1>2
  <2>2. p # <<>> /\ Head(p) = p[1]
    BY <2>1, NonEmpty
  <2>. QED
    BY <1>2, <2>2 DEF Transfer
<1>6. PointsRight'
  <2>1. ~Pointed(1)
    BY <1>1 DEF Pointed
  <2>2. \A d \in Cores : todo'[d] # <<>> /\ Asks(Head(todo'[d])) => d = 0
    BY <1>3, <1>5 DEF Asks, Cores
  <2>. QED
    BY <1>1, <1>3, <2>1, <2>2 DEF BusInv, PointsRight, Cores
<1>7. AlarmIsOnItsWay'
  <2>1. 2 \in 1..Len(p) /\ p[2] = ReadInts
    BY <1>2
  <2>2. Reads(ReadInts) /\ ReadInts.reg = CHG_INT
    BY DEF Reads, ReadInts, Transfer
  <2>3. WillReadInts(1)'
    BY <1>3, <2>1, <2>2 DEF WillReadInts
  <2>. QED
    BY <1>1, <2>3 DEF AlarmIsOnItsWay
<1>. QED
  BY <1>4, <1>6, <1>7

LEMMA GetStateBus ==
    ASSUME BusInv, GetState
    PROVE  Lists' /\ PointsRight' /\ AlarmIsOnItsWay'
<1>. DEFINE p == GetChgDetails
<1>1. /\ 0 \in Cores /\ todo[0] = <<>>
      /\ todo' = [todo EXCEPT ![0] = p]
      /\ UNCHANGED <<regs, pointer, alarm, edge, queued, attempts, partial, crossed>>
  BY DEF GetState, Cores
<1>2. p \in Seq(Transfers) /\ Len(p) = 8 /\ p[1] = Transfer("point", DETAILS_00, 0)
      /\ Orderly(p) /\ AllSane(p)
  BY GetChgDetailsIs, GetChgDetailsLooks
<1>3. todo'[0] = p /\ todo'[1] = todo[1]
  BY <1>1, TodoTypes DEF BusInv, Cores
<1>. HIDE DEF p
<1>4. Lists'
  BY <1>2, <1>3 DEF BusInv, Lists, Cores
<1>5. p # <<>> /\ Head(p).do = "point"
  <2>1. p \in Seq(Transfers) /\ Len(p) # 0
    BY <1>2
  <2>2. p # <<>> /\ Head(p) = p[1]
    BY <2>1, NonEmpty
  <2>. QED
    BY <1>2, <2>2 DEF Transfer
<1>6. PointsRight'
  <2>1. \A d \in Cores : todo'[d] # <<>> /\ Asks(Head(todo'[d])) => d = 1
    BY <1>3, <1>5 DEF Asks, Cores
  <2>. QED
    BY <1>1, <1>3, <1>5, <2>1 DEF BusInv, PointsRight
<1>7. AlarmIsOnItsWay'
  <2>1. ~WillReadInts(0)
    BY <1>1 DEF WillReadInts
  <2>2. \A d \in Cores : WillReadInts(d) => d = 1
    BY <2>1 DEF Cores
  <2>3. WillReadInts(1) => WillReadInts(1)'
    BY <1>3 DEF WillReadInts
  <2>. QED
    BY <1>1, <2>2, <2>3 DEF BusInv, AlarmIsOnItsWay
<1>. QED
  BY <1>4, <1>6, <1>7

LEMMA InitBus == Init => BusInv
<1>. SUFFICES ASSUME Init PROVE BusInv
  OBVIOUS
<1>1. todo[0] = OnStart /\ todo[1] = <<>> /\ \A c \in Cores : state[c] = "run" /\ attempts[c] = 0
  BY DEF Init, Cores
<1>2. Runs
  BY <1>1 DEF Runs
<1>3. Lists
  <2>1. Orderly(<<>>) /\ AllSane(<<>>) /\ AllPolls(<<>>)
    BY DEF Orderly, AllSane, AllPolls
  <2>. QED
    BY <1>1, <2>1, OnStartLooks DEF Lists, Cores
<1>4. PointsRight
  <2>1. OnStart # <<>> /\ Head(OnStart) = Mask
    <3>. DEFINE s == OnStart
    <3>1. s \in Seq(Transfers) /\ Len(s) = 18 /\ s[1] = Mask
      BY OnStartIs
    <3>. HIDE DEF s
    <3>2. s \in Seq(Transfers) /\ Len(s) # 0
      BY <3>1
    <3>3. s # <<>> /\ Head(s) = s[1]
      BY <3>2, NonEmpty
    <3>. QED
      BY <3>1, <3>3 DEF s
  <2>2. Mask.do = "write"
    BY Fields
  <2>. QED
    BY <1>1, <2>1, <2>2 DEF PointsRight, Asks, Cores
<1>5. AlarmIsOnItsWay
  <2>1. 3 \in 1..Len(todo[0]) /\ todo[0][3] = ReadInts /\ 0 \in Cores
    BY <1>1, OnStartIs DEF Cores
  <2>2. Reads(ReadInts) /\ ReadInts.reg = CHG_INT
    BY DEF Reads, ReadInts, Transfer
  <2>3. WillReadInts(0)
    BY <2>1, <2>2 DEF WillReadInts
  <2>. QED
    BY <2>1, <2>3 DEF AlarmIsOnItsWay
<1>. QED
  BY <1>2, <1>3, <1>4, <1>5, InitTypes DEF BusInv

LEMMA NextBus == BusInv /\ [Next]_vars => BusInv'
<1>. SUFFICES ASSUME BusInv, [Next]_vars PROVE BusInv'
  OBVIOUS
<1>1. TypeOK' /\ Runs'
  BY NextTypes DEF BusInv
<1>. SUFFICES Lists' /\ PointsRight' /\ AlarmIsOnItsWay'
  BY <1>1 DEF BusInv
<1>2. ASSUME NEW c \in Cores, EnterTry(c) PROVE Lists' /\ PointsRight' /\ AlarmIsOnItsWay'
  BY <1>2 DEF EnterTry, BusInv, Lists, PointsRight, Pointed, AlarmIsOnItsWay, WillReadInts
<1>3. CASE \E c \in Cores : CoreStep(c)
  BY <1>2, <1>3, SucceedBus, FailBus DEF CoreStep
<1>4. CASE OnBatteryChargerInterrupt
  <2>1. /\ queued' = queued + 1 /\ queued \in Nat
        /\ UNCHANGED <<regs, pointer, alarm, todo, attempts, partial, crossed>>
    BY <1>4 DEF OnBatteryChargerInterrupt, BusInv, TypeOK
  <2>2. queued' > 0
    BY <2>1
  <2>. QED
    BY <2>1, <2>2 DEF BusInv, Lists, PointsRight, Pointed, AlarmIsOnItsWay
<1>5. CASE Alarm
  <2>1. /\ ~alarm /\ Pin
        /\ UNCHANGED <<regs, pointer, queued, todo, attempts, partial, crossed>>
    BY <1>5 DEF Alarm
  <2>2. AlarmIsOnItsWay'
    BY <2>1, EdgeOfLow DEF Low, AlarmIsOnItsWay
  <2>. QED
    BY <2>1, <2>2 DEF BusInv, Lists, PointsRight, Pointed
<1>6. CASE UNCHANGED vars
  BY <1>6 DEF vars, BusInv, Lists, PointsRight, Pointed, AlarmIsOnItsWay, WillReadInts
<1>. QED
  BY <1>3, <1>4, <1>5, <1>6, ScanBus, PopBus, GetStateBus
     DEF Next, Core0Step, Core1Step, Cores

\* For any MAX_RETRIES every variable keeps its type: in particular no transfer
\* is attempted more often than that (robot.c:481-530).
THEOREM ChargerTypes == Spec => []TypeOK
<1>1. BusInv => TypeOK
  BY DEF BusInv
<1>. QED
  BY <1>1, InitBus, NextBus, PTL DEF Spec

\* For any MAX_RETRIES and any bound on the queue, an alarm that holds the pin
\* low has its edge latched, an entry in the queue, or a reader under way
\* (max77976.c:40-45, 132-138).
THEOREM AlarmHasReader == Spec => []AlarmIsOnItsWay
<1>1. BusInv => AlarmIsOnItsWay
  BY DEF BusInv
<1>. QED
  BY <1>1, InitBus, NextBus, PTL DEF Spec

\* For any MAX_RETRIES, CHG_INT is emptied only by the read whose caller looks at
\* it, by a read that was interfered with or by one that failed after its effect
\* (max77976.c:132-138, robot.c:504-515).
THEOREM ClearedByReader == Spec => AlarmClearedByItsReader
<1>. DEFINE A == alarm /\ ~alarm' =>
           \/ crossed'
           \/ partial'
           \/ \E c \in Cores : /\ todo[c] # <<>>
                               /\ Head(todo[c]) = Transfer("read", CHG_INT, 3)
                               /\ todo'[c] = Tail(todo[c])
<1>1. BusInv /\ [Next]_vars => [A]_vars
  <2>. SUFFICES ASSUME BusInv, Next, alarm, ~alarm', ~crossed', ~partial'
                PROVE  \E c \in Cores : /\ todo[c] # <<>>
                                        /\ Head(todo[c]) = ReadInts
                                        /\ todo'[c] = Tail(todo[c])
    BY DEF ReadInts
  <2>0. todo \in [Cores -> Seq(Transfers)]
    BY TodoTypes DEF BusInv
  <2>1. ASSUME NEW c \in Cores, Succeed(c)
        PROVE  /\ todo[c] # <<>> /\ Head(todo[c]) = ReadInts
               /\ todo'[c] = Tail(todo[c])
    <3>. DEFINE t == Head(todo[c])
    <3>1. /\ todo[c] # <<>> /\ t.do # "scan" /\ Effect(t) /\ Meet(c) /\ ~partial
          /\ todo' = [todo EXCEPT ![c] = Tail(@)]
      BY <2>1 DEF Succeed, At, BusInv, Runs
    <3>2. Asks(t) /\ ClearsInt(t) => t = ReadInts
      BY <3>1, ReadIsOwn
    <3>3. todo'[c] = Tail(todo[c])
      BY <2>0, <3>1
    <3>. HIDE DEF t
    <3>4. ClearsInt(t) /\ Asks(t)
      BY <3>1 DEF Effect, ClearsInt, Reads, Asks
    <3>. QED
      BY <3>1, <3>2, <3>3, <3>4 DEF t
  <2>2. ASSUME NEW c \in Cores, Fail(c) PROVE FALSE
    BY <2>2 DEF Fail, Effect, ClearsInt
  <2>3. ASSUME Scan PROVE FALSE
    <3>1. /\ 0 \in Cores /\ todo[0] # <<>> /\ Head(todo[0]).do = "scan" /\ ~partial
          /\ Effect(Head(todo[0])) /\ Meet(0)
      BY <2>3 DEF Scan, Cores
    <3>2. ~ClearsInt(Head(todo[0]))
      BY <3>1, ReadIsOwn
    <3>. QED
      BY <3>1, <3>2 DEF Effect
  <2>4. ASSUME UNCHANGED alarm PROVE FALSE
    BY <2>4
  <2>5. CASE \E c \in Cores : CoreStep(c)
    BY <2>1, <2>2, <2>4, <2>5 DEF CoreStep, EnterTry
  <2>6. ~Core1Pop /\ ~OnBatteryChargerInterrupt /\ ~GetState /\ ~Alarm
    BY <2>4 DEF Core1Pop, OnBatteryChargerInterrupt, GetState, Alarm
  <2>. QED
    BY <2>3, <2>5, <2>6 DEF Next, Core0Step, Core1Step, Cores
<1>. HIDE DEF A
<1>2. Spec => [][A]_vars
  BY <1>1, InitBus, NextBus, PTL DEF Spec
<1>. QED
  BY <1>2 DEF A, AlarmClearedByItsReader

-----------------------------------------------------------------------------
(* The settings. *)

\* Core 0 has still to do what list s holds from its element k on.
From0(s, k) ==
    /\ Len(todo[0]) = Len(s) + 1 - k
    /\ \A i \in 1..Len(todo[0]) : todo[0][i] = s[i + k - 1]

\* The registers when element k of OnStart is next.
Configured(k) ==
    /\ k \in 5..8 => regs[CNFG_06] = UNLOCKED
    /\ k > 5 => regs[CNFG_00] = 5
    /\ k > 6 => regs[CNFG_02] = 25
    /\ k > 7 => regs[CNFG_08] = 0
    /\ k > 8 => regs[CNFG_09] = 187
    /\ k > 9 => regs[CNFG_06] = LOCKED

Settings ==
    \/ \E k \in 1..19 : From0(OnStart, k) /\ Configured(k)
    \/ \E k \in 1..9 : From0(GetChgDetails, k) /\ Configured(19)

SettingsInv == BusInv /\ Settings

LEMMA RegistersDiffer ==
    /\ {CNFG_00, CNFG_02, CNFG_06, CNFG_08, CNFG_09, CHG_INT_MASK} \subseteq Registers
    /\ CNFG_06 \notin Protected /\ CHG_INT_MASK \notin Protected
    /\ CNFG_06 # CNFG_00 /\ CNFG_06 # CNFG_02 /\ CNFG_06 # CNFG_08 /\ CNFG_06 # CNFG_09
    /\ CNFG_00 # CNFG_02 /\ CNFG_00 # CNFG_08 /\ CNFG_00 # CNFG_09
    /\ CNFG_02 # CNFG_08 /\ CNFG_02 # CNFG_09 /\ CNFG_08 # CNFG_09
    /\ CHG_INT_MASK \notin {CNFG_00, CNFG_02, CNFG_06, CNFG_08, CNFG_09}
    /\ Protected = {CNFG_00, CNFG_02, CNFG_08, CNFG_09}
BY DEF Registers, Protected, CNFG_00, CNFG_02, CNFG_06, CNFG_08, CNFG_09, CHG_INT_MASK

SameSettings ==
    \A r \in {CNFG_00, CNFG_02, CNFG_06, CNFG_08, CNFG_09} : regs'[r] = regs[r]

LEMMA SameConfigured ==
    ASSUME SameSettings
    PROVE  \A k \in 1..19 : Configured(k) => Configured(k)'
BY DEF SameSettings, Configured

\* Only the writes of max77976_init touch the settings.
LEMMA OthersLeaveSettings ==
    ASSUME TypeOK, NEW t, ~Configures(t), Effect(t)
    PROVE  SameSettings
<1>1. regs \in [Registers -> Byte]
  BY DEF TypeOK
<1>2. regs' = regs \/ (regs' = [regs EXCEPT ![CHG_INT_MASK] = t.arg])
  BY DEF Effect, Configures
<1>. QED
  BY <1>1, <1>2, RegistersDiffer DEF SameSettings

LEMMA OnStartConfigures ==
    \A k \in 1..18 : Configures(OnStart[k]) => k \in 4..9
<1>1. /\ ~Configures(OnStart[1]) /\ ~Configures(OnStart[2]) /\ ~Configures(OnStart[3])
      /\ ~Configures(OnStart[10]) /\ ~Configures(OnStart[11]) /\ ~Configures(OnStart[12])
      /\ ~Configures(OnStart[13]) /\ ~Configures(OnStart[14]) /\ ~Configures(OnStart[15])
      /\ ~Configures(OnStart[16]) /\ ~Configures(OnStart[17]) /\ ~Configures(OnStart[18])
  BY OnStartIs DEF Configures, Transfer, Mask, MaskAll, ReadInts
<1>. QED
  BY <1>1

LEMMA GetChgDetailsConfigures ==
    \A k \in 1..8 : ~Configures(GetChgDetails[k])
<1>1. /\ ~Configures(GetChgDetails[1]) /\ ~Configures(GetChgDetails[2])
      /\ ~Configures(GetChgDetails[3]) /\ ~Configures(GetChgDetails[4])
      /\ ~Configures(GetChgDetails[5]) /\ ~Configures(GetChgDetails[6])
      /\ ~Configures(GetChgDetails[7]) /\ ~Configures(GetChgDetails[8])
  BY GetChgDetailsIs DEF Configures, Transfer
<1>. QED
  BY <1>1

LEMMA PollsLeaveSettings ==
    ASSUME NEW t, Polls(t)
    PROVE  ~Configures(t)
BY DEF Polls, Configures, Transfer, ReadInts

LEMMA WriteTakes ==
    ASSUME TypeOK, NEW r \in {CNFG_00, CNFG_02, CNFG_06, CNFG_08, CNFG_09}, NEW v \in Byte,
           r = CNFG_06 \/ regs[CNFG_06] = UNLOCKED,
           Effect(Transfer("write", r, v))
    PROVE  /\ regs'[r] = v
           /\ \A q \in {CNFG_00, CNFG_02, CNFG_06, CNFG_08, CNFG_09} :
                q # r => regs'[q] = regs[q]
<1>. DEFINE t == Transfer("write", r, v)
<1>1. t.do = "write" /\ t.reg = r /\ t.arg = v
  BY DEF Transfer
<1>2. Effect(t) /\ regs \in [Registers -> Byte]
  BY DEF TypeOK
<1>. HIDE DEF t
<1>3. Writable(r)
  BY RegistersDiffer DEF Writable
<1>4. regs' = [regs EXCEPT ![r] = v]
  BY <1>1, <1>2, <1>3 DEF Effect
<1>. QED
  BY <1>2, <1>4, RegistersDiffer

\* A write of max77976_init takes, and taking twice does no harm.
LEMMA InitWrites ==
    ASSUME TypeOK, NEW k \in 4..9, Configured(k), Effect(OnStart[k])
    PROVE  Configured(k)' /\ Configured(k + 1)'
<1>. USE DEF Configured
<1>1. CASE k = 4
  <2>1. Effect(Transfer("write", CNFG_06, UNLOCKED))
    BY <1>1, OnStartIs
  <2>2. regs'[CNFG_06] = UNLOCKED
    BY <2>1, WriteTakes, Bytes
  <2>. QED
    BY <1>1, <2>2
<1>2. CASE k = 5
  <2>1. Effect(Transfer("write", CNFG_00, 5))
    BY <1>2, OnStartIs
  <2>2. regs'[CNFG_00] = 5 /\ regs'[CNFG_06] = regs[CNFG_06]
    BY <1>2, <2>1, WriteTakes, Bytes, RegistersDiffer
  <2>. QED
    BY <1>2, <2>2
<1>3. CASE k = 6
  <2>1. Effect(Transfer("write", CNFG_02, 25))
    BY <1>3, OnStartIs
  <2>2. /\ regs'[CNFG_02] = 25 /\ regs'[CNFG_06] = regs[CNFG_06]
        /\ regs'[CNFG_00] = regs[CNFG_00]
    BY <1>3, <2>1, WriteTakes, Bytes, RegistersDiffer
  <2>. QED
    BY <1>3, <2>2
<1>4. CASE k = 7
  <2>1. Effect(Transfer("write", CNFG_08, 0))
    BY <1>4, OnStartIs
  <2>2. /\ regs'[CNFG_08] = 0 /\ regs'[CNFG_06] = regs[CNFG_06]
        /\ regs'[CNFG_00] = regs[CNFG_00] /\ regs'[CNFG_02] = regs[CNFG_02]
    BY <1>4, <2>1, WriteTakes, Bytes, RegistersDiffer
  <2>. QED
    BY <1>4, <2>2
<1>5. CASE k = 8
  <2>1. Effect(Transfer("write", CNFG_09, 187))
    BY <1>5, OnStartIs
  <2>2. /\ regs'[CNFG_09] = 187 /\ regs'[CNFG_06] = regs[CNFG_06]
        /\ regs'[CNFG_00] = regs[CNFG_00] /\ regs'[CNFG_02] = regs[CNFG_02]
        /\ regs'[CNFG_08] = regs[CNFG_08]
    BY <1>5, <2>1, WriteTakes, Bytes, RegistersDiffer
  <2>. QED
    BY <1>5, <2>2
<1>6. CASE k = 9
  <2>1. Effect(Transfer("write", CNFG_06, LOCKED))
    BY <1>6, OnStartIs
  <2>2. /\ regs'[CNFG_06] = LOCKED
        /\ regs'[CNFG_00] = regs[CNFG_00] /\ regs'[CNFG_02] = regs[CNFG_02]
        /\ regs'[CNFG_08] = regs[CNFG_08] /\ regs'[CNFG_09] = regs[CNFG_09]
    BY <1>6, <2>1, WriteTakes, Bytes, RegistersDiffer
  <2>. QED
    BY <1>6, <2>2
<1>. QED
  BY <1>1, <1>2, <1>3, <1>4, <1>5, <1>6

\* Whatever transfer of OnStart takes effect.
LEMMA StartEffect ==
    ASSUME TypeOK, NEW k \in 1..18, Configured(k), Effect(OnStart[k])
    PROVE  Configured(k)' /\ Configured(k + 1)'
<1>1. CASE k \in 4..9
  BY <1>1, InitWrites
<1>2. CASE k \notin 4..9
  <2>1. SameSettings
    BY <1>2, OnStartConfigures, OthersLeaveSettings
  <2>2. Configured(k)'
    BY <2>1, SameConfigured
  <2>. QED
    BY <1>2, <2>2 DEF Configured
<1>. QED
  BY <1>1, <1>2

LEMMA SkipScan ==
    ASSUME Configured(18), UNCHANGED regs
    PROVE  Configured(19)'
BY DEF Configured

LEMMA OnStartWrites == \A k \in 4..9 : OnStart[k].do = "write"
<1>1. /\ OnStart[4].do = "write" /\ OnStart[5].do = "write" /\ OnStart[6].do = "write"
      /\ OnStart[7].do = "write" /\ OnStart[8].do = "write" /\ OnStart[9].do = "write"
  BY OnStartIs DEF Transfer
<1>. QED
  BY <1>1

LEMMA NextOfList ==
    ASSUME TypeOK, NEW s \in Seq(Transfers), NEW k \in 1..(Len(s) + 1), From0(s, k),
           todo[0] # <<>>
    PROVE  /\ k \in 1..Len(s) /\ Head(todo[0]) = s[k]
           /\ todo'[0] = Tail(todo[0]) => From0(s, k + 1)'
<1>. DEFINE u == todo[0]
            w == Tail(u)
<1>1. u \in Seq(Transfers) /\ u # <<>> /\ Len(s) \in Nat
  BY TodoTypes DEF Cores
<1>2. Len(u) = Len(s) + 1 - k /\ \A i \in 1..Len(u) : u[i] = s[i + k - 1]
  BY DEF From0
<1>. HIDE DEF u
<1>3. Len(u) \in Nat \ {0} /\ Head(u) = u[1]
  BY <1>1, EmptySeq
<1>4. w \in Seq(Transfers) /\ Len(w) = Len(u) - 1 /\ \A i \in 1..Len(w) : w[i] = u[i + 1]
  BY <1>1, HeadTailProperties
<1>5. k \in 1..Len(s)
  BY <1>1, <1>2, <1>3
<1>6. Head(u) = s[k]
  <2>1. 1 \in 1..Len(u) /\ 1 + k - 1 = k
    BY <1>3
  <2>. QED
    BY <1>2, <1>3, <2>1
<1>. HIDE DEF w
<1>7. Len(w) = Len(s) + 1 - (k + 1)
  BY <1>1, <1>2, <1>3, <1>4
<1>8. ASSUME NEW i \in 1..Len(w) PROVE w[i] = s[i + (k + 1) - 1]
  <2>1. i + 1 \in 1..Len(u) /\ (i + 1) + k - 1 = i + (k + 1) - 1
    BY <1>3, <1>4
  <2>. QED
    BY <1>2, <1>4, <2>1
<1>9. todo'[0] = w => From0(s, k + 1)'
  BY <1>7, <1>8 DEF From0
<1>. QED
  BY <1>5, <1>6, <1>9 DEF u, w

LEMMA CoreZeroEffect ==
    ASSUME TypeOK, Settings, todo[0] # <<>>, Effect(Head(todo[0]))
    PROVE  /\ todo' = todo => Settings'
           /\ todo'[0] = Tail(todo[0]) => Settings'
<1>. DEFINE t == Head(todo[0])
<1>1. CASE \E k \in 1..19 : From0(OnStart, k) /\ Configured(k)
  <2>1. PICK k \in 1..19 : From0(OnStart, k) /\ Configured(k)
    BY <1>1
  <2>2. OnStart \in Seq(Transfers) /\ Len(OnStart) = 18 /\ k \in 1..(Len(OnStart) + 1)
    BY OnStartIs
  <2>3. /\ k \in 1..18 /\ t = OnStart[k]
        /\ todo'[0] = Tail(todo[0]) => From0(OnStart, k + 1)'
    BY <2>1, <2>2, NextOfList
  <2>. HIDE DEF t
  <2>4. Configured(k)' /\ Configured(k + 1)'
    BY <2>1, <2>3, StartEffect DEF t
  <2>5. todo' = todo => From0(OnStart, k)'
    BY <2>1 DEF From0
  <2>6. k + 1 \in 1..19
    BY <2>3
  <2>. QED
    BY <2>1, <2>3, <2>4, <2>5, <2>6 DEF Settings
<1>2. CASE \E k \in 1..9 : From0(GetChgDetails, k) /\ Configured(19)
  <2>1. PICK k \in 1..9 : From0(GetChgDetails, k) /\ Configured(19)
    BY <1>2
  <2>2. GetChgDetails \in Seq(Transfers) /\ Len(GetChgDetails) = 8
        /\ k \in 1..(Len(GetChgDetails) + 1)
    BY GetChgDetailsIs
  <2>3. /\ k \in 1..8 /\ t = GetChgDetails[k]
        /\ todo'[0] = Tail(todo[0]) => From0(GetChgDetails, k + 1)'
    BY <2>1, <2>2, NextOfList
  <2>4. Configured(19)' /\ k + 1 \in 1..9
    BY <2>1, <2>3, GetChgDetailsConfigures, OthersLeaveSettings, SameConfigured
  <2>5. todo' = todo => From0(GetChgDetails, k)'
    BY <2>1 DEF From0
  <2>. QED
    BY <2>1, <2>3, <2>4, <2>5 DEF Settings
<1>. QED
  BY <1>1, <1>2 DEF Settings

LEMMA SameCoreZero ==
    ASSUME Settings, SameSettings, todo'[0] = todo[0]
    PROVE  Settings'
<1>1. \A k \in 1..19 : Configured(k) => Configured(k)'
  BY SameConfigured
<1>2. \A k \in Int : /\ From0(OnStart, k) => From0(OnStart, k)'
                     /\ From0(GetChgDetails, k) => From0(GetChgDetails, k)'
  BY DEF From0
<1>. QED
  BY <1>1, <1>2 DEF Settings

\* A transfer of a core takes effect, and its list stays or loses it.
LEMMA EffectSettings ==
    ASSUME TypeOK, Settings, Lists, NEW c \in Cores, todo[c] # <<>>, Effect(Head(todo[c])),
           todo' = todo \/ todo' = [todo EXCEPT ![c] = Tail(@)]
    PROVE  Settings'
<1>1. todo \in [Cores -> Seq(Transfers)]
  BY TodoTypes
<1>2. CASE c = 0
  BY <1>1, <1>2, CoreZeroEffect
<1>3. CASE c = 1
  <2>1. todo[1] \in Seq(Transfers) /\ Orderly(todo[1]) /\ AllPolls(todo[1])
    BY <1>1 DEF Lists, Cores
  <2>2. Polls(Head(todo[1]))
    BY <1>3, <2>1, TailKeeps
  <2>3. SameSettings
    BY <1>3, <2>2, PollsLeaveSettings, OthersLeaveSettings
  <2>4. todo'[0] = todo[0]
    BY <1>1, <1>3 DEF Cores
  <2>. QED
    BY <2>3, <2>4, SameCoreZero
<1>. QED
  BY <1>2, <1>3 DEF Cores

LEMMA ScanSettings ==
    ASSUME TypeOK, Settings, Lists, Scan
    PROVE  Settings'
<1>1. /\ 0 \in Cores /\ todo[0] # <<>> /\ Head(todo[0]).do = "scan"
      /\ todo' = [todo EXCEPT ![0] = Tail(@)]
  BY DEF Scan, Cores
<1>2. CASE Effect(Head(todo[0]))
  BY <1>1, <1>2, EffectSettings
<1>3. CASE UNCHANGED regs
  <2>0. SameSettings /\ todo'[0] = Tail(todo[0])
    BY <1>1, <1>3, TodoTypes DEF SameSettings
  <2>1. CASE \E k \in 1..19 : From0(OnStart, k) /\ Configured(k)
    <3>1. PICK k \in 1..19 : From0(OnStart, k) /\ Configured(k)
      BY <2>1
    <3>2. OnStart \in Seq(Transfers) /\ Len(OnStart) = 18 /\ k \in 1..(Len(OnStart) + 1)
      BY OnStartIs
    <3>3. k \in 1..18 /\ Head(todo[0]) = OnStart[k] /\ From0(OnStart, k + 1)'
      BY <1>1, <2>0, <3>1, <3>2, NextOfList
    <3>4. k \notin 4..9
      BY <1>1, <3>3, OnStartWrites
    <3>5. Configured(k)'
      BY <2>0, <3>1, SameConfigured
    <3>6. Configured(k + 1)' /\ k + 1 \in 1..19
      BY <3>3, <3>4, <3>5 DEF Configured
    <3>. QED
      BY <3>3, <3>6 DEF Settings
  <2>2. CASE \E k \in 1..9 : From0(GetChgDetails, k) /\ Configured(19)
    <3>1. PICK k \in 1..9 : From0(GetChgDetails, k) /\ Configured(19)
      BY <2>2
    <3>2. GetChgDetails \in Seq(Transfers) /\ Len(GetChgDetails) = 8
          /\ k \in 1..(Len(GetChgDetails) + 1)
      BY GetChgDetailsIs
    <3>3. k \in 1..8 /\ From0(GetChgDetails, k + 1)'
      BY <1>1, <2>0, <3>1, <3>2, NextOfList
    <3>4. Configured(19)' /\ k + 1 \in 1..9
      BY <2>0, <3>1, <3>3, SameConfigured
    <3>. QED
      BY <3>3, <3>4 DEF Settings
  <2>. QED
    BY <2>1, <2>2 DEF Settings
<1>. QED
  BY <1>2, <1>3 DEF Scan

LEMMA GetStateSettings ==
    ASSUME TypeOK, Settings, GetState
    PROVE  Settings'
<1>1. /\ todo[0] = <<>> /\ todo' = [todo EXCEPT ![0] = GetChgDetails] /\ UNCHANGED regs
  BY DEF GetState
<1>2. todo'[0] = GetChgDetails
  BY <1>1, TodoTypes DEF Cores
<1>3. Len(todo[0]) = 0
  BY <1>1
<1>4. Configured(19)
  BY <1>3, OnStartIs DEF Settings, From0
<1>5. Configured(19)'
  BY <1>1, <1>4 DEF Configured
<1>6. From0(GetChgDetails, 1)'
  <2>. DEFINE s == GetChgDetails
  <2>1. Len(s) = 8 /\ todo'[0] = s
    BY <1>2, GetChgDetailsIs
  <2>. HIDE DEF s
  <2>2. Len(s) = Len(s) + 1 - 1 /\ \A i \in 1..Len(s) : i + 1 - 1 = i
    BY <2>1
  <2>3. From0(s, 1)'
    BY <2>1, <2>2 DEF From0
  <2>. QED
    BY <2>3 DEF s
<1>. QED
  BY <1>5, <1>6 DEF Settings

LEMMA InitSettings == Init => SettingsInv
<1>. SUFFICES ASSUME Init PROVE Settings
  BY InitBus DEF SettingsInv
<1>. DEFINE s == OnStart
<1>1. todo[0] = s /\ Len(s) = 18
  BY OnStartIs DEF Init, Cores
<1>. HIDE DEF s
<1>2. Len(s) = Len(s) + 1 - 1 /\ \A i \in 1..Len(s) : i + 1 - 1 = i
  BY <1>1
<1>3. From0(s, 1)
  BY <1>1, <1>2 DEF From0
<1>4. Configured(1)
  BY DEF Configured
<1>. QED
  BY <1>3, <1>4 DEF Settings, s

LEMMA NextSettings == SettingsInv /\ [Next]_vars => SettingsInv'
<1>. SUFFICES ASSUME SettingsInv, [Next]_vars PROVE Settings'
  BY NextBus DEF SettingsInv
<1>0. TypeOK /\ Runs /\ Lists /\ Settings /\ todo \in [Cores -> Seq(Transfers)]
  BY TodoTypes DEF SettingsInv, BusInv
<1>1. ASSUME todo'[0] = todo[0], UNCHANGED regs PROVE Settings'
  BY <1>0, <1>1, SameCoreZero DEF SameSettings
<1>2. ASSUME NEW c \in Cores, EnterTry(c) PROVE Settings'
  BY <1>1, <1>2 DEF EnterTry
<1>3. ASSUME NEW c \in Cores, Succeed(c) PROVE Settings'
  BY <1>0, <1>3, EffectSettings DEF Succeed, Runs, At
<1>4. ASSUME NEW c \in Cores, Fail(c) PROVE Settings'
  <2>1. todo' = todo /\ todo[c] # <<>>
    BY <1>0, <1>4 DEF Fail, Runs, At
  <2>2. CASE Effect(Head(todo[c]))
    BY <1>0, <2>1, <2>2, EffectSettings
  <2>3. CASE UNCHANGED regs
    BY <1>1, <2>1, <2>3
  <2>. QED
    BY <1>4, <2>2, <2>3 DEF Fail
<1>5. CASE Core1Pop
  <2>1. todo'[0] = todo[0] /\ UNCHANGED regs
    BY <1>0, <1>5 DEF Core1Pop, Cores
  <2>. QED
    BY <1>1, <2>1
<1>6. CASE OnBatteryChargerInterrupt \/ Alarm \/ UNCHANGED vars
  BY <1>1, <1>6 DEF OnBatteryChargerInterrupt, Alarm, vars
<1>. QED
  BY <1>0, <1>2, <1>3, <1>4, <1>5, <1>6, ScanSettings, GetStateSettings
     DEF Next, Core0Step, Core1Step, CoreStep, Cores

LEMMA InvImpliesSettings == SettingsInv => SettingsHold
<1>. SUFFICES ASSUME SettingsInv, ~Configuring
              PROVE  Configured(19)
  BY DEF SettingsHold, Configured
<1>1. CASE \E k \in 1..9 : From0(GetChgDetails, k) /\ Configured(19)
  BY <1>1
<1>2. CASE \E k \in 1..19 : From0(OnStart, k) /\ Configured(k)
  <2>1. PICK k \in 1..19 : From0(OnStart, k) /\ Configured(k)
    BY <1>2
  <2>2. OnStart[9] = Transfer("write", CNFG_06, LOCKED) /\ Len(OnStart) = 18
    BY OnStartIs
  <2>3. OnStart[9].do = "write" /\ OnStart[9].reg # CHG_INT_MASK
    BY <2>2, RegistersDiffer DEF Transfer
  <2>4. ASSUME k \in 1..9 PROVE FALSE
    <3>1. Len(todo[0]) = 19 - k
      BY <2>1, <2>2 DEF From0
    <3>2. 10 - k \in 1..Len(todo[0]) /\ (10 - k) + k - 1 = 9
      BY <2>4, <3>1
    <3>3. todo[0][10 - k] = OnStart[9]
      BY <2>1, <3>2 DEF From0
    <3>. QED
      BY <2>3, <3>2, <3>3 DEF Configuring
  <2>. QED
    BY <2>1, <2>4 DEF Configured
<1>. QED
  BY <1>1, <1>2 DEF SettingsInv, Settings

\* For any MAX_RETRIES, whatever fails and is retried, and whatever core 1 does
\* meanwhile: after max77976_init's writes the charger has the settings it asked
\* for and is locked (max77976.c:164-197).
THEOREM SettingsAreKept == Spec => []SettingsHold
<1>. QED
  BY InitSettings, NextSettings, InvImpliesSettings, PTL DEF Spec
=============================================================================
