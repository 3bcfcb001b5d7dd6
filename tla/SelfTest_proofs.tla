--------------------------- MODULE SelfTest_proofs ---------------------------
(***************************************************************************)
(* Proofs about the self-tests of SelfTest, for every number of events.    *)
(* The program of core 0 is laid out statement by statement first, so that *)
(* an action is known to happen at a few places only.  Then the types; the *)
(* pins and flags that belong to each place (Position); and, for each of   *)
(* the properties, the invariant that makes it inductive: Rounds for the   *)
(* order of handler and response, EdgeInv for the edge that must be        *)
(* answered, FaultTold for what a core may clear.                          *)
(***************************************************************************)
EXTENDS SelfTest, SequenceTheorems, TLAPS

-----------------------------------------------------------------------------
(* The program, statement by statement. *)

Statements == {"fill_all", "send", "start", "drive", "await", "release", "stop",
               "reset", "fill_some", "mask", "point", "check", "unmask", "high",
               "clear", "select", "verify", "fetch", "move", "fill_reg", "aim",
               "ask", "read"}
Steps == [do : Statements, on : Pins]

LEMMA ThePins ==
    /\ "INTB" \in Pins /\ "IRQB" \in Pins /\ "FLAG" \in Pins
    /\ "FAULT1" \in Pins /\ "FAULT2" \in Pins
BY DEF Pins, AlarmPins, FaultPins

LEMMA StepIs ==
    ASSUME NEW do \in Statements, NEW p \in Pins
    PROVE  Step(do, p) \in Steps
BY DEF Step, Steps

\* One list after another: the elements of both keep their order.
Joins(u, s, t) ==
    /\ u \in Seq(Steps)
    /\ Len(u) = Len(s) + Len(t)
    /\ \A i \in 1..Len(s) : u[i] = s[i]
    /\ \A i \in 1..Len(t), j \in Int : j = Len(s) + i => u[j] = t[i]

LEMMA After ==
    ASSUME NEW s \in Seq(Steps), NEW t \in Seq(Steps)
    PROVE  Joins(s \o t, s, t)
<1>1. \A i \in 1..Len(t) : Len(s) + i \in 1..(Len(s) + Len(t)) /\ ~(Len(s) + i <= Len(s))
                           /\ (Len(s) + i) - Len(s) = i
  OBVIOUS
<1>2. \A i \in 1..Len(s) : i \in 1..(Len(s) + Len(t)) /\ i <= Len(s)
  OBVIOUS
<1>. QED
  BY <1>1, <1>2, ConcatProperties DEF Joins

Body(p) == <<Step("start", p), Step("drive", p), Step("await", p),
             Step("release", p), Step("stop", p), Step("reset", p)>>

LEMMA BodyIs ==
    ASSUME NEW p \in Pins
    PROVE  /\ Body(p) \in Seq(Steps) /\ Len(Body(p)) = 6
           /\ Body(p)[1] = Step("start", p) /\ Body(p)[2] = Step("drive", p)
           /\ Body(p)[3] = Step("await", p) /\ Body(p)[4] = Step("release", p)
           /\ Body(p)[5] = Step("stop", p) /\ Body(p)[6] = Step("reset", p)
<1>1. /\ Step("start", p) \in Steps /\ Step("drive", p) \in Steps /\ Step("await", p) \in Steps
      /\ Step("release", p) \in Steps /\ Step("stop", p) \in Steps /\ Step("reset", p) \in Steps
  BY StepIs DEF Statements
<1>. QED
  BY <1>1 DEF Body

LEMMA AllMaskedINTB ==
    /\ AllMasked("INTB") \in Seq(Steps) /\ Len(AllMasked("INTB")) = 2
    /\ AllMasked("INTB")[1] = Step("fill_all", "INTB")
    /\ AllMasked("INTB")[2] = Step("send", "INTB")
<1>1. /\ Step("fill_all", "INTB") \in Steps /\ Step("send", "INTB") \in Steps
  BY StepIs, ThePins DEF Statements
<1>. QED
  BY <1>1 DEF AllMasked

LEMMA UnmaskedINTB ==
    /\ Unmasked("INTB") \in Seq(Steps) /\ Len(Unmasked("INTB")) = 2
    /\ Unmasked("INTB")[1] = Step("fill_some", "INTB")
    /\ Unmasked("INTB")[2] = Step("send", "INTB")
<1>1. /\ Step("fill_some", "INTB") \in Steps /\ Step("send", "INTB") \in Steps
  BY StepIs, ThePins DEF Statements
<1>. QED
  BY <1>1 DEF Unmasked

LEMMA AllMaskedIRQB ==
    /\ AllMasked("IRQB") \in Seq(Steps) /\ Len(AllMasked("IRQB")) = 1
    /\ AllMasked("IRQB")[1] = Step("mask", "IRQB")
<1>1. /\ Step("mask", "IRQB") \in Steps
  BY StepIs, ThePins DEF Statements
<1>. QED
  BY <1>1 DEF AllMasked

LEMMA UnmaskedIRQB ==
    /\ Unmasked("IRQB") \in Seq(Steps) /\ Len(Unmasked("IRQB")) = 1
    /\ Unmasked("IRQB")[1] = Step("unmask", "IRQB")
<1>1. /\ Step("unmask", "IRQB") \in Steps
  BY StepIs, ThePins DEF Statements
<1>. QED
  BY <1>1 DEF Unmasked

LEMMA MaskedTestINTB ==
    /\ MaskedTest("INTB") \in Seq(Steps) /\ Len(MaskedTest("INTB")) = 10
    /\ MaskedTest("INTB")[1] = Step("fill_all", "INTB")
    /\ MaskedTest("INTB")[2] = Step("send", "INTB")
    /\ MaskedTest("INTB")[3] = Step("start", "INTB")
    /\ MaskedTest("INTB")[4] = Step("drive", "INTB")
    /\ MaskedTest("INTB")[5] = Step("await", "INTB")
    /\ MaskedTest("INTB")[6] = Step("release", "INTB")
    /\ MaskedTest("INTB")[7] = Step("stop", "INTB")
    /\ MaskedTest("INTB")[8] = Step("reset", "INTB")
    /\ MaskedTest("INTB")[9] = Step("fill_some", "INTB")
    /\ MaskedTest("INTB")[10] = Step("send", "INTB")
<1>. DEFINE p1 == AllMasked("INTB")
            p2 == Body("INTB")
            p3 == Unmasked("INTB")
            b2 == p1 \o p2
            b3 == b2 \o p3
<1>1. /\ p1 \in Seq(Steps) /\ Len(p1) = 2
      /\ p1[1] = Step("fill_all", "INTB") /\ p1[2] = Step("send", "INTB")
  BY AllMaskedINTB, ThePins
<1>2. /\ p2 \in Seq(Steps) /\ Len(p2) = 6
      /\ p2[1] = Step("start", "INTB") /\ p2[2] = Step("drive", "INTB")
      /\ p2[3] = Step("await", "INTB") /\ p2[4] = Step("release", "INTB")
      /\ p2[5] = Step("stop", "INTB") /\ p2[6] = Step("reset", "INTB")
  BY BodyIs, ThePins
<1>3. /\ p3 \in Seq(Steps) /\ Len(p3) = 2
      /\ p3[1] = Step("fill_some", "INTB") /\ p3[2] = Step("send", "INTB")
  BY UnmaskedINTB, ThePins
<1>4. MaskedTest("INTB") = b3
  BY DEF MaskedTest, Body
<1>. HIDE DEF p1, p2, p3
<1>5. /\ b2 = p1 \o p2 /\ b3 = b2 \o p3
  OBVIOUS
<1>. HIDE DEF b2, b3
<1>6. /\ b2 \in Seq(Steps) /\ Len(b2) = 8
      /\ b2[3] = Step("start", "INTB") /\ b2[4] = Step("drive", "INTB")
      /\ b2[5] = Step("await", "INTB") /\ b2[6] = Step("release", "INTB")
      /\ b2[7] = Step("stop", "INTB") /\ b2[8] = Step("reset", "INTB")
      /\ \A i \in 1..2 : b2[i] = p1[i]
  <2>1. Joins(b2, p1, p2)
    BY <1>1, <1>2, <1>5, After
  <2>. QED
    BY <1>1, <1>2, <2>1 DEF Joins
<1>7. /\ b3 \in Seq(Steps) /\ Len(b3) = 10
      /\ b3[9] = Step("fill_some", "INTB") /\ b3[10] = Step("send", "INTB")
      /\ \A i \in 1..8 : b3[i] = b2[i]
  <2>1. Joins(b3, b2, p3)
    BY <1>6, <1>3, <1>5, After
  <2>. QED
    BY <1>6, <1>3, <2>1 DEF Joins
<1>. QED
  BY <1>4, <1>1, <1>6, <1>7

LEMMA MaskedTestIRQB ==
    /\ MaskedTest("IRQB") \in Seq(Steps) /\ Len(MaskedTest("IRQB")) = 8
    /\ MaskedTest("IRQB")[1] = Step("mask", "IRQB")
    /\ MaskedTest("IRQB")[2] = Step("start", "IRQB")
    /\ MaskedTest("IRQB")[3] = Step("drive", "IRQB")
    /\ MaskedTest("IRQB")[4] = Step("await", "IRQB")
    /\ MaskedTest("IRQB")[5] = Step("release", "IRQB")
    /\ MaskedTest("IRQB")[6] = Step("stop", "IRQB")
    /\ MaskedTest("IRQB")[7] = Step("reset", "IRQB")
    /\ MaskedTest("IRQB")[8] = Step("unmask", "IRQB")
<1>. DEFINE p1 == AllMasked("IRQB")
            p2 == Body("IRQB")
            p3 == Unmasked("IRQB")
            b2 == p1 \o p2
            b3 == b2 \o p3
<1>1. /\ p1 \in Seq(Steps) /\ Len(p1) = 1
      /\ p1[1] = Step("mask", "IRQB")
  BY AllMaskedIRQB, ThePins
<1>2. /\ p2 \in Seq(Steps) /\ Len(p2) = 6
      /\ p2[1] = Step("start", "IRQB") /\ p2[2] = Step("drive", "IRQB")
      /\ p2[3] = Step("await", "IRQB") /\ p2[4] = Step("release", "IRQB")
      /\ p2[5] = Step("stop", "IRQB") /\ p2[6] = Step("reset", "IRQB")
  BY BodyIs, ThePins
<1>3. /\ p3 \in Seq(Steps) /\ Len(p3) = 1
      /\ p3[1] = Step("unmask", "IRQB")
  BY UnmaskedIRQB, ThePins
<1>4. MaskedTest("IRQB") = b3
  BY DEF MaskedTest, Body
<1>. HIDE DEF p1, p2, p3
<1>5. /\ b2 = p1 \o p2 /\ b3 = b2 \o p3
  OBVIOUS
<1>. HIDE DEF b2, b3
<1>6. /\ b2 \in Seq(Steps) /\ Len(b2) = 7
      /\ b2[2] = Step("start", "IRQB") /\ b2[3] = Step("drive", "IRQB")
      /\ b2[4] = Step("await", "IRQB") /\ b2[5] = Step("release", "IRQB")
      /\ b2[6] = Step("stop", "IRQB") /\ b2[7] = Step("reset", "IRQB")
      /\ \A i \in 1..1 : b2[i] = p1[i]
  <2>1. Joins(b2, p1, p2)
    BY <1>1, <1>2, <1>5, After
  <2>. QED
    BY <1>1, <1>2, <2>1 DEF Joins
<1>7. /\ b3 \in Seq(Steps) /\ Len(b3) = 8
      /\ b3[8] = Step("unmask", "IRQB")
      /\ \A i \in 1..7 : b3[i] = b2[i]
  <2>1. Joins(b3, b2, p3)
    BY <1>6, <1>3, <1>5, After
  <2>. QED
    BY <1>6, <1>3, <2>1 DEF Joins
<1>. QED
  BY <1>4, <1>1, <1>6, <1>7

LEMMA TestRegisterIs ==
    /\ TestRegister \in Seq(Steps) /\ Len(TestRegister) = 4
    /\ TestRegister[1] = Step("mask", "IRQB") /\ TestRegister[2] = Step("point", "IRQB")
    /\ TestRegister[3] = Step("check", "IRQB") /\ TestRegister[4] = Step("unmask", "IRQB")
<1>1. /\ Step("mask", "IRQB") \in Steps /\ Step("point", "IRQB") \in Steps
      /\ Step("check", "IRQB") \in Steps /\ Step("unmask", "IRQB") \in Steps
  BY StepIs, ThePins DEF Statements
<1>. QED
  BY <1>1 DEF TestRegister

LEMMA TestMAX77976Is ==
    /\ TestMAX77976 \in Seq(Steps) /\ Len(TestMAX77976) = 16
    /\ TestMAX77976[1] = Step("mask", "IRQB") /\ TestMAX77976[2] = Step("point", "IRQB")
    /\ TestMAX77976[3] = Step("check", "IRQB") /\ TestMAX77976[4] = Step("unmask", "IRQB")
    /\ TestMAX77976[5] = Step("mask", "IRQB") /\ TestMAX77976[6] = Step("point", "IRQB")
    /\ TestMAX77976[7] = Step("check", "IRQB") /\ TestMAX77976[8] = Step("unmask", "IRQB")
    /\ TestMAX77976[9] = Step("mask", "IRQB") /\ TestMAX77976[10] = Step("start", "IRQB")
    /\ TestMAX77976[11] = Step("drive", "IRQB") /\ TestMAX77976[12] = Step("await", "IRQB")
    /\ TestMAX77976[13] = Step("release", "IRQB") /\ TestMAX77976[14] = Step("stop", "IRQB")
    /\ TestMAX77976[15] = Step("reset", "IRQB") /\ TestMAX77976[16] = Step("unmask", "IRQB")
<1>. DEFINE p1 == TestRegister
            p2 == TestRegister
            p3 == MaskedTest("IRQB")
            b2 == p1 \o p2
            b3 == b2 \o p3
<1>1. /\ p1 \in Seq(Steps) /\ Len(p1) = 4
      /\ p1[1] = Step("mask", "IRQB") /\ p1[2] = Step("point", "IRQB")
      /\ p1[3] = Step("check", "IRQB") /\ p1[4] = Step("unmask", "IRQB")
  BY TestRegisterIs, ThePins
<1>2. /\ p2 \in Seq(Steps) /\ Len(p2) = 4
      /\ p2[1] = Step("mask", "IRQB") /\ p2[2] = Step("point", "IRQB")
      /\ p2[3] = Step("check", "IRQB") /\ p2[4] = Step("unmask", "IRQB")
  BY TestRegisterIs, ThePins
<1>3. /\ p3 \in Seq(Steps) /\ Len(p3) = 8
      /\ p3[1] = Step("mask", "IRQB") /\ p3[2] = Step("start", "IRQB")
      /\ p3[3] = Step("drive", "IRQB") /\ p3[4] = Step("await", "IRQB")
      /\ p3[5] = Step("release", "IRQB") /\ p3[6] = Step("stop", "IRQB")
      /\ p3[7] = Step("reset", "IRQB") /\ p3[8] = Step("unmask", "IRQB")
  BY MaskedTestIRQB, ThePins
<1>4. TestMAX77976 = b3
  BY DEF TestMAX77976
<1>. HIDE DEF p1, p2, p3
<1>5. /\ b2 = p1 \o p2 /\ b3 = b2 \o p3
  OBVIOUS
<1>. HIDE DEF b2, b3
<1>6. /\ b2 \in Seq(Steps) /\ Len(b2) = 8
      /\ b2[5] = Step("mask", "IRQB") /\ b2[6] = Step("point", "IRQB")
      /\ b2[7] = Step("check", "IRQB") /\ b2[8] = Step("unmask", "IRQB")
      /\ \A i \in 1..4 : b2[i] = p1[i]
  <2>1. Joins(b2, p1, p2)
    BY <1>1, <1>2, <1>5, After
  <2>. QED
    BY <1>1, <1>2, <2>1 DEF Joins
<1>7. /\ b3 \in Seq(Steps) /\ Len(b3) = 16
      /\ b3[9] = Step("mask", "IRQB") /\ b3[10] = Step("start", "IRQB")
      /\ b3[11] = Step("drive", "IRQB") /\ b3[12] = Step("await", "IRQB")
      /\ b3[13] = Step("release", "IRQB") /\ b3[14] = Step("stop", "IRQB")
      /\ b3[15] = Step("reset", "IRQB") /\ b3[16] = Step("unmask", "IRQB")
      /\ \A i \in 1..8 : b3[i] = b2[i]
  <2>1. Joins(b3, b2, p3)
    BY <1>6, <1>3, <1>5, After
  <2>. QED
    BY <1>6, <1>3, <2>1 DEF Joins
<1>. QED
  BY <1>4, <1>1, <1>6, <1>7

LEMMA TestNCP3901Is ==
    /\ TestNCP3901 \in Seq(Steps) /\ Len(TestNCP3901) = 9
    /\ TestNCP3901[1] = Step("start", "FLAG") /\ TestNCP3901[2] = Step("drive", "FLAG")
    /\ TestNCP3901[3] = Step("await", "FLAG") /\ TestNCP3901[4] = Step("stop", "FLAG")
    /\ TestNCP3901[5] = Step("reset", "FLAG") /\ TestNCP3901[6] = Step("start", "FLAG")
    /\ TestNCP3901[7] = Step("release", "FLAG") /\ TestNCP3901[8] = Step("high", "FLAG")
    /\ TestNCP3901[9] = Step("await", "FLAG")
<1>1. /\ Step("start", "FLAG") \in Steps /\ Step("drive", "FLAG") \in Steps
      /\ Step("await", "FLAG") \in Steps /\ Step("stop", "FLAG") \in Steps
      /\ Step("reset", "FLAG") \in Steps /\ Step("release", "FLAG") \in Steps
      /\ Step("high", "FLAG") \in Steps
  BY StepIs, ThePins DEF Statements
<1>. QED
  BY <1>1 DEF TestNCP3901

Clear(p) == <<Step("clear", p), Step("select", p), Step("verify", p)>>

LEMMA ClearIs ==
    ASSUME NEW p \in Pins
    PROVE  /\ Clear(p) \in Seq(Steps) /\ Len(Clear(p)) = 3
           /\ Clear(p)[1] = Step("clear", p) /\ Clear(p)[2] = Step("select", p)
           /\ Clear(p)[3] = Step("verify", p)
<1>1. /\ Step("clear", p) \in Steps /\ Step("select", p) \in Steps
      /\ Step("verify", p) \in Steps
  BY StepIs DEF Statements
<1>. QED
  BY <1>1 DEF Clear

LEMMA ClearFaultsIs ==
    /\ ClearFaults \in Seq(Steps) /\ Len(ClearFaults) = 6
    /\ ClearFaults[1] = Step("clear", "FAULT1") /\ ClearFaults[2] = Step("select", "FAULT1")
    /\ ClearFaults[3] = Step("verify", "FAULT1") /\ ClearFaults[4] = Step("clear", "FAULT2")
    /\ ClearFaults[5] = Step("select", "FAULT2") /\ ClearFaults[6] = Step("verify", "FAULT2")
<1>. DEFINE p1 == Clear("FAULT1")
            p2 == Clear("FAULT2")
            b2 == p1 \o p2
<1>1. /\ p1 \in Seq(Steps) /\ Len(p1) = 3
      /\ p1[1] = Step("clear", "FAULT1") /\ p1[2] = Step("select", "FAULT1")
      /\ p1[3] = Step("verify", "FAULT1")
  BY ClearIs, ThePins
<1>2. /\ p2 \in Seq(Steps) /\ Len(p2) = 3
      /\ p2[1] = Step("clear", "FAULT2") /\ p2[2] = Step("select", "FAULT2")
      /\ p2[3] = Step("verify", "FAULT2")
  BY ClearIs, ThePins
<1>3. ClearFaults = b2
  BY DEF ClearFaults, Clear
<1>. HIDE DEF p1, p2
<1>4. /\ b2 = p1 \o p2
  OBVIOUS
<1>. HIDE DEF b2
<1>5. /\ b2 \in Seq(Steps) /\ Len(b2) = 6
      /\ b2[4] = Step("clear", "FAULT2") /\ b2[5] = Step("select", "FAULT2")
      /\ b2[6] = Step("verify", "FAULT2")
      /\ \A i \in 1..3 : b2[i] = p1[i]
  <2>1. Joins(b2, p1, p2)
    BY <1>1, <1>2, <1>4, After
  <2>. QED
    BY <1>1, <1>2, <2>1 DEF Joins
<1>. QED
  BY <1>3, <1>1, <1>5

Round(p) == <<Step("start", p), Step("drive", p), Step("await", p),
              Step("release", p), Step("stop", p)>>

LEMMA RoundIs ==
    ASSUME NEW p \in Pins
    PROVE  /\ Round(p) \in Seq(Steps) /\ Len(Round(p)) = 5
           /\ Round(p)[1] = Step("start", p) /\ Round(p)[2] = Step("drive", p)
           /\ Round(p)[3] = Step("await", p) /\ Round(p)[4] = Step("release", p)
           /\ Round(p)[5] = Step("stop", p)
<1>1. /\ Step("start", p) \in Steps /\ Step("drive", p) \in Steps /\ Step("await", p) \in Steps
      /\ Step("release", p) \in Steps /\ Step("stop", p) \in Steps
  BY StepIs DEF Statements
<1>. QED
  BY <1>1 DEF Round

LEMMA ResetIs ==
    /\ <<Step("reset", "FAULT1")>> \in Seq(Steps) /\ Len(<<Step("reset", "FAULT1")>>) = 1
    /\ <<Step("reset", "FAULT1")>>[1] = Step("reset", "FAULT1")
<1>1. /\ Step("reset", "FAULT1") \in Steps
  BY StepIs, ThePins DEF Statements
<1>. QED
  BY <1>1

LEMMA TestDRV8830Is ==
    /\ TestDRV8830 \in Seq(Steps) /\ Len(TestDRV8830) = 11
    /\ TestDRV8830[1] = Step("start", "FAULT1") /\ TestDRV8830[2] = Step("drive", "FAULT1")
    /\ TestDRV8830[3] = Step("await", "FAULT1") /\ TestDRV8830[4] = Step("release", "FAULT1")
    /\ TestDRV8830[5] = Step("stop", "FAULT1") /\ TestDRV8830[6] = Step("reset", "FAULT1")
    /\ TestDRV8830[7] = Step("start", "FAULT2") /\ TestDRV8830[8] = Step("drive", "FAULT2")
    /\ TestDRV8830[9] = Step("await", "FAULT2") /\ TestDRV8830[10] = Step("release", "FAULT2")
    /\ TestDRV8830[11] = Step("stop", "FAULT2")
<1>. DEFINE p1 == Round("FAULT1")
            p2 == <<Step("reset", "FAULT1")>>
            p3 == Round("FAULT2")
            b2 == p1 \o p2
            b3 == b2 \o p3
<1>1. /\ p1 \in Seq(Steps) /\ Len(p1) = 5
      /\ p1[1] = Step("start", "FAULT1") /\ p1[2] = Step("drive", "FAULT1")
      /\ p1[3] = Step("await", "FAULT1") /\ p1[4] = Step("release", "FAULT1")
      /\ p1[5] = Step("stop", "FAULT1")
  BY RoundIs, ThePins
<1>2. /\ p2 \in Seq(Steps) /\ Len(p2) = 1
      /\ p2[1] = Step("reset", "FAULT1")
  BY ResetIs, ThePins
<1>3. /\ p3 \in Seq(Steps) /\ Len(p3) = 5
      /\ p3[1] = Step("start", "FAULT2") /\ p3[2] = Step("drive", "FAULT2")
      /\ p3[3] = Step("await", "FAULT2") /\ p3[4] = Step("release", "FAULT2")
      /\ p3[5] = Step("stop", "FAULT2")
  BY RoundIs, ThePins
<1>4. TestDRV8830 = b3
  BY DEF TestDRV8830, Round
<1>. HIDE DEF p1, p2, p3
<1>5. /\ b2 = p1 \o p2 /\ b3 = b2 \o p3
  OBVIOUS
<1>. HIDE DEF b2, b3
<1>6. /\ b2 \in Seq(Steps) /\ Len(b2) = 6
      /\ b2[6] = Step("reset", "FAULT1")
      /\ \A i \in 1..5 : b2[i] = p1[i]
  <2>1. Joins(b2, p1, p2)
    BY <1>1, <1>2, <1>5, After
  <2>. QED
    BY <1>1, <1>2, <2>1 DEF Joins
<1>7. /\ b3 \in Seq(Steps) /\ Len(b3) = 11
      /\ b3[7] = Step("start", "FAULT2") /\ b3[8] = Step("drive", "FAULT2")
      /\ b3[9] = Step("await", "FAULT2") /\ b3[10] = Step("release", "FAULT2")
      /\ b3[11] = Step("stop", "FAULT2")
      /\ \A i \in 1..6 : b3[i] = b2[i]
  <2>1. Joins(b3, b2, p3)
    BY <1>6, <1>3, <1>5, After
  <2>. QED
    BY <1>6, <1>3, <2>1 DEF Joins
<1>. QED
  BY <1>4, <1>1, <1>6, <1>7

LEMMA RobotUnitTestsIs ==
    /\ RobotUnitTests \in Seq(Steps) /\ Len(RobotUnitTests) = 52
    /\ RobotUnitTests[1] = Step("fill_all", "INTB") /\ RobotUnitTests[2] = Step("send", "INTB")
    /\ RobotUnitTests[3] = Step("start", "INTB") /\ RobotUnitTests[4] = Step("drive", "INTB")
    /\ RobotUnitTests[5] = Step("await", "INTB") /\ RobotUnitTests[6] = Step("release", "INTB")
    /\ RobotUnitTests[7] = Step("stop", "INTB") /\ RobotUnitTests[8] = Step("reset", "INTB")
    /\ RobotUnitTests[9] = Step("fill_some", "INTB")
    /\ RobotUnitTests[10] = Step("send", "INTB") /\ RobotUnitTests[11] = Step("mask", "IRQB")
    /\ RobotUnitTests[12] = Step("point", "IRQB") /\ RobotUnitTests[13] = Step("check", "IRQB")
    /\ RobotUnitTests[14] = Step("unmask", "IRQB") /\ RobotUnitTests[15] = Step("mask", "IRQB")
    /\ RobotUnitTests[16] = Step("point", "IRQB") /\ RobotUnitTests[17] = Step("check", "IRQB")
    /\ RobotUnitTests[18] = Step("unmask", "IRQB") /\ RobotUnitTests[19] = Step("mask", "IRQB")
    /\ RobotUnitTests[20] = Step("start", "IRQB") /\ RobotUnitTests[21] = Step("drive", "IRQB")
    /\ RobotUnitTests[22] = Step("await", "IRQB")
    /\ RobotUnitTests[23] = Step("release", "IRQB") /\ RobotUnitTests[24] = Step("stop", "IRQB")
    /\ RobotUnitTests[25] = Step("reset", "IRQB") /\ RobotUnitTests[26] = Step("unmask", "IRQB")
    /\ RobotUnitTests[27] = Step("start", "FLAG") /\ RobotUnitTests[28] = Step("drive", "FLAG")
    /\ RobotUnitTests[29] = Step("await", "FLAG") /\ RobotUnitTests[30] = Step("stop", "FLAG")
    /\ RobotUnitTests[31] = Step("reset", "FLAG") /\ RobotUnitTests[32] = Step("start", "FLAG")
    /\ RobotUnitTests[33] = Step("release", "FLAG") /\ RobotUnitTests[34] = Step("high", "FLAG")
    /\ RobotUnitTests[35] = Step("await", "FLAG")
    /\ RobotUnitTests[36] = Step("clear", "FAULT1")
    /\ RobotUnitTests[37] = Step("select", "FAULT1")
    /\ RobotUnitTests[38] = Step("verify", "FAULT1")
    /\ RobotUnitTests[39] = Step("clear", "FAULT2")
    /\ RobotUnitTests[40] = Step("select", "FAULT2")
    /\ RobotUnitTests[41] = Step("verify", "FAULT2")
    /\ RobotUnitTests[42] = Step("start", "FAULT1")
    /\ RobotUnitTests[43] = Step("drive", "FAULT1")
    /\ RobotUnitTests[44] = Step("await", "FAULT1")
    /\ RobotUnitTests[45] = Step("release", "FAULT1")
    /\ RobotUnitTests[46] = Step("stop", "FAULT1")
    /\ RobotUnitTests[47] = Step("reset", "FAULT1")
    /\ RobotUnitTests[48] = Step("start", "FAULT2")
    /\ RobotUnitTests[49] = Step("drive", "FAULT2")
    /\ RobotUnitTests[50] = Step("await", "FAULT2")
    /\ RobotUnitTests[51] = Step("release", "FAULT2")
    /\ RobotUnitTests[52] = Step("stop", "FAULT2")
<1>. DEFINE p1 == MaskedTest("INTB")
            p2 == TestMAX77976
            p3 == TestNCP3901
            p4 == ClearFaults
            p5 == TestDRV8830
            b2 == p1 \o p2
            b3 == b2 \o p3
            b4 == b3 \o p4
            b5 == b4 \o p5
<1>1. /\ p1 \in Seq(Steps) /\ Len(p1) = 10
      /\ p1[1] = Step("fill_all", "INTB") /\ p1[2] = Step("send", "INTB")
      /\ p1[3] = Step("start", "INTB") /\ p1[4] = Step("drive", "INTB")
      /\ p1[5] = Step("await", "INTB") /\ p1[6] = Step("release", "INTB")
      /\ p1[7] = Step("stop", "INTB") /\ p1[8] = Step("reset", "INTB")
      /\ p1[9] = Step("fill_some", "INTB") /\ p1[10] = Step("send", "INTB")
  BY MaskedTestINTB, ThePins
<1>2. /\ p2 \in Seq(Steps) /\ Len(p2) = 16
      /\ p2[1] = Step("mask", "IRQB") /\ p2[2] = Step("point", "IRQB")
      /\ p2[3] = Step("check", "IRQB") /\ p2[4] = Step("unmask", "IRQB")
      /\ p2[5] = Step("mask", "IRQB") /\ p2[6] = Step("point", "IRQB")
      /\ p2[7] = Step("check", "IRQB") /\ p2[8] = Step("unmask", "IRQB")
      /\ p2[9] = Step("mask", "IRQB") /\ p2[10] = Step("start", "IRQB")
      /\ p2[11] = Step("drive", "IRQB") /\ p2[12] = Step("await", "IRQB")
      /\ p2[13] = Step("release", "IRQB") /\ p2[14] = Step("stop", "IRQB")
      /\ p2[15] = Step("reset", "IRQB") /\ p2[16] = Step("unmask", "IRQB")
  BY TestMAX77976Is, ThePins
<1>3. /\ p3 \in Seq(Steps) /\ Len(p3) = 9
      /\ p3[1] = Step("start", "FLAG") /\ p3[2] = Step("drive", "FLAG")
      /\ p3[3] = Step("await", "FLAG") /\ p3[4] = Step("stop", "FLAG")
      /\ p3[5] = Step("reset", "FLAG") /\ p3[6] = Step("start", "FLAG")
      /\ p3[7] = Step("release", "FLAG") /\ p3[8] = Step("high", "FLAG")
      /\ p3[9] = Step("await", "FLAG")
  BY TestNCP3901Is, ThePins
<1>4. /\ p4 \in Seq(Steps) /\ Len(p4) = 6
      /\ p4[1] = Step("clear", "FAULT1") /\ p4[2] = Step("select", "FAULT1")
      /\ p4[3] = Step("verify", "FAULT1") /\ p4[4] = Step("clear", "FAULT2")
      /\ p4[5] = Step("select", "FAULT2") /\ p4[6] = Step("verify", "FAULT2")
  BY ClearFaultsIs, ThePins
<1>5. /\ p5 \in Seq(Steps) /\ Len(p5) = 11
      /\ p5[1] = Step("start", "FAULT1") /\ p5[2] = Step("drive", "FAULT1")
      /\ p5[3] = Step("await", "FAULT1") /\ p5[4] = Step("release", "FAULT1")
      /\ p5[5] = Step("stop", "FAULT1") /\ p5[6] = Step("reset", "FAULT1")
      /\ p5[7] = Step("start", "FAULT2") /\ p5[8] = Step("drive", "FAULT2")
      /\ p5[9] = Step("await", "FAULT2") /\ p5[10] = Step("release", "FAULT2")
      /\ p5[11] = Step("stop", "FAULT2")
  BY TestDRV8830Is, ThePins
<1>6. RobotUnitTests = b5
  BY DEF RobotUnitTests, TestMAX77958
<1>. HIDE DEF p1, p2, p3, p4, p5
<1>7. /\ b2 = p1 \o p2 /\ b3 = b2 \o p3 /\ b4 = b3 \o p4 /\ b5 = b4 \o p5
  OBVIOUS
<1>. HIDE DEF b2, b3, b4, b5
<1>8. /\ b2 \in Seq(Steps) /\ Len(b2) = 26
      /\ b2[11] = Step("mask", "IRQB") /\ b2[12] = Step("point", "IRQB")
      /\ b2[13] = Step("check", "IRQB") /\ b2[14] = Step("unmask", "IRQB")
      /\ b2[15] = Step("mask", "IRQB") /\ b2[16] = Step("point", "IRQB")
      /\ b2[17] = Step("check", "IRQB") /\ b2[18] = Step("unmask", "IRQB")
      /\ b2[19] = Step("mask", "IRQB") /\ b2[20] = Step("start", "IRQB")
      /\ b2[21] = Step("drive", "IRQB") /\ b2[22] = Step("await", "IRQB")
      /\ b2[23] = Step("release", "IRQB") /\ b2[24] = Step("stop", "IRQB")
      /\ b2[25] = Step("reset", "IRQB") /\ b2[26] = Step("unmask", "IRQB")
      /\ \A i \in 1..10 : b2[i] = p1[i]
  <2>1. Joins(b2, p1, p2)
    BY <1>1, <1>2, <1>7, After
  <2>. QED
    BY <1>1, <1>2, <2>1 DEF Joins
<1>9. /\ b3 \in Seq(Steps) /\ Len(b3) = 35
      /\ b3[27] = Step("start", "FLAG") /\ b3[28] = Step("drive", "FLAG")
      /\ b3[29] = Step("await", "FLAG") /\ b3[30] = Step("stop", "FLAG")
      /\ b3[31] = Step("reset", "FLAG") /\ b3[32] = Step("start", "FLAG")
      /\ b3[33] = Step("release", "FLAG") /\ b3[34] = Step("high", "FLAG")
      /\ b3[35] = Step("await", "FLAG")
      /\ \A i \in 1..26 : b3[i] = b2[i]
  <2>1. Joins(b3, b2, p3)
    BY <1>8, <1>3, <1>7, After
  <2>. QED
    BY <1>8, <1>3, <2>1 DEF Joins
<1>10. /\ b4 \in Seq(Steps) /\ Len(b4) = 41
      /\ b4[36] = Step("clear", "FAULT1") /\ b4[37] = Step("select", "FAULT1")
      /\ b4[38] = Step("verify", "FAULT1") /\ b4[39] = Step("clear", "FAULT2")
      /\ b4[40] = Step("select", "FAULT2") /\ b4[41] = Step("verify", "FAULT2")
      /\ \A i \in 1..35 : b4[i] = b3[i]
  <2>1. Joins(b4, b3, p4)
    BY <1>9, <1>4, <1>7, After
  <2>. QED
    BY <1>9, <1>4, <2>1 DEF Joins
<1>11. /\ b5 \in Seq(Steps) /\ Len(b5) = 52
      /\ b5[42] = Step("start", "FAULT1") /\ b5[43] = Step("drive", "FAULT1")
      /\ b5[44] = Step("await", "FAULT1") /\ b5[45] = Step("release", "FAULT1")
      /\ b5[46] = Step("stop", "FAULT1") /\ b5[47] = Step("reset", "FAULT1")
      /\ b5[48] = Step("start", "FAULT2") /\ b5[49] = Step("drive", "FAULT2")
      /\ b5[50] = Step("await", "FAULT2") /\ b5[51] = Step("release", "FAULT2")
      /\ b5[52] = Step("stop", "FAULT2")
      /\ \A i \in 1..41 : b5[i] = b4[i]
  <2>1. Joins(b5, b4, p5)
    BY <1>10, <1>5, <1>7, After
  <2>. QED
    BY <1>10, <1>5, <2>1 DEF Joins
<1>. QED
  BY <1>6, <1>1, <1>8, <1>9, <1>10, <1>11

LEMMA EndOfStartIs ==
    /\ EndOfStart \in Seq(Steps) /\ Len(EndOfStart) = 7
    /\ EndOfStart[1] = Step("fetch", "INTB") /\ EndOfStart[2] = Step("fetch", "IRQB")
    /\ EndOfStart[3] = Step("move", "FAULT1") /\ EndOfStart[4] = Step("move", "FAULT2")
    /\ EndOfStart[5] = Step("fill_reg", "INTB") /\ EndOfStart[6] = Step("aim", "INTB")
    /\ EndOfStart[7] = Step("fetch", "INTB")
<1>1. /\ Step("fetch", "INTB") \in Steps /\ Step("fetch", "IRQB") \in Steps
      /\ Step("move", "FAULT1") \in Steps /\ Step("move", "FAULT2") \in Steps
      /\ Step("fill_reg", "INTB") \in Steps /\ Step("aim", "INTB") \in Steps
  BY StepIs, ThePins DEF Statements
<1>. QED
  BY <1>1 DEF EndOfStart

LEMMA AskIs ==
    /\ <<Step("ask", "FLAG")>> \in Seq(Steps) /\ Len(<<Step("ask", "FLAG")>>) = 1
    /\ <<Step("ask", "FLAG")>>[1] = Step("ask", "FLAG")
<1>1. /\ Step("ask", "FLAG") \in Steps
  BY StepIs, ThePins DEF Statements
<1>. QED
  BY <1>1

LEMMA SetMotorLevelsIs ==
    /\ SetMotorLevels \in Seq(Steps) /\ Len(SetMotorLevels) = 2
    /\ SetMotorLevels[1] = Step("move", "FAULT1") /\ SetMotorLevels[2] = Step("move", "FAULT2")
<1>1. /\ Step("move", "FAULT1") \in Steps /\ Step("move", "FAULT2") \in Steps
  BY StepIs, ThePins DEF Statements
<1>. QED
  BY <1>1 DEF SetMotorLevels

ReadFaults == <<Step("select", "FAULT1"), Step("read", "FAULT1"),
                Step("select", "FAULT2"), Step("read", "FAULT2")>>
Details == <<Step("point", "IRQB"), Step("fetch", "IRQB")>>

LEMMA ReadFaultsIs ==
    /\ ReadFaults \in Seq(Steps) /\ Len(ReadFaults) = 4
    /\ ReadFaults[1] = Step("select", "FAULT1") /\ ReadFaults[2] = Step("read", "FAULT1")
    /\ ReadFaults[3] = Step("select", "FAULT2") /\ ReadFaults[4] = Step("read", "FAULT2")
<1>1. /\ Step("select", "FAULT1") \in Steps /\ Step("read", "FAULT1") \in Steps
      /\ Step("select", "FAULT2") \in Steps /\ Step("read", "FAULT2") \in Steps
  BY StepIs, ThePins DEF Statements
<1>. QED
  BY <1>1 DEF ReadFaults

LEMMA DetailsIs ==
    /\ Details \in Seq(Steps) /\ Len(Details) = 2
    /\ Details[1] = Step("point", "IRQB") /\ Details[2] = Step("fetch", "IRQB")
<1>1. /\ Step("point", "IRQB") \in Steps /\ Step("fetch", "IRQB") \in Steps
  BY StepIs, ThePins DEF Statements
<1>. QED
  BY <1>1 DEF Details

LEMMA GetStateIs ==
    /\ GetState \in Seq(Steps) /\ Len(GetState) = 12
    /\ GetState[1] = Step("select", "FAULT1") /\ GetState[2] = Step("read", "FAULT1")
    /\ GetState[3] = Step("select", "FAULT2") /\ GetState[4] = Step("read", "FAULT2")
    /\ GetState[5] = Step("clear", "FAULT1") /\ GetState[6] = Step("select", "FAULT1")
    /\ GetState[7] = Step("verify", "FAULT1") /\ GetState[8] = Step("clear", "FAULT2")
    /\ GetState[9] = Step("select", "FAULT2") /\ GetState[10] = Step("verify", "FAULT2")
    /\ GetState[11] = Step("point", "IRQB") /\ GetState[12] = Step("fetch", "IRQB")
<1>. DEFINE p1 == ReadFaults
            p2 == ClearFaults
            p3 == Details
            b2 == p1 \o p2
            b3 == b2 \o p3
<1>1. /\ p1 \in Seq(Steps) /\ Len(p1) = 4
      /\ p1[1] = Step("select", "FAULT1") /\ p1[2] = Step("read", "FAULT1")
      /\ p1[3] = Step("select", "FAULT2") /\ p1[4] = Step("read", "FAULT2")
  BY ReadFaultsIs, ThePins
<1>2. /\ p2 \in Seq(Steps) /\ Len(p2) = 6
      /\ p2[1] = Step("clear", "FAULT1") /\ p2[2] = Step("select", "FAULT1")
      /\ p2[3] = Step("verify", "FAULT1") /\ p2[4] = Step("clear", "FAULT2")
      /\ p2[5] = Step("select", "FAULT2") /\ p2[6] = Step("verify", "FAULT2")
  BY ClearFaultsIs, ThePins
<1>3. /\ p3 \in Seq(Steps) /\ Len(p3) = 2
      /\ p3[1] = Step("point", "IRQB") /\ p3[2] = Step("fetch", "IRQB")
  BY DetailsIs, ThePins
<1>4. GetState = b3
  BY DEF GetState, ReadFaults, Details
<1>. HIDE DEF p1, p2, p3
<1>5. /\ b2 = p1 \o p2 /\ b3 = b2 \o p3
  OBVIOUS
<1>. HIDE DEF b2, b3
<1>6. /\ b2 \in Seq(Steps) /\ Len(b2) = 10
      /\ b2[5] = Step("clear", "FAULT1") /\ b2[6] = Step("select", "FAULT1")
      /\ b2[7] = Step("verify", "FAULT1") /\ b2[8] = Step("clear", "FAULT2")
      /\ b2[9] = Step("select", "FAULT2") /\ b2[10] = Step("verify", "FAULT2")
      /\ \A i \in 1..4 : b2[i] = p1[i]
  <2>1. Joins(b2, p1, p2)
    BY <1>1, <1>2, <1>5, After
  <2>. QED
    BY <1>1, <1>2, <2>1 DEF Joins
<1>7. /\ b3 \in Seq(Steps) /\ Len(b3) = 12
      /\ b3[11] = Step("point", "IRQB") /\ b3[12] = Step("fetch", "IRQB")
      /\ \A i \in 1..10 : b3[i] = b2[i]
  <2>1. Joins(b3, b2, p3)
    BY <1>6, <1>3, <1>5, After
  <2>. QED
    BY <1>6, <1>3, <2>1 DEF Joins
<1>. QED
  BY <1>4, <1>1, <1>6, <1>7

LEMMA ProgramIs ==
    /\ Program \in Seq(Steps) /\ Len(Program) = 74
    /\ Program[1] = Step("fill_all", "INTB") /\ Program[2] = Step("send", "INTB")
    /\ Program[3] = Step("start", "INTB") /\ Program[4] = Step("drive", "INTB")
    /\ Program[5] = Step("await", "INTB") /\ Program[6] = Step("release", "INTB")
    /\ Program[7] = Step("stop", "INTB") /\ Program[8] = Step("reset", "INTB")
    /\ Program[9] = Step("fill_some", "INTB") /\ Program[10] = Step("send", "INTB")
    /\ Program[11] = Step("mask", "IRQB") /\ Program[12] = Step("point", "IRQB")
    /\ Program[13] = Step("check", "IRQB") /\ Program[14] = Step("unmask", "IRQB")
    /\ Program[15] = Step("mask", "IRQB") /\ Program[16] = Step("point", "IRQB")
    /\ Program[17] = Step("check", "IRQB") /\ Program[18] = Step("unmask", "IRQB")
    /\ Program[19] = Step("mask", "IRQB") /\ Program[20] = Step("start", "IRQB")
    /\ Program[21] = Step("drive", "IRQB") /\ Program[22] = Step("await", "IRQB")
    /\ Program[23] = Step("release", "IRQB") /\ Program[24] = Step("stop", "IRQB")
    /\ Program[25] = Step("reset", "IRQB") /\ Program[26] = Step("unmask", "IRQB")
    /\ Program[27] = Step("start", "FLAG") /\ Program[28] = Step("drive", "FLAG")
    /\ Program[29] = Step("await", "FLAG") /\ Program[30] = Step("stop", "FLAG")
    /\ Program[31] = Step("reset", "FLAG") /\ Program[32] = Step("start", "FLAG")
    /\ Program[33] = Step("release", "FLAG") /\ Program[34] = Step("high", "FLAG")
    /\ Program[35] = Step("await", "FLAG") /\ Program[36] = Step("clear", "FAULT1")
    /\ Program[37] = Step("select", "FAULT1") /\ Program[38] = Step("verify", "FAULT1")
    /\ Program[39] = Step("clear", "FAULT2") /\ Program[40] = Step("select", "FAULT2")
    /\ Program[41] = Step("verify", "FAULT2") /\ Program[42] = Step("start", "FAULT1")
    /\ Program[43] = Step("drive", "FAULT1") /\ Program[44] = Step("await", "FAULT1")
    /\ Program[45] = Step("release", "FAULT1") /\ Program[46] = Step("stop", "FAULT1")
    /\ Program[47] = Step("reset", "FAULT1") /\ Program[48] = Step("start", "FAULT2")
    /\ Program[49] = Step("drive", "FAULT2") /\ Program[50] = Step("await", "FAULT2")
    /\ Program[51] = Step("release", "FAULT2") /\ Program[52] = Step("stop", "FAULT2")
    /\ Program[53] = Step("fetch", "INTB") /\ Program[54] = Step("fetch", "IRQB")
    /\ Program[55] = Step("move", "FAULT1") /\ Program[56] = Step("move", "FAULT2")
    /\ Program[57] = Step("fill_reg", "INTB") /\ Program[58] = Step("aim", "INTB")
    /\ Program[59] = Step("fetch", "INTB") /\ Program[60] = Step("ask", "FLAG")
    /\ Program[61] = Step("move", "FAULT1") /\ Program[62] = Step("move", "FAULT2")
    /\ Program[63] = Step("select", "FAULT1") /\ Program[64] = Step("read", "FAULT1")
    /\ Program[65] = Step("select", "FAULT2") /\ Program[66] = Step("read", "FAULT2")
    /\ Program[67] = Step("clear", "FAULT1") /\ Program[68] = Step("select", "FAULT1")
    /\ Program[69] = Step("verify", "FAULT1") /\ Program[70] = Step("clear", "FAULT2")
    /\ Program[71] = Step("select", "FAULT2") /\ Program[72] = Step("verify", "FAULT2")
    /\ Program[73] = Step("point", "IRQB") /\ Program[74] = Step("fetch", "IRQB")
<1>. DEFINE p1 == RobotUnitTests
            p2 == EndOfStart
            p3 == <<Step("ask", "FLAG")>>
            p4 == SetMotorLevels
            p5 == GetState
            b2 == p1 \o p2
            b3 == b2 \o p3
            b4 == b3 \o p4
            b5 == b4 \o p5
<1>1. /\ p1 \in Seq(Steps) /\ Len(p1) = 52
      /\ p1[1] = Step("fill_all", "INTB") /\ p1[2] = Step("send", "INTB")
      /\ p1[3] = Step("start", "INTB") /\ p1[4] = Step("drive", "INTB")
      /\ p1[5] = Step("await", "INTB") /\ p1[6] = Step("release", "INTB")
      /\ p1[7] = Step("stop", "INTB") /\ p1[8] = Step("reset", "INTB")
      /\ p1[9] = Step("fill_some", "INTB") /\ p1[10] = Step("send", "INTB")
      /\ p1[11] = Step("mask", "IRQB") /\ p1[12] = Step("point", "IRQB")
      /\ p1[13] = Step("check", "IRQB") /\ p1[14] = Step("unmask", "IRQB")
      /\ p1[15] = Step("mask", "IRQB") /\ p1[16] = Step("point", "IRQB")
      /\ p1[17] = Step("check", "IRQB") /\ p1[18] = Step("unmask", "IRQB")
      /\ p1[19] = Step("mask", "IRQB") /\ p1[20] = Step("start", "IRQB")
      /\ p1[21] = Step("drive", "IRQB") /\ p1[22] = Step("await", "IRQB")
      /\ p1[23] = Step("release", "IRQB") /\ p1[24] = Step("stop", "IRQB")
      /\ p1[25] = Step("reset", "IRQB") /\ p1[26] = Step("unmask", "IRQB")
      /\ p1[27] = Step("start", "FLAG") /\ p1[28] = Step("drive", "FLAG")
      /\ p1[29] = Step("await", "FLAG") /\ p1[30] = Step("stop", "FLAG")
      /\ p1[31] = Step("reset", "FLAG") /\ p1[32] = Step("start", "FLAG")
      /\ p1[33] = Step("release", "FLAG") /\ p1[34] = Step("high", "FLAG")
      /\ p1[35] = Step("await", "FLAG") /\ p1[36] = Step("clear", "FAULT1")
      /\ p1[37] = Step("select", "FAULT1") /\ p1[38] = Step("verify", "FAULT1")
      /\ p1[39] = Step("clear", "FAULT2") /\ p1[40] = Step("select", "FAULT2")
      /\ p1[41] = Step("verify", "FAULT2") /\ p1[42] = Step("start", "FAULT1")
      /\ p1[43] = Step("drive", "FAULT1") /\ p1[44] = Step("await", "FAULT1")
      /\ p1[45] = Step("release", "FAULT1") /\ p1[46] = Step("stop", "FAULT1")
      /\ p1[47] = Step("reset", "FAULT1") /\ p1[48] = Step("start", "FAULT2")
      /\ p1[49] = Step("drive", "FAULT2") /\ p1[50] = Step("await", "FAULT2")
      /\ p1[51] = Step("release", "FAULT2") /\ p1[52] = Step("stop", "FAULT2")
  BY RobotUnitTestsIs, ThePins
<1>2. /\ p2 \in Seq(Steps) /\ Len(p2) = 7
      /\ p2[1] = Step("fetch", "INTB") /\ p2[2] = Step("fetch", "IRQB")
      /\ p2[3] = Step("move", "FAULT1") /\ p2[4] = Step("move", "FAULT2")
      /\ p2[5] = Step("fill_reg", "INTB") /\ p2[6] = Step("aim", "INTB")
      /\ p2[7] = Step("fetch", "INTB")
  BY EndOfStartIs, ThePins
<1>3. /\ p3 \in Seq(Steps) /\ Len(p3) = 1
      /\ p3[1] = Step("ask", "FLAG")
  BY AskIs, ThePins
<1>4. /\ p4 \in Seq(Steps) /\ Len(p4) = 2
      /\ p4[1] = Step("move", "FAULT1") /\ p4[2] = Step("move", "FAULT2")
  BY SetMotorLevelsIs, ThePins
<1>5. /\ p5 \in Seq(Steps) /\ Len(p5) = 12
      /\ p5[1] = Step("select", "FAULT1") /\ p5[2] = Step("read", "FAULT1")
      /\ p5[3] = Step("select", "FAULT2") /\ p5[4] = Step("read", "FAULT2")
      /\ p5[5] = Step("clear", "FAULT1") /\ p5[6] = Step("select", "FAULT1")
      /\ p5[7] = Step("verify", "FAULT1") /\ p5[8] = Step("clear", "FAULT2")
      /\ p5[9] = Step("select", "FAULT2") /\ p5[10] = Step("verify", "FAULT2")
      /\ p5[11] = Step("point", "IRQB") /\ p5[12] = Step("fetch", "IRQB")
  BY GetStateIs, ThePins
<1>6. Program = b5
  BY DEF Program
<1>. HIDE DEF p1, p2, p3, p4, p5
<1>7. /\ b2 = p1 \o p2 /\ b3 = b2 \o p3 /\ b4 = b3 \o p4 /\ b5 = b4 \o p5
  OBVIOUS
<1>. HIDE DEF b2, b3, b4, b5
<1>8. /\ b2 \in Seq(Steps) /\ Len(b2) = 59
      /\ b2[53] = Step("fetch", "INTB") /\ b2[54] = Step("fetch", "IRQB")
      /\ b2[55] = Step("move", "FAULT1") /\ b2[56] = Step("move", "FAULT2")
      /\ b2[57] = Step("fill_reg", "INTB") /\ b2[58] = Step("aim", "INTB")
      /\ b2[59] = Step("fetch", "INTB")
      /\ \A i \in 1..52 : b2[i] = p1[i]
  <2>1. Joins(b2, p1, p2)
    BY <1>1, <1>2, <1>7, After
  <2>. QED
    BY <1>1, <1>2, <2>1 DEF Joins
<1>9. /\ b3 \in Seq(Steps) /\ Len(b3) = 60
      /\ b3[60] = Step("ask", "FLAG")
      /\ \A i \in 1..59 : b3[i] = b2[i]
  <2>1. Joins(b3, b2, p3)
    BY <1>8, <1>3, <1>7, After
  <2>. QED
    BY <1>8, <1>3, <2>1 DEF Joins
<1>10. /\ b4 \in Seq(Steps) /\ Len(b4) = 62
      /\ b4[61] = Step("move", "FAULT1") /\ b4[62] = Step("move", "FAULT2")
      /\ \A i \in 1..60 : b4[i] = b3[i]
  <2>1. Joins(b4, b3, p4)
    BY <1>9, <1>4, <1>7, After
  <2>. QED
    BY <1>9, <1>4, <2>1 DEF Joins
<1>11. /\ b5 \in Seq(Steps) /\ Len(b5) = 74
      /\ b5[63] = Step("select", "FAULT1") /\ b5[64] = Step("read", "FAULT1")
      /\ b5[65] = Step("select", "FAULT2") /\ b5[66] = Step("read", "FAULT2")
      /\ b5[67] = Step("clear", "FAULT1") /\ b5[68] = Step("select", "FAULT1")
      /\ b5[69] = Step("verify", "FAULT1") /\ b5[70] = Step("clear", "FAULT2")
      /\ b5[71] = Step("select", "FAULT2") /\ b5[72] = Step("verify", "FAULT2")
      /\ b5[73] = Step("point", "IRQB") /\ b5[74] = Step("fetch", "IRQB")
      /\ \A i \in 1..62 : b5[i] = b4[i]
  <2>1. Joins(b5, b4, p5)
    BY <1>10, <1>5, <1>7, After
  <2>. QED
    BY <1>10, <1>5, <2>1 DEF Joins
<1>. QED
  BY <1>6, <1>1, <1>8, <1>9, <1>10, <1>11

LEMMA ProgramTypes ==
    /\ Program \in [1..74 -> Steps] /\ Len(Program) = 74
    /\ TestsLen = 52 /\ MainLoop = 60 /\ Len(SetMotorLevels) = 2
<1>1. Program \in Seq(Steps) /\ Len(Program) = 74
  BY ProgramIs
<1>2. TestsLen = 52
  BY RobotUnitTestsIs DEF TestsLen
<1>3. MainLoop = 60
  BY <1>2, EndOfStartIs DEF MainLoop
<1>4. Len(SetMotorLevels) = 2
  BY SetMotorLevelsIs
<1>5. Program \in [1..Len(Program) -> Steps]
  BY <1>1, LenProperties
<1>. QED
  BY <1>1, <1>2, <1>3, <1>4, <1>5

\* The statement at each place.
Places ==
    /\ Program[1].do = "fill_all" /\ Program[1].on = "INTB"
    /\ Program[2].do = "send" /\ Program[2].on = "INTB"
    /\ Program[3].do = "start" /\ Program[3].on = "INTB"
    /\ Program[4].do = "drive" /\ Program[4].on = "INTB"
    /\ Program[5].do = "await" /\ Program[5].on = "INTB"
    /\ Program[6].do = "release" /\ Program[6].on = "INTB"
    /\ Program[7].do = "stop" /\ Program[7].on = "INTB"
    /\ Program[8].do = "reset" /\ Program[8].on = "INTB"
    /\ Program[9].do = "fill_some" /\ Program[9].on = "INTB"
    /\ Program[10].do = "send" /\ Program[10].on = "INTB"
    /\ Program[11].do = "mask" /\ Program[11].on = "IRQB"
    /\ Program[12].do = "point" /\ Program[12].on = "IRQB"
    /\ Program[13].do = "check" /\ Program[13].on = "IRQB"
    /\ Program[14].do = "unmask" /\ Program[14].on = "IRQB"
    /\ Program[15].do = "mask" /\ Program[15].on = "IRQB"
    /\ Program[16].do = "point" /\ Program[16].on = "IRQB"
    /\ Program[17].do = "check" /\ Program[17].on = "IRQB"
    /\ Program[18].do = "unmask" /\ Program[18].on = "IRQB"
    /\ Program[19].do = "mask" /\ Program[19].on = "IRQB"
    /\ Program[20].do = "start" /\ Program[20].on = "IRQB"
    /\ Program[21].do = "drive" /\ Program[21].on = "IRQB"
    /\ Program[22].do = "await" /\ Program[22].on = "IRQB"
    /\ Program[23].do = "release" /\ Program[23].on = "IRQB"
    /\ Program[24].do = "stop" /\ Program[24].on = "IRQB"
    /\ Program[25].do = "reset" /\ Program[25].on = "IRQB"
    /\ Program[26].do = "unmask" /\ Program[26].on = "IRQB"
    /\ Program[27].do = "start" /\ Program[27].on = "FLAG"
    /\ Program[28].do = "drive" /\ Program[28].on = "FLAG"
    /\ Program[29].do = "await" /\ Program[29].on = "FLAG"
    /\ Program[30].do = "stop" /\ Program[30].on = "FLAG"
    /\ Program[31].do = "reset" /\ Program[31].on = "FLAG"
    /\ Program[32].do = "start" /\ Program[32].on = "FLAG"
    /\ Program[33].do = "release" /\ Program[33].on = "FLAG"
    /\ Program[34].do = "high" /\ Program[34].on = "FLAG"
    /\ Program[35].do = "await" /\ Program[35].on = "FLAG"
    /\ Program[36].do = "clear" /\ Program[36].on = "FAULT1"
    /\ Program[37].do = "select" /\ Program[37].on = "FAULT1"
    /\ Program[38].do = "verify" /\ Program[38].on = "FAULT1"
    /\ Program[39].do = "clear" /\ Program[39].on = "FAULT2"
    /\ Program[40].do = "select" /\ Program[40].on = "FAULT2"
    /\ Program[41].do = "verify" /\ Program[41].on = "FAULT2"
    /\ Program[42].do = "start" /\ Program[42].on = "FAULT1"
    /\ Program[43].do = "drive" /\ Program[43].on = "FAULT1"
    /\ Program[44].do = "await" /\ Program[44].on = "FAULT1"
    /\ Program[45].do = "release" /\ Program[45].on = "FAULT1"
    /\ Program[46].do = "stop" /\ Program[46].on = "FAULT1"
    /\ Program[47].do = "reset" /\ Program[47].on = "FAULT1"
    /\ Program[48].do = "start" /\ Program[48].on = "FAULT2"
    /\ Program[49].do = "drive" /\ Program[49].on = "FAULT2"
    /\ Program[50].do = "await" /\ Program[50].on = "FAULT2"
    /\ Program[51].do = "release" /\ Program[51].on = "FAULT2"
    /\ Program[52].do = "stop" /\ Program[52].on = "FAULT2"
    /\ Program[53].do = "fetch" /\ Program[53].on = "INTB"
    /\ Program[54].do = "fetch" /\ Program[54].on = "IRQB"
    /\ Program[55].do = "move" /\ Program[55].on = "FAULT1"
    /\ Program[56].do = "move" /\ Program[56].on = "FAULT2"
    /\ Program[57].do = "fill_reg" /\ Program[57].on = "INTB"
    /\ Program[58].do = "aim" /\ Program[58].on = "INTB"
    /\ Program[59].do = "fetch" /\ Program[59].on = "INTB"
    /\ Program[60].do = "ask" /\ Program[60].on = "FLAG"
    /\ Program[61].do = "move" /\ Program[61].on = "FAULT1"
    /\ Program[62].do = "move" /\ Program[62].on = "FAULT2"
    /\ Program[63].do = "select" /\ Program[63].on = "FAULT1"
    /\ Program[64].do = "read" /\ Program[64].on = "FAULT1"
    /\ Program[65].do = "select" /\ Program[65].on = "FAULT2"
    /\ Program[66].do = "read" /\ Program[66].on = "FAULT2"
    /\ Program[67].do = "clear" /\ Program[67].on = "FAULT1"
    /\ Program[68].do = "select" /\ Program[68].on = "FAULT1"
    /\ Program[69].do = "verify" /\ Program[69].on = "FAULT1"
    /\ Program[70].do = "clear" /\ Program[70].on = "FAULT2"
    /\ Program[71].do = "select" /\ Program[71].on = "FAULT2"
    /\ Program[72].do = "verify" /\ Program[72].on = "FAULT2"
    /\ Program[73].do = "point" /\ Program[73].on = "IRQB"
    /\ Program[74].do = "fetch" /\ Program[74].on = "IRQB"

LEMMA PlacesHold == Places
BY ProgramIs DEF Places, Step

\* Where each statement is.
LEMMA PlacesOf ==
    ASSUME NEW k \in 1..74
    PROVE  /\ Program[k].do = "fill_all" => k \in {1}
           /\ Program[k].do = "send" => k \in {2, 10}
           /\ Program[k].do = "start" => k \in {3, 20, 27, 32, 42, 48}
           /\ Program[k].do = "drive" => k \in {4, 21, 28, 43, 49}
           /\ Program[k].do = "await" => k \in {5, 22, 29, 35, 44, 50}
           /\ Program[k].do = "release" => k \in {6, 23, 33, 45, 51}
           /\ Program[k].do = "stop" => k \in {7, 24, 30, 46, 52}
           /\ Program[k].do = "reset" => k \in {8, 25, 31, 47}
           /\ Program[k].do = "fill_some" => k \in {9}
           /\ Program[k].do = "mask" => k \in {11, 15, 19}
           /\ Program[k].do = "point" => k \in {12, 16, 73}
           /\ Program[k].do = "check" => k \in {13, 17}
           /\ Program[k].do = "unmask" => k \in {14, 18, 26}
           /\ Program[k].do = "high" => k \in {34}
           /\ Program[k].do = "clear" => k \in {36, 39, 67, 70}
           /\ Program[k].do = "select" => k \in {37, 40, 63, 65, 68, 71}
           /\ Program[k].do = "verify" => k \in {38, 41, 69, 72}
           /\ Program[k].do = "fetch" => k \in {53, 54, 59, 74}
           /\ Program[k].do = "move" => k \in {55, 56, 61, 62}
           /\ Program[k].do = "fill_reg" => k \in {57}
           /\ Program[k].do = "aim" => k \in {58}
           /\ Program[k].do = "ask" => k \in {60}
           /\ Program[k].do = "read" => k \in {64, 66}
BY PlacesHold DEF Places

-----------------------------------------------------------------------------
(* What core 0 is about to do, and where it goes. *)

LEMMA WhereIs ==
    ASSUME pc \in 1..74
    PROVE  /\ At("fill_all") =>
               \/ (pc = 1 /\ On = "INTB")
           /\ At("send") =>
               \/ (pc = 2 /\ On = "INTB") \/ (pc = 10 /\ On = "INTB")
           /\ At("start") =>
               \/ (pc = 3 /\ On = "INTB") \/ (pc = 20 /\ On = "IRQB")
               \/ (pc = 27 /\ On = "FLAG") \/ (pc = 32 /\ On = "FLAG")
               \/ (pc = 42 /\ On = "FAULT1") \/ (pc = 48 /\ On = "FAULT2")
           /\ At("drive") =>
               \/ (pc = 4 /\ On = "INTB") \/ (pc = 21 /\ On = "IRQB")
               \/ (pc = 28 /\ On = "FLAG") \/ (pc = 43 /\ On = "FAULT1")
               \/ (pc = 49 /\ On = "FAULT2")
           /\ At("await") =>
               \/ (pc = 5 /\ On = "INTB") \/ (pc = 22 /\ On = "IRQB")
               \/ (pc = 29 /\ On = "FLAG") \/ (pc = 35 /\ On = "FLAG")
               \/ (pc = 44 /\ On = "FAULT1") \/ (pc = 50 /\ On = "FAULT2")
           /\ At("release") =>
               \/ (pc = 6 /\ On = "INTB") \/ (pc = 23 /\ On = "IRQB")
               \/ (pc = 33 /\ On = "FLAG") \/ (pc = 45 /\ On = "FAULT1")
               \/ (pc = 51 /\ On = "FAULT2")
           /\ At("stop") =>
               \/ (pc = 7 /\ On = "INTB") \/ (pc = 24 /\ On = "IRQB")
               \/ (pc = 30 /\ On = "FLAG") \/ (pc = 46 /\ On = "FAULT1")
               \/ (pc = 52 /\ On = "FAULT2")
           /\ At("reset") =>
               \/ (pc = 8 /\ On = "INTB") \/ (pc = 25 /\ On = "IRQB")
               \/ (pc = 31 /\ On = "FLAG") \/ (pc = 47 /\ On = "FAULT1")
           /\ At("fill_some") =>
               \/ (pc = 9 /\ On = "INTB")
           /\ At("mask") =>
               \/ (pc = 11 /\ On = "IRQB") \/ (pc = 15 /\ On = "IRQB")
               \/ (pc = 19 /\ On = "IRQB")
           /\ At("point") =>
               \/ (pc = 12 /\ On = "IRQB") \/ (pc = 16 /\ On = "IRQB")
               \/ (pc = 73 /\ On = "IRQB")
           /\ At("check") =>
               \/ (pc = 13 /\ On = "IRQB") \/ (pc = 17 /\ On = "IRQB")
           /\ At("unmask") =>
               \/ (pc = 14 /\ On = "IRQB") \/ (pc = 18 /\ On = "IRQB")
               \/ (pc = 26 /\ On = "IRQB")
           /\ At("high") =>
               \/ (pc = 34 /\ On = "FLAG")
           /\ At("clear") =>
               \/ (pc = 36 /\ On = "FAULT1") \/ (pc = 39 /\ On = "FAULT2")
               \/ (pc = 67 /\ On = "FAULT1") \/ (pc = 70 /\ On = "FAULT2")
           /\ At("select") =>
               \/ (pc = 37 /\ On = "FAULT1") \/ (pc = 40 /\ On = "FAULT2")
               \/ (pc = 63 /\ On = "FAULT1") \/ (pc = 65 /\ On = "FAULT2")
               \/ (pc = 68 /\ On = "FAULT1") \/ (pc = 71 /\ On = "FAULT2")
           /\ At("verify") =>
               \/ (pc = 38 /\ On = "FAULT1") \/ (pc = 41 /\ On = "FAULT2")
               \/ (pc = 69 /\ On = "FAULT1") \/ (pc = 72 /\ On = "FAULT2")
           /\ At("fetch") =>
               \/ (pc = 53 /\ On = "INTB") \/ (pc = 54 /\ On = "IRQB")
               \/ (pc = 59 /\ On = "INTB") \/ (pc = 74 /\ On = "IRQB")
           /\ At("move") =>
               \/ (pc = 55 /\ On = "FAULT1") \/ (pc = 56 /\ On = "FAULT2")
               \/ (pc = 61 /\ On = "FAULT1") \/ (pc = 62 /\ On = "FAULT2")
           /\ At("fill_reg") =>
               \/ (pc = 57 /\ On = "INTB")
           /\ At("aim") =>
               \/ (pc = 58 /\ On = "INTB")
           /\ At("ask") =>
               \/ (pc = 60 /\ On = "FLAG")
           /\ At("read") =>
               \/ (pc = 64 /\ On = "FAULT1") \/ (pc = 66 /\ On = "FAULT2")
<1>1. On = Program[pc].on
  BY DEF On
<1>2. At("fill_all") =>
         \/ (pc = 1 /\ On = "INTB")
  <2>1. At("fill_all") => pc \in {1}
    BY PlacesOf DEF At
  <2>. QED
    BY <2>1, <1>1, PlacesHold DEF Places
<1>3. At("send") =>
         \/ (pc = 2 /\ On = "INTB") \/ (pc = 10 /\ On = "INTB")
  <2>1. At("send") => pc \in {2, 10}
    BY PlacesOf DEF At
  <2>. QED
    BY <2>1, <1>1, PlacesHold DEF Places
<1>4. At("start") =>
         \/ (pc = 3 /\ On = "INTB") \/ (pc = 20 /\ On = "IRQB") \/ (pc = 27 /\ On = "FLAG")
         \/ (pc = 32 /\ On = "FLAG") \/ (pc = 42 /\ On = "FAULT1")
         \/ (pc = 48 /\ On = "FAULT2")
  <2>1. At("start") => pc \in {3, 20, 27, 32, 42, 48}
    BY PlacesOf DEF At
  <2>. QED
    BY <2>1, <1>1, PlacesHold DEF Places
<1>5. At("drive") =>
         \/ (pc = 4 /\ On = "INTB") \/ (pc = 21 /\ On = "IRQB") \/ (pc = 28 /\ On = "FLAG")
         \/ (pc = 43 /\ On = "FAULT1") \/ (pc = 49 /\ On = "FAULT2")
  <2>1. At("drive") => pc \in {4, 21, 28, 43, 49}
    BY PlacesOf DEF At
  <2>. QED
    BY <2>1, <1>1, PlacesHold DEF Places
<1>6. At("await") =>
         \/ (pc = 5 /\ On = "INTB") \/ (pc = 22 /\ On = "IRQB") \/ (pc = 29 /\ On = "FLAG")
         \/ (pc = 35 /\ On = "FLAG") \/ (pc = 44 /\ On = "FAULT1")
         \/ (pc = 50 /\ On = "FAULT2")
  <2>1. At("await") => pc \in {5, 22, 29, 35, 44, 50}
    BY PlacesOf DEF At
  <2>. QED
    BY <2>1, <1>1, PlacesHold DEF Places
<1>7. At("release") =>
         \/ (pc = 6 /\ On = "INTB") \/ (pc = 23 /\ On = "IRQB") \/ (pc = 33 /\ On = "FLAG")
         \/ (pc = 45 /\ On = "FAULT1") \/ (pc = 51 /\ On = "FAULT2")
  <2>1. At("release") => pc \in {6, 23, 33, 45, 51}
    BY PlacesOf DEF At
  <2>. QED
    BY <2>1, <1>1, PlacesHold DEF Places
<1>8. At("stop") =>
         \/ (pc = 7 /\ On = "INTB") \/ (pc = 24 /\ On = "IRQB") \/ (pc = 30 /\ On = "FLAG")
         \/ (pc = 46 /\ On = "FAULT1") \/ (pc = 52 /\ On = "FAULT2")
  <2>1. At("stop") => pc \in {7, 24, 30, 46, 52}
    BY PlacesOf DEF At
  <2>. QED
    BY <2>1, <1>1, PlacesHold DEF Places
<1>9. At("reset") =>
         \/ (pc = 8 /\ On = "INTB") \/ (pc = 25 /\ On = "IRQB") \/ (pc = 31 /\ On = "FLAG")
         \/ (pc = 47 /\ On = "FAULT1")
  <2>1. At("reset") => pc \in {8, 25, 31, 47}
    BY PlacesOf DEF At
  <2>. QED
    BY <2>1, <1>1, PlacesHold DEF Places
<1>10. At("fill_some") =>
         \/ (pc = 9 /\ On = "INTB")
  <2>1. At("fill_some") => pc \in {9}
    BY PlacesOf DEF At
  <2>. QED
    BY <2>1, <1>1, PlacesHold DEF Places
<1>11. At("mask") =>
         \/ (pc = 11 /\ On = "IRQB") \/ (pc = 15 /\ On = "IRQB") \/ (pc = 19 /\ On = "IRQB")
  <2>1. At("mask") => pc \in {11, 15, 19}
    BY PlacesOf DEF At
  <2>. QED
    BY <2>1, <1>1, PlacesHold DEF Places
<1>12. At("point") =>
         \/ (pc = 12 /\ On = "IRQB") \/ (pc = 16 /\ On = "IRQB") \/ (pc = 73 /\ On = "IRQB")
  <2>1. At("point") => pc \in {12, 16, 73}
    BY PlacesOf DEF At
  <2>. QED
    BY <2>1, <1>1, PlacesHold DEF Places
<1>13. At("check") =>
         \/ (pc = 13 /\ On = "IRQB") \/ (pc = 17 /\ On = "IRQB")
  <2>1. At("check") => pc \in {13, 17}
    BY PlacesOf DEF At
  <2>. QED
    BY <2>1, <1>1, PlacesHold DEF Places
<1>14. At("unmask") =>
         \/ (pc = 14 /\ On = "IRQB") \/ (pc = 18 /\ On = "IRQB") \/ (pc = 26 /\ On = "IRQB")
  <2>1. At("unmask") => pc \in {14, 18, 26}
    BY PlacesOf DEF At
  <2>. QED
    BY <2>1, <1>1, PlacesHold DEF Places
<1>15. At("high") =>
         \/ (pc = 34 /\ On = "FLAG")
  <2>1. At("high") => pc \in {34}
    BY PlacesOf DEF At
  <2>. QED
    BY <2>1, <1>1, PlacesHold DEF Places
<1>16. At("clear") =>
         \/ (pc = 36 /\ On = "FAULT1") \/ (pc = 39 /\ On = "FAULT2")
         \/ (pc = 67 /\ On = "FAULT1") \/ (pc = 70 /\ On = "FAULT2")
  <2>1. At("clear") => pc \in {36, 39, 67, 70}
    BY PlacesOf DEF At
  <2>. QED
    BY <2>1, <1>1, PlacesHold DEF Places
<1>17. At("select") =>
         \/ (pc = 37 /\ On = "FAULT1") \/ (pc = 40 /\ On = "FAULT2")
         \/ (pc = 63 /\ On = "FAULT1") \/ (pc = 65 /\ On = "FAULT2")
         \/ (pc = 68 /\ On = "FAULT1") \/ (pc = 71 /\ On = "FAULT2")
  <2>1. At("select") => pc \in {37, 40, 63, 65, 68, 71}
    BY PlacesOf DEF At
  <2>. QED
    BY <2>1, <1>1, PlacesHold DEF Places
<1>18. At("verify") =>
         \/ (pc = 38 /\ On = "FAULT1") \/ (pc = 41 /\ On = "FAULT2")
         \/ (pc = 69 /\ On = "FAULT1") \/ (pc = 72 /\ On = "FAULT2")
  <2>1. At("verify") => pc \in {38, 41, 69, 72}
    BY PlacesOf DEF At
  <2>. QED
    BY <2>1, <1>1, PlacesHold DEF Places
<1>19. At("fetch") =>
         \/ (pc = 53 /\ On = "INTB") \/ (pc = 54 /\ On = "IRQB") \/ (pc = 59 /\ On = "INTB")
         \/ (pc = 74 /\ On = "IRQB")
  <2>1. At("fetch") => pc \in {53, 54, 59, 74}
    BY PlacesOf DEF At
  <2>. QED
    BY <2>1, <1>1, PlacesHold DEF Places
<1>20. At("move") =>
         \/ (pc = 55 /\ On = "FAULT1") \/ (pc = 56 /\ On = "FAULT2")
         \/ (pc = 61 /\ On = "FAULT1") \/ (pc = 62 /\ On = "FAULT2")
  <2>1. At("move") => pc \in {55, 56, 61, 62}
    BY PlacesOf DEF At
  <2>. QED
    BY <2>1, <1>1, PlacesHold DEF Places
<1>21. At("fill_reg") =>
         \/ (pc = 57 /\ On = "INTB")
  <2>1. At("fill_reg") => pc \in {57}
    BY PlacesOf DEF At
  <2>. QED
    BY <2>1, <1>1, PlacesHold DEF Places
<1>22. At("aim") =>
         \/ (pc = 58 /\ On = "INTB")
  <2>1. At("aim") => pc \in {58}
    BY PlacesOf DEF At
  <2>. QED
    BY <2>1, <1>1, PlacesHold DEF Places
<1>23. At("ask") =>
         \/ (pc = 60 /\ On = "FLAG")
  <2>1. At("ask") => pc \in {60}
    BY PlacesOf DEF At
  <2>. QED
    BY <2>1, <1>1, PlacesHold DEF Places
<1>24. At("read") =>
         \/ (pc = 64 /\ On = "FAULT1") \/ (pc = 66 /\ On = "FAULT2")
  <2>1. At("read") => pc \in {64, 66}
    BY PlacesOf DEF At
  <2>. QED
    BY <2>1, <1>1, PlacesHold DEF Places
<1>. QED
  BY <1>2, <1>3, <1>4, <1>5, <1>6, <1>7, <1>8, <1>9, <1>10, <1>11, <1>12, <1>13, <1>14, <1>15, <1>16, <1>17, <1>18, <1>19, <1>20, <1>21, <1>22, <1>23, <1>24

LEMMA Goes ==
    ASSUME pc \in 1..74, Proceed
    PROVE  pc' \in 1..74 /\ (IF pc = 74 THEN pc' = 60 ELSE pc' = pc + 1)
<1>1. Len(Program) = 74 /\ MainLoop = 60
  BY ProgramTypes
<1>2. 74 \in Int /\ pc \in Int
  OBVIOUS
<1>. QED
  BY <1>1, <1>2 DEF Proceed

-----------------------------------------------------------------------------
(* Types. *)

LEMMA LatchTypes ==
    ASSUME latched \in [Pins -> SUBSET {"fall", "rise"}], Latch
    PROVE  latched' \in [Pins -> SUBSET {"fall", "rise"}]
BY DEF Latch

LEMMA DriverTypes ==
    /\ \A p \in Pins : Driver(p) \in Drivers
    /\ Driver("INTB") = "MAX77958" /\ Driver("IRQB") = "MAX77976"
    /\ Driver("FLAG") = "NCP3901" /\ \A p \in FaultPins : Driver(p) = "DRV8830"
<1>1. \A p \in Pins : Driver(p) \in Drivers
  BY DEF Drivers
<1>. QED
  BY <1>1 DEF Driver, FaultPins

LEMMA OnTypes ==
    ASSUME pc \in 1..74
    PROVE  On \in Pins /\ Program[pc].do \in Statements
BY ProgramTypes DEF On, Steps

\* The actions of core 0's thread, of the interrupt and of core 1 on their own
\* parts of the state.
LEMMA EntryTypes ==
    ASSUME NEW p \in Pins
    PROVE  Entry("handle", p) \in Entries /\ Entry("response", p) \in Entries
BY DEF Entry, Entries

LEMMA NoEntryIsNone ==
    /\ NoEntry \notin Entries /\ NoEntry.func = "none" /\ NoEntry.pin = "none"
    /\ IdleIsr.at = "idle" /\ IdleIsr.pin = "none"
    /\ IdleCore1.at = "pop" /\ IdleCore1.entry = NoEntry
BY DEF NoEntry, Entry, Entries, IdleIsr, IdleCore1

LEMMA TypesAtStart == ASSUME Init PROVE TypeOK
<1>1. /\ chip \in [Pins -> {"none", "status", "fault"}]
      /\ \A p \in Pins \ FaultPins : chip[p] # "fault"
  BY DEF Init
<1>2. /\ masked \subseteq AlarmPins
      /\ driven \subseteq Pins
      /\ latched \in [Pins -> SUBSET {"fall", "rise"}]
      /\ started \subseteq Drivers
      /\ completed \subseteq Drivers
      /\ fault_values \in [FaultPins -> {"none", "status", "fault"}]
      /\ fresh \in [FaultPins -> SUBSET {0, 1}]
  BY DEF Init
<1>3. /\ isr \in [at : {"rise", "fall", "respond"}, pin : Pins] \cup {IdleIsr}
      /\ call_queue \in Seq(Entries)
      /\ core1 \in [at : {"run", "select", "read", "clear"}, entry : Entries] \cup {IdleCore1}
  BY DEF Init
<1>4. pc \in 1..Len(Program) /\ events \in 0..MaxEvents
  BY ProgramTypes, SelfTestAssumption DEF Init
<1>5. halted.do \in {"no", "await", "high", "verify", "check"}
  BY DEF Init, Step
<1>6. /\ send_buf \in {"all masked", "masks", "int", "other"}
      /\ aimed \subseteq AlarmPins \cup FaultPins
      /\ missed \subseteq AlarmPins
      /\ misread \subseteq {0, 1} \X FaultPins
  BY DEF Init
<1>. QED
  BY <1>1, <1>2, <1>3, <1>4, <1>5, <1>6 DEF TypeOK

\* What each action needs of the types.
ChipTypes == /\ chip \in [Pins -> {"none", "status", "fault"}]
             /\ \A p \in Pins \ FaultPins : chip[p] # "fault"
PinTypes == /\ masked \subseteq AlarmPins
            /\ driven \subseteq Pins
            /\ latched \in [Pins -> SUBSET {"fall", "rise"}]
IsrTypes == isr \in [at : {"rise", "fall", "respond"}, pin : Pins] \cup {IdleIsr}
QueueTypes == /\ call_queue \in Seq(Entries)
              /\ core1 \in [at : {"run", "select", "read", "clear"}, entry : Entries] \cup {IdleCore1}
ThreadTypes == /\ pc \in 1..74
               /\ halted.do \in {"no", "await", "high", "verify", "check"}
FlagTypes == /\ started \subseteq Drivers
             /\ completed \subseteq Drivers
             /\ fault_values \in [FaultPins -> {"none", "status", "fault"}]
             /\ events \in 0..MaxEvents
             /\ fresh \in [FaultPins -> SUBSET {0, 1}]
BusTypes == /\ send_buf \in {"all masked", "masks", "int", "other"}
            /\ aimed \subseteq AlarmPins \cup FaultPins
            /\ missed \subseteq AlarmPins
            /\ misread \subseteq {0, 1} \X FaultPins
Types == ChipTypes /\ PinTypes /\ IsrTypes /\ QueueTypes /\ ThreadTypes /\ FlagTypes
         /\ BusTypes

LEMMA TypesAre == TypeOK <=> Types
<1>1. Len(Program) = 74
  BY ProgramTypes
<1>. QED
  BY <1>1 DEF TypeOK, Types, ChipTypes, PinTypes, IsrTypes, QueueTypes, ThreadTypes,
              FlagTypes, BusTypes

\* What each action leaves alone.
LEMMA PinActions ==
    ASSUME Mask \/ Send \/ Fetch \/ Drive \/ Release \/ High \/ ClearFault \/ VerifyFault
    PROVE  UNCHANGED <<isr, call_queue, core1, started, completed, fault_values, send_buf,
                       events, ran, stray>>
BY DEF Mask, Send, Fetch, Drive, Release, High, ClearFault, VerifyFault, OnlyPins

LEMMA FlagActions ==
    ASSUME Start \/ Stop \/ Reset \/ Await \/ Ask \/ Timeout
    PROVE  UNCHANGED <<chip, masked, driven, latched, isr, call_queue, core1, fault_values,
                       send_buf, aimed, events, silent, fresh, missed, misread>>
BY DEF Start, Stop, Reset, Await, Ask, Timeout, OnlyFlags, bus, histories

LEMMA BusActions ==
    ASSUME Fill \/ Point \/ ReadFault
    PROVE  UNCHANGED <<chip, masked, driven, latched, isr, call_queue, core1, halted,
                       started, completed, events, silent, ran, stray, fresh, missed>>
BY DEF Fill, Point, ReadFault, OnlyBus

LEMMA IsrActions ==
    ASSUME NEW p \in Pins, IsrTake(p) \/ IsrCallback \/ IsrRespond
    PROVE  UNCHANGED <<chip, masked, driven, core1, pc, halted, started, completed,
                       fault_values, send_buf, aimed, events, silent, ran, stray, fresh,
                       missed, misread>>
BY DEF IsrTake, IsrCallback, IsrRespond, core0, bus, histories

LEMMA ChipActions ==
    ASSUME NEW p \in Pins, Alarm(p) \/ Fault(p) \/ Charger
    PROVE  UNCHANGED <<masked, driven, isr, call_queue, core1, pc, halted, started,
                       completed, fault_values, send_buf, aimed, silent, ran, stray,
                       misread>>
BY DEF Alarm, Fault, Charger, Happens, core0, bus

LEMMA Core1Actions ==
    ASSUME Core1Step \/ OtherEntry
    PROVE  UNCHANGED <<masked, driven, isr, pc, halted, started, fault_values, silent,
                       stray>>
BY DEF Core1Step, Core1Pop, Respond, HandleFlag, HandleFill, HandleSelect, HandleAlarm,
       HandleFault, HandlerClear, OtherEntry, core0, histories

LEMMA ChipTypesKept == ASSUME Types, [Next]_vars PROVE ChipTypes'
<1>1. ChipTypes /\ QueueTypes /\ ThreadTypes
  BY DEF Types
<1>2. ASSUME NEW p \in AlarmPins \cup FaultPins, Alarm(p) PROVE ChipTypes'
  BY <1>1, <1>2 DEF Alarm, ChipTypes, Pins
<1>3. CASE Charger
  BY <1>1, <1>3 DEF Charger, ChipTypes, Pins, FaultPins
<1>4. ASSUME NEW p \in FaultPins, Fault(p) PROVE ChipTypes'
  BY <1>1, <1>4 DEF Fault, ChipTypes, Pins
<1>5. CASE ClearFault
  <2>1. On \in Pins
    BY <1>1, OnTypes DEF ThreadTypes
  <2>2. PICK reg \in Cleared(On) : chip' = [chip EXCEPT ![On] = reg]
    BY <1>5 DEF ClearFault
  <2>3. reg \in {"none", "fault"} /\ (reg = "fault" => chip[On] = "fault")
    BY <2>2 DEF Cleared
  <2>. QED
    BY <1>1, <2>1, <2>2, <2>3 DEF ChipTypes
<1>6. CASE HandlerClear
  <2>1. core1.entry.pin \in Pins
    BY <1>1, <1>6, NoEntryIsNone DEF HandlerClear, QueueTypes, Entries
  <2>2. PICK reg \in Cleared(core1.entry.pin) : chip' = [chip EXCEPT ![core1.entry.pin] = reg]
    BY <1>6 DEF HandlerClear
  <2>3. reg \in {"none", "fault"} /\ (reg = "fault" => chip[core1.entry.pin] = "fault")
    BY <2>2 DEF Cleared
  <2>. QED
    BY <1>1, <2>1, <2>2, <2>3 DEF ChipTypes
<1>7. CASE HandleAlarm
  BY <1>1, <1>7 DEF HandleAlarm, ChipTypes, Pins
<1>8. CASE Fetch
  BY <1>1, <1>8 DEF Fetch, ChipTypes, Pins
<1>9. CASE chip' = chip
  BY <1>1, <1>9 DEF ChipTypes
<1>10. ASSUME NEW p \in Pins, IsrTake(p) \/ IsrCallback \/ IsrRespond PROVE chip' = chip
  BY <1>10, IsrActions
<1>11. IsrCallback \/ IsrRespond => chip' = chip
  BY DEF IsrCallback, IsrRespond
<1>12. Mask \/ Send \/ Drive \/ Release \/ High \/ VerifyFault => chip' = chip
  BY DEF Mask, Send, Drive, Release, High, VerifyFault
<1>13. Start \/ Stop \/ Reset \/ Await \/ Ask \/ Timeout => chip' = chip
  BY FlagActions
<1>14. Fill \/ Point \/ ReadFault => chip' = chip
  BY BusActions
<1>15. Core1Pop \/ Respond \/ HandleFlag \/ HandleFill \/ HandleSelect \/ HandleFault
        \/ OtherEntry \/ UNCHANGED vars => chip' = chip
  BY DEF Core1Pop, Respond, HandleFlag, HandleFill, HandleSelect, HandleFault, OtherEntry,
         vars
<1>. QED
  BY <1>2, <1>3, <1>4, <1>5, <1>6, <1>7, <1>8, <1>9, <1>10, <1>11, <1>12, <1>13, <1>14,
     <1>15 DEF Next, ThreadStep, Core1Step

LEMMA PinTypesKept == ASSUME Types, [Next]_vars PROVE PinTypes'
<1>1. PinTypes /\ IsrTypes /\ ThreadTypes
  BY DEF Types
<1>2. On \in Pins
  BY <1>1, OnTypes DEF ThreadTypes
<1>3. ASSUME masked' = masked, driven' = driven, Latch PROVE PinTypes'
  BY <1>1, <1>3, LatchTypes DEF PinTypes
<1>4. CASE UNCHANGED <<masked, driven, latched>>
  BY <1>1, <1>4 DEF PinTypes
<1>5. ASSUME NEW p \in AlarmPins \cup FaultPins, Alarm(p) PROVE PinTypes'
  BY <1>3, <1>5 DEF Alarm, Happens
<1>6. ASSUME NEW p \in FaultPins, Fault(p) PROVE PinTypes'
  BY <1>3, <1>6 DEF Fault, Happens
<1>7. CASE Charger
  BY <1>3, <1>7 DEF Charger, Happens
<1>8. CASE Mask \/ Send
  <2>1. At("mask") \/ At("send") => On \in AlarmPins
    BY <1>1, WhereIs DEF ThreadTypes, AlarmPins
  <2>2. masked' \subseteq masked \cup ({On} \cap AlarmPins)
    <3>1. CASE Mask
      BY <2>1, <3>1 DEF Mask
    <3>2. CASE Send
      BY <2>1, <3>2 DEF Send
    <3>. QED
      BY <1>8, <3>1, <3>2
  <2>3. driven' = driven /\ Latch
    BY <1>8 DEF Mask, Send
  <2>. QED
    BY <1>1, <2>2, <2>3, LatchTypes DEF PinTypes
<1>9. CASE Drive
  BY <1>1, <1>2, <1>9, LatchTypes DEF Drive, PinTypes
<1>10. CASE Release
  BY <1>1, <1>2, <1>10, LatchTypes DEF Release, PinTypes
<1>11. CASE ClearFault
  BY <1>3, <1>11 DEF ClearFault
<1>12. CASE HandlerClear
  BY <1>3, <1>12 DEF HandlerClear
<1>13. CASE HandleAlarm \/ Fetch
  BY <1>3, <1>13 DEF HandleAlarm, Fetch
<1>14. ASSUME NEW p \in Pins, IsrTake(p) PROVE PinTypes'
  BY <1>1, <1>14 DEF IsrTake, PinTypes
<1>15. CASE IsrCallback
  BY <1>1, <1>15, NoEntryIsNone DEF IsrCallback, PinTypes, IsrTypes
<1>16. IsrRespond \/ High \/ VerifyFault => UNCHANGED <<masked, driven, latched>>
  BY DEF IsrRespond, High, VerifyFault
<1>17. Start \/ Stop \/ Reset \/ Await \/ Ask \/ Timeout => UNCHANGED <<masked, driven, latched>>
  BY FlagActions
<1>18. Fill \/ Point \/ ReadFault => UNCHANGED <<masked, driven, latched>>
  BY BusActions
<1>19. Core1Pop \/ Respond \/ HandleFlag \/ HandleFill \/ HandleSelect \/ HandleFault
        \/ OtherEntry \/ UNCHANGED vars => UNCHANGED <<masked, driven, latched>>
  BY DEF Core1Pop, Respond, HandleFlag, HandleFill, HandleSelect, HandleFault, OtherEntry,
         vars
<1>. QED
  BY <1>4, <1>5, <1>6, <1>7, <1>8, <1>9, <1>10, <1>11, <1>12, <1>13, <1>14, <1>15,
     <1>16, <1>17, <1>18, <1>19 DEF Next, ThreadStep, Core1Step

LEMMA IsrTypesKept == ASSUME Types, [Next]_vars PROVE IsrTypes'
<1>1. IsrTypes /\ PinTypes
  BY DEF Types
<1>2. CASE isr' = isr
  BY <1>1, <1>2 DEF IsrTypes
<1>3. ASSUME NEW p \in Pins, IsrTake(p) PROVE IsrTypes'
  BY <1>1, <1>3 DEF IsrTake, IsrTypes
<1>4. CASE IsrCallback
  BY <1>1, <1>4, NoEntryIsNone DEF IsrCallback, IsrTypes
<1>5. CASE IsrRespond
  BY <1>5 DEF IsrRespond, IsrTypes
<1>6. ASSUME NEW p \in Pins, Alarm(p) \/ Fault(p) \/ Charger PROVE isr' = isr
  BY <1>6, ChipActions
<1>7. ThreadStep \/ Ask => isr' = isr
  BY PinActions, FlagActions, BusActions DEF ThreadStep
<1>8. Core1Step \/ OtherEntry => isr' = isr
  BY Core1Actions
<1>9. UNCHANGED vars => isr' = isr
  BY DEF vars
<1>. QED
  BY <1>2, <1>3, <1>4, <1>5, <1>6, <1>7, <1>8, <1>9, ThePins DEF Next, Pins

\* Who changes call_queue and core1, and how.
LEMMA QueueChanges ==
    ASSUME Next
    PROVE  \/ UNCHANGED <<call_queue, core1>>
           \/ IsrCallback \/ IsrRespond \/ Core1Step
<1>1. ASSUME NEW p \in Pins, Alarm(p) \/ Fault(p) \/ Charger
      PROVE  UNCHANGED <<call_queue, core1>>
  BY <1>1, ChipActions
<1>2. ASSUME NEW p \in Pins, IsrTake(p) PROVE UNCHANGED <<call_queue, core1>>
  BY <1>2 DEF IsrTake
<1>3. ThreadStep \/ Ask => UNCHANGED <<call_queue, core1>>
  BY PinActions, FlagActions, BusActions DEF ThreadStep
<1>4. OtherEntry => UNCHANGED <<call_queue, core1>>
  BY DEF OtherEntry
<1>. QED
  BY <1>1, <1>2, <1>3, <1>4, ThePins DEF Next, Pins

LEMMA QueueTypesKept == ASSUME Types, [Next]_vars PROVE QueueTypes'
<1>1. QueueTypes /\ IsrTypes
  BY DEF Types
<1>2. CASE UNCHANGED <<call_queue, core1>>
  BY <1>1, <1>2 DEF QueueTypes
<1>3. CASE IsrCallback
  <2>1. isr.pin \in Pins
    BY <1>1, <1>3, NoEntryIsNone DEF IsrCallback, IsrTypes
  <2>2. Entry("handle", isr.pin) \in Entries
    BY <2>1, EntryTypes
  <2>. QED
    BY <1>1, <1>3, <2>2, AppendProperties DEF IsrCallback, QueueTypes
<1>4. CASE IsrRespond
  <2>1. isr.pin \in Pins
    BY <1>1, <1>4, NoEntryIsNone DEF IsrRespond, IsrTypes
  <2>2. Entry("response", isr.pin) \in Entries
    BY <2>1, EntryTypes
  <2>. QED
    BY <1>1, <1>4, <2>2, AppendProperties DEF IsrRespond, QueueTypes
<1>5. CASE Core1Pop
  <2>1. Head(call_queue) \in Entries /\ Tail(call_queue) \in Seq(Entries)
    BY <1>1, <1>5, HeadTailProperties DEF Core1Pop, QueueTypes
  <2>. QED
    BY <1>5, <2>1 DEF Core1Pop, QueueTypes
<1>6. Respond \/ HandleFlag \/ HandleAlarm \/ HandlerClear
        => core1' = IdleCore1 /\ call_queue' = call_queue
  BY DEF Respond, HandleFlag, HandleAlarm, HandlerClear
<1>7. CASE HandleFill \/ HandleSelect \/ HandleFault
  <2>1. core1.at # "pop" /\ call_queue' = call_queue
    BY <1>7 DEF HandleFill, HandleSelect, HandleFault, Core1Runs, Core1Reads
  <2>2. core1 \in [at : {"run", "select", "read", "clear"}, entry : Entries]
    BY <1>1, <2>1, NoEntryIsNone DEF QueueTypes
  <2>3. \/ core1' = IdleCore1
        \/ \E w \in {"select", "read", "clear"} : core1' = [core1 EXCEPT !.at = w]
    BY <1>7 DEF HandleFill, HandleSelect, HandleFault
  <2>. QED
    BY <1>1, <2>1, <2>2, <2>3 DEF QueueTypes
<1>8. CASE core1' = IdleCore1 /\ call_queue' = call_queue
  BY <1>1, <1>8 DEF QueueTypes
<1>9. UNCHANGED vars => UNCHANGED <<call_queue, core1>>
  BY DEF vars
<1>. QED
  BY <1>2, <1>3, <1>4, <1>5, <1>6, <1>7, <1>8, <1>9, QueueChanges DEF Core1Step

\* Only core 0's thread moves on, one statement at a time, save that a request for
\* the state skips the motor levels.
LEMMA ThreadMoves ==
    ASSUME ThreadTypes, Next
    PROVE  \/ UNCHANGED <<pc, halted>>
           \/ /\ ThreadStep \/ Ask
              /\ halted.do = "no"
              /\ isr = IdleIsr
              /\ \A p \in Pins : latched[p] = {}
              /\ \/ Proceed /\ halted' = halted
                 \/ Ask /\ pc = 60 /\ pc' = 63 /\ halted' = halted
                 \/ /\ Timeout \/ High \/ VerifyFault \/ Fetch
                    /\ halted' = Program[pc] /\ pc' = pc
                    /\ halted'.do \in {"await", "high", "verify", "check"}
                    /\ halted'.do = "await" => Timeout
<1>1. ASSUME NEW p \in Pins, Alarm(p) \/ Fault(p) \/ Charger
      PROVE  UNCHANGED <<pc, halted>>
  BY <1>1, ChipActions
<1>2. ASSUME NEW p \in Pins, IsrTake(p) \/ IsrCallback \/ IsrRespond
      PROVE  UNCHANGED <<pc, halted>>
  BY <1>2, IsrActions
<1>3. Core1Step \/ OtherEntry => UNCHANGED <<pc, halted>>
  BY Core1Actions
<1>4. Mask \/ Send \/ Drive \/ Release \/ ClearFault => Proceed /\ halted' = halted
  BY DEF Mask, Send, Drive, Release, ClearFault
<1>5. Start \/ Stop \/ Reset \/ Await \/ Fill \/ Point \/ ReadFault
        => Proceed /\ halted' = halted
  BY DEF Start, Stop, Reset, Await, Fill, Point, ReadFault, OnlyFlags, OnlyBus
<1>6. Timeout => halted' = Program[pc] /\ pc' = pc /\ halted'.do = "await"
  BY DEF Timeout, At
<1>7. High => \/ Proceed /\ halted' = halted
              \/ halted' = Program[pc] /\ pc' = pc /\ halted'.do = "high"
  BY DEF High, Assert, At
<1>8. VerifyFault => \/ Proceed /\ halted' = halted
                     \/ halted' = Program[pc] /\ pc' = pc /\ halted'.do = "verify"
  BY DEF VerifyFault, Assert, At
<1>9. Fetch => \/ Proceed /\ halted' = halted
               \/ halted' = Program[pc] /\ pc' = pc /\ halted'.do = "check"
  BY DEF Fetch, Assert, At
<1>10. Ask => (Proceed \/ (pc = 60 /\ pc' = 63)) /\ halted' = halted
  <2>1. At("ask") => pc = 60
    BY WhereIs DEF ThreadTypes
  <2>. QED
    BY <2>1, ProgramTypes DEF Ask, OnlyFlags
<1>11. ThreadStep \/ Ask => /\ halted.do = "no" /\ isr = IdleIsr
                            /\ \A p \in Pins : latched[p] = {}
  BY DEF ThreadStep, Mask, Fill, Send, Point, Fetch, Drive, Release, High, Start, Stop,
         Reset, Await, Timeout, ReadFault, ClearFault, VerifyFault, Ask, At
<1>12. CASE ThreadStep \/ Ask
  <2>1. CASE Ask
    BY <1>10, <1>11, <2>1
  <2>2. CASE ThreadStep
    BY <1>4, <1>5, <1>6, <1>7, <1>8, <1>9, <1>11, <2>2 DEF ThreadStep
  <2>. QED
    BY <1>12, <2>1, <2>2
<1>. QED
  BY <1>1, <1>2, <1>3, <1>12, ThePins DEF Next, Pins

LEMMA ThreadTypesKept == ASSUME Types, [Next]_vars PROVE ThreadTypes'
<1>1. ThreadTypes
  BY DEF Types
<1>2. CASE UNCHANGED vars
  BY <1>1, <1>2 DEF vars, core0, ThreadTypes
<1>3. CASE Next
  <2>1. pc \in 1..74 /\ (Proceed => pc' \in 1..74)
    BY <1>1, Goes DEF ThreadTypes
  <2>2. pc' = 63 => pc' \in 1..74
    OBVIOUS
  <2>3. halted.do \in {"no", "await", "high", "verify", "check"}
    BY <1>1 DEF ThreadTypes
  <2>4. \/ UNCHANGED <<pc, halted>>
        \/ Proceed /\ halted' = halted
        \/ pc' = 63 /\ halted' = halted
        \/ pc' = pc /\ halted'.do \in {"await", "high", "verify", "check"}
    BY <1>1, <1>3, ThreadMoves
  <2>5. pc' \in 1..74
    BY <2>1, <2>2, <2>4
  <2>6. halted'.do \in {"no", "await", "high", "verify", "check"}
    BY <2>3, <2>4
  <2>. QED
    BY <2>5, <2>6 DEF ThreadTypes
<1>. QED
  BY <1>2, <1>3

LEMMA FlagTypesKept == ASSUME Types, [Next]_vars PROVE FlagTypes'
<1>1. FlagTypes /\ ThreadTypes /\ QueueTypes /\ ChipTypes
  BY DEF Types
<1>2. On \in Pins /\ Driver(On) \in Drivers
  BY <1>1, OnTypes, DriverTypes DEF ThreadTypes
<1>3. CASE UNCHANGED <<started, completed, fault_values, events, fresh>>
  BY <1>1, <1>3 DEF FlagTypes
<1>4. ASSUME NEW p \in Pins, Happens(p) PROVE events' \in 0..MaxEvents
  BY <1>1, <1>4, SelfTestAssumption DEF Happens, FlagTypes
<1>5. ASSUME NEW p \in AlarmPins \cup FaultPins, Alarm(p) PROVE FlagTypes'
  BY <1>1, <1>4, <1>5 DEF Alarm, Happens, core0, FlagTypes, Pins
<1>6. CASE Charger
  BY <1>1, <1>4, <1>6 DEF Charger, Happens, core0, FlagTypes, Pins
<1>7. ASSUME NEW p \in FaultPins, Fault(p) PROVE FlagTypes'
  <2>1. events' \in 0..MaxEvents
    BY <1>4, <1>7 DEF Fault, Pins
  <2>2. fresh' \in [FaultPins -> SUBSET {0, 1}]
    BY <1>1, <1>7 DEF Fault, FlagTypes
  <2>. QED
    BY <1>1, <1>7, <2>1, <2>2 DEF Fault, Happens, core0, FlagTypes
<1>8. ASSUME NEW p \in Pins, IsrTake(p) \/ IsrCallback \/ IsrRespond PROVE FlagTypes'
  BY <1>3, <1>8, IsrActions
<1>9. Mask \/ Send \/ Fetch \/ Drive \/ Release \/ High \/ VerifyFault
         => UNCHANGED <<started, completed, fault_values, events, fresh>>
  BY PinActions DEF Mask, Send, Fetch, Drive, Release, High, VerifyFault
<1>10. CASE ClearFault
  <2>1. UNCHANGED <<started, completed, fault_values, events>>
    BY <1>10, PinActions
  <2>2. fresh' \in [FaultPins -> SUBSET {0, 1}]
    BY <1>1, <1>10 DEF ClearFault, FlagTypes
  <2>. QED
    BY <1>1, <2>1, <2>2 DEF FlagTypes
<1>11. CASE Start
  BY <1>1, <1>2, <1>11 DEF Start, OnlyFlags, FlagTypes
<1>12. CASE Stop
  BY <1>1, <1>12 DEF Stop, OnlyFlags, FlagTypes
<1>13. CASE Reset
  BY <1>1, <1>13 DEF Reset, OnlyFlags, FlagTypes
<1>14. Await \/ Ask \/ Timeout => UNCHANGED <<started, completed, fault_values, events, fresh>>
  BY DEF Await, Ask, Timeout, OnlyFlags, histories
<1>15. CASE ReadFault
  <2>1. PICK seen \in Seen(On) : fault_values' = [fault_values EXCEPT ![On] = seen]
    BY <1>15 DEF ReadFault
  <2>2. seen \in {"none", "status", "fault"}
    BY <1>1, <1>2, <2>1 DEF ChipTypes, Seen
  <2>3. fault_values' \in [FaultPins -> {"none", "status", "fault"}]
    BY <1>1, <2>1, <2>2 DEF FlagTypes
  <2>4. UNCHANGED <<started, completed, events, fresh>>
    BY <1>15, BusActions
  <2>. QED
    BY <1>1, <2>3, <2>4 DEF FlagTypes
<1>16. Fill \/ Point => UNCHANGED <<started, completed, fault_values, events, fresh>>
  BY BusActions DEF Fill, Point
<1>17. CASE Respond
  <2>1. Driver(core1.entry.pin) \in Drivers
    BY <1>17, DriverTypes DEF Respond, Core1Runs
  <2>. QED
    BY <1>1, <1>17, <2>1 DEF Respond, histories, FlagTypes
<1>18. Core1Pop \/ HandleFlag \/ HandleFill \/ HandleSelect \/ HandleAlarm \/ HandleFault
         => UNCHANGED <<started, completed, fault_values, events, fresh>>
  BY DEF Core1Pop, HandleFlag, HandleFill, HandleSelect, HandleAlarm, HandleFault, core0,
         histories
<1>19. CASE HandlerClear
  <2>1. UNCHANGED <<started, completed, fault_values, events>>
    BY <1>19 DEF HandlerClear, core0
  <2>2. fresh' \in [FaultPins -> SUBSET {0, 1}]
    BY <1>1, <1>19 DEF HandlerClear, FlagTypes
  <2>. QED
    BY <1>1, <2>1, <2>2 DEF FlagTypes
<1>20. CASE OtherEntry
  BY <1>1, <1>20, SelfTestAssumption DEF OtherEntry, core0, histories, FlagTypes
<1>21. UNCHANGED vars => UNCHANGED <<started, completed, fault_values, events, fresh>>
  BY DEF vars, core0, histories
<1>22. CASE ThreadStep
  BY <1>3, <1>9, <1>10, <1>11, <1>12, <1>13, <1>14, <1>15, <1>16, <1>22 DEF ThreadStep
<1>23. CASE Core1Step
  BY <1>3, <1>17, <1>18, <1>19, <1>23 DEF Core1Step
<1>. QED
  BY <1>3, <1>5, <1>6, <1>7, <1>8, <1>14, <1>20, <1>21, <1>22, <1>23, ThePins DEF Next

LEMMA FaultOn ==
    ASSUME pc \in 1..74, At("read") \/ At("clear") \/ At("verify") \/ At("select")
    PROVE  On \in FaultPins
BY WhereIs DEF FaultPins

LEMMA AlarmOn ==
    ASSUME pc \in 1..74,
           At("mask") \/ At("unmask") \/ At("send") \/ At("fetch") \/ At("check")
    PROVE  On \in AlarmPins
BY WhereIs DEF AlarmPins

LEMMA BusTypesKept == ASSUME Types, [Next]_vars PROVE BusTypes'
<1>1. BusTypes /\ ThreadTypes /\ QueueTypes /\ pc \in 1..74
  BY DEF Types, ThreadTypes
<1>2. \A p : Moved(0, p) \/ Moved(1, p) => aimed' \subseteq aimed
  BY DEF Moved
<1>3. AimBySendBuf => aimed' \subseteq AlarmPins \cup FaultPins
  BY <1>1 DEF AimBySendBuf, BusTypes, AlarmPins
<1>4. CASE UNCHANGED <<send_buf, aimed, missed, misread>>
  BY <1>1, <1>4 DEF BusTypes
<1>5. ASSUME NEW p \in AlarmPins \cup FaultPins, Alarm(p) PROVE BusTypes'
  <2>1. missed' \subseteq AlarmPins
    BY <1>1, <1>5 DEF Alarm, BusTypes, AlarmPins
  <2>2. UNCHANGED <<send_buf, aimed, misread>>
    BY <1>5, ChipActions DEF Pins
  <2>. QED
    BY <1>1, <2>1, <2>2 DEF BusTypes
<1>6. ASSUME NEW p \in FaultPins, Fault(p) PROVE BusTypes'
  BY <1>4, <1>6, ChipActions DEF Pins, Fault
<1>7. CASE Charger
  BY <1>4, <1>7, ChipActions, ThePins DEF Charger
<1>8. ASSUME NEW p \in Pins, IsrTake(p) \/ IsrCallback \/ IsrRespond PROVE BusTypes'
  BY <1>4, <1>8, IsrActions
<1>9. CASE Mask \/ Send
  <2>1. UNCHANGED <<send_buf, missed, misread>> /\ aimed' \subseteq aimed
    BY <1>9, PinActions DEF Mask, Send
  <2>. QED
    BY <1>1, <2>1 DEF BusTypes
<1>10. CASE Fetch
  <2>1. UNCHANGED <<send_buf, misread>> /\ aimed' \subseteq aimed /\ missed' \subseteq missed
    BY <1>10, PinActions DEF Fetch
  <2>. QED
    BY <1>1, <2>1 DEF BusTypes
<1>11. CASE Drive \/ Release \/ High
  BY <1>4, <1>11, PinActions DEF Drive, Release, High
<1>12. CASE ClearFault \/ VerifyFault
  <2>1. UNCHANGED <<send_buf, missed>> /\ misread' \subseteq misread
    BY <1>12, PinActions DEF ClearFault, VerifyFault
  <2>2. aimed' \subseteq aimed
    BY <1>2, <1>12 DEF ClearFault, VerifyFault
  <2>. QED
    BY <1>1, <2>1, <2>2 DEF BusTypes
<1>13. CASE Start \/ Stop \/ Reset \/ Await \/ Ask \/ Timeout
  BY <1>4, <1>13, FlagActions
<1>14. CASE Fill
  <2>1. UNCHANGED <<aimed, missed, misread>>
    BY <1>14, BusActions DEF Fill
  <2>2. send_buf' \in {"all masked", "masks", "int", "other"}
    BY <1>14 DEF Fill
  <2>. QED
    BY <1>1, <2>1, <2>2 DEF BusTypes
<1>15. CASE Point
  <2>1. UNCHANGED <<send_buf, missed, misread>>
    BY <1>15, BusActions DEF Point
  <2>2. At("select") => On \in FaultPins
    BY <1>1, FaultOn
  <2>3. aimed' \subseteq AlarmPins \cup FaultPins
    BY <1>1, <1>2, <1>3, <1>15, <2>2 DEF Point, BusTypes
  <2>. QED
    BY <1>1, <2>1, <2>3 DEF BusTypes
<1>16. CASE ReadFault
  <2>1. On \in FaultPins
    BY <1>1, <1>16, FaultOn DEF ReadFault
  <2>2. misread' \subseteq {0, 1} \X FaultPins
    <3>1. <<0, On>> \in {0, 1} \X FaultPins
      BY <2>1
    <3>2. misread' \subseteq misread \cup {<<0, On>>}
      BY <1>16 DEF ReadFault, Noted
    <3>. QED
      BY <1>1, <3>1, <3>2 DEF BusTypes
  <2>3. send_buf' = send_buf /\ missed' = missed /\ aimed' \subseteq aimed
    BY <1>2, <1>16, BusActions DEF ReadFault
  <2>. QED
    BY <1>1, <2>2, <2>3 DEF BusTypes
<1>17. CASE Core1Pop \/ Respond \/ HandleFlag
  BY <1>4, <1>17 DEF Core1Pop, Respond, HandleFlag, bus, histories
<1>18. CASE HandleFill \/ OtherEntry
  <2>1. UNCHANGED <<missed, misread>> /\ aimed' \subseteq aimed
    BY <1>18 DEF HandleFill, OtherEntry, histories
  <2>2. send_buf' \in {"all masked", "masks", "int", "other"}
    BY <1>18 DEF HandleFill, OtherEntry
  <2>. QED
    BY <1>1, <2>1, <2>2 DEF BusTypes
<1>19. CASE HandleSelect
  <2>1. UNCHANGED <<send_buf, missed, misread>>
    BY <1>19 DEF HandleSelect, histories
  <2>2. aimed' \subseteq AlarmPins \cup FaultPins
    BY <1>1, <1>3, <1>19 DEF HandleSelect, Core1Runs, BusTypes, AlarmPins
  <2>. QED
    BY <1>1, <2>1, <2>2 DEF BusTypes
<1>20. CASE HandleAlarm
  <2>1. UNCHANGED <<send_buf, misread>> /\ aimed' \subseteq aimed
    BY <1>20 DEF HandleAlarm
  <2>2. missed' \subseteq AlarmPins
    BY <1>1, <1>20 DEF HandleAlarm, Core1Reads, BusTypes
  <2>. QED
    BY <1>1, <2>1, <2>2 DEF BusTypes
<1>21. CASE HandleFault
  <2>1. UNCHANGED <<send_buf, missed>> /\ aimed' \subseteq aimed
    BY <1>2, <1>21 DEF HandleFault
  <2>2. misread' \subseteq {0, 1} \X FaultPins
    <3>1. <<1, core1.entry.pin>> \in {0, 1} \X FaultPins
      BY <1>21 DEF HandleFault, Core1Reads
    <3>2. misread' \subseteq misread \cup {<<1, core1.entry.pin>>}
      BY <1>21 DEF HandleFault, Noted
    <3>. QED
      BY <1>1, <3>1, <3>2 DEF BusTypes
  <2>. QED
    BY <1>1, <2>1, <2>2 DEF BusTypes
<1>22. CASE HandlerClear
  <2>1. UNCHANGED <<send_buf, missed>> /\ aimed' \subseteq aimed /\ misread' \subseteq misread
    BY <1>2, <1>22 DEF HandlerClear
  <2>. QED
    BY <1>1, <2>1 DEF BusTypes
<1>23. CASE UNCHANGED vars
  BY <1>4, <1>23 DEF vars, bus, histories
<1>24. CASE ThreadStep
  BY <1>9, <1>10, <1>11, <1>12, <1>13, <1>14, <1>15, <1>16, <1>24 DEF ThreadStep
<1>25. CASE Core1Step
  BY <1>17, <1>18, <1>19, <1>20, <1>21, <1>22, <1>25 DEF Core1Step
<1>. QED
  BY <1>5, <1>6, <1>7, <1>8, <1>13, <1>18, <1>23, <1>24, <1>25, ThePins DEF Next

\* Every variable has values of its kind at every time.  In particular the thread
\* never leaves the program: main asks for the next request for ever.
THEOREM TypeCorrect == Spec => []TypeOK
<1>1. Init => Types
  BY TypesAtStart, TypesAre
<1>2. Types /\ [Next]_vars => Types'
  BY ChipTypesKept, PinTypesKept, IsrTypesKept, QueueTypesKept, ThreadTypesKept,
     FlagTypesKept, BusTypesKept DEF Types
<1>3. Spec => []Types
  BY <1>1, <1>2, PTL DEF Spec
<1>. QED
  BY <1>3, TypesAre, PTL


-----------------------------------------------------------------------------
(* Whether the MAX77976 is masked, which pins are driven and which tests     *)
(* announced, by the place core 0 is at.  The MAX77958 may be masked at any   *)
(* time, as its masks can go astray.                                          *)

MaskedAt == "IRQB" \in masked <=> (pc \in 12..14 \/ pc \in 16..18 \/ pc \in 20..26)

DrivenAt ==
    /\ "INTB" \in driven <=> pc \in 5..6
    /\ "IRQB" \in driven <=> pc \in 22..23
    /\ "FLAG" \in driven <=> pc \in 29..33
    /\ "FAULT1" \in driven <=> pc \in 44..45
    /\ "FAULT2" \in driven <=> pc \in 50..51

\* The two tests of the DRV8830 share one flag, and the flag of the NCP3901 stays
\* set.
StartedAt ==
    /\ "MAX77958" \in started <=> pc \in 4..7
    /\ "MAX77976" \in started <=> pc \in 21..24
    /\ "NCP3901" \in started <=> (pc \in 28..30 \/ pc \in 33..74)
    /\ "DRV8830" \in started <=> (pc \in 43..46 \/ pc \in 49..52)

Position == MaskedAt /\ DrivenAt /\ StartedAt

LEMMA PositionAtStart == ASSUME Init PROVE Position
BY DEF Init, Position, MaskedAt, DrivenAt, StartedAt

LEMMA DriverNames ==
    /\ Driver("INTB") = "MAX77958" /\ Driver("IRQB") = "MAX77976"
    /\ Driver("FLAG") = "NCP3901" /\ Driver("FAULT1") = "DRV8830"
    /\ Driver("FAULT2") = "DRV8830"
BY DriverTypes DEF FaultPins

LEMMA OnlyThreadPositions ==
    ASSUME Next
    PROVE  \/ ThreadStep \/ Ask
           \/ UNCHANGED <<pc, halted, masked, driven, started, completed, silent>>
           \/ Respond /\ UNCHANGED <<pc, halted, masked, driven, started, silent>>
<1>1. ASSUME NEW p \in Pins, Alarm(p) \/ Fault(p) \/ Charger
      PROVE  UNCHANGED <<pc, halted, masked, driven, started, completed, silent>>
  BY <1>1, ChipActions
<1>2. ASSUME NEW p \in Pins, IsrTake(p) \/ IsrCallback \/ IsrRespond
      PROVE  UNCHANGED <<pc, halted, masked, driven, started, completed, silent>>
  BY <1>2, IsrActions
<1>3. Core1Pop \/ HandleFlag \/ HandleFill \/ HandleSelect \/ HandleAlarm \/ HandleFault
        \/ HandlerClear \/ OtherEntry
        => UNCHANGED <<pc, halted, masked, driven, started, completed, silent>>
  BY DEF Core1Pop, HandleFlag, HandleFill, HandleSelect, HandleAlarm, HandleFault,
         HandlerClear, OtherEntry, core0, histories
<1>4. Respond => UNCHANGED <<pc, halted, masked, driven, started, silent>>
  BY Core1Actions DEF Core1Step
<1>. QED
  BY <1>1, <1>2, <1>3, <1>4, ThePins DEF Next, Core1Step, Pins

LEMMA PositionKept == ASSUME Types, Position, [Next]_vars PROVE Position'
<1>1. pc \in 1..74 /\ MaskedAt /\ DrivenAt /\ StartedAt
  BY DEF Types, ThreadTypes, Position
<1>2. CASE UNCHANGED <<pc, masked, driven, started>>
  BY <1>1, <1>2 DEF Position, MaskedAt, DrivenAt, StartedAt
<1>3. CASE Mask
  <2>1. Proceed /\ driven' = driven /\ started' = started
    BY <1>3, PinActions DEF Mask
  <2>2. \/ (pc = 11 \/ pc = 15 \/ pc = 19) /\ masked' = masked \cup {On}
        \/ (pc = 14 \/ pc = 18 \/ pc = 26) /\ masked' = masked \ {On}
    BY <1>1, <1>3, WhereIs DEF Mask
  <2>3. On = "IRQB"
    BY <1>1, <1>3, WhereIs DEF Mask
  <2>4. pc' = pc + 1
    BY <1>1, <2>1, <2>2, Goes
  <2>5. MaskedAt'
    BY <1>1, <2>2, <2>3, <2>4 DEF MaskedAt
  <2>6. DrivenAt'
    BY <1>1, <2>1, <2>2, <2>4 DEF DrivenAt
  <2>7. StartedAt'
    BY <1>1, <2>1, <2>2, <2>4 DEF StartedAt
  <2>. QED
    BY <2>5, <2>6, <2>7 DEF Position
<1>4. CASE Send
  <2>1. Proceed /\ driven' = driven /\ started' = started
    BY <1>4, PinActions DEF Send
  <2>2. (pc = 2 \/ pc = 10) /\ On = "INTB"
    BY <1>1, <1>4, WhereIs DEF Send
  <2>3. "IRQB" \in masked' <=> "IRQB" \in masked
    BY <1>4, <2>2 DEF Send
  <2>4. pc' = pc + 1
    BY <1>1, <2>1, <2>2, Goes
  <2>5. MaskedAt'
    BY <1>1, <2>2, <2>3, <2>4 DEF MaskedAt
  <2>6. DrivenAt'
    BY <1>1, <2>1, <2>2, <2>4 DEF DrivenAt
  <2>7. StartedAt'
    BY <1>1, <2>1, <2>2, <2>4 DEF StartedAt
  <2>. QED
    BY <2>5, <2>6, <2>7 DEF Position
<1>5. CASE Drive
  <2>1. Proceed /\ masked' = masked /\ started' = started /\ driven' = driven \cup {On}
    BY <1>5, PinActions DEF Drive
  <2>2. \/ (pc = 4 /\ On = "INTB") \/ (pc = 21 /\ On = "IRQB")
        \/ (pc = 28 /\ On = "FLAG") \/ (pc = 43 /\ On = "FAULT1")
        \/ (pc = 49 /\ On = "FAULT2")
    BY <1>1, <1>5, WhereIs DEF Drive
  <2>3. pc' = pc + 1
    BY <1>1, <2>1, <2>2, Goes
  <2>4. MaskedAt'
    BY <1>1, <2>1, <2>2, <2>3 DEF MaskedAt
  <2>5. DrivenAt'
    BY <1>1, <2>1, <2>2, <2>3 DEF DrivenAt
  <2>6. StartedAt'
    BY <1>1, <2>1, <2>2, <2>3 DEF StartedAt
  <2>. QED
    BY <2>4, <2>5, <2>6 DEF Position
<1>6. CASE Release
  <2>1. Proceed /\ masked' = masked /\ started' = started /\ driven' = driven \ {On}
    BY <1>6, PinActions DEF Release
  <2>2. \/ (pc = 6 /\ On = "INTB") \/ (pc = 23 /\ On = "IRQB")
        \/ (pc = 33 /\ On = "FLAG") \/ (pc = 45 /\ On = "FAULT1")
        \/ (pc = 51 /\ On = "FAULT2")
    BY <1>1, <1>6, WhereIs DEF Release
  <2>3. pc' = pc + 1
    BY <1>1, <2>1, <2>2, Goes
  <2>4. MaskedAt'
    BY <1>1, <2>1, <2>2, <2>3 DEF MaskedAt
  <2>5. DrivenAt'
    BY <1>1, <2>1, <2>2, <2>3 DEF DrivenAt
  <2>6. StartedAt'
    BY <1>1, <2>1, <2>2, <2>3 DEF StartedAt
  <2>. QED
    BY <2>4, <2>5, <2>6 DEF Position
<1>7. CASE Start
  <2>1. Proceed /\ masked' = masked /\ driven' = driven /\ started' = started \cup {Driver(On)}
    BY <1>7, FlagActions DEF Start
  <2>2. \/ pc = 3 /\ Driver(On) = "MAX77958"
        \/ pc = 20 /\ Driver(On) = "MAX77976"
        \/ (pc = 27 \/ pc = 32) /\ Driver(On) = "NCP3901"
        \/ (pc = 42 \/ pc = 48) /\ Driver(On) = "DRV8830"
    BY <1>1, <1>7, WhereIs, DriverNames DEF Start
  <2>3. pc' = pc + 1
    BY <1>1, <2>1, <2>2, Goes
  <2>4. MaskedAt'
    BY <1>1, <2>1, <2>2, <2>3 DEF MaskedAt
  <2>5. DrivenAt'
    BY <1>1, <2>1, <2>2, <2>3 DEF DrivenAt
  <2>6. StartedAt'
    BY <1>1, <2>1, <2>2, <2>3 DEF StartedAt
  <2>. QED
    BY <2>4, <2>5, <2>6 DEF Position
<1>8. CASE Stop
  <2>1. Proceed /\ masked' = masked /\ driven' = driven /\ started' = started \ {Driver(On)}
    BY <1>8, FlagActions DEF Stop
  <2>2. \/ pc = 7 /\ Driver(On) = "MAX77958"
        \/ pc = 24 /\ Driver(On) = "MAX77976"
        \/ pc = 30 /\ Driver(On) = "NCP3901"
        \/ (pc = 46 \/ pc = 52) /\ Driver(On) = "DRV8830"
    BY <1>1, <1>8, WhereIs, DriverNames DEF Stop
  <2>3. pc' = pc + 1
    BY <1>1, <2>1, <2>2, Goes
  <2>4. MaskedAt'
    BY <1>1, <2>1, <2>2, <2>3 DEF MaskedAt
  <2>5. DrivenAt'
    BY <1>1, <2>1, <2>2, <2>3 DEF DrivenAt
  <2>6. StartedAt'
    BY <1>1, <2>1, <2>2, <2>3 DEF StartedAt
  <2>. QED
    BY <2>4, <2>5, <2>6 DEF Position
<1>9. ASSUME \/ Fill \/ Point \/ Fetch \/ High \/ Reset \/ Await \/ Timeout \/ ReadFault
             \/ ClearFault \/ VerifyFault \/ Ask,
             Next
      PROVE  Position'
  <2>1. UNCHANGED <<masked, driven, started>>
    <3>1. Fill \/ Point \/ ReadFault => UNCHANGED <<masked, driven, started>>
      BY BusActions
    <3>2. Reset \/ Await \/ Ask \/ Timeout => UNCHANGED <<masked, driven, started>>
      BY FlagActions DEF Reset, Await, Ask, Timeout
    <3>3. Fetch \/ High \/ ClearFault \/ VerifyFault => UNCHANGED <<masked, driven, started>>
      BY PinActions DEF Fetch, High, ClearFault, VerifyFault
    <3>. QED
      BY <1>9, <3>1, <3>2, <3>3
  <2>2. pc' = pc \/ Proceed \/ (pc = 60 /\ pc' = 63)
    BY <1>1, <1>9, ThreadMoves DEF ThreadTypes, Types
  <2>3. \/ pc \in {1, 5, 8, 9, 12, 13, 16, 17, 22, 25, 29, 31, 34, 35, 44, 47, 50}
        \/ pc \in 36..41
        \/ pc \in 53..74
    <3>1. \/ At("fill_all") \/ At("fill_some") \/ At("fill_reg") \/ At("point") \/ At("aim")
          \/ At("select") \/ At("move") \/ At("fetch") \/ At("check")
          \/ At("high") \/ At("reset") \/ At("await") \/ At("read") \/ At("clear")
          \/ At("verify") \/ At("ask")
      BY <1>9 DEF Fill, Point, Fetch, High, Reset, Await, Timeout, ReadFault, ClearFault,
                  VerifyFault, Ask
    <3>. QED
      BY <1>1, <3>1, WhereIs
  <2>4. Proceed => IF pc = 74 THEN pc' = 60 ELSE pc' = pc + 1
    BY <1>1, Goes
  <2>5. MaskedAt'
    BY <1>1, <2>1, <2>2, <2>3, <2>4 DEF MaskedAt
  <2>6. DrivenAt'
    BY <1>1, <2>1, <2>2, <2>3, <2>4 DEF DrivenAt
  <2>7. StartedAt'
    BY <1>1, <2>1, <2>2, <2>3, <2>4 DEF StartedAt
  <2>. QED
    BY <2>5, <2>6, <2>7 DEF Position
<1>10. UNCHANGED vars => UNCHANGED <<pc, masked, driven, started>>
  BY DEF vars, core0
<1>11. CASE Next
  BY <1>2, <1>3, <1>4, <1>5, <1>6, <1>7, <1>8, <1>9, <1>11, OnlyThreadPositions DEF ThreadStep
<1>. QED
  BY <1>2, <1>10, <1>11

LEMMA TypesAndPosition == Spec => [](Types /\ Position)
<1>1. Init => Types /\ Position
  BY TypesAtStart, TypesAre, PositionAtStart
<1>2. Types /\ [Next]_vars => Types'
  BY ChipTypesKept, PinTypesKept, IsrTypesKept, QueueTypesKept, ThreadTypesKept,
     FlagTypesKept, BusTypesKept DEF Types
<1>3. Types /\ Position /\ [Next]_vars => (Types /\ Position)'
  BY <1>2, PositionKept
<1>. QED
  BY <1>1, <1>3, PTL DEF Spec

\* Once the tests are over, an interrupt queues its driver's handler and nothing
\* more: every started flag but the NCP3901's is down at the places from TestsLen
\* on, so that the last step of the callback adds no response.
THEOREM HandlerOnlyAfterTests == Spec => OneEntryAfterTests
<1>1. ASSUME Types, Position, [Next]_vars,
             TestsOver, isr.at = "respond", Driver(isr.pin) # "NCP3901"
      PROVE  Len(call_queue') <= Len(call_queue)
  <2>1. pc \in 53..74 /\ StartedAt /\ IsrTypes /\ QueueTypes
    BY <1>1, ProgramTypes DEF Types, ThreadTypes, Position, TestsOver
  <2>2. isr.pin \in {"INTB", "IRQB", "FAULT1", "FAULT2"}
    BY <1>1, <2>1, NoEntryIsNone, DriverNames
       DEF IsrTypes, Pins, AlarmPins, FaultPins
  <2>3. Driver(isr.pin) \notin started
    BY <2>1, <2>2, DriverNames DEF StartedAt
  <2>4. Len(call_queue) \in Nat
    BY <2>1, LenProperties DEF QueueTypes
  <2>5. CASE call_queue' = call_queue
    BY <2>4, <2>5
  <2>6. IsrRespond => call_queue' = call_queue
    BY <2>3 DEF IsrRespond
  <2>7. ~IsrCallback
    BY <1>1 DEF IsrCallback
  <2>8. CASE Core1Pop
    <3>1. call_queue # <<>> /\ call_queue' = Tail(call_queue)
      BY <2>8 DEF Core1Pop
    <3>2. Len(call_queue') = Len(call_queue) - 1
      BY <2>1, <3>1, HeadTailProperties DEF QueueTypes
    <3>. QED
      BY <2>4, <3>2
  <2>9. Respond \/ HandleFlag \/ HandleFill \/ HandleSelect \/ HandleAlarm \/ HandleFault
          \/ HandlerClear => call_queue' = call_queue
    BY DEF Respond, HandleFlag, HandleFill, HandleSelect, HandleAlarm, HandleFault,
           HandlerClear
  <2>10. UNCHANGED vars => call_queue' = call_queue
    BY DEF vars
  <2>. QED
    BY <1>1, <2>5, <2>6, <2>7, <2>8, <2>9, <2>10, QueueChanges DEF Core1Step
<1>2. Types /\ Position /\ [Next]_vars =>
        [TestsOver /\ isr.at = "respond" /\ Driver(isr.pin) # "NCP3901" =>
             Len(call_queue') <= Len(call_queue)]_vars
  BY <1>1
<1>. QED
  BY <1>2, TypesAndPosition, PTL DEF Spec, OneEntryAfterTests

-----------------------------------------------------------------------------
(* Alarms. *)

LEMMA LatchKeeps ==
    ASSUME PinTypes, Latch, NEW p \in Pins
    PROVE  /\ latched[p] \subseteq latched'[p]
           /\ ~Low(p) /\ Low(p)' => latched'[p] # {}
           /\ p = "FLAG" /\ Low(p) /\ ~Low(p)' => latched'[p] # {}
<1>1. latched'[p] = latched[p]
                    \cup {e \in {"fall"} : ~Low(p) /\ Low(p)'}
                    \cup {e \in {"rise"} : p = "FLAG" /\ Low(p) /\ ~Low(p)'}
  BY DEF Latch
<1>2. /\ ~Low(p) /\ Low(p)' => "fall" \in latched'[p]
      /\ p = "FLAG" /\ Low(p) /\ ~Low(p)' => "rise" \in latched'[p]
  BY <1>1
<1>. QED
  BY <1>1, <1>2

LEMMA WayKept ==
    ASSUME NEW p \in Pins, OnItsWay(p),
           latched[p] \subseteq latched'[p], isr' = isr, call_queue' = call_queue,
           core1'.entry = core1.entry \/ core1.entry # Entry("handle", p)
    PROVE  OnItsWay(p)'
BY DEF OnItsWay

\* The steps that change the pins' levels and read no alarm.
LevelStep == \/ \E q \in AlarmPins \cup FaultPins : Alarm(q)
             \/ \E q \in FaultPins : Fault(q)
             \/ Charger \/ Mask \/ Send \/ Drive \/ Release \/ ClearFault \/ HandlerClear

LEMMA LevelSteps ==
    ASSUME LevelStep
    PROVE  /\ Latch
           /\ isr' = isr
           /\ call_queue' = call_queue
           /\ core1' = core1 \/ HandlerClear
           /\ masked' = masked \/ Mask \/ Send
           /\ missed \subseteq missed'
<1>1. ASSUME NEW q, Alarm(q) \/ Fault(q)
      PROVE  /\ Latch /\ UNCHANGED <<isr, call_queue, core1, masked>>
             /\ missed \subseteq missed'
  BY <1>1 DEF Alarm, Fault, Happens
<1>2. CASE Charger
  BY <1>2 DEF Charger, Happens
<1>3. CASE Mask \/ Send \/ Drive \/ Release \/ ClearFault
  BY <1>3, PinActions DEF Mask, Send, Drive, Release, ClearFault
<1>4. CASE HandlerClear
  BY <1>4 DEF HandlerClear
<1>. QED
  BY <1>1, <1>2, <1>3, <1>4 DEF LevelStep

\* The steps that leave the levels alone.
LEMMA OtherSteps ==
    ASSUME Next
    PROVE  \/ LevelStep
           \/ Fetch \/ HandleAlarm
           \/ /\ UNCHANGED <<chip, masked, driven, missed>>
              /\ \/ \E q \in Pins : IsrTake(q)
                 \/ IsrCallback \/ IsrRespond \/ Core1Pop \/ Respond \/ HandleFlag
                 \/ HandleFill \/ HandleSelect \/ HandleFault
                 \/ UNCHANGED <<latched, isr, call_queue, core1>>
<1>1. ASSUME NEW q \in Pins, IsrTake(q) PROVE UNCHANGED <<chip, masked, driven, missed>>
  BY <1>1, IsrActions
<1>2. IsrCallback \/ IsrRespond => UNCHANGED <<chip, masked, driven, missed>>
  BY IsrActions, ThePins
<1>3. Core1Pop \/ Respond \/ HandleFlag \/ HandleFill \/ HandleSelect \/ HandleFault
        => UNCHANGED <<chip, masked, driven, missed>>
  BY DEF Core1Pop, Respond, HandleFlag, HandleFill, HandleSelect, HandleFault, histories
<1>4. High \/ VerifyFault
        => UNCHANGED <<chip, masked, driven, missed, latched, isr, call_queue, core1>>
  BY DEF High, VerifyFault, OnlyPins
<1>5. Start \/ Stop \/ Reset \/ Await \/ Ask \/ Timeout
        => UNCHANGED <<chip, masked, driven, missed, latched, isr, call_queue, core1>>
  BY FlagActions
<1>6. Fill \/ Point \/ ReadFault
        => UNCHANGED <<chip, masked, driven, missed, latched, isr, call_queue, core1>>
  BY BusActions
<1>7. OtherEntry
        => UNCHANGED <<chip, masked, driven, missed, latched, isr, call_queue, core1>>
  BY DEF OtherEntry, histories
<1>8. ASSUME NEW q \in AlarmPins \cup FaultPins, Alarm(q) PROVE LevelStep
  BY <1>8 DEF LevelStep
<1>9. ASSUME NEW q \in FaultPins, Fault(q) PROVE LevelStep
  BY <1>9 DEF LevelStep
<1>10. Charger \/ Mask \/ Send \/ Drive \/ Release \/ ClearFault \/ HandlerClear => LevelStep
  BY DEF LevelStep
<1>11. CASE ThreadStep
  BY <1>4, <1>5, <1>6, <1>10, <1>11 DEF ThreadStep
<1>12. CASE Core1Step
  BY <1>3, <1>10, <1>12 DEF Core1Step
<1>. QED
  BY <1>1, <1>2, <1>5, <1>7, <1>8, <1>9, <1>10, <1>11, <1>12 DEF Next

\* The MAX77976 is masked while its test drives the pin; neither chip is unmasked
\* before the pin is released.
LEMMA DrivenIsMasked ==
    ASSUME Types, Position, NEW p \in AlarmPins
    PROVE  /\ p = "IRQB" /\ p \in driven => p \in masked
           /\ (Mask \/ Send) /\ p \in masked /\ p \notin masked' => p \notin driven
<1>1. p \in {"INTB", "IRQB"} /\ pc \in 1..74 /\ MaskedAt /\ DrivenAt
  BY DEF AlarmPins, Types, ThreadTypes, Position
<1>2. p = "IRQB" /\ p \in driven => p \in masked
  BY <1>1 DEF MaskedAt, DrivenAt
<1>3. ASSUME Mask, p \in masked, p \notin masked' PROVE p \notin driven
  <2>1. \/ At("mask") /\ masked' = masked \cup {On}
        \/ At("unmask") /\ masked' = masked \ {On}
    BY <1>3 DEF Mask
  <2>2. At("unmask") /\ p = On
    BY <1>3, <2>1
  <2>3. p = "IRQB" /\ (pc = 14 \/ pc = 18 \/ pc = 26)
    BY <1>1, <2>2, WhereIs
  <2>. QED
    BY <1>1, <2>3 DEF DrivenAt
<1>4. ASSUME Send, p \in masked, p \notin masked' PROVE p \notin driven
  <2>1. At("send") /\ p = On
    BY <1>4 DEF Send
  <2>2. p = "INTB" /\ (pc = 2 \/ pc = 10)
    BY <1>1, <2>1, WhereIs
  <2>. QED
    BY <1>1, <2>2 DEF DrivenAt
<1>. QED
  BY <1>2, <1>3, <1>4

\* Where the chip of an alarm pin has nothing to say, only an alarm changes that.
LEMMA OnlyAlarms ==
    ASSUME Types, NEW p \in AlarmPins, LevelStep, chip[p] = "none", chip'[p] # "none"
    PROVE  Alarm(p)
<1>1. ChipTypes /\ p \in Pins /\ p \notin FaultPins /\ p # "FLAG"
  BY DEF Types, Pins, AlarmPins, FaultPins
<1>2. ASSUME NEW q \in AlarmPins \cup FaultPins, Alarm(q) PROVE Alarm(p)
  <2>1. q = p
    BY <1>1, <1>2 DEF Alarm, ChipTypes
  <2>. QED
    BY <1>2, <2>1
<1>3. ASSUME NEW q \in FaultPins PROVE ~Fault(q)
  BY <1>1 DEF Fault, ChipTypes
<1>4. ~Charger
  BY <1>1 DEF Charger, ChipTypes
<1>5. ~(Mask \/ Send \/ Drive \/ Release)
  BY DEF Mask, Send, Drive, Release
<1>6. ~ClearFault
  <2>1. SUFFICES ASSUME ClearFault PROVE FALSE
    OBVIOUS
  <2>2. PICK reg \in Cleared(On) : chip' = [chip EXCEPT ![On] = reg]
    BY <2>1 DEF ClearFault
  <2>3. On = p => reg = "none"
    BY <2>2 DEF Cleared
  <2>. QED
    BY <1>1, <2>2, <2>3 DEF ChipTypes
<1>7. ~HandlerClear
  <2>1. SUFFICES ASSUME HandlerClear PROVE FALSE
    OBVIOUS
  <2>2. PICK reg \in Cleared(core1.entry.pin) : chip' = [chip EXCEPT ![core1.entry.pin] = reg]
    BY <2>1 DEF HandlerClear
  <2>3. core1.entry.pin = p => reg = "none"
    BY <2>2 DEF Cleared
  <2>. QED
    BY <1>1, <2>2, <2>3 DEF ChipTypes
<1>. QED
  BY <1>2, <1>3, <1>4, <1>5, <1>6, <1>7 DEF LevelStep

LEMMA AlarmKept ==
    ASSUME Types, Position, AlarmOutlivesTest, [Next]_vars
    PROVE  AlarmOutlivesTest'
<1>. SUFFICES ASSUME NEW p \in AlarmPins, p \notin masked', p \notin missed',
                     chip'[p] # "none"
              PROVE  OnItsWay(p)'
  BY DEF AlarmOutlivesTest
<1>. DEFINE Quiet == UNCHANGED <<chip, masked, driven, missed>>
<1>1. p \in Pins /\ p \notin FaultPins /\ p # "FLAG"
  BY DEF Pins, AlarmPins, FaultPins
<1>2. p \notin masked /\ p \notin missed /\ chip[p] # "none" => OnItsWay(p)
  BY DEF AlarmOutlivesTest
<1>3. PinTypes /\ IsrTypes /\ QueueTypes /\ ChipTypes
  BY DEF Types
<1>4. CASE LevelStep
  <2>1. /\ Latch /\ isr' = isr /\ call_queue' = call_queue
        /\ core1' = core1 \/ HandlerClear
        /\ masked' = masked \/ Mask \/ Send
        /\ missed \subseteq missed'
    BY <1>4, LevelSteps
  <2>2. /\ latched[p] \subseteq latched'[p]
        /\ ~Low(p) /\ Low(p)' => latched'[p] # {}
    BY <1>1, <1>3, <2>1, LatchKeeps
  <2>3. Low(p)'
    BY DEF Low
  <2>4. CASE ~Low(p)
    BY <2>2, <2>3, <2>4 DEF OnItsWay
  <2>5. CASE Low(p)
    <3>1. p \notin masked
      BY <2>1, <2>5, DrivenIsMasked DEF Low
    <3>2. chip[p] # "none"
      <4>1. SUFFICES ASSUME chip[p] = "none" PROVE FALSE
        OBVIOUS
      <4>2. p \in driven
        BY <2>5, <4>1 DEF Low
      <4>3. p = "INTB"
        BY <3>1, <4>2, DrivenIsMasked DEF AlarmPins
      <4>4. Alarm(p)
        BY <1>4, <4>1, OnlyAlarms
      <4>5. p \in missed'
        BY <3>1, <4>2, <4>3, <4>4 DEF Alarm
      <4>. QED
        BY <4>5
    <3>3. p \notin missed
      BY <2>1
    <3>4. core1' = core1 \/ core1.entry # Entry("handle", p)
      <4>1. CASE HandlerClear
        <5>1. PICK reg \in Cleared(core1.entry.pin) :
                  chip' = [chip EXCEPT ![core1.entry.pin] = reg]
          BY <4>1 DEF HandlerClear
        <5>2. core1.entry.pin # p
          <6>1. SUFFICES ASSUME core1.entry.pin = p PROVE FALSE
            OBVIOUS
          <6>2. reg = "none"
            BY <1>1, <1>3, <5>1, <6>1 DEF Cleared, ChipTypes
          <6>. QED
            BY <1>1, <1>3, <5>1, <6>1, <6>2 DEF ChipTypes
        <5>. QED
          BY <5>2 DEF Entry
      <4>. QED
        BY <2>1, <4>1
    <3>5. OnItsWay(p)
      BY <1>2, <3>1, <3>2, <3>3
    <3>. QED
      BY <1>1, <2>1, <2>2, <3>4, <3>5, WayKept
  <2>. QED
    BY <2>4, <2>5
<1>5. CASE Fetch
  <2>1. UNCHANGED <<isr, call_queue, core1>>
    BY <1>5, PinActions
  <2>2. Latch /\ masked' = masked
    BY <1>5 DEF Fetch
  <2>3. chip[p] # "none"
    <3>1. chip' = chip \/ chip' = [chip EXCEPT ![On] = "none"]
      BY <1>5 DEF Fetch
    <3>. QED
      BY <1>1, <1>3, <3>1 DEF ChipTypes
  <2>4. p \notin missed
    BY <1>5 DEF Fetch
  <2>5. latched[p] \subseteq latched'[p]
    BY <1>1, <1>3, <2>2, LatchKeeps
  <2>. QED
    BY <1>1, <1>2, <2>1, <2>2, <2>3, <2>4, <2>5, WayKept
<1>6. CASE HandleAlarm
  <2>1. /\ Latch /\ isr' = isr /\ call_queue' = call_queue
        /\ masked' = masked /\ driven' = driven
    BY <1>6 DEF HandleAlarm
  <2>2. core1.entry.pin # p
    BY <1>1, <1>3, <1>6 DEF HandleAlarm, ChipTypes
  <2>3. core1.entry # Entry("handle", p)
    BY <2>2 DEF Entry
  <2>4. chip'[p] = chip[p] /\ p \notin missed
    BY <1>1, <1>3, <1>6, <2>2 DEF HandleAlarm, ChipTypes
  <2>5. latched[p] \subseteq latched'[p]
    BY <1>1, <1>3, <2>1, LatchKeeps
  <2>. QED
    BY <1>1, <1>2, <2>1, <2>3, <2>4, <2>5, WayKept
<1>7. ASSUME Quiet PROVE OnItsWay(p)
  BY <1>2, <1>7
<1>. HIDE DEF Quiet
<1>8. ASSUME NEW q \in Pins, IsrTake(q), Quiet
      PROVE  OnItsWay(p)'
  <2>1. OnItsWay(p)
    BY <1>7, <1>8
  <2>2. CASE q = p
    BY <1>8, <2>2 DEF IsrTake, OnItsWay
  <2>3. CASE q # p
    <3>1. isr.pin # p
      <4>1. isr = IdleIsr
        BY <1>3, <1>8 DEF IsrTake, IsrTypes
      <4>2. p # "none"
        BY DEF AlarmPins
      <4>. QED
        BY <4>1, <4>2, NoEntryIsNone
    <3>2. latched'[p] = latched[p] /\ call_queue' = call_queue /\ core1' = core1
      BY <1>1, <1>3, <1>8, <2>3 DEF IsrTake, PinTypes
    <3>. QED
      BY <2>1, <3>1, <3>2 DEF OnItsWay
  <2>. QED
    BY <2>2, <2>3
<1>9. ASSUME IsrCallback, Quiet
      PROVE  OnItsWay(p)'
  <2>1. OnItsWay(p)
    BY <1>7, <1>9
  <2>2. /\ call_queue' = Append(call_queue, Entry("handle", isr.pin))
        /\ core1' = core1
    BY <1>9 DEF IsrCallback
  <2>3. isr.pin \in Pins
    BY <1>3, <1>9, NoEntryIsNone DEF IsrCallback, IsrTypes
  <2>4. /\ Len(call_queue') = Len(call_queue) + 1
        /\ call_queue'[Len(call_queue) + 1] = Entry("handle", isr.pin)
        /\ \A i \in 1..Len(call_queue) : call_queue'[i] = call_queue[i]
    BY <1>3, <2>2, <2>3, EntryTypes, AppendProperties DEF QueueTypes
  <2>5. Len(call_queue) \in Nat
    BY <1>3, LenProperties DEF QueueTypes
  <2>6. CASE isr.pin = p
    <3>1. Len(call_queue) + 1 \in 1..Len(call_queue')
      BY <2>4, <2>5
    <3>. QED
      BY <2>4, <2>6, <3>1 DEF OnItsWay
  <2>7. CASE isr.pin # p
    <3>1. latched'[p] = latched[p]
      BY <1>1, <1>3, <1>9, <2>7 DEF IsrCallback, PinTypes
    <3>2. CASE latched[p] # {}
      BY <3>1, <3>2 DEF OnItsWay
    <3>3. CASE core1.entry = Entry("handle", p)
      BY <2>2, <3>3 DEF OnItsWay
    <3>4. ASSUME NEW i \in 1..Len(call_queue), call_queue[i] = Entry("handle", p)
          PROVE  OnItsWay(p)'
      <4>1. i \in 1..Len(call_queue') /\ call_queue'[i] = Entry("handle", p)
        BY <2>4, <2>5, <3>4
      <4>. QED
        BY <4>1 DEF OnItsWay
    <3>. QED
      BY <2>1, <2>7, <3>2, <3>3, <3>4 DEF OnItsWay
  <2>. QED
    BY <2>6, <2>7
<1>10. ASSUME IsrRespond, Quiet
      PROVE  OnItsWay(p)'
  <2>1. OnItsWay(p)
    BY <1>7, <1>10
  <2>2. latched' = latched /\ core1' = core1 /\ isr.at = "respond"
    BY <1>10 DEF IsrRespond
  <2>3. CASE latched[p] # {} \/ core1.entry = Entry("handle", p)
    BY <2>2, <2>3 DEF OnItsWay
  <2>4. ASSUME NEW i \in 1..Len(call_queue), call_queue[i] = Entry("handle", p)
        PROVE  OnItsWay(p)'
    <3>1. isr.pin \in Pins
      BY <1>3, <2>2, NoEntryIsNone DEF IsrTypes
    <3>2. CASE call_queue' = call_queue
      BY <2>4, <3>2 DEF OnItsWay
    <3>3. CASE call_queue' = Append(call_queue, Entry("response", isr.pin))
      <4>1. /\ Len(call_queue') = Len(call_queue) + 1
            /\ call_queue'[i] = call_queue[i]
        BY <1>3, <3>1, <3>3, EntryTypes, AppendProperties DEF QueueTypes
      <4>2. Len(call_queue) \in Nat
        BY <1>3, LenProperties DEF QueueTypes
      <4>3. i \in 1..Len(call_queue')
        BY <4>1, <4>2
      <4>. QED
        BY <2>4, <4>1, <4>3 DEF OnItsWay
    <3>. QED
      BY <1>10, <3>2, <3>3 DEF IsrRespond
  <2>. QED
    BY <2>1, <2>2, <2>3, <2>4 DEF OnItsWay
<1>11. ASSUME Core1Pop, Quiet
       PROVE  OnItsWay(p)'
  <2>1. OnItsWay(p)
    BY <1>7, <1>11
  <2>2. /\ latched' = latched /\ isr' = isr /\ call_queue # <<>> /\ core1.at = "pop"
        /\ core1' = [at |-> "run", entry |-> Head(call_queue)]
        /\ call_queue' = Tail(call_queue)
    BY <1>11 DEF Core1Pop
  <2>3. CASE latched[p] # {} \/ (isr.pin = p /\ isr.at # "respond")
    BY <2>2, <2>3 DEF OnItsWay
  <2>4. ASSUME NEW i \in 1..Len(call_queue), call_queue[i] = Entry("handle", p)
        PROVE  OnItsWay(p)'
    <3>1. /\ Head(call_queue) = call_queue[1]
          /\ Len(call_queue') = Len(call_queue) - 1
          /\ \A j \in 1..Len(call_queue') : call_queue'[j] = call_queue[j + 1]
      BY <1>3, <2>2, HeadTailProperties DEF QueueTypes
    <3>2. CASE i = 1
      BY <2>2, <2>4, <3>1, <3>2 DEF OnItsWay
    <3>3. CASE i # 1
      <4>1. Len(call_queue) \in Nat
        BY <1>3, LenProperties DEF QueueTypes
      <4>2. i - 1 \in 1..Len(call_queue') /\ (i - 1) + 1 = i
        BY <3>1, <3>3, <4>1
      <4>3. call_queue'[i - 1] = Entry("handle", p)
        BY <2>4, <3>1, <4>2
      <4>. QED
        BY <4>2, <4>3 DEF OnItsWay
    <3>. QED
      BY <3>2, <3>3
  <2>5. core1.entry # Entry("handle", p)
    BY <1>3, <2>2, NoEntryIsNone DEF QueueTypes, Entry
  <2>. QED
    BY <2>1, <2>3, <2>4, <2>5 DEF OnItsWay
<1>12. ASSUME Respond \/ HandleFlag \/ HandleFault, Quiet
       PROVE  OnItsWay(p)'
  <2>1. OnItsWay(p) /\ UNCHANGED <<latched, isr, call_queue>>
    BY <1>7, <1>12 DEF Respond, HandleFlag, HandleFault
  <2>2. core1.entry.func = "response" \/ core1.entry.pin # p
    BY <1>1, <1>12 DEF Respond, HandleFlag, HandleFault, Core1Runs, Core1Reads
  <2>3. core1.entry # Entry("handle", p)
    BY <2>2 DEF Entry
  <2>. QED
    BY <1>1, <2>1, <2>3, WayKept
<1>13. ASSUME HandleFill \/ HandleSelect, Quiet
       PROVE  OnItsWay(p)'
  <2>1. OnItsWay(p) /\ UNCHANGED <<latched, isr, call_queue>>
    BY <1>7, <1>13 DEF HandleFill, HandleSelect
  <2>2. core1'.entry = core1.entry
    <3>1. core1.at # "pop"
      BY <1>13 DEF HandleFill, HandleSelect, Core1Runs
    <3>2. core1 \in [at : {"run", "select", "read", "clear"}, entry : Entries]
      BY <1>3, <3>1, NoEntryIsNone DEF QueueTypes
    <3>. QED
      BY <1>13, <3>2 DEF HandleFill, HandleSelect
  <2>. QED
    BY <1>1, <2>1, <2>2, WayKept
<1>14. ASSUME UNCHANGED <<latched, isr, call_queue, core1>>, Quiet
       PROVE  OnItsWay(p)'
  BY <1>1, <1>7, <1>14, WayKept
<1>15. CASE UNCHANGED vars
  BY <1>14, <1>15 DEF vars, histories, Quiet
<1>16. CASE Next
  BY <1>4, <1>5, <1>6, <1>8, <1>9, <1>10, <1>11, <1>12, <1>13, <1>14, <1>16, OtherSteps
     DEF Quiet
<1>. QED
  BY <1>15, <1>16

\* An alarm that comes while its chip is masked for a test is not lost: the pin is
\* released before the chip is unmasked, so that unmasking makes an edge, and from
\* an edge on there is always a carrier, the latch, the interrupt, call_queue or
\* core 1, until the chip has been read.  The alarms left out are those in missed:
\* what the transfers of the other core cost.
THEOREM AlarmsAreRead == Spec => []AlarmOutlivesTest
<1>1. Init => AlarmOutlivesTest
  BY DEF Init, AlarmOutlivesTest, Pins, AlarmPins, FaultPins
<1>2. Types /\ Position /\ AlarmOutlivesTest /\ [Next]_vars => AlarmOutlivesTest'
  BY AlarmKept
<1>. QED
  BY <1>1, <1>2, TypesAndPosition, PTL DEF Spec

-----------------------------------------------------------------------------
(* Rounds. *)

IsHandle(d, e) == e.func = "handle" /\ Driver(e.pin) = d
IsResponse(d, e) == e.func = "response" /\ Driver(e.pin) = d

\* A driver's handler has run in this round, or the answer may be an earlier
\* round's.
Excused(d) == d \in ran \cup stray

\* Core 1 is in a handler, and has not read the chip yet.
Handling == core1.at \in {"run", "select", "read"}

\* ... or it is going to, before what comes after the n-th entry of call_queue.
Ahead(d, n) ==
    \/ Excused(d)
    \/ Handling /\ IsHandle(d, core1.entry)
    \/ \E j \in 1..n : IsHandle(d, call_queue[j])

\* The handler precedes the response all the way through call_queue.
InOrder(d) ==
    /\ \A i \in 1..Len(call_queue) : IsResponse(d, call_queue[i]) => Ahead(d, i - 1)
    /\ IsResponse(d, core1.entry) => Excused(d)
    /\ d \in completed => Excused(d)
    /\ isr.at = "respond" /\ Driver(isr.pin) = d => Ahead(d, Len(call_queue))

\* Before a round of a driver's test is announced, there is neither an answer nor
\* one on its way, but for the strays of an earlier round.
Untested(d) ==
    \/ d = "MAX77958" /\ pc \in 1..3
    \/ d = "MAX77976" /\ pc \in 1..20
    \/ d = "NCP3901" /\ (pc \in 1..27 \/ pc = 32)
    \/ d = "DRV8830" /\ (pc \in 1..42 \/ pc = 48)
Leftovers(d) == Untested(d) /\ (d \in completed \/ Responses(d)) => d \in stray

Rounds == \A d \in Drivers : InOrder(d) /\ Leftovers(d)

LEMMA ResponsesAre ==
    ASSUME NEW d
    PROVE  Responses(d) <=> \/ \E i \in 1..Len(call_queue) : IsResponse(d, call_queue[i])
                            \/ IsResponse(d, core1.entry)
BY DEF Responses, IsResponse

LEMMA RoundsAtStart == ASSUME Init PROVE Rounds
<1>1. call_queue = <<>> /\ completed = {} /\ core1.entry = NoEntry /\ isr.at = "idle"
  BY NoEntryIsNone DEF Init
<1>2. Len(call_queue) = 0
  BY <1>1
<1>3. \A d : ~IsResponse(d, core1.entry)
  BY <1>1, NoEntryIsNone DEF IsResponse
<1>4. \A d : ~Responses(d)
  BY <1>2, <1>3, ResponsesAre
<1>. QED
  BY <1>1, <1>2, <1>3, <1>4 DEF Rounds, InOrder, Leftovers

LEMMA QueueIs ==
    ASSUME QueueTypes
    PROVE  /\ Len(call_queue) \in Nat
           /\ \A i \in 1..Len(call_queue) : call_queue[i] \in Entries
<1>1. call_queue \in Seq(Entries)
  BY DEF QueueTypes
<1>. QED
  BY <1>1, LenProperties

LEMMA AppendIs ==
    ASSUME QueueTypes, NEW e \in Entries, call_queue' = Append(call_queue, e)
    PROVE  /\ Len(call_queue') = Len(call_queue) + 1
           /\ call_queue'[Len(call_queue) + 1] = e
           /\ \A i \in 1..Len(call_queue) : call_queue'[i] = call_queue[i]
<1>1. call_queue \in Seq(Entries)
  BY DEF QueueTypes
<1>. QED
  BY <1>1, AppendProperties

LEMMA PopIs ==
    ASSUME QueueTypes, Core1Pop
    PROVE  /\ core1.at = "pop"
           /\ 1 \in 1..Len(call_queue)
           /\ core1' = [at |-> "run", entry |-> call_queue[1]]
           /\ Len(call_queue') = Len(call_queue) - 1
           /\ \A i \in 1..Len(call_queue') : call_queue'[i] = call_queue[i + 1]
<1>1. call_queue \in Seq(Entries) /\ call_queue # <<>> /\ call_queue' = Tail(call_queue)
  BY DEF QueueTypes, Core1Pop
<1>2. /\ Head(call_queue) = call_queue[1]
      /\ Len(call_queue') = Len(call_queue) - 1
      /\ \A i \in 1..Len(call_queue') : call_queue'[i] = call_queue[i + 1]
  BY <1>1, HeadTailProperties
<1>3. Len(call_queue) \in Nat /\ Len(call_queue) # 0
  BY <1>1, LenProperties, EmptySeq
<1>. QED
  BY <1>2, <1>3 DEF Core1Pop

\* What a step does to the variables of a round.
RoundParts == UNCHANGED <<call_queue, core1, completed, ran, stray>>

LEMMA RoundSteps ==
    ASSUME Next
    PROVE  \/ RoundParts /\ isr' = isr
           \/ RoundParts /\ isr'.at # "respond"
           \/ IsrCallback \/ IsrRespond \/ Start \/ Reset \/ Core1Step
<1>1. ASSUME NEW p \in Pins, Alarm(p) \/ Fault(p) \/ Charger PROVE RoundParts /\ isr' = isr
  BY <1>1, ChipActions DEF RoundParts
<1>2. ASSUME NEW p \in Pins, IsrTake(p) PROVE RoundParts /\ isr'.at # "respond"
  BY <1>2 DEF IsrTake, core0, histories, RoundParts
<1>3. Mask \/ Send \/ Fetch \/ Drive \/ Release \/ High \/ ClearFault \/ VerifyFault
        => RoundParts /\ isr' = isr
  BY PinActions DEF RoundParts
<1>4. Stop \/ Await \/ Ask \/ Timeout => RoundParts /\ isr' = isr
  BY FlagActions DEF Stop, Await, Ask, Timeout, histories, RoundParts
<1>5. Fill \/ Point \/ ReadFault => RoundParts /\ isr' = isr
  BY BusActions DEF RoundParts
<1>6. OtherEntry => RoundParts /\ isr' = isr
  BY DEF OtherEntry, core0, histories, RoundParts
<1>. QED
  BY <1>1, <1>2, <1>3, <1>4, <1>5, <1>6, ThePins DEF Next, ThreadStep, Pins

LEMMA AheadKept ==
    ASSUME NEW d, NEW n \in Int, Ahead(d, n), core1' = core1,
           d \in ran => d \in ran', stray \subseteq stray',
           \A j \in 1..n : call_queue'[j] = call_queue[j]
    PROVE  Ahead(d, n)'
<1>1. CASE Excused(d)
  BY <1>1 DEF Ahead, Excused
<1>2. CASE Handling /\ IsHandle(d, core1.entry)
  BY <1>2 DEF Ahead, IsHandle, Handling
<1>3. ASSUME NEW j \in 1..n, IsHandle(d, call_queue[j]) PROVE Ahead(d, n)'
  BY <1>3 DEF Ahead, IsHandle
<1>. QED
  BY <1>1, <1>2, <1>3 DEF Ahead

LEMMA InOrderSame ==
    ASSUME QueueTypes, NEW d, InOrder(d), UNCHANGED <<call_queue, core1>>,
           d \in completed' => d \in completed,
           d \in ran => d \in ran', stray \subseteq stray',
           isr' = isr \/ isr'.at # "respond"
    PROVE  InOrder(d)'
<1>1. Len(call_queue) \in Nat
  BY QueueIs
<1>2. \A n \in Int : Ahead(d, n) => Ahead(d, n)'
  BY AheadKept
<1>3. Excused(d) => Excused(d)'
  BY DEF Excused
<1>4. ASSUME NEW i \in 1..Len(call_queue'), IsResponse(d, call_queue'[i])
      PROVE  Ahead(d, i - 1)'
  <2>1. i \in 1..Len(call_queue) /\ IsResponse(d, call_queue[i]) /\ i - 1 \in Int
    BY <1>1, <1>4 DEF IsResponse
  <2>2. Ahead(d, i - 1)
    BY <2>1 DEF InOrder
  <2>. QED
    BY <1>2, <2>1, <2>2
<1>5. IsResponse(d, core1'.entry) => Excused(d)'
  BY <1>3 DEF InOrder, IsResponse
<1>6. d \in completed' => Excused(d)'
  BY <1>3 DEF InOrder
<1>7. ASSUME isr'.at = "respond", Driver(isr'.pin) = d PROVE Ahead(d, Len(call_queue))'
  <2>1. PICK n \in Nat : n = Len(call_queue)
    BY <1>1
  <2>2. Ahead(d, n)
    BY <1>7, <2>1 DEF InOrder
  <2>3. Ahead(d, n)'
    BY <1>2, <2>2
  <2>4. n = Len(call_queue)'
    BY <2>1
  <2>. QED
    BY <2>3, <2>4 DEF Ahead
<1>. QED
  BY <1>4, <1>5, <1>6, <1>7 DEF InOrder

LEMMA InOrderAtStart ==
    ASSUME Types, NEW d \in Drivers, InOrder(d), Leftovers(d), Position, Start
    PROVE  InOrder(d)'
<1>1. /\ UNCHANGED <<call_queue, core1, completed, stray, isr>>
      /\ ran' = ran \ {Driver(On)}
      /\ At("start") /\ isr.at = "idle"
  BY NoEntryIsNone DEF Start, OnlyFlags, At
<1>2. QueueTypes /\ pc \in 1..74
  BY DEF Types, ThreadTypes
<1>3. CASE d # Driver(On)
  BY <1>1, <1>2, <1>3, InOrderSame
<1>4. CASE d = Driver(On)
  <2>1. Untested(d)
    <3>1. \/ pc = 3 /\ d = "MAX77958"
          \/ pc = 20 /\ d = "MAX77976"
          \/ (pc = 27 \/ pc = 32) /\ d = "NCP3901"
          \/ (pc = 42 \/ pc = 48) /\ d = "DRV8830"
      BY <1>1, <1>2, <1>4, WhereIs, DriverNames
    <3>. QED
      BY <3>1 DEF Untested
  <2>2. d \in completed \/ Responses(d) => Excused(d)'
    BY <1>1, <2>1 DEF Leftovers, Excused
  <2>3. ASSUME NEW i \in 1..Len(call_queue'), IsResponse(d, call_queue'[i])
        PROVE  Ahead(d, i - 1)'
    <3>1. IsResponse(d, call_queue[i]) /\ i \in 1..Len(call_queue)
      BY <1>1, <2>3 DEF IsResponse
    <3>2. Responses(d)
      BY <3>1, ResponsesAre
    <3>. QED
      BY <2>2, <3>2 DEF Ahead
  <2>4. IsResponse(d, core1'.entry) => Excused(d)'
    <3>1. IsResponse(d, core1'.entry) => IsResponse(d, core1.entry)
      BY <1>1 DEF IsResponse
    <3>. QED
      BY <2>2, <3>1, ResponsesAre
  <2>5. d \in completed' => Excused(d)'
    BY <1>1, <2>2
  <2>6. isr'.at # "respond"
    BY <1>1
  <2>. QED
    BY <2>3, <2>4, <2>5, <2>6 DEF InOrder
<1>. QED
  BY <1>3, <1>4

LEMMA InOrderOnCallback ==
    ASSUME Types, NEW d \in Drivers, InOrder(d), IsrCallback
    PROVE  InOrder(d)'
<1>1. /\ UNCHANGED <<core1, completed, ran, stray>>
      /\ call_queue' = Append(call_queue, Entry("handle", isr.pin))
      /\ isr' = [isr EXCEPT !.at = "respond"]
  BY DEF IsrCallback, core0, histories
<1>2. QueueTypes /\ IsrTypes
  BY DEF Types
<1>3. isr.pin \in Pins /\ isr'.pin = isr.pin
  BY <1>1, <1>2, NoEntryIsNone DEF IsrCallback, IsrTypes
<1>4. /\ Len(call_queue) \in Nat
      /\ Len(call_queue') = Len(call_queue) + 1
      /\ call_queue'[Len(call_queue) + 1] = Entry("handle", isr.pin)
      /\ \A i \in 1..Len(call_queue) : call_queue'[i] = call_queue[i]
  BY <1>1, <1>2, <1>3, EntryTypes, AppendIs, QueueIs
<1>5. ASSUME NEW i \in 1..Len(call_queue'), IsResponse(d, call_queue'[i])
      PROVE  Ahead(d, i - 1)'
  <2>1. i \in 1..Len(call_queue)
    <3>1. i # Len(call_queue) + 1
      BY <1>4, <1>5 DEF IsResponse, Entry
    <3>. QED
      BY <1>4, <3>1
  <2>2. IsResponse(d, call_queue[i])
    BY <1>4, <1>5, <2>1 DEF IsResponse
  <2>3. Ahead(d, i - 1)
    BY <2>1, <2>2 DEF InOrder
  <2>4. i - 1 \in Int /\ \A j \in 1..(i - 1) : call_queue'[j] = call_queue[j]
    BY <1>4, <2>1
  <2>. QED
    BY <1>1, <2>3, <2>4, AheadKept
<1>6. IsResponse(d, core1'.entry) => Excused(d)'
  BY <1>1 DEF InOrder, IsResponse, Excused
<1>7. d \in completed' => Excused(d)'
  BY <1>1 DEF InOrder, Excused
<1>8. ASSUME Driver(isr'.pin) = d PROVE Ahead(d, Len(call_queue))'
  <2>1. Len(call_queue) + 1 \in 1..Len(call_queue')
    BY <1>4
  <2>2. IsHandle(d, call_queue'[Len(call_queue) + 1])
    BY <1>3, <1>4, <1>8 DEF IsHandle, Entry
  <2>3. \E j \in 1..Len(call_queue') : IsHandle(d, call_queue'[j])
    BY <2>1, <2>2
  <2>. QED
    BY <2>3 DEF Ahead, IsHandle
<1>. QED
  BY <1>5, <1>6, <1>7, <1>8 DEF InOrder

LEMMA InOrderOnRespond ==
    ASSUME Types, NEW d \in Drivers, InOrder(d), IsrRespond
    PROVE  InOrder(d)'
<1>1. /\ UNCHANGED <<core1, completed, ran, stray>>
      /\ call_queue' = Append(call_queue, Entry("response", isr.pin)) \/ call_queue' = call_queue
      /\ isr'.at = "idle"
      /\ isr.at = "respond"
  BY NoEntryIsNone DEF IsrRespond, core0, histories
<1>2. QueueTypes /\ IsrTypes
  BY DEF Types
<1>3. CASE call_queue' = call_queue
  BY <1>1, <1>2, <1>3, InOrderSame
<1>4. CASE call_queue' = Append(call_queue, Entry("response", isr.pin))
  <2>1. isr.pin \in Pins
    BY <1>1, <1>2, NoEntryIsNone DEF IsrTypes
  <2>2. /\ Len(call_queue) \in Nat
        /\ Len(call_queue') = Len(call_queue) + 1
        /\ call_queue'[Len(call_queue) + 1] = Entry("response", isr.pin)
        /\ \A i \in 1..Len(call_queue) : call_queue'[i] = call_queue[i]
    BY <1>4, <1>2, <2>1, EntryTypes, AppendIs, QueueIs
  <2>3. ASSUME NEW i \in 1..Len(call_queue'), IsResponse(d, call_queue'[i])
        PROVE  Ahead(d, i - 1)'
    <3>1. i - 1 \in Int /\ \A j \in 1..(i - 1) : call_queue'[j] = call_queue[j]
      BY <2>2
    <3>2. CASE i \in 1..Len(call_queue)
      <4>1. IsResponse(d, call_queue[i])
        BY <2>2, <2>3, <3>2 DEF IsResponse
      <4>2. Ahead(d, i - 1)
        BY <3>2, <4>1 DEF InOrder
      <4>. QED
        BY <1>1, <3>1, <4>2, AheadKept
    <3>3. CASE i = Len(call_queue) + 1
      <4>1. Driver(isr.pin) = d
        BY <2>2, <2>3, <3>3 DEF IsResponse, Entry
      <4>2. Ahead(d, Len(call_queue))
        BY <1>1, <4>1 DEF InOrder
      <4>3. i - 1 = Len(call_queue)
        <5>1. PICK n \in Nat : n = Len(call_queue)
          BY <2>2
        <5>2. i = n + 1
          BY <3>3, <5>1
        <5>3. i - 1 = n
          BY <5>2
        <5>. QED
          BY <5>1, <5>3
      <4>4. Ahead(d, i - 1)
        BY <4>2, <4>3
      <4>. QED
        BY <1>1, <3>1, <4>4, AheadKept
    <3>. QED
      BY <2>2, <3>2, <3>3
  <2>4. IsResponse(d, core1'.entry) => Excused(d)'
    BY <1>1 DEF InOrder, IsResponse, Excused
  <2>5. d \in completed' => Excused(d)'
    BY <1>1 DEF InOrder, Excused
  <2>6. isr'.at # "respond"
    BY <1>1
  <2>. QED
    BY <2>3, <2>4, <2>5, <2>6 DEF InOrder
<1>. QED
  BY <1>1, <1>3, <1>4

LEMMA InOrderOnPop ==
    ASSUME Types, NEW d \in Drivers, InOrder(d), Core1Pop
    PROVE  InOrder(d)'
<1>1. UNCHANGED <<completed, ran, stray, isr>>
  BY DEF Core1Pop, core0, histories
<1>2. QueueTypes
  BY DEF Types
<1>3. /\ Len(call_queue) \in Nat
      /\ core1.at = "pop"
      /\ 1 \in 1..Len(call_queue)
      /\ core1' = [at |-> "run", entry |-> call_queue[1]]
      /\ Len(call_queue') = Len(call_queue) - 1
      /\ \A i \in 1..Len(call_queue') : call_queue'[i] = call_queue[i + 1]
  BY <1>2, PopIs, QueueIs
\* What was ahead of the (n+1)-th entry is ahead of the n-th.
<1>4. ASSUME NEW n \in 0..Len(call_queue'), Ahead(d, n + 1) PROVE Ahead(d, n)'
  <2>1. CASE Excused(d)
    BY <1>1, <2>1 DEF Excused, Ahead
  <2>2. ASSUME NEW j \in 1..(n + 1), IsHandle(d, call_queue[j]) PROVE Ahead(d, n)'
    <3>1. CASE j = 1
      BY <1>3, <2>2, <3>1 DEF Ahead, IsHandle, Handling
    <3>2. CASE j # 1
      <4>1. j - 1 \in 1..n /\ j - 1 \in 1..Len(call_queue') /\ (j - 1) + 1 = j
        BY <1>3, <3>2
      <4>2. call_queue'[j - 1] = call_queue[j]
        BY <1>3, <4>1
      <4>. QED
        BY <2>2, <4>1, <4>2 DEF Ahead, IsHandle
    <3>. QED
      BY <3>1, <3>2
  <2>. QED
    BY <1>3, <1>4, <2>1, <2>2 DEF Ahead, Handling
<1>5. ASSUME NEW i \in 1..Len(call_queue'), IsResponse(d, call_queue'[i])
      PROVE  Ahead(d, i - 1)'
  <2>1. i + 1 \in 1..Len(call_queue) /\ (i + 1) - 1 = (i - 1) + 1 /\ i - 1 \in 0..Len(call_queue')
    BY <1>3
  <2>2. IsResponse(d, call_queue[i + 1])
    BY <1>3, <1>5 DEF IsResponse
  <2>3. Ahead(d, (i + 1) - 1)
    BY <2>1, <2>2 DEF InOrder
  <2>4. Ahead(d, (i - 1) + 1)
    BY <2>1, <2>3
  <2>. QED
    BY <1>4, <2>1, <2>4
<1>6. ASSUME IsResponse(d, core1'.entry) PROVE Excused(d)'
  <2>1. IsResponse(d, call_queue[1])
    BY <1>3, <1>6 DEF IsResponse
  <2>2. Ahead(d, 0)
    BY <1>3, <2>1 DEF InOrder
  <2>3. Excused(d)
    BY <1>3, <2>2 DEF Ahead, Handling
  <2>. QED
    BY <1>1, <2>3 DEF Excused
<1>7. d \in completed' => Excused(d)'
  BY <1>1 DEF InOrder, Excused
<1>8. ASSUME isr'.at = "respond", Driver(isr'.pin) = d PROVE Ahead(d, Len(call_queue))'
  <2>1. PICK n \in 0..Len(call_queue') : n = Len(call_queue')
    BY <1>3
  <2>2. Ahead(d, n + 1)
    <3>1. Ahead(d, Len(call_queue))
      BY <1>1, <1>8 DEF InOrder
    <3>2. n + 1 = Len(call_queue)
      BY <1>3, <2>1
    <3>. QED
      BY <3>1, <3>2
  <2>3. Ahead(d, n)'
    BY <1>4, <2>2
  <2>. QED
    BY <2>1, <2>3 DEF Ahead
<1>. QED
  BY <1>5, <1>6, <1>7, <1>8 DEF InOrder

\* The steps of an entry that core 1 has taken.
Runs == Respond \/ HandleFlag \/ HandleFill \/ HandleSelect \/ HandleAlarm \/ HandleFault
            \/ HandlerClear

LEMMA EntryStays ==
    ASSUME QueueTypes, Runs
    PROVE  /\ call_queue' = call_queue /\ isr' = isr /\ stray' = stray
           /\ core1' = IdleCore1 \/ core1'.entry = core1.entry
<1>1. call_queue' = call_queue /\ isr' = isr /\ stray' = stray
  BY DEF Runs, Respond, HandleFlag, HandleFill, HandleSelect, HandleAlarm, HandleFault,
         HandlerClear, histories
<1>2. Respond \/ HandleFlag \/ HandleAlarm \/ HandlerClear => core1' = IdleCore1
  BY DEF Respond, HandleFlag, HandleAlarm, HandlerClear
<1>3. CASE HandleFill \/ HandleSelect \/ HandleFault
  <2>1. core1.at # "pop"
    BY <1>3 DEF HandleFill, HandleSelect, HandleFault, Core1Runs, Core1Reads
  <2>2. core1 \in [at : {"run", "select", "read", "clear"}, entry : Entries]
    BY <2>1, NoEntryIsNone DEF QueueTypes
  <2>3. \/ core1' = IdleCore1
        \/ \E w \in {"select", "read", "clear"} : core1' = [core1 EXCEPT !.at = w]
    BY <1>3 DEF HandleFill, HandleSelect, HandleFault
  <2>. QED
    BY <1>1, <2>2, <2>3
<1>4. Respond \/ HandleFlag \/ HandleAlarm \/ HandlerClear
        \/ HandleFill \/ HandleSelect \/ HandleFault
  BY DEF Runs
<1>. QED
  BY <1>1, <1>2, <1>3, <1>4

LEMMA InOrderOnCore1 ==
    ASSUME Types, NEW d \in Drivers, InOrder(d), Runs
    PROVE  InOrder(d)'
<1>1. /\ call_queue' = call_queue /\ isr' = isr /\ stray' = stray
      /\ core1' = IdleCore1 \/ core1'.entry = core1.entry
  <2>1. QueueTypes
    BY DEF Types
  <2>. QED
    BY <2>1, EntryStays
<1>2. QueueTypes /\ Len(call_queue) \in Nat
  BY QueueIs DEF Types
\* The handler that was running has run, or it is still running.
<1>3. /\ ran \subseteq ran'
      /\ Handling /\ IsHandle(d, core1.entry)
           => d \in ran' \/ (Handling' /\ IsHandle(d, core1'.entry))
  <2>1. CASE Respond
    BY <2>1 DEF Respond, histories, Core1Runs, IsHandle
  <2>2. CASE HandleFlag \/ HandleAlarm \/ HandleFault
    BY <2>2 DEF HandleFlag, HandleAlarm, HandleFault, HandlerRan, IsHandle
  <2>3. CASE HandleFill \/ HandleSelect
    <3>1. ran' = ran
      BY <2>3 DEF HandleFill, HandleSelect, histories
    <3>2. core1.at # "pop"
      BY <2>3 DEF HandleFill, HandleSelect, Core1Runs
    <3>3. core1 \in [at : {"run", "select", "read", "clear"}, entry : Entries]
      BY <1>2, <3>2, NoEntryIsNone DEF QueueTypes
    <3>4. PICK w \in {"select", "read"} : core1' = [core1 EXCEPT !.at = w]
      BY <2>3 DEF HandleFill, HandleSelect
    <3>5. core1'.at = w /\ core1'.entry = core1.entry
      BY <3>3, <3>4
    <3>. QED
      BY <3>1, <3>5 DEF Handling, IsHandle
  <2>4. CASE HandlerClear
    BY <2>4 DEF HandlerClear, Handling
  <2>. QED
    BY <2>1, <2>2, <2>3, <2>4 DEF Runs
<1>4. Excused(d) => Excused(d)'
  BY <1>1, <1>3 DEF Excused
<1>5. IsResponse(d, core1'.entry) => IsResponse(d, core1.entry)
  BY <1>1, NoEntryIsNone DEF IsResponse
<1>6. d \in completed' => Excused(d)
  <2>1. CASE Respond
    <3>1. completed' = completed \cup {Driver(core1.entry.pin)} /\ core1.entry.func = "response"
      BY <2>1 DEF Respond, Core1Runs
    <3>. QED
      BY <3>1 DEF InOrder, IsResponse
  <2>2. CASE ~Respond
    BY <2>2 DEF Runs, HandleFlag, HandleFill, HandleSelect, HandleAlarm, HandleFault,
                HandlerClear, core0, InOrder
  <2>. QED
    BY <2>1, <2>2
<1>7. ASSUME NEW n \in Int, Ahead(d, n) PROVE Ahead(d, n)'
  <2>1. CASE Excused(d)
    BY <1>4, <2>1 DEF Ahead
  <2>2. CASE Handling /\ IsHandle(d, core1.entry)
    BY <1>3, <2>2 DEF Ahead, Excused
  <2>3. ASSUME NEW j \in 1..n, IsHandle(d, call_queue[j]) PROVE Ahead(d, n)'
    BY <1>1, <2>3 DEF Ahead, IsHandle
  <2>. QED
    BY <1>7, <2>1, <2>2, <2>3 DEF Ahead
<1>8. ASSUME NEW i \in 1..Len(call_queue'), IsResponse(d, call_queue'[i])
      PROVE  Ahead(d, i - 1)'
  <2>1. i \in 1..Len(call_queue) /\ IsResponse(d, call_queue[i]) /\ i - 1 \in Int
    BY <1>1, <1>2, <1>8 DEF IsResponse
  <2>2. Ahead(d, i - 1)
    BY <2>1 DEF InOrder
  <2>. QED
    BY <1>7, <2>1, <2>2
<1>9. ASSUME isr'.at = "respond", Driver(isr'.pin) = d PROVE Ahead(d, Len(call_queue))'
  <2>1. PICK n \in Nat : n = Len(call_queue)
    BY <1>2
  <2>2. Ahead(d, n)
    BY <1>1, <1>9, <2>1 DEF InOrder
  <2>3. Ahead(d, n)' /\ n = Len(call_queue)'
    BY <1>1, <1>7, <2>1, <2>2
  <2>. QED
    BY <2>3 DEF Ahead
<1>. QED
  BY <1>4, <1>5, <1>6, <1>8, <1>9 DEF InOrder

\* Responses appear with an announced test only, and go to core 1.
LEMMA ResponsesCome ==
    ASSUME Types, NEW d \in Drivers, Next, Responses(d)'
    PROVE  Responses(d) \/ d \in started
<1>1. QueueTypes /\ IsrTypes
  BY DEF Types
<1>2. Len(call_queue) \in Nat
  BY <1>1, QueueIs
<1>3. CASE UNCHANGED <<call_queue, core1>>
  BY <1>3 DEF Responses
<1>4. CASE IsrCallback
  <2>1. isr.pin \in Pins /\ core1' = core1
    BY <1>1, <1>4, NoEntryIsNone DEF IsrCallback, IsrTypes
  <2>2. /\ Len(call_queue') = Len(call_queue) + 1
        /\ call_queue'[Len(call_queue) + 1] = Entry("handle", isr.pin)
        /\ \A i \in 1..Len(call_queue) : call_queue'[i] = call_queue[i]
    BY <1>1, <1>4, <2>1, EntryTypes, AppendIs DEF IsrCallback
  <2>3. ASSUME NEW i \in 1..Len(call_queue'), call_queue'[i].func = "response",
               Driver(call_queue'[i].pin) = d
        PROVE  Responses(d)
    <3>1. i # Len(call_queue) + 1
      BY <2>2, <2>3 DEF Entry
    <3>2. i \in 1..Len(call_queue)
      BY <1>2, <2>2, <3>1
    <3>. QED
      BY <2>2, <2>3, <3>2 DEF Responses
  <2>. QED
    BY <2>1, <2>3 DEF Responses
<1>5. CASE IsrRespond
  <2>1. isr.pin \in Pins /\ core1' = core1
    BY <1>1, <1>5, NoEntryIsNone DEF IsrRespond, IsrTypes
  <2>2. CASE call_queue' = call_queue
    BY <2>1, <2>2 DEF Responses
  <2>3. CASE call_queue' # call_queue
    <3>1. Driver(isr.pin) \in started /\ call_queue' = Append(call_queue, Entry("response", isr.pin))
      BY <1>5, <2>3 DEF IsrRespond
    <3>2. /\ Len(call_queue') = Len(call_queue) + 1
          /\ call_queue'[Len(call_queue) + 1] = Entry("response", isr.pin)
          /\ \A i \in 1..Len(call_queue) : call_queue'[i] = call_queue[i]
      BY <1>1, <2>1, <3>1, EntryTypes, AppendIs
    <3>3. ASSUME NEW i \in 1..Len(call_queue'), call_queue'[i].func = "response",
                 Driver(call_queue'[i].pin) = d
          PROVE  Responses(d) \/ d \in started
      <4>1. CASE i = Len(call_queue) + 1
        BY <3>1, <3>2, <3>3, <4>1 DEF Entry
      <4>2. CASE i \in 1..Len(call_queue)
        BY <3>2, <3>3, <4>2 DEF Responses
      <4>. QED
        BY <1>2, <3>2, <4>1, <4>2
    <3>. QED
      BY <2>1, <3>3 DEF Responses
  <2>. QED
    BY <2>2, <2>3
<1>6. CASE Core1Pop
  <2>1. /\ 1 \in 1..Len(call_queue)
        /\ core1' = [at |-> "run", entry |-> call_queue[1]]
        /\ Len(call_queue') = Len(call_queue) - 1
        /\ \A i \in 1..Len(call_queue') : call_queue'[i] = call_queue[i + 1]
    BY <1>1, <1>6, PopIs
  <2>2. ASSUME NEW i \in 1..Len(call_queue'), call_queue'[i].func = "response",
               Driver(call_queue'[i].pin) = d
        PROVE  Responses(d)
    <3>1. i + 1 \in 1..Len(call_queue)
      BY <1>2, <2>1
    <3>. QED
      BY <2>1, <2>2, <3>1 DEF Responses
  <2>3. core1'.entry.func = "response" /\ Driver(core1'.entry.pin) = d => Responses(d)
    BY <2>1 DEF Responses
  <2>. QED
    BY <2>2, <2>3 DEF Responses
<1>7. CASE Runs
  <2>1. call_queue' = call_queue
    BY <1>1, <1>7, EntryStays
  <2>2. core1' = IdleCore1 \/ core1'.entry = core1.entry
    BY <1>1, <1>7, EntryStays
  <2>3. core1'.entry.func = "response" /\ Driver(core1'.entry.pin) = d => Responses(d)
    BY <2>2, NoEntryIsNone DEF Responses
  <2>. QED
    BY <2>1, <2>3 DEF Responses
<1>. QED
  BY <1>3, <1>4, <1>5, <1>6, <1>7, QueueChanges DEF Core1Step, Runs

\* Before its round a driver's test is not announced.
LEMMA UntestedNotStarted ==
    ASSUME Types, Position, NEW d \in Drivers, Untested(d)
    PROVE  d \notin started
<1>1. pc \in 1..74 /\ StartedAt
  BY DEF Types, ThreadTypes, Position
<1>. QED
  BY <1>1 DEF Untested, StartedAt

\* Only a reset ends a round.
LEMMA RoundEnds ==
    ASSUME Types, NEW d \in Drivers, Next, Untested(d)', ~Untested(d)
    PROVE  Reset /\ d = Driver(On)
<1>1. ThreadTypes /\ pc \in 1..74
  BY DEF Types, ThreadTypes
<1>2. d \in {"MAX77958", "MAX77976", "NCP3901", "DRV8830"}
  BY DriverTypes DEF Drivers, Pins, AlarmPins
<1>3. pc' # pc
  BY DEF Untested
<1>4. Proceed /\ (ThreadStep \/ Ask)
  <2>1. ~(pc = 60 /\ pc' = 63)
    BY DEF Untested
  <2>. QED
    BY <1>1, <1>3, <2>1, ThreadMoves
<1>5. pc' \in 1..74 /\ IF pc = 74 THEN pc' = 60 ELSE pc' = pc + 1
  BY <1>1, <1>4, Goes
<1>6. (pc = 31 /\ d = "NCP3901") \/ (pc = 47 /\ d = "DRV8830")
  BY <1>1, <1>2, <1>5 DEF Untested
<1>7. Program[pc].do = "reset" /\ Driver(On) = d
  BY <1>6, PlacesHold, DriverNames DEF Places, On
<1>. QED
  BY <1>4, <1>7 DEF ThreadStep, Mask, Fill, Send, Point, Fetch, Drive, Release, High, Start,
        Stop, Await, Timeout, ReadFault, ClearFault, VerifyFault, Ask, At

\* A round's answer comes from a response.
LEMMA CompletedComes ==
    ASSUME Next, NEW d, d \in completed', d \notin completed
    PROVE  Responses(d)
<1>1. Respond
  <2>1. Start \/ Stop \/ Await \/ Ask => completed' = completed
    BY DEF Start, Stop, Await, Ask
  <2>2. ~Reset
    BY DEF Reset
  <2>. QED
    BY <2>1, <2>2, RoundSteps DEF RoundParts, IsrCallback, IsrRespond, core0, Core1Step,
       Core1Pop, HandleFlag, HandleFill, HandleSelect, HandleAlarm, HandleFault, HandlerClear
<1>2. completed' = completed \cup {Driver(core1.entry.pin)} /\ core1.entry.func = "response"
  BY <1>1 DEF Respond, Core1Runs
<1>. QED
  BY <1>2 DEF Responses

LEMMA StrayGrows == ASSUME Next PROVE stray \subseteq stray'
<1>1. Start => stray' = stray
  BY DEF Start
<1>2. Reset => stray \subseteq stray'
  BY DEF Reset
<1>. QED
  BY <1>1, <1>2, RoundSteps DEF RoundParts, IsrCallback, IsrRespond, histories, Core1Step,
     Core1Pop, Respond, HandleFlag, HandleFill, HandleSelect, HandleAlarm, HandleFault,
     HandlerClear

LEMMA LeftoversKept ==
    ASSUME Types, Position, NEW d \in Drivers, Leftovers(d), Next
    PROVE  Leftovers(d)'
<1>. SUFFICES ASSUME Untested(d)', (d \in completed \/ Responses(d))'
              PROVE  d \in stray'
  BY DEF Leftovers
<1>1. CASE Untested(d)
  <2>1. d \in completed \/ Responses(d)
    BY <1>1, ResponsesCome, CompletedComes, UntestedNotStarted
  <2>2. d \in stray
    BY <1>1, <2>1 DEF Leftovers
  <2>. QED
    BY <2>2, StrayGrows
<1>2. CASE ~Untested(d)
  <2>1. Reset /\ d = Driver(On)
    BY <1>2, RoundEnds
  <2>2. d \notin completed' /\ call_queue' = call_queue /\ core1' = core1
    BY <2>1 DEF Reset, OnlyFlags
  <2>3. Responses(d)
    BY <2>2 DEF Responses
  <2>. QED
    BY <2>1, <2>3 DEF Reset
<1>. QED
  BY <1>1, <1>2

LEMMA InOrderKept ==
    ASSUME Types, Position, NEW d \in Drivers, InOrder(d), Leftovers(d), Next
    PROVE  InOrder(d)'
<1>1. QueueTypes
  BY DEF Types
<1>2. CASE RoundParts /\ (isr' = isr \/ isr'.at # "respond")
  BY <1>1, <1>2, InOrderSame DEF RoundParts
<1>3. CASE Reset
  <2>1. /\ UNCHANGED <<call_queue, core1, isr, ran>>
        /\ completed' \subseteq completed
        /\ stray \subseteq stray'
    BY <1>3 DEF Reset, OnlyFlags
  <2>. QED
    BY <1>1, <2>1, InOrderSame
<1>4. CASE Start
  BY <1>4, InOrderAtStart
<1>5. CASE IsrCallback
  BY <1>5, InOrderOnCallback
<1>6. CASE IsrRespond
  BY <1>6, InOrderOnRespond
<1>7. CASE Core1Step
  BY <1>7, InOrderOnPop, InOrderOnCore1 DEF Core1Step, Runs
<1>. QED
  BY <1>2, <1>3, <1>4, <1>5, <1>6, <1>7, RoundSteps

LEMMA RoundsKept == ASSUME Types, Position, Rounds, [Next]_vars PROVE Rounds'
<1>1. CASE UNCHANGED vars
  <2>1. UNCHANGED <<call_queue, core1, completed, ran, stray, isr, pc>>
    BY <1>1 DEF vars, core0, histories
  <2>. QED
    BY <2>1 DEF Rounds, InOrder, Leftovers, Ahead, Excused, Handling, IsHandle, IsResponse,
       Responses, Untested
<1>2. CASE Next
  BY <1>2, LeftoversKept, InOrderKept DEF Rounds
<1>. QED
  BY <1>1, <1>2

LEMMA RoundsHold == Spec => [](Types /\ Position /\ Rounds)
<1>1. Init => Rounds
  BY RoundsAtStart
<1>2. Types /\ Position /\ Rounds /\ [Next]_vars => Rounds'
  BY RoundsKept
<1>. QED
  BY <1>1, <1>2, TypesAndPosition, PTL DEF Spec

\* Only the wait of core 0 passes a round.
LEMMA RoundPasses ==
    ASSUME Types, Next, pc' # pc, Program[pc].do = "await"
    PROVE  Await
<1>1. ThreadTypes
  BY DEF Types
<1>2. ThreadStep \/ Ask
  BY <1>1, ThreadMoves
<1>3. ~Timeout
  BY DEF Timeout
<1>. QED
  BY <1>2, <1>3 DEF ThreadStep, Mask, Fill, Send, Point, Fetch, Drive, Release, High, Start,
     Stop, Reset, ReadFault, ClearFault, VerifyFault, Ask, At

\* A round that passes has seen the driver's handler run since it was announced,
\* unless an answer of the driver's earlier round was left over at the reset: in
\* call_queue and on core 1 the handler is always ahead of the response that the
\* same interrupt queued.
THEOREM RoundsAreAnswered == Spec => PassedRoundIsItsOwn
<1>1. ASSUME Types, Position, Rounds, Next, pc' # pc, Program[pc].do = "await"
      PROVE  Driver(On) \in ran \cup stray
  <2>1. Await
    BY <1>1, RoundPasses
  <2>2. Driver(On) \in completed /\ Driver(On) \in Drivers
    BY <1>1, <2>1, OnTypes, DriverTypes DEF Await, Types, ThreadTypes
  <2>. QED
    BY <1>1, <2>2 DEF Rounds, InOrder, Excused
<1>2. UNCHANGED vars => pc' = pc
  BY DEF vars, core0
<1>3. Types /\ Position /\ Rounds /\ [Next]_vars =>
        [pc' # pc /\ Program[pc].do = "await" => Driver(On) \in ran \cup stray]_vars
  BY <1>1, <1>2
<1>. QED
  BY <1>3, RoundsHold, PTL DEF Spec, PassedRoundIsItsOwn

-----------------------------------------------------------------------------
(* Edges. *)

\* Core 1 has a chip in hand for a handler only, and clears only fault registers.
Clearing ==
    /\ core1.at \in {"select", "read", "clear"} => core1.entry.func = "handle"
    /\ core1.at = "clear" => core1.entry.pin \in FaultPins

LEMMA ClearingKept == ASSUME Types, Clearing, [Next]_vars PROVE Clearing'
<1>1. QueueTypes
  BY DEF Types
<1>2. CASE core1' = core1
  BY <1>2 DEF Clearing
<1>3. CASE HandleFill \/ HandleSelect \/ HandleFault
  <2>1. core1.at # "pop"
    BY <1>3 DEF HandleFill, HandleSelect, HandleFault, Core1Runs, Core1Reads
  <2>2. core1 \in [at : {"run", "select", "read", "clear"}, entry : Entries]
    BY <1>1, <2>1, NoEntryIsNone DEF QueueTypes
  <2>3. core1.entry.func = "handle"
    BY <1>3 DEF HandleFill, HandleSelect, HandleFault, Core1Runs, Core1Reads, Clearing
  <2>4. CASE core1' = IdleCore1
    BY <2>4, NoEntryIsNone DEF Clearing
  <2>5. ASSUME NEW w \in {"select", "read", "clear"}, core1' = [core1 EXCEPT !.at = w],
               w = "clear" => core1.entry.pin \in FaultPins
        PROVE  Clearing'
    <3>1. core1'.at = w /\ core1'.entry = core1.entry
      BY <2>2, <2>5
    <3>. QED
      BY <2>3, <2>5, <3>1 DEF Clearing
  <2>6. CASE HandleFill \/ HandleSelect
    BY <2>5, <2>6 DEF HandleFill, HandleSelect
  <2>7. CASE HandleFault
    BY <2>4, <2>5, <2>7 DEF HandleFault, Core1Reads
  <2>. QED
    BY <1>3, <2>6, <2>7
<1>4. Core1Pop => core1'.at = "run"
  BY DEF Core1Pop
<1>5. Respond \/ HandleFlag \/ HandleAlarm \/ HandlerClear => core1'.at = "pop"
  BY NoEntryIsNone DEF Respond, HandleFlag, HandleAlarm, HandlerClear
<1>6. CASE core1'.at \in {"run", "pop"}
  BY <1>6 DEF Clearing
<1>7. IsrCallback \/ IsrRespond => core1' = core1
  BY DEF IsrCallback, IsrRespond
<1>8. UNCHANGED vars => core1' = core1
  BY DEF vars
<1>. QED
  BY <1>2, <1>3, <1>4, <1>5, <1>6, <1>7, <1>8, QueueChanges DEF Core1Step

\* The answer of p's test is there or on its way.
Answering(p) ==
    \/ Driver(p) \in completed
    \/ Responses(Driver(p))
    \/ isr.pin = p
    \/ latched[p] # {}

\* Core 0 waits with p driven low.
Pulled(p) ==
    \/ p = "INTB" /\ pc = 5
    \/ p = "IRQB" /\ pc = 22
    \/ p = "FLAG" /\ pc = 29
    \/ p = "FAULT1" /\ pc = 44
    \/ p = "FAULT2" /\ pc = 50

EdgeInv ==
    /\ \A p \in Pins : Pulled(p) => p \in silent \/ Answering(p)
    /\ pc = 35 \/ (pc = 34 /\ ~Low("FLAG")) => Answering("FLAG")
    /\ Clearing

LEMMA LatchedMoves ==
    ASSUME Types, Next, NEW p \in Pins, latched[p] # {}
    PROVE  latched'[p] # {} \/ isr'.pin = p
<1>1. PinTypes /\ IsrTypes
  BY DEF Types
<1>2. ASSUME NEW q \in Pins, IsrTake(q) PROVE latched'[p] # {} \/ isr'.pin = p
  <2>1. latched' = [latched EXCEPT ![q] = {}] /\ isr'.pin = q
    BY <1>2 DEF IsrTake
  <2>. QED
    BY <1>1, <2>1 DEF PinTypes
<1>3. CASE IsrCallback
  <2>1. latched' = [latched EXCEPT ![isr.pin] = @ \ {isr.at}] /\ isr'.pin = isr.pin
    BY <1>1, <1>3, NoEntryIsNone DEF IsrCallback, IsrTypes
  <2>. QED
    BY <1>1, <2>1 DEF PinTypes
<1>4. CASE Latch
  BY <1>1, <1>4, LatchKeeps
<1>5. CASE latched' = latched
  BY <1>5
<1>6. Fetch \/ HandleAlarm => Latch
  BY DEF Fetch, HandleAlarm
<1>7. IsrRespond \/ Core1Pop \/ Respond \/ HandleFlag \/ HandleFill \/ HandleSelect
        \/ HandleFault => latched' = latched
  BY DEF IsrRespond, Core1Pop, Respond, HandleFlag, HandleFill, HandleSelect, HandleFault
<1>. QED
  BY <1>2, <1>3, <1>4, <1>5, <1>6, <1>7, OtherSteps, LevelSteps

LEMMA IsrMoves ==
    ASSUME Types, Next, NEW p \in Pins, isr.pin = p, Driver(p) \in started
    PROVE  isr'.pin = p \/ Responses(Driver(p))'
<1>1. IsrTypes /\ QueueTypes
  BY DEF Types
<1>2. p # "none"
  BY DEF Pins, AlarmPins, FaultPins
<1>3. isr # IdleIsr
  BY <1>2, NoEntryIsNone
<1>4. CASE isr' = isr
  BY <1>4
<1>5. \A q \in Pins : ~IsrTake(q)
  <2>1. isr.at # "idle"
    BY <1>1, <1>3 DEF IsrTypes
  <2>. QED
    BY <2>1 DEF IsrTake
<1>6. CASE IsrCallback
  BY <1>1, <1>3, <1>6 DEF IsrCallback, IsrTypes
<1>7. CASE IsrRespond
  <2>1. call_queue' = Append(call_queue, Entry("response", p))
    BY <1>7 DEF IsrRespond
  <2>2. /\ Len(call_queue') = Len(call_queue) + 1
        /\ call_queue'[Len(call_queue) + 1] = Entry("response", p)
        /\ Len(call_queue) \in Nat
    BY <1>1, <2>1, EntryTypes, AppendIs, QueueIs
  <2>3. Len(call_queue) + 1 \in 1..Len(call_queue')
    BY <2>2
  <2>4. Entry("response", p).func = "response" /\ Entry("response", p).pin = p
    BY DEF Entry
  <2>. QED
    BY <2>2, <2>3, <2>4 DEF Responses
<1>8. Fetch \/ HandleAlarm \/ Core1Pop \/ Respond \/ HandleFlag \/ HandleFill
        \/ HandleSelect \/ HandleFault => isr' = isr
  BY PinActions DEF HandleAlarm, Core1Pop, Respond, HandleFlag, HandleFill, HandleSelect,
         HandleFault
<1>. QED
  BY <1>4, <1>5, <1>6, <1>7, <1>8, OtherSteps, LevelSteps

LEMMA ResponsesMove ==
    ASSUME Types, Clearing, Next, NEW d, Responses(d)
    PROVE  Responses(d)' \/ d \in completed'
<1>1. IsrTypes /\ QueueTypes
  BY DEF Types
<1>2. Len(call_queue) \in Nat
  BY <1>1, QueueIs
<1>3. CASE UNCHANGED <<call_queue, core1>>
  BY <1>3 DEF Responses
<1>4. ASSUME NEW e \in Entries, call_queue' = Append(call_queue, e), core1' = core1
      PROVE  Responses(d)'
  <2>1. /\ Len(call_queue') = Len(call_queue) + 1
        /\ \A i \in 1..Len(call_queue) : call_queue'[i] = call_queue[i]
    BY <1>1, <1>4, AppendIs
  <2>2. \A i \in 1..Len(call_queue) : i \in 1..Len(call_queue')
    BY <1>2, <2>1
  <2>. QED
    BY <1>4, <2>1, <2>2 DEF Responses
<1>5. CASE IsrCallback \/ IsrRespond
  <2>1. isr.pin \in Pins
    BY <1>1, <1>5, NoEntryIsNone DEF IsrCallback, IsrRespond, IsrTypes
  <2>2. /\ core1' = core1
        /\ \/ call_queue' = call_queue
           \/ call_queue' = Append(call_queue, Entry("handle", isr.pin))
           \/ call_queue' = Append(call_queue, Entry("response", isr.pin))
    BY <1>5 DEF IsrCallback, IsrRespond
  <2>3. Entry("handle", isr.pin) \in Entries /\ Entry("response", isr.pin) \in Entries
    BY <2>1, EntryTypes
  <2>4. PICK e1 \in Entries, e2 \in Entries :
            e1 = Entry("handle", isr.pin) /\ e2 = Entry("response", isr.pin)
    BY <2>3
  <2>5. CASE call_queue' = call_queue
    BY <1>3, <2>2, <2>5
  <2>6. CASE call_queue' = Append(call_queue, e1)
    BY <1>4, <2>2, <2>6
  <2>7. CASE call_queue' = Append(call_queue, e2)
    BY <1>4, <2>2, <2>7
  <2>. QED
    BY <2>2, <2>4, <2>5, <2>6, <2>7
<1>6. CASE Core1Pop
  <2>1. /\ core1.at = "pop"
        /\ core1' = [at |-> "run", entry |-> call_queue[1]]
        /\ Len(call_queue') = Len(call_queue) - 1
        /\ \A i \in 1..Len(call_queue') : call_queue'[i] = call_queue[i + 1]
    BY <1>1, <1>6, PopIs
  <2>2. core1.entry.func # "response"
    BY <1>1, <2>1, NoEntryIsNone DEF QueueTypes
  <2>3. ASSUME NEW i \in 1..Len(call_queue), call_queue[i].func = "response",
               Driver(call_queue[i].pin) = d
        PROVE  Responses(d)'
    <3>1. CASE i = 1
      BY <2>1, <2>3, <3>1 DEF Responses
    <3>2. CASE i # 1
      <4>1. i - 1 \in 1..Len(call_queue') /\ (i - 1) + 1 = i
        BY <1>2, <2>1, <3>2
      <4>2. call_queue'[i - 1] = call_queue[i]
        BY <2>1, <4>1
      <4>. QED
        BY <2>3, <4>1, <4>2 DEF Responses
    <3>. QED
      BY <3>1, <3>2
  <2>. QED
    BY <2>2, <2>3 DEF Responses
<1>7. CASE Respond
  <2>1. call_queue' = call_queue /\ completed' = completed \cup {Driver(core1.entry.pin)}
    BY <1>7 DEF Respond
  <2>. QED
    BY <2>1 DEF Responses
<1>8. CASE HandleFlag \/ HandleFill \/ HandleSelect \/ HandleAlarm \/ HandleFault
           \/ HandlerClear
  <2>1. call_queue' = call_queue
    BY <1>8 DEF HandleFlag, HandleFill, HandleSelect, HandleAlarm, HandleFault, HandlerClear
  <2>2. core1.entry.func = "handle"
    BY <1>8 DEF HandleFlag, HandleFill, HandleSelect, HandleAlarm, HandleFault,
                HandlerClear, Core1Runs, Core1Reads, Clearing
  <2>. QED
    BY <2>1, <2>2 DEF Responses
<1>. QED
  BY <1>3, <1>5, <1>6, <1>7, <1>8, QueueChanges DEF Core1Step

LEMMA CompletedStays ==
    ASSUME Next, ~Reset
    PROVE  completed \subseteq completed'
<1>1. Start => completed' = completed
  BY DEF Start
<1>2. Respond => completed \subseteq completed'
  BY DEF Respond
<1>. QED
  BY <1>1, <1>2, RoundSteps DEF RoundParts, IsrCallback, IsrRespond, core0, Core1Step,
     Core1Pop, HandleFlag, HandleFill, HandleSelect, HandleAlarm, HandleFault, HandlerClear

\* An edge of an announced test is answered, wherever the answer has got to.
LEMMA AnsweringKept ==
    ASSUME Types, Clearing, Next, ~Reset, NEW p \in Pins, Driver(p) \in started, Answering(p)
    PROVE  Answering(p)'
<1>1. CASE Driver(p) \in completed
  BY <1>1, CompletedStays DEF Answering
<1>2. CASE Responses(Driver(p))
  <2>1. PICK d : d = Driver(p)
    OBVIOUS
  <2>2. Responses(d)' \/ d \in completed'
    BY <1>2, <2>1, ResponsesMove
  <2>. QED
    BY <2>1, <2>2 DEF Answering
<1>3. CASE isr.pin = p
  BY <1>3, IsrMoves DEF Answering
<1>4. CASE latched[p] # {}
  BY <1>4, LatchedMoves DEF Answering
<1>. QED
  BY <1>1, <1>2, <1>3, <1>4 DEF Answering

LEMMA LatchOrSame == ASSUME Next PROVE Latch \/ UNCHANGED <<chip, masked, driven>>
BY OtherSteps, LevelSteps DEF HandleAlarm, Fetch

\* Only the pull-down of a pin says whether the pin was low before.
LEMMA SilentMoves ==
    ASSUME Types, Next, pc' = pc
    PROVE  silent' = silent /\ ~Reset
<1>1. pc \in 1..74
  BY DEF Types, ThreadTypes
<1>2. ~Proceed
  <2>1. Proceed => pc' # pc
    BY <1>1, Goes
  <2>. QED
    BY <2>1
<1>3. ~Drive /\ ~Reset
  BY <1>2 DEF Drive, Reset
<1>4. Mask \/ Send \/ Fetch \/ Release \/ High \/ ClearFault \/ VerifyFault
        => silent' = silent
  BY DEF Mask, Send, Fetch, Release, High, ClearFault, VerifyFault
<1>5. Start \/ Stop \/ Await \/ Ask \/ Timeout => silent' = silent
  BY FlagActions
<1>6. Fill \/ Point \/ ReadFault => silent' = silent
  BY BusActions
<1>. QED
  BY <1>3, <1>4, <1>5, <1>6, OnlyThreadPositions DEF ThreadStep

\* Core 0 gets to a place from the one before it, by the statement there.
LEMMA Arrives ==
    ASSUME Types, Next, pc' # pc, pc' # 60, pc' # 63
    PROVE  /\ pc' = pc + 1
           /\ pc \in 1..74
           /\ Program[pc].do = "drive" => Drive
           /\ Program[pc].do = "release" => Release
           /\ Program[pc].do = "high" => High /\ ~Low(On)
           /\ ~(Program[pc].do = "reset") => ~Reset
<1>1. ThreadTypes /\ pc \in 1..74
  BY DEF Types, ThreadTypes
<1>2. (ThreadStep \/ Ask) /\ Proceed
  BY <1>1, ThreadMoves
<1>3. pc' = pc + 1
  BY <1>1, <1>2, Goes
<1>4. Program[pc].do = "drive" => Drive
  BY <1>2 DEF ThreadStep, Mask, Fill, Send, Point, Fetch, High, Release, Start, Stop, Reset,
     Await, Timeout, ReadFault, ClearFault, VerifyFault, Ask, At
<1>5. Program[pc].do = "release" => Release
  BY <1>2 DEF ThreadStep, Mask, Fill, Send, Point, Fetch, High, Drive, Start, Stop, Reset,
     Await, Timeout, ReadFault, ClearFault, VerifyFault, Ask, At
<1>6. Program[pc].do = "high" => High
  BY <1>2 DEF ThreadStep, Mask, Fill, Send, Point, Fetch, Release, Drive, Start, Stop, Reset,
     Await, Timeout, ReadFault, ClearFault, VerifyFault, Ask, At
<1>7. High => ~Low(On)
  <2>1. pc' # pc
    OBVIOUS
  <2>. QED
    BY <2>1 DEF High, Assert
<1>8. Reset => Program[pc].do = "reset"
  BY DEF Reset, At
<1>. QED
  BY <1>1, <1>3, <1>4, <1>5, <1>6, <1>7, <1>8

LEMMA PulledKept ==
    ASSUME Types, Position, EdgeInv, Next, NEW p \in Pins, Pulled(p)'
    PROVE  p \in silent' \/ Answering(p)'
<1>1. pc \in 1..74 /\ StartedAt /\ Clearing /\ PinTypes
  BY DEF Types, ThreadTypes, Position, EdgeInv
<1>2. CASE pc' = pc
  <2>1. Pulled(p) /\ silent' = silent /\ ~Reset
    BY <1>2, SilentMoves DEF Pulled
  <2>2. p \in silent \/ Answering(p)
    BY <2>1 DEF EdgeInv
  <2>3. Driver(p) \in started
    BY <1>1, <2>1, DriverNames DEF Pulled, StartedAt
  <2>. QED
    BY <1>1, <2>1, <2>2, <2>3, AnsweringKept
<1>3. CASE pc' # pc
  <2>1. pc' = pc + 1 /\ (Program[pc].do = "drive" => Drive)
    BY <1>3, Arrives DEF Pulled
  <2>2. \/ p = "INTB" /\ pc = 4
        \/ p = "IRQB" /\ pc = 21
        \/ p = "FLAG" /\ pc = 28
        \/ p = "FAULT1" /\ pc = 43
        \/ p = "FAULT2" /\ pc = 49
    BY <1>1, <2>1 DEF Pulled
  <2>3. Program[pc].do = "drive" /\ On = p
    BY <2>2, PlacesHold DEF Places, On
  <2>4. /\ driven' = driven \cup {p} /\ Latch
        /\ silent' = IF Low(p) THEN silent \cup {p} ELSE silent \ {p}
    BY <2>1, <2>3 DEF Drive
  <2>5. Low(p)'
    BY <2>4 DEF Low
  <2>6. ~Low(p) => latched'[p] # {}
    BY <1>1, <2>4, <2>5, LatchKeeps
  <2>. QED
    BY <2>4, <2>6 DEF Answering
<1>. QED
  BY <1>2, <1>3

LEMMA ReleasedKept ==
    ASSUME Types, Position, EdgeInv, Next, (pc = 35 \/ (pc = 34 /\ ~Low("FLAG")))'
    PROVE  Answering("FLAG")'
<1>1. pc \in 1..74 /\ StartedAt /\ DrivenAt /\ Clearing /\ PinTypes /\ "FLAG" \in Pins
  BY ThePins DEF Types, ThreadTypes, Position, EdgeInv
<1>2. ASSUME ~Reset, Answering("FLAG"), pc \in {34, 35} PROVE Answering("FLAG")'
  <2>1. Driver("FLAG") \in started
    BY <1>1, <1>2, DriverNames DEF StartedAt
  <2>. QED
    BY <1>1, <1>2, <2>1, AnsweringKept
<1>3. CASE pc' = 35 /\ pc' = pc
  BY <1>2, <1>3, SilentMoves DEF EdgeInv
<1>4. CASE pc' = 35 /\ pc' # pc
  <2>1. /\ pc' = pc + 1
        /\ Program[pc].do = "high" => High /\ ~Low(On)
        /\ ~(Program[pc].do = "reset") => ~Reset
    BY <1>4, Arrives
  <2>2. pc = 34
    BY <1>1, <1>4, <2>1
  <2>3. Program[pc].do = "high" /\ On = "FLAG"
    BY <2>2, PlacesHold DEF Places, On
  <2>4. ~Low("FLAG") /\ ~Reset
    BY <2>1, <2>3
  <2>. QED
    BY <1>2, <2>2, <2>4 DEF EdgeInv
<1>5. CASE pc' = 34 /\ ~Low("FLAG")' /\ pc' = pc
  <2>1. ~Reset
    BY <1>5, SilentMoves
  <2>2. CASE ~Low("FLAG")
    BY <1>2, <1>5, <2>1, <2>2 DEF EdgeInv
  <2>3. CASE Low("FLAG")
    <3>1. Latch
      BY <1>5, <2>3, LatchOrSame DEF Low
    <3>2. latched'["FLAG"] # {}
      BY <1>1, <1>5, <2>3, <3>1, LatchKeeps
    <3>. QED
      BY <3>2 DEF Answering
  <2>. QED
    BY <2>2, <2>3
<1>6. CASE pc' = 34 /\ ~Low("FLAG")' /\ pc' # pc
  <2>1. pc' = pc + 1 /\ (Program[pc].do = "release" => Release)
    BY <1>6, Arrives
  <2>2. pc = 33
    BY <1>1, <1>6, <2>1
  <2>3. Program[pc].do = "release"
    BY <2>2, PlacesHold DEF Places
  <2>4. Latch
    BY <2>1, <2>3 DEF Release
  <2>5. Low("FLAG")
    BY <1>1, <2>2 DEF DrivenAt, Low
  <2>6. latched'["FLAG"] # {}
    BY <1>1, <1>6, <2>4, <2>5, LatchKeeps
  <2>. QED
    BY <2>6 DEF Answering
<1>. QED
  BY <1>3, <1>4, <1>5, <1>6

LEMMA EdgeKept == ASSUME Types, Position, EdgeInv, [Next]_vars PROVE EdgeInv'
<1>1. Clearing'
  BY ClearingKept DEF EdgeInv
<1>2. CASE Next
  BY <1>1, <1>2, PulledKept, ReleasedKept DEF EdgeInv
<1>3. CASE UNCHANGED vars
  BY <1>3 DEF vars, core0, histories, EdgeInv, Pulled, Answering, Responses, Low, Clearing
<1>. QED
  BY <1>2, <1>3

\* A test that gives up, which stops the robot, had no edge to be answered.
LEMMA NoEdgeKept ==
    ASSUME Types, Position, EdgeInv, TimesOutOnlyWithoutEdge, Next
    PROVE  TimesOutOnlyWithoutEdge'
<1>. SUFFICES ASSUME halted'.do = "await" PROVE halted'.on \in silent'
  BY DEF TimesOutOnlyWithoutEdge
<1>1. ThreadTypes /\ pc \in 1..74
  BY DEF Types, ThreadTypes
<1>2. CASE halted' = halted
  <2>1. halted.on \in silent
    BY <1>2 DEF TimesOutOnlyWithoutEdge
  <2>2. pc' = pc
    <3>1. halted.do # "no"
      BY <1>2
    <3>. QED
      BY <1>1, <3>1, ThreadMoves
  <2>. QED
    BY <1>2, <2>1, <2>2, SilentMoves
<1>3. CASE halted' # halted
  <2>1. Timeout /\ halted' = Program[pc] /\ pc' = pc
    BY <1>1, <1>3, ThreadMoves
  <2>4. /\ At("await") /\ On # "INTB" /\ Driver(On) \notin completed
        /\ call_queue = <<>> /\ core1 = IdleCore1
        /\ isr = IdleIsr /\ latched[On] = {}
        /\ silent' = silent
    BY <1>1, <2>1, OnTypes DEF Timeout, At, histories
  <2>5. ~Answering(On)
    <3>1. ~Responses(Driver(On))
      <4>1. Len(call_queue) = 0
        BY <2>4
      <4>. QED
        BY <2>4, <4>1, NoEntryIsNone DEF Responses
    <3>2. isr.pin # On
      <4>1. On \in Pins
        BY <1>1, OnTypes
      <4>2. On # "none"
        BY <4>1 DEF Pins, AlarmPins, FaultPins
      <4>. QED
        BY <2>4, <4>2, NoEntryIsNone
    <3>. QED
      BY <2>4, <3>1, <3>2 DEF Answering
  <2>6. pc # 35 /\ Pulled(On)
    <3>1. \/ (pc = 5 /\ On = "INTB") \/ (pc = 22 /\ On = "IRQB")
          \/ (pc = 29 /\ On = "FLAG") \/ (pc = 35 /\ On = "FLAG")
          \/ (pc = 44 /\ On = "FAULT1") \/ (pc = 50 /\ On = "FAULT2")
      BY <1>1, <2>4, WhereIs
    <3>2. pc # 35
      BY <2>5, <3>1 DEF EdgeInv
    <3>. QED
      BY <3>1, <3>2 DEF Pulled
  <2>7. On \in silent
    BY <1>1, <2>5, <2>6, OnTypes DEF EdgeInv
  <2>. QED
    BY <2>1, <2>4, <2>7 DEF On
<1>. QED
  BY <1>2, <1>3

\* A wait that ended in vain began with a pin that was low already, so that
\* driving it made no edge: an edge of an announced test is latched, then in the
\* interrupt, in call_queue, on core 1 and in the completed flag, without a gap,
\* and core 0 gives up only when all of these are empty.
THEOREM OnlySilentTestsFail == Spec => []TimesOutOnlyWithoutEdge
<1>1. Init => EdgeInv /\ TimesOutOnlyWithoutEdge
  BY NoEntryIsNone DEF Init, EdgeInv, Pulled, Clearing, TimesOutOnlyWithoutEdge, Step
<1>2. Types /\ Position /\ EdgeInv /\ [Next]_vars => EdgeInv'
  BY EdgeKept
<1>3. Types /\ Position /\ EdgeInv /\ TimesOutOnlyWithoutEdge /\ [Next]_vars
        => TimesOutOnlyWithoutEdge'
  <2>1. UNCHANGED vars /\ TimesOutOnlyWithoutEdge => TimesOutOnlyWithoutEdge'
    BY DEF vars, core0, histories, TimesOutOnlyWithoutEdge
  <2>. QED
    BY <2>1, NoEdgeKept
<1>. QED
  BY <1>1, <1>2, <1>3, TypesAndPosition, PTL DEF Spec

-----------------------------------------------------------------------------
(* Faults. *)

\* The places before a clear of p's fault register, back to the read before it.
BeforeClear(p) ==
    \/ p = "FAULT1" /\ (pc \in 1..36 \/ pc \in 65..67)
    \/ p = "FAULT2" /\ (pc \in 1..39 \/ pc \in 67..70)

\* A core that is going to clear a fault has told of it, or it came too late for
\* that, or the core looked at another register.
Told0(p) == \/ 0 \in fresh[p]
            \/ <<0, p>> \in misread
            \/ fault_values[p] = "fault"
Told1(p) == 1 \in fresh[p] \/ <<1, p>> \in misread

FaultTold ==
    /\ \A p \in FaultPins : chip[p] = "fault" /\ BeforeClear(p) => Told0(p)
    /\ core1.at = "clear" /\ chip[core1.entry.pin] = "fault" => Told1(core1.entry.pin)
    /\ Clearing

LEMMA ClearsAhead ==
    ASSUME pc \in 1..74, NEW p \in FaultPins, BeforeClear(p)
    PROVE  ClearAhead(0, p)
<1>1. Len(Program) = 74
  BY ProgramTypes
<1>2. ASSUME NEW i \in 1..74, i >= pc, Program[i] = Step("clear", p),
             i < 64 \/ pc > 66 \/ (pc > 64 /\ p = "FAULT1")
      PROVE  ClearAhead(0, p)
  <2>1. i \in pc..Len(Program)
    BY <1>1, <1>2
  <2>2. \A j \in pc..i : Program[j] # Step("read", p)
    <3>1. SUFFICES ASSUME NEW j \in pc..i, Program[j] = Step("read", p) PROVE FALSE
      OBVIOUS
    <3>2. j \in 1..74 /\ Program[j].do = "read" /\ Program[j].on = p
      BY <1>2, <3>1 DEF Step
    <3>3. j \in {64, 66}
      BY <3>2, PlacesOf
    <3>4. p = "FAULT1" => j = 64
      BY <3>2, <3>3, PlacesHold DEF Places
    <3>. QED
      BY <1>2, <3>1, <3>3, <3>4
  <2>. QED
    BY <1>2, <2>1, <2>2 DEF ClearAhead
<1>3. /\ Program[36] = Step("clear", "FAULT1") /\ Program[67] = Step("clear", "FAULT1")
      /\ Program[39] = Step("clear", "FAULT2") /\ Program[70] = Step("clear", "FAULT2")
  BY ProgramIs
<1>4. CASE p = "FAULT1" /\ pc \in 1..36
  BY <1>2, <1>3, <1>4
<1>5. CASE p = "FAULT1" /\ pc \in 65..67
  BY <1>2, <1>3, <1>5
<1>6. CASE p = "FAULT2" /\ pc \in 1..39
  BY <1>2, <1>3, <1>6
<1>7. CASE p = "FAULT2" /\ pc \in 67..70
  BY <1>2, <1>3, <1>7
<1>. QED
  BY <1>4, <1>5, <1>6, <1>7 DEF BeforeClear

\* What a read or a clear of the other chips does to the register of a fault line.
LEMMA OtherReads ==
    ASSUME Types, NEW p \in FaultPins, Fetch \/ HandleAlarm
    PROVE  chip'[p] = chip[p]
<1>1. ChipTypes /\ p \in Pins /\ p \notin AlarmPins /\ pc \in 1..74
  BY DEF Types, ThreadTypes, Pins, AlarmPins, FaultPins
<1>2. CASE Fetch
  <2>1. On \in AlarmPins
    BY <1>1, <1>2, AlarmOn DEF Fetch
  <2>2. chip' = chip \/ chip' = [chip EXCEPT ![On] = "none"]
    BY <1>2 DEF Fetch
  <2>. QED
    BY <1>1, <2>1, <2>2 DEF ChipTypes
<1>3. CASE HandleAlarm
  <2>1. core1.entry.pin \in AlarmPins
    BY <1>3 DEF HandleAlarm, Core1Reads
  <2>2. chip' = chip \/ chip' = [chip EXCEPT ![core1.entry.pin] = "none"]
    BY <1>3 DEF HandleAlarm
  <2>. QED
    BY <1>1, <2>1, <2>2 DEF ChipTypes
<1>. QED
  BY <1>2, <1>3

\* Nothing but a fault sets a fault.
LEMMA FaultsCome ==
    ASSUME Types, Next, NEW p \in FaultPins, chip'[p] = "fault"
    PROVE  chip[p] = "fault" \/ Fault(p)
<1>1. ChipTypes /\ QueueTypes /\ p \in Pins /\ pc \in 1..74
  BY DEF Types, Pins, ThreadTypes
<1>2. ASSUME NEW q \in AlarmPins \cup FaultPins, Alarm(q) PROVE chip[p] = "fault"
  BY <1>1, <1>2 DEF Alarm, ChipTypes
<1>3. CASE Charger
  BY <1>1, <1>3 DEF Charger, ChipTypes, FaultPins, Pins
<1>4. ASSUME NEW q \in FaultPins, Fault(q) PROVE chip[p] = "fault" \/ Fault(p)
  <2>1. chip[p] = "fault" \/ q = p
    BY <1>1, <1>4 DEF Fault, ChipTypes
  <2>. QED
    BY <1>4, <2>1
<1>5. CASE ClearFault
  <2>1. PICK reg \in Cleared(On) : chip' = [chip EXCEPT ![On] = reg]
    BY <1>5 DEF ClearFault
  <2>2. reg \in {"none", "fault"} /\ (reg = "fault" => chip[On] = "fault")
    BY <2>1 DEF Cleared
  <2>. QED
    BY <1>1, <2>1, <2>2 DEF ChipTypes
<1>6. CASE HandlerClear
  <2>1. PICK reg \in Cleared(core1.entry.pin) : chip' = [chip EXCEPT ![core1.entry.pin] = reg]
    BY <1>6 DEF HandlerClear
  <2>2. reg \in {"none", "fault"} /\ (reg = "fault" => chip[core1.entry.pin] = "fault")
    BY <2>1 DEF Cleared
  <2>. QED
    BY <1>1, <2>1, <2>2 DEF ChipTypes
<1>7. CASE Fetch \/ HandleAlarm
  BY <1>7, OtherReads
<1>8. Mask \/ Send \/ Drive \/ Release => chip' = chip
  BY DEF Mask, Send, Drive, Release
<1>9. CASE UNCHANGED <<chip, masked, driven, missed>>
  BY <1>9
<1>10. LevelStep => chip[p] = "fault" \/ Fault(p)
  BY <1>2, <1>3, <1>4, <1>5, <1>6, <1>8 DEF LevelStep
<1>. QED
  BY <1>7, <1>9, <1>10, OtherSteps

\* What core 0 has told of p, and what excuses it, changes with its own reads and
\* clears of p only.
LEMMA Told0Moves ==
    ASSUME Types, Next, NEW p \in FaultPins, Told0(p), ~Fault(p),
           ~(ReadFault /\ On = p), ~(ClearFault /\ On = p)
    PROVE  Told0(p)'
<1>1. FlagTypes /\ pc \in 1..74
  BY DEF Types, ThreadTypes
<1>2. CASE UNCHANGED <<fresh, fault_values, misread>>
  BY <1>2 DEF Told0
<1>3. ASSUME NEW q \in Pins, Alarm(q) \/ Charger PROVE Told0(p)'
  BY <1>2, <1>3, ChipActions DEF Alarm, Charger
<1>4. ASSUME NEW q \in FaultPins, Fault(q) PROVE Told0(p)'
  <2>1. q # p
    BY <1>4
  <2>2. fresh'[p] = fresh[p]
    BY <1>1, <1>4, <2>1 DEF Fault, FlagTypes
  <2>3. UNCHANGED <<fault_values, misread>>
    BY <1>4, ChipActions DEF Pins
  <2>. QED
    BY <2>2, <2>3 DEF Told0
<1>5. ASSUME NEW q \in Pins, IsrTake(q) \/ IsrCallback \/ IsrRespond PROVE Told0(p)'
  BY <1>2, <1>5, IsrActions
<1>6. Mask \/ Send \/ Fetch \/ Drive \/ Release \/ High \/ VerifyFault
        => UNCHANGED <<fresh, fault_values, misread>>
  BY PinActions DEF Mask, Send, Fetch, Drive, Release, High, VerifyFault
<1>7. CASE ClearFault
  <2>1. On # p
    BY <1>7
  <2>2. fault_values' = fault_values
    BY <1>7, PinActions
  <2>3. fresh'[p] = fresh[p] /\ misread' = misread \ {<<0, On>>}
    BY <1>1, <1>7, <2>1 DEF ClearFault, FlagTypes
  <2>. QED
    BY <2>1, <2>2, <2>3 DEF Told0
<1>8. CASE ReadFault
  <2>1. On # p
    BY <1>8
  <2>2. PICK seen \in Seen(On) : fault_values' = [fault_values EXCEPT ![On] = seen]
    BY <1>8 DEF ReadFault
  <2>3. fault_values'[p] = fault_values[p]
    BY <1>1, <2>1, <2>2 DEF FlagTypes
  <2>4. misread \ {<<0, On>>} \subseteq misread'
    BY <1>8 DEF ReadFault, Noted
  <2>5. fresh' = fresh
    BY <1>8, BusActions
  <2>. QED
    BY <2>1, <2>3, <2>4, <2>5 DEF Told0
<1>9. Start \/ Stop \/ Reset \/ Await \/ Ask \/ Timeout
        => UNCHANGED <<fresh, fault_values, misread>>
  BY FlagActions
<1>10. Fill \/ Point => UNCHANGED <<fresh, fault_values, misread>>
  BY BusActions DEF Fill, Point
<1>11. Core1Pop \/ Respond \/ HandleFlag \/ HandleFill \/ HandleSelect \/ HandleAlarm
         \/ OtherEntry => UNCHANGED <<fresh, fault_values, misread>>
  BY DEF Core1Pop, Respond, HandleFlag, HandleFill, HandleSelect, HandleAlarm, OtherEntry,
         core0, histories
<1>12. CASE HandleFault
  <2>1. UNCHANGED <<fresh, fault_values>>
    BY <1>12 DEF HandleFault, core0
  <2>2. misread \ {<<1, core1.entry.pin>>} \subseteq misread'
    BY <1>12 DEF HandleFault, Noted
  <2>. QED
    BY <2>1, <2>2 DEF Told0
<1>13. CASE HandlerClear
  <2>1. fault_values' = fault_values
    BY <1>13 DEF HandlerClear, core0
  <2>2. misread' = misread \ {<<1, core1.entry.pin>>}
    BY <1>13 DEF HandlerClear
  <2>3. 0 \in fresh[p] => 0 \in fresh'[p]
    BY <1>1, <1>13 DEF HandlerClear, FlagTypes
  <2>. QED
    BY <2>1, <2>2, <2>3 DEF Told0
<1>14. CASE ThreadStep
  BY <1>2, <1>6, <1>7, <1>8, <1>9, <1>10, <1>14 DEF ThreadStep
<1>15. CASE Core1Step
  BY <1>2, <1>11, <1>12, <1>13, <1>15 DEF Core1Step
<1>. QED
  BY <1>2, <1>3, <1>4, <1>5, <1>9, <1>11, <1>14, <1>15, ThePins DEF Next, Pins

\* What excuses core 1 changes with its own reads and clears of p only.
LEMMA Told1Moves ==
    ASSUME Types, Next, NEW p \in FaultPins, Told1(p), ~Fault(p),
           ~HandleFault, ~HandlerClear
    PROVE  Told1(p)'
<1>1. FlagTypes /\ pc \in 1..74
  BY DEF Types, ThreadTypes
<1>2. CASE UNCHANGED <<fresh, misread>>
  BY <1>2 DEF Told1
<1>3. ASSUME NEW q \in Pins, Alarm(q) \/ Charger PROVE Told1(p)'
  BY <1>2, <1>3, ChipActions DEF Alarm, Charger
<1>4. ASSUME NEW q \in FaultPins, Fault(q) PROVE Told1(p)'
  <2>1. q # p
    BY <1>4
  <2>2. fresh'[p] = fresh[p]
    BY <1>1, <1>4, <2>1 DEF Fault, FlagTypes
  <2>3. misread' = misread
    BY <1>4, ChipActions DEF Pins
  <2>. QED
    BY <2>2, <2>3 DEF Told1
<1>5. ASSUME NEW q \in Pins, IsrTake(q) \/ IsrCallback \/ IsrRespond PROVE Told1(p)'
  BY <1>2, <1>5, IsrActions
<1>6. Mask \/ Send \/ Fetch \/ Drive \/ Release \/ High \/ VerifyFault
        => UNCHANGED <<fresh, misread>>
  BY DEF Mask, Send, Fetch, Drive, Release, High, VerifyFault
<1>7. CASE ClearFault
  <2>1. misread' = misread \ {<<0, On>>}
    BY <1>7 DEF ClearFault
  <2>2. 1 \in fresh[p] => 1 \in fresh'[p]
    BY <1>1, <1>7 DEF ClearFault, FlagTypes
  <2>. QED
    BY <2>1, <2>2 DEF Told1
<1>8. CASE ReadFault
  <2>1. misread \ {<<0, On>>} \subseteq misread'
    BY <1>8 DEF ReadFault, Noted
  <2>2. fresh' = fresh
    BY <1>8, BusActions
  <2>. QED
    BY <2>1, <2>2 DEF Told1
<1>9. Start \/ Stop \/ Reset \/ Await \/ Ask \/ Timeout => UNCHANGED <<fresh, misread>>
  BY FlagActions
<1>10. Fill \/ Point => UNCHANGED <<fresh, misread>>
  BY BusActions DEF Fill, Point
<1>11. Core1Pop \/ Respond \/ HandleFlag \/ HandleFill \/ HandleSelect \/ HandleAlarm
         \/ OtherEntry => UNCHANGED <<fresh, misread>>
  BY DEF Core1Pop, Respond, HandleFlag, HandleFill, HandleSelect, HandleAlarm, OtherEntry,
         histories
<1>12. CASE ThreadStep
  BY <1>2, <1>6, <1>7, <1>8, <1>9, <1>10, <1>12 DEF ThreadStep
<1>13. CASE Core1Step
  BY <1>2, <1>11, <1>13 DEF Core1Step
<1>. QED
  BY <1>2, <1>3, <1>4, <1>5, <1>9, <1>11, <1>12, <1>13, ThePins DEF Next, Pins

\* Core 0 gets to the places before a clear by reading the fault register.
LEMMA BeforeClearMoves ==
    ASSUME Types, Next, NEW p \in FaultPins, BeforeClear(p)', ~BeforeClear(p)
    PROVE  ReadFault /\ On = p
<1>1. ThreadTypes /\ pc \in 1..74
  BY DEF Types, ThreadTypes
<1>2. pc' # pc /\ pc' # 63
  BY DEF BeforeClear
<1>3. (ThreadStep \/ Ask) /\ Proceed
  BY <1>1, <1>2, ThreadMoves
<1>4. pc' \in 1..74 /\ IF pc = 74 THEN pc' = 60 ELSE pc' = pc + 1
  BY <1>1, <1>3, Goes
<1>5. (p = "FAULT1" /\ pc = 64) \/ (p = "FAULT2" /\ pc = 66)
  BY <1>1, <1>4 DEF BeforeClear
<1>6. Program[pc].do = "read" /\ On = p
  BY <1>5, PlacesHold DEF Places, On
<1>. QED
  BY <1>3, <1>6 DEF ThreadStep, Mask, Fill, Send, Point, Fetch, Drive, Release, High, Start,
     Stop, Reset, Await, Timeout, ClearFault, VerifyFault, Ask, At

LEMMA ReadTells ==
    ASSUME Types, NEW p \in FaultPins, chip[p] = "fault", ReadFault, On = p
    PROVE  Told0(p)'
<1>1. FlagTypes
  BY DEF Types
<1>2. CASE p \in aimed
  <2>1. PICK seen \in Seen(On) : fault_values' = [fault_values EXCEPT ![On] = seen]
    BY DEF ReadFault
  <2>2. seen = "fault"
    BY <1>2, <2>1 DEF Seen
  <2>. QED
    BY <1>1, <2>1, <2>2 DEF FlagTypes, Told0
<1>3. CASE p \notin aimed
  BY <1>3 DEF ReadFault, Noted, Told0
<1>. QED
  BY <1>2, <1>3

LEMMA HandlerLeaves ==
    ASSUME Types, HandleFault, core1'.at = "clear", NEW p, p = core1'.entry.pin,
           chip[p] = "fault"
    PROVE  Told1(p)'
<1>1. QueueTypes
  BY DEF Types
<1>2. core1 \in [at : {"run", "select", "read", "clear"}, entry : Entries]
  BY <1>1, NoEntryIsNone DEF HandleFault, Core1Reads, QueueTypes
<1>3. core1' # IdleCore1
  BY NoEntryIsNone
<1>4. core1'.entry = core1.entry
  BY <1>2, <1>3 DEF HandleFault
<1>5. p = core1.entry.pin
  BY <1>4
<1>6. PICK seen \in Seen(p) : core1' = IF seen = "fault" THEN IdleCore1
                                       ELSE [core1 EXCEPT !.at = "clear"]
  BY <1>5 DEF HandleFault
<1>7. p \notin aimed
  BY <1>3, <1>4, <1>5, <1>6 DEF Seen
<1>8. misread' = misread \cup {<<1, p>>}
  BY <1>5, <1>7 DEF HandleFault, Noted
<1>. QED
  BY <1>8 DEF Told1

LEMMA FaultToldKept == ASSUME Types, FaultTold, [Next]_vars PROVE FaultTold'
<1>1. ChipTypes /\ QueueTypes /\ FlagTypes /\ pc \in 1..74 /\ Clearing
  BY DEF Types, ThreadTypes, FaultTold
<1>2. Clearing'
  BY <1>1, ClearingKept
<1>3. ASSUME Next, NEW p \in FaultPins, chip'[p] = "fault", BeforeClear(p)'
      PROVE  Told0(p)'
  <2>1. CASE Fault(p)
    <3>1. pc' = pc /\ fresh' = [fresh EXCEPT ![p] = {c \in {0, 1} : ClearAhead(c, p)}]
      BY <2>1 DEF Fault, Happens, core0
    <3>2. BeforeClear(p)
      BY <1>3, <3>1 DEF BeforeClear
    <3>3. ClearAhead(0, p)
      BY <1>1, <3>2, ClearsAhead
    <3>. QED
      BY <1>1, <3>1, <3>3 DEF FlagTypes, Told0
  <2>2. CASE ReadFault /\ On = p
    <3>1. chip' = chip
      BY <2>2, BusActions
    <3>. QED
      BY <1>3, <2>2, <3>1, ReadTells
  <2>3. ~(ClearFault /\ On = p)
    <3>1. SUFFICES ASSUME ClearFault, On = p PROVE FALSE
      OBVIOUS
    <3>2. Proceed /\ At("clear")
      BY <3>1 DEF ClearFault
    <3>3. \/ p = "FAULT1" /\ (pc = 36 \/ pc = 67)
          \/ p = "FAULT2" /\ (pc = 39 \/ pc = 70)
      BY <1>1, <3>1, <3>2, WhereIs
    <3>4. pc' = pc + 1
      BY <1>1, <3>2, <3>3, Goes
    <3>. QED
      BY <1>3, <3>3, <3>4 DEF BeforeClear
  <2>4. CASE ~Fault(p) /\ ~(ReadFault /\ On = p)
    <3>1. chip[p] = "fault"
      BY <1>3, <2>4, FaultsCome
    <3>2. BeforeClear(p)
      BY <1>3, <2>4, BeforeClearMoves
    <3>3. Told0(p)
      BY <3>1, <3>2 DEF FaultTold
    <3>. QED
      BY <1>3, <2>3, <2>4, <3>3, Told0Moves
  <2>. QED
    BY <2>1, <2>2, <2>4
<1>4. ASSUME Next, core1'.at = "clear", NEW p, p = core1'.entry.pin, chip'[p] = "fault"
      PROVE  Told1(p)'
  <2>1. p \in FaultPins
    BY <1>2, <1>4 DEF Clearing
  <2>3. CASE Fault(p)
    <3>1. core1' = core1 /\ fresh' = [fresh EXCEPT ![p] = {c \in {0, 1} : ClearAhead(c, p)}]
      BY <2>3 DEF Fault, Happens
    <3>2. ClearAhead(1, p)
      BY <1>4, <2>1, <3>1 DEF ClearAhead
    <3>. QED
      BY <1>1, <2>1, <3>1, <3>2 DEF FlagTypes, Told1
  <2>4. CASE HandleFault
    <3>1. chip' = chip
      BY <2>4 DEF HandleFault
    <3>. QED
      BY <1>4, <2>4, <3>1, HandlerLeaves
  <2>5. ~HandlerClear
    BY <1>4, NoEntryIsNone DEF HandlerClear
  <2>6. CASE ~Fault(p) /\ ~HandleFault
    <3>1. chip[p] = "fault"
      BY <1>4, <2>1, <2>6, FaultsCome
    <3>2. core1' = core1
      <4>1. Respond \/ HandleFlag \/ HandleAlarm => core1'.at = "pop"
        BY NoEntryIsNone DEF Respond, HandleFlag, HandleAlarm
      <4>2. Core1Pop => core1'.at # "clear"
        BY DEF Core1Pop
      <4>3. ASSUME HandleFill \/ HandleSelect PROVE core1'.at # "clear"
        <5>1. core1.at # "pop"
          BY <4>3 DEF HandleFill, HandleSelect, Core1Runs
        <5>2. core1 \in [at : {"run", "select", "read", "clear"}, entry : Entries]
          BY <1>1, <5>1, NoEntryIsNone DEF QueueTypes
        <5>. QED
          BY <4>3, <5>2 DEF HandleFill, HandleSelect
      <4>4. IsrCallback \/ IsrRespond => core1' = core1
        BY DEF IsrCallback, IsrRespond
      <4>. QED
        BY <1>4, <2>5, <2>6, <4>1, <4>2, <4>3, <4>4, QueueChanges DEF Core1Step
    <3>3. Told1(p)
      BY <1>4, <2>1, <3>1, <3>2 DEF FaultTold
    <3>4. Told1(p)'
      BY <1>4, <2>1, <2>5, <2>6, <3>3, Told1Moves
    <3>. QED
      BY <3>4
  <2>. QED
    BY <2>3, <2>4, <2>6
<1>5. CASE Next
  <2>1. (core1.at = "clear" /\ chip[core1.entry.pin] = "fault" => Told1(core1.entry.pin))'
    BY <1>4, <1>5 DEF Told1
  <2>2. (\A p \in FaultPins : chip[p] = "fault" /\ BeforeClear(p) => Told0(p))'
    BY <1>3, <1>5
  <2>. QED
    BY <1>2, <2>1, <2>2 DEF FaultTold
<1>6. CASE UNCHANGED vars
  BY <1>2, <1>6 DEF vars, core0, histories, FaultTold, BeforeClear, Told0, Told1
<1>. QED
  BY <1>5, <1>6

LEMMA ClearTold ==
    ASSUME Types, FaultTold, Next, NEW p \in FaultPins, chip[p] = "fault", chip'[p] = "none"
    PROVE  IF core1' # core1 THEN Told1(p) ELSE Told0(p)
<1>1. ChipTypes /\ QueueTypes /\ p \in Pins /\ pc \in 1..74
  BY DEF Types, Pins, ThreadTypes
<1>2. ASSUME NEW q \in AlarmPins \cup FaultPins PROVE ~Alarm(q)
  BY <1>1 DEF Alarm, ChipTypes
<1>3. ASSUME NEW q \in FaultPins PROVE ~Fault(q)
  BY <1>1 DEF Fault, ChipTypes
<1>4. ~Charger
  BY <1>1 DEF Charger, ChipTypes, FaultPins, Pins
<1>5. CASE ClearFault
  <2>1. PICK reg \in Cleared(On) : chip' = [chip EXCEPT ![On] = reg]
    BY <1>5 DEF ClearFault
  <2>2. On = p /\ core1' = core1
    BY <1>1, <1>5, <2>1, PinActions DEF ChipTypes
  <2>3. BeforeClear(p)
    <3>1. At("clear")
      BY <1>5 DEF ClearFault
    <3>. QED
      BY <1>1, <2>2, <3>1, WhereIs DEF BeforeClear
  <2>. QED
    BY <2>2, <2>3 DEF FaultTold
<1>6. CASE HandlerClear
  <2>1. PICK reg \in Cleared(core1.entry.pin) : chip' = [chip EXCEPT ![core1.entry.pin] = reg]
    BY <1>6 DEF HandlerClear
  <2>2. core1.entry.pin = p /\ core1.at = "clear" /\ core1' = IdleCore1
    BY <1>1, <1>6, <2>1 DEF ChipTypes, HandlerClear
  <2>. QED
    BY <2>2, NoEntryIsNone DEF FaultTold
<1>7. ~Fetch /\ ~HandleAlarm
  BY OtherReads
<1>8. ~Mask /\ ~Send /\ ~Drive /\ ~Release /\ ~UNCHANGED <<chip, masked, driven, missed>>
  BY DEF Mask, Send, Drive, Release
<1>. QED
  BY <1>2, <1>3, <1>4, <1>5, <1>6, <1>7, <1>8, OtherSteps DEF LevelStep

\* No motor fault is taken out of a chip untold: on core 0 a clear follows a read
\* into fault_values, and the handler on core 1 clears only what was no fault when
\* it looked.  What remains is the fault that came in between, and the read that
\* saw another register because the other core had moved the chip's pointer.
THEOREM FaultsAreTold == Spec => ClearedFaultWasTold
<1>1. Init => FaultTold
  BY NoEntryIsNone DEF Init, FaultTold, Clearing, FaultPins, Pins
<1>2. Types /\ FaultTold /\ [Next]_vars => FaultTold'
  BY FaultToldKept
<1>3. UNCHANGED vars => chip' = chip
  BY DEF vars
<1>4. ASSUME Types, FaultTold, [Next]_vars, NEW p \in FaultPins,
             chip[p] = "fault", chip'[p] = "none"
      PROVE  IF core1' # core1 THEN 1 \in fresh[p] \/ <<1, p>> \in misread
             ELSE \/ 0 \in fresh[p] \/ <<0, p>> \in misread
                  \/ fault_values[p] = "fault"
  <2>1. Next
    BY <1>3, <1>4
  <2>. QED
    BY <1>4, <2>1, ClearTold DEF Told0, Told1
<1>5. Types /\ FaultTold /\ [Next]_vars =>
        [\A p \in FaultPins :
           chip[p] = "fault" /\ chip'[p] = "none" =>
               IF core1' # core1 THEN 1 \in fresh[p] \/ <<1, p>> \in misread
               ELSE \/ 0 \in fresh[p] \/ <<0, p>> \in misread
                    \/ fault_values[p] = "fault"]_vars
  BY <1>4
<1>. QED
  BY <1>1, <1>2, <1>5, TypesAndPosition, PTL DEF Spec, ClearedFaultWasTold

=============================================================================
