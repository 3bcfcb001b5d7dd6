----------------------------- MODULE MAX77976 -----------------------------
(***************************************************************************)
(* The battery charger, src/src/max77976.c, and the I2C transfers under it *)
(* (i2c_write_error_handling and i2c_read_error_handling, src/src/robot.c).*)
(* Core 0 configures the charger at the start, tests it, and reads its     *)
(* details whenever the host asks for the state; core 1 reads and clears   *)
(* its interrupt register for every edge of its pin.  Reading a register   *)
(* takes two transfers, one that sets the chip's register pointer and one  *)
(* that reads from there, and nothing keeps the other core's transfers out *)
(* from between the two.                                                   *)
(*                                                                         *)
(* A transfer is attempted up to MaxRetries times inside CException's Try; *)
(* when the last attempt fails, Throw jumps to the frame entered last.     *)
(* CException (external) keeps one frame pointer for the program unless it *)
(* is configured otherwise, and the return inside Try does not put the     *)
(* previous frame back.  What a core does that lands in a frame of the     *)
(* other core is undefined, and the model ends there.                      *)
(*                                                                         *)
(* A transfer takes effect at one moment.  A failed attempt may have taken *)
(* effect before the failure: the chip got the byte, or the read emptied a *)
(* register, and the time ran out after that.                              *)
(***************************************************************************)
EXTENDS Integers, Sequences, BitOps

CONSTANTS MaxRetries,  \* MAX_RETRIES, the attempts at a transfer
          MaxQueued    \* bound: the input comes or goes only while fewer
                       \* entries wait in call_queue

ASSUME MAX77976Assumption == MaxRetries \in Nat \ {0} /\ MaxQueued \in Nat \ {0}

Cores == {0, 1}
Other(c) == 1 - c
Nobody == 2             \* no frame was ever entered

\* Registers.
CHIP_ID == 0
CHG_INT == 16
CHG_INT_MASK == 17
DETAILS_00 == 19
CNFG_00 == 22
CNFG_02 == 24
CNFG_06 == 28
CNFG_08 == 30
CNFG_09 == 31
Registers == {CHG_INT_MASK, CNFG_00, CNFG_02, CNFG_06, CNFG_08, CNFG_09}
Protected == Registers \ {CHG_INT_MASK, CNFG_06}

UNLOCKED == 12
LOCKED == 0
CHGIN_I == 6            \* the one interrupt that is not masked
ALL_MASKED == 255

Reset == [r \in Registers |-> CASE r = CHG_INT_MASK -> ALL_MASKED
                                [] r = CNFG_00 -> 4
                                [] r = CNFG_02 -> 9
                                [] r = CNFG_06 -> LOCKED
                                [] r = CNFG_08 -> 2
                                [] r = CNFG_09 -> 137]

VARIABLES regs,      \* the chip's registers that can be written
          pointer,   \* the register its next read starts from
          alarm,     \* CHGIN_I of CHG_INT: the charger's input came or went
          edge,      \* the pin's falling edge, latched in the RP2040
          queued,    \* entries max77976_parse_interrupt_vals in call_queue
          todo,      \* the transfers each core has still to make
          state,     \* "run", "try" (a transfer under way), "stopped" by an
                     \* assertion, or "astray" in a foreign frame
          attempts,  \* attempts at each core's transfer that failed
          frame,     \* whose frame CException would jump to
          previous,  \* PrevFrame of each core's Try
          partial,   \* history: an attempt at a read failed after its effect
          crossed,   \* history: a core's transfer came between the other's
                     \* setting of the pointer and its read
          nested     \* history: a core entered Try while the other was in it

vars == <<regs, pointer, alarm, edge, queued, todo, state, attempts, frame,
          previous, partial, crossed, nested>>

-----------------------------------------------------------------------------
(* What the driver's functions transfer. *)

Transfer(do, reg, arg) == [do |-> do, reg |-> reg, arg |-> arg]

Write(reg, val) == <<Transfer("write", reg, val)>>

\* Reads n bytes; reg is where the caller believes it reads from.
Get(reg, n) == <<Transfer("point", reg, 0), Transfer("read", reg, n)>>

\* The same for a self-test, which asserts the value.
Expect(reg, val) == <<Transfer("point", reg, 0), Transfer("expect", reg, val)>>

\* max77976_get_interrupt_vals.  CHG_INT is cleared by reading it.
GetInterruptVals == Get(CHG_INT, 3)

set_interrupt_masks == Write(CHG_INT_MASK, bit_clear(ALL_MASKED, CHGIN_I))
set_interrupt_masks_all_masked == Write(CHG_INT_MASK, ALL_MASKED)

\* Mutated form of MAX77976Init: locked again before the last setting.
MAX77976InitLockedEarly ==
    set_interrupt_masks
        \o GetInterruptVals
        \o Write(CNFG_06, UNLOCKED)
        \o Write(CNFG_00, 5)
        \o Write(CNFG_02, 25)
        \o Write(CNFG_08, bit_assign(Reset[CNFG_08], 0, 1))
        \o Write(CNFG_06, LOCKED)
        \o Write(CNFG_09, bit_set_range(Reset[CNFG_09], 0, 5, 59))

\* Mutated form of MAX77976Init: old interrupts are not cleared.
MAX77976InitNoClear ==
    set_interrupt_masks
        \o Write(CNFG_06, UNLOCKED)
        \o Write(CNFG_00, 5)
        \o Write(CNFG_02, 25)
        \o Write(CNFG_08, bit_assign(Reset[CNFG_08], 0, 1))
        \o Write(CNFG_09, bit_set_range(Reset[CNFG_09], 0, 5, 59))
        \o Write(CNFG_06, LOCKED)

\* max77976_init, from the masks on.  The pin's edge is enabled before.
MAX77976Init ==
    set_interrupt_masks
        \o GetInterruptVals
        \o Write(CNFG_06, UNLOCKED)
        \o Write(CNFG_00, 5)
        \o Write(CNFG_02, 25)
        \o Write(CNFG_08, bit_assign(Reset[CNFG_08], 0, 1))
        \o Write(CNFG_09, bit_set_range(Reset[CNFG_09], 0, 5, 59))
        \o Write(CNFG_06, LOCKED)

\* test_max77976_get_id passes the address 0 for the register's number, which
\* is then the first byte of the RP2040's ROM, 0.
TestGetId ==
    set_interrupt_masks_all_masked \o Expect(CHIP_ID, 118) \o set_interrupt_masks

TestGetFSW ==
    set_interrupt_masks_all_masked \o Expect(CNFG_08, 0) \o set_interrupt_masks

\* i2c_scan reads a byte of each chip, from wherever its pointer is.
I2CScan == <<Transfer("scan", CHIP_ID, 1)>>

\* Mutated form of GetChgDetails: it also reads the interrupts.
GetChgDetailsFromInt ==
    Get(CHG_INT, 1) \o Get(DETAILS_00 + 1, 1) \o Get(DETAILS_00 + 2, 1) \o Get(CNFG_00, 1)

\* max77976_get_chg_details
GetChgDetails ==
    Get(DETAILS_00, 1) \o Get(DETAILS_00 + 1, 1) \o Get(DETAILS_00 + 2, 1) \o Get(CNFG_00, 1)

OnStart == MAX77976Init \o TestGetId \o TestGetFSW \o I2CScan

ParseInterruptVals == GetInterruptVals

-----------------------------------------------------------------------------
\* The charger keeps its registers while the RP2040 restarts, so it may have
\* been configured or unlocked before.
Init ==
    /\ regs \in {Reset, [Reset EXCEPT ![CHG_INT_MASK] = 191, ![CNFG_06] = UNLOCKED]}
    /\ pointer = CHIP_ID
    /\ alarm \in BOOLEAN
    /\ edge = FALSE
    /\ queued = 0
    /\ todo = [c \in Cores |-> IF c = 0 THEN OnStart ELSE <<>>]
    /\ state = [c \in Cores |-> "run"]
    /\ attempts = [c \in Cores |-> 0]
    /\ frame = Nobody
    /\ previous = [c \in Cores |-> Nobody]
    /\ partial = FALSE
    /\ crossed = FALSE
    /\ nested = FALSE

-----------------------------------------------------------------------------
(* The chip. *)

\* The pin is low while an interrupt is set that is not masked.
Low(mask, int) == int /\ bit_check(mask, CHGIN_I) = 0

\* The latch of the falling edge follows the pin.
Pin == edge' = (edge \/ (Low(regs'[CHG_INT_MASK], alarm')
                             /\ ~Low(regs[CHG_INT_MASK], alarm)))

\* The bytes a transfer moves.  Masks are written together with two registers
\* that cannot be.
Length(t) == CASE t.do = "point" -> 0
               [] t.do = "write" -> IF t.reg = CHG_INT_MASK THEN 3 ELSE 1
               [] t.do = "expect" -> 1
               [] t.do \in {"read", "scan"} -> t.arg

Reads(t) == t.do \in {"read", "expect", "scan"}
From(t) == IF Reads(t) THEN pointer ELSE t.reg

ClearsInt(t) == Reads(t) /\ CHG_INT \in pointer .. pointer + Length(t) - 1

Writable(reg) == reg \notin Protected \/ regs[CNFG_06] = UNLOCKED

\* What the chip does with a transfer.
Effect(t) ==
    /\ pointer' = From(t) + Length(t)
    /\ regs' = IF t.do = "write" /\ Writable(t.reg)
                 THEN [regs EXCEPT ![t.reg] = t.arg] ELSE regs
    /\ alarm' = (alarm /\ ~ClearsInt(t))
    /\ Pin

\* What a read gets first.
Value == CASE pointer = CHIP_ID -> 118
           [] pointer \in Registers -> regs[pointer]
           [] OTHER -> -1

\* The charger's input comes or goes.
Alarm ==
    /\ ~alarm
    /\ queued < MaxQueued
    /\ alarm' = TRUE
    /\ regs' = regs
    /\ Pin
    /\ UNCHANGED <<pointer, queued, todo, state, attempts, frame, previous,
                   partial, crossed, nested>>

-----------------------------------------------------------------------------
(* The transfers. *)

Astray == \E c \in Cores : state[c] = "astray"
At(c, s) == ~Astray /\ state[c] = s

\* Core c set the pointer, or may have, and has not read yet.
Pointed(c) ==
    /\ todo[c] # <<>>
    /\ \/ Head(todo[c]).do \in {"read", "expect"}
       \/ Head(todo[c]).do = "point" /\ attempts[c] > 0

Meet(c) == crossed' = (crossed \/ Pointed(Other(c)))

\* Mutated form of EnterTry: a frame that is there is kept.
EnterTryKeepsFrame(c) ==
    /\ At(c, "run")
    /\ todo[c] # <<>>
    /\ Head(todo[c]).do # "scan"
    /\ state' = [state EXCEPT ![c] = "try"]
    /\ previous' = [previous EXCEPT ![c] = frame]
    /\ frame' = IF frame = Nobody THEN c ELSE frame
    /\ nested' = (nested \/ state[Other(c)] = "try")
    /\ UNCHANGED <<regs, pointer, alarm, edge, queued, todo, attempts,
                   partial, crossed>>

EnterTry(c) ==
    /\ At(c, "run")
    /\ todo[c] # <<>>
    /\ Head(todo[c]).do # "scan"
    /\ state' = [state EXCEPT ![c] = "try"]
    /\ previous' = [previous EXCEPT ![c] = frame]
    /\ frame' = c
    /\ nested' = (nested \/ state[Other(c)] = "try")
    /\ UNCHANGED <<regs, pointer, alarm, edge, queued, todo, attempts,
                   partial, crossed>>

\* The attempt succeeds and the function returns from inside Try.
Succeed(c) ==
    LET t == Head(todo[c]) IN
    /\ At(c, "try")
    /\ Effect(t)
    /\ todo' = [todo EXCEPT ![c] = Tail(@)]
    /\ state' = [state EXCEPT ![c] = IF t.do = "expect" /\ Value # t.arg
                                       THEN "stopped" ELSE "run"]
    /\ attempts' = [attempts EXCEPT ![c] = 0]
    /\ previous' = [previous EXCEPT ![c] = Nobody]
    /\ Meet(c)
    /\ UNCHANGED <<queued, frame, partial, nested>>

\* Throw: home, into the own Catch and its assertion, or into the other's.
Throw(c) ==
    IF frame = c
      THEN /\ state' = [state EXCEPT ![c] = "stopped"]
           /\ frame' = previous[c]
      ELSE /\ state' = [state EXCEPT ![c] = "astray"]
           /\ frame' = frame

Retry(c) == UNCHANGED <<state, frame>>

\* Mutated form of Fail: one attempt too many.
FailOneMore(c) ==
    /\ At(c, "try")
    /\ \/ /\ Effect(Head(todo[c]))
          /\ Meet(c)
          /\ partial' = (partial \/ Reads(Head(todo[c])))
       \/ UNCHANGED <<regs, pointer, alarm, edge, crossed, partial>>
    /\ attempts' = [attempts EXCEPT ![c] = @ + 1]
    /\ IF attempts[c] < MaxRetries THEN Retry(c) ELSE Throw(c)
    /\ UNCHANGED <<queued, todo, previous, nested>>

\* The attempt fails, with its effect or without.
Fail(c) ==
    /\ At(c, "try")
    /\ \/ /\ Effect(Head(todo[c]))
          /\ Meet(c)
          /\ partial' = (partial \/ Reads(Head(todo[c])))
       \/ UNCHANGED <<regs, pointer, alarm, edge, crossed, partial>>
    /\ attempts' = [attempts EXCEPT ![c] = @ + 1]
    /\ IF attempts[c] + 1 < MaxRetries THEN Retry(c) ELSE Throw(c)
    /\ UNCHANGED <<queued, todo, previous, nested>>

\* The scan uses the SDK directly; a read that fails is a chip not found.
Scan ==
    /\ At(0, "run")
    /\ todo[0] # <<>>
    /\ Head(todo[0]).do = "scan"
    /\ \/ Effect(Head(todo[0])) /\ Meet(0)
       \/ UNCHANGED <<regs, pointer, alarm, edge, crossed>>
    /\ todo' = [todo EXCEPT ![0] = Tail(@)]
    /\ UNCHANGED <<queued, state, attempts, frame, previous, partial, nested>>

-----------------------------------------------------------------------------
(* The interrupt, core 1 and the host. *)

\* max77976_on_battery_charger_interrupt, on core 0 at any moment.
OnBatteryChargerInterrupt ==
    /\ ~Astray
    /\ state[0] # "stopped"
    /\ edge
    /\ edge' = FALSE
    /\ queued' = queued + 1
    /\ UNCHANGED <<regs, pointer, alarm, todo, state, attempts, frame, previous,
                   partial, crossed, nested>>

\* call_queue_pop
Core1Pop ==
    /\ At(1, "run")
    /\ todo[1] = <<>>
    /\ queued > 0
    /\ queued' = queued - 1
    /\ todo' = [todo EXCEPT ![1] = ParseInterruptVals]
    /\ UNCHANGED <<regs, pointer, alarm, edge, state, attempts, frame, previous,
                   partial, crossed, nested>>

\* GET_STATE: get_charger_state.
GetState ==
    /\ At(0, "run")
    /\ todo[0] = <<>>
    /\ todo' = [todo EXCEPT ![0] = GetChgDetails]
    /\ UNCHANGED <<regs, pointer, alarm, edge, queued, state, attempts, frame,
                   previous, partial, crossed, nested>>

CoreStep(c) == EnterTry(c) \/ Succeed(c) \/ Fail(c)

Core0Step == CoreStep(0) \/ Scan
Core1Step == Core1Pop \/ CoreStep(1)

Next == Core0Step \/ Core1Step \/ OnBatteryChargerInterrupt \/ GetState \/ Alarm

Spec == Init /\ [][Next]_vars

-----------------------------------------------------------------------------
(* Properties. *)

TypeOK ==
    /\ regs \in [Registers -> Byte]
    /\ pointer \in Nat
    /\ alarm \in BOOLEAN
    /\ edge \in BOOLEAN
    /\ queued \in Nat
    /\ todo \in [Cores -> Seq([do : {"write", "point", "read", "expect", "scan"},
                               reg : Byte, arg : Byte])]
    /\ state \in [Cores -> {"run", "try", "stopped", "astray"}]
    /\ attempts \in [Cores -> 0..MaxRetries]
    /\ frame \in Cores \cup {Nobody}
    /\ previous \in [Cores -> Cores \cup {Nobody}]
    /\ partial \in BOOLEAN
    /\ crossed \in BOOLEAN
    /\ nested \in BOOLEAN

Configuring ==
    \E i \in 1..Len(todo[0]) : todo[0][i].do = "write" /\ todo[0][i].reg # CHG_INT_MASK

\* Whatever fails and is retried, and whatever core 1 does meanwhile, once
\* max77976_init is through its writes the charger charges from the buck with
\* 1.25 A at 2.6 MHz, takes up to 3 A, keeps every bit that was not asked for at
\* its reset value, and is locked again (max77976.c:164-197).
SettingsHold ==
    ~Configuring =>
        /\ regs[CNFG_00] = 5
        /\ regs[CNFG_02] = 25
        /\ regs[CNFG_08] = 0                \* reset value 0000_0010, bit 1 cleared
        /\ regs[CNFG_09] = 128 + 59         \* 10, the soft start's clock, 11_1011
        /\ regs[CNFG_06] = LOCKED

\* An interrupt of the charger is cleared only by a read whose caller looks for
\* interrupts, unless the other core's transfers came in between
\* (max77976.c:132-138) or the attempt failed after it had emptied the register
\* (robot.c:504-515): then nobody will tell of it.
AlarmClearedByItsReader ==
    [][alarm /\ ~alarm' =>
           \/ crossed'
           \/ partial'
           \/ \E c \in Cores : /\ todo[c] # <<>>
                               /\ Head(todo[c]) = Transfer("read", CHG_INT, 3)
                               /\ todo'[c] = Tail(todo[c])]_vars

WillReadInts(c) ==
    \E i \in 1..Len(todo[c]) : Reads(todo[c][i]) /\ todo[c][i].reg = CHG_INT

\* An alarm that holds the pin low is on its way to a reader: it makes no second
\* edge, so one whose edge was spent on nothing would silence the charger for
\* ever (max77976.c:40-45).  The exceptions are those above.
AlarmIsOnItsWay ==
    Low(regs[CHG_INT_MASK], alarm) /\ ~crossed /\ ~partial =>
        edge \/ queued > 0 \/ \E c \in Cores : WillReadInts(c)

\* What one core throws never ends in the other's Catch unless both were inside
\* Try at once: the frames of calls that are over, which the return inside Try
\* leaves behind, do no harm (robot.c:481-497).
ThrownAtHome == Astray => nested
=============================================================================
