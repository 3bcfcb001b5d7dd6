------------------------------ MODULE SelfTest ------------------------------
(***************************************************************************)
(* The interrupt self-tests that robot_unit_tests (src/src/robot.c) runs   *)
(* at every start, and the motor drivers' fault lines.  A test drives a    *)
(* chip's interrupt pin low itself and waits until core 1 has run the      *)
(* entry that the callback queued, after the driver's own handler, because *)
(* the test's "started" flag was set.  The chips do not know of the tests: *)
(* alarms, chargers and faults come when they like.                        *)
(*                                                                         *)
(* Three contexts: core 0's thread follows Program one statement at a      *)
(* time, the GPIO interrupt preempts it, core 1 runs the entries of        *)
(* call_queue, which is taken to have room (CallQueue fills it).  To read  *)
(* a register takes two transfers, one that sets the chip's register       *)
(* pointer and one that reads, and the other core's transfers can come     *)
(* between them.  The MAX77958's driver, besides, fills a buffer that both *)
(* cores use before each transfer.  Everything about a chip that depends   *)
(* on what was read from it goes astray then; the histories missed and     *)
(* misread note when.  That a transfer fails is left to MAX77976.          *)
(***************************************************************************)
EXTENDS Integers, Sequences

CONSTANT MaxEvents    \* bound: how often something happens to the chips, or
                      \* core 1 runs an entry that no test is about

ASSUME SelfTestAssumption == MaxEvents \in Nat

AlarmPins == {"INTB", "IRQB"}          \* MAX77958, MAX77976: can be masked
FaultPins == {"FAULT1", "FAULT2"}      \* the two DRV8830
Pins == AlarmPins \cup FaultPins \cup {"FLAG"}    \* NCP3901: both edges count

Driver(p) == CASE p = "INTB" -> "MAX77958"
               [] p = "IRQB" -> "MAX77976"
               [] p = "FLAG" -> "NCP3901"
               [] p \in FaultPins -> "DRV8830"
Drivers == {Driver(p) : p \in Pins}

VARIABLES chip,          \* what each chip has to say: it pulls its pin low
          masked,        \* the pins whose chip has all interrupts masked
          driven,        \* the pins a test drives low
          latched, isr, call_queue, core1,
          pc,            \* the next statement of Program
          halted,        \* the assertion that stopped core 0, and its pin
          started, completed,    \* each driver's test_..._started, _completed
          fault_values,
          send_buf,      \* of the MAX77958's driver: what it was filled for
          aimed,         \* the chips whose register pointer is where their
                         \* handler reads: the interrupt or fault register
          events,        \* bound counter
          silent,        \* history: pins driven low that were low already
          ran,           \* history: drivers whose handler ran in this round
          stray,         \* history: drivers with responses left of a round
          fresh,         \* history: see Fault; forgotten with the clear
          missed,        \* history: pins whose chip's alarm was read past, or
                         \* came without an edge, see Alarm
          misread        \* history: core and pin, a fault register last read
                         \* with the pointer elsewhere; forgotten with the clear

core0 == <<pc, halted, started, completed, fault_values>>
bus == <<send_buf, aimed>>
histories == <<silent, ran, stray, fresh, missed, misread>>
vars == <<chip, masked, driven, latched, isr, call_queue, core1, core0, bus,
          events, histories>>

-----------------------------------------------------------------------------
(* What core 0 does. *)

Step(do, p) == [do |-> do, on |-> p]

\* set_interrupt_masks_all_masked and set_interrupt_masks.  The MAX77958's fill
\* the shared buffer and then send it; that of the MAX77976 is core 0's alone.
AllMasked(p) == IF p = "INTB" THEN <<Step("fill_all", p), Step("send", p)>>
                ELSE <<Step("mask", p)>>
Unmasked(p) == IF p = "INTB" THEN <<Step("fill_some", p), Step("send", p)>>
               ELSE <<Step("unmask", p)>>

\* Mutated form of MaskedTest: the chip is unmasked before the pin is released.
MaskedTestUnmaskFirst(p) ==
    AllMasked(p) \o <<Step("start", p), Step("drive", p), Step("await", p)>>
        \o Unmasked(p)
        \o <<Step("release", p), Step("stop", p), Step("reset", p)>>

\* Mutated form of MaskedTest: the test is announced after the edge.
MaskedTestLateStart(p) ==
    AllMasked(p)
        \o <<Step("drive", p), Step("start", p), Step("await", p),
             Step("release", p), Step("stop", p), Step("reset", p)>>
        \o Unmasked(p)

\* Mutated form of MaskedTest: the test is never over for the callback.
MaskedTestNoStop(p) ==
    AllMasked(p)
        \o <<Step("start", p), Step("drive", p), Step("await", p),
             Step("release", p), Step("reset", p)>>
        \o Unmasked(p)

MaskedTest(p) ==
    AllMasked(p)
        \o <<Step("start", p), Step("drive", p), Step("await", p),
             Step("release", p), Step("stop", p), Step("reset", p)>>
        \o Unmasked(p)

TestMAX77958 == MaskedTest("INTB")

\* test_max77976_get_id and test_max77976_get_FSW each read a register with the
\* chip masked.
TestRegister == <<Step("mask", "IRQB"), Step("point", "IRQB"),
                  Step("check", "IRQB"), Step("unmask", "IRQB")>>

TestMAX77976 == TestRegister \o TestRegister \o MaskedTest("IRQB")

\* Mutated form of TestNCP3901: the second round is announced after its edge.
TestNCP3901LateStart ==
    LET p == "FLAG" IN
    <<Step("start", p), Step("drive", p), Step("await", p),
      Step("stop", p), Step("reset", p),
      Step("release", p), Step("start", p), Step("high", p), Step("await", p)>>

\* Two rounds, the pin going down and up.  The flags are left set at the end.
TestNCP3901 ==
    LET p == "FLAG" IN
    <<Step("start", p), Step("drive", p), Step("await", p),
      Step("stop", p), Step("reset", p),
      Step("start", p), Step("release", p), Step("high", p), Step("await", p)>>

\* drv8830_clear_faults
ClearFaults ==
    LET Clear(p) == <<Step("clear", p), Step("select", p), Step("verify", p)>>
    IN  Clear("FAULT1") \o Clear("FAULT2")

\* Mutated form of TestDRV8830: the second round starts out completed.
TestDRV8830NoReset ==
    LET Round(p) == <<Step("start", p), Step("drive", p), Step("await", p),
                      Step("release", p), Step("stop", p)>>
    IN  Round("FAULT1") \o Round("FAULT2")

\* Two rounds, one for each motor.
TestDRV8830 ==
    LET Round(p) == <<Step("start", p), Step("drive", p), Step("await", p),
                      Step("release", p), Step("stop", p)>>
    IN  Round("FAULT1") \o <<Step("reset", "FAULT1")>> \o Round("FAULT2")

RobotUnitTests == TestMAX77958 \o TestMAX77976 \o TestNCP3901
                      \o ClearFaults \o TestDRV8830

\* The rest of on_start: i2c_scan reads a byte of every chip, from wherever its
\* pointer is, and read_reg a register of the MAX77958.
EndOfStart == <<Step("fetch", "INTB"), Step("fetch", "IRQB"),
                Step("move", "FAULT1"), Step("move", "FAULT2"),
                Step("fill_reg", "INTB"), Step("aim", "INTB"),
                Step("fetch", "INTB")>>

\* set_motor_levels, for the host's SET_MOTOR_LEVEL.
SetMotorLevels == <<Step("move", "FAULT1"), Step("move", "FAULT2")>>

\* get_state: drv8830_get_faults and the reads of max77976_get_chg_details, of
\* which one stands for the four.
GetState == <<Step("select", "FAULT1"), Step("read", "FAULT1"),
              Step("select", "FAULT2"), Step("read", "FAULT2")>>
                \o ClearFaults \o <<Step("point", "IRQB"), Step("fetch", "IRQB")>>

Program == RobotUnitTests \o EndOfStart \o <<Step("ask", "FLAG")>>
               \o SetMotorLevels \o GetState
TestsLen == Len(RobotUnitTests)
MainLoop == TestsLen + Len(EndOfStart) + 1

-----------------------------------------------------------------------------
Entry(func, p) == [func |-> func, pin |-> p]
NoEntry == Entry("none", "none")
IdleIsr == [at |-> "idle", pin |-> "none"]
IdleCore1 == [at |-> "pop", entry |-> NoEntry]

\* The wireless charger may be there from the start.
Init ==
    /\ chip \in [Pins -> {"none", "status"}]
    /\ \A p \in Pins \ {"FLAG"} : chip[p] = "none"
    /\ masked = {}
    /\ driven = {}
    /\ latched = [p \in Pins |-> {}]
    /\ isr = IdleIsr
    /\ call_queue = <<>>
    /\ core1 = IdleCore1
    /\ pc = 1
    /\ halted = Step("no", "none")
    /\ started = {}
    /\ completed = {}
    /\ fault_values = [p \in FaultPins |-> "none"]
    /\ send_buf = "other"
    /\ aimed = {}
    /\ events = 0
    /\ silent = {}
    /\ ran = {}
    /\ stray = {}
    /\ fresh = [p \in FaultPins |-> {}]
    /\ missed = {}
    /\ misread = {}

-----------------------------------------------------------------------------
(* The pins. *)

Low(p) == p \in driven \/ (p \notin masked /\ chip[p] # "none")

\* The edges that interrupt are latched when a pin's level changes.
Latch ==
    latched' = [p \in Pins |->
                   latched[p]
                   \cup {e \in {"fall"} : ~Low(p) /\ Low(p)'}
                   \cup {e \in {"rise"} : p = "FLAG" /\ Low(p) /\ ~Low(p)'}]

\* Core c has a clear of the fault register of p ahead and will not read it
\* before.
ClearAhead(c, p) ==
    IF c = 1 THEN core1.at = "clear" /\ core1.entry.pin = p
    ELSE \E i \in pc..Len(Program) :
             /\ Program[i] = Step("clear", p)
             /\ \A j \in pc..i : Program[j] # Step("read", p)

Happens(p) ==
    /\ events < MaxEvents
    /\ events' = events + 1
    /\ UNCHANGED <<masked, driven, isr, call_queue, core1, core0, bus, silent,
                   ran, stray, misread>>
    /\ Latch

\* A chip has something to report.  It makes no edge, and is missed, when the
\* MAX77958 does so unmasked while the test drives its pin: the masks of that
\* test went out with the buffer filled by core 1 in between (max77958.c:297).
Alarm(p) ==
    /\ chip[p] = "none"
    /\ chip' = [chip EXCEPT ![p] = "status"]
    /\ missed' = IF p = "INTB" /\ p \in driven \ masked THEN missed \cup {p}
                 ELSE missed
    /\ Happens(p)
    /\ UNCHANGED fresh

\* The wireless charger comes or goes.
Charger ==
    /\ chip' = [chip EXCEPT !["FLAG"] = IF @ = "none" THEN "status" ELSE "none"]
    /\ Happens("FLAG")
    /\ UNCHANGED <<fresh, missed>>

\* A motor fault, on top of a mere status perhaps.  fresh is the cores whose
\* next clear has not seen it.
Fault(p) ==
    /\ chip[p] # "fault"
    /\ chip' = [chip EXCEPT ![p] = "fault"]
    /\ fresh' = [fresh EXCEPT ![p] = {c \in {0, 1} : ClearAhead(c, p)}]
    /\ Happens(p)
    /\ UNCHANGED missed

\* What a clear leaves of a chip's fault register: a fault whose cause persists
\* is there again.
Cleared(p) == {"none"} \cup ({chip[p]} \cap {"fault"})

-----------------------------------------------------------------------------
(* The transfers. *)

\* Core c is about to read the fault register of p.
ReadsNext(c, p) ==
    IF c = 1 THEN core1.at = "read" /\ core1.entry.pin = p
    ELSE Program[pc].do \in {"read", "verify"} /\ Program[pc].on = p

\* Another transfer of core c with a DRV8830 may leave its pointer anywhere.  Where
\* matters only if the other core is about to read, and is forgotten if not.
Moved(c, p) ==
    aimed' \in {aimed \ {p}} \cup IF ReadsNext(1 - c, p) THEN {aimed} ELSE {}

\* The pointer of the MAX77958 is set to what the buffer begins with.
AimBySendBuf == aimed' = IF send_buf = "int" THEN aimed \cup {"INTB"}
                         ELSE aimed \ {"INTB"}

\* What a core sees of a DRV8830's fault register: whatever the register its
\* pointer is at holds.
Seen(p) == IF p \in aimed THEN {chip[p]} ELSE {"none", "status", "fault"}

\* Core c has read it.
Noted(c, p) == IF p \in aimed THEN misread \ {<<c, p>>}
               ELSE misread \cup {<<c, p>>}

-----------------------------------------------------------------------------
(* Core 0, interrupt level. *)

IsrTake(p) ==
    /\ isr.at = "idle"
    /\ latched[p] # {}
    /\ isr' = [at |-> IF "rise" \in latched[p] THEN "rise" ELSE "fall",
               pin |-> p]
    /\ latched' = [latched EXCEPT ![p] = {}]
    /\ UNCHANGED <<chip, masked, driven, call_queue, core1, core0, bus, events,
                   histories>>

\* The driver's callback acknowledges the edge and queues its handler ...
IsrCallback ==
    /\ isr.at \in {"rise", "fall"}
    /\ latched' = [latched EXCEPT ![isr.pin] = @ \ {isr.at}]
    /\ call_queue' = Append(call_queue, Entry("handle", isr.pin))
    /\ isr' = [isr EXCEPT !.at = "respond"]
    /\ UNCHANGED <<chip, masked, driven, core1, core0, bus, events, histories>>

\* ... and, if a test of the driver is on, the test's response.
IsrRespond ==
    /\ isr.at = "respond"
    /\ call_queue' = IF Driver(isr.pin) \in started
                     THEN Append(call_queue, Entry("response", isr.pin))
                     ELSE call_queue
    /\ isr' = IdleIsr
    /\ UNCHANGED <<chip, masked, driven, latched, core1, core0, bus, events,
                   histories>>

-----------------------------------------------------------------------------
(* Core 0, thread level: preempted as long as an interrupt is pending. *)

At(do) ==
    /\ halted.do = "no"
    /\ isr = IdleIsr
    /\ \A p \in Pins : latched[p] = {}
    /\ Program[pc].do = do

On == Program[pc].on

\* Mutated form of Proceed: main ends after the first request.
ProceedOnce == pc' = pc + 1

\* main calls get_block again and again.
Proceed == pc' = IF pc = Len(Program) THEN MainLoop ELSE pc + 1

Assert(condition) ==
    IF condition THEN Proceed /\ UNCHANGED halted
                 ELSE halted' = Program[pc] /\ UNCHANGED pc

\* Nothing of core 0's memory changes but the program counter.
OnlyPins == UNCHANGED <<isr, call_queue, core1, started, completed,
                        fault_values, send_buf, events, ran, stray>>

OnlyFlags == UNCHANGED <<chip, masked, driven, latched, isr, call_queue, core1,
                         halted, fault_values, bus, events, silent, fresh,
                         missed, misread>>

OnlyBus == UNCHANGED <<chip, masked, driven, latched, isr, call_queue, core1,
                       halted, started, completed, events, silent, ran, stray,
                       fresh, missed>>

\* The masks of the MAX77976.
Mask ==
    /\ \/ At("mask") /\ masked' = masked \cup {On}
       \/ At("unmask") /\ masked' = masked \ {On}
    /\ aimed' = aimed \ {On}
    /\ Proceed
    /\ UNCHANGED <<chip, driven, halted, silent, missed, fresh, misread>>
    /\ OnlyPins
    /\ Latch

\* The MAX77958's driver clears and fills its buffer, with masks or for another
\* register ...
Fill ==
    /\ \/ At("fill_all") /\ send_buf' = "all masked"
       \/ At("fill_some") /\ send_buf' = "masks"
       \/ At("fill_reg") /\ send_buf' = "other"
    /\ Proceed
    /\ UNCHANGED <<fault_values, aimed, misread>>
    /\ OnlyBus

\* ... and sends what the buffer holds by then.
Send ==
    /\ At("send")
    /\ masked' = CASE send_buf = "all masked" -> masked \cup {On}
                   [] send_buf = "masks" -> masked \ {On}
                   [] OTHER -> masked
    /\ aimed' = aimed \ {On}
    /\ Proceed
    /\ UNCHANGED <<chip, driven, halted, silent, missed, fresh, misread>>
    /\ OnlyPins
    /\ Latch

\* The other transfers of core 0 that set a chip's pointer: to a register that is
\* not the handler's, to what the buffer says, to the fault register, or in
\* passing (set_motor_control).
Point ==
    /\ \/ At("point") /\ aimed' = aimed \ {On}
       \/ At("aim") /\ AimBySendBuf
       \/ At("select") /\ aimed' = aimed \cup {On}
       \/ At("move") /\ Moved(0, On)
    /\ Proceed
    /\ UNCHANGED <<fault_values, send_buf, misread>>
    /\ OnlyBus

\* Core 0 reads a chip.  Where the handler on core 1 has set the pointer in
\* between, it is the interrupt registers that are read, and perhaps cleared;
\* a self-test stops then if the value is not the one it expects.
Fetch ==
    /\ At("fetch") \/ At("check")
    /\ chip' \in {chip} \cup (IF On \in aimed THEN {[chip EXCEPT ![On] = "none"]}
                             ELSE {})
    /\ missed' = missed \ {p \in {On} : chip'[p] = "none"}
    /\ aimed' = aimed \ {On}
    /\ \/ Assert(TRUE)
       \/ At("check") /\ On \in aimed /\ Assert(FALSE)
    /\ UNCHANGED <<masked, driven, silent, fresh, misread>>
    /\ OnlyPins
    /\ Latch

\* gpio_set_dir(GPIO_OUT), the output being low.
Drive ==
    /\ At("drive")
    /\ driven' = driven \cup {On}
    /\ silent' = IF Low(On) THEN silent \cup {On} ELSE silent \ {On}
    /\ Proceed
    /\ UNCHANGED <<chip, masked, halted, aimed, missed, fresh, misread>>
    /\ OnlyPins
    /\ Latch

\* gpio_set_dir(GPIO_IN), with the pull-up.
Release ==
    /\ At("release")
    /\ driven' = driven \ {On}
    /\ Proceed
    /\ UNCHANGED <<chip, masked, halted, silent, aimed, missed, fresh, misread>>
    /\ OnlyPins
    /\ Latch

\* The assertion on the released pin of the NCP3901.
High ==
    /\ At("high")
    /\ Assert(~Low(On))
    /\ UNCHANGED <<chip, masked, driven, latched, silent, aimed, missed, fresh, misread>>
    /\ OnlyPins

Start ==
    /\ At("start")
    /\ started' = started \cup {Driver(On)}
    /\ ran' = ran \ {Driver(On)}
    /\ Proceed
    /\ UNCHANGED <<completed, stray>>
    /\ OnlyFlags

Stop ==
    /\ At("stop")
    /\ started' = started \ {Driver(On)}
    /\ Proceed
    /\ UNCHANGED <<completed, ran, stray>>
    /\ OnlyFlags

\* The responses of a driver's test that core 1 has not run yet.
Responses(d) ==
    \/ \E i \in 1..Len(call_queue) :
           call_queue[i].func = "response" /\ Driver(call_queue[i].pin) = d
    \/ core1.entry.func = "response" /\ Driver(core1.entry.pin) = d

Reset ==
    /\ At("reset")
    /\ completed' = completed \ {Driver(On)}
    /\ stray' = IF Responses(Driver(On)) THEN stray \cup {Driver(On)} ELSE stray
    /\ Proceed
    /\ UNCHANGED <<started, ran>>
    /\ OnlyFlags

\* The loop that waits for the response.
Await ==
    /\ At("await")
    /\ Driver(On) \in completed
    /\ Proceed
    /\ UNCHANGED <<started, completed, ran, stray>>
    /\ OnlyFlags

\* ... for ten seconds, far longer than core 1 takes for what is queued.  The
\* test of the MAX77958 goes on waiting.
Timeout ==
    /\ At("await")
    /\ On # "INTB"
    /\ Driver(On) \notin completed
    /\ call_queue = <<>>
    /\ core1 = IdleCore1
    /\ halted' = Program[pc]
    /\ UNCHANGED <<chip, masked, driven, latched, isr, call_queue, core1, pc,
                   started, completed, fault_values, bus, events, histories>>

\* The host's SET_MOTOR_LEVEL, or GET_STATE, which skips set_motor_levels.
Ask ==
    /\ At("ask")
    /\ Proceed \/ pc' = pc + Len(SetMotorLevels) + 1
    /\ UNCHANGED <<started, completed, ran, stray>>
    /\ OnlyFlags

ReadFault ==
    /\ At("read")
    /\ \E seen \in Seen(On) : fault_values' = [fault_values EXCEPT ![On] = seen]
    /\ misread' = Noted(0, On)
    /\ Moved(0, On)
    /\ Proceed
    /\ UNCHANGED send_buf
    /\ OnlyBus

ClearFault ==
    /\ At("clear")
    /\ \E reg \in Cleared(On) : chip' = [chip EXCEPT ![On] = reg]
    /\ Moved(0, On)
    /\ fresh' = [fresh EXCEPT ![On] = @ \ {0}]
    /\ misread' = misread \ {<<0, On>>}
    /\ Proceed
    /\ UNCHANGED <<masked, driven, halted, silent, missed>>
    /\ OnlyPins
    /\ Latch

VerifyFault ==
    /\ At("verify")
    /\ \E seen \in Seen(On) : Assert(seen # "fault")
    /\ Moved(0, On)
    /\ UNCHANGED <<chip, masked, driven, latched, silent, missed, fresh, misread>>
    /\ OnlyPins

ThreadStep == Mask \/ Fill \/ Send \/ Point \/ Fetch \/ Drive \/ Release
                  \/ High \/ Start \/ Stop \/ Reset \/ Await \/ Timeout
                  \/ ReadFault \/ ClearFault \/ VerifyFault

-----------------------------------------------------------------------------
(* Core 1. *)

Core1Pop ==
    /\ core1.at = "pop"
    /\ call_queue # <<>>
    /\ core1' = [at |-> "run", entry |-> Head(call_queue)]
    /\ call_queue' = Tail(call_queue)
    /\ UNCHANGED <<chip, masked, driven, latched, isr, core0, bus, events,
                   histories>>

\* Other entries of the MAX77958's driver, opcodes and their answers, use its
\* buffer and read other registers (see MAX77958).
OtherEntry ==
    /\ core1 = IdleCore1
    /\ events < MaxEvents
    /\ events' = events + 1
    /\ send_buf' = "other"
    /\ aimed' = aimed \ {"INTB"}
    /\ UNCHANGED <<chip, masked, driven, latched, isr, call_queue, core1, core0,
                   histories>>

Core1Runs(func, pins) == /\ core1.at = "run"
                         /\ core1.entry.func = func
                         /\ core1.entry.pin \in pins

Respond ==
    /\ Core1Runs("response", Pins)
    /\ completed' = completed \cup {Driver(core1.entry.pin)}
    /\ core1' = IdleCore1
    /\ UNCHANGED <<chip, masked, driven, latched, isr, call_queue, pc, halted,
                   started, fault_values, bus, events, histories>>

HandlerRan == ran' = ran \cup {Driver(core1.entry.pin)}

\* The handlers of the NCP3901 set a flag (see CallQueue).
HandleFlag ==
    /\ Core1Runs("handle", {"FLAG"})
    /\ core1' = IdleCore1
    /\ HandlerRan
    /\ UNCHANGED <<chip, masked, driven, latched, isr, call_queue, core0, bus,
                   events, silent, stray, fresh, missed, misread>>

\* The other handlers set their chip's pointer, that of the MAX77958 by way of
\* the shared buffer ...
HandleFill ==
    /\ Core1Runs("handle", {"INTB"})
    /\ send_buf' = "int"
    /\ core1' = [core1 EXCEPT !.at = "select"]
    /\ UNCHANGED <<chip, masked, driven, latched, isr, call_queue, core0, aimed,
                   events, histories>>

HandleSelect ==
    /\ \/ core1.at = "select" /\ AimBySendBuf
       \/ /\ Core1Runs("handle", {"IRQB"} \cup FaultPins)
          /\ aimed' = aimed \cup {core1.entry.pin}
    /\ core1' = [core1 EXCEPT !.at = "read"]
    /\ UNCHANGED <<chip, masked, driven, latched, isr, call_queue, core0,
                   send_buf, events, histories>>

Core1Reads(pins) == core1.at = "read" /\ core1.entry.pin \in pins

\* ... and read.  Reading the interrupt registers clears them; when the pointer
\* is elsewhere by now, the alarm stays, with nobody to come back for it.
HandleAlarm ==
    LET p == core1.entry.pin IN
    /\ Core1Reads(AlarmPins)
    /\ chip' = IF p \in aimed THEN [chip EXCEPT ![p] = "none"] ELSE chip
    /\ missed' = IF p \in aimed THEN missed \ {p} ELSE missed \cup {p}
    /\ aimed' = aimed \ {p}
    /\ core1' = IdleCore1
    /\ HandlerRan
    /\ UNCHANGED <<masked, driven, isr, call_queue, core0, send_buf, events,
                   silent, stray, fresh, misread>>
    /\ Latch

\* Mutated form of HandleFault: active faults are cleared too.
HandleFaultClearing ==
    LET p == core1.entry.pin IN
    /\ Core1Reads(FaultPins)
    /\ core1' = [core1 EXCEPT !.at = "clear"]
    /\ misread' = Noted(1, p)
    /\ Moved(1, p)
    /\ HandlerRan
    /\ UNCHANGED <<chip, masked, driven, latched, isr, call_queue, core0,
                   send_buf, events, silent, stray, fresh, missed>>

\* drv8830_fault_handler leaves an active fault in the chip ...
HandleFault ==
    LET p == core1.entry.pin IN
    /\ Core1Reads(FaultPins)
    /\ \E seen \in Seen(p) :
           core1' = IF seen = "fault" THEN IdleCore1
                    ELSE [core1 EXCEPT !.at = "clear"]
    /\ misread' = Noted(1, p)
    /\ Moved(1, p)
    /\ HandlerRan
    /\ UNCHANGED <<chip, masked, driven, latched, isr, call_queue, core0,
                   send_buf, events, silent, stray, fresh, missed>>

\* ... and clears everything else.
HandlerClear ==
    /\ core1.at = "clear"
    /\ \E reg \in Cleared(core1.entry.pin) :
           chip' = [chip EXCEPT ![core1.entry.pin] = reg]
    /\ Moved(1, core1.entry.pin)
    /\ fresh' = [fresh EXCEPT ![core1.entry.pin] = @ \ {1}]
    /\ misread' = misread \ {<<1, core1.entry.pin>>}
    /\ core1' = IdleCore1
    /\ UNCHANGED <<masked, driven, isr, call_queue, core0, send_buf, events,
                   silent, ran, stray, missed>>
    /\ Latch

Core1Step == Core1Pop \/ Respond \/ HandleFlag \/ HandleFill \/ HandleSelect
                 \/ HandleAlarm \/ HandleFault \/ HandlerClear

-----------------------------------------------------------------------------
Next == \/ \E p \in AlarmPins \cup FaultPins : Alarm(p)
        \/ \E p \in FaultPins : Fault(p)
        \/ Charger
        \/ \E p \in Pins : IsrTake(p)
        \/ IsrCallback
        \/ IsrRespond
        \/ ThreadStep
        \/ Ask
        \/ Core1Step
        \/ OtherEntry

Spec == Init /\ [][Next]_vars

\* Both cores keep executing; nothing is assumed of the chips and the host.
FairSpec == /\ Spec
            /\ WF_vars((\E p \in Pins : IsrTake(p)) \/ IsrCallback \/ IsrRespond)
            /\ WF_vars(ThreadStep)
            /\ WF_vars(Core1Step)

-----------------------------------------------------------------------------
(* Properties. *)

Entries == [func : {"handle", "response"}, pin : Pins]

TypeOK ==
    /\ chip \in [Pins -> {"none", "status", "fault"}]
    /\ \A p \in Pins \ FaultPins : chip[p] # "fault"
    /\ masked \subseteq AlarmPins
    /\ driven \subseteq Pins
    /\ latched \in [Pins -> SUBSET {"fall", "rise"}]
    /\ isr \in [at : {"rise", "fall", "respond"}, pin : Pins] \cup {IdleIsr}
    /\ call_queue \in Seq(Entries)
    /\ core1 \in [at : {"run", "select", "read", "clear"}, entry : Entries]
                 \cup {IdleCore1}
    /\ pc \in 1..Len(Program)
    /\ halted.do \in {"no", "await", "high", "verify", "check"}
    /\ started \subseteq Drivers
    /\ completed \subseteq Drivers
    /\ fault_values \in [FaultPins -> {"none", "status", "fault"}]
    /\ send_buf \in {"all masked", "masks", "int", "other"}
    /\ aimed \subseteq AlarmPins \cup FaultPins
    /\ events \in 0..MaxEvents
    /\ fresh \in [FaultPins -> SUBSET {0, 1}]
    /\ missed \subseteq AlarmPins
    /\ misread \subseteq {0, 1} \X FaultPins

TestsOver == pc > TestsLen

\* A round of a test passes only after the driver's own handler ran on core 1 in
\* that round: the response follows the handler through call_queue.  Excepted is
\* the second round of a test whose first was answered more than once because
\* something real happened as well: the second answer can come after the reset
\* and pass for the second round's (ncp3901.c:117, drv8830.c:261).
PassedRoundIsItsOwn ==
    [][pc' # pc /\ Program[pc].do = "await" =>
           Driver(On) \in ran \cup stray]_vars

\* A test that waited in vain, and stops the robot with that, did so because its
\* pin was low before it was driven, so that there was no edge (a wireless
\* charger, a motor fault: ncp3901.c:113, drv8830.c:255), never because an edge
\* went unanswered.
TimesOutOnlyWithoutEdge == halted.do = "await" => halted.on \in silent

\* A handler for this pin is on its way, and has not read yet.
OnItsWay(p) ==
    \/ latched[p] # {}
    \/ isr.pin = p /\ isr.at # "respond"
    \/ \E i \in 1..Len(call_queue) : call_queue[i] = Entry("handle", p)
    \/ core1.entry = Entry("handle", p)

\* Alarms survive the tests: one raised while the chip was masked makes an edge
\* when the masks are restored (max77976.c:497), so that a pin its chip holds low
\* is always going to be read, during the tests and after them.  Excepted are
\* the alarms that the missing lock on the transfers costs: core 0 moved the
\* chip's pointer, or filled the MAX77958's send_buf, before the handler had read
\* (max77958.c:281, max77976.c:135); or core 1 filled send_buf before the masks of
\* the MAX77958's test went out (max77958.c:297), and the alarm came while the pin
\* was driven.
AlarmOutlivesTest ==
    \A p \in AlarmPins :
        p \notin masked \cup missed /\ chip[p] # "none" => OnItsWay(p)

\* Once the tests are over, interrupts queue their handler only, those of the
\* NCP3901 excepted, whose test leaves test_ncp3901_started set (ncp3901.c:122).
OneEntryAfterTests ==
    [][TestsOver /\ isr.at = "respond" /\ Driver(isr.pin) # "NCP3901" =>
           Len(call_queue') <= Len(call_queue)]_vars

\* A motor fault is taken out of the chip by the core that told of it only:
\* drv8830_get_faults clears what it has put into fault_values for the host, and
\* the handler on core 1, which runs at any time in between, leaves active faults
\* alone.  Excepted is a fault that came between a core's read and its clear,
\* or before test_drv8830_get_faults, which does not read (drv8830.c:204, 97), and
\* a core whose read went astray because the other moved the chip's pointer after
\* it had been set (drv8830.c:82, 155, 200).
ClearedFaultWasTold ==
    [][\A p \in FaultPins :
           chip[p] = "fault" /\ chip'[p] = "none" =>
               IF core1' # core1 THEN 1 \in fresh[p] \/ <<1, p>> \in misread
               ELSE \/ 0 \in fresh[p] \/ <<0, p>> \in misread
                    \/ fault_values[p] = "fault"]_vars

\* The start comes to an end: all tests are passed, or an assertion stops it.
\* The test of the MAX77958, which has no assertion, waits for ever only if its
\* chip held the pin low already and was not masked, because core 1 had filled
\* send_buf before the masks went out (max77958.c:297, 842).
TestsEnd == <>(TestsOver \/ halted.do # "no" \/ "INTB" \in silent \ masked)
=============================================================================
