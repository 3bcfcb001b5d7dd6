------------------------------ MODULE BQ27742 ------------------------------
(***************************************************************************)
(* The interrupt of the fuel gauge, src/src/bq27742_g1.c.  The gauge pulls *)
(* its pin low while something is wrong.  A falling edge queues            *)
(* bq27742_g1_parse_interrupt_vals, marks it pending and makes the pin     *)
(* listen for the rising edge instead, so that a pin that stays low does   *)
(* not flood call_queue; once the pin is seen high again the falling edge  *)
(* is re-armed, by the callback on core 0 or by the parser on core 1.      *)
(*                                                                         *)
(* Three contexts execute the driver: core 0's thread (bq27742_g1_init),   *)
(* core 0's interrupt, which the thread waits for, and core 1.  todo[x] is *)
(* what context x has still to do, one statement per step.  The SDK's      *)
(* gpio_set_irq_enabled clears the edge's latch, which both cores share,   *)
(* and then changes the enables of the core it runs on; only core 0 takes  *)
(* GPIO interrupts.                                                        *)
(*                                                                         *)
(* Before all this bq27742_g1_init sets up the gauge's data flash; that is *)
(* module DataFlash, whose phases come first here.                         *)
(***************************************************************************)
EXTENDS DataFlash, Sequences

CONSTANTS MaxFalls,    \* bound: how often the gauge asserts its pin
          MaxRefusals  \* bound: how often call_queue is full

ASSUME BQ27742Assumption == MaxFalls \in Nat /\ MaxRefusals \in Nat

Contexts == {"thread", "isr", "core1"}
Edges == {"fall", "rise"}
Cores == {0, 1}

VARIABLES pin,
          cause,     \* why the pin is low: "status" passes by itself, "imax"
                     \* stays until it is cleared
          latched,   \* edges latched, for both cores
          enabled,   \* the edges each core listens for
          bq27742_g1_interrupt_pending,
          queued,    \* parse entries in call_queue
          todo,
          falls, refusals,  \* bound counters
          raced,     \* history: an interrupt came while the thread, in
                     \* bq27742_g1_init, was half-way through changing pending
                     \* flag and enables
          due        \* history: the pin fell while core 0 listened, and neither
                     \* did anybody read the flags since, nor did it rise, nor
                     \* was the edge lost in a way the properties name

interruptVars == <<pin, cause, latched, enabled, bq27742_g1_interrupt_pending,
                   queued, todo, falls, refusals, raced, due>>
vars == <<interruptVars, flashVars>>

CoreOf(x) == IF x = "core1" THEN 1 ELSE 0

-----------------------------------------------------------------------------
(* The functions. *)

\* bq27742_g1_queue_parse_interrupt: it goes on only if nothing is pending.
QueueParseInterrupt == <<"test_pending">>

\* Mutated form of MarkAndQueue: the rising edge is not listened for.
MarkAndQueueNoRise == <<"set_pending", "fall_off", "try_add">>

MarkAndQueue == <<"set_pending", "fall_off", "rise_on", "try_add">>

\* Mutated form of RearmAssertIrq: it stays pending.
RearmAssertIrqPending == <<"rise_off", "fall_on">>

RearmAssertIrq == <<"clear_pending", "rise_off", "fall_on">>

RearmIfHigh == <<"get_pin">>

OnInterrupt(events) ==
    (IF "fall" \in events THEN <<"ack_fall">> \o QueueParseInterrupt ELSE <<>>)
        \o (IF "rise" \in events THEN <<"ack_rise">> \o RearmIfHigh ELSE <<>>)

\* Mutated form of ParseInterruptVals: the flags are not read.
ParseInterruptValsNoRead == RearmIfHigh

ParseInterruptVals == <<"read_flags">> \o RearmIfHigh

InitSteps == <<"fall_on", "if_low_queue">>

Steps == {"fall_on", "fall_off", "rise_on", "rise_off", "if_low_queue",
          "test_pending", "set_pending", "clear_pending", "try_add", "get_pin",
          "ack_fall", "ack_rise", "read_flags", "clear_imax"}

-----------------------------------------------------------------------------
Init ==
    /\ InitFlash
    /\ pin \in {"high", "low"}
    /\ cause \in IF pin = "low" THEN {"status", "imax"} ELSE {"none"}
    /\ latched = {}
    /\ enabled = [c \in Cores |-> {}]
    /\ bq27742_g1_interrupt_pending = FALSE
    /\ queued = 0
    /\ todo = [x \in Contexts |-> IF x = "thread" THEN InitSteps ELSE <<>>]
    /\ falls = 0
    /\ refusals = 0
    /\ raced = FALSE
    /\ due = FALSE

-----------------------------------------------------------------------------
(* The gauge. *)

Assert(why) ==
    /\ pin = "high"
    /\ falls < MaxFalls
    /\ falls' = falls + 1
    /\ pin' = "low"
    /\ cause' = why
    /\ latched' = latched \cup {"fall"}
    /\ due' = ("fall" \in enabled[0])
    /\ UNCHANGED <<enabled, bq27742_g1_interrupt_pending, queued, todo,
                   refusals, raced>>

Rise ==
    /\ pin' = "high"
    /\ cause' = "none"
    /\ latched' = latched \cup {"rise"}
    /\ due' = FALSE

Release ==
    /\ cause = "status"
    /\ Rise
    /\ UNCHANGED <<enabled, bq27742_g1_interrupt_pending, queued, todo, falls,
                   refusals, raced>>

-----------------------------------------------------------------------------
(* The steps of the driver. *)

Runs(x) == x = "thread" => todo["isr"] = <<>> /\ phase = "over"

At(x, step) == Runs(x) /\ todo[x] # <<>> /\ Head(todo[x]) = step

Call(x, steps) == todo' = [todo EXCEPT ![x] = steps \o Tail(@)]
Proceed(x) == Call(x, <<>>)

TestPending(x) ==
    /\ At(x, "test_pending")
    /\ Call(x, IF bq27742_g1_interrupt_pending THEN <<>> ELSE MarkAndQueue)
    /\ UNCHANGED <<pin, cause, latched, enabled, bq27742_g1_interrupt_pending,
                   queued, falls, refusals, raced, due>>

SetPending(x) ==
    /\ \E step \in {"set_pending", "clear_pending"} :
           /\ At(x, step)
           /\ bq27742_g1_interrupt_pending' = (step = "set_pending")
    /\ Proceed(x)
    /\ UNCHANGED <<pin, cause, latched, enabled, queued, falls, refusals,
                   raced, due>>

\* gpio_set_irq_enabled.  A falling edge that core 0 listened for and that
\* re-arming clears is lost.
SetIrqEnabled(x, edge, on) ==
    LET c == CoreOf(x) IN
    /\ At(x, CASE edge = "fall" /\ on  -> "fall_on"
               [] edge = "fall" /\ ~on -> "fall_off"
               [] edge = "rise" /\ on  -> "rise_on"
               [] edge = "rise" /\ ~on -> "rise_off")
    /\ latched' = latched \ {edge}
    /\ enabled' = [enabled EXCEPT ![c] = IF on THEN @ \cup {edge} ELSE @ \ {edge}]
    /\ due' = (due /\ ~(edge = "fall" /\ on /\ "fall" \in latched))
    /\ Proceed(x)
    /\ UNCHANGED <<pin, cause, bq27742_g1_interrupt_pending, queued, falls,
                   refusals, raced>>

\* Mutated form of TryAdd: each alarm is queued twice.
TryAddTwice(x) ==
    /\ At(x, "try_add")
    /\ queued' = queued + 2
    /\ Proceed(x)
    /\ UNCHANGED <<pin, cause, latched, enabled, bq27742_g1_interrupt_pending,
                   falls, refusals, raced, due>>

\* call_queue_try_add_nonblocking
TryAdd(x) ==
    /\ At(x, "try_add")
    /\ queued' = queued + 1
    /\ Proceed(x)
    /\ UNCHANGED <<pin, cause, latched, enabled, bq27742_g1_interrupt_pending,
                   falls, refusals, raced, due>>

\* ... and when call_queue is full.
Refused(x) ==
    /\ At(x, "try_add")
    /\ refusals < MaxRefusals
    /\ refusals' = refusals + 1
    /\ due' = FALSE
    /\ Call(x, RearmIfHigh)
    /\ UNCHANGED <<pin, cause, latched, enabled, bq27742_g1_interrupt_pending,
                   queued, falls, raced>>

GetPin(x) ==
    /\ At(x, "get_pin")
    /\ Call(x, IF pin = "high" THEN RearmAssertIrq ELSE <<>>)
    /\ UNCHANGED <<pin, cause, latched, enabled, bq27742_g1_interrupt_pending,
                   queued, falls, refusals, raced, due>>

IfLowQueue(x) ==
    /\ At(x, "if_low_queue")
    /\ Call(x, IF pin = "low" THEN QueueParseInterrupt ELSE <<>>)
    /\ UNCHANGED <<pin, cause, latched, enabled, bq27742_g1_interrupt_pending,
                   queued, falls, refusals, raced, due>>

\* The callback acknowledges what the SDK's handler acknowledged before.
Acknowledge(x) ==
    /\ \/ At(x, "ack_fall") /\ latched' = latched \ {"fall"}
       \/ At(x, "ack_rise") /\ latched' = latched \ {"rise"}
    /\ Proceed(x)
    /\ UNCHANGED <<pin, cause, enabled, bq27742_g1_interrupt_pending, queued,
                   falls, refusals, raced, due>>

ReadFlags(x) ==
    /\ At(x, "read_flags")
    /\ due' = FALSE
    /\ Call(x, IF cause = "imax" THEN <<"clear_imax">> ELSE <<>>)
    /\ UNCHANGED <<pin, cause, latched, enabled, bq27742_g1_interrupt_pending,
                   queued, falls, refusals, raced>>

\* IMAX_INT_CLEAR lets go of the pin if that is what holds it.
ClearImax(x) ==
    /\ At(x, "clear_imax")
    /\ IF cause = "imax" THEN Rise ELSE UNCHANGED <<pin, cause, latched, due>>
    /\ Proceed(x)
    /\ UNCHANGED <<enabled, bq27742_g1_interrupt_pending, queued, falls,
                   refusals, raced>>

Midway == /\ todo["thread"] # <<>>
          /\ Head(todo["thread"]) \notin {"if_low_queue", "test_pending", "get_pin"}

\* The SDK's handler takes the edges core 0 listens for.
IsrTake ==
    LET events == latched \cap enabled[0] IN
    /\ todo["isr"] = <<>>
    /\ events # {}
    /\ latched' = latched \ events
    /\ todo' = [todo EXCEPT !["isr"] = OnInterrupt(events)]
    /\ raced' = (raced \/ Midway)
    /\ UNCHANGED <<pin, cause, enabled, bq27742_g1_interrupt_pending, queued,
                   falls, refusals, due>>

\* call_queue_pop
Core1Pop ==
    /\ todo["core1"] = <<>>
    /\ queued > 0
    /\ queued' = queued - 1
    /\ todo' = [todo EXCEPT !["core1"] = ParseInterruptVals]
    /\ UNCHANGED <<pin, cause, latched, enabled, bq27742_g1_interrupt_pending,
                   falls, refusals, raced, due>>

DriverStep(x) ==
    \/ TestPending(x)
    \/ SetPending(x)
    \/ \E edge \in Edges, on \in BOOLEAN : SetIrqEnabled(x, edge, on)
    \/ TryAdd(x)
    \/ Refused(x)
    \/ GetPin(x)

\* The pin is set up when the data flash is.
SetUp == ConfigureHostInterrupts \/ EndSetup

Core0Step == \/ IsrTake
             \/ DriverStep("thread")
             \/ DriverStep("isr")
             \/ IfLowQueue("thread")
             \/ Acknowledge("isr")

Core1Step == \/ Core1Pop
             \/ DriverStep("core1")
             \/ ReadFlags("core1")
             \/ ClearImax("core1")

Interrupts == \/ Core0Step
              \/ Core1Step
              \/ \E why \in {"status", "imax"} : Assert(why)
              \/ Release

Next == \/ Interrupts /\ UNCHANGED flashVars
        \/ (SetUp \/ Restart) /\ UNCHANGED interruptVars

Spec == Init /\ [][Next]_vars

\* Both cores keep executing; nothing is assumed of the gauge.
FairSpec == /\ Spec
            /\ WF_vars(SetUp /\ UNCHANGED interruptVars)
            /\ WF_vars(Core0Step /\ UNCHANGED flashVars)
            /\ WF_vars(Core1Step /\ UNCHANGED flashVars)

-----------------------------------------------------------------------------
(* Properties. *)

TypeOK ==
    /\ FlashTypeOK
    /\ pin \in {"high", "low"}
    /\ cause \in {"none", "status", "imax"}
    /\ pin = "high" <=> cause = "none"
    /\ latched \subseteq Edges
    /\ enabled \in [Cores -> SUBSET Edges]
    /\ bq27742_g1_interrupt_pending \in BOOLEAN
    /\ queued \in 0 .. MaxFalls + 2
    /\ todo \in [Contexts -> Seq(Steps)]
    /\ falls \in 0..MaxFalls
    /\ refusals \in 0..MaxRefusals
    /\ raced \in BOOLEAN
    /\ due \in BOOLEAN

Core0Idle == todo["thread"] = <<>> /\ todo["isr"] = <<>>

\* However the two cores' calls of gpio_set_irq_enabled interleave, core 0 never
\* ends up deaf or listening for both edges: whatever alarm was missed, the next
\* edge of one direction is seen (bq27742_g1.c:242-243, 311-312).
ListensToOneEdge ==
    Core0Idle /\ ~raced => enabled[0] \in {{"fall"}, {"rise"}}

\* The pending flag is never left set for good: while it is set and core 0 has
\* nothing to do, core 0 listens for the rising edge that clears it, whatever
\* core 1 is doing (bq27742_g1.c:241-243, 310-312).
PendingIsCleared ==
    Core0Idle /\ ~raced /\ bq27742_g1_interrupt_pending => enabled[0] = {"rise"}

InTodo(x, step) == step \in {todo[x][i] : i \in 1..Len(todo[x])}

\* Somebody has still to read the flags on account of the pin.
OnItsWay ==
    \/ "fall" \in latched \cap enabled[0]
    \/ \E x \in {"thread", "isr"}, step \in {"test_pending", "if_low_queue",
                                             "set_pending", "try_add"} :
           InTodo(x, step)
    \/ queued > 0
    \/ InTodo("core1", "read_flags")

\* An alarm that came while core 0 listened for it is read, unless call_queue
\* was full or a re-arming cleared the latch the moment it was set.
DueIsOnItsWay == due /\ ~raced => OnItsWay

\* ... and in the end it is read, or over.
DueIsRead == due ~> ~due \/ raced
=============================================================================
