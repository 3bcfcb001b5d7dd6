----------------------------- MODULE CallQueue -----------------------------
(***************************************************************************)
(* The path of a GPIO interrupt through src/src/robot.c: the interrupt     *)
(* callback runs on core 0, on top of whatever the serial thread was       *)
(* doing, and only appends a function to call_queue; core 1 takes the      *)
(* entries one at a time and runs them (core1_entry, call_queue_pop).      *)
(*                                                                         *)
(* Two kinds of pin raise interrupts.  A held pin (IRQB of the MAX77976,   *)
(* INTB of the MAX77958) is pulled low by its chip until the handler on    *)
(* core 1 reads the chip's interrupt registers.  A toggle pin (the         *)
(* wireless-charger flag of the NCP3901) follows the outside world and     *)
(* interrupts on both edges.                                               *)
(*                                                                         *)
(* The log mutex is part of the model because it is the one lock that the  *)
(* thread, core 1 and, when call_queue is full, the interrupt callback all *)
(* take.                                                                   *)
(***************************************************************************)
EXTENDS Integers, Sequences, FiniteSets

CONSTANTS HeldPins,
          TogglePins,
          Capacity,    \* entries of call_queue (256)
          MaxToggles   \* bound: how often toggle pins change

ASSUME QueueAssumption ==
    /\ IsFiniteSet(HeldPins)
    /\ HeldPins \cap TogglePins = {}
    /\ "none" \notin HeldPins \cup TogglePins
    /\ Capacity \in Nat \ {0}
    /\ MaxToggles \in Nat

Pins == HeldPins \cup TogglePins

VARIABLES pin,         \* level of each pin
          latched,     \* edges latched for core 0's GPIO interrupt
          isr,         \* the interrupt callback on core 0
          call_queue,
          core1,       \* the loop of core1_entry
          thread,      \* core 0's thread, "work" or holding the log mutex
          mutex,       \* owner of the log mutex
          wireless_charger_attached,
          accepted,    \* history: the last function queued for a toggle pin
          toggles      \* bound counter

devices == <<pin, toggles>>
vars == <<pin, latched, isr, call_queue, core1, thread, mutex,
          wireless_charger_attached, accepted, toggles>>

-----------------------------------------------------------------------------
Entry(func, s) == [func |-> func, src |-> s]

Entries == [func : {"parse"}, src : HeldPins]
              \cup [func : {"attached", "detached"}, src : TogglePins]

NoEntry == [func |-> "none", src |-> "none"]
IdleIsr == [at |-> "idle", src |-> "none", events |-> {}]

Init ==
    /\ pin = [s \in Pins |-> "high"]
    /\ latched = [s \in Pins |-> {}]
    /\ isr = IdleIsr
    /\ call_queue = <<>>
    /\ core1 = [at |-> "pop", entry |-> NoEntry]
    /\ thread = "work"
    /\ mutex = "free"
    /\ wireless_charger_attached = [s \in TogglePins |-> FALSE]
    /\ accepted = [s \in TogglePins |-> "detached"]
    /\ toggles = 0

-----------------------------------------------------------------------------
(* The devices. *)

\* A chip has something to report: it pulls its pin low and holds it.
Alarm(s) ==
    /\ pin[s] = "high"
    /\ pin' = [pin EXCEPT ![s] = "low"]
    /\ latched' = [latched EXCEPT ![s] = @ \cup {"fall"}]
    /\ UNCHANGED <<isr, call_queue, core1, thread, mutex,
                   wireless_charger_attached, accepted, toggles>>

\* A wireless charger comes (low) or goes (high).
Toggle(s) ==
    /\ toggles < MaxToggles
    /\ toggles' = toggles + 1
    /\ \/ /\ pin[s] = "high"
          /\ pin' = [pin EXCEPT ![s] = "low"]
          /\ latched' = [latched EXCEPT ![s] = @ \cup {"fall"}]
       \/ /\ pin[s] = "low"
          /\ pin' = [pin EXCEPT ![s] = "high"]
          /\ latched' = [latched EXCEPT ![s] = @ \cup {"rise"}]
    /\ UNCHANGED <<isr, call_queue, core1, thread, mutex,
                   wireless_charger_attached, accepted>>

-----------------------------------------------------------------------------
(* Core 0, interrupt level. *)

\* The SDK's GPIO handler: it acknowledges all the events it has read of a pin
\* and calls robot_interrupt_handler with them.
IsrTake(s) ==
    /\ isr.at = "idle"
    /\ latched[s] # {}
    /\ isr' = [at |-> "callback", src |-> s, events |-> latched[s]]
    /\ latched' = [latched EXCEPT ![s] = {}]
    /\ UNCHANGED <<devices, call_queue, core1, thread, mutex,
                   wireless_charger_attached, accepted>>

\* Which edge the driver's callback acknowledges once more and acts on: the
\* callback of the NCP3901 looks at a falling edge only when there is no rising
\* one.
Edge(s, events) == IF s \in TogglePins /\ "rise" \in events THEN "rise"
                                                           ELSE "fall"

Func(s, edge) == IF s \in HeldPins THEN "parse"
                 ELSE IF edge = "rise" THEN "detached" ELSE "attached"

\* Mutated form of TryAdd: no room check.
TryAddUnchecked(entry) == call_queue' = Append(call_queue, entry)

\* Mutated form of TryAdd: the result is ignored, and a full queue drops the
\* entry.
TryAddOrDrop(entry) ==
    call_queue' = IF Len(call_queue) < Capacity THEN Append(call_queue, entry)
                                                ELSE call_queue

\* Mutated form of TryAdd: each interrupt queues its function twice, as if a
\* self-test had never been marked as over.
TryAddTwice(entry) ==
    /\ Len(call_queue) < Capacity
    /\ call_queue' = IF Len(call_queue) + 1 < Capacity
                     THEN call_queue \o <<entry, entry>>
                     ELSE Append(call_queue, entry)

\* queue_try_add
TryAdd(entry) ==
    /\ Len(call_queue) < Capacity
    /\ call_queue' = Append(call_queue, entry)

\* The driver's callback and call_queue_try_add.  A full queue is reported
\* through the log before the assertion stops core 0.
IsrCallback ==
    LET s == isr.src
        edge == Edge(s, isr.events)
        func == Func(s, edge)
    IN  /\ isr.at = "callback"
        /\ latched' = [latched EXCEPT ![s] = @ \ {edge}]
        /\ \/ /\ TryAdd(Entry(func, s))
              /\ isr' = IdleIsr
              /\ accepted' = IF s \in TogglePins
                             THEN [accepted EXCEPT ![s] = func]
                             ELSE accepted
           \/ /\ Len(call_queue) = Capacity
              /\ isr' = [isr EXCEPT !.at = "report"]
              /\ UNCHANGED <<call_queue, accepted>>
        /\ UNCHANGED <<devices, core1, thread, mutex,
                       wireless_charger_attached>>

\* rp2040_log("ERROR: call_queue is full"), then assert(false).
IsrReport ==
    /\ isr.at = "report"
    /\ mutex = "free"
    /\ isr' = [isr EXCEPT !.at = "halted"]
    /\ UNCHANGED <<devices, latched, call_queue, core1, thread, mutex,
                   wireless_charger_attached, accepted>>

-----------------------------------------------------------------------------
(* Core 0, thread level: it runs only while no interrupt is being served. *)

ThreadLock ==
    /\ isr.at = "idle"
    /\ thread = "work"
    /\ mutex = "free"
    /\ thread' = "logging"
    /\ mutex' = "thread"
    /\ UNCHANGED <<devices, latched, isr, call_queue, core1,
                   wireless_charger_attached, accepted>>

ThreadUnlock ==
    /\ isr.at = "idle"
    /\ thread = "logging"
    /\ thread' = "work"
    /\ mutex' = "free"
    /\ UNCHANGED <<devices, latched, isr, call_queue, core1,
                   wireless_charger_attached, accepted>>

-----------------------------------------------------------------------------
(* Core 1. *)

Core1At(label) == core1' = [core1 EXCEPT !.at = label]

\* Mutated form of Core1Pop: the newest entry is taken.
Core1PopNewest ==
    LET last == call_queue[Len(call_queue)] IN
    /\ core1.at = "pop"
    /\ call_queue # <<>>
    /\ call_queue' = SubSeq(call_queue, 1, Len(call_queue) - 1)
    /\ core1' = [at |-> IF last.func = "parse" THEN "read" ELSE "log",
                 entry |-> last]
    /\ UNCHANGED <<devices, latched, isr, thread, mutex,
                   wireless_charger_attached, accepted>>

\* Mutated form of Core1Pop: the handler logs without reading the chip.
Core1PopNoRead ==
    /\ core1.at = "pop"
    /\ call_queue # <<>>
    /\ call_queue' = Tail(call_queue)
    /\ core1' = [at |-> "log", entry |-> Head(call_queue)]
    /\ UNCHANGED <<devices, latched, isr, thread, mutex,
                   wireless_charger_attached, accepted>>

\* queue_remove_blocking, and the call of the entry's function.
Core1Pop ==
    /\ core1.at = "pop"
    /\ call_queue # <<>>
    /\ call_queue' = Tail(call_queue)
    /\ core1' = [at |-> IF Head(call_queue).func = "parse" THEN "read"
                                                           ELSE "log",
                 entry |-> Head(call_queue)]
    /\ UNCHANGED <<devices, latched, isr, thread, mutex,
                   wireless_charger_attached, accepted>>

\* Reading the interrupt registers clears them, and the chip lets go of its pin.
Core1Read ==
    /\ core1.at = "read"
    /\ pin' = [pin EXCEPT ![core1.entry.src] = "high"]
    /\ Core1At("log")
    /\ UNCHANGED <<latched, isr, call_queue, thread, mutex,
                   wireless_charger_attached, accepted, toggles>>

\* Every handler logs.
Core1Lock ==
    /\ core1.at = "log"
    /\ mutex = "free"
    /\ mutex' = "core1"
    /\ Core1At("unlock")
    /\ UNCHANGED <<devices, latched, isr, call_queue, thread,
                   wireless_charger_attached, accepted>>

\* Mutated form of Core1Unlock: the mutex is kept.
Core1UnlockForgotten ==
    /\ core1.at = "unlock"
    /\ Core1At(IF core1.entry.func = "parse" THEN "pop" ELSE "set")
    /\ UNCHANGED <<devices, latched, isr, call_queue, thread, mutex,
                   wireless_charger_attached, accepted>>

Core1Unlock ==
    /\ core1.at = "unlock"
    /\ mutex' = "free"
    /\ Core1At(IF core1.entry.func = "parse" THEN "pop" ELSE "set")
    /\ UNCHANGED <<devices, latched, isr, call_queue, thread,
                   wireless_charger_attached, accepted>>

\* The handlers of the NCP3901 log first and then set the flag.
Core1Set ==
    /\ core1.at = "set"
    /\ wireless_charger_attached' =
           [wireless_charger_attached EXCEPT
               ![core1.entry.src] = (core1.entry.func = "attached")]
    /\ Core1At("pop")
    /\ UNCHANGED <<devices, latched, isr, call_queue, thread, mutex, accepted>>

Core1Step == Core1Pop \/ Core1Read \/ Core1Lock \/ Core1Unlock \/ Core1Set

-----------------------------------------------------------------------------
Next == \/ \E s \in HeldPins : Alarm(s)
        \/ \E s \in TogglePins : Toggle(s)
        \/ \E s \in Pins : IsrTake(s)
        \/ IsrCallback
        \/ IsrReport
        \/ ThreadLock
        \/ ThreadUnlock
        \/ Core1Step

Spec == Init /\ [][Next]_vars

\* Both cores keep executing.  Strong fairness where a step may be disabled and
\* enabled again for ever: the SDK's handler looks at every pin each time it
\* runs, so no pin with a latched edge is passed over for ever; and the thread
\* sleeps between its log calls for far longer than core 1 takes to see the
\* mutex free.
FairSpec == /\ Spec
            /\ \A s \in Pins : SF_vars(IsrTake(s))
            /\ WF_vars(IsrCallback)
            /\ SF_vars(IsrReport)
            /\ SF_vars(ThreadUnlock)
            /\ WF_vars(Core1Pop)
            /\ WF_vars(Core1Read)
            /\ SF_vars(Core1Lock)
            /\ WF_vars(Core1Unlock)
            /\ WF_vars(Core1Set)

-----------------------------------------------------------------------------
(* Properties. *)

BusyIsr == [at : {"callback", "report", "halted"}, src : Pins,
            events : (SUBSET {"rise", "fall"}) \ {{}}]

TypeOK ==
    /\ pin \in [Pins -> {"high", "low"}]
    /\ latched \in [Pins -> SUBSET {"rise", "fall"}]
    /\ isr \in BusyIsr \cup {IdleIsr}
    /\ call_queue \in Seq(Entries)
    /\ Len(call_queue) <= Capacity
    /\ \/ core1 = [at |-> "pop", entry |-> NoEntry]
       \/ core1 \in [at : {"pop", "read", "log", "unlock", "set"},
                     entry : Entries]
    /\ thread \in {"work", "logging"}
    /\ mutex \in {"free", "thread", "core1"}
    /\ wireless_charger_attached \in [TogglePins -> BOOLEAN]
    /\ accepted \in [TogglePins -> {"attached", "detached"}]
    /\ toggles \in 0..MaxToggles

\* The positions in call_queue of the functions queued for a pin.
Queued(s) == {i \in 1..Len(call_queue) : call_queue[i].src = s}

\* Where the alarm of a held pin can be on its way to being read.
Places(s) ==
    {<<"queue", i>> : i \in Queued(s)}
    \cup {p \in {<<"latch", 0>>} : latched[s] # {}}
    \cup {p \in {<<"isr", 0>>} : isr.src = s}
    \cup {p \in {<<"core1", 0>>} : core1.at = "read" /\ core1.entry.src = s}

\* A chip that holds its pin low gets no second edge, so its alarm must be on
\* its way exactly once: not lost (the pin would stay low for ever and the chip
\* silent) and not twice (call_queue would fill up); and a chip that reports
\* nothing is not read on its account.
OnItsWayOnce(s) == IF pin[s] = "low" THEN \E p \in Places(s) : Places(s) = {p}
                                     ELSE Places(s) = {}
AlarmOnItsWayOnce == \A s \in HeldPins : OnItsWayOnce(s)

\* Held pins alone never fill the queue: when the callback finds call_queue
\* full (robot.c:463), all but one entry per held pin were put there by edges
\* of toggle pins that core 1 has not got round to.
FullQueueIsToggles ==
    [][isr.at = "callback" /\ isr'.at = "report" =>
           Cardinality(UNION {Queued(s) : s \in TogglePins})
               >= Capacity - Cardinality(HeldPins \ {isr.src})]_vars

\* Entries run in the order they were queued: when nothing is queued or running
\* for the charger pin, the flag is what the last edge the callback accepted
\* says, however many edges came before it (ncp3901.c:37-49).
FlagFollowsAccepted ==
    \A s \in TogglePins :
        Queued(s) = {} /\ (core1.entry.src = s => core1.at = "pop") =>
            wireless_charger_attached[s] = (accepted[s] = "attached")

\* "rising edge indicates charger was removed, while falling edge indicates
\* charger attached" (ncp3901.c:64): once every edge has been handled, the flag
\* says whether the pin is low.
FlagFollowsPin ==
    \A s \in TogglePins :
        /\ latched[s] = {}
        /\ isr = IdleIsr
        /\ Queued(s) = {}
        /\ core1.at = "pop"
        => wireless_charger_attached[s] = (pin[s] = "low")

\* An alarm is read in the end unless core 0 stopped on a full queue.
AlarmIsRead ==
    \A s \in HeldPins :
        pin[s] = "low" ~> pin[s] = "high" \/ isr.at \in {"report", "halted"}

\* A full queue is reported in the log before the assertion, unless the
\* callback interrupted its own core's thread while that held the log mutex:
\* then both wait for each other for ever (robot.c:464).
FullQueueReported ==
    isr.at = "report" ~> isr.at = "halted" \/ thread = "logging"
=============================================================================
