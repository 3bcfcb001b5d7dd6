-------------------------- MODULE BQ27742Pin_proofs --------------------------
(***************************************************************************)
(* Proofs about the fuel gauge's interrupt: what the two cores do to the   *)
(* enables, the latch and the pending flag, for any number of alarms and   *)
(* of times call_queue is full.                                            *)
(***************************************************************************)
EXTENDS BQ27742_proofs, SequenceTheorems

-----------------------------------------------------------------------------
(* What a context may have left to do. *)

AckRise == <<"ack_rise", "get_pin">>
Endings == {<<>>, AckRise}

Mark3 == <<"fall_off", "rise_on", "try_add">>
Mark2 == <<"rise_on", "try_add">>
Mark1 == <<"try_add">>
Rearm2 == <<"rise_off", "fall_on">>
Rearm1 == <<"fall_on">>

Marking == {MarkAndQueue, Mark3, Mark2, Mark1}
Rearming == {RearmAssertIrq, Rearm2, Rearm1}
Shared == {<<>>, QueueParseInterrupt, RearmIfHigh} \cup Marking \cup Rearming

AckFall == <<"ack_fall", "test_pending">>
IfLow == <<"if_low_queue">>
ThreadTodos == Shared \cup {InitSteps, IfLow}
IsrTodos == Shared \cup {AckFall, AckRise}
Core1Todos == {<<>>, RearmIfHigh, <<"read_flags", "get_pin">>,
               <<"clear_imax", "get_pin">>} \cup Rearming

\* Of a thread that an interrupt found between two decisions.
Waiting == {<<>>, IfLow, QueueParseInterrupt, RearmIfHigh}

(***************************************************************************)
(* Every alarm, and the start, queues the parser at most once: the latched *)
(* edge, the context that is about to queue it and the entries in the      *)
(* queue together are no more than the alarms and the start's one.         *)
(***************************************************************************)
Owed(s) == IF s \in {InitSteps, IfLow, AckFall, QueueParseInterrupt} \cup Marking
           THEN 1 ELSE 0
Counted(s) ==
    queued + Owed(todo["thread"]) + Owed(s) + (IF "fall" \in latched THEN 1 ELSE 0)
        <= falls + 1

Todos ==
    /\ todo \in [Contexts -> Seq(Steps)]
    /\ todo["thread"] \in ThreadTodos
    /\ todo["core1"] \in Core1Todos
    /\ \E s \in IsrTodos, u \in Endings : todo["isr"] = s \o u /\ Counted(s)

(***************************************************************************)
(* While no interrupt came half-way through the thread's change of flag    *)
(* and enables, core 0 does one thing at a time: what it is doing says     *)
(* which edges it listens for, and whether a parser is pending.            *)
(***************************************************************************)
Doing == IF todo["isr"] # <<>> THEN todo["isr"] ELSE todo["thread"]

Listens(s) ==
    enabled[0] \in CASE s = InitSteps -> {{}}
                     [] s = Mark2 -> {{}, {"rise"}}
                     [] s = Mark1 -> {{"rise"}}
                     [] s = Rearm1 -> {{}, {"fall"}}
                     [] OTHER -> {{"fall"}, {"rise"}}
PendingFits(s) ==
    bq27742_g1_interrupt_pending =>
        /\ enabled[0] = {"rise"} \/ s \in {Mark3, Mark2}
        /\ s \notin {Rearm2, Rearm1}
TakesFall(s) == s \in {AckFall, QueueParseInterrupt} => enabled[0] = {"fall"}

OneAtATime ==
    /\ todo["isr"] \in IsrTodos
    /\ todo["isr"] # <<>> => todo["thread"] \in Waiting
    /\ Listens(Doing)
    /\ PendingFits(Doing)
    /\ TakesFall(todo["isr"])

\* Where an alarm is that is due, not counting the thread's own look at the pin.
Carried ==
    \/ "fall" \in latched \cap enabled[0]
    \/ todo["isr"] \in {AckFall, QueueParseInterrupt} \cup Marking
    \/ todo["thread"] \in Marking
    \/ queued > 0
    \/ todo["core1"] = <<"read_flags", "get_pin">>

Types ==
    /\ pin \in {"high", "low"}
    /\ cause \in {"none", "status", "imax"}
    /\ pin = "high" <=> cause = "none"
    /\ latched \subseteq Edges
    /\ enabled \in [Cores -> SUBSET Edges]
    /\ bq27742_g1_interrupt_pending \in BOOLEAN
    /\ queued \in Nat
    /\ falls \in 0..MaxFalls
    /\ refusals \in 0..MaxRefusals
    /\ raced \in BOOLEAN
    /\ due \in BOOLEAN

PinInv ==
    /\ Types
    /\ Todos
    /\ ~raced => OneAtATime
    /\ due /\ ~raced => Carried

-----------------------------------------------------------------------------
(* One step of a context of core 0: what it had to do, what it has left, and *)
(* what happens to the rest.                                                 *)

Keep == UNCHANGED <<latched, enabled, bq27742_g1_interrupt_pending, queued, due>>
Listen(edge, on) ==
    /\ latched' = latched \ {edge}
    /\ enabled' = [enabled EXCEPT ![0] = IF on THEN @ \cup {edge} ELSE @ \ {edge}]
    /\ due' = (due /\ ~(edge = "fall" /\ on /\ "fall" \in latched))
    /\ UNCHANGED <<bq27742_g1_interrupt_pending, queued>>
Pending(p) ==
    /\ bq27742_g1_interrupt_pending' = p
    /\ UNCHANGED <<latched, enabled, queued, due>>
Unlatch(edge) ==
    /\ latched' = latched \ {edge}
    /\ UNCHANGED <<enabled, bq27742_g1_interrupt_pending, queued, due>>

Move(s, t) ==
    \/ s = InitSteps /\ t = IfLow /\ Listen("fall", TRUE)
    \/ s = IfLow /\ t \in {<<>>, QueueParseInterrupt} /\ Keep
    \/ s = AckFall /\ t = QueueParseInterrupt /\ Unlatch("fall")
    \/ s = AckRise /\ t = RearmIfHigh /\ Unlatch("rise")
    \/ s = QueueParseInterrupt /\ bq27742_g1_interrupt_pending /\ t = <<>> /\ Keep
    \/ s = QueueParseInterrupt /\ ~bq27742_g1_interrupt_pending
           /\ t = MarkAndQueue /\ Keep
    \/ s = MarkAndQueue /\ t = Mark3 /\ Pending(TRUE)
    \/ s = Mark3 /\ t = Mark2 /\ Listen("fall", FALSE)
    \/ s = Mark2 /\ t = Mark1 /\ Listen("rise", TRUE)
    \/ /\ s = Mark1 /\ t = <<>>
       /\ queued' = queued + 1
       /\ UNCHANGED <<latched, enabled, bq27742_g1_interrupt_pending, due>>
    \/ /\ s = Mark1 /\ t = RearmIfHigh
       /\ due' = FALSE
       /\ UNCHANGED <<latched, enabled, bq27742_g1_interrupt_pending, queued>>
    \/ s = RearmIfHigh /\ t \in {<<>>, RearmAssertIrq} /\ Keep
    \/ s = RearmAssertIrq /\ t = Rearm2 /\ Pending(FALSE)
    \/ s = Rearm2 /\ t = Rearm1 /\ Listen("rise", FALSE)
    \/ s = Rearm1 /\ t = <<>> /\ Listen("fall", TRUE)

Core0Todos == ThreadTodos \cup IsrTodos

\* The names of the sequences, to expand them together.
LEMMA HeadsAndTails ==
    /\ Head(InitSteps) = "fall_on" /\ Tail(InitSteps) = IfLow
    /\ Head(IfLow) = "if_low_queue" /\ Tail(IfLow) = <<>>
    /\ Head(AckFall) = "ack_fall" /\ Tail(AckFall) = QueueParseInterrupt
    /\ Head(AckRise) = "ack_rise" /\ Tail(AckRise) = RearmIfHigh
    /\ Head(QueueParseInterrupt) = "test_pending" /\ Tail(QueueParseInterrupt) = <<>>
    /\ Head(MarkAndQueue) = "set_pending" /\ Tail(MarkAndQueue) = Mark3
    /\ Head(Mark3) = "fall_off" /\ Tail(Mark3) = Mark2
    /\ Head(Mark2) = "rise_on" /\ Tail(Mark2) = Mark1
    /\ Head(Mark1) = "try_add" /\ Tail(Mark1) = <<>>
    /\ Head(RearmIfHigh) = "get_pin" /\ Tail(RearmIfHigh) = <<>>
    /\ Head(RearmAssertIrq) = "clear_pending" /\ Tail(RearmAssertIrq) = Rearm2
    /\ Head(Rearm2) = "rise_off" /\ Tail(Rearm2) = Rearm1
    /\ Head(Rearm1) = "fall_on" /\ Tail(Rearm1) = <<>>
BY DEF InitSteps, IfLow, AckFall, AckRise, QueueParseInterrupt, MarkAndQueue,
       Mark3, Mark2, Mark1, RearmIfHigh, RearmAssertIrq, Rearm2, Rearm1

LEMMA TodosAreSequences ==
    /\ Core0Todos \cup Core1Todos \subseteq Seq(Steps)
    /\ Endings \subseteq Seq(Steps)
<1>1. /\ <<>> \in Seq(Steps)
      /\ InitSteps \in Seq(Steps) /\ IfLow \in Seq(Steps)
      /\ AckFall \in Seq(Steps) /\ AckRise \in Seq(Steps)
      /\ QueueParseInterrupt \in Seq(Steps) /\ RearmIfHigh \in Seq(Steps)
  BY DEF Steps, InitSteps, IfLow, AckFall, AckRise, QueueParseInterrupt,
         RearmIfHigh
<1>2. /\ MarkAndQueue \in Seq(Steps) /\ Mark3 \in Seq(Steps)
      /\ Mark2 \in Seq(Steps) /\ Mark1 \in Seq(Steps)
  BY DEF Steps, MarkAndQueue, Mark3, Mark2, Mark1
<1>3. /\ RearmAssertIrq \in Seq(Steps) /\ Rearm2 \in Seq(Steps)
      /\ Rearm1 \in Seq(Steps)
      /\ <<"read_flags", "get_pin">> \in Seq(Steps)
      /\ <<"clear_imax", "get_pin">> \in Seq(Steps)
  BY DEF Steps, RearmAssertIrq, Rearm2, Rearm1
<1>. QED
  BY <1>1, <1>2, <1>3
     DEF Core0Todos, Core1Todos, ThreadTodos, IsrTodos, Shared, Marking,
         Rearming, Endings

LEMMA TwoSteps ==
    ASSUME NEW a \in Steps, NEW b \in Steps
    PROVE  <<a>> \o <<b>> = <<a, b>>
<1>1. /\ <<a>> \in Seq(Steps) /\ <<b>> \in Seq(Steps)
      /\ <<a, b>> \in Seq(Steps)
      /\ Len(<<a>>) = 1 /\ Len(<<b>>) = 1 /\ Len(<<a, b>>) = 2
  OBVIOUS
<1>2. /\ <<a>> \o <<b>> \in Seq(Steps)
      /\ Len(<<a>> \o <<b>>) = 2
      /\ (<<a>> \o <<b>>)[1] = a
      /\ (<<a>> \o <<b>>)[2] = b
  BY <1>1, ConcatProperties
<1>3. <<a, b>>[1] = a /\ <<a, b>>[2] = b
  OBVIOUS
<1>4. \A i \in 1 .. Len(<<a>> \o <<b>>) : i = 1 \/ i = 2
  BY <1>2
<1>5. \A i \in 1 .. Len(<<a>> \o <<b>>) :
          (<<a>> \o <<b>>)[i] = <<a, b>>[i]
  BY <1>2, <1>3, <1>4
<1>. QED
  BY <1>1, <1>2, <1>5, SeqEqual

\* A call puts its steps where the first step was.
LEMMA Prepend ==
    ASSUME NEW w \in Seq(Steps), NEW s \in Seq(Steps), NEW u \in Seq(Steps),
           s # <<>>
    PROVE  /\ s \o u # <<>>
           /\ Head(s \o u) = Head(s)
           /\ w \o Tail(s \o u) = (w \o Tail(s)) \o u
<1>1. /\ Len(s) \in Nat \ {0} /\ Len(u) \in Nat /\ Len(w) \in Nat
      /\ s \o u \in Seq(Steps)
      /\ Len(s \o u) = Len(s) + Len(u)
      /\ (s \o u)[1] = s[1]
  OBVIOUS
<1>2. s \o u # <<>> /\ Head(s \o u) = Head(s)
  BY <1>1
<1>. DEFINE a == w \o Tail(s \o u)
            b == (w \o Tail(s)) \o u
<1>3. /\ Tail(s \o u) \in Seq(Steps)
      /\ Len(Tail(s \o u)) = Len(s) + Len(u) - 1
      /\ \A i \in 1 .. Len(s) + Len(u) - 1 : Tail(s \o u)[i] = (s \o u)[i + 1]
  BY <1>1, <1>2
<1>4. /\ Tail(s) \in Seq(Steps)
      /\ Len(Tail(s)) = Len(s) - 1
      /\ \A i \in 1 .. Len(s) - 1 : Tail(s)[i] = s[i + 1]
  BY <1>1
<1>5. a \in Seq(Steps) /\ b \in Seq(Steps)
  BY <1>3, <1>4
<1>6. Len(a) = Len(w) + Len(s) + Len(u) - 1 /\ Len(b) = Len(a)
  BY <1>1, <1>3, <1>4
<1>. HIDE DEF a, b
<1>7. ASSUME NEW i \in 1..Len(a)
      PROVE  a[i] = b[i]
  <2>1. CASE i \in 1..Len(w)
    BY <1>1, <1>3, <1>4, <2>1 DEF a, b
  <2>2. CASE i \in Len(w) + 1 .. Len(w) + Len(s) - 1
    <3>1. /\ i - Len(w) \in 1 .. Len(s) - 1
          /\ i - Len(w) + 1 \in 1 .. Len(s)
      BY <1>1, <2>2
    <3>2. a[i] = s[i - Len(w) + 1]
      BY <1>1, <1>3, <2>2, <3>1 DEF a
    <3>3. b[i] = s[i - Len(w) + 1]
      BY <1>1, <1>4, <2>2, <3>1 DEF b
    <3>. QED
      BY <3>2, <3>3
  <2>3. CASE i \in Len(w) + Len(s) .. Len(a)
    <3>1. i - Len(w) - Len(s) + 1 \in 1 .. Len(u)
      BY <1>1, <1>6, <2>3
    <3>2. a[i] = u[i - Len(w) - Len(s) + 1]
      BY <1>1, <1>3, <1>6, <2>3, <3>1 DEF a
    <3>3. b[i] = u[i - Len(w) - Len(s) + 1]
      BY <1>1, <1>4, <1>6, <2>3, <3>1 DEF b
    <3>. QED
      BY <3>2, <3>3
  <2>. QED
    BY <1>1, <1>6, <2>1, <2>2, <2>3
<1>8. a = b
  BY <1>5, <1>6, <1>7, SeqEqual
<1>. QED
  BY <1>2, <1>8

\* What a step of the driver on core 0 does, whatever comes after it.
LEMMA Core0Moves ==
    ASSUME todo \in [Contexts -> Seq(Steps)],
           NEW x \in {"thread", "isr"},
           NEW s \in Core0Todos \ {<<>>}, NEW u \in Endings,
           todo[x] = s \o u,
           DriverStep(x) \/ IfLowQueue(x) \/ Acknowledge(x)
    PROVE  /\ \E t \in Core0Todos : /\ todo' = [todo EXCEPT ![x] = t \o u]
                                    /\ Move(s, t)
           /\ UNCHANGED <<pin, cause, falls, raced>>
           /\ \/ refusals' = refusals
              \/ refusals < MaxRefusals /\ refusals' = refusals + 1
<1>. USE TodosAreSequences
<1>. DEFINE Becomes(t) == /\ todo' = [todo EXCEPT ![x] = t \o u]
                          /\ Move(s, t)
<1>1. x \in Contexts /\ CoreOf(x) = 0
  BY DEF Contexts, CoreOf
<1>2. s \in Seq(Steps) /\ u \in Seq(Steps) /\ s # <<>>
  OBVIOUS
<1>3. \A step : At(x, step) => Head(s) = step
  BY <1>2, Prepend DEF At
<1>4. ASSUME NEW steps \in Seq(Steps), Call(x, steps)
      PROVE  todo' = [todo EXCEPT ![x] = (steps \o Tail(s)) \o u]
  <2>1. steps \o Tail(s \o u) = (steps \o Tail(s)) \o u
    BY <1>2, Prepend
  <2>2. todo' = [todo EXCEPT ![x] = steps \o Tail(todo[x])]
    BY <1>4 DEF Call
  <2>. QED
    BY <2>1, <2>2
<1>5. Proceed(x) => todo' = [todo EXCEPT ![x] = Tail(s) \o u]
  <2>1. <<>> \o Tail(s) = Tail(s) /\ <<>> \in Seq(Steps)
    BY <1>2
  <2>. QED
    BY <1>4, <2>1 DEF Proceed
<1>6. s \in {InitSteps, IfLow, AckFall, AckRise, QueueParseInterrupt, RearmIfHigh,
             MarkAndQueue, Mark3, Mark2, Mark1, RearmAssertIrq, Rearm2, Rearm1}
  BY DEF Core0Todos, ThreadTodos, IsrTodos, Shared, Marking, Rearming
<1>7. {<<>>, IfLow, QueueParseInterrupt, RearmIfHigh, MarkAndQueue, Mark3, Mark2,
       Mark1, RearmAssertIrq, Rearm2, Rearm1} \subseteq Core0Todos
  BY DEF Core0Todos, ThreadTodos, IsrTodos, Shared, Marking, Rearming
<1>8. MarkAndQueue \o <<>> = MarkAndQueue /\ RearmIfHigh \o <<>> = RearmIfHigh
      /\ RearmAssertIrq \o <<>> = RearmAssertIrq
      /\ QueueParseInterrupt \o <<>> = QueueParseInterrupt
      /\ <<>> \o <<>> = <<>>
  BY DEF MarkAndQueue, RearmIfHigh, RearmAssertIrq, QueueParseInterrupt
<1>. HIDE DEF Becomes
<1>9. CASE TestPending(x)
  <2>1. s = QueueParseInterrupt /\ Tail(s) = <<>>
    BY <1>3, <1>6, <1>9, HeadsAndTails DEF TestPending
  <2>2. CASE bq27742_g1_interrupt_pending
    <3>1. Becomes(<<>>)
      BY <1>4, <1>7, <1>8, <1>9, <2>1, <2>2 DEF TestPending, Move, Keep, Becomes
    <3>. QED
      BY <1>7, <1>9, <3>1 DEF Becomes, TestPending
  <2>3. CASE ~bq27742_g1_interrupt_pending
    <3>1. Becomes(MarkAndQueue)
      BY <1>4, <1>7, <1>8, <1>9, <2>1, <2>3 DEF TestPending, Move, Keep, Becomes
    <3>. QED
      BY <1>7, <1>9, <3>1 DEF Becomes, TestPending
  <2>. QED
    BY <2>2, <2>3
<1>10. CASE SetPending(x)
  <2>1. PICK step \in {"set_pending", "clear_pending"} :
            /\ Head(s) = step
            /\ bq27742_g1_interrupt_pending' = (step = "set_pending")
    BY <1>3, <1>10 DEF SetPending
  <2>2. todo' = [todo EXCEPT ![x] = Tail(s) \o u]
    BY <1>5, <1>10 DEF SetPending
  <2>3. CASE step = "set_pending"
    <3>1. s = MarkAndQueue /\ Tail(s) = Mark3
      BY <1>6, <2>1, <2>3, HeadsAndTails
    <3>2. Becomes(Mark3)
      BY <1>10, <2>1, <2>2, <2>3, <3>1 DEF SetPending, Move, Pending, Becomes
    <3>. QED
      BY <1>7, <1>10, <3>2 DEF Becomes, SetPending
  <2>4. CASE step = "clear_pending"
    <3>1. s = RearmAssertIrq /\ Tail(s) = Rearm2
      BY <1>6, <2>1, <2>4, HeadsAndTails
    <3>2. Becomes(Rearm2)
      BY <1>10, <2>1, <2>2, <2>4, <3>1 DEF SetPending, Move, Pending, Becomes
    <3>. QED
      BY <1>7, <1>10, <3>2 DEF Becomes, SetPending
  <2>. QED
    BY <2>1, <2>3, <2>4
<1>11. ASSUME NEW edge \in Edges, NEW on \in BOOLEAN, SetIrqEnabled(x, edge, on)
       PROVE  \E t \in Core0Todos : Becomes(t)
  <2>1. todo' = [todo EXCEPT ![x] = Tail(s) \o u]
    BY <1>5, <1>11 DEF SetIrqEnabled
  <2>2. Listen(edge, on)
    BY <1>1, <1>11 DEF SetIrqEnabled, Listen
  <2>3. Head(s) = CASE edge = "fall" /\ on  -> "fall_on"
                    [] edge = "fall" /\ ~on -> "fall_off"
                    [] edge = "rise" /\ on  -> "rise_on"
                    [] edge = "rise" /\ ~on -> "rise_off"
    BY <1>3, <1>11 DEF SetIrqEnabled
  <2>4. CASE edge = "fall" /\ on
    <3>1. \/ s = InitSteps /\ Tail(s) = IfLow
          \/ s = Rearm1 /\ Tail(s) = <<>>
      BY <1>6, <2>3, <2>4, HeadsAndTails
    <3>. QED
      BY <1>7, <2>1, <2>2, <2>4, <3>1 DEF Move, Becomes
  <2>5. CASE edge = "fall" /\ ~on
    <3>1. s = Mark3 /\ Tail(s) = Mark2
      BY <1>6, <2>3, <2>5, HeadsAndTails
    <3>. QED
      BY <1>7, <2>1, <2>2, <2>5, <3>1 DEF Move, Becomes
  <2>6. CASE edge = "rise" /\ on
    <3>1. s = Mark2 /\ Tail(s) = Mark1
      BY <1>6, <2>3, <2>6, HeadsAndTails
    <3>. QED
      BY <1>7, <2>1, <2>2, <2>6, <3>1 DEF Move, Becomes
  <2>7. CASE edge = "rise" /\ ~on
    <3>1. s = Rearm2 /\ Tail(s) = Rearm1
      BY <1>6, <2>3, <2>7, HeadsAndTails
    <3>. QED
      BY <1>7, <2>1, <2>2, <2>7, <3>1 DEF Move, Becomes
  <2>. QED
    BY <2>4, <2>5, <2>6, <2>7 DEF Edges
<1>12. CASE TryAdd(x)
  <2>1. s = Mark1 /\ Tail(s) = <<>>
    BY <1>3, <1>6, <1>12, HeadsAndTails DEF TryAdd
  <2>2. Becomes(<<>>)
    BY <1>5, <1>12, <2>1 DEF TryAdd, Move, Becomes
  <2>. QED
    BY <1>7, <1>12, <2>2 DEF Becomes, TryAdd
<1>13. CASE Refused(x)
  <2>1. s = Mark1 /\ Tail(s) = <<>>
    BY <1>3, <1>6, <1>13, HeadsAndTails DEF Refused
  <2>2. todo' = [todo EXCEPT ![x] = RearmIfHigh \o u]
    BY <1>4, <1>7, <1>8, <1>13, <2>1 DEF Refused
  <2>3. Becomes(RearmIfHigh)
    BY <1>13, <2>1, <2>2 DEF Refused, Move, Becomes
  <2>. QED
    BY <1>7, <1>13, <2>3 DEF Becomes, Refused
<1>14. CASE GetPin(x)
  <2>1. s = RearmIfHigh /\ Tail(s) = <<>>
    BY <1>3, <1>6, <1>14, HeadsAndTails DEF GetPin
  <2>2. PICK t \in {<<>>, RearmAssertIrq} : Call(x, t)
    BY <1>14 DEF GetPin
  <2>3. t \in Core0Todos /\ t \o <<>> = t
    BY <1>7, <1>8
  <2>4. todo' = [todo EXCEPT ![x] = t \o u]
    BY <1>4, <2>1, <2>2, <2>3
  <2>5. Becomes(t)
    BY <1>14, <2>1, <2>4 DEF GetPin, Move, Keep, Becomes
  <2>. QED
    BY <1>14, <2>3, <2>5 DEF Becomes, GetPin
<1>15. CASE IfLowQueue(x)
  <2>1. s = IfLow /\ Tail(s) = <<>>
    BY <1>3, <1>6, <1>15, HeadsAndTails DEF IfLowQueue
  <2>2. PICK t \in {<<>>, QueueParseInterrupt} : Call(x, t)
    BY <1>15 DEF IfLowQueue
  <2>3. t \in Core0Todos /\ t \o <<>> = t
    BY <1>7, <1>8
  <2>4. todo' = [todo EXCEPT ![x] = t \o u]
    BY <1>4, <2>1, <2>2, <2>3
  <2>5. Becomes(t)
    BY <1>15, <2>1, <2>4 DEF IfLowQueue, Move, Keep, Becomes
  <2>. QED
    BY <1>15, <2>3, <2>5 DEF Becomes, IfLowQueue
<1>16. CASE Acknowledge(x)
  <2>1. todo' = [todo EXCEPT ![x] = Tail(s) \o u]
    BY <1>5, <1>16 DEF Acknowledge
  <2>2. CASE At(x, "ack_fall") /\ latched' = latched \ {"fall"}
    <3>1. s = AckFall /\ Tail(s) = QueueParseInterrupt
      BY <1>3, <1>6, <2>2, HeadsAndTails
    <3>2. Becomes(QueueParseInterrupt)
      BY <1>16, <2>1, <2>2, <3>1 DEF Acknowledge, Move, Unlatch, Becomes
    <3>. QED
      BY <1>7, <1>16, <3>2 DEF Becomes, Acknowledge
  <2>3. CASE At(x, "ack_rise") /\ latched' = latched \ {"rise"}
    <3>1. s = AckRise /\ Tail(s) = RearmIfHigh
      BY <1>3, <1>6, <2>3, HeadsAndTails
    <3>2. Becomes(RearmIfHigh)
      BY <1>16, <2>1, <2>3, <3>1 DEF Acknowledge, Move, Unlatch, Becomes
    <3>. QED
      BY <1>7, <1>16, <3>2 DEF Becomes, Acknowledge
  <2>. QED
    BY <1>16, <2>2, <2>3 DEF Acknowledge
<1>17. ASSUME NEW edge \in Edges, NEW on \in BOOLEAN, SetIrqEnabled(x, edge, on)
       PROVE  UNCHANGED <<pin, cause, falls, raced, refusals>>
  BY <1>17 DEF SetIrqEnabled
<1>. QED
  BY <1>9, <1>10, <1>11, <1>12, <1>13, <1>14, <1>15, <1>16, <1>17
     DEF DriverStep, Becomes
Named == {InitSteps, IfLow, AckFall, AckRise, QueueParseInterrupt, RearmIfHigh}
             \cup Marking \cup Rearming

\* The sequences are all different.
LEMMA Different ==
    /\ InitSteps \notin IsrTodos
    /\ IfLow \notin IsrTodos \cup {InitSteps}
    /\ AckFall \notin ThreadTodos \cup {AckRise}
    /\ AckRise \notin ThreadTodos
    /\ QueueParseInterrupt \notin {<<>>, RearmIfHigh} \cup Marking \cup Rearming
    /\ RearmIfHigh \notin {<<>>} \cup Marking \cup Rearming
    /\ MarkAndQueue \notin {<<>>, Mark3, Mark2, Mark1} \cup Rearming
    /\ Mark3 \notin {<<>>, Mark2, Mark1} \cup Rearming
    /\ Mark2 \notin {<<>>, Mark1} \cup Rearming
    /\ Mark1 \notin {<<>>} \cup Rearming
    /\ RearmAssertIrq \notin {<<>>, Rearm2, Rearm1}
    /\ Rearm2 \notin {<<>>, Rearm1}
    /\ Rearm1 # <<>>
<1>1. <<>> \notin Named /\ InitSteps # Rearm1
  BY DEF Named, Marking, Rearming, InitSteps, IfLow, AckFall, AckRise, QueueParseInterrupt, MarkAndQueue,
         Mark3, Mark2, Mark1, RearmIfHigh, RearmAssertIrq, Rearm2, Rearm1
<1>2. /\ IsrTodos = {<<>>, QueueParseInterrupt, RearmIfHigh, MarkAndQueue, Mark3,
                     Mark2, Mark1, RearmAssertIrq, Rearm2, Rearm1, AckFall,
                     AckRise}
      /\ ThreadTodos = {<<>>, QueueParseInterrupt, RearmIfHigh, MarkAndQueue,
                        Mark3, Mark2, Mark1, RearmAssertIrq, Rearm2, Rearm1,
                        InitSteps, IfLow}
  BY DEF ThreadTodos, IsrTodos, Shared, Marking, Rearming
<1>3. /\ InitSteps \notin IsrTodos
      /\ IfLow \notin IsrTodos \cup {InitSteps}
      /\ AckFall \notin ThreadTodos \cup {AckRise}
      /\ AckRise \notin ThreadTodos
  BY <1>1, <1>2, HeadsAndTails DEF Named
<1>4. /\ QueueParseInterrupt \notin {<<>>, RearmIfHigh} \cup Marking \cup Rearming
      /\ RearmIfHigh \notin {<<>>} \cup Marking \cup Rearming
  BY <1>1, HeadsAndTails DEF Named, Marking, Rearming
<1>5. /\ MarkAndQueue \notin {<<>>, Mark3, Mark2, Mark1} \cup Rearming
       /\ Mark3 \notin {<<>>, Mark2, Mark1} \cup Rearming
       /\ Mark2 \notin {<<>>, Mark1} \cup Rearming
       /\ Mark1 \notin {<<>>} \cup Rearming
  BY <1>1, HeadsAndTails DEF Named, Marking, Rearming
<1>6. /\ RearmAssertIrq \notin {<<>>, Rearm2, Rearm1}
       /\ Rearm2 \notin {<<>>, Rearm1}
       /\ Rearm1 # <<>>
  BY <1>1, HeadsAndTails DEF Named, Rearming
<1>. QED
  BY <1>3, <1>4, <1>5, <1>6

\* A step that queues the parser, or takes its edge from the latch, pays for it.
LEMMA MoveCounts ==
    ASSUME latched \subseteq Edges, queued \in Nat,
           enabled \in [Cores -> SUBSET Edges],
           bq27742_g1_interrupt_pending \in BOOLEAN, due \in BOOLEAN,
           NEW s \in Core0Todos, NEW t \in Core0Todos, Move(s, t)
    PROVE  /\ latched' \subseteq Edges
           /\ enabled' \in [Cores -> SUBSET Edges]
           /\ bq27742_g1_interrupt_pending' \in BOOLEAN
           /\ queued' \in Nat
           /\ due' \in BOOLEAN
           /\ s \in ThreadTodos => t \in ThreadTodos
           /\ s \in IsrTodos => t \in IsrTodos
           /\ queued' + Owed(t) + (IF "fall" \in latched' THEN 1 ELSE 0)
                <= queued + Owed(s) + (IF "fall" \in latched THEN 1 ELSE 0)
<1>. USE DEF Edges, Cores
<1>1. /\ latched' \subseteq Edges
      /\ enabled' \in [Cores -> SUBSET Edges]
      /\ bq27742_g1_interrupt_pending' \in BOOLEAN
      /\ queued' \in Nat
      /\ due' \in BOOLEAN
  <2>1. \/ Keep
        \/ \E edge \in Edges, on \in BOOLEAN : Listen(edge, on)
        \/ \E p \in BOOLEAN : Pending(p)
        \/ \E edge \in Edges : Unlatch(edge)
        \/ /\ queued' = queued + 1
           /\ UNCHANGED <<latched, enabled, bq27742_g1_interrupt_pending, due>>
        \/ /\ due' = FALSE
           /\ UNCHANGED <<latched, enabled, bq27742_g1_interrupt_pending, queued>>
    BY DEF Move
  <2>2. ASSUME NEW edge \in Edges, NEW on \in BOOLEAN, Listen(edge, on)
        PROVE  /\ latched' \subseteq Edges
               /\ enabled' \in [Cores -> SUBSET Edges]
               /\ bq27742_g1_interrupt_pending' \in BOOLEAN
               /\ queued' \in Nat
               /\ due' \in BOOLEAN
    <3>1. enabled[0] \subseteq Edges
      OBVIOUS
    <3>2. latched' \subseteq Edges
      BY <2>2 DEF Listen
    <3>3. enabled' \in [Cores -> SUBSET Edges]
      BY <2>2, <3>1 DEF Listen
    <3>4. due' \in BOOLEAN
      BY <2>2 DEF Listen
    <3>. QED
      BY <2>2, <3>2, <3>3, <3>4 DEF Listen
  <2>. QED
    <3>1. CASE Keep
      BY <3>1 DEF Keep
    <3>2. CASE \E p \in BOOLEAN : Pending(p)
      BY <3>2 DEF Pending
    <3>3. CASE \E edge \in Edges : Unlatch(edge)
      BY <3>3 DEF Unlatch
    <3>4. CASE /\ queued' = queued + 1
               /\ UNCHANGED <<latched, enabled, bq27742_g1_interrupt_pending, due>>
      BY <3>4
    <3>5. CASE /\ due' = FALSE
               /\ UNCHANGED <<latched, enabled, bq27742_g1_interrupt_pending,
                              queued>>
      BY <3>5
    <3>. QED
      BY <2>1, <2>2, <3>1, <3>2, <3>3, <3>4, <3>5
<1>2. /\ s \in ThreadTodos => t \in ThreadTodos
      /\ s \in IsrTodos => t \in IsrTodos
  BY Different DEF Move, ThreadTodos, IsrTodos, Shared, Marking, Rearming
<1>3. \A q \in Core0Todos : Owed(q) \in {0, 1}
  BY DEF Owed
<1>4. /\ Owed(InitSteps) = 1 /\ Owed(IfLow) = 1 /\ Owed(AckFall) = 1
      /\ Owed(QueueParseInterrupt) = 1 /\ Owed(MarkAndQueue) = 1
      /\ Owed(Mark3) = 1 /\ Owed(Mark2) = 1 /\ Owed(Mark1) = 1
      /\ Owed(<<>>) = 0 /\ Owed(RearmIfHigh) = 0 /\ Owed(AckRise) = 0
      /\ Owed(RearmAssertIrq) = 0 /\ Owed(Rearm2) = 0 /\ Owed(Rearm1) = 0
  BY Different DEF Owed, Marking, ThreadTodos, IsrTodos, Shared, Rearming
<1>5. \/ Owed(t) <= Owed(s) /\ queued' = queued /\ latched' \subseteq latched
      \/ /\ Owed(t) + 1 = Owed(s) /\ queued' = queued + 1
         /\ latched' = latched
  BY <1>3, <1>4 DEF Move, Keep, Listen, Pending, Unlatch
<1>6. (IF "fall" \in latched' THEN 1 ELSE 0) <= (IF "fall" \in latched THEN 1 ELSE 0)
  BY <1>5
<1>. QED
  BY <1>1, <1>2, <1>3, <1>5, <1>6

(***************************************************************************)
(* What such a step does to the listening core 0: row by row of Move.      *)
(***************************************************************************)
LEMMA MoveListens ==
    ASSUME Types, NEW s \in Core0Todos, NEW t \in Core0Todos, Move(s, t),
           Listens(s), PendingFits(s)
    PROVE  Listens(t)' /\ PendingFits(t)'
<1>0. /\ enabled \in [Cores -> SUBSET Edges] /\ 0 \in Cores
      /\ bq27742_g1_interrupt_pending \in BOOLEAN
  BY DEF Types, Cores
<1>1. ASSUME NEW edge, NEW on \in BOOLEAN, Listen(edge, on)
      PROVE  /\ enabled'[0] = IF on THEN enabled[0] \cup {edge}
                                    ELSE enabled[0] \ {edge}
             /\ bq27742_g1_interrupt_pending' = bq27742_g1_interrupt_pending
  BY <1>0, <1>1 DEF Listen
<1>2. /\ \A q \in Core0Todos \ {InitSteps, Mark2, Mark1, Rearm1} :
             /\ Listens(q) <=> enabled[0] \in {{"fall"}, {"rise"}}
             /\ Listens(q)' <=> enabled'[0] \in {{"fall"}, {"rise"}}
      /\ Listens(InitSteps) => enabled[0] = {}
      /\ Listens(Mark2) => enabled[0] \in {{}, {"rise"}}
      /\ enabled'[0] \in {{}, {"rise"}} => Listens(Mark2)'
      /\ Listens(Mark1) => enabled[0] = {"rise"}
      /\ enabled'[0] = {"rise"} => Listens(Mark1)'
      /\ Listens(Rearm1) => enabled[0] \in {{}, {"fall"}}
      /\ enabled'[0] \in {{}, {"fall"}} => Listens(Rearm1)'
  BY Different DEF Listens, Core0Todos, ThreadTodos, IsrTodos, Shared, Marking, Rearming
<1>3. /\ {<<>>, IfLow, QueueParseInterrupt, RearmIfHigh, AckFall, AckRise,
          MarkAndQueue, Mark3, RearmAssertIrq, Rearm2}
             \subseteq Core0Todos \ {InitSteps, Mark2, Mark1, Rearm1}
      /\ Mark1 \notin {Mark3, Mark2, Rearm2, Rearm1}
  BY Different DEF Core0Todos, ThreadTodos, IsrTodos, Shared, Marking, Rearming
<1>4. CASE /\ s \in {<<>>, IfLow, QueueParseInterrupt, RearmIfHigh, AckFall, AckRise,
                     Mark1}
           /\ t \in {<<>>, QueueParseInterrupt, RearmIfHigh, MarkAndQueue,
                     RearmAssertIrq}
           /\ UNCHANGED <<enabled, bq27742_g1_interrupt_pending>>
  <2>1. enabled[0] \in {{"fall"}, {"rise"}}
    BY <1>2, <1>3, <1>4
  <2>2. bq27742_g1_interrupt_pending => enabled[0] = {"rise"}
    BY <1>4, Different DEF PendingFits, Marking, Rearming, IsrTodos, ThreadTodos, Shared
  <2>3. t \notin {Rearm2, Rearm1}
    BY <1>4, Different DEF Marking, Rearming
  <2>. QED
    BY <1>2, <1>3, <1>4, <2>1, <2>2, <2>3 DEF PendingFits
<1>5. CASE s = InitSteps /\ t = IfLow /\ Listen("fall", TRUE)
  <2>1. enabled[0] = {} /\ enabled'[0] = {"fall"}
    BY <1>1, <1>2, <1>5
  <2>2. ~bq27742_g1_interrupt_pending'
    BY <1>1, <1>5, <2>1, Different DEF PendingFits, IsrTodos, Shared, Marking
  <2>. QED
    BY <1>2, <1>3, <1>5, <2>1, <2>2 DEF PendingFits
<1>6. CASE s = MarkAndQueue /\ t = Mark3 /\ Pending(TRUE)
  BY <1>2, <1>3, <1>6, Different DEF PendingFits, Pending, Rearming
<1>7. CASE s = Mark3 /\ t = Mark2 /\ Listen("fall", FALSE)
  <2>1. enabled'[0] \in {{}, {"rise"}}
    BY <1>1, <1>2, <1>3, <1>7
  <2>. QED
    BY <1>2, <1>7, <2>1, Different DEF PendingFits, Rearming
<1>8. CASE s = Mark2 /\ t = Mark1 /\ Listen("rise", TRUE)
  <2>1. enabled'[0] = {"rise"}
    BY <1>1, <1>2, <1>8
  <2>. QED
    BY <1>2, <1>3, <1>8, <2>1 DEF PendingFits
<1>9. CASE s = RearmAssertIrq /\ t = Rearm2 /\ Pending(FALSE)
  BY <1>2, <1>3, <1>9 DEF PendingFits, Pending
<1>10. CASE s = Rearm2 /\ t = Rearm1 /\ Listen("rise", FALSE)
  <2>1. enabled'[0] \in {{}, {"fall"}} /\ ~bq27742_g1_interrupt_pending'
    BY <1>1, <1>2, <1>3, <1>10 DEF PendingFits
  <2>. QED
    BY <1>2, <1>10, <2>1 DEF PendingFits
<1>11. CASE s = Rearm1 /\ t = <<>> /\ Listen("fall", TRUE)
  <2>1. enabled'[0] = {"fall"} /\ ~bq27742_g1_interrupt_pending'
    BY <1>1, <1>2, <1>11 DEF PendingFits
  <2>. QED
    BY <1>2, <1>3, <1>11, <2>1 DEF PendingFits
<1>. QED
  BY <1>4, <1>5, <1>6, <1>7, <1>8, <1>9, <1>10, <1>11 DEF Move, Keep, Unlatch

\* ... and to an alarm that is due.
LEMMA MoveCarries ==
    ASSUME Types, NEW s \in Core0Todos, NEW t \in Core0Todos, Move(s, t), due'
    PROVE  /\ due
           /\ "fall" \in latched \cap enabled[0] =>
                \/ "fall" \in latched' \cap enabled'[0]
                \/ s = AckFall /\ t = QueueParseInterrupt
                \/ t \in Marking
           /\ s \in Marking => t \in Marking \/ queued' > 0
           /\ s = AckFall => t = QueueParseInterrupt
           /\ s = QueueParseInterrupt /\ ~bq27742_g1_interrupt_pending =>
                t \in Marking
           /\ queued > 0 => queued' > 0
<1>0. /\ enabled \in [Cores -> SUBSET Edges] /\ 0 \in Cores
      /\ queued \in Nat
  BY DEF Types, Cores
<1>1. due
  BY DEF Move, Keep, Listen, Pending, Unlatch
<1>2. queued' \in {queued, queued + 1}
  BY DEF Move, Keep, Listen, Pending, Unlatch
<1>3. ASSUME NEW edge \in Edges, NEW on \in BOOLEAN, Listen(edge, on),
             "fall" \in latched \cap enabled[0]
      PROVE  \/ "fall" \in latched' \cap enabled'[0]
             \/ edge = "fall" /\ ~on
  <2>1. /\ latched' = latched \ {edge}
        /\ enabled'[0] = IF on THEN enabled[0] \cup {edge} ELSE enabled[0] \ {edge}
        /\ ~(edge = "fall" /\ on)
    BY <1>0, <1>3 DEF Listen
  <2>. QED
    BY <1>3, <2>1 DEF Edges
<1>4. ASSUME "fall" \in latched \cap enabled[0]
      PROVE  \/ "fall" \in latched' \cap enabled'[0]
             \/ s = AckFall /\ t = QueueParseInterrupt
             \/ t \in Marking
  <2>1. \/ UNCHANGED <<latched, enabled>>
        \/ Listen("rise", TRUE) \/ Listen("rise", FALSE) \/ Listen("fall", TRUE)
        \/ latched' = latched \ {"rise"} /\ enabled' = enabled
        \/ s = AckFall /\ t = QueueParseInterrupt
        \/ t = Mark2
    BY DEF Move, Keep, Pending, Unlatch
  <2>. QED
    BY <1>3, <1>4, <2>1 DEF Edges, Marking
<1>5. s \in Marking => t \in Marking \/ queued' = queued + 1
  <2>1. CASE s = MarkAndQueue \/ s = Mark3 \/ s = Mark2
    BY <2>1, Different DEF Move, Marking, Rearming, IsrTodos, ThreadTodos, Shared
  <2>2. CASE s = Mark1
    BY <2>2, Different DEF Move, Marking, Rearming, IsrTodos, ThreadTodos, Shared
  <2>. QED
    BY <2>1, <2>2 DEF Marking
<1>6. s = AckFall => t = QueueParseInterrupt
  BY Different DEF Move, IsrTodos, ThreadTodos, Shared, Marking, Rearming
<1>7. s = QueueParseInterrupt /\ ~bq27742_g1_interrupt_pending => t \in Marking
  BY Different DEF Move, IsrTodos, ThreadTodos, Shared, Marking, Rearming
<1>. QED
  BY <1>0, <1>1, <1>2, <1>4, <1>5, <1>6, <1>7

-----------------------------------------------------------------------------
(* Core 0's steps. *)

Core0Driver(x) == DriverStep(x) \/ IfLowQueue(x) \/ Acknowledge(x)

LEMMA Core0Runs ==
    ASSUME NEW x \in Contexts, Core0Driver(x)
    PROVE  Runs(x) /\ todo[x] # <<>>
BY DEF Core0Driver, DriverStep, IfLowQueue, Acknowledge, TestPending, SetPending,
       SetIrqEnabled, TryAdd, Refused, GetPin, At

\* The thread does its own: what the interrupt had to do is done.
LEMMA ThreadMoves ==
    ASSUME Types, Todos, Core0Driver("thread")
    PROVE  /\ todo["isr"] = <<>>
           /\ \E t \in ThreadTodos : /\ todo' = [todo EXCEPT !["thread"] = t]
                                    /\ Move(todo["thread"], t)
           /\ UNCHANGED <<pin, cause, falls, raced>>
           /\ refusals' \in 0..MaxRefusals
<1>. DEFINE s == todo["thread"]
<1>1. todo["isr"] = <<>> /\ s # <<>>
  BY Core0Runs DEF Runs, Contexts
<1>2. /\ s \in Core0Todos \ {<<>>} /\ s \in ThreadTodos
      /\ <<>> \in Endings /\ s = s \o <<>>
      /\ todo \in [Contexts -> Seq(Steps)]
  BY <1>1, TodosAreSequences DEF Todos, Core0Todos, Endings
<1>3. /\ \E t \in Core0Todos : /\ todo' = [todo EXCEPT !["thread"] = t \o <<>>]
                               /\ Move(s, t)
      /\ UNCHANGED <<pin, cause, falls, raced>>
      /\ \/ refusals' = refusals
         \/ refusals < MaxRefusals /\ refusals' = refusals + 1
  BY <1>2, Core0Moves DEF Core0Driver
<1>4. PICK t \in Core0Todos : /\ todo' = [todo EXCEPT !["thread"] = t \o <<>>]
                             /\ Move(s, t)
  BY <1>3
<1>5. t \o <<>> = t
  BY TodosAreSequences
<1>6. t \in ThreadTodos
  BY <1>2, <1>4, MoveCounts DEF Types
<1>7. refusals' \in 0..MaxRefusals
  BY <1>3, BQ27742Assumption DEF Types
<1>. QED
  BY <1>1, <1>3, <1>4, <1>5, <1>6, <1>7

\* The interrupt does its first half, or its second.
LEMMA IsrMoves ==
    ASSUME Types, Todos, Core0Driver("isr")
    PROVE  /\ \E s \in IsrTodos, t \in IsrTodos, u \in Endings :
                  /\ Counted(s)
                  /\ todo' = [todo EXCEPT !["isr"] = t \o u]
                  /\ Move(s, t)
           /\ todo["isr"] \in IsrTodos =>
                  \E t \in IsrTodos : /\ todo' = [todo EXCEPT !["isr"] = t]
                                     /\ Move(todo["isr"], t)
           /\ UNCHANGED <<pin, cause, falls, raced>>
           /\ refusals' \in 0..MaxRefusals
<1>1. todo["isr"] # <<>> /\ todo \in [Contexts -> Seq(Steps)]
  BY Core0Runs DEF Contexts, Todos
<1>2. PICK s \in IsrTodos \ {<<>>}, u \in Endings :
          todo["isr"] = s \o u /\ Counted(s)
  <2>1. PICK s0 \in IsrTodos, u0 \in Endings :
            todo["isr"] = s0 \o u0 /\ Counted(s0)
    BY DEF Todos
  <2>2. CASE s0 # <<>>
    BY <2>1, <2>2
  <2>3. CASE s0 = <<>>
    <3>1. u0 = AckRise
      BY <1>1, <2>1, <2>3 DEF Endings
    <3>2. AckRise = <<>> \o AckRise /\ AckRise = AckRise \o <<>>
      BY TodosAreSequences DEF Endings
    <3>3. Owed(AckRise) = Owed(<<>>)
      BY Different DEF Owed, ThreadTodos, IsrTodos, Shared, Marking
    <3>4. AckRise \in IsrTodos \ {<<>>} /\ <<>> \in Endings
      BY Different DEF IsrTodos, Endings, ThreadTodos, Shared
    <3>5. Counted(AckRise)
      BY <2>1, <2>3, <3>3 DEF Counted
    <3>. QED
      BY <2>1, <2>3, <3>1, <3>2, <3>4, <3>5
  <2>. QED
    BY <2>2, <2>3
<1>3. /\ \E t \in Core0Todos : /\ todo' = [todo EXCEPT !["isr"] = t \o u]
                               /\ Move(s, t)
      /\ UNCHANGED <<pin, cause, falls, raced>>
      /\ \/ refusals' = refusals
         \/ refusals < MaxRefusals /\ refusals' = refusals + 1
  BY <1>1, <1>2, Core0Moves DEF Core0Driver, Core0Todos
<1>4. PICK t \in Core0Todos : /\ todo' = [todo EXCEPT !["isr"] = t \o u]
                             /\ Move(s, t)
  BY <1>3
<1>5. t \in IsrTodos
  BY <1>2, <1>4, MoveCounts DEF Types, Core0Todos
<1>6. ASSUME todo["isr"] \in IsrTodos
      PROVE  \E q \in IsrTodos : /\ todo' = [todo EXCEPT !["isr"] = q]
                                /\ Move(todo["isr"], q)
  <2>1. /\ todo["isr"] \in Core0Todos \ {<<>>}
        /\ <<>> \in Endings /\ todo["isr"] = todo["isr"] \o <<>>
    BY <1>1, <1>6, TodosAreSequences DEF Core0Todos, Endings
  <2>2. PICK q \in Core0Todos : /\ todo' = [todo EXCEPT !["isr"] = q \o <<>>]
                               /\ Move(todo["isr"], q)
    BY <1>1, <2>1, Core0Moves DEF Core0Driver
  <2>3. q \o <<>> = q
    BY TodosAreSequences
  <2>4. q \in IsrTodos
    BY <1>6, <2>1, <2>2, MoveCounts DEF Types
  <2>. QED
    BY <2>2, <2>3, <2>4
<1>7. refusals' \in 0..MaxRefusals
  BY <1>3, BQ27742Assumption DEF Types
<1>. QED
  BY <1>2, <1>3, <1>4, <1>5, <1>6, <1>7

LEMMA ThreadKeeps ==
    ASSUME PinInv, Core0Driver("thread")
    PROVE  PinInv'
<1>. DEFINE s == todo["thread"]
<1>0. Types /\ Todos /\ s \in ThreadTodos /\ s \in Core0Todos
  BY DEF PinInv, Todos, Core0Todos
<1>1. /\ todo["isr"] = <<>>
      /\ UNCHANGED <<pin, cause, falls, raced>>
      /\ refusals' \in 0..MaxRefusals
  BY <1>0, ThreadMoves
<1>2. PICK t \in ThreadTodos : /\ todo' = [todo EXCEPT !["thread"] = t]
                              /\ Move(s, t)
  BY <1>0, ThreadMoves
<1>3. t \in Core0Todos /\ t \in Seq(Steps)
  BY TodosAreSequences DEF Core0Todos
<1>4. /\ todo' \in [Contexts -> Seq(Steps)]
      /\ todo'["thread"] = t
      /\ todo'["isr"] = <<>>
      /\ todo'["core1"] = todo["core1"]
  BY <1>0, <1>1, <1>2, <1>3 DEF Todos, Contexts
<1>5. /\ latched' \subseteq Edges
      /\ enabled' \in [Cores -> SUBSET Edges]
      /\ bq27742_g1_interrupt_pending' \in BOOLEAN
      /\ queued' \in Nat
      /\ due' \in BOOLEAN
      /\ queued' + Owed(t) + (IF "fall" \in latched' THEN 1 ELSE 0)
           <= queued + Owed(s) + (IF "fall" \in latched THEN 1 ELSE 0)
  BY <1>0, <1>2, <1>3, MoveCounts DEF Types
<1>6. Types'
  BY <1>0, <1>1, <1>5 DEF Types
<1>7. Todos'
  <2>1. PICK s0 \in IsrTodos, u0 \in Endings :
            todo["isr"] = s0 \o u0 /\ Counted(s0)
    BY <1>0 DEF Todos
  <2>2. Owed(s) \in {0, 1} /\ Owed(t) \in {0, 1} /\ Owed(s0) \in {0, 1}
    BY DEF Owed
  <2>3. PICK l \in {0, 1}, m \in {0, 1} :
            /\ l = (IF "fall" \in latched THEN 1 ELSE 0)
            /\ m = (IF "fall" \in latched' THEN 1 ELSE 0)
    OBVIOUS
  <2>4. queued + Owed(s) + Owed(s0) + l <= falls + 1
    BY <2>1, <2>3 DEF Counted
  <2>5. queued' + Owed(t) + Owed(s0) + m <= falls + 1
    <3>. HIDE DEF s
    <3>. QED
      BY <1>0, <1>5, <2>2, <2>3, <2>4 DEF Types
  <2>6. Counted(s0)'
    BY <1>1, <1>4, <2>3, <2>5 DEF Counted
  <2>. QED
    BY <1>0, <1>1, <1>4, <2>1, <2>6 DEF Todos
<1>8. ASSUME ~raced
      PROVE  OneAtATime'
  <2>1. Listens(s) /\ PendingFits(s)
    BY <1>1, <1>8 DEF PinInv, OneAtATime, Doing
  <2>2. Listens(t)' /\ PendingFits(t)'
    BY <1>0, <1>2, <1>3, <2>1, MoveListens
  <2>3. Doing' = t
    BY <1>4 DEF Doing
  <2>4. <<>> \in IsrTodos /\ <<>> \notin {AckFall, QueueParseInterrupt}
    BY Different DEF IsrTodos, ThreadTodos, Shared
  <2>. QED
    BY <1>4, <2>2, <2>3, <2>4 DEF OneAtATime, Listens, PendingFits, TakesFall
<1>9. ASSUME ~raced, due'
      PROVE  Carried'
  <2>1. /\ due
        /\ "fall" \in latched \cap enabled[0] =>
             \/ "fall" \in latched' \cap enabled'[0]
             \/ s = AckFall /\ t = QueueParseInterrupt
             \/ t \in Marking
        /\ s \in Marking => t \in Marking \/ queued' > 0
        /\ queued > 0 => queued' > 0
    BY <1>0, <1>2, <1>3, <1>9, MoveCarries
  <2>2. Carried
    BY <1>9, <2>1 DEF PinInv
  <2>3. /\ s # AckFall
        /\ <<>> \notin {AckFall, QueueParseInterrupt} \cup Marking
    BY <1>0, Different DEF Marking, ThreadTodos, Shared, Rearming
  <2>. QED
    BY <1>1, <1>4, <2>1, <2>2, <2>3 DEF Carried
<1>. QED
  BY <1>1, <1>6, <1>7, <1>8, <1>9 DEF PinInv

LEMMA IsrKeeps ==
    ASSUME PinInv, Core0Driver("isr")
    PROVE  PinInv'
<1>0. Types /\ Todos /\ todo["isr"] # <<>>
  BY Core0Runs DEF PinInv, Contexts
<1>1. UNCHANGED <<pin, cause, falls, raced>> /\ refusals' \in 0..MaxRefusals
  BY <1>0, IsrMoves
<1>2. PICK s \in IsrTodos, t \in IsrTodos, u \in Endings :
          /\ Counted(s)
          /\ todo' = [todo EXCEPT !["isr"] = t \o u]
          /\ Move(s, t)
  BY <1>0, IsrMoves
<1>3. /\ s \in Core0Todos /\ t \in Core0Todos
      /\ t \in Seq(Steps) /\ u \in Seq(Steps)
  BY TodosAreSequences DEF Core0Todos
<1>4. /\ todo' \in [Contexts -> Seq(Steps)]
      /\ todo'["isr"] = t \o u
      /\ todo'["thread"] = todo["thread"]
      /\ todo'["core1"] = todo["core1"]
  BY <1>0, <1>2, <1>3 DEF Todos, Contexts
<1>5. /\ latched' \subseteq Edges
      /\ enabled' \in [Cores -> SUBSET Edges]
      /\ bq27742_g1_interrupt_pending' \in BOOLEAN
      /\ queued' \in Nat
      /\ due' \in BOOLEAN
      /\ queued' + Owed(t) + (IF "fall" \in latched' THEN 1 ELSE 0)
           <= queued + Owed(s) + (IF "fall" \in latched THEN 1 ELSE 0)
  BY <1>0, <1>2, <1>3, MoveCounts DEF Types
<1>6. Types'
  BY <1>0, <1>1, <1>5 DEF Types
<1>7. Todos'
  <2>1. /\ Owed(s) \in {0, 1} /\ Owed(t) \in {0, 1}
        /\ Owed(todo["thread"]) \in {0, 1}
    BY DEF Owed
  <2>2. PICK l \in {0, 1}, m \in {0, 1} :
            /\ l = (IF "fall" \in latched THEN 1 ELSE 0)
            /\ m = (IF "fall" \in latched' THEN 1 ELSE 0)
    OBVIOUS
  <2>3. PICK k \in {0, 1}, i \in {0, 1}, j \in {0, 1} :
            k = Owed(todo["thread"]) /\ i = Owed(s) /\ j = Owed(t)
    BY <2>1
  <2>4. queued + k + i + l <= falls + 1
    BY <1>2, <2>2, <2>3 DEF Counted
  <2>5. queued' + j + m <= queued + i + l
    BY <1>5, <2>2, <2>3
  <2>6. queued \in Nat /\ queued' \in Nat /\ falls \in Nat
    BY <1>0, <1>5, BQ27742Assumption DEF Types
  <2>7. queued' + k + j + m <= falls + 1
    <3>1. \A p, q, f \in Nat, e, g, h, n, o \in {0, 1} :
              q + e + g + h <= f + 1 /\ p + n + o <= q + g + h
                  => p + e + n + o <= f + 1
      OBVIOUS
    <3>. QED
      BY <2>4, <2>5, <2>6, <3>1
  <2>8. Counted(t)'
    BY <1>1, <1>4, <2>2, <2>3, <2>7 DEF Counted
  <2>. QED
    BY <1>0, <1>4, <2>8 DEF Todos
<1>8. ASSUME ~raced
      PROVE  OneAtATime' /\ (due' => Carried')
  <2>. DEFINE a == todo["isr"]
  <2>1. /\ OneAtATime /\ a \in IsrTodos /\ a \in Core0Todos
        /\ todo["thread"] \in Waiting
        /\ Listens(a) /\ PendingFits(a) /\ TakesFall(a)
    BY <1>0, <1>8 DEF PinInv, OneAtATime, Doing, Core0Todos
  <2>2. PICK b \in IsrTodos : /\ todo' = [todo EXCEPT !["isr"] = b]
                             /\ Move(a, b)
    BY <1>0, <2>1, IsrMoves
  <2>3. /\ todo'["isr"] = b /\ b \in Core0Todos
    BY <1>0, <2>2 DEF Todos, Contexts, Core0Todos
  <2>4. Listens(b)' /\ PendingFits(b)'
    BY <1>0, <2>1, <2>2, <2>3, MoveListens
  <2>5. TakesFall(b)'
    <3>1. b \in {AckFall, QueueParseInterrupt} =>
              a = AckFall /\ enabled' = enabled
      BY <2>1, <2>2, Different
         DEF Move, Unlatch, IsrTodos, ThreadTodos, Shared, Marking, Rearming
    <3>. QED
      BY <2>1, <3>1 DEF TakesFall
  <2>6. OneAtATime'
    <3>1. CASE b # <<>>
      <4>1. Doing' = b
        BY <2>3, <3>1 DEF Doing
      <4>. QED
        BY <1>4, <2>1, <2>3, <2>4, <2>5, <4>1
           DEF OneAtATime, Listens, PendingFits, TakesFall
    <3>2. CASE b = <<>>
      <4>1. Doing' = todo["thread"]
        BY <1>4, <2>3, <3>2 DEF Doing
      <4>2. todo["thread"] \notin {InitSteps, Mark3, Mark2, Mark1, Rearm2, Rearm1}
        BY <2>1, Different
           DEF Waiting, IsrTodos, ThreadTodos, Shared, Marking, Rearming
      <4>3. <<>> \notin {InitSteps, Mark3, Mark2, Mark1, Rearm2, Rearm1}
        BY Different DEF IsrTodos, ThreadTodos, Shared, Marking, Rearming
      <4>4. Listens(todo["thread"])' /\ PendingFits(todo["thread"])'
        BY <1>4, <2>4, <3>2, <4>2, <4>3 DEF Listens, PendingFits
      <4>. QED
        BY <1>4, <2>3, <2>5, <3>2, <4>1, <4>4
           DEF OneAtATime, Listens, PendingFits, TakesFall
    <3>. QED
      BY <3>1, <3>2
  <2>7. ASSUME due'
        PROVE  Carried'
    <3>1. /\ due
          /\ "fall" \in latched \cap enabled[0] =>
               \/ "fall" \in latched' \cap enabled'[0]
               \/ a = AckFall /\ b = QueueParseInterrupt
               \/ b \in Marking
          /\ a \in Marking => b \in Marking \/ queued' > 0
          /\ a = AckFall => b = QueueParseInterrupt
          /\ a = QueueParseInterrupt /\ ~bq27742_g1_interrupt_pending =>
               b \in Marking
          /\ queued > 0 => queued' > 0
      BY <1>0, <2>1, <2>2, <2>3, <2>7, MoveCarries
    <3>2. Carried
      BY <1>8, <3>1 DEF PinInv
    <3>3. a = QueueParseInterrupt => ~bq27742_g1_interrupt_pending
      BY <2>1, Different DEF TakesFall, PendingFits, Marking
    <3>. QED
      BY <1>4, <2>3, <3>1, <3>2, <3>3 DEF Carried
  <2>. QED
    BY <2>6, <2>7
<1>. QED
  BY <1>1, <1>6, <1>7, <1>8 DEF PinInv

\* The SDK's handler takes the latched edges core 0 listens for; while core 0
\* does one thing at a time that is one edge, and nothing else is half done.
LEMMA TakeKeeps ==
    ASSUME PinInv, IsrTake
    PROVE  PinInv'
<1>. DEFINE events == latched \cap enabled[0]
            w == todo["thread"]
<1>0. Types /\ Todos
  BY DEF PinInv
<1>1. /\ events \in {{"fall"}, {"rise"}, {"fall", "rise"}}
      /\ latched' = latched \ events
      /\ todo["isr"] = <<>>
      /\ todo' = [todo EXCEPT !["isr"] = OnInterrupt(events)]
      /\ raced' = (raced \/ Midway)
      /\ UNCHANGED <<pin, cause, enabled, bq27742_g1_interrupt_pending, queued,
                     falls, refusals, due>>
  BY <1>0 DEF IsrTake, Types, Edges, Cores
<1>2. PICK s \in {<<>>, AckFall}, u \in Endings :
          /\ OnInterrupt(events) = s \o u
          /\ "fall" \in events <=> s = AckFall
          /\ events = {"fall"} => s \o u = AckFall
          /\ events = {"rise"} => s \o u = AckRise
  <2>1. /\ <<"ack_fall">> \o QueueParseInterrupt = AckFall
        /\ <<"ack_rise">> \o RearmIfHigh = AckRise
        /\ AckFall \o <<>> = AckFall /\ <<>> \o AckRise = AckRise
        /\ <<>> # AckFall
    <3>1. /\ <<"ack_fall">> \o QueueParseInterrupt = AckFall
          /\ <<"ack_rise">> \o RearmIfHigh = AckRise
      BY TwoSteps DEF QueueParseInterrupt, RearmIfHigh, AckFall, AckRise, Steps
    <3>2. AckFall \o <<>> = AckFall /\ <<>> \o AckRise = AckRise
      BY TodosAreSequences DEF Core0Todos, IsrTodos
    <3>3. <<>> # AckFall
      BY Different DEF ThreadTodos, Shared
    <3>. QED
      BY <3>1, <3>2, <3>3
  <2>. HIDE DEF events
  <2>2. OnInterrupt(events) = (IF "fall" \in events THEN AckFall ELSE <<>>)
                                 \o (IF "rise" \in events THEN AckRise ELSE <<>>)
    BY <2>1 DEF OnInterrupt
  <2>3. CASE events = {"fall"}
    BY <2>1, <2>2, <2>3 DEF Endings
  <2>4. CASE events = {"rise"}
    BY <2>1, <2>2, <2>4 DEF Endings
  <2>5. CASE events = {"fall", "rise"}
    BY <2>1, <2>2, <2>5 DEF Endings
  <2>. QED
    BY <1>1, <2>3, <2>4, <2>5
<1>3. /\ s \in IsrTodos /\ s \in Seq(Steps) /\ u \in Seq(Steps)
      /\ s \o u \in Seq(Steps)
  BY TodosAreSequences DEF Core0Todos, IsrTodos, Shared
<1>4. /\ todo' \in [Contexts -> Seq(Steps)]
      /\ todo'["isr"] = s \o u
      /\ todo'["thread"] = w
      /\ todo'["core1"] = todo["core1"]
  BY <1>0, <1>1, <1>2, <1>3 DEF Todos, Contexts
<1>5. Types'
  BY <1>0, <1>1 DEF Types
<1>6. Todos'
  <2>1. PICK k \in {0, 1}, l \in {0, 1}, m \in {0, 1}, i \in {0, 1} :
            /\ k = Owed(w) /\ i = Owed(s)
            /\ l = (IF "fall" \in latched THEN 1 ELSE 0)
            /\ m = (IF "fall" \in latched' THEN 1 ELSE 0)
    BY DEF Owed
  <2>2. queued \in Nat /\ falls \in Nat
    BY <1>0, BQ27742Assumption DEF Types
  <2>3. queued + k + l <= falls + 1
    <3>1. PICK s0 \in IsrTodos : Counted(s0)
      BY <1>0 DEF Todos
    <3>2. PICK n \in {0, 1} : n = Owed(s0)
      BY DEF Owed
    <3>3. queued + k + n + l <= falls + 1
      BY <2>1, <3>1, <3>2 DEF Counted
    <3>. QED
      BY <2>2, <3>3
  <2>4. i + m <= l
    <3>1. Owed(<<>>) = 0
      BY Different DEF Owed, IsrTodos, ThreadTodos, Shared, Marking
    <3>2. CASE "fall" \in events
      BY <1>1, <2>1, <3>2
    <3>3. CASE "fall" \notin events
      BY <1>1, <1>2, <2>1, <3>1, <3>3
    <3>. QED
      BY <3>2, <3>3
  <2>5. queued + k + i + m <= falls + 1
    BY <2>1, <2>2, <2>3, <2>4
  <2>6. Counted(s)'
    BY <1>1, <1>4, <2>1, <2>5 DEF Counted
  <2>. QED
    BY <1>0, <1>3, <1>4, <2>6 DEF Todos
<1>7. ASSUME ~raced'
      PROVE  OneAtATime' /\ (due' => Carried')
  <2>1. ~raced /\ ~Midway
    BY <1>0, <1>1, <1>7 DEF Types
  <2>2. w \in Waiting
    BY <1>0, <2>1, HeadsAndTails
       DEF Midway, Waiting, Todos, ThreadTodos, Shared, Marking, Rearming
  <2>3. Listens(w) /\ PendingFits(w)
    BY <1>1, <2>1 DEF PinInv, OneAtATime, Doing
  <2>4. w \notin {InitSteps, Mark3, Mark2, Mark1, Rearm2, Rearm1}
    BY <2>2, Different DEF Waiting, IsrTodos, ThreadTodos, Shared, Marking, Rearming
  <2>5. /\ enabled[0] \in {{"fall"}, {"rise"}}
        /\ bq27742_g1_interrupt_pending => enabled[0] = {"rise"}
    BY <2>3, <2>4 DEF Listens, PendingFits
  <2>6. \/ enabled[0] = {"fall"} /\ events = {"fall"} /\ todo'["isr"] = AckFall
        \/ enabled[0] = {"rise"} /\ events = {"rise"} /\ todo'["isr"] = AckRise
    BY <1>1, <1>2, <1>4, <2>5
  <2>7. /\ {AckFall, AckRise} \subseteq IsrTodos \ {<<>>}
        /\ {AckFall, AckRise} \cap {InitSteps, Mark3, Mark2, Mark1, Rearm2, Rearm1}
              = {}
        /\ AckRise \notin {AckFall, QueueParseInterrupt}
    BY Different DEF IsrTodos, ThreadTodos, Shared, Marking, Rearming
  <2>8. Doing' = todo'["isr"]
    BY <2>6, <2>7 DEF Doing
  <2>9. OneAtATime'
    BY <1>1, <1>4, <2>2, <2>5, <2>6, <2>7, <2>8
       DEF OneAtATime, Listens, PendingFits, TakesFall
  <2>10. ASSUME due'
         PROVE  Carried'
    <3>1. Carried
      BY <1>1, <2>1, <2>10 DEF PinInv
    <3>2. <<>> \notin {AckFall, QueueParseInterrupt} \cup Marking
      BY Different DEF IsrTodos, ThreadTodos, Shared, Marking, Rearming
    <3>. QED
      BY <1>1, <1>4, <2>6, <3>1, <3>2 DEF Carried
  <2>. QED
    BY <2>9, <2>10
<1>. QED
  BY <1>5, <1>6, <1>7 DEF PinInv

-----------------------------------------------------------------------------
(* Core 1's steps, the gauge's and the start. *)

\* What core 1 never does: it does not touch the edges core 0 listens for, sets
\* no pending flag, and lets go of an alarm that is due only by reading the flags
\* or where the re-arming loses it.
Core1Effect ==
    /\ Types'
    /\ todo' \in [Contexts -> Seq(Steps)]
    /\ todo'["core1"] \in Core1Todos
    /\ todo'["thread"] = todo["thread"] /\ todo'["isr"] = todo["isr"]
    /\ enabled'[0] = enabled[0]
    /\ bq27742_g1_interrupt_pending' => bq27742_g1_interrupt_pending
    /\ UNCHANGED <<falls, raced>>
    /\ "fall" \in latched' => "fall" \in latched
    /\ queued' <= queued
    /\ due' =>
          /\ due
          /\ "fall" \in latched \cap enabled[0] => "fall" \in latched'
          /\ \/ queued' = queued /\ todo["core1"] # <<"read_flags", "get_pin">>
             \/ todo'["core1"] = <<"read_flags", "get_pin">>

LEMMA Core1Keeps ==
    ASSUME PinInv, Core1Effect
    PROVE  PinInv'
<1>0. Types /\ Todos
  BY DEF PinInv
<1>1. Todos'
  <2>1. PICK s \in IsrTodos, u \in Endings :
            todo["isr"] = s \o u /\ Counted(s)
    BY <1>0 DEF Todos
  <2>2. PICK k \in {0, 1}, n \in {0, 1}, l \in {0, 1}, m \in {0, 1} :
            /\ k = Owed(todo["thread"]) /\ n = Owed(s)
            /\ l = (IF "fall" \in latched THEN 1 ELSE 0)
            /\ m = (IF "fall" \in latched' THEN 1 ELSE 0)
    BY DEF Owed
  <2>3. m <= l /\ queued' <= queued
    BY <2>2 DEF Core1Effect
  <2>4. queued + k + n + l <= falls + 1
    BY <2>1, <2>2 DEF Counted
  <2>5. queued \in Nat /\ queued' \in Nat /\ falls \in Nat
    BY <1>0, BQ27742Assumption DEF Core1Effect, Types
  <2>6. queued' + k + n + m <= falls + 1
    BY <2>2, <2>3, <2>4, <2>5
  <2>7. Counted(s)'
    BY <2>2, <2>6 DEF Counted, Core1Effect
  <2>. QED
    BY <1>0, <2>1, <2>7 DEF Todos, Core1Effect
<1>2. Doing' = Doing
  BY DEF Doing, Core1Effect
<1>3. ASSUME ~raced
      PROVE  OneAtATime'
  BY <1>0, <1>2, <1>3
     DEF PinInv, OneAtATime, Listens, PendingFits, TakesFall, Core1Effect
<1>4. ASSUME ~raced, due'
      PROVE  Carried'
  <2>1. Carried
    BY <1>4 DEF PinInv, Core1Effect
  <2>. QED
    BY <1>4, <2>1 DEF Carried, Core1Effect
<1>. QED
  BY <1>1, <1>3, <1>4 DEF PinInv, Core1Effect

LEMMA Core1HasEffect ==
    ASSUME PinInv, Core1Step
    PROVE  Core1Effect
<1>. DEFINE s == todo["core1"]
            Read == <<"read_flags", "get_pin">>
            Clear == <<"clear_imax", "get_pin">>
<1>0. /\ Types /\ todo \in [Contexts -> Seq(Steps)] /\ s \in Core1Todos
      /\ Core1Todos \subseteq Seq(Steps)
  BY TodosAreSequences DEF PinInv, Todos
<1>1. /\ s \in {<<>>, RearmIfHigh, Read, Clear, RearmAssertIrq, Rearm2, Rearm1}
      /\ {<<>>, RearmIfHigh, Read, Clear, RearmAssertIrq, Rearm2, Rearm1}
            \subseteq Core1Todos
  BY <1>0 DEF Core1Todos, Rearming
<1>2. /\ Head(Read) = "read_flags" /\ Tail(Read) = RearmIfHigh
      /\ Head(Clear) = "clear_imax" /\ Tail(Clear) = RearmIfHigh
  BY DEF RearmIfHigh
<1>3. \A step : At("core1", step) => Head(s) = step /\ s # <<>>
  BY DEF At
<1>4. ASSUME NEW t \in Core1Todos, todo' = [todo EXCEPT !["core1"] = t]
      PROVE  /\ todo' \in [Contexts -> Seq(Steps)]
             /\ todo'["core1"] = t
             /\ todo'["thread"] = todo["thread"] /\ todo'["isr"] = todo["isr"]
  BY <1>0, <1>4 DEF Contexts
<1>5. /\ Proceed("core1") => todo' = [todo EXCEPT !["core1"] = <<>> \o Tail(s)]
      /\ \A steps : Call("core1", steps) =>
                       todo' = [todo EXCEPT !["core1"] = steps \o Tail(s)]
  BY <1>0 DEF Proceed, Call, Contexts
<1>6. /\ \A t \in {<<>>, RearmIfHigh, Rearm2, Rearm1} : <<>> \o t = t
      /\ RearmAssertIrq \o <<>> = RearmAssertIrq
  BY <1>0, <1>1
<1>7. /\ enabled \in [Cores -> SUBSET Edges] /\ {0, 1} \subseteq Cores
      /\ latched \subseteq Edges /\ queued \in Nat
      /\ CoreOf("core1") = 1
  BY <1>0 DEF Types, Cores, CoreOf
<1>. HIDE DEF Read, Clear, s
<1>8. ASSUME NEW t \in Core1Todos, todo' = [todo EXCEPT !["core1"] = t],
             Types', enabled'[0] = enabled[0],
             bq27742_g1_interrupt_pending' => bq27742_g1_interrupt_pending,
             UNCHANGED <<queued, falls, raced>>,
             "fall" \in latched' => "fall" \in latched,
             due' => /\ due /\ s # Read
                     /\ "fall" \in latched \cap enabled[0] => "fall" \in latched'
      PROVE  Core1Effect
  <2>1. /\ todo' \in [Contexts -> Seq(Steps)]
        /\ todo'["core1"] \in Core1Todos
        /\ todo'["thread"] = todo["thread"] /\ todo'["isr"] = todo["isr"]
    BY <1>4, <1>8
  <2>2. queued' <= queued /\ queued' = queued
    BY <1>7, <1>8
  <2>3. s # Read <=> todo["core1"] # <<"read_flags", "get_pin">>
    BY DEF s, Read
  <2>. QED
    BY <1>8, <2>1, <2>2, <2>3 DEF Core1Effect
<1>9. CASE Core1Pop
  <2>1. /\ queued \in Nat \ {0} /\ queued' = queued - 1
        /\ todo' = [todo EXCEPT !["core1"] = ParseInterruptVals]
        /\ UNCHANGED <<pin, cause, latched, enabled, bq27742_g1_interrupt_pending,
                       falls, refusals, raced, due>>
    BY <1>7, <1>9 DEF Core1Pop
  <2>2. ParseInterruptVals = Read
    BY TwoSteps DEF ParseInterruptVals, RearmIfHigh, Read, Steps
  <2>3. todo'["core1"] = Read /\ Read \in Core1Todos
    BY <1>1, <1>4, <2>1, <2>2
  <2>4. queued' \in Nat /\ queued' <= queued
    BY <2>1
  <2>5. Types'
    BY <1>0, <2>1, <2>4 DEF Types
  <2>. QED
    BY <1>4, <2>1, <2>2, <2>3, <2>4, <2>5 DEF Core1Effect, Read
<1>10. ASSUME NEW step \in {"set_pending", "clear_pending"},
              At("core1", step), Proceed("core1"),
              bq27742_g1_interrupt_pending' = (step = "set_pending"),
              UNCHANGED <<pin, cause, latched, enabled, queued, falls, refusals,
                          raced, due>>
       PROVE  Core1Effect
  <2>1. s = RearmAssertIrq /\ step = "clear_pending"
    <3>1. Head(s) \in {"set_pending", "clear_pending"} /\ s # <<>>
      BY <1>3, <1>10
    <3>2. s = RearmAssertIrq
      BY <1>1, <1>2, <3>1, HeadsAndTails
    <3>3. Head(s) = step
      BY <1>3, <1>10
    <3>. QED
      BY <3>2, <3>3, HeadsAndTails
  <2>2. todo' = [todo EXCEPT !["core1"] = Rearm2]
    BY <1>5, <1>6, <1>10, <2>1, HeadsAndTails
  <2>3. s # Read /\ Rearm2 \in Core1Todos
    BY <1>1, <1>2, <2>1, HeadsAndTails
  <2>4. Types' /\ ~bq27742_g1_interrupt_pending'
    BY <1>0, <1>10, <2>1 DEF Types
  <2>. QED
    BY <1>8, <1>10, <2>2, <2>3, <2>4
<1>11. ASSUME NEW edge \in Edges, NEW on \in BOOLEAN,
              SetIrqEnabled("core1", edge, on)
       PROVE  Core1Effect
  <2>1. /\ latched' = latched \ {edge}
        /\ enabled' = [enabled EXCEPT ![1] = IF on THEN @ \cup {edge}
                                                  ELSE @ \ {edge}]
        /\ due' = (due /\ ~(edge = "fall" /\ on /\ "fall" \in latched))
        /\ Proceed("core1")
        /\ UNCHANGED <<pin, cause, bq27742_g1_interrupt_pending, queued, falls,
                       refusals, raced>>
    BY <1>7, <1>11 DEF SetIrqEnabled
  <2>2. At("core1", CASE edge = "fall" /\ on  -> "fall_on"
                      [] edge = "fall" /\ ~on -> "fall_off"
                      [] edge = "rise" /\ on  -> "rise_on"
                      [] edge = "rise" /\ ~on -> "rise_off")
    BY <1>11 DEF SetIrqEnabled
  <2>3. \/ s = Rearm2 /\ edge = "rise" /\ ~on
        \/ s = Rearm1 /\ edge = "fall" /\ on
    <3>1. Head(s) = (CASE edge = "fall" /\ on  -> "fall_on"
                       [] edge = "fall" /\ ~on -> "fall_off"
                       [] edge = "rise" /\ on  -> "rise_on"
                       [] edge = "rise" /\ ~on -> "rise_off") /\ s # <<>>
      BY <1>3, <2>2
    <3>. QED
      BY <1>1, <1>2, <3>1, HeadsAndTails DEF Edges
  <2>4. PICK t \in {Rearm1, <<>>} : todo' = [todo EXCEPT !["core1"] = t]
    <3>1. CASE s = Rearm2
      <4>1. <<>> \o Tail(s) = Rearm1
        BY <1>6, <3>1, HeadsAndTails
      <4>. QED
        BY <1>5, <2>1, <4>1
    <3>2. CASE s = Rearm1
      <4>1. <<>> \o Tail(s) = <<>>
        BY <1>6, <3>2, HeadsAndTails
      <4>. QED
        BY <1>5, <2>1, <4>1
    <3>. QED
      BY <2>3, <3>1, <3>2
  <2>5. s # Read /\ t \in Core1Todos
    BY <1>1, <1>2, <2>3, HeadsAndTails
  <2>6. /\ enabled' \in [Cores -> SUBSET Edges]
        /\ enabled'[0] = enabled[0]
    <3>1. (IF on THEN enabled[1] \cup {edge} ELSE enabled[1] \ {edge})
              \in SUBSET Edges
      BY <1>7
    <3>. QED
      BY <1>7, <2>1, <3>1
  <2>7. due' \in BOOLEAN /\ latched' \subseteq Edges
    BY <1>7, <2>1
  <2>8. Types'
    BY <1>0, <2>1, <2>6, <2>7 DEF Types
  <2>9. due' => due /\ ("fall" \in latched => "fall" \in latched')
    BY <2>1, <2>3
  <2>. QED
    BY <1>8, <2>1, <2>4, <2>5, <2>6, <2>8, <2>9
<1>12. CASE GetPin("core1")
  <2>1. s = RearmIfHigh
    BY <1>1, <1>2, <1>3, <1>12, HeadsAndTails DEF GetPin
  <2>2. PICK t \in {RearmAssertIrq, <<>>} : todo' = [todo EXCEPT !["core1"] = t]
    <3>1. PICK t \in {RearmAssertIrq, <<>>} : Call("core1", t)
      BY <1>12 DEF GetPin
    <3>2. t \o Tail(s) = t
      BY <1>6, <2>1, <3>1, HeadsAndTails
    <3>. QED
      BY <1>5, <3>1, <3>2
  <2>3. s # Read /\ t \in Core1Todos
    BY <1>1, <1>2, <2>1, HeadsAndTails
  <2>4. UNCHANGED <<pin, cause, latched, enabled, bq27742_g1_interrupt_pending,
                    queued, falls, refusals, raced, due>>
    BY <1>12 DEF GetPin
  <2>5. Types'
    BY <1>0, <2>4 DEF Types
  <2>. QED
    BY <1>8, <2>2, <2>3, <2>4, <2>5
<1>13. CASE ReadFlags("core1")
  <2>1. s = Read
    BY <1>1, <1>2, <1>3, <1>13, HeadsAndTails DEF ReadFlags
  <2>2. PICK t \in {Clear, RearmIfHigh} : todo' = [todo EXCEPT !["core1"] = t]
    <3>1. /\ <<"clear_imax">> \o RearmIfHigh = Clear
          /\ <<>> \o RearmIfHigh = RearmIfHigh
      BY <1>6, TwoSteps DEF RearmIfHigh, Clear, Steps
    <3>. QED
      BY <1>2, <1>5, <1>13, <2>1, <3>1 DEF ReadFlags
  <2>3. t \in Core1Todos
    BY <1>1
  <2>4. /\ UNCHANGED <<pin, cause, latched, enabled, bq27742_g1_interrupt_pending,
                       queued, falls, refusals, raced>>
        /\ due' = FALSE
    BY <1>13 DEF ReadFlags
  <2>5. Types'
    BY <1>0, <2>4 DEF Types
  <2>. QED
    BY <1>8, <2>2, <2>3, <2>4, <2>5
<1>14. CASE ClearImax("core1")
  <2>1. s = Clear
    BY <1>1, <1>2, <1>3, <1>14, HeadsAndTails DEF ClearImax
  <2>2. todo' = [todo EXCEPT !["core1"] = RearmIfHigh]
    BY <1>2, <1>5, <1>6, <1>14, <2>1 DEF ClearImax
  <2>3. s # Read /\ RearmIfHigh \in Core1Todos
    BY <1>1, <1>2, <2>1
  <2>4. UNCHANGED <<enabled, bq27742_g1_interrupt_pending, queued, falls,
                    refusals, raced>>
    BY <1>14 DEF ClearImax
  <2>5. CASE cause = "imax" /\ Rise
    <3>1. Types'
      BY <1>0, <2>4, <2>5 DEF Types, Rise, Edges
    <3>2. ~due' /\ ("fall" \in latched' => "fall" \in latched)
      BY <2>5 DEF Rise
    <3>. QED
      BY <1>8, <2>2, <2>3, <2>4, <3>1, <3>2
  <2>6. CASE UNCHANGED <<pin, cause, latched, due>>
    <3>1. Types'
      BY <1>0, <2>4, <2>6 DEF Types
    <3>. QED
      BY <1>8, <2>2, <2>3, <2>4, <2>6, <3>1
  <2>. QED
    BY <1>14, <2>5, <2>6 DEF ClearImax
<1>15. ~TestPending("core1") /\ ~TryAdd("core1") /\ ~Refused("core1")
  <2>1. s # <<>> => Head(s) \notin {"test_pending", "try_add"}
    BY <1>1, <1>2, HeadsAndTails
  <2>2. ~At("core1", "test_pending") /\ ~At("core1", "try_add")
    BY <1>3, <2>1
  <2>. QED
    BY <2>2 DEF TestPending, TryAdd, Refused
<1>16. CASE SetPending("core1")
  BY <1>10, <1>16 DEF SetPending
<1>. QED
  BY <1>9, <1>11, <1>12, <1>13, <1>14, <1>15, <1>16 DEF Core1Step, DriverStep

LEMMA AssertKeeps ==
    ASSUME PinInv, NEW why \in {"status", "imax"}, Assert(why)
    PROVE  PinInv'
<1>0. Types /\ Todos
  BY DEF PinInv
<1>1. /\ pin = "high" /\ falls < MaxFalls /\ falls' = falls + 1
      /\ pin' = "low" /\ cause' = why
      /\ latched' = latched \cup {"fall"}
      /\ due' = ("fall" \in enabled[0])
      /\ UNCHANGED <<enabled, bq27742_g1_interrupt_pending, queued, todo,
                     refusals, raced>>
  BY DEF Assert
<1>2. falls' \in 0..MaxFalls
  BY <1>0, <1>1, BQ27742Assumption DEF Types
<1>3. Types'
  BY <1>0, <1>1, <1>2 DEF Types, Edges
<1>4. Todos'
  <2>1. PICK s \in IsrTodos, u \in Endings :
            todo["isr"] = s \o u /\ Counted(s)
    BY <1>0 DEF Todos
  <2>2. PICK k \in {0, 1}, n \in {0, 1}, l \in {0, 1}, m \in {0, 1} :
            /\ k = Owed(todo["thread"]) /\ n = Owed(s)
            /\ l = (IF "fall" \in latched THEN 1 ELSE 0)
            /\ m = (IF "fall" \in latched' THEN 1 ELSE 0)
    BY DEF Owed
  <2>3. queued + k + n + l <= falls + 1
    BY <2>1, <2>2 DEF Counted
  <2>4. queued \in Nat /\ falls \in Nat
    BY <1>0, BQ27742Assumption DEF Types
  <2>5. queued + k + n + m <= falls + 1 + 1
    BY <2>2, <2>3, <2>4
  <2>6. Counted(s)'
    BY <1>1, <2>2, <2>5 DEF Counted
  <2>. QED
    BY <1>0, <1>1, <2>1, <2>6 DEF Todos
<1>5. Doing' = Doing
  BY <1>1 DEF Doing
<1>6. ASSUME ~raced
      PROVE  OneAtATime'
  BY <1>1, <1>5, <1>6 DEF PinInv, OneAtATime, Listens, PendingFits, TakesFall
<1>7. due' => Carried'
  BY <1>1 DEF Carried
<1>. QED
  BY <1>1, <1>3, <1>4, <1>6, <1>7 DEF PinInv

LEMMA ReleaseKeeps ==
    ASSUME PinInv, Release
    PROVE  PinInv'
<1>0. Types /\ Todos
  BY DEF PinInv
<1>1. /\ pin' = "high" /\ cause' = "none"
      /\ latched' = latched \cup {"rise"} /\ due' = FALSE
      /\ UNCHANGED <<enabled, bq27742_g1_interrupt_pending, queued, todo, falls,
                     refusals, raced>>
  BY DEF Release, Rise
<1>2. Types'
  BY <1>0, <1>1 DEF Types, Edges
<1>3. "fall" \in latched' <=> "fall" \in latched
  BY <1>1
<1>4. Todos'
  BY <1>0, <1>1, <1>3 DEF Todos, Counted
<1>5. Doing' = Doing
  BY <1>1 DEF Doing
<1>6. ASSUME ~raced
      PROVE  OneAtATime'
  BY <1>1, <1>5, <1>6 DEF PinInv, OneAtATime, Listens, PendingFits, TakesFall
<1>. QED
  BY <1>1, <1>2, <1>4, <1>6 DEF PinInv

LEMMA InitPinInv == Init => PinInv
<1>. SUFFICES ASSUME Init
              PROVE  PinInv
  OBVIOUS
<1>1. /\ todo["thread"] = InitSteps /\ todo["isr"] = <<>> /\ todo["core1"] = <<>>
      /\ todo \in [Contexts -> Seq(Steps)]
  BY TodosAreSequences DEF Init, Contexts, Core0Todos, Core1Todos, ThreadTodos, Shared
<1>2. Types
  <2>1. /\ pin \in {"high", "low"}
        /\ cause \in {"none", "status", "imax"}
        /\ pin = "high" <=> cause = "none"
    BY DEF Init
  <2>2. enabled \in [Cores -> SUBSET Edges] /\ latched \subseteq Edges
    BY DEF Init
  <2>3. /\ falls \in 0..MaxFalls /\ refusals \in 0..MaxRefusals
        /\ queued \in Nat
    BY BQ27742Assumption DEF Init
  <2>. QED
    BY <2>1, <2>2, <2>3 DEF Init, Types
<1>3. Todos
  <2>1. InitSteps \in ThreadTodos /\ <<>> \in Core1Todos
    BY DEF ThreadTodos, Core1Todos
  <2>2. <<>> \in IsrTodos /\ <<>> \in Endings /\ <<>> \o <<>> = <<>>
    BY TodosAreSequences DEF IsrTodos, Shared, Endings
  <2>3. Owed(InitSteps) = 1 /\ Owed(<<>>) = 0
    BY Different DEF Owed, IsrTodos, ThreadTodos, Shared, Marking
  <2>4. Counted(<<>>)
    BY <1>1, <2>3 DEF Counted, Init
  <2>. QED
    BY <1>1, <2>1, <2>2, <2>4 DEF Todos
<1>4. OneAtATime
  <2>1. Doing = InitSteps
    BY <1>1 DEF Doing
  <2>2. enabled[0] = {} /\ ~bq27742_g1_interrupt_pending
    BY DEF Init, Cores
  <2>3. <<>> \in IsrTodos /\ <<>> \notin {AckFall, QueueParseInterrupt}
    BY Different DEF IsrTodos, ThreadTodos, Shared
  <2>4. Listens(InitSteps) /\ PendingFits(InitSteps) /\ TakesFall(<<>>)
    <3>1. Listens(InitSteps)
      BY <2>2, Different DEF Listens, IsrTodos, Shared, Marking, Rearming
    <3>2. PendingFits(InitSteps)
      BY <2>2 DEF PendingFits
    <3>3. TakesFall(<<>>)
      BY <2>3 DEF TakesFall
    <3>. QED
      BY <3>1, <3>2, <3>3
  <2>. QED
    BY <1>1, <2>1, <2>3, <2>4 DEF OneAtATime
<1>5. ~due
  BY DEF Init
<1>. QED
  BY <1>2, <1>3, <1>4, <1>5 DEF PinInv

LEMMA NextPinInv == PinInv /\ [Next]_vars => PinInv'
<1>. SUFFICES ASSUME PinInv, [Next]_vars
              PROVE  PinInv'
  OBVIOUS
<1>1. CASE UNCHANGED interruptVars
  BY <1>1
     DEF interruptVars, PinInv, Types, Todos, Counted, OneAtATime, Doing, Listens,
         PendingFits, TakesFall, Carried
<1>2. CASE Core0Step
  BY <1>2, ThreadKeeps, IsrKeeps, TakeKeeps DEF Core0Step, Core0Driver
<1>3. CASE Core1Step
  BY <1>3, Core1HasEffect, Core1Keeps
<1>. QED
  BY <1>1, <1>2, <1>3, AssertKeeps, ReleaseKeeps DEF Next, Interrupts, vars

-----------------------------------------------------------------------------
(* Theorems. *)

\* Every variable keeps its type, and call_queue never holds more parse entries
\* than the pin fell, and one: for any number of alarms.
THEOREM PinTypes == Spec => []TypeOK
<1>1. Init => FlashInv /\ PinInv
  BY InitFlashInv, InitPinInv DEF Init
<1>2. FlashInv /\ PinInv => TypeOK
  <2>. SUFFICES ASSUME FlashInv, PinInv
                PROVE  TypeOK
    OBVIOUS
  <2>1. queued \in 0 .. MaxFalls + 2
    <3>1. PICK s \in IsrTodos : Counted(s)
      BY DEF PinInv, Todos
    <3>2. PICK k \in {0, 1}, n \in {0, 1}, l \in {0, 1} :
              /\ k = Owed(todo["thread"]) /\ n = Owed(s)
              /\ l = (IF "fall" \in latched THEN 1 ELSE 0)
      BY DEF Owed
    <3>3. queued + k + n + l <= falls + 1
      BY <3>1, <3>2 DEF Counted
    <3>4. queued \in Nat /\ falls \in 0..MaxFalls
      BY DEF PinInv, Types
    <3>. QED
      BY <3>3, <3>4, BQ27742Assumption
  <2>. QED
    BY <2>1 DEF TypeOK, FlashInv, PinInv, Types, Todos
<1>. QED
  BY <1>1, <1>2, NextFlashInv, NextPinInv, PTL DEF Spec

\* Where core 0 has nothing to do, it does what its invariant says of nothing.
LEMMA Idle ==
    ASSUME PinInv, Core0Idle, ~raced
    PROVE  /\ enabled[0] \in {{"fall"}, {"rise"}}
           /\ bq27742_g1_interrupt_pending => enabled[0] = {"rise"}
<1>1. Doing = <<>>
  BY DEF Core0Idle, Doing
<1>2. Listens(<<>>) /\ PendingFits(<<>>)
  BY <1>1 DEF PinInv, OneAtATime
<1>3. <<>> \notin {InitSteps, Mark3, Mark2, Mark1, Rearm2, Rearm1}
  BY Different DEF IsrTodos, ThreadTodos, Shared, Marking, Rearming
<1>. QED
  BY <1>2, <1>3 DEF Listens, PendingFits

\* However the cores' calls of gpio_set_irq_enabled interleave, core 0 is neither
\* deaf nor listens for both edges when it is done.
THEOREM OneEdge == Spec => []ListensToOneEdge
<1>1. Init => PinInv
  BY InitPinInv
<1>2. PinInv => ListensToOneEdge
  BY Idle DEF ListensToOneEdge
<1>. QED
  BY <1>1, <1>2, NextPinInv, PTL DEF Spec

\* ... and while the pending flag is set it listens for the edge that clears it.
THEOREM PendingEnds == Spec => []PendingIsCleared
<1>1. Init => PinInv
  BY InitPinInv
<1>2. PinInv => PendingIsCleared
  BY Idle DEF PendingIsCleared
<1>. QED
  BY <1>1, <1>2, NextPinInv, PTL DEF Spec

\* An alarm that is due always has somebody who will read the flags for it: the
\* latch, a context about to queue the parser, call_queue, or the parser.
THEOREM DueHasCarrier == Spec => []DueIsOnItsWay
<1>1. Init => PinInv
  BY InitPinInv
<1>2. PinInv => DueIsOnItsWay
  <2>. SUFFICES ASSUME PinInv, due, ~raced
                PROVE  OnItsWay
    BY DEF DueIsOnItsWay
  <2>1. Carried
    BY DEF PinInv
  <2>2. ASSUME NEW x \in {"thread", "isr"},
               todo[x] \in {AckFall, QueueParseInterrupt} \cup Marking
        PROVE  OnItsWay
    <3>1. CASE todo[x] = AckFall
      <4>1. 2 \in 1..Len(todo[x]) /\ todo[x][2] = "test_pending"
        BY <3>1 DEF AckFall
      <4>. QED
        BY <4>1 DEF OnItsWay, InTodo
    <3>2. CASE todo[x] = QueueParseInterrupt
      <4>1. 1 \in 1..Len(todo[x]) /\ todo[x][1] = "test_pending"
        BY <3>2 DEF QueueParseInterrupt
      <4>. QED
        BY <4>1 DEF OnItsWay, InTodo
    <3>3. CASE todo[x] \in Marking
      <4>1. \E i \in 1..Len(todo[x]) : todo[x][i] = "try_add"
        <5>1. CASE todo[x] = MarkAndQueue
          <6>1. 4 \in 1..Len(todo[x]) /\ todo[x][4] = "try_add"
            BY <5>1 DEF MarkAndQueue
          <6>. QED
            BY <6>1
        <5>2. CASE todo[x] = Mark3
          <6>1. 3 \in 1..Len(todo[x]) /\ todo[x][3] = "try_add"
            BY <5>2 DEF Mark3
          <6>. QED
            BY <6>1
        <5>3. CASE todo[x] = Mark2
          <6>1. 2 \in 1..Len(todo[x]) /\ todo[x][2] = "try_add"
            BY <5>3 DEF Mark2
          <6>. QED
            BY <6>1
        <5>4. CASE todo[x] = Mark1
          <6>1. 1 \in 1..Len(todo[x]) /\ todo[x][1] = "try_add"
            BY <5>4 DEF Mark1
          <6>. QED
            BY <6>1
        <5>. QED
          BY <3>3, <5>1, <5>2, <5>3, <5>4 DEF Marking
      <4>. QED
        BY <4>1 DEF OnItsWay, InTodo
    <3>. QED
      BY <2>2, <3>1, <3>2, <3>3
  <2>3. CASE todo["core1"] = <<"read_flags", "get_pin">>
    <3>1. 1 \in 1..Len(todo["core1"]) /\ todo["core1"][1] = "read_flags"
      BY <2>3
    <3>. QED
      BY <3>1 DEF OnItsWay, InTodo
  <2>. QED
    BY <2>1, <2>2, <2>3 DEF Carried, OnItsWay
<1>. QED
  BY <1>1, <1>2, NextPinInv, PTL DEF Spec
=============================================================================
