----------------------------- MODULE RP2040Log -----------------------------
(***************************************************************************)
(* The in-memory log of src/src/rp2040_log.c (the build without            *)
(* LOGGER_UART): a ring of LineCount fixed-size slots guarded by one       *)
(* mutex.  The thread of every core calls rp2040_log, and so does the GPIO *)
(* callback of core 0 when call_queue is full (src/src/robot.c:463); only  *)
(* the serial thread (Reader, core 0's) runs the GET_LOG branch of         *)
(* handle_packet, which holds the mutex over rp2040_get_byte_count and     *)
(* rp2040_log_flush.  While the callback runs, core 0's thread stands      *)
(* still: when that thread holds the mutex, the callback waits for ever.   *)
(*                                                                         *)
(* A caller's steps follow the C statements: the mutex is taken, the slot  *)
(* at tail is formatted, head and tail move, the mutex is released.  The   *)
(* text of a line is abstracted to its message and the number of           *)
(* characters kept of it.                                                  *)
(***************************************************************************)
EXTENDS Integers, Sequences, FiniteSets, Functions

CONSTANTS Callers,      \* the contexts that log
          Reader,       \* core 0's thread, which serves GET_LOG
          Interrupt,    \* core 0's GPIO callback
          NoCaller,     \* the mutex is free
          Messages,     \* what the code logs
          NoMessage,    \* a slot never written
          MsgChars,     \* characters of a formatted message
          LineCount,    \* LOG_BUFFER_LINE_COUNT (1028)
          CharLimit,    \* LOG_BUFFER_CHAR_LIMIT (128)
          CountModulus  \* uint16_t byte counts (2^16)

ASSUME LogAssumption ==
    /\ Reader \in Callers
    /\ Interrupt \in Callers \ {Reader}
    /\ NoCaller \notin Callers
    /\ NoMessage \notin Messages
    /\ MsgChars \in [Messages -> Nat]
    /\ LineCount \in Nat \ {0}
    /\ CharLimit \in Nat \ {0}
    /\ CountModulus \in Nat \ {0}

VARIABLES log_array,            \* slot -> the line stored there
          log_array_line_size,  \* slot -> its size, terminator included
          head, tail,
          mutex,                \* owner of rp2040_log_buffer_mutex
          pc,                   \* where each caller is
          arg,                  \* the message each caller is logging
          byte_count,           \* data_size of the reply under way
          printed,              \* lines printed of the reply under way
          dumped                \* body of the last complete reply

ring == <<log_array, log_array_line_size>>
reply == <<byte_count, printed, dumped>>
vars == <<log_array, log_array_line_size, head, tail, mutex, pc, arg,
          byte_count, printed, dumped>>

-----------------------------------------------------------------------------
Slots == 0 .. LineCount - 1

\* Indices are taken modulo the number of slots.
Wrap(i) == i % LineCount

Following(i) == Wrap(i + 1)

\* Mutated form of LineSize: the size is not cut to the room of a slot.
LineSizeUncut(m) == MsgChars[m] + 1

\* vsnprintf(NULL, 0, ...) + 1, cut to the room a slot has.
LineSize(m) == IF MsgChars[m] + 1 > CharLimit THEN CharLimit
                                              ELSE MsgChars[m] + 1

\* vsnprintf stores one character less than the size it is given.
Line(m) == [msg |-> m, chars |-> LineSize(m) - 1]

Empty == [msg |-> NoMessage, chars |-> 0]

Lines == {Line(m) : m \in Messages}

\* Mutated form of SizesLessOne: the terminators are counted too.
SizesWithTerminator == [i \in Slots |-> log_array_line_size[i]]

\* rp2040_get_byte_count: every slot counts its size less one, in 16 bits.
SizesLessOne == [i \in Slots |-> log_array_line_size[i] - 1]
ByteCount == SumFunctionOnSet(SizesLessOne, Slots) % CountModulus

\* printf("%.*s", size, line) stops at the precision or at the terminator.
Visible(i) == IF log_array_line_size[i] < log_array[i].chars
              THEN [log_array[i] EXCEPT !.chars = log_array_line_size[i]]
              ELSE log_array[i]

UnusedSlots == {i \in Slots : log_array[i] = Empty}

-----------------------------------------------------------------------------
Init ==
    /\ log_array = [i \in Slots |-> Empty]
    /\ log_array_line_size = [i \in Slots |-> 0]
    /\ head = 0
    /\ tail = 0
    /\ mutex = NoCaller
    /\ pc = [c \in Callers |-> "idle"]
    /\ arg = [c \in Callers |-> NoMessage]
    /\ byte_count = 0
    /\ printed = <<>>
    /\ dumped = <<>>

Goto(c, label) == pc' = [pc EXCEPT ![c] = label]

\* The callback interrupts the thread of its own core.
Runs(c) == c = Reader => pc[Interrupt] = "idle"

\* Some statement of caller c calls rp2040_log.
LogCall(c, m) ==
    /\ pc[c] = "idle"
    /\ arg' = [arg EXCEPT ![c] = m]
    /\ Goto(c, "log_enter")
    /\ UNCHANGED <<ring, head, tail, mutex, reply>>

\* Mutated form of AcquireLock: the caller goes on whoever owns the mutex.
AcquireLockAlways(c, from, to) ==
    /\ pc[c] = from
    /\ mutex' = c
    /\ Goto(c, to)
    /\ UNCHANGED <<ring, head, tail, arg, reply>>

\* mutex_enter_blocking, from either of its callers.
AcquireLock(c, from, to) ==
    /\ pc[c] = from
    /\ mutex = NoCaller
    /\ mutex' = c
    /\ Goto(c, to)
    /\ UNCHANGED <<ring, head, tail, arg, reply>>

LogEnter(c) == AcquireLock(c, "log_enter", "format")

\* The slot at tail is overwritten and its size stored.
FormatLine(c) ==
    /\ pc[c] = "format"
    /\ log_array' = [log_array EXCEPT ![tail] = Line(arg[c])]
    /\ log_array_line_size' =
           [log_array_line_size EXCEPT ![tail] = LineSize(arg[c])]
    /\ Goto(c, "advance")
    /\ UNCHANGED <<head, tail, mutex, arg, reply>>

\* head gives way when the write caught up with it; tail always moves.
AdvanceEnds(c) ==
    /\ pc[c] = "advance"
    /\ head' = IF tail = head THEN Following(head) ELSE head
    /\ tail' = Following(tail)
    /\ Goto(c, "exit")
    /\ UNCHANGED <<ring, mutex, arg, reply>>

\* Mutated form of ReleaseLock: only the end of rp2040_log releases.
ReleaseLockOfLogOnly(c) ==
    /\ pc[c] = "exit"
    /\ mutex' = IF arg[c] = NoMessage THEN mutex ELSE NoCaller
    /\ Goto(c, "idle")
    /\ arg' = [arg EXCEPT ![c] = NoMessage]
    /\ UNCHANGED <<ring, head, tail, reply>>

\* mutex_exit, at the end of rp2040_log and of the GET_LOG branch.
ReleaseLock(c) ==
    /\ pc[c] = "exit"
    /\ mutex' = NoCaller
    /\ Goto(c, "idle")
    /\ arg' = [arg EXCEPT ![c] = NoMessage]
    /\ UNCHANGED <<ring, head, tail, reply>>

-----------------------------------------------------------------------------
(* The GET_LOG branch of handle_packet. *)

\* A GET_LOG request arrives.  main serves requests only after on_start, which
\* logs from its first statements on, so the log is not empty by then.
DumpCall ==
    /\ pc[Reader] = "idle"
    /\ UnusedSlots # Slots
    /\ Goto(Reader, "dump_enter")
    /\ UNCHANGED <<ring, head, tail, mutex, arg, reply>>

DumpEnter == AcquireLock(Reader, "dump_enter", "count")

CountBytes ==
    /\ pc[Reader] = "count"
    /\ byte_count' = ByteCount
    /\ printed' = <<>>
    /\ Goto(Reader, "flush")
    /\ UNCHANGED <<ring, head, tail, mutex, arg, dumped>>

\* Mutated form of FlushLine: the loop stops one round early.
FlushLineShort ==
    /\ pc[Reader] = "flush"
    /\ printed' = Append(printed, Visible(head))
    /\ head' = Following(head)
    /\ IF Len(printed) + 2 >= LineCount
       THEN /\ dumped' = printed'
            /\ Goto(Reader, "exit")
       ELSE UNCHANGED <<dumped, pc>>
    /\ UNCHANGED <<ring, tail, mutex, arg, byte_count>>

\* One round of rp2040_log_flush; the last one completes the reply.
FlushLine ==
    /\ pc[Reader] = "flush"
    /\ printed' = Append(printed, Visible(head))
    /\ head' = Following(head)
    /\ IF Len(printed) + 1 = LineCount
       THEN /\ dumped' = printed'
            /\ Goto(Reader, "exit")
       ELSE UNCHANGED <<dumped, pc>>
    /\ UNCHANGED <<ring, tail, mutex, arg, byte_count>>

-----------------------------------------------------------------------------
\* What caller c does once it is inside rp2040_log.
LogStep(c) == \/ LogEnter(c)
              \/ FormatLine(c)
              \/ AdvanceEnds(c)
              \/ ReleaseLock(c)

DumpStep == DumpEnter \/ CountBytes \/ FlushLine

Next == \/ \E c \in Callers : Runs(c) /\ LogStep(c)
        \/ \E c \in Callers, m \in Messages : Runs(c) /\ LogCall(c, m)
        \/ Runs(Reader) /\ (DumpCall \/ DumpStep)

Spec == Init /\ [][Next]_vars

\* A caller inside the log keeps executing whenever it may: core 0's thread
\* also if the callback interrupts it again and again, since each edge that
\* calls it takes core 1 an I2C read of the chip that holds the pin.
FairSpec == /\ Spec
            /\ \A c \in Callers \ {Reader} : WF_vars(LogStep(c))
            /\ SF_vars(Runs(Reader) /\ LogStep(Reader))
            /\ SF_vars(Runs(Reader) /\ DumpStep)

-----------------------------------------------------------------------------
(* Properties. *)

InLog == {"format", "advance"}
InDump == {"count", "flush"}
Critical == InLog \cup InDump \cup {"exit"}

\* byte_count, the value of a fold over the slots, is left out: what a recursive
\* definition returns is outside the provers.
TypeOK ==
    /\ log_array \in [Slots -> Lines \cup {Empty}]
    /\ log_array_line_size \in [Slots -> 0..CharLimit]
    /\ head \in Slots
    /\ tail \in Slots
    /\ mutex \in Callers \cup {NoCaller}
    /\ pc \in [Callers -> Critical \cup {"idle", "log_enter", "dump_enter"}]
    /\ arg \in [Callers -> Messages \cup {NoMessage}]
    /\ printed \in Seq(Lines \cup {Empty})
    /\ dumped \in Seq(Lines \cup {Empty})

\* The mutex is owned by the one caller that is inside a critical section; only
\* the serial thread dumps, and a caller inside rp2040_log has a message.
LockInv ==
    \A c \in Callers :
        /\ mutex = c <=> pc[c] \in Critical
        /\ pc[c] \in InDump \cup {"dump_enter"} => c = Reader
        /\ pc[c] \in InLog \cup {"log_enter"} => arg[c] \in Messages

\* The ends of the ring meet except while the flush loop walks head, and what
\* it has printed are the slots from tail on.
RingInv ==
    /\ \A i \in Slots : log_array[i].chars <= log_array_line_size[i]
    /\ pc[Reader] # "flush" => head = tail
    /\ pc[Reader] = "flush" =>
           /\ Len(printed) < LineCount
           /\ head = Wrap(tail + Len(printed))
           /\ \A k \in 1..Len(printed) :
                  printed[k] = log_array[Wrap(tail + k - 1)]

IInv == TypeOK /\ LockInv /\ RingInv

\* Whenever the mutex is free, head and tail are the same slot: the ring has
\* no notion of "not yet full", and neither a line logged nor a complete dump
\* (which walks head all the way round) may leave the two apart, or the next
\* dump would start in the middle of the log.
EndsMeet == mutex = NoCaller => head = tail

\* The slot from which the last LineCount lines are read, oldest first: tail,
\* or the one after it while the slot at tail holds a line not yet counted.
Oldest == IF \E c \in Callers : pc[c] = "advance" THEN Following(tail)
                                                  ELSE tail

\* The ring read from its oldest slot.
Window == [i \in 1..LineCount |-> log_array[Wrap(Oldest + i - 1)]]

Recent == INSTANCE RecentLines
             WITH NoLine <- Empty, Depth <- LineCount,
                  recent <- Window, delivered <- dumped

\* Each log call shifts the remembered lines by one and each GET_LOG reply is
\* exactly the last LineCount lines of one instant, oldest first, however the
\* cores interleave (rp2040_log, rp2040_log_flush).
LastLinesInOrder == Recent!Spec

ReplyComplete == /\ pc[Reader] = "exit"
                 /\ arg[Reader] = NoMessage
BodyChars == SumFunctionOnSet([i \in 1..Len(printed) |-> printed[i].chars],
                              1..Len(printed))

\* The header's count is the number of characters of the body less one for
\* every slot that was never written (rp2040_get_byte_count adds size - 1,
\* and the size of such a slot is 0), in 16-bit arithmetic: exact once the
\* ring has been filled, as long as the sum stays below 2^16.
CountIsCharsLessUnused ==
    ReplyComplete =>
        byte_count = (BodyChars - Cardinality(UnusedSlots)) % CountModulus

\* "Function to retrieve the total number of bytes within the log_array"
\* (rp2040_log.c:88): the data_size a GET_LOG reply announces is the number
\* of bytes its body has.
CountIsBodyLength == ReplyComplete => byte_count = BodyChars

\* The callback of core 0 waits for a mutex that the thread it interrupted
\* holds: neither goes on any more.
Stuck == mutex = Reader /\ pc[Interrupt] = "log_enter"

\* Whoever holds the mutex gives it back, on every path through rp2040_log and
\* the GET_LOG branch (serial_comm_manager.c:113-121), unless core 0 is stuck:
\* its callback logs a full call_queue (robot.c:463-464) while its thread holds
\* the mutex.
LockReleased == \A c \in Callers : mutex = c ~> (mutex # c \/ Stuck)
=============================================================================
