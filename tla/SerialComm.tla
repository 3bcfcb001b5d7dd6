----------------------------- MODULE SerialComm -----------------------------
(***************************************************************************)
(* The request/reply protocol of src/src/serial_comm_manager.c over USB:   *)
(* get_block cuts the incoming bytes into five-byte windows                *)
(*                                                                         *)
(*     START type left right END                                           *)
(*                                                                         *)
(* and handle_packet answers them.  A getchar that finds no byte for       *)
(* 100 us while a window is open, or a window that does not close with     *)
(* END, gives up the window and sends a NACK.                              *)
(*                                                                         *)
(* The host is the one of src/tools/benchmark/main.cpp: it writes whole    *)
(* packets, whose bytes may arrive with any delay between them, and before *)
(* every new packet it may flush what it has not sent yet, which cuts the  *)
(* previous packet off anywhere.  `stream' is everything that arrived and  *)
(* `read' how much of it get_block has taken.                              *)
(***************************************************************************)
EXTENDS Integers, Sequences

CONSTANTS Levels,      \* the motor levels the host uses
          Types,       \* the packet types the host uses
          MaxPackets,  \* bound: packets the host starts
          MaxFlushes   \* bound: packets it cuts off

GET_LOG == 0
SET_MOTOR_LEVEL == 1
RESET_STATE == 2
GET_STATE == 3
NACK == 252
START_MARKER == 254
END_MARKER == 255
Bytes == 0..255

ANDROID_BUFFER_LENGTH_IN == 2

ASSUME SerialAssumption ==
    /\ Levels \subseteq Bytes
    /\ Types \subseteq Bytes \ {START_MARKER, END_MARKER}
    /\ MaxPackets \in Nat
    /\ MaxFlushes \in Nat

VARIABLES stream,    \* every byte that arrived
          rest,      \* bytes of the packet under way that did not arrive yet
          begun,     \* that packet: where it starts, and whether the firmware
                     \* was waiting, with nothing unread, when it did
          whole,     \* the packets that arrived completely
          packets, flushes,  \* bound counters
          read,
          at,        \* the getchar that get_block is in, or "handle"
          buffer_index,
          first,     \* history: where the window under way starts
          taker,     \* history: of every byte read, where the window that
                     \* took it starts, 0 if it was dropped between windows
          late,      \* history: windows whose bytes came too slowly
          incoming,  \* incoming_packet_from_android: its type and data
          outgoing,  \* outgoing_packet_to_android: its type and motor levels
          motors,    \* what the motor drivers were last told
          handled,   \* history: the packets handle_packet was called with
          replies    \* what was sent to the host

host == <<stream, rest, begun, whole, packets, flushes>>
parser == <<read, at, buffer_index, first, taker, incoming>>
vars == <<stream, rest, begun, whole, packets, flushes, read, at,
          buffer_index, first, taker, late, incoming, outgoing, motors,
          handled, replies>>

-----------------------------------------------------------------------------
Packet(type, left, right) == [type |-> type, left |-> left, right |-> right]
NoPacket == Packet(0, 0, 0)
Motors == {"left", "right"}

\* A reply to the window that starts at f.
Reply(f, packet) == [first |-> f, type |-> packet.type,
                     left |-> packet.left, right |-> packet.right]

Init ==
    /\ stream = <<>>
    /\ rest = <<>>
    /\ begun = [first |-> 0, quiet |-> FALSE]
    /\ whole = {}
    /\ packets = 0
    /\ flushes = 0
    /\ read = 0
    /\ at = "start"
    /\ buffer_index = 0
    /\ first = 0
    /\ taker = <<>>
    /\ late = {}
    /\ incoming = NoPacket
    /\ outgoing = NoPacket
    /\ motors = [m \in Motors |-> 0]
    /\ handled = {}
    /\ replies = <<>>

-----------------------------------------------------------------------------
(* The host. *)

HostBegin(type, left, right) ==
    /\ rest = <<>>
    /\ packets < MaxPackets
    /\ packets' = packets + 1
    /\ stream' = Append(stream, START_MARKER)
    /\ rest' = <<type, left, right, END_MARKER>>
    /\ begun' = [first |-> Len(stream) + 1,
                 quiet |-> at = "start" /\ read = Len(stream)]
    /\ UNCHANGED <<whole, flushes, parser, late, outgoing, motors, handled,
                   replies>>

HostByte ==
    /\ rest # <<>>
    /\ stream' = Append(stream, Head(rest))
    /\ rest' = Tail(rest)
    /\ whole' = IF rest' = <<>> THEN whole \cup {begun} ELSE whole
    /\ UNCHANGED <<begun, packets, flushes, parser, late, outgoing, motors,
                   handled, replies>>

\* tcflush drops the bytes that were not sent yet.
HostFlush ==
    /\ rest # <<>>
    /\ flushes < MaxFlushes
    /\ flushes' = flushes + 1
    /\ rest' = <<>>
    /\ UNCHANGED <<stream, begun, whole, packets, parser, late, outgoing,
                   motors, handled, replies>>

-----------------------------------------------------------------------------
(* get_block *)

Unread == read < Len(stream)
NextByte == stream[read + 1]

\* Mutated form of SendNack: the window is given up without a word.
SendNackSilently ==
    /\ at' = "start"
    /\ buffer_index' = 0
    /\ incoming' = NoPacket
    /\ UNCHANGED <<outgoing, replies>>

\* reset_packet_and_send_nack: outgoing_packet_to_android goes out with whatever
\* state the last reply left in it.
SendNack ==
    /\ at' = "start"
    /\ buffer_index' = 0
    /\ incoming' = NoPacket
    /\ outgoing' = [outgoing EXCEPT !.type = NACK]
    /\ replies' = Append(replies, Reply(first, outgoing'))

\* One call of get_block outside a window: a byte other than START is dropped.
GetStart ==
    /\ at = "start"
    /\ Unread
    /\ read' = read + 1
    /\ IF NextByte = START_MARKER
       THEN /\ at' = "body"
            /\ buffer_index' = 0
            /\ first' = read'
       ELSE UNCHANGED <<at, buffer_index, first>>
    /\ taker' = Append(taker, IF NextByte = START_MARKER THEN first' ELSE 0)
    /\ UNCHANGED <<host, late, incoming, outgoing, motors, handled, replies>>

\* Mutated form of GetBody: one byte of data is not waited for.
GetBodyShort ==
    /\ at = "body"
    /\ Unread
    /\ read' = read + 1
    /\ taker' = Append(taker, first)
    /\ incoming' = IF buffer_index = 0 THEN [incoming EXCEPT !.type = NextByte]
                                       ELSE [incoming EXCEPT !.left = NextByte]
    /\ buffer_index' = buffer_index + 1
    /\ at' = IF buffer_index' < ANDROID_BUFFER_LENGTH_IN THEN "body" ELSE "end"
    /\ UNCHANGED <<host, first, late, outgoing, motors, handled, replies>>

\* Mutated form of GetBody: one byte of data too many is waited for.
GetBodyLong ==
    /\ at = "body"
    /\ Unread
    /\ read' = read + 1
    /\ taker' = Append(taker, first)
    /\ incoming' = CASE buffer_index = 0 -> [incoming EXCEPT !.type = NextByte]
                     [] buffer_index = 1 -> [incoming EXCEPT !.left = NextByte]
                     [] OTHER -> [incoming EXCEPT !.right = NextByte]
    /\ buffer_index' = buffer_index + 1
    /\ at' = IF buffer_index' <= ANDROID_BUFFER_LENGTH_IN + 1 THEN "body"
                                                              ELSE "end"
    /\ UNCHANGED <<host, first, late, outgoing, motors, handled, replies>>

\* The bytes after START are the type and ANDROID_BUFFER_LENGTH_IN bytes of data.
GetBody ==
    /\ at = "body"
    /\ Unread
    /\ read' = read + 1
    /\ taker' = Append(taker, first)
    /\ incoming' = CASE buffer_index = 0 -> [incoming EXCEPT !.type = NextByte]
                     [] buffer_index = 1 -> [incoming EXCEPT !.left = NextByte]
                     [] OTHER -> [incoming EXCEPT !.right = NextByte]
    /\ buffer_index' = buffer_index + 1
    /\ at' = IF buffer_index' < ANDROID_BUFFER_LENGTH_IN + 1 THEN "body"
                                                             ELSE "end"
    /\ UNCHANGED <<host, first, late, outgoing, motors, handled, replies>>

\* Mutated form of GetTimeout: the NACK is sent, but the loop goes on.
GetTimeoutNoReturn ==
    /\ at \in {"body", "end"}
    /\ ~Unread
    /\ outgoing' = [outgoing EXCEPT !.type = NACK]
    /\ replies' = Append(replies, Reply(first, outgoing'))
    /\ late' = late \cup {first}
    /\ UNCHANGED <<host, parser, motors, handled>>

\* No byte for 100 us inside a window.
GetTimeout ==
    /\ at \in {"body", "end"}
    /\ ~Unread
    /\ SendNack
    /\ late' = late \cup {first}
    /\ UNCHANGED <<host, read, first, taker, motors, handled>>

\* Mutated form of GetEnd: the closing byte is read but not looked at.
GetEndAnyByte ==
    /\ at = "end"
    /\ Unread
    /\ read' = read + 1
    /\ taker' = Append(taker, first)
    /\ at' = "handle"
    /\ UNCHANGED <<host, buffer_index, first, incoming, outgoing, motors, late,
                   handled, replies>>

\* Only END closes a window.  packet_length is end_idx - start_idx = -1 - 0 in
\* uint16_t, so the check for an incomplete packet always passes.
GetEnd ==
    /\ at = "end"
    /\ Unread
    /\ read' = read + 1
    /\ taker' = Append(taker, first)
    /\ IF NextByte = END_MARKER
       THEN /\ at' = "handle"
            /\ UNCHANGED <<buffer_index, incoming, outgoing, replies>>
       ELSE SendNack
    /\ UNCHANGED <<host, first, motors, late, handled>>

-----------------------------------------------------------------------------
(* handle_packet *)

\* The packet has been dealt with and get_block starts over.
Done ==
    /\ handled' = handled \cup {Reply(first, incoming)}
    /\ at' = "start"
    /\ buffer_index' = 0
    /\ incoming' = NoPacket
    /\ UNCHANGED <<host, read, first, taker, late>>

\* The log has a packet of its own; RP2040Log models what is in it.
HandleLog ==
    /\ at = "handle"
    /\ incoming.type = GET_LOG
    /\ replies' = Append(replies, Reply(first, Packet(GET_LOG, 0, 0)))
    /\ Done
    /\ UNCHANGED <<outgoing, motors>>

\* set_motor_control ignores the result of its I2C write: the level of each
\* motor arrives or does not.  The state sent back holds the levels of the
\* packet either way.
HandleSet ==
    /\ at = "handle"
    /\ incoming.type = SET_MOTOR_LEVEL
    /\ \E arrived \in SUBSET Motors :
           motors' = [m \in Motors |-> IF m \in arrived THEN incoming[m]
                                                        ELSE motors[m]]
    /\ outgoing' = incoming
    /\ replies' = Append(replies, Reply(first, outgoing'))
    /\ Done

\* The state is cleared and get_state fills it, which leaves the levels alone.
HandleGetState ==
    /\ at = "handle"
    /\ incoming.type = GET_STATE
    /\ outgoing' = Packet(GET_STATE, 0, 0)
    /\ replies' = Append(replies, Reply(first, outgoing'))
    /\ Done
    /\ UNCHANGED motors

Answering == {GET_LOG, SET_MOTOR_LEVEL, GET_STATE}

\* RESET_STATE does nothing, and an unknown type sets the type of the outgoing
\* packet to NACK; neither sends anything.
HandleSilently ==
    /\ at = "handle"
    /\ incoming.type \notin Answering
    /\ outgoing' = IF incoming.type = RESET_STATE
                   THEN outgoing
                   ELSE [outgoing EXCEPT !.type = NACK]
    /\ Done
    /\ UNCHANGED <<motors, replies>>

-----------------------------------------------------------------------------
GetBlock == \/ GetStart
            \/ GetBody
            \/ GetTimeout
            \/ GetEnd
            \/ HandleLog
            \/ HandleSet
            \/ HandleGetState
            \/ HandleSilently

Next == \/ \E type \in Types, left, right \in Levels :
               HostBegin(type, left, right)
        \/ HostByte
        \/ HostFlush
        \/ GetBlock

Spec == Init /\ [][Next]_vars

\* main calls get_block again and again.  Nothing is assumed of the host.
FairSpec == Spec /\ WF_vars(GetBlock)

-----------------------------------------------------------------------------
(* Properties. *)

Packets == [type : Bytes, left : Bytes, right : Bytes]
Replies == [first : Nat, type : Bytes, left : Bytes, right : Bytes]

TypeOK ==
    /\ stream \in Seq(Bytes)
    /\ rest \in Seq(Bytes)
    /\ begun \in [first : Nat, quiet : BOOLEAN]
    /\ whole \subseteq [first : Nat, quiet : BOOLEAN]
    /\ packets \in 0..MaxPackets
    /\ flushes \in 0..MaxFlushes
    /\ read \in 0..Len(stream)
    /\ at \in {"start", "body", "end", "handle"}
    /\ buffer_index \in 0 .. ANDROID_BUFFER_LENGTH_IN + 1
    /\ first \in 0..read
    /\ taker \in Seq(Nat)
    /\ Len(taker) = read
    /\ late \subseteq 1..Len(stream)
    /\ incoming \in Packets
    /\ outgoing \in Packets
    /\ motors \in [Motors -> Bytes]
    /\ handled \subseteq Replies
    /\ replies \in Seq(Replies)

\* The host's packet that starts at f.
SentAt(f) == Reply(f, Packet(stream[f + 1], stream[f + 2], stream[f + 3]))
WholeFirsts == {w.first : w \in whole}

\* However the host's packets are cut off and the parser gets out of step, a
\* command that changes or reports something (motor levels, log, state) is one
\* the host sent as a whole, unless its data holds a START byte: the START of
\* the packet that followed a cut-off one (get_block looks for no START inside
\* a window, serial_comm_manager.c:57-76).
OnlySentCommands ==
    \A h \in handled :
        h.type \in Answering /\ START_MARKER \notin {h.left, h.right} =>
            h.first \in WholeFirsts /\ h = SentAt(h.first)

\* One quiet moment brings host and firmware back in step: a packet that starts
\* when everything before it has been read and no window is open is handled as
\* it was sent, unless its own bytes came too slowly, whatever framing errors
\* came before (serial_comm_manager.c:27-37, 42-101).
InStepAfterQuiet ==
    \A w \in whole :
        w.quiet /\ read >= w.first + 4 /\ at # "handle" =>
            w.first \in late \/ SentAt(w.first) \in handled

\* Replies come in the order of the windows they answer, never two to one
\* window: a host that sees a reply knows that no earlier packet will still be
\* answered.
RepliesInOrder ==
    \A i, j \in 1..Len(replies) : i < j => replies[i].first < replies[j].first

\* The packet that starts at f has been answered if the window that took its
\* START byte got a reply, or was handled as a type that gets none.  A reply to
\* a window that was over before that byte came does not count.
Answered(f) ==
    /\ f <= read
    /\ \/ \E i \in 1..Len(replies) : replies[i].first = taker[f]
       \/ \E h \in handled : h.first = taker[f] /\ h.type \notin Answering

\* No packet is left without a reply for ever: the window that took its START
\* byte, its own or that of a packet cut off before it, is answered, with a
\* NACK if it has to be, except when it turns out to be of type RESET_STATE or
\* of an unknown type (serial_comm_manager.c:157-162).
PacketsAnswered ==
    \A f \in 1 .. 5 * MaxPackets - 4 : f \in WholeFirsts ~> Answered(f)
=============================================================================
