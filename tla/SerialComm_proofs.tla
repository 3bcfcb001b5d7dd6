-------------------------- MODULE SerialComm_proofs --------------------------
(***************************************************************************)
(* Proofs about SerialComm for every set of levels and types the host uses *)
(* and every number of packets and cut-off packets.                        *)
(***************************************************************************)
EXTENDS SerialComm, TLAPS

(***************************************************************************)
(* What get_block has read of the window under way.                        *)
(***************************************************************************)
Window ==
    /\ at = "start" => buffer_index = 0 /\ incoming = NoPacket
    /\ at = "body" => buffer_index < 3 /\ read = first + buffer_index
    /\ at = "end" => buffer_index = 3 /\ read = first + 3
    /\ at = "handle" => /\ buffer_index = 3
                        /\ read = first + 4
                        /\ stream[read] = END_MARKER
    /\ at # "start" =>
           /\ first >= 1
           /\ stream[first] = START_MARKER
           /\ buffer_index >= 1 => incoming.type = stream[first + 1]
           /\ buffer_index >= 2 => incoming.left = stream[first + 2]
           /\ buffer_index >= 3 => incoming.right = stream[first + 3]

\* The window that starts at f has been given up or handled.
Over(f) == f <= first /\ (at # "start" => f < first)

(***************************************************************************)
(* What has been handled and answered: windows that are over, and that     *)
(* were in the stream as they were handled.                                *)
(***************************************************************************)
Past ==
    /\ \A h \in handled :
           /\ h.first >= 1
           /\ h.first + 4 <= read
           /\ stream[h.first] = START_MARKER
           /\ stream[h.first + 4] = END_MARKER
           /\ h = SentAt(h.first)
           /\ Over(h.first)
    /\ \A i \in 1..Len(replies) : Over(replies[i].first)
    /\ RepliesInOrder

(***************************************************************************)
(* The stream as the host wrote it: each byte has a place in its packet,   *)
(* 0 for START to 4 for END, and follows the byte of the place before it.  *)
(***************************************************************************)
Places == 0..4
Framed(place) ==
    /\ Len(stream) >= 1 => place[1] = 0
    /\ \A i \in 1 .. Len(stream) - 1 : place[i + 1] \in {0, place[i] + 1}
    /\ \A i \in 1 .. Len(stream) :
           /\ place[i] = 0 => stream[i] = START_MARKER
           /\ place[i] = 1 => stream[i] \notin {START_MARKER, END_MARKER}
           /\ place[i] = 4 => stream[i] = END_MARKER /\ i - 4 \in WholeFirsts
    /\ rest # <<>> =>
           /\ Len(stream) >= 1
           /\ begun.first = Len(stream) - place[Len(stream)]
           /\ Len(rest) = 4 - place[Len(stream)]
Framing ==
    /\ \E place \in [1..Len(stream) -> Places] : Framed(place)
    /\ rest # <<>> =>
           /\ Len(rest) <= 4
           /\ rest[Len(rest)] = END_MARKER
           /\ Len(rest) = 4 => rest[1] \notin {START_MARKER, END_MARKER}

(***************************************************************************)
(* A packet that the host began when the firmware was waiting with nothing *)
(* unread is still ahead, or is the window under way, or is over.          *)
(***************************************************************************)
InStep(b) ==
    /\ b.first \in 1..Len(stream)
    /\ stream[b.first] = START_MARKER
    /\ b.first + 4 <= Len(stream) => stream[b.first + 4] = END_MARKER
    /\ \/ at = "start" /\ read = b.first - 1
       \/ at # "start" /\ first = b.first
       \/ b.first \in late
       \/ SentAt(b.first) \in handled
Quiet ==
    /\ \A w \in whole : w.first + 4 <= Len(stream)
    /\ \A b \in whole \cup {begun} : b.quiet => InStep(b)

IInv == TypeOK /\ Window /\ Past /\ Framing /\ Quiet

LEMMA InitIInv == Init => IInv
<1>. SUFFICES ASSUME Init
              PROVE  IInv
  OBVIOUS
<1>. USE SerialAssumption DEF Init
<1>1. TypeOK
  BY DEF TypeOK, NoPacket, Packet, Packets, Motors, Bytes, Replies,
         ANDROID_BUFFER_LENGTH_IN
<1>2. Window /\ Past /\ Quiet
  BY DEF Window, Past, Quiet, RepliesInOrder
<1>3. Framing
  <2>1. [i \in 1..Len(stream) |-> 0] \in [1..Len(stream) -> Places]
    BY DEF Places
  <2>2. Framed([i \in 1..Len(stream) |-> 0])
    BY DEF Framed
  <2>. QED
    BY <2>1, <2>2 DEF Framing
<1>. QED
  BY <1>1, <1>2, <1>3 DEF IInv

-----------------------------------------------------------------------------
(* Steps of the host: the stream grows at its end, the firmware stays. *)

HostStep == \/ \E type \in Types, left, right \in Levels :
                   HostBegin(type, left, right)
            \/ HostByte
            \/ HostFlush

LEMMA HostExtends ==
    ASSUME TypeOK, HostStep
    PROVE  /\ stream' \in Seq(Bytes)
           /\ Len(stream') \in Nat
           /\ Len(stream') >= Len(stream)
           /\ \A i \in 1..Len(stream) : stream'[i] = stream[i]
           /\ UNCHANGED <<parser, late, outgoing, motors, handled, replies>>
<1>1. ASSUME NEW b \in Bytes, stream' = Append(stream, b)
      PROVE  /\ stream' \in Seq(Bytes)
             /\ Len(stream') \in Nat
             /\ Len(stream') >= Len(stream)
             /\ \A i \in 1..Len(stream) : stream'[i] = stream[i]
  BY <1>1 DEF TypeOK
<1>2. CASE \E type \in Types, left, right \in Levels :
               HostBegin(type, left, right)
  BY <1>1, <1>2 DEF HostBegin, START_MARKER, Bytes
<1>3. CASE HostByte
  <2>1. Head(rest) \in Bytes
    BY <1>3 DEF HostByte, TypeOK
  <2>. QED
    BY <1>1, <1>3, <2>1 DEF HostByte
<1>4. CASE HostFlush
  BY <1>4 DEF HostFlush, TypeOK
<1>. QED
  BY <1>2, <1>3, <1>4 DEF HostStep

LEMMA HostTypeOK == ASSUME TypeOK, HostStep PROVE TypeOK'
<1>1. /\ read' \in 0..Len(stream')
      /\ late' \subseteq 1..Len(stream')
      /\ stream' \in Seq(Bytes)
  <2>1. /\ read' = read /\ late' = late
        /\ stream' \in Seq(Bytes)
        /\ Len(stream) \in Nat /\ Len(stream') \in Nat
        /\ Len(stream') >= Len(stream)
    BY HostExtends DEF parser, TypeOK
  <2>. QED
    BY <2>1 DEF TypeOK
<1>2. /\ rest' \in Seq(Bytes)
      /\ begun' \in [first : Nat, quiet : BOOLEAN]
      /\ whole' \subseteq [first : Nat, quiet : BOOLEAN]
      /\ packets' \in 0..MaxPackets
      /\ flushes' \in 0..MaxFlushes
  <2>1. CASE \E type \in Types, left, right \in Levels :
                 HostBegin(type, left, right)
    BY <2>1, SerialAssumption
       DEF HostBegin, TypeOK, Bytes, END_MARKER
  <2>2. CASE HostByte
    BY <2>2 DEF HostByte, TypeOK
  <2>3. CASE HostFlush
    BY <2>3, SerialAssumption DEF HostFlush, TypeOK
  <2>. QED
    BY <2>1, <2>2, <2>3 DEF HostStep
<1>3. UNCHANGED <<parser, late, outgoing, motors, handled, replies>>
  BY HostExtends
<1>. QED
  BY <1>1, <1>2, <1>3 DEF TypeOK, parser

LEMMA HostWindow == ASSUME TypeOK, Window, HostStep PROVE Window'
<1>1. /\ \A i \in 1..Len(stream) : stream'[i] = stream[i]
      /\ UNCHANGED <<read, at, buffer_index, first, incoming>>
  BY HostExtends DEF parser
<1>2. /\ at # "start" => first \in 1..Len(stream)
      /\ at # "start" /\ buffer_index >= 1 => first + 1 \in 1..Len(stream)
      /\ at # "start" /\ buffer_index >= 2 => first + 2 \in 1..Len(stream)
      /\ at # "start" /\ buffer_index >= 3 => first + 3 \in 1..Len(stream)
      /\ at = "handle" => read \in 1..Len(stream)
  <2>1. /\ Len(stream) \in Nat /\ read \in 0..Len(stream)
        /\ buffer_index \in 0..3 /\ first \in 0..read
        /\ at \in {"start", "body", "end", "handle"}
    BY DEF TypeOK, ANDROID_BUFFER_LENGTH_IN
  <2>2. /\ at = "body" => read = first + buffer_index
        /\ at = "end" => read = first + 3
        /\ at = "handle" => read = first + 4
        /\ at # "start" => first >= 1
    BY DEF Window
  <2>. QED
    BY <2>1, <2>2
<1>. QED
  BY <1>1, <1>2 DEF Window

\* A packet that was read is in the longer stream what it was.
LEMMA HostSentAt ==
    ASSUME TypeOK, HostStep, NEW f \in Nat, f >= 1, f + 4 <= Len(stream)
    PROVE  /\ stream'[f] = stream[f]
           /\ stream'[f + 4] = stream[f + 4]
           /\ SentAt(f)' = SentAt(f)
<1>1. \A i \in 1..Len(stream) : stream'[i] = stream[i]
  BY HostExtends
<1>2. Len(stream) \in Nat
  BY DEF TypeOK
<1>3. /\ f \in 1..Len(stream)
      /\ f + 1 \in 1..Len(stream)
      /\ f + 2 \in 1..Len(stream)
      /\ f + 3 \in 1..Len(stream)
      /\ f + 4 \in 1..Len(stream)
  BY <1>2
<1>. QED
  BY <1>1, <1>3 DEF SentAt

LEMMA HostPast == ASSUME TypeOK, Past, HostStep PROVE Past'
<1>1. UNCHANGED <<read, at, first, handled, replies>>
  BY HostExtends DEF parser
<1>2. \A h \in handled :
          /\ stream'[h.first] = START_MARKER
          /\ stream'[h.first + 4] = END_MARKER
          /\ h = SentAt(h.first)'
  <2>. SUFFICES ASSUME NEW h \in handled
                PROVE  /\ stream'[h.first] = START_MARKER
                       /\ stream'[h.first + 4] = END_MARKER
                       /\ h = SentAt(h.first)'
    OBVIOUS
  <2>1. h.first \in Nat /\ h.first >= 1 /\ h.first + 4 <= Len(stream)
    BY DEF Past, TypeOK, Replies
  <2>. QED
    BY <2>1, HostSentAt DEF Past
<1>. QED
  BY <1>1, <1>2 DEF Past, Over, RepliesInOrder

LEMMA HostFraming == ASSUME TypeOK, Framing, HostStep PROVE Framing'
<1>. PICK place \in [1..Len(stream) -> Places] : Framed(place)
  BY DEF Framing
<1>0. Len(stream) \in Nat
  BY DEF TypeOK
<1>1. ASSUME NEW b, NEW p \in Places,
             stream' = Append(stream, b),
             WholeFirsts \subseteq WholeFirsts',
             p = 0 \/ (Len(stream) >= 1 /\ p = place[Len(stream)] + 1),
             p = 0 => b = START_MARKER,
             p = 1 => b \notin {START_MARKER, END_MARKER},
             p = 4 => b = END_MARKER /\ Len(stream) - 3 \in WholeFirsts',
             rest' # <<>> => /\ begun'.first = Len(stream) + 1 - p
                             /\ Len(rest') = 4 - p
      PROVE  \E q \in [1..Len(stream') -> Places] : Framed(q)'
  <2>1. /\ Len(stream') = Len(stream) + 1
        /\ \A i \in 1..Len(stream) : stream'[i] = stream[i]
        /\ stream'[Len(stream) + 1] = b
    BY <1>1 DEF TypeOK
  <2>2. PICK q \in [1..Len(stream') -> Places] :
            /\ \A i \in 1..Len(stream) : q[i] = place[i]
            /\ q[Len(stream) + 1] = p
    <3>. DEFINE f == [i \in 1..Len(stream') |->
                         IF i <= Len(stream) THEN place[i] ELSE p]
    <3>1. /\ f \in [1..Len(stream') -> Places]
          /\ \A i \in 1..Len(stream) : f[i] = place[i]
          /\ f[Len(stream) + 1] = p
      BY <1>0, <2>1
    <3>. HIDE DEF f
    <3>. QED
      BY <3>1
  <2>3. q[1] = 0
    BY <1>0, <1>1, <2>2 DEF Framed
  <2>4. \A i \in 1 .. Len(stream') - 1 : q[i + 1] \in {0, q[i] + 1}
    <3>1. ASSUME NEW i \in 1 .. Len(stream)
          PROVE  q[i + 1] \in {0, q[i] + 1}
      <4>1. CASE i = Len(stream)
        BY <1>0, <1>1, <2>2, <4>1
      <4>2. CASE i # Len(stream)
        <5>0. \A n \in Nat : \A k \in 1..n :
                  k # n => k \in 1 .. n - 1 /\ k + 1 \in 1..n
          OBVIOUS
        <5>1. i \in 1 .. Len(stream) - 1 /\ i + 1 \in 1..Len(stream)
          BY <1>0, <4>2, <5>0
        <5>. QED
          BY <2>2, <5>1 DEF Framed
      <4>. QED
        BY <4>1, <4>2
    <3>. QED
      BY <1>0, <2>1, <3>1
  <2>5. \A i \in 1 .. Len(stream') :
            /\ q[i] = 0 => stream'[i] = START_MARKER
            /\ q[i] = 1 => stream'[i] \notin {START_MARKER, END_MARKER}
            /\ q[i] = 4 => stream'[i] = END_MARKER /\ i - 4 \in WholeFirsts'
    <3>. SUFFICES ASSUME NEW i \in 1 .. Len(stream')
         PROVE  /\ q[i] = 0 => stream'[i] = START_MARKER
                /\ q[i] = 1 => stream'[i] \notin {START_MARKER, END_MARKER}
                /\ q[i] = 4 => /\ stream'[i] = END_MARKER
                               /\ i - 4 \in WholeFirsts'
      OBVIOUS
    <3>1. CASE i = Len(stream) + 1
      BY <1>0, <1>1, <2>1, <2>2, <3>1
    <3>2. CASE i \in 1..Len(stream)
      BY <1>1, <2>1, <2>2, <3>2 DEF Framed
    <3>. QED
      BY <1>0, <2>1, <3>1, <3>2
  <2>6. rest' # <<>> => /\ Len(stream') >= 1
                        /\ begun'.first = Len(stream') - q[Len(stream')]
                        /\ Len(rest') = 4 - q[Len(stream')]
    <3>1. q[Len(stream')] = p
      BY <2>1, <2>2
    <3>2. Len(stream') - q[Len(stream')] = Len(stream) + 1 - p
      BY <1>0, <2>1, <3>1 DEF Places
    <3>3. Len(stream') >= 1
      BY <1>0, <2>1
    <3>. QED
      BY <1>1, <3>1, <3>2, <3>3
  <2>7. Framed(q)'
    BY <2>3, <2>4, <2>5, <2>6 DEF Framed
  <2>. QED
    BY <2>2, <2>7
<1>2. ASSUME NEW type \in Types, NEW left \in Levels, NEW right \in Levels,
             HostBegin(type, left, right)
      PROVE  Framing'
  <2>1. /\ WholeFirsts' = WholeFirsts
        /\ stream' = Append(stream, START_MARKER)
        /\ rest' = <<type, left, right, END_MARKER>>
        /\ begun'.first = Len(stream) + 1
    BY <1>2 DEF HostBegin, WholeFirsts
  <2>2. Len(rest') = 4 /\ rest'[1] = type /\ rest'[4] = END_MARKER
    BY <2>1
  <2>3. \E q \in [1..Len(stream') -> Places] : Framed(q)'
    BY <1>0, <1>1, <2>1, <2>2 DEF Places
  <2>. QED
    BY <2>2, <2>3, SerialAssumption DEF Framing
<1>3. CASE HostByte
  <2>. DEFINE p == place[Len(stream)] + 1
  <2>1. /\ Len(stream) >= 1
        /\ place[Len(stream)] \in Places
        /\ begun.first = Len(stream) - place[Len(stream)]
        /\ Len(rest) = 4 - place[Len(stream)]
        /\ Len(rest) \in 1..4
        /\ rest[Len(rest)] = END_MARKER
        /\ Len(rest) = 4 => rest[1] \notin {START_MARKER, END_MARKER}
    <3>1. rest # <<>> /\ rest \in Seq(Bytes)
      BY <1>3 DEF HostByte, TypeOK
    <3>2. Len(rest) \in Nat \ {0}
      BY <3>1
    <3>3. /\ Len(stream) >= 1
          /\ begun.first = Len(stream) - place[Len(stream)]
          /\ Len(rest) = 4 - place[Len(stream)]
      BY <3>1 DEF Framed
    <3>4. place[Len(stream)] \in Places
      BY <1>0, <3>3
    <3>. QED
      BY <3>1, <3>2, <3>3, <3>4 DEF Framing
  <2>2. /\ Head(rest) = rest[1]
        /\ Len(rest') = Len(rest) - 1
        /\ \A i \in 1..Len(rest') : rest'[i] = rest[i + 1]
        /\ rest' = <<>> <=> Len(rest) = 1
        /\ rest' \in Seq(Bytes)
    <3>1. rest # <<>> /\ rest \in Seq(Bytes) /\ rest' = Tail(rest)
      BY <1>3 DEF HostByte, TypeOK
    <3>2. /\ rest' \in Seq(Bytes)
          /\ Len(rest') = Len(rest) - 1
          /\ \A i \in 1..Len(rest') : rest'[i] = rest[i + 1]
      BY <3>1
    <3>3. rest' = <<>> <=> Len(rest') = 0
      BY <3>2
    <3>. QED
      BY <2>1, <3>1, <3>2, <3>3
  <2>3. /\ stream' = Append(stream, rest[1])
        /\ begun' = begun
        /\ whole' = IF rest' = <<>> THEN whole \cup {begun} ELSE whole
    BY <1>3, <2>2 DEF HostByte
  <2>4. /\ WholeFirsts \subseteq WholeFirsts'
        /\ rest' = <<>> => begun.first \in WholeFirsts'
    BY <2>3 DEF WholeFirsts
  <2>5. p \in Places
    BY <2>1 DEF Places
  <2>6. /\ p = 1 => rest[1] \notin {START_MARKER, END_MARKER}
        /\ p = 4 => rest[1] = END_MARKER /\ Len(stream) - 3 \in WholeFirsts'
    BY <1>0, <2>1, <2>2, <2>4 DEF Places
  <2>7. rest' # <<>> => /\ begun'.first = Len(stream) + 1 - p
                        /\ Len(rest') = 4 - p
    BY <1>0, <2>1, <2>2, <2>3 DEF Places
  <2>8. p # 0
    BY <2>1 DEF Places
  <2>9. \E q \in [1..Len(stream') -> Places] : Framed(q)'
    BY <1>1, <2>1, <2>3, <2>4, <2>5, <2>6, <2>7, <2>8
  <2>10. rest' # <<>> => /\ Len(rest') <= 3
                         /\ rest'[Len(rest')] = END_MARKER
    <3>. SUFFICES ASSUME rest' # <<>>
                  PROVE  Len(rest') <= 3 /\ rest'[Len(rest')] = END_MARKER
      OBVIOUS
    <3>1. Len(rest') \in 1..Len(rest') /\ Len(rest') + 1 = Len(rest)
      BY <2>1, <2>2
    <3>. QED
      BY <2>1, <2>2, <3>1
  <2>. QED
    BY <2>1, <2>2, <2>9, <2>10 DEF Framing
<1>4. CASE HostFlush
  <2>1. stream' = stream /\ whole' = whole /\ rest' = <<>>
    BY <1>4 DEF HostFlush
  <2>2. Framed(place)'
    BY <2>1 DEF Framed, WholeFirsts
  <2>. QED
    BY <2>1, <2>2 DEF Framing
<1>. QED
  BY <1>2, <1>3, <1>4 DEF HostStep

LEMMA HostQuiet ==
    ASSUME TypeOK, Past, Framing, Quiet, HostStep
    PROVE  Quiet'
<1>0. /\ Len(stream) \in Nat /\ Len(stream') \in Nat
      /\ Len(stream') >= Len(stream)
      /\ \A i \in 1..Len(stream) : stream'[i] = stream[i]
      /\ UNCHANGED <<read, at, first, late, handled>>
      /\ read \in 0..Len(stream)
  BY HostExtends DEF TypeOK, parser
<1>1. ASSUME NEW b \in [first : Nat, quiet : BOOLEAN], InStep(b),
             b.first + 4 <= Len(stream')
                 => stream'[b.first + 4] = END_MARKER
      PROVE  InStep(b)'
  <2>1. b.first \in 1..Len(stream') /\ stream'[b.first] = START_MARKER
    BY <1>0, <1>1 DEF InStep
  <2>2. SentAt(b.first) \in handled => SentAt(b.first)' \in handled'
    <3>. SUFFICES ASSUME SentAt(b.first) \in handled
                  PROVE  SentAt(b.first)' = SentAt(b.first)
      BY <1>0
    <3>1. SentAt(b.first).first = b.first
      BY DEF SentAt, Reply
    <3>2. b.first \in Nat /\ b.first >= 1 /\ b.first + 4 <= Len(stream)
      BY <1>0, <3>1 DEF Past
    <3>. QED
      BY <3>2, HostSentAt
  <2>3. \/ at' = "start" /\ read' = b.first - 1
        \/ at' # "start" /\ first' = b.first
        \/ b.first \in late'
        \/ SentAt(b.first)' \in handled'
    BY <1>0, <1>1, <2>2 DEF InStep
  <2>. QED
    BY <1>1, <2>1, <2>3 DEF InStep
<1>2. /\ whole \subseteq [first : Nat, quiet : BOOLEAN]
      /\ begun \in [first : Nat, quiet : BOOLEAN]
  BY DEF TypeOK
<1>3. ASSUME NEW w \in whole
      PROVE  /\ w.first + 4 <= Len(stream')
             /\ w.quiet => InStep(w)'
  <2>1. w.first \in Nat /\ w.first + 4 <= Len(stream)
    BY <1>2 DEF Quiet
  <2>2. w.first + 4 <= Len(stream')
    BY <1>0, <2>1
  <2>3. w.quiet => InStep(w) /\ stream'[w.first + 4] = END_MARKER
    BY <1>0, <2>1 DEF Quiet, InStep
  <2>. QED
    BY <1>1, <1>2, <2>2, <2>3
<1>4. ASSUME NEW type \in Types, NEW left \in Levels, NEW right \in Levels,
             HostBegin(type, left, right)
      PROVE  Quiet'
  <2>1. /\ whole' = whole
        /\ begun' = [first |-> Len(stream) + 1,
                     quiet |-> at = "start" /\ read = Len(stream)]
        /\ Len(stream') = Len(stream) + 1
        /\ stream'[Len(stream) + 1] = START_MARKER
    BY <1>4 DEF HostBegin, TypeOK
  <2>2. begun'.quiet => InStep(begun)'
    <3>1. /\ begun'.first = Len(stream) + 1
          /\ begun'.quiet => at = "start" /\ read = Len(stream)
          /\ Len(stream') = Len(stream) + 1
      BY <2>1
    <3>2. /\ begun'.first \in 1..Len(stream')
          /\ ~(begun'.first + 4 <= Len(stream'))
          /\ begun'.first - 1 = Len(stream)
      <4>1. \A n \in Nat : /\ n + 1 \in 1 .. n + 1
                           /\ ~(n + 1 + 4 <= n + 1)
                           /\ n + 1 - 1 = n
        OBVIOUS
      <4>. QED
        BY <1>0, <3>1, <4>1
    <3>. QED
      BY <1>0, <2>1, <3>1, <3>2 DEF InStep
  <2>3. \A w \in whole' : /\ w.first + 4 <= Len(stream')
                          /\ w.quiet => InStep(w)'
    BY <1>3, <2>1
  <2>. QED
    BY <2>2, <2>3 DEF Quiet
<1>5. CASE HostByte
  <2>. PICK place \in [1..Len(stream) -> Places] : Framed(place)
    BY DEF Framing
  <2>1. rest # <<>> /\ rest \in Seq(Bytes)
    BY <1>5 DEF HostByte, TypeOK
  <2>2. /\ Len(stream) >= 1
        /\ begun.first = Len(stream) - place[Len(stream)]
        /\ Len(rest) = 4 - place[Len(stream)]
        /\ rest[Len(rest)] = END_MARKER
    BY <2>1 DEF Framed, Framing
  <2>3. place[Len(stream)] \in Places /\ Len(rest) \in Nat \ {0}
    BY <1>0, <2>1, <2>2
  <2>4. /\ begun' = begun
        /\ whole' = IF rest' = <<>> THEN whole \cup {begun} ELSE whole
        /\ Len(stream') = Len(stream) + 1
        /\ stream'[Len(stream) + 1] = rest[1]
        /\ rest' = <<>> => Len(rest) = 1
    <3>1. /\ stream \in Seq(Bytes)
          /\ Head(rest) = rest[1] /\ Head(rest) \in Bytes
          /\ Len(Tail(rest)) = Len(rest) - 1
      BY <2>1 DEF TypeOK
    <3>2. /\ stream' = Append(stream, Head(rest))
          /\ rest' = Tail(rest)
          /\ begun' = begun
          /\ whole' = IF rest' = <<>> THEN whole \cup {begun} ELSE whole
      BY <1>5 DEF HostByte
    <3>3. rest' = <<>> => Len(rest) = 1
      BY <2>3, <3>1, <3>2
    <3>. QED
      BY <3>1, <3>2, <3>3
  <2>5. PICK left \in Nat \ {0} :
            /\ left = Len(rest)
            /\ begun.first + 4 = Len(stream) + left
            /\ begun.first \in Nat
    BY <1>0, <1>2, <2>2, <2>3 DEF Places
  <2>6. rest' = <<>> => begun.first + 4 <= Len(stream')
    <3>. SUFFICES ASSUME rest' = <<>>
                  PROVE  begun.first + 4 <= Len(stream')
      OBVIOUS
    <3>1. left = 1
      BY <2>4, <2>5
    <3>2. Len(stream') = Len(stream) + 1
      BY <2>4
    <3>. QED
      BY <1>0, <2>5, <3>1, <3>2
  <2>7. begun.first + 4 <= Len(stream') => stream'[begun.first + 4] = END_MARKER
    <3>. SUFFICES ASSUME begun.first + 4 <= Len(stream')
                  PROVE  stream'[begun.first + 4] = END_MARKER
      OBVIOUS
    <3>1. Len(stream') = Len(stream) + 1
      BY <2>4
    <3>2. left = 1
      BY <1>0, <2>5, <3>1
    <3>. QED
      BY <2>2, <2>4, <2>5, <3>2
  <2>8. begun.quiet => InStep(begun)'
    <3>1. begun.quiet => InStep(begun)
      BY DEF Quiet
    <3>. QED
      BY <1>1, <1>2, <2>4, <2>7, <3>1 DEF InStep
  <2>. QED
    BY <1>3, <2>4, <2>6, <2>8 DEF Quiet
<1>6. CASE HostFlush
  <2>1. stream' = stream /\ whole' = whole /\ begun' = begun
    BY <1>6 DEF HostFlush
  <2>. QED
    BY <1>0, <2>1 DEF Quiet, InStep, SentAt
<1>. QED
  BY <1>4, <1>5, <1>6 DEF HostStep

-----------------------------------------------------------------------------
(* Steps of the firmware: the stream stays. *)

LEMMA FirmwareHost ==
    ASSUME UNCHANGED host
    PROVE  /\ stream' = stream
           /\ Framing => Framing'
           /\ \A f : SentAt(f)' = SentAt(f)
           /\ begun' = begun /\ whole' = whole
BY DEF host, Framing, Framed, WholeFirsts, SentAt

\* It is over after the step.
OverNext(f) == f <= first' /\ (at' # "start" => f < first')

\* A step that adds at most the window under way to what is handled and at
\* most one reply, to that window, while it gets over.
LEMMA FirmwarePast ==
    ASSUME TypeOK, Past, UNCHANGED host, read' \in Nat, read' >= read,
           \A f \in Nat : Over(f) => OverNext(f),
           handled' = handled \/ /\ handled' = handled \cup {SentAt(first)}
                                 /\ first >= 1
                                 /\ first + 4 <= read
                                 /\ stream[first] = START_MARKER
                                 /\ stream[first + 4] = END_MARKER
                                 /\ OverNext(first),
           replies' = replies \/ /\ \E r \in Replies :
                                        /\ r.first = first
                                        /\ replies' = Append(replies, r)
                                 /\ at # "start"
                                 /\ OverNext(first)
    PROVE  Past'
<1>0. /\ stream' = stream /\ (\A f : SentAt(f)' = SentAt(f))
      /\ read \in Nat /\ first \in Nat
      /\ \A f : SentAt(f).first = f
  BY FirmwareHost DEF TypeOK, SentAt, Reply
<1>1. \A h \in handled' :
          /\ h.first >= 1
          /\ h.first + 4 <= read'
          /\ stream'[h.first] = START_MARKER
          /\ stream'[h.first + 4] = END_MARKER
          /\ h = SentAt(h.first)'
          /\ OverNext(h.first)
  <2>1. ASSUME NEW h \in handled
        PROVE  /\ h.first >= 1
               /\ h.first + 4 <= read'
               /\ stream'[h.first] = START_MARKER
               /\ stream'[h.first + 4] = END_MARKER
               /\ h = SentAt(h.first)'
               /\ OverNext(h.first)
    <3>1. h.first \in Nat
      BY DEF TypeOK, Replies
    <3>2. /\ h.first >= 1
          /\ h.first + 4 <= read
          /\ stream[h.first] = START_MARKER
          /\ stream[h.first + 4] = END_MARKER
          /\ h = SentAt(h.first)
          /\ Over(h.first)
      BY DEF Past
    <3>. QED
      BY <1>0, <3>1, <3>2
  <2>2. CASE handled' = handled
    BY <2>1, <2>2
  <2>3. ASSUME handled' = handled \cup {SentAt(first)},
               NEW h \in handled', h = SentAt(first),
               first >= 1, first + 4 <= read,
               stream[first] = START_MARKER, stream[first + 4] = END_MARKER,
               OverNext(first)
        PROVE  /\ h.first >= 1
               /\ h.first + 4 <= read'
               /\ stream'[h.first] = START_MARKER
               /\ stream'[h.first + 4] = END_MARKER
               /\ h = SentAt(h.first)'
               /\ OverNext(h.first)
    <3>1. h.first = first
      BY <1>0, <2>3
    <3>2. OverNext(h.first)
      BY <2>3, <3>1
    <3>. QED
      BY <1>0, <2>3, <3>1, <3>2
  <2>. QED
    BY <2>1, <2>2, <2>3
<1>2. CASE replies' = replies
  <2>1. \A i \in 1..Len(replies) : OverNext(replies[i].first)
    <3>1. \A i \in 1..Len(replies) : replies[i] \in Replies
      BY DEF TypeOK
    <3>2. \A i \in 1..Len(replies) : replies[i].first \in Nat
      BY <3>1 DEF Replies
    <3>. QED
      BY <3>2 DEF Past
  <2>. QED
    BY <1>1, <1>2, <2>1 DEF Past, RepliesInOrder, Over, OverNext
<1>3. ASSUME NEW r \in Replies, r.first = first,
             replies' = Append(replies, r),
             at # "start", OverNext(first)
      PROVE  Past'
  <2>1. /\ Len(replies) \in Nat
        /\ Len(replies') = Len(replies) + 1
        /\ \A i \in 1..Len(replies) : replies'[i] = replies[i]
        /\ replies'[Len(replies) + 1] = r
        /\ \A i \in 1..Len(replies) : replies[i].first \in Nat
    <3>1. replies \in Seq(Replies) /\ r \in Replies
      BY <1>3 DEF TypeOK
    <3>2. \A i \in 1..Len(replies) : replies[i] \in Replies
      BY <3>1
    <3>3. \A i \in 1..Len(replies) : replies[i].first \in Nat
      BY <3>2 DEF Replies
    <3>. QED
      BY <1>3, <3>1, <3>3
  <2>2. \A i \in 1..Len(replies) : /\ replies[i].first < first
                                   /\ OverNext(replies[i].first)
    <3>1. \A i \in 1..Len(replies) : Over(replies[i].first)
      BY DEF Past
    <3>. QED
      BY <1>3, <2>1, <3>1 DEF Over
  <2>3. \A i \in 1..Len(replies') : OverNext(replies'[i].first)
    <3>1. ASSUME NEW i \in 1..Len(replies')
          PROVE  OverNext(replies'[i].first)
      <4>1. CASE i = Len(replies) + 1
        BY <1>3, <2>1, <4>1
      <4>2. CASE i \in 1..Len(replies)
        BY <2>1, <2>2, <4>2
      <4>. QED
        BY <2>1, <4>1, <4>2
    <3>. QED
      BY <3>1
  <2>4. RepliesInOrder'
    <3>. SUFFICES ASSUME NEW i \in 1..Len(replies'), NEW j \in 1..Len(replies'),
                         i < j
                  PROVE  replies'[i].first < replies'[j].first
      BY DEF RepliesInOrder
    <3>1. i \in 1..Len(replies)
      BY <2>1
    <3>2. CASE j = Len(replies) + 1
      BY <1>3, <2>1, <2>2, <3>1, <3>2
    <3>3. CASE j \in 1..Len(replies)
      BY <2>1, <3>1, <3>3 DEF Past, RepliesInOrder
    <3>. QED
      BY <2>1, <3>2, <3>3
  <2>. QED
    BY <1>1, <2>3, <2>4 DEF Past, Over, OverNext
<1>. QED
  BY <1>2, <1>3

\* A step that leaves a packet of a quiet start ahead or in the window under
\* way, or takes its window from under way to late or handled.
LEMMA FirmwareQuiet ==
    ASSUME TypeOK, Quiet, UNCHANGED host,
           late \subseteq late', handled \subseteq handled',
           \A b \in [first : Nat, quiet : BOOLEAN] :
               InStep(b) /\ \/ at = "start" /\ read = b.first - 1
                            \/ at # "start" /\ first = b.first
               => \/ at' = "start" /\ read' = b.first - 1
                  \/ at' # "start" /\ first' = b.first
                  \/ b.first \in late'
                  \/ SentAt(b.first) \in handled'
    PROVE  Quiet'
<1>1. stream' = stream /\ begun' = begun /\ whole' = whole
  BY FirmwareHost
<1>2. \A f : SentAt(f)' = SentAt(f)
  BY FirmwareHost
<1>3. whole \cup {begun} \subseteq [first : Nat, quiet : BOOLEAN]
  BY DEF TypeOK
<1>4. ASSUME NEW b \in whole \cup {begun}, b.quiet
      PROVE  InStep(b)'
  <2>1. InStep(b)
    BY <1>4 DEF Quiet
  <2>2. \/ at' = "start" /\ read' = b.first - 1
        \/ at' # "start" /\ first' = b.first
        \/ b.first \in late'
        \/ SentAt(b.first) \in handled'
    BY <1>3, <2>1 DEF InStep
  <2>. QED
    BY <1>1, <1>2, <2>1, <2>2 DEF InStep
<1>5. \A b \in whole' \cup {begun'} : b.quiet => InStep(b)'
  BY <1>1, <1>4
<1>6. \A w \in whole' : w.first + 4 <= Len(stream')
  BY <1>1 DEF Quiet
<1>. QED
  BY <1>5, <1>6 DEF Quiet

\* Every byte read has one entry.
LEMMA TakerGrows ==
    ASSUME TypeOK, NEW w \in Nat, taker' = Append(taker, w), read' = read + 1
    PROVE  taker' \in Seq(Nat) /\ Len(taker') = read'
BY DEF TypeOK

LEMMA GetStartInv == IInv /\ GetStart => IInv'
<1>. SUFFICES ASSUME IInv, GetStart
              PROVE  IInv'
  OBVIOUS
<1>. USE DEF IInv, GetStart
<1>1. TypeOK'
  <2>1. taker' \in Seq(Nat) /\ Len(taker') = read'
    <3>1. (IF NextByte = START_MARKER THEN first' ELSE 0) \in Nat
      BY DEF TypeOK
    <3>. QED
      BY <3>1, TakerGrows
  <2>. QED
    BY <2>1 DEF TypeOK, host, ANDROID_BUFFER_LENGTH_IN, Unread
<1>2. Window'
  BY DEF TypeOK, Window, host, NextByte, Unread
<1>3. Past'
  <2>1. /\ read \in Nat /\ first \in 0..read /\ read' = read + 1
        /\ at = "start"
        /\ \/ at' = "start" /\ first' = first
           \/ first' = read + 1
    BY DEF TypeOK
  <2>2. \A f \in Nat : Over(f) => OverNext(f)
    BY <2>1 DEF Over, OverNext
  <2>. QED
    BY <2>1, <2>2, FirmwarePast
<1>4. Framing'
  BY FirmwareHost
<1>5. Quiet'
  <2>1. ASSUME NEW b \in [first : Nat, quiet : BOOLEAN], InStep(b),
               read = b.first - 1
        PROVE  at' # "start" /\ first' = b.first
    <3>1. read + 1 = b.first /\ NextByte = START_MARKER
      BY <2>1 DEF TypeOK, InStep, NextByte
    <3>. QED
      BY <3>1
  <2>. QED
    BY <2>1, FirmwareQuiet
<1>. QED
  BY <1>1, <1>2, <1>3, <1>4, <1>5

LEMMA GetBodyInv == IInv /\ GetBody => IInv'
<1>. SUFFICES ASSUME IInv, GetBody
              PROVE  IInv'
  OBVIOUS
<1>. USE DEF IInv, GetBody
<1>0. /\ buffer_index \in 0..2
      /\ read = first + buffer_index
      /\ first \in Nat /\ read \in Nat
      /\ Len(stream) \in Nat
      /\ read' = read + 1
      /\ read' \in 1..Len(stream)
      /\ NextByte = stream[read']
      /\ NextByte \in Bytes
      /\ incoming \in Packets
      /\ buffer_index' = buffer_index + 1
      /\ at' = IF buffer_index = 2 THEN "end" ELSE "body"
  <2>1. /\ at = "body" /\ read < Len(stream)
        /\ first \in Nat /\ read \in Nat
        /\ stream \in Seq(Bytes) /\ Len(stream) \in Nat
        /\ incoming \in Packets
    BY DEF TypeOK, Unread
  <2>2. buffer_index \in 0..2 /\ read = first + buffer_index
    BY <2>1 DEF TypeOK, Window, ANDROID_BUFFER_LENGTH_IN
  <2>3. read' = read + 1 /\ read' \in 1..Len(stream)
    BY <2>1
  <2>4. NextByte = stream[read'] /\ NextByte \in Bytes
    BY <2>1, <2>3 DEF NextByte
  <2>. QED
    BY <2>1, <2>2, <2>3, <2>4 DEF ANDROID_BUFFER_LENGTH_IN
<1>1. TypeOK'
  <2>1. incoming' \in Packets
    BY <1>0 DEF Packets
  <2>2. taker' \in Seq(Nat) /\ Len(taker') = read'
    BY <1>0, TakerGrows
  <2>. QED
    <3>1. UNCHANGED <<stream, rest, begun, whole, packets, flushes>>
      BY DEF host
    <3>2. first' \in 0..read' /\ late' \subseteq 1..Len(stream')
      BY <1>0, <3>1 DEF TypeOK
    <3>3. /\ read' \in 0..Len(stream')
          /\ at' \in {"start", "body", "end", "handle"}
          /\ buffer_index' \in 0 .. ANDROID_BUFFER_LENGTH_IN + 1
      BY <1>0, <3>1 DEF ANDROID_BUFFER_LENGTH_IN
    <3>. HIDE DEF GetBody
    <3>4. UNCHANGED <<late, outgoing, motors, handled, replies>>
      BY DEF GetBody
    <3>. QED
      BY <2>1, <2>2, <3>1, <3>2, <3>3, <3>4 DEF TypeOK
<1>2. Window'
  <2>1. stream' = stream /\ first' = first
    BY DEF host
  <2>2. CASE buffer_index = 0
    BY <1>0, <2>1, <2>2 DEF Window, Packets
  <2>3. CASE buffer_index = 1
    BY <1>0, <2>1, <2>3 DEF Window, Packets
  <2>4. CASE buffer_index = 2
    BY <1>0, <2>1, <2>4 DEF Window, Packets
  <2>. QED
    BY <1>0, <2>2, <2>3, <2>4
<1>3. Past'
  <2>2. \A f \in Nat : Over(f) => OverNext(f)
    BY DEF Over, OverNext
  <2>. QED
    BY <1>0, <2>2, FirmwarePast
<1>4. Framing'
  BY FirmwareHost
<1>5. Quiet'
  BY <1>0, FirmwareQuiet
<1>. QED
  BY <1>1, <1>2, <1>3, <1>4, <1>5

\* What giving up a window leaves.
LEMMA SendNackInv ==
    ASSUME IInv, SendNack, at \in {"body", "end"}, UNCHANGED <<host, first>>,
           read' \in 0..Len(stream), read' >= read
    PROVE  /\ outgoing' \in Packets
           /\ replies' \in Seq(Replies)
           /\ incoming' \in Packets
           /\ buffer_index' \in 0..3
           /\ at' = "start"
           /\ Window'
           /\ handled' = handled => Past'
<1>. USE DEF IInv, SendNack
<1>0. /\ first \in Nat /\ first >= 1
      /\ outgoing \in Packets
      /\ replies \in Seq(Replies)
      /\ read \in Nat /\ read' \in Nat
  BY DEF TypeOK, Window
<1>1. outgoing' \in Packets
  <2>1. outgoing' = [outgoing EXCEPT !.type = NACK] /\ NACK \in Bytes
    BY DEF NACK, Bytes
  <2>. QED
    BY <1>0, <2>1 DEF Packets
<1>2. PICK r \in Replies : r.first = first /\ replies' = Append(replies, r)
  <2>. DEFINE r == Reply(first, outgoing')
  <2>1. r \in Replies /\ r.first = first
    BY <1>0, <1>1 DEF Reply, Replies, Packets
  <2>. QED
    BY <2>1
<1>3. replies' \in Seq(Replies)
  BY <1>0, <1>2
<1>4. Window'
  BY DEF Window
<1>6. /\ incoming' \in Packets /\ buffer_index' \in 0..3 /\ at' = "start"
  BY DEF NoPacket, Packet, Packets, Bytes
<1>5. handled' = handled => Past'
  <2>1. \A f \in Nat : Over(f) => OverNext(f)
    BY DEF Over, OverNext
  <2>2. OverNext(first)
    BY <1>0 DEF OverNext
  <2>. QED
    BY <1>0, <1>2, <2>1, <2>2, FirmwarePast
<1>. QED
  BY <1>1, <1>3, <1>4, <1>5, <1>6

LEMMA GetTimeoutInv == IInv /\ GetTimeout => IInv'
<1>. SUFFICES ASSUME IInv, GetTimeout
              PROVE  IInv'
  OBVIOUS
<1>. USE DEF IInv, GetTimeout
<1>1. /\ outgoing' \in Packets
      /\ replies' \in Seq(Replies)
      /\ incoming' \in Packets
      /\ buffer_index' \in 0..3
      /\ at' = "start"
      /\ Window'
      /\ Past'
  <2>1. read' \in 0..Len(stream) /\ read' >= read
    BY DEF TypeOK
  <2>. QED
    BY <2>1, SendNackInv
<1>2. TypeOK'
  <2>1. first \in 1..Len(stream)
    <3>1. first \in 0..read /\ read \in 0..Len(stream) /\ Len(stream) \in Nat
      BY DEF TypeOK
    <3>2. first >= 1
      BY DEF Window
    <3>. QED
      BY <3>1, <3>2
  <2>2. late' \subseteq 1..Len(stream')
    BY <2>1 DEF TypeOK, host
  <2>. QED
    BY <1>1, <2>2 DEF TypeOK, host, ANDROID_BUFFER_LENGTH_IN
<1>3. Framing'
  BY FirmwareHost
<1>4. Quiet'
  BY FirmwareQuiet DEF SendNack
<1>. QED
  BY <1>1, <1>2, <1>3, <1>4

LEMMA GetEndInv == IInv /\ GetEnd => IInv'
<1>. SUFFICES ASSUME IInv, GetEnd
              PROVE  IInv'
  OBVIOUS
<1>. USE DEF IInv, GetEnd
<1>0. /\ read = first + 3 /\ first \in Nat /\ first >= 1
      /\ Len(stream) \in Nat
      /\ read' = read + 1
      /\ read' \in 0..Len(stream) /\ read' >= read
      /\ NextByte = stream[first + 4]
      /\ read' = first + 4
  <2>1. /\ read \in 0..Len(stream) /\ Len(stream) \in Nat
        /\ first \in 0..read
    BY DEF TypeOK
  <2>2. read = first + 3 /\ first >= 1
    BY DEF Window
  <2>3. read' = read + 1 /\ read < Len(stream)
    BY DEF Unread
  <2>4. read + 1 = first + 4
    BY <2>1, <2>2
  <2>. QED
    BY <2>1, <2>2, <2>3, <2>4 DEF NextByte
<1>1. CASE NextByte = END_MARKER
  <2>1. TypeOK'
    BY <1>0, <1>1 DEF TypeOK, host
  <2>2. Window'
    BY <1>0, <1>1 DEF Window, host
  <2>3. Past'
    <3>1. \A f \in Nat : Over(f) => OverNext(f)
      BY <1>1 DEF Over, OverNext
    <3>. QED
      BY <1>0, <1>1, <3>1, FirmwarePast
  <2>4. Quiet'
    BY <1>0, <1>1, FirmwareQuiet
  <2>. QED
    BY <2>1, <2>2, <2>3, <2>4, FirmwareHost
<1>2. CASE NextByte # END_MARKER
  <2>1. /\ outgoing' \in Packets
        /\ replies' \in Seq(Replies)
        /\ incoming' \in Packets
        /\ buffer_index' \in 0..3
        /\ at' = "start"
        /\ Window'
        /\ Past'
    BY <1>0, <1>2, SendNackInv
  <2>2. TypeOK'
    <3>1. first' \in 0..read'
      BY <1>0
    <3>. QED
      BY <1>0, <2>1, <3>1 DEF TypeOK, host, ANDROID_BUFFER_LENGTH_IN
  <2>3. Quiet'
    <3>1. ASSUME NEW b \in [first : Nat, quiet : BOOLEAN], InStep(b),
                 first = b.first
          PROVE  FALSE
      BY <1>0, <1>2, <3>1 DEF InStep
    <3>. QED
      BY <1>0, <3>1, FirmwareQuiet
  <2>. QED
    BY <2>1, <2>2, <2>3, FirmwareHost
<1>. QED
  BY <1>1, <1>2

\* Every branch of handle_packet, which ends the window as Done does.
LEMMA DoneInv ==
    ASSUME IInv, at = "handle", Done,
           outgoing' \in Packets,
           motors' \in [Motors -> Bytes],
           replies' = replies \/ \E r \in Replies :
                                     /\ r.first = first
                                     /\ replies' = Append(replies, r)
    PROVE  IInv'
<1>. USE DEF IInv
<1>0. /\ read \in Nat /\ Len(stream) \in Nat /\ first \in Nat /\ first >= 1
      /\ read = first + 4 /\ read' = read /\ first' = first
      /\ at' = "start" /\ late' = late
      /\ handled' = handled \cup {Reply(first, incoming)}
      /\ incoming \in Packets /\ replies \in Seq(Replies)
  BY DEF TypeOK, Window, Done
<1>1. Reply(first, incoming) = SentAt(first)
  <2>1. /\ incoming.type = stream[first + 1]
        /\ incoming.left = stream[first + 2]
        /\ incoming.right = stream[first + 3]
    BY DEF Window
  <2>. QED
    BY <2>1 DEF SentAt, Reply, Packet
<1>2. Reply(first, incoming) \in Replies
  BY <1>0 DEF Reply, Replies, Packets
<1>3. TypeOK'
  <2>1. replies' \in Seq(Replies)
    BY <1>0
  <2>2. incoming' \in Packets /\ buffer_index' \in 0..3
    BY DEF Done, NoPacket, Packet, Packets, Bytes
  <2>3. handled' \subseteq Replies
    BY <1>0, <1>2 DEF TypeOK
  <2>. QED
    BY <1>0, <2>1, <2>2, <2>3 DEF TypeOK, Done, host, ANDROID_BUFFER_LENGTH_IN
<1>4. Window'
  BY DEF Window, Done, host
<1>5. Past'
  <2>1. \A f \in Nat : Over(f) => OverNext(f)
    BY <1>0 DEF Over, OverNext
  <2>2. OverNext(first)
    BY <1>0 DEF OverNext
  <2>3. stream[first] = START_MARKER /\ stream[first + 4] = END_MARKER
    BY <1>0 DEF Window
  <2>4. UNCHANGED host
    BY DEF Done
  <2>. QED
    BY <1>0, <1>1, <2>1, <2>2, <2>3, <2>4, FirmwarePast
<1>6. Framing'
  BY FirmwareHost DEF Done
<1>7. Quiet'
  BY <1>0, <1>1, FirmwareQuiet DEF Done
<1>. QED
  BY <1>3, <1>4, <1>5, <1>6, <1>7

LEMMA HandleInv ==
    ASSUME IInv, HandleLog \/ HandleSet \/ HandleGetState \/ HandleSilently
    PROVE  IInv'
<1>0. /\ outgoing \in Packets /\ incoming \in Packets
      /\ motors \in [Motors -> Bytes]
      /\ first \in Nat
  BY DEF IInv, TypeOK
<1>1. ASSUME NEW p \in Packets, replies' = Append(replies, Reply(first, p))
      PROVE  \E r \in Replies : r.first = first /\ replies' = Append(replies, r)
  <2>1. Reply(first, p) \in Replies /\ Reply(first, p).first = first
    BY <1>0 DEF Reply, Replies, Packets
  <2>. QED
    BY <1>1, <2>1
<1>2. CASE HandleLog
  <2>1. Packet(GET_LOG, 0, 0) \in Packets
    BY DEF Packet, Packets, GET_LOG, Bytes
  <2>. QED
    BY <1>0, <1>1, <1>2, <2>1, DoneInv DEF HandleLog
<1>3. CASE HandleSet
  <2>1. motors' \in [Motors -> Bytes]
    <3>1. \A m \in Motors : incoming[m] \in Bytes
      BY <1>0 DEF Packets, Motors
    <3>. QED
      BY <1>0, <1>3, <3>1 DEF HandleSet
  <2>. QED
    BY <1>0, <1>1, <1>3, <2>1, DoneInv DEF HandleSet
<1>4. CASE HandleGetState
  <2>1. Packet(GET_STATE, 0, 0) \in Packets
    BY DEF Packet, Packets, GET_STATE, Bytes
  <2>. QED
    BY <1>0, <1>1, <1>4, <2>1, DoneInv DEF HandleGetState
<1>5. CASE HandleSilently
  <2>1. [outgoing EXCEPT !.type = NACK] \in Packets
    BY <1>0 DEF Packets, NACK, Bytes
  <2>. QED
    BY <1>0, <1>5, <2>1, DoneInv DEF HandleSilently
<1>. QED
  BY <1>2, <1>3, <1>4, <1>5

LEMMA NextIInv == IInv /\ [Next]_vars => IInv'
<1>. SUFFICES ASSUME IInv, [Next]_vars
              PROVE  IInv'
  OBVIOUS
<1>1. CASE HostStep
  BY <1>1, HostTypeOK, HostWindow, HostPast, HostFraming, HostQuiet DEF IInv
<1>2. CASE GetBlock
  BY <1>2, GetStartInv, GetBodyInv, GetTimeoutInv, GetEndInv, HandleInv
     DEF GetBlock
<1>3. CASE UNCHANGED vars
  <2>1. /\ UNCHANGED <<stream, rest, begun, whole, packets, flushes>>
        /\ UNCHANGED <<read, at, buffer_index, first, taker, late, incoming>>
        /\ UNCHANGED <<outgoing, motors, handled, replies>>
        /\ UNCHANGED host
    BY <1>3 DEF vars, host
  <2>2. TypeOK' /\ Window'
    BY <2>1 DEF IInv, TypeOK, Window
  <2>3. Past'
    BY <2>1 DEF IInv, Past, Over, SentAt, RepliesInOrder
  <2>4. Quiet'
    BY <2>1 DEF IInv, Quiet, InStep, SentAt
  <2>. QED
    BY <2>1, <2>2, <2>3, <2>4, FirmwareHost DEF IInv
<1>. QED
  BY <1>1, <1>2, <1>3 DEF Next, HostStep

LEMMA Invariant == Spec => []IInv
BY InitIInv, NextIInv, PTL DEF Spec

-----------------------------------------------------------------------------
\* Every variable keeps its type: get_block never reads past what arrived and
\* never counts past its two bytes of data (serial_comm_manager.c:42-101).
THEOREM TypeCorrect == Spec => []TypeOK
<1>1. IInv => TypeOK
  BY DEF IInv
<1>. QED
  BY <1>1, Invariant, PTL

\* Replies come in the order of the windows they answer and never two to one
\* window (reset_packet_and_send_nack and the replies of handle_packet).
THEOREM RepliesAreInOrder == Spec => []RepliesInOrder
<1>1. IInv => RepliesInOrder
  BY DEF IInv, Past
<1>. QED
  BY <1>1, Invariant, PTL

\* A packet whose START byte arrives when nothing is unread and no window is
\* open is handled as it was sent, or one of its bytes came too slowly,
\* whatever was cut off before (serial_comm_manager.c:27-37, 42-101).
THEOREM BackInStep == Spec => []InStepAfterQuiet
<1>1. IInv => InStepAfterQuiet
  <2>. SUFFICES ASSUME IInv, NEW w \in whole, w.quiet, read >= w.first + 4,
                       at # "handle", w.first \notin late
                PROVE  SentAt(w.first) \in handled
    BY DEF InStepAfterQuiet
  <2>1. /\ w.first \in Nat /\ read \in Nat
        /\ at \in {"start", "body", "end", "handle"}
        /\ buffer_index \in 0..3
    BY DEF IInv, TypeOK, ANDROID_BUFFER_LENGTH_IN
  <2>2. InStep(w)
    BY DEF IInv, Quiet
  <2>3. ~(at = "start" /\ read = w.first - 1)
    BY <2>1
  <2>4. ~(at # "start" /\ first = w.first)
    <3>1. at # "start" => /\ buffer_index <= 3 /\ read = first + buffer_index
      BY <2>1 DEF IInv, Window
    <3>. QED
      BY <2>1, <3>1
  <2>. QED
    BY <2>2, <2>3, <2>4 DEF InStep
<1>. QED
  BY <1>1, Invariant, PTL

\* A window whose type is answered and whose data holds no START byte lies on
\* one packet of the host: its bytes have the places 0 to 4.
LEMMA WindowIsPacket ==
    ASSUME Framing, Len(stream) \in Nat, NEW f \in Nat, f >= 1,
           f + 4 <= Len(stream),
           stream[f] = START_MARKER, stream[f + 4] = END_MARKER,
           stream[f + 1] \in Answering,
           stream[f + 2] # START_MARKER, stream[f + 3] # START_MARKER
    PROVE  f \in WholeFirsts
<1>. PICK place \in [1..Len(stream) -> Places] : Framed(place)
  BY DEF Framing
<1>1. stream[f + 1] \notin {START_MARKER, END_MARKER}
  BY DEF Answering, GET_LOG, SET_MOTOR_LEVEL, GET_STATE, START_MARKER,
         END_MARKER
<1>2. START_MARKER # END_MARKER
  BY DEF START_MARKER, END_MARKER
<1>3. /\ f \in 1 .. Len(stream) - 1 /\ f + 1 \in 1 .. Len(stream) - 1
      /\ f + 2 \in 1 .. Len(stream) - 1 /\ f + 3 \in 1 .. Len(stream) - 1
      /\ f + 4 \in 1 .. Len(stream)
  OBVIOUS
<1>4. /\ place[f + 1] \in {0, place[f] + 1}
      /\ place[f + 2] \in {0, place[f + 1] + 1}
      /\ place[f + 3] \in {0, place[f + 2] + 1}
      /\ place[f + 4] \in {0, place[f + 3] + 1}
  <2>1. \A i \in 1 .. Len(stream) - 1 : place[i + 1] \in {0, place[i] + 1}
    BY DEF Framed
  <2>2. (f + 1) + 1 = f + 2 /\ (f + 2) + 1 = f + 3 /\ (f + 3) + 1 = f + 4
    OBVIOUS
  <2>. QED
    BY <1>3, <2>1, <2>2
<1>5. /\ place[f] \in Places /\ place[f + 1] \in Places
      /\ place[f + 2] \in Places /\ place[f + 3] \in Places
      /\ place[f + 4] \in Places
  BY <1>3
<1>6. /\ place[f] # 1 /\ place[f] # 4
      /\ place[f + 1] # 0 /\ place[f + 1] # 4
      /\ place[f + 2] # 0 /\ place[f + 3] # 0 /\ place[f + 4] # 0
  BY <1>1, <1>2, <1>3 DEF Framed
<1>7. place[f] = 0 /\ place[f + 4] = 4
  BY <1>4, <1>5, <1>6 DEF Places
<1>. QED
  BY <1>3, <1>7 DEF Framed

\* A command that changes or reports something is one the host sent as a whole,
\* unless a START byte in its data shows that the window runs over the start of
\* the next packet (serial_comm_manager.c:57-76).
THEOREM CommandsAreSent == Spec => []OnlySentCommands
<1>1. IInv => OnlySentCommands
  <2>. SUFFICES ASSUME IInv, NEW h \in handled, h.type \in Answering,
                       START_MARKER \notin {h.left, h.right}
                PROVE  h.first \in WholeFirsts /\ h = SentAt(h.first)
    BY DEF OnlySentCommands
  <2>1. /\ h.first \in Nat /\ h.first >= 1 /\ h.first + 4 <= Len(stream)
        /\ Len(stream) \in Nat
        /\ stream[h.first] = START_MARKER
        /\ stream[h.first + 4] = END_MARKER
        /\ h = SentAt(h.first)
    <3>1. h.first \in Nat /\ read \in 0..Len(stream) /\ Len(stream) \in Nat
      BY DEF IInv, TypeOK, Replies
    <3>2. /\ h.first >= 1 /\ h.first + 4 <= read
          /\ stream[h.first] = START_MARKER
          /\ stream[h.first + 4] = END_MARKER
          /\ h = SentAt(h.first)
      BY DEF IInv, Past
    <3>. QED
      BY <3>1, <3>2
  <2>2. /\ h.type = stream[h.first + 1]
        /\ h.left = stream[h.first + 2]
        /\ h.right = stream[h.first + 3]
    BY <2>1 DEF SentAt, Reply, Packet
  <2>. QED
    BY <2>1, <2>2, WindowIsPacket DEF IInv
<1>. QED
  BY <1>1, Invariant, PTL
=============================================================================
