-------------------------- MODULE RP2040Log_proofs --------------------------
(***************************************************************************)
(* Proofs about RP2040Log for every set of callers, every set of messages  *)
(* and every size of the ring.                                             *)
(***************************************************************************)
EXTENDS RP2040Log, TLAPS

-----------------------------------------------------------------------------
(* Index arithmetic. *)

\* An index that passed the end of the ring at most once wraps by subtraction.
LEMMA WrapOnce ==
    ASSUME NEW a \in Nat, a < LineCount + LineCount
    PROVE  /\ a < LineCount => Wrap(a) = a
           /\ a >= LineCount => Wrap(a) = a - LineCount
<1>. LineCount \in Nat \ {0}
  BY LogAssumption
<1>1. CASE a < LineCount
  BY <1>1, Z3 DEF Wrap
<1>2. CASE a >= LineCount
  <2>1. (a - LineCount) \in 0 .. LineCount - 1
    BY <1>2
  <2>2. a = 1 * LineCount + (a - LineCount)
    OBVIOUS
  <2>. QED
    BY <1>2, <2>1, <2>2, Z3 DEF Wrap
<1>. QED
  BY <1>1, <1>2

\* The slot after a slot (log_buffer.tail + 1) % LOG_BUFFER_LINE_COUNT.
LEMMA FollowingSlot ==
    ASSUME NEW i \in Slots
    PROVE  /\ i + 1 = LineCount => Following(i) = 0
           /\ i + 1 < LineCount => Following(i) = i + 1
           /\ Following(i) \in Slots
<1>1. /\ LineCount \in Nat \ {0}
      /\ i \in Nat /\ i < LineCount
  BY LogAssumption DEF Slots
<1>. QED
  BY <1>1, WrapOnce DEF Slots, Following

\* Counting k places from the slot after t is counting k + 1 places from t.
LEMMA FollowingShift ==
    ASSUME NEW t \in Slots, NEW k \in 0 .. LineCount - 1
    PROVE  /\ Wrap(Following(t) + k) = Wrap(t + k + 1)
           /\ Wrap(t + k) \in Slots
           /\ k # 0 => Wrap(t + k) # t
           /\ Wrap(t) = t
           /\ k = LineCount - 1 => Wrap(t + k + 1) = t
           /\ Following(Wrap(t + k)) = Wrap(t + k + 1)
<1>1. /\ LineCount \in Nat \ {0}
      /\ t \in Nat /\ t < LineCount
      /\ k \in Nat /\ k < LineCount
  BY LogAssumption DEF Slots
<1>2. /\ t + k < LineCount => Wrap(t + k) = t + k
      /\ t + k >= LineCount => Wrap(t + k) = t + k - LineCount
  BY <1>1, WrapOnce
<1>3. /\ t + k + 1 < LineCount => Wrap(t + k + 1) = t + k + 1
      /\ t + k + 1 >= LineCount => Wrap(t + k + 1) = t + k + 1 - LineCount
  BY <1>1, WrapOnce
<1>4. Wrap(t + k) \in Slots
  BY <1>1, <1>2 DEF Slots
<1>5. Wrap(Following(t) + k) = Wrap(t + k + 1)
  <2>1. CASE t + 1 < LineCount
    BY <1>1, <2>1, FollowingSlot
  <2>2. CASE t + 1 = LineCount
    BY <1>1, <1>3, <2>2, FollowingSlot, WrapOnce
  <2>. QED
    BY <1>1, <2>1, <2>2
<1>6. Following(Wrap(t + k)) = Wrap(t + k + 1)
  BY <1>1, <1>2, <1>3, <1>4, FollowingSlot
<1>7. Wrap(t) = t
  BY <1>1, WrapOnce
<1>. QED
  BY <1>1, <1>2, <1>3, <1>4, <1>5, <1>6, <1>7

-----------------------------------------------------------------------------
(* The inductive invariant. *)

LEMMA LineInLines ==
    ASSUME NEW m \in Messages
    PROVE  /\ Line(m) \in Lines
           /\ LineSize(m) \in 0 .. CharLimit
           /\ Line(m).chars <= LineSize(m)
BY LogAssumption DEF Lines, Line, LineSize

\* While every stored text fits its size, printing with that precision prints
\* the whole text.
LEMMA VisibleIsLine ==
    ASSUME IInv, NEW i \in Slots
    PROVE  Visible(i) = log_array[i]
<1>1. log_array[i].chars \in Int
  BY LogAssumption DEF IInv, TypeOK, Lines, Line, LineSize, Empty
<1>2. log_array_line_size[i] \in Int /\ log_array[i].chars <= log_array_line_size[i]
  BY LogAssumption DEF IInv, TypeOK, RingInv
<1>. QED
  BY <1>1, <1>2 DEF Visible

LEMMA InitIInv == Init => IInv
<1>. SUFFICES ASSUME Init
              PROVE  IInv
  OBVIOUS
<1>1. 0 \in Slots
  BY LogAssumption DEF Slots
<1>2. TypeOK
  BY <1>1, LogAssumption DEF Init, TypeOK, Critical, InLog, InDump
<1>3. LockInv
  BY LogAssumption DEF Init, LockInv, Critical, InLog, InDump
<1>4. RingInv
  BY LogAssumption DEF Init, RingInv, Empty
<1>. QED
  BY <1>2, <1>3, <1>4 DEF IInv

\* A core that takes the mutex was outside every critical section, and so was
\* everybody else.
LEMMA AcquireKeepsIInv ==
    ASSUME IInv, NEW c \in Callers, NEW from, NEW to,
           AcquireLock(c, from, to),
           \/ from = "log_enter" /\ to = "format"
           \/ from = "dump_enter" /\ to = "count"
    PROVE  IInv'
<1>. USE LogAssumption
<1>1. TypeOK'
  BY DEF IInv, TypeOK, AcquireLock, Goto, ring, reply, Critical, InLog, InDump
<1>2. LockInv'
  BY DEF IInv, TypeOK, LockInv, AcquireLock, Goto, Critical, InLog, InDump
<1>3. RingInv'
  <2>1. pc[Reader] # "flush"
    BY DEF IInv, LockInv, AcquireLock, Critical, InDump
  <2>2. pc'[Reader] # "flush"
    BY <2>1 DEF IInv, TypeOK, AcquireLock, Goto
  <2>. QED
    BY <2>1, <2>2 DEF IInv, RingInv, AcquireLock, ring, reply
<1>. QED
  BY <1>1, <1>2, <1>3 DEF IInv

LEMMA FormatKeepsIInv ==
    ASSUME IInv, NEW c \in Callers, FormatLine(c)
    PROVE  IInv'
<1>. USE LogAssumption
<1>1. arg[c] \in Messages
  BY DEF IInv, LockInv, FormatLine, InLog
<1>2. TypeOK'
  BY <1>1, LineInLines
     DEF IInv, TypeOK, FormatLine, Goto, reply, Critical, InLog, InDump
<1>3. LockInv'
  BY DEF IInv, TypeOK, LockInv, FormatLine, Goto, Critical, InLog, InDump
<1>4. RingInv'
  <2>1. pc[Reader] # "flush"
    BY DEF IInv, LockInv, FormatLine, Critical, InLog, InDump
  <2>2. pc'[Reader] # "flush"
    BY <2>1 DEF IInv, TypeOK, FormatLine, Goto
  <2>3. \A i \in Slots : log_array'[i].chars <= log_array_line_size'[i]
    BY <1>1, LineInLines DEF IInv, TypeOK, RingInv, FormatLine
  <2>. QED
    BY <2>1, <2>2, <2>3 DEF IInv, RingInv, FormatLine
<1>. QED
  BY <1>2, <1>3, <1>4 DEF IInv

LEMMA AdvanceKeepsIInv ==
    ASSUME IInv, NEW c \in Callers, AdvanceEnds(c)
    PROVE  IInv'
<1>. USE LogAssumption
<1>1. TypeOK'
  BY FollowingSlot
     DEF IInv, TypeOK, AdvanceEnds, Goto, ring, reply, Critical, InLog, InDump
<1>2. LockInv'
  BY DEF IInv, TypeOK, LockInv, AdvanceEnds, Goto, Critical, InLog, InDump
<1>3. RingInv'
  <2>1. pc[Reader] # "flush"
    BY DEF IInv, LockInv, AdvanceEnds, Critical, InLog, InDump
  <2>2. pc'[Reader] # "flush"
    BY <2>1 DEF IInv, TypeOK, AdvanceEnds, Goto
  <2>. QED
    BY <2>1, <2>2 DEF IInv, RingInv, AdvanceEnds, ring, reply
<1>. QED
  BY <1>1, <1>2, <1>3 DEF IInv

LEMMA ReleaseKeepsIInv ==
    ASSUME IInv, NEW c \in Callers, ReleaseLock(c)
    PROVE  IInv'
<1>. USE LogAssumption
<1>1. TypeOK'
  BY DEF IInv, TypeOK, ReleaseLock, Goto, ring, reply, Critical, InLog, InDump
<1>2. LockInv'
  BY DEF IInv, TypeOK, LockInv, ReleaseLock, Goto, Critical, InLog, InDump
<1>3. RingInv'
  <2>1. pc[Reader] # "flush"
    BY DEF IInv, LockInv, ReleaseLock, Critical, InDump
  <2>2. pc'[Reader] # "flush"
    BY <2>1 DEF IInv, TypeOK, ReleaseLock, Goto
  <2>. QED
    BY <2>1, <2>2 DEF IInv, RingInv, ReleaseLock, ring, reply
<1>. QED
  BY <1>1, <1>2, <1>3 DEF IInv

\* A call that only waits for the mutex.
LEMMA CallKeepsIInv ==
    ASSUME IInv,
           DumpCall \/ \E c \in Callers, m \in Messages : LogCall(c, m)
    PROVE  IInv'
<1>. USE LogAssumption
<1>1. TypeOK'
  BY DEF IInv, TypeOK, LogCall, DumpCall, Goto, ring, reply, Critical,
         InLog, InDump
<1>2. LockInv'
  BY DEF IInv, TypeOK, LockInv, LogCall, DumpCall, Goto, Critical, InLog,
         InDump
<1>3. RingInv'
  <2>1. pc'[Reader] = "flush" <=> pc[Reader] = "flush"
    BY DEF IInv, TypeOK, LogCall, DumpCall, Goto
  <2>. QED
    BY <2>1 DEF IInv, RingInv, LogCall, DumpCall, ring, reply
<1>. QED
  BY <1>1, <1>2, <1>3 DEF IInv

LEMMA CountKeepsIInv ==
    ASSUME IInv, CountBytes
    PROVE  IInv'
<1>. USE LogAssumption
<1>1. TypeOK'
  BY DEF IInv, TypeOK, CountBytes, Goto, ring, Critical, InLog, InDump
<1>2. LockInv'
  BY DEF IInv, TypeOK, LockInv, CountBytes, Goto, Critical, InLog, InDump
<1>3. RingInv'
  <2>1. head = tail /\ Wrap(tail + 0) = tail /\ tail \in Nat
    BY FollowingShift DEF IInv, TypeOK, RingInv, CountBytes, Slots
  <2>2. printed' = <<>> /\ Len(printed') = 0
    BY DEF CountBytes
  <2>. QED
    BY <2>1, <2>2 DEF IInv, RingInv, CountBytes, ring
<1>. QED
  BY <1>1, <1>2, <1>3 DEF IInv

\* A round of the flush loop prints the slot head has come to.
LEMMA FlushKeepsIInv ==
    ASSUME IInv, FlushLine
    PROVE  IInv'
<1>. USE LogAssumption
<1>. DEFINE n == Len(printed)
<1>1. /\ n \in 0 .. LineCount - 1
      /\ head = Wrap(tail + n)
      /\ head \in Slots /\ tail \in Slots
      /\ printed \in Seq(Lines \cup {Empty})
      /\ pc[Reader] = "flush"
  BY DEF IInv, TypeOK, RingInv, FlushLine
<1>2. Visible(head) = log_array[head] /\ log_array[head] \in Lines \cup {Empty}
  BY <1>1, VisibleIsLine DEF IInv, TypeOK
<1>3. /\ printed' \in Seq(Lines \cup {Empty})
      /\ Len(printed') = n + 1
      /\ \A k \in 1 .. n : printed'[k] = printed[k]
      /\ printed'[n + 1] = log_array[Wrap(tail + n)]
  BY <1>1, <1>2 DEF FlushLine
<1>4. head' = Wrap(tail + n + 1)
  BY <1>1, FollowingShift DEF FlushLine
<1>5. TypeOK'
  BY <1>1, <1>3, FollowingSlot
     DEF IInv, TypeOK, FlushLine, Goto, ring, Critical, InLog, InDump
<1>6. LockInv'
  BY DEF IInv, TypeOK, LockInv, FlushLine, Goto, Critical, InLog, InDump
<1>7. RingInv'
  <2>1. CASE n + 1 = LineCount
    <3>1. pc'[Reader] # "flush"
      BY <2>1 DEF IInv, TypeOK, FlushLine, Goto
    <3>2. Wrap(tail + n + 1) = tail
      BY <1>1, <2>1, FollowingShift
    <3>. QED
      BY <1>4, <3>1, <3>2 DEF IInv, RingInv, FlushLine, ring
  <2>2. CASE n + 1 # LineCount
    <3>1. pc'[Reader] = "flush" /\ n + 1 < LineCount
      BY <1>1, <2>2 DEF FlushLine
    <3>2. \A k \in 1 .. n + 1 : printed'[k] = log_array[Wrap(tail + k - 1)]
      <4>. TAKE k \in 1 .. n + 1
      <4>1. CASE k = n + 1
        <5>1. tail + k - 1 = tail + n
          BY <1>1, <4>1 DEF Slots
        <5>. QED
          BY <1>3, <4>1, <5>1
      <4>2. CASE k \in 1 .. n
        BY <1>1, <1>3, <4>2 DEF IInv, RingInv
      <4>. QED
        BY <1>1, <4>1, <4>2
    <3>3. /\ Len(printed') \in 0 .. LineCount - 1
          /\ head' = Wrap(tail + Len(printed'))
      BY <1>1, <1>3, <1>4, <3>1 DEF Slots
    <3>4. UNCHANGED <<tail, log_array, log_array_line_size>>
      BY DEF FlushLine, ring
    <3>5. \A k \in 1 .. Len(printed') :
              printed'[k] = log_array'[Wrap(tail' + k - 1)]
      BY <1>3, <3>2, <3>4
    <3>6. \A i \in Slots : log_array'[i].chars <= log_array_line_size'[i]
      BY <3>4 DEF IInv, RingInv
    <3>7. Len(printed') < LineCount /\ head' = Wrap(tail' + Len(printed'))
      BY <3>3, <3>4, LogAssumption
    <3>. QED
      BY <3>1, <3>5, <3>6, <3>7 DEF RingInv
  <2>. QED
    BY <2>1, <2>2
<1>. QED
  BY <1>5, <1>6, <1>7 DEF IInv

LEMMA NextIInv == IInv /\ [Next]_vars => IInv'
<1>. SUFFICES ASSUME IInv, [Next]_vars
              PROVE  IInv'
  OBVIOUS
<1>1. ASSUME NEW c \in Callers, LogEnter(c)
      PROVE  IInv'
  BY <1>1, AcquireKeepsIInv DEF LogEnter
<1>2. ASSUME NEW c \in Callers, FormatLine(c)
      PROVE  IInv'
  BY <1>2, FormatKeepsIInv
<1>3. ASSUME NEW c \in Callers, AdvanceEnds(c)
      PROVE  IInv'
  BY <1>3, AdvanceKeepsIInv
<1>4. ASSUME NEW c \in Callers, ReleaseLock(c)
      PROVE  IInv'
  BY <1>4, ReleaseKeepsIInv
<1>5. CASE DumpCall \/ \E c \in Callers, m \in Messages : LogCall(c, m)
  BY <1>5, CallKeepsIInv
<1>6. CASE DumpEnter
  BY <1>6, AcquireKeepsIInv, LogAssumption DEF DumpEnter
<1>7. CASE CountBytes
  BY <1>7, CountKeepsIInv
<1>8. CASE FlushLine
  BY <1>8, FlushKeepsIInv
<1>9. CASE UNCHANGED vars
  BY <1>9 DEF IInv, TypeOK, LockInv, RingInv, vars
<1>. QED
  BY <1>1, <1>2, <1>3, <1>4, <1>5, <1>6, <1>7, <1>8, <1>9
     DEF Next, LogStep, DumpStep

\* Whoever is inside a critical section owns the mutex, and the ends of the ring
\* differ only while the dump walks from head to tail (rp2040_log.c:36-98).
THEOREM InductiveInvariant == Spec => []IInv
<1>. QED
  BY InitIInv, NextIInv, PTL DEF Spec

\* The types of the ring, its ends, the mutex and the callers.
THEOREM TypeCorrect == Spec => []TypeOK
<1>1. IInv => TypeOK
  BY DEF IInv
<1>. QED
  BY <1>1, InductiveInvariant, PTL

\* Whenever nobody holds the mutex, a dump would start at the oldest line.
THEOREM EndsMeetAlways == Spec => []EndsMeet
<1>1. IInv => EndsMeet
  BY LogAssumption DEF IInv, LockInv, RingInv, EndsMeet, Critical, InDump
<1>. QED
  BY <1>1, InductiveInvariant, PTL

-----------------------------------------------------------------------------
(* Refinement of RecentLines. *)

LEMMA InitRecent == Init => Recent!Init
<1>. SUFFICES ASSUME Init
              PROVE  Recent!Init
  OBVIOUS
<1>1. Oldest = 0
  BY DEF Init, Oldest
<1>2. \A i \in 1 .. LineCount : Wrap(Oldest + i - 1) \in Slots
  BY <1>1, WrapOnce, LogAssumption DEF Slots
<1>. QED
  BY <1>2 DEF Init, Recent!Init, Window

\* Steps that touch neither the slots nor tail, and no core at "advance".
LEMMA WindowUnchanged ==
    ASSUME IInv, UNCHANGED <<log_array, tail>>,
           (\E c \in Callers : pc[c] = "advance")'
               <=> \E c \in Callers : pc[c] = "advance"
    PROVE  Window' = Window
BY DEF Window, Oldest

\* Formatting into the oldest slot records the line: from here on the window
\* starts one slot later and ends in the new line.
LEMMA FormatRecords ==
    ASSUME IInv, NEW c \in Callers, FormatLine(c)
    PROVE  Recent!Record(Line(arg[c])) /\ Line(arg[c]) \in Lines
<1>. USE LogAssumption
<1>1. arg[c] \in Messages
  BY DEF IInv, LockInv, FormatLine, InLog
<1>2. tail \in Slots
  BY DEF IInv, TypeOK
<1>3. Oldest = tail
  BY DEF IInv, LockInv, FormatLine, Oldest, Critical, InLog
<1>4. Oldest' = Following(tail)
  BY DEF IInv, TypeOK, FormatLine, Goto, Oldest
<1>5. log_array' = [log_array EXCEPT ![tail] = Line(arg[c])]
  BY DEF FormatLine
<1>6. \A i \in 1 .. LineCount :
          Window'[i] = IF i = LineCount THEN Line(arg[c]) ELSE Window[i + 1]
  <2>. TAKE i \in 1 .. LineCount
  <2>. DEFINE k == i - 1
  <2>1. k \in 0 .. LineCount - 1 /\ Following(tail) + i - 1 = Following(tail) + k
    BY <1>2, FollowingSlot DEF Slots
  <2>2. Window'[i] = log_array'[Wrap(Following(tail) + k)]
    BY <1>4, <2>1 DEF Window
  <2>3. Wrap(Following(tail) + k) = Wrap(tail + k + 1)
    BY <1>2, <2>1, FollowingShift
  <2>4. CASE i = LineCount
    <3>1. Wrap(tail + k + 1) = tail
      BY <1>2, <2>1, <2>4, FollowingShift
    <3>. QED
      BY <1>2, <1>5, <2>2, <2>3, <2>4, <3>1 DEF IInv, TypeOK
  <2>5. CASE i # LineCount
    <3>1. i \in 0 .. LineCount - 1 /\ i # 0 /\ tail + k + 1 = tail + i
      BY <1>2, <2>5 DEF Slots
    <3>2. Wrap(tail + i) # tail /\ Wrap(tail + i) \in Slots
      BY <1>2, <3>1, FollowingShift
    <3>3. Window[i + 1] = log_array[Wrap(tail + i)]
      BY <1>2, <1>3, <3>1 DEF Window, Slots
    <3>. QED
      BY <1>5, <2>2, <2>3, <2>5, <3>1, <3>2, <3>3 DEF IInv, TypeOK
  <2>. QED
    BY <2>4, <2>5
<1>7. Window' = [i \in 1 .. LineCount |->
                    IF i = LineCount THEN Line(arg[c]) ELSE Window[i + 1]]
  BY <1>6 DEF Window
<1>8. UNCHANGED dumped
  BY DEF FormatLine, reply
<1>. QED
  BY <1>1, <1>7, <1>8, LineInLines DEF Recent!Record

\* Counting the line (moving tail) changes nothing of what is remembered.
LEMMA AdvanceStutters ==
    ASSUME IInv, NEW c \in Callers, AdvanceEnds(c)
    PROVE  UNCHANGED <<Window, dumped>>
<1>1. Oldest = Following(tail)
  BY DEF AdvanceEnds, Oldest
<1>2. Oldest' = Following(tail)
  BY LogAssumption
     DEF IInv, TypeOK, LockInv, AdvanceEnds, Goto, Oldest, Critical, InLog
<1>. QED
  BY <1>1, <1>2 DEF AdvanceEnds, Window, ring, reply

\* A round of the flush loop stutters, but for the last one, which delivers.
LEMMA FlushDelivers ==
    ASSUME IInv, FlushLine
    PROVE  Recent!Deliver \/ UNCHANGED <<Window, dumped>>
<1>. USE LogAssumption
<1>. DEFINE n == Len(printed)
<1>1. /\ n \in 0 .. LineCount - 1
      /\ head = Wrap(tail + n)
      /\ head \in Slots /\ tail \in Slots
      /\ printed \in Seq(Lines \cup {Empty})
  BY DEF IInv, TypeOK, RingInv, FlushLine
<1>2. Oldest = tail /\ Oldest' = tail
  BY DEF IInv, TypeOK, LockInv, FlushLine, Goto, Oldest, Critical, InLog,
         InDump
<1>3. Window' = Window
  BY <1>2 DEF Window, FlushLine, ring
<1>4. CASE n + 1 = LineCount
  <2>1. Visible(head) = log_array[Wrap(tail + n)]
        /\ Visible(head) \in Lines \cup {Empty}
    BY <1>1, VisibleIsLine DEF IInv, TypeOK
  <2>2. /\ printed' \in Seq(Lines \cup {Empty})
        /\ Len(printed') = LineCount
        /\ \A k \in 1 .. n : printed'[k] = printed[k]
        /\ printed'[LineCount] = log_array[Wrap(tail + n)]
    BY <1>1, <1>4, <2>1 DEF FlushLine
  <2>3. \A k \in 1 .. LineCount : printed'[k] = Window[k]
    <3>. TAKE k \in 1 .. LineCount
    <3>1. CASE k = LineCount
      <4>1. tail + k - 1 = tail + n
        BY <1>1, <1>4, <3>1 DEF Slots
      <4>. QED
        BY <1>2, <2>2, <3>1, <4>1 DEF Window
    <3>2. CASE k \in 1 .. n
      BY <1>2, <2>2, <3>2 DEF IInv, RingInv, Window, FlushLine
    <3>. QED
      BY <1>1, <1>4, <3>1, <3>2
  <2>4. printed' = Window
    BY <2>2, <2>3 DEF Window
  <2>5. dumped' = Window
    BY <1>4, <2>4 DEF FlushLine
  <2>. QED
    BY <1>3, <2>5 DEF Recent!Deliver
<1>5. CASE n + 1 # LineCount
  BY <1>3, <1>5 DEF FlushLine
<1>. QED
  BY <1>4, <1>5

\* Every other step leaves the window and the delivered reply alone.
LEMMA OthersStutter ==
    ASSUME IInv,
           \/ \E c \in Callers : LogEnter(c) \/ ReleaseLock(c)
           \/ \E c \in Callers, m \in Messages : LogCall(c, m)
           \/ DumpCall
           \/ DumpEnter
           \/ CountBytes
           \/ UNCHANGED vars
    PROVE  UNCHANGED <<Window, dumped>>
<1>1. UNCHANGED <<log_array, tail, dumped>>
  BY DEF LogEnter, ReleaseLock, LogCall, DumpCall, DumpEnter, CountBytes,
         AcquireLock, ring, reply, vars
<1>2. \A c \in Callers : pc'[c] = "advance" <=> pc[c] = "advance"
  BY LogAssumption
     DEF IInv, TypeOK, LogEnter, ReleaseLock, LogCall, DumpCall, DumpEnter,
         CountBytes, AcquireLock, Goto, vars
<1>. QED
  BY <1>1, <1>2, WindowUnchanged

LEMMA NextRecent == IInv /\ [Next]_vars => [Recent!Next]_(Recent!vars)
<1>. SUFFICES ASSUME IInv, [Next]_vars
              PROVE  Recent!Next \/ UNCHANGED <<Window, dumped>>
  BY DEF Recent!vars
<1>1. ASSUME NEW c \in Callers, FormatLine(c)
      PROVE  Recent!Next
  BY <1>1, FormatRecords DEF Recent!Next
<1>2. ASSUME NEW c \in Callers, AdvanceEnds(c)
      PROVE  UNCHANGED <<Window, dumped>>
  BY <1>2, AdvanceStutters
<1>3. CASE FlushLine
  BY <1>3, FlushDelivers DEF Recent!Next
<1>. QED
  BY <1>1, <1>2, <1>3, OthersStutter DEF Next, LogStep, DumpStep

\* The ring under its mutex implements the log of the last LineCount lines.
THEOREM RingImplementsRecentLines == Spec => LastLinesInOrder
<1>. QED
  BY InitRecent, NextRecent, InductiveInvariant, PTL
     DEF Spec, LastLinesInOrder, Recent!Spec
=============================================================================
