-------------------------- MODULE CallQueue_proofs --------------------------
(***************************************************************************)
(* Proofs about CallQueue for every set of pins and every queue capacity.  *)
(***************************************************************************)
EXTENDS CallQueue, FiniteSetTheorems, TLAPS

\* What TypeOK does not say: the callback has a pin exactly while it runs, a
\* held pin latches falling edges only, and core 1 reads only for parse entries.
Shape ==
    /\ \A s \in HeldPins : latched[s] \subseteq {"fall"}
    /\ core1.at = "read" => core1.entry.func = "parse"
    /\ core1.at \in {"set", "log", "unlock"} => core1.entry \in Entries
    /\ core1.at = "set" => core1.entry.func # "parse"

IInv == TypeOK /\ Shape

LEMMA InitIInv == Init => IInv
BY QueueAssumption
   DEF Init, IInv, TypeOK, Shape, Pins, IdleIsr, NoEntry

\* An element of Entries is known by its function.
LEMMA EntryPin ==
    ASSUME NEW e \in Entries
    PROVE  /\ e.func \in {"parse", "attached", "detached"}
           /\ e.func = "parse" => e.src \in HeldPins /\ e = Entry("parse", e.src)
           /\ e.func # "parse" => e.src \in TogglePins
BY DEF Entries, Entry

LEMMA NextIInv == IInv /\ [Next]_vars => IInv'
<1>. SUFFICES ASSUME IInv, [Next]_vars
              PROVE  IInv'
  OBVIOUS
<1>. USE QueueAssumption
<1>1. ASSUME NEW s \in HeldPins, Alarm(s)
      PROVE  IInv'
  BY <1>1 DEF IInv, TypeOK, Shape, Pins, Alarm
<1>2. ASSUME NEW s \in TogglePins, Toggle(s)
      PROVE  IInv'
  BY <1>2 DEF IInv, TypeOK, Shape, Pins, Toggle
<1>3. ASSUME NEW s \in Pins, IsrTake(s)
      PROVE  IInv'
  <2>1. latched[s] \in (SUBSET {"rise", "fall"}) \ {{}}
    BY <1>3 DEF IInv, TypeOK, IsrTake
  <2>2. isr' \in BusyIsr
    BY <1>3, <2>1 DEF IsrTake, BusyIsr
  <2>. QED
    BY <1>3, <2>2 DEF IInv, TypeOK, Shape, IsrTake, devices
<1>4. CASE IsrCallback
  <2>. DEFINE s == isr.src
              func == Func(s, Edge(s, isr.events))
  <2>1. s \in Pins
    BY <1>4 DEF IInv, TypeOK, IsrCallback, IdleIsr, BusyIsr
  <2>2. Entry(func, s) \in Entries
    BY <2>1 DEF Entry, Entries, Func, Edge, Pins
  <2>3. \/ /\ call_queue' = Append(call_queue, Entry(func, s))
           /\ Len(call_queue) < Capacity
           /\ isr' = IdleIsr
           /\ accepted' = IF s \in TogglePins
                          THEN [accepted EXCEPT ![s] = func] ELSE accepted
        \/ /\ isr' = [isr EXCEPT !.at = "report"]
           /\ UNCHANGED <<call_queue, accepted>>
    BY <1>4 DEF IsrCallback, TryAdd
  <2>4. call_queue' \in Seq(Entries) /\ Len(call_queue') <= Capacity
    <3>1. call_queue \in Seq(Entries) /\ Len(call_queue) <= Capacity
      BY DEF IInv, TypeOK
    <3>. HIDE DEF func
    <3>. QED
      BY <2>2, <2>3, <3>1
  <2>5. accepted' \in [TogglePins -> {"attached", "detached"}]
    BY <2>3 DEF IInv, TypeOK, Func
  <2>6. isr' \in BusyIsr \cup {IdleIsr}
    BY <1>4, <2>3 DEF IInv, TypeOK, IsrCallback, IdleIsr, BusyIsr
  <2>7. latched' \in [Pins -> SUBSET {"rise", "fall"}]
        /\ \A t \in HeldPins : latched'[t] \subseteq {"fall"}
    BY <1>4, <2>1 DEF IInv, TypeOK, Shape, IsrCallback, Pins
  <2>. QED
    BY <1>4, <2>4, <2>5, <2>6, <2>7
       DEF IInv, TypeOK, Shape, IsrCallback, devices
<1>5. CASE IsrReport
  <2>1. isr' \in BusyIsr
    BY <1>5 DEF IInv, TypeOK, IsrReport, IdleIsr, BusyIsr
  <2>. QED
    BY <1>5, <2>1 DEF IInv, TypeOK, Shape, IsrReport, devices
<1>6. CASE ThreadLock \/ ThreadUnlock
  BY <1>6 DEF IInv, TypeOK, Shape, ThreadLock, ThreadUnlock, devices
<1>7. CASE Core1Pop
  <2>1. /\ Head(call_queue) \in Entries
        /\ Tail(call_queue) \in Seq(Entries)
        /\ Len(Tail(call_queue)) <= Capacity
    BY <1>7 DEF IInv, TypeOK, Core1Pop
  <2>. QED
    BY <1>7, <2>1 DEF IInv, TypeOK, Shape, Core1Pop, devices
<1>8. CASE Core1Read
  <2>1. core1.entry \in Entries /\ core1.entry.src \in Pins
    BY <1>8, EntryPin DEF IInv, TypeOK, Shape, Core1Read, Pins
  <2>. QED
    BY <1>8, <2>1 DEF IInv, TypeOK, Shape, Core1Read, Core1At
<1>9. CASE Core1Lock
  BY <1>9 DEF IInv, TypeOK, Shape, Core1Lock, Core1At, devices
<1>10. CASE Core1Unlock
  BY <1>10 DEF IInv, TypeOK, Shape, Core1Unlock, Core1At, devices
<1>11. CASE Core1Set
  <2>1. core1.entry \in Entries /\ core1.entry.src \in TogglePins
    BY <1>11, EntryPin DEF IInv, TypeOK, Shape, Core1Set
  <2>. QED
    BY <1>11, <2>1 DEF IInv, TypeOK, Shape, Core1Set, Core1At, devices
<1>12. CASE UNCHANGED vars
  BY <1>12 DEF IInv, TypeOK, Shape, vars
<1>. QED
  BY <1>1, <1>2, <1>3, <1>4, <1>5, <1>6, <1>7, <1>8, <1>9, <1>10, <1>11,
     <1>12 DEF Next, Core1Step

\* Every variable keeps its type: call_queue and the interrupt's latches hold only
\* what the callbacks and the chips put there, for any pins and any capacity.
THEOREM TypeCorrect == Spec => []TypeOK
<1>1. IInv => TypeOK
  BY DEF IInv
<1>. QED
  BY <1>1, InitIInv, NextIInv, PTL DEF Spec

-----------------------------------------------------------------------------
(* The alarm of a held pin. *)

\* The places are told apart by their names and positions.
LEMMA PlaceNames ==
    /\ \A i, j : <<"queue", i>> = <<"queue", j>> => i = j
    /\ \A i, j : /\ <<"queue", i>> # <<"latch", j>>
                 /\ <<"queue", i>> # <<"isr", j>>
                 /\ <<"queue", i>> # <<"core1", j>>
                 /\ <<"latch", i>> # <<"isr", j>>
                 /\ <<"latch", i>> # <<"core1", j>>
                 /\ <<"isr", i>> # <<"core1", j>>
OBVIOUS

\* When a place is the only one, the alarm is nowhere else.
LEMMA OnlyPlace ==
    ASSUME NEW s
    PROVE  /\ Places(s) = {<<"latch", 0>>} =>
                  /\ Queued(s) = {} /\ isr.src # s
                  /\ ~(core1.at = "read" /\ core1.entry.src = s)
           /\ Places(s) = {<<"isr", 0>>} =>
                  /\ Queued(s) = {} /\ latched[s] = {}
                  /\ ~(core1.at = "read" /\ core1.entry.src = s)
           /\ Places(s) = {<<"core1", 0>>} =>
                  Queued(s) = {} /\ latched[s] = {} /\ isr.src # s
           /\ \A i : Places(s) = {<<"queue", i>>} =>
                  /\ Queued(s) \subseteq {i} /\ latched[s] = {} /\ isr.src # s
                  /\ ~(core1.at = "read" /\ core1.entry.src = s)
<1>1. \A i \in Queued(s) : <<"queue", i>> \in Places(s)
  BY DEF Places
<1>2. latched[s] # {} => <<"latch", 0>> \in Places(s)
  BY DEF Places
<1>3. isr.src = s => <<"isr", 0>> \in Places(s)
  BY DEF Places
<1>4. core1.at = "read" /\ core1.entry.src = s => <<"core1", 0>> \in Places(s)
  BY DEF Places
<1>5. ASSUME Places(s) = {<<"latch", 0>>}
      PROVE  /\ Queued(s) = {} /\ isr.src # s
             /\ ~(core1.at = "read" /\ core1.entry.src = s)
  BY <1>1, <1>3, <1>4, <1>5, PlaceNames
<1>6. ASSUME Places(s) = {<<"isr", 0>>}
      PROVE  /\ Queued(s) = {} /\ latched[s] = {}
             /\ ~(core1.at = "read" /\ core1.entry.src = s)
  BY <1>1, <1>2, <1>4, <1>6, PlaceNames
<1>7. ASSUME Places(s) = {<<"core1", 0>>}
      PROVE  Queued(s) = {} /\ latched[s] = {} /\ isr.src # s
  BY <1>1, <1>2, <1>3, <1>7, PlaceNames
<1>8. ASSUME NEW i, Places(s) = {<<"queue", i>>}
      PROVE  /\ Queued(s) \subseteq {i} /\ latched[s] = {} /\ isr.src # s
             /\ ~(core1.at = "read" /\ core1.entry.src = s)
  BY <1>1, <1>2, <1>3, <1>4, <1>8, PlaceNames
<1>. QED
  BY <1>5, <1>6, <1>7, <1>8

LEMMA InitOnItsWay == Init => AlarmOnItsWayOnce
<1>. SUFFICES ASSUME Init, NEW s \in HeldPins
              PROVE  pin[s] = "high" /\ Places(s) = {}
  BY DEF AlarmOnItsWayOnce, OnItsWayOnce
<1>1. Queued(s) = {}
  BY DEF Init, Queued
<1>2. isr.src # s
  BY QueueAssumption DEF Init, IdleIsr
<1>. QED
  BY <1>1, <1>2 DEF Init, Places, Pins

\* A step that moves nothing of pin s.
LEMMA PlacesUnchanged ==
    ASSUME NEW s \in HeldPins, OnItsWayOnce(s),
           pin'[s] = pin[s],
           Queued(s)' = Queued(s),
           latched'[s] = latched[s],
           isr'.src = s <=> isr.src = s,
           (core1.at = "read" /\ core1.entry.src = s)'
               <=> core1.at = "read" /\ core1.entry.src = s
    PROVE  OnItsWayOnce(s)'
<1>1. Places(s)' = Places(s)
  BY DEF Places
<1>. QED
  BY <1>1 DEF OnItsWayOnce

\* Appending an entry for pin s adds one position for s and none for others.
LEMMA QueuedAppend ==
    ASSUME call_queue \in Seq(Entries), NEW e \in Entries, NEW s,
           call_queue' = Append(call_queue, e)
    PROVE  Queued(s)' = Queued(s) \cup {i \in {Len(call_queue) + 1} : e.src = s}
BY DEF Queued

\* Taking the head shifts every other position by one.
LEMMA QueuedTail ==
    ASSUME call_queue \in Seq(Entries), call_queue # <<>>, NEW s,
           call_queue' = Tail(call_queue)
    PROVE  Queued(s)' = {i - 1 : i \in Queued(s) \ {1}}
<1>1. /\ Len(call_queue') = Len(call_queue) - 1
      /\ Len(call_queue) \in Nat \ {0}
      /\ \A i \in 1 .. Len(call_queue') : call_queue'[i] = call_queue[i + 1]
  OBVIOUS
<1>2. ASSUME NEW i \in Queued(s)'
      PROVE  i + 1 \in Queued(s) \ {1} /\ i = (i + 1) - 1
  BY <1>1, <1>2 DEF Queued
<1>3. ASSUME NEW i \in Queued(s) \ {1}
      PROVE  i - 1 \in Queued(s)'
  BY <1>1, <1>3 DEF Queued
<1>. QED
  BY <1>2, <1>3

LEMMA NextOnItsWay ==
    IInv /\ AlarmOnItsWayOnce /\ [Next]_vars => AlarmOnItsWayOnce'
<1>. SUFFICES ASSUME IInv, AlarmOnItsWayOnce, [Next]_vars, NEW s \in HeldPins
              PROVE  OnItsWayOnce(s)'
  BY DEF AlarmOnItsWayOnce
<1>. USE QueueAssumption
<1>0. /\ s \in Pins /\ s \notin TogglePins /\ s # "none"
      /\ OnItsWayOnce(s)
      /\ call_queue \in Seq(Entries)
      /\ pin \in [Pins -> {"high", "low"}]
      /\ latched \in [Pins -> SUBSET {"rise", "fall"}]
      /\ latched[s] \subseteq {"fall"}
      /\ isr \in BusyIsr \cup {IdleIsr}
  BY DEF AlarmOnItsWayOnce, IInv, TypeOK, Shape, Pins
<1>1. ASSUME NEW t \in HeldPins, Alarm(t)
      PROVE  OnItsWayOnce(s)'
  <2>1. UNCHANGED <<isr, call_queue, core1>> /\ Queued(s)' = Queued(s)
    BY <1>1 DEF Alarm, Queued
  <2>2. CASE t = s
    <3>1. Places(s) = {} /\ pin'[s] = "low" /\ latched'[s] # {}
      BY <1>0, <1>1, <2>2 DEF Alarm, OnItsWayOnce
    <3>2. Places(s)' = {<<"latch", 0>>}
      BY <2>1, <3>1 DEF Places
    <3>. QED
      BY <3>1, <3>2 DEF OnItsWayOnce
  <2>3. CASE t # s
    <3>1. pin'[s] = pin[s] /\ latched'[s] = latched[s]
      BY <1>0, <1>1, <2>3 DEF Alarm, Pins
    <3>. QED
      BY <1>0, <2>1, <3>1, PlacesUnchanged
  <2>. QED
    BY <2>2, <2>3
<1>2. ASSUME NEW t \in TogglePins, Toggle(t)
      PROVE  OnItsWayOnce(s)'
  <2>1. UNCHANGED <<isr, call_queue, core1>> /\ Queued(s)' = Queued(s)
    BY <1>2 DEF Toggle, Queued
  <2>2. pin'[s] = pin[s] /\ latched'[s] = latched[s]
    BY <1>0, <1>2 DEF Toggle
  <2>. QED
    BY <1>0, <2>1, <2>2, PlacesUnchanged
<1>3. ASSUME NEW t \in Pins, IsrTake(t)
      PROVE  OnItsWayOnce(s)'
  <2>1. UNCHANGED <<pin, call_queue, core1>> /\ Queued(s)' = Queued(s)
    BY <1>3 DEF IsrTake, Queued, devices
  <2>2. isr.src # s /\ isr'.src = t
    BY <1>0, <1>3 DEF IsrTake, IdleIsr, BusyIsr
  <2>3. CASE t = s
    <3>1. <<"latch", 0>> \in Places(s)
      BY <1>3, <2>3 DEF IsrTake, Places
    <3>2. pin[s] = "low" /\ Places(s) = {<<"latch", 0>>}
      BY <1>0, <3>1 DEF OnItsWayOnce
    <3>3. Queued(s) = {} /\ ~(core1.at = "read" /\ core1.entry.src = s)
      BY <3>2, OnlyPlace
    <3>4. latched'[s] = {}
      BY <1>0, <1>3, <2>3 DEF IsrTake
    <3>5. Places(s)' = {<<"isr", 0>>}
      BY <2>1, <2>2, <2>3, <3>3, <3>4 DEF Places
    <3>. QED
      BY <2>1, <3>2, <3>5 DEF OnItsWayOnce
  <2>4. CASE t # s
    <3>1. latched'[s] = latched[s]
      BY <1>0, <1>3, <2>4 DEF IsrTake
    <3>. QED
      BY <1>0, <2>1, <2>2, <2>4, <3>1, PlacesUnchanged
  <2>. QED
    BY <2>3, <2>4
<1>4. CASE IsrCallback
  <2>. DEFINE t == isr.src
              edge == Edge(t, isr.events)
              e == Entry(Func(t, edge), t)
  <2>1. t \in Pins /\ isr.at = "callback"
    BY <1>0, <1>4 DEF IsrCallback, IdleIsr, BusyIsr
  <2>2. e \in Entries /\ e.src = t
    BY <2>1 DEF Entry, Entries, Func, Edge, Pins
  <2>3. UNCHANGED <<pin, core1>>
        /\ latched' = [latched EXCEPT ![t] = @ \ {edge}]
    BY <1>4 DEF IsrCallback, devices
  <2>4. CASE call_queue' = Append(call_queue, e) /\ isr' = IdleIsr
    <3>. HIDE DEF e
    <3>1. Queued(s)' = Queued(s) \cup {i \in {Len(call_queue) + 1} : t = s}
      BY <1>0, <2>2, <2>4, QueuedAppend
    <3>2. isr'.src # s
      BY <1>0, <2>4 DEF IdleIsr
    <3>3. CASE t = s
      <4>1. Places(s) = {<<"isr", 0>>} /\ pin[s] = "low"
        BY <1>0, <3>3 DEF Places, OnItsWayOnce
      <4>2. /\ Queued(s) = {} /\ latched[s] = {}
            /\ ~(core1.at = "read" /\ core1.entry.src = s)
        BY <4>1, OnlyPlace
      <4>3. latched'[s] = {}
        BY <1>0, <2>3, <3>3, <4>2
      <4>4. Queued(s)' = {Len(call_queue) + 1}
        BY <3>1, <3>3, <4>2
      <4>5. Places(s)' = {<<"queue", Len(call_queue) + 1>>}
        BY <2>3, <3>2, <4>2, <4>3, <4>4 DEF Places
      <4>. QED
        BY <2>3, <4>1, <4>5 DEF OnItsWayOnce
    <3>4. CASE t # s
      BY <1>0, <2>3, <3>1, <3>2, <3>4, PlacesUnchanged
    <3>. QED
      BY <3>3, <3>4
  <2>5. CASE isr' = [isr EXCEPT !.at = "report"] /\ UNCHANGED call_queue
    <3>1. isr'.src = t /\ Queued(s)' = Queued(s)
      BY <1>0, <2>1, <2>5 DEF BusyIsr, IdleIsr, Queued
    <3>2. latched'[s] = latched[s]
      <4>1. CASE t = s
        <5>1. PICK p : Places(s) = {p} \/ Places(s) = {}
          BY <1>0 DEF OnItsWayOnce
        <5>2. <<"isr", 0>> \in Places(s)
          BY <4>1 DEF Places
        <5>3. Places(s) = {<<"isr", 0>>}
          BY <5>1, <5>2
        <5>4. latched[s] = {}
          BY <5>3, OnlyPlace
        <5>. QED
          BY <1>0, <2>3, <4>1, <5>4
      <4>2. CASE t # s
        BY <1>0, <2>3, <4>2
      <4>. QED
        BY <4>1, <4>2
    <3>. QED
      BY <1>0, <2>3, <3>1, <3>2, PlacesUnchanged
  <2>. QED
    BY <1>4, <2>4, <2>5 DEF IsrCallback, TryAdd
<1>5. CASE IsrReport
  <2>1. UNCHANGED <<pin, latched, call_queue, core1>> /\ Queued(s)' = Queued(s)
    BY <1>5 DEF IsrReport, Queued, devices
  <2>2. isr'.src = isr.src
    BY <1>0, <1>5 DEF IsrReport, BusyIsr, IdleIsr
  <2>. QED
    BY <1>0, <2>1, <2>2, PlacesUnchanged
<1>6. CASE Core1Pop
  <2>1. UNCHANGED <<pin, latched, isr>>
        /\ call_queue # <<>> /\ call_queue' = Tail(call_queue)
        /\ core1.at = "pop" /\ core1'.entry = Head(call_queue)
        /\ core1'.at = IF Head(call_queue).func = "parse" THEN "read" ELSE "log"
    BY <1>6 DEF Core1Pop, devices
  <2>2. Queued(s)' = {i - 1 : i \in Queued(s) \ {1}}
    BY <1>0, <2>1, QueuedTail
  <2>3. /\ Head(call_queue) \in Entries
        /\ Head(call_queue) = call_queue[1]
        /\ 1 \in 1 .. Len(call_queue)
    BY <1>0, <2>1
  <2>4. Queued(s) \subseteq Int
    BY <1>0 DEF Queued
  <2>5. CASE Head(call_queue).src = s
    <3>1. <<"queue", 1>> \in Places(s)
      BY <2>3, <2>5 DEF Queued, Places
    <3>2. pin[s] = "low" /\ Places(s) = {<<"queue", 1>>}
      BY <1>0, <3>1 DEF OnItsWayOnce
    <3>3. Queued(s) \subseteq {1} /\ latched[s] = {} /\ isr.src # s
      BY <3>2, OnlyPlace
    <3>4. Queued(s)' = {}
      BY <2>2, <3>3
    <3>5. core1'.at = "read" /\ core1'.entry.src = s
      BY <1>0, <2>1, <2>3, <2>5, EntryPin
    <3>6. Places(s)' = {<<"core1", 0>>}
      BY <2>1, <3>3, <3>4, <3>5 DEF Places
    <3>. QED
      BY <2>1, <3>2, <3>6 DEF OnItsWayOnce
  <2>6. CASE Head(call_queue).src # s
    <3>1. 1 \notin Queued(s)
      BY <2>3, <2>6 DEF Queued
    <3>2. core1'.entry.src # s /\ core1.at # "read"
      BY <2>1, <2>6
    <3>3. Queued(s)' = {i - 1 : i \in Queued(s)}
      BY <2>2, <3>1
    <3>4. CASE Queued(s) = {}
      <4>1. Queued(s)' = Queued(s)
        BY <3>3, <3>4
      <4>. QED
        BY <1>0, <2>1, <3>2, <4>1, PlacesUnchanged
    <3>5. CASE Queued(s) # {}
      <4>1. PICK i \in Queued(s) : TRUE
        BY <3>5
      <4>2. <<"queue", i>> \in Places(s)
        BY <4>1 DEF Places
      <4>3. pin[s] = "low" /\ Places(s) = {<<"queue", i>>}
        BY <1>0, <4>2 DEF OnItsWayOnce
      <4>4. Queued(s) = {i} /\ latched[s] = {} /\ isr.src # s
        BY <4>1, <4>3, OnlyPlace
      <4>5. Queued(s)' = {i - 1}
        BY <3>3, <4>4
      <4>6. Places(s)' = {<<"queue", i - 1>>}
        BY <2>1, <3>2, <4>4, <4>5 DEF Places
      <4>. QED
        BY <2>1, <4>3, <4>6 DEF OnItsWayOnce
    <3>. QED
      BY <3>4, <3>5
  <2>. QED
    BY <2>5, <2>6
<1>7. CASE Core1Read
  <2>1. UNCHANGED <<latched, isr, call_queue>> /\ Queued(s)' = Queued(s)
        /\ core1.at = "read" /\ core1'.at = "log"
    BY <1>7 DEF Core1Read, Core1At, Queued, IInv, TypeOK
  <2>2. core1.entry.src \in Pins /\ pin' = [pin EXCEPT ![core1.entry.src] = "high"]
    BY <1>7, EntryPin DEF Core1Read, IInv, TypeOK, Shape, Pins
  <2>3. CASE core1.entry.src = s
    <3>1. Places(s) = {<<"core1", 0>>}
      BY <1>0, <2>1, <2>3 DEF Places, OnItsWayOnce
    <3>2. Places(s)' = {} /\ pin'[s] = "high"
      BY <1>0, <2>1, <2>2, <2>3, <3>1 DEF Places
    <3>. QED
      BY <3>2 DEF OnItsWayOnce
  <2>4. CASE core1.entry.src # s
    BY <1>0, <2>1, <2>2, <2>4, PlacesUnchanged
  <2>. QED
    BY <2>3, <2>4
<1>8. CASE Core1Lock \/ Core1Unlock \/ Core1Set
  <2>1. UNCHANGED <<pin, latched, isr, call_queue>> /\ Queued(s)' = Queued(s)
        /\ core1.at # "read" /\ core1'.at # "read"
    BY <1>8 DEF Core1Lock, Core1Unlock, Core1Set, Core1At, Queued, devices,
                IInv, TypeOK
  <2>. QED
    BY <1>0, <2>1, PlacesUnchanged
<1>9. CASE ThreadLock \/ ThreadUnlock \/ UNCHANGED vars
  <2>1. UNCHANGED <<pin, latched, isr, call_queue, core1>>
        /\ Queued(s)' = Queued(s)
    BY <1>9 DEF ThreadLock, ThreadUnlock, vars, devices, Queued
  <2>. QED
    BY <1>0, <2>1, PlacesUnchanged
<1>. QED
  BY <1>1, <1>2, <1>3, <1>4, <1>5, <1>6, <1>7, <1>8, <1>9
     DEF Next, Core1Step

\* A chip that holds its pin low has its alarm latched, in the callback, queued
\* or about to be read, in exactly one of these; no other chip has.
THEOREM AlarmNeverLostNorDoubled == Spec => []AlarmOnItsWayOnce
<1>. QED
  BY InitIInv, NextIInv, InitOnItsWay, NextOnItsWay, PTL DEF Spec

-----------------------------------------------------------------------------
(* The charger flag of a toggle pin. *)

\* Core 1 is running a function of pin s.
Running(s) == core1.at # "pop" /\ core1.entry.src = s

(***************************************************************************)
(* The function accepted last for a pin is the last one queued for it, or  *)
(* the one that runs if none is queued, or else what the flag says.        *)
(***************************************************************************)
LastQueued(s) == {i \in Queued(s) : \A j \in Queued(s) : j <= i}
Follows(s) ==
    /\ \A i \in LastQueued(s) : call_queue[i].func = accepted[s]
    /\ Queued(s) = {} /\ Running(s) => core1.entry.func = accepted[s]
    /\ Queued(s) = {} /\ ~Running(s) =>
           wireless_charger_attached[s] = (accepted[s] = "attached")

AllFollow == \A s \in TogglePins : Follows(s)

LEMMA InitFollows == Init => AllFollow
<1>. SUFFICES ASSUME Init, NEW s \in TogglePins
              PROVE  Follows(s)
  BY DEF AllFollow
<1>1. Queued(s) = {} /\ ~Running(s)
  BY DEF Init, Queued, Running
<1>2. wireless_charger_attached[s] = (accepted[s] = "attached")
  BY DEF Init
<1>. QED
  BY <1>1, <1>2 DEF Follows, LastQueued

\* A step that neither queues, takes, runs nor finishes a function of pin s.
LEMMA FollowsUnchanged ==
    ASSUME NEW s \in TogglePins, Follows(s),
           UNCHANGED <<call_queue, accepted>>,
           Running(s)' = Running(s),
           Running(s) => core1'.entry = core1.entry,
           wireless_charger_attached'[s] = wireless_charger_attached[s]
    PROVE  Follows(s)'
<1>1. Queued(s)' = Queued(s) /\ LastQueued(s)' = LastQueued(s)
  BY DEF Queued, LastQueued
<1>. QED
  BY <1>1 DEF Follows

LEMMA NextFollows == IInv /\ AllFollow /\ [Next]_vars => AllFollow'
<1>. SUFFICES ASSUME IInv, AllFollow, [Next]_vars, NEW s \in TogglePins
              PROVE  Follows(s)'
  BY DEF AllFollow
<1>. USE QueueAssumption
<1>0. /\ Follows(s)
      /\ s \in Pins /\ s \notin HeldPins /\ s # "none"
      /\ call_queue \in Seq(Entries)
      /\ isr \in BusyIsr \cup {IdleIsr}
      /\ accepted \in [TogglePins -> {"attached", "detached"}]
      /\ wireless_charger_attached \in [TogglePins -> BOOLEAN]
  BY DEF AllFollow, IInv, TypeOK, Pins
<1>1. CASE IsrCallback
  <2>. DEFINE t == isr.src
              func == Func(t, Edge(t, isr.events))
              e == Entry(func, t)
  <2>1. t \in Pins /\ UNCHANGED <<core1, wireless_charger_attached>>
    BY <1>0, <1>1 DEF IsrCallback, IdleIsr, BusyIsr
  <2>2. e \in Entries /\ e.src = t /\ e.func = func
    BY <2>1 DEF Entry, Entries, Func, Edge, Pins
  <2>3. CASE /\ call_queue' = Append(call_queue, e)
             /\ accepted' = IF t \in TogglePins
                            THEN [accepted EXCEPT ![t] = func] ELSE accepted
    <3>. HIDE DEF e
    <3>1. Queued(s)' = Queued(s) \cup {i \in {Len(call_queue) + 1} : t = s}
      BY <1>0, <2>2, <2>3, QueuedAppend
    <3>2. /\ Len(call_queue) \in Nat
          /\ call_queue'[Len(call_queue) + 1] = e
          /\ \A i \in Queued(s) : /\ i \in 1..Len(call_queue)
                                  /\ call_queue'[i] = call_queue[i]
      BY <1>0, <2>2, <2>3 DEF Queued
    <3>3. CASE t = s
      <4>1. \A i \in LastQueued(s)' : i = Len(call_queue) + 1
        BY <3>1, <3>2, <3>3 DEF LastQueued
      <4>2. accepted'[s] = func
        BY <1>0, <2>3, <3>3
      <4>3. Queued(s)' # {}
        BY <3>1, <3>3
      <4>. QED
        BY <2>2, <3>2, <4>1, <4>2, <4>3 DEF Follows
    <3>4. CASE t # s
      <4>1. Queued(s)' = Queued(s)
        BY <3>1, <3>4
      <4>2. LastQueued(s)' = LastQueued(s) /\ LastQueued(s) \subseteq Queued(s)
        BY <4>1 DEF LastQueued
      <4>3. accepted'[s] = accepted[s]
        BY <1>0, <2>3, <3>4
      <4>4. Running(s)' = Running(s)
        BY <2>1 DEF Running
      <4>. QED
        BY <1>0, <2>1, <3>2, <4>1, <4>2, <4>3, <4>4 DEF Follows
    <3>. QED
      BY <3>3, <3>4
  <2>4. CASE UNCHANGED <<call_queue, accepted>>
    BY <1>0, <2>1, <2>4, FollowsUnchanged DEF Running
  <2>. QED
    BY <1>1, <2>3, <2>4 DEF IsrCallback, TryAdd
<1>2. CASE Core1Pop
  <2>1. /\ UNCHANGED <<accepted, wireless_charger_attached>>
        /\ call_queue # <<>> /\ call_queue' = Tail(call_queue)
        /\ core1.at = "pop"
        /\ core1'.at # "pop"
        /\ core1'.entry = Head(call_queue)
    BY <1>2 DEF Core1Pop
  <2>2. Queued(s)' = {i - 1 : i \in Queued(s) \ {1}}
    BY <1>0, <2>1, QueuedTail
  <2>3. /\ Head(call_queue) = call_queue[1]
        /\ 1 \in Queued(s) <=> Head(call_queue).src = s
        /\ Queued(s) \subseteq 1..Len(call_queue)
        /\ Len(call_queue) \in Nat
        /\ \A i \in Queued(s)' : i + 1 \in Queued(s)
                                 /\ call_queue'[i] = call_queue[i + 1]
    <3>1. /\ Head(call_queue) = call_queue[1] /\ 1 \in 1..Len(call_queue)
          /\ Len(call_queue) \in Nat
      BY <1>0, <2>1
    <3>2. /\ Len(call_queue') = Len(call_queue) - 1
          /\ \A i \in 1 .. Len(call_queue') : call_queue'[i] = call_queue[i + 1]
      BY <1>0, <2>1
    <3>3. \A i \in Queued(s)' : i \in 1..Len(call_queue')
      BY DEF Queued
    <3>4. \A i \in Queued(s)' : i + 1 \in Queued(s)
      BY <3>1, <3>2 DEF Queued
    <3>. QED
      BY <3>1, <3>2, <3>3, <3>4 DEF Queued
  <2>4. \A i \in LastQueued(s)' : call_queue'[i].func = accepted'[s]
    <3>. SUFFICES ASSUME NEW i \in LastQueued(s)'
                  PROVE  call_queue'[i].func = accepted'[s]
      OBVIOUS
    <3>1. /\ i \in Queued(s)' /\ i + 1 \in Queued(s)
          /\ \A j \in Queued(s)' : j <= i
      <4>1. /\ i \in Queued(s)'
            /\ \A j \in Queued(s)' : j <= i
        BY DEF LastQueued
      <4>. QED
        BY <2>3, <4>1
    <3>2. ASSUME NEW j \in Queued(s)
          PROVE  j <= i + 1
      <4>1. j \in Int /\ i + 1 \in 1..Len(call_queue) /\ i \in Int
        BY <2>2, <2>3, <3>1
      <4>2. CASE j = 1
        BY <2>3, <3>1, <4>1, <4>2
      <4>3. CASE j # 1
        <5>1. j - 1 \in Queued(s)'
          BY <2>2, <4>3
        <5>. QED
          BY <3>1, <4>1, <5>1
      <4>. QED
        BY <4>2, <4>3
    <3>3. i + 1 \in LastQueued(s)
      BY <3>1, <3>2 DEF LastQueued
    <3>4. call_queue[i + 1].func = accepted[s]
      BY <1>0, <3>3 DEF Follows
    <3>. QED
      BY <2>1, <2>3, <3>1, <3>4
  <2>5. ASSUME Queued(s)' = {}
        PROVE  Queued(s) \subseteq {1}
    BY <2>2, <2>5
  <2>6. Queued(s)' = {} /\ Running(s)' => core1'.entry.func = accepted'[s]
    <3>. SUFFICES ASSUME Queued(s)' = {}, Running(s)'
                  PROVE  call_queue[1].func = accepted[s]
      BY <2>1, <2>3
    <3>1. 1 \in Queued(s)
      BY <2>1, <2>3 DEF Running
    <3>2. 1 \in LastQueued(s)
      BY <2>5, <3>1 DEF LastQueued
    <3>. QED
      BY <1>0, <3>2 DEF Follows
  <2>7. ASSUME Queued(s)' = {}, ~Running(s)'
        PROVE  wireless_charger_attached'[s] = (accepted'[s] = "attached")
    <3>1. Queued(s) = {} /\ ~Running(s)
      BY <2>1, <2>3, <2>5, <2>7 DEF Running
    <3>. QED
      BY <1>0, <2>1, <3>1 DEF Follows
  <2>. QED
    BY <2>4, <2>6, <2>7 DEF Follows
<1>3. CASE Core1Set
  <2>1. /\ UNCHANGED <<call_queue, accepted>>
        /\ core1.at = "set" /\ core1'.at = "pop"
        /\ wireless_charger_attached' =
              [wireless_charger_attached EXCEPT
                  ![core1.entry.src] = (core1.entry.func = "attached")]
    BY <1>3 DEF Core1Set, Core1At, IInv, TypeOK
  <2>2. Queued(s)' = Queued(s) /\ LastQueued(s)' = LastQueued(s)
    BY <2>1 DEF Queued, LastQueued
  <2>3. CASE core1.entry.src = s
    <3>1. wireless_charger_attached'[s] = (core1.entry.func = "attached")
      BY <1>0, <2>1, <2>3
    <3>2. Queued(s) = {} => core1.entry.func = accepted[s]
      BY <1>0, <2>1, <2>3 DEF Follows, Running
    <3>3. Running(s)' = FALSE
      BY <2>1 DEF Running
    <3>4. \A i \in LastQueued(s)' : call_queue'[i].func = accepted'[s]
      BY <1>0, <2>1, <2>2 DEF Follows
    <3>5. Queued(s)' = {} =>
              wireless_charger_attached'[s] = (accepted'[s] = "attached")
      BY <2>1, <2>2, <3>1, <3>2
    <3>. QED
      BY <3>3, <3>4, <3>5 DEF Follows
  <2>4. CASE core1.entry.src # s
    <3>1. wireless_charger_attached'[s] = wireless_charger_attached[s]
      BY <1>0, <2>1, <2>4
    <3>2. Running(s)' = Running(s) /\ ~Running(s)
      BY <2>1, <2>4, <1>3 DEF Running, Core1Set, Core1At, IInv, TypeOK
    <3>. QED
      BY <1>0, <2>1, <3>1, <3>2, FollowsUnchanged
  <2>. QED
    BY <2>3, <2>4
<1>4. CASE Core1Read \/ Core1Lock \/ Core1Unlock
  <2>1. /\ UNCHANGED <<call_queue, accepted, wireless_charger_attached>>
        /\ core1.at # "pop" /\ core1'.entry = core1.entry
        /\ core1.entry \in Entries
        /\ core1'.at # "pop" \/ core1.entry.func = "parse"
    BY <1>4 DEF Core1Read, Core1Lock, Core1Unlock, Core1At, IInv, TypeOK
  <2>2. core1.entry.func = "parse" => core1.entry.src # s
    BY <1>0, <2>1, EntryPin
  <2>3. Running(s)' = Running(s)
    BY <2>1, <2>2 DEF Running
  <2>. QED
    BY <1>0, <2>1, <2>3, FollowsUnchanged
<1>5. ASSUME UNCHANGED <<call_queue, accepted, core1, wireless_charger_attached>>
      PROVE  Follows(s)'
  BY <1>0, <1>5, FollowsUnchanged DEF Running
<1>6. CASE \/ \E t \in HeldPins : Alarm(t)
           \/ \E t \in TogglePins : Toggle(t)
           \/ \E t \in Pins : IsrTake(t)
           \/ IsrReport \/ ThreadLock \/ ThreadUnlock \/ UNCHANGED vars
  BY <1>5, <1>6 DEF Alarm, Toggle, IsrTake, IsrReport, ThreadLock,
                    ThreadUnlock, vars
<1>. QED
  BY <1>1, <1>2, <1>3, <1>4, <1>6 DEF Next, Core1Step

\* Entries run in the order they were queued: when none is queued or running
\* for the charger pin, the flag is what the edge accepted last says, whatever
\* was queued in between for other pins (ncp3901.c:37-49, robot.c:455-470).
THEOREM FlagIsLastAccepted == Spec => []FlagFollowsAccepted
<1>1. IInv /\ AllFollow => FlagFollowsAccepted
  BY DEF AllFollow, Follows, FlagFollowsAccepted, Running
<1>. QED
  BY <1>1, InitIInv, NextIInv, InitFollows, NextFollows, PTL DEF Spec

-----------------------------------------------------------------------------
(* A full call_queue. *)

\* The callback finds the queue full: its own pin has nothing queued if it is
\* a held pin, and every other held pin has at most one entry.
LEMMA FullQueue ==
    IInv /\ AlarmOnItsWayOnce /\ [Next]_vars =>
        (isr.at = "callback" /\ isr'.at = "report" =>
            Cardinality(UNION {Queued(s) : s \in TogglePins})
                >= Capacity - Cardinality(HeldPins \ {isr.src}))
<1>. SUFFICES ASSUME IInv, AlarmOnItsWayOnce, [Next]_vars,
                     isr.at = "callback", isr'.at = "report"
              PROVE  Cardinality(UNION {Queued(s) : s \in TogglePins})
                         >= Capacity - Cardinality(HeldPins \ {isr.src})
  OBVIOUS
<1>. USE QueueAssumption
<1>. DEFINE T == UNION {Queued(s) : s \in TogglePins}
            H == UNION {Queued(s) : s \in HeldPins}
            P == HeldPins \ {isr.src}
            src == [i \in H |-> call_queue[i].src]
<1>1. Len(call_queue) = Capacity /\ call_queue \in Seq(Entries)
  <2>1. isr' # isr
    OBVIOUS
  <2>2. IsrCallback
    BY <2>1 DEF Next, Alarm, Toggle, IsrTake, IsrReport, ThreadLock,
                ThreadUnlock, Core1Step, Core1Pop, Core1Read, Core1Lock,
                Core1Unlock, Core1Set, vars
  <2>. QED
    BY <2>2 DEF IsrCallback, IdleIsr, IInv, TypeOK
<1>2. \A i \in 1..Capacity : /\ call_queue[i].src \in Pins
                             /\ i \in Queued(call_queue[i].src)
  <2>1. \A i \in 1..Capacity : call_queue[i] \in Entries
    BY <1>1
  <2>2. \A e \in Entries : e.src \in Pins
    BY DEF Entries, Pins
  <2>. QED
    BY <1>1, <2>1, <2>2 DEF Queued
<1>3. T \cup H = 1..Capacity
  <2>1. \A s : Queued(s) \subseteq 1..Capacity
    BY <1>1 DEF Queued
  <2>. QED
    BY <1>2, <2>1 DEF Pins
<1>4. \A i \in H : src[i] \in P /\ i \in Queued(src[i])
  <2>. SUFFICES ASSUME NEW i \in H
                PROVE  src[i] \in P /\ i \in Queued(src[i])
    OBVIOUS
  <2>. PICK s \in HeldPins : i \in Queued(s)
    OBVIOUS
  <2>1. i \in H /\ call_queue[i].src = s
    BY DEF Queued
  <2>0. src[i] = s
    BY <2>1
  <2>2. s # isr.src
    <3>. SUFFICES ASSUME s = isr.src
                  PROVE  FALSE
      OBVIOUS
    <3>1. <<"isr", 0>> \in Places(s) /\ <<"queue", i>> \in Places(s)
      BY DEF Places
    <3>. QED
      BY <3>1, PlaceNames DEF AlarmOnItsWayOnce, OnItsWayOnce
  <2>. QED
    BY <2>0, <2>2
<1>5. src \in Injection(H, P)
  <2>1. src \in [H -> P]
    BY <1>4
  <2>2. ASSUME NEW i \in H, NEW j \in H, src[i] = src[j]
        PROVE  i = j
    <3>1. src[i] \in HeldPins /\ i \in Queued(src[i]) /\ j \in Queued(src[i])
      BY <1>4, <2>2
    <3>2. /\ <<"queue", i>> \in Places(src[i])
          /\ <<"queue", j>> \in Places(src[i])
      BY <3>1 DEF Places
    <3>3. <<"queue", i>> = <<"queue", j>>
      BY <3>1, <3>2 DEF AlarmOnItsWayOnce, OnItsWayOnce
    <3>. QED
      BY <3>3
  <2>. QED
    BY <2>1, <2>2 DEF Injection, IsInjective
<1>6. IsFiniteSet(P) /\ Cardinality(P) \in Nat
  BY FS_Difference, FS_CardinalityType
<1>. HIDE DEF T, H, P, src
<1>7. IsFiniteSet(H) /\ Cardinality(H) <= Cardinality(P)
  BY <1>5, <1>6, FS_Injection
<1>8. IsFiniteSet(1..Capacity) /\ Cardinality(1..Capacity) = Capacity
  BY FS_Interval
<1>9. IsFiniteSet(T)
  BY <1>3, <1>8, FS_Subset
<1>10. /\ Cardinality(T \cup H)
              = Cardinality(T) + Cardinality(H) - Cardinality(T \cap H)
       /\ IsFiniteSet(T \cap H)
  BY <1>7, <1>9, FS_Union, FS_Subset
<1>11. /\ Cardinality(T) \in Nat /\ Cardinality(H) \in Nat
       /\ Cardinality(T \cap H) \in Nat
  BY <1>7, <1>9, <1>10, FS_CardinalityType
<1>12. Cardinality(T) >= Capacity - Cardinality(P)
  <2>1. \A a, b, c, p, n \in Nat : n = a + b - c /\ b <= p => a >= n - p
    OBVIOUS
  <2>2. Capacity = Cardinality(T) + Cardinality(H) - Cardinality(T \cap H)
    BY <1>3, <1>8, <1>10
  <2>. QED
    BY <1>6, <1>7, <1>11, <2>1, <2>2
<1>. QED
  BY <1>12 DEF T, P

\* When the callback finds call_queue full, all but one entry per held pin come
\* from toggle pins: held pins alone never reach the assertion (robot.c:463).
THEOREM HeldPinsNeverFillQueue == Spec => FullQueueIsToggles
<1>1. IInv /\ AlarmOnItsWayOnce /\ IInv' /\ [Next]_vars =>
          [isr.at = "callback" /\ isr'.at = "report" =>
               Cardinality(UNION {Queued(s) : s \in TogglePins})
                   >= Capacity - Cardinality(HeldPins \ {isr.src})]_vars
  BY FullQueue
<1>2. Spec => []AlarmOnItsWayOnce /\ []IInv
  BY InitIInv, NextIInv, AlarmNeverLostNorDoubled, PTL DEF Spec
<1>. QED
  BY <1>1, <1>2, PTL DEF Spec, FullQueueIsToggles
=============================================================================
