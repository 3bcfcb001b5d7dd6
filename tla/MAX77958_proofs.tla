-------------------------- MODULE MAX77958_proofs --------------------------
(***************************************************************************)
(* Proofs about the driver of the USB-C controller, for any sequence of    *)
(* calls on core 0 and any number of events and of dropped opcodes.        *)
(*                                                                         *)
(* What a core has still to do is a list of steps, so the functions of the *)
(* driver are shown first to be blocks: lists in which the steps of a      *)
(* transfer stand together and an added opcode is followed by a call of    *)
(* opcode_queue_pop.  Todos says that both lists stay made of blocks, which*)
(* gives the types (TypeInv).  Numbered keeps the opcodes in the order of  *)
(* their numbers; Links, Undisturbed and Followed follow an opcode from    *)
(* the queue to the chip and its answer back to opcode_queue_pop.  Chains, *)
(* Looking and Alone follow the opcode of a self-test by stages, from its  *)
(* queue to the answer that the test waits for.                            *)
(***************************************************************************)
EXTENDS MAX77958, SequenceTheorems, TLAPS

-----------------------------------------------------------------------------
(* What the cores have still to do: blocks, whose steps belong together.     *)

Check1 == Step("check", "APCmdResI")
GiveStep == Step("give", "")

\* The steps a core can have ahead, but for the second half of opcode_queue_pop
\* and for the two steps of an opcode's function.
Steps0 == {x \in Steps : x.do \in {"call", "unfinish", "add", "take", "fill", "select",
                                   "read", "switch_cc", "wait"}}
Steps1 == {x \in Steps : x.do \in {"unfinish", "add", "take", "fill", "select", "read",
                                   "switch_cc", "check", "point", "read_response", "finish",
                                   "queue", "switch_pd"}}

\* A filled buffer is used at once.
FetchAt(s, i) ==
    /\ s[i].do = "fill" => i + 2 <= Len(s) /\ s[i + 1].do = "select" /\ s[i + 2].do = "read"
    /\ s[i].do = "point" => i + 2 <= Len(s) /\ s[i + 1].do = "select"
                                            /\ s[i + 2].do = "read_response"
Fetches(s) == \A i \in 1..Len(s) : FetchAt(s, i)

\* An added opcode is fetched afterwards, if no other core comes first.
HasTake(s) == \E j \in 1..Len(s) : s[j].do = "take"
Served(s) == \A i \in 1..Len(s) :
                 s[i].do = "add" => \E j \in 1..Len(s) : j > i /\ s[j].do = "take"

\* The interrupt registers are tested first for an answer; core 0, which does not
\* test them, fetches an opcode afterwards.
SweepAt(s, i, D) ==
    s[i] = Step("fill", "INT") =>
        /\ Check1 \in D => i + 3 <= Len(s) /\ s[i + 3] = Check1
        /\ Check1 \notin D => \E j \in 1..Len(s) : j > i /\ s[j].do = "take"
Sweeps(s, D) == \A i \in 1..Len(s) : SweepAt(s, i, D)
Unswept(s) == \A i \in 1..Len(s) : s[i] # Step("fill", "INT")

Block(s, D) == s \in Seq(D) /\ Fetches(s) /\ Served(s) /\ Sweeps(s, D)

\* One list after another: the elements of both keep their order.
Joins(u, s, t) ==
    /\ Len(s) \in Nat /\ Len(t) \in Nat
    /\ Len(u) = Len(s) + Len(t)
    /\ \A i \in 1..Len(s) : u[i] = s[i]
    /\ \A i \in 1..Len(t), j \in Int : j = Len(s) + i => u[j] = t[i]

LEMMA After ==
    ASSUME NEW D, NEW s \in Seq(D), NEW t \in Seq(D)
    PROVE  s \o t \in Seq(D) /\ Joins(s \o t, s, t)
<1>1. \A i \in 1..Len(t) : Len(s) + i \in 1..(Len(s) + Len(t)) /\ ~(Len(s) + i <= Len(s))
                           /\ (Len(s) + i) - Len(s) = i
  OBVIOUS
<1>2. \A i \in 1..Len(s) : i \in 1..(Len(s) + Len(t)) /\ i <= Len(s)
  OBVIOUS
<1>. QED
  BY <1>1, <1>2, ConcatProperties DEF Joins

LEMMA JoinedFetches ==
    ASSUME NEW u, NEW s, NEW t, Joins(u, s, t), Fetches(s), Fetches(t)
    PROVE  Fetches(u)
<1>1. PICK m \in Nat, n \in Nat : m = Len(s) /\ n = Len(t)
  BY DEF Joins
<1>2. Len(u) = m + n
  BY <1>1 DEF Joins
<1>3. ASSUME NEW i \in 1..m PROVE FetchAt(u, i)
  <2>1. FetchAt(s, i)
    BY <1>1 DEF Fetches
  <2>2. \A k \in 1..m : u[k] = s[k]
    BY <1>1 DEF Joins
  <2>. QED
    BY <1>1, <1>2, <2>1, <2>2 DEF FetchAt
<1>4. ASSUME NEW k \in 1..n PROVE FetchAt(u, m + k)
  <2>1. FetchAt(t, k)
    BY <1>1 DEF Fetches
  <2>2. \A x \in 1..n : u[m + x] = t[x]
    BY <1>1 DEF Joins
  <2>3. u[m + k] = t[k]
    BY <2>2
  <2>4. k + 1 <= n => u[(m + k) + 1] = t[k + 1]
    <3>1. k + 1 <= n => k + 1 \in 1..n /\ m + (k + 1) = (m + k) + 1
      OBVIOUS
    <3>. QED
      BY <2>2, <3>1
  <2>5. k + 2 <= n => u[(m + k) + 2] = t[k + 2]
    <3>1. k + 2 <= n => k + 2 \in 1..n /\ m + (k + 2) = (m + k) + 2
      OBVIOUS
    <3>. QED
      BY <2>2, <3>1
  <2>. QED
    BY <1>1, <1>2, <2>1, <2>3, <2>4, <2>5 DEF FetchAt
<1>5. ASSUME NEW i \in 1..Len(u) PROVE FetchAt(u, i)
  <2>1. i \in 1..m \/ (i - m \in 1..n /\ m + (i - m) = i)
    BY <1>2
  <2>. QED
    BY <1>3, <1>4, <2>1
<1>. QED
  BY <1>5 DEF Fetches

\* A fetch at the end serves whatever was added before.
LEMMA JoinedServed ==
    ASSUME NEW u, NEW s, NEW t, Joins(u, s, t), Served(t), HasTake(t) \/ Served(s)
    PROVE  Served(u) /\ (HasTake(t) => HasTake(u))
<1>1. PICK m \in Nat, n \in Nat : m = Len(s) /\ n = Len(t)
  BY DEF Joins
<1>2. Len(u) = m + n
  BY <1>1 DEF Joins
<1>3. \A k \in 1..m : u[k] = s[k]
  BY <1>1 DEF Joins
<1>4. \A x \in 1..n : u[m + x] = t[x] /\ m + x \in 1..Len(u)
  BY <1>1, <1>2 DEF Joins
<1>5. ASSUME NEW i \in 1..m, u[i].do = "add"
      PROVE  \E j \in 1..Len(u) : j > i /\ u[j].do = "take"
  <2>1. CASE HasTake(t)
    <3>1. PICK x \in 1..n : t[x].do = "take"
      BY <1>1, <2>1 DEF HasTake
    <3>2. m + x \in 1..Len(u) /\ m + x > i /\ u[m + x].do = "take"
      BY <1>4, <3>1
    <3>. QED
      BY <3>2
  <2>2. CASE Served(s)
    <3>1. PICK j \in 1..m : j > i /\ s[j].do = "take"
      BY <1>1, <1>3, <1>5, <2>2 DEF Served
    <3>2. j \in 1..Len(u) /\ u[j].do = "take"
      BY <1>2, <1>3, <3>1
    <3>. QED
      BY <3>1, <3>2
  <2>. QED
    BY <2>1, <2>2
<1>6. ASSUME NEW k \in 1..n, u[m + k].do = "add"
      PROVE  \E j \in 1..Len(u) : j > m + k /\ u[j].do = "take"
  <2>1. PICK x \in 1..n : x > k /\ t[x].do = "take"
    BY <1>1, <1>4, <1>6 DEF Served
  <2>2. m + x \in 1..Len(u) /\ m + x > m + k /\ u[m + x].do = "take"
    BY <1>4, <2>1
  <2>. QED
    BY <2>2
<1>7. ASSUME NEW i \in 1..Len(u), u[i].do = "add"
      PROVE  \E j \in 1..Len(u) : j > i /\ u[j].do = "take"
  <2>1. i \in 1..m \/ (i - m \in 1..n /\ m + (i - m) = i)
    BY <1>2
  <2>. QED
    BY <1>5, <1>6, <1>7, <2>1
<1>8. ASSUME HasTake(t) PROVE HasTake(u)
  <2>1. PICK x \in 1..n : t[x].do = "take"
    BY <1>1, <1>8 DEF HasTake
  <2>. QED
    BY <1>4, <2>1 DEF HasTake
<1>. QED
  BY <1>7, <1>8 DEF Served

LEMMA UnsweptSweeps ==
    ASSUME NEW s, Unswept(s), NEW D
    PROVE  Sweeps(s, D)
  BY DEF Unswept, Sweeps, SweepAt

LEMMA JoinedUnswept ==
    ASSUME NEW u, NEW s, NEW t, Joins(u, s, t), Unswept(s), Unswept(t)
    PROVE  Unswept(u)
<1>1. PICK m \in Nat, n \in Nat : m = Len(s) /\ n = Len(t)
  BY DEF Joins
<1>2. /\ Len(u) = m + n
      /\ \A k \in 1..m : u[k] = s[k]
      /\ \A x \in 1..n : u[m + x] = t[x]
  BY <1>1 DEF Joins
<1>3. ASSUME NEW i \in 1..Len(u) PROVE u[i] # Step("fill", "INT")
  <2>1. i \in 1..m \/ (i - m \in 1..n /\ m + (i - m) = i)
    BY <1>2
  <2>. QED
    BY <1>1, <1>2, <2>1 DEF Unswept
<1>. QED
  BY <1>3 DEF Unswept

\* A fetch at the end also serves core 0's reading of the interrupts before it.
LEMMA JoinedSweeps ==
    ASSUME NEW D, NEW u, NEW s, NEW t, Joins(u, s, t), Sweeps(t, D),
           (HasTake(t) /\ Check1 \notin D) \/ Sweeps(s, D)
    PROVE  Sweeps(u, D)
<1>1. PICK m \in Nat, n \in Nat : m = Len(s) /\ n = Len(t)
  BY DEF Joins
<1>2. Len(u) = m + n
  BY <1>1 DEF Joins
<1>3. \A k \in 1..m : u[k] = s[k]
  BY <1>1 DEF Joins
<1>4. \A x \in 1..n : u[m + x] = t[x] /\ m + x \in 1..Len(u)
  BY <1>1, <1>2 DEF Joins
<1>5. ASSUME NEW i \in 1..m, u[i] = Step("fill", "INT"), Check1 \notin D
      PROVE  \E j \in 1..Len(u) : j > i /\ u[j].do = "take"
  <2>1. CASE HasTake(t)
    <3>1. PICK x \in 1..n : t[x].do = "take"
      BY <1>1, <2>1 DEF HasTake
    <3>2. m + x \in 1..Len(u) /\ m + x > i /\ u[m + x].do = "take"
      BY <1>4, <3>1
    <3>. QED
      BY <3>2
  <2>2. CASE Sweeps(s, D)
    <3>1. PICK j \in 1..m : j > i /\ s[j].do = "take"
      BY <1>1, <1>3, <1>5, <2>2 DEF Sweeps, SweepAt
    <3>2. j \in 1..Len(u) /\ u[j].do = "take"
      BY <1>2, <1>3, <3>1
    <3>. QED
      BY <3>1, <3>2
  <2>. QED
    BY <2>1, <2>2
<1>6. ASSUME NEW i \in 1..m, u[i] = Step("fill", "INT"), Check1 \in D
      PROVE  i + 3 <= Len(u) /\ u[i + 3] = Check1
  <2>1. i + 3 <= m /\ s[i + 3] = Check1
    BY <1>1, <1>3, <1>6 DEF Sweeps, SweepAt
  <2>2. i + 3 \in 1..m
    BY <2>1
  <2>. QED
    BY <1>2, <1>3, <2>1, <2>2
<1>7. ASSUME NEW k \in 1..n, u[m + k] = Step("fill", "INT")
      PROVE  SweepAt(u, m + k, D)
  <2>1. SweepAt(t, k, D) /\ t[k] = Step("fill", "INT")
    BY <1>1, <1>4, <1>7 DEF Sweeps
  <2>2. CASE Check1 \in D
    <3>1. k + 3 <= n /\ t[k + 3] = Check1
      BY <1>1, <2>1, <2>2 DEF SweepAt
    <3>2. k + 3 \in 1..n /\ m + (k + 3) = (m + k) + 3
      BY <3>1
    <3>3. u[(m + k) + 3] = Check1 /\ (m + k) + 3 <= Len(u)
      <4>1. u[m + (k + 3)] = Check1
        BY <1>4, <3>1, <3>2
      <4>2. (m + k) + 3 <= m + n
        BY <3>1
      <4>. QED
        BY <1>2, <3>2, <4>1, <4>2
    <3>. QED
      BY <2>2, <3>3 DEF SweepAt
  <2>3. CASE Check1 \notin D
    <3>1. PICK x \in 1..n : x > k /\ t[x].do = "take"
      BY <1>1, <2>1, <2>3 DEF SweepAt
    <3>2. m + x \in 1..Len(u) /\ m + x > m + k /\ u[m + x].do = "take"
      BY <1>4, <3>1
    <3>. QED
      BY <2>3, <3>2 DEF SweepAt
  <2>. QED
    BY <2>2, <2>3
<1>8. ASSUME NEW i \in 1..Len(u) PROVE SweepAt(u, i, D)
  <2>1. i \in 1..m \/ (i - m \in 1..n /\ m + (i - m) = i)
    BY <1>2
  <2>2. CASE i \in 1..m
    BY <1>5, <1>6, <2>2 DEF SweepAt
  <2>3. CASE i - m \in 1..n /\ m + (i - m) = i
    <3>1. PICK k \in 1..n : i = m + k
      BY <2>3
    <3>. QED
      BY <1>7, <3>1 DEF SweepAt
  <2>. QED
    BY <2>1, <2>2, <2>3
<1>. QED
  BY <1>8 DEF Sweeps

LEMMA BlockCat ==
    ASSUME NEW D, NEW s, NEW t, Block(s, D), Block(t, D)
    PROVE  Block(s \o t, D)
<1>1. s \in Seq(D) /\ t \in Seq(D)
  BY DEF Block
<1>2. s \o t \in Seq(D) /\ Joins(s \o t, s, t)
  BY <1>1, After
<1>3. Fetches(s \o t)
  BY <1>2, JoinedFetches DEF Block
<1>4. Served(s \o t)
  BY <1>2, JoinedServed DEF Block
<1>5. Sweeps(s \o t, D)
  BY <1>2, JoinedSweeps DEF Block
<1>. QED
  BY <1>2, <1>3, <1>4, <1>5 DEF Block

LEMMA TailIs ==
    ASSUME NEW D, NEW s \in Seq(D), s # <<>>
    PROVE  /\ Head(s) = s[1] /\ s[1] \in D /\ Len(s) \in Nat /\ Len(s) >= 1
           /\ Tail(s) \in Seq(D) /\ Len(Tail(s)) = Len(s) - 1
           /\ \A i \in 1..Len(s) : i > 1 => Tail(s)[i - 1] = s[i]
<1>1. Len(s) \in Nat /\ Len(s) # 0
  BY LenProperties, EmptySeq
<1>2. /\ Head(s) = s[1] /\ Head(s) \in D
      /\ Tail(s) \in Seq(D) /\ Len(Tail(s)) = Len(s) - 1
      /\ \A i \in 1..Len(Tail(s)) : Tail(s)[i] = s[i + 1]
  BY HeadTailProperties
<1>3. ASSUME NEW i \in 1..Len(s), i > 1 PROVE Tail(s)[i - 1] = s[i]
  <2>1. i - 1 \in 1..Len(Tail(s)) /\ (i - 1) + 1 = i
    BY <1>1, <1>2, <1>3
  <2>. QED
    BY <1>2, <2>1
<1>. QED
  BY <1>1, <1>2, <1>3

LEMMA BlockTail ==
    ASSUME NEW D, NEW s, Block(s, D), s # <<>>
    PROVE  Block(Tail(s), D)
<1>1. s \in Seq(D)
  BY DEF Block
<1>2. PICK t : t = Tail(s)
  OBVIOUS
<1>3. /\ Len(s) \in Nat /\ Len(s) >= 1
      /\ t \in Seq(D) /\ Len(t) = Len(s) - 1
      /\ \A i \in 1..Len(s) : i > 1 => t[i - 1] = s[i]
  BY <1>1, <1>2, TailIs
<1>4. PICK n \in Nat : n = Len(t)
  BY <1>3
<1>5. Len(s) = n + 1 /\ \A i \in 1..n : t[i] = s[i + 1]
  <2>1. Len(s) = n + 1
    BY <1>3, <1>4
  <2>2. \A i \in 1..n : i + 1 \in 1..Len(s) /\ i + 1 > 1 /\ (i + 1) - 1 = i
    BY <2>1
  <2>. QED
    BY <1>3, <2>1, <2>2
<1>6. ASSUME NEW i \in 1..n PROVE FetchAt(t, i)
  <2>1. FetchAt(s, i + 1)
    BY <1>5 DEF Block, Fetches
  <2>2. t[i] = s[i + 1]
    BY <1>5
  <2>3. i + 1 <= n => t[i + 1] = s[(i + 1) + 1]
    BY <1>5
  <2>4. i + 2 <= n => t[i + 2] = s[(i + 1) + 2]
    <3>1. i + 2 <= n => i + 2 \in 1..n /\ (i + 2) + 1 = (i + 1) + 2
      OBVIOUS
    <3>. QED
      BY <1>5, <3>1
  <2>. QED
    BY <1>4, <1>5, <2>1, <2>2, <2>3, <2>4 DEF FetchAt
<1>7. ASSUME NEW i \in 1..n, t[i].do = "add"
      PROVE  \E j \in 1..n : j > i /\ t[j].do = "take"
  <2>1. i + 1 \in 1..Len(s) /\ s[i + 1].do = "add"
    BY <1>5, <1>7
  <2>2. PICK j \in 1..Len(s) : j > i + 1 /\ s[j].do = "take"
    BY <2>1 DEF Block, Served
  <2>3. j - 1 \in 1..n /\ j - 1 > i /\ (j - 1) + 1 = j
    BY <1>5, <2>2
  <2>4. t[j - 1].do = "take"
    BY <1>5, <2>2, <2>3
  <2>. QED
    BY <2>3, <2>4
<1>8. Fetches(t)
  BY <1>4, <1>6 DEF Fetches
<1>9. Served(t)
  BY <1>4, <1>7 DEF Served
<1>10. ASSUME NEW i \in 1..n, t[i] = Step("fill", "INT") PROVE SweepAt(t, i, D)
  <2>1. i + 1 \in 1..Len(s) /\ s[i + 1] = Step("fill", "INT") /\ SweepAt(s, i + 1, D)
    BY <1>5, <1>10 DEF Block, Sweeps
  <2>2. CASE Check1 \in D
    <3>1. (i + 1) + 3 <= n + 1 /\ s[(i + 1) + 3] = Check1
      BY <1>5, <2>1, <2>2 DEF SweepAt
    <3>2. i + 3 \in 1..n /\ (i + 3) + 1 = (i + 1) + 3
      BY <3>1
    <3>3. t[i + 3] = Check1 /\ i + 3 <= Len(t)
      BY <1>4, <1>5, <3>1, <3>2
    <3>. QED
      BY <2>2, <3>3 DEF SweepAt
  <2>3. CASE Check1 \notin D
    <3>1. PICK j \in 1..Len(s) : j > i + 1 /\ s[j].do = "take"
      BY <2>1, <2>3 DEF SweepAt
    <3>2. j - 1 \in 1..n /\ j - 1 > i /\ (j - 1) + 1 = j
      BY <1>5, <3>1
    <3>3. t[j - 1].do = "take"
      BY <1>5, <3>1, <3>2
    <3>. QED
      BY <1>4, <2>3, <3>2, <3>3 DEF SweepAt
  <2>. QED
    BY <2>2, <2>3
<1>11. Sweeps(t, D)
  BY <1>4, <1>10 DEF Sweeps, SweepAt
<1>. QED
  BY <1>2, <1>3, <1>8, <1>9, <1>11 DEF Block

-----------------------------------------------------------------------------
(* The functions are blocks. *)

Both(D) == D = Steps0 \/ D = Steps1

LEMMA StepsOfBoth ==
    ASSUME NEW D, Both(D)
    PROVE  /\ Step("unfinish", "") \in D /\ Step("take", "") \in D
           /\ Step("select", "") \in D /\ Step("read", "") \in D
           /\ Step("switch_cc", "") \in D
           /\ \A op \in Ops : Step("add", op) \in D
           /\ \A reg \in Registers : Step("fill", reg) \in D
           /\ D \subseteq Steps
<1>1. /\ Step("unfinish", "") \in Steps /\ Step("take", "") \in Steps
      /\ Step("select", "") \in Steps /\ Step("read", "") \in Steps
      /\ Step("switch_cc", "") \in Steps
      /\ \A op \in Ops : Step("add", op) \in Steps
      /\ \A reg \in Registers : Step("fill", reg) \in Steps
  BY DEF Steps, Transfers
<1>3. CASE D = Steps0
  BY <1>1, <1>3 DEF Steps0, Step
<1>4. CASE D = Steps1
  BY <1>1, <1>4 DEF Steps1, Step
<1>. QED
  BY <1>3, <1>4 DEF Both

LEMMA StepsOf0 ==
    /\ Step("wait", "") \in Steps0
    /\ \A call \in Calls : Step("call", call) \in Steps0
<1>1. Step("wait", "") \in Steps /\ \A call \in Calls : Step("call", call) \in Steps
  BY DEF Steps
<1>. QED
  BY <1>1 DEF Steps0, Step

LEMMA Checked == Check1 \notin Steps0 /\ Check1 \in Steps1
<1>1. Check1 \in Steps /\ Check1.do = "check"
  BY DEF Check1, Steps, Ints, Step
<1>. QED
  BY <1>1 DEF Steps0, Steps1

LEMMA StepsOf1 ==
    /\ \A bit \in Ints : Step("check", bit) \in Steps1
    /\ Step("point", "OPCODE_READ") \in Steps1 /\ Step("read_response", "") \in Steps1
    /\ Step("finish", "") \in Steps1
    /\ Step("queue", "pd_msg_response") \in Steps1
    /\ Step("switch_pd", "") \in Steps1
<1>1. /\ \A bit \in Ints : Step("check", bit) \in Steps
      /\ Step("point", "OPCODE_READ") \in Steps /\ Step("read_response", "") \in Steps
      /\ Step("finish", "") \in Steps
      /\ Step("queue", "pd_msg_response") \in Steps
      /\ Step("switch_pd", "") \in Steps
  BY DEF Steps, Transfers
<1>. QED
  BY <1>1 DEF Steps1, Step

LEMMA SingleBlock ==
    ASSUME NEW D, NEW x \in D, x.do \notin {"fill", "point", "add"}
    PROVE  Block(<<x>>, D)
<1>1. <<x>> \in Seq(D) /\ Len(<<x>>) = 1 /\ <<x>>[1] = x
  OBVIOUS
<1>2. x # Step("fill", "INT")
  BY DEF Step
<1>3. Fetches(<<x>>)
  BY <1>1 DEF Fetches, FetchAt
<1>4. Served(<<x>>)
  BY <1>1 DEF Served
<1>5. Unswept(<<x>>)
  BY <1>1, <1>2 DEF Unswept
<1>. QED
  BY <1>1, <1>3, <1>4, <1>5, UnsweptSweeps DEF Block

LEMMA EmptyBlock == \A D : Block(<<>>, D)
<1>. SUFFICES ASSUME NEW D PROVE Block(<<>>, D)
  OBVIOUS
<1>1. <<>> \in Seq(D) /\ Len(<<>>) = 0
  OBVIOUS
<1>. QED
  BY <1>1 DEF Block, Fetches, Served, Sweeps

LEMMA FetchBlock ==
    ASSUME NEW D, Both(D), NEW reg \in Registers
    PROVE  /\ Fetch(reg) \in Seq(D) /\ Fetches(Fetch(reg)) /\ Served(Fetch(reg))
           /\ reg # "INT" => Block(Fetch(reg), D)
<1>1. PICK a \in D, b \in D, c \in D :
          a = Step("fill", reg) /\ b = Step("select", "") /\ c = Step("read", "")
  BY StepsOfBoth
<1>2. PICK s : s = Fetch(reg)
  OBVIOUS
<1>3. s \in Seq(D) /\ Len(s) = 3 /\ s[1] = a /\ s[2] = b /\ s[3] = c
  <2>1. s = <<a, b, c>>
    BY <1>1, <1>2 DEF Fetch
  <2>. QED
    BY <2>1
<1>4. /\ a.do = "fill" /\ b.do = "select" /\ c.do = "read"
      /\ reg # "INT" => a # Step("fill", "INT")
      /\ b # Step("fill", "INT") /\ c # Step("fill", "INT")
  BY <1>1 DEF Step
<1>5. Fetches(s)
  BY <1>3, <1>4 DEF Fetches, FetchAt
<1>6. Served(s)
  BY <1>3, <1>4 DEF Served
<1>7. reg # "INT" => Unswept(s)
  BY <1>3, <1>4 DEF Unswept
<1>. QED
  BY <1>2, <1>3, <1>5, <1>6, <1>7, UnsweptSweeps DEF Block

LEMMA PopBlock ==
    ASSUME NEW D, Both(D)
    PROVE  Block(OpcodeQueuePop, D) /\ HasTake(OpcodeQueuePop)
<1>1. PICK x \in D : x = Step("take", "")
  BY StepsOfBoth
<1>2. x.do = "take"
  BY <1>1 DEF Step
<1>3. Block(<<x>>, D)
  BY <1>2, SingleBlock
<1>4. OpcodeQueuePop = <<x>>
  BY <1>1 DEF OpcodeQueuePop
<1>5. HasTake(<<x>>)
  <2>1. Len(<<x>>) = 1 /\ <<x>>[1] = x
    OBVIOUS
  <2>. QED
    BY <1>2, <2>1 DEF HasTake
<1>. QED
  BY <1>3, <1>4, <1>5

LEMMA AddFetches ==
    ASSUME NEW D, Both(D), NEW op \in Ops
    PROVE  /\ OpcodeQueueAdd(op) \in Seq(D) /\ Fetches(OpcodeQueueAdd(op))
           /\ Unswept(OpcodeQueueAdd(op))
<1>1. PICK a \in D, b \in D : a = Step("unfinish", "") /\ b = Step("add", op)
  BY StepsOfBoth
<1>2. PICK s : s = OpcodeQueueAdd(op)
  OBVIOUS
<1>3. s \in Seq(D) /\ Len(s) = 2 /\ s[1] = a /\ s[2] = b
  <2>1. s = <<a, b>>
    BY <1>1, <1>2 DEF OpcodeQueueAdd
  <2>. QED
    BY <2>1
<1>4. a.do = "unfinish" /\ b.do = "add" /\ a # Step("fill", "INT") /\ b # Step("fill", "INT")
  BY <1>1 DEF Step
<1>5. Fetches(s)
  BY <1>3, <1>4 DEF Fetches, FetchAt
<1>6. Unswept(s)
  BY <1>3, <1>4 DEF Unswept
<1>. QED
  BY <1>2, <1>3, <1>5, <1>6

\* An opcode_queue_pop after them makes a block of opcodes that are added.
LEMMA AddsBlock ==
    ASSUME NEW D, Both(D), NEW s \in Seq(D), Fetches(s), Unswept(s) \/ Check1 \notin D
    PROVE  Block(s \o OpcodeQueuePop, D) /\ HasTake(s \o OpcodeQueuePop)
<1>1. Block(OpcodeQueuePop, D) /\ HasTake(OpcodeQueuePop)
  BY PopBlock
<1>2. PICK t : t = OpcodeQueuePop
  OBVIOUS
<1>3. t \in Seq(D) /\ Fetches(t) /\ Served(t) /\ Sweeps(t, D) /\ HasTake(t)
  BY <1>1, <1>2 DEF Block
<1>4. s \o t \in Seq(D) /\ Joins(s \o t, s, t)
  BY <1>3, After
<1>5. Fetches(s \o t)
  BY <1>3, <1>4, JoinedFetches
<1>6. Served(s \o t) /\ HasTake(s \o t)
  BY <1>3, <1>4, JoinedServed
<1>7. Sweeps(s \o t, D)
  BY <1>3, <1>4, UnsweptSweeps, JoinedSweeps
<1>. QED
  BY <1>2, <1>4, <1>5, <1>6, <1>7 DEF Block

LEMMA VbusBlocks ==
    ASSUME NEW D, Both(D)
    PROVE  Block(VbusTurnOff, D) /\ Block(VbusTurnOn, D)
<1>1. "off" \in Ops /\ "on" \in Ops
  BY DEF Ops
<1>. QED
  BY <1>1, AddFetches, AddsBlock DEF VbusTurnOff, VbusTurnOn

LEMMA CcstatBlock ==
    ASSUME NEW D, Both(D)
    PROVE  Block(OnCcstatChange, D)
<1>1. PICK x \in D : x = Step("switch_cc", "")
  BY StepsOfBoth
<1>2. x.do = "switch_cc"
  BY <1>1 DEF Step
<1>3. Block(<<x>>, D)
  BY <1>2, SingleBlock
<1>4. "CC_STATUS" \in Registers /\ "CC_STATUS" # "INT"
  BY DEF Registers
<1>5. Block(Fetch("CC_STATUS"), D)
  BY <1>4, FetchBlock
<1>. QED
  BY <1>1, <1>3, <1>5, BlockCat DEF OnCcstatChange

LEMMA FetchesCat ==
    ASSUME NEW D, NEW s \in Seq(D), Fetches(s), NEW t \in Seq(D), Fetches(t)
    PROVE  s \o t \in Seq(D) /\ Fetches(s \o t)
<1>1. s \o t \in Seq(D) /\ Joins(s \o t, s, t)
  BY After
<1>. QED
  BY <1>1, JoinedFetches

LEMMA InitBlock == Block(Max77958Init, Steps0)
<1>1. Both(Steps0)
  BY DEF Both
<1>2. "low" \in Ops /\ "off" \in Ops /\ "config" \in Ops /\ "INT" \in Registers
  BY DEF Ops, Registers
<1>3. PICK f \in Seq(Steps0), a \in Seq(Steps0), b \in Seq(Steps0), c \in Seq(Steps0) :
          /\ f = Fetch("INT") /\ a = OpcodeQueueAdd("low")
          /\ b = OpcodeQueueAdd("off") /\ c = OpcodeQueueAdd("config")
          /\ Fetches(f) /\ Fetches(a) /\ Fetches(b) /\ Fetches(c)
  BY <1>1, <1>2, AddFetches, FetchBlock
<1>4. Max77958Init = f \o a \o b \o c \o OpcodeQueuePop \o OnCcstatChange
  BY <1>3 DEF Max77958Init
<1>5. PICK d \in Seq(Steps0) : d = f \o a /\ Fetches(d)
  BY <1>3, FetchesCat
<1>6. PICK e \in Seq(Steps0) : e = d \o b /\ Fetches(e)
  BY <1>3, <1>5, FetchesCat
<1>7. PICK g \in Seq(Steps0) : g = e \o c /\ Fetches(g)
  BY <1>3, <1>6, FetchesCat
<1>9. Block(g \o OpcodeQueuePop, Steps0)
  BY <1>1, <1>7, Checked, AddsBlock
<1>10. Block(OnCcstatChange, Steps0)
  BY <1>1, CcstatBlock
<1>11. Block((g \o OpcodeQueuePop) \o OnCcstatChange, Steps0)
  BY <1>9, <1>10, BlockCat
<1>. QED
  BY <1>4, <1>5, <1>6, <1>7, <1>11

LEMMA TestBlock == Block(OpcodeTest, Steps0)
<1>1. Both(Steps0) /\ "read" \in Ops
  BY DEF Both, Ops
<1>2. Block(OpcodeQueueAdd("read") \o OpcodeQueuePop, Steps0)
  BY <1>1, AddFetches, AddsBlock
<1>3. PICK x \in Steps0 : x = Step("wait", "")
  BY StepsOf0
<1>4. x.do = "wait"
  BY <1>3 DEF Step
<1>5. Block(<<x>>, Steps0)
  BY <1>4, SingleBlock
<1>. QED
  BY <1>2, <1>3, <1>5, BlockCat DEF OpcodeTest

LEMMA Core0Blocks == \A call \in Calls : Block(Core0Body(call), Steps0)
<1>1. Block(ReadRegister, Steps0)
  <2>1. Both(Steps0) /\ "OTHER" \in Registers /\ "OTHER" # "INT"
    BY DEF Both, Registers
  <2>. QED
    BY <2>1, FetchBlock DEF ReadRegister
<1>2. Block(SnkPdoRequestTest, Steps0)
  BY TestBlock, BlockCat DEF SnkPdoRequestTest
<1>. QED
  BY <1>1, <1>2, InitBlock, TestBlock DEF Core0Body, Calls

LEMMA OpcodeReadUnswept == Unswept(OpcodeRead)
<1>1. PICK a, b, c :
          a = Step("point", "OPCODE_READ") /\ b = Step("select", "") /\ c = Step("read_response", "")
  OBVIOUS
<1>2. PICK s : s = <<a, b, c>>
  OBVIOUS
<1>3. Len(s) = 3 /\ s[1] = a /\ s[2] = b /\ s[3] = c
  BY <1>2
<1>4. a # Step("fill", "INT") /\ b # Step("fill", "INT") /\ c # Step("fill", "INT")
  BY <1>1 DEF Step
<1>5. Unswept(s)
  BY <1>3, <1>4 DEF Unswept
<1>. QED
  BY <1>1, <1>2, <1>5 DEF OpcodeRead

LEMMA OpcodeReadBlock == Block(OpcodeRead, Steps1)
<1>1. Both(Steps1)
  BY DEF Both
<1>2. PICK a \in Steps1, b \in Steps1, c \in Steps1 :
          a = Step("point", "OPCODE_READ") /\ b = Step("select", "") /\ c = Step("read_response", "")
  BY <1>1, StepsOfBoth, StepsOf1
<1>3. PICK s : s = OpcodeRead
  OBVIOUS
<1>4. s \in Seq(Steps1) /\ Len(s) = 3 /\ s[1] = a /\ s[2] = b /\ s[3] = c
  <2>1. s = <<a, b, c>>
    BY <1>2, <1>3 DEF OpcodeRead
  <2>. QED
    BY <2>1
<1>5. /\ a.do = "point" /\ b.do = "select" /\ c.do = "read_response"
      /\ a # Step("fill", "INT") /\ b # Step("fill", "INT") /\ c # Step("fill", "INT")
  BY <1>2 DEF Step
<1>6. Fetches(s)
  BY <1>4, <1>5 DEF Fetches, FetchAt
<1>7. Served(s)
  BY <1>4, <1>5 DEF Served
<1>. QED
  BY <1>3, <1>4, <1>6, <1>7, OpcodeReadUnswept, UnsweptSweeps DEF Block

LEMMA ResponseBlock == Block(OnOpcodeCmdResponse, Steps1) /\ HasTake(OnOpcodeCmdResponse)
<1>1. Both(Steps1)
  BY DEF Both
<1>2. Block(OpcodeRead \o OpcodeQueuePop, Steps1) /\ HasTake(OpcodeRead \o OpcodeQueuePop)
  BY <1>1, OpcodeReadBlock, OpcodeReadUnswept, AddsBlock DEF Block
<1>3. PICK x \in Steps1 : x = Step("finish", "")
  BY StepsOf1
<1>4. x.do = "finish"
  BY <1>3 DEF Step
<1>5. Block(<<x>>, Steps1)
  BY <1>4, SingleBlock
<1>6. PICK s : s = OpcodeRead \o OpcodeQueuePop
  OBVIOUS
<1>7. OnOpcodeCmdResponse = s \o <<x>>
  BY <1>3, <1>6 DEF OnOpcodeCmdResponse
<1>8. Block(s, Steps1) /\ HasTake(s) /\ s \in Seq(Steps1) /\ <<x>> \in Seq(Steps1)
  BY <1>2, <1>6 DEF Block
<1>9. HasTake(s \o <<x>>)
  <2>1. Joins(s \o <<x>>, s, <<x>>)
    BY <1>8, After
  <2>2. PICK j \in 1..Len(s) : s[j].do = "take"
    BY <1>8 DEF HasTake
  <2>3. j \in 1..Len(s \o <<x>>) /\ (s \o <<x>>)[j].do = "take"
    BY <2>1, <2>2 DEF Joins
  <2>. QED
    BY <2>3 DEF HasTake
<1>10. Block(s \o <<x>>, Steps1)
  BY <1>5, <1>8, BlockCat
<1>. QED
  BY <1>7, <1>9, <1>10

LEMMA HandlerBlocks == \A bit \in Ints : Block(Handler(bit), Steps1)
<1>1. Both(Steps1)
  BY DEF Both
<1>2. Block(OnChgtypeChange, Steps1)
  <2>1. "BC_STATUS" \in Registers /\ "BC_STATUS" # "INT"
    BY DEF Registers
  <2>. QED
    BY <1>1, <2>1, FetchBlock DEF OnChgtypeChange
<1>3. Block(OnPdMsgReceived, Steps1)
  <2>1. PICK x \in Steps1 : x = Step("queue", "pd_msg_response")
    BY StepsOf1
  <2>2. x.do = "queue"
    BY <2>1 DEF Step
  <2>3. Block(<<x>>, Steps1)
    BY <2>2, SingleBlock
  <2>. QED
    BY <2>1, <2>3 DEF OnPdMsgReceived
<1>4. Block(OnCcstatChange, Steps1)
  BY <1>1, CcstatBlock
<1>. QED
  BY <1>2, <1>3, <1>4, ResponseBlock DEF Handler, Ints

LEMMA PdResponseBlock == Block(PdMsgResponse, Steps1)
<1>1. Both(Steps1) /\ "PD_STATUS" \in Registers /\ "PD_STATUS" # "INT"
  BY DEF Both, Registers
<1>2. Block(Fetch("PD_STATUS"), Steps1)
  BY <1>1, FetchBlock
<1>3. PICK x \in Steps1 : x = Step("switch_pd", "")
  BY StepsOf1
<1>4. x.do = "switch_pd"
  BY <1>3 DEF Step
<1>5. Block(<<x>>, Steps1)
  BY <1>4, SingleBlock
<1>. QED
  BY <1>2, <1>3, <1>5, BlockCat DEF PdMsgResponse

LEMMA ParseBlock == Block(ParseInterruptVals, Steps1)
<1>1. Both(Steps1)
  BY DEF Both
<1>2. PICK a \in Steps1, b \in Steps1, c \in Steps1 :
          a = Step("fill", "INT") /\ b = Step("select", "") /\ c = Step("read", "")
  BY <1>1, StepsOfBoth DEF Registers
<1>3. PICK d \in Steps1, e \in Steps1, f \in Steps1, g \in Steps1 :
          /\ d = Step("check", "APCmdResI") /\ e = Step("check", "PDMsgI")
          /\ f = Step("check", "ChgType") /\ g = Step("check", "CCStat")
  BY StepsOf1 DEF Ints
<1>4. PICK s : s = <<a, b, c>>
  OBVIOUS
<1>5. PICK t : t = <<d, e, f, g>>
  OBVIOUS
<1>6. s \in Seq(Steps1) /\ Len(s) = 3 /\ s[1] = a /\ s[2] = b /\ s[3] = c
  BY <1>4
<1>7. t \in Seq(Steps1) /\ Len(t) = 4 /\ t[1] = d /\ t[2] = e /\ t[3] = f /\ t[4] = g
  BY <1>5
<1>8. PICK u : u = s \o t
  OBVIOUS
<1>9. ParseInterruptVals = u
  BY <1>2, <1>3, <1>4, <1>5, <1>8 DEF ParseInterruptVals, Fetch
<1>10. u \in Seq(Steps1) /\ Joins(u, s, t)
  BY <1>6, <1>7, <1>8, After
<1>11. /\ Len(u) = 7 /\ u[1] = a /\ u[2] = b /\ u[3] = c
       /\ u[4] = d /\ u[5] = e /\ u[6] = f /\ u[7] = g
  BY <1>6, <1>7, <1>10 DEF Joins
<1>12. /\ a.do = "fill" /\ b.do = "select" /\ c.do = "read" /\ d.do = "check" /\ e.do = "check"
       /\ f.do = "check" /\ g.do = "check"
       /\ d = Check1
  BY <1>2, <1>3 DEF Step, Check1
<1>13. \A i \in 2..7 : u[i].do \notin {"fill", "point", "add"} /\ u[i] # Step("fill", "INT")
  BY <1>11, <1>12 DEF Step
<1>14. FetchAt(u, 1) /\ SweepAt(u, 1, Steps1)
  BY <1>11, <1>12, Checked DEF FetchAt, SweepAt
<1>15. \A i \in 2..7 : FetchAt(u, i) /\ SweepAt(u, i, Steps1)
  BY <1>13 DEF FetchAt, SweepAt
<1>16. Fetches(u) /\ Sweeps(u, Steps1)
  BY <1>11, <1>14, <1>15 DEF Fetches, Sweeps
<1>17. Served(u)
  BY <1>11, <1>12, <1>13 DEF Served
<1>. QED
  BY <1>9, <1>10, <1>16, <1>17 DEF Block

-----------------------------------------------------------------------------
(* What a step leaves to do. *)

Own(c) == IF c = 0 THEN Steps0 ELSE Steps1
WriteStep == Step("write", "")
PrepareStep == Step("prepare", "")

\* A block, or one that opcode_queue_pop is in the middle of.
Whole(s, D) ==
    \/ Block(s, D)
    \/ s \in Seq(Steps) /\ s # <<>> /\ Head(s) = GiveStep /\ Block(Tail(s), D)

Todos ==
    /\ todo \in [Cores -> Seq(Steps)]
    /\ Whole(todo[0], Steps0)
    /\ Whole(todo[1], Steps1) \/ todo[1] = <<PrepareStep, WriteStep>> \/ todo[1] = <<WriteStep>>

LEMMA OwnIs ==
    ASSUME NEW c \in Cores
    PROVE  /\ Both(Own(c)) /\ Own(c) \subseteq Steps
           /\ c = 0 => Own(c) = Steps0
           /\ c = 1 => Own(c) = Steps1
<1>1. c = 0 \/ c = 1
  BY DEF Cores
<1>. QED
  BY <1>1 DEF Own, Both, Steps0, Steps1

LEMMA StepArgs ==
    ASSUME NEW x \in Steps
    PROVE  /\ x = Step(x.do, x.arg)
           /\ x.do = "call" => x.arg \in Calls
           /\ x.do = "fill" => x.arg \in Registers
           /\ x.do = "add" => x.arg \in Ops
           /\ x.do = "check" => x.arg \in Ints
           /\ x.do = "point" => x.arg = "OPCODE_READ"
           /\ x.do = "queue" => x.arg = "pd_msg_response"
<1>1. CASE \E call \in Calls : x = Step("call", call)
  BY <1>1 DEF Step
<1>2. CASE \E reg \in Registers : x = Step("fill", reg)
  BY <1>2 DEF Step
<1>3. CASE \E op \in Ops : x = Step("add", op)
  BY <1>3 DEF Step
<1>4. CASE \E bit \in Ints : x = Step("check", bit)
  BY <1>4 DEF Step
<1>5. CASE x \in {Step("point", "OPCODE_READ"), Step("queue", "pd_msg_response")}
  BY <1>5 DEF Step
<1>6. ASSUME NEW do \in Transfers \cup {"unfinish", "take", "give", "finish", "prepare",
                                        "switch_cc", "switch_pd", "wait"},
             x = Step(do, "")
      PROVE  x = Step(x.do, x.arg) /\ x.do = do
  BY <1>6 DEF Step
<1>7. CASE \E do \in Transfers \cup {"unfinish", "take", "give", "finish", "prepare",
                                     "switch_cc", "switch_pd", "wait"} : x = Step(do, "")
  BY <1>6, <1>7 DEF Transfers
<1>. QED
  BY <1>1, <1>2, <1>3, <1>4, <1>5, <1>7 DEF Steps

\* What a core that has something to do is at.
LEMMA HeadKinds ==
    ASSUME Todos, NEW c \in Cores, todo[c] # <<>>
    PROVE  /\ Head(todo[c]) \in Steps
           /\ Tail(todo[c]) \in Seq(Steps)
           /\ \/ Head(todo[c]) = GiveStep /\ Block(Tail(todo[c]), Own(c))
              \/ /\ Head(todo[c]) \in Own(c)
                 /\ Block(todo[c], Own(c))
                 /\ Block(Tail(todo[c]), Own(c))
              \/ c = 1 /\ Head(todo[c]) = PrepareStep /\ Tail(todo[c]) = <<WriteStep>>
                       /\ todo[c] = <<PrepareStep, WriteStep>>
              \/ c = 1 /\ Head(todo[c]) = WriteStep /\ Tail(todo[c]) = <<>>
                       /\ todo[c] = <<WriteStep>>
<1>1. todo[c] \in Seq(Steps) /\ (c = 0 \/ c = 1)
  BY DEF Todos, Cores
<1>2. Head(todo[c]) \in Steps /\ Tail(todo[c]) \in Seq(Steps)
  BY <1>1, HeadTailProperties
<1>3. CASE Whole(todo[c], Own(c))
  <2>1. CASE Block(todo[c], Own(c))
    <3>1. Block(Tail(todo[c]), Own(c))
      BY <2>1, BlockTail
    <3>2. Head(todo[c]) \in Own(c)
      <4>1. todo[c] \in Seq(Own(c))
        BY <2>1 DEF Block
      <4>. QED
        BY <4>1, HeadTailProperties
    <3>. QED
      BY <1>2, <2>1, <3>1, <3>2
  <2>2. CASE ~Block(todo[c], Own(c))
    BY <1>2, <1>3, <2>2 DEF Whole
  <2>. QED
    BY <2>1, <2>2
<1>4. ASSUME c = 1, todo[1] = <<PrepareStep, WriteStep>>
      PROVE  Head(todo[1]) = PrepareStep /\ Tail(todo[1]) = <<WriteStep>>
  <2>1. PICK s : s = todo[1]
    OBVIOUS
  <2>2. PICK a, b : a = PrepareStep /\ b = WriteStep
    OBVIOUS
  <2>3. s = <<a, b>>
    BY <1>4, <2>1, <2>2
  <2>4. Head(s) = a /\ Tail(s) = <<b>>
    BY <2>3
  <2>. QED
    BY <2>1, <2>2, <2>4
<1>5. ASSUME c = 1, todo[1] = <<WriteStep>>
      PROVE  Head(todo[1]) = WriteStep /\ Tail(todo[1]) = <<>>
  <2>1. PICK s : s = todo[1]
    OBVIOUS
  <2>2. PICK b : b = WriteStep
    OBVIOUS
  <2>3. s = <<b>>
    BY <1>5, <2>1, <2>2
  <2>4. Head(s) = b /\ Tail(s) = <<>>
    BY <2>3
  <2>. QED
    BY <2>1, <2>2, <2>4
<1>. QED
  BY <1>1, <1>2, <1>3, <1>4, <1>5, OwnIs DEF Todos

LEMMA EmptyCat == ASSUME NEW s \in Seq(Steps) PROVE <<>> \o s = s
BY ConcatEmptySeq

LEMMA Called ==
    ASSUME Todos, NEW c \in Cores, todo[c] # <<>>, NEW steps, Call(c, steps)
    PROVE  /\ todo' = [todo EXCEPT ![c] = steps \o Tail(todo[c])]
           /\ todo'[c] = steps \o Tail(todo[c])
           /\ \A d \in Cores : d # c => todo'[d] = todo[d]
BY DEF Todos, Call

LEMMA Proceeded ==
    ASSUME Todos, NEW c \in Cores, todo[c] # <<>>, Proceed(c)
    PROVE  /\ todo' = [todo EXCEPT ![c] = Tail(todo[c])]
           /\ todo'[c] = Tail(todo[c])
           /\ \A d \in Cores : d # c => todo'[d] = todo[d]
<1>1. Call(c, <<>>)
  BY DEF Proceed
<1>2. Tail(todo[c]) \in Seq(Steps)
  BY HeadKinds
<1>3. <<>> \o Tail(todo[c]) = Tail(todo[c])
  BY <1>2, EmptyCat
<1>. QED
  BY <1>1, <1>3, Called

\* A core's list, made of a block and what was left, keeps the shape of Todos.
LEMMA TodosByParts ==
    ASSUME Todos, NEW c \in Cores, NEW s,
           Whole(s, Own(c)) \/ (c = 1 /\ s = <<WriteStep>>) \/ (c = 1 /\ s = <<PrepareStep, WriteStep>>),
           todo' = [todo EXCEPT ![c] = s]
    PROVE  Todos'
<1>1. s \in Seq(Steps)
  <2>1. PrepareStep \in Steps /\ WriteStep \in Steps
    BY DEF PrepareStep, WriteStep, Steps, Transfers
  <2>2. CASE Whole(s, Own(c))
    <3>1. CASE Block(s, Own(c))
      <4>1. s \in Seq(Own(c)) /\ Own(c) \subseteq Steps
        BY <3>1, OwnIs DEF Block
      <4>. QED
        BY <4>1
    <3>2. CASE ~Block(s, Own(c))
      BY <2>2, <3>2 DEF Whole
    <3>. QED
      BY <3>1, <3>2
  <2>3. PICK a \in Steps, b \in Steps : a = PrepareStep /\ b = WriteStep
    BY <2>1
  <2>4. <<b>> \in Seq(Steps) /\ <<a, b>> \in Seq(Steps)
    OBVIOUS
  <2>. QED
    BY <2>2, <2>3, <2>4
<1>2. todo \in [Cores -> Seq(Steps)] /\ 0 \in Cores /\ 1 \in Cores
  BY DEF Todos, Cores
<1>3. todo' \in [Cores -> Seq(Steps)] /\ todo'[c] = s /\ \A d \in Cores : d # c => todo'[d] = todo[d]
  BY <1>1, <1>2
<1>4. CASE c = 0
  <2>1. Whole(todo'[0], Steps0) /\ todo'[1] = todo[1]
    BY <1>2, <1>3, <1>4, OwnIs
  <2>. QED
    BY <1>3, <2>1 DEF Todos
<1>5. CASE c = 1
  <2>1. /\ Whole(todo'[1], Steps1) \/ todo'[1] = <<PrepareStep, WriteStep>> \/ todo'[1] = <<WriteStep>>
        /\ todo'[0] = todo[0]
    BY <1>2, <1>3, <1>5, OwnIs
  <2>. QED
    BY <1>3, <2>1 DEF Todos
<1>. QED
  BY <1>4, <1>5 DEF Cores

LEMMA AtKinds ==
    ASSUME Todos, NEW c \in Cores, todo[c] # <<>>
    PROVE  /\ Head(todo[c]) = Step(Head(todo[c]).do, Head(todo[c]).arg)
           /\ Head(todo[c]).do \notin {"give", "prepare", "write"} =>
                  /\ Head(todo[c]) \in Own(c)
                  /\ Block(todo[c], Own(c))
                  /\ Block(Tail(todo[c]), Own(c))
           /\ Head(todo[c]).do = "give" => Block(Tail(todo[c]), Own(c))
           /\ Head(todo[c]).do = "prepare" =>
                  c = 1 /\ todo[c] = <<PrepareStep, WriteStep>> /\ Tail(todo[c]) = <<WriteStep>>
           /\ Head(todo[c]).do = "write" =>
                  c = 1 /\ todo[c] = <<WriteStep>> /\ Tail(todo[c]) = <<>>
<1>1. \A x \in Own(c) : x.do \notin {"give", "prepare", "write"}
  BY DEF Own, Steps0, Steps1
<1>2. GiveStep.do = "give" /\ PrepareStep.do = "prepare" /\ WriteStep.do = "write"
  BY DEF GiveStep, PrepareStep, WriteStep, Step
<1>3. Head(todo[c]) \in Steps
  BY HeadKinds
<1>4. Head(todo[c]) = Step(Head(todo[c]).do, Head(todo[c]).arg)
  BY <1>3, StepArgs
<1>5. PICK x, t : x = Head(todo[c]) /\ t = Tail(todo[c])
  OBVIOUS
<1>6. \/ x = GiveStep /\ Block(t, Own(c))
      \/ x \in Own(c) /\ Block(todo[c], Own(c)) /\ Block(t, Own(c))
      \/ c = 1 /\ x = PrepareStep /\ t = <<WriteStep>> /\ todo[c] = <<PrepareStep, WriteStep>>
      \/ c = 1 /\ x = WriteStep /\ t = <<>> /\ todo[c] = <<WriteStep>>
  BY <1>5, HeadKinds
<1>. QED
  BY <1>1, <1>2, <1>4, <1>5, <1>6

\* Only core c's list changes, and it is not left at one of these.
Moves(c) ==
    /\ Todos'
    /\ \A d \in Cores : d # c => todo'[d] = todo[d]
    /\ ~At(c, "give")' /\ ~At(c, "prepare")'
    /\ At(c, "write")' => At(c, "prepare")

LEMMA BlockHead ==
    ASSUME NEW c \in Cores, NEW s, Block(s, Own(c)) \/ (c = 1 /\ s = <<WriteStep>>), s # <<>>
    PROVE  /\ Head(s).do \notin {"give", "prepare"}
           /\ Block(s, Own(c)) => Head(s).do # "write"
<1>1. CASE Block(s, Own(c))
  <2>1. Head(s) \in Own(c)
    <3>1. s \in Seq(Own(c))
      BY <1>1 DEF Block
    <3>. QED
      BY <3>1, HeadTailProperties
  <2>. QED
    BY <2>1 DEF Own, Steps0, Steps1
<1>2. CASE ~Block(s, Own(c)) /\ s = <<WriteStep>>
  <2>1. PICK b : b = WriteStep
    OBVIOUS
  <2>2. s = <<b>>
    BY <1>2, <2>1
  <2>3. Head(s) = b
    BY <2>2
  <2>4. b.do = "write"
    BY <2>1 DEF WriteStep, Step
  <2>. QED
    BY <1>2, <2>3, <2>4
<1>. QED
  BY <1>1, <1>2

\* A step that calls nothing leaves the list in shape.
LEMMA ProceedKept ==
    ASSUME Todos, NEW c \in Cores, todo[c] # <<>>, Proceed(c)
    PROVE  Moves(c)
<1>1. PICK t : t = Tail(todo[c])
  OBVIOUS
<1>2. todo' = [todo EXCEPT ![c] = t]
  BY <1>1, Proceeded
<1>3. Block(t, Own(c)) \/ (c = 1 /\ t = <<WriteStep>>) \/ t = <<>>
  BY <1>1, HeadKinds
<1>4. Whole(t, Own(c)) \/ (c = 1 /\ t = <<WriteStep>>)
  BY <1>3, EmptyBlock DEF Whole
<1>5. Todos' /\ todo'[c] = t /\ \A d \in Cores : d # c => todo'[d] = todo[d]
  BY <1>1, <1>2, <1>4, TodosByParts, Proceeded
<1>6. t # <<>> => Head(t).do \notin {"give", "prepare"}
  BY <1>3, BlockHead
<1>7. t # <<>> => Head(t).do # "write" \/ Head(todo[c]).do = "prepare"
  <2>1. Block(t, Own(c)) \/ t = <<>> \/ Head(todo[c]) = PrepareStep
    BY <1>1, HeadKinds
  <2>2. PrepareStep.do = "prepare"
    BY DEF PrepareStep, Step
  <2>. QED
    BY <2>1, <2>2, BlockHead
<1>. QED
  BY <1>5, <1>6, <1>7 DEF Moves, At

\* A step that calls a function of the driver leaves it in shape.
LEMMA CallKept ==
    ASSUME Todos, NEW c \in Cores, todo[c] # <<>>,
           Head(todo[c]).do \notin {"give", "prepare", "write"},
           NEW s, Block(s, Own(c)), Call(c, s)
    PROVE  Moves(c) /\ todo'[c] = s \o Tail(todo[c])
<1>1. PICK t : t = Tail(todo[c])
  OBVIOUS
<1>2. Block(t, Own(c))
  BY <1>1, AtKinds
<1>3. todo' = [todo EXCEPT ![c] = s \o t]
  BY <1>1, Called
<1>4. PICK u : u = s \o t
  OBVIOUS
<1>5. Block(u, Own(c))
  BY <1>2, <1>4, BlockCat
<1>6. /\ Todos' /\ todo'[c] = u
      /\ \A d \in Cores : d # c => todo'[d] = todo[d]
  <2>1. Whole(u, Own(c))
    BY <1>5 DEF Whole
  <2>2. Todos'
    BY <1>3, <1>4, <2>1, TodosByParts
  <2>. QED
    BY <1>1, <1>4, <2>2, Called
<1>7. u # <<>> => Head(u).do \notin {"give", "prepare", "write"}
  BY <1>5, BlockHead
<1>. QED
  BY <1>1, <1>4, <1>6, <1>7 DEF Moves, At

\* opcode_queue_pop keeps it in shape between its two halves.
LEMMA GiveKept ==
    ASSUME Todos, NEW c \in Cores, todo[c] # <<>>, Head(todo[c]).do = "take",
           Call(c, <<GiveStep>>)
    PROVE  /\ Todos'
           /\ \A d \in Cores : d # c => todo'[d] = todo[d]
           /\ todo'[c] # <<>> /\ Head(todo'[c]) = GiveStep /\ Tail(todo'[c]) = Tail(todo[c])
           /\ At(c, "give")' /\ ~At(c, "prepare")' /\ ~At(c, "write")'
<1>1. PICK t : t = Tail(todo[c])
  OBVIOUS
<1>2. Block(t, Own(c)) /\ Own(c) \subseteq Steps
  BY <1>1, AtKinds, OwnIs
<1>3. PICK g : g = GiveStep
  OBVIOUS
<1>4. todo' = [todo EXCEPT ![c] = <<g>> \o t] /\ todo'[c] = <<g>> \o t
  BY <1>1, <1>3, Called
<1>5. t \in Seq(Steps) /\ g \in Steps
  <2>1. GiveStep \in Steps
    BY DEF GiveStep, Steps
  <2>2. t \in Seq(Own(c))
    BY <1>2 DEF Block
  <2>3. Seq(Own(c)) \subseteq Seq(Steps)
    BY <1>2
  <2>. QED
    BY <1>3, <2>1, <2>2, <2>3
<1>6. PICK u : u = <<g>> \o t
  OBVIOUS
<1>7. u \in Seq(Steps) /\ u # <<>> /\ Head(u) = g /\ Tail(u) = t
  <2>1. <<g>> \in Seq(Steps) /\ Len(<<g>>) = 1 /\ <<g>>[1] = g
    BY <1>5
  <2>2. u \in Seq(Steps) /\ Joins(u, <<g>>, t)
    BY <1>5, <1>6, <2>1, After
  <2>3. Len(u) = 1 + Len(t) /\ Len(t) \in Nat /\ u[1] = g
    BY <2>1, <2>2 DEF Joins
  <2>4. PICK n \in Nat : n = Len(t)
    BY <2>3
  <2>5. Len(u) = 1 + n /\ u # <<>>
    BY <2>3, <2>4
  <2>6. /\ Head(u) = u[1] /\ Tail(u) \in Seq(Steps) /\ Len(Tail(u)) = Len(u) - 1
        /\ \A i \in 1..Len(u) : i > 1 => Tail(u)[i - 1] = u[i]
    BY <2>2, <2>5, TailIs
  <2>7. Len(Tail(u)) = n
    BY <2>5, <2>6
  <2>8. ASSUME NEW i \in 1..n PROVE Tail(u)[i] = t[i]
    <3>1. i + 1 \in 1..Len(u) /\ i + 1 > 1 /\ (i + 1) - 1 = i
      BY <2>5
    <3>2. u[i + 1] = t[i]
      BY <2>1, <2>2, <2>4 DEF Joins
    <3>. QED
      BY <2>6, <3>1, <3>2
  <2>9. Tail(u) = t
    BY <1>5, <2>4, <2>6, <2>7, <2>8, SeqEqual
  <2>. QED
    BY <2>2, <2>3, <2>5, <2>6, <2>9
<1>8. Whole(u, Own(c))
  BY <1>2, <1>3, <1>7 DEF Whole
<1>9. Todos'
  BY <1>4, <1>6, <1>8, TodosByParts
<1>10. /\ \A d \in Cores : d # c => todo'[d] = todo[d]
       /\ todo'[c] = u
  BY <1>1, <1>3, <1>4, <1>6, Called
<1>11. GiveStep.do = "give"
  BY DEF GiveStep, Step
<1>. QED
  BY <1>1, <1>3, <1>7, <1>9, <1>10, <1>11 DEF At

PdMessages == {"swap_to_sink", "swap_to_source", "other"}

\* opcode_queue_pop is between its two halves.
Takes(c) ==
    /\ Todos'
    /\ \A d \in Cores : d # c => todo'[d] = todo[d]
    /\ todo'[c] # <<>> /\ Head(todo'[c]) = GiveStep /\ Tail(todo'[c]) = Tail(todo[c])
    /\ At(c, "give")' /\ ~At(c, "prepare")' /\ ~At(c, "write")'

LEMMA EnterMoves ==
    ASSUME Todos, NEW c \in Cores, Enter(c)
    PROVE  /\ c = 0 /\ Moves(c)
           /\ \E call \in Calls : todo'[c] = Core0Body(call) \o Tail(todo[c])
<1>1. todo[c] # <<>> /\ Head(todo[c]).do = "call" /\ Call(c, Core0Body(Arg(c)))
  BY DEF Enter, At
<1>2. Head(todo[c]) \in Own(c) /\ Head(todo[c]) \in Steps
  BY <1>1, AtKinds, HeadKinds
<1>3. c = 0
  BY <1>1, <1>2, OwnIs DEF Steps1, Cores
<1>4. Arg(c) \in Calls
  BY <1>1, <1>2, StepArgs DEF Arg
<1>5. PICK a \in Calls : a = Arg(c)
  BY <1>4
<1>6. PICK s : s = Core0Body(a)
  OBVIOUS
<1>7. Block(s, Own(c)) /\ Call(c, s)
  BY <1>1, <1>3, <1>5, <1>6, Core0Blocks, OwnIs
<1>8. Moves(c) /\ todo'[c] = s \o Tail(todo[c])
  BY <1>1, <1>7, CallKept
<1>. QED
  BY <1>3, <1>6, <1>8

LEMMA TakeMoves ==
    ASSUME Todos, NEW c \in Cores, Take(c)
    PROVE  /\ opcode_queue = <<>> => Moves(c)
           /\ opcode_queue # <<>> => Takes(c)
<1>1. todo[c] # <<>> /\ Head(todo[c]).do = "take"
  BY DEF Take, At
<1>2. CASE opcode_queue = <<>>
  BY <1>1, <1>2, ProceedKept DEF Take
<1>3. CASE opcode_queue # <<>>
  <2>1. Call(c, <<GiveStep>>)
    BY <1>3 DEF Take, GiveStep
  <2>. QED
    BY <1>1, <1>3, <2>1, GiveKept DEF Takes
<1>. QED
  BY <1>2, <1>3

LEMMA CheckMoves ==
    ASSUME Todos, NEW c \in Cores, Check(c)
    PROVE  /\ c = 1 /\ Moves(c) /\ Arg(c) \in Ints
           /\ \E set \in Tested(Arg(c)) :
                  todo'[c] = (IF set THEN Handler(Arg(c)) ELSE <<>>) \o Tail(todo[c])
<1>1. todo[c] # <<>> /\ Head(todo[c]).do = "check"
  BY DEF Check, At
<1>2. PICK set \in Tested(Arg(c)) : Call(c, IF set THEN Handler(Arg(c)) ELSE <<>>)
  BY DEF Check
<1>3. Head(todo[c]) \in Own(c) /\ Head(todo[c]) \in Steps
  BY <1>1, AtKinds, HeadKinds
<1>4. c = 1
  BY <1>1, <1>3, OwnIs DEF Steps0, Cores
<1>5. PICK a \in Ints : a = Arg(c)
  BY <1>1, <1>3, StepArgs DEF Arg
<1>6. PICK s : s = IF set THEN Handler(a) ELSE <<>>
  OBVIOUS
<1>7. Block(s, Own(c)) /\ Call(c, s)
  BY <1>2, <1>4, <1>5, <1>6, HandlerBlocks, EmptyBlock, OwnIs
<1>8. Moves(c) /\ todo'[c] = s \o Tail(todo[c])
  BY <1>1, <1>7, CallKept
<1>. QED
  BY <1>4, <1>5, <1>6, <1>8

LEMMA SwitchCcMoves ==
    ASSUME Todos, NEW c \in Cores, SwitchCc(c)
    PROVE  /\ Moves(c)
           /\ \E s \in {<<>>, VbusTurnOff} : todo'[c] = s \o Tail(todo[c])
<1>1. todo[c] # <<>> /\ Head(todo[c]).do = "switch_cc"
  BY DEF SwitchCc, At
<1>2. PICK s \in {<<>>, VbusTurnOff} : Call(c, s)
  BY DEF SwitchCc
<1>3. Block(s, Own(c))
  BY VbusBlocks, EmptyBlock, OwnIs
<1>4. Moves(c) /\ todo'[c] = s \o Tail(todo[c])
  BY <1>1, <1>2, <1>3, CallKept
<1>. QED
  BY <1>4

LEMMA SwitchPdMoves ==
    ASSUME Todos, NEW c \in Cores, SwitchPd(c),
           return_buf.of = "PD_STATUS" => return_buf.val \in PdMessages
    PROVE  /\ c = 1 /\ Moves(c)
           /\ \E s \in {<<>>, VbusTurnOff, VbusTurnOn} : todo'[c] = s \o Tail(todo[c])
<1>1. todo[c] # <<>> /\ Head(todo[c]).do = "switch_pd"
  BY DEF SwitchPd, At
<1>2. Head(todo[c]) \in Own(c)
  BY <1>1, AtKinds
<1>3. c = 1
  BY <1>1, <1>2, OwnIs DEF Steps0, Cores
<1>4. Statuses("PD_STATUS", PdMessages) \subseteq PdMessages
  BY DEF Statuses
<1>5. PICK status \in PdMessages :
          Call(c, CASE status = "swap_to_sink" -> VbusTurnOff
                    [] status = "swap_to_source" -> VbusTurnOn
                    [] status = "other" -> <<>>)
  BY <1>4 DEF SwitchPd, PdMessages
<1>6. PICK s \in {<<>>, VbusTurnOff, VbusTurnOn} : Call(c, s)
  BY <1>5 DEF PdMessages
<1>7. Block(s, Own(c))
  BY VbusBlocks, EmptyBlock, OwnIs
<1>8. Moves(c) /\ todo'[c] = s \o Tail(todo[c])
  BY <1>1, <1>6, <1>7, CallKept
<1>. QED
  BY <1>3, <1>8

\* Every other step of a core only goes on to the next.
LEMMA OthersMove ==
    ASSUME Todos, NEW c \in Cores,
           \/ Fill(c) \/ Point(c) \/ Select(c) \/ Read(c) \/ ReadResponse(c)
           \/ Unfinish(c) \/ Add(c) \/ Give(c) \/ Drop(c) \/ Finish(c)
           \/ Queue(c) \/ Prepare(c) \/ Write(c) \/ Wait(c)
    PROVE  Moves(c) /\ todo'[c] = Tail(todo[c])
<1>1. CASE Fill(c) \/ Point(c) \/ Select(c) \/ Read(c) \/ ReadResponse(c)
  <2>1. todo[c] # <<>> /\ Proceed(c)
    BY <1>1 DEF At, Fill, Point, Select, Read, ReadResponse
  <2>. QED
    BY <2>1, ProceedKept, Proceeded
<1>2. CASE Unfinish(c) \/ Add(c) \/ Give(c) \/ Drop(c) \/ Finish(c)
  <2>1. todo[c] # <<>> /\ Proceed(c)
    BY <1>2 DEF At, Unfinish, Add, Give, Drop, Finish
  <2>. QED
    BY <2>1, ProceedKept, Proceeded
<1>3. CASE Queue(c) \/ Prepare(c) \/ Write(c) \/ Wait(c)
  <2>1. todo[c] # <<>> /\ Proceed(c)
    BY <1>3 DEF At, Queue, Prepare, Write, Wait
  <2>. QED
    BY <2>1, ProceedKept, Proceeded
<1>. QED
  BY <1>1, <1>2, <1>3

LEMMA PopMoves ==
    ASSUME Todos, call_queue \in Seq(Entries), Core1Pop
    PROVE  /\ Todos'
           /\ todo'[0] = todo[0] /\ todo'[1] = Body(running')
           /\ ~At(1, "give") /\ ~At(1, "give")' /\ ~At(1, "write")'
           /\ running' \in Entries
           /\ At(1, "prepare")' => running' \in Opcodes
<1>1. PICK e : e = Head(call_queue)
  OBVIOUS
<1>2. call_queue # <<>> /\ todo[1] = <<>>
  BY DEF Core1Pop
<1>3. e \in Entries /\ running' = e
  BY <1>1, <1>2, HeadTailProperties DEF Core1Pop
<1>4. PICK s : s = Body(e)
  OBVIOUS
<1>5. todo' = [todo EXCEPT ![1] = s]
  BY <1>3, <1>4 DEF Core1Pop
<1>6. \/ Block(s, Steps1)
      \/ s = <<PrepareStep, WriteStep>> /\ e \in Opcodes
  <2>1. CASE e.op = "parse_interrupt_vals"
    BY <1>4, <2>1, ParseBlock DEF Body
  <2>2. CASE e.op = "pd_msg_response"
    BY <1>4, <2>2, PdResponseBlock DEF Body
  <2>3. CASE e.op \notin {"parse_interrupt_vals", "pd_msg_response"}
    <3>1. e \in Opcodes
      BY <1>3, <2>3 DEF Entries, Plain, Opcode
    <3>2. s = OpcodeFunction
      BY <1>4, <2>3 DEF Body
    <3>. QED
      BY <3>1, <3>2 DEF OpcodeFunction, PrepareStep, WriteStep
  <2>. QED
    BY <2>1, <2>2, <2>3
<1>7. 1 \in Cores /\ Own(1) = Steps1
  BY DEF Cores, Own
<1>8. Todos'
  <2>1. Whole(s, Own(1)) \/ s = <<PrepareStep, WriteStep>>
    BY <1>6, <1>7 DEF Whole
  <2>. QED
    BY <1>5, <1>7, <2>1, TodosByParts
<1>9. todo'[1] = s /\ todo'[0] = todo[0]
  BY <1>5 DEF Todos, Cores
<1>10. CASE Block(s, Steps1)
  <2>1. s # <<>> => Head(s).do \notin {"give", "prepare", "write"}
    BY <1>7, <1>10, BlockHead
  <2>2. ~At(1, "give")' /\ ~At(1, "prepare")' /\ ~At(1, "write")'
    BY <1>9, <2>1 DEF At
  <2>. QED
    BY <1>2, <1>3, <1>4, <1>8, <1>9, <2>2 DEF At
<1>11. CASE s = <<PrepareStep, WriteStep>> /\ e \in Opcodes
  <2>1. PICK a, b : a = PrepareStep /\ b = WriteStep
    OBVIOUS
  <2>2. s = <<a, b>>
    BY <1>11, <2>1
  <2>3. Head(s) = a
    BY <2>2
  <2>4. a.do = "prepare"
    BY <2>1 DEF PrepareStep, Step
  <2>5. ~At(1, "give")' /\ ~At(1, "write")'
    BY <1>9, <2>3, <2>4 DEF At
  <2>. QED
    BY <1>2, <1>3, <1>4, <1>8, <1>9, <1>11, <2>5 DEF At
<1>. QED
  BY <1>6, <1>10, <1>11

-----------------------------------------------------------------------------
(* Types.                                                                    *)

\* A core holds an opcode just when it is between the halves of opcode_queue_pop,
\* and core 1 fills send_buf for an opcode only.
Queues ==
    /\ opcode_queue \in Seq(Opcodes)
    /\ call_queue \in Seq(Entries)
    /\ hand \in [Cores -> Opcodes \cup {NoOpcode}]
    /\ \A c \in Cores : At(c, "give") <=> hand[c] # NoOpcode
    /\ running \in Entries \cup {NoOpcode}
    /\ At(1, "prepare") => running \in Opcodes
    /\ added \in Nat

Buffers ==
    /\ send_buf.reg \in Registers \cup {"OPCODE", "TRIGGER"}
    /\ send_buf.opcode \in Opcodes \cup {NoOpcode}
    /\ send_buf.reg = "OPCODE" => send_buf.opcode \in Opcodes
    /\ return_buf.bits \subseteq Ints
    /\ return_buf.bits # {} => return_buf.of = "INT"
    /\ return_buf.of = "PD_STATUS" => return_buf.val \in PdMessages
    /\ op_code_return_buf \in Nat

Chip ==
    /\ pointer \in Registers \cup {"OPCODE", "TRIGGER"}
    /\ int \subseteq Ints
    /\ pd \in PdMessages
    /\ commands \in Seq(Opcodes)
    /\ response \in Nat

Flags ==
    /\ opcodes_finished \in BOOLEAN
    /\ popped \in [Cores -> BOOLEAN]
    /\ events \in 0..MaxEvents
    /\ drops \in 0..MaxDrops

TypeInv == Todos /\ Queues /\ Buffers /\ Chip /\ Flags

LEMMA OpcodeFacts ==
    /\ NoOpcode \notin Opcodes
    /\ \A e \in Opcodes : e \in Entries /\ e.op \in Ops /\ e.n \in Nat /\ e # NoOpcode
    /\ \A op \in Ops, n \in Nat : Opcode(op, n) \in Opcodes /\ Opcode(op, n).n = n
    /\ \A e \in Entries : e.op \in Ops => e \in Opcodes
    /\ Plain("pd_msg_response") \in Entries /\ Plain("parse_interrupt_vals") \in Entries
    /\ Plain("pd_msg_response").op \notin Ops /\ Plain("parse_interrupt_vals").op \notin Ops
    /\ NoOpcode \notin Entries
BY DEF NoOpcode, Opcodes, Opcode, Entries, Plain, Ops

LEMMA QueuesStay ==
    ASSUME Queues, NEW c \in Cores, Moves(c), ~At(c, "give"),
           UNCHANGED <<hand, running>>
    PROVE  /\ \A d \in Cores : At(d, "give")' <=> hand'[d] # NoOpcode
           /\ At(1, "prepare")' => running' \in Opcodes
<1>1. \A d \in Cores : d # c => (At(d, "give")' <=> At(d, "give"))
  BY DEF Moves, At
<1>2. ~At(c, "give")' /\ ~At(c, "prepare")'
  BY DEF Moves
<1>3. c # 1 => (At(1, "prepare")' <=> At(1, "prepare"))
  BY DEF Moves, At, Cores
<1>. QED
  BY <1>1, <1>2, <1>3 DEF Queues

\* The steps of a core that leave the queues alone.
LEMMA QueuesUnchanged ==
    ASSUME Queues, NEW c \in Cores, Moves(c), ~At(c, "give"),
           UNCHANGED <<opcode_queue, call_queue, hand, running, added>>
    PROVE  Queues'
BY QueuesStay DEF Queues

LEMMA ChipQueues ==
    ASSUME Queues, NEW bit, Raise(bit), UNCHANGED <<opcode_queue, hand, running, added, todo>>
    PROVE  Queues'
<1>1. call_queue' \in Seq(Entries)
  <2>1. PICK e \in Entries : e = Plain("parse_interrupt_vals")
    BY OpcodeFacts
  <2>2. call_queue' = Append(call_queue, e) \/ call_queue' = call_queue
    BY <2>1 DEF Raise
  <2>. QED
    BY <2>2, AppendProperties DEF Queues
<1>2. \A c \in Cores : At(c, "give")' <=> At(c, "give")
  BY DEF At
<1>3. At(1, "prepare")' <=> At(1, "prepare")
  BY DEF At
<1>. QED
  BY <1>1, <1>2, <1>3 DEF Queues

LEMMA TakeQueues ==
    ASSUME Todos, Queues, NEW c \in Cores, Take(c)
    PROVE  Queues'
<1>1. CASE opcode_queue = <<>>
  <2>1. Moves(c) /\ ~At(c, "give")
    BY <1>1, TakeMoves DEF Take, At
  <2>. QED
    BY <1>1, <2>1, QueuesUnchanged DEF Take, histories
<1>2. CASE opcode_queue # <<>>
  <2>1. Takes(c)
    BY <1>2, TakeMoves
  <2>2. /\ Head(opcode_queue) \in Opcodes /\ Tail(opcode_queue) \in Seq(Opcodes)
        /\ hand' = [hand EXCEPT ![c] = Head(opcode_queue)]
        /\ opcode_queue' = Tail(opcode_queue)
        /\ UNCHANGED <<call_queue, running, added>>
    <3>1. Head(opcode_queue) \in Opcodes /\ Tail(opcode_queue) \in Seq(Opcodes)
      BY <1>2, HeadTailProperties DEF Queues
    <3>. QED
      BY <1>2, <3>1 DEF Take, histories
  <2>3. PICK e \in Opcodes : e = Head(opcode_queue)
    BY <2>2
  <2>4. /\ hand' \in [Cores -> Opcodes \cup {NoOpcode}]
        /\ hand'[c] = e /\ \A d \in Cores : d # c => hand'[d] = hand[d]
    BY <2>2, <2>3 DEF Queues
  <2>5. \A d \in Cores : d # c => (At(d, "give")' <=> At(d, "give"))
    BY <2>1 DEF Takes, At
  <2>6. At(c, "give")' /\ ~At(c, "prepare")' /\ (c # 1 => (At(1, "prepare")' <=> At(1, "prepare")))
    BY <2>1 DEF Takes, At, Cores
  <2>7. \A d \in Cores : At(d, "give")' <=> hand'[d] # NoOpcode
    <3>1. e # NoOpcode
      BY OpcodeFacts
    <3>. QED
      BY <2>4, <2>5, <2>6, <3>1 DEF Queues
  <2>. QED
    BY <2>2, <2>4, <2>6, <2>7 DEF Queues
<1>. QED
  BY <1>1, <1>2

LEMMA GiveQueues ==
    ASSUME Todos, Queues, NEW c \in Cores, Give(c) \/ Drop(c)
    PROVE  Queues'
<1>1. Moves(c)
  BY OthersMove
<1>2. At(c, "give") /\ hand[c] \in Opcodes
  BY DEF Give, Drop, Queues
<1>3. PICK e \in Opcodes : e = hand[c]
  BY <1>2
<1>4. call_queue' \in Seq(Entries)
  <2>1. e \in Entries
    BY OpcodeFacts
  <2>2. call_queue' = Append(call_queue, e) \/ call_queue' = call_queue
    BY <1>3 DEF Give, Drop, queues
  <2>. QED
    BY <2>1, <2>2, AppendProperties DEF Queues
<1>5. /\ hand' = [hand EXCEPT ![c] = NoOpcode]
      /\ UNCHANGED <<opcode_queue, running, added>>
  BY DEF Give, Drop, queues, histories
<1>6. /\ hand' \in [Cores -> Opcodes \cup {NoOpcode}]
      /\ hand'[c] = NoOpcode /\ \A d \in Cores : d # c => hand'[d] = hand[d]
  BY <1>5 DEF Queues
<1>7. \A d \in Cores : d # c => (At(d, "give")' <=> At(d, "give"))
  BY <1>1 DEF Moves, At
<1>8. ~At(c, "give")' /\ ~At(c, "prepare")' /\ (c # 1 => (At(1, "prepare")' <=> At(1, "prepare")))
  BY <1>1 DEF Moves, At, Cores
<1>9. \A d \in Cores : At(d, "give")' <=> hand'[d] # NoOpcode
  BY <1>6, <1>7, <1>8 DEF Queues
<1>. QED
  BY <1>4, <1>5, <1>6, <1>8, <1>9 DEF Queues

LEMMA AddQueues ==
    ASSUME Todos, Queues, NEW c \in Cores, Add(c)
    PROVE  /\ Queues' /\ added' = added + 1
           /\ \E e \in Opcodes : e.n = added + 1 /\ opcode_queue' = Append(opcode_queue, e)
<1>1. todo[c] # <<>> /\ Head(todo[c]).do = "add" /\ ~At(c, "give")
  BY DEF Add, At
<1>2. Arg(c) \in Ops
  BY <1>1, HeadKinds, StepArgs DEF Arg
<1>3. PICK a \in Ops : a = Arg(c)
  BY <1>2
<1>4. PICK e : e = Opcode(a, added + 1)
  OBVIOUS
<1>5. e \in Opcodes /\ e.n = added + 1
  BY <1>4, OpcodeFacts DEF Queues
<1>6. /\ opcode_queue' = Append(opcode_queue, e) /\ added' = added + 1
      /\ UNCHANGED <<call_queue, hand, running>>
  BY <1>3, <1>4 DEF Add
<1>7. opcode_queue' \in Seq(Opcodes)
  BY <1>5, <1>6, AppendProperties DEF Queues
<1>8. Moves(c)
  BY OthersMove
<1>. QED
  BY <1>1, <1>5, <1>6, <1>7, <1>8, QueuesStay DEF Queues

LEMMA QueueQueues ==
    ASSUME Todos, Queues, NEW c \in Cores, Queue(c)
    PROVE  Queues' /\ call_queue' = Append(call_queue, Plain("pd_msg_response"))
<1>1. todo[c] # <<>> /\ Head(todo[c]).do = "queue" /\ ~At(c, "give")
  BY DEF Queue, At
<1>2. Arg(c) = "pd_msg_response"
  BY <1>1, HeadKinds, StepArgs DEF Arg
<1>3. PICK e \in Entries : e = Plain("pd_msg_response")
  BY OpcodeFacts
<1>4. /\ call_queue' = Append(call_queue, e)
      /\ UNCHANGED <<opcode_queue, hand, running, added>>
  BY <1>2, <1>3 DEF Queue, histories
<1>5. call_queue' \in Seq(Entries)
  BY <1>4, AppendProperties DEF Queues
<1>6. Moves(c)
  BY OthersMove
<1>. QED
  BY <1>1, <1>3, <1>4, <1>5, <1>6, QueuesStay DEF Queues

LEMMA PopQueues ==
    ASSUME Todos, Queues, Core1Pop
    PROVE  Queues'
<1>1. call_queue \in Seq(Entries)
  BY DEF Queues
<1>2. /\ todo'[0] = todo[0] /\ ~At(1, "give") /\ ~At(1, "give")'
      /\ running' \in Entries /\ (At(1, "prepare")' => running' \in Opcodes)
  BY <1>1, PopMoves
<1>3. call_queue' \in Seq(Entries) /\ UNCHANGED <<opcode_queue, hand, added>>
  BY <1>1, HeadTailProperties DEF Core1Pop, histories
<1>4. At(0, "give")' <=> At(0, "give")
  BY <1>2 DEF At
<1>5. \A c \in Cores : At(c, "give")' <=> hand'[c] # NoOpcode
  BY <1>2, <1>3, <1>4 DEF Queues, Cores
<1>. QED
  BY <1>2, <1>3, <1>5 DEF Queues

\* The steps of a core that leave the queues alone, one by one.
LEMMA QuietMoves ==
    ASSUME Todos, NEW c \in Cores, return_buf.of = "PD_STATUS" => return_buf.val \in PdMessages,
           \/ Enter(c) \/ Fill(c) \/ Point(c) \/ Select(c) \/ Read(c) \/ ReadResponse(c)
           \/ Unfinish(c) \/ Finish(c) \/ Prepare(c) \/ Write(c) \/ Wait(c)
           \/ Check(c) \/ SwitchCc(c) \/ SwitchPd(c)
    PROVE  /\ Moves(c) /\ ~At(c, "give") /\ todo[c] # <<>>
           /\ UNCHANGED <<opcode_queue, call_queue, hand, running, added>>
<1>1. CASE Enter(c)
  BY <1>1, EnterMoves DEF Enter, At, queues, histories
<1>2. CASE Fill(c) \/ Point(c) \/ Select(c) \/ Read(c) \/ ReadResponse(c)
  BY <1>2, OthersMove DEF Fill, Point, Select, Read, ReadResponse, At, queues, histories
<1>3. CASE Unfinish(c) \/ Finish(c) \/ Prepare(c) \/ Write(c) \/ Wait(c)
  BY <1>3, OthersMove DEF Unfinish, Finish, Prepare, Write, Wait, At, queues, histories
<1>4. CASE Check(c)
  BY <1>4, CheckMoves DEF Check, At, queues, histories
<1>5. CASE SwitchCc(c)
  BY <1>5, SwitchCcMoves DEF SwitchCc, At, queues, histories
<1>6. CASE SwitchPd(c)
  BY <1>6, SwitchPdMoves DEF SwitchPd, At, queues, histories
<1>. QED
  BY <1>1, <1>2, <1>3, <1>4, <1>5, <1>6

LEMMA BuffersKept ==
    ASSUME Todos, Queues, Buffers, Chip, [Next]_vars
    PROVE  Buffers'
<1>1. ASSUME NEW c \in Cores, Fill(c) PROVE Buffers'
  <2>1. todo[c] # <<>> /\ Head(todo[c]).do = "fill"
    BY <1>1 DEF Fill, At
  <2>2. Arg(c) \in Registers
    BY <2>1, HeadKinds, StepArgs DEF Arg
  <2>3. send_buf'.reg = Arg(c) /\ send_buf'.opcode = NoOpcode /\ send_buf'.reg # "OPCODE"
    BY <1>1, <2>2 DEF Fill, Registers
  <2>4. return_buf'.bits = {} /\ return_buf'.of = "ZEROS" /\ op_code_return_buf' = op_code_return_buf
    BY <1>1 DEF Fill, Zeros, Contents
  <2>. QED
    BY <2>2, <2>3, <2>4 DEF Buffers
<1>2. ASSUME NEW c \in Cores, Point(c) PROVE Buffers'
  <2>1. todo[c] # <<>> /\ Head(todo[c]).do = "point"
    BY <1>2 DEF Point, At
  <2>2. Arg(c) = "OPCODE_READ"
    BY <2>1, HeadKinds, StepArgs DEF Arg
  <2>3. send_buf'.reg = "OPCODE_READ" /\ send_buf'.opcode = NoOpcode
    BY <1>2, <2>2 DEF Point
  <2>4. return_buf' = return_buf /\ op_code_return_buf' = op_code_return_buf
    BY <1>2 DEF Point
  <2>. QED
    BY <2>3, <2>4 DEF Buffers, Registers
<1>3. ASSUME NEW c \in Cores, Read(c) PROVE Buffers'
  <2>1. send_buf' = send_buf /\ op_code_return_buf' = op_code_return_buf
    BY <1>3 DEF Read
  <2>2. PICK r : r = Registered(pointer)
    OBVIOUS
  <2>3. return_buf' = r
    BY <1>3, <2>2 DEF Read
  <2>4. CASE pointer = "INT"
    <3>1. r.bits = int /\ r.of = "INT"
      BY <2>2, <2>4 DEF Registered, Contents
    <3>. QED
      BY <2>1, <2>3, <3>1 DEF Buffers, Chip
  <2>5. CASE pointer = "CC_STATUS"
    <3>1. r.bits = {} /\ r.of = "CC_STATUS"
      BY <2>2, <2>5 DEF Registered, Contents
    <3>. QED
      BY <2>1, <2>3, <3>1 DEF Buffers
  <2>6. CASE pointer = "PD_STATUS"
    <3>1. r.bits = {} /\ r.of = "PD_STATUS" /\ r.val = pd
      BY <2>2, <2>6 DEF Registered, Contents
    <3>. QED
      BY <2>1, <2>3, <3>1 DEF Buffers, Chip
  <2>7. CASE pointer \notin {"INT", "CC_STATUS", "PD_STATUS"}
    <3>1. r.bits = {} /\ r.of = pointer
      BY <2>2, <2>7 DEF Registered, Contents
    <3>. QED
      BY <2>1, <2>3, <2>7, <3>1 DEF Buffers
  <2>. QED
    BY <2>4, <2>5, <2>6, <2>7
<1>4. ASSUME NEW c \in Cores, ReadResponse(c) PROVE Buffers'
  BY <1>4 DEF ReadResponse, Buffers, Chip
<1>5. ASSUME NEW c \in Cores, Prepare(c) PROVE Buffers'
  <2>1. todo[c] # <<>> /\ Head(todo[c]).do = "prepare" /\ At(c, "prepare")
    BY <1>5 DEF Prepare, At
  <2>2. running \in Opcodes
    BY <2>1, AtKinds DEF Queues
  <2>3. send_buf'.reg = "OPCODE" /\ send_buf'.opcode = running
    BY <1>5 DEF Prepare
  <2>4. return_buf' = return_buf /\ op_code_return_buf' = op_code_return_buf
    BY <1>5 DEF Prepare
  <2>. QED
    BY <2>2, <2>3, <2>4 DEF Buffers
<1>6. ASSUME NEW c \in Cores, Write(c) PROVE Buffers'
  <2>1. send_buf'.reg = "TRIGGER" /\ send_buf'.opcode = NoOpcode
    BY <1>6 DEF Write
  <2>2. return_buf' = return_buf /\ op_code_return_buf' = op_code_return_buf
    BY <1>6 DEF Write
  <2>. QED
    BY <2>1, <2>2 DEF Buffers
<1>7. ASSUME UNCHANGED buffers PROVE Buffers'
  BY <1>7 DEF Buffers, buffers
<1>8. ASSUME NEW c \in Cores, \/ Enter(c) \/ Select(c) \/ Unfinish(c) \/ Add(c) \/ Take(c)
                              \/ Give(c) \/ Drop(c) \/ Finish(c) \/ Queue(c) \/ Check(c)
                              \/ SwitchCc(c) \/ SwitchPd(c) \/ Wait(c)
      PROVE  UNCHANGED buffers
  BY <1>8 DEF Enter, Select, Unfinish, Add, Take, Give, Drop, Finish, Queue, Check, SwitchCc,
              SwitchPd, Wait, buffers
<1>9. ASSUME Core1Pop \/ CableChange \/ PowerMessage \/ ChargerChange \/ Answer
      PROVE  UNCHANGED buffers
  BY <1>9 DEF Core1Pop, CableChange, PowerMessage, ChargerChange, Answer, Happens, buffers
<1>10. ASSUME NEW c \in Cores, CoreStep(c) PROVE Buffers'
  BY <1>1, <1>2, <1>3, <1>4, <1>5, <1>6, <1>7, <1>8, <1>10 DEF CoreStep
<1>11. ASSUME Wait(0) PROVE Buffers'
  <2>1. 0 \in Cores
    BY DEF Cores
  <2>. QED
    BY <1>7, <1>8, <1>11, <2>1
<1>12. ASSUME UNCHANGED vars PROVE UNCHANGED buffers
  BY <1>12 DEF vars, buffers
<1>. QED
  BY <1>7, <1>9, <1>10, <1>11, <1>12 DEF Next

LEMMA RaiseKeepsInts ==
    ASSUME int \subseteq Ints, NEW bit \in Ints, Raise(bit)
    PROVE  int' \subseteq Ints
BY DEF Raise

LEMMA ChipKept ==
    ASSUME Todos, Queues, Buffers, Chip, [Next]_vars
    PROVE  Chip'
<1>1. ASSUME NEW c \in Cores, Select(c) PROVE Chip'
  BY <1>1 DEF Select, Chip, Buffers
<1>2. ASSUME NEW c \in Cores, Read(c) \/ ReadResponse(c) PROVE Chip'
  BY <1>2 DEF Read, ReadResponse, Chip
<1>3. ASSUME NEW c \in Cores, Write(c) PROVE Chip'
  <2>1. UNCHANGED <<pointer, int, pd, response>>
    BY <1>3 DEF Write
  <2>2. commands' \in Seq(Opcodes)
    <3>1. CASE send_buf.reg = "OPCODE"
      <4>1. PICK e \in Opcodes : e = send_buf.opcode
        BY <3>1 DEF Buffers
      <4>2. commands' \in Accepted(e)
        BY <1>3, <3>1, <4>1 DEF Write
      <4>3. Append(commands, e) \in Seq(Opcodes) /\ <<e>> \in Seq(Opcodes) /\ commands \in Seq(Opcodes)
        BY DEF Chip
      <4>. QED
        BY <4>2, <4>3 DEF Accepted
    <3>2. CASE send_buf.reg # "OPCODE"
      BY <1>3, <3>2 DEF Write, Chip
    <3>. QED
      BY <3>1, <3>2
  <2>. QED
    BY <2>1, <2>2 DEF Chip
<1>4. ASSUME UNCHANGED chip PROVE Chip'
  BY <1>4 DEF Chip, chip
<1>5. ASSUME NEW c \in Cores, \/ Enter(c) \/ Fill(c) \/ Point(c) \/ Unfinish(c) \/ Add(c)
                              \/ Take(c) \/ Give(c) \/ Drop(c) \/ Finish(c) \/ Queue(c)
                              \/ Prepare(c) \/ Check(c) \/ SwitchCc(c) \/ SwitchPd(c) \/ Wait(c)
      PROVE  UNCHANGED chip
  BY <1>5 DEF Enter, Fill, Point, Unfinish, Add, Take, Give, Drop, Finish, Queue, Prepare,
              Check, SwitchCc, SwitchPd, Wait, chip
<1>6. ASSUME NEW c \in Cores, CoreStep(c) PROVE Chip'
  BY <1>1, <1>2, <1>3, <1>4, <1>5, <1>6 DEF CoreStep
<1>7. ASSUME Wait(0) PROVE Chip'
  <2>1. 0 \in Cores
    BY DEF Cores
  <2>. QED
    BY <1>4, <1>5, <1>7, <2>1
<1>8. ASSUME Core1Pop PROVE Chip'
  BY <1>4, <1>8 DEF Core1Pop
<1>9. ASSUME CableChange PROVE Chip'
  <2>1. Raise("CCStat") /\ "CCStat" \in Ints /\ UNCHANGED <<pointer, pd, commands, response>>
    BY <1>9 DEF CableChange, Happens, Ints
  <2>. QED
    BY <2>1, RaiseKeepsInts DEF Chip
<1>10. ASSUME PowerMessage PROVE Chip'
  <2>1. /\ Raise("PDMsgI") /\ "PDMsgI" \in Ints /\ UNCHANGED <<pointer, commands, response>>
        /\ pd' \in PdMessages
    BY <1>10 DEF PowerMessage, Happens, Ints, PdMessages
  <2>. QED
    BY <2>1, RaiseKeepsInts DEF Chip
<1>11. ASSUME ChargerChange PROVE Chip'
  <2>1. Raise("ChgType") /\ "ChgType" \in Ints /\ UNCHANGED <<pointer, pd, commands, response>>
    BY <1>11 DEF ChargerChange, Happens, Ints
  <2>. QED
    BY <2>1, RaiseKeepsInts DEF Chip
<1>12. ASSUME Answer PROVE Chip'
  <2>1. Raise("APCmdResI") /\ "APCmdResI" \in Ints /\ UNCHANGED <<pointer, pd>>
    BY <1>12 DEF Answer, Ints
  <2>2. commands # <<>> /\ response' = Head(commands).n /\ commands' = Tail(commands)
    BY <1>12 DEF Answer
  <2>3. PICK e : e = Head(commands)
    OBVIOUS
  <2>4. e \in Opcodes /\ commands' \in Seq(Opcodes)
    BY <2>2, <2>3, HeadTailProperties DEF Chip
  <2>5. response' \in Nat
    BY <2>2, <2>3, <2>4, OpcodeFacts
  <2>. QED
    BY <2>1, <2>4, <2>5, RaiseKeepsInts DEF Chip
<1>13. ASSUME UNCHANGED vars PROVE Chip'
  BY <1>4, <1>13 DEF vars, chip
<1>. QED
  BY <1>6, <1>7, <1>8, <1>9, <1>10, <1>11, <1>12, <1>13 DEF Next

LEMMA FlagsKept ==
    ASSUME Todos, Queues, Flags, [Next]_vars
    PROVE  Flags'
<1>. USE MAX77958Assumption
<1>1. ASSUME UNCHANGED <<opcodes_finished, popped, events, drops>> PROVE Flags'
  BY <1>1 DEF Flags
<1>2. ASSUME NEW c \in Cores, \/ Enter(c) \/ Fill(c) \/ Point(c) \/ Select(c) \/ Read(c)
                              \/ ReadResponse(c) \/ Add(c) \/ Queue(c) \/ Prepare(c) \/ Write(c)
                              \/ Check(c) \/ SwitchCc(c) \/ SwitchPd(c) \/ Wait(c)
      PROVE  UNCHANGED <<opcodes_finished, popped, events, drops>>
  BY <1>2 DEF Enter, Fill, Point, Select, Read, ReadResponse, Add, Queue, Prepare, Write, Check,
              SwitchCc, SwitchPd, Wait
<1>3. ASSUME NEW c \in Cores, Take(c) PROVE Flags'
  BY <1>3 DEF Take, Flags
<1>4. ASSUME NEW c \in Cores, Give(c) PROVE Flags'
  BY <1>4 DEF Give, Flags
<1>5. ASSUME NEW c \in Cores, Drop(c) PROVE Flags'
  <2>1. drops < MaxDrops /\ drops' = drops + 1
    BY <1>5 DEF Drop
  <2>2. drops' \in 0..MaxDrops
    BY <2>1 DEF Flags
  <2>. QED
    BY <1>5, <2>2 DEF Drop, Flags
<1>6. ASSUME NEW c \in Cores, Unfinish(c) PROVE Flags'
  BY <1>6 DEF Unfinish, Flags
<1>7. ASSUME NEW c \in Cores, Finish(c) PROVE Flags'
  <2>1. popped[c] \in BOOLEAN
    BY DEF Flags
  <2>2. opcodes_finished' \in BOOLEAN
    <3>1. opcodes_finished' = (opcodes_finished \/ ~popped[c])
      BY <1>7 DEF Finish
    <3>. QED
      BY <3>1, Zenon
  <2>3. UNCHANGED <<popped, events, drops>>
    BY <1>7 DEF Finish
  <2>. QED
    BY <2>2, <2>3 DEF Flags
<1>8. ASSUME NEW c \in Cores, CoreStep(c) PROVE Flags'
  BY <1>1, <1>2, <1>3, <1>4, <1>5, <1>6, <1>7, <1>8 DEF CoreStep
<1>9. ASSUME Wait(0) PROVE Flags'
  <2>1. 0 \in Cores
    BY DEF Cores
  <2>. QED
    BY <1>1, <1>2, <1>9, <2>1
<1>10. ASSUME NEW kind, Happens(kind) PROVE Flags'
  <2>1. events < MaxEvents /\ events' = events + 1 /\ UNCHANGED <<opcodes_finished, popped, drops>>
    BY <1>10 DEF Happens
  <2>. QED
    BY <2>1 DEF Flags
<1>11. ASSUME Core1Pop \/ Answer PROVE Flags'
  BY <1>1, <1>11 DEF Core1Pop, Answer
<1>12. ASSUME UNCHANGED vars PROVE Flags'
  BY <1>1, <1>12 DEF vars
<1>. QED
  BY <1>8, <1>9, <1>10, <1>11, <1>12 DEF Next, CableChange, PowerMessage, ChargerChange

LEMMA TodosAndQueuesKept ==
    ASSUME Todos, Queues, Buffers, [Next]_vars
    PROVE  Todos' /\ Queues'
<1>1. ASSUME NEW c \in Cores,
             \/ Enter(c) \/ Fill(c) \/ Point(c) \/ Select(c) \/ Read(c) \/ ReadResponse(c)
             \/ Unfinish(c) \/ Finish(c) \/ Prepare(c) \/ Write(c) \/ Wait(c)
             \/ Check(c) \/ SwitchCc(c) \/ SwitchPd(c)
      PROVE  Todos' /\ Queues'
  <2>1. return_buf.of = "PD_STATUS" => return_buf.val \in PdMessages
    BY DEF Buffers
  <2>2. Moves(c) /\ Queues'
    BY <1>1, <2>1, QuietMoves, QueuesUnchanged
  <2>. QED
    BY <2>2 DEF Moves
<1>2. ASSUME NEW c \in Cores, Take(c) PROVE Todos' /\ Queues'
  BY <1>2, TakeMoves, TakeQueues DEF Moves, Takes
<1>3. ASSUME NEW c \in Cores, Add(c) \/ Give(c) \/ Drop(c) \/ Queue(c) PROVE Todos' /\ Queues'
  BY <1>3, OthersMove, AddQueues, GiveQueues, QueueQueues DEF Moves
<1>4. ASSUME NEW c \in Cores, CoreStep(c) PROVE Todos' /\ Queues'
  BY <1>1, <1>2, <1>3, <1>4 DEF CoreStep
<1>5. ASSUME Wait(0) PROVE Todos' /\ Queues'
  <2>1. 0 \in Cores
    BY DEF Cores
  <2>. QED
    BY <1>1, <1>5, <2>1
<1>6. ASSUME Core1Pop PROVE Todos' /\ Queues'
  BY <1>6, PopMoves, PopQueues DEF Queues
<1>7. ASSUME UNCHANGED todo PROVE Todos'
  BY <1>7 DEF Todos
<1>8. ASSUME NEW bit, Raise(bit), UNCHANGED <<opcode_queue, hand, running, added, todo>>
      PROVE  Todos' /\ Queues'
  BY <1>7, <1>8, ChipQueues
<1>9. ASSUME CableChange PROVE Todos' /\ Queues'
  BY <1>8, <1>9 DEF CableChange, Happens, histories
<1>10. ASSUME PowerMessage PROVE Todos' /\ Queues'
  BY <1>8, <1>10 DEF PowerMessage, Happens, histories
<1>11. ASSUME ChargerChange PROVE Todos' /\ Queues'
  BY <1>8, <1>11 DEF ChargerChange, Happens, histories
<1>12. ASSUME Answer PROVE Todos' /\ Queues'
  BY <1>8, <1>12 DEF Answer, histories
<1>13. ASSUME UNCHANGED vars PROVE Todos' /\ Queues'
  <2>1. UNCHANGED <<opcode_queue, call_queue, hand, running, added, todo>>
    BY <1>13 DEF vars
  <2>2. \A c \in Cores : At(c, "give")' <=> At(c, "give")
    BY <2>1 DEF At
  <2>3. At(1, "prepare")' <=> At(1, "prepare")
    BY <2>1 DEF At
  <2>. QED
    BY <1>7, <2>1, <2>2, <2>3 DEF Queues
<1>. QED
  BY <1>4, <1>5, <1>6, <1>9, <1>10, <1>11, <1>12, <1>13 DEF Next

LEMMA TypeInit == Init => TypeInv
<1>. SUFFICES ASSUME Init PROVE TypeInv
  OBVIOUS
<1>. USE MAX77958Assumption
<1>1. Core0Program \in Seq(Steps0) /\ Len(Core0Program) = Len(Core0Calls)
      /\ \A i \in 1..Len(Core0Calls) : Core0Program[i] = Step("call", Core0Calls[i])
  <2>1. PICK n \in Nat : n = Len(Core0Calls)
    OBVIOUS
  <2>2. \A i \in 1..n : Step("call", Core0Calls[i]) \in Steps0
    <3>1. \A i \in 1..n : Core0Calls[i] \in Calls
      BY <2>1
    <3>. QED
      BY <3>1, StepsOf0
  <2>3. PICK f : f = [i \in 1..n |-> Step("call", Core0Calls[i])]
    OBVIOUS
  <2>4. f \in Seq(Steps0) /\ Len(f) = n
    BY <2>2, <2>3, SeqDef, LenProperties
  <2>. QED
    BY <2>1, <2>3, <2>4 DEF Core0Program
<1>2. PICK p \in Seq(Steps0) : p = Core0Program
  BY <1>1
<1>3. \A i \in 1..Len(p) : p[i].do = "call"
  <2>1. \A i \in 1..Len(p) : p[i] = Step("call", Core0Calls[i])
    BY <1>1, <1>2
  <2>2. \A x : Step("call", x).do = "call"
    BY DEF Step
  <2>. QED
    BY <2>1, <2>2
<1>4. Block(p, Steps0)
  <2>1. \A i \in 1..Len(p) : p[i] # Step("fill", "INT")
    BY <1>3 DEF Step
  <2>. QED
    BY <1>3, <2>1 DEF Block, Fetches, FetchAt, Served, Sweeps, SweepAt
<1>5. todo = [c \in Cores |-> IF c = 0 THEN p ELSE <<>>]
  BY <1>2 DEF Init
<1>6. todo[0] = p /\ todo[1] = <<>>
  BY <1>5 DEF Cores
<1>7. p \in Seq(Steps)
  <2>1. Steps0 \subseteq Steps
    BY DEF Steps0
  <2>. QED
    BY <2>1
<1>8. Todos
  <2>1. todo \in [Cores -> Seq(Steps)]
    BY <1>5, <1>7
  <2>2. Whole(todo[0], Steps0) /\ Whole(todo[1], Steps1)
    BY <1>4, <1>6, EmptyBlock DEF Whole
  <2>. QED
    BY <2>1, <2>2 DEF Todos
<1>9. ~At(0, "give") /\ ~At(1, "give") /\ ~At(1, "prepare")
  <2>1. p # <<>> => Head(p).do = "call"
    <3>1. ASSUME p # <<>> PROVE Head(p) = p[1] /\ 1 \in 1..Len(p)
      BY <3>1, TailIs
    <3>. QED
      BY <1>3, <3>1
  <2>. QED
    BY <1>6, <2>1 DEF At
<1>10. Queues
  <2>1. /\ opcode_queue = <<>> /\ call_queue = <<>> /\ hand = [c \in Cores |-> NoOpcode]
        /\ running = NoOpcode /\ added = 0
    BY DEF Init
  <2>. QED
    BY <1>9, <2>1 DEF Queues, Cores
<1>11. Buffers
  <2>1. send_buf.reg = "INT" /\ send_buf.opcode = NoOpcode
    BY DEF Init
  <2>2. return_buf.bits = {} /\ return_buf.of = "ZEROS" /\ op_code_return_buf = 0
    BY DEF Init, Zeros, Contents
  <2>. QED
    BY <2>1, <2>2 DEF Buffers, Registers
<1>12. Chip
  BY MAX77958Assumption DEF Init, Chip, Registers, PdMessages
<1>13. Flags
  <2>1. opcodes_finished = FALSE /\ popped = [c \in Cores |-> FALSE] /\ events = 0 /\ drops = 0
    BY DEF Init
  <2>2. popped \in [Cores -> BOOLEAN]
    BY <2>1
  <2>3. events \in 0..MaxEvents /\ drops \in 0..MaxDrops
    BY <2>1
  <2>. QED
    BY <2>1, <2>2, <2>3 DEF Flags
<1>. QED
  BY <1>8, <1>10, <1>11, <1>12, <1>13 DEF TypeInv

LEMMA TypeNext == TypeInv /\ [Next]_vars => TypeInv'
BY BuffersKept, ChipKept, FlagsKept, TodosAndQueuesKept DEF TypeInv

LEMMA TypeImplies == TypeInv => TypeOK
<1>. SUFFICES ASSUME TypeInv PROVE TypeOK
  OBVIOUS
<1>. QED
  BY DEF TypeInv, Todos, Queues, Buffers, Chip, Flags, TypeOK

LEMMA TypesHold == Spec => []TypeInv
BY TypeInit, TypeNext, PTL DEF Spec

\* Every variable of the driver and of the chip keeps its type: what waits in the
\* queues and what the chip is given are opcodes, and every function called, with the
\* argument it is called with, is one of the driver's.
THEOREM TypeCorrect == Spec => []TypeOK
BY TypesHold, TypeImplies, PTL

-----------------------------------------------------------------------------
(* The order of the opcodes.                                                 *)

\* The opcodes of a queue, and that their numbers rise along it.
In(q) == {e \in Opcodes : \E i \in 1..Len(q) : q[i] = e}
Rises(q) == \A i, j \in 1..Len(q) :
                i < j /\ q[i] \in Opcodes /\ q[j] \in Opcodes => q[i].n < q[j].n

Held == {e \in Opcodes : \E c \in Cores : hand[c] = e}

\* An opcode on its way is ahead of those that came later, and after the one run
\* last or the one about to run.
Ordered ==
    /\ Rises(opcode_queue) /\ Rises(call_queue)
    /\ \A x \in In(call_queue), y \in Held : x.n < y.n
    /\ \A x \in In(call_queue), y \in In(opcode_queue) : x.n < y.n
    /\ \A x \in Held, y \in In(opcode_queue) : x.n < y.n
    /\ \A x \in In(call_queue) \cup Held \cup In(opcode_queue) : ran < x.n /\ x.n <= added
    /\ At(1, "prepare") =>
           /\ ran < running.n /\ running.n <= added
           /\ \A x \in In(call_queue) \cup Held \cup In(opcode_queue) : running.n < x.n
Numbered == ran \in Nat /\ (~Clashed => ran <= added /\ Ordered)

LEMMA Appended ==
    ASSUME NEW q \in Seq(Entries), NEW e \in Entries, Rises(q),
           e \in Opcodes => \A x \in In(q) : x.n < e.n
    PROVE  Rises(Append(q, e)) /\ In(Append(q, e)) = In(q) \cup ({e} \cap Opcodes)
<1>1. PICK u : u = Append(q, e)
  OBVIOUS
<1>2. PICK n \in Nat : n = Len(q)
  OBVIOUS
<1>3. Len(u) = n + 1 /\ (\A i \in 1..n : u[i] = q[i]) /\ u[n + 1] = e
  BY <1>1, <1>2, AppendProperties
<1>4. \A i \in 1..(n + 1) : i \in 1..n \/ i = n + 1
  OBVIOUS
<1>5. 1..n \subseteq 1..(n + 1) /\ n + 1 \in 1..(n + 1)
  OBVIOUS
<1>6. Rises(u)
  <2>1. ASSUME NEW i \in 1..(n + 1), NEW j \in 1..(n + 1), i < j, u[i] \in Opcodes, u[j] \in Opcodes
        PROVE  u[i].n < u[j].n
    <3>1. i \in 1..n /\ u[i] = q[i]
      BY <1>3, <2>1
    <3>2. q[i] \in In(q)
      BY <1>2, <2>1, <3>1 DEF In
    <3>3. CASE j = n + 1
      BY <1>3, <2>1, <3>1, <3>2, <3>3
    <3>4. CASE j \in 1..n
      BY <1>2, <1>3, <2>1, <3>1, <3>4 DEF Rises
    <3>. QED
      BY <1>4, <3>3, <3>4
  <2>. QED
    BY <1>3, <2>1 DEF Rises
<1>7. In(u) = In(q) \cup ({e} \cap Opcodes)
  BY <1>2, <1>3, <1>4, <1>5 DEF In
<1>. QED
  BY <1>1, <1>6, <1>7

LEMMA Removed ==
    ASSUME NEW q \in Seq(Entries), q # <<>>, Rises(q)
    PROVE  /\ Rises(Tail(q)) /\ In(Tail(q)) \subseteq In(q)
           /\ Head(q) \in Opcodes => Head(q) \in In(q) /\ \A x \in In(Tail(q)) : Head(q).n < x.n
<1>1. PICK t : t = Tail(q)
  OBVIOUS
<1>2. /\ Head(q) = q[1] /\ Len(q) \in Nat /\ Len(q) >= 1 /\ t \in Seq(Entries)
      /\ Len(t) = Len(q) - 1 /\ \A i \in 1..Len(q) : i > 1 => t[i - 1] = q[i]
  BY <1>1, TailIs
<1>3. PICK n \in Nat : n = Len(t)
  BY <1>2
<1>4. Len(q) = n + 1 /\ \A i \in 1..n : i + 1 \in 1..Len(q) /\ t[i] = q[i + 1]
  <2>1. Len(q) = n + 1
    BY <1>2, <1>3
  <2>2. \A i \in 1..n : i + 1 \in 1..Len(q) /\ i + 1 > 1 /\ (i + 1) - 1 = i
    BY <2>1
  <2>. QED
    BY <1>2, <2>1, <2>2
<1>5. Rises(t)
  <2>1. ASSUME NEW i \in 1..n, NEW j \in 1..n, i < j, t[i] \in Opcodes, t[j] \in Opcodes
        PROVE  t[i].n < t[j].n
    <3>1. i + 1 < j + 1 /\ i + 1 \in 1..Len(q) /\ j + 1 \in 1..Len(q) /\ t[i] = q[i + 1] /\ t[j] = q[j + 1]
      BY <1>4, <2>1
    <3>. QED
      BY <2>1, <3>1 DEF Rises
  <2>. QED
    BY <1>3, <2>1 DEF Rises
<1>6. In(t) \subseteq In(q)
  BY <1>3, <1>4 DEF In
<1>7. ASSUME Head(q) \in Opcodes
      PROVE  Head(q) \in In(q) /\ \A x \in In(t) : Head(q).n < x.n
  <2>1. 1 \in 1..Len(q)
    BY <1>4
  <2>2. Head(q) \in In(q)
    BY <1>2, <1>7, <2>1 DEF In
  <2>3. ASSUME NEW x \in In(t) PROVE Head(q).n < x.n
    <3>1. PICK i \in 1..n : t[i] = x /\ x \in Opcodes
      BY <1>3 DEF In
    <3>2. i + 1 \in 1..Len(q) /\ 1 < i + 1 /\ q[i + 1] = x
      BY <1>4, <3>1
    <3>. QED
      BY <1>2, <1>7, <2>1, <3>1, <3>2 DEF Rises
  <2>. QED
    BY <2>2, <2>3
<1>. QED
  BY <1>1, <1>5, <1>6, <1>7

LEMMA PrepareStays ==
    ASSUME NEW c \in Cores, Moves(c)
    PROVE  At(1, "prepare")' => At(1, "prepare")
<1>1. ~At(c, "prepare")' /\ (c # 1 => todo'[1] = todo[1])
  BY DEF Moves, Cores
<1>. QED
  BY <1>1 DEF At

LEMMA OrderedStays ==
    ASSUME Ordered, UNCHANGED <<opcode_queue, call_queue, hand, running, added, ran>>,
           At(1, "prepare")' => At(1, "prepare")
    PROVE  Ordered'
<1>1. In(opcode_queue') = In(opcode_queue) /\ In(call_queue') = In(call_queue) /\ Held' = Held
  BY DEF Held
<1>2. Rises(opcode_queue') /\ Rises(call_queue')
  BY DEF Ordered
<1>. QED
  BY <1>1, <1>2 DEF Ordered

\* An entry of call_queue that is no opcode changes no order.
LEMMA OrderedWithEntry ==
    ASSUME Queues, Ordered, NEW e \in Entries, e \notin Opcodes,
           call_queue' = Append(call_queue, e),
           UNCHANGED <<opcode_queue, hand, running, added, ran>>,
           At(1, "prepare")' => At(1, "prepare")
    PROVE  Ordered'
<1>1. PICK q \in Seq(Entries) : q = call_queue
  BY DEF Queues
<1>2. Rises(Append(q, e)) /\ In(Append(q, e)) = In(q) \cup ({e} \cap Opcodes)
  BY <1>1, Appended DEF Ordered
<1>3. Rises(call_queue') /\ In(call_queue') = In(call_queue)
  BY <1>1, <1>2
<1>4. Rises(opcode_queue') /\ In(opcode_queue') = In(opcode_queue) /\ Held' = Held
  BY DEF Ordered, Held
<1>. QED
  BY <1>3, <1>4 DEF Ordered

LEMMA RaiseOrdered ==
    ASSUME Queues, Ordered, NEW bit, Raise(bit),
           UNCHANGED <<opcode_queue, hand, running, added, ran, todo>>
    PROVE  Ordered'
<1>1. At(1, "prepare")' => At(1, "prepare")
  BY DEF At
<1>2. PICK e \in Entries : e = Plain("parse_interrupt_vals")
  BY OpcodeFacts
<1>3. e \notin Opcodes
  BY <1>2, OpcodeFacts
<1>4. call_queue' = Append(call_queue, e) \/ call_queue' = call_queue
  BY <1>2 DEF Raise
<1>. QED
  BY <1>1, <1>3, <1>4, OrderedStays, OrderedWithEntry

LEMMA AddOrdered ==
    ASSUME Todos, Queues, Ordered, ran \in Nat, ran <= added, NEW c \in Cores, Add(c)
    PROVE  Ordered'
<1>1. PICK e \in Opcodes : e.n = added + 1 /\ opcode_queue' = Append(opcode_queue, e)
  BY AddQueues
<1>2. added' = added + 1 /\ added \in Nat /\ UNCHANGED <<call_queue, hand, running, ran>>
  BY AddQueues DEF Add, Queues
<1>3. PICK q \in Seq(Opcodes) : q = opcode_queue
  BY DEF Queues
<1>4. q \in Seq(Entries) /\ e \in Entries
  <2>1. Opcodes \subseteq Entries
    BY OpcodeFacts
  <2>. QED
    BY <2>1
<1>5. \A x \in In(q) \cup Held \cup In(call_queue) : x.n \in Nat /\ x.n <= added
  <2>1. \A x \in In(q) \cup Held \cup In(call_queue) : x \in Opcodes
    BY DEF In, Held
  <2>. QED
    BY <1>3, <2>1, OpcodeFacts DEF Ordered
<1>6. \A x \in In(q) \cup Held \cup In(call_queue) : x.n < e.n /\ x.n <= added + 1
  BY <1>1, <1>2, <1>5
<1>7. Rises(Append(q, e)) /\ In(Append(q, e)) = In(q) \cup ({e} \cap Opcodes)
  BY <1>3, <1>4, <1>6, Appended DEF Ordered
<1>8. Rises(opcode_queue') /\ In(opcode_queue') = In(opcode_queue) \cup {e}
  BY <1>1, <1>3, <1>7
<1>9. Rises(call_queue') /\ In(call_queue') = In(call_queue) /\ Held' = Held
  BY <1>2 DEF Ordered, Held
<1>10. ran < e.n /\ e.n <= added + 1
  BY <1>1, <1>2
<1>11. At(1, "prepare")' => At(1, "prepare")
  BY OthersMove, PrepareStays
<1>12. At(1, "prepare") => running.n < e.n /\ running.n <= added + 1
  <2>1. ASSUME At(1, "prepare") PROVE running.n \in Nat /\ running.n <= added
    BY <2>1, OpcodeFacts DEF Queues, Ordered
  <2>. QED
    BY <1>1, <1>2, <2>1
<1>. QED
  BY <1>2, <1>3, <1>6, <1>8, <1>9, <1>10, <1>11, <1>12 DEF Ordered

LEMMA TakeOrdered ==
    ASSUME Todos, Queues, Ordered, NEW c \in Cores, Take(c), ~Clash'
    PROVE  Ordered'
<1>1. UNCHANGED <<call_queue, running, added, ran>>
  BY DEF Take, histories
<1>2. CASE opcode_queue = <<>>
  <2>1. UNCHANGED <<opcode_queue, hand>>
    BY <1>2 DEF Take
  <2>2. At(1, "prepare")' => At(1, "prepare")
    BY <1>2, TakeMoves, PrepareStays
  <2>. QED
    BY <1>1, <2>1, <2>2, OrderedStays
<1>3. CASE opcode_queue # <<>>
  <2>1. PICK q \in Seq(Opcodes) : q = opcode_queue
    BY DEF Queues
  <2>2. PICK e : e = Head(q)
    OBVIOUS
  <2>3. e \in Opcodes /\ e # NoOpcode
    BY <1>3, <2>1, <2>2, HeadTailProperties, OpcodeFacts
  <2>4. hand' = [hand EXCEPT ![c] = e] /\ opcode_queue' = Tail(q)
    BY <1>3, <2>1, <2>2 DEF Take
  <2>5. hand'[c] = e /\ \A d \in Cores : d # c => hand'[d] = hand[d]
    BY <2>4 DEF Queues
  <2>6. \A d \in Cores : d # c => hand'[d] = NoOpcode
    BY <2>3, <2>5 DEF Clash, Cores
  <2>7. Held' = {e}
    <3>1. NoOpcode \notin Opcodes
      BY OpcodeFacts
    <3>. QED
      BY <2>3, <2>5, <2>6, <3>1 DEF Held
  <2>8. q \in Seq(Entries)
    <3>1. Opcodes \subseteq Entries
      BY OpcodeFacts
    <3>. QED
      BY <3>1
  <2>9. Rises(Tail(q)) /\ In(Tail(q)) \subseteq In(q) /\ e \in In(q) /\ \A x \in In(Tail(q)) : e.n < x.n
    BY <1>3, <2>1, <2>2, <2>3, <2>8, Removed DEF Ordered
  <2>10. /\ Rises(opcode_queue') /\ In(opcode_queue') \subseteq In(opcode_queue)
         /\ e \in In(opcode_queue) /\ \A x \in In(opcode_queue') : e.n < x.n
    BY <2>1, <2>4, <2>9
  <2>11. Rises(call_queue') /\ In(call_queue') = In(call_queue)
    BY <1>1 DEF Ordered
  <2>12. At(1, "prepare")' => At(1, "prepare")
    <3>1. ~At(c, "prepare")' /\ (c # 1 => todo'[1] = todo[1])
      BY <1>3, TakeMoves DEF Takes, Cores
    <3>. QED
      BY <3>1 DEF At
  <2>. QED
    BY <1>1, <2>7, <2>10, <2>11, <2>12 DEF Ordered
<1>. QED
  BY <1>2, <1>3

LEMMA GiveOrdered ==
    ASSUME Todos, Queues, Ordered, NEW c \in Cores, Give(c), ~Clash
    PROVE  Ordered'
<1>1. At(c, "give") /\ UNCHANGED <<opcode_queue, running, added, ran>>
  BY DEF Give, histories
<1>2. PICK e \in Opcodes : e = hand[c]
  BY <1>1 DEF Queues
<1>3. PICK q \in Seq(Entries) : q = call_queue
  BY DEF Queues
<1>4. e \in Entries /\ e # NoOpcode
  BY OpcodeFacts
<1>5. call_queue' = Append(q, e) /\ hand' = [hand EXCEPT ![c] = NoOpcode]
  BY <1>2, <1>3 DEF Give
<1>6. hand'[c] = NoOpcode /\ \A d \in Cores : d # c => hand'[d] = hand[d]
  BY <1>5 DEF Queues
<1>7. \A d \in Cores : d # c => hand[d] = NoOpcode
  BY <1>2, <1>4 DEF Clash, Cores
<1>8. Held' = {} /\ e \in Held
  <2>1. NoOpcode \notin Opcodes
    BY OpcodeFacts
  <2>. QED
    BY <1>2, <1>6, <1>7, <2>1 DEF Held
<1>9. Rises(Append(q, e)) /\ In(Append(q, e)) = In(q) \cup ({e} \cap Opcodes)
  <2>1. \A x \in In(q) : x.n < e.n
    BY <1>3, <1>8 DEF Ordered
  <2>. QED
    BY <1>3, <1>4, <2>1, Appended DEF Ordered
<1>10. Rises(call_queue') /\ In(call_queue') = In(call_queue) \cup {e}
  BY <1>3, <1>5, <1>9
<1>11. Rises(opcode_queue') /\ In(opcode_queue') = In(opcode_queue)
  BY <1>1 DEF Ordered
<1>12. At(1, "prepare")' => At(1, "prepare")
  BY OthersMove, PrepareStays
<1>. QED
  BY <1>1, <1>8, <1>10, <1>11, <1>12 DEF Ordered

LEMMA DropOrdered ==
    ASSUME Todos, Queues, Ordered, NEW c \in Cores, Drop(c)
    PROVE  Ordered'
<1>1. /\ hand' = [hand EXCEPT ![c] = NoOpcode]
      /\ UNCHANGED <<opcode_queue, call_queue, running, added, ran>>
  BY DEF Drop, queues, histories
<1>2. Held' \subseteq Held
  <2>1. NoOpcode \notin Opcodes
    BY OpcodeFacts
  <2>2. hand'[c] = NoOpcode /\ \A d \in Cores : d # c => hand'[d] = hand[d]
    BY <1>1 DEF Queues
  <2>. QED
    BY <2>1, <2>2 DEF Held
<1>3. /\ Rises(opcode_queue') /\ In(opcode_queue') = In(opcode_queue)
      /\ Rises(call_queue') /\ In(call_queue') = In(call_queue)
  BY <1>1 DEF Ordered
<1>4. At(1, "prepare")' => At(1, "prepare")
  BY OthersMove, PrepareStays
<1>. QED
  BY <1>1, <1>2, <1>3, <1>4 DEF Ordered

LEMMA QueueOrdered ==
    ASSUME Todos, Queues, Ordered, NEW c \in Cores, Queue(c)
    PROVE  Ordered'
<1>1. PICK e \in Entries : e = Plain("pd_msg_response")
  BY OpcodeFacts
<1>2. e \notin Opcodes /\ call_queue' = Append(call_queue, e)
  BY <1>1, OpcodeFacts, QueueQueues
<1>3. UNCHANGED <<opcode_queue, hand, running, added, ran>>
  BY DEF Queue, histories
<1>4. At(1, "prepare")' => At(1, "prepare")
  BY OthersMove, PrepareStays
<1>. QED
  BY <1>2, <1>3, <1>4, OrderedWithEntry

\* The opcode run is older than all that are left, and newer than those before.
LEMMA PrepareOrdered ==
    ASSUME Todos, Queues, Ordered, NEW c \in Cores, Prepare(c)
    PROVE  /\ Ordered' /\ ran' > ran
           /\ ran' \in Nat /\ ran' <= added'
<1>1. /\ At(c, "prepare") /\ ran' = running.n
      /\ UNCHANGED <<opcode_queue, call_queue, hand, running, added>>
  BY DEF Prepare, queues
<1>2. c = 1
  BY <1>1, AtKinds DEF At
<1>3. ~At(1, "prepare")'
  BY <1>2, OthersMove DEF Moves
<1>4. running \in Opcodes
  BY <1>1, <1>2 DEF Queues
<1>5. running.n \in Nat /\ ran < running.n /\ running.n <= added
  BY <1>1, <1>2, <1>4, OpcodeFacts DEF Ordered
<1>6. /\ Rises(opcode_queue') /\ In(opcode_queue') = In(opcode_queue)
      /\ Rises(call_queue') /\ In(call_queue') = In(call_queue) /\ Held' = Held
  BY <1>1 DEF Ordered, Held
<1>7. \A x \in In(call_queue) \cup Held \cup In(opcode_queue) : ran' < x.n /\ x.n <= added'
  BY <1>1, <1>2 DEF Ordered
<1>8. Ordered'
  BY <1>1, <1>3, <1>6, <1>7 DEF Ordered
<1>. QED
  BY <1>1, <1>5, <1>8

LEMMA PopOrdered ==
    ASSUME Todos, Queues, Ordered, Core1Pop
    PROVE  Ordered'
<1>1. PICK q \in Seq(Entries) : q = call_queue
  BY DEF Queues
<1>2. PICK e : e = Head(q)
  OBVIOUS
<1>3. /\ q # <<>> /\ call_queue' = Tail(q) /\ running' = e
      /\ UNCHANGED <<opcode_queue, hand, added, ran>>
  BY <1>1, <1>2 DEF Core1Pop, histories
<1>4. At(1, "prepare")' => e \in Opcodes
  BY <1>1, <1>3, PopMoves
<1>5. /\ Rises(Tail(q)) /\ In(Tail(q)) \subseteq In(q)
      /\ e \in Opcodes => e \in In(q) /\ \A x \in In(Tail(q)) : e.n < x.n
  BY <1>1, <1>2, <1>3, Removed DEF Ordered
<1>6. /\ Rises(call_queue') /\ In(call_queue') \subseteq In(call_queue)
      /\ e \in Opcodes => e \in In(call_queue) /\ \A x \in In(call_queue') : e.n < x.n
  BY <1>1, <1>3, <1>5
<1>7. Rises(opcode_queue') /\ In(opcode_queue') = In(opcode_queue) /\ Held' = Held
  BY <1>3 DEF Ordered, Held
<1>. QED
  BY <1>3, <1>4, <1>6, <1>7 DEF Ordered

\* While the cores have not met, they had not met before.
LEMMA ClashedStays ==
    ASSUME TypeInv, [Next]_vars, ~Clashed'
    PROVE  ~Clashed /\ ~Clash'
<1>1. ~clashed' /\ ~Clash'
  BY DEF Clashed
<1>2. ASSUME Watch PROVE ~Clashed
  BY <1>1, <1>2 DEF Watch
<1>3. ASSUME NEW c \in Cores, CoreStep(c) PROVE ~Clashed
  <2>1. CASE Enter(c)
    BY <1>2, <2>1 DEF Enter, Call
  <2>2. CASE Fill(c) \/ Point(c) \/ Select(c) \/ Read(c) \/ ReadResponse(c)
    BY <1>2, <2>2 DEF Fill, Point, Select, Read, ReadResponse, Proceed, Call
  <2>3. CASE Unfinish(c) \/ Add(c) \/ Give(c) \/ Drop(c) \/ Finish(c)
    BY <1>2, <2>3 DEF Unfinish, Add, Give, Drop, Finish, Proceed, Call
  <2>4. CASE Queue(c) \/ Prepare(c) \/ Write(c)
    BY <1>2, <2>4 DEF Queue, Prepare, Write, Proceed, Call
  <2>5. CASE Take(c)
    BY <1>2, <2>5 DEF Take, Proceed, Call
  <2>6. CASE Check(c) \/ SwitchCc(c) \/ SwitchPd(c)
    BY <1>2, <2>6 DEF Check, SwitchCc, SwitchPd, Call
  <2>. QED
    BY <1>3, <2>1, <2>2, <2>3, <2>4, <2>5, <2>6 DEF CoreStep
<1>4. CASE Wait(0)
  BY <1>1, <1>2, <1>4 DEF Wait, Proceed, Call
<1>5. CASE Core1Pop \/ CableChange \/ PowerMessage \/ ChargerChange \/ Answer
  BY <1>1, <1>2, <1>5 DEF Core1Pop, CableChange, PowerMessage, ChargerChange, Answer, Happens
<1>6. CASE UNCHANGED vars
  <2>1. UNCHANGED <<clashed, todo, hand>>
    BY <1>6 DEF vars
  <2>2. \A c \in Cores : UsesBuffers(c)' <=> UsesBuffers(c)
    BY <2>1 DEF UsesBuffers
  <2>3. Clash' <=> Clash
    BY <2>1, <2>2 DEF Clash
  <2>. QED
    BY <1>1, <2>1, <2>3 DEF Clashed
<1>. QED
  BY <1>1, <1>3, <1>4, <1>5, <1>6 DEF Next

LEMMA NumberedKept ==
    ASSUME TypeInv, Numbered, [Next]_vars
    PROVE  Numbered' /\ (ran' # ran => InOrder \/ Clashed)
<1>1. Todos /\ Queues /\ Buffers
  BY DEF TypeInv
<1>2. CASE ran' = ran
  <2>1. ASSUME ~Clashed' PROVE ran' <= added' /\ Ordered'
    <3>1. ~Clashed /\ ~Clash' /\ ~Clash
      BY <2>1, ClashedStays DEF Clashed
    <3>2. Ordered /\ ran \in Nat /\ ran <= added
      BY <3>1 DEF Numbered
    <3>3. ASSUME NEW c \in Cores, CoreStep(c) PROVE ran' <= added' /\ Ordered'
      <4>1. CASE Prepare(c)
        BY <1>1, <3>2, <4>1, PrepareOrdered
      <4>2. CASE Add(c)
        <5>1. added' = added + 1 /\ added \in Nat
          BY <1>1, <4>2, AddQueues DEF Queues
        <5>. QED
          BY <1>1, <1>2, <3>2, <4>2, <5>1, AddOrdered
      <4>3. CASE Take(c)
        <5>1. added' = added
          BY <4>3 DEF Take, histories
        <5>. QED
          BY <1>1, <1>2, <3>1, <3>2, <4>3, <5>1, TakeOrdered
      <4>4. CASE Give(c)
        <5>1. added' = added
          BY <4>4 DEF Give, histories
        <5>. QED
          BY <1>1, <1>2, <3>1, <3>2, <4>4, <5>1, GiveOrdered
      <4>5. CASE Drop(c)
        <5>1. added' = added
          BY <4>5 DEF Drop, histories
        <5>. QED
          BY <1>1, <1>2, <3>2, <4>5, <5>1, DropOrdered
      <4>6. CASE Queue(c)
        <5>1. added' = added
          BY <4>6 DEF Queue, histories
        <5>. QED
          BY <1>1, <1>2, <3>2, <4>6, <5>1, QueueOrdered
      <4>7. CASE \/ Enter(c) \/ Fill(c) \/ Point(c) \/ Select(c) \/ Read(c) \/ ReadResponse(c)
                 \/ Unfinish(c) \/ Finish(c) \/ Write(c)
                 \/ Check(c) \/ SwitchCc(c) \/ SwitchPd(c)
        <5>1. return_buf.of = "PD_STATUS" => return_buf.val \in PdMessages
          BY <1>1 DEF Buffers
        <5>2. Moves(c) /\ UNCHANGED <<opcode_queue, call_queue, hand, running, added>>
          BY <1>1, <4>7, <5>1, QuietMoves
        <5>. QED
          BY <1>2, <3>2, <5>2, PrepareStays, OrderedStays
      <4>. QED
        BY <3>3, <4>1, <4>2, <4>3, <4>4, <4>5, <4>6, <4>7 DEF CoreStep
    <3>4. CASE Wait(0)
      <4>1. 0 \in Cores /\ (return_buf.of = "PD_STATUS" => return_buf.val \in PdMessages)
        BY <1>1 DEF Cores, Buffers
      <4>2. Moves(0) /\ UNCHANGED <<opcode_queue, call_queue, hand, running, added>>
        BY <1>1, <3>4, <4>1, QuietMoves
      <4>. QED
        BY <1>2, <3>2, <4>1, <4>2, PrepareStays, OrderedStays
    <3>5. CASE Core1Pop
      <4>1. added' = added
        BY <3>5 DEF Core1Pop, histories
      <4>. QED
        BY <1>1, <1>2, <3>2, <3>5, <4>1, PopOrdered
    <3>6. ASSUME NEW bit, Raise(bit), UNCHANGED <<opcode_queue, hand, running, added, ran, todo>>
          PROVE  ran' <= added' /\ Ordered'
      BY <1>1, <3>2, <3>6, RaiseOrdered
    <3>7. CASE CableChange \/ PowerMessage \/ ChargerChange \/ Answer
      BY <3>6, <3>7 DEF CableChange, PowerMessage, ChargerChange, Answer, Happens, histories
    <3>8. CASE UNCHANGED vars
      <4>1. UNCHANGED <<opcode_queue, call_queue, hand, running, added, ran, todo>>
        BY <3>8 DEF vars
      <4>2. At(1, "prepare")' => At(1, "prepare")
        BY <4>1 DEF At
      <4>. QED
        BY <3>2, <4>1, <4>2, OrderedStays
    <3>. QED
      BY <3>3, <3>4, <3>5, <3>7, <3>8 DEF Next
  <2>. QED
    BY <1>2, <2>1 DEF Numbered
<1>3. CASE ran' # ran
  <2>1. PICK c \in Cores : Prepare(c)
    <3>1. ASSUME NEW d \in Cores, CoreStep(d), ~Prepare(d) PROVE FALSE
      BY <1>3, <3>1 DEF CoreStep, Enter, Fill, Point, Select, Read, ReadResponse, Unfinish, Add,
            Take, Give, Drop, Finish, Queue, Write, Check, SwitchCc, SwitchPd, histories
    <3>2. ~Wait(0) /\ ~Core1Pop /\ ~CableChange /\ ~PowerMessage /\ ~ChargerChange /\ ~Answer
          /\ ~UNCHANGED vars
      BY <1>3 DEF Wait, Core1Pop, CableChange, PowerMessage, ChargerChange, Answer, Happens,
                  histories, vars
    <3>. QED
      BY <3>1, <3>2 DEF Next
  <2>2. ran' = running.n /\ At(c, "prepare")
    BY <2>1 DEF Prepare
  <2>3. running.n \in Nat
    <3>1. c = 1
      BY <1>1, <2>2, AtKinds DEF At
    <3>. QED
      BY <1>1, <2>2, <3>1, OpcodeFacts DEF Queues
  <2>4. ASSUME ~Clashed PROVE Ordered' /\ ran' > ran /\ ran' <= added'
    BY <1>1, <2>1, <2>4, PrepareOrdered DEF Numbered
  <2>5. ~Clashed' => ~Clashed
    BY ClashedStays
  <2>. QED
    BY <2>2, <2>3, <2>4, <2>5 DEF Numbered, InOrder
<1>. QED
  BY <1>2, <1>3

LEMMA NumberedInit == Init => Numbered
<1>. SUFFICES ASSUME Init PROVE Numbered
  OBVIOUS
<1>1. /\ opcode_queue = <<>> /\ call_queue = <<>> /\ hand = [c \in Cores |-> NoOpcode]
      /\ ran = 0 /\ added = 0
  BY DEF Init
<1>2. In(opcode_queue) = {} /\ In(call_queue) = {} /\ Rises(opcode_queue) /\ Rises(call_queue)
  <2>1. PICK q : q = <<>>
    OBVIOUS
  <2>2. Len(q) = 0
    BY <2>1
  <2>3. In(q) = {} /\ Rises(q)
    BY <2>2 DEF In, Rises
  <2>. QED
    BY <1>1, <2>1, <2>3
<1>3. Held = {}
  BY <1>1, OpcodeFacts DEF Held
<1>4. ~At(1, "prepare")
  BY DEF Init, At, Cores
<1>. QED
  BY <1>1, <1>2, <1>3, <1>4 DEF Numbered, Ordered

\* Opcodes run in the order they were added (max77958.c:886), for as long as only one
\* core at a time moves them from opcode_queue to call_queue.
THEOREM RunInOrder == Spec => OpcodesInOrderUnlessClashed
<1>1. Init => TypeInv /\ Numbered
  BY TypeInit, NumberedInit
<1>2. TypeInv /\ Numbered /\ [Next]_vars => (TypeInv /\ Numbered)'
  BY TypeNext, NumberedKept
<1>3. TypeInv /\ Numbered /\ [Next]_vars => [ran' # ran => InOrder \/ Clashed]_vars
  BY NumberedKept
<1>. QED
  BY <1>1, <1>2, <1>3, PTL DEF Spec, OpcodesInOrderUnlessClashed

-----------------------------------------------------------------------------
(* No transfer without a filled buffer.                                      *)

Reads == {"select", "read", "read_response"}

\* A read follows the write of its register, and that one a filled buffer, but for
\* the first step of the list.
LinkAt(s, i) ==
    /\ s[i].do = "select" => s[i - 1].do \in {"fill", "point"}
    /\ s[i].do \in {"read", "read_response"} => s[i - 1].do = "select"
Linked(s) == \A i \in 1..Len(s) : i > 1 => LinkAt(s, i)
Rests(s) == s # <<>> => s[1].do \notin Reads

LEMMA LinkedCat ==
    ASSUME NEW s \in Seq(Steps), NEW t \in Seq(Steps),
           Linked(s), Rests(s), Linked(t), Rests(t)
    PROVE  Linked(s \o t) /\ Rests(s \o t)
<1>1. PICK u : u = s \o t
  OBVIOUS
<1>2. u \in Seq(Steps) /\ Joins(u, s, t)
  BY <1>1, After
<1>3. PICK m \in Nat, n \in Nat : m = Len(s) /\ n = Len(t)
  OBVIOUS
<1>4. /\ Len(u) = m + n
      /\ \A i \in 1..m : u[i] = s[i]
      /\ \A i \in 1..n, j \in Int : j = m + i => u[j] = t[i]
  BY <1>2, <1>3 DEF Joins
<1>5. n >= 1 => t[1].do \notin Reads
  BY <1>3, EmptySeq DEF Rests
<1>6. m >= 1 => s[1].do \notin Reads
  BY <1>3, EmptySeq DEF Rests
<1>7. ASSUME NEW i \in 1..(m + n), i > 1 PROVE LinkAt(u, i)
  <2>1. CASE i <= m
    <3>1. i \in 1..m /\ i - 1 \in 1..m
      BY <1>7, <2>1
    <3>2. u[i] = s[i] /\ u[i - 1] = s[i - 1]
      BY <1>4, <3>1
    <3>3. LinkAt(s, i)
      BY <1>3, <1>7, <3>1 DEF Linked
    <3>. QED
      BY <3>2, <3>3 DEF LinkAt
  <2>2. CASE i = m + 1
    <3>1. n >= 1 /\ u[i] = t[1]
      BY <1>4, <1>7, <2>2
    <3>. QED
      BY <1>5, <3>1 DEF LinkAt, Reads
  <2>3. CASE i > m + 1
    <3>1. PICK k \in 1..n : i = m + k
      <4>1. i - m \in 1..n /\ i = m + (i - m)
        BY <1>7, <2>3
      <4>. QED
        BY <4>1
    <3>2. k > 1 /\ k - 1 \in 1..n /\ i - 1 = m + (k - 1)
      BY <2>3, <3>1
    <3>3. u[i] = t[k] /\ u[i - 1] = t[k - 1]
      BY <1>4, <1>7, <3>1, <3>2
    <3>4. LinkAt(t, k)
      BY <1>3, <3>1, <3>2 DEF Linked
    <3>. QED
      BY <3>3, <3>4 DEF LinkAt
  <2>. QED
    BY <1>7, <2>1, <2>2, <2>3
<1>8. Linked(u)
  BY <1>4, <1>7 DEF Linked
<1>9. u # <<>> => u[1].do \notin Reads
  <2>1. CASE m >= 1
    <3>1. u[1] = s[1]
      BY <1>4, <2>1
    <3>. QED
      BY <1>6, <2>1, <3>1
  <2>2. CASE m = 0 /\ n >= 1
    <3>1. u[1] = t[1]
      BY <1>4, <2>2
    <3>. QED
      BY <1>5, <2>2, <3>1
  <2>3. CASE m = 0 /\ n = 0
    <3>1. Len(u) = 0
      BY <1>4, <2>3
    <3>. QED
      BY <1>2, <3>1, EmptySeq
  <2>. QED
    BY <2>1, <2>2, <2>3
<1>. QED
  BY <1>1, <1>8, <1>9 DEF Rests

LEMMA LinkedTail ==
    ASSUME NEW s \in Seq(Steps), s # <<>>, Linked(s)
    PROVE  /\ Linked(Tail(s))
           /\ Head(s).do \notin {"fill", "point", "select"} => Rests(Tail(s))
           /\ Head(s).do \in {"fill", "point"} /\ Tail(s) # <<>> =>
                  Head(Tail(s)).do \notin {"read", "read_response"}
           /\ Head(s).do = "select" /\ Tail(s) # <<>> => Head(Tail(s)).do # "select"
<1>1. PICK t : t = Tail(s)
  OBVIOUS
<1>2. /\ Head(s) = s[1] /\ Len(s) \in Nat /\ Len(s) >= 1 /\ t \in Seq(Steps)
      /\ Len(t) = Len(s) - 1 /\ \A i \in 1..Len(s) : i > 1 => t[i - 1] = s[i]
  BY <1>1, TailIs
<1>3. PICK n \in Nat : n = Len(t)
  BY <1>2
<1>4. Len(s) = n + 1 /\ \A i \in 1..n : i + 1 \in 1..Len(s) /\ t[i] = s[i + 1]
  <2>1. Len(s) = n + 1
    BY <1>2, <1>3
  <2>2. \A i \in 1..n : i + 1 \in 1..Len(s) /\ i + 1 > 1 /\ (i + 1) - 1 = i
    BY <2>1
  <2>. QED
    BY <1>2, <2>1, <2>2
<1>5. ASSUME NEW i \in 1..n, i > 1 PROVE LinkAt(t, i)
  <2>1. i - 1 \in 1..n /\ (i - 1) + 1 = i /\ (i + 1) - 1 = i
    BY <1>5
  <2>2. t[i] = s[i + 1] /\ t[i - 1] = s[i]
    BY <1>4, <2>1
  <2>3. LinkAt(s, i + 1)
    BY <1>4, <1>5 DEF Linked
  <2>. QED
    BY <2>1, <2>2, <2>3 DEF LinkAt
<1>6. Linked(t)
  BY <1>3, <1>5 DEF Linked
<1>7. ASSUME t # <<>>
      PROVE  /\ t[1] = Head(t)
             /\ t[1].do = "select" => Head(s).do \in {"fill", "point"}
             /\ t[1].do \in {"read", "read_response"} => Head(s).do = "select"
  <2>1. n >= 1 /\ t[1] = Head(t)
    BY <1>2, <1>3, <1>7, TailIs
  <2>2. t[1] = s[2] /\ 2 \in 1..Len(s) /\ 2 - 1 = 1
    BY <1>4, <2>1
  <2>3. LinkAt(s, 2)
    BY <2>2 DEF Linked
  <2>. QED
    BY <1>2, <2>1, <2>2, <2>3 DEF LinkAt
<1>. QED
  BY <1>1, <1>6, <1>7 DEF Rests, Reads

\* The functions.
Fresh(s) == s \in Seq(Steps) /\ Linked(s) /\ Rests(s)

LEMMA FreshCat ==
    ASSUME NEW s, NEW t, Fresh(s), Fresh(t)
    PROVE  Fresh(s \o t)
BY LinkedCat, ConcatProperties DEF Fresh

LEMMA FreshEmpty == Fresh(<<>>)
<1>1. PICK s : s = <<>>
  OBVIOUS
<1>2. s \in Seq(Steps) /\ Len(s) = 0
  BY <1>1
<1>3. Fresh(s)
  BY <1>1, <1>2 DEF Fresh, Linked, Rests
<1>. QED
  BY <1>1, <1>3

LEMMA FreshOne ==
    ASSUME NEW x \in Steps, x.do \notin Reads
    PROVE  Fresh(<<x>>)
<1>1. PICK s : s = <<x>>
  OBVIOUS
<1>2. s \in Seq(Steps) /\ Len(s) = 1 /\ s[1] = x
  BY <1>1
<1>3. Linked(s)
  BY <1>2 DEF Linked
<1>4. Fresh(s)
  BY <1>2, <1>3 DEF Fresh, Rests
<1>. QED
  BY <1>1, <1>4

LEMMA FreshTwo ==
    ASSUME NEW x \in Steps, NEW y \in Steps, x.do \notin Reads, y.do \notin Reads
    PROVE  Fresh(<<x, y>>)
<1>1. PICK s : s = <<x, y>>
  OBVIOUS
<1>2. s \in Seq(Steps) /\ Len(s) = 2 /\ s[1] = x /\ s[2] = y
  BY <1>1
<1>3. Linked(s)
  BY <1>2 DEF Linked, LinkAt, Reads
<1>4. Fresh(s)
  BY <1>2, <1>3 DEF Fresh, Rests
<1>. QED
  BY <1>1, <1>4

LEMMA FreshThree ==
    ASSUME NEW x \in Steps, NEW y \in Steps, NEW z \in Steps,
           x.do \in {"fill", "point"}, y.do = "select", z.do \in {"read", "read_response"}
    PROVE  Fresh(<<x, y, z>>)
<1>1. PICK s : s = <<x, y, z>>
  OBVIOUS
<1>2. s \in Seq(Steps) /\ Len(s) = 3 /\ s[1] = x /\ s[2] = y /\ s[3] = z
  BY <1>1
<1>3. LinkAt(s, 2) /\ LinkAt(s, 3)
  BY <1>2 DEF LinkAt
<1>4. Linked(s)
  BY <1>2, <1>3 DEF Linked
<1>5. Fresh(s)
  BY <1>2, <1>4 DEF Fresh, Rests, Reads
<1>. QED
  BY <1>1, <1>5

LEMMA DoOf == \A do, arg : Step(do, arg).do = do /\ Step(do, arg).arg = arg
BY DEF Step

LEMMA FreshFetch == \A reg \in Registers : Fresh(Fetch(reg))
<1>. SUFFICES ASSUME NEW reg \in Registers PROVE Fresh(Fetch(reg))
  OBVIOUS
<1>1. Step("fill", reg) \in Steps /\ Step("select", "") \in Steps /\ Step("read", "") \in Steps
  BY DEF Steps, Transfers
<1>2. PICK x \in Steps, y \in Steps, z \in Steps :
          x = Step("fill", reg) /\ y = Step("select", "") /\ z = Step("read", "")
  BY <1>1
<1>3. x.do = "fill" /\ y.do = "select" /\ z.do = "read"
  BY <1>2, DoOf
<1>4. Fresh(<<x, y, z>>)
  BY <1>3, FreshThree
<1>. QED
  BY <1>2, <1>4 DEF Fetch

LEMMA FreshOpcodeRead == Fresh(OpcodeRead)
<1>1. Step("point", "OPCODE_READ") \in Steps /\ Step("select", "") \in Steps
      /\ Step("read_response", "") \in Steps
  BY DEF Steps, Transfers
<1>2. PICK x \in Steps, y \in Steps, z \in Steps :
          x = Step("point", "OPCODE_READ") /\ y = Step("select", "") /\ z = Step("read_response", "")
  BY <1>1
<1>3. x.do = "point" /\ y.do = "select" /\ z.do = "read_response"
  BY <1>2, DoOf
<1>4. Fresh(<<x, y, z>>)
  BY <1>3, FreshThree
<1>. QED
  BY <1>2, <1>4 DEF OpcodeRead

LEMMA FreshStep ==
    ASSUME NEW do, NEW arg, Step(do, arg) \in Steps, do \notin Reads
    PROVE  Fresh(<<Step(do, arg)>>)
<1>1. PICK x \in Steps : x = Step(do, arg)
  OBVIOUS
<1>2. x.do = do
  BY <1>1, DoOf
<1>3. Fresh(<<x>>)
  BY <1>2, FreshOne
<1>. QED
  BY <1>1, <1>3

LEMMA FreshAdd == \A op \in Ops : Fresh(OpcodeQueueAdd(op))
<1>. SUFFICES ASSUME NEW op \in Ops PROVE Fresh(OpcodeQueueAdd(op))
  OBVIOUS
<1>1. Step("unfinish", "") \in Steps /\ Step("add", op) \in Steps
  BY DEF Steps
<1>2. PICK x \in Steps, y \in Steps : x = Step("unfinish", "") /\ y = Step("add", op)
  BY <1>1
<1>3. x.do = "unfinish" /\ y.do = "add"
  BY <1>2, DoOf
<1>4. Fresh(<<x, y>>)
  BY <1>3, FreshTwo DEF Reads
<1>. QED
  BY <1>2, <1>4 DEF OpcodeQueueAdd

LEMMA FreshPop == Fresh(OpcodeQueuePop)
<1>1. Step("take", "") \in Steps
  BY DEF Steps
<1>. QED
  BY <1>1, FreshStep DEF OpcodeQueuePop, Reads

LEMMA FreshSwitches ==
    /\ Fresh(<<Step("switch_cc", "")>>) /\ Fresh(<<Step("switch_pd", "")>>)
    /\ Fresh(<<Step("wait", "")>>) /\ Fresh(<<Step("finish", "")>>)
    /\ Fresh(<<Step("queue", "pd_msg_response")>>)
<1>1. /\ Step("switch_cc", "") \in Steps /\ Step("switch_pd", "") \in Steps
      /\ Step("wait", "") \in Steps /\ Step("finish", "") \in Steps
      /\ Step("queue", "pd_msg_response") \in Steps
  BY DEF Steps
<1>. QED
  BY <1>1, FreshStep DEF Reads

LEMMA FreshVbus == Fresh(VbusTurnOff) /\ Fresh(VbusTurnOn)
<1>1. Fresh(OpcodeQueueAdd("off")) /\ Fresh(OpcodeQueueAdd("on"))
  BY FreshAdd DEF Ops
<1>. QED
  BY <1>1, FreshPop, FreshCat DEF VbusTurnOff, VbusTurnOn

LEMMA FreshCcstat == Fresh(OnCcstatChange)
<1>1. Fresh(Fetch("CC_STATUS"))
  BY FreshFetch DEF Registers
<1>. QED
  BY <1>1, FreshSwitches, FreshCat DEF OnCcstatChange

LEMMA FreshInit == Fresh(Max77958Init)
<1>1. PICK h, a, b, c, d, e :
                           /\ h = Fetch("INT")
                           /\ a = OpcodeQueueAdd("low") /\ b = OpcodeQueueAdd("off")
                           /\ c = OpcodeQueueAdd("config") /\ d = OpcodeQueuePop
                           /\ e = OnCcstatChange
  OBVIOUS
<1>2. Fresh(h) /\ Fresh(a) /\ Fresh(b) /\ Fresh(c) /\ Fresh(d) /\ Fresh(e)
  BY <1>1, FreshFetch, FreshAdd, FreshPop, FreshCcstat DEF Ops, Registers
<1>3. Max77958Init = h \o a \o b \o c \o d \o e
  BY <1>1 DEF Max77958Init
<1>4. Fresh(h \o a)
  BY <1>2, FreshCat
<1>5. Fresh(h \o a \o b)
  BY <1>2, <1>4, FreshCat
<1>6. Fresh(h \o a \o b \o c)
  BY <1>2, <1>5, FreshCat
<1>7. Fresh(h \o a \o b \o c \o d)
  BY <1>2, <1>6, FreshCat
<1>8. Fresh(h \o a \o b \o c \o d \o e)
  BY <1>2, <1>7, FreshCat
<1>. QED
  BY <1>3, <1>8

LEMMA FreshTest == Fresh(OpcodeTest)
<1>1. PICK a, b, c : /\ a = OpcodeQueueAdd("read") /\ b = OpcodeQueuePop
                     /\ c = <<Step("wait", "")>>
  OBVIOUS
<1>2. Fresh(a) /\ Fresh(b) /\ Fresh(c)
  BY <1>1, FreshAdd, FreshPop, FreshSwitches DEF Ops
<1>3. OpcodeTest = a \o b \o c
  BY <1>1 DEF OpcodeTest
<1>4. Fresh(a \o b)
  BY <1>2, FreshCat
<1>. QED
  BY <1>2, <1>3, <1>4, FreshCat

LEMMA FreshCore0 == \A call \in Calls : Fresh(Core0Body(call))
<1>1. Fresh(ReadRegister)
  BY FreshFetch DEF ReadRegister, Registers
<1>2. Fresh(SnkPdoRequestTest)
  BY FreshTest, FreshCat DEF SnkPdoRequestTest
<1>. QED
  BY <1>1, <1>2, FreshInit, FreshTest DEF Core0Body, Calls

LEMMA FreshResponse == Fresh(OnOpcodeCmdResponse)
<1>1. PICK a, b, c : /\ a = OpcodeRead /\ b = OpcodeQueuePop /\ c = <<Step("finish", "")>>
  OBVIOUS
<1>2. Fresh(a) /\ Fresh(b) /\ Fresh(c)
  BY <1>1, FreshOpcodeRead, FreshPop, FreshSwitches
<1>3. OnOpcodeCmdResponse = a \o b \o c
  BY <1>1 DEF OnOpcodeCmdResponse
<1>4. Fresh(a \o b)
  BY <1>2, FreshCat
<1>. QED
  BY <1>2, <1>3, <1>4, FreshCat

LEMMA FreshHandlers == \A bit \in Ints : Fresh(Handler(bit))
<1>1. Fresh(OnChgtypeChange)
  BY FreshFetch DEF OnChgtypeChange, Registers
<1>2. Fresh(OnPdMsgReceived)
  BY FreshSwitches DEF OnPdMsgReceived
<1>. QED
  BY <1>1, <1>2, FreshResponse, FreshCcstat DEF Handler, Ints

LEMMA FreshBodies == \A e \in Entries : Fresh(Body(e))
<1>1. Fresh(PdMsgResponse)
  <2>1. Fresh(Fetch("PD_STATUS"))
    BY FreshFetch DEF Registers
  <2>. QED
    BY <2>1, FreshSwitches, FreshCat DEF PdMsgResponse
<1>2. Fresh(OpcodeFunction)
  <2>1. PICK x \in Steps, y \in Steps : x = Step("prepare", "") /\ y = Step("write", "")
    BY DEF Steps, Transfers
  <2>2. x.do = "prepare" /\ y.do = "write"
    BY <2>1, DoOf
  <2>3. Fresh(<<x, y>>)
    BY <2>2, FreshTwo DEF Reads
  <2>. QED
    BY <2>1, <2>3 DEF OpcodeFunction
<1>3. Fresh(ParseInterruptVals)
  <2>1. Fresh(Fetch("INT"))
    BY FreshFetch DEF Registers
  <2>2. PICK a \in Steps, b \in Steps, c \in Steps, d \in Steps :
            /\ a = Step("check", "APCmdResI") /\ b = Step("check", "PDMsgI")
            /\ c = Step("check", "ChgType") /\ d = Step("check", "CCStat")
    BY DEF Steps, Ints
  <2>3. a.do = "check" /\ b.do = "check" /\ c.do = "check" /\ d.do = "check"
    BY <2>2, DoOf
  <2>4. PICK s : s = <<a, b, c, d>>
    OBVIOUS
  <2>5. s \in Seq(Steps) /\ Len(s) = 4 /\ s[1] = a /\ s[2] = b /\ s[3] = c /\ s[4] = d
    BY <2>4
  <2>6. \A i \in 1..4 : s[i].do \notin Reads
    BY <2>3, <2>5 DEF Reads
  <2>7. Linked(s) /\ Rests(s)
    BY <2>5, <2>6 DEF Linked, LinkAt, Rests, Reads
  <2>8. Fresh(s)
    BY <2>5, <2>7 DEF Fresh
  <2>9. ParseInterruptVals = Fetch("INT") \o s
    BY <2>2, <2>4 DEF ParseInterruptVals
  <2>. QED
    BY <2>1, <2>8, <2>9, FreshCat
<1>. QED
  BY <1>1, <1>2, <1>3 DEF Body

Links == \A c \in Cores : Linked(todo[c])

LEMMA RestsNot ==
    ASSUME NEW s \in Seq(Steps), s # <<>>
    PROVE  Rests(s) <=> Head(s).do \notin Reads
<1>1. Head(s) = s[1]
  BY TailIs
<1>. QED
  BY <1>1 DEF Rests

LEMMA FreshCall ==
    ASSUME NEW s, Fresh(s), NEW t \in Seq(Steps), t # <<>>, Linked(t),
           Head(t).do \notin {"fill", "point", "select"}
    PROVE  Linked(s \o Tail(t)) /\ Rests(s \o Tail(t))
<1>1. Linked(Tail(t)) /\ Rests(Tail(t)) /\ Tail(t) \in Seq(Steps)
  BY LinkedTail, HeadTailProperties
<1>. QED
  BY <1>1, LinkedCat DEF Fresh

\* Only a step that fills or selects is followed by a transfer.
LEMMA StepLinks ==
    ASSUME Todos, Links, NEW c \in Cores, CoreStep(c) \/ Wait(c),
           return_buf.of = "PD_STATUS" => return_buf.val \in PdMessages
    PROVE  /\ Linked(todo'[c]) /\ \A d \in Cores : d # c => todo'[d] = todo[d]
           /\ Fill(c) \/ Point(c) \/ Select(c) \/ Rests(todo'[c])
<1>1. PICK t \in Seq(Steps) : t = todo[c]
  BY DEF Todos
<1>2. Linked(t)
  BY <1>1 DEF Links
<1>3. CASE \/ Fill(c) \/ Point(c) \/ Select(c) \/ Read(c) \/ ReadResponse(c)
           \/ Unfinish(c) \/ Add(c) \/ Give(c) \/ Drop(c) \/ Finish(c)
           \/ Queue(c) \/ Prepare(c) \/ Write(c) \/ Wait(c)
  <2>1. Moves(c) /\ todo'[c] = Tail(t)
    BY <1>1, <1>3, OthersMove
  <2>2. t # <<>>
    BY <1>1, <1>3 DEF At, Fill, Point, Select, Read, ReadResponse, Unfinish, Add, Give, Drop,
          Finish, Queue, Prepare, Write, Wait
  <2>3. Fill(c) \/ Point(c) \/ Select(c) \/ Head(t).do \notin {"fill", "point", "select"}
    BY <1>1, <1>3 DEF At, Read, ReadResponse, Unfinish, Add, Give, Drop,
          Finish, Queue, Prepare, Write, Wait
  <2>4. Linked(Tail(t)) /\ (Head(t).do \notin {"fill", "point", "select"} => Rests(Tail(t)))
    BY <1>2, <2>2, LinkedTail
  <2>. QED
    BY <2>1, <2>3, <2>4 DEF Moves
<1>4. ASSUME NEW s, Fresh(s), todo'[c] = s \o Tail(t), t # <<>>,
             Head(t).do \notin {"fill", "point", "select"},
             \A d \in Cores : d # c => todo'[d] = todo[d]
      PROVE  /\ Linked(todo'[c]) /\ \A d \in Cores : d # c => todo'[d] = todo[d]
             /\ Rests(todo'[c])
  BY <1>2, <1>4, FreshCall
<1>5. CASE Enter(c)
  <2>1. PICK call \in Calls : todo'[c] = Core0Body(call) \o Tail(t)
    BY <1>1, <1>5, EnterMoves
  <2>2. PICK s : s = Core0Body(call)
    OBVIOUS
  <2>3. Fresh(s)
    BY <2>2, FreshCore0
  <2>4. t # <<>> /\ Head(t).do = "call"
    BY <1>1, <1>5 DEF Enter, At
  <2>5. \A d \in Cores : d # c => todo'[d] = todo[d]
    BY <1>5, EnterMoves DEF Moves
  <2>. QED
    BY <1>4, <2>1, <2>2, <2>3, <2>4, <2>5
<1>6. CASE Take(c)
  <2>1. t # <<>> /\ Head(t).do = "take"
    BY <1>1, <1>6 DEF Take, At
  <2>2. PICK s \in {<<>>, <<GiveStep>>} : Call(c, s)
    BY <1>6 DEF Take, Proceed, GiveStep
  <2>3. Fresh(s)
    <3>1. GiveStep \in Steps /\ GiveStep.do = "give"
      BY DoOf DEF GiveStep, Steps
    <3>. QED
      BY <2>2, <3>1, FreshOne, FreshEmpty DEF Reads
  <2>4. todo'[c] = s \o Tail(t) /\ \A d \in Cores : d # c => todo'[d] = todo[d]
    BY <1>1, <2>1, <2>2, Called
  <2>. QED
    BY <1>4, <2>1, <2>3, <2>4
<1>7. CASE Check(c)
  <2>1. t # <<>> /\ Head(t).do = "check"
    BY <1>1, <1>7 DEF Check, At
  <2>2. PICK bit \in Ints : bit = Arg(c)
    BY <1>7, CheckMoves
  <2>3. PICK s \in {<<>>, Handler(bit)} : todo'[c] = s \o Tail(t)
    BY <1>1, <1>7, <2>2, CheckMoves
  <2>4. Fresh(s)
    BY <2>3, FreshHandlers, FreshEmpty
  <2>5. \A d \in Cores : d # c => todo'[d] = todo[d]
    BY <1>7, CheckMoves DEF Moves
  <2>. QED
    BY <1>4, <2>1, <2>3, <2>4, <2>5
<1>8. CASE SwitchCc(c)
  <2>1. t # <<>> /\ Head(t).do = "switch_cc"
    BY <1>1, <1>8 DEF SwitchCc, At
  <2>2. PICK s \in {<<>>, VbusTurnOff} : todo'[c] = s \o Tail(t)
    BY <1>1, <1>8, SwitchCcMoves
  <2>3. Fresh(s)
    BY <2>2, FreshVbus, FreshEmpty
  <2>4. \A d \in Cores : d # c => todo'[d] = todo[d]
    BY <1>8, SwitchCcMoves DEF Moves
  <2>. QED
    BY <1>4, <2>1, <2>2, <2>3, <2>4
<1>9. CASE SwitchPd(c)
  <2>1. t # <<>> /\ Head(t).do = "switch_pd"
    BY <1>1, <1>9 DEF SwitchPd, At
  <2>2. PICK s \in {<<>>, VbusTurnOff, VbusTurnOn} : todo'[c] = s \o Tail(t)
    BY <1>1, <1>9, SwitchPdMoves
  <2>3. Fresh(s)
    BY <2>2, FreshVbus, FreshEmpty
  <2>4. \A d \in Cores : d # c => todo'[d] = todo[d]
    BY <1>9, SwitchPdMoves DEF Moves
  <2>. QED
    BY <1>4, <2>1, <2>2, <2>3, <2>4
<1>. QED
  BY <1>3, <1>5, <1>6, <1>7, <1>8, <1>9 DEF CoreStep

LEMMA PopLinks ==
    ASSUME Todos, call_queue \in Seq(Entries), Core1Pop
    PROVE  Linked(todo'[1]) /\ Rests(todo'[1]) /\ todo'[0] = todo[0]
<1>1. running' \in Entries /\ todo'[1] = Body(running') /\ todo'[0] = todo[0]
  BY PopMoves
<1>2. PICK e \in Entries : e = running'
  BY <1>1
<1>3. Fresh(Body(e))
  BY FreshBodies
<1>. QED
  BY <1>1, <1>2, <1>3 DEF Fresh

LEMMA LinksKept ==
    ASSUME TypeInv, Links, [Next]_vars
    PROVE  Links'
<1>1. /\ Todos /\ call_queue \in Seq(Entries)
      /\ return_buf.of = "PD_STATUS" => return_buf.val \in PdMessages
  BY DEF TypeInv, Queues, Buffers
<1>2. ASSUME NEW c \in Cores, CoreStep(c) \/ Wait(c) PROVE Links'
  BY <1>1, <1>2, StepLinks DEF Links
<1>3. CASE Wait(0)
  <2>1. 0 \in Cores
    BY DEF Cores
  <2>. QED
    BY <1>2, <1>3, <2>1
<1>4. CASE Core1Pop
  BY <1>1, <1>4, PopLinks DEF Links, Cores
<1>5. CASE UNCHANGED todo
  BY <1>5 DEF Links
<1>6. CASE CableChange \/ PowerMessage \/ ChargerChange \/ Answer
  BY <1>5, <1>6 DEF CableChange, PowerMessage, ChargerChange, Answer, Happens
<1>7. CASE UNCHANGED vars
  BY <1>5, <1>7 DEF vars
<1>. QED
  BY <1>2, <1>3, <1>4, <1>6, <1>7 DEF Next

LEMMA LinksInit == Init => Links
<1>. SUFFICES ASSUME Init PROVE Links
  OBVIOUS
<1>1. PICK p : p = Core0Program
  OBVIOUS
<1>2. todo[0] = p /\ todo[1] = <<>>
  BY <1>1 DEF Init, Cores
<1>3. p \in Seq(Steps0) /\ \A i \in 1..Len(p) : p[i].do = "call"
  <2>1. PICK n \in Nat : n = Len(Core0Calls)
    BY MAX77958Assumption
  <2>2. p = [i \in 1..n |-> Step("call", Core0Calls[i])]
    BY <1>1, <2>1 DEF Core0Program
  <2>3. \A i \in 1..n : Step("call", Core0Calls[i]) \in Steps0
    <3>1. \A i \in 1..n : Core0Calls[i] \in Calls
      BY <2>1, MAX77958Assumption
    <3>. QED
      BY <3>1, StepsOf0
  <2>4. p \in Seq(Steps0) /\ Len(p) = n
    BY <2>2, <2>3, SeqDef, LenProperties
  <2>5. \A i \in 1..n : p[i] = Step("call", Core0Calls[i])
    BY <2>2
  <2>. QED
    BY <2>4, <2>5, DoOf
<1>4. Linked(p)
  BY <1>3 DEF Linked, LinkAt
<1>5. Linked(<<>>)
  BY FreshEmpty DEF Fresh
<1>. QED
  BY <1>2, <1>4, <1>5 DEF Links, Cores

-----------------------------------------------------------------------------
(* What the cores do to each other's buffers.                                *)

\* While the cores keep apart, what core 1 writes as an opcode is one, core 0 fetches
\* an opcode after it has read the interrupt registers, and core 1 tests them as soon
\* as it has.
Clear0 ==
    /\ At(0, "select") /\ send_buf.reg = "INT" => HasTake(todo[0])
    /\ At(0, "read") /\ pointer = "INT" => HasTake(todo[0])
Clear1 ==
    /\ At(1, "write") => send_buf.reg = "OPCODE"
    /\ At(1, "select") /\ send_buf.reg = "INT" =>
           Len(todo[1]) >= 3 /\ todo[1][2].do = "read" /\ todo[1][3] = Check1
    /\ At(1, "read") /\ pointer = "INT" => Len(todo[1]) >= 2 /\ todo[1][2] = Check1
    /\ At(1, "read_response") => pointer # "INT"
Undisturbed == ~Clashed => Clear0 /\ Clear1

LEMMA TailTakes ==
    ASSUME NEW s \in Seq(Steps), s # <<>>, Head(s).do # "take", HasTake(s)
    PROVE  HasTake(Tail(s))
<1>1. PICK i \in 1..Len(s) : s[i].do = "take"
  BY DEF HasTake
<1>2. PICK t : t = Tail(s)
  OBVIOUS
<1>3. /\ Head(s) = s[1] /\ Len(s) \in Nat
      /\ Len(t) = Len(s) - 1 /\ \A k \in 1..Len(s) : k > 1 => t[k - 1] = s[k]
  BY <1>2, TailIs
<1>4. i > 1
  <2>1. i # 1
    BY <1>1, <1>3
  <2>. QED
    BY <1>3, <2>1
<1>5. i - 1 \in 1..Len(t) /\ t[i - 1] = s[i]
  BY <1>3, <1>4
<1>. QED
  BY <1>1, <1>2, <1>5 DEF HasTake

LEMMA HeadUses ==
    ASSUME NEW s \in Seq(Steps), s # <<>>, Head(s).do \in Transfers \cup Decisions
    PROVE  \E i \in 1..Len(s) :
               \/ /\ s[i].do \in Transfers
                  /\ \A j \in 1 .. i - 1 : s[j].do \notin Filling
               \/ /\ s[i].do \in Decisions
                  /\ \A j \in 1 .. i - 1 : s[j].do # "fill"
<1>1. Head(s) = s[1] /\ 1 \in 1..Len(s)
  BY TailIs
<1>2. 1 .. 1 - 1 = {}
  OBVIOUS
<1>. QED
  BY <1>1, <1>2

LEMMA Uses ==
    ASSUME Todos, NEW c \in Cores, todo[c] # <<>>, Head(todo[c]).do \in Transfers \cup Decisions
    PROVE  UsesBuffers(c)
<1>1. PICK s \in Seq(Steps) : s = todo[c]
  BY DEF Todos
<1>. QED
  BY <1>1, HeadUses DEF UsesBuffers

LEMMA UsesNext ==
    ASSUME Todos', NEW c \in Cores, todo'[c] # <<>>, Head(todo'[c]).do \in Transfers \cup Decisions
    PROVE  UsesBuffers(c)'
<1>1. PICK s \in Seq(Steps) : s = todo'[c]
  BY DEF Todos
<1>. QED
  BY <1>1, HeadUses DEF UsesBuffers

\* A filled buffer is used at once.
LEMMA FillNext ==
    ASSUME Todos, NEW c \in Cores, todo[c] # <<>>, Head(todo[c]).do \in {"fill", "point"},
           NEW t, t = Tail(todo[c])
    PROVE  /\ t \in Seq(Steps) /\ t # <<>> /\ Len(t) >= 2 /\ Head(t) = t[1] /\ Head(t).do = "select"
           /\ Head(todo[c]) = Step("fill", "INT") =>
                  /\ c = 1 => Len(t) >= 3 /\ t[2].do = "read" /\ t[3] = Check1
                  /\ c = 0 => HasTake(t)
<1>1. PICK s \in Seq(Steps) : s = todo[c]
  BY DEF Todos
<1>2. /\ Head(s) = s[1] /\ Len(s) \in Nat /\ Len(s) >= 1 /\ t \in Seq(Steps)
      /\ Len(t) = Len(s) - 1 /\ \A i \in 1..Len(s) : i > 1 => t[i - 1] = s[i]
  BY <1>1, TailIs
<1>3. Block(s, Own(c))
  BY <1>1, AtKinds
<1>4. FetchAt(s, 1)
  BY <1>2, <1>3 DEF Block, Fetches
<1>5. 1 + 2 = 3 /\ 1 + 1 = 2 /\ 1 + 3 = 4
  OBVIOUS
<1>6. Len(s) >= 3 /\ s[2].do = "select"
  BY <1>1, <1>2, <1>4, <1>5 DEF FetchAt
<1>7. Len(t) >= 2 /\ t[1] = s[2]
  <2>1. 2 \in 1..Len(s) /\ 2 > 1 /\ 2 - 1 = 1
    BY <1>2, <1>6
  <2>. QED
    BY <1>2, <1>6, <2>1
<1>8. t # <<>> /\ Head(t) = t[1]
  <2>1. t # <<>>
    <3>1. Len(t) # 0
      BY <1>2, <1>7
    <3>. QED
      BY <1>2, <3>1, EmptySeq
  <2>. QED
    BY <1>2, <2>1, TailIs
<1>9. ASSUME Head(s) = Step("fill", "INT"), c = 1
      PROVE  Len(t) >= 3 /\ t[2].do = "read" /\ t[3] = Check1
  <2>0. s[1] = Step("fill", "INT") /\ SweepAt(s, 1, Own(c)) /\ Own(c) = Steps1
    BY <1>2, <1>3, <1>9, OwnIs DEF Block, Sweeps
  <2>1. Len(s) >= 4 /\ s[3].do = "read" /\ s[4] = Check1
    BY <1>2, <1>4, <1>5, <2>0, DoOf, Checked DEF FetchAt, SweepAt
  <2>2. 3 \in 1..Len(s) /\ 3 > 1 /\ 3 - 1 = 2 /\ 4 \in 1..Len(s) /\ 4 > 1 /\ 4 - 1 = 3
    BY <1>2, <2>1
  <2>3. t[2] = s[3] /\ t[3] = s[4]
    BY <1>2, <2>2
  <2>. QED
    BY <1>2, <2>1, <2>3
<1>10. ASSUME Head(s) = Step("fill", "INT"), c = 0
       PROVE  HasTake(t)
  <2>1. s[1] = Step("fill", "INT") /\ SweepAt(s, 1, Own(c)) /\ Own(c) = Steps0
    BY <1>2, <1>3, <1>10, OwnIs DEF Block, Sweeps
  <2>2. PICK j \in 1..Len(s) : j > 1 /\ s[j].do = "take"
    BY <2>1, Checked DEF SweepAt
  <2>3. j - 1 \in 1..Len(t) /\ t[j - 1] = s[j]
    BY <1>2, <2>2
  <2>. QED
    BY <2>2, <2>3 DEF HasTake
<1>. QED
  BY <1>1, <1>2, <1>6, <1>7, <1>8, <1>9, <1>10

\* What a core has in the buffers, or the chip in its pointer, the other core leaves
\* alone unless they clash.
LEMMA Exclusive ==
    ASSUME TypeInv, NEW c \in Cores, NEW d \in Cores, c # d, CoreStep(c) \/ Wait(c),
           todo[d] # <<>>, Head(todo[d]).do \in Transfers \cup Decisions, ~Clash, ~Clash'
    PROVE  UNCHANGED <<send_buf, return_buf, pointer, todo[d]>>
<1>1. /\ Todos /\ Queues /\ Buffers
      /\ return_buf.of = "PD_STATUS" => return_buf.val \in PdMessages
  BY DEF TypeInv, Buffers
<1>2. todo'[d] = todo[d]
  <2>1. CASE Take(c)
    BY <1>1, <2>1, TakeMoves DEF Moves, Takes
  <2>2. CASE Add(c) \/ Give(c) \/ Drop(c) \/ Queue(c)
    BY <1>1, <2>2, OthersMove DEF Moves
  <2>3. CASE \/ Enter(c) \/ Fill(c) \/ Point(c) \/ Select(c) \/ Read(c) \/ ReadResponse(c)
             \/ Unfinish(c) \/ Finish(c) \/ Prepare(c) \/ Write(c) \/ Wait(c)
             \/ Check(c) \/ SwitchCc(c) \/ SwitchPd(c)
    BY <1>1, <2>3, QuietMoves DEF Moves
  <2>. QED
    BY <2>1, <2>2, <2>3 DEF CoreStep
<1>3. UsesBuffers(d) /\ UsesBuffers(d)'
  BY <1>1, <1>2, Uses DEF UsesBuffers
<1>4. ~UsesBuffers(c) /\ ~UsesBuffers(c)'
  BY <1>3 DEF Clash, Cores
<1>5. todo[c] # <<>> => Head(todo[c]).do \notin Transfers
  BY <1>1, <1>4, Uses
<1>6. ~Select(c) /\ ~Read(c) /\ ~ReadResponse(c) /\ ~Write(c)
  BY <1>5 DEF Select, Read, ReadResponse, Write, At, Transfers
<1>7. Todos' /\ (todo'[c] # <<>> => Head(todo'[c]).do \notin Transfers)
  <2>1. Todos'
    <3>1. CASE Take(c)
      BY <1>1, <3>1, TakeMoves DEF Moves, Takes
    <3>2. CASE Add(c) \/ Give(c) \/ Drop(c) \/ Queue(c)
      BY <1>1, <3>2, OthersMove DEF Moves
    <3>3. CASE \/ Enter(c) \/ Fill(c) \/ Point(c) \/ Select(c) \/ Read(c) \/ ReadResponse(c)
               \/ Unfinish(c) \/ Finish(c) \/ Prepare(c) \/ Write(c) \/ Wait(c)
               \/ Check(c) \/ SwitchCc(c) \/ SwitchPd(c)
      BY <1>1, <3>3, QuietMoves DEF Moves
    <3>. QED
      BY <3>1, <3>2, <3>3 DEF CoreStep
  <2>. QED
    BY <1>4, <2>1, UsesNext
<1>8. ~Fill(c) /\ ~Point(c)
  <2>1. ASSUME Fill(c) \/ Point(c) PROVE FALSE
    <3>1. todo[c] # <<>> /\ Head(todo[c]).do \in {"fill", "point"}
      BY <2>1 DEF Fill, Point, At
    <3>2. PICK t : t = Tail(todo[c])
      OBVIOUS
    <3>3. t # <<>> /\ Head(t).do = "select"
      BY <1>1, <3>1, <3>2, FillNext
    <3>4. todo'[c] = t
      BY <1>1, <2>1, <3>2, OthersMove
    <3>. QED
      BY <1>7, <3>3, <3>4 DEF Transfers
  <2>. QED
    BY <2>1
<1>9. ~Prepare(c)
  <2>1. ASSUME Prepare(c) PROVE FALSE
    <3>1. todo[c] # <<>> /\ Head(todo[c]).do = "prepare"
      BY <2>1 DEF Prepare, At
    <3>2. PICK w : w = WriteStep
      OBVIOUS
    <3>3. todo'[c] = <<w>>
      BY <1>1, <2>1, <3>1, <3>2, AtKinds, OthersMove
    <3>4. <<w>> # <<>> /\ Head(<<w>>) = w
      OBVIOUS
    <3>5. w.do = "write"
      BY <3>2, DoOf DEF WriteStep
    <3>6. todo'[c] # <<>> /\ Head(todo'[c]) = w
      BY <3>3, <3>4
    <3>. QED
      BY <1>7, <3>5, <3>6 DEF Transfers
  <2>. QED
    BY <2>1
<1>10. CASE Enter(c) \/ Unfinish(c) \/ Add(c) \/ Take(c) \/ Give(c) \/ Drop(c) \/ Finish(c)
  BY <1>2, <1>10 DEF Enter, Unfinish, Add, Take, Give, Drop, Finish, buffers, chip
<1>11. CASE Queue(c) \/ Check(c) \/ SwitchCc(c) \/ SwitchPd(c) \/ Wait(c)
  BY <1>2, <1>11 DEF Queue, Check, SwitchCc, SwitchPd, Wait, buffers, chip
<1>. QED
  BY <1>6, <1>8, <1>9, <1>10, <1>11 DEF CoreStep

LEMMA NotReading ==
    ASSUME Todos', NEW c \in Cores, Rests(todo'[c])
    PROVE  ~At(c, "select")' /\ ~At(c, "read")' /\ ~At(c, "read_response")'
<1>1. PICK t \in Seq(Steps) : t = todo'[c]
  BY DEF Todos
<1>2. t # <<>> => Head(t).do \notin Reads
  BY <1>1, RestsNot
<1>. QED
  BY <1>1, <1>2 DEF At, Reads

LEMMA Clear0Kept ==
    ASSUME TypeInv, Links, Clear0, CoreStep(0) \/ Wait(0)
    PROVE  Clear0'
<1>1. /\ Todos /\ 0 \in Cores
      /\ return_buf.of = "PD_STATUS" => return_buf.val \in PdMessages
  BY DEF TypeInv, Buffers, Cores
<1>2. CASE Fill(0)
  <2>1. todo[0] # <<>> /\ Head(todo[0]).do = "fill"
    BY <1>2 DEF Fill, At
  <2>2. send_buf'.reg = Arg(0)
    BY <1>2 DEF Fill
  <2>3. Arg(0) = "INT" => Head(todo[0]) = Step("fill", "INT")
    BY <1>1, <2>1, AtKinds DEF Arg
  <2>4. PICK t : t = Tail(todo[0])
    OBVIOUS
  <2>5. /\ Head(t).do = "select" /\ todo'[0] = t
        /\ Head(todo[0]) = Step("fill", "INT") => HasTake(t)
    BY <1>1, <1>2, <2>1, <2>4, FillNext, OthersMove
  <2>. QED
    BY <2>2, <2>3, <2>5 DEF Clear0, At
<1>3. CASE Point(0)
  <2>1. todo[0] # <<>> /\ Head(todo[0]).do = "point"
    BY <1>3 DEF Point, At
  <2>2. Head(todo[0]) \in Steps0
    BY <1>1, <2>1, AtKinds, OwnIs
  <2>. QED
    BY <2>1, <2>2 DEF Steps0
<1>4. CASE Select(0)
  <2>1. todo[0] # <<>> /\ Head(todo[0]).do = "select" /\ At(0, "select")
    BY <1>4 DEF Select, At
  <2>2. PICK s \in Seq(Steps) : s = todo[0]
    BY <1>1 DEF Todos
  <2>3. PICK t : t = Tail(s)
    OBVIOUS
  <2>4. todo'[0] = t
    BY <1>1, <1>4, <2>2, <2>3, OthersMove
  <2>5. t # <<>> => Head(t).do # "select"
    BY <1>1, <2>1, <2>2, <2>3, LinkedTail DEF Links
  <2>6. pointer' = "INT" => HasTake(t)
    <3>1. pointer' = send_buf.reg
      BY <1>4 DEF Select
    <3>2. s # <<>> /\ Head(s).do # "take"
      BY <2>1, <2>2
    <3>3. HasTake(s) => HasTake(t)
      BY <2>2, <2>3, <3>2, TailTakes
    <3>. QED
      BY <2>1, <2>2, <3>1, <3>3 DEF Clear0
  <2>. QED
    BY <2>4, <2>5, <2>6 DEF Clear0, At
<1>5. CASE ~Fill(0) /\ ~Point(0) /\ ~Select(0)
  <2>1. Rests(todo'[0])
    BY <1>1, <1>5, StepLinks
  <2>2. Todos'
    <3>1. Next
      BY <1>1 DEF Next
    <3>. QED
      BY <3>1, TypeNext DEF TypeInv
  <2>. QED
    BY <1>1, <2>1, <2>2, NotReading DEF Clear0
<1>. QED
  BY <1>2, <1>3, <1>4, <1>5

LEMMA Clear1Kept ==
    ASSUME TypeInv, Links, Clear1, CoreStep(1)
    PROVE  Clear1'
<1>1. /\ Todos /\ 1 \in Cores
      /\ return_buf.of = "PD_STATUS" => return_buf.val \in PdMessages
  BY DEF TypeInv, Buffers, Cores
<1>2. Todos'
  <2>1. Next
    BY <1>1 DEF Next
  <2>. QED
    BY <2>1, TypeNext DEF TypeInv
<1>3. CASE Fill(1) \/ Point(1)
  <2>1. todo[1] # <<>> /\ Head(todo[1]).do \in {"fill", "point"}
    BY <1>3 DEF Fill, Point, At
  <2>2. PICK t : t = Tail(todo[1])
    OBVIOUS
  <2>3. /\ t # <<>> /\ Head(t).do = "select" /\ todo'[1] = t
        /\ Head(todo[1]) = Step("fill", "INT") => Len(t) >= 3 /\ t[2].do = "read" /\ t[3] = Check1
    BY <1>1, <1>3, <2>1, <2>2, FillNext, OthersMove
  <2>4. send_buf'.reg = "INT" => Head(todo[1]) = Step("fill", "INT")
    <3>1. CASE Fill(1)
      <4>1. send_buf'.reg = Arg(1) /\ Head(todo[1]).do = "fill"
        BY <3>1 DEF Fill, At
      <4>. QED
        BY <1>1, <2>1, <4>1, AtKinds DEF Arg
    <3>2. CASE Point(1)
      <4>1. send_buf'.reg = Arg(1) /\ Head(todo[1]).do = "point"
        BY <3>2 DEF Point, At
      <4>2. Arg(1) = "OPCODE_READ"
        BY <1>1, <2>1, <4>1, HeadKinds, StepArgs DEF Arg
      <4>. QED
        BY <4>1, <4>2
    <3>. QED
      BY <1>3, <3>1, <3>2
  <2>. QED
    BY <2>3, <2>4 DEF Clear1, At
<1>4. CASE Select(1)
  <2>1. todo[1] # <<>> /\ Head(todo[1]).do = "select" /\ At(1, "select")
    BY <1>4 DEF Select, At
  <2>2. PICK s \in Seq(Steps) : s = todo[1]
    BY <1>1 DEF Todos
  <2>3. PICK t : t = Tail(s)
    OBVIOUS
  <2>4. todo'[1] = t /\ ~At(1, "write")'
    BY <1>1, <1>4, <2>1, <2>2, <2>3, OthersMove DEF Moves, At
  <2>5. t # <<>> => Head(t).do # "select"
    BY <1>1, <2>1, <2>2, <2>3, LinkedTail DEF Links
  <2>6. pointer' = send_buf.reg
    BY <1>4 DEF Select
  <2>7. CASE send_buf.reg = "INT"
    <3>1. Len(s) >= 3 /\ s[2].do = "read" /\ s[3] = Check1
      BY <2>1, <2>2, <2>7 DEF Clear1
    <3>2. t # <<>> /\ Len(t) >= 2 /\ Head(t) = s[2] /\ t[2] = s[3]
      <4>1. /\ Len(s) \in Nat /\ t \in Seq(Steps)
            /\ Len(t) = Len(s) - 1 /\ \A i \in 1..Len(s) : i > 1 => t[i - 1] = s[i]
        BY <2>1, <2>2, <2>3, TailIs
      <4>2. 2 \in 1..Len(s) /\ 2 > 1 /\ 2 - 1 = 1 /\ 3 \in 1..Len(s) /\ 3 > 1 /\ 3 - 1 = 2
        BY <3>1, <4>1
      <4>3. t[1] = s[2] /\ t[2] = s[3] /\ Len(t) >= 2
        BY <3>1, <4>1, <4>2
      <4>4. t # <<>>
        <5>1. Len(<<>>) = 0
          OBVIOUS
        <5>. QED
          BY <4>3, <5>1
      <4>5. Head(t) = t[1]
        BY <4>1, <4>4, TailIs
      <4>. QED
        BY <4>3, <4>4, <4>5
    <3>. QED
      BY <2>4, <2>5, <3>1, <3>2 DEF Clear1, At
  <2>8. CASE send_buf.reg # "INT"
    BY <2>4, <2>5, <2>6, <2>8 DEF Clear1, At
  <2>. QED
    BY <2>7, <2>8
<1>5. CASE Prepare(1)
  <2>1. send_buf'.reg = "OPCODE"
    BY <1>5 DEF Prepare
  <2>2. Rests(todo'[1])
    <3>1. ~Fill(1) /\ ~Point(1) /\ ~Select(1)
      BY <1>5 DEF Prepare, Fill, Point, Select, At
    <3>. QED
      BY <1>1, <3>1, StepLinks
  <2>. QED
    BY <1>1, <1>2, <2>1, <2>2, NotReading DEF Clear1
<1>6. CASE ~Fill(1) /\ ~Point(1) /\ ~Select(1) /\ ~Prepare(1)
  <2>1. Rests(todo'[1])
    BY <1>1, <1>6, StepLinks
  <2>2. ~At(1, "write")'
    <3>1. CASE Take(1)
      <4>1. Head(todo[1]).do = "take"
        BY <3>1 DEF Take, At
      <4>. QED
        BY <1>1, <3>1, <4>1, TakeMoves DEF Moves, Takes, At
    <3>2. CASE Add(1) \/ Give(1) \/ Drop(1) \/ Queue(1)
      <4>1. Head(todo[1]).do # "prepare"
        BY <3>2 DEF Add, Give, Drop, Queue, At
      <4>. QED
        BY <1>1, <3>2, <4>1, OthersMove DEF Moves, At
    <3>3. CASE \/ Enter(1) \/ Read(1) \/ ReadResponse(1) \/ Unfinish(1) \/ Finish(1) \/ Write(1)
               \/ Check(1) \/ SwitchCc(1) \/ SwitchPd(1)
      <4>1. Head(todo[1]).do # "prepare"
        BY <3>3 DEF Enter, Read, ReadResponse, Unfinish, Finish, Write, Check, SwitchCc, SwitchPd, At
      <4>2. Moves(1)
        BY <1>1, <3>3, QuietMoves
      <4>. QED
        BY <4>1, <4>2 DEF Moves, At
    <3>. QED
      BY <1>6, <3>1, <3>2, <3>3 DEF CoreStep
  <2>. QED
    BY <1>1, <1>2, <2>1, <2>2, NotReading DEF Clear1
<1>. QED
  BY <1>3, <1>4, <1>5, <1>6

LEMMA UndisturbedKept ==
    ASSUME TypeInv, Links, Undisturbed, [Next]_vars
    PROVE  Undisturbed'
<1>. SUFFICES ASSUME ~Clashed' PROVE Clear0' /\ Clear1'
  BY DEF Undisturbed
<1>1. ~Clashed /\ ~Clash /\ ~Clash'
  BY ClashedStays DEF Clashed
<1>2. Clear0 /\ Clear1
  BY <1>1 DEF Undisturbed
<1>3. /\ Todos /\ call_queue \in Seq(Entries) /\ 0 \in Cores /\ 1 \in Cores
      /\ return_buf.of = "PD_STATUS" => return_buf.val \in PdMessages
  BY DEF TypeInv, Queues, Buffers, Cores
<1>4. CASE CoreStep(0) \/ Wait(0)
  <2>1. Clear0'
    BY <1>2, <1>4, Clear0Kept
  <2>2. todo'[1] = todo[1]
    BY <1>3, <1>4, StepLinks
  <2>3. CASE todo[1] # <<>> /\ Head(todo[1]).do \in Transfers
    <3>1. UNCHANGED <<send_buf, pointer>>
      BY <1>1, <1>3, <1>4, <2>3, Exclusive
    <3>. QED
      BY <1>2, <2>1, <2>2, <3>1 DEF Clear1, At
  <2>4. CASE ~(todo[1] # <<>> /\ Head(todo[1]).do \in Transfers)
    BY <2>1, <2>2, <2>4 DEF Clear1, At, Transfers
  <2>. QED
    BY <2>3, <2>4
<1>5. CASE CoreStep(1)
  <2>1. Clear1'
    BY <1>2, <1>5, Clear1Kept
  <2>2. todo'[0] = todo[0]
    BY <1>3, <1>5, StepLinks
  <2>3. CASE todo[0] # <<>> /\ Head(todo[0]).do \in Transfers
    <3>1. UNCHANGED <<send_buf, pointer>>
      BY <1>1, <1>3, <1>5, <2>3, Exclusive
    <3>. QED
      BY <1>2, <2>1, <2>2, <3>1 DEF Clear0, At
  <2>4. CASE ~(todo[0] # <<>> /\ Head(todo[0]).do \in Transfers)
    BY <2>1, <2>2, <2>4 DEF Clear0, At, Transfers
  <2>. QED
    BY <2>3, <2>4
<1>6. CASE Core1Pop
  <2>1. Rests(todo'[1]) /\ todo'[0] = todo[0] /\ Todos' /\ ~At(1, "write")'
    BY <1>3, <1>6, PopLinks, PopMoves
  <2>2. UNCHANGED <<send_buf, pointer>>
    BY <1>6 DEF Core1Pop, buffers, chip
  <2>3. Clear1'
    BY <1>3, <2>1, NotReading DEF Clear1
  <2>4. Clear0'
    BY <1>2, <2>1, <2>2 DEF Clear0, At
  <2>. QED
    BY <2>3, <2>4
<1>7. ASSUME UNCHANGED <<todo, send_buf, pointer>> PROVE Clear0' /\ Clear1'
  BY <1>2, <1>7 DEF Clear0, Clear1, At
<1>8. CASE CableChange \/ PowerMessage \/ ChargerChange \/ Answer
  BY <1>7, <1>8 DEF CableChange, PowerMessage, ChargerChange, Answer, Happens, buffers
<1>9. CASE UNCHANGED vars
  BY <1>7, <1>9 DEF vars
<1>10. ASSUME NEW c \in Cores, CoreStep(c) PROVE CoreStep(0) \/ CoreStep(1)
  BY <1>10 DEF Cores
<1>. QED
  BY <1>4, <1>5, <1>6, <1>8, <1>9, <1>10 DEF Next

LEMMA UndisturbedInit == Init => Undisturbed
<1>. SUFFICES ASSUME Init PROVE Undisturbed
  OBVIOUS
<1>1. todo[1] = <<>>
  BY DEF Init, Cores
<1>2. todo[0] # <<>> => Head(todo[0]).do = "call"
  <2>1. PICK p : p = Core0Program
    OBVIOUS
  <2>2. todo[0] = p
    BY <2>1 DEF Init, Cores
  <2>3. PICK n \in Nat : n = Len(Core0Calls)
    BY MAX77958Assumption
  <2>4. p = [i \in 1..n |-> Step("call", Core0Calls[i])]
    BY <2>1, <2>3 DEF Core0Program
  <2>5. \A i \in 1..n : Step("call", Core0Calls[i]) \in Steps0
    <3>1. \A i \in 1..n : Core0Calls[i] \in Calls
      BY <2>3, MAX77958Assumption
    <3>. QED
      BY <3>1, StepsOf0
  <2>6. p \in Seq(Steps0) /\ Len(p) = n
    BY <2>4, <2>5, SeqDef, LenProperties
  <2>7. ASSUME p # <<>> PROVE Head(p).do = "call"
    <3>1. Head(p) = p[1] /\ 1 \in 1..n
      BY <2>6, <2>7, TailIs
    <3>. QED
      BY <2>4, <3>1, DoOf
  <2>. QED
    BY <2>2, <2>7
<1>. QED
  BY <1>1, <1>2 DEF Undisturbed, Clear0, Clear1, At

-----------------------------------------------------------------------------
(* A queued opcode is followed up.                                           *)

Answered == todo[1] # <<>> /\ Head(todo[1]) = Check1 /\ "APCmdResI" \in return_buf.bits

\* What ends in opcode_queue_pop, at the latest when the chip has answered.
Carried ==
    \/ In(call_queue) # {}
    \/ \E c \in Cores : HasTake(todo[c]) \/ At(c, "give")
    \/ At(1, "prepare") \/ At(1, "write")
    \/ commands # <<>>
    \/ "APCmdResI" \in int
    \/ Answered
Followed == opcode_queue # <<>> /\ drops = 0 /\ ~Clashed => Carried

LEMMA InAppended ==
    ASSUME NEW q \in Seq(Entries), NEW e \in Entries
    PROVE  In(q) \subseteq In(Append(q, e)) /\ (e \in Opcodes => e \in In(Append(q, e)))
<1>1. PICK u : u = Append(q, e)
  OBVIOUS
<1>2. PICK n \in Nat : n = Len(q)
  OBVIOUS
<1>3. Len(u) = n + 1 /\ (\A i \in 1..n : u[i] = q[i]) /\ u[n + 1] = e
  BY <1>1, <1>2, AppendProperties
<1>4. 1..n \subseteq 1..(n + 1) /\ n + 1 \in 1..(n + 1)
  OBVIOUS
<1>5. In(q) \subseteq In(u)
  BY <1>2, <1>3, <1>4 DEF In
<1>6. e \in Opcodes => e \in In(u)
  BY <1>3, <1>4 DEF In
<1>. QED
  BY <1>1, <1>5, <1>6

LEMMA InTail ==
    ASSUME NEW q \in Seq(Entries), q # <<>>, NEW x \in In(q)
    PROVE  x = Head(q) \/ x \in In(Tail(q))
<1>1. PICK i \in 1..Len(q) : q[i] = x /\ x \in Opcodes
  BY DEF In
<1>2. PICK t : t = Tail(q)
  OBVIOUS
<1>3. /\ Head(q) = q[1] /\ Len(q) \in Nat
      /\ Len(t) = Len(q) - 1 /\ \A k \in 1..Len(q) : k > 1 => t[k - 1] = q[k]
  BY <1>2, TailIs
<1>4. CASE i > 1
  <2>1. i - 1 \in 1..Len(t) /\ t[i - 1] = x
    BY <1>1, <1>3, <1>4
  <2>. QED
    BY <1>1, <1>2, <2>1 DEF In
<1>5. CASE i = 1
  BY <1>1, <1>3, <1>5
<1>. QED
  BY <1>3, <1>4, <1>5

LEMMA CatTakes ==
    ASSUME NEW s \in Seq(Steps), NEW t \in Seq(Steps), HasTake(s) \/ HasTake(t)
    PROVE  HasTake(s \o t)
<1>1. PICK u : u = s \o t
  OBVIOUS
<1>2. Joins(u, s, t)
  BY <1>1, After
<1>3. PICK m \in Nat, n \in Nat : m = Len(s) /\ n = Len(t)
  OBVIOUS
<1>4. /\ Len(u) = m + n
      /\ \A i \in 1..m : u[i] = s[i]
      /\ \A i \in 1..n, j \in Int : j = m + i => u[j] = t[i]
  BY <1>2, <1>3 DEF Joins
<1>5. CASE HasTake(s)
  <2>1. PICK i \in 1..m : s[i].do = "take"
    BY <1>3, <1>5 DEF HasTake
  <2>2. i \in 1..(m + n) /\ u[i] = s[i]
    BY <1>4
  <2>. QED
    BY <1>1, <1>4, <2>1, <2>2 DEF HasTake
<1>6. CASE HasTake(t)
  <2>1. PICK i \in 1..n : t[i].do = "take"
    BY <1>3, <1>6 DEF HasTake
  <2>2. m + i \in 1..(m + n) /\ u[m + i] = t[i]
    BY <1>4
  <2>. QED
    BY <1>1, <1>4, <2>1, <2>2 DEF HasTake
<1>. QED
  BY <1>5, <1>6

\* An opcode_queue_pop ahead stays ahead until it begins.
LEMMA TakeStays ==
    ASSUME Todos, NEW c \in Cores, CoreStep(c) \/ Wait(c), ~Take(c), HasTake(todo[c]),
           return_buf.of = "PD_STATUS" => return_buf.val \in PdMessages
    PROVE  HasTake(todo'[c])
<1>1. PICK t \in Seq(Steps) : t = todo[c]
  BY DEF Todos
<1>2. ASSUME t # <<>>, Head(t).do # "take"
      PROVE  HasTake(Tail(t)) /\ Tail(t) \in Seq(Steps)
  BY <1>1, <1>2, TailTakes, HeadTailProperties
<1>3. CASE \/ Fill(c) \/ Point(c) \/ Select(c) \/ Read(c) \/ ReadResponse(c)
           \/ Unfinish(c) \/ Add(c) \/ Give(c) \/ Drop(c) \/ Finish(c)
           \/ Queue(c) \/ Prepare(c) \/ Write(c) \/ Wait(c)
  <2>1. todo'[c] = Tail(t)
    BY <1>1, <1>3, OthersMove
  <2>2. t # <<>> /\ Head(t).do # "take"
    BY <1>1, <1>3 DEF At, Fill, Point, Select, Read, ReadResponse, Unfinish, Add, Give, Drop,
          Finish, Queue, Prepare, Write, Wait
  <2>. QED
    BY <1>2, <2>1, <2>2
<1>4. CASE Enter(c)
  <2>1. PICK call \in Calls : todo'[c] = Core0Body(call) \o Tail(t)
    BY <1>1, <1>4, EnterMoves
  <2>2. PICK s : s = Core0Body(call)
    OBVIOUS
  <2>3. s \in Seq(Steps)
    BY <2>2, FreshCore0 DEF Fresh
  <2>4. t # <<>> /\ Head(t).do # "take"
    BY <1>1, <1>4 DEF Enter, At
  <2>. QED
    BY <1>2, <2>1, <2>2, <2>3, <2>4, CatTakes
<1>5. CASE Check(c)
  <2>1. PICK bit \in Ints : bit = Arg(c)
    BY <1>5, CheckMoves
  <2>2. PICK s \in {<<>>, Handler(bit)} : todo'[c] = s \o Tail(t)
    BY <1>1, <1>5, <2>1, CheckMoves
  <2>3. s \in Seq(Steps)
    BY <2>2, FreshHandlers, FreshEmpty DEF Fresh
  <2>4. t # <<>> /\ Head(t).do # "take"
    BY <1>1, <1>5 DEF Check, At
  <2>. QED
    BY <1>2, <2>2, <2>3, <2>4, CatTakes
<1>6. CASE SwitchCc(c)
  <2>1. PICK s \in {<<>>, VbusTurnOff} : todo'[c] = s \o Tail(t)
    BY <1>1, <1>6, SwitchCcMoves
  <2>2. s \in Seq(Steps)
    BY <2>1, FreshVbus, FreshEmpty DEF Fresh
  <2>3. t # <<>> /\ Head(t).do # "take"
    BY <1>1, <1>6 DEF SwitchCc, At
  <2>. QED
    BY <1>2, <2>1, <2>2, <2>3, CatTakes
<1>7. CASE SwitchPd(c)
  <2>1. PICK s \in {<<>>, VbusTurnOff, VbusTurnOn} : todo'[c] = s \o Tail(t)
    BY <1>1, <1>7, SwitchPdMoves
  <2>2. s \in Seq(Steps)
    BY <2>1, FreshVbus, FreshEmpty DEF Fresh
  <2>3. t # <<>> /\ Head(t).do # "take"
    BY <1>1, <1>7 DEF SwitchPd, At
  <2>. QED
    BY <1>2, <2>1, <2>2, <2>3, CatTakes
<1>. QED
  BY <1>3, <1>4, <1>5, <1>6, <1>7 DEF CoreStep

\* Only core 1's next entry leaves call_queue.
LEMMA EntriesStay ==
    ASSUME TypeInv, [Next]_vars
    PROVE  In(call_queue) \subseteq In(call_queue') \/ Core1Pop
<1>1. Todos /\ Queues
  BY DEF TypeInv
<1>2. PICK q \in Seq(Entries) : q = call_queue
  BY <1>1 DEF Queues
<1>3. ASSUME NEW e \in Entries, call_queue' = Append(q, e) \/ call_queue' = q
      PROVE  In(call_queue) \subseteq In(call_queue')
  BY <1>2, <1>3, InAppended
<1>4. ASSUME NEW c \in Cores, CoreStep(c) PROVE In(call_queue) \subseteq In(call_queue')
  <2>1. CASE Queue(c)
    <3>1. PICK e \in Entries : e = Plain("pd_msg_response")
      BY OpcodeFacts
    <3>. QED
      BY <1>1, <1>2, <1>3, <2>1, <3>1, QueueQueues
  <2>2. CASE Give(c)
    <3>1. PICK e \in Entries : e = hand[c]
      BY <1>1, <2>2, OpcodeFacts DEF Queues, Give
    <3>2. call_queue' = Append(q, e)
      BY <1>2, <2>2, <3>1 DEF Give
    <3>. QED
      BY <1>3, <3>2
  <2>3. CASE ~Queue(c) /\ ~Give(c)
    <3>1. call_queue' = call_queue
      BY <1>4, <2>3 DEF CoreStep, Enter, Fill, Point, Select, Read, ReadResponse, Unfinish, Add,
         Take, Drop, Finish, Prepare, Write, Check, SwitchCc, SwitchPd, queues
    <3>. QED
      BY <3>1
  <2>. QED
    BY <2>1, <2>2, <2>3
<1>5. CASE Wait(0)
  BY <1>5 DEF Wait, queues
<1>6. ASSUME NEW bit, Raise(bit) PROVE In(call_queue) \subseteq In(call_queue')
  <2>1. PICK e \in Entries : e = Plain("parse_interrupt_vals")
    BY OpcodeFacts
  <2>. QED
    BY <1>2, <1>3, <1>6, <2>1 DEF Raise
<1>7. CASE CableChange \/ PowerMessage \/ ChargerChange \/ Answer
  BY <1>6, <1>7 DEF CableChange, PowerMessage, ChargerChange, Answer
<1>8. CASE UNCHANGED vars
  BY <1>8 DEF vars
<1>. QED
  BY <1>4, <1>5, <1>7, <1>8 DEF Next

\* A step after which an opcode waits, none was dropped and the cores keep apart.
Apart ==
    /\ TypeInv /\ Links /\ Clear0 /\ Clear1 /\ [Next]_vars
    /\ opcode_queue' # <<>> /\ drops = 0 /\ drops' = 0 /\ ~Clash /\ ~Clash'

LEMMA Facts ==
    ASSUME Apart
    PROVE  /\ Todos /\ Queues /\ 0 \in Cores /\ 1 \in Cores
           /\ return_buf.of = "PD_STATUS" => return_buf.val \in PdMessages
           /\ return_buf.bits # {} => return_buf.of = "INT"
           /\ call_queue \in Seq(Entries) /\ [Next]_vars
BY DEF Apart, TypeInv, Queues, Buffers, Cores

\* The steps, by what does them.
LEMMA Doers ==
    ASSUME Apart
    PROVE  \/ \E c \in Cores : CoreStep(c) \/ Wait(c)
           \/ Core1Pop
           \/ CableChange \/ PowerMessage \/ ChargerChange \/ Answer
           \/ UNCHANGED vars
BY Facts DEF Next

LEMMA ChipSteps ==
    ASSUME CableChange \/ PowerMessage \/ ChargerChange \/ Answer \/ UNCHANGED vars
    PROVE  /\ UNCHANGED <<todo, hand, send_buf, return_buf, pointer, opcode_queue>>
           /\ int \subseteq int'
           /\ commands' = commands \/ "APCmdResI" \in int'
<1>1. CASE CableChange \/ PowerMessage \/ ChargerChange
  BY <1>1 DEF CableChange, PowerMessage, ChargerChange, Happens, Raise, buffers
<1>2. CASE Answer
  BY <1>2 DEF Answer, Raise, buffers
<1>3. CASE UNCHANGED vars
  BY <1>3 DEF vars
<1>. QED
  BY <1>1, <1>2, <1>3

LEMMA QueuedFollowed ==
    ASSUME Apart, In(call_queue) # {}
    PROVE  Carried'
<1>1. CASE In(call_queue) \subseteq In(call_queue')
  BY <1>1 DEF Carried
<1>2. CASE Core1Pop
  <2>1. PICK x : x \in In(call_queue)
    OBVIOUS
  <2>2. PICK q \in Seq(Entries) : q = call_queue
    BY Facts
  <2>3. q # <<>> /\ call_queue' = Tail(q) /\ running' = Head(q)
    BY <1>2, <2>2 DEF Core1Pop
  <2>4. x = Head(q) \/ x \in In(Tail(q))
    BY <2>1, <2>2, <2>3, InTail
  <2>5. CASE x \in In(Tail(q))
    BY <2>3, <2>5 DEF Carried
  <2>6. CASE x = Head(q)
    <3>1. x \in Opcodes /\ x.op \in Ops
      BY <2>1, OpcodeFacts DEF In
    <3>2. x.op # "parse_interrupt_vals" /\ x.op # "pd_msg_response"
      BY <3>1 DEF Ops
    <3>3. Body(x) = OpcodeFunction
      BY <3>2 DEF Body
    <3>4. todo'[1] = Body(x)
      BY <1>2, <2>3, <2>6, Facts, PopMoves
    <3>5. PICK a, b : a = PrepareStep /\ b = WriteStep
      OBVIOUS
    <3>6. todo'[1] = <<a, b>>
      BY <3>3, <3>4, <3>5 DEF OpcodeFunction, PrepareStep, WriteStep
    <3>7. PICK s : s = <<a, b>>
      OBVIOUS
    <3>8. s # <<>> /\ Head(s) = a
      BY <3>7
    <3>9. a.do = "prepare"
      BY <3>5, DoOf DEF PrepareStep
    <3>10. At(1, "prepare")'
      BY <3>6, <3>7, <3>8, <3>9 DEF At
    <3>. QED
      BY <3>10 DEF Carried
  <2>. QED
    BY <2>4, <2>5, <2>6
<1>. QED
  BY <1>1, <1>2, Facts, EntriesStay DEF Apart

LEMMA TakingFollowed ==
    ASSUME Apart, NEW c \in Cores, HasTake(todo[c])
    PROVE  Carried'
<1>1. CASE CoreStep(c) \/ Wait(c)
  <2>1. CASE ~Take(c)
    BY <1>1, <2>1, Facts, TakeStays DEF Carried
  <2>2. CASE Take(c)
    <3>1. opcode_queue # <<>>
      BY <2>2 DEF Apart, Take
    <3>2. At(c, "give")'
      BY <2>2, <3>1, Facts, TakeMoves DEF Takes
    <3>. QED
      BY <3>2 DEF Carried
  <2>. QED
    BY <2>1, <2>2
<1>2. ASSUME NEW d \in Cores, d # c, CoreStep(d) \/ Wait(d) PROVE Carried'
  <2>1. todo'[c] = todo[c]
    BY <1>2, Facts, StepLinks DEF Apart
  <2>. QED
    BY <2>1 DEF Carried
<1>3. CASE Core1Pop
  <2>1. c = 0
    <3>1. todo[1] = <<>> /\ ~HasTake(<<>>)
      <4>1. Len(<<>>) = 0
        OBVIOUS
      <4>. QED
        BY <1>3, <4>1 DEF Core1Pop, HasTake
    <3>. QED
      BY <3>1 DEF Cores
  <2>2. todo'[0] = todo[0]
    BY <1>3, Facts, PopMoves
  <2>. QED
    BY <2>1, <2>2 DEF Carried
<1>4. CASE CableChange \/ PowerMessage \/ ChargerChange \/ Answer \/ UNCHANGED vars
  BY <1>4, ChipSteps DEF Carried
<1>. QED
  BY <1>1, <1>2, <1>3, <1>4, Doers

LEMMA GivingFollowed ==
    ASSUME Apart, NEW c \in Cores, At(c, "give")
    PROVE  Carried'
<1>1. CASE CoreStep(c) \/ Wait(c)
  <2>1. Give(c) \/ Drop(c)
    BY <1>1 DEF CoreStep, At, Enter, Fill, Point, Select, Read, ReadResponse, Unfinish, Add, Take,
          Finish, Queue, Prepare, Write, Check, SwitchCc, SwitchPd, Wait
  <2>2. ~Drop(c)
    BY DEF Drop, Apart
  <2>3. PICK e \in Opcodes : e = hand[c]
    BY Facts DEF Queues
  <2>4. PICK q \in Seq(Entries) : q = call_queue
    BY Facts
  <2>5. call_queue' = Append(q, e)
    BY <2>1, <2>2, <2>3, <2>4 DEF Give
  <2>6. e \in In(call_queue')
    BY <2>5, InAppended, OpcodeFacts
  <2>. QED
    BY <2>6 DEF Carried
<1>2. ASSUME NEW d \in Cores, d # c, CoreStep(d) \/ Wait(d) PROVE Carried'
  <2>1. todo'[c] = todo[c]
    BY <1>2, Facts, StepLinks DEF Apart
  <2>2. At(c, "give")'
    BY <2>1 DEF At
  <2>. QED
    BY <2>2 DEF Carried
<1>3. CASE Core1Pop
  <2>1. c = 0
    BY <1>3 DEF Core1Pop, At, Cores
  <2>2. todo'[0] = todo[0]
    BY <1>3, Facts, PopMoves
  <2>3. At(c, "give")'
    BY <2>1, <2>2 DEF At
  <2>. QED
    BY <2>3 DEF Carried
<1>4. CASE CableChange \/ PowerMessage \/ ChargerChange \/ Answer \/ UNCHANGED vars
  <2>1. At(c, "give")'
    BY <1>4, ChipSteps DEF At
  <2>. QED
    BY <2>1 DEF Carried
<1>. QED
  BY <1>1, <1>2, <1>3, <1>4, Doers

LEMMA WritingFollowed ==
    ASSUME Apart, At(1, "prepare") \/ At(1, "write")
    PROVE  Carried'
<1>1. CASE CoreStep(1) \/ Wait(1)
  <2>1. CASE At(1, "prepare")
    <3>1. Prepare(1)
      BY <1>1, <2>1 DEF CoreStep, At, Enter, Fill, Point, Select, Read, ReadResponse, Unfinish, Add,
            Take, Give, Drop, Finish, Queue, Write, Check, SwitchCc, SwitchPd, Wait
    <3>2. PICK w : w = WriteStep
      OBVIOUS
    <3>3. todo'[1] = <<w>>
      BY <2>1, <3>1, <3>2, Facts, AtKinds, OthersMove DEF At
    <3>4. PICK s : s = <<w>>
      OBVIOUS
    <3>5. s # <<>> /\ Head(s) = w
      BY <3>4
    <3>6. w.do = "write"
      BY <3>2, DoOf DEF WriteStep
    <3>7. At(1, "write")'
      BY <3>3, <3>4, <3>5, <3>6 DEF At
    <3>. QED
      BY <3>7 DEF Carried
  <2>2. CASE At(1, "write")
    <3>1. Write(1)
      BY <1>1, <2>2 DEF CoreStep, At, Enter, Fill, Point, Select, Read, ReadResponse, Unfinish, Add,
            Take, Give, Drop, Finish, Queue, Prepare, Check, SwitchCc, SwitchPd, Wait
    <3>2. send_buf.reg = "OPCODE"
      BY <2>2 DEF Apart, Clear1
    <3>3. PICK e \in Opcodes : e = send_buf.opcode
      BY <3>2 DEF Apart, TypeInv, Buffers
    <3>4. commands' \in Accepted(e) /\ commands \in Seq(Opcodes)
      BY <3>1, <3>2, <3>3 DEF Write, Apart, TypeInv, Chip
    <3>5. PICK q \in Seq(Opcodes) : q = commands
      BY <3>4
    <3>6. Append(q, e) # <<>> /\ <<e>> # <<>>
      <4>1. Append(q, e) # <<>>
        BY AppendProperties
      <4>2. <<e>> # <<>>
        OBVIOUS
      <4>. QED
        BY <4>1, <4>2
    <3>7. commands' # <<>>
      BY <3>4, <3>5, <3>6 DEF Accepted
    <3>. QED
      BY <3>7 DEF Carried
  <2>. QED
    BY <2>1, <2>2
<1>2. CASE CoreStep(0) \/ Wait(0)
  <2>1. todo'[1] = todo[1]
    BY <1>2, Facts, StepLinks DEF Apart
  <2>. QED
    BY <2>1 DEF Carried, At
<1>3. CASE Core1Pop
  BY <1>3 DEF Core1Pop, At
<1>4. CASE CableChange \/ PowerMessage \/ ChargerChange \/ Answer \/ UNCHANGED vars
  BY <1>4, ChipSteps DEF Carried, At
<1>. QED
  BY <1>1, <1>2, <1>3, <1>4, Doers DEF Cores

LEMMA CommandFollowed ==
    ASSUME Apart, commands # <<>>
    PROVE  Carried'
<1>1. CASE At(1, "write")
  BY <1>1, WritingFollowed
<1>2. CASE ~At(1, "write")
  <2>1. ASSUME NEW c \in Cores, CoreStep(c) \/ Wait(c) PROVE commands' = commands
    <3>1. ~Write(c)
      <4>1. ASSUME Write(c) PROVE FALSE
        <5>1. todo[c] # <<>> /\ Head(todo[c]).do = "write"
          BY <4>1 DEF Write, At
        <5>2. c = 1
          BY <5>1, Facts, AtKinds
        <5>. QED
          BY <1>2, <5>1, <5>2 DEF At
      <4>. QED
        BY <4>1
    <3>. QED
      BY <2>1, <3>1 DEF CoreStep, Enter, Fill, Point, Select, Read, ReadResponse, Unfinish, Add, Take,
         Give, Drop, Finish, Queue, Prepare, Check, SwitchCc, SwitchPd, Wait, chip
  <2>2. CASE \E c \in Cores : CoreStep(c) \/ Wait(c)
    BY <2>1, <2>2 DEF Carried
  <2>3. CASE Core1Pop
    BY <2>3 DEF Core1Pop, chip, Carried
  <2>4. CASE CableChange \/ PowerMessage \/ ChargerChange \/ Answer \/ UNCHANGED vars
    BY <2>4, ChipSteps DEF Carried
  <2>. QED
    BY <2>2, <2>3, <2>4, Doers
<1>. QED
  BY <1>1, <1>2

\* The interrupt registers are only cleared by the read that core 1 tests at once.
LEMMA InterruptFollowed ==
    ASSUME Apart, "APCmdResI" \in int
    PROVE  Carried'
<1>0. ASSUME Read(0) \/ ReadResponse(0), pointer = "INT" PROVE Carried'
  <2>1. todo[0] # <<>> /\ Head(todo[0]).do \in {"read", "read_response"} /\ 0 \in Cores
    BY <1>0 DEF Read, ReadResponse, At, Cores
  <2>2. Head(todo[0]) \in Steps0
    BY <2>1, Facts, AtKinds, OwnIs
  <2>3. Head(todo[0]).do = "read"
    BY <2>1, <2>2 DEF Steps0
  <2>4. PICK s \in Seq(Steps) : s = todo[0]
    BY <2>1, Facts DEF Todos
  <2>5. HasTake(s) /\ s # <<>> /\ Head(s).do # "take"
    BY <1>0, <2>1, <2>3, <2>4 DEF Apart, Clear0, At
  <2>6. HasTake(Tail(s))
    BY <2>4, <2>5, TailTakes
  <2>7. todo'[0] = Tail(s)
    <3>1. Read(0)
      BY <1>0, <2>3 DEF ReadResponse, At
    <3>. QED
      BY <2>1, <2>4, <3>1, Facts, OthersMove
  <2>. QED
    BY <2>1, <2>6, <2>7 DEF Carried
<1>1. ASSUME NEW c \in Cores, c # 0, Read(c) \/ ReadResponse(c), pointer = "INT" PROVE Carried'
  <2>1. todo[c] # <<>> /\ Head(todo[c]).do \in {"read", "read_response"}
    BY <1>1 DEF Read, ReadResponse, At
  <2>2. c = 1
    BY <1>1 DEF Cores
  <2>3. Read(1) /\ At(1, "read")
    BY <1>1, <2>2 DEF Apart, Clear1, ReadResponse, Read, At
  <2>4. PICK s \in Seq(Steps) : s = todo[1]
    BY Facts DEF Todos
  <2>5. Len(s) >= 2 /\ s[2] = Check1 /\ s # <<>>
    BY <1>1, <2>3, <2>4 DEF Apart, Clear1, At
  <2>6. PICK t : t = Tail(s)
    OBVIOUS
  <2>7. t # <<>> /\ Head(t) = Check1
    <3>1. /\ Len(s) \in Nat /\ t \in Seq(Steps)
          /\ Len(t) = Len(s) - 1 /\ \A i \in 1..Len(s) : i > 1 => t[i - 1] = s[i]
      BY <2>5, <2>6, TailIs
    <3>2. 2 \in 1..Len(s) /\ 2 > 1 /\ 2 - 1 = 1
      BY <2>5, <3>1
    <3>3. t[1] = s[2] /\ Len(t) # 0
      BY <2>5, <3>1, <3>2
    <3>4. t # <<>>
      BY <3>3, EmptySeq
    <3>5. Head(t) = t[1]
      BY <3>1, <3>4, TailIs
    <3>. QED
      BY <2>5, <3>3, <3>4, <3>5
  <2>8. todo'[1] = t
    BY <2>3, <2>4, <2>6, Facts, OthersMove
  <2>9. return_buf'.bits = int
    BY <1>1, <2>3 DEF Read, Registered, Contents
  <2>. QED
    BY <2>7, <2>8, <2>9 DEF Carried, Answered
<1>2. ASSUME NEW c \in Cores, CoreStep(c) \/ Wait(c) PROVE Carried'
  <2>1. CASE (Read(c) \/ ReadResponse(c)) /\ pointer = "INT"
    BY <1>0, <1>1, <2>1
  <2>2. CASE ~((Read(c) \/ ReadResponse(c)) /\ pointer = "INT")
    <3>1. int' = int
      <4>1. CASE Read(c) \/ ReadResponse(c)
        BY <2>2, <4>1 DEF Read, ReadResponse
      <4>2. CASE ~Read(c) /\ ~ReadResponse(c)
        BY <1>2, <4>2 DEF CoreStep, Enter, Fill, Point, Select, Unfinish, Add, Take,
           Give, Drop, Finish, Queue, Prepare, Write, Check, SwitchCc, SwitchPd, Wait, chip
      <4>. QED
        BY <4>1, <4>2
    <3>. QED
      BY <3>1 DEF Carried
  <2>. QED
    BY <2>1, <2>2
<1>3. CASE Core1Pop
  BY <1>3 DEF Core1Pop, chip, Carried
<1>4. CASE CableChange \/ PowerMessage \/ ChargerChange \/ Answer \/ UNCHANGED vars
  BY <1>4, ChipSteps DEF Carried
<1>. QED
  BY <1>2, <1>3, <1>4, Doers

\* The answer that was read is looked for, and its handler fetches the next opcode.
LEMMA AnswerFollowed ==
    ASSUME Apart, Answered
    PROVE  Carried'
<1>1. todo[1] # <<>> /\ Head(todo[1]) = Check1 /\ Head(todo[1]).do = "check" /\ Arg(1) = "APCmdResI"
  BY DoOf DEF Answered, Check1, Arg
<1>2. CASE CoreStep(1) \/ Wait(1)
  <2>1. Check(1)
    BY <1>1, <1>2 DEF CoreStep, At, Enter, Fill, Point, Select, Read, ReadResponse, Unfinish, Add, Take,
          Give, Drop, Finish, Queue, Prepare, Write, SwitchCc, SwitchPd, Wait
  <2>2. return_buf.of = "INT" /\ "APCmdResI" \in return_buf.bits
    BY Facts DEF Answered
  <2>3. ASSUME NEW set \in Tested("APCmdResI") PROVE set = TRUE
    <3>1. Tested("APCmdResI") = {"APCmdResI" \in return_buf.bits}
      BY <2>2 DEF Tested
    <3>2. set = ("APCmdResI" \in return_buf.bits)
      BY <3>1, Zenon
    <3>. QED
      BY <2>2, <3>2, Zenon
  <2>4. PICK t \in Seq(Steps) : t = Tail(todo[1])
    BY <1>1, Facts, HeadKinds
  <2>5. todo'[1] = Handler("APCmdResI") \o t
    <3>1. PICK set \in Tested(Arg(1)) :
              todo'[1] = (IF set THEN Handler(Arg(1)) ELSE <<>>) \o Tail(todo[1])
      BY <2>1, Facts, CheckMoves
    <3>2. set = TRUE
      BY <1>1, <2>3, <3>1
    <3>3. todo'[1] = Handler(Arg(1)) \o Tail(todo[1])
      BY <3>1, <3>2
    <3>. QED
      BY <1>1, <2>4, <3>3
  <2>6. PICK s \in Seq(Steps) : s = OnOpcodeCmdResponse
    BY FreshResponse DEF Fresh
  <2>7. HasTake(s)
    BY <2>6, ResponseBlock
  <2>8. HasTake(todo'[1])
    BY <2>4, <2>5, <2>6, <2>7, CatTakes DEF Handler
  <2>. QED
    BY <2>8, Facts DEF Carried
<1>3. CASE CoreStep(0) \/ Wait(0)
  <2>1. UNCHANGED <<return_buf, todo[1]>>
    BY <1>1, <1>3, Facts, Exclusive DEF Apart, Decisions
  <2>. QED
    BY <1>1, <2>1 DEF Carried, Answered
<1>4. CASE Core1Pop
  BY <1>1, <1>4 DEF Core1Pop
<1>5. CASE CableChange \/ PowerMessage \/ ChargerChange \/ Answer \/ UNCHANGED vars
  BY <1>5, ChipSteps DEF Carried, Answered
<1>. QED
  BY <1>2, <1>3, <1>4, <1>5, Doers DEF Cores

\* The function that adds an opcode goes on to opcode_queue_pop.
LEMMA AddedFollowed ==
    ASSUME Apart, opcode_queue = <<>>
    PROVE  Carried'
<1>1. PICK c \in Cores : Add(c)
  <2>1. ASSUME NEW c \in Cores, CoreStep(c) \/ Wait(c), ~Add(c) PROVE FALSE
    <3>1. opcode_queue' = opcode_queue
      BY <2>1 DEF Apart, CoreStep, Enter, Fill, Point, Select, Read, ReadResponse, Unfinish, Take,
         Give, Drop, Finish, Queue, Prepare, Write, Check, SwitchCc, SwitchPd, Wait, queues
    <3>. QED
      BY <3>1 DEF Apart
  <2>2. ~Core1Pop
    BY DEF Core1Pop, Apart
  <2>3. ~(CableChange \/ PowerMessage \/ ChargerChange \/ Answer \/ UNCHANGED vars)
    BY ChipSteps DEF Apart
  <2>. QED
    BY <2>1, <2>2, <2>3, Doers
<1>2. todo[c] # <<>> /\ Head(todo[c]).do = "add"
  BY <1>1 DEF Add, At
<1>3. PICK s \in Seq(Steps) : s = todo[c]
  BY Facts DEF Todos
<1>4. Block(s, Own(c))
  BY <1>2, <1>3, Facts, AtKinds
<1>5. PICK t : t = Tail(s)
  OBVIOUS
<1>6. HasTake(t)
  <2>1. /\ Head(s) = s[1] /\ Len(s) \in Nat /\ Len(s) >= 1
        /\ Len(t) = Len(s) - 1 /\ \A i \in 1..Len(s) : i > 1 => t[i - 1] = s[i]
    BY <1>2, <1>3, <1>5, TailIs
  <2>2. 1 \in 1..Len(s) /\ s[1].do = "add"
    BY <1>2, <1>3, <2>1
  <2>3. PICK j \in 1..Len(s) : j > 1 /\ s[j].do = "take"
    BY <1>4, <2>2 DEF Block, Served
  <2>4. j - 1 \in 1..Len(t) /\ t[j - 1] = s[j]
    BY <2>1, <2>3
  <2>. QED
    BY <2>3, <2>4 DEF HasTake
<1>7. todo'[c] = t
  BY <1>1, <1>3, <1>5, Facts, OthersMove
<1>. QED
  BY <1>6, <1>7 DEF Carried

LEMMA FollowedKept ==
    ASSUME TypeInv, Links, Undisturbed, Followed, [Next]_vars
    PROVE  Followed'
<1>. SUFFICES ASSUME opcode_queue' # <<>>, drops' = 0, ~Clashed' PROVE Carried'
  BY DEF Followed
<1>1. ~Clashed /\ ~Clash /\ ~Clash'
  BY ClashedStays DEF Clashed
<1>2. drops = 0
  <2>1. drops \in Nat
    BY MAX77958Assumption DEF TypeInv, Flags
  <2>2. drops' = drops \/ drops' = drops + 1
    BY DEF Next, vars, CoreStep, Enter, Fill, Point, Select, Read, ReadResponse, Unfinish, Add, Take,
       Give, Drop, Finish, Queue, Prepare, Write, Check, SwitchCc, SwitchPd, Wait, Core1Pop,
       CableChange, PowerMessage, ChargerChange, Answer, Happens
  <2>. QED
    BY <2>1, <2>2
<1>3. Apart
  BY <1>1, <1>2 DEF Apart, Undisturbed
<1>4. CASE opcode_queue = <<>>
  BY <1>3, <1>4, AddedFollowed
<1>5. CASE opcode_queue # <<>>
  <2>1. Carried
    BY <1>1, <1>2, <1>5 DEF Followed
  <2>. QED
    BY <1>3, <2>1, QueuedFollowed, TakingFollowed, GivingFollowed, WritingFollowed, CommandFollowed,
       InterruptFollowed, AnswerFollowed DEF Carried
<1>. QED
  BY <1>4, <1>5

LEMMA CarriedIsUnderWay ==
    ASSUME TypeInv, Carried
    PROVE  UnderWay(Cores)
<1>1. Todos /\ Queues
  BY DEF TypeInv
<1>2. CASE In(call_queue) # {}
  <2>1. PICK i \in 1..Len(call_queue) : call_queue[i] \in Opcodes
    BY <1>2 DEF In
  <2>. QED
    BY <2>1, OpcodeFacts DEF UnderWay
<1>3. ASSUME NEW c \in Cores, NEW do, todo[c] # <<>>, Head(todo[c]).do = do PROVE Ahead(c, do)
  <2>1. PICK s \in Seq(Steps) : s = todo[c]
    BY <1>1 DEF Todos
  <2>2. Head(s) = s[1] /\ 1 \in 1..Len(s)
    BY <1>3, <2>1, TailIs
  <2>. QED
    BY <1>3, <2>1, <2>2 DEF Ahead
<1>4. CASE \E c \in Cores : HasTake(todo[c])
  BY <1>4 DEF HasTake, Ahead, UnderWay
<1>5. CASE \E c \in Cores : At(c, "give")
  BY <1>3, <1>5 DEF At, UnderWay
<1>6. CASE At(1, "prepare") \/ At(1, "write")
  <2>1. 1 \in Cores
    BY DEF Cores
  <2>. QED
    BY <1>3, <1>6, <2>1 DEF At, UnderWay
<1>7. CASE commands # <<>> \/ "APCmdResI" \in int
  BY <1>7 DEF UnderWay
<1>8. CASE Answered
  <2>1. PICK s \in Seq(Steps) : s = todo[1]
    BY <1>1 DEF Todos, Cores
  <2>2. Head(s) = s[1] /\ 1 \in 1..Len(s)
    BY <1>8, <2>1, TailIs DEF Answered
  <2>3. s[1] = Step("check", "APCmdResI")
    BY <1>8, <2>1, <2>2 DEF Answered, Check1
  <2>4. AnswerRead
    BY <1>8, <2>1, <2>2, <2>3 DEF Answered, AnswerRead
  <2>. QED
    BY <2>4 DEF UnderWay
<1>. QED
  BY <1>2, <1>4, <1>5, <1>6, <1>7, <1>8 DEF Carried

Strands == TypeInv /\ Links /\ Undisturbed /\ Followed

\* While an opcode waits in opcode_queue, something is under way that ends in
\* opcode_queue_pop, unless an opcode was dropped or the cores met: nobody polls the
\* queue, so an opcode with nothing under way would wait for ever.
THEOREM OpcodeIsFollowedUp == Spec => []NoOpcodeStranded
<1>1. Init => Strands
  <2>1. Init => Followed
    BY DEF Init, Followed
  <2>. QED
    BY <2>1, TypeInit, LinksInit, UndisturbedInit DEF Strands
<1>2. Strands /\ [Next]_vars => Strands'
  BY TypeNext, LinksKept, UndisturbedKept, FollowedKept DEF Strands
<1>3. Strands => NoOpcodeStranded
  BY CarriedIsUnderWay DEF Strands, Followed, NoOpcodeStranded
<1>. QED
  BY <1>1, <1>2, <1>3, PTL DEF Spec

-----------------------------------------------------------------------------
(* The opcode of a self-test and its answer: what stands behind a step.      *)

\* The second half of a function stands only behind the first.
Chain(a, b) ==
    /\ b.do = "add" => a.do = "unfinish"
    /\ b.do = "take" => a.do \in {"add", "read_response"}
    /\ b.do \in {"finish", "wait"} => a.do \in {"take", "give"}
    /\ b.do = "write" => a.do = "prepare"
    /\ b.do \notin {"give", "prepare", "point"}
    /\ a.do = "read_response" => b.do = "take"
    /\ a.do = "unfinish" => b.do = "add"
Chained(s) == \A i \in 1..Len(s) : i > 1 => Chain(s[i - 1], s[i])
Ended(s) == s # <<>> => s[Len(s)].do \notin {"read_response", "unfinish"}
Untested(s) == \A i \in 1..Len(s) : s[i] # Check1

\* A function from its first step to its last.
Part(s, a, z) ==
    /\ s \in Seq(Steps) /\ s # <<>> /\ Chained(s) /\ Untested(s)
    /\ s[1] = a /\ s[Len(s)] = z

LEMMA ChainedCat ==
    ASSUME NEW s \in Seq(Steps), NEW t \in Seq(Steps), Chained(s), Chained(t),
           s # <<>> /\ t # <<>> => Chain(s[Len(s)], t[1])
    PROVE  Chained(s \o t)
<1>1. PICK u : u = s \o t
  OBVIOUS
<1>2. Joins(u, s, t)
  BY <1>1, After
<1>3. PICK m \in Nat, n \in Nat : m = Len(s) /\ n = Len(t)
  OBVIOUS
<1>4. /\ Len(u) = m + n
      /\ \A i \in 1..m : u[i] = s[i]
      /\ \A i \in 1..n, j \in Int : j = m + i => u[j] = t[i]
  BY <1>2, <1>3 DEF Joins
<1>5. ASSUME NEW i \in 1..(m + n), i > 1 PROVE Chain(u[i - 1], u[i])
  <2>1. CASE i <= m
    <3>1. i \in 1..m /\ i - 1 \in 1..m
      BY <1>5, <2>1
    <3>2. u[i] = s[i] /\ u[i - 1] = s[i - 1]
      BY <1>4, <3>1
    <3>. QED
      BY <1>3, <1>5, <3>1, <3>2 DEF Chained
  <2>2. CASE i = m + 1
    <3>1. n >= 1 /\ u[i] = t[1] /\ m >= 1 /\ i - 1 = m /\ u[m] = s[m]
      BY <1>4, <1>5, <2>2
    <3>2. s # <<>> /\ t # <<>>
      BY <1>3, <3>1, EmptySeq
    <3>. QED
      BY <1>3, <3>1, <3>2
  <2>3. CASE i > m + 1
    <3>1. PICK k \in 1..n : i = m + k
      <4>1. i - m \in 1..n /\ i = m + (i - m)
        BY <1>5, <2>3
      <4>. QED
        BY <4>1
    <3>2. k > 1 /\ k - 1 \in 1..n /\ i - 1 = m + (k - 1)
      BY <2>3, <3>1
    <3>3. u[i] = t[k] /\ u[i - 1] = t[k - 1]
      BY <1>4, <1>5, <3>1, <3>2
    <3>. QED
      BY <1>3, <3>1, <3>2, <3>3 DEF Chained
  <2>. QED
    BY <1>5, <2>1, <2>2, <2>3
<1>6. Chained(u)
  BY <1>4, <1>5 DEF Chained
<1>. QED
  BY <1>1, <1>6

\* The ends of two lists put together, and that neither looks for an answer.
LEMMA CatEnds ==
    ASSUME NEW s \in Seq(Steps), NEW t \in Seq(Steps), NEW u \in Seq(Steps), Joins(u, s, t)
    PROVE  /\ s # <<>> => u # <<>> /\ u[1] = s[1]
           /\ t # <<>> => u # <<>> /\ u[Len(u)] = t[Len(t)]
           /\ Untested(s) /\ Untested(t) => Untested(u)
<1>1. u \in Seq(Steps) /\ Joins(u, s, t)
  OBVIOUS
<1>2. PICK m \in Nat, n \in Nat : m = Len(s) /\ n = Len(t)
  OBVIOUS
<1>3. /\ Len(u) = m + n
      /\ \A i \in 1..m : u[i] = s[i]
      /\ \A i \in 1..n, j \in Int : j = m + i => u[j] = t[i]
  BY <1>1, <1>2 DEF Joins
<1>4. ASSUME s # <<>> PROVE u # <<>> /\ u[1] = s[1]
  <2>1. m >= 1
    BY <1>2, <1>4, EmptySeq
  <2>. QED
    BY <1>1, <1>3, <2>1, EmptySeq
<1>5. ASSUME t # <<>> PROVE u # <<>> /\ u[Len(u)] = t[Len(t)]
  <2>1. n >= 1
    BY <1>2, <1>5, EmptySeq
  <2>2. n \in 1..n /\ m + n \in Int
    BY <2>1
  <2>. QED
    BY <1>1, <1>2, <1>3, <2>1, <2>2, EmptySeq
<1>6. ASSUME Untested(s), Untested(t), NEW i \in 1..(m + n) PROVE u[i] # Check1
  <2>1. CASE i <= m
    BY <1>2, <1>3, <1>6, <2>1 DEF Untested
  <2>2. CASE i > m
    <3>1. PICK k \in 1..n : i = m + k
      <4>1. i - m \in 1..n /\ i = m + (i - m)
        BY <1>6, <2>2
      <4>. QED
        BY <4>1
    <3>2. u[i] = t[k]
      BY <1>3, <1>6, <3>1
    <3>3. t[k] # Check1
      BY <1>2, <1>6 DEF Untested
    <3>. QED
      BY <3>2, <3>3
  <2>. QED
    BY <1>2, <1>6, <2>1, <2>2
<1>7. Untested(s) /\ Untested(t) => Untested(u)
  BY <1>3, <1>6 DEF Untested
<1>. QED
  BY <1>4, <1>5, <1>7

LEMMA PartCat ==
    ASSUME NEW s, NEW a, NEW y, Part(s, a, y), NEW t, NEW b, NEW z, Part(t, b, z), Chain(y, b)
    PROVE  Part(s \o t, a, z)
<1>1. PICK u : u = s \o t
  OBVIOUS
<1>2. s \in Seq(Steps) /\ t \in Seq(Steps) /\ s # <<>> /\ t # <<>> /\ Untested(s) /\ Untested(t)
  BY DEF Part
<1>3. u \in Seq(Steps) /\ Joins(u, s, t)
  BY <1>1, <1>2, After
<1>4. u # <<>> /\ u[1] = s[1] /\ u[Len(u)] = t[Len(t)] /\ Untested(u)
  BY <1>2, <1>3, CatEnds
<1>5. Chained(u)
  BY <1>1, <1>2, ChainedCat DEF Part
<1>6. Part(u, a, z)
  BY <1>2, <1>3, <1>4, <1>5 DEF Part
<1>. QED
  BY <1>1, <1>6

LEMMA PartOne ==
    ASSUME NEW x \in Steps, x # Check1
    PROVE  Part(<<x>>, x, x)
<1>1. PICK s : s = <<x>>
  OBVIOUS
<1>2. s \in Seq(Steps) /\ Len(s) = 1 /\ s[1] = x /\ s # <<>>
  BY <1>1
<1>3. Part(s, x, x)
  BY <1>2 DEF Part, Chained, Untested
<1>. QED
  BY <1>1, <1>3

LEMMA PartTwo ==
    ASSUME NEW x \in Steps, NEW y \in Steps, x # Check1, y # Check1, Chain(x, y)
    PROVE  Part(<<x, y>>, x, y)
<1>1. PICK s : s = <<x, y>>
  OBVIOUS
<1>2. s \in Seq(Steps) /\ Len(s) = 2 /\ s[1] = x /\ s[2] = y /\ s # <<>>
  BY <1>1
<1>3. Chained(s) /\ Untested(s)
  BY <1>2 DEF Chained, Untested
<1>4. Part(s, x, y)
  BY <1>2, <1>3 DEF Part
<1>. QED
  BY <1>1, <1>4

LEMMA PartThree ==
    ASSUME NEW x \in Steps, NEW y \in Steps, NEW z \in Steps,
           x # Check1, y # Check1, z # Check1, Chain(x, y), Chain(y, z)
    PROVE  Part(<<x, y, z>>, x, z)
<1>1. PICK s : s = <<x, y, z>>
  OBVIOUS
<1>2. s \in Seq(Steps) /\ Len(s) = 3 /\ s[1] = x /\ s[2] = y /\ s[3] = z /\ s # <<>>
  BY <1>1
<1>3. Chained(s) /\ Untested(s)
  BY <1>2 DEF Chained, Untested
<1>4. Part(s, x, z)
  BY <1>2, <1>3 DEF Part
<1>. QED
  BY <1>1, <1>4

LEMMA ChainedTail ==
    ASSUME NEW s \in Seq(Steps), s # <<>>, Chained(s), Ended(s), NEW t, t = Tail(s)
    PROVE  /\ t \in Seq(Steps) /\ Chained(t) /\ Ended(t)
           /\ t # <<>> => t[1] = Head(t) /\ Chain(Head(s), Head(t))
           /\ Untested(s) => Untested(t)
           /\ t = <<>> => Head(s).do \notin {"read_response", "unfinish"}
<1>1. /\ Head(s) = s[1] /\ Len(s) \in Nat /\ Len(s) >= 1 /\ t \in Seq(Steps)
      /\ Len(t) = Len(s) - 1 /\ \A i \in 1..Len(s) : i > 1 => t[i - 1] = s[i]
  BY TailIs
<1>2. PICK n \in Nat : n = Len(t)
  <2>1. Len(t) \in Nat
    BY <1>1, LenProperties
  <2>. QED
    BY <2>1
<1>3. Len(s) = n + 1 /\ \A i \in 1..n : i + 1 \in 1..Len(s) /\ t[i] = s[i + 1]
  <2>1. Len(s) = n + 1
    BY <1>1, <1>2
  <2>2. \A i \in 1..n : i + 1 \in 1..Len(s) /\ i + 1 > 1 /\ (i + 1) - 1 = i
    BY <2>1
  <2>. QED
    BY <1>1, <2>1, <2>2
<1>4. ASSUME NEW i \in 1..n, i > 1 PROVE Chain(t[i - 1], t[i])
  <2>1. i - 1 \in 1..n /\ (i - 1) + 1 = i /\ (i + 1) - 1 = i /\ i + 1 \in 1..Len(s) /\ i + 1 > 1
    BY <1>3, <1>4
  <2>2. t[i] = s[i + 1] /\ t[i - 1] = s[i]
    BY <1>3, <2>1
  <2>. QED
    BY <2>1, <2>2 DEF Chained
<1>5. Chained(t)
  BY <1>2, <1>4 DEF Chained
<1>6. ASSUME t # <<>> PROVE t[1] = Head(t) /\ Chain(Head(s), Head(t)) /\ t[Len(t)] = s[Len(s)]
  <2>1. n >= 1 /\ t[1] = Head(t)
    BY <1>1, <1>2, <1>6, TailIs
  <2>2. t[1] = s[2] /\ 2 \in 1..Len(s) /\ 2 > 1 /\ 2 - 1 = 1 /\ t[n] = s[n + 1]
    BY <1>3, <2>1
  <2>3. Chain(s[1], s[2])
    BY <2>2 DEF Chained
  <2>. QED
    BY <1>1, <1>2, <1>3, <2>1, <2>2, <2>3
<1>7. Ended(t)
  BY <1>6 DEF Ended
<1>8. Untested(s) => Untested(t)
  BY <1>2, <1>3 DEF Untested
<1>9. ASSUME t = <<>> PROVE Head(s).do \notin {"read_response", "unfinish"}
  <2>1. Len(s) = 1
    <3>1. Len(t) = 0
      BY <1>1, <1>9, EmptySeq
    <3>. QED
      BY <1>1, <3>1
  <2>. QED
    BY <1>1, <2>1 DEF Ended
<1>. QED
  BY <1>1, <1>5, <1>6, <1>7, <1>8, <1>9

\* The functions.
LEMMA StepKinds ==
    /\ \A reg \in Registers : Step("fill", reg) \in Steps
    /\ \A op \in Ops : Step("add", op) \in Steps
    /\ \A bit \in Ints : Step("check", bit) \in Steps
    /\ Step("point", "OPCODE_READ") \in Steps /\ Step("queue", "pd_msg_response") \in Steps
    /\ \A do \in Transfers \cup {"unfinish", "take", "give", "finish", "prepare", "switch_cc",
                                 "switch_pd", "wait"} : Step(do, "") \in Steps
    /\ \A do, arg : do # "check" => Step(do, arg) # Check1
<1>1. \A do, arg : do # "check" => Step(do, arg) # Check1
  BY DoOf DEF Check1
<1>. QED
  BY <1>1 DEF Steps

LEMMA PartStep ==
    ASSUME NEW do, NEW arg, Step(do, arg) \in Steps, do # "check"
    PROVE  Part(<<Step(do, arg)>>, Step(do, arg), Step(do, arg))
<1>1. PICK x \in Steps : x = Step(do, arg)
  OBVIOUS
<1>2. x # Check1
  BY <1>1, StepKinds
<1>3. Part(<<x>>, x, x)
  BY <1>2, PartOne
<1>. QED
  BY <1>1, <1>3

LEMMA PartFetch ==
    \A reg \in Registers : Part(Fetch(reg), Step("fill", reg), Step("read", ""))
<1>. SUFFICES ASSUME NEW reg \in Registers
              PROVE  Part(Fetch(reg), Step("fill", reg), Step("read", ""))
  OBVIOUS
<1>1. PICK x \in Steps, y \in Steps, z \in Steps :
          x = Step("fill", reg) /\ y = Step("select", "") /\ z = Step("read", "")
  BY StepKinds DEF Transfers
<1>2. x.do = "fill" /\ y.do = "select" /\ z.do = "read"
  BY <1>1, DoOf
<1>3. x # Check1 /\ y # Check1 /\ z # Check1
  BY <1>1, StepKinds
<1>4. Part(<<x, y, z>>, x, z)
  BY <1>2, <1>3, PartThree DEF Chain
<1>. QED
  BY <1>1, <1>4 DEF Fetch

LEMMA PartOpcodeRead ==
    Part(OpcodeRead, Step("point", "OPCODE_READ"), Step("read_response", ""))
<1>1. PICK x \in Steps, y \in Steps, z \in Steps :
          x = Step("point", "OPCODE_READ") /\ y = Step("select", "") /\ z = Step("read_response", "")
  BY StepKinds DEF Transfers
<1>2. x.do = "point" /\ y.do = "select" /\ z.do = "read_response"
  BY <1>1, DoOf
<1>3. x # Check1 /\ y # Check1 /\ z # Check1
  BY <1>1, StepKinds
<1>4. Part(<<x, y, z>>, x, z)
  BY <1>2, <1>3, PartThree DEF Chain
<1>. QED
  BY <1>1, <1>4 DEF OpcodeRead

LEMMA PartAdd ==
    \A op \in Ops : Part(OpcodeQueueAdd(op), Step("unfinish", ""), Step("add", op))
<1>. SUFFICES ASSUME NEW op \in Ops
              PROVE  Part(OpcodeQueueAdd(op), Step("unfinish", ""), Step("add", op))
  OBVIOUS
<1>1. PICK x \in Steps, y \in Steps : x = Step("unfinish", "") /\ y = Step("add", op)
  BY StepKinds
<1>2. x.do = "unfinish" /\ y.do = "add"
  BY <1>1, DoOf
<1>3. x # Check1 /\ y # Check1
  BY <1>1, StepKinds
<1>4. Part(<<x, y>>, x, y)
  BY <1>2, <1>3, PartTwo DEF Chain
<1>. QED
  BY <1>1, <1>4 DEF OpcodeQueueAdd

LEMMA PartFunction == Part(OpcodeFunction, PrepareStep, WriteStep)
<1>1. PICK x \in Steps, y \in Steps : x = Step("prepare", "") /\ y = Step("write", "")
  BY StepKinds DEF Transfers
<1>2. x.do = "prepare" /\ y.do = "write"
  BY <1>1, DoOf
<1>3. x # Check1 /\ y # Check1
  BY <1>1, StepKinds
<1>4. Part(<<x, y>>, x, y)
  BY <1>2, <1>3, PartTwo DEF Chain
<1>. QED
  BY <1>1, <1>4 DEF OpcodeFunction, PrepareStep, WriteStep

LEMMA PartSteps ==
    /\ Part(OpcodeQueuePop, Step("take", ""), Step("take", ""))
    /\ \A do \in {"switch_cc", "switch_pd", "wait", "finish", "give"} :
           Part(<<Step(do, "")>>, Step(do, ""), Step(do, ""))
    /\ Part(OnPdMsgReceived, Step("queue", "pd_msg_response"), Step("queue", "pd_msg_response"))
<1>1. \A do \in {"switch_cc", "switch_pd", "wait", "finish", "take", "give"} :
          Part(<<Step(do, "")>>, Step(do, ""), Step(do, ""))
  <2>. SUFFICES ASSUME NEW do \in {"switch_cc", "switch_pd", "wait", "finish", "take", "give"}
                PROVE  Part(<<Step(do, "")>>, Step(do, ""), Step(do, ""))
    OBVIOUS
  <2>. QED
    BY StepKinds, PartStep
<1>2. Part(<<Step("queue", "pd_msg_response")>>, Step("queue", "pd_msg_response"),
           Step("queue", "pd_msg_response"))
  BY StepKinds, PartStep
<1>. QED
  BY <1>1, <1>2 DEF OpcodeQueuePop, OnPdMsgReceived

\* Which step may stand behind the last one of a function.
LEMMA Behind ==
    /\ \A op \in Ops : Chain(Step("add", op), Step("take", ""))
    /\ \A op \in Ops : Chain(Step("add", op), Step("unfinish", ""))
    /\ Chain(Step("read_response", ""), Step("take", ""))
    /\ Chain(Step("take", ""), Step("finish", "")) /\ Chain(Step("take", ""), Step("wait", ""))
    /\ \A reg : Chain(Step("take", ""), Step("fill", reg))
    /\ Chain(Step("wait", ""), Step("unfinish", ""))
    /\ Chain(Step("read", ""), Step("unfinish", ""))
    /\ Chain(Step("read", ""), Step("switch_cc", "")) /\ Chain(Step("read", ""), Step("switch_pd", ""))
<1>1. ASSUME NEW do1, NEW arg1, NEW do2, NEW arg2,
             \/ do1 = "add" /\ do2 \in {"take", "unfinish"}
             \/ do1 = "read_response" /\ do2 = "take"
             \/ do1 = "take" /\ do2 \in {"finish", "wait", "fill"}
             \/ do1 = "wait" /\ do2 = "unfinish"
             \/ do1 = "read" /\ do2 \in {"unfinish", "switch_cc", "switch_pd"}
      PROVE  Chain(Step(do1, arg1), Step(do2, arg2))
  <2>1. PICK a, b : a = Step(do1, arg1) /\ b = Step(do2, arg2)
    OBVIOUS
  <2>2. a.do = do1 /\ b.do = do2
    BY <2>1, DoOf
  <2>3. Chain(a, b)
    BY <1>1, <2>2 DEF Chain
  <2>. QED
    BY <2>1, <2>3
<1>. QED
  BY <1>1

LEMMA PartVbus ==
    /\ Part(VbusTurnOff, Step("unfinish", ""), Step("take", ""))
    /\ Part(VbusTurnOn, Step("unfinish", ""), Step("take", ""))
<1>1. ASSUME NEW op \in Ops
      PROVE  Part(OpcodeQueueAdd(op) \o OpcodeQueuePop, Step("unfinish", ""), Step("take", ""))
  BY PartAdd, PartSteps, Behind, PartCat
<1>2. "off" \in Ops /\ "on" \in Ops
  BY DEF Ops
<1>. QED
  BY <1>1, <1>2 DEF VbusTurnOff, VbusTurnOn

LEMMA PartSwitches ==
    /\ Part(OnCcstatChange, Step("fill", "CC_STATUS"), Step("switch_cc", ""))
    /\ Part(PdMsgResponse, Step("fill", "PD_STATUS"), Step("switch_pd", ""))
<1>1. "CC_STATUS" \in Registers /\ "PD_STATUS" \in Registers
  BY DEF Registers
<1>2. Part(Fetch("CC_STATUS") \o <<Step("switch_cc", "")>>, Step("fill", "CC_STATUS"), Step("switch_cc", ""))
  BY <1>1, PartFetch, PartSteps, Behind, PartCat
<1>3. Part(Fetch("PD_STATUS") \o <<Step("switch_pd", "")>>, Step("fill", "PD_STATUS"), Step("switch_pd", ""))
  BY <1>1, PartFetch, PartSteps, Behind, PartCat
<1>. QED
  BY <1>2, <1>3 DEF OnCcstatChange, PdMsgResponse

LEMMA PartInit == Part(Max77958Init, Step("fill", "INT"), Step("switch_cc", ""))
<1>1. PICK h, a, b, c, d, e :
          /\ h = Fetch("INT") /\ a = OpcodeQueueAdd("low") /\ b = OpcodeQueueAdd("off")
          /\ c = OpcodeQueueAdd("config") /\ d = OpcodeQueuePop /\ e = OnCcstatChange
  OBVIOUS
<1>2. PICK i, r, u, l, o, g, k, f, w :
          /\ i = Step("fill", "INT") /\ r = Step("read", "")
          /\ u = Step("unfinish", "") /\ l = Step("add", "low") /\ o = Step("add", "off")
          /\ g = Step("add", "config") /\ k = Step("take", "") /\ f = Step("fill", "CC_STATUS")
          /\ w = Step("switch_cc", "")
  OBVIOUS
<1>3. /\ Part(h, i, r) /\ Part(a, u, l) /\ Part(b, u, o) /\ Part(c, u, g)
      /\ Part(d, k, k) /\ Part(e, f, w)
  BY <1>1, <1>2, PartFetch, PartAdd, PartSteps, PartSwitches DEF Ops, Registers
<1>4. Chain(r, u) /\ Chain(l, u) /\ Chain(o, u) /\ Chain(g, k) /\ Chain(k, f)
  BY <1>2, Behind DEF Ops
<1>5. Part(h \o a, i, l)
  BY <1>3, <1>4, PartCat
<1>6. Part(h \o a \o b, i, o)
  BY <1>3, <1>4, <1>5, PartCat
<1>7. Part(h \o a \o b \o c, i, g)
  BY <1>3, <1>4, <1>6, PartCat
<1>8. Part(h \o a \o b \o c \o d, i, k)
  BY <1>3, <1>4, <1>7, PartCat
<1>9. Part(h \o a \o b \o c \o d \o e, i, w)
  BY <1>3, <1>4, <1>8, PartCat
<1>10. Max77958Init = h \o a \o b \o c \o d \o e
  BY <1>1 DEF Max77958Init
<1>. QED
  BY <1>2, <1>9, <1>10

LEMMA PartTest == Part(OpcodeTest, Step("unfinish", ""), Step("wait", ""))
<1>1. "read" \in Ops
  BY DEF Ops
<1>2. Part(OpcodeQueueAdd("read") \o OpcodeQueuePop, Step("unfinish", ""), Step("take", ""))
  BY <1>1, PartAdd, PartSteps, Behind, PartCat
<1>3. Part(OpcodeQueueAdd("read") \o OpcodeQueuePop \o <<Step("wait", "")>>,
           Step("unfinish", ""), Step("wait", ""))
  BY <1>2, PartSteps, Behind, PartCat
<1>. QED
  BY <1>3 DEF OpcodeTest

LEMMA PartResponse == Part(OnOpcodeCmdResponse, Step("point", "OPCODE_READ"), Step("finish", ""))
<1>1. Part(OpcodeRead \o OpcodeQueuePop, Step("point", "OPCODE_READ"), Step("take", ""))
  BY PartOpcodeRead, PartSteps, Behind, PartCat
<1>2. Part(OpcodeRead \o OpcodeQueuePop \o <<Step("finish", "")>>,
           Step("point", "OPCODE_READ"), Step("finish", ""))
  BY <1>1, PartSteps, Behind, PartCat
<1>. QED
  BY <1>2 DEF OnOpcodeCmdResponse

\* A function that begins with one of these steps and ends with none that needs another.
Begins(s, dos) == \E a, z : Part(s, a, z) /\ a.do \in dos /\ z.do \notin {"read_response", "unfinish"}

LEMMA BeginsCalls ==
    /\ \A call \in Calls : Begins(Core0Body(call), {"unfinish", "fill"})
    /\ Begins(VbusTurnOff, {"unfinish"}) /\ Begins(VbusTurnOn, {"unfinish"})
    /\ Begins(OnOpcodeCmdResponse, {"point"})
    /\ \A bit \in Ints : bit # "APCmdResI" => Begins(Handler(bit), {"fill", "queue"})
    /\ Begins(PdMsgResponse, {"fill"}) /\ Begins(OpcodeFunction, {"prepare"})
    /\ Begins(<<GiveStep>>, {"give"})
<1>1. ASSUME NEW s, NEW do1, NEW arg1, NEW do2, NEW arg2,
             Part(s, Step(do1, arg1), Step(do2, arg2)), do2 # "read_response", do2 # "unfinish",
             NEW dos, do1 \in dos
      PROVE  Begins(s, dos)
  <2>1. PICK a, z : a = Step(do1, arg1) /\ z = Step(do2, arg2)
    OBVIOUS
  <2>2. Part(s, a, z)
    BY <1>1, <2>1
  <2>3. a.do = do1 /\ z.do = do2
    BY <2>1, DoOf
  <2>. QED
    BY <1>1, <2>2, <2>3 DEF Begins
<1>2. ASSUME NEW call \in Calls PROVE Begins(Core0Body(call), {"unfinish", "fill"})
  <2>1. Begins(Max77958Init, {"unfinish", "fill"})
    BY <1>1, PartInit
  <2>2. Begins(OpcodeTest, {"unfinish", "fill"})
    BY <1>1, PartTest
  <2>3. Begins(SnkPdoRequestTest, {"unfinish", "fill"})
    <3>1. Part(OpcodeTest \o OpcodeTest, Step("unfinish", ""), Step("wait", ""))
      BY PartTest, Behind, PartCat
    <3>. QED
      BY <1>1, <3>1 DEF SnkPdoRequestTest
  <2>4. Begins(ReadRegister, {"unfinish", "fill"})
    <3>1. Part(Fetch("OTHER"), Step("fill", "OTHER"), Step("read", ""))
      BY PartFetch DEF Registers
    <3>. QED
      BY <1>1, <3>1 DEF ReadRegister
  <2>. QED
    BY <2>1, <2>2, <2>3, <2>4 DEF Core0Body, Calls
<1>3. Begins(VbusTurnOff, {"unfinish"}) /\ Begins(VbusTurnOn, {"unfinish"})
  BY <1>1, PartVbus
<1>4. Begins(OnOpcodeCmdResponse, {"point"})
  BY <1>1, PartResponse
<1>5. ASSUME NEW bit \in Ints, bit # "APCmdResI" PROVE Begins(Handler(bit), {"fill", "queue"})
  <2>1. Begins(OnPdMsgReceived, {"fill", "queue"})
    BY <1>1, PartSteps
  <2>2. Begins(OnChgtypeChange, {"fill", "queue"})
    <3>1. Part(Fetch("BC_STATUS"), Step("fill", "BC_STATUS"), Step("read", ""))
      BY PartFetch DEF Registers
    <3>. QED
      BY <1>1, <3>1 DEF OnChgtypeChange
  <2>3. Begins(OnCcstatChange, {"fill", "queue"})
    BY <1>1, PartSwitches
  <2>. QED
    BY <1>5, <2>1, <2>2, <2>3 DEF Handler, Ints
<1>6. Begins(PdMsgResponse, {"fill"})
  BY <1>1, PartSwitches
<1>7. Begins(OpcodeFunction, {"prepare"})
  BY <1>1, PartFunction DEF PrepareStep, WriteStep
<1>8. Begins(<<GiveStep>>, {"give"})
  <2>1. Part(<<Step("give", "")>>, Step("give", ""), Step("give", ""))
    BY PartSteps
  <2>. QED
    BY <1>1, <2>1 DEF GiveStep
<1>. QED
  BY <1>2, <1>3, <1>4, <1>5, <1>6, <1>7, <1>8

LEMMA BeginsCat ==
    ASSUME NEW s, NEW dos, Begins(s, dos), NEW t \in Seq(Steps), t # <<>>, Chained(t), Ended(t),
           \/ Head(t).do \in {"call", "check", "switch_cc", "switch_pd"}
           \/ Head(t).do = "take" /\ s = <<GiveStep>>,
           NEW u, u = s \o Tail(t)
    PROVE  /\ Chained(u) /\ Ended(u) /\ u # <<>> /\ Head(u).do \in dos
           /\ Untested(Tail(t)) => Untested(u)
<1>1. PICK r : r = Tail(t)
  OBVIOUS
<1>2. /\ r \in Seq(Steps) /\ Chained(r) /\ Ended(r)
      /\ r # <<>> => r[1] = Head(r) /\ Chain(Head(t), Head(r))
  BY <1>1, ChainedTail
<1>3. PICK a, z : Part(s, a, z) /\ a.do \in dos /\ z.do \notin {"read_response", "unfinish"}
  BY DEF Begins
<1>4. s \in Seq(Steps) /\ s # <<>> /\ Chained(s) /\ Untested(s) /\ s[1] = a /\ s[Len(s)] = z
  BY <1>3 DEF Part
<1>5. ASSUME r # <<>> PROVE Chain(s[Len(s)], r[1])
  <2>1. CASE Head(t).do \in {"call", "check", "switch_cc", "switch_pd"}
    <3>1. PICK b : b = Head(r)
      OBVIOUS
    <3>2. b.do \notin {"add", "take", "finish", "wait", "write", "give", "prepare", "point"}
      BY <1>2, <1>5, <2>1, <3>1 DEF Chain
    <3>. QED
      BY <1>2, <1>3, <1>4, <1>5, <3>1, <3>2 DEF Chain
  <2>2. CASE Head(t).do = "take" /\ s = <<GiveStep>>
    <3>1. PICK g : g = GiveStep
      OBVIOUS
    <3>2. s = <<g>> /\ g.do = "give"
      BY <2>2, <3>1, DoOf DEF GiveStep
    <3>3. s[Len(s)] = g
      BY <3>2
    <3>4. PICK b : b = Head(r)
      OBVIOUS
    <3>5. b.do \notin {"add", "take", "write", "give", "prepare", "point"}
      BY <1>2, <1>5, <2>2, <3>4 DEF Chain
    <3>. QED
      BY <1>2, <1>5, <3>2, <3>3, <3>4, <3>5 DEF Chain
  <2>. QED
    BY <2>1, <2>2
<1>6. PICK v : v = s \o r
  OBVIOUS
<1>7. Chained(v)
  BY <1>2, <1>4, <1>5, <1>6, ChainedCat
<1>8. v \in Seq(Steps) /\ Joins(v, s, r)
  BY <1>2, <1>4, <1>6, After
<1>9. /\ v # <<>> /\ v[1] = s[1]
      /\ r # <<>> => v[Len(v)] = r[Len(r)]
      /\ Untested(r) => Untested(v)
  BY <1>2, <1>4, <1>8, CatEnds
<1>10. r = <<>> => v = s
  BY <1>4, <1>6, ConcatEmptySeq
<1>11. Ended(v)
  BY <1>2, <1>3, <1>4, <1>9, <1>10 DEF Ended
<1>12. Head(v).do \in dos
  <2>1. Head(v) = v[1]
    BY <1>8, <1>9, TailIs
  <2>. QED
    BY <1>3, <1>4, <1>9, <2>1
<1>. QED
  BY <1>1, <1>6, <1>7, <1>9, <1>11, <1>12

\* Which action does the step a core is at.
LEMMA DoneBy ==
    ASSUME NEW c \in Cores, CoreStep(c) \/ Wait(c)
    PROVE  /\ todo[c] # <<>>
           /\ At(c, "call") => Enter(c)
           /\ At(c, "fill") => Fill(c)
           /\ At(c, "point") => Point(c)
           /\ At(c, "select") => Select(c)
           /\ At(c, "read") => Read(c)
           /\ At(c, "read_response") => ReadResponse(c)
           /\ At(c, "unfinish") => Unfinish(c)
           /\ At(c, "add") => Add(c)
           /\ At(c, "take") => Take(c)
           /\ At(c, "give") => Give(c) \/ Drop(c)
           /\ At(c, "finish") => Finish(c)
           /\ At(c, "queue") => Queue(c)
           /\ At(c, "prepare") => Prepare(c)
           /\ At(c, "write") => Write(c)
           /\ At(c, "check") => Check(c)
           /\ At(c, "switch_cc") => SwitchCc(c)
           /\ At(c, "switch_pd") => SwitchPd(c)
           /\ At(c, "wait") => Wait(c)
BY DEF CoreStep, At, Enter, Fill, Point, Select, Read, ReadResponse, Unfinish, Add,
       Take, Give, Drop, Finish, Queue, Prepare, Write, Check, SwitchCc, SwitchPd, Wait

Answers(c) == Check(c) /\ Arg(c) = "APCmdResI" /\ \E set \in Tested("APCmdResI") : set

\* What a step makes of a core's list: the next step, or a function before it.
Calling(c, s) ==
    \/ Enter(c) /\ Begins(s, {"unfinish", "fill"})
    \/ Take(c) /\ opcode_queue # <<>> /\ s = <<GiveStep>>
    \/ Check(c) /\ Begins(s, {"fill", "queue"})
    \/ Answers(c) /\ s = OnOpcodeCmdResponse
    \/ (SwitchCc(c) \/ SwitchPd(c)) /\ Begins(s, {"unfinish"})

LEMMA Outcome ==
    ASSUME Todos, NEW c \in Cores, CoreStep(c) \/ Wait(c),
           return_buf.of = "PD_STATUS" => return_buf.val \in PdMessages
    PROVE  \/ todo'[c] = Tail(todo[c])
           \/ \E s : Calling(c, s) /\ todo'[c] = s \o Tail(todo[c])
<1>1. PICK t \in Seq(Steps) : t = todo[c]
  BY DEF Todos
<1>2. PICK r \in Seq(Steps) : t # <<>> => r = Tail(t)
  <2>1. t # <<>> => Tail(t) \in Seq(Steps)
    BY HeadTailProperties
  <2>2. <<>> \in Seq(Steps)
    OBVIOUS
  <2>. QED
    BY <2>1, <2>2
<1>3. t # <<>> /\ r = Tail(t)
  BY <1>1, <1>2, DoneBy
<1>4. CASE \/ Fill(c) \/ Point(c) \/ Select(c) \/ Read(c) \/ ReadResponse(c)
           \/ Unfinish(c) \/ Add(c) \/ Give(c) \/ Drop(c) \/ Finish(c)
           \/ Queue(c) \/ Prepare(c) \/ Write(c) \/ Wait(c)
  BY <1>4, OthersMove
<1>5. CASE Enter(c)
  <2>1. PICK call \in Calls : todo'[c] = Core0Body(call) \o r
    BY <1>1, <1>3, <1>5, EnterMoves
  <2>. QED
    BY <1>1, <1>3, <1>5, <2>1, BeginsCalls DEF Calling
<1>6. CASE Take(c)
  <2>1. CASE opcode_queue = <<>>
    <3>1. Proceed(c)
      BY <1>6, <2>1 DEF Take
    <3>. QED
      BY <1>1, <1>3, <3>1, Proceeded
  <2>2. CASE opcode_queue # <<>>
    <3>1. Call(c, <<GiveStep>>)
      BY <1>6, <2>2 DEF Take, GiveStep
    <3>2. todo'[c] = <<GiveStep>> \o r
      BY <1>1, <1>3, <3>1, Called
    <3>. QED
      BY <1>1, <1>3, <1>6, <2>2, <3>2 DEF Calling
  <2>. QED
    BY <2>1, <2>2
<1>7. CASE Check(c)
  <2>1. PICK bit \in Ints : bit = Arg(c)
    BY <1>7, CheckMoves
  <2>2. PICK set \in Tested(bit) : todo'[c] = (IF set THEN Handler(bit) ELSE <<>>) \o r
    BY <1>1, <1>3, <1>7, <2>1, CheckMoves
  <2>3. CASE ~set
    <3>1. todo'[c] = <<>> \o r
      BY <2>2, <2>3
    <3>. QED
      BY <1>1, <1>3, <3>1, EmptyCat
  <2>4. CASE set
    <3>1. todo'[c] = Handler(bit) \o r
      BY <2>2, <2>4
    <3>2. CASE bit = "APCmdResI"
      <4>1. Answers(c)
        BY <1>7, <2>1, <2>2, <2>4, <3>2, Zenon DEF Answers
      <4>2. todo'[c] = OnOpcodeCmdResponse \o r
        BY <3>1, <3>2 DEF Handler
      <4>. QED
        BY <1>1, <1>3, <4>1, <4>2 DEF Calling
    <3>3. CASE bit # "APCmdResI"
      BY <1>1, <1>3, <1>7, <3>1, <3>3, BeginsCalls DEF Calling
    <3>. QED
      BY <3>2, <3>3
  <2>. QED
    BY <2>3, <2>4
<1>8. ASSUME NEW s \in {<<>>, VbusTurnOff, VbusTurnOn}, todo'[c] = s \o r, SwitchCc(c) \/ SwitchPd(c)
      PROVE  \/ todo'[c] = Tail(todo[c])
             \/ \E v : Calling(c, v) /\ todo'[c] = v \o Tail(todo[c])
  <2>1. CASE s = <<>>
    <3>1. todo'[c] = <<>> \o r
      BY <1>8, <2>1
    <3>. QED
      BY <1>1, <1>3, <3>1, EmptyCat
  <2>2. CASE s # <<>>
    <3>1. Begins(s, {"unfinish"})
      BY <1>8, <2>2, BeginsCalls
    <3>. QED
      BY <1>1, <1>3, <1>8, <3>1 DEF Calling
  <2>. QED
    BY <2>1, <2>2
<1>9. CASE SwitchCc(c)
  <2>1. PICK s \in {<<>>, VbusTurnOff} : todo'[c] = s \o r
    BY <1>1, <1>3, <1>9, SwitchCcMoves
  <2>. QED
    BY <1>8, <1>9, <2>1
<1>10. CASE SwitchPd(c)
  <2>1. PICK s \in {<<>>, VbusTurnOff, VbusTurnOn} : todo'[c] = s \o r
    BY <1>1, <1>3, <1>10, SwitchPdMoves
  <2>. QED
    BY <1>8, <1>10, <2>1
<1>. QED
  BY <1>4, <1>5, <1>6, <1>7, <1>9, <1>10 DEF CoreStep

\* A called function keeps the list chained, and begins as it does.
LEMMA CallingChains ==
    ASSUME Todos, NEW c \in Cores, NEW s, Calling(c, s), Chained(todo[c]), Ended(todo[c]),
           NEW u, u = s \o Tail(todo[c])
    PROVE  /\ Chained(u) /\ Ended(u) /\ u # <<>>
           /\ Untested(Tail(todo[c])) => Untested(u)
           /\ \/ Take(c) /\ opcode_queue # <<>> /\ Head(u).do = "give"
              \/ Answers(c) /\ Head(u).do = "point"
              \/ Head(u).do \in {"unfinish", "fill", "queue"}
<1>1. PICK t \in Seq(Steps) : t = todo[c]
  BY DEF Todos
<1>2. t # <<>>
  BY <1>1 DEF Calling, Enter, Take, Check, Answers, SwitchCc, SwitchPd, At
<1>3. CASE Enter(c) /\ Begins(s, {"unfinish", "fill"})
  <2>1. Head(t).do = "call"
    BY <1>1, <1>3 DEF Enter, At
  <2>. QED
    BY <1>1, <1>2, <1>3, <2>1, BeginsCat
<1>4. CASE Take(c) /\ opcode_queue # <<>> /\ s = <<GiveStep>>
  <2>1. Head(t).do = "take" /\ Begins(s, {"give"})
    BY <1>1, <1>4, BeginsCalls DEF Take, At
  <2>2. /\ Chained(u) /\ Ended(u) /\ u # <<>> /\ Head(u).do \in {"give"}
        /\ Untested(Tail(t)) => Untested(u)
    BY <1>1, <1>2, <1>4, <2>1, BeginsCat
  <2>. QED
    BY <1>1, <1>4, <2>2
<1>5. CASE Check(c) /\ Begins(s, {"fill", "queue"})
  <2>1. Head(t).do = "check"
    BY <1>1, <1>5 DEF Check, At
  <2>. QED
    BY <1>1, <1>2, <1>5, <2>1, BeginsCat
<1>6. CASE Answers(c) /\ s = OnOpcodeCmdResponse
  <2>1. Head(t).do = "check" /\ Begins(s, {"point"})
    BY <1>1, <1>6, BeginsCalls DEF Answers, Check, At
  <2>2. /\ Chained(u) /\ Ended(u) /\ u # <<>> /\ Head(u).do \in {"point"}
        /\ Untested(Tail(t)) => Untested(u)
    BY <1>1, <1>2, <1>6, <2>1, BeginsCat
  <2>. QED
    BY <1>1, <1>6, <2>2
<1>7. CASE (SwitchCc(c) \/ SwitchPd(c)) /\ Begins(s, {"unfinish"})
  <2>1. Head(t).do \in {"switch_cc", "switch_pd"}
    BY <1>1, <1>7 DEF SwitchCc, SwitchPd, At
  <2>. QED
    BY <1>1, <1>2, <1>7, <2>1, BeginsCat
<1>. QED
  BY <1>3, <1>4, <1>5, <1>6, <1>7 DEF Calling

\* Where a step may leave a core.
LEMMA Arrives ==
    ASSUME Todos, NEW c \in Cores, CoreStep(c) \/ Wait(c), Chained(todo[c]), Ended(todo[c]),
           return_buf.of = "PD_STATUS" => return_buf.val \in PdMessages
    PROVE  /\ Chained(todo'[c]) /\ Ended(todo'[c])
           /\ Untested(Tail(todo[c])) => Untested(todo'[c])
           /\ At(c, "add")' => Unfinish(c)
           /\ At(c, "take")' => Add(c) \/ ReadResponse(c)
           /\ At(c, "finish")' \/ At(c, "wait")' => Take(c) \/ Give(c) \/ Drop(c)
           /\ At(c, "give")' => Take(c) /\ opcode_queue # <<>>
           /\ At(c, "write")' => Prepare(c)
           /\ ~At(c, "prepare")'
           /\ At(c, "point")' => Answers(c)
           /\ ReadResponse(c) => At(c, "take")'
           /\ Unfinish(c) => At(c, "add")'
           /\ Take(c) /\ opcode_queue # <<>> => At(c, "give")'
           /\ Answers(c) \/ Enter(c) \/ Take(c) \/ Check(c) \/ SwitchCc(c) \/ SwitchPd(c)
                 \/ todo'[c] = Tail(todo[c])
<1>1. PICK t \in Seq(Steps) : t = todo[c]
  BY DEF Todos
<1>2. t # <<>>
  BY <1>1, DoneBy
<1>3. PICK u : u = todo'[c]
  OBVIOUS
<1>4. CASE u = Tail(t)
  <2>1. /\ u \in Seq(Steps) /\ Chained(u) /\ Ended(u)
        /\ u # <<>> => Chain(Head(t), Head(u))
        /\ u = <<>> => Head(t).do \notin {"read_response", "unfinish"}
    BY <1>1, <1>2, <1>4, ChainedTail
  <2>2. PICK a, b : a = Head(t) /\ b = Head(u)
    OBVIOUS
  <2>3. u # <<>> =>
            /\ b.do = "add" => a.do = "unfinish"
            /\ b.do = "take" => a.do \in {"add", "read_response"}
            /\ b.do \in {"finish", "wait"} => a.do \in {"take", "give"}
            /\ b.do = "write" => a.do = "prepare"
            /\ b.do \notin {"give", "prepare", "point"}
            /\ a.do = "read_response" => b.do = "take"
            /\ a.do = "unfinish" => b.do = "add"
    BY <2>1, <2>2 DEF Chain
  <2>4. ReadResponse(c) => u # <<>> /\ a.do = "read_response"
    BY <1>1, <2>1, <2>2 DEF ReadResponse, At
  <2>5. Unfinish(c) => u # <<>> /\ a.do = "unfinish"
    BY <1>1, <2>1, <2>2 DEF Unfinish, At
  <2>6. ~(Take(c) /\ opcode_queue # <<>>)
    <3>1. ASSUME Take(c), opcode_queue # <<>> PROVE FALSE
      <4>1. At(c, "give")'
        BY <3>1, TakeMoves DEF Takes
      <4>. QED
        BY <1>3, <2>2, <2>3, <4>1 DEF At
    <3>. QED
      BY <3>1
  <2>7. \A do : At(c, do) <=> a.do = do
    BY <1>1, <1>2, <2>2 DEF At
  <2>8. \A do : At(c, do)' <=> u # <<>> /\ b.do = do
    BY <1>3, <2>2 DEF At
  <2>9. Untested(Tail(todo[c])) => Untested(todo'[c])
    BY <1>1, <1>3, <1>4
  <2>. QED
    BY <1>1, <1>3, <1>4, <2>1, <2>3, <2>4, <2>5, <2>6, <2>7, <2>8, <2>9, DoneBy
<1>5. ASSUME NEW s, Calling(c, s), u = s \o Tail(t), u # Tail(t)
      PROVE  /\ Chained(u) /\ Ended(u) /\ u # <<>>
             /\ Untested(Tail(t)) => Untested(u)
             /\ \/ Take(c) /\ opcode_queue # <<>> /\ Head(u).do = "give"
                \/ Answers(c) /\ Head(u).do = "point"
                \/ Head(u).do \in {"unfinish", "fill", "queue"}
             /\ ~ReadResponse(c) /\ ~Unfinish(c)
             /\ Take(c) /\ opcode_queue # <<>> => At(c, "give")'
             /\ Enter(c) \/ Take(c) \/ Check(c) \/ SwitchCc(c) \/ SwitchPd(c)
  <2>1. /\ Chained(u) /\ Ended(u) /\ u # <<>>
        /\ Untested(Tail(t)) => Untested(u)
        /\ \/ Take(c) /\ opcode_queue # <<>> /\ Head(u).do = "give"
           \/ Answers(c) /\ Head(u).do = "point"
           \/ Head(u).do \in {"unfinish", "fill", "queue"}
    BY <1>1, <1>5, CallingChains
  <2>2. Enter(c) \/ Take(c) \/ Check(c) \/ SwitchCc(c) \/ SwitchPd(c)
    BY <1>5 DEF Calling, Answers
  <2>3. ~ReadResponse(c) /\ ~Unfinish(c)
    BY <2>2 DEF Enter, Take, Check, SwitchCc, SwitchPd, ReadResponse, Unfinish, At
  <2>4. Take(c) /\ opcode_queue # <<>> => At(c, "give")'
    BY TakeMoves DEF Takes
  <2>. QED
    BY <2>1, <2>2, <2>3, <2>4
<1>6. CASE u # Tail(t)
  <2>1. PICK s : Calling(c, s) /\ u = s \o Tail(t)
    BY <1>1, <1>3, <1>6, Outcome
  <2>2. PICK b : b = Head(u)
    OBVIOUS
  <2>3. \A do : At(c, do)' <=> b.do = do
    BY <1>3, <1>5, <1>6, <2>1, <2>2 DEF At
  <2>4. /\ Chained(u) /\ Ended(u) /\ (Untested(Tail(t)) => Untested(u))
        /\ \/ Take(c) /\ opcode_queue # <<>> /\ b.do = "give"
           \/ Answers(c) /\ b.do = "point"
           \/ b.do \in {"unfinish", "fill", "queue"}
        /\ ~ReadResponse(c) /\ ~Unfinish(c)
        /\ Take(c) /\ opcode_queue # <<>> => At(c, "give")'
        /\ Enter(c) \/ Take(c) \/ Check(c) \/ SwitchCc(c) \/ SwitchPd(c)
    BY <1>5, <1>6, <2>1, <2>2
  <2>. QED
    BY <1>1, <1>3, <2>3, <2>4
<1>. QED
  BY <1>4, <1>6

\* The lists of parse_interrupt_vals until it has looked for an answer.
Parse0 == ParseInterruptVals
Parse1 == Tail(Parse0)
Parse2 == Tail(Parse1)
Parse3 == Tail(Parse2)

LEMMA NotEmpty == ASSUME NEW s \in Seq(Steps), Len(s) # 0 PROVE s # <<>>
BY EmptySeq

LEMMA ParseLists ==
    /\ Parse0 \in Seq(Steps) /\ Parse1 \in Seq(Steps) /\ Parse2 \in Seq(Steps) /\ Parse3 \in Seq(Steps)
    /\ Parse0 # <<>> /\ Head(Parse0) = Step("fill", "INT")
    /\ Parse1 # <<>> /\ Head(Parse1) = Step("select", "")
    /\ Parse2 # <<>> /\ Head(Parse2) = Step("read", "")
    /\ Parse3 # <<>> /\ Head(Parse3) = Check1
    /\ Chained(Parse0) /\ Ended(Parse0)
    /\ Untested(Tail(Parse3))
<1>1. PICK f \in Steps, l \in Steps, r \in Steps :
          f = Step("fill", "INT") /\ l = Step("select", "") /\ r = Step("read", "")
  BY StepKinds DEF Registers, Transfers
<1>2. PICK a \in Steps, b \in Steps, c \in Steps, d \in Steps :
          /\ a = Step("check", "APCmdResI") /\ b = Step("check", "PDMsgI")
          /\ c = Step("check", "ChgType") /\ d = Step("check", "CCStat")
  BY StepKinds DEF Ints
<1>3. PICK x, y : x = <<f, l, r>> /\ y = <<a, b, c, d>>
  OBVIOUS
<1>4. PICK s0 : s0 = x \o y
  OBVIOUS
<1>5. /\ s0 \in Seq(Steps) /\ ParseInterruptVals = s0
      /\ Len(s0) = 7 /\ s0[1] = f /\ s0[2] = l /\ s0[3] = r /\ s0[4] = a /\ s0[5] = b
      /\ s0[6] = c /\ s0[7] = d
  <2>1. x \in Seq(Steps) /\ Len(x) = 3 /\ x[1] = f /\ x[2] = l /\ x[3] = r
    BY <1>3
  <2>2. y \in Seq(Steps) /\ Len(y) = 4 /\ y[1] = a /\ y[2] = b /\ y[3] = c /\ y[4] = d
    BY <1>3
  <2>3. s0 \in Seq(Steps) /\ Joins(s0, x, y)
    BY <1>4, <2>1, <2>2, After
  <2>4. ParseInterruptVals = x \o y
    BY <1>1, <1>2, <1>3 DEF ParseInterruptVals, Fetch
  <2>. QED
    BY <1>4, <2>1, <2>2, <2>3, <2>4 DEF Joins
<1>6. /\ f.do = "fill" /\ l.do = "select" /\ r.do = "read" /\ a.do = "check" /\ b.do = "check"
      /\ c.do = "check" /\ d.do = "check" /\ a = Check1
      /\ b # Check1 /\ c # Check1 /\ d # Check1
  <2>1. f.do = "fill" /\ l.do = "select" /\ r.do = "read"
    BY <1>1, DoOf
  <2>2. a.do = "check" /\ b.do = "check" /\ c.do = "check" /\ d.do = "check"
    BY <1>2, DoOf
  <2>3. a.arg = "APCmdResI" /\ b.arg = "PDMsgI" /\ c.arg = "ChgType" /\ d.arg = "CCStat"
    BY <1>2, DoOf
  <2>4. a = Check1
    BY <1>2 DEF Check1
  <2>. QED
    BY <2>1, <2>2, <2>3, <2>4
<1>7. Chained(s0) /\ Ended(s0)
  BY <1>5, <1>6 DEF Chained, Chain, Ended
<1>8. PICK s1, s2, s3, s4 : s1 = Tail(s0) /\ s2 = Tail(s1) /\ s3 = Tail(s2) /\ s4 = Tail(s3)
  OBVIOUS
<1>9. /\ s0 # <<>> /\ Head(s0) = f
      /\ s1 \in Seq(Steps) /\ Len(s1) = 6 /\ s1[1] = l /\ s1[2] = r /\ s1[3] = a /\ s1[4] = b
      /\ s1[5] = c /\ s1[6] = d
  <2>1. s0 # <<>>
    <3>1. s0 \in Seq(Steps) /\ Len(s0) # 0
      BY <1>5
    <3>. QED
      BY <3>1, NotEmpty
  <2>2. /\ Head(s0) = s0[1] /\ s1 \in Seq(Steps) /\ Len(s1) = Len(s0) - 1
        /\ \A i \in 1..Len(s0) : i > 1 => s1[i - 1] = s0[i]
    BY <1>5, <1>8, <2>1, TailIs
  <2>. QED
    BY <1>5, <2>1, <2>2
<1>10. /\ s1 # <<>> /\ Head(s1) = l
       /\ s2 \in Seq(Steps) /\ Len(s2) = 5 /\ s2[1] = r /\ s2[2] = a /\ s2[3] = b
       /\ s2[4] = c /\ s2[5] = d
  <2>1. s1 # <<>>
    <3>1. s1 \in Seq(Steps) /\ Len(s1) # 0
      BY <1>9
    <3>. QED
      BY <3>1, NotEmpty
  <2>2. /\ Head(s1) = s1[1] /\ s2 \in Seq(Steps) /\ Len(s2) = Len(s1) - 1
        /\ \A i \in 1..Len(s1) : i > 1 => s2[i - 1] = s1[i]
    BY <1>8, <1>9, <2>1, TailIs
  <2>. QED
    BY <1>9, <2>1, <2>2
<1>11. /\ s2 # <<>> /\ Head(s2) = r
       /\ s3 \in Seq(Steps) /\ Len(s3) = 4 /\ s3[1] = a /\ s3[2] = b /\ s3[3] = c /\ s3[4] = d
  <2>1. s2 # <<>>
    <3>1. s2 \in Seq(Steps) /\ Len(s2) # 0
      BY <1>10
    <3>. QED
      BY <3>1, NotEmpty
  <2>2. /\ Head(s2) = s2[1] /\ s3 \in Seq(Steps) /\ Len(s3) = Len(s2) - 1
        /\ \A i \in 1..Len(s2) : i > 1 => s3[i - 1] = s2[i]
    BY <1>8, <1>10, <2>1, TailIs
  <2>. QED
    BY <1>10, <2>1, <2>2
<1>12. /\ s3 # <<>> /\ Head(s3) = a
       /\ Len(s4) = 3 /\ s4[1] = b /\ s4[2] = c /\ s4[3] = d
  <2>1. s3 # <<>>
    <3>1. s3 \in Seq(Steps) /\ Len(s3) # 0
      BY <1>11
    <3>. QED
      BY <3>1, NotEmpty
  <2>2. /\ Head(s3) = s3[1] /\ Len(s4) = Len(s3) - 1
        /\ \A i \in 1..Len(s3) : i > 1 => s4[i - 1] = s3[i]
    BY <1>8, <1>11, <2>1, TailIs
  <2>. QED
    BY <1>11, <2>1, <2>2
<1>13. Untested(s4)
  BY <1>6, <1>12 DEF Untested
<1>14. Parse0 = s0 /\ Parse1 = s1 /\ Parse2 = s2 /\ Parse3 = s3 /\ Tail(Parse3) = s4
  BY <1>5, <1>8 DEF Parse0, Parse1, Parse2, Parse3
<1>. QED
  BY <1>1, <1>5, <1>6, <1>7, <1>9, <1>10, <1>11, <1>12, <1>13, <1>14

\* Both lists are chained, and core 1 looks for an answer only in parse_interrupt_vals.
Chains ==
    /\ \A c \in Cores : Chained(todo[c]) /\ Ended(todo[c])
    /\ todo[1] \in {Parse0, Parse1, Parse2, Parse3} \/ Untested(todo[1])

\* While the cores keep apart, core 1 looks for an answer in the interrupt registers.
Looks ==
    /\ todo[1] = Parse1 => send_buf.reg = "INT"
    /\ todo[1] = Parse2 => pointer = "INT"
    /\ todo[1] = Parse3 => return_buf.of = "INT"
Looking == ~Clashed => Looks

LEMMA UntestedTail ==
    ASSUME NEW s \in Seq(Steps), s # <<>>, Untested(s)
    PROVE  Untested(Tail(s)) /\ Head(s) # Check1
<1>1. PICK t : t = Tail(s)
  OBVIOUS
<1>2. /\ Head(s) = s[1] /\ Len(s) \in Nat /\ Len(s) >= 1
      /\ Len(t) = Len(s) - 1 /\ \A i \in 1..Len(s) : i > 1 => t[i - 1] = s[i]
  BY <1>1, TailIs
<1>3. ASSUME NEW i \in 1..Len(t) PROVE t[i] # Check1
  <2>1. i + 1 \in 1..Len(s) /\ i + 1 > 1 /\ (i + 1) - 1 = i
    BY <1>2, <1>3
  <2>2. t[i] = s[i + 1] /\ s[i + 1] # Check1
    BY <1>2, <2>1 DEF Untested
  <2>. QED
    BY <2>2
<1>4. Head(s) # Check1
  <2>1. 1 \in 1..Len(s)
    BY <1>2
  <2>. QED
    BY <1>2, <2>1 DEF Untested
<1>. QED
  BY <1>1, <1>3, <1>4 DEF Untested

LEMMA ParseHeads ==
    /\ Head(Parse0).do = "fill" /\ Head(Parse0).arg = "INT"
    /\ Head(Parse1).do = "select" /\ Head(Parse2).do = "read"
    /\ Head(Parse3).do = "check" /\ Head(Parse3).arg = "APCmdResI"
    /\ ~Untested(Parse0) /\ ~Untested(Parse1) /\ ~Untested(Parse2) /\ ~Untested(Parse3)
<1>1. /\ Head(Parse0).do = "fill" /\ Head(Parse0).arg = "INT"
      /\ Head(Parse1).do = "select" /\ Head(Parse2).do = "read"
  BY ParseLists, DoOf
<1>2. Head(Parse3).do = "check" /\ Head(Parse3).arg = "APCmdResI"
  BY ParseLists, DoOf DEF Check1
<1>3. ~Untested(Parse3)
  BY ParseLists, UntestedTail
<1>4. ~Untested(Parse2)
  BY <1>3, ParseLists, UntestedTail DEF Parse3
<1>5. ~Untested(Parse1)
  BY <1>4, ParseLists, UntestedTail DEF Parse2
<1>6. ~Untested(Parse0)
  BY <1>5, ParseLists, UntestedTail DEF Parse1
<1>. QED
  BY <1>1, <1>2, <1>3, <1>4, <1>5, <1>6

\* Core 1's way through parse_interrupt_vals.
LEMMA ParseSteps ==
    ASSUME TypeInv, Chains, CoreStep(1)
    PROVE  /\ todo[1] = Parse0 => Fill(1) /\ Arg(1) = "INT" /\ todo'[1] = Parse1
           /\ todo[1] = Parse1 => Select(1) /\ todo'[1] = Parse2
           /\ todo[1] = Parse2 => Read(1) /\ todo'[1] = Parse3
           /\ todo[1] = Parse3 => Check(1) /\ Arg(1) = "APCmdResI" /\ Untested(todo'[1])
           /\ Untested(todo[1]) => Untested(todo'[1])
<1>1. /\ Todos /\ 1 \in Cores /\ Chained(todo[1]) /\ Ended(todo[1])
      /\ return_buf.of = "PD_STATUS" => return_buf.val \in PdMessages
  BY DEF TypeInv, Buffers, Chains, Cores
<1>2. PICK t \in Seq(Steps) : t = todo[1]
  BY <1>1 DEF Todos
<1>3. t # <<>>
  BY <1>1, <1>2, DoneBy
<1>4. \A do : Head(t).do = do => At(1, do)
  BY <1>2, <1>3 DEF At
<1>5. ASSUME t = Parse0 PROVE Fill(1) /\ Arg(1) = "INT" /\ todo'[1] = Parse1
  <2>1. At(1, "fill") /\ Arg(1) = "INT"
    BY <1>2, <1>4, <1>5, ParseHeads DEF Arg
  <2>2. Fill(1)
    BY <1>1, <2>1, DoneBy
  <2>3. todo'[1] = Tail(t)
    BY <1>1, <1>2, <2>2, OthersMove
  <2>. QED
    BY <1>5, <2>1, <2>2, <2>3 DEF Parse1
<1>6. ASSUME t = Parse1 PROVE Select(1) /\ todo'[1] = Parse2
  <2>1. At(1, "select")
    BY <1>4, <1>6, ParseHeads
  <2>2. Select(1)
    BY <1>1, <2>1, DoneBy
  <2>3. todo'[1] = Tail(t)
    BY <1>1, <1>2, <2>2, OthersMove
  <2>. QED
    BY <1>6, <2>2, <2>3 DEF Parse2
<1>7. ASSUME t = Parse2 PROVE Read(1) /\ todo'[1] = Parse3
  <2>1. At(1, "read")
    BY <1>4, <1>7, ParseHeads
  <2>2. Read(1)
    BY <1>1, <2>1, DoneBy
  <2>3. todo'[1] = Tail(t)
    BY <1>1, <1>2, <2>2, OthersMove
  <2>. QED
    BY <1>7, <2>2, <2>3 DEF Parse3
<1>8. Untested(Tail(t)) => Untested(todo'[1])
  BY <1>1, <1>2, Arrives
<1>9. ASSUME t = Parse3 PROVE Check(1) /\ Arg(1) = "APCmdResI" /\ Untested(todo'[1])
  <2>1. At(1, "check") /\ Arg(1) = "APCmdResI"
    BY <1>2, <1>4, <1>9, ParseHeads DEF Arg
  <2>2. Check(1)
    BY <1>1, <2>1, DoneBy
  <2>. QED
    BY <1>8, <1>9, <2>1, <2>2, ParseLists
<1>10. Untested(t) => Untested(todo'[1])
  BY <1>3, <1>8, UntestedTail
<1>. QED
  BY <1>2, <1>5, <1>6, <1>7, <1>9, <1>10

\* A core that takes an entry of call_queue starts a function.
LEMMA PopChains ==
    ASSUME TypeInv, Core1Pop
    PROVE  /\ Chained(todo'[1]) /\ Ended(todo'[1])
           /\ todo'[1] = Parse0 \/ Untested(todo'[1])
           /\ running' \in Entries /\ todo'[0] = todo[0] /\ todo'[1] = Body(running')
           /\ todo'[1] # <<>>
           /\ running' \in Opcodes => Head(todo'[1]).do = "prepare"
           /\ running' \notin Opcodes => Head(todo'[1]).do = "fill"
<1>1. Todos /\ call_queue \in Seq(Entries)
  BY DEF TypeInv, Queues
<1>2. PICK e \in Entries : e = running' /\ todo'[1] = Body(e) /\ todo'[0] = todo[0]
  BY <1>1, PopMoves
<1>3. ASSUME NEW s, NEW dos, Begins(s, dos)
      PROVE  /\ Chained(s) /\ Ended(s) /\ Untested(s) /\ s # <<>> /\ Head(s).do \in dos
  <2>1. PICK a, z : Part(s, a, z) /\ a.do \in dos /\ z.do \notin {"read_response", "unfinish"}
    BY <1>3 DEF Begins
  <2>2. Head(s) = s[1]
    BY <2>1, TailIs DEF Part
  <2>3. /\ Chained(s) /\ Untested(s) /\ s # <<>> /\ s[1] = a /\ s[Len(s)] = z
    BY <2>1 DEF Part
  <2>4. Ended(s)
    BY <2>1, <2>3 DEF Ended
  <2>5. Head(s).do \in dos
    BY <2>1, <2>2, <2>3
  <2>. QED
    BY <2>3, <2>4, <2>5
<1>4. CASE e.op = "parse_interrupt_vals"
  <2>1. Body(e) = Parse0 /\ e \notin Opcodes
    BY <1>4, OpcodeFacts DEF Body, Parse0, Ops
  <2>. QED
    BY <1>2, <2>1, ParseLists, ParseHeads
<1>5. CASE e.op = "pd_msg_response"
  <2>1. Body(e) = PdMsgResponse /\ e \notin Opcodes
    BY <1>5, OpcodeFacts DEF Body, Ops
  <2>2. PICK s : s = Body(e)
    OBVIOUS
  <2>3. /\ Chained(s) /\ Ended(s) /\ Untested(s) /\ s # <<>> /\ Head(s).do \in {"fill"}
    BY <1>3, <2>1, <2>2, BeginsCalls
  <2>. QED
    BY <1>2, <2>1, <2>2, <2>3
<1>6. CASE e.op \notin {"parse_interrupt_vals", "pd_msg_response"}
  <2>1. Body(e) = OpcodeFunction
    BY <1>6 DEF Body
  <2>2. e \in Opcodes
    BY <1>6 DEF Entries, Plain, Opcode
  <2>3. PICK s : s = Body(e)
    OBVIOUS
  <2>4. /\ Chained(s) /\ Ended(s) /\ Untested(s) /\ s # <<>> /\ Head(s).do \in {"prepare"}
    BY <1>3, <2>1, <2>3, BeginsCalls
  <2>. QED
    BY <1>2, <2>2, <2>3, <2>4
<1>. QED
  BY <1>4, <1>5, <1>6

LEMMA ChainsKept ==
    ASSUME TypeInv, Links, Chains, [Next]_vars
    PROVE  Chains'
<1>1. /\ Todos /\ 0 \in Cores /\ 1 \in Cores
      /\ return_buf.of = "PD_STATUS" => return_buf.val \in PdMessages
      /\ \A c \in Cores : Chained(todo[c]) /\ Ended(todo[c])
  BY DEF TypeInv, Buffers, Chains, Cores
<1>2. ASSUME NEW c \in Cores, CoreStep(c) \/ Wait(c)
      PROVE  \A d \in Cores : d # c => todo'[d] = todo[d]
  BY <1>1, <1>2, StepLinks
<1>3. CASE CoreStep(0) \/ Wait(0)
  <2>1. Chained(todo'[0]) /\ Ended(todo'[0]) /\ todo'[1] = todo[1]
    BY <1>1, <1>2, <1>3, Arrives
  <2>. QED
    BY <1>1, <2>1 DEF Chains, Cores
<1>4. CASE CoreStep(1)
  <2>1. Chained(todo'[1]) /\ Ended(todo'[1]) /\ todo'[0] = todo[0]
    BY <1>1, <1>2, <1>4, Arrives
  <2>2. todo'[1] \in {Parse0, Parse1, Parse2, Parse3} \/ Untested(todo'[1])
    BY <1>4, ParseSteps DEF Chains
  <2>. QED
    BY <1>1, <2>1, <2>2 DEF Chains, Cores
<1>5. CASE Core1Pop
  BY <1>1, <1>5, PopChains DEF Chains, Cores
<1>6. CASE CableChange \/ PowerMessage \/ ChargerChange \/ Answer \/ UNCHANGED vars
  BY <1>6, ChipSteps DEF Chains
<1>7. ASSUME NEW c \in Cores, CoreStep(c) PROVE CoreStep(0) \/ CoreStep(1)
  BY <1>7 DEF Cores
<1>. QED
  BY <1>3, <1>4, <1>5, <1>6, <1>7 DEF Next

LEMMA ChainsInit == Init => Chains
<1>. SUFFICES ASSUME Init PROVE Chains
  OBVIOUS
<1>1. PICK p : p = Core0Program
  OBVIOUS
<1>2. todo[0] = p /\ todo[1] = <<>>
  BY <1>1 DEF Init, Cores
<1>3. PICK n \in Nat : n = Len(Core0Calls)
  BY MAX77958Assumption
<1>4. p = [i \in 1..n |-> Step("call", Core0Calls[i])]
  BY <1>1, <1>3 DEF Core0Program
<1>5. \A i \in 1..n : p[i].do = "call" /\ Step("call", Core0Calls[i]) \in Steps0
  <2>1. \A i \in 1..n : Core0Calls[i] \in Calls
    BY <1>3, MAX77958Assumption
  <2>2. \A i \in 1..n : p[i] = Step("call", Core0Calls[i])
    BY <1>4
  <2>3. \A i \in 1..n : Step("call", Core0Calls[i]) \in Steps0
    BY <2>1, StepsOf0
  <2>4. \A i \in 1..n : p[i].do = "call"
    BY <2>2, DoOf
  <2>. QED
    BY <2>3, <2>4
<1>6. p \in Seq(Steps0) /\ Len(p) = n
  BY <1>4, <1>5, SeqDef, LenProperties
<1>7. Chained(p)
  <2>1. ASSUME NEW i \in 1..n, i > 1 PROVE Chain(p[i - 1], p[i])
    <3>1. i - 1 \in 1..n
      BY <2>1
    <3>2. p[i].do = "call" /\ p[i - 1].do = "call"
      BY <1>5, <2>1, <3>1
    <3>. QED
      BY <3>2 DEF Chain
  <2>. QED
    BY <1>6, <2>1 DEF Chained
<1>8. Ended(p)
  <2>1. ASSUME p # <<>> PROVE p[Len(p)].do = "call"
    <3>1. n # 0
      BY <1>6, <2>1, EmptySeq
    <3>2. n \in 1..n
      BY <3>1
    <3>. QED
      BY <1>5, <1>6, <3>2
  <2>. QED
    BY <2>1 DEF Ended
<1>9. PICK q : q = <<>>
  OBVIOUS
<1>10. Len(q) = 0
  BY <1>9, EmptySeq
<1>11. Chained(q) /\ Ended(q) /\ Untested(q)
  BY <1>9, <1>10 DEF Chained, Ended, Untested
<1>. QED
  BY <1>2, <1>7, <1>8, <1>9, <1>11 DEF Chains, Cores

\* Core 1 fills, selects and reads; core 0 keeps off while core 1 is at it.
LEMMA LookingKept ==
    ASSUME TypeInv, Links, Chains, Looking, [Next]_vars
    PROVE  Looking'
<1>. SUFFICES ASSUME ~Clashed' PROVE Looks'
  BY DEF Looking
<1>1. ~Clashed /\ ~Clash /\ ~Clash' /\ Looks
  BY ClashedStays DEF Clashed, Looking
<1>2. 0 \in Cores /\ 1 \in Cores /\ Chains'
  BY ChainsKept DEF Cores
<1>3. CASE CoreStep(1)
  <2>1. CASE todo'[1] \notin {Parse1, Parse2, Parse3}
    BY <2>1 DEF Looks
  <2>2. CASE todo'[1] \in {Parse1, Parse2, Parse3}
    <3>1. ~Untested(todo'[1])
      BY <2>2, ParseHeads
    <3>2. todo[1] \in {Parse0, Parse1, Parse2}
      BY <1>3, <3>1, ParseSteps DEF Chains
    <3>3. CASE todo[1] = Parse0
      <4>1. todo'[1] = Parse1 /\ send_buf'.reg = "INT"
        BY <1>3, <3>3, ParseSteps DEF Fill
      <4>. QED
        BY <4>1, ParseHeads DEF Looks
    <3>4. CASE todo[1] = Parse1
      <4>1. todo'[1] = Parse2 /\ pointer' = "INT"
        BY <1>1, <1>3, <3>4, ParseSteps DEF Select, Looks
      <4>. QED
        BY <4>1, ParseHeads DEF Looks
    <3>5. CASE todo[1] = Parse2
      <4>1. todo'[1] = Parse3 /\ return_buf' = Registered("INT")
        BY <1>1, <1>3, <3>5, ParseSteps DEF Read, Looks
      <4>2. return_buf'.of = "INT"
        BY <4>1 DEF Registered, Contents
      <4>. QED
        BY <4>1, <4>2, ParseHeads DEF Looks
    <3>. QED
      BY <3>2, <3>3, <3>4, <3>5
  <2>. QED
    BY <2>1, <2>2
<1>4. CASE CoreStep(0) \/ Wait(0)
  <2>1. todo'[1] = todo[1]
    <3>1. Todos /\ (return_buf.of = "PD_STATUS" => return_buf.val \in PdMessages)
      BY DEF TypeInv, Buffers
    <3>. QED
      BY <1>2, <1>4, <3>1, StepLinks
  <2>2. CASE todo[1] \in {Parse1, Parse2, Parse3}
    <3>1. todo[1] # <<>> /\ Head(todo[1]).do \in Transfers \cup Decisions
      BY <2>2, ParseLists, ParseHeads DEF Transfers, Decisions
    <3>2. UNCHANGED <<send_buf, return_buf, pointer>>
      BY <1>1, <1>2, <1>4, <3>1, Exclusive
    <3>. QED
      BY <1>1, <2>1, <3>2 DEF Looks
  <2>. QED
    BY <2>1, <2>2 DEF Looks
<1>5. CASE Core1Pop
  <2>1. todo'[1] = Parse0 \/ Untested(todo'[1])
    BY <1>5, PopChains
  <2>. QED
    BY <2>1, ParseHeads DEF Looks
<1>6. CASE CableChange \/ PowerMessage \/ ChargerChange \/ Answer \/ UNCHANGED vars
  BY <1>1, <1>6, ChipSteps DEF Looks
<1>7. ASSUME NEW c \in Cores, CoreStep(c) PROVE CoreStep(0) \/ CoreStep(1)
  BY <1>7 DEF Cores
<1>. QED
  BY <1>3, <1>4, <1>5, <1>6, <1>7 DEF Next

LEMMA LookingInit == Init => Looking
<1>1. Init => todo[1] = <<>>
  BY DEF Init, Cores
<1>. QED
  BY <1>1, ParseLists DEF Looking, Looks

-----------------------------------------------------------------------------
(* Where the opcode of a self-test is.                                       *)

\* Core 1 does nothing about an opcode before it takes a new entry, reads an answer or
\* begins to add one itself; it may be about to find opcode_queue empty.
ReadsResponse(s) == Head(s).do = "select" /\ Len(s) >= 2 /\ s[2].do = "read_response"
Settled(s) == s # <<>> => /\ Head(s).do \notin {"add", "give", "prepare", "write", "point",
                                                "read_response"}
                          /\ ~ReadsResponse(s)
Calm(s) == Settled(s) /\ (s # <<>> => Head(s).do \notin {"take", "finish"})

\* Nothing is on its way between chip and core 1.
Silent == commands = <<>> /\ "APCmdResI" \notin int
NoneQueued == In(call_queue) = {}
Only(q, k) == \A i, j \in 1..Len(q) : q[i] \in Opcodes /\ q[j] \in Opcodes =>
                                           i = j /\ q[i].n = k

Idle == NoneQueued /\ Silent /\ Calm(todo[1]) /\ ~Answered

\* Where the opcode of a test is that core 0 waits for.
Queued == Only(call_queue, added) /\ Silent /\ Calm(todo[1]) /\ ~Answered
Prepared == NoneQueued /\ Silent /\ At(1, "prepare") /\ running.n = added
Written == /\ NoneQueued /\ Silent /\ At(1, "write")
           /\ send_buf.reg = "OPCODE" /\ send_buf.opcode.n = added
Sent == /\ NoneQueued /\ "APCmdResI" \notin int /\ Calm(todo[1]) /\ ~Answered
        /\ commands # <<>> /\ Tail(commands) = <<>> /\ Head(commands).n = added
Raised == /\ NoneQueued /\ commands = <<>> /\ "APCmdResI" \in int /\ response = added
          /\ Calm(todo[1]) /\ ~Answered
Seen == NoneQueued /\ Silent /\ response = added /\ Answered
Fetched == /\ NoneQueued /\ Silent /\ response = added
           /\ \/ At(1, "point")
              \/ todo[1] # <<>> /\ ReadsResponse(todo[1]) /\ send_buf.reg = "OPCODE_READ"
              \/ At(1, "read_response") /\ pointer = "OPCODE_READ"
Told == /\ NoneQueued /\ Silent /\ Settled(todo[1]) /\ ~Answered
        /\ op_code_return_buf = added
Asked == Queued \/ Prepared \/ Written \/ Sent \/ Raised \/ Seen \/ Fetched

\* Until its wait is over, nothing but the opcode of a test is under way, and the flag
\* is set only when the answer has been read.
Testing ==
    /\ At(0, "add") => ~opcodes_finished /\ Idle /\ opcode_queue = <<>>
    /\ At(0, "take") => /\ ~opcodes_finished /\ Idle
                        /\ opcode_queue # <<>> /\ Tail(opcode_queue) = <<>>
                        /\ Head(opcode_queue).n = added
    /\ At(0, "give") => ~opcodes_finished /\ Idle /\ opcode_queue = <<>> /\ hand[0].n = added
    /\ At(0, "wait") => opcode_queue = <<>> /\ ((~opcodes_finished /\ Asked) \/ Told)
Alone == alone /\ ~Clashed => Testing

\* A step after which a test is still alone and the cores have kept apart.
StaysAlone ==
    /\ TypeInv /\ Links /\ Clear0 /\ Clear1 /\ Chains /\ Looks /\ [Next]_vars
    /\ ~Clash /\ ~Clash' /\ alone'

LEMMA AloneFacts ==
    ASSUME StaysAlone
    PROVE  /\ TypeInv /\ Todos /\ Queues /\ Todos' /\ 0 \in Cores /\ 1 \in Cores /\ Links /\ Chains
           /\ return_buf.of = "PD_STATUS" => return_buf.val \in PdMessages
           /\ return_buf.bits # {} => return_buf.of = "INT"
           /\ call_queue \in Seq(Entries) /\ opcode_queue \in Seq(Opcodes)
           /\ todo[0] \in Seq(Steps) /\ todo[1] \in Seq(Steps) /\ todo'[1] \in Seq(Steps)
           /\ Chained(todo[0]) /\ Ended(todo[0]) /\ Chained(todo[1]) /\ Ended(todo[1])
           /\ Linked(todo[1]) /\ opcodes_finished \in BOOLEAN
<1>1. Todos /\ Todos' /\ TypeInv /\ 0 \in Cores /\ 1 \in Cores /\ Links /\ Chains
  BY TypeNext DEF StaysAlone, TypeInv, Cores
<1>2. todo[0] \in Seq(Steps) /\ todo[1] \in Seq(Steps) /\ todo'[1] \in Seq(Steps)
  BY <1>1 DEF Todos
<1>. QED
  BY <1>1, <1>2 DEF TypeInv, Queues, Buffers, Flags, Chains, Links

LEMMA ResponseTakes ==
    ASSUME NEW s \in Seq(Steps), Chained(s), Ended(s), NEW i \in 1..Len(s), s[i].do = "read_response"
    PROVE  HasTake(s)
<1>1. PICK n \in Nat : n = Len(s)
  OBVIOUS
<1>2. i # n
  <2>1. s # <<>>
    BY EmptySeq
  <2>. QED
    BY <1>1, <2>1 DEF Ended
<1>3. i + 1 \in 1..n /\ i + 1 > 1 /\ (i + 1) - 1 = i
  BY <1>1, <1>2
<1>4. Chain(s[i], s[i + 1])
  BY <1>1, <1>3 DEF Chained
<1>5. s[i + 1].do = "take"
  BY <1>4 DEF Chain
<1>. QED
  BY <1>1, <1>3, <1>5 DEF HasTake

\* What core 1 is at when nothing is under way.
LEMMA QuietIsIdle ==
    ASSUME TypeInv, Chains, Quiet
    PROVE  Idle /\ opcode_queue = <<>>
<1>1. Todos /\ Queues /\ 1 \in Cores /\ Chained(todo[1]) /\ Ended(todo[1])
  BY DEF TypeInv, Chains, Cores
<1>2. PICK s \in Seq(Steps) : s = todo[1]
  BY <1>1 DEF Todos
<1>3. /\ opcode_queue = <<>> /\ commands = <<>> /\ "APCmdResI" \notin int /\ ~AnswerRead
      /\ \A i \in 1..Len(call_queue) : call_queue[i].op \notin Ops
  BY DEF Quiet, UnderWay
<1>4. \A i \in 1..Len(s) : s[i].do \notin {"take", "give", "prepare", "write", "finish"}
  BY <1>2 DEF Quiet, UnderWay, Ahead
<1>5. ~HasTake(s)
  BY <1>4 DEF HasTake
<1>6. NoneQueued
  BY <1>3, OpcodeFacts DEF NoneQueued, In
<1>7. ASSUME s # <<>> PROVE /\ Head(s) # Check1 \/ "APCmdResI" \notin return_buf.bits
                            /\ Calm(s)
  <2>1. /\ Head(s) = s[1] /\ s[1] \in Steps /\ Len(s) \in Nat /\ Len(s) >= 1 /\ 1 \in 1..Len(s)
    BY <1>7, TailIs
  <2>2. Head(s) # Check1 \/ "APCmdResI" \notin return_buf.bits
    BY <1>2, <1>3, <2>1 DEF AnswerRead, Check1
  <2>3. Head(s).do \notin {"take", "give", "prepare", "write", "finish"}
    BY <1>4, <2>1
  <2>4. Block(s, Own(1))
    BY <1>1, <1>2, <1>7, <2>3, AtKinds
  <2>5. Head(s).do # "add"
    <3>1. ASSUME s[1].do = "add" PROVE FALSE
      <4>1. PICK j \in 1..Len(s) : s[j].do = "take"
        BY <2>1, <2>4, <3>1 DEF Block, Served
      <4>. QED
        BY <1>5, <4>1 DEF HasTake
    <3>. QED
      BY <2>1, <3>1
  <2>6. Head(s).do # "read_response"
    BY <1>1, <1>2, <1>5, <2>1, ResponseTakes
  <2>7. ~ReadsResponse(s)
    <3>1. ASSUME ReadsResponse(s) PROVE FALSE
      <4>1. 2 \in 1..Len(s) /\ s[2].do = "read_response"
        BY <2>1, <3>1 DEF ReadsResponse
      <4>. QED
        BY <1>1, <1>2, <1>5, <4>1, ResponseTakes
    <3>. QED
      BY <3>1
  <2>8. Head(s).do # "point"
    <3>1. ASSUME s[1].do = "point" PROVE FALSE
      <4>1. 1 + 2 <= Len(s) /\ s[1 + 2].do = "read_response"
        BY <2>1, <2>4, <3>1 DEF Block, Fetches, FetchAt
      <4>2. 3 \in 1..Len(s) /\ s[3].do = "read_response"
        BY <2>1, <4>1
      <4>. QED
        BY <1>1, <1>2, <1>5, <4>2, ResponseTakes
    <3>. QED
      BY <2>1, <3>1
  <2>. QED
    BY <2>2, <2>3, <2>5, <2>6, <2>7, <2>8 DEF Calm, Settled
<1>8. Calm(s) /\ ~Answered
  BY <1>2, <1>7 DEF Calm, Settled, Answered
<1>. QED
  BY <1>2, <1>3, <1>6, <1>8 DEF Idle, Silent

\* Core 1 adds no opcode without fetching one afterwards: it does not begin in a quiet
\* moment, and no test stays alone.
LEMMA Core1AddsNone ==
    ASSUME StaysAlone
    PROVE  ~Unfinish(1)
<1>. SUFFICES ASSUME Unfinish(1) PROVE FALSE
  OBVIOUS
<1>1. Quiet /\ todo[1] # <<>> /\ Head(todo[1]).do = "unfinish"
  BY DEF Unfinish, At, StaysAlone
<1>2. PICK s \in Seq(Steps) : s = todo[1]
  BY AloneFacts
<1>3. Block(s, Own(1))
  BY <1>1, <1>2, AloneFacts, AtKinds
<1>4. /\ Head(s) = s[1] /\ Len(s) \in Nat /\ Len(s) >= 1
  BY <1>1, <1>2, TailIs
<1>5. PICK t : t = Tail(s)
  OBVIOUS
<1>6. t # <<>> /\ t \in Seq(Steps) /\ t[1] = Head(t) /\ Head(t).do = "add"
  <2>1. /\ t # <<>> => t[1] = Head(t) /\ Chain(Head(s), Head(t))
        /\ t = <<>> => Head(s).do \notin {"read_response", "unfinish"}
        /\ t \in Seq(Steps)
    BY <1>1, <1>2, <1>5, AloneFacts, ChainedTail
  <2>. QED
    BY <1>1, <1>2, <2>1 DEF Chain
<1>7. 2 \in 1..Len(s) /\ s[2].do = "add"
  <2>1. Len(t) = Len(s) - 1 /\ \A i \in 1..Len(s) : i > 1 => t[i - 1] = s[i]
    BY <1>1, <1>2, <1>5, TailIs
  <2>2. Len(t) \in Nat /\ Len(t) # 0
    BY <1>6, LenProperties, EmptySeq
  <2>3. 2 \in 1..Len(s) /\ 2 > 1 /\ 2 - 1 = 1
    BY <1>4, <2>1, <2>2
  <2>. QED
    BY <1>6, <2>1, <2>3
<1>8. PICK j \in 1..Len(s) : s[j].do = "take"
  BY <1>3, <1>7 DEF Block, Served
<1>9. Ahead(1, "take")
  BY <1>2, <1>8 DEF Ahead
<1>. QED
  BY <1>1, <1>9 DEF Quiet, UnderWay

\* Core 1 comes to the answer's registers only through their pointer.
LEMMA Reading ==
    ASSUME StaysAlone, CoreStep(1)
    PROVE  /\ At(1, "read_response")' => Select(1) /\ ReadsResponse(todo[1])
           /\ todo'[1] # <<>> /\ ReadsResponse(todo'[1]) => Point(1)
           /\ Point(1) => /\ todo'[1] # <<>> /\ ReadsResponse(todo'[1])
                          /\ send_buf'.reg = "OPCODE_READ"
           /\ Select(1) /\ ReadsResponse(todo[1]) => At(1, "read_response")'
<1>1. PICK s \in Seq(Steps) : s = todo[1]
  BY AloneFacts
<1>2. PICK t : t = todo'[1]
  OBVIOUS
<1>3. s # <<>>
  BY <1>1, AloneFacts, DoneBy
<1>4. PICK r : r = Tail(s)
  OBVIOUS
<1>5. /\ Head(s) = s[1] /\ Len(s) \in Nat /\ Len(s) >= 1
      /\ r \in Seq(Steps) /\ Len(r) = Len(s) - 1
      /\ \A i \in 1..Len(s) : i > 1 => r[i - 1] = s[i]
  BY <1>1, <1>3, <1>4, TailIs
<1>6. Fill(1) \/ Point(1) \/ Select(1) => t = r
  BY <1>1, <1>2, <1>4, AloneFacts, OthersMove
<1>7. CASE Fill(1) \/ Point(1)
  <2>1. Head(s).do \in {"fill", "point"}
    BY <1>1, <1>7 DEF Fill, Point, At
  <2>2. r # <<>> /\ Len(r) >= 2 /\ Head(r).do = "select"
    BY <1>1, <1>3, <1>4, <2>1, AloneFacts, FillNext
  <2>3. Block(s, Own(1))
    BY <1>1, <1>3, <2>1, AloneFacts, AtKinds
  <2>4. 1 \in 1..Len(s) /\ 3 \in 1..Len(s) /\ 3 > 1 /\ 3 - 1 = 2
    BY <1>5, <2>2
  <2>5. FetchAt(s, 1)
    BY <2>3, <2>4 DEF Block, Fetches
  <2>6. /\ Head(s).do = "fill" => s[3].do = "read"
        /\ Head(s).do = "point" => s[3].do = "read_response"
    BY <1>5, <2>5 DEF FetchAt
  <2>7. r[2] = s[3]
    BY <1>5, <2>4
  <2>8. ASSUME Point(1)
        PROVE  ReadsResponse(r) /\ send_buf'.reg = "OPCODE_READ"
    <3>1. Head(s).do = "point" /\ Head(s) \in Steps
      BY <1>1, <1>3, <2>8, TailIs DEF Point, At
    <3>2. Head(s).arg = "OPCODE_READ"
      BY <3>1, StepArgs
    <3>3. send_buf'.reg = "OPCODE_READ"
      BY <1>1, <2>8, <3>2 DEF Point, Arg
    <3>. QED
      BY <2>2, <2>6, <2>7, <3>1, <3>3 DEF ReadsResponse
  <2>9. ASSUME Fill(1) PROVE ~ReadsResponse(r)
    <3>1. Head(s).do = "fill"
      BY <1>1, <2>9 DEF Fill, At
    <3>. QED
      BY <2>6, <2>7, <3>1 DEF ReadsResponse
  <2>10. ~At(1, "read_response")'
    BY <1>2, <1>6, <1>7, <2>2 DEF At
  <2>11. ~Select(1)
    BY <1>1, <2>1 DEF Select, At
  <2>. QED
    BY <1>2, <1>6, <1>7, <2>2, <2>8, <2>9, <2>10, <2>11
<1>8. CASE Select(1)
  <2>1. Head(s).do = "select"
    BY <1>1, <1>8 DEF Select, At
  <2>2. r # <<>> => Head(r).do # "select"
    BY <1>1, <1>3, <1>4, <2>1, AloneFacts, LinkedTail
  <2>3. ~(t # <<>> /\ ReadsResponse(t))
    BY <1>6, <1>8, <2>2 DEF ReadsResponse
  <2>4. ~Point(1)
    BY <1>1, <2>1 DEF Point, At
  <2>5. At(1, "read_response")' => r # <<>> /\ Head(r).do = "read_response"
    BY <1>2, <1>6, <1>8 DEF At
  <2>6. r # <<>> => Len(r) \in Nat /\ Len(r) >= 1 /\ Head(r) = r[1]
    BY <1>5, TailIs
  <2>7. r # <<>> => Len(s) >= 2 /\ r[1] = s[2]
    <3>1. ASSUME r # <<>> PROVE Len(s) >= 2 /\ r[1] = s[2]
      <4>1. 2 \in 1..Len(s) /\ 2 > 1 /\ 2 - 1 = 1
        BY <1>5, <2>6, <3>1
      <4>. QED
        BY <1>5, <4>1
    <3>. QED
      BY <3>1
  <2>8. At(1, "read_response")' => ReadsResponse(s)
    BY <2>1, <2>5, <2>6, <2>7 DEF ReadsResponse
  <2>9. ReadsResponse(s) => At(1, "read_response")'
    <3>1. ASSUME ReadsResponse(s) PROVE At(1, "read_response")'
      <4>1. Len(r) >= 1 /\ Len(r) \in Nat /\ s[2].do = "read_response"
        BY <1>5, <3>1 DEF ReadsResponse
      <4>2. r # <<>>
        BY <4>1, EmptySeq
      <4>. QED
        BY <1>2, <1>6, <1>8, <2>6, <2>7, <4>1, <4>2 DEF At
    <3>. QED
      BY <3>1
  <2>. QED
    BY <1>1, <1>2, <1>8, <2>3, <2>4, <2>8, <2>9
<1>9. CASE Rests(t) /\ ~Fill(1) /\ ~Point(1) /\ ~Select(1)
  <2>1. ~At(1, "select")' /\ ~At(1, "read_response")'
    BY <1>2, <1>9, AloneFacts, NotReading
  <2>2. ~(t # <<>> /\ ReadsResponse(t))
    BY <1>2, <2>1 DEF ReadsResponse, At
  <2>. QED
    BY <1>2, <1>9, <2>1, <2>2
<1>10. Fill(1) \/ Point(1) \/ Select(1) \/ Rests(t)
  BY <1>2, AloneFacts, StepLinks
<1>. QED
  BY <1>7, <1>8, <1>9, <1>10

\* An entry that is no opcode makes no difference.
LEMMA PlainAppended ==
    ASSUME NEW q \in Seq(Entries), NEW e \in Entries, e \notin Opcodes, NEW k
    PROVE  In(Append(q, e)) = In(q) /\ (Only(q, k) => Only(Append(q, e), k))
<1>1. PICK u : u = Append(q, e)
  OBVIOUS
<1>2. PICK n \in Nat : n = Len(q)
  OBVIOUS
<1>3. Len(u) = n + 1 /\ u[n + 1] = e /\ \A i \in 1..n : u[i] = q[i]
  BY <1>1, <1>2, AppendProperties
<1>4. \A i \in 1..(n + 1) : i = n + 1 \/ i \in 1..n
  OBVIOUS
<1>5. \A i \in 1..n : i \in 1..(n + 1)
  OBVIOUS
<1>6. In(u) = In(q)
  BY <1>2, <1>3, <1>4, <1>5 DEF In
<1>7. ASSUME Only(q, k), NEW i \in 1..(n + 1), NEW j \in 1..(n + 1), u[i] \in Opcodes, u[j] \in Opcodes
      PROVE  i = j /\ u[i].n = k
  <2>1. i \in 1..n /\ j \in 1..n
    BY <1>3, <1>4, <1>7
  <2>. QED
    BY <1>2, <1>3, <1>7, <2>1 DEF Only
<1>8. Only(q, k) => Only(u, k)
  BY <1>3, <1>7 DEF Only
<1>. QED
  BY <1>1, <1>6, <1>8

LEMMA OpcodeAppended ==
    ASSUME NEW q \in Seq(Entries), In(q) = {}, NEW e \in Entries, NEW k, e.n = k
    PROVE  Only(q, k) /\ Only(Append(q, e), k)
<1>1. PICK u : u = Append(q, e)
  OBVIOUS
<1>2. PICK n \in Nat : n = Len(q)
  OBVIOUS
<1>3. Len(u) = n + 1 /\ u[n + 1] = e /\ \A i \in 1..n : u[i] = q[i]
  BY <1>1, <1>2, AppendProperties
<1>4. \A i \in 1..(n + 1) : i = n + 1 \/ i \in 1..n
  OBVIOUS
<1>5. \A i \in 1..n : q[i] \notin Opcodes
  BY <1>2 DEF In
<1>6. Only(u, k)
  <2>1. ASSUME NEW i \in 1..(n + 1), NEW j \in 1..(n + 1), u[i] \in Opcodes, u[j] \in Opcodes
        PROVE  i = j /\ u[i].n = k
    <3>1. i = n + 1 /\ j = n + 1
      BY <1>3, <1>4, <1>5, <2>1
    <3>. QED
      BY <1>3, <3>1
  <2>. QED
    BY <1>3, <2>1 DEF Only
<1>7. Only(q, k)
  BY <1>2, <1>5 DEF Only
<1>. QED
  BY <1>1, <1>6, <1>7

LEMMA EntryTaken ==
    ASSUME NEW q \in Seq(Entries), q # <<>>, NEW k
    PROVE  /\ In(q) = {} => Head(q) \notin Opcodes /\ In(Tail(q)) = {}
           /\ Only(q, k) => Only(Tail(q), k)
           /\ Only(q, k) /\ Head(q) \in Opcodes => In(Tail(q)) = {} /\ Head(q).n = k
<1>1. PICK t : t = Tail(q)
  OBVIOUS
<1>2. PICK n \in Nat : n = Len(q)
  OBVIOUS
<1>3. /\ Head(q) = q[1] /\ n >= 1 /\ Len(t) = n - 1
      /\ \A i \in 1..n : i > 1 => t[i - 1] = q[i]
  BY <1>1, <1>2, TailIs
<1>4. \A i \in 1..(n - 1) : i + 1 \in 1..n /\ i + 1 > 1 /\ (i + 1) - 1 = i /\ i + 1 # 1
  BY <1>3
<1>5. \A i \in 1..(n - 1) : t[i] = q[i + 1]
  BY <1>3, <1>4
<1>6. 1 \in 1..n
  BY <1>3
<1>7. ASSUME In(q) = {} PROVE Head(q) \notin Opcodes /\ In(t) = {}
  <2>1. \A i \in 1..n : q[i] \notin Opcodes
    BY <1>2, <1>7 DEF In
  <2>2. \A i \in 1..(n - 1) : t[i] \notin Opcodes
    BY <1>4, <1>5, <2>1
  <2>. QED
    BY <1>3, <1>6, <2>1, <2>2 DEF In
<1>8. ASSUME Only(q, k) PROVE Only(t, k)
  <2>1. ASSUME NEW i \in 1..(n - 1), NEW j \in 1..(n - 1), t[i] \in Opcodes, t[j] \in Opcodes
        PROVE  i = j /\ t[i].n = k
    <3>1. i + 1 \in 1..n /\ j + 1 \in 1..n /\ t[i] = q[i + 1] /\ t[j] = q[j + 1]
      BY <1>4, <1>5
    <3>2. i + 1 = j + 1 /\ q[i + 1].n = k
      BY <1>2, <1>8, <2>1, <3>1 DEF Only
    <3>. QED
      BY <3>1, <3>2
  <2>. QED
    BY <1>3, <2>1 DEF Only
<1>9. ASSUME Only(q, k), Head(q) \in Opcodes PROVE In(t) = {} /\ Head(q).n = k
  <2>1. \A i \in 1..(n - 1) : t[i] \notin Opcodes
    BY <1>2, <1>3, <1>4, <1>5, <1>6, <1>9 DEF Only
  <2>2. Head(q).n = k
    BY <1>2, <1>3, <1>6, <1>9 DEF Only
  <2>. QED
    BY <1>3, <2>1, <2>2 DEF In
<1>. QED
  BY <1>1, <1>7, <1>8, <1>9

\* A step of core 1 while it has nothing to do with opcodes.
LEMMA FreeStep ==
    ASSUME StaysAlone, CoreStep(1), Settled(todo[1]), ~Answered,
           Calm(todo[1]) \/ opcode_queue = <<>>
    PROVE  /\ Settled(todo'[1])
           /\ Calm(todo[1]) => Calm(todo'[1]) /\ opcodes_finished' = opcodes_finished
           /\ UNCHANGED <<opcode_queue, commands, response, op_code_return_buf, hand, added>>
           /\ In(call_queue') = In(call_queue) /\ (Only(call_queue, added) => Only(call_queue', added))
           /\ Answered' => "APCmdResI" \in int /\ int' = {}
           /\ ~Answered' => ("APCmdResI" \in int' <=> "APCmdResI" \in int)
<1>1. PICK s \in Seq(Steps) : s = todo[1]
  BY AloneFacts
<1>2. PICK t : t = todo'[1]
  OBVIOUS
<1>3. s # <<>> /\ Head(s) \in Steps
  BY <1>1, AloneFacts, DoneBy, TailIs
<1>4. PICK a : a = Head(s)
  OBVIOUS
<1>5. \A do : At(1, do) <=> a.do = do
  BY <1>1, <1>3, <1>4 DEF At
<1>6. /\ a.do # "add" /\ a.do # "give" /\ a.do # "prepare" /\ a.do # "write" /\ a.do # "point"
      /\ a.do # "read_response" /\ ~ReadsResponse(s)
  BY <1>1, <1>3, <1>4 DEF Settled
<1>7. ~Enter(1)
  BY AloneFacts, EnterMoves
<1>8. \/ Fill(1) \/ Select(1) \/ Read(1) \/ (Take(1) /\ opcode_queue = <<>>)
      \/ Finish(1) \/ Queue(1) \/ Check(1) \/ SwitchCc(1) \/ SwitchPd(1)
  <2>1. ~Point(1) /\ ~ReadResponse(1) /\ ~Add(1) /\ ~Give(1) /\ ~Drop(1) /\ ~Prepare(1) /\ ~Write(1)
    BY <1>5, <1>6 DEF Point, ReadResponse, Add, Give, Drop, Prepare, Write
  <2>2. Take(1) => opcode_queue = <<>>
    <3>1. Take(1) => ~Calm(s)
      BY <1>3, <1>4, <1>5 DEF Take, Calm
    <3>. QED
      BY <1>1, <3>1
  <2>. QED
    BY <1>7, <2>1, <2>2, Core1AddsNone DEF CoreStep
<1>9. ~Point(1) /\ ~Unfinish(1) /\ ~Add(1) /\ ~ReadResponse(1) /\ ~Give(1) /\ ~Drop(1) /\ ~Prepare(1)
  BY <1>5, <1>6, Core1AddsNone DEF Point, Add, ReadResponse, Give, Drop, Prepare
<1>10. ~Answers(1)
  <2>1. ASSUME Answers(1) PROVE FALSE
    <3>1. At(1, "check") /\ Arg(1) = "APCmdResI" /\ \E set \in Tested("APCmdResI") : set
      BY <2>1 DEF Answers, Check
    <3>2. a = Check1
      <4>1. a.do = "check" /\ a.arg = "APCmdResI"
        BY <1>1, <1>4, <1>5, <3>1 DEF Arg
      <4>. QED
        BY <1>3, <1>4, <4>1, StepArgs DEF Check1
    <3>3. ~Untested(s)
      BY <1>3, <1>4, <3>2, UntestedTail
    <3>4. s = Parse3
      <4>1. s \in {Parse0, Parse1, Parse2, Parse3}
        BY <1>1, <3>3 DEF StaysAlone, Chains
      <4>2. Check1.do = "check"
        BY DoOf DEF Check1
      <4>. QED
        BY <1>4, <3>2, <4>1, <4>2, ParseHeads
    <3>5. return_buf.of = "INT"
      BY <1>1, <3>4 DEF StaysAlone, Looks
    <3>6. "APCmdResI" \notin return_buf.bits
      BY <1>1, <1>3, <1>4, <3>2 DEF Answered
    <3>7. PICK set \in Tested("APCmdResI") : set
      BY <3>1, Zenon
    <3>8. set = FALSE
      BY <3>5, <3>6 DEF Tested
    <3>. QED
      BY <3>7, <3>8, Zenon
  <2>. QED
    BY <2>1
<1>11. /\ At(1, "add")' => Unfinish(1)
       /\ At(1, "take")' => Add(1) \/ ReadResponse(1)
       /\ At(1, "finish")' => Take(1) \/ Give(1) \/ Drop(1)
       /\ At(1, "give")' => Take(1) /\ opcode_queue # <<>>
       /\ At(1, "write")' => Prepare(1)
       /\ ~At(1, "prepare")'
       /\ At(1, "point")' => Answers(1)
  BY AloneFacts, Arrives
<1>12. Take(1) => opcode_queue = <<>> /\ ~Calm(s)
  <2>1. Take(1) => ~Calm(s)
    BY <1>3, <1>4, <1>5 DEF Take, Calm
  <2>. QED
    BY <1>1, <2>1
<1>13. /\ ~At(1, "add")' /\ ~At(1, "take")' /\ ~At(1, "give")' /\ ~At(1, "write")' /\ ~At(1, "prepare")'
       /\ ~At(1, "point")' /\ (Calm(s) => ~At(1, "finish")')
  BY <1>9, <1>10, <1>11, <1>12
<1>14. ~At(1, "read_response")' /\ ~(t # <<>> /\ ReadsResponse(t))
  BY <1>1, <1>2, <1>6, <1>9, Reading
<1>15. Settled(t)
  <2>1. ASSUME t # <<>>
        PROVE  Head(t).do \notin {"add", "give", "prepare", "write", "point", "read_response"}
    BY <1>2, <1>13, <1>14, <2>1 DEF At
  <2>. QED
    BY <1>14, <2>1 DEF Settled
<1>16. Calm(s) => Calm(t)
  <2>1. ASSUME Calm(s), t # <<>> PROVE Head(t).do \notin {"take", "finish"}
    BY <1>2, <1>13, <2>1 DEF At
  <2>. QED
    BY <1>15, <2>1 DEF Calm
<1>17. Calm(s) => opcodes_finished' = opcodes_finished
  <2>1. Calm(s) => ~Finish(1)
    BY <1>3, <1>4, <1>5 DEF Finish, Calm
  <2>2. ~Finish(1) => opcodes_finished' = opcodes_finished
    BY <1>8 DEF Fill, Select, Read, Take, Queue, Check, SwitchCc, SwitchPd
  <2>. QED
    BY <2>1, <2>2
<1>18. UNCHANGED <<opcode_queue, commands, response, op_code_return_buf, hand, added>>
  BY <1>8 DEF Fill, Select, Read, Take, Finish, Queue, Check, SwitchCc, SwitchPd, queues, chip, buffers,
     histories
<1>19. In(call_queue') = In(call_queue) /\ (Only(call_queue, added) => Only(call_queue', added))
  <2>1. CASE Queue(1)
    <3>1. PICK e \in Entries : e = Plain("pd_msg_response") /\ e \notin Opcodes
      BY OpcodeFacts
    <3>2. call_queue' = Append(call_queue, e)
      BY <2>1, <3>1, AloneFacts, QueueQueues
    <3>. QED
      BY <3>1, <3>2, AloneFacts, PlainAppended
  <2>2. CASE ~Queue(1)
    <3>1. call_queue' = call_queue
      BY <1>8, <2>2 DEF Fill, Select, Read, Take, Finish, Check, SwitchCc, SwitchPd, queues
    <3>. QED
      BY <3>1
  <2>. QED
    BY <2>1, <2>2
<1>20. Answered' => "APCmdResI" \in int /\ int' = {}
  <2>1. ASSUME Answered' PROVE "APCmdResI" \in int /\ int' = {}
    <3>1. t # <<>> /\ Head(t) = Check1 /\ "APCmdResI" \in return_buf'.bits
      BY <1>2, <2>1 DEF Answered
    <3>2. t \in Seq(Steps)
      BY <1>2, AloneFacts
    <3>3. ~Untested(t) /\ Head(t).do = "check"
      BY <3>1, <3>2, UntestedTail, DoOf DEF Check1
    <3>4. s \in {Parse0, Parse1, Parse2, Parse3} \/ Untested(s)
      BY <1>1, AloneFacts DEF Chains
    <3>5. s = Parse2
      <4>1. /\ s = Parse0 => t = Parse1
            /\ s = Parse1 => t = Parse2
            /\ s = Parse3 => Untested(t)
            /\ Untested(s) => Untested(t)
        BY <1>1, <1>2, AloneFacts, ParseSteps
      <4>. QED
        BY <3>3, <3>4, <4>1, ParseHeads
    <3>6. Read(1) /\ pointer = "INT"
      BY <1>1, <3>5, AloneFacts, ParseSteps DEF StaysAlone, Looks
    <3>7. return_buf' = Registered("INT") /\ int' = {}
      BY <3>6 DEF Read
    <3>8. return_buf'.bits = int
      BY <3>7 DEF Registered, Contents
    <3>. QED
      BY <3>1, <3>7, <3>8
  <2>. QED
    BY <2>1
<1>21. ~Answered' => ("APCmdResI" \in int' <=> "APCmdResI" \in int)
  <2>1. CASE Read(1) /\ pointer = "INT"
    <3>1. Len(s) >= 2 /\ s[2] = Check1
      BY <1>1, <2>1 DEF StaysAlone, Clear1, Read
    <3>2. t = Tail(s)
      BY <1>1, <1>2, <2>1, AloneFacts, OthersMove
    <3>3. /\ t \in Seq(Steps) /\ Len(s) \in Nat /\ Len(t) = Len(s) - 1
          /\ \A i \in 1..Len(s) : i > 1 => t[i - 1] = s[i]
      BY <1>3, <3>2, TailIs
    <3>4. 2 \in 1..Len(s) /\ 2 > 1 /\ 2 - 1 = 1
      BY <3>1, <3>3
    <3>5. t[1] = Check1 /\ Len(t) # 0
      BY <3>1, <3>3, <3>4
    <3>6. t # <<>>
      BY <3>3, <3>5, NotEmpty
    <3>7. Head(t) = Check1
      BY <3>3, <3>5, <3>6, TailIs
    <3>8. return_buf' = Registered("INT") /\ int' = {}
      BY <2>1 DEF Read
    <3>9. return_buf'.bits = int
      BY <3>8 DEF Registered, Contents
    <3>10. "APCmdResI" \in int => Answered'
      BY <1>2, <3>6, <3>7, <3>9 DEF Answered
    <3>. QED
      BY <3>8, <3>10
  <2>2. CASE ~(Read(1) /\ pointer = "INT")
    <3>1. int' = int
      BY <1>8, <2>2 DEF Fill, Select, Read, Take, Finish, Queue, Check, SwitchCc, SwitchPd, chip
    <3>. QED
      BY <3>1
  <2>. QED
    BY <2>1, <2>2
<1>. QED
  BY <1>1, <1>2, <1>15, <1>16, <1>17, <1>18, <1>19, <1>20, <1>21

\* Core 1 takes the opcode of the test through its stages.
LEMMA QueuedSteps ==
    ASSUME StaysAlone, CoreStep(1), opcode_queue = <<>>, ~opcodes_finished, Queued
    PROVE  opcode_queue' = <<>> /\ ~opcodes_finished' /\ Queued'
<1>1. Calm(todo[1]) /\ Settled(todo[1]) /\ ~Answered /\ Silent /\ Only(call_queue, added)
  BY DEF Queued, Calm
<1>2. /\ Calm(todo'[1]) /\ opcodes_finished' = opcodes_finished
      /\ UNCHANGED <<opcode_queue, commands, added>>
      /\ Only(call_queue', added)
      /\ Answered' => "APCmdResI" \in int
      /\ ~Answered' => ("APCmdResI" \in int' <=> "APCmdResI" \in int)
  BY <1>1, FreeStep
<1>. QED
  BY <1>1, <1>2 DEF Queued, Silent

LEMMA PreparedSteps ==
    ASSUME StaysAlone, CoreStep(1), opcode_queue = <<>>, ~opcodes_finished, Prepared
    PROVE  opcode_queue' = <<>> /\ ~opcodes_finished' /\ Written'
<1>1. /\ Prepare(1) /\ todo[1] # <<>> /\ Head(todo[1]).do = "prepare" /\ running.n = added
      /\ NoneQueued /\ Silent
  BY AloneFacts, DoneBy DEF Prepared, At
<1>2. Tail(todo[1]) = <<WriteStep>>
  BY <1>1, AloneFacts, AtKinds
<1>3. todo'[1] = <<WriteStep>>
  BY <1>1, <1>2, AloneFacts, OthersMove
<1>4. At(1, "write")'
  <2>1. PICK w : w = WriteStep
    OBVIOUS
  <2>2. w.do = "write"
    BY <2>1, DoOf DEF WriteStep
  <2>3. <<w>> # <<>> /\ Head(<<w>>) = w
    OBVIOUS
  <2>. QED
    BY <1>3, <2>1, <2>2, <2>3 DEF At
<1>5. send_buf' = [reg |-> "OPCODE", opcode |-> running]
  BY <1>1 DEF Prepare
<1>6. send_buf'.reg = "OPCODE" /\ send_buf'.opcode.n = added
  BY <1>1, <1>5
<1>7. UNCHANGED <<queues, chip, opcodes_finished, added>>
  BY <1>1 DEF Prepare
<1>. QED
  BY <1>1, <1>4, <1>6, <1>7 DEF Written, NoneQueued, Silent, queues, chip

LEMMA WrittenSteps ==
    ASSUME StaysAlone, CoreStep(1), opcode_queue = <<>>, ~opcodes_finished, Written
    PROVE  opcode_queue' = <<>> /\ ~opcodes_finished' /\ Sent'
<1>1. /\ Write(1) /\ todo[1] # <<>> /\ Head(todo[1]).do = "write"
      /\ send_buf.reg = "OPCODE" /\ send_buf.opcode.n = added /\ NoneQueued
      /\ commands = <<>> /\ "APCmdResI" \notin int
  BY AloneFacts, DoneBy DEF Written, Silent, At
<1>2. Tail(todo[1]) = <<>>
  BY <1>1, AloneFacts, AtKinds
<1>3. todo'[1] = <<>>
  BY <1>1, <1>2, AloneFacts, OthersMove
<1>4. PICK e : e = send_buf.opcode
  OBVIOUS
<1>5. commands' = <<e>>
  <2>1. commands' \in Accepted(e)
    BY <1>1, <1>4 DEF Write
  <2>2. Append(commands, e) = <<e>>
    BY <1>1
  <2>. QED
    BY <1>1, <2>1, <2>2 DEF Accepted
<1>6. commands' # <<>> /\ Tail(commands') = <<>> /\ Head(commands').n = added
  <2>1. <<e>> # <<>> /\ Tail(<<e>>) = <<>> /\ Head(<<e>>) = e
    OBVIOUS
  <2>. QED
    BY <1>1, <1>4, <1>5, <2>1
<1>7. UNCHANGED <<queues, int, opcodes_finished, added>>
  BY <1>1 DEF Write, histories
<1>. QED
  BY <1>1, <1>3, <1>6, <1>7 DEF Sent, NoneQueued, Calm, Settled, Answered, queues

LEMMA SentSteps ==
    ASSUME StaysAlone, CoreStep(1), opcode_queue = <<>>, ~opcodes_finished, Sent
    PROVE  opcode_queue' = <<>> /\ ~opcodes_finished' /\ Sent'
<1>1. /\ Calm(todo[1]) /\ Settled(todo[1]) /\ ~Answered /\ NoneQueued /\ "APCmdResI" \notin int
      /\ commands # <<>> /\ Tail(commands) = <<>> /\ Head(commands).n = added
  BY DEF Sent, Calm
<1>2. /\ Calm(todo'[1]) /\ opcodes_finished' = opcodes_finished
      /\ UNCHANGED <<opcode_queue, commands, added>>
      /\ In(call_queue') = In(call_queue)
      /\ Answered' => "APCmdResI" \in int
      /\ ~Answered' => ("APCmdResI" \in int' <=> "APCmdResI" \in int)
  BY <1>1, FreeStep
<1>. QED
  BY <1>1, <1>2 DEF Sent, NoneQueued

LEMMA RaisedSteps ==
    ASSUME StaysAlone, CoreStep(1), opcode_queue = <<>>, ~opcodes_finished, Raised
    PROVE  opcode_queue' = <<>> /\ ~opcodes_finished' /\ (Raised' \/ Seen')
<1>1. /\ Calm(todo[1]) /\ Settled(todo[1]) /\ ~Answered /\ NoneQueued /\ "APCmdResI" \in int
      /\ commands = <<>> /\ response = added
  BY DEF Raised, Calm
<1>2. /\ Calm(todo'[1]) /\ opcodes_finished' = opcodes_finished
      /\ UNCHANGED <<opcode_queue, commands, response, added>>
      /\ In(call_queue') = In(call_queue)
      /\ Answered' => int' = {}
      /\ ~Answered' => ("APCmdResI" \in int' <=> "APCmdResI" \in int)
  BY <1>1, FreeStep
<1>3. ASSUME Answered' PROVE Seen'
  BY <1>1, <1>2, <1>3 DEF Seen, Silent, NoneQueued
<1>4. ASSUME ~Answered' PROVE Raised'
  BY <1>1, <1>2, <1>4 DEF Raised, NoneQueued
<1>. QED
  BY <1>1, <1>2, <1>3, <1>4

LEMMA SeenSteps ==
    ASSUME StaysAlone, CoreStep(1), opcode_queue = <<>>, ~opcodes_finished, Seen
    PROVE  opcode_queue' = <<>> /\ ~opcodes_finished' /\ Fetched'
<1>1. PICK s \in Seq(Steps) : s = todo[1]
  BY AloneFacts
<1>2. /\ s # <<>> /\ Head(s) = Check1 /\ "APCmdResI" \in return_buf.bits
      /\ NoneQueued /\ Silent /\ response = added
  BY <1>1 DEF Seen, Answered
<1>3. Head(s).do = "check" /\ Head(s).arg = "APCmdResI"
  BY <1>2, DoOf DEF Check1
<1>4. Check(1) /\ Arg(1) = "APCmdResI"
  BY <1>1, <1>2, <1>3, AloneFacts, DoneBy DEF At, Arg
<1>5. PICK set \in Tested("APCmdResI") : set => todo'[1] = OnOpcodeCmdResponse \o Tail(s)
  <2>1. PICK bit \in Ints : bit = "APCmdResI"
    BY DEF Ints
  <2>2. PICK r : r = Tail(s)
    OBVIOUS
  <2>3. PICK set \in Tested(bit) : todo'[1] = (IF set THEN Handler(bit) ELSE <<>>) \o r
    <3>1. PICK c \in Cores : c = 1
      BY DEF Cores
    <3>2. Todos /\ Check(c) /\ bit = Arg(c) /\ r = Tail(todo[c])
      BY <1>1, <1>4, <2>1, <2>2, <3>1, AloneFacts
    <3>3. \E set \in Tested(Arg(c)) :
              todo'[c] = (IF set THEN Handler(Arg(c)) ELSE <<>>) \o Tail(todo[c])
      BY <3>1, <3>2, CheckMoves
    <3>. QED
      BY <3>1, <3>2, <3>3
  <2>4. set => todo'[1] = Handler(bit) \o r
    BY <2>3
  <2>5. set => todo'[1] = OnOpcodeCmdResponse \o Tail(s)
    BY <2>1, <2>2, <2>4 DEF Handler
  <2>6. set \in Tested("APCmdResI")
    BY <2>1, <2>3
  <2>. QED
    BY <2>5, <2>6
<1>6. set
  <2>1. return_buf.of = "INT"
    BY <1>2, AloneFacts
  <2>2. Tested("APCmdResI") = {"APCmdResI" \in return_buf.bits}
    BY <2>1 DEF Tested
  <2>3. set = ("APCmdResI" \in return_buf.bits)
    BY <2>2, Zenon
  <2>. QED
    BY <1>2, <2>3, Zenon
<1>7. todo'[1] = OnOpcodeCmdResponse \o Tail(s)
  BY <1>5, <1>6
<1>8. todo'[1] # <<>> /\ Head(todo'[1]).do \in {"point"}
  BY <1>1, <1>2, <1>3, <1>7, AloneFacts, BeginsCalls, BeginsCat
<1>9. UNCHANGED <<queues, chip, opcodes_finished, added>>
  BY <1>4 DEF Check, histories
<1>. QED
  BY <1>2, <1>8, <1>9 DEF Fetched, At, NoneQueued, Silent, queues, chip

LEMMA FetchedSteps ==
    ASSUME StaysAlone, CoreStep(1), opcode_queue = <<>>, ~opcodes_finished, Fetched
    PROVE  opcode_queue' = <<>> /\ ((~opcodes_finished' /\ Fetched') \/ Told')
<1>1. NoneQueued /\ Silent /\ response = added
  BY DEF Fetched
<1>2. CASE At(1, "point")
  <2>1. Point(1)
    BY <1>2, AloneFacts, DoneBy
  <2>2. todo'[1] # <<>> /\ ReadsResponse(todo'[1]) /\ send_buf'.reg = "OPCODE_READ"
    BY <2>1, Reading
  <2>3. UNCHANGED <<queues, chip, opcodes_finished, added>>
    BY <2>1 DEF Point, histories
  <2>. QED
    BY <1>1, <2>2, <2>3 DEF Fetched, NoneQueued, Silent, queues, chip
<1>3. CASE todo[1] # <<>> /\ ReadsResponse(todo[1]) /\ send_buf.reg = "OPCODE_READ"
  <2>1. Select(1)
    BY <1>3, AloneFacts, DoneBy DEF ReadsResponse, At
  <2>2. At(1, "read_response")'
    BY <1>3, <2>1, Reading
  <2>3. pointer' = "OPCODE_READ" /\ UNCHANGED <<queues, int, commands, response, opcodes_finished, added>>
    BY <1>3, <2>1 DEF Select, histories
  <2>. QED
    BY <1>1, <2>2, <2>3 DEF Fetched, NoneQueued, Silent, queues
<1>4. CASE At(1, "read_response") /\ pointer = "OPCODE_READ"
  <2>1. ReadResponse(1)
    BY <1>4, AloneFacts, DoneBy
  <2>2. todo'[1] # <<>> /\ Head(todo'[1]).do = "take"
    BY <2>1, AloneFacts, Arrives DEF At
  <2>3. op_code_return_buf' = added /\ UNCHANGED <<queues, int, commands, added>>
    BY <1>1, <1>4, <2>1 DEF ReadResponse, histories
  <2>4. Settled(todo'[1])
    BY <2>2 DEF Settled, ReadsResponse
  <2>5. ~Answered'
    <3>1. Check1.do = "check"
      BY DoOf DEF Check1
    <3>. QED
      BY <2>2, <3>1 DEF Answered
  <2>. QED
    BY <1>1, <2>3, <2>4, <2>5 DEF Told, NoneQueued, Silent, queues
<1>. QED
  BY <1>2, <1>3, <1>4 DEF Fetched

LEMMA ToldSteps ==
    ASSUME StaysAlone, CoreStep(1), opcode_queue = <<>>, Told
    PROVE  opcode_queue' = <<>> /\ Told'
<1>1. Settled(todo[1]) /\ ~Answered /\ NoneQueued /\ Silent /\ op_code_return_buf = added
  BY DEF Told
<1>2. /\ Settled(todo'[1]) /\ UNCHANGED <<opcode_queue, commands, op_code_return_buf, added>>
      /\ In(call_queue') = In(call_queue)
      /\ Answered' => "APCmdResI" \in int
      /\ ~Answered' => ("APCmdResI" \in int' <=> "APCmdResI" \in int)
  BY <1>1, FreeStep
<1>. QED
  BY <1>1, <1>2 DEF Told, Silent, NoneQueued

LEMMA IdleSteps ==
    ASSUME StaysAlone, CoreStep(1), Idle
    PROVE  Idle' /\ UNCHANGED <<opcode_queue, opcodes_finished, hand, added>>
<1>1. Calm(todo[1]) /\ Settled(todo[1]) /\ ~Answered /\ NoneQueued /\ Silent
  BY DEF Idle, Calm
<1>2. /\ Calm(todo'[1]) /\ UNCHANGED <<opcode_queue, opcodes_finished, commands, hand, added>>
      /\ In(call_queue') = In(call_queue)
      /\ Answered' => "APCmdResI" \in int
      /\ ~Answered' => ("APCmdResI" \in int' <=> "APCmdResI" \in int)
  BY <1>1, FreeStep
<1>. QED
  BY <1>1, <1>2 DEF Idle, Silent, NoneQueued

LEMMA AskedSteps ==
    ASSUME StaysAlone, CoreStep(1), opcode_queue = <<>>, (~opcodes_finished /\ Asked) \/ Told
    PROVE  opcode_queue' = <<>> /\ ((~opcodes_finished' /\ Asked') \/ Told')
<1>1. CASE Told
  BY <1>1, ToldSteps
<1>2. CASE ~opcodes_finished /\ Asked
  BY <1>2, QueuedSteps, PreparedSteps, WrittenSteps, SentSteps, RaisedSteps, SeenSteps, FetchedSteps
     DEF Asked
<1>. QED
  BY <1>1, <1>2

\* Core 1 takes an entry of call_queue.
LEMMA PopStages ==
    ASSUME StaysAlone, Core1Pop
    PROVE  /\ UNCHANGED <<opcode_queue, commands, int, response, op_code_return_buf,
                          opcodes_finished, hand, added>>
           /\ todo[1] = <<>> /\ todo'[0] = todo[0]
           /\ NoneQueued => NoneQueued' /\ Calm(todo'[1]) /\ ~Answered'
           /\ Only(call_queue, added) =>
                  \/ Only(call_queue', added) /\ Calm(todo'[1]) /\ ~Answered'
                  \/ NoneQueued' /\ At(1, "prepare")' /\ running'.n = added
<1>1. /\ call_queue # <<>> /\ running' = Head(call_queue) /\ call_queue' = Tail(call_queue)
      /\ UNCHANGED <<opcode_queue, buffers, opcodes_finished, hand, chip, added>>
      /\ todo[1] = <<>>
  BY DEF Core1Pop, histories
<1>2. /\ todo'[0] = todo[0] /\ todo'[1] # <<>>
      /\ running' \in Opcodes => Head(todo'[1]).do = "prepare"
      /\ running' \notin Opcodes => Head(todo'[1]).do = "fill"
  BY AloneFacts, PopChains
<1>3. ASSUME running' \notin Opcodes PROVE Calm(todo'[1]) /\ ~Answered'
  <2>1. Head(todo'[1]).do = "fill"
    BY <1>2, <1>3
  <2>2. Check1.do = "check"
    BY DoOf DEF Check1
  <2>3. Calm(todo'[1])
    BY <2>1 DEF Calm, Settled, ReadsResponse
  <2>4. ~Answered'
    BY <2>1, <2>2 DEF Answered
  <2>. QED
    BY <2>3, <2>4
<1>4. PICK q \in Seq(Entries) : q = call_queue
  BY AloneFacts
<1>5. /\ In(q) = {} => Head(q) \notin Opcodes /\ In(Tail(q)) = {}
      /\ Only(q, added) => Only(Tail(q), added)
      /\ Only(q, added) /\ Head(q) \in Opcodes => In(Tail(q)) = {} /\ Head(q).n = added
  BY <1>1, <1>4, EntryTaken
<1>6. NoneQueued => NoneQueued' /\ Calm(todo'[1]) /\ ~Answered'
  <2>1. ASSUME NoneQueued PROVE NoneQueued' /\ running' \notin Opcodes
    BY <1>1, <1>4, <1>5, <2>1 DEF NoneQueued
  <2>. QED
    BY <1>3, <2>1
<1>7. ASSUME Only(call_queue, added)
      PROVE  \/ Only(call_queue', added) /\ Calm(todo'[1]) /\ ~Answered'
             \/ NoneQueued' /\ At(1, "prepare")' /\ running'.n = added
  <2>1. CASE running' \notin Opcodes
    <3>1. Only(call_queue', added)
      BY <1>1, <1>4, <1>5, <1>7
    <3>. QED
      BY <1>3, <2>1, <3>1
  <2>2. CASE running' \in Opcodes
    <3>1. NoneQueued' /\ running'.n = added
      BY <1>1, <1>4, <1>5, <1>7, <2>2 DEF NoneQueued
    <3>2. At(1, "prepare")'
      BY <1>2, <2>2 DEF At
    <3>. QED
      BY <3>1, <3>2
  <2>. QED
    BY <2>1, <2>2
<1>. QED
  BY <1>1, <1>2, <1>6, <1>7 DEF buffers, chip

LEMMA AskedPops ==
    ASSUME StaysAlone, Core1Pop, opcode_queue = <<>>, (~opcodes_finished /\ Asked) \/ Told
    PROVE  opcode_queue' = <<>> /\ ((~opcodes_finished' /\ Asked') \/ Told')
<1>1. /\ UNCHANGED <<opcode_queue, commands, int, response, op_code_return_buf,
                     opcodes_finished, added>>
      /\ todo[1] = <<>>
      /\ NoneQueued => NoneQueued' /\ Calm(todo'[1]) /\ ~Answered'
      /\ Only(call_queue, added) =>
             \/ Only(call_queue', added) /\ Calm(todo'[1]) /\ ~Answered'
             \/ NoneQueued' /\ At(1, "prepare")' /\ running'.n = added
  BY PopStages
<1>2. Calm(todo'[1]) => Settled(todo'[1])
  BY DEF Calm
<1>3. Silent => Silent'
  BY <1>1 DEF Silent
<1>4. ASSUME Told PROVE Told'
  BY <1>1, <1>2, <1>3, <1>4 DEF Told
<1>5. ASSUME Queued PROVE Queued' \/ Prepared'
  BY <1>1, <1>3, <1>5 DEF Queued, Prepared
<1>6. ASSUME Sent PROVE Sent'
  BY <1>1, <1>6 DEF Sent
<1>7. ASSUME Raised PROVE Raised'
  BY <1>1, <1>7 DEF Raised
<1>8. ~Prepared /\ ~Written /\ ~Seen /\ ~Fetched
  BY <1>1 DEF Prepared, Written, Seen, Fetched, At, Answered
<1>. QED
  BY <1>1, <1>4, <1>5, <1>6, <1>7, <1>8 DEF Asked

LEMMA IdlePops ==
    ASSUME StaysAlone, Core1Pop, Idle
    PROVE  Idle' /\ UNCHANGED <<opcode_queue, opcodes_finished, hand, added>>
<1>1. /\ UNCHANGED <<opcode_queue, commands, int, opcodes_finished, hand, added>>
      /\ NoneQueued => NoneQueued' /\ Calm(todo'[1]) /\ ~Answered'
  BY PopStages
<1>. QED
  BY <1>1 DEF Idle, Silent

\* Interrupts for other reasons change nothing about the opcode.
LEMMA OtherInterrupts ==
    ASSUME StaysAlone, CableChange \/ PowerMessage \/ ChargerChange \/ UNCHANGED vars
    PROVE  /\ UNCHANGED <<todo, opcode_queue, hand, running, send_buf, return_buf, pointer,
                          op_code_return_buf, opcodes_finished, commands, response, added>>
           /\ "APCmdResI" \in int' <=> "APCmdResI" \in int
           /\ In(call_queue') = In(call_queue) /\ (Only(call_queue, added) => Only(call_queue', added))
<1>1. CASE UNCHANGED vars
  BY <1>1 DEF vars
<1>2. ASSUME NEW bit, bit # "APCmdResI", Raise(bit), NEW kind, Happens(kind)
      PROVE  /\ UNCHANGED <<todo, opcode_queue, hand, running, send_buf, return_buf, pointer,
                            op_code_return_buf, opcodes_finished, commands, response, added>>
             /\ "APCmdResI" \in int' <=> "APCmdResI" \in int
             /\ In(call_queue') = In(call_queue) /\ (Only(call_queue, added) => Only(call_queue', added))
  <2>1. PICK e \in Entries : e = Plain("parse_interrupt_vals") /\ e \notin Opcodes
    BY OpcodeFacts
  <2>2. call_queue' = Append(call_queue, e) \/ call_queue' = call_queue
    BY <1>2, <2>1 DEF Raise
  <2>3. In(call_queue') = In(call_queue) /\ (Only(call_queue, added) => Only(call_queue', added))
    BY <2>1, <2>2, AloneFacts, PlainAppended
  <2>4. "APCmdResI" \in int' <=> "APCmdResI" \in int
    BY <1>2 DEF Raise
  <2>. QED
    BY <1>2, <2>3, <2>4 DEF Happens, buffers, histories
<1>3. CASE CableChange
  BY <1>2, <1>3 DEF CableChange
<1>4. CASE PowerMessage
  BY <1>2, <1>4 DEF PowerMessage
<1>5. CASE ChargerChange
  BY <1>2, <1>5 DEF ChargerChange
<1>. QED
  BY <1>1, <1>3, <1>4, <1>5

LEMMA AskedInterrupted ==
    ASSUME StaysAlone, CableChange \/ PowerMessage \/ ChargerChange \/ UNCHANGED vars,
           opcode_queue = <<>>, (~opcodes_finished /\ Asked) \/ Told
    PROVE  opcode_queue' = <<>> /\ ((~opcodes_finished' /\ Asked') \/ Told')
<1>1. /\ UNCHANGED <<todo, opcode_queue, hand, running, send_buf, return_buf, pointer,
                     op_code_return_buf, opcodes_finished, commands, response, added>>
      /\ "APCmdResI" \in int' <=> "APCmdResI" \in int
      /\ In(call_queue') = In(call_queue) /\ (Only(call_queue, added) => Only(call_queue', added))
  BY OtherInterrupts
<1>2. NoneQueued' = NoneQueued /\ (Silent => Silent') /\ (Answered <=> Answered')
  BY <1>1 DEF NoneQueued, Silent, Answered
<1>3. /\ At(1, "prepare") => At(1, "prepare")' /\ running'.n = running.n
      /\ At(1, "write") => At(1, "write")'
      /\ At(1, "point") => At(1, "point")'
      /\ At(1, "read_response") => At(1, "read_response")'
  BY <1>1 DEF At
<1>4. ASSUME Told PROVE Told'
  BY <1>1, <1>2, <1>4 DEF Told
<1>5. ASSUME Queued PROVE Queued'
  BY <1>1, <1>2, <1>5 DEF Queued
<1>6. ASSUME Prepared PROVE Prepared'
  BY <1>1, <1>2, <1>3, <1>6 DEF Prepared
<1>7. ASSUME Written PROVE Written'
  BY <1>1, <1>2, <1>3, <1>7 DEF Written
<1>8. ASSUME Sent PROVE Sent'
  BY <1>1, <1>2, <1>8 DEF Sent
<1>9. ASSUME Raised PROVE Raised'
  BY <1>1, <1>2, <1>9 DEF Raised
<1>10. ASSUME Seen PROVE Seen'
  BY <1>1, <1>2, <1>10 DEF Seen
<1>11. ASSUME Fetched PROVE Fetched'
  BY <1>1, <1>2, <1>3, <1>11 DEF Fetched
<1>. QED
  BY <1>1, <1>4, <1>5, <1>6, <1>7, <1>8, <1>9, <1>10, <1>11 DEF Asked

LEMMA IdleInterrupted ==
    ASSUME StaysAlone, CableChange \/ PowerMessage \/ ChargerChange \/ UNCHANGED vars, Idle
    PROVE  Idle' /\ UNCHANGED <<opcode_queue, opcodes_finished, hand, added>>
<1>1. /\ UNCHANGED <<todo, opcode_queue, hand, return_buf, opcodes_finished, commands, added>>
      /\ "APCmdResI" \in int' <=> "APCmdResI" \in int
      /\ In(call_queue') = In(call_queue)
  BY OtherInterrupts
<1>2. NoneQueued' = NoneQueued /\ (Silent => Silent') /\ (Answered <=> Answered')
  BY <1>1 DEF NoneQueued, Silent, Answered
<1>. QED
  BY <1>1, <1>2 DEF Idle

\* The chip answers only what it was sent.
LEMMA AskedAnswered ==
    ASSUME StaysAlone, Answer, opcode_queue = <<>>, (~opcodes_finished /\ Asked) \/ Told
    PROVE  opcode_queue' = <<>> /\ ((~opcodes_finished' /\ Asked') \/ Told')
<1>1. /\ commands # <<>> /\ response' = Head(commands).n /\ commands' = Tail(commands)
      /\ Raise("APCmdResI") /\ UNCHANGED <<opcode_queue, buffers, opcodes_finished, todo, added>>
  BY DEF Answer, histories
<1>2. Sent /\ ~opcodes_finished
  BY <1>1 DEF Asked, Told, Queued, Prepared, Written, Raised, Seen, Fetched, Silent
<1>3. "APCmdResI" \in int'
  BY <1>1 DEF Raise
<1>4. In(call_queue') = In(call_queue)
  <2>1. PICK e \in Entries : e = Plain("parse_interrupt_vals") /\ e \notin Opcodes
    BY OpcodeFacts
  <2>2. call_queue' = Append(call_queue, e) \/ call_queue' = call_queue
    BY <1>1, <2>1 DEF Raise
  <2>. QED
    BY <2>1, <2>2, AloneFacts, PlainAppended
<1>5. Raised'
  BY <1>1, <1>2, <1>3, <1>4 DEF Sent, Raised, NoneQueued, Answered, buffers
<1>. QED
  BY <1>1, <1>2, <1>5 DEF Asked

\* Where nothing is under way, nothing comes of a step that leaves core 1, the queue of
\* entries and the chip alone.
LEMMA IdleStays ==
    ASSUME Idle, UNCHANGED <<call_queue, commands, int, return_buf>>, todo'[1] = todo[1]
    PROVE  Idle'
BY DEF Idle, NoneQueued, Silent, Answered

\* A test that stays alone was alone before, unless it begins now.
LEMMA AloneBefore ==
    ASSUME StaysAlone, ~Unfinish(0)
    PROVE  alone
<1>1. ASSUME NEW c \in Cores, CoreStep(c) PROVE alone
  <2>1. ~Unfinish(c)
    BY <1>1, Core1AddsNone DEF Cores
  <2>2. CASE Add(c)
    BY <2>2 DEF Add, StaysAlone
  <2>3. CASE ~Add(c)
    <3>1. alone' = alone
      BY <1>1, <2>1, <2>3 DEF CoreStep, Enter, Fill, Point, Select, Read, ReadResponse, Take, Give,
         Drop, Finish, Queue, Prepare, Write, Check, SwitchCc, SwitchPd, histories
    <3>. QED
      BY <3>1 DEF StaysAlone
  <2>. QED
    BY <2>2, <2>3
<1>2. ASSUME Wait(0) \/ Core1Pop \/ CableChange \/ PowerMessage \/ ChargerChange \/ Answer
                \/ UNCHANGED vars
      PROVE  alone
  <2>1. alone' = alone
    BY <1>2 DEF Wait, Core1Pop, CableChange, PowerMessage, ChargerChange, Answer, Happens,
       histories, vars
  <2>. QED
    BY <2>1 DEF StaysAlone
<1>. QED
  BY <1>1, <1>2 DEF StaysAlone, Next

\* Core 0 adds the opcode of a test and takes it to call_queue.
LEMMA TestSteps ==
    ASSUME StaysAlone, CoreStep(0) \/ Wait(0), alone => Testing
    PROVE  Testing'
<1>1. todo'[1] = todo[1]
  BY AloneFacts, StepLinks
<1>2. /\ At(0, "add")' => Unfinish(0)
      /\ At(0, "take")' => Add(0) \/ ReadResponse(0)
      /\ At(0, "wait")' => Take(0) \/ Give(0) \/ Drop(0)
      /\ At(0, "give")' => Take(0) /\ opcode_queue # <<>>
      /\ Take(0) /\ opcode_queue # <<>> => At(0, "give")'
  BY AloneFacts, Arrives
<1>3. alone' /\ (~Unfinish(0) => alone)
  BY AloneBefore DEF StaysAlone
<1>4. ASSUME At(0, "add")' PROVE ~opcodes_finished' /\ Idle' /\ opcode_queue' = <<>>
  <2>1. Unfinish(0)
    BY <1>2, <1>4
  <2>2. Quiet /\ ~opcodes_finished'
    BY <1>3, <2>1 DEF Unfinish
  <2>3. Idle /\ opcode_queue = <<>>
    BY <2>2, AloneFacts, QuietIsIdle
  <2>4. UNCHANGED <<queues, chip, buffers>>
    BY <2>1 DEF Unfinish
  <2>5. Idle'
    BY <1>1, <2>3, <2>4, IdleStays DEF queues, chip, buffers
  <2>. QED
    BY <2>2, <2>3, <2>4, <2>5 DEF queues
<1>5. ASSUME At(0, "take")'
      PROVE  /\ ~opcodes_finished' /\ Idle'
             /\ opcode_queue' # <<>> /\ Tail(opcode_queue') = <<>>
             /\ Head(opcode_queue').n = added'
  <2>1. ~ReadResponse(0)
    <3>1. ASSUME ReadResponse(0) PROVE FALSE
      <4>1. todo[0] # <<>> /\ Head(todo[0]).do = "read_response"
        BY <3>1 DEF ReadResponse, At
      <4>2. Head(todo[0]) \in Steps0
        BY <4>1, AloneFacts, AtKinds, OwnIs
      <4>. QED
        BY <4>1, <4>2 DEF Steps0
    <3>. QED
      BY <3>1
  <2>2. Add(0) /\ At(0, "add")
    BY <1>2, <1>5, <2>1 DEF Add
  <2>3. ~Unfinish(0)
    BY <2>2 DEF Unfinish, At
  <2>4. ~opcodes_finished /\ Idle /\ opcode_queue = <<>>
    BY <1>3, <2>2, <2>3 DEF Testing
  <2>5. PICK e : e = Opcode(Arg(0), added + 1)
    OBVIOUS
  <2>6. /\ opcode_queue' = Append(opcode_queue, e) /\ Arg(0) = "read"
        /\ UNCHANGED <<call_queue, buffers, opcodes_finished, chip>>
    BY <1>3, <2>2, <2>5 DEF Add
  <2>7. e.n = added'
    BY <2>2, <2>5 DEF Opcode, Add
  <2>8. opcode_queue' = <<e>>
    BY <2>4, <2>6
  <2>9. <<e>> # <<>> /\ Tail(<<e>>) = <<>> /\ Head(<<e>>) = e
    OBVIOUS
  <2>10. Idle'
    BY <1>1, <2>4, <2>6, IdleStays DEF chip, buffers
  <2>. QED
    BY <2>4, <2>6, <2>7, <2>8, <2>9, <2>10
<1>6. ASSUME At(0, "give")'
      PROVE  ~opcodes_finished' /\ Idle' /\ opcode_queue' = <<>> /\ hand'[0].n = added'
  <2>1. Take(0) /\ opcode_queue # <<>> /\ At(0, "take")
    BY <1>2, <1>6 DEF Take
  <2>2. ~Unfinish(0)
    BY <2>1 DEF Unfinish, At
  <2>3. /\ ~opcodes_finished /\ Idle /\ Tail(opcode_queue) = <<>>
        /\ Head(opcode_queue).n = added
    BY <1>3, <2>1, <2>2 DEF Testing
  <2>4. /\ hand' = [hand EXCEPT ![0] = Head(opcode_queue)] /\ opcode_queue' = Tail(opcode_queue)
        /\ UNCHANGED <<call_queue, buffers, opcodes_finished, chip, added>>
    BY <2>1 DEF Take, histories
  <2>5. hand'[0] = Head(opcode_queue)
    BY <2>4, AloneFacts DEF Queues
  <2>6. Idle'
    BY <1>1, <2>3, <2>4, IdleStays DEF chip, buffers
  <2>. QED
    BY <2>3, <2>4, <2>5, <2>6
<1>7. ASSUME At(0, "wait")' PROVE opcode_queue' = <<>> /\ ~opcodes_finished' /\ Queued'
  <2>1. ~Take(0)
    <3>1. ASSUME Take(0) PROVE FALSE
      <4>1. At(0, "take")
        BY <3>1 DEF Take
      <4>2. alone
        BY <1>3, <4>1 DEF Unfinish, At
      <4>3. opcode_queue # <<>>
        BY <4>1, <4>2 DEF Testing
      <4>4. At(0, "give")'
        BY <1>2, <3>1, <4>3
      <4>. QED
        BY <1>7, <4>4 DEF At
    <3>. QED
      BY <3>1
  <2>2. (Give(0) \/ Drop(0)) /\ At(0, "give")
    BY <1>2, <1>7, <2>1 DEF Give, Drop
  <2>3. ~opcodes_finished /\ Idle /\ opcode_queue = <<>> /\ hand[0].n = added
    <3>1. alone
      BY <1>3, <2>2 DEF Unfinish, At
    <3>. QED
      BY <2>2, <3>1 DEF Testing
  <2>4. /\ call_queue' = Append(call_queue, hand[0]) \/ call_queue' = call_queue
        /\ UNCHANGED <<opcode_queue, buffers, opcodes_finished, chip, added>>
    BY <2>2 DEF Give, Drop, queues, histories
  <2>5. hand[0] \in Entries
    <3>1. hand[0] # NoOpcode /\ hand[0] \in Opcodes \cup {NoOpcode}
      BY <2>2, AloneFacts DEF Queues
    <3>. QED
      BY <3>1, OpcodeFacts
  <2>6. Only(call_queue', added)
    BY <2>3, <2>4, <2>5, AloneFacts, OpcodeAppended DEF Idle, NoneQueued
  <2>7. Silent' /\ Calm(todo'[1]) /\ ~Answered'
    BY <1>1, <2>3, <2>4 DEF Idle, Silent, Answered, chip, buffers
  <2>. QED
    BY <2>3, <2>4, <2>6, <2>7 DEF Queued
<1>. QED
  BY <1>4, <1>5, <1>6, <1>7 DEF Testing, Asked

\* Meanwhile the others go on.
LEMMA OthersTest ==
    ASSUME StaysAlone, alone, Testing,
           \/ CoreStep(1) \/ Core1Pop \/ Answer
           \/ CableChange \/ PowerMessage \/ ChargerChange \/ UNCHANGED vars
    PROVE  Testing'
<1>1. todo'[0] = todo[0]
  <2>1. CASE CoreStep(1)
    BY <2>1, AloneFacts, StepLinks
  <2>2. CASE Core1Pop
    BY <2>2, PopStages
  <2>3. CASE Answer
    BY <2>3 DEF Answer
  <2>4. CASE CableChange \/ PowerMessage \/ ChargerChange \/ UNCHANGED vars
    BY <2>4, OtherInterrupts
  <2>. QED
    BY <2>1, <2>2, <2>3, <2>4
<1>2. \A do : At(0, do)' <=> At(0, do)
  BY <1>1 DEF At
<1>3. ASSUME Idle PROVE Idle' /\ UNCHANGED <<opcode_queue, opcodes_finished, hand, added>>
  <2>1. ~Answer
    BY <1>3 DEF Answer, Idle, Silent
  <2>. QED
    BY <1>3, <2>1, IdleSteps, IdlePops, IdleInterrupted
<1>4. ASSUME opcode_queue = <<>>, (~opcodes_finished /\ Asked) \/ Told
      PROVE  opcode_queue' = <<>> /\ ((~opcodes_finished' /\ Asked') \/ Told')
  BY <1>4, AskedSteps, AskedPops, AskedAnswered, AskedInterrupted
<1>. QED
  BY <1>2, <1>3, <1>4 DEF Testing

LEMMA AloneKept ==
    ASSUME TypeInv, Links, Undisturbed, Chains, Looking, Alone, [Next]_vars
    PROVE  Alone'
<1>. SUFFICES ASSUME alone', ~Clashed' PROVE Testing'
  BY DEF Alone
<1>1. ~Clashed /\ ~Clash /\ ~Clash'
  BY ClashedStays DEF Clashed
<1>2. StaysAlone /\ (alone => Testing)
  BY <1>1 DEF StaysAlone, Undisturbed, Looking, Alone
<1>3. CASE CoreStep(0) \/ Wait(0)
  BY <1>2, <1>3, TestSteps
<1>4. CASE \/ CoreStep(1) \/ Core1Pop \/ Answer
           \/ CableChange \/ PowerMessage \/ ChargerChange \/ UNCHANGED vars
  <2>1. ~Unfinish(0)
    <3>1. ASSUME Unfinish(0) PROVE FALSE
      <4>1. todo'[0] = Tail(todo[0]) /\ todo[0] # <<>>
        BY <1>2, <3>1, AloneFacts, OthersMove DEF Unfinish, At
      <4>2. Len(Tail(todo[0])) # Len(todo[0])
        BY <1>2, <4>1, AloneFacts, TailIs
      <4>3. todo'[0] = todo[0]
        <5>1. CASE CoreStep(1)
          BY <1>2, <5>1, AloneFacts, StepLinks
        <5>2. CASE Core1Pop
          BY <1>2, <5>2, PopStages
        <5>3. CASE Answer
          BY <5>3 DEF Answer
        <5>4. CASE CableChange \/ PowerMessage \/ ChargerChange \/ UNCHANGED vars
          BY <1>2, <5>4, OtherInterrupts
        <5>. QED
          BY <1>4, <5>1, <5>2, <5>3, <5>4
      <4>. QED
        BY <4>1, <4>2, <4>3
    <3>. QED
      BY <3>1
  <2>. QED
    BY <1>2, <1>4, <2>1, AloneBefore, OthersTest
<1>5. ASSUME NEW c \in Cores, CoreStep(c) PROVE CoreStep(0) \/ CoreStep(1)
  BY <1>5 DEF Cores
<1>. QED
  BY <1>3, <1>4, <1>5 DEF Next

LEMMA AloneInit == Init => Alone
BY DEF Init, Alone

\* The wait is over only when the flag is set, and then the answer has been read.
LEMMA WaitEnds ==
    ASSUME TypeInv, Chains, Looking, Links, Alone, [Next]_vars,
           At(0, "wait"), alone, ~Clashed, todo'[0] # todo[0]
    PROVE  op_code_return_buf = added
<1>1. /\ Todos /\ 0 \in Cores /\ 1 \in Cores
      /\ return_buf.of = "PD_STATUS" => return_buf.val \in PdMessages
  BY DEF TypeInv, Buffers, Cores
<1>2. CASE CoreStep(0) \/ Wait(0)
  <2>1. opcodes_finished
    BY <1>1, <1>2, DoneBy DEF Wait
  <2>2. Told
    BY <2>1 DEF Alone, Testing
  <2>. QED
    BY <2>2 DEF Told
<1>3. CASE CoreStep(1)
  BY <1>1, <1>3, StepLinks
<1>4. CASE Core1Pop
  BY <1>4, PopChains
<1>5. CASE CableChange \/ PowerMessage \/ ChargerChange \/ Answer \/ UNCHANGED vars
  BY <1>5, ChipSteps
<1>6. ASSUME NEW c \in Cores, CoreStep(c) PROVE CoreStep(0) \/ CoreStep(1)
  BY <1>6 DEF Cores
<1>. QED
  BY <1>2, <1>3, <1>4, <1>5, <1>6 DEF Next

Asking == TypeInv /\ Links /\ Undisturbed /\ Chains /\ Looking /\ Alone

\* A self-test whose opcode was added in a quiet moment, and is the only one until its
\* wait is over, finds its own answer in op_code_return_buf: core 1 sets opcodes_finished
\* only after it has read what the chip answered to that opcode.
THEOREM WaitSeesOwnAnswer == Spec => WaitEndsWithOwnAnswer
<1>1. Init => Asking
  BY TypeInit, LinksInit, UndisturbedInit, ChainsInit, LookingInit, AloneInit DEF Asking
<1>2. Asking /\ [Next]_vars => Asking'
  BY TypeNext, LinksKept, UndisturbedKept, ChainsKept, LookingKept, AloneKept DEF Asking
<1>3. Asking /\ [Next]_vars =>
          [At(0, "wait") /\ alone /\ ~Clashed /\ todo'[0] # todo[0] =>
               op_code_return_buf = added]_vars
  BY WaitEnds DEF Asking
<1>. QED
  BY <1>1, <1>2, <1>3, PTL DEF Spec, WaitEndsWithOwnAnswer

=============================================================================
