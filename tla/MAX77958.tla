------------------------------ MODULE MAX77958 ------------------------------
(***************************************************************************)
(* The driver of the USB-C controller, src/src/max77958.c.  Commands to    *)
(* the chip ("opcodes") wait in opcode_queue; opcode_queue_pop moves one   *)
(* to call_queue, core 1 runs it, the chip answers with an interrupt, and  *)
(* the handler of that interrupt pops the next one.  Changes of the cable  *)
(* and power-delivery messages arrive through the same interrupt and       *)
(* switch VBUS on and off, with opcodes of their own.                      *)
(*                                                                         *)
(* Core 0 runs max77958_init and the self-tests, core 1 everything that    *)
(* comes out of call_queue; both use the same send_buf and return_buf.     *)
(*                                                                         *)
(* A C function is the sequence of its steps, and todo[c] is what core c   *)
(* has still to do.  A step is one statement that another core could see:  *)
(* filling the buffers, a transfer, a queue operation, a decision on the   *)
(* contents of a buffer.  CallQueue models how the pin's interrupt puts    *)
(* parse_interrupt_vals in call_queue; here the two are one step.          *)
(***************************************************************************)
EXTENDS Integers, Sequences

CONSTANTS Core0Calls,  \* what core 0 calls, in order
          Latched,     \* what interrupts the chip may hold from before its
                       \* edge was enabled
          Events,      \* what happens to the chip: "cc", "pd", "charger"
          MaxEvents,   \* bound: how often
          MaxDrops     \* bound: how often an opcode finds call_queue full

Calls == {"max77958_init", "read_reg", "opcode_test", "snk_pdo_request"}

Ints == {"APCmdResI", "PDMsgI", "ChgType", "CCStat"}

ASSUME MAX77958Assumption ==
    /\ Core0Calls \in Seq(Calls)
    /\ Latched \subseteq Ints
    /\ Latched # {} => Core0Calls # <<>> /\ Core0Calls[1] = "max77958_init"
    /\ Events \subseteq {"cc", "pd", "charger"}
    /\ MaxEvents \in Nat
    /\ MaxDrops \in Nat

Cores == {0, 1}

VARIABLES opcode_queue, call_queue,
          send_buf,      \* the register in its first byte, and the opcode
          return_buf,    \* which registers were read last, and their value
          op_code_return_buf,
          opcodes_finished,
          popped,        \* what opcode_queue_pop last returned on each core
          hand,          \* the opcode each core is moving between the queues
          running,       \* the entry of call_queue that core 1 runs
          todo,
          pointer,       \* chip: the register the next read starts from
          int,           \* chip: the interrupt registers
          cc,            \* chip: CCStat
          pd,            \* chip: the last power-delivery message
          commands,      \* chip: the opcodes under way
          response,      \* chip: the number of the opcode last answered
          events, drops, \* bound counters
          added, ran,    \* history: opcodes added; the number of the last run
          alone,         \* history: a self-test began to add its opcode while
                         \* nothing was under way, and no other was added since
          clashed        \* history: whether the cores ever met, see Clash

queues == <<opcode_queue, call_queue>>
buffers == <<send_buf, return_buf, op_code_return_buf>>
chip == <<pointer, int, cc, pd, commands, response>>
histories == <<added, ran, alone>>
vars == <<opcode_queue, call_queue, send_buf, return_buf, op_code_return_buf,
          opcodes_finished, popped, hand, running, todo, pointer, int, cc, pd,
          commands, response, events, drops, added, ran, alone, clashed>>

-----------------------------------------------------------------------------
(* Opcodes are numbered in the order they are added.  A GPIO opcode is named *)
(* for what it does to VBUS: "low" is gpio_set(false, false), "off" is       *)
(* gpio_set(false, true) and "on" gpio_set(true, true).                      *)

Ops == {"low", "off", "on", "config", "read"}
Opcode(op, n) == [op |-> op, n |-> n]
NoOpcode == Opcode("none", 0)
Plain(func) == Opcode(func, 0)

Registers == {"INT", "CC_STATUS", "BC_STATUS", "PD_STATUS", "OPCODE_READ",
              "OTHER"}
Contents(of, bits, val) == [of |-> of, bits |-> bits, val |-> val]
Zeros == Contents("ZEROS", {}, "none")

Step(do, arg) == [do |-> do, arg |-> arg]

-----------------------------------------------------------------------------
(* The functions. *)

\* Clear both buffers, set the chip's register pointer, read from there.
Fetch(reg) == <<Step("fill", reg), Step("select", ""), Step("read", "")>>

OpcodeQueueAdd(op) == <<Step("unfinish", ""), Step("add", op)>>

OpcodeQueuePop == <<Step("take", "")>>

\* Mutated form of VbusTurnOff: the opcode is left for an answer to fetch.
VbusTurnOffNoPop == OpcodeQueueAdd("off")

VbusTurnOff == OpcodeQueueAdd("off") \o OpcodeQueuePop

VbusTurnOn == OpcodeQueueAdd("on") \o OpcodeQueuePop

OpcodeRead == <<Step("point", "OPCODE_READ"), Step("select", ""),
                Step("read_response", "")>>

\* Mutated form of OnOpcodeCmdResponse: the next opcode is not fetched.
OnOpcodeCmdResponseNoPop == OpcodeRead \o <<Step("finish", "")>>

\* Mutated form of OnOpcodeCmdResponse: the answer is read last.
OnOpcodeCmdResponseReadLast ==
    OpcodeQueuePop \o <<Step("finish", "")>> \o OpcodeRead

OnOpcodeCmdResponse == OpcodeRead \o OpcodeQueuePop \o <<Step("finish", "")>>

OnCcstatChange == Fetch("CC_STATUS") \o <<Step("switch_cc", "")>>

OnChgtypeChange == Fetch("BC_STATUS")

OnPdMsgReceived == <<Step("queue", "pd_msg_response")>>

PdMsgResponse == Fetch("PD_STATUS") \o <<Step("switch_pd", "")>>

Handler(bit) == CASE bit = "APCmdResI" -> OnOpcodeCmdResponse
                  [] bit = "PDMsgI" -> OnPdMsgReceived
                  [] bit = "ChgType" -> OnChgtypeChange
                  [] bit = "CCStat" -> OnCcstatChange

\* The order of the checks is the code's.
ParseInterruptVals ==
    Fetch("INT") \o <<Step("check", "APCmdResI"), Step("check", "PDMsgI"),
                      Step("check", "ChgType"), Step("check", "CCStat")>>

\* gpio_set, customer_config_write and the reads of the self-tests fill send_buf
\* and call opcode_write.
OpcodeFunction == <<Step("prepare", ""), Step("write", "")>>

\* From the enabling of the edge on: get_interrupt_vals clears what was latched
\* before, and with it what came since.
Max77958Init == Fetch("INT") \o OpcodeQueueAdd("low") \o OpcodeQueueAdd("off")
                    \o OpcodeQueueAdd("config") \o OpcodeQueuePop
                    \o OnCcstatChange

\* One of the self-tests that read a setting: they differ in the opcode and in
\* what they expect, and do nothing but log when it is not what came.
OpcodeTest == OpcodeQueueAdd("read") \o OpcodeQueuePop \o <<Step("wait", "")>>

\* The test that asks twice, for what is in RAM and what is in MTP memory.
SnkPdoRequestTest == OpcodeTest \o OpcodeTest

\* read_reg and the self-tests that look at one register after another: what they
\* do with the values is log them.
ReadRegister == Fetch("OTHER")

Core0Body(call) == CASE call = "max77958_init" -> Max77958Init
                     [] call = "read_reg" -> ReadRegister
                     [] call = "opcode_test" -> OpcodeTest
                     [] call = "snk_pdo_request" -> SnkPdoRequestTest

\* What core 1 does for an entry of call_queue.
Body(entry) ==
    CASE entry.op = "parse_interrupt_vals" -> ParseInterruptVals
      [] entry.op = "pd_msg_response" -> PdMsgResponse
      [] OTHER -> OpcodeFunction

\* Core 0 makes its calls one after the other.
Core0Program == [k \in 1..Len(Core0Calls) |-> Step("call", Core0Calls[k])]

-----------------------------------------------------------------------------
Init ==
    /\ opcode_queue = <<>>
    /\ call_queue = <<>>
    /\ send_buf = [reg |-> "INT", opcode |-> NoOpcode]
    /\ return_buf = Zeros
    /\ op_code_return_buf = 0
    /\ opcodes_finished = FALSE
    /\ popped = [c \in Cores |-> FALSE]
    /\ hand = [c \in Cores |-> NoOpcode]
    /\ todo = [c \in Cores |-> IF c = 0 THEN Core0Program ELSE <<>>]
    /\ running = NoOpcode
    /\ pointer = "INT"
    /\ int \in SUBSET Latched
    /\ cc = "none"
    /\ pd = "other"
    /\ commands = <<>>
    /\ response = 0
    /\ events = 0
    /\ drops = 0
    /\ added = 0
    /\ ran = 0
    /\ alone = FALSE
    /\ clashed = FALSE

-----------------------------------------------------------------------------
\* Core c is between filling a buffer and the last use of what is in it.
Filling == {"fill", "point", "prepare"}
Transfers == {"select", "read", "read_response", "write"}
Decisions == {"check", "switch_cc", "switch_pd"}
UsesBuffers(c) ==
    \E i \in 1..Len(todo[c]) :
        \/ /\ todo[c][i].do \in Transfers
           /\ \A j \in 1 .. i - 1 : todo[c][j].do \notin Filling
        \/ /\ todo[c][i].do \in Decisions
           /\ \A j \in 1 .. i - 1 : todo[c][j].do # "fill"

\* The cores are in each other's way: both use the buffers, or both are moving
\* an opcode from one queue to the other.
Clash == \/ \A c \in Cores : UsesBuffers(c)
         \/ \A c \in Cores : hand[c] # NoOpcode

Clashed == clashed \/ Clash
Watch == clashed' = Clashed

-----------------------------------------------------------------------------
(* The chip. *)

\* An interrupt bit is set; INTB falls when it is the first.
Raise(bit) ==
    /\ int' = int \cup {bit}
    /\ call_queue' = IF int = {}
                     THEN Append(call_queue, Plain("parse_interrupt_vals"))
                     ELSE call_queue

Happens(kind) ==
    /\ kind \in Events
    /\ events < MaxEvents
    /\ events' = events + 1
    /\ Watch
    /\ UNCHANGED <<opcode_queue, buffers, opcodes_finished, popped, hand,
                   running, todo, pointer, commands, response, drops,
                   histories>>

CableChange ==
    /\ Happens("cc")
    /\ cc' \in {"none", "sink", "source"} \ {cc}
    /\ Raise("CCStat")
    /\ UNCHANGED pd

PowerMessage ==
    /\ Happens("pd")
    /\ pd' \in {"swap_to_sink", "swap_to_source", "other"}
    /\ Raise("PDMsgI")
    /\ UNCHANGED cc

ChargerChange ==
    /\ Happens("charger")
    /\ Raise("ChgType")
    /\ UNCHANGED <<cc, pd>>

\* The chip has carried out an opcode.
Answer ==
    /\ commands # <<>>
    /\ response' = Head(commands).n
    /\ commands' = Tail(commands)
    /\ Raise("APCmdResI")
    /\ Watch
    /\ UNCHANGED <<opcode_queue, buffers, opcodes_finished, popped, hand,
                   running, todo, pointer, cc, pd, events, drops, histories>>

\* What becomes of the opcodes under way when another one is written: nothing
\* in the code says, so it is queued, or it replaces them, or it is refused.
Accepted(opcode) == {Append(commands, opcode), <<opcode>>}
                        \cup {old \in {commands} : old # <<>>}

\* What a read that starts at a register returns.
Registered(reg) == CASE reg = "INT" -> Contents("INT", int, "none")
                     [] reg = "CC_STATUS" -> Contents("CC_STATUS", {}, cc)
                     [] reg = "PD_STATUS" -> Contents("PD_STATUS", {}, pd)
                     [] OTHER -> Contents(reg, {}, "none")

-----------------------------------------------------------------------------
(* The cores. *)

\* The next step of core c is of this kind.
At(c, do) == todo[c] # <<>> /\ Head(todo[c]).do = do
Arg(c) == Head(todo[c]).arg

\* The step is over; the steps of what it calls come first.
Call(c, steps) ==
    /\ todo' = [todo EXCEPT ![c] = steps \o Tail(@)]
    /\ Watch
Proceed(c) == Call(c, <<>>)

Enter(c) ==
    /\ At(c, "call")
    /\ Call(c, Core0Body(Arg(c)))
    /\ UNCHANGED <<queues, buffers, opcodes_finished, popped, hand, running,
                   chip, events, drops, histories>>

Fill(c) ==
    /\ At(c, "fill")
    /\ send_buf' = [reg |-> Arg(c), opcode |-> NoOpcode]
    /\ return_buf' = Zeros
    /\ Proceed(c)
    /\ UNCHANGED <<queues, op_code_return_buf, opcodes_finished, popped, hand,
                   running, chip, events, drops, histories>>

Point(c) ==
    /\ At(c, "point")
    /\ send_buf' = [reg |-> Arg(c), opcode |-> NoOpcode]
    /\ Proceed(c)
    /\ UNCHANGED <<queues, return_buf, op_code_return_buf, opcodes_finished,
                   popped, hand, running, chip, events, drops, histories>>

\* A one-byte write: the chip's register pointer.
Select(c) ==
    /\ At(c, "select")
    /\ pointer' = send_buf.reg
    /\ Proceed(c)
    /\ UNCHANGED <<queues, buffers, opcodes_finished, popped, hand, running,
                   int, cc, pd, commands, response, events, drops, histories>>

\* Reading the interrupt registers clears them.
Read(c) ==
    /\ At(c, "read")
    /\ return_buf' = Registered(pointer)
    /\ int' = IF pointer = "INT" THEN {} ELSE int
    /\ Proceed(c)
    /\ UNCHANGED <<queues, send_buf, op_code_return_buf, opcodes_finished,
                   popped, hand, running, pointer, cc, pd, commands, response,
                   events, drops, histories>>

ReadResponse(c) ==
    /\ At(c, "read_response")
    /\ op_code_return_buf' = IF pointer = "OPCODE_READ" THEN response ELSE 0
    /\ int' = IF pointer = "INT" THEN {} ELSE int
    /\ Proceed(c)
    /\ UNCHANGED <<queues, send_buf, return_buf, opcodes_finished, popped, hand,
                   running, pointer, cc, pd, commands, response, events,
                   drops, histories>>

\* Steps still to do on some core.
Ahead(c, do) == \E i \in 1..Len(todo[c]) : todo[c][i].do = do

\* The answer to the interrupt read last has still to be looked for.
AnswerRead == /\ todo[1] # <<>> /\ Head(todo[1]) = Step("check", "APCmdResI")
              /\ "APCmdResI" \in return_buf.bits

\* Something under way that ends in opcode_queue_pop, on these cores or the chip.
UnderWay(cores) ==
    \/ \E i \in 1..Len(call_queue) : call_queue[i].op \in Ops
    \/ \E c \in cores, do \in {"take", "give", "prepare", "write"} : Ahead(c, do)
    \/ commands # <<>>
    \/ "APCmdResI" \in int
    \/ AnswerRead

\* No opcode waits or is under way, and the flag will not be set for one.
Quiet == opcode_queue = <<>> /\ ~UnderWay({1}) /\ ~Ahead(1, "finish")

\* opcode_queue_add, before and after queue_try_add.
Unfinish(c) ==
    /\ At(c, "unfinish")
    /\ opcodes_finished' = FALSE
    /\ alone' = (todo[c][2] = Step("add", "read") /\ Quiet)
    /\ Proceed(c)
    /\ UNCHANGED <<queues, buffers, popped, hand, running, chip, events, drops,
                   added, ran>>

Add(c) ==
    LET opcode == Opcode(Arg(c), added + 1) IN
    /\ At(c, "add")
    /\ opcode_queue' = Append(opcode_queue, opcode)
    /\ added' = added + 1
    /\ alone' = (alone /\ Arg(c) = "read")
    /\ Proceed(c)
    /\ UNCHANGED <<call_queue, buffers, opcodes_finished, popped, hand,
                   running, chip, events, drops, ran>>

\* Mutated form of Take: the opcode added last comes first.
TakeNewest(c) ==
    /\ At(c, "take")
    /\ IF opcode_queue = <<>>
       THEN /\ popped' = [popped EXCEPT ![c] = FALSE]
            /\ Proceed(c)
            /\ UNCHANGED <<opcode_queue, hand>>
       ELSE /\ hand' = [hand EXCEPT ![c] = opcode_queue[Len(opcode_queue)]]
            /\ opcode_queue' = SubSeq(opcode_queue, 1, Len(opcode_queue) - 1)
            /\ Call(c, <<Step("give", "")>>)
            /\ UNCHANGED popped
    /\ UNCHANGED <<call_queue, buffers, opcodes_finished, running, chip, events,
                   drops, histories>>

\* opcode_queue_pop: queue_try_remove, then queue_try_add.
Take(c) ==
    /\ At(c, "take")
    /\ IF opcode_queue = <<>>
       THEN /\ popped' = [popped EXCEPT ![c] = FALSE]
            /\ Proceed(c)
            /\ UNCHANGED <<opcode_queue, hand>>
       ELSE /\ hand' = [hand EXCEPT ![c] = Head(opcode_queue)]
            /\ opcode_queue' = Tail(opcode_queue)
            /\ Call(c, <<Step("give", "")>>)
            /\ UNCHANGED popped
    /\ UNCHANGED <<call_queue, buffers, opcodes_finished, running, chip, events,
                   drops, histories>>

\* Mutated form of Give: the entry is cleared before it is queued.
GiveCleared(c) ==
    /\ At(c, "give")
    /\ call_queue' = Append(call_queue, NoOpcode)
    /\ popped' = [popped EXCEPT ![c] = TRUE]
    /\ hand' = [hand EXCEPT ![c] = NoOpcode]
    /\ Proceed(c)
    /\ UNCHANGED <<opcode_queue, buffers, opcodes_finished, running, chip,
                   events, drops, histories>>

Give(c) ==
    /\ At(c, "give")
    /\ call_queue' = Append(call_queue, hand[c])
    /\ popped' = [popped EXCEPT ![c] = TRUE]
    /\ hand' = [hand EXCEPT ![c] = NoOpcode]
    /\ Proceed(c)
    /\ UNCHANGED <<opcode_queue, buffers, opcodes_finished, running, chip,
                   events, drops, histories>>

\* Entries of other drivers may have filled call_queue: the opcode is dropped.
Drop(c) ==
    /\ At(c, "give")
    /\ drops < MaxDrops
    /\ drops' = drops + 1
    /\ popped' = [popped EXCEPT ![c] = FALSE]
    /\ hand' = [hand EXCEPT ![c] = NoOpcode]
    /\ Proceed(c)
    /\ UNCHANGED <<queues, buffers, opcodes_finished, running, chip, events,
                   histories>>

Finish(c) ==
    /\ At(c, "finish")
    /\ opcodes_finished' = (opcodes_finished \/ ~popped[c])
    /\ Proceed(c)
    /\ UNCHANGED <<queues, buffers, popped, hand, running, chip, events, drops,
                   histories>>

\* call_queue_try_add
Queue(c) ==
    /\ At(c, "queue")
    /\ call_queue' = Append(call_queue, Plain(Arg(c)))
    /\ Proceed(c)
    /\ UNCHANGED <<opcode_queue, buffers, opcodes_finished, popped, hand,
                   running, chip, events, drops, histories>>

\* An opcode's function fills send_buf, which always starts with 0x21.
Prepare(c) ==
    /\ At(c, "prepare")
    /\ send_buf' = [reg |-> "OPCODE", opcode |-> running]
    /\ ran' = running.n
    /\ Proceed(c)
    /\ UNCHANGED <<queues, return_buf, op_code_return_buf, opcodes_finished,
                   popped, hand, running, chip, events, drops, added, alone>>

\* opcode_write: the first byte is checked, but only to report it; the second
\* write, of two bytes to 0x41, sets the opcode going.
Write(c) ==
    /\ At(c, "write")
    /\ IF send_buf.reg = "OPCODE" THEN commands' \in Accepted(send_buf.opcode)
                                  ELSE UNCHANGED commands
    /\ send_buf' = [reg |-> "TRIGGER", opcode |-> NoOpcode]
    /\ Proceed(c)
    /\ UNCHANGED <<queues, return_buf, op_code_return_buf, opcodes_finished,
                   popped, hand, running, pointer, int, cc, pd, response,
                   events, drops, histories>>

\* What testing an interrupt bit in return_buf can give: the bit, if those are
\* still the interrupt registers; on_chgtype_change leaves its one byte and
\* zeros in the place of CC_INT and PD_INT; other contents are any bits.
Tested(bit) == CASE return_buf.of = "INT" -> {bit \in return_buf.bits}
                 [] return_buf.of = "ZEROS" -> {FALSE}
                 [] return_buf.of = "BC_STATUS" /\ bit \in {"CCStat", "PDMsgI"}
                        -> {FALSE}
                 [] OTHER -> BOOLEAN

Check(c) ==
    /\ At(c, "check")
    /\ \E set \in Tested(Arg(c)) : Call(c, IF set THEN Handler(Arg(c)) ELSE <<>>)
    /\ UNCHANGED <<queues, buffers, opcodes_finished, popped, hand, running,
                   chip, events, drops, histories>>

\* The value a status read left in return_buf, if it is still there.
Statuses(reg, all) == CASE return_buf.of = reg -> {return_buf.val}
                        [] return_buf.of = "ZEROS" -> all \cap {"none", "other"}
                        [] OTHER -> all

SwitchCc(c) ==
    /\ At(c, "switch_cc")
    /\ \E status \in Statuses("CC_STATUS", {"none", "sink", "source"}) :
           Call(c, IF status = "source" THEN <<>> ELSE VbusTurnOff)
    /\ UNCHANGED <<queues, buffers, opcodes_finished, popped, hand, running,
                   chip, events, drops, histories>>

SwitchPd(c) ==
    /\ At(c, "switch_pd")
    /\ \E status \in Statuses("PD_STATUS",
                              {"swap_to_sink", "swap_to_source", "other"}) :
           Call(c, CASE status = "swap_to_sink" -> VbusTurnOff
                     [] status = "swap_to_source" -> VbusTurnOn
                     [] status = "other" -> <<>>)
    /\ UNCHANGED <<queues, buffers, opcodes_finished, popped, hand, running,
                   chip, events, drops, histories>>

\* A self-test waits for opcodes_finished.
Wait(c) ==
    /\ At(c, "wait")
    /\ opcodes_finished
    /\ Proceed(c)
    /\ UNCHANGED <<queues, buffers, opcodes_finished, popped, hand, running,
                   chip, events, drops, histories>>

\* call_queue_pop
Core1Pop ==
    /\ todo[1] = <<>>
    /\ call_queue # <<>>
    /\ running' = Head(call_queue)
    /\ call_queue' = Tail(call_queue)
    /\ todo' = [todo EXCEPT ![1] = Body(running')]
    /\ Watch
    /\ UNCHANGED <<opcode_queue, buffers, opcodes_finished, popped, hand, chip,
                   events, drops, histories>>

CoreStep(c) ==
    \/ Enter(c)
    \/ Fill(c) \/ Point(c) \/ Select(c) \/ Read(c) \/ ReadResponse(c)
    \/ Unfinish(c) \/ Add(c) \/ Take(c) \/ Give(c) \/ Drop(c)
    \/ Finish(c) \/ Queue(c) \/ Prepare(c) \/ Write(c)
    \/ Check(c) \/ SwitchCc(c) \/ SwitchPd(c)

Next == \/ \E c \in Cores : CoreStep(c)
        \/ Wait(0)
        \/ Core1Pop
        \/ CableChange
        \/ PowerMessage
        \/ ChargerChange
        \/ Answer

Spec == Init /\ [][Next]_vars

\* Both cores keep executing, and the chip answers every opcode.
FairSpec == /\ Spec
            /\ WF_vars(CoreStep(0) \/ Wait(0))
            /\ WF_vars(CoreStep(1) \/ Core1Pop)
            /\ WF_vars(Answer)

-----------------------------------------------------------------------------
(* Properties. *)

Opcodes == [op : Ops, n : Nat]
Entries == Opcodes \cup {Plain("parse_interrupt_vals"), Plain("pd_msg_response")}
Steps ==
    {Step("call", call) : call \in Calls}
    \cup {Step("fill", reg) : reg \in Registers}
    \cup {Step("add", op) : op \in Ops}
    \cup {Step("check", bit) : bit \in Ints}
    \cup {Step("point", "OPCODE_READ"), Step("queue", "pd_msg_response")}
    \cup {Step(do, "") : do \in Transfers
                \cup {"unfinish", "take", "give", "finish", "prepare",
                      "switch_cc", "switch_pd", "wait"}}

TypeOK ==
    /\ opcode_queue \in Seq(Opcodes)
    /\ call_queue \in Seq(Entries)
    /\ send_buf.reg \in Registers \cup {"OPCODE", "TRIGGER"}
    /\ send_buf.opcode \in Opcodes \cup {NoOpcode}
    /\ return_buf.bits \subseteq Ints
    /\ op_code_return_buf \in Nat
    /\ opcodes_finished \in BOOLEAN
    /\ popped \in [Cores -> BOOLEAN]
    /\ hand \in [Cores -> Opcodes \cup {NoOpcode}]
    /\ running \in Entries \cup {NoOpcode}
    /\ todo \in [Cores -> Seq(Steps)]
    /\ pointer \in Registers \cup {"OPCODE", "TRIGGER"}
    /\ int \subseteq Ints
    /\ commands \in Seq(Opcodes)
    /\ events \in 0..MaxEvents
    /\ drops \in 0..MaxDrops

\* Nobody polls opcode_queue, each opcode is fetched by the answer to an earlier
\* one: whatever the chip does with opcodes that overlap, a queued opcode is
\* always followed up by something under way, unless one was dropped because
\* call_queue was full (max77958.c:911-917) or the two cores used the driver's
\* buffers or moved opcodes at the same moment.
NoOpcodeStranded ==
    opcode_queue # <<>> /\ drops = 0 /\ ~Clashed => UnderWay(Cores)

\* ... and so the queue drains.
OpcodesDrain ==
    opcode_queue # <<>> ~> opcode_queue = <<>> \/ drops > 0 \/ Clashed

\* "Add all opcode commands in order to a queue. These will be called
\* sequentially" (max77958.c:886): opcodes run in the order they were added, a
\* dropped one excepted.  A VBUS-off overtaken by an earlier VBUS-on would leave
\* VBUS on.
InOrder == ran' > ran
OpcodesInOrder == [][ran' # ran => InOrder]_vars

\* They do as long as only one core at a time moves opcodes between the queues.
OpcodesInOrderUnlessClashed == [][ran' # ran => InOrder \/ Clashed]_vars

\* A self-test whose opcode was added in a quiet moment, and is the only one until
\* the wait is over, looks at the answer to this very opcode: op_code_return_buf was
\* read for it, by the handler that found opcode_queue empty (max77958.c:88-92).
\* Excepted is a test that begins while the answer to an earlier opcode is still
\* handled: opcodes_finished, cleared before the add (max77958.c:199), is set by core
\* 1 for its own failed pop then (max77958.c:91), and the wait ends with that answer.
WaitEndsWithOwnAnswer ==
    [][At(0, "wait") /\ alone /\ ~Clashed /\ todo'[0] # todo[0] =>
           op_code_return_buf = added]_vars

\* "ERROR: buffer should always start with the 0x21 register"
\* (max77958.c:327): what opcode_write is given starts with 0x21.
BufferStartsWithOpcode == \A c \in Cores : At(c, "write") =>
                              send_buf.reg = "OPCODE"

\* "makes it easier to understand what each entry to the return_buf represents"
\* (max77958.c:211): while parse_interrupt_vals tests UIC_INT, CC_INT and PD_INT,
\* return_buf holds the interrupt registers.
ReturnBufIsInterrupts == \A c \in Cores : At(c, "check") => return_buf.of = "INT"
=============================================================================
