# A formal model of the smartphone-robot firmware

The firmware runs on the two cores of an RP2040 and sits between an Android
phone (USB serial) and the chips of the robot: motor drivers, battery charger,
USB-C controller, fuel gauge, wireless charging. This directory holds TLA+
models of its concurrent and protocol logic, the TLC configurations that check
them, and TLAPS proofs. All paths below are relative to the repository's root.

## The system

Core 0 runs `main` (`src/robot.c`): `on_start`, the self-tests, then `get_block`
for ever. GPIO interrupts are taken on core 0 and call `robot_interrupt_handler`,
which dispatches to the drivers' callbacks; these only put a function into
`call_queue`. Core 1 (`core1_entry`) takes the functions out and runs them; they
talk to the chips over I2C. Everything logs through `rp2040_log`.

| component | state | operations | talks to |
|---|---|---|---|
| log, `src/rp2040_log.c` | ring of 1028 lines, their sizes, head, tail, mutex | `rp2040_log`, `rp2040_get_byte_count`, `rp2040_log_flush` | called by both cores and by the interrupt callback; dumped by GET_LOG |
| call queue, `src/robot.c` | `call_queue` (256) | `call_queue_try_add`, `call_queue_pop` | filled by core 0's interrupts and by core 1, emptied by core 1 |
| serial protocol, `src/serial_comm_manager.c` | window under way, outgoing packet, `rp2040_state_` | `get_block`, `handle_packet`, NACK | host over USB; log; motor drivers |
| USB-C controller, `src/max77958.c` | `opcode_queue`, `send_buf`, `return_buf`, `op_code_return_buf`, `opcodes_finished` | init, interrupt parsing, opcode queue, VBUS on and off, self-tests | `call_queue`, chip |
| fuel gauge, `src/bq27742_g1.c` | `bq27742_g1_interrupt_pending`, edge enables of each core | callback, parse, re-arm, data-flash set-up | `call_queue`, chip |
| battery charger, `src/max77976.c` | register pointer and registers of the chip, self-test flags | callback, parse, configuration, details for GET_STATE, self-tests | `call_queue`, chip |
| power mux, `src/ncp3901.c` | `wireless_charger_attached`, self-test flags | callback, attached, detached, self-test | `call_queue` |
| motor drivers, `src/drv8830.c` | self-test flags, faults | set level, faults, fault callback | `call_queue`, chip, serial protocol |
| I2C, `src/robot.c` | CException's frame | transfers with retries | every driver, both cores |
| `bit_ops` | none | set, clear, assign bits and ranges | drivers |
| encoders, wireless receiver, level shifters, MAX77857 | none to speak of | pin set-up, reads | |

What is hard here: two cores share the log, `call_queue`, `opcode_queue`, the
drivers' static buffers and the GPIO edge latches; interrupts preempt core 0 in
the middle of any of that; chips hold their interrupt line until they are read,
so an alarm lost once is silent for ever; bytes from the host arrive late or
not at all; a chain of opcodes lives only as long as every answer starts the
next one; a register read takes two I2C transfers that the other core's can come
between, and a transfer that is tried again may have happened already; and the
robot restarts while its chips, on the battery, keep their state. `PROJECT.json` lists the hazards at their lines.

What would make each component correct: the log delivers the last lines in
order and in one piece; every alarm is read and none is queued twice; what
the serial protocol carries out was sent, and the host gets its reply; opcodes
run in order, all of them, with the contents their functions wrote; a chip that
was configured is configured as asked and in no third way, whatever failed.

## Modules

| module | models |
|---|---|
| `RecentLines` | what the log promises: the last lines, delivered at one instant (abstract) |
| `RP2040Log`, `MCRP2040Log`, `RP2040Log_proofs` | the ring, its mutex and the GET_LOG branch of `handle_packet` |
| `CallQueue`, `MCCallQueue`, `CallQueue_proofs` | edges, the interrupt callback, `call_queue`, core 1, and their use of the log mutex |
| `SerialComm`, `MCSerialComm`, `SerialComm_proofs` | `get_block` and `handle_packet` against the host of `tools/benchmark/main.cpp` |
| `MAX77958`, `MCMAX77958`, `MAX77958_proofs` | the opcode queue and the interrupt parser on two cores |
| `DataFlash` | the configuration of the fuel gauge's data flash over disturbed transfers and restarts |
| `BQ27742`, `MCBQ27742`, `BQ27742_proofs`, `BQ27742Pin_proofs` | the fuel gauge from its start on: `DataFlash` first, then its interrupt, pending flag and edge enables of two cores |
| `BitOps` | the helpers of `bit_ops.c` as operators on bytes |
| `MAX77976`, `MCMAX77976`, `MAX77976_proofs` | the battery charger and the I2C transfers under it: retries, CException's frame, the register pointer |
| `SelfTest`, `SelfTest_proofs` | the interrupt self-tests at the start, and the motor drivers' fault registers |

### RP2040Log

One variable per field of `CircularBufferLog`, the mutex's owner, and a program
counter per caller. The callers are the threads of the two cores and core 0's
GPIO callback, which logs when `call_queue` is full (`robot.c:463`) and while which
core 0's thread, the `Reader`, stands still (`Runs`). `rp2040_log` is `LogCall`, `LogEnter` (the mutex),
`FormatLine` (the two writes to the slot at `tail`), `AdvanceEnds` and
`ReleaseLock`; the GET_LOG branch is `DumpCall`, `DumpEnter`, `CountBytes`, one
`FlushLine` per round of `rp2040_log_flush`, and `ReleaseLock`. A line is its
message and how many characters of it were kept. `ByteCount` is the 16-bit sum
of sizes less one. The instance has 3 slots, room for 4 characters, a message
that fits and one that is cut, and counts modulo 8, so that the ring wraps many
times, holds unused slots at first, and the count wraps.

`LastLinesInOrder` is the refinement of `RecentLines` (`recent` is the ring read
from its oldest slot, `delivered` the last complete reply). `LockReleased` excepts
one state and names it: `Stuck`, the callback waiting for the mutex that the thread
it interrupted holds. From there nobody goes on, neither in the code nor in the
model. `log_count` shows
that the announced size is not the size of the body while slots are unused.

### CallQueue

Two kinds of pin stand for six: a *held* pin (the chip pulls it low until its
interrupt registers are read: MAX77976, MAX77958) and the *toggle* pin of the
wireless charger, for which both edges count. `IsrTake` is the SDK's handler,
which acknowledges and passes all latched edges of a pin at once; `IsrCallback`
the driver's callback and `call_queue_try_add`; `IsrReport` the log call before
the assertion on a full queue. While an interrupt is served core 0's thread
stands still, so a callback that needs the log mutex its own thread holds never
ends; `FullQueueReported` states exactly that exception. The queue has 3
entries instead of 256 with three pins, so that it fills; the charger pin
changes three times.

### SerialComm

`stream` is every byte that arrived and `read` how far `get_block` got. A window
is START, type, two bytes of data, END. `GetTimeout` is enabled whenever no byte
is there: how long a byte takes is the host's choice. The host may cut off a
packet (`tcflush`) at any point. Levels 254 and 255 are START and END, so the
data confuses the framing whenever it can; two packets, one cut. With three
packets and two cuts (1.6 million states, one type) the safety properties hold
as well. `OnlySentCommands` excepts windows whose *data* holds a START byte: a
truncated packet followed by a whole one can produce such a window. Of the state
in a reply only the motor levels are kept: `handle_packet` puts the packet's into
a SET_MOTOR_LEVEL reply, and a GET_STATE reply carries 0, although the comment in
`get_state` (`robot.c:116`) counts them to what it fetches.

`taker` remembers for every byte which window took it. `PacketsAnswered` asks for a
reply to *that* window: the START byte of a packet may be taken as data of a packet
that was cut off, and then it is the NACK of that window that counts, while a NACK
sent before the byte arrived does not.

### MAX77958

A C function is a sequence of steps, and `todo[c]` is what core `c` still has to
do; a step is one statement another core could see. Core 0's program is the list of
the functions it calls; `Enter` replaces a call by its body, so that what is still to
be called does not count as under way. The chip's interrupt
registers, CC status, last PD message and the opcodes under way are modelled as
the code uses them; what the chip does with an opcode written before the
previous one was answered is left open (queued, replaced or refused), since
`vbus_turn_off` does that. A buffer is the register it was filled for and what
was read. Bits tested in a buffer that holds something else can be anything.
`max77958_init` begins, in the model, where it enables the edge: it reads and clears
the interrupt registers on core 0 (`max77958.c:884`), in which bits may be latched
from before (`Latched`), and may so take a bit that core 1 has been called for.
`clashed` records that both cores were between filling a buffer and using it, or
both inside `opcode_queue_pop`; three runs show what then goes wrong, and the
properties of `opcodes` claim nothing afterwards (so the configuration's
constraint cuts those behaviours, and those with more than one event or drop).

The self-tests wait for `opcodes_finished` and then look at `op_code_return_buf`.
An answer is the number of its opcode, so that the two reads of
`test_max77958_snk_pdo_request` are told apart. `alone` records that nothing was
queued, running or unanswered when a test added its opcode, and that nothing was
added since; `WaitEndsWithOwnAnswer` says that `op_code_return_buf` then holds the
answer to the opcode added last when the wait ends. A test that begins between
core 1's failed pop and the setting of the flag for it (`max77958.c:91`) is not quiet,
and its wait does end with the other answer: the model has that behaviour, the
property leaves it out.

### DataFlash

`bq27742_g1_configure_host_interrupts` phase by phase, each with the transfer it
makes. The block of 32 bytes is reduced to the two bytes of PackConfig,
PackConfigC and one byte that must not change; class and block number are what
`Select` stands for. Which of the two bytes comes first in the block is a state of
the gauge (`msb`), since the code finds it out. A transfer may deliver one byte
wrong, a checksum is what tells; the RP2040 may restart between any two
transfers, the gauge does not. The gauge programs a block only if the checksum
that follows fits what it received.

The byte order is guessed from a value read by a command that has no checksum:
when the two bytes are equal, or that value came wrong, a gauge that keeps them
in the other order than the manual's cannot be told from one that does not
(`OrderUnknown`). `FlashIsOldOrWanted` and `ConfiguredIsConfigured` except exactly
that. The run has four contents of the flash (to be configured, one bit short,
configured, equal bytes), two disturbed bytes out of three values and two
restarts, so that a byte can be disturbed in both reads of a set-up, or one in
the write and one in the verification, and the start after a restart meets what
the one before left. The proofs do without these bounds.

### BitOps

The operators are the functions of `bit_ops.c` with shifts as multiplications.
`MCMAX77976` states, as assumptions TLC evaluates, what each bit of
`bit_assign`'s and `bit_set_range`'s results is, for all bytes and indices.

### MAX77976

`todo[c]` are the transfers core `c` has still to make: a register read is one
that sets the chip's pointer and one that reads from wherever the pointer is, a
write is one. `OnStart` is everything core 0 does to the charger before the main
loop (configuration, register self-tests, the bus scan), `GetState` a request
of the host, `ParseInterruptVals` what core 1 runs for an edge. The chip has its
pointer, the interrupt CHGIN_I, its mask, the four registers with settings and the
lock that protects these; it may be found unlocked, unmasked and with its interrupt set, because
it keeps running when the RP2040 restarts.

An attempt at a transfer may fail before or after its effect; after `MaxRetries`
of them the core throws. CException's frame is one variable for both cores:
`EnterTry` sets it, the return inside Try leaves it, and a `Throw` goes to whoever
set it last. What a core does in a foreign frame is undefined; `Astray` ends the
behaviour. Three histories name what the code cannot prevent, and the properties
except it by name: `crossed` (a transfer of one core came between the two of the
other), `partial` (an attempt at a read failed after it had cleared what it
read) and `nested` (both cores inside Try). The start's interrupt self-test of
the charger is in `SelfTest`.

`MaxRetries` is the code's 3; the input comes or goes while fewer than two
entries wait, which is enough for an alarm during the handling of another one
that was queued meanwhile (1.5 million states).

### BQ27742

Three contexts (core 0's thread in `bq27742_g1_init`, core 0's interrupt, core 1)
run the driver's statements one by one, as in `MAX77958`. The SDK's
`gpio_set_irq_enabled` clears the latch of an edge, which both cores share, and
changes the enables of the calling core only; that core 1 re-arms the falling
edge for itself, where no GPIO interrupt is enabled, follows from the code. Hence
an alarm can be missed: when the pin falls again before the falling edge is
re-armed, or the moment core 1 clears the latch. `due` records the alarms that
are not excepted that way. The history `raced` records that the interrupt came
while `bq27742_g1_init` was half-way through `bq27742_g1_queue_parse_interrupt`
or the re-arming; both edges can then stay enabled, and the properties claim
nothing. `PendingIsCleared` says that core 0, when
it is idle and the pending flag is set, listens to the rising edge, the one that
clears it. Three falls and one full queue; with the initial level, that is every
order of two alarms and a third that meets what they left behind. `SetUp` comes
before all that; `EndSetup` forgets the flash, which nothing touches later.

### SelfTest

`Program` is what core 0's thread does: the interrupt tests of `robot_unit_tests`
(`robot.c:279`) statement by statement, the bus scan and the register read at the
end of the start, then SET_MOTOR_LEVEL or GET_STATE whenever the host asks. A pin is
low while a test drives it or its chip, not masked, holds it; edges are latched from
the levels, so driving a pin that is low already makes none. The thread is preempted
as long as an edge is pending. A fault register holds nothing, a mere status, or an
active fault, which a clear may not remove. `Timeout` fires only when nothing is
queued or running: ten seconds are far more than core 1 needs. `call_queue` has room.

What the two cores do to each other on the bus is modelled transfer by transfer:

* Each chip has a register pointer. `aimed` is the chips whose pointer is where
  core 1's handler wants it; the handler sets it (`HandleSelect`) and reads
  (`HandleAlarm`, `HandleFault`) in two steps, and every transfer of the other core in
  between moves it: masks, register tests, the bus scan, requests of the host,
  `set_motor_control` (`drv8830.c:155`). Where a DRV8830's pointer is left matters
  only if the other core is about to read (`ReadsNext`), and is not remembered
  otherwise. A core that reads with the pointer elsewhere sees anything (`Seen`).
* The MAX77958's driver fills the static `send_buf` and then sends it, on both cores
  (`max77958.c:277-311`). `send_buf` is what it was filled for; `Fill` and `Send` on
  core 0, `HandleFill` and `HandleSelect` on core 1 are separate steps, and
  `OtherEntry` is any other entry of that driver. So masks may go to the interrupt
  register's address, and the chip stays unmasked, or stays masked. A lost
  *unmasking* leaves the chip masked for good; nothing in the code notices and no
  property speaks of a masked chip.

Two events (alarms, a charger coming or going, faults, other entries of core 1), and
a charger that may be there from the start: 580 thousand states. Two are enough for
a fault during the handling of a status, an alarm while another one's handler has the
buffer, and a charger that comes and goes; the proofs do without the bound.

The histories serve the exceptions the code needs. `stray`: a round answered
twice leaves a response that can pass for the next round's. `silent`: the pin
was low before it was driven; the assertion then stops the start, which is what
happens to a robot that is switched on upon its wireless charger. `fresh`: a
fault that came after a core's read and before its clear is wiped out unseen.
`misread`: the core's last read of a fault register went elsewhere, so that an
active fault may be taken for a status and cleared. `missed`: an alarm was read past,
because the pointer or the buffer had been changed, or came without an edge, because
the MAX77958's masks had gone astray and the test was driving the pin. `TestsEnd`
excepts one state in the same way: that chip held its pin low and was not masked when
the pin was driven, and the test waits without end (`max77958.c:842`).

## Runs

| run | expect | shows |
|---|---|---|
| `log` | pass | the ring implements the abstract log; ends meet; the count's value; mutex given back unless core 0's callback waits for its own thread |
| `log_count` | violation | announced size and body differ (`rp2040_log.c:88`) |
| `queue` | pass | alarms neither lost nor doubled and always read; order of entries; who can fill the queue; a full queue is reported |
| `queue_flag` | violation | both edges at once leave the flag wrong (`ncp3901.c:64`) |
| `serial` | pass | nothing carried out that was not sent; resynchronisation; order of replies; every packet answered |
| `opcodes` | pass | the chain of opcodes never dies; they run in order unless the cores meet; a self-test looks at its own answer |
| `opcodes_order` | violation | opcodes overtake each other (`max77958.c:886`) |
| `opcodes_buffer` | violation | `send_buf` overwritten by the other core (`max77958.c:327`) |
| `opcodes_interrupts` | violation | interrupt bits tested in an overwritten buffer (`max77958.c:211`) |
| `selftest` | pass | test rounds pass on their own interrupts; timeouts only without an edge; alarms survive the tests; faults are not cleared untold; the start ends, all this except where the cores' transfers cross |
| `gauge` | pass | the data flash is never left in a third state nor called configured when it is not; core 0 always listens to exactly one edge; the pending flag does not stick; alarms listened for are read |
| `charger` | pass | settings as asked and locked after any retries; interrupts cleared only for those who look for them and always on their way; a Throw ends at home unless both cores were inside Try |

Deadlock is not checked: the log really stops when the callback waits for the mutex
of the thread below it, core 0 stops after an assertion, the host may send nothing
more, and chips may have nothing to report. That nothing else stops is what the
liveness properties say.

## Fairness

* `RP2040Log`: core 1 and the callback, inside `rp2040_log`, keep executing (weak
  fairness). Core 0's thread executes while the callback does not run; it does so
  again and again (strong fairness), since each edge that calls the callback costs
  core 1 an I2C read of the chip that holds the pin. Nothing is assumed once the
  callback waits for the mutex of that thread: then the thread never runs. The mutex
  is not assumed fair; no property needs it.
* `CallQueue`: the cores execute (weak fairness). Strong fairness for taking a
  pin's interrupt, because the SDK's handler looks at every pin each time, and
  for the waits for the log mutex, because the thread sleeps (10 ms per round of
  `main`) between its log calls while the other core polls the mutex.
* `SerialComm`: `main` calls `get_block` again and again; nothing is assumed of
  the host.
* `BQ27742`: both cores execute, the set-up's phases included; nothing is assumed
  of the gauge.
* `MAX77976`: none; an alarm's way to its reader is an invariant.
* `SelfTest`: both cores execute, the interrupt is taken; nothing is assumed of
  chips, charger and host.
* `MAX77958`: both cores execute, and the chip answers every opcode it accepted.

## Proofs

`RP2040Log_proofs` proves `TypeOK`, `EndsMeet` and the refinement of
`RecentLines` for any number of callers, slots and messages. The inductive
invariant `IInv` adds to the types that the mutex is owned by exactly the caller
inside a critical section (`LockInv`), and that the ends of the ring are equal
except while the dump walks `head`, when what was printed are the slots from
`tail` on (`RingInv`). Without the second, `EndsMeet` is not inductive: the last
round of the flush has to know that `head` comes back to `tail`. The refinement
maps `AdvanceEnds`' predecessor `FormatLine` to `Record` and the last `FlushLine`
to `Deliver`; every other step stutters. Assumed of the constants:
`LogAssumption`. `byte_count` is left out of `TypeOK`: it is the value of a fold,
which the provers cannot evaluate, so the two properties on the count are
model-checked only.

`CallQueue_proofs` proves `TypeOK`, `AlarmOnItsWayOnce`, `FlagFollowsAccepted` and
`FullQueueIsToggles` for any pins and any capacity under `QueueAssumption` (the
held pins are finitely many, since their entries are counted). The strengthening
`Shape` says that held pins latch falling edges only and that core 1 reads only for
parse entries; the proof follows the one place of each alarm from step to step.
`FlagFollowsAccepted` is not inductive: `Follows` adds that the last entry queued for
the charger pin, or the running one when none is queued, is for the edge accepted
last. `FullQueueIsToggles` counts: the queued positions of a held pin are at most
one, so those of the held pins together are at most as many as the pins.

`SerialComm_proofs` proves all four safety properties for any packets, types, levels
and number of cuts, under `SerialAssumption`. `IInv` adds four parts to the types.
`Window` ties the window under way to the bytes of `stream` it was read from. `Past`
says that every window handled is over, ended where it should and held what the
stream holds, which gives `RepliesInOrder`. `Framing` says that every byte of
`stream` can be given a place in a packet of the host, places of neighbours following
each other except after a cut; with it a window whose five bytes fit and whose data
holds no START byte is a whole packet, which gives `OnlySentCommands`. `Quiet` says
that a packet begun in a quiet moment is ahead, is the window under way or is over,
which gives `InStepAfterQuiet`.

`MAX77958_proofs` proves every safety property of the driver (`TypeOK`,
`OpcodesInOrderUnlessClashed`, `NoOpcodeStranded` and `WaitEndsWithOwnAnswer`)
for any calls of core 0 and any number of events and drops. `TypeInv` has to say of
what `todo[c]` is made: what is left of the driver's functions, one after another
(`Todos`), since a step may be followed only by what its function does next. Then
there are four arguments. `Numbered`: while the cores have not met, the
opcodes' numbers rise along `ran`, the running one, `call_queue`, the cores'
hands and `opcode_queue`. `Links` and `Undisturbed`: in each list a read follows its
select and a select its fill; while the cores have not met, what core 1 writes as
an opcode is one, core 1 tests the interrupt registers right after it has read them,
and core 0, which reads and clears them in `max77958_init` only, has a pop ahead when
it does: should it take the answer that would have fetched an opcode, it fetches that
opcode itself. `Followed`: while an opcode waits, something *carries* it on: an
opcode in `call_queue`, a pop under way, an opcode being written or at the chip, its
answer in the interrupt register, or the check that is about to see that bit. Each action
leaves the carrier alone or hands over to the next. The fourth, for
`WaitEndsWithOwnAnswer`, needs the order of the steps in a list and not only that they
stand together. `Chains` says what may stand behind what (a pop behind an add or a
read answer, a wait behind a pop, ...), so that each step of a pop, an opcode's function
or an answer is reached by one action only. `Looking` ties the buffers to the place of core 1
in `parse_interrupt_vals`, so that it takes no other contents for an answer. `Alone` says
where the single opcode of a test is: before the wait nothing is under way (`Idle`); during
it the opcode is queued, prepared, written, sent, answered by an interrupt, seen,
fetched or told (`Queued`, `Prepared`, `Written`, `Sent`, `Raised`, `Seen`, `Fetched`,
`Told`), and `opcodes_finished` is down in every stage but the last. The pop that
raises the flag is therefore the one behind the answer. A dropped opcode leaves the
test in `Queued`, where nothing raises the flag: its wait does not end before another
opcode is added, and then the theorem no longer speaks of it.

`BQ27742_proofs` proves `FlashIsOldOrWanted` and `ConfiguredIsConfigured` for
whatever the flash holds, any noise and any number of disturbances and restarts,
under `DataFlashAssumption`. `FlashInv` adds what each phase knows: that the value
read by command is right in at least one of its bytes, that the block fetched is
the flash's, that what is to be written is what is wanted, and that a disturbed
write is off in one byte. The argument has three parts. Contents that differ in
one byte have different checksums (`ChecksumTells`), so a disturbed block is
neither believed nor programmed. Asking for the four bits twice asks for nothing
new (`HostBitsTwice`, `WantedTwice`), so a start that meets a flash configured
before a restart leaves it alone. And what `ReadBlock` decides on is `Wanted` of
the flash's first contents unless the order is unknown (`Decision`).

`BQ27742Pin_proofs` proves the interrupt part of the same module: `TypeOK`,
`ListensToOneEdge`, `PendingIsCleared` and `DueIsOnItsWay`, for any number of falls and
full queues. `PinInv` fixes, for each context, which statements it can have left
(`Todos`), so that the edges core 0 listens to and the pending flag are known at
every point between two statements; while nothing raced, the thread's routine and
the interrupt's never overlap (`OneAtATime`); and a due alarm always has a place,
from the latch to the parser (`Carried`).

`MAX77976_proofs` proves every safety property of the charger for any number of
retries and any bound on the queue. `ThrownAtHome` follows from `FrameInv`: a core
inside Try owns the frame unless both were. Frames left behind by calls that are
over do not matter, because a core that throws has entered Try since. `BusInv` knows
the transfers each core still has to make: they are runs of whole register accesses
(`Runs`, `Lists`), and as long as nothing crossed, the pointer is where the read that
comes next expects it (`PointsRight`). With that, a read that empties CHG_INT is
one whose caller looks at it (`AlarmClearedByItsReader`), and the alarm's carrier, edge,
entry or reader, is handed over without a gap (`AlarmIsOnItsWay`). `SettingsInv` adds
what the registers hold after each write of `max77976_init` (`Settings`), whatever
core 1 does meanwhile; a retried write writes the same again.

`SelfTest_proofs` proves every safety property of the self-tests for any number of
events. `Types` includes that the thread stays inside the program; `Position` derives
from its place whether the MAX77976 is masked, what is driven and announced, which gives
`OneEntryAfterTests`. For `AlarmOutlivesTest`, a pin is released before its chip is
unmasked, and a handler that reads leaves nothing behind or has `missed` it. Nothing is
assumed of what `send_buf` holds, and so nothing of whether the MAX77958 is masked.
`Rounds` says that in `call_queue` and on core 1 the handler is
always ahead of the response the same interrupt queued, and where a leftover
response may be; `EdgeInv` that a driven pin has an answer under way unless it was
low already; `FaultTold` that before a clear a fault is told, fresh or misread. They give
`PassedRoundIsItsOwn`, `TimesOutOnlyWithoutEdge` and `ClearedFaultWasTold`.

tlapm 1.4.5 takes a function over `{0, 1}` for a sequence of length 1 when it passes
a goal to the SMT solver (its axiom on `Len` and `DOMAIN` is an equivalence). The proofs
do not use that: they pass as well with that axiom weakened to an implication.

Model-checked only: liveness (`AlarmIsRead`, `FullQueueReported`, `PacketsAnswered`,
`OpcodesDrain`, `DueIsRead`, `TestsEnd`, `LockReleased`), and the counts of the log, which
are sums over the ring, so induction over data.

## Abstractions and limits

* An I2C transfer is one step. It succeeds except in `MAX77976` and `DataFlash`,
  and except the motor write of `set_motor_control`, whose result the code
  ignores.
* In `DataFlash` a transfer that fails three times is a restart: core 0 stops at an
  assertion. `MAX77976` shows the retries.
* Not modelled: the fuel gauge's measurements (plain reads for GET_STATE) and its
  shutdown subcommands (one cleared at the start, one set by a shutdown that is
  never reached); `max77976_log_current_limit` and `max77976_toggle_led`, which
  nothing calls; `set_voltage`'s conversion; the ADC reads of the
  power mux and the wireless receiver; the encoders, whose counting is a PIO
  program; pin set-up.
* `MAX77958` leaves out the bus scan's one read of that chip, which can clear an
  interrupt bit when the pointer is at the interrupt registers; `SelfTest` has it
  (`Fetch`). What `SelfTest` abstracts of that driver, opcodes and what they read, is
  in `MAX77958`.
* Where the code asserts, the core stops; a release build would go on.
* `LOGGER_UART`, `BOARD_PICO` and `DRV8830_SCOPE_TEST` builds are not modelled.
* `max77958_driver.h`, which names registers and opcodes, is not in the
  repository; the names are taken from their use.
* The fuel gauge's driver, the motor drivers and the self-tests add
  entries to `call_queue` that `CallQueue` does not show; `MAX77958` admits them
  as a drop.

## Plan

Modules in the order they were written: log, call queue, serial protocol, USB-C
controller, fuel gauge's interrupt, self-tests, bit operations, charger with the
I2C transfers, data flash.

What is left:

1. `set_voltage` and the gauge's conversions as operators against reference
   definitions.
2. The chip's treatment of an opcode written before the last was answered, should
   its documentation become part of the repository: then the order of power
   messages and disconnects can be stated for VBUS.
