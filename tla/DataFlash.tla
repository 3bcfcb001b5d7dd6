----------------------------- MODULE DataFlash -----------------------------
(***************************************************************************)
(* How the start makes the fuel gauge drive its interrupt pin:             *)
(* bq27742_g1_configure_host_interrupts, src/src/bq27742_g1.c.  It reads a *)
(* block of the gauge's data flash, sets and clears bits of PackConfig and *)
(* PackConfigC in it, writes it back and reads it once more.  A block goes *)
(* with a checksum, and the gauge programs a block only when the checksum  *)
(* that follows it fits.  In which order the two bytes of PackConfig lie   *)
(* in the block the driver finds out by reading the same value with a      *)
(* command of its own, which has no checksum.                              *)
(*                                                                         *)
(* Faults: a transfer may change a byte, and the RP2040 may restart, while *)
(* the gauge, on the battery, does not.  A transfer that fails three times *)
(* stops core 0 (MAX77976 models that), so that a restart follows.         *)
(***************************************************************************)
EXTENDS Integers, BitOps

CONSTANTS Blocks,       \* what the data flash may hold at first
          Noise,        \* bytes a disturbed transfer may deliver
          MaxNoise,     \* bound: how many bytes are disturbed
          MaxRestarts   \* bound: how often the RP2040 restarts

Positions == 0..3       \* of the block's 32 bytes: PackConfig, another byte,
                        \* PackConfigC

ASSUME DataFlashAssumption ==
    /\ Blocks \subseteq [Positions -> Byte]
    /\ Noise \subseteq Byte
    /\ MaxNoise \in Nat
    /\ MaxRestarts \in Nat

VARIABLES flash,        \* the gauge's data flash
          first,        \* history: what it held at first
          msb,          \* the position of PackConfig's high byte: 0 as in the
                        \* manual, or 1
          block,        \* the gauge's copy of the block, for transfers
          phase,        \* what core 0 does next
          pack_config,  \* <<high, low>> as read by command
          block_data, pack_config_high_index,
          report,       \* how the set-up ended
          misread,      \* history: a wrong pack_config was relied on
          noise, restarts   \* bound counters

flashVars == <<flash, first, msb, block, phase, pack_config, block_data,
               pack_config_high_index, report, misread, noise, restarts>>

Empty == [p \in Positions |-> 0]

\* The bits the driver wants in PackConfig's high byte, HOSTIE, HOSTIPU and
\* HOSTIPOL, and in PackConfigC, BTP_EN.
HostBits(high) == bit_clear(bit_clear(bit_set(high, 4), 6), 5)
Wanted(b, high) == [b EXCEPT ![high] = HostBits(@), ![3] = bit_clear(@, 0)]

checksum(b) == 255 - ((b[0] + b[1] + b[2] + b[3]) % 256)

InitFlash ==
    /\ first \in Blocks
    /\ flash = first
    /\ msb \in {0, 1}
    /\ block = Empty
    /\ phase = "get_pack_configuration"
    /\ pack_config = <<0, 0>>
    /\ block_data = Empty
    /\ pack_config_high_index = 0
    /\ report = "none"
    /\ misread = FALSE
    /\ noise = 0
    /\ restarts = 0

-----------------------------------------------------------------------------
(* Transfers. *)

\* What arrives of a block: all of it, or one byte is another.
Arrives(b) == {b} \cup IF noise = MaxNoise THEN {}
                       ELSE {[b EXCEPT ![p] = x] : p \in Positions, x \in Noise}
Count(b, arrived) == noise' = IF arrived = b THEN noise ELSE noise + 1

Finish(how) ==
    /\ phase' = "done"
    /\ report' = how
    /\ pack_config' = <<0, 0>>
    /\ block_data' = Empty
    /\ pack_config_high_index' = 0

GetPackConfiguration ==
    /\ phase = "get_pack_configuration"
    /\ \E b \in Arrives(flash) :
           /\ Count(flash, b)
           /\ pack_config' = <<b[msb], b[1 - msb]>>
    /\ phase' = "select"
    /\ UNCHANGED <<flash, first, msb, block, block_data, pack_config_high_index,
                   report, misread, restarts>>

\* Class and block number: the gauge fetches the block from its flash.
Select(from, to) ==
    /\ phase = from
    /\ block' = flash
    /\ phase' = to
    /\ UNCHANGED <<flash, first, msb, pack_config, block_data,
                   pack_config_high_index, report, misread, noise, restarts>>

\* The index of PackConfig's high byte in a block, as far as pack_config tells.
HighIndex(b) ==
    IF <<b[1], b[0]>> = pack_config /\ <<b[0], b[1]>> # pack_config THEN 1 ELSE 0

\* Mutated form of ReadBlock: the checksum is not looked at.
ReadBlockUnchecked ==
    /\ phase = "read"
    /\ \E b \in Arrives(block) :
           LET high == HighIndex(b) IN
           /\ Count(block, b)
           /\ misread' = (misread \/ pack_config # <<flash[msb], flash[1 - msb]>>)
           /\ \/ /\ b = Wanted(b, high)
                 /\ Finish("already")
              \/ /\ b # Wanted(b, high)
                 /\ phase' = "select_write"
                 /\ block_data' = Wanted(b, high)
                 /\ pack_config_high_index' = high
                 /\ UNCHANGED <<pack_config, report>>
    /\ UNCHANGED <<flash, first, msb, block, restarts>>

\* The block and its checksum are read, and what is to be written is decided.
ReadBlock ==
    /\ phase = "read"
    /\ \E b \in Arrives(block) :
           LET high == HighIndex(b) IN
           /\ Count(block, b)
           /\ misread' = (misread \/ pack_config # <<flash[msb], flash[1 - msb]>>)
           /\ \/ /\ checksum(b) # checksum(block)
                 /\ Finish("unread")
              \/ /\ checksum(b) = checksum(block)
                 /\ b = Wanted(b, high)
                 /\ Finish("already")
              \/ /\ checksum(b) = checksum(block)
                 /\ b # Wanted(b, high)
                 /\ phase' = "select_write"
                 /\ block_data' = Wanted(b, high)
                 /\ pack_config_high_index' = high
                 /\ UNCHANGED <<pack_config, report>>
    /\ UNCHANGED <<flash, first, msb, block, restarts>>

WriteBlock ==
    /\ phase = "write"
    /\ \E b \in Arrives(block_data) : Count(block_data, b) /\ block' = b
    /\ phase' = "checksum"
    /\ UNCHANGED <<flash, first, msb, pack_config, block_data,
                   pack_config_high_index, report, misread, restarts>>

\* The checksum of what was meant to be written; the gauge compares.
WriteChecksum ==
    /\ phase = "checksum"
    /\ flash' = IF checksum(block) = checksum(block_data) THEN block ELSE flash
    /\ phase' = "select_verify"
    /\ UNCHANGED <<first, msb, block, pack_config, block_data,
                   pack_config_high_index, report, misread, noise, restarts>>

\* Mutated form of Verify: the flash is only read.
VerifyNothing ==
    /\ phase = "verify"
    /\ \E b \in Arrives(block) :
           /\ Count(block, b)
           /\ Finish(IF checksum(b) # checksum(block) THEN "unverified" ELSE "configured")
    /\ UNCHANGED <<flash, first, msb, block, misread, restarts>>

\* Only the bytes that were to change are compared.
Verify ==
    LET compared == {pack_config_high_index, 1 - pack_config_high_index, 3} IN
    /\ phase = "verify"
    /\ \E b \in Arrives(block) :
           /\ Count(block, b)
           /\ Finish(CASE checksum(b) # checksum(block) -> "unverified"
                       [] \E p \in compared : b[p] # block_data[p] -> "mismatch"
                       [] OTHER -> "configured")
    /\ UNCHANGED <<flash, first, msb, block, misread, restarts>>

\* The RP2040 starts anew and knows nothing; the gauge is as it was.
Restart ==
    /\ phase # "over"
    /\ restarts < MaxRestarts
    /\ restarts' = restarts + 1
    /\ phase' = "get_pack_configuration"
    /\ report' = "none"
    /\ pack_config' = <<0, 0>>
    /\ block_data' = Empty
    /\ pack_config_high_index' = 0
    /\ UNCHANGED <<flash, first, msb, block, misread, noise>>

ConfigureHostInterrupts ==
    \/ GetPackConfiguration
    \/ Select("select", "read")
    \/ ReadBlock
    \/ Select("select_write", "write")
    \/ WriteBlock
    \/ WriteChecksum
    \/ Select("select_verify", "verify")
    \/ Verify

\* The start goes on.  The model then forgets the flash: nothing after the
\* set-up reads or writes it.
EndSetup ==
    /\ phase = "done"
    /\ phase' = "over"
    /\ flash' = Empty
    /\ first' = Empty
    /\ msb' = 0
    /\ block' = Empty
    /\ report' = "none"
    /\ misread' = FALSE
    /\ noise' = 0
    /\ restarts' = 0
    /\ UNCHANGED <<pack_config, block_data, pack_config_high_index>>

-----------------------------------------------------------------------------
(* Properties. *)

FlashTypeOK ==
    /\ {flash, first, block, block_data} \subseteq [Positions -> Byte]
    /\ msb \in {0, 1}
    /\ phase \in {"get_pack_configuration", "select", "read", "select_write",
                  "write", "checksum", "select_verify", "verify", "done", "over"}
    /\ pack_config \in Byte \X Byte
    /\ pack_config_high_index \in {0, 1}
    /\ report \in {"none", "unread", "already", "unverified", "mismatch", "configured"}
    /\ misread \in BOOLEAN
    /\ noise \in 0..MaxNoise
    /\ restarts \in 0..MaxRestarts

\* The order of the bytes cannot be told: they are not in the manual's order, and
\* look the same both ways or were compared with a wrong pack_config.
OrderUnknown == msb = 1 /\ (first[0] = first[1] \/ misread)

\* Whatever is disturbed and whenever the robot restarts, the gauge's flash holds
\* what it held at first, or that with just the four bits changed: a half-written
\* or disturbed block is never programmed, and one that was programmed is not
\* programmed differently at the next start (bq27742_g1.c:402-437).
FlashIsOldOrWanted ==
    phase # "over" /\ ~OrderUnknown => flash \in {first, Wanted(first, msb)}

\* When the start says the interrupts are configured, or were already, they are
\* (bq27742_g1.c:353-392).
ConfiguredIsConfigured ==
    report \in {"already", "configured"} /\ ~OrderUnknown => flash = Wanted(first, msb)
=============================================================================
