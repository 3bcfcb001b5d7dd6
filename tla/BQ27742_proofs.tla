--------------------------- MODULE BQ27742_proofs ---------------------------
(***************************************************************************)
(* Proofs about the set-up of the fuel gauge's data flash, for whatever    *)
(* the flash holds at first, any bytes a disturbed transfer may deliver    *)
(* and any number of disturbances and restarts.                            *)
(***************************************************************************)
EXTENDS BQ27742, TLAPS

Contents == [Positions -> Byte]

\* At most one byte differs.
OneOff(b, c) == \E p \in Positions : \A q \in Positions \ {p} : b[q] = c[q]

-----------------------------------------------------------------------------
(* Bits and checksums. *)

LEMMA Powers == 2^0 = 1 /\ 2^4 = 16 /\ 2^5 = 32 /\ 2^6 = 64
BY SMT

LEMMA Set4 ==
    ASSUME NEW v \in Byte
    PROVE  bit_set(v, 4) \in Byte /\ bit_check(bit_set(v, 4), 4) = 1
BY Powers, SMT DEF Byte, bit_set, bit_check

LEMMA Clear6 ==
    ASSUME NEW v \in Byte
    PROVE  /\ bit_clear(v, 6) \in Byte
           /\ bit_check(bit_clear(v, 6), 6) = 0
           /\ bit_check(bit_clear(v, 6), 4) = bit_check(v, 4)
BY Powers, SMT DEF Byte, bit_clear, bit_check

LEMMA Clear5 ==
    ASSUME NEW v \in Byte
    PROVE  /\ bit_clear(v, 5) \in Byte
           /\ bit_check(bit_clear(v, 5), 5) = 0
           /\ bit_check(bit_clear(v, 5), 4) = bit_check(v, 4)
           /\ bit_check(bit_clear(v, 5), 6) = bit_check(v, 6)
BY Powers, SMT DEF Byte, bit_clear, bit_check

LEMMA Clear0 ==
    ASSUME NEW v \in Byte
    PROVE  bit_clear(v, 0) \in Byte /\ bit_clear(bit_clear(v, 0), 0) = bit_clear(v, 0)
BY Powers, SMT DEF Byte, bit_clear, bit_check

\* Bits that are set up stay as they are when they are set up again.
LEMMA HostBitsTwice ==
    ASSUME NEW v \in Byte
    PROVE  HostBits(v) \in Byte /\ HostBits(HostBits(v)) = HostBits(v)
<1>. DEFINE a == bit_set(v, 4)
            b == bit_clear(a, 6)
            w == bit_clear(b, 5)
<1>1. a \in Byte /\ bit_check(a, 4) = 1
  BY Set4
<1>2. b \in Byte /\ bit_check(b, 6) = 0 /\ bit_check(b, 4) = 1
  <2>. HIDE DEF a
  <2>. QED
    BY <1>1, Clear6
<1>3. w \in Byte /\ bit_check(w, 5) = 0 /\ bit_check(w, 6) = 0 /\ bit_check(w, 4) = 1
  <2>. HIDE DEF b
  <2>. QED
    BY <1>2, Clear5
<1>4. w = HostBits(v)
  BY DEF HostBits
<1>5. HostBits(w) = w
  <2>. HIDE DEF w
  <2>1. bit_set(w, 4) = w
    BY <1>3 DEF bit_set
  <2>2. bit_clear(w, 6) = w /\ bit_clear(w, 5) = w
    BY <1>3 DEF bit_clear
  <2>. QED
    BY <2>1, <2>2 DEF HostBits
<1>. HIDE DEF w
<1>. QED
  BY <1>3, <1>4, <1>5

LEMMA WantedBytes ==
    ASSUME NEW b \in Contents, NEW high \in {0, 1}
    PROVE  /\ Wanted(b, high) \in Contents
           /\ Wanted(b, high)[high] = HostBits(b[high])
           /\ Wanted(b, high)[1 - high] = b[1 - high]
           /\ Wanted(b, high)[2] = b[2]
           /\ Wanted(b, high)[3] = bit_clear(b[3], 0)
<1>. /\ HostBits(b[high]) \in Byte
     /\ bit_clear(b[3], 0) \in Byte
     /\ high \in Positions
  BY HostBitsTwice, Clear0 DEF Contents, Positions
<1>. QED
  BY DEF Wanted, Contents, Positions

LEMMA SumTells ==
    ASSUME NEW x \in Byte, NEW y \in Byte, NEW r \in Nat,
           (r + x) % 256 = (r + y) % 256
    PROVE  x = y
BY SMTT(30) DEF Byte

\* The checksum tells contents apart that differ in one byte.
LEMMA ChecksumTells ==
    ASSUME NEW b \in Contents, NEW c \in Contents,
           OneOff(b, c), checksum(b) = checksum(c)
    PROVE  b = c
<1>1. PICK p \in Positions : \A q \in Positions \ {p} : b[q] = c[q]
  BY DEF OneOff
<1>2. \A q \in Positions : b[q] \in Byte /\ c[q] \in Byte
  BY DEF Contents
<1>3. /\ b[0] \in Nat /\ b[1] \in Nat /\ b[2] \in Nat /\ b[3] \in Nat
      /\ c[0] \in Nat /\ c[1] \in Nat /\ c[2] \in Nat /\ c[3] \in Nat
  <2>1. \A n \in Byte : n \in Nat
    BY DEF Byte
  <2>2. {0, 1, 2, 3} \subseteq Positions
    BY DEF Positions
  <2>. QED
    BY <1>2, <2>1, <2>2
<1>. DEFINE s == b[0] + b[1] + b[2] + b[3]
            t == c[0] + c[1] + c[2] + c[3]
<1>4. s % 256 = t % 256
  <2>1. s \in Nat /\ t \in Nat
    BY <1>3
  <2>2. 255 - (s % 256) = 255 - (t % 256)
    BY DEF checksum
  <2>. HIDE DEF s, t
  <2>. QED
    BY <2>1, <2>2
<1>5. \E r \in Nat : s = r + b[p] /\ t = r + c[p]
  <2>. DEFINE Rest(r) == r \in Nat /\ s = r + b[p] /\ t = r + c[p]
  <2>1. CASE p = 0
    <3>1. b[1] = c[1] /\ b[2] = c[2] /\ b[3] = c[3]
      BY <1>1, <2>1 DEF Positions
    <3>2. Rest(b[1] + b[2] + b[3])
      BY <1>3, <2>1, <3>1
    <3>. QED
      BY <3>2
  <2>2. CASE p = 1
    <3>1. b[0] = c[0] /\ b[2] = c[2] /\ b[3] = c[3]
      BY <1>1, <2>2 DEF Positions
    <3>2. Rest(b[0] + b[2] + b[3])
      BY <1>3, <2>2, <3>1
    <3>. QED
      BY <3>2
  <2>3. CASE p = 2
    <3>1. b[0] = c[0] /\ b[1] = c[1] /\ b[3] = c[3]
      BY <1>1, <2>3 DEF Positions
    <3>2. Rest(b[0] + b[1] + b[3])
      BY <1>3, <2>3, <3>1
    <3>. QED
      BY <3>2
  <2>4. CASE p = 3
    <3>1. b[0] = c[0] /\ b[1] = c[1] /\ b[2] = c[2]
      BY <1>1, <2>4 DEF Positions
    <3>2. Rest(b[0] + b[1] + b[2])
      BY <1>3, <2>4, <3>1
    <3>. QED
      BY <3>2
  <2>. HIDE DEF s, t
  <2>. QED
    BY <2>1, <2>2, <2>3, <2>4 DEF Positions
<1>. HIDE DEF s, t
<1>6. PICK r \in Nat : s = r + b[p] /\ t = r + c[p]
  BY <1>5
<1>7. b[p] = c[p]
  BY <1>2, <1>4, <1>6, SumTells
<1>. QED
  BY <1>1, <1>7 DEF Contents

LEMMA ArrivesTyped ==
    ASSUME NEW b \in Contents, NEW x \in Arrives(b), Count(b, x),
           noise \in 0..MaxNoise
    PROVE  x \in Contents /\ OneOff(x, b) /\ noise' \in 0..MaxNoise
<1>1. CASE x = b
  BY <1>1 DEF OneOff, Count, Positions
<1>2. CASE x # b
  <2>1. PICK p \in Positions, n \in Noise : x = [b EXCEPT ![p] = n]
    BY <1>2 DEF Arrives
  <2>2. x \in Contents /\ OneOff(x, b)
    BY <2>1, DataFlashAssumption DEF Contents, OneOff
  <2>3. noise # MaxNoise
    BY <1>2 DEF Arrives
  <2>. QED
    BY <1>2, <2>2, <2>3, DataFlashAssumption DEF Count
<1>. QED
  BY <1>1, <1>2

-----------------------------------------------------------------------------
(* What the driver decides to write. *)

LEMMA WantedTwice ==
    ASSUME NEW b \in Contents, NEW high \in {0, 1}
    PROVE  Wanted(Wanted(b, high), high) = Wanted(b, high)
<1>. DEFINE w == Wanted(b, high)
<1>1. w \in Contents /\ w[high] = HostBits(b[high]) /\ w[3] = bit_clear(b[3], 0)
  BY WantedBytes
<1>2. HostBits(w[high]) = w[high] /\ bit_clear(w[3], 0) = w[3]
  BY <1>1, HostBitsTwice, Clear0 DEF Contents, Positions
<1>. HIDE DEF w
<1>3. Wanted(w, high) = w
  BY <1>1, <1>2 DEF Wanted, Contents, Positions
<1>. QED
  BY <1>3 DEF w

\* Whether the flash is old or was set up before, what is wanted is the same,
\* unless the order of the bytes cannot be told.
LEMMA Decision ==
    ASSUME first \in Contents, msb \in {0, 1},
           NEW b \in {first, Wanted(first, msb)},
           pack_config \in Byte \X Byte,
           \/ pack_config = <<b[msb], b[1 - msb]>>
           \/ msb = 0 /\ (pack_config[1] = b[msb] \/ pack_config[2] = b[1 - msb]),
           ~(msb = 1 /\ first[0] = first[1])
    PROVE  Wanted(b, HighIndex(b)) = Wanted(first, msb)
<1>1. Wanted(b, msb) = Wanted(first, msb)
  BY WantedTwice
<1>2. CASE msb = 0
  <2>1. HighIndex(b) = 0
    BY <1>2 DEF HighIndex
  <2>. QED
    BY <1>1, <1>2, <2>1
<1>3. CASE msb = 1 /\ b[0] # b[1]
  <2>1. HighIndex(b) = 1
    BY <1>3 DEF HighIndex
  <2>. QED
    BY <1>1, <1>3, <2>1
<1>4. CASE msb = 1 /\ b[0] = b[1]
  <2>1. HighIndex(b) = 0
    BY <1>4 DEF HighIndex
  <2>2. b = Wanted(first, 1)
    BY <1>4
  <2>3. b \in Contents /\ b[1] = HostBits(first[1]) /\ b[3] = bit_clear(first[3], 0)
    BY <2>2, WantedBytes
  <2>4. HostBits(b[0]) = b[0] /\ bit_clear(b[3], 0) = b[3]
    BY <1>4, <2>3, HostBitsTwice, Clear0 DEF Contents, Positions
  <2>5. Wanted(b, 0) = b
    BY <2>3, <2>4 DEF Wanted, Contents, Positions
  <2>. QED
    BY <1>4, <2>1, <2>2, <2>5
<1>. QED
  BY <1>2, <1>3, <1>4

-----------------------------------------------------------------------------
(* The inductive invariant. *)

Deciding == {"select", "read"}
Decided == {"select_write", "write", "checksum", "select_verify", "verify"}

\* What was read by command is wrong in one byte at most, and right if that
\* matters; what is read of the block is what is in the flash; what is to be
\* written is what is wanted; and a disturbed write is off by one byte.
FlashInv ==
    /\ FlashTypeOK
    /\ phase \in Deciding => pack_config[1] = flash[msb] \/ pack_config[2] = flash[1 - msb]
    /\ phase \in {"read", "verify"} => block = flash
    /\ phase = "checksum" => OneOff(block, block_data)
    /\ phase \in Decided /\ ~OrderUnknown => block_data = Wanted(first, msb)
    /\ FlashIsOldOrWanted
    /\ ConfiguredIsConfigured

LEMMA InitFlashInv == InitFlash => FlashInv
<1>. SUFFICES ASSUME InitFlash
              PROVE  FlashInv
  OBVIOUS
<1>1. Empty \in Contents /\ first \in Contents
  BY DataFlashAssumption DEF InitFlash, Empty, Contents, Byte
<1>2. FlashTypeOK
  <2>1. 0 \in 0..MaxNoise /\ 0 \in 0..MaxRestarts /\ 0 \in Byte
    BY DataFlashAssumption DEF Byte
  <2>. QED
    BY <1>1, <2>1 DEF InitFlash, FlashTypeOK, Contents
<1>. QED
  BY <1>2
     DEF InitFlash, FlashInv, Deciding, Decided, FlashIsOldOrWanted,
         ConfiguredIsConfigured

LEMMA SelectInv ==
    ASSUME FlashInv, NEW from, NEW to, Select(from, to),
           <<from, to>> \in {<<"select", "read">>, <<"select_write", "write">>,
                            <<"select_verify", "verify">>}
    PROVE  FlashInv'
<1>1. FlashTypeOK'
  BY DEF FlashInv, FlashTypeOK, Select
<1>2. OrderUnknown' = OrderUnknown /\ Wanted(first, msb)' = Wanted(first, msb)
  BY DEF OrderUnknown, Select, Wanted
<1>. QED
  BY <1>1, <1>2
     DEF FlashInv, Select, Deciding, Decided, FlashIsOldOrWanted,
         ConfiguredIsConfigured

LEMMA GetPackConfigurationInv ==
    ASSUME FlashInv, GetPackConfiguration
    PROVE  FlashInv'
<1>1. PICK b \in Arrives(flash) : Count(flash, b) /\ pack_config' = <<b[msb], b[1 - msb]>>
  BY DEF GetPackConfiguration
<1>2. b \in Contents /\ OneOff(b, flash) /\ noise' \in 0..MaxNoise
  BY <1>1, ArrivesTyped DEF FlashInv, FlashTypeOK, Contents
<1>3. b[msb] \in Byte /\ b[1 - msb] \in Byte
  BY <1>2 DEF Contents, Positions, FlashInv, FlashTypeOK
<1>4. b[msb] = flash[msb] \/ b[1 - msb] = flash[1 - msb]
  BY <1>2 DEF OneOff, Positions, FlashInv, FlashTypeOK
<1>5. FlashTypeOK'
  BY <1>1, <1>2, <1>3 DEF FlashInv, FlashTypeOK, GetPackConfiguration
<1>6. OrderUnknown' = OrderUnknown /\ Wanted(first, msb)' = Wanted(first, msb)
  BY DEF OrderUnknown, GetPackConfiguration, Wanted
<1>. QED
  BY <1>1, <1>4, <1>5, <1>6
     DEF FlashInv, GetPackConfiguration, Deciding, Decided, FlashIsOldOrWanted,
         ConfiguredIsConfigured

LEMMA ReadBlockInv ==
    ASSUME FlashInv, ReadBlock
    PROVE  FlashInv'
<1>1. PICK b \in Arrives(block) :
          LET high == HighIndex(b) IN
          /\ Count(block, b)
          /\ misread' = (misread \/ pack_config # <<flash[msb], flash[1 - msb]>>)
          /\ \/ /\ checksum(b) # checksum(block)
                /\ Finish("unread")
             \/ /\ checksum(b) = checksum(block)
                /\ b = Wanted(b, high)
                /\ Finish("already")
             \/ /\ checksum(b) = checksum(block)
                /\ b # Wanted(b, high)
                /\ phase' = "select_write"
                /\ block_data' = Wanted(b, high)
                /\ pack_config_high_index' = high
                /\ UNCHANGED <<pack_config, report>>
  BY DEF ReadBlock
<1>2. b \in Contents /\ OneOff(b, block) /\ noise' \in 0..MaxNoise /\ block \in Contents
  BY <1>1, ArrivesTyped DEF FlashInv, FlashTypeOK, Contents
<1>3. HighIndex(b) \in {0, 1}
  BY DEF HighIndex
<1>4. Wanted(b, HighIndex(b)) \in Contents
  BY <1>2, <1>3, WantedBytes
<1>5. Empty \in Contents /\ 0 \in Byte
  BY DEF Empty, Contents, Byte
<1>6. FlashTypeOK'
  BY <1>1, <1>2, <1>3, <1>4, <1>5
     DEF FlashInv, FlashTypeOK, ReadBlock, Finish, Contents
<1>7. Wanted(first, msb)' = Wanted(first, msb) /\ UNCHANGED <<flash, first, msb>>
  BY DEF ReadBlock, Wanted
<1>8. ASSUME ~OrderUnknown', checksum(b) = checksum(block)
      PROVE  b = flash /\ Wanted(b, HighIndex(b)) = Wanted(first, msb)
  <2>1. b = flash
    BY <1>2, <1>8, ChecksumTells DEF FlashInv, ReadBlock
  <2>2. flash \in {first, Wanted(first, msb)} /\ ~(msb = 1 /\ first[0] = first[1])
    BY <1>1, <1>7, <1>8 DEF FlashInv, ReadBlock, FlashIsOldOrWanted, OrderUnknown
  <2>3. \/ pack_config = <<flash[msb], flash[1 - msb]>>
        \/ msb = 0 /\ (pack_config[1] = flash[msb] \/ pack_config[2] = flash[1 - msb])
    BY <1>1, <1>7, <1>8 DEF FlashInv, FlashTypeOK, ReadBlock, Deciding, OrderUnknown
  <2>. QED
    BY <2>1, <2>2, <2>3, Decision DEF FlashInv, FlashTypeOK, Contents
<1>9. ~OrderUnknown' => ~OrderUnknown
  BY <1>1, <1>7 DEF OrderUnknown
<1>10. FlashIsOldOrWanted'
  BY <1>7, <1>9 DEF FlashInv, FlashIsOldOrWanted, ReadBlock
<1>11. CASE checksum(b) # checksum(block) /\ Finish("unread")
  BY <1>6, <1>10, <1>11
     DEF FlashInv, Finish, Deciding, Decided, ConfiguredIsConfigured
<1>12. CASE checksum(b) = checksum(block) /\ b = Wanted(b, HighIndex(b)) /\ Finish("already")
  BY <1>6, <1>7, <1>8, <1>10, <1>12
     DEF FlashInv, Finish, Deciding, Decided, ConfiguredIsConfigured
<1>13. CASE /\ checksum(b) = checksum(block)
            /\ phase' = "select_write"
            /\ block_data' = Wanted(b, HighIndex(b))
            /\ report' = report
  BY <1>6, <1>7, <1>8, <1>9, <1>10, <1>13
     DEF FlashInv, Deciding, Decided, ConfiguredIsConfigured
<1>. QED
  BY <1>1, <1>11, <1>12, <1>13

LEMMA WriteBlockInv ==
    ASSUME FlashInv, WriteBlock
    PROVE  FlashInv'
<1>1. PICK b \in Arrives(block_data) : Count(block_data, b) /\ block' = b
  BY DEF WriteBlock
<1>2. b \in Contents /\ OneOff(b, block_data) /\ noise' \in 0..MaxNoise
  BY <1>1, ArrivesTyped DEF FlashInv, FlashTypeOK, Contents
<1>3. FlashTypeOK'
  BY <1>1, <1>2 DEF FlashInv, FlashTypeOK, WriteBlock, Contents
<1>4. OrderUnknown' = OrderUnknown /\ Wanted(first, msb)' = Wanted(first, msb)
  BY DEF OrderUnknown, WriteBlock, Wanted
<1>5. OneOff(block, block_data)'
  BY <1>1, <1>2 DEF OneOff, WriteBlock
<1>. QED
  BY <1>3, <1>4, <1>5
     DEF FlashInv, WriteBlock, Deciding, Decided, FlashIsOldOrWanted,
         ConfiguredIsConfigured

\* The gauge programs the block only if it is the one that was meant.
LEMMA WriteChecksumInv ==
    ASSUME FlashInv, WriteChecksum
    PROVE  FlashInv'
<1>1. FlashTypeOK'
  BY DEF FlashInv, FlashTypeOK, WriteChecksum
<1>2. OrderUnknown' = OrderUnknown /\ Wanted(first, msb)' = Wanted(first, msb)
  BY DEF OrderUnknown, WriteChecksum, Wanted
<1>3. checksum(block) = checksum(block_data) => block = block_data
  BY ChecksumTells DEF FlashInv, FlashTypeOK, WriteChecksum, Contents
<1>4. ~OrderUnknown => flash' \in {flash, Wanted(first, msb)}
  BY <1>3 DEF FlashInv, WriteChecksum, Decided
<1>. QED
  BY <1>1, <1>2, <1>4
     DEF FlashInv, WriteChecksum, Deciding, Decided, FlashIsOldOrWanted,
         ConfiguredIsConfigured

LEMMA VerifyInv ==
    ASSUME FlashInv, Verify
    PROVE  FlashInv'
<1>. DEFINE compared == {pack_config_high_index, 1 - pack_config_high_index, 3}
<1>1. PICK b \in Arrives(block) :
          /\ Count(block, b)
          /\ Finish(CASE checksum(b) # checksum(block) -> "unverified"
                      [] \E p \in compared : b[p] # block_data[p] -> "mismatch"
                      [] OTHER -> "configured")
  BY DEF Verify
<1>2. b \in Contents /\ OneOff(b, block) /\ noise' \in 0..MaxNoise /\ block \in Contents
  BY <1>1, ArrivesTyped DEF FlashInv, FlashTypeOK, Contents
<1>3. Empty \in Contents /\ 0 \in Byte
  BY DEF Empty, Contents, Byte
<1>4. report' \in {"unverified", "mismatch", "configured"}
  BY <1>1 DEF Finish
<1>5. FlashTypeOK'
  BY <1>1, <1>2, <1>3, <1>4
     DEF FlashInv, FlashTypeOK, Verify, Finish, Contents
<1>6. OrderUnknown' = OrderUnknown /\ Wanted(first, msb)' = Wanted(first, msb)
  BY DEF OrderUnknown, Verify, Wanted
<1>7. ASSUME report' = "configured", ~OrderUnknown
      PROVE  flash = Wanted(first, msb)
  <2>1. checksum(b) = checksum(block) /\ \A p \in compared : b[p] = block_data[p]
    BY <1>1, <1>7 DEF Finish
  <2>2. b = flash
    BY <1>2, <2>1, ChecksumTells DEF FlashInv, Verify
  <2>3. compared = {0, 1, 3}
    BY DEF FlashInv, FlashTypeOK
  <2>4. block_data = Wanted(first, msb) /\ flash \in {first, Wanted(first, msb)}
    BY <1>7 DEF FlashInv, Verify, Decided, FlashIsOldOrWanted
  <2>5. /\ Wanted(first, msb) \in Contents
        /\ Wanted(first, msb)[2] = first[2]
        /\ flash \in Contents
    BY WantedBytes DEF FlashInv, FlashTypeOK, Contents
  <2>6. \A p \in Positions : flash[p] = Wanted(first, msb)[p]
    BY <2>1, <2>2, <2>3, <2>4, <2>5 DEF Positions
  <2>. QED
    BY <2>5, <2>6 DEF Contents
<1>. QED
  BY <1>1, <1>4, <1>5, <1>6, <1>7
     DEF FlashInv, Verify, Finish, Deciding, Decided, FlashIsOldOrWanted,
         ConfiguredIsConfigured

LEMMA RestartInv ==
    ASSUME FlashInv, Restart
    PROVE  FlashInv'
<1>1. Empty \in Contents /\ 0 \in Byte
  BY DEF Empty, Contents, Byte
<1>2. restarts' \in 0..MaxRestarts
  BY DataFlashAssumption DEF FlashInv, FlashTypeOK, Restart
<1>3. FlashTypeOK'
  BY <1>1, <1>2 DEF FlashInv, FlashTypeOK, Restart, Contents
<1>4. OrderUnknown' = OrderUnknown /\ Wanted(first, msb)' = Wanted(first, msb)
  BY DEF OrderUnknown, Restart, Wanted
<1>. QED
  BY <1>3, <1>4
     DEF FlashInv, Restart, Deciding, Decided, FlashIsOldOrWanted,
         ConfiguredIsConfigured

LEMMA EndSetupInv ==
    ASSUME FlashInv, EndSetup
    PROVE  FlashInv'
<1>1. Empty \in Contents /\ 0 \in 0..MaxNoise /\ 0 \in 0..MaxRestarts
  BY DataFlashAssumption DEF Empty, Contents, Byte
<1>2. FlashTypeOK'
  BY <1>1 DEF FlashInv, FlashTypeOK, EndSetup, Contents
<1>. QED
  BY <1>2
     DEF FlashInv, EndSetup, Deciding, Decided, FlashIsOldOrWanted,
         ConfiguredIsConfigured

LEMMA NextFlashInv == FlashInv /\ [Next]_vars => FlashInv'
<1>. SUFFICES ASSUME FlashInv, [Next]_vars
              PROVE  FlashInv'
  OBVIOUS
<1>1. CASE UNCHANGED flashVars
  <2>1. OrderUnknown' = OrderUnknown /\ Wanted(first, msb)' = Wanted(first, msb)
    BY <1>1 DEF flashVars, OrderUnknown, Wanted
  <2>2. OneOff(block, block_data)' = OneOff(block, block_data)
    BY <1>1 DEF flashVars, OneOff
  <2>. QED
    BY <1>1, <2>1, <2>2
       DEF flashVars, FlashInv, FlashTypeOK, Deciding, Decided,
           FlashIsOldOrWanted, ConfiguredIsConfigured
<1>2. CASE ConfigureHostInterrupts
  BY <1>2, GetPackConfigurationInv, SelectInv, ReadBlockInv, WriteBlockInv,
     WriteChecksumInv, VerifyInv
     DEF ConfigureHostInterrupts
<1>3. CASE Restart
  BY <1>3, RestartInv
<1>4. CASE EndSetup
  BY <1>4, EndSetupInv
<1>. QED
  BY <1>1, <1>2, <1>3, <1>4 DEF Next, SetUp, vars

-----------------------------------------------------------------------------
\* Whatever the flash held, whichever bytes are disturbed and however often the
\* robot restarts: the flash holds what it held, or that with the four bits set
\* up, unless the order of PackConfig's bytes cannot be told.
THEOREM FlashNeverThird == Spec => []FlashIsOldOrWanted
<1>1. Init => FlashInv
  BY InitFlashInv DEF Init
<1>2. FlashInv => FlashIsOldOrWanted
  BY DEF FlashInv
<1>. QED
  BY <1>1, <1>2, NextFlashInv, PTL DEF Spec

\* ... and when the start reports the gauge as configured, it is.
THEOREM ReportIsTrue == Spec => []ConfiguredIsConfigured
<1>1. Init => FlashInv
  BY InitFlashInv DEF Init
<1>2. FlashInv => ConfiguredIsConfigured
  BY DEF FlashInv
<1>. QED
  BY <1>1, <1>2, NextFlashInv, PTL DEF Spec
=============================================================================
