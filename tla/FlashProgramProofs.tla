------------------------- MODULE FlashProgramProofs -------------------------
(***************************************************************************)
(* Theorems about FlashProgram for every payload size, transfer size,      *)
(* buffer size, method and number of blocks, checked by TLAPS: its safety  *)
(* invariants, and that it implements BlockWriter.                         *)
(***************************************************************************)
EXTENDS FlashProgram, TLAPS

Receiving == pc \in {"recv", "pump"}

Programming == pc \in {"program", "load", "word", "end"}

Aligned(x) == x % Width = 0

(* Byte o of the block in hand. *)
ThisByte(o) == [blk |-> blk, off |-> o]

(* The first x bytes of the block are on the chip, or need not be. *)
Covered(x) == \A o \in 0..x - 1 : Placed(o) \in cells \/ o \in blank

(* The lengths a block is known by agree. *)
LengthsAgree ==
  /\ Receiving => pay_need = transfer_size
  /\ ~Receiving => pay_need = 0 /\ pay_got = 0
  /\ Programming => n = transfer_size /\ n <= PayloadMax
  /\ pc \in {"idle", "recv", "pump"} => n = 0

(* The payload buffer holds this block and not an earlier one. *)
BytesAreThis ==
  /\ Receiving =>
       \A o \in 0..PayloadMax - 1 : o < pay_got => pay[o] = ThisByte(o)
  /\ Programming => \A o \in 0..n - 1 : pay[o] = ThisByte(o)

(* Streaming keeps to whole words and never gets ahead of the host; a block *)
(* that is not streamed has no progress to resume from.                     *)
StreamKeepsPace ==
  /\ Receiving => program_done <= Filled
  /\ pc = "program" => program_done <= n
  /\ Receiving \/ pc = "program" =>
       /\ Aligned(program_done)
       /\ ~Buffered => program_done = 0 /\ ~program_stream_err

(* What counts as done is done. *)
DoneIsDone ==
  /\ Receiving \/ Programming => Covered(NextOffset) /\ Aligned(NextOffset)
  /\ pc = "load" => Buffered
  /\ pc = "end" /\ verdict = "ACK" => done = Whole

(* Wherever the chip timed out, somebody has noted it. *)
TimeoutIsNoted ==
  /\ pc \in {"idle", "recv", "pump", "program", "load", "word"} =>
       verdict = "ACK"
  /\ Receiving \/ pc = "program" => program_stream_err = timed_out
  /\ pc \in {"load", "word"} => ~timed_out
  /\ pc = "end" => (timed_out <=> verdict = "ERROR")
  /\ pc = "reply" /\ timed_out => verdict = "ERROR"

(* The address moves when the block is over, and not before. *)
AddressIsBase ==
  /\ Receiving \/ Programming => address = base
  /\ pc = "reply" => \/ address = base + transfer_size \div Width
                     \/ verdict = "ERROR" /\ address = base

IInv ==
  /\ TypeOK
  /\ LengthsAgree
  /\ BytesAreThis
  /\ StreamKeepsPace
  /\ DoneIsDone
  /\ TimeoutIsNoted
  /\ AddressIsBase
  /\ NotLeftInBypass
  /\ AckedIsProgrammed

------------------------------------------------------------------------------
(* Words of w bytes. *)

(* Rounding down to whole words loses less than a word. *)
LEMMA WholeWords ==
  ASSUME NEW w \in {1, 2}, NEW x \in Nat
  PROVE  /\ x \div w \in Nat
         /\ (x \div w) * w \in Nat
         /\ (x \div w) * w <= x
         /\ x < (x \div w) * w + w
         /\ ((x \div w) * w) % w = 0
<1>1. CASE w = 1 BY <1>1
<1>2. CASE w = 2 BY <1>2
<1> QED BY <1>1, <1>2

(* Whole words put together are whole words. *)
LEMMA AlignedSum ==
  ASSUME NEW w \in {1, 2}, NEW a \in Nat, NEW b \in Nat, a % w = 0, b % w = 0
  PROVE  (a + b) % w = 0
<1>1. CASE w = 1 BY <1>1
<1>2. CASE w = 2 BY <1>2
<1> QED BY <1>1, <1>2

(* Whole words that fit in x bytes fit in its whole words. *)
LEMMA AlignedBelow ==
  ASSUME NEW w \in {1, 2}, NEW x \in Nat, NEW a \in Nat, a % w = 0, a <= x
  PROVE  /\ a <= (x \div w) * w
         /\ x < a + w => a = (x \div w) * w
<1>1. CASE w = 1 BY <1>1
<1>2. CASE w = 2 BY <1>2
<1> QED BY <1>1, <1>2

(* From a word boundary, addresses and lanes can be counted afresh. *)
LEMMA SplitOffset ==
  ASSUME NEW w \in {1, 2}, NEW from \in Nat, from % w = 0, NEW i \in Nat
  PROVE  /\ (from + i) \div w = from \div w + i \div w
         /\ (from + i) % w = i % w
         /\ i \div w \in Nat
         /\ i % w \in {0, 1}
<1>1. CASE w = 1 BY <1>1
<1>2. CASE w = 2 BY <1>2
<1> QED BY <1>1, <1>2

(* A bus address holds one byte or two. *)
LEMMA WidthIs ==
  Width \in {1, 2}
BY DEF Width

(* A chunk is a number of whole words, and not none when it is used. *)
LEMMA ChunkIs ==
  ASSUME TypeOK
  PROVE  /\ Chunk \in Nat
         /\ Aligned(Chunk)
         /\ Buffered => Chunk > 0
<1>1. buffer_size \in Nat BY DEF TypeOK
<1>2. Chunk \in Nat /\ Aligned(Chunk) /\ buffer_size < Chunk + Width
  BY <1>1, WidthIs, WholeWords DEF Chunk, Aligned
<1> QED BY <1>1, <1>2, WidthIs DEF Buffered

------------------------------------------------------------------------------
(* Cells. *)

(* A byte of the block has a cell. *)
LEMMA PlacedType ==
  ASSUME TypeOK, NEW o \in Nat
  PROVE  Placed(o) \in [addr : Nat, lane : {0, 1}, byte : Byte]
<1>1. base \in Nat /\ blk \in Nat BY DEF TypeOK
<1>2. o \div Width \in Nat /\ o % Width \in {0, 1}
  <2>1. 0 % Width = 0 BY WidthIs
  <2> QED BY <2>1, WidthIs, SplitOffset
<1> QED BY <1>1, <1>2 DEF Placed, Byte

(* A load puts each byte of the block it takes where it belongs. *)
LEMMA CellsArePlaced ==
  ASSUME TypeOK, address = base,
         NEW from \in Nat, Aligned(from), NEW have \in Nat,
         \A o \in from..from + have - 1 : pay[o] = ThisByte(o)
  PROVE  Cells(from, have) = {Placed(o) : o \in from..from + have - 1}
<1> DEFINE cell(i) == [addr |-> address + from \div Width + i \div Width,
                       lane |-> i % Width,
                       byte |-> pay[from + i]]
<1>1. ASSUME NEW i \in 0..have - 1
      PROVE  /\ from + i \in from..from + have - 1
             /\ cell(i) = Placed(from + i)
  <2>1. from + i \in from..from + have - 1
    OBVIOUS
  <2>2. pay[from + i] = ThisByte(from + i)
    BY <2>1
  <2>3. /\ (from + i) \div Width = from \div Width + i \div Width
        /\ (from + i) % Width = i % Width
        /\ i \div Width \in Nat
    BY WidthIs, SplitOffset DEF Aligned
  <2>4. from \div Width \in Nat /\ base \in Nat
    BY WidthIs, WholeWords DEF TypeOK
  <2>5. base + from \div Width + i \div Width
          = base + (from + i) \div Width
    BY <2>3, <2>4
  <2> QED BY <2>1, <2>2, <2>3, <2>5 DEF Placed, ThisByte
<1>2. ASSUME NEW o \in from..from + have - 1
      PROVE  \E i \in 0..have - 1 : o = from + i
  <2>1. o - from \in 0..have - 1 /\ o = from + (o - from)
    OBVIOUS
  <2> QED BY <2>1
<1>3. Cells(from, have) = {cell(i) : i \in 0..have - 1}
  BY DEF Cells
<1>4. ASSUME NEW o \in from..from + have - 1
      PROVE  Placed(o) \in {cell(i) : i \in 0..have - 1}
  <2>1. PICK i \in 0..have - 1 : o = from + i
    BY <1>2
  <2>2. Placed(o) = cell(i)
    BY <1>1, <2>1
  <2> QED BY <2>2
<1> HIDE DEF cell
<1>5. {cell(i) : i \in 0..have - 1} \subseteq
        {Placed(o) : o \in from..from + have - 1}
  BY <1>1
<1> QED BY <1>3, <1>4, <1>5

(* What a load does to the cells: it adds cells of the right kind, and once *)
(* it is through, what was covered before it and what it took is covered.   *)
LEMMA LoadCovers ==
  ASSUME TypeOK, address = base,
         NEW from \in Nat, Aligned(from), Covered(from),
         NEW have \in Nat, Aligned(have),
         \A o \in from..from + have - 1 : pay[o] = ThisByte(o),
         NEW added \in {{}, Cells(from, have)}, cells' = cells \cup added,
         UNCHANGED <<mode, base, blk, blank>>
  PROVE  /\ cells' \subseteq [addr : Nat, lane : {0, 1}, byte : Byte]
         /\ Covered(from)'
         /\ added = Cells(from, have) => Covered(from + have)'
         /\ Aligned(from + have)
<1>1. Cells(from, have) = {Placed(o) : o \in from..from + have - 1}
  BY CellsArePlaced
<1>2. Cells(from, have) \subseteq [addr : Nat, lane : {0, 1}, byte : Byte]
  <2>1. \A o \in from..from + have - 1 : o \in Nat
    OBVIOUS
  <2> QED BY <1>1, <2>1, PlacedType
<1>3. \A o : Placed(o)' = Placed(o)
  BY DEF Placed, Width
<1>4. cells' \subseteq [addr : Nat, lane : {0, 1}, byte : Byte]
  BY <1>2 DEF TypeOK
<1>5. Covered(from)'
  BY <1>3 DEF Covered
<1>6. ASSUME added = Cells(from, have)
      PROVE  Covered(from + have)'
  <2>1. SUFFICES ASSUME NEW o \in 0..from + have - 1
                 PROVE  Placed(o) \in cells' \/ o \in blank'
    BY <1>3 DEF Covered
  <2>2. CASE o \in 0..from - 1
    BY <2>2 DEF Covered
  <2>3. CASE o \in from..from + have - 1
    BY <2>3, <1>1, <1>6
  <2> QED BY <2>1, <2>2, <2>3
<1>7. Aligned(from + have)
  BY WidthIs, AlignedSum DEF Aligned
<1> QED BY <1>4, <1>5, <1>6, <1>7

------------------------------------------------------------------------------
(* The invariant. *)

(* The invariant holds at the start. *)
LEMMA InitIInv ==
  Init => IInv
<1> SUFFICES ASSUME Init PROVE IInv
  OBVIOUS
<1>1. TypeOK
  <2>1. {flash_method, buffer_size, transfer_size, address} \subseteq Nat
    BY FlashProgramAssumption DEF Init
  <2>2. {program_stream_err, bypassable, bypass, timed_out} \subseteq BOOLEAN
    BY DEF Init
  <2>3. pay \in [0..PayloadMax - 1 -> Byte]
    BY DEF Init, NoByte, Byte
  <2> QED BY <2>1, <2>2, <2>3, FlashProgramAssumption DEF Init, TypeOK
<1>2. pc = "idle" /\ n = 0 /\ pay_need = 0 /\ pay_got = 0 /\ verdict = "ACK"
        /\ bypass = FALSE
  BY DEF Init
<1>3. /\ LengthsAgree /\ BytesAreThis /\ StreamKeepsPace /\ DoneIsDone
      /\ TimeoutIsNoted /\ AddressIsBase
  BY <1>2 DEF LengthsAgree, BytesAreThis, StreamKeepsPace, DoneIsDone,
              TimeoutIsNoted, AddressIsBase, Receiving, Programming
<1>4. NotLeftInBypass /\ AckedIsProgrammed
  BY <1>2 DEF NotLeftInBypass, AckedIsProgrammed
<1> QED BY <1>1, <1>3, <1>4 DEF IInv

(* What only depends on the bus and on the block. *)
LEMMA SameBus ==
  ASSUME UNCHANGED <<configVars, blockVars>>
  PROVE  /\ \A o : Placed(o)' = Placed(o)
         /\ \A o : ThisByte(o)' = ThisByte(o)
         /\ \A x : Aligned(x)' = Aligned(x)
         /\ Width' = Width /\ Whole' = Whole /\ Chunk' = Chunk
         /\ Buffered' = Buffered
<1>1. Width' = Width
  BY DEF Width, configVars
<1>2. \A o : Placed(o)' = Placed(o)
  BY <1>1 DEF Placed, blockVars
<1>3. \A o : ThisByte(o)' = ThisByte(o)
  BY DEF ThisByte, blockVars
<1>4. /\ \A x : Aligned(x)' = Aligned(x)
      /\ Whole' = Whole /\ Chunk' = Chunk /\ Buffered' = Buffered
  BY <1>1 DEF Aligned, Whole, Chunk, Buffered, configVars
<1> QED BY <1>1, <1>2, <1>3, <1>4

(* What is covered depends on nothing else. *)
LEMMA SameBlock ==
  ASSUME UNCHANGED <<configVars, blockVars, cells>>
  PROVE  \A x : Covered(x)' = Covered(x)
<1>1. \A o : Placed(o)' = Placed(o)
  BY SameBus
<1> QED BY <1>1 DEF Covered, blockVars

(* Between two blocks nothing is known of a block. *)
LEMMA ConfigureInv ==
  ASSUME IInv, Configure
  PROVE  IInv'
<1> USE FlashProgramAssumption DEF IInv, Configure, configVars, streamVars,
      payloadVars, chipVars, blockVars
<1>1. TypeOK'
  <2>1. {flash_method, buffer_size, transfer_size, address}' \subseteq Nat
    OBVIOUS
  <2>2. {program_stream_err, bypassable, bypass, timed_out}' \subseteq BOOLEAN
    BY DEF TypeOK
  <2> QED BY <2>1, <2>2 DEF TypeOK
<1>2. LengthsAgree'
  BY DEF LengthsAgree, Receiving, Programming
<1>3. BytesAreThis'
  BY DEF BytesAreThis, Receiving, Programming
<1>4. StreamKeepsPace'
  BY DEF StreamKeepsPace, Receiving, Filled, PayOver
<1>5. DoneIsDone'
  BY DEF DoneIsDone, Receiving, Programming, NextOffset, Resume
<1>6. TimeoutIsNoted'
  BY DEF TimeoutIsNoted, Receiving
<1>7. AddressIsBase'
  BY DEF AddressIsBase, Receiving, Programming
<1>8. NotLeftInBypass'
  BY DEF NotLeftInBypass
<1>9. AckedIsProgrammed'
  BY DEF AckedIsProgrammed
<1> QED BY <1>1, <1>2, <1>3, <1>4, <1>5, <1>6, <1>7, <1>8, <1>9

(* A new block starts with no progress and no failure. *)
LEMMA OpenPayloadInv ==
  ASSUME IInv, OpenPayload
  PROVE  IInv'
<1> USE FlashProgramAssumption DEF IInv, OpenPayload, configVars, streamVars,
      payloadVars, chipVars, blockVars
<1>1. TypeOK'
  <2>1. {program_stream_err, bypassable, bypass, timed_out}' \subseteq BOOLEAN
    BY DEF TypeOK
  <2>2. blank' \subseteq Nat /\ blk' \in Nat /\ base' \in Nat
    BY DEF TypeOK
  <2>3. program_done' \in 0..PayloadMax /\ pay_need' \in Nat /\ pay_got' = 0
    BY DEF TypeOK, Opened
  <2> QED BY <2>1, <2>2, <2>3 DEF TypeOK
<1>2. LengthsAgree'
  BY DEF LengthsAgree, Receiving, Programming
<1>3. BytesAreThis'
  BY DEF BytesAreThis, Receiving, Programming
<1>4. StreamKeepsPace'
  <2>1. pc' = "recv" /\ program_done' = 0 /\ pay_got' = 0
          /\ program_stream_err' = FALSE
    BY DEF Opened
  <2>2. Aligned(0)'
    BY WidthIs DEF Aligned, Width
  <2> QED BY <2>1, <2>2 DEF StreamKeepsPace, Receiving, Filled, PayOver
<1>5. DoneIsDone'
  <2>1. pc' = "recv" /\ NextOffset' = 0
    BY DEF Opened, NextOffset
  <2>2. Aligned(0)' /\ Covered(0)'
    BY WidthIs DEF Aligned, Width, Covered
  <2> QED BY <2>1, <2>2 DEF DoneIsDone
<1>6. TimeoutIsNoted'
  BY DEF TimeoutIsNoted, Receiving
<1>7. AddressIsBase'
  BY DEF AddressIsBase, Receiving, Programming
<1>8. NotLeftInBypass'
  BY DEF NotLeftInBypass
<1>9. AckedIsProgrammed'
  BY DEF AckedIsProgrammed
<1> QED BY <1>1, <1>2, <1>3, <1>4, <1>5, <1>6, <1>7, <1>8, <1>9

(* A run of k bytes fills the payload buffer with this block. *)
LEMMA TakeInv ==
  ASSUME IInv, pc = "recv", NEW k \in Nat, k > 0, k <= pay_need - pay_got,
         Take(k)
  PROVE  IInv'
<1> USE FlashProgramAssumption DEF IInv, Take
<1>s. UNCHANGED <<configVars, blockVars, cells>>
  BY DEF chipVars
<1>u. UNCHANGED <<mode, flash_method, buffer_size, transfer_size, bypassable,
                  address, program_done, program_stream_err, done, cells,
                  bypass, timed_out, blk, base, blank>>
  BY DEF configVars, streamVars, chipVars, blockVars
<1>r. Receiving
  BY DEF Receiving
<1>n. /\ pay_need \in Nat /\ pay_got \in Nat /\ pay_need = transfer_size
      /\ n = 0
  BY <1>r DEF TypeOK, LengthsAgree
<1>b. \A o \in 0..PayloadMax - 1 : o < pay_got + k => pay'[o] = ThisByte(o)
  BY <1>r, <1>n DEF BytesAreThis, ThisByte
<1>1. TypeOK'
  <2>1. pay' \in [0..PayloadMax - 1 -> Byte]
    BY <1>n DEF TypeOK, Byte
  <2>2. {n, pay_need, pay_got}' \subseteq Nat /\ pay_got' <= pay_need'
    BY <1>n
  <2>3. done' \in 0..n'
    BY <1>n DEF TypeOK
  <2> QED BY <1>u, <2>1, <2>2, <2>3 DEF TypeOK
<1>2. LengthsAgree'
  BY <1>n, <1>u DEF LengthsAgree, Receiving, Programming, Programs, PayOver
<1>3. BytesAreThis'
  <2>1. \A o : ThisByte(o)' = ThisByte(o)
    BY <1>s, SameBus
  <2>2. CASE pc' = "pump"
    <3>1. pay_got' = pay_got + k
      BY <2>2
    <3> QED BY <1>b, <2>1, <2>2, <3>1 DEF BytesAreThis, Receiving, Programming
  <2>3. CASE pc' = "program"
    <3>1. n' = pay_need /\ pay_need <= pay_got + k /\ pay_need <= PayloadMax
      BY <1>n, <2>3 DEF Programs, PayOver
    <3>2. \A o \in 0..n' - 1 : pay'[o] = ThisByte(o)
      BY <1>b, <1>n, <3>1
    <3> QED BY <2>1, <2>3, <3>2 DEF BytesAreThis, Receiving, Programming
  <2>4. CASE pc' = "reply"
    BY <2>4 DEF BytesAreThis, Receiving, Programming
  <2> QED BY <2>2, <2>3, <2>4
<1>4. StreamKeepsPace'
  <2>1. /\ Aligned(program_done)'
        /\ ~Buffered' => program_done' = 0 /\ ~program_stream_err'
    BY <1>s, <1>u, <1>r, SameBus DEF StreamKeepsPace
  <2>2. program_done \in Nat /\ program_done <= pay_got
    BY <1>r, <1>n DEF StreamKeepsPace, Filled, TypeOK
  <2>3. CASE pc' = "pump"
    <3>1. program_done' <= Filled'
      BY <1>u, <1>n, <1>r, <2>2, <2>3
         DEF Filled, PayOver, StreamKeepsPace
    <3> QED BY <2>1, <2>3, <3>1 DEF StreamKeepsPace
  <2>4. CASE pc' = "program"
    <3>1. program_done' <= n'
      BY <1>u, <1>n, <2>2, <2>4
    <3> QED BY <2>1, <2>4, <3>1 DEF StreamKeepsPace, Receiving
  <2>5. CASE pc' = "reply"
    BY <2>5 DEF StreamKeepsPace, Receiving
  <2> QED BY <2>3, <2>4, <2>5
<1>5. DoneIsDone'
  <2>1. /\ Covered(program_done)' /\ Aligned(program_done)'
        /\ ~Buffered' => program_done' = 0
    <3>1. Covered(program_done) /\ Aligned(program_done)
      BY <1>r DEF DoneIsDone, NextOffset
    <3> QED BY <1>s, <1>u, <1>r, <3>1, SameBlock, SameBus DEF StreamKeepsPace
  <2>2. CASE pc' = "pump"
    BY <2>1, <2>2 DEF DoneIsDone, NextOffset
  <2>3. CASE pc' = "program"
    BY <2>1, <2>3 DEF DoneIsDone, NextOffset, Resume
  <2>4. CASE pc' = "reply"
    BY <2>4 DEF DoneIsDone, Receiving, Programming
  <2> QED BY <2>2, <2>3, <2>4
<1>6. TimeoutIsNoted'
  BY <1>u, <1>r DEF TimeoutIsNoted, Receiving
<1>7. AddressIsBase'
  BY <1>u, <1>r DEF AddressIsBase, Receiving, Programming
<1>8. NotLeftInBypass' /\ AckedIsProgrammed'
  BY <1>u DEF NotLeftInBypass, AckedIsProgrammed, TimeoutIsNoted
<1> QED BY <1>1, <1>2, <1>3, <1>4, <1>5, <1>6, <1>7, <1>8

(* The same for the run that Receive picks. *)
LEMMA ReceiveInv ==
  ASSUME IInv, Receive
  PROVE  IInv'
<1>1. PICK k \in 1..MinOf(RxMax, pay_need - pay_got) : Take(k)
  BY DEF Receive
<1>2. k \in Nat /\ k > 0 /\ k <= pay_need - pay_got
  BY FlashProgramAssumption DEF IInv, TypeOK, MinOf
<1> QED BY <1>1, <1>2, TakeInv DEF Receive

(* An abandoned block leaves progress behind, and nothing relies on it. *)
LEMMA AbandonInv ==
  ASSUME IInv, Abandon
  PROVE  IInv'
<1> USE FlashProgramAssumption DEF IInv, Abandon, configVars, streamVars,
      payloadVars, chipVars, blockVars
<1>s. UNCHANGED <<configVars, blockVars, cells>>
  OBVIOUS
<1>1. TypeOK'
  BY DEF TypeOK
<1>2. LengthsAgree'
  BY DEF LengthsAgree, Receiving, Programming
<1>3. BytesAreThis'
  BY <1>s, SameBus DEF BytesAreThis, Receiving, Programming
<1>4. StreamKeepsPace'
  BY <1>s, SameBus DEF StreamKeepsPace, Receiving, Filled, PayOver
<1>5. DoneIsDone'
  BY <1>s, SameBlock, SameBus DEF DoneIsDone, Receiving, Programming,
      NextOffset, Resume
<1>6. TimeoutIsNoted'
  BY DEF TimeoutIsNoted, Receiving
<1>7. AddressIsBase'
  BY <1>s, SameBus DEF AddressIsBase, Receiving, Programming
<1>8. NotLeftInBypass'
  BY DEF NotLeftInBypass
<1>9. AckedIsProgrammed'
  BY DEF AckedIsProgrammed
<1> QED BY <1>1, <1>2, <1>3, <1>4, <1>5, <1>6, <1>7, <1>8, <1>9

(* What a load of the pump may take. *)
LEMMA PumpTakes ==
  ASSUME IInv, pc = "pump", PumpGoesOn
  PROVE  /\ program_done \in Nat /\ Chunk \in Nat /\ Chunk > 0
         /\ Aligned(program_done) /\ Aligned(Chunk) /\ Covered(program_done)
         /\ program_done + Chunk <= PayloadMax
         /\ program_done + Chunk <= pay_got
         /\ program_done + Chunk <= transfer_size
         /\ ~PayOver /\ Buffered /\ address = base /\ ~timed_out
         /\ \A o \in program_done..program_done + Chunk - 1 :
              pay[o] = ThisByte(o)
<1> USE DEF IInv
<1>1. Receiving
  BY DEF Receiving
<1>2. /\ program_done \in Nat /\ Chunk \in Nat /\ Chunk > 0 /\ Aligned(Chunk)
      /\ Buffered
  BY ChunkIs DEF TypeOK, PumpGoesOn
<1>3. Aligned(program_done) /\ Covered(program_done) /\ address = base
        /\ ~timed_out
  BY <1>1 DEF DoneIsDone, NextOffset, AddressIsBase, TimeoutIsNoted,
              PumpGoesOn, StreamKeepsPace
<1>4. ~PayOver /\ Filled = pay_got
  BY DEF PumpGoesOn, Filled
<1>5. /\ pay_got \in Nat /\ pay_got <= transfer_size
      /\ transfer_size \in Nat /\ transfer_size <= PayloadMax
  BY <1>1, <1>4, FlashProgramAssumption DEF TypeOK, LengthsAgree, PayOver
<1>6. program_done + Chunk <= pay_got
  BY <1>4 DEF PumpGoesOn
<1>7. \A o \in program_done..program_done + Chunk - 1 : pay[o] = ThisByte(o)
  <2>1. SUFFICES ASSUME NEW o \in program_done..program_done + Chunk - 1
                 PROVE  pay[o] = ThisByte(o)
    OBVIOUS
  <2>2. o \in 0..PayloadMax - 1 /\ o < pay_got
    BY <1>2, <1>5, <1>6, FlashProgramAssumption
  <2> QED BY <1>1, <2>2 DEF BytesAreThis
<1> QED BY <1>2, <1>3, <1>4, <1>5, <1>6, <1>7, FlashProgramAssumption

(* A load of the pump: done, or failed and noted. *)
LEMMA PumpLoadInv ==
  ASSUME IInv, PumpLoad
  PROVE  IInv'
<1> USE DEF IInv
<1>0. pc = "pump" /\ PumpGoesOn /\ Receiving
  BY DEF PumpLoad, Receiving
<1>u. UNCHANGED <<mode, flash_method, buffer_size, transfer_size, bypassable,
                  address, pay_need, pay_got, pay, pc, n, done, verdict,
                  bypass, blk, base, blank>>
  BY DEF PumpLoad, configVars, payloadVars, blockVars
<1>s. UNCHANGED <<configVars, blockVars>>
  BY DEF PumpLoad
<1>t. /\ program_done \in Nat /\ Chunk \in Nat
      /\ Aligned(program_done) /\ Aligned(Chunk) /\ Covered(program_done)
      /\ program_done + Chunk <= PayloadMax
      /\ program_done + Chunk <= pay_got
      /\ ~PayOver /\ Buffered /\ address = base
      /\ \A o \in program_done..program_done + Chunk - 1 :
           pay[o] = ThisByte(o)
  BY <1>0, PumpTakes
<1>f. PICK from \in Nat, have \in Nat : from = program_done /\ have = Chunk
  BY <1>t
<1>l. PICK added \in {{}, Cells(from, have)} :
        /\ cells' = cells \cup added
        /\ \/ /\ added = Cells(from, have)
              /\ program_done' = from + have
              /\ UNCHANGED <<program_stream_err, timed_out>>
           \/ /\ program_done' = from
              /\ program_stream_err' = TRUE /\ timed_out' = TRUE
  <2>1. CASE /\ LoadRetires(program_done, Chunk)
             /\ program_done' = program_done + Chunk
             /\ UNCHANGED program_stream_err
    BY <1>f, <2>1 DEF LoadRetires
  <2>2. CASE /\ LoadTimesOut(program_done, Chunk)
             /\ program_stream_err' = TRUE
             /\ UNCHANGED program_done
    BY <1>f, <2>2 DEF LoadTimesOut
  <2> QED BY <2>1, <2>2 DEF PumpLoad
<1>c. /\ cells' \subseteq [addr : Nat, lane : {0, 1}, byte : Byte]
      /\ Covered(from)'
      /\ added = Cells(from, have) => Covered(from + have)'
      /\ Aligned(from + have)
  BY <1>f, <1>l, <1>t, <1>u, LoadCovers
<1>d. Covered(program_done)' /\ Aligned(program_done)'
  BY <1>c, <1>f, <1>l, <1>s, <1>t, SameBus
<1>1. TypeOK'
  <2>1. {program_stream_err, timed_out}' \subseteq BOOLEAN
    BY <1>l DEF TypeOK
  <2>2. program_done' \in 0..PayloadMax
    BY <1>f, <1>l, <1>t, FlashProgramAssumption
  <2> QED BY <1>c, <1>u, <2>1, <2>2 DEF TypeOK
<1>2. LengthsAgree' /\ AddressIsBase' /\ NotLeftInBypass' /\ AckedIsProgrammed'
  BY <1>0, <1>u DEF LengthsAgree, AddressIsBase, NotLeftInBypass,
                    AckedIsProgrammed, Receiving, Programming
<1>3. BytesAreThis'
  BY <1>0, <1>s, <1>u, SameBus DEF BytesAreThis, Receiving, Programming
<1>4. StreamKeepsPace'
  <2>1. program_done' <= Filled'
    BY <1>f, <1>l, <1>t, <1>u, FlashProgramAssumption
       DEF Filled, PayOver, TypeOK
  <2>2. Buffered'
    BY <1>s, <1>t, SameBus
  <2> QED BY <1>0, <1>d, <1>u, <2>1, <2>2 DEF StreamKeepsPace, Receiving
<1>5. DoneIsDone'
  BY <1>0, <1>d, <1>u DEF DoneIsDone, NextOffset
<1>6. TimeoutIsNoted'
  <2>1. program_stream_err = timed_out
    BY <1>0 DEF TimeoutIsNoted
  <2>2. program_stream_err' = timed_out'
    BY <1>l, <2>1
  <2> QED BY <1>0, <1>u, <2>2 DEF TimeoutIsNoted, Receiving
<1> QED BY <1>1, <1>2, <1>3, <1>4, <1>5, <1>6

(* The pump stops. *)
LEMMA PumpDoneInv ==
  ASSUME IInv, PumpDone
  PROVE  IInv'
<1> USE FlashProgramAssumption DEF IInv, PumpDone, configVars, streamVars,
      payloadVars, chipVars, blockVars
<1>s. UNCHANGED <<configVars, blockVars, cells>>
  OBVIOUS
<1>1. TypeOK'
  BY DEF TypeOK
<1>2. LengthsAgree'
  BY DEF LengthsAgree, Receiving, Programming
<1>3. BytesAreThis'
  BY <1>s, SameBus DEF BytesAreThis, Receiving, Programming
<1>4. StreamKeepsPace'
  BY <1>s, SameBus DEF StreamKeepsPace, Receiving, Filled, PayOver
<1>5. DoneIsDone'
  BY <1>s, SameBlock, SameBus DEF DoneIsDone, Receiving, Programming,
      NextOffset, Resume
<1>6. TimeoutIsNoted'
  BY DEF TimeoutIsNoted, Receiving
<1>7. AddressIsBase'
  BY <1>s, SameBus DEF AddressIsBase, Receiving, Programming
<1>8. NotLeftInBypass'
  BY DEF NotLeftInBypass
<1>9. AckedIsProgrammed'
  BY DEF AckedIsProgrammed
<1> QED BY <1>1, <1>2, <1>3, <1>4, <1>5, <1>6, <1>7, <1>8, <1>9

(* The tail resumes where the pump stopped, or gives the block up. *)
LEMMA StartProgramInv ==
  ASSUME IInv, StartProgram
  PROVE  IInv'
<1> USE FlashProgramAssumption DEF IInv, StartProgram, configVars, streamVars,
      payloadVars, chipVars, blockVars
<1>s. UNCHANGED <<configVars, blockVars, cells>>
  OBVIOUS
<1>1. TypeOK'
  <2>1. Resume \in 0..n
    BY DEF Resume, StreamKeepsPace, TypeOK
  <2>2. {program_stream_err, bypassable, bypass, timed_out}' \subseteq BOOLEAN
    <3>1. bypass' \in BOOLEAN
      BY DEF Bypasses
    <3> QED BY <3>1 DEF TypeOK
  <2>3. program_done' \in 0..PayloadMax
    OBVIOUS
  <2> QED BY <2>1, <2>2, <2>3 DEF TypeOK
<1>2. LengthsAgree'
  BY DEF LengthsAgree, Receiving, Programming
<1>3. BytesAreThis'
  BY <1>s, SameBus DEF BytesAreThis, Receiving, Programming
<1>4. StreamKeepsPace'
  BY <1>s, SameBus DEF StreamKeepsPace, Receiving, Filled, PayOver
<1>5. DoneIsDone'
  BY <1>s, SameBlock, SameBus DEF DoneIsDone, Receiving, Programming,
      NextOffset, Resume
<1>6. TimeoutIsNoted'
  <2>1. program_stream_err = timed_out /\ (program_stream_err => Buffered)
    BY DEF TimeoutIsNoted, StreamKeepsPace
  <2>2. CarriedError <=> timed_out
    BY <2>1 DEF CarriedError
  <2>3. timed_out' = timed_out
    OBVIOUS
  <2>4. CASE CarriedError
    <3>1. pc' = "end" /\ verdict' = "ERROR"
      BY <2>4
    <3> QED BY <2>2, <2>3, <2>4, <3>1 DEF TimeoutIsNoted, Receiving
  <2>5. CASE ~CarriedError
    <3>1. pc' \in {"load", "word"} /\ verdict' = "ACK"
      BY <2>5
    <3> QED BY <2>2, <2>3, <2>5, <3>1 DEF TimeoutIsNoted, Receiving
  <2> QED BY <2>4, <2>5
<1>7. AddressIsBase'
  BY <1>s, SameBus DEF AddressIsBase, Receiving, Programming
<1>8. NotLeftInBypass'
  <2>1. CASE Buffered
    BY <2>1 DEF Bypasses, NotLeftInBypass
  <2>2. CASE ~Buffered
    BY <2>2 DEF CarriedError, NotLeftInBypass
  <2> QED BY <2>1, <2>2
<1>9. AckedIsProgrammed'
  BY DEF AckedIsProgrammed
<1> QED BY <1>1, <1>2, <1>3, <1>4, <1>5, <1>6, <1>7, <1>8, <1>9

(* One turn of either loop of do_flash_program(). *)
LEMMA StepInv ==
  ASSUME IInv, pc \in {"load", "word"}, NEW have \in Nat, Aligned(have),
         done + have <= n, Step(have),
         UNCHANGED <<configVars, address, streamVars, payloadVars, n, bypass,
                     blockVars>>
  PROVE  IInv'
<1> USE DEF IInv
<1>0. Programming /\ ~Receiving
  BY DEF Programming, Receiving
<1>u. UNCHANGED <<mode, flash_method, buffer_size, transfer_size, bypassable,
                  address, program_done, program_stream_err, pay_need, pay_got,
                  pay, n, bypass, blk, base, blank>>
  BY DEF configVars, streamVars, payloadVars, blockVars
<1>t. /\ done \in Nat /\ n \in Nat /\ n = transfer_size
      /\ Aligned(done) /\ Covered(done)
      /\ address = base /\ verdict = "ACK" /\ ~timed_out
      /\ \A o \in done..done + have - 1 : pay[o] = ThisByte(o)
  <2>1. done \in Nat /\ n \in Nat /\ n = transfer_size
    BY <1>0 DEF TypeOK, LengthsAgree
  <2>2. Aligned(done) /\ Covered(done)
    BY <1>0 DEF DoneIsDone, NextOffset
  <2>3. address = base /\ verdict = "ACK" /\ ~timed_out
    BY <1>0 DEF AddressIsBase, TimeoutIsNoted
  <2>4. \A o \in done..done + have - 1 : pay[o] = ThisByte(o)
    BY <1>0, <2>1 DEF BytesAreThis
  <2> QED BY <2>1, <2>2, <2>3, <2>4
<1>f. PICK from \in Nat : from = done
  BY <1>t
<1>l. PICK added \in {{}, Cells(from, have)} :
        /\ cells' = cells \cup added
        /\ \/ /\ added = Cells(from, have)
              /\ done' = from + have
              /\ UNCHANGED <<pc, verdict, timed_out>>
           \/ /\ done' = from
              /\ pc' = "end" /\ verdict' = "ERROR" /\ timed_out' = TRUE
  <2>1. CASE LoadRetires(done, have) /\ done' = done + have
               /\ UNCHANGED <<pc, verdict>>
    BY <1>f, <2>1 DEF LoadRetires
  <2>2. CASE LoadTimesOut(done, have) /\ verdict' = "ERROR" /\ pc' = "end"
               /\ UNCHANGED done
    BY <1>f, <2>2 DEF LoadTimesOut
  <2> QED BY <2>1, <2>2 DEF Step
<1>c. /\ cells' \subseteq [addr : Nat, lane : {0, 1}, byte : Byte]
      /\ Covered(from)'
      /\ added = Cells(from, have) => Covered(from + have)'
      /\ Aligned(from + have)
  BY <1>f, <1>l, <1>t, <1>u, LoadCovers
<1>p. pc' \in {"load", "word", "end"} /\ pc' \in {pc, "end"}
  BY <1>l
<1>1. TypeOK'
  <2>1. {program_stream_err, bypassable, bypass, timed_out}' \subseteq BOOLEAN
    BY <1>l, <1>u DEF TypeOK
  <2>2. done' \in 0..n'
    BY <1>f, <1>l, <1>t, <1>u
  <2> QED BY <1>c, <1>l, <1>p, <1>u, <2>1, <2>2 DEF TypeOK
<1>2. LengthsAgree' /\ AddressIsBase'
  <2>1. Width' = Width
    BY SameBus
  <2> QED BY <1>0, <1>p, <1>u, <2>1 DEF LengthsAgree, AddressIsBase, Receiving,
                                        Programming
<1>3. BytesAreThis'
  BY <1>0, <1>p, <1>u, SameBus DEF BytesAreThis, Receiving, Programming
<1>4. StreamKeepsPace'
  BY <1>p DEF StreamKeepsPace, Receiving
<1>5. DoneIsDone'
  <2>1. NextOffset' = done'
    BY <1>p DEF NextOffset
  <2>2. Covered(done)' /\ Aligned(done)'
    BY <1>c, <1>f, <1>l, <1>t, SameBus
  <2>3. pc' = "load" => Buffered'
    BY <1>p, SameBus DEF DoneIsDone
  <2>4. pc' = "end" => verdict' # "ACK"
    BY <1>l
  <2> QED BY <2>1, <2>2, <2>3, <2>4 DEF DoneIsDone
<1>6. TimeoutIsNoted'
  BY <1>l, <1>p, <1>t DEF TimeoutIsNoted, Receiving
<1>7. NotLeftInBypass' /\ AckedIsProgrammed'
  BY <1>p, <1>u DEF NotLeftInBypass, AckedIsProgrammed
<1> QED BY <1>1, <1>2, <1>3, <1>4, <1>5, <1>6, <1>7

(* A buffer load of the tail is a number of whole words that are there. *)
LEMMA HaveIs ==
  ASSUME TypeOK, More, Buffered
  PROVE  /\ Have \in Nat /\ Have > 0
         /\ Aligned(Have)
         /\ done + Have <= n
<1>1. n - done \in Nat /\ done \in Nat /\ n \in Nat /\ n - done >= Width
  BY WidthIs DEF TypeOK, More
<1>2. /\ ((n - done) \div Width) * Width \in Nat
      /\ ((n - done) \div Width) * Width <= n - done
      /\ n - done < ((n - done) \div Width) * Width + Width
      /\ Aligned(((n - done) \div Width) * Width)
  BY <1>1, WidthIs, WholeWords DEF Aligned
<1>3. ((n - done) \div Width) * Width > 0
  BY <1>1, <1>2, WidthIs
<1>4. Chunk \in Nat /\ Aligned(Chunk) /\ Chunk > 0
  BY ChunkIs
<1> QED BY <1>1, <1>2, <1>3, <1>4 DEF Have, MinOf

(* A buffer load of the tail. *)
LEMMA ProgramLoadInv ==
  ASSUME IInv, ProgramLoad
  PROVE  IInv'
<1>1. Have \in Nat /\ Aligned(Have) /\ done + Have <= n
  BY HaveIs DEF IInv, ProgramLoad, DoneIsDone
<1>2. PICK have \in Nat : have = Have
  BY <1>1
<1> QED BY <1>1, <1>2, StepInv DEF ProgramLoad

(* A word of the unbuffered loop. *)
LEMMA ProgramWordInv ==
  ASSUME IInv, ProgramWord
  PROVE  IInv'
<1>1. Width \in Nat /\ Aligned(Width) /\ done + Width <= n
  BY WidthIs DEF ProgramWord, More, Aligned
<1>2. PICK have \in Nat : have = Width
  BY <1>1
<1> QED BY <1>1, <1>2, StepInv DEF ProgramWord

(* A byte of 0xFF counts as done. *)
LEMMA SkipWordInv ==
  ASSUME IInv, SkipWord
  PROVE  IInv'
<1> USE FlashProgramAssumption DEF IInv, SkipWord, configVars, streamVars,
      payloadVars, chipVars, blockVars
<1>s. UNCHANGED <<configVars, blockVars, cells>>
  OBVIOUS
<1>1. TypeOK'
  <2>1. done' \in 0..n'
    BY DEF TypeOK, More, Width
  <2>2. {program_stream_err, bypassable, bypass, timed_out}' \subseteq BOOLEAN
    BY DEF TypeOK
  <2> QED BY <2>1, <2>2 DEF TypeOK
<1>2. LengthsAgree'
  BY DEF LengthsAgree, Receiving, Programming
<1>3. BytesAreThis'
  BY <1>s, SameBus DEF BytesAreThis, Receiving, Programming
<1>4. StreamKeepsPace'
  BY <1>s, SameBus DEF StreamKeepsPace, Receiving, Filled, PayOver
<1>5. DoneIsDone'
  <2>1. NextOffset' = done + 1 /\ NextOffset = done /\ done \in Nat
    BY DEF NextOffset, TypeOK
  <2>2. Covered(done)
    BY <2>1 DEF DoneIsDone, Programming
  <2>3. PICK x \in Nat : x = done + 1
    BY <2>1
  <2>4. Covered(x)
    BY <2>1, <2>2, <2>3 DEF Covered
  <2>5. Covered(NextOffset)'
    BY <1>s, <2>1, <2>3, <2>4, SameBlock
  <2>6. Aligned(NextOffset)'
    BY <2>1 DEF Aligned, Width
  <2> QED BY <2>5, <2>6 DEF DoneIsDone
<1>6. TimeoutIsNoted'
  BY DEF TimeoutIsNoted, Receiving
<1>7. AddressIsBase'
  BY <1>s, SameBus DEF AddressIsBase, Receiving, Programming
<1>8. NotLeftInBypass'
  BY DEF NotLeftInBypass
<1>9. AckedIsProgrammed'
  BY DEF AckedIsProgrammed
<1> QED BY <1>1, <1>2, <1>3, <1>4, <1>5, <1>6, <1>7, <1>8, <1>9

(* A loop that ends by its condition has done the whole block. *)
LEMMA LoopDoneInv ==
  ASSUME IInv, LoopDone
  PROVE  IInv'
<1> USE FlashProgramAssumption DEF IInv, LoopDone, configVars, streamVars,
      payloadVars, chipVars, blockVars
<1>s. UNCHANGED <<configVars, blockVars, cells>>
  OBVIOUS
<1>1. TypeOK'
  BY DEF TypeOK
<1>2. LengthsAgree'
  BY DEF LengthsAgree, Receiving, Programming
<1>3. BytesAreThis'
  BY <1>s, SameBus DEF BytesAreThis, Receiving, Programming
<1>4. StreamKeepsPace'
  BY <1>s, SameBus DEF StreamKeepsPace, Receiving, Filled, PayOver
<1>5. DoneIsDone'
  <2>1. /\ NextOffset' = done' /\ NextOffset = done /\ done' = done
        /\ pc' = "end" /\ done \in 0..n
    BY DEF NextOffset, TypeOK
  <2>2. Covered(done) /\ Aligned(done) /\ n \in Nat /\ n = transfer_size
    BY <2>1 DEF DoneIsDone, Programming, LengthsAgree, TypeOK
  <2>3. Covered(NextOffset)' /\ Aligned(NextOffset)'
    BY <1>s, <2>1, <2>2, SameBlock, SameBus
  <2>4. done = Whole
    BY <2>1, <2>2, WidthIs, AlignedBelow DEF More, Whole, Aligned
  <2>5. done' = Whole'
    BY <1>s, <2>1, <2>4, SameBus
  <2> QED BY <2>1, <2>3, <2>5 DEF DoneIsDone
<1>6. TimeoutIsNoted'
  BY DEF TimeoutIsNoted, Receiving
<1>7. AddressIsBase'
  BY <1>s, SameBus DEF AddressIsBase, Receiving, Programming
<1>8. NotLeftInBypass'
  BY DEF NotLeftInBypass
<1>9. AckedIsProgrammed'
  BY DEF AckedIsProgrammed
<1> QED BY <1>1, <1>2, <1>3, <1>4, <1>5, <1>6, <1>7, <1>8, <1>9

(* The address moves on, and the chip is out of bypass. *)
LEMMA EndProgramInv ==
  ASSUME IInv, EndProgram
  PROVE  IInv'
<1> USE FlashProgramAssumption DEF IInv, EndProgram, configVars, streamVars,
      payloadVars, chipVars, blockVars
<1>s. UNCHANGED <<configVars, blockVars, cells>>
  OBVIOUS
<1>1. TypeOK'
  <2>1. address' \in Nat
    BY WidthIs, WholeWords DEF TypeOK
  <2>2. {program_stream_err, bypassable, bypass, timed_out}' \subseteq BOOLEAN
    BY DEF TypeOK, BypassAfter
  <2> QED BY <2>1, <2>2 DEF TypeOK
<1>2. LengthsAgree'
  BY DEF LengthsAgree, Receiving, Programming
<1>3. BytesAreThis'
  BY <1>s, SameBus DEF BytesAreThis, Receiving, Programming
<1>4. StreamKeepsPace'
  BY <1>s, SameBus DEF StreamKeepsPace, Receiving, Filled, PayOver
<1>5. DoneIsDone'
  BY <1>s, SameBlock, SameBus DEF DoneIsDone, Receiving, Programming,
      NextOffset, Resume
<1>6. TimeoutIsNoted'
  BY DEF TimeoutIsNoted, Receiving
<1>7. AddressIsBase'
  <2>1. address' = base + transfer_size \div Width
    BY DEF AddressIsBase, LengthsAgree, Programming
  <2>2. address' = base' + transfer_size' \div Width'
    BY <1>s, <2>1, SameBus
  <2> QED BY <2>2 DEF AddressIsBase, Receiving, Programming
<1>8. NotLeftInBypass'
  BY DEF NotLeftInBypass, BypassAfter
<1>9. AckedIsProgrammed'
  <2>1. SUFFICES ASSUME verdict' = "ACK"
                 PROVE  \A o \in 0..Whole' - 1 : Placed(o)' \in cells'
                                                 \/ o \in blank'
    BY DEF AckedIsProgrammed
  <2>2. done = Whole /\ NextOffset = done /\ Covered(done)
    BY <2>1 DEF DoneIsDone, NextOffset, Programming
  <2>3. \A o \in 0..Whole - 1 : Placed(o) \in cells \/ o \in blank
    BY <2>2 DEF Covered
  <2> QED BY <1>s, <2>3, SameBus
<1> QED BY <1>1, <1>2, <1>3, <1>4, <1>5, <1>6, <1>7, <1>8, <1>9

(* The answer is out. *)
LEMMA ReplyInv ==
  ASSUME IInv, Reply
  PROVE  IInv'
<1> USE FlashProgramAssumption DEF IInv, Reply, configVars, streamVars,
      payloadVars, chipVars, blockVars
<1>s. UNCHANGED <<configVars, blockVars, cells>>
  OBVIOUS
<1>1. TypeOK'
  BY DEF TypeOK
<1>2. LengthsAgree'
  BY DEF LengthsAgree, Receiving, Programming
<1>3. BytesAreThis'
  BY <1>s, SameBus DEF BytesAreThis, Receiving, Programming
<1>4. StreamKeepsPace'
  BY <1>s, SameBus DEF StreamKeepsPace, Receiving, Filled, PayOver
<1>5. DoneIsDone'
  BY <1>s, SameBlock, SameBus DEF DoneIsDone, Receiving, Programming,
      NextOffset, Resume
<1>6. TimeoutIsNoted'
  BY DEF TimeoutIsNoted, Receiving
<1>7. AddressIsBase'
  BY <1>s, SameBus DEF AddressIsBase, Receiving, Programming
<1>8. NotLeftInBypass'
  BY DEF NotLeftInBypass
<1>9. AckedIsProgrammed'
  BY DEF AckedIsProgrammed
<1> QED BY <1>1, <1>2, <1>3, <1>4, <1>5, <1>6, <1>7, <1>8, <1>9

(* Nothing happens. *)
LEMMA StutterInv ==
  ASSUME IInv, UNCHANGED vars
  PROVE  IInv'
<1>1. UNCHANGED <<configVars, blockVars, cells>>
  BY DEF vars, chipVars
<1>2. Width' = Width /\ Buffered' = Buffered /\ Whole' = Whole
        /\ (\A x : Covered(x)' = Covered(x)) /\ (\A x : Aligned(x)' = Aligned(x))
        /\ (\A o : ThisByte(o)' = ThisByte(o))
        /\ (\A o : Placed(o)' = Placed(o))
  BY <1>1, SameBus, SameBlock
<1> USE DEF IInv, vars, configVars, streamVars, payloadVars, chipVars, blockVars
<1>3. TypeOK' /\ NotLeftInBypass' /\ LengthsAgree' /\ TimeoutIsNoted'
  BY DEF TypeOK, NotLeftInBypass, LengthsAgree, TimeoutIsNoted, Receiving,
         Programming
<1>4. BytesAreThis' /\ AddressIsBase' /\ AckedIsProgrammed'
  BY <1>2 DEF BytesAreThis, AddressIsBase, AckedIsProgrammed, Receiving,
              Programming
<1>5. StreamKeepsPace'
  BY <1>2 DEF StreamKeepsPace, Filled, PayOver, Receiving
<1>6. DoneIsDone'
  <2>1. NextOffset' = NextOffset
    BY <1>2 DEF NextOffset, Resume
  <2> QED BY <1>2, <2>1 DEF DoneIsDone, Receiving, Programming
<1> QED BY <1>3, <1>4, <1>5, <1>6

(* Every step keeps the invariant. *)
LEMMA NextIInv ==
  IInv /\ [Next]_vars => IInv'
<1> SUFFICES ASSUME IInv, [Next]_vars PROVE IInv'
  OBVIOUS
<1>1. CASE Thread
  BY <1>1, PumpLoadInv, PumpDoneInv, StartProgramInv, ProgramLoadInv,
     ProgramWordInv, SkipWordInv, LoopDoneInv, EndProgramInv, ReplyInv
     DEF Thread
<1>2. CASE Host
  BY <1>2, ConfigureInv, OpenPayloadInv, ReceiveInv, AbandonInv DEF Host
<1>3. CASE UNCHANGED vars
  BY <1>3, StutterInv
<1> QED BY <1>1, <1>2, <1>3 DEF Next

(* The invariant holds throughout. *)
LEMMA Invariance ==
  Spec => []IInv
<1> QED BY InitIInv, NextIInv, PTL DEF Spec

------------------------------------------------------------------------------
(* What the invariant gives. *)

(* Every reachable state is well typed: no progress runs past the payload   *)
(* buffer, no loop past the block (main.c, agb_stream_pump and              *)
(* do_flash_program).                                                       *)
THEOREM TypeCorrect ==
  Spec => []TypeOK
<1>1. IInv => TypeOK
  BY DEF IInv
<1> QED BY <1>1, Invariance, PTL

(* A block that do_flash_program() acknowledges is on the chip, every byte  *)
(* where the host put it, whatever part of it was streamed, and whatever    *)
(* blocks were abandoned before it.                                         *)
THEOREM AckedBlocksAreProgrammed ==
  Spec => []AckedIsProgrammed
<1>1. IInv => AckedIsProgrammed
  BY DEF IInv
<1> QED BY <1>1, Invariance, PTL

(* dmg_program_unbuffered() never leaves the chip in unlock bypass, also    *)
(* when its loop ends at a timeout.                                         *)
THEOREM NeverLeftInBypass ==
  Spec => []NotLeftInBypass
<1>1. IInv => NotLeftInBypass
  BY DEF IInv
<1> QED BY <1>1, Invariance, PTL

(* Once a load has timed out, nothing of the block goes to the chip any     *)
(* more: neither the pump nor do_flash_program() goes on.                   *)
THEOREM TimeoutsStopTheBlock ==
  Spec => StopsAfterTimeout
<1>1. ASSUME IInv, [Next]_vars
      PROVE  [timed_out /\ timed_out' => cells' = cells]_vars
  <2>1. SUFFICES ASSUME Next, timed_out, timed_out'
                 PROVE  cells' = cells
    BY <1>1
  <2>2. ~PumpLoad
    BY <1>1, <2>1, PumpTakes DEF PumpLoad, IInv
  <2>3. ~ProgramLoad /\ ~ProgramWord
    BY <1>1, <2>1 DEF ProgramLoad, ProgramWord, IInv, TimeoutIsNoted
  <2>4. CASE Thread
    BY <2>2, <2>3, <2>4 DEF Thread, PumpDone, StartProgram, SkipWord, LoopDone,
                            EndProgram, Reply, chipVars
  <2>5. CASE Host
    <3>1. CASE Receive
      BY <3>1 DEF Receive, Take, chipVars
    <3>2. CASE ~Receive
      BY <2>5, <3>2 DEF Host, Configure, OpenPayload, Abandon, chipVars
    <3> QED BY <3>1, <3>2
  <2> QED BY <2>1, <2>4, <2>5 DEF Next
<1> QED BY <1>1, Invariance, PTL DEF Spec, StopsAfterTimeout

------------------------------------------------------------------------------
(* The refinement: every step is a step of BlockWriter, or none. *)

Abstract == [Writer!Next]_(Writer!writerVars)

(* The initial states are initial states of the abstract writer. *)
LEMMA InitRefines ==
  Init => Writer!Init
BY DEF Init, Writer!Init, Phase, NextOffset

(* Steps that the abstract writer does not see. *)
LEMMA Unseen ==
  ASSUME UNCHANGED <<configVars, blockVars, cells>>,
         pc # "idle", pc' # "idle", Phase' = Phase, NextOffset' = NextOffset
  PROVE  UNCHANGED Writer!writerVars
<1>1. Width' = Width
  BY SameBus
<1> QED BY <1>1 DEF Writer!writerVars, Writer!blockVars, configVars, blockVars

(* A load of the concrete writer is what the abstract one sends. *)
LEMMA LoadIsSent ==
  ASSUME IInv, pc \notin {"idle", "reply"},
         NEW have \in Nat, have > 0, Aligned(have),
         NextOffset \in Nat, NextOffset + have <= transfer_size,
         \A o \in NextOffset..NextOffset + have - 1 : pay[o] = ThisByte(o)
  PROVE  /\ NextOffset + have <= Writer!Length
         /\ cells' = cells \cup Cells(NextOffset, have) =>
              Writer!Sends(NextOffset + have)
<1>1. Receiving \/ Programming
  BY DEF IInv, TypeOK, Receiving, Programming
<1>2. Aligned(NextOffset) /\ address = base
  BY <1>1 DEF IInv, DoneIsDone, AddressIsBase
<1>3. NextOffset + have <= Writer!Length
  <2>1. Aligned(NextOffset + have) /\ NextOffset + have \in Nat
    BY <1>2, WidthIs, AlignedSum DEF Aligned
  <2>2. transfer_size \in Nat
    BY DEF IInv, TypeOK
  <2> QED BY <2>1, <2>2, WidthIs, AlignedBelow DEF Aligned, Writer!Length
<1>4. ASSUME cells' = cells \cup Cells(NextOffset, have)
      PROVE  Writer!Sends(NextOffset + have)
  <2>1. Cells(NextOffset, have)
          = {Placed(o) : o \in NextOffset..NextOffset + have - 1}
    BY <1>2, CellsArePlaced DEF IInv
  <2>2. \A o : Writer!Placed(o) = Placed(o)
    BY DEF Writer!Placed, Placed
  <2>3. (NextOffset..NextOffset + have - 1) \ {}
          = NextOffset..NextOffset + have - 1
    OBVIOUS
  <2>4. cells' = cells \cup
          {Writer!Placed(o) : o \in (NextOffset..NextOffset + have - 1) \ {}}
    BY <1>4, <2>1, <2>2, <2>3
  <2>5. SUFFICES \E skipped \in SUBSET blank :
          cells' = cells \cup
            {Writer!Placed(o) :
               o \in (NextOffset..NextOffset + have - 1) \ skipped}
    BY DEF Writer!Sends
  <2> WITNESS {} \in SUBSET blank
  <2> QED BY <2>4
<1> QED BY <1>3, <1>4

(* A new configuration is a choice of the abstract writer. *)
LEMMA ConfigureRefines ==
  ASSUME IInv, Configure
  PROVE  Abstract
<1>1. pc = "idle" /\ pc' = "idle" /\ UNCHANGED <<cells, blk>>
  BY DEF Configure, chipVars, blockVars
<1>2. Phase = "closed" /\ Phase' = "closed" /\ NextOffset = 0 /\ NextOffset' = 0
  BY <1>1 DEF Phase, NextOffset
<1>3. Writer!Choose
  BY <1>1, <1>2 DEF Writer!Choose
<1> QED BY <1>3 DEF Abstract, Writer!Next

(* The opcode opens the block. *)
LEMMA OpenPayloadRefines ==
  ASSUME IInv, OpenPayload
  PROVE  Abstract
<1>1. /\ pc = "idle" /\ pc' = "recv" /\ timed_out' = FALSE
      /\ program_done' = 0 /\ base' = address /\ blk' = blk + 1
      /\ UNCHANGED <<configVars, cells>>
  BY DEF OpenPayload, Opened
<1>2. Phase = "closed" /\ Phase' = "open" /\ NextOffset = 0 /\ NextOffset' = 0
  BY <1>1 DEF Phase, NextOffset
<1>3. Width' = Width /\ transfer_size' = transfer_size
  BY <1>1 DEF Width, configVars
<1>4. Writer!Open
  BY <1>1, <1>2, <1>3 DEF Writer!Open
<1> QED BY <1>4 DEF Abstract, Writer!Next

(* Bytes arriving are not seen; a refusal is a Reject that wrote nothing. *)
LEMMA ReceiveRefines ==
  ASSUME IInv, Receive
  PROVE  Abstract
<1>1. /\ pc = "recv" /\ Receiving
      /\ pc' \in {"pump", "program", "reply"}
      /\ UNCHANGED <<configVars, blockVars, cells, program_done, timed_out>>
  BY DEF Receive, Take, chipVars, streamVars, Receiving
<1>2. CASE pc' = "pump"
  <2>1. Phase' = Phase /\ NextOffset' = NextOffset
    BY <1>1, <1>2 DEF Phase, NextOffset
  <2> QED BY <1>1, <1>2, <2>1, Unseen DEF Abstract
<1>3. CASE pc' = "program"
  <2>1. Phase' = Phase
    BY <1>1, <1>3 DEF Phase
  <2>2. Buffered' = Buffered /\ (~Buffered => program_done = 0)
    BY <1>1, SameBus DEF IInv, StreamKeepsPace
  <2>3. NextOffset' = NextOffset
    BY <1>1, <1>3, <2>2 DEF NextOffset, Resume
  <2> QED BY <1>1, <1>3, <2>1, <2>3, Unseen DEF Abstract
<1>4. CASE pc' = "reply"
  <2>1. verdict' = "ERROR" /\ ~Programs
    BY <1>4 DEF Receive, Take
  <2>2. program_done = 0
    <3>1. CASE PayOver
      <4>1. program_done <= 0 /\ program_done \in 0..PayloadMax
        BY <1>1, <3>1 DEF IInv, StreamKeepsPace, Filled, TypeOK
      <4> QED BY <4>1, FlashProgramAssumption
    <3>2. CASE ~PayOver
      <4>1. ~Buffered
        BY <2>1, <3>2 DEF Programs, Buffered, IInv, TypeOK
      <4> QED BY <1>1, <4>1 DEF IInv, StreamKeepsPace
    <3> QED BY <3>1, <3>2
  <2>3. /\ Phase \in {"open", "failed"} /\ NextOffset = 0
        /\ Phase' = "ERROR" /\ NextOffset' = 0
    BY <1>1, <1>4, <2>1, <2>2 DEF Phase, NextOffset
  <2>4. Width' = Width
    BY <1>1, SameBus
  <2>5. Writer!Reject
    BY <1>1, <1>4, <2>3, <2>4
       DEF Writer!Reject, Writer!blockVars, configVars, blockVars
  <2> QED BY <2>5 DEF Abstract, Writer!Next
<1> QED BY <1>1, <1>2, <1>3, <1>4

(* A block given up is abandoned. *)
LEMMA AbandonRefines ==
  ASSUME IInv, Abandon
  PROVE  Abstract
<1>1. /\ pc = "recv" /\ pc' = "idle"
      /\ UNCHANGED <<configVars, blockVars, cells, address, timed_out>>
  BY DEF Abandon, chipVars
<1>2. address = base
  BY <1>1 DEF IInv, AddressIsBase, Receiving
<1>3. Phase \in {"open", "failed"} /\ Phase' = "closed" /\ NextOffset' = 0
  BY <1>1 DEF Phase, NextOffset
<1>4. Width' = Width
  BY <1>1, SameBus
<1>5. Writer!Abandon
  BY <1>1, <1>2, <1>3, <1>4
     DEF Writer!Abandon, Writer!blockVars, configVars, blockVars
<1> QED BY <1>5 DEF Abstract, Writer!Next

(* A load of the pump is a Write or a Fail. *)
LEMMA PumpLoadRefines ==
  ASSUME IInv, PumpLoad
  PROVE  Abstract
<1>1. /\ pc = "pump" /\ pc' = "pump" /\ PumpGoesOn
      /\ UNCHANGED <<configVars, blockVars>>
  BY DEF PumpLoad
<1>2. PICK have \in Nat : have = Chunk
  BY <1>1, PumpTakes
<1>3. /\ NextOffset = program_done /\ NextOffset' = program_done'
      /\ Phase = "open"
      /\ Phase' = (IF timed_out' THEN "failed" ELSE "open")
  BY <1>1, PumpTakes DEF NextOffset, Phase
<1>4. /\ NextOffset \in Nat /\ have > 0 /\ Aligned(have)
      /\ NextOffset + have <= transfer_size
      /\ \A o \in NextOffset..NextOffset + have - 1 : pay[o] = ThisByte(o)
  BY <1>1, <1>2, <1>3, PumpTakes
<1>5. /\ NextOffset + have <= Writer!Length
      /\ cells' = cells \cup Cells(NextOffset, have) =>
           Writer!Sends(NextOffset + have)
  BY <1>1, <1>4, LoadIsSent
<1>6. UNCHANGED Writer!blockVars
  BY <1>1, SameBus DEF Writer!blockVars, configVars, blockVars
<1>7. CASE /\ LoadRetires(program_done, Chunk)
           /\ program_done' = program_done + Chunk
  <2>1. /\ cells' = cells \cup Cells(NextOffset, have)
        /\ NextOffset' = NextOffset + have /\ Phase' = "open"
    BY <1>2, <1>3, <1>7, <1>1, PumpTakes DEF LoadRetires
  <2>2. Writer!Write
    BY <1>3, <1>4, <1>5, <1>6, <2>1 DEF Writer!Write
  <2> QED BY <2>2 DEF Abstract, Writer!Next
<1>8. CASE LoadTimesOut(program_done, Chunk) /\ UNCHANGED program_done
  <2>1. /\ cells' \in {cells, cells \cup Cells(NextOffset, have)}
        /\ NextOffset' = NextOffset /\ Phase' = "failed"
    BY <1>2, <1>3, <1>8 DEF LoadTimesOut
  <2>2. Writer!Length \in Int
    BY WidthIs, WholeWords DEF Writer!Length, IInv, TypeOK
  <2>3. NextOffset + have \in NextOffset + 1..Writer!Length
    BY <1>4, <1>5, <2>2
  <2>4. Writer!Fail
    BY <1>3, <1>5, <1>6, <2>1, <2>3 DEF Writer!Fail
  <2> QED BY <2>4 DEF Abstract, Writer!Next
<1> QED BY <1>7, <1>8 DEF PumpLoad

(* The end of the pump is not seen. *)
LEMMA PumpDoneRefines ==
  ASSUME IInv, PumpDone
  PROVE  Abstract
<1>1. /\ pc = "pump" /\ pc' = "recv"
      /\ UNCHANGED <<configVars, blockVars, cells, program_done, timed_out>>
  BY DEF PumpDone, chipVars, streamVars
<1>2. Phase' = Phase /\ NextOffset' = NextOffset
  BY <1>1 DEF Phase, NextOffset
<1> QED BY <1>1, <1>2, Unseen DEF Abstract

(* The start of the tail is not seen. *)
LEMMA StartProgramRefines ==
  ASSUME IInv, StartProgram
  PROVE  Abstract
<1>1. /\ pc = "program" /\ pc' \in {"load", "word", "end"}
      /\ done' = Resume
      /\ UNCHANGED <<configVars, blockVars, cells, timed_out>>
  BY DEF StartProgram
<1>2. Phase' = Phase /\ NextOffset' = NextOffset
  BY <1>1 DEF Phase, NextOffset
<1> QED BY <1>1, <1>2, Unseen DEF Abstract

(* One turn of either loop. *)
LEMMA StepRefines ==
  ASSUME IInv, pc \in {"load", "word"}, NEW have \in Nat, have > 0,
         Aligned(have), done + have <= n, Step(have),
         UNCHANGED <<configVars, blockVars>>
  PROVE  Abstract
<1>1. Programming /\ pc' \in {"load", "word", "end"} /\ ~timed_out
  BY DEF Programming, Step, IInv, TimeoutIsNoted
<1>2. /\ NextOffset = done /\ NextOffset' = done'
      /\ Phase = "open"
      /\ Phase' = (IF timed_out' THEN "failed" ELSE "open")
  BY <1>1 DEF NextOffset, Phase
<1>3. /\ NextOffset \in Nat /\ NextOffset + have <= transfer_size
      /\ \A o \in NextOffset..NextOffset + have - 1 : pay[o] = ThisByte(o)
  <2>1. done \in Nat /\ n \in Nat /\ n = transfer_size
    BY <1>1 DEF IInv, TypeOK, LengthsAgree
  <2> QED BY <1>1, <1>2, <2>1 DEF IInv, BytesAreThis
<1>4. /\ NextOffset + have <= Writer!Length
      /\ cells' = cells \cup Cells(NextOffset, have) =>
           Writer!Sends(NextOffset + have)
  BY <1>3, LoadIsSent
<1>5. UNCHANGED Writer!blockVars
  BY <1>1, SameBus DEF Writer!blockVars, configVars, blockVars
<1>6. CASE LoadRetires(done, have) /\ done' = done + have
  <2>1. /\ cells' = cells \cup Cells(NextOffset, have)
        /\ NextOffset' = NextOffset + have /\ Phase' = "open"
    BY <1>1, <1>2, <1>6 DEF LoadRetires
  <2>2. Writer!Write
    BY <1>2, <1>3, <1>4, <1>5, <2>1 DEF Writer!Write
  <2> QED BY <2>2 DEF Abstract, Writer!Next
<1>7. CASE LoadTimesOut(done, have) /\ UNCHANGED done
  <2>1. /\ cells' \in {cells, cells \cup Cells(NextOffset, have)}
        /\ NextOffset' = NextOffset /\ Phase' = "failed"
    BY <1>2, <1>7 DEF LoadTimesOut
  <2>2. Writer!Length \in Int
    BY WidthIs, WholeWords DEF Writer!Length, IInv, TypeOK
  <2>3. NextOffset + have \in NextOffset + 1..Writer!Length
    BY <1>3, <1>4, <2>2
  <2>4. Writer!Fail
    BY <1>2, <1>4, <1>5, <2>1, <2>3 DEF Writer!Fail
  <2> QED BY <2>4 DEF Abstract, Writer!Next
<1> QED BY <1>6, <1>7 DEF Step

(* A buffer load is a Write or a Fail. *)
LEMMA ProgramLoadRefines ==
  ASSUME IInv, ProgramLoad
  PROVE  Abstract
<1>1. Have \in Nat /\ Have > 0 /\ Aligned(Have) /\ done + Have <= n
  BY HaveIs DEF IInv, ProgramLoad, DoneIsDone
<1>2. PICK have \in Nat : have = Have
  BY <1>1
<1> QED BY <1>1, <1>2, StepRefines DEF ProgramLoad

(* A word is a Write or a Fail. *)
LEMMA ProgramWordRefines ==
  ASSUME IInv, ProgramWord
  PROVE  Abstract
<1>1. Width \in Nat /\ Width > 0 /\ Aligned(Width) /\ done + Width <= n
  BY WidthIs DEF ProgramWord, More, Aligned
<1>2. PICK have \in Nat : have = Width
  BY <1>1
<1> QED BY <1>1, <1>2, StepRefines DEF ProgramWord

(* A skipped byte is a Write that leaves it out. *)
LEMMA SkipWordRefines ==
  ASSUME IInv, SkipWord
  PROVE  Abstract
<1>1. /\ pc = "word" /\ pc' = "word" /\ More /\ Width = 1 /\ done \in blank
      /\ done' = done + 1
      /\ UNCHANGED <<configVars, blockVars, cells, timed_out>>
  BY DEF SkipWord, chipVars, Width
<1>2. /\ NextOffset = done /\ NextOffset' = done + 1
      /\ Phase = "open" /\ Phase' = "open"
  BY <1>1 DEF NextOffset, Phase, IInv, TimeoutIsNoted
<1>3. done \in Nat /\ done + 1 <= Writer!Length
  <2>1. done \in Nat /\ n \in Nat /\ n = transfer_size
    BY <1>1 DEF IInv, TypeOK, LengthsAgree, Programming
  <2> QED BY <1>1, <2>1 DEF More, Writer!Length
<1>4. Writer!Sends(done + 1)
  <2>1. PICK upto \in Nat : upto = done + 1
    BY <1>3
  <2>2. (NextOffset..upto - 1) \ {done} = {}
    BY <1>2, <1>3, <2>1
  <2>3. cells' = cells \cup
          {Writer!Placed(o) : o \in (NextOffset..upto - 1) \ {done}}
    BY <1>1, <2>2
  <2>4. SUFFICES \E skipped \in SUBSET blank :
          cells' = cells \cup
            {Writer!Placed(o) : o \in (NextOffset..upto - 1) \ skipped}
    BY <2>1 DEF Writer!Sends
  <2>5. {done} \in SUBSET blank
    BY <1>1
  <2> WITNESS {done} \in SUBSET blank
  <2> QED BY <2>3
<1>5. UNCHANGED Writer!blockVars
  BY <1>1, SameBus DEF Writer!blockVars, configVars, blockVars
<1>6. Writer!Write
  BY <1>2, <1>3, <1>4, <1>5 DEF Writer!Write
<1> QED BY <1>6 DEF Abstract, Writer!Next

(* The end of a loop is not seen. *)
LEMMA LoopDoneRefines ==
  ASSUME IInv, LoopDone
  PROVE  Abstract
<1>1. /\ pc \in {"load", "word"} /\ pc' = "end"
      /\ UNCHANGED <<configVars, blockVars, cells, done, timed_out>>
  BY DEF LoopDone, chipVars
<1>2. Phase' = Phase /\ NextOffset' = NextOffset
  BY <1>1 DEF Phase, NextOffset
<1> QED BY <1>1, <1>2, Unseen DEF Abstract

(* The end is an Accept of a whole block or a Reject of a failed one. *)
LEMMA EndProgramRefines ==
  ASSUME IInv, EndProgram
  PROVE  Abstract
<1>1. /\ pc = "end" /\ pc' = "reply"
      /\ UNCHANGED <<configVars, blockVars, cells, verdict, timed_out>>
  BY DEF EndProgram
<1>2. /\ Phase = (IF timed_out THEN "failed" ELSE "open") /\ Phase' = verdict
      /\ NextOffset = done /\ NextOffset' = 0
      /\ timed_out <=> verdict = "ERROR"
      /\ verdict \in {"ACK", "ERROR"}
  BY <1>1 DEF Phase, NextOffset, IInv, TimeoutIsNoted, TypeOK
<1>3. UNCHANGED Writer!blockVars
  BY <1>1, SameBus DEF Writer!blockVars, configVars, blockVars
<1>4. CASE verdict = "ACK"
  <2>1. done = Writer!Length
    BY <1>1, <1>4 DEF IInv, DoneIsDone, Whole, Writer!Length
  <2>2. Writer!Accept
    BY <1>1, <1>2, <1>3, <1>4, <2>1 DEF Writer!Accept
  <2> QED BY <2>2 DEF Abstract, Writer!Next
<1>5. CASE verdict = "ERROR"
  <2>1. Writer!Reject
    BY <1>1, <1>2, <1>3, <1>5 DEF Writer!Reject
  <2> QED BY <2>1 DEF Abstract, Writer!Next
<1> QED BY <1>2, <1>4, <1>5

(* The answer closes the block and settles the next address. *)
LEMMA ReplyRefines ==
  ASSUME IInv, Reply
  PROVE  Abstract
<1>1. /\ pc = "reply" /\ pc' = "idle"
      /\ UNCHANGED <<configVars, blockVars, cells, address>>
  BY DEF Reply, chipVars
<1>2. /\ Phase = verdict /\ Phase' = "closed"
      /\ NextOffset = 0 /\ NextOffset' = 0
      /\ verdict \in {"ACK", "ERROR"}
  BY <1>1 DEF Phase, NextOffset, IInv, TypeOK
<1>3. \/ address' = base + transfer_size \div Width
      \/ verdict = "ERROR" /\ address' = base
  BY <1>1 DEF IInv, AddressIsBase
<1>4. Width' = Width
  BY <1>1, SameBus
<1>5. Writer!Answer
  BY <1>1, <1>2, <1>3, <1>4 DEF Writer!Answer, configVars, blockVars
<1> QED BY <1>5 DEF Abstract, Writer!Next

(* Every step is a step of the abstract writer, or none. *)
LEMMA NextRefines ==
  IInv /\ [Next]_vars => Abstract
<1> SUFFICES ASSUME IInv, [Next]_vars PROVE Abstract
  OBVIOUS
<1>1. CASE Thread
  BY <1>1, PumpLoadRefines, PumpDoneRefines, StartProgramRefines,
     ProgramLoadRefines, ProgramWordRefines, SkipWordRefines, LoopDoneRefines,
     EndProgramRefines, ReplyRefines DEF Thread
<1>2. CASE Host
  BY <1>2, ConfigureRefines, OpenPayloadRefines, ReceiveRefines, AbandonRefines
     DEF Host
<1>3. CASE UNCHANGED vars
  <2>1. UNCHANGED <<configVars, blockVars, cells, pc, address, timed_out,
                    verdict, program_done, done>>
    BY <1>3 DEF vars, chipVars, streamVars
  <2>2. Width' = Width /\ Buffered' = Buffered
    BY <2>1, SameBus
  <2>3. Phase' = Phase /\ NextOffset' = NextOffset
    BY <2>1, <2>2 DEF Phase, NextOffset, Resume
  <2> QED BY <2>1, <2>2, <2>3
          DEF Abstract, Writer!writerVars, Writer!blockVars, configVars,
              blockVars
<1> QED BY <1>1, <1>2, <1>3 DEF Next

(* Streamed or in one go, buffered or word by word, on either bus:          *)
(* FLASH_PROGRAM writes a block in order, each byte in its place, none      *)
(* twice and none after a timeout, and says so truthfully.                  *)
THEOREM FlashProgramImplementsBlockWriter ==
  Spec => ImplementsBlockWriter
<1>1. IInv /\ [Next]_vars => [Writer!Next]_(Writer!writerVars)
  BY NextRefines DEF Abstract
<1> QED BY <1>1, InitRefines, Invariance, PTL
        DEF Spec, ImplementsBlockWriter, Writer!Spec
=============================================================================
