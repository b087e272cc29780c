-------------------------- MODULE VirtualDiskProofs --------------------------
(***************************************************************************)
(* That a sparse image is a virtual disk: blocks, bitmaps, the stale cache *)
(* and the padded BAT of a reopened file do not show, whatever reads fail. *)
(***************************************************************************)
EXTENDS SparseReadProofs

\* The offset behind a buffer's length and all blocks of the disk is a u64: a buffer
\* has at most isize::MAX bytes, and a disk at most 2040 GiB (image.rs:83-85).
BuffersFit == \A n \in Lengths : n + BatLen * BlockSize <= U64

\* A read delivers only bytes below the end of the disk: bound_to has cut the
\* request, or its sum has wrapped and no block is there.
InDisk ==
    call.op = "read" =>
        \/ call.start + call.want <= Capacity
        \/ /\ call.out = << >>
           /\ Running => pc = "populate" /\ call.start >= BatLen * BlockSize

\* Only a call that has returned is Ok.
OkIsIdle == status = "ok" => pc = "idle"

DiskInv == InDisk /\ OkIsIdle

-----------------------------------------------------------------------------
(* The bytes of the disk *)

\* Reopening extends the BAT with entries of blocks without storage.
LEMMA OpenKeepsBlocks ==
    ASSUME Inv, Open, NEW b
    PROVE  /\ Used(b)' <=> Used(b)
           /\ Used(b) => bat'[b] = bat[b] /\ bits'[b] = bits[b]
<1>1. PICK n \in {MaxBatSize, BatLen} :
         /\ bat \in [0 .. n - 1 -> Nat \cup {DD_BLOCK_UNUSED}]
         /\ bits \in [0 .. n - 1 -> SUBSET Sectors]
  BY DEF Inv, TypeOK, ImageOK
<1>2. DOMAIN bat = 0 .. n - 1 /\ DOMAIN bits = 0 .. n - 1
  BY <1>1
<1>3. 0 .. n - 1 \subseteq 0 .. BatLen - 1
  BY Sizes
<1>4. /\ bat' = [i \in 0 .. BatLen - 1 |-> IF i \in DOMAIN bat THEN bat[i]
                                            ELSE DD_BLOCK_UNUSED]
      /\ bits' = [i \in 0 .. BatLen - 1 |-> IF i \in DOMAIN bits THEN bits[i] ELSE {}]
  BY DEF Open
<1>5. Used(b)' <=> b \in DOMAIN bat' /\ bat'[b] # DD_BLOCK_UNUSED
  BY DEF Used
<1>6. CASE b \in 0 .. n - 1
  BY <1>2, <1>3, <1>4, <1>5, <1>6 DEF Used
<1>7. CASE b \notin 0 .. n - 1
  BY <1>2, <1>4, <1>5, <1>7 DEF Used
<1> QED
  BY <1>6, <1>7

LEMMA SameDisk ==
    ASSUME Inv, [Next]_vars
    PROVE  DiskBytes' = DiskBytes
<1>1. CASE UNCHANGED <<kind, bat, bits>>
  BY <1>1 DEF DiskBytes, Content, Used, DataPos
<1>2. CASE Open
  <2>1. kind' = kind
    BY <1>2 DEF Open
  <2>2. ASSUME NEW v PROVE Content(v)' = Content(v)
    <3>1. PICK b, x : b = v \div BlockSize /\ x = v % BlockSize
      OBVIOUS
    <3>2. /\ Used(b)' <=> Used(b)
          /\ Used(b) => bat'[b] = bat[b] /\ bits'[b] = bits[b]
      BY <1>2, OpenKeepsBlocks
    <3>3. Used(b) => DataPos(b, x)' = DataPos(b, x)
      BY <3>2 DEF DataPos
    <3>4. Content(v) = IF Used(b) /\ x \div SectorSize \in bits[b] THEN DataPos(b, x)
                       ELSE IF kind = "Diff" THEN -(v + 1) ELSE Zero
      BY <3>1 DEF Content
    <3>5. Content(v)' = IF Used(b)' /\ x \div SectorSize \in bits'[b] THEN DataPos(b, x)'
                        ELSE IF kind' = "Diff" THEN -(v + 1) ELSE Zero
      BY <3>1 DEF Content
    <3>6. CASE Used(b)
      <4>1. Used(b)' /\ bits'[b] = bits[b] /\ DataPos(b, x)' = DataPos(b, x)
        BY <3>2, <3>3, <3>6
      <4> QED
        BY <2>1, <3>4, <3>5, <3>6, <4>1
    <3>7. CASE ~Used(b)
      BY <2>1, <3>2, <3>4, <3>5, <3>7
    <3> QED
      BY <3>6, <3>7
  <2> QED
    BY <2>2 DEF DiskBytes
<1> QED
  BY <1>1, <1>2, ImageSteps

-----------------------------------------------------------------------------
(* The request and its answer *)

\* Where bound_to does not wrap, it cuts a request at the end of the disk.
LEMMA Bounded ==
    ASSUME NEW o \in Nat, NEW n \in Nat, o + n < U64, BoundTo(Capacity, o, n) # NoLength
    PROVE  o + BoundTo(Capacity, o, n) <= Capacity
<1>1. U64 \in Nat /\ Capacity \in Nat
  BY WidthAssumption, SizeAssumption
<1>2. (o + n) % U64 = o + n
  BY <1>1, Z3
<1> QED
  BY <1>1, <1>2 DEF BoundTo, NoLength

\* No block is where a wrapped request starts.
LEMMA NoBlockThere ==
    ASSUME ImageOK, CacheOK, CallOK, call.offset >= BatLen * BlockSize
    PROVE  CallBlock \notin DOMAIN bat /\ cachedIndex # CallBlock
<1>1. PICK n \in {MaxBatSize, BatLen} : DOMAIN bat = 0 .. n - 1
  BY DEF ImageOK
<1>2. /\ CallBlock \in Nat /\ InBlock \in 0 .. BlockSize - 1
      /\ call.offset = BlockSize * CallBlock + InBlock
      /\ BlockSize \in Nat \ {0} /\ BatLen \in Nat /\ n \in Nat /\ n <= BatLen
  BY Places, Sizes
<1>3. /\ (CallBlock + 1) * BlockSize = CallBlock * BlockSize + 1 * BlockSize
      /\ CallBlock * BlockSize = BlockSize * CallBlock /\ CallBlock * BlockSize \in Nat
  BY <1>2, MulDistributes, MulCommutes, MulNat
<1>4. BatLen * BlockSize < (CallBlock + 1) * BlockSize
  <2>1. BatLen * BlockSize \in Nat
    BY <1>2, MulNat
  <2> QED
    BY <1>2, <1>3, <2>1
<1>5. BatLen < CallBlock + 1
  BY <1>2, <1>4, MulLess
<1> QED
  BY <1>1, <1>2, <1>5 DEF CacheOK, INVALID_CACHE_INDEX

\* A step of a call that goes on, or ends, does not change what was asked for.
LEMMA SameRequest ==
    ASSUME Inv, [Next]_vars, Running
    PROVE  /\ Request' = Request
           /\ call'.op = call.op /\ call'.start = call.start /\ call'.want = call.want
<1>1. call \in Calls /\ ImageOK /\ CallOK
  BY DEF Inv, TypeOK, CallOK
<1>2. ASSUME call' = call PROVE /\ call'.op = call.op /\ call'.start = call.start
                                /\ call'.want = call.want
  BY <1>2
<1>3. kind' = kind
  BY ImageSteps DEF Open, Running
<1>4. PopulateBlockBitmap \/ ReadBlock \/ WriteBlock \/ UNCHANGED vars
  BY DEF Running, Next, ReadAt, WriteAt, Begin, SparseBlockBitmap, SparseBlockData, Flush,
         Drop, Open
<1>5. CASE PopulateBlockBitmap \/ WriteBlock \/ UNCHANGED vars
  <2>1. call' = call
    BY <1>5, WriteBlockOutcome DEF Inv, PopulateBlockBitmap, vars, callVars
  <2> QED
    BY <1>3, <2>1 DEF Request
<1>6. CASE ReadBlock
  <2>1. call'.op = call.op /\ call'.start = call.start /\ call'.want = call.want
    BY <1>1, <1>6, ReadBlockOutcome DEF Deliver, Calls
  <2> QED
    BY <1>3, <2>1 DEF Request
<1> QED
  BY <1>4, <1>5, <1>6

LEMMA StepInDisk ==
    ASSUME BuffersFit, CallInv, InDisk, [Next]_vars
    PROVE  InDisk'
<1> USE DEF CallInv, Inv
<1>1. ASSUME NEW op \in {"read", "write"}, NEW o \in Offsets, NEW n \in Lengths,
             Begin(op, o, n)
      PROVE  InDisk'
  <2> DEFINE len == BoundTo(Capacity, o, n)
             m == IF len = NoLength THEN 0 ELSE len
  <2>1. o \in Nat /\ n \in Nat /\ U64 \in Nat /\ BatLen * BlockSize \in Nat
    BY CallAssumption, WidthAssumption, Sizes, MulNat
  <2>2. call'.out = << >> /\ call'.start = o /\ call'.want = m
    BY <1>1 DEF Begin, NewCall
  <2>3. Running' => pc' = "populate" /\ len # NoLength
    BY <1>1 DEF Begin, Panic, Return, Running
  <2>4. CASE o + n < U64
    <3>1. len # NoLength => o + m <= Capacity
      BY <2>1, <2>4, Bounded
    <3> HIDE DEF len
    <3> QED
      BY <2>2, <2>3, <3>1 DEF InDisk
  <2>5. CASE ~(o + n < U64)
    <3>1. o >= BatLen * BlockSize
      <4>1. n + BatLen * BlockSize <= U64
        BY DEF BuffersFit
      <4> QED
        BY <2>1, <2>5, <4>1
    <3> QED
      BY <2>2, <2>3, <3>1 DEF InDisk
  <2> QED
    BY <2>4, <2>5
<1>2. CASE Running
  <2>1. call'.op = call.op /\ call'.start = call.start /\ call'.want = call.want
    BY <1>2, SameRequest
  <2>2. CASE call.op = "read" /\ ~(call.start + call.want <= Capacity)
    <3>1. pc = "populate" /\ call.start >= BatLen * BlockSize /\ call.out = << >>
      BY <1>2, <2>2 DEF InDisk
    <3>2. call.offset = call.start
      <4>1. call.offset = call.start + Len(call.out) /\ call.start \in Nat
        BY <2>2 DEF TypeOK, CallOK, Calls
      <4>2. Len(call.out) = 0
        BY <3>1
      <4> QED
        BY <4>1, <4>2
    <3>3. CallBlock \notin DOMAIN bat /\ cachedIndex # CallBlock
      BY <3>1, <3>2, NoBlockThere DEF TypeOK
    <3>4. PopulateBlockBitmap \/ UNCHANGED vars
      BY <3>1 DEF Next, ReadAt, WriteAt, Begin, SparseBlockBitmap, SparseBlockData, ReadBlock,
                  WriteBlock, Flush, Drop, Open
    <3>5. CASE PopulateBlockBitmap
      <4>1. call' = call
        BY <3>5 DEF PopulateBlockBitmap
      <4>2. pc' = "idle"
        BY <2>2, <3>3, <3>5 DEF PopulateBlockBitmap, Used, Fail, Return
      <4> QED
        BY <3>1, <4>1, <4>2 DEF InDisk, Running
    <3>6. CASE UNCHANGED vars
      BY <3>6 DEF vars, callVars, InDisk, Running
    <3> QED
      BY <3>4, <3>5, <3>6
  <2>3. CASE ~(call.op = "read" /\ ~(call.start + call.want <= Capacity))
    BY <2>1, <2>3 DEF InDisk
  <2> QED
    BY <2>2, <2>3
<1>3. CASE UNCHANGED vars
  BY <1>3 DEF vars, callVars, InDisk, Running
<1>4. CASE ~Running /\ Next
  <2>1. CASE \E o \in Offsets, n \in Lengths : ReadAt(o, n) \/ WriteAt(o, n)
    BY <1>1, <2>1 DEF ReadAt, WriteAt
  <2>2. CASE ~\E o \in Offsets, n \in Lengths : ReadAt(o, n) \/ WriteAt(o, n)
    <3>1. \/ \E b \in 0 .. BatLen : SparseBlockBitmap(b)
          \/ \E b \in 0 .. BatLen, n \in Lengths : SparseBlockData(b, n)
          \/ Flush \/ Drop \/ Open
      BY <1>4, <2>2 DEF Next, Running, PopulateBlockBitmap, ReadBlock, WriteBlock
    <3>2. call'.op # "read"
      BY <3>1 DEF SparseBlockBitmap, SparseBlockData, Flush, Drop, Open, NewCall
    <3> QED
      BY <3>2 DEF InDisk
  <2> QED
    BY <2>1, <2>2
<1> QED
  BY <1>2, <1>3, <1>4

LEMMA StepOk ==
    ASSUME CallInv, OkIsIdle, [Next]_vars
    PROVE  OkIsIdle'
<1> USE DEF CallInv
<1>1. CASE Running /\ (PopulateBlockBitmap \/ ReadBlock \/ WriteBlock)
  <2>1. status = "none"
    BY <1>1 DEF Pending
  <2>2. CASE PopulateBlockBitmap
    <3>1. \/ pc' = "data" /\ status' = status
          \/ pc' = "idle"
          \/ pc' = "panicked" /\ status' = "panic"
      BY <2>2 DEF PopulateBlockBitmap, ReadBitmap, FillCache, FillFailed, Populated, Fail,
                  Return, Panic
    <3> QED
      BY <2>1, <3>1 DEF OkIsIdle
  <2>3. CASE ReadBlock
    <3>1. \/ pc' = "idle"
          \/ pc' = "populate" /\ status' = status
          \/ pc' = "panicked"
      BY <2>3, ReadBlockEnds
    <3>2. pc' = "panicked" => status' # "ok"
      <4>1. ImageOK /\ CallOK
        BY DEF Inv, TypeOK
      <4>2. ASSUME pc' = "panicked" PROVE ~\E bytes, short : Deliver(bytes, short)
        BY <4>2 DEF Deliver, Return
      <4>3. pc = "data" /\ call.op \in {"read", "data"} /\ InCurrentFile(CallBlock)
        BY <2>3 DEF ReadBlock, InCurrentFile
      <4>4. CASE Debug /\ cachedIndex # CallBlock
        BY <2>3, <4>3, <4>4 DEF ReadBlock, Panic
      <4>5. CASE ~(Debug /\ cachedIndex # CallBlock)
        <5>1. PICK len \in 0 .. ToRead :
                 IF ~Bit(FirstBit) THEN Deliver(Zeroes(len), FALSE)
                 ELSE IF Used(CallBlock) THEN ReadFromFile(len)
                 ELSE Fail("UnexpectedBlockId") /\ UNCHANGED call
          BY <2>3, <4>3, <4>5 DEF ReadBlock
        <5> QED
          BY <4>2, <4>3, <5>1 DEF ReadFromFile, FileRead, Fail, Return
      <4> QED
        BY <4>4, <4>5
    <3> QED
      BY <2>1, <3>1, <3>2 DEF OkIsIdle
  <2>4. CASE WriteBlock
    BY <2>4, WriteBlockOutcome DEF Inv, OkIsIdle
  <2> QED
    BY <1>1, <2>2, <2>3, <2>4
<1>2. CASE UNCHANGED vars
  BY <1>2 DEF vars, callVars, OkIsIdle
<1>3. ASSUME NEW op, NEW o, NEW n, Begin(op, o, n) PROVE OkIsIdle'
  BY <1>3 DEF Begin, Panic, Return, OkIsIdle
<1>4. CASE \/ \E b \in 0 .. BatLen : SparseBlockBitmap(b)
           \/ \E b \in 0 .. BatLen, n \in Lengths : SparseBlockData(b, n)
           \/ Flush \/ Drop \/ Open
  BY <1>4 DEF SparseBlockBitmap, SparseBlockData, Flush, Drop, Open, Panic, Return, OkIsIdle
<1> QED
  BY <1>1, <1>2, <1>3, <1>4
     DEF Next, ReadAt, WriteAt, Running, PopulateBlockBitmap, ReadBlock, WriteBlock

-----------------------------------------------------------------------------
(* Every step is one of the virtual disk *)

\* What a call has returned is an answer to what it was asked.
LEMMA AnswersAreRight ==
    ASSUME Inv, NoForeignData, AlignedReadRight, DiskInv, ~Running
    PROVE  Disk!IsRight(Request, Answer.bytes) /\ Disk!Answers(Request, Answer)
<1>1. /\ call \in Calls /\ call.start \in Nat /\ call.want \in Nat /\ call.left \in Nat
      /\ Capacity \in Nat
  BY SizeAssumption DEF Inv, TypeOK, CallOK, Calls
<1>2. /\ Request.op = call.op /\ Request.at = call.start /\ Request.len = call.want
      /\ Request.exact <=> /\ kind = "Dynamic" /\ call.want < U32
                           /\ call.start % SectorSize = 0
  BY DEF Request
<1>3. Answer.result = status /\ Answer.bytes = IF call.op = "read" THEN call.out ELSE << >>
  BY DEF Answer
<1>4. CASE call.op = "read"
  <2>1. Answer.bytes = call.out /\ Len(call.out) \in Nat
    BY <1>1, <1>3, <1>4, LenProperties DEF Calls
  <2>2. Len(call.out) <= call.want
    <3>1. call.offset = call.start + Len(call.out)
          /\ call.offset + call.left = call.start + call.want
      BY <1>4 DEF Inv, TypeOK, CallOK
    <3> QED
      BY <1>1, <2>1, <3>1
  <2>3. ASSUME NEW i \in 1 .. Len(call.out)
        PROVE  \/ call.out[i] = DiskBytes[call.start + i - 1]
               \/ call.out[i] = Zero /\ ~Request.exact
    <3>1. Len(call.out) # 0 /\ i \in Nat /\ 1 <= i /\ i <= Len(call.out)
      BY <2>1
    <3>2. call.start + call.want <= Capacity
      <4>1. call.out # << >>
        BY <3>1
      <4> QED
        BY <1>4, <4>1 DEF DiskInv, InDisk
    <3>3. call.start + i - 1 \in 0 .. Capacity - 1
      BY <1>1, <2>1, <2>2, <3>1, <3>2
    <3>4. DiskBytes[call.start + i - 1] = Content(call.start + i - 1)
      BY <3>3 DEF DiskBytes
    <3>5. call.out[i] = Zero \/ IsContent(i)
      BY <1>4 DEF NoForeignData, Delivered
    <3>6. Request.exact => IsContent(i)
      BY <1>2, <1>4 DEF AlignedReadRight, Delivered
    <3> QED
      BY <3>4, <3>5, <3>6 DEF IsContent
  <2>4. Disk!IsRight(Request, Answer.bytes)
    BY <1>2, <2>1, <2>2, <2>3 DEF Disk!IsRight
  <2>5. Request.exact /\ status = "ok" => Len(call.out) = call.want
    BY <1>2, <1>4 DEF AlignedReadRight, Done, DiskInv, OkIsIdle
  <2> QED
    BY <1>2, <1>3, <1>4, <2>1, <2>4, <2>5 DEF Disk!Answers
<1>5. CASE call.op # "read"
  <2>1. Answer.bytes = << >> /\ Len(Answer.bytes) = 0
    BY <1>3, <1>5
  <2>2. Disk!IsRight(Request, Answer.bytes)
    BY <1>1, <1>2, <2>1 DEF Disk!IsRight
  <2>3. call.op = "write" /\ status = "ok" => call.want = 0
    BY DEF Inv, WritesNeverLand
  <2> QED
    BY <1>2, <1>3, <1>5, <2>2, <2>3 DEF Disk!Answers
<1> QED
  BY <1>4, <1>5

\* The same of the state a step leads to.
AnswersRight == ~Running => Disk!IsRight(Request, Answer.bytes) /\ Disk!Answers(Request, Answer)

\* While a call runs it has answered nothing.
LEMMA NoAnswerYet == Running => Answer = [result |-> "none", bytes |-> << >>]
BY DEF Answer

LEMMA StepIsDisk ==
    ASSUME Inv, AnswersRight', [Next]_vars
    PROVE  [Disk!Next]_<<DiskBytes, Request, Running, Answer>>
<1>1. DiskBytes' = DiskBytes
  BY SameDisk
<1>2. CASE Running /\ Running'
  <2>1. Answer' = Answer
    BY <1>2, NoAnswerYet DEF Answer
  <2>2. Request' = Request
    BY <1>2, SameRequest
  <2> QED
    BY <1>1, <1>2, <2>1, <2>2, Zenon
<1>3. CASE Running /\ ~Running'
  <2>1. Request' = Request
    BY <1>3, SameRequest
  <2>2. Disk!IsRight(Request', Answer'.bytes) /\ Disk!Answers(Request', Answer')
    BY <1>1, <1>3 DEF AnswersRight, Disk!IsRight, Disk!Answers
  <2>3. Disk!Answer
    BY <1>1, <1>3, <2>1, <2>2, Zenon DEF Disk!Answer
  <2> QED
    BY <2>3 DEF Disk!Next
<1>4. CASE ~Running
  <2>1. ~Running' => Disk!IsRight(Request', Answer'.bytes) /\ Disk!Answers(Request', Answer')
    BY <1>1 DEF AnswersRight, Disk!IsRight, Disk!Answers
  <2>2. CASE Request' # Request \/ Running' \/ Answer' # Answer
    <3>1. Disk!Ask
      BY <1>1, <1>4, <2>1, <2>2, Zenon DEF Disk!Ask
    <3> QED
      BY <3>1 DEF Disk!Next
  <2>3. CASE ~(Request' # Request \/ Running' \/ Answer' # Answer)
    <3>1. Request' = Request /\ Answer' = Answer /\ ~Running'
      BY <2>3
    <3>2. Running' = Running
      BY <1>4, <3>1 DEF Running
    <3> QED
      BY <1>1, <3>1, <3>2
  <2> QED
    BY <2>2, <2>3
<1> QED
  BY <1>2, <1>3, <1>4

\* A sparse image is a virtual disk: its bytes never change, not when it is reopened
\* either, it answers one request at a time, and what a read delivers is the disk's
\* bytes, or zeroes where it does not start on a sector boundary (image.rs, sparse.rs).
\* Where bitmaps are read whole or not at all, blocks do not overlap, and no buffer is
\* larger than memory can be.
THEOREM ImplementsVirtualDiskAlways ==
    ASSUME WholeBitmaps, SlotsApart, BuffersFit
    PROVE  Spec => ImplementsVirtualDisk
<1>1. Init => DiskInv /\ Disk!Init
  BY DEF Init, NewCall, DiskInv, InDisk, OkIsIdle, Running, Disk!Init
<1>2. CallInv /\ DiskInv /\ [Next]_vars => DiskInv'
  BY StepInDisk, StepOk DEF DiskInv
<1>3. CallInv /\ NoForeignData /\ AlignedReadRight /\ DiskInv => Inv /\ AnswersRight
  BY AnswersAreRight DEF CallInv, AnswersRight
<1>4. Inv /\ AnswersRight' /\ [Next]_vars => [Disk!Next]_<<DiskBytes, Request, Running, Answer>>
  BY StepIsDisk
<1>5. Spec => []CallInv
  BY CallInvariance
<1>6. Spec => []NoForeignData
  BY NoForeignDataAlways
<1>7. Spec => []AlignedReadRight
  BY AlignedReadRightAlways
<1> QED
  BY <1>1, <1>2, <1>3, <1>4, <1>5, <1>6, <1>7, PTL DEF Spec, ImplementsVirtualDisk, Disk!Spec
=============================================================================
