-------------------------- MODULE SparseExtentProofs --------------------------
(***************************************************************************)
(* Proofs about SparseExtent, for every size of sector, block and disk.    *)
(***************************************************************************)
EXTENDS SparseExtentProps, VhdMathProofs, SequenceTheorems

-----------------------------------------------------------------------------
(* Sizes *)

LEMMA Sizes ==
    /\ BlockSize \in Nat \ {0}
    /\ MaxBatSize \in Nat
    /\ BatLen \in Nat /\ MaxBatSize <= BatLen
    /\ BitmapSize \in Nat
    /\ \A type \in Kinds : CreatedEnd(type) \in Nat
<1>1. BlockSize \in Nat \ {0}
  BY SizeAssumption, Z3 DEF SizeAssumption, BlockSize
<1>2. MaxBatSize \in Nat
  BY <1>1, SizeAssumption, CeilNat DEF SizeAssumption, MaxBatSize
<1>3. BatLen \in Nat /\ MaxBatSize <= BatLen
  BY <1>2, SizeAssumption, RoundUpNat, RoundUpBounds DEF SizeAssumption, BatLen
<1>4. BitmapSize \in Nat
  <2>1. SectorSize * 8 \in Nat \ {0}
    BY SizeAssumption DEF SizeAssumption
  <2>2. Ceil(BlockSize, SectorSize * 8) \in Nat
    BY <1>1, <2>1, CeilNat
  <2> QED
    BY <2>2, SizeAssumption, RoundUpNat DEF SizeAssumption, BitmapSize
<1>5. ASSUME NEW type \in Kinds PROVE CreatedEnd(type) \in Nat
  <2>1. Ceil(MaxBatSize, EntriesPerSector) \in Nat
    BY <1>2, SizeAssumption, CeilNat DEF SizeAssumption
  <2>2. (3 + Ceil(MaxBatSize, EntriesPerSector) + (IF type = "Diff" THEN 2 ELSE 0)) \in Nat
    BY <2>1
  <2> QED
    BY <2>2, SizeAssumption, MulNat DEF SizeAssumption, CreatedEnd
<1> QED
  BY <1>1, <1>2, <1>3, <1>4, <1>5

\* Where a call is: the block, and the place in the block and in the sector.
LEMMA Places ==
    ASSUME CallOK
    PROVE  /\ CallBlock \in Nat
           /\ InBlock \in 0 .. BlockSize - 1
           /\ call.offset = BlockSize * CallBlock + InBlock
           /\ FirstBit \in Nat
           /\ InSector \in 0 .. SectorSize - 1
           /\ InBlock = SectorSize * FirstBit + InSector
<1> DEFINE o == call.offset
           x == o % BlockSize
<1>1. o \in Nat
  BY DEF CallOK, Calls
<1> HIDE DEF o
<1>2. o \div BlockSize \in Nat /\ x \in 0 .. BlockSize - 1
      /\ o = BlockSize * (o \div BlockSize) + x
  BY <1>1, Sizes, DivMod
<1>3. x \in Nat
  BY <1>2, Sizes
<1> HIDE DEF x
<1>4. /\ x \div SectorSize \in Nat /\ x % SectorSize \in 0 .. SectorSize - 1
      /\ x = SectorSize * (x \div SectorSize) + (x % SectorSize)
  BY <1>3, SizeAssumption, DivMod DEF SizeAssumption
<1> QED
  BY <1>2, <1>4 DEF o, x, CallBlock, InBlock, FirstBit, InSector

\* One iteration of read_block asks for no more than the buffer has room for,
\* and stays in its block.
LEMMA ToReadBounds ==
    ASSUME CallOK
    PROVE  /\ ToRead \in Nat
           /\ ToRead <= call.left
           /\ ToRead + InBlock <= BlockSize
<1> DEFINE n == call.left
<1>1. n \in Nat
  BY DEF CallOK, Calls
<1>2. U32 \in Nat \ {0}
  BY WidthAssumption, Sizes DEF WidthAssumption
<1> HIDE DEF n
<1>3. n % U32 \in Nat /\ n % U32 <= n
  BY <1>1, <1>2, DivMod
<1>4. InBlock \in 0 .. BlockSize - 1 /\ BlockSize \in Nat
  BY Places, Sizes
<1>5. ToRead = MinOf(n % U32, BlockSize - InBlock)
  BY DEF ToRead, n
<1> QED
  BY <1>1, <1>3, <1>4, <1>5 DEF MinOf, n

-----------------------------------------------------------------------------
(* What one iteration of a read delivers *)

\* A byte is "own" when it is the disk's byte at its offset, or zero.
Own(bytes) == \A i \in 1 .. Len(bytes) :
                 bytes[i] = Zero \/ bytes[i] = Content(call.offset + i - 1)

LEMMA MadeSeq ==
    ASSUME NEW n \in Nat, NEW f \in [1 .. n -> Int]
    PROVE  f \in Seq(Int) /\ Len(f) = n
OBVIOUS

LEMMA ZeroesOwn ==
    ASSUME NEW n \in Nat
    PROVE  Zeroes(n) \in Seq(Int) /\ Len(Zeroes(n)) = n /\ Own(Zeroes(n))
<1>1. Zeroes(n) \in [1 .. n -> Int] /\ \A i \in 1 .. n : Zeroes(n)[i] = Zero
  BY DEF Zeroes, Zero
<1>2. Zeroes(n) \in Seq(Int) /\ Len(Zeroes(n)) = n
  BY <1>1, MadeSeq
<1> QED
  BY <1>1, <1>2 DEF Own

\* The positions of a block's bytes: calc_sector_pos and the offset in the
\* sector lead to the byte of the block the call is at.
LEMMA PositionOfByte ==
    ASSUME CallOK, NEW base \in Nat, bat[CallBlock] = base
    PROVE  SectorPos(CallBlock, FirstBit) + InSector = DataPos(CallBlock, InBlock)
<1>1. /\ FirstBit \in Nat /\ InSector \in Nat /\ SectorSize \in Nat
      /\ InBlock = SectorSize * FirstBit + InSector
  BY Places, SizeAssumption DEF SizeAssumption
<1>2. (base + FirstBit) * SectorSize = base * SectorSize + SectorSize * FirstBit
  BY <1>1, MulDistributes, MulCommutes
<1>3. base * SectorSize \in Nat /\ SectorSize * FirstBit \in Nat /\ BitmapSize \in Nat
  BY <1>1, MulNat, Sizes
<1> QED
  BY <1>1, <1>2, <1>3 DEF SectorPos, DataPos

\* The byte at place x of the block the call is at, as the file holds it.
LEMMA ByteOwn ==
    ASSUME ImageOK, CallOK, Used(CallBlock),
           NEW x \in Nat, InBlock <= x, x < BlockSize
    PROVE  LET byte == FileByte(DataPos(CallBlock, x))
           IN  /\ byte \in Int
               /\ byte = Zero \/ byte = Content(call.offset + (x - InBlock))
<1> DEFINE b == CallBlock
           v == call.offset + (x - InBlock)
           s == x \div SectorSize
           r == x % SectorSize
<1>1. /\ SectorSize \in Nat \ {0} /\ SectorsPerBlock \in Nat
      /\ BlockSize \in Nat \ {0} /\ BitmapSize \in Nat
  BY Sizes, SizeAssumption DEF SizeAssumption
<1>2. bat[b] \in Nat
  BY DEF Used, ImageOK
<1>3. bat[b] * SectorSize \in Nat /\ DataPos(b, x) \in Int
  BY <1>1, <1>2, MulNat DEF DataPos
<1>4. v \div BlockSize = b /\ v % BlockSize = x
  <2>1. b \in Nat /\ InBlock \in Nat /\ call.offset = BlockSize * b + InBlock
    BY Places, Sizes
  <2>2. BlockSize * b \in Nat
    BY <1>1, <2>1, MulNat
  <2>3. v = BlockSize * b + x /\ v \in Nat
    BY <2>1, <2>2
  <2> HIDE DEF v, b
  <2> QED
    BY <2>1, <2>3, <1>1, DivModUnique
<1>5. s \in Nat /\ r \in 0 .. SectorSize - 1 /\ x = SectorSize * s + r
  BY <1>1, DivMod
<1>6. s \in Sectors
  <2> HIDE DEF s, r
  <2>1. SectorSize * s = s * SectorSize /\ s * SectorSize \in Nat
    BY <1>1, <1>5, MulCommutes, MulNat
  <2>2. s * SectorSize < SectorsPerBlock * SectorSize
    BY <1>5, <2>1, <1>1 DEF BlockSize
  <2>3. s < SectorsPerBlock
    BY <2>2, <1>1, <1>5, MulLess
  <2> QED
    BY <2>3, <1>5, <1>1 DEF Sectors
<1>7. CASE s \in bits[b]
  <2>1. Content(v) = DataPos(b, x)
    BY <1>4, <1>7 DEF Content
  <2>2. FileByte(DataPos(b, x)) \in {Zero, DataPos(b, x)}
    BY DEF FileByte
  <2> QED
    BY <2>1, <2>2, <1>3 DEF Zero
<1>8. CASE s \notin bits[b]
  <2>1. DataPos(b, x) - DataPos(b, s * SectorSize) \in 0 .. SectorSize - 1
    <3> HIDE DEF s, r, b
    <3>1. s * SectorSize = SectorSize * s /\ s * SectorSize \in Nat
      BY <1>1, <1>5, MulCommutes, MulNat
    <3> QED
      BY <3>1, <1>1, <1>3, <1>5 DEF DataPos
  <2>2. FileByte(DataPos(b, x)) = Zero
    BY <2>1, <1>6, <1>8 DEF FileByte, Used
  <2> QED
    BY <2>2 DEF Zero
<1> QED
  BY <1>7, <1>8

LEMMA FileBytesOwn ==
    ASSUME ImageOK, CallOK, Used(CallBlock), NEW len \in Nat, len <= ToRead
    PROVE  LET pos   == SectorPos(CallBlock, FirstBit) + InSector
               bytes == [i \in 1 .. len |-> FileByte(pos + i - 1)]
           IN  bytes \in Seq(Int) /\ Len(bytes) = len /\ Own(bytes)
<1> DEFINE pos   == SectorPos(CallBlock, FirstBit) + InSector
           bytes == [i \in 1 .. len |-> FileByte(pos + i - 1)]
<1>1. bat[CallBlock] \in Nat
  BY DEF Used, ImageOK
<1>2. pos = DataPos(CallBlock, InBlock)
  BY <1>1, PositionOfByte
<1>3. ASSUME NEW i \in 1 .. len
      PROVE  /\ bytes[i] \in Int
             /\ bytes[i] = Zero \/ bytes[i] = Content(call.offset + i - 1)
  <2> DEFINE x == InBlock + (i - 1)
  <2>1. /\ InBlock \in Nat /\ BlockSize \in Nat /\ ToRead \in Nat
        /\ ToRead + InBlock <= BlockSize /\ call.offset \in Nat
    BY Places, Sizes, ToReadBounds DEF CallOK, Calls
  <2>2. x \in Nat /\ InBlock <= x /\ x < BlockSize /\ x - InBlock = i - 1
    BY <2>1
  <2>3. pos + i - 1 = DataPos(CallBlock, x)
    <3>1. bat[CallBlock] * SectorSize \in Nat /\ BitmapSize \in Nat
      BY <1>1, MulNat, Sizes, SizeAssumption DEF SizeAssumption
    <3> QED
      BY <1>2, <2>1, <3>1 DEF DataPos
  <2>4. call.offset + (x - InBlock) = call.offset + i - 1
    BY <2>1, <2>2
  <2>5. bytes[i] = FileByte(DataPos(CallBlock, x))
    BY <2>3
  <2> HIDE DEF x, bytes, pos
  <2> QED
    BY <2>2, <2>4, <2>5, ByteOwn
<1>4. bytes \in [1 .. len -> Int]
  BY <1>3
<1>5. bytes \in Seq(Int) /\ Len(bytes) = len
  BY <1>4, MadeSeq
<1> QED
  BY <1>3, <1>5 DEF Own


\* However a step of read_block goes, it delivers bytes of its own, no more than
\* were asked for, or it ends the call.
LEMMA ReadBlockOutcome ==
    ASSUME ImageOK, CallOK, ReadBlock
    PROVE  \/ \E bytes \in Seq(Int), short \in BOOLEAN :
                 Len(bytes) <= ToRead /\ Own(bytes) /\ Deliver(bytes, short)
           \/ call' = call /\ pc' \in {"idle", "panicked"} /\ status' \in Results
<1> DEFINE Delivers == \E bytes \in Seq(Int), short \in BOOLEAN :
                          Len(bytes) <= ToRead /\ Own(bytes) /\ Deliver(bytes, short)
           Ends == call' = call /\ pc' \in {"idle", "panicked"} /\ status' \in Results
<1>1. ASSUME NEW st \in Results, Fail(st) /\ UNCHANGED call PROVE Ends
  BY <1>1 DEF Fail, Panic, Return, Results
<1>2. ASSUME NEW len \in Nat, len <= ToRead, Deliver(Zeroes(len), FALSE)
      PROVE  Delivers
  BY <1>2, ZeroesOwn
<1>3. ASSUME NEW len \in Nat, len <= ToRead, Used(CallBlock), NEW short \in BOOLEAN,
             FileRead(SectorPos(CallBlock, FirstBit) + InSector, len, short)
      PROVE  Delivers
  BY <1>3, FileBytesOwn DEF FileRead
<1>4. ToRead \in Nat
  BY ToReadBounds
<1>5. CASE ~InCurrentFile(CallBlock)
  BY <1>5 DEF InCurrentFile
<1>6. CASE InCurrentFile(CallBlock) /\ Debug /\ cachedIndex # CallBlock
  BY <1>6 DEF ReadBlock, Panic, Results
<1>7. CASE InCurrentFile(CallBlock) /\ ~(Debug /\ cachedIndex # CallBlock)
  <2>1. PICK len \in 0 .. ToRead :
           IF ~Bit(FirstBit) THEN Deliver(Zeroes(len), FALSE)
           ELSE IF Used(CallBlock) THEN ReadFromFile(len)
           ELSE Fail("UnexpectedBlockId") /\ UNCHANGED call
    BY <1>7 DEF ReadBlock
  <2>2. len \in Nat /\ len <= ToRead
    BY <1>4
  <2>3. CASE ~Bit(FirstBit)
    BY <2>1, <2>2, <2>3, <1>2
  <2>4. CASE Bit(FirstBit) /\ ~Used(CallBlock)
    BY <2>1, <2>4, <1>1 DEF Results
  <2>5. CASE Bit(FirstBit) /\ Used(CallBlock)
    <3>1. ReadFromFile(len)
      BY <2>1, <2>5
    <3>2. CASE FileRead(SectorPos(CallBlock, FirstBit) + InSector, len, FALSE)
      BY <3>2, <2>2, <2>5, <1>3
    <3>3. CASE \E m \in 1 .. len - 1 :
                  FileRead(SectorPos(CallBlock, FirstBit) + InSector, m, TRUE)
      <4>1. PICK m \in 1 .. len - 1 :
               FileRead(SectorPos(CallBlock, FirstBit) + InSector, m, TRUE)
        BY <3>3
      <4>2. m \in Nat /\ m <= ToRead
        BY <2>2, <1>4
      <4> QED
        BY <4>1, <4>2, <2>5, <1>3
    <3>4. CASE Fail("Io") /\ UNCHANGED call
      BY <3>4, <1>1 DEF Results
    <3> QED
      BY <3>1, <3>2, <3>3, <3>4 DEF ReadFromFile
  <2> QED
    BY <2>3, <2>4, <2>5
<1> QED
  BY <1>5, <1>6, <1>7

LEMMA DeliverCallOK ==
    ASSUME CallOK, pc = "data", call.op \in {"read", "data"},
           NEW bytes \in Seq(Int), NEW short \in BOOLEAN, Len(bytes) <= ToRead,
           Deliver(bytes, short)
    PROVE  CallOK'
<1> DEFINE n == Len(bytes)
<1>1. n \in Nat /\ n <= call.left
  BY ToReadBounds DEF CallOK, Calls
<1>2. call.out \o bytes \in Seq(Int) /\ Len(call.out \o bytes) = Len(call.out) + n
  BY ConcatProperties DEF CallOK, Calls
<1>3. call' = [op |-> call.op, start |-> call.start, want |-> call.want,
               offset |-> call.offset + n, left |-> call.left - n,
               out |-> call.out \o bytes, short |-> call.short \/ short]
  BY DEF Deliver, CallOK, Calls
<1>4. call.offset + n \in Nat /\ call.left - n \in Nat /\ (call.short \/ short) \in BOOLEAN
  BY <1>1 DEF CallOK, Calls
<1>5. call' \in Calls
  BY <1>2, <1>3, <1>4 DEF CallOK, Calls
<1>6. pc' \in {"idle", "populate"} /\ status' \in Results
  BY DEF Deliver, Return, CallOK, Results
<1>7. call'.op = "read" => /\ call'.offset = call'.start + Len(call'.out)
                           /\ call'.offset + call'.left = call'.start + call'.want
  BY <1>1, <1>2, <1>3 DEF CallOK, Calls
<1>8. call'.op # "write"
  BY <1>3
<1> QED
  BY <1>5, <1>6, <1>7, <1>8 DEF CallOK

-----------------------------------------------------------------------------
(* Type correctness *)

LEMMA NewCallOK ==
    ASSUME NEW op \in {"open", "read", "write", "bitmap", "data", "flush", "drop"},
           NEW o \in Nat, NEW n \in Nat, call' = NewCall(op, o, n),
           pc' \in {"idle", "populate", "panicked", "dropped"}, status' \in Results
    PROVE  CallOK'
<1>1. NewCall(op, o, n) = [op |-> op, start |-> o, want |-> n, offset |-> o,
                           left |-> n, out |-> << >>, short |-> FALSE]
  BY DEF NewCall
<1>2. << >> \in Seq(Int) /\ Len(<< >>) = 0
  BY EmptySeq
<1>3. call' \in Calls
  BY <1>1, <1>2 DEF Calls
<1>4. call'.offset + call'.left = call'.start + call'.want
      /\ call'.offset = call'.start + Len(call'.out)
  BY <1>1, <1>2
<1> QED
  BY <1>3, <1>4 DEF CallOK

LEMMA SameCallOK ==
    ASSUME CallOK, call' = call, status' \in Results,
           pc' \in {"idle", "data", "panicked"}
    PROVE  CallOK'
BY DEF CallOK

LEMMA BeginOK ==
    ASSUME TypeOK, NEW op \in {"read", "write"}, NEW o \in Nat, NEW n \in Nat,
           Begin(op, o, n)
    PROVE  TypeOK'
<1> DEFINE len == BoundTo(Capacity, o, n)
           want == IF len = NoLength THEN 0 ELSE len
<1>1. want \in Nat
  BY BoundToNat, WidthAssumption, SizeAssumption DEF WidthAssumption, SizeAssumption
<1>2. call' = NewCall(op, o, want)
  BY DEF Begin
<1>3. pc' \in {"idle", "populate", "panicked"} /\ status' \in Results
  BY DEF Begin, Panic, Return, BeyondEOD, Results
<1>4. CallOK'
  <2> HIDE DEF want
  <2> QED
    BY <1>1, <1>2, <1>3, NewCallOK
<1>5. UNCHANGED <<fileVars, cacheVars, allocVars, touched>>
  BY DEF Begin
<1> QED
  BY <1>4, <1>5 DEF TypeOK, ImageOK, CacheOK, fileVars, cacheVars, allocVars

LEMMA BitmapOK ==
    ASSUME TypeOK, NEW b \in Nat, SparseBlockBitmap(b)
    PROVE  TypeOK'
<1>1. b * BlockSize \in Nat
  BY Sizes, MulNat
<1>2. pc' \in {"populate", "panicked"} /\ status' \in Results
  BY DEF SparseBlockBitmap, Panic, Results
<1>3. CallOK'
  BY <1>1, <1>2, NewCallOK DEF SparseBlockBitmap
<1> QED
  BY <1>3 DEF SparseBlockBitmap, TypeOK, ImageOK, CacheOK, fileVars, cacheVars, allocVars

LEMMA DataOK ==
    ASSUME TypeOK, NEW b \in Nat, NEW n \in Nat, SparseBlockData(b, n)
    PROVE  TypeOK'
<1> DEFINE pos == IF Used(b) THEN SectorPos(b, 0) ELSE 0
<1>1. pos \in Nat
  <2>1. CASE Used(b)
    <3>1. bat[b] \in Nat
      BY <2>1 DEF TypeOK, ImageOK, Used
    <3>2. (bat[b] + 0) * SectorSize \in Nat
      BY <3>1, MulNat, SizeAssumption DEF SizeAssumption
    <3> QED
      BY <2>1, <3>2, Sizes DEF SectorPos
  <2> QED
    BY <2>1
<1>2. pc' \in {"idle", "populate"} /\ status' \in Results
  BY DEF SparseBlockData, Return, NoPosition, Results
<1>3. call' = NewCall("data", pos, n)
  BY DEF SparseBlockData
<1>4. CallOK'
  <2> HIDE DEF pos
  <2> QED
    BY <1>1, <1>2, <1>3, NewCallOK
<1> QED
  BY <1>4 DEF SparseBlockData, TypeOK, ImageOK, CacheOK, fileVars, cacheVars, allocVars

\* Filling the cache, with or without success.
LEMMA ReadBitmapOK ==
    ASSUME TypeOK, Used(CallBlock), pc = "populate", ReadBitmap(CallBlock)
    PROVE  /\ cachedBitmap' \in SUBSET Sectors
           /\ cachedIndex' \in {CallBlock, cachedIndex}
           /\ pc' \in {"idle", "data", "panicked"} /\ status' \in Results
<1>1. bits[CallBlock] \in SUBSET Sectors /\ cachedBitmap \in SUBSET Sectors
      /\ status \in Results
  BY DEF TypeOK, ImageOK, CacheOK, CallOK, Used
<1>2. ASSUME NEW B \in SUBSET Sectors, FillCache(CallBlock, B) \/ FillFailed(B)
      PROVE  /\ cachedBitmap' \in SUBSET Sectors
             /\ cachedIndex' \in {CallBlock, cachedIndex}
             /\ pc' \in {"idle", "data", "panicked"} /\ status' \in Results
  BY <1>1, <1>2 DEF FillCache, FillFailed, Populated, Fail, Return, Panic, Results
<1>3. \A k : TornBitmap(CallBlock, k) \in SUBSET Sectors
  BY DEF TornBitmap
<1>4. \A R : Reassembled(CallBlock, R) \in SUBSET Sectors
  BY DEF Reassembled
<1> QED
  BY <1>1, <1>2, <1>3, <1>4 DEF ReadBitmap

LEMMA PopulateOK ==
    ASSUME TypeOK, PopulateBlockBitmap
    PROVE  TypeOK'
<1> DEFINE b == CallBlock
<1>1. call' = call /\ pc = "populate" /\ UNCHANGED <<fileVars, allocVars>>
  BY DEF PopulateBlockBitmap
<1>2. CASE cachedIndex = b \/ (b \in DOMAIN bat /\ ~Used(b))
  <2>1. UNCHANGED <<cacheVars, touched>> /\ Populated
    BY <1>2 DEF PopulateBlockBitmap
  <2>2. pc' \in {"idle", "data"} /\ status' \in Results
    BY <2>1 DEF Populated, Return, TypeOK, CallOK, Results
  <2>3. CallOK'
    BY <1>1, <2>2, SameCallOK DEF TypeOK
  <2> QED
    BY <1>1, <2>1, <2>3 DEF TypeOK, ImageOK, CacheOK, fileVars, cacheVars, allocVars
<1>3. CASE ~(cachedIndex = b \/ (b \in DOMAIN bat /\ ~Used(b))) /\ ~Used(b)
  <2>1. UNCHANGED <<cacheVars, touched>> /\ Fail("InvalidBlockIndex")
    BY <1>3 DEF PopulateBlockBitmap
  <2>2. pc' \in {"idle", "panicked"} /\ status' \in Results
    BY <2>1 DEF Fail, Panic, Return, Results
  <2>3. CallOK'
    BY <1>1, <2>2, SameCallOK DEF TypeOK
  <2> QED
    BY <1>1, <2>1, <2>3 DEF TypeOK, ImageOK, CacheOK, fileVars, cacheVars, allocVars
<1>4. CASE cachedIndex # b /\ Used(b)
  <2>1. SaveCachedBitmap /\ ReadBitmap(b)
    BY <1>4 DEF PopulateBlockBitmap, Used
  <2>2. /\ cachedBitmap' \in SUBSET Sectors
        /\ cachedIndex' \in {b, cachedIndex}
        /\ pc' \in {"idle", "data", "panicked"} /\ status' \in Results
    BY <1>1, <1>4, <2>1, ReadBitmapOK
  <2>3. dirty' \in BOOLEAN /\ touched' \in SUBSET Nat
    <3>1. cachedIndex \in Nat \cup {INVALID_CACHE_INDEX}
      BY Sizes DEF TypeOK, ImageOK, CacheOK
    <3> QED
      BY <2>1, <3>1 DEF SaveCachedBitmap, TypeOK, ImageOK, CacheOK
  <2>4. CallOK'
    BY <1>1, <2>2, SameCallOK DEF TypeOK
  <2>5. b \in DOMAIN bat
    BY <1>4 DEF Used
  <2> QED
    BY <1>1, <2>2, <2>3, <2>4, <2>5
       DEF TypeOK, ImageOK, CacheOK, fileVars, cacheVars, allocVars
<1> QED
  BY <1>2, <1>3, <1>4

LEMMA ReadBlockOK ==
    ASSUME TypeOK, ReadBlock
    PROVE  TypeOK'
<1>1. UNCHANGED <<fileVars, cacheVars, allocVars, touched>>
  BY DEF ReadBlock
<1>2. CallOK'
  <2>1. CASE \E bytes \in Seq(Int), short \in BOOLEAN :
                Len(bytes) <= ToRead /\ Own(bytes) /\ Deliver(bytes, short)
    BY <2>1, DeliverCallOK DEF ReadBlock, TypeOK
  <2>2. CASE call' = call /\ pc' \in {"idle", "panicked"} /\ status' \in Results
    BY <2>2, SameCallOK DEF TypeOK
  <2> QED
    BY <2>1, <2>2, ReadBlockOutcome DEF TypeOK
<1> QED
  BY <1>1, <1>2 DEF TypeOK, ImageOK, CacheOK, fileVars, cacheVars, allocVars

-----------------------------------------------------------------------------
(* The inductive invariant *)

Inv == TypeOK /\ NothingToWrite /\ FooterOnlyWrites /\ WritesNeverLand

\* A write ends its call and changes nothing.
LEMMA WriteBlockOutcome ==
    ASSUME TypeOK, NothingToWrite, WriteBlock
    PROVE  /\ UNCHANGED <<fileVars, cacheVars, allocVars, touched, call>>
           /\ \/ pc' = "panicked" /\ status' = "panic"
              \/ pc' = "idle" /\ status' \in {"Io", "UnexpectedBlockId"}
<1>1. InCurrentFile(CallBlock)
  BY DEF InCurrentFile
<1>2. ~(Used(CallBlock) /\ ~WriteFails)
  BY DEF NothingToWrite, WriteFails, CanWrite, Used
<1>3. /\ IF Debug /\ Partial /\ cachedIndex # CallBlock THEN Panic
         ELSE Fail(IF Used(CallBlock) THEN "Io" ELSE "UnexpectedBlockId")
      /\ UNCHANGED <<bits, cacheVars, allocVars, touched, call>>
      /\ UNCHANGED <<kind, mode>>
  BY <1>1, <1>2 DEF WriteBlock
<1>4. call.op = "write"
  BY DEF WriteBlock
<1> QED
  BY <1>3, <1>4 DEF Panic, Fail, Return, fileVars, cacheVars, allocVars

LEMMA WriteFooterOutcome ==
    ASSUME TypeOK, NothingToWrite, FooterOnlyWrites, NEW res, WriteFooter(res),
           UNCHANGED nextBlockPos
    PROVE  /\ touched' \in SUBSET Nat
           /\ dirty' = FALSE
           /\ FooterOnlyWrites'
           /\ mode = "opened" => touched' = touched
<1>1. nextBlockPos \div SectorSize \in Nat
  BY DivMod, SizeAssumption DEF SizeAssumption, TypeOK, ImageOK
<1>2. touched \in SUBSET Nat /\ dirty = FALSE
  BY DEF TypeOK, ImageOK, NothingToWrite
<1>3. \/ touched' \subseteq touched \cup FooterSectors /\ dirty' = FALSE /\ mode = "created"
      \/ touched' = touched /\ dirty' = FALSE
  BY <1>2 DEF WriteFooter, FooterSectors, CanWrite
<1>4. FooterSectors \subseteq Nat
  BY <1>1 DEF FooterSectors
<1>5. touched \subseteq FooterSectors
  BY DEF FooterOnlyWrites, FooterSectors
<1>6. touched' \subseteq FooterSectors
  BY <1>3, <1>5
<1>7. FooterOnlyWrites'
  <2>1. FooterOnlyWrites' = (touched' \subseteq {0, nextBlockPos' \div SectorSize})
    BY DEF FooterOnlyWrites
  <2>2. nextBlockPos' = nextBlockPos
    OBVIOUS
  <2> QED
    BY <1>6, <2>1, <2>2 DEF FooterSectors
<1> QED
  BY <1>2, <1>3, <1>4, <1>6, <1>7

LEMMA InitInv == Init => Inv
<1> SUFFICES ASSUME Init PROVE Inv
  OBVIOUS
<1>1. CallOK
  <2>1. << >> \in Seq(Int) /\ Len(<< >>) = 0
    BY EmptySeq
  <2> QED
    BY <2>1 DEF Init, NewCall, CallOK, Calls, Results
<1>2. EndSector * SectorSize \in Nat
  BY MulNat, SizeAssumption DEF SizeAssumption
<1>3. CASE OpenedImage
  <2>1. Slots \subseteq Nat
    BY SizeAssumption DEF SizeAssumption
  <2>2. bat \in [0 .. BatLen - 1 -> Nat \cup {DD_BLOCK_UNUSED}]
        /\ bits \in [0 .. BatLen - 1 -> SUBSET Sectors]
    BY <1>3, <2>1 DEF OpenedImage
  <2>3. mode = "opened" /\ nextBlockPos \in Nat
    BY <1>2, <1>3 DEF OpenedImage
  <2> QED
    BY <1>1, <2>2, <2>3
       DEF Init, Inv, TypeOK, ImageOK, CacheOK, NothingToWrite, FooterOnlyWrites,
           WritesNeverLand, NewCall, Kinds, Modes
<1>4. CASE CreatedImage
  <2>1. bat \in [0 .. MaxBatSize - 1 -> Nat \cup {DD_BLOCK_UNUSED}]
        /\ bits \in [0 .. MaxBatSize - 1 -> SUBSET Sectors]
    BY <1>4 DEF CreatedImage
  <2>2. mode = "created" /\ nextBlockPos \in Nat
    BY <1>4, Sizes DEF CreatedImage, Init, Kinds
  <2>3. \A b \in DOMAIN bat : ~Used(b)
    BY <1>4 DEF CreatedImage, Used
  <2> QED
    BY <1>1, <2>1, <2>2, <2>3
       DEF Init, Inv, TypeOK, ImageOK, CacheOK, NothingToWrite, FooterOnlyWrites,
           WritesNeverLand, NewCall, Kinds, Modes
<1> QED
  BY <1>3, <1>4 DEF Init

\* What every step but Open leaves alone: the image, and what depends on it.
LEMMA StepInv == Inv /\ [Next]_vars => Inv'
<1> SUFFICES ASSUME Inv, [Next]_vars PROVE Inv'
  OBVIOUS
<1> USE DEF Inv
<1>1. ASSUME NEW op \in {"read", "write"}, NEW o \in Offsets, NEW n \in Lengths,
             Begin(op, o, n)
      PROVE  Inv'
  <2>1. o \in Nat /\ n \in Nat
    BY CallAssumption DEF CallAssumption
  <2>2. TypeOK'
    BY <1>1, <2>1, BeginOK
  <2>3. UNCHANGED <<fileVars, cacheVars, allocVars, touched>>
    BY <1>1 DEF Begin
  <2>4. WritesNeverLand'
    <3>1. call'.offset = call'.start
      BY <1>1 DEF Begin, NewCall
    <3>2. status' = "ok" => call'.want = 0
      BY <1>1 DEF Begin, NewCall, Panic, Return, BeyondEOD
    <3> QED
      BY <3>1, <3>2 DEF WritesNeverLand
  <2> QED
    BY <2>2, <2>3, <2>4
       DEF NothingToWrite, FooterOnlyWrites, Used, fileVars, cacheVars, allocVars
<1>2. ASSUME NEW b \in 0 .. BatLen, SparseBlockBitmap(b) PROVE Inv'
  <2>1. TypeOK'
    BY <1>2, BitmapOK, Sizes
  <2>2. call'.op = "bitmap" /\ UNCHANGED <<fileVars, cacheVars, allocVars, touched>>
    BY <1>2 DEF SparseBlockBitmap, NewCall
  <2> QED
    BY <2>1, <2>2 DEF NothingToWrite, FooterOnlyWrites, WritesNeverLand, Used,
                      fileVars, cacheVars, allocVars
<1>3. ASSUME NEW b \in 0 .. BatLen, NEW n \in Lengths, SparseBlockData(b, n)
      PROVE  Inv'
  <2>1. n \in Nat /\ b \in Nat
    BY CallAssumption, Sizes DEF CallAssumption
  <2>2. TypeOK'
    BY <1>3, <2>1, DataOK
  <2>3. call'.op = "data" /\ UNCHANGED <<fileVars, cacheVars, allocVars, touched>>
    BY <1>3 DEF SparseBlockData, NewCall
  <2> QED
    BY <2>2, <2>3 DEF NothingToWrite, FooterOnlyWrites, WritesNeverLand, Used,
                      fileVars, cacheVars, allocVars
<1>4. CASE PopulateBlockBitmap
  <2>1. TypeOK'
    BY <1>4, PopulateOK
  <2>2. UNCHANGED <<fileVars, allocVars, call>>
    BY <1>4 DEF PopulateBlockBitmap
  <2>3. UNCHANGED <<dirty, touched>>
    BY <1>4 DEF PopulateBlockBitmap, SaveCachedBitmap, NothingToWrite, cacheVars
  <2>4. call.op = "write" => status' # "ok" \/ status' = status
    BY <1>4 DEF PopulateBlockBitmap, ReadBitmap, FillCache, FillFailed, Populated,
                Fail, Return, Panic
  <2> QED
    BY <2>1, <2>2, <2>3, <2>4
       DEF NothingToWrite, FooterOnlyWrites, WritesNeverLand, Used, fileVars, allocVars
<1>5. CASE ReadBlock
  <2>1. TypeOK'
    BY <1>5, ReadBlockOK
  <2>2. UNCHANGED <<fileVars, cacheVars, allocVars, touched>>
    BY <1>5 DEF ReadBlock
  <2>3. call'.op # "write"
    <3>1. call.op # "write" /\ call \in Calls
      BY <1>5 DEF ReadBlock, TypeOK, CallOK
    <3>2. ASSUME NEW bytes, NEW short, Deliver(bytes, short) PROVE call'.op = call.op
      BY <3>1, <3>2 DEF Deliver, Calls
    <3> QED
      BY <1>5, <3>1, <3>2, ReadBlockOutcome DEF TypeOK
  <2> QED
    BY <2>1, <2>2, <2>3 DEF NothingToWrite, FooterOnlyWrites, WritesNeverLand, Used,
                            fileVars, cacheVars, allocVars
<1>6. CASE WriteBlock
  <2>1. /\ UNCHANGED <<fileVars, cacheVars, allocVars, touched, call>>
        /\ \/ pc' = "panicked" /\ status' = "panic"
           \/ pc' = "idle" /\ status' \in {"Io", "UnexpectedBlockId"}
    BY <1>6, WriteBlockOutcome
  <2>2. CallOK'
    BY <2>1, SameCallOK DEF TypeOK, Results
  <2> QED
    BY <2>1, <2>2
       DEF TypeOK, ImageOK, CacheOK, NothingToWrite, FooterOnlyWrites, WritesNeverLand,
           Used, fileVars, cacheVars, allocVars
<1>7. ASSUME NEW res \in {"ok", "Io"}, NEW op \in {"flush", "drop"}, WriteFooter(res),
             call' = NewCall(op, 0, 0), pc' \in {"idle", "dropped"}, status' \in Results,
             UNCHANGED <<fileVars, cachedIndex, cachedBitmap, allocVars>>
      PROVE  Inv'
  <2>1. CallOK'
    BY <1>7, NewCallOK
  <2>2. call'.op # "write"
    BY <1>7 DEF NewCall
  <2>3. touched' \in SUBSET Nat /\ dirty' = FALSE /\ FooterOnlyWrites'
    BY <1>7, WriteFooterOutcome DEF allocVars
  <2> QED
    BY <1>7, <2>1, <2>2, <2>3
       DEF TypeOK, ImageOK, CacheOK, NothingToWrite, WritesNeverLand, Used,
           fileVars, allocVars
<1>8. CASE Flush
  BY <1>7, <1>8 DEF Flush, Return, Results
<1>9. CASE Drop
  BY <1>7, <1>9 DEF Drop, Results
<1>10. CASE Open
  <2>1. CallOK'
    BY <1>10, NewCallOK DEF Open, Results
  <2>2. bat' \in [0 .. BatLen - 1 -> Nat \cup {DD_BLOCK_UNUSED}]
        /\ bits' \in [0 .. BatLen - 1 -> SUBSET Sectors]
    BY <1>10 DEF Open, TypeOK, ImageOK
  <2>3. call'.op # "write"
    BY <1>10 DEF Open, NewCall
  <2> QED
    BY <1>10, <2>1, <2>2, <2>3
       DEF Open, TypeOK, ImageOK, CacheOK, NothingToWrite, FooterOnlyWrites,
           WritesNeverLand, Modes
<1>11. CASE UNCHANGED vars
  BY <1>11 DEF vars, fileVars, cacheVars, allocVars, callVars, TypeOK, ImageOK, CacheOK,
               CallOK, NothingToWrite, FooterOnlyWrites, WritesNeverLand, Used
<1> QED
  BY <1>1, <1>2, <1>3, <1>4, <1>5, <1>6, <1>8, <1>9, <1>10, <1>11
     DEF Next, ReadAt, WriteAt

\* The state of a handle is always well formed.
THEOREM Typing == Spec => []TypeOK
<1>1. Inv => TypeOK
  BY DEF Inv
<1> QED
  BY <1>1, InitInv, StepInv, PTL DEF Spec

\* No write to a dynamic or differencing disk accepts a byte (write_block,
\* allocate_block, save_cached_bitmap), whatever the sizes, calls and faults.
THEOREM WritesNeverLandAlways == Spec => []WritesNeverLand
<1>1. Inv => WritesNeverLand
  BY DEF Inv
<1> QED
  BY <1>1, InitInv, StepInv, PTL DEF Spec

\* A handle overwrites nothing but the two copies of the footer (write_footer).
THEOREM FooterOnlyWritesAlways == Spec => []FooterOnlyWrites
<1>1. Inv => FooterOnlyWrites
  BY DEF Inv
<1> QED
  BY <1>1, InitInv, StepInv, PTL DEF Spec

-----------------------------------------------------------------------------
(* What the steps leave alone *)

\* Every step but Open keeps the image as it is; Open extends the BAT.
LEMMA ImageSteps ==
    ASSUME Inv, [Next]_vars
    PROVE  \/ UNCHANGED <<kind, bat, bits, nextBlockPos>>
           \/ Open
<1> USE DEF Inv
<1>1. CASE WriteBlock
  BY <1>1, WriteBlockOutcome DEF fileVars, allocVars
<1>2. CASE [Next]_vars /\ ~WriteBlock
  BY <1>2 DEF Next, ReadAt, WriteAt, Begin, SparseBlockBitmap, SparseBlockData,
              PopulateBlockBitmap, ReadBlock, Flush, Drop, vars, fileVars, allocVars
<1> QED
  BY <1>1, <1>2

\* Blocks never move, appear or disappear, and the footer keeps its place: the
\* BAT a handle has and the bitmaps of the file are fixed (VhdBat::set_block_id
\* is never reached; VhdBat::read pads the BAT without touching its entries).
THEOREM BlocksStayAlways == Spec => BlocksStay
<1> DEFINE Stay == /\ \A b \in DOMAIN bat : bat'[b] = bat[b] /\ bits'[b] = bits[b]
                   /\ nextBlockPos' = nextBlockPos
<1>1. Inv /\ [Next]_vars => [Stay]_vars
  <2> SUFFICES ASSUME Inv, [Next]_vars PROVE Stay
    OBVIOUS
  <2>1. CASE UNCHANGED <<kind, bat, bits, nextBlockPos>>
    BY <2>1
  <2>2. CASE Open
    <3>1. PICK n \in {MaxBatSize, BatLen} :
             /\ bat \in [0 .. n - 1 -> Nat \cup {DD_BLOCK_UNUSED}]
             /\ bits \in [0 .. n - 1 -> SUBSET Sectors]
      BY DEF Inv, TypeOK, ImageOK
    <3>2. DOMAIN bat = 0 .. n - 1 /\ DOMAIN bits = 0 .. n - 1
      BY <3>1
    <3>3. 0 .. n - 1 \subseteq 0 .. BatLen - 1
      BY Sizes
    <3> QED
      BY <2>2, <3>2, <3>3 DEF Open
  <2> QED
    BY <2>1, <2>2, ImageSteps
<1> QED
  BY <1>1, InitInv, StepInv, PTL DEF Spec, BlocksStay

-----------------------------------------------------------------------------
(* Reads never deliver the bytes of another place *)

OwnInv == Inv /\ NoForeignData

LEMMA InitOwn == Init => NoForeignData
BY DEF Init, NewCall, NoForeignData

LEMMA StepOwn == OwnInv /\ [Next]_vars => NoForeignData'
<1> SUFFICES ASSUME OwnInv, [Next]_vars PROVE NoForeignData'
  OBVIOUS
<1> USE DEF OwnInv
<1>1. CASE ReadBlock
  <2>1. UNCHANGED <<kind, bat, bits>>
    BY <1>1 DEF ReadBlock, fileVars, allocVars
  <2>2. \A v : Content(v)' = Content(v)
    BY <2>1 DEF Content, Used, DataPos
  <2>3. CASE call' = call
    BY <2>2, <2>3 DEF NoForeignData, Delivered, IsContent
  <2>4. ASSUME NEW bytes \in Seq(Int), NEW short \in BOOLEAN,
               Own(bytes), Deliver(bytes, short), call'.op = "read"
        PROVE  \A i \in Delivered' : call'.out[i] = Zero \/ IsContent(i)'
    <3>1. call \in Calls
      BY DEF Inv, TypeOK, CallOK
    <3>2. /\ call'.op = call.op /\ call'.start = call.start
          /\ call'.out = call.out \o bytes
      BY <2>4, <3>1 DEF Deliver, Calls
    <3>3. call.offset = call.start + Len(call.out) /\ call.start \in Nat
      BY <2>4, <3>1, <3>2 DEF Inv, TypeOK, CallOK, Calls
    <3>4. /\ Len(call.out) \in Nat /\ Len(bytes) \in Nat
          /\ Len(call.out \o bytes) = Len(call.out) + Len(bytes)
          /\ \A i \in 1 .. Len(call.out) + Len(bytes) :
                (call.out \o bytes)[i] = IF i <= Len(call.out) THEN call.out[i]
                                         ELSE bytes[i - Len(call.out)]
      BY <3>1, ConcatProperties, LenProperties DEF Calls
    <3>5. ASSUME NEW i \in Delivered'
          PROVE  call'.out[i] = Zero \/ IsContent(i)'
      <4>1. i \in 1 .. Len(call.out) + Len(bytes)
        BY <3>2, <3>4 DEF Delivered
      <4>2. IsContent(i)' <=> call'.out[i] = Content(call.start + i - 1)
        BY <2>2, <3>2 DEF IsContent
      <4>3. CASE i <= Len(call.out)
        <5>1. call'.out[i] = call.out[i] /\ i \in Delivered
          BY <3>2, <3>4, <4>1, <4>3 DEF Delivered
        <5>2. call.out[i] = Zero \/ IsContent(i)
          BY <2>4, <3>2, <5>1 DEF NoForeignData
        <5> QED
          BY <4>2, <5>1, <5>2 DEF IsContent
      <4>4. CASE ~(i <= Len(call.out))
        <5> DEFINE j == i - Len(call.out)
        <5>1. j \in 1 .. Len(bytes) /\ call'.out[i] = bytes[j]
          BY <3>2, <3>4, <4>1, <4>4
        <5>2. call.offset + j - 1 = call.start + i - 1
          BY <3>3, <3>4, <4>1
        <5>3. bytes[j] = Zero \/ bytes[j] = Content(call.offset + j - 1)
          BY <2>4, <5>1 DEF Own
        <5> QED
          BY <4>2, <5>1, <5>2, <5>3
      <4> QED
        BY <4>3, <4>4
    <3> QED
      BY <3>5
  <2> QED
    BY <1>1, <2>3, <2>4, ReadBlockOutcome DEF Inv, TypeOK, NoForeignData
<1>2. CASE UNCHANGED <<kind, bat, bits, call>>
  BY <1>2 DEF NoForeignData, Delivered, IsContent, Content, Used, DataPos
<1>3. ASSUME NEW op, NEW o, NEW n, call' = NewCall(op, o, n)
      PROVE  NoForeignData'
  <2>1. Delivered' = {}
    BY <1>3 DEF Delivered, NewCall
  <2> QED
    BY <2>1 DEF NoForeignData
<1>4. CASE [Next]_vars /\ ~ReadBlock
  <2>1. CASE PopulateBlockBitmap \/ WriteBlock \/ UNCHANGED vars
    BY <2>1, <1>2, WriteBlockOutcome
       DEF PopulateBlockBitmap, Inv, vars, fileVars, allocVars, callVars
  <2>2. CASE ~(PopulateBlockBitmap \/ WriteBlock \/ UNCHANGED vars)
    BY <1>4, <2>2, <1>3 DEF Next, ReadAt, WriteAt, Begin, SparseBlockBitmap,
                            SparseBlockData, Flush, Drop, Open
  <2> QED
    BY <2>1, <2>2
<1> QED
  BY <1>1, <1>4

\* Under every fault and at every alignment, a byte a read delivers is the disk's
\* byte at its offset or zero: read_block_data never reads a place of the file
\* that is not the block's, whichever bitmap is in the cache.
THEOREM NoForeignDataAlways == Spec => []NoForeignData
<1>1. Init => OwnInv
  BY InitInv, InitOwn DEF OwnInv
<1>2. OwnInv /\ [Next]_vars => OwnInv'
  BY StepInv, StepOwn DEF OwnInv
<1>3. OwnInv => NoForeignData
  BY DEF OwnInv
<1> QED
  BY <1>1, <1>2, <1>3, PTL DEF Spec

-----------------------------------------------------------------------------
(* The cache names the bitmap it holds *)

CoherentInv == Inv /\ CacheCoherent

LEMMA StepCoherent ==
    ASSUME Faults \cap {"tornBitmap", "shortRead"} = {}
    PROVE  CoherentInv /\ [Next]_vars => CacheCoherent'
<1> SUFFICES ASSUME CoherentInv, [Next]_vars PROVE CacheCoherent'
  OBVIOUS
<1> USE DEF CoherentInv
<1>1. CASE UNCHANGED <<bat, bits, cachedIndex, cachedBitmap>>
  BY <1>1 DEF CacheCoherent, Used
<1>2. CASE PopulateBlockBitmap
  <2>1. UNCHANGED <<bat, bits>>
    BY <1>2 DEF PopulateBlockBitmap, fileVars, allocVars
  <2>2. CASE UNCHANGED <<cachedIndex, cachedBitmap>>
    BY <2>1, <2>2, <1>1
  <2>3. CASE cachedIndex' = CallBlock /\ cachedBitmap' = bits[CallBlock] /\ Used(CallBlock)
    BY <2>1, <2>3 DEF CacheCoherent, Used
  <2>4. ASSUME Used(CallBlock), ReadBitmap(CallBlock)
        PROVE  \/ UNCHANGED <<cachedIndex, cachedBitmap>>
               \/ cachedIndex' = CallBlock /\ cachedBitmap' = bits[CallBlock]
    BY <2>4 DEF ReadBitmap, FillCache, FillFailed
  <2> QED
    BY <1>2, <2>2, <2>3, <2>4 DEF PopulateBlockBitmap, Used, cacheVars
<1>3. CASE Open
  BY <1>3 DEF Open, CacheCoherent
<1>4. CASE WriteBlock
  BY <1>1, <1>4, WriteBlockOutcome DEF Inv, fileVars, cacheVars, allocVars
<1>5. CASE [Next]_vars /\ ~(PopulateBlockBitmap \/ Open \/ WriteBlock)
  BY <1>5, <1>1 DEF Next, ReadAt, WriteAt, Begin, SparseBlockBitmap, SparseBlockData,
                    ReadBlock, Flush, Drop, vars, fileVars, cacheVars, allocVars
<1> QED
  BY <1>2, <1>3, <1>4, <1>5

\* As long as a bitmap is read whole or not at all, calls may fail at will: the
\* cached bitmap stays that of the block cached_block_index names.
THEOREM CacheCoherentAlways ==
    ASSUME Faults \cap {"tornBitmap", "shortRead"} = {}
    PROVE  Spec => []CacheCoherent
<1>1. Init => CoherentInv
  BY InitInv DEF Init, CoherentInv, CacheCoherent
<1>2. CoherentInv /\ [Next]_vars => CoherentInv'
  BY StepInv, StepCoherent DEF CoherentInv
<1>3. CoherentInv => CacheCoherent
  BY DEF CoherentInv
<1> QED
  BY <1>1, <1>2, <1>3, PTL DEF Spec
=============================================================================
