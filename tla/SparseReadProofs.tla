--------------------------- MODULE SparseReadProofs ---------------------------
(***************************************************************************)
(* What a read of a sparse image returns: the steps of a call agree on the *)
(* block and its bitmap, and so a read from a sector boundary delivers the *)
(* disk's own bytes, for every size of sector, block and disk.             *)
(***************************************************************************)
EXTENDS SparseExtentProofs

\* No handle that can write holds a block, and nothing makes a cached bitmap dirty
\* (sparse.rs:61-79, 245-253).
THEOREM NothingToWriteAlways == Spec => []NothingToWrite
<1>1. Inv => NothingToWrite
  BY DEF Inv
<1> QED
  BY <1>1, InitInv, StepInv, PTL DEF Spec

-----------------------------------------------------------------------------
(* The two steps of an iteration *)

\* What populate_block_bitmap leaves to the second step: a call that goes on has no
\* result yet, and an allocated block's index is in the cache.
AtData   == pc = "data" /\ Used(CallBlock) => cachedIndex = CallBlock
Pending  == Running => status = "none"
CallInv  == Inv /\ AtData /\ Pending /\ PanicOnlyInUnused

\* A request whose sum wraps is cut to one whose sum wraps.
LEMMA OverflowStays ==
    ASSUME NEW o \in Nat, NEW n \in Nat, SumOverflows(o, n)
    PROVE  LET len == BoundTo(Capacity, o, n)
           IN  SumOverflows(o, IF len = NoLength THEN 0 ELSE len)
<1> DEFINE t == (o + n) % U64
           q == (o + n) \div U64
<1>1. U64 \in Nat \ {0} /\ Capacity \in Nat /\ Capacity < U64
  BY WidthAssumption, SizeAssumption
<1>2. o + n \in Nat /\ o + n >= U64
  BY <1>1 DEF SumOverflows
<1>3. q \in Nat /\ t \in 0 .. U64 - 1 /\ o + n = U64 * q + t
  BY <1>1, <1>2, DivMod
<1> HIDE DEF q, t
<1>4. PICK x \in Nat : o + n = U64 + x + t
  <2>1. q # 0
    <3>1. CASE q = 0
      <4>1. U64 * q = 0
        BY <1>1, <3>1
      <4> QED
        BY <1>1, <1>2, <1>3, <4>1
    <3> QED
      BY <3>1
  <2>2. PICK p \in Nat : q = p + 1
    <3>1. q - 1 \in Nat /\ q = (q - 1) + 1
      BY <1>3, <2>1
    <3> QED
      BY <3>1
  <2>3. U64 * q = U64 + U64 * p /\ U64 * p \in Nat
    <3>1. (1 + p) * U64 = 1 * U64 + p * U64
      BY <1>1, <2>2, MulDistributes
    <3>2. (1 + p) * U64 = U64 * (1 + p) /\ p * U64 = U64 * p /\ p * U64 \in Nat
      BY <1>1, <2>2, MulCommutes, MulNat
    <3>3. q = 1 + p
      BY <2>2
    <3> QED
      BY <1>1, <3>1, <3>2, <3>3
  <2> QED
    BY <1>1, <1>3, <2>3
<1> QED
  BY <1>1, <1>2, <1>3, <1>4 DEF BoundTo, SumOverflows, NoLength, t

LEMMA InitCall == Init => CallInv
BY InitInv DEF Init, NewCall, CallInv, AtData, Pending, PanicOnlyInUnused, Running

\* A step of read_block goes on, returns, or panics because of the cache.
LEMMA ReadBlockEnds ==
    ASSUME ReadBlock
    PROVE  /\ UNCHANGED <<fileVars, cacheVars, allocVars, touched>>
           /\ pc' \in {"idle", "populate"} \/ (pc' = "panicked" /\ cachedIndex # CallBlock)
           /\ pc' = "panicked" => call' = call
           /\ pc' = "populate" => status' = status
<1> DEFINE Ends == /\ pc' \in {"idle", "populate"} \/ (pc' = "panicked" /\ cachedIndex # CallBlock)
                   /\ pc' = "panicked" => call' = call
                   /\ pc' = "populate" => status' = status
<1>1. pc = "data" /\ call.op \in {"read", "data"} /\ InCurrentFile(CallBlock)
  BY DEF ReadBlock, InCurrentFile
<1>2. ASSUME NEW bytes, NEW short, Deliver(bytes, short) PROVE Ends
  BY <1>2 DEF Deliver, Return
<1>3. ASSUME NEW st, Fail(st) PROVE Ends
  BY <1>1, <1>3 DEF Fail, Return
<1>4. CASE Debug /\ cachedIndex # CallBlock
  BY <1>1, <1>4 DEF ReadBlock, Panic
<1>5. CASE ~(Debug /\ cachedIndex # CallBlock)
  <2>1. PICK len \in 0 .. ToRead :
           IF ~Bit(FirstBit) THEN Deliver(Zeroes(len), FALSE)
           ELSE IF Used(CallBlock) THEN ReadFromFile(len)
           ELSE Fail("UnexpectedBlockId") /\ UNCHANGED call
    BY <1>1, <1>5 DEF ReadBlock
  <2>2. ASSUME ReadFromFile(len) PROVE Ends
    BY <1>2, <1>3, <2>2 DEF ReadFromFile, FileRead
  <2>3. Ends
    BY <1>2, <1>3, <2>1, <2>2
  <2> QED
    BY <2>3 DEF ReadBlock
<1> QED
  BY <1>4, <1>5

LEMMA StepCall == CallInv /\ [Next]_vars => CallInv'
<1> SUFFICES ASSUME CallInv, [Next]_vars PROVE AtData' /\ Pending' /\ PanicOnlyInUnused'
  BY StepInv DEF CallInv
<1> USE DEF CallInv
<1>1. ASSUME NEW op \in {"read", "write"}, NEW o \in Offsets, NEW n \in Lengths,
             Begin(op, o, n)
      PROVE  AtData' /\ Pending' /\ PanicOnlyInUnused'
  <2> DEFINE len == BoundTo(Capacity, o, n)
             want == IF len = NoLength THEN 0 ELSE len
  <2>1. o \in Nat /\ n \in Nat
    BY CallAssumption
  <2>2. call'.start = o /\ call'.want = want
    BY <1>1 DEF Begin, NewCall
  <2>3. \/ pc' = "panicked" /\ SumOverflows(o, n)
        \/ pc' = "idle"
        \/ pc' = "populate" /\ status' = "none"
    BY <1>1 DEF Begin, Panic, Return
  <2>4. SumOverflows(o, n) => SumOverflows(call'.start, call'.want)
    BY <2>1, <2>2, OverflowStays
  <2> QED
    BY <2>3, <2>4 DEF AtData, Pending, PanicOnlyInUnused, Running, SumOverflows
<1>2. ASSUME NEW b \in 0 .. BatLen, SparseBlockBitmap(b)
      PROVE  AtData' /\ Pending' /\ PanicOnlyInUnused'
  <2>1. /\ call'.op = "bitmap"
        /\ (pc' = "populate" /\ status' = "none") \/ pc' = "panicked"
    BY <1>2 DEF SparseBlockBitmap, NewCall, Panic
  <2> QED
    BY <2>1 DEF AtData, Pending, PanicOnlyInUnused, Running
<1>3. ASSUME NEW b \in 0 .. BatLen, NEW n \in Lengths, SparseBlockData(b, n)
      PROVE  AtData' /\ Pending' /\ PanicOnlyInUnused'
  <2>1. (pc' = "populate" /\ status' = "none") \/ pc' = "idle"
    BY <1>3 DEF SparseBlockData, Return
  <2> QED
    BY <2>1 DEF AtData, Pending, PanicOnlyInUnused, Running
<1>4. CASE PopulateBlockBitmap
  <2>1. call' = call /\ UNCHANGED bat /\ pc = "populate" /\ status = "none"
    BY <1>4 DEF PopulateBlockBitmap, allocVars, Pending, Running
  <2>2. \/ pc' = "data" /\ status' = status
        \/ pc' = "idle"
        \/ pc' = "panicked" /\ call.op = "bitmap"
    BY <1>4 DEF PopulateBlockBitmap, ReadBitmap, FillCache, FillFailed, Populated, Fail,
                Return, Panic
  <2>3. pc' = "data" => cachedIndex' = CallBlock \/ ~Used(CallBlock)
    <3>1. CASE cachedIndex = CallBlock \/ (CallBlock \in DOMAIN bat /\ ~Used(CallBlock))
      BY <1>4, <3>1 DEF PopulateBlockBitmap, cacheVars
    <3>2. CASE cachedIndex # CallBlock /\ Used(CallBlock)
      <4>1. ReadBitmap(CallBlock)
        BY <1>4, <3>2 DEF PopulateBlockBitmap
      <4> QED
        BY <4>1 DEF ReadBitmap, FillCache, FillFailed, Fail, Return, Panic
    <3> QED
      BY <3>1, <3>2
  <2>4. CallBlock' = CallBlock /\ (Used(CallBlock)' <=> Used(CallBlock))
    BY <2>1 DEF CallBlock, Used
  <2> QED
    BY <2>1, <2>2, <2>3, <2>4 DEF AtData, Pending, PanicOnlyInUnused, Running
<1>5. CASE ReadBlock
  <2>1. UNCHANGED <<bat, cachedIndex>>
    BY <1>5, ReadBlockEnds DEF allocVars, cacheVars
  <2>2. pc = "data" /\ status = "none"
    BY <1>5 DEF ReadBlock, Pending, Running
  <2>3. CASE pc' = "panicked"
    <3>1. ~Used(CallBlock) /\ call' = call
      BY <1>5, <2>2, <2>3, ReadBlockEnds DEF AtData
    <3>2. ~Used(CallBlock)'
      BY <2>1, <3>1 DEF CallBlock, Used
    <3> QED
      BY <2>3, <3>2 DEF AtData, Pending, PanicOnlyInUnused, Running
  <2>4. CASE pc' \in {"idle", "populate"}
    BY <1>5, <2>2, <2>4, ReadBlockEnds DEF AtData, Pending, PanicOnlyInUnused, Running
  <2> QED
    BY <1>5, <2>3, <2>4, ReadBlockEnds
<1>6. CASE WriteBlock
  <2>1. UNCHANGED <<bat, call>> /\ pc' \in {"idle", "panicked"}
    BY <1>6, WriteBlockOutcome DEF Inv, allocVars
  <2>2. pc' = "panicked" => cachedIndex # CallBlock
    <3>1. InCurrentFile(CallBlock) /\ ~(Used(CallBlock) /\ ~WriteFails) /\ call.op = "write"
      BY <1>6 DEF InCurrentFile, Inv, NothingToWrite, WriteFails, CanWrite, Used, WriteBlock
    <3> QED
      BY <1>6, <3>1 DEF WriteBlock, Fail, Return
  <2>3. pc' = "panicked" => ~Used(CallBlock)'
    BY <1>6, <2>1, <2>2 DEF AtData, WriteBlock, CallBlock, Used
  <2> QED
    BY <2>1, <2>3 DEF AtData, Pending, PanicOnlyInUnused, Running
<1>7. CASE Flush \/ Drop \/ Open
  <2>1. pc' \in {"idle", "dropped"}
    BY <1>7 DEF Flush, Drop, Open, Return
  <2> QED
    BY <2>1 DEF AtData, Pending, PanicOnlyInUnused, Running
<1>8. CASE UNCHANGED vars
  BY <1>8 DEF vars, fileVars, cacheVars, allocVars, callVars, AtData, Pending,
              PanicOnlyInUnused, Running, CallBlock, Used
<1> QED
  BY <1>1, <1>2, <1>3, <1>4, <1>5, <1>6, <1>7, <1>8 DEF Next, ReadAt, WriteAt

LEMMA CallInvariance == Spec => []CallInv
BY InitCall, StepCall, PTL DEF Spec

\* In a debug build the assertion of check_sector_mask stops reads and partial writes
\* only in a block without storage, whatever failed before (sparse.rs:273).
THEOREM PanicOnlyInUnusedAlways == Spec => []PanicOnlyInUnused
<1>1. CallInv => PanicOnlyInUnused
  BY DEF CallInv
<1> QED
  BY <1>1, CallInvariance, PTL

-----------------------------------------------------------------------------
(* Reads of blocks without storage *)

WholeBitmaps == Faults \cap {"tornBitmap", "shortRead"} = {}

EmptyCache == cachedIndex = INVALID_CACHE_INDEX => cachedBitmap = {}
UnusedInv  == CallInv /\ CacheCoherent /\ EmptyCache /\ UnusedReadFailsOnlyWhenStale

LEMMA StepEmpty ==
    ASSUME WholeBitmaps
    PROVE  UnusedInv /\ [Next]_vars => EmptyCache'
<1> SUFFICES ASSUME UnusedInv, [Next]_vars PROVE EmptyCache'
  OBVIOUS
<1> USE DEF UnusedInv
<1>1. CASE UNCHANGED <<cachedIndex, cachedBitmap>>
  BY <1>1 DEF EmptyCache
<1>2. CASE PopulateBlockBitmap
  <2>1. CASE UNCHANGED cacheVars
    BY <1>1, <2>1 DEF cacheVars
  <2>2. CASE ReadBitmap(CallBlock)
    <3>1. CallBlock \in Nat
      BY Places DEF CallInv, Inv, TypeOK
    <3>2. cachedIndex' = CallBlock \/ UNCHANGED <<cachedIndex, cachedBitmap>>
      BY <2>2 DEF ReadBitmap, FillCache, FillFailed, WholeBitmaps
    <3> QED
      BY <1>1, <3>1, <3>2 DEF EmptyCache, INVALID_CACHE_INDEX
  <2> QED
    BY <1>2, <2>1, <2>2 DEF PopulateBlockBitmap
<1>3. CASE Open
  BY <1>3 DEF Open, EmptyCache
<1>4. CASE WriteBlock
  BY <1>1, <1>4, WriteBlockOutcome DEF CallInv, Inv, cacheVars
<1>5. CASE [Next]_vars /\ ~(PopulateBlockBitmap \/ Open \/ WriteBlock)
  BY <1>5, <1>1 DEF Next, ReadAt, WriteAt, Begin, SparseBlockBitmap, SparseBlockData,
                    ReadBlock, Flush, Drop, vars, cacheVars
<1> QED
  BY <1>2, <1>3, <1>4, <1>5

\* Only a set bit of a stale bitmap makes a step of read_block return
\* UnexpectedBlockId.
LEMMA ReadBlockFails ==
    ASSUME ReadBlock, status = "none", status' = "UnexpectedBlockId"
    PROVE  call' = call /\ ~Used(CallBlock) /\ cachedBitmap # {}
<1>1. pc = "data" /\ InCurrentFile(CallBlock)
  BY DEF ReadBlock, InCurrentFile
<1>2. ~(Debug /\ cachedIndex # CallBlock)
  BY <1>1 DEF ReadBlock, Panic
<1>3. PICK len \in 0 .. ToRead :
         IF ~Bit(FirstBit) THEN Deliver(Zeroes(len), FALSE)
         ELSE IF Used(CallBlock) THEN ReadFromFile(len)
         ELSE Fail("UnexpectedBlockId") /\ UNCHANGED call
  BY <1>1, <1>2 DEF ReadBlock
<1>4. ASSUME NEW bytes, NEW short PROVE ~Deliver(bytes, short)
  BY DEF Deliver, Return
<1>5. ~ReadFromFile(len)
  BY <1>4 DEF ReadFromFile, FileRead, Fail, Return, Panic
<1> QED
  BY <1>3, <1>4, <1>5 DEF Bit

LEMMA StepUnused ==
    ASSUME WholeBitmaps
    PROVE  UnusedInv /\ [Next]_vars => UnusedReadFailsOnlyWhenStale'
<1> SUFFICES ASSUME UnusedInv, [Next]_vars, call'.op = "read", status' = "UnexpectedBlockId"
             PROVE  /\ ~Used(CallBlock)'
                    /\ cachedIndex' \notin {INVALID_CACHE_INDEX, CallBlock'}
  BY DEF UnusedReadFailsOnlyWhenStale
<1> USE DEF UnusedInv, CallInv
<1>1. CASE ReadBlock
  <2>1. call' = call /\ ~Used(CallBlock) /\ cachedBitmap # {}
    BY <1>1, ReadBlockFails DEF Pending, Running, ReadBlock
  <2>2. cachedIndex # INVALID_CACHE_INDEX /\ cachedIndex # CallBlock
    BY <2>1 DEF EmptyCache, CacheCoherent
  <2> QED
    BY <1>1, <2>1, <2>2, ReadBlockEnds DEF cacheVars, allocVars, CallBlock, Used
<1>2. CASE PopulateBlockBitmap
  <2>1. status = "none"
    BY <1>2 DEF PopulateBlockBitmap, Pending, Running
  <2> QED
    BY <1>2, <2>1 DEF PopulateBlockBitmap, ReadBitmap, FillCache, FillFailed, Populated,
                      Fail, Return, Panic
<1>3. ASSUME NEW op, NEW o, NEW n, Begin(op, o, n) PROVE FALSE
  BY <1>3 DEF Begin, Panic, Return, BeyondEOD
<1>4. CASE WriteBlock
  BY <1>4, WriteBlockOutcome DEF Inv, WriteBlock
<1>5. CASE \/ \E b \in 0 .. BatLen : SparseBlockBitmap(b)
           \/ \E b \in 0 .. BatLen, n \in Lengths : SparseBlockData(b, n)
           \/ Flush \/ Drop \/ Open
  BY <1>5 DEF SparseBlockBitmap, SparseBlockData, Flush, Drop, Open, NewCall
<1>6. CASE UNCHANGED vars
  BY <1>6 DEF vars, cacheVars, allocVars, callVars, UnusedReadFailsOnlyWhenStale,
              CallBlock, Used
<1> QED
  BY <1>1, <1>2, <1>3, <1>4, <1>5, <1>6 DEF Next, ReadAt, WriteAt

LEMMA UnusedInvariance ==
    ASSUME WholeBitmaps
    PROVE  Spec => []UnusedInv
<1>1. Init => UnusedInv
  BY InitCall DEF Init, NewCall, UnusedInv, CacheCoherent, EmptyCache,
                  UnusedReadFailsOnlyWhenStale
<1>2. UnusedInv /\ [Next]_vars => UnusedInv'
  BY StepCall, StepCoherent, StepEmpty, StepUnused
     DEF UnusedInv, CallInv, CoherentInv, WholeBitmaps
<1> QED
  BY <1>1, <1>2, PTL DEF Spec

\* As long as bitmaps are read whole or not at all, a read fails with
\* UnexpectedBlockId only in a block without storage, and only because the bitmap of
\* another is cached (sparse.rs:225-243).
THEOREM UnusedReadFailsOnlyWhenStaleAlways ==
    ASSUME WholeBitmaps
    PROVE  Spec => []UnusedReadFailsOnlyWhenStale
<1>1. UnusedInv => UnusedReadFailsOnlyWhenStale
  BY DEF UnusedInv
<1> QED
  BY <1>1, UnusedInvariance, PTL

-----------------------------------------------------------------------------
(* Reads from a sector boundary *)

\* The blocks of a file do not overlap: the places where one may start leave room
\* for its bitmap and data.
SlotsApart ==
    \A s, t \in Slots : s < t => s * SectorSize + BitmapSize + BlockSize <= t * SectorSize
Apart(b, c) == bat[b] * SectorSize + BitmapSize + BlockSize <= bat[c] * SectorSize
BlocksApart ==
    \A b, c \in DOMAIN bat : Used(b) /\ Used(c) /\ b # c => Apart(b, c) \/ Apart(c, b)

LEMMA InitApart ==
    ASSUME SlotsApart, Init
    PROVE  BlocksApart
<1> SUFFICES ASSUME NEW b \in DOMAIN bat, NEW c \in DOMAIN bat, Used(b), Used(c), b # c
             PROVE  Apart(b, c) \/ Apart(c, b)
  BY DEF BlocksApart
<1>1. bat[b] \in Slots /\ bat[c] \in Slots /\ bat[b] # bat[c]
  BY DEF Init, OpenedImage, CreatedImage, Used
<1>2. bat[b] \in Nat /\ bat[c] \in Nat
  BY <1>1, SizeAssumption
<1> QED
  BY <1>1, <1>2 DEF SlotsApart, Apart

LEMMA StepApart ==
    ASSUME Inv, BlocksApart, [Next]_vars
    PROVE  BlocksApart'
<1>1. CASE UNCHANGED bat
  BY <1>1 DEF BlocksApart, Apart, Used
<1>2. CASE Open
  <2>1. ASSUME NEW b, Used(b)' PROVE Used(b) /\ bat'[b] = bat[b]
    BY <1>2, <2>1 DEF Open, Used
  <2>2. ASSUME NEW b \in DOMAIN bat', NEW c \in DOMAIN bat', Used(b)', Used(c)', b # c
        PROVE  Apart(b, c)' \/ Apart(c, b)'
    <3>1. Used(b) /\ Used(c) /\ bat'[b] = bat[b] /\ bat'[c] = bat[c]
      BY <2>1, <2>2
    <3>2. Apart(b, c) \/ Apart(c, b)
      BY <2>2, <3>1 DEF BlocksApart, Used
    <3> QED
      BY <3>1, <3>2 DEF Apart
  <2> QED
    BY <2>2 DEF BlocksApart
<1> QED
  BY <1>1, <1>2, ImageSteps

\* A byte of a sector in use is in the file at the block's place, and nothing else is.
LEMMA SetByte ==
    ASSUME ImageOK, BlocksApart, NEW b, Used(b), NEW x \in Nat, x < BlockSize,
           x \div SectorSize \in bits[b]
    PROVE  FileByte(DataPos(b, x)) = DataPos(b, x)
<1>1. /\ SectorSize \in Nat \ {0} /\ SectorsPerBlock \in Nat \ {0}
      /\ BlockSize \in Nat /\ BitmapSize \in Nat
  BY Sizes, SizeAssumption
<1>2. ASSUME NEW c \in DOMAIN bat, NEW s \in Sectors, Used(c), s \notin bits[c],
             DataPos(b, x) - DataPos(c, s * SectorSize) \in 0 .. SectorSize - 1
      PROVE  FALSE
  <2>1. bat[b] \in Nat /\ bat[c] \in Nat
    BY <1>2 DEF Used, ImageOK
  <2>2. PICK p \in Nat, q \in Nat, y \in Nat :
           p = bat[b] * SectorSize /\ q = bat[c] * SectorSize /\ y = s * SectorSize
    <3>1. s \in Nat
      BY <1>1 DEF Sectors
    <3> QED
      BY <1>1, <2>1, <3>1, MulNat
  <2>3. y + SectorSize <= BlockSize
    <3>1. s \in Nat /\ s + 1 \in Nat /\ s + 1 <= SectorsPerBlock
      BY <1>1 DEF Sectors
    <3>2. (s + 1) * SectorSize = s * SectorSize + 1 * SectorSize
      BY <1>1, <3>1, MulDistributes
    <3>3. PICK k \in Nat : SectorsPerBlock = (s + 1) + k
      <4>1. SectorsPerBlock - (s + 1) \in Nat
        BY <1>1, <3>1
      <4> QED
        BY <1>1, <3>1, <4>1
    <3>4. ((s + 1) + k) * SectorSize = (s + 1) * SectorSize + k * SectorSize
      BY <1>1, <3>1, <3>3, MulDistributes
    <3>5. k * SectorSize \in Nat
      BY <1>1, MulNat
    <3>6. BlockSize = (y + SectorSize) + k * SectorSize
      BY <1>1, <2>2, <3>2, <3>3, <3>4 DEF BlockSize
    <3> QED
      BY <1>1, <2>2, <3>5, <3>6
  <2>4. DataPos(b, x) = p + BitmapSize + x /\ DataPos(c, s * SectorSize) = q + BitmapSize + y
    BY <2>2 DEF DataPos
  <2>5. CASE c = b
    <3>1. x - y \in 0 .. SectorSize - 1
      BY <1>1, <1>2, <2>2, <2>4, <2>5
    <3>2. x = SectorSize * s + (x - y) /\ s \in Nat
      <4>1. s \in Nat
        BY <1>1 DEF Sectors
      <4>2. SectorSize * s = y
        BY <1>1, <2>2, <4>1, MulCommutes
      <4> QED
        BY <4>1, <4>2
    <3>3. x \div SectorSize = s
      BY <1>1, <3>1, <3>2, DivModUnique
    <3> QED
      BY <1>2, <2>5, <3>3
  <2>6. CASE c # b
    <3>1. Apart(b, c) \/ Apart(c, b)
      BY <1>2, <2>6 DEF BlocksApart, Used
    <3>2. p + BitmapSize + BlockSize <= q \/ q + BitmapSize + BlockSize <= p
      BY <2>2, <3>1 DEF Apart
    <3> QED
      BY <1>1, <1>2, <2>2, <2>3, <2>4, <3>2
  <2> QED
    BY <2>5, <2>6
<1> QED
  BY <1>2 DEF FileByte

\* Quotients and remainders by a sector and by the values of a u32.
LEMMA BySector ==
    \A n, q \in Nat : \A r \in 0 .. SectorSize - 1 :
        n = SectorSize * q + r => n \div SectorSize = q /\ n % SectorSize = r
BY SizeAssumption, DivModUnique

LEMMA BelowU32 == \A n \in Nat : n < U32 => n % U32 = n
<1>1. U32 \in Nat
  BY WidthAssumption
<1>2. ASSUME NEW n \in Nat, n < U32 PROVE n % U32 = n
  BY <1>1, <1>2, Z3
<1> QED
  BY <1>2

\* Where a call stands that has come to a sector boundary.
LEMMA AtBoundary ==
    ASSUME CallOK, call.offset % SectorSize = 0
    PROVE  /\ InSector = 0 /\ InBlock = SectorSize * FirstBit
           /\ InBlock + SectorSize <= BlockSize
<1>1. /\ SectorSize \in Nat \ {0} /\ SectorsPerBlock \in Nat /\ BlockSize \in Nat
      /\ CallBlock \in Nat /\ FirstBit \in Nat /\ InSector \in 0 .. SectorSize - 1
      /\ call.offset = BlockSize * CallBlock + InBlock
      /\ InBlock = SectorSize * FirstBit + InSector
      /\ InBlock \in 0 .. BlockSize - 1
  BY Places, Sizes, SizeAssumption
<1>2. PICK m \in Nat : m = SectorsPerBlock * CallBlock
  BY <1>1, MulNat
<1>3. BlockSize * CallBlock = SectorSize * m
  BY <1>1, <1>2, Z3 DEF BlockSize
<1>4. SectorSize * (m + FirstBit) = SectorSize * m + SectorSize * FirstBit
  BY <1>1, <1>2, Z3
<1>5. SectorSize * m \in Nat /\ SectorSize * FirstBit \in Nat
  BY <1>1, MulNat
<1>6. call.offset = SectorSize * (m + FirstBit) + InSector
  BY <1>1, <1>3, <1>4, <1>5
<1>7. call.offset % SectorSize = InSector
  <2>1. call.offset \in Nat /\ m + FirstBit \in Nat
    BY <1>1, <1>2 DEF CallOK, Calls
  <2> QED
    BY Zenon, <1>1, <1>6, <2>1, BySector
<1>8. InSector = 0 /\ InBlock = SectorSize * FirstBit
  BY <1>1, <1>5, <1>7
<1>9. FirstBit < SectorsPerBlock
  <2>1. FirstBit * SectorSize < SectorsPerBlock * SectorSize
    <3>1. FirstBit * SectorSize = InBlock
      BY <1>1, <1>8, MulCommutes
    <3> QED
      BY <1>1, <3>1 DEF BlockSize
  <2> QED
    BY <1>1, <2>1, MulLess
<1>10. InBlock + SectorSize <= BlockSize
  <2>1. PICK k \in Nat : SectorsPerBlock = (FirstBit + 1) + k
    <3>1. SectorsPerBlock - (FirstBit + 1) \in Nat
      BY <1>1, <1>9
    <3> QED
      BY <1>1, <3>1
  <2>2. /\ ((FirstBit + 1) + k) * SectorSize = (FirstBit + 1) * SectorSize + k * SectorSize
        /\ (FirstBit + 1) * SectorSize = FirstBit * SectorSize + 1 * SectorSize
        /\ FirstBit * SectorSize = SectorSize * FirstBit /\ k * SectorSize \in Nat
    BY <1>1, <2>1, MulDistributes, MulCommutes, MulNat
  <2> QED
    BY <1>1, <1>5, <1>8, <2>1, <2>2 DEF BlockSize
<1> QED
  BY <1>8, <1>10

\* The sectors of one iteration: their bits agree with the first one's, there is at
\* least one byte, and what is left over is whole sectors or nothing.
LEMMA ChunkIs ==
    ASSUME CallOK, call.offset % SectorSize = 0, call.left > 0, call.left < U32,
           NEW len \in 0 .. ToRead, IsChunk(len)
    PROVE  /\ len > 0 /\ len \in Nat
           /\ len = call.left \/ len % SectorSize = 0
           /\ \A x \in InBlock .. InBlock + len - 1 : Bit(x \div SectorSize) = Bit(FirstBit)
<1>1. /\ SectorSize \in Nat \ {0} /\ BlockSize \in Nat /\ FirstBit \in Nat
      /\ InBlock \in Nat /\ InBlock < BlockSize /\ call.left \in Nat /\ U32 \in Nat
  <2>1. call.left \in Nat
    BY DEF CallOK, Calls
  <2> QED
    BY <2>1, Places, Sizes, SizeAssumption, WidthAssumption
<1>2. InSector = 0 /\ InBlock = SectorSize * FirstBit /\ InBlock + SectorSize <= BlockSize
  BY AtBoundary
<1>3. call.left % U32 = call.left
  BY Zenon, <1>1, BelowU32
<1>4. ToRead = MinOf(call.left, BlockSize - InBlock)
  BY <1>3 DEF ToRead
<1>5. ToRead \in Nat /\ ToRead > 0 /\ (ToRead < SectorSize => ToRead = call.left)
  BY <1>1, <1>2, <1>4 DEF MinOf
<1>6. CASE Unaligned
  <2>1. len = ToRead /\ len < SectorSize
    BY <1>2, <1>6 DEF IsChunk, Unaligned
  <2>2. ASSUME NEW x \in InBlock .. InBlock + len - 1 PROVE x \div SectorSize = FirstBit
    <3>1. x \in Nat /\ x - InBlock \in 0 .. SectorSize - 1
      BY <1>1, <1>5, <2>1
    <3>2. x = SectorSize * FirstBit + (x - InBlock)
      <4>1. x = InBlock + (x - InBlock)
        BY <1>1, <3>1
      <4> QED
        BY Zenon, <1>2, <4>1
    <3> QED
      BY Zenon, <1>1, <3>1, <3>2, BySector
  <2> QED
    BY <1>5, <2>1, <2>2
<1>7. CASE ~Unaligned
  <2>1. PICK k \in Sectors \cup {SectorsPerBlock} : IsRun(k) /\ len = k * SectorSize
    BY <1>7 DEF IsChunk
  <2>2. /\ k \in Nat /\ k >= 1
        /\ \A t \in FirstBit .. FirstBit + k - 1 : Bit(t) = Bit(FirstBit)
    <3>1. ToRead \div SectorSize \in Nat
      BY <1>1, <1>5, DivMod
    <3> QED
      BY <2>1, <3>1 DEF IsRun
  <2>3. len = SectorSize * k /\ len \in Nat /\ len > 0
    <3>1. k * SectorSize = SectorSize * k
      BY Zenon, <1>1, <2>2, MulCommutes
    <3>2. k * SectorSize \in Nat
      BY Zenon, <1>1, <2>2, MulNat
    <3>3. k * SectorSize # 0
      BY <1>1, <2>2, Z3
    <3> QED
      BY <2>1, <3>1, <3>2, <3>3
  <2>4. len % SectorSize = 0
    <3>1. len = SectorSize * k + 0 /\ 0 \in 0 .. SectorSize - 1
      BY <1>1, <2>3
    <3> QED
      BY Zenon, <2>2, <2>3, <3>1, BySector
  <2>5. ASSUME NEW x \in InBlock .. InBlock + len - 1
        PROVE  x \div SectorSize \in FirstBit .. FirstBit + k - 1
    <3> DEFINE t == x \div SectorSize
               r == x % SectorSize
    <3>1. x \in Nat /\ InBlock <= x /\ x < InBlock + len
      BY <1>1, <2>3
    <3>2. t \in Nat /\ r \in 0 .. SectorSize - 1 /\ x = SectorSize * t + r
      BY Zenon, <1>1, <3>1, DivMod
    <3> HIDE DEF t, r
    <3>3. /\ SectorSize * t = t * SectorSize /\ t * SectorSize \in Nat
          /\ SectorSize * FirstBit = FirstBit * SectorSize
      BY <1>1, <3>2, MulCommutes, MulNat
    <3>4. t < FirstBit + k
      <4>1. (FirstBit + k) * SectorSize = FirstBit * SectorSize + k * SectorSize
        BY <1>1, <2>2, MulDistributes
      <4>2. t * SectorSize < (FirstBit + k) * SectorSize
        BY <1>1, <1>2, <2>1, <2>3, <3>1, <3>2, <3>3, <4>1
      <4> QED
        BY <1>1, <2>2, <3>2, <4>2, MulLess
    <3>5. FirstBit < t + 1
      <4>1. (t + 1) * SectorSize = t * SectorSize + 1 * SectorSize
        BY <1>1, <3>2, MulDistributes
      <4>2. FirstBit * SectorSize < (t + 1) * SectorSize
        BY <1>1, <1>2, <3>1, <3>2, <3>3, <4>1
      <4> QED
        BY <1>1, <3>2, <4>2, MulLess
    <3> QED
      BY <1>1, <2>2, <3>2, <3>4, <3>5 DEF t
  <2> QED
    BY <2>2, <2>3, <2>4, <2>5
<1> QED
  BY <1>6, <1>7

\* What a byte of the buffer has to be, by the bit of its sector.
LEMMA RightByte ==
    ASSUME ImageOK, CallOK, CacheCoherent, AtData, BlocksApart, kind = "Dynamic",
           pc = "data", NEW x \in Nat, InBlock <= x, x < BlockSize
    PROVE  LET v == call.offset + (x - InBlock)
           IN  /\ ~Bit(x \div SectorSize) => Content(v) = Zero
               /\ Bit(x \div SectorSize) /\ Used(CallBlock) =>
                     FileByte(DataPos(CallBlock, x)) = Content(v)
<1> DEFINE b == CallBlock
           v == call.offset + (x - InBlock)
<1>1. v \div BlockSize = b /\ v % BlockSize = x
  <2>1. /\ b \in Nat /\ InBlock \in Nat /\ call.offset = BlockSize * b + InBlock
        /\ BlockSize \in Nat \ {0}
    BY Places, Sizes
  <2>2. BlockSize * b \in Nat
    BY <2>1, MulNat
  <2>3. v = BlockSize * b + x /\ v \in Nat
    BY <2>1, <2>2
  <2> HIDE DEF v, b
  <2> QED
    BY <2>1, <2>3, DivModUnique
<1>2. Content(v) = IF Used(b) /\ x \div SectorSize \in bits[b] THEN DataPos(b, x) ELSE Zero
  BY <1>1 DEF Content
<1>3. Used(b) => cachedBitmap = bits[b]
  <2>1. b # INVALID_CACHE_INDEX
    BY Places DEF INVALID_CACHE_INDEX
  <2> QED
    BY <2>1 DEF AtData, CacheCoherent
<1>4. Used(b) /\ x \div SectorSize \in bits[b] => FileByte(DataPos(b, x)) = DataPos(b, x)
  BY SetByte
<1> QED
  BY <1>2, <1>3, <1>4 DEF Bit

\* What one iteration puts into the buffer: the disk's bytes, at least one, and
\* whole sectors unless it is the rest of the request.
Right(bytes) ==
    /\ Len(bytes) > 0 /\ Len(bytes) <= ToRead
    /\ \A i \in 1 .. Len(bytes) : bytes[i] = Content(call.offset + i - 1)
    /\ Len(bytes) = call.left \/ Len(bytes) % SectorSize = 0

LEMMA RightStep ==
    ASSUME WholeBitmaps, ImageOK, CallOK, CacheCoherent, AtData, Pending, BlocksApart,
           kind = "Dynamic", call.op = "read", call.offset % SectorSize = 0,
           call.left > 0, call.left < U32, ReadBlock
    PROVE  \/ \E bytes \in Seq(Int), short \in BOOLEAN : Right(bytes) /\ Deliver(bytes, short)
           \/ call' = call /\ status' # "ok" /\ pc' \in {"idle", "panicked"}
<1>1. pc = "data" /\ InCurrentFile(CallBlock)
  BY DEF ReadBlock, InCurrentFile
<1>2. CASE Debug /\ cachedIndex # CallBlock
  BY <1>1, <1>2 DEF ReadBlock, Panic
<1>3. CASE ~(Debug /\ cachedIndex # CallBlock)
  <2>1. PICK len \in 0 .. ToRead :
           /\ IsChunk(len)
           /\ IF ~Bit(FirstBit) THEN Deliver(Zeroes(len), FALSE)
              ELSE IF Used(CallBlock) THEN ReadFromFile(len)
              ELSE Fail("UnexpectedBlockId") /\ UNCHANGED call
    BY <1>1, <1>3 DEF ReadBlock
  <2>2. /\ len > 0 /\ len \in Nat
        /\ len = call.left \/ len % SectorSize = 0
        /\ \A x \in InBlock .. InBlock + len - 1 : Bit(x \div SectorSize) = Bit(FirstBit)
    BY <2>1, ChunkIs
  <2>3. len <= ToRead /\ InBlock \in Nat /\ BlockSize \in Nat /\ call.offset \in Nat
        /\ InBlock + len <= BlockSize
    <3>1. ToRead \in Nat /\ ToRead + InBlock <= BlockSize
      BY ToReadBounds
    <3>2. InBlock \in Nat /\ BlockSize \in Nat /\ call.offset \in Nat
      BY Places, Sizes DEF CallOK, Calls
    <3> QED
      BY <2>2, <3>1, <3>2
  <2>4. ASSUME NEW i \in 1 .. len
        PROVE  /\ i \in Nat /\ InBlock + i - 1 \in Nat
               /\ ~Bit(FirstBit) => Content(call.offset + i - 1) = Zero
               /\ Bit(FirstBit) /\ Used(CallBlock) =>
                     FileByte(DataPos(CallBlock, InBlock + i - 1))
                        = Content(call.offset + i - 1)
    <3> DEFINE x == InBlock + i - 1
    <3>1. x \in Nat /\ InBlock <= x /\ x < BlockSize /\ x \in InBlock .. InBlock + len - 1
      BY <2>2, <2>3
    <3>2. call.offset + (x - InBlock) = call.offset + i - 1
      BY <2>2, <2>3
    <3>3. Bit(x \div SectorSize) = Bit(FirstBit)
      BY <2>2, <3>1
    <3> HIDE DEF x
    <3>4. /\ ~Bit(x \div SectorSize) => Content(call.offset + (x - InBlock)) = Zero
          /\ Bit(x \div SectorSize) /\ Used(CallBlock) =>
                FileByte(DataPos(CallBlock, x)) = Content(call.offset + (x - InBlock))
      BY <1>1, <3>1, RightByte
    <3> QED
      BY <3>1, <3>2, <3>3, <3>4 DEF x
  <2>5. CASE ~Bit(FirstBit)
    <3>1. Zeroes(len) \in Seq(Int) /\ Len(Zeroes(len)) = len
      BY <2>2, ZeroesOwn
    <3>2. \A i \in 1 .. len : Zeroes(len)[i] = Zero
      BY DEF Zeroes
    <3>3. Right(Zeroes(len))
      BY <2>2, <2>3, <2>4, <2>5, <3>1, <3>2 DEF Right
    <3> QED
      BY <2>1, <2>5, <3>1, <3>3
  <2>6. CASE Bit(FirstBit) /\ ~Used(CallBlock)
    BY <2>1, <2>6 DEF Fail, Return
  <2>7. CASE Bit(FirstBit) /\ Used(CallBlock)
    <3> DEFINE pos == SectorPos(CallBlock, FirstBit) + InSector
               bytes == [i \in 1 .. len |-> FileByte(pos + i - 1)]
    <3>1. ReadFromFile(len)
      BY <2>1, <2>7
    <3>2. CASE FileRead(pos, len, FALSE)
      <4>1. bat[CallBlock] \in Nat
        BY <2>7 DEF Used, ImageOK
      <4>2. pos = DataPos(CallBlock, InBlock)
        BY <4>1, PositionOfByte
      <4>3. bytes \in Seq(Int) /\ Len(bytes) = len
        BY <2>2, <2>3, <2>7, FileBytesOwn
      <4>4. ASSUME NEW i \in 1 .. len PROVE bytes[i] = Content(call.offset + i - 1)
        <5>1. DataPos(CallBlock, InBlock) + i - 1 = DataPos(CallBlock, InBlock + i - 1)
          <6>1. PICK p \in Nat : p = bat[CallBlock] * SectorSize
            BY <4>1, SizeAssumption, MulNat
          <6> QED
            BY <2>3, <2>4, <6>1, Sizes DEF DataPos
        <5> QED
          BY <2>4, <2>7, <4>2, <5>1
      <4>5. Right(bytes)
        BY <2>2, <2>3, <4>3, <4>4 DEF Right
      <4>6. Deliver(bytes, FALSE)
        BY <3>2 DEF FileRead
      <4> QED
        BY <4>3, <4>5, <4>6
    <3>3. CASE Fail("Io") /\ UNCHANGED call
      BY <3>3 DEF Fail, Return
    <3> QED
      BY <3>1, <3>2, <3>3 DEF ReadFromFile, WholeBitmaps
  <2> QED
    BY <2>5, <2>6, <2>7
<1> QED
  BY <1>2, <1>3

\* How far such a read is: on a sector boundary while it goes on, at the end of the
\* request when it returns Ok.
Aligned    == /\ kind = "Dynamic" /\ call.op = "read"
              /\ call.start % SectorSize = 0 /\ call.want < U32
OnBoundary == Running => call.offset % SectorSize = 0 /\ call.left > 0
AllRight   == \A i \in Delivered : IsContent(i)
AlignedOK  == Aligned => AllRight /\ OnBoundary /\ (Done("read") => Len(call.out) = call.want)
AlignedInv == UnusedInv /\ BlocksApart /\ AlignedOK

\* Sums of whole sectors are whole sectors.
LEMMA SectorSums ==
    \A m, n \in Nat : m % SectorSize = 0 /\ n % SectorSize = 0 => (m + n) % SectorSize = 0
<1> SUFFICES ASSUME NEW m \in Nat, NEW n \in Nat, m % SectorSize = 0, n % SectorSize = 0
             PROVE  (m + n) % SectorSize = 0
  OBVIOUS
<1>1. SectorSize \in Nat \ {0}
  BY SizeAssumption
<1>2. PICK p \in Nat : m = SectorSize * p + 0
  BY <1>1, DivMod
<1>3. PICK q \in Nat : n = SectorSize * q + 0
  BY <1>1, DivMod
<1>4. m + n = SectorSize * (p + q) + 0
  BY <1>1, <1>2, <1>3, Z3
<1>5. m + n \in Nat /\ p + q \in Nat /\ 0 \in 0 .. SectorSize - 1
  BY <1>1
<1> QED
  BY Zenon, <1>4, <1>5, BySector

LEMMA DeliverAligned ==
    ASSUME AlignedInv, Aligned, pc = "data", ReadBlock,
           NEW bytes \in Seq(Int), NEW short \in BOOLEAN, Right(bytes), Deliver(bytes, short)
    PROVE  AlignedOK'
<1> DEFINE n == Len(bytes)
<1>1. UNCHANGED <<kind, bat, bits>>
  BY DEF ReadBlock, fileVars, allocVars
<1>2. \A v : Content(v)' = Content(v)
  BY <1>1 DEF Content, Used, DataPos
<1>3. call \in Calls /\ call.offset = call.start + Len(call.out)
      /\ call.offset + call.left = call.start + call.want
  BY DEF AlignedInv, UnusedInv, CallInv, Inv, TypeOK, CallOK, Aligned
<1>4. /\ call'.op = "read" /\ call'.start = call.start /\ call'.want = call.want
      /\ call'.offset = call.offset + n /\ call'.left = call.left - n
      /\ call'.out = call.out \o bytes
  BY <1>3 DEF Deliver, Calls, Aligned
<1>5. /\ Len(call.out) \in Nat /\ n \in Nat /\ call.start \in Nat /\ call.offset \in Nat
      /\ call.left \in Nat /\ call.want \in Nat
      /\ Len(call.out \o bytes) = Len(call.out) + n
      /\ \A i \in 1 .. Len(call.out) + n :
            (call.out \o bytes)[i] = IF i <= Len(call.out) THEN call.out[i]
                                     ELSE bytes[i - Len(call.out)]
  BY <1>3, ConcatProperties, LenProperties DEF Calls
<1>6. n > 0 /\ n <= call.left /\ (n = call.left \/ n % SectorSize = 0)
  <2>1. ToRead \in Nat /\ ToRead <= call.left
    BY ToReadBounds DEF AlignedInv, UnusedInv, CallInv, Inv, TypeOK
  <2> QED
    BY <1>5, <2>1 DEF Right
<1>7. AllRight'
  <2> SUFFICES ASSUME NEW i \in Delivered' PROVE IsContent(i)'
    BY DEF AllRight
  <2>1. i \in 1 .. Len(call.out) + n
    BY <1>4, <1>5 DEF Delivered
  <2>2. IsContent(i)' <=> call'.out[i] = Content(call.start + i - 1)
    BY <1>2, <1>4 DEF IsContent
  <2>3. CASE i <= Len(call.out)
    <3>1. call'.out[i] = call.out[i] /\ i \in Delivered
      BY <1>4, <1>5, <2>1, <2>3 DEF Delivered
    <3>2. IsContent(i)
      BY <3>1 DEF AlignedInv, AlignedOK, AllRight
    <3> QED
      BY <2>2, <3>1, <3>2 DEF IsContent
  <2>4. CASE ~(i <= Len(call.out))
    <3> DEFINE j == i - Len(call.out)
    <3>1. j \in 1 .. n /\ call'.out[i] = bytes[j]
      BY <1>4, <1>5, <2>1, <2>4
    <3>2. call.offset + j - 1 = call.start + i - 1
      BY <1>3, <1>5, <2>1
    <3>3. bytes[j] = Content(call.offset + j - 1)
      BY <3>1 DEF Right
    <3> QED
      BY <2>2, <3>1, <3>2, <3>3
  <2> QED
    BY <2>3, <2>4
<1>8. CASE n = call.left
  <2>1. pc' = "idle"
    BY <1>8 DEF Deliver, Return
  <2>2. Len(call.out) + n = call.want
    <3> DEFINE a == Len(call.out)
    <3>1. a \in Nat /\ n \in Nat /\ call.start \in Nat /\ call.want \in Nat
      BY <1>5
    <3>2. (call.start + a) + n = call.start + call.want
      BY <1>3, <1>8
    <3> HIDE DEF a, n
    <3>3. a + n = call.want
      BY <3>1, <3>2
    <3> QED
      BY <3>3 DEF a
  <2>3. Len(call'.out) = call'.want
    BY <1>4, <1>5, <2>2
  <2> QED
    BY <1>7, <2>1, <2>3 DEF AlignedOK, OnBoundary, Running
<1>9. CASE n # call.left
  <2>1. pc' = "populate"
    BY <1>6, <1>9 DEF Deliver, Aligned
  <2>2. call.offset % SectorSize = 0
    BY DEF AlignedInv, AlignedOK, OnBoundary, Running
  <2>3. call'.offset % SectorSize = 0
    <3>1. n \in Nat /\ call.offset \in Nat /\ n % SectorSize = 0
      BY <1>5, <1>6, <1>9
    <3>2. (call.offset + n) % SectorSize = 0
      BY Zenon, <2>2, <3>1, SectorSums
    <3> QED
      BY <1>4, <3>2
  <2>4. call'.left > 0
    BY <1>4, <1>5, <1>6, <1>9
  <2> QED
    BY <1>7, <2>1, <2>3, <2>4 DEF AlignedOK, OnBoundary, Done
<1> QED
  BY <1>8, <1>9

LEMMA StepAligned ==
    ASSUME WholeBitmaps
    PROVE  AlignedInv /\ [Next]_vars => AlignedOK'
<1> SUFFICES ASSUME AlignedInv, [Next]_vars, Aligned' PROVE AlignedOK'
  BY DEF AlignedOK
<1> USE DEF AlignedInv
<1>1. ASSUME UNCHANGED <<kind, bat, bits, call>>, Running' => Running,
             Done("read")' => Done("read")
      PROVE  AlignedOK'
  BY <1>1 DEF AlignedOK, Aligned, AllRight, OnBoundary, Delivered, IsContent, Content,
              Used, DataPos
<1>2. CASE ReadBlock
  <2>1. Pending /\ pc = "data" /\ status = "none"
    BY <1>2 DEF ReadBlock, UnusedInv, CallInv, Pending, Running
  <2>2. ASSUME call' = call, status' # "ok", pc' \in {"idle", "panicked"}
        PROVE  AlignedOK'
    <3>1. UNCHANGED <<kind, bat, bits>>
      BY <1>2 DEF ReadBlock, fileVars, allocVars
    <3> QED
      BY <1>1, <2>2, <3>1 DEF Running, Done
  <2>3. call'.op = call.op /\ call'.start = call.start /\ call'.want = call.want
        /\ kind' = kind
    <3>1. call \in Calls /\ ImageOK /\ CallOK
      BY DEF UnusedInv, CallInv, Inv, TypeOK, CallOK
    <3> QED
      BY <1>2, <3>1, ReadBlockOutcome DEF Deliver, Calls, ReadBlock, fileVars
  <2>4. Aligned
    BY <2>3 DEF Aligned
  <2>5. call.offset % SectorSize = 0 /\ call.left > 0
    BY <2>1, <2>4 DEF AlignedOK, OnBoundary, Running
  <2>6. call.left < U32
    <3>1. CallOK
      BY DEF UnusedInv, CallInv, Inv, TypeOK
    <3>2. /\ call.offset \in Nat /\ call.left \in Nat /\ call.start \in Nat
          /\ call.want \in Nat /\ Len(call.out) \in Nat
      BY <3>1, LenProperties DEF CallOK, Calls
    <3>3. call.offset = call.start + Len(call.out)
          /\ call.offset + call.left = call.start + call.want
      BY <2>4, <3>1 DEF CallOK, Aligned
    <3> QED
      BY <2>4, <3>2, <3>3, WidthAssumption DEF Aligned
  <2>7. \/ \E bytes \in Seq(Int), short \in BOOLEAN : Right(bytes) /\ Deliver(bytes, short)
        \/ call' = call /\ status' # "ok" /\ pc' \in {"idle", "panicked"}
    BY <1>2, <2>4, <2>5, <2>6, RightStep DEF Aligned, UnusedInv, CallInv, Inv, TypeOK
  <2> QED
    BY <1>2, <2>1, <2>2, <2>4, <2>7, DeliverAligned
<1>3. CASE PopulateBlockBitmap
  <2>1. pc = "populate" /\ UNCHANGED <<kind, bat, bits, call>> /\ call.op = "read"
    BY <1>3 DEF PopulateBlockBitmap, fileVars, allocVars, Aligned
  <2>2. status = "none"
    BY <2>1 DEF UnusedInv, CallInv, Pending, Running
  <2>3. ~Done("read")'
    BY <1>3, <2>1, <2>2 DEF PopulateBlockBitmap, ReadBitmap, FillCache, FillFailed,
                            Populated, Fail, Return, Done
  <2> QED
    BY <1>1, <2>1, <2>3 DEF Running
<1>4. ASSUME NEW op \in {"read", "write"}, NEW o \in Offsets, NEW n \in Lengths,
             Begin(op, o, n)
      PROVE  AlignedOK'
  <2> DEFINE len == BoundTo(Capacity, o, n)
             m == IF len = NoLength THEN 0 ELSE len
  <2>1. /\ call'.out = << >> /\ call'.want = m /\ call'.left = m /\ call'.start = o
        /\ call'.offset = o
    BY <1>4 DEF Begin, NewCall
  <2>2. AllRight'
    BY <2>1 DEF AllRight, Delivered
  <2>3. Running' => m # 0
    BY <1>4 DEF Begin, Panic, Return, Running
  <2>4. Done("read")' => m = 0
    BY <1>4 DEF Begin, Panic, Return, Done, BeyondEOD
  <2>5. call' \in Calls
    <3>1. CallOK'
      BY <1>4, StepInv DEF UnusedInv, CallInv, Inv, TypeOK
    <3> QED
      BY <3>1 DEF CallOK, Calls
  <2>6. m \in Nat
    BY <2>1, <2>5 DEF Calls
  <2>7. OnBoundary'
    BY <2>1, <2>3, <2>6 DEF OnBoundary, Aligned
  <2>8. Done("read")' => Len(call'.out) = call'.want
    BY <2>1, <2>4
  <2> QED
    BY <2>2, <2>7, <2>8 DEF AlignedOK
<1>5. CASE WriteBlock
  BY <1>5, WriteBlockOutcome DEF WriteBlock, Aligned, UnusedInv, CallInv, Inv
<1>6. CASE \/ \E b \in 0 .. BatLen : SparseBlockBitmap(b)
           \/ \E b \in 0 .. BatLen, n \in Lengths : SparseBlockData(b, n)
           \/ Flush \/ Drop \/ Open
  BY <1>6 DEF SparseBlockBitmap, SparseBlockData, Flush, Drop, Open, NewCall, Aligned
<1>7. CASE UNCHANGED vars
  BY <1>1, <1>7 DEF vars, fileVars, allocVars, callVars, Running, Done
<1> QED
  BY <1>2, <1>3, <1>4, <1>5, <1>6, <1>7 DEF Next, ReadAt, WriteAt

\* On an image whose blocks do not overlap, whatever calls fail as long as bitmaps
\* are read whole or not at all: a read from a sector boundary puts nothing but the
\* disk's own bytes into the buffer, and all of them when it returns Ok, in spite of
\* the bitmap that reads of blocks without storage take from another block
\* (sparse.rs:186-243).
THEOREM AlignedReadRightAlways ==
    ASSUME WholeBitmaps, SlotsApart
    PROVE  Spec => []AlignedReadRight
<1>1. Init => AlignedOK /\ BlocksApart
  <2>1. Init => ~Aligned
    BY DEF Init, NewCall, Aligned
  <2>2. Init => BlocksApart
    BY InitApart
  <2> QED
    BY <2>1, <2>2 DEF AlignedOK
<1>2. UnusedInv /\ UnusedInv' /\ BlocksApart /\ AlignedOK /\ [Next]_vars
         => BlocksApart' /\ AlignedOK'
  BY StepApart, StepAligned DEF AlignedInv, UnusedInv, CallInv
<1>3. AlignedOK => AlignedReadRight
  BY DEF AlignedOK, Aligned, AllRight, AlignedReadRight
<1>4. Spec => []UnusedInv
  BY UnusedInvariance
<1> QED
  BY <1>1, <1>2, <1>3, <1>4, PTL DEF Spec
=============================================================================
