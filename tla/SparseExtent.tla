----------------------------- MODULE SparseExtent -----------------------------
(***************************************************************************)
(* One VhdImage of type Dynamic or Diff together with its SparseExtent:    *)
(* the in-memory BAT, the one-block bitmap cache, and the calls read_at,   *)
(* write_at, sparse_block_bitmap, sparse_block_data, flush and drop.       *)
(*                                                                         *)
(* A handle is "opened" (VhdFile::open: the file can only be read) or      *)
(* "created" (VhdFile::create: the file can only be written).  The calls   *)
(* take &self and the extent is built of RefCells, so a handle is used by  *)
(* one thread: a call is a sequence of steps that no other call of the     *)
(* handle interleaves with.  One iteration of the read_at and write_at     *)
(* loops is two steps, named by pc: "populate" (populate_block_bitmap) and *)
(* "data" (the rest of read_block or write_block).                         *)
(*                                                                         *)
(* A byte is named by where it comes from: a positive number is the file   *)
(* position it was read from, Zero a zero byte, and a negative number a    *)
(* byte of the parent disk.                                                *)
(***************************************************************************)
EXTENDS VhdMath, Sequences

CONSTANTS
    SectorSize,         \* bytes of a sector (512)
    SectorsPerBlock,    \* sectors of a block (4096)
    EntriesPerSector,   \* BAT entries in a sector (128)
    Capacity,           \* bytes of the virtual disk
    Slots,              \* sectors of the file where a block may start
    EndSector,          \* sector of the footer at the end of an opened file
    U32,                \* number of values of a u32
    Debug,              \* a debug build: overflow checks and debug_assert! are on
    Faults,             \* the I/O faults of the environment, see FaultKinds
    Offsets, Lengths    \* the arguments the calls are made with

FaultKinds == {"readError", "tornBitmap", "shortRead", "writeError"}

DD_BLOCK_UNUSED     == -1
INVALID_CACHE_INDEX == -1
Zero                == 0

BlockSize == SectorsPerBlock * SectorSize
Sectors   == 0 .. SectorsPerBlock - 1

\* The BAT has max_bat_size entries; on disk it is padded to a whole number of
\* sectors, and VhdBat::read keeps the padding as entries.
MaxBatSize == Ceil(Capacity, BlockSize)
BatLen     == RoundUp(MaxBatSize, EntriesPerSector)

\* Bytes of a block's bitmap, a bit for each sector, padded to a sector.
BitmapSize == RoundUp(Ceil(BlockSize, SectorSize * 8), SectorSize)

\* Where a created file ends with its footer: after the footer copy (a sector),
\* the header (2), the BAT and, in a differencing disk, two parent locators.
CreatedEnd(type) ==
    (3 + Ceil(MaxBatSize, EntriesPerSector)
       + (IF type = "Diff" THEN 2 ELSE 0)) * SectorSize

ASSUME SizeAssumption ==
    /\ SectorSize \in Nat \ {0}
    /\ SectorsPerBlock \in Nat \ {0}
    /\ EntriesPerSector \in Nat \ {0}
    /\ Capacity \in Nat \ {0}
    /\ Slots \subseteq Nat \ {0}
    /\ EndSector \in Nat \ {0}

ASSUME WidthAssumption ==
    /\ U32 \in Nat /\ BlockSize < U32 /\ U32 % BlockSize = 0
    /\ U64 \in Nat /\ Capacity < U64

ASSUME CallAssumption ==
    /\ Debug \in BOOLEAN
    /\ Faults \subseteq FaultKinds
    /\ Offsets \subseteq Nat
    /\ Lengths \subseteq Nat

VARIABLES
    kind,           \* footer.disk_type
    mode,           \* how the file was opened
    bat,            \* bat: the first sector of each block
    bits,           \* the bitmap of each block as the file stores it
    cachedIndex,    \* cached_block_index
    cachedBitmap,   \* cached_bitmap
    dirty,          \* cached_bitmap_dirty
    nextBlockPos,   \* next_block_pos, in bytes
    touched,        \* the sectors of the file this handle has overwritten
    pc, call, status

fileVars  == <<kind, mode, bits>>
cacheVars == <<cachedIndex, cachedBitmap, dirty>>
allocVars == <<bat, nextBlockPos>>
callVars  == <<pc, call, status>>
vars      == <<fileVars, cacheVars, allocVars, touched, callVars>>

-----------------------------------------------------------------------------
(* The file, as the format defines it *)

Used(b) == b \in DOMAIN bat /\ bat[b] # DD_BLOCK_UNUSED

\* The position of byte x of block b: the data follows the bitmap.
DataPos(b, x) == bat[b] * SectorSize + BitmapSize + x

\* The byte stored at a position: zero in the sectors whose bit is clear.
FileByte(pos) ==
    IF \E b \in DOMAIN bat, s \in Sectors :
          /\ Used(b) /\ s \notin bits[b]
          /\ pos - DataPos(b, s * SectorSize) \in 0 .. SectorSize - 1
    THEN Zero
    ELSE pos

\* The byte of the virtual disk at offset v.
Content(v) ==
    LET b == v \div BlockSize
        x == v % BlockSize
    IN  IF Used(b) /\ x \div SectorSize \in bits[b] THEN DataPos(b, x)
        ELSE IF kind = "Diff" THEN -(v + 1)
        ELSE Zero

CanRead  == mode = "opened"     \* File::open
CanWrite == mode = "created"    \* File::create

-----------------------------------------------------------------------------
(* Calls *)

NewCall(op, o, n) ==
    [op |-> op, start |-> o, want |-> n,        \* the (bounded) request
     offset |-> o, left |-> n, out |-> << >>,   \* how far the loop is
     short |-> FALSE]                           \* a file read came back short

Return(s) == pc' = "idle" /\ status' = s
Panic     == pc' = "panicked" /\ status' = "panic"

\* sparse_block_bitmap unwraps what the other calls return.
Fail(s) == IF call.op = "bitmap" THEN Panic ELSE Return(s)

\* VhdImage::read_at and write_at, up to the extent's loop.
BeyondEOD(op) == IF op = "read" THEN "ReadBeyondEOD" ELSE "WriteBeyondEOD"

Begin(op, o, n) ==
    LET len == BoundTo(Capacity, o, n)
    IN  /\ pc = "idle"
        /\ call' = NewCall(op, o, IF len = NoLength THEN 0 ELSE len)
        /\ IF Debug /\ SumOverflows(o, n) THEN Panic
           ELSE IF len = NoLength THEN Return(BeyondEOD(op))
           ELSE IF len = 0 THEN Return("ok")
           ELSE pc' = "populate" /\ status' = "none"
        /\ UNCHANGED <<fileVars, cacheVars, allocVars, touched>>

ReadAt(o, n)  == Begin("read", o, n)
WriteAt(o, n) == Begin("write", o, n)

\* sparse_block_bitmap(b): calc_bitmap_pos(b).unwrap(), then the cache is filled.
SparseBlockBitmap(b) ==
    /\ pc = "idle"
    /\ call' = NewCall("bitmap", b * BlockSize, 0)
    /\ IF Used(b) THEN pc' = "populate" /\ status' = "none" ELSE Panic
    /\ UNCHANGED <<fileVars, cacheVars, allocVars, touched>>

NoPosition(b) ==
    IF b \in DOMAIN bat THEN "UnexpectedBlockId" ELSE "InvalidBlockIndex"

\* Mutant: the bitmap in front of the data is forgotten.
PosWithoutBitmap(b, s) == (bat[b] + s) * SectorSize

\* calc_sector_pos of an allocated block.
SectorPos(b, s) == (bat[b] + s) * SectorSize + BitmapSize

\* sparse_block_data(b): one read_block at the file position of the block.
SparseBlockData(b, n) ==
    /\ pc = "idle"
    /\ call' = NewCall("data", IF Used(b) THEN SectorPos(b, 0) ELSE 0, n)
    /\ IF Used(b) THEN pc' = "populate" /\ status' = "none"
                  ELSE Return(NoPosition(b))
    /\ UNCHANGED <<fileVars, cacheVars, allocVars, touched>>

-----------------------------------------------------------------------------
(* The bitmap cache *)

CallBlock  == call.offset \div BlockSize
InBlock    == call.offset % BlockSize
FirstBit   == InBlock \div SectorSize
InSector   == InBlock % SectorSize

\* save_cached_bitmap, in a handle that can write.
SaveCachedBitmap ==
    IF dirty /\ cachedIndex # INVALID_CACHE_INDEX
    THEN dirty' = FALSE /\ touched' = touched \cup {cachedIndex}
    ELSE UNCHANGED <<dirty, touched>>

\* What read_exact_at leaves in the cached bitmap when it fails after k bits.
TornBitmap(b, k) == {s \in Sectors : IF s < k THEN s \in bits[b]
                                              ELSE s \in cachedBitmap}

\* What it assembles when reads come back short: it asks for the rest at the
\* offset it started from, so after each cut in R the bitmap begins again.
Reassembled(b, R) ==
    {s \in Sectors : \E r \in R \cup {0} :
        /\ r <= s
        /\ \A q \in R : q <= r \/ q > s
        /\ s - r \in bits[b]}

Populated ==
    /\ IF call.op = "bitmap" THEN Return("ok")
                             ELSE pc' = "data" /\ UNCHANGED status

\* Mutant: the index is not set after the bitmap was read.
FillKeepsIndex(b, bitmap) ==
    /\ cachedBitmap' = bitmap
    /\ UNCHANGED cachedIndex
    /\ Populated

FillCache(b, bitmap) ==
    /\ cachedBitmap' = bitmap
    /\ cachedIndex' = b
    /\ Populated

\* Mutant: the index is set before the bitmap is read.
FailedFillSetsIndex(bitmap) ==
    /\ cachedBitmap' = bitmap
    /\ cachedIndex' = CallBlock
    /\ Fail("Io")

\* A failed fill leaves the index of the block that was cached before.
FillFailed(bitmap) ==
    /\ cachedBitmap' = bitmap
    /\ UNCHANGED cachedIndex
    /\ Fail("Io")

ReadBitmap(b) ==
    \/ CanRead /\ FillCache(b, bits[b])
    \/ (~CanRead \/ "readError" \in Faults) /\ FillFailed(cachedBitmap)
    \/ /\ CanRead /\ "tornBitmap" \in Faults
       /\ \E k \in Sectors \ {0} : FillFailed(TornBitmap(b, k))
    \/ /\ CanRead /\ "shortRead" \in Faults
       /\ \E R \in SUBSET (Sectors \ {0}) : FillCache(b, Reassembled(b, R))

\* populate_block_bitmap: a block without storage leaves the cache as it is.
PopulateBlockBitmap ==
    LET b == CallBlock
    IN  /\ pc = "populate"
        /\ IF cachedIndex = b \/ (b \in DOMAIN bat /\ ~Used(b))
           THEN Populated /\ UNCHANGED <<cacheVars, touched>>
           ELSE IF ~Used(b)
           THEN Fail("InvalidBlockIndex") /\ UNCHANGED <<cacheVars, touched>>
           ELSE SaveCachedBitmap /\ ReadBitmap(b)
        /\ UNCHANGED <<fileVars, allocVars, call>>

\* Mutant: a block without storage is reported as missing from the file.
OnlyUsedInFile(b) == Used(b)

\* What populate_block_bitmap answers, for every block it does not fail on.
InCurrentFile(b) == TRUE

-----------------------------------------------------------------------------
(* read_block *)

\* buffer.len() is cast to a u32.
ToRead    == MinOf(call.left % U32, BlockSize - InBlock)
Unaligned == InSector # 0 \/ ToRead < SectorSize
\* Mutant: a clear bit is taken for a set one.
InvertedBit(s) == s \notin cachedBitmap

Bit(s)    == s \in cachedBitmap

\* read_sectors: the sectors from the first one on whose bits agree.
IsRun(k) ==
    /\ k \in 1 .. ToRead \div SectorSize
    /\ \A s \in FirstBit .. FirstBit + k - 1 : Bit(s) = Bit(FirstBit)
    /\ \/ k = ToRead \div SectorSize
       \/ Bit(FirstBit + k) # Bit(FirstBit)

\* Mutant: the run goes on over a change of the bit.
WholeRequest(len) == len = ToRead

IsChunk(len) ==
    IF Unaligned THEN len = ToRead
    ELSE \E k \in Sectors \cup {SectorsPerBlock} : IsRun(k) /\ len = k * SectorSize

Zeroes(len) == [i \in 1 .. len |-> Zero]

\* Mutant: the loop advances by what it asked for.
DeliverAsked(bytes, short) ==
    /\ call' = [call EXCEPT !.offset = @ + ToRead, !.left = @ - ToRead,
                            !.out = @ \o bytes, !.short = @ \/ short]
    /\ IF Len(bytes) = 0 \/ ToRead = call.left \/ call.op = "data"
       THEN Return("ok")
       ELSE pc' = "populate" /\ UNCHANGED status

\* Mutant: the loop does not stop when nothing was delivered.
DeliverUntilFull(bytes, short) ==
    LET n == Len(bytes)
    IN  /\ call' = [call EXCEPT !.offset = @ + n, !.left = @ - n,
                                !.out = @ \o bytes, !.short = @ \/ short]
        /\ IF n = call.left \/ call.op = "data"
           THEN Return("ok")
           ELSE pc' = "populate" /\ UNCHANGED status

\* One iteration of the loop of read_at has delivered these bytes.
Deliver(bytes, short) ==
    LET n == Len(bytes)
    IN  /\ call' = [call EXCEPT !.offset = @ + n, !.left = @ - n,
                                !.out = @ \o bytes, !.short = @ \/ short]
        /\ IF n = 0 \/ n = call.left \/ call.op = "data"
           THEN Return("ok")
           ELSE pc' = "populate" /\ UNCHANGED status

FileRead(pos, len, short) == Deliver([i \in 1 .. len |-> FileByte(pos + i - 1)], short)

\* Mutant: the offset in the sector is forgotten.
ReadWholeSectors(len) ==
    LET pos == SectorPos(CallBlock, FirstBit)
    IN  IF CanRead THEN FileRead(pos, len, FALSE) ELSE Fail("Io") /\ UNCHANGED call

ReadFromFile(len) ==
    LET pos == SectorPos(CallBlock, FirstBit) + InSector
    IN  \/ CanRead /\ FileRead(pos, len, FALSE)
        \/ /\ CanRead /\ "shortRead" \in Faults
           /\ \E m \in 1 .. len - 1 : FileRead(pos, m, TRUE)
        \/ (~CanRead \/ "readError" \in Faults) /\ Fail("Io") /\ UNCHANGED call

\* read_block after its populate_block_bitmap: read_block_data.  There is no
\* parent: read_parent_or_zero gives zeroes.
ReadBlock ==
    /\ pc = "data" /\ call.op \in {"read", "data"}
    /\ IF ~InCurrentFile(CallBlock) THEN Deliver(Zeroes(ToRead), FALSE)
       ELSE IF Debug /\ cachedIndex # CallBlock     \* debug_assert_eq!
       THEN Panic /\ UNCHANGED call
       ELSE \E len \in 0 .. ToRead :
               /\ IsChunk(len)
               /\ IF ~Bit(FirstBit) THEN Deliver(Zeroes(len), FALSE)
                  ELSE IF Used(CallBlock) THEN ReadFromFile(len)
                  ELSE Fail("UnexpectedBlockId") /\ UNCHANGED call
    /\ UNCHANGED <<fileVars, cacheVars, allocVars, touched>>

-----------------------------------------------------------------------------
(* write_block *)

ToWrite == MinOf(call.left, BlockSize - InBlock)
Partial == InSector # 0 \/ ToWrite < SectorSize

\* A partial write reads the first sector of the block before it writes.
WriteFails == ~CanWrite \/ (Partial /\ Bit(0))

\* The data is in the file and the bits of its sectors in the cached bitmap.
LandWrite ==
    LET len     == IF Partial THEN MinOf(call.left, SectorSize - InSector)
                   ELSE RoundDown(ToWrite, SectorSize)
        written == FirstBit .. FirstBit + Ceil(len, SectorSize) - 1
    IN  /\ touched' = touched \cup
               {SectorPos(CallBlock, s) \div SectorSize : s \in written}
        /\ cachedBitmap' = cachedBitmap \cup written
        /\ dirty' = TRUE
        /\ call' = [call EXCEPT !.offset = @ + len, !.left = @ - len]
        /\ IF len = call.left THEN Return("ok")
           ELSE pc' = "populate" /\ UNCHANGED status
        /\ UNCHANGED <<cachedIndex, bits, allocVars>>

\* allocate_block: the memory moves on before the file does, which fails in a
\* handle that cannot write.
AllocateBlock(b) ==
    /\ SaveCachedBitmap
    /\ cachedBitmap' = {} /\ cachedIndex' = b
    /\ nextBlockPos' = nextBlockPos + BitmapSize + BlockSize
    /\ IF CanWrite
       THEN /\ bat' = [bat EXCEPT ![b] = nextBlockPos \div SectorSize]
            /\ bits' = [bits EXCEPT ![b] = {}]
            /\ UNCHANGED <<pc, status>>
       ELSE Fail("Io") /\ UNCHANGED <<bat, bits>>
    /\ UNCHANGED call

WriteBlock ==
    /\ pc = "data" /\ call.op = "write"
    /\ IF ~InCurrentFile(CallBlock) THEN AllocateBlock(CallBlock)
       ELSE IF Used(CallBlock) /\ ~WriteFails THEN LandWrite
       ELSE /\ IF Debug /\ Partial /\ cachedIndex # CallBlock THEN Panic
               ELSE Fail(IF Used(CallBlock) THEN "Io" ELSE "UnexpectedBlockId")
            /\ UNCHANGED <<bits, cacheVars, allocVars, touched, call>>
    /\ UNCHANGED <<kind, mode>>

-----------------------------------------------------------------------------
(* flush and drop *)

\* write_footer: the copy at the start of the file, then the footer at its end.
FooterSectors == {0, nextBlockPos \div SectorSize}

\* write_footer and extent.flush(); res is what they return.
WriteFooter(res) ==
    \/ /\ CanWrite /\ res = "ok"
       /\ touched' = touched \cup FooterSectors
                             \cup (IF dirty THEN {cachedIndex} ELSE {})
       /\ dirty' = FALSE
    \/ /\ CanWrite /\ "writeError" \in Faults /\ res = "Io"
       /\ \E done \in {{}, {0}} : touched' = touched \cup done
       /\ UNCHANGED dirty
    \/ ~CanWrite /\ res = "Io" /\ UNCHANGED <<touched, dirty>>

Flush ==
    /\ pc = "idle"
    /\ \E res \in {"ok", "Io"} : WriteFooter(res) /\ Return(res)
    /\ call' = NewCall("flush", 0, 0)
    /\ UNCHANGED <<fileVars, cachedIndex, cachedBitmap, allocVars>>

\* Drop for VhdImage, also when a panic unwinds; the result is dropped too.
Drop ==
    /\ pc \in {"idle", "panicked"}
    /\ \E res \in {"ok", "Io"} : WriteFooter(res)
    /\ pc' = "dropped" /\ status' = "none"
    /\ call' = NewCall("drop", 0, 0)
    /\ UNCHANGED <<fileVars, cachedIndex, cachedBitmap, allocVars>>

\* SparseExtent::open on the file the last handle left.
Open ==
    /\ pc = "dropped"
    /\ mode' = "opened"
    /\ bat'  = [i \in 0 .. BatLen - 1 |->
                   IF i \in DOMAIN bat THEN bat[i] ELSE DD_BLOCK_UNUSED]
    /\ bits' = [i \in 0 .. BatLen - 1 |-> IF i \in DOMAIN bits THEN bits[i] ELSE {}]
    /\ cachedIndex' = INVALID_CACHE_INDEX /\ cachedBitmap' = {} /\ dirty' = FALSE
    /\ pc' = "idle" /\ status' = "none" /\ call' = NewCall("open", 0, 0)
    /\ UNCHANGED <<kind, nextBlockPos, touched>>

-----------------------------------------------------------------------------
\* Any image whose blocks do not share storage; the padding of the BAT is unused.
OpenedImage ==
    /\ mode = "opened"
    /\ bat \in [0 .. BatLen - 1 -> Slots \cup {DD_BLOCK_UNUSED}]
    /\ \A b \in DOMAIN bat : Used(b) =>
          b < MaxBatSize /\ \A c \in DOMAIN bat \ {b} : bat[c] # bat[b]
    /\ bits \in [0 .. BatLen - 1 -> SUBSET Sectors]
    /\ \A b \in DOMAIN bat : ~Used(b) => bits[b] = {}
    /\ nextBlockPos = EndSector * SectorSize

\* SparseExtent::create.
CreatedImage ==
    /\ mode = "created"
    /\ bat  = [b \in 0 .. MaxBatSize - 1 |-> DD_BLOCK_UNUSED]
    /\ bits = [b \in 0 .. MaxBatSize - 1 |-> {}]
    /\ nextBlockPos = CreatedEnd(kind)

Init ==
    /\ kind \in {"Dynamic", "Diff"}
    /\ OpenedImage \/ CreatedImage
    /\ cachedIndex = INVALID_CACHE_INDEX /\ cachedBitmap = {} /\ dirty = FALSE
    /\ touched = {}
    /\ pc = "idle" /\ status = "none" /\ call = NewCall("open", 0, 0)

Next ==
    \/ \E o \in Offsets, n \in Lengths : ReadAt(o, n) \/ WriteAt(o, n)
    \/ \E b \in 0 .. BatLen : SparseBlockBitmap(b)
    \/ \E b \in 0 .. BatLen, n \in Lengths : SparseBlockData(b, n)
    \/ PopulateBlockBitmap \/ ReadBlock \/ WriteBlock
    \/ Flush \/ Drop \/ Open

\* The calls run to their end: nothing they wait for is another actor's.
Fairness == WF_vars(PopulateBlockBitmap) /\ WF_vars(ReadBlock) /\ WF_vars(WriteBlock)

Spec == Init /\ [][Next]_vars /\ Fairness

=============================================================================
