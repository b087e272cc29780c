-------------------------- MODULE SparseExtentProps --------------------------
(***************************************************************************)
(* What SparseExtent promises its caller, and what it does not keep.       *)
(***************************************************************************)
EXTENDS SparseExtent

Kinds == {"Dynamic", "Diff"}
Modes == {"opened", "created"}
Calls == [op : {"open", "read", "write", "bitmap", "data", "flush", "drop"},
          start : Nat, want : Nat, offset : Nat, left : Nat,
          out : Seq(Int), short : BOOLEAN]
Results == {"none", "ok", "ReadBeyondEOD", "WriteBeyondEOD", "InvalidBlockIndex",
            "UnexpectedBlockId", "Io", "panic"}

Running == pc \in {"populate", "data"}
Done(op) == pc = "idle" /\ status = "ok" /\ call.op = op

\* The bytes a call has put into the caller's buffer so far.
Delivered == 1 .. Len(call.out)
IsContent(i) == call.out[i] = Content(call.start + i - 1)

-----------------------------------------------------------------------------
ImageOK ==
    /\ kind \in Kinds /\ mode \in Modes
    /\ \E n \in {MaxBatSize, BatLen} :
          /\ bat \in [0 .. n - 1 -> Nat \cup {DD_BLOCK_UNUSED}]
          /\ bits \in [0 .. n - 1 -> SUBSET Sectors]
    /\ nextBlockPos \in Nat
    /\ touched \in SUBSET Nat

CacheOK ==
    /\ cachedIndex \in DOMAIN bat \cup {INVALID_CACHE_INDEX}
    /\ cachedBitmap \in SUBSET Sectors
    /\ dirty \in BOOLEAN

CallOK ==
    /\ pc \in {"idle", "populate", "data", "panicked", "dropped"}
    /\ status \in Results
    /\ call \in Calls
    /\ call.op \in {"read", "write"} => call.offset + call.left = call.start + call.want
    /\ call.op = "read" => call.offset = call.start + Len(call.out)

\* The state is well formed, and the counters of the read_at and write_at loops
\* (offset, remaining buffer, bytes delivered) agree with one another whatever
\* read_block and write_block return.
TypeOK == ImageOK /\ CacheOK /\ CallOK

\* Whatever calls failed before, the cached bitmap is the one the file stores
\* for the block cached_block_index names (populate_block_bitmap reads into the
\* cache before it sets the index).
CacheCoherent ==
    cachedIndex # INVALID_CACHE_INDEX =>
        Used(cachedIndex) /\ cachedBitmap = bits[cachedIndex]

\* A read_at of a dynamic disk that starts on a sector boundary puts nothing but
\* the disk's own bytes into the buffer, also when it fails half-way, and fills
\* the buffer when it returns Ok, in spite of the stale cache that reads of
\* unallocated blocks consult (read_sectors, read_block_data, calc_sector_pos).
AlignedReadRight ==
    (kind = "Dynamic" /\ call.op = "read" /\ call.start % SectorSize = 0
                      /\ call.want < U32) =>
        /\ \A i \in Delivered : IsContent(i)
        /\ Done("read") => Len(call.out) = call.want

\* Under every fault, at every alignment: a byte a read_at delivers is the
\* disk's byte at that offset or zero, never a byte of another place, however
\* stale, torn or misassembled the cached bitmap is.
NoForeignData ==
    call.op = "read" => \A i \in Delivered : call.out[i] = Zero \/ IsContent(i)

\* A read_at fails with UnexpectedBlockId only in an unallocated block, and only
\* because the bitmap of another block is still cached (populate_block_bitmap
\* leaves it there).
UnusedReadFailsOnlyWhenStale ==
    (call.op = "read" /\ status = "UnexpectedBlockId") =>
        /\ ~Used(CallBlock)
        /\ cachedIndex \notin {INVALID_CACHE_INDEX, CallBlock}

\* Why no write lands: a handle that can write holds no block, a handle that
\* holds one cannot write, and so no bit is ever set in the cached bitmap.
NothingToWrite ==
    /\ mode = "created" => \A b \in DOMAIN bat : ~Used(b)
    /\ dirty = FALSE

\* No write_at of a dynamic or differencing disk accepts a byte: no handle both
\* holds an allocated block and can write, and none ever allocates one.
WritesNeverLand ==
    call.op = "write" => /\ call.offset = call.start
                         /\ status = "ok" => call.want = 0

\* All a handle ever overwrites is the two copies of the footer.
FooterOnlyWrites == touched \subseteq {0, nextBlockPos \div SectorSize}

\* Blocks never move, appear or disappear: every entry and bitmap a handle has
\* stays as it is, and so does the place of the footer.
BlocksStay ==
    [][/\ \A b \in DOMAIN bat : bat'[b] = bat[b] /\ bits'[b] = bits[b]
       /\ nextBlockPos' = nextBlockPos]_vars

\* In a debug build the assertion of check_sector_mask stops reads and partial
\* writes only in a block without storage.
PanicOnlyInUnused ==
    (pc = "panicked" /\ call.op \in {"read", "write", "data"}
                     /\ ~SumOverflows(call.start, call.want)) => ~Used(CallBlock)

\* Every call returns or panics: the loops of read_at and write_at end.
CallsReturn == Running ~> ~Running

\* What a call is to the user of the disk, which knows nothing of blocks: its bytes,
\* a request, and the answer once the call has ended.
DiskBytes == [v \in 0 .. Capacity - 1 |-> Content(v)]
Request   == [op |-> call.op, at |-> call.start, len |-> call.want,
              exact |-> /\ kind = "Dynamic" /\ call.want < U32
                        /\ call.start % SectorSize = 0]
Answer    == IF Running THEN [result |-> "none", bytes |-> << >>]
             ELSE [result |-> status,
                   bytes |-> IF call.op = "read" THEN call.out ELSE << >>]

Disk == INSTANCE VirtualDisk WITH disk <- DiskBytes, request <- Request,
                                  pending <- Running, answer <- Answer

\* Blocks, bitmaps, the cache and reopened files are a way to be a disk whose bytes
\* never change, and which refuses what it cannot do.
ImplementsVirtualDisk == Disk!Spec

-----------------------------------------------------------------------------
(* What the code's own words say, and the code does not do *)

\* lib.rs:74-75, "each bit indicates whether the associated sector within this
\* block is used": a read returns the data of every used sector it covers.
UsedSectorsAreRead ==
    (kind = "Dynamic" /\ Done("read")) => \A i \in Delivered : IsContent(i)
=============================================================================
