# A TLA+ model of rvhd

rvhd (package `rvhd-util-convert`) creates, reads and journals virtual hard disks in
the VHD format: fixed disks, dynamic (sparse) disks and differencing disks. These
modules model the parts of it that keep state, and the pure functions whose results
the files depend on, check them with TLC on small instances, and prove the most
important results with TLAPS for all sizes of disks, blocks, sectors and requests. Line numbers below are those of the files under `src/src/`.

## 1. The system

| part | state | operations | works with |
|---|---|---|---|
| `VhdImage` (`vhd/image.rs`) | footer, one extent | `create_fixed/dynamic/diff`, `open`, `read_at`, `write_at`, `flush`, `Drop` | owns a fixed or a sparse extent, bounds every request by the capacity |
| `SparseExtent` (`vhd/sparse.rs`) | file, header, BAT, the bitmap of one cached block with its index and dirty flag, `next_block_pos` | `read_block`, `write_block`, `allocate_block`, `populate_block_bitmap`, `save_cached_bitmap`, `write_footer`, `sparse_block_bitmap`, `sparse_block_data` | reads and writes its `VhdFile`, is called by `VhdImage` and by the journal |
| `VhdBat` (`vhd/sparse/bat.rs`) | a vector of sector numbers | `new`, `read`, `write`, `block_id`, `set_block_id` | in the extent |
| `FixedExtent` (`vhd/fixed.rs`) | file, place of the footer | `create`, `open`, `read_at`, `write_at`, `write_footer` | its `VhdFile` |
| `VhdHeader`, locators (`vhd/sparse/header.rs`) | a struct | `new`, `read`, `write`, `swap_bytes`, `write_locator`, `relative_path_to` | the extent |
| `VhdFooter` (`vhd/footer.rs`) | a struct | `new`, `read`, `to_bytes`, `swap_bytes` | the image |
| checksum (`vhd/mod.rs`), `UuidEx` (`lib.rs`) | none | `calc_header_bytes_checksum`, `calc_header_checksum!`, `swap_bytes` | footer, header, journal |
| `VhdJournal` (`vhd/journal.rs`) | a file, its header in memory, a `VhdImage` | `create`, `add_block`; `open`, `commit`, `revert` are `todo!()` | reads the image, appends to its own file |
| `ReadAt`, `WriteAt` (`traits.rs`) | none | `read_exact_at`, `write_all_at` | everything that touches a file |
| `VhdFile` (`util.rs`) | an OS file, with a seek position | `open` (read only), `create` (truncates, write only), `read_at`, `write_at` | the extents, the journal |
| `math.rs`, `geometry.rs` | none | `ceil`, `round_up`, `round_down`, `bound_to`; CHS geometry | sizes and bounds |

What is hard here is not concurrency: the calls take `&self` over `RefCell`s, so one
thread uses a handle and a call runs to its end. It is what a *history* of calls
leaves behind. The one-block bitmap cache survives calls that fail, is not refreshed
for blocks without storage, and decides whether a sector's bytes are the file's or
zeroes. In-memory state moves ahead of the file (allocation, the journal's header)
and stays ahead when the write fails. Writers stop between two writes, and what they
leave is what the next handle opens. Arithmetic is cut to `u32` and wraps at `u64`.

What makes each part correct:

- *sparse extent*: a read delivers the disk's bytes at the offsets that were asked
  for; the cache is that of the block its index names; writes touch the storage of
  their block and nothing else; blocks keep their places; every call ends.
- *journal*: whenever the writer stops, the file holds whole records that its header
  counts; nothing that was counted is overwritten; a call that returned Ok is durable.
- *life cycle of image files*: what `create` returned as an image opens as the same
  image; a crash leaves a file that is refused, or is right; dropping a handle does
  not change a file it no longer stands for.
- *exact reads and writes*: whatever the file returns, a call ends; a write leaves a
  prefix of its data and nothing else; a read delivers what is there, or an error.
- *structs*: what is written is read back, in the byte order of the format; damage is
  refused; a child names its parent as the parent's own file does.
- *arithmetic*: rounding and bounding are exact where nothing wraps; geometries fit
  into their fields; the parts of a file follow each other; a relative path leads
  where it should.

## 2. The modules

| module | what it is |
|---|---|
| `VhdMath` | `math.rs`: `Ceil`, `RoundUp`, `RoundDown`, `BoundTo` with the sum that wraps at `U64` |
| `VhdMathProofs` | lemmas on division and multiplication; `RoundUpBounds`, `BoundToExact` |
| `SparseExtent` | a `VhdImage` of type Dynamic or Diff with its extent: all its calls, step by step |
| `SparseExtentProps` | type invariant, safety and liveness of the extent; what its own comments claim |
| `SparseExtentProofs` | six theorems about `SparseExtent!Spec` |
| `SparseReadProofs` | four more: why no write lands, and what reads return |
| `VirtualDiskProofs` | the extent implements `VirtualDisk`, step by step |
| `VirtualDisk` | the abstract specification of a sparse disk for its user: bytes that never change, requests that are answered or refused |
| `ExactIO` | `read_exact_at` and `write_all_at`, one action per read or write of the file |
| `ExactIOProps` | what a call does to file and buffer |
| `FileAccess` | the abstract specification of such a call: one access to the file |
| `ExactIOProofs` | the loops implement `FileAccess`; types, `OnlyPrefixLands`, `ReadIsExact` |
| `ImageFiles` | `create_fixed`, `create_dynamic`, `create_diff`, `open`, `flush`, `Drop` by processes that share files, one step per access to a file |
| `ImageFilesProps` | what becomes of the files: crashes, failed writes, stale handles |
| `ImageFilesProofs` | the seven properties of `ImageFilesProps` as theorems |
| `MCImageFiles` | symmetry of paths and processes, for TLC |
| `Journal` | `VhdJournal::create` and `add_block`, one action per write |
| `JournalProps` | what a reader of the journal's file may rely on |
| `JournalProofs` | seven theorems about `Journal!Spec`: its safety properties, and that it implements `AppendLog` |
| `AppendLog` | the abstract specification of a journal: whole records that are only ever added |
| `MCJournal` | the sizes of records, for TLC |
| `RelativePath` | `relative_path_to`, and what a relative path means |
| `DiskGeometry` | `Geometry::with_vhd_capacity` and what the footer stores of it |
| `SparseLayout` | where header, BAT, locators and footer go, with the real sizes |
| `StructCodec` | footer, header and journal structs as fields of bytes: `new`, `swap_bytes`, `to_bytes`, `read`, checksum |
| `Algorithms` | the four modules above against what they are for, one state per input |
| `MCAlgorithms` | the inputs, for TLC |
| `AlgorithmsProofs` | the theorems about geometry, layout, paths and structs, for every input |

The definitions whose comment calls them a mutant or a seeded fault are not used by
the specification: each is a plausible slip in the definition below it, and the
property it is for fails when it is put in that definition's place.

### SparseExtent and the code

One iteration of the loops of `read_at` and `write_at` (sparse.rs:26-60) is two steps:
`PopulateBlockBitmap` (225-243) and `ReadBlock` or `WriteBlock` (334-428), between
them `pc = "data"`. `ReadAt` and `WriteAt` begin a call with `bound_to` (image.rs:21-41).
`SparseBlockBitmap` and `SparseBlockData` (148-160) are what the journal calls;
the second passes a *file* position to `read_block` as an offset of the disk, and the
model does so too. `Flush` and `Drop` write the footers (87-94) and save the cache;
`Open` is the next handle on the file that was left.

`bat`, `cachedIndex`, `cachedBitmap`, `dirty`, `nextBlockPos` are the extent's fields;
`bits` is what the file stores as bitmaps, `touched` the sectors of the file that the
handle has overwritten. `Debug` says whether overflow checks and `debug_assert!` are
compiled in. A byte of the file is named by its position, so that a read from the wrong
place is seen; a byte that the format requires to be zero is `Zero`; a byte of the parent
disk is negative. `read_block`'s cut of the length to a `u32` is `% U32`.

What may go wrong with the file is `Faults`: a read or write fails, a read of a bitmap
fails after a part of it was read (`tornBitmap`), a read comes back short
(`shortRead`: `read_exact_at` then reads the rest from the *same* offset again,
traits.rs:7-22, which `Reassembled` models). A bitmap is torn and cut at any of its
bits: the code can cut it at bytes only, which is a subset at the real block size.
The status `Io` stands for an I/O error and for `UnexpectedEOD`.

`populate_block_bitmap` returns true or fails, so `allocate_block` is never called, and
a handle is either read-only or write-only, so no write of a block's data succeeds. The
branches are in the model (`AllocateBlock`, `LandWrite`, `SaveCachedBitmap`) with the
conditions of the code, and `NothingToWrite` and `WritesNeverLand` say that they do
not run, so no property is about what could go wrong inside of them. Their inner order is what the mutants of these properties show: with the
plausible repair of `populate_block_bitmap` all four write properties fail.

`VirtualDisk` is what a user of the disk is owed, whatever the file does. Its `disk` is
`DiskBytes`: what the format makes of the file that was opened (or zeroes), which no
step changes. An *exact* request, a read of a dynamic disk that begins at a sector's first
byte, gets the disk's bytes, all that were asked for; of any other the answer may
have zeroes in the place of bytes (`UsedSectorsAreRead`, below); a read that is refused has
delivered right bytes up to there; a write that is accepted wrote nothing.
`ImplementsVirtualDisk` checks this over calls, cache, failures and reopened handles.

### ExactIO and the code

`ReadSome` and `WriteSome` are a turn of the loops of traits.rs (7-22, 28-44) in which the
file transfers some bytes, `ReadFails` and `WriteFails` one in which it returns an
error. The file may transfer fewer bytes than asked, and, for a read, none only where none are
(`Reads`); a write may take none (`WriteZero`). The buffer is `got`, the rest of it is
counted by `done`; that the offset of a read does not move and that of a write does
is the code's. `before`, `cuts` and `short` are history: they let the properties
say what of an answer is the file's.

`FileAccess` is what the rest of the code, and the rest of these modules, take a call
for: a write puts its bytes or, with an error, a part of them from the first on; a read
answers with pieces of the file that all begin at the offset it was called with. That
is what a short read, or the end of the file, makes of `read_exact_at`: only a read of
bytes that are all there, none of whose reads was short, is the plain one
(`ReadIsExact`). `SparseExtent!Reassembled`, `Journal!WritePart` and `ImageFiles!Cuts` and
`ReadExact` are `FileAccess` in the terms of their modules.

### Algorithms and the code

`RelativePathTo` is header.rs:192-227 on sequences of nodes: nodes that are equal at the
same place are counted wherever they are, and path goes up, and down, by that number.
`up_nodes` below zero (a panic in a debug build, and in a release build a loop of 2^64
turns) is the error `overflow`. `WithVhdCapacity` is geometry.rs:31-76 with its divisions, the
cut to a `u32` before the division by 512, and the order of its attempts; `Stored` the casts of
footer.rs:93-97. `SparseLayout` computes in bytes what `VhdHeader::new` stores (header.rs:107-141)
and what `create` does (sparse.rs:194-215). `StructCodec` has each struct as its fields, each field
as its first and its second byte: two bytes are the fewest with an order. `Swaps` is
the list of fields that `swap_bytes` names, and which those should be is in
`IsNumber`, from the types of the fields, the reserved ones (`res1`, `res`, `reserved`) among them,
which `new` leaves zero (`Zeroed`). Not among them are constants that are words, and `prt_name`: an array
of UTF-16 units that header.rs:116 fills and `swap_bytes` (68-84) leaves in the order of the
memory (section 3). The sum of the bytes is the code's, its complement a
number of the size of the field.

### ImageFiles and the code

A handle is a process (a `VhdImage` is not `Send`; nothing locks a file), and a step of it
one access to a file, so that another handle acts, or the process ends (`Crash`),
between any two. `Create` and `CreateDiff` are the calls of image.rs:93-149; `Open` and
the parent's open in `create_diff` go through `ReadFooter` (with the size of the
file, one step), `ReadHeader` and `ReadBat`; `Truncate` is `File::create`; `WriteStep` takes
the writes off `todo`, which `CreateWrites` and `FooterWrites` give in the order of
sparse.rs:194-215, fixed.rs:106-124 and sparse.rs:87-94. A read over the end of the file
repeats from where it began (`ReadExact`, as `ExactIO` shows). A failed write leaves any
prefix of its sectors and a torn one; what then happens is the code's: an error of
the BAT is ignored (bat.rs:60), one of a locator panics (header.rs:186), others end
the call. A failed create has no `VhdImage`, so nothing is dropped; `Drop` writes both
footers where the handle remembers them, and it runs also when a panic unwinds.

A sector holds what it is (`is`) and for which image (`id`); checksums are taken to tell
every mixture of two parts from a part, but for the second halves of two dynamic
disks' headers, which are the same zeroes. Where a block of a fixed disk is written in
pieces of 4096 bytes the model writes a block. `owner`, `soiled` and `returned` are history
variables. Most properties are about files no handle on an *older* image wrote to
(`soiled`): a stale handle's footers can end up anywhere in a newer image, and can
replace the footer at its end. What holds of such handles too is the second part of
`FootersSpareData`: a footer goes to one of the places that the handle's own image has for
footers, and nothing else changes. Reads of a fixed disk change nothing and are left out.

### Journal and the code

`journal_update` (293-325) is `WriteEntry`, `WriteData` and `Count`: entry, data, then
the header in memory and the header in the file. `Fetch` is what the callers do before:
they take `pos` from `journal_eof` and get the data from the image, by calls that
panic or fail (`unwrap` at 152 and 259, `?` at 164). `Create` truncates the file and writes
the first header; `todo` then holds the records that `journal_add_metadata` (194-207)
appends. `AddBlock` selects records with the code's test `(mode | FLAG) == FLAG`.
`log` holds the file's bytes by position, each named by its record, part and offset;
`header` is in memory and `stored` in the file. `updates` is a history variable: the
records the header in memory has counted and where they went. A write fails after
any number of its bytes; with the fault `tornHeader` a header is cut at any byte,
inside of a field too (fields are numbers of up to three digits of radix `Radix`). The
writer may stop at any step: the safety properties are about every reachable state.

## 3. What is checked

| run | module | shows |
|---|---|---|
| `sparse_release` | SparseExtentProps | all histories of calls with failing reads and writes: cache, aligned reads, writes, BAT; `VirtualDisk` is implemented |
| `sparse_faults` | SparseExtentProps | a debug build with torn and short reads at all alignments: no byte of another place is delivered, panics only in blocks without storage, every call returns |
| `sparse_unaligned` | SparseExtentProps | *violated*: an unaligned read loses used sectors |
| `sparse_torn` | SparseExtentProps | *violated*: a failed fill spoils the block that was cached before |
| `images` | MCImageFiles | two processes, two files, disks of all types, failing writes and crashes: a returned image stays itself, what opens is one image and whole, footers spare data, a parent is kept |
| `images_bat` | MCImageFiles | *violated*: an image is returned without its BAT |
| `journal` | MCJournal | records tile the file, the stored header counts whole records, `AppendLog` is implemented over torn headers, calls end |
| `journal_mode` | MCJournal | *violated*: mode 3 journals nothing, mode 0 both |
| `exact_io` | ExactIOProps | reads and writes that fail and come short: a prefix lands, an undisturbed read is exact, `FileAccess` is implemented, the loops end |
| `exact_eof` | ExactIOProps | *violated*: a read over the end of the file returns Ok |
| `algorithms` | MCAlgorithms | paths, geometries, layouts and structs against what they are for |
| `relative_path` | MCAlgorithms | *violated*: paths that are equal again behind the place where they part |

**Bounds.** Sparse disks have two blocks of three sectors of two bytes, 11 bytes of
capacity so that the second block is cut inside a sector, a BAT padded from two to
three entries, and two places for blocks, in either order. Two blocks are needed for
one cache entry to be stale, three sectors for a run of equal bits to begin, end and
not reach the end of the block, two bytes for an unaligned offset. Offsets
lie on and off sector and block boundaries, at and beyond the end of the disk, and at
31 the sum of `bound_to` wraps (`U64 = 32`). `U32` is 12: a read of the whole disk
in `sparse_faults`, where the capacity is 12 too, asks for as many bytes as are
cut to none. A third block adds no case: the cache knows its block
and the others. Image files have blocks of two sectors, one BAT entry to a sector and at
most two blocks, so that images of different layouts meet in one file and writes are
torn between sectors; two images are enough for one to be stale, two processes
for one to read while the other writes. A size of 5 MiB is three blocks, one too
many; of 19 the upper bits are lost (`MiBs = 16`) and 3 are left, two blocks, the most; 31 makes the
sum of `math::ceil` wrap, which a debug build refuses. `MaxImages` caps the images, and the runs use
the symmetry of paths and of processes (they check no liveness). The journal's records are 3 to 5 bytes long, of different lengths, so
that a wrong place overlaps something; four calls of `add_block` on one used and
one unused block give failures after each record and after each other. Every run
finishes without a constraint; `MaxCalls` and `MaxImages` are the only counters that are capped.
`ExactIO` has a file of three bytes, places in it, at its end and behind it, and buffers
of up to four bytes: enough for three short reads of a call and for one that
crosses the end; two calls, for one to work on what the other left. `Algorithms` takes pairs of
relative paths of two nodes and absolute ones of two to four; sizes of disks two sectors to either side of
every bound in geometry.rs; tables of zero to three sectors; five contents for each struct,
every pair of them for a child and its parent,
and every byte of it damaged in four ways or cut off, with bytes of 64 values
(`Radix`), so that sums carry from byte to byte.
`CHECK_DEADLOCK FALSE` is in the runs of the journal and of `ExactIO` only: a journal that panicked, or
was dropped by `create`, stops, and so does what has used up its calls.

**What the violated runs show** is in the findings of `PROJECT.json`. More ways in which the
code and its own words part, seen while modelling and left to no run:

- `debug_assert_eq!` at sparse.rs:273 fails, in a debug build, for a read in a block without
  storage while the bitmap of another one is cached (`ReadBlock`; `PanicOnlyInUnused` says that nothing else panics but an overflow).
- The locator W2ku gets the same relative path as W2ru, although the comment at header.rs:23
  says it is of the absolute path.
- The geometry of a disk of 4 GiB and more is that of its remainder (geometry.rs:40).
- A file name of more than 256 UTF-16 units panics in `VhdHeader::new`, before the file is touched; a
  relative path of more than that in `write_locator`, after it was truncated.

- `parent` of an extent is always `None` (sparse.rs:174): where a differencing disk has no
  sector, zeroes are read, and sparse.rs:408 speaks of the parent. `Zeroes` models it.
- A read of a multiple of 2^32 bytes delivers none and returns Ok(0) (sparse.rs:364), which
  traits.rs:11 takes for the end of the data. `ToRead` models it.
- The record of a block's data has no data behind its entry: `Vec::with_capacity` has length
  zero (journal.rs:163). `DataLen` and `EntryStates` model it.
- The parent's name is written in the byte order of the machine: header.rs:116 copies its UTF-16
  units, and `swap_bytes` (header.rs:68-84) leaves out `prt_name`. The format document beside
  the sources says that all values are big endian "unless otherwise specified", and specifies nothing else
  of this one. `HeaderSwaps` models it, and `StructsBigEndian` leaves the name out.
- A child's `prt_ts` is the time its parent was created (header.rs:105), which header.rs:46
  calls the "Modification time of the parent disk". `FromParent` models it.
- `size_mb << 20` loses its upper bits before `check_max_size` (image.rs:94): 2^44 MiB and
  more pass for a small size. `BlocksFor` models it, and of the sizes of `images` two wrap:
  the disk is then smaller than asked, and `SizesAreRight` says no more than that it is within the limit.
- A dropped handle's footers go where it remembers them, also into a newer image
  (image.rs:16), and `debug_check!` of a fixed disk fails if its file was created anew and is
  smaller (fixed.rs:15). `Drop` and `WriteAt` model them.

**Fairness.** Weak fairness of the steps inside a call, and nothing else: a call is a
sequence of steps in one thread that waits for nobody, and reads and writes of a file
return. That a caller calls anything is not assumed. In `ExactIO` it is the turns in which the
file answers and the return that are fair, and errors are not: `CallsReturn` does not rest on
an error that ends the loop. `ImageFiles` assumes no fairness:
a process may end at any step.

## 4. What is proved

All with TLAPS, for every value of the constants that the named assumptions allow:
of the extent `SizeAssumption`, `WidthAssumption`, `CallAssumption` (sizes are positive, a block is
smaller than 2^32 bytes and divides it, the capacity is below 2^64), of `ExactIO`
`ExactIOAssumption` and of `Algorithms` `InputAssumption` (sizes, offsets, lengths and bytes are
natural numbers, paths sequences of strings, fields of structs any two bytes each), of the journal `JournalAssumption`, of the image files
`ImageFilesAssumption`. Every invariant and every action property of a passing run, and the three
refinements, are theorems.

- `Typing`: `Spec => []TypeOK`. `TypeOK` holds the relation between the counters of
  a call's loop (`offset + left = start + want`, `offset = start + Len(out)`); that no
  subtraction in it goes below zero needs `IsChunk`'s bounds and `MulLess`, `DivMod`.
- `WritesNeverLandAlways`, `FooterOnlyWritesAlways`: none of `WritesNeverLand`,
  `FooterOnlyWrites`, `NothingToWrite` is inductive alone. The invariant is
  `Inv == TypeOK /\ NothingToWrite /\ FooterOnlyWrites /\ WritesNeverLand`: a write lands
  only in a used block of a handle that can write, which `NothingToWrite` excludes;
  `dirty = FALSE` is what keeps `save_cached_bitmap` from writing at
  `cached_block_index`. The proof has a lemma per action.
- `BlocksStayAlways`: the action property, from `Inv`.
- `NoForeignDataAlways`: under all faults. Bytes come from `ReadFromFile` or `Zeroes`; the
  position of the first is the position of the offset in a used block, whatever the
  cached bitmap says, so a wrong bit can only give zeroes or bytes the file has there.
- `CacheCoherentAlways`: assumes that no read of a bitmap is torn or short, as the run
  does; with them it is false (`sparse_torn`).
- `NothingToWriteAlways` and `PanicOnlyInUnusedAlways`, under all faults. The second needs what
  the two steps of an iteration tell each other: `AtData` (after `PopulateBlockBitmap` the
  index is that of the call's block, if it has storage) and `Pending` (a call that goes on has
  no result); with `Inv` they are `CallInv`.
- `UnusedReadFailsOnlyWhenStaleAlways`, from `WholeBitmaps` (no torn and no short reads): a set
  bit can only come from a bitmap in the cache, since an index that was never set goes with an
  empty bitmap (`EmptyCache`), and `CacheCoherent` says whose it is.
- `AlignedReadRightAlways`, from `WholeBitmaps` and `SlotsApart` (blocks do not overlap). The
  invariant `AlignedInv` adds that a read which goes on stands on a sector boundary
  (`OnBoundary`): so the bits of one iteration agree (`ChunkIs`), each byte is what its bit
  says (`RightByte`, `SetByte`), and the sectors it delivers end on a boundary again
  (`DeliverAligned`). Every slot the runs use is apart from the others as `SlotsApart` says.
- `ImplementsVirtualDiskAlways`, from `WholeBitmaps`, `SlotsApart` and `BuffersFit` (a buffer's
  length and the blocks of a disk add up below 2^64: a `Vec` has at most `isize::MAX` bytes, and
  image.rs:83 allows 2040 GiB). The mapped disk never changes (`SameDisk`): blocks, their bitmaps and
  the padding of a reopened BAT may, but not what they make of it. A step that ends a call maps to
  the answer that `VirtualDisk` allows, every other to a stutter. Besides `CallInv`,
  `NoForeignData` and `AlignedReadRight` it takes `DiskInv`: what is read lies below the
  end of the disk, or the sum of `bound_to` wrapped and nothing was delivered (`InDisk`; that
  is where `BuffersFit` goes in), and only a call that has returned is Ok (`OkIsIdle`). With torn or
  short reads of bitmaps the refinement is false: a read may then have zeroes in the place of bytes.
- `RoundUpBounds`, `BoundToExact`: what `round_up` and `bound_to` return.
- `Typing`, `OnlyPrefixLandsAlways`, `ReadIsExactAlways` and `ImplementsFileAccessAlways`, for files and requests of any
  size, under all faults. The invariant `Inv` of `ExactIOProofs` says of a write that the file is
  `Put(before, ..., done)` and the next offset `at + done` (the lemma `PutMore` adds two such
  writes up), and of a read that the buffer is cut at `cuts` into pieces of the file
  from one place. Every step is then a step of `FileAccess` (a call returns) or none.
- The seven of `ImageFilesProofs`, for any number of processes and files, images of any layout, any
  writes failing or torn, and processes that end anywhere, from `ImageFilesAssumption`. None but the
  type invariant is inductive: what is in a file depends on what some process has yet
  to write to it. `FileInv` says of each file that no older image's handle has written to that, if
  it opens or was returned, it is `Whole`: each sector holds what the layout of its image puts there
  (`OpensIsWhole`); of each handle that creates its image that what its remaining writes do not cover
  is in the file and that the footer, without which nothing opens, is the last of them
  (`Building`, in `WriterOK`); of a handle that opened undisturbed that what it has read is of one
  image (`ReaderOK`, `OpenedOK`); and that an image has one handle that may write to it, and
  one file (`OneWriter`). A lemma on `Put` says for each kind of write - a part of a create, its
  footer, a footer of a flush or a drop, data - what it leaves of `Whole` and `Building`, torn or not;
  another that a step of one process takes nothing of this from another unless it soils the
  file. `FootersSpareData` and `ParentIsKept` are action properties, from the same invariant; the
  second part of `FootersSpareData` needs only that what is left for a flush or a drop to write are
  footers of its own image (`IsFooters`, in `WriterOK`), whatever is in the file.
  TLC checks it with the constants of `images`.
- The first six of `JournalProofs` hold for records of any size, any number of blocks, calls and
  locators, under all faults, from `JournalAssumption`. `RecordsTile` is not inductive: it takes
  that the header in memory ends where the last record does and that the record
  being written goes there (`Place`, with it `Inv`); `CountedBytesStay` is a consequence of `Inv`.
  `HeaderDescribesFile` takes that the record half written is in the file as far as the stage of
  the call says (`Half`), that all records end below `header.eof` (`Below`, so the next write misses
  them), and that the header in memory is right about counts and first offsets (`Counts`); a
  header that was written completely then describes a beginning of the records, which stays what
  it was when more are appended. `AckedIsDurable` adds `Last`: an earlier failed write of the
  header is made good by the next one that succeeds. These make `FileInv`. `CreateIsComplete` counts
  what `create` has yet to append (`MadeInv`). The first record of a kind is a `CHOOSE`; that
  there is one goes by the library's theorem on well-founded relations.
- `ImplementsAppendLogAlways`: the journal's file, as its last complete header describes it, is
  a log to which whole records are only added, under all faults. Where a header is torn the
  mapping has to know that the file does not look as if an older header was
  complete; that is `Torn`: each field in the file is `Between` the field of the last
  complete header and the one in memory, digit by digit, because fields only grow, and a field that
  is back at its old value was never touched. `ReaderInv` is `FileInv`, `Torn` and that there are no
  records before the first header (`Fresh`).
- `GeometryFitsAlways`, `GeometryLosesLessAlways`: of every size of disk. Each attempt of
  `ShapeOf` has its lemma, and the divisions go by what a quotient and a remainder are.
- `LayoutTilesAlways`: of every number of blocks; `LargestDiskFits`: up to 2040 GiB, the limit
  of image.rs:83, the sums and casts at sparse.rs:308 and 458 lose nothing, which
  TLC's integers are too small to check.
- `RelativePathResolvesAlways`: of paths of any length that part for good. Without that it is
  false (`relative_path`).

- `StructsRoundTripAlways`, `StructsBigEndianAlways`, `ChildNamesParentAlways`: of structs whose fields
  hold any bytes (`AnyFilling`), but for those that `new` or the type decides: the cookie, the type of a disk,
  the reserved numbers, the checksum. A child and its parent are filled independently. The fields of a struct are concatenations, so `ConcatFields` says which
  names, how many and how often they have them; `Withs`, `Gets` and `SwappedTwice` say what
  setting, getting and turning fields does, and `SealedHolds` that the checksum of a sealed struct
  holds, since it is taken of the same bytes.
- `DamageIsRefusedAlways`: of the same structs; one with one other byte, or cut off in zeroes, has no byte that is greater
  than the old one, or none that is less. Of two structs in such an order only one is sealed
  (`SealedOnce`): the sum of the one is not less, its complement not more, while the checksum it
  has is not less; so all are equal, and with the sums the bytes. The sum is a recursive function.
  `SumIs` says that it is what its recursion says, `SumsOrdered` and `SumBounded` compare and bound it;
  all three are by `Induction`, which has a set in the place of a predicate, so that
  no operator need be instantiated, and goes by the library's theorem that finite
  sets are well-founded.

Model-checked only: the three liveness properties `CallsReturn`, of the extent, the journal and
`ExactIO`. They need fairness, and with it `ENABLED`, of which the provers know nothing.

## 5. What is not modelled, and what comes next

Not modelled: the display of structs and the getters, which change nothing; the clock
(`vhd_time`, which goes below zero before 2000); the encoding of names to UTF-16 and with it
their lengths; the buffers of `util.rs` (memory layout); errors beyond their kind. Two
names of one file are two files here: that `create_diff` is not given its parent under another
spelling is assumed by `ParentIsKept`. No `fsync` is called anywhere;
the models take a completed write as durable, so what they say of a crash is of a
crash of the process, not of the machine.

The order of what follows (done: the extent with its cache and as a virtual disk, the life
of image files, the journal, exact reads and writes, the pure functions, and their theorems):

1. `JournaledImage`: the journal over a `SparseExtent`, whose cache it moves.
2. The panics of a debug build as a theorem on the numbers of `read_block`, with real widths.
