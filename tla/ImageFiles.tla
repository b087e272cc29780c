------------------------------ MODULE ImageFiles ------------------------------
(***************************************************************************)
(* The life of image files: VhdImage::create_fixed, create_dynamic,        *)
(* create_diff, open, flush and Drop, by handles that share files.  Each   *)
(* handle is a process of its own; a step is one access to a file, so      *)
(* other handles act between any two of them, and a process may end there. *)
(*                                                                         *)
(* A file is a sequence of sectors.  A sector is known by the part of an   *)
(* image it is, and by the image it was written for.  A file that does not *)
(* exist is empty: both are refused.                                       *)
(***************************************************************************)
EXTENDS Integers, Sequences, SequencesExt

CONSTANTS
    Paths, Handles,
    Sizes,              \* the sizes asked for, in MiB
    MiBs,               \* number of MiB that a u64 counts in bytes (2^44)
    MaxBlocks,          \* blocks of MAX_VHD_SIZE (2040 GiB of 2 MiB)
    SectorsPerBlock,    \* sectors of a block (4096)
    EntriesPerSector,   \* BAT entries in a sector (128)
    DataSectors,        \* the sectors of fixed disks that are written to
    Debug,              \* a debug build: debug_assert! is on
    Faults,             \* what may go wrong, see FaultKinds
    MaxImages           \* bound on the files that are created or truncated

INSTANCE VhdMath WITH U64 <- MiBs

FaultKinds == {"writeError", "crash"}
Types == {"Fixed", "Dynamic", "Diff"}

ASSUME ImageFilesAssumption ==
    /\ Sizes \subseteq Nat /\ MiBs \in Nat \ {0} /\ MaxBlocks \in Nat
    /\ SectorsPerBlock \in Nat \ {0} /\ EntriesPerSector \in Nat \ {0}
    /\ DataSectors \subseteq Nat /\ Debug \in BOOLEAN /\ Faults \subseteq FaultKinds /\ MaxImages \in Nat

VARIABLES
    files,      \* the sectors of each file
    images,     \* what each image was created as; the uuid of an image is its index
    handle,     \* what each handle is doing
    owner,      \* the image each file was last truncated for (history)
    soiled,     \* files written to for another image since then (history)
    returned    \* images that create_* returned Ok for (history)

vars == <<files, images, handle, owner, soiled, returned>>

NoImage == 0
Part(is, id) == [is |-> is, id |-> id]
ZeroPart     == Part("Zero", NoImage)
TornPart     == Part("Torn", NoImage)

-----------------------------------------------------------------------------
(* The layout of an image *)

\* size_mb << 20 loses its upper bits, then the size is rounded up to blocks of
\* 2 MiB; the sum in math::ceil wraps.
BlocksFor(mb) == ((((mb % MiBs) + 1) % MiBs) \div 2)

\* check_max_size; a seeded fault checks nothing.
NeverTooBig(blocks) == FALSE
TooBig(blocks) == blocks > MaxBlocks

BatSectors(id)  == Ceil(images[id].blocks, EntriesPerSector)
Locators(id)    == IF images[id].type = "Diff" THEN 2 ELSE 0
IsSparse(id)    == images[id].type # "Fixed"

\* Sectors in front of the parts of a sparse image that follow the BAT: the copy of
\* the footer and the header, of two sectors.
BatAt == 3

\* Where the footer goes: pos of FixedExtent::create, next_block_pos of a sparse
\* extent; sectors count from 0.
End(id) == IF IsSparse(id) THEN BatAt + BatSectors(id) + Locators(id)
           ELSE images[id].blocks * SectorsPerBlock

\* A write of some sectors at a place.
At(sector, parts) == [at |-> sector, parts |-> parts]
Repeat(n, part)   == [i \in 1 .. n |-> part]

\* write_footer; a seeded fault writes the copy in front of a fixed disk too.
AlwaysCopied(id) == << At(0, << Part("Footer", id) >>), At(End(id), << Part("Footer", id) >>) >>
FooterWrites(id) ==
    (IF IsSparse(id) THEN << At(0, << Part("Footer", id) >>) >> ELSE << >>)
    \o << At(End(id), << Part("Footer", id) >>) >>

\* What FixedExtent::create and SparseExtent::create write before the footers:
\* zeroes, a block at a time; the header, the BAT and the locators.
BodyWrites(id) ==
    IF ~IsSparse(id)
    THEN [b \in 1 .. images[id].blocks |->
             At((b - 1) * SectorsPerBlock, Repeat(SectorsPerBlock, ZeroPart))]
    ELSE << At(1, << Part("Header", id), Part("HeaderEnd", id) >>) >>
         \o (IF BatSectors(id) = 0 THEN << >>
             ELSE << At(BatAt, Repeat(BatSectors(id), Part("Bat", id))) >>)
         \o [i \in 1 .. Locators(id) |->
                At(BatAt + BatSectors(id) + i - 1, << Part("Locator", id) >>)]

\* A seeded fault writes the footers first.
FooterFirst(id)  == FooterWrites(id) \o BodyWrites(id)
CreateWrites(id) == BodyWrites(id) \o FooterWrites(id)

\* The file after sectors went to a place: what lies between reads as zeroes.
Put(f, sector, parts) ==
    [i \in 1 .. (IF sector + Len(parts) < Len(f) \/ parts = << >> THEN Len(f)
                  ELSE sector + Len(parts)) |->
        IF i - sector \in DOMAIN parts THEN parts[i - sector]
        ELSE IF i <= Len(f) THEN f[i] ELSE ZeroPart]

-----------------------------------------------------------------------------
(* Handles *)

Free == [stage |-> "free", op |-> "none", path |-> "none", source |-> "none",
         asked |-> 0, type |-> "none", footer |-> NoImage, header |-> NoImage,
         bat |-> << >>, mode |-> "none", raced |-> FALSE, todo |-> << >>]

CanFail(fault) == fault \in Faults

\* h goes on as r; the others that are reading p notice nothing, but the history
\* variable raced remembers.
ReadingStages == {"footer", "header", "bat"}
Goes(h, r) == handle' = [handle EXCEPT ![h] = r]
GoesAndWrites(h, r, p) ==
    handle' = [g \in Handles |->
        IF g = h THEN r
        ELSE IF handle[g].stage \in ReadingStages /\ handle[g].source = p
        THEN [handle[g] EXCEPT !.raced = TRUE] ELSE handle[g]]

Ends(h) == Goes(h, Free) /\ UNCHANGED <<files, images, owner, soiled, returned>>

\* create_fixed, create_dynamic: up to the file.
Create(h, type, p, mb) ==
    /\ handle[h].stage = "free"
    /\ type \in {"Fixed", "Dynamic"}
    /\ ~TooBig(BlocksFor(mb))
    /\ ~(Debug /\ (mb % MiBs) + 1 = MiBs)      \* the sum of math::ceil
    /\ Goes(h, [Free EXCEPT !.stage = "truncate", !.op = "create", !.path = p,
                            !.type = type, !.asked = mb])
    /\ UNCHANGED <<files, images, owner, soiled, returned>>

\* open, and create_diff up to the open of its parent q.
Reads(h, op, p, q) ==
    /\ handle[h].stage = "free"
    /\ Goes(h, [Free EXCEPT !.stage = "footer", !.op = op, !.path = p, !.source = q,
                            !.raced = q \in soiled])
    /\ UNCHANGED <<files, images, owner, soiled, returned>>

Open(h, p)          == Reads(h, "open", p, p)
CreateDiff(h, p, q) == Reads(h, "create", p, q)

Source(h) == files[handle[h].source]

\* VhdFooter::read of the last sector: cookie and checksum.
EndsInFooter(f) == Len(f) > 0 /\ Last(f).is = "Footer"

ReadFooter(h) ==
    LET id == Last(Source(h)).id
    IN  /\ handle[h].stage = "footer"
        /\ IF ~EndsInFooter(Source(h)) THEN Ends(h)
           ELSE IF IsSparse(id)
           THEN /\ Goes(h, [handle[h] EXCEPT !.footer = id, !.stage = "header"])
                /\ UNCHANGED <<files, images, owner, soiled, returned>>
           ELSE IF handle[h].op = "open"
           THEN /\ Goes(h, [handle[h] EXCEPT !.footer = id, !.stage = "ready", !.mode = "opened"])
                /\ UNCHANGED <<files, images, owner, soiled, returned>>
           ELSE Ends(h)       \* ParentNotDynamic

\* read_exact_at asks for what is missing at the offset it began with: a file that
\* ends too early is taken to repeat from there, unless nothing is there (ExactIO).
CanReadExact(f, sector, n) == n = 0 \/ Len(f) > sector
ReadExact(f, sector, n) ==
    [i \in 1 .. n |-> f[sector + 1 + ((i - 1) % (Len(f) - sector))]]

\* VhdHeader::read: cookie and checksum, which the first half of a header, read twice,
\* does not pass.  The second sectors of the headers of two
\* dynamic disks are the same zeroes.
HasHeader(f) ==
    /\ Len(f) >= BatAt /\ f[2].is = "Header" /\ f[3].is = "HeaderEnd"
    /\ \/ f[2].id = f[3].id
       \/ images[f[2].id].type = "Dynamic" /\ images[f[3].id].type = "Dynamic"

ReadHeader(h) ==
    /\ handle[h].stage = "header"
    /\ IF HasHeader(Source(h))
       THEN /\ Goes(h, [handle[h] EXCEPT !.header = Source(h)[2].id, !.stage = "bat"])
            /\ UNCHANGED <<files, images, owner, soiled, returned>>
       ELSE Ends(h)

\* relative_path_to a file from itself panics, or never returns, before the file
\* is truncated; a seeded fault gives a path.
AnyRelation(p, q) == TRUE
Relates(p, q) == p # q

\* VhdBat::read takes whatever it reads; then an image is open, or a differencing
\* disk knows its parent.
ReadBat(h) ==
    LET n == BatSectors(handle[h].header)
        r == [handle[h] EXCEPT !.bat = ReadExact(Source(h), BatAt, n)]
    IN  /\ handle[h].stage = "bat"
        /\ IF ~CanReadExact(Source(h), BatAt, n) THEN Ends(h)
           ELSE IF handle[h].op = "open"
           THEN /\ Goes(h, [r EXCEPT !.stage = "ready", !.mode = "opened"])
                /\ UNCHANGED <<files, images, owner, soiled, returned>>
           ELSE IF ~Relates(handle[h].path, handle[h].source) THEN Ends(h)
           ELSE /\ Goes(h, [r EXCEPT !.stage = "truncate", !.type = "Diff"])
                /\ UNCHANGED <<files, images, owner, soiled, returned>>

\* A differencing disk is as large as its parent; a seeded fault takes what
\* was asked for.
DiskBlocksAsked(r) == BlocksFor(r.asked)
DiskBlocks(r) == IF r.type = "Diff" THEN images[r.footer].blocks ELSE BlocksFor(r.asked)

\* File::create truncates; a seeded fault only opens the file for writing.
KeptContents(f) == f
Truncated(f) == << >>

\* VhdFile::create: the file is truncated, whoever holds it.
Truncate(h) ==
    LET r == handle[h]
    IN  /\ r.stage = "truncate"
        /\ \/ \E id \in {Len(images) + 1} :
              /\ id <= MaxImages
              /\ images' = Append(images,
                    [type |-> r.type, parent |-> r.footer,
                     blocks |-> DiskBlocks(r)])
              /\ files' = [files EXCEPT ![r.path] = Truncated(@)]
              /\ owner' = [owner EXCEPT ![r.path] = id]
              /\ soiled' = soiled \ {r.path}
              /\ GoesAndWrites(h, [r EXCEPT !.stage = "write", !.footer = id, !.header = id,
                                            !.mode = "created", !.asked = 0,
                                            !.todo = CreateWrites(id)'], r.path)
              /\ UNCHANGED returned
           \/ /\ Len(images) >= MaxImages \/ CanFail("writeError")
              /\ Ends(h)

-----------------------------------------------------------------------------
(* The writes of a handle *)

\* The file of h gets sectors at a place, and h goes on as r.
Puts(h, sector, parts, r) ==
    LET p == handle[h].path
    IN  /\ files' = [files EXCEPT ![p] = Put(@, sector, parts)]
        /\ soiled' = IF handle[h].footer = owner[p] \/ parts = << >> THEN soiled
                     ELSE soiled \cup {p}
        /\ GoesAndWrites(h, r, p)
        /\ UNCHANGED <<images, owner>>

\* The call is done: Drop frees the handle, the others return it.
AfterLast(r) == IF r.op = "drop" THEN Free
                ELSE [r EXCEPT !.stage = "ready", !.op = "none", !.todo = << >>]
NextWrite(r) == IF Len(r.todo) = 1 THEN AfterLast(r) ELSE [r EXCEPT !.todo = Tail(@)]

\* A write failed: VhdBat::write ignores it, write_locator panics, and flush
\* leaves its handle usable; a create that fails has nothing to drop.  A seeded fault
\* ignores every error.
ErrorIgnored(r) == NextWrite(r)
AfterError(r) ==
    IF Head(r.todo).parts[1].is = "Bat" THEN NextWrite(r)
    ELSE IF r.op = "flush" THEN AfterLast(r)
    ELSE Free

Returns(h, r) ==
    returned' = IF handle[h].op = "create" /\ r.stage = "ready"
                THEN returned \cup {r.footer} ELSE returned

\* What a write that failed may have left: some of its sectors, and a part of the
\* next one, which shows only where that was not the same before.
Cuts(f, w) ==
    LET Torn(k) == IF w.at + k <= Len(f) /\ f[w.at + k] = w.parts[k] THEN w.parts[k]
                   ELSE TornPart
    IN  {SubSeq(w.parts, 1, k) : k \in 0 .. Len(w.parts) - 1}
        \cup {SubSeq(w.parts, 1, k - 1) \o << Torn(k) >> : k \in 1 .. Len(w.parts)}

WriteStep(h) ==
    LET r == handle[h]
        w == Head(r.todo)
    IN  /\ r.stage = "write"
        /\ \/ Puts(h, w.at, w.parts, NextWrite(r)) /\ Returns(h, NextWrite(r))
           \/ /\ CanFail("writeError")
              /\ \E parts \in Cuts(files[r.path], w) : Puts(h, w.at, parts, AfterError(r))
              /\ Returns(h, AfterError(r))

\* VhdImage::flush and Drop.  An opened file cannot be written: Drop fails at its
\* first write, and says nothing.
Footers(h, op) ==
    Goes(h, [handle[h] EXCEPT !.stage = "write", !.op = op,
                              !.todo = FooterWrites(handle[h].footer)])

Flush(h) ==
    /\ handle[h].stage = "ready" /\ handle[h].mode = "created"
    /\ Footers(h, "flush")
    /\ UNCHANGED <<files, images, owner, soiled, returned>>

Drop(h) ==
    /\ handle[h].stage \in {"ready", "panicked"}
    /\ IF handle[h].mode = "created" THEN Footers(h, "drop") ELSE Goes(h, Free)
    /\ UNCHANGED <<files, images, owner, soiled, returned>>

\* FixedExtent::write_at of a sector, below the capacity by bound_to; debug_check!
\* compares with the length the file has now.
WriteAt(h, sector) ==
    LET r == handle[h]
    IN  /\ r.stage = "ready" /\ r.mode = "created" /\ ~IsSparse(r.footer)
        /\ sector < images[r.footer].blocks * SectorsPerBlock
        /\ IF Debug /\ sector + 1 > Len(files[r.path]) - 1
           THEN /\ Goes(h, [r EXCEPT !.stage = "panicked"])
                /\ UNCHANGED <<files, images, owner, soiled, returned>>
           ELSE Puts(h, sector, << Part("Data", r.footer) >>, r) /\ UNCHANGED returned

\* The process of a handle ends, and drops nothing.
Crash(h) ==
    /\ CanFail("crash") /\ handle[h].stage # "free"
    /\ Ends(h)

-----------------------------------------------------------------------------
Init ==
    /\ files = [p \in Paths |-> << >>] /\ images = << >>
    /\ handle = [h \in Handles |-> Free]
    /\ owner = [p \in Paths |-> NoImage] /\ soiled = {} /\ returned = {}

Step(h) == ReadFooter(h) \/ ReadHeader(h) \/ ReadBat(h) \/ Truncate(h) \/ WriteStep(h)

Next ==
    \E h \in Handles :
        \/ \E p \in Paths, mb \in Sizes, type \in Types : Create(h, type, p, mb)
        \/ \E p \in Paths : Open(h, p)
        \/ \E p, q \in Paths : CreateDiff(h, p, q)
        \/ Step(h)
        \/ Flush(h) \/ Drop(h)
        \/ \E sector \in DataSectors : WriteAt(h, sector)
        \/ Crash(h)

Spec == Init /\ [][Next]_vars
=============================================================================
