------------------------------- MODULE Journal -------------------------------
(***************************************************************************)
(* VhdJournal: a log of an image's metadata, and of the blocks a caller    *)
(* adds, in a file of its own.  The file is a header followed by records;  *)
(* a record is an entry (32 bytes) and its data.  journal_update appends   *)
(* one record by three writes: the entry, the data, and, after the header  *)
(* in memory has moved on, the header.  Any of the writes may fail, after  *)
(* some of its bytes or none, and the process may stop between any two:    *)
(* what a later reader finds is "stored" and "log" of whatever state the   *)
(* specification has reached.                                              *)
(***************************************************************************)
EXTENDS Integers, Sequences

CONSTANTS
    HeaderSize, EntrySize,  \* bytes of the header and of an entry
    DataSize,               \* bytes of the data of a record, by its type
    BatBytes,               \* bytes of the BAT before it is rounded to a sector
    Locators,               \* parent locators of a differencing disk
    Blocks,                 \* the arguments of add_block
    UsedBlocks,             \* the blocks of the image that are allocated
    Radix,                  \* the values of a byte of a field of the header
    Faults,                 \* what may go wrong, see FaultKinds
    MaxCalls                \* bound on the calls of add_block

MetadataTypes == {"FooterP", "FooterC", "Header", "Locator", "Bat"}
\* One entry type, VhdJournalEntryTypeData, stands for a block's bitmap and for
\* its data.
DataTypes == {"Bitmap", "Data"}
FaultKinds == {"writeError", "tornHeader", "readError"}

VHD_JOURNAL_METADATA == 1
VHD_JOURNAL_DATA     == 2
Modes == 0 .. 3

ASSUME JournalAssumption ==
    /\ HeaderSize \in Nat \ {0} /\ EntrySize \in Nat \ {0}
    /\ DataSize \in [MetadataTypes \cup DataTypes -> Nat]
    /\ BatBytes \in Nat /\ BatBytes <= DataSize["Bat"]
    /\ Locators \in 0 .. 8
    /\ Blocks \subseteq Nat /\ UsedBlocks \subseteq Blocks
    /\ Radix \in Nat \ {0, 1}
    /\ Faults \subseteq FaultKinds
    /\ MaxCalls \in Nat

VARIABLES
    kind,       \* the type of the image
    handle,     \* how its file was opened: "opened" can read, "created" can write
    header,     \* vhd_journal_header, in memory
    stored,     \* the header in the file
    good,       \* the last header that was written completely (history)
    log,        \* the bytes of the file, by position
    updates,    \* the records the header in memory counts, oldest first, and
                \* where they are (a history variable)
    todo,       \* the records the running call has yet to append
    pos,        \* where the record being appended goes
    stage,      \* where the running call is
    status,     \* what the last call returned
    made,       \* VhdJournal::create has returned Ok
    calls,      \* the calls of add_block so far
    asked       \* what the last of them asked for, and after which record

image == <<kind, handle>>
vars  == <<image, header, stored, good, log, updates, todo, pos, stage, status, made,
           calls, asked>>

-----------------------------------------------------------------------------
NoHeader  == [dataEntries |-> 0, metadataEntries |-> 0, dataOffset |-> 0,
              metadataOffset |-> 0, eof |-> 0]
NewHeader == [NoHeader EXCEPT !.eof = HeaderSize]

Record(type, block) == [type |-> type, block |-> block]
NoBlock == -1

\* How many bytes of data follow the entry.  The BAT of a created image has no
\* padding; the buffer add_block passes for a block's data is empty
\* (Vec::with_capacity), and stays so.
DataLen(r) ==
    CASE r.type = "Data" -> 0
      [] r.type = "Bat" /\ handle = "created" -> BatBytes
      [] OTHER -> DataSize[r.type]

\* The size the entry states.
EntryStates(r) == DataSize[r.type]

RecordLen(r) == EntrySize + DataLen(r)

\* The bytes of the file after n bytes of a part of a record went to p.
Written(p, r, part, n) ==
    [q \in DOMAIN log \cup (p .. p + n - 1) |->
        IF q \in p .. p + n - 1 THEN <<r, part, q - p>> ELSE log[q]]

\* Where the next record goes; a seeded fault: behind the header, always.
NextPosIsFixed == HeaderSize
NextPos == header.eof

\* Seeded faults: the entry is not counted; the size the entry states is counted
\* in place of the bytes that were written.
CountedWithoutEntry(r) ==
    [(IF r.type \in DataTypes
      THEN [header EXCEPT !.dataEntries = @ + 1,
                          !.dataOffset = IF header.dataEntries = 0 THEN header.eof ELSE @]
      ELSE [header EXCEPT !.metadataEntries = @ + 1,
                          !.metadataOffset = IF header.metadataEntries = 0
                                             THEN header.eof ELSE @])
     EXCEPT !.eof = @ + DataLen(r)]
CountedAsStated(r) ==
    [CountedWithoutEntry(r) EXCEPT !.eof = header.eof + EntrySize + EntryStates(r)]

\* The header after a record of this type was appended at the end.
Counted(r) ==
    IF r.type \in DataTypes
    THEN [header EXCEPT !.dataEntries = @ + 1,
                        !.dataOffset = IF header.dataEntries = 0 THEN header.eof ELSE @,
                        !.eof = @ + RecordLen(r)]
    ELSE [header EXCEPT !.metadataEntries = @ + 1,
                        !.metadataOffset = IF header.metadataEntries = 0
                                           THEN header.eof ELSE @,
                        !.eof = @ + RecordLen(r)]

\* A header of which only the first bytes were written before the write failed:
\* the fields are big-endian, and lie in the order of VhdJournalHeader.
FieldAt == [dataEntries |-> 1, metadataEntries |-> 2, dataOffset |-> 3,
            metadataOffset |-> 4, eof |-> 5]
TornField(old, new) == {(new \div b) * b + (old % b) : b \in {1, Radix, Radix * Radix}}
TornHeaders(old, new) ==
    UNION {{[g \in DOMAIN new |-> IF FieldAt[g] < FieldAt[f] THEN new[g]
                                  ELSE IF g = f THEN v ELSE old[g]] :
               v \in TornField(old[f], new[f])} : f \in DOMAIN new}

\* journal_add_metadata: the records create appends; a seeded fault returns after
\* the first footer, whatever the type of the disk.
MetadataOfFixed == << Record("FooterP", NoBlock) >>
MetadataRecords ==
    IF kind = "Fixed" THEN << Record("FooterP", NoBlock) >>
    ELSE << Record("FooterP", NoBlock), Record("FooterC", NoBlock), Record("Header", NoBlock) >>
         \o [i \in 1 .. (IF kind = "Diff" THEN Locators ELSE 0) |-> Record("Locator", i)]
         \o << Record("Bat", NoBlock) >>

\* mode | flag == flag, as add_block has it.
Selects(mode, flag) == mode \in {0, flag}

BlockRecords(b, mode) ==
    (IF Selects(mode, VHD_JOURNAL_METADATA) THEN << Record("Bitmap", b) >> ELSE << >>)
    \o (IF Selects(mode, VHD_JOURNAL_DATA) THEN << Record("Data", b) >> ELSE << >>)

-----------------------------------------------------------------------------
CanFail(fault) == fault \in Faults

\* The running call returns an error; a journal that create did not return is
\* dropped.
Fail(s) ==
    /\ stage' = IF made THEN "ready" ELSE "dropped"
    /\ status' = s
    /\ todo' = << >>
    /\ UNCHANGED made

Panic == stage' = "panicked" /\ status' = "panic" /\ todo' = << >> /\ UNCHANGED made

\* The running call goes on with the records rs, or returns Ok; a seeded fault
\* does not see the end of the records.
GoOnForEver(rs) ==
    todo' = rs /\ stage' = "fetch" /\ status' = "none" /\ UNCHANGED made
GoOn(rs) ==
    /\ todo' = rs
    /\ stage' = IF rs = << >> THEN "ready" ELSE "fetch"
    /\ status' = IF rs = << >> THEN "ok" ELSE "none"
    /\ made' = (made \/ rs = << >>)

\* journal_write_header; a seeded fault ignores the result of the write.
WriteHeaderUnchecked(new, rest) ==
    \/ stored' = new /\ good' = new /\ GoOn(rest)
    \/ CanFail("writeError") /\ UNCHANGED <<stored, good>> /\ GoOn(rest)

WriteHeader(new, rest) ==
    \/ stored' = new /\ good' = new /\ GoOn(rest)
    \/ CanFail("writeError") /\ UNCHANGED <<stored, good>> /\ Fail("Io")
    \/ /\ CanFail("tornHeader")
       /\ stored' \in TornHeaders(stored, new) /\ UNCHANGED good
       /\ Fail("Io")

\* VhdJournal::create, up to journal_add_metadata: the file is truncated.
Create ==
    /\ stage = "start"
    /\ WriteHeader(header, MetadataRecords)
    /\ UNCHANGED <<image, header, log, updates, pos, calls, asked>>

AddBlock(b, mode) ==
    /\ stage = "ready" /\ calls < MaxCalls
    /\ calls' = calls + 1
    /\ asked' = [block |-> b, mode |-> mode, after |-> Len(updates)]
    /\ IF kind = "Fixed" THEN Fail("NeedDyncOrDiffImage") ELSE GoOn(BlockRecords(b, mode))
    /\ UNCHANGED <<image, header, stored, good, log, updates, pos>>

\* A created image has no blocks, and its handle cannot read.
Used(b) == handle = "opened" /\ b \in UsedBlocks
Readable(r) ==
    CASE r.type = "Locator" -> handle = "opened"
      [] r.type \in DataTypes -> Used(r.block)
      [] OTHER -> TRUE
Reads(r) == r.type \in {"Bitmap", "Locator"}

\* The data of the next record is taken from the image: parent_locator_data and
\* sparse_block_bitmap unwrap the errors of their reads.  sparse_block_data may
\* fail on any block, and panic in a debug build: it reads the virtual disk at
\* the block's place in the file (see SparseExtent).
Fetch ==
    LET r == Head(todo)
    IN  /\ stage = "fetch"
        /\ pos' = NextPos
        /\ \/ Readable(r) /\ stage' = "entry" /\ UNCHANGED <<todo, status, made>>
           \/ r.type = "Data" /\ Fail("DataRefused")
           \/ /\ \/ r.type = "Data" /\ Used(r.block)
                 \/ Reads(r) /\ (~Readable(r) \/ CanFail("readError"))
              /\ Panic
        /\ UNCHANGED <<image, header, stored, good, log, updates, calls, asked>>

\* write_all_at of a part of the record at p, then the next stage; or n of its
\* bytes and an error.  Seeded faults: a write of fewer bytes is taken for done;
\* the loop over the bytes writes the first of them again and again.
WriteSome(p, part, len, next) ==
    \E n \in 0 .. len :
        /\ log' = Written(p, Head(todo), part, n)
        /\ stage' = next
        /\ UNCHANGED <<todo, status, made>>
WriteAgain(p, part, len, next) ==
    log' = Written(p, Head(todo), part, len) /\ UNCHANGED <<stage, todo, status, made>>
WritePart(p, part, len, next) ==
    \/ /\ log' = Written(p, Head(todo), part, len)
       /\ stage' = next
       /\ UNCHANGED <<todo, status, made>>
    \/ /\ CanFail("writeError") /\ len > 0
       /\ \E n \in 0 .. len - 1 : log' = Written(p, Head(todo), part, n)
       /\ Fail("Io")

WriteEntry ==
    /\ stage = "entry"
    /\ WritePart(pos, "entry", EntrySize, "data")
    /\ UNCHANGED <<image, header, stored, good, updates, pos, calls, asked>>

WriteData ==
    /\ stage = "data"
    /\ WritePart(pos + EntrySize, "data", DataLen(Head(todo)), "count")
    /\ UNCHANGED <<image, header, stored, good, updates, pos, calls, asked>>

\* The end of journal_update: the header in memory counts the record, whether or
\* not the header in the file can be written.
Count ==
    /\ stage = "count"
    /\ header' = Counted(Head(todo))
    /\ updates' = Append(updates, [rec |-> Head(todo), at |-> pos])
    /\ WriteHeader(header', Tail(todo))
    /\ UNCHANGED <<image, log, pos, calls, asked>>

-----------------------------------------------------------------------------
Init ==
    /\ kind \in {"Fixed", "Dynamic", "Diff"} /\ handle \in {"opened", "created"}
    /\ header = NewHeader /\ stored = NoHeader /\ good = NoHeader
    /\ log = << >> /\ updates = << >>
    /\ todo = << >> /\ pos = 0
    /\ stage = "start" /\ status = "none" /\ made = FALSE
    /\ calls = 0 /\ asked = [block |-> NoBlock, mode |-> 0, after |-> 0]

Next ==
    \/ Create
    \/ \E b \in Blocks, mode \in Modes : AddBlock(b, mode)
    \/ Fetch \/ WriteEntry \/ WriteData \/ Count

Fairness == WF_vars(Fetch) /\ WF_vars(WriteEntry) /\ WF_vars(WriteData) /\ WF_vars(Count)

Spec == Init /\ [][Next]_vars /\ Fairness
=============================================================================
