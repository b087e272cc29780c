----------------------------- MODULE JournalProps -----------------------------
(***************************************************************************)
(* What a reader of the journal may rely on, wherever its writer stopped.  *)
(* The journal has no reader yet (open, commit and revert are todo!()).    *)
(***************************************************************************)
EXTENDS Journal, FiniteSets

RecordTypes == MetadataTypes \cup DataTypes
Records == [type : RecordTypes, block : Nat \cup {NoBlock}]
Headers == [dataEntries : Nat, metadataEntries : Nat, dataOffset : Nat,
            metadataOffset : Nat, eof : Nat]

TypeOK ==
    /\ kind \in {"Fixed", "Dynamic", "Diff"} /\ handle \in {"opened", "created"}
    /\ header \in Headers /\ stored \in Headers /\ good \in Headers
    /\ \A p \in DOMAIN log : p \in Nat
    /\ updates \in Seq([rec : Records, at : Nat])
    /\ todo \in Seq(Records)
    /\ stage \in {"fetch", "entry", "data", "count"} => todo # << >>
    /\ pos \in Nat
    /\ stage \in {"start", "ready", "fetch", "entry", "data", "count", "dropped", "panicked"}
    /\ status \in {"none", "ok", "Io", "DataRefused", "NeedDyncOrDiffImage", "panic"}
    /\ made \in BOOLEAN
    /\ calls \in 0 .. MaxCalls
    /\ asked \in [block : Nat \cup {NoBlock}, mode : Modes, after : Nat]

Running == stage \in {"fetch", "entry", "data", "count"}

-----------------------------------------------------------------------------
(* The file, as a reader sees it *)

Holds(p, r, part, n) ==
    \A q \in p .. p + n - 1 : q \in DOMAIN log /\ log[q] = <<r, part, q - p>>

\* The entry and the data of a record are in the file, where it was put.
InFile(u) ==
    /\ Holds(u.at, u.rec, "entry", EntrySize)
    /\ Holds(u.at + EntrySize, u.rec, "data", DataLen(u.rec))

EndOf(n) == IF n = 0 THEN HeaderSize
            ELSE updates[n].at + RecordLen(updates[n].rec)

EntriesIn(h) == h.dataEntries + h.metadataEntries

Updates(types, n) == {i \in 1 .. n : updates[i].rec.type \in types}
FirstOf(types, n) ==
    IF Updates(types, n) = {} THEN 0
    ELSE updates[CHOOSE i \in Updates(types, n) : \A j \in Updates(types, n) : i <= j].at

\* A header describes the first n records.
Describes(h, n) ==
    /\ n <= Len(updates)
    /\ h.eof = EndOf(n)
    /\ h.dataEntries = Cardinality(Updates(DataTypes, n))
    /\ h.metadataEntries = Cardinality(Updates(MetadataTypes, n))
    /\ h.dataOffset = FirstOf(DataTypes, n)
    /\ h.metadataOffset = FirstOf(MetadataTypes, n)

-----------------------------------------------------------------------------
\* At every moment, after every failed write: unless the last write of it tore it,
\* the header in the file counts records that are completely in the file, ends
\* where they end, and names the first of each kind; and while it is torn the
\* records it counted before are still there (the order of the writes of
\* journal_update).
HeaderDescribesFile ==
    good # NoHeader =>
        LET n == EntriesIn(good)
        IN  Describes(good, n) /\ \A i \in 1 .. n : InFile(updates[i])

\* Records lie end to end from the header on, also those appended after a
\* failure half-way through another.
RecordsTile == \A i \in 1 .. Len(updates) : updates[i].at = EndOf(i - 1)

\* When a call that appended anything returns Ok, the header in the file is the one
\* in memory, whatever earlier failures, torn headers among them, left behind: all
\* the records in memory are then in the file and counted.
AckedIsDurable ==
    (stage = "ready" /\ status = "ok" /\ Len(updates) > asked.after) =>
        /\ stored = header
        /\ Describes(stored, Len(updates))
        /\ \A i \in 1 .. Len(updates) : InFile(updates[i])

\* A journal that create returned counts all the metadata of its image, in front of
\* everything else: 1 record of a fixed disk, 4 and the locators of another, as the
\* tests of journal.rs have it, whatever happens to it later.
CreateIsComplete ==
    made => /\ header.metadataEntries = IF kind = "Fixed" THEN 1
                                        ELSE IF kind = "Dynamic" THEN 4 ELSE 4 + Locators
            /\ header.metadataOffset = HeaderSize
            /\ \A i \in 1 .. header.metadataEntries : updates[i].rec.type \in MetadataTypes

\* No step overwrites a byte of a record that was ever counted, in the file or in
\* memory only.
CountedBytesStay ==
    [][\A p \in DOMAIN log : p < header.eof => log'[p] = log[p]]_vars

\* Every call returns or panics.
CallsReturn == Running ~> ~Running

Garbage == [type |-> "Garbage", block |-> NoBlock]
DurableRecords ==
    [i \in 1 .. EntriesIn(good) |->
        IF i <= Len(updates) /\ InFile(updates[i]) THEN updates[i].rec ELSE Garbage]

\* The journal implements the log its reader sees, who can use it unless the header
\* in the file is torn.
Reader == INSTANCE AppendLog WITH durable <- DurableRecords,
                                  readable <- stored = good /\ good # NoHeader,
                                  IsWhole <- LAMBDA r : r # Garbage
ImplementsAppendLog == Reader!Spec

-----------------------------------------------------------------------------
(* What the code's own words say, and the code does not do *)

\* journal.rs:7, "whether record block bitmap or/and data": a call that asks for
\* the bitmap, the data or both appends just these.
ModeIsHonoured ==
    (stage = "ready" /\ status = "ok" /\ calls > 0) =>
        {updates[i].rec.type : i \in asked.after + 1 .. Len(updates)} =
            (IF asked.mode % 2 = 1 THEN {"Bitmap"} ELSE {})
            \cup (IF asked.mode >= 2 THEN {"Data"} ELSE {})
=============================================================================
