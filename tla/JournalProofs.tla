---------------------------- MODULE JournalProofs ----------------------------
(***************************************************************************)
(* The safety properties of a journal, for records of any size, any number *)
(* of blocks and locators and any history of calls, failed writes and torn *)
(* headers.  Inv says where the records are, FileInv what the file and its *)
(* header hold of them, MadeInv how far create has come, Torn what a torn   *)
(* header still has of the last complete one.                              *)
(***************************************************************************)
EXTENDS JournalProps, SequenceTheorems, FiniteSetTheorems,
        WellFoundedInduction, TLAPS

Writing == {"entry", "data", "count"}

\* The header in memory ends where the last record does, and the record that is
\* being written goes there.
Place ==
    /\ header.eof = EndOf(Len(updates))
    /\ stage \in Writing => pos = header.eof

Inv == TypeOK /\ Place /\ RecordsTile

-----------------------------------------------------------------------------
(* Types of what the actions are built from *)

LEMMA LengthsAreNat ==
    ASSUME NEW r \in Records
    PROVE  DataLen(r) \in Nat /\ RecordLen(r) \in Nat
<1>1. r.type \in MetadataTypes \cup DataTypes
  BY DEF Records, RecordTypes
<1>2. DataSize[r.type] \in Nat /\ BatBytes \in Nat /\ EntrySize \in Nat
  BY <1>1, JournalAssumption
<1>3. DataLen(r) \in Nat
  BY <1>2 DEF DataLen
<1> QED
  BY <1>2, <1>3 DEF RecordLen

LEMMA CountedIsHeader ==
    ASSUME header \in Headers, NEW r \in Records
    PROVE  /\ Counted(r) \in Headers
           /\ Counted(r).eof = header.eof + RecordLen(r)
<1>1. RecordLen(r) \in Nat
  BY LengthsAreNat
<1> DEFINE d == IF header.dataEntries = 0 THEN header.eof ELSE header.dataOffset
           m == IF header.metadataEntries = 0 THEN header.eof ELSE header.metadataOffset
           e == header.eof + RecordLen(r)
<1>2. d \in Nat /\ m \in Nat /\ e \in Nat
  BY <1>1 DEF Headers
<1>3. Counted(r) = IF r.type \in DataTypes
                   THEN [header EXCEPT !.dataEntries = @ + 1, !.dataOffset = d, !.eof = e]
                   ELSE [header EXCEPT !.metadataEntries = @ + 1, !.metadataOffset = m, !.eof = e]
  BY Zenon DEF Counted
<1>4. e = header.eof + RecordLen(r)
  OBVIOUS
<1> HIDE DEF d, m, e
<1>5. header.dataEntries + 1 \in Nat /\ header.metadataEntries + 1 \in Nat
  BY DEF Headers
<1>6. CASE r.type \in DataTypes
  <2> DEFINE h == [header EXCEPT !.dataEntries = header.dataEntries + 1, !.dataOffset = d, !.eof = e]
  <2>1. Counted(r) = h
    BY Zenon, <1>6, <1>3
  <2>2. h \in Headers /\ h.eof = e
    BY <1>2, <1>5 DEF Headers
  <2> HIDE DEF h
  <2> QED
    BY Zenon, <1>4, <2>1, <2>2
<1>7. CASE r.type \notin DataTypes
  <2> DEFINE h == [header EXCEPT !.metadataEntries = header.metadataEntries + 1, !.metadataOffset = m, !.eof = e]
  <2>1. Counted(r) = h
    BY Zenon, <1>7, <1>3
  <2>2. h \in Headers /\ h.eof = e
    BY <1>2, <1>5 DEF Headers
  <2> HIDE DEF h
  <2> QED
    BY Zenon, <1>4, <2>1, <2>2
<1> QED
  BY <1>6, <1>7

LEMMA NewHeadersAreHeaders == NoHeader \in Headers /\ NewHeader \in Headers
BY JournalAssumption DEF NoHeader, NewHeader, Headers

LEMMA TornFieldIsNat ==
    ASSUME NEW old \in Nat, NEW new \in Nat, NEW v \in TornField(old, new)
    PROVE  v \in Nat
<1>1. ASSUME NEW b \in Nat, b > 0 PROVE (new \div b) * b + (old % b) \in Nat
  <2>1. new \div b \in Nat /\ old % b \in Nat
    BY <1>1
  <2>2. ASSUME NEW x \in Nat, NEW y \in Nat PROVE x * y \in Nat
    BY <2>2
  <2> QED
    BY <2>1, <2>2
<1>2. 1 \in Nat /\ Radix \in Nat /\ Radix > 0
  BY JournalAssumption
<1>3. Radix * Radix \in Nat /\ Radix * Radix > 0
  BY <1>2
<1> QED
  BY <1>1, <1>2, <1>3 DEF TornField

LEMMA TornIsHeader ==
    ASSUME NEW old \in Headers, NEW new \in Headers, NEW t \in TornHeaders(old, new)
    PROVE  t \in Headers
<1> DEFINE Names == {"dataEntries", "metadataEntries", "dataOffset", "metadataOffset", "eof"}
<1>1. DOMAIN new = Names
  BY DEF Headers
<1>2. \A g \in Names : old[g] \in Nat /\ new[g] \in Nat
  BY DEF Headers
<1>3. PICK f \in DOMAIN new : \E v \in TornField(old[f], new[f]) :
          t = [g \in DOMAIN new |-> IF FieldAt[g] < FieldAt[f] THEN new[g]
                                    ELSE IF g = f THEN v ELSE old[g]]
  BY DEF TornHeaders
<1>4. PICK v \in TornField(old[f], new[f]) :
          t = [g \in Names |-> IF FieldAt[g] < FieldAt[f] THEN new[g]
                               ELSE IF g = f THEN v ELSE old[g]]
  BY Zenon, <1>1, <1>3
<1>5. v \in Nat
  BY Zenon, <1>1, <1>2, <1>3, <1>4, TornFieldIsNat
<1>6. t \in [Names -> Nat]
  BY <1>2, <1>4, <1>5
<1> QED
  <2>1. t = [dataEntries |-> t.dataEntries, metadataEntries |-> t.metadataEntries,
             dataOffset |-> t.dataOffset, metadataOffset |-> t.metadataOffset, eof |-> t.eof]
    BY <1>6
  <2> QED
    BY <1>6, <2>1 DEF Headers

LEMMA SingleRecord ==
    ASSUME NEW type \in RecordTypes, NEW b \in Nat \cup {NoBlock}
    PROVE  Record(type, b) \in Records /\ << Record(type, b) >> \in Seq(Records)
BY DEF Record, Records

LEMMA MetadataRecordsType == MetadataRecords \in Seq(Records) /\ MetadataRecords # << >>
<1> DEFINE n == IF kind = "Diff" THEN Locators ELSE 0
           a == << Record("FooterP", NoBlock), Record("FooterC", NoBlock), Record("Header", NoBlock) >>
           l == [i \in 1 .. n |-> Record("Locator", i)]
           z == << Record("Bat", NoBlock) >>
<1>1. \A type \in MetadataTypes : \A b \in Nat \cup {NoBlock} : Record(type, b) \in Records
  BY SingleRecord DEF RecordTypes
<1>2. n \in Nat
  BY JournalAssumption
<1>3. l \in Seq(Records)
  <2>1. \A i \in 1 .. n : Record("Locator", i) \in Records
    BY <1>1, <1>2 DEF MetadataTypes
  <2> HIDE DEF n
  <2> QED
    BY <1>2, <2>1
<1>4. a \in Seq(Records) /\ z \in Seq(Records) /\ Len(a) = 3
  <2>1. \A x, y, w \in Records : << x, y, w >> \in Seq(Records) /\ Len(<< x, y, w >>) = 3
    OBVIOUS
  <2>2. \A x \in Records : << x >> \in Seq(Records)
    OBVIOUS
  <2>3. /\ Record("FooterP", NoBlock) \in Records /\ Record("FooterC", NoBlock) \in Records
        /\ Record("Header", NoBlock) \in Records /\ Record("Bat", NoBlock) \in Records
    BY <1>1 DEF MetadataTypes
  <2> QED
    BY Zenon, <2>1, <2>2, <2>3
<1>5. << Record("FooterP", NoBlock) >> \in Seq(Records)
  BY SingleRecord DEF RecordTypes, MetadataTypes
<1>6. a \o l \o z \in Seq(Records) /\ a \o l \o z # << >>
  <2> HIDE DEF a, l, z
  <2>1. a \o l \in Seq(Records) /\ Len(a \o l) = Len(a) + Len(l)
    BY Zenon, <1>3, <1>4, ConcatProperties
  <2>2. (a \o l) \o z \in Seq(Records) /\ Len((a \o l) \o z) = Len(a \o l) + Len(z)
    BY Zenon, <1>4, <2>1, ConcatProperties
  <2>3. Len(l) \in Nat /\ Len(z) \in Nat
    BY Zenon, <1>3, <1>4, LenProperties
  <2>4. Len(<< >>) = 0
    OBVIOUS
  <2> QED
    BY <1>4, <2>1, <2>2, <2>4, <2>3
<1> QED
  BY <1>5, <1>6 DEF MetadataRecords

LEMMA BlockRecordsType ==
    ASSUME NEW b \in Blocks, NEW mode \in Modes
    PROVE  BlockRecords(b, mode) \in Seq(Records)
<1>1. b \in Nat
  BY JournalAssumption
<1>2. << Record("Bitmap", b) >> \in Seq(Records) /\ << Record("Data", b) >> \in Seq(Records)
  BY <1>1, SingleRecord DEF RecordTypes, DataTypes
<1> QED
  BY <1>2 DEF BlockRecords

-----------------------------------------------------------------------------
(* Ends of calls *)

\* A call that fails, panics or goes on leaves its own state well formed.
CallOK ==
    /\ todo \in Seq(Records)
    /\ stage \in {"fetch", "entry", "data", "count"} => todo # << >>
    /\ stage \in {"start", "ready", "fetch", "entry", "data", "count", "dropped", "panicked"}
    /\ status \in {"none", "ok", "Io", "DataRefused", "NeedDyncOrDiffImage", "panic"}
    /\ made \in BOOLEAN

LEMMA FailOK ==
    ASSUME made \in BOOLEAN, NEW s \in {"Io", "DataRefused", "NeedDyncOrDiffImage"}, Fail(s)
    PROVE  CallOK' /\ stage' \notin Writing
BY DEF Fail, CallOK, Writing

LEMMA PanicOK ==
    ASSUME made \in BOOLEAN, Panic
    PROVE  CallOK' /\ stage' \notin Writing
BY DEF Panic, CallOK, Writing

LEMMA GoOnOK ==
    ASSUME made \in BOOLEAN, NEW rs \in Seq(Records), GoOn(rs)
    PROVE  CallOK' /\ stage' \notin Writing
<1>1. made' \in BOOLEAN
  BY Zenon DEF GoOn
<1>2. todo' \in Seq(Records)
  BY DEF GoOn
<1>3. stage' = (IF todo' = << >> THEN "ready" ELSE "fetch")
      /\ status' = (IF todo' = << >> THEN "ok" ELSE "none")
  BY DEF GoOn
<1> QED
  BY <1>1, <1>2, <1>3 DEF CallOK, Writing

LEMMA WriteHeaderOK ==
    ASSUME made \in BOOLEAN, stored \in Headers, good \in Headers,
           NEW new \in Headers, NEW rest \in Seq(Records), WriteHeader(new, rest)
    PROVE  CallOK' /\ stage' \notin Writing /\ stored' \in Headers /\ good' \in Headers
<1>1. CASE stored' = new /\ good' = new /\ GoOn(rest)
  BY <1>1, GoOnOK
<1>2. CASE UNCHANGED <<stored, good>> /\ Fail("Io")
  BY <1>2, FailOK
<1>3. CASE stored' \in TornHeaders(stored, new) /\ UNCHANGED good /\ Fail("Io")
  BY <1>3, FailOK, TornIsHeader
<1> QED
  BY <1>1, <1>2, <1>3 DEF WriteHeader

LEMMA WrittenDomain ==
    ASSUME \A q \in DOMAIN log : q \in Nat, NEW p \in Nat, NEW r, NEW part, NEW n \in Nat
    PROVE  \A q \in DOMAIN Written(p, r, part, n) : q \in Nat
<1>1. DOMAIN Written(p, r, part, n) = DOMAIN log \cup (p .. p + n - 1)
  BY DEF Written
<1> QED
  BY <1>1

LEMMA WritePartOK ==
    ASSUME CallOK, TypeOK, NEW p \in Nat, NEW part, NEW len \in Nat, NEW next \in {"data", "count"},
           todo # << >>, WritePart(p, part, len, next)
    PROVE  /\ CallOK'
           /\ stage' \in {next, "ready", "dropped"}
           /\ \E n \in 0 .. len : log' = Written(p, Head(todo), part, n)
           /\ \A q \in DOMAIN log' : q \in Nat
<1>1. CASE /\ log' = Written(p, Head(todo), part, len)
           /\ stage' = next
           /\ UNCHANGED <<todo, status, made>>
  <2>1. CallOK'
    BY <1>1 DEF CallOK
  <2>2. \A q \in DOMAIN log' : q \in Nat
    BY <1>1, WrittenDomain DEF TypeOK
  <2>3. len \in 0 .. len
    OBVIOUS
  <2> QED
    BY Zenon, <1>1, <2>1, <2>2, <2>3
<1>2. ASSUME NEW n \in 0 .. len - 1, log' = Written(p, Head(todo), part, n), Fail("Io")
      PROVE  /\ CallOK'
             /\ stage' \in {next, "ready", "dropped"}
             /\ \E k \in 0 .. len : log' = Written(p, Head(todo), part, k)
             /\ \A q \in DOMAIN log' : q \in Nat
  <2>1. CallOK'
    BY <1>2, FailOK DEF CallOK
  <2>2. stage' \in {"ready", "dropped"}
    BY <1>2 DEF Fail
  <2>3. n \in 0 .. len
    BY <1>2
  <2>4. \A q \in DOMAIN log' : q \in Nat
    BY <1>2, WrittenDomain DEF TypeOK
  <2> QED
    BY Zenon, <1>2, <2>1, <2>2, <2>3, <2>4
<1> QED
  BY <1>1, <1>2 DEF WritePart

-----------------------------------------------------------------------------
(* One lemma for each action *)

\* What is well formed besides the running call.
DataOK ==
    /\ kind \in {"Fixed", "Dynamic", "Diff"} /\ handle \in {"opened", "created"}
    /\ header \in Headers /\ stored \in Headers /\ good \in Headers
    /\ \A p \in DOMAIN log : p \in Nat
    /\ updates \in Seq([rec : Records, at : Nat])
    /\ pos \in Nat
    /\ calls \in 0 .. MaxCalls
    /\ asked \in [block : Nat \cup {NoBlock}, mode : Modes, after : Nat]

LEMMA TypeParts ==
    /\ TypeOK <=> DataOK /\ CallOK
    /\ TypeOK' <=> DataOK' /\ CallOK'
BY DEF TypeOK, DataOK, CallOK

LEMMA InitInv == Init => Inv
<1> SUFFICES ASSUME Init PROVE Inv
  OBVIOUS
<1>1. DataOK
  BY NewHeadersAreHeaders, JournalAssumption DEF Init, DataOK, Modes
<1>2. CallOK
  <2>1. made \in BOOLEAN
    BY Zenon DEF Init
  <2>2. todo \in Seq(Records) /\ stage = "start" /\ status = "none"
    BY DEF Init
  <2> QED
    BY <2>1, <2>2 DEF CallOK
<1>3. Place
  BY JournalAssumption DEF Init, Place, EndOf, NewHeader, NoHeader, Writing
<1>4. RecordsTile
  BY DEF Init, RecordsTile
<1> QED
  BY <1>1, <1>2, <1>3, <1>4, TypeParts DEF Inv

\* A step that appends no record to those that are counted moves none of them.
LEMMA SameRecords ==
    ASSUME Inv, UNCHANGED <<handle, header, updates>>
    PROVE  RecordsTile' /\ header'.eof = EndOf(Len(updates))'
<1>1. \A n : EndOf(n)' = EndOf(n)
  BY DEF EndOf, RecordLen, DataLen
<1>2. \A i \in 1 .. Len(updates) : updates[i].at = EndOf(i - 1)'
  BY <1>1 DEF Inv, RecordsTile
<1>3. RecordsTile'
  BY <1>2 DEF RecordsTile
<1> QED
  BY <1>1, <1>3 DEF Inv, Place

LEMMA CreateInv ==
    ASSUME Inv, Create
    PROVE  Inv'
<1>1. DataOK /\ CallOK
  BY TypeParts DEF Inv
<1>2. /\ WriteHeader(header, MetadataRecords)
      /\ UNCHANGED <<kind, handle, header, log, updates, pos, calls, asked>>
  BY DEF Create, image
<1>3. CallOK' /\ stage' \notin Writing /\ stored' \in Headers /\ good' \in Headers
  BY <1>1, <1>2, WriteHeaderOK, MetadataRecordsType DEF DataOK, CallOK
<1>4. DataOK'
  BY <1>1, <1>2, <1>3 DEF DataOK
<1> QED
  BY <1>2, <1>3, <1>4, SameRecords, TypeParts DEF Inv, Place

LEMMA AddBlockInv ==
    ASSUME Inv, NEW b \in Blocks, NEW mode \in Modes, AddBlock(b, mode)
    PROVE  Inv'
<1>1. DataOK /\ CallOK
  BY TypeParts DEF Inv
<1>2. /\ calls' = calls + 1 /\ calls < MaxCalls
      /\ asked' = [block |-> b, mode |-> mode, after |-> Len(updates)]
      /\ UNCHANGED <<kind, handle, header, stored, good, log, updates, pos>>
      /\ Fail("NeedDyncOrDiffImage") \/ GoOn(BlockRecords(b, mode))
  BY DEF AddBlock, image
<1>3. CallOK' /\ stage' \notin Writing
  BY <1>1, <1>2, FailOK, GoOnOK, BlockRecordsType DEF CallOK
<1>4. calls' \in 0 .. MaxCalls
  BY <1>1, <1>2, JournalAssumption DEF DataOK
<1>5. asked' \in [block : Nat \cup {NoBlock}, mode : Modes, after : Nat]
  <2>1. b \in Nat /\ Len(updates) \in Nat
    BY <1>1, JournalAssumption DEF DataOK
  <2> QED
    BY <1>2, <2>1
<1>6. DataOK'
  BY <1>1, <1>2, <1>4, <1>5 DEF DataOK
<1> QED
  BY <1>2, <1>3, <1>6, SameRecords, TypeParts DEF Inv, Place

LEMMA FetchInv ==
    ASSUME Inv, Fetch
    PROVE  Inv'
<1>1. DataOK /\ CallOK
  BY TypeParts DEF Inv
<1>2. /\ stage = "fetch" /\ pos' = header.eof
      /\ UNCHANGED <<kind, handle, header, stored, good, log, updates, calls, asked>>
  BY DEF Fetch, NextPos, image
<1>3. \/ stage' = "entry" /\ UNCHANGED <<todo, status, made>>
      \/ Fail("DataRefused")
      \/ Panic
  BY DEF Fetch
<1>4. CallOK'
  <2>1. CASE stage' = "entry" /\ UNCHANGED <<todo, status, made>>
    BY <1>1, <1>2, <2>1 DEF CallOK
  <2>2. CASE Fail("DataRefused") \/ Panic
    BY <1>1, <2>2, FailOK, PanicOK DEF CallOK
  <2> QED
    BY <1>3, <2>1, <2>2
<1>5. DataOK'
  BY <1>1, <1>2 DEF DataOK, Headers
<1> QED
  BY <1>2, <1>4, <1>5, SameRecords, TypeParts DEF Inv, Place

\* A write of a part of the record that is being appended.
LEMMA WriteRecordInv ==
    ASSUME Inv, WriteEntry \/ WriteData
    PROVE  /\ Inv'
           /\ UNCHANGED <<header, updates>>
           /\ \E p \in Nat, part \in {"entry", "data"}, n \in Nat :
                 p >= header.eof /\ log' = Written(p, Head(todo), part, n)
<1>1. DataOK /\ CallOK
  BY TypeParts DEF Inv
<1>2. /\ UNCHANGED <<kind, handle, header, stored, good, updates, pos, calls, asked>>
      /\ stage \in Writing /\ todo # << >>
  BY <1>1 DEF WriteEntry, WriteData, image, Writing, CallOK
<1>3. pos = header.eof /\ pos \in Nat /\ Head(todo) \in Records
  BY <1>1, <1>2 DEF Inv, Place, DataOK, CallOK
<1>4. EntrySize \in Nat /\ pos + EntrySize \in Nat /\ DataLen(Head(todo)) \in Nat
  BY <1>3, LengthsAreNat, JournalAssumption
<1>5. PICK p \in Nat, part \in {"entry", "data"}, len \in Nat, next \in {"data", "count"} :
          p >= header.eof /\ WritePart(p, part, len, next)
  <2>1. CASE WriteEntry
    BY <1>3, <1>4, <2>1 DEF WriteEntry
  <2>2. CASE WriteData
    BY <1>3, <1>4, <2>2 DEF WriteData
  <2> QED
    BY <2>1, <2>2
<1>6. /\ CallOK' /\ \A q \in DOMAIN log' : q \in Nat
      /\ \E n \in 0 .. len : log' = Written(p, Head(todo), part, n)
  BY Zenon, <1>1, <1>2, <1>5, WritePartOK DEF Inv
<1>7. DataOK'
  BY <1>1, <1>2, <1>6 DEF DataOK
<1>8. Inv'
  BY <1>2, <1>3, <1>6, <1>7, SameRecords, TypeParts DEF Inv, Place
<1>9. \A n \in 0 .. len : n \in Nat
  OBVIOUS
<1> QED
  BY Zenon, <1>2, <1>5, <1>6, <1>8, <1>9

LEMMA CountInv ==
    ASSUME Inv, Count
    PROVE  Inv'
<1> DEFINE r == Head(todo)
           u == [rec |-> r, at |-> pos]
<1>1. DataOK /\ CallOK
  BY TypeParts DEF Inv
<1>2. /\ stage = "count" /\ header' = Counted(r) /\ updates' = Append(updates, u)
      /\ WriteHeader(header', Tail(todo))
      /\ UNCHANGED <<kind, handle, log, pos, calls, asked>>
  BY DEF Count, image
<1>3. todo # << >> /\ pos = header.eof /\ pos \in Nat
  BY <1>1, <1>2 DEF Inv, Place, DataOK, CallOK, Writing
<1>4. r \in Records /\ Tail(todo) \in Seq(Records)
  BY <1>1, <1>3 DEF CallOK
<1>5. header' \in Headers /\ header'.eof = pos + RecordLen(r)
  BY <1>1, <1>2, <1>3, <1>4, CountedIsHeader DEF DataOK
<1>6. CallOK' /\ stage' \notin Writing /\ stored' \in Headers /\ good' \in Headers
  BY <1>1, <1>2, <1>4, <1>5, WriteHeaderOK DEF DataOK, CallOK
<1>7. u \in [rec : Records, at : Nat]
  BY <1>3, <1>4
<1>8. PICK n \in Nat : n = Len(updates)
  BY <1>1 DEF DataOK
<1>9. /\ updates' \in Seq([rec : Records, at : Nat]) /\ Len(updates') = n + 1
      /\ updates'[n + 1] = u /\ \A i \in 1 .. n : updates'[i] = updates[i]
  <2> HIDE DEF u
  <2> QED
    BY <1>1, <1>2, <1>7, <1>8 DEF DataOK
<1>10. DataOK'
  BY <1>1, <1>2, <1>5, <1>6, <1>9 DEF DataOK
<1>11. \A i \in 0 .. n : EndOf(i)' = EndOf(i)
  BY <1>2, <1>9 DEF EndOf, RecordLen, DataLen
<1>12. EndOf(n + 1)' = pos + RecordLen(r)
  BY <1>2, <1>9 DEF EndOf, RecordLen, DataLen
<1>13. ASSUME NEW i \in 1 .. n + 1 PROVE updates'[i].at = EndOf(i - 1)'
  <2>1. CASE i \in 1 .. n
    BY <1>9, <1>11, <1>8, <2>1 DEF Inv, RecordsTile
  <2>2. CASE i = n + 1
    BY <1>3, <1>9, <1>11, <1>8, <2>2 DEF Inv, Place
  <2> QED
    BY <1>9, <2>1, <2>2
<1>14. RecordsTile'
  BY <1>9, <1>13 DEF RecordsTile
<1>15. Place'
  BY <1>5, <1>6, <1>9, <1>12 DEF Place
<1> QED
  BY <1>6, <1>10, <1>14, <1>15, TypeParts DEF Inv

LEMMA Invariance == Spec => []Inv
<1>1. Inv /\ [Next]_vars => Inv'
  <2> SUFFICES ASSUME Inv, [Next]_vars PROVE Inv'
    OBVIOUS
  <2>1. CASE UNCHANGED vars
    <3>1. UNCHANGED <<kind, handle, header, stored, good, log, updates, todo, pos, stage, status,
                      made, calls, asked>>
      BY <2>1 DEF vars, image
    <3>2. DataOK' /\ CallOK'
      BY <3>1, TypeParts DEF Inv, DataOK, CallOK
    <3> QED
      BY <3>1, <3>2, SameRecords, TypeParts DEF Inv, Place
  <2> QED
    BY <2>1, CreateInv, AddBlockInv, FetchInv, WriteRecordInv, CountInv DEF Next
<1> QED
  BY <1>1, InitInv, PTL DEF Spec

-----------------------------------------------------------------------------
\* The journal's state stays well formed, whatever fails and however its headers are torn
\* (journal.rs:113-325).
THEOREM Typing == Spec => []TypeOK
<1>1. Inv => TypeOK
  BY DEF Inv
<1> QED
  BY <1>1, Invariance, PTL

\* Records lie end to end behind the header, also those that were appended after a
\* failure half-way through another (journal.rs:293-325).
THEOREM RecordsTileAlways == Spec => []RecordsTile
<1>1. Inv => RecordsTile
  BY DEF Inv
<1> QED
  BY <1>1, Invariance, PTL

\* No step overwrites a byte of a record that the header in memory ever counted
\* (journal.rs:210, 293-299).
THEOREM CountedBytesStayAlways == Spec => CountedBytesStay
<1> DEFINE Keeps == \A p \in DOMAIN log : p < header.eof => log'[p] = log[p]
<1>1. Inv /\ [Next]_vars => [Keeps]_vars
  <2> SUFFICES ASSUME Inv, Next PROVE Keeps
    OBVIOUS
  <2>1. CASE WriteEntry \/ WriteData
    <3>1. PICK p \in Nat, part \in {"entry", "data"}, n \in Nat :
              p >= header.eof /\ log' = Written(p, Head(todo), part, n)
      BY <2>1, WriteRecordInv
    <3>2. header.eof \in Nat /\ \A q \in DOMAIN log : q \in Nat
      BY DEF Inv, TypeOK, Headers
    <3>3. ASSUME NEW q \in DOMAIN log, q < header.eof PROVE q \notin p .. p + n - 1
      BY <3>1, <3>2, <3>3
    <3> QED
      BY <3>1, <3>3 DEF Written
  <2>2. CASE UNCHANGED log
    BY <2>2
  <2> QED
    BY <2>1, <2>2 DEF Next, Create, AddBlock, Fetch, Count
<1> QED
  BY <1>1, Invariance, PTL DEF Spec, CountedBytesStay

-----------------------------------------------------------------------------
(* The records of a kind, of any sequence of records *)

Of(u, T, n) == {i \in 1 .. n : u[i].rec.type \in T}
First(u, T, n) ==
    IF Of(u, T, n) = {} THEN 0
    ELSE u[CHOOSE i \in Of(u, T, n) : \A j \in Of(u, T, n) : i <= j].at

LEMMA OfIsFinite ==
    ASSUME NEW u, NEW T, NEW n \in Nat
    PROVE  /\ IsFiniteSet(Of(u, T, n)) /\ Of(u, T, n) \subseteq 1 .. n
           /\ Cardinality(Of(u, T, n)) \in Nat
           /\ Cardinality(Of(u, T, n)) = 0 <=> Of(u, T, n) = {}
<1>1. Of(u, T, n) \in SUBSET (1 .. n)
  BY Zenon DEF Of
<1>2. IsFiniteSet(1 .. n)
  BY FS_Interval
<1>3. IsFiniteSet(Of(u, T, n))
  BY Zenon, <1>1, <1>2, FS_Subset
<1> QED
  BY Zenon, <1>1, <1>3, FS_CardinalityType, FS_EmptySet

LEMMA FirstIs ==
    ASSUME NEW u, NEW T, NEW n \in Nat, NEW m \in Of(u, T, n),
           \A j \in Of(u, T, n) : m <= j
    PROVE  First(u, T, n) = u[m].at
<1> DEFINE c == CHOOSE i \in Of(u, T, n) : \A j \in Of(u, T, n) : i <= j
<1>1. c \in Of(u, T, n) /\ \A j \in Of(u, T, n) : c <= j
  BY Zenon
<1>2. c <= m /\ m <= c
  BY Zenon, <1>1
<1>3. c \in Nat /\ m \in Nat
  BY <1>1, OfIsFinite
<1>4. c = m
  <2> HIDE DEF c
  <2> QED
    BY <1>2, <1>3
<1> QED
  BY Zenon, <1>4 DEF First

LEMMA FirstIsThere ==
    ASSUME NEW u, NEW T, NEW n \in Nat, Of(u, T, n) # {}
    PROVE  \E m \in Of(u, T, n) : \A j \in Of(u, T, n) : m <= j
<1>1. Of(u, T, n) \subseteq Nat
  BY OfIsFinite
<1>2. PICK m \in Of(u, T, n) : \A j \in Of(u, T, n) : <<j, m>> \notin OpToRel(<, Nat)
  BY Zenon, <1>1, WFMin, NatLessThanWellFounded
<1>3. \A j \in Of(u, T, n) : ~(j < m)
  BY Zenon, <1>1, <1>2 DEF OpToRel
<1>4. \A j \in Of(u, T, n) : m <= j
  BY <1>1, <1>3
<1> QED
  BY Zenon, <1>4

LEMMA SameBeginning ==
    ASSUME NEW u, NEW w, NEW T, NEW n \in Nat, \A i \in 1 .. n : w[i] = u[i]
    PROVE  Of(w, T, n) = Of(u, T, n) /\ First(w, T, n) = First(u, T, n)
<1>1. Of(w, T, n) = Of(u, T, n)
  BY DEF Of
<1>2. CASE Of(u, T, n) = {}
  BY Zenon, <1>1, <1>2 DEF First
<1>3. CASE Of(u, T, n) # {}
  <2>1. PICK m \in Of(u, T, n) : \A j \in Of(u, T, n) : m <= j
    BY Zenon, <1>3, FirstIsThere
  <2>2. First(u, T, n) = u[m].at
    BY Zenon, <2>1, FirstIs
  <2>3. m \in Of(w, T, n) /\ \A j \in Of(w, T, n) : m <= j
    BY Zenon, <1>1, <2>1
  <2>4. First(w, T, n) = w[m].at
    BY Zenon, <2>3, FirstIs
  <2>5. m \in 1 .. n
    BY Zenon, OfIsFinite
  <2> QED
    BY Zenon, <1>1, <2>2, <2>5, <2>4
<1> QED
  BY Zenon, <1>2, <1>3

LEMMA OneMore ==
    ASSUME NEW u, NEW T, NEW n \in Nat, u[n + 1].rec.type \in T
    PROVE  /\ Cardinality(Of(u, T, n + 1)) = Cardinality(Of(u, T, n)) + 1
           /\ First(u, T, n + 1) = IF Cardinality(Of(u, T, n)) = 0 THEN u[n + 1].at
                                   ELSE First(u, T, n)
<1>1. Of(u, T, n + 1) = Of(u, T, n) \cup {n + 1}
  BY DEF Of
<1>2. n + 1 \notin Of(u, T, n) /\ IsFiniteSet(Of(u, T, n))
  BY OfIsFinite
<1>3. Cardinality(Of(u, T, n + 1)) = Cardinality(Of(u, T, n)) + 1
  BY Zenon, <1>1, <1>2, FS_AddElement
<1>4. CASE Of(u, T, n) = {}
  <2>1. Of(u, T, n + 1) = {n + 1}
    BY <1>1, <1>4
  <2>2. First(u, T, n + 1) = u[n + 1].at
    BY <2>1, FirstIs
  <2> QED
    BY Zenon, <1>3, <1>4, <2>2, OfIsFinite
<1>5. CASE Of(u, T, n) # {}
  <2>1. PICK m \in Of(u, T, n) : \A j \in Of(u, T, n) : m <= j
    BY Zenon, <1>5, FirstIsThere
  <2>2. m \in 1 .. n
    BY Zenon, OfIsFinite
  <2>3. m \in Of(u, T, n + 1) /\ \A j \in Of(u, T, n + 1) : m <= j
    BY <1>1, <2>1, <2>2
  <2>4. First(u, T, n) = u[m].at
    BY Zenon, <2>1, FirstIs
  <2>5. First(u, T, n + 1) = u[m].at
    BY <2>3, FirstIs
  <2> QED
    BY Zenon, <1>3, <1>5, <2>4, <2>5, OfIsFinite
<1> QED
  BY Zenon, <1>4, <1>5

LEMMA NoneMore ==
    ASSUME NEW u, NEW T, NEW n \in Nat, u[n + 1].rec.type \notin T
    PROVE  Of(u, T, n + 1) = Of(u, T, n) /\ First(u, T, n + 1) = First(u, T, n)
<1>1. Of(u, T, n + 1) = Of(u, T, n)
  BY DEF Of
<1>2. CASE Of(u, T, n) = {}
  BY Zenon, <1>1, <1>2 DEF First
<1>3. CASE Of(u, T, n) # {}
  <2>1. PICK m \in Of(u, T, n) : \A j \in Of(u, T, n) : m <= j
    BY Zenon, <1>3, FirstIsThere
  <2>2. First(u, T, n) = u[m].at
    BY Zenon, <2>1, FirstIs
  <2>3. m \in Of(u, T, n + 1) /\ \A j \in Of(u, T, n + 1) : m <= j
    BY Zenon, <1>1, <2>1
  <2>4. First(u, T, n + 1) = u[m].at
    BY <2>3, FirstIs
  <2> QED
    BY Zenon, <1>1, <2>2, <2>4
<1> QED
  BY Zenon, <1>2, <1>3

LEMMA TwoKinds ==
    ASSUME NEW u, NEW n \in Nat, \A i \in 1 .. n : u[i].rec.type \in RecordTypes
    PROVE  Cardinality(Of(u, DataTypes, n)) + Cardinality(Of(u, MetadataTypes, n)) = n
<1> DEFINE D == Of(u, DataTypes, n)
           M == Of(u, MetadataTypes, n)
<1>1. IsFiniteSet(D) /\ IsFiniteSet(M) /\ Cardinality(D) \in Nat /\ Cardinality(M) \in Nat
  BY Zenon, OfIsFinite
<1>2. D \cup M = 1 .. n
  BY DEF Of, RecordTypes
<1>3. D \cap M = {}
  BY DEF Of, DataTypes, MetadataTypes
<1>4. Cardinality(D \cup M) = Cardinality(D) + Cardinality(M) - Cardinality(D \cap M)
  BY Zenon, <1>1, FS_Union
<1>5. Cardinality(1 .. n) = n
  BY FS_Interval
<1>6. Cardinality(D \cap M) = 0
  BY Zenon, <1>3, FS_EmptySet
<1>7. Cardinality(D \cup M) = n
  BY Zenon, <1>2, <1>5
<1> HIDE DEF D, M
<1>8. Cardinality(D) + Cardinality(M) = n
  BY <1>1, <1>4, <1>6, <1>7
<1> QED
  BY Zenon, <1>8 DEF D, M
-----------------------------------------------------------------------------
(* What is in the file *)

\* The counts and offsets of a header, for the first n records of a sequence.
Sums(h, u, n) ==
    /\ h.dataEntries = Cardinality(Of(u, DataTypes, n))
    /\ h.metadataEntries = Cardinality(Of(u, MetadataTypes, n))
    /\ h.dataOffset = First(u, DataTypes, n)
    /\ h.metadataOffset = First(u, MetadataTypes, n)

Counts   == Sums(header, updates, Len(updates))
Below    == \A i \in 1 .. Len(updates) :
               updates[i].at + RecordLen(updates[i].rec) <= header.eof
InLog    == \A i \in 1 .. Len(updates) : InFile(updates[i])
Half     == /\ stage \in {"data", "count"} => Holds(pos, Head(todo), "entry", EntrySize)
            /\ stage = "count" =>
                  Holds(pos + EntrySize, Head(todo), "data", DataLen(Head(todo)))
GoodOnes == good # NoHeader => \E k \in 0 .. Len(updates) : Describes(good, k)
Last     == status \in {"ok", "none"} /\ Len(updates) > asked.after => stored = header

\* The header in memory describes all the records it counts, they are in the file,
\* and so is what was written of the next; a header that was written completely
\* describes some of them; and the last one is in the file unless a call failed
\* after it.
FileInv == Inv /\ Counts /\ Below /\ InLog /\ Half /\ GoodOnes /\ Last

LEMMA DescribesIsSums ==
    ASSUME NEW h, NEW n
    PROVE  /\ Describes(h, n) <=>
                 n <= Len(updates) /\ h.eof = EndOf(n) /\ Sums(h, updates, n)
           /\ Describes(h, n)' <=>
                 n <= Len(updates') /\ h'.eof = EndOf(n)' /\ Sums(h', updates', n')
BY DEF Describes, Sums, Updates, FirstOf, Of, First

LEMMA CountedFields ==
    ASSUME header \in Headers, NEW r \in Records
    PROVE  /\ r.type \in DataTypes =>
                 /\ Counted(r).dataEntries = header.dataEntries + 1
                 /\ Counted(r).dataOffset =
                       IF header.dataEntries = 0 THEN header.eof ELSE header.dataOffset
                 /\ Counted(r).metadataEntries = header.metadataEntries
                 /\ Counted(r).metadataOffset = header.metadataOffset
           /\ r.type \notin DataTypes =>
                 /\ Counted(r).metadataEntries = header.metadataEntries + 1
                 /\ Counted(r).metadataOffset =
                       IF header.metadataEntries = 0 THEN header.eof
                       ELSE header.metadataOffset
                 /\ Counted(r).dataEntries = header.dataEntries
                 /\ Counted(r).dataOffset = header.dataOffset
<1>1. CASE r.type \in DataTypes
  BY <1>1 DEF Counted, Headers
<1>2. CASE r.type \notin DataTypes
  BY <1>2 DEF Counted, Headers
<1> QED
  BY Zenon, <1>1, <1>2

\* The header Counted makes describes the records with the new one.
LEMMA CountedSums ==
    ASSUME header \in Headers, NEW r \in Records, NEW n \in Nat, Sums(header, updates, n),
           NEW w, \A i \in 1 .. n : w[i] = updates[i],
           w[n + 1].rec = r, w[n + 1].at = header.eof
    PROVE  Sums(Counted(r), w, n + 1)
<1>1. /\ Of(w, DataTypes, n) = Of(updates, DataTypes, n)
      /\ First(w, DataTypes, n) = First(updates, DataTypes, n)
      /\ Of(w, MetadataTypes, n) = Of(updates, MetadataTypes, n)
      /\ First(w, MetadataTypes, n) = First(updates, MetadataTypes, n)
  <2>1. ASSUME NEW T
        PROVE  Of(w, T, n) = Of(updates, T, n) /\ First(w, T, n) = First(updates, T, n)
    BY SameBeginning
  <2> QED
    BY Zenon, <2>1
<1>2. CASE r.type \in DataTypes
  <2>1. w[n + 1].rec.type \in DataTypes /\ w[n + 1].rec.type \notin MetadataTypes
    BY <1>2 DEF DataTypes, MetadataTypes
  <2>2. /\ Cardinality(Of(w, DataTypes, n + 1)) = Cardinality(Of(w, DataTypes, n)) + 1
        /\ First(w, DataTypes, n + 1) = IF Cardinality(Of(w, DataTypes, n)) = 0
                                        THEN w[n + 1].at ELSE First(w, DataTypes, n)
    BY Zenon, <2>1, OneMore
  <2>3. /\ Of(w, MetadataTypes, n + 1) = Of(w, MetadataTypes, n)
        /\ First(w, MetadataTypes, n + 1) = First(w, MetadataTypes, n)
    BY Zenon, <2>1, NoneMore
  <2> QED
    BY Zenon, <1>1, <1>2, <2>2, <2>3, CountedFields DEF Sums
<1>3. CASE r.type \notin DataTypes
  <2>1. w[n + 1].rec.type \notin DataTypes /\ w[n + 1].rec.type \in MetadataTypes
    BY <1>3 DEF Records, RecordTypes
  <2>2. /\ Cardinality(Of(w, MetadataTypes, n + 1)) = Cardinality(Of(w, MetadataTypes, n)) + 1
        /\ First(w, MetadataTypes, n + 1) = IF Cardinality(Of(w, MetadataTypes, n)) = 0
                                            THEN w[n + 1].at ELSE First(w, MetadataTypes, n)
    BY Zenon, <2>1, OneMore
  <2>3. /\ Of(w, DataTypes, n + 1) = Of(w, DataTypes, n)
        /\ First(w, DataTypes, n + 1) = First(w, DataTypes, n)
    BY Zenon, <2>1, NoneMore
  <2> QED
    BY Zenon, <1>1, <1>3, <2>2, <2>3, CountedFields DEF Sums
<1> QED
  BY Zenon, <1>2, <1>3

\* A write behind the records leaves them where they are, and puts its own bytes.
LEMMA WriteKeeps ==
    ASSUME NEW p \in Nat, NEW r, NEW part, NEW n \in Nat, log' = Written(p, r, part, n),
           NEW q \in Nat, NEW s, NEW some, NEW m \in Nat, q + m <= p, Holds(q, s, some, m)
    PROVE  Holds(q, s, some, m)'
<1>1. \A x \in q .. q + m - 1 : x \notin p .. p + n - 1
  OBVIOUS
<1> QED
  BY <1>1 DEF Holds, Written

LEMMA RecordStays ==
    ASSUME NEW u \in [rec : Records, at : Nat], InFile(u), UNCHANGED handle,
           NEW p \in Nat, NEW r, NEW part, NEW n \in Nat, log' = Written(p, r, part, n),
           u.at + RecordLen(u.rec) <= p
    PROVE  InFile(u)'
<1>1. u.at \in Nat /\ u.rec \in Records
  OBVIOUS
<1>2. PICK a \in Nat, d \in Nat : a = u.at /\ d = DataLen(u.rec)
  BY Zenon, <1>1, LengthsAreNat
<1>3. EntrySize \in Nat
  BY JournalAssumption
<1>4. a + EntrySize \in Nat /\ a + EntrySize + d <= p /\ a + EntrySize <= p
  BY <1>2, <1>3 DEF RecordLen
<1>5. Holds(a, u.rec, "entry", EntrySize) /\ Holds(a + EntrySize, u.rec, "data", d)
  BY Zenon, <1>2 DEF InFile
<1>6. Holds(a, u.rec, "entry", EntrySize)'
  BY Zenon, <1>3, <1>4, <1>5, WriteKeeps
<1>7. Holds(a + EntrySize, u.rec, "data", d)'
  BY Zenon, <1>4, <1>5, WriteKeeps
<1>8. DataLen(u.rec)' = d
  BY <1>2 DEF DataLen
<1> QED
  BY Zenon, <1>2, <1>6, <1>7, <1>8 DEF InFile

LEMMA InitFile == Init => FileInv
<1> SUFFICES ASSUME Init PROVE FileInv
  OBVIOUS
<1>1. /\ updates = << >> /\ Len(updates) = 0 /\ stage = "start" /\ good = NoHeader
      /\ asked.after = 0 /\ header = [NoHeader EXCEPT !.eof = HeaderSize]
  BY DEF Init, NewHeader
<1>2. Counts
  <2>1. ASSUME NEW T PROVE Of(updates, T, 0) = {}
    BY DEF Of
  <2>2. ASSUME NEW T PROVE Cardinality(Of(updates, T, 0)) = 0 /\ First(updates, T, 0) = 0
    BY Zenon, <2>1, FS_EmptySet DEF First
  <2>3. /\ header.dataEntries = 0 /\ header.metadataEntries = 0
        /\ header.dataOffset = 0 /\ header.metadataOffset = 0
    BY <1>1 DEF NoHeader
  <2> QED
    BY Zenon, <1>1, <2>2, <2>3 DEF Counts, Sums
<1> QED
  BY <1>1, <1>2, InitInv DEF FileInv, Below, InLog, Half, GoodOnes, Last

\* A step that appends no record keeps what is in the file, where the bytes of the
\* records stay.
LEMMA FileStays ==
    ASSUME FileInv, UNCHANGED <<handle, header, updates>>,
           \A i \in 1 .. Len(updates) : InFile(updates[i])'
    PROVE  /\ Counts' /\ Below' /\ InLog'
           /\ good' \in {good, header} => GoodOnes'
<1>1. Counts' /\ Below' /\ InLog'
  BY DEF FileInv, Counts, Below, InLog, RecordLen, DataLen
<1>2. ASSUME NEW k PROVE Describes(good, k) => Describes(good, k)' \/ good' # good
  BY DEF Describes, EndOf, RecordLen, DataLen, Updates, FirstOf
<1>3. Describes(header, Len(updates))'
  <2>1. header'.eof = EndOf(Len(updates))' /\ Sums(header', updates', Len(updates'))
    BY <1>1, SameRecords DEF FileInv, Counts
  <2>2. Len(updates) \in Nat
    BY DEF FileInv, Inv, TypeOK
  <2> QED
    BY <2>1, <2>2, DescribesIsSums
<1>4. ASSUME good' = good PROVE GoodOnes'
  <2>1. CASE good = NoHeader
    BY <1>4, <2>1 DEF GoodOnes
  <2>2. CASE good # NoHeader
    <3>1. PICK k \in 0 .. Len(updates) : Describes(good, k)
      BY <2>2 DEF FileInv, GoodOnes
    <3>2. Describes(good, k)'
      BY Zenon, <1>2, <1>4, <3>1
    <3>3. k \in 0 .. Len(updates')
      BY <3>1
    <3> QED
      BY Zenon, <3>2, <3>3 DEF GoodOnes
  <2> QED
    BY <2>1, <2>2
<1>5. ASSUME good' = header PROVE GoodOnes'
  <2>1. Describes(good, Len(updates))'
    BY <1>3, <1>5 DEF Describes
  <2>2. Len(updates') \in 0 .. Len(updates')
    BY DEF FileInv, Inv, TypeOK
  <2> QED
    BY Zenon, <2>1, <2>2 DEF GoodOnes
<1> QED
  BY <1>1, <1>4, <1>5

LEMMA CreateFile ==
    ASSUME FileInv, Create
    PROVE  FileInv'
<1>1. Inv' /\ stage' \notin {"data", "count"}
  <2>1. made \in BOOLEAN /\ stored \in Headers /\ good \in Headers /\ header \in Headers
    BY DEF FileInv, Inv, TypeOK
  <2>2. stage' \notin Writing
    BY <2>1, WriteHeaderOK, MetadataRecordsType DEF Create
  <2> QED
    BY <2>2, CreateInv DEF FileInv, Writing
<1>2. UNCHANGED <<handle, header, updates, log, asked>>
  BY DEF Create, image
<1>3. \/ stored' = header /\ good' = header
      \/ good' = good /\ status' = "Io"
  BY DEF Create, WriteHeader, Fail
<1>4. \A i \in 1 .. Len(updates) : InFile(updates[i])'
  BY <1>2 DEF FileInv, InLog, InFile, Holds, DataLen
<1>5. Counts' /\ Below' /\ InLog' /\ GoodOnes'
  BY Zenon, <1>2, <1>3, <1>4, FileStays
<1> QED
  BY <1>1, <1>2, <1>3, <1>5 DEF FileInv, Half, Last

LEMMA AddBlockFile ==
    ASSUME FileInv, NEW b \in Blocks, NEW mode \in Modes, AddBlock(b, mode)
    PROVE  FileInv'
<1>1. Inv' /\ stage' \notin {"data", "count"}
  BY AddBlockInv DEF FileInv, AddBlock, Fail, GoOn
<1>2. /\ UNCHANGED <<handle, header, updates, log, stored, good>>
      /\ asked' = [block |-> b, mode |-> mode, after |-> Len(updates)]
  BY DEF AddBlock, image
<1>3. \A i \in 1 .. Len(updates) : InFile(updates[i])'
  BY <1>2 DEF FileInv, InLog, InFile, Holds, DataLen
<1>4. Counts' /\ Below' /\ InLog' /\ GoodOnes'
  BY Zenon, <1>2, <1>3, FileStays
<1>5. Last'
  <2>1. Len(updates) \in Nat
    BY DEF FileInv, Inv, TypeOK
  <2> QED
    BY <1>2, <2>1 DEF Last
<1> QED
  BY <1>1, <1>4, <1>5 DEF FileInv, Half

LEMMA FetchFile ==
    ASSUME FileInv, Fetch
    PROVE  FileInv'
<1>1. Inv' /\ stage' \notin {"data", "count"}
  BY FetchInv DEF FileInv, Fetch, Fail, Panic
<1>2. /\ UNCHANGED <<handle, header, updates, log, stored, good, asked>>
      /\ UNCHANGED status \/ status' \in {"DataRefused", "panic"}
  BY DEF Fetch, image, Fail, Panic
<1>3. \A i \in 1 .. Len(updates) : InFile(updates[i])'
  BY <1>2 DEF FileInv, InLog, InFile, Holds, DataLen
<1>4. Counts' /\ Below' /\ InLog' /\ GoodOnes'
  BY Zenon, <1>2, <1>3, FileStays
<1> QED
  BY <1>1, <1>2, <1>4 DEF FileInv, Half, Last
LEMMA WriteFile ==
    ASSUME FileInv, WriteEntry \/ WriteData
    PROVE  FileInv'
<1> DEFINE r == Head(todo)
<1>1. Inv' /\ UNCHANGED <<handle, header, updates, stored, good, asked, pos>>
  BY WriteRecordInv DEF FileInv, WriteEntry, WriteData, image
<1>2. /\ header.eof \in Nat /\ pos = header.eof /\ r \in Records /\ todo # << >>
      /\ stage \in Writing
  <2>1. stage \in Writing
    BY DEF WriteEntry, WriteData, Writing
  <2>2. todo # << >> /\ todo \in Seq(Records) /\ header \in Headers
    BY <2>1 DEF FileInv, Inv, TypeOK, Writing
  <2>3. r \in Records
    BY <2>2
  <2> QED
    BY <2>1, <2>2, <2>3 DEF FileInv, Inv, Place, Headers
<1>3. DataLen(r) \in Nat /\ EntrySize \in Nat
  BY Zenon, <1>2, LengthsAreNat, JournalAssumption
<1>4. PICK p \in Nat, part \in {"entry", "data"}, n \in Nat :
          p >= header.eof /\ log' = Written(p, Head(todo), part, n)
  BY WriteRecordInv DEF FileInv
<1>5. ASSUME NEW i \in 1 .. Len(updates) PROVE InFile(updates[i])'
  <2>1. PICK u \in [rec : Records, at : Nat] : u = updates[i]
    <3>1. updates \in Seq([rec : Records, at : Nat])
      BY DEF FileInv, Inv, TypeOK
    <3>2. updates[i] \in [rec : Records, at : Nat]
      BY Zenon, <3>1, ElementOfSeq
    <3> QED
      BY Zenon, <3>2
  <2>2. InFile(u)
    BY Zenon, <2>1 DEF FileInv, InLog
  <2>3. u.at + RecordLen(u.rec) <= p
    <3>1. u.at + RecordLen(u.rec) <= header.eof
      BY Zenon, <2>1 DEF FileInv, Below
    <3>2. u.at \in Nat /\ RecordLen(u.rec) \in Nat
      BY LengthsAreNat
    <3> QED
      BY <1>2, <1>4, <3>1, <3>2
  <2>4. InFile(u)'
    BY Zenon, <1>1, <1>4, <2>2, <2>3, RecordStays
  <2>5. updates'[i] = u
    BY Zenon, <1>1, <2>1
  <2> QED
    BY Zenon, <2>4, <2>5
<1>6. Counts' /\ Below' /\ InLog' /\ GoodOnes'
  BY Zenon, <1>1, <1>5, FileStays
<1>7. Half'
  <2>1. CASE stage' \notin {"data", "count"}
    BY <2>1 DEF Half
  <2>2. CASE WriteEntry /\ stage' \in {"data", "count"}
    <3>1. /\ stage' = "data" /\ todo' = todo
          /\ log' = Written(pos, r, "entry", EntrySize)
      BY <2>2 DEF WriteEntry, WritePart, Fail
    <3>2. Holds(pos, r, "entry", EntrySize)'
      BY <1>1, <1>2, <1>3, <3>1 DEF Holds, Written
    <3> QED
      BY <1>1, <3>1, <3>2 DEF Half
  <2>3. CASE WriteData /\ stage' \in {"data", "count"}
    <3>1. /\ stage = "data" /\ stage' = "count" /\ todo' = todo
          /\ log' = Written(pos + EntrySize, r, "data", DataLen(r))
      BY <2>3 DEF WriteData, WritePart, Fail
    <3>2. Holds(pos, r, "entry", EntrySize)'
      <4>1. Holds(pos, r, "entry", EntrySize)
        BY <3>1 DEF FileInv, Half
      <4>2. pos \in Nat /\ pos + EntrySize \in Nat /\ pos + EntrySize <= pos + EntrySize
        BY <1>2, <1>3
      <4>3. ASSUME NEW s, Holds(pos, s, "entry", EntrySize),
                   log' = Written(pos + EntrySize, s, "data", DataLen(s)), DataLen(s) \in Nat
            PROVE  \A q \in pos .. pos + EntrySize - 1 :
                      q \in DOMAIN log' /\ log'[q] = <<s, "entry", q - pos>>
        BY <1>2, <1>3, <4>2, <4>3 DEF Holds, Written
      <4>4. \A q \in pos .. pos + EntrySize - 1 :
                q \in DOMAIN log' /\ log'[q] = <<r, "entry", q - pos>>
        BY Zenon, <1>3, <3>1, <4>1, <4>3
      <4> QED
        BY <1>1, <3>1, <4>4 DEF Holds
    <3>3. Holds(pos + EntrySize, r, "data", DataLen(r))'
      <4>1. DataLen(r)' = DataLen(r)
        BY <1>1, <3>1 DEF DataLen
      <4> QED
        BY <1>1, <1>2, <1>3, <3>1, <4>1 DEF Holds, Written
    <3> QED
      BY <1>1, <3>1, <3>2, <3>3 DEF Half
  <2> QED
    BY <2>1, <2>2, <2>3
<1>8. Last'
  <2>1. status' \in {"ok", "none"} => status' = status
    BY DEF WriteEntry, WriteData, WritePart, Fail
  <2> QED
    BY <1>1, <2>1 DEF FileInv, Last
<1> QED
  BY Zenon, <1>1, <1>6, <1>7, <1>8 DEF FileInv
LEMMA CountFile ==
    ASSUME FileInv, Count
    PROVE  FileInv'
<1> DEFINE r == Head(todo)
           u == [rec |-> r, at |-> pos]
<1>1. /\ Inv /\ Inv' /\ stage = "count" /\ header' = Counted(r)
      /\ updates' = Append(updates, u)
      /\ UNCHANGED <<handle, log, asked>>
  BY CountInv DEF FileInv, Count, image
<1>2. \/ stored' = header' /\ good' = header'
      \/ good' = good /\ status' = "Io"
  BY DEF Count, WriteHeader, Fail
<1>3. stage' \notin {"data", "count"}
  BY DEF Count, WriteHeader, GoOn, Fail
<1>4. todo # << >> /\ todo \in Seq(Records) /\ header \in Headers
  BY <1>1 DEF Inv, TypeOK
<1>5. r \in Records /\ pos = header.eof /\ pos \in Nat
  BY <1>1, <1>4 DEF Inv, Place, Writing, Headers
<1>6. PICK n \in Nat : n = Len(updates)
  BY <1>1 DEF Inv, TypeOK
<1>7. /\ Len(updates') = n + 1 /\ updates'[n + 1] = u
      /\ \A i \in 1 .. n : updates'[i] = updates[i]
  <2>1. updates \in Seq([rec : Records, at : Nat])
    BY <1>1 DEF Inv, TypeOK
  <2>2. u \in [rec : Records, at : Nat]
    BY <1>5
  <2> HIDE DEF u
  <2> QED
    BY <1>1, <1>6, <2>1, <2>2
<1>8. \A i \in 1 .. n + 1 : i \in 1 .. n \/ i = n + 1
  OBVIOUS
<1>9. u.rec = r /\ u.at = pos
  OBVIOUS
<1>10. Counts'
  <2>1. Sums(header, updates, n)
    BY Zenon, <1>6 DEF FileInv, Counts
  <2>2. Sums(Counted(r), updates', n + 1)
    <3>1. updates'[n + 1].rec = r /\ updates'[n + 1].at = header.eof
      BY Zenon, <1>5, <1>7, <1>9
    <3> HIDE DEF r, u
    <3>2. ASSUME NEW w, \A i \in 1 .. n : w[i] = updates[i],
                 w[n + 1].rec = r, w[n + 1].at = header.eof
          PROVE  Sums(Counted(r), w, n + 1)
      BY Zenon, <1>4, <1>5, <2>1, <3>2, CountedSums
    <3> QED
      BY Zenon, <1>7, <3>1, <3>2
  <2> QED
    BY Zenon, <1>1, <1>7, <2>2 DEF Counts
<1>11. ASSUME NEW x PROVE RecordLen(x)' = RecordLen(x)
  BY <1>1 DEF RecordLen, DataLen
<1>12. Below'
  <2>1. header'.eof = header.eof + RecordLen(r) /\ RecordLen(r) \in Nat
    BY <1>1, <1>4, <1>5, CountedIsHeader, LengthsAreNat
  <2>2. header.eof \in Nat
    BY <1>5
  <2>3. ASSUME NEW i \in 1 .. n
        PROVE  updates'[i].at + RecordLen(updates[i].rec)' <= header'.eof
    <3>1. updates[i] \in [rec : Records, at : Nat]
      <4>1. updates \in Seq([rec : Records, at : Nat])
        BY <1>1 DEF Inv, TypeOK
      <4> QED
        BY Zenon, <1>6, <4>1, ElementOfSeq
    <3>2. updates[i].at \in Nat /\ RecordLen(updates[i].rec) \in Nat
      BY <3>1, LengthsAreNat
    <3>3. updates[i].at + RecordLen(updates[i].rec) <= header.eof
      BY Zenon, <1>6 DEF FileInv, Below
    <3>4. updates'[i] = updates[i]
      BY Zenon, <1>7
    <3>5. RecordLen(updates[i].rec)' = RecordLen(updates[i].rec)
      BY <1>1, <3>4 DEF RecordLen, DataLen
    <3> QED
      BY <2>1, <2>2, <3>2, <3>3, <3>4, <3>5
  <2>4. updates'[n + 1].at + RecordLen(updates[n + 1].rec)' <= header'.eof
    <3>1. updates'[n + 1].at = header.eof /\ updates'[n + 1].rec = r
      BY Zenon, <1>5, <1>7, <1>9
    <3>2. RecordLen(updates[n + 1].rec)' = RecordLen(r)
      <4> HIDE DEF r
      <4> QED
        BY <1>1, <3>1 DEF RecordLen, DataLen
    <3> QED
      BY <2>1, <2>2, <3>1, <3>2
  <2> QED
    BY Zenon, <1>7, <1>8, <2>3, <2>4 DEF Below
<1>13. InLog'
  <2>1. ASSUME NEW i \in 1 .. n PROVE InFile(updates[i])'
    <3>1. InFile(updates[i])
      BY Zenon, <1>6 DEF FileInv, InLog
    <3>2. updates'[i] = updates[i]
      BY Zenon, <1>7
    <3> QED
      BY <1>1, <3>1, <3>2 DEF InFile, Holds, DataLen
  <2>2. InFile(updates[n + 1])'
    <3>1. /\ Holds(pos, r, "entry", EntrySize)
          /\ Holds(pos + EntrySize, r, "data", DataLen(r))
      BY <1>1 DEF FileInv, Half
    <3>2. updates'[n + 1].at = pos /\ updates'[n + 1].rec = r
      BY Zenon, <1>7, <1>9
    <3> QED
      BY <1>1, <3>1, <3>2 DEF InFile, Holds, DataLen
  <2> QED
    BY Zenon, <1>7, <1>8, <2>1, <2>2 DEF InLog
<1>14. GoodOnes'
  <2>1. CASE good' = header'
    <3>1. header'.eof = EndOf(n + 1)'
      BY Zenon, <1>1, <1>7 DEF Inv, Place
    <3>2. n + 1 <= Len(updates') /\ n + 1 \in 0 .. Len(updates')
      BY <1>7
    <3>3. Sums(good', updates', n + 1)
      BY Zenon, <1>7, <1>10, <2>1 DEF Counts
    <3>4. Describes(good, n + 1)'
      BY <2>1, <3>1, <3>2, <3>3, DescribesIsSums
    <3> QED
      BY Zenon, <3>2, <3>4 DEF GoodOnes
  <2>2. CASE good' = good /\ good # NoHeader
    <3>1. PICK k \in 0 .. n : Describes(good, k)
      BY Zenon, <1>6, <2>2 DEF FileInv, GoodOnes
    <3>2. k \in Nat /\ k <= Len(updates') /\ k \in 0 .. Len(updates')
      BY <1>7
    <3>3. EndOf(k)' = EndOf(k)
      BY <1>1, <1>7 DEF EndOf, RecordLen, DataLen
    <3>4. \A i \in 1 .. k : i \in 1 .. n
      OBVIOUS
    <3>5. ASSUME NEW T
          PROVE  /\ Of(updates', T, k) = Of(updates, T, k)
                 /\ First(updates', T, k) = First(updates, T, k)
      <4>1. \A i \in 1 .. k : updates'[i] = updates[i]
        BY Zenon, <1>7, <3>4
      <4>2. ASSUME NEW w, \A i \in 1 .. k : w[i] = updates[i]
            PROVE  Of(w, T, k) = Of(updates, T, k) /\ First(w, T, k) = First(updates, T, k)
        BY <3>2, <4>2, SameBeginning
      <4> QED
        BY Zenon, <4>1, <4>2
    <3>6. Sums(good, updates, k) /\ good.eof = EndOf(k)
      BY Zenon, <3>1, DescribesIsSums
    <3>7. Sums(good', updates', k)
      BY Zenon, <2>2, <3>5, <3>6 DEF Sums
    <3>8. Describes(good, k)'
      BY <2>2, <3>2, <3>3, <3>6, <3>7, DescribesIsSums
    <3> QED
      BY Zenon, <3>2, <3>8 DEF GoodOnes
  <2>3. CASE good' = good /\ good = NoHeader
    BY <2>3 DEF GoodOnes
  <2> QED
    BY Zenon, <1>2, <2>1, <2>2, <2>3
<1> QED
  BY <1>1, <1>2, <1>3, <1>10, <1>12, <1>13, <1>14 DEF FileInv, Half, Last
LEMMA FileInvariance == Spec => []FileInv
<1>1. FileInv /\ [Next]_vars => FileInv'
  <2> SUFFICES ASSUME FileInv, [Next]_vars PROVE FileInv'
    OBVIOUS
  <2>1. CASE UNCHANGED vars
    <3>1. UNCHANGED <<kind, handle, header, stored, good, log, updates, todo, pos, stage, status,
                      made, calls, asked>>
      BY <2>1 DEF vars, image
    <3>2. DataOK' /\ CallOK'
      BY <3>1, TypeParts DEF FileInv, Inv, DataOK, CallOK
    <3>3. Inv'
      BY <3>1, <3>2, SameRecords, TypeParts DEF FileInv, Inv, Place
    <3>4. \A i \in 1 .. Len(updates) : InFile(updates[i])'
      BY <3>1 DEF FileInv, InLog, InFile, Holds, DataLen
    <3>5. Counts' /\ Below' /\ InLog' /\ GoodOnes'
      BY Zenon, <3>1, <3>4, FileStays
    <3>6. Half' /\ Last'
      BY <3>1 DEF FileInv, Half, Last, Holds, DataLen
    <3> QED
      BY Zenon, <3>3, <3>5, <3>6 DEF FileInv
  <2> QED
    BY <2>1, CreateFile, AddBlockFile, FetchFile, WriteFile, CountFile DEF Next
<1> QED
  BY <1>1, InitFile, PTL DEF Spec

\* A header counts as many records as it describes.
LEMMA EntriesAreRecords ==
    ASSUME TypeOK, NEW h, NEW n \in Nat, Describes(h, n)
    PROVE  EntriesIn(h) = n
<1>1. n <= Len(updates) /\ Sums(h, updates, n)
  BY Zenon, DescribesIsSums
<1>2. ASSUME NEW i \in 1 .. n PROVE updates[i].rec.type \in RecordTypes
  <2>1. updates \in Seq([rec : Records, at : Nat]) /\ i \in 1 .. Len(updates)
    BY <1>1 DEF TypeOK
  <2>2. updates[i] \in [rec : Records, at : Nat]
    BY Zenon, <2>1, ElementOfSeq
  <2> QED
    BY <2>2 DEF Records
<1>3. Cardinality(Of(updates, DataTypes, n)) + Cardinality(Of(updates, MetadataTypes, n)) = n
  BY <1>2, TwoKinds
<1> QED
  BY Zenon, <1>1, <1>3 DEF Sums, EntriesIn

-----------------------------------------------------------------------------
\* Whatever write failed and wherever the writer stopped: unless its last write tore it,
\* the header in the file counts records that are completely in the file, and while it is
\* torn those it counted before are (journal.rs:293-325, the order of the writes).
THEOREM HeaderDescribesFileAlways == Spec => []HeaderDescribesFile
<1>1. FileInv => HeaderDescribesFile
  <2> SUFFICES ASSUME FileInv, good # NoHeader
               PROVE  /\ Describes(good, EntriesIn(good))
                      /\ \A i \in 1 .. EntriesIn(good) : InFile(updates[i])
    BY DEF HeaderDescribesFile
  <2>1. PICK k \in 0 .. Len(updates) : Describes(good, k)
    BY DEF FileInv, GoodOnes
  <2>2. TypeOK /\ k \in Nat
    BY DEF FileInv, Inv
  <2>3. EntriesIn(good) = k
    BY Zenon, <2>1, <2>2, EntriesAreRecords
  <2>4. \A i \in 1 .. k : i \in 1 .. Len(updates)
    BY <2>2 DEF TypeOK
  <2> QED
    BY Zenon, <2>1, <2>3, <2>4 DEF FileInv, InLog
<1> QED
  BY <1>1, FileInvariance, PTL

\* When a call that appended anything returns Ok, all the records in memory are in the
\* file and counted there, whatever failed before (journal.rs:109-111, 243-325).
THEOREM AckedIsDurableAlways == Spec => []AckedIsDurable
<1>1. FileInv => AckedIsDurable
  <2> SUFFICES ASSUME FileInv, stage = "ready", status = "ok", Len(updates) > asked.after
               PROVE  /\ stored = header
                      /\ Describes(stored, Len(updates))
                      /\ \A i \in 1 .. Len(updates) : InFile(updates[i])
    BY DEF AckedIsDurable
  <2>1. stored = header
    BY DEF FileInv, Last
  <2>2. Len(updates) <= Len(updates)
    BY DEF FileInv, Inv, TypeOK
  <2>3. Describes(stored, Len(updates))
    BY <2>1, <2>2, DescribesIsSums DEF FileInv, Inv, Place, Counts
  <2> QED
    BY Zenon, <2>1, <2>3 DEF FileInv, InLog
<1> QED
  BY <1>1, FileInvariance, PTL
-----------------------------------------------------------------------------
(* What create makes *)

AllOf(rs, T) == \A i \in 1 .. Len(rs) : rs[i].type \in T

\* Until create returns, the records it has yet to append are those of the image
\* that are not there; from then on they are all there, and only blocks follow.
Creating ==
    /\ Len(updates) + Len(todo) = Len(MetadataRecords)
    /\ \A i \in 1 .. Len(updates) : updates[i].rec.type \in MetadataTypes
    /\ AllOf(todo, MetadataTypes)
Complete ==
    /\ header.metadataEntries = Len(MetadataRecords)
    /\ header.metadataOffset = HeaderSize
    /\ Len(MetadataRecords) <= Len(updates)
    /\ \A i \in 1 .. Len(MetadataRecords) : updates[i].rec.type \in MetadataTypes
    /\ AllOf(todo, DataTypes)
MadeInv ==
    /\ stage = "start" => updates = << >> /\ ~made
    /\ stage = "ready" => made
    /\ Running /\ ~made => Creating
    /\ made => Complete

LEMMA MetadataRecordsAre ==
    /\ Len(MetadataRecords) = IF kind = "Fixed" THEN 1
                              ELSE IF kind = "Diff" THEN 4 + Locators ELSE 4
    /\ Len(MetadataRecords) \in Nat \ {0}
    /\ AllOf(MetadataRecords, MetadataTypes)
<1> DEFINE n == IF kind = "Diff" THEN Locators ELSE 0
           a == << Record("FooterP", NoBlock), Record("FooterC", NoBlock), Record("Header", NoBlock) >>
           l == [i \in 1 .. n |-> Record("Locator", i)]
           z == << Record("Bat", NoBlock) >>
           M == {r \in Records : r.type \in MetadataTypes}
<1>1. n \in Nat /\ Locators \in Nat
  BY JournalAssumption
<1>2. \A type \in MetadataTypes : \A b \in Nat \cup {NoBlock} : Record(type, b) \in M
  BY DEF Record, Records, RecordTypes
<1>3. l \in Seq(M) /\ Len(l) = n
  <2>1. \A i \in 1 .. n : Record("Locator", i) \in M
    BY <1>1, <1>2 DEF MetadataTypes
  <2> HIDE DEF n, M
  <2> QED
    BY <1>1, <2>1
<1>4. a \in Seq(M) /\ z \in Seq(M) /\ Len(a) = 3 /\ Len(z) = 1
  <2>1. /\ Record("FooterP", NoBlock) \in M /\ Record("FooterC", NoBlock) \in M
        /\ Record("Header", NoBlock) \in M /\ Record("Bat", NoBlock) \in M
    BY <1>2 DEF MetadataTypes
  <2> HIDE DEF M
  <2>2. \A x, y, w \in M : << x, y, w >> \in Seq(M) /\ Len(<< x, y, w >>) = 3
    OBVIOUS
  <2>3. \A x \in M : << x >> \in Seq(M) /\ Len(<< x >>) = 1
    OBVIOUS
  <2> QED
    BY Zenon, <2>1, <2>2, <2>3
<1>5. ASSUME NEW s \in Seq(M) PROVE AllOf(s, MetadataTypes)
  <2>1. \A i \in 1 .. Len(s) : s[i] \in M
    BY Zenon, ElementOfSeq
  <2> QED
    BY <2>1 DEF AllOf
<1>6. CASE kind = "Fixed"
  <2>1. Record("FooterP", NoBlock) \in M
    BY <1>2 DEF MetadataTypes
  <2> HIDE DEF M
  <2>2. \A x \in M : << x >> \in Seq(M) /\ Len(<< x >>) = 1
    OBVIOUS
  <2>3. MetadataRecords = << Record("FooterP", NoBlock) >>
    BY Zenon, <1>6 DEF MetadataRecords
  <2>4. MetadataRecords \in Seq(M) /\ Len(MetadataRecords) = 1
    BY Zenon, <2>1, <2>2, <2>3
  <2> QED
    BY <1>5, <1>6, <2>4
<1>7. CASE kind # "Fixed"
  <2>1. MetadataRecords = (a \o l) \o z
    BY Zenon, <1>7 DEF MetadataRecords
  <2> HIDE DEF a, l, z, M
  <2>2. a \o l \in Seq(M) /\ Len(a \o l) = Len(a) + Len(l)
    BY Zenon, <1>3, <1>4, ConcatProperties
  <2>3. (a \o l) \o z \in Seq(M) /\ Len((a \o l) \o z) = Len(a \o l) + Len(z)
    BY Zenon, <1>4, <2>2, ConcatProperties
  <2>4. AllOf(MetadataRecords, MetadataTypes)
    BY Zenon, <1>5, <2>1, <2>3
  <2>5. Len(MetadataRecords) = 4 + n
    BY <1>1, <1>3, <1>4, <2>1, <2>2, <2>3
  <2> QED
    BY <1>1, <1>7, <2>4, <2>5
<1> QED
  BY Zenon, <1>6, <1>7

LEMMA BlockRecordsAre ==
    ASSUME NEW b, NEW mode
    PROVE  AllOf(BlockRecords(b, mode), DataTypes)
<1>1. Record("Bitmap", b).type \in DataTypes /\ Record("Data", b).type \in DataTypes
  BY DEF Record, DataTypes
<1> DEFINE x == Record("Bitmap", b)
           y == Record("Data", b)
           D == {x, y}
<1>2. << x >> \in Seq(D) /\ << y >> \in Seq(D) /\ << >> \in Seq(D)
  <2> HIDE DEF x, y
  <2> QED
    OBVIOUS
<1>3. BlockRecords(b, mode) \in Seq(D)
  <2> HIDE DEF D
  <2>1. \A s, t \in Seq(D) : s \o t \in Seq(D)
    BY Zenon, ConcatProperties
  <2> QED
    BY Zenon, <1>2, <2>1 DEF BlockRecords
<1>4. \A i \in 1 .. Len(BlockRecords(b, mode)) : BlockRecords(b, mode)[i] \in D
  <2> HIDE DEF D
  <2> QED
    BY Zenon, <1>3, ElementOfSeq
<1> QED
  BY Zenon, <1>1, <1>4 DEF AllOf

LEMMA TailIsOf ==
    ASSUME NEW s \in Seq(Records), s # << >>, NEW T, AllOf(s, T)
    PROVE  /\ AllOf(Tail(s), T) /\ Head(s).type \in T
           /\ Len(s) = Len(Tail(s)) + 1 /\ Len(Tail(s)) \in Nat
<1>1. /\ Tail(s) \in Seq(Records) /\ Len(s) = Len(Tail(s)) + 1 /\ Len(Tail(s)) \in Nat
      /\ Head(s) = s[1] /\ \A i \in 1 .. Len(Tail(s)) : Tail(s)[i] = s[i + 1]
  OBVIOUS
<1>2. 1 \in 1 .. Len(s) /\ \A i \in 1 .. Len(Tail(s)) : i + 1 \in 1 .. Len(s)
  BY <1>1
<1> QED
  BY <1>1, <1>2 DEF AllOf
LEMMA InitMade == Init => MadeInv
BY DEF Init, MadeInv, Running

LEMMA CreateMade ==
    ASSUME MadeInv, Create
    PROVE  MadeInv'
<1>1. /\ updates = << >> /\ Len(updates) = 0 /\ ~made
      /\ UNCHANGED <<kind, updates>>
  BY DEF Create, MadeInv, image
<1>2. \/ GoOn(MetadataRecords)
      \/ Fail("Io")
  BY DEF Create, WriteHeader
<1>3. CASE Fail("Io")
  BY <1>1, <1>3 DEF Fail, MadeInv, Running
<1>4. CASE GoOn(MetadataRecords)
  <2>1. MetadataRecords # << >>
    BY MetadataRecordsType
  <2>2. stage' = "fetch" /\ ~made' /\ todo' = MetadataRecords
    BY <1>1, <1>4, <2>1 DEF GoOn
  <2>3. MetadataRecords' = MetadataRecords
    BY <1>1 DEF MetadataRecords
  <2>4. Creating'
    BY <1>1, <2>2, <2>3, MetadataRecordsAre DEF Creating, AllOf
  <2> QED
    BY <2>2, <2>4 DEF MadeInv
<1> QED
  BY <1>2, <1>3, <1>4

\* Whatever the running call does, a created journal stays complete if no record of
\* it is counted.
LEMMA CompleteStays ==
    ASSUME Complete, UNCHANGED <<kind, header, updates>>, AllOf(todo', DataTypes)
    PROVE  Complete'
<1>1. MetadataRecords' = MetadataRecords
  BY DEF MetadataRecords
<1> QED
  BY <1>1 DEF Complete, AllOf

LEMMA AddBlockMade ==
    ASSUME MadeInv, NEW b \in Blocks, NEW mode \in Modes, AddBlock(b, mode)
    PROVE  MadeInv'
<1>1. made /\ Complete /\ UNCHANGED <<kind, header, updates>>
  BY DEF AddBlock, MadeInv, image
<1>2. \/ Fail("NeedDyncOrDiffImage")
      \/ GoOn(BlockRecords(b, mode))
  BY DEF AddBlock
<1>3. made' /\ stage' # "start" /\ todo' \in {<< >>, BlockRecords(b, mode)}
  BY <1>1, <1>2 DEF Fail, GoOn
<1>4. AllOf(todo', DataTypes)
  <2>1. AllOf(<< >>, DataTypes)
    BY DEF AllOf
  <2> QED
    BY Zenon, <1>3, <2>1, BlockRecordsAre
<1> QED
  BY Zenon, <1>1, <1>3, <1>4, CompleteStays DEF MadeInv

\* A step that goes on with the same records, or ends the call.
LEMMA StepMade ==
    ASSUME MadeInv, Running, UNCHANGED <<kind, header, updates, made>>, stage' # "start",
           stage' = "ready" => made,
           todo' = todo \/ (todo' = << >> /\ ~Running')
    PROVE  MadeInv'
<1>1. CASE made
  <2>1. Complete
    BY <1>1 DEF MadeInv
  <2>2. AllOf(todo', DataTypes)
    <3>1. AllOf(<< >>, DataTypes)
      BY DEF AllOf
    <3> QED
      BY Zenon, <2>1, <3>1 DEF Complete
  <2>3. Complete'
    BY Zenon, <2>1, <2>2, CompleteStays
  <2> QED
    BY <1>1, <2>3 DEF MadeInv
<1>2. CASE ~made /\ Running'
  <2>1. Creating
    BY <1>2 DEF MadeInv
  <2>2. MetadataRecords' = MetadataRecords
    BY DEF MetadataRecords
  <2>3. Creating'
    BY <1>2, <2>1, <2>2 DEF Creating, AllOf
  <2> QED
    BY <1>2, <2>3 DEF MadeInv, Running
<1>3. CASE ~made /\ ~Running'
  BY <1>3 DEF MadeInv
<1> QED
  BY <1>1, <1>2, <1>3

LEMMA FetchMade ==
    ASSUME MadeInv, Fetch
    PROVE  MadeInv'
<1>1. Running /\ UNCHANGED <<kind, header, updates, made>>
  BY DEF Fetch, Running, image, Fail, Panic
<1>2. \/ stage' = "entry" /\ todo' = todo
      \/ Fail("DataRefused")
      \/ Panic
  BY DEF Fetch
<1>3. /\ stage' # "start"
      /\ stage' = "ready" => made
      /\ todo' = todo \/ (todo' = << >> /\ ~Running')
  BY <1>2 DEF Fail, Panic, Running
<1> QED
  BY Zenon, <1>1, <1>3, StepMade

LEMMA WriteMade ==
    ASSUME MadeInv, WriteEntry \/ WriteData
    PROVE  MadeInv'
<1>1. Running /\ UNCHANGED <<kind, header, updates>>
  BY DEF WriteEntry, WriteData, Running, image
<1>2. \/ stage' \in {"data", "count"} /\ todo' = todo /\ made' = made
      \/ Fail("Io")
  BY DEF WriteEntry, WriteData, WritePart
<1>3. /\ stage' # "start"
      /\ stage' = "ready" => made
      /\ todo' = todo \/ (todo' = << >> /\ ~Running')
      /\ made' = made
  BY <1>2 DEF Fail, Running
<1> QED
  BY Zenon, <1>1, <1>3, StepMade
LEMMA CountMade ==
    ASSUME FileInv, FileInv', MadeInv, Count
    PROVE  MadeInv'
<1> DEFINE r == Head(todo)
<1>1. /\ stage = "count" /\ header' = Counted(r)
      /\ updates' = Append(updates, [rec |-> r, at |-> pos])
      /\ UNCHANGED kind
      /\ GoOn(Tail(todo)) \/ Fail("Io")
  BY DEF Count, WriteHeader, image
<1>2. /\ todo # << >> /\ todo \in Seq(Records) /\ header \in Headers
      /\ updates \in Seq([rec : Records, at : Nat]) /\ pos \in Nat
  BY <1>1 DEF FileInv, Inv, TypeOK
<1>3. r \in Records
  BY <1>2
<1>4. PICK n \in Nat : n = Len(updates)
  BY <1>2
<1>5. /\ Len(updates') = n + 1 /\ updates'[n + 1].rec = r
      /\ \A i \in 1 .. n : updates'[i] = updates[i]
  <2>1. [rec |-> r, at |-> pos] \in [rec : Records, at : Nat]
    BY <1>2, <1>3
  <2>2. PICK u \in [rec : Records, at : Nat] : u = [rec |-> r, at |-> pos] /\ u.rec = r
    BY <2>1
  <2>3. /\ Len(Append(updates, u)) = n + 1 /\ Append(updates, u)[n + 1] = u
        /\ \A i \in 1 .. n : Append(updates, u)[i] = updates[i]
    BY <1>2, <1>4
  <2> QED
    BY Zenon, <1>1, <2>2, <2>3
<1>6. MetadataRecords' = MetadataRecords
  BY <1>1 DEF MetadataRecords
<1>7. CASE made
  <2>1. Complete
    BY <1>7 DEF MadeInv
  <2>2. r.type \in DataTypes /\ AllOf(Tail(todo), DataTypes)
    BY Zenon, <1>2, <2>1, TailIsOf DEF Complete
  <2>3. AllOf(todo', DataTypes) /\ made' /\ stage' # "start"
    <3>1. AllOf(<< >>, DataTypes)
      BY DEF AllOf
    <3>2. CASE GoOn(Tail(todo))
      BY <1>7, <2>2, <3>2 DEF GoOn
    <3>3. CASE Fail("Io")
      BY <1>7, <3>1, <3>3 DEF Fail
    <3> QED
      BY <1>1, <3>2, <3>3
  <2>4. /\ header'.metadataEntries = header.metadataEntries
        /\ header'.metadataOffset = header.metadataOffset
    BY Zenon, <1>1, <1>2, <1>3, <2>2, CountedFields
  <2>5. Complete'
    <3>1. Len(MetadataRecords) \in Nat /\ Len(MetadataRecords) <= n
      BY <1>4, <2>1, MetadataRecordsAre DEF Complete
    <3>2. \A i \in 1 .. Len(MetadataRecords) : updates'[i].rec.type \in MetadataTypes
      BY <1>5, <2>1, <3>1 DEF Complete
    <3>3. Len(MetadataRecords) <= Len(updates')
      BY <1>5, <3>1
    <3> QED
      BY Zenon, <1>6, <2>1, <2>3, <2>4, <3>2, <3>3 DEF Complete, AllOf
  <2> QED
    BY Zenon, <2>3, <2>5 DEF MadeInv
<1>8. CASE ~made
  <2>1. Creating
    BY <1>1, <1>8 DEF MadeInv, Running
  <2>2. /\ r.type \in MetadataTypes /\ AllOf(Tail(todo), MetadataTypes)
        /\ Len(todo) = Len(Tail(todo)) + 1 /\ Len(Tail(todo)) \in Nat
    BY Zenon, <1>2, <2>1, TailIsOf DEF Creating
  <2>3. n + 1 + Len(Tail(todo)) = Len(MetadataRecords)
    <3>1. PICK t \in Nat : t = Len(Tail(todo))
      BY Zenon, <2>2
    <3>2. n + Len(todo) = Len(MetadataRecords) /\ Len(todo) = t + 1
      BY Zenon, <1>4, <2>1, <2>2, <3>1 DEF Creating
    <3>3. n + (t + 1) = (n + 1) + t
      OBVIOUS
    <3> QED
      BY Zenon, <3>1, <3>2, <3>3
  <2>4. \A i \in 1 .. n + 1 : updates'[i].rec.type \in MetadataTypes
    <3>1. \A i \in 1 .. n : updates'[i].rec.type \in MetadataTypes
      BY Zenon, <1>4, <1>5, <2>1 DEF Creating
    <3>2. \A i \in 1 .. n + 1 : i \in 1 .. n \/ i = n + 1
      OBVIOUS
    <3> QED
      BY Zenon, <1>5, <2>2, <3>1, <3>2
  <2>5. CASE Fail("Io")
    BY <1>8, <2>5 DEF Fail, MadeInv, Running
  <2>6. CASE GoOn(Tail(todo)) /\ Tail(todo) # << >>
    <3>1. stage' = "fetch" /\ ~made' /\ todo' = Tail(todo)
      BY <1>8, <2>6 DEF GoOn
    <3>2. Creating'
      BY Zenon, <1>5, <1>6, <2>2, <2>3, <2>4, <3>1 DEF Creating, AllOf
    <3> QED
      BY <3>1, <3>2 DEF MadeInv
  <2>7. CASE GoOn(Tail(todo)) /\ Tail(todo) = << >>
    <3>1. stage' = "ready" /\ made' /\ todo' = << >>
      BY <2>7 DEF GoOn
    <3>2. Len(MetadataRecords) = n + 1
      <4>1. Len(<< >>) = 0 /\ n + 1 + 0 = n + 1
        OBVIOUS
      <4> QED
        BY Zenon, <2>3, <2>7, <4>1
    <3>3. Sums(header', updates', n + 1)
      BY Zenon, <1>5 DEF FileInv, Counts
    <3>4. Of(updates', MetadataTypes, n + 1) = 1 .. n + 1
      BY <2>4 DEF Of
    <3>5. header'.metadataEntries = n + 1
      <4>1. Cardinality(1 .. n + 1) = n + 1
        BY FS_Interval
      <4> QED
        BY Zenon, <3>3, <3>4, <4>1 DEF Sums
    <3>6. header'.metadataOffset = updates'[1].at
      <4>1. /\ 1 \in Of(updates', MetadataTypes, n + 1)
            /\ \A j \in Of(updates', MetadataTypes, n + 1) : 1 <= j
        BY <3>4
      <4>2. n + 1 \in Nat
        OBVIOUS
      <4>3. ASSUME NEW w, 1 \in Of(w, MetadataTypes, n + 1),
                   \A j \in Of(w, MetadataTypes, n + 1) : 1 <= j
            PROVE  First(w, MetadataTypes, n + 1) = w[1].at
        BY <4>2, <4>3, FirstIs
      <4> QED
        BY Zenon, <3>3, <4>1, <4>3 DEF Sums
    <3>7. updates'[1].at = HeaderSize
      <4>1. 1 \in 1 .. Len(updates')
        BY <1>5
      <4>2. updates'[1].at = EndOf(1 - 1)'
        BY Zenon, <4>1 DEF FileInv, Inv, RecordsTile
      <4> QED
        BY <4>2 DEF EndOf
    <3>8. Complete'
      <4>1. AllOf(<< >>, DataTypes)
        BY DEF AllOf
      <4>2. Len(MetadataRecords) <= Len(updates')
        BY <1>5, <3>2
      <4> QED
        BY Zenon, <1>6, <2>4, <3>1, <3>2, <3>5, <3>6, <3>7, <4>1, <4>2 DEF Complete, AllOf
    <3> QED
      BY <3>1, <3>8 DEF MadeInv
  <2> QED
    BY <1>1, <2>5, <2>6, <2>7
<1> QED
  BY <1>7, <1>8

\* A journal that create returned counts all the metadata of its image, in front of
\* everything else, whatever happens to it later (journal.rs:113-208).
THEOREM CreateIsCompleteAlways == Spec => []CreateIsComplete
<1>1. FileInv /\ FileInv' /\ MadeInv /\ [Next]_vars => MadeInv'
  <2> SUFFICES ASSUME FileInv, FileInv', MadeInv, [Next]_vars PROVE MadeInv'
    OBVIOUS
  <2>1. CASE UNCHANGED vars
    BY <2>1 DEF vars, image, MadeInv, Running, Creating, Complete, AllOf, MetadataRecords
  <2> QED
    BY <2>1, CreateMade, AddBlockMade, FetchMade, WriteMade, CountMade DEF Next
<1>2. FileInv /\ MadeInv => CreateIsComplete
  <2> SUFFICES ASSUME FileInv, MadeInv, made PROVE CreateIsComplete
    BY DEF CreateIsComplete
  <2>1. Complete
    BY DEF MadeInv
  <2>2. kind \in {"Fixed", "Dynamic", "Diff"}
    BY DEF FileInv, Inv, TypeOK
  <2> QED
    BY <2>1, <2>2, MetadataRecordsAre DEF Complete, CreateIsComplete
<1> QED
  BY <1>1, <1>2, FileInvariance, InitMade, PTL DEF Spec

-----------------------------------------------------------------------------
(* What a reader of the journal sees *)

\* The quotients by the parts of a field that a torn write leaves.
LEMMA Quotients ==
    ASSUME NEW b \in Nat \ {0}, NEW x \in Nat, NEW y \in Nat
    PROVE  /\ x \div b \in Nat /\ x % b \in 0 .. b - 1 /\ x = b * (x \div b) + (x % b)
           /\ x <= y => x \div b <= y \div b
           /\ x \div b = y \div b /\ x % b = y % b => x = y
<1>1. /\ x \div b \in Nat /\ x % b \in 0 .. b - 1 /\ x = b * (x \div b) + (x % b)
      /\ y \div b \in Nat /\ y % b \in 0 .. b - 1 /\ y = b * (y \div b) + (y % b)
  BY Z3
<1>2. ASSUME x <= y PROVE x \div b <= y \div b
  BY <1>2, Z3
<1>3. ASSUME x \div b = y \div b, x % b = y % b PROVE x = y
  BY Zenon, <1>1, <1>3
<1> QED
  BY <1>1, <1>2, <1>3

LEMMA QuotientIs ==
    ASSUME NEW b \in Nat \ {0}, NEW q \in Nat, NEW r \in 0 .. b - 1
    PROVE  (q * b + r) \div b = q /\ (q * b + r) % b = r
BY Z3

LEMMA Nested ==
    ASSUME NEW b \in Nat \ {0}, NEW x \in Nat
    PROVE  (x \div b) \div b = x \div (b * b)
<1> DEFINE p == x \div b
           q == p \div b
           r == p % b
           s == x % b
<1>1. p \in Nat /\ s \in 0 .. b - 1 /\ x = b * p + s
  BY Quotients
<1>2. q \in Nat /\ r \in 0 .. b - 1 /\ p = b * q + r
  BY <1>1, Quotients
<1> HIDE DEF p, q, r, s
<1>3. PICK c : c = b * b /\ c \in Nat \ {0}
  BY Z3
<1>4. PICK m : m = b * r + s /\ m \in Nat
  BY <1>1, <1>2, Z3
<1>5. m < c
  <2>1. b * r <= b * (b - 1)
    BY <1>2, Z3
  <2>2. b * (b - 1) = c - b
    BY <1>3, Z3
  <2>3. b * r \in Nat
    BY <1>2, Z3
  <2> QED
    BY <1>1, <1>3, <1>4, <2>1, <2>2, <2>3
<1>6. x = q * c + m
  <2>1. b * (b * q + r) = q * c + b * r
    BY <1>2, <1>3, Z3
  <2>2. q * c \in Nat /\ b * r \in Nat
    BY <1>2, <1>3, Z3
  <2>3. x = q * c + b * r + s
    BY Zenon, <1>1, <1>2, <2>1
  <2>4. PICK u \in Nat, w \in Nat : u = q * c /\ w = b * r
    BY Zenon, <2>2
  <2> QED
    BY <1>1, <1>4, <2>3, <2>4
<1>7. x \div c = q
  BY <1>2, <1>3, <1>4, <1>5, <1>6, QuotientIs
<1> QED
  BY <1>3, <1>7 DEF p, q

\* How many values the low bytes have that a torn field keeps.
Units == {1, Radix, Radix * Radix}

LEMMA UnitsAre == Units \subseteq Nat \ {0}
<1>1. Radix \in Nat /\ Radix # 0
  BY JournalAssumption
<1>2. Radix * Radix \in Nat /\ Radix * Radix # 0
  BY <1>1, Z3
<1> QED
  BY <1>1, <1>2 DEF Units

\* A field s of the header in the file is made of what was written to it since it was
\* g, while it grew to h: where its high bytes never changed, they are still there.
Between(g, s, h) == /\ g <= h
                    /\ \A b \in Units : h \div b = g \div b => s \div b = g \div b

LEMMA ByOne == \A x \in Nat : x \div 1 = x /\ x % 1 = 0
OBVIOUS

\* Where the quotients by a unit agree, so do those by the next.
LEMMA NextUnit ==
    ASSUME NEW x \in Nat, NEW y \in Nat
    PROVE  /\ x = y => x \div Radix = y \div Radix
           /\ x \div Radix = y \div Radix =>
                 x \div (Radix * Radix) = y \div (Radix * Radix)
<1>1. Radix \in Nat \ {0}
  BY JournalAssumption
<1> QED
  BY Zenon, <1>1, Nested

\* Growing keeps it so.
LEMMA BetweenGrows ==
    ASSUME NEW g \in Nat, NEW s \in Nat, NEW h \in Nat, NEW new \in Nat,
           Between(g, s, h), h <= new
    PROVE  Between(g, s, new) /\ \A b \in Units : new \div b = g \div b => h \div b = g \div b
<1>1. g <= new
  BY DEF Between
<1>2. ASSUME NEW b \in Units, new \div b = g \div b PROVE h \div b = g \div b
  <2>1. b \in Nat \ {0}
    BY UnitsAre
  <2>2. g \div b <= h \div b /\ h \div b <= new \div b
    BY Zenon, <2>1, Quotients DEF Between
  <2>3. g \div b \in Nat /\ h \div b \in Nat
    BY Zenon, <2>1, Quotients
  <2> QED
    BY <1>2, <2>2, <2>3
<1> QED
  BY Zenon, <1>1, <1>2 DEF Between

\* A torn field has the high bytes of the new value and the low ones of the old.
LEMMA TornIs ==
    ASSUME NEW old \in Nat, NEW new \in Nat, NEW v \in TornField(old, new)
    PROVE  v \in Nat /\ \E b \in Units : v \div b = new \div b /\ v % b = old % b
<1>1. PICK b \in Units : v = (new \div b) * b + (old % b)
  BY DEF TornField, Units
<1>2. b \in Nat \ {0}
  BY UnitsAre
<1>3. new \div b \in Nat /\ old % b \in 0 .. b - 1
  BY Zenon, <1>2, Quotients
<1>4. v \div b = new \div b /\ v % b = old % b
  BY Zenon, <1>1, <1>2, <1>3, QuotientIs
<1> QED
  BY Zenon, <1>4, TornFieldIsNat

\* Tearing keeps it so, and cannot bring a value back that was torn before.
LEMMA BetweenTorn ==
    ASSUME NEW g \in Nat, NEW s \in Nat, NEW h \in Nat, NEW new \in Nat,
           Between(g, s, h), h <= new, NEW v \in TornField(s, new)
    PROVE  Between(g, v, new) /\ (v = g => s = g)
<1>1. v \in Nat /\ g <= new
  BY TornIs DEF Between
<1>2. PICK c \in Units : v \div c = new \div c /\ v % c = s % c
  BY TornIs
<1>3. ASSUME NEW b \in Units, new \div b = g \div b PROVE s \div b = g \div b
  <2>1. \A a \in Units : new \div a = g \div a => h \div a = g \div a
    BY BetweenGrows
  <2> QED
    BY Zenon, <1>3, <2>1 DEF Between
<1>4. c \in Nat \ {0}
  BY UnitsAre
\* The parts agree: what was torn is what it was.
<1>5. ASSUME new \div c = g \div c PROVE v = s
  BY Zenon, <1>1, <1>2, <1>3, <1>4, <1>5, Quotients
<1>6. ASSUME v = g PROVE s = g
  BY Zenon, <1>2, <1>5, <1>6
<1>7. ASSUME NEW b \in Units, new \div b = g \div b PROVE v \div b = g \div b
  <2>1. /\ new \div 1 = new /\ g \div 1 = g /\ v \div 1 = v
    BY <1>1, ByOne
  <2>2. CASE new \div c = g \div c
    BY Zenon, <1>3, <1>5, <1>7, <2>2
  <2>3. CASE new \div c # g \div c
    <3>1. v \div b = new \div b
      <4>1. CASE c = 1
        BY Zenon, <1>1, <1>2, <4>1, ByOne
      <4>2. CASE c = Radix /\ b \in {Radix, Radix * Radix}
        BY Zenon, <1>1, <1>2, <4>2, NextUnit
      <4>3. CASE c = Radix /\ b = 1
        BY Zenon, <1>1, <1>7, <2>1, <2>3, <4>3, NextUnit
      <4>4. CASE c = Radix * Radix
        <5>1. b = 1 \/ b = Radix \/ b = c
          BY <4>4 DEF Units
        <5>2. CASE b = 1
          <6>1. new = g
            BY Zenon, <1>7, <2>1, <5>2
          <6> QED
            BY Zenon, <2>3, <6>1
        <5>3. CASE b = Radix
          BY Zenon, <1>1, <1>7, <2>3, <4>4, <5>3, NextUnit
        <5> QED
          BY Zenon, <1>2, <5>1, <5>2, <5>3
      <4> QED
        BY Zenon, <4>1, <4>2, <4>3, <4>4 DEF Units
    <3> QED
      BY Zenon, <1>7, <3>1
  <2> QED
    BY <2>2, <2>3
<1> QED
  BY Zenon, <1>1, <1>6, <1>7 DEF Between

-----------------------------------------------------------------------------
(* The header in the file and the last that was written completely *)

Fields == {"dataEntries", "metadataEntries", "dataOffset", "metadataOffset", "eof"}

LEMMA HeaderFields ==
    ASSUME NEW h \in Headers
    PROVE  /\ DOMAIN h = Fields /\ \A f \in Fields : h[f] \in Nat
           /\ \A k \in Headers : (\A f \in Fields : h[f] = k[f]) => h = k
<1>1. DOMAIN h = Fields /\ \A f \in Fields : h[f] \in Nat
  BY DEF Headers, Fields
<1>2. ASSUME NEW k \in Headers, \A f \in Fields : h[f] = k[f] PROVE h = k
  BY <1>2 DEF Headers, Fields
<1> QED
  BY <1>1, <1>2

\* Every field of the header in memory grows.
LEMMA CountedGrows ==
    ASSUME TypeOK, Counts, NEW r \in Records
    PROVE  \A f \in Fields : header[f] <= Counted(r)[f]
<1>1. header \in Headers
  BY DEF TypeOK
<1>2. ASSUME NEW T, Cardinality(Of(updates, T, Len(updates))) = 0
      PROVE  First(updates, T, Len(updates)) = 0
  <2>1. Len(updates) \in Nat
    BY DEF TypeOK
  <2>2. IsFiniteSet(Of(updates, T, Len(updates)))
    BY <2>1, OfIsFinite
  <2> QED
    BY Zenon, <1>2, <2>2, FS_EmptySet DEF First
<1>3. /\ header.dataEntries = 0 => header.dataOffset = 0
      /\ header.metadataEntries = 0 => header.metadataOffset = 0
  BY Zenon, <1>2 DEF Counts, Sums
<1>4. /\ header.dataEntries \in Nat /\ header.metadataEntries \in Nat
      /\ header.dataOffset \in Nat /\ header.metadataOffset \in Nat /\ header.eof \in Nat
  BY <1>1 DEF Headers
<1>5. Counted(r).eof = header.eof + RecordLen(r) /\ RecordLen(r) \in Nat
  BY <1>1, CountedIsHeader, LengthsAreNat
<1>6. /\ header.dataEntries <= Counted(r).dataEntries
      /\ header.metadataEntries <= Counted(r).metadataEntries
      /\ header.dataOffset <= Counted(r).dataOffset
      /\ header.metadataOffset <= Counted(r).metadataOffset
      /\ header.eof <= Counted(r).eof
  <2>1. CASE r.type \in DataTypes
    BY <1>1, <1>3, <1>4, <1>5, <2>1, CountedFields
  <2>2. CASE r.type \notin DataTypes
    BY <1>1, <1>3, <1>4, <1>5, <2>2, CountedFields
  <2> QED
    BY <2>1, <2>2
<1> QED
  BY <1>6 DEF Fields

\* While the header in the file is torn, its fields are between the last that was
\* complete and the one in memory.
Torn == good # NoHeader => \A f \in Fields : Between(good[f], stored[f], header[f])

LEMMA HeaderTorn ==
    ASSUME TypeOK, Torn, good # NoHeader, NEW new \in Headers,
           \A f \in Fields : header[f] <= new[f], NEW t \in TornHeaders(stored, new)
    PROVE  /\ \A f \in Fields : Between(good[f], t[f], new[f])
           /\ t = good => stored = good
<1>1. good \in Headers /\ stored \in Headers /\ header \in Headers /\ t \in Headers
  BY TornIsHeader DEF TypeOK
<1>2. DOMAIN new = Fields
  BY HeaderFields
<1>3. PICK c \in DOMAIN new : \E v \in TornField(stored[c], new[c]) :
          t = [g \in DOMAIN new |-> IF FieldAt[g] < FieldAt[c] THEN new[g]
                                    ELSE IF g = c THEN v ELSE stored[g]]
  BY DEF TornHeaders
<1>4. PICK v \in TornField(stored[c], new[c]) :
          t = [g \in Fields |-> IF FieldAt[g] < FieldAt[c] THEN new[g]
                                ELSE IF g = c THEN v ELSE stored[g]]
  BY Zenon, <1>2, <1>3
<1>5. ASSUME NEW f \in Fields
      PROVE  Between(good[f], t[f], new[f]) /\ (t[f] = good[f] => stored[f] = good[f])
  <2>1. /\ good[f] \in Nat /\ stored[f] \in Nat /\ header[f] \in Nat /\ new[f] \in Nat
        /\ Between(good[f], stored[f], header[f]) /\ header[f] <= new[f]
    BY Zenon, <1>1, HeaderFields DEF Torn
  <2>2. t[f] = new[f] \/ (f = c /\ t[f] = v) \/ t[f] = stored[f]
    BY <1>4
  <2>3. CASE t[f] = new[f]
    <3>1. Between(good[f], new[f], new[f])
      BY Zenon, <2>1, BetweenGrows DEF Between
    <3>2. ASSUME new[f] = good[f] PROVE stored[f] = good[f]
      <4>1. header[f] = good[f]
        BY <2>1, <3>2 DEF Between
      <4>2. header[f] \div 1 = good[f] \div 1 /\ 1 \in Units
        BY <4>1 DEF Units
      <4>3. stored[f] \div 1 = good[f] \div 1
        BY Zenon, <2>1, <4>2 DEF Between
      <4> QED
        BY <2>1, <4>3, ByOne
    <3> QED
      BY Zenon, <2>3, <3>1, <3>2
  <2>4. CASE f = c /\ t[f] = v
    BY Zenon, <2>1, <2>4, BetweenTorn
  <2>5. CASE t[f] = stored[f]
    BY Zenon, <2>1, <2>5, BetweenGrows
  <2> QED
    BY <2>2, <2>3, <2>4, <2>5
<1>6. ASSUME t = good PROVE stored = good
  <2>1. \A f \in Fields : stored[f] = good[f]
    BY Zenon, <1>5, <1>6
  <2> QED
    BY Zenon, <1>1, <2>1, HeaderFields
<1> QED
  BY Zenon, <1>5, <1>6

\* What journal_write_header leaves: the new header, or one that is not readable
\* unless it was before.
LEMMA WriteHeaderLeaves ==
    ASSUME TypeOK, Torn, header' \in Headers, \A f \in Fields : header[f] <= header'[f],
           NEW rest, WriteHeader(header', rest)
    PROVE  /\ Torn'
           /\ \/ stored' = header' /\ good' = header'
              \/ good' = good /\ (good # NoHeader /\ stored' = good => stored = good)
<1>1. /\ \A f \in Fields : good[f] \in Nat /\ stored[f] \in Nat /\ header[f] \in Nat
      /\ \A f \in Fields : header'[f] \in Nat
  BY Zenon, HeaderFields DEF TypeOK
<1>2. CASE stored' = header' /\ good' = header'
  <2>1. \A x \in Nat : Between(x, x, x)
    BY DEF Between
  <2> QED
    BY Zenon, <1>1, <1>2, <2>1 DEF Torn
<1>3. CASE stored' = stored /\ good' = good
  <2>1. ASSUME good # NoHeader, NEW f \in Fields
        PROVE  Between(good[f], stored[f], header'[f])
    BY Zenon, <1>1, <2>1, BetweenGrows DEF Torn
  <2> QED
    BY Zenon, <1>3, <2>1 DEF Torn
<1>4. CASE stored' \in TornHeaders(stored, header') /\ good' = good
  <2>1. ASSUME good # NoHeader
        PROVE  /\ \A f \in Fields : Between(good[f], stored'[f], header'[f])
               /\ stored' = good => stored = good
    BY Zenon, <1>4, <2>1, HeaderTorn
  <2> QED
    BY Zenon, <1>4, <2>1 DEF Torn
<1> QED
  BY Zenon, <1>2, <1>3, <1>4 DEF WriteHeader

\* Before create has written a header there are no records.
Fresh     == stage = "start" => updates = << >>
ReaderInv == FileInv /\ Torn /\ Fresh

LEMMA StepReader == ReaderInv /\ FileInv' /\ [Next]_vars => Torn' /\ Fresh'
<1> SUFFICES ASSUME ReaderInv, FileInv', [Next]_vars PROVE Torn' /\ Fresh'
  OBVIOUS
<1> USE DEF ReaderInv
<1>1. TypeOK /\ Counts /\ header' \in Headers
  BY DEF FileInv, Inv, TypeOK
<1>2. Fresh'
  <2>1. stage' = "start" => stage = "start" /\ updates' = updates
    BY DEF Next, Create, AddBlock, Fetch, WriteEntry, WriteData, Count, WritePart, WriteHeader,
           GoOn, Fail, Panic, vars
  <2> QED
    BY <2>1 DEF Fresh
<1>3. CASE UNCHANGED <<header, stored, good>>
  BY <1>2, <1>3 DEF Torn
<1>4. CASE Create
  <2>1. header' = header /\ WriteHeader(header', MetadataRecords)
    BY <1>4 DEF Create
  <2>2. \A f \in Fields : header[f] <= header'[f]
    <3>1. \A f \in Fields : header[f] \in Nat
      BY Zenon, <1>1, HeaderFields DEF TypeOK
    <3> QED
      BY <2>1, <3>1
  <2> QED
    BY Zenon, <1>1, <1>2, <2>1, <2>2, WriteHeaderLeaves
<1>5. CASE Count
  <2>1. header' = Counted(Head(todo)) /\ WriteHeader(header', Tail(todo)) /\ Head(todo) \in Records
    BY <1>1, <1>5 DEF Count, TypeOK
  <2>2. \A f \in Fields : header[f] <= header'[f]
    BY Zenon, <1>1, <2>1, CountedGrows
  <2> QED
    BY Zenon, <1>1, <1>2, <2>1, <2>2, WriteHeaderLeaves
<1> QED
  BY <1>3, <1>4, <1>5 DEF Next, AddBlock, Fetch, WriteEntry, WriteData, vars

LEMMA ReaderInvariance == Spec => []ReaderInv
<1>1. Init => Torn /\ Fresh
  BY DEF Init, Torn, Fresh
<1> QED
  BY <1>1, StepReader, FileInvariance, PTL DEF Spec, ReaderInv

\* The records a reader finds are the first ones that were counted, whole.
LEMMA DurableIs ==
    FileInv => /\ EntriesIn(good) \in 0 .. Len(updates)
               /\ DurableRecords = [i \in 1 .. EntriesIn(good) |-> updates[i].rec]
<1> SUFFICES ASSUME FileInv
             PROVE  /\ EntriesIn(good) \in 0 .. Len(updates)
                    /\ DurableRecords = [i \in 1 .. EntriesIn(good) |-> updates[i].rec]
  OBVIOUS
<1>1. Len(updates) \in Nat /\ TypeOK
  BY DEF FileInv, Inv, TypeOK
<1>2. EntriesIn(good) \in 0 .. Len(updates)
  <2>1. CASE good = NoHeader
    BY <1>1, <2>1 DEF EntriesIn, NoHeader
  <2>2. CASE good # NoHeader
    <3>1. PICK k \in 0 .. Len(updates) : Describes(good, k)
      BY <2>2 DEF FileInv, GoodOnes
    <3>2. k \in Nat
      BY <1>1
    <3> QED
      BY Zenon, <1>1, <3>1, <3>2, EntriesAreRecords
  <2> QED
    BY <2>1, <2>2
<1> DEFINE n == EntriesIn(good)
<1> HIDE DEF n
<1>3. ASSUME NEW i \in 1 .. n PROVE i <= Len(updates) /\ InFile(updates[i])
  <2>1. i \in 1 .. Len(updates)
    BY <1>1, <1>2, <1>3 DEF n
  <2> QED
    BY <1>1, <2>1 DEF FileInv, InLog
<1>4. DurableRecords = [i \in 1 .. n |-> updates[i].rec]
  BY Zenon, <1>3 DEF DurableRecords, n
<1> QED
  BY <1>2, <1>4 DEF n

LEMMA DurableIsNext ==
    FileInv' => /\ EntriesIn(good') \in 0 .. Len(updates')
                /\ DurableRecords' = [i \in 1 .. EntriesIn(good') |-> updates'[i].rec]
<1>1. (FileInv => /\ EntriesIn(good) \in 0 .. Len(updates)
                  /\ DurableRecords = [i \in 1 .. EntriesIn(good) |-> updates[i].rec])'
  BY DurableIs, PTL
<1> QED
  BY <1>1 DEF EntriesIn

\* A step that leaves the last complete header loses none of its records.
LEMMA SameDurable ==
    ASSUME FileInv, FileInv', good' = good,
           \A i \in 1 .. Len(updates) : updates'[i] = updates[i]
    PROVE  DurableRecords' = DurableRecords
<1>1. PICK n : n = EntriesIn(good)
  OBVIOUS
<1>2. /\ n \in 0 .. Len(updates) /\ Len(updates) \in Nat
      /\ DurableRecords = [i \in 1 .. n |-> updates[i].rec]
      /\ DurableRecords' = [i \in 1 .. n |-> updates'[i].rec]
  BY <1>1, DurableIs, DurableIsNext DEF FileInv, Inv, TypeOK
<1>3. \A i \in 1 .. n : i \in 1 .. Len(updates)
  BY <1>2
<1> QED
  BY Zenon, <1>2, <1>3

\* What a complete header adds are whole records behind those that were there.
LEMMA MoreDurable ==
    ASSUME FileInv, FileInv', EntriesIn(good') = Len(updates'),
           Len(updates') > Len(updates), UNCHANGED <<kind>>,
           \A i \in 1 .. Len(updates) : updates'[i] = updates[i]
    PROVE  /\ Len(DurableRecords') > Len(DurableRecords)
           /\ SubSeq(DurableRecords', 1, Len(DurableRecords)) = DurableRecords
           /\ \A i \in Len(DurableRecords) + 1 .. Len(DurableRecords') :
                 DurableRecords'[i] # Garbage
<1>1. PICK n, m : n = EntriesIn(good) /\ m = Len(updates')
  OBVIOUS
<1>2. /\ n \in 0 .. Len(updates) /\ Len(updates) \in Nat /\ m \in Nat
      /\ updates' \in Seq([rec : Records, at : Nat])
      /\ DurableRecords = [i \in 1 .. n |-> updates[i].rec]
      /\ DurableRecords' = [i \in 1 .. m |-> updates'[i].rec]
  BY <1>1, DurableIs, DurableIsNext DEF FileInv, Inv, TypeOK
<1>3. n \in Nat /\ n < m /\ \A i \in 1 .. n : i \in 1 .. Len(updates) /\ i \in 1 .. m
  BY <1>1, <1>2
<1>4. Len(DurableRecords) = n /\ Len(DurableRecords') = m
  BY <1>2, <1>3
<1>5. SubSeq(DurableRecords', 1, n) = [i \in 1 .. n |-> DurableRecords'[i]]
  <2>1. SubSeq(DurableRecords', 1, n) = [i \in 1 .. n |-> DurableRecords'[(1 + i) - 1]]
    BY <1>3
  <2> QED
    BY <1>3, <2>1
<1>6. [i \in 1 .. n |-> DurableRecords'[i]] = [i \in 1 .. n |-> updates[i].rec]
  BY Zenon, <1>2, <1>3
<1>7. ASSUME NEW i \in n + 1 .. m PROVE DurableRecords'[i] # Garbage
  <2>1. i \in 1 .. m
    BY <1>2, <1>3
  <2>2. updates'[i] \in [rec : Records, at : Nat]
    BY Zenon, <1>1, <1>2, <2>1, ElementOfSeq
  <2>3. updates'[i].rec.type \in RecordTypes
    BY <2>2 DEF Records
  <2>4. updates'[i].rec # Garbage
    BY <2>3 DEF Garbage, RecordTypes, MetadataTypes, DataTypes
  <2> QED
    BY Zenon, <1>2, <2>1, <2>4
<1> QED
  BY <1>2, <1>3, <1>4, <1>5, <1>6, <1>7

\* The header in the file is not torn.
Intact == stored = good /\ good # NoHeader

LEMMA AllAreCounted ==
    TypeOK /\ Describes(header, Len(updates)) => EntriesIn(header) = Len(updates)
<1> SUFFICES ASSUME TypeOK, Describes(header, Len(updates))
             PROVE  EntriesIn(header) = Len(updates)
  OBVIOUS
<1>1. Len(updates) \in Nat
  BY DEF TypeOK
<1> QED
  BY Zenon, <1>1, EntriesAreRecords

LEMMA AllAreCountedNext ==
    (TypeOK /\ Describes(header, Len(updates)) => EntriesIn(header) = Len(updates))'
BY AllAreCounted, PTL

LEMMA StepIsLog ==
    ReaderInv /\ ReaderInv' /\ [Next]_vars => [Reader!Next]_<<DurableRecords, Intact>>
<1> SUFFICES ASSUME ReaderInv, ReaderInv', [Next]_vars
             PROVE  [Reader!Next]_<<DurableRecords, Intact>>
  OBVIOUS
<1> USE DEF ReaderInv
<1>1. TypeOK /\ Counts /\ header' \in Headers /\ Len(updates) \in Nat
  BY DEF FileInv, Inv, TypeOK
<1>2. CASE UNCHANGED <<stored, good, updates>>
  <2>1. DurableRecords' = DurableRecords
    BY <1>2, SameDurable
  <2> QED
    BY <1>2, <2>1 DEF Intact
\* A header that was not written completely.
<1>3. ASSUME good' = good, good # NoHeader /\ stored' = good => stored = good,
             \A i \in 1 .. Len(updates) : updates'[i] = updates[i]
      PROVE  [Reader!Next]_<<DurableRecords, Intact>>
  <2>1. DurableRecords' = DurableRecords
    BY <1>3, SameDurable
  <2>2. CASE ~Intact'
    BY <2>1, <2>2 DEF Reader!Next, Reader!Tear, Intact
  <2>3. CASE Intact'
    <3>1. Intact' = Intact
      BY <1>3, <2>3 DEF Intact
    <3> QED
      BY <2>1, <3>1
  <2> QED
    BY <2>2, <2>3
<1>4. ASSUME stored' = header', good' = header', header'.eof # 0 PROVE Intact'
  BY <1>4 DEF Intact, NoHeader
<1>5. CASE Create
  <2>1. updates = << >> /\ updates' = updates /\ header' = header
        /\ WriteHeader(header', MetadataRecords)
    BY <1>5 DEF Create, Fresh
  <2>2. \A f \in Fields : header[f] <= header'[f]
    <3>1. \A f \in Fields : header[f] \in Nat
      BY Zenon, <1>1, HeaderFields DEF TypeOK
    <3> QED
      BY <2>1, <3>1
  <2>3. CASE stored' = header' /\ good' = header'
    <3>1. header.eof = HeaderSize /\ HeaderSize # 0
      <4>1. header.eof = EndOf(0)
        BY <2>1 DEF FileInv, Inv, Place
      <4> QED
        BY <4>1, JournalAssumption DEF EndOf
    <3>2. Intact'
      BY <1>4, <2>1, <2>3, <3>1
    <3>3. EntriesIn(good) = 0 /\ EntriesIn(good') = 0
      <4>1. EntriesIn(good) \in 0 .. Len(updates) /\ EntriesIn(good') \in 0 .. Len(updates')
        BY DurableIs, DurableIsNext
      <4>2. Len(updates) = 0 /\ Len(updates') = 0
        BY <2>1
      <4> QED
        BY <4>1, <4>2
    <3>4. DurableRecords = << >> /\ DurableRecords' = << >>
      BY <3>3, DurableIs, DurableIsNext
    <3> QED
      BY <3>2, <3>4 DEF Reader!Next, Reader!Start, Intact
  <2>4. CASE good' = good /\ (good # NoHeader /\ stored' = good => stored = good)
    BY <1>3, <2>1, <2>4
  <2> QED
    BY Zenon, <1>1, <2>1, <2>2, <2>3, <2>4, WriteHeaderLeaves
<1>6. TypeOK'
  BY DEF FileInv, Inv
<1>7. CASE Count
  <2>1. /\ header' = Counted(Head(todo)) /\ WriteHeader(header', Tail(todo))
        /\ Head(todo) \in Records /\ kind' = kind
        /\ updates' = Append(updates, [rec |-> Head(todo), at |-> pos])
    BY <1>1, <1>7 DEF Count, TypeOK, image
  <2>2. \A f \in Fields : header[f] <= header'[f]
    BY Zenon, <1>1, <2>1, CountedGrows
  <2>3. Len(updates') = Len(updates) + 1 /\ \A i \in 1 .. Len(updates) : updates'[i] = updates[i]
    <3>1. updates \in Seq([rec : Records, at : Nat])
      BY <1>1 DEF TypeOK
    <3>2. ASSUME NEW u PROVE /\ Len(Append(updates, u)) = Len(updates) + 1
                             /\ \A i \in 1 .. Len(updates) : Append(updates, u)[i] = updates[i]
      BY <3>1
    <3> QED
      BY Zenon, <2>1, <3>2
  <2>4. CASE stored' = header' /\ good' = header'
    <3>1. header'.eof # 0
      <4>1. header'.eof = header.eof + RecordLen(Head(todo)) /\ header.eof \in Nat
        BY <1>1, <2>1, CountedIsHeader DEF TypeOK, Headers
      <4>2. RecordLen(Head(todo)) = EntrySize + DataLen(Head(todo))
            /\ DataLen(Head(todo)) \in Nat /\ EntrySize \in Nat \ {0}
        BY Zenon, <2>1, LengthsAreNat, JournalAssumption DEF RecordLen
      <4> QED
        BY <4>1, <4>2
    <3>2. Intact'
      BY <1>4, <2>4, <3>1
    <3>3. EntriesIn(good') = Len(updates')
      <4>1. Describes(header, Len(updates))'
        <5>1. Sums(header', updates', Len(updates')) /\ header'.eof = EndOf(Len(updates))'
          BY DEF FileInv, Inv, Place, Counts
        <5>2. Len(updates') <= Len(updates')
          BY <1>1, <2>3
        <5> QED
          BY <5>1, <5>2, DescribesIsSums
      <4> QED
        BY <1>6, <2>4, <4>1, AllAreCountedNext DEF EntriesIn
    <3>4. /\ Len(DurableRecords') > Len(DurableRecords)
          /\ SubSeq(DurableRecords', 1, Len(DurableRecords)) = DurableRecords
          /\ \A i \in Len(DurableRecords) + 1 .. Len(DurableRecords') :
                DurableRecords'[i] # Garbage
      <4>1. Len(updates') > Len(updates)
        BY <1>1, <2>3
      <4> QED
        BY Zenon, <2>1, <2>3, <3>3, <4>1, MoreDurable
    <3> QED
      BY <3>2, <3>4 DEF Reader!Next, Reader!Extend, Intact
  <2>5. CASE good' = good /\ (good # NoHeader /\ stored' = good => stored = good)
    BY <1>3, <2>3, <2>5
  <2> QED
    BY Zenon, <1>1, <2>1, <2>2, <2>4, <2>5, WriteHeaderLeaves
<1> QED
  BY <1>2, <1>5, <1>7 DEF Next, AddBlock, Fetch, WriteEntry, WriteData, vars

\* Whoever reads the journal finds an append-only log of whole records, wherever the
\* writer stopped and whatever tore: no record that was counted by a complete header is
\* lost or changed, a torn header is not taken for an older one, and the next complete
\* header makes all that was written readable (journal.rs:243-325).
THEOREM ImplementsAppendLogAlways == Spec => ImplementsAppendLog
<1>1. Init => Reader!Init
  <2> SUFFICES ASSUME Init PROVE Reader!Init
    OBVIOUS
  <2>1. good = NoHeader /\ EntriesIn(good) = 0
    BY DEF Init, EntriesIn, NoHeader
  <2>2. DurableRecords = << >>
    BY <2>1 DEF DurableRecords
  <2> QED
    BY <2>1, <2>2 DEF Reader!Init
<1> QED
  BY <1>1, ReaderInvariance, StepIsLog, PTL DEF Spec, ImplementsAppendLog, Reader!Spec, Intact
=============================================================================
