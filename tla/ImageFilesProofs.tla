--------------------------- MODULE ImageFilesProofs ---------------------------
(***************************************************************************)
(* The safety properties of image files, for any number of processes,      *)
(* files and images of any size, whatever writes fail and wherever         *)
(* processes end.                                                          *)
(*                                                                         *)
(* TypeInv says what the variables hold.  FileInv says of a file that no   *)
(* handle on an older image has written to what is in it: all of its       *)
(* image (Whole), a part of it that a create has yet to complete           *)
(* (Building), or something that open refuses.                             *)
(***************************************************************************)
EXTENDS ImageFilesProps, SequenceTheorems, TLAPS

-----------------------------------------------------------------------------
(* Types *)

Sectors == {ZeroPart, TornPart} \cup [is : Parts \ {"Zero", "Torn"}, id : Ids]
Images  == [type : Types, parent : Nat, blocks : 0 .. MaxBlocks]
Writes  == [at : Nat, parts : Seq(Sectors)]
Names   == Paths \cup {"none"}
Stages  == {"free", "footer", "header", "bat", "truncate", "write", "ready", "panicked"}
States  == [stage : Stages, op : {"none", "open", "create", "flush", "drop"},
            path : Names, source : Names, asked : Nat, type : Types \cup {"none"},
            footer : {NoImage} \cup Ids, header : {NoImage} \cup Ids, bat : Seq(Sectors),
            mode : {"none", "opened", "created"}, raced : BOOLEAN, todo : Seq(Writes)]

\* What a handle knows when it is about to create its file: the size is one that is
\* allowed, the parent is a sparse image in another file.
MayTruncate(r) ==
    /\ r.op = "create" /\ r.path \in Paths
    /\ \/ /\ r.type \in {"Fixed", "Dynamic"}
          /\ r.footer = NoImage /\ BlocksFor(r.asked) <= MaxBlocks /\ r.source = "none"
       \/ /\ r.type = "Diff"
          /\ r.footer \in Ids /\ IsSparse(r.footer) /\ r.path # r.source

Creating(r) == r.stage = "write" /\ r.op = "create"

\* How far a handle is, and what it knows there.
Shape(r) ==
    /\ r.stage = "write" <=> r.todo # << >>
    /\ r.stage = "write" => r.op \in {"create", "flush", "drop"}
    /\ r.stage \in {"write", "panicked"} => r.mode = "created"
    /\ r.stage = "ready" => r.mode \in {"opened", "created"}
    /\ r.stage \in {"free", "footer", "header", "bat", "truncate"} => r.mode = "none"
    /\ r.mode # "none" => r.path \in Paths /\ r.footer \in Ids
    /\ r.stage \in ReadingStages => r.source \in Paths /\ r.path \in Paths
                                    /\ r.op \in {"open", "create"}
    /\ r.stage \in {"header", "bat"} => r.footer \in Ids /\ IsSparse(r.footer)
    /\ r.stage = "bat" => r.header \in Ids
    /\ r.stage = "truncate" => MayTruncate(r)
    /\ Creating(r) => r.source = "none" \/ r.path # r.source
    /\ \A i \in DOMAIN r.todo : r.todo[i].parts # << >>

ImagesOK ==
    /\ images \in Seq(Images) /\ Len(images) <= MaxImages
    /\ \A id \in Ids : images[id].type = "Diff" <=> images[id].parent # NoImage
    /\ \A id \in Ids : images[id].parent \in {NoImage} \cup Ids
    /\ SizesAreRight

TypeInv ==
    /\ files \in [Paths -> Seq(Sectors)]
    /\ ImagesOK
    /\ handle \in [Handles -> States] /\ \A h \in Handles : Shape(handle[h])
    /\ owner \in [Paths -> {NoImage} \cup Ids]
    /\ soiled \subseteq Paths /\ returned \subseteq Ids

-----------------------------------------------------------------------------
(* What is in a file *)

InBat(id, i) == IsSparse(id) /\ i \in BatAt + 1 .. BatAt + BatSectors(id)

\* What the sector at index i of an image's file may hold when the image is whole.
Expected(id, i) ==
    IF i = End(id) + 1 THEN {Part("Footer", id)}
    ELSE IF ~IsSparse(id) THEN {ZeroPart, Part("Data", id)}
    ELSE IF i = 1 THEN {Part("Footer", id)}
    ELSE IF i = 2 THEN {Part("Header", id)}
    ELSE IF i = 3 THEN {Part("HeaderEnd", id)}
    ELSE IF InBat(id, i) THEN {Part("Bat", id), ZeroPart, TornPart}
    ELSE {Part("Locator", id)}

Whole(f, id) ==
    /\ Len(f) = End(id) + 1
    /\ \A i \in 1 .. End(id) + 1 : f[i] \in Expected(id, i)

\* A write of a create: it puts what the image is to hold, below the footer.
Covers(w, i) == i - w.at \in DOMAIN w.parts
IsRight(id, w) ==
    /\ w.at + Len(w.parts) <= End(id)
    /\ \A i \in DOMAIN w.parts : w.parts[i] \in Expected(id, w.at + i) /\ w.parts[i].is # "Data"
    /\ w.parts[1].is = "Bat" => \A i \in DOMAIN w.parts : InBat(id, w.at + i)

HeaderWrite(id) == At(1, << Part("Header", id), Part("HeaderEnd", id) >>)
FooterWrite(id) == At(End(id), << Part("Footer", id) >>)

\* A create has yet to do the writes of todo: what they do not cover is there, and
\* the footer at the end is the last of them.
Building(f, id, todo) ==
    /\ Len(f) <= End(id)
    /\ \A i \in 1 .. Len(f) : f[i] \in Expected(id, i) \cup {ZeroPart} /\ f[i].is # "Data"
    /\ IsSparse(id) => Len(f) >= 3 \/ (f = << >> /\ Len(todo) > 1 /\ todo[1] = HeaderWrite(id))
    /\ Len(todo) > 0 /\ todo[Len(todo)] = FooterWrite(id)
    /\ \A j \in 1 .. Len(todo) - 1 : IsRight(id, todo[j])
    /\ \A i \in 1 .. End(id) :
          \/ InBat(id, i)
          \/ i <= Len(f) /\ f[i] \in Expected(id, i)
          \/ \E j \in 1 .. Len(todo) : Covers(todo[j], i)

\* The writes of flush and Drop put footers where the image has them.
IsFooters(id, todo) ==
    \A j \in 1 .. Len(todo) :
        \/ todo[j] = FooterWrite(id)
        \/ IsSparse(id) /\ todo[j] = At(0, << Part("Footer", id) >>)

-----------------------------------------------------------------------------
(* The handles and the files *)

\* A handle that writes to the image its file was last truncated for.
Owns(r) == r.mode = "created" /\ r.footer = owner[r.path] /\ r.path \notin soiled

OwnerOK(r) ==
    Owns(r) => IF Creating(r) THEN Building(files[r.path], r.footer, r.todo)
               ELSE Whole(files[r.path], r.footer)

\* What a create, a flush and a drop have to do.
WriterOK(r) ==
    /\ Creating(r) => r.footer \notin returned
    /\ r.stage = "write" /\ ~Creating(r) => IsFooters(r.footer, r.todo)

\* What a handle has read of a file that nobody wrote to meanwhile.
ReaderOK(r) ==
    (r.stage \in ReadingStages /\ ~r.raced) =>
        /\ r.source \notin soiled
        /\ r.stage \in {"header", "bat"} =>
              EndsInFooter(files[r.source]) /\ Last(files[r.source]).id = r.footer
        /\ r.stage = "bat" => HasHeader(files[r.source]) /\ files[r.source][2].id = r.header

OpenedOK(r) ==
    (r.stage = "ready" /\ r.mode = "opened" /\ ~r.raced /\ IsSparse(r.footer)) =>
        /\ r.header = r.footer /\ Len(r.bat) = BatSectors(r.footer)
        /\ \A i \in DOMAIN r.bat : r.bat[i] \in {Part("Bat", r.footer), ZeroPart, TornPart}

OpensIsWhole ==
    \A p \in Paths \ soiled :
        (Opens(files[p]) \/ owner[p] \in returned) => owner[p] \in Ids /\ Whole(files[p], owner[p])

\* An image has one handle that may write to it, and one file.
OneWriter ==
    /\ \A g, h \in Handles :
          (g # h /\ handle[g].mode = "created" /\ handle[h].mode = "created") =>
              handle[g].footer # handle[h].footer
    /\ \A h \in Handles, p \in Paths :
          (handle[h].mode = "created" /\ owner[p] = handle[h].footer) => p = handle[h].path

HandlesOK ==
    \A h \in Handles : /\ OwnerOK(handle[h]) /\ WriterOK(handle[h])
                       /\ ReaderOK(handle[h]) /\ OpenedOK(handle[h])

FileInv == OpensIsWhole /\ OneWriter /\ HandlesOK

-----------------------------------------------------------------------------
(* Typing *)

\* The layout of an image is known once it is created.
LEMMA Layout ==
    ASSUME ImagesOK, NEW id \in Ids
    PROVE  /\ images[id] \in Images
           /\ IsSparse(id) \in BOOLEAN /\ BatSectors(id) \in Nat /\ Locators(id) \in 0 .. 2
           /\ End(id) \in Nat
           /\ IsSparse(id) => End(id) = 3 + BatSectors(id) + Locators(id)
           /\ ~IsSparse(id) => End(id) = images[id].blocks * SectorsPerBlock
<1>1. images[id] \in Images
  BY DEF ImagesOK, Ids
<1>2. images[id].blocks \in Nat /\ images[id].type \in Types
  BY <1>1, ImageFilesAssumption DEF Images
<1>3. BatSectors(id) \in Nat
  BY <1>2, ImageFilesAssumption, Z3 DEF BatSectors, Ceil
<1>4. Locators(id) \in 0 .. 2
  BY DEF Locators
<1>5. images[id].blocks * SectorsPerBlock \in Nat
  BY <1>2, ImageFilesAssumption
<1>6. QED
  BY <1>1, <1>3, <1>4, <1>5 DEF IsSparse, End, BatAt

\* A size that is asked for becomes a natural number of blocks.
LEMMA BlocksType == \A mb \in Nat : BlocksFor(mb) \in Nat
BY ImageFilesAssumption, Z3 DEF BlocksFor

\* The parts of an image, and what a file reads as where it was never written.
LEMMA PartTypes ==
    /\ ZeroPart \in Sectors /\ TornPart \in Sectors
    /\ \A id \in Ids : \A is \in Parts \ {"Zero", "Torn"} : Part(is, id) \in Sectors
    /\ \A s \in Sectors : /\ s.is \in Parts /\ s.id \in {NoImage} \cup Ids
                          /\ s.is \notin {"Zero", "Torn"} => s.id \in Ids
BY DEF Sectors, ZeroPart, TornPart, Part, Parts

\* Put writes sectors at a place, and zeroes up to it.
IsPut(g, f, at, parts) ==
    /\ Len(g) = IF at + Len(parts) < Len(f) \/ parts = << >> THEN Len(f) ELSE at + Len(parts)
    /\ \A i \in 1 .. Len(g) :
          g[i] = IF i - at \in 1 .. Len(parts) THEN parts[i - at]
                 ELSE IF i <= Len(f) THEN f[i] ELSE ZeroPart

\* Put(f, at, parts) is such a file, of sectors.
LEMMA PutSectors ==
    ASSUME NEW f \in Seq(Sectors), NEW at \in Nat, NEW parts \in Seq(Sectors)
    PROVE  Put(f, at, parts) \in Seq(Sectors) /\ IsPut(Put(f, at, parts), f, at, parts)
<1> DEFINE n == IF at + Len(parts) < Len(f) \/ parts = << >> THEN Len(f) ELSE at + Len(parts)
           e(i) == IF i - at \in 1 .. Len(parts) THEN parts[i - at]
                   ELSE IF i <= Len(f) THEN f[i] ELSE ZeroPart
<1>1. n \in Nat
  OBVIOUS
<1>2. \A i \in 1 .. n : e(i) \in Sectors
  BY PartTypes
<1>3. Put(f, at, parts) = [i \in 1 .. n |-> e(i)]
  BY DEF Put
<1> HIDE DEF n, e
<1>4. [i \in 1 .. n |-> e(i)] \in Seq(Sectors) /\ Len([i \in 1 .. n |-> e(i)]) = n
  BY <1>1, <1>2
<1>5. QED
  BY <1>3, <1>4 DEF n, e, IsPut

\* The sectors that are written are there.
LEMMA PutThere ==
    ASSUME NEW f \in Seq(Sectors), NEW at \in Nat, NEW parts \in Seq(Sectors),
           NEW k \in 1 .. Len(parts)
    PROVE  at + k \in DOMAIN Put(f, at, parts) /\ Put(f, at, parts)[at + k] = parts[k]
<1>. DEFINE g == Put(f, at, parts)
<1>1. g \in Seq(Sectors) /\ IsPut(g, f, at, parts)
  BY PutSectors
<1>. HIDE DEF g
<1>2. Len(f) \in Nat /\ Len(parts) \in Nat /\ parts # << >>
  OBVIOUS
<1>3. Len(g) = IF at + Len(parts) < Len(f) THEN Len(f) ELSE at + Len(parts)
  BY <1>1, <1>2 DEF IsPut
<1>4. at + k \in 1 .. Len(g) /\ at + k - at = k
  BY <1>2, <1>3
<1>5. \A i \in 1 .. Len(g), j \in 1 .. Len(parts) : i - at = j => g[i] = parts[j]
  BY <1>1 DEF IsPut
<1>6. g[at + k] = parts[k]
  BY <1>4, <1>5
<1>7. QED
  BY <1>1, <1>4, <1>6 DEF g

\* Writing nothing changes nothing, nor does writing what is there.
LEMMA PutSame ==
    ASSUME NEW f \in Seq(Sectors), NEW at \in Nat, NEW parts \in Seq(Sectors),
           \A k \in 1 .. Len(parts) : at + k <= Len(f) /\ f[at + k] = parts[k]
    PROVE  Put(f, at, parts) = f
<1>. DEFINE g == Put(f, at, parts)
<1>1. g \in Seq(Sectors) /\ IsPut(g, f, at, parts)
  BY PutSectors
<1>. HIDE DEF g
<1>2. Len(g) = Len(f)
  <2>1. CASE parts = << >>
    BY <1>1, <2>1 DEF IsPut
  <2>2. CASE parts # << >>
    <3>1. Len(parts) \in 1 .. Len(parts) /\ Len(f) \in Nat
      BY <2>2
    <3>2. at + Len(parts) <= Len(f)
      BY <3>1
    <3>3. QED
      BY <1>1, <3>1, <3>2 DEF IsPut
  <2>3. QED
    BY <2>1, <2>2
<1>3. ASSUME NEW i \in 1 .. Len(g) PROVE g[i] = f[i]
  <2>1. CASE i - at \in 1 .. Len(parts)
    <3>1. at + (i - at) = i
      OBVIOUS
    <3>2. f[at + (i - at)] = parts[i - at]
      BY <2>1
    <3>3. QED
      BY <1>1, <2>1, <3>1, <3>2 DEF IsPut
  <2>2. CASE i - at \notin 1 .. Len(parts)
    BY <1>1, <1>2, <2>2 DEF IsPut
  <2>3. QED
    BY <2>1, <2>2
<1>4. g = f
  BY <1>1, <1>2, <1>3
<1>5. QED
  BY <1>4 DEF g

\* What follows the first of a sequence.
LEMMA TailFacts ==
    ASSUME NEW S, NEW s \in Seq(S), s # << >>
    PROVE  /\ Head(s) = s[1] /\ 1 \in DOMAIN s /\ Head(s) \in S /\ Len(s) > 0
           /\ Tail(s) \in Seq(S) /\ Len(Tail(s)) = Len(s) - 1
           /\ \A j \in 1 .. Len(s) - 1 : Tail(s)[j] = s[j + 1]
OBVIOUS

\* The writes of a call stay writes of it.
LEMMA TodoTypes ==
    ASSUME NEW r \in States, Shape(r), r.stage = "write"
    PROVE  /\ r.todo # << >> /\ Head(r.todo) \in Writes /\ Head(r.todo) = r.todo[1]
           /\ Head(r.todo).at \in Nat /\ Head(r.todo).parts \in Seq(Sectors)
           /\ Head(r.todo).parts # << >>
           /\ Tail(r.todo) \in Seq(Writes) /\ Len(Tail(r.todo)) = Len(r.todo) - 1
           /\ \A j \in 1 .. Len(r.todo) - 1 : Tail(r.todo)[j] = r.todo[j + 1]
<1>1. r.todo \in Seq(Writes) /\ r.todo # << >>
  BY DEF States, Shape
<1>2. Head(r.todo) \in Writes /\ Head(r.todo) = r.todo[1] /\ 1 \in DOMAIN r.todo
  BY <1>1
<1>3. Head(r.todo).parts # << >>
  BY <1>2 DEF Shape
<1>4. Head(r.todo).at \in Nat /\ Head(r.todo).parts \in Seq(Sectors)
  BY <1>2 DEF Writes
<1>5. QED
  BY <1>1, <1>2, <1>3, <1>4

\* What a handle does after a write.
LEMMA AfterWrite ==
    ASSUME NEW r \in States, Shape(r), r.stage = "write",
           NEW n \in {NextWrite(r), AfterError(r), AfterLast(r)}
    PROVE  /\ n \in States /\ Shape(n)
           /\ \/ n = Free
              \/ /\ n.footer = r.footer /\ n.path = r.path /\ n.source = r.source
                 /\ n.mode = r.mode /\ n.raced = r.raced
                 /\ \/ n.stage = "ready" /\ n.op = "none"
                    \/ /\ n.stage = "write" /\ n.op = r.op /\ n.todo = Tail(r.todo)
                       /\ Len(r.todo) > 1
<1>1. Free \in States /\ Shape(Free)
  BY DEF Free, States, Shape, Stages, Names, NoImage, Creating, ReadingStages
<1>2. AfterLast(r) = Free \/ AfterLast(r) = [r EXCEPT !.stage = "ready", !.op = "none", !.todo = << >>]
  BY DEF AfterLast
<1>3. ASSUME NEW m, m = [r EXCEPT !.stage = "ready", !.op = "none", !.todo = << >>]
      PROVE  /\ m \in States /\ Shape(m)
             /\ m.footer = r.footer /\ m.path = r.path /\ m.source = r.source
             /\ m.mode = r.mode /\ m.raced = r.raced /\ m.op = "none" /\ m.stage = "ready"
  <2>1. << >> \in Seq(Writes)
    OBVIOUS
  <2>2. m \in States
    BY <1>3, <2>1 DEF States, Stages
  <2>3. QED
    BY <1>3, <2>2 DEF States, Shape, Creating, ReadingStages, MayTruncate
<1>4. ASSUME NEW m, m = [r EXCEPT !.todo = Tail(@)], Len(r.todo) # 1
      PROVE  /\ m \in States /\ Shape(m)
             /\ m.footer = r.footer /\ m.path = r.path /\ m.source = r.source
             /\ m.mode = r.mode /\ m.raced = r.raced /\ m.op = r.op /\ m.stage = "write"
             /\ m.todo = Tail(r.todo) /\ Len(r.todo) > 1
  <2>1. /\ r.todo \in Seq(Writes) /\ r.todo # << >> /\ Tail(r.todo) \in Seq(Writes)
        /\ Len(Tail(r.todo)) = Len(r.todo) - 1 /\ Len(r.todo) > 1 /\ Len(Tail(r.todo)) > 0
        /\ \A j \in 1 .. Len(r.todo) - 1 : Tail(r.todo)[j] = r.todo[j + 1]
    <3>1. r.todo \in Seq(Writes) /\ r.todo # << >>
      BY TodoTypes DEF States
    <3>2. Len(r.todo) \in Nat /\ Len(r.todo) # 0
      BY <3>1
    <3>3. Len(r.todo) # 1
      BY <1>4, Zenon
    <3>4. \A k \in Nat : k # 0 /\ k # 1 => k > 1
      OBVIOUS
    <3>5. Len(r.todo) > 1
      BY <3>2, <3>3, <3>4, Zenon
    <3>6. QED
      BY <3>1, <3>5, TailFacts
  <2>2. m \in States
    BY <1>4, <2>1 DEF States
  <2>3. Tail(r.todo) # << >>
    BY <2>1
  <2>4. \A i \in DOMAIN Tail(r.todo) : Tail(r.todo)[i].parts # << >>
    BY <2>1 DEF Shape
  <2>5. /\ m.footer = r.footer /\ m.path = r.path /\ m.source = r.source
        /\ m.mode = r.mode /\ m.raced = r.raced /\ m.op = r.op /\ m.stage = r.stage
        /\ m.todo = Tail(r.todo)
    BY <1>4 DEF States
  <2>6. Shape(m)
    BY <2>3, <2>4, <2>5 DEF Shape, Creating, ReadingStages, MayTruncate
  <2>7. QED
    BY <2>1, <2>2, <2>5, <2>6
<1>5. \/ NextWrite(r) = AfterLast(r)
      \/ Len(r.todo) # 1 /\ NextWrite(r) = [r EXCEPT !.todo = Tail(@)]
  BY DEF NextWrite
<1>6. AfterError(r) \in {NextWrite(r), AfterLast(r), Free}
  BY DEF AfterError
<1>7. \/ n = Free
      \/ n = [r EXCEPT !.stage = "ready", !.op = "none", !.todo = << >>]
      \/ Len(r.todo) # 1 /\ n = [r EXCEPT !.todo = Tail(@)]
  BY <1>2, <1>5, <1>6
<1>8. QED
  BY <1>1, <1>3, <1>4, <1>7

-----------------------------------------------------------------------------
(* Images are added, never changed *)

ImagesKept == Ids \subseteq Ids' /\ \A id \in Ids : images'[id] = images[id]

\* Images that are there stay as they are, and so does their layout.
LEMMA LayoutKept ==
    ASSUME ImagesKept, NEW id \in Ids
    PROVE  /\ (BatSectors(id))' = BatSectors(id) /\ (Locators(id))' = Locators(id)
           /\ (IsSparse(id))' = IsSparse(id) /\ (End(id))' = End(id)
           /\ \A i : (InBat(id, i))' <=> InBat(id, i)
           /\ \A i : (Expected(id, i))' = Expected(id, i)
           /\ (HeaderWrite(id))' = HeaderWrite(id) /\ (FooterWrite(id))' = FooterWrite(id)
<1>1. images'[id] = images[id]
  BY DEF ImagesKept
<1>2. (BatSectors(id))' = BatSectors(id) /\ (Locators(id))' = Locators(id)
      /\ (IsSparse(id))' = IsSparse(id)
  BY <1>1 DEF BatSectors, Locators, IsSparse
<1>3. (End(id))' = End(id)
  BY <1>1, <1>2 DEF End
<1>4. \A i : (InBat(id, i))' <=> InBat(id, i)
  BY <1>2 DEF InBat
<1>5. \A i : (Expected(id, i))' = Expected(id, i)
  BY <1>2, <1>3, <1>4 DEF Expected
<1>6. QED
  BY <1>2, <1>3, <1>4, <1>5 DEF HeaderWrite, FooterWrite

\* What a file holds of an image does not depend on the images that are added.
LEMMA ContentsKept ==
    ASSUME ImagesKept, NEW id \in Ids
    PROVE  /\ \A f : (Whole(f, id))' <=> Whole(f, id)
           /\ \A f, todo : (Building(f, id, todo))' <=> Building(f, id, todo)
           /\ \A todo : (IsFooters(id, todo))' <=> IsFooters(id, todo)
<1>1. \A f : (Whole(f, id))' <=> Whole(f, id)
  BY LayoutKept DEF Whole
<1>2. \A w : (IsRight(id, w))' <=> IsRight(id, w)
  BY LayoutKept DEF IsRight
<1>3. \A f, todo : (Building(f, id, todo))' <=> Building(f, id, todo)
  BY <1>2, LayoutKept DEF Building
<1>4. \A todo : (IsFooters(id, todo))' <=> IsFooters(id, todo)
  BY LayoutKept DEF IsFooters
<1>5. QED
  BY <1>1, <1>3, <1>4

\* Neither does whether a file opens.
LEMMA OpensKept ==
    ASSUME ImagesKept, NEW f \in Seq(Sectors)
    PROVE  /\ (HasHeader(f))' <=> HasHeader(f)
           /\ (Opens(f))' <=> Opens(f)
           /\ HasHeader(f) => f[2].id \in Ids /\ f[3].id \in Ids
           /\ EndsInFooter(f) => Last(f) = f[Len(f)] /\ Last(f).id \in Ids
<1>1. HasHeader(f) => f[2].id \in Ids /\ f[3].id \in Ids
  <2>1. SUFFICES ASSUME HasHeader(f) PROVE f[2].id \in Ids /\ f[3].id \in Ids
    OBVIOUS
  <2>2. f[2] \in Sectors /\ f[3] \in Sectors
    BY <2>1 DEF HasHeader, BatAt
  <2>3. QED
    BY <2>1, <2>2, PartTypes DEF HasHeader
<1>2. EndsInFooter(f) => Last(f) = f[Len(f)] /\ Last(f).id \in Ids
  <2>1. SUFFICES ASSUME EndsInFooter(f) PROVE Last(f) = f[Len(f)] /\ Last(f).id \in Ids
    OBVIOUS
  <2>2. Last(f) = f[Len(f)] /\ Last(f) \in Sectors
    BY <2>1 DEF EndsInFooter, Last
  <2>3. QED
    BY <2>1, <2>2, PartTypes DEF EndsInFooter
<1>3. (HasHeader(f))' <=> HasHeader(f)
  <2>1. CASE f[2].is = "Header" /\ f[3].is = "HeaderEnd" /\ Len(f) >= BatAt
    <3>1. f[2] \in Sectors /\ f[3] \in Sectors
      BY <2>1 DEF BatAt
    <3>2. f[2].id \in Ids /\ f[3].id \in Ids
      BY <2>1, <3>1, PartTypes
    <3>3. images'[f[2].id] = images[f[2].id] /\ images'[f[3].id] = images[f[3].id]
      BY <3>2 DEF ImagesKept
    <3>4. QED
      BY <3>3 DEF HasHeader
  <2>2. QED
    BY <2>1 DEF HasHeader
<1>4. (Opens(f))' <=> Opens(f)
  <2>1. CASE EndsInFooter(f)
    <3>1. (IsSparse(Last(f).id))' = IsSparse(Last(f).id)
      BY <2>1, <1>2, LayoutKept
    <3>2. HasHeader(f) => (BatSectors(f[2].id))' = BatSectors(f[2].id)
      BY <1>1, LayoutKept
    <3>3. QED
      BY <1>3, <3>1, <3>2 DEF Opens
  <2>2. CASE ~EndsInFooter(f)
    BY <2>2 DEF Opens
  <2>3. QED
    BY <2>1, <2>2
<1>5. QED
  BY <1>1, <1>2, <1>3, <1>4

-----------------------------------------------------------------------------
(* Writing to a file *)

\* What a write, or one that failed, may have put at its place: its first sectors, and
\* where they were not in the file before a torn one.
Leaves(f, w, parts) ==
    /\ parts \in Seq(Sectors) /\ Len(parts) <= Len(w.parts)
    /\ \A k \in 1 .. Len(parts) :
          \/ parts[k] = w.parts[k]
          \/ parts[k] = TornPart /\ ~(w.at + k <= Len(f) /\ f[w.at + k] = w.parts[k])

\* A write that failed did not put all of its sectors there anew.
IsCut(f, w, parts) ==
    Len(parts) = Len(w.parts) =>
        parts[Len(parts)] = TornPart \/ w.at + Len(parts) <= Len(f)

\* The sectors that a write, or one that failed, puts into a file are such sectors.
LEMMA CutsLeave ==
    ASSUME NEW f \in Seq(Sectors), NEW w \in Writes
    PROVE  /\ Leaves(f, w, w.parts)
           /\ \A parts \in Cuts(f, w) : Leaves(f, w, parts) /\ IsCut(f, w, parts)
<1>. DEFINE Torn(k) == IF w.at + k <= Len(f) /\ f[w.at + k] = w.parts[k] THEN w.parts[k]
                       ELSE TornPart
<1>1. w.parts \in Seq(Sectors) /\ w.at \in Nat
  BY DEF Writes
<1>2. Leaves(f, w, w.parts)
  BY <1>1 DEF Leaves
<1>3. ASSUME NEW k \in 0 .. Len(w.parts) - 1
      PROVE  Leaves(f, w, SubSeq(w.parts, 1, k)) /\ IsCut(f, w, SubSeq(w.parts, 1, k))
  <2>1. /\ SubSeq(w.parts, 1, k) \in Seq(Sectors) /\ Len(SubSeq(w.parts, 1, k)) = k
        /\ \A j \in 1 .. k : SubSeq(w.parts, 1, k)[j] = w.parts[j]
    BY <1>1
  <2>2. k < Len(w.parts) /\ k <= Len(w.parts) /\ k # Len(w.parts)
    BY <1>1
  <2>3. Leaves(f, w, SubSeq(w.parts, 1, k))
    BY <2>1, <2>2 DEF Leaves
  <2>4. IsCut(f, w, SubSeq(w.parts, 1, k))
    BY <2>1, <2>2, Zenon DEF IsCut
  <2>5. QED
    BY <2>3, <2>4
<1>4. ASSUME NEW k \in 1 .. Len(w.parts)
      PROVE  /\ Leaves(f, w, SubSeq(w.parts, 1, k - 1) \o << Torn(k) >>)
             /\ IsCut(f, w, SubSeq(w.parts, 1, k - 1) \o << Torn(k) >>)
  <2>. DEFINE s == SubSeq(w.parts, 1, k - 1)
              t == s \o << Torn(k) >>
  <2>1. /\ s \in Seq(Sectors) /\ Len(s) = k - 1
        /\ \A j \in 1 .. k - 1 : s[j] = w.parts[j]
    BY <1>1
  <2>2. Torn(k) \in Sectors
    BY <1>1, PartTypes
  <2>3. \/ Torn(k) = w.parts[k]
        \/ Torn(k) = TornPart /\ ~(w.at + k <= Len(f) /\ f[w.at + k] = w.parts[k])
    OBVIOUS
  <2>4. Torn(k) = TornPart \/ w.at + k <= Len(f)
    OBVIOUS
  <2>. HIDE DEF Torn, s
  <2>5. t \in Seq(Sectors) /\ Len(t) = k /\ t[k] = Torn(k) /\ \A j \in 1 .. k - 1 : t[j] = s[j]
    BY <2>1, <2>2
  <2>6. \A j \in 1 .. k : j = k \/ j \in 1 .. k - 1
    OBVIOUS
  <2>7. Len(t) <= Len(w.parts)
    BY <1>1, <2>5
  <2>. HIDE DEF t
  <2>8. Leaves(f, w, t)
    BY <2>1, <2>3, <2>5, <2>6, <2>7 DEF Leaves
  <2>9. IsCut(f, w, t)
    BY <2>5, <2>4, Zenon DEF IsCut
  <2>10. QED
    BY <2>8, <2>9 DEF t, s
<1>5. \A parts \in Cuts(f, w) :
         \/ \E k \in 0 .. Len(w.parts) - 1 : parts = SubSeq(w.parts, 1, k)
         \/ \E k \in 1 .. Len(w.parts) : parts = SubSeq(w.parts, 1, k - 1) \o << Torn(k) >>
  BY DEF Cuts
<1>. HIDE DEF Torn
<1>6. QED
  BY <1>2, <1>3, <1>4, <1>5

\* What a sector of an image may hold is a sector, and it is a footer at the end, or at
\* the beginning of a sparse image, only; data is in fixed images only.
LEMMA ExpectedFacts ==
    ASSUME ImagesOK, NEW id \in Ids
    PROVE  /\ Expected(id, End(id) + 1) = {Part("Footer", id)}
           /\ \A i \in 1 .. End(id) :
                 /\ IsSparse(id) /\ i > 1 => \A s \in Expected(id, i) : s.is \notin {"Footer", "Data"}
                 /\ IsSparse(id) => \A s \in Expected(id, i) : s.is # "Data"
                 /\ ~IsSparse(id) => Expected(id, i) = {ZeroPart, Part("Data", id)}
                 /\ InBat(id, i) => Expected(id, i) = {Part("Bat", id), ZeroPart, TornPart}
           /\ IsSparse(id) => /\ End(id) >= 3
                              /\ Expected(id, 1) = {Part("Footer", id)}
                              /\ Expected(id, 2) = {Part("Header", id)}
                              /\ Expected(id, 3) = {Part("HeaderEnd", id)}
<1>1. End(id) \in Nat /\ (IsSparse(id) => End(id) >= 3)
  BY Layout
<1>2. QED
  BY <1>1 DEF Expected, InBat, BatAt, Part, ZeroPart, TornPart

\* A file with all of an image opens as that image.
LEMMA WholeOpens ==
    ASSUME ImagesOK, NEW id \in Ids, NEW f \in Seq(Sectors), Whole(f, id)
    PROVE  Opens(f) /\ Holds(f, id) /\ EndsInFooter(f) /\ Last(f).id = id
<1>1. /\ End(id) \in Nat /\ BatSectors(id) \in Nat /\ Locators(id) \in 0 .. 2
      /\ IsSparse(id) => End(id) = 3 + BatSectors(id) + Locators(id)
  BY Layout
<1>2. Len(f) = End(id) + 1 /\ f[End(id) + 1] = Part("Footer", id)
  BY <1>1, ExpectedFacts DEF Whole
<1>3. Last(f) = Part("Footer", id) /\ EndsInFooter(f) /\ Last(f).id = id
  BY <1>1, <1>2 DEF Last, EndsInFooter, Part
<1>4. ASSUME IsSparse(id)
      PROVE  f[1] = Part("Footer", id) /\ f[2] = Part("Header", id) /\ f[3] = Part("HeaderEnd", id)
  <2>1. /\ f[1] \in Expected(id, 1) /\ f[2] \in Expected(id, 2) /\ f[3] \in Expected(id, 3)
    BY <1>1, <1>4 DEF Whole
  <2>2. QED
    BY <1>4, <2>1, ExpectedFacts
<1>5. IsSparse(id) => HasHeader(f) /\ CanReadExact(f, BatAt, BatSectors(f[2].id))
  BY <1>1, <1>2, <1>4 DEF HasHeader, CanReadExact, BatAt, Part
<1>6. Opens(f)
  BY <1>3, <1>5 DEF Opens
<1>7. ASSUME IsSparse(id), NEW i \in 1 .. Locators(id)
      PROVE  f[BatAt + BatSectors(id) + i] = Part("Locator", id)
  <2>. DEFINE k == BatAt + BatSectors(id) + i
  <2>1. k \in 1 .. End(id) + 1 /\ k # End(id) + 1 /\ k > 3 /\ ~InBat(id, k)
    BY <1>1, <1>7 DEF BatAt, InBat
  <2>. HIDE DEF k
  <2>2. f[k] \in Expected(id, k)
    BY <2>1 DEF Whole
  <2>3. Expected(id, k) = {Part("Locator", id)}
    BY <1>7, <2>1 DEF Expected
  <2>4. QED
    BY <2>2, <2>3 DEF k
<1>8. ~IsSparse(id) => \A i \in 1 .. End(id) : f[i] \in {ZeroPart, Part("Data", id)}
  <2>1. \A i \in 1 .. End(id) : f[i] \in Expected(id, i)
    BY <1>1 DEF Whole
  <2>2. QED
    BY <2>1, ExpectedFacts
<1>9. QED
  BY <1>2, <1>3, <1>4, <1>6, <1>7, <1>8 DEF Holds

\* A file without the footer at its end is refused.
LEMMA PartialRefused ==
    ASSUME ImagesOK, NEW id \in Ids, NEW f \in Seq(Sectors), Len(f) <= End(id),
           \A i \in 1 .. Len(f) : f[i] \in Expected(id, i) \cup {ZeroPart, TornPart},
           IsSparse(id) => Len(f) # 1
    PROVE  ~EndsInFooter(f)
<1>1. SUFFICES ASSUME EndsInFooter(f) PROVE FALSE
  OBVIOUS
<1>2. Len(f) \in 1 .. End(id) /\ f[Len(f)].is = "Footer"
  BY <1>1, Layout DEF EndsInFooter, Last
<1>3. f[Len(f)] \in Expected(id, Len(f))
  BY <1>2 DEF ZeroPart, TornPart, Part
<1>4. CASE IsSparse(id)
  <2>1. \A n \in 1 .. End(id) : n # 1 => n > 1
    BY Layout
  <2>2. Len(f) > 1
    BY <1>2, <1>4, <2>1, Zenon
  <2>3. QED
    BY <1>2, <1>3, <1>4, <2>2, ExpectedFacts
<1>5. CASE ~IsSparse(id)
  <2>1. Expected(id, Len(f)) = {ZeroPart, Part("Data", id)}
    BY <1>2, <1>5, ExpectedFacts
  <2>2. QED
    BY <1>2, <1>3, <2>1 DEF ZeroPart, Part
<1>6. QED
  BY <1>4, <1>5

\* A file that a create has yet to complete is refused, and holds no data.
LEMMA BuildingRefused ==
    ASSUME ImagesOK, NEW id \in Ids, NEW f \in Seq(Sectors), NEW todo, Building(f, id, todo)
    PROVE  ~EndsInFooter(f) /\ \A i \in DOMAIN f : f[i].is # "Data"
<1>1. Len(f) \in Nat /\ (f = << >> => Len(f) = 0) /\ \A n \in Nat : n >= 3 \/ n = 0 => n # 1
  OBVIOUS
<1>2. IsSparse(id) => Len(f) >= 3 \/ f = << >>
  BY DEF Building
<1>3. IsSparse(id) => Len(f) # 1
  BY <1>1, <1>2, Zenon
<1>4. QED
  BY <1>3, PartialRefused DEF Building

\* The sectors of a write of a create, torn or not, are right where they go: a torn one
\* in the BAT only.
LEMMA RightSectors ==
    ASSUME ImagesOK, NEW id \in Ids, NEW f, NEW w \in Writes, IsRight(id, w),
           NEW parts, Leaves(f, w, parts), parts = w.parts \/ w.parts[1].is = "Bat",
           NEW k \in 1 .. Len(parts)
    PROVE  /\ w.at + k \in 1 .. End(id) /\ parts[k].is # "Data"
           /\ parts[k] \in Expected(id, w.at + k)
<1>1. w.at \in Nat /\ w.parts \in Seq(Sectors) /\ parts \in Seq(Sectors)
      /\ Len(parts) <= Len(w.parts) /\ End(id) \in Nat
  BY Layout DEF Writes, Leaves
<1>2. k \in DOMAIN w.parts /\ k \in 1 .. Len(w.parts)
  BY <1>1
<1>3. w.at + k \in 1 .. End(id)
  <2>1. w.at + Len(w.parts) <= End(id)
    BY DEF IsRight
  <2>2. QED
    BY <1>1, <1>2, <2>1
<1>4. w.parts[k] \in Expected(id, w.at + k) /\ w.parts[k].is # "Data"
  BY <1>2 DEF IsRight
<1>5. CASE parts[k] = w.parts[k]
  BY <1>3, <1>4, <1>5
<1>6. CASE parts[k] # w.parts[k]
  <2>1. parts[k] = TornPart /\ w.parts[1].is = "Bat"
    BY <1>6 DEF Leaves
  <2>2. InBat(id, w.at + k)
    BY <1>2, <2>1 DEF IsRight
  <2>3. Expected(id, w.at + k) = {Part("Bat", id), ZeroPart, TornPart}
    BY <1>3, <2>2, ExpectedFacts
  <2>4. QED
    BY <1>3, <2>1, <2>3 DEF TornPart, Part
<1>7. QED
  BY <1>5, <1>6

\* A write that succeeds, or one of the BAT whose failure is ignored, leaves the rest of the
\* writes to do.
LEMMA WriteGoesOn ==
    ASSUME ImagesOK, NEW id \in Ids, NEW f \in Seq(Sectors), NEW todo \in Seq(Writes),
           Building(f, id, todo), Len(todo) > 1,
           NEW parts, Leaves(f, todo[1], parts),
           parts = todo[1].parts \/ todo[1].parts[1].is = "Bat"
    PROVE  Building(Put(f, todo[1].at, parts), id, Tail(todo))
<1>. DEFINE w == todo[1]
            g == Put(f, w.at, parts)
<1>1. /\ w \in Writes /\ w.at \in Nat /\ w.parts \in Seq(Sectors) /\ parts \in Seq(Sectors)
      /\ Len(parts) <= Len(w.parts) /\ End(id) \in Nat
  <2>1. w \in Writes
    OBVIOUS
  <2>2. w.at \in Nat /\ w.parts \in Seq(Sectors)
    BY <2>1 DEF Writes
  <2>3. parts \in Seq(Sectors) /\ Len(parts) <= Len(w.parts)
    BY DEF Leaves
  <2>4. QED
    BY <2>1, <2>2, <2>3, Layout
<1>2. IsRight(id, w)
  BY DEF Building
<1>3. \A k \in 1 .. Len(parts) : /\ w.at + k \in 1 .. End(id) /\ parts[k].is # "Data"
                                 /\ parts[k] \in Expected(id, w.at + k)
  BY <1>1, <1>2, RightSectors
<1>4. g \in Seq(Sectors) /\ IsPut(g, f, w.at, parts)
  BY <1>1, PutSectors
<1>5. Head(todo) = w /\ Tail(todo) \in Seq(Writes) /\ Len(Tail(todo)) = Len(todo) - 1
      /\ \A j \in 1 .. Len(todo) - 1 : Tail(todo)[j] = todo[j + 1]
  <2>1. todo # << >>
    OBVIOUS
  <2>2. QED
    BY <2>1, TailFacts
<1>. HIDE DEF w, g
<1>6. Len(f) <= End(id) /\ Len(f) <= Len(g) /\ Len(g) <= End(id)
  <2>1. Len(f) \in Nat /\ Len(f) <= End(id)
    BY DEF Building
  <2>2. CASE parts = << >>
    BY <1>4, <2>1, <2>2 DEF IsPut
  <2>3. CASE parts # << >>
    <3>1. Len(parts) \in 1 .. Len(parts) /\ Len(parts) \in Nat
      BY <1>1, <2>3
    <3>2. w.at + Len(parts) <= End(id)
      BY <1>3, <3>1
    <3>3. QED
      BY <1>1, <1>4, <2>1, <3>1, <3>2 DEF IsPut
  <2>4. QED
    BY <2>2, <2>3
<1>7. ASSUME NEW i \in 1 .. Len(g)
      PROVE  /\ g[i] \in Expected(id, i) \cup {ZeroPart} /\ g[i].is # "Data"
             /\ i <= Len(f) /\ f[i] \in Expected(id, i) => g[i] \in Expected(id, i)
             /\ i - w.at \in 1 .. Len(parts) => g[i] \in Expected(id, i)
  <2>1. CASE i - w.at \in 1 .. Len(parts)
    <3>1. w.at + (i - w.at) = i
      BY <1>1
    <3>2. parts[i - w.at] \in Expected(id, i) /\ parts[i - w.at].is # "Data"
      BY <1>3, <2>1, <3>1
    <3>3. QED
      BY <1>4, <2>1, <3>2 DEF IsPut
  <2>2. CASE i - w.at \notin 1 .. Len(parts) /\ i <= Len(f)
    <3>1. g[i] = f[i] /\ i \in 1 .. Len(f)
      BY <1>4, <2>2 DEF IsPut
    <3>2. QED
      BY <2>2, <3>1 DEF Building
  <2>3. CASE i - w.at \notin 1 .. Len(parts) /\ ~(i <= Len(f))
    BY <1>4, <2>3 DEF ZeroPart, Part, IsPut
  <2>4. QED
    BY <2>1, <2>2, <2>3
<1>8. IsSparse(id) => Len(g) >= 3
  <2>1. CASE Len(f) >= 3
    BY <1>4, <1>6, <2>1 DEF IsPut
  <2>2. CASE IsSparse(id) /\ f = << >> /\ w = HeaderWrite(id)
    <3>1. w.at = 1 /\ w.parts = << Part("Header", id), Part("HeaderEnd", id) >>
      BY <2>2 DEF HeaderWrite, At
    <3>2. parts = w.parts
      BY <3>1 DEF Part, w
    <3>3. Len(parts) = 2 /\ parts # << >> /\ Len(f) = 0
      BY <2>2, <3>1, <3>2
    <3>4. QED
      BY <1>4, <3>1, <3>3 DEF IsPut
  <2>3. QED
    BY <2>1, <2>2 DEF Building, w
<1>9. Len(Tail(todo)) > 0 /\ Tail(todo)[Len(Tail(todo))] = FooterWrite(id)
  <2>1. Len(todo) \in Nat /\ Len(todo) - 1 \in 1 .. Len(todo) - 1
    OBVIOUS
  <2>2. Tail(todo)[Len(todo) - 1] = todo[Len(todo) - 1 + 1]
    BY <1>5, <2>1
  <2>3. todo[Len(todo)] = FooterWrite(id) /\ Len(todo) - 1 + 1 = Len(todo)
    BY <2>1 DEF Building
  <2>4. QED
    BY <1>5, <2>1, <2>2, <2>3
<1>10. \A j \in 1 .. Len(Tail(todo)) - 1 : IsRight(id, Tail(todo)[j])
  <2>1. ASSUME NEW j \in 1 .. Len(Tail(todo)) - 1
        PROVE  j \in 1 .. Len(todo) - 1 /\ j + 1 \in 1 .. Len(todo) - 1
    BY <1>5
  <2>2. QED
    BY <1>5, <2>1 DEF Building
<1>11. ASSUME NEW i \in 1 .. End(id)
       PROVE  \/ InBat(id, i)
              \/ i <= Len(g) /\ g[i] \in Expected(id, i)
              \/ \E j \in 1 .. Len(Tail(todo)) : Covers(Tail(todo)[j], i)
  <2>1. CASE InBat(id, i)
    BY <2>1
  <2>2. CASE i <= Len(f) /\ f[i] \in Expected(id, i)
    <3>1. i \in 1 .. Len(g) /\ i <= Len(g)
      BY <1>4, <1>6, <2>2 DEF IsPut
    <3>2. QED
      BY <1>7, <2>2, <3>1
  <2>3. ASSUME NEW j \in 1 .. Len(todo), Covers(todo[j], i)
        PROVE  \/ InBat(id, i)
               \/ i <= Len(g) /\ g[i] \in Expected(id, i)
               \/ \E m \in 1 .. Len(Tail(todo)) : Covers(Tail(todo)[m], i)
    <3>1. CASE j = 1
      <4>1. i - w.at \in 1 .. Len(w.parts)
        BY <1>1, <2>3, <3>1 DEF Covers, w
      <4>2. CASE parts = w.parts
        <5>1. Len(parts) > 0 /\ parts # << >>
          BY <1>1, <4>1, <4>2
        <5>2. i <= w.at + Len(parts)
          BY <1>1, <4>1, <4>2
        <5>3. w.at + Len(parts) <= Len(g)
          BY <1>1, <1>4, <5>1 DEF IsPut
        <5>4. i <= Len(g) /\ i \in 1 .. Len(g)
          BY <1>1, <1>4, <5>2, <5>3 DEF IsPut
        <5>5. QED
          BY <1>7, <4>1, <4>2, <5>4
      <4>3. CASE w.parts[1].is = "Bat"
        <5>1. \A k \in 1 .. Len(w.parts) : InBat(id, w.at + k)
          BY <1>1, <1>2, <4>3 DEF IsRight
        <5>2. w.at + (i - w.at) = i
          BY <1>1
        <5>3. QED
          BY <4>1, <5>1, <5>2, Zenon
      <4>4. QED
        BY <4>2, <4>3 DEF w
    <3>2. CASE j # 1
      <4>1. j - 1 \in 1 .. Len(todo) - 1 /\ j - 1 + 1 = j
        BY <3>2
      <4>2. j - 1 \in 1 .. Len(Tail(todo)) /\ Tail(todo)[j - 1] = todo[j]
        BY <1>5, <4>1
      <4>3. QED
        BY <2>3, <4>2
    <3>3. QED
      BY <3>1, <3>2
  <2>4. QED
    BY <2>1, <2>2, <2>3 DEF Building
<1>12. \A i \in 1 .. Len(g) : g[i] \in Expected(id, i) \cup {ZeroPart} /\ g[i].is # "Data"
  BY <1>7
<1>13. Building(g, id, Tail(todo))
  BY <1>6, <1>8, <1>9, <1>10, <1>11, <1>12 DEF Building
<1>14. QED
  BY <1>13 DEF g, w

\* The footer at the end completes a create.
LEMMA LastWrite ==
    ASSUME ImagesOK, NEW id \in Ids, NEW f \in Seq(Sectors), NEW todo \in Seq(Writes),
           Building(f, id, todo), Len(todo) = 1
    PROVE  Whole(Put(f, todo[1].at, todo[1].parts), id)
<1>. DEFINE e == End(id)
            parts == << Part("Footer", id) >>
            g == Put(f, e, parts)
<1>1. todo[1].at = e /\ todo[1].parts = parts
  BY DEF Building, FooterWrite, At
<1>2. e \in Nat /\ parts \in Seq(Sectors) /\ Len(parts) = 1 /\ parts # << >>
      /\ parts[1] = Part("Footer", id)
  BY Layout, PartTypes DEF Parts
<1>3. g \in Seq(Sectors) /\ IsPut(g, f, e, parts)
  BY <1>2, PutSectors
<1>4. Len(f) \in Nat /\ Len(f) <= e
  BY DEF Building
<1>5. ASSUME NEW i \in 1 .. e
      PROVE  ~Covers(todo[1], i)
  BY <1>1, <1>2 DEF Covers
<1>. HIDE DEF parts, g
<1>6. Len(g) = e + 1
  BY <1>2, <1>3, <1>4 DEF IsPut
<1>7. ASSUME NEW i \in 1 .. e PROVE g[i] \in Expected(id, i)
  <2>1. i \in 1 .. Len(g) /\ i - e \notin 1 .. Len(parts)
    BY <1>2, <1>6
  <2>2. CASE i <= Len(f)
    <3>1. g[i] = f[i] /\ i \in 1 .. Len(f)
      BY <1>3, <1>4, <2>1, <2>2 DEF IsPut
    <3>2. CASE InBat(id, i)
      <4>1. ZeroPart \in Expected(id, i)
        BY <3>2, ExpectedFacts
      <4>2. f[i] \in Expected(id, i) \cup {ZeroPart}
        BY <3>1 DEF Building
      <4>3. QED
        BY <3>1, <4>1, <4>2
    <3>3. CASE f[i] \in Expected(id, i)
      BY <3>1, <3>3
    <3>4. QED
      BY <1>5, <3>2, <3>3 DEF Building
  <2>3. CASE ~(i <= Len(f))
    <3>1. g[i] = ZeroPart
      BY <1>3, <2>1, <2>3 DEF IsPut
    <3>2. InBat(id, i)
      BY <1>5, <2>3 DEF Building
    <3>3. QED
      BY <3>1, <3>2, ExpectedFacts
  <2>4. QED
    BY <2>2, <2>3
<1>8. g[e + 1] \in Expected(id, e + 1)
  <2>1. e + 1 - e = 1 /\ 1 \in 1 .. Len(parts) /\ e + 1 \in 1 .. Len(g)
    BY <1>2, <1>6
  <2>2. g[e + 1] = parts[1]
    BY <1>2, <2>1, PutThere DEF g
  <2>3. QED
    BY <1>2, <2>2, ExpectedFacts
<1>9. \A i \in 1 .. e + 1 : i = e + 1 \/ i \in 1 .. e
  BY <1>2
<1>10. Whole(g, id)
  BY <1>6, <1>7, <1>8, <1>9 DEF Whole
<1>11. QED
  BY <1>1, <1>10 DEF g

\* A write of a create that failed leaves a file that open refuses.
LEMMA CutRefused ==
    ASSUME ImagesOK, NEW id \in Ids, NEW f \in Seq(Sectors), NEW todo \in Seq(Writes),
           Building(f, id, todo),
           NEW parts, Leaves(f, todo[1], parts), IsCut(f, todo[1], parts)
    PROVE  ~EndsInFooter(Put(f, todo[1].at, parts))
<1>. DEFINE w == todo[1]
            g == Put(f, w.at, parts)
<1>1. /\ w \in Writes /\ w.at \in Nat /\ w.parts \in Seq(Sectors) /\ parts \in Seq(Sectors)
      /\ Len(parts) <= Len(w.parts) /\ End(id) \in Nat
  <2>1. w \in Writes
    BY DEF Building
  <2>2. w.at \in Nat /\ w.parts \in Seq(Sectors)
    BY <2>1 DEF Writes
  <2>3. parts \in Seq(Sectors) /\ Len(parts) <= Len(w.parts)
    BY DEF Leaves
  <2>4. QED
    BY <2>1, <2>2, <2>3, Layout
<1>. HIDE DEF w
<1>2. g \in Seq(Sectors) /\ IsPut(g, f, w.at, parts)
  BY <1>1, PutSectors
<1>3. CASE parts = << >>
  <2>1. \A k \in 1 .. Len(parts) : w.at + k <= Len(f) /\ f[w.at + k] = parts[k]
    BY <1>3
  <2>2. g = f
    BY <1>1, <2>1, PutSame
  <2>3. QED
    BY <2>2, BuildingRefused DEF w
<1>4. CASE parts # << >> /\ Len(todo) = 1
  <2>1. w.at = End(id) /\ w.parts = << Part("Footer", id) >>
    BY <1>4 DEF Building, FooterWrite, At, w
  <2>2. Len(w.parts) = 1 /\ Len(parts) = 1
    BY <1>1, <1>4, <2>1
  <2>3. Len(f) \in Nat /\ Len(f) <= End(id)
    BY DEF Building
  <2>4. parts[1] = TornPart
    BY <1>1, <2>1, <2>2, <2>3 DEF IsCut, w
  <2>. HIDE DEF g
  <2>5. Len(g) = End(id) + 1
    BY <1>1, <1>2, <1>4, <2>1, <2>2, <2>3 DEF IsPut
  <2>6. End(id) + 1 - w.at = 1 /\ 1 \in 1 .. Len(parts) /\ End(id) + 1 \in 1 .. Len(g)
    BY <1>1, <2>1, <2>2, <2>5
  <2>7. g[End(id) + 1] = TornPart
    <3>1. g[w.at + 1] = parts[1]
      BY <1>1, <2>6, PutThere DEF g
    <3>2. QED
      BY <2>1, <2>4, <3>1
  <2>8. ~EndsInFooter(g)
    BY <2>5, <2>7 DEF EndsInFooter, Last, TornPart, Part
  <2>9. QED
    BY <2>8 DEF g, w
<1>5. CASE parts # << >> /\ Len(todo) # 1
  <2>1. IsRight(id, w)
    <3>1. Len(todo) \in Nat /\ Len(todo) > 0 /\ \A n \in Nat : n > 0 /\ n # 1 => 1 \in 1 .. n - 1
      BY DEF Building
    <3>2. 1 \in 1 .. Len(todo) - 1
      BY <1>5, <3>1, Zenon
    <3>3. QED
      BY <3>2 DEF Building, w
  <2>2. \A k \in 1 .. Len(parts) : /\ w.at + k \in 1 .. End(id)
                                   /\ parts[k] \in Expected(id, w.at + k) \cup {TornPart}
    <3>1. SUFFICES ASSUME NEW k \in 1 .. Len(parts)
                   PROVE  /\ w.at + k \in 1 .. End(id)
                          /\ parts[k] \in Expected(id, w.at + k) \cup {TornPart}
      OBVIOUS
    <3>2. k \in DOMAIN w.parts /\ w.at + k \in 1 .. w.at + Len(w.parts)
      BY <1>1
    <3>3. w.at + Len(w.parts) <= End(id) /\ w.parts[k] \in Expected(id, w.at + k)
      BY <2>1, <3>2 DEF IsRight
    <3>4. parts[k] = w.parts[k] \/ parts[k] = TornPart
      BY DEF Leaves, w
    <3>5. QED
      BY <1>1, <3>2, <3>3, <3>4
  <2>. HIDE DEF g
  <2>3. Len(parts) \in 1 .. Len(parts) /\ Len(f) \in Nat /\ Len(f) <= End(id)
    BY <1>1, <1>5 DEF Building
  <2>4. Len(g) <= End(id) /\ Len(g) >= Len(f) /\ Len(g) >= w.at + Len(parts)
    BY <1>1, <1>2, <1>5, <2>2, <2>3 DEF IsPut
  <2>5. \A i \in 1 .. Len(g) : g[i] \in Expected(id, i) \cup {ZeroPart, TornPart}
    <3>1. SUFFICES ASSUME NEW i \in 1 .. Len(g)
                   PROVE  g[i] \in Expected(id, i) \cup {ZeroPart, TornPart}
      OBVIOUS
    <3>2. CASE i - w.at \in 1 .. Len(parts)
      <4>1. w.at + (i - w.at) = i
        BY <1>1
      <4>2. parts[i - w.at] \in Expected(id, i) \cup {TornPart}
        BY <2>2, <3>2, <4>1
      <4>3. QED
        BY <1>2, <3>2, <4>2 DEF IsPut
    <3>3. CASE i - w.at \notin 1 .. Len(parts) /\ i <= Len(f)
      <4>1. g[i] = f[i] /\ i \in 1 .. Len(f)
        BY <1>2, <3>3 DEF IsPut
      <4>2. QED
        BY <4>1 DEF Building
    <3>4. CASE i - w.at \notin 1 .. Len(parts) /\ ~(i <= Len(f))
      BY <1>2, <3>4 DEF IsPut
    <3>5. QED
      BY <3>2, <3>3, <3>4
  <2>6. ASSUME IsSparse(id) PROVE Len(g) >= 2
    <3>1. CASE Len(f) >= 3
      BY <1>2, <2>3, <2>4, <3>1
    <3>2. CASE w = HeaderWrite(id)
      <4>1. w.at = 1
        BY <3>2 DEF HeaderWrite, At
      <4>2. QED
        BY <1>2, <2>3, <2>4, <4>1
    <3>3. QED
      BY <2>6, <3>1, <3>2 DEF Building, w
  <2>7. IsSparse(id) => Len(g) # 1
    <3>1. Len(g) \in Nat /\ \A n \in Nat : n >= 2 => n # 1
      BY <1>2
    <3>2. QED
      BY <2>6, <3>1, Zenon
  <2>8. ~EndsInFooter(g)
    BY <1>2, <2>4, <2>5, <2>7, PartialRefused
  <2>9. QED
    BY <2>8 DEF g, w
<1>6. QED
  BY <1>3, <1>4, <1>5

\* Footers that a flush or a Drop writes again, torn or not, leave a whole file as it is.
LEMMA FootersKeep ==
    ASSUME ImagesOK, NEW id \in Ids, NEW f \in Seq(Sectors), NEW todo \in Seq(Writes),
           todo # << >>, Whole(f, id), IsFooters(id, todo), NEW parts, Leaves(f, todo[1], parts)
    PROVE  Put(f, todo[1].at, parts) = f
<1>. DEFINE w == todo[1]
<1>1. End(id) \in Nat /\ parts \in Seq(Sectors) /\ Len(parts) <= Len(w.parts)
      /\ (IsSparse(id) => End(id) >= 3)
  BY Layout, ExpectedFacts DEF Leaves
<1>2. 1 \in 1 .. Len(todo)
  OBVIOUS
<1>3. \/ w = FooterWrite(id)
      \/ IsSparse(id) /\ w = At(0, << Part("Footer", id) >>)
  BY <1>2 DEF IsFooters
<1>4. /\ w.at \in Nat /\ w.parts = << Part("Footer", id) >>
      /\ w.at = End(id) \/ (w.at = 0 /\ IsSparse(id))
  BY <1>1, <1>3 DEF FooterWrite, At
<1>. HIDE DEF w
<1>5. w.at + 1 <= Len(f) /\ f[w.at + 1] = Part("Footer", id)
  <2>1. Len(f) = End(id) + 1
    BY DEF Whole
  <2>2. w.at + 1 \in 1 .. End(id) + 1
    BY <1>1, <1>4
  <2>3. f[w.at + 1] \in Expected(id, w.at + 1)
    BY <2>2 DEF Whole
  <2>4. Expected(id, w.at + 1) = {Part("Footer", id)}
    BY <1>4, ExpectedFacts
  <2>5. QED
    BY <1>1, <1>4, <2>1, <2>3, <2>4
<1>6. \A k \in 1 .. Len(parts) : w.at + k <= Len(f) /\ f[w.at + k] = parts[k]
  <2>1. Len(w.parts) = 1 /\ w.parts[1] = Part("Footer", id)
    BY <1>4
  <2>2. \A k \in 1 .. Len(parts) : k = 1
    BY <1>1, <2>1
  <2>3. QED
    BY <1>5, <2>1, <2>2 DEF Leaves, w
<1>7. QED
  BY <1>1, <1>4, <1>6, PutSame DEF w

\* Data written below the end of a fixed image leave the file whole, and the data of it.
LEMMA DataKeeps ==
    ASSUME ImagesOK, NEW id \in Ids, NEW f \in Seq(Sectors), Whole(f, id), ~IsSparse(id),
           NEW sector \in Nat, sector < End(id)
    PROVE  /\ Whole(Put(f, sector, << Part("Data", id) >>), id)
           /\ \A i \in DOMAIN f : f[i].is = "Data" =>
                 Put(f, sector, << Part("Data", id) >>)[i] = f[i]
<1>. DEFINE parts == << Part("Data", id) >>
            g == Put(f, sector, parts)
<1>1. End(id) \in Nat /\ parts \in Seq(Sectors) /\ Len(parts) = 1 /\ parts[1] = Part("Data", id)
  BY Layout, PartTypes DEF Parts
<1>2. g \in Seq(Sectors) /\ IsPut(g, f, sector, parts)
  BY <1>1, PutSectors
<1>3. Len(f) = End(id) + 1
  BY DEF Whole
<1>. HIDE DEF g, parts
<1>4. Len(g) = Len(f)
  BY <1>1, <1>2, <1>3 DEF IsPut
<1>5. \A i \in 1 .. Len(f) : g[i] = f[i] \/ (i = sector + 1 /\ g[i] = Part("Data", id))
  <2>1. SUFFICES ASSUME NEW i \in 1 .. Len(f)
                 PROVE  g[i] = f[i] \/ (i = sector + 1 /\ g[i] = Part("Data", id))
    OBVIOUS
  <2>2. CASE i - sector \in 1 .. Len(parts)
    <3>1. i - sector = 1 /\ i = sector + 1
      BY <1>1, <1>3, <2>2
    <3>2. g[i] = parts[i - sector]
      BY <1>2, <1>4, <2>2 DEF IsPut
    <3>3. QED
      BY <1>1, <3>1, <3>2
  <2>3. CASE i - sector \notin 1 .. Len(parts)
    BY <1>2, <1>4, <2>3 DEF IsPut
  <2>4. QED
    BY <2>2, <2>3
<1>6. sector + 1 \in 1 .. End(id) /\ Part("Data", id) \in Expected(id, sector + 1)
  <2>1. sector + 1 \in 1 .. End(id)
    BY <1>1
  <2>2. QED
    BY <2>1, ExpectedFacts
<1>7. Whole(g, id)
  <2>1. \A i \in 1 .. End(id) + 1 : f[i] \in Expected(id, i)
    BY DEF Whole
  <2>2. \A i \in 1 .. End(id) + 1 : g[i] \in Expected(id, i)
    BY <1>3, <1>5, <1>6, <2>1
  <2>3. QED
    BY <1>3, <1>4, <2>2 DEF Whole
<1>8. ASSUME NEW i \in DOMAIN f, f[i].is = "Data" PROVE g[i] = f[i]
  <2>1. i \in 1 .. End(id) + 1 /\ i \in 1 .. Len(f)
    BY <1>3
  <2>2. CASE g[i] # f[i]
    <3>1. i = sector + 1 /\ g[i] = Part("Data", id)
      BY <1>5, <2>1, <2>2
    <3>2. f[i] \in {ZeroPart, Part("Data", id)}
      <4>1. i \in 1 .. End(id)
        BY <1>6, <3>1
      <4>2. Expected(id, i) = {ZeroPart, Part("Data", id)}
        BY <4>1, ExpectedFacts
      <4>3. QED
        BY <2>1, <4>2 DEF Whole
    <3>3. QED
      BY <1>8, <3>1, <3>2 DEF ZeroPart, Part
  <2>3. QED
    BY <2>2
<1>9. QED
  BY <1>7, <1>8 DEF g, parts

-----------------------------------------------------------------------------
(* What a create has to write *)

\* The writes of a sequence, each of which is right for an image, or covers a sector.
Right(id, s)   == s \in Seq(Writes) /\ \A j \in 1 .. Len(s) : IsRight(id, s[j]) /\ s[j].parts # << >>
Covered(s, i)  == \E j \in 1 .. Len(s) : Covers(s[j], i)

\* The writes of s and then those of t are the writes of u.
Joins(s, t, u) ==
    /\ u \in Seq(Writes) /\ Len(u) = Len(s) + Len(t)
    /\ \A j \in 1 .. Len(s) : j \in 1 .. Len(u) /\ u[j] = s[j]
    /\ \A j \in 1 .. Len(t) : Len(s) + j \in 1 .. Len(u) /\ u[Len(s) + j] = t[j]
    /\ \A j \in 1 .. Len(u) : j \in 1 .. Len(s) \/ \E k \in 1 .. Len(t) : j = Len(s) + k

\* The writes of two sequences, one after the other.
LEMMA JoinedFacts ==
    ASSUME NEW s \in Seq(Writes), NEW t \in Seq(Writes)
    PROVE  Joins(s, t, s \o t)
<1>. DEFINE u == s \o t
<1>1. /\ u \in Seq(Writes) /\ Len(u) = Len(s) + Len(t) /\ Len(s) \in Nat /\ Len(t) \in Nat
      /\ \A j \in 1 .. Len(s) : u[j] = s[j]
      /\ \A j \in 1 .. Len(t) : u[Len(s) + j] = t[j]
  <2>1. s \o t \in Seq(Writes) /\ Len(s) \in Nat /\ Len(t) \in Nat
    OBVIOUS
  <2>2. Len(s \o t) = Len(s) + Len(t)
    OBVIOUS
  <2>3. \A j \in 1 .. Len(s) : (s \o t)[j] = s[j]
    OBVIOUS
  <2>4. \A j \in 1 .. Len(t) : (s \o t)[Len(s) + j] = t[j]
    OBVIOUS
  <2>5. QED
    BY <2>1, <2>2, <2>3, <2>4
<1>. HIDE DEF u
<1>2. \A j \in 1 .. Len(u) : j \in 1 .. Len(s) \/ \E k \in 1 .. Len(t) : j = Len(s) + k
  <2>1. SUFFICES ASSUME NEW j \in 1 .. Len(u), j \notin 1 .. Len(s)
                 PROVE  \E k \in 1 .. Len(t) : j = Len(s) + k
    OBVIOUS
  <2>2. j - Len(s) \in 1 .. Len(t) /\ j = Len(s) + (j - Len(s))
    BY <1>1, <2>1
  <2>3. QED
    BY <2>2
<1>3. \A j \in 1 .. Len(s) : j \in 1 .. Len(u)
  BY <1>1
<1>4. \A j \in 1 .. Len(t) : Len(s) + j \in 1 .. Len(u)
  BY <1>1
<1>5. Joins(s, t, u)
  BY <1>1, <1>2, <1>3, <1>4, Zenon DEF Joins
<1>6. QED
  BY <1>5 DEF u

\* Both are right where they go.
LEMMA JoinedRight ==
    ASSUME NEW id, NEW s, NEW t, Right(id, s), Right(id, t)
    PROVE  Right(id, s \o t)
<1>1. s \in Seq(Writes) /\ t \in Seq(Writes)
  BY DEF Right
<1>. DEFINE u == s \o t
<1>2. /\ u \in Seq(Writes)
      /\ \A j \in 1 .. Len(s) : u[j] = s[j]
      /\ \A j \in 1 .. Len(t) : u[Len(s) + j] = t[j]
      /\ \A j \in 1 .. Len(u) : j \in 1 .. Len(s) \/ \E k \in 1 .. Len(t) : j = Len(s) + k
  <2>1. Joins(s, t, s \o t)
    BY <1>1, JoinedFacts
  <2>2. QED
    BY <2>1 DEF Joins
<1>. HIDE DEF u
<1>3. Right(id, u)
  BY <1>2 DEF Right
<1>4. QED
  BY <1>3 DEF u

\* They cover what each of them covers.
LEMMA JoinedCovered ==
    ASSUME NEW s \in Seq(Writes), NEW t \in Seq(Writes), NEW i, Covered(s, i) \/ Covered(t, i)
    PROVE  Covered(s \o t, i)
<1>. DEFINE u == s \o t
<1>1. /\ \A j \in 1 .. Len(s) : j \in 1 .. Len(u) /\ u[j] = s[j]
      /\ \A j \in 1 .. Len(t) : Len(s) + j \in 1 .. Len(u) /\ u[Len(s) + j] = t[j]
  <2>1. Joins(s, t, s \o t)
    BY JoinedFacts
  <2>2. QED
    BY <2>1 DEF Joins
<1>. HIDE DEF u
<1>2. Covered(u, i)
  BY <1>1, Zenon DEF Covered
<1>3. QED
  BY <1>2 DEF u

\* n times the same sector.
LEMMA RepeatFacts ==
    ASSUME NEW n \in Nat, NEW part \in Sectors
    PROVE  /\ Repeat(n, part) \in Seq(Sectors) /\ Len(Repeat(n, part)) = n
           /\ \A k \in 1 .. n : Repeat(n, part)[k] = part
BY DEF Repeat

\* A write of one part.
LEMMA WriteOfOne ==
    ASSUME ImagesOK, NEW id \in Ids, NEW at \in Nat, at < End(id), NEW is \in Parts \ {"Zero", "Torn"},
           is \notin {"Data", "Bat"}, Part(is, id) \in Expected(id, at + 1)
    PROVE  Right(id, << At(at, << Part(is, id) >>) >>)
<1>. DEFINE parts == << Part(is, id) >>
            w == At(at, parts)
<1>1. parts \in Seq(Sectors) /\ Len(parts) = 1 /\ parts[1] = Part(is, id) /\ parts # << >>
  BY PartTypes
<1>2. parts[1].is = is
  BY <1>1 DEF Part
<1>. HIDE DEF parts
<1>3. w.at = at /\ w.parts = parts /\ w \in Writes
  BY <1>1 DEF At, Writes
<1>. HIDE DEF w
<1>4. at + 1 <= End(id)
  BY Layout
<1>5. DOMAIN parts = {1}
  BY <1>1
<1>6. IsRight(id, w)
  BY <1>1, <1>2, <1>3, <1>4, <1>5 DEF IsRight
<1>7. << w >> \in Seq(Writes) /\ Len(<< w >>) = 1 /\ \A j \in 1 .. 1 : << w >>[j] = w
  BY <1>3
<1>8. w.parts # << >>
  BY <1>1, <1>3
<1>9. Right(id, << w >>)
  BY <1>6, <1>7, <1>8 DEF Right
<1>10. QED
  BY <1>9 DEF w, parts

\* A write of one sector covers it.
LEMMA OneCovers ==
    ASSUME NEW at \in Nat, NEW part
    PROVE  Covered(<< At(at, << part >>) >>, at + 1)
<1>. DEFINE w == At(at, << part >>)
<1>1. at + 1 - at = 1 /\ DOMAIN w.parts = {1} /\ w.at = at
  BY DEF At
<1>2. Covers(w, at + 1)
  BY <1>1 DEF Covers
<1>3. Len(<< w >>) = 1 /\ << w >>[1] = w
  OBVIOUS
<1>. HIDE DEF w
<1>4. Covered(<< w >>, at + 1)
  BY <1>2, <1>3 DEF Covered
<1>5. QED
  BY <1>4 DEF w

\* A fixed image is zeroed, a block at a time, all of it.
LEMMA FixedBody ==
    ASSUME ImagesOK, NEW id \in Ids, ~IsSparse(id)
    PROVE  Right(id, BodyWrites(id)) /\ \A i \in 1 .. End(id) : Covered(BodyWrites(id), i)
<1>. DEFINE n == images[id].blocks
            S == SectorsPerBlock
            zeroes == Repeat(S, ZeroPart)
            w(b) == At((b - 1) * S, zeroes)
            body == [b \in 1 .. n |-> w(b)]
<1>1. n \in Nat /\ S \in Nat \ {0} /\ End(id) = n * S
  BY Layout, ImageFilesAssumption DEF Images
<1>2. BodyWrites(id) = body
  BY DEF BodyWrites
<1>3. zeroes \in Seq(Sectors) /\ Len(zeroes) = S /\ \A k \in 1 .. S : zeroes[k] = ZeroPart
  BY <1>1, RepeatFacts, PartTypes
<1>. HIDE DEF n, S, zeroes
<1>4. \A b \in 1 .. n : (b - 1) * S \in Nat /\ (b - 1) * S + S <= n * S
  <2>1. SUFFICES ASSUME NEW b \in 1 .. n PROVE (b - 1) * S \in Nat /\ (b - 1) * S + S <= n * S
    OBVIOUS
  <2>2. (b - 1) * S \in Nat /\ (b - 1) * S + S = b * S
    BY <1>1, Z3
  <2>3. b * S <= n * S
    BY <1>1, Z3
  <2>4. QED
    BY <2>2, <2>3
<1>5. \A b \in 1 .. n : w(b) \in Writes /\ w(b).at = (b - 1) * S /\ w(b).parts = zeroes
  BY <1>3, <1>4 DEF Writes, At
<1>6. body \in Seq(Writes) /\ Len(body) = n /\ \A b \in 1 .. n : body[b] = w(b)
  BY <1>1, <1>5
<1>. HIDE DEF w
<1>7. ASSUME NEW b \in 1 .. n PROVE IsRight(id, w(b)) /\ w(b).parts # << >>
  <2>1. zeroes # << >> /\ zeroes[1] = ZeroPart
    BY <1>1, <1>3
  <2>2. w(b).at + Len(w(b).parts) <= End(id)
    BY <1>1, <1>3, <1>4, <1>5
  <2>3. ASSUME NEW k \in DOMAIN zeroes PROVE ZeroPart \in Expected(id, (b - 1) * S + k)
    <3>1. k \in 1 .. S
      BY <1>3
    <3>2. (b - 1) * S + k \in 1 .. End(id)
      BY <1>1, <1>4, <3>1
    <3>3. QED
      BY <3>2, ExpectedFacts
  <2>4. ZeroPart.is = "Zero"
    BY DEF ZeroPart, Part
  <2>5. \A k \in DOMAIN zeroes : zeroes[k] = ZeroPart
    BY <1>3
  <2>6. QED
    BY <1>5, <2>1, <2>2, <2>3, <2>4, <2>5 DEF IsRight
<1>8. Right(id, body)
  BY <1>6, <1>7 DEF Right
<1>9. ASSUME NEW i \in 1 .. End(id) PROVE Covered(body, i)
  <2>1. PICK q \in Nat : q + 1 \in 1 .. n /\ q + 1 - 1 = q /\ i - q * S \in 1 .. S
    <3>1. i - 1 \in Nat /\ i - 1 < n * S
      BY <1>1
    <3>. DEFINE q == (i - 1) \div S
    <3>2. q \in Nat /\ q * S <= i - 1 /\ i - 1 < q * S + S
      BY <1>1, <3>1, Z3
    <3>. HIDE DEF q
    <3>3. q < n
      <4>1. SUFFICES ASSUME q >= n PROVE FALSE
        BY <1>1, <3>2
      <4>2. q * S >= n * S
        BY <1>1, <3>2, <4>1, Z3
      <4>3. QED
        BY <1>1, <3>1, <3>2, <4>2, Z3
    <3>4. q * S \in Nat
      BY <1>1, <3>2, Z3
    <3>5. q + 1 - 1 = q /\ q + 1 \in 1 .. n
      BY <1>1, <3>2, <3>3
    <3>6. i - q * S \in 1 .. S
      BY <1>1, <3>1, <3>2, <3>4
    <3>7. QED
      BY <3>2, <3>5, <3>6
  <2>. DEFINE b == q + 1
  <2>2. b \in 1 .. n /\ w(b).at = q * S /\ w(b).parts = zeroes
    <3>1. b \in 1 .. n
      BY <2>1
    <3>2. w(b).at = (b - 1) * S /\ w(b).parts = zeroes
      BY <1>5, <3>1
    <3>3. b - 1 = q
      BY <2>1
    <3>4. QED
      BY <3>1, <3>2, <3>3
  <2>. HIDE DEF b
  <2>3. i - w(b).at \in DOMAIN w(b).parts
    BY <1>3, <2>1, <2>2
  <2>4. Covers(body[b], i)
    BY <1>6, <2>3, <2>2 DEF Covers
  <2>5. QED
    BY <1>6, <2>4, <2>2 DEF Covered
<1>10. QED
  BY <1>2, <1>8, <1>9

\* A sparse image gets its header, its BAT and its locators; the first sector waits for the
\* copy of the footer.
LEMMA SparseBody ==
    ASSUME ImagesOK, NEW id \in Ids, IsSparse(id)
    PROVE  /\ Right(id, BodyWrites(id)) /\ Len(BodyWrites(id)) > 0
           /\ BodyWrites(id)[1] = HeaderWrite(id)
           /\ \A i \in 2 .. End(id) : InBat(id, i) \/ Covered(BodyWrites(id), i)
<1>. DEFINE n == BatSectors(id)
            m == Locators(id)
            e == End(id)
            head == << HeaderWrite(id) >>
            repeat == Repeat(n, Part("Bat", id))
            bat == IF n = 0 THEN << >> ELSE << At(BatAt, repeat) >>
            l(i) == At(BatAt + n + i - 1, << Part("Locator", id) >>)
            locs == [i \in 1 .. m |-> l(i)]
<1>1. n \in Nat /\ m \in 0 .. 2 /\ e = 3 + n + m
  BY Layout
<1>2. BodyWrites(id) = head \o bat \o locs
  BY DEF BodyWrites, HeaderWrite
<1>3. Right(id, head) /\ head \in Seq(Writes) /\ Len(head) = 1 /\ head[1] = HeaderWrite(id)
      /\ Covered(head, 2) /\ Covered(head, 3)
  <2>. DEFINE parts == << Part("Header", id), Part("HeaderEnd", id) >>
              w == HeaderWrite(id)
  <2>1. parts \in Seq(Sectors) /\ Len(parts) = 2 /\ parts[1] = Part("Header", id)
        /\ parts[2] = Part("HeaderEnd", id) /\ DOMAIN parts = 1 .. 2 /\ parts # << >>
    BY PartTypes DEF Parts
  <2>2. w.at = 1 /\ w.parts = parts /\ w \in Writes
    BY <2>1 DEF HeaderWrite, At, Writes
  <2>. HIDE DEF parts, w
  <2>3. \A k \in DOMAIN parts : parts[k] \in Expected(id, 1 + k) /\ parts[k].is \notin {"Data", "Bat"}
    BY <2>1, ExpectedFacts DEF Part
  <2>4. IsRight(id, w)
    <3>1. w.at + Len(w.parts) <= End(id)
      <4>. HIDE DEF e, n, m
      <4>1. e >= 3
        BY <1>1
      <4>2. 1 + Len(parts) <= e
        BY <2>1, <4>1
      <4>3. QED
        BY <2>2, <4>2 DEF e
    <3>2. 1 \in DOMAIN parts
      BY <2>1
    <3>3. QED
      BY <2>2, <2>3, <3>1, <3>2 DEF IsRight
  <2>5. w.parts # << >>
    BY <2>1, <2>2
  <2>6. head \in Seq(Writes) /\ Len(head) = 1 /\ head[1] = w
    BY <2>2 DEF w
  <2>7. Right(id, head)
    <3>1. \A j \in 1 .. Len(head) : head[j] = w
      BY <2>6
    <3>. HIDE DEF head
    <3>2. QED
      BY <2>4, <2>5, <2>6, <3>1 DEF Right
  <2>8. Covers(w, 2) /\ Covers(w, 3)
    BY <2>1, <2>2 DEF Covers
  <2>. HIDE DEF head
  <2>9. Covered(head, 2) /\ Covered(head, 3)
    BY <2>6, <2>8 DEF Covered
  <2>10. QED
    BY <2>6, <2>7, <2>9 DEF w
<1>4. Right(id, bat) /\ bat \in Seq(Writes)
  <2>1. CASE n = 0
    BY <2>1 DEF Right
  <2>2. CASE n # 0
    <3>. DEFINE w == At(BatAt, repeat)
    <3>1. repeat \in Seq(Sectors) /\ Len(repeat) = n /\ \A k \in 1 .. n : repeat[k] = Part("Bat", id)
      <4>1. Part("Bat", id) \in Sectors
        BY PartTypes DEF Parts
      <4>2. QED
        BY <1>1, <4>1, RepeatFacts
    <3>. HIDE DEF repeat
    <3>2. w.at = 3 /\ w.parts = repeat /\ w \in Writes
      BY <3>1 DEF At, BatAt, Writes
    <3>3. bat = << w >>
      BY <2>2
    <3>. HIDE DEF w
    <3>4. repeat # << >>
      BY <1>1, <2>2, <3>1
    <3>5. \A k \in 1 .. n : InBat(id, 3 + k) /\ 3 + k \in 1 .. End(id)
      BY <1>1 DEF InBat, BatAt
    <3>6. \A k \in 1 .. n : Part("Bat", id) \in Expected(id, 3 + k)
      BY <3>5, ExpectedFacts
    <3>7. IsRight(id, w)
      <4>1. w.at + Len(w.parts) <= End(id)
        BY <1>1, <3>1, <3>2
      <4>2. DOMAIN repeat = 1 .. n
        BY <3>1
      <4>3. Part("Bat", id).is # "Data"
        BY DEF Part
      <4>4. QED
        BY <3>1, <3>2, <3>5, <3>6, <4>1, <4>2, <4>3 DEF IsRight
    <3>8. bat \in Seq(Writes) /\ Len(bat) = 1 /\ bat[1] = w
      BY <3>2, <3>3
    <3>9. \A j \in 1 .. Len(bat) : bat[j] = w
      BY <3>8
    <3>. HIDE DEF bat
    <3>10. QED
      BY <3>2, <3>4, <3>7, <3>8, <3>9 DEF Right
  <2>3. QED
    BY <2>1, <2>2
<1>5. /\ Right(id, locs) /\ locs \in Seq(Writes)
      /\ \A i \in 1 .. m : Covered(locs, 3 + n + i)
  <2>1. ASSUME NEW i \in 1 .. m
        PROVE  /\ l(i) \in Writes /\ IsRight(id, l(i)) /\ l(i).parts # << >>
               /\ Covers(l(i), 3 + n + i)
    <3>. DEFINE at == 3 + n + i - 1
                k == 3 + n + i
                s == << l(i) >>
    <3>1. at \in Nat /\ at < End(id) /\ at + 1 = k /\ k \in 1 .. End(id) /\ k > 3 /\ k # End(id) + 1
          /\ k > 3 + n
      BY <1>1
    <3>2. l(i) = At(at, << Part("Locator", id) >>)
      BY DEF BatAt
    <3>. HIDE DEF at, k, l
    <3>3. Expected(id, k) = {Part("Locator", id)}
      BY <1>1, <3>1 DEF Expected, InBat, BatAt
    <3>4. Right(id, s)
      <4>1. Part("Locator", id) \in Expected(id, at + 1)
        BY <3>1, <3>3
      <4>2. "Locator" \in Parts \ {"Zero", "Torn"}
        BY DEF Parts
      <4>3. QED
        BY <3>1, <3>2, <4>1, <4>2, WriteOfOne
    <3>5. Len(s) = 1 /\ s[1] = l(i)
      OBVIOUS
    <3>6. s \in Seq(Writes) /\ IsRight(id, s[1]) /\ s[1].parts # << >>
      BY <3>4, <3>5 DEF Right
    <3>7. Covered(s, k)
      BY <3>1, <3>2, OneCovers
    <3>8. Covers(s[1], k)
      BY <3>5, <3>7 DEF Covered
    <3>9. l(i) \in Writes
      BY <3>5, <3>6
    <3>10. QED
      BY <3>5, <3>6, <3>8, <3>9 DEF k
  <2>. HIDE DEF l
  <2>2. locs \in Seq(Writes) /\ Len(locs) = m /\ \A i \in 1 .. m : locs[i] = l(i)
    BY <1>1, <2>1
  <2>. HIDE DEF locs
  <2>3. Right(id, locs)
    BY <2>1, <2>2 DEF Right
  <2>4. \A i \in 1 .. m : Covered(locs, 3 + n + i)
    BY <2>1, <2>2 DEF Covered
  <2>5. QED
    BY <2>2, <2>3, <2>4
<1>. HIDE DEF head, bat, locs, n, m, e
<1>6. Right(id, head \o bat) /\ head \o bat \in Seq(Writes)
  BY <1>3, <1>4, JoinedRight DEF Right
<1>7. Right(id, head \o bat \o locs)
  BY <1>5, <1>6, JoinedRight
<1>8. /\ Len(head \o bat) > 0 /\ (head \o bat)[1] = head[1] /\ Len(head \o bat \o locs) > 0
      /\ (head \o bat \o locs)[1] = head[1]
  <2>1. 1 \in 1 .. Len(head) /\ Len(head) \in Nat
    BY <1>3
  <2>2. 1 \in 1 .. Len(head \o bat) /\ (head \o bat)[1] = head[1]
    <3>1. Joins(head, bat, head \o bat)
      BY <1>3, <1>4, JoinedFacts
    <3>2. QED
      BY <2>1, <3>1 DEF Joins
  <2>. DEFINE u == head \o bat
  <2>3. u \in Seq(Writes) /\ 1 \in 1 .. Len(u)
    BY <1>6, <2>2
  <2>. HIDE DEF u
  <2>4. 1 \in 1 .. Len(u \o locs) /\ (u \o locs)[1] = u[1]
    <3>1. Joins(u, locs, u \o locs)
      BY <1>5, <2>3, JoinedFacts
    <3>2. QED
      BY <2>3, <3>1 DEF Joins
  <2>5. 1 \in 1 .. Len(head \o bat \o locs) /\ (head \o bat \o locs)[1] = (head \o bat)[1]
    BY <2>4 DEF u
  <2>6. QED
    BY <1>5, <1>6, <2>2, <2>5
<1>9. ASSUME NEW i \in 2 .. End(id) PROVE InBat(id, i) \/ Covered(head \o bat \o locs, i)
  <2>1. CASE i \in {2, 3}
    <3>1. Covered(head \o bat, i)
      BY <1>3, <1>4, <2>1, JoinedCovered
    <3>2. QED
      BY <1>5, <1>6, <3>1, JoinedCovered
  <2>2. CASE i \in 4 .. 3 + n
    BY <1>1, <2>2 DEF InBat, BatAt, n
  <2>3. CASE i > 3 + n
    <3>1. i - (3 + n) \in 1 .. m /\ 3 + n + (i - (3 + n)) = i
      BY <1>1, <2>3 DEF e
    <3>2. Covered(locs, i)
      BY <1>5, <3>1
    <3>3. QED
      BY <1>5, <1>6, <3>2, JoinedCovered
  <2>4. QED
    BY <1>1, <2>1, <2>2, <2>3 DEF e
<1>10. QED
  BY <1>2, <1>3, <1>7, <1>8, <1>9

\* Writes that cover an image, and then its footer, are what a create of it has to do.
LEMMA StartsBuilding ==
    ASSUME ImagesOK, NEW id \in Ids, NEW s, Right(id, s),
           \A i \in 1 .. End(id) : InBat(id, i) \/ Covered(s, i),
           IsSparse(id) => Len(s) > 0 /\ s[1] = HeaderWrite(id)
    PROVE  /\ s \o << FooterWrite(id) >> \in Seq(Writes) /\ s \o << FooterWrite(id) >> # << >>
           /\ \A j \in 1 .. Len(s \o << FooterWrite(id) >>) :
                 (s \o << FooterWrite(id) >>)[j].parts # << >>
           /\ Building(<< >>, id, s \o << FooterWrite(id) >>)
<1>. DEFINE w == FooterWrite(id)
            t == << w >>
            u == s \o t
<1>1. w \in Writes /\ w.parts # << >>
  <2>1. << Part("Footer", id) >> \in Seq(Sectors) /\ << Part("Footer", id) >> # << >>
    BY PartTypes DEF Parts
  <2>2. QED
    BY <2>1, Layout DEF FooterWrite, At, Writes
<1>. HIDE DEF w
<1>2. t \in Seq(Writes) /\ Len(t) = 1 /\ t[1] = w
  BY <1>1
<1>3. s \in Seq(Writes) /\ Len(s) \in Nat /\ \A j \in 1 .. Len(s) : IsRight(id, s[j]) /\ s[j].parts # << >>
  BY DEF Right
<1>. HIDE DEF t
<1>4. /\ u \in Seq(Writes) /\ Len(u) = Len(s) + 1
      /\ \A j \in 1 .. Len(s) : j \in 1 .. Len(u) /\ u[j] = s[j]
      /\ \A j \in 1 .. Len(t) : u[Len(s) + j] = t[j]
      /\ \A j \in 1 .. Len(u) : j \in 1 .. Len(s) \/ \E k \in 1 .. Len(t) : j = Len(s) + k
  <2>1. /\ u \in Seq(Writes) /\ Len(u) = Len(s) + Len(t)
        /\ \A j \in 1 .. Len(s) : j \in 1 .. Len(u) /\ u[j] = s[j]
        /\ \A j \in 1 .. Len(t) : Len(s) + j \in 1 .. Len(u) /\ u[Len(s) + j] = t[j]
        /\ \A j \in 1 .. Len(u) : j \in 1 .. Len(s) \/ \E k \in 1 .. Len(t) : j = Len(s) + k
    <3>1. s \in Seq(Writes) /\ t \in Seq(Writes)
      BY <1>2, <1>3
    <3>2. Joins(s, t, s \o t)
      BY <3>1, JoinedFacts
    <3>3. Joins(s, t, u)
      BY <3>2, Zenon DEF u
    <3>. HIDE DEF u
    <3>4. QED
      BY <3>1, <3>3 DEF Joins
  <2>2. QED
    BY <1>2, <2>1
<1>5. u[Len(s) + 1] = w
  BY <1>2, <1>4
<1>. HIDE DEF u
<1>6. u # << >> /\ Len(u) > 0 /\ u[Len(u)] = w /\ Len(u) - 1 = Len(s)
  <2>1. Len(u) > 0 /\ Len(u) - 1 = Len(s)
    BY <1>3, <1>4
  <2>2. QED
    BY <1>4, <1>5, <2>1
<1>7. \A j \in 1 .. Len(u) : u[j].parts # << >>
  BY <1>1, <1>2, <1>3, <1>4, <1>5
<1>8. \A i \in 1 .. End(id) : InBat(id, i) \/ \E j \in 1 .. Len(u) : Covers(u[j], i)
  BY <1>4 DEF Covered
<1>9. IsSparse(id) => Len(u) > 1 /\ u[1] = HeaderWrite(id)
  <2>1. ASSUME IsSparse(id) PROVE Len(u) > 1 /\ u[1] = HeaderWrite(id)
    <3>1. Len(s) > 0 /\ 1 \in 1 .. Len(s)
      BY <1>3, <2>1
    <3>2. Len(u) > 1
      BY <1>3, <1>4, <3>1
    <3>3. QED
      BY <1>4, <2>1, <3>1, <3>2
  <2>2. QED
    BY <2>1
<1>10. Building(<< >>, id, u)
  <2>1. Len(<< >>) = 0 /\ 0 <= End(id) /\ 1 .. 0 = {}
    BY Layout
  <2>2. \A j \in 1 .. Len(u) - 1 : IsRight(id, u[j])
    BY <1>3, <1>4, <1>6
  <2>3. QED
    BY <1>6, <1>8, <1>9, <2>1, <2>2 DEF Building, w
<1>11. QED
  BY <1>4, <1>6, <1>7, <1>10 DEF u, t, w

\* A create begins with an empty file, and with writes that make it whole.
LEMMA CreateBuilds ==
    ASSUME ImagesOK, NEW id \in Ids
    PROVE  /\ CreateWrites(id) \in Seq(Writes) /\ CreateWrites(id) # << >>
           /\ \A j \in 1 .. Len(CreateWrites(id)) : CreateWrites(id)[j].parts # << >>
           /\ Building(<< >>, id, CreateWrites(id))
<1>. DEFINE w == FooterWrite(id)
            copy == << At(0, << Part("Footer", id) >>) >>
<1>1. CASE ~IsSparse(id)
  <2>1. FooterWrites(id) = << w >>
    BY <1>1 DEF FooterWrites, FooterWrite
  <2>2. CreateWrites(id) = BodyWrites(id) \o << w >>
    BY <2>1 DEF CreateWrites
  <2>3. Right(id, BodyWrites(id)) /\ \A i \in 1 .. End(id) : Covered(BodyWrites(id), i)
    BY <1>1, FixedBody
  <2>. DEFINE s == BodyWrites(id)
  <2>. HIDE DEF s
  <2>4. /\ s \o << FooterWrite(id) >> \in Seq(Writes) /\ s \o << FooterWrite(id) >> # << >>
        /\ \A j \in 1 .. Len(s \o << FooterWrite(id) >>) :
              (s \o << FooterWrite(id) >>)[j].parts # << >>
        /\ Building(<< >>, id, s \o << FooterWrite(id) >>)
    BY <1>1, <2>3, StartsBuilding DEF s
  <2>5. CreateWrites(id) = s \o << FooterWrite(id) >>
    BY <2>2 DEF s
  <2>6. QED
    BY <2>4, <2>5, Zenon
<1>2. CASE IsSparse(id)
  <2>. DEFINE body == BodyWrites(id)
              s == body \o copy
  <2>1. /\ Right(id, body) /\ Len(body) > 0 /\ body[1] = HeaderWrite(id)
        /\ \A i \in 2 .. End(id) : InBat(id, i) \/ Covered(body, i)
    BY <1>2, SparseBody
  <2>. HIDE DEF body
  <2>2. Right(id, copy) /\ Covered(copy, 1)
    <3>1. Part("Footer", id) \in Expected(id, 0 + 1) /\ 0 < End(id) /\ 0 + 1 = 1
      BY <1>2, ExpectedFacts, Layout
    <3>2. "Footer" \in Parts \ {"Zero", "Torn"}
      BY DEF Parts
    <3>3. Right(id, copy)
      BY <3>1, <3>2, WriteOfOne
    <3>4. Covered(copy, 0 + 1)
      BY OneCovers
    <3>5. QED
      BY <3>1, <3>3, <3>4
  <2>3. body \in Seq(Writes) /\ copy \in Seq(Writes) /\ << w >> \in Seq(Writes)
    <3>1. w \in Writes
      <4>1. << Part("Footer", id) >> \in Seq(Sectors)
        BY PartTypes DEF Parts
      <4>2. QED
        BY <4>1, Layout DEF FooterWrite, At, Writes
    <3>2. QED
      BY <2>1, <2>2, <3>1 DEF Right
  <2>4. FooterWrites(id) = copy \o << w >>
    BY <1>2 DEF FooterWrites, FooterWrite
  <2>. HIDE DEF copy, w
  <2>5. CreateWrites(id) = s \o << w >>
    <3>1. body \o (copy \o << w >>) = (body \o copy) \o << w >>
      BY <2>3, ConcatAssociative
    <3>2. QED
      BY <2>4, <3>1 DEF CreateWrites, body
  <2>6. Right(id, s)
    BY <2>1, <2>2, JoinedRight
  <2>7. ASSUME NEW i \in 1 .. End(id) PROVE InBat(id, i) \/ Covered(s, i)
    <3>1. i = 1 \/ i \in 2 .. End(id)
      BY Layout
    <3>2. QED
      BY <2>1, <2>2, <2>3, <3>1, JoinedCovered
  <2>8. Len(s) > 0 /\ s[1] = HeaderWrite(id)
    <3>1. 1 \in 1 .. Len(body) /\ Len(body) \in Nat
      BY <2>1, <2>3
    <3>2. 1 \in 1 .. Len(s) /\ s[1] = body[1] /\ s \in Seq(Writes)
      <4>1. Joins(body, copy, body \o copy)
        BY <2>3, JoinedFacts
      <4>2. QED
        BY <3>1, <4>1 DEF Joins
    <3>3. QED
      BY <2>1, <3>2
  <2>. HIDE DEF s
  <2>9. /\ s \o << FooterWrite(id) >> \in Seq(Writes) /\ s \o << FooterWrite(id) >> # << >>
        /\ \A j \in 1 .. Len(s \o << FooterWrite(id) >>) :
              (s \o << FooterWrite(id) >>)[j].parts # << >>
        /\ Building(<< >>, id, s \o << FooterWrite(id) >>)
    BY <2>6, <2>7, <2>8, StartsBuilding
  <2>10. CreateWrites(id) = s \o << FooterWrite(id) >>
    BY <2>5 DEF w
  <2>11. QED
    BY <2>9, <2>10, Zenon
<1>3. QED
  BY <1>1, <1>2

\* What flushes and drops write.
LEMMA FootersTypes ==
    ASSUME ImagesOK, NEW id \in Ids
    PROVE  /\ FooterWrites(id) \in Seq(Writes) /\ FooterWrites(id) # << >>
           /\ \A j \in 1 .. Len(FooterWrites(id)) : FooterWrites(id)[j].parts # << >>
           /\ IsFooters(id, FooterWrites(id))
<1>. DEFINE parts == << Part("Footer", id) >>
            copy == At(0, parts)
            w == FooterWrite(id)
<1>1. parts \in Seq(Sectors) /\ parts # << >>
  BY PartTypes DEF Parts
<1>. HIDE DEF parts
<1>2. copy \in Writes /\ copy.parts # << >> /\ w \in Writes /\ w.parts # << >>
  BY <1>1, Layout DEF FooterWrite, At, Writes, parts
<1>. DEFINE s == IF IsSparse(id) THEN << copy >> ELSE << >>
            t == << w >>
<1>3. FooterWrites(id) = s \o t
  BY DEF FooterWrites, FooterWrite, parts
<1>. HIDE DEF copy, w
<1>4. /\ s \in Seq(Writes) /\ t \in Seq(Writes) /\ Len(t) = 1 /\ t[1] = w
      /\ \A j \in 1 .. Len(s) : IsSparse(id) /\ s[j] = copy
  BY <1>2
<1>. HIDE DEF s, t
<1>5. /\ s \o t \in Seq(Writes) /\ s \o t # << >>
      /\ \A j \in 1 .. Len(s \o t) : (s \o t)[j] = w \/ (IsSparse(id) /\ (s \o t)[j] = copy)
  <2>. DEFINE u == s \o t
  <2>1. /\ u \in Seq(Writes) /\ Len(u) = Len(s) + Len(t) /\ Len(s) \in Nat
        /\ \A j \in 1 .. Len(s) : u[j] = s[j]
        /\ \A j \in 1 .. Len(t) : u[Len(s) + j] = t[j]
        /\ \A j \in 1 .. Len(u) : j \in 1 .. Len(s) \/ \E k \in 1 .. Len(t) : j = Len(s) + k
    <3>1. s \in Seq(Writes) /\ t \in Seq(Writes) /\ Len(s) \in Nat
      BY <1>4
    <3>2. Joins(s, t, s \o t)
      BY <3>1, JoinedFacts
    <3>3. Joins(s, t, u)
      BY <3>2, Zenon DEF u
    <3>. HIDE DEF u
    <3>4. QED
      BY <3>1, <3>3 DEF Joins
  <2>. HIDE DEF u
  <2>2. u # << >>
    BY <1>4, <2>1
  <2>3. \A j \in 1 .. Len(u) : u[j] = w \/ (IsSparse(id) /\ u[j] = copy)
    BY <1>4, <2>1
  <2>4. QED
    BY <2>1, <2>2, <2>3 DEF u
<1>. DEFINE u == s \o t
<1>. HIDE DEF u
<1>6. QED
  <2>1. FooterWrites(id) = u /\ u \in Seq(Writes) /\ u # << >>
        /\ \A j \in 1 .. Len(u) : u[j] = w \/ (IsSparse(id) /\ u[j] = copy)
    BY <1>3, <1>5 DEF u
  <2>2. IsFooters(id, u)
    BY <2>1 DEF IsFooters, copy, w, parts
  <2>3. QED
    BY <1>2, <2>1, <2>2

-----------------------------------------------------------------------------
(* Types and handles under the images that are added *)

Inv == TypeInv /\ FileInv

HandleOK(r) == OwnerOK(r) /\ WriterOK(r) /\ ReaderOK(r) /\ OpenedOK(r)

\* What the invariant says, by its parts.
LEMMA InvParts ==
    ASSUME Inv
    PROVE  /\ TypeInv /\ ImagesOK /\ OpensIsWhole /\ OneWriter
           /\ files \in [Paths -> Seq(Sectors)] /\ handle \in [Handles -> States]
           /\ owner \in [Paths -> {NoImage} \cup Ids] /\ soiled \subseteq Paths /\ returned \subseteq Ids
           /\ \A h \in Handles : handle[h] \in States /\ Shape(handle[h]) /\ HandleOK(handle[h])
BY DEF Inv, TypeInv, FileInv, HandlesOK, HandleOK

\* What is a sector, a write or a handle stays one when images are added.
LEMMA TypesKept ==
    ASSUME ImagesKept
    PROVE  /\ Sectors \subseteq Sectors' /\ Seq(Sectors) \subseteq Seq(Sectors')
           /\ Seq(Writes) \subseteq Seq(Writes') /\ States \subseteq States'
           /\ \A r : Shape(r) => (Shape(r))'
<1>1. Ids \subseteq Ids'
  BY DEF ImagesKept
<1>2. Sectors \subseteq Sectors'
  BY <1>1 DEF Sectors
<1>3. Seq(Sectors) \subseteq Seq(Sectors')
  BY <1>2
<1>4. Writes \subseteq Writes'
  BY <1>3 DEF Writes
<1>5. Seq(Writes) \subseteq Seq(Writes')
  BY <1>4
<1>6. States \subseteq States'
  BY <1>1, <1>3, <1>5 DEF States
<1>7. ASSUME NEW r, Shape(r) PROVE (Shape(r))'
  <2>1. \A id \in Ids : (IsSparse(id))' = IsSparse(id)
    BY LayoutKept
  <2>2. MayTruncate(r) => (MayTruncate(r))'
    BY <1>1, <2>1 DEF MayTruncate
  <2>3. QED
    BY <1>1, <1>7, <2>1, <2>2 DEF Shape, Creating
<1>8. QED
  BY <1>2, <1>3, <1>5, <1>6, <1>7

\* What holds of a handle depends on the variables only, not on the step.
LEMMA HandleKept ==
    ASSUME UNCHANGED <<files, images, owner, soiled, returned>>, NEW r, Shape(r), HandleOK(r)
    PROVE  (HandleOK(r))'
<1>1. ImagesKept
  BY DEF ImagesKept, Ids
<1>2. Ids' = Ids
  BY DEF Ids
<1>3. (OwnerOK(r))'
  <2>1. ASSUME Owns(r) PROVE r.footer \in Ids
    BY <2>1 DEF Owns, Shape
  <2>2. (Owns(r))' <=> Owns(r)
    BY DEF Owns
  <2>3. OwnerOK(r)
    BY DEF HandleOK
  <2>4. QED
    BY <1>1, <2>1, <2>2, <2>3, ContentsKept DEF OwnerOK, Creating
<1>4. (WriterOK(r))'
  <2>1. r.stage = "write" => r.footer \in Ids
    BY DEF Shape
  <2>2. WriterOK(r)
    BY DEF HandleOK
  <2>3. QED
    BY <1>1, <2>1, <2>2, ContentsKept DEF WriterOK, Creating
<1>5. (ReaderOK(r))'
  BY DEF HandleOK, ReaderOK, EndsInFooter, HasHeader
<1>6. (OpenedOK(r))'
  BY DEF HandleOK, OpenedOK, IsSparse, BatSectors
<1>7. QED
  BY <1>3, <1>4, <1>5, <1>6 DEF HandleOK

-----------------------------------------------------------------------------
(* Steps that write to no file *)

Quiet(h, r) == Goes(h, r) /\ UNCHANGED <<files, images, owner, soiled, returned>>

\* What h does not lose when it goes on as r.
Careful(h, r) ==
    /\ r.mode = "created" => /\ handle[h].mode = "created" /\ r.footer = handle[h].footer
                             /\ r.path = handle[h].path /\ ~Creating(r) /\ ~Creating(handle[h])
    /\ WriterOK(r) /\ ReaderOK(r) /\ OpenedOK(r)

\* A step of h that changes no file, nor what is known of the images.
LEMMA QuietStep ==
    ASSUME Inv, NEW h \in Handles, NEW r \in States, Shape(r), Quiet(h, r), Careful(h, r)
    PROVE  Inv'
<1>1. /\ UNCHANGED <<files, images, owner, soiled, returned>>
      /\ handle' = [handle EXCEPT ![h] = r]
  BY DEF Quiet, Goes
<1>2. /\ handle \in [Handles -> States] /\ handle'[h] = r
      /\ \A g \in Handles : g # h => handle'[g] = handle[g]
  BY <1>1, InvParts
<1>3. ImagesKept
  BY <1>1 DEF ImagesKept, Ids
<1>4. Ids' = Ids
  BY <1>1 DEF Ids
<1>5. TypeInv'
  <2>1. (ImagesOK)'
    BY <1>1, InvParts DEF ImagesOK, Images, Ids, SizesAreRight, IsSparse
  <2>2. files' \in [Paths -> Seq(Sectors')]
    BY <1>1, <1>3, InvParts, TypesKept
  <2>3. handle' \in [Handles -> States']
    BY <1>1, <1>2, <1>3, TypesKept
  <2>4. \A g \in Handles : (Shape(handle[g]))'
    BY <1>2, <1>3, InvParts, TypesKept
  <2>5. owner' \in [Paths -> {NoImage} \cup Ids'] /\ soiled' \subseteq Paths /\ returned' \subseteq Ids'
    BY <1>1, <1>4, InvParts
  <2>6. QED
    BY <2>1, <2>2, <2>3, <2>4, <2>5 DEF TypeInv
<1>6. OpensIsWhole'
  <2>1. SUFFICES ASSUME NEW p \in Paths \ soiled, (Opens(files[p]))' \/ owner[p] \in returned
                 PROVE  owner[p] \in Ids /\ (Whole(files[p], owner[p]))'
    BY <1>1, <1>4 DEF OpensIsWhole
  <2>2. files[p] \in Seq(Sectors)
    BY InvParts
  <2>3. Opens(files[p]) \/ owner[p] \in returned
    BY <1>1, <1>3, <2>1, <2>2, OpensKept
  <2>4. owner[p] \in Ids /\ Whole(files[p], owner[p])
    BY <2>3, InvParts DEF OpensIsWhole
  <2>5. QED
    BY <1>1, <1>3, <2>4, ContentsKept
<1>7. OneWriter'
  <2>1. \A g \in Handles : handle'[g].mode = "created" =>
           /\ handle[g].mode = "created" /\ handle'[g].footer = handle[g].footer
           /\ handle'[g].path = handle[g].path
    BY <1>2 DEF Careful
  <2>2. OneWriter
    BY InvParts
  <2>3. QED
    BY <1>1, <2>1, <2>2 DEF OneWriter
<1>8. HandlesOK'
  <2>1. OwnerOK(r)
    <3>1. SUFFICES ASSUME Owns(r) PROVE ~Creating(r) /\ Whole(files[r.path], r.footer)
      BY DEF OwnerOK
    <3>2. Owns(handle[h]) /\ ~Creating(handle[h]) /\ ~Creating(r)
          /\ r.footer = handle[h].footer /\ r.path = handle[h].path
      BY <3>1 DEF Careful, Owns
    <3>3. OwnerOK(handle[h])
      BY InvParts DEF HandleOK
    <3>4. QED
      BY <3>2, <3>3 DEF OwnerOK
  <2>2. \A g \in Handles : Shape(handle'[g]) /\ HandleOK(handle'[g])
    BY <1>2, <2>1, InvParts DEF Careful, HandleOK
  <2>3. \A k : Shape(k) /\ HandleOK(k) => (HandleOK(k))'
    BY <1>1, HandleKept
  <2>4. \A g \in Handles : (HandleOK(handle[g]))'
    BY <2>2, <2>3
  <2>5. QED
    BY <2>4 DEF HandlesOK, HandleOK
<1>9. QED
  BY <1>5, <1>6, <1>7, <1>8 DEF Inv, FileInv

\* A handle that becomes free loses nothing.
LEMMA FreeIsCareful ==
    ASSUME NEW h
    PROVE  Free \in States /\ Shape(Free) /\ Careful(h, Free)
<1>1. Free \in States
  BY DEF Free, States, Stages, Names, NoImage
<1>2. Shape(Free)
  BY DEF Free, Shape, NoImage, Creating, ReadingStages
<1>3. Careful(h, Free)
  BY DEF Free, Careful, WriterOK, ReaderOK, OpenedOK, Creating, ReadingStages
<1>4. QED
  BY <1>1, <1>2, <1>3

\* A call that fails before it writes, a Drop of an opened image, a crash.
LEMMA EndsStep ==
    ASSUME Inv, NEW h \in Handles, Ends(h)
    PROVE  Inv'
<1>1. Quiet(h, Free)
  BY DEF Ends, Quiet
<1>2. QED
  BY <1>1, FreeIsCareful, QuietStep

\* create_fixed and create_dynamic, up to the file.
LEMMA CreateStep ==
    ASSUME Inv, NEW h \in Handles, NEW p \in Paths, NEW mb \in Sizes, NEW type \in Types,
           Create(h, type, p, mb)
    PROVE  Inv'
<1>. DEFINE r == [Free EXCEPT !.stage = "truncate", !.op = "create", !.path = p,
                              !.type = type, !.asked = mb]
<1>1. /\ Goes(h, r) /\ UNCHANGED <<files, images, owner, soiled, returned>>
      /\ type \in {"Fixed", "Dynamic"} /\ ~TooBig(BlocksFor(mb))
  BY DEF Create
<1>2. r \in States
  <2>1. Free \in States /\ mb \in Nat
    BY FreeIsCareful, ImageFilesAssumption
  <2>2. QED
    BY <2>1 DEF States, Stages, Names
<1>3. r.stage = "truncate" /\ r.op = "create" /\ r.path = p /\ r.type = type /\ r.asked = mb
      /\ r.footer = NoImage /\ r.source = "none" /\ r.mode = "none" /\ r.todo = << >>
  BY DEF Free
<1>. HIDE DEF r
<1>4. MayTruncate(r)
  <2>1. BlocksFor(mb) <= MaxBlocks
    BY <1>1, BlocksType, ImageFilesAssumption DEF TooBig
  <2>2. QED
    BY <1>1, <1>3, <2>1 DEF MayTruncate
<1>5. Shape(r)
  BY <1>3, <1>4 DEF Shape, Creating, ReadingStages
<1>6. Careful(h, r)
  BY <1>3 DEF Careful, WriterOK, ReaderOK, OpenedOK, Creating, ReadingStages
<1>7. QED
  BY <1>1, <1>2, <1>5, <1>6, QuietStep DEF Quiet

\* open and create_diff, up to the open of the file to read.
LEMMA ReadsStep ==
    ASSUME Inv, NEW h \in Handles, NEW p \in Paths, NEW q \in Paths, NEW op \in {"open", "create"},
           Reads(h, op, p, q)
    PROVE  Inv'
<1>. DEFINE r == [Free EXCEPT !.stage = "footer", !.op = op, !.path = p, !.source = q,
                              !.raced = q \in soiled]
<1>1. Goes(h, r) /\ UNCHANGED <<files, images, owner, soiled, returned>>
  BY DEF Reads
<1>2. r \in States
  <2>1. Free \in States
    BY FreeIsCareful
  <2>. DEFINE raced == q \in soiled
  <2>2. raced \in BOOLEAN
    OBVIOUS
  <2>. HIDE DEF raced
  <2>3. [Free EXCEPT !.stage = "footer", !.op = op, !.path = p, !.source = q, !.raced = raced] \in States
    BY <2>1, <2>2 DEF States, Stages, Names
  <2>4. QED
    BY <2>3 DEF raced
<1>3. r.stage = "footer" /\ r.op = op /\ r.path = p /\ r.source = q /\ r.mode = "none"
      /\ r.todo = << >> /\ (~r.raced => q \notin soiled)
  BY DEF Free
<1>. HIDE DEF r
<1>4. Shape(r)
  BY <1>3 DEF Shape, Creating, ReadingStages
<1>5. Careful(h, r)
  BY <1>3 DEF Careful, WriterOK, ReaderOK, OpenedOK, Creating, ReadingStages
<1>6. QED
  BY <1>1, <1>2, <1>4, <1>5, QuietStep DEF Quiet

\* The footer that is read is of the whole image, if nobody wrote to the file.
LEMMA ReadFooterStep ==
    ASSUME Inv, NEW h \in Handles, ReadFooter(h)
    PROVE  Inv'
<1>. DEFINE r == handle[h]
            f == Source(h)
            id == Last(f).id
<1>1. r \in States /\ Shape(r) /\ HandleOK(r) /\ r.stage = "footer"
  BY InvParts DEF ReadFooter
<1>2. r.source \in Paths /\ r.path \in Paths /\ f = files[r.source] /\ f \in Seq(Sectors)
      /\ r.todo = << >> /\ r.mode = "none" /\ r.op \in {"open", "create"}
  BY <1>1, InvParts DEF Shape, ReadingStages, Source
<1>3. CASE Ends(h)
  BY <1>3, EndsStep
<1>4. ASSUME EndsInFooter(f) PROVE id \in Ids
  <2>1. f[Len(f)] \in Sectors /\ Last(f) = f[Len(f)]
    BY <1>2, <1>4 DEF EndsInFooter, Last
  <2>2. QED
    BY <1>4, <2>1, PartTypes DEF EndsInFooter
<1>5. CASE /\ EndsInFooter(f) /\ IsSparse(id)
           /\ Goes(h, [r EXCEPT !.footer = id, !.stage = "header"])
           /\ UNCHANGED <<files, images, owner, soiled, returned>>
  <2>. DEFINE n == [r EXCEPT !.footer = id, !.stage = "header"]
  <2>1. id \in Ids
    BY <1>4, <1>5
  <2>2. n \in States
    BY <1>1, <2>1 DEF States, Stages
  <2>3. /\ n.stage = "header" /\ n.footer = id /\ n.source = r.source /\ n.path = r.path
        /\ n.todo = r.todo /\ n.mode = r.mode /\ n.op = r.op /\ n.raced = r.raced
    BY <1>1 DEF States
  <2>. HIDE DEF n
  <2>4. Shape(n)
    BY <1>2, <1>5, <2>1, <2>3 DEF Shape, Creating, ReadingStages
  <2>5. ReaderOK(n)
    <3>1. ReaderOK(r)
      BY <1>1 DEF HandleOK
    <3>2. QED
      BY <1>1, <1>2, <1>5, <2>3, <3>1 DEF ReaderOK, ReadingStages
  <2>6. Careful(h, n)
    BY <1>2, <2>3, <2>5 DEF Careful, WriterOK, OpenedOK, Creating
  <2>7. QED
    BY <1>5, <2>2, <2>4, <2>6, QuietStep DEF Quiet, n
<1>6. CASE /\ EndsInFooter(f) /\ ~IsSparse(id) /\ r.op = "open"
           /\ Goes(h, [r EXCEPT !.footer = id, !.stage = "ready", !.mode = "opened"])
           /\ UNCHANGED <<files, images, owner, soiled, returned>>
  <2>. DEFINE n == [r EXCEPT !.footer = id, !.stage = "ready", !.mode = "opened"]
  <2>1. id \in Ids
    BY <1>4, <1>6
  <2>2. n \in States
    BY <1>1, <2>1 DEF States, Stages
  <2>3. /\ n.stage = "ready" /\ n.footer = id /\ n.source = r.source /\ n.path = r.path
        /\ n.todo = r.todo /\ n.mode = "opened" /\ n.op = r.op /\ n.raced = r.raced
    BY <1>1 DEF States
  <2>. HIDE DEF n
  <2>4. Shape(n)
    BY <1>2, <1>6, <2>1, <2>3 DEF Shape, Creating, ReadingStages
  <2>5. Careful(h, n)
    BY <1>2, <1>6, <2>3 DEF Careful, WriterOK, ReaderOK, OpenedOK, Creating, ReadingStages
  <2>6. QED
    BY <1>6, <2>2, <2>4, <2>5, QuietStep DEF Quiet, n
<1>7. QED
  BY <1>3, <1>5, <1>6 DEF ReadFooter

\* So is the header.
LEMMA ReadHeaderStep ==
    ASSUME Inv, NEW h \in Handles, ReadHeader(h)
    PROVE  Inv'
<1>. DEFINE r == handle[h]
            f == Source(h)
            n == [r EXCEPT !.header = f[2].id, !.stage = "bat"]
<1>1. r \in States /\ Shape(r) /\ HandleOK(r) /\ r.stage = "header"
  BY InvParts DEF ReadHeader
<1>2. /\ r.source \in Paths /\ r.path \in Paths /\ f = files[r.source] /\ f \in Seq(Sectors)
      /\ r.todo = << >> /\ r.mode = "none" /\ r.op \in {"open", "create"}
      /\ r.footer \in Ids /\ IsSparse(r.footer)
  BY <1>1, InvParts DEF Shape, ReadingStages, Source
<1>3. CASE Ends(h)
  BY <1>3, EndsStep
<1>4. CASE HasHeader(f) /\ Goes(h, n) /\ UNCHANGED <<files, images, owner, soiled, returned>>
  <2>1. f[2].id \in Ids
    <3>1. f[2] \in Sectors
      BY <1>2, <1>4 DEF HasHeader, BatAt
    <3>2. QED
      BY <1>4, <3>1, PartTypes DEF HasHeader
  <2>2. n \in States
    BY <1>1, <2>1 DEF States, Stages
  <2>3. /\ n.stage = "bat" /\ n.footer = r.footer /\ n.source = r.source /\ n.path = r.path
        /\ n.todo = r.todo /\ n.mode = r.mode /\ n.op = r.op /\ n.raced = r.raced
        /\ n.header = f[2].id
    BY <1>1 DEF States
  <2>. HIDE DEF n
  <2>4. Shape(n)
    BY <1>2, <2>1, <2>3 DEF Shape, Creating, ReadingStages
  <2>5. ReaderOK(n)
    <3>1. ReaderOK(r)
      BY <1>1 DEF HandleOK
    <3>2. QED
      BY <1>1, <1>2, <1>4, <2>3, <3>1 DEF ReaderOK, ReadingStages
  <2>6. Careful(h, n)
    BY <1>2, <2>3, <2>5 DEF Careful, WriterOK, OpenedOK, Creating
  <2>7. QED
    BY <1>4, <2>2, <2>4, <2>6, QuietStep DEF Quiet
<1>5. QED
  BY <1>3, <1>4 DEF ReadHeader

\* What is read of the BAT of a whole image is its BAT, or what a failed write left there.
LEMMA BatOfWhole ==
    ASSUME ImagesOK, NEW id \in Ids, IsSparse(id), NEW f \in Seq(Sectors), Whole(f, id)
    PROVE  LET bat == ReadExact(f, BatAt, BatSectors(id))
           IN  /\ f[2].id = id /\ Len(bat) = BatSectors(id)
               /\ \A i \in DOMAIN bat : bat[i] \in {Part("Bat", id), ZeroPart, TornPart}
<1>. DEFINE n == BatSectors(id)
            e == End(id)
            k == Len(f) - BatAt
            bat == [i \in 1 .. n |-> f[BatAt + 1 + ((i - 1) % k)]]
<1>1. n \in Nat /\ e \in Nat /\ e >= 3 + n /\ Len(f) = e + 1
  BY Layout DEF Whole
<1>. HIDE DEF n, e
<1>2. k \in Nat /\ k > n
  BY <1>1 DEF BatAt
<1>3. f[2].id = id
  <2>1. 2 \in 1 .. End(id) + 1
    BY <1>1 DEF e
  <2>2. f[2] \in Expected(id, 2)
    BY <2>1 DEF Whole
  <2>3. QED
    BY <2>2, ExpectedFacts DEF Part
<1>. HIDE DEF k
<1>4. ASSUME NEW i \in 1 .. n
      PROVE  f[BatAt + 1 + ((i - 1) % k)] \in {Part("Bat", id), ZeroPart, TornPart}
  <2>1. (i - 1) % k = i - 1
    BY <1>1, <1>2
  <2>2. BatAt + 1 + (i - 1) = 3 + i /\ 3 + i \in 1 .. e /\ 3 + i \in 1 .. e + 1
        /\ 3 + i \in 4 .. 3 + n
    BY <1>1 DEF BatAt
  <2>3. InBat(id, 3 + i)
    BY <2>2 DEF InBat, BatAt, n
  <2>4. f[3 + i] \in Expected(id, 3 + i)
    BY <2>2 DEF Whole, e
  <2>5. Expected(id, 3 + i) = {Part("Bat", id), ZeroPart, TornPart}
    BY <2>2, <2>3, ExpectedFacts DEF e
  <2>6. BatAt + 1 + ((i - 1) % k) = 3 + i
    BY <2>1, <2>2
  <2>7. QED
    BY <2>4, <2>5, <2>6
<1>5. ReadExact(f, BatAt, n) = bat
  BY DEF ReadExact, k
<1>6. DOMAIN bat = 1 .. n /\ Len(bat) = n
  BY <1>1
<1>7. QED
  BY <1>3, <1>4, <1>5, <1>6 DEF n

\* So is the BAT: the footer, the header and the BAT are of one image.
LEMMA ReadBatStep ==
    ASSUME Inv, NEW h \in Handles, ReadBat(h)
    PROVE  Inv'
<1>. DEFINE r == handle[h]
            f == Source(h)
            n == BatSectors(r.header)
            bat == ReadExact(f, BatAt, n)
            opened == [[r EXCEPT !.bat = bat] EXCEPT !.stage = "ready", !.mode = "opened"]
            child  == [[r EXCEPT !.bat = bat] EXCEPT !.stage = "truncate", !.type = "Diff"]
<1>1. r \in States /\ Shape(r) /\ HandleOK(r) /\ r.stage = "bat"
  BY InvParts DEF ReadBat
<1>2. /\ r.source \in Paths /\ r.path \in Paths /\ f = files[r.source] /\ f \in Seq(Sectors)
      /\ r.todo = << >> /\ r.mode = "none" /\ r.op \in {"open", "create"}
      /\ r.footer \in Ids /\ IsSparse(r.footer) /\ r.header \in Ids
  BY <1>1, InvParts DEF Shape, ReadingStages, Source
<1>3. CASE Ends(h)
  BY <1>3, EndsStep
<1>4. ASSUME CanReadExact(f, BatAt, n) PROVE bat \in Seq(Sectors)
  <2>1. n \in Nat
    BY <1>2, InvParts, Layout
  <2>. DEFINE k == Len(f) - BatAt
  <2>. HIDE DEF n
  <2>2. ASSUME NEW i \in 1 .. n PROVE f[BatAt + 1 + ((i - 1) % k)] \in Sectors
    <3>1. k \in Nat \ {0}
      <4>1. n # 0 /\ Len(f) \in Nat
        BY <1>2, <2>1
      <4>2. Len(f) > BatAt
        BY <1>4, <4>1, Zenon DEF CanReadExact
      <4>3. \A x \in Nat : x > 3 => x - 3 \in Nat \ {0}
        OBVIOUS
      <4>4. QED
        BY <4>1, <4>2, <4>3, Zenon DEF BatAt
    <3>2. Len(f) = 3 + k
      BY <1>2 DEF BatAt
    <3>. HIDE DEF k
    <3>3. (i - 1) % k \in 0 .. k - 1
      BY <2>1, <3>1
    <3>4. BatAt + 1 + ((i - 1) % k) \in 1 .. Len(f)
      BY <3>1, <3>2, <3>3 DEF BatAt
    <3>5. QED
      BY <1>2, <3>4
  <2>3. QED
    BY <2>1, <2>2 DEF ReadExact
<1>5. CASE /\ CanReadExact(f, BatAt, n) /\ r.op = "open" /\ Goes(h, opened)
           /\ UNCHANGED <<files, images, owner, soiled, returned>>
  <2>1. opened \in States
    BY <1>1, <1>4, <1>5 DEF States, Stages
  <2>2. /\ opened.stage = "ready" /\ opened.footer = r.footer /\ opened.path = r.path
        /\ opened.todo = r.todo /\ opened.mode = "opened" /\ opened.op = r.op
        /\ opened.raced = r.raced /\ opened.header = r.header /\ opened.bat = bat
    BY <1>1 DEF States
  <2>. HIDE DEF opened, bat
  <2>3. Shape(opened)
    BY <1>2, <1>5, <2>2 DEF Shape, Creating, ReadingStages
  <2>4. ASSUME ~r.raced
        PROVE  /\ r.header = r.footer /\ Len(bat) = BatSectors(r.footer)
               /\ \A i \in DOMAIN bat : bat[i] \in {Part("Bat", r.footer), ZeroPart, TornPart}
    <3>1. /\ r.source \in Paths \ soiled /\ EndsInFooter(f) /\ Last(f).id = r.footer
          /\ HasHeader(f) /\ f[2].id = r.header
      BY <1>1, <1>2, <2>4 DEF HandleOK, ReaderOK, ReadingStages
    <3>2. Opens(f)
      BY <1>5, <3>1 DEF Opens
    <3>. DEFINE id == owner[r.source]
    <3>3. id \in Ids /\ Whole(f, id)
      BY <1>2, <3>1, <3>2, InvParts DEF OpensIsWhole
    <3>4. id = r.footer
      BY <1>2, <3>1, <3>3, InvParts, WholeOpens
    <3>. HIDE DEF id
    <3>5. /\ f[2].id = id /\ Len(ReadExact(f, BatAt, BatSectors(id))) = BatSectors(id)
          /\ \A i \in DOMAIN ReadExact(f, BatAt, BatSectors(id)) :
                ReadExact(f, BatAt, BatSectors(id))[i] \in {Part("Bat", id), ZeroPart, TornPart}
      BY <1>2, <3>3, <3>4, InvParts, BatOfWhole
    <3>6. bat = ReadExact(f, BatAt, BatSectors(id)) /\ r.header = id
      BY <3>1, <3>5 DEF bat
    <3>7. QED
      BY <3>4, <3>5, <3>6
  <2>5. OpenedOK(opened)
    BY <2>2, <2>4 DEF OpenedOK
  <2>6. Careful(h, opened)
    BY <1>2, <2>2, <2>5 DEF Careful, WriterOK, ReaderOK, Creating, ReadingStages
  <2>7. QED
    BY <1>5, <2>1, <2>3, <2>6, QuietStep DEF Quiet
<1>6. CASE /\ CanReadExact(f, BatAt, n) /\ r.op # "open" /\ Relates(r.path, r.source)
           /\ Goes(h, child) /\ UNCHANGED <<files, images, owner, soiled, returned>>
  <2>1. child \in States
    BY <1>1, <1>4, <1>6 DEF States, Stages, Types
  <2>2. /\ child.stage = "truncate" /\ child.footer = r.footer /\ child.path = r.path
        /\ child.todo = r.todo /\ child.mode = r.mode /\ child.op = r.op
        /\ child.source = r.source /\ child.type = "Diff"
    BY <1>1 DEF States
  <2>. HIDE DEF child
  <2>3. MayTruncate(child)
    BY <1>2, <1>6, <2>2 DEF MayTruncate, Relates
  <2>4. Shape(child)
    BY <1>2, <2>2, <2>3 DEF Shape, Creating, ReadingStages
  <2>5. Careful(h, child)
    BY <1>2, <2>2 DEF Careful, WriterOK, ReaderOK, OpenedOK, Creating, ReadingStages
  <2>6. QED
    BY <1>6, <2>1, <2>4, <2>5, QuietStep DEF Quiet
<1>7. QED
  BY <1>3, <1>5, <1>6 DEF ReadBat

\* flush and Drop of a created image begin to write its footers.
LEMMA FootersStep ==
    ASSUME Inv, NEW h \in Handles, NEW op \in {"flush", "drop"}, Footers(h, op),
           handle[h].stage \in {"ready", "panicked"}, handle[h].mode = "created",
           UNCHANGED <<files, images, owner, soiled, returned>>
    PROVE  Inv'
<1>. DEFINE r == handle[h]
            todo == FooterWrites(r.footer)
            n == [r EXCEPT !.stage = "write", !.op = op, !.todo = todo]
<1>1. r \in States /\ Shape(r) /\ HandleOK(r) /\ r.path \in Paths /\ r.footer \in Ids
  BY InvParts DEF Shape
<1>2. /\ todo \in Seq(Writes) /\ todo # << >> /\ IsFooters(r.footer, todo)
      /\ \A j \in DOMAIN todo : todo[j].parts # << >>
  BY <1>1, InvParts, FootersTypes
<1>. HIDE DEF todo
<1>3. n \in States
  BY <1>1, <1>2 DEF States, Stages
<1>4. /\ n.stage = "write" /\ n.footer = r.footer /\ n.path = r.path /\ n.source = r.source
      /\ n.todo = todo /\ n.mode = r.mode /\ n.op = op
  BY <1>1 DEF States
<1>5. Goes(h, n)
  BY DEF Footers, todo
<1>. HIDE DEF n
<1>6. Shape(n)
  BY <1>1, <1>2, <1>4 DEF Shape, Creating, ReadingStages
<1>7. Careful(h, n)
  BY <1>2, <1>4 DEF Careful, WriterOK, ReaderOK, OpenedOK, Creating, ReadingStages
<1>8. QED
  BY <1>3, <1>5, <1>6, <1>7, QuietStep DEF Quiet

\* flush begins.
LEMMA FlushStep ==
    ASSUME Inv, NEW h \in Handles, Flush(h)
    PROVE  Inv'
BY FootersStep DEF Flush

\* Drop begins, or is done.
LEMMA DropStep ==
    ASSUME Inv, NEW h \in Handles, Drop(h)
    PROVE  Inv'
<1>1. CASE handle[h].mode = "created"
  BY <1>1, FootersStep DEF Drop
<1>2. CASE handle[h].mode # "created"
  <2>1. Ends(h)
    BY <1>2 DEF Drop, Ends
  <2>2. QED
    BY <2>1, EndsStep
<1>3. QED
  BY <1>1, <1>2

\* debug_check! of a write panics.
LEMMA PanicStep ==
    ASSUME Inv, NEW h \in Handles, Goes(h, [handle[h] EXCEPT !.stage = "panicked"]),
           handle[h].stage = "ready", handle[h].mode = "created",
           UNCHANGED <<files, images, owner, soiled, returned>>
    PROVE  Inv'
<1>. DEFINE r == handle[h]
            n == [r EXCEPT !.stage = "panicked"]
<1>1. r \in States /\ Shape(r) /\ HandleOK(r)
  BY InvParts
<1>2. n \in States
  BY <1>1 DEF States, Stages
<1>3. /\ n.stage = "panicked" /\ n.footer = r.footer /\ n.path = r.path /\ n.source = r.source
      /\ n.todo = r.todo /\ n.mode = r.mode /\ n.op = r.op
  BY <1>1 DEF States
<1>. HIDE DEF n
<1>4. Shape(n)
  BY <1>1, <1>3 DEF Shape, Creating, ReadingStages
<1>5. Careful(h, n)
  BY <1>3 DEF Careful, WriterOK, ReaderOK, OpenedOK, Creating, ReadingStages
<1>6. QED
  BY <1>2, <1>4, <1>5, QuietStep DEF Quiet, n

-----------------------------------------------------------------------------
(* Steps that write to a file *)

\* How a step leaves a file of h that has only been written to for its image: in the same state
\* for the handle as n, and open to others only when it is whole.
LeavesFile(r, n, g) ==
    /\ (Opens(g) \/ r.footer \in returned') => Whole(g, r.footer)
    /\ n # Free => IF Creating(n) THEN Building(g, r.footer, n.todo) ELSE Whole(g, r.footer)

\* A handle that is told only that its file was written to.
SameButRaced(s, m) ==
    /\ s.stage = m.stage /\ s.op = m.op /\ s.path = m.path /\ s.source = m.source
    /\ s.type = m.type /\ s.asked = m.asked /\ s.footer = m.footer /\ s.header = m.header
    /\ s.bat = m.bat /\ s.mode = m.mode /\ s.todo = m.todo
    /\ ~s.raced => s = m

\* What becomes of a handle when another one writes to p.
LEMMA Raced ==
    ASSUME NEW m \in States, Shape(m), NEW p,
           NEW s \in {m, [m EXCEPT !.raced = TRUE]},
           m.stage \in ReadingStages /\ m.source = p => s = [m EXCEPT !.raced = TRUE]
    PROVE  /\ s \in States /\ Shape(s) /\ SameButRaced(s, m)
           /\ ~s.raced /\ s.stage \in ReadingStages => s.source # p
           /\ s # m => s.raced # m.raced
<1>1. CASE s = m /\ ~(m.stage \in ReadingStages /\ m.source = p)
  BY <1>1 DEF SameButRaced
<1>2. CASE s = [m EXCEPT !.raced = TRUE]
  <2>1. s \in States /\ SameButRaced(s, m) /\ s.raced = TRUE /\ m.raced \in BOOLEAN
    BY <1>2 DEF States, SameButRaced
  <2>2. Shape(s)
    BY <2>1 DEF SameButRaced, Shape, Creating, MayTruncate
  <2>3. m.raced = TRUE => s = m
    BY <1>2 DEF States
  <2>4. QED
    BY <2>1, <2>2, <2>3
<1>3. QED
  BY <1>1, <1>2

\* A step of h that puts sectors into its file: an older image's handle soils it, and the
\* others see that it was written to.
LEMMA PutsStep ==
    ASSUME Inv, NEW h \in Handles, handle[h].mode = "created",
           NEW sector \in Nat, NEW parts \in Seq(Sectors), NEW n \in States, Shape(n),
           Puts(h, sector, parts, n),
           returned' \in {returned, returned \cup {handle[h].footer}},
           \/ n = Free
           \/ /\ n.footer = handle[h].footer /\ n.path = handle[h].path
              /\ n.mode = handle[h].mode,
           Owns(handle[h]) =>
              LeavesFile(handle[h], n, Put(files[handle[h].path], sector, parts)),
           Creating(n) => n.footer \notin returned',
           n.stage = "write" /\ ~Creating(n) => IsFooters(n.footer, n.todo)
    PROVE  Inv'
<1>. DEFINE r == handle[h]
            p == r.path
            f == files[p]
            g == Put(f, sector, parts)
<1>1. /\ r \in States /\ Shape(r) /\ HandleOK(r) /\ p \in Paths /\ r.footer \in Ids
      /\ f \in Seq(Sectors)
  BY InvParts DEF Shape
<1>2. /\ files' = [files EXCEPT ![p] = g] /\ images' = images /\ owner' = owner
      /\ soiled' = IF r.footer = owner[p] \/ parts = << >> THEN soiled ELSE soiled \cup {p}
      /\ GoesAndWrites(h, n, p)
  BY DEF Puts
<1>3. g \in Seq(Sectors) /\ (parts = << >> => g = f)
  <2>1. g \in Seq(Sectors)
    BY <1>1, PutSectors
  <2>2. ASSUME parts = << >> PROVE g = f
    <3>1. \A k \in 1 .. Len(parts) : sector + k <= Len(f) /\ f[sector + k] = parts[k]
      BY <2>2
    <3>2. QED
      BY <1>1, <3>1, PutSame
  <2>3. QED
    BY <2>1, <2>2
<1>. HIDE DEF g
<1>4. /\ files' \in [Paths -> Seq(Sectors)] /\ files'[p] = g
      /\ \A q \in Paths : q # p => files'[q] = files[q]
  BY <1>1, <1>2, <1>3, InvParts
<1>5. ImagesKept /\ Ids' = Ids
  BY <1>2 DEF ImagesKept, Ids
<1>6. handle'[h] = n /\ handle' = [k \in Handles |-> handle'[k]]
  BY <1>2 DEF GoesAndWrites
<1>7. \A k \in Handles : k # h =>
         /\ handle'[k] \in States /\ Shape(handle'[k]) /\ SameButRaced(handle'[k], handle[k])
         /\ ~handle'[k].raced /\ handle'[k].stage \in ReadingStages => handle'[k].source # p
  <2>1. SUFFICES ASSUME NEW k \in Handles, k # h
                 PROVE  /\ handle'[k] \in States /\ Shape(handle'[k])
                        /\ SameButRaced(handle'[k], handle[k])
                        /\ ~handle'[k].raced /\ handle'[k].stage \in ReadingStages
                              => handle'[k].source # p
    OBVIOUS
  <2>2. handle'[k] = IF k = h THEN n
                     ELSE IF handle[k].stage \in ReadingStages /\ handle[k].source = p
                     THEN [handle[k] EXCEPT !.raced = TRUE] ELSE handle[k]
    BY <1>2 DEF GoesAndWrites
  <2>3. handle[k] \in States /\ Shape(handle[k])
    BY InvParts
  <2>. DEFINE m == handle[k]
              s == handle'[k]
  <2>. HIDE DEF m, s
  <2>4. s = IF k = h THEN n
            ELSE IF m.stage \in ReadingStages /\ m.source = p
            THEN [m EXCEPT !.raced = TRUE] ELSE m
    BY <2>2 DEF m, s
  <2>5. /\ s \in {m, [m EXCEPT !.raced = TRUE]}
        /\ m.stage \in ReadingStages /\ m.source = p => s = [m EXCEPT !.raced = TRUE]
    BY <2>1, <2>4
  <2>6. m \in States /\ Shape(m)
    BY <2>3 DEF m
  <2>7. /\ s \in States /\ Shape(s) /\ SameButRaced(s, m)
        /\ ~s.raced /\ s.stage \in ReadingStages => s.source # p
    BY <2>5, <2>6, Raced
  <2>8. QED
    BY <2>7 DEF m, s
<1>8. \A k \in Handles : handle'[k] \in States /\ Shape(handle'[k])
  BY <1>6, <1>7
<1>9. handle' \in [Handles -> States]
  BY <1>6, <1>8
<1>10. TypeInv'
  <2>1. (ImagesOK)'
    BY <1>2, InvParts DEF ImagesOK, Images, Ids, SizesAreRight, IsSparse
  <2>2. files' \in [Paths -> Seq(Sectors')]
    BY <1>4, <1>5, TypesKept
  <2>3. handle' \in [Handles -> States']
    BY <1>5, <1>9, TypesKept
  <2>4. \A k \in Handles : (Shape(handle[k]))'
    BY <1>5, <1>8, TypesKept
  <2>5. owner' \in [Paths -> {NoImage} \cup Ids'] /\ soiled' \subseteq Paths /\ returned' \subseteq Ids'
    BY <1>1, <1>2, <1>5, InvParts
  <2>6. QED
    BY <2>1, <2>2, <2>3, <2>4, <2>5 DEF TypeInv

<1>11. Owns(r) => (Opens(g) \/ r.footer \in returned' => Whole(g, r.footer))
  BY DEF LeavesFile, g
<1>12. ASSUME NEW k \in Handles, NEW q \in Paths, handle[k].mode = "created", owner[q] = handle[k].footer
       PROVE  q = handle[k].path
  BY <1>12, InvParts DEF OneWriter
<1>13. ASSUME NEW q \in Paths \ soiled', Opens(files'[q]) \/ owner[q] \in returned'
       PROVE  owner[q] \in Ids /\ Whole(files'[q], owner[q])
  <2>1. q \notin soiled
    BY <1>2, <1>13
  <2>2. Opens(files[q]) \/ owner[q] \in returned => owner[q] \in Ids /\ Whole(files[q], owner[q])
    BY <2>1, InvParts DEF OpensIsWhole
  <2>3. CASE owner[q] = r.footer
    <3>1. q = p
      BY <1>1, <1>12, <2>3
    <3>2. Owns(r)
      BY <2>1, <2>3, <3>1 DEF Owns
    <3>3. QED
      BY <1>1, <1>4, <1>11, <1>13, <2>3, <3>1, <3>2
  <2>4. CASE owner[q] # r.footer
    <3>1. owner[q] \in returned' => owner[q] \in returned
      BY <2>4
    <3>2. files'[q] = files[q]
      <4>1. CASE q # p
        BY <1>4, <4>1
      <4>2. CASE q = p
        <5>1. parts = << >>
          BY <1>1, <1>2, <1>13, <2>4, <4>2
        <5>2. QED
          BY <1>3, <1>4, <4>2, <5>1
      <4>3. QED
        BY <4>1, <4>2
    <3>3. QED
      BY <1>13, <2>2, <3>1, <3>2
  <2>5. QED
    BY <2>3, <2>4
<1>14. OpensIsWhole'
  <2>1. SUFFICES ASSUME NEW q \in Paths \ soiled', (Opens(files[q]))' \/ owner[q] \in returned'
                 PROVE  owner[q] \in Ids /\ (Whole(files[q], owner[q]))'
    BY <1>2, <1>5 DEF OpensIsWhole
  <2>2. files'[q] \in Seq(Sectors)
    BY <1>4
  <2>3. Opens(files'[q]) \/ owner[q] \in returned'
    BY <1>5, <2>1, <2>2, OpensKept
  <2>4. owner[q] \in Ids /\ Whole(files'[q], owner[q])
    BY <1>13, <2>3
  <2>5. QED
    BY <1>2, <1>5, <2>4, ContentsKept
<1>15. OneWriter'
  <2>1. \A k \in Handles : handle'[k].mode = "created" =>
           /\ handle[k].mode = "created" /\ handle'[k].footer = handle[k].footer
           /\ handle'[k].path = handle[k].path
    <3>1. Free.mode # "created"
      BY DEF Free
    <3>2. QED
      BY <1>6, <1>7, <3>1 DEF SameButRaced
  <2>2. OneWriter
    BY InvParts
  <2>3. QED
    BY <1>2, <2>1, <2>2 DEF OneWriter
<1>16. ASSUME NEW k \in Handles, k # h, NEW m, m = handle'[k]
       PROVE  (HandleOK(m))'
  <2>. DEFINE o == handle[k]
  <2>1. SameButRaced(m, o) /\ Shape(m)
        /\ (~m.raced /\ m.stage \in ReadingStages => m.source # p)
    BY <1>7, <1>16
  <2>2. /\ m.stage = o.stage /\ m.op = o.op /\ m.path = o.path /\ m.source = o.source
        /\ m.footer = o.footer /\ m.header = o.header /\ m.bat = o.bat
        /\ m.mode = o.mode /\ m.todo = o.todo /\ (~m.raced => m = o)
    BY <2>1 DEF SameButRaced
  <2>3. Shape(o) /\ HandleOK(o)
    BY InvParts
  <2>. HIDE DEF o
  <2>4. (OwnerOK(m))'
    <3>1. SUFFICES ASSUME (Owns(m))'
                   PROVE  IF Creating(m) THEN (Building(files[m.path], m.footer, m.todo))'
                          ELSE (Whole(files[m.path], m.footer))'
      BY DEF OwnerOK, Creating
    <3>2. m.mode = "created" /\ m.footer = owner[m.path] /\ m.path \notin soiled'
      BY <1>2, <3>1 DEF Owns
    <3>3. m.path \in Paths /\ m.footer \in Ids
      BY <2>1, <3>2 DEF Shape
    <3>4. Owns(o)
      BY <1>2, <2>1, <2>2, <3>2 DEF Owns
    <3>5. files'[m.path] = files[m.path]
      <4>1. CASE m.path # p
        BY <1>4, <3>3, <4>1
      <4>2. CASE m.path = p
        <5>1. o.footer # r.footer
          <6>1. o.mode = "created"
            BY <2>1, <2>2, <3>2
          <6>2. QED
            BY <1>16, <6>1, InvParts DEF OneWriter, o
        <5>2. parts = << >>
          BY <1>1, <1>2, <2>1, <2>2, <3>2, <4>2, <5>1
        <5>3. QED
          BY <1>3, <1>4, <4>2, <5>2
      <4>3. QED
        BY <4>1, <4>2
    <3>6. IF Creating(m) THEN Building(files[m.path], m.footer, m.todo)
          ELSE Whole(files[m.path], m.footer)
      <4>1. OwnerOK(o)
        BY <2>3 DEF HandleOK
      <4>2. QED
        BY <2>1, <2>2, <3>4, <4>1 DEF OwnerOK, Creating
    <3>7. QED
      BY <1>5, <3>3, <3>5, <3>6, ContentsKept
  <2>5. (WriterOK(m))'
    <3>1. Creating(m) => m.footer \notin returned'
      <4>1. SUFFICES ASSUME Creating(m), m.footer \in returned' PROVE FALSE
        OBVIOUS
      <4>2. Creating(o) /\ o.mode = "created"
        BY <2>1, <2>2, <2>3, <4>1 DEF Creating, Shape
      <4>3. o.footer \notin returned
        BY <2>3, <4>2 DEF HandleOK, WriterOK
      <4>4. o.footer # r.footer
        BY <1>16, <4>2, InvParts DEF OneWriter, o
      <4>5. QED
        BY <2>1, <2>2, <4>1, <4>3, <4>4
    <3>2. m.stage = "write" /\ ~Creating(m) => m.footer \in Ids /\ IsFooters(m.footer, m.todo)
      BY <2>1, <2>2, <2>3 DEF HandleOK, WriterOK, Creating, Shape
    <3>3. QED
      BY <1>5, <3>1, <3>2, ContentsKept DEF WriterOK, Creating
  <2>6. (ReaderOK(m))'
    <3>1. SUFFICES ASSUME m.stage \in ReadingStages, ~m.raced
                   PROVE  (ReaderOK(m))'
      BY DEF ReaderOK
    <3>2. m = o /\ m.source # p /\ m.source \in Paths
      BY <2>1, <2>2, <2>3, <3>1 DEF Shape
    <3>3. files'[m.source] = files[m.source]
      BY <1>4, <3>2
    <3>4. ReaderOK(m)
      BY <2>3, <3>2 DEF HandleOK
    <3>5. m.source \notin soiled'
      BY <1>2, <3>1, <3>2, <3>4 DEF ReaderOK
    <3>6. files[m.source] \in Seq(Sectors)
      BY <3>2, InvParts
    <3>7. QED
      BY <1>2, <1>5, <3>1, <3>3, <3>4, <3>5, <3>6 DEF ReaderOK, EndsInFooter, HasHeader
  <2>7. (OpenedOK(m))'
    <3>1. OpenedOK(m)
      BY <2>1, <2>2, <2>3 DEF HandleOK, OpenedOK
    <3>2. QED
      BY <1>2, <3>1 DEF OpenedOK, IsSparse, BatSectors
  <2>8. QED
    BY <2>4, <2>5, <2>6, <2>7 DEF HandleOK
<1>17. (HandleOK(n))'
  <2>1. n = Free => /\ n.mode = "none" /\ n.stage = "free"
    BY DEF Free
  <2>2. n # Free => n.mode = "created" /\ n.stage \notin ReadingStages
    BY DEF Shape, ReadingStages
  <2>3. (OwnerOK(n))'
    <3>1. SUFFICES ASSUME (Owns(n))'
                   PROVE  IF Creating(n) THEN (Building(files[n.path], n.footer, n.todo))'
                          ELSE (Whole(files[n.path], n.footer))'
      BY DEF OwnerOK, Creating
    <3>2. n.mode = "created" /\ n.footer = owner[n.path] /\ n.path \notin soiled'
      BY <1>2, <3>1 DEF Owns
    <3>3. n # Free
      BY <2>1, <3>2
    <3>4. n.path = p /\ n.footer = r.footer
      BY <3>3
    <3>5. Owns(r)
      BY <1>2, <3>2, <3>4 DEF Owns
    <3>6. IF Creating(n) THEN Building(g, r.footer, n.todo) ELSE Whole(g, r.footer)
      BY <3>3, <3>5 DEF LeavesFile, g
    <3>7. QED
      BY <1>1, <1>4, <1>5, <3>4, <3>6, ContentsKept
  <2>4. (WriterOK(n))'
    <3>1. n.stage = "write" => n.footer \in Ids
      BY DEF Shape
    <3>2. QED
      BY <1>5, <3>1, ContentsKept DEF WriterOK, Creating
  <2>5. (ReaderOK(n))' /\ (OpenedOK(n))'
    BY <2>1, <2>2 DEF ReaderOK, OpenedOK, ReadingStages
  <2>6. QED
    BY <2>3, <2>4, <2>5 DEF HandleOK
<1>18. HandlesOK'
  <2>1. (HandleOK(handle[h]))'
    <3>1. \A m : m = n => (HandleOK(m))'
      BY <1>17
    <3>2. QED
      BY <1>6, <3>1
  <2>2. \A k \in Handles : (HandleOK(handle[k]))'
    <3>1. \A k \in Handles : \A m : k # h /\ m = handle'[k] => (HandleOK(m))'
      BY <1>16
    <3>2. QED
      BY <2>1, <3>1
  <2>3. QED
    BY <2>2 DEF HandlesOK, HandleOK
<1>19. QED
  BY <1>10, <1>14, <1>15, <1>18 DEF Inv, FileInv

\* What a write step puts, and how its handle goes on.
LEMMA WriteDone ==
    ASSUME Inv, NEW h \in Handles, WriteStep(h)
    PROVE  LET r == handle[h]
               w == r.todo[1]
               f == files[r.path]
           IN  /\ r \in States /\ Shape(r) /\ HandleOK(r) /\ r.stage = "write" /\ r.mode = "created"
               /\ r.path \in Paths /\ r.footer \in Ids /\ r.op \in {"create", "flush", "drop"}
               /\ f \in Seq(Sectors) /\ w \in Writes /\ r.todo \in Seq(Writes) /\ r.todo # << >>
               /\ \E parts \in Seq(Sectors), n \in {NextWrite(r), AfterError(r)} :
                     /\ Puts(h, w.at, parts, n) /\ Returns(h, n) /\ Leaves(f, w, parts)
                     /\ \/ parts = w.parts /\ n = NextWrite(r)
                        \/ IsCut(f, w, parts) /\ n = AfterError(r)
<1>. DEFINE r == handle[h]
            w == r.todo[1]
            f == files[r.path]
<1>1. /\ r \in States /\ Shape(r) /\ HandleOK(r) /\ r.stage = "write"
  BY InvParts DEF WriteStep
<1>2. /\ r.mode = "created" /\ r.path \in Paths /\ r.footer \in Ids
      /\ r.op \in {"create", "flush", "drop"} /\ f \in Seq(Sectors)
  BY <1>1, InvParts DEF Shape
<1>3. Head(r.todo) = w /\ w \in Writes /\ r.todo \in Seq(Writes) /\ r.todo # << >>
      /\ w.parts \in Seq(Sectors)
  <2>1. Head(r.todo) \in Writes /\ Head(r.todo) = r.todo[1] /\ r.todo # << >>
        /\ Head(r.todo).parts \in Seq(Sectors)
    BY <1>1, TodoTypes
  <2>2. r.todo \in Seq(Writes)
    BY <1>1 DEF States
  <2>3. QED
    BY <2>1, <2>2
<1>4. \/ Puts(h, w.at, w.parts, NextWrite(r)) /\ Returns(h, NextWrite(r))
      \/ \E parts \in Cuts(f, w) : Puts(h, w.at, parts, AfterError(r)) /\ Returns(h, AfterError(r))
  BY <1>3 DEF WriteStep
<1>. HIDE DEF f, w, r
<1>5. Leaves(f, w, w.parts) /\ \A parts \in Cuts(f, w) : Leaves(f, w, parts) /\ IsCut(f, w, parts)
  BY <1>2, <1>3, CutsLeave
<1>6. \E parts \in Seq(Sectors), n \in {NextWrite(r), AfterError(r)} :
         /\ Puts(h, w.at, parts, n) /\ Returns(h, n) /\ Leaves(f, w, parts)
         /\ \/ parts = w.parts /\ n = NextWrite(r)
            \/ IsCut(f, w, parts) /\ n = AfterError(r)
  <2>1. CASE Puts(h, w.at, w.parts, NextWrite(r)) /\ Returns(h, NextWrite(r))
    BY <1>3, <1>5, <2>1
  <2>2. CASE \E parts \in Cuts(f, w) : Puts(h, w.at, parts, AfterError(r)) /\ Returns(h, AfterError(r))
    <3>1. PICK parts \in Cuts(f, w) : Puts(h, w.at, parts, AfterError(r)) /\ Returns(h, AfterError(r))
      BY <2>2
    <3>2. Leaves(f, w, parts) /\ IsCut(f, w, parts) /\ parts \in Seq(Sectors)
      BY <1>5, <3>1 DEF Leaves
    <3>3. QED
      BY <3>1, <3>2
  <2>3. QED
    BY <1>4, <2>1, <2>2
<1>7. QED
  BY <1>1, <1>2, <1>3, <1>6 DEF f, w, r

\* A write of create_*, flush or Drop, done, or failed and torn.
LEMMA WriteStepKeeps ==
    ASSUME Inv, NEW h \in Handles, WriteStep(h)
    PROVE  Inv'
<1>. DEFINE r == handle[h]
            w == r.todo[1]
            f == files[r.path]
<1>1. /\ r \in States /\ Shape(r) /\ HandleOK(r) /\ r.stage = "write" /\ r.mode = "created"
      /\ r.path \in Paths /\ r.footer \in Ids /\ r.op \in {"create", "flush", "drop"}
      /\ f \in Seq(Sectors) /\ w \in Writes /\ r.todo \in Seq(Writes) /\ r.todo # << >>
  BY WriteDone
<1>2. PICK parts \in Seq(Sectors), n \in {NextWrite(r), AfterError(r)} :
         /\ Puts(h, w.at, parts, n) /\ Returns(h, n) /\ Leaves(f, w, parts)
         /\ \/ parts = w.parts /\ n = NextWrite(r)
            \/ IsCut(f, w, parts) /\ n = AfterError(r)
  BY WriteDone
<1>. DEFINE g == Put(f, w.at, parts)
<1>3. returned' = IF r.op = "create" /\ n.stage = "ready" THEN returned \cup {n.footer} ELSE returned
  BY <1>2 DEF Returns
<1>4. w.at \in Nat /\ w.parts \in Seq(Sectors) /\ w.parts # << >>
  BY <1>1, TodoTypes
<1>5. /\ \A j \in 1 .. Len(r.todo) - 1 : Tail(r.todo)[j] = r.todo[j + 1]
      /\ Len(Tail(r.todo)) = Len(r.todo) - 1 /\ Len(r.todo) \in Nat \ {0}
  BY <1>1, TodoTypes
<1>. HIDE DEF r, w, f, g
<1>6. /\ n \in States /\ Shape(n)
      /\ \/ n = Free
         \/ /\ n.footer = r.footer /\ n.path = r.path /\ n.source = r.source
            /\ n.mode = r.mode /\ n.raced = r.raced
            /\ \/ n.stage = "ready" /\ n.op = "none"
               \/ /\ n.stage = "write" /\ n.op = r.op /\ n.todo = Tail(r.todo)
                  /\ Len(r.todo) > 1
  BY <1>1, AfterWrite
<1>7. Free.stage = "free" /\ Free.op = "none"
  BY DEF Free
<1>8. returned' \in {returned, returned \cup {r.footer}}
  BY <1>3, <1>6, <1>7
<1>9. Creating(n) => Creating(r) /\ n.footer = r.footer /\ returned' = returned
  BY <1>1, <1>3, <1>6, <1>7 DEF Creating
<1>10. Creating(r) => r.footer \notin returned
  BY <1>1 DEF HandleOK, WriterOK
<1>11. ASSUME n.stage = "write", ~Creating(n) PROVE IsFooters(n.footer, n.todo)
  <2>1. n.footer = r.footer /\ n.op = r.op /\ n.todo = Tail(r.todo)
    BY <1>6, <1>7, <1>11
  <2>2. IsFooters(r.footer, r.todo)
    BY <1>1, <1>11, <2>1 DEF Creating, HandleOK, WriterOK
  <2>3. \A j \in 1 .. Len(r.todo) - 1 : j + 1 \in 1 .. Len(r.todo)
    BY <1>5
  <2>4. IsFooters(r.footer, Tail(r.todo))
    BY <1>5, <2>2, <2>3 DEF IsFooters
  <2>5. QED
    BY <2>1, <2>4
<1>12. /\ Len(r.todo) = 1 \/ Len(r.todo) > 1
       /\ Len(r.todo) > 1 => Len(r.todo) # 1
  <2>1. \A k \in Nat \ {0} : (k = 1 \/ k > 1) /\ (k > 1 => k # 1)
    OBVIOUS
  <2>2. QED
    BY <1>5, <2>1, Zenon
<1>13. ASSUME Creating(r), Building(f, r.footer, r.todo) PROVE LeavesFile(r, n, g)
  <2>1. r.op = "create" /\ Len(r.todo) >= 1
    BY <1>5, <1>13 DEF Creating
  <2>2. CASE n = NextWrite(r) /\ Len(r.todo) > 1 /\ (parts = w.parts \/ w.parts[1].is = "Bat")
    <3>1. n = [r EXCEPT !.todo = Tail(r.todo)]
      BY <1>12, <2>2, Zenon DEF NextWrite
    <3>2. n.todo = Tail(r.todo) /\ Creating(n)
      BY <1>1, <1>13, <3>1 DEF States, Creating
    <3>3. Building(g, r.footer, Tail(r.todo))
      BY <1>1, <1>2, <1>13, <2>2, InvParts, WriteGoesOn DEF g, w
    <3>4. g \in Seq(Sectors)
      BY <1>1, <1>4, PutSectors DEF g
    <3>5. ~Opens(g)
      BY <1>1, <3>3, <3>4, InvParts, BuildingRefused DEF Opens
    <3>6. QED
      BY <1>9, <1>10, <3>2, <3>3, <3>5 DEF LeavesFile
  <2>3. CASE n = NextWrite(r) /\ parts = w.parts /\ Len(r.todo) = 1
    <3>1. Whole(g, r.footer)
      BY <1>1, <1>13, <2>3, InvParts, LastWrite DEF g, w
    <3>2. ~Creating(n)
      BY <1>6, <1>7, <2>3 DEF Creating
    <3>3. QED
      BY <3>1, <3>2 DEF LeavesFile
  <2>4. CASE n = AfterError(r) /\ w.parts[1].is = "Bat"
    <3>1. Head(r.todo) = w
      BY <1>1, TodoTypes DEF w
    <3>2. n = NextWrite(r)
      BY <2>4, <3>1 DEF AfterError
    <3>3. Len(r.todo) # 1
      <4>1. SUFFICES ASSUME Len(r.todo) = 1 PROVE FALSE
        OBVIOUS
      <4>2. w = FooterWrite(r.footer)
        BY <1>13, <4>1 DEF Building, w
      <4>3. w.parts = << Part("Footer", r.footer) >>
        BY <4>2 DEF FooterWrite, At
      <4>4. w.parts[1].is = "Footer"
        BY <4>3 DEF Part
      <4>5. QED
        BY <2>4, <4>4
    <3>4. Len(r.todo) > 1
      BY <1>12, <3>3, Zenon
    <3>5. QED
      BY <2>2, <2>4, <3>2, <3>4, Zenon
  <2>5. CASE n = AfterError(r) /\ w.parts[1].is # "Bat" /\ IsCut(f, w, parts)
    <3>1. Head(r.todo) = w
      BY <1>1, TodoTypes DEF w
    <3>2. n = Free
      BY <2>1, <2>5, <3>1 DEF AfterError
    <3>3. ~Opens(g)
      BY <1>1, <1>2, <1>13, <2>5, InvParts, CutRefused DEF g, w, Opens
    <3>4. r.footer \notin returned'
      BY <1>3, <1>7, <1>10, <1>13, <3>2
    <3>5. QED
      BY <3>2, <3>3, <3>4 DEF LeavesFile
  <2>6. (parts = w.parts /\ n = NextWrite(r)) \/ (n = AfterError(r) /\ IsCut(f, w, parts))
    BY <1>2
  <2>7. QED
    BY <1>12, <2>2, <2>3, <2>4, <2>5, <2>6, Zenon
<1>14. ASSUME ~Creating(r), Whole(f, r.footer) PROVE LeavesFile(r, n, g)
  <2>1. IsFooters(r.footer, r.todo)
    BY <1>1, <1>14 DEF HandleOK, WriterOK
  <2>2. g = f
    BY <1>1, <1>2, <1>14, <2>1, InvParts, FootersKeep DEF g, w
  <2>3. QED
    BY <1>9, <1>14, <2>2 DEF LeavesFile
<1>15. ASSUME Owns(r) PROVE LeavesFile(r, n, g)
  <2>1. IF Creating(r) THEN Building(f, r.footer, r.todo) ELSE Whole(f, r.footer)
    BY <1>1, <1>15 DEF HandleOK, OwnerOK, f
  <2>2. QED
    BY <1>13, <1>14, <2>1
<1>16. QED
  <2>1. handle[h].mode = "created" /\ Puts(h, w.at, parts, n)
    BY <1>1, <1>2 DEF r
  <2>2. returned' \in {returned, returned \cup {handle[h].footer}}
    BY <1>8 DEF r
  <2>3. n = Free \/ (n.footer = handle[h].footer /\ n.path = handle[h].path
                     /\ n.mode = handle[h].mode)
    BY <1>6 DEF r
  <2>4. Owns(handle[h]) => LeavesFile(handle[h], n, Put(files[handle[h].path], w.at, parts))
    BY <1>15 DEF r, f, g
  <2>5. Creating(n) => n.footer \notin returned'
    BY <1>9, <1>10
  <2>6. QED
    BY <1>4, <1>6, <1>11, <2>1, <2>2, <2>3, <2>4, <2>5, PutsStep

\* A write of data.
LEMMA WriteAtStep ==
    ASSUME Inv, NEW h \in Handles, NEW sector \in DataSectors, WriteAt(h, sector)
    PROVE  Inv'
<1>. DEFINE r == handle[h]
            f == files[r.path]
            parts == << Part("Data", r.footer) >>
<1>1. /\ r \in States /\ Shape(r) /\ HandleOK(r) /\ r.stage = "ready" /\ r.mode = "created"
      /\ ~IsSparse(r.footer) /\ sector < images[r.footer].blocks * SectorsPerBlock
  BY InvParts DEF WriteAt
<1>2. r.path \in Paths /\ r.footer \in Ids /\ f \in Seq(Sectors) /\ ~Creating(r)
  BY <1>1, InvParts DEF Shape, Creating
<1>3. sector \in Nat /\ sector < End(r.footer)
  BY <1>1, <1>2, InvParts, Layout, ImageFilesAssumption
<1>4. CASE /\ Goes(h, [r EXCEPT !.stage = "panicked"])
           /\ UNCHANGED <<files, images, owner, soiled, returned>>
  BY <1>1, <1>4, PanicStep
<1>5. CASE Puts(h, sector, parts, r) /\ UNCHANGED returned
  <2>1. parts \in Seq(Sectors)
    BY <1>2, PartTypes DEF Parts
  <2>2. ASSUME Owns(r) PROVE LeavesFile(r, r, Put(f, sector, parts))
    <3>1. Whole(f, r.footer)
      BY <1>1, <1>2, <2>2 DEF HandleOK, OwnerOK
    <3>2. Whole(Put(f, sector, parts), r.footer)
      BY <1>1, <1>2, <1>3, <3>1, InvParts, DataKeeps
    <3>3. QED
      BY <1>2, <3>2 DEF LeavesFile
  <2>3. r.stage # "write" /\ returned' = returned
    BY <1>1, <1>5
  <2>. HIDE DEF parts
  <2>4. QED
    BY <1>1, <1>2, <1>3, <1>5, <2>1, <2>2, <2>3, PutsStep
<1>6. QED
  BY <1>4, <1>5 DEF WriteAt

-----------------------------------------------------------------------------
(* Truncate: an image begins *)

\* The image that is added is as large as it may be, and its parent is there.
LEMMA ImageAdded ==
    ASSUME ImagesOK, NEW r \in States, MayTruncate(r), Len(images) + 1 <= MaxImages,
           images' = Append(images, [type |-> r.type, parent |-> r.footer, blocks |-> DiskBlocks(r)])
    PROVE  /\ ImagesKept /\ (ImagesOK)' /\ Len(images) + 1 \in Ids' /\ Len(images) + 1 \notin Ids
           /\ Len(images) + 1 # NoImage
<1>. DEFINE id == Len(images) + 1
            img == [type |-> r.type, parent |-> r.footer, blocks |-> DiskBlocks(r)]
<1>1. images \in Seq(Images) /\ Len(images) \in Nat
  BY DEF ImagesOK
<1>2. /\ r.type \in Types /\ r.footer \in {NoImage} \cup Ids /\ r.asked \in Nat
      /\ r.type = "Diff" => /\ r.footer \in Ids /\ IsSparse(r.footer)
      /\ r.type # "Diff" => r.footer = NoImage /\ BlocksFor(r.asked) <= MaxBlocks
  BY DEF States, MayTruncate, Types
<1>3. NoImage = 0 /\ Ids = 1 .. Len(images)
  BY DEF NoImage, Ids
<1>4. DiskBlocks(r) \in 0 .. MaxBlocks
  <2>1. CASE r.type = "Diff"
    <3>1. images[r.footer] \in Images
      BY <1>1, <1>2, <1>3, <2>1
    <3>2. QED
      BY <2>1, <3>1 DEF DiskBlocks, Images
  <2>2. CASE r.type # "Diff"
    <3>1. BlocksFor(r.asked) \in Nat /\ BlocksFor(r.asked) <= MaxBlocks
      BY <1>2, <2>2, BlocksType
    <3>2. DiskBlocks(r) = BlocksFor(r.asked)
      BY <2>2 DEF DiskBlocks
    <3>3. QED
      BY <3>1, <3>2, ImageFilesAssumption
  <2>3. QED
    BY <2>1, <2>2
<1>5. img \in Images
  <2>1. r.footer \in Nat
    BY <1>1, <1>2, <1>3
  <2>2. QED
    BY <1>2, <1>4, <2>1 DEF Images
<1>6. img.type = r.type /\ img.parent = r.footer /\ img.blocks = DiskBlocks(r)
  OBVIOUS
<1>. HIDE DEF img
<1>7. /\ images' \in Seq(Images) /\ Len(images') = id
      /\ \A k \in 1 .. Len(images) : images'[k] = images[k]
      /\ images'[id] = img
  BY <1>1, <1>5 DEF img
<1>8. /\ Ids' = Ids \cup {id} /\ id \notin Ids /\ id # NoImage
  BY <1>1, <1>3, <1>7 DEF Ids
<1>9. ImagesKept
  BY <1>3, <1>7, <1>8 DEF ImagesKept
<1>10. ASSUME NEW k \in Ids'
       PROVE  /\ images'[k].type = "Diff" <=> images'[k].parent # NoImage
              /\ images'[k].parent \in {NoImage} \cup Ids'
              /\ images'[k].blocks <= MaxBlocks
              /\ images'[k].type = "Diff" =>
                    /\ (IsSparse(images[k].parent))'
                    /\ images'[k].blocks = images'[images'[k].parent].blocks
  <2>1. CASE k \in Ids
    <3>. DEFINE q == images[k].parent
    <3>1. /\ images[k].type = "Diff" <=> q # NoImage
          /\ q \in {NoImage} \cup Ids /\ images[k].blocks <= MaxBlocks
          /\ images[k].type = "Diff" => IsSparse(q) /\ images[k].blocks = images[q].blocks
      BY <2>1 DEF ImagesOK, SizesAreRight
    <3>2. images'[k] = images[k] /\ \A j \in Ids : images'[j] = images[j]
      BY <1>3, <1>7, <2>1
    <3>3. images[k].type = "Diff" => (IsSparse(q))' /\ images'[q] = images[q]
      <4>1. images[k].type = "Diff" => q \in Ids
        BY <3>1
      <4>2. QED
        BY <3>1, <3>2, <4>1 DEF IsSparse
    <3>4. QED
      BY <1>8, <3>1, <3>2, <3>3
  <2>2. CASE k = id
    <3>1. images'[k] = img
      BY <1>7, <2>2
    <3>2. r.type = "Diff" <=> r.footer # NoImage
      BY <1>2, <1>3, <1>1
    <3>3. ASSUME r.type = "Diff"
          PROVE  /\ (IsSparse(r.footer))' /\ images'[r.footer] = images[r.footer]
                 /\ DiskBlocks(r) = images[r.footer].blocks
      BY <1>2, <1>3, <1>7, <3>3 DEF IsSparse, DiskBlocks
    <3>4. img.blocks <= MaxBlocks
      BY <1>4, <1>6, ImageFilesAssumption
    <3>5. (IsSparse(images[k].parent))' <=> (IsSparse(r.footer))'
      BY <1>6, <3>1 DEF IsSparse
    <3>6. QED
      BY <1>2, <1>6, <1>8, <3>1, <3>2, <3>3, <3>4, <3>5
  <2>3. QED
    BY <1>8, <2>1, <2>2
<1>11. (ImagesOK)'
  BY <1>7, <1>10 DEF ImagesOK, SizesAreRight, Images
<1>12. QED
  BY <1>8, <1>9, <1>11

\* What a create of an image has to do when it begins.
Starts(id) ==
    /\ CreateWrites(id) \in Seq(Writes) /\ CreateWrites(id) # << >>
    /\ \A j \in 1 .. Len(CreateWrites(id)) : CreateWrites(id)[j].parts # << >>
    /\ Building(<< >>, id, CreateWrites(id))

\* CreateBuilds, as a formula of a state.
LEMMA CreateStarts == ImagesOK => \A id \in Ids : Starts(id)
BY CreateBuilds DEF Starts

\* CreateBuilds, of the images after a step.
LEMMA CreateStartsNext == (ImagesOK => \A id \in Ids : Starts(id))'
BY CreateStarts, PTL

\* The file of a handle that creates an image, and what the handle knows of it.
Truncates(h, n, id) ==
    LET r == handle[h]
    IN  /\ r.stage = "truncate" /\ id = Len(images) + 1 /\ id <= MaxImages
        /\ images' = Append(images,
              [type |-> r.type, parent |-> r.footer, blocks |-> DiskBlocks(r)])
        /\ files' = [files EXCEPT ![r.path] = << >>]
        /\ owner' = [owner EXCEPT ![r.path] = id]
        /\ soiled' = soiled \ {r.path} /\ returned' = returned
        /\ GoesAndWrites(h, n, r.path)
        /\ n = [r EXCEPT !.stage = "write", !.footer = id, !.header = id,
                         !.mode = "created", !.asked = 0, !.todo = CreateWrites(id)']

\* Truncate begins an image, or fails.
LEMMA TruncateCases ==
    ASSUME NEW h, Truncate(h)
    PROVE  Ends(h) \/ \E n, id : Truncates(h, n, id)
<1>1. CASE Ends(h)
  BY <1>1
<1>2. CASE ~Ends(h)
  <2>1. PICK id \in {Len(images) + 1} :
           /\ id <= MaxImages
           /\ images' = Append(images,
                 [type |-> handle[h].type, parent |-> handle[h].footer,
                  blocks |-> DiskBlocks(handle[h])])
           /\ files' = [files EXCEPT ![handle[h].path] = << >>]
           /\ owner' = [owner EXCEPT ![handle[h].path] = id]
           /\ soiled' = soiled \ {handle[h].path}
           /\ GoesAndWrites(h, [handle[h] EXCEPT !.stage = "write", !.footer = id, !.header = id,
                                         !.mode = "created", !.asked = 0,
                                         !.todo = CreateWrites(id)'], handle[h].path)
           /\ UNCHANGED returned
    BY <1>2 DEF Truncate, Truncated
  <2>2. handle[h].stage = "truncate"
    BY DEF Truncate
  <2>. DEFINE n == [handle[h] EXCEPT !.stage = "write", !.footer = id, !.header = id,
                                     !.mode = "created", !.asked = 0,
                                     !.todo = CreateWrites(id)']
  <2>3. Truncates(h, n, id)
    BY <2>1, <2>2 DEF Truncates
  <2>4. QED
    BY <2>3
<1>3. QED
  BY <1>1, <1>2

\* The file that is truncated is refused until all of its image is there; the handles that
\* held it no longer own it.
LEMMA TruncatesStep ==
    ASSUME Inv, NEW h \in Handles, NEW n, NEW id, Truncates(h, n, id)
    PROVE  Inv'
<1>. DEFINE r == handle[h]
            p == r.path
<1>1. /\ r \in States /\ Shape(r) /\ r.stage = "truncate" /\ MayTruncate(r) /\ p \in Paths
      /\ r.op = "create" /\ (r.source = "none" \/ p # r.source)
  BY InvParts DEF Truncates, Shape, MayTruncate
<1>2. /\ files' = [files EXCEPT ![p] = << >>] /\ owner' = [owner EXCEPT ![p] = id]
      /\ soiled' = soiled \ {p} /\ returned' = returned /\ GoesAndWrites(h, n, p)
      /\ n = [r EXCEPT !.stage = "write", !.footer = id, !.header = id,
                       !.mode = "created", !.asked = 0, !.todo = CreateWrites(id)']
  BY DEF Truncates
<1>3. /\ ImagesKept /\ (ImagesOK)' /\ id \in Ids' /\ id \notin Ids /\ id # NoImage
  <2>1. /\ id = Len(images) + 1 /\ Len(images) + 1 <= MaxImages
        /\ images' = Append(images, [type |-> r.type, parent |-> r.footer, blocks |-> DiskBlocks(r)])
    BY DEF Truncates
  <2>. HIDE DEF r
  <2>2. QED
    BY <1>1, <2>1, InvParts, ImageAdded
<1>4. Ids \subseteq Ids' /\ \A k \in Ids : k # id
  BY <1>3 DEF ImagesKept
<1>5. /\ files' \in [Paths -> Seq(Sectors)] /\ files'[p] = << >>
      /\ \A q \in Paths : q # p => files'[q] = files[q]
      /\ owner' \in [Paths -> {NoImage} \cup Ids'] /\ owner'[p] = id
      /\ \A q \in Paths : q # p => owner'[q] = owner[q]
  BY <1>1, <1>2, <1>3, <1>4, InvParts
<1>6. handle'[h] = n /\ handle' = [k \in Handles |-> handle'[k]]
  BY <1>2 DEF GoesAndWrites
<1>7. (Starts(id))'
  BY <1>3, CreateStartsNext
<1>. DEFINE todo == CreateWrites(id)'
<1>8. /\ todo \in Seq(Writes') /\ todo # << >> /\ \A j \in 1 .. Len(todo) : todo[j].parts # << >>
      /\ (Building(<< >>, id, CreateWrites(id)))'
  BY <1>7 DEF Starts
<1>. HIDE DEF todo
<1>9. /\ n.stage = "write" /\ n.op = "create" /\ n.path = p /\ n.source = r.source /\ n.footer = id
      /\ n.header = id /\ n.mode = "created" /\ n.todo = todo
  BY <1>1, <1>2 DEF States, todo
<1>10. n \in States'
  <2>1. r \in States'
    BY <1>1, <1>3, TypesKept
  <2>. HIDE DEF r
  <2>2. n = [r EXCEPT !.stage = "write", !.footer = id, !.header = id,
                      !.mode = "created", !.asked = 0, !.todo = todo]
    BY <1>2 DEF todo
  <2>3. QED
    BY <1>3, <1>8, <2>1, <2>2 DEF States, Stages
<1>11. (Shape(n))'
  BY <1>1, <1>3, <1>8, <1>9 DEF Shape, Creating, ReadingStages
<1>12. \A k \in Handles : k # h =>
          /\ handle'[k] \in States /\ Shape(handle'[k]) /\ SameButRaced(handle'[k], handle[k])
          /\ ~handle'[k].raced /\ handle'[k].stage \in ReadingStages => handle'[k].source # p
  <2>1. SUFFICES ASSUME NEW k \in Handles, k # h
                 PROVE  /\ handle'[k] \in States /\ Shape(handle'[k])
                        /\ SameButRaced(handle'[k], handle[k])
                        /\ ~handle'[k].raced /\ handle'[k].stage \in ReadingStages
                              => handle'[k].source # p
    OBVIOUS
  <2>2. handle'[k] = IF k = h THEN n
                     ELSE IF handle[k].stage \in ReadingStages /\ handle[k].source = p
                     THEN [handle[k] EXCEPT !.raced = TRUE] ELSE handle[k]
    BY <1>2 DEF GoesAndWrites
  <2>3. handle[k] \in States /\ Shape(handle[k])
    BY InvParts
  <2>. DEFINE m == handle[k]
              s == handle'[k]
  <2>. HIDE DEF m, s, p
  <2>4. s = IF k = h THEN n
            ELSE IF m.stage \in ReadingStages /\ m.source = p
            THEN [m EXCEPT !.raced = TRUE] ELSE m
    BY <2>2 DEF m, s
  <2>5. /\ s \in {m, [m EXCEPT !.raced = TRUE]}
        /\ m.stage \in ReadingStages /\ m.source = p => s = [m EXCEPT !.raced = TRUE]
    BY <2>1, <2>4
  <2>6. m \in States /\ Shape(m)
    BY <2>3 DEF m
  <2>7. /\ s \in States /\ Shape(s) /\ SameButRaced(s, m)
        /\ ~s.raced /\ s.stage \in ReadingStages => s.source # p
    BY <2>5, <2>6, Raced
  <2>8. QED
    BY <2>7 DEF m, s
<1>13. TypeInv'
  <2>1. files' \in [Paths -> Seq(Sectors')]
    BY <1>3, <1>5, TypesKept
  <2>2. \A k \in Handles : handle'[k] \in States' /\ (Shape(handle[k]))'
    <3>1. SUFFICES ASSUME NEW k \in Handles PROVE handle'[k] \in States' /\ (Shape(handle[k]))'
      OBVIOUS
    <3>2. CASE k = h
      <4>1. \A m : m = n => m \in States' /\ (Shape(m))'
        BY <1>10, <1>11
      <4>2. QED
        BY <1>6, <3>2, <4>1
    <3>3. CASE k # h
      BY <1>3, <1>12, <3>3, TypesKept
    <3>4. QED
      BY <3>2, <3>3
  <2>3. handle' \in [Handles -> States']
    BY <1>6, <2>2
  <2>4. soiled' \subseteq Paths /\ returned' \subseteq Ids'
    BY <1>2, <1>4, InvParts
  <2>5. QED
    BY <1>3, <1>5, <2>1, <2>2, <2>3, <2>4 DEF TypeInv
<1>14. OpensIsWhole'
  <2>1. SUFFICES ASSUME NEW q \in Paths \ soiled', (Opens(files[q]))' \/ owner'[q] \in returned'
                 PROVE  owner'[q] \in Ids' /\ (Whole(files[q], owner[q]))'
    BY DEF OpensIsWhole
  <2>2. q # p
    <3>1. SUFFICES ASSUME q = p PROVE FALSE
      OBVIOUS
    <3>2. ~(Opens(files[q]))'
      BY <1>5, <3>1 DEF Opens, EndsInFooter
    <3>3. owner'[q] \notin returned'
      BY <1>2, <1>3, <1>5, <3>1, InvParts
    <3>4. QED
      BY <2>1, <3>2, <3>3
  <2>3. files'[q] = files[q] /\ owner'[q] = owner[q] /\ q \notin soiled /\ files[q] \in Seq(Sectors)
    BY <1>2, <1>5, <2>1, <2>2, InvParts
  <2>4. Opens(files[q]) \/ owner[q] \in returned
    BY <1>2, <1>3, <2>1, <2>3, OpensKept
  <2>5. owner[q] \in Ids /\ Whole(files[q], owner[q])
    BY <2>3, <2>4, InvParts DEF OpensIsWhole
  <2>6. QED
    BY <1>3, <1>4, <2>3, <2>5, ContentsKept
<1>15. ASSUME NEW k \in Handles, k # h, handle'[k].mode = "created"
       PROVE  /\ handle[k].mode = "created" /\ handle'[k].footer = handle[k].footer
              /\ handle'[k].path = handle[k].path /\ handle'[k].footer # id
              /\ handle'[k].footer # NoImage
  <2>1. /\ handle[k].mode = "created" /\ handle'[k].footer = handle[k].footer
        /\ handle'[k].path = handle[k].path
    BY <1>12, <1>15 DEF SameButRaced
  <2>2. handle[k].footer \in Ids
    BY <2>1, InvParts DEF Shape
  <2>3. NoImage \notin Ids
    BY DEF NoImage, Ids
  <2>4. QED
    BY <1>4, <2>1, <2>2, <2>3
<1>16. OneWriter'
  <2>1. ASSUME NEW g \in Handles, NEW k \in Handles, g # k, handle'[g].mode = "created",
               handle'[k].mode = "created"
        PROVE  handle'[g].footer # handle'[k].footer
    BY <1>6, <1>9, <1>15, <2>1, InvParts DEF OneWriter
  <2>2. ASSUME NEW k \in Handles, NEW q \in Paths, handle'[k].mode = "created",
               owner'[q] = handle'[k].footer
        PROVE  q = handle'[k].path
    <3>1. CASE k = h
      <4>1. owner'[q] = id /\ handle'[k].path = p
        BY <1>6, <1>9, <2>2, <3>1
      <4>2. q # p => owner[q] = id
        BY <1>5, <4>1
      <4>3. QED
        BY <1>3, <4>1, <4>2, InvParts
    <3>2. CASE k # h
      <4>1. q # p
        BY <1>5, <1>15, <2>2, <3>2
      <4>2. owner[q] = handle[k].footer /\ handle[k].mode = "created"
            /\ handle'[k].path = handle[k].path
        BY <1>5, <1>15, <2>2, <3>2, <4>1
      <4>3. QED
        BY <4>2, InvParts DEF OneWriter
    <3>3. QED
      BY <3>1, <3>2
  <2>3. QED
    BY <2>1, <2>2 DEF OneWriter
<1>17. ASSUME NEW k \in Handles, k # h, NEW m, m = handle'[k]
       PROVE  (HandleOK(m))'
  <2>. DEFINE o == handle[k]
  <2>1. SameButRaced(m, o) /\ Shape(m)
        /\ (~m.raced /\ m.stage \in ReadingStages => m.source # p)
    BY <1>12, <1>17
  <2>2. /\ m.stage = o.stage /\ m.op = o.op /\ m.path = o.path /\ m.source = o.source
        /\ m.footer = o.footer /\ m.header = o.header /\ m.bat = o.bat
        /\ m.mode = o.mode /\ m.todo = o.todo /\ (~m.raced => m = o)
    BY <2>1 DEF SameButRaced
  <2>3. Shape(o) /\ HandleOK(o)
    BY InvParts
  <2>4. m.mode = "created" => m.footer \in Ids /\ m.footer # id /\ m.path \in Paths
    BY <1>4, <2>1 DEF Shape
  <2>. HIDE DEF o
  <2>5. (OwnerOK(m))'
    <3>1. SUFFICES ASSUME (Owns(m))'
                   PROVE  IF Creating(m) THEN (Building(files[m.path], m.footer, m.todo))'
                          ELSE (Whole(files[m.path], m.footer))'
      BY DEF OwnerOK, Creating
    <3>2. m.mode = "created" /\ m.footer = owner'[m.path] /\ m.path \notin soiled'
      BY <3>1 DEF Owns
    <3>3. m.path # p
      BY <1>5, <2>4, <3>2
    <3>4. owner'[m.path] = owner[m.path] /\ files'[m.path] = files[m.path] /\ m.path \notin soiled
      BY <1>2, <1>5, <2>4, <3>2, <3>3
    <3>5. Owns(o)
      BY <2>2, <3>2, <3>4 DEF Owns
    <3>6. IF Creating(m) THEN Building(files[m.path], m.footer, m.todo)
          ELSE Whole(files[m.path], m.footer)
      <4>1. OwnerOK(o)
        BY <2>3 DEF HandleOK
      <4>2. QED
        BY <2>2, <3>5, <4>1 DEF OwnerOK, Creating
    <3>7. QED
      BY <1>3, <2>4, <3>2, <3>4, <3>6, ContentsKept
  <2>6. (WriterOK(m))'
    <3>1. Creating(m) => m.footer \notin returned
      BY <2>2, <2>3 DEF HandleOK, WriterOK, Creating
    <3>2. m.stage = "write" /\ ~Creating(m) => m.footer \in Ids /\ IsFooters(m.footer, m.todo)
      BY <2>1, <2>2, <2>3 DEF HandleOK, WriterOK, Creating, Shape
    <3>3. QED
      BY <1>2, <1>3, <3>1, <3>2, ContentsKept DEF WriterOK, Creating
  <2>7. (ReaderOK(m))'
    <3>1. SUFFICES ASSUME m.stage \in ReadingStages, ~m.raced
                   PROVE  (ReaderOK(m))'
      BY DEF ReaderOK
    <3>2. m = o /\ m.source # p /\ m.source \in Paths
      BY <2>1, <2>2, <2>3, <3>1 DEF Shape
    <3>3. files'[m.source] = files[m.source] /\ files[m.source] \in Seq(Sectors)
      BY <1>5, <3>2, InvParts
    <3>4. ReaderOK(m)
      BY <2>3, <3>2 DEF HandleOK
    <3>5. m.source \notin soiled'
      BY <1>2, <3>1, <3>2, <3>4 DEF ReaderOK
    <3>6. (HasHeader(files[m.source]))' <=> HasHeader(files[m.source])
      <4>1. \A f \in Seq(Sectors) : (HasHeader(f))' <=> HasHeader(f)
        BY <1>3, OpensKept
      <4>2. (HasHeader(files[m.source]))' <=> (\A f : f = files'[m.source] => (HasHeader(f))')
        OBVIOUS
      <4>3. QED
        BY <3>3, <4>1, <4>2
    <3>7. QED
      BY <3>1, <3>3, <3>4, <3>5, <3>6 DEF ReaderOK, EndsInFooter
  <2>8. (OpenedOK(m))'
    <3>1. SUFFICES ASSUME m.stage = "ready", m.mode = "opened", ~m.raced, (IsSparse(m.footer))'
                   PROVE  (OpenedOK(m))'
      BY DEF OpenedOK
    <3>2. m = o /\ m.footer \in Ids
      BY <2>1, <2>2, <3>1 DEF Shape
    <3>3. (IsSparse(m.footer))' = IsSparse(m.footer) /\ (BatSectors(m.footer))' = BatSectors(m.footer)
      BY <1>3, <3>2, LayoutKept
    <3>4. OpenedOK(m)
      BY <2>3, <3>2 DEF HandleOK
    <3>5. QED
      BY <3>1, <3>3, <3>4 DEF OpenedOK
  <2>9. QED
    BY <2>5, <2>6, <2>7, <2>8 DEF HandleOK
<1>18. (HandleOK(n))'
  <2>1. Creating(n)
    BY <1>9 DEF Creating
  <2>2. (Building(files[n.path], n.footer, n.todo))'
    <3>1. files'[n.path] = << >> /\ n.footer = id /\ n.todo = CreateWrites(id)'
      BY <1>5, <1>9 DEF todo
    <3>2. QED
      BY <1>8, <3>1
  <2>3. (OwnerOK(n))'
    BY <2>1, <2>2 DEF OwnerOK, Creating
  <2>4. (WriterOK(n))'
    <3>1. n.footer \notin returned'
      BY <1>2, <1>3, <1>9, InvParts
    <3>2. QED
      BY <2>1, <3>1 DEF WriterOK, Creating
  <2>5. (ReaderOK(n))' /\ (OpenedOK(n))'
    BY <1>9 DEF ReaderOK, OpenedOK, ReadingStages
  <2>6. QED
    BY <2>3, <2>4, <2>5 DEF HandleOK
<1>19. HandlesOK'
  <2>1. (HandleOK(handle[h]))'
    <3>1. \A m : m = n => (HandleOK(m))'
      BY <1>18
    <3>2. QED
      BY <1>6, <3>1
  <2>2. \A k \in Handles : (HandleOK(handle[k]))'
    <3>1. \A k \in Handles : \A m : k # h /\ m = handle'[k] => (HandleOK(m))'
      BY <1>17
    <3>2. QED
      BY <2>1, <3>1
  <2>3. QED
    BY <2>2 DEF HandlesOK, HandleOK
<1>20. QED
  BY <1>13, <1>14, <1>16, <1>19 DEF Inv, FileInv

\* File::create, done or failed.
LEMMA TruncateStep ==
    ASSUME Inv, NEW h \in Handles, Truncate(h)
    PROVE  Inv'
<1>1. CASE Ends(h)
  BY <1>1, EndsStep
<1>2. CASE \E n, id : Truncates(h, n, id)
  BY <1>2, TruncatesStep
<1>3. QED
  BY <1>1, <1>2, TruncateCases

-----------------------------------------------------------------------------
(* Theorems *)

\* The invariant holds at first,
LEMMA Initially == Init => Inv
<1>1. SUFFICES ASSUME Init PROVE Inv
  OBVIOUS
<1>2. /\ files = [p \in Paths |-> << >>] /\ images = << >> /\ handle = [h \in Handles |-> Free]
      /\ owner = [p \in Paths |-> NoImage] /\ soiled = {} /\ returned = {}
  BY <1>1 DEF Init
<1>3. Ids = {}
  BY <1>2 DEF Ids
<1>4. Free \in States /\ Shape(Free) /\ Free.mode = "none" /\ Free.stage = "free"
  BY FreeIsCareful DEF Free
<1>5. TypeInv
  <2>1. ImagesOK
    BY <1>2, <1>3, ImageFilesAssumption DEF ImagesOK, SizesAreRight
  <2>2. files \in [Paths -> Seq(Sectors)]
    BY <1>2
  <2>3. QED
    BY <1>2, <1>4, <2>1, <2>2 DEF TypeInv
<1>6. OpensIsWhole
  BY <1>2 DEF OpensIsWhole, Opens, EndsInFooter
<1>7. OneWriter
  BY <1>2, <1>4 DEF OneWriter
<1>8. HandlesOK
  <2>1. OwnerOK(Free) /\ WriterOK(Free) /\ ReaderOK(Free) /\ OpenedOK(Free)
    BY <1>4 DEF OwnerOK, Owns, WriterOK, Creating, ReaderOK, OpenedOK, ReadingStages
  <2>2. QED
    BY <1>2, <2>1 DEF HandlesOK
<1>9. QED
  BY <1>5, <1>6, <1>7, <1>8 DEF Inv, FileInv

\* every step keeps it,
LEMMA StepKeeps == Inv /\ [Next]_vars => Inv'
<1>1. SUFFICES ASSUME Inv, [Next]_vars PROVE Inv'
  OBVIOUS
<1>2. ASSUME NEW h \in Handles, NEW p \in Paths, NEW mb \in Sizes, NEW type \in Types,
             Create(h, type, p, mb)
      PROVE  Inv'
  BY <1>1, <1>2, CreateStep
<1>3. ASSUME NEW h \in Handles, NEW p \in Paths, Open(h, p)
      PROVE  Inv'
  BY <1>1, <1>3, ReadsStep DEF Open
<1>4. ASSUME NEW h \in Handles, NEW p \in Paths, NEW q \in Paths, CreateDiff(h, p, q)
      PROVE  Inv'
  BY <1>1, <1>4, ReadsStep DEF CreateDiff
<1>5. ASSUME NEW h \in Handles, ReadFooter(h) PROVE Inv'
  BY <1>1, <1>5, ReadFooterStep
<1>6. ASSUME NEW h \in Handles, ReadHeader(h) PROVE Inv'
  BY <1>1, <1>6, ReadHeaderStep
<1>7. ASSUME NEW h \in Handles, ReadBat(h) PROVE Inv'
  BY <1>1, <1>7, ReadBatStep
<1>8. ASSUME NEW h \in Handles, Truncate(h) PROVE Inv'
  BY <1>1, <1>8, TruncateStep
<1>9. ASSUME NEW h \in Handles, WriteStep(h) PROVE Inv'
  BY <1>1, <1>9, WriteStepKeeps
<1>10. ASSUME NEW h \in Handles, Flush(h) PROVE Inv'
  BY <1>1, <1>10, FlushStep
<1>11. ASSUME NEW h \in Handles, Drop(h) PROVE Inv'
  BY <1>1, <1>11, DropStep
<1>12. ASSUME NEW h \in Handles, NEW sector \in DataSectors, WriteAt(h, sector) PROVE Inv'
  BY <1>1, <1>12, WriteAtStep
<1>13. ASSUME NEW h \in Handles, Crash(h) PROVE Inv'
  BY <1>1, <1>13, EndsStep DEF Crash
<1>14. CASE UNCHANGED vars
  <2>1. UNCHANGED <<files, images, handle, owner, soiled, returned>>
    BY <1>14 DEF vars
  <2>2. Ids' = Ids
    BY <2>1 DEF Ids
  <2>3. ImagesKept
    BY <2>1, <2>2 DEF ImagesKept
  <2>4. TypeInv'
    <3>1. (ImagesOK)'
      BY <1>1, <2>1, InvParts DEF ImagesOK, Images, Ids, SizesAreRight, IsSparse
    <3>2. files' \in [Paths -> Seq(Sectors')] /\ handle' \in [Handles -> States']
      BY <1>1, <2>1, <2>3, InvParts, TypesKept
    <3>3. \A g \in Handles : (Shape(handle[g]))'
      BY <1>1, <2>1, <2>3, InvParts, TypesKept
    <3>4. owner' \in [Paths -> {NoImage} \cup Ids'] /\ soiled' \subseteq Paths /\ returned' \subseteq Ids'
      BY <1>1, <2>1, <2>2, InvParts
    <3>5. QED
      BY <3>1, <3>2, <3>3, <3>4 DEF TypeInv
  <2>5. OpensIsWhole'
    <3>1. SUFFICES ASSUME NEW p \in Paths \ soiled, (Opens(files[p]))' \/ owner[p] \in returned
                   PROVE  owner[p] \in Ids /\ (Whole(files[p], owner[p]))'
      BY <2>1, <2>2 DEF OpensIsWhole
    <3>2. Opens(files[p]) \/ owner[p] \in returned
      BY <1>1, <2>1, <2>3, <3>1, InvParts, OpensKept
    <3>3. owner[p] \in Ids /\ Whole(files[p], owner[p])
      BY <1>1, <3>2, InvParts DEF OpensIsWhole
    <3>4. QED
      BY <2>1, <2>3, <3>3, ContentsKept
  <2>6. OneWriter'
    BY <1>1, <2>1, InvParts DEF OneWriter
  <2>7. HandlesOK'
    <3>1. \A k : Shape(k) /\ HandleOK(k) => (HandleOK(k))'
      BY <2>1, HandleKept
    <3>2. \A g \in Handles : (HandleOK(handle[g]))'
      BY <1>1, <2>1, <3>1, InvParts
    <3>3. QED
      BY <3>2 DEF HandlesOK, HandleOK
  <2>8. QED
    BY <2>4, <2>5, <2>6, <2>7 DEF Inv, FileInv
<1>15. QED
  BY <1>1, <1>2, <1>3, <1>4, <1>5, <1>6, <1>7, <1>8, <1>9, <1>10, <1>11, <1>12, <1>13, <1>14
     DEF Next, Step

\* and so it always holds.
LEMMA Invariance == Spec => []Inv
<1>1. QED
  BY Initially, StepKeeps, PTL DEF Spec

\* TypeOK holds in every state: what is in the files, what the images are and what the
\* handles know.
THEOREM Typing == Spec => []TypeOK
<1>1. Inv => TypeOK
  <2>1. SUFFICES ASSUME Inv PROVE TypeOK
    OBVIOUS
  <2>2. ASSUME NEW f \in Seq(Sectors) PROVE IsSectors(f)
    <3>1. \A i \in DOMAIN f : f[i] \in Sectors
      BY <2>2
    <3>2. QED
      BY <3>1, PartTypes DEF IsSectors
  <2>3. \A p \in Paths : IsSectors(files[p])
    BY <2>1, <2>2, InvParts
  <2>4. /\ Len(images) <= MaxImages
        /\ \A id \in Ids : /\ images[id].type \in Types
                           /\ images[id].blocks \in 0 .. MaxBlocks
                           /\ images[id].type = "Diff" <=> images[id].parent # NoImage
    <3>1. \A id \in Ids : images[id] \in Images
      BY <2>1, InvParts, Layout
    <3>2. QED
      BY <2>1, <3>1, InvParts DEF ImagesOK, Images
  <2>5. ASSUME NEW r \in States, Shape(r)
        PROVE  /\ r.stage \in {"free", "footer", "header", "bat", "truncate", "write",
                               "ready", "panicked"}
               /\ r.stage = "write" <=> r.todo # << >>
               /\ r.footer \in {NoImage} \cup Ids /\ r.header \in {NoImage} \cup Ids
               /\ r.mode = "created" => r.footer # NoImage
               /\ \A w \in ToSet(r.todo) : w.at \in Nat /\ IsSectors(w.parts) /\ w.parts # << >>
    <3>1. r.stage \in Stages /\ r.footer \in {NoImage} \cup Ids /\ r.header \in {NoImage} \cup Ids
          /\ r.todo \in Seq(Writes)
      BY <2>5 DEF States
    <3>2. r.stage = "write" <=> r.todo # << >>
      BY <2>5 DEF Shape
    <3>3. r.mode = "created" => r.footer # NoImage
      BY <2>5 DEF Shape, Ids, NoImage
    <3>4. ASSUME NEW i \in DOMAIN r.todo
          PROVE  /\ r.todo[i].at \in Nat /\ IsSectors(r.todo[i].parts) /\ r.todo[i].parts # << >>
      <4>1. r.todo[i] \in Writes
        BY <3>1
      <4>2. r.todo[i].at \in Nat /\ r.todo[i].parts \in Seq(Sectors)
        BY <4>1 DEF Writes
      <4>3. r.todo[i].parts # << >>
        BY <2>5 DEF Shape
      <4>4. QED
        BY <2>2, <4>2, <4>3
    <3>5. \A w \in ToSet(r.todo) : w.at \in Nat /\ IsSectors(w.parts) /\ w.parts # << >>
      BY <3>4 DEF ToSet
    <3>6. QED
      BY <3>1, <3>2, <3>3, <3>5 DEF Stages
  <2>6. \A h \in Handles : handle[h] \in States /\ Shape(handle[h])
    BY <2>1, InvParts
  <2>7. owner \in [Paths -> {NoImage} \cup Ids] /\ soiled \subseteq Paths /\ returned \subseteq Ids
    BY <2>1, InvParts
  <2>8. QED
    BY <2>3, <2>4, <2>5, <2>6, <2>7 DEF TypeOK
<1>2. QED
  BY <1>1, Invariance, PTL

\* No disk that create_fixed, create_dynamic or create_diff begins is larger than
\* MAX_VHD_SIZE; a differencing disk is as large as its parent, which is a sparse disk.
THEOREM SizesAreRightAlways == Spec => []SizesAreRight
<1>1. Inv => SizesAreRight
  BY InvParts DEF ImagesOK
<1>2. QED
  BY <1>1, Invariance, PTL

\* Wherever a create stopped or failed, and whatever the flushes left torn: a file that
\* opens holds the whole of the image it was last truncated for, unless a handle on an
\* older image wrote to it.
THEOREM WhatOpensIsWholeAlways == Spec => []WhatOpensIsWhole
<1>1. Inv => WhatOpensIsWhole
  <2>1. SUFFICES ASSUME Inv, NEW p \in Paths \ soiled, Opens(files[p])
                 PROVE  Holds(files[p], owner[p])
    BY DEF WhatOpensIsWhole
  <2>2. owner[p] \in Ids /\ Whole(files[p], owner[p]) /\ files[p] \in Seq(Sectors) /\ ImagesOK
    BY <2>1, InvParts DEF OpensIsWhole
  <2>3. QED
    BY <2>2, WholeOpens
<1>2. QED
  BY <1>1, Invariance, PTL

\* An image that create_* returned Ok for opens, and is whole, whatever fails afterwards,
\* until its file is truncated or written to by a handle on an older image.
THEOREM ReturnedStaysAlways == Spec => []ReturnedStays
<1>1. Inv => ReturnedStays
  <2>1. SUFFICES ASSUME Inv, NEW p \in Paths \ soiled, owner[p] \in returned
                 PROVE  Opens(files[p]) /\ Holds(files[p], owner[p])
    BY DEF ReturnedStays
  <2>2. owner[p] \in Ids /\ Whole(files[p], owner[p]) /\ files[p] \in Seq(Sectors) /\ ImagesOK
    BY <2>1, InvParts DEF OpensIsWhole
  <2>3. QED
    BY <2>2, WholeOpens
<1>2. QED
  BY <1>1, Invariance, PTL

\* What open reads, in three accesses, of a sparse image that nobody writes to meanwhile is
\* the footer, the header and the BAT of one image.
THEOREM OpenedIsOneImageAlways == Spec => []OpenedIsOneImage
<1>1. Inv => OpenedIsOneImage
  BY InvParts DEF OpenedIsOneImage, HandleOK, OpenedOK
<1>2. QED
  BY <1>1, Invariance, PTL

-----------------------------------------------------------------------------
(* Action properties *)

\* What the steps do to the files.
LEMMA StepKinds ==
    ASSUME Inv, Next
    PROVE  \E h \in Handles :
              \/ UNCHANGED <<files, images, owner, soiled, returned>>
              \/ \E n, id : Truncates(h, n, id)
              \/ WriteStep(h)
              \/ \E sector \in DataSectors :
                    /\ ~IsSparse(handle[h].footer) /\ handle[h].mode = "created"
                    /\ handle[h].stage = "ready"
                    /\ sector < images[handle[h].footer].blocks * SectorsPerBlock
                    /\ Puts(h, sector, << Part("Data", handle[h].footer) >>, handle[h])
<1>1. ASSUME NEW h \in Handles, Truncate(h)
      PROVE  \/ UNCHANGED <<files, images, owner, soiled, returned>>
             \/ \E n, id : Truncates(h, n, id)
  BY <1>1, TruncateCases DEF Ends
<1>2. ASSUME NEW h \in Handles,
             ReadFooter(h) \/ ReadHeader(h) \/ ReadBat(h) \/ Flush(h) \/ Drop(h) \/ Crash(h)
      PROVE  UNCHANGED <<files, images, owner, soiled, returned>>
  BY <1>2 DEF ReadFooter, ReadHeader, ReadBat, Flush, Drop, Crash, Ends
<1>3. ASSUME NEW h \in Handles, NEW sector \in DataSectors, WriteAt(h, sector)
      PROVE  \/ UNCHANGED <<files, images, owner, soiled, returned>>
             \/ /\ ~IsSparse(handle[h].footer) /\ handle[h].mode = "created"
                /\ handle[h].stage = "ready"
                /\ sector < images[handle[h].footer].blocks * SectorsPerBlock
                /\ Puts(h, sector, << Part("Data", handle[h].footer) >>, handle[h])
  BY <1>3 DEF WriteAt
<1>4. ASSUME NEW h \in Handles, NEW p \in Paths, NEW q \in Paths, NEW mb \in Sizes,
             NEW type \in Types,
             Create(h, type, p, mb) \/ Open(h, p) \/ CreateDiff(h, p, q)
      PROVE  UNCHANGED <<files, images, owner, soiled, returned>>
  BY <1>4 DEF Create, Open, CreateDiff, Reads
<1>5. PICK h \in Handles :
         \/ \E p \in Paths, mb \in Sizes, type \in Types : Create(h, type, p, mb)
         \/ \E p \in Paths : Open(h, p)
         \/ \E p, q \in Paths : CreateDiff(h, p, q)
         \/ ReadFooter(h) \/ ReadHeader(h) \/ ReadBat(h) \/ Truncate(h) \/ WriteStep(h)
         \/ Flush(h) \/ Drop(h)
         \/ \E sector \in DataSectors : WriteAt(h, sector)
         \/ Crash(h)
  BY DEF Next, Step
<1>6. CASE \/ \E p \in Paths, mb \in Sizes, type \in Types : Create(h, type, p, mb)
           \/ \E p \in Paths : Open(h, p)
           \/ \E p, q \in Paths : CreateDiff(h, p, q)
  <2>1. UNCHANGED <<files, images, owner, soiled, returned>>
    BY <1>6 DEF Create, Open, CreateDiff, Reads
  <2>2. QED
    BY <2>1
<1>7. QED
  BY <1>1, <1>2, <1>3, <1>5, <1>6

\* What create_*, flush and Drop write to the image a file was last truncated for spares its
\* data.
LEMMA WritesSpareData ==
    ASSUME Inv, NEW h \in Handles, WriteStep(h), NEW p \in Paths \ soiled',
           NEW i \in DOMAIN files[p], files[p][i].is = "Data"
    PROVE  files'[p][i] = files[p][i]
<1>. DEFINE r == handle[h]
            w == r.todo[1]
            f == files[r.path]
<1>1. /\ r \in States /\ Shape(r) /\ HandleOK(r) /\ r.stage = "write" /\ r.mode = "created"
      /\ r.path \in Paths /\ r.footer \in Ids /\ f \in Seq(Sectors) /\ w \in Writes
      /\ r.todo \in Seq(Writes) /\ r.todo # << >>
  BY WriteDone
<1>2. PICK parts \in Seq(Sectors), n \in {NextWrite(r), AfterError(r)} :
         Puts(h, w.at, parts, n) /\ Leaves(f, w, parts)
  BY WriteDone
<1>3. w.at \in Nat
  BY <1>1 DEF Writes
<1>4. /\ files' = [files EXCEPT ![r.path] = Put(f, w.at, parts)]
      /\ soiled' = IF r.footer = owner[r.path] \/ parts = << >> THEN soiled
                   ELSE soiled \cup {r.path}
  BY <1>2 DEF Puts
<1>5. CASE p # r.path
  BY <1>4, <1>5, InvParts
<1>6. CASE p = r.path
  <2>1. files'[p] = Put(f, w.at, parts) /\ f = files[p]
    BY <1>1, <1>4, <1>6, InvParts
  <2>2. CASE parts = << >>
    <3>1. \A k \in 1 .. Len(parts) : w.at + k <= Len(f) /\ f[w.at + k] = parts[k]
      BY <2>2
    <3>. HIDE DEF w, f
    <3>2. Put(f, w.at, parts) = f
      BY <1>1, <1>3, <3>1, PutSame
    <3>3. QED
      BY <2>1, <3>2
  <2>3. CASE parts # << >>
    <3>1. Owns(r)
      BY <1>1, <1>4, <1>6, <2>3 DEF Owns
    <3>2. ~Creating(r)
      <4>1. SUFFICES ASSUME Creating(r) PROVE FALSE
        OBVIOUS
      <4>2. Building(f, r.footer, r.todo)
        BY <1>1, <3>1, <4>1 DEF HandleOK, OwnerOK
      <4>. HIDE DEF f
      <4>3. \A k \in DOMAIN f : f[k].is # "Data"
        BY <1>1, <4>2, InvParts, BuildingRefused
      <4>4. QED
        BY <2>1, <4>3
    <3>3. Whole(f, r.footer) /\ IsFooters(r.footer, r.todo)
      BY <1>1, <3>1, <3>2 DEF HandleOK, OwnerOK, WriterOK
    <3>4. Put(f, w.at, parts) = f
      BY <1>1, <1>2, <3>3, InvParts, FootersKeep
    <3>5. QED
      BY <2>1, <3>4
  <2>4. QED
    BY <2>2, <2>3
<1>7. QED
  BY <1>5, <1>6

\* A handle that is writing is not told when another one writes.
LEMMA WriterIsAlone ==
    ASSUME NEW h \in Handles, NEW k \in Handles, NEW n, NEW p, GoesAndWrites(k, n, p),
           handle[h].stage = "write", handle'[h] # handle[h]
    PROVE  h = k
<1>1. h # k => handle'[h] = handle[h]
  BY DEF GoesAndWrites, ReadingStages
<1>2. QED
  BY <1>1

\* Where g, which may be longer, is not f.
ChangesOnly(f, g, places) == \A i \in DOMAIN f \ places : g[i] = f[i]

\* A footer of flush or Drop, whole or torn, leaves every sector that is not one of the image's
\* footers, whatever is in the file.
LEMMA FooterStaysInPlace ==
    ASSUME ImagesOK, NEW id \in Ids, NEW f \in Seq(Sectors), NEW todo \in Seq(Writes),
           todo # << >>, IsFooters(id, todo), NEW parts, Leaves(f, todo[1], parts)
    PROVE  ChangesOnly(f, Put(f, todo[1].at, parts), FooterPlaces(id))
<1>. DEFINE w == todo[1]
            g == Put(f, w.at, parts)
<1>. SUFFICES ASSUME NEW i \in DOMAIN f, i \notin FooterPlaces(id) PROVE g[i] = f[i]
  BY DEF ChangesOnly
<1>1. End(id) \in Nat /\ parts \in Seq(Sectors) /\ Len(parts) <= Len(w.parts)
  BY Layout DEF Leaves
<1>2. 1 \in 1 .. Len(todo)
  OBVIOUS
<1>3. \/ w = FooterWrite(id)
      \/ IsSparse(id) /\ w = At(0, << Part("Footer", id) >>)
  BY <1>2 DEF IsFooters
<1>4. /\ w.at \in Nat /\ Len(w.parts) = 1
      /\ w.at = End(id) \/ (w.at = 0 /\ IsSparse(id))
  BY <1>1, <1>3 DEF FooterWrite, At
<1>. HIDE DEF w
<1>5. IsPut(g, f, w.at, parts)
  BY <1>1, <1>4, PutSectors
<1>6. i # w.at + 1
  BY <1>4 DEF FooterPlaces
<1>7. i \in 1 .. Len(f) /\ Len(f) \in Nat
  OBVIOUS
<1>8. i - w.at \notin 1 .. Len(parts)
  <2>1. Len(parts) \in Nat /\ Len(parts) <= 1
    <3>1. Len(parts) \in Nat
      BY <1>1
    <3>2. QED
      BY <1>1, <1>4, <3>1
  <2>2. \A n \in Nat, a \in Nat, k \in Nat : n <= 1 /\ k # a + 1 => k - a \notin 1 .. n
    OBVIOUS
  <2>3. i \in Nat
    BY <1>7
  <2>4. QED
    BY Zenon, <1>4, <1>6, <2>1, <2>2, <2>3
<1>. HIDE DEF g
<1>9. i \in 1 .. Len(g)
  BY <1>1, <1>4, <1>5, <1>7 DEF IsPut
<1>10. g[i] = f[i]
  BY <1>5, <1>7, <1>8, <1>9 DEF IsPut
<1>11. QED
  BY <1>10

\* What flush and Drop of h do to the files.
LEMMA FootersInPlace ==
    ASSUME Inv, Next, NEW h \in Handles, handle[h].stage = "write",
           handle[h].op \in {"flush", "drop"}, handle'[h] # handle[h], NEW p \in Paths
    PROVE  \/ files'[p] = files[p]
           \/ /\ p = handle[h].path
              /\ \A i \in DOMAIN files[p] \ FooterPlaces(handle[h].footer) :
                    files'[p][i] = files[p][i]
<1>1. PICK k \in Handles :
            \/ UNCHANGED <<files, images, owner, soiled, returned>>
            \/ \E n, id : Truncates(k, n, id)
            \/ WriteStep(k)
            \/ \E sector \in DataSectors :
                  /\ ~IsSparse(handle[k].footer) /\ handle[k].mode = "created"
                  /\ handle[k].stage = "ready"
                  /\ sector < images[handle[k].footer].blocks * SectorsPerBlock
                  /\ Puts(k, sector, << Part("Data", handle[k].footer) >>, handle[k])
  BY StepKinds
<1>2. CASE UNCHANGED <<files, images, owner, soiled, returned>>
  BY <1>2
<1>3. ASSUME NEW n, NEW id, Truncates(k, n, id) PROVE FALSE
  <2>1. GoesAndWrites(k, n, handle[k].path) /\ handle[k].stage = "truncate"
    BY <1>3 DEF Truncates
  <2>2. QED
    BY <2>1, WriterIsAlone
<1>4. CASE WriteStep(k)
  <2>. DEFINE r == handle[k]
              f == files[r.path]
              at == r.todo[1].at
  <2>1. /\ r \in States /\ HandleOK(r) /\ r.stage = "write" /\ r.path \in Paths /\ r.footer \in Ids
        /\ f \in Seq(Sectors) /\ r.todo \in Seq(Writes) /\ r.todo # << >>
    BY <1>4, WriteDone
  <2>2. PICK parts \in Seq(Sectors), n \in {NextWrite(r), AfterError(r)} :
           Puts(k, at, parts, n) /\ Leaves(f, r.todo[1], parts)
    BY <1>4, WriteDone
  <2>3. GoesAndWrites(k, n, r.path) /\ files' = [files EXCEPT ![r.path] = Put(f, at, parts)]
    BY <2>2 DEF Puts
  <2>4. h = k
    BY <2>3, WriterIsAlone
  <2>5. IsFooters(r.footer, r.todo)
    BY <2>1, <2>4 DEF HandleOK, WriterOK, Creating
  <2>6. ChangesOnly(f, Put(f, at, parts), FooterPlaces(r.footer))
    <3>. DEFINE todo == r.todo
                id   == r.footer
    <3>1. /\ ImagesOK /\ id \in Ids /\ f \in Seq(Sectors) /\ todo \in Seq(Writes)
          /\ todo # << >> /\ IsFooters(id, todo) /\ Leaves(f, todo[1], parts)
      BY Zenon, <2>1, <2>2, <2>5, InvParts
    <3>. HIDE DEF r, f, todo, id
    <3>2. ChangesOnly(f, Put(f, todo[1].at, parts), FooterPlaces(id))
      BY <3>1, FooterStaysInPlace
    <3>3. QED
      BY <3>2 DEF todo, id
  <2>7. p # r.path => files'[p] = files[p]
    BY <2>3, InvParts
  <2>8. p = r.path => files'[p] = Put(f, at, parts) /\ files[p] = f
    BY <2>3, InvParts
  <2>9. p = r.path => ChangesOnly(files[p], files'[p], FooterPlaces(r.footer))
    <3>. HIDE DEF f, at
    <3>1. QED
      BY <2>6, <2>8
  <2>10. QED
    BY Zenon, <2>4, <2>7, <2>9 DEF ChangesOnly
<1>5. ASSUME NEW sector \in DataSectors, handle[k].stage = "ready",
             Puts(k, sector, << Part("Data", handle[k].footer) >>, handle[k])
      PROVE  FALSE
  <2>1. GoesAndWrites(k, handle[k], handle[k].path)
    BY <1>5 DEF Puts
  <2>2. QED
    BY <1>5, <2>1, WriterIsAlone
<1>6. QED
  BY <1>1, <1>2, <1>3, <1>4, <1>5

\* The data of a fixed disk is overwritten by writes of data only: footers that flush, Drop
\* or a create put into a file never land on it.  And whatever the file holds by then, flush
\* and Drop change the places of their own image's footers, and no other file.
THEOREM FootersSpareDataAlways == Spec => FootersSpareData
<1>. DEFINE Spared == \A p \in Paths \ soiled' :
                         \A i \in DOMAIN files[p] :
                            (files[p][i].is = "Data" /\ files'[p] # << >>)
                               => files'[p][i] = files[p][i]
            InPlace == \A h \in Handles :
                         LET r == handle[h]
                         IN  (r.stage = "write" /\ r.op \in {"flush", "drop"} /\ handle'[h] # r) =>
                                \A p \in Paths :
                                   \/ files'[p] = files[p]
                                   \/ /\ p = r.path
                                      /\ \A i \in DOMAIN files[p] \ FooterPlaces(r.footer) :
                                            files'[p][i] = files[p][i]
<1>1. Inv /\ [Next]_vars => [Spared]_vars
  <2>1. SUFFICES ASSUME Inv, Next,
                        NEW p \in Paths \ soiled', NEW i \in DOMAIN files[p],
                        files[p][i].is = "Data", files'[p] # << >>
                 PROVE  files'[p][i] = files[p][i]
    OBVIOUS
  <2>2. PICK h \in Handles :
              \/ UNCHANGED <<files, images, owner, soiled, returned>>
              \/ \E n, id : Truncates(h, n, id)
              \/ WriteStep(h)
              \/ \E sector \in DataSectors :
                    /\ ~IsSparse(handle[h].footer) /\ handle[h].mode = "created"
                    /\ handle[h].stage = "ready"
                    /\ sector < images[handle[h].footer].blocks * SectorsPerBlock
                    /\ Puts(h, sector, << Part("Data", handle[h].footer) >>, handle[h])
    BY <2>1, StepKinds
  <2>3. CASE UNCHANGED <<files, images, owner, soiled, returned>>
    BY <2>3
  <2>4. CASE \E n, id : Truncates(h, n, id)
    <3>1. files' = [files EXCEPT ![handle[h].path] = << >>]
      BY <2>4 DEF Truncates
    <3>2. files'[p] \in {files[p], << >>}
      BY <2>1, <3>1, InvParts
    <3>3. QED
      BY <2>1, <3>2
  <2>5. CASE WriteStep(h)
    BY <2>1, <2>5, WritesSpareData
  <2>6. ASSUME NEW sector \in DataSectors,
               ~IsSparse(handle[h].footer), handle[h].mode = "created", handle[h].stage = "ready",
               sector < images[handle[h].footer].blocks * SectorsPerBlock,
               Puts(h, sector, << Part("Data", handle[h].footer) >>, handle[h])
        PROVE  files'[p][i] = files[p][i]
    <3>. DEFINE r == handle[h]
                parts == << Part("Data", r.footer) >>
                f == files[r.path]
    <3>1. /\ Shape(r) /\ HandleOK(r) /\ r.path \in Paths /\ r.footer \in Ids /\ ImagesOK
          /\ f \in Seq(Sectors) /\ ~Creating(r)
      BY <2>1, <2>6, InvParts DEF Shape, Creating
    <3>2. /\ files' = [files EXCEPT ![r.path] = Put(f, sector, parts)]
          /\ soiled' = IF r.footer = owner[r.path] \/ parts = << >> THEN soiled
                       ELSE soiled \cup {r.path}
      BY <2>6 DEF Puts
    <3>3. CASE p # r.path
      BY <2>1, <3>2, <3>3, InvParts
    <3>4. CASE p = r.path
      <4>1. Owns(r)
        BY <2>1, <2>6, <3>1, <3>2, <3>4 DEF Owns
      <4>2. Whole(f, r.footer)
        BY <3>1, <4>1 DEF HandleOK, OwnerOK
      <4>3. sector \in Nat /\ sector < End(r.footer)
        BY <2>6, <3>1, Layout, ImageFilesAssumption
      <4>4. \A k \in DOMAIN f : f[k].is = "Data" => Put(f, sector, parts)[k] = f[k]
        BY <2>6, <3>1, <4>2, <4>3, DataKeeps
      <4>5. files'[p] = Put(f, sector, parts) /\ files[p] = f
        BY <2>1, <3>1, <3>2, <3>4, InvParts
      <4>. HIDE DEF f, parts
      <4>6. QED
        BY <2>1, <4>4, <4>5
    <3>5. QED
      BY <3>3, <3>4
  <2>7. QED
    BY <2>2, <2>3, <2>4, <2>5, <2>6
<1>2. Inv /\ [Next]_vars => [InPlace]_vars
  BY FootersInPlace
<1>3. Inv /\ [Next]_vars => [Spared /\ InPlace]_vars
  BY <1>1, <1>2
<1>4. QED
  BY <1>3, Invariance, PTL DEF Spec, FootersSpareData

\* What h does when another handle writes to a file that h may be reading: nothing but raced.
LEMMA OthersOnlyRace ==
    ASSUME Inv, NEW h \in Handles, NEW k \in Handles, h # k, NEW n, NEW p,
           GoesAndWrites(k, n, p), handle'[h] # handle[h]
    PROVE  handle'[h].raced # handle[h].raced
<1>1. handle'[h] = [handle[h] EXCEPT !.raced = TRUE]
  BY DEF GoesAndWrites
<1>2. handle[h] \in States
  BY InvParts
<1>. DEFINE m == handle[h]
            s == handle'[h]
<1>. HIDE DEF m, s
<1>3. m \in States /\ s = [m EXCEPT !.raced = TRUE] /\ s # m
  BY <1>1, <1>2 DEF m, s
<1>4. s.raced # m.raced
  BY <1>3 DEF States
<1>5. QED
  BY <1>4 DEF m, s

\* create_diff never changes the file of the parent it holds open, whichever path is given
\* for the new file: a path from a file to itself is refused before the file is truncated.
THEOREM ParentIsKeptAlways == Spec => ParentIsKept
<1>. DEFINE Kept == \A h \in Handles :
                      (handle'[h] # handle[h] /\ handle'[h].op = "create"
                          /\ handle[h].source # "none" /\ handle'[h].raced = handle[h].raced)
                      => files'[handle[h].source] = files[handle[h].source]
<1>1. Inv /\ [Next]_vars => [Kept]_vars
  <2>1. SUFFICES ASSUME Inv, Next,
                        NEW h \in Handles, handle'[h] # handle[h], handle'[h].op = "create",
                        handle[h].source # "none", handle'[h].raced = handle[h].raced
                 PROVE  files'[handle[h].source] = files[handle[h].source]
    OBVIOUS
  <2>2. PICK k \in Handles :
              \/ UNCHANGED <<files, images, owner, soiled, returned>>
              \/ \E n, id : Truncates(k, n, id)
              \/ WriteStep(k)
              \/ \E sector \in DataSectors :
                    /\ ~IsSparse(handle[k].footer) /\ handle[k].mode = "created"
                    /\ handle[k].stage = "ready"
                    /\ sector < images[handle[k].footer].blocks * SectorsPerBlock
                    /\ Puts(k, sector, << Part("Data", handle[k].footer) >>, handle[k])
    BY <2>1, StepKinds
  <2>3. handle[h].source \in Paths
    BY <2>1, InvParts DEF States, Names
  <2>4. CASE UNCHANGED <<files, images, owner, soiled, returned>>
    BY <2>4
  <2>5. ASSUME NEW n, NEW id, Truncates(k, n, id)
        PROVE  files'[handle[h].source] = files[handle[h].source]
    <3>1. GoesAndWrites(k, n, handle[k].path)
          /\ files' = [files EXCEPT ![handle[k].path] = << >>] /\ handle[k].stage = "truncate"
      BY <2>5 DEF Truncates
    <3>2. h = k
      BY <2>1, <3>1, OthersOnlyRace
    <3>3. Shape(handle[k])
      BY <2>1, InvParts
    <3>4. handle[h].source # handle[k].path
      BY <2>1, <3>1, <3>2, <3>3 DEF Shape, MayTruncate
    <3>5. QED
      BY <2>1, <2>3, <3>1, <3>4, InvParts
  <2>6. CASE WriteStep(k)
    <3>. DEFINE r == handle[k]
                at == r.todo[1].at
    <3>1. r \in States /\ Shape(r) /\ r.stage = "write"
      BY <2>1, <2>6, WriteDone
    <3>2. PICK parts \in Seq(Sectors), n \in {NextWrite(r), AfterError(r)} : Puts(k, at, parts, n)
      BY <2>1, <2>6, WriteDone
    <3>3. GoesAndWrites(k, n, r.path) /\ files' = [files EXCEPT ![r.path] = Put(@, at, parts)]
      BY <3>2 DEF Puts
    <3>4. h = k
      BY <2>1, <3>3, OthersOnlyRace
    <3>5. handle'[h] = n
      BY <3>3, <3>4 DEF GoesAndWrites
    <3>6. /\ n = Free \/ (n.stage = "ready" /\ n.op = "none") \/ n.op = r.op
      BY <3>1, AfterWrite
    <3>7. r.op = "create"
      BY <2>1, <3>5, <3>6 DEF Free
    <3>8. handle[h].source # r.path
      BY <2>1, <3>1, <3>4, <3>7 DEF Shape, Creating
    <3>9. QED
      BY <2>1, <2>3, <3>3, <3>8, InvParts
  <2>7. ASSUME NEW sector \in DataSectors,
               Puts(k, sector, << Part("Data", handle[k].footer) >>, handle[k])
        PROVE  files'[handle[h].source] = files[handle[h].source]
    <3>1. GoesAndWrites(k, handle[k], handle[k].path)
      BY <2>7 DEF Puts
    <3>2. h # k
      BY <2>1, <3>1 DEF GoesAndWrites
    <3>3. QED
      BY <2>1, <3>1, <3>2, OthersOnlyRace
  <2>8. QED
    BY <2>2, <2>4, <2>5, <2>6, <2>7
<1>2. QED
  BY <1>1, Invariance, PTL DEF Spec, ParentIsKept

=============================================================================
