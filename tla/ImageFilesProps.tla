--------------------------- MODULE ImageFilesProps ---------------------------
(***************************************************************************)
(* What becomes of image files that processes create, share and abandon.   *)
(***************************************************************************)
EXTENDS ImageFiles

Ids   == 1 .. Len(images)
Parts == {"Zero", "Torn", "Footer", "Header", "HeaderEnd", "Bat", "Locator", "Data"}

IsSectors(f) ==
    \A i \in DOMAIN f : f[i].is \in Parts /\ f[i].id \in {NoImage} \cup Ids

TypeOK ==
    /\ \A p \in Paths : IsSectors(files[p])
    /\ Len(images) <= MaxImages
    /\ \A id \in Ids : /\ images[id].type \in Types
                       /\ images[id].blocks \in 0 .. MaxBlocks
                       /\ images[id].type = "Diff" <=> images[id].parent # NoImage
    /\ \A h \in Handles :
          LET r == handle[h]
          IN  /\ r.stage \in {"free", "footer", "header", "bat", "truncate", "write",
                              "ready", "panicked"}
              /\ r.stage = "write" <=> r.todo # << >>
              /\ r.footer \in {NoImage} \cup Ids /\ r.header \in {NoImage} \cup Ids
              /\ r.mode = "created" => r.footer # NoImage
              /\ \A w \in ToSet(r.todo) : w.at \in Nat /\ IsSectors(w.parts) /\ w.parts # << >>
    /\ owner \in [Paths -> {NoImage} \cup Ids]
    /\ soiled \subseteq Paths /\ returned \subseteq Ids

-----------------------------------------------------------------------------
(* A file, as open sees it when nothing happens meanwhile *)

Opens(f) ==
    /\ EndsInFooter(f)
    /\ IsSparse(Last(f).id) =>
          HasHeader(f) /\ CanReadExact(f, BatAt, BatSectors(f[2].id))

\* The sectors of an image are all in the file, and nothing lies behind them.
HoldsBat(f, id) ==
    \A i \in 1 .. BatSectors(id) : f[BatAt + i] = Part("Bat", id)
Holds(f, id) ==
    /\ Len(f) = End(id) + 1
    /\ f[End(id) + 1] = Part("Footer", id)
    /\ IF IsSparse(id)
       THEN /\ f[1] = Part("Footer", id)
            /\ f[2] = Part("Header", id) /\ f[3] = Part("HeaderEnd", id)
            /\ \A i \in 1 .. Locators(id) :
                  f[BatAt + BatSectors(id) + i] = Part("Locator", id)
       ELSE \A i \in 1 .. End(id) : f[i] \in {ZeroPart, Part("Data", id)}

-----------------------------------------------------------------------------
\* Wherever a create stopped or failed, and whatever its flushes left torn: as long
\* as no handle on an older image wrote to the file, it is either refused or
\* holds the whole of the image it was last truncated for (the order of the
\* writes of the two create functions; the BAT is another matter).
WhatOpensIsWhole ==
    \A p \in Paths \ soiled : Opens(files[p]) => Holds(files[p], owner[p])

\* An image that create_* returned stays one that opens, through failed and torn
\* flushes, drops and crashes, until its file is truncated or written to by a
\* handle on an older image.
ReturnedStays ==
    \A p \in Paths \ soiled :
        owner[p] \in returned => Opens(files[p]) /\ Holds(files[p], owner[p])

\* A handle that opened a sparse image while nobody wrote to the file has the
\* footer and the header of one image, and all of its BAT, or zeroes where
\* the writing of the BAT failed.
OpenedIsOneImage ==
    \A h \in Handles :
        LET r == handle[h]
        IN  (r.stage = "ready" /\ r.mode = "opened" /\ ~r.raced /\ IsSparse(r.footer)) =>
                /\ r.header = r.footer
                /\ Len(r.bat) = BatSectors(r.footer)
                /\ \A i \in DOMAIN r.bat : r.bat[i] \in {Part("Bat", r.footer), ZeroPart, TornPart}

\* The data of a fixed disk is overwritten by writes of data only, unless the file
\* is truncated or an older image's handle writes to it.  And whatever became of the file
\* since, created anew or grown: flush and Drop (image.rs:14-19, 43-48) change those
\* sectors of it where the handle's own image has footers, and no other file.
FooterPlaces(id) == {End(id) + 1} \cup (IF IsSparse(id) THEN {1} ELSE {})
FootersSpareData ==
    [][/\ \A p \in Paths \ soiled' :
             \A i \in DOMAIN files[p] :
                (files[p][i].is = "Data" /\ files'[p] # << >>) => files'[p][i] = files[p][i]
       /\ \A h \in Handles :
             LET r == handle[h]
             IN  (r.stage = "write" /\ r.op \in {"flush", "drop"} /\ handle'[h] # r) =>
                    \A p \in Paths :
                       \/ files'[p] = files[p]
                       \/ /\ p = r.path
                          /\ \A i \in DOMAIN files[p] \ FooterPlaces(r.footer) :
                                files'[p][i] = files[p][i]]_vars

\* Creating a differencing disk never changes the file of its parent, which it
\* holds open, whichever path the caller gives for the new file (image.rs:127-149).  A
\* file has one path here: another spelling of it, or a link, is not considered.
ParentIsKept ==
    [][\A h \in Handles :
          (handle'[h] # handle[h] /\ handle'[h].op = "create" /\ handle[h].source # "none"
              /\ handle'[h].raced = handle[h].raced)
          => files'[handle[h].source] = files[handle[h].source]]_vars

\* No disk is larger than MAX_VHD_SIZE, a differencing disk is as large as its parent,
\* and its parent is a sparse disk.
SizesAreRight ==
    \A id \in Ids :
        /\ images[id].blocks <= MaxBlocks
        /\ images[id].type = "Diff" =>
              /\ IsSparse(images[id].parent)
              /\ images[id].blocks = images[images[id].parent].blocks

-----------------------------------------------------------------------------
(* What the code's own words say, and the code does not do *)

\* lib.rs:69, "Unused entries are marked as 0xFFFFFFFF": the BAT of an image that
\* create_* returned is in its file.
UnusedEntriesAreMarked ==
    \A p \in Paths \ soiled :
        owner[p] \in returned /\ IsSparse(owner[p]) => HoldsBat(files[p], owner[p])
=============================================================================
