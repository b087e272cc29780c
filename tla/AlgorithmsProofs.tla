--------------------------- MODULE AlgorithmsProofs ---------------------------
(***************************************************************************)
(* What Algorithms checks for some inputs, for all: of any length of path, *)
(* any size of disk, any number of blocks and whatever bytes are in the     *)
(* fields of a struct.                                                     *)
(***************************************************************************)
EXTENDS Algorithms, VhdMathProofs, FiniteSetTheorems, SequenceTheorems

-----------------------------------------------------------------------------
(* The inputs *)

InputOK ==
    /\ input.of = "paths" => input.file \in Seq(STRING) /\ input.parent \in Seq(STRING)
    /\ input.of = "disk" => input.sectors \in Nat
    /\ input.of = "table" => input.blocks \in Nat /\ input.isDiff \in BOOLEAN
    /\ input.of = "struct" => input.type \in Structs /\ input.filling \in AnyFilling
    /\ input.of = "child" => input.header \in AnyFilling /\ input.footer \in AnyFilling
    /\ input.of = "damage" =>
          /\ input.type \in Checked /\ input.filling \in AnyFilling
          /\ input.half \in {1, 2} /\ input.byte \in Nat \cup {-1}

LEMMA InputsAreInputs == Spec => []InputOK
<1>1. Init => InputOK
  BY DEF Init, Nothing, InputOK
<1>2. InputOK /\ [Next]_input => InputOK'
  <2> SUFFICES ASSUME InputOK, [Next]_input PROVE InputOK'
    OBVIOUS
  <2>1. CASE PickPaths
    BY <2>1, InputAssumption DEF PickPaths, InputOK
  <2>2. CASE PickDisk
    BY <2>2, InputAssumption DEF PickDisk, InputOK
  <2>3. CASE PickTable
    BY <2>3, InputAssumption DEF PickTable, InputOK
  <2>4. CASE PickStruct
    BY <2>4, InputAssumption DEF PickStruct, InputOK
  <2>5. CASE PickChild
    BY <2>5, InputAssumption DEF PickChild, InputOK
  <2>6. CASE PickDamage
    BY <2>6, InputAssumption DEF PickDamage, InputOK
  <2>7. CASE input' = Nothing
    BY <2>7 DEF Nothing, InputOK
  <2>8. CASE UNCHANGED input
    BY <2>8 DEF InputOK
  <2> QED
    BY <2>1, <2>2, <2>3, <2>4, <2>5, <2>6, <2>7, <2>8 DEF Next, Pick
<1> QED
  BY <1>1, <1>2, PTL DEF Spec

-----------------------------------------------------------------------------
(* Induction *)

\* Induction over 0 .. n, with a set for the predicate: of the numbers that are missing
\* in T take the one with the fewest missing numbers below it.
LEMMA Induction ==
    ASSUME NEW n \in Nat, NEW T \in SUBSET (0 .. n), 0 \in T,
           \A i \in 1 .. n : i - 1 \in T => i \in T
    PROVE  T = 0 .. n
<1> DEFINE N        == 0 .. n
           Missing  == N \ T
           Below(k) == {i \in Missing : i < k}
           W        == {Below(k) : k \in Missing}
           R        == StrictSubsetOrdering(N)
<1>1. IsFiniteSet(N)
  BY FS_Interval
<1>2. IsWellFoundedOn(R, SUBSET N)
  BY Zenon, <1>1, FS_StrictSubsetOrderingWellFounded, FS_FiniteSubsetsOfFinite
<1>3. SUFFICES ASSUME Missing # {} PROVE FALSE
  BY Zenon, <1>3
<1>4. W \subseteq SUBSET N /\ W # {}
  <2>1. \A k \in Missing : Below(k) \subseteq N
    BY Zenon
  <2> QED
    BY Zenon, <1>3, <2>1
<1>5. PICK w \in W : \A v \in W : ~ (<< v, w >> \in R)
  <2> HIDE DEF W, R
  <2> QED
    BY Zenon, <1>2, <1>4, WFMin
<1>6. PICK m \in Missing : w = Below(m)
  BY Zenon, <1>5
<1>7. m \in 1 .. n /\ m - 1 \in Missing
  <2>1. m \in 0 .. n /\ m \notin T
    BY Zenon
  <2>2. m # 0
    BY Zenon, <2>1
  <2>3. m \in 1 .. n /\ m - 1 \in 0 .. n
    BY SMT, <2>1, <2>2
  <2> QED
    BY Zenon, <2>1, <2>3
<1>8. Below(m - 1) \subseteq Below(m) /\ Below(m - 1) # Below(m)
  <2>1. \A i \in Missing : i < m - 1 => i < m
    BY SMT, <1>7
  <2>2. m - 1 \in Below(m) /\ m - 1 \notin Below(m - 1)
    <3>1. m - 1 < m /\ ~(m - 1 < m - 1)
      BY SMT, <1>7
    <3> QED
      BY Zenon, <1>7, <3>1
  <2> QED
    BY Zenon, <2>1, <2>2
<1>9. Below(m - 1) \in W /\ Below(m - 1) \subseteq N /\ Below(m) \subseteq N
  BY Zenon, <1>7
<1> HIDE DEF Below, W
<1>10. << Below(m - 1), Below(m) >> \in R
  BY SMT, <1>8, <1>9 DEF StrictSubsetOrdering
<1> QED
  BY Zenon, <1>5, <1>6, <1>9, <1>10

-----------------------------------------------------------------------------
(* Geometry *)

LEMMA TotalSectorsBounds ==
    ASSUME NEW n \in Nat
    PROVE  TotalSectors(n) \in Nat /\ TotalSectors(n) <= MostSectors
<1>1. n % 8388608 \in Nat /\ n % 8388608 < 8388608
  BY SMT
<1> QED
  BY SMT, <1>1 DEF TotalSectors, MostSectors, SectorsOfU32

\* One of four shapes; where 17 sectors are on a track, heads are few and tracks fewer
\* than 1024 to a head.
LEMMA ShapeBounds ==
    ASSUME NEW t \in Nat, t <= MostSectors
    PROVE  \/ ShapeOf(t) = Shape(255, 16)
           \/ ShapeOf(t) = Shape(16, 63) /\ t <= 65535 * 16 * 63
           \/ ShapeOf(t) = Shape(16, 31) /\ t \div 31 < 16 * 1024
           \/ \E h \in 4 .. 16 : ShapeOf(t) = Shape(h, 17) /\ t \div 17 < h * 1024
<1> DEFINE tracks == t \div 17
           ceil   == (tracks + 1023) \div 1024
           heads  == IF ceil < 4 THEN 4 ELSE ceil
<1>1. tracks \in Nat /\ ceil \in Nat
  <2>1. tracks \in Nat
    BY SMT
  <2> QED
    BY SMT, <2>1
<1>2. heads \in Nat /\ heads >= 4
  BY SMT, <1>1
<1>3. First(t) = IF tracks >= heads * 1024 \/ heads > 16 THEN Shape(16, 31)
                                                         ELSE Shape(heads, 17)
  BY SMT DEF First
<1> HIDE DEF tracks, heads
<1>4. CASE t > 65535 * 16 * 63
  BY SMT, <1>4 DEF ShapeOf
<1>5. CASE ~(t > 65535 * 16 * 63) /\ (tracks >= heads * 1024 \/ heads > 16)
  <2>1. First(t).spt = 31 /\ First(t).heads = 16
    BY SMT, <1>3, <1>5 DEF Shape
  <2> QED
    BY SMT, <1>1, <1>3, <1>5, <2>1 DEF ShapeOf
<1>6. CASE ~(t > 65535 * 16 * 63) /\ ~(tracks >= heads * 1024 \/ heads > 16)
  <2>1. First(t) = Shape(heads, 17) /\ First(t).spt = 17 /\ First(t).heads = heads
    BY SMT, <1>3, <1>6 DEF Shape
  <2>2. tracks < heads * 1024 /\ heads \in 4 .. 16
    BY SMT, <1>1, <1>2, <1>6
  <2>3. t \div 17 = tracks
    BY SMT DEF tracks
  <2>4. ShapeOf(t) = Shape(heads, 17)
    BY SMT, <1>6, <2>1, <2>2, <2>3, <1>1, <1>2 DEF ShapeOf
  <2> QED
    BY SMT, <2>2, <2>3, <2>4
<1> QED
  BY SMT, <1>4, <1>5, <1>6

\* The cylinders that fit into a disk: with h heads and s sectors, what is left over is less
\* than a cylinder.
LEMMA CylinderBounds ==
    ASSUME NEW t \in Nat, NEW h \in Nat \ {0}, NEW s \in {16, 17, 31, 63}
    PROVE  /\ (t \div s) \div h \in Nat
           /\ ((t \div s) \div h) * h * s <= t
           /\ t - ((t \div s) \div h) * h * s < h * s
<1> DEFINE x == t \div s
           c == x \div h
<1>1. x \in Nat /\ t % s \in 0 .. s - 1 /\ t = s * x + (t % s)
  BY SMT
<1>2. c \in Nat /\ x % h \in 0 .. h - 1 /\ x = h * c + (x % h)
  BY Zenon, <1>1, DivMod
<1>3. h * c \in Nat /\ c * h = h * c
  BY SMT, <1>2, MulNat, MulCommutes
<1> HIDE DEF x, c
<1>4. c * h * s <= t /\ t - c * h * s < h * s
  BY SMT, <1>1, <1>2, <1>3
<1> QED
  BY SMT, <1>2, <1>4 DEF x, c

LEMMA FewCylinders ==
    ASSUME NEW x \in Nat, NEW h \in Nat \ {0}, x < h * 1024
    PROVE  x \div h < 1024
<1>1. x \div h \in Nat /\ x % h \in 0 .. h - 1 /\ x = h * (x \div h) + (x % h)
  BY Zenon, DivMod
<1>2. h * (x \div h) = (x \div h) * h /\ (x \div h) * h \in Nat
  BY SMT, <1>1, MulCommutes, MulNat
<1>3. (x \div h) * h < 1024 * h
  BY SMT, <1>1, <1>2
<1> QED
  BY SMT, <1>1, <1>3, MulLess

\* The fields of the footer hold every geometry (geometry.rs:35-76, footer.rs:93-97).
THEOREM GeometryFitsAlways == Spec => []GeometryFits
<1>1. ASSUME NEW n \in Nat, TRUE
      PROVE  LET geo == WithVhdCapacity(n)
             IN  Stored(geo) = geo /\ geo.heads > 0 /\ geo.sectorsPerTrack > 0
  <2> DEFINE t   == TotalSectors(n)
             s   == ShapeOf(t)
             c   == Cylinders(t, s)
             geo == WithVhdCapacity(n)
  <2>1. t \in Nat /\ t <= MostSectors
    BY Zenon, TotalSectorsBounds
  <2>2. geo = [cylinders |-> c, heads |-> s.heads, sectorsPerTrack |-> s.spt]
    BY SMT DEF WithVhdCapacity
  <2> HIDE DEF t
  <2> DEFINE fits == /\ c \in Nat /\ c < 65536
                     /\ s.heads \in 1 .. 255 /\ s.spt \in 1 .. 255
  <2>3. fits
    <3>1. CASE s = Shape(255, 16)
      BY SMT, <2>1, <3>1 DEF Shape, Cylinders, MostSectors
    <3>2. CASE s = Shape(16, 63) /\ t <= 65535 * 16 * 63
      BY SMT, <2>1, <3>2 DEF Shape, Cylinders
    <3>3. CASE s = Shape(16, 31) /\ t \div 31 < 16 * 1024
      BY SMT, <2>1, <3>3 DEF Shape, Cylinders
    <3>4. ASSUME NEW h \in 4 .. 16, s = Shape(h, 17), t \div 17 < h * 1024
          PROVE  fits
      <4> DEFINE x == t \div 17
      <4>1. x \in Nat /\ h \in Nat \ {0} /\ x < h * 1024
        BY SMT, <2>1, <3>4
      <4> HIDE DEF x
      <4>2. x \div h < 1024 /\ x \div h \in Nat
        BY SMT, <4>1, FewCylinders, DivMod
      <4>3. s.heads = h /\ s.spt = 17
        BY SMT, <3>4 DEF Shape
      <4>4. c = x \div h
        BY SMT, <4>3 DEF Cylinders, x
      <4> QED
        BY SMT, <4>2, <4>3, <4>4
    <3>5. \/ s = Shape(255, 16)
          \/ s = Shape(16, 63) /\ t <= 65535 * 16 * 63
          \/ s = Shape(16, 31) /\ t \div 31 < 16 * 1024
          \/ \E h \in 4 .. 16 : s = Shape(h, 17) /\ t \div 17 < h * 1024
      BY SMT, <2>1, ShapeBounds
    <3> HIDE DEF s, c, fits
    <3>6. CASE \E h \in 4 .. 16 : s = Shape(h, 17) /\ t \div 17 < h * 1024
      <4>1. PICK h \in 4 .. 16 : s = Shape(h, 17) /\ t \div 17 < h * 1024
        BY Zenon, <3>6
      <4> QED
        BY SMT, <3>4, <4>1
    <3> QED
      BY SMT, <3>1, <3>2, <3>3, <3>5, <3>6
  <2> HIDE DEF s, c, geo
  <2>4. /\ c % 65536 = c /\ s.heads % 256 = s.heads /\ s.spt % 256 = s.spt
    BY SMT, <2>3
  <2>5. Stored(geo) = geo /\ geo.heads > 0 /\ geo.sectorsPerTrack > 0
    BY SMT, <2>2, <2>3, <2>4 DEF Stored
  <2> QED
    BY Zenon, <2>5 DEF geo
<1>2. InputOK => GeometryFits
  BY Zenon, <1>1 DEF InputOK, GeometryFits
<1> QED
  BY <1>2, InputsAreInputs, PTL

\* Below 4 GiB a disk loses less than a cylinder to its geometry (geometry.rs:35-76).
THEOREM GeometryLosesLessAlways == Spec => []GeometryLosesLess
<1>1. ASSUME NEW n \in Nat, n < SectorsOfU32
      PROVE  LET geo == WithVhdCapacity(n)
             IN  /\ CapacityInSectors(geo) <= n
                 /\ n - CapacityInSectors(geo) < geo.heads * geo.sectorsPerTrack
  <2> DEFINE s   == ShapeOf(n)
             c   == Cylinders(n, s)
             geo == WithVhdCapacity(n)
  <2>1. TotalSectors(n) = n /\ n <= MostSectors
    BY SMT, <1>1 DEF TotalSectors, MostSectors, SectorsOfU32
  <2>2. geo = [cylinders |-> c, heads |-> s.heads, sectorsPerTrack |-> s.spt]
    BY SMT, <2>1 DEF WithVhdCapacity
  <2>3. s.heads \in Nat \ {0} /\ s.spt \in {16, 17, 31, 63}
    <3>1. \/ s = Shape(255, 16)
          \/ s = Shape(16, 63)
          \/ s = Shape(16, 31)
          \/ \E h \in 4 .. 16 : s = Shape(h, 17)
      BY SMT, <2>1, ShapeBounds
    <3> HIDE DEF s
    <3> QED
      BY SMT, <3>1 DEF Shape
  <2>4. c = (n \div s.spt) \div s.heads
    BY Zenon DEF Cylinders
  <2> HIDE DEF s, c, geo
  <2>5. c * s.heads * s.spt <= n /\ n - c * s.heads * s.spt < s.heads * s.spt
    BY Zenon, <2>3, <2>4, CylinderBounds
  <2>6. geo.heads = s.heads /\ geo.sectorsPerTrack = s.spt
    BY SMT, <2>2
  <2>7. CapacityInSectors(geo) = c * s.heads * s.spt
    BY SMT, <2>2 DEF CapacityInSectors
  <2>8. CapacityInSectors(geo) <= n /\ n - CapacityInSectors(geo) < geo.heads * geo.sectorsPerTrack
    BY Zenon, <2>5, <2>6, <2>7
  <2> QED
    BY Zenon, <2>8 DEF geo
<1>2. InputOK => GeometryLosesLess
  BY Zenon, <1>1 DEF InputOK, GeometryLosesLess
<1> QED
  BY <1>2, InputsAreInputs, PTL

-----------------------------------------------------------------------------
(* The parts of a sparse file *)

\* The two computations of the layout agree for every number of blocks
\* (sparse.rs:194-215, header.rs:117-141).
THEOREM LayoutTilesAlways == Spec => []LayoutTiles
<1>1. ASSUME NEW n \in Nat, NEW d \in BOOLEAN
      PROVE  /\ BatRead(n) = BatWritten(n)
             /\ LocatorOffset(n, 0) = DefaultTableOffset + BatWritten(n)
             /\ LocatorOffset(n, 1) = LocatorOffset(n, 0) + Sector
             /\ NextBlockPos(n, d) = IF d THEN LocatorOffset(n, 1) + Sector
                                         ELSE LocatorOffset(n, 0)
             /\ NextBlockPos(n, d) % Sector = 0
  <2>1. BatWritten(n) \in Nat /\ BatWritten(n) % 512 = 0 /\ BatRead(n) = BatWritten(n)
    BY SMT DEF BatRead, BatWritten, RoundUp, Ceil, Sector
  <2> QED
    BY SMT, <2>1 DEF LocatorOffset, NextBlockPos, BatWritten, DefaultTableOffset,
                     DefaultHeaderOffset, FooterSize, HeaderSize, Sector
<1>2. InputOK => LayoutTiles
  BY Zenon, <1>1 DEF InputOK, LayoutTiles
<1> QED
  BY <1>2, InputsAreInputs, PTL

\* A disk of 2040 GiB, the largest (image.rs:83), with all of its blocks in the file: the sector
\* of a block's last data, which sparse.rs:308 adds up and sparse.rs:458 cuts in u32, is
\* below 2^32, and so is that of the footer behind it.
THEOREM LargestDiskFits ==
    ASSUME NEW blocks \in Nat, blocks <= 1044480, NEW isDiff \in BOOLEAN
    PROVE  NextBlockPos(blocks, isDiff) \div Sector + blocks * (1 + 4096) < 65536 * 65536
BY SMT DEF NextBlockPos, BatWritten, RoundUp, Ceil, DefaultTableOffset, DefaultHeaderOffset,
           FooterSize, HeaderSize, Sector

-----------------------------------------------------------------------------
(* Paths *)

LEMMA Common ==
    ASSUME NEW file \in Seq(STRING), NEW parent \in Seq(STRING)
    PROVE  CommonNodes(file, parent) \in Nat
<1>1. Len(file) \in Nat /\ Len(parent) \in Nat
  BY LenProperties
<1>2. MinOf(Len(file), Len(parent)) \in Int
  BY <1>1 DEF MinOf
<1>3. IsFiniteSet(1 .. MinOf(Len(file), Len(parent)))
  BY <1>2, FS_Interval
<1>4. IsFiniteSet(Matches(file, parent))
  BY <1>3, FS_Subset DEF Matches
<1> QED
  BY <1>4, FS_CardinalityType DEF CommonNodes

\* The path that is stored leads to the parent, for paths of any length
\* (header.rs:192-227).
THEOREM RelativePathResolvesAlways == Spec => []RelativePathResolves
<1>1. ASSUME NEW file \in Seq(STRING), NEW parent \in Seq(STRING), PartForGood(file, parent)
      PROVE  LET path == RelativePathTo(file, parent)
             IN  /\ path.error = "none" => Resolve(file, path) = parent
                 /\ path.error = "overflow" => Begins(file, parent)
  <2> DEFINE c    == CommonNodes(file, parent)
             path == RelativePathTo(file, parent)
  <2>1. c \in Nat /\ Len(file) \in Nat /\ Len(parent) \in Nat
    BY Common, LenProperties
  <2>2. Matches(file, parent) = 1 .. c
    BY <1>1 DEF PartForGood
  <2>3. ASSUME c > 0
        PROVE  c <= Len(file) /\ c <= Len(parent) /\ \A i \in 1 .. c : file[i] = parent[i]
    <3>1. c \in Matches(file, parent)
      BY SMT, <2>1, <2>2, <2>3
    <3>2. c \in 1 .. MinOf(Len(file), Len(parent))
      BY Zenon, <3>1 DEF Matches
    <3>3. \A i \in 1 .. c : file[i] = parent[i]
      BY Zenon, <2>2 DEF Matches
    <3> QED
      BY SMT, <2>1, <3>2, <3>3 DEF MinOf
  <2> HIDE DEF c
  <2>4. ASSUME path.error = "none" PROVE Resolve(file, path) = parent
    <3>1. /\ c # 0 /\ UpNodes(file, parent) = Len(file) - c - 1
          /\ path = Path(Len(file) - c - 1, SubSeq(parent, c + 1, Len(parent)))
      BY SMT, <2>4 DEF RelativePathTo, Refused, UpNodes, c
    <3> HIDE DEF path
    <3>2. /\ path.up = Len(file) - c - 1
          /\ path.rest = SubSeq(parent, c + 1, Len(parent))
      BY Zenon, <3>1 DEF Path
    <3>3. Resolve(file, path) = SubSeq(file, 1, c) \o SubSeq(parent, c + 1, Len(parent))
      <4>1. Len(file) - 1 - path.up = c
        BY SMT, <2>1, <3>2
      <4> QED
        BY Zenon, <4>1, <3>2 DEF Resolve
    <3>4. c <= Len(file) /\ c <= Len(parent) /\ c > 0 /\ \A i \in 1 .. c : file[i] = parent[i]
      BY SMT, <2>1, <2>3, <3>1
    <3> DEFINE s == SubSeq(file, 1, c)
               t == SubSeq(parent, c + 1, Len(parent))
    <3>5. /\ s \in Seq(STRING) /\ Len(s) = c
          /\ \A i \in 1 .. c : s[i] = file[i]
      <4>1. \A i \in 1 .. c : file[i] \in STRING
        BY SMT, <2>1, <3>4
      <4> QED
        BY SMT, <2>1, <3>4, <4>1, SubSeqProperties
    <3>6. /\ t \in Seq(STRING) /\ Len(t) = Len(parent) - c
          /\ \A i \in 1 .. Len(parent) - c : t[i] = parent[c + i]
      <4>1. \A i \in c + 1 .. Len(parent) : parent[i] \in STRING
        BY SMT, <2>1, <3>4
      <4> QED
        BY SMT, <2>1, <3>4, <4>1, SubSeqProperties
    <3> HIDE DEF s, t
    <3> DEFINE st == s \o t
    <3>7. /\ st \in Seq(STRING) /\ Len(st) = Len(parent)
          /\ \A i \in 1 .. Len(parent) : st[i] = IF i <= c THEN s[i] ELSE t[i - c]
      BY SMT, <2>1, <3>4, <3>5, <3>6, ConcatProperties
    <3> HIDE DEF st
    <3>8. ASSUME NEW i \in 1 .. Len(parent) PROVE st[i] = parent[i]
      <4>1. CASE i <= c
        BY SMT, <2>1, <3>4, <3>5, <3>7, <4>1
      <4>2. CASE ~(i <= c)
        <5>1. i - c \in 1 .. Len(parent) - c /\ c + (i - c) = i
          BY SMT, <2>1, <4>2
        <5>2. st[i] = t[i - c] /\ t[i - c] = parent[c + (i - c)]
          BY Zenon, <3>6, <3>7, <4>2, <5>1
        <5> QED
          BY Zenon, <5>1, <5>2
      <4> QED
        BY <4>1, <4>2
    <3>9. st = parent
      BY Zenon, <3>7, <3>8, SeqEqual
    <3> QED
      BY Zenon, <3>3, <3>9 DEF s, t, st
  <2>5. ASSUME path.error = "overflow" PROVE Begins(file, parent)
    <3>1. c # 0 /\ Len(file) - c - 1 < 0
      BY SMT, <2>5 DEF RelativePathTo, Refused, Path, UpNodes, c
    <3>2. c = Len(file) /\ Len(file) <= Len(parent) /\ \A i \in 1 .. c : file[i] = parent[i]
      BY SMT, <2>1, <2>3, <3>1
    <3> QED
      BY SMT, <2>1, <3>2 DEF Begins
  <2> QED
    BY <2>4, <2>5
<1>2. InputOK => RelativePathResolves
  BY Zenon, <1>1 DEF InputOK, RelativePathResolves
<1> QED
  BY <1>2, InputsAreInputs, PTL

-----------------------------------------------------------------------------
(* The sum of the bytes of a struct *)

\* s[i] is the sum of the first i fields of a struct of n.
IsSum(s, struct, n) ==
    /\ s \in [0 .. n -> Int]
    /\ s[0] = 0
    /\ \A i \in 1 .. n : s[i] = s[i - 1] + struct[i][1] + struct[i][2]

AreBytes(struct, n) ==
    \A i \in 1 .. n : struct[i][1] \in 0 .. Radix - 1 /\ struct[i][2] \in 0 .. Radix - 1

LEMMA SumExists ==
    ASSUME NEW x, NEW n \in Nat, \A i \in 1 .. n : x[i][1] \in Int /\ x[i][2] \in Int
    PROVE  \E s : IsSum(s, x, n)
<1> DEFINE T == {k \in 0 .. n : \E s : IsSum(s, x, k)}
<1>1. T \in SUBSET (0 .. n)
  BY Zenon
<1>2. 0 \in T
  <2>1. IsSum([i \in 0 .. 0 |-> 0], x, 0)
    BY SMT DEF IsSum
  <2> QED
    BY SMT, <2>1
<1>3. ASSUME NEW k \in 1 .. n, k - 1 \in T PROVE k \in T
  <2>1. PICK s : IsSum(s, x, k - 1)
    BY Zenon, <1>3
  <2> DEFINE next == s[k - 1] + x[k][1] + x[k][2]
             t    == [i \in 0 .. k |-> IF i = k THEN next ELSE s[i]]
  <2>2. k \in Nat /\ 0 .. k = (0 .. k - 1) \cup {k} /\ k - 1 \in 0 .. k - 1 /\ k \notin 0 .. k - 1
    BY SMT
  <2>3. s \in [0 .. k - 1 -> Int] /\ s[0] = 0
    BY Zenon, <2>1 DEF IsSum
  <2>4. next \in Int
    BY SMT, <2>2, <2>3
  <2>5. t \in [0 .. k -> Int]
    BY SMT, <2>2, <2>3, <2>4
  <2>6. ASSUME NEW i \in 1 .. k PROVE t[i] = t[i - 1] + x[i][1] + x[i][2]
    <3>1. CASE i = k
      BY SMT, <2>2, <3>1
    <3>2. CASE i # k
      <4>1. i \in 1 .. k - 1 /\ i - 1 \in 0 .. k - 1 /\ i - 1 # k
        BY SMT, <3>2
      <4>2. s[i] = s[i - 1] + x[i][1] + x[i][2]
        BY Zenon, <2>1, <4>1 DEF IsSum
      <4>3. t[i] = s[i] /\ t[i - 1] = s[i - 1]
        BY SMT, <3>2, <4>1
      <4> QED
        BY Zenon, <4>2, <4>3
    <3> QED
      BY <3>1, <3>2
  <2>7. t[0] = 0
    BY SMT, <2>2, <2>3
  <2> HIDE DEF t
  <2>8. IsSum(t, x, k)
    BY Zenon, <2>5, <2>6, <2>7 DEF IsSum
  <2>9. k \in 0 .. n
    BY SMT
  <2> QED
    BY Zenon, <2>8, <2>9
<1> HIDE DEF T
<1>4. T = 0 .. n
  BY Zenon, <1>1, <1>2, <1>3, Induction
<1>5. n \in T
  BY SMT, <1>4
<1> QED
  BY Zenon, <1>5 DEF T

\* The first n fields of x are not more than those of y.
Ordered(x, y, n) ==
    \A i \in 1 .. n : /\ x[i][1] \in Int /\ x[i][2] \in Int
                      /\ y[i][1] \in Int /\ y[i][2] \in Int
                      /\ x[i][1] <= y[i][1] /\ x[i][2] <= y[i][2]

\* Bytes that are not less make a sum that is not less, and one that is more if one is.
LEMMA SumsOrdered ==
    ASSUME NEW n \in Nat, NEW x, NEW y, NEW s, NEW t, IsSum(s, x, n), IsSum(t, y, n),
           Ordered(x, y, n)
    PROVE  /\ s[n] \in Int /\ t[n] \in Int
           /\ s[n] <= t[n]
           /\ s[n] = t[n] => \A i \in 1 .. n : x[i][1] = y[i][1] /\ x[i][2] = y[i][2]
<1> DEFINE Same(i) == x[i][1] = y[i][1] /\ x[i][2] = y[i][2]
           T == {k \in 0 .. n : s[k] <= t[k] /\ (s[k] = t[k] => \A i \in 1 .. k : Same(i))}
<1>1. \A k \in 0 .. n : s[k] \in Int /\ t[k] \in Int
  BY SMT DEF IsSum
<1>2. T \in SUBSET (0 .. n)
  BY Zenon
<1>3. 0 \in T
  BY SMT DEF IsSum
<1>4. ASSUME NEW k \in 1 .. n, k - 1 \in T PROVE k \in T
  <2>1. k \in 0 .. n /\ k - 1 \in 0 .. n /\ 1 .. k = (1 .. k - 1) \cup {k}
    BY SMT
  <2>2. /\ s[k] = s[k - 1] + x[k][1] + x[k][2]
        /\ t[k] = t[k - 1] + y[k][1] + y[k][2]
    BY Zenon DEF IsSum
  <2>3. s[k - 1] <= t[k - 1] /\ (s[k - 1] = t[k - 1] => \A i \in 1 .. k - 1 : Same(i))
    BY Zenon, <1>4
  <2>4. s[k - 1] \in Int /\ t[k - 1] \in Int /\ s[k] \in Int /\ t[k] \in Int
    BY Zenon, <1>1, <2>1
  <2>5. s[k] <= t[k] /\ (s[k] = t[k] => s[k - 1] = t[k - 1] /\ Same(k))
    BY SMT, <2>2, <2>3, <2>4 DEF Ordered
  <2>6. s[k] = t[k] => \A i \in 1 .. k : Same(i)
    BY Zenon, <2>1, <2>3, <2>5
  <2> QED
    BY Zenon, <2>1, <2>5, <2>6
<1> HIDE DEF T
<1>5. T = 0 .. n
  BY Zenon, <1>2, <1>3, <1>4, Induction
<1>6. n \in T /\ n \in 0 .. n
  BY SMT, <1>5
<1> QED
  BY Zenon, <1>1, <1>6 DEF T

\* A sum is never more than its fields can hold.
LEMMA SumBounded ==
    ASSUME NEW n \in Nat, NEW x, AreBytes(x, n), NEW s, IsSum(s, x, n)
    PROVE  s[n] \in 0 .. 2 * (Radix - 1) * n
<1> DEFINE T == {k \in 0 .. n : s[k] \in 0 .. 2 * (Radix - 1) * k}
<1>1. T \in SUBSET (0 .. n)
  BY Zenon
<1>2. 0 \in T
  BY SMT DEF IsSum, Radix
<1>3. ASSUME NEW k \in 1 .. n, k - 1 \in T PROVE k \in T
  <2>1. k \in 0 .. n /\ k - 1 \in 0 .. n
    BY SMT
  <2>2. s[k] = s[k - 1] + x[k][1] + x[k][2] /\ x[k][1] \in 0 .. 63 /\ x[k][2] \in 0 .. 63
    BY SMT DEF IsSum, AreBytes, Radix
  <2>3. s[k - 1] \in 0 .. 126 * (k - 1)
    BY SMT, <1>3 DEF Radix
  <2>4. ASSUME NEW a \in 0 .. 126 * (k - 1), NEW b \in 0 .. 63, NEW c \in 0 .. 63
        PROVE  a + b + c \in 0 .. 126 * k
    BY SMT
  <2>5. s[k] \in 0 .. 126 * k
    BY Zenon, <2>2, <2>3, <2>4
  <2> QED
    BY SMT, <2>1, <2>5 DEF Radix
<1> HIDE DEF T
<1>4. T = 0 .. n
  BY Zenon, <1>1, <1>2, <1>3, Induction
<1>5. n \in T
  BY SMT, <1>4
<1> QED
  BY Zenon, <1>5 DEF T

\* What sum holds, which CHOOSE takes by its recursion.
LEMMA SumIs ==
    ASSUME NEW n \in Nat, NEW x, DOMAIN x = 1 .. n, x = [i \in 1 .. n |-> x[i]],
           \A i \in 1 .. n : x[i][1] \in Int /\ x[i][2] \in Int
    PROVE  \E s : IsSum(s, x, n) /\ SumOfBytes(x) = s[n]
<1> DEFINE IsIt(g) == g = [i \in 0 .. Len(x) |->
                             IF i = 0 THEN 0 ELSE g[i - 1] + x[i][1] + x[i][2]]
           sum     == CHOOSE g : IsIt(g)
<1>1. Len(x) = n
  <2>1. x \in Seq({x[i] : i \in 1 .. n})
    <3>1. x \in [1 .. n -> {x[i] : i \in 1 .. n}]
      BY SMT
    <3> QED
      BY Zenon, <3>1, SeqDef
  <2>2. Len(x) \in Nat /\ DOMAIN x = 1 .. Len(x)
    BY Zenon, <2>1, LenProperties
  <2> QED
    BY SMT, <2>2
<1>2. SumOfBytes(x) = sum[n]
  BY Zenon, <1>1 DEF SumOfBytes
<1>3. PICK s : IsSum(s, x, n)
  BY Zenon, SumExists
<1>4. IsIt(s)
  BY SMT, <1>1, <1>3 DEF IsSum
<1>5. IsIt(sum)
  <2> HIDE DEF IsIt
  <2> QED
    BY Zenon, <1>4
<1> HIDE DEF sum
<1>6. IsSum(sum, x, n)
  <2>1. sum = [i \in 0 .. n |-> IF i = 0 THEN 0 ELSE sum[i - 1] + x[i][1] + x[i][2]]
    BY Zenon, <1>1, <1>5
  <2>7. \A i \in 0 .. n : sum[i] = IF i = 0 THEN 0 ELSE sum[i - 1] + x[i][1] + x[i][2]
    BY Zenon, <2>1
  <2>8. sum = [i \in 0 .. n |-> sum[i]]
    BY Zenon, <2>1
  <2>9. 0 \in 0 .. n /\ \A i \in 1 .. n : i \in 0 .. n /\ i - 1 \in 0 .. n /\ i # 0
    BY SMT
  <2>10. sum[0] = 0
    BY Zenon, <2>7, <2>9
  <2>11. \A i \in 1 .. n : sum[i] = sum[i - 1] + x[i][1] + x[i][2]
    BY Zenon, <2>7, <2>9
  <2> DEFINE T == {k \in 0 .. n : sum[k] \in Int}
  <2>2. T \in SUBSET (0 .. n)
    BY Zenon
  <2>3. 0 \in T
    <3>1. 0 \in Int
      OBVIOUS
    <3> QED
      BY Zenon, <2>9, <2>10, <3>1
  <2>4. ASSUME NEW k \in 1 .. n, k - 1 \in T PROVE k \in T
    <3>1. \A a, b, c \in Int : a + b + c \in Int
      OBVIOUS
    <3>2. sum[k] \in Int
      BY Zenon, <2>4, <2>11, <3>1
    <3> QED
      BY Zenon, <2>9, <3>2
  <2> HIDE DEF T
  <2>5. T = 0 .. n
    BY Zenon, <2>2, <2>3, <2>4, Induction
  <2>6. \A k \in 0 .. n : sum[k] \in Int
    BY Zenon, <2>5 DEF T
  <2>12. sum \in [0 .. n -> Int]
    BY Zenon, <2>6, <2>8
  <2> QED
    BY Zenon, <2>10, <2>11, <2>12 DEF IsSum
<1> QED
  BY Zenon, <1>2, <1>6

-----------------------------------------------------------------------------
(* The names of the fields of a struct *)

NamesIn(fields)  == {fields[i] : i \in DOMAIN fields}
AreFields(fields) == fields \in Seq(NamesIn(fields))
Once(fields, name) ==
    \A i, j \in DOMAIN fields : fields[i] = name /\ fields[j] = name => i = j

LEMMA TupleOfFields ==
    ASSUME NEW n \in Nat, NEW s, s = [i \in 1 .. n |-> s[i]]
    PROVE  AreFields(s) /\ Len(s) = n
<1>1. s \in [1 .. n -> NamesIn(s)]
  BY SMT DEF NamesIn
<1>2. s \in Seq(NamesIn(s))
  BY Zenon, <1>1, SeqDef
<1>3. Len(s) \in Nat /\ 1 .. Len(s) = 1 .. n
  BY Zenon, <1>1, <1>2, LenProperties
<1> QED
  BY SMT, <1>2, <1>3 DEF AreFields

LEMMA ConcatFields ==
    ASSUME NEW s, NEW t, AreFields(s), AreFields(t)
    PROVE  /\ AreFields(s \o t) /\ NamesIn(s \o t) = NamesIn(s) \cup NamesIn(t)
           /\ Len(s \o t) = Len(s) + Len(t)
           /\ \A name : Once(s, name) /\ name \notin NamesIn(t) => Once(s \o t, name)
<1> DEFINE st == s \o t
           S  == NamesIn(s) \cup NamesIn(t)
<1>1. s \in Seq(S) /\ t \in Seq(S)
  <2>1. /\ NamesIn(s) \subseteq S /\ NamesIn(t) \subseteq S
        /\ s \in Seq(NamesIn(s)) /\ t \in Seq(NamesIn(t))
    BY Zenon DEF AreFields
  <2> HIDE DEF S
  <2> QED
    BY Zenon, <2>1, SeqMonotonic
<1> HIDE DEF S
<1>2. /\ st \in Seq(S) /\ Len(s) \in Nat /\ Len(t) \in Nat /\ Len(st) = Len(s) + Len(t)
      /\ DOMAIN s = 1 .. Len(s) /\ DOMAIN t = 1 .. Len(t) /\ DOMAIN st = 1 .. Len(s) + Len(t)
      /\ \A i \in 1 .. Len(s) + Len(t) : st[i] = IF i <= Len(s) THEN s[i] ELSE t[i - Len(s)]
  BY SMT, <1>1, LenProperties, ConcatProperties
<1> HIDE DEF st
<1>3. \A i \in DOMAIN s : i \in DOMAIN st /\ st[i] = s[i]
  BY SMT, <1>2
<1>4. ASSUME NEW i \in DOMAIN t PROVE i + Len(s) \in DOMAIN st /\ st[i + Len(s)] = t[i]
  <2>1. /\ i + Len(s) \in 1 .. Len(s) + Len(t) /\ ~(i + Len(s) <= Len(s))
        /\ (i + Len(s)) - Len(s) = i
    BY SMT, <1>2
  <2> QED
    BY Zenon, <2>1, <1>2
<1>5. ASSUME NEW k \in DOMAIN st PROVE st[k] \in NamesIn(s) \cup NamesIn(t)
  <2>1. CASE k <= Len(s)
    <3>1. k \in DOMAIN s /\ st[k] = s[k]
      BY SMT, <2>1, <1>2
    <3> QED
      BY Zenon, <3>1 DEF NamesIn
  <2>2. CASE ~(k <= Len(s))
    <3>1. k - Len(s) \in DOMAIN t /\ st[k] = t[k - Len(s)]
      BY SMT, <2>2, <1>2
    <3> QED
      BY Zenon, <3>1 DEF NamesIn
  <2> QED
    BY <2>1, <2>2
<1>6. NamesIn(st) = S
  BY SMT, <1>3, <1>4, <1>5 DEF NamesIn, S
<1>7. ASSUME NEW name, Once(s, name), name \notin NamesIn(t) PROVE Once(st, name)
  <2>1. ASSUME NEW k \in DOMAIN st, st[k] = name PROVE k \in DOMAIN s /\ s[k] = name
    <3>1. CASE k <= Len(s)
      BY SMT, <1>2, <2>1, <3>1
    <3>2. CASE ~(k <= Len(s))
      <4>1. k - Len(s) \in DOMAIN t /\ st[k] = t[k - Len(s)]
        BY SMT, <3>2, <1>2
      <4> QED
        BY Zenon, <1>7, <2>1, <4>1 DEF NamesIn
    <3> QED
      BY <3>1, <3>2
  <2> QED
    BY Zenon, <1>7, <2>1 DEF Once
<1> QED
  BY Zenon, <1>2, <1>6, <1>7 DEF st, S, AreFields

LEMMA UuidNames ==
    /\ AreFields(UuidFields) /\ NamesIn(UuidFields) = {"uuid1", "uuid2", "uuid3", "uuid4"}
    /\ Len(UuidFields) = 4
<1>1. UuidFields = [i \in 1 .. 4 |-> UuidFields[i]]
  BY SMT DEF UuidFields
<1>2. NamesIn(UuidFields) = {"uuid1", "uuid2", "uuid3", "uuid4"}
  BY SMT DEF UuidFields, NamesIn
<1>3. 4 \in Nat
  OBVIOUS
<1> QED
  BY Zenon, <1>1, <1>2, <1>3, TupleOfFields

LEMMA FooterNames ==
    /\ AreFields(FooterFields) /\ Len(FooterFields) = 20
    /\ Once(FooterFields, "checksum")
    /\ NamesIn(FooterFields) =
          {"cookie", "features", "ff_version", "data_offset", "timestamps", "crtr_app",
           "crtr_ver", "crtr_os", "orig_size", "curr_size", "cylinders", "heads_and_sectors",
           "disk_type", "checksum", "uuid1", "uuid2", "uuid3", "uuid4", "saved", "reserved"}
<1> DEFINE a == << "cookie", "features", "ff_version", "data_offset", "timestamps", "crtr_app",
                   "crtr_ver", "crtr_os", "orig_size", "curr_size", "cylinders",
                   "heads_and_sectors", "disk_type", "checksum" >>
           b == << "saved", "reserved" >>
<1>1. /\ a = [i \in 1 .. 14 |-> a[i]]
      /\ NamesIn(a) = {"cookie", "features", "ff_version", "data_offset", "timestamps", "crtr_app",
                       "crtr_ver", "crtr_os", "orig_size", "curr_size", "cylinders",
                       "heads_and_sectors", "disk_type", "checksum"}
      /\ Once(a, "checksum")
  BY SMT DEF NamesIn, Once
<1>2. b = [i \in 1 .. 2 |-> b[i]] /\ NamesIn(b) = {"saved", "reserved"}
  BY SMT DEF NamesIn
<1>3. FooterFields = (a \o UuidFields) \o b
  BY Zenon DEF FooterFields
<1> HIDE DEF a, b
<1>4. AreFields(a) /\ AreFields(b) /\ Len(a) = 14 /\ Len(b) = 2
  <2>1. 14 \in Nat /\ 2 \in Nat
    OBVIOUS
  <2> QED
    BY Zenon, <1>1, <1>2, <2>1, TupleOfFields
<1>5. "checksum" \notin NamesIn(UuidFields) /\ "checksum" \notin NamesIn(b)
  BY SMT, <1>2, UuidNames
<1>6. /\ AreFields(a \o UuidFields) /\ Len(a \o UuidFields) = Len(a) + Len(UuidFields)
      /\ NamesIn(a \o UuidFields) = NamesIn(a) \cup NamesIn(UuidFields)
      /\ Once(a \o UuidFields, "checksum")
  BY Zenon, <1>1, <1>4, <1>5, UuidNames, ConcatFields
<1>7. /\ AreFields(FooterFields) /\ Len(FooterFields) = (Len(a) + Len(UuidFields)) + Len(b)
      /\ NamesIn(FooterFields) = (NamesIn(a) \cup NamesIn(UuidFields)) \cup NamesIn(b)
      /\ Once(FooterFields, "checksum")
  BY Zenon, <1>3, <1>4, <1>5, <1>6, ConcatFields
<1>8. Len(FooterFields) = 20
  BY SMT, <1>4, <1>7, UuidNames
<1> QED
  BY SMT, <1>1, <1>2, <1>7, <1>8, UuidNames

LEMMA HeaderNames ==
    /\ AreFields(HeaderFields) /\ Len(HeaderFields) = 25
    /\ Once(HeaderFields, "checksum")
    /\ NamesIn(HeaderFields) =
          {"cookie", "data_offset", "table_offset", "hdr_ver", "max_bat_size", "block_size",
           "checksum", "uuid1", "uuid2", "uuid3", "uuid4", "prt_ts", "res1", "prt_name",
           "code", "data_space", "data_len", "res", "locator_offset", "res2"}
<1> DEFINE a == << "cookie", "data_offset", "table_offset", "hdr_ver", "max_bat_size",
                   "block_size", "checksum" >>
           b == << "prt_ts", "res1", "prt_name" >>
           c == << "res2" >>
           L == LocatorFields
<1>1. /\ a = [i \in 1 .. 7 |-> a[i]]
      /\ NamesIn(a) = {"cookie", "data_offset", "table_offset", "hdr_ver", "max_bat_size",
                       "block_size", "checksum"}
      /\ Once(a, "checksum")
  BY SMT DEF NamesIn, Once
<1>2. b = [i \in 1 .. 3 |-> b[i]] /\ NamesIn(b) = {"prt_ts", "res1", "prt_name"}
  BY SMT DEF NamesIn
<1>3. c = [i \in 1 .. 1 |-> c[i]] /\ NamesIn(c) = {"res2"}
  BY SMT DEF NamesIn
<1>4. /\ L = [i \in 1 .. 5 |-> L[i]]
      /\ NamesIn(L) = {"code", "data_space", "data_len", "res", "locator_offset"}
  BY SMT DEF NamesIn, LocatorFields
<1>5. HeaderFields = ((((a \o UuidFields) \o b) \o L) \o L) \o c
  BY Zenon DEF HeaderFields
<1> HIDE DEF a, b, c, L
<1>6. /\ AreFields(a) /\ AreFields(b) /\ AreFields(c) /\ AreFields(L)
      /\ Len(a) = 7 /\ Len(b) = 3 /\ Len(c) = 1 /\ Len(L) = 5
  <2>1. 7 \in Nat /\ 3 \in Nat /\ 1 \in Nat /\ 5 \in Nat
    OBVIOUS
  <2> QED
    BY Zenon, <1>1, <1>2, <1>3, <1>4, <2>1, TupleOfFields
<1>7. /\ "checksum" \notin NamesIn(UuidFields) /\ "checksum" \notin NamesIn(b)
      /\ "checksum" \notin NamesIn(L) /\ "checksum" \notin NamesIn(c)
  BY SMT, <1>2, <1>3, <1>4, UuidNames
<1>8. /\ AreFields(a \o UuidFields) /\ Len(a \o UuidFields) = Len(a) + Len(UuidFields)
      /\ NamesIn(a \o UuidFields) = NamesIn(a) \cup NamesIn(UuidFields)
      /\ Once(a \o UuidFields, "checksum")
  BY Zenon, <1>1, <1>6, <1>7, UuidNames, ConcatFields
<1> DEFINE d == (a \o UuidFields) \o b
<1>9. /\ AreFields(d) /\ Len(d) = Len(a \o UuidFields) + Len(b)
      /\ NamesIn(d) = NamesIn(a \o UuidFields) \cup NamesIn(b)
      /\ Once(d, "checksum")
  BY Zenon, <1>6, <1>7, <1>8, ConcatFields
<1>10. HeaderFields = ((d \o L) \o L) \o c
  BY Zenon, <1>5
<1> HIDE DEF d
<1>11. /\ AreFields(d \o L) /\ Len(d \o L) = Len(d) + Len(L)
       /\ NamesIn(d \o L) = NamesIn(d) \cup NamesIn(L)
       /\ Once(d \o L, "checksum")
  BY Zenon, <1>6, <1>7, <1>9, ConcatFields
<1>12. /\ AreFields((d \o L) \o L) /\ Len((d \o L) \o L) = Len(d \o L) + Len(L)
       /\ NamesIn((d \o L) \o L) = NamesIn(d \o L) \cup NamesIn(L)
       /\ Once((d \o L) \o L, "checksum")
  BY Zenon, <1>6, <1>7, <1>11, ConcatFields
<1>13. /\ AreFields(HeaderFields) /\ Len(HeaderFields) = Len((d \o L) \o L) + Len(c)
       /\ NamesIn(HeaderFields) = NamesIn((d \o L) \o L) \cup NamesIn(c)
       /\ Once(HeaderFields, "checksum")
  BY Zenon, <1>6, <1>7, <1>10, <1>12, ConcatFields
<1>14. Len(HeaderFields) = 25
  BY SMT, <1>6, <1>8, <1>9, <1>11, <1>12, <1>13, UuidNames
<1> QED
  BY SMT, <1>1, <1>2, <1>3, <1>4, <1>8, <1>9, <1>11, <1>12, <1>13, <1>14, UuidNames

LEMMA JournalHeaderNames ==
    /\ AreFields(JournalHeaderFields)
    /\ NamesIn(JournalHeaderFields) =
          {"cookie", "uuid1", "uuid2", "uuid3", "uuid4", "vhd_footer_offset",
           "journal_data_entries", "journal_metadata_entries", "journal_data_offset",
           "journal_metadata_offset", "journal_eof", "pad"}
<1> DEFINE a == << "cookie" >>
           b == << "vhd_footer_offset", "journal_data_entries", "journal_metadata_entries",
                   "journal_data_offset", "journal_metadata_offset", "journal_eof", "pad" >>
<1>1. a = [i \in 1 .. 1 |-> a[i]] /\ NamesIn(a) = {"cookie"}
  BY SMT DEF NamesIn
<1>2. /\ b = [i \in 1 .. 7 |-> b[i]]
      /\ NamesIn(b) = {"vhd_footer_offset", "journal_data_entries", "journal_metadata_entries",
                       "journal_data_offset", "journal_metadata_offset", "journal_eof", "pad"}
  BY SMT DEF NamesIn
<1>3. JournalHeaderFields = (a \o UuidFields) \o b
  BY Zenon DEF JournalHeaderFields
<1> HIDE DEF a, b
<1>4. AreFields(a) /\ AreFields(b)
  <2>1. 1 \in Nat /\ 7 \in Nat
    OBVIOUS
  <2> QED
    BY Zenon, <1>1, <1>2, <2>1, TupleOfFields
<1>5. AreFields(a \o UuidFields) /\ NamesIn(a \o UuidFields) = NamesIn(a) \cup NamesIn(UuidFields)
  BY Zenon, <1>4, UuidNames, ConcatFields
<1>6. /\ AreFields(JournalHeaderFields)
      /\ NamesIn(JournalHeaderFields) = (NamesIn(a) \cup NamesIn(UuidFields)) \cup NamesIn(b)
  BY Zenon, <1>3, <1>4, <1>5, ConcatFields
<1> QED
  BY SMT, <1>1, <1>2, <1>6, UuidNames

LEMMA JournalEntryNames ==
    /\ AreFields(JournalEntryFields)
    /\ NamesIn(JournalEntryFields) = {"cookie", "etype", "size", "offset", "checksum", "reserved"}
<1> DEFINE a == JournalEntryFields
<1>1. /\ a = [i \in 1 .. 6 |-> a[i]]
      /\ NamesIn(a) = {"cookie", "etype", "size", "offset", "checksum", "reserved"}
  BY SMT DEF NamesIn, JournalEntryFields
<1> HIDE DEF a
<1>2. 6 \in Nat
  OBVIOUS
<1>3. AreFields(a)
  BY Zenon, <1>1, <1>2, TupleOfFields
<1> QED
  BY Zenon, <1>1, <1>3 DEF a

\* Every number of a struct is among what swap_bytes turns round, or is left zero.
LEMMA NumbersAreSwapped ==
    ASSUME NEW s \in Structs, NEW name \in NamesIn(Fields(s)), IsNumber(s, name)
    PROVE  name \in Swaps(s) \/ name \in Zeroed(s)
<1>1. CASE s = Footer
  <2>1. Fields(s) = FooterFields /\ Swaps(s) = FooterSwaps /\ s # JournalEntry
    BY SMT, <1>1 DEF Fields, Swaps, Footer, Header, JournalHeader, JournalEntry
  <2> QED
    BY SMT, <2>1, FooterNames DEF IsNumber, FooterSwaps, FooterSwapsButSize, UuidSwaps
<1>2. CASE s = Header
  <2>1. /\ Fields(s) = HeaderFields /\ Swaps(s) = HeaderSwaps
        /\ Zeroed(s) = {"res1", "res"} /\ s # JournalEntry
    BY SMT, <1>2 DEF Fields, Swaps, Zeroed, Footer, Header, JournalHeader, JournalEntry
  <2> QED
    BY SMT, <2>1, HeaderNames DEF IsNumber, HeaderSwaps, HeaderSwapsButParent, UuidSwaps
<1>3. CASE s = JournalHeader
  <2>1. /\ Fields(s) = JournalHeaderFields /\ Swaps(s) = JournalHeaderSwaps
        /\ s # JournalEntry
    BY SMT, <1>3 DEF Fields, Swaps, Footer, Header, JournalHeader, JournalEntry
  <2> QED
    BY SMT, <2>1, JournalHeaderNames DEF IsNumber, JournalHeaderSwaps
<1>4. CASE s = JournalEntry
  <2>1. /\ Fields(s) = JournalEntryFields /\ Swaps(s) = JournalEntrySwaps
        /\ Zeroed(s) = {"reserved"}
    BY SMT, <1>4 DEF Fields, Swaps, Zeroed, Footer, Header, JournalHeader, JournalEntry
  <2> QED
    BY SMT, <2>1, JournalEntryNames DEF IsNumber, JournalEntrySwaps
<1> QED
  BY <1>1, <1>2, <1>3, <1>4 DEF Structs

LEMMA FieldsAre ==
    ASSUME NEW s \in Structs
    PROVE  /\ Len(Fields(s)) \in Nat /\ DOMAIN Fields(s) = 1 .. Len(Fields(s))
<1>1. AreFields(Fields(s))
  BY SMT, FooterNames, HeaderNames, JournalHeaderNames, JournalEntryNames
     DEF Fields, Structs, Footer, Header, JournalHeader, JournalEntry
<1> QED
  BY Zenon, <1>1, LenProperties DEF AreFields

LEMMA CheckedFields ==
    ASSUME NEW s \in Checked
    PROVE  /\ s \in Structs /\ Len(Fields(s)) \in 1 .. 25
           /\ DOMAIN Fields(s) = 1 .. Len(Fields(s))
           /\ "checksum" \in NamesIn(Fields(s)) /\ Once(Fields(s), "checksum")
<1>1. s \in Structs
  BY DEF Checked, Structs
<1>2. CASE s = Footer
  <2>1. Fields(s) = FooterFields
    BY SMT, <1>2 DEF Fields, Footer, Header, JournalHeader, JournalEntry
  <2> QED
    BY SMT, <1>1, <2>1, FooterNames, FieldsAre
<1>3. CASE s = Header
  <2>1. Fields(s) = HeaderFields
    BY SMT, <1>3 DEF Fields, Footer, Header, JournalHeader, JournalEntry
  <2> QED
    BY SMT, <1>1, <2>1, HeaderNames, FieldsAre
<1> QED
  BY <1>2, <1>3 DEF Checked

-----------------------------------------------------------------------------
(* Structs *)

IsPair(field)       == field = << field[1], field[2] >>
IsStruct(s, struct) == /\ struct = [i \in DOMAIN Fields(s) |-> struct[i]]
                       /\ \A i \in DOMAIN Fields(s) : IsPair(struct[i])

LEMMA Pairs ==
    ASSUME NEW a, NEW b
    PROVE  IsPair(<< a, b >>) /\ Turned(<< a, b >>) = << b, a >>
BY SMT DEF IsPair, Turned

LEMMA TurnedTwice ==
    ASSUME NEW f, IsPair(f)
    PROVE  IsPair(Turned(f)) /\ Turned(Turned(f)) = f
<1>1. f = << f[1], f[2] >>
  BY DEF IsPair
<1>2. Turned(f) = << f[2], f[1] >>
  BY DEF Turned
<1> QED
  BY Zenon, <1>1, <1>2, Pairs

\* What swap_bytes turns, it turns back.
LEMMA SwappedTwice ==
    ASSUME NEW s, NEW x, IsStruct(s, x)
    PROVE  IsStruct(s, SwapBytes(s, x)) /\ SwapBytes(s, SwapBytes(s, x)) = x
<1> DEFINE y == SwapBytes(s, x)
           z == SwapBytes(s, y)
<1>1. DOMAIN x = DOMAIN Fields(s) /\ x = [i \in DOMAIN Fields(s) |-> x[i]]
  BY Zenon DEF IsStruct
<1>2. /\ DOMAIN y = DOMAIN Fields(s) /\ y = [i \in DOMAIN Fields(s) |-> y[i]]
      /\ \A i \in DOMAIN Fields(s) :
            y[i] = IF Fields(s)[i] \in Swaps(s) THEN Turned(x[i]) ELSE x[i]
  BY Zenon, <1>1 DEF SwapBytes
<1> HIDE DEF y
<1>3. /\ z = [i \in DOMAIN Fields(s) |-> z[i]]
      /\ \A i \in DOMAIN Fields(s) :
            z[i] = IF Fields(s)[i] \in Swaps(s) THEN Turned(y[i]) ELSE y[i]
  BY Zenon, <1>2 DEF SwapBytes
<1> HIDE DEF z
<1>4. ASSUME NEW i \in DOMAIN Fields(s) PROVE IsPair(y[i]) /\ z[i] = x[i]
  <2>1. IsPair(x[i])
    BY DEF IsStruct
  <2> QED
    BY Zenon, <2>1, <1>2, <1>3, TurnedTwice
<1>5. z = x
  BY SMT, <1>1, <1>3, <1>4
<1> QED
  BY Zenon, <1>2, <1>4, <1>5 DEF IsStruct, y, z

\* With sets the fields of a name, and Get finds one of them.
Place(s, name) == CHOOSE i \in DOMAIN Fields(s) : Fields(s)[i] = name

LEMMA Places ==
    ASSUME NEW s, NEW name \in NamesIn(Fields(s))
    PROVE  Place(s, name) \in DOMAIN Fields(s) /\ Fields(s)[Place(s, name)] = name
<1>1. \E i \in DOMAIN Fields(s) : Fields(s)[i] = name
  BY DEF NamesIn
<1> QED
  BY Zenon, <1>1 DEF Place

LEMMA Gets ==
    ASSUME NEW s, NEW x, IsStruct(s, x), NEW name
    PROVE  Get(s, x, name) = x[Place(s, name)]
<1>1. DOMAIN x = DOMAIN Fields(s)
  BY Zenon DEF IsStruct
<1> QED
  BY Zenon, <1>1 DEF Get, Place

LEMMA Withs ==
    ASSUME NEW s, NEW x, IsStruct(s, x), NEW name, NEW f, IsPair(f),
           NEW y, y = With(s, x, name, f)
    PROVE  /\ IsStruct(s, y)
           /\ \A i \in DOMAIN Fields(s) : Fields(s)[i] = name => y[i] = f
           /\ \A i \in DOMAIN Fields(s) : Fields(s)[i] # name => y[i] = x[i]
           /\ \A g : With(s, y, name, g) = With(s, x, name, g)
<1>1. DOMAIN x = DOMAIN Fields(s) /\ \A i \in DOMAIN Fields(s) : IsPair(x[i])
  BY Zenon DEF IsStruct
<1>2. /\ y = [i \in DOMAIN Fields(s) |-> y[i]]
      /\ \A i \in DOMAIN Fields(s) : y[i] = IF Fields(s)[i] = name THEN f ELSE x[i]
  BY Zenon, <1>1 DEF With
<1>3. IsStruct(s, y)
  BY Zenon, <1>1, <1>2 DEF IsStruct
<1>4. ASSUME NEW g PROVE With(s, y, name, g) = With(s, x, name, g)
  BY SMT DEF With
<1> QED
  BY Zenon, <1>2, <1>3, <1>4

\* What is sealed carries the checksum of what is summed.
LEMMA SealedHolds ==
    ASSUME NEW s, NEW x, IsStruct(s, x), "checksum" \in NamesIn(Fields(s))
    PROVE  /\ IsStruct(s, Sealed(s, x))
           /\ \A i \in DOMAIN Fields(s) :
                 Fields(s)[i] # "checksum" => Sealed(s, x)[i] = x[i]
           /\ ChecksumHolds(s, Sealed(s, x))
<1> DEFINE zero == << 0, 0 >>
           c == CalcChecksum(With(s, x, "checksum", zero))
           y == Sealed(s, x)
<1>1. IsPair(c)
  BY Zenon, Pairs DEF CalcChecksum
<1>2. y = With(s, x, "checksum", c)
  BY DEF Sealed
<1>3. With(s, y, "checksum", zero) = With(s, x, "checksum", zero)
  BY SMT, <1>1, <1>2, Withs
<1>4. CalcChecksum(Summed(s, y)) = c
  BY Zenon, <1>3 DEF Summed
<1> HIDE DEF c, y, zero
<1>5. /\ IsStruct(s, y)
      /\ \A i \in DOMAIN Fields(s) : Fields(s)[i] = "checksum" => y[i] = c
      /\ \A i \in DOMAIN Fields(s) : Fields(s)[i] # "checksum" => y[i] = x[i]
  BY SMT, <1>1, <1>2, Withs
<1>6. Get(s, y, "checksum") = c
  <2>1. Place(s, "checksum") \in DOMAIN Fields(s) /\ Fields(s)[Place(s, "checksum")] = "checksum"
    BY Zenon, Places
  <2>2. Get(s, y, "checksum") = y[Place(s, "checksum")]
    BY Zenon, <1>5, Gets
  <2> QED
    BY Zenon, <1>5, <2>1, <2>2
<1>7. ChecksumHolds(s, y)
  BY Zenon, <1>4, <1>6 DEF ChecksumHolds
<1> QED
  BY Zenon, <1>5, <1>7 DEF y

\* The field that Struct puts at i, before the checksum.
Fresh(s, f, i) ==
    CASE Fields(s)[i] = "cookie"     -> CookieOf(s)
      [] Fields(s)[i] = "disk_type"  -> << 2 + (f[i][1] % 3), 0 >>
      [] Fields(s)[i] \in Zeroed(s) -> << 0, 0 >>
      [] OTHER                       -> << f[i][1], f[i][2] >>

\* What there is to know of it, given the name of the field and what the filling has for it.
IsFresh(s, name, field, new) ==
    /\ name = "cookie" => new = CookieOf(s)
    /\ name = "disk_type" => new = << 2 + (field[1] % 3), 0 >>
    /\ name \in Zeroed(s) => new = << 0, 0 >>
    /\ \/ name = "cookie" \/ name = "disk_type" \/ name \in Zeroed(s)
       \/ new = << field[1], field[2] >>

LEMMA FreshIs ==
    ASSUME NEW s \in Structs, NEW f, NEW i
    PROVE  IsFresh(s, Fields(s)[i], f[i], Fresh(s, f, i)) /\ IsPair(Fresh(s, f, i))
<1>1. /\ "cookie" \notin Zeroed(s) /\ "disk_type" \notin Zeroed(s)
      /\ "cookie" # "disk_type"
  BY SMT DEF Zeroed, Structs, Footer, Header, JournalHeader, JournalEntry
<1>2. CASE Fields(s)[i] = "cookie"
  <2>1. Fresh(s, f, i) = CookieOf(s)
    BY Zenon, <1>1, <1>2 DEF Fresh
  <2> QED
    BY Zenon, <1>1, <1>2, <2>1, Pairs DEF IsFresh, CookieOf
<1>3. CASE Fields(s)[i] = "disk_type"
  <2>1. Fresh(s, f, i) = << 2 + (f[i][1] % 3), 0 >>
    BY Zenon, <1>1, <1>3 DEF Fresh
  <2> QED
    BY Zenon, <1>1, <1>3, <2>1, Pairs DEF IsFresh
<1>4. CASE Fields(s)[i] \in Zeroed(s)
  <2>1. Fresh(s, f, i) = << 0, 0 >>
    BY Zenon, <1>1, <1>4 DEF Fresh
  <2> QED
    BY Zenon, <1>1, <1>4, <2>1, Pairs DEF IsFresh
<1>5. CASE Fields(s)[i] \notin {"cookie", "disk_type"} \cup Zeroed(s)
  <2>1. Fresh(s, f, i) = << f[i][1], f[i][2] >>
    BY Zenon, <1>5 DEF Fresh
  <2> QED
    BY Zenon, <1>5, <2>1, Pairs DEF IsFresh
<1> QED
  BY <1>2, <1>3, <1>4, <1>5

\* What a filling puts into the fields of a footer or header: bytes.
LEMMA FillingBytes ==
    ASSUME NEW f \in AnyFilling, NEW i \in 1 .. 25
    PROVE  /\ f[i][1] \in 0 .. Radix - 1 /\ f[i][2] \in 0 .. Radix - 1
           /\ 2 + (f[i][1] % 3) \in {2, 3, 4}
<1>1. f[i] \in Bytes \X Bytes
  BY Zenon DEF AnyFilling, MostFields
<1>2. f[i][1] \in 0 .. Radix - 1 /\ f[i][2] \in 0 .. Radix - 1
  BY SMT, <1>1 DEF Bytes
<1>3. \A k \in 0 .. Radix - 1 : 2 + (k % 3) \in {2, 3, 4}
  BY SMT DEF Radix
<1> QED
  BY Zenon, <1>2, <1>3

\* What Struct makes: a struct with its cookie, with zeroes in the numbers that are reserved
\* and, in a footer, one of the types of disk.
LEMMA StructIs ==
    ASSUME NEW s \in Structs, NEW f \in AnyFilling
    PROVE  /\ IsStruct(s, Struct(s, f))
           /\ s \in Checked =>
                /\ ChecksumHolds(s, Struct(s, f))
                /\ Get(s, Struct(s, f), "cookie") = CookieOf(s)
           /\ s = Footer => Get(s, Struct(s, f), "disk_type") \in VhdTypes
           /\ \A i \in DOMAIN Fields(s) :
                 Fields(s)[i] \in Zeroed(s) => Struct(s, f)[i] = << 0, 0 >>
<1> DEFINE F    == Fields(s)
           base == [i \in 1 .. Len(F) |-> Fresh(s, f, i)]
           x    == Struct(s, f)
<1>1. x = IF s = JournalHeader THEN base ELSE Sealed(s, base)
  BY Zenon DEF Struct, Fresh
<1>2. /\ DOMAIN F = 1 .. Len(F) /\ base = [i \in DOMAIN F |-> base[i]]
      /\ \A i \in DOMAIN F : base[i] = Fresh(s, f, i)
  BY Zenon, FieldsAre
<1> HIDE DEF base, x
<1>3. \A i \in DOMAIN F : IsFresh(s, F[i], f[i], base[i]) /\ IsPair(base[i])
  <2>1. ASSUME NEW i \in DOMAIN F PROVE IsFresh(s, F[i], f[i], base[i]) /\ IsPair(base[i])
    <3>1. base[i] = Fresh(s, f, i)
      BY Zenon, <1>2
    <3>2. IsFresh(s, F[i], f[i], Fresh(s, f, i)) /\ IsPair(Fresh(s, f, i))
      BY FreshIs
    <3> QED
      BY Zenon, <3>1, <3>2
  <2> QED
    BY Zenon, <2>1
<1>5. IsStruct(s, base)
  BY Zenon, <1>2, <1>3 DEF IsStruct
<1>6. s # JournalHeader => "checksum" \in NamesIn(F)
  BY SMT, FooterNames, HeaderNames, JournalEntryNames
     DEF Fields, Structs, Footer, Header, JournalHeader, JournalEntry
<1>7. IsStruct(s, x)
  BY Zenon, <1>1, <1>5, <1>6, SealedHolds
<1>8. ASSUME s \in Checked
      PROVE  ChecksumHolds(s, x) /\ Get(s, x, "cookie") = CookieOf(s)
  <2>1. s # JournalHeader /\ "cookie" \in NamesIn(F)
    BY SMT, <1>8, FooterNames, HeaderNames
       DEF Checked, Fields, Footer, Header, JournalHeader, JournalEntry
  <2>2. /\ ChecksumHolds(s, x)
        /\ \A i \in DOMAIN F : F[i] # "checksum" => x[i] = base[i]
    BY Zenon, <1>1, <1>5, <1>6, <2>1, SealedHolds
  <2>3. Place(s, "cookie") \in DOMAIN F /\ F[Place(s, "cookie")] = "cookie"
    BY Zenon, <2>1, Places
  <2>4. x[Place(s, "cookie")] = CookieOf(s)
    <3>1. "cookie" # "checksum"
      OBVIOUS
    <3> QED
      BY Zenon, <1>3, <2>2, <2>3, <3>1 DEF IsFresh
  <2> QED
    BY Zenon, <1>7, <2>2, <2>4, Gets
<1>9. ASSUME s = Footer PROVE Get(s, x, "disk_type") \in VhdTypes
  <2>1. s # JournalHeader /\ "disk_type" \in NamesIn(F)
    BY SMT, <1>9, FooterNames DEF Fields, Footer, Header, JournalHeader, JournalEntry
  <2>2. \A i \in DOMAIN F : F[i] # "checksum" => x[i] = base[i]
    BY Zenon, <1>1, <1>5, <1>6, <2>1, SealedHolds
  <2>3. Place(s, "disk_type") \in DOMAIN F /\ F[Place(s, "disk_type")] = "disk_type"
    BY Zenon, <2>1, Places
  <2> DEFINE k == f[Place(s, "disk_type")][1] % 3
  <2>4. x[Place(s, "disk_type")] = << 2 + k, 0 >>
    <3>1. "disk_type" # "checksum"
      OBVIOUS
    <3> QED
      BY Zenon, <1>3, <2>2, <2>3, <3>1 DEF IsFresh
  <2>5. 2 + k \in {2, 3, 4}
    <3>1. s \in Checked
      BY <1>9 DEF Checked
    <3>2. Place(s, "disk_type") \in 1 .. 25
      <4>1. Len(F) \in 1 .. 25
        BY Zenon, <3>1, CheckedFields
      <4>2. \A m \in 1 .. 25 : 1 .. m \subseteq 1 .. 25
        OBVIOUS
      <4> QED
        BY Zenon, <1>2, <2>3, <4>1, <4>2
    <3> QED
      BY Zenon, <3>2, FillingBytes
  <2> HIDE DEF k
  <2>6. << 2 + k, 0 >> \in VhdTypes
    BY Zenon, <2>5 DEF VhdTypes
  <2> QED
    BY Zenon, <1>7, <2>4, <2>6, Gets
<1>10. ASSUME NEW i \in DOMAIN F, F[i] \in Zeroed(s) PROVE x[i] = << 0, 0 >>
  <2>1. F[i] # "checksum"
    BY SMT, <1>10 DEF Zeroed, Structs, Footer, Header, JournalHeader, JournalEntry
  <2>2. x[i] = base[i]
    BY Zenon, <1>1, <1>5, <1>6, <2>1, SealedHolds
  <2> QED
    BY Zenon, <1>3, <1>10, <2>2 DEF IsFresh
<1> QED
  BY Zenon, <1>7, <1>8, <1>9, <1>10 DEF x

\* A footer or header is read back as what it was.
LEMMA ReadsBack ==
    ASSUME NEW s \in Checked, NEW f \in AnyFilling
    PROVE  Read(s, ToBytes(s, Struct(s, f))) = [error |-> "none", struct |-> Struct(s, f)]
<1> DEFINE x == Struct(s, f)
           y == ToBytes(s, x)
<1>1. s \in Structs
  BY DEF Checked, Structs
<1>2. /\ IsStruct(s, x) /\ ChecksumHolds(s, x)
      /\ Get(s, x, "cookie") = CookieOf(s)
      /\ s = Footer => Get(s, x, "disk_type") \in VhdTypes
  BY Zenon, <1>1, StructIs
<1> HIDE DEF x
<1>3. IsStruct(s, y) /\ SwapBytes(s, y) = x
  BY Zenon, <1>2, SwappedTwice DEF ToBytes
<1>4. Get(s, y, "cookie") = CookieOf(s)
  <2>1. "cookie" \in NamesIn(Fields(s)) /\ "cookie" \notin Swaps(s)
    BY SMT, FooterNames, HeaderNames
       DEF Checked, Fields, Swaps, Footer, Header, JournalHeader, JournalEntry, FooterSwaps,
           FooterSwapsButSize, HeaderSwaps, HeaderSwapsButParent, UuidSwaps
  <2>2. DOMAIN x = DOMAIN Fields(s)
    BY Zenon, <1>2 DEF IsStruct
  <2>3. y[Place(s, "cookie")] = x[Place(s, "cookie")]
    BY Zenon, <2>1, <2>2, Places DEF ToBytes, SwapBytes
  <2> QED
    BY Zenon, <1>2, <1>3, <2>3, Gets
<1> HIDE DEF y
<1>5. Read(s, y) = [error |-> "none", struct |-> x]
  BY SMT, <1>2, <1>3, <1>4 DEF Read
<1> QED
  BY Zenon, <1>5 DEF x, y

\* What is written of a new footer or header is read back as what it was, whatever bytes
\* its fields hold (footer.rs:105-153, header.rs:84-171).
THEOREM StructsRoundTripAlways == Spec => []StructsRoundTrip
<1>1. InputOK => StructsRoundTrip
  BY Zenon, ReadsBack DEF InputOK, StructsRoundTrip
<1> QED
  BY <1>1, InputsAreInputs, PTL

\* Every number of every struct, but for the units of the parent's name, is big endian in
\* the file, whatever bytes it is of (footer.rs:67-81, header.rs:68-84, journal.rs:72-82
\* and 104-109): what swap_bytes does not turn round is reserved, and zero.
THEOREM StructsBigEndianAlways == Spec => []StructsBigEndian
<1>1. ASSUME NEW s \in Structs, NEW f \in AnyFilling,
             NEW i \in DOMAIN Struct(s, f), IsNumber(s, Fields(s)[i])
      PROVE  ToBytes(s, Struct(s, f))[i] = Turned(Struct(s, f)[i])
  <2> DEFINE x == Struct(s, f)
             y == ToBytes(s, x)
  <2>1. DOMAIN x = DOMAIN Fields(s)
    BY Zenon, StructIs DEF IsStruct
  <2>2. Fields(s)[i] \in Swaps(s) \/ Fields(s)[i] \in Zeroed(s)
    BY Zenon, <1>1, <2>1, NumbersAreSwapped DEF NamesIn
  <2>3. Fields(s)[i] \in Zeroed(s) => x[i] = << 0, 0 >>
    BY Zenon, <2>1, StructIs
  <2> HIDE DEF x
  <2>4. y[i] = IF Fields(s)[i] \in Swaps(s) THEN Turned(x[i]) ELSE x[i]
    BY Zenon DEF ToBytes, SwapBytes, x
  <2>5. Turned(<< 0, 0 >>) = << 0, 0 >>
    BY Zenon, Pairs
  <2> HIDE DEF y
  <2>6. y[i] = Turned(x[i])
    BY Zenon, <2>2, <2>3, <2>4, <2>5
  <2> QED
    BY Zenon, <2>6 DEF x, y
<1>2. InputOK => StructsBigEndian
  BY Zenon, <1>1 DEF InputOK, StructsBigEndian
<1> QED
  BY <1>2, InputsAreInputs, PTL

\* A field that swap_bytes turns in both structs, or in neither, is the same bytes in both
\* files when it is the same in memory.
LEMMA SameInBothFiles ==
    ASSUME NEW x, NEW y, IsStruct(Header, x), IsStruct(Footer, y),
           NEW m \in NamesIn(Fields(Header)), NEW n \in NamesIn(Fields(Footer)),
           m \in Swaps(Header) <=> n \in Swaps(Footer),
           x[Place(Header, m)] = Get(Footer, y, n)
    PROVE  Get(Header, ToBytes(Header, x), m) = Get(Footer, ToBytes(Footer, y), n)
<1> DEFINE i == Place(Header, m)
           j == Place(Footer, n)
           u == ToBytes(Header, x)
           v == ToBytes(Footer, y)
<1>1. /\ i \in DOMAIN Fields(Header) /\ Fields(Header)[i] = m
      /\ j \in DOMAIN Fields(Footer) /\ Fields(Footer)[j] = n
  BY Zenon, Places
<1>2. DOMAIN x = DOMAIN Fields(Header) /\ DOMAIN y = DOMAIN Fields(Footer)
  BY Zenon DEF IsStruct
<1>3. x[i] = y[j]
  BY Zenon, Gets
<1>4. /\ Get(Header, u, m) = u[i]
      /\ Get(Footer, v, n) = v[j]
  BY Zenon, SwappedTwice, Gets DEF ToBytes
<1>5. /\ u[i] = IF m \in Swaps(Header) THEN Turned(x[i]) ELSE x[i]
      /\ v[j] = IF n \in Swaps(Footer) THEN Turned(y[j]) ELSE y[j]
  BY Zenon, <1>1, <1>2 DEF ToBytes, SwapBytes
<1> HIDE DEF i, j, u, v
<1> QED
  BY Zenon, <1>3, <1>4, <1>5 DEF u, v

\* A child's header names its parent by the bytes of the parent's own file
\* (header.rs:103-105), whatever bytes the fields of the two hold.
THEOREM ChildNamesParentAlways == Spec => []ChildNamesParent
<1>1. ASSUME NEW f \in AnyFilling, NEW h \in AnyFilling
      PROVE  LET parent == ToBytes(Footer, Struct(Footer, f))
                 header == FromParent(Struct(Header, h), Read(Footer, parent).struct)
                 child  == ToBytes(Header, Sealed(Header, header))
             IN  /\ \A name \in {"uuid1", "uuid2", "uuid3", "uuid4"} :
                         Get(Header, child, name) = Get(Footer, parent, name)
                 /\ Get(Header, child, "prt_ts") = Get(Footer, parent, "timestamps")
  <2> DEFINE y      == Struct(Footer, f)
             x      == Struct(Header, h)
             parent == ToBytes(Footer, y)
             header == FromParent(x, Read(Footer, parent).struct)
             sealed == Sealed(Header, header)
             child  == ToBytes(Header, sealed)
             uuids  == {"uuid1", "uuid2", "uuid3", "uuid4"}
             F      == Fields(Header)
  <2>1. /\ IsStruct(Footer, y) /\ IsStruct(Header, x)
        /\ Read(Footer, parent).struct = y
    <3>1. Footer \in Structs /\ Header \in Structs /\ Footer \in Checked
      BY SMT DEF Structs, Checked
    <3>2. IsStruct(Footer, y) /\ IsStruct(Header, x)
      BY Zenon, <3>1, StructIs
    <3>3. Read(Footer, parent) = [error |-> "none", struct |-> y]
      BY Zenon, <3>1, ReadsBack
    <3>4. Read(Footer, parent).struct = y
      BY SMT, <3>3
    <3> QED
      BY Zenon, <3>2, <3>4
  <2>2. /\ F = HeaderFields /\ Fields(Footer) = FooterFields
        /\ Swaps(Header) = HeaderSwaps /\ Swaps(Footer) = FooterSwaps
    BY SMT DEF Fields, Swaps, Footer, Header, JournalHeader, JournalEntry
  <2>3. /\ uuids \subseteq NamesIn(F) /\ {"prt_ts", "checksum"} \subseteq NamesIn(F)
        /\ uuids \subseteq NamesIn(Fields(Footer))
        /\ "timestamps" \in NamesIn(Fields(Footer))
    BY SMT, <2>2, HeaderNames, FooterNames
  <2>4. header = FromParent(x, y)
    BY Zenon, <2>1
  <2> HIDE DEF x, y, header
  <2>5. /\ DOMAIN x = DOMAIN F /\ \A i \in DOMAIN F : IsPair(x[i])
        /\ DOMAIN y = DOMAIN Fields(Footer) /\ \A i \in DOMAIN Fields(Footer) : IsPair(y[i])
    BY Zenon, <2>1 DEF IsStruct
  <2>6. /\ header = [i \in DOMAIN F |-> header[i]]
        /\ \A i \in DOMAIN F :
              /\ F[i] \in uuids => header[i] = Get(Footer, y, F[i])
              /\ F[i] = "prt_ts" => header[i] = Get(Footer, y, "timestamps")
              /\ F[i] \notin uuids /\ F[i] # "prt_ts" => header[i] = x[i]
    BY SMT, <2>4, <2>5 DEF FromParent
  <2>7. ASSUME NEW n \in NamesIn(Fields(Footer)) PROVE IsPair(Get(Footer, y, n))
    <3>1. IsStruct(Footer, y)
      BY Zenon, <2>1
    <3>2. Get(Footer, y, n) = y[Place(Footer, n)]
      BY Zenon, <3>1, Gets
    <3>3. Place(Footer, n) \in DOMAIN Fields(Footer)
      BY Zenon, Places
    <3> QED
      BY Zenon, <3>2, <3>3, <2>5
  <2>8. IsStruct(Header, header)
    <3>1. ASSUME NEW i \in DOMAIN F PROVE IsPair(header[i])
      <4>1. CASE F[i] \in uuids
        BY Zenon, <4>1, <2>3, <2>6, <2>7
      <4>2. CASE F[i] = "prt_ts"
        BY Zenon, <4>2, <2>3, <2>6, <2>7
      <4>3. CASE F[i] \notin uuids /\ F[i] # "prt_ts"
        BY Zenon, <4>3, <2>5, <2>6
      <4> QED
        BY Zenon, <4>1, <4>2, <4>3
    <3> QED
      BY Zenon, <2>6, <3>1 DEF IsStruct
  <2>9. /\ IsStruct(Header, sealed)
        /\ \A i \in DOMAIN F : F[i] # "checksum" => sealed[i] = header[i]
    BY Zenon, <2>3, <2>8, SealedHolds
  <2> HIDE DEF sealed
  <2>10. ASSUME NEW m \in uuids
         PROVE  Get(Header, child, m) = Get(Footer, parent, m)
    <3>1. /\ m \in NamesIn(F) /\ m \in NamesIn(Fields(Footer))
          /\ m # "checksum"
          /\ m \in Swaps(Header) <=> m \in Swaps(Footer)
      BY SMT, <2>2, <2>3 DEF FooterSwaps, FooterSwapsButSize, HeaderSwaps,
                             HeaderSwapsButParent, UuidSwaps
    <3>2. Place(Header, m) \in DOMAIN F /\ F[Place(Header, m)] = m
      BY Zenon, <3>1, Places
    <3>3. sealed[Place(Header, m)] = Get(Footer, y, m)
      BY Zenon, <2>6, <2>9, <3>1, <3>2
    <3> QED
      BY Zenon, <2>1, <2>9, <3>1, <3>3, SameInBothFiles
  <2>11. Get(Header, child, "prt_ts") = Get(Footer, parent, "timestamps")
    <3>1. /\ "prt_ts" \in NamesIn(F) /\ "timestamps" \in NamesIn(Fields(Footer))
          /\ "prt_ts" # "checksum"
          /\ "prt_ts" \in Swaps(Header) <=> "timestamps" \in Swaps(Footer)
      BY SMT, <2>2, <2>3 DEF FooterSwaps, FooterSwapsButSize, HeaderSwaps,
                             HeaderSwapsButParent, UuidSwaps
    <3>2. Place(Header, "prt_ts") \in DOMAIN F /\ F[Place(Header, "prt_ts")] = "prt_ts"
      BY Zenon, <3>1, Places
    <3>3. sealed[Place(Header, "prt_ts")] = Get(Footer, y, "timestamps")
      BY Zenon, <2>6, <2>9, <3>1, <3>2
    <3> QED
      BY Zenon, <2>1, <2>9, <3>1, <3>3, SameInBothFiles
  <2> QED
    BY Zenon, <2>10, <2>11 DEF x, y, header, sealed
<1>2. InputOK => ChildNamesParent
  BY Zenon, <1>1 DEF InputOK, ChildNamesParent
<1> QED
  BY <1>2, InputsAreInputs, PTL

-----------------------------------------------------------------------------
(* Damage *)

Numbers(s, x)  == \A i \in DOMAIN Fields(s) : x[i][1] \in Nat /\ x[i][2] \in Nat
NotMore(s, x, y) == \A i \in DOMAIN Fields(s) : x[i][1] <= y[i][1] /\ x[i][2] <= y[i][2]
Value(field) == field[1] + Radix * field[2]

LEMMA SumOfStruct ==
    ASSUME NEW s \in Checked, NEW x, IsStruct(s, x), Numbers(s, x)
    PROVE  \E t : IsSum(t, x, Len(Fields(s))) /\ SumOfBytes(x) = t[Len(Fields(s))]
<1> DEFINE n == Len(Fields(s))
<1>1. n \in Nat /\ DOMAIN Fields(s) = 1 .. n
  BY Zenon, CheckedFields, FieldsAre
<1> HIDE DEF n
<1>2. DOMAIN x = 1 .. n /\ x = [i \in 1 .. n |-> x[i]]
  BY Zenon, <1>1 DEF IsStruct
<1>3. \A i \in 1 .. n : x[i][1] \in Int /\ x[i][2] \in Int
  BY SMT, <1>1 DEF Numbers
<1> QED
  BY Zenon, <1>1, <1>2, <1>3, SumIs DEF n

\* The checksum is the complement of the sum.
LEMMA ChecksumValue ==
    ASSUME NEW x, SumOfBytes(x) \in Int
    PROVE  Value(CalcChecksum(x)) = Radix * Radix - 1 - SumOfBytes(x)
<1> DEFINE t  == Radix * Radix - 1 - SumOfBytes(x)
           lo == t % Radix
           hi == t \div Radix
<1>1. t \in Int
  BY SMT DEF Radix
<1>2. CalcChecksum(x) = << lo, hi >>
  BY Zenon DEF CalcChecksum
<1> HIDE DEF t
<1>3. lo + Radix * hi = t
  BY SMT, <1>1 DEF Radix
<1> HIDE DEF lo, hi
<1>4. Value(<< lo, hi >>) = lo + Radix * hi
  BY SMT DEF Value
<1> QED
  BY Zenon, <1>2, <1>3, <1>4 DEF t

\* Of two structs, of which one has no byte greater, only one is sealed.
LEMMA SealedOnce ==
    ASSUME NEW s \in Checked, NEW x, NEW y, IsStruct(s, x), IsStruct(s, y),
           Numbers(s, x), Numbers(s, y), NotMore(s, x, y),
           ChecksumHolds(s, x), ChecksumHolds(s, y)
    PROVE  x = y
<1> DEFINE F    == Fields(s)
           n    == Len(F)
           c    == Place(s, "checksum")
           zero == << 0, 0 >>
           u    == With(s, x, "checksum", zero)
           v    == With(s, y, "checksum", zero)
<1>1. /\ n \in Nat /\ DOMAIN F = 1 .. n
      /\ c \in DOMAIN F /\ F[c] = "checksum" /\ Once(F, "checksum")
  BY Zenon, CheckedFields, FieldsAre, Places
<1>2. x[c] = CalcChecksum(u) /\ y[c] = CalcChecksum(v)
  BY Zenon, Gets DEF ChecksumHolds, Summed
<1>3. IsPair(zero) /\ zero[1] = 0 /\ zero[2] = 0
  BY SMT DEF IsPair
<1> HIDE DEF n, c, zero, u, v
<1>4. /\ IsStruct(s, u) /\ IsStruct(s, v)
      /\ \A i \in DOMAIN F : F[i] = "checksum" => u[i] = zero /\ v[i] = zero
      /\ \A i \in DOMAIN F : F[i] # "checksum" => u[i] = x[i] /\ v[i] = y[i]
  BY SMT, <1>3, Withs DEF u, v
<1>5. Numbers(s, u) /\ Numbers(s, v) /\ NotMore(s, u, v)
  <2>1. ASSUME NEW i \in DOMAIN F
        PROVE  /\ u[i][1] \in Nat /\ u[i][2] \in Nat /\ v[i][1] \in Nat /\ v[i][2] \in Nat
               /\ u[i][1] <= v[i][1] /\ u[i][2] <= v[i][2]
    <3>1. CASE F[i] = "checksum"
      BY SMT, <1>3, <1>4, <3>1
    <3>2. CASE F[i] # "checksum"
      BY Zenon, <1>4, <3>2 DEF Numbers, NotMore
    <3> QED
      BY <3>1, <3>2
  <2> QED
    BY Zenon, <2>1 DEF Numbers, NotMore
<1>6. PICK a : IsSum(a, u, n) /\ SumOfBytes(u) = a[n]
  BY Zenon, <1>4, <1>5, SumOfStruct DEF n
<1>7. PICK b : IsSum(b, v, n) /\ SumOfBytes(v) = b[n]
  BY Zenon, <1>4, <1>5, SumOfStruct DEF n
<1>8. /\ a[n] \in Int /\ b[n] \in Int /\ a[n] <= b[n]
      /\ a[n] = b[n] => \A i \in 1 .. n : u[i][1] = v[i][1] /\ u[i][2] = v[i][2]
  <2>1. Ordered(u, v, n)
    <3>1. \A k \in Nat : k \in Int
      OBVIOUS
    <3> QED
      BY Zenon, <1>1, <1>5, <3>1 DEF Numbers, NotMore, Ordered
  <2>2. n \in Nat /\ IsSum(a, u, n) /\ IsSum(b, v, n)
    BY Zenon, <1>1, <1>6, <1>7
  <2> QED
    BY SMT, <2>1, <2>2, SumsOrdered
<1>9. Value(x[c]) = Radix * Radix - 1 - a[n] /\ Value(y[c]) = Radix * Radix - 1 - b[n]
  BY Zenon, <1>2, <1>6, <1>7, <1>8, ChecksumValue
<1>10. /\ x[c][1] \in Nat /\ x[c][2] \in Nat /\ y[c][1] \in Nat /\ y[c][2] \in Nat
       /\ x[c][1] <= y[c][1] /\ x[c][2] <= y[c][2]
  BY Zenon, <1>1 DEF Numbers, NotMore
<1>11. a[n] = b[n] /\ x[c][1] = y[c][1] /\ x[c][2] = y[c][2]
  BY SMT, <1>8, <1>9, <1>10 DEF Value, Radix
<1>12. ASSUME NEW i \in DOMAIN F PROVE x[i] = y[i]
  <2>1. x[i] = << x[i][1], x[i][2] >> /\ y[i] = << y[i][1], y[i][2] >>
    BY Zenon DEF IsStruct, IsPair
  <2>2. x[i][1] = y[i][1] /\ x[i][2] = y[i][2]
    <3>1. CASE F[i] = "checksum"
      <4>1. i = c
        BY Zenon, <1>1, <3>1 DEF Once
      <4> QED
        BY Zenon, <1>11, <4>1
    <3>2. CASE F[i] # "checksum"
      BY Zenon, <1>1, <1>4, <1>8, <1>11, <3>2
    <3> QED
      BY <3>1, <3>2
  <2> QED
    BY Zenon, <2>1, <2>2
<1>13. x = [i \in DOMAIN F |-> x[i]] /\ y = [i \in DOMAIN F |-> y[i]]
  BY Zenon DEF IsStruct
<1> QED
  BY Zenon, <1>12, <1>13

LEMMA SwappedOrdered ==
    ASSUME NEW s, NEW x, NEW y, IsStruct(s, x), IsStruct(s, y)
    PROVE  /\ Numbers(s, x) => Numbers(s, SwapBytes(s, x))
           /\ NotMore(s, x, y) => NotMore(s, SwapBytes(s, x), SwapBytes(s, y))
<1> DEFINE u == SwapBytes(s, x)
           v == SwapBytes(s, y)
<1>1. \A i \in DOMAIN Fields(s) :
        /\ Fields(s)[i] \in Swaps(s) =>
             u[i] = << x[i][2], x[i][1] >> /\ v[i] = << y[i][2], y[i][1] >>
        /\ Fields(s)[i] \notin Swaps(s) => u[i] = x[i] /\ v[i] = y[i]
  BY Zenon DEF SwapBytes, Turned, IsStruct
<1>2. \A i \in DOMAIN Fields(s) :
        \/ u[i][1] = x[i][2] /\ u[i][2] = x[i][1] /\ v[i][1] = y[i][2] /\ v[i][2] = y[i][1]
        \/ u[i] = x[i] /\ v[i] = y[i]
  BY SMT, <1>1
<1> HIDE DEF u, v
<1>3. Numbers(s, x) => Numbers(s, u)
  BY Zenon, <1>2 DEF Numbers
<1>4. NotMore(s, x, y) => NotMore(s, u, v)
  BY Zenon, <1>2 DEF NotMore
<1> QED
  BY Zenon, <1>3, <1>4 DEF u, v

\* A struct is of bytes, its checksum too: the sum of 25 fields is not more than fits.
LEMMA StructNumbers ==
    ASSUME NEW s \in Checked, NEW f \in AnyFilling
    PROVE  Numbers(s, Struct(s, f))
<1> DEFINE F    == Fields(s)
           n    == Len(F)
           base == [i \in 1 .. Len(F) |-> Fresh(s, f, i)]
           zero == << 0, 0 >>
           u    == With(s, base, "checksum", zero)
           c    == CalcChecksum(u)
           x    == Struct(s, f)
<1>1. /\ n \in 1 .. 25 /\ DOMAIN F = 1 .. n /\ n \in Nat
      /\ s # JournalHeader
  BY SMT, CheckedFields DEF Checked, Footer, Header, JournalHeader
<1>2. x = With(s, base, "checksum", c)
  BY Zenon, <1>1 DEF Struct, Sealed, Fresh
<1>3. /\ base = [i \in DOMAIN F |-> base[i]]
      /\ \A i \in DOMAIN F : base[i] = Fresh(s, f, i)
  BY Zenon, <1>1
<1> HIDE DEF n, base, x, u, c, zero
<1>4. \A i \in DOMAIN F : \E a, b \in 0 .. Radix - 1 : base[i] = << a, b >>
  <2>1. ASSUME NEW i \in DOMAIN F PROVE \E a, b \in 0 .. Radix - 1 : base[i] = << a, b >>
    <3>1. IsFresh(s, F[i], f[i], base[i])
      <4>1. base[i] = Fresh(s, f, i)
        BY Zenon, <1>3
      <4>2. IsFresh(s, F[i], f[i], Fresh(s, f, i))
        BY FreshIs, CheckedFields
      <4> QED
        BY Zenon, <4>1, <4>2
    <3>2. i \in 1 .. 25
      <4>1. \A m \in 1 .. 25 : 1 .. m \subseteq 1 .. 25
        OBVIOUS
      <4> QED
        BY Zenon, <1>1, <4>1
    <3>3. \A k \in {0, 2, 3, 4, 7} : k \in 0 .. Radix - 1
      BY SMT DEF Radix
    <3>4. /\ f[i][1] \in 0 .. Radix - 1 /\ f[i][2] \in 0 .. Radix - 1
          /\ 2 + (f[i][1] % 3) \in 0 .. Radix - 1
      BY Zenon, <3>2, <3>3, FillingBytes
    <3>5. CASE F[i] = "cookie"
      <4>1. \/ base[i] = << 3, 7 >>
            \/ base[i] = << 3, 2 >>
        BY Zenon, <3>1, <3>5 DEF CookieOf, IsFresh
      <4> QED
        BY Zenon, <3>3, <4>1
    <3>6. CASE F[i] # "cookie"
      BY Zenon, <3>1, <3>3, <3>4, <3>6 DEF IsFresh
    <3> QED
      BY Zenon, <3>5, <3>6
  <2> QED
    BY Zenon, <2>1
<1>5. \A i \in DOMAIN F : /\ base[i][1] \in 0 .. Radix - 1 /\ base[i][2] \in 0 .. Radix - 1
                          /\ IsPair(base[i])
  BY SMT, <1>4 DEF IsPair
<1>6. IsStruct(s, base)
  BY Zenon, <1>3, <1>5 DEF IsStruct
<1>7. IsPair(zero) /\ zero[1] = 0 /\ zero[2] = 0 /\ 0 \in 0 .. Radix - 1
  BY SMT DEF zero, IsPair, Radix
<1>8. /\ IsStruct(s, u)
      /\ \A i \in DOMAIN F : F[i] = "checksum" => u[i] = zero
      /\ \A i \in DOMAIN F : F[i] # "checksum" => u[i] = base[i]
  BY SMT, <1>6, <1>7, Withs DEF u
<1>9. \A i \in DOMAIN F : u[i][1] \in 0 .. Radix - 1 /\ u[i][2] \in 0 .. Radix - 1
  BY Zenon, <1>5, <1>7, <1>8
<1>10. AreBytes(u, n) /\ Numbers(s, u)
  <2>1. \A k \in 0 .. Radix - 1 : k \in Nat
    BY SMT
  <2> QED
    BY Zenon, <1>1, <1>9, <2>1 DEF AreBytes, Numbers
<1>11. PICK t : IsSum(t, u, n) /\ SumOfBytes(u) = t[n]
  BY Zenon, <1>8, <1>10, SumOfStruct DEF n
<1>12. t[n] \in 0 .. 2 * (Radix - 1) * n
  BY Zenon, <1>1, <1>10, <1>11, SumBounded
<1>13. c = << (Radix * Radix - 1 - t[n]) % Radix, (Radix * Radix - 1 - t[n]) \div Radix >>
  BY Zenon, <1>11 DEF CalcChecksum, c
<1>14. Radix * Radix - 1 - t[n] \in 0 .. Radix * Radix - 1
  <2>1. \A m \in 1 .. 25 : \A k \in 0 .. 2 * (Radix - 1) * m :
            Radix * Radix - 1 - k \in 0 .. Radix * Radix - 1
    BY SMT DEF Radix
  <2> QED
    BY Zenon, <1>1, <1>12, <2>1
<1>15. c[1] \in Nat /\ c[2] \in Nat /\ IsPair(c)
  <2>1. \A k \in 0 .. Radix * Radix - 1 : k % Radix \in Nat /\ k \div Radix \in Nat
    BY SMT DEF Radix
  <2> DEFINE a == (Radix * Radix - 1 - t[n]) % Radix
             b == (Radix * Radix - 1 - t[n]) \div Radix
  <2>2. a \in Nat /\ b \in Nat /\ c = << a, b >>
    BY Zenon, <1>13, <1>14, <2>1
  <2> HIDE DEF a, b
  <2> QED
    BY SMT, <2>2 DEF IsPair
<1>16. /\ \A i \in DOMAIN F : F[i] = "checksum" => x[i] = c
       /\ \A i \in DOMAIN F : F[i] # "checksum" => x[i] = base[i]
  BY SMT, <1>2, <1>6, <1>15, Withs
<1>17. ASSUME NEW i \in DOMAIN F PROVE x[i][1] \in Nat /\ x[i][2] \in Nat
  <2>1. \A k \in 0 .. Radix - 1 : k \in Nat
    BY SMT
  <2> QED
    BY Zenon, <1>5, <1>15, <1>16, <2>1
<1> QED
  BY Zenon, <1>17 DEF Numbers, x

\* Damage is one byte less, or one byte more, or only bytes less.
LEMMA DamageOrdered ==
    ASSUME NEW s \in Checked, NEW x, IsStruct(s, x), Numbers(s, x),
           NEW field, NEW half \in {1, 2}, NEW byte \in Nat \cup {-1}
    PROVE  LET y == Damaged(x, field, half, byte)
           IN  /\ IsStruct(s, y) /\ Numbers(s, y)
               /\ \/ NotMore(s, x, y)
                  \/ NotMore(s, y, x)
<1> DEFINE F == Fields(s)
           y == Damaged(x, field, half, byte)
           At(i, j) == CASE byte = -1 /\ 2 * i + j > 2 * field + half -> 0
                         [] byte # -1 /\ i = field /\ j = half -> byte
                         [] OTHER -> x[i][j]
<1>1. /\ DOMAIN x = DOMAIN F
      /\ \A i \in DOMAIN F : x[i][1] \in Nat /\ x[i][2] \in Nat
  BY Zenon DEF IsStruct, Numbers
<1>2. /\ y = [i \in DOMAIN F |-> y[i]]
      /\ \A i \in DOMAIN F : y[i] = [j \in 1 .. 2 |-> At(i, j)]
  BY Zenon, <1>1 DEF Damaged
<1> HIDE DEF y
<1>3. \A i \in DOMAIN F : \A j \in {1, 2} :
        \/ At(i, j) = x[i][j]
        \/ byte = -1 /\ At(i, j) = 0
        \/ byte # -1 /\ i = field /\ j = half /\ At(i, j) = byte
  BY Zenon
<1> HIDE DEF At
<1>4. \A i \in DOMAIN F : y[i][1] = At(i, 1) /\ y[i][2] = At(i, 2) /\ IsPair(y[i])
  <2> DEFINE Two(a, b) == [j \in 1 .. 2 |-> IF j = 1 THEN a ELSE b]
  <2>1. \A a, b : Two(a, b)[1] = a /\ Two(a, b)[2] = b /\ IsPair(Two(a, b))
    BY SMT DEF IsPair
  <2>2. ASSUME NEW i \in DOMAIN F
        PROVE  y[i] = Two(At(i, 1), At(i, 2))
    <3>1. \A j \in 1 .. 2 : At(i, j) = IF j = 1 THEN At(i, 1) ELSE At(i, 2)
      <4>1. \A j \in 1 .. 2 : j = 1 \/ (j = 2 /\ j # 1)
        BY SMT
      <4> QED
        BY Zenon, <4>1
    <3> QED
      BY Zenon, <1>2, <3>1
  <2> HIDE DEF Two
  <2>3. ASSUME NEW i \in DOMAIN F
        PROVE  y[i][1] = At(i, 1) /\ y[i][2] = At(i, 2) /\ IsPair(y[i])
    <3> DEFINE two == Two(At(i, 1), At(i, 2))
    <3>1. two[1] = At(i, 1) /\ two[2] = At(i, 2) /\ IsPair(two)
      BY Zenon, <2>1
    <3>2. y[i] = two
      BY Zenon, <2>2
    <3> HIDE DEF two
    <3> QED
      BY Zenon, <3>1, <3>2
  <2> QED
    BY Zenon, <2>3
<1>5. IsStruct(s, y)
  BY Zenon, <1>2, <1>4 DEF IsStruct
<1>6. Numbers(s, y)
  <2>1. ASSUME NEW i \in DOMAIN F, NEW j \in {1, 2} PROVE At(i, j) \in Nat
    BY SMT, <1>1, <1>3
  <2> QED
    BY Zenon, <1>4, <2>1 DEF Numbers
<1>7. CASE byte = -1
  <2>1. ASSUME NEW i \in DOMAIN F, NEW j \in {1, 2} PROVE At(i, j) <= x[i][j]
    BY SMT, <1>1, <1>3, <1>7
  <2> QED
    BY Zenon, <1>4, <1>5, <1>6, <2>1 DEF NotMore, y
<1>8. CASE byte # -1 /\ byte <= x[field][half]
  <2>1. ASSUME NEW i \in DOMAIN F, NEW j \in {1, 2} PROVE At(i, j) <= x[i][j]
    BY SMT, <1>1, <1>3, <1>8
  <2> QED
    BY Zenon, <1>4, <1>5, <1>6, <2>1 DEF NotMore, y
<1>9. CASE byte # -1 /\ ~(byte <= x[field][half])
  <2>1. ASSUME NEW i \in DOMAIN F, NEW j \in {1, 2} PROVE x[i][j] <= At(i, j)
    BY SMT, <1>1, <1>3, <1>9
  <2> QED
    BY Zenon, <1>4, <1>5, <1>6, <2>1 DEF NotMore, y
<1> QED
  BY Zenon, <1>7, <1>8, <1>9

\* A footer or header of which a byte was damaged, or that ends in zeroes before its time,
\* is refused, whatever bytes its fields held (footer.rs:122-145, header.rs:155-171).
THEOREM DamageIsRefusedAlways == Spec => []DamageIsRefused
<1>1. ASSUME NEW s \in Checked, NEW f \in AnyFilling, NEW field, NEW half \in {1, 2},
             NEW byte \in Nat \cup {-1}
      PROVE  LET bytes == ToBytes(s, Struct(s, f))
                 found == Damaged(bytes, field, half, byte)
             IN  found = bytes \/ Read(s, found).error # "none"
  <2> DEFINE x     == Struct(s, f)
             bytes == ToBytes(s, x)
             found == Damaged(bytes, field, half, byte)
             y     == SwapBytes(s, found)
  <2>1. IsStruct(s, x) /\ Numbers(s, x) /\ ChecksumHolds(s, x)
    BY Zenon, CheckedFields, StructIs, StructNumbers
  <2> HIDE DEF x
  <2>2. IsStruct(s, bytes) /\ Numbers(s, bytes) /\ SwapBytes(s, bytes) = x
    BY Zenon, <2>1, SwappedTwice, SwappedOrdered DEF ToBytes
  <2> HIDE DEF bytes
  <2>3. /\ IsStruct(s, found) /\ Numbers(s, found)
        /\ \/ NotMore(s, bytes, found)
           \/ NotMore(s, found, bytes)
    BY Zenon, <2>2, DamageOrdered
  <2> HIDE DEF found
  <2>4. /\ IsStruct(s, y) /\ Numbers(s, y) /\ SwapBytes(s, y) = found
        /\ \/ NotMore(s, x, y)
           \/ NotMore(s, y, x)
    BY Zenon, <2>2, <2>3, SwappedTwice, SwappedOrdered
  <2>5. ASSUME ChecksumHolds(s, y) PROVE found = bytes
    <3>1. x = y
      BY Zenon, <2>1, <2>4, <2>5, SealedOnce
    <3>2. SwapBytes(s, x) = bytes
      BY Zenon DEF ToBytes, bytes
    <3> QED
      BY Zenon, <2>4, <3>1, <3>2
  <2>6. ASSUME ~ChecksumHolds(s, y) PROVE Read(s, found).error # "none"
    BY SMT, <2>6 DEF Read, NotRead
  <2> QED
    BY Zenon, <2>5, <2>6 DEF x, bytes, found
<1>2. InputOK => DamageIsRefused
  BY Zenon, <1>1 DEF InputOK, DamageIsRefused
<1> QED
  BY <1>2, InputsAreInputs, PTL
=============================================================================
