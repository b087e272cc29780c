----------------------------- MODULE DiskGeometry -----------------------------
(***************************************************************************)
(* Geometry::with_vhd_capacity: the cylinders, heads and sectors per track *)
(* of a disk, of which the footer stores 16, 8 and 8 bits.  The capacity   *)
(* is given in sectors, of which every disk has a whole number.            *)
(***************************************************************************)
EXTENDS VhdMath

MostSectors == 65535 * 16 * 255

\* The capacity is cut to a u32 before it is divided by the size of a sector, 512.
SectorsOfU32 == 8388608

TotalSectors(sectors) ==
    IF sectors > MostSectors THEN MostSectors ELSE sectors % SectorsOfU32

Shape(heads, spt) == [heads |-> heads, spt |-> spt]

\* The first two attempts: 17 sectors per track and at least 4 heads, then 31 and 16.
\* Mutant: more heads than 16 are no reason to go on.
FirstUnbounded(total) ==
    LET tracks == total \div 17
        heads  == IF (tracks + 1023) \div 1024 < 4 THEN 4 ELSE (tracks + 1023) \div 1024
    IN  IF tracks >= heads * 1024 THEN Shape(16, 31) ELSE Shape(heads, 17)
First(total) ==
    LET tracks == total \div 17
        heads  == IF (tracks + 1023) \div 1024 < 4 THEN 4 ELSE (tracks + 1023) \div 1024
    IN  IF tracks >= heads * 1024 \/ heads > 16 THEN Shape(16, 31) ELSE Shape(heads, 17)

ShapeOf(total) ==
    IF total > 65535 * 16 * 63 THEN Shape(255, 16)
    ELSE IF total \div First(total).spt >= First(total).heads * 1024 THEN Shape(16, 63)
    ELSE First(total)

\* Mutant: the last cylinder is counted, of which only a part is there.
CylindersAround(total, shape) == Ceil(total, shape.spt * shape.heads)
Cylinders(total, shape)       == (total \div shape.spt) \div shape.heads

WithVhdCapacity(sectors) ==
    LET total == TotalSectors(sectors)
        shape == ShapeOf(total)
    IN  [cylinders |-> Cylinders(total, shape),
         heads |-> shape.heads, sectorsPerTrack |-> shape.spt]

CapacityInSectors(geo) == geo.cylinders * geo.heads * geo.sectorsPerTrack

\* What the footer keeps of it.
Stored(geo) == [cylinders |-> geo.cylinders % 65536, heads |-> geo.heads % 256,
                sectorsPerTrack |-> geo.sectorsPerTrack % 256]
=============================================================================
