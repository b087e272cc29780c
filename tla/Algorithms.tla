------------------------------ MODULE Algorithms ------------------------------
(***************************************************************************)
(* The pure functions of the code against what they are for, over inputs   *)
(* that MCAlgorithms chooses.  There is one state for every input.         *)
(***************************************************************************)
EXTENDS RelativePath, DiskGeometry, SparseLayout, StructCodec

CONSTANTS
    Paths,      \* paths, of which one is a child's and one its parent's
    DiskSizes,  \* sizes of disks in sectors
    TableSizes, \* numbers of entries of a BAT
    Fillings,   \* what the fields of structs hold, field by field
    Damages     \* the bytes that damage puts into a file

Bytes      == 0 .. Radix - 1
MostFields == 25
AnyFilling == [1 .. MostFields -> Bytes \X Bytes]

ASSUME InputAssumption ==
    /\ Paths \subseteq Seq(STRING)
    /\ DiskSizes \subseteq Nat /\ TableSizes \subseteq Nat
    /\ Fillings \subseteq AnyFilling /\ Damages \subseteq Nat

VARIABLE input

Nothing == [of |-> "nothing"]
Init == input = Nothing

PickPaths == \E file, parent \in Paths :
                input' = [of |-> "paths", file |-> file, parent |-> parent]
PickDisk  == \E sectors \in DiskSizes : input' = [of |-> "disk", sectors |-> sectors]
PickTable == \E blocks \in TableSizes, isDiff \in BOOLEAN :
                input' = [of |-> "table", blocks |-> blocks, isDiff |-> isDiff]

\* A new struct: its fields hold anything, but for those that must be what they are.
Struct(s, filling) ==
    LET fields == Fields(s)
        struct == [i \in 1 .. Len(fields) |->
            CASE fields[i] = "cookie"     -> CookieOf(s)
              [] fields[i] = "disk_type"  -> << 2 + (filling[i][1] % 3), 0 >>
              [] fields[i] \in Zeroed(s) -> << 0, 0 >>
              [] OTHER                    -> << filling[i][1], filling[i][2] >>]
    IN  IF s = JournalHeader THEN struct ELSE Sealed(s, struct)

PickStruct == \E s \in Structs, filling \in Fillings :
                input' = [of |-> "struct", type |-> s, filling |-> filling]

\* The header of a child and the footer of its parent.
PickChild == \E header, footer \in Fillings :
                input' = [of |-> "child", header |-> header, footer |-> footer]

\* One byte of the file is another, or the file ends behind it in zeroes.
PickDamage == \E s \in Checked, filling \in Fillings :
                \E field \in 1 .. Len(Fields(s)), half \in {1, 2}, byte \in Damages \cup {-1} :
                    input' = [of |-> "damage", type |-> s, filling |-> filling,
                              field |-> field, half |-> half, byte |-> byte]

Pick == PickPaths \/ PickDisk \/ PickTable \/ PickStruct \/ PickChild \/ PickDamage
Next == \/ input = Nothing /\ Pick
        \/ input # Nothing /\ input' = Nothing
Spec == Init /\ [][Next]_input

-----------------------------------------------------------------------------
(* Paths *)

\* The file's path is the parent's, or that of a directory the parent is in.
Begins(file, parent) == Len(file) <= Len(parent) /\ SubSeq(parent, 1, Len(file)) = file

\* header.rs:192-227: where the two paths are equal up to a place and at no place behind
\* it, the path that is stored leads from the directory of the child's file to the
\* parent; and the loop that writes it ends, unless the child's file would be the
\* parent's file or a directory above it.
RelativePathResolves ==
    input.of = "paths" =>
        LET path == RelativePathTo(input.file, input.parent)
        IN  PartForGood(input.file, input.parent) =>
                /\ path.error = "none" => Resolve(input.file, path) = input.parent
                /\ path.error = "overflow" => Begins(input.file, input.parent)

\* header.rs:191: "return a relative path from @file_path to @parent_file_path".  That
\* holds of every pair of absolute paths for which there is a path at all.
ReachesParent ==
    input.of = "paths" =>
        LET path == RelativePathTo(input.file, input.parent)
        IN  path.error = "none" => Resolve(input.file, path) = input.parent

-----------------------------------------------------------------------------
(* Geometry *)

\* geometry.rs:35-76 and footer.rs:93-97: whatever the size of the disk, the three numbers
\* are as wide as their fields in the footer, so that the casts there lose nothing, and
\* no disk has tracks or cylinders of no sectors.
GeometryFits ==
    input.of = "disk" =>
        LET geo == WithVhdCapacity(input.sectors)
        IN  /\ Stored(geo) = geo
            /\ geo.heads > 0 /\ geo.sectorsPerTrack > 0

\* geometry.rs:35-76: below 4 GiB, where the cut to a u32 does nothing, the geometry is
\* never of more sectors than the disk has, and of less than a cylinder fewer.
GeometryLosesLess ==
    input.of = "disk" /\ input.sectors < SectorsOfU32 =>
        LET geo == WithVhdCapacity(input.sectors)
        IN  /\ CapacityInSectors(geo) <= input.sectors
            /\ input.sectors - CapacityInSectors(geo) < geo.heads * geo.sectorsPerTrack

-----------------------------------------------------------------------------
(* The parts of a sparse file *)

\* sparse.rs:194-215, header.rs:107-141, bat.rs:24-63: header, BAT, locators and footer are
\* where the header says they are, one behind the other without gap or overlap, and a
\* reader of the file takes as many bytes for the BAT as were written.
LayoutTiles ==
    input.of = "table" =>
        LET blocks == input.blocks
        IN  /\ BatRead(blocks) = BatWritten(blocks)
            /\ LocatorOffset(blocks, 0) = DefaultTableOffset + BatWritten(blocks)
            /\ LocatorOffset(blocks, 1) = LocatorOffset(blocks, 0) + Sector
            /\ NextBlockPos(blocks, input.isDiff) =
                 IF input.isDiff THEN LocatorOffset(blocks, 1) + Sector
                                 ELSE LocatorOffset(blocks, 0)
            /\ NextBlockPos(blocks, input.isDiff) % Sector = 0

-----------------------------------------------------------------------------
(* Structs *)

\* footer.rs:105-153, header.rs:84-171: what is written of a new footer or header is read
\* back as what it was, byte order, checksum and type of disk included.
StructsRoundTrip ==
    input.of = "struct" /\ input.type \in Checked =>
        LET struct == Struct(input.type, input.filling)
        IN  Read(input.type, ToBytes(input.type, struct))
                = [error |-> "none", struct |-> struct]

\* footer.rs:67-81, header.rs:68-84, journal.rs:72-82 and 104-109: every number of a struct
\* is big endian in the file.  A forgotten field would be read back by the same code
\* as if nothing were wrong, and by no other program.  The units of the parent's name are
\* such a case: the code writes them as they are in memory, and IsNumber leaves them out.
StructsBigEndian ==
    input.of = "struct" =>
        LET struct == Struct(input.type, input.filling)
            bytes  == ToBytes(input.type, struct)
        IN  \A i \in DOMAIN struct :
                IsNumber(input.type, Fields(input.type)[i]) => bytes[i] = Turned(struct[i])

Damaged(bytes, field, half, byte) ==
    [i \in DOMAIN bytes |->
        [j \in 1 .. 2 |->
            CASE byte = -1 /\ 2 * i + j > 2 * field + half -> 0
              [] byte # -1 /\ i = field /\ j = half -> byte
              [] OTHER -> bytes[i][j]]]

\* footer.rs:122-145, header.rs:155-171: a footer or header of which a byte was damaged, or
\* of which a writer left only the beginning in a new file, is never taken for one.
DamageIsRefused ==
    input.of = "damage" =>
        LET bytes == ToBytes(input.type, Struct(input.type, input.filling))
            found == Damaged(bytes, input.field, input.half, input.byte)
        IN  found = bytes \/ Read(input.type, found).error # "none"

\* header.rs:103-105: a child's header names its parent by the bytes that the parent's own
\* file has for its uuid and its time, whoever reads them.
ChildNamesParent ==
    input.of = "child" =>
        LET parent == ToBytes(Footer, Struct(Footer, input.footer))
            header == FromParent(Struct(Header, input.header), Read(Footer, parent).struct)
            child  == ToBytes(Header, Sealed(Header, header))
        IN  /\ \A name \in {"uuid1", "uuid2", "uuid3", "uuid4"} :
                    Get(Header, child, name) = Get(Footer, parent, name)
            /\ Get(Header, child, "prt_ts") = Get(Footer, parent, "timestamps")
=============================================================================
