----------------------------- MODULE StructCodec -----------------------------
(***************************************************************************)
(* The structs that are in a file: VhdFooter, VhdHeader, and of the        *)
(* journal VhdJournalHeader and VhdJournalEntry.  A struct is the sequence *)
(* of its fields, and every field is cut to two bytes, the lower first as  *)
(* long as it is in memory.  swap_bytes turns some of the fields round     *)
(* before the struct is written and after it is read; the checksum is over *)
(* the bytes of all fields.                                                *)
(***************************************************************************)
EXTENDS Integers, Sequences

Radix == 64                     \* a byte has so many values
Footer        == "VhdFooter"
Header        == "VhdHeader"
JournalHeader == "VhdJournalHeader"
JournalEntry  == "VhdJournalEntry"
Structs       == {Footer, Header, JournalHeader, JournalEntry}
Checked       == {Footer, Header}       \* those that are read

\* A uuid is three numbers and the rest.
UuidFields == << "uuid1", "uuid2", "uuid3", "uuid4" >>
UuidSwaps  == {"uuid1", "uuid2", "uuid3"}

FooterFields ==
    << "cookie", "features", "ff_version", "data_offset", "timestamps", "crtr_app",
       "crtr_ver", "crtr_os", "orig_size", "curr_size", "cylinders", "heads_and_sectors",
       "disk_type", "checksum" >> \o UuidFields \o << "saved", "reserved" >>
LocatorFields == << "code", "data_space", "data_len", "res", "locator_offset" >>
HeaderFields ==
    << "cookie", "data_offset", "table_offset", "hdr_ver", "max_bat_size", "block_size",
       "checksum" >> \o UuidFields \o << "prt_ts", "res1", "prt_name" >>
    \o LocatorFields \o LocatorFields \o << "res2" >>
JournalHeaderFields ==
    << "cookie" >> \o UuidFields \o
    << "vhd_footer_offset", "journal_data_entries", "journal_metadata_entries",
       "journal_data_offset", "journal_metadata_offset", "journal_eof", "pad" >>
JournalEntryFields ==
    << "cookie", "etype", "size", "offset", "checksum", "reserved" >>

Fields(s) ==
    CASE s = Footer        -> FooterFields
      [] s = Header        -> HeaderFields
      [] s = JournalHeader -> JournalHeaderFields
      [] s = JournalEntry  -> JournalEntryFields

\* The numbers of a struct: the fields of type u16, u32 or u64, those that are reserved
\* too; but not those whose constant is a word, which has its bytes in memory in the order
\* of the file, and not the name of the parent, an array of UTF-16 units.
IsNumber(s, name) ==
    /\ name \notin {"cookie", "crtr_app", "crtr_os", "uuid1", "uuid2", "uuid3", "uuid4",
                    "heads_and_sectors", "saved", "res2", "pad", "prt_name"}
    /\ name = "reserved" => s = JournalEntry

\* The numbers that are reserved: new leaves them zero.
Zeroed(s) ==
    CASE s = Header       -> {"res1", "res"}
      [] s = JournalEntry -> {"reserved"}
      [] OTHER            -> {}

-----------------------------------------------------------------------------
(* swap_bytes, which is written field by field *)

\* Mutants, each without a line: the footer's size, and the header's parent.
FooterSwapsButSize ==
    {"features", "ff_version", "data_offset", "timestamps", "crtr_ver", "orig_size",
     "cylinders", "disk_type", "checksum"} \cup UuidSwaps
HeaderSwapsButParent ==
    {"data_offset", "table_offset", "hdr_ver", "max_bat_size", "block_size", "checksum",
     "prt_ts", "code", "data_len", "data_space", "locator_offset"}

FooterSwaps == FooterSwapsButSize \cup {"curr_size"}
HeaderSwaps == HeaderSwapsButParent \cup UuidSwaps
JournalHeaderSwaps ==
    {"vhd_footer_offset", "journal_data_entries", "journal_metadata_entries",
     "journal_data_offset", "journal_metadata_offset", "journal_eof"}
JournalEntrySwaps == {"etype", "size", "offset", "checksum"}

Swaps(s) ==
    CASE s = Footer        -> FooterSwaps
      [] s = Header        -> HeaderSwaps
      [] s = JournalHeader -> JournalHeaderSwaps
      [] s = JournalEntry  -> JournalEntrySwaps

Turned(field) == << field[2], field[1] >>

SwapBytes(s, struct) ==
    [i \in DOMAIN struct |->
        IF Fields(s)[i] \in Swaps(s) THEN Turned(struct[i]) ELSE struct[i]]

-----------------------------------------------------------------------------
(* Checksums *)

Get(s, struct, name) == struct[CHOOSE i \in DOMAIN struct : Fields(s)[i] = name]
With(s, struct, name, field) ==
    [i \in DOMAIN struct |-> IF Fields(s)[i] = name THEN field ELSE struct[i]]

\* calc_header_bytes_checksum: the complement of the sum, in a field.
SumOfBytes(struct) ==
    LET sum[i \in 0 .. Len(struct)] ==
            IF i = 0 THEN 0 ELSE sum[i - 1] + struct[i][1] + struct[i][2]
    IN  sum[Len(struct)]
CalcChecksum(struct) ==
    LET complement == Radix * Radix - 1 - SumOfBytes(struct)
    IN  << complement % Radix, complement \div Radix >>

\* The struct whose checksum is taken: calc_header_checksum! makes a copy and clears
\* the field.  Mutant: it does not.
SummedAsItIs(s, struct) == struct
Summed(s, struct)       == With(s, struct, "checksum", << 0, 0 >>)

\* VhdFooter::new, VhdHeader::new, VhdJournalEntry::new: the checksum comes last, and is
\* zero when it is taken.  The header of a journal has none.
Sealed(s, struct) ==
    With(s, struct, "checksum", CalcChecksum(With(s, struct, "checksum", << 0, 0 >>)))

-----------------------------------------------------------------------------
(* Writing and reading *)

\* to_bytes, and write: what is in the file.
ToBytes(s, struct) == SwapBytes(s, struct)

\* The constants HD_COOKIE and DD_COOKIE.
CookieOf(s) == IF s = Footer THEN << 3, 7 >> ELSE << 3, 2 >>
VhdTypes    == { << t, 0 >> : t \in {2, 3, 4} }

\* Mutant: nobody compares the checksum.
AnyChecksum(s, struct)   == TRUE
ChecksumHolds(s, struct) ==
    Get(s, struct, "checksum") = CalcChecksum(Summed(s, struct))

NotRead(why) == [error |-> why, struct |-> << >>]

Read(s, bytes) ==
    LET struct == SwapBytes(s, bytes)
    IN  IF Get(s, bytes, "cookie") # CookieOf(s) THEN NotRead("InvalidCookie")
        ELSE IF ~ChecksumHolds(s, struct) THEN NotRead("InvalidChecksum")
        ELSE IF s = Footer /\ Get(s, struct, "disk_type") \notin VhdTypes
        THEN NotRead("UnknownVhdType")
        ELSE [error |-> "none", struct |-> struct]

\* What VhdHeader::new takes from the footer of the parent.
FromParent(header, parent) ==
    [i \in DOMAIN header |->
        CASE Fields(Header)[i] \in {"uuid1", "uuid2", "uuid3", "uuid4"}
                -> Get(Footer, parent, Fields(Header)[i])
          [] Fields(Header)[i] = "prt_ts" -> Get(Footer, parent, "timestamps")
          [] OTHER -> header[i]]
=============================================================================
