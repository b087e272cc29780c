----------------------------- MODULE SparseLayout -----------------------------
(***************************************************************************)
(* Where the parts of a sparse image are: twice over, once by the code     *)
(* that writes them one after the other, and once by what the header that  *)
(* it writes says.                                                         *)
(***************************************************************************)
EXTENDS VhdMath

Sector     == 512
FooterSize == 512
HeaderSize == 1024

DefaultHeaderOffset == FooterSize
DefaultTableOffset  == DefaultHeaderOffset + HeaderSize

\* What VhdHeader::new puts into the header: the table_offset it is given, and for
\* each of two locators its data_offset.  Mutant: the table is not rounded.
UnroundedLocator(blocks, i) == DefaultTableOffset + blocks * 4 + i * Sector
LocatorOffset(blocks, i) ==
    DefaultTableOffset + RoundUp(blocks * 4, Sector) + i * Sector

\* What VhdBat::write writes, and what VhdBat::read reads.
BatWritten(blocks) == RoundUp(blocks * 4, Sector)
BatRead(blocks)    == (RoundUp(blocks * 4, Sector) \div 4) * 4

\* Where SparseExtent::create says the next block will be, and puts the footer.
NextBlockPos(blocks, isDiff) ==
    DefaultTableOffset + BatWritten(blocks) + (IF isDiff THEN 2 * Sector ELSE 0)
=============================================================================
