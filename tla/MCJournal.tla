------------------------------ MODULE MCJournal ------------------------------
(* A journal for TLC: records of a few bytes, of different lengths. *)
EXTENDS JournalProps

MCDataSize == [FooterP |-> 1, FooterC |-> 1, Header |-> 2, Locator |-> 1, Bat |-> 2,
               Bitmap |-> 1, Data |-> 3]
=============================================================================
