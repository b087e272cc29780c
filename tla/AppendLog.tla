------------------------------ MODULE AppendLog ------------------------------
(***************************************************************************)
(* What a journal is to its reader, whenever the writer stops: a sequence  *)
(* of whole records that only ever grows at its end.  While a write of its *)
(* header has been left half done it cannot be read, but loses nothing.    *)
(***************************************************************************)
EXTENDS Integers, Sequences

CONSTANT IsWhole(_)     \* a record that can be used
VARIABLES
    durable,            \* the records of the journal
    readable            \* whether its reader finds them

Init == durable = << >> /\ ~readable

Start == durable = << >> /\ readable' /\ UNCHANGED durable

\* One or more records appear behind the others, all of them readable: a header
\* that could not be written is made good by the next one.
Extend ==
    /\ Len(durable') > Len(durable)
    /\ SubSeq(durable', 1, Len(durable)) = durable
    /\ \A i \in Len(durable) + 1 .. Len(durable') : IsWhole(durable'[i])
    /\ readable'

Tear == ~readable' /\ UNCHANGED durable

Next == Start \/ Extend \/ Tear

Spec == Init /\ [][Next]_<<durable, readable>>
=============================================================================
