------------------------------ MODULE FileAccess ------------------------------
(***************************************************************************)
(* What read_exact_at and write_all_at are to the code that calls them:    *)
(* one access to the file, as the other modules take it.  A write puts all *)
(* of its bytes, or, with an error, a part of them from the first on.  A   *)
(* read answers with as many bytes as were asked for, or an error; what it *)
(* delivers are pieces of the file that all begin at the same place.       *)
(***************************************************************************)
EXTENDS Integers

CONSTANTS
    Byte(_, _),     \* byte i of the data that is passed to call c
    Hole            \* what is read between the end of a file and a later write

VARIABLES
    contents,       \* the bytes of the file, from position 0 on
    answer          \* the last call, and what it returned

\* The file after the first k bytes of a call's data went to a place.
Put(f, c, at, k) ==
    [p \in DOMAIN f \cup (IF k = 0 THEN {} ELSE 0 .. at + k - 1) |->
        IF p \in at .. at + k - 1 THEN Byte(c, p - at)
        ELSE IF p \in DOMAIN f THEN f[p] ELSE Hole]

\* out is made of pieces of the file that all begin at at, cut at the indices R.
IsCutAt(f, at, out, R) ==
    \A i \in DOMAIN out :
        \E r \in R : /\ r <= i
                     /\ \A q \in R : q <= r \/ q > i
                     /\ at + i - r \in DOMAIN f
                     /\ out[i] = f[at + i - r]

Read ==
    /\ answer'.op = "read"
    /\ \E k \in 0 .. answer'.len :
          /\ DOMAIN answer'.got = 0 .. k - 1
          /\ answer'.result = "ok" <=> k = answer'.len
    /\ \E R \in SUBSET (DOMAIN answer'.got) :
          IsCutAt(contents, answer'.at, answer'.got, R)
    /\ UNCHANGED contents

Write ==
    /\ answer'.op = "write"
    /\ \E k \in 0 .. answer'.len :
          /\ contents' = Put(contents, answer'.call, answer'.at, k)
          /\ answer'.result = "ok" <=> k = answer'.len

Init == answer.op = "none"

Spec == Init /\ [][Read \/ Write]_<<contents, answer>>
=============================================================================
