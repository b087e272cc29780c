------------------------------- MODULE VhdMath -------------------------------
(***************************************************************************)
(* The arithmetic of src/src/math.rs, on unsigned integers.                *)
(***************************************************************************)
EXTENDS Integers

CONSTANT U64        \* number of values of a u64: sums of offsets wrap at it

NoLength == -1      \* the None of Option<usize>

\* std::cmp::min
MinOf(a, b) == IF a <= b THEN a ELSE b

Ceil(numerator, denominator) == (numerator + (denominator - 1)) \div denominator

RoundUp(value, unit) == Ceil(value, unit) * unit

RoundDown(value, unit) == (value \div unit) * unit

\* "offset + len" of bound_to leaves the u64 range: a panic in a debug build,
\* a wrapped sum in a release build.
SumOverflows(offset, len) == offset + len >= U64

\* How many of the len bytes at offset lie below dataSize; NoLength when the
\* request starts beyond the end of the data.
BoundTo(dataSize, offset, len) ==
    LET total   == (offset + len) % U64
        overrun == total - dataSize
    IN  IF total < dataSize THEN len
        ELSE IF overrun <= len THEN len - overrun
        ELSE NoLength
=============================================================================
