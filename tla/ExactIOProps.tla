----------------------------- MODULE ExactIOProps -----------------------------
(***************************************************************************)
(* What read_exact_at and write_all_at do to a file and to a buffer.       *)
(***************************************************************************)
EXTENDS ExactIO

Results == {"none", "ok", "UnexpectedEOD", "WriteZero", "Io"}

IsFile(f) == \A p \in DOMAIN f : p \in Nat /\ 0 .. p \subseteq DOMAIN f

Access == INSTANCE FileAccess WITH contents <- (IF running THEN before ELSE file)

\* Everything is well formed; what is behind the loop and the place of the next
\* write agree, and the positions of the file go from 0 to its last one.
TypeOK ==
    /\ IsFile(file) /\ IsFile(before)
    /\ call.op \in {"none", "read", "write"} /\ call.id \in 0 .. MaxCalls
    /\ call.at \in Nat /\ call.len \in Nat
    /\ done \in 0 .. call.len
    /\ call.op = "write" => offset = call.at + done /\ got = Empty
    /\ call.op = "read" => DOMAIN got = 0 .. done - 1 /\ cuts \subseteq 0 .. done
    /\ running \in BOOLEAN /\ short \in BOOLEAN
    /\ answer.result \in Results /\ answer.op \in {"none", "read", "write"}

\* At every moment of a write, whatever was short and wherever it stops: the file
\* is what it was, with the first bytes of the data at their places, and no
\* other byte has changed but the hole a write behind the end leaves.
OnlyPrefixLands ==
    call.op = "write" => file = Access!Put(before, call.id, call.at, done)

\* A read that returns Ok, of bytes that are all there and of which no read of the
\* file came short, has filled the buffer with those bytes.
ReadIsExact ==
    (~running /\ answer.op = "read" /\ answer.result = "ok" /\ ~answer.short
              /\ IsThere(answer.at, answer.len)) =>
        \A i \in 0 .. answer.len - 1 : answer.got[i] = file[answer.at + i]

\* A call, and a crash before its end, is one access to the file, as the other
\* modules take it.
ImplementsFileAccess == Access!Spec

\* The loops end.
CallsReturn == running ~> ~running

-----------------------------------------------------------------------------
(* What the code's own words say, and the code does not do *)

\* traits.rs:11, "Ok(0) => break, // EOF", and traits.rs:20, UnexpectedEOD: a read
\* that returns Ok lies within the file.
EndIsReported ==
    (~running /\ answer.op = "read" /\ answer.result = "ok") =>
        IsThere(answer.at, answer.len)
=============================================================================
