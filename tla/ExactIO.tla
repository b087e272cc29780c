-------------------------------- MODULE ExactIO --------------------------------
(***************************************************************************)
(* The loops of the traits ReadAt and WriteAt over a VhdFile: each step is *)
(* one read or write of the file, which may fail or transfer fewer bytes   *)
(* than it was asked for.  The other modules take a call as one access to  *)
(* the file: FileAccess says what that access is.                          *)
(*                                                                         *)
(* A byte is known by the call that wrote it and its index in the data of  *)
(* that call.  A VhdFile that is not open for the access fails, as with    *)
(* any error of the file.                                                  *)
(***************************************************************************)
EXTENDS Integers

CONSTANTS
    FileSize,           \* bytes of the file before the first call
    Offsets, Lengths,   \* the arguments the calls are made with
    Faults,             \* what may go wrong, see FaultKinds
    MaxCalls            \* bound on the calls

FaultKinds == {"readError", "shortRead", "writeError", "shortWrite"}

ASSUME ExactIOAssumption ==
    /\ FileSize \in Nat /\ Offsets \subseteq Nat /\ Lengths \subseteq Nat
    /\ Faults \subseteq FaultKinds /\ MaxCalls \in Nat

VARIABLES
    file,       \* the bytes of the file, from position 0 on
    call,       \* the number of the last call, and its arguments
    offset,     \* where write_all_at writes next
    done,       \* how much of the buffer, or of the data, is behind the loop
    got,        \* what the buffer holds so far
    running,    \* a call is in its loop
    answer,     \* the last call that has returned, and what it returned
    before,     \* the file before the last call (history)
    cuts,       \* where in the buffer the reads of the last call began (history)
    short       \* one of them came back short of bytes that were there (history)

history == <<before, cuts, short>>
vars    == <<file, call, offset, done, got, running, answer, history>>

Byte(c, i) == <<c, i>>
Hole       == Byte(0, -1)
Empty      == [i \in {} |-> Hole]

-----------------------------------------------------------------------------
(* The file *)

\* File::write of n bytes of a call's data, from index i on, to a place.
FileWrite(at, i, n) ==
    [p \in DOMAIN file \cup (IF n = 0 THEN {} ELSE 0 .. at + n - 1) |->
        IF p \in at .. at + n - 1 THEN Byte(call.id, i + (p - at))
        ELSE IF p \in DOMAIN file THEN file[p] ELSE Hole]

\* The buffer after File::read of n bytes from a place.  Mutant: nothing seeks, the
\* file is read from its start.
FileReadUnsought(at, n) ==
    [i \in 0 .. done + n - 1 |-> IF i < done THEN got[i] ELSE file[i - done]]
FileRead(at, n) ==
    [i \in 0 .. done + n - 1 |-> IF i < done THEN got[i] ELSE file[at + (i - done)]]

\* What is left of the buffer, or of the data.  Mutant: all of it, always.
WholeBuffer == call.len
Left        == call.len - done

\* How many bytes a read may come back with: all that are there, or fewer, but
\* none only where none are.
IsThere(at, n)  == \A i \in 0 .. n - 1 : at + i \in DOMAIN file
ReadsAll(at, n) == IsThere(at, n) /\ (n = Left \/ at + n \notin DOMAIN file)
Reads(at, n)    == \/ ReadsAll(at, n)
                   \/ "shortRead" \in Faults /\ n > 0 /\ IsThere(at, n)
Writes(n)       == n = Left \/ "shortWrite" \in Faults

-----------------------------------------------------------------------------
(* The loops *)

Returns(result) ==
    /\ running' = FALSE
    /\ answer' = [op |-> call.op, call |-> call.id, at |-> call.at, len |-> call.len,
                  result |-> result, got |-> got', short |-> short']

GoesOn == UNCHANGED <<running, answer>>

\* read_exact_at and write_all_at, up to their loops.
Begin(op, at, n) ==
    /\ ~running /\ call.id < MaxCalls
    /\ call' = [op |-> op, id |-> call.id + 1, at |-> at, len |-> n]
    /\ offset' = at /\ done' = 0 /\ got' = Empty
    /\ before' = file /\ cuts' = {} /\ short' = FALSE
    /\ running' = TRUE
    /\ UNCHANGED <<file, answer>>

ReadExactAt(at, n) == Begin("read", at, n)
WriteAllAt(at, n)  == Begin("write", at, n)

\* No bytes are the end of the file.  Mutant: they are not, the loop goes on.
NeverEnds(n) == GoesOn
AfterRead(n) == IF n = 0 THEN Returns("UnexpectedEOD") ELSE GoesOn

\* One turn of the loop of read_exact_at, which asks for the rest of the buffer at
\* the offset it began with.
ReadSome ==
    /\ running /\ call.op = "read" /\ Left > 0
    /\ \E n \in 0 .. Left :
          /\ Reads(call.at, n)
          /\ got' = FileRead(call.at, n) /\ done' = done + n
          /\ cuts' = cuts \cup {done}
          /\ short' = (short \/ ~ReadsAll(call.at, n))
          /\ AfterRead(n)
    /\ UNCHANGED <<file, call, offset, before>>

ReadFails ==
    /\ running /\ call.op = "read" /\ Left > 0 /\ "readError" \in Faults
    /\ UNCHANGED <<file, call, offset, done, got, history>>
    /\ Returns("Io")

\* Where the next write goes.  Mutant: where the first one went.
SameOffset(n) == offset
NextOffset(n) == offset + n

\* A write of no bytes is an error.  Mutant: it is the end of the call.
ZeroIsEnough(n) == IF n = 0 THEN Returns("ok") ELSE GoesOn
AfterWrite(n)   == IF n = 0 THEN Returns("WriteZero") ELSE GoesOn

\* One turn of the loop of write_all_at.
WriteSome ==
    /\ running /\ call.op = "write" /\ Left > 0
    /\ UNCHANGED <<call, got, history>>
    /\ \E n \in 0 .. Left :
          /\ Writes(n)
          /\ file' = FileWrite(offset, done, n)
          /\ offset' = NextOffset(n) /\ done' = done + n
          /\ AfterWrite(n)

WriteFails ==
    /\ running /\ call.op = "write" /\ Left > 0 /\ "writeError" \in Faults
    /\ UNCHANGED <<file, call, offset, done, got, history>>
    /\ Returns("Io")

\* Nothing is left: the call returns Ok.
Finish ==
    /\ running /\ Left = 0
    /\ UNCHANGED <<file, call, offset, done, got, history>>
    /\ Returns("ok")

-----------------------------------------------------------------------------
Init ==
    /\ file = [p \in 0 .. FileSize - 1 |-> Byte(0, p)] /\ before = file
    /\ call = [op |-> "none", id |-> 0, at |-> 0, len |-> 0]
    /\ offset = 0 /\ done = 0 /\ got = Empty /\ cuts = {} /\ short = FALSE
    /\ running = FALSE
    /\ answer = [op |-> "none", call |-> 0, at |-> 0, len |-> 0, result |-> "none",
                 got |-> Empty, short |-> FALSE]

Next ==
    \/ \E at \in Offsets, n \in Lengths : ReadExactAt(at, n) \/ WriteAllAt(at, n)
    \/ ReadSome \/ ReadFails \/ WriteSome \/ WriteFails \/ Finish

\* A call waits for nothing but the file, which answers; no error is relied on.
Fairness == WF_vars(ReadSome) /\ WF_vars(WriteSome) /\ WF_vars(Finish)

Spec == Init /\ [][Next]_vars /\ Fairness
=============================================================================
