------------------------------ MODULE VirtualDisk ------------------------------
(***************************************************************************)
(* What a dynamic or differencing disk is to its user: bytes that never    *)
(* change, read by requests that are answered one at a time.  A request    *)
(* may be refused with an error, or panic; a write that is accepted wrote  *)
(* nothing.                                                                *)
(***************************************************************************)
EXTENDS Integers, Sequences

CONSTANT Zero       \* the zero byte

VARIABLES
    disk,           \* the bytes of the disk, from offset 0 on
    request,        \* the request that is being served, or was last, and whether
                    \* every byte of its answer has to be the disk's
    pending,        \* it has not been answered
    answer          \* what it was answered

\* The bytes that are in the caller's buffer are the disk's, at the offsets that were
\* asked for; in a request that is not exact, some may be zeroes.
IsRight(r, bytes) ==
    /\ Len(bytes) <= r.len
    /\ \A i \in 1 .. Len(bytes) :
          \/ bytes[i] = disk[r.at + i - 1]
          \/ bytes[i] = Zero /\ ~r.exact

\* An exact read that is accepted fills the buffer, a write that is accepted is empty.
Answers(r, a) ==
    \/ a.result # "ok"
    \/ r.op = "read" /\ (r.exact => Len(a.bytes) = r.len)
    \/ r.op = "write" /\ r.len = 0
    \/ r.op \notin {"read", "write"}

\* A request comes in, and may be answered at once.
Ask ==
    /\ ~pending
    /\ request' # request \/ pending' \/ answer' # answer
    /\ ~pending' => IsRight(request', answer'.bytes) /\ Answers(request', answer')
    /\ UNCHANGED disk

Answer ==
    /\ pending /\ ~pending'
    /\ IsRight(request, answer'.bytes)
    /\ Answers(request, answer')
    /\ UNCHANGED <<disk, request>>

Init == ~pending

Next == Ask \/ Answer

Spec == Init /\ [][Next]_<<disk, request, pending, answer>>
=============================================================================
