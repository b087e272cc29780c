---------------------------- MODULE ExactIOProofs ----------------------------
(***************************************************************************)
(* That the loops of read_exact_at and write_all_at are the one access to  *)
(* the file that FileAccess describes, for files and buffers of any size.  *)
(***************************************************************************)
EXTENDS ExactIOProps, TLAPS

IsFunction(f) == f = [p \in DOMAIN f |-> f[p]]

\* The data of a call that writes is in the file as far as the loop has come, and
\* the next write goes behind it.
WriteInv ==
    call.op = "write" =>
        /\ offset = call.at + done
        /\ file = Access!Put(before, call.id, call.at, done)

\* What a call has read is made of pieces of the file, cut where a read began.
ReadInv ==
    call.op = "read" =>
        /\ file = before
        /\ DOMAIN got = 0 .. done - 1 /\ cuts \subseteq 0 .. done
        /\ Access!IsCutAt(file, call.at, got, cuts \cap DOMAIN got)

Inv ==
    /\ call.at \in Nat /\ call.len \in Nat
    /\ done \in Nat /\ done <= call.len
    /\ IsFunction(file)
    /\ running \in BOOLEAN
    /\ running => call.op \in {"read", "write"}
    /\ WriteInv
    /\ ReadInv

LEMMA InitInv == Init => Inv
<1> SUFFICES ASSUME Init PROVE Inv
  OBVIOUS
<1>1. IsFunction(file)
  BY Zenon DEF Init, IsFunction
<1>2. call.at = 0 /\ call.len = 0 /\ done = 0 /\ call.op = "none"
  BY DEF Init
<1>3. running = FALSE
  BY Zenon DEF Init
<1>4. WriteInv /\ ReadInv
  BY Zenon, <1>2 DEF WriteInv, ReadInv
<1>5. call.at \in Nat /\ call.len \in Nat /\ done \in Nat /\ done <= call.len
  BY <1>2
<1> QED
  BY Zenon, <1>1, <1>3, <1>4, <1>5 DEF Inv

-----------------------------------------------------------------------------
(* One lemma for each action *)

LEMMA PutNothing ==
    ASSUME NEW f, IsFunction(f), NEW c, NEW at \in Nat
    PROVE  f = Access!Put(f, c, at, 0)
<1>1. \A p : p \notin at .. at + 0 - 1
  OBVIOUS
<1>2. Access!Put(f, c, at, 0) = [p \in DOMAIN f |-> f[p]]
  BY <1>1 DEF Access!Put
<1> QED
  BY <1>2 DEF IsFunction

LEMMA BeginInv ==
    ASSUME Inv, NEW op \in {"read", "write"}, NEW at \in Offsets, NEW n \in Lengths, Begin(op, at, n)
    PROVE  Inv'
<1>1. at \in Nat /\ n \in Nat
  BY ExactIOAssumption
<1>2. /\ call' = [op |-> op, id |-> call.id + 1, at |-> at, len |-> n]
      /\ offset' = at /\ done' = 0 /\ got' = Empty /\ cuts' = {}
      /\ before' = file /\ file' = file /\ running' = TRUE
  BY DEF Begin
<1>3. call'.at = at /\ call'.len = n /\ call'.op = op
  BY <1>2
<1>4. WriteInv'
  BY <1>1, <1>2, <1>3, PutNothing DEF WriteInv, Inv
<1>5. ReadInv'
  <2>1. DOMAIN got' = {}
    BY <1>2 DEF Empty
  <2>2. DOMAIN got' = 0 .. done' - 1
    BY <1>2, <2>1
  <2> QED
    BY <1>2, <2>1, <2>2 DEF ReadInv, Access!IsCutAt
<1>6. IsFunction(file)'
  BY <1>2 DEF Inv, IsFunction
<1> QED
  BY <1>1, <1>2, <1>3, <1>4, <1>5, <1>6 DEF Inv

\* A write of n bytes behind the first k of the data puts the first k + n.
LEMMA PutMore ==
    ASSUME NEW f, NEW at \in Nat, NEW k \in Nat, NEW n \in Nat,
           file = Access!Put(f, call.id, at, k)
    PROVE  FileWrite(at + k, k, n) = Access!Put(f, call.id, at, k + n)
<1> DEFINE D == DOMAIN f \cup (IF k = 0 THEN {} ELSE 0 .. at + k - 1)
           E == DOMAIN f \cup (IF k + n = 0 THEN {} ELSE 0 .. at + (k + n) - 1)
<1>1. DOMAIN file = D
  BY DEF Access!Put
<1>2. D \cup (IF n = 0 THEN {} ELSE 0 .. at + k + n - 1) = E
  BY SMT
<1>3. ASSUME NEW p \in E
      PROVE  (IF p \in at + k .. at + k + n - 1 THEN Byte(call.id, k + (p - (at + k)))
              ELSE IF p \in DOMAIN file THEN file[p] ELSE Hole)
             = IF p \in at .. at + (k + n) - 1 THEN Byte(call.id, p - at)
               ELSE IF p \in DOMAIN f THEN f[p] ELSE Hole
  <2>1. CASE p \in at + k .. at + k + n - 1
    BY SMT, <2>1 DEF Byte
  <2>2. CASE p \notin at + k .. at + k + n - 1 /\ p \in D
    <3>1. file[p] = IF p \in at .. at + k - 1 THEN Byte(call.id, p - at)
                    ELSE IF p \in DOMAIN f THEN f[p] ELSE Hole
      BY <2>2 DEF Access!Put
    <3>2. p \in at .. at + k - 1 <=> p \in at .. at + (k + n) - 1
      BY SMT, <2>2
    <3> QED
      BY Zenon, <1>1, <2>2, <3>1, <3>2
  <2>3. CASE p \notin at + k .. at + k + n - 1 /\ p \notin D
    <3>1. p \notin DOMAIN f /\ p \notin at .. at + (k + n) - 1
      BY SMT, <2>3
    <3> QED
      BY Zenon, <1>1, <2>3, <3>1
  <2> QED
    BY Zenon, <2>1, <2>2, <2>3
<1>4. FileWrite(at + k, k, n)
        = [p \in E |-> IF p \in at + k .. at + k + n - 1 THEN Byte(call.id, k + (p - (at + k)))
                       ELSE IF p \in DOMAIN file THEN file[p] ELSE Hole]
  BY Zenon, <1>1, <1>2 DEF FileWrite
<1>5. Access!Put(f, call.id, at, k + n)
        = [p \in E |-> IF p \in at .. at + (k + n) - 1 THEN Byte(call.id, p - at)
                       ELSE IF p \in DOMAIN f THEN f[p] ELSE Hole]
  BY Zenon DEF Access!Put
<1> HIDE DEF D, E
<1> QED
  BY Zenon, <1>3, <1>4, <1>5

LEMMA ReadInvKept ==
    ASSUME Inv, ReadSome \/ ReadFails
    PROVE  Inv'
<1>1. /\ call.op = "read" /\ done < call.len
      /\ UNCHANGED <<file, call, offset, before>>
  BY DEF ReadSome, ReadFails, history, Left, Inv
<1>2. running' \in BOOLEAN
  BY Zenon DEF ReadSome, ReadFails, history, AfterRead, Returns, GoesOn, Inv
<1>3. CASE UNCHANGED <<got, done, cuts, short>>
  BY <1>1, <1>2, <1>3 DEF Inv, WriteInv, ReadInv, IsFunction, Access!IsCutAt
<1>4. ASSUME NEW n \in 0 .. Left, Reads(call.at, n), got' = FileRead(call.at, n),
             done' = done + n, cuts' = cuts \cup {done}
      PROVE  Inv'
  <2>1. n \in Nat /\ done \in Nat /\ done' \in Nat /\ done' <= call.len /\ call.at \in Nat
    BY <1>1, <1>4 DEF Left, Inv
  <2>2. DOMAIN got' = 0 .. done' - 1 /\ DOMAIN got = 0 .. done - 1
    BY <1>1, <1>4 DEF FileRead, Inv, ReadInv
  <2>3. ASSUME NEW i \in 0 .. done' - 1
        PROVE  \E r \in cuts' \cap DOMAIN got' :
                   /\ r <= i
                   /\ \A q \in cuts' \cap DOMAIN got' : q <= r \/ q > i
                   /\ call.at + i - r \in DOMAIN file
                   /\ got'[i] = file[call.at + i - r]
    <3>1. CASE i < done
      <4>1. i \in DOMAIN got
        BY SMT, <2>1, <2>2, <2>3, <3>1
      <4>2. PICK r \in cuts \cap DOMAIN got :
                   /\ r <= i
                   /\ \A q \in cuts \cap DOMAIN got : q <= r \/ q > i
                   /\ call.at + i - r \in DOMAIN file
                   /\ got[i] = file[call.at + i - r]
        BY Zenon, <1>1, <4>1 DEF Inv, ReadInv, Access!IsCutAt
      <4>3. got'[i] = got[i]
        BY SMT, <1>4, <2>1, <2>3, <3>1 DEF FileRead
      <4>4. r \in cuts' \cap DOMAIN got'
        BY SMT, <1>4, <2>1, <2>2, <4>2
      <4>5. ASSUME NEW q \in cuts' \cap DOMAIN got' PROVE q <= r \/ q > i
        <5>1. CASE q = done
          BY SMT, <2>1, <2>3, <3>1, <5>1
        <5>2. CASE q # done /\ q \in DOMAIN got
          BY Zenon, <1>4, <4>2, <4>5, <5>2
        <5>3. CASE q # done /\ q \notin DOMAIN got
          BY SMT, <2>1, <2>2, <2>3, <3>1, <4>5, <5>3
        <5> QED
          BY Zenon, <5>1, <5>2, <5>3
      <4> QED
        BY Zenon, <4>2, <4>3, <4>4, <4>5
    <3>2. CASE i >= done
      <4>1. done \in cuts' \cap DOMAIN got'
        BY SMT, <1>4, <2>1, <2>2, <2>3, <3>2
      <4>2. ASSUME NEW q \in cuts' \cap DOMAIN got' PROVE q <= done \/ q > i
        <5>1. CASE q = done
          BY SMT, <2>1, <5>1
        <5>2. CASE q # done
          <6>1. q \in cuts
            BY Zenon, <1>4, <4>2, <5>2
          <6>2. q \in 0 .. done
            BY Zenon, <1>1, <6>1 DEF Inv, ReadInv
          <6> QED
            BY SMT, <2>1, <6>2
        <5> QED
          BY Zenon, <5>1, <5>2
      <4>3. call.at + (i - done) \in DOMAIN file
        <5>1. IsThere(call.at, n)
          BY <1>4 DEF Reads, ReadsAll
        <5>2. i - done \in 0 .. n - 1
          BY SMT, <2>1, <2>3, <1>4, <3>2
        <5> QED
          BY Zenon, <5>1, <5>2 DEF IsThere
      <4>4. got'[i] = file[call.at + (i - done)]
        BY SMT, <1>4, <2>1, <2>3, <3>2 DEF FileRead
      <4>5. call.at + (i - done) = call.at + i - done
        BY SMT, <2>1, <2>3
      <4>6. done <= i
        BY SMT, <2>1, <3>2
      <4> QED
        BY Zenon, <4>1, <4>2, <4>3, <4>4, <4>5, <4>6
    <3> QED
      BY SMT, <2>1, <2>3, <3>1, <3>2
  <2>4. cuts' \subseteq 0 .. done'
    BY SMT, <1>1, <1>4, <2>1 DEF Inv, ReadInv
  <2>5. ReadInv'
    BY Zenon, <1>1, <2>2, <2>3, <2>4 DEF ReadInv, Inv, Access!IsCutAt
  <2>6. WriteInv' /\ IsFunction(file)'
    BY <1>1 DEF WriteInv, Inv, IsFunction
  <2> QED
    BY <1>1, <1>2, <2>1, <2>5, <2>6 DEF Inv
<1> QED
  BY Zenon, <1>3, <1>4 DEF ReadSome, ReadFails, history

LEMMA WriteInvKept ==
    ASSUME Inv, WriteSome \/ WriteFails
    PROVE  Inv'
<1>1. /\ call.op = "write" /\ done < call.len
      /\ UNCHANGED <<call, got, before, cuts, short>>
      /\ offset = call.at + done /\ file = Access!Put(before, call.id, call.at, done)
  BY DEF WriteSome, WriteFails, history, Left, Inv, WriteInv
<1>2. running' \in BOOLEAN
  BY Zenon DEF WriteSome, WriteFails, history, AfterWrite, Returns, GoesOn, Inv
<1>3. ReadInv'
  BY <1>1 DEF ReadInv
<1>4. CASE UNCHANGED <<file, offset, done>>
  BY <1>1, <1>2, <1>3, <1>4 DEF Inv, WriteInv, IsFunction
<1>5. ASSUME NEW n \in 0 .. Left, file' = FileWrite(offset, done, n),
             offset' = NextOffset(n), done' = done + n
      PROVE  Inv'
  <2>1. n \in Nat /\ done \in Nat /\ call.at \in Nat /\ done' \in Nat /\ done' <= call.len
    BY <1>1, <1>5 DEF Left, Inv
  <2>2. file' = Access!Put(before, call.id, call.at, done + n)
    <3>1. FileWrite(call.at + done, done, n) = Access!Put(before, call.id, call.at, done + n)
      BY Zenon, <1>1, <2>1, PutMore
    <3>2. file' = FileWrite(call.at + done, done, n)
      BY Zenon, <1>1, <1>5
    <3> QED
      BY Zenon, <3>1, <3>2
  <2>3. offset' = call.at + done'
    BY SMT, <1>1, <1>5, <2>1 DEF NextOffset
  <2>4. WriteInv'
    BY Zenon, <1>1, <1>5, <2>2, <2>3 DEF WriteInv
  <2>5. IsFunction(file)'
    BY Zenon, <1>5 DEF FileWrite, IsFunction
  <2> QED
    BY <1>1, <1>2, <1>3, <2>1, <2>4, <2>5 DEF Inv
<1> QED
  BY Zenon, <1>4, <1>5 DEF WriteSome, WriteFails, history

LEMMA FinishInv ==
    ASSUME Inv, Finish
    PROVE  Inv'
<1>1. running' \in BOOLEAN
  BY Zenon DEF Finish, Returns
<1> QED
  BY <1>1 DEF Finish, history, Inv, WriteInv, ReadInv, IsFunction, Access!IsCutAt

LEMMA Invariance == Spec => []Inv
<1>1. Inv /\ [Next]_vars => Inv'
  <2> SUFFICES ASSUME Inv, [Next]_vars PROVE Inv'
    OBVIOUS
  <2>1. ASSUME NEW at \in Offsets, NEW n \in Lengths, ReadExactAt(at, n) \/ WriteAllAt(at, n)
        PROVE  Inv'
    BY <2>1, BeginInv DEF ReadExactAt, WriteAllAt
  <2>2. CASE UNCHANGED vars
    BY <2>2 DEF vars, history, Inv, WriteInv, ReadInv, IsFunction, Access!IsCutAt
  <2> QED
    BY <2>1, <2>2, ReadInvKept, WriteInvKept, FinishInv DEF Next
<1> QED
  BY <1>1, InitInv, PTL DEF Spec

-----------------------------------------------------------------------------
\* However short its writes were and wherever it stopped, write_all_at has put a prefix of its
\* data where it belongs, and nothing else.
THEOREM OnlyPrefixLandsAlways == Spec => []OnlyPrefixLands
<1>1. Inv => OnlyPrefixLands
  BY DEF Inv, WriteInv, OnlyPrefixLands
<1> QED
  BY <1>1, Invariance, PTL

\* A step of the loops is a step of an access to the file, or none that it shows.
LEMMA StepIsAccess ==
    ASSUME Inv, Inv', [Next]_vars
    PROVE  [Access!Read \/ Access!Write]_<<IF running THEN before ELSE file, answer>>
<1> DEFINE contents == IF running THEN before ELSE file
<1>1. ASSUME NEW op \in {"read", "write"}, NEW at \in Offsets, NEW n \in Lengths, Begin(op, at, n)
      PROVE  UNCHANGED <<contents, answer>>
  BY <1>1 DEF Begin
<1>2. CASE GoesOn /\ running /\ UNCHANGED before
  BY <1>2 DEF GoesOn
<1>3. ASSUME NEW result, running, call.op = "read", Returns(result), UNCHANGED <<file, call, before>>,
             result = "ok" <=> done' = call.len
      PROVE  Access!Read
  <2>1. ReadInv' /\ done' \in Nat /\ done' <= call.len /\ call.len \in Nat /\ call'.op = "read"
    BY <1>3 DEF Inv
  <2>2. /\ answer'.op = "read" /\ answer'.at = call.at /\ answer'.len = call.len
        /\ answer'.got = got' /\ answer'.result = result
    BY <1>3 DEF Returns
  <2>3. contents' = contents
    BY <1>3 DEF Returns, Inv, ReadInv
  <2>4. contents = file' /\ call' = call
    BY <1>3 DEF Inv, ReadInv
  <2>5. \E k \in 0 .. answer'.len :
            /\ DOMAIN answer'.got = 0 .. k - 1
            /\ answer'.result = "ok" <=> k = answer'.len
    BY <1>3, <2>1, <2>2 DEF ReadInv
  <2>6. cuts' \cap DOMAIN got' \in SUBSET (DOMAIN answer'.got)
    BY <2>2
  <2>7. Access!IsCutAt(contents, answer'.at, answer'.got, cuts' \cap DOMAIN got')
    <3>1. /\ contents = file' /\ answer'.at = call'.at /\ answer'.got = got'
      BY Zenon, <2>2, <2>4
    <3>2. \A i \in DOMAIN got' :
              \E r \in cuts' \cap DOMAIN got' :
                  /\ r <= i
                  /\ \A q \in cuts' \cap DOMAIN got' : q <= r \/ q > i
                  /\ call'.at + i - r \in DOMAIN file'
                  /\ got'[i] = file'[call'.at + i - r]
      BY <2>1 DEF ReadInv, Access!IsCutAt
    <3> HIDE DEF contents
    <3> QED
      BY Zenon, <3>1, <3>2 DEF Access!IsCutAt
  <2>8. \E R \in SUBSET (DOMAIN answer'.got) : Access!IsCutAt(contents, answer'.at, answer'.got, R)
    <3> HIDE DEF contents
    <3> QED
      BY Zenon, <2>6, <2>7
  <2>9. answer'.op = "read" /\ UNCHANGED contents
    BY <2>2, <2>3
  <2> QED
    BY Zenon, <2>5, <2>8, <2>9 DEF Access!Read
<1>4. ASSUME NEW result, running, call.op = "write", Returns(result), UNCHANGED <<call, before>>,
             result = "ok" <=> done' = call.len
      PROVE  Access!Write
  <2>1. WriteInv' /\ done' \in Nat /\ done' <= call.len /\ call.len \in Nat
    BY <1>4 DEF Inv
  <2>2. /\ answer'.op = "write" /\ answer'.at = call.at /\ answer'.len = call.len
        /\ answer'.call = call.id /\ answer'.result = result
    BY <1>4 DEF Returns
  <2>3. contents = before /\ contents' = file'
    BY <1>4 DEF Returns
  <2>4. contents' = Access!Put(contents, answer'.call, answer'.at, done')
    BY Zenon, <1>4, <2>1, <2>2, <2>3 DEF WriteInv
  <2>5. done' \in 0 .. answer'.len /\ (answer'.result = "ok" <=> done' = answer'.len)
    BY SMT, <1>4, <2>1, <2>2
  <2> QED
    BY Zenon, <2>2, <2>4, <2>5 DEF Access!Write
<1>5. CASE ReadSome \/ ReadFails
  <2>1. running /\ call.op = "read" /\ UNCHANGED <<file, call, offset, before>> /\ done < call.len
    BY <1>5 DEF ReadSome, ReadFails, history, Left, Inv
  <2>2. GoesOn \/ \E result \in {"UnexpectedEOD", "Io"} : Returns(result) /\ done' = done
    BY <1>5 DEF ReadSome, ReadFails, history, AfterRead, Inv
  <2> QED
    BY <1>2, <1>3, <2>1, <2>2 DEF Inv
<1>6. CASE WriteSome \/ WriteFails
  <2>1. running /\ call.op = "write" /\ UNCHANGED <<call, before>> /\ done < call.len
    BY <1>6 DEF WriteSome, WriteFails, history, Left, Inv
  <2>2. GoesOn \/ \E result \in {"WriteZero", "Io"} : Returns(result) /\ done' = done
    BY <1>6 DEF WriteSome, WriteFails, history, AfterWrite, Inv
  <2> QED
    BY <1>2, <1>4, <2>1, <2>2 DEF Inv
<1>7. CASE Finish
  <2>1. running /\ UNCHANGED <<file, call, done, before>> /\ Returns("ok") /\ done = call.len
    BY <1>7 DEF Finish, Left, history, Inv
  <2>2. call.op \in {"read", "write"}
    BY <1>7 DEF Finish, Inv
  <2> QED
    BY <1>3, <1>4, <2>1, <2>2
<1>8. CASE UNCHANGED vars
  BY <1>8 DEF vars, history
<1> QED
  BY <1>1, <1>5, <1>6, <1>7, <1>8 DEF Next, ReadExactAt, WriteAllAt

\* read_exact_at and write_all_at are, to the rest of the code, one access to the file each.
THEOREM ImplementsFileAccessAlways == Spec => ImplementsFileAccess
<1>1. Init => Access!Init
  BY DEF Init, Access!Init
<1> QED
  BY <1>1, Invariance, StepIsAccess, PTL DEF Spec, ImplementsFileAccess, Access!Spec

-----------------------------------------------------------------------------
(* What is in the buffer when the reads of the file come back whole *)

\* A call whose reads do not come short, of bytes that are there, needs one read.
ExactInv ==
    (call.op = "read" /\ ~short /\ IsThere(call.at, call.len)) =>
        /\ done \in {0, call.len}
        /\ \A i \in 0 .. done - 1 : got[i] = file[call.at + i]

\* The positions of a file that is written to stay those from 0 to its last one.
LEMMA FileGrows ==
    ASSUME IsFile(file), NEW at \in Nat, NEW i, NEW n \in Nat
    PROVE  /\ DOMAIN FileWrite(at, i, n) = DOMAIN file \cup (IF n = 0 THEN {} ELSE 0 .. at + n - 1)
           /\ \A f : DOMAIN f = DOMAIN FileWrite(at, i, n) => IsFile(f)
<1>. DEFINE D == DOMAIN file \cup (IF n = 0 THEN {} ELSE 0 .. at + n - 1)
<1>1. DOMAIN FileWrite(at, i, n) = D
  BY DEF FileWrite
<1>2. ASSUME NEW p \in D PROVE p \in Nat /\ 0 .. p \subseteq D
  <2>1. CASE p \in DOMAIN file
    BY <2>1 DEF IsFile
  <2>2. CASE n # 0 /\ p \in 0 .. at + n - 1
    BY <2>2
  <2>3. QED
    BY <1>2, <2>1, <2>2
<1>. HIDE DEF D
<1>3. QED
  BY <1>1, <1>2 DEF IsFile, D

LEMMA TypeInit == Init => TypeOK
<1>1. SUFFICES ASSUME Init PROVE TypeOK
  OBVIOUS
<1>2. /\ file = [p \in 0 .. FileSize - 1 |-> Byte(0, p)] /\ before = file
      /\ call = [op |-> "none", id |-> 0, at |-> 0, len |-> 0]
      /\ offset = 0 /\ done = 0 /\ got = Empty /\ cuts = {} /\ short = FALSE
      /\ running = FALSE
      /\ answer = [op |-> "none", call |-> 0, at |-> 0, len |-> 0, result |-> "none",
                   got |-> Empty, short |-> FALSE]
  BY <1>1, Zenon DEF Init
<1>3. IsFile(file)
  <2>1. DOMAIN file = 0 .. FileSize - 1
    BY <1>2
  <2>2. QED
    BY <2>1, ExactIOAssumption DEF IsFile
<1>4. call.op = "none" /\ call.id = 0 /\ call.at = 0 /\ call.len = 0
      /\ answer.op = "none" /\ answer.result = "none"
  BY <1>2
<1>5. IsFile(before)
  BY <1>2, <1>3
<1>6. running \in BOOLEAN /\ short \in BOOLEAN
  BY <1>2, Zenon
<1>7. done \in 0 .. call.len /\ call.id \in 0 .. MaxCalls /\ call.at \in Nat /\ call.len \in Nat
  BY <1>2, <1>4, ExactIOAssumption
<1>8. QED
  BY <1>3, <1>4, <1>5, <1>6, <1>7, Zenon DEF TypeOK, Results

\* What a call that returns leaves behind is well formed.
LEMMA ReturnTypes ==
    ASSUME TypeOK, Inv, running, NEW result \in Results, Returns(result) \/ GoesOn
    PROVE  /\ running' \in BOOLEAN /\ answer'.result \in Results
           /\ answer'.op \in {"none", "read", "write"}
<1>1. CASE GoesOn
  BY <1>1 DEF GoesOn, TypeOK
<1>2. CASE Returns(result)
  BY <1>2 DEF Returns, TypeOK
<1>3. QED
  BY <1>1, <1>2

LEMMA TypeStep ==
    ASSUME TypeOK, Inv, Inv', [Next]_vars
    PROVE  TypeOK'
<1>1. /\ IsFile(file) /\ IsFile(before)
      /\ call.op \in {"none", "read", "write"} /\ call.id \in 0 .. MaxCalls
      /\ call.at \in Nat /\ call.len \in Nat /\ done \in 0 .. call.len
      /\ running \in BOOLEAN /\ short \in BOOLEAN
      /\ answer.result \in Results /\ answer.op \in {"none", "read", "write"}
  BY DEF TypeOK
<1>2. /\ done' \in Nat /\ done' <= call'.len /\ call'.len \in Nat /\ call'.at \in Nat
      /\ running' \in BOOLEAN /\ WriteInv' /\ ReadInv'
  BY DEF Inv
<1>3. done' \in 0 .. call'.len
  BY <1>2
<1>4. /\ call'.op = "write" => offset' = call'.at + done'
      /\ call'.op = "read" => DOMAIN got' = 0 .. done' - 1 /\ cuts' \subseteq 0 .. done'
  BY <1>2 DEF WriteInv, ReadInv
<1>5. CASE \E at \in Offsets, n \in Lengths : ReadExactAt(at, n) \/ WriteAllAt(at, n)
  <2>1. PICK at \in Offsets, n \in Lengths, op \in {"read", "write"} : Begin(op, at, n)
    BY <1>5 DEF ReadExactAt, WriteAllAt
  <2>2. call.id + 1 \in 0 .. MaxCalls
    BY <1>1, <2>1, ExactIOAssumption DEF Begin
  <2>3. call'.op = op /\ call'.id = call.id + 1
    BY <2>1 DEF Begin
  <2>4. got' = Empty /\ before' = file /\ file' = file /\ short' = FALSE /\ answer' = answer
    BY <2>1 DEF Begin
  <2>5. QED
    BY <1>1, <1>2, <1>3, <1>4, <2>2, <2>3, <2>4 DEF TypeOK, IsFile
<1>6. CASE ReadSome \/ ReadFails \/ Finish
  <2>1. UNCHANGED <<file, call, before>> /\ running
    BY <1>6 DEF ReadSome, ReadFails, Finish, history
  <2>2. \E result \in Results : Returns(result) \/ GoesOn
    BY <1>6 DEF ReadSome, ReadFails, Finish, AfterRead, Results
  <2>3. short' \in BOOLEAN
    BY <1>1, <1>6 DEF ReadSome, ReadFails, Finish, history
  <2>4. call'.op = "write" => got' = Empty
    <3>1. ReadSome \/ ReadFails => call.op = "read"
      BY DEF ReadSome, ReadFails
    <3>2. Finish => got' = got
      BY DEF Finish
    <3>3. QED
      BY <1>6, <2>1, <3>1, <3>2 DEF TypeOK
  <2>5. answer'.result \in Results /\ answer'.op \in {"none", "read", "write"}
    BY <2>1, <2>2, ReturnTypes
  <2>6. QED
    BY <1>1, <1>2, <1>3, <1>4, <2>1, <2>3, <2>4, <2>5 DEF TypeOK, IsFile
<1>7. CASE WriteSome \/ WriteFails
  <2>1. UNCHANGED <<call, before, got, short>> /\ running /\ call.op = "write"
    BY <1>7 DEF WriteSome, WriteFails, history
  <2>2. \E result \in Results : Returns(result) \/ GoesOn
    BY <1>7 DEF WriteSome, WriteFails, AfterWrite, Results
  <2>3. IsFile(file')
    <3>1. CASE file' = file
      BY <1>1, <3>1 DEF IsFile
    <3>2. CASE \E n \in 0 .. Left : file' = FileWrite(offset, done, n)
      <4>1. PICK n \in 0 .. Left : file' = FileWrite(offset, done, n)
        BY <3>2
      <4>2. n \in Nat /\ offset \in Nat
        BY <1>1, <2>1 DEF Left, TypeOK
      <4>3. QED
        BY <1>1, <4>1, <4>2, FileGrows
    <3>3. QED
      BY <1>7, <3>1, <3>2 DEF WriteSome, WriteFails
  <2>4. answer'.result \in Results /\ answer'.op \in {"none", "read", "write"}
    BY <2>1, <2>2, ReturnTypes
  <2>5. QED
    BY <1>1, <1>2, <1>3, <1>4, <2>1, <2>3, <2>4 DEF TypeOK, IsFile
<1>8. CASE UNCHANGED vars
  BY <1>8 DEF vars, history, TypeOK, IsFile
<1>9. QED
  BY <1>5, <1>6, <1>7, <1>8 DEF Next

\* TypeOK holds in every state: the positions of a file go from 0 to its last one, and the
\* place of the next write agrees with what is behind the loop.
THEOREM Typing == Spec => []TypeOK
<1>1. TypeOK /\ Inv /\ Inv' /\ [Next]_vars => TypeOK'
  BY TypeStep
<1>2. QED
  BY <1>1, TypeInit, Invariance, PTL DEF Spec

LEMMA ExactStep ==
    ASSUME TypeOK, Inv, ExactInv, [Next]_vars
    PROVE  ExactInv'
<1>1. call.at \in Nat /\ call.len \in Nat /\ done \in 0 .. call.len
  BY DEF TypeOK
<1>2. CASE \E at \in Offsets, n \in Lengths : ReadExactAt(at, n) \/ WriteAllAt(at, n)
  <2>1. done' = 0
    BY <1>2 DEF ReadExactAt, WriteAllAt, Begin
  <2>2. QED
    BY <2>1 DEF ExactInv
<1>3. CASE ReadSome
  <2>1. SUFFICES ASSUME ~short', IsThere(call.at, call.len)
                 PROVE  /\ done' \in {0, call.len}
                        /\ \A i \in 0 .. done' - 1 : got'[i] = file[call.at + i]
    BY <1>3 DEF ReadSome, ExactInv, IsThere
  <2>2. PICK n \in 0 .. Left :
           /\ got' = FileRead(call.at, n) /\ done' = done + n
           /\ short' = (short \/ ~ReadsAll(call.at, n))
    BY <1>3 DEF ReadSome
  <2>3. ~short /\ ReadsAll(call.at, n) /\ call.op = "read" /\ Left > 0
    BY <1>3, <2>1, <2>2 DEF ReadSome
  <2>4. done \in {0, call.len}
    BY <2>1, <2>3 DEF ExactInv
  <2>5. done = 0 /\ Left = call.len
    BY <1>1, <2>3, <2>4 DEF Left
  <2>6. n = call.len
    <3>1. n \in Nat /\ n <= call.len
      BY <1>1, <2>2, <2>5
    <3>2. n < call.len => call.at + n \in DOMAIN file
      BY <1>1, <2>1, <3>1 DEF IsThere
    <3>3. n = call.len \/ call.at + n \notin DOMAIN file
      BY <2>3, <2>5 DEF ReadsAll
    <3>4. QED
      BY <1>1, <3>1, <3>2, <3>3
  <2>7. \A i \in 0 .. done' - 1 : got'[i] = file[call.at + i]
    BY <1>1, <2>2, <2>5, <2>6 DEF FileRead
  <2>8. QED
    BY <1>1, <2>2, <2>5, <2>6, <2>7
<1>4. CASE ReadFails \/ Finish
  BY <1>4 DEF ReadFails, Finish, history, ExactInv, IsThere
<1>5. CASE WriteSome \/ WriteFails
  BY <1>5 DEF WriteSome, WriteFails, ExactInv
<1>6. CASE UNCHANGED vars
  BY <1>6 DEF vars, history, ExactInv, IsThere
<1>7. QED
  BY <1>2, <1>3, <1>4, <1>5, <1>6 DEF Next

LEMMA ReadIsExactStep ==
    ASSUME TypeOK, Inv, ExactInv, ReadIsExact, [Next]_vars
    PROVE  ReadIsExact'
<1>1. CASE \E at \in Offsets, n \in Lengths : ReadExactAt(at, n) \/ WriteAllAt(at, n)
  BY <1>1 DEF ReadExactAt, WriteAllAt, Begin, ReadIsExact
<1>2. CASE running' \/ answer'.result # "ok"
  BY <1>2 DEF ReadIsExact
<1>3. CASE ReadSome \/ ReadFails \/ WriteSome \/ WriteFails
  <2>1. running /\ (GoesOn \/ (\E result \in {"UnexpectedEOD", "WriteZero", "Io"} : Returns(result)))
    BY <1>3 DEF ReadSome, ReadFails, WriteSome, WriteFails, AfterRead, AfterWrite
  <2>2. CASE GoesOn
    BY <1>2, <2>1, <2>2, Zenon DEF GoesOn
  <2>3. ASSUME NEW result \in {"UnexpectedEOD", "WriteZero", "Io"}, Returns(result)
        PROVE  answer'.result # "ok"
    BY <2>3 DEF Returns
  <2>4. QED
    BY <1>2, <2>1, <2>2, <2>3
<1>4. CASE Finish
  <2>1. /\ Returns("ok") /\ UNCHANGED <<file, call, done, got, short>> /\ Left = 0
    BY <1>4 DEF Finish, history
  <2>2. /\ answer'.op = call.op /\ answer'.at = call.at /\ answer'.len = call.len
        /\ answer'.got = got /\ answer'.short = short
    BY <2>1 DEF Returns
  <2>3. done = call.len
    BY <2>1 DEF Left, TypeOK
  <2>4. QED
    BY <2>1, <2>2, <2>3 DEF ReadIsExact, ExactInv, IsThere
<1>5. CASE UNCHANGED vars
  BY <1>5 DEF vars, ReadIsExact, IsThere
<1>6. QED
  BY <1>1, <1>3, <1>4, <1>5 DEF Next

\* A read_exact_at that returns Ok, of bytes that are all there and of which no read came
\* short, has filled the buffer with those bytes: the loop's reading each piece from
\* the offset it began with shows only after a short read or at the end of the file.
THEOREM ReadIsExactAlways == Spec => []ReadIsExact
<1>1. Init => ExactInv /\ ReadIsExact
  BY DEF Init, ExactInv, ReadIsExact
<1>2. TypeOK /\ Inv /\ ExactInv /\ ReadIsExact /\ [Next]_vars => ExactInv' /\ ReadIsExact'
  BY ExactStep, ReadIsExactStep
<1>3. QED
  BY <1>1, <1>2, Typing, Invariance, PTL DEF Spec
=============================================================================
