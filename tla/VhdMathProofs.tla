---------------------------- MODULE VhdMathProofs ----------------------------
(***************************************************************************)
(* What the functions of math.rs return, and the facts about division the  *)
(* other proofs need.                                                      *)
(***************************************************************************)
EXTENDS VhdMath, TLAPS

\* Quotient and remainder by a positive number.
LEMMA DivMod ==
    ASSUME NEW n \in Nat, NEW d \in Nat \ {0}
    PROVE  /\ n \div d \in Nat
           /\ n % d \in 0 .. d - 1
           /\ n % d <= n
           /\ n = d * (n \div d) + (n % d)
BY Z3

\* The quotient and remainder are the only ones.
LEMMA DivModUnique ==
    ASSUME NEW n \in Nat, NEW d \in Nat \ {0}, NEW q \in Nat, NEW r \in 0 .. d - 1,
           n = d * q + r
    PROVE  n \div d = q /\ n % d = r
BY Z3

LEMMA MulNat ==
    ASSUME NEW a \in Nat, NEW b \in Nat
    PROVE  a * b \in Nat
BY Z3

LEMMA MulCommutes ==
    ASSUME NEW a \in Nat, NEW b \in Nat
    PROVE  a * b = b * a
BY Z3

LEMMA MulDistributes ==
    ASSUME NEW a \in Int, NEW b \in Int, NEW c \in Int
    PROVE  (a + b) * c = a * c + b * c
BY Z3

LEMMA MulLess ==
    ASSUME NEW a \in Nat, NEW b \in Nat, NEW c \in Nat \ {0}, a * c < b * c
    PROVE  a < b
<1>1. CASE b <= a
  <2>1. PICK k \in Nat : a = b + k
    <3>1. a - b \in Nat /\ a = b + (a - b)
      BY <1>1
    <3> QED
      BY <3>1
  <2>2. a * c = b * c + k * c
    BY <2>1, MulDistributes
  <2>3. k * c \in Nat /\ b * c \in Nat
    BY MulNat
  <2> QED
    BY <2>2, <2>3
<1> QED
  BY <1>1

LEMMA CeilNat ==
    ASSUME NEW n \in Nat, NEW d \in Nat \ {0}
    PROVE  Ceil(n, d) \in Nat
BY DivMod DEF Ceil

LEMMA RoundUpNat ==
    ASSUME NEW n \in Nat, NEW d \in Nat \ {0}
    PROVE  RoundUp(n, d) \in Nat
BY CeilNat, MulNat DEF RoundUp

\* round_up (math.rs) never loses a byte and adds less than a unit.
THEOREM RoundUpBounds ==
    ASSUME NEW n \in Nat, NEW d \in Nat \ {0}
    PROVE  n <= RoundUp(n, d) /\ RoundUp(n, d) < n + d
<1> DEFINE m == n + (d - 1)
<1>1. m \in Nat /\ m \div d \in Nat /\ m % d \in 0 .. d - 1 /\ m = d * (m \div d) + (m % d)
  BY DivMod
<1>2. (m \div d) * d = d * (m \div d)
  BY <1>1, MulCommutes
<1> QED
  BY <1>1, <1>2 DEF RoundUp, Ceil

\* bound_to (math.rs) never answers more than the length it was given.
LEMMA BoundToNat ==
    ASSUME U64 \in Nat \ {0}, NEW size \in Nat, NEW o \in Nat, NEW n \in Nat
    PROVE  /\ BoundTo(size, o, n) \in Nat \cup {NoLength}
           /\ BoundTo(size, o, n) # NoLength => BoundTo(size, o, n) <= n
<1>1. (o + n) % U64 \in Nat
  BY DivMod
<1> QED
  BY <1>1 DEF BoundTo, NoLength

\* As long as the sum does not overflow, bound_to (math.rs) cuts a request at
\* the end of the data and refuses exactly the ones that start beyond it.
THEOREM BoundToExact ==
    ASSUME U64 \in Nat \ {0}, NEW size \in Nat, NEW o \in Nat, NEW n \in Nat,
           ~SumOverflows(o, n)
    PROVE  BoundTo(size, o, n) =
              IF o > size THEN NoLength
              ELSE IF n <= size - o THEN n ELSE size - o
<1>1. (o + n) % U64 = o + n
  <2>1. o + n < U64 /\ o + n \in Nat
    BY DEF SumOverflows
  <2>2. o + n = U64 * 0 + (o + n)
    BY Z3
  <2> QED
    BY <2>1, <2>2, DivModUnique
<1> QED
  BY <1>1 DEF BoundTo, NoLength
=============================================================================
