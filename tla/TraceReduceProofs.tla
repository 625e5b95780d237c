-------------------------- MODULE TraceReduceProofs --------------------------
(***************************************************************************)
(* Theorems about TraceReduce, for streams of any length, any limit and    *)
(* any answers of the board.                                               *)
(***************************************************************************)
EXTENDS TraceReduce, TLAPS

\* Once the input is verified, what is kept has reproduced the defect.
KeepInv == stage \notin {"verify", "failed", "dead"} => keep \in yes

\* The first test is that of the input.
FirstInv == stage = "verify" => tests = 0

\* A pass over single operations has tried the removal of those before at.
TriedInv ==
  stage = "try" =>
    /\ at <= Len(keep) /\ tests < max_tests
    /\ Chunk = 1 => \A k \in 1 .. at - 1 : Without(k, 1) \in no

\* A pass that came to its end has tried all of them.
GrowInv  == stage = "grow" /\ tests < max_tests /\ Chunk = 1 => SinglesTried
WriteInv == stage = "write" /\ tests < max_tests /\ Len(keep) >= 2 => SinglesTried

IInv == /\ TypeOK /\ FirstInv /\ KeepInv /\ TriedInv /\ GrowInv /\ WriteInv
        /\ OutReproduces /\ OneMinimal

\* Subsets are not empty, and have one operation once there are as many as operations.
LEMMA Chunks ==
  ASSUME TypeOK
  PROVE  Chunk \in Nat \ {0} /\ (n >= Len(keep) => Chunk = 1)
<1>1. Len(keep) \in Nat /\ n \in Nat /\ n >= 2
  BY DEF TypeOK
<1>2. Len(keep) \div n \in Nat
  BY <1>1
<1>3. n >= Len(keep) => Len(keep) \div n <= 1
  BY <1>1
<1> QED
  BY <1>1, <1>2, <1>3 DEF Chunk, Larger

\* What is left without a subset is shorter, and still made of operations.
LEMMA Shorter ==
  ASSUME TypeOK, NEW i \in 1 .. Len(keep), NEW c \in Nat \ {0}
  PROVE  /\ Without(i, c) \in Seq(1 .. Ops) /\ Len(Without(i, c)) <= Ops
         /\ Len(Without(i, c)) <= Len(keep) - 1
         /\ i + c <= Len(keep) + 1 => Len(Without(i, c)) = Len(keep) - c
<1>1. keep \in Seq(1 .. Ops) /\ Len(keep) \in Nat /\ Len(keep) <= Ops /\ Ops \in Nat
  BY TraceReduceAssumption DEF TypeOK
<1>2. SubSeq(keep, 1, i - 1) \in Seq(1 .. Ops) /\ Len(SubSeq(keep, 1, i - 1)) = i - 1
  BY <1>1
<1>3. /\ SubSeq(keep, i + c, Len(keep)) \in Seq(1 .. Ops)
      /\ Len(SubSeq(keep, i + c, Len(keep))) <= Len(keep) - i
      /\ i + c <= Len(keep) + 1 => Len(SubSeq(keep, i + c, Len(keep))) = Len(keep) - i - c + 1
  <2>1. CASE i + c <= Len(keep)
    BY <1>1, <2>1
  <2>2. CASE i + c > Len(keep)
    BY <1>1, <2>2
  <2> QED
    BY <1>1, <2>1, <2>2
<1>4. ASSUME NEW s \in Seq(1 .. Ops), NEW t \in Seq(1 .. Ops)
      PROVE  s \o t \in Seq(1 .. Ops) /\ Len(s \o t) = Len(s) + Len(t)
  OBVIOUS
<1>5. Without(i, c) \in Seq(1 .. Ops)
  BY <1>2, <1>3, <1>4 DEF Without
<1>6. Len(Without(i, c)) = i - 1 + Len(SubSeq(keep, i + c, Len(keep)))
  <2>1. Len(Without(i, c)) = Len(SubSeq(keep, 1, i - 1)) + Len(SubSeq(keep, i + c, Len(keep)))
    BY <1>2, <1>3, <1>4, Zenon DEF Without
  <2> QED
    BY <1>2, <2>1
<1> QED
  <2>1. PICK r : r = Len(SubSeq(keep, i + c, Len(keep)))
    OBVIOUS
  <2>2. r \in Nat
    BY <1>3, <2>1
  <2>3. r <= Len(keep) - i /\ (i + c <= Len(keep) + 1 => r = Len(keep) - i - c + 1)
    BY <1>3, <2>1
  <2>4. Len(Without(i, c)) = i - 1 + r
    BY <1>6, <2>1
  <2> QED
    BY <1>1, <1>5, <2>2, <2>3, <2>4

\* It begins with the input, and no file.
LEMMA InitIInv == Init => IInv
<1> SUFFICES ASSUME Init PROVE IInv
  OBVIOUS
<1>1. Input \in Seq(1 .. Ops) /\ Len(Input) = Ops
  BY TraceReduceAssumption DEF Input
<1>2. TypeOK
  <2>1. max_tests \in Nat /\ max_tests \in Limits
    BY TraceReduceAssumption DEF Init
  <2>2. tests \in 0 .. Larger(1, max_tests)
    BY <2>1 DEF Init, Larger
  <2> QED
    BY <1>1, <2>1, <2>2, TraceReduceAssumption DEF Init, TypeOK
<1> QED
  BY <1>2 DEF Init, IInv, FirstInv, KeepInv, TriedInv, GrowInv, WriteInv, OutReproduces, OneMinimal,
     NoFile, Torn

-----------------------------------------------------------------------------
\* Types, action by action.
LEMMA TypeStep ==
  ASSUME IInv, [Next]_vars
  PROVE  TypeOK'
<1>0. /\ TypeOK /\ FirstInv /\ TriedInv /\ Chunk \in Nat \ {0}
      /\ Len(keep) \in Nat /\ at \in Nat \ {0} /\ max_tests \in Nat
  BY Chunks, TraceReduceAssumption DEF IInv, TypeOK
<1> USE DEF Reproduces, Disappears, Larger
<1>1. CASE Verify
  BY <1>0, <1>1 DEF TypeOK, Verify, FirstInv
<1>2. CASE Pass
  BY <1>0, <1>2 DEF TypeOK, Pass
<1>3. CASE Reduce
  <2>1. keep' \in Seq(1 .. Ops) /\ Len(keep') <= Ops
    <3>1. at \in 1 .. Len(keep)
      BY <1>0, <1>3 DEF TriedInv, Reduce
    <3> QED
      BY <1>0, <1>3, <3>1, Shorter DEF Reduce, Kept
  <2>2. n' \in Nat \ {0, 1}
    BY <1>0, <1>3 DEF TypeOK, Reduce, Coarser
  <2>3. tests' \in 0 .. Larger(1, max_tests)
    BY <1>0, <1>3 DEF TypeOK, TriedInv, Reduce
  <2> QED
    BY <1>0, <1>3, <2>1, <2>2, <2>3 DEF TypeOK, Reduce
<1>4. CASE Retain
  <2>1. tests' \in 0 .. Larger(1, max_tests)
    BY <1>0, <1>4 DEF TypeOK, TriedInv, Retain
  <2> QED
    BY <1>0, <1>4, <2>1 DEF TypeOK, Retain
<1>5. CASE Grow
  BY <1>0, <1>5 DEF TypeOK, Grow, Smaller
<1>6. CASE Save
  BY <1>0, <1>6 DEF TypeOK, Save
<1>7. CASE Die
  BY <1>0, <1>7 DEF TypeOK, Die
<1>8. CASE UNCHANGED vars
  BY <1>0, <1>8 DEF TypeOK, vars
<1> QED
  BY <1>1, <1>2, <1>3, <1>4, <1>5, <1>6, <1>7, <1>8 DEF Next, ddmin, Ended

\* What is kept and what is in the file have both reproduced the defect.
LEMMA FileStep ==
  ASSUME IInv, [Next]_vars
  PROVE  FirstInv' /\ KeepInv' /\ OutReproduces'
<1>0. FirstInv /\ KeepInv /\ OutReproduces
  BY DEF IInv
<1> USE DEF Reproduces, Disappears
<1>1. CASE Verify
  BY <1>0, <1>1 DEF FirstInv, KeepInv, OutReproduces, Verify
<1>2. CASE Pass
  BY <1>0, <1>2 DEF FirstInv, KeepInv, OutReproduces, Pass
<1>3. CASE Reduce
  BY <1>0, <1>3 DEF FirstInv, KeepInv, OutReproduces, Reduce, Kept
<1>4. CASE Retain
  BY <1>0, <1>4 DEF FirstInv, KeepInv, OutReproduces, Retain
<1>5. CASE Grow
  BY <1>0, <1>5 DEF FirstInv, KeepInv, OutReproduces, Grow
<1>6. CASE Save
  BY <1>0, <1>6 DEF FirstInv, KeepInv, OutReproduces, Save
<1>7. CASE Die
  BY <1>0, <1>7 DEF FirstInv, KeepInv, OutReproduces, Die
<1>8. CASE UNCHANGED vars
  BY <1>0, <1>8 DEF FirstInv, KeepInv, OutReproduces, vars
<1> QED
  BY <1>1, <1>2, <1>3, <1>4, <1>5, <1>6, <1>7, <1>8 DEF Next, ddmin, Ended

\* The singles are tried one after the other; a test more is a refusal more.
LEMMA SinglesStep ==
  ASSUME IInv, [Next]_vars
  PROVE  TriedInv' /\ GrowInv' /\ WriteInv' /\ OneMinimal'
<1>0. /\ TypeOK /\ TriedInv /\ GrowInv /\ WriteInv /\ OneMinimal
      /\ Chunk \in Nat \ {0} /\ (n >= Len(keep) => Chunk = 1)
      /\ Len(keep) \in Nat /\ tests \in Nat /\ max_tests \in Nat /\ at \in Nat \ {0}
      /\ n \in Nat
  BY Chunks, TraceReduceAssumption DEF IInv, TypeOK, Larger
<1> USE DEF TriedInv, GrowInv, WriteInv, OneMinimal, SinglesTried
<1>1. CASE Verify
  BY <1>1 DEF Verify
<1>2. CASE Pass
  BY <1>0, <1>2 DEF Pass
<1>3. CASE Reduce
  BY <1>3 DEF Reduce
<1>4. CASE Retain
  <2>1. UNCHANGED <<keep, n, max_tests>> /\ tests' = tests + 1
        /\ no' = no \cup {Without(at, Chunk)} /\ at' = at + Chunk
        /\ stage' = IF PassOver(at + Chunk) THEN "grow" ELSE "try"
    BY <1>4 DEF Retain, Disappears
  <2>2. Chunk' = Chunk /\ \A k : Without(k, 1)' = Without(k, 1)
    BY <2>1 DEF Chunk, Without
  <2>3. Chunk = 1 => \A k \in 1 .. at : Without(k, 1) \in no'
    BY <1>0, <1>4, <2>1 DEF Retain
  <2>4. Chunk = 1 => at' - 1 = at
    BY <1>0, <2>1
  <2>5. TriedInv'
    BY <1>0, <2>1, <2>2, <2>3, <2>4 DEF PassOver
  <2>6. GrowInv'
    <3>1. CASE tests + 1 < max_tests /\ at + Chunk > Len(keep) /\ Chunk = 1
      BY <1>0, <2>1, <2>2, <2>3, <3>1
    <3>2. CASE ~(tests + 1 < max_tests /\ at + Chunk > Len(keep) /\ Chunk = 1)
      BY <1>0, <2>1, <2>2, <3>2 DEF PassOver
    <3> QED
      BY <3>1, <3>2
  <2> QED
    BY <2>1, <2>5, <2>6
<1>5. CASE Grow
  <2>1. UNCHANGED <<keep, tests, max_tests, no>> /\ stage = "grow"
    BY <1>5 DEF Grow
  <2>2. SinglesTried => SinglesTried'
    BY <2>1 DEF Without
  <2>3. stage' = "pass" \/ (stage' = "write" /\ n >= Len(keep))
    BY <1>5 DEF Grow
  <2> QED
    BY <1>0, <2>1, <2>2, <2>3
<1>6. CASE Save
  <2>1. UNCHANGED <<keep, tests, max_tests, no>>
    BY <1>6 DEF Save
  <2>2. SinglesTried => SinglesTried'
    BY <2>1 DEF Without
  <2>3. stage' = "pass" \/ (stage = "write" /\ stage' = "done")
    BY <1>6 DEF Save
  <2> QED
    BY <1>0, <2>1, <2>2, <2>3
<1>7. CASE Die
  BY <1>7 DEF Die
<1>8. CASE UNCHANGED vars
  BY <1>0, <1>8 DEF vars, Chunk, Without
<1> QED
  BY <1>1, <1>2, <1>3, <1>4, <1>5, <1>6, <1>7, <1>8 DEF Next, ddmin, Ended

\* The invariant holds from the start and is kept.
LEMMA AlwaysIInv == Spec => []IInv
<1>1. IInv /\ [Next]_vars => IInv'
  BY TypeStep, FileStep, SinglesStep DEF IInv
<1> QED
  BY InitIInv, <1>1, PTL DEF Spec

\* Every variable keeps its type, and not more tests are made than allowed
\* (gl-ddmin.py:91, 105-106).
THEOREM TypeCorrect == Spec => []TypeOK
<1>1. IInv => TypeOK
  BY DEF IInv
<1> QED
  BY <1>1, AlwaysIInv, PTL

\* Whatever the board answers and whenever the script dies, a whole file in OUT has
\* reproduced the defect (gl-ddmin.py:98-103, 126-128).
THEOREM OutIsConfirmed == Spec => []OutReproduces
<1>1. IInv => OutReproduces
  BY DEF IInv
<1> QED
  BY <1>1, AlwaysIInv, PTL

\* A search that ends by itself with two operations or more has tried to remove each
\* (gl-ddmin.py:91-111).
THEOREM SearchIsMinimal == Spec => []OneMinimal
<1>1. IInv => OneMinimal
  BY DEF IInv
<1> QED
  BY <1>1, AlwaysIInv, PTL

-----------------------------------------------------------------------------
(* How many tests a search may still make: twice as many, at the most, as  *)
(* Phi of the operations kept and the subsets they are in.                 *)
Phi(L, m) ==
  IF L < 2 THEN 0 ELSE IF m >= L THEN L * (L + 1) - 2
  ELSE L * (L + 3) - 2 + IF 2 * m < L THEN 4 * L - 4 * m ELSE 0
Budget == 2 + 2 * Ops * Ops

\* The length of a subset.
Size(L, m) == Larger(1, L \div m)

\* A product grows with its factors.
LEMMA Product ==
  ASSUME NEW a \in Nat, NEW b \in Nat, NEW c \in Nat, a <= b
  PROVE  c * a <= c * b /\ a * c <= b * c /\ c * a \in Nat
OBVIOUS

\* The length of a subset, by the number of them.
LEMMA Division ==
  ASSUME NEW L \in Nat, NEW m \in Nat, m >= 2
  PROVE  /\ Size(L, m) \in Nat /\ Size(L, m) >= 1
         /\ 2 * m > L => Size(L, m) = 1
         /\ 2 * m = L => Size(L, m) = 2
         /\ 2 * m <= L => L < m * (Size(L, m) + 1)
<1>1. L \div m \in Nat /\ L = m * (L \div m) + (L % m) /\ L % m \in 0 .. m - 1
  OBVIOUS
<1> DEFINE q == L \div m
<1> HIDE DEF q
<1>2. q \in Nat /\ L < m * q + m /\ m * q <= L
  BY <1>1 DEF q
<1>3. m * (q + 1) = m * q + m
  BY <1>2
<1>4. q >= 2 => 2 * m <= m * q
  BY <1>2, Product
<1>5. q <= 1 => m * q <= m
  BY <1>2
<1>6. q >= 3 => m * q >= 3 * m
  BY <1>2, Product
<1>7. 2 * m > L => q <= 1
  BY <1>2, <1>4
<1>8. 2 * m = L => q = 2
  BY <1>2, <1>5, <1>6
<1>9. 2 * m <= L => q >= 1
  BY <1>2, <1>5
<1> QED
  BY <1>2, <1>3, <1>7, <1>8, <1>9 DEF Size, Larger, q

\* Places lie before the end: there are as many subsets as operations at the most.
LEMMA Places ==
  ASSUME NEW L \in Nat, NEW c \in Nat, c >= 1, NEW k \in Nat, k * c < L
  PROVE  k + 1 <= L
<1>1. k <= k * c
  BY Product
<1> QED
  BY <1>1

\* It is a number of tests.
LEMMA PhiType ==
  ASSUME NEW L \in Nat, NEW m \in Nat, m >= 2
  PROVE  Phi(L, m) \in Nat
<1>1. L >= 2 => L * L >= 4
  BY Product
<1>2. L * (L + 1) = L * L + L /\ L * (L + 3) = L * L + 3 * L /\ L * L \in Nat
  OBVIOUS
<1> QED
  BY <1>1, <1>2 DEF Phi

\* A shorter stream needs no more tests.
LEMMA PhiShorter ==
  ASSUME NEW L \in Nat, NEW M \in Nat, L <= M, NEW m \in Nat, m >= 2
  PROVE  Phi(L, m) <= Phi(M, m)
<1>1. L * L <= M * M /\ L * L \in Nat /\ M * M \in Nat
  BY Product
<1>2. /\ L * (L + 1) = L * L + L /\ L * (L + 3) = L * L + 3 * L
      /\ M * (M + 1) = M * M + M /\ M * (M + 3) = M * M + 3 * M
  OBVIOUS
<1>3. L < M => L * L + 2 * L + 1 <= M * M
  <2>1. L < M => (L + 1) * (L + 1) <= M * M
    BY Product
  <2> QED
    BY <2>1
<1>4. Phi(M, m) \in Nat
  BY PhiType
<1> QED
  BY <1>1, <1>2, <1>3, <1>4 DEF Phi

\* What a search may need in all.
LEMMA StartCost ==
  ASSUME NEW L \in Nat
  PROVE  2 + Phi(L, 2) <= 2 + 2 * L * L
<1>1. L * (L + 1) = L * L + L /\ L * (L + 3) = L * L + 3 * L /\ L * L \in Nat /\ 2 * L * L = 2 * (L * L)
  OBVIOUS
<1>2. CASE L < 5
  <2>1. L \in {0, 1, 2, 3, 4}
    BY <1>2
  <2> QED
    BY <2>1 DEF Phi
<1>3. CASE L >= 5
  <2>1. 2 * (L - 5) <= L * (L - 5)
    BY <1>3, Product
  <2>2. L * (L - 5) = L * L - 5 * L
    OBVIOUS
  <2>3. L * L >= 7 * L - 10
    BY <2>1, <2>2
  <2>4. Phi(L, 2) = L * L + 7 * L - 10
    BY <1>1, <1>3 DEF Phi
  <2> QED
    BY <1>1, <2>3, <2>4
<1> QED
  BY <1>2, <1>3

\* A pass in which no subset can go, up to the k-th, leaves tests for smaller ones.
LEMMA FailCost ==
  ASSUME NEW L \in Nat, L >= 2, NEW m \in Nat, m >= 2,
         NEW k \in Nat, k * Size(L, m) < L
  PROVE  2 * (k + 1) + (IF m >= L THEN 0 ELSE Phi(L, Smaller(L, m * 2))) <= Phi(L, m)
<1> DEFINE c == Size(L, m)
<1>1. c \in Nat /\ c >= 1 /\ k + 1 <= L
  BY Division, Places
<1>2. L * (L + 1) = L * L + L /\ L * (L + 3) = L * L + 3 * L /\ L * L \in Nat
  OBVIOUS
<1>3. CASE m >= L
  BY <1>1, <1>2, <1>3, Product DEF Phi
<1>4. CASE m < L /\ 2 * m >= L
  <2>1. Smaller(L, m * 2) = L
    BY <1>4 DEF Smaller
  <2> QED
    BY <1>1, <1>2, <1>4, <2>1 DEF Phi
<1>5. CASE 2 * m < L
  <2>1. Smaller(L, m * 2) = 2 * m
    BY <1>5 DEF Smaller
  <2>2. CASE 4 * m >= L
    BY <1>1, <1>2, <1>5, <2>1, <2>2 DEF Phi
  <2>3. CASE 4 * m < L
    <3>1. k < 2 * m
      <4> SUFFICES ASSUME k >= 2 * m PROVE FALSE
        OBVIOUS
      <4>1. (2 * m) * c <= k * c
        BY <1>1, Product
      <4>2. m <= m * c
        BY <1>1, Product
      <4>3. m * (c + 1) = m * c + m /\ (2 * m) * c = 2 * (m * c)
        BY <1>1
      <4>4. L < m * (c + 1)
        BY <1>5, Division
      <4> QED
        BY <1>1, <4>1, <4>2, <4>3, <4>4
    <3> QED
      BY <1>2, <1>5, <2>1, <2>3, <3>1 DEF Phi
  <2> QED
    BY <2>2, <2>3
<1> QED
  BY <1>3, <1>4, <1>5

\* So does a pass in which the k + 1-st can go: what is left is M long.
LEMMA ReduceCost ==
  ASSUME NEW L \in Nat, L >= 2, NEW m \in Nat, m >= 2,
         NEW k \in Nat, k * Size(L, m) < L,
         NEW M \in Nat, M <= L - 1, 2 * m = L => M <= L - 2
  PROVE  2 * (k + 1) + Phi(M, Larger(m - 1, 2)) <= Phi(L, m)
<1> DEFINE r == Larger(m - 1, 2)
<1>1. k + 1 <= L
  BY Division, Places
<1>2. r \in Nat /\ r >= 2 /\ r >= m - 1 /\ (m = 2 => r = 2) /\ (m > 2 => r = m - 1)
  BY DEF Larger
<1> HIDE DEF r
<1>3. /\ L * (L + 1) = L * L + L /\ L * (L + 3) = L * L + 3 * L /\ L * L \in Nat
      /\ (L - 1) * L = L * L - L /\ (L - 1) * (L - 1 + 1) = L * L - L
      /\ (L - 1) * (L - 1 + 3) = L * L + L - 2
      /\ (L - 2) * (L - 2 + 1) = L * L - 3 * L + 2 /\ (L - 2) * (L - 2 + 3) = L * L - L - 2
  OBVIOUS
<1>4. CASE 2 * m # L
  <2>1. Phi(M, r) <= Phi(L - 1, r) /\ L - 1 \in Nat
    BY <1>2, PhiShorter
  <2>2. 2 * (k + 1) + Phi(L - 1, r) <= Phi(L, m)
    <3>1. CASE m >= L
      <4>1. Phi(L, m) = L * L + L - 2
        BY <1>3, <3>1 DEF Phi
      <4>2. Phi(L - 1, r) = IF L - 1 < 2 THEN 0 ELSE L * L - L - 2
        BY <1>2, <1>3, <3>1 DEF Phi
      <4>3. L = 2 => L * L = 4
        OBVIOUS
      <4> QED
        BY <1>1, <1>3, <4>1, <4>2, <4>3
    <3>2. CASE m < L /\ 2 * m > L
      <4>1. Phi(L, m) = L * L + 3 * L - 2
        BY <1>3, <3>2 DEF Phi
      <4>2. Phi(L - 1, r) <= L * L + L - 4
        <5>1. CASE m = 2
          <6>1. L = 3 /\ r = 2
            BY <1>2, <3>2, <5>1
          <6> QED
            BY <6>1 DEF Phi
        <5>2. CASE m > 2
          BY <1>2, <1>3, <3>2, <5>2 DEF Phi
        <5> QED
          BY <5>1, <5>2
      <4>3. Phi(L - 1, r) \in Nat
        BY <1>2, <2>1, PhiType
      <4> QED
        BY <1>1, <1>3, <4>1, <4>2, <4>3
    <3>3. CASE 2 * m < L
      <4>1. Phi(L, m) = L * L + 7 * L - 4 * m - 2
        BY <1>3, <3>3 DEF Phi
      <4>2. Phi(L - 1, r) <= L * L + 5 * L - 4 * m - 4
        <5>1. CASE m = 2
          <6>1. L >= 5 /\ r = 2
            BY <1>2, <3>3, <5>1
          <6> QED
            BY <1>3, <5>1, <6>1 DEF Phi
        <5>2. CASE m > 2
          BY <1>2, <1>3, <3>3, <5>2 DEF Phi
        <5> QED
          BY <5>1, <5>2
      <4>3. Phi(L - 1, r) \in Nat
        BY <1>2, <2>1, PhiType
      <4> QED
        BY <1>1, <1>3, <4>1, <4>2, <4>3
    <3> QED
      BY <1>4, <3>1, <3>2, <3>3
  <2>3. Phi(M, r) \in Nat /\ Phi(L - 1, r) \in Nat /\ Phi(L, m) \in Nat
    BY <1>2, <2>1, PhiType
  <2> QED
    BY <2>1, <2>2, <2>3 DEF r
<1>5. CASE 2 * m = L
  <2>1. Phi(M, r) <= Phi(L - 2, r) /\ L - 2 \in Nat
    BY <1>2, <1>5, PhiShorter
  <2>2. Phi(L, m) = L * L + 3 * L - 2
    BY <1>3, <1>5 DEF Phi
  <2>3. Phi(L - 2, r) <= L * L - L - 4
    <3>1. CASE m = 2
      <4>1. L = 4 /\ r = 2
        BY <1>2, <1>5, <3>1
      <4> QED
        BY <4>1 DEF Phi
    <3>2. CASE m > 2
      BY <1>2, <1>3, <1>5, <3>2 DEF Phi
    <3> QED
      BY <3>1, <3>2
  <2>4. Phi(M, r) \in Nat /\ Phi(L - 2, r) \in Nat
    BY <1>2, <2>1, PhiType
  <2> QED
    BY <1>1, <1>3, <2>1, <2>2, <2>3, <2>4 DEF r
<1> QED
  BY <1>4, <1>5

-----------------------------------------------------------------------------
\* The tests made and those that may follow are within the budget: in a pass, k of
\* those made were refused.
Spent(k) == 2 * tests + Phi(Len(keep), n) <= Budget + 2 * k
FewInv ==
  /\ stage = "verify" => keep = Input /\ n = 2
  /\ stage \in {"try", "grow"} => Len(keep) >= 2
  /\ stage \in {"pass", "save"} => Spent(0)
  /\ stage = "try" => \E k \in Nat : at = 1 + k * Chunk /\ Spent(k)
  /\ stage = "grow" =>
       2 * tests + (IF n >= Len(keep) THEN 0 ELSE Phi(Len(keep), Smaller(Len(keep), n * 2))) <= Budget
  /\ 2 * tests <= Budget

\* The subset that is tried begins within the stream, after k that were refused.
LEMMA TrySpent ==
  ASSUME IInv, FewInv, stage = "try"
  PROVE  \E k \in Nat : /\ at = 1 + k * Chunk /\ Spent(k) /\ k * Size(Len(keep), n) < Len(keep)
                        /\ Chunk = Size(Len(keep), n) /\ Len(keep) >= 2 /\ at \in 1 .. Len(keep)
<1>1. Len(keep) \in Nat /\ at \in Nat /\ at >= 1 /\ at <= Len(keep) /\ Len(keep) >= 2
  BY DEF IInv, TypeOK, TriedInv, FewInv
<1>2. Chunk = Size(Len(keep), n)
  BY DEF Chunk, Size
<1>3. PICK k \in Nat : at = 1 + k * Chunk /\ Spent(k)
  BY DEF FewInv
<1>4. Chunk \in Nat
  BY Chunks DEF IInv
<1>5. k * Chunk \in Nat /\ k * Chunk < Len(keep)
  BY <1>1, <1>3, <1>4
<1> QED
  BY <1>1, <1>2, <1>3, <1>5

\* A reduction takes no more than is left for it.
LEMMA ReduceSpends ==
  ASSUME IInv, FewInv, Reduce
  PROVE  FewInv'
<1>1. /\ Len(keep) \in Nat /\ n \in Nat /\ n >= 2 /\ tests \in Nat /\ Budget \in Nat
      /\ stage = "try" /\ stage' = "save" /\ tests' = tests + 1
      /\ keep' = Without(at, Chunk) /\ n' = Larger(n - 1, 2)
  BY TraceReduceAssumption DEF IInv, TypeOK, Larger, Reduce, Reproduces, Kept, Coarser, Budget
<1>2. PICK k \in Nat : /\ at = 1 + k * Chunk /\ Spent(k) /\ k * Size(Len(keep), n) < Len(keep)
                       /\ Chunk = Size(Len(keep), n) /\ Len(keep) >= 2 /\ at \in 1 .. Len(keep)
  BY <1>1, TrySpent
<1>3. Chunk \in Nat \ {0}
  BY Chunks DEF IInv
<1>4. /\ Len(keep') \in Nat /\ Len(keep') <= Len(keep) - 1
      /\ at + Chunk <= Len(keep) + 1 => Len(keep') = Len(keep) - Chunk
  <2>1. PICK c \in Nat \ {0} : c = Chunk
    BY <1>3
  <2>2. PICK i \in 1 .. Len(keep) : i = at
    BY <1>2
  <2>3. TypeOK
    BY DEF IInv
  <2>4. /\ Without(i, c) \in Seq(1 .. Ops) /\ Len(Without(i, c)) <= Len(keep) - 1
        /\ i + c <= Len(keep) + 1 => Len(Without(i, c)) = Len(keep) - c
    BY <2>3, Shorter
  <2> QED
    BY <1>1, <2>1, <2>2, <2>4
<1>5. 2 * n = Len(keep) => Len(keep') <= Len(keep) - 2
  <2>1. 2 * n = Len(keep) => Chunk = 2
    BY <1>1, <1>2, Division
  <2> QED
    BY <1>1, <1>2, <1>4, <2>1
<1>6. 2 * (k + 1) + Phi(Len(keep'), Larger(n - 1, 2)) <= Phi(Len(keep), n)
  BY <1>1, <1>2, <1>4, <1>5, ReduceCost
<1>7. Phi(Len(keep'), n') \in Nat /\ Phi(Len(keep), n) \in Nat
  <2>1. n' \in Nat /\ n' >= 2
    BY <1>1 DEF Larger
  <2> QED
    BY <1>1, <1>4, <2>1, PhiType
<1>8. 2 * tests' + Phi(Len(keep'), n') <= Budget
  <2>1. PICK b \in Nat : b = Budget
    BY <1>1
  <2>2. PICK p, q \in Nat : p = Phi(Len(keep), n) /\ q = Phi(Len(keep'), n')
    BY <1>7
  <2>3. 2 * tests + p <= b + 2 * k /\ 2 * (k + 1) + q <= p
    BY <1>1, <1>2, <1>6, <2>1, <2>2 DEF Spent
  <2>4. 2 * tests' + q <= b
    BY <1>1, <2>3
  <2> QED
    BY <2>1, <2>2, <2>4
<1>9. Spent(0)' /\ 2 * tests' <= Budget'
  BY <1>1, <1>7, <1>8 DEF Spent, Budget
<1> QED
  BY <1>1, <1>9 DEF FewInv

\* Nor does a refusal, whether the pass goes on or ends.
LEMMA RetainSpends ==
  ASSUME IInv, FewInv, Retain
  PROVE  FewInv'
<1>1. /\ Len(keep) \in Nat /\ n \in Nat /\ n >= 2 /\ tests \in Nat /\ Budget \in Nat
      /\ stage = "try" /\ stage' \in {"try", "grow"} /\ tests' = tests + 1
      /\ keep' = keep /\ n' = n /\ at' = at + Chunk
  BY TraceReduceAssumption DEF IInv, TypeOK, Larger, Retain, Disappears, Budget
<1>2. PICK k \in Nat : /\ at = 1 + k * Chunk /\ Spent(k) /\ k * Size(Len(keep), n) < Len(keep)
                       /\ Chunk = Size(Len(keep), n) /\ Len(keep) >= 2 /\ at \in 1 .. Len(keep)
  BY <1>1, TrySpent
<1>3. Chunk \in Nat \ {0} /\ Chunk' = Chunk
  BY <1>1, Chunks DEF IInv, Chunk
<1> DEFINE rest == IF n >= Len(keep) THEN 0 ELSE Phi(Len(keep), Smaller(Len(keep), n * 2))
<1>4. 2 * (k + 1) + rest <= Phi(Len(keep), n)
  BY <1>1, <1>2, FailCost
<1>5. Phi(Len(keep), n) \in Nat /\ rest \in Nat
  <2>1. n < Len(keep) => Smaller(Len(keep), n * 2) \in Nat /\ Smaller(Len(keep), n * 2) >= 2
    BY <1>1 DEF Smaller
  <2> QED
    BY <1>1, <2>1, PhiType
<1>6. rest' = rest
  BY <1>1
<1> HIDE DEF rest
<1>7. 2 * tests' + rest' <= Budget'
  BY <1>1, <1>2, <1>4, <1>5, <1>6 DEF Spent, Budget
<1>8. 2 * tests' <= Budget'
  BY <1>1, <1>5, <1>6, <1>7
<1>9. k + 1 \in Nat /\ at' = 1 + (k + 1) * Chunk' /\ Spent(k + 1)'
  <2>1. Spent(k + 1)'
    <3>1. PICK b \in Nat : b = Budget /\ b = Budget'
      BY <1>1 DEF Budget
    <3>2. PICK p \in Nat : p = Phi(Len(keep), n) /\ p = Phi(Len(keep'), n')
      BY <1>1, <1>5
    <3>3. 2 * tests + p <= b + 2 * k
      BY <1>2, <3>1, <3>2 DEF Spent
    <3>4. 2 * tests' + p <= b + 2 * (k + 1)
      BY <1>1, <3>3
    <3> QED
      BY <3>1, <3>2, <3>4 DEF Spent
  <2>2. PICK c \in Nat : c = Chunk /\ c = Chunk'
    BY <1>3
  <2>3. (k + 1) * c = k * c + c /\ k * c \in Nat
    OBVIOUS
  <2>4. at' = 1 + k * c + c
    BY <1>1, <1>2, <2>2
  <2>5. at' = 1 + (k + 1) * c
    BY <2>3, <2>4
  <2> QED
    BY <2>1, <2>2, <2>5
<1> QED
  BY <1>1, <1>2, <1>7, <1>8, <1>9 DEF FewInv, rest

\* No step makes the tests more than the budget.
LEMMA FewStep ==
  ASSUME IInv, FewInv, [Next]_vars
  PROVE  FewInv'
<1>1. /\ Len(keep) \in Nat /\ n \in Nat /\ n >= 2 /\ tests \in Nat /\ Budget \in Nat
      /\ Phi(Len(keep), n) \in Nat
  <2>1. Len(keep) \in Nat /\ n \in Nat /\ n >= 2 /\ tests \in Nat /\ Budget \in Nat
    BY TraceReduceAssumption DEF IInv, TypeOK, Larger, Budget
  <2> QED
    BY <2>1, PhiType
<1>2. CASE Verify
  <2>1. /\ tests = 0 /\ n = 2 /\ keep = Input /\ UNCHANGED <<keep, n>> /\ tests' = 1
        /\ stage' \in {"pass", "failed"}
    BY <1>2 DEF Verify, Reproduces, Disappears, IInv, FirstInv, FewInv
  <2>2. Len(keep) = Ops /\ Ops \in Nat
    BY <2>1, TraceReduceAssumption DEF Input
  <2>3. 2 + Phi(Ops, 2) <= Budget /\ Phi(Ops, 2) \in Nat
    BY <2>2, StartCost, PhiType DEF Budget
  <2>4. 2 * tests' + Phi(Len(keep'), n') <= Budget
    BY <2>1, <2>2, <2>3
  <2>5. Spent(0)' /\ 2 * tests' <= Budget'
    BY <1>1, <2>1, <2>3, <2>4 DEF Spent, Budget
  <2> QED
    BY <2>1, <2>5 DEF FewInv
<1>3. CASE Pass
  <2>1. UNCHANGED <<keep, n, tests>> /\ stage = "pass" /\ at' = 1
        /\ (stage' = "write" \/ (stage' = "try" /\ Len(keep) >= 2))
    BY <1>3 DEF Pass
  <2>2. Spent(0) /\ Spent(0)' /\ 2 * tests' <= Budget'
    BY <2>1 DEF FewInv, Spent, Budget
  <2>3. at' = 1 + 0 * Chunk'
    <3>1. Chunk \in Nat
      BY Chunks DEF IInv
    <3>2. Chunk' = Chunk
      BY <2>1 DEF Chunk
    <3>3. 0 * Chunk = 0
      BY <3>1
    <3> QED
      BY <2>1, <3>2, <3>3
  <2> QED
    BY <2>1, <2>2, <2>3 DEF FewInv
<1>4. CASE Reduce
  BY <1>4, ReduceSpends
<1>5. CASE Retain
  BY <1>5, RetainSpends
<1>6. CASE Grow
  <2>1. UNCHANGED <<keep, tests>> /\ stage = "grow" /\ 2 * tests' <= Budget'
    BY <1>6 DEF Grow, FewInv, Budget
  <2>2. CASE n >= Len(keep) /\ stage' = "write"
    BY <2>1, <2>2 DEF FewInv
  <2>3. CASE n < Len(keep) /\ stage' = "pass" /\ n' = Smaller(Len(keep), n * 2)
    <3>1. Spent(0)'
      BY <1>1, <2>1, <2>3 DEF FewInv, Spent, Budget
    <3> QED
      BY <2>1, <2>3, <3>1 DEF FewInv
  <2> QED
    BY <1>6, <2>2, <2>3 DEF Grow
<1>7. CASE Save
  BY <1>7 DEF Save, FewInv, Spent, Budget
<1>8. CASE Die
  BY <1>8 DEF Die, FewInv, Budget
<1>9. CASE UNCHANGED vars
  BY <1>9 DEF vars, FewInv, Spent, Budget, Chunk
<1> QED
  BY <1>2, <1>3, <1>4, <1>5, <1>6, <1>7, <1>8, <1>9 DEF Next, ddmin, Ended

\* However the board answers, a search ends within Ops^2 tests and that of the input
\* (gl-ddmin.py:87-111): a test that is refused is paid for by the operations that the
\* pass has to try, a reduction by those it removes.
THEOREM SearchIsShort == Spec => []FewTests
<1>1. Init => FewInv
  BY TraceReduceAssumption DEF Init, FewInv, Budget
<1>2. IInv /\ FewInv /\ [Next]_vars => FewInv'
  BY FewStep
<1>3. IInv /\ FewInv => FewTests
  <2> SUFFICES ASSUME IInv, FewInv PROVE FewTests
    OBVIOUS
  <2>1. tests \in Nat /\ Ops \in Nat /\ 2 * tests <= 2 + 2 * Ops * Ops
    BY TraceReduceAssumption DEF IInv, TypeOK, Larger, FewInv, Budget
  <2>2. 2 * Ops * Ops = 2 * (Ops * Ops) /\ Ops * Ops \in Nat
    BY <2>1
  <2> QED
    BY <2>1, <2>2 DEF FewTests
<1> QED
  BY <1>1, <1>2, <1>3, AlwaysIInv, PTL DEF Spec
=============================================================================
