--------------------------- MODULE NumbersProofs ---------------------------
(***************************************************************************)
(* For Integers of any number of bits: quotient and remainder belong       *)
(* together, an index counts from the end, and a range holds its length.   *)
(*                                                                         *)
(* Division is taken from the magnitudes to the numbers; only the quotient *)
(* of the least Integer by minus one does not fit, and there the code      *)
(* traps.  A subscript and its remainder differ by a multiple of the       *)
(* length, and there is only one remainder.  For a range, the function by  *)
(* which the values are made one after the other is constructed, and any   *)
(* other is shown to agree with it, by induction on how many are left.     *)
(***************************************************************************)
EXTENDS Numbers, WellFoundedInduction, TLAPS

\* The numbers that an Integer can have.
IntegerValues == Least .. Greatest

-----------------------------------------------------------------------------
\* A set of natural numbers has a smallest one.
LEMMA Smallest ==
  ASSUME NEW S, S \subseteq Nat, S # {}
  PROVE  \E n \in S : \A m \in S : n <= m
<1>1. PICK n \in S : \A m \in S : ~(<<m, n>> \in OpToRel(<, Nat))
  <2> HIDE DEF OpToRel
  <2> QED
    BY NatLessThanWellFounded, WFMin
<1>2. ASSUME NEW m \in Nat, NEW k \in Nat, m < k PROVE <<m, k>> \in OpToRel(<, Nat)
  BY <1>2, Zenon DEF OpToRel
<1>3. \A m \in S : ~(m < n)
  <2> HIDE DEF OpToRel
  <2> QED
    BY <1>1, <1>2
<1> QED
  BY <1>3

\* What holds at 0 and goes on to the next number holds at all of them.
LEMMA Upwards ==
  ASSUME NEW S, 0 \in S, \A n \in Nat : n \in S => n + 1 \in S
  PROVE  Nat \subseteq S
<1> DEFINE T == {n \in Nat : n \notin S}
<1>1. SUFFICES ASSUME T # {} PROVE FALSE
  OBVIOUS
<1>2. PICK n \in T : \A m \in T : n <= m
  <2>1. T \subseteq Nat
    OBVIOUS
  <2> HIDE DEF T
  <2> QED
    BY <1>1, <2>1, Smallest
<1>3. n \in Nat /\ n # 0 /\ n \notin S
  BY <1>2
<1>4. n - 1 \in Nat /\ ~(n <= n - 1) /\ (n - 1) + 1 = n
  BY <1>3
<1>5. n - 1 \in S
  BY <1>2, <1>4
<1> QED
  BY <1>3, <1>4, <1>5

-----------------------------------------------------------------------------
\* The bits of an Integer.

\* What TwoTo is defined by, up to so many bits.
Doubles(f, n) == f = [b \in 0 .. n |-> IF b = 0 THEN 1 ELSE 2 * f[b - 1]]

\* There is such a function, up to any number of bits.
LEMMA DoublingExists == \A n \in Nat : \E f : Doubles(f, n)
<1> DEFINE S == {n \in Nat : \E f : Doubles(f, n)}
<1>1. 0 \in S
  <2> DEFINE f == [b \in 0 .. 0 |-> 1]
  <2>1. f = [b \in 0 .. 0 |-> IF b = 0 THEN 1 ELSE 2 * f[b - 1]]
    OBVIOUS
  <2> HIDE DEF f
  <2> QED
    BY <2>1 DEF Doubles
<1>2. ASSUME NEW n \in Nat, NEW f, Doubles(f, n) PROVE \E g : Doubles(g, n + 1)
  <2> DEFINE g == [b \in 0 .. n + 1 |-> IF b = n + 1 THEN 2 * f[n] ELSE f[b]]
  <2>1. ASSUME NEW b \in 0 .. n + 1 PROVE g[b] = IF b = 0 THEN 1 ELSE 2 * g[b - 1]
    <3>1. CASE b = n + 1
      BY <3>1
    <3>2. CASE b = 0
      BY <1>2, <3>2 DEF Doubles
    <3>3. CASE b \in 1 .. n
      <4>1. g[b] = f[b] /\ g[b - 1] = f[b - 1]
        BY <3>3
      <4>2. f[b] = 2 * f[b - 1]
        BY <1>2, <3>3 DEF Doubles
      <4> QED
        BY <3>3, <4>1, <4>2
    <3> QED
      BY <3>1, <3>2, <3>3
  <2>2. g = [b \in 0 .. n + 1 |-> g[b]]
    OBVIOUS
  <2> HIDE DEF g
  <2>3. g = [b \in 0 .. n + 1 |-> IF b = 0 THEN 1 ELSE 2 * g[b - 1]]
    BY <2>1, <2>2
  <2> QED
    BY <2>3 DEF Doubles
<1>3. \A n \in Nat : n \in S => n + 1 \in S
  BY <1>2
<1> HIDE DEF S
<1>4. Nat \subseteq S
  BY <1>1, <1>3, Upwards
<1> QED
  BY <1>4 DEF S

\* One bit more counts twice as far.
LEMMA Doubling ==
  /\ TwoTo[0] = 1
  /\ \A b \in 1 .. Width : TwoTo[b] = 2 * TwoTo[b - 1]
<1>1. \E f : Doubles(f, Width)
  BY DoublingExists, WidthAssumption
<1>2. \E f : f = [b \in 0 .. Width |-> IF b = 0 THEN 1 ELSE 2 * f[b - 1]]
  BY <1>1 DEF Doubles
<1>3. TwoTo = CHOOSE f : f = [b \in 0 .. Width |-> IF b = 0 THEN 1 ELSE 2 * f[b - 1]]
  BY DEF TwoTo
<1>4. TwoTo = [b \in 0 .. Width |-> IF b = 0 THEN 1 ELSE 2 * TwoTo[b - 1]]
  BY <1>2, <1>3
<1>5. ASSUME NEW f, Doubles(f, Width)
      PROVE  f[0] = 1 /\ \A b \in 1 .. Width : f[b] = 2 * f[b - 1]
  <2>1. \A b \in 0 .. Width : f[b] = IF b = 0 THEN 1 ELSE 2 * f[b - 1]
    BY <1>5, Zenon DEF Doubles
  <2>2. 0 \in 0 .. Width /\ 1 .. Width \subseteq 0 .. Width /\ 0 \notin 1 .. Width
    BY WidthAssumption
  <2> QED
    BY <2>1, <2>2, Zenon
<1>6. Doubles(TwoTo, Width)
  BY <1>4 DEF Doubles
<1> QED
  BY <1>5, <1>6

\* Bits tell apart at least one number.
LEMMA TwoToPositive == \A b \in 0 .. Width : TwoTo[b] \in Nat \ {0}
<1> DEFINE S == {n \in Nat : n \in 0 .. Width => TwoTo[n] \in Nat \ {0}}
<1>1. 0 \in S
  BY Doubling
<1>2. ASSUME NEW n \in Nat, n \in S PROVE n + 1 \in S
  <2>1. SUFFICES ASSUME n + 1 \in 0 .. Width PROVE TwoTo[n + 1] \in Nat \ {0}
    OBVIOUS
  <2>2. TwoTo[n] \in Nat \ {0}
    BY <1>2, <2>1, WidthAssumption
  <2>3. TwoTo[n + 1] = 2 * TwoTo[n]
    BY <2>1, Doubling
  <2> QED
    BY <2>2, <2>3
<1> HIDE DEF S
<1>3. Nat \subseteq S
  BY <1>1, <1>2, Upwards
<1> QED
  BY <1>3, WidthAssumption DEF S

\* Half of the numbers are negative.
LEMMA Sizes ==
  /\ Greatest \in Nat
  /\ Least \in Int /\ Least = -Greatest - 1
  /\ TwoTo[Width] \in Nat \ {0} /\ TwoTo[Width] = 2 * Greatest + 2
<1>1. TwoTo[Width - 1] \in Nat \ {0} /\ TwoTo[Width] = 2 * TwoTo[Width - 1]
  BY Doubling, TwoToPositive, WidthAssumption
<1> QED
  BY <1>1 DEF Greatest, Least

\* Every number has a remainder in the bits of an Integer, which is the number
\* itself if it fits.
LEMMA Wrapping ==
  /\ \A n \in Int : Wrapped(n) \in IntegerValues
  /\ \A n \in IntegerValues : Wrapped(n) = n
<1> DEFINE w == TwoTo[Width]
<1>1. w \in Nat \ {0} /\ w = Greatest - Least + 1 /\ Least \in Int /\ Greatest \in Int
  BY Sizes
<1> HIDE DEF w
<1>2. ASSUME NEW n \in Int PROVE Wrapped(n) \in IntegerValues
  <2>1. (n - Least) % w \in 0 .. w - 1
    BY <1>1
  <2>2. Wrapped(n) = ((n - Least) % w) + Least
    BY DEF Wrapped, w
  <2> QED
    BY <1>1, <2>1, <2>2 DEF IntegerValues
<1>3. ASSUME NEW n \in IntegerValues PROVE Wrapped(n) = n
  <2>1. n \in Int /\ n - Least \in 0 .. w - 1
    BY <1>1 DEF IntegerValues
  <2>2. (n - Least) % w = n - Least
    BY <1>1, <2>1
  <2>3. Wrapped(n) = ((n - Least) % w) + Least
    BY DEF Wrapped, w
  <2> QED
    BY <1>1, <2>1, <2>2, <2>3
<1> QED
  BY <1>2, <1>3

-----------------------------------------------------------------------------
\* Quotient and remainder.

\* The magnitude of a number that is divided is what its quotient and the rest
\* come to; the rest is smaller than what it is divided by.
LEMMA MagnitudesDivide ==
  ASSUME NEW a \in Int, NEW b \in Int, b # 0
  PROVE  /\ Magnitude(a) \in Nat /\ Magnitude(b) \in Nat \ {0}
         /\ Magnitude(a) \div Magnitude(b) \in 0 .. Magnitude(a)
         /\ Magnitude(a) % Magnitude(b) \in 0 .. Magnitude(b) - 1
         /\ Magnitude(a) % Magnitude(b) <= Magnitude(a)
         /\ Magnitude(a) = Magnitude(b) * (Magnitude(a) \div Magnitude(b))
                             + (Magnitude(a) % Magnitude(b))
<1>1. Magnitude(a) \in Nat /\ Magnitude(b) \in Nat \ {0}
  BY DEF Magnitude
<1>2. ASSUME NEW x \in Nat, NEW y \in Nat \ {0}
      PROVE  /\ x \div y \in 0 .. x
             /\ x % y \in 0 .. y - 1
             /\ x % y <= x
             /\ x = y * (x \div y) + (x % y)
  <2>1. x \div y \in Nat /\ x \div y <= x
    OBVIOUS
  <2>2. x % y \in 0 .. y - 1
    OBVIOUS
  <2>3. x = y * (x \div y) + (x % y)
    OBVIOUS
  <2>4. y * (x \div y) \in Nat
    BY <2>1
  <2>5. x % y <= x
    BY <2>2, <2>3, <2>4
  <2> QED
    BY <2>1, <2>2, <2>3, <2>5
<1> HIDE DEF Magnitude
<1> QED
  BY <1>1, <1>2

\* The rest of the magnitudes is the rest of the numbers, with the sign of the
\* dividend.
LEMMA Rest ==
  ASSUME NEW a \in Int, NEW b \in Int, b # 0
  PROVE  /\ Quotient(a, b) \in Int
         /\ a - b * Quotient(a, b) =
              IF a < 0 THEN -(Magnitude(a) % Magnitude(b)) ELSE Magnitude(a) % Magnitude(b)
<1> DEFINE q == Magnitude(a) \div Magnitude(b)
           r == Magnitude(a) % Magnitude(b)
<1>1. q \in Nat /\ r \in Nat /\ Magnitude(a) = Magnitude(b) * q + r
  BY MagnitudesDivide
<1>2. Quotient(a, b) = IF (a < 0) = (b < 0) THEN q ELSE -q
  BY DEF Quotient
<1>3. Magnitude(a) = (IF a < 0 THEN -a ELSE a) /\ Magnitude(b) = IF b < 0 THEN -b ELSE b
  BY DEF Magnitude
<1> HIDE DEF q, r
<1>4. (-b) * q = -(b * q) /\ b * (-q) = -(b * q) /\ b * q \in Int
  BY <1>1
<1>5. a - b * Quotient(a, b) = IF a < 0 THEN -r ELSE r
  <2>1. CASE a < 0 /\ b < 0
    BY <1>1, <1>2, <1>3, <1>4, <2>1
  <2>2. CASE a < 0 /\ ~(b < 0)
    <3>1. Quotient(a, b) = -q /\ -a = b * q + r
      BY <1>1, <1>2, <1>3, <2>2
    <3> QED
      BY <1>1, <1>4, <2>2, <3>1
  <2>3. CASE ~(a < 0) /\ b < 0
    <3>1. Quotient(a, b) = -q /\ a = (-b) * q + r
      BY <1>1, <1>2, <1>3, <2>3
    <3> QED
      BY <1>1, <1>4, <2>3, <3>1
  <2>4. CASE ~(a < 0) /\ ~(b < 0)
    BY <1>1, <1>2, <1>3, <1>4, <2>4
  <2> QED
    BY <2>1, <2>2, <2>3, <2>4
<1> QED
  BY <1>1, <1>2, <1>5 DEF r

\* Only the least Integer divided by minus one is out of range.
LEMMA QuotientFits ==
  ASSUME NEW a \in IntegerValues, NEW b \in IntegerValues, ~Traps(a, b)
  PROVE  Quotient(a, b) \in IntegerValues
<1> DEFINE q == Magnitude(a) \div Magnitude(b)
<1>1. a \in Int /\ b \in Int /\ b # 0 /\ Least <= a /\ a <= Greatest
  BY Sizes DEF IntegerValues, Traps
<1>2. q \in 0 .. Magnitude(a)
  BY <1>1, MagnitudesDivide
<1>3. Quotient(a, b) = IF (a < 0) = (b < 0) THEN q ELSE -q
  BY DEF Quotient
<1>4. Magnitude(a) <= -Least /\ (a # Least => Magnitude(a) <= Greatest)
  BY <1>1, Sizes DEF Magnitude
<1>5. Magnitude(a) \in Nat
  BY <1>1 DEF Magnitude
<1>6. CASE a # Least
  <2> HIDE DEF q
  <2> QED
    BY <1>2, <1>3, <1>4, <1>5, <1>6, Sizes DEF IntegerValues
<1>7. CASE a = Least /\ b > 0
  <2>1. a < 0
    BY <1>7, Sizes
  <2>2. Quotient(a, b) = -q
    BY <1>1, <1>3, <1>7, <2>1
  <2> HIDE DEF q
  <2> QED
    BY <1>2, <1>4, <1>5, <2>2, Sizes DEF IntegerValues
<1>8. CASE a = Least /\ b < 0
  <2>1. Magnitude(b) >= 2 /\ Magnitude(b) \in Nat
    BY <1>1, <1>8 DEF Magnitude, Traps
  <2>2. Magnitude(a) = Greatest + 1
    BY <1>8, Sizes DEF Magnitude
  <2>3. Magnitude(a) = Magnitude(b) * q + (Magnitude(a) % Magnitude(b))
        /\ Magnitude(a) % Magnitude(b) \in Nat
    BY <1>1, MagnitudesDivide
  <2>4. q \in Nat
    BY <1>2, <1>5
  <2> HIDE DEF q
  <2>5. q <= Greatest
    <3>1. ASSUME NEW x \in Nat, NEW y \in Nat, NEW r \in Nat, NEW g \in Nat,
                 y >= 2, g + 1 = y * x + r
          PROVE  x <= g
      <4>1. CASE x = 0
        BY <4>1
      <4>2. CASE x >= 1
        <5>1. y * x >= 2 * x
          BY <3>1
        <5> QED
          BY <3>1, <4>2, <5>1
      <4> QED
        BY <4>1, <4>2
    <3> DEFINE y == Magnitude(b)
               r == Magnitude(a) % Magnitude(b)
    <3>2. y \in Nat /\ y >= 2 /\ r \in Nat /\ Greatest \in Nat /\ Greatest + 1 = y * q + r
      BY <2>1, <2>2, <2>3, Sizes
    <3> HIDE DEF y, r
    <3> QED
      BY <2>4, <3>1, <3>2
  <2> QED
    BY <1>3, <2>4, <2>5, Sizes DEF IntegerValues
<1> QED
  BY <1>1, <1>6, <1>7, <1>8

\* The quotient and the remainder of two Integers belong together, however many
\* bits they have (evalIntegerInfixOperator).
THEOREM QuotientsAndRemainders ==
  \A a, b \in IntegerValues : BelongTogether(a, b, Divided(a, b), Remainder(a, b))
<1> SUFFICES ASSUME NEW a \in IntegerValues, NEW b \in IntegerValues
             PROVE  BelongTogether(a, b, Divided(a, b), Remainder(a, b))
  OBVIOUS
<1>1. ASSUME NEW n PROVE /\ Integer(n).type = "Integer" /\ Integer(n).number = Wrapped(n)
                         /\ ~Fails(Integer(n)) /\ Integer(n) # Crash
  <2>1. Integer(n).type = "Integer" /\ Integer(n).number = Wrapped(n) /\ Crash.type = "Crash"
    BY DEF Integer, Object, Crash
  <2> QED
    BY <2>1 DEF Fails, Stops
<1>2. Fails(Crash) /\ Fails(Error)
  BY DEF Fails, Stops, Crash, Error, Object
<1>3. CASE Traps(a, b)
  <2>1. Remainder(a, b) = Crash /\ Divided(a, b) \in {Error, Crash}
    BY <1>3 DEF Remainder, Divided
  <2> QED
    BY <1>2, <2>1 DEF BelongTogether
<1>4. CASE ~Traps(a, b)
  <2> DEFINE q == Quotient(a, b)
             r == a - b * q
  <2>1. a \in Int /\ b \in Int /\ b # 0 /\ Least <= a /\ a <= Greatest
    BY <1>4, Sizes DEF IntegerValues, Traps
  <2>2. Divided(a, b) = Integer(q) /\ Remainder(a, b) = Integer(r)
    BY <1>4, <2>1 DEF Remainder, Divided
  <2>3. q \in IntegerValues /\ q \in Int
    BY <1>4, <2>1, Rest, QuotientFits
  <2>4. Magnitude(a) % Magnitude(b) \in 0 .. Magnitude(b) - 1
        /\ Magnitude(a) % Magnitude(b) <= Magnitude(a)
    BY <2>1, MagnitudesDivide
  <2>5. r = IF a < 0 THEN -(Magnitude(a) % Magnitude(b)) ELSE Magnitude(a) % Magnitude(b)
    BY <2>1, Rest
  <2>6. Magnitude(r) = Magnitude(a) % Magnitude(b)
    <3> DEFINE m == Magnitude(a) % Magnitude(b)
    <3>1. m \in Nat /\ r = IF a < 0 THEN -m ELSE m
      BY <2>1, <2>4, <2>5 DEF Magnitude
    <3> HIDE DEF m, r
    <3>2. Magnitude(r) = m
      BY <3>1 DEF Magnitude
    <3> QED
      BY <3>2 DEF m
  <2>7. r \in IntegerValues
    <3> DEFINE m == Magnitude(a) % Magnitude(b)
    <3>1. m \in Nat /\ r = IF a < 0 THEN -m ELSE m
      BY <2>1, <2>4, <2>5 DEF Magnitude
    <3>2. m <= Magnitude(a)
      BY <2>4
    <3> HIDE DEF m, r
    <3> QED
      BY <2>1, <3>1, <3>2, Sizes DEF Magnitude, IntegerValues
  <2>8. Wrapped(q) = q /\ Wrapped(r) = r
    BY <2>3, <2>7, Wrapping
  <2>9. Divided(a, b).number = q /\ Remainder(a, b).number = r
        /\ ~Fails(Divided(a, b)) /\ Remainder(a, b) # Crash
    BY <1>1, <2>2, <2>8
  <2>10. q * b + r = a
    <3> HIDE DEF q
    <3> QED
      BY <2>1, <2>3
  <2>11. Magnitude(r) < Magnitude(b)
    BY <2>1, <2>4, <2>6 DEF Magnitude
  <2> HIDE DEF q, r
  <2> QED
    BY <2>9, <2>10, <2>11 DEF BelongTogether
<1> QED
  BY <1>3, <1>4

-----------------------------------------------------------------------------
\* Subscripts.

\* There is only one remainder.
LEMMA OneRemainder ==
  ASSUME NEW n \in Nat \ {0}, NEW k \in Int, NEW r \in 0 .. n - 1
  PROVE  (n * k + r) % n = r
<1> DEFINE x == n * k + r
           d == x \div n
           m == x % n
<1>1. x \in Int
  OBVIOUS
<1>2. d \in Int /\ m \in 0 .. n - 1 /\ x = n * d + m
  <2> HIDE DEF x
  <2> QED
    BY <1>1
<1>3. n * k + r = n * d + m
  BY <1>2
<1> HIDE DEF x, d, m
<1>4. d = k
  <2>1. CASE d < k
    <3>1. n * (k - d) >= n /\ n * (k - d) = m - r
      BY <1>2, <1>3, <2>1
    <3> QED
      BY <1>2, <3>1
  <2>2. CASE d > k
    <3>1. n * (d - k) >= n /\ n * (d - k) = r - m
      BY <1>2, <1>3, <2>2
    <3> QED
      BY <1>2, <3>1
  <2> QED
    BY <1>2, <2>1, <2>2
<1>5. m = r
  BY <1>2, <1>3, <1>4
<1> QED
  BY <1>5 DEF m, x

\* What an index comes to: itself, or its remainder when it is negative.
LEMMA Normalized ==
  ASSUME NEW i \in IntegerValues, NEW n \in Nat \ {0}
  PROVE  normalizedArrayIndex(i, n) = IF i < 0 THEN i % n ELSE i
<1>1. i \in Int /\ i <= Greatest
  BY Sizes DEF IntegerValues
<1>2. CASE i >= 0
  <2>1. i \in Nat /\ i < TwoTo[Width] /\ TwoTo[Width] \in Nat
    BY <1>1, <1>2, Sizes
  <2>2. i % TwoTo[Width] = i
    BY <2>1
  <2> QED
    BY <1>2, <2>1, <2>2 DEF normalizedArrayIndex
<1>3. CASE i < 0
  <2> DEFINE q == (-i) \div n
             r == (-i) % n
  <2>1. q \in Int /\ r \in 0 .. n - 1 /\ -i = n * q + r
    BY <1>1
  <2>2. normalizedArrayIndex(i, n) = (n - r) % n
    BY <1>1, <1>3 DEF normalizedArrayIndex
  <2> HIDE DEF q, r
  <2>3. CASE r = 0
    <3>1. (n - r) % n = 0
      BY <2>3
    <3>2. i = n * (-q) + 0 /\ -q \in Int
      BY <1>1, <2>1, <2>3
    <3>3. i % n = 0
      BY <3>2, OneRemainder
    <3> QED
      BY <1>3, <2>2, <3>1, <3>3
  <2>4. CASE r # 0
    <3>1. n - r \in 0 .. n - 1
      BY <2>1, <2>4
    <3>2. (n - r) % n = n - r
      BY <3>1
    <3>3. i = n * (-q - 1) + (n - r) /\ -q - 1 \in Int
      BY <1>1, <2>1
    <3>4. i % n = n - r
      BY <3>1, <3>3, OneRemainder
    <3> QED
      BY <1>3, <2>2, <3>2, <3>4
  <2> QED
    BY <2>3, <2>4
<1> QED
  BY <1>1, <1>2, <1>3

\* Whatever the sequence, and however many bits an index has, it means the item
\* that Meant says (normalizedArrayIndex).
THEOREM IndicesCountFromTheEnd ==
  ASSUME NEW S, NEW items \in Seq(S), items # <<>>, NEW i \in IntegerValues
  PROVE  ItemAt(items, i) = Meant(items, i)
<1> DEFINE n == Len(items)
<1>1. n \in Nat \ {0}
  OBVIOUS
<1>2. i \in Int
  BY Sizes DEF IntegerValues
<1>3. CASE i < 0
  <2>1. normalizedArrayIndex(i, n) = i % n
    BY <1>1, <1>3, Normalized
  <2>2. i % n < n /\ ~(i >= n)
    BY <1>1, <1>2, <1>3
  <2> QED
    BY <2>1, <2>2 DEF ItemAt, IsInside, Meant
<1>4. CASE i >= 0 /\ i < n
  <2>1. normalizedArrayIndex(i, n) = i
    BY <1>1, <1>2, <1>4, Normalized
  <2>2. i % n = i /\ ~(i >= n)
    BY <1>1, <1>2, <1>4
  <2> QED
    BY <1>4, <2>1, <2>2 DEF ItemAt, IsInside, Meant
<1>5. CASE i >= n
  <2>1. normalizedArrayIndex(i, n) = i /\ ~(i < n)
    BY <1>1, <1>2, <1>5, Normalized
  <2> QED
    BY <1>5, <2>1 DEF ItemAt, IsInside, Meant
<1> QED
  BY <1>1, <1>2, <1>3, <1>4, <1>5

-----------------------------------------------------------------------------
\* Ranges.

\* How many values there are from i on, and which.
Count(i, u, s) == IF i < u THEN ((u - 1 - i) \div s) + 1 ELSE 0
From(i, u, s)  == [j \in 1 .. Count(i, u, s) |-> i + (j - 1) * s]

\* The step to the next value leaves one less.
LEMMA CountsDown ==
  ASSUME NEW u \in Int, NEW s \in Nat \ {0}, NEW i \in Int
  PROVE  /\ Count(i, u, s) \in Nat
         /\ i < u => Count(i, u, s) = Count(i + s, u, s) + 1
<1>1. ASSUME NEW x \in Nat PROVE x \div s \in Nat
  OBVIOUS
<1>2. Count(i, u, s) \in Nat
  BY <1>1 DEF Count
<1>3. ASSUME i < u PROVE Count(i, u, s) = Count(i + s, u, s) + 1
  <2> DEFINE x == u - 1 - i
  <2>1. x \in Nat /\ Count(i, u, s) = (x \div s) + 1
    BY <1>3 DEF Count
  <2>2. CASE i + s < u
    <3>1. Count(i + s, u, s) = ((x - s) \div s) + 1
      <4>1. u - 1 - (i + s) = x - s
        OBVIOUS
      <4> QED
        BY <2>2, <4>1 DEF Count
    <3>2. x >= s
      BY <2>2
    <3> HIDE DEF x
    <3>3. x \div s = 1 + ((x - s) \div s)
      BY <2>1, <3>2
    <3>4. x - s \in Nat
      BY <2>1, <3>2
    <3>5. (x - s) \div s \in Nat
      BY <1>1, <3>4
    <3> QED
      BY <2>1, <3>1, <3>3, <3>5
  <2>3. CASE ~(i + s < u)
    <3>1. Count(i + s, u, s) = 0
      BY <2>3 DEF Count
    <3>2. x < s
      BY <2>3
    <3> HIDE DEF x
    <3>3. x \div s = 0
      BY <2>1, <3>2
    <3> QED
      BY <2>1, <3>1, <3>3
  <2> QED
    BY <2>2, <2>3
<1> QED
  BY <1>2, <1>3

\* The values from i on are i and those from i + s on.
LEMMA FromUnfolds ==
  ASSUME NEW u \in Int, NEW s \in Nat \ {0}, NEW i \in Int
  PROVE  From(i, u, s) = IF i < u THEN <<i>> \o From(i + s, u, s) ELSE <<>>
<1> DEFINE n == Count(i, u, s)
           m == Count(i + s, u, s)
<1>1. n \in Nat /\ m \in Nat /\ (i < u => n = m + 1) /\ (~(i < u) => n = 0)
  BY CountsDown DEF Count
<1>2. From(i, u, s) = [j \in 1 .. n |-> i + (j - 1) * s]
      /\ From(i + s, u, s) = [j \in 1 .. m |-> (i + s) + (j - 1) * s]
  BY DEF From
<1> HIDE DEF n, m
<1>3. CASE i < u
  <2> DEFINE rest == [j \in 1 .. m |-> (i + s) + (j - 1) * s]
             all  == <<i>> \o rest
  <2>1. rest \in Seq(Int) /\ Len(rest) = m
    BY <1>1
  <2>2. \A j \in 1 .. m : rest[j] = (i + s) + (j - 1) * s
    OBVIOUS
  <2> HIDE DEF rest
  <2>3. all \in Seq(Int) /\ Len(all) = n /\ all[1] = i
        /\ \A j \in 2 .. n : all[j] = rest[j - 1]
    BY <1>1, <1>3, <2>1
  <2>4. ASSUME NEW j \in 1 .. n PROVE all[j] = i + (j - 1) * s
    <3>1. CASE j = 1
      BY <2>3, <3>1
    <3>2. CASE j # 1
      <4>1. j \in 2 .. n /\ j - 1 \in 1 .. m
        BY <1>1, <1>3, <3>2
      <4>2. all[j] = (i + s) + (j - 2) * s
        BY <2>2, <2>3, <4>1
      <4>3. (i + s) + (j - 2) * s = i + (j - 1) * s
        OBVIOUS
      <4> QED
        BY <4>2, <4>3
    <3> QED
      BY <3>1, <3>2
  <2> HIDE DEF all
  <2>5. all = [j \in 1 .. n |-> i + (j - 1) * s]
    BY <2>3, <2>4
  <2> QED
    BY <1>2, <1>3, <2>5 DEF all, rest
<1>4. CASE ~(i < u)
  <2>1. 1 .. n = {}
    BY <1>1, <1>4
  <2>2. [j \in 1 .. n |-> i + (j - 1) * s] = <<>>
    BY <2>1
  <2> QED
    BY <1>2, <1>4, <2>2
<1> QED
  BY <1>3, <1>4

\* A function that gives the values from each number on, as Range::values makes
\* them one after the other.
Stepping(v, u, s) == v = [i \in Int |-> IF i < u THEN <<i>> \o v[i + s] ELSE <<>>]

\* There is one, as the stride is positive.
LEMMA SteppingExists ==
  ASSUME NEW u \in Int, NEW s \in Nat \ {0}
  PROVE  \E v : Stepping(v, u, s)
<1> DEFINE v == [i \in Int |-> From(i, u, s)]
<1>1. ASSUME NEW i \in Int PROVE v[i] = IF i < u THEN <<i>> \o v[i + s] ELSE <<>>
  <2>1. i + s \in Int
    OBVIOUS
  <2>2. v[i] = From(i, u, s) /\ v[i + s] = From(i + s, u, s)
    BY <2>1
  <2> HIDE DEF v
  <2> QED
    BY <2>2, FromUnfolds
<1>2. v = [i \in Int |-> v[i]]
  OBVIOUS
<1> HIDE DEF v
<1>3. v = [i \in Int |-> IF i < u THEN <<i>> \o v[i + s] ELSE <<>>]
  BY <1>1, <1>2
<1> QED
  BY <1>3 DEF Stepping

\* There is no other.
LEMMA SteppingIsFrom ==
  ASSUME NEW u \in Int, NEW s \in Nat \ {0}, NEW v, Stepping(v, u, s)
  PROVE  \A i \in Int : v[i] = From(i, u, s)
<1>1. \A i \in Int : v[i] = IF i < u THEN <<i>> \o v[i + s] ELSE <<>>
  BY Zenon DEF Stepping
<1> DEFINE S == {n \in Nat : \A i \in Int : Count(i, u, s) = n => v[i] = From(i, u, s)}
<1>2. 0 \in S
  <2>1. ASSUME NEW i \in Int, Count(i, u, s) = 0 PROVE v[i] = From(i, u, s)
    <3>1. ~(i < u)
      <4>1. ASSUME i < u PROVE FALSE
        <5>1. 0 = Count(i + s, u, s) + 1
          BY <2>1, <4>1, CountsDown
        <5>2. i + s \in Int
          OBVIOUS
        <5>3. Count(i + s, u, s) \in Nat
          BY <5>2, CountsDown
        <5> QED
          BY <5>1, <5>3
      <4> QED
        BY <4>1
    <3>2. v[i] = <<>>
      BY <1>1, <3>1, Zenon
    <3>3. From(i, u, s) = <<>>
      BY <3>1, FromUnfolds, Zenon
    <3> QED
      BY <3>2, <3>3
  <2> QED
    BY <2>1
<1>3. ASSUME NEW n \in Nat, n \in S PROVE n + 1 \in S
  <2>1. ASSUME NEW i \in Int, Count(i, u, s) = n + 1 PROVE v[i] = From(i, u, s)
    <3>1. i < u
      BY <2>1 DEF Count
    <3>2. i + s \in Int /\ Count(i + s, u, s) = n
      <4>1. i + s \in Int
        OBVIOUS
      <4>2. Count(i + s, u, s) \in Nat
        BY <4>1, CountsDown
      <4>3. n + 1 = Count(i + s, u, s) + 1
        BY <2>1, <3>1, CountsDown
      <4> QED
        BY <4>1, <4>2, <4>3
    <3>3. v[i + s] = From(i + s, u, s)
      BY <1>3, <3>2
    <3>4. v[i] = <<i>> \o v[i + s]
      BY <1>1, <3>1, Zenon
    <3>5. From(i, u, s) = <<i>> \o From(i + s, u, s)
      BY <3>1, FromUnfolds, Zenon
    <3> QED
      BY <3>3, <3>4, <3>5, Zenon
  <2> QED
    BY <2>1
<1> HIDE DEF S
<1>4. Nat \subseteq S
  BY <1>2, <1>3, Upwards
<1>5. ASSUME NEW i \in Int PROVE Count(i, u, s) \in S
  BY <1>4, CountsDown
<1> QED
  BY <1>5 DEF S

\* The bounds and the stride of a range.
LEMMA RangeFacts ==
  ASSUME NEW l \in IntegerValues, NEW u \in IntegerValues, NEW s \in IntegerValues
  PROVE  /\ RangeOf(l, u, s).items[1].number = l
         /\ RangeOf(l, u, s).items[2].number = u
         /\ RangeOf(l, u, s).items[3].number = s
<1>1. Integer(l).number = l /\ Integer(u).number = u /\ Integer(s).number = s
  BY Wrapping DEF Integer, Object
<1>2. RangeOf(l, u, s).items = <<Integer(l), Integer(u), Integer(s)>>
  BY DEF RangeOf, Object
<1> HIDE DEF RangeOf, Integer
<1> QED
  BY <1>1, <1>2

\* Range::values makes the values from the lower bound on.
LEMMA ValuesOfRange ==
  ASSUME NEW l \in IntegerValues, NEW u \in IntegerValues, NEW s \in IntegerValues
  PROVE  /\ l >= u => values(RangeOf(l, u, s)) = <<>>
         /\ s > 0 => values(RangeOf(l, u, s)) = From(l, u, s)
<1> DEFINE r == RangeOf(l, u, s)
           v == CHOOSE v : Stepping(v, u, s)
<1>1. l \in Int /\ u \in Int /\ s \in Int
  BY Sizes DEF IntegerValues
<1>2. values(r) = IF l < u THEN v[l] ELSE <<>>
  <2>1. ASSUME NEW x, NEW a, NEW b, NEW c,
               x.items[1].number = a, x.items[2].number = b, x.items[3].number = c
        PROVE  values(x) = IF a < b THEN (CHOOSE w : Stepping(w, b, c))[a] ELSE <<>>
    BY <2>1 DEF values, Stepping
  <2> HIDE DEF r
  <2>2. r.items[1].number = l /\ r.items[2].number = u /\ r.items[3].number = s
    BY RangeFacts DEF r
  <2> QED
    BY <2>1, <2>2
<1>3. ASSUME s > 0 PROVE v[l] = From(l, u, s)
  <2>1. s \in Nat \ {0}
    BY <1>1, <1>3
  <2>2. Stepping(v, u, s)
    BY <1>1, <2>1, SteppingExists
  <2> QED
    BY <1>1, <2>1, <2>2, SteppingIsFrom
<1>4. ASSUME s > 0, ~(l < u) PROVE From(l, u, s) = <<>>
  <2>1. s \in Nat \ {0}
    BY <1>1, <1>4
  <2> QED
    BY <1>1, <1>4, <2>1, FromUnfolds
<1> QED
  BY <1>1, <1>2, <1>3, <1>4

\* What a range from a lower to a higher bound counts to, and where it ends.
LEMMA CountOfRange ==
  ASSUME NEW l \in Int, NEW u \in Int, NEW s \in Nat \ {0}, l < u
  PROVE  LET n == Count(l, u, s)
         IN /\ n \in 1 .. u - l
            /\ s = 1 => n = u - l
            /\ \A i \in 1 .. n : l + (i - 1) * s < u
            /\ (l + (n - 1) * s) + s >= u
<1> DEFINE x == u - 1 - l
           q == x \div s
           r == x % s
<1>1. x \in Nat /\ Count(l, u, s) = q + 1
  BY DEF Count
<1>2. q \in Nat /\ q <= x /\ r \in 0 .. s - 1 /\ x = s * q + r
  <2> HIDE DEF x
  <2> QED
    BY <1>1
<1>3. u = l + 1 + x
  OBVIOUS
<1>4. s = 1 => q = x
  <2> HIDE DEF x
  <2> QED
    BY <1>1
<1> HIDE DEF x, q, r
<1>5. ASSUME NEW i \in 1 .. q + 1 PROVE l + (i - 1) * s < u
  <2>1. (i - 1) * s <= q * s
    <3>1. ASSUME NEW a \in Nat, NEW b \in Nat, a <= b PROVE a * s <= b * s
      BY <3>1
    <3>2. i - 1 \in Nat /\ i - 1 <= q
      BY <1>2
    <3> QED
      BY <1>2, <3>1, <3>2
  <2>2. q * s <= x
    BY <1>1, <1>2
  <2>3. (i - 1) * s \in Int /\ q * s \in Int
    BY <1>2
  <2> QED
    BY <1>1, <1>3, <2>1, <2>2, <2>3
<1>6. (l + q * s) + s >= u
  BY <1>1, <1>2, <1>3
<1> QED
  BY <1>1, <1>2, <1>3, <1>4, <1>5, <1>6

\* A range that comes to its end has the values that its length says, whatever
\* its bounds and its stride and however many bits they have, and its last value
\* has the index -1 (Range::values, Range::length).
THEOREM RangesHold ==
  \A l, u, s \in IntegerValues :
    LET r == RangeOf(l, u, s)
        v == values(r)
    IN /\ HoldsItsLength(r)
       /\ Ends(r) /\ u - l <= Greatest /\ v # <<>> =>
            ItemAt(Elements(r), -1) = Integer(v[Len(v)])
<1> SUFFICES ASSUME NEW l \in IntegerValues, NEW u \in IntegerValues, NEW s \in IntegerValues
             PROVE  LET r == RangeOf(l, u, s)
                        v == values(r)
                    IN /\ HoldsItsLength(r)
                       /\ Ends(r) /\ u - l <= Greatest /\ v # <<>> =>
                            ItemAt(Elements(r), -1) = Integer(v[Len(v)])
  OBVIOUS
<1> DEFINE r == RangeOf(l, u, s)
           v == values(r)
           n == length(r)
<1>1. l \in Int /\ u \in Int /\ s \in Int /\ Greatest \in Nat /\ Least \in Int
      /\ Least = -Greatest - 1
  BY Sizes DEF IntegerValues
<1>2. r.items[1].number = l /\ r.items[2].number = u /\ r.items[3].number = s
  BY RangeFacts
<1>3. n = IF l >= u THEN 0 ELSE Wrapped(IF s = 1 THEN u - l ELSE Len(v))
  <2> HIDE DEF r
  <2> QED
    BY <1>2 DEF length
<1>4. Ends(r) => l >= u \/ s > 0
  <2> HIDE DEF r
  <2> QED
    BY <1>2 DEF Ends
<1>5. HoldsItsLength(r) <=>
        (Ends(r) /\ u - l <= Greatest =>
           /\ Len(v) = n
           /\ \A i \in 1 .. n : v[i] = l + (i - 1) * s /\ v[i] < u
           /\ n > 0 => v[n] + s >= u)
  <2> HIDE DEF r
  <2> QED
    BY <1>2 DEF HoldsItsLength
<1> SUFFICES ASSUME Ends(r), u - l <= Greatest
             PROVE  /\ Len(v) = n
                    /\ \A i \in 1 .. n : v[i] = l + (i - 1) * s /\ v[i] < u
                    /\ n > 0 => v[n] + s >= u
                    /\ v # <<>> => ItemAt(Elements(r), -1) = Integer(v[Len(v)])
  BY <1>5
<1>6. CASE l >= u
  <2>1. v = <<>> /\ n = 0
    BY <1>3, <1>6, ValuesOfRange
  <2> HIDE DEF r, v, n
  <2> QED
    BY <2>1
<1>7. CASE ~(l >= u)
  <2> DEFINE c == Count(l, u, s)
  <2>1. s \in Nat \ {0} /\ l < u
    BY <1>1, <1>4, <1>7
  <2>2. c \in 1 .. u - l /\ (s = 1 => c = u - l)
        /\ (\A i \in 1 .. c : l + (i - 1) * s < u) /\ (l + (c - 1) * s) + s >= u
    BY <1>1, <2>1, CountOfRange
  <2>3. v = [i \in 1 .. c |-> l + (i - 1) * s]
    BY <2>1, ValuesOfRange DEF From
  <2> HIDE DEF r, v, n, c
  <2>4. v \in Seq(Int) /\ Len(v) = c
    BY <1>1, <2>2, <2>3
  <2>5. n = c
    <3>1. c \in IntegerValues /\ (s = 1 => u - l = c)
      BY <1>1, <2>2 DEF IntegerValues
    <3>2. n = Wrapped(c)
      BY <1>3, <1>7, <2>4, <3>1
    <3> QED
      BY <3>1, <3>2, Wrapping
  <2>6. \A i \in 1 .. n : v[i] = l + (i - 1) * s /\ v[i] < u
    BY <2>2, <2>3, <2>5
  <2>7. v[n] + s >= u
    BY <2>2, <2>5, <2>6
  <2>8. ItemAt(Elements(r), -1) = Integer(v[n])
    <3> DEFINE items == Elements(r)
    <3>1. items = [j \in 1 .. n |-> Integer(v[j])]
      BY DEF Elements, n, v
    <3> HIDE DEF items
    <3>2. items \in Seq({Integer(m) : m \in Int}) /\ Len(items) = n /\ items # <<>>
      BY <1>1, <2>2, <2>4, <2>5, <3>1
    <3>3. -1 \in IntegerValues
      BY <1>1 DEF IntegerValues
    <3>4. ItemAt(items, -1) = Meant(items, -1)
      BY <3>2, <3>3, IndicesCountFromTheEnd
    <3>5. (-1) % n = n - 1
      <4>1. -1 = n * (-1) + (n - 1) /\ n - 1 \in 0 .. n - 1 /\ n \in Nat \ {0}
        BY <1>1, <2>2, <2>5
      <4> QED
        BY <4>1, OneRemainder
    <3>6. Meant(items, -1) = items[n]
      BY <1>1, <2>2, <2>5, <3>2, <3>5 DEF Meant
    <3> QED
      BY <1>1, <2>2, <2>5, <3>1, <3>4, <3>6 DEF items
  <2> QED
    BY <2>4, <2>5, <2>6, <2>7, <2>8
<1> QED
  BY <1>6, <1>7
=============================================================================
