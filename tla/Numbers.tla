------------------------------ MODULE Numbers ------------------------------
(***************************************************************************)
(* The integers of the language, their division, the ranges over them and  *)
(* the subscripts by them: src/interp/Object.h, Object.cpp and             *)
(* Evaluator.cpp.                                                          *)
(*                                                                         *)
(* A value has the type of its object, a number and items.  An Integer has *)
(* Width bits.  The items of a Range are its lower and upper bound and its *)
(* stride.                                                                 *)
(*                                                                         *)
(* Two values stand for what C++ does not return from: Crash, a trap or a  *)
(* C++ exception, and Endless, a loop without an end.                      *)
(***************************************************************************)
EXTENDS Integers, Sequences

CONSTANT Width          \* the bits of an Integer, 64 in the code

ASSUME WidthAssumption == Width \in Nat \ {0}

Object(type, number, items) ==
  [type |-> type, number |-> number, items |-> items, frozen |-> FALSE]

\* How many numbers so many bits tell apart.
TwoTo[bits \in 0 .. Width] == IF bits = 0 THEN 1 ELSE 2 * TwoTo[bits - 1]

Greatest == TwoTo[Width - 1] - 1
Least    == -Greatest - 1
\* The number that is left of one in the bits of an Integer.
Wrapped(n) == ((n - Least) % TwoTo[Width]) + Least

Integer(n)       == Object("Integer", Wrapped(n), <<>>)
RangeOf(l, u, s) == Object("Range", 0, <<Integer(l), Integer(u), Integer(s)>>)
Error            == Object("Error", 0, <<>>)
Crash            == Object("Crash", 0, <<>>)
Endless          == Object("Endless", 0, <<>>)

Stops(v) == v.type \in {"Crash", "Endless"}
Fails(v) == v.type = "Error" \/ Stops(v)

-----------------------------------------------------------------------------
\* Division rounds to zero.
Magnitude(n) == IF n < 0 THEN -n ELSE n
Quotient(a, b) == LET q == Magnitude(a) \div Magnitude(b) IN IF (a < 0) = (b < 0) THEN q ELSE -q

\* The least Integer divided by minus one is out of range and traps as the
\* division by zero does, which only the quotient asks for.
Traps(a, b) == b = 0 \/ (a = Least /\ b = -1)
Divided(a, b) == IF b = 0 THEN Error
                 ELSE IF Traps(a, b) THEN Crash ELSE Integer(Quotient(a, b))

\* A mutant: the remainder is never negative.
RemainderEuclid(a, b) == IF b = 0 THEN Crash ELSE Integer(a % Magnitude(b))
Remainder(a, b) == IF Traps(a, b) THEN Crash ELSE Integer(a - b * Quotient(a, b))

-----------------------------------------------------------------------------
\* Ranges.

\* A range comes to its end unless its stride keeps it from it or carries it
\* past the greatest Integer, which is undefined and counted as endless here.
Ends(r) == LET l == r.items[1].number  u == r.items[2].number  s == r.items[3].number
           IN l >= u \/ (s > 0 /\ u - 1 - ((u - 1 - l) % s) + s <= Greatest)

values(r) ==
  LET l == r.items[1].number  u == r.items[2].number  s == r.items[3].number
      v[i \in Int] == IF i < u THEN <<i>> \o v[i + s] ELSE <<>>
  IN IF l < u THEN v[l] ELSE <<>>

\* A mutant: the last, shorter stride does not count.
lengthInStrides(r) ==
  LET l == r.items[1].number  u == r.items[2].number
  IN IF l >= u THEN 0 ELSE (u - l) \div r.items[3].number
length(r) ==
  LET l == r.items[1].number  u == r.items[2].number
  IN IF l >= u THEN 0 ELSE Wrapped(IF r.items[3].number = 1 THEN u - l ELSE Len(values(r)))

\* The Integers of a range that a subscript is applied to.  That the code casts
\* sizes to int is left out: no sequence here is longer than an int counts.
Elements(r) == [j \in 1 .. length(r) |-> Integer(values(r)[j])]

-----------------------------------------------------------------------------
\* Subscripts.

\* A mutant: a negative index is subtracted once.
indexFromEndOnce(i, n) ==
  IF i < 0 /\ n > 0 THEN (n + i) % TwoTo[Width] ELSE i % TwoTo[Width]
\* size_t is an Integer without a sign: abs(Least) is Least, which is its
\* opposite there.
normalizedArrayIndex(i, n) ==
  IF i < 0 /\ n > 0 THEN (n - ((-i) % n)) % n ELSE i % TwoTo[Width]

IsInside(items, i) == normalizedArrayIndex(i, Len(items)) < Len(items)
ItemAt(items, i) ==
  IF IsInside(items, i) THEN items[normalizedArrayIndex(i, Len(items)) + 1] ELSE Error

-----------------------------------------------------------------------------
\* What these should come to.

\* Quotient and remainder belong together: whenever both are had, they give the
\* dividend back and the remainder is the smaller; where the remainder traps, the
\* quotient is an error or traps too (evalIntegerInfixOperator).
BelongTogether(a, b, quotient, remainder) ==
  /\ remainder = Crash <=> Fails(quotient)
  /\ remainder # Crash => /\ quotient.number * b + remainder.number = a
                          /\ Magnitude(remainder.number) < Magnitude(b)

\* The item that an index means: a negative one counts from the end, any number
\* of times around, down to the least Integer, and only what is past the end is an
\* error (normalizedArrayIndex).
Meant(items, i) == IF i >= Len(items) THEN Error ELSE items[(i % Len(items)) + 1]

\* A range that comes to its end has as many values as it says, each a stride
\* after the one before it and inside the bounds, and no room for one more
\* (Range::length and Range::values).  Ranges that have more values than an
\* Integer counts are left out.
HoldsItsLength(r) ==
  LET lower == r.items[1].number  upper == r.items[2].number  stride == r.items[3].number
      v == values(r)
      n == length(r)
  IN Ends(r) /\ upper - lower <= Greatest =>
       /\ Len(v) = n
       /\ \A i \in 1 .. n : v[i] = lower + (i - 1) * stride /\ v[i] < upper
       /\ n > 0 => v[n] + stride >= upper
=============================================================================
