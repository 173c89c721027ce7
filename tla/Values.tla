------------------------------- MODULE Values -------------------------------
(***************************************************************************)
(* The values of the language and the operators on them: src/interp/       *)
(* Object.h, Object.cpp, the eq and hash functions of builtin/*.cpp, and   *)
(* the operators and subscripts of Evaluator.cpp.                          *)
(*                                                                         *)
(* Numbers says what a value and an Integer are.  A Double is a whole      *)
(* number here, an infinity or NaN: rounding and the sign of a zero are    *)
(* left out.  The items of a String are its characters, of a Dictionary    *)
(* its keys, each followed by its value, in the order in which the map     *)
(* iterates.  Values have no identity: that Equal takes an object for      *)
(* itself matters to dictionaries and NaN only, of which no program here   *)
(* puts the former into a set twice and the latter into any.               *)
(***************************************************************************)
EXTENDS Numbers, SequencesExt

Double(n)        == Object("Double", n, <<>>)
Boolean(b)       == Object("Boolean", IF b THEN 1 ELSE 0, <<>>)
Char(n)          == Object("Char", n, <<>>)
String(chars)    == Object("String", 0, chars)
Array(items)     == Object("Array", 0, items)
Null             == Object("Null", 0, <<>>)

True == Boolean(TRUE)

\* No finite double of a program is as large; what is larger still is NaN.
Infinity  == 2 ^ (4 * Width)
NaN       == Double(Infinity + 1)
Finite(n) == Magnitude(n) < Infinity
IsNaN(v)  == v.type = "Double" /\ Magnitude(v.number) > Infinity

\* What a loop over steps that return a Boolean comes to that is left at the
\* first that is not true.
AllTrue(results) ==
  LET others == {i \in DOMAIN results : results[i] # True}
  IN IF others = {} THEN True ELSE results[CHOOSE i \in others : \A j \in others : i <= j]

-----------------------------------------------------------------------------
\* Hashing and the equality that dictionaries and sets look values up by.

Scalars == {"Null", "Integer", "Double", "Boolean", "Char", "String"}

RECURSIVE hashAble(_)
hashAble(v) ==
  \/ v.type \in Scalars
  \/ /\ v.type \in {"Array", "Dictionary", "Set"}
     /\ v.frozen
     /\ \A i \in DOMAIN v.items : hashAble(v.items[i])

\* A hash is the set of the bits of the number that it is; the hash of a
\* double or string that is not zero is a bit of its own.
Bits(n) == {b \in 0 .. Width - 1 : ((n % 2 ^ Width) \div 2 ^ b) % 2 = 1}
Xor(a, b) == (a \ b) \cup (b \ a)

RECURSIVE hash(_)
hash(v) ==
  CASE v.type \in {"Integer", "Boolean", "Char"} -> Bits(v.number)
    [] v.type = "Double" -> IF v.number = 0 THEN {} ELSE {1000 + v.number}
    [] v.type = "String" ->
         {2000 + FoldLeft(LAMBDA code, c : 10 * code + c.number, 0, v.items)}
    [] OTHER -> FoldLeft(LAMBDA h, item : Xor(h, hash(item)), {}, v.items)

RECURSIVE eq(_, _), find(_, _, _)

\* A mutant: values of two types may be found as each other.
findOfAnyType(items, keys, k) ==
  {i \in keys : hash(items[i]) = hash(k) /\ eq(items[i], k) = True}
\* The positions, among some, of items that are found as k; the lookup of what
\* cannot be hashed throws.
find(items, keys, k) ==
  {i \in keys : /\ hash(items[i]) = hash(k)
                /\ items[i].type = k.type /\ eq(items[i], k) = True}

Keys(dict) == {i \in DOMAIN dict.items : i % 2 = 1}

\* eq() of two objects of the same type.  NaN is equal to nothing, nor is an
\* array of doubles that holds it.  Dictionary::eq looks for the values of one
\* among the keys of the other.
eq(v, w) ==
  LET Same(i)  == IF v.items[i].type # w.items[i].type THEN Boolean(FALSE)
                                                        ELSE eq(v.items[i], w.items[i])
      FoundValue(i) ==
        LET value == v.items[2 * i]
            found == find(w.items, Keys(w), value)
        IN IF ~hashAble(value) THEN Crash
           ELSE IF found = {} THEN Boolean(FALSE)
           ELSE LET other == w.items[1 + CHOOSE j \in found : TRUE]
                IN IF other.type # value.type THEN Boolean(FALSE) ELSE eq(other, value)
      Found(i) == IF hashAble(v.items[i])
                    THEN Boolean(find(w.items, DOMAIN w.items, v.items[i]) # {}) ELSE Crash
  IN CASE v.type \in Scalars \cup {"Range", "ArrayDouble"} ->
            Boolean(v.number = w.number /\ v.items = w.items
                    /\ ~IsNaN(v) /\ \A i \in DOMAIN v.items : ~IsNaN(v.items[i]))
       [] ~(v.type \in {"Array", "Dictionary", "Set"} /\ w.type = v.type) -> Boolean(FALSE)
       [] Len(v.items) # Len(w.items) -> Boolean(FALSE)
       [] v.type = "Array" -> AllTrue([i \in DOMAIN v.items |-> Same(i)])
       [] v.type = "Dictionary" ->
            AllTrue([i \in 1 .. Len(v.items) \div 2 |-> FoundValue(i)])
       [] v.type = "Set" -> AllTrue([i \in DOMAIN v.items |-> Found(i)])

-----------------------------------------------------------------------------
\* Subscripts.

\* The item of a sequence at an index, or an object of the items at the indices
\* of a range.
At(items, index, type) ==
  CASE items = <<>> -> Error
    [] index.type = "Integer" -> ItemAt(items, index.number)
    [] index.type # "Range" -> Error
    [] ~Ends(index) -> Endless
    [] \E j \in DOMAIN values(index) : ~IsInside(items, values(index)[j]) -> Error
    [] OTHER -> Object(type, 0, [j \in DOMAIN values(index) |-> ItemAt(items, values(index)[j])])

\* The lookup of what cannot be hashed throws, unless the dictionary is empty.
evalIndexExpression(index, v) ==
  LET found == find(v.items, Keys(v), index)
  IN CASE Fails(index) -> index
       [] Fails(v) -> v
       [] v.type = "Array" -> At(v.items, index, "Array")
       [] v.type = "ArrayDouble" -> At(v.items, index, "ArrayDouble")
       [] v.type = "String" ->
            LET c == At(v.items, index, "String")
            IN IF c.type = "Char" THEN String(<<c>>) ELSE c
       [] v.type = "Range" ->
            IF ~Ends(v) THEN Endless
            ELSE At(Elements(v), index, "Array")
       [] v.type = "Dictionary" ->
            CASE v.items = <<>>   -> Error
              [] ~hashAble(index) -> Crash
              [] found = {}       -> Error
              [] OTHER            -> v.items[1 + CHOOSE i \in found : TRUE]
       [] OTHER -> Error
=============================================================================
