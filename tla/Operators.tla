------------------------------ MODULE Operators ------------------------------
(***************************************************************************)
(* The prefix and infix operators of src/interp/Evaluator.cpp on values    *)
(* that have been evaluated.                                               *)
(***************************************************************************)
EXTENDS Values

isTruthy(v) == IF v.type \in {"Null", "Boolean", "Integer"} THEN v.number # 0 ELSE TRUE

\* The bang of an Integer is whether it is not zero.
evalPrefixExpression(operator, v) ==
  CASE Fails(v) -> v
    [] operator = "!" /\ v.type = "Integer" -> Boolean(v.number # 0)
    [] operator = "!" /\ v.type \in {"Boolean", "Null"} -> Boolean(v.number = 0)
    [] operator = "-" /\ v.type = "Integer" -> Integer(-v.number)
    [] operator = "-" /\ v.type = "Double"  -> Double(-v.number)
    [] OTHER -> Error

-----------------------------------------------------------------------------
pow_int(x, p) ==
  LET power[n \in 0 .. p] ==
        CASE n = 0 -> 1
          [] n = 1 -> x
          [] OTHER -> LET half == power[n \div 2]
                      IN Wrapped((IF n % 2 = 0 THEN 1 ELSE x) * Wrapped(half * half))
  IN IF p < 0 THEN 0 ELSE power[p]

Order == {"<", "<=", ">", ">="}
Compare(operator, less, equal) ==
  Boolean(CASE operator = "<" -> less  [] operator = "<=" -> less \/ equal
            [] operator = ">" -> ~less /\ ~equal [] operator = ">=" -> ~less
            [] operator = "==" -> equal [] operator = "!=" -> ~equal)
Comparisons == Order \cup {"==", "!="}

evalIntegerInfixOperator(operator, a, b) ==
  CASE operator = "+"  -> Integer(a + b)
    [] operator = "-"  -> Integer(a - b)
    [] operator = "*"  -> Integer(a * b)
    [] operator = "/"  -> Divided(a, b)
    [] operator = "%"  -> Remainder(a, b)
    [] operator = "**" -> Integer(pow_int(a, b))
    [] operator \in Comparisons -> Compare(operator, a < b, a = b)
    [] OTHER -> Error

\* Infinities absorb what is finite, two of them may have no result, and nothing
\* but != is true of NaN.
SignedInfinity(a, b) == Double(IF (a < 0) = (b < 0) THEN Infinity ELSE -Infinity)
DoubleSum(a, b) ==
  CASE Finite(a) /\ Finite(b) -> Double(a + b)
    [] ~Finite(a) /\ ~Finite(b) /\ a # b -> NaN
    [] OTHER -> Double(IF Finite(a) THEN b ELSE a)
DoubleProduct(a, b) ==
  CASE Finite(a) /\ Finite(b) -> Double(a * b)
    [] a = 0 \/ b = 0 -> NaN
    [] OTHER -> SignedInfinity(a, b)
DoubleQuotient(a, b) ==
  CASE (a = 0 /\ b = 0) \/ ~(Finite(a) \/ Finite(b)) -> NaN
    [] b = 0 \/ ~Finite(a) -> SignedInfinity(a, b)
    [] OTHER -> Double(Quotient(a, b))
evalDoubleInfixOperator(operator, v, w) ==
  LET a == v.number
      b == w.number
      unordered == IsNaN(v) \/ IsNaN(w)
  IN CASE operator \in Comparisons ->
            IF unordered THEN Boolean(operator = "!=") ELSE Compare(operator, a < b, a = b)
       [] operator \notin {"+", "-", "*", "/"} -> Error
       [] unordered -> NaN
       [] operator = "+" -> DoubleSum(a, b)
       [] operator = "-" -> DoubleSum(a, -b)
       [] operator = "*" -> DoubleProduct(a, b)
       [] operator = "/" -> DoubleQuotient(a, b)

StringLess(s, t) ==
  \/ IsStrictPrefix(s, t)
  \/ \E i \in DOMAIN s \cap DOMAIN t :
       /\ SubSeq(s, 1, i - 1) = SubSeq(t, 1, i - 1)
       /\ s[i].number < t[i].number

evalStringInfixOperator(operator, s, t) ==
  CASE operator = "+" -> String(s \o t)
    [] operator \in Comparisons -> Compare(operator, StringLess(s, t), s = t)
    [] OTHER -> Error

evalBoolInfixOperator(operator, a, b) ==
  CASE operator = "||" -> Boolean(a \/ b)
    [] operator = "&&" -> Boolean(a /\ b)
    [] operator = "==" -> Boolean(a = b)
    [] operator = "!=" -> Boolean(a # b)
    [] OTHER -> Error

-----------------------------------------------------------------------------
RECURSIVE evalInfixOperator(_, _, _)

\* The comparison of two elements or values, which counts as false when it is
\* no Boolean.
Same(v, w) == LET r == evalInfixOperator("==", v, w)
              IN IF r.type = "Boolean" \/ Stops(r) THEN r ELSE Boolean(FALSE)
SameItem(v, w) == IF v.type # w.type THEN Boolean(FALSE) ELSE Same(v, w)

\* A mutant: the lengths are not compared.
arrayEqOfPrefix(s, t) ==
  AllTrue([i \in DOMAIN s |-> IF i \in DOMAIN t THEN SameItem(s[i], t[i]) ELSE Boolean(FALSE)])
arrayEq(s, t) == IF Len(s) # Len(t) THEN Boolean(FALSE)
                 ELSE AllTrue([i \in DOMAIN s |-> SameItem(s[i], t[i])])

\* The comparison with a value of another type: the length of what is no array
\* throws.
Arrays == {"Array", "ArrayDouble"}
arrayLikeEq(v, w) == CASE w.type = "Null" -> Boolean(FALSE)
                       [] v.type \in Arrays /\ w.type \in Arrays -> arrayEq(v.items, w.items)
                       [] OTHER -> Crash

dictEq(v, w) ==
  LET SameAt(i) ==
        LET key == v.items[2 * i - 1]
            found == find(w.items, Keys(w), key)
        IN IF ~hashAble(key) THEN Crash
           ELSE IF found = {} THEN Boolean(FALSE)
           ELSE Same(v.items[2 * i], w.items[1 + CHOOSE j \in found : TRUE])
  IN IF Len(v.items) # Len(w.items) THEN Boolean(FALSE)
     ELSE AllTrue([i \in 1 .. Len(v.items) \div 2 |-> SameAt(i)])

setEq(v, w) == eq(v, w)

\* == and != of two values of which the left is a container; all other
\* operators are errors.
Equality(operator, result) ==
  CASE operator = "==" \/ Stops(result) -> result
    [] operator = "!=" -> Boolean(result # True)

evalInfixOperator(operator, v, w) ==
  LET Of(result) == IF operator \in {"==", "!="} THEN Equality(operator, result) ELSE Error
      same == v.type = w.type
  IN CASE same /\ v.type = "Integer" -> evalIntegerInfixOperator(operator, v.number, w.number)
       [] same /\ v.type = "Double"  -> evalDoubleInfixOperator(operator, v, w)
       [] same /\ v.type = "String"  -> evalStringInfixOperator(operator, v.items, w.items)
       [] same /\ v.type = "Boolean" -> evalBoolInfixOperator(operator, v.number = 1, w.number = 1)
       [] same /\ v.type = "Null"    -> Of(True)
       [] same /\ v.type = "Array"   -> Of(arrayEq(v.items, w.items))
       [] same /\ v.type = "Set"     -> Of(setEq(v, w))
       [] same /\ v.type = "Dictionary" -> Of(dictEq(v, w))
       [] same /\ v.type \in {"Range", "ArrayDouble"} -> Of(eq(v, w))
       [] ~same /\ v.type \in {"Array", "ArrayDouble", "Dictionary"} -> Of(arrayLikeEq(v, w))
       [] OTHER -> Error
=============================================================================
