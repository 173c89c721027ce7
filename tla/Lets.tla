-------------------------------- MODULE Lets --------------------------------
(***************************************************************************)
(* A program of let statements: the static analysis (Analyze.cpp) reports  *)
(* a type for each of them, and the interpreter evaluates one after the    *)
(* other until one fails.                                                  *)
(***************************************************************************)
EXTENDS Evaluation

CONSTANT Programs            \* sequences of let statements

VARIABLES program,
          reported,          \* the types that the analysis has reported
          context,           \* of the analysis
          env,               \* of the interpreter
          evaluated,         \* the statements it has evaluated
          value              \* of the last of them

vars == <<program, reported, context, env, evaluated, value>>

Init == /\ program \in Programs
        /\ reported = <<>>
        /\ context = <<EmptyScope>>
        /\ env = <<EmptyScope>>
        /\ evaluated = 0
        /\ value = Unset

Analyze == /\ Len(reported) < Len(program)
           /\ \E analysis \in {analyzeLet(program[Len(reported) + 1], context)} :
                /\ reported' = Append(reported, analysis.reported)
                /\ context' = analysis.context
           /\ UNCHANGED <<program, env, evaluated, value>>

Evaluate == /\ Len(reported) = Len(program)
            /\ evaluated < Len(program) /\ ~Fails(value)
            /\ \E result \in {evalLetStatement(program[evaluated + 1], env)} :
                 value' = result.value /\ env' = result.env
            /\ evaluated' = evaluated + 1
            /\ UNCHANGED <<program, reported, context>>

Next == Analyze \/ Evaluate

Spec == Init /\ [][Next]_vars
-----------------------------------------------------------------------------
Names  == DOMAIN env[1]
Bound  == {env[1][n] : n \in Names}          \* the values that have a name

RECURSIVE Below(_), Inside(_)
Below(node) == {node} \cup UNION {Below(node.children[i]) : i \in DOMAIN node.children}
Inside(v) == {v} \cup IF v.type = "Function" THEN {}
                      ELSE UNION {Inside(v.items[i]) : i \in DOMAIN v.items}

-----------------------------------------------------------------------------
\* The static analysis.

\* An expression of which the analysis knows every part.  What it does not
\* know of an element adds nothing to the type of the array; the last statement
\* of a function counts as null when it is an if, and names of the alternative
\* of an if are entered around it.
Parts(node) == {node} \cup IF node.type \in {"IfExpression", "FunctionLiteral"} THEN {}
                           ELSE {node.children[i] : i \in DOMAIN node.children}
KnownIn(node, c) == \A part \in Parts(node) : computeType(part, c) # Nil
KnownBody(literal) ==
  /\ \A i \in DOMAIN ArgumentsOf(literal) : ArgumentsOf(literal)[i].children[1] # Nil
  /\ ~\E s \in Below(literal.children[2]) : s.type = "PrefixExpression"
  /\ literal.children[2].children # <<>>
  /\ Last(literal.children[2].children).children[1].type # "IfExpression"
  /\ \A e \in Below(literal.children[2]) :
        e.type = "IfExpression" /\ e.children[3] # Nil =>
          \A s \in Below(e.children[3]) : s.type # "LetStatement"
Known(i) ==
  LET e == program[i].children[3]
  IN IF e.type = "FunctionLiteral" THEN KnownBody(e)
     ELSE \A part \in Below(e) : KnownIn(part, context)
AllKnownUpTo(i) == \A j \in 1 .. i : Known(j)

\* A value that a let statement gets is of the type that the analysis reports
\* for the statement, whatever operators, subscripts and calls it comes from, if
\* the analysis knows the type of every part (computeType in Typing.cpp).  The
\* types of functions, which are compared as they are declared, are left out.
StaticTypeHolds ==
  \A i \in 1 .. evaluated :
    LET name == program[i].children[1].literal
        first == \A j \in 1 .. i - 1 : program[j].children[1].literal # name
    IN name \in Names /\ first /\ AllKnownUpTo(i)
       => \/ env[1][name].type = "Error"
          \/ \E v \in Inside(env[1][name]) : v.type = "Function"
          \/ isCompatible(reported[i], env[1][name])

\* The types that are reported and their choices.
ReportedTypes == {reported[i] : i \in DOMAIN reported}
Sets(t) == t # Nil /\ ~\E part \in Below(t) : part.type \in {"TypeAny", "TypeSet", "TypeFunction", "Nil"}
Values == UNION {Inside(w) : w \in Bound}
AllowedAsSets(s, t, either, subset) == either = s \cup t /\ (subset => s \subseteq t)

\* A value without functions of which no two elements, keys or values have types
\* that the map of their types takes for one.
Beside(v, i, j) == i < j /\ (v.type = "Dictionary" => i % 2 = j % 2)
Apart(s, t) == CompareTypes(s, t) \/ CompareTypes(t, s)
Ordered(v) ==
  \A w \in Inside(v) :
    /\ w.type \notin {"Function", "Char"}
    /\ w.type \in {"Array", "Dictionary", "Set"} =>
         \A i, j \in DOMAIN w.items : Beside(w, i, j) =>
           \A s \in computedTypes(w.items[i]), t \in computedTypes(w.items[j]) : Apart(s, t)

\* Types describe sets of values: a merged type allows what either of two types
\* allows, [double] aside, which an array of doubles only fits where it stands by
\* itself, what is compatible with a type is a subset of it, and the type that is
\* computed for a value allows it (mergeTypes, isCompatibleType and computeType
\* of an object in Typing.cpp).
AllowedBy(t) == {v \in Values : v.type # "ArrayDouble" /\ isCompatible(t, v)}
TypesAreSets ==
  /\ \A s, t \in {u \in ReportedTypes : Sets(u)} :
       AllowedAsSets(AllowedBy(s), AllowedBy(t), AllowedBy(mergeTypes(s, t)),
                     isCompatibleType(s, t) = "true")
  /\ \A v \in {w \in Values : Ordered(w)} : \A t \in computedTypes(v) : isCompatible(t, v)

-----------------------------------------------------------------------------
\* Equality and subscripts.

HasDictionary(v) == \E w \in Inside(v) : w.type = "Dictionary"
\* Functions and errors have no == and NaN is not equal to itself, so neither is
\* an array that holds one, and sets that hold dictionaries differ by what
\* KeysAreFoundByEquality says.
Comparable(v) == \A u \in Inside(v) : /\ u.type \notin {"Function", "Error"}
                                     /\ ~IsNaN(u) /\ ~(u.type = "Set" /\ HasDictionary(u))
Equals(v, w) == evalInfixOperator("==", v, w) = True

\* == is an equivalence wherever it has an answer, and != is its opposite.
AnswersAgree(u, v, w, eqs) ==
  LET Answered(a, b) == Comparable(a) /\ eqs["==", a, b].type = "Boolean"
      Equal(a, b)    == eqs["==", a, b] = True
  IN /\ Answered(v, v) => Equal(v, v)
     /\ Answered(v, w) => eqs["!=", v, w] = Boolean(~Equal(v, w))
     /\ Answered(v, w) /\ Answered(w, v) => (Equal(v, w) <=> Equal(w, v))
     /\ Equal(u, v) /\ Equal(v, w) => Equal(u, w)
EqualityIsEquivalence ==
  \A u, v, w \in Bound :
    AnswersAgree(u, v, w, [operator \in {"==", "!="}, a \in {u, v, w}, b \in {u, v, w} |->
                             evalInfixOperator(operator, a, b)])

FoundAs(v, w) == find(<<v>>, {1}, w) # {}
\* What can be a key is found in a dictionary or set by each other object that is
\* equal to it, and by no other (Hash and Equal in Object.h), dictionaries apart:
\* Dictionary::eq looks the other one's values up where it means its keys.
KeysAreFoundByEquality ==
  \A v, w \in Bound : /\ hashAble(v) /\ hashAble(w)
                      /\ ~HasDictionary(v) /\ ~HasDictionary(w)
                      => (FoundAs(v, w) <=> Equals(v, w))

\* A negative index counts from the end of an array as Meant says, down to the
\* least Integer.
IndexCountsFromTheEnd ==
  \A v \in Bound : v.type = "Array" /\ v.items # <<>> =>
    \A i \in Least .. Greatest : evalIndexExpression(Integer(i), v) = Meant(v.items, i)

-----------------------------------------------------------------------------
\* Integers.

\* The results of / and % belong together as BelongTogether says.
QuotientAndRemainder ==
  \A v, w \in {u \in Bound : u.type = "Integer"} :
    BelongTogether(v.number, w.number, evalInfixOperator("/", v, w), evalInfixOperator("%", v, w))

\* A range holds its length as HoldsItsLength says, and its last value has the
\* index -1.
RangesHoldTheirLength ==
  \A r \in {u \in Bound : u.type = "Range"} :
    /\ HoldsItsLength(r)
    /\ Ends(r) /\ r.items[2].number - r.items[1].number <= Greatest /\ values(r) # <<>> =>
         evalIndexExpression(Integer(-1), r) = Integer(Last(values(r)))
=============================================================================
