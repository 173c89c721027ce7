------------------------------- MODULE Typing -------------------------------
(***************************************************************************)
(* The types that src/interp/Typing.cpp computes for expressions and for   *)
(* objects, and when a type or an object is compatible with a type.        *)
(*                                                                         *)
(* A type is a node of the syntax tree; Nil is the type that is not known. *)
(* The types of a scope are a function from names; a context is the        *)
(* sequence of the scopes, the innermost last.  User types are left out.   *)
(***************************************************************************)
EXTENDS Ast, Operators

Named(name) == Node("TypeIdentifier", name, <<>>)
TypeAll     == Node("TypeAll", "", <<>>)
TypeNull    == Node("TypeNull", "", <<>>)
TypeArray(t)         == Node("TypeArray", "", <<t>>)
TypeSet(t)           == Node("TypeSet", "", <<t>>)
TypeDictionary(k, v) == Node("TypeDictionary", "", <<k, v>>)
TypeChoice(choices)  == Node("TypeChoice", "", choices)

\* A type as it is printed, where the type null and a type named null agree.
LiteralsOf(tokens) == [i \in DOMAIN tokens |-> tokens[i].literal]
Printed(t) == LiteralsOf(Text(t))

-----------------------------------------------------------------------------
\* Choices of types.

\* The words of types in the order of their characters.
Words == <<"(", ")", ",", "->", ":", "<", ">", "[", "]", "all", "any", "bool", "complex",
           "double", "error", "fn", "int", "null", "range", "str", "unknown", "{", "}">>
Rank(word) == CHOOSE i \in DOMAIN Words : Words[i] = word

WordsLess(s, t) ==
  \/ IsStrictPrefix(s, t)
  \/ \E i \in DOMAIN s \cap DOMAIN t :
       /\ SubSeq(s, 1, i - 1) = SubSeq(t, 1, i - 1)
       /\ Rank(s[i]) < Rank(t[i])

\* Types of different kinds are not ordered.
CompareTypes(a, b) == a.type = b.type /\ WordsLess(Printed(a), Printed(b))

\* std::sort puts each of a few elements behind the last one before it that is
\* not greater, or in front when it is less than the first.
makeCanonical(choices) ==
  LET Behind(sorted, before) == IF 1 \notin before THEN 1
                                ELSE 1 + CHOOSE i \in before : \A j \in before : j <= i
      Insert(sorted, t) ==
        InsertAt(sorted, Behind(sorted, {i \in DOMAIN sorted : ~CompareTypes(t, sorted[i])}), t)
  IN FoldLeft(Insert, <<>>, choices)

\* The last choices take the place of the redundant ones.
RECURSIVE Without(_, _)
Without(choices, i) ==
  CASE i > Len(choices) -> choices
    [] \E j \in 1 .. i - 1 : Printed(choices[j]) = Printed(choices[i]) ->
         Without(Front([choices EXCEPT ![i] = Last(choices)]), i)
    [] OTHER -> Without(choices, i + 1)

removeRedundant(choices) == makeCanonical(Without(choices, 1))

\* A mutant: a choice takes no further types.
mergeTypesOnce(a, b) ==
  IF a = Nil THEN b
  ELSE IF b = Nil \/ Printed(a) = Printed(b) \/ a.type = "TypeChoice" THEN a
  ELSE TypeChoice(makeCanonical(<<a, b>>))
\* A type that is not known adds nothing.
mergeTypes(a, b) ==
  CASE a = Nil -> b
    [] b = Nil \/ Printed(a) = Printed(b) -> a
    [] a.type = "TypeChoice" ->
         TypeChoice(removeRedundant(
           a.children \o (IF b.type = "TypeChoice" THEN b.children ELSE <<b>>)))
    [] OTHER -> TypeChoice(makeCanonical(<<a, b>>))

Merged(types) == FoldLeft(mergeTypes, Nil, types)

-----------------------------------------------------------------------------
\* What a type says of the objects, and of the types, that are allowed.

ObjectTypeOf == [null |-> "Null", int |-> "Integer", double |-> "Double", bool |-> "Boolean",
                 str |-> "String", error |-> "Error", range |-> "Range"]

\* The first result that is not the given one ends a loop.
FirstBesides(results, one) ==
  LET others == {i \in DOMAIN results : results[i] # one}
  IN IF others = {} THEN one ELSE results[CHOOSE i \in others : \A j \in others : i <= j]

\* Odd or even items: the keys or values of a dictionary.
Every(items, parity) == {items[i] : i \in {j \in DOMAIN items : j % 2 = parity}}

RECURSIVE isCompatibleType(_, _), isCompatible(_, _)

\* isCompatibleType of two types, where type may be null: whether all that the
\* first allows is allowed by the second.  It throws where the second is a set
\* or a function, and follows the first when only that is null.
isCompatibleType(a, b) ==
  LET c == b.children
  IN CASE a = Nil -> IF b = Nil THEN "true" ELSE "crash"
       [] a.type = "TypeAny" -> "true"
       [] b = Nil -> "false"
       [] a.type = "TypeChoice" ->
            FirstBesides([i \in DOMAIN a.children |-> isCompatibleType(a.children[i], b)], "true")
       [] b.type = "TypeAll" -> "true"
       [] b.type = "TypeAny" -> IF a.type # "TypeAll" THEN "true" ELSE "false"
       [] b.type = "TypeChoice" ->
            FirstBesides([i \in DOMAIN c |-> isCompatibleType(a, c[i])], "false")
       [] b.type \notin {"TypeNull", "TypeIdentifier", "TypeArray", "TypeDictionary"} -> "crash"
       [] a.type # b.type \/ a.literal # b.literal -> "false"
       [] b.type = "TypeArray" -> isCompatibleType(a.children[1], c[1])
       [] b.type = "TypeDictionary" ->
            LET keys == isCompatibleType(a.children[1], c[1])
            IN IF keys # "true" THEN keys ELSE isCompatibleType(a.children[2], c[2])
       [] OTHER -> "true"

\* isCompatibleType of a type and an object, with no object that exists.  The
\* item of a Function is its literal, with the types of its result and of its
\* arguments.
isCompatible(t, v) ==
  LET c == t.children
  IN CASE t.type \in {"Nil", "TypeAll", "TypeAny"} -> TRUE
       [] t.type = "TypeNull" -> v.type = "Null"
       [] t.type = "TypeIdentifier" ->
            t.literal \in DOMAIN ObjectTypeOf /\ ObjectTypeOf[t.literal] = v.type
       [] t.type = "TypeChoice" -> \E i \in DOMAIN c : isCompatible(c[i], v)
       [] t.type = "TypeArray" ->
            \/ v.type = "Array" /\ \A i \in DOMAIN v.items : isCompatible(c[1], v.items[i])
            \/ v.type = "ArrayDouble" /\ c[1] = Named("double")
       [] t.type = "TypeDictionary" ->
            /\ v.type = "Dictionary"
            /\ \A k \in Every(v.items, 1) : isCompatible(c[1], k)
            /\ \A w \in Every(v.items, 0) : isCompatible(c[2], w)
       [] t.type = "TypeSet" ->
            v.type = "Set" /\ \A i \in DOMAIN v.items : isCompatible(c[1], v.items[i])
       [] t.type = "TypeFunction" ->
            /\ v.type = "Function"
            /\ LET code == v.items[1].children
               IN /\ isCompatibleType(c[1], code[1]) = "true"
                  /\ Len(c) = Len(code) - 1
                  /\ \A i \in 2 .. Len(c) : isCompatibleType(c[i], code[i + 1].children[1]) = "true"
       [] OTHER -> FALSE

\* The comparison with a function throws where that of its types does.
Throws(t, v) ==
  /\ t.type = "TypeFunction" /\ v.type = "Function"
  /\ LET c == t.children  code == v.items[1].children
     IN \/ isCompatibleType(c[1], code[1]) = "crash"
        \/ /\ isCompatibleType(c[1], code[1]) = "true" /\ Len(c) = Len(code) - 1
           /\ \E i \in 2 .. Len(c) : isCompatibleType(c[i], code[i + 1].children[1]) = "crash"

-----------------------------------------------------------------------------
\* The type computed for an object.

\* A map from types to types, as the loops over elements fill it.  The key of an
\* entry points into its value.  A type that is neither less nor greater than a
\* key replaces the value, which frees what the key points to; what a map with
\* such a key does next is anything.
Entry(t) == [type |-> t, dangling |-> FALSE]
Inserted(map, t) ==
  LET notLess == {i \in DOMAIN map : ~CompareTypes(map[i].type, t)}
      at == IF notLess = {} THEN Len(map) + 1
            ELSE CHOOSE i \in notLess : \A j \in notLess : i <= j
  IN IF \E i \in DOMAIN map : map[i].dangling
       THEN {[map EXCEPT ![i] = [type |-> t, dangling |-> TRUE]] : i \in DOMAIN map}
              \cup {InsertAt(map, i, Entry(t)) : i \in 1 .. Len(map) + 1}
     ELSE IF at \in DOMAIN map /\ ~CompareTypes(t, map[at].type)
       THEN {[map EXCEPT ![at] = [type |-> t, dangling |-> TRUE]]}
     ELSE {InsertAt(map, at, Entry(t))}

\* The types that the loop over a sequence of elements may come to.
RECURSIVE ElementTypes(_, _)
Union(map) == IF Len(map) = 1 THEN map[1].type
              ELSE TypeChoice([i \in DOMAIN map |-> map[i].type])
ElementTypes(types, maps) ==
  IF types = <<>> THEN {Union(map) : map \in maps}
  ELSE ElementTypes(Tail(types), UNION {Inserted(map, Head(types)) : map \in maps})

\* The types that computeType may give an object without a declared type; the
\* elements are taken to have theirs computed without such a choice.
NameOf(type) == CHOOSE name \in DOMAIN ObjectTypeOf : ObjectTypeOf[name] = type
RECURSIVE computedTypes(_)
computedTypes(v) ==
  LET Of(items) == ElementTypes([i \in DOMAIN items |-> CHOOSE t \in computedTypes(items[i]) : TRUE],
                                {<<>>})
      Half(first) == [i \in 1 .. Len(v.items) \div 2 |-> v.items[2 * i - first]]
      code == v.items[1].children
  IN CASE v.type = "Array"       -> {TypeArray(t) : t \in Of(v.items)}
       [] v.type = "ArrayDouble" -> {TypeArray(Named("double"))}
       [] v.type = "Set"         -> {TypeSet(t) : t \in Of(v.items)}
       [] v.type = "Dictionary"  -> {TypeDictionary(k, t) : k \in Of(Half(1)), t \in Of(Half(0))}
       [] v.type = "Function"    ->
            {Node("TypeFunction", "", <<code[1]>> \o [i \in 1 .. Len(code) - 2 |-> code[i + 2].children[1]])}
       [] v.type = "Char"        -> {Nil}
       [] OTHER                  -> {Named(NameOf(v.type))}
=============================================================================
