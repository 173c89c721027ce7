----------------------------- MODULE StaticTypes -----------------------------
(***************************************************************************)
(* The types that are computed for expressions before they are evaluated   *)
(* (computeType of src/interp/Typing.cpp), and what the static analysis    *)
(* reports of the let statements of a program (Analyze.cpp).               *)
(***************************************************************************)
EXTENDS Typing

\* A context: scopes of names, the innermost last.
findType(context, name) ==
  LET scopes == {i \in DOMAIN context : name \in DOMAIN context[i]}
  IN IF scopes = {} THEN Nil
     ELSE context[CHOOSE i \in scopes : \A j \in scopes : j <= i][name]

\* A scope with one more name, or a new object or type for the name.
Entered(scope, name, x) ==
  [n \in DOMAIN scope \cup {name} |-> IF n = name THEN x ELSE scope[n]]
EmptyScope == [n \in {} |-> Nil]
InScope(context, name, t) ==
  IF t = Nil THEN context ELSE Append(Front(context), Entered(Last(context), name, t))

\* The scope of a function's body: the arguments with a declared type.
ArgumentsOf(literal) == SubSeq(literal.children, 3, Len(literal.children))
FunctionScope(literal, context) ==
  FoldLeft(LAMBDA c, argument : InScope(c, argument.literal, argument.children[1]),
           Append(context, EmptyScope), ArgumentsOf(literal))

\* A mutant: the keys of a dictionary are taken for its values.
computeIndexedTypeOfKey(t) ==
  CASE t.type \in {"TypeArray", "TypeSet", "TypeDictionary"} -> t.children[1]
    [] t = Named("range") -> Named("int")
    [] OTHER -> Nil
computeIndexedType(t) ==
  CASE t.type \in {"TypeArray", "TypeSet"} -> t.children[1]
    [] t.type = "TypeDictionary"           -> t.children[2]
    [] t = Named("range")                  -> Named("int")
    [] OTHER                               -> Nil

Arithmetic == {"+", "-", "*", "/", "**", "+=", "-=", "*=", "/="}

\* The type of an operator on operands of the types left and right: a case that
\* does not apply falls through to the next ones.
InfixType(operator, left, right) ==
  CASE left = Nil \/ right = Nil \/ Printed(left) # Printed(right) -> Nil
    [] operator \in Arithmetic -> left
    [] operator = "%" /\ Printed(left) = <<"int">> -> left
    [] operator \in {"||", "&&"} -> IF Printed(left) = <<"bool">> THEN Named("bool") ELSE Nil
    [] operator \in {"%"} \cup Comparisons -> Named("bool")
    [] OTHER -> Nil

LiteralTypes == [BooleanLiteral |-> "bool", IntegerLiteral |-> "int", DoubleLiteral |-> "double",
                 StringLiteral |-> "str", NullLiteral |-> "null", LetStatement |-> "null",
                 ForExpression |-> "null", WhileExpression |-> "null", IfExpression |-> "null"]

\* A builtin is declared to return a type, freeze() any.
Freeze == Node("Identifier", "freeze", <<>>)

\* computeType; ranges and prefix operators have no type.
RECURSIVE computeType(_, _), returns(_, _, _)
returnType(block, context, implicit) == returns(block, context, implicit).type
OfElements(types) == IF types = <<>> THEN TypeAll ELSE Merged(types)
computeType(node, context) ==
  LET c == node.children
      types == [i \in DOMAIN c |-> computeType(c[i], context)]
      Half(first) == [i \in 1 .. Len(c) \div 2 |-> types[2 * i - first]]
  IN CASE node.type \in DOMAIN LiteralTypes -> Named(LiteralTypes[node.type])
       [] node.type = "Identifier" -> findType(context, node.literal)
       [] node.type = "ArrayDoubleLiteral" -> TypeArray(Named("double"))
       [] node.type = "ArrayLiteral" -> TypeArray(OfElements(types))
       [] node.type = "SetLiteral"   -> TypeSet(OfElements(types))
       [] node.type = "DictLiteral"  -> TypeDictionary(OfElements(Half(1)), OfElements(Half(0)))
       [] node.type = "InfixExpression" -> InfixType(node.literal, types[1], types[2])
       [] node.type = "FunctionLiteral" ->
            Node("TypeFunction", "",
                 <<returnType(c[2], FunctionScope(node, context), TRUE)>>
                   \o [i \in DOMAIN ArgumentsOf(node) |-> TypeAll])
       [] node.type = "CallExpression" ->
            IF c[1] = Freeze THEN TypeAll
            ELSE IF c[1].type = "Identifier" /\ types[1].type = "TypeFunction"
              THEN types[1].children[1] ELSE Nil
       [] node.type = "IndexExpression"     -> computeIndexedType(types[1])
       [] node.type = "ExpressionStatement" -> types[1]
       [] OTHER -> Nil

\* What a let enters in the scope: the declared type, or the computed one if it
\* is known.
LetType(let, context) ==
  IF let.children[2] # Nil THEN let.children[2] ELSE computeType(let.children[3], context)

\* What a statement adds to the return type, in order, and the context after it.
\* The alternative of an if is computed in the scope around the if.
ReturnsOf(s, context) ==
  LET inner == Append(context, EmptyScope)
      e == s.children[1]
      Adds(types) == [types |-> types, context |-> context]
      Loop(body, scope) == Adds(<<returnType(body, scope, FALSE)>>)
      Else(r) == [types |-> <<returnType(e.children[2], inner, FALSE), r.type>>, context |-> r.context]
  IN CASE s.type = "ReturnStatement" -> Adds(<<computeType(e, context)>>)
       [] s.type = "LetStatement" ->
            [types |-> <<>>, context |-> InScope(context, e.literal, LetType(s, context))]
       [] s.type = "BlockStatement" -> Loop(s, inner)
       [] s.type = "ExpressionStatement" /\ e.type = "IfExpression" ->
            IF e.children[3] = Nil THEN Loop(e.children[2], inner)
                                   ELSE Else(returns(e.children[3], context, FALSE))
       [] s.type = "ExpressionStatement" /\ e.type = "WhileExpression" -> Loop(e.children[2], inner)
       [] s.type = "ExpressionStatement" /\ e.type = "ForExpression" ->
            Loop(e.children[4], InScope(inner, e.children[1].literal,
                                        computeIndexedType(computeType(e.children[3], context))))
       [] OTHER -> Adds(<<>>)

\* computeReturnType: the merged type, and the context that is left.
returns(block, context, implicit) ==
  LET After(all, more) ==
        [type |-> FoldLeft(mergeTypes, all.type, more.types), context |-> more.context]
      Implied(all, s) ==
        CASE ~implicit -> <<>>
          [] s.type = "ExpressionStatement" -> <<computeType(s, all.context)>>
          [] s.type = "LetStatement" -> <<TypeNull>>
          [] OTHER -> <<>>
      Statement(all, s) == After(all, ReturnsOf(s, all.context))
      Ended(all) == IF block.children = <<>> THEN all
                    ELSE After(all, [types |-> Implied(all, Last(block.children)),
                                     context |-> all.context])
  IN Ended(FoldLeft(Statement, [type |-> Nil, context |-> context], block.children))

-----------------------------------------------------------------------------
\* The analysis of a let statement at the outermost level: what is reported for
\* its name, and the context after it.  A function's computed type takes the
\* declared types of its arguments; a declared type replaces a computed one.
WithDeclarations(t, value) ==
  IF value.type = "FunctionLiteral" /\ t.type = "TypeFunction"
    THEN [t EXCEPT !.children =
            [i \in DOMAIN @ |->
               IF /\ i > 1 /\ Printed(@[i]) = <<"all">>
                  /\ value.children[i + 1].children[1] # Nil
                 THEN value.children[i + 1].children[1] ELSE @[i]]]
    ELSE t

AnalyzedAs(let, context, t) == [reported |-> WithDeclarations(t, let.children[3]),
                                context  |-> InScope(context, let.children[1].literal, t)]
analyzeLet(let, context) == AnalyzedAs(let, context, LetType(let, context))
=============================================================================
