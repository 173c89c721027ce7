----------------------------- MODULE Evaluation -----------------------------
(***************************************************************************)
(* The evaluation of expressions, and of the statements that functions are *)
(* made of here, by src/interp/Evaluator.cpp: literals, operators,         *)
(* subscripts, calls, let, if and return.                                  *)
(*                                                                         *)
(* Environments are sequences of scopes as contexts are.  Functions are    *)
(* made in the outermost scope, which is all that their bodies see besides *)
(* their arguments.                                                        *)
(***************************************************************************)
EXTENDS StaticTypes

has(env, name) == \E i \in DOMAIN env : name \in DOMAIN env[i]
get(env, name) == IF has(env, name) THEN findType(env, name) ELSE Error

\* The null pointer that an empty block evaluates to; who asks for its type traps.
Unset == Object("Unset", 0, <<>>)
Asked(v) == IF v = Unset THEN Crash ELSE v

Function(literal) == Object("Function", 0, <<literal>>)
ReturnValue(v)    == Object("ReturnValue", 0, <<v>>)
Returned(v)       == IF Stops(v) THEN v ELSE ReturnValue(v)

\* A value of elements: the first that does not return keeps it from being made.
Made(elements, v) ==
  LET stopping == {i \in DOMAIN elements : Stops(elements[i])}
  IN IF stopping = {} THEN v ELSE elements[CHOOSE i \in stopping : \A j \in stopping : i <= j]

\* What the literals of the programs stand for.
Letters  == <<"a", "b">>
NumberOf(literal) == CHOOSE n \in Least .. Greatest : ToString(n) = literal

\* The array of a literal, for the type that is declared for it.  [double] is
\* an array of its own kind.
ArrayFor(hint, items) ==
  CASE hint = Nil -> Array(items)
    [] hint.type # "TypeArray" -> Error
    [] hint.children[1] = Named("double") ->
         IF \A i \in DOMAIN items : items[i].type = "Double"
           THEN Object("ArrayDouble", 0, items) ELSE Error
    [] OTHER -> IF \A i \in DOMAIN items : isCompatible(hint.children[1], items[i])
                  THEN Array(items) ELSE Error

\* The dictionary or set of a literal: what it has already is not inserted.
RECURSIVE Insert(_, _, _)
Insert(container, items, width) ==
  IF items = <<>> THEN container
  ELSE LET there == find(container.items, {i \in DOMAIN container.items : i % width = 1 % width},
                         items[1])
       IN IF ~hashAble(items[1]) THEN Error
          ELSE Insert([container EXCEPT !.items = IF there = {} THEN @ \o SubSeq(items, 1, width) ELSE @],
                      SubSeq(items, width + 1, Len(items)), width)

-----------------------------------------------------------------------------
RECURSIVE evalExpression(_, _, _), evalStatements(_, _), evalCall(_, _, _)

\* Of the builtins freeze() is here.  Only what has a name is called.
evalExpression(node, env, hint) ==
  LET c == node.children
      Value(i) == evalExpression(c[i], env, Nil)
      items == [i \in DOMAIN c |-> Value(i)]
  IN CASE node.type = "IntegerLiteral" -> Integer(NumberOf(node.literal))
       [] node.type = "DoubleLiteral"  -> Double(NumberOf(node.literal))
       [] node.type = "BooleanLiteral" -> Boolean(node.literal = "TRUE")
       [] node.type = "StringLiteral"  -> String(<<Char(CHOOSE i \in DOMAIN Letters : Letters[i] = node.literal)>>)
       [] node.type = "NullLiteral"    -> Null
       [] node.type = "RangeLiteral"   -> 
            RangeOf(NumberOf(c[1].literal), NumberOf(c[2].literal), NumberOf(c[3].literal))
       [] node.type = "Identifier"     -> get(env, node.literal)
       [] node.type \in {"ArrayLiteral", "ArrayDoubleLiteral"} -> Made(items, ArrayFor(hint, items))
       [] node.type \in {"SetLiteral", "DictLiteral"} ->
            Made(items, IF node.type = "SetLiteral" THEN Insert(Object("Set", 0, <<>>), items, 1)
                        ELSE Insert(Object("Dictionary", 0, <<>>), items, 2))
       [] node.type = "PrefixExpression" -> evalPrefixExpression(node.literal, Value(1))
       [] node.type = "InfixExpression" ->
            IF Fails(items[1]) THEN items[1] ELSE IF Fails(items[2]) THEN items[2]
            ELSE evalInfixOperator(node.literal, items[1], items[2])
       [] node.type = "IndexExpression" -> evalIndexExpression(Value(2), Value(1))
       [] node.type = "FunctionLiteral" -> Function(node)
       [] node.type = "CallExpression" /\ c[1] = Freeze -> [Value(2) EXCEPT !.frozen = TRUE]
       [] node.type = "CallExpression" /\ c[1].type = "Identifier" ->
            evalCall(get(env, c[1].literal), [i \in DOMAIN Tail(c) |-> Value(i + 1)], env)
       [] node.type = "IfExpression" ->
            LET branch == IF isTruthy(items[1]) THEN c[2] ELSE c[3]
            IN IF Fails(items[1]) THEN items[1]
               ELSE IF branch = Nil THEN Null
               ELSE Asked(evalStatements(branch.children, Append(env, EmptyScope)).value)
       [] OTHER -> Error

\* The arguments are checked one after the other, each when it has its value;
\* nobody checks that there are enough, or the type of what is returned.  The
\* outermost scope is the environment of every function.
Bind(scope, argument, v) ==
  CASE scope.failed # Null -> scope
    [] Fails(v) -> [scope EXCEPT !.failed = v]
    [] argument = Nil -> [scope EXCEPT !.failed = Error]
    [] Throws(argument.children[1], v) -> [scope EXCEPT !.failed = Crash]
    [] ~isCompatible(argument.children[1], v) -> [scope EXCEPT !.failed = Error]
    [] OTHER -> [scope EXCEPT !.names = Entered(@, argument.literal, v)]

Unwrapped(result) == IF result.type = "ReturnValue" THEN result.items[1] ELSE result
evalCall(f, arguments, env) ==
  LET formal == ArgumentsOf(f.items[1])
      bound  == FoldLeft(LAMBDA scope, i :
                   Bind(scope, IF i \in DOMAIN formal THEN formal[i] ELSE Nil, arguments[i]),
                   [names |-> EmptyScope, failed |-> Null], [i \in DOMAIN arguments |-> i])
      Run(scope) ==
        IF scope.failed # Null THEN scope.failed
        ELSE Unwrapped(Asked(evalStatements(f.items[1].children[2].children,
                                            <<env[1], scope.names>>).value))
  IN IF f.type # "Function" THEN Error ELSE Run(bound)

-----------------------------------------------------------------------------
\* A let checks the value against the declared type, and enters it, an error as
\* any other, unless the scope has the name.
LetBe(s, env, v) ==
  LET t == s.children[2]
      name == s.children[1].literal
  IN CASE Stops(v) -> [value |-> v, env |-> env]
       [] Throws(t, v) -> [value |-> Crash, env |-> env]
       [] ~isCompatible(t, v) \/ name \in DOMAIN Last(env) -> [value |-> Error, env |-> env]
       [] OTHER -> [value |-> IF v = Error THEN v ELSE Null, env |-> InScope(env, name, v)]

evalLetStatement(s, env) == LetBe(s, env, evalExpression(s.children[3], env, s.children[2]))

evalStatement(s, env) ==
  CASE s.type = "LetStatement" -> evalLetStatement(s, env)
    [] s.type = "ReturnStatement" ->
         [value |-> Returned(evalExpression(s.children[1], env, Nil)), env |-> env]
    [] s.type = "BlockStatement" -> evalStatements(s.children, env)
    [] OTHER -> [value |-> evalExpression(s.children[1], env, Nil), env |-> env]

evalStatements(statements, env) ==
  FoldLeft(LAMBDA acc, s : IF acc.value.type = "ReturnValue" \/ Fails(acc.value)
                             THEN acc ELSE evalStatement(s, acc.env),
           [value |-> Unset, env |-> env], statements)
=============================================================================
