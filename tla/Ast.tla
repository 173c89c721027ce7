--------------------------------- MODULE Ast ---------------------------------
(***************************************************************************)
(* The syntax tree of src/interp/Ast.h, and the text it prints as          *)
(* (Ast.cpp), which is a sequence of tokens here: blanks and indentation   *)
(* are left out.  A token has a type, named as Token.cpp names it, and a   *)
(* literal.                                                                *)
(*                                                                         *)
(* A node has a type, a literal and children.  A child that the tree may   *)
(* leave out, or that the parser could not read, is Nil, the null pointer. *)
(***************************************************************************)
EXTENDS Integers, Sequences, SequencesExt

Token(type, literal) == [type |-> type, literal |-> literal]

Sign(s) == Token(s, s)          \* an operator or a bracket

Keyword(t) ==
  Token(t, CASE t = "LET" -> "let" [] t = "CONST" -> "const" [] t = "IF" -> "if"
             [] t = "ELSE" -> "else" [] t = "WHILE" -> "while" [] t = "FOR" -> "for"
             [] t = "IN" -> "in" [] t = "FN" -> "fn" [] t = "RETURN" -> "return"
             [] t = "BREAK" -> "break" [] t = "CONTINUE" -> "continue"
             [] t = "TRY" -> "try" [] t = "EXCEPT" -> "except"
             [] t = "SCOPE" -> "scope" [] t = "IMPORT" -> "import"
             [] t = "TYPE" -> "type" [] t = "NULL" -> "null" [] t = "ANY" -> "any"
             [] t = "ALL" -> "all" [] t = "TRUE" -> "true" [] t = "FALSE" -> "false"
             [] OTHER -> t)

Node(type, literal, children) ==
  [type |-> type, literal |-> literal, children |-> children]

Nil == Node("Nil", "", <<>>)

\* The children of a node of a type with a list, after its first few.
Rest(node, first) == SubSeq(node.children, first, Len(node.children))

\* std::to_string of an element of an array of doubles: a double stands for its
\* value, and one with more digits loses them.
SixDecimals(double) == IF double.literal = "0.12345678" THEN Token("DOUBLE", "0.123457")
                                                        ELSE Token("DOUBLE", double.literal)

\* Literals that print as their token, a string without its escapes.
TokenTypeOf == [Identifier |-> "IDENT", IntegerLiteral |-> "INT",
                DoubleLiteral |-> "DOUBLE", StringLiteral |-> "STRING",
                ModuleIdentifier |-> "IDENT", TypeIdentifier |-> "IDENT"]

Joined(texts, separator) ==
  FlattenSeq([i \in DOMAIN texts |-> IF i = 1 THEN texts[i] ELSE separator \o texts[i]])

-----------------------------------------------------------------------------
\* The elements of a set and the pairs of a dictionary are in the order of the
\* addresses of their nodes, which is any order.
Orders(node) ==
  LET c == node.children
  IN CASE node.type = "SetLiteral" ->
            {[i \in DOMAIN c |-> c[p[i]]] : p \in Permutations(DOMAIN c)}
       [] node.type = "DictLiteral" ->
            {[i \in DOMAIN c |-> c[2 * p[(i + 1) \div 2] - (i % 2)]] :
               p \in Permutations(1 .. Len(c) \div 2)}
       [] OTHER -> {c}

\* The trees that differ from a tree in these orders at most.
RECURSIVE Arranged(_)
Arranged(node) ==
  LET lists == FoldLeft(LAMBDA some, child : {Append(s, n) : s \in some, n \in Arranged(child)},
                        {<<>>}, node.children)
  IN UNION {{[node EXCEPT !.children = c] : c \in Orders([node EXCEPT !.children = s])} : s \in lists}

-----------------------------------------------------------------------------
\* A null pointer that text() follows: a child that is missing where the
\* printing does not ask for it first.
Tolerated(node, i) ==
  \/ node.type \in {"ExpressionStatement", "ReturnStatement", "Argument", "TypeArray",
                    "ArrayLiteral", "Nil"}
  \/ node.type \in {"LetStatement", "TypeStatement"} /\ i \in {2, 3}
  \/ node.type \in {"CallExpression", "FunctionLiteral", "TypeFunction"} /\ i = 1
  \/ node.type = "ForExpression" /\ i = 2
  \/ node.type = "IfExpression" /\ i = 3

RECURSIVE FollowsNull(_)
FollowsNull(node) ==
  \E i \in DOMAIN node.children :
     IF node.children[i] = Nil THEN ~Tolerated(node, i)
                               ELSE FollowsNull(node.children[i])

-----------------------------------------------------------------------------
RECURSIVE Text(_)

Texts(nodes) == [i \in DOMAIN nodes |-> Text(nodes[i])]
Listed(nodes) == Joined(Texts(nodes), <<Sign(",")>>)

\* A child that is printed after some tokens when it is there.
Optional(tokens, node) == IF node = Nil THEN <<>> ELSE tokens \o Text(node)

TypeText(node) ==
  LET c == node.children
  IN CASE node.type \in {"TypeNull", "TypeAny", "TypeAll"} ->
            <<Keyword(CASE node.type = "TypeNull" -> "NULL"
                        [] node.type = "TypeAny" -> "ANY" [] OTHER -> "ALL")>>
       [] node.type = "TypeChoice" -> <<Sign("<")>> \o Listed(c) \o <<Sign(">")>>
       [] node.type = "TypeArray" ->
            <<Sign("[")>> \o (IF c[1] = Nil THEN <<Token("IDENT", "unknown")>>
                                            ELSE Text(c[1])) \o <<Sign("]")>>
       [] node.type = "TypeDictionary" ->
            <<Sign("{")>> \o Text(c[1]) \o <<Sign(":")>> \o Text(c[2]) \o <<Sign("}")>>
       [] node.type = "TypeSet" -> <<Sign("{")>> \o Text(c[1]) \o <<Sign("}")>>
       [] node.type = "TypeFunction" ->
            <<Keyword("FN"), Sign("(")>> \o Listed(Rest(node, 2)) \o <<Sign(")"), Sign("->")>>
              \o (IF c[1] = Nil THEN <<Token("IDENT", "unknown")>> ELSE Text(c[1]))

\* Parentheses are printed around every operator, and nowhere else.
OperatorText(node) ==
  LET c == node.children
  IN CASE node.type = "PrefixExpression" ->
            <<Sign("("), Sign(node.literal)>> \o Text(c[1]) \o <<Sign(")")>>
       [] node.type = "InfixExpression" ->
            <<Sign("(")>> \o Text(c[1]) \o <<Sign(node.literal)>> \o Text(c[2]) \o <<Sign(")")>>
       [] node.type = "CallExpression" ->
            Text(c[1]) \o <<Sign("(")>> \o Listed(Rest(node, 2)) \o <<Sign(")")>>
       [] node.type = "MemberExpression" -> Text(c[1]) \o <<Sign(".")>> \o Text(c[2])
       [] node.type = "ModuleMemberExpression" -> Text(c[1]) \o <<Sign("::")>> \o Text(c[2])
       [] node.type = "IndexExpression" ->
            Text(c[1]) \o <<Sign("[")>> \o Text(c[2]) \o <<Sign("]")>>

\* Range literals have the sign of their lower bound as literal; a dictionary
\* has a child for every key and one for its value.  A function prints without
\* its documentation, a type literal without its name, a for loop without the
\* type and the const of its variable.
LiteralText(node) ==
  LET c == node.children
  IN CASE node = Nil -> <<Token("IDENT", "<NULL>")>>
       [] node.type \in DOMAIN TokenTypeOf ->
            IF node.literal = "" THEN <<>> ELSE <<Token(TokenTypeOf[node.type], node.literal)>>
       [] node.type \in {"NullLiteral", "BooleanLiteral"} -> <<Keyword(node.literal)>>
       [] node.type = "RangeLiteral" ->
            (IF node.literal = "-" THEN <<Sign("-")>> ELSE <<>>)
              \o Text(c[1]) \o <<Sign("..")>> \o Text(c[2]) \o <<Sign(":")>> \o Text(c[3])
       [] node.type = "ArrayLiteral" ->
            <<Sign("[")>> \o Listed(SelectSeq(c, LAMBDA e : e # Nil)) \o <<Sign("]")>>
       [] node.type = "ArrayDoubleLiteral" ->
            <<Sign("[")>> \o Joined([i \in DOMAIN c |-> <<SixDecimals(c[i])>>], <<Sign(",")>>)
              \o <<Sign("]")>>
       [] node.type = "DictLiteral" ->
            <<Sign("{")>>
              \o Joined([i \in 1 .. Len(c) \div 2 |->
                           Text(c[2 * i - 1]) \o <<Sign(":")>> \o Text(c[2 * i])],
                        <<Sign(",")>>)
              \o <<Sign("}")>>
       [] node.type = "SetLiteral" -> <<Sign("{")>> \o Listed(c) \o <<Sign("}")>>
       [] node.type = "FunctionLiteral" ->
            <<Keyword("FN"), Sign("(")>> \o Listed(Rest(node, 3)) \o <<Sign(")")>>
              \o Optional(<<Sign("->")>>, c[1]) \o Text(c[2])
       [] node.type = "Argument" ->
            <<Token("IDENT", node.literal)>> \o Optional(<<Sign(":")>>, c[1])
       [] node.type = "TypeLiteral" ->
            <<Keyword("TYPE"), Sign("{")>> \o FlattenSeq(Texts(Rest(node, 2))) \o <<Sign("}")>>

ControlText(node) ==
  LET c == node.children
      Condition(k) == <<Keyword(k), Sign("(")>> \o Text(c[1]) \o <<Sign(")")>> \o Text(c[2])
  IN CASE node.type = "IfExpression" ->
            Condition("IF") \o Optional(<<Keyword("ELSE")>>, c[3])
       [] node.type = "WhileExpression" -> Condition("WHILE")
       [] node.type = "ForExpression" ->
            <<Keyword("FOR"), Sign("(")>> \o Text(c[1]) \o <<Keyword("IN")>> \o Text(c[3])
              \o <<Sign(")")>> \o Text(c[4]) \o <<Sign(";")>>
       [] node.type = "BlockStatement" ->
            <<Sign("{")>> \o FlattenSeq(Texts(c)) \o <<Sign("}")>>
       [] node.type = "ScopeStatement" ->
            <<Keyword("SCOPE"), Sign("{")>> \o FlattenSeq(Texts(c)) \o <<Sign("}")>>
       [] node.type = "TryExceptStatement" ->
            <<Keyword("TRY")>> \o Text(c[1]) \o <<Keyword("EXCEPT"), Sign("(")>>
              \o Text(c[2]) \o <<Sign(")")>> \o Text(c[3])
       [] node.type = "Program" -> FlattenSeq(Texts(c))

\* An import prints the first name of its path only.
StatementText(node) ==
  LET c == node.children
      constant == IF node.literal = "const" THEN <<Keyword("CONST")>> ELSE <<>>
      definition == constant \o Text(c[1]) \o Optional(<<Sign(":")>>, c[2])
                      \o <<Sign("=")>> \o Optional(<<>>, c[3])
  IN CASE node.type = "ExpressionStatement" -> Optional(<<>>, c[1]) \o <<Sign(";")>>
       [] node.type = "ReturnStatement" ->
            <<Keyword("RETURN")>> \o Optional(<<>>, c[1]) \o <<Sign(";")>>
       [] node.type = "BreakStatement" -> <<Keyword("BREAK"), Sign(";")>>
       [] node.type = "ContinueStatement" -> <<Keyword("CONTINUE"), Sign(";")>>
       [] node.type = "LetStatement" -> <<Keyword("LET")>> \o definition \o <<Sign(";")>>
       [] node.type = "TypeStatement" -> definition \o <<Sign(";")>>
       [] node.type = "ImportStatement" -> <<Keyword("IMPORT")>> \o Text(c[1]) \o <<Sign(";")>>

Types == {"TypeNull", "TypeAny", "TypeAll", "TypeChoice", "TypeArray", "TypeDictionary",
          "TypeSet", "TypeFunction"}
Operators == {"PrefixExpression", "InfixExpression", "CallExpression", "MemberExpression",
              "ModuleMemberExpression", "IndexExpression"}
Controls == {"IfExpression", "WhileExpression", "ForExpression", "BlockStatement",
             "ScopeStatement", "TryExceptStatement", "Program"}
Statements == {"ExpressionStatement", "ReturnStatement", "BreakStatement",
               "ContinueStatement", "LetStatement", "TypeStatement", "ImportStatement"}

\* text() of a node in which no null pointer is followed.
Text(node) == CASE node.type \in Types      -> TypeText(node)
                [] node.type \in Operators  -> OperatorText(node)
                [] node.type \in Controls   -> ControlText(node)
                [] node.type \in Statements -> StatementText(node)
                [] OTHER                    -> LiteralText(node)
=============================================================================
