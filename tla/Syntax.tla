------------------------------- MODULE Syntax -------------------------------
(***************************************************************************)
(* What becomes of the tokens of one text: they are parsed, the tree is    *)
(* printed (the program of Parse.cpp, and the inspection of a function)    *)
(* and the text parsed again, and the static analysis removes unreachable  *)
(* code from it (the program of Analyze.cpp).  An accepted tree goes to    *)
(* the evaluator, which follows its pointers without asking.               *)
(***************************************************************************)
EXTENDS Parser, Analyze

CONSTANT Inputs        \* the sequences of tokens a parser is created on

VARIABLES tokens,      \* what the lexer returns, without the EOFs at the end
          parser,      \* the parser after parseProgram, Start before
          again,       \* the parser of the printed tree, Start before
          trimmed      \* the program without unreachable code, Nil before

vars == <<tokens, parser, again, trimmed>>

Init == /\ tokens \in Inputs
        /\ parser = Start(tokens)
        /\ again = Start(<<>>)
        /\ trimmed = Nil

Accepted(p) == p.node # Nil /\ p.errors = 0 /\ ~p.crashed

Parse == /\ parser = Start(tokens)
         /\ parser' \in Parsed(tokens)
         /\ UNCHANGED <<tokens, again, trimmed>>

\* What the lexer makes of a printed text.  Only these are not read as they are
\* printed: an integer takes the dot after it, and an `e` after that makes it
\* illegal; a string that holds a quote ends there, and what follows up to the
\* next quote is another one; one that holds the character 0 ends the text.
Lexed(text) ==
  LET Is(i, type) == i <= Len(text) /\ text[i].type = type
      read[i \in 1 .. Len(text) + 3, inside \in BOOLEAN] ==
        LET t == text[i]
            opened == IF inside THEN <<Token("STRING", "between")>> ELSE <<>>
        IN CASE i > Len(text) -> IF inside THEN <<Token("ILLEGAL", "")>> ELSE <<>>
             [] t = Token("STRING", "zero") ->
                  IF inside THEN opened ELSE <<Token("ILLEGAL", "")>>
             [] t = Token("STRING", "quote") ->
                  opened \o <<Token("STRING", "")>> \o read[i + 1, ~inside]
             [] inside ->
                  IF t.type # "STRING" THEN read[i + 1, TRUE]
                  ELSE opened \o <<Token("IDENT", t.literal)>> \o read[i + 1, TRUE]
             [] t.type = "INT" /\ Is(i + 1, ".") ->
                  IF text[i + 2].literal = "e" THEN <<Token("ILLEGAL", "")>> \o read[i + 3, FALSE]
                  ELSE <<Token("DOUBLE", t.literal)>> \o read[i + 2, FALSE]
             [] OTHER -> <<t>> \o read[i + 1, FALSE]
  IN read[1, FALSE]

PrintAndParse == /\ Accepted(parser) /\ ~FollowsNull(parser.node)
         /\ again = Start(<<>>)
         /\ again' \in Parsed(Lexed(Text(parser.node)))
         /\ UNCHANGED <<tokens, parser, trimmed>>

RemoveUnreachableCode ==
  /\ Accepted(parser) /\ trimmed = Nil
  /\ ~RemovalCrashes(parser.node)
  /\ trimmed' = removeUnreachableCode(parser.node)
  /\ UNCHANGED <<tokens, parser, again>>

Next == Parse \/ PrintAndParse \/ RemoveUnreachableCode

Spec == Init /\ [][Next]_vars
-----------------------------------------------------------------------------
RECURSIVE Below(_)
Below(node) == {node} \cup UNION {Below(node.children[i]) : i \in DOMAIN node.children}

\* A child that may be null in a tree that the evaluator is given.
MayBeNull(node, i) ==
  \/ node.type \in {"Argument", "Nil"}
  \/ node.type \in {"LetStatement", "TypeStatement", "ForExpression"} /\ i = 2
  \/ node.type = "FunctionLiteral" /\ i = 1
  \/ node.type = "IfExpression" /\ i = 3

\* A type without a name is no error and leaves a null pointer.
NamelessType == \E i \in DOMAIN tokens : /\ tokens[i].type = "TYPE"
                                         /\ TokenAt(parser, i + 1).type # "IDENT"

\* Whatever parses without an error has a tree without null pointers where the
\* evaluator, or text(), follows them: every failure of a parsing function is
\* an error, or its caller gives up as well (Parser.cpp).
AcceptedIsWhole ==
  Accepted(parser) /\ ~NamelessType =>
    \A node \in Below(parser.node) : \A i \in DOMAIN node.children :
       node.children[i] = Nil => MayBeNull(node, i)

\* A tree without the documentation of its functions, which text() leaves out.
RECURSIVE Undocumented(_)
Undocumented(node) ==
  [node EXCEPT !.literal = IF node.type = "FunctionLiteral" THEN "" ELSE @,
               !.children = [i \in DOMAIN @ |-> Undocumented(@[i])]]

\* The nodes that text() does not print as they were written: a loop is closed
\* with a semicolon of its own and loses the const and the type of its
\* variable, a type its name, an import all names of its path but the first,
\* an array of doubles their digits after the sixth, a string the escape of its
\* quotes, an except may have had no name, a minus before parentheses becomes
\* the sign of a range, and an integer takes the dot of the member after it.
RECURSIVE FirstLeaf(_)
FirstLeaf(node) ==
  IF \/ node.type \in {"MemberExpression", "ModuleMemberExpression", "IndexExpression"}
     \/ node.type = "CallExpression"
    THEN FirstLeaf(node.children[1]) ELSE node
Unprintable(node) ==
  \/ node.type = "Identifier" /\ node.literal = ""
  \/ node.type \in {"ForExpression", "TypeLiteral"}
  \/ node.type = "ModuleIdentifier" /\ Len(node.children) # 1
  \/ node.type = "StringLiteral" /\ node.literal \in {"quote", "zero"}
  \/ node.type = "ArrayDoubleLiteral"
       /\ \E i \in DOMAIN node.children : SixDecimals(node.children[i]).literal # node.children[i].literal
  \/ node.type = "PrefixExpression" /\ FirstLeaf(node.children[1]).type = "RangeLiteral"
  \/ node.type = "MemberExpression" /\ node.children[1].type \in {"IntegerLiteral", "RangeLiteral"}


\* The tokens that name, count or compute something.
Meaning == {"IDENT", "INT", "DOUBLE", "STRING", "+", "-", "*", "/", "%", "**", "=", "==", "<", "||", "!",
            ".", "::", "RETURN", "LET", "CONST", "IF", "ELSE", "WHILE", "FN", "TRY", "NULL", "ANY", "ALL",
            "TRUE", "FALSE", "BREAK", "CONTINUE", "SCOPE"}
MeaningOf(text) == SelectSeq(text, LAMBDA t : t.type \in Meaning)

\* A break, a continue, a scope and an import take the next token without
\* looking at it, an except and a function any token as the name of their
\* argument.
Swallows ==
  \/ \E i \in DOMAIN tokens :
       LET next == TokenAt(parser, i + 1).type
       IN \/ tokens[i].type \in {"BREAK", "CONTINUE"} /\ next # ";"
          \/ tokens[i].type = "SCOPE" /\ next # "{"
          \/ tokens[i].type = "IMPORT" /\ next # "IDENT"
          \/ tokens[i].type = "EXCEPT" /\ TokenAt(parser, i + 2).type # "IDENT"
  \/ \E node \in Below(parser.node) :
       node.type = "Argument" /\ Token("IDENT", node.literal) \notin ToSet(tokens)

\* An accepted text loses none of its words, gains none and keeps their order,
\* but for the order of the elements of its dictionaries and sets: no failure of
\* a parsing function is passed over in silence, which drops what was read so
\* far (Parser.cpp).
NothingIsLost ==
  /\ ~Swallows /\ ~NamelessType /\ again # Start(<<>>)
  /\ \A node \in Below(parser.node) : ~Unprintable(node) /\ node.type # "RangeLiteral"
  => \E node \in Arranged(parser.node) : MeaningOf(Text(node)) = MeaningOf(tokens)

\* Without brackets in the text an operator has as operands the longest that
\* bind tighter, from left to right: the operator of a left operand binds at
\* least as tight as its own, that of a right operand tighter
\* (Parser::Precedence and parseExpression).
OperatorsBindByPrecedence ==
  Accepted(parser) => \A node \in Below(parser.node) :
     node.type = "InfixExpression" /\ (\A i \in DOMAIN tokens : tokens[i].type # "(") =>
       LET Of(k) == IF node.children[k].type = "InfixExpression"
                      THEN Precedence(node.children[k].literal) ELSE PREFIX
       IN Of(1) >= Precedence(node.literal) /\ Of(2) > Precedence(node.literal)

\* The lines of documentation before every function or type of a text, since
\* the last one of these.
RECURSIVE LinesBefore(_, _)
LinesBefore(i, lines) ==
  CASE i > Len(tokens)           -> <<>>
    [] tokens[i].type = "DOC"    -> LinesBefore(i + 1, Append(lines, tokens[i].literal))
    [] tokens[i].type \in {"FN", "TYPE"} -> <<lines>> \o LinesBefore(i + 1, <<>>)
    [] OTHER                     -> LinesBefore(i + 1, lines)
RECURSIVE Documents(_)
Documents(node) ==
  (IF node.type \notin {"FunctionLiteral", "TypeLiteral"} THEN <<>> ELSE <<node.literal>>)
    \o FlattenSeq([i \in DOMAIN node.children |-> Documents(node.children[i])])

\* Every line of documentation goes to the next function or type of the text,
\* once, in the order of the text and to no other: a function inside another
\* does not take the lines of the one around it (curDoc of Parser.cpp).  The
\* tree may have dictionaries and sets in another order than the text.
DocsGoToTheNextFunction ==
  /\ Accepted(parser) /\ ~Swallows /\ ~NamelessType
  /\ \A node \in Below(parser.node) : node.type # "TypeFunction"
  => LET before == LinesBefore(1, <<>>)
     IN \E node \in Arranged(parser.node) :
          Documents(node) = [i \in DOMAIN before |-> DocText(before[i])]

\* What a statement list can do: the leaves it executes, in order, and how it
\* ends.  A condition may hold or not, a loop runs at most once.
RECURSIVE Runs(_)
RunsOf(statements) ==
  LET after[i \in 1 .. Len(statements) + 1] ==
        IF i = Len(statements) + 1 THEN {<<<<>>, "end">>}
        ELSE UNION {IF r[2] # "end" THEN {r} ELSE {<<r[1] \o t[1], t[2]>> : t \in after[i + 1]} :
                      r \in Runs(statements[i])}
  IN after[1]
Runs(node) ==
  LET c == node.children
      Loop(body) == {<<<<>>, "end">>} \cup
                    {<<r[1], IF r[2] = "ReturnStatement" THEN r[2] ELSE "end">> : r \in Runs(body)}
  IN CASE node.type \in {"BlockStatement", "ScopeStatement", "Program"} -> RunsOf(c)
       [] node.type \in Leaves -> {<<<<node>>, node.type>>}
       [] node.type = "ExpressionStatement" -> Runs(c[1])
       [] node.type = "IfExpression" ->
            Runs(c[2]) \cup (IF c[3] = Nil THEN {<<<<>>, "end">>} ELSE Runs(c[3]))
       [] node.type = "WhileExpression" -> Loop(c[2])
       [] node.type = "ForExpression" -> Loop(c[4])
       [] node.type = "FunctionLiteral" -> {<<<<[node EXCEPT !.children[2] = Nil]>>, "end">>}
       [] OTHER -> {<<<<[node EXCEPT !.children = <<>>]>>, "end">>}
Behaviours(program) ==
  {<<[f EXCEPT !.children[2] = Nil], Runs(f.children[2])>> :
     f \in {node \in Below(program) : node.type = "FunctionLiteral"}}

\* The removal of unreachable code removes nothing that can run: the program,
\* and every function that is still in it, does what it did (Analyze.cpp).
TrimmingKeepsBehaviour ==
  trimmed # Nil => /\ Runs(trimmed) = Runs(parser.node)
                   /\ Behaviours(trimmed) \subseteq Behaviours(parser.node)
=============================================================================
