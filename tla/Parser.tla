------------------------------- MODULE Parser -------------------------------
(***************************************************************************)
(* The recursive descent parser of src/interp/Parser.cpp, over the tokens  *)
(* of one text.  A parsing function takes and returns the state of the     *)
(* Parser: the place of curToken, which peekToken and peek2Token follow,   *)
(* the number of its errors, the documentation lines it has collected, and *)
(* the node it returns, Nil for a null pointer.  Once a null pointer is    *)
(* followed or an exception leaves the parser, "crashed" is TRUE and what  *)
(* the other parts of the state say does not matter.                       *)
(***************************************************************************)
EXTENDS Ast, Integers

\* The precedences, from Parser::Precedence.
LOWEST == 0
PREFIX == 7
Precedence(t) ==
  CASE t \in {"=", "+=", "-=", "/=", "*="}   -> 1
    [] t \in {"==", "!=", "<=", ">="}        -> 2
    [] t \in {"<", ">", "&&", "||"}          -> 3
    [] t \in {"+", "-"}                      -> 4
    [] t \in {"/", "*", "%"}                 -> 5
    [] t = "**"                              -> 6
    [] t \in {"(", ".", "::"}                -> 8
    [] t = "["                               -> 9
    [] OTHER                                 -> LOWEST

-----------------------------------------------------------------------------
Start(text) == [text |-> text, at |-> 1, errors |-> 0, doc |-> <<>>, node |-> Nil,
                crashed |-> FALSE]

TokenAt(s, i) == IF i <= Len(s.text) THEN s.text[i] ELSE Token("EOF", "")
Cur(s) == TokenAt(s, s.at)
CurType(s) == Cur(s).type
PeekType(s) == TokenAt(s, s.at + 1).type
Peek2Type(s) == TokenAt(s, s.at + 2).type

nextToken(s) == [s EXCEPT !.at = @ + 1]
Return(s, node) == [s EXCEPT !.node = node]
parseError(s) == [s EXCEPT !.errors = @ + 1, !.node = Nil]
Crash(s) == [s EXCEPT !.crashed = TRUE, !.at = Len(s.text) + 1, !.node = Nil]

\* A mutant: the unexpected token is not reported.
peekNoError(s) == Return(s, Nil)
peekError(s) == parseError(s)

\* if (!expectPeek(t)) return nullptr, and what follows it.
Expect(s, t, Then(_)) == IF PeekType(s) = t THEN Then(nextToken(s)) ELSE peekError(s)

Skip(s, t) == IF PeekType(s) = t THEN nextToken(s) ELSE s

\* extractAndClearCurrentDoc: the blanks of the first line are taken from all
\* lines.  A line shorter than they are ends in an exception.
DocBlanks(line) ==
  CHOOSE n \in 2 .. Len(line) : /\ \A i \in 3 .. n : SubSeq(line, i, i) = " "
                                /\ n = Len(line) \/ SubSeq(line, n + 1, n + 1) # " "
DocText(lines) ==
  LET line(i) == SubSeq(lines[i], DocBlanks(lines[1]) + 1, Len(lines[i]))
      joined[i \in DOMAIN lines] == IF i = 1 THEN line(1) ELSE joined[i - 1] \o "\n" \o line(i)
  IN IF lines = <<>> THEN "" ELSE joined[Len(lines)]

\* A mutant: the lines stay for the function after the next.
Undisturbed(s) == s
ClearCurrentDoc(s) == [s EXCEPT !.doc = <<>>]
extractAndClearCurrentDoc(s, Then(_, _)) ==
  IF \E i \in DOMAIN s.doc : Len(s.doc[i]) < DocBlanks(s.doc[1])
    THEN Crash(s) ELSE Then(ClearCurrentDoc(s), DocText(s.doc))

-----------------------------------------------------------------------------
\* The parsing functions that call each other do so as expressions above a
\* precedence, types and statements.  The loops call themselves.
RECURSIVE parse(_, _, _), Infixes(_, _), ExpressionsOf(_, _), TypesOf(_, _),
          ArgumentsOf(_, _), PairsOf(_, _), StatementsOf(_, _, _)
parseExpression(s, precedence) == parse("expression", s, precedence)
parseTypeExpression(s) == parse("type", s, LOWEST)
parseStatement(s) == parse("statement", s, LOWEST)

\* The parser looks no further than the token's type: nullptr when it is not
\* an identifier, and no error.
parseIdentifier(s) ==
  Return(s, IF CurType(s) = "IDENT" THEN Node("Identifier", Cur(s).literal, <<>>) ELSE Nil)

Literal(s, type) == Return(s, Node(type, Cur(s).literal, <<>>))
Integer(n) == Node("IntegerLiteral", n, <<>>)

\* The rest of a range, at its "..".
RangeFrom(s, sign, lower) ==
  Expect(s, "INT", LAMBDA s1 :
    LET upper == Integer(Cur(s1).literal)
        Made(end, stride) == Return(end, Node("RangeLiteral", sign,
                                              <<Integer(lower), upper, Integer(stride)>>))
    IN IF PeekType(s1) = ":"
         THEN Expect(nextToken(s1), "INT", LAMBDA s2 : Made(s2, Cur(s2).literal))
         ELSE Made(s1, "1"))

parseIntegerOrRangeLiteral(s) ==
  IF PeekType(s) = ".." THEN RangeFrom(nextToken(s), "", Cur(s).literal)
                        ELSE Literal(s, "IntegerLiteral")

\* A minus before an integer and ".." is the sign of the bound.
parsePrefixExpression(s) ==
  IF CurType(s) = "-" /\ PeekType(s) = "INT" /\ Peek2Type(s) = ".."
    THEN LET lower == Cur(nextToken(s)).literal
         IN RangeFrom(nextToken(nextToken(s)), IF lower = "0" THEN "" ELSE "-", lower)
    ELSE LET right == parseExpression(nextToken(s), PREFIX)
         IN Return(right, Node("PrefixExpression", Cur(s).literal, <<right.node>>))

parseGroupedExpression(s) ==
  LET inner == parseExpression(nextToken(s), LOWEST)
  IN Expect(inner, ")", LAMBDA s1 : s1)

\* parseExpressionList and parseTypeExpressionList: the nodes are children of
\* the node that is returned.
List(s, nodes) == Return(s, Node("List", "", nodes))
ExpressionsOf(s, nodes) ==
  IF PeekType(s) # "," THEN List(s, nodes)
  ELSE LET next == parseExpression(nextToken(nextToken(s)), LOWEST)
       IN ExpressionsOf(next, Append(nodes, next.node))
parseExpressionList(s, end) ==
  IF PeekType(s) = end THEN List(nextToken(s), <<>>)
  ELSE LET first == parseExpression(nextToken(s), LOWEST)
           all   == ExpressionsOf(first, <<first.node>>)
       IN IF first.node = Nil THEN List(first, <<>>)
          ELSE IF PeekType(all) = end THEN nextToken(all)
               ELSE List(parseError(all), all.node.children)

TypesOf(s, nodes) ==
  IF PeekType(s) # "," THEN List(s, nodes)
  ELSE LET next == parseTypeExpression(nextToken(nextToken(s)))
       IN TypesOf(next, Append(nodes, next.node))
parseTypeExpressionList(s, end) ==
  IF PeekType(s) = end THEN List(nextToken(s), <<>>)
  ELSE LET first == parseTypeExpression(nextToken(s))
           all   == TypesOf(first, <<first.node>>)
       IN IF PeekType(all) = end THEN nextToken(all)
          ELSE List(parseError(all), all.node.children)

\* The text of the array, its token, is printed before its elements are seen
\* to be numbers.
parseArrayLiteral(s) ==
  LET list    == parseExpressionList(s, "]")
      array   == Node("ArrayLiteral", "", list.node.children)
      kinds   == {list.node.children[i].type : i \in DOMAIN list.node.children}
      notDouble == {i \in DOMAIN array.children : array.children[i].type # "DoubleLiteral"}
  IN IF \/ FollowsNull(array)
        \/ \E i \in notDouble : array.children[i] = Nil /\ \A j \in notDouble : i <= j
       THEN Crash(s)
       ELSE Return(list, IF kinds = {"DoubleLiteral"}
                           THEN [array EXCEPT !.type = "ArrayDoubleLiteral"] ELSE array)

\* The first key decides between a dictionary and a set.  A second null pointer
\* is no other key.  The nodes are in the order of the text until Parsed gives
\* them the order of their addresses.
KeysOf(type, nodes) == {nodes[i] : i \in {j \in DOMAIN nodes : type = "SetLiteral" \/ j % 2 = 1}}
PairsOf(s, literal) ==
  IF PeekType(s) \in {"}", "EOF"} THEN Return(s, literal)
  ELSE LET key   == parseExpression(nextToken(s), LOWEST)
           isSet == \/ literal.type = "SetLiteral"
                    \/ literal.children = <<>> /\ PeekType(key) # ":"
           value == parseExpression(nextToken(nextToken(key)), LOWEST)
           more(end, type, nodes) ==
             LET read == Node(type, "", IF key.node = Nil /\ Nil \in KeysOf(type, literal.children)
                                          THEN literal.children ELSE literal.children \o nodes)
             IN IF PeekType(end) \in {"}", ","} THEN PairsOf(Skip(end, ","), read)
                                                ELSE parseError(end)
       IN IF isSet THEN more(key, "SetLiteral", <<key.node>>)
          ELSE IF PeekType(key) = ":" THEN more(value, "DictLiteral", <<key.node, value.node>>)
          ELSE parseError(key)
parseDictOrSetLiteral(s) ==
  LET all == PairsOf(s, Node("DictLiteral", "", <<>>))
  IN IF all.node = Nil THEN all ELSE Expect(all, "}", LAMBDA s1 : s1)

-----------------------------------------------------------------------------
\* Types.  No operator on types is registered.
TypePrefixes == {"IDENT", "NULL", "ALL", "ANY", "<", "[", "{", "FN"}

parseTypeArray(s) ==
  LET inside  == nextToken(s)
      element == parseTypeExpression(inside)
  IN IF CurType(inside) = "]" THEN parseError(inside)
     ELSE IF element.node = Nil THEN element
     ELSE Expect(element, "]", LAMBDA s1 : Return(s1, Node("TypeArray", "", <<element.node>>)))

parseTypeDictionaryOrSet(s) ==
  LET key   == parseTypeExpression(nextToken(s))
      value == parseTypeExpression(nextToken(nextToken(key)))
  IN IF PeekType(key) # ":"
       THEN Expect(key, "}", LAMBDA s1 : Return(s1, Node("TypeSet", "", <<key.node>>)))
       ELSE Expect(value, "}",
              LAMBDA s1 : Return(s1, Node("TypeDictionary", "", <<key.node, value.node>>)))

parseTypeFunction(s) ==
  Expect(s, "(", LAMBDA s1 :
    LET args == parseTypeExpressionList(s1, ")")
    IN Expect(args, "->", LAMBDA s2 :
         LET result == parseTypeExpression(nextToken(s2))
         IN Return(result, Node("TypeFunction", "", <<result.node>> \o args.node.children))))

TypeAt(s) ==
  CASE CurType(s) \notin TypePrefixes -> parseError(s)
    [] CurType(s) = "IDENT" -> Literal(s, "TypeIdentifier")
    [] CurType(s) = "NULL"  -> Return(s, Node("TypeNull", "", <<>>))
    [] CurType(s) = "ALL"   -> Return(s, Node("TypeAll", "", <<>>))
    [] CurType(s) = "ANY"   -> Return(s, Node("TypeAny", "", <<>>))
    [] CurType(s) = "<"     -> LET list == parseTypeExpressionList(s, ">")
                               IN Return(list, Node("TypeChoice", "", list.node.children))
    [] CurType(s) = "["     -> parseTypeArray(s)
    [] CurType(s) = "{"     -> parseTypeDictionaryOrSet(s)
    [] CurType(s) = "FN"    -> parseTypeFunction(s)

\* A type after a colon, when there is one.  The let statement, the for loop
\* and the type statement have the colon as current token, the arguments of a
\* function have it as the next one.
OptionalType(s) == IF CurType(s) = ":" THEN nextToken(parseTypeExpression(nextToken(s)))
                                       ELSE Return(s, Nil)

-----------------------------------------------------------------------------
\* Functions and types.  Any token is taken as the name of an argument.
ArgumentsOf(s, arguments) ==
  LET type == IF PeekType(s) = ":" THEN parseTypeExpression(nextToken(nextToken(s)))
                                   ELSE Return(s, Nil)
      all  == Append(arguments, Node("Argument", Cur(s).literal, <<type.node>>))
  IN IF PeekType(type) = "," THEN ArgumentsOf(nextToken(nextToken(type)), all)
     ELSE List(IF PeekType(type) = ")" THEN nextToken(type) ELSE parseError(type), all)
parseFunctionArguments(s) ==
  IF PeekType(s) = ")" THEN List(nextToken(s), <<>>) ELSE ArgumentsOf(nextToken(s), <<>>)

parseBlockStatement(s) ==
  LET all == StatementsOf(nextToken(s), <<>>, "block")
  IN Return(all, Node("BlockStatement", "", all.node.children))

parseFunctionLiteral(s) ==
  extractAndClearCurrentDoc(s, LAMBDA s1, doc :
    Expect(s1, "(", LAMBDA s2 :
      LET arguments == parseFunctionArguments(s2)
          result    == IF PeekType(arguments) = "->"
                         THEN parseTypeExpression(nextToken(nextToken(arguments)))
                         ELSE Return(arguments, Nil)
      IN Expect(result, "{", LAMBDA s3 :
           LET body == parseBlockStatement(s3)
           IN Return(body, Node("FunctionLiteral", doc,
                                <<result.node, body.node>> \o arguments.node.children)))))

\* Without a name the pointer is null, and no error is recorded.
parseTypeLiteral(s) ==
  extractAndClearCurrentDoc(s, LAMBDA s1, doc :
    LET name == parseIdentifier(nextToken(s1))
    IN IF name.node = Nil THEN name
       ELSE Expect(name, "{", LAMBDA s2 :
              LET all == StatementsOf(nextToken(s2), <<>>, "type")
              IN Return(all, Node("TypeLiteral", doc, <<name.node>> \o all.node.children))))

-----------------------------------------------------------------------------
\* What if, while and except have in common: a block after a closed condition.
BlockAfter(s, Then(_)) ==
  Expect(s, ")", LAMBDA s1 : Expect(s1, "{", LAMBDA s2 : Then(parseBlockStatement(s2))))

parseIfExpression(s) ==
  Expect(s, "(", LAMBDA s1 :
    LET condition == parseExpression(nextToken(s1), LOWEST)
        If(end, parts) == Return(end, Node("IfExpression", "", <<condition.node>> \o parts))
    IN BlockAfter(condition, LAMBDA consequence :
         IF PeekType(consequence) # "ELSE" THEN If(consequence, <<consequence.node, Nil>>)
         ELSE Expect(nextToken(consequence), "{", LAMBDA s2 :
                LET alternative == parseBlockStatement(s2)
                IN If(alternative, <<consequence.node, alternative.node>>))))

parseWhileExpression(s) ==
  Expect(s, "(", LAMBDA s1 :
    LET condition == parseExpression(nextToken(s1), LOWEST)
    IN BlockAfter(condition, LAMBDA body :
         Return(body, Node("WhileExpression", "", <<condition.node, body.node>>))))

\* What a name is preceded by, and the name: "const" or "", and the token.
Constant(s) == IF CurType(s) = "CONST" THEN "const" ELSE ""
AtName(s) == IF CurType(s) = "CONST" THEN nextToken(s) ELSE s

\* The name is copied from its pointer at once, which may be null.
parseForExpression(s) ==
  Expect(s, "(", LAMBDA s1 :
    LET named    == AtName(nextToken(s1))
        typed    == OptionalType(nextToken(named))
        iterable == parseExpression(nextToken(typed), LOWEST)
    IN IF CurType(named) # "IDENT" THEN Crash(s)
       ELSE IF CurType(typed) # "IN" THEN parseError(typed)
       ELSE BlockAfter(iterable, LAMBDA body :
              Return(body, Node("ForExpression", Constant(nextToken(s1)),
                                <<parseIdentifier(named).node, typed.node,
                                  iterable.node, body.node>>))))

\* The functions that are registered by the type of the token they start at,
\* and by the type of the operator.
PrefixStarts == {"IDENT", "NULL", "INT", "..", "DOUBLE", "STRING", "FALSE", "TRUE", "!", "-", "(",
             "IF", "FN", "TYPE", "WHILE", "FOR", "[", "{"}
Prefix(s) ==
  CASE CurType(s) = "IDENT"            -> parseIdentifier(s)
    [] CurType(s) = "NULL"             -> Return(s, Node("NullLiteral", "NULL", <<>>))
    [] CurType(s) = "INT"              -> parseIntegerOrRangeLiteral(s)
    [] CurType(s) = ".."               -> RangeFrom(s, "", "0")
    [] CurType(s) = "DOUBLE"           -> Literal(s, "DoubleLiteral")
    [] CurType(s) = "STRING"           -> Literal(s, "StringLiteral")
    [] CurType(s) \in {"FALSE", "TRUE"} -> Return(s, Node("BooleanLiteral", CurType(s), <<>>))
    [] CurType(s) \in {"!", "-"}       -> parsePrefixExpression(s)
    [] CurType(s) = "("                -> parseGroupedExpression(s)
    [] CurType(s) = "IF"               -> parseIfExpression(s)
    [] CurType(s) = "FN"               -> parseFunctionLiteral(s)
    [] CurType(s) = "TYPE"             -> parseTypeLiteral(s)
    [] CurType(s) = "WHILE"            -> parseWhileExpression(s)
    [] CurType(s) = "FOR"              -> parseForExpression(s)
    [] CurType(s) = "["                -> parseArrayLiteral(s)
    [] CurType(s) = "{"                -> parseDictOrSetLiteral(s)

Infix(s, left) ==
  CASE CurType(s) = "(" ->
         LET arguments == parseExpressionList(s, ")")
         IN Return(arguments, Node("CallExpression", "", <<left>> \o arguments.node.children))
    [] CurType(s) \in {".", "::"} ->
         Expect(s, "IDENT", LAMBDA s1 :
           Return(s1, Node(IF CurType(s) = "." THEN "MemberExpression"
                                               ELSE "ModuleMemberExpression", "",
                           <<left, parseIdentifier(s1).node>>)))
    [] CurType(s) = "[" ->
         LET index == parseExpression(nextToken(s), LOWEST)
         IN Expect(index, "]", LAMBDA s1 :
              Return(s1, Node("IndexExpression", "", <<left, index.node>>)))
    [] OTHER ->
         LET right == parseExpression(nextToken(s), Precedence(CurType(s)))
         IN Return(right, Node("InfixExpression", CurType(s), <<left, right.node>>))

\* A mutant: an operator that binds as tight is taken as well.
InfixesFromTheRight(s, precedence) ==
  IF Precedence(PeekType(s)) # LOWEST /\ precedence <= Precedence(PeekType(s))
    THEN Infixes(Infix(nextToken(s), s.node), precedence)
    ELSE s

\* Only an operator that binds tighter than "precedence" takes what was read
\* as its left operand, which is a null pointer when it could not be read.
Infixes(s, precedence) ==
  IF PeekType(s) # ";" /\ precedence < Precedence(PeekType(s))
    THEN Infixes(Infix(nextToken(s), s.node), precedence)
    ELSE s
ExpressionAt(s, precedence) ==
  IF CurType(s) \in PrefixStarts THEN Infixes(Prefix(s), precedence) ELSE parseError(s)

-----------------------------------------------------------------------------
\* Statements.  The name of a definition is copied after its value was read.
Definition(s, type) ==
  LET named == AtName(s)
      typed == OptionalType(nextToken(named))
      value == parseExpression(nextToken(typed), LOWEST)
  IN IF CurType(typed) # "=" THEN parseError(typed)
     ELSE IF CurType(named) # "IDENT" THEN Crash(value)
     ELSE Return(Skip(value, ";"),
                 Node(type, Constant(s), <<parseIdentifier(named).node, typed.node, value.node>>))

parseLetStatement(s) == Definition(nextToken(s), "LetStatement")

\* The names of a module's path are its children.
RECURSIVE PathOf(_, _)
PathOf(s, path) ==
  IF PeekType(s) = "::"
    THEN IF Peek2Type(s) = "IDENT"
           THEN PathOf(nextToken(nextToken(s)), Append(path, TokenAt(s, s.at + 2).literal))
           ELSE Crash(s)
    ELSE Return(s, Node("ModuleIdentifier", path[1],
                        [i \in DOMAIN path |-> Node("Identifier", path[i], <<>>)]))
parseImportStatement(s) ==
  LET path == PathOf(nextToken(s), <<Cur(nextToken(s)).literal>>)
  IN Return(Skip(path, ";"), Node("ImportStatement", "", <<path.node>>))

\* The token after "scope" is not looked at.
parseScopeStatement(s) ==
  LET all == StatementsOf(nextToken(nextToken(s)), <<>>, "block")
  IN Return(all, Node("ScopeStatement", "", all.node.children))

\* Comments and documentation before the definition; at the end of the type
\* the closing brace is then taken for the name.
RECURSIVE parseTypeStatement(_)
parseTypeStatement(s) ==
  CASE CurType(s) = "COMMENT" -> parseTypeStatement(nextToken(s))
    [] CurType(s) = "DOC"     -> parseTypeStatement(nextToken([s EXCEPT !.doc = Append(@, Cur(s).literal)]))
    [] OTHER                  -> Definition(s, "TypeStatement")

parseReturnStatement(s) ==
  LET value == parseExpression(nextToken(s), LOWEST)
  IN Return(Skip(value, ";"), Node("ReturnStatement", "", <<value.node>>))

\* One token is taken after the keyword whatever it is.
parseBreakStatement(s) == Return(Skip(nextToken(s), ";"), Node("BreakStatement", "", <<>>))
parseContinueStatement(s) == Return(Skip(nextToken(s), ";"), Node("ContinueStatement", "", <<>>))

parseTryExceptStatement(s) ==
  Expect(s, "{", LAMBDA s1 :
    LET statement == parseBlockStatement(s1)
    IN Expect(statement, "EXCEPT", LAMBDA s2 : Expect(s2, "(", LAMBDA s3 :
         LET named == nextToken(s3)
             name  == IF CurType(named) = "IDENT" THEN parseIdentifier(named).node
                                                  ELSE Node("Identifier", "", <<>>)
         IN BlockAfter(named, LAMBDA except :
              Return(Skip(except, ";"),
                     Node("TryExceptStatement", "", <<statement.node, name, except.node>>))))))

\* A mutant: the token after the expression is taken, whatever it is.
parseExpressionStatementAndNext(s) ==
  LET expression == parseExpression(s, LOWEST)
  IN Return(nextToken(expression), Node("ExpressionStatement", "", <<expression.node>>))

parseExpressionStatement(s) ==
  LET expression == parseExpression(s, LOWEST)
  IN Return(Skip(expression, ";"), Node("ExpressionStatement", "", <<expression.node>>))

StatementAt(s) ==
  CASE CurType(s) = "LET"      -> parseLetStatement(s)
    [] CurType(s) = "RETURN"   -> parseReturnStatement(s)
    [] CurType(s) = "BREAK"    -> parseBreakStatement(s)
    [] CurType(s) = "CONTINUE" -> parseContinueStatement(s)
    [] CurType(s) = "TRY"      -> parseTryExceptStatement(s)
    [] CurType(s) = "SCOPE"    -> parseScopeStatement(s)
    [] CurType(s) = "COMMENT"  -> Return(s, Nil)
    [] CurType(s) = "DOC"      -> Return([s EXCEPT !.doc = Append(@, Cur(s).literal)], Nil)
    [] OTHER                   -> parseExpressionStatement(s)

parse(what, s, precedence) ==
  CASE what = "expression" -> ExpressionAt(s, precedence)
    [] what = "type"       -> TypeAt(s)
    [] what = "statement"  -> StatementAt(s)

\* The loops over the statements of a program, a block or a type.  A block ends
\* at the end of the text as it does at its brace.
StatementsOf(s, done, level) ==
  LET more(end) == StatementsOf(nextToken(end),
                                IF end.node = Nil THEN done ELSE Append(done, end.node), level)
  IN CASE CurType(s) = "EOF" \/ (level # "program" /\ CurType(s) = "}") -> List(s, done)
       [] CurType(s) = "ILLEGAL" /\ level = "program"  -> List(parseError(s), done)
       [] CurType(s) = "IMPORT" /\ level = "program"   -> more(parseImportStatement(s))
       [] level = "type" /\ CurType(s) \notin {"}", "EOF"} -> more(parseTypeStatement(s))
       [] OTHER -> more(parseStatement(s))

parseProgram(text) ==
  LET all == StatementsOf(Start(text), <<>>, "program")
  IN Return(all, Node("Program", "", all.node.children))

\* The parsers that may come of a text.
Parsed(text) ==
  UNION {{Return(s, program) : program \in Arranged(s.node)} : s \in {parseProgram(text)}}
=============================================================================
