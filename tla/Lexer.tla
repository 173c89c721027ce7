-------------------------------- MODULE Lexer --------------------------------
(***************************************************************************)
(* The scanner of src/interp/Lexer.cpp.  A call of nextToken skips blanks  *)
(* and reads one token; the parser calls it until the token is EOF.  The   *)
(* reading position always follows the position by one and the current     *)
(* character is the one at the position, so that the state of a Lexer is   *)
(* its position and its line number.  Columns are left out.  A text is a    *)
(* sequence of characters.                                                 *)
(***************************************************************************)
EXTENDS Integers, Sequences, FiniteSetsExt

CONSTANT Inputs      \* the texts a lexer is created on

NUL == "\f"          \* stands for the character 0: no text of Inputs holds it

VARIABLES input,     \* Lexer.input
          lexer,     \* Lexer.position and Lexer.lineNumber
          token      \* the last token returned, and the text it was read from

vars == <<input, lexer, token>>

Digits == {"0", "1", "2", "3", "4", "5", "6", "7", "8", "9"}
Letters == {"a", "b", "c", "d", "e", "f", "g", "h", "i", "j", "k", "l", "m",
            "n", "o", "p", "q", "r", "s", "t", "u", "v", "w", "x", "y", "z",
            "A", "B", "C", "X", "_"}
Blanks == {" ", "\t", "\n", "\r"}

OneCharacter == {"=", ";", "(", ")", "[", "]", ",", "!", "+", "-", "/", "*",
                 "%", ":", "<", ">", "{", "}", "."}
TwoCharacters ==
  {<<"=", "=">>, <<"!", "=">>, <<"+", "=">>, <<"-", "=">>, <<"-", ">">>,
   <<"/", "=">>, <<"*", "*">>, <<"*", "=">>, <<"|", "|">>, <<"&", "&">>,
   <<":", ":">>, <<"<", "=">>, <<">", "=">>, <<".", ".">>}
CommentSign == <<"/", "/">>
DocSign == <<"/", "!">>

\* The characters of a text: $ stands for those that start no token.
Characters == Digits \cup Letters \cup Blanks \cup OneCharacter
                \cup {"|", "&", "\"", "\\", "$"}

ASSUME InputsAreTexts == \A text \in Inputs : text \in Seq(Characters)

tokenToKeyword ==
  {<<"TYPE", <<"t", "y", "p", "e">>>>, <<"FUNCTION", <<"f", "n">>>>,
   <<"LET", <<"l", "e", "t">>>>, <<"IMPORT", <<"i", "m", "p", "o", "r", "t">>>>,
   <<"SCOPE", <<"s", "c", "o", "p", "e">>>>, <<"IF", <<"i", "f">>>>,
   <<"ELSE", <<"e", "l", "s", "e">>>>,
   <<"RETURN", <<"r", "e", "t", "u", "r", "n">>>>,
   <<"TRUE", <<"t", "r", "u", "e">>>>, <<"FALSE", <<"f", "a", "l", "s", "e">>>>,
   <<"NULL_T", <<"n", "u", "l", "l">>>>, <<"WHILE", <<"w", "h", "i", "l", "e">>>>,
   <<"BREAK", <<"b", "r", "e", "a", "k">>>>, <<"CONST", <<"c", "o", "n", "s", "t">>>>,
   <<"ANY", <<"a", "n", "y">>>>, <<"ALL", <<"a", "l", "l">>>>,
   <<"OPERATOR", <<"o", "p">>>>, <<"IN", <<"i", "n">>>>, <<"FOR", <<"f", "o", "r">>>>,
   <<"TRY", <<"t", "r", "y">>>>, <<"EXCEPT", <<"e", "x", "c", "e", "p", "t">>>>,
   <<"CONTINUE", <<"c", "o", "n", "t", "i", "n", "u", "e">>>>}

CharAt(p) == IF p < Len(input) THEN input[p + 1] ELSE NUL

\* The characters from position p up to position q, or the end of the input.
Text(p, q) == SubSeq(input, p + 1, Min({q, Len(input)}))

\* Where a loop that reads while the character is in C, from p, stops.
Past(p, C) == Min({q \in p .. Len(input) : CharAt(q) \notin C} \cup {Len(input)})

\* Where a loop that reads until the next character is in C, or 0, stops.
Before(p, C) == Min({q \in p .. Len(input) : CharAt(q + 1) \in C \cup {NUL}})

Lines(p, q) == Cardinality({r \in p .. q - 1 : CharAt(r) = "\n"})

lookupIdent(word) ==
  IF \E pair \in tokenToKeyword : pair[2] = word
    THEN (CHOOSE pair \in tokenToKeyword : pair[2] = word)[1]
    ELSE "IDENT"

-----------------------------------------------------------------------------
\* The difference of a character and '0'.  A letter stands for all of them:
\* each is beyond a byte as second digit and within it as third.
DigitsInOrder == <<"0", "1", "2", "3", "4", "5", "6", "7", "8", "9">>
MinusZero(c) == CASE c \in Digits -> CHOOSE d \in 0 .. 9 : DigitsInOrder[d + 1] = c
                  [] c = "\""     -> -14
                  [] c = "\\"     -> 44
                  [] OTHER        -> 49

Escapes == [n |-> "\n", t |-> "\t", r |-> "\r"]

\* The character with a given code; its identity is left out.
Octal(code) == IF code \in 0 .. 255 THEN <<"#">> ELSE <<>>

\* unEscape works on the literal with its quotes: what it makes of the
\* characters from the i-th on.  A character it does not know after a
\* backslash stays, and the backslash goes.  "beyond" says that it reads past
\* the terminating zero of its argument: size() - 4 is an unsigned number, and
\* huge for a literal of less than four characters.
UnEscaped(s) ==
  LET rest[i \in 0 .. Len(s)] ==
        LET Then(out, j) == [text |-> out \o rest[j].text, beyond |-> rest[j].beyond]
            escape == i < Len(s) - 1 /\ s[i + 1] = "\\"
            cut    == Len(s) >= 4 /\ i > Len(s) - 4
        IN IF i = Len(s) THEN [text |-> <<>>, beyond |-> FALSE]
           ELSE IF ~escape THEN Then(<<s[i + 1]>>, i + 1)
           ELSE IF s[i + 2] \in DOMAIN Escapes THEN Then(<<Escapes[s[i + 2]]>>, i + 2)
           ELSE IF s[i + 2] # "0" \/ cut THEN Then(<<>>, i + 1)
           ELSE IF i + 3 < Len(s)
             THEN Then(Octal(MinusZero(s[i + 3]) * 8 + MinusZero(s[i + 4])), i + 4)
             ELSE [text |-> <<>>, beyond |-> TRUE]
  IN rest

unEscape(s) == UnEscaped(s)[0]

-----------------------------------------------------------------------------
Init == /\ input \in Inputs
        /\ lexer = [position |-> 0, line |-> 1]
        /\ token = [type |-> "NOT_SET", literal |-> <<>>, line |-> 0, from |-> 0,
                    beyond |-> FALSE]

\* Where the token starts, and its line: skipWhitespace counts the new lines.
\* mutant: the new lines before a token are not counted
StartLineOfLast == lexer.line

Start == Past(lexer.position, Blanks)
StartLine == lexer.line + Lines(lexer.position, Start)

\* A token read from the start up to a position, where the lexer goes on.
Return(type, literal, line, end, beyond) ==
  /\ token' = [type |-> type, literal |-> literal, line |-> line, from |-> Start,
               beyond |-> beyond]
  /\ lexer' = [lexer EXCEPT !.position = end, !.line = StartLine]
  /\ UNCHANGED input

(* mutant: operators of two characters are two operators *)
OperatorOneByOne ==
  /\ CharAt(Start) \in OneCharacter
  /\ Text(Start, Start + 2) \notin {CommentSign, DocSign}
  /\ Return("SYMBOL", <<CharAt(Start)>>, StartLine, Start + 1, FALSE)

\* The second character of an operator is read before the switch breaks, the
\* last one after it.  SYMBOL stands for the types of all of them, which their
\* texts tell apart.
Operator ==
  \/ /\ Text(Start, Start + 2) \in TwoCharacters
     /\ Return("SYMBOL", Text(Start, Start + 2), StartLine, Start + 2, FALSE)
  \/ /\ CharAt(Start) \in OneCharacter
     /\ Text(Start, Start + 2) \notin TwoCharacters \cup {CommentSign, DocSign}
     /\ Return("SYMBOL", <<CharAt(Start)>>, StartLine, Start + 1, FALSE)

(* mutant: an illegal character is not read *)
IllegalStays ==
  /\ CharAt(Start) \notin OneCharacter \cup Letters \cup Digits \cup {"\"", NUL}
  /\ Text(Start, Start + 2) \notin TwoCharacters
  /\ Return("ILLEGAL", <<CharAt(Start)>>, StartLine, Start, FALSE)

\* A character that starts no token, a single & or |.
Illegal ==
  /\ CharAt(Start) \notin OneCharacter \cup Letters \cup Digits \cup {"\"", NUL}
  /\ Text(Start, Start + 2) \notin TwoCharacters
  /\ Return("ILLEGAL", <<CharAt(Start)>>, StartLine, Start + 1, FALSE)

\* Where the text of a comment ends: at its new line, or, at the end of the
\* input, one character early.
EndOfLine == LET last == Before(Start, {"\n"})
             IN IF CharAt(last + 1) = "\n" THEN last + 1 ELSE last

\* The switch reads the character that ended the comment; the comment counts
\* a line, also at the end of the input, and its token has none.
Comment ==
  /\ Text(Start, Start + 2) = CommentSign
  /\ token' = [type |-> "COMMENT", literal |-> Text(Start, EndOfLine), line |-> 0,
               from |-> Start, beyond |-> FALSE]
  /\ lexer' = [position |-> EndOfLine + 1, line |-> StartLine + 1]
  /\ UNCHANGED input

\* A documentation line leaves a carriage return out; it counts no line.
Doc ==
  /\ Text(Start, Start + 2) = DocSign
  /\ LET carrierOffset == IF CharAt(EndOfLine - 1) = "\r" THEN 1 ELSE 0
     IN Return("DOC", Text(Start, EndOfLine - carrierOffset), 0, EndOfLine + 1, FALSE)

(* mutant: the second of the two calls of readChar is missing *)
StringToQuote ==
  /\ CharAt(Start) = "\""
  /\ LET last == Before(Start, {"\""})
         escaped == unEscape(Text(Start, last + 1))
     IN Return(IF CharAt(last + 1) = NUL THEN "ILLEGAL" ELSE "STRING", escaped.text,
               0, last + 1, escaped.beyond)

\* The token of a string is a new one: the line set before it is read is lost.
\* The new lines in the string are not counted.
String ==
  /\ CharAt(Start) = "\""
  /\ LET last == Before(Start, {"\""})
     IN \/ /\ CharAt(last + 1) = NUL
           /\ LET escaped == unEscape(Text(Start, last + 1))
              IN Return("ILLEGAL", escaped.text, StartLine, last + 1, escaped.beyond)
        \/ /\ CharAt(last + 1) = "\""
           /\ LET escaped == unEscape(Text(Start, last + 2))
              IN Return("STRING", escaped.text, 0, last + 2, escaped.beyond)

Word ==
  /\ CharAt(Start) \in Letters
  /\ LET end == Past(Start, Letters \cup Digits)
     IN Return(lookupIdent(Text(Start, end)), Text(Start, end), StartLine, end, FALSE)

\* The part of a number after its fraction: an e, a sign, and digits.
Number ==
  /\ CharAt(Start) \in Digits
  /\ LET whole    == Past(Start, Digits)
         fraction == Past(whole + 1, Digits)
         sign     == fraction + 1
         exponent == IF CharAt(sign) \in {"-", "+"} THEN sign + 1 ELSE sign
         Read(type, end) == Return(type, Text(Start, end), StartLine, end, FALSE)
     IN \/ /\ CharAt(whole) # "." \/ CharAt(whole + 1) = "."
           /\ Read("INT", whole)
        \/ /\ CharAt(whole) = "." /\ CharAt(whole + 1) # "."
           /\ CharAt(fraction) # "e"
           /\ Read("DOUBLE", fraction)
        \/ /\ CharAt(whole) = "." /\ CharAt(whole + 1) # "."
           /\ CharAt(fraction) = "e"
           /\ IF CharAt(exponent) \in Digits
                THEN Read("DOUBLE", Past(exponent, Digits))
                ELSE Read("ILLEGAL", exponent)

\* The parser asks for two tokens more than it needs, all of them EOF.
EndOfInput ==
  /\ CharAt(Start) = NUL
  /\ token.type # "EOF"
  /\ Return("EOF", <<>>, StartLine, Start + 1, FALSE)

nextToken == \/ Operator \/ Illegal \/ Comment \/ Doc \/ String \/ Word \/ Number
             \/ EndOfInput

Spec == Init /\ [][nextToken]_vars /\ WF_vars(nextToken)

-----------------------------------------------------------------------------
\* The words and the numbers of the language, as a grammar.
AllIn(s, i, j, C) == \A k \in i .. j : s[k] \in C
IsWord(s) == Len(s) > 0 /\ s[1] \in Letters /\ AllIn(s, 2, Len(s), Letters \cup Digits)
IsInt(s) == Len(s) > 0 /\ AllIn(s, 1, Len(s), Digits)

\* From the i-th character on.
IsExponent(s, i) ==
  /\ s[i] = "e"
  /\ \E first \in i + 1 .. Len(s) :
        /\ first = i + 1 \/ (first = i + 2 /\ s[i + 1] \in {"-", "+"})
        /\ AllIn(s, first, Len(s), Digits)

\* The point is the i-th character, and the fraction ends with the j-th.
IsDouble(s) ==
  \E i \in 2 .. Len(s) : \E j \in i .. Len(s) :
     /\ AllIn(s, 1, i - 1, Digits) /\ s[i] = "." /\ AllIn(s, i + 1, j, Digits)
     /\ j = Len(s) \/ IsExponent(s, j + 1)
IsOperator(s) == s \in TwoCharacters \/ \E c \in OneCharacter : s = <<c>>
IsLexeme(s) == IsWord(s) \/ IsInt(s) \/ IsDouble(s) \/ IsOperator(s)

\* A word, a number or an operator is the longest one that starts where it
\* does: nothing that belongs to it is left for the next token.  The one
\* exception is the integer before a range, 3..5, which is not the number 3.
LongestMatch ==
  token.type \notin {"NOT_SET", "EOF", "ILLEGAL", "STRING", "COMMENT", "DOC"} =>
    /\ IsLexeme(token.literal)
    /\ token.literal = Text(token.from, lexer.position)
    /\ \A q \in lexer.position + 1 .. Len(input) :
         IsLexeme(Text(token.from, q)) =>
           IsInt(token.literal) /\ Text(lexer.position, lexer.position + 2) = <<".", ".">>

\* The parser takes the quotes of a string away by their place, the first and
\* the last character of the literal: unescaping keeps them there, and reads
\* no character beyond the literal, with one exception, an octal escape of one
\* digit before the quote, which takes the quote for its second digit.
StringsKeepTheirQuotes ==
  token.type = "STRING" =>
    LET s == Text(token.from, lexer.position)
        t == token.literal
    IN /\ ~token.beyond
       /\ Len(t) >= 1 /\ t[1] = "\""
       /\ \/ Len(t) >= 2 /\ t[Len(t)] = "\""
          \/ Len(s) >= 4 /\ s[Len(s) - 3] = "\\" /\ s[Len(s) - 2] = "0"

\* The line number follows the text: reading a token counts the new lines it
\* passes, but those in a string and the one that ends a documentation line
\* (which is why the lines of errors are too small after them), and a comment
\* counts one at the end of the input, where there is none.
LinesFollow ==
  LET passed == Lines(lexer.position, lexer'.position)
      counted == lexer'.line - lexer.line
  IN IF token'.type = "DOC"
       THEN counted = passed - Lines(lexer'.position - 1, lexer'.position)
     ELSE IF token'.type = "COMMENT" /\ lexer'.position = Len(input)
       THEN counted \in {passed, passed + 1}
     ELSE IF CharAt(token'.from) = "\""
       THEN counted = passed - Lines(token'.from, lexer'.position)
     ELSE counted = passed

LinesFollowTheText == [][LinesFollow]_vars

\* Every text comes to its end: each call of nextToken reads at least one
\* character.  The parser calls until it has seen EOF (Parser.cpp:226).
ReachesTheEnd == <>(token.type = "EOF")

=============================================================================
