------------------------------ MODULE MCSyntax ------------------------------
EXTENDS Syntax

Words(text) == [i \in DOMAIN text |->
  CASE text[i] \in {"a", "b", "c", "e"} -> Token("IDENT", text[i])
    [] text[i] \in {"1", "2"}      -> Token("INT", text[i])
    [] text[i] = "1.5"             -> Token("DOUBLE", "1.5")
    [] text[i] = "0.12345678"      -> Token("DOUBLE", "0.12345678")
    [] text[i] = "'s'"             -> Token("STRING", "s")
    [] text[i] = "'q'"          -> Token("STRING", "quote")
    [] text[i] = "'0'"          -> Token("STRING", "zero")
    [] text[i] \in {"/!x", "/! y", "/!"} -> Token("DOC", text[i])
    [] text[i] = "//"              -> Token("COMMENT", "//")
    [] text[i] = "@"               -> Token("ILLEGAL", "@")
    [] text[i] \in {"LET", "CONST", "IF", "ELSE", "WHILE", "FOR", "IN", "FN", "RETURN", "BREAK",
                    "CONTINUE", "TRY", "EXCEPT", "SCOPE", "IMPORT", "TYPE", "NULL", "ANY", "ALL",
                    "TRUE", "FALSE"} -> Keyword(text[i])
    [] OTHER -> Sign(text[i])]

Alphabet == {"a", "1", "1.5", "'s'", "/!x", "/!", "//", "@", "LET", "CONST", "IF", "ELSE", "WHILE", "FOR", "IN", "FN",
             "RETURN", "BREAK", "TRY", "EXCEPT", "SCOPE", "IMPORT", "TYPE", "NULL",
             "(", ")", "{", "}", "[", "]", ",", ";", ":", "::", ".", "..", "=", "+", "*", "<", ">", "-", "!", "->"}

Valid == {
  <<"LET", "a", "=", "1", ";", "a", "+", "b", "*", "c", ";">>,
  <<"a", "=", "b", "==", "c", "+", "1", "**", "2", "<", "b", "||", "c">>,
  <<"LET", "CONST", "a", ":", "[", "b", "]", "=", "[", "1", ",", "2", "]", ";">>,
  <<"a", ".", "b", "(", "1", ",", "c", ")", "[", "1", "]", "-", "!", "b", "::", "c">>,
  <<"/! y", "LET", "a", "=", "FN", "(", "b", ":", "c", ",", "e", ")", "->", "c", "{", "RETURN", "b", ";", "1", ";", "}">>,
  <<"IF", "(", "a", ")", "{", "b", ";", "}", "ELSE", "{", "c", ";", "}">>,
  <<"WHILE", "(", "a", ")", "{", "BREAK", ";", "b", ";", "}">>,
  <<"FOR", "(", "CONST", "a", ":", "c", "IN", "1", "..", "2", ")", "{", "CONTINUE", ";", "}">>,
  <<"TRY", "{", "a", ";", "}", "EXCEPT", "(", "e", ")", "{", "b", "}">>,
  <<"SCOPE", "{", "LET", "a", "=", "-", "1", "..", "2", ":", "2", ";", "}">>,
  <<"IMPORT", "a", "::", "b", ";", "a", ";">>,
  <<"/!x", "TYPE", "a", "{", "CONST", "b", "=", "1", ";", "/! y", "c", ":", "ANY", "=", "FN", "(", ")", "{", "}", ";", "}">>,
  <<"LET", "a", ":", "{", "b", ":", "<", "c", ",", "NULL", ">", "}", "=", "{", "a", ":", "1", ",", "b", ":", "2", "}">>,
  <<"LET", "a", ":", "FN", "(", "{", "b", "}", ")", "->", "ALL", "=", "{", "1", ",", "TRUE", "}">>,
  <<"(", "a", "+", "b", ")", "*", "(", "-", "c", ")", "[", "1.5", "]", "=", "[", "1.5", "]">>,
  <<"LET", "a", "=", "FN", "(", ")", "{", "WHILE", "(", "b", ")", "{", "BREAK", ";", "c", "}", "CONTINUE", ";", "e", "}">>,
  <<"LET", "a", "=", "1", "/!x", "//", "FN", "(", ")", "{", "/! y", "FN", "(", ")", "{", "}", "}">> }

\* Texts that are printed with other tokens.
Reread == {
  <<"a", "(", "'q'", ",", "'s'", ",", "b", ",", "'q'", ")", ";", "1", ".", "b", ";", "1", "..", "2", ".", "e">>,
  <<"a", "=", "[", "0.12345678", ",", "1.5", "]", ";", "'0'", "+", "'s'", ";", "{", "'s'", ",", "a", ",", "1", "}">> }

Shorter(text) == {RemoveAt(text, i) : i \in DOMAIN text}
Changed(text) == {[text EXCEPT ![i] = w] : i \in DOMAIN text, w \in Alphabet}
Longer(text)  == {InsertAt(text, i, w) : i \in 1 .. Len(text) + 1, w \in Alphabet}
Cut(text)     == {SubSeq(text, 1, i) : i \in DOMAIN text}

Sums == {<<"a", o, "b", p, "c", q, "e">> : o, p, q \in {"=", "==", "<", "+", "*", "**", "."}}
Small == UNION {[1 .. n -> Alphabet] : n \in 1 .. 2}

MCInputs == {Words(text) : text \in
               Sums \cup Small \cup Valid \cup Reread
               \cup UNION {Shorter(t) \cup Cut(t) : t \in Reread}
               \cup UNION {Shorter(t) \cup Changed(t) \cup Longer(t) \cup Cut(t) : t \in Valid}}
=============================================================================
