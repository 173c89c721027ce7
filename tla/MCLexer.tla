------------------------------ MODULE MCLexer ------------------------------
(* Texts over small alphabets, one for each part of the scanner.          *)
EXTENDS Lexer

TextsOf(C, n) ==
  LET texts[i \in 0 .. n] ==
        IF i = 0 THEN {<<>>}
                 ELSE texts[i - 1] \cup {<<c>> \o s : c \in C, s \in texts[i - 1]}
  IN texts[n]

MCInputs ==
  LET Quoted(S) == {<<"\"">> \o s \o <<"\"">> : s \in S}
  IN UNION {TextsOf({"1", ".", "e", "-"}, 5),
            TextsOf({"/", "!", "\n", "a", "\r"}, 5),
            TextsOf({"\"", "\\", "0", "7", "n", "\n"}, 4),
            Quoted(TextsOf({"\\", "0", "7"}, 5)),
            TextsOf({"=", "!", "+", "-", ">", "*", "/"}, 3),
            TextsOf({"<", "=", ":", "|", "&", "%", ";", "(", "}", "$"}, 3),
            TextsOf({"i", "f", "n", " ", "1", "_"}, 4)}
=============================================================================
