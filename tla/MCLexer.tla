------------------------------ MODULE MCLexer ------------------------------
(* Texts over characters of every kind: line breaks, a token of one         *)
(* character, all that take part in operators of several characters, in     *)
(* strings, in comments and in integers.  The backslash is also a character *)
(* that begins no token.                                                    *)
EXTENDS Lexer

MCChars == {"nl", "cr", "(", "-", "/", "*", "quote", "backslash", "&", "<",
            "_", "0", "9", "b", "w", "x"}
=============================================================================
