------------------------------- MODULE Lexer -------------------------------
(***************************************************************************)
(* The lexer (lex.c): next_token, an automaton over the characters of the  *)
(* text, and lex_tokenize, which appends its tokens to tokens_array.       *)
(*                                                                         *)
(* The text is not fixed.  The lexer sees the character at lexeme->end and *)
(* the one behind it; whenever it moves on, any character may come.  After *)
(* MaxChars characters, or before, the text ends with '\0'.                *)
(*                                                                         *)
(* State 1 is the start of a token.  The states of the automaton that are  *)
(* left by the same call that enters them are not states of their own      *)
(* here; a do-while loop over characters is one step per round.  With the  *)
(* last step of a token it has been appended to tokens_array and next_token *)
(* has been called again.  Lexemes are left out, except those of integers. *)
(***************************************************************************)
EXTENDS Integers, Sequences, SequencesExt, FiniteSetsExt

CONSTANTS
  Chars,     \* the characters of the text, without the '\0' at its end
  MaxChars,  \* the length of the text
  IntBits    \* the width of an int

ASSUME LexerAssumption == MaxChars \in Nat /\ IntBits \in Nat \ {0} /\ "end" \notin Chars

(* Arithmetic, stated for the proofs: the prover knows nothing of powers. *)
ASSUME PowerFact == 2^(IntBits - 1) \in Nat \ {0} /\ 2^IntBits = 2 * 2^(IntBits - 1)

VARIABLES
  here, ahead,   \* the characters at lexeme->end and behind it
  chosen,        \* how many characters of the text are known
  state,         \* the state of the automaton
  line_nr,
  last,          \* the class of the last token in tokens_array
  number,        \* the characters of lexeme[1] in an integer
  i,             \* token->i: the width and the value of the last integer
  status,        \* "run", "done", "error" or "assert"
  text,          \* history: what the characters passed so far are, see Reader
  ended          \* history: the last step has ended a token

vars == <<here, ahead, chosen, state, line_nr, last, number, i, status, text, ended>>

(***************************************************************************)
(* Characters.  cstr_is_letter, cstr_is_digit, digit_to_integer.           *)
(***************************************************************************)
Break == {"nl", "cr"}
Blanks == {"sp", "tab"} \cup Break
Value == [c \in {"0", "1", "2", "7", "8", "9", "a", "b", "f"} |->
            CASE c = "0" -> 0 [] c = "1" -> 1 [] c = "2" -> 2 [] c = "7" -> 7 [] c = "8" -> 8
              [] c = "9" -> 9 [] c = "a" -> 10 [] c = "b" -> 11 [] c = "f" -> 15]
cstr_is_letter(c) == c \in {"a", "b", "f", "g", "n", "o", "s", "w", "x"}
cstr_is_digit(c, base) == c \in DOMAIN Value /\ Value[c] < base
InName(c) == cstr_is_letter(c) \/ cstr_is_digit(c, 10) \/ c = "_"

(* Wrong on purpose: a hexadecimal digit counted from 0. *)
digit_from_zero(c, base) == IF cstr_is_letter(c) THEN Value[c] - 10 ELSE Value[c]

digit_to_integer(c, base) == Value[c]

(* Wrong on purpose: an int wider than the machine's. *)
Unwrapped(n) == n

(* An int after an overflow, as the build computes it. *)
Wrapped(n) ==
  LET m == n % 2^IntBits IN IF m < 2^(IntBits - 1) THEN m ELSE m - 2^IntBits

(* What a backslash and the character behind it stand for. *)
Escaped(c) == CASE c = "n" -> "nl" [] c = "r" -> "cr" [] c = "t" -> "tab" [] OTHER -> c

(* lexeme_copy, for the characters of an integer, of which the first alone  *)
(* may be a backslash: it is dropped, and if nothing else is there the      *)
(* character behind the lexeme is copied.  The string is shorter then than  *)
(* its memory; the byte left over is a '\0' of a page never used, for       *)
(* nothing is given back before lex_tokenize ends.                          *)
lexeme_copy(chars, behind) ==
  IF Head(chars) # "backslash" THEN chars
  ELSE IF Len(chars) = 1 THEN <<Escaped(behind)>> ELSE Tail(chars)

(* The assertions of parse_integer hold. *)
Numeral(c, base) == cstr_is_digit(c, base) \/ c = "_"
Parses(str, base) == \A k \in DOMAIN str : Numeral(str[k], base)

(* parse_integer, a round of its loop per character; the underscores in the *)
(* number count for nothing.                                                *)
parse_integer(str, base) ==
  LET result[k \in 0 .. Len(str)] ==
        IF k = 0 THEN 0
        ELSE IF str[k] = "_" THEN result[k - 1]
        ELSE Wrapped(result[k - 1] * base + digit_to_integer(str[k], base))
  IN result[Len(str)]

(***************************************************************************)
(* The text, as somebody reads it who knows strings, comments and escapes: *)
(* mode is what the last character belongs to, lines the number of the     *)
(* line.  Two different line break characters in a row are one line break. *)
(* odd is what the text had so far of the things lex.c treats in its own   *)
(* way: an escape or a line break in a string, two characters that break   *)
(* the line of a // comment.                                               *)
(***************************************************************************)
Modes == {"code", "slash", "string", "escape", "block", "star", "line"}

ModeBehind(mode, c) ==
  CASE mode \in {"code", "slash"} ->
         IF mode = "slash" /\ c = "*" THEN "block"
         ELSE IF mode = "slash" /\ c = "/" THEN "line"
         ELSE IF c = "/" THEN "slash" ELSE IF c = "quote" THEN "string" ELSE "code"
    [] mode = "string" -> IF c = "quote" THEN "code" ELSE IF c = "backslash" THEN "escape" ELSE "string"
    [] mode = "escape" -> "string"
    [] mode \in {"block", "star"} ->
         IF c = "*" THEN "star" ELSE IF mode = "star" /\ c = "/" THEN "code" ELSE "block"
    [] mode = "line" -> IF c \in Break THEN "code" ELSE "line"

Reader(t, c) ==
  LET pair == t.broke \in Break /\ c \in Break /\ c # t.broke
  IN [mode  |-> ModeBehind(t.mode, c),
      lines |-> IF c \in Break /\ ~pair THEN t.lines + 1 ELSE t.lines,
      broke |-> IF c \in Break /\ ~pair THEN c ELSE "none",
      line  |-> t.mode = "line",
      odd   |-> t.odd \cup (IF t.mode = "string" /\ c \in {"backslash"} \cup Break THEN {c} ELSE {})
                      \cup (IF pair /\ t.line THEN {"pair"} ELSE {})]

(***************************************************************************)
(* Moving on.                                                              *)
(***************************************************************************)
(* The characters that may come behind character c of the text. *)
Behind(c, n) == IF c = "end" \/ n = MaxChars THEN {"end"} ELSE Chars \cup {"end"}
Count(c) == IF c = "end" THEN 0 ELSE 1

(* char_advance(1), or lexeme_advance at the end of a token. *)
Advance ==
  /\ here # "end"
  /\ here' = ahead
  /\ ahead' \in Behind(ahead, chosen)
  /\ chosen' = chosen + Count(ahead')
  /\ text' = Reader(text, here)

(* Two characters further. *)
AdvanceTwo ==
  /\ here' \in Behind(ahead, chosen)
  /\ ahead' \in Behind(here', chosen + Count(here'))
  /\ chosen' = chosen + Count(here') + Count(ahead')
  /\ text' = Reader(Reader(text, here), ahead)

(* The token ends and is appended to tokens_array. *)
TokenIs(klass) == last' = klass /\ state' = 1 /\ ended' = TRUE
InToken(s) == state' = s /\ ended' = FALSE /\ UNCHANGED last

Stops(how) == status' = how /\ InToken(state) /\ UNCHANGED <<here, ahead, chosen, i, text>>

NoNumber == number' = << >> /\ i' = [width |-> 0, value |-> 0]
SameLine == line_nr' = line_nr
NextLine == line_nr' = line_nr + 1
Start(c) == status = "run" /\ state = 1 /\ here = c
Within(s) == status = "run" /\ state = s /\ here # "end"

Init ==
  /\ here \in Behind("start", 0)
  /\ ahead \in Behind(here, Count(here))
  /\ chosen = Count(here) + Count(ahead)
  /\ state = 1 /\ line_nr = 1 /\ last = "StartOfInput_" /\ status = "run"
  /\ number = << >> /\ i = [width |-> 0, value |-> 0]
  /\ text = [mode |-> "code", lines |-> 1, broke |-> "none", line |-> FALSE, odd |-> {}]
  /\ ended = FALSE

(***************************************************************************)
(* Blanks and tokens without a loop.                                       *)
(***************************************************************************)
(* Wrong on purpose: two line break characters are always two lines. *)
BlankUnpaired ==
  /\ status = "run" /\ state = 1 /\ here \in Blanks
  /\ Advance /\ InToken(1) /\ NoNumber /\ UNCHANGED status
  /\ IF here \in Break THEN NextLine ELSE SameLine

(* Wrong on purpose: a blank is not passed. *)
BlankKept ==
  /\ status = "run" /\ state = 1 /\ here \in Blanks
  /\ InToken(1) /\ NoNumber /\ UNCHANGED <<here, ahead, chosen, line_nr, status, text>>

(* A blank in state 1; a pair of line break characters is passed at once. *)
Blank ==
  /\ status = "run" /\ state = 1 /\ here \in Blanks
  /\ IF here \in Break /\ ahead \in Break \ {here} THEN AdvanceTwo ELSE Advance
  /\ IF here \in Break THEN NextLine ELSE SameLine
  /\ InToken(1) /\ NoNumber /\ UNCHANGED status

(* The tokens of one character. *)
SingleClass ==
  [c \in {";", ":", "(", ")", ".", "{", "}", "[", "]", ",", "+", "*", "^", "~"} |->
     CASE c = ";" -> "Semicolon"  [] c = ":" -> "Colon"       [] c = "(" -> "ParenthOpen"
       [] c = ")" -> "ParenthClose" [] c = "." -> "DotPrefix" [] c = "{" -> "BraceOpen"
       [] c = "}" -> "BraceClose" [] c = "[" -> "BracketOpen" [] c = "]" -> "BracketClose"
       [] c = "," -> "Comma"      [] c = "+" -> "Plus"        [] c = "*" -> "Star"
       [] c = "^" -> "Circumflex" [] c = "~" -> "Tilda"]

Single(c) ==
  /\ Start(c) /\ Advance /\ TokenIs(SingleClass[c])
  /\ SameLine /\ NoNumber /\ UNCHANGED status

(* Cases 101, 102, 117, 118, 120: one character, or two. *)
OneOrTwo ==
  [c \in {"<", ">", "=", "!", "|"} |->
     CASE c = "<" -> [one |-> "AngleOpen",
                      two |-> [d \in {"=", "<"} |-> IF d = "=" THEN "AngleOpenEqual" ELSE "TwoAngleOpen"]]
       [] c = ">" -> [one |-> "AngleClose",
                      two |-> [d \in {"=", ">"} |-> IF d = "=" THEN "AngleCloseEqual" ELSE "TwoAngleClose"]]
       [] c = "=" -> [one |-> "Equal", two |-> [d \in {"="} |-> "TwoEqual"]]
       [] c = "!" -> [one |-> "Exclamation", two |-> [d \in {"="} |-> "ExclamationEqual"]]
       [] c = "|" -> [one |-> "Pipe", two |-> [d \in {"|"} |-> "TwoPipe"]]]

Operator(c) ==
  /\ Start(c) /\ SameLine /\ NoNumber /\ UNCHANGED status
  /\ IF ahead \in DOMAIN OneOrTwo[c].two
     THEN AdvanceTwo /\ TokenIs(OneOrTwo[c].two[ahead])
     ELSE Advance /\ TokenIs(OneOrTwo[c].one)

(* Case 113: a minus behind an opening parenthesis is a unary one; the      *)
(* token before may be a comment.                                           *)
Minus ==
  /\ Start("-") /\ Advance /\ SameLine /\ NoNumber /\ UNCHANGED status
  /\ TokenIs(IF last = "ParenthOpen" THEN "UnaryMinus" ELSE "Minus")

(* Wrong on purpose: a third ampersand is not looked at. *)
AmpersandTwice ==
  /\ Start("&") /\ SameLine /\ NoNumber /\ UNCHANGED status
  /\ \/ ahead # "&" /\ Advance /\ TokenIs("Ampersand")
     \/ ahead = "&" /\ AdvanceTwo /\ TokenIs("TwoAmpersand")

(* Case 119, up to the third character, and its rest. *)
Ampersand ==
  /\ Start("&") /\ SameLine /\ NoNumber /\ UNCHANGED status
  /\ \/ ahead # "&" /\ Advance /\ TokenIs("Ampersand")
     \/ ahead = "&" /\ AdvanceTwo /\ here' # "&" /\ TokenIs("TwoAmpersand")
     \/ ahead = "&" /\ AdvanceTwo /\ here' = "&" /\ InToken(119)

ThirdAmpersand ==
  /\ Within(119) /\ Advance /\ TokenIs("ThreeAmpersand")
  /\ SameLine /\ NoNumber /\ UNCHANGED status

(* Case 103: an underscore that begins a name, or stands alone. *)
Underscore ==
  /\ Start("_") /\ SameLine /\ NoNumber /\ UNCHANGED status
  /\ IF InName(ahead)
     THEN InToken(500) /\ UNCHANGED <<here, ahead, chosen, text>>
     ELSE Advance /\ TokenIs("Dontcare")

(* Case 2. lex_tokenize ends behind it. *)
EndOfInput ==
  /\ Start("end") /\ TokenIs("EndOfInput_") /\ status' = "done" /\ NoNumber
  /\ UNCHANGED <<here, ahead, chosen, line_nr, text>>

(* Case 3, and the error in lex_tokenize. *)
Unknown ==
  /\ status = "run" /\ state = 1
  /\ here \notin Blanks \cup DOMAIN SingleClass \cup DOMAIN OneOrTwo
                 \cup {"-", "&", "_", "/", "quote", "end"}
  /\ ~InName(here)
  /\ TokenIs("Unknown_") /\ status' = "error" /\ NoNumber
  /\ UNCHANGED <<here, ahead, chosen, line_nr, text>>

(***************************************************************************)
(* Strings, comments and names.                                            *)
(***************************************************************************)
(* Case 200.  The state that a round sets on a backslash or a line break is *)
(* overwritten behind the loop: a backslash ends the string.                *)
StringBegins ==
  /\ Start("quote") /\ InToken(200) /\ NoNumber
  /\ UNCHANGED <<here, ahead, chosen, line_nr, status, text>>

StringRound ==
  /\ Within(200) /\ ahead \notin {"quote", "backslash"}
  /\ Advance /\ InToken(200) /\ SameLine /\ UNCHANGED <<number, i, status>>

StringEnds ==
  /\ Within(200) /\ ahead \in {"quote", "backslash"}
  /\ AdvanceTwo /\ TokenIs("StringLiteral") /\ SameLine /\ UNCHANGED <<number, i, status>>

(* Wrong on purpose: the star of the opening is not passed. *)
SlashStays ==
  /\ Start("/") /\ SameLine /\ NoNumber /\ UNCHANGED status
  /\ \/ ahead = "*" /\ InToken(310) /\ UNCHANGED <<here, ahead, chosen, text>>
     \/ ahead = "/" /\ InToken(311) /\ UNCHANGED <<here, ahead, chosen, text>>
     \/ ahead \notin {"*", "/"} /\ Advance /\ TokenIs("Slash")

(* Case 116. *)
Slash ==
  /\ Start("/") /\ SameLine /\ NoNumber /\ UNCHANGED status
  /\ \/ ahead = "*" /\ Advance /\ InToken(310)
     \/ ahead = "/" /\ InToken(311) /\ UNCHANGED <<here, ahead, chosen, text>>
     \/ ahead \notin {"*", "/"} /\ Advance /\ TokenIs("Slash")

(* Case 310, a round; the loop ends at a star, and the comment if a slash   *)
(* follows it (312 stands for this end of the case).                        *)
BlockRound ==
  /\ Within(310) /\ UNCHANGED <<number, i, status>>
  /\ \/ /\ Advance /\ ~(here' \in Break /\ ahead' \in Break \ {here'})
        /\ IF here' \in Break THEN NextLine ELSE SameLine
        /\ InToken(IF here' = "*" /\ ahead' = "/" THEN 312 ELSE 310)
     \/ /\ ahead \in Break /\ AdvanceTwo /\ here' \in Break \ {ahead}
        /\ NextLine /\ InToken(310)

BlockEnds ==
  /\ Within(312) /\ AdvanceTwo /\ TokenIs("Comment") /\ SameLine /\ UNCHANGED <<number, i, status>>

(* Case 311: the character that breaks the line belongs to the comment. *)
LineRound ==
  /\ Within(311) /\ UNCHANGED <<number, i, status>>
  /\ \/ ahead \notin Break /\ Advance /\ InToken(311) /\ SameLine
     \/ ahead \in Break /\ AdvanceTwo /\ TokenIs("Comment") /\ NextLine

(* Wrong on purpose: a name ends at a blank only. *)
NameUntilBlank ==
  /\ Within(500) /\ Advance /\ SameLine /\ UNCHANGED <<number, i, status>>
  /\ IF here' \notin Blanks THEN InToken(500) ELSE TokenIs("Identifier")

(* Case 500. *)
NameBegins ==
  /\ status = "run" /\ state = 1 /\ cstr_is_letter(here) /\ InToken(500) /\ NoNumber
  /\ UNCHANGED <<here, ahead, chosen, line_nr, status, text>>

NameRound ==
  /\ Within(500) /\ Advance /\ SameLine /\ UNCHANGED <<number, i, status>>
  /\ IF InName(here') THEN InToken(500) ELSE TokenIs("Identifier")

(***************************************************************************)
(* Integers.                                                               *)
(***************************************************************************)
(* Cases 400 and 405: the base is chosen by the letter behind a zero, whose *)
(* two characters are passed.  Behind a width, 405 to 409 are the same      *)
(* cases as 400 to 404.                                                     *)
Prefix == [c \in {"x", "o", "b"} |-> CASE c = "x" -> 402 [] c = "o" -> 403 [] c = "b" -> 404]
BehindWidth == [s \in 401 .. 404 |-> IF s = 401 THEN 409 ELSE s + 4]
Base == [s \in {401, 402, 403, 404, 406, 407, 408, 409} |->
           IF s \in {401, 409} THEN 10 ELSE IF s \in {402, 406} THEN 16
           ELSE IF s \in {403, 407} THEN 8 ELSE 2]

ChooseBase(decimal, based(_)) ==
  IF here = "0" /\ ahead \in DOMAIN Prefix
  THEN AdvanceTwo /\ InToken(based(Prefix[ahead]))
  ELSE InToken(decimal) /\ UNCHANGED <<here, ahead, chosen, text>>

NumberBegins ==
  /\ status = "run" /\ state = 1 /\ cstr_is_digit(here, 10)
  /\ ChooseBase(401, LAMBDA s : s) /\ NoNumber /\ UNCHANGED <<line_nr, status>>

ValueBegins ==
  /\ status = "run" /\ state = 405
  /\ ChooseBase(409, LAMBDA s : BehindWidth[s])
  /\ number' = << >> /\ UNCHANGED <<i, line_nr, status>>

(* The loops of 401 to 404 and 406 to 409.  They pass their first character *)
(* whatever it is; only hexadecimal, octal and binary numbers may have      *)
(* underscores.                                                             *)
InNumber(c, s) == cstr_is_digit(c, Base[s]) \/ (c = "_" /\ Base[s] # 10)
NumberStates == DOMAIN Base

NumberRound ==
  /\ status = "run" /\ state \in NumberStates /\ here # "end" /\ InNumber(ahead, state)
  /\ Advance /\ number' = Append(number, here) /\ InToken(state)
  /\ UNCHANGED <<i, line_nr, status>>

(* 401: the digits so far are the width. *)
WidthEnds ==
  LET string == lexeme_copy(Append(number, here), ahead)
  IN /\ Within(401) /\ ahead \in {"w", "s"}
     /\ number' = Append(number, here)
     /\ IF Parses(string, 10)
        THEN /\ AdvanceTwo /\ InToken(405)
             /\ i' = [i EXCEPT !.width = parse_integer(string, 10)]
             /\ UNCHANGED status
        ELSE Stops("assert")
     /\ UNCHANGED line_nr

(* token_install_integer: the value, or the error "expected one or more     *)
(* digits" for a string that begins with none.                              *)
NumberEnds ==
  LET string == lexeme_copy(Append(number, here), ahead)
      base == Base[state]
  IN /\ status = "run" /\ state \in NumberStates /\ here # "end"
     /\ ~InNumber(ahead, state) /\ ~(state = 401 /\ ahead \in {"w", "s"})
     /\ number' = Append(number, here)
     /\ IF Parses(string, base)
        THEN /\ Advance /\ TokenIs("Integer")
             /\ i' = [i EXCEPT !.value = parse_integer(string, base)]
             /\ UNCHANGED status
        ELSE Stops(IF Numeral(Head(string), base) THEN "assert" ELSE "error")
     /\ UNCHANGED line_nr

(* The assertion in char_advance: the text ends within the token. *)
PastTheEnd ==
  /\ status = "run" /\ state \notin {1, 405} /\ here = "end"
  /\ status' = "assert"
  /\ UNCHANGED <<here, ahead, chosen, state, line_nr, last, number, i, text, ended>>

Ended == status # "run" /\ UNCHANGED vars

Next ==
  \/ Blank \/ \E c \in DOMAIN SingleClass : Single(c)
  \/ \E c \in DOMAIN OneOrTwo : Operator(c)
  \/ Minus \/ Ampersand \/ ThirdAmpersand \/ Underscore \/ EndOfInput \/ Unknown
  \/ StringBegins \/ StringRound \/ StringEnds
  \/ Slash \/ BlockRound \/ BlockEnds \/ LineRound
  \/ NameBegins \/ NameRound
  \/ NumberBegins \/ ValueBegins \/ NumberRound \/ WidthEnds \/ NumberEnds
  \/ PastTheEnd \/ Ended

(* One thread, and the whole text has been read before. *)
Spec == Init /\ [][Next]_vars /\ WF_vars(Next)

(***************************************************************************)
(* Properties.                                                             *)
(***************************************************************************)
AutomatonStates == {1, 119, 200, 310, 311, 312, 405, 500} \cup NumberStates

(* next_token is in one of its states with a character of the text, the     *)
(* line numbers stay within the text, and what parse_integer computes is an *)
(* int.                                                                     *)
LexerTypeOK ==
  /\ {here, ahead} \subseteq Chars \cup {"end"} /\ chosen \in 0 .. MaxChars
  /\ state \in AutomatonStates /\ line_nr \in 1 .. MaxChars + 1
  /\ status \in {"run", "done", "error", "assert"} /\ ended \in BOOLEAN
  /\ text.mode \in Modes /\ text.lines \in 1 .. MaxChars + 1
  /\ Range(number) \subseteq Chars /\ Len(number) <= MaxChars
  /\ \A n \in {i.width, i.value} : n \in -(2^(IntBits - 1)) .. 2^(IntBits - 1) - 1

(* next_token begins a token outside of strings and comments: what lex.c    *)
(* takes for their ends is their end, unless a string has had an escape.    *)
TokensBeginInCode ==
  status = "run" /\ state = 1 /\ "backslash" \notin text.odd
    => text.mode = "code" \/ (text.mode = "slash" /\ here \notin {"*", "/"})

(* The line number of a token is that of the text.  Not after an escape or  *)
(* a line break in a string, which is not counted, nor after a // comment   *)
(* that two characters end, the second of which next_token counts again.    *)
LinesCounted ==
  status = "run" /\ state = 1 /\ text.odd = {} => line_nr = text.lines

(* The assertion of char_advance fails only in a text that ends within a    *)
(* string or a comment, or behind the prefix or the width of an integer;    *)
(* those of parse_integer never do, for the loops over the characters of an *)
(* integer and lexeme_copy leave it nothing but digits and underscores.     *)
AssertOnlyAtEnd ==
  status = "assert"
    => \/ text.mode \in {"string", "block", "star", "line"} \/ "backslash" \in text.odd
       \/ state \in NumberStates /\ number = << >>

(* The characters that would have made a token longer. *)
Longer(klass, c) ==
  \/ klass \in {"Identifier", "Dontcare"} /\ InName(c)
  \/ klass = "Integer" /\ c \in {"0", "1"}
  \/ klass = "AngleOpen" /\ c \in {"<", "="}
  \/ klass = "AngleClose" /\ c \in {">", "="}
  \/ klass \in {"Equal", "Exclamation"} /\ c = "="
  \/ klass \in {"Ampersand", "TwoAmpersand"} /\ c = "&"
  \/ klass = "Pipe" /\ c = "|"
  \/ klass = "Slash" /\ c \in {"*", "/"}

(* next_token takes the longest token there is: the character behind it     *)
(* does not continue it.                                                    *)
LongestToken == status = "run" /\ ended => ~Longer(last, here)

(* The number that a sequence of digits denotes, without regard to int; a   *)
(* backslash that lexeme_copy drops is no digit.                            *)
Denoted(digits, base) ==
  LET ds == SelectSeq(digits, LAMBDA c : c \notin {"_", "backslash"})
  IN MapThenSumSet(LAMBDA k : Value[ds[k]] * base^(Len(ds) - k), 1 .. Len(ds))

Converted(n, digits, base) ==
  LET exact == Denoted(digits, base)
  IN (exact - n) % 2^IntBits = 0 /\ (exact < 2^(IntBits - 1) => n = exact)

(* Values and widths of integers are the numbers that their digits denote,  *)
(* in every base and with underscores anywhere, if they fit into an int,    *)
(* and otherwise equal modulo its range (parse_integer).                    *)
IntegersConverted ==
  [][/\ ended' /\ last' = "Integer" => Converted(i'.value, number', Base[state])
     /\ state' = 405 => Converted(i'.width, number', 10)]_vars

(* lex_tokenize comes to the end of every text, or stops with an error or   *)
(* the assertion.                                                           *)
LexerEnds == <>(status # "run")
=============================================================================
