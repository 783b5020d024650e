----------------------------- MODULE LexerProofs -----------------------------
(***************************************************************************)
(* Proofs about the lexer, for texts of any length over any characters:    *)
(* next_token begins its tokens in code, counts the lines of the text,     *)
(* takes the longest token, and runs past the end of the text only where   *)
(* one may.                                                                *)
(***************************************************************************)
EXTENDS Lexer, SequenceTheorems, WellFoundedInduction, TLAPS

-----------------------------------------------------------------------------
(* The inductive invariant.  Clean: no string has had an escape so far.    *)
(* Second: the character here is the second of two that break one line.    *)
(* BadNumber: an integer whose first character is no digit and is not      *)
(* dropped either, for which next_token will stop with an error.           *)
Clean == "backslash" \notin text.odd
Second == text.broke \in Break /\ here \in Break /\ here # text.broke
BadNumber ==
  number # <<>> /\ ~Numeral(Head(number), Base[state]) /\ Head(number) # "backslash"

InCode == text.mode = "code" \/ (text.mode = "slash" /\ here \notin {"*", "/"})

(* What the reader of the text takes the last character for, in each state *)
(* of the automaton.                                                       *)
ModeInv ==
  /\ state = 1 => InCode
  /\ state = 119 => text.mode = "code" /\ here = "&"
  /\ state = 200 => \/ text.mode \in {"code", "slash"} /\ here = "quote"
                    \/ text.mode = "string" /\ here \notin {"quote", "backslash"}
  /\ state = 310 => \/ text.mode = "slash" /\ here = "*"
                    \/ /\ text.mode \in {"block", "star"}
                       /\ here = "/" => text.mode = "block"
                       /\ here = "*" => ahead # "/"
  /\ state = 312 => text.mode \in {"block", "star"} /\ here = "*" /\ ahead = "/"
  /\ state = 311 => \/ text.mode = "code" /\ here = "/" /\ ahead = "/"
                    \/ text.mode = "slash" /\ here = "/"
                    \/ text.mode = "line" /\ here \notin Break
  /\ state = 405 => text.mode = "code"
  /\ state = 500 => text.mode \in {"code", "slash"} /\ InName(here)
  /\ state \in NumberStates =>
       /\ number = <<>> => \/ text.mode = "code"
                           \/ text.mode = "slash" /\ state = 401 /\ cstr_is_digit(here, 10)
       /\ number # <<>> => InNumber(here, state)
       /\ number # <<>> /\ ~BadNumber => text.mode = "code"
  /\ state = 401 => ~BadNumber /\ (number = <<>> => cstr_is_digit(here, 10))

(* The lines.  In a block comment a line break is counted when next_token  *)
(* comes to its only or second character, otherwise when it is passed.     *)
LineInv ==
  /\ state = 310 /\ here \in Break /\ ~Second =>
       line_nr = text.lines + 1 /\ ahead \notin Break \ {here}
  /\ ~(state = 310 /\ here \in Break /\ ~Second) /\ ~(state \in NumberStates /\ BadNumber) =>
       line_nr = text.lines
  /\ Second => text.line \/ state = 310 \/ (state \in NumberStates /\ BadNumber)

Inv ==
  /\ state \in AutomatonStates
  /\ status = "run" /\ Clean => ModeInv
  /\ status = "run" /\ text.odd = {} => LineInv
  /\ AssertOnlyAtEnd

-----------------------------------------------------------------------------
(* Characters and states. *)
LEMMA ModeBehindIs ==
  ASSUME NEW c
  PROVE  /\ ModeBehind("code", c) = IF c = "/" THEN "slash" ELSE IF c = "quote" THEN "string" ELSE "code"
         /\ ModeBehind("slash", c) = IF c = "*" THEN "block" ELSE IF c = "/" THEN "line"
                                     ELSE IF c = "quote" THEN "string" ELSE "code"
         /\ ModeBehind("string", c) = IF c = "quote" THEN "code"
                                      ELSE IF c = "backslash" THEN "escape" ELSE "string"
         /\ ModeBehind("escape", c) = "string"
         /\ ModeBehind("block", c) = IF c = "*" THEN "star" ELSE "block"
         /\ ModeBehind("star", c) = IF c = "*" THEN "star" ELSE IF c = "/" THEN "code" ELSE "block"
         /\ ModeBehind("line", c) = IF c \in Break THEN "code" ELSE "line"
<1>1. ModeBehind("code", c) = IF c = "/" THEN "slash" ELSE IF c = "quote" THEN "string" ELSE "code"
  BY Zenon DEF ModeBehind
<1>2. ModeBehind("slash", c) = IF c = "*" THEN "block" ELSE IF c = "/" THEN "line"
                               ELSE IF c = "quote" THEN "string" ELSE "code"
  BY Zenon DEF ModeBehind
<1>3. ModeBehind("string", c) = IF c = "quote" THEN "code"
                                ELSE IF c = "backslash" THEN "escape" ELSE "string"
  BY Zenon DEF ModeBehind
<1>4. ModeBehind("escape", c) = "string"
  BY Zenon DEF ModeBehind
<1>5. ModeBehind("block", c) = IF c = "*" THEN "star" ELSE "block"
  BY Zenon DEF ModeBehind
<1>6. ModeBehind("star", c) = IF c = "*" THEN "star" ELSE IF c = "/" THEN "code" ELSE "block"
  BY Zenon DEF ModeBehind
<1>7. ModeBehind("line", c) = IF c \in Break THEN "code" ELSE "line"
  BY Zenon DEF ModeBehind
<1> QED BY <1>1, <1>2, <1>3, <1>4, <1>5, <1>6, <1>7, Zenon

Digits == {"0", "1", "2", "7", "8", "9", "a", "b", "f"}

LEMMA ValueIs ==
  /\ DOMAIN Value = Digits
  /\ Value["0"] = 0 /\ Value["1"] = 1
  /\ \A c \in Digits : Value[c] \in Nat
<1>1. DOMAIN Value = Digits
  BY Zenon DEF Value, Digits
<1>2. Value["0"] = 0
  BY Zenon DEF Value, Digits
<1>3. Value["1"] = 1
  BY Zenon DEF Value, Digits
<1>4. Value["2"] = 2 /\ Value["7"] = 7 /\ Value["8"] = 8 /\ Value["9"] = 9
      /\ Value["a"] = 10 /\ Value["b"] = 11 /\ Value["f"] = 15
  BY Zenon DEF Value, Digits
<1> QED BY <1>1, <1>2, <1>3, <1>4 DEF Digits

(* The characters with a meaning of their own are in no name or number. *)
Special == {"/", "*", "quote", "backslash", "end", "nl", "cr", "&", "sp", "tab"}

LEMMA NameChar == ASSUME NEW c, InName(c) PROVE c \notin Special
  BY ValueIs DEF InName, cstr_is_letter, cstr_is_digit, Digits, Special

LEMMA DigitChar == ASSUME NEW c, NEW b, cstr_is_digit(c, b) PROVE c \in Digits /\ c \notin Special
  BY ValueIs DEF cstr_is_digit, Digits, Special

LEMMA NumberChar == ASSUME NEW c, NEW s, InNumber(c, s) PROVE c \notin Special
  BY DigitChar DEF InNumber, Special

LEMMA BaseIs ==
  /\ NumberStates = {401, 402, 403, 404, 406, 407, 408, 409}
  /\ Base[401] = 10 /\ Base[402] = 16 /\ Base[403] = 8 /\ Base[404] = 2
  /\ Base[406] = 16 /\ Base[407] = 8 /\ Base[408] = 2 /\ Base[409] = 10
  BY DEF Base, NumberStates

(* 0 and 1 are digits in every base. *)
LEMMA BinaryDigit ==
  ASSUME NEW s \in NumberStates
  PROVE  cstr_is_digit("0", Base[s]) /\ cstr_is_digit("1", Base[s])
<1>1. ASSUME NEW b \in {10, 16, 8, 2} PROVE 0 < b /\ 1 < b
  OBVIOUS
<1>2. Base[s] \in {10, 16, 8, 2}
  BY BaseIs
<1>3. "0" \in DOMAIN Value /\ "1" \in DOMAIN Value
  BY ValueIs DEF Digits
<1> QED BY <1>1, <1>2, <1>3, ValueIs, Zenon DEF cstr_is_digit

LEMMA OperatorIs ==
  /\ DOMAIN OneOrTwo = {"<", ">", "=", "!", "|"}
  /\ OneOrTwo["<"] = [one |-> "AngleOpen",
        two |-> [d \in {"=", "<"} |-> IF d = "=" THEN "AngleOpenEqual" ELSE "TwoAngleOpen"]]
  /\ OneOrTwo[">"] = [one |-> "AngleClose",
        two |-> [d \in {"=", ">"} |-> IF d = "=" THEN "AngleCloseEqual" ELSE "TwoAngleClose"]]
  /\ OneOrTwo["="] = [one |-> "Equal", two |-> [d \in {"="} |-> "TwoEqual"]]
  /\ OneOrTwo["!"] = [one |-> "Exclamation", two |-> [d \in {"="} |-> "ExclamationEqual"]]
  /\ OneOrTwo["|"] = [one |-> "Pipe", two |-> [d \in {"|"} |-> "TwoPipe"]]
  BY Zenon DEF OneOrTwo

Alone == {"Semicolon", "Colon", "ParenthOpen", "ParenthClose", "DotPrefix", "BraceOpen", "BraceClose",
          "BracketOpen", "BracketClose", "Comma", "Plus", "Star", "Circumflex", "Tilda"}

LEMMA SingleIs ==
  /\ DOMAIN SingleClass = {";", ":", "(", ")", ".", "{", "}", "[", "]", ",", "+", "*", "^", "~"}
  /\ \A c \in DOMAIN SingleClass : SingleClass[c] \in Alone
<1>1. DOMAIN SingleClass = {";", ":", "(", ")", ".", "{", "}", "[", "]", ",", "+", "*", "^", "~"}
  BY Zenon DEF SingleClass
<1>2. SingleClass[";"] = "Semicolon" /\ SingleClass[":"] = "Colon"
  BY Zenon DEF SingleClass
<1>3. SingleClass["("] = "ParenthOpen" /\ SingleClass[")"] = "ParenthClose"
  BY Zenon DEF SingleClass
<1>4. SingleClass["."] = "DotPrefix" /\ SingleClass["{"] = "BraceOpen"
  BY Zenon DEF SingleClass
<1>5. SingleClass["}"] = "BraceClose" /\ SingleClass["["] = "BracketOpen"
  BY Zenon DEF SingleClass
<1>6. SingleClass["]"] = "BracketClose" /\ SingleClass[","] = "Comma"
  BY Zenon DEF SingleClass
<1>7. SingleClass["+"] = "Plus" /\ SingleClass["*"] = "Star"
  BY Zenon DEF SingleClass
<1>8. SingleClass["^"] = "Circumflex" /\ SingleClass["~"] = "Tilda"
  BY Zenon DEF SingleClass
<1> QED BY <1>1, <1>2, <1>3, <1>4, <1>5, <1>6, <1>7, <1>8 DEF Alone

LEMMA PrefixIs ==
  DOMAIN Prefix = {"x", "o", "b"} /\ Prefix["x"] = 402 /\ Prefix["o"] = 403 /\ Prefix["b"] = 404
  BY Zenon DEF Prefix

-----------------------------------------------------------------------------
(* A step within a token says nothing about the character behind one. *)
LEMMA InTokenLongest == ASSUME NEW s, InToken(s) PROVE LongestToken'
  BY DEF InToken, LongestToken

LEMMA NextLongest == LongestToken /\ [Next]_vars => LongestToken'
<1> SUFFICES ASSUME LongestToken, [Next]_vars PROVE LongestToken'
  OBVIOUS
<1>1. CASE Blank \/ StringBegins \/ StringRound \/ BlockRound \/ NameBegins \/ NumberRound
  BY <1>1, InTokenLongest
     DEF Blank, StringBegins, StringRound, BlockRound, NameBegins, NumberRound
<1>2. CASE NumberBegins \/ ValueBegins
  BY <1>2, InTokenLongest DEF NumberBegins, ValueBegins, ChooseBase
<1>3. ASSUME NEW c \in DOMAIN SingleClass, Single(c) PROVE LongestToken'
  <2>1. last' \in Alone
    BY <1>3, SingleIs DEF Single, TokenIs
  <2> QED BY <2>1 DEF LongestToken, Longer, Alone
<1>4. ASSUME NEW c \in DOMAIN OneOrTwo, Operator(c) PROVE LongestToken'
  <2>1. CASE ahead \in DOMAIN OneOrTwo[c].two
    <3>1. last' \in {"AngleOpenEqual", "TwoAngleOpen", "AngleCloseEqual", "TwoAngleClose", "TwoEqual",
                     "ExclamationEqual", "TwoPipe"}
      BY <1>4, <2>1, OperatorIs DEF Operator, TokenIs
    <3> QED BY <3>1 DEF LongestToken, Longer
  <2>2. CASE ahead \notin DOMAIN OneOrTwo[c].two
    <3>1. here' = ahead /\ last' = OneOrTwo[c].one
      BY <1>4, <2>2 DEF Operator, TokenIs, Advance
    <3> QED BY <2>2, <3>1, OperatorIs DEF LongestToken, Longer
  <2> QED BY <2>1, <2>2
<1>5. CASE Minus \/ ThirdAmpersand \/ EndOfInput \/ Unknown \/ StringEnds \/ BlockEnds
  BY <1>5 DEF Minus, ThirdAmpersand, EndOfInput, Unknown, StringEnds, BlockEnds, TokenIs,
              LongestToken, Longer
<1>6. CASE Ampersand
  BY <1>6 DEF Ampersand, Advance, TokenIs, InToken, LongestToken, Longer
<1>7. CASE Underscore
  BY <1>7 DEF Underscore, Advance, TokenIs, InToken, LongestToken, Longer
<1>8. CASE Slash
  BY <1>8 DEF Slash, Advance, TokenIs, InToken, LongestToken, Longer
<1>9. CASE LineRound
  BY <1>9 DEF LineRound, TokenIs, InToken, LongestToken, Longer
<1>10. CASE NameRound
  BY <1>10 DEF NameRound, TokenIs, InToken, LongestToken, Longer
<1>11. CASE NumberEnds
  <2>1. state \in NumberStates /\ ~InNumber(ahead, state)
    BY <1>11 DEF NumberEnds
  <2>2. ahead \notin {"0", "1"}
    BY <2>1, BinaryDigit, Zenon DEF InNumber
  <2>3. CASE Advance /\ TokenIs("Integer")
    BY <2>2, <2>3 DEF Advance, TokenIs, LongestToken, Longer
  <2> QED BY <1>11, <2>3, InTokenLongest DEF NumberEnds, Stops
<1>12. CASE PastTheEnd
  BY <1>12 DEF PastTheEnd, LongestToken
<1>13. CASE Ended \/ UNCHANGED vars
  BY <1>13 DEF Ended, vars, LongestToken, Longer, InName, cstr_is_letter, cstr_is_digit
<1>14. CASE WidthEnds
  BY <1>14, InTokenLongest, Zenon DEF WidthEnds, Stops
<1> QED BY <1>1, <1>2, <1>3, <1>4, <1>5, <1>6, <1>7, <1>8, <1>9, <1>10, <1>11, <1>12, <1>13, <1>14
        DEF Next

(* next_token takes the longest token there is, whatever the text. *)
THEOREM TokensAreLongest == Spec => []LongestToken
<1>1. Init => LongestToken
  BY DEF Init, LongestToken
<1> QED BY <1>1, NextLongest, PTL DEF Spec

-----------------------------------------------------------------------------
(* The reader of the text behind one character, and behind two. *)
LEMMA ReadOne ==
  ASSUME Advance
  PROVE  /\ here' = ahead /\ here # "end"
         /\ text'.mode = ModeBehind(text.mode, here)
         /\ Clean' => Clean /\ (text.mode = "string" => here # "backslash")
         /\ text'.odd = {} => text.odd = {} /\ (text.mode = "string" => here \notin Break)
                              /\ (Second => ~text.line)
         /\ text'.lines = IF here \in Break /\ ~Second THEN text.lines + 1 ELSE text.lines
         /\ text'.broke = IF here \in Break /\ ~Second THEN here ELSE "none"
         /\ text'.line = (text.mode = "line")
  BY DEF Advance, Reader, Clean, Second

LEMMA ReadTwo ==
  ASSUME AdvanceTwo
  PROVE  \E mid :
         /\ mid.mode = ModeBehind(text.mode, here)
         /\ text'.mode = ModeBehind(mid.mode, ahead)
         /\ Clean' => Clean /\ (text.mode = "string" => here # "backslash")
                            /\ (mid.mode = "string" => ahead # "backslash")
         /\ text'.odd = {} => text.odd = {} /\ (text.mode = "string" => here \notin Break)
                              /\ (mid.mode = "string" => ahead \notin Break)
                              /\ (Second => ~text.line)
         /\ mid.lines = IF here \in Break /\ ~Second THEN text.lines + 1 ELSE text.lines
         /\ mid.broke = IF here \in Break /\ ~Second THEN here ELSE "none"
         /\ text'.lines = IF ahead \in Break /\ ~(mid.broke \in Break /\ ahead # mid.broke)
                          THEN mid.lines + 1 ELSE mid.lines
         /\ text'.broke = IF ahead \in Break /\ ~(mid.broke \in Break /\ ahead # mid.broke)
                          THEN ahead ELSE "none"
         /\ text'.line = (mid.mode = "line")
<1> DEFINE mid == Reader(text, here)
<1>1. text' = Reader(mid, ahead)
  BY DEF AdvanceTwo
<1>2. /\ mid.mode = ModeBehind(text.mode, here)
      /\ mid.lines = IF here \in Break /\ ~Second THEN text.lines + 1 ELSE text.lines
      /\ mid.broke = IF here \in Break /\ ~Second THEN here ELSE "none"
      /\ mid.odd = text.odd \cup (IF text.mode = "string" /\ here \in {"backslash"} \cup Break THEN {here} ELSE {})
                            \cup (IF Second /\ text.line THEN {"pair"} ELSE {})
  BY DEF Reader, Second
<1> HIDE DEF mid
<1>3. /\ text'.mode = ModeBehind(mid.mode, ahead)
      /\ text'.lines = IF ahead \in Break /\ ~(mid.broke \in Break /\ ahead # mid.broke)
                       THEN mid.lines + 1 ELSE mid.lines
      /\ text'.broke = IF ahead \in Break /\ ~(mid.broke \in Break /\ ahead # mid.broke)
                       THEN ahead ELSE "none"
      /\ text'.line = (mid.mode = "line")
      /\ mid.odd \subseteq text'.odd
      /\ mid.mode = "string" /\ ahead \in {"backslash"} \cup Break => ahead \in text'.odd
  BY <1>1 DEF Reader
<1>4. Clean' => Clean /\ (text.mode = "string" => here # "backslash")
                      /\ (mid.mode = "string" => ahead # "backslash")
  BY <1>2, <1>3 DEF Clean
<1>5. text'.odd = {} => text.odd = {} /\ (text.mode = "string" => here \notin Break)
                        /\ (mid.mode = "string" => ahead \notin Break) /\ (Second => ~text.line)
  BY <1>2, <1>3
<1> QED BY <1>2, <1>3, <1>4, <1>5

(* At the start of a token. *)
LEMMA AtStart ==
  ASSUME state' = 1, status' = "run",
         Clean' => InCode',
         text'.odd = {} => line_nr' = text'.lines /\ (Second' => text'.line)
  PROVE  Inv'
<1>1. state' \in AutomatonStates /\ state' \notin NumberStates
  BY BaseIs DEF AutomatonStates
<1>2. Clean' => ModeInv'
  BY <1>1 DEF ModeInv
<1>3. text'.odd = {} => LineInv'
  BY <1>1 DEF LineInv
<1>4. AssertOnlyAtEnd'
  BY DEF AssertOnlyAtEnd
<1> QED BY <1>1, <1>2, <1>3, <1>4 DEF Inv

LEMMA BlankInv == ASSUME Inv, Blank PROVE Inv'
<1>1. status = "run" /\ state = 1 /\ here \in Blanks /\ status' = "run" /\ state' = 1
  BY DEF Blank, InToken
<1>2. Clean => text.mode \in {"code", "slash"} /\ here \notin {"*", "/", "quote"}
  BY <1>1 DEF Inv, ModeInv, InCode, Blanks, Break
<1>3. text.odd = {} => line_nr = text.lines /\ (Second => text.line)
  BY <1>1, BaseIs DEF Inv, LineInv
<1>4. CASE here \in Break /\ ahead \in Break \ {here}
  <2>1. AdvanceTwo /\ line_nr' = line_nr + 1
    BY <1>4 DEF Blank, NextLine
  <2> QED BY <1>1, <1>2, <1>3, <1>4, <2>1, ReadTwo, ModeBehindIs, AtStart DEF InCode, Second, Break
<1>5. CASE ~(here \in Break /\ ahead \in Break \ {here})
  <2>1. Advance /\ line_nr' = IF here \in Break THEN line_nr + 1 ELSE line_nr
    BY <1>5 DEF Blank, NextLine, SameLine
  <2>2. Clean' => InCode'
    BY <1>2, <2>1, ReadOne, ModeBehindIs DEF InCode
  <2>3. text'.odd = {} => line_nr' = text'.lines /\ (Second' => text'.line)
    BY <1>3, <1>5, <2>1, ReadOne DEF Second, Break
  <2> QED BY <1>1, <2>2, <2>3, AtStart
<1> QED BY <1>4, <1>5

(* One or two characters of code are passed that begin no string, comment  *)
(* or line.                                                                 *)
LEMMA PassOne ==
  ASSUME Advance, Clean => InCode, text.odd = {} => line_nr = text.lines,
         here \notin Break \cup {"/", "quote"}
  PROVE  /\ Clean' => text'.mode = "code"
         /\ text'.odd = {} => line_nr = text'.lines /\ ~Second'
<1>1. Clean' => text'.mode = "code"
  BY ReadOne, ModeBehindIs DEF InCode
<1>2. text'.odd = {} => line_nr = text'.lines /\ ~Second'
  BY ReadOne DEF Second, Break
<1> QED BY <1>1, <1>2

LEMMA PassTwo ==
  ASSUME AdvanceTwo, Clean => InCode, text.odd = {} => line_nr = text.lines,
         here \notin Break \cup {"/", "quote"}, ahead \notin Break \cup {"/", "quote"}
  PROVE  /\ Clean' => text'.mode = "code"
         /\ text'.odd = {} => line_nr = text'.lines /\ ~Second'
<1>1. Clean' => text'.mode = "code"
  BY ReadTwo, ModeBehindIs DEF InCode
<1>2. text'.odd = {} => line_nr = text'.lines /\ ~Second'
  BY ReadTwo DEF Second, Break
<1> QED BY <1>1, <1>2

(* What the invariant says at the start of a token. *)
LEMMA StartKnows ==
  ASSUME Inv, status = "run", state = 1
  PROVE  /\ Clean => InCode
         /\ text.odd = {} => line_nr = text.lines /\ (Second => text.line)
  BY BaseIs DEF Inv, ModeInv, LineInv

LEMMA SingleInv == ASSUME Inv, NEW c \in DOMAIN SingleClass, Single(c) PROVE Inv'
<1>1. status = "run" /\ state = 1 /\ here = c /\ Advance /\ state' = 1 /\ status' = "run" /\ line_nr' = line_nr
  BY DEF Single, Start, TokenIs, SameLine
<1>2. here \notin Break \cup {"/", "quote"}
  BY <1>1, SingleIs DEF Break
<1> QED BY <1>1, <1>2, StartKnows, PassOne, AtStart DEF InCode

LEMMA OperatorInv == ASSUME Inv, NEW c \in DOMAIN OneOrTwo, Operator(c) PROVE Inv'
<1>1. status = "run" /\ state = 1 /\ here = c /\ state' = 1 /\ status' = "run" /\ line_nr' = line_nr
  BY DEF Operator, Start, TokenIs, SameLine
<1>2. here \notin Break \cup {"/", "quote"}
  BY <1>1, OperatorIs DEF Break
<1>3. CASE ahead \in DOMAIN OneOrTwo[c].two
  <2>1. AdvanceTwo
    BY <1>3 DEF Operator
  <2>2. ahead \notin Break \cup {"/", "quote"}
    BY <1>3, OperatorIs DEF Break
  <2> QED BY <1>1, <1>2, <2>1, <2>2, StartKnows, PassTwo, AtStart DEF InCode
<1>4. CASE ahead \notin DOMAIN OneOrTwo[c].two
  <2>1. Advance
    BY <1>4 DEF Operator
  <2> QED BY <1>1, <1>2, <2>1, StartKnows, PassOne, AtStart DEF InCode
<1> QED BY <1>3, <1>4

LEMMA MinusInv == ASSUME Inv, Minus PROVE Inv'
<1>1. status = "run" /\ state = 1 /\ here = "-" /\ Advance /\ state' = 1 /\ status' = "run" /\ line_nr' = line_nr
  BY DEF Minus, Start, TokenIs, SameLine
<1> QED BY <1>1, StartKnows, PassOne, AtStart DEF InCode, Break

(* Within a token that is none of the numbers and comments. *)
LEMMA WithinToken ==
  ASSUME state' \in {119, 200, 500}, status' = "run",
         Clean' => ModeInv', text'.odd = {} => line_nr' = text'.lines /\ ~Second'
  PROVE  Inv'
<1>1. state' \in AutomatonStates /\ state' \notin NumberStates /\ state' # 310
  BY BaseIs DEF AutomatonStates
<1>2. text'.odd = {} => LineInv'
  BY <1>1 DEF LineInv
<1>3. AssertOnlyAtEnd'
  BY DEF AssertOnlyAtEnd
<1> QED BY <1>1, <1>2, <1>3 DEF Inv

LEMMA AmpersandInv == ASSUME Inv, Ampersand PROVE Inv'
<1>1. status = "run" /\ state = 1 /\ here = "&" /\ status' = "run" /\ line_nr' = line_nr
  BY DEF Ampersand, Start, SameLine
<1>2. CASE ahead # "&"
  <2>1. Advance /\ state' = 1
    BY <1>2 DEF Ampersand, TokenIs
  <2> QED BY <1>1, <2>1, StartKnows, PassOne, AtStart DEF InCode, Break
<1>3. CASE ahead = "&"
  <2>1. AdvanceTwo /\ (state' = 1 \/ (state' = 119 /\ here' = "&"))
    BY <1>3 DEF Ampersand, TokenIs, InToken
  <2>2. /\ Clean' => text'.mode = "code"
        /\ text'.odd = {} => line_nr = text'.lines /\ ~Second'
    BY <1>1, <1>3, <2>1, StartKnows, PassTwo DEF Break
  <2>3. CASE state' = 1
    BY <1>1, <2>2, <2>3, AtStart DEF InCode
  <2>4. CASE state' = 119 /\ here' = "&"
    <3>1. Clean' => ModeInv'
      BY <2>2, <2>4, BaseIs DEF ModeInv
    <3> QED BY <1>1, <2>2, <2>4, <3>1, WithinToken
  <2> QED BY <2>1, <2>3, <2>4
<1> QED BY <1>2, <1>3

LEMMA ThirdAmpersandInv == ASSUME Inv, ThirdAmpersand PROVE Inv'
<1>1. /\ status = "run" /\ state = 119 /\ Advance
      /\ state' = 1 /\ status' = "run" /\ line_nr' = line_nr
  BY DEF ThirdAmpersand, Within, TokenIs, SameLine
<1>2. /\ Clean => text.mode = "code" /\ here = "&"
      /\ text.odd = {} => line_nr = text.lines
  BY <1>1, BaseIs DEF Inv, ModeInv, LineInv
<1>3. Clean' => text'.mode = "code"
  BY <1>1, <1>2, ReadOne, ModeBehindIs
<1>4. text'.odd = {} => line_nr = text'.lines /\ ~Second'
  BY <1>1, <1>2, ReadOne DEF Second, Break, Clean
<1> QED BY <1>1, <1>3, <1>4, AtStart DEF InCode

LEMMA UnderscoreInv == ASSUME Inv, Underscore PROVE Inv'
<1>1. status = "run" /\ state = 1 /\ here = "_" /\ status' = "run" /\ line_nr' = line_nr
  BY DEF Underscore, Start, SameLine
<1>2. CASE InName(ahead)
  <2>1. state' = 500 /\ here' = here /\ ahead' = ahead /\ text' = text
    BY <1>2 DEF Underscore, InToken
  <2>2. InName(here)'
    BY <1>1, <2>1 DEF InName
  <2>3. Clean' => ModeInv'
    <3>1. Clean' => text'.mode \in {"code", "slash"}
      BY <1>1, <2>1, StartKnows DEF InCode, Clean
    <3> QED BY <2>1, <2>2, <3>1, BaseIs DEF ModeInv
  <2>4. text'.odd = {} => line_nr' = text'.lines /\ ~Second'
    BY <1>1, <2>1, StartKnows DEF Second, Break
  <2> QED BY <1>1, <2>1, <2>3, <2>4, WithinToken
<1>3. CASE ~InName(ahead)
  <2>1. Advance /\ state' = 1
    BY <1>3 DEF Underscore, TokenIs
  <2> QED BY <1>1, <2>1, StartKnows, PassOne, AtStart DEF InCode, Break
<1> QED BY <1>2, <1>3

LEMMA StoppedInv ==
  ASSUME state' \in AutomatonStates, status' \in {"done", "error"}
  PROVE  Inv'
  BY DEF Inv, AssertOnlyAtEnd

LEMMA EndInv == ASSUME EndOfInput \/ Unknown PROVE Inv'
  BY StoppedInv DEF EndOfInput, Unknown, TokenIs, AutomatonStates

-----------------------------------------------------------------------------
(* Strings, comments and names. *)
LEMMA StringBeginsInv == ASSUME Inv, StringBegins PROVE Inv'
<1>1. /\ status = "run" /\ state = 1 /\ here = "quote" /\ status' = "run" /\ line_nr' = line_nr
      /\ state' = 200 /\ here' = here /\ text' = text
  BY DEF StringBegins, Start, InToken
<1>2. Clean' => text'.mode \in {"code", "slash"}
  BY <1>1, StartKnows DEF InCode, Clean
<1>3. Clean' => ModeInv'
  BY <1>1, <1>2, BaseIs DEF ModeInv
<1>4. text'.odd = {} => line_nr' = text'.lines /\ ~Second'
  BY <1>1, StartKnows DEF Second, Break
<1> QED BY <1>1, <1>3, <1>4, WithinToken

LEMMA StringKnows ==
  ASSUME Inv, status = "run", state = 200
  PROVE  /\ Clean => \/ text.mode \in {"code", "slash"} /\ here = "quote"
                     \/ text.mode = "string" /\ here \notin {"quote", "backslash"}
         /\ text.odd = {} => line_nr = text.lines
  BY BaseIs DEF Inv, ModeInv, LineInv

LEMMA StringRoundInv == ASSUME Inv, StringRound PROVE Inv'
<1>1. /\ status = "run" /\ state = 200 /\ ahead \notin {"quote", "backslash"} /\ Advance
      /\ status' = "run" /\ line_nr' = line_nr /\ state' = 200
  BY DEF StringRound, Within, InToken, SameLine
<1>2. Clean' => text'.mode = "string" /\ here' \notin {"quote", "backslash"}
  BY <1>1, StringKnows, ReadOne, ModeBehindIs
<1>3. Clean' => ModeInv'
  BY <1>1, <1>2, BaseIs DEF ModeInv
<1>4. text'.odd = {} => line_nr' = text'.lines /\ ~Second'
  BY <1>1, StringKnows, ReadOne DEF Second, Break, Clean
<1> QED BY <1>1, <1>3, <1>4, WithinToken

LEMMA StringEndsInv == ASSUME Inv, StringEnds PROVE Inv'
<1>1. /\ status = "run" /\ state = 200 /\ ahead \in {"quote", "backslash"} /\ AdvanceTwo
      /\ status' = "run" /\ line_nr' = line_nr /\ state' = 1
  BY DEF StringEnds, Within, TokenIs, SameLine
<1>2. Clean' => text'.mode = "code"
  BY <1>1, StringKnows, ReadTwo, ModeBehindIs
<1>3. text'.odd = {} => line_nr' = text'.lines /\ ~Second'
  BY <1>1, StringKnows, ReadTwo DEF Second, Break, Clean
<1> QED BY <1>1, <1>2, <1>3, AtStart DEF InCode

(* Within a comment. *)
LEMMA WithinComment ==
  ASSUME state' \in {310, 311, 312}, status' = "run",
         Clean' => ModeInv', text'.odd = {} => LineInv'
  PROVE  Inv'
  BY DEF Inv, AutomatonStates, AssertOnlyAtEnd

LEMMA SlashInv == ASSUME Inv, Slash PROVE Inv'
<1>1. status = "run" /\ state = 1 /\ here = "/" /\ status' = "run" /\ line_nr' = line_nr
  BY DEF Slash, Start, SameLine
<1>2. Clean => text.mode = "code"
  BY <1>1, StartKnows DEF InCode
<1>3. CASE ahead = "*"
  <2>1. Advance /\ state' = 310
    BY <1>3 DEF Slash, InToken
  <2>2. here' = "*" /\ (Clean' => text'.mode = "slash")
    BY <1>1, <1>2, <1>3, <2>1, ReadOne, ModeBehindIs
  <2>3. text'.odd = {} => line_nr' = text'.lines
    BY <1>1, <2>1, StartKnows, ReadOne DEF Break
  <2>4. Clean' => ModeInv'
    BY <2>1, <2>2, BaseIs DEF ModeInv
  <2>5. text'.odd = {} => LineInv'
    BY <2>1, <2>2, <2>3, BaseIs DEF LineInv, Second, Break
  <2> QED BY <1>1, <2>1, <2>4, <2>5, WithinComment
<1>4. CASE ahead = "/"
  <2>1. state' = 311 /\ here' = here /\ ahead' = ahead /\ text' = text
    BY <1>4 DEF Slash, InToken
  <2>2. Clean' => ModeInv'
    BY <1>1, <1>2, <1>4, <2>1, BaseIs DEF ModeInv, Clean
  <2>3. text'.odd = {} => LineInv'
    BY <1>1, <2>1, StartKnows, BaseIs DEF LineInv, Second, Break
  <2> QED BY <1>1, <2>1, <2>2, <2>3, WithinComment
<1>5. CASE ahead \notin {"*", "/"}
  <2>1. Advance /\ state' = 1
    BY <1>5 DEF Slash, TokenIs
  <2>2. Clean' => InCode'
    BY <1>1, <1>2, <1>5, <2>1, ReadOne, ModeBehindIs DEF InCode
  <2>3. text'.odd = {} => line_nr' = text'.lines /\ ~Second'
    BY <1>1, <2>1, StartKnows, ReadOne DEF Break, Second
  <2> QED BY <1>1, <2>1, <2>2, <2>3, AtStart
<1> QED BY <1>3, <1>4, <1>5

LEMMA BlockKnows ==
  ASSUME Inv, status = "run", state = 310
  PROVE  /\ Clean => \/ text.mode = "slash" /\ here = "*"
                     \/ /\ text.mode \in {"block", "star"}
                        /\ here = "/" => text.mode = "block"
                        /\ here = "*" => ahead # "/"
         /\ text.odd = {} =>
              /\ here \in Break /\ ~Second => line_nr = text.lines + 1 /\ ahead \notin Break \ {here}
              /\ ~(here \in Break /\ ~Second) => line_nr = text.lines
  BY BaseIs DEF Inv, ModeInv, LineInv

LEMMA BlockRoundInv == ASSUME Inv, BlockRound PROVE Inv'
<1>1. status = "run" /\ state = 310 /\ status' = "run"
  BY DEF BlockRound, Within
<1>2. CASE /\ Advance /\ ~(here' \in Break /\ ahead' \in Break \ {here'})
           /\ IF here' \in Break THEN NextLine ELSE SameLine
           /\ InToken(IF here' = "*" /\ ahead' = "/" THEN 312 ELSE 310)
  <2>1. /\ state' = IF here' = "*" /\ ahead' = "/" THEN 312 ELSE 310
        /\ line_nr' = IF here' \in Break THEN line_nr + 1 ELSE line_nr
    BY <1>2 DEF InToken, NextLine, SameLine
  <2>2. Clean' => text'.mode \in {"block", "star"} /\ (here' = "/" => text'.mode = "block")
    BY <1>1, <1>2, BlockKnows, ReadOne, ModeBehindIs
  <2>3. Clean' => ModeInv'
    BY <2>1, <2>2, BaseIs DEF ModeInv
  <2>4. text'.odd = {} => line_nr = text'.lines /\ ~Second'
    BY <1>1, <1>2, BlockKnows, ReadOne DEF Second, Break
  <2>5. text'.odd = {} => LineInv'
    BY <1>2, <2>1, <2>4, BaseIs DEF LineInv, Break
  <2> QED BY <1>1, <2>1, <2>3, <2>5, WithinComment
<1>3. CASE ahead \in Break /\ AdvanceTwo /\ here' \in Break \ {ahead} /\ NextLine /\ InToken(310)
  <2>1. state' = 310 /\ line_nr' = line_nr + 1
    BY <1>3 DEF InToken, NextLine
  <2>2. Clean' => text'.mode = "block" /\ here' \notin {"/", "*"}
    BY <1>1, <1>3, BlockKnows, ReadTwo, ModeBehindIs DEF Break
  <2>3. Clean' => ModeInv'
    BY <2>1, <2>2, BaseIs DEF ModeInv
  <2>4. text'.odd = {} => line_nr' = text'.lines /\ Second'
    BY <1>1, <1>3, <2>1, BlockKnows, ReadTwo DEF Second, Break
  <2>5. text'.odd = {} => LineInv'
    BY <2>1, <2>4, BaseIs DEF LineInv
  <2> QED BY <1>1, <2>1, <2>3, <2>5, WithinComment
<1> QED BY <1>2, <1>3 DEF BlockRound

LEMMA BlockEndsInv == ASSUME Inv, BlockEnds PROVE Inv'
<1>1. status = "run" /\ state = 312 /\ AdvanceTwo /\ state' = 1 /\ status' = "run" /\ line_nr' = line_nr
  BY DEF BlockEnds, Within, TokenIs, SameLine
<1>2. /\ Clean => text.mode \in {"block", "star"} /\ here = "*" /\ ahead = "/"
      /\ text.odd = {} => line_nr = text.lines
  BY <1>1, BaseIs DEF Inv, ModeInv, LineInv
<1>3. Clean' => text'.mode = "code"
  BY <1>1, <1>2, ReadTwo, ModeBehindIs
<1>4. text'.odd = {} => line_nr' = text'.lines /\ ~Second'
  BY <1>1, <1>2, ReadTwo DEF Second, Break, Clean
<1> QED BY <1>1, <1>3, <1>4, AtStart DEF InCode

LEMMA LineRoundInv == ASSUME Inv, LineRound PROVE Inv'
<1>1. status = "run" /\ state = 311 /\ status' = "run"
  BY DEF LineRound, Within
<1>2. /\ Clean => \/ text.mode = "code" /\ here = "/" /\ ahead = "/"
                  \/ text.mode = "slash" /\ here = "/"
                  \/ text.mode = "line" /\ here \notin Break
      /\ text.odd = {} => line_nr = text.lines
  BY <1>1, BaseIs DEF Inv, ModeInv, LineInv
<1>3. CASE ahead \notin Break
  <2>1. Advance /\ state' = 311 /\ line_nr' = line_nr
    BY <1>3 DEF LineRound, InToken, SameLine
  <2>2. Clean' => \/ text'.mode = "slash" /\ here' = "/"
                  \/ text'.mode = "line" /\ here' \notin Break
    BY <1>2, <1>3, <2>1, ReadOne, ModeBehindIs
  <2>3. Clean' => ModeInv'
    BY <2>1, <2>2, BaseIs DEF ModeInv
  <2>4. text'.odd = {} => line_nr' = text'.lines /\ ~Second'
    BY <1>2, <1>3, <2>1, ReadOne DEF Second, Break, Clean
  <2>5. text'.odd = {} => LineInv'
    BY <2>1, <2>4, BaseIs DEF LineInv
  <2> QED BY <1>1, <2>1, <2>3, <2>5, WithinComment
<1>4. CASE ahead \in Break
  <2>1. AdvanceTwo /\ state' = 1 /\ line_nr' = line_nr + 1
    BY <1>4 DEF LineRound, TokenIs, NextLine
  <2>2. Clean' => text'.mode = "code" /\ text'.line
    <3>1. PICK mid : /\ mid.mode = ModeBehind(text.mode, here)
                     /\ text'.mode = ModeBehind(mid.mode, ahead)
                     /\ Clean' => Clean
                     /\ text'.line = (mid.mode = "line")
      BY <2>1, ReadTwo, Zenon
    <3>2. Clean' => mid.mode = "line"
      BY <1>2, <1>4, <3>1, ModeBehindIs DEF Break
    <3>3. Clean' => text'.mode = "code"
      BY <1>4, <3>1, <3>2, ModeBehindIs
    <3> QED BY <3>1, <3>2, <3>3, Zenon
  <2>3. text'.odd = {} => line_nr' = text'.lines
    BY <1>2, <1>4, <2>1, ReadTwo DEF Second, Break, Clean
  <2> QED BY <1>1, <2>1, <2>2, <2>3, AtStart DEF InCode, Clean
<1> QED BY <1>3, <1>4

-----------------------------------------------------------------------------
(* Integers.  parse_integer stays within an int: the loop is a function    *)
(* over the places of the string, which exists and keeps to the range by   *)
(* induction on the place.                                                 *)
IntRange == -(2^(IntBits - 1)) .. 2^(IntBits - 1) - 1
NumberChars == Digits \cup {"_"}

LEMMA WrappedRange == ASSUME NEW n \in Int PROVE Wrapped(n) \in IntRange
<1> DEFINE H == 2^(IntBits - 1)
           M == 2^IntBits
           m == n % M
<1>1. H \in Nat \ {0} /\ M = 2 * H
  BY PowerFact
<1> HIDE DEF H, M
<1>2. M \in Nat \ {0}
  BY <1>1
<1>3. m \in 0 .. M - 1
  BY <1>2
<1> HIDE DEF m
<1>4. (IF m < H THEN m ELSE m - M) \in -H .. H - 1
  BY <1>1, <1>3
<1> QED BY <1>4 DEF H, M, m, Wrapped, IntRange

LEMMA SmallestFailure ==
  ASSUME NEW T, T \subseteq Nat, T # {}
  PROVE  \E n \in T : n - 1 \notin T
<1>1. PICK n \in T : \A y \in T : <<y, n>> \notin OpToRel(<, Nat)
  BY NatLessThanWellFounded, WFMin
<1>2. \A y \in T : ~(y < n)
  BY <1>1 DEF OpToRel
<1> QED BY <1>2

(* What holds of the first value and is kept by each round holds of all. *)
LEMMA StaysIn ==
  ASSUME NEW N \in Nat, NEW f, NEW S, f[0] \in S, \A k \in 1 .. N : f[k - 1] \in S => f[k] \in S
  PROVE  \A k \in 0 .. N : f[k] \in S
<1> DEFINE T == {k \in 0 .. N : f[k] \notin S}
<1>1. ASSUME NEW n \in T, n - 1 \notin T PROVE FALSE
  <2>1. n \in 0 .. N /\ f[n] \notin S
    OBVIOUS
  <2>2. n # 0
    BY <2>1
  <2>3. n - 1 \in 0 .. N /\ n \in 1 .. N
    BY <2>1, <2>2
  <2>4. f[n - 1] \in S
    BY <1>1, <2>3
  <2> QED BY <2>1, <2>3, <2>4
<1>2. T \subseteq Nat
  OBVIOUS
<1> HIDE DEF T
<1>3. T = {}
  BY <1>1, <1>2, SmallestFailure
<1> QED BY <1>3 DEF T

(* A loop of N rounds over values in S has a sequence of values. *)
HasRun(N, S, z, step) ==
  \E f \in [0 .. N -> S] : f[0] = z /\ \A k \in 1 .. N : f[k] = step[<<f[k - 1], k>>]

LEMMA LoopRuns ==
  ASSUME NEW N \in Nat, NEW S, NEW z \in S, NEW step,
         \A r \in S : \A k \in 1 .. N : step[<<r, k>>] \in S
  PROVE  HasRun(N, S, z, step)
<1> DEFINE Runs(f, n) == f[0] = z /\ \A k \in 1 .. n : f[k] = step[<<f[k - 1], k>>]
           T == {n \in 0 .. N : ~\E f \in [0 .. n -> S] : Runs(f, n)}
<1>1. 0 \notin T
  <2> DEFINE f == [k \in 0 .. 0 |-> z]
  <2>1. f \in [0 .. 0 -> S] /\ Runs(f, 0)
    OBVIOUS
  <2> QED BY <2>1
<1>2. ASSUME NEW n \in T, n - 1 \notin T PROVE FALSE
  <2>1. n \in 0 .. N /\ ~\E f \in [0 .. n -> S] : Runs(f, n)
    OBVIOUS
  <2>2. n \in 1 .. N
    <3>1. n # 0
      BY <1>1, Zenon
    <3> QED BY <2>1, <3>1
  <2>3. PICK g \in [0 .. n - 1 -> S] : Runs(g, n - 1)
    BY <1>2, <2>2
  <2> DEFINE f == [k \in 0 .. n |-> IF k = n THEN step[<<g[n - 1], n>>] ELSE g[k]]
  <2>4. g[n - 1] \in S
    BY <2>2, <2>3
  <2>5. step[<<g[n - 1], n>>] \in S
    BY <2>2, <2>4
  <2>6. f \in [0 .. n -> S]
    BY <2>2, <2>3, <2>5
  <2>7. f[0] = z
    BY <2>2, <2>3
  <2>8. ASSUME NEW k \in 1 .. n PROVE f[k] = step[<<f[k - 1], k>>]
    <3>1. f[k - 1] = g[k - 1]
      BY <2>2
    <3>2. CASE k = n
      <4>1. f[n] = step[<<g[n - 1], n>>]
        BY <2>2
      <4> HIDE DEF f
      <4> QED BY <3>1, <3>2, <4>1, Zenon
    <3>3. CASE k # n
      <4>1. k \in 1 .. n - 1 /\ f[k] = g[k]
        BY <2>2, <3>3
      <4> QED BY <2>3, <3>1, <4>1
    <3> QED BY <3>2, <3>3
  <2>9. Runs(f, n)
    BY <2>7, <2>8
  <2> QED BY <2>1, <2>6, <2>9
<1>3. T \subseteq Nat
  OBVIOUS
<1> HIDE DEF T
<1>4. T = {}
  BY <1>2, <1>3, SmallestFailure
<1> QED BY <1>4 DEF T, HasRun

LEMMA ParseInteger ==
  ASSUME NEW str \in Seq(NumberChars), NEW base \in Nat
  PROVE  parse_integer(str, base) \in IntRange
<1> DEFINE Round(r, k) == IF str[k] = "_" THEN r
                          ELSE Wrapped(r * base + digit_to_integer(str[k], base))
           N == Len(str)
<1>1. N \in Nat /\ \A k \in 1 .. N : str[k] \in NumberChars
  OBVIOUS
<1>2. 0 \in IntRange /\ IntRange \subseteq Int
  BY PowerFact DEF IntRange
<1>3. ASSUME NEW k \in 1 .. N, NEW r \in IntRange PROVE Round(r, k) \in IntRange
  <2>1. CASE str[k] = "_"
    BY <2>1, Zenon
  <2>2. CASE str[k] # "_"
    <3>1. str[k] \in Digits
      BY <1>1, <2>2 DEF NumberChars
    <3>2. digit_to_integer(str[k], base) \in Nat
      BY <3>1, ValueIs DEF digit_to_integer
    <3>3. r \in Int
      BY <1>2
    <3>4. r * base + digit_to_integer(str[k], base) \in Int
      BY <3>2, <3>3
    <3> QED BY <2>2, <3>4, WrappedRange, Zenon
  <2> QED BY <2>1, <2>2
<1> HIDE DEF Round, N
<1>4. \E f : f = [k \in 0 .. N |-> IF k = 0 THEN 0 ELSE Round(f[k - 1], k)]
  <2> DEFINE step == [p \in IntRange \X (1 .. N) |-> Round(p[1], p[2])]
  <2>1. \A r \in IntRange, k \in 1 .. N : step[<<r, k>>] = Round(r, k)
    OBVIOUS
  <2>2. \A r \in IntRange : \A k \in 1 .. N : step[<<r, k>>] \in IntRange
    BY <1>3, <2>1, Zenon
  <2> HIDE DEF step
  <2>3. PICK f \in [0 .. N -> IntRange] : f[0] = 0 /\ \A k \in 1 .. N : f[k] = step[<<f[k - 1], k>>]
    <3>1. N \in Nat /\ 0 \in IntRange
      BY <1>1, <1>2
    <3>2. HasRun(N, IntRange, 0, step)
      BY <2>2, <3>1, LoopRuns, Zenon
    <3> QED BY <3>2, Zenon DEF HasRun
  <2>4. ASSUME NEW k \in 1 .. N PROVE f[k] = Round(f[k - 1], k)
    <3>1. f[k - 1] \in IntRange
      BY <1>1
    <3> QED BY <2>1, <2>3, <3>1, Zenon
  <2>5. f = [k \in 0 .. N |-> IF k = 0 THEN 0 ELSE Round(f[k - 1], k)]
    BY <1>1, <2>3, <2>4
  <2> QED BY <2>5
<1>5. ASSUME NEW f, f = [k \in 0 .. N |-> IF k = 0 THEN 0 ELSE Round(f[k - 1], k)]
      PROVE  f[N] \in IntRange
  <2>1. f[0] = 0 /\ \A k \in 1 .. N : f[k] = Round(f[k - 1], k)
    BY <1>1, <1>5
  <2>2. f[0] \in IntRange /\ \A k \in 1 .. N : f[k - 1] \in IntRange => f[k] \in IntRange
    BY <1>2, <1>3, <2>1, Zenon
  <2>3. \A k \in 0 .. N : f[k] \in IntRange
    BY <1>1, <2>2, StaysIn, Zenon
  <2> QED BY <1>1, <2>3
<1>6. parse_integer(str, base)
        = (CHOOSE f : f = [k \in 0 .. N |-> IF k = 0 THEN 0 ELSE Round(f[k - 1], k)])[N]
  BY Zenon DEF parse_integer, Round, N
<1> QED BY <1>4, <1>5, <1>6

-----------------------------------------------------------------------------
(* Types.  Passed is how far the lexer is in the text: lines and digits    *)
(* are bounded by it.                                                      *)
Passed == chosen - Count(here) - Count(ahead)

TextTyped ==
  /\ here \in Chars \cup {"end"} /\ ahead \in Chars \cup {"end"}
  /\ chosen \in 0 .. MaxChars /\ Passed \in Nat
  /\ text.mode \in Modes /\ text.lines \in Nat \ {0} /\ text.lines <= 1 + Passed

LinesTyped ==
  /\ line_nr \in Nat \ {0}
  /\ line_nr <= 1 + Passed + (IF state = 310 /\ here \in Break THEN 1 ELSE 0)

(* The characters of a number behind its first, and the first one of a     *)
(* number without a prefix, are digits or underscores.                     *)
NumberTyped ==
  /\ number \in Seq(Chars)
  /\ Len(number) <= IF status = "run" THEN Passed ELSE MaxChars
  /\ state \in NumberStates /\ status = "run" =>
       /\ number # <<>> \/ state = 401 => Numeral(here, Base[state])
       /\ \A k \in 2 .. Len(number) : Numeral(number[k], Base[state])
       /\ state = 401 /\ number # <<>> => Numeral(number[1], Base[state])
  /\ i \in [width : IntRange, value : IntRange]

TypeInv ==
  /\ TextTyped /\ LinesTyped /\ NumberTyped
  /\ state \in AutomatonStates
  /\ status \in {"run", "done", "error", "assert"} /\ ended \in BOOLEAN

LEMMA ModesKept == ASSUME NEW mode \in Modes, NEW c PROVE ModeBehind(mode, c) \in Modes
  BY ModeBehindIs DEF Modes

LEMMA BehindTyped ==
  ASSUME NEW c, NEW n \in 0 .. MaxChars, NEW d \in Behind(c, n)
  PROVE  d \in Chars \cup {"end"} /\ n + Count(d) \in 0 .. MaxChars
  BY LexerAssumption DEF Behind, Count

LEMMA AdvanceTyped ==
  ASSUME TextTyped, Advance
  PROVE  TextTyped' /\ Passed' = Passed + 1 /\ here \in Chars
<1>1. here \in Chars /\ here' = ahead /\ ahead' \in Behind(ahead, chosen) /\ chosen' = chosen + Count(ahead')
  BY DEF Advance, TextTyped
<1>2. ahead' \in Chars \cup {"end"} /\ chosen' \in 0 .. MaxChars
  BY <1>1, BehindTyped DEF TextTyped
<1>3. Count(here) = 1 /\ Count(ahead) \in {0, 1} /\ Count(ahead') \in {0, 1}
  BY <1>1, LexerAssumption DEF Count
<1>4. Passed' = Passed + 1
  BY <1>1, <1>3, LexerAssumption DEF Passed, TextTyped, Count
<1>5. /\ text'.mode = ModeBehind(text.mode, here)
      /\ text'.lines \in {text.lines, text.lines + 1}
  BY DEF Advance, Reader
<1> QED BY <1>1, <1>2, <1>4, <1>5, ModesKept DEF TextTyped

LEMMA AdvanceTwoTyped ==
  ASSUME TextTyped, AdvanceTwo, here # "end"
  PROVE  TextTyped' /\ Passed' = Passed + 1 + Count(ahead) /\ here \in Chars
<1>1. /\ here \in Chars
      /\ here' \in Behind(ahead, chosen) /\ ahead' \in Behind(here', chosen + Count(here'))
      /\ chosen' = chosen + Count(here') + Count(ahead')
  BY DEF AdvanceTwo, TextTyped
<1>2. here' \in Chars \cup {"end"} /\ chosen + Count(here') \in 0 .. MaxChars
  BY <1>1, BehindTyped DEF TextTyped
<1>3. ahead' \in Chars \cup {"end"} /\ chosen' \in 0 .. MaxChars
  BY <1>1, <1>2, BehindTyped
<1>4. /\ Count(here) = 1 /\ Count(ahead) \in {0, 1} /\ Count(here') \in {0, 1} /\ Count(ahead') \in {0, 1}
      /\ ahead \in Break => Count(ahead) = 1
  BY <1>1, LexerAssumption DEF Count, Break
<1>5. Passed' = Passed + 1 + Count(ahead)
  BY <1>1, <1>4 DEF Passed, TextTyped, Count
<1>6. /\ text'.mode = ModeBehind(ModeBehind(text.mode, here), ahead)
      /\ \/ text'.lines \in {text.lines, text.lines + 1}
         \/ text'.lines = text.lines + 2 /\ ahead \in Break
  <2> DEFINE mid == Reader(text, here)
  <2>1. mid.mode = ModeBehind(text.mode, here) /\ mid.lines \in {text.lines, text.lines + 1}
    BY DEF Reader
  <2>2. text' = Reader(mid, ahead)
    BY DEF AdvanceTwo
  <2> HIDE DEF mid
  <2>3. text'.mode = ModeBehind(mid.mode, ahead)
        /\ (text'.lines = mid.lines \/ (text'.lines = mid.lines + 1 /\ ahead \in Break))
    BY <2>2 DEF Reader
  <2> QED BY <2>1, <2>3 DEF TextTyped
<1>7. text'.mode \in Modes
  BY <1>6, ModesKept DEF TextTyped
<1>8. text'.lines \in Nat \ {0} /\ text'.lines <= 1 + Passed'
  BY <1>4, <1>5, <1>6 DEF TextTyped
<1> QED BY <1>1, <1>2, <1>3, <1>4, <1>5, <1>7, <1>8 DEF TextTyped

(* Outside of block comments a line is counted when its break is passed. *)
LEMMA LinesKept ==
  ASSUME TextTyped, TextTyped', LinesTyped, state # 310, Passed' >= Passed,
         \/ line_nr' = line_nr
         \/ line_nr' = line_nr + 1 /\ Passed' >= Passed + 1
  PROVE  LinesTyped'
<1>1. Passed \in Nat /\ Passed' \in Nat
  BY DEF TextTyped
<1>2. line_nr' \in Nat \ {0} /\ line_nr' <= 1 + Passed'
  BY <1>1 DEF LinesTyped
<1>3. LinesTyped'
  <2>1. ASSUME NEW x \in Nat, NEW y \in Nat, x <= 1 + y, NEW P
        PROVE  x <= 1 + y + (IF P THEN 1 ELSE 0)
    BY ONLY <2>1
  <2> QED BY <1>1, <1>2, <2>1 DEF LinesTyped
<1> QED BY <1>3

LEMMA NumberEmptied ==
  ASSUME TextTyped', number' = <<>>, i' \in [width : IntRange, value : IntRange],
         state' = 401 => Numeral(here', 10)
  PROVE  NumberTyped'
<1>1. Passed' \in Nat /\ MaxChars \in Nat
  BY LexerAssumption DEF TextTyped
<1>2. number' \in Seq(Chars) /\ Len(number') = 0
  OBVIOUS
<1> QED BY <1>1, <1>2, BaseIs DEF NumberTyped

LEMMA NoNumberTyped ==
  ASSUME TextTyped', NoNumber, state' = 401 => Numeral(here', 10)
  PROVE  NumberTyped'
<1>1. 0 \in IntRange
  BY PowerFact DEF IntRange
<1> QED BY <1>1, NumberEmptied DEF NoNumber

LEMMA NumberKept ==
  ASSUME NumberTyped, TextTyped, TextTyped', UNCHANGED <<number, i>>, status = "run", status' = "run",
         state' \notin NumberStates, Passed' >= Passed
  PROVE  NumberTyped'
<1>1. Passed \in Nat /\ Passed' \in Nat /\ Len(number) \in Nat
  BY DEF TextTyped, NumberTyped
<1> QED BY <1>1 DEF NumberTyped

(* One step of the lexer.  A step at a token without a number. *)
LEMMA PassTyped ==
  ASSUME TypeInv, status = "run", state \in {1, 119, 200, 311, 312, 500},
         \/ Advance \/ (AdvanceTwo /\ here # "end") \/ UNCHANGED <<here, ahead, chosen, text>>,
         line_nr' = line_nr \/ (line_nr' = line_nr + 1 /\ (Advance \/ (AdvanceTwo /\ here # "end"))),
         NoNumber \/ (UNCHANGED <<number, i>> /\ status' = "run"),
         state' \in {1, 119, 200, 310, 311, 500},
         status' \in {"run", "done", "error", "assert"}, ended' \in BOOLEAN
  PROVE  TypeInv'
<1>1. TextTyped /\ LinesTyped /\ NumberTyped
  BY DEF TypeInv
<1>2. /\ TextTyped' /\ Passed' >= Passed
      /\ Advance \/ (AdvanceTwo /\ here # "end") => Passed' >= Passed + 1
  <2>1. CASE Advance
    BY <1>1, <2>1, AdvanceTyped DEF TextTyped
  <2>2. CASE AdvanceTwo /\ here # "end"
    BY <1>1, <2>2, AdvanceTwoTyped DEF TextTyped, Count
  <2>3. CASE UNCHANGED <<here, ahead, chosen, text>> /\ ~Advance /\ ~(AdvanceTwo /\ here # "end")
    BY <1>1, <2>3 DEF TextTyped, Passed, Count
  <2> QED BY <2>1, <2>2, <2>3
<1>3. LinesTyped'
  BY <1>1, <1>2, LinesKept
<1>4. state' \notin NumberStates /\ state' \in AutomatonStates
  BY BaseIs DEF AutomatonStates
<1>5. NumberTyped'
  BY <1>1, <1>2, <1>4, BaseIs, NoNumberTyped, NumberKept
<1> QED BY <1>2, <1>3, <1>4, <1>5 DEF TypeInv

LEMMA BlockRoundTyped == ASSUME TypeInv, BlockRound PROVE TypeInv'
<1>1. /\ TextTyped /\ LinesTyped /\ NumberTyped
      /\ status = "run" /\ status' = "run" /\ state = 310 /\ here # "end" /\ UNCHANGED <<number, i>>
  BY DEF TypeInv, BlockRound, Within
<1>2. CASE /\ Advance /\ IF here' \in Break THEN NextLine ELSE SameLine
           /\ InToken(IF here' = "*" /\ ahead' = "/" THEN 312 ELSE 310)
  <2>1. TextTyped' /\ Passed' = Passed + 1
    BY <1>1, <1>2, AdvanceTyped
  <2>2. /\ state' \in {310, 312} /\ ended' = FALSE
        /\ line_nr' = IF here' \in Break THEN line_nr + 1 ELSE line_nr
        /\ here' \in Break => state' = 310
    BY <1>2 DEF InToken, NextLine, SameLine, Break
  <2>3. LinesTyped'
    BY <1>1, <2>1, <2>2 DEF LinesTyped, TextTyped, Break
  <2>4. state' \notin NumberStates /\ state' \in AutomatonStates
    BY <2>2, BaseIs DEF AutomatonStates
  <2>5. NumberTyped'
    BY <1>1, <2>1, <2>4, NumberKept DEF TextTyped
  <2> QED BY <1>1, <2>1, <2>2, <2>3, <2>4, <2>5 DEF TypeInv
<1>3. CASE ahead \in Break /\ AdvanceTwo /\ NextLine /\ InToken(310)
  <2>1. TextTyped' /\ Passed' = Passed + 2
    BY <1>1, <1>3, AdvanceTwoTyped DEF Count, Break, TextTyped
  <2>2. state' = 310 /\ ended' = FALSE /\ line_nr' = line_nr + 1
    BY <1>3 DEF InToken, NextLine
  <2>3. LinesTyped'
    BY <1>1, <2>1, <2>2 DEF LinesTyped, TextTyped, Break
  <2>4. state' \notin NumberStates /\ state' \in AutomatonStates
    BY <2>2, BaseIs DEF AutomatonStates
  <2>5. NumberTyped'
    BY <1>1, <2>1, <2>4, NumberKept DEF TextTyped
  <2> QED BY <1>1, <2>1, <2>2, <2>3, <2>4, <2>5 DEF TypeInv
<1> QED BY <1>2, <1>3 DEF BlockRound

(* One more character of a number. *)
LEMMA DigitAppended ==
  ASSUME TypeInv, status = "run", state \in NumberStates, here \in Chars, number' = Append(number, here)
  PROVE  /\ number' \in Seq(Chars) /\ Len(number') = Len(number) + 1 /\ number' # <<>>
         /\ Head(number') = number'[1]
         /\ \A k \in 2 .. Len(number') : Numeral(number'[k], Base[state])
         /\ state = 401 => Numeral(number'[1], Base[state])
<1>1. /\ number \in Seq(Chars) /\ Len(number) \in Nat
      /\ number # <<>> \/ state = 401 => Numeral(here, Base[state])
      /\ \A k \in 2 .. Len(number) : Numeral(number[k], Base[state])
      /\ state = 401 /\ number # <<>> => Numeral(number[1], Base[state])
  BY DEF TypeInv, NumberTyped
<1>2. /\ number' \in Seq(Chars) /\ Len(number') = Len(number) + 1 /\ number'[Len(number) + 1] = here
      /\ \A k \in 1 .. Len(number) : number'[k] = number[k]
  BY <1>1, AppendProperties
<1>3. number' # <<>> /\ Head(number') = number'[1]
  BY <1>1, <1>2
<1>4. ASSUME NEW k \in 2 .. Len(number') PROVE Numeral(number'[k], Base[state])
  <2>1. CASE k <= Len(number)
    BY <1>1, <1>2, <2>1
  <2>2. CASE k = Len(number) + 1
    <3>1. number # <<>>
      BY <1>1, <2>2
    <3> QED BY <1>1, <1>2, <2>2, <3>1
  <2> QED BY <1>1, <1>2, <2>1, <2>2
<1>5. state = 401 => Numeral(number'[1], Base[state])
  <2>1. CASE number = <<>>
    BY <1>1, <1>2, <2>1
  <2>2. CASE number # <<>>
    BY <1>1, <1>2, <2>2
  <2> QED BY <2>1, <2>2
<1> QED BY <1>2, <1>3, <1>4, <1>5

LEMMA NumeralIs == ASSUME NEW c, NEW b, Numeral(c, b) PROVE c \in NumberChars /\ c \notin Special
  BY DigitChar DEF Numeral, NumberChars, Special

(* What parse_integer accepts it converts. *)
LEMMA ParsesTyped ==
  ASSUME NEW S, NEW str \in Seq(S), NEW base \in Nat, Parses(str, base)
  PROVE  parse_integer(str, base) \in IntRange
<1>1. str \in Seq(NumberChars)
  <2>1. \A k \in 1 .. Len(str) : str[k] \in NumberChars
    BY NumeralIs DEF Parses
  <2> QED BY <2>1, ElementOfSeq, SeqDef
<1> QED BY <1>1, ParseInteger

(* The string of an integer that begins with a digit is one for             *)
(* parse_integer, and a width is the characters themselves.                 *)
LEMMA CopiedNumber ==
  ASSUME NEW chars \in Seq(Chars), chars # <<>>, NEW behind, NEW base,
         \A k \in 2 .. Len(chars) : Numeral(chars[k], base)
  PROVE  LET string == lexeme_copy(chars, behind)
         IN /\ string \in Seq(Chars \cup {Escaped(behind)}) /\ string # <<>>
            /\ Numeral(Head(string), base) => Parses(string, base)
            /\ Numeral(Head(chars), base) => string = chars
            /\ Parses(string, base) => Numeral(Head(chars), base) \/ Head(chars) = "backslash"
<1>1. Len(chars) \in Nat \ {0} /\ Head(chars) = chars[1] /\ chars[1] \in Chars
  OBVIOUS
<1>2. CASE Head(chars) # "backslash"
  <2>1. lexeme_copy(chars, behind) = chars
    BY <1>2 DEF lexeme_copy
  <2>2. chars \in Seq(Chars \cup {Escaped(behind)})
    <3>1. \A k \in 1 .. Len(chars) : chars[k] \in Chars \cup {Escaped(behind)}
      OBVIOUS
    <3> QED BY <3>1, ElementOfSeq, SeqDef
  <2>3. Numeral(Head(chars), base) => Parses(chars, base)
    BY <1>1 DEF Parses
  <2>4. Parses(chars, base) => Numeral(Head(chars), base)
    BY <1>1 DEF Parses
  <2> QED BY <2>1, <2>2, <2>3, <2>4
<1>3. CASE Head(chars) = "backslash"
  <2>1. ~Numeral(Head(chars), base)
    BY <1>3, NumeralIs DEF Special
  <2>2. CASE Len(chars) = 1
    <3>1. lexeme_copy(chars, behind) = <<Escaped(behind)>>
      BY <1>3, <2>2 DEF lexeme_copy
    <3>2. Numeral(Escaped(behind), base) => Parses(<<Escaped(behind)>>, base)
      BY DEF Parses
    <3> QED BY <1>3, <2>1, <3>1, <3>2
  <2>3. CASE Len(chars) # 1
    <3>1. lexeme_copy(chars, behind) = Tail(chars)
      BY <1>3, <2>3 DEF lexeme_copy
    <3>2. /\ Tail(chars) \in Seq(Chars) /\ Len(Tail(chars)) = Len(chars) - 1
          /\ \A k \in 1 .. Len(chars) - 1 : Tail(chars)[k] = chars[k + 1]
      BY <1>1
    <3>3. Tail(chars) # <<>> /\ Tail(chars) \in Seq(Chars \cup {Escaped(behind)})
      <4> DEFINE rest == Tail(chars)
      <4>1. rest \in Seq(Chars) /\ Len(rest) # 0
        BY <1>1, <2>3, <3>2
      <4> HIDE DEF rest
      <4>2. \A k \in 1 .. Len(rest) : rest[k] \in Chars \cup {Escaped(behind)}
        BY <4>1
      <4>3. rest # <<>> /\ rest \in Seq(Chars \cup {Escaped(behind)})
        BY <4>1, <4>2, ElementOfSeq, SeqDef
      <4> QED BY <4>3 DEF rest
    <3>4. Parses(Tail(chars), base)
      BY <1>1, <3>2 DEF Parses
    <3> QED BY <1>3, <2>1, <3>1, <3>3, <3>4
  <2> QED BY <2>2, <2>3
<1> QED BY <1>2, <1>3

LEMMA NumberBeginsTyped == ASSUME TypeInv, NumberBegins PROVE TypeInv'
<1>1. /\ TextTyped /\ LinesTyped /\ NumberTyped
      /\ status = "run" /\ status' = "run" /\ state = 1 /\ cstr_is_digit(here, 10) /\ NoNumber
      /\ line_nr' = line_nr
  BY DEF TypeInv, NumberBegins
<1>2. Numeral(here, 10) /\ here # "end"
  BY <1>1, DigitChar DEF Numeral, Special
<1>3. CASE here = "0" /\ ahead \in DOMAIN Prefix
  <2>1. AdvanceTwo /\ state' = Prefix[ahead] /\ ended' = FALSE
    BY <1>3 DEF NumberBegins, ChooseBase, InToken
  <2>2. TextTyped' /\ Passed' >= Passed
    BY <1>1, <1>2, <2>1, AdvanceTwoTyped DEF TextTyped, Count
  <2>3. state' \in {402, 403, 404}
    BY <1>3, <2>1, PrefixIs
  <2>4. state' \in AutomatonStates
    BY <2>3, BaseIs DEF AutomatonStates
  <2>5. LinesTyped' /\ NumberTyped'
    BY <1>1, <2>2, <2>3, LinesKept, NoNumberTyped
  <2> QED BY <1>1, <2>1, <2>2, <2>4, <2>5 DEF TypeInv
<1>4. CASE ~(here = "0" /\ ahead \in DOMAIN Prefix)
  <2>1. state' = 401 /\ ended' = FALSE /\ UNCHANGED <<here, ahead, chosen, text>>
    BY <1>4 DEF NumberBegins, ChooseBase, InToken
  <2>2. TextTyped' /\ Passed' >= Passed
    BY <1>1, <2>1 DEF TextTyped, Passed, Count
  <2>3. state' \in AutomatonStates
    BY <2>1, BaseIs DEF AutomatonStates
  <2>4. LinesTyped' /\ NumberTyped'
    BY <1>1, <1>2, <2>1, <2>2, LinesKept, NoNumberTyped
  <2> QED BY <1>1, <2>1, <2>2, <2>3, <2>4 DEF TypeInv
<1> QED BY <1>3, <1>4

LEMMA ValueBeginsTyped == ASSUME TypeInv, ValueBegins PROVE TypeInv'
<1>1. /\ TextTyped /\ LinesTyped /\ NumberTyped
      /\ status = "run" /\ status' = "run" /\ state = 405 /\ number' = <<>> /\ i' = i
      /\ line_nr' = line_nr
  BY DEF TypeInv, ValueBegins
<1>2. i' \in [width : IntRange, value : IntRange]
  BY <1>1 DEF NumberTyped
<1>3. CASE here = "0" /\ ahead \in DOMAIN Prefix
  <2>1. AdvanceTwo /\ state' = BehindWidth[Prefix[ahead]] /\ ended' = FALSE
    BY <1>3 DEF ValueBegins, ChooseBase, InToken
  <2>2. TextTyped' /\ Passed' >= Passed
    BY <1>1, <1>3, <2>1, AdvanceTwoTyped DEF TextTyped, Count
  <2>3. state' \in {406, 407, 408}
    BY <1>3, <2>1, PrefixIs DEF BehindWidth
  <2>4. state' \in AutomatonStates
    BY <2>3, BaseIs DEF AutomatonStates
  <2>5. LinesTyped' /\ NumberTyped'
    BY <1>1, <1>2, <2>2, <2>3, LinesKept, NumberEmptied
  <2> QED BY <1>1, <2>1, <2>2, <2>4, <2>5 DEF TypeInv
<1>4. CASE ~(here = "0" /\ ahead \in DOMAIN Prefix)
  <2>1. state' = 409 /\ ended' = FALSE /\ UNCHANGED <<here, ahead, chosen, text>>
    BY <1>4 DEF ValueBegins, ChooseBase, InToken
  <2>2. TextTyped' /\ Passed' >= Passed
    BY <1>1, <2>1 DEF TextTyped, Passed, Count
  <2>3. state' \in AutomatonStates
    BY <2>1, BaseIs DEF AutomatonStates
  <2>4. LinesTyped' /\ NumberTyped'
    BY <1>1, <1>2, <2>1, <2>2, LinesKept, NumberEmptied
  <2> QED BY <1>1, <2>1, <2>2, <2>3, <2>4 DEF TypeInv
<1> QED BY <1>3, <1>4

LEMMA InNumberIs == ASSUME NEW c, NEW s, InNumber(c, s) PROVE Numeral(c, Base[s])
  BY DEF InNumber, Numeral

LEMMA NumberRoundTyped == ASSUME TypeInv, NumberRound PROVE TypeInv'
<1>1. /\ TextTyped /\ LinesTyped /\ NumberTyped
      /\ status = "run" /\ status' = "run" /\ state \in NumberStates /\ state' = state /\ ended' = FALSE
      /\ Advance /\ InNumber(ahead, state) /\ number' = Append(number, here) /\ i' = i
      /\ line_nr' = line_nr
  BY DEF TypeInv, NumberRound, InToken
<1>2. TextTyped' /\ Passed' = Passed + 1 /\ here \in Chars
  BY <1>1, AdvanceTyped
<1>3. Numeral(here', Base[state])
  BY <1>1, InNumberIs DEF Advance
<1>4. LinesTyped'
  BY <1>1, <1>2, BaseIs, LinesKept DEF TextTyped
<1>5. NumberTyped'
  <2>1. Len(number) <= Passed /\ Len(number) \in Nat /\ Passed \in Nat
    BY <1>1 DEF NumberTyped, TextTyped
  <2>2. /\ number' \in Seq(Chars) /\ Len(number') = Len(number) + 1 /\ number' # <<>>
        /\ \A k \in 2 .. Len(number') : Numeral(number'[k], Base[state])
        /\ state = 401 => Numeral(number'[1], Base[state])
    BY <1>1, <1>2, DigitAppended
  <2>3. Len(number') <= Passed'
    BY <1>2, <2>1, <2>2
  <2> QED BY <1>1, <1>3, <2>2, <2>3 DEF NumberTyped
<1>6. state' \in AutomatonStates
  BY <1>1 DEF TypeInv
<1> QED BY <1>1, <1>2, <1>4, <1>5, <1>6 DEF TypeInv

(* The digits of a width are what parse_integer expects. *)
LEMMA WidthParses ==
  ASSUME TypeInv, WidthEnds
  PROVE  /\ number' \in Seq(Chars) /\ Len(number') = Len(number) + 1
         /\ Parses(number', 10) /\ AdvanceTwo /\ state' = 405 /\ ended' = FALSE /\ status' = "run"
         /\ i' = [i EXCEPT !.width = parse_integer(number', 10)]
<1>1. /\ status = "run" /\ state = 401 /\ here # "end" /\ number' = Append(number, here)
      /\ here \in Chars
  BY DEF TypeInv, TextTyped, WidthEnds, Within
<1>2. state \in NumberStates /\ Base[state] = 10
  BY <1>1, BaseIs
<1>3. /\ number' \in Seq(Chars) /\ Len(number') = Len(number) + 1 /\ number' # <<>>
      /\ Head(number') = number'[1] /\ Numeral(number'[1], 10)
      /\ \A k \in 2 .. Len(number') : Numeral(number'[k], 10)
  BY <1>1, <1>2, DigitAppended
<1>4. lexeme_copy(Append(number, here), ahead) = number'
  BY <1>1, <1>3, CopiedNumber
<1>5. Parses(number', 10)
  BY <1>3, <1>4, CopiedNumber
<1> QED BY <1>1, <1>3, <1>4, <1>5 DEF WidthEnds, InToken

LEMMA WidthEndsTyped == ASSUME TypeInv, WidthEnds PROVE TypeInv'
<1>1. /\ TextTyped /\ LinesTyped /\ NumberTyped
      /\ status = "run" /\ status' = "run" /\ state = 401 /\ state' = 405 /\ ended' = FALSE
      /\ here # "end" /\ AdvanceTwo
      /\ i' = [i EXCEPT !.width = parse_integer(number', 10)]
      /\ line_nr' = line_nr
  BY WidthParses DEF TypeInv, WidthEnds, Within
<1>2. TextTyped' /\ Passed' >= Passed + 1 /\ here \in Chars
  BY <1>1, AdvanceTwoTyped DEF TextTyped, Count
<1>3. LinesTyped'
  BY <1>1, <1>2, LinesKept DEF TextTyped
<1>4. NumberTyped'
  <2>1. Len(number) <= Passed /\ Len(number) \in Nat /\ Passed \in Nat /\ Passed' \in Nat
    BY <1>1, <1>2 DEF NumberTyped, TextTyped
  <2>2. number' \in Seq(Chars) /\ Len(number') = Len(number) + 1 /\ Parses(number', 10)
    BY WidthParses
  <2>3. Len(number') <= Passed'
    BY <1>2, <2>1, <2>2
  <2>4. parse_integer(number', 10) \in IntRange
    BY <2>2, ParsesTyped
  <2>5. i' \in [width : IntRange, value : IntRange]
    BY <1>1, <2>4 DEF NumberTyped
  <2> QED BY <1>1, <2>2, <2>3, <2>5, BaseIs DEF NumberTyped
<1>5. state' \in AutomatonStates
  BY <1>1 DEF AutomatonStates
<1> QED BY <1>1, <1>2, <1>3, <1>4, <1>5 DEF TypeInv

(* The string of an integer is converted, or the error stops next_token:    *)
(* never an assertion of parse_integer.                                     *)
LEMMA NumberParses ==
  ASSUME TypeInv, NumberEnds
  PROVE  /\ number' \in Seq(Chars) /\ Len(number') = Len(number) + 1 /\ number' # <<>>
         /\ \/ /\ Advance /\ state' = 1 /\ ended' = TRUE /\ status' = "run"
               /\ \E n \in IntRange : i' = [i EXCEPT !.value = n]
               /\ Numeral(Head(number'), Base[state]) \/ Head(number') = "backslash"
            \/ status' = "error" /\ state' = state /\ ended' = FALSE
               /\ UNCHANGED <<here, ahead, chosen, i, text>>
<1>1. /\ status = "run" /\ state \in NumberStates /\ number' = Append(number, here) /\ here \in Chars
  BY DEF TypeInv, TextTyped, NumberEnds
<1>2. Base[state] \in Nat
  BY <1>1, BaseIs
<1>3. /\ number' \in Seq(Chars) /\ Len(number') = Len(number) + 1 /\ number' # <<>>
      /\ \A k \in 2 .. Len(number') : Numeral(number'[k], Base[state])
  BY <1>1, DigitAppended
<1>4. PICK string : string = lexeme_copy(Append(number, here), ahead)
  OBVIOUS
<1>5. /\ string \in Seq(Chars \cup {Escaped(ahead)})
      /\ Numeral(Head(string), Base[state]) => Parses(string, Base[state])
      /\ Parses(string, Base[state]) => Numeral(Head(number'), Base[state]) \/ Head(number') = "backslash"
  BY <1>1, <1>3, <1>4, CopiedNumber
<1>6. CASE Parses(string, Base[state])
  <2>1. parse_integer(string, Base[state]) \in IntRange
    BY <1>2, <1>5, <1>6, ParsesTyped
  <2>2. /\ Advance /\ state' = 1 /\ ended' = TRUE /\ status' = "run"
        /\ i' = [i EXCEPT !.value = parse_integer(string, Base[state])]
    BY <1>1, <1>4, <1>6 DEF NumberEnds, TokenIs
  <2> QED BY <1>3, <1>5, <1>6, <2>1, <2>2
<1>7. CASE ~Parses(string, Base[state])
  <2>1. status' = "error" /\ state' = state /\ ended' = FALSE /\ UNCHANGED <<here, ahead, chosen, i, text>>
    BY <1>4, <1>5, <1>7 DEF NumberEnds, Stops, InToken
  <2> QED BY <1>3, <2>1
<1> QED BY <1>6, <1>7

LEMMA NumberEndsTyped == ASSUME TypeInv, NumberEnds PROVE TypeInv'
<1>1. /\ TextTyped /\ LinesTyped /\ NumberTyped
      /\ status = "run" /\ state \in NumberStates /\ here # "end" /\ line_nr' = line_nr
  BY DEF TypeInv, NumberEnds
<1>2. here \in Chars
  BY <1>1 DEF TextTyped
<1>3. number' \in Seq(Chars) /\ Len(number') = Len(number) + 1
  BY NumberParses
<1>4. Len(number) <= Passed /\ Len(number) \in Nat /\ Passed \in Nat
  BY <1>1 DEF NumberTyped, TextTyped
<1>5. CASE status' # "error"
  <2>1. /\ Advance /\ state' = 1 /\ ended' = TRUE /\ status' = "run"
        /\ \E n \in IntRange : i' = [i EXCEPT !.value = n]
    BY <1>5, NumberParses
  <2>2. TextTyped' /\ Passed' = Passed + 1
    BY <1>1, <2>1, AdvanceTyped
  <2>3. LinesTyped'
    BY <1>1, <2>2, BaseIs, LinesKept DEF TextTyped
  <2>4. i' \in [width : IntRange, value : IntRange]
    BY <1>1, <2>1 DEF NumberTyped
  <2>5. Len(number') <= Passed'
    BY <1>3, <1>4, <2>2
  <2>6. NumberTyped'
    BY <1>3, <2>1, <2>4, <2>5, BaseIs DEF NumberTyped
  <2> QED BY <2>1, <2>2, <2>3, <2>6 DEF TypeInv, AutomatonStates
<1>6. CASE status' = "error"
  <2>1. status' = "error" /\ state' = state /\ ended' = FALSE /\ UNCHANGED <<here, ahead, chosen, i, text>>
    BY <1>6, NumberParses
  <2>2. TextTyped' /\ Passed' = Passed
    BY <1>1, <2>1 DEF TextTyped, Passed, Count
  <2>3. LinesTyped'
    BY <1>1, <1>4, <2>2, BaseIs, LinesKept
  <2>4. Len(number') <= MaxChars
    BY <1>1, <1>2, <1>3, <1>4, LexerAssumption DEF TextTyped, Passed, Count
  <2>5. NumberTyped'
    BY <1>1, <1>3, <2>1, <2>4 DEF NumberTyped
  <2> QED BY <2>1, <2>2, <2>3, <2>5 DEF TypeInv
<1> QED BY <1>5, <1>6

LEMMA StopTyped == ASSUME TypeInv, PastTheEnd PROVE TypeInv'
<1>1. /\ TextTyped /\ LinesTyped /\ NumberTyped /\ state' = state /\ ended' = ended
      /\ UNCHANGED <<here, ahead, chosen, text, line_nr, number, i>> /\ status = "run" /\ status' = "assert"
  BY DEF PastTheEnd, TypeInv
<1>2. TextTyped' /\ LinesTyped'
  BY <1>1 DEF TextTyped, LinesTyped, Passed, Count
<1>3. Len(number) <= MaxChars
  <2>1. Len(number) <= Passed /\ Len(number) \in Nat
    BY <1>1 DEF NumberTyped
  <2>2. Passed \in Nat /\ Passed <= MaxChars
    BY <1>1, LexerAssumption DEF TextTyped, Passed, Count
  <2> QED BY <2>1, <2>2, LexerAssumption
<1>4. NumberTyped'
  BY <1>1, <1>3 DEF NumberTyped
<1> QED BY <1>1, <1>2, <1>4 DEF TypeInv

LEMMA SingleTyped == ASSUME TypeInv, NEW c, Single(c) PROVE TypeInv'
<1>1. /\ status = "run" /\ state = 1 /\ Advance /\ line_nr' = line_nr /\ NoNumber
      /\ state' = 1 /\ status' = "run" /\ ended' = TRUE
  BY DEF Single, Start, TokenIs, SameLine
<1> QED BY <1>1, PassTyped

LEMMA NextTyped == TypeInv /\ [Next]_vars => TypeInv'
<1> SUFFICES ASSUME TypeInv, [Next]_vars PROVE TypeInv'
  OBVIOUS
<1> USE DEF TokenIs, InToken, SameLine, NextLine, Start, Within
<1>1. CASE Blank
  BY <1>1, PassTyped DEF Blank, Blanks, Break
<1>2. ASSUME NEW c \in DOMAIN SingleClass, Single(c) PROVE TypeInv'
  BY <1>2, SingleTyped
<1>3. ASSUME NEW c \in DOMAIN OneOrTwo, Operator(c) PROVE TypeInv'
  <2>1. here # "end"
    BY <1>3, OperatorIs DEF Operator
  <2> QED BY <1>3, <2>1, PassTyped DEF Operator
<1>4. CASE Minus
  BY <1>4, PassTyped DEF Minus
<1>5. CASE Ampersand
  BY <1>5, PassTyped DEF Ampersand
<1>6. CASE ThirdAmpersand
  BY <1>6, PassTyped DEF ThirdAmpersand
<1>7. CASE Underscore
  BY <1>7, PassTyped DEF Underscore
<1>8. CASE EndOfInput \/ Unknown
  <2>1. CASE EndOfInput
    BY <2>1, PassTyped DEF EndOfInput
  <2>2. CASE Unknown
    BY <2>2, PassTyped DEF Unknown
  <2> QED BY <1>8, <2>1, <2>2
<1>9. CASE StringBegins \/ StringRound \/ StringEnds
  <2>1. CASE StringBegins
    BY <2>1, PassTyped DEF StringBegins
  <2>2. CASE StringRound
    BY <2>2, PassTyped DEF StringRound
  <2>3. CASE StringEnds
    BY <2>3, PassTyped DEF StringEnds
  <2> QED BY <1>9, <2>1, <2>2, <2>3
<1>10. CASE Slash
  BY <1>10, PassTyped DEF Slash
<1>11. CASE BlockEnds \/ LineRound
  <2>1. CASE BlockEnds
    BY <2>1, PassTyped DEF BlockEnds
  <2>2. CASE LineRound
    <3>1. CASE ahead \notin Break
      BY <2>2, <3>1, PassTyped DEF LineRound
    <3>2. CASE ahead \in Break
      BY <2>2, <3>2, PassTyped DEF LineRound
    <3> QED BY <3>1, <3>2
  <2> QED BY <1>11, <2>1, <2>2
<1>12. CASE NameBegins \/ NameRound
  <2>1. CASE NameBegins
    BY <2>1, PassTyped DEF NameBegins
  <2>2. CASE NameRound
    BY <2>2, PassTyped DEF NameRound
  <2> QED BY <1>12, <2>1, <2>2
<1>13. CASE Ended \/ UNCHANGED vars
  <2>1. UNCHANGED vars
    BY <1>13 DEF Ended
  <2>2. TextTyped' /\ LinesTyped' /\ NumberTyped'
    BY <2>1 DEF TypeInv, TextTyped, LinesTyped, NumberTyped, Passed, Count, vars
  <2> QED BY <2>1, <2>2 DEF TypeInv, vars
<1> QED BY <1>1, <1>2, <1>3, <1>4, <1>5, <1>6, <1>7, <1>8, <1>9, <1>10, <1>11, <1>12, <1>13,
           BlockRoundTyped, NumberBeginsTyped, ValueBeginsTyped, NumberRoundTyped, WidthEndsTyped,
           NumberEndsTyped, StopTyped DEF Next

LEMMA InitTyped == Init => TypeInv
<1> SUFFICES ASSUME Init PROVE TypeInv
  OBVIOUS
<1>1. here \in Behind("start", 0) /\ ahead \in Behind(here, Count(here)) /\ chosen = Count(here) + Count(ahead)
  BY DEF Init
<1>2. here \in Chars \cup {"end"} /\ Count(here) \in 0 .. MaxChars
  BY <1>1, LexerAssumption DEF Behind, Count
<1>3. ahead \in Chars \cup {"end"} /\ chosen \in 0 .. MaxChars
  BY <1>1, <1>2, BehindTyped
<1>4. Passed = 0
  BY <1>1 DEF Passed, Count
<1>5. TextTyped /\ LinesTyped
  BY <1>2, <1>3, <1>4 DEF Init, TextTyped, LinesTyped, Modes
<1>6. NumberTyped
  <2>1. 0 \in IntRange
    BY PowerFact DEF IntRange
  <2>2. number = <<>> /\ number \in Seq(Chars) /\ Len(number) = 0 /\ state = 1 /\ status = "run"
    BY DEF Init
  <2> QED BY <1>4, <2>1, <2>2, BaseIs DEF Init, NumberTyped
<1> QED BY <1>5, <1>6 DEF Init, TypeInv, AutomatonStates

(* next_token stays in the states of its automaton, and the line numbers   *)
(* and the integers of the tokens within the text and the range of int.    *)
THEOREM LexerTypeCorrect == Spec => []LexerTypeOK
<1>1. TypeInv => LexerTypeOK
  <2> SUFFICES ASSUME TypeInv PROVE LexerTypeOK
    OBVIOUS
  <2>1. TextTyped /\ LinesTyped /\ NumberTyped
    BY DEF TypeInv
  <2>2. Passed \in Nat /\ Passed <= MaxChars /\ (here \in Break => Passed + 1 <= MaxChars)
    BY <2>1, LexerAssumption DEF TextTyped, Passed, Count, Break
  <2>3. line_nr \in 1 .. MaxChars + 1
    BY <2>1, <2>2, LexerAssumption DEF LinesTyped
  <2>4. text.lines \in 1 .. MaxChars + 1
    BY <2>1, <2>2, LexerAssumption DEF TextTyped
  <2>5. Len(number) <= MaxChars
    BY <2>1, <2>2, LexerAssumption DEF NumberTyped
  <2>6. Range(number) \subseteq Chars
    BY <2>1 DEF NumberTyped, Range
  <2> QED BY <2>1, <2>3, <2>4, <2>5, <2>6
          DEF TypeInv, TextTyped, LinesTyped, NumberTyped, LexerTypeOK, IntRange
<1> QED BY <1>1, InitTyped, NextTyped, PTL DEF Spec

-----------------------------------------------------------------------------
(* Names and integers keep the invariant. *)
LEMMA NameBeginsInv == ASSUME Inv, NameBegins PROVE Inv'
<1>1. /\ status = "run" /\ state = 1 /\ cstr_is_letter(here) /\ status' = "run" /\ line_nr' = line_nr
      /\ state' = 500 /\ here' = here /\ text' = text
  BY DEF NameBegins, InToken
<1>2. InName(here) /\ here \notin Special
  BY <1>1, NameChar DEF InName
<1>3. InName(here)'
  BY <1>1, <1>2 DEF InName, cstr_is_letter
<1>4. Clean' => text'.mode \in {"code", "slash"}
  BY <1>1, StartKnows DEF InCode, Clean
<1>5. Clean' => ModeInv'
  BY <1>1, <1>3, <1>4, BaseIs DEF ModeInv
<1>6. text'.odd = {} => line_nr' = text'.lines /\ ~Second'
  BY <1>1, <1>2, StartKnows DEF Second, Break, Special
<1> QED BY <1>1, <1>5, <1>6, WithinToken

LEMMA NameRoundInv == ASSUME Inv, NameRound PROVE Inv'
<1>1. /\ status = "run" /\ state = 500 /\ Advance /\ status' = "run" /\ line_nr' = line_nr
      /\ InName(here)' => state' = 500
      /\ ~InName(here)' => state' = 1
  BY DEF NameRound, Within, InToken, TokenIs, SameLine, InName, cstr_is_letter, cstr_is_digit
<1>2. /\ Clean => text.mode \in {"code", "slash"} /\ here \notin Special
      /\ text.odd = {} => line_nr = text.lines /\ here \notin Special
  BY <1>1, BaseIs, NameChar DEF Inv, ModeInv, LineInv, Clean
<1>3. Clean' => text'.mode = "code"
  BY <1>1, <1>2, ReadOne, ModeBehindIs DEF Special
<1>4. text'.odd = {} => line_nr' = text'.lines /\ ~Second'
  BY <1>1, <1>2, ReadOne DEF Special, Second, Break
<1>5. CASE InName(here)'
  <2>1. Clean' => ModeInv'
    BY <1>1, <1>3, <1>5, BaseIs DEF ModeInv
  <2> QED BY <1>1, <1>4, <1>5, <2>1, WithinToken
<1>6. CASE ~InName(here)'
  BY <1>1, <1>3, <1>4, <1>6, AtStart DEF InCode
<1> QED BY <1>5, <1>6

(* The first digit of an integer lies ahead. *)
LEMMA NumberStarts ==
  ASSUME state' \in NumberStates, status' = "run", number' = <<>>,
         Clean' => \/ text'.mode = "code"
                   \/ text'.mode = "slash" /\ state' = 401 /\ cstr_is_digit(here, 10)',
         state' = 401 => cstr_is_digit(here, 10)',
         text'.odd = {} => line_nr' = text'.lines /\ (Second' => text'.line)
  PROVE  Inv'
<1>1. state' \in AutomatonStates /\ state' \notin {1, 119, 200, 310, 311, 312, 405, 500} /\ ~BadNumber'
  BY BaseIs DEF AutomatonStates, BadNumber
<1>2. Clean' => ModeInv'
  BY <1>1 DEF ModeInv
<1>3. text'.odd = {} => LineInv'
  BY <1>1 DEF LineInv
<1>4. AssertOnlyAtEnd'
  BY DEF AssertOnlyAtEnd
<1> QED BY <1>1, <1>2, <1>3, <1>4 DEF Inv

LEMMA NumberBeginsInv == ASSUME Inv, NumberBegins PROVE Inv'
<1>1. /\ status = "run" /\ state = 1 /\ cstr_is_digit(here, 10) /\ status' = "run" /\ line_nr' = line_nr
      /\ number' = <<>>
  BY DEF NumberBegins, NoNumber
<1>2. here \notin Special
  BY <1>1, DigitChar
<1>3. CASE here = "0" /\ ahead \in DOMAIN Prefix
  <2>1. AdvanceTwo /\ state' = Prefix[ahead]
    BY <1>3 DEF NumberBegins, ChooseBase, InToken
  <2>2. state' \in NumberStates /\ state' # 401 /\ ahead \notin Break \cup {"/", "quote"}
    BY <1>3, <2>1, PrefixIs, BaseIs DEF Break
  <2>3. /\ Clean' => text'.mode = "code"
        /\ text'.odd = {} => line_nr = text'.lines /\ ~Second'
    BY <1>1, <1>2, <2>1, <2>2, StartKnows, PassTwo DEF Special, Break
  <2> QED BY <1>1, <2>2, <2>3, NumberStarts
<1>4. CASE ~(here = "0" /\ ahead \in DOMAIN Prefix)
  <2>1. state' = 401 /\ UNCHANGED <<here, ahead, text>>
    BY <1>4 DEF NumberBegins, ChooseBase, InToken
  <2>2. cstr_is_digit(here, 10)'
    BY <1>1, <2>1
  <2>3. Clean' => text'.mode \in {"code", "slash"}
    BY <1>1, <2>1, StartKnows DEF InCode, Clean
  <2>4. text'.odd = {} => line_nr' = text'.lines /\ ~Second'
    BY <1>1, <1>2, <2>1, StartKnows DEF Second, Break, Special
  <2> QED BY <1>1, <2>1, <2>2, <2>3, <2>4, BaseIs, NumberStarts
<1> QED BY <1>3, <1>4

LEMMA ValueBeginsInv == ASSUME Inv, ValueBegins PROVE Inv'
<1>1. status = "run" /\ state = 405 /\ status' = "run" /\ line_nr' = line_nr /\ number' = <<>>
  BY DEF ValueBegins
<1>2. /\ Clean => text.mode = "code"
      /\ text.odd = {} => line_nr = text.lines /\ (Second => text.line)
  BY <1>1, BaseIs DEF Inv, ModeInv, LineInv
<1>3. CASE here = "0" /\ ahead \in DOMAIN Prefix
  <2>1. AdvanceTwo /\ state' = BehindWidth[Prefix[ahead]]
    BY <1>3 DEF ValueBegins, ChooseBase, InToken
  <2>2. state' \in NumberStates /\ state' # 401 /\ ahead \notin Break \cup {"/", "quote"}
    BY <1>3, <2>1, PrefixIs, BaseIs DEF Break, BehindWidth
  <2>3. /\ Clean' => text'.mode = "code"
        /\ text'.odd = {} => line_nr = text'.lines /\ ~Second'
    BY <1>2, <1>3, <2>1, <2>2, PassTwo DEF InCode, Break
  <2> QED BY <1>1, <2>2, <2>3, NumberStarts
<1>4. CASE ~(here = "0" /\ ahead \in DOMAIN Prefix)
  <2>1. state' = 409 /\ UNCHANGED <<here, ahead, text>>
    BY <1>4 DEF ValueBegins, ChooseBase, InToken
  <2>2. state' \in NumberStates /\ state' # 401
    BY <2>1, BaseIs
  <2>3. Clean' => text'.mode = "code"
    BY <1>2, <2>1 DEF Clean
  <2>4. text'.odd = {} => line_nr' = text'.lines /\ (Second' => text'.line)
    BY <1>1, <1>2, <2>1 DEF Second
  <2> QED BY <1>1, <2>2, <2>3, <2>4, NumberStarts
<1> QED BY <1>3, <1>4

(* A character of an integer is passed. *)
LEMMA NumberPass ==
  ASSUME TypeInv, Inv, status = "run", state \in NumberStates, here # "end", number' = Append(number, here)
  PROVE  /\ number' # <<>>
         /\ Head(number') = IF number = <<>> THEN here ELSE Head(number)
         /\ state = 401 => here \notin Special
         /\ Clean /\ state = 401 => Numeral(Head(number'), Base[state]) \/ Head(number') = "backslash"
         /\ Numeral(Head(number'), Base[state]) \/ Head(number') = "backslash" =>
              /\ here \notin Special \ {"backslash"}
              /\ Clean => InCode
              /\ text.odd = {} => line_nr = text.lines
<1>1. here \in Chars /\ number \in Seq(Chars) /\ (number # <<>> \/ state = 401 => here \notin Special)
  BY NumeralIs DEF TypeInv, TextTyped, NumberTyped
<1>2. number' # <<>> /\ Head(number') = IF number = <<>> THEN here ELSE Head(number)
  <2>1. /\ number' \in Seq(Chars) /\ Len(number') = Len(number) + 1 /\ number'[Len(number) + 1] = here
        /\ \A k \in 1 .. Len(number) : number'[k] = number[k]
    BY <1>1, AppendProperties
  <2>2. Len(number) \in Nat /\ number' # <<>> /\ Head(number') = number'[1]
    BY <1>1, <2>1
  <2>3. CASE number = <<>>
    BY <2>1, <2>2, <2>3
  <2>4. CASE number # <<>>
    BY <1>1, <2>1, <2>2, <2>4
  <2> QED BY <2>2, <2>3, <2>4
<1>3. state \notin {1, 119, 200, 310, 311, 312, 405, 500}
  BY BaseIs
<1>4. Clean /\ state = 401 => Numeral(Head(number'), Base[state]) \/ Head(number') = "backslash"
  <2> SUFFICES ASSUME Clean, state = 401
                PROVE  Numeral(Head(number'), Base[state]) \/ Head(number') = "backslash"
    OBVIOUS
  <2>1. ~BadNumber /\ (number = <<>> => cstr_is_digit(here, 10)) /\ Base[state] = 10
    BY BaseIs DEF Inv, ModeInv
  <2>2. number # <<>> => Numeral(Head(number), Base[state]) \/ Head(number) = "backslash"
    BY <2>1 DEF BadNumber
  <2> QED BY <1>2, <2>1, <2>2 DEF Numeral
<1>5. ASSUME Numeral(Head(number'), Base[state]) \/ Head(number') = "backslash"
      PROVE  /\ here \notin Special \ {"backslash"}
             /\ Clean => InCode
             /\ text.odd = {} => line_nr = text.lines
  <2>1. ~BadNumber
    BY <1>2, <1>5 DEF BadNumber
  <2>2. here \notin Special \ {"backslash"}
    <3>1. CASE number = <<>>
      BY <1>2, <1>5, <3>1, NumeralIs
    <3>2. CASE number # <<>>
      BY <1>1, <3>2
    <3> QED BY <3>1, <3>2
  <2>3. Clean => InCode
    BY <1>3, <2>1, <2>2 DEF Inv, ModeInv, InCode, Special
  <2>4. text.odd = {} => line_nr = text.lines
    BY <1>3, <2>1 DEF Inv, LineInv
  <2> QED BY <2>2, <2>3, <2>4
<1> QED BY <1>1, <1>2, <1>4, <1>5

LEMMA NumberRoundInv == ASSUME TypeInv, Inv, NumberRound PROVE Inv'
<1>1. /\ status = "run" /\ state \in NumberStates /\ here # "end" /\ InNumber(ahead, state)
      /\ Advance /\ number' = Append(number, here) /\ state' = state /\ line_nr' = line_nr /\ status' = "run"
  BY DEF NumberRound, InToken
<1>2. /\ number' # <<>>
      /\ Clean /\ state = 401 => Numeral(Head(number'), Base[state]) \/ Head(number') = "backslash"
      /\ Numeral(Head(number'), Base[state]) \/ Head(number') = "backslash" =>
              /\ here \notin Special \ {"backslash"}
              /\ Clean => InCode
              /\ text.odd = {} => line_nr = text.lines
  BY <1>1, NumberPass
<1>3. BadNumber' <=> ~Numeral(Head(number'), Base[state]) /\ Head(number') # "backslash"
  BY <1>1, <1>2 DEF BadNumber
<1>4. Clean' => Clean
  BY <1>1, ReadOne
<1>5. ~BadNumber' => /\ Clean' => text'.mode = "code"
                     /\ text'.odd = {} => line_nr' = text'.lines
  BY <1>1, <1>2, <1>3, PassOne DEF Special, Break
<1>6. InNumber(here, state)'
  BY <1>1, ReadOne DEF InNumber
<1>7. ~Second'
  BY <1>1, NumberChar, ReadOne DEF Second, Break, Special
<1>8. state' \in AutomatonStates /\ state' \notin {1, 119, 200, 310, 311, 312, 405, 500}
  BY <1>1, BaseIs DEF AutomatonStates
<1>9. Clean' /\ state' = 401 => ~BadNumber'
  BY <1>1, <1>2, <1>3, <1>4
<1>10. Clean' => ModeInv'
  BY <1>2, <1>5, <1>6, <1>8, <1>9 DEF ModeInv
<1>11. text'.odd = {} => LineInv'
  BY <1>1, <1>5, <1>7, <1>8 DEF LineInv
<1>12. AssertOnlyAtEnd'
  BY <1>1 DEF AssertOnlyAtEnd
<1> QED BY <1>8, <1>10, <1>11, <1>12 DEF Inv

LEMMA WidthEndsInv == ASSUME TypeInv, Inv, WidthEnds PROVE Inv'
<1>1. /\ status = "run" /\ state = 401 /\ here # "end" /\ ahead \in {"w", "s"}
      /\ AdvanceTwo /\ state' = 405 /\ number' = Append(number, here) /\ line_nr' = line_nr /\ status' = "run"
  BY WidthParses DEF WidthEnds, Within
<1>2. /\ here \notin Special
      /\ Clean => InCode
      /\ text.odd = {} => line_nr = text.lines
  <2>1. state \in NumberStates /\ (text.odd = {} => Clean)
    BY <1>1, BaseIs DEF Clean
  <2>2. /\ state = 401 => here \notin Special
        /\ Clean /\ state = 401 => Numeral(Head(number'), Base[state]) \/ Head(number') = "backslash"
        /\ Numeral(Head(number'), Base[state]) \/ Head(number') = "backslash" =>
              /\ Clean => InCode
              /\ text.odd = {} => line_nr = text.lines
    BY <1>1, <2>1, NumberPass
  <2> QED BY <1>1, <2>1, <2>2
<1>3. /\ Clean' => text'.mode = "code"
      /\ text'.odd = {} => line_nr' = text'.lines /\ ~Second'
  BY <1>1, <1>2, PassTwo DEF Special, Break
<1>4. state' \in AutomatonStates /\ state' \notin NumberStates
  BY <1>1, BaseIs DEF AutomatonStates
<1>5. Clean' => ModeInv'
  BY <1>1, <1>3, <1>4 DEF ModeInv
<1>6. text'.odd = {} => LineInv'
  BY <1>1, <1>3, <1>4 DEF LineInv
<1>7. AssertOnlyAtEnd'
  BY <1>1 DEF AssertOnlyAtEnd
<1> QED BY <1>4, <1>5, <1>6, <1>7 DEF Inv

LEMMA NumberEndsInv == ASSUME TypeInv, Inv, NumberEnds PROVE Inv'
<1>1. /\ status = "run" /\ state \in NumberStates /\ here # "end"
      /\ number' = Append(number, here) /\ line_nr' = line_nr
  BY DEF NumberEnds
<1>2. CASE status' # "error"
  <2>1. /\ Advance /\ state' = 1 /\ status' = "run"
        /\ Numeral(Head(number'), Base[state]) \/ Head(number') = "backslash"
    BY <1>2, NumberParses
  <2>2. /\ here \notin Special \ {"backslash"}
        /\ Clean => InCode
        /\ text.odd = {} => line_nr = text.lines
    BY <1>1, <2>1, NumberPass
  <2>3. /\ Clean' => text'.mode = "code"
        /\ text'.odd = {} => line_nr' = text'.lines /\ ~Second'
    BY <1>1, <2>1, <2>2, PassOne DEF Special, Break
  <2> QED BY <2>1, <2>3, AtStart DEF InCode
<1>3. CASE status' = "error"
  <2>1. status' = "error" /\ state' = state
    BY <1>3, NumberParses
  <2> QED BY <1>1, <2>1, StoppedInv DEF AutomatonStates
<1> QED BY <1>2, <1>3

(* The text may end only where AssertOnlyAtEnd says: a name, a third       *)
(* ampersand and the end of a block comment are never at the '\0'.         *)
LEMMA PastTheEndInv == ASSUME Inv, PastTheEnd PROVE Inv'
<1>1. /\ status = "run" /\ state \notin {1, 405} /\ here = "end" /\ status' = "assert"
      /\ state' = state /\ text' = text /\ number' = number
  BY DEF PastTheEnd
<1>2. state \in AutomatonStates
  BY DEF Inv
<1>3. ASSUME Clean
      PROVE  text.mode \in {"string", "block", "star", "line"} \/ (state \in NumberStates /\ number = <<>>)
  <2>1. ModeInv
    BY <1>1, <1>3 DEF Inv
  <2>2. state \notin {119, 312}
    BY <1>1, <2>1, BaseIs DEF ModeInv
  <2>3. state # 500
    BY <1>1, <2>1, NameChar DEF ModeInv, Special
  <2>4. state \in NumberStates => number = <<>>
    BY <1>1, <2>1, NumberChar DEF ModeInv, Special
  <2>5. state \in {200, 310, 311} => text.mode \in {"string", "block", "star", "line"}
    BY <1>1, <2>1, BaseIs DEF ModeInv
  <2> QED BY <1>1, <1>2, <2>2, <2>3, <2>4, <2>5 DEF AutomatonStates
<1>4. AssertOnlyAtEnd'
  BY <1>1, <1>3 DEF AssertOnlyAtEnd, Clean
<1> QED BY <1>1, <1>2, <1>4 DEF Inv

LEMMA StutterInv == ASSUME Inv, UNCHANGED vars PROVE Inv'
<1>1. /\ here' = here /\ ahead' = ahead /\ state' = state /\ line_nr' = line_nr /\ number' = number
      /\ status' = status /\ text' = text
  BY DEF vars
<1>2. ModeInv => ModeInv'
  <2>1. /\ (InName(here)' <=> InName(here)) /\ (cstr_is_digit(here, 10)' <=> cstr_is_digit(here, 10))
        /\ (InNumber(here, state)' <=> InNumber(here, state)) /\ (InCode' <=> InCode)
    BY <1>1 DEF InCode, InName, InNumber, cstr_is_letter, cstr_is_digit
  <2>2. BadNumber' <=> BadNumber
    BY <1>1 DEF BadNumber
  <2>3. NumberStates' = NumberStates /\ Break' = Break
    BY BaseIs DEF Break
  <2> QED BY <1>1, <2>1, <2>2, <2>3, SMTT(60) DEF ModeInv
<1>3. LineInv => LineInv'
  BY <1>1 DEF LineInv, Second, BadNumber
<1>4. AssertOnlyAtEnd => AssertOnlyAtEnd'
  BY <1>1 DEF AssertOnlyAtEnd
<1> QED BY <1>1, <1>2, <1>3, <1>4 DEF Inv, Clean

LEMMA NextInv == TypeInv /\ Inv /\ [Next]_vars => Inv'
<1> SUFFICES ASSUME TypeInv, Inv, [Next]_vars PROVE Inv'
  OBVIOUS
<1>1. CASE Blank \/ (\E c \in DOMAIN SingleClass : Single(c)) \/ (\E c \in DOMAIN OneOrTwo : Operator(c))
  BY <1>1, BlankInv, SingleInv, OperatorInv
<1>2. CASE Minus \/ Ampersand \/ ThirdAmpersand \/ Underscore \/ EndOfInput \/ Unknown
  BY <1>2, MinusInv, AmpersandInv, ThirdAmpersandInv, UnderscoreInv, EndInv
<1>3. CASE StringBegins \/ StringRound \/ StringEnds \/ Slash \/ BlockRound \/ BlockEnds \/ LineRound
  BY <1>3, StringBeginsInv, StringRoundInv, StringEndsInv, SlashInv, BlockRoundInv, BlockEndsInv,
     LineRoundInv
<1>4. CASE NameBegins \/ NameRound \/ NumberBegins \/ ValueBegins \/ NumberRound \/ WidthEnds \/ NumberEnds
  BY <1>4, NameBeginsInv, NameRoundInv, NumberBeginsInv, ValueBeginsInv, NumberRoundInv, WidthEndsInv,
     NumberEndsInv
<1>5. CASE PastTheEnd \/ Ended \/ UNCHANGED vars
  BY <1>5, PastTheEndInv, StutterInv DEF Ended
<1> QED BY <1>1, <1>2, <1>3, <1>4, <1>5 DEF Next

LEMMA InitInv == Init => Inv
<1> SUFFICES ASSUME Init PROVE Inv
  OBVIOUS
<1>1. /\ state = 1 /\ status = "run" /\ line_nr = text.lines /\ text.mode = "code" /\ text.broke = "none"
  BY DEF Init
<1>2. state \in AutomatonStates /\ state \notin NumberStates
  BY <1>1, BaseIs DEF AutomatonStates
<1> QED BY <1>1, <1>2 DEF Inv, ModeInv, LineInv, InCode, Second, Break, AssertOnlyAtEnd

LEMMA InvHolds == Spec => []Inv
  BY InitTyped, NextTyped, InitInv, NextInv, PTL DEF Spec

(* next_token begins no token within a string or a comment, whatever the   *)
(* text, unless a string in it had an escape.                              *)
THEOREM TokensAreInCode == Spec => []TokensBeginInCode
<1>1. Inv => TokensBeginInCode
  BY DEF Inv, ModeInv, InCode, Clean, TokensBeginInCode
<1> QED BY <1>1, InvHolds, PTL

(* The line number that next_token gives to a token is its line in the     *)
(* text, whatever mix of line breaks and comments comes before it.         *)
THEOREM LinesAreCounted == Spec => []LinesCounted
<1>1. Inv => LinesCounted
  BY BaseIs DEF Inv, LineInv, LinesCounted
<1> QED BY <1>1, InvHolds, PTL

(* The assertion of char_advance fails only in a text that ends within a   *)
(* string, a comment or an integer that has not begun, and those of        *)
(* parse_integer never do.                                                 *)
THEOREM AssertsOnlyAtEnd == Spec => []AssertOnlyAtEnd
<1>1. Inv => AssertOnlyAtEnd
  BY DEF Inv
<1> QED BY <1>1, InvHolds, PTL
==============================================================================
