----------------------------- MODULE MCParser -----------------------------
(* Token sets for model checking Parser: one per part of the language, with *)
(* one token for each role where several do the same.                       *)
EXTENDS Parser

Punctuation == {"EndOfInput", "Identifier", "Semicolon", "BraceOpen", "BraceClose",
                "ParenthOpen", "ParenthClose"}

(* Types, their parameters and arguments, extern objects. *)
TypeTokens == Punctuation \cup
  {"TypeIdentifier", "Struct", "Header", "HeaderUnion", "Package", "Error", "MatchKind",
   "Typedef", "Enum", "Extern", "Void", "Bool", "Bit", "Tuple", "AngleOpen", "AngleClose",
   "Integer", "Comma", "In"}

(* Parsers and their states, controls with their actions and statements. *)
BodyTokens == Punctuation \cup
  {"TypeIdentifier", "Parser", "State", "Transition", "Select", "Colon", "Default", "Const",
   "Bool", "Equal", "Control", "Action", "Apply", "If", "Else", "Switch", "Return", "Exit",
   "DotPrefix", "Comma"}

(* Tables and their properties. *)
TableTokens == Punctuation \cup
  {"Control", "Table", "Key", "Actions", "Entries", "Apply", "Equal", "Colon", "Const",
   "Default", "Comma", "Dontcare"}

(* Constants with an operator of every priority. *)
ExpressionTokens == Punctuation \cup
  {"Const", "Bool", "Equal", "BracketOpen", "BracketClose", "Plus", "Star", "TwoAmpersand",
   "ThreeAmpersand", "TwoEqual", "AngleOpen", "AngleClose", "DotPrefix", "Comma", "Colon",
   "Minus", "UnaryMinus", "Dontcare"}
Part(tokens, depth, brackets) == [tokens |-> tokens, depth |-> depth, brackets |-> brackets]

WholeLanguage ==
  [types |-> Part(TypeTokens, 10, 3), bodies |-> Part(BodyTokens, 10, 4),
   tables |-> Part(TableTokens, 15, 4), expressions |-> Part(ExpressionTokens, 8, 2)]

(* For the empty statement of a parser state. *)
BodiesOnly == [bodies |-> Part(BodyTokens, 10, 3)]
=============================================================================
