--------------------------- MODULE MCExpression ----------------------------
(* Expressions over operators of four priorities, a prefix operator, all    *)
(* brackets and separators, and a type for casts and type arguments.        *)
EXTENDS Expression

MCTokens == {"Identifier", "Bool", "Dontcare", "Plus", "Star", "TwoAmpersand", "AngleOpen",
             "AngleClose", "Exclamation", "DotPrefix", "Equal", "Comma", "Colon",
             "ParenthOpen", "ParenthClose", "BracketOpen", "BracketClose", "BraceOpen",
             "BraceClose"}
=============================================================================
