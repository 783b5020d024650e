-------------------------- MODULE MCBuildSymtable --------------------------
(* Trees with at most MaxElements elements, over names that all collide with *)
(* the keyword in the first table.                                           *)
EXTENDS BuildSymtable

MCKeywords == <<"k">>
MCNames == {"x", "y"}
MCKsigma == [n \in {"k", "x", "y"} |-> CASE n = "k" -> 0 [] n = "x" -> 3 [] n = "y" -> 1]
=============================================================================
