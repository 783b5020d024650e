----------------------------- MODULE MCSymtable -----------------------------
(* Two keywords and two names in a table that starts at capacity 1: it       *)
(* grows while the keywords are added, as 40 keywords make the table of 31   *)
(* grow, and again when both names have been looked up.  k2 and x collide in *)
(* the table of 3, and y has the largest product, whose hash the modulus     *)
(* folds onto that of k1 in every table.                                     *)
EXTENDS Symtable

MCKeywords == <<"k1", "k2">>
MCNames == {"x", "y"}
MCKsigma == [n \in {"k1", "k2", "x", "y"} |->
               CASE n = "k1" -> 0 [] n = "k2" -> 3 [] n = "x" -> 2 [] n = "y" -> 7]
=============================================================================
