--------------------------- MODULE SequenceStore ---------------------------
(***************************************************************************)
(* What the unbounded arrays of arena.c promise: each is a sequence that   *)
(* grows at its end and whose elements can be replaced.  An append that    *)
(* finds no memory ends the program, which is a step that changes nothing. *)
(***************************************************************************)
EXTENDS Naturals, Sequences

CONSTANTS Arrays, Elems

VARIABLE seqs  \* per array: its elements

Init == seqs = [a \in Arrays |-> << >>]

Append_(a, e) == seqs' = [seqs EXCEPT ![a] = Append(@, e)]
Set(a, i, e)  == i \in 1 .. Len(seqs[a]) /\ seqs' = [seqs EXCEPT ![a][i] = e]
Clear(S)      == seqs' = [a \in Arrays |-> IF a \in S THEN << >> ELSE seqs[a]]

Next ==
  \/ \E a \in Arrays, e \in Elems : Append_(a, e) \/ \E i \in 1 .. Len(seqs[a]) : Set(a, i, e)
  \/ \E S \in SUBSET Arrays : Clear(S)

Spec == Init /\ [][Next]_seqs
=============================================================================
