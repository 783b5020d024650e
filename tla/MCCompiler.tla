----------------------------- MODULE MCCompiler -----------------------------
(* The attribute names of the rules with the values hash_string gives them. *)
EXTENDS Compiler

MCAttrHash ==
  [decl_list |-> 7, name |-> 6, is_dotprefixed |-> 6, value |-> 6, op |-> 14, expr |-> 5,
   left_operand |-> 5, right_operand |-> 6, args |-> 9, keyset |-> 3, action |-> 3,
   expr_list |-> 1, type |-> 1, init_expr |-> 9]
=============================================================================
