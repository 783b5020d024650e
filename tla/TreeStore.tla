----------------------------- MODULE TreeStore -----------------------------
(***************************************************************************)
(* What the syntax tree of ast.c promises the parser: a node is a map from *)
(* attribute names to values, a list is a sequence of nodes, a write is to *)
(* one attribute of one node or to the end of one list, and leaves all the *)
(* rest as it was.  Hash buckets, chains and links do not show.            *)
(***************************************************************************)
EXTENDS Integers, Sequences

CONSTANTS Kinds, AttrNames, Values

VARIABLES
  tree,      \* the nodes, in the order of their ids
  sequences  \* the lists, in the order they were made

vars == <<tree, sequences>>

NoAttributes == [name \in {} |-> 0]

Init == tree = <<>> /\ sequences = <<>>

(* new_ast_node *)
NewNode ==
  /\ UNCHANGED sequences
  /\ \E kind \in Kinds : tree' = Append(tree, [kind |-> kind, attrs |-> NoAttributes])

(* ast_setattr: the value that name has in node n afterwards is its only   *)
(* effect.                                                                 *)
SetAttr ==
  /\ UNCHANGED sequences
  /\ DOMAIN tree' = DOMAIN tree
  /\ \E n \in DOMAIN tree : \E name \in DOMAIN tree'[n].attrs :
       LET before == tree[n].attrs
           value == tree'[n].attrs[name]
       IN /\ name \in AttrNames /\ value \in Values
          /\ tree' = [tree EXCEPT ![n].attrs =
                        [x \in DOMAIN before \cup {name} |-> IF x = name THEN value ELSE before[x]]]

(* ast_list_init *)
NewList == sequences' = Append(sequences, <<>>) /\ UNCHANGED tree

(* ast_list_append_link *)
AppendNode ==
  /\ \E l \in DOMAIN sequences, n \in DOMAIN tree :
       sequences' = [sequences EXCEPT ![l] = Append(@, n)]
  /\ UNCHANGED tree

(* arena_delete of the tree's arena *)
Drop == tree' = <<>> /\ sequences' = <<>>

Next == NewNode \/ SetAttr \/ NewList \/ AppendNode \/ Drop

Spec == Init /\ [][Next]_vars
=============================================================================
