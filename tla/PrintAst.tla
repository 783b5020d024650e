------------------------------ MODULE PrintAst ------------------------------
(***************************************************************************)
(* The tree printer (print_ast.c).  print_ast calls itself on the nodes an *)
(* attribute or a list leads to: frames is its call stack, the running     *)
(* call first.  A call goes over the attributes twice, first to print them *)
(* and then to descend, and both times with the iterator of ast.c.         *)
(*                                                                         *)
(* printed is a history of the nodes and the attributes that were printed. *)
(***************************************************************************)
EXTENDS Ast

VARIABLES
  frames,   \* the calls of print_ast: [ast, pass, iter, link]
  printed

printVars == <<frames, printed>>

PrintInit == frames = <<>> /\ printed = <<>>

BadKind == "kind is known"   \* assert(0) of ast_kind_to_string

Top == Head(frames)
Replace(frame) == frames' = <<frame>> \o Tail(frames)

(* print_ast up to its first loop: nothing for a null pointer; a pointer to *)
(* characters is not a node and the kind read from them is not one either.  *)
Call(ast, rest) ==
  \/ /\ ast = Null
     /\ frames' = rest
     /\ UNCHANGED <<printed, failed>>
  \/ /\ ast \in DOMAIN nodes
     /\ frames' = <<[ast |-> ast, pass |-> 1, iter |-> ast_attriter_init(ast), link |-> Null]>> \o rest
     /\ printed' = Append(printed, <<"node", ast>>)
     /\ UNCHANGED failed
  \/ /\ ast = Lexeme
     /\ failed' = BadKind
     /\ frames' = rest
     /\ UNCHANGED printed

Advanced == [Top EXCEPT !.iter = ast_attriter_get_next(Top.ast, Top.iter)]

(* Wrong on purpose: the iterator is not moved. *)
PrintSameProperty ==
  /\ Top.pass = 1 /\ Top.iter.attr_at # Null
  /\ printed' = printed
  /\ Replace(Top)
  /\ UNCHANGED failed

(* The first loop: one attribute is printed. *)
PrintProperty ==
  /\ Top.pass = 1 /\ Top.iter.attr_at # Null
  /\ printed' = Append(printed, <<"attr", Top.iter.attr_at>>)
  /\ Replace(Advanced)
  /\ UNCHANGED failed

(* The first loop ends and the second begins. *)
SecondPass ==
  /\ Top.pass = 1 /\ Top.iter.attr_at = Null
  /\ Replace([Top EXCEPT !.pass = 2, !.iter = ast_attriter_init(Top.ast)])
  /\ UNCHANGED <<printed, failed>>

Attribute == attributes[Top.iter.attr_at]
InSecondPass == Top.pass = 2 /\ Top.iter.attr_at # Null

(* The second loop at an attribute that is a node. *)
PrintChild ==
  /\ InSecondPass /\ Attribute.type = "Ast"
  /\ Call(Attribute.value, <<Advanced>> \o Tail(frames))

(* The second loop at a list: its first link, if there is one. *)
OpenList ==
  /\ InSecondPass /\ Top.link = Null /\ Attribute.type = "AstList"
  /\ LET first == IF Attribute.value = Null THEN Null
                                            ELSE ast_list_first_link(Attribute.value)
     IN Replace(IF first = Null THEN Advanced ELSE [Top EXCEPT !.link = first])
  /\ UNCHANGED <<printed, failed>>

(* One element of the list, and on to the next link. *)
PrintElement ==
  /\ InSecondPass /\ Top.link # Null
  /\ LET next == links[Top.link].next
         after == IF next = Null THEN [Advanced EXCEPT !.link = Null]
                                 ELSE [Top EXCEPT !.link = next]
     IN Call(links[Top.link].ast, <<after>> \o Tail(frames))

(* The second loop at an attribute of another type. *)
PassValue ==
  /\ InSecondPass /\ Attribute.type \notin {"Ast", "AstList"}
  /\ Replace(Advanced)
  /\ UNCHANGED <<printed, failed>>

(* print_ast returns. *)
Return ==
  /\ Top.pass = 2 /\ Top.iter.attr_at = Null
  /\ frames' = Tail(frames)
  /\ UNCHANGED <<printed, failed>>

PrintStep ==
  /\ frames # <<>> /\ failed = "no"
  /\ \/ PrintProperty \/ SecondPass \/ PrintChild \/ OpenList \/ PrintElement
     \/ PassValue \/ Return
  /\ UNCHANGED treeVars
=============================================================================
