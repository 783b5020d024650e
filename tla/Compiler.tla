------------------------------ MODULE Compiler ------------------------------
(***************************************************************************)
(* The driver (main in ashp4c.c) and the composition it makes: the phases  *)
(* of a compilation, the arenas they allocate from and give back, the      *)
(* syntax tree as the parser builds it in one of them, and its printing.   *)
(*                                                                         *)
(* Memory is counted in pages.  A page that an arena gave back keeps its   *)
(* contents and may be handed out again.  Which page arena_push takes, and *)
(* when a chunk no longer fits, is left open here: PageArena decides that. *)
(*                                                                         *)
(* The parser is reduced to the order in which it allocates and links what *)
(* it builds; what it accepts is in Parser and Expression.  Rules holds    *)
(* one kind of node for each way build_ast.c has of filling a node.  Only  *)
(* the node of an extern declaration that turns out to be the prototype of *)
(* a function is left out: it is dropped without an attribute.             *)
(***************************************************************************)
EXTENDS PrintAst, TLC

CONSTANTS
  Memory,    \* the pages of init_memory
  MaxText,   \* bound: the pages of the source text
  MaxNodes,  \* bound: the nodes of the tree
  MaxLinks   \* bound: the elements of all the lists

ASSUME MemoryAssumption ==
  /\ Memory \in Nat /\ MaxText \in Nat \ {0} /\ MaxNodes \in Nat \ {0}
  /\ MaxLinks \in 0 .. Stale - 1  \* what a page held before is no link of the tree

VARIABLES
  phase,      \* where main is
  print_arg,  \* whether --print-ast was given
  mem,        \* the pages: [fresh, released, held, reused]
  points,     \* <<a, b>>: a struct in arena a points into arena b
  dangling,   \* those of points whose target was given back
  calls,      \* the calls of the parser that build a node, the running one first
  finished    \* the node the last call returned, or null

driverVars == <<phase, print_arg, points, dangling>>
buildVars == <<calls, finished>>
vars == <<nodes, attributes, lists, links, failed, frames, printed,
          phase, print_arg, mem, points, dangling, calls, finished>>

Arenas == {"main", "text", "tokens", "symtable", "temp", "ast"}
Ends == {"done", "exit", "crash"}

-----------------------------------------------------------------------------
AllFresh ==
  [fresh |-> Memory, released |-> 0, held |-> [a \in Arenas |-> 0],
   reused |-> [a \in Arenas |-> FALSE]]

(* Memory.  The results of a push that fits the current block of the arena, *)
(* takes pages never used, or takes pages given back; none when out of      *)
(* memory.  reused[a]: the current block of a was used before.              *)
Pushes(m, a, pages) ==
  {r \in {[m EXCEPT !.fresh = @ - pages, !.held[a] = @ + pages, !.reused[a] = FALSE],
          [m EXCEPT !.released = @ - pages, !.held[a] = @ + pages, !.reused[a] = TRUE]} :
     r.fresh >= 0 /\ r.released >= 0}
  \cup IF m.held[a] > 0 THEN {m} ELSE {}

(* Wrong on purpose: only the last block of the arena goes back. *)
DeletedLastBlock(m, a) ==
  [m EXCEPT !.released = @ + (IF m.held[a] > 0 THEN 1 ELSE 0), !.held[a] = 0, !.reused[a] = FALSE]

(* All the blocks of the arena go back. *)
Deleted(m, a) ==
  [m EXCEPT !.released = @ + m.held[a], !.held[a] = 0, !.reused[a] = FALSE]

Push(a) == mem' \in Pushes(mem, a, 1)

(* arena_delete; what it held no longer points anywhere. *)
Delete(a) ==
  /\ mem' = Deleted(mem, a)
  /\ points' = {p \in points : p[1] # a /\ p[2] # a}
  /\ dangling' = {p \in dangling \cup points : p[1] # a /\ (p \in dangling \/ p[2] = a)}

Refer(pairs) == points' = points \cup pairs /\ UNCHANGED dangling

(* The process ends and nothing it held is left. *)
Leave(end) ==
  /\ phase' = end
  /\ mem' = AllFresh /\ points' = {} /\ dangling' = {}
  /\ nodes' = <<>> /\ attributes' = <<>> /\ lists' = <<>> /\ links' = <<>>
  /\ calls' = <<>> /\ finished' = Null
  /\ UNCHANGED <<failed, printVars, print_arg>>

(* arena_push exits when no page is left for a new block. *)
OutOfMemory ==
  /\ phase \notin Ends /\ phase # "print" /\ failed = "no"
  /\ mem.fresh = 0 /\ mem.released = 0
  /\ Leave("exit")

-----------------------------------------------------------------------------
(* main up to the parser. *)
Init ==
  /\ TreeInit /\ PrintInit
  /\ phase = "args" /\ print_arg = FALSE
  /\ mem = AllFresh
  /\ points = {} /\ dangling = {}
  /\ calls = <<>> /\ finished = Null

InPhase(p) == phase = p /\ failed = "no"

(* The arguments; the first without a leading -- is the file name. *)
parse_cmdline_args ==
  /\ InPhase("args")
  /\ Push("main")
  /\ print_arg' \in BOOLEAN
  /\ phase' = "read"
  /\ UNCHANGED <<treeVars, failed, printVars, points, dangling, buildVars>>

(* There is no file name among them. *)
FilenameRequired ==
  /\ InPhase("args")
  /\ Leave("exit")

read_source ==
  /\ InPhase("read")
  /\ \E pages \in 1 .. MaxText : mem' \in Pushes(mem, "text", pages)
  /\ phase' = "lex"
  /\ UNCHANGED <<treeVars, failed, printVars, print_arg, points, dangling, buildVars>>

(* fopen returned null and fseek gets it. *)
FileMissing ==
  /\ InPhase("read")
  /\ Leave("crash")

(* Wrong on purpose: the arguments of lex_set_storage swapped. *)
TokenizeSwapped ==
  /\ InPhase("lex")
  /\ \E m \in Pushes(mem, "tokens", 1) : mem' \in Pushes(m, "main", 1)
  /\ Refer({<<"main", "tokens">>})
  /\ UNCHANGED <<treeVars, failed, printVars, phase, print_arg, buildVars>>

(* lex_tokenize, one token: its lexeme is copied to main_storage. *)
Tokenize ==
  /\ InPhase("lex")
  /\ \E m \in Pushes(mem, "main", 1) : mem' \in Pushes(m, "tokens", 1)
  /\ Refer({<<"tokens", "main">>})
  /\ UNCHANGED <<treeVars, failed, printVars, phase, print_arg, buildVars>>

(* Unknown_ or LexicalError_ *)
LexicalError ==
  /\ InPhase("lex")
  /\ Leave("exit")

(* The token at the end of the text was appended: the text is given back. *)
LexEnds ==
  /\ InPhase("lex") /\ mem.held["tokens"] > 0
  /\ Delete("text")
  /\ phase' = "init"
  /\ UNCHANGED <<treeVars, failed, printVars, print_arg, buildVars>>

symtable_init ==
  /\ InPhase("init")
  /\ Push("symtable")
  /\ phase' = "root"
  /\ UNCHANGED <<treeVars, failed, printVars, print_arg, points, dangling, buildVars>>

-----------------------------------------------------------------------------
(* The symbol table.  get_symtable_entry may push an entry for a name, and  *)
(* rehash first through an arena of its own that it gives back; new_type    *)
(* and new_ident push a symbol that points to a node.                       *)
Rehashed(m) == {Deleted(r, "temp") : r \in Pushes(m, "temp", 1)}

SymbolPushes(m) ==
  UNION {Pushes(r, "symtable", 1) : r \in {m} \cup Rehashed(m)}

Names == {<<"symtable", "main">>}
Symbols == {<<"symtable", "main">>, <<"symtable", "ast">>}

-----------------------------------------------------------------------------
(* The parser.  A rule lists what build_ast.c does to a node after         *)
(* new_ast_node: the attributes it sets, in its order, and where each      *)
(* value comes from.  "taken" is a node built before the one it hangs in:  *)
(* an expression, or the type of a variable.                               *)
Set(name, from) == [name |-> name, from |-> from]

Rules ==
  [P4Program |-> <<Set("decl_list", "decls")>>,
   Name |-> <<Set("name", "lexeme"), Set("is_dotprefixed", "number")>>,  \* behind a dot
   ErrorName |-> <<Set("name", "lexeme as Ast")>>,
   Bool |-> <<Set("value", "number"), Set("value", "number")>>,          \* true
   BinaryExpr |-> <<Set("left_operand", "taken"), Set("op", "operator"),
                    Set("right_operand", "call")>>,
   FunctionCallExpr |-> <<Set("expr", "taken"), Set("args", "list")>>,
   TableEntry |-> <<Set("keyset", "call"), Set("action", "call")>>,
   VarDecl |-> <<Set("type", "taken"), Set("name", "call"), Set("init_expr", "call or null")>>,
   Default |-> <<>>,
   TupleKeyset |-> <<Set("expr_list", "tuple")>>]

Kinds == DOMAIN Rules
TakesNode(kind) == Rules[kind] # <<>> /\ Rules[kind][1].from = "taken"

(* The table of a node holds all its attributes, and their names are hashed. *)
ASSUME RulesAssumption ==
  \A kind \in Kinds :
    /\ Len(Rules[kind]) <= AttrCapacity
    /\ \A i \in DOMAIN Rules[kind] : Rules[kind][i].name \in AttrNames

Running == Head(calls)
Rule == Rules[nodes[Running.ast].kind]
InRule == Running.step <= Len(Rule)
Doing == Rule[Running.step]

Parsing == InPhase("parse") /\ calls # <<>>
AtStep(froms) == Parsing /\ InRule /\ Doing.from \in froms
Update(call) == calls' = <<call>> \o Tail(calls)
StepDone == Update([Running EXCEPT !.step = @ + 1, !.list = Null])
Parser == UNCHANGED <<printVars, phase, print_arg>>

(* A node is needed: for an attribute or for the link just pushed. *)
Awaiting ==
  /\ Parsing /\ InRule
  /\ Doing.from \in {"call", "call or null"} \/ Running.link # Null

NewCall(taken) ==
  [ast |-> Len(nodes) + 1, step |-> 1, taken |-> taken, list |-> Null, link |-> Null]

(* build_ast_program, build_p4program: the root. *)
BuildRoot ==
  /\ InPhase("root")
  /\ Push("ast") /\ new_ast_node("P4Program")
  /\ calls' = <<NewCall(Null)>>
  /\ phase' = "parse"
  /\ UNCHANGED <<printVars, print_arg, points, dangling, finished>>

BeginNode ==
  /\ Awaiting /\ finished = Null /\ Len(nodes) < MaxNodes
  /\ \E kind \in Kinds \ {"P4Program"} : ~TakesNode(kind) /\ new_ast_node(kind)
  /\ Push("ast")
  /\ calls' = <<NewCall(Null)>> \o calls
  /\ Parser /\ UNCHANGED <<points, dangling, finished>>

(* build_expression puts a node around the expression it has, and           *)
(* build_variableDeclaration one around the type it is given.               *)
WrapNode ==
  /\ Awaiting /\ finished # Null /\ Len(nodes) < MaxNodes
  /\ \E kind \in Kinds : TakesNode(kind) /\ new_ast_node(kind)
  /\ Push("ast")
  /\ calls' = <<NewCall(finished)>> \o calls
  /\ finished' = Null
  /\ Parser /\ UNCHANGED <<points, dangling>>

ValueFrom ==
  [number |-> <<Cell, "Integer">>, operator |-> <<Cell, "ExprOperator">>]

(* A number or an operator, in a cell of its own. *)
SetValue ==
  /\ AtStep(DOMAIN ValueFrom)
  /\ Push("ast")
  /\ ast_setattr(Running.ast, Doing.name, ValueFrom[Doing.from][1], ValueFrom[Doing.from][2])
  /\ StepDone
  /\ Parser /\ UNCHANGED <<points, dangling, finished>>

(* A name: next_token entered it into the symbol table, and build_name may *)
(* declare it as a type.                                                   *)
SetName ==
  /\ AtStep({"lexeme"})
  /\ \E m \in SymbolPushes(mem) : mem' \in Pushes(m, "ast", 1)
  /\ ast_setattr(Running.ast, Doing.name, Lexeme, "String")
  /\ \E symbols \in {Names, Symbols} : Refer({<<"ast", "main">>} \cup symbols)
  /\ StepDone
  /\ Parser /\ UNCHANGED finished

(* The name `error`: the type says Ast and the value is the lexeme. *)
SetErrorName ==
  /\ AtStep({"lexeme as Ast"})
  /\ Push("ast")
  /\ ast_setattr(Running.ast, Doing.name, Lexeme, "Ast")
  /\ Refer({<<"ast", "main">>})
  /\ StepDone
  /\ Parser /\ UNCHANGED finished

SetTaken ==
  /\ AtStep({"taken"})
  /\ Push("ast")
  /\ ast_setattr(Running.ast, Doing.name, Running.taken, "Ast")
  /\ StepDone
  /\ Parser /\ UNCHANGED <<points, dangling, finished>>

(* An attribute whose value is the node just built. *)
SetChild ==
  /\ AtStep({"call", "call or null"}) /\ finished # Null
  /\ Push("ast")
  /\ ast_setattr(Running.ast, Doing.name, finished, "Ast")
  /\ finished' = Null
  /\ StepDone
  /\ Parser /\ UNCHANGED <<points, dangling>>

(* build_optInitializer returns null. *)
NoInitializer ==
  /\ AtStep({"call or null"}) /\ finished = Null
  /\ Push("ast")
  /\ ast_setattr(Running.ast, Doing.name, Null, "Ast")
  /\ StepDone
  /\ Parser /\ UNCHANGED <<points, dangling, finished>>

(* What a list header holds that was cleared as long as a pointer is: the  *)
(* prev of its sentinel.  The rest is what the page held before.            *)
HalfCleared(reused) ==
  LET left == IF reused THEN {Null, Stale} ELSE {Null}
  IN [head : left, tail : left, next : left, link_count : left]

(* A list header; args and the expressions of a tuple have at least one     *)
(* element, and a call without arguments has no list.                       *)
NewListHeader ==
  /\ AtStep({"decls", "list", "tuple"}) /\ Running.list = Null
  /\ Push("ast")
  /\ \E list \in IF Doing.from = "tuple" THEN HalfCleared(mem'.reused["ast"]) ELSE {ClearedList} :
       ast_list_init(list)
  /\ Update([Running EXCEPT !.list = Len(lists) + 1])
  /\ Parser /\ UNCHANGED <<points, dangling, finished>>

NoArguments ==
  /\ AtStep({"list"}) /\ Running.list = Null
  /\ Push("ast")
  /\ ast_setattr(Running.ast, Doing.name, Null, "AstList")
  /\ StepDone
  /\ Parser /\ UNCHANGED <<points, dangling, finished>>

AddLink ==
  /\ Parsing /\ Running.list # Null /\ Running.link = Null
  /\ Len(links) < MaxLinks /\ Len(nodes) < MaxNodes
  /\ Push("ast") /\ NewLink
  /\ Update([Running EXCEPT !.link = Len(links) + 1])
  /\ Parser /\ UNCHANGED <<points, dangling, finished>>

AppendElement ==
  /\ Parsing /\ Running.link # Null /\ finished # Null
  /\ ast_list_append_link(Running.list, Running.link, finished)
  /\ Update([Running EXCEPT !.link = Null])
  /\ finished' = Null
  /\ Parser /\ UNCHANGED <<mem, points, dangling>>

CloseList ==
  /\ Parsing /\ Running.list # Null /\ Running.link = Null
  /\ Doing.from = "decls" \/ lists[Running.list].tail # -Running.list
  /\ Push("ast")
  /\ ast_setattr(Running.ast, Doing.name, Running.list, "AstList")
  /\ StepDone
  /\ Parser /\ UNCHANGED <<points, dangling, finished>>

(* A call returns its node. *)
EndNode ==
  /\ Parsing /\ ~InRule
  /\ finished' = Running.ast
  /\ calls' = Tail(calls)
  /\ Parser /\ UNCHANGED <<treeVars, failed, mem, points, dangling>>

SyntaxError ==
  /\ Parsing
  /\ Leave("exit")

-----------------------------------------------------------------------------
(* main after the parser: the tokens are given back. *)
ParseEnds ==
  /\ InPhase("parse") /\ calls = <<>>
  /\ Delete("tokens")
  /\ \/ /\ print_arg /\ phase' = "print"
        /\ Call(finished, <<>>)
     \/ /\ ~print_arg /\ phase' = "flush"
        /\ UNCHANGED <<printVars, failed>>
  /\ UNCHANGED <<treeVars, print_arg, buildVars>>

PrintTree ==
  /\ InPhase("print") /\ PrintStep
  /\ UNCHANGED <<driverVars, mem, buildVars>>

PrintReturns ==
  /\ InPhase("print") /\ frames = <<>>
  /\ phase' = "flush"
  /\ UNCHANGED <<treeVars, failed, printVars, print_arg, mem, points, dangling, buildVars>>

(* symtable_flush, up to symtable_init and with it. *)
symtable_flush ==
  /\ InPhase("flush")
  /\ Delete("symtable")
  /\ phase' = "reinit"
  /\ UNCHANGED <<treeVars, failed, printVars, print_arg, buildVars>>

symtable_init_again ==
  /\ InPhase("reinit")
  /\ Push("symtable")
  /\ phase' = "declare"
  /\ UNCHANGED <<treeVars, failed, printVars, print_arg, points, dangling, buildVars>>

(* build_symtable_program declares a name. *)
DeclareName ==
  /\ InPhase("declare")
  /\ mem' \in SymbolPushes(mem)
  /\ Refer(Symbols)
  /\ UNCHANGED <<treeVars, failed, printVars, phase, print_arg, buildVars>>

(* build_symtable_program has returned. *)
DeleteTree ==
  /\ InPhase("declare")
  /\ Delete("ast")
  /\ nodes' = <<>> /\ attributes' = <<>> /\ lists' = <<>> /\ links' = <<>>
  /\ phase' = "cleanup"
  /\ UNCHANGED <<failed, printVars, print_arg, buildVars>>

DeleteMain ==
  /\ InPhase("cleanup")
  /\ Delete("main")
  /\ phase' = "done"
  /\ UNCHANGED <<treeVars, failed, printVars, print_arg, buildVars>>

(* The process has ended. *)
Ended == (phase \in Ends \/ failed # "no") /\ UNCHANGED vars

Next ==
  \/ OutOfMemory \/ parse_cmdline_args \/ FilenameRequired \/ read_source \/ FileMissing
  \/ Tokenize \/ LexicalError \/ LexEnds \/ symtable_init
  \/ BuildRoot \/ BeginNode \/ WrapNode \/ SetValue \/ SetName \/ SetErrorName \/ SetTaken \/ SetChild
  \/ NoInitializer \/ NewListHeader \/ NoArguments \/ AddLink \/ AppendElement \/ CloseList
  \/ EndNode \/ SyntaxError
  \/ ParseEnds \/ PrintTree \/ PrintReturns
  \/ symtable_flush \/ symtable_init_again \/ DeclareName \/ DeleteTree \/ DeleteMain \/ Ended

(* The process runs as long as it can. *)
Fairness == WF_vars(PrintTree \/ PrintReturns)

Spec == Init /\ [][Next]_vars /\ Fairness

-----------------------------------------------------------------------------
LinkPointers(l) == {Null, Stale, -l} \cup DOMAIN links

(* Every struct points to structs of the right type that exist, the pages  *)
(* add up, and a call of the parser is about a node of the tree.           *)
CompilerTypeOK ==
  /\ \A n \in DOMAIN nodes :
       /\ nodes[n].kind \in Kinds
       /\ nodes[n].attr_count \in 0 .. AttrCapacity
       /\ \A h \in 0 .. AttrCapacity - 1 : nodes[n].attrs[h] \in {Null} \cup DOMAIN attributes
  /\ \A a \in DOMAIN attributes :
       /\ attributes[a].name \in AttrNames /\ attributes[a].type \in AttrTypes
       /\ attributes[a].next_attr \in 0 .. a - 1
       /\ attributes[a].value \in {Null, Lexeme, Cell} \cup DOMAIN nodes \cup DOMAIN lists
  /\ \A l \in DOMAIN lists :
       {lists[l].head, lists[l].tail, lists[l].next} \subseteq LinkPointers(l)
  /\ \A k \in DOMAIN links :
       links[k].next \in {Null} \cup DOMAIN links /\ links[k].ast \in {Null} \cup DOMAIN nodes
  /\ \A i \in DOMAIN calls : calls[i].ast \in DOMAIN nodes
  /\ finished \in {Null} \cup DOMAIN nodes \/ nodes = <<>>
  /\ mem.fresh + mem.released + mem.held["main"] + mem.held["text"] + mem.held["tokens"]
       + mem.held["symtable"] + mem.held["temp"] + mem.held["ast"] = Memory
  /\ points \cup dangling \subseteq Arenas \X Arenas

(* The arenas a phase reads from. *)
Reads ==
  CASE phase \in {"args", "read"} -> {"main"}
    [] phase = "lex" -> {"main", "text", "tokens"}
    [] phase \in {"init", "root", "parse"} -> {"main", "tokens", "symtable", "ast"}
    [] phase = "print" -> {"main", "ast"}
    [] phase \in {"flush", "reinit"} -> {"main", "ast"}
    [] phase = "declare" -> {"main", "ast", "symtable"}
    [] OTHER -> {}

(* No phase meets a pointer into an arena that was given back before: the  *)
(* lexemes outlive the tokens, the tree does not point to them, and the    *)
(* symbols of the parser are gone when the tree is walked for the second   *)
(* time (arena_delete in main and in symtable_flush).                      *)
ReadsLiveMemory ==
  \A p \in dangling : p[1] \notin Reads

(* When print_ast returns, every node of the tree and every attribute of   *)
(* it has been printed, and none twice: the iterator misses no bucket and  *)
(* no chain, and no node hangs in two places.                              *)
PrintsEveryNodeOnce ==
  InPhase("print") /\ frames = <<>> =>
    /\ Len(printed) = Len(nodes) + Len(attributes)
    /\ {printed[i] : i \in DOMAIN printed} =
         ({"node"} \X DOMAIN nodes) \cup ({"attr"} \X DOMAIN attributes)

(* An assertion fails only for the header of a tuple that was not cleared  *)
(* (build_ast.c, build_tupleKeysetExpression), or in the printing of the   *)
(* name `error`, a lexeme that is marked as a node (build_expressionPrimary). *)
OnlyKnownAsserts ==
  \/ failed = "no"
  \/ failed \in ListAsserts /\ Doing.from = "tuple"
  \/ failed = BadKind /\ \E n \in DOMAIN nodes : nodes[n].kind = "ErrorName"

(* ast.c, ast_list_init and ast_list_append_link: assert(list->head == 0)  *)
(* and the assertions after it hold.                                        *)
ListsStartEmpty == failed \notin ListAsserts

Tree ==
  INSTANCE TreeStore WITH
    tree <- TreeOf, sequences <- ListsOf,
    Values <- [type : AttrTypes, value : {Lexeme, Cell} \cup Nat]

(* What the tree holds is what was put there: the hash chains and the      *)
(* links of ast.c implement maps and sequences.                            *)
ImplementsTree == Tree!Spec

(* print_ast returns, or stops at an assertion. *)
PrintEnds == InPhase("print") ~> ~InPhase("print")
=============================================================================
