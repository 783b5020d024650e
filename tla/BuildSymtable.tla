--------------------------- MODULE BuildSymtable ---------------------------
(***************************************************************************)
(* The walk over the syntax tree that declares its names                   *)
(* (build_symtable.c), on the symbol table of module Symtable.             *)
(*                                                                         *)
(* The tree is chosen as the walk goes: every list yields some element or  *)
(* ends, so that the behaviours are the walks over all trees of at most    *)
(* MaxElements elements.  The C functions call each other; here what is    *)
(* left to do is a sequence of tasks, the next one first.                  *)
(***************************************************************************)
EXTENDS Symtable

CONSTANT MaxElements  \* bound: the elements of all the lists of the tree

ASSUME ElementsAssumption == MaxElements \in Nat \ {0}

VARIABLES
  todo,        \* the tasks left
  status,      \* "run", "redeclared", "assert" or "done"
  elements,    \* how many elements the lists have, as far as is known
  fresh,       \* a scope was entered and nothing else has happened yet
  declared,    \* history: what each open scope has declared, the outermost first
  recent,      \* history: what was declared since a scope last began or ended
  reported,    \* history: the declaration that "redeclared" was reported for
  overloaded,  \* history: a function prototype took a name its scope had
  missed       \* history: a declaration took a name its scope had

walk == <<todo, status, elements, fresh>>
history == <<declared, recent, reported, overloaded, missed>>
allvars == <<vars, walk, history>>

Lists == {"decl_list", "local_decls", "stmt_list", "local_elements", "method_protos", "fields"}
Tasks == {"push_scope", "pop_scope"} \cup Lists

(* How many members of the sequence tasks are in the set. *)
CountIn(tasks, set) == Cardinality({i \in DOMAIN tasks : tasks[i] \in set})

(* push_scope(), tasks, pop_scope() *)
Scoped(tasks) == <<"push_scope">> \o tasks \o <<"pop_scope">>

(* A list without elements is left out of the tree, except the program's. *)
Optional(list) == {<<>>, <<list>>}

(* Wrong on purpose: the scope of a list is not left. *)
ScopedNotLeft(list) == IF list = <<>> THEN <<>> ELSE <<"push_scope">> \o list

ScopedIfAny(list) == IF list = <<>> THEN <<>> ELSE Scoped(list)

WalkInit ==
  /\ Init
  /\ todo = Scoped(<<"decl_list">>)
  /\ status = "run"
  /\ elements = 1 /\ fresh = FALSE
  /\ declared = <<>> /\ recent = {} /\ reported = {} /\ overloaded = FALSE /\ missed = FALSE

-----------------------------------------------------------------------------
Running(task) ==
  /\ status = "run" /\ failed = "no"
  /\ todo # <<>> /\ Head(todo) = task

EnterScope ==
  /\ Running("push_scope")
  /\ push_scope
  /\ todo' = Tail(todo)
  /\ fresh' = TRUE
  /\ declared' = Append(declared, {}) /\ recent' = {}
  /\ UNCHANGED <<status, elements, reported, overloaded, missed>>

LeaveScope ==
  /\ Running("pop_scope")
  /\ pop_scope
  /\ todo' = Tail(todo)
  /\ fresh' = FALSE
  /\ declared' = Front(declared) /\ recent' = {}
  /\ UNCHANGED <<status, elements, reported, overloaded, missed>>

LeaveScopeFails ==
  /\ Running("pop_scope")
  /\ pop_scope_fails
  /\ UNCHANGED <<walk, history>>

(* A list of the tree has no more elements. *)
EndOfList ==
  /\ \E list \in Lists :
       Running(list) /\ (fresh => list = "decl_list")
  /\ todo' = Tail(todo)
  /\ fresh' = FALSE
  /\ UNCHANGED <<vars, status, elements, history>>

Finish ==
  /\ status = "run" /\ todo = <<>>
  /\ status' = "done"
  /\ UNCHANGED <<vars, todo, elements, fresh, history>>

(* A list of the tree has one more element, which leads to the tasks more.   *)
(* A list that is opened counts at once for its first element.               *)
Visit(list, more) ==
  /\ Running(list)
  /\ elements' = elements + (IF fresh THEN 0 ELSE 1)
                 + CountIn(more, Lists)
  /\ elements' <= MaxElements
  /\ fresh' = FALSE
  /\ todo' = more \o todo

(* if (!name_is_declared(..)) new_..(..) else error(..) *)
Declare(list, name, kind, more) ==
  LET known == <<name, kind>> \in Last(declared)
  IN /\ Visit(list, more)
     /\ \/ /\ ~name_is_declared(name, kind)
           /\ SetTable(new_symbol(table, name, kind, scope_level))
           /\ missed' = (missed \/ known)
           /\ declared' = [declared EXCEPT ![Len(declared)] = @ \cup {<<name, kind>>}]
           /\ recent' = recent \cup {<<name, kind>>}
           /\ UNCHANGED <<scope_level, failed, status, reported, overloaded>>
        \/ /\ name_is_declared(name, kind)
           /\ SetTable(get_symtable_entry(table, name))
           /\ status' = "redeclared"
           /\ reported' = {<<name, kind>>}
           /\ UNCHANGED <<scope_level, failed, declared, recent, overloaded, missed>>

-----------------------------------------------------------------------------
(* A control: its name is a type; its local declarations have a scope in     *)
(* the control's scope, and so has the statement of apply.                   *)
build_symtable_control(name) ==
  \/ Declare("decl_list", name, "id_type", Scoped(<<>>))  \* a control type
  \/ \E locals \in Optional("local_decls"), stmts \in Optional("stmt_list") :
       Declare("decl_list", name, "id_type", Scoped(ScopedIfAny(locals) \o Scoped(stmts)))

build_symtable_parser(name) ==
  \E locals \in Optional("local_elements") :
    Declare("decl_list", name, "id_type", Scoped(ScopedIfAny(locals)))

build_symtable_extern(name) ==
  \E methods \in Optional("method_protos") :
    Declare("decl_list", name, "id_type", ScopedIfAny(methods))

(* Structs and headers. *)
build_symtable_struct(name) ==
  \E fields \in Optional("fields") :
    Declare("decl_list", name, "id_type", ScopedIfAny(fields))

(* Packages, and the type declarations that are typedefs. *)
build_symtable_package(name) == Declare("decl_list", name, "id_type", <<>>)

(* Instantiations and constants of the program. *)
build_symtable_top_level_instantiation(name) == Declare("decl_list", name, "id_ident", <<>>)

(* A function's or a method's prototype is declared whatever the scope has. *)
build_symtable_function_proto(list, name) ==
  /\ Visit(list, <<>>)
  /\ new_ident(name)
  /\ overloaded' = (overloaded \/ name_is_declared(name, "id_ident"))
  /\ declared' = [declared EXCEPT ![Len(declared)] = @ \cup {<<name, "id_ident">>}]
  /\ recent' = recent \cup {<<name, "id_ident">>}
  /\ UNCHANGED <<status, reported, missed>>

build_symtable_local_parser_element(name) == Declare("local_elements", name, "id_ident", <<>>)

build_symtable_struct_field(name) == Declare("fields", name, "id_ident", <<>>)

(* An element of a control's local declarations or of a block: an            *)
(* instantiation, action, variable or table, ...                             *)
build_symtable_local_control_declaration(list, name) ==
  Declare(list, name, "id_ident", <<>>)

(* ... a block with or without statements, ...                               *)
build_symtable_block_statement(list) ==
  /\ \E stmts \in Optional("stmt_list") : Visit(list, Scoped(stmts))
  /\ UNCHANGED <<vars, status, history>>

(* ... a method call, assignment, if, switch or direct application; also a   *)
(* declaration of the program that declares nothing here.                    *)
PassOver(list) ==
  /\ Visit(list, <<>>)
  /\ UNCHANGED <<vars, status, history>>

(* ... or a constant, or an empty, return or exit statement: assert(0).      *)
KindNotHandled(list) ==
  /\ Visit(list, <<>>)
  /\ status' = "assert"
  /\ UNCHANGED <<vars, history>>

build_symtable_program ==
  \/ \E name \in Names :
       \/ build_symtable_control(name)
       \/ build_symtable_parser(name)
       \/ build_symtable_extern(name)
       \/ build_symtable_struct(name)
       \/ build_symtable_package(name)
       \/ build_symtable_top_level_instantiation(name)
       \/ build_symtable_function_proto("decl_list", name)
  \/ PassOver("decl_list")

InnerLists ==
  \/ \E name \in Names :
       \/ build_symtable_function_proto("method_protos", name)
       \/ build_symtable_local_parser_element(name)
       \/ build_symtable_struct_field(name)
  \/ \E list \in {"local_decls", "stmt_list"} :
       \/ \E name \in Names : build_symtable_local_control_declaration(list, name)
       \/ list = "stmt_list" /\ (build_symtable_block_statement(list) \/ PassOver(list))
       \/ KindNotHandled(list)

Halted == (status # "run" \/ failed # "no") /\ UNCHANGED allvars

WalkNext ==
  \/ EnterScope \/ LeaveScope \/ LeaveScopeFails \/ EndOfList \/ Finish
  \/ build_symtable_program \/ InnerLists
  \/ Halted

WalkSpec == WalkInit /\ [][WalkNext]_allvars

-----------------------------------------------------------------------------
(* The walk only has tasks of the kinds above, and stays in scopes it entered. *)
WalkTypeOK ==
  /\ TypeOK
  /\ todo \in Seq(Tasks)
  /\ status \in {"run", "redeclared", "assert", "done"}
  /\ elements \in 1 .. MaxElements /\ fresh \in BOOLEAN
  /\ declared \in Seq(SUBSET (Names \X Kinds))
  /\ recent \subseteq Names \X Kinds /\ reported \subseteq Names \X Kinds
  /\ overloaded \in BOOLEAN /\ missed \in BOOLEAN

(* Every push_scope of the walk is met by its own pop_scope: the level is    *)
(* the number of pop_scope calls still to come without a push_scope, and 0   *)
(* at the end.  Whatever is walked lies in a scope, and the assertion        *)
(* scope_level > 0 of pop_scope holds whenever it is called.                 *)
ScopesBalanced ==
  /\ scope_level = CountIn(todo, {"pop_scope"}) - CountIn(todo, {"push_scope"})
  /\ scope_level = Len(declared)
  /\ status = "done" => scope_level = 0
  /\ todo # <<>> /\ Head(todo) # "push_scope" => scope_level > 0

(* name_is_declared knows every name declared since a scope last began or    *)
(* ended: a second declaration of it is reported.                            *)
RecentDeclarationsKnown ==
  status = "run" => \A d \in recent : name_is_declared(d[1], d[2])

(* Unless prototypes were overloaded, a name is reported as redeclared only  *)
(* when its own scope declared it before, and the assertion of               *)
(* scope_delete_symbol holds.                                                *)
ReportsAreRight ==
  ~overloaded =>
    /\ failed = "no"
    /\ \A d \in reported : d \in Last(declared)

(* build_symtable.c reports "name `%s` redeclared." (build_symtable.c:182    *)
(* and the other declarations): no scope declares a name twice unreported.   *)
RedeclarationReported == ~missed
=============================================================================
