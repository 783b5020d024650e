-------------------------------- MODULE Ast --------------------------------
(***************************************************************************)
(* The syntax tree (ast.c, ast.h): nodes with a small hash table of        *)
(* attributes, and lists of nodes that hang from a sentinel.               *)
(*                                                                         *)
(* Each struct lives in the sequence of its type and its address is its    *)
(* place there, 0 the null pointer.  A pointer to an AstListLink may also  *)
(* be the sentinel inside list l: that address is -l.  Stale is what a     *)
(* pointer that was never written holds on a page that was used before.    *)
(***************************************************************************)
EXTENDS Integers, Sequences

CONSTANTS
  AttrCapacity,  \* AST_ATTRTABLE_CAPACITY
  AttrHash       \* attribute name -> hash_string(name, AST_ATTRTABLE_CAPACITY_LOG2)

AttrNames == DOMAIN AttrHash

ASSUME AttrTableAssumption ==
  /\ AttrCapacity \in Nat \ {0}
  /\ AttrHash \in [AttrNames -> 0 .. AttrCapacity - 1]

VARIABLES
  nodes,       \* struct Ast
  attributes,  \* struct AstAttribute
  lists,       \* struct AstList; next is that of its sentinel
  links,       \* struct AstListLink
  failed       \* the assertion that stopped the program, or "no"

treeVars == <<nodes, attributes, lists, links>>

Null == 0
Stale == 1000000

AttrTypes == {"Ast", "AstList", "Integer", "String", "ExprOperator"}

(* What an attribute may point to besides a node or a list. *)
Lexeme == -1   \* characters in the arena of the lexemes
Cell == -2     \* a number in the arena of the tree, or a static one

TreeInit ==
  /\ nodes = <<>> /\ attributes = <<>> /\ lists = <<>> /\ links = <<>>
  /\ failed = "no"

-----------------------------------------------------------------------------
(* The entry for name in a bucket that begins with entry, or null. *)
FindEntry(entry, name) ==
  LET find[a \in 0 .. Len(attributes)] ==
        IF a = Null \/ attributes[a].name = name THEN a ELSE find[attributes[a].next_attr]
  IN find[entry]

EntryFor(ast, name) == FindEntry(nodes[ast].attrs[AttrHash[name]], name)

new_ast_node(kind) ==
  /\ nodes' = Append(nodes, [kind |-> kind, attr_count |-> 0,
                             attrs |-> [h \in 0 .. AttrCapacity - 1 |-> Null]])
  /\ UNCHANGED <<attributes, lists, links, failed>>

(* Wrong on purpose: a new entry does not keep the rest of its bucket. *)
PushEntryAlone(ast, name, type, value) ==
  LET h == AttrHash[name]
  IN /\ attributes' = Append(attributes, [name |-> name, type |-> type, value |-> value,
                                          next_attr |-> Null])
     /\ nodes' = [nodes EXCEPT ![ast].attrs[h] = Len(attributes) + 1,
                               ![ast].attr_count = @ + 1]

(* A new entry goes in front of its bucket. *)
PushEntry(ast, name, type, value) ==
  LET h == AttrHash[name]
  IN /\ attributes' = Append(attributes, [name |-> name, type |-> type, value |-> value,
                                          next_attr |-> nodes[ast].attrs[h]])
     /\ nodes' = [nodes EXCEPT ![ast].attrs[h] = Len(attributes) + 1,
                               ![ast].attr_count = @ + 1]

ast_setattr(ast, name, value, type) ==
  /\ UNCHANGED <<lists, links>>
  /\ LET entry == EntryFor(ast, name)
     IN \/ /\ entry # Null
           /\ attributes' = [attributes EXCEPT ![entry].type = type, ![entry].value = value]
           /\ UNCHANGED <<nodes, failed>>
        \/ /\ entry = Null /\ nodes[ast].attr_count < AttrCapacity
           /\ PushEntry(ast, name, type, value)
           /\ UNCHANGED failed
        \/ /\ entry = Null /\ nodes[ast].attr_count >= AttrCapacity
           /\ failed' = "ast->attr_count < AST_ATTRTABLE_CAPACITY"
           /\ UNCHANGED <<nodes, attributes>>

(* The attribute iterator: it stands at entry attr_at of bucket table_i, at *)
(* null when it has passed the last one.                                    *)
BucketFrom(ast, i) ==
  LET filled == {h \in i .. AttrCapacity - 1 : nodes[ast].attrs[h] # Null}
  IN IF filled = {}
     THEN [table_i |-> AttrCapacity, attr_at |-> Null]
     ELSE LET h == CHOOSE x \in filled : \A y \in filled : x <= y
          IN [table_i |-> h, attr_at |-> nodes[ast].attrs[h]]

ast_attriter_init(ast) == BucketFrom(ast, 0)

(* Wrong on purpose: it goes from an entry to the next bucket. *)
NextBucketOnly(ast, iter) == BucketFrom(ast, iter.table_i + 1)

ast_attriter_get_next(ast, iter) ==
  IF attributes[iter.attr_at].next_attr # Null
  THEN [iter EXCEPT !.attr_at = attributes[@].next_attr]
  ELSE BucketFrom(ast, iter.table_i + 1)

-----------------------------------------------------------------------------
(* Lists.  list->tail->next, for a tail that is a link or a sentinel. *)
NextOf(p) == IF p > 0 THEN links[p].next ELSE lists[-p].next

ast_list_first_link(l) == NextOf(lists[l].head)

(* A list header is pushed, cleared and initialised at once: list is what  *)
(* its memory holds after the memset.                                      *)
ast_list_init(list) ==
  LET l == Len(lists) + 1
      fails == IF list.head # Null THEN "list->head == 0"
               ELSE IF list.tail # Null THEN "list->tail == 0" ELSE "no"
  IN /\ failed' = fails
     /\ lists' = Append(lists, IF fails = "no" THEN [list EXCEPT !.head = -l, !.tail = -l]
                                               ELSE list)
     /\ UNCHANGED <<nodes, attributes, links>>

(* A link is pushed and cleared before its node is built. *)
NewLink ==
  /\ links' = Append(links, [prev |-> Null, next |-> Null, ast |-> Null])
  /\ UNCHANGED <<nodes, attributes, lists, failed>>

ClearedList == [head |-> Null, tail |-> Null, next |-> Null, link_count |-> 0]

ListAsserts == {"list->head == 0", "list->tail == 0", "list->tail->next == 0"}

(* Wrong on purpose: the tail stays where it was. *)
LinkedWithoutTail(l, k, ast) ==
  LET tail == lists[l].tail
      hung == [links EXCEPT ![k].prev = tail, ![k].ast = ast]
  IN /\ links' = IF tail > 0 THEN [hung EXCEPT ![tail].next = k] ELSE hung
     /\ lists' = [lists EXCEPT ![l].link_count = @ + 1,
                               ![l].next = IF tail > 0 THEN @ ELSE k]

(* What ast_list_append_link does once its assertions hold. *)
Linked(l, k, ast) ==
  LET tail == lists[l].tail
      hung == [links EXCEPT ![k].prev = tail, ![k].ast = ast]
  IN /\ links' = IF tail > 0 THEN [hung EXCEPT ![tail].next = k] ELSE hung
     /\ lists' = [lists EXCEPT ![l].tail = k, ![l].link_count = @ + 1,
                               ![l].next = IF tail > 0 THEN @ ELSE k]

(* link->ast = ast; ast_list_append_link(list, link) *)
ast_list_append_link(l, k, ast) ==
  /\ UNCHANGED <<nodes, attributes>>
  /\ \/ /\ NextOf(lists[l].tail) = Null /\ links[k].prev = Null
        /\ Linked(l, k, ast)
        /\ UNCHANGED failed
     \/ /\ NextOf(lists[l].tail) # Null
        /\ failed' = "list->tail->next == 0"
        /\ UNCHANGED <<lists, links>>
     \/ /\ NextOf(lists[l].tail) = Null /\ links[k].prev # Null
        /\ failed' = "link->prev == 0"
        /\ UNCHANGED <<lists, links>>

-----------------------------------------------------------------------------
(* The tree as the rest of the program reads it, by ast_getattr and by     *)
(* following a list from its head.                                          *)
ast_getattr(ast, name) ==
  LET entry == EntryFor(ast, name)
  IN [type |-> attributes[entry].type, value |-> attributes[entry].value]

AttrsOf(ast) ==
  [name \in {n \in AttrNames : EntryFor(ast, n) # Null} |-> ast_getattr(ast, name)]

NodesOf(l) ==
  LET follow[k \in 1 .. Len(links)] ==
        <<links[k].ast>> \o IF links[k].next = Null THEN <<>> ELSE follow[links[k].next]
      first == IF lists[l].head = -l THEN ast_list_first_link(l) ELSE Null
  IN IF first \in DOMAIN links THEN follow[first] ELSE <<>>

TreeOf == [n \in DOMAIN nodes |-> [kind |-> nodes[n].kind, attrs |-> AttrsOf(n)]]
ListsOf == [l \in DOMAIN lists |-> NodesOf(l)]
=============================================================================
