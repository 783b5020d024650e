# TLA+ specifications of ashp4c

ashp4c is a compiler front end for P4_16 written in C.  It is one process and one
thread: it reads a source file, cuts it into tokens, parses them into a syntax tree,
and walks the tree to declare its names in a symbol table.  There is no input besides
the file, and nothing is persisted.  What is hard about it is not concurrency but long
sequences of calls on shared mutable structures: an allocator that allocates its own
bookkeeping from itself and hands out pages with their old contents, a hash table with
scopes that is rehashed in the middle of a lookup, a character automaton with loops that
do not look for the end of the text, and a hand-written recursive-descent parser of 105
functions that rely on one another's tests of the next token.

This directory holds TLA+ modules that model those parts, the TLC configurations that
check them on small instances, and TLAPS proofs about the allocator, the unbounded arrays,
the symbol table, the declaration pass, the lexer, the parser and the driver.  `PROJECT.json`
lists the components, the runs, one mutant per checked property, the map from definitions to
source lines, the findings, the hazards and the theorems.

## Inventory

| Component | Source | State | Operations | Used by |
|---|---|---|---|---|
| Page arenas | `arena.c` 1-226, `arena.h` | page runs with their `PageBlock` structs: free list, one list per arena, recycled structs; per arena `memory_avail`, `memory_limit`; page protection | `init_memory`, `arena_push`, `arena_delete` | everything that allocates |
| Unbounded array | `arena.c` 235-296 | segments of 1, 2, 4, ... elements, `elem_count`, `capacity` | `array_init`, `array_append`, `array_get`, `array_set` | tokens, hash table, tree lists |
| Hash | `hash.c` | none | `hash_string` | symbol table |
| Lexer | `lex.c`, `token.h` | position in the text, automaton state, previous token | `lex_tokenize` | driver |
| Symbol table | `symtable.c` | array of chains of entries, `capacity_log2`, `entry_count`, `scope_level` | `symtable_init`, `symtable_flush`, `get_symtable_entry`, `new_type`, `new_ident`, `name_is_declared`, `push_scope`, `pop_scope` | parser (keywords, types), declaration pass |
| Parser | `build_ast.c`, `p4_grammar.bnf` | current token, peeked token, call stack | `build_p4program` and the functions it calls | driver |
| Syntax tree | `ast.c` | nodes with attribute tables, lists of links | `ast_list_*`, `ast_getattr`, `ast_setattr` | parser, declaration pass, printer |
| Declaration pass | `build_symtable.c` | the walk's call stack | `build_symtable_program` and the functions it calls | driver |
| Tree printer | `print_ast.c` | none | `print_ast` | driver |
| Driver | `ashp4c.c` | the arenas and the phase | `main` | |
| eBPF samples, scripts, test data | `ebpf/`, `deploy.py`, `testdata/` | | | not part of the compiler |

How they interact.  The driver runs the phases in order and deletes the arena of each
phase's input after it.  Lexer, parser, symbol table and tree allocate from arenas;
every `arena_push` may take pages, which needs a `PageBlock` struct, which is pushed on
an arena of its own by the same function.  The parser looks each identifier up in the
symbol table to tell keywords, type names and other identifiers apart, and enters a type
with `new_type` while it is parsing its declaration, so that the class of a token depends
on what was parsed before it.  The declaration pass flushes the table and fills it again
with scopes.

What has to be right:

* *Page arenas.*  No page is lost or given out twice; no struct is on two lists;
  memory handed out stays exclusive and accessible until the arena is deleted; the
  assertion behind the two size tests is unreachable; calls return.
* *Symbol table.*  Whatever the hash does and however the array grows, a name has one
  entry and keeps its symbols; scopes end with their own symbols only.
* *Declaration pass.*  Scopes are entered and left in pairs; a name is reported as
  redeclared exactly when its scope declared it before.
* *Parser.*  It stops on every input, with a tree or a message and not in an `assert(0)`;
  it accepts bracketed text only when the brackets match; it accepts what
  `p4_grammar.bnf` describes.
  The tree of an expression is the one its priorities, grouping and brackets give.
* *Lexer.*  Tokens begin and end where the text says, strings and comments included; the
  line numbers are right; integers are what their digits denote; it ends on every text.
* *Unbounded array.*  It is a sequence, wherever the arena puts its segments.
* *Syntax tree and printer.*  A node is a map and a list a sequence, although names
  collide and memory is not zeroed; printing visits everything once and ends.
* *Driver.*  Nothing is read that lies in an arena given back.

## Modules

| Module | Models | Composed with |
|---|---|---|
| `PageArena` | `arena.c` 1-226 | instantiates `ArenaContract` |
| `ArenaContract` | what the arenas promise their clients | |
| `PageArenaProofs` | types, the assertion and the free list of `PageArena` | extends it |
| `PageOwnershipProofs` | who owns which page, struct and byte; the refinement | extends `PageArenaProofs` |
| `UnboundedArray` | `arena.c` 235-296 | a client of `ArenaContract`; instantiates `SequenceStore` |
| `SequenceStore` | the arrays without segments | |
| `UnboundedArrayProofs` | theorems about `UnboundedArray`; the refinement | extends it |
| `Symtable` | `symtable.c`, the table index of `hash.c` | instantiates `SymbolMap` |
| `SymbolMap` | the table without a hash table | |
| `SymtableProofs` | theorems about `Symtable`; the refinement | extends it |
| `BuildSymtable` | `build_symtable.c` | extends `Symtable`: the walk calls its operations |
| `BuildSymtableProofs` | theorems about `BuildSymtable` | extends it and `SymtableProofs` |
| `Lexer` | `lex.c`, the character tests of `basic.c` | |
| `LexerProofs` | theorems about `Lexer` | extends it |
| `Grammar` | every `build_...` and `token_is_...` function of `build_ast.c` | |
| `Parser` | the call stack, `next_token`, `peek_token`, the types known | extends `Grammar` |
| `ParserProofs` | theorems about `Parser` and every production | extends it |
| `Expression` | the trees of `build_expression` and the functions below it | instantiates `Grammar` for its sets of tokens |
| `Ast` | `ast.c`, `new_ast_node` | |
| `TreeStore` | the tree without buckets and links | |
| `PrintAst` | `print_ast.c` | extends `Ast` |
| `Compiler` | `main` in `ashp4c.c`: the phases, their arenas, what they put there | extends `PrintAst`; instantiates `TreeStore` |
| `CompilerProofs` | theorems about `Compiler` | extends it |
| `MC...` | constants for TLC | |

Operators named `...WithoutX`, `...Twice` and so on under a comment *Wrong on purpose*
are the mutants that `PROJECT.json` names; no specification uses them.

### PageArena

A pointer to a `PageBlock` is its address; `block[s]` is the content of the struct at
address `s`, and a list is the sequence of structs that its head leads to.  The memory is
`TotalPages` pages of `PageSize` bytes starting at address 0.

`arena_push` has a fast path (`PushFits`, one step) and a slow path.  The slow path is
three steps because of the call in its middle: `PushTakesPages` cuts a run from the free
list and makes it accessible; `get_new_block_struct` is `GetRecycledStruct`,
`GetStoredStruct` or, when the struct storage is full itself, `GrowStorage`, which is a
second `arena_push` on top of the first (`stack` holds the frames that wait); `LinkPages`
puts the run on the arena's list, returns the memory and, if the push was a nested one,
goes on in the caller.  `arena_delete` is `Delete`, one `DeleteBlock` per block,
`DeleteEnds`.  `block_insert_and_coalesce` is one operator: it has no calls that could
come back to the allocator.  `mprotect` may fail at every call (`PushFails`,
`GrowStorageFails`, `DeleteFails`), which ends the process, as running out of pages does.

Two details decide about correctness and are kept as they are.  A free run from which all
pages were taken stays on the free list with a size of 0, so the free list is never empty;
if it were, the early return of `block_insert_and_coalesce` would hand the whole rest of
an arena's list to the free list (`FreelistNonEmpty`; the operator takes the blocks
behind the inserted one, so the mutant that unlinks an empty run shows the damage).  And
the left neighbour of a block is the *first* block that begins at or before it, not the
last one; see the findings.

The history variable `used` records the bytes each arena has handed out.

`ArenaContract` states the promise without pages: `Push` returns consecutive bytes that
no arena holds, `Delete` takes back all of an arena's bytes, and a held byte stays
accessible.  `KeepsContract` is the refinement, with `held` mapped to `used` and
`accessible` to `writable`.

### Symtable

Every operation is one action, since the program is one thread and no operation of the
table calls back.  A symbol is represented by the scope level it was declared at; its name
is that of its entry and its kind that of its chain.  `Ksigma` is the hash before the
final shift, as a constant per name, so that collisions can be chosen; the shift to
`capacity_log2` bits and the folding of the largest value onto 0 are as in `hash.c`.
`Rehash` follows `get_symtable_entry`: collect all entries, lengthen the array, clear it,
insert each entry at its new hash.  `scope_delete_symbol` is translated as written,
including that it answers 0 for a chain that begins in an outer scope.

`SymbolMap` is the same table as a set of names with chains.  `ImplementsMap` says that
hashing, chaining and rehashing are invisible; a lookup is a stuttering step of it.

### BuildSymtable

The C functions call one another along the tree.  Here `todo` is the sequence of calls
that are left, and the tree is chosen while it is walked: a list yields an element of any
kind, or ends.  The behaviours are therefore the walks over all trees of at most
`MaxElements` elements, a bound of the walk and not of the code.  A declaration is one action: the test with `name_is_declared`,
then `new_type` or `new_ident` or the error that ends the program.  The histories
`declared` (per open scope, what it declared) and `recent` are what the properties compare
the table with.

### Grammar and Parser

A `build_...` function is an operator that takes the current token and gives the sequence
of what the function does next: token classes it requires and passes, productions it
calls, `"new_type"`, or how it gives up, `"error"` and `"assert"`.  An operator whose name
ends in `_` is the rest of the function it is named after, behind a point where it looks
at a new token.  `Parser` runs this on a stack: `Call` replaces the innermost task by its
production, `next_token` passes a required token, `WrongToken` refuses one, `peek_token`
determines the token ahead, `new_type` makes a type known.

The input is not fixed: whenever the parser comes to a new token, any token of `Tokens`
comes that the lexer and the table can deliver there.  `Symbols` are the functions and
`Tasks` what can be on the stack.  Names are abstracted to whether the
table knows some type: an identifier that follows may or may not be that type's name.
`build_ast.c` peeks at three places (`Peeks`); the peeked token is classified before the
declaration in between, and `new_type` models that `next_token` looks it up again.

The nodes that are built, their attributes and line numbers are left out here: no decision
of the parser depends on them, except where the function asks for the kind of node that it
has just built, which the productions distinguish by name.

One run covers four parts of the language, `Languages`: the variable `language` says which
tokens the input is made of and keeps its value.

### Expression

The same functions of `build_ast.c` as `Grammar` has for expressions, here with the tree
they return: recursive operators from a position in the tokens to a node and the position
behind it.  `Tree` is the reference and knows nothing of the functions: it looks at the
whole sequence, finds the brackets, the operators outside of them, splits at the last one
of the least priority, and treats unary operators, casts and `=` as taking all that
follows.  The last point is what the code does, not what P4 says: `!a && b` is `!(a && b)`.

### Lexer

The text is chosen while it is read: `here` and `ahead` are the character at
`lexeme->end` and the one behind it, and any character may come next, up to `MaxChars`.
A state of the automaton that the same call leaves at once is not a state of the model; a
`do ... while` over characters is one step per round, since what comes is chosen there.
The history `text` is a second reader of the same characters, which knows strings with
escapes, both kinds of comments, and line breaks of one or two characters; the properties
compare the two.  `odd` records what `lex.c` treats in its own way (an escape or a line
break in a string, a `//` comment that two characters end), since the properties hold only
without it.  Integers wrap at `IntBits` bits, as the build does.

The string of an integer is not the characters the automaton has passed.  Its loops pass the
first character whatever it is, and `lexeme_copy` takes a backslash for the beginning of an
escape and drops it: `0b\1` is the number 1 and `8w\_` the number 0, while `0b\` is tested by
the character behind it.  `NumberEnds` and `WidthEnds` test and parse what `lexeme_copy`
returns.  In the assertions of `parse_integer` (`Parses`) the automaton would stop with the
status `assert`, and `AssertOnlyAtEnd` says that it does not.  The byte that a
dropped backslash leaves unwritten is 0, as it lies in a page nothing has used before.

### UnboundedArray

Two arrays in one arena, of which only the contract is known: `arena_push` returns any free
bytes.  Memory is a map from bytes to the element and the offset in it, so that an element
that is read half from elsewhere is none.  `floor_log2` is exact here, so that no property
would notice a floating-point expression that is not.  That the expression of the code is
exact for the indexes that 400 kilobytes allow was found by evaluating it, not by a run or a
proof; the mutant `floor_log2_inexact` shows that `ImplementsSequence` depends on it.
`TableAssumption` is what lets the code do without a test for the end of `segment_table`.

### Ast, PrintAst and Compiler

`Ast` keeps each kind of struct in a sequence; a pointer is a place in it, and the sentinel
within a list has an address of its own.  `PrintAst` is `print_ast` with its call stack.
`Compiler` is `main` step by step: the arguments, the source, the tokens, the table, the
parser, the printer, the second pass, and the `arena_delete` calls in between.

Memory is counted in pages here.  A push fits the current block of its arena, takes pages
that were never used, or takes pages given back, which keep what was in them; the choice is
left open, as it depends on sizes.  `points` is which arena's structs point into which
other arena, and `dangling` what is left of it after a delete.

Of the parser `Compiler` keeps the order in which it pushes, clears, links and sets
(`Rules`): one kind of node for each way there is, with an attribute that is a lexeme, a
cell, a node built next, a node built before, a node that may be null (`VarDecl`, whose
`init_expr` is null without an initializer), a list, a list that may be null, the list of
a tuple, whose header is not cleared, and the lexeme marked as a node; and a node without
attributes (`Default`).  Left out is a node that `build_ast.c:489` allocates and drops: it
only takes memory.  The names of the attributes keep the hash values that `hash_string`
gives them, so that the collisions are those of the program.

## Runs

All passing runs check deadlock; the specifications have an explicit stuttering step for
"the program has ended".

| Run | Instance | What it shows |
|---|---|---|
| `page_arena` | two arenas, 4 pages of 4 bytes, requests of 1, 4, 7 and 8 bytes | pages, structs, protection and handed-out memory stay consistent in every state, the middle of a nested push and of a delete included; the allocator implements `ArenaContract`, and each call returns or exits |
| `page_arena_order` | 6 pages | **violated**: the free list is not in address order |
| `unbounded_array` | two arrays, elements of 1 and 2 bytes, 7 bytes of memory | the arrays implement `SequenceStore` |
| `symtable` | 2 keywords, 2 names, capacities 1, 3, 7 | the hash table implements `SymbolMap`, one entry per name, the counters right |
| `build_symtable` | trees of at most 6 elements over two names | scopes are balanced and everything walked lies in one, a name declared since the last scope boundary is known, and without overloaded prototypes only real redeclarations are reported |
| `build_symtable_missed` | trees of at most 5 elements | **violated**: see the findings |
| `lexer` | texts of up to 6 characters over 16 kinds, ints of 6 bits | tokens, lines, integers, the assertion, termination |
| `parser` | four parts of the language with 26, 27, 19 and 25 token classes | brackets, `assert(0)`, types, and that no loop turns forever |
| `parser_empty` | the bodies of parsers and controls | **violated**: see the findings |
| `expression` | up to 7 tokens over 19 classes | the tree is the one of the reference, and what has a tree is passed |
| `compiler` | 5 pages, text of up to 2, 4 nodes, 2 list elements | all phases with all reuses of pages: live memory, the tree, its printing, the assertions |
| `compiler_stale_list` | the same | **violated**: see the findings |

`parser` checks that the stack of pending functions closes exactly the brackets that are
open (`BracketsMatch`), and that none of the `assert(0)` is within reach, except the one
behind `const` in a table (`OnlyConstAsserts`).  `compiler` says the same of the
assertions of `ast.c` and `print_ast.c`: two can fail, and only where `OnlyKnownAsserts`
says.

### Bounds

* *Arenas.*  A page of 4 bytes holds three structs of 1 byte (a push must end before the
  limit of its run, `memory_avail + size < memory_limit`), so two or three slow pushes
  make the storage grow in the middle of a client's push, as the real page does after
  about a hundred.  Requests of 1, 4, 7 and 8 bytes are less than a page, exactly a page,
  a run that is filled by the request but for one byte, and two exact pages.  Four pages allow free runs on both sides of a deleted one, which the three cases of
  coalescing need; the order violation needs more free runs, hence 6 pages.
* *Symbol table.*  The capacity starts at 1 and grows twice; names collide in some
  tables and not in others, and one has the largest product, which the modulus folds onto
  0.  Two scopes and four symbols are enough for a chain with two levels of two kinds.
  `MaxLog2`, `MaxScope` and `MaxSymbols` bound the calls only.
* *Declaration pass.*  Six elements allow a declaration, a nested scope with an element,
  and a second declaration behind it, at two levels.
* *Parser.*  `depth` bounds the pending tasks and `brackets` the open brackets of each part
  of the language; the length of the input is not bounded, and lists of any length are
  covered.  A stack or
  nesting beyond the bound is cut off where it is reached.  The token sets have one
  token for each role where several do the same; between them the four parts take every
  branch of every production.
* *Expressions.*  Seven tokens are three operators with their operands, or brackets with
  an operator on each side.  `AllUpTo`: up to four tokens, also inputs that were refused
  go on, which shows that the refusal was right; beyond it only the others do.
* *Lexer.*  Six characters are a comment with two characters in it, an integer with a
  width, a base and two digits, or an operator between two tokens.  Six bits overflow with
  two decimal digits.
* *Arrays.*  Seven bytes hold segments of 1, 2 and 4 elements, or two segments of each
  array with a byte of somebody else between them.
* *Compiler.*  A text of two pages leaves pages behind that the tree, the symbols or a table
  may take; four nodes and two links allow a call with an argument in a declaration, two
  lists, and two nodes in one list.  A variable with an initializer takes a fifth node, so
  that the run has `VarDecl` with a null `init_expr` only; the theorems have both.  `Memory`
  is small enough to run out in every phase.

### Fairness

The program is one thread that is never blocked, so that a call it has begun goes on.
`PageArena` has `WF_vars(Step)`, where `Step` are the inner steps of a call and not the
calls: clients may stop calling.  `Lexer` has `WF_vars(Next)`: the whole text has been read
before.  `Parser` has weak fairness of its steps: there is always a token to look at.
`Compiler` has it for the printer only, the one phase whose end is a property; the bounds
would stop others where the program goes on.  The remaining specifications have no fairness
and no liveness property.

## Proofs

### The allocator: types and assertions

`PageArenaProofs` proves for every number and size of pages, every set of arenas and
request sizes:

* `TypeCorrect`: `Spec => []TypeOK`.  Every address the allocator keeps lies in the
  reserved memory.
* `AssertNeverFails`: `Spec => []NoAssert`.  The `assert` behind the size comparisons of
  `arena_push` is unreachable.
* `FreelistNeverEmpty`: `Spec => []FreelistNonEmpty`.

Assumptions: `StorageAssumption` (the arena of the structs is no client's arena) and
`SizeAssumption` (at least one page, two structs fit into a page with room to spare, which
is what `init_memory` needs, and requests are of at least one byte).

The argument.  `TypeOK` is not inductive: that the end of a cut run lies in memory, and
that a nested push does not overrun the storage's run, follow from where runs begin and
from what the waiting calls have left to do.  `SafeInv` adds `AlignedInv` (every run, of a
struct or of a waiting push, begins and ends at a page boundary), `StackInv` (at most two
pushes wait, a client's and one for a struct; each has room for its request, the inner one
also for the struct that its caller will take next) and `NoAssert` itself.  `RoundUp` is
the key lemma: a run between page boundaries that holds a request also holds the request
rounded up to pages, and what is left of it begins at a boundary again.  `FirstFit` and
`LeftNeighbourIndex` say what the searches return, from the well-foundedness of `<`.  There
is one lemma per action.

### The allocator: ownership and the contract

`PageOwnershipProofs` proves, from the same two assumptions, every remaining safety
property that the run `page_arena` checks:

* `EachStructLinkedOnce`: `Spec => []StructsLinkedOnce`.
* `NoPageLostOrShared`: `Spec => []PagesPartitioned`.
* `OwnedMeansAccessible`: `Spec => []ProtectionMatchesOwnership`.
* `PushedMemoryIsExclusive`: `Spec => []MemoryIsExclusive`.
* `ListsNeverFault`: `Spec => []StructsAccessible`.
* `ContractIsKept`: `Spec => KeepsContract`.  The allocator implements `ArenaContract`,
  which is all that `UnboundedArray` knows of it.

None of the five is inductive, and none can be had without the others.  A struct that is
cut out of fresh memory is on no list because it lies in bytes that nobody has used yet;
those bytes are the storage's because the runs of pages do not overlap; they do not overlap
because no struct is on two lists, where an update through one list would change a run of
the other.  So there is one inductive invariant, `OwnInv`, on top of `SafeInv` and
`FreelistNonEmpty`:

* `ListsInv` and `LinkedInv`: the lists are sequences of structs without repetition, and no
  two of them (free, one per arena, recycled) share one;
* `FramesInv`: what the waiting pushes hold, whose runs are on no list yet;
* `StructsInv`: structs lie in used bytes of the storage, apart from one another;
* `PagesInv`: runs of structs and waiting pushes are disjoint and make up the memory, and
  the accessible bytes are those that are held;
* `MemoryInv`: used bytes and the bytes to be handed out next are apart and held;
* `DeleteInv` and `PushInv`: what the half-done delete and push have established.

The largest lemma is `InsertKeeps`: `block_insert_and_coalesce` in each of its cases (no
neighbour, the left, the right, both) keeps the bytes of the list the same up to the new
run and moves a struct that a merge has emptied to the recycled ones.  It does not need the
list to be ordered, which is as well, since the code does not keep it so (`page_arena_order`
below).  It does need the list not to be empty.  `TakePagesCuts` and `LinkPagesOwn` are the two
halves of a push around the nested one, `DeleteBlockOwn` a round of the loop of
`arena_delete`.  For the refinement, the mapping is in `PageArena`; that the bytes of a push
are fresh for the contract is `MemoryInv` together with `PagesInv`.

### The symbol table

`SymtableProofs` proves for every set of names, every hash, every starting size and every
number of scopes and symbols:

* `TypesHold`: `Spec => []TypeOK`.
* `TableStaysAMap`: `Spec => []TableIsMap`.
* `TableImplementsMap`: `Spec => ImplementsMap`.

Assumptions: `KeywordsAssumption` (no keyword is entered twice), `HashAssumption` (the widths
are in order and every name has a hash), `PowerFact` (as for the lexer, on powers of two) and
`BoundAssumption`: the names are finitely many, and the largest capacity has room for them.
The last one is what `MaxLog2` has to be to cut nothing off: the table of the code may grow
to any width.

The argument.  `SymInv` is inductive; its part `TableOK` says that the entries of a chain have
different names, that the hash of each leads to its chain, that `entry_count` is the
number of names in the table, and that it is at most the capacity.  A look-up tests only one
chain, so that the second of these is why an entry not found there is nowhere else and may
be entered.  The difficult operation is the rehash, which is three loops: one collects the
entries of all chains, one clears the array, one inserts each entry at its new hash.  `FlattenIs` says that
the collected sequence has each entry once, `MovedIs` that each turn of the last loop keeps
`ArrayOK` and adds one entry, `RehashIs` that the whole changes no entry; that the table may
grow is `RoomToGrow`.  The library's induction theorems cannot be
used (they take an operator), so `LoopRuns` and `StaysIn` show from the order of the
numbers what holds after each turn of a loop that a recursive function models.

For the refinement, `ShownIs` says that the map shows the entries with a symbol, as a set
without order, and there is one lemma per operation on what it does to that set
(`PopImplements`, `DeclareImplements`); an entry that a look-up leaves without a symbol is
not shown.

### The declaration pass

`BuildSymtableProofs` proves, for every tree and every table as above:

* `WalkTypesHold`: `WalkSpec => []WalkTypeOK`.
* `ScopesAreBalanced`: `WalkSpec => []ScopesBalanced`.
* `RecentNamesKnown`: `WalkSpec => []RecentDeclarationsKnown`.
* `ReportsStayRight`: `WalkSpec => []ReportsAreRight`.

Assumptions: those of the table and `ElementsAssumption` (the program's list is an element).

The argument.  `SymInv` holds along the walk, since every step of it is an operation of the
table or leaves it alone (`SymKept`).  `ScopesBalanced` is not inductive: that a count over all
calls left is right does not say that they come in a right order.  `NestInv` says it for every
position: from there on, the `pop_scope` calls outnumber the `push_scope` calls, by at least
one if the position is not a `push_scope` itself (`Nested`).  What an element adds
is `Closed`, that is, balanced and nowhere left too often (`BodiesClosed`, for each kind of
element), and putting it in front keeps `Nested`; the scope level is the depth at the first
position.

`RecentInv` says of each recent name that its chain begins at the current level, or
deeper. `ReportsAreRight` needs what chains look like: `EntryFits` says that the levels
of a chain descend strictly and are at most the current one, and that the scope of each
level has declared the name. An overloaded prototype would put one level twice into a
chain, of which `scope_delete_symbol` deletes one symbol only: the others stay behind
after their scope has ended, make the name look declared in a later scope, and can fail
the assertion when a further scope ends. This is where the property's premise is needed.
That `pop_scope` deletes symbols of outer scopes (see the findings) does no harm here:
it makes chains shorter.

### The lexer

`LexerProofs` proves for every alphabet that has no character `"end"`, every length of text
and every width of `int`:

* `TokensAreLongest`: `Spec => []LongestToken`.
* `LexerTypeCorrect`: `Spec => []LexerTypeOK`.
* `TokensAreInCode`: `Spec => []TokensBeginInCode`.
* `LinesAreCounted`: `Spec => []LinesCounted`.
* `AssertsOnlyAtEnd`: `Spec => []AssertOnlyAtEnd`.

Assumptions: `LexerAssumption`, and `PowerFact`, which is arithmetic (`2^(n-1)` is a
positive number and `2^n` twice of it): the provers have no axioms for powers.  TLC
evaluates both.

The argument.  The properties compare the automaton at the beginning of a token with a
reader of the text that knows only the comments, strings and line breaks of the language.
They are not inductive, as they say nothing of the middle of a token.  `Inv` says for each
state of the automaton which modes the reader can be in (`ModeInv`) and how the line numbers
compare (`LineInv`): in state 310 at the only or first character of a break the automaton
is one line ahead, in a number whose first character is neither a digit nor dropped
(`BadNumber`) nothing is said, and otherwise they agree; the second character of a break (`Second`) is met only
where the reader knows it.  Where a string had an
escape (`Clean` fails) or a break was met that the code counts in another way, nothing is
claimed, as in the properties.  `TypeInv` bounds the line numbers and the digits by the
characters read, and what `parse_integer` computes by the width.  There is one lemma per
case of the automaton, and below it lemmas on what a step over one character does to the
reader.

### The unbounded array

`UnboundedArrayProofs` proves for every memory, every number of arrays and every size of
their elements:

* `ArrayTypesHold`: `Spec => []ArrayTypeOK`.
* `ArraysAreSequences`: `Spec => ImplementsSequence`.

Assumptions: `ArrayAssumption` (sizes are positive), `TableAssumption` (the memory holds fewer
than `2^SegmentSlots` bytes, which is what lets the code do without a test) and `PowerFact`,
on powers of two as for the lexer.

The argument.  Which slot an element has is arithmetic: index `i` lies in the segment
`floor_log2(i + 1)`, which has `2^k` elements and begins behind `2^k - 1` others (`FloorIs`,
from the order of the numbers).  `ArrayInv` is inductive; its part `TableFits` says of the
segments in use that they lie in bytes the arena has handed out, that no two of them, of one
array or of two, overlap, and that their bytes add up to the capacity times the size of an
element.  From the last, the capacity cannot exceed the memory, so that by `TableAssumption` the
next segment still has a place in the table.  `StoresAll` says that each slot below the
count holds all bytes of one element; a write to one slot leaves the others alone since
slots of different elements are disjoint, and a push of the client or of another array
returns bytes that no segment has.  The refinement follows step by step: an append adds one
element behind the unchanged ones, also when it begins a segment.

### The parser

`ParserProofs` proves for every choice of the tokens an input is made of:

* `ParserTypesHold`: `Spec => []ParserTypeOK`.
* `BracketsAlwaysMatch`: `Spec => []BracketsMatch`.
* `OnlyConstReachesAssert`: `Spec => []OnlyConstAsserts`.

Assumption: `LanguagesAssumption` (the tokens are token classes, and the end is one of them).
The bounds on the stack and on the brackets are not used: the theorems hold at any depth of
nesting.

The argument has a part about the grammar and a part about the stack.  `Closes` says what a
task does to the brackets that are to be closed, `Unwind(tasks, x, y)` that a sequence of tasks
brings them from `x` to `y`; sequences can be put together (`UnwindConcat`) and done from the
front (`UnwindTail`).  `ProductionsAreGood` is the part about the grammar: for all 151 functions
and rests of functions, every token and every token ahead, what the function does next does
to the brackets what the function stands for, namely nothing, except that what follows a
parenthesis in an expression closes it; and none ends in an `assert`, except
`tableProperty_`.  It has one step per function: first the possible results, for which the
branches must cover the tokens that the test before them lets through (otherwise the
`assert` behind them would be among the results), then that each result leaves the
brackets alone.  The part about the stack is `ParserInv`, which says that the pending tasks
close the open brackets and nothing else; it is inductive with one lemma per kind of step, and
`BracketsMatch` follows since the recursive function in it has no other solution (`LeftIs`).

### The driver

`CompilerProofs` proves, for every number of nodes, links, pages and attribute names:

* `ReadsOnlyLiveMemory`: `Spec => []ReadsLiveMemory`.
* `CompilerTypesHold`: `Spec => []CompilerTypeOK`.
* `OnlyKnownAssertsFail`: `Spec => []OnlyKnownAsserts`.
* `TreeIsKept`: `Spec => ImplementsTree`, the refinement of `TreeStore`.

Assumptions: `MemoryAssumption`, `AttrTableAssumption` (every attribute name has a bucket) and
`RulesAssumption` (the rules use known names, and none sets more attributes than the table of a
node holds).  `MemoryAssumption` keeps the number of links below `Stale`, the number that stands
for what a pointer of a reused page holds; only the refinement uses it.

The arguments.  For the first, `LiveInv` says which arenas hold pointers into which others
(tokens, symbols and tree into the main storage, symbols into the tree, nothing into the
text, the tokens or the table), and that a pointer dangles only in the last phase; then each
`arena_delete` of `main` and `symtable_flush` leaves nothing dangling.

For the others there are two inductive invariants.  `MemInv` says that no push or delete
makes or loses a page.  `TreeInv` is about the tree while it is built.  The type invariant alone
is not inductive: an append writes to the link that the tail of its list names, so the
shape of every list must be known (`ListOK`; two lists never have the same tail, `ShapesOK`);
a fresh link must still be fresh when its node comes back, after any number of other calls
(`CallOK`, `CallsOK`); and a chain ends because it leads to entries made earlier (`Descends`).
That the table of a node never fills takes the count of the attributes its call has set.
That `print_ast` meets a lexeme only for the name `error` takes the origin of every value
that is marked as a node (`ErrorNamesOK`), and that an append fails only for a tuple, that the
header of any other list in hand was cleared.  There is one lemma per kind of step;
`AttributeSet` says what `ast_setattr` does, `LinkHung` the same of
`ast_list_append_link`.  `FindFinds` says what the recursive search of a chain returns, from
the order of the numbers.

The refinement takes a third invariant, `ApartInv`.  Every attribute entry belongs to one node
and every link to at most one list: there is a map from entries to nodes that buckets and
chains respect (`EntriesApart`), and one from links to lists (`LinksApart`) in which a link
leads to a later link of its list, only the tail leads nowhere, and the link that a call has
in hand is in no list and was made after the tail of the list it is meant for.  The last part
is what nested calls could break, and it needs that no two calls fill the same list.  Then
`WriteShows` says what a write does to the map of each node, `FollowGrows` and `AppendShows`
what an append does to the sequence of each list, `LinkHides` that a link outside of the
lists does not show, and `StepShows` puts the actions together.  The recursion of
`NodesOf` is unfolded by `FollowUnfolds`, an argument by the least counterexample.

### Only model-checked

* `IntegersConverted`: what a recursive function computes for every sequence of digits needs
  induction over data, which the installed provers cannot do.
* `CallReturns`, `AlwaysAdvances`, `LexerEnds`, `PrintEnds`: liveness under fairness.
* `TreeIsRight` and `PassesExpressions`: `Expression` has recursive operators.
* `PrintsEveryNodeOnce`: see the plan.

## Findings

Each is a run that TLC refutes.

* `page_arena_order` (`arena.c:96`): the insertion point is the first block that begins at
  or before the new one, so the free list loses the order its comments speak of, and
  neighbouring runs are not merged.  No page is lost; large requests may fail earlier.
* `build_symtable_missed` (`symtable.c:29`): ending an inner scope also deletes the chains
  of names of the outer scopes, and a redeclaration behind it is not reported.
* `parser_empty` (`build_ast.c:1490`): the empty statement of a parser state is not passed,
  and the parser repeats it until the memory is used up.
* `compiler_stale_list` (`build_ast.c:1542`): `memset(exprs, 0, sizeof(exprs))` clears 8 of
  the 48 bytes of the list header.  If the header lies on a page that the source text has
  left, `ast_list_init` stops the program.  The compiler does so for a source with 400
  lines of comment before a parser state with a `select` over tuples.

The models also have these behaviours of the code, which no run is about:

* `symtable.c:33`: only the first symbol of a chain is removed when its scope ends.  After
  overloaded method prototypes another one outlives its scope; it makes a first
  declaration look like a redeclaration, or the assertion about `next_in_scope` fails.
  `ReportsAreRight` therefore speaks of walks without overloads.
* `build_symtable.c:24`: constants in controls and blocks and empty, return and exit
  statements reach `assert(0)` (`KindNotHandled`).
* `build_ast.c:1971`: `const` in a table and then a token that is no property reaches
  `assert(0)`, the exception in `OnlyConstAsserts`.
* `build_ast.c:2495`: a function that returns `void` or a type variable is refused, since
  `build_declaration` calls `build_typeRef` for it.
* `build_ast.c:576`: in `bit<(8)>` the `>` is taken for an operator.
* `lex.c:399`: a minus is the unary one behind `(` only, so `const int x = -1;` is refused,
  and the token before may be a comment.
* `lex.c:518`: at a backslash the loop over a string sets the state to 201, which would pass
  the escaped character, and the lines behind the loop make the token and set the state to
  0.  The string ends at the backslash, what follows is read as code, and case 201 (`state =
  200; // ok`, line 538) is never entered.  `TokensBeginInCode` and `LinesCounted` leave out
  the texts in which a string has had an escape, and no other property is about them.
* `lex.c:520`: a line break in a string is neither an error nor counted.  `lex.c:572`: a line break of two characters behind a `//` comment counts twice.
* `lex.c:149`: a backslash in front of the digits of an integer is dropped (`0b\1`).
* `lex.c:31`: a text that ends in a comment, a string, or behind `0x` or `8w` reaches the
  assertion (`AssertOnlyAtEnd`).
* `build_ast.c:2651`, `2637`: a unary operator and a cast take the whole rest of the
  expression, so `!a && b` is `!(a && b)`.  `build_ast.c:2631`, `2788`: `(.a)` is taken for
  a cast and `a < .b` for type arguments, since a type may begin with a dot.
* `build_ast.c:2674`: after `error` in an expression the lexeme is stored as a node, and
  `--print-ast` stops in `ast_kind_to_string`, the other exception in `OnlyKnownAsserts`.
* `ashp4c.c:23`: a file that cannot be opened crashes `read_source` (`FileMissing`).

Outside of the models, `symtable.c:71` gives the temporary array of a rehash as many bytes
as it has pointers: with about a thousand names the rehash writes behind its page.

## Not modelled

* `fold_string` of `hash.c`: the hash before the shift is a constant, since the table must
  be right for every hash; `Compiler` has the values for the attribute names.
* The byte size of the temporary array in a rehash (`symtable.c:71`): it needs names and
  sizes that no small instance has.
* The characters in a lexeme but for an integer (`lexeme_copy`), and the nodes of statements, types and
  declarations one by one: they are filled in the ways that `Compiler` has, and no later
  decision but that of `BuildSymtable`, which chooses its own trees, depends on them.
* The formatting in `print_ast.c`; `print_parameter`, `print_int` and `print_base_type`,
  which nobody calls; `ast_delattr`, an `assert(!"TODO")`.  The string helpers of `basic.c`
  but for the two that `Lexer` has: they have no state.
* The eBPF samples, scripts and test data, which are not part of the compiler.

## Plan

Done: the allocator with its contract and first proofs; the unbounded array; the symbol
table with its map; the declaration pass on the table; the lexer; the parser's control and
its expressions; the syntax tree, its printing, and the driver that composes the phases.

Proofs done: all safety properties of the allocator and of the symbol table, with both
refinements; all of the declaration pass; all of the lexer but the conversion of integers;
the unbounded array with its refinement; all of the parser; of the driver, that it reads live
memory, its types, its assertions, and the refinement of the tree.

Left, proofs: `PrintsEveryNodeOnce`, which needs an invariant on what a depth-first traversal
has still to print, and on how often a node hangs in the tree.
