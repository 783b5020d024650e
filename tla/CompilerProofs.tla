--------------------------- MODULE CompilerProofs ---------------------------
(***************************************************************************)
(* Proofs about the driver: what points where while the arenas are given   *)
(* back one by one, what the tree and the memory look like while the       *)
(* parser builds it, and which assertions the building and the printing of *)
(* it can reach; and that the hash tables and the linked lists of the tree *)
(* implement the maps and the sequences of TreeStore.  Of the bounds only  *)
(* the one on the links is used, in the last part: a link is not taken for *)
(* what a page held before.                                                *)
(***************************************************************************)
EXTENDS Compiler, WellFoundedInduction, TLAPS

-----------------------------------------------------------------------------
(* Pointers between arenas.  The structs of a compilation lead from the    *)
(* tokens, the symbols and the tree to the lexemes in main_storage, and    *)
(* from the symbols to the tree: never into the text, the tokens or the    *)
(* table itself.  A pointer dangles only behind the last arena_delete of   *)
(* the tree, when nothing is read any more.                                *)
Outlets == {<<"tokens", "main">>, <<"symtable", "main">>, <<"symtable", "ast">>, <<"ast", "main">>}

Closing == {"cleanup"} \cup Ends

LiveInv ==
  /\ points \subseteq Outlets
  /\ dangling # {} => phase \in Closing

(* To give back an arena into which nothing points leaves nothing dangling. *)
LEMMA DeleteLeavesNothing ==
  ASSUME NEW a \in {"text", "tokens", "symtable"}, points \subseteq Outlets, dangling = {}, Delete(a)
  PROVE  points' \subseteq Outlets /\ dangling' = {}
  BY DEF Delete, Outlets

LEMMA LeaveLive == ASSUME NEW end \in Ends, Leave(end) PROVE LiveInv'
  BY DEF Leave, LiveInv, Closing

LEMMA NextLive == LiveInv /\ [Next]_vars => LiveInv'
<1> SUFFICES ASSUME LiveInv, [Next]_vars PROVE LiveInv'
  OBVIOUS
<1>1. CASE OutOfMemory \/ FilenameRequired \/ FileMissing \/ LexicalError \/ SyntaxError
  BY <1>1, LeaveLive DEF OutOfMemory, FilenameRequired, FileMissing, LexicalError, SyntaxError, Ends
<1>2. CASE parse_cmdline_args \/ read_source \/ symtable_init \/ BuildRoot \/ symtable_init_again
           \/ PrintReturns
  BY <1>2 DEF LiveInv, Closing, Ends, InPhase, parse_cmdline_args, read_source, symtable_init,
              BuildRoot, symtable_init_again, PrintReturns
<1>3. CASE Tokenize \/ DeclareName
  BY <1>3 DEF LiveInv, Refer, Outlets, Symbols, InPhase, Tokenize, DeclareName
<1>4. CASE LexEnds \/ ParseEnds \/ symtable_flush
  BY <1>4, DeleteLeavesNothing DEF LiveInv, Closing, Ends, InPhase, LexEnds, ParseEnds, symtable_flush
<1>5. CASE SetName \/ SetErrorName
  BY <1>5 DEF LiveInv, Refer, Outlets, Names, Symbols, SetName, SetErrorName, Parser
<1>6. CASE BeginNode \/ WrapNode \/ SetValue \/ SetTaken \/ SetChild \/ NoInitializer \/ NewListHeader \/ NoArguments
           \/ AddLink \/ AppendElement \/ CloseList \/ EndNode
  BY <1>6 DEF LiveInv, Parser, BeginNode, WrapNode, SetValue, SetTaken, SetChild, NoInitializer,
              NewListHeader, NoArguments, AddLink, AppendElement, CloseList, EndNode
<1>7. CASE PrintTree
  BY <1>7 DEF LiveInv, PrintTree, driverVars
<1>8. CASE DeleteTree \/ DeleteMain
  BY <1>8 DEF LiveInv, Closing, Ends, Delete, Outlets, DeleteTree, DeleteMain
<1>9. CASE Ended \/ UNCHANGED vars
  BY <1>9 DEF LiveInv, Ended, vars
<1> QED BY <1>1, <1>2, <1>3, <1>4, <1>5, <1>6, <1>7, <1>8, <1>9 DEF Next

(* In every phase, what main and the passes it calls read does not lead    *)
(* into an arena that was given back: the calls of arena_delete in main    *)
(* and in symtable_flush come in an order that fits the pointers.          *)
THEOREM ReadsOnlyLiveMemory == Spec => []ReadsLiveMemory
<1>1. Init => LiveInv
  BY DEF Init, LiveInv
<1>2. LiveInv => ReadsLiveMemory
  BY DEF LiveInv, ReadsLiveMemory, Reads, Closing, Ends
<1> QED BY <1>1, <1>2, NextLive, PTL DEF Spec

-----------------------------------------------------------------------------
(* Chains of attributes.  What FindEntry returns is defined by recursion along *)
(* a chain, whose entries were made earlier and earlier.                       *)
LEMMA LeastFailure ==
  ASSUME NEW U \in SUBSET Nat, U # {}
  PROVE  \E n \in U : n - 1 \notin U
<1>1. PICK n \in U : \A y \in U : <<y, n>> \notin OpToRel(<, Nat)
  BY NatLessThanWellFounded, WFMin
<1>2. \A y \in U : ~(y < n)
  BY <1>1 DEF OpToRel
<1> QED BY <1>2

LEMMA LeastElement ==
  ASSUME NEW U \in SUBSET Nat, U # {}
  PROVE  \E n \in U : \A y \in U : n <= y
<1>1. PICK n \in U : \A y \in U : <<y, n>> \notin OpToRel(<, Nat)
  BY NatLessThanWellFounded, WFMin
<1>2. \A y \in U : ~(y < n)
  BY <1>1 DEF OpToRel
<1> QED BY <1>2

(* The chains go to entries made earlier, so they end. *)
Descends(entries) ==
  \A a \in 1 .. Len(entries) : entries[a].next_attr \in 0 .. a - 1

(* FindEntry with the entries as a parameter: what it is of the entries before *)
(* and behind a step can be compared.                                        *)
FindIn(entries, entry, name) ==
  LET find[a \in 0 .. Len(entries)] ==
        IF a = Null \/ entries[a].name = name THEN a ELSE find[entries[a].next_attr]
  IN find[entry]

LEMMA FindEntryIs == \A entry, name : FindEntry(entry, name) = FindIn(attributes, entry, name)
BY DEF FindEntry, FindIn

LEMMA FindUnfolds ==
  ASSUME NEW entries, Len(entries) \in Nat, Descends(entries), NEW name, NEW e \in 0 .. Len(entries)
  PROVE  FindIn(entries, e, name) =
           IF e = Null \/ entries[e].name = name THEN e
           ELSE FindIn(entries, entries[e].next_attr, name)
<1> DEFINE N == Len(entries)
           step(f, a) == IF a = 0 \/ entries[a].name = name THEN a ELSE f[entries[a].next_attr]
           is(f) == f = [a \in 0 .. N |-> step(f, a)]
           HasRun(n) == \E f : f = [a \in 0 .. n |-> step(f, a)]
           U == {n \in 0 .. N : ~HasRun(n)}
<1>1. U = {}
  <2> SUFFICES ASSUME U # {} PROVE FALSE
    OBVIOUS
  <2>1. U \in SUBSET Nat
    OBVIOUS
  <2> HIDE DEF U
  <2>2. PICK n \in U : n - 1 \notin U
    BY <2>1, LeastFailure
  <2> USE DEF U
  <2>3. n \in 0 .. N /\ ~HasRun(n)
    BY <2>2
  <2>4. CASE n = 0
    <3> DEFINE f == [a \in 0 .. 0 |-> 0]
    <3>1. f = [a \in 0 .. 0 |-> step(f, a)]
      OBVIOUS
    <3> QED BY <2>3, <2>4, <3>1
  <2>5. CASE n # 0
    <3>1. HasRun(n - 1) /\ n - 1 \in 0 .. N
      BY <2>2, <2>3, <2>5
    <3>2. PICK f : f = [a \in 0 .. n - 1 |-> step(f, a)]
      BY <3>1
    <3>3. PICK v : v = step(f, n)
      OBVIOUS
    <3> DEFINE g == [a \in 0 .. n |-> IF a = n THEN v ELSE f[a]]
    <3>4. ASSUME NEW a \in 0 .. n PROVE g[a] = step(g, a)
      <4>1. CASE a = 0
        BY <2>3, <2>5, <3>2, <4>1
      <4>2. CASE a # 0
        <5>1. entries[a].next_attr \in 0 .. n - 1 /\ a \in 1 .. N
          BY <2>3, <2>5, <4>2 DEF Descends
        <5>2. g[entries[a].next_attr] = f[entries[a].next_attr]
          BY <2>3, <5>1
        <5>3. step(g, a) = step(f, a)
          BY <5>2
        <5>4. g[a] = step(f, a)
          <6>1. CASE a = n
            BY <3>3, <6>1
          <6>2. CASE a # n
            <7>1. a \in 0 .. n - 1
              BY <2>3, <6>2
            <7>2. f[a] = step(f, a)
              BY <3>2, <7>1
            <7> QED BY <6>2, <7>2
          <6> QED BY <6>1, <6>2
        <5> QED BY <5>3, <5>4
      <4> QED BY <4>1, <4>2
    <3>5. g = [a \in 0 .. n |-> step(g, a)]
      <4> HIDE DEF step
      <4> QED BY <3>4
    <3> HIDE DEF g
    <3>6. HasRun(n)
      BY <3>5
    <3> QED BY <2>3, <3>6
  <2> QED BY <2>4, <2>5
<1>2. HasRun(N)
  BY <1>1
<1> DEFINE find == CHOOSE f : is(f)
<1>3. is(find)
  <2>1. \E f : is(f)
    BY <1>2
  <2> HIDE DEF is
  <2> QED BY <2>1
<1>4. \A x : FindIn(entries, x, name) = find[x]
  BY DEF FindIn, Null
<1> HIDE DEF find
<1>5. find[e] = step(find, e)
  BY <1>3
<1> QED BY <1>4, <1>5 DEF Null

LEMMA FindFinds ==
  ASSUME NEW entries, Len(entries) \in Nat, Descends(entries), NEW name, NEW e \in 0 .. Len(entries)
  PROVE  /\ FindIn(entries, e, name) \in 0 .. Len(entries)
         /\ FindIn(entries, e, name) # Null => entries[FindIn(entries, e, name)].name = name
<1> DEFINE good(x) == /\ FindIn(entries, x, name) \in 0 .. Len(entries)
                      /\ FindIn(entries, x, name) # Null => entries[FindIn(entries, x, name)].name = name
           U == {n \in 0 .. Len(entries) : \E x \in 0 .. n : ~good(x)}
<1>1. U = {}
  <2> SUFFICES ASSUME U # {} PROVE FALSE
    OBVIOUS
  <2>1. U \in SUBSET Nat
    OBVIOUS
  <2> HIDE DEF U
  <2>2. PICK n \in U : n - 1 \notin U
    BY <2>1, LeastFailure
  <2> USE DEF U
  <2> HIDE DEF good
  <2>3. n \in 0 .. Len(entries) /\ \A x \in 0 .. n - 1 : good(x)
    BY <2>2
  <2>4. ~good(n)
    BY <2>2, <2>3
  <2>5. CASE n = 0 \/ entries[n].name = name
    <3>1. FindIn(entries, n, name) = n
      BY <2>3, <2>5, FindUnfolds DEF Null
    <3> QED BY <2>3, <2>4, <2>5, <3>1 DEF good, Null
  <2>6. CASE ~(n = 0 \/ entries[n].name = name)
    <3>1. entries[n].next_attr \in 0 .. n - 1
      BY <2>3, <2>6 DEF Descends
    <3>2. FindIn(entries, n, name) = FindIn(entries, entries[n].next_attr, name)
      BY <2>3, <2>6, FindUnfolds DEF Null
    <3>3. good(entries[n].next_attr)
      BY <2>3, <3>1
    <3> QED BY <2>4, <3>2, <3>3 DEF good
  <2> QED BY <2>5, <2>6
<1>2. good(e)
  <2> HIDE DEF good
  <2> QED BY <1>1
<1> QED BY <1>2

-----------------------------------------------------------------------------
NodeRecords ==
  [kind : Kinds, attr_count : 0 .. AttrCapacity, attrs : [0 .. AttrCapacity - 1 -> Nat]]
AttrRecords == [name : AttrNames, type : AttrTypes, value : Int, next_attr : Nat]
ListRecords == [head : Int, tail : Int, next : Int, link_count : Nat]
LinkRecords == [prev : Int, next : Int, ast : Int]
CallRecords == [ast : Nat, step : Nat \ {0}, taken : Nat, list : Nat, link : Nat]

(* The tree.  Each part is a predicate of the sequences that hold it, so it can *)
(* be stated of them before and behind a step.                                *)
NodesOK(ns, as) ==
  /\ ns \in Seq(NodeRecords)
  /\ \A n \in 1 .. Len(ns) : \A h \in 0 .. AttrCapacity - 1 : ns[n].attrs[h] \in 0 .. Len(as)

(* What a value may be by its type.  A list that hangs in the tree is closed, *)
(* and its sentinel leads to a link or to nothing.                           *)
ValueOK(ns, ls, ks, type, value) ==
  /\ type = "Ast" => value \in {Null, Lexeme} \cup 1 .. Len(ns)
  /\ type = "AstList" => \/ value = Null
                         \/ value \in 1 .. Len(ls) /\ ls[value].next \in 0 .. Len(ks)
  /\ type \notin {"Ast", "AstList"} => value \in {Lexeme, Cell}

AttributesOK(ns, as, ls, ks) ==
  /\ as \in Seq(AttrRecords)
  /\ Descends(as)
  /\ \A a \in 1 .. Len(as) : ValueOK(ns, ls, ks, as[a].type, as[a].value)

(* Only the name `error` is a lexeme that is marked as a node. *)
HasErrorName(ns) == \E n \in 1 .. Len(ns) : ns[n].kind = "ErrorName"

ErrorNamesOK(ns, as) ==
  \A a \in 1 .. Len(as) : as[a].type = "Ast" /\ as[a].value = Lexeme => HasErrorName(ns)

PointersOK(ls, ks) ==
  /\ ls \in Seq(ListRecords)
  /\ \A l \in 1 .. Len(ls) :
       /\ ls[l].head \in {Null, Stale, -l} \cup 1 .. Len(ks)
       /\ ls[l].tail \in {Null, Stale, -l} \cup 1 .. Len(ks)
       /\ ls[l].next \in {Null, Stale, -l} \cup 1 .. Len(ks)

LinksOK(ns, ks) ==
  /\ ks \in Seq(LinkRecords)
  /\ \A k \in 1 .. Len(ks) : ks[k].next \in 0 .. Len(ks) /\ ks[k].ast \in 0 .. Len(ns)

(* While no assertion has failed, a list is linked: empty, with the sentinel as *)
(* its tail, or with a last link that nothing follows and that is the last of no *)
(* other list.                                                                 *)
ListOK(ls, ks, l) ==
  /\ ls[l].head = -l
  /\ \/ ls[l].tail = -l
     \/ /\ ls[l].tail \in 1 .. Len(ks) /\ ls[l].next \in 1 .. Len(ks)
        /\ ks[ls[l].tail].next = Null /\ ks[ls[l].tail].prev # Null

ShapesOK(ls, ks) ==
  /\ \A l \in 1 .. Len(ls) : ListOK(ls, ks, l)
  /\ \A l, m \in 1 .. Len(ls) : ls[l].tail = ls[m].tail => l = m

(* The calls of the parser.  Each fills a node of its own, has set fewer        *)
(* attributes than it has steps behind it, has a list in hand only in a step that *)
(* makes one, and a fresh link only for that list.                              *)
RuleOf(ns, c) == Rules[ns[c.ast].kind]

CallOK(ns, ls, ks, c) ==
  /\ c.ast \in 1 .. Len(ns)
  /\ c.taken \in 0 .. Len(ns) /\ c.list \in 0 .. Len(ls) /\ c.link \in 0 .. Len(ks)
  /\ ns[c.ast].attr_count < c.step
  /\ c.list # Null =>
       /\ c.step <= Len(RuleOf(ns, c))
       /\ RuleOf(ns, c)[c.step].from \in {"decls", "list", "tuple"}
       /\ RuleOf(ns, c)[c.step].from # "tuple" /\ ls[c.list].tail = -c.list => ls[c.list].next = Null
  /\ c.link # Null => c.list # Null /\ ks[c.link].prev = Null /\ ks[c.link].next = Null

CallsOK(ns, ls, ks, cs) ==
  /\ cs \in Seq(CallRecords)
  /\ \A i \in 1 .. Len(cs) : CallOK(ns, ls, ks, cs[i])
  /\ \A i, j \in 1 .. Len(cs) :
       i # j => cs[i].ast # cs[j].ast /\ (cs[i].link # cs[j].link \/ cs[i].link = Null)

(* The calls of print_ast. *)
Iterators(as) == [table_i : Nat, attr_at : 0 .. Len(as)]
FrameRecords(ns, as, ks) ==
  [ast : 1 .. Len(ns), pass : {1, 2}, iter : Iterators(as), link : 0 .. Len(ks)]

FramesOK(ns, as, ks, fs) == fs \in Seq(FrameRecords(ns, as, ks))

(* Memory: pages are neither made nor lost, by any push or delete. *)
MemRecords ==
  [fresh : Int, released : Int, held : [Arenas -> Int], reused : [Arenas -> BOOLEAN]]

Total(m) ==
  m.fresh + m.released + m.held["main"] + m.held["text"] + m.held["tokens"]
    + m.held["symtable"] + m.held["temp"] + m.held["ast"]

MemOK(m) == m \in MemRecords /\ Total(m) = Memory

LEMMA GivesBack ==
  ASSUME NEW m \in MemRecords, NEW a \in Arenas,
         NEW r, r = [m EXCEPT !.released = @ + m.held[a], !.held[a] = 0, !.reused[a] = FALSE]
  PROVE  /\ r \in MemRecords
         /\ r.fresh = m.fresh /\ r.released = m.released + m.held[a] /\ r.held = [m.held EXCEPT ![a] = 0]
<1>1. PICK h, u : h = [m.held EXCEPT ![a] = 0] /\ u = [m.reused EXCEPT ![a] = FALSE]
  OBVIOUS
<1>2. r = [fresh |-> m.fresh, released |-> m.released + m.held[a], held |-> h, reused |-> u]
  BY <1>1 DEF MemRecords
<1>3. m.fresh \in Int /\ m.released + m.held[a] \in Int /\ h \in [Arenas -> Int]
  BY <1>1 DEF MemRecords
<1>4. u \in [Arenas -> BOOLEAN]
  <2>1. m.reused \in [Arenas -> BOOLEAN]
    BY DEF MemRecords
  <2> QED BY <1>1, <2>1
<1>5. r \in MemRecords
  BY ONLY <1>2, <1>3, <1>4, Zenon DEF MemRecords
<1>6. r.fresh = m.fresh /\ r.released = m.released + m.held[a] /\ r.held = [m.held EXCEPT ![a] = 0]
  BY <1>1, <1>2
<1> QED BY <1>5, <1>6

LEMMA PushAdds ==
  ASSUME NEW m, MemOK(m), NEW a \in Arenas, NEW pages \in Nat, NEW r \in Pushes(m, a, pages)
  PROVE  MemOK(r)
<1>1. m \in MemRecords /\ Total(m) = Memory
  BY DEF MemOK
<1>2. m.fresh \in Int /\ m.released \in Int /\ m.held \in [Arenas -> Int]
  BY <1>1 DEF MemRecords
<1>3. m.reused \in [Arenas -> BOOLEAN]
  BY <1>1 DEF MemRecords
<1>4. CASE r = m
  BY <1>4
<1>5. CASE r = [m EXCEPT !.fresh = @ - pages, !.held[a] = @ + pages, !.reused[a] = FALSE]
  <2>1. PICK h, u : h = [m.held EXCEPT ![a] = @ + pages] /\ u = [m.reused EXCEPT ![a] = FALSE]
    OBVIOUS
  <2>2. r = [fresh |-> m.fresh - pages, released |-> m.released, held |-> h, reused |-> u]
    BY <1>1, <1>5, <2>1 DEF MemRecords
  <2>3. m.fresh - pages \in Int /\ m.released \in Int /\ h \in [Arenas -> Int]
    BY <1>2, <2>1
  <2>4. u \in [Arenas -> BOOLEAN]
    BY <1>3, <2>1
  <2>5. r \in MemRecords
    BY ONLY <2>2, <2>3, <2>4, Zenon DEF MemRecords
  <2>6. Total(r) = Total(m)
    BY <1>2, <2>1, <2>2 DEF Total, Arenas
  <2> QED BY <1>1, <2>5, <2>6 DEF MemOK
<1>6. CASE r = [m EXCEPT !.released = @ - pages, !.held[a] = @ + pages, !.reused[a] = TRUE]
  <2>1. PICK h, u : h = [m.held EXCEPT ![a] = @ + pages] /\ u = [m.reused EXCEPT ![a] = TRUE]
    OBVIOUS
  <2>2. r = [fresh |-> m.fresh, released |-> m.released - pages, held |-> h, reused |-> u]
    BY <1>1, <1>6, <2>1 DEF MemRecords
  <2>3. m.fresh \in Int /\ m.released - pages \in Int /\ h \in [Arenas -> Int]
    BY <1>2, <2>1
  <2>4. u \in [Arenas -> BOOLEAN]
    BY <1>3, <2>1
  <2>5. r \in MemRecords
    BY ONLY <2>2, <2>3, <2>4, Zenon DEF MemRecords
  <2>6. Total(r) = Total(m)
    BY <1>2, <2>1, <2>2 DEF Total, Arenas
  <2> QED BY <1>1, <2>5, <2>6 DEF MemOK
<1> QED BY <1>4, <1>5, <1>6 DEF Pushes

LEMMA DeleteAdds ==
  ASSUME NEW m, MemOK(m), NEW a \in Arenas
  PROVE  MemOK(Deleted(m, a))
<1>1. m \in MemRecords /\ Total(m) = Memory
  BY DEF MemOK
<1>2. m.fresh \in Int /\ m.released \in Int /\ m.held \in [Arenas -> Int]
  BY <1>1 DEF MemRecords
<1>3. PICK r : r = Deleted(m, a)
  OBVIOUS
<1>4. /\ r \in MemRecords
      /\ r.fresh = m.fresh /\ r.released = m.released + m.held[a] /\ r.held = [m.held EXCEPT ![a] = 0]
  BY <1>1, <1>3, GivesBack DEF Deleted
<1>5. Total(r) = Total(m)
  BY <1>2, <1>4 DEF Total, Arenas
<1> QED BY <1>1, <1>3, <1>4, <1>5 DEF MemOK

LEMMA FreshAdds == MemOK(AllFresh)
<1>1. AllFresh \in MemRecords
  BY MemoryAssumption DEF AllFresh, MemRecords
<1>2. Total(AllFresh) = Memory
  BY MemoryAssumption DEF AllFresh, Total, Arenas
<1> QED BY <1>1, <1>2 DEF MemOK

LEMMA SymbolPushAdds ==
  ASSUME NEW m, MemOK(m), NEW r \in SymbolPushes(m)
  PROVE  MemOK(r)
<1>1. \A x \in Rehashed(m) : MemOK(x)
  BY PushAdds, DeleteAdds DEF Rehashed, Arenas
<1>2. PICK x \in {m} \cup Rehashed(m) : r \in Pushes(x, "symtable", 1)
  BY DEF SymbolPushes
<1>3. MemOK(x)
  BY <1>1, <1>2
<1> QED BY <1>2, <1>3, PushAdds DEF Arenas

(* The inductive invariant of the memory. *)
MemInv == MemOK(mem) /\ points \cup dangling \subseteq Arenas \X Arenas

LEMMA InitMem == Init => MemInv
BY FreshAdds DEF Init, MemInv

LEMMA NextMem == MemInv /\ [Next]_vars => MemInv'
<1> SUFFICES ASSUME MemInv, [Next]_vars PROVE MemInv'
  OBVIOUS
<1>1. CASE OutOfMemory \/ FilenameRequired \/ FileMissing \/ LexicalError \/ SyntaxError
  <2>1. mem' = AllFresh /\ points' = {} /\ dangling' = {}
    BY <1>1 DEF OutOfMemory, FilenameRequired, FileMissing, LexicalError, SyntaxError, Leave
  <2> QED BY <2>1, FreshAdds DEF MemInv
<1>2. CASE UNCHANGED <<mem, points, dangling>>
  BY <1>2 DEF MemInv
<1>3. ASSUME NEW a \in Arenas, NEW pages \in Nat, mem' \in Pushes(mem, a, pages), UNCHANGED <<points, dangling>>
      PROVE  MemInv'
  BY <1>3, PushAdds DEF MemInv
<1>4. ASSUME NEW a \in Arenas, Delete(a)
      PROVE  MemInv'
  BY <1>4, DeleteAdds DEF MemInv, Delete
<1>5. CASE parse_cmdline_args \/ symtable_init \/ symtable_init_again
  BY <1>3, <1>5 DEF parse_cmdline_args, symtable_init, symtable_init_again, Push, Arenas
<1>6. CASE read_source
  BY <1>3, <1>6, MemoryAssumption DEF read_source, Arenas
<1>7. CASE BuildRoot \/ BeginNode \/ WrapNode
  BY <1>3, <1>7 DEF BuildRoot, BeginNode, WrapNode, Push, Arenas
<1>8. CASE SetValue \/ SetTaken \/ SetChild \/ NoInitializer \/ NewListHeader \/ NoArguments \/ AddLink \/ CloseList
  BY <1>3, <1>8
     DEF SetValue, SetTaken, SetChild, NoInitializer, NewListHeader, NoArguments, AddLink, CloseList, Push, Arenas
<1>9. CASE AppendElement \/ EndNode \/ PrintTree \/ PrintReturns \/ Ended \/ UNCHANGED vars
  BY <1>2, <1>9 DEF AppendElement, EndNode, PrintTree, driverVars, PrintReturns, Ended, vars
<1>10. CASE LexEnds \/ ParseEnds \/ symtable_flush \/ DeleteTree \/ DeleteMain
  BY <1>4, <1>10 DEF LexEnds, ParseEnds, symtable_flush, DeleteTree, DeleteMain, Arenas
<1>11. ASSUME NEW pairs, pairs \subseteq Arenas \X Arenas, Refer(pairs), MemOK(mem') PROVE MemInv'
  BY <1>11 DEF MemInv, Refer
<1>12. CASE Tokenize
  <2>1. PICK m \in Pushes(mem, "main", 1) : mem' \in Pushes(m, "tokens", 1)
    BY <1>12 DEF Tokenize
  <2>2. MemOK(m)
    BY PushAdds DEF MemInv, Arenas
  <2>3. MemOK(mem')
    BY <2>1, <2>2, PushAdds DEF Arenas
  <2> QED BY <1>11, <1>12, <2>3 DEF Tokenize, Arenas
<1>13. CASE SetName
  <2>1. PICK m \in SymbolPushes(mem) : mem' \in Pushes(m, "ast", 1)
    BY <1>13 DEF SetName
  <2>2. MemOK(m)
    BY SymbolPushAdds DEF MemInv
  <2>3. MemOK(mem')
    BY <2>1, <2>2, PushAdds DEF Arenas
  <2> QED BY <1>11, <1>13, <2>3 DEF SetName, Names, Symbols, Arenas
<1>14. CASE SetErrorName
  <2>1. MemOK(mem')
    BY <1>14, PushAdds DEF MemInv, SetErrorName, Push, Arenas
  <2>2. Refer({<<"ast", "main">>})
    BY <1>14 DEF SetErrorName
  <2>3. {<<"ast", "main">>} \subseteq Arenas \X Arenas
    BY DEF Arenas
  <2> QED BY <1>11, <2>1, <2>2, <2>3
<1>15. CASE DeclareName
  <2>1. MemOK(mem')
    BY <1>15, SymbolPushAdds DEF MemInv, DeclareName
  <2> QED BY <1>11, <1>15, <2>1 DEF DeclareName, Symbols, Arenas
<1> QED BY <1>1, <1>5, <1>6, <1>7, <1>8, <1>9, <1>10, <1>12, <1>13, <1>14, <1>15 DEF Next

-----------------------------------------------------------------------------
(* Sequences: the first element of a stack pushed, replaced and dropped, and one *)
(* appended.                                                                   *)
LEMMA PushFirst ==
  ASSUME NEW S, NEW s \in Seq(S), NEW x \in S
  PROVE  /\ <<x>> \o s \in Seq(S) /\ Len(<<x>> \o s) = Len(s) + 1
         /\ (<<x>> \o s)[1] = x
         /\ \A i \in 2 .. Len(s) + 1 : (<<x>> \o s)[i] = s[i - 1]
  OBVIOUS

LEMMA ReplaceFirst ==
  ASSUME NEW S, NEW s \in Seq(S), s # <<>>, NEW x \in S
  PROVE  /\ <<x>> \o Tail(s) \in Seq(S) /\ Len(<<x>> \o Tail(s)) = Len(s)
         /\ (<<x>> \o Tail(s))[1] = x
         /\ \A i \in 2 .. Len(s) : (<<x>> \o Tail(s))[i] = s[i]
<1>1. Tail(s) \in Seq(S) /\ Len(Tail(s)) = Len(s) - 1 /\ \A i \in 1 .. Len(s) - 1 : Tail(s)[i] = s[i + 1]
  OBVIOUS
<1>2. PICK t \in Seq(S) : t = Tail(s)
  BY <1>1
<1> QED BY <1>1, <1>2, PushFirst

LEMMA DropFirst ==
  ASSUME NEW S, NEW s \in Seq(S), s # <<>>
  PROVE  /\ Tail(s) \in Seq(S) /\ Len(Tail(s)) = Len(s) - 1
         /\ \A i \in 1 .. Len(s) - 1 : Tail(s)[i] = s[i + 1]
         /\ Head(s) = s[1] /\ Len(s) \in Nat \ {0} /\ Head(s) \in S
  OBVIOUS

LEMMA AppendLast ==
  ASSUME NEW S, NEW s \in Seq(S), NEW x \in S
  PROVE  /\ Append(s, x) \in Seq(S) /\ Len(Append(s, x)) = Len(s) + 1
         /\ Append(s, x)[Len(s) + 1] = x
         /\ \A i \in 1 .. Len(s) : Append(s, x)[i] = s[i]
  OBVIOUS

(* The rules: each is a sequence, and only that of the name `error` marks a  *)
(* lexeme as a node.                                                         *)
StepsAmong(rule, steps) ==
  /\ Len(rule) \in Nat /\ DOMAIN rule = 1 .. Len(rule)
  /\ \A i \in 1 .. Len(rule) : rule[i] \in steps

LEMMA ShortRules ==
  ASSUME NEW a, NEW b, NEW c
  PROVE  /\ StepsAmong(<<a>>, {a}) /\ StepsAmong(<<a, b>>, {a, b})
         /\ StepsAmong(<<a, b, c>>, {a, b, c})
<1>1. StepsAmong(<<a>>, {a})
  BY DEF StepsAmong
<1>2. StepsAmong(<<a, b>>, {a, b})
  BY DEF StepsAmong
<1>3. StepsAmong(<<a, b, c>>, {a, b, c})
  <2>1. \A i \in 1 .. 3 : i = 1 \/ i = 2 \/ i = 3
    OBVIOUS
  <2> QED BY <2>1 DEF StepsAmong
<1> QED BY <1>1, <1>2, <1>3

LEMMA RuleFacts ==
  ASSUME NEW kind \in Kinds
  PROVE  /\ Len(Rules[kind]) \in Nat /\ DOMAIN Rules[kind] = 1 .. Len(Rules[kind])
         /\ \A i \in 1 .. Len(Rules[kind]) : Rules[kind][i].from = "lexeme as Ast" => kind = "ErrorName"
<1>1. kind \in {"P4Program", "Name", "ErrorName", "Bool", "BinaryExpr", "FunctionCallExpr", "TableEntry",
                "TupleKeyset", "VarDecl", "Default"}
  BY DEF Kinds, Rules
<1>2. ASSUME NEW steps, StepsAmong(Rules[kind], steps),
             kind = "ErrorName" \/ \A s \in steps : s.from # "lexeme as Ast"
      PROVE  /\ Len(Rules[kind]) \in Nat /\ DOMAIN Rules[kind] = 1 .. Len(Rules[kind])
             /\ \A i \in 1 .. Len(Rules[kind]) :
                  Rules[kind][i].from = "lexeme as Ast" => kind = "ErrorName"
  BY <1>2 DEF StepsAmong
<1>3. CASE kind = "P4Program"
  <2> DEFINE a == Set("decl_list", "decls")
  <2>1. Rules[kind] = <<a>>
    BY <1>3 DEF Rules
  <2>2. a.from # "lexeme as Ast"
    BY DEF Set
  <2> HIDE DEF a
  <2>3. StepsAmong(Rules[kind], {a})
    BY <2>1, ShortRules
  <2> QED BY <1>2, <2>2, <2>3
<1>4. CASE kind = "Name"
  <2> DEFINE a == Set("name", "lexeme")
             b == Set("is_dotprefixed", "number")
  <2>1. Rules[kind] = <<a, b>>
    BY <1>4 DEF Rules
  <2>2. a.from # "lexeme as Ast" /\ b.from # "lexeme as Ast"
    BY DEF Set
  <2> HIDE DEF a, b
  <2>3. StepsAmong(Rules[kind], {a, b})
    BY <2>1, ShortRules
  <2> QED BY <1>2, <2>2, <2>3
<1>5. CASE kind = "ErrorName"
  <2> DEFINE a == Set("name", "lexeme as Ast")
  <2>1. Rules[kind] = <<a>>
    BY <1>5 DEF Rules
  <2> HIDE DEF a
  <2>3. StepsAmong(Rules[kind], {a})
    BY <2>1, ShortRules
  <2> QED BY <1>2, <1>5, <2>3
<1>6. CASE kind = "Bool"
  <2> DEFINE a == Set("value", "number")
             b == Set("value", "number")
  <2>1. Rules[kind] = <<a, b>>
    BY <1>6 DEF Rules
  <2>2. a.from # "lexeme as Ast" /\ b.from # "lexeme as Ast"
    BY DEF Set
  <2> HIDE DEF a, b
  <2>3. StepsAmong(Rules[kind], {a, b})
    BY <2>1, ShortRules
  <2> QED BY <1>2, <2>2, <2>3
<1>7. CASE kind = "BinaryExpr"
  <2> DEFINE a == Set("left_operand", "taken")
             b == Set("op", "operator")
             c == Set("right_operand", "call")
  <2>1. Rules[kind] = <<a, b, c>>
    BY <1>7 DEF Rules
  <2>2. a.from # "lexeme as Ast" /\ b.from # "lexeme as Ast" /\ c.from # "lexeme as Ast"
    BY DEF Set
  <2> HIDE DEF a, b, c
  <2>3. StepsAmong(Rules[kind], {a, b, c})
    BY <2>1, ShortRules
  <2> QED BY <1>2, <2>2, <2>3
<1>8. CASE kind = "FunctionCallExpr"
  <2> DEFINE a == Set("expr", "taken")
             b == Set("args", "list")
  <2>1. Rules[kind] = <<a, b>>
    BY <1>8 DEF Rules
  <2>2. a.from # "lexeme as Ast" /\ b.from # "lexeme as Ast"
    BY DEF Set
  <2> HIDE DEF a, b
  <2>3. StepsAmong(Rules[kind], {a, b})
    BY <2>1, ShortRules
  <2> QED BY <1>2, <2>2, <2>3
<1>9. CASE kind = "TableEntry"
  <2> DEFINE a == Set("keyset", "call")
             b == Set("action", "call")
  <2>1. Rules[kind] = <<a, b>>
    BY <1>9 DEF Rules
  <2>2. a.from # "lexeme as Ast" /\ b.from # "lexeme as Ast"
    BY DEF Set
  <2> HIDE DEF a, b
  <2>3. StepsAmong(Rules[kind], {a, b})
    BY <2>1, ShortRules
  <2> QED BY <1>2, <2>2, <2>3
<1>10. CASE kind = "TupleKeyset"
  <2> DEFINE a == Set("expr_list", "tuple")
  <2>1. Rules[kind] = <<a>>
    BY <1>10 DEF Rules
  <2>2. a.from # "lexeme as Ast"
    BY DEF Set
  <2> HIDE DEF a
  <2>3. StepsAmong(Rules[kind], {a})
    BY <2>1, ShortRules
  <2> QED BY <1>2, <2>2, <2>3
<1>11. CASE kind = "VarDecl"
  <2> DEFINE a == Set("type", "taken")
             b == Set("name", "call")
             c == Set("init_expr", "call or null")
  <2>1. Rules[kind] = <<a, b, c>>
    BY <1>11 DEF Rules
  <2>2. a.from # "lexeme as Ast" /\ b.from # "lexeme as Ast" /\ c.from # "lexeme as Ast"
    BY DEF Set
  <2> HIDE DEF a, b, c
  <2>3. StepsAmong(Rules[kind], {a, b, c})
    BY <2>1, ShortRules
  <2> QED BY <1>2, <2>2, <2>3
<1>12. CASE kind = "Default"
  <2>1. Rules[kind] = <<>>
    BY <1>12 DEF Rules
  <2>2. StepsAmong(Rules[kind], {})
    BY <2>1 DEF StepsAmong
  <2> QED BY <1>2, <2>2
<1> QED BY <1>1, <1>3, <1>4, <1>5, <1>6, <1>7, <1>8, <1>9, <1>10, <1>11, <1>12

LEMMA RuleNames ==
  ASSUME NEW kind \in Kinds, NEW i \in 1 .. Len(Rules[kind])
  PROVE  Rules[kind][i].name \in AttrNames /\ i <= AttrCapacity
<1>1. Len(Rules[kind]) \in Nat /\ DOMAIN Rules[kind] = 1 .. Len(Rules[kind])
  BY RuleFacts
<1>2. Len(Rules[kind]) <= AttrCapacity /\ \A j \in DOMAIN Rules[kind] : Rules[kind][j].name \in AttrNames
  BY RulesAssumption
<1> QED BY <1>1, <1>2, AttrTableAssumption

(* A call that the step does not touch. *)
LEMMA CallStays ==
  ASSUME NEW ns, NEW ls, NEW ks, NEW ns2, NEW ls2, NEW ks2, NEW c \in CallRecords, CallOK(ns, ls, ks, c),
         Len(ns) \in Nat, Len(ns2) \in Nat, Len(ns) <= Len(ns2),
         Len(ls) \in Nat, Len(ls2) \in Nat, Len(ls) <= Len(ls2),
         Len(ks) \in Nat, Len(ks2) \in Nat, Len(ks) <= Len(ks2),
         ns2[c.ast].kind = ns[c.ast].kind, ns2[c.ast].attr_count = ns[c.ast].attr_count,
         c.list # Null => ls2[c.list] = ls[c.list] \/ ls2[c.list].tail # -c.list,
         c.link # Null => ks2[c.link].prev = Null /\ ks2[c.link].next = Null
  PROVE  CallOK(ns2, ls2, ks2, c)
<1>1. RuleOf(ns2, c) = RuleOf(ns, c)
  BY DEF RuleOf
<1>2. c.ast \in Nat /\ c.taken \in Nat /\ c.list \in Nat /\ c.link \in Nat
  BY DEF CallRecords
<1>3. /\ c.ast \in 1 .. Len(ns2)
      /\ c.taken \in 0 .. Len(ns2) /\ c.list \in 0 .. Len(ls2) /\ c.link \in 0 .. Len(ks2)
  BY <1>2 DEF CallOK
<1>4. ns2[c.ast].attr_count < c.step
  BY DEF CallOK
<1> QED BY <1>1, <1>3, <1>4 DEF CallOK

(* The calls behind a step of the first, a new one and a return. *)
LEMMA CallsUpdated ==
  ASSUME NEW ns, NEW ls, NEW ks, NEW ns2, NEW ls2, NEW ks2, NEW cs, CallsOK(ns, ls, ks, cs), cs # <<>>,
         NEW c \in CallRecords, CallOK(ns2, ls2, ks2, c), c.ast = cs[1].ast,
         \A i \in 2 .. Len(cs) : CallOK(ns2, ls2, ks2, cs[i]),
         \/ c.link = Null \/ c.link = cs[1].link
         \/ \A i \in 2 .. Len(cs) : cs[i].link # c.link
  PROVE  CallsOK(ns2, ls2, ks2, <<c>> \o Tail(cs))
<1>1. PICK t : t = <<c>> \o Tail(cs)
  OBVIOUS
<1>2. cs \in Seq(CallRecords) /\ Len(cs) \in Nat \ {0}
  BY DropFirst DEF CallsOK
<1>3. t \in Seq(CallRecords) /\ Len(t) = Len(cs) /\ t[1] = c /\ \A i \in 2 .. Len(cs) : t[i] = cs[i]
  BY <1>1, <1>2, ReplaceFirst
<1>4. \A i \in 1 .. Len(t) : CallOK(ns2, ls2, ks2, t[i])
  BY <1>2, <1>3
<1>5. ASSUME NEW i \in 1 .. Len(t), NEW j \in 1 .. Len(t), i # j
      PROVE  t[i].ast # t[j].ast /\ (t[i].link # t[j].link \/ t[i].link = Null)
  <2>1. cs[i].ast # cs[j].ast /\ (cs[i].link # cs[j].link \/ cs[i].link = Null)
    BY <1>3, <1>5 DEF CallsOK
  <2>2. cs[j].ast # cs[i].ast /\ (cs[j].link # cs[i].link \/ cs[j].link = Null)
    BY <1>3, <1>5 DEF CallsOK
  <2>3. CASE i = 1
    BY <1>2, <1>3, <1>5, <2>1, <2>2, <2>3
  <2>4. CASE j = 1
    BY <1>2, <1>3, <1>5, <2>1, <2>2, <2>4
  <2>5. CASE i # 1 /\ j # 1
    BY <1>2, <1>3, <1>5, <2>1, <2>5
  <2> QED BY <2>3, <2>4, <2>5
<1> QED BY <1>1, <1>3, <1>4, <1>5 DEF CallsOK

LEMMA CallsPushed ==
  ASSUME NEW ns, NEW ls, NEW ks, NEW ns2, NEW cs, CallsOK(ns, ls, ks, cs),
         NEW c \in CallRecords, CallOK(ns2, ls, ks, c), c.link = Null,
         \A i \in 1 .. Len(cs) : cs[i].ast # c.ast /\ CallOK(ns2, ls, ks, cs[i])
  PROVE  CallsOK(ns2, ls, ks, <<c>> \o cs)
<1>1. PICK t : t = <<c>> \o cs
  OBVIOUS
<1>2. cs \in Seq(CallRecords) /\ Len(cs) \in Nat
  BY DEF CallsOK
<1>3. t \in Seq(CallRecords) /\ Len(t) = Len(cs) + 1 /\ t[1] = c /\ \A i \in 2 .. Len(t) : t[i] = cs[i - 1]
  BY <1>1, <1>2, PushFirst
<1>4. ASSUME NEW i \in 1 .. Len(t)
      PROVE  CallOK(ns2, ls, ks, t[i])
  <2>1. CASE i = 1
    BY <1>3, <2>1
  <2>2. CASE i # 1
    <3>1. PICK j \in 1 .. Len(cs) : j = i - 1
      BY <1>2, <1>3, <2>2
    <3>2. t[i] = cs[j]
      BY <1>2, <1>3, <2>2, <3>1
    <3> QED BY <3>2
  <2> QED BY <2>1, <2>2
<1>5. ASSUME NEW i \in 1 .. Len(t), NEW j \in 1 .. Len(t), i # j
      PROVE  t[i].ast # t[j].ast /\ (t[i].link # t[j].link \/ t[i].link = Null)
  <2>3. CASE i = 1
    BY <1>2, <1>3, <1>5, <2>3
  <2>4. CASE j = 1
    BY <1>2, <1>3, <1>5, <2>4
  <2>5. CASE i # 1 /\ j # 1
    <3>1. cs[i - 1].ast # cs[j - 1].ast /\ (cs[i - 1].link # cs[j - 1].link \/ cs[i - 1].link = Null)
      BY <1>2, <1>3, <1>5, <2>5 DEF CallsOK
    <3> QED BY <1>2, <1>3, <2>5, <3>1
  <2> QED BY <2>3, <2>4, <2>5
<1> QED BY <1>1, <1>3, <1>4, <1>5 DEF CallsOK

LEMMA CallsDropped ==
  ASSUME NEW ns, NEW ls, NEW ks, NEW cs, CallsOK(ns, ls, ks, cs), cs # <<>>
  PROVE  CallsOK(ns, ls, ks, Tail(cs))
<1>1. PICK t : t = Tail(cs)
  OBVIOUS
<1>2. cs \in Seq(CallRecords)
  BY DEF CallsOK
<1>3. /\ Len(cs) \in Nat \ {0} /\ t \in Seq(CallRecords) /\ Len(t) = Len(cs) - 1
      /\ \A i \in 1 .. Len(t) : t[i] = cs[i + 1]
  BY <1>1, <1>2, DropFirst
<1>4. \A i \in 1 .. Len(t) : CallOK(ns, ls, ks, t[i])
  BY <1>3 DEF CallsOK
<1>5. ASSUME NEW i \in 1 .. Len(t), NEW j \in 1 .. Len(t), i # j
      PROVE  t[i].ast # t[j].ast /\ (t[i].link # t[j].link \/ t[i].link = Null)
  <2>1. cs[i + 1].ast # cs[j + 1].ast /\ (cs[i + 1].link # cs[j + 1].link \/ cs[i + 1].link = Null)
    BY <1>3, <1>5 DEF CallsOK
  <2> QED BY <1>3, <2>1
<1> QED BY <1>1, <1>3, <1>4, <1>5 DEF CallsOK

-----------------------------------------------------------------------------
(* ast_setattr: the entry of a name, a new one, and what a node is behind it. *)
LEMMA EntryFound ==
  ASSUME NodesOK(nodes, attributes), AttributesOK(nodes, attributes, lists, links),
         NEW n \in 1 .. Len(nodes), NEW name \in AttrNames
  PROVE  EntryFor(n, name) \in 0 .. Len(attributes)
<1>1. AttrHash[name] \in 0 .. AttrCapacity - 1
  BY AttrTableAssumption
<1>2. PICK e \in 0 .. Len(attributes) : e = nodes[n].attrs[AttrHash[name]]
  BY <1>1 DEF NodesOK
<1>3. Len(attributes) \in Nat /\ Descends(attributes)
  BY DEF AttributesOK
<1>4. FindIn(attributes, e, name) \in 0 .. Len(attributes)
  BY <1>3, FindFinds
<1> QED BY <1>2, <1>4, FindEntryIs DEF EntryFor

LEMMA EntryPushed ==
  ASSUME NodesOK(nodes, attributes), NEW n \in 1 .. Len(nodes), nodes[n].attr_count < AttrCapacity,
         NEW name \in AttrNames, NEW type, NEW value, PushEntry(n, name, type, value), Len(attributes) \in Nat
  PROVE  /\ nodes' \in Seq(NodeRecords) /\ Len(nodes') = Len(nodes)
         /\ \A m \in 1 .. Len(nodes) : m # n => nodes'[m] = nodes[m]
         /\ nodes'[n].kind = nodes[n].kind
         /\ nodes'[n].attr_count = nodes[n].attr_count + 1
         /\ nodes'[n].attrs = [nodes[n].attrs EXCEPT ![AttrHash[name]] = Len(attributes) + 1]
<1>1. PICK h \in 0 .. AttrCapacity - 1 : h = AttrHash[name]
  BY AttrTableAssumption
<1>2. PICK r : r = [kind |-> nodes[n].kind, attr_count |-> nodes[n].attr_count + 1,
                    attrs |-> [nodes[n].attrs EXCEPT ![h] = Len(attributes) + 1]]
  OBVIOUS
<1>3. nodes \in Seq(NodeRecords) /\ nodes[n] \in NodeRecords
  BY DEF NodesOK
<1>4. PICK k, c, a : /\ nodes[n] = [kind |-> k, attr_count |-> c, attrs |-> a]
                     /\ k \in Kinds /\ c \in 0 .. AttrCapacity /\ a \in [0 .. AttrCapacity - 1 -> Nat]
  BY <1>3 DEF NodeRecords
<1>5. r = [kind |-> k, attr_count |-> c + 1, attrs |-> [a EXCEPT ![h] = Len(attributes) + 1]]
  BY <1>2, <1>4
<1>6. c + 1 \in 0 .. AttrCapacity
  BY <1>4, AttrTableAssumption
<1>7. [a EXCEPT ![h] = Len(attributes) + 1] \in [0 .. AttrCapacity - 1 -> Nat]
  BY <1>4
<1>8. r \in NodeRecords
  BY <1>4, <1>5, <1>6, <1>7 DEF NodeRecords
<1>9. nodes' = [nodes EXCEPT ![n].attrs[h] = Len(attributes) + 1, ![n].attr_count = @ + 1]
  BY <1>1 DEF PushEntry
<1>10. nodes' = [nodes EXCEPT ![n] = r]
  BY <1>3, <1>4, <1>5, <1>9
<1> QED BY <1>1, <1>2, <1>3, <1>8, <1>10

(* Every pointer of the tree leads to something of the right kind that exists. *)
TreeOK ==
  /\ NodesOK(nodes, attributes)
  /\ AttributesOK(nodes, attributes, lists, links)
  /\ PointersOK(lists, links)
  /\ LinksOK(nodes, links)

LEMMA Lengths ==
  ASSUME TreeOK
  PROVE  Len(nodes) \in Nat /\ Len(attributes) \in Nat /\ Len(lists) \in Nat /\ Len(links) \in Nat
  BY DEF TreeOK, NodesOK, AttributesOK, PointersOK, LinksOK

(* What ast_setattr leaves: the node has at most one attribute more, and no  *)
(* value but the one written is new.                                         *)
AttributeWritten(n, type, value) ==
  /\ NodesOK(nodes', attributes')
  /\ AttributesOK(nodes', attributes', lists, links)
  /\ failed' = failed /\ lists' = lists /\ links' = links
  /\ Len(nodes') = Len(nodes)
  /\ \A m \in 1 .. Len(nodes) : /\ nodes'[m].kind = nodes[m].kind
                                /\ m # n => nodes'[m].attr_count = nodes[m].attr_count
  /\ nodes'[n].attr_count <= nodes[n].attr_count + 1
  /\ \A a \in 1 .. Len(attributes') :
       \/ attributes'[a].type = type /\ attributes'[a].value = value
       \/ /\ a \in 1 .. Len(attributes)
          /\ attributes'[a].type = attributes[a].type /\ attributes'[a].value = attributes[a].value

LEMMA AttributeSet ==
  ASSUME TreeOK, NEW n \in 1 .. Len(nodes), NEW name \in AttrNames, NEW type \in AttrTypes, NEW value \in Int,
         ValueOK(nodes, lists, links, type, value), nodes[n].attr_count < AttrCapacity,
         ast_setattr(n, name, value, type)
  PROVE  AttributeWritten(n, type, value)
<1>1. /\ Len(nodes) \in Nat /\ Len(attributes) \in Nat
      /\ nodes \in Seq(NodeRecords) /\ attributes \in Seq(AttrRecords) /\ Descends(attributes)
      /\ NodesOK(nodes, attributes) /\ AttributesOK(nodes, attributes, lists, links)
  BY Lengths DEF TreeOK, NodesOK, AttributesOK
<1>2. PICK entry \in 0 .. Len(attributes) : entry = EntryFor(n, name)
  BY <1>1, EntryFound
<1>3. nodes[n].attr_count \in 0 .. AttrCapacity /\ nodes[n] \in NodeRecords
  <2>1. nodes[n] \in NodeRecords
    BY <1>1
  <2> QED BY <2>1 DEF NodeRecords
<1>4. lists' = lists /\ links' = links
  BY DEF ast_setattr
<1>5. CASE /\ entry # Null
           /\ attributes' = [attributes EXCEPT ![entry].type = type, ![entry].value = value]
           /\ UNCHANGED <<nodes, failed>>
  <2>1. entry \in 1 .. Len(attributes) /\ attributes[entry] \in AttrRecords
    BY <1>1, <1>5 DEF Null
  <2>2. PICK a : a = [attributes[entry] EXCEPT !.type = type, !.value = value]
    OBVIOUS
  <2>3. /\ a \in AttrRecords /\ a.type = type /\ a.value = value
        /\ a.next_attr = attributes[entry].next_attr
    BY <2>1, <2>2 DEF AttrRecords
  <2>4. attributes' = [attributes EXCEPT ![entry] = a]
    BY <1>1, <1>5, <2>1, <2>2
  <2>5. /\ attributes' \in Seq(AttrRecords) /\ Len(attributes') = Len(attributes)
        /\ attributes'[entry] = a
        /\ \A x \in 1 .. Len(attributes) : x # entry => attributes'[x] = attributes[x]
    BY <1>1, <2>1, <2>3, <2>4
  <2>6. Descends(attributes')
    BY <1>1, <2>1, <2>3, <2>5 DEF Descends
  <2>7. \A x \in 1 .. Len(attributes') : ValueOK(nodes', lists, links, attributes'[x].type, attributes'[x].value)
    BY <1>1, <1>5, <2>3, <2>5 DEF AttributesOK
  <2>8. NodesOK(nodes', attributes')
    BY <1>1, <1>5, <2>5 DEF NodesOK
  <2>9. AttributesOK(nodes', attributes', lists, links)
    BY <2>5, <2>6, <2>7 DEF AttributesOK
  <2> QED BY <1>3, <1>4, <1>5, <2>3, <2>5, <2>8, <2>9 DEF AttributeWritten
<1>6. CASE PushEntry(n, name, type, value) /\ UNCHANGED failed
  <2>1. PICK h \in 0 .. AttrCapacity - 1 : h = AttrHash[name]
    BY AttrTableAssumption
  <2>2. PICK a : a = [name |-> name, type |-> type, value |-> value, next_attr |-> nodes[n].attrs[h]]
    OBVIOUS
  <2>3. nodes[n].attrs[h] \in 0 .. Len(attributes)
    BY <1>1 DEF NodesOK
  <2>4. a \in AttrRecords /\ a.type = type /\ a.value = value /\ a.next_attr \in 0 .. Len(attributes)
    BY <1>1, <2>2, <2>3 DEF AttrRecords
  <2>5. attributes' = Append(attributes, a)
    BY <1>6, <2>1, <2>2 DEF PushEntry
  <2>6. /\ attributes' \in Seq(AttrRecords) /\ Len(attributes') = Len(attributes) + 1
        /\ attributes'[Len(attributes) + 1] = a
        /\ \A x \in 1 .. Len(attributes) : attributes'[x] = attributes[x]
    BY <1>1, <2>4, <2>5, AppendLast
  <2>7. /\ nodes' \in Seq(NodeRecords) /\ Len(nodes') = Len(nodes)
        /\ \A m \in 1 .. Len(nodes) : m # n => nodes'[m] = nodes[m]
        /\ nodes'[n].kind = nodes[n].kind
        /\ nodes'[n].attr_count = nodes[n].attr_count + 1
        /\ nodes'[n].attrs = [nodes[n].attrs EXCEPT ![h] = Len(attributes) + 1]
    BY <1>1, <1>6, <2>1, EntryPushed
  <2>8. Descends(attributes')
    <3> SUFFICES ASSUME NEW x \in 1 .. Len(attributes') PROVE attributes'[x].next_attr \in 0 .. x - 1
      BY DEF Descends
    <3>1. CASE x = Len(attributes) + 1
      BY <1>1, <2>4, <2>6, <3>1
    <3>2. CASE x \in 1 .. Len(attributes)
      BY <1>1, <2>6, <3>2 DEF Descends
    <3> QED BY <1>1, <2>6, <3>1, <3>2
  <2>9. \A x \in 1 .. Len(attributes') : ValueOK(nodes', lists, links, attributes'[x].type, attributes'[x].value)
    <3> SUFFICES ASSUME NEW x \in 1 .. Len(attributes')
                 PROVE  ValueOK(nodes, lists, links, attributes'[x].type, attributes'[x].value)
      BY <2>7 DEF ValueOK
    <3>1. CASE x = Len(attributes) + 1
      BY <2>4, <2>6, <3>1
    <3>2. CASE x \in 1 .. Len(attributes)
      BY <1>1, <2>6, <3>2 DEF AttributesOK
    <3> QED BY <1>1, <2>6, <3>1, <3>2
  <2>10. NodesOK(nodes', attributes')
    <3> SUFFICES ASSUME NEW m \in 1 .. Len(nodes'), NEW g \in 0 .. AttrCapacity - 1
                 PROVE  nodes'[m].attrs[g] \in 0 .. Len(attributes')
      BY <2>7 DEF NodesOK
    <3>1. nodes[m].attrs[g] \in 0 .. Len(attributes)
      BY <1>1, <2>7 DEF NodesOK
    <3>2. CASE m # n
      BY <1>1, <2>6, <2>7, <3>1, <3>2
    <3>3. CASE m = n
      <4>1. nodes[n].attrs \in [0 .. AttrCapacity - 1 -> Nat]
        BY <1>3 DEF NodeRecords
      <4>2. nodes'[n].attrs[g] = IF g = h THEN Len(attributes) + 1 ELSE nodes[n].attrs[g]
        BY <2>7, <4>1
      <4> QED BY <1>1, <2>6, <3>1, <3>3, <4>2
    <3> QED BY <3>2, <3>3
  <2>11. AttributesOK(nodes', attributes', lists, links)
    BY <2>6, <2>8, <2>9 DEF AttributesOK
  <2>12. \A x \in 1 .. Len(attributes') :
           \/ attributes'[x].type = type /\ attributes'[x].value = value
           \/ /\ x \in 1 .. Len(attributes)
              /\ attributes'[x].type = attributes[x].type /\ attributes'[x].value = attributes[x].value
    BY <1>1, <2>4, <2>6
  <2>13. \A m \in 1 .. Len(nodes) : /\ nodes'[m].kind = nodes[m].kind
                                    /\ m # n => nodes'[m].attr_count = nodes[m].attr_count
    BY <2>7
  <2>14. nodes'[n].attr_count <= nodes[n].attr_count + 1
    BY <1>3, <2>7
  <2> QED BY <1>4, <1>6, <2>7, <2>10, <2>11, <2>12, <2>13, <2>14 DEF AttributeWritten
<1>7. ~(nodes[n].attr_count >= AttrCapacity)
  BY <1>3, AttrTableAssumption
<1> QED BY <1>2, <1>5, <1>6, <1>7 DEF ast_setattr

(* The inductive invariant of the driver, for the tree.  CompilerTypeOK is not *)
(* one: that the table of a node is never full takes the count of the steps of *)
(* its call, that an append finds a tail takes the shape of every list, and that *)
(* print_ast meets a lexeme only for the name `error` takes the origin of every *)
(* value that is marked as a node.                                             *)
TreeInv ==
  /\ TreeOK
  /\ CallsOK(nodes, lists, links, calls)
  /\ failed = "no" => /\ ShapesOK(lists, links)
                      /\ ErrorNamesOK(nodes, attributes)
                      /\ phase = "print" => FramesOK(nodes, attributes, links, frames)
  /\ calls # <<>> => phase = "parse"
  /\ finished \in 0 .. Len(nodes) \/ (phase \in {"cleanup", "done"} /\ nodes = <<>>)
  /\ OnlyKnownAsserts

LEMMA TreeInvPrimed ==
  TreeInv' <=>
    /\ /\ NodesOK(nodes', attributes')
       /\ AttributesOK(nodes', attributes', lists', links')
       /\ PointersOK(lists', links')
       /\ LinksOK(nodes', links')
    /\ CallsOK(nodes', lists', links', calls')
    /\ failed' = "no" => /\ ShapesOK(lists', links')
                         /\ ErrorNamesOK(nodes', attributes')
                         /\ phase' = "print" => FramesOK(nodes', attributes', links', frames')
    /\ calls' # <<>> => phase' = "parse"
    /\ finished' \in 0 .. Len(nodes') \/ (phase' \in {"cleanup", "done"} /\ nodes' = <<>>)
    /\ OnlyKnownAsserts'
BY DEF TreeInv, TreeOK

(* The call that runs, and the attribute it is about to set. *)
LEMMA RunningOK ==
  ASSUME TreeInv, calls # <<>>
  PROVE  /\ Running = calls[1] /\ Running \in CallRecords /\ CallOK(nodes, lists, links, Running)
         /\ Running.ast \in 1 .. Len(nodes) /\ nodes[Running.ast].kind \in Kinds
         /\ Rule = RuleOf(nodes, Running)
         /\ Len(Rule) \in Nat
         /\ InRule => /\ Running.step \in 1 .. Len(Rule) /\ Doing.name \in AttrNames
                      /\ nodes[Running.ast].attr_count < AttrCapacity
<1>1. calls \in Seq(CallRecords) /\ \A i \in 1 .. Len(calls) : CallOK(nodes, lists, links, calls[i])
  BY DEF TreeInv, CallsOK
<1>2. Running = calls[1] /\ Running \in CallRecords /\ Len(calls) \in Nat \ {0}
  BY <1>1, DropFirst DEF Running
<1>3. CallOK(nodes, lists, links, Running)
  BY <1>1, <1>2
<1>4. Running.ast \in 1 .. Len(nodes)
  BY <1>3 DEF CallOK
<1>5. nodes[Running.ast] \in NodeRecords
  BY <1>4 DEF TreeInv, TreeOK, NodesOK
<1>6. nodes[Running.ast].kind \in Kinds /\ nodes[Running.ast].attr_count \in Nat
  BY <1>5 DEF NodeRecords
<1>7. Len(Rule) \in Nat
  BY <1>6, RuleFacts DEF Rule
<1>8. Running.step \in Nat \ {0} /\ nodes[Running.ast].attr_count < Running.step
  BY <1>2, <1>3 DEF CallRecords, CallOK
<1>9. ASSUME InRule
      PROVE  /\ Running.step \in 1 .. Len(Rule) /\ Doing.name \in AttrNames
             /\ nodes[Running.ast].attr_count < AttrCapacity
  <2>1. Running.step \in 1 .. Len(Rule)
    BY <1>7, <1>8, <1>9 DEF InRule
  <2>2. Doing.name \in AttrNames /\ Running.step <= AttrCapacity
    BY <1>6, <2>1, RuleNames DEF Doing, Rule
  <2> QED BY <1>6, <1>8, <2>1, <2>2, AttrTableAssumption
<1> QED BY <1>2, <1>3, <1>4, <1>6, <1>7, <1>9 DEF Rule, RuleOf

(* A step that sets an attribute. *)
LEMMA AttributeStep ==
  ASSUME TreeInv, failed = "no", phase = "parse", calls # <<>>, InRule, Running.link = Null,
         NEW type, NEW value, AttributeWritten(Running.ast, type, value),
         type = "Ast" /\ value = Lexeme => HasErrorName(nodes),
         StepDone, phase' = phase, finished' \in 0 .. Len(nodes)
  PROVE  TreeInv'
<1>1. /\ Running = calls[1] /\ Running \in CallRecords /\ CallOK(nodes, lists, links, Running)
      /\ Running.ast \in 1 .. Len(nodes)
  BY RunningOK
<1>2. /\ NodesOK(nodes', attributes')
      /\ AttributesOK(nodes', attributes', lists, links)
      /\ failed' = failed /\ lists' = lists /\ links' = links
      /\ Len(nodes') = Len(nodes)
      /\ \A m \in 1 .. Len(nodes) : /\ nodes'[m].kind = nodes[m].kind
                                    /\ m # Running.ast => nodes'[m].attr_count = nodes[m].attr_count
      /\ nodes'[Running.ast].attr_count <= nodes[Running.ast].attr_count + 1
      /\ \A a \in 1 .. Len(attributes') :
           \/ attributes'[a].type = type /\ attributes'[a].value = value
           \/ /\ a \in 1 .. Len(attributes)
              /\ attributes'[a].type = attributes[a].type /\ attributes'[a].value = attributes[a].value
  BY DEF AttributeWritten
<1>3. Len(nodes) \in Nat /\ Len(attributes) \in Nat /\ Len(lists) \in Nat /\ Len(links) \in Nat
  BY Lengths DEF TreeInv
<1>4. LinksOK(nodes', links')
  BY <1>2 DEF TreeInv, TreeOK, LinksOK
<1>5. PointersOK(lists', links') /\ ShapesOK(lists', links')
  BY <1>2 DEF TreeInv, TreeOK
<1>6. ErrorNamesOK(nodes', attributes')
  <2>1. HasErrorName(nodes) => HasErrorName(nodes')
    BY <1>2 DEF HasErrorName
  <2>2. ErrorNamesOK(nodes, attributes)
    BY DEF TreeInv
  <2> QED BY <1>2, <2>1, <2>2 DEF ErrorNamesOK
<1>7. PICK c : c = [Running EXCEPT !.step = @ + 1, !.list = Null]
  OBVIOUS
<1>8. /\ c \in CallRecords /\ c.ast = Running.ast /\ c.taken = Running.taken /\ c.list = Null
      /\ c.link = Null /\ c.step = Running.step + 1
  <2>1. PICK a, s, t, l, k :
          /\ Running = [ast |-> a, step |-> s, taken |-> t, list |-> l, link |-> k]
          /\ a \in Nat /\ s \in Nat \ {0} /\ t \in Nat /\ l \in Nat /\ k \in Nat
    BY <1>1 DEF CallRecords
  <2>2. c = [ast |-> a, step |-> s + 1, taken |-> t, list |-> 0, link |-> 0]
    BY <1>7, <2>1 DEF Null
  <2>3. s + 1 \in Nat \ {0} /\ 0 \in Nat
    BY <2>1
  <2>4. c \in CallRecords
    BY <2>1, <2>2, <2>3 DEF CallRecords
  <2> QED BY <2>1, <2>2, <2>4 DEF Null
<1>9. calls' = <<c>> \o Tail(calls)
  BY <1>7 DEF StepDone, Update
<1>10. calls \in Seq(CallRecords) /\ Len(calls) \in Nat \ {0} /\ CallsOK(nodes, lists, links, calls)
  BY DropFirst DEF TreeInv, CallsOK
<1>11. CallOK(nodes', lists', links', c)
  <2>1. nodes[Running.ast].attr_count \in Nat /\ nodes'[Running.ast].attr_count \in Nat
    <3>1. nodes[Running.ast] \in NodeRecords /\ nodes'[Running.ast] \in NodeRecords
      BY <1>1, <1>2 DEF TreeInv, TreeOK, NodesOK
    <3> QED BY <3>1 DEF NodeRecords
  <2>2. nodes[Running.ast].attr_count < Running.step /\ Running.step \in Nat
    BY <1>1 DEF CallOK, CallRecords
  <2>3. nodes'[c.ast].attr_count < c.step
    BY <1>2, <1>8, <2>1, <2>2
  <2>4. /\ c.ast \in 1 .. Len(nodes') /\ c.taken \in 0 .. Len(nodes')
        /\ c.list \in 0 .. Len(lists') /\ c.link \in 0 .. Len(links')
    BY <1>1, <1>2, <1>3, <1>8 DEF CallOK, Null
  <2> QED BY <1>8, <2>3, <2>4 DEF CallOK
<1>12. ASSUME NEW i \in 2 .. Len(calls) PROVE CallOK(nodes', lists', links', calls[i])
  <2>1. /\ calls[i] \in CallRecords /\ CallOK(nodes, lists, links, calls[i])
        /\ calls[i].ast # Running.ast
    BY <1>1, <1>10 DEF CallsOK
  <2>2. calls[i].ast \in 1 .. Len(nodes)
    BY <2>1 DEF CallOK
  <2>3. nodes'[calls[i].ast].kind = nodes[calls[i].ast].kind
        /\ nodes'[calls[i].ast].attr_count = nodes[calls[i].ast].attr_count
    BY <1>2, <2>1, <2>2
  <2>4. calls[i].link # Null => links'[calls[i].link].prev = Null /\ links'[calls[i].link].next = Null
    BY <1>2, <2>1 DEF CallOK
  <2> QED BY <1>2, <1>3, <2>1, <2>3, <2>4, CallStays
<1>13. CallsOK(nodes', lists', links', calls')
  BY <1>1, <1>8, <1>9, <1>10, <1>11, <1>12, CallsUpdated
<1>14. failed' = "no" /\ phase' = "parse" /\ finished' \in 0 .. Len(nodes')
  BY <1>2
<1>15. OnlyKnownAsserts'
  BY <1>14 DEF OnlyKnownAsserts
<1>16. AttributesOK(nodes', attributes', lists', links')
  BY <1>2
<1> QED BY <1>2, <1>4, <1>5, <1>6, <1>13, <1>14, <1>15, <1>16, TreeInvPrimed

LEMMA StepPrepared ==
  ASSUME TreeInv, Parsing, InRule, Running.list = Null
  PROVE  Running.link = Null
<1>1. CallOK(nodes, lists, links, Running)
  BY RunningOK DEF Parsing
<1> QED BY <1>1 DEF CallOK

LEMMA FinishedOK ==
  ASSUME TreeInv, phase = "parse"
  PROVE  finished \in 0 .. Len(nodes) /\ Len(nodes) \in Nat
  BY Lengths DEF TreeInv

(* A step of a rule other than a list. *)
LEMMA PlainStep ==
  ASSUME TreeInv, Parsing, InRule, Doing.from \notin {"decls", "list", "tuple"}
  PROVE  Running.list = Null /\ Running.link = Null
<1>1. CallOK(nodes, lists, links, Running) /\ Rule = RuleOf(nodes, Running)
  BY RunningOK DEF Parsing
<1> QED BY <1>1 DEF CallOK, Doing

(* The actions that set an attribute. *)
Sets == \/ SetValue \/ SetName \/ SetErrorName \/ SetTaken \/ SetChild \/ NoInitializer \/ NoArguments
        \/ CloseList

(* One of them writes an attribute that holds something of its type. *)
WritesAttribute(type, value) ==
  /\ ast_setattr(Running.ast, Doing.name, value, type)
  /\ ValueOK(nodes, lists, links, type, value)
  /\ type = "Ast" /\ value = Lexeme => HasErrorName(nodes)

(* Each of them does. *)
LEMMA SetWrites ==
  ASSUME TreeInv, Sets
  PROVE  /\ InRule /\ failed = "no" /\ phase = "parse" /\ calls # <<>> /\ Running.link = Null
         /\ \E type \in AttrTypes, value \in {Lexeme, Cell} \cup Nat : WritesAttribute(type, value)
         /\ StepDone /\ phase' = phase /\ finished' \in 0 .. Len(nodes)
<1>1. Parsing /\ InRule /\ failed = "no" /\ phase = "parse" /\ calls # <<>>
  <2>1. CASE CloseList
    <3>1. Parsing /\ Running.list # Null
      BY <2>1 DEF CloseList
    <3>2. CallOK(nodes, lists, links, Running) /\ Rule = RuleOf(nodes, Running)
      BY <3>1, RunningOK DEF Parsing
    <3>3. InRule
      BY <3>1, <3>2 DEF CallOK, InRule
    <3> QED BY <3>1, <3>3 DEF Parsing, InPhase
  <2>2. CASE SetValue \/ SetName \/ SetErrorName \/ SetTaken \/ SetChild \/ NoInitializer \/ NoArguments
    BY <2>2 DEF SetValue, SetName, SetErrorName, SetTaken, SetChild, NoInitializer, NoArguments, AtStep,
                Parsing, InPhase
  <2> QED BY <2>1, <2>2 DEF Sets
<1>2. /\ Running.ast \in 1 .. Len(nodes) /\ Doing.name \in AttrNames
      /\ nodes[Running.ast].attr_count < AttrCapacity /\ nodes[Running.ast].kind \in Kinds
      /\ Running.step \in 1 .. Len(Rule)
      /\ Running \in CallRecords /\ CallOK(nodes, lists, links, Running)
      /\ Rule = RuleOf(nodes, Running)
  BY <1>1, RunningOK
<1>3. TreeOK /\ finished \in 0 .. Len(nodes) /\ Len(nodes) \in Nat
  BY <1>1, FinishedOK DEF TreeInv
<1> DEFINE done == /\ Running.link = Null /\ StepDone /\ phase' = phase /\ finished' \in 0 .. Len(nodes)
                   /\ \E type \in AttrTypes, value \in {Lexeme, Cell} \cup Nat : WritesAttribute(type, value)
<1>4. ASSUME SetValue PROVE done
  <2>1. Doing.from \in {"number", "operator"}
    BY <1>4 DEF SetValue, AtStep, ValueFrom
  <2>2. PICK type \in {"Integer", "ExprOperator"} :
          ValueFrom[Doing.from][1] = Cell /\ ValueFrom[Doing.from][2] = type
    BY <2>1 DEF ValueFrom
  <2>3. /\ ast_setattr(Running.ast, Doing.name, Cell, type) /\ StepDone
        /\ phase' = phase /\ finished' = finished
    BY <1>4, <2>2 DEF SetValue, Parser
  <2>4. Running.link = Null
    BY <1>1, <2>1, PlainStep
  <2>5. type \in AttrTypes /\ Cell \in {Lexeme, Cell} \cup Nat /\ ValueOK(nodes, lists, links, type, Cell) /\ type # "Ast"
    BY DEF AttrTypes, Cell, ValueOK
  <2> QED BY <1>3, <2>3, <2>4, <2>5 DEF WritesAttribute
<1>5. ASSUME SetName PROVE done
  <2>1. /\ ast_setattr(Running.ast, Doing.name, Lexeme, "String") /\ StepDone
        /\ phase' = phase /\ finished' = finished /\ Doing.from = "lexeme"
    BY <1>5 DEF SetName, AtStep, Parser
  <2>2. Running.link = Null
    BY <1>1, <2>1, PlainStep
  <2>3. "String" \in AttrTypes /\ Lexeme \in {Lexeme, Cell} \cup Nat /\ ValueOK(nodes, lists, links, "String", Lexeme)
    BY DEF AttrTypes, Lexeme, ValueOK
  <2> QED BY <1>3, <2>1, <2>2, <2>3 DEF WritesAttribute
<1>6. ASSUME SetErrorName PROVE done
  <2>1. /\ ast_setattr(Running.ast, Doing.name, Lexeme, "Ast") /\ StepDone
        /\ phase' = phase /\ finished' = finished /\ Doing.from = "lexeme as Ast"
    BY <1>6 DEF SetErrorName, AtStep, Parser
  <2>2. Running.link = Null
    BY <1>1, <2>1, PlainStep
  <2>3. "Ast" \in AttrTypes /\ Lexeme \in {Lexeme, Cell} \cup Nat /\ ValueOK(nodes, lists, links, "Ast", Lexeme)
    BY DEF AttrTypes, Lexeme, ValueOK
  <2>4. nodes[Running.ast].kind = "ErrorName"
    BY <1>2, <2>1, RuleFacts DEF Doing, Rule
  <2>5. HasErrorName(nodes)
    BY <1>2, <2>4 DEF HasErrorName
  <2> QED BY <1>3, <2>1, <2>2, <2>3, <2>5 DEF WritesAttribute
<1>7. ASSUME SetTaken PROVE done
  <2>1. PICK v : v = Running.taken
    OBVIOUS
  <2>2. /\ ast_setattr(Running.ast, Doing.name, v, "Ast") /\ StepDone
        /\ phase' = phase /\ finished' = finished /\ Doing.from = "taken"
    BY <1>7, <2>1 DEF SetTaken, AtStep, Parser
  <2>3. Running.link = Null
    BY <1>1, <2>2, PlainStep
  <2>4. v \in 0 .. Len(nodes)
    BY <1>2, <2>1 DEF CallOK
  <2>5. "Ast" \in AttrTypes /\ v \in {Lexeme, Cell} \cup Nat /\ ValueOK(nodes, lists, links, "Ast", v) /\ v # Lexeme
    BY <1>3, <2>4 DEF AttrTypes, Lexeme, ValueOK, Null
  <2> QED BY <1>3, <2>2, <2>3, <2>5 DEF WritesAttribute
<1>8. ASSUME SetChild PROVE done
  <2>1. PICK v : v = finished
    OBVIOUS
  <2>2. /\ ast_setattr(Running.ast, Doing.name, v, "Ast") /\ StepDone
        /\ phase' = phase /\ finished' = 0 /\ Doing.from \in {"call", "call or null"}
    BY <1>8, <2>1 DEF SetChild, AtStep, Parser, Null
  <2>3. Running.link = Null
    BY <1>1, <2>2, PlainStep
  <2>4. "Ast" \in AttrTypes /\ v \in {Lexeme, Cell} \cup Nat /\ ValueOK(nodes, lists, links, "Ast", v) /\ v # Lexeme
    BY <1>3, <2>1 DEF AttrTypes, Lexeme, ValueOK, Null
  <2>5. finished' \in 0 .. Len(nodes)
    <3>1. finished' = 0
      BY <2>2
    <3> QED BY <1>3, <3>1
  <2>6. WritesAttribute("Ast", v)
    BY <2>2, <2>4 DEF WritesAttribute
  <2> QED BY <2>2, <2>3, <2>4, <2>5, <2>6
<1>9. ASSUME NoArguments PROVE done
  <2>1. /\ ast_setattr(Running.ast, Doing.name, Null, "AstList") /\ StepDone
        /\ phase' = phase /\ finished' = finished /\ Running.list = Null
    BY <1>9 DEF NoArguments, Parser
  <2>2. Running.link = Null
    BY <1>1, <2>1, StepPrepared
  <2>3. "AstList" \in AttrTypes /\ Null \in {Lexeme, Cell} \cup Nat /\ ValueOK(nodes, lists, links, "AstList", Null)
    BY DEF AttrTypes, Null, ValueOK
  <2> QED BY <1>3, <2>1, <2>2, <2>3 DEF WritesAttribute
<1>10. ASSUME CloseList PROVE done
  <2>1. PICK v : v = Running.list
    OBVIOUS
  <2>2. /\ ast_setattr(Running.ast, Doing.name, v, "AstList") /\ StepDone
        /\ phase' = phase /\ finished' = finished /\ Running.link = Null /\ v # Null
        /\ Doing.from = "decls" \/ lists[v].tail # -v
    BY <1>10, <2>1 DEF CloseList, Parser
  <2>3. /\ v \in 1 .. Len(lists)
        /\ Doing.from # "tuple" /\ lists[v].tail = -v => lists[v].next = Null
    BY <1>2, <2>1, <2>2 DEF CallOK, Null, Doing
  <2>4. ListOK(lists, links, v)
    BY <1>1, <2>3 DEF TreeInv, ShapesOK
  <2>5. Len(links) \in Nat /\ Len(lists) \in Nat
    BY <1>3, Lengths
  <2>6. lists[v].next \in 0 .. Len(links)
    BY <2>2, <2>3, <2>4, <2>5 DEF ListOK, Null
  <2>7. "AstList" \in AttrTypes /\ v \in {Lexeme, Cell} \cup Nat /\ ValueOK(nodes, lists, links, "AstList", v)
    BY <2>3, <2>5, <2>6 DEF AttrTypes, ValueOK
  <2> QED BY <1>3, <2>2, <2>7 DEF WritesAttribute
<1>11. ASSUME NoInitializer PROVE done
  <2>1. /\ ast_setattr(Running.ast, Doing.name, Null, "Ast") /\ StepDone
        /\ phase' = phase /\ finished' = finished /\ Doing.from = "call or null"
    BY <1>11 DEF NoInitializer, AtStep, Parser
  <2>2. Running.link = Null
    BY <1>1, <2>1, PlainStep
  <2>3. "Ast" \in AttrTypes /\ Null \in {Lexeme, Cell} \cup Nat /\ ValueOK(nodes, lists, links, "Ast", Null)
        /\ Null # Lexeme
    BY DEF AttrTypes, Lexeme, Null, ValueOK
  <2> QED BY <1>3, <2>1, <2>2, <2>3 DEF WritesAttribute
<1> HIDE DEF done
<1>12. done
  BY <1>4, <1>5, <1>6, <1>7, <1>8, <1>9, <1>10, <1>11 DEF Sets
<1> QED BY <1>1, <1>12 DEF done

LEMMA SetsKeepTree ==
  ASSUME TreeInv, Sets
  PROVE  TreeInv'
<1>1. PICK type \in AttrTypes : \E v \in {Lexeme, Cell} \cup Nat : WritesAttribute(type, v)
  BY SetWrites
<1>2. PICK value \in {Lexeme, Cell} \cup Nat : WritesAttribute(type, value)
  BY <1>1
<1>3. value \in Int
  BY DEF Lexeme, Cell
<1>4. /\ InRule /\ failed = "no" /\ phase = "parse" /\ calls # <<>> /\ Running.link = Null
      /\ StepDone /\ phase' = phase /\ finished' \in 0 .. Len(nodes)
  BY SetWrites
<1>5. /\ TreeOK /\ Running.ast \in 1 .. Len(nodes) /\ Doing.name \in AttrNames
      /\ nodes[Running.ast].attr_count < AttrCapacity
  BY <1>4, RunningOK DEF TreeInv
<1>6. AttributeWritten(Running.ast, type, value)
  BY <1>2, <1>3, <1>5, AttributeSet DEF WritesAttribute
<1> QED BY <1>2, <1>4, <1>6, AttributeStep DEF WritesAttribute

(* A call with a list or a link in hand. *)
LEMMA CallWithList ==
  ASSUME NEW r \in CallRecords, NEW l \in Nat, NEW c, c = [r EXCEPT !.list = l]
  PROVE  /\ c \in CallRecords /\ c.ast = r.ast /\ c.step = r.step /\ c.taken = r.taken
         /\ c.list = l /\ c.link = r.link
  BY DEF CallRecords

LEMMA CallWithLink ==
  ASSUME NEW r \in CallRecords, NEW k \in Nat, NEW c, c = [r EXCEPT !.link = k]
  PROVE  /\ c \in CallRecords /\ c.ast = r.ast /\ c.step = r.step /\ c.taken = r.taken
         /\ c.list = r.list /\ c.link = k
  BY DEF CallRecords

(* new_ast_node and the call that fills it. *)
LEMMA NodeAdded ==
  ASSUME TreeInv, failed = "no", NEW kind \in Kinds, new_ast_node(kind), NEW taken \in 0 .. Len(nodes),
         calls' = <<NewCall(taken)>> \o calls, phase' = "parse", finished' \in 0 .. Len(nodes)
  PROVE  TreeInv'
<1>1. Len(nodes) \in Nat /\ Len(attributes) \in Nat /\ Len(lists) \in Nat /\ Len(links) \in Nat
  BY Lengths DEF TreeInv
<1>2. PICK n : n = [kind |-> kind, attr_count |-> 0, attrs |-> [h \in 0 .. AttrCapacity - 1 |-> Null]]
  OBVIOUS
<1>3. n \in NodeRecords /\ n.attr_count = 0 /\ \A h \in 0 .. AttrCapacity - 1 : n.attrs[h] = 0
  <2>1. [h \in 0 .. AttrCapacity - 1 |-> Null] \in [0 .. AttrCapacity - 1 -> Nat]
    BY DEF Null
  <2>2. 0 \in 0 .. AttrCapacity
    BY AttrTableAssumption
  <2> QED BY <1>2, <2>1, <2>2 DEF NodeRecords, Null
<1>4. /\ attributes' = attributes /\ lists' = lists /\ links' = links /\ failed' = failed
      /\ nodes' = Append(nodes, n)
  BY <1>2 DEF new_ast_node
<1>5. /\ nodes' \in Seq(NodeRecords) /\ Len(nodes') = Len(nodes) + 1 /\ nodes'[Len(nodes) + 1] = n
      /\ \A m \in 1 .. Len(nodes) : nodes'[m] = nodes[m]
  BY <1>3, <1>4, AppendLast DEF TreeInv, TreeOK, NodesOK
<1>6. NodesOK(nodes', attributes')
  <2> SUFFICES ASSUME NEW m \in 1 .. Len(nodes'), NEW h \in 0 .. AttrCapacity - 1
               PROVE  nodes'[m].attrs[h] \in 0 .. Len(attributes)
    BY <1>4, <1>5 DEF NodesOK
  <2>1. CASE m = Len(nodes) + 1
    BY <1>1, <1>3, <1>5, <2>1
  <2>2. CASE m \in 1 .. Len(nodes)
    BY <1>5, <2>2 DEF TreeInv, TreeOK, NodesOK
  <2> QED BY <1>1, <1>5, <2>1, <2>2
<1>7. AttributesOK(nodes', attributes', lists', links')
  <2>1. \A type, value : ValueOK(nodes, lists, links, type, value) => ValueOK(nodes', lists, links, type, value)
    BY <1>1, <1>5 DEF ValueOK
  <2>2. AttributesOK(nodes, attributes, lists, links)
    BY DEF TreeInv, TreeOK
  <2> QED BY <1>4, <2>1, <2>2 DEF AttributesOK
<1>8. LinksOK(nodes', links')
  <2>1. links \in Seq(LinkRecords) /\ \A k \in 1 .. Len(links) : links[k].next \in 0 .. Len(links) /\ links[k].ast \in 0 .. Len(nodes)
    BY DEF TreeInv, TreeOK, LinksOK
  <2>2. \A k \in 1 .. Len(links) : links[k].next \in 0 .. Len(links) /\ links[k].ast \in 0 .. Len(nodes')
    BY <1>1, <1>5, <2>1
  <2> QED BY <1>4, <2>1, <2>2 DEF LinksOK
<1>9. PointersOK(lists', links') /\ ShapesOK(lists', links')
  BY <1>4 DEF TreeInv, TreeOK
<1>10. ErrorNamesOK(nodes', attributes')
  <2>1. HasErrorName(nodes) => HasErrorName(nodes')
    BY <1>1, <1>5 DEF HasErrorName
  <2>2. ErrorNamesOK(nodes, attributes)
    BY DEF TreeInv
  <2> QED BY <1>4, <2>1, <2>2 DEF ErrorNamesOK
<1>11. PICK c : c = NewCall(taken)
  OBVIOUS
<1>12. /\ c \in CallRecords /\ c.ast = Len(nodes) + 1 /\ c.step = 1 /\ c.taken = taken
       /\ c.list = Null /\ c.link = Null
  BY <1>1, <1>11 DEF NewCall, CallRecords, Null
<1>13. CallsOK(nodes, lists, links, calls)
  BY DEF TreeInv
<1>14. ASSUME NEW i \in 1 .. Len(calls)
       PROVE  calls[i].ast # c.ast /\ CallOK(nodes', lists, links, calls[i])
  <2>1. calls[i] \in CallRecords /\ CallOK(nodes, lists, links, calls[i])
    BY <1>13 DEF CallsOK
  <2>2. calls[i].ast \in 1 .. Len(nodes)
    BY <2>1 DEF CallOK
  <2>3. nodes'[calls[i].ast] = nodes[calls[i].ast] /\ calls[i].ast # c.ast
    BY <1>1, <1>5, <1>12, <2>2
  <2>4. calls[i].link # Null => links[calls[i].link].prev = Null /\ links[calls[i].link].next = Null
    BY <2>1 DEF CallOK
  <2>5. Len(nodes') \in Nat /\ Len(nodes) <= Len(nodes')
    BY <1>1, <1>5
  <2>6. /\ nodes'[calls[i].ast].kind = nodes[calls[i].ast].kind
        /\ nodes'[calls[i].ast].attr_count = nodes[calls[i].ast].attr_count
        /\ Len(lists) <= Len(lists) /\ Len(links) <= Len(links)
    BY <1>1, <2>3
  <2>7. CallOK(nodes', lists, links, calls[i])
    BY ONLY <1>1, <2>1, <2>4, <2>5, <2>6, CallStays
  <2> QED BY <2>3, <2>7
<1>15. CallOK(nodes', lists, links, c)
  BY <1>1, <1>3, <1>5, <1>12 DEF CallOK, Null
<1>16. CallsOK(nodes', lists', links', calls')
  BY <1>4, <1>11, <1>12, <1>13, <1>14, <1>15, CallsPushed
<1>17. failed' = "no" /\ phase' = "parse" /\ finished' \in 0 .. Len(nodes')
  BY <1>1, <1>4, <1>5
<1>18. OnlyKnownAsserts'
  BY <1>17 DEF OnlyKnownAsserts
<1> QED BY <1>6, <1>7, <1>8, <1>9, <1>10, <1>16, <1>17, <1>18, TreeInvPrimed

(* The three actions that make a node: new_ast_node and a call for it. *)
LEMMA NodeStep ==
  ASSUME TreeInv, BuildRoot \/ BeginNode \/ WrapNode
  PROVE  /\ failed = "no" /\ phase' = "parse" /\ finished' \in 0 .. Len(nodes)
         /\ \E kind \in Kinds : new_ast_node(kind)
         /\ \E taken \in 0 .. Len(nodes) : calls' = <<NewCall(taken)>> \o calls
<1>1. CASE BuildRoot
  <2>1. /\ failed = "no" /\ phase = "root" /\ new_ast_node("P4Program")
        /\ calls' = <<NewCall(Null)>> /\ phase' = "parse" /\ finished' = finished
    BY <1>1 DEF BuildRoot, InPhase
  <2>2. calls = <<>> /\ finished \in 0 .. Len(nodes)
    BY <2>1 DEF TreeInv
  <2>3. <<NewCall(Null)>> \o calls = <<NewCall(Null)>>
    BY <2>2
  <2>4. "P4Program" \in Kinds
    BY DEF Kinds, Rules
  <2>5. Null \in 0 .. Len(nodes)
    BY Lengths DEF Null, TreeInv
  <2> QED BY <2>1, <2>2, <2>3, <2>4, <2>5
<1>2. CASE BeginNode
  <2>1. /\ failed = "no" /\ phase = "parse" /\ calls' = <<NewCall(Null)>> \o calls
        /\ phase' = "parse" /\ finished' = finished
    BY <1>2 DEF BeginNode, Awaiting, Parsing, InPhase, Parser
  <2>2. PICK kind \in Kinds : new_ast_node(kind)
    BY <1>2 DEF BeginNode
  <2>3. finished \in 0 .. Len(nodes) /\ Null \in 0 .. Len(nodes)
    BY <2>1, FinishedOK DEF Null
  <2> QED BY <2>1, <2>2, <2>3
<1>3. CASE WrapNode
  <2>1. /\ failed = "no" /\ phase = "parse" /\ calls' = <<NewCall(finished)>> \o calls
        /\ phase' = "parse" /\ finished' = Null
    BY <1>3 DEF WrapNode, Awaiting, Parsing, InPhase, Parser
  <2>2. PICK kind \in Kinds : new_ast_node(kind)
    BY <1>3 DEF WrapNode
  <2>3. finished \in 0 .. Len(nodes) /\ Null \in 0 .. Len(nodes)
    BY <2>1, FinishedOK DEF Null
  <2> QED BY <2>1, <2>2, <2>3
<1> QED BY <1>1, <1>2, <1>3

LEMMA NodesKeepTree ==
  ASSUME TreeInv, BuildRoot \/ BeginNode \/ WrapNode
  PROVE  TreeInv'
BY NodeStep, NodeAdded

LEMMA AddLinkKeepsTree ==
  ASSUME TreeInv, AddLink
  PROVE  TreeInv'
<1>1. /\ failed = "no" /\ phase = "parse" /\ calls # <<>> /\ phase' = phase /\ finished' = finished
      /\ Running.list # Null /\ Running.link = Null
      /\ nodes' = nodes /\ attributes' = attributes /\ lists' = lists /\ failed' = failed
      /\ calls' = <<[Running EXCEPT !.link = Len(links) + 1]>> \o Tail(calls)
  BY DEF AddLink, Parsing, InPhase, Parser, NewLink, Update
<1>2. Len(nodes) \in Nat /\ Len(attributes) \in Nat /\ Len(lists) \in Nat /\ Len(links) \in Nat
  BY Lengths DEF TreeInv
<1>3. PICK k : k = [prev |-> Null, next |-> Null, ast |-> Null]
  OBVIOUS
<1>4. k \in LinkRecords /\ k.prev = Null /\ k.next = Null /\ k.ast = Null
  BY <1>3 DEF LinkRecords, Null
<1>5. links' = Append(links, k)
  BY <1>3 DEF AddLink, NewLink
<1>6. /\ links' \in Seq(LinkRecords) /\ Len(links') = Len(links) + 1 /\ links'[Len(links) + 1] = k
      /\ \A m \in 1 .. Len(links) : links'[m] = links[m]
  BY <1>4, <1>5, AppendLast DEF TreeInv, TreeOK, LinksOK
<1>7. NodesOK(nodes', attributes') /\ ErrorNamesOK(nodes', attributes')
  BY <1>1 DEF TreeInv, TreeOK
<1>8. AttributesOK(nodes', attributes', lists', links')
  <2>1. \A type, value : ValueOK(nodes, lists, links, type, value) => ValueOK(nodes, lists, links', type, value)
    BY <1>2, <1>6 DEF ValueOK
  <2>2. AttributesOK(nodes, attributes, lists, links)
    BY DEF TreeInv, TreeOK
  <2> QED BY <1>1, <2>1, <2>2 DEF AttributesOK
<1>9. PointersOK(lists', links')
  <2>1. PointersOK(lists, links)
    BY DEF TreeInv, TreeOK
  <2> QED BY <1>1, <1>2, <1>6, <2>1 DEF PointersOK
<1>10. LinksOK(nodes', links')
  <2>1. LinksOK(nodes, links)
    BY DEF TreeInv, TreeOK
  <2> SUFFICES ASSUME NEW m \in 1 .. Len(links')
               PROVE  links'[m].next \in 0 .. Len(links') /\ links'[m].ast \in 0 .. Len(nodes)
    BY <1>1, <1>6 DEF LinksOK
  <2>2. CASE m = Len(links) + 1
    BY <1>2, <1>4, <1>6, <2>2 DEF Null
  <2>3. CASE m \in 1 .. Len(links)
    BY <1>2, <1>6, <2>1, <2>3 DEF LinksOK
  <2> QED BY <1>2, <1>6, <2>2, <2>3
<1>11. ShapesOK(lists', links')
  <2>1. ShapesOK(lists, links)
    BY <1>1 DEF TreeInv
  <2>2. \A l \in 1 .. Len(lists) : ListOK(lists, links, l) => ListOK(lists, links', l)
    BY <1>2, <1>6 DEF ListOK
  <2> QED BY <1>1, <2>1, <2>2 DEF ShapesOK
<1>12. PICK c : c = [Running EXCEPT !.link = Len(links) + 1]
  OBVIOUS
<1>13. Running = calls[1] /\ Running \in CallRecords /\ CallOK(nodes, lists, links, Running)
  BY <1>1, RunningOK
<1>14. /\ c \in CallRecords /\ c.ast = Running.ast /\ c.step = Running.step /\ c.taken = Running.taken
       /\ c.list = Running.list /\ c.link = Len(links) + 1
  <2>1. Len(links) + 1 \in Nat
    BY <1>2
  <2> QED BY <1>12, <1>13, <2>1, CallWithLink
<1>15. CallOK(nodes', lists', links', c)
  <2>1. RuleOf(nodes, c) = RuleOf(nodes, Running)
    BY <1>14 DEF RuleOf
  <2>2. c.link \in 0 .. Len(links') /\ links'[c.link].prev = Null /\ links'[c.link].next = Null
    BY <1>2, <1>4, <1>6, <1>14
  <2> QED BY <1>1, <1>13, <1>14, <2>1, <2>2 DEF CallOK
<1>16. CallsOK(nodes, lists, links, calls)
  BY DEF TreeInv
<1>17. ASSUME NEW i \in 2 .. Len(calls)
       PROVE  CallOK(nodes', lists', links', calls[i]) /\ calls[i].link # c.link
  <2>1. calls[i] \in CallRecords /\ CallOK(nodes, lists, links, calls[i])
    BY <1>16 DEF CallsOK
  <2>2. calls[i].link \in 0 .. Len(links)
    BY <2>1 DEF CallOK
  <2>3. ASSUME calls[i].link # Null
        PROVE  links'[calls[i].link].prev = Null /\ links'[calls[i].link].next = Null
    <3>1. links[calls[i].link].prev = Null /\ links[calls[i].link].next = Null
      BY <2>1, <2>3 DEF CallOK
    <3>2. PICK m \in 1 .. Len(links) : m = calls[i].link
      BY <1>2, <2>2, <2>3 DEF Null
    <3>3. links'[m] = links[m]
      BY <1>6
    <3> QED BY <3>1, <3>2, <3>3
  <2>4. CallOK(nodes', lists', links', calls[i])
    BY <1>1, <1>2, <1>6, <2>1, <2>3, CallStays
  <2> QED BY <1>2, <1>14, <2>2, <2>4
<1>18. CallsOK(nodes', lists', links', calls')
  BY <1>1, <1>12, <1>13, <1>14, <1>15, <1>16, <1>17, CallsUpdated
<1>19. failed' = "no" /\ phase' = "parse" /\ finished' \in 0 .. Len(nodes')
  BY <1>1, FinishedOK
<1>20. OnlyKnownAsserts'
  BY <1>19 DEF OnlyKnownAsserts
<1> QED BY <1>7, <1>8, <1>9, <1>10, <1>11, <1>18, <1>19, <1>20, TreeInvPrimed

LEMMA EndNodeKeepsTree ==
  ASSUME TreeInv, EndNode
  PROVE  TreeInv'
<1>1. /\ failed = "no" /\ phase = "parse" /\ calls # <<>> /\ phase' = phase /\ failed' = failed
      /\ finished' = Running.ast /\ calls' = Tail(calls)
      /\ nodes' = nodes /\ attributes' = attributes /\ lists' = lists /\ links' = links
  BY DEF EndNode, Parsing, InPhase, Parser, treeVars
<1>2. CallsOK(nodes', lists', links', calls')
  BY <1>1, CallsDropped DEF TreeInv
<1>3. finished' \in 0 .. Len(nodes')
  BY <1>1, RunningOK
<1>4. OnlyKnownAsserts'
  BY <1>1 DEF OnlyKnownAsserts
<1> QED BY <1>1, <1>2, <1>3, <1>4, TreeInvPrimed DEF TreeInv, TreeOK

-----------------------------------------------------------------------------
(* A list header: cleared, or for a tuple what its page held before, and what *)
(* ast_list_init makes of it.                                                *)
LEMMA HeaderMade ==
  ASSUME TreeInv, NewListHeader
  PROVE  /\ nodes' = nodes /\ attributes' = attributes /\ links' = links
         /\ \E x \in ListRecords :
              /\ lists' = Append(lists, x)
              /\ x.head \in {Null, Stale, -(Len(lists) + 1)} /\ x.tail \in {Null, Stale, -(Len(lists) + 1)}
              /\ x.next \in {Null, Stale}
              /\ failed' = "no" => x.head = -(Len(lists) + 1) /\ x.tail = -(Len(lists) + 1)
              /\ failed' # "no" => x.head # -(Len(lists) + 1)
              /\ failed' \in {"no", "list->head == 0", "list->tail == 0"}
              /\ Doing.from # "tuple" => x.next = Null /\ failed' = "no"
<1>1. /\ Doing.from \in {"decls", "list", "tuple"} /\ Running.list = Null
  BY DEF NewListHeader, AtStep
<1>2. Len(nodes) \in Nat /\ Len(attributes) \in Nat /\ Len(lists) \in Nat /\ Len(links) \in Nat
  BY Lengths DEF TreeInv
<1>3. PICK list : /\ list \in IF Doing.from = "tuple" THEN HalfCleared(mem'.reused["ast"]) ELSE {ClearedList}
                  /\ ast_list_init(list)
  BY DEF NewListHeader
<1>4. /\ list \in [head : {Null, Stale}, tail : {Null, Stale}, next : {Null, Stale}, link_count : {Null, Stale}]
      /\ Doing.from # "tuple" => list = ClearedList
  <2>1. CASE Doing.from = "tuple"
    <3>1. HalfCleared(mem'.reused["ast"]) \subseteq
            [head : {Null, Stale}, tail : {Null, Stale}, next : {Null, Stale}, link_count : {Null, Stale}]
      BY DEF HalfCleared
    <3> QED BY <1>3, <2>1, <3>1
  <2>2. CASE Doing.from # "tuple"
    BY <1>3, <2>2 DEF ClearedList, Null
  <2> QED BY <2>1, <2>2
<1>5. PICK l : l = Len(lists) + 1
  OBVIOUS
<1>6. PICK x : /\ lists' = Append(lists, x) /\ x \in ListRecords
               /\ x.head \in {Null, Stale, -l} /\ x.tail \in {Null, Stale, -l} /\ x.next \in {Null, Stale}
               /\ failed' = "no" => x.head = -l /\ x.tail = -l
               /\ failed' # "no" => x.head # -l
               /\ failed' \in {"no", "list->head == 0", "list->tail == 0"}
               /\ Doing.from # "tuple" => x.next = Null /\ failed' = "no"
  <2>1. PICK h, t, n, c : /\ list = [head |-> h, tail |-> t, next |-> n, link_count |-> c]
                          /\ {h, t, n, c} \subseteq {0, Stale}
                          /\ Doing.from # "tuple" => h = 0 /\ t = 0 /\ n = 0
    BY <1>4 DEF ClearedList, Null
  <2>2. CASE h # 0 \/ t # 0
    <3>1. failed' \in {"list->head == 0", "list->tail == 0"} /\ lists' = Append(lists, list)
      BY <1>3, <2>1, <2>2 DEF ast_list_init, Null
    <3>2. list \in ListRecords
      BY <2>1 DEF ListRecords, Stale
    <3>3. list.head # -l
      BY <1>2, <1>5, <2>1 DEF Stale
    <3> QED BY <2>1, <2>2, <3>1, <3>2, <3>3 DEF Null
  <2>3. CASE h = 0 /\ t = 0
    <3>1. failed' = "no" /\ lists' = Append(lists, [list EXCEPT !.head = -l, !.tail = -l])
      BY <1>3, <1>5, <2>1, <2>3 DEF ast_list_init, Null
    <3>2. list \in ListRecords /\ -l \in Int
      BY <1>2, <1>5, <2>1 DEF ListRecords, Stale
    <3>3. PICK y \in Int : y = -l
      BY <3>2
    <3>4. PICK x : x = [list EXCEPT !.head = y, !.tail = y]
      OBVIOUS
    <3>5. /\ x \in ListRecords /\ x.head = y /\ x.tail = y
          /\ x.next = list.next /\ x.link_count = list.link_count
      BY <3>2, <3>4 DEF ListRecords
    <3> QED BY <2>1, <3>1, <3>3, <3>4, <3>5 DEF Null
  <2> QED BY <2>1, <2>2, <2>3
<1>7. nodes' = nodes /\ attributes' = attributes /\ links' = links
  BY <1>3 DEF ast_list_init
<1> QED BY <1>5, <1>6, <1>7

LEMMA HeaderKeepsTree ==
  ASSUME TreeInv, NewListHeader
  PROVE  TreeInv'
<1>1. /\ failed = "no" /\ phase = "parse" /\ calls # <<>> /\ phase' = phase /\ finished' = finished
      /\ Parsing /\ InRule /\ Doing.from \in {"decls", "list", "tuple"} /\ Running.list = Null
      /\ calls' = <<[Running EXCEPT !.list = Len(lists) + 1]>> \o Tail(calls)
  BY DEF NewListHeader, AtStep, Parsing, InPhase, Parser, Update
<1>2. Len(nodes) \in Nat /\ Len(attributes) \in Nat /\ Len(lists) \in Nat /\ Len(links) \in Nat
  BY Lengths DEF TreeInv
<1>5. PICK l : l = Len(lists) + 1
  OBVIOUS
<1>6. PICK x : /\ lists' = Append(lists, x) /\ x \in ListRecords
               /\ x.head \in {Null, Stale, -l} /\ x.tail \in {Null, Stale, -l} /\ x.next \in {Null, Stale}
               /\ failed' = "no" => x.head = -l /\ x.tail = -l
               /\ failed' \in {"no", "list->head == 0", "list->tail == 0"}
               /\ Doing.from # "tuple" => x.next = Null /\ failed' = "no"
  BY <1>5, HeaderMade
<1>7. nodes' = nodes /\ attributes' = attributes /\ links' = links
  BY HeaderMade
<1>8. /\ lists' \in Seq(ListRecords) /\ Len(lists') = l /\ lists'[l] = x
      /\ \A m \in 1 .. Len(lists) : lists'[m] = lists[m]
  <2>1. lists \in Seq(ListRecords)
    BY DEF TreeInv, TreeOK, PointersOK
  <2>2. lists' = Append(lists, x) /\ x \in ListRecords
    BY <1>6
  <2>3. /\ Append(lists, x) \in Seq(ListRecords) /\ Len(Append(lists, x)) = Len(lists) + 1
        /\ Append(lists, x)[Len(lists) + 1] = x
        /\ \A m \in 1 .. Len(lists) : Append(lists, x)[m] = lists[m]
    BY <2>1, <2>2, AppendLast
  <2> QED BY <1>5, <2>2, <2>3
<1>9. NodesOK(nodes', attributes') /\ LinksOK(nodes', links')
  BY <1>7 DEF TreeInv, TreeOK
<1>10. AttributesOK(nodes', attributes', lists', links')
  <2>1. \A type, value : ValueOK(nodes, lists, links, type, value) => ValueOK(nodes, lists', links, type, value)
    BY <1>2, <1>5, <1>8 DEF ValueOK
  <2>2. AttributesOK(nodes, attributes, lists, links)
    BY DEF TreeInv, TreeOK
  <2> QED BY <1>7, <2>1, <2>2 DEF AttributesOK
<1>11. PointersOK(lists', links')
  <2>1. PointersOK(lists, links)
    BY DEF TreeInv, TreeOK
  <2> SUFFICES ASSUME NEW m \in 1 .. Len(lists')
               PROVE  /\ lists'[m].head \in {Null, Stale, -m} \cup 1 .. Len(links)
                      /\ lists'[m].tail \in {Null, Stale, -m} \cup 1 .. Len(links)
                      /\ lists'[m].next \in {Null, Stale, -m} \cup 1 .. Len(links)
    BY <1>7, <1>8 DEF PointersOK
  <2>2. CASE m = l
    BY <1>6, <1>8, <2>2
  <2>3. CASE m \in 1 .. Len(lists)
    BY <1>8, <2>1, <2>3 DEF PointersOK
  <2> QED BY <1>2, <1>5, <1>8, <2>2, <2>3
<1>12. ASSUME failed' = "no" PROVE ShapesOK(lists', links')
  <2>1. \A m \in 1 .. Len(lists) : ListOK(lists, links, m)
    BY <1>1 DEF TreeInv, ShapesOK
  <2>2. \A m, n \in 1 .. Len(lists) : lists[m].tail = lists[n].tail => m = n
    BY <1>1 DEF TreeInv, ShapesOK
  <2>3. ASSUME NEW m \in 1 .. Len(lists') PROVE ListOK(lists', links', m)
    <3>1. CASE m = l
      BY <1>6, <1>8, <1>12, <3>1 DEF ListOK
    <3>2. CASE m \in 1 .. Len(lists)
      BY <1>7, <1>8, <2>1, <3>2 DEF ListOK
    <3> QED BY <1>2, <1>5, <1>8, <3>1, <3>2
  <2>4. \A m \in 1 .. Len(lists) : lists[m].tail # -l
    BY <1>2, <1>5, <2>1 DEF ListOK
  <2>5. \A m, n \in 1 .. Len(lists') : lists'[m].tail = lists'[n].tail => m = n
    <3> SUFFICES ASSUME NEW m \in 1 .. Len(lists'), NEW n \in 1 .. Len(lists'),
                        lists'[m].tail = lists'[n].tail, m # n
                 PROVE  FALSE
      OBVIOUS
    <3>1. CASE m = l
      BY <1>2, <1>5, <1>6, <1>8, <1>12, <2>4, <3>1
    <3>2. CASE n = l
      BY <1>2, <1>5, <1>6, <1>8, <1>12, <2>4, <3>2
    <3>3. CASE m # l /\ n # l
      BY <1>2, <1>5, <1>8, <2>2, <3>3
    <3> QED BY <3>1, <3>2, <3>3
  <2> QED BY <2>3, <2>5 DEF ShapesOK
<1>13. ErrorNamesOK(nodes', attributes')
  BY <1>1, <1>7 DEF TreeInv
<1>14. PICK c : c = [Running EXCEPT !.list = l]
  OBVIOUS
<1>15. /\ Running = calls[1] /\ Running \in CallRecords /\ CallOK(nodes, lists, links, Running)
       /\ Rule = RuleOf(nodes, Running) /\ Running.step \in 1 .. Len(Rule)
  BY <1>1, RunningOK
<1>16. /\ c \in CallRecords /\ c.ast = Running.ast /\ c.step = Running.step /\ c.taken = Running.taken
       /\ c.list = l /\ c.link = Null
  <2>1. l \in Nat
    BY <1>2, <1>5
  <2>2. Running.link = Null
    BY <1>1, StepPrepared
  <2> QED BY <1>14, <1>15, <2>1, <2>2, CallWithList
<1>17. CallOK(nodes', lists', links', c)
  <2>1. RuleOf(nodes, c) = Rule
    BY <1>15, <1>16 DEF RuleOf
  <2>2. c.step <= Len(Rule) /\ Rule[c.step].from = Doing.from
    BY <1>15, <1>16 DEF Doing
  <2>3. Doing.from # "tuple" /\ lists'[c.list].tail = -c.list => lists'[c.list].next = Null
    BY <1>6, <1>8, <1>16
  <2>4. c.list \in 0 .. Len(lists')
    BY <1>2, <1>5, <1>8, <1>16
  <2>5. /\ c.ast \in 1 .. Len(nodes) /\ c.taken \in 0 .. Len(nodes) /\ c.link \in 0 .. Len(links)
        /\ nodes[c.ast].attr_count < c.step
    BY <1>2, <1>15, <1>16 DEF CallOK, Null
  <2> QED BY <1>1, <1>7, <1>16, <2>1, <2>2, <2>3, <2>4, <2>5 DEF CallOK
<1>18. CallsOK(nodes, lists, links, calls)
  BY DEF TreeInv
<1>19. ASSUME NEW i \in 2 .. Len(calls)
       PROVE  CallOK(nodes', lists', links', calls[i])
  <2>1. calls[i] \in CallRecords /\ CallOK(nodes, lists, links, calls[i])
    BY <1>18 DEF CallsOK
  <2>2. calls[i].list # Null => lists'[calls[i].list] = lists[calls[i].list]
    BY <1>2, <1>8, <2>1 DEF CallOK, Null
  <2>3. calls[i].link # Null => links'[calls[i].link].prev = Null /\ links'[calls[i].link].next = Null
    BY <1>7, <2>1 DEF CallOK
  <2>4. Len(lists') \in Nat /\ Len(lists) <= Len(lists')
    BY <1>2, <1>5, <1>8
  <2> QED BY <1>2, <1>7, <2>1, <2>2, <2>3, <2>4, CallStays
<1>20. CallsOK(nodes', lists', links', calls')
  BY <1>1, <1>5, <1>14, <1>15, <1>16, <1>17, <1>18, <1>19, CallsUpdated
<1>21. phase' = "parse" /\ finished' \in 0 .. Len(nodes')
  BY <1>1, <1>7, FinishedOK
<1>22. OnlyKnownAsserts'
  <2>1. CASE failed' = "no"
    BY <2>1 DEF OnlyKnownAsserts
  <2>2. CASE failed' # "no"
    <3>1. Doing.from = "tuple" /\ failed' \in ListAsserts
      BY <1>6, <2>2 DEF ListAsserts
    <3>2. Running' = c
      <4>1. calls \in Seq(CallRecords)
        BY <1>18 DEF CallsOK
      <4>2. Head(<<c>> \o Tail(calls)) = c
        BY <1>1, <1>16, <4>1, ReplaceFirst, DropFirst
      <4> QED BY <1>1, <1>5, <1>14, <4>2 DEF Running
    <3>3. Doing' = Doing
      BY <1>7, <1>16, <3>2 DEF Doing, Rule
    <3> QED BY <3>1, <3>3 DEF OnlyKnownAsserts
  <2> QED BY <2>1, <2>2
<1> QED BY <1>9, <1>10, <1>11, <1>12, <1>13, <1>20, <1>21, <1>22, TreeInvPrimed

(* Link k, with node n, is now the last of list l, after tail. *)
HungLast(l, k, n, tail) ==
  /\ links' \in Seq(LinkRecords) /\ Len(links') = Len(links)
  /\ links'[k].prev = tail /\ links'[k].next = links[k].next /\ links'[k].ast = n
  /\ tail > 0 => /\ links'[tail].prev = links[tail].prev /\ links'[tail].next = k
                 /\ links'[tail].ast = links[tail].ast
  /\ \A m \in 1 .. Len(links) : m # k /\ m # tail => links'[m] = links[m]
  /\ lists' \in Seq(ListRecords) /\ Len(lists') = Len(lists)
  /\ lists'[l].head = lists[l].head /\ lists'[l].tail = k
  /\ lists'[l].link_count = lists[l].link_count + 1
  /\ lists'[l].next = IF tail > 0 THEN lists[l].next ELSE k
  /\ \A m \in 1 .. Len(lists) : m # l => lists'[m] = lists[m]

(* ast_list_append_link behind its assertions: the link becomes the last one. *)
LEMMA LinkHung ==
  ASSUME links \in Seq(LinkRecords), lists \in Seq(ListRecords), NEW l \in 1 .. Len(lists),
         NEW k \in 1 .. Len(links), NEW n \in Nat, NEW tail, tail = lists[l].tail,
         tail = -l \/ tail \in 1 .. Len(links), tail # k, Linked(l, k, n)
  PROVE  HungLast(l, k, n, tail)
<1>1. /\ Len(links) \in Nat /\ Len(lists) \in Nat /\ links[k] \in LinkRecords /\ lists[l] \in ListRecords
      /\ k \in Int /\ l \in Int /\ tail \in Int
  OBVIOUS
<1>2. PICK x : x = [links[k] EXCEPT !.prev = tail, !.ast = n]
  OBVIOUS
<1>3. x \in LinkRecords /\ x.prev = tail /\ x.next = links[k].next /\ x.ast = n
  <2>1. PICK r \in LinkRecords : r = links[k]
    BY <1>1
  <2>2. PICK t \in Int : t = tail
    BY <1>1
  <2>3. x = [r EXCEPT !.prev = t, !.ast = n]
    BY <1>2, <2>1, <2>2
  <2>4. PICK a \in Int : a = n
    OBVIOUS
  <2>5. x = [r EXCEPT !.prev = t, !.ast = a]
    BY <2>3, <2>4
  <2>6. x \in LinkRecords
    BY ONLY <2>5 DEF LinkRecords
  <2>7. x.prev = t /\ x.next = r.next /\ x.ast = a
    BY ONLY <2>5 DEF LinkRecords
  <2> QED BY <2>1, <2>2, <2>4, <2>6, <2>7
<1>4. PICK hung : hung = [links EXCEPT ![k].prev = tail, ![k].ast = n]
  OBVIOUS
<1>5. hung = [links EXCEPT ![k] = x]
  BY <1>1, <1>2, <1>4
<1>6. /\ hung \in Seq(LinkRecords) /\ Len(hung) = Len(links) /\ hung[k] = x
      /\ \A m \in 1 .. Len(links) : m # k => hung[m] = links[m]
  BY <1>1, <1>3, <1>5
<1>7. links' = IF tail > 0 THEN [hung EXCEPT ![tail].next = k] ELSE hung
  BY <1>4 DEF Linked
<1>8. /\ links' \in Seq(LinkRecords) /\ Len(links') = Len(links) /\ links'[k] = x
      /\ tail > 0 => /\ links'[tail].prev = links[tail].prev /\ links'[tail].next = k
                     /\ links'[tail].ast = links[tail].ast
      /\ \A m \in 1 .. Len(links) : m # k /\ m # tail => links'[m] = links[m]
  <2>1. CASE tail > 0
    <3>1. tail \in 1 .. Len(links) /\ hung[tail] = links[tail] /\ links[tail] \in LinkRecords
      BY <1>1, <1>6, <2>1
    <3>2. PICK y : y = [links[tail] EXCEPT !.next = k]
      OBVIOUS
    <3>3. y \in LinkRecords /\ y.prev = links[tail].prev /\ y.next = k /\ y.ast = links[tail].ast
      BY <1>1, <3>1, <3>2 DEF LinkRecords
    <3>4. links' = [hung EXCEPT ![tail] = y]
      BY <1>6, <1>7, <2>1, <3>1, <3>2
    <3>5. /\ links' \in Seq(LinkRecords) /\ Len(links') = Len(links) /\ links'[tail] = y
          /\ \A m \in 1 .. Len(links) : m # tail => links'[m] = hung[m]
      BY <1>6, <3>1, <3>3, <3>4
    <3> QED BY <1>6, <3>3, <3>5
  <2>2. CASE ~(tail > 0)
    BY <1>6, <1>7, <2>2
  <2> QED BY <2>1, <2>2
<1>9. PICK z : z = [lists[l] EXCEPT !.tail = k, !.link_count = @ + 1, !.next = IF tail > 0 THEN @ ELSE k]
  OBVIOUS
<1>10. /\ z \in ListRecords /\ z.head = lists[l].head /\ z.tail = k /\ z.link_count = lists[l].link_count + 1
       /\ z.next = IF tail > 0 THEN lists[l].next ELSE k
  <2>1. PICK r \in ListRecords : r = lists[l]
    BY <1>1
  <2>2. r.next \in Int /\ r.link_count \in Nat
    BY DEF ListRecords
  <2>3. PICK y \in Int : y = IF tail > 0 THEN r.next ELSE k
    BY <1>1, <2>2
  <2>4. PICK c \in Nat : c = r.link_count + 1
    BY <2>2
  <2>5. z = [r EXCEPT !.tail = k, !.link_count = c, !.next = y]
    BY <1>9, <2>1, <2>3, <2>4
  <2>6. PICK t \in Int : t = k
    OBVIOUS
  <2>7. z = [r EXCEPT !.tail = t, !.link_count = c, !.next = y]
    BY <2>5, <2>6
  <2>8. z \in ListRecords
    BY ONLY <2>7 DEF ListRecords
  <2>9. z.head = r.head /\ z.tail = t /\ z.link_count = c /\ z.next = y
    BY ONLY <2>7 DEF ListRecords
  <2> QED BY <2>1, <2>3, <2>4, <2>6, <2>8, <2>9
<1>11. lists' = [lists EXCEPT ![l] = z]
  BY <1>1, <1>9 DEF Linked
<1>12. /\ lists' \in Seq(ListRecords) /\ Len(lists') = Len(lists) /\ lists'[l] = z
       /\ \A m \in 1 .. Len(lists) : m # l => lists'[m] = lists[m]
  BY <1>1, <1>10, <1>11
<1> QED BY <1>3, <1>8, <1>10, <1>12 DEF HungLast

LEMMA AppendKeepsTree ==
  ASSUME TreeInv, AppendElement
  PROVE  TreeInv'
<1>1. /\ failed = "no" /\ phase = "parse" /\ calls # <<>> /\ phase' = phase /\ finished' = Null
      /\ Running.link # Null /\ finished # Null
      /\ calls' = <<[Running EXCEPT !.link = Null]>> \o Tail(calls)
      /\ nodes' = nodes /\ attributes' = attributes
      /\ ast_list_append_link(Running.list, Running.link, finished)
  BY DEF AppendElement, Parsing, InPhase, Parser, Update, ast_list_append_link
<1>2. Len(nodes) \in Nat /\ Len(attributes) \in Nat /\ Len(lists) \in Nat /\ Len(links) \in Nat
  BY Lengths DEF TreeInv
<1>3. /\ Running = calls[1] /\ Running \in CallRecords /\ CallOK(nodes, lists, links, Running)
      /\ Rule = RuleOf(nodes, Running)
  BY <1>1, RunningOK
<1>4. PICK l \in 1 .. Len(lists) : l = Running.list
  BY <1>1, <1>2, <1>3 DEF CallOK, Null
<1>5. PICK k \in 1 .. Len(links) : k = Running.link /\ links[k].prev = Null /\ links[k].next = Null
  BY <1>1, <1>2, <1>3 DEF CallOK, Null
<1>6. PICK n \in Nat : n = finished /\ n \in 0 .. Len(nodes)
  BY <1>1, FinishedOK
<1>7. /\ RuleOf(nodes, Running)[Running.step].from = Doing.from
      /\ Doing.from # "tuple" /\ lists[l].tail = -l => lists[l].next = Null
  BY <1>1, <1>3, <1>4 DEF CallOK, Null, Doing
<1>8. /\ links \in Seq(LinkRecords) /\ lists \in Seq(ListRecords) /\ lists[l] \in ListRecords
      /\ lists[l].tail \in Int
  <2>1. links \in Seq(LinkRecords) /\ lists \in Seq(ListRecords)
    BY DEF TreeInv, TreeOK, LinksOK, PointersOK
  <2>2. lists[l] \in ListRecords
    BY <2>1
  <2> QED BY <2>1, <2>2 DEF ListRecords
<1>9. PICK tail \in Int : tail = lists[l].tail
  BY <1>8
<1>10. /\ \A m \in 1 .. Len(lists) : ListOK(lists, links, m)
       /\ \A m, p \in 1 .. Len(lists) : lists[m].tail = lists[p].tail => m = p
  BY <1>1 DEF TreeInv, ShapesOK
<1>11. /\ \/ tail = -l
          \/ /\ tail \in 1 .. Len(links) /\ links[tail].next = Null /\ links[tail].prev # Null
             /\ lists[l].next \in 1 .. Len(links)
       /\ tail # k
  BY <1>2, <1>5, <1>9, <1>10 DEF ListOK
<1>12. PICK c : c = [Running EXCEPT !.link = Null]
  OBVIOUS
<1>13. /\ c \in CallRecords /\ c.ast = Running.ast /\ c.step = Running.step /\ c.taken = Running.taken
       /\ c.list = l /\ c.link = Null
  BY <1>3, <1>4, <1>12, CallWithLink DEF Null
<1>14. CallsOK(nodes, lists, links, calls) /\ calls \in Seq(CallRecords)
  BY DEF TreeInv, CallsOK
<1>15. Doing' = Doing
  <2>1. Head(<<c>> \o Tail(calls)) = c
    BY <1>1, <1>13, <1>14, ReplaceFirst, DropFirst
  <2>2. Running' = c
    BY <1>1, <1>12, <2>1 DEF Running
  <2> QED BY <1>1, <1>13, <2>2 DEF Doing, Rule
<1>16. phase' = "parse" /\ finished' \in 0 .. Len(nodes')
  BY <1>1, <1>2 DEF Null
<1>17. PointersOK(lists, links) /\ LinksOK(nodes, links) /\ AttributesOK(nodes, attributes, lists, links)
  BY DEF TreeInv, TreeOK
<1>18. CASE NextOf(lists[l].tail) = Null /\ links[k].prev = Null /\ Linked(l, k, n) /\ UNCHANGED failed
  <2>1. /\ links' \in Seq(LinkRecords) /\ Len(links') = Len(links)
        /\ links'[k].prev = tail /\ links'[k].next = links[k].next /\ links'[k].ast = n
        /\ tail > 0 => /\ links'[tail].prev = links[tail].prev /\ links'[tail].next = k
                       /\ links'[tail].ast = links[tail].ast
        /\ \A m \in 1 .. Len(links) : m # k /\ m # tail => links'[m] = links[m]
        /\ lists' \in Seq(ListRecords) /\ Len(lists') = Len(lists)
        /\ lists'[l].head = lists[l].head /\ lists'[l].tail = k
        /\ lists'[l].link_count = lists[l].link_count + 1
        /\ lists'[l].next = IF tail > 0 THEN lists[l].next ELSE k
        /\ \A m \in 1 .. Len(lists) : m # l => lists'[m] = lists[m]
    <3>1. HungLast(l, k, n, tail)
      BY <1>8, <1>9, <1>11, <1>18, LinkHung
    <3> QED BY <3>1 DEF HungLast
  <2>2. tail > 0 <=> tail \in 1 .. Len(links)
    BY <1>2, <1>11
  <2>3. lists'[l].next \in 1 .. Len(links) /\ lists'[l].head = -l
    BY <1>2, <1>10, <1>11, <2>1, <2>2 DEF ListOK
  <2>4. NodesOK(nodes', attributes') /\ ErrorNamesOK(nodes', attributes')
    BY <1>1 DEF TreeInv, TreeOK
  <2>5. AttributesOK(nodes', attributes', lists', links')
    <3>1. ASSUME NEW type, NEW value, ValueOK(nodes, lists, links, type, value)
          PROVE  ValueOK(nodes, lists', links', type, value)
      <4>1. ASSUME NEW v \in 1 .. Len(lists), lists[v].next \in 0 .. Len(links)
            PROVE  lists'[v].next \in 0 .. Len(links')
        BY <1>2, <2>1, <2>3, <4>1
      <4> QED BY <2>1, <3>1, <4>1 DEF ValueOK
    <3> QED BY <1>1, <1>17, <3>1 DEF AttributesOK
  <2>6. PointersOK(lists', links')
    <3> SUFFICES ASSUME NEW m \in 1 .. Len(lists')
                 PROVE  /\ lists'[m].head \in {Null, Stale, -m} \cup 1 .. Len(links')
                        /\ lists'[m].tail \in {Null, Stale, -m} \cup 1 .. Len(links')
                        /\ lists'[m].next \in {Null, Stale, -m} \cup 1 .. Len(links')
      BY <2>1 DEF PointersOK
    <3>1. CASE m = l
      BY <2>1, <2>3, <3>1
    <3>2. CASE m # l
      BY <1>17, <2>1, <3>2 DEF PointersOK
    <3> QED BY <3>1, <3>2
  <2>7. LinksOK(nodes', links')
    <3> SUFFICES ASSUME NEW m \in 1 .. Len(links')
                 PROVE  links'[m].next \in 0 .. Len(links') /\ links'[m].ast \in 0 .. Len(nodes')
      BY <2>1 DEF LinksOK
    <3>1. links[m].next \in 0 .. Len(links) /\ links[m].ast \in 0 .. Len(nodes)
      BY <1>17, <2>1 DEF LinksOK
    <3>2. CASE m = k
      BY <1>1, <1>2, <1>5, <1>6, <2>1, <3>2 DEF Null
    <3>3. CASE m = tail
      BY <1>1, <1>2, <2>1, <3>1, <3>3
    <3>4. CASE m # k /\ m # tail
      BY <1>1, <2>1, <3>1, <3>4
    <3> QED BY <3>2, <3>3, <3>4
  <2>8. ShapesOK(lists', links')
    <3>1. ASSUME NEW m \in 1 .. Len(lists') PROVE ListOK(lists', links', m)
      <4>1. CASE m = l
        <5>1. lists'[m].head = -m /\ lists'[m].tail \in 1 .. Len(links') /\ lists'[m].next \in 1 .. Len(links')
          BY <2>1, <2>3, <4>1
        <5>2. links'[lists'[m].tail].next = Null /\ links'[lists'[m].tail].prev # Null
          BY <1>5, <1>11, <2>1, <4>1 DEF Null
        <5> QED BY <5>1, <5>2 DEF ListOK
      <4>2. CASE m # l
        <5>1. lists'[m] = lists[m] /\ ListOK(lists, links, m) /\ m \in 1 .. Len(lists)
          BY <1>10, <2>1, <4>2
        <5>2. lists[m].tail # tail
          BY <1>9, <1>10, <4>2, <5>1
        <5>3. CASE lists[m].tail = -m
          BY <5>1, <5>3 DEF ListOK
        <5>4. CASE /\ lists[m].tail \in 1 .. Len(links) /\ lists[m].next \in 1 .. Len(links)
                   /\ links[lists[m].tail].next = Null /\ links[lists[m].tail].prev # Null
          <6>1. lists[m].tail # k
            BY <1>5, <5>4
          <6>2. links'[lists[m].tail] = links[lists[m].tail]
            BY <2>1, <5>2, <5>4, <6>1
          <6> QED BY <2>1, <5>1, <5>4, <6>2 DEF ListOK
        <5> QED BY <5>1, <5>3, <5>4 DEF ListOK
      <4> QED BY <4>1, <4>2
    <3>2. \A m \in 1 .. Len(lists) : lists[m].tail # k
      BY <1>2, <1>5, <1>10 DEF ListOK
    <3>3. \A m, p \in 1 .. Len(lists') : lists'[m].tail = lists'[p].tail => m = p
      <4> SUFFICES ASSUME NEW m \in 1 .. Len(lists), NEW p \in 1 .. Len(lists),
                          lists'[m].tail = lists'[p].tail, m # p
                   PROVE  FALSE
        BY <2>1
      <4>1. CASE m = l
        BY <2>1, <3>2, <4>1
      <4>2. CASE p = l
        BY <2>1, <3>2, <4>2
      <4>3. CASE m # l /\ p # l
        BY <1>10, <2>1, <4>3
      <4> QED BY <4>1, <4>2, <4>3
    <3> QED BY <3>1, <3>3 DEF ShapesOK
  <2>9. CallOK(nodes', lists', links', c)
    <3>1. RuleOf(nodes, c) = RuleOf(nodes, Running)
      BY <1>13 DEF RuleOf
    <3>2. lists'[c.list].tail # -c.list /\ c.list \in 0 .. Len(lists') /\ c.link \in 0 .. Len(links')
      BY <1>2, <1>13, <2>1 DEF Null
    <3>3. c.list # Null
      BY <1>13 DEF Null
    <3>4. /\ c.ast \in 1 .. Len(nodes) /\ c.taken \in 0 .. Len(nodes) /\ nodes[c.ast].attr_count < c.step
          /\ c.step <= Len(RuleOf(nodes, c))
          /\ RuleOf(nodes, c)[c.step].from \in {"decls", "list", "tuple"}
      BY <1>3, <1>4, <1>13, <3>1, <3>3 DEF CallOK
    <3> QED BY <1>1, <1>13, <3>2, <3>4 DEF CallOK
  <2>10. ASSUME NEW i \in 2 .. Len(calls) PROVE CallOK(nodes', lists', links', calls[i])
    <3>1. /\ calls[i] \in CallRecords /\ CallOK(nodes, lists, links, calls[i])
          /\ calls[i].link # k \/ calls[i].link = Null
      BY <1>3, <1>5, <1>14 DEF CallsOK
    <3>2. calls[i].list # Null =>
            lists'[calls[i].list] = lists[calls[i].list] \/ lists'[calls[i].list].tail # -calls[i].list
      <4>1. calls[i].list \in 0 .. Len(lists)
        BY <3>1 DEF CallOK
      <4>2. CASE calls[i].list = l
        <5>1. lists'[l].tail # -l
          BY <1>2, <2>1
        <5> QED BY <4>2, <5>1
      <4>3. CASE calls[i].list # l
        BY <1>2, <2>1, <4>1, <4>3 DEF Null
      <4> QED BY <4>2, <4>3
    <3>3. calls[i].link # Null => links'[calls[i].link].prev = Null /\ links'[calls[i].link].next = Null
      <4> SUFFICES ASSUME calls[i].link # Null
                   PROVE  links'[calls[i].link].prev = Null /\ links'[calls[i].link].next = Null
        OBVIOUS
      <4>1. /\ calls[i].link \in 1 .. Len(links)
            /\ links[calls[i].link].prev = Null /\ links[calls[i].link].next = Null
        BY <1>2, <3>1 DEF CallOK, Null
      <4>2. calls[i].link # k /\ calls[i].link # tail
        BY <1>2, <1>11, <3>1, <4>1
      <4> QED BY <2>1, <4>1, <4>2
    <3>4. Len(lists') \in Nat /\ Len(links') \in Nat /\ Len(lists) <= Len(lists') /\ Len(links) <= Len(links')
      BY <1>2, <2>1
    <3> QED BY <1>1, <1>2, <3>1, <3>2, <3>3, <3>4, CallStays
  <2>11. CallsOK(nodes', lists', links', calls')
    BY <1>1, <1>3, <1>12, <1>13, <1>14, <2>9, <2>10, CallsUpdated
  <2>12. failed' = "no" /\ OnlyKnownAsserts'
    BY <1>1, <1>18 DEF OnlyKnownAsserts
  <2> QED BY <1>16, <2>4, <2>5, <2>6, <2>7, <2>8, <2>11, <2>12, TreeInvPrimed
<1>19. CASE /\ NextOf(lists[l].tail) # Null /\ failed' = "list->tail->next == 0"
            /\ UNCHANGED <<lists, links>>
  <2>1. tail = -l
    <3>1. tail \in 1 .. Len(links) => NextOf(tail) = Null
      BY <1>2, <1>11 DEF NextOf
    <3> QED BY <1>9, <1>11, <1>19, <3>1
  <2>2. NextOf(tail) = lists[l].next
    <3>1. ~(tail > 0) /\ -tail = l
      BY <1>2, <2>1
    <3> QED BY <3>1 DEF NextOf
  <2>3. Doing.from = "tuple"
    BY <1>7, <1>9, <1>19, <2>1, <2>2
  <2>4. OnlyKnownAsserts'
    BY <1>15, <1>19, <2>3 DEF OnlyKnownAsserts, ListAsserts
  <2>5. CallOK(nodes, lists, links, c)
    <3>1. RuleOf(nodes, c) = RuleOf(nodes, Running)
      BY <1>13 DEF RuleOf
    <3>2. c.link \in 0 .. Len(links)
      BY <1>2, <1>13 DEF Null
    <3> QED BY <1>3, <1>4, <1>13, <3>1, <3>2 DEF CallOK
  <2>6. \A i \in 2 .. Len(calls) : CallOK(nodes, lists, links, calls[i])
    BY <1>2, <1>14 DEF CallsOK
  <2>7. CallsOK(nodes, lists, links, <<c>> \o Tail(calls))
    BY <1>1, <1>3, <1>13, <1>14, <2>5, <2>6, CallsUpdated
  <2>8. failed' # "no" /\ lists' = lists /\ links' = links
    BY <1>19
  <2>9. CallsOK(nodes', lists', links', calls')
    BY <1>1, <1>12, <2>7, <2>8
  <2> QED BY <1>1, <1>16, <2>4, <2>8, <2>9, TreeInvPrimed DEF TreeInv, TreeOK
<1>20. ~(links[k].prev # Null)
  BY <1>5
<1>21. ast_list_append_link(l, k, n)
  BY <1>1, <1>4, <1>5, <1>6
<1> QED BY <1>18, <1>19, <1>20, <1>21 DEF ast_list_append_link

-----------------------------------------------------------------------------
(* The iterator of ast.c stays on the buckets and the entries of the node. *)
LEMMA BucketFound ==
  ASSUME NodesOK(nodes, attributes), NEW n \in 1 .. Len(nodes), NEW i \in Nat
  PROVE  BucketFrom(n, i) \in Iterators(attributes)
<1> DEFINE filled == {h \in i .. AttrCapacity - 1 : nodes[n].attrs[h] # Null}
<1>1. AttrCapacity \in Nat
  BY AttrTableAssumption
<1>2. CASE filled = {}
  <2>1. BucketFrom(n, i) = [table_i |-> AttrCapacity, attr_at |-> Null]
    BY <1>2 DEF BucketFrom
  <2>2. Null \in 0 .. Len(attributes)
    <3>1. nodes[n].attrs[0] \in 0 .. Len(attributes)
      BY AttrTableAssumption DEF NodesOK
    <3> QED BY <3>1 DEF Null
  <2> QED BY <1>1, <2>1, <2>2 DEF Iterators
<1>3. CASE filled # {}
  <2>1. filled \in SUBSET Nat
    OBVIOUS
  <2>2. \E x \in filled : \A y \in filled : x <= y
    <3> HIDE DEF filled
    <3> QED BY <1>3, <2>1, LeastElement
  <2>3. PICK x : x = CHOOSE z \in filled : \A y \in filled : z <= y
    OBVIOUS
  <2>4. x \in filled
    <3> HIDE DEF filled
    <3> QED BY <2>2, <2>3
  <2>5. BucketFrom(n, i) = [table_i |-> x, attr_at |-> nodes[n].attrs[x]]
    BY <1>3, <2>3 DEF BucketFrom
  <2>6. x \in 0 .. AttrCapacity - 1 /\ x \in Nat
    BY <1>1, <2>4
  <2>7. nodes[n].attrs[x] \in 0 .. Len(attributes)
    BY <2>6 DEF NodesOK
  <2> QED BY <2>5, <2>6, <2>7 DEF Iterators
<1> QED BY <1>2, <1>3

LEMMA IteratorMoves ==
  ASSUME NodesOK(nodes, attributes), attributes \in Seq(AttrRecords), Descends(attributes),
         NEW n \in 1 .. Len(nodes), NEW iter \in Iterators(attributes), iter.attr_at # Null
  PROVE  ast_attriter_get_next(n, iter) \in Iterators(attributes)
<1>1. iter.table_i \in Nat /\ iter.attr_at \in 0 .. Len(attributes) /\ Len(attributes) \in Nat
  BY DEF Iterators
<1>2. iter.attr_at \in 1 .. Len(attributes)
  BY <1>1 DEF Null
<1>3. attributes[iter.attr_at].next_attr \in 0 .. Len(attributes)
  <2>1. attributes[iter.attr_at].next_attr \in 0 .. iter.attr_at - 1
    BY <1>2 DEF Descends
  <2> QED BY <1>1, <1>2, <2>1
<1>4. CASE attributes[iter.attr_at].next_attr # Null
  <2>1. PICK a \in 0 .. Len(attributes) : a = attributes[iter.attr_at].next_attr
    BY <1>3
  <2>2. ast_attriter_get_next(n, iter) = [iter EXCEPT !.attr_at = a]
    BY <1>4, <2>1 DEF ast_attriter_get_next
  <2> QED BY <2>2 DEF Iterators
<1>5. CASE attributes[iter.attr_at].next_attr = Null
  <2>1. iter.table_i + 1 \in Nat
    BY <1>1
  <2> QED BY <1>5, <2>1, BucketFound DEF ast_attriter_get_next
<1> QED BY <1>4, <1>5

(* A call of print_ast on a node, null or a lexeme. *)
LEMMA CallPrints ==
  ASSUME TreeInv, NEW n, n \in {Null, Lexeme} \cup 1 .. Len(nodes), NEW rest,
         FramesOK(nodes, attributes, links, rest), Call(n, rest), failed = "no"
  PROVE  /\ FramesOK(nodes, attributes, links, frames')
         /\ failed' = "no" \/ (failed' = BadKind /\ n = Lexeme)
<1>1. Len(nodes) \in Nat /\ Len(links) \in Nat /\ DOMAIN nodes = 1 .. Len(nodes) /\ NodesOK(nodes, attributes)
  BY Lengths DEF TreeInv, TreeOK, NodesOK
<1>2. CASE n = Null
  BY <1>1, <1>2 DEF Call, Null, Lexeme
<1>3. CASE n = Lexeme
  BY <1>1, <1>3 DEF Call, Null, Lexeme
<1>4. CASE n \in 1 .. Len(nodes)
  <2>1. PICK f : f = [ast |-> n, pass |-> 1, iter |-> ast_attriter_init(n), link |-> Null]
    OBVIOUS
  <2>2. frames' = <<f>> \o rest /\ failed' = failed
    BY <1>1, <1>4, <2>1 DEF Call, Null, Lexeme
  <2>3. PICK iter \in Iterators(attributes) : iter = ast_attriter_init(n)
    BY <1>1, <1>4, BucketFound DEF ast_attriter_init
  <2>4. f \in FrameRecords(nodes, attributes, links)
    BY <1>1, <1>4, <2>1, <2>3 DEF FrameRecords, Null
  <2>5. rest \in Seq(FrameRecords(nodes, attributes, links))
    BY DEF FramesOK
  <2>6. <<f>> \o rest \in Seq(FrameRecords(nodes, attributes, links))
    BY <2>4, <2>5, PushFirst
  <2> QED BY <2>2, <2>6 DEF FramesOK
<1> QED BY <1>2, <1>3, <1>4

(* The running call of print_ast. *)
LEMMA TopOK ==
  ASSUME FramesOK(nodes, attributes, links, frames), frames # <<>>
  PROVE  /\ Top \in FrameRecords(nodes, attributes, links) /\ Top.ast \in 1 .. Len(nodes)
         /\ Top.iter \in Iterators(attributes) /\ Top.iter.attr_at \in 0 .. Len(attributes)
         /\ Top.link \in 0 .. Len(links)
         /\ Tail(frames) \in Seq(FrameRecords(nodes, attributes, links))
<1>1. Top \in FrameRecords(nodes, attributes, links) /\ Tail(frames) \in Seq(FrameRecords(nodes, attributes, links))
  BY DropFirst DEF FramesOK, Top
<1>2. Top.ast \in 1 .. Len(nodes) /\ Top.iter \in Iterators(attributes) /\ Top.link \in 0 .. Len(links)
  BY <1>1 DEF FrameRecords
<1> QED BY <1>1, <1>2 DEF Iterators

(* A step of print_ast reads what exists, and stops only at the name `error`. *)
LEMMA PrintKeepsFrames ==
  ASSUME TreeInv, failed = "no", FramesOK(nodes, attributes, links, frames), PrintStep
  PROVE  /\ FramesOK(nodes, attributes, links, frames')
         /\ failed' = "no" \/ (failed' = BadKind /\ HasErrorName(nodes))
<1>1. /\ NodesOK(nodes, attributes) /\ attributes \in Seq(AttrRecords) /\ Descends(attributes)
      /\ LinksOK(nodes, links) /\ ErrorNamesOK(nodes, attributes)
      /\ \A a \in 1 .. Len(attributes) : ValueOK(nodes, lists, links, attributes[a].type, attributes[a].value)
      /\ \A l \in 1 .. Len(lists) : ListOK(lists, links, l)
  BY DEF TreeInv, TreeOK, AttributesOK, ShapesOK
<1>2. Len(nodes) \in Nat /\ Len(attributes) \in Nat /\ Len(lists) \in Nat /\ Len(links) \in Nat
  BY Lengths DEF TreeInv
<1>3. frames # <<>>
  BY DEF PrintStep
<1>4. PICK top \in FrameRecords(nodes, attributes, links) :
        /\ top = Top /\ top.ast \in 1 .. Len(nodes)
        /\ top.iter \in Iterators(attributes) /\ top.iter.attr_at \in 0 .. Len(attributes)
        /\ top.link \in 0 .. Len(links)
        /\ Tail(frames) \in Seq(FrameRecords(nodes, attributes, links))
  BY <1>3, TopOK
<1>5. ASSUME NEW f \in FrameRecords(nodes, attributes, links)
      PROVE  FramesOK(nodes, attributes, links, <<f>> \o Tail(frames))
  BY <1>4, <1>5, PushFirst DEF FramesOK
<1>6. ASSUME top.iter.attr_at # Null
      PROVE  /\ Advanced \in FrameRecords(nodes, attributes, links)
             /\ [Advanced EXCEPT !.link = Null] \in FrameRecords(nodes, attributes, links)
  <2>1. PICK iter \in Iterators(attributes) : iter = ast_attriter_get_next(top.ast, top.iter)
    BY <1>1, <1>4, <1>6, IteratorMoves
  <2>2. PICK f : f = [top EXCEPT !.iter = iter]
    OBVIOUS
  <2>3. f \in FrameRecords(nodes, attributes, links)
    BY ONLY <2>2 DEF FrameRecords
  <2>4. Null \in 0 .. Len(links)
    BY <1>2 DEF Null
  <2>5. [f EXCEPT !.link = Null] \in FrameRecords(nodes, attributes, links)
    BY ONLY <2>3, <2>4 DEF FrameRecords
  <2>6. Advanced = f
    BY <1>4, <2>1, <2>2 DEF Advanced
  <2> QED BY <2>3, <2>5, <2>6
<1>7. ASSUME NEW n, n \in {Null, Lexeme} \cup 1 .. Len(nodes), n = Lexeme => HasErrorName(nodes),
             NEW f \in FrameRecords(nodes, attributes, links), Call(n, <<f>> \o Tail(frames))
      PROVE  /\ FramesOK(nodes, attributes, links, frames')
             /\ failed' = "no" \/ (failed' = BadKind /\ HasErrorName(nodes))
  <2>1. FramesOK(nodes, attributes, links, <<f>> \o Tail(frames))
    BY <1>5
  <2> QED BY <1>7, <2>1, CallPrints
<1>8. CASE PrintProperty
  <2>1. frames' = <<Advanced>> \o Tail(frames) /\ failed' = "no" /\ top.iter.attr_at # Null
    BY <1>4, <1>8 DEF PrintProperty, Replace
  <2> QED BY <1>5, <1>6, <2>1
<1>9. CASE SecondPass
  <2>1. PICK iter \in Iterators(attributes) : iter = ast_attriter_init(top.ast)
    BY <1>1, <1>4, BucketFound DEF ast_attriter_init
  <2>2. PICK f : f = [top EXCEPT !.pass = 2, !.iter = iter]
    OBVIOUS
  <2>3. f \in FrameRecords(nodes, attributes, links)
    BY ONLY <2>2 DEF FrameRecords
  <2>4. frames' = <<f>> \o Tail(frames) /\ failed' = "no"
    BY <1>4, <1>9, <2>1, <2>2 DEF SecondPass, Replace
  <2> QED BY <1>5, <2>3, <2>4
<1>10. ASSUME InSecondPass
       PROVE  /\ top.iter.attr_at # Null /\ top.iter.attr_at \in 1 .. Len(attributes)
              /\ Attribute = attributes[top.iter.attr_at]
              /\ ValueOK(nodes, lists, links, Attribute.type, Attribute.value)
  <2>1. top.iter.attr_at # Null /\ top.iter.attr_at \in 1 .. Len(attributes)
    BY <1>2, <1>4, <1>10 DEF InSecondPass, Null
  <2> QED BY <1>1, <1>4, <2>1 DEF Attribute
<1>11. CASE PrintChild
  <2>1. /\ InSecondPass /\ Attribute.type = "Ast"
        /\ Call(Attribute.value, <<Advanced>> \o Tail(frames))
    BY <1>11 DEF PrintChild
  <2>2. Attribute.value \in {Null, Lexeme} \cup 1 .. Len(nodes)
    BY <1>10, <2>1 DEF ValueOK
  <2>3. Attribute.value = Lexeme => HasErrorName(nodes)
    BY <1>1, <1>10, <2>1 DEF ErrorNamesOK
  <2>4. PICK n : n = Attribute.value
    OBVIOUS
  <2>5. PICK f \in FrameRecords(nodes, attributes, links) : f = Advanced
    BY <1>6, <1>10, <2>1
  <2> QED BY <1>7, <2>1, <2>2, <2>3, <2>4, <2>5
<1>12. CASE OpenList
  <2>1. PICK first : first = IF Attribute.value = Null THEN Null ELSE ast_list_first_link(Attribute.value)
    OBVIOUS
  <2>2. /\ InSecondPass /\ Attribute.type = "AstList" /\ failed' = "no"
        /\ frames' = <<IF first = Null THEN Advanced ELSE [top EXCEPT !.link = first]>> \o Tail(frames)
    BY <1>4, <1>12, <2>1 DEF OpenList, Replace
  <2>3. first \in 0 .. Len(links)
    <3>1. CASE Attribute.value = Null
      BY <1>2, <2>1, <3>1 DEF Null
    <3>2. CASE Attribute.value # Null
      <4>1. PICK l \in 1 .. Len(lists) : l = Attribute.value /\ lists[l].next \in 0 .. Len(links)
        BY <1>10, <2>2, <3>2 DEF ValueOK
      <4>2. lists[l].head = -l
        BY <1>1, <4>1 DEF ListOK
      <4>3. ~(-l > 0) /\ -(-l) = l
        BY <1>2, <4>1
      <4>4. ast_list_first_link(l) = lists[l].next
        BY <4>2, <4>3 DEF ast_list_first_link, NextOf
      <4> QED BY <2>1, <3>2, <4>1, <4>4
    <3> QED BY <3>1, <3>2
  <2>4. [top EXCEPT !.link = first] \in FrameRecords(nodes, attributes, links)
    BY ONLY <2>3 DEF FrameRecords
  <2>5. PICK f \in FrameRecords(nodes, attributes, links) :
          f = IF first = Null THEN Advanced ELSE [top EXCEPT !.link = first]
    BY <1>6, <1>10, <2>2, <2>4
  <2> QED BY <1>5, <2>2, <2>5
<1>13. CASE PrintElement
  <2>1. PICK next, n : next = links[top.link].next /\ n = links[top.link].ast
    OBVIOUS
  <2>2. /\ InSecondPass /\ top.link # Null
        /\ Call(n, <<IF next = Null THEN [Advanced EXCEPT !.link = Null] ELSE [top EXCEPT !.link = next]>> \o Tail(frames))
    BY <1>4, <1>13, <2>1 DEF PrintElement
  <2>3. top.link \in 1 .. Len(links)
    BY <1>2, <1>4, <2>2 DEF Null
  <2>4. next \in 0 .. Len(links) /\ n \in 0 .. Len(nodes)
    BY <1>1, <2>1, <2>3 DEF LinksOK
  <2>5. [top EXCEPT !.link = next] \in FrameRecords(nodes, attributes, links)
    BY ONLY <2>4 DEF FrameRecords
  <2>6. PICK f \in FrameRecords(nodes, attributes, links) :
          f = IF next = Null THEN [Advanced EXCEPT !.link = Null] ELSE [top EXCEPT !.link = next]
    BY <1>6, <1>10, <2>2, <2>5
  <2>7. n \in {Null, Lexeme} \cup 1 .. Len(nodes) /\ n # Lexeme
    BY <1>2, <2>4 DEF Null, Lexeme
  <2> QED BY <1>7, <2>2, <2>6, <2>7
<1>14. CASE PassValue
  <2>1. frames' = <<Advanced>> \o Tail(frames) /\ failed' = "no" /\ InSecondPass
    BY <1>14 DEF PassValue, Replace
  <2> QED BY <1>5, <1>6, <1>10, <2>1
<1>15. CASE Return
  BY <1>4, <1>15 DEF Return, FramesOK
<1> QED BY <1>8, <1>9, <1>11, <1>12, <1>13, <1>14, <1>15 DEF PrintStep

LEMMA PrintTreeKeepsTree ==
  ASSUME TreeInv, PrintTree
  PROVE  TreeInv'
<1>1. /\ failed = "no" /\ phase = "print" /\ PrintStep /\ UNCHANGED treeVars
      /\ phase' = phase /\ calls' = calls /\ finished' = finished
  BY DEF PrintTree, PrintStep, InPhase, driverVars, buildVars
<1>2. nodes' = nodes /\ attributes' = attributes /\ lists' = lists /\ links' = links
  BY <1>1 DEF treeVars
<1>3. /\ FramesOK(nodes, attributes, links, frames')
      /\ failed' = "no" \/ (failed' = BadKind /\ HasErrorName(nodes))
  BY <1>1, PrintKeepsFrames DEF TreeInv
<1>4. OnlyKnownAsserts'
  <2>1. DOMAIN nodes = 1 .. Len(nodes)
    BY DEF TreeInv, TreeOK, NodesOK
  <2>2. HasErrorName(nodes) => \E n \in DOMAIN nodes' : nodes'[n].kind = "ErrorName"
    BY <1>2, <2>1 DEF HasErrorName
  <2> QED BY <1>3, <2>2 DEF OnlyKnownAsserts
<1>5. ShapesOK(lists', links') /\ ErrorNamesOK(nodes', attributes')
  BY <1>1, <1>2 DEF TreeInv
<1>6. CallsOK(nodes', lists', links', calls')
  BY <1>1, <1>2 DEF TreeInv
<1>7. FramesOK(nodes', attributes', links', frames')
  BY <1>2, <1>3
<1>8. /\ NodesOK(nodes', attributes') /\ AttributesOK(nodes', attributes', lists', links')
      /\ PointersOK(lists', links') /\ LinksOK(nodes', links')
  BY <1>2 DEF TreeInv, TreeOK
<1>9. /\ calls' # <<>> => phase' = "parse"
      /\ finished' \in 0 .. Len(nodes') \/ (phase' \in {"cleanup", "done"} /\ nodes' = <<>>)
  BY <1>1, <1>2 DEF TreeInv
<1> QED BY <1>4, <1>5, <1>6, <1>7, <1>8, <1>9, TreeInvPrimed

(* A step that leaves the tree and the calls of the parser alone. *)
LEMMA TreeStays ==
  ASSUME TreeInv, UNCHANGED treeVars, UNCHANGED buildVars,
         failed' = failed \/ failed' = "no",
         phase' = phase \/ calls = <<>>,
         phase' = "print" /\ failed' = "no" => FramesOK(nodes, attributes, links, frames'),
         failed' = "no" => failed = "no",
         phase \in {"cleanup", "done"} => phase' \in {"cleanup", "done"}
  PROVE  TreeInv'
<1>1. nodes' = nodes /\ attributes' = attributes /\ lists' = lists /\ links' = links
  BY DEF treeVars
<1>2. calls' = calls /\ finished' = finished /\ failed' = failed
  BY DEF buildVars
<1>3. OnlyKnownAsserts'
  <2>1. OnlyKnownAsserts
    BY DEF TreeInv
  <2>2. Doing' = Doing
    BY <1>1, <1>2 DEF Doing, Rule, Running
  <2> QED BY <1>1, <1>2, <2>1, <2>2 DEF OnlyKnownAsserts
<1>4. failed' = "no" => ShapesOK(lists', links') /\ ErrorNamesOK(nodes', attributes')
  BY <1>1, <1>2 DEF TreeInv
<1>5. CallsOK(nodes', lists', links', calls')
  BY <1>1, <1>2 DEF TreeInv
<1>6. failed' = "no" /\ phase' = "print" => FramesOK(nodes', attributes', links', frames')
  BY <1>1
<1>7. /\ NodesOK(nodes', attributes') /\ AttributesOK(nodes', attributes', lists', links')
      /\ PointersOK(lists', links') /\ LinksOK(nodes', links')
  BY <1>1 DEF TreeInv, TreeOK
<1>8. /\ calls' # <<>> => phase' = "parse"
      /\ finished' \in 0 .. Len(nodes') \/ (phase' \in {"cleanup", "done"} /\ nodes' = <<>>)
  BY <1>1, <1>2 DEF TreeInv
<1> QED BY <1>3, <1>4, <1>5, <1>6, <1>7, <1>8, TreeInvPrimed

(* The steps of main that leave the tree alone. *)
LEMMA PhasesKeepTree ==
  ASSUME TreeInv,
         \/ parse_cmdline_args \/ read_source \/ Tokenize \/ LexEnds \/ symtable_init
         \/ PrintReturns \/ symtable_flush \/ symtable_init_again \/ DeclareName \/ DeleteMain
         \/ Ended \/ UNCHANGED vars
  PROVE  TreeInv'
<1>1. CASE \/ parse_cmdline_args \/ read_source \/ Tokenize \/ LexEnds \/ symtable_init
           \/ PrintReturns \/ symtable_flush \/ symtable_init_again \/ DeclareName \/ DeleteMain
  <2>1. /\ UNCHANGED treeVars /\ UNCHANGED buildVars /\ failed' = failed
        /\ phase # "parse" /\ phase' # "print"
        /\ phase \in {"cleanup", "done"} => phase' \in {"cleanup", "done"}
    BY <1>1 DEF InPhase, parse_cmdline_args, read_source, Tokenize, LexEnds, symtable_init,
                PrintReturns, symtable_flush, symtable_init_again, DeclareName, DeleteMain
  <2>2. calls = <<>>
    BY <2>1 DEF TreeInv
  <2> QED BY <2>1, <2>2, TreeStays
<1>2. CASE Ended \/ UNCHANGED vars
  <2>1. /\ UNCHANGED treeVars /\ UNCHANGED buildVars /\ failed' = failed /\ phase' = phase
        /\ frames' = frames
    BY <1>2 DEF Ended, vars, treeVars, buildVars
  <2>2. phase' = "print" /\ failed' = "no" => FramesOK(nodes, attributes, links, frames')
    BY <2>1 DEF TreeInv
  <2> QED BY <2>1, <2>2, TreeStays
<1> QED BY <1>1, <1>2

LEMMA ParseEndsKeepsTree ==
  ASSUME TreeInv, ParseEnds
  PROVE  TreeInv'
<1>1. /\ phase = "parse" /\ failed = "no" /\ calls = <<>>
      /\ UNCHANGED treeVars /\ UNCHANGED buildVars
  BY DEF ParseEnds, InPhase
<1>2. CASE phase' = "print" /\ Call(finished, <<>>)
  <2>1. Len(nodes) \in Nat /\ finished \in 0 .. Len(nodes)
    BY <1>1, FinishedOK
  <2>2. finished \in {Null, Lexeme} \cup 1 .. Len(nodes) /\ finished # Lexeme
    BY <2>1 DEF Null, Lexeme
  <2>3. FramesOK(nodes, attributes, links, <<>>)
    BY DEF FramesOK
  <2>4. PICK n \in {Null, Lexeme} \cup 1 .. Len(nodes) : n = finished
    BY <2>2
  <2>5. PICK rest : rest = <<>>
    OBVIOUS
  <2>6. Call(n, rest) /\ FramesOK(nodes, attributes, links, rest)
    BY <1>2, <2>3, <2>4, <2>5
  <2>7. FramesOK(nodes, attributes, links, frames') /\ failed' = "no"
    BY <1>1, <2>2, <2>4, <2>6, CallPrints
  <2> QED BY <1>1, <1>2, <2>7, TreeStays
<1>3. CASE phase' = "flush" /\ failed' = failed
  BY <1>1, <1>3, TreeStays
<1> QED BY <1>2, <1>3 DEF ParseEnds

(* A tree of nothing. *)
LEMMA EmptyTree ==
  /\ NodesOK(<<>>, <<>>) /\ AttributesOK(<<>>, <<>>, <<>>, <<>>)
  /\ PointersOK(<<>>, <<>>) /\ LinksOK(<<>>, <<>>)
  /\ CallsOK(<<>>, <<>>, <<>>, <<>>) /\ ShapesOK(<<>>, <<>>) /\ ErrorNamesOK(<<>>, <<>>)
BY DEF NodesOK, AttributesOK, Descends, PointersOK, LinksOK, CallsOK, ShapesOK, ErrorNamesOK

LEMMA InitTree == Init => TreeInv
<1> SUFFICES ASSUME Init PROVE TreeInv
  OBVIOUS
<1>1. /\ nodes = <<>> /\ attributes = <<>> /\ lists = <<>> /\ links = <<>> /\ calls = <<>>
      /\ failed = "no" /\ phase = "args" /\ finished = 0
  BY DEF Init, TreeInit, Null
<1> QED BY <1>1, EmptyTree DEF TreeInv, TreeOK, OnlyKnownAsserts

(* The tree goes, after build_symtable_program or with the process. *)
LEMMA TreeGoes ==
  ASSUME TreeInv, failed = "no", failed' = failed, calls' = <<>>,
         nodes' = <<>>, attributes' = <<>>, lists' = <<>>, links' = <<>>,
         finished' = Null \/ phase' = "cleanup", phase' # "print"
  PROVE  TreeInv'
<1>1. /\ NodesOK(nodes', attributes') /\ AttributesOK(nodes', attributes', lists', links')
      /\ PointersOK(lists', links') /\ LinksOK(nodes', links')
      /\ CallsOK(nodes', lists', links', calls')
      /\ ShapesOK(lists', links') /\ ErrorNamesOK(nodes', attributes')
  BY EmptyTree
<1>2. OnlyKnownAsserts'
  BY DEF OnlyKnownAsserts
<1>3. finished' \in 0 .. Len(nodes') \/ (phase' \in {"cleanup", "done"} /\ nodes' = <<>>)
  BY DEF Null
<1> QED BY <1>1, <1>2, <1>3, TreeInvPrimed

LEMMA EndsKeepTree ==
  ASSUME TreeInv, OutOfMemory \/ FilenameRequired \/ FileMissing \/ LexicalError \/ SyntaxError \/ DeleteTree
  PROVE  TreeInv'
<1>1. CASE OutOfMemory \/ FilenameRequired \/ FileMissing \/ LexicalError \/ SyntaxError
  <2>1. failed = "no" /\ (Leave("exit") \/ Leave("crash"))
    BY <1>1 DEF OutOfMemory, FilenameRequired, FileMissing, LexicalError, SyntaxError, Parsing, InPhase
  <2> QED BY <2>1, TreeGoes DEF Leave
<1>2. CASE DeleteTree
  <2>1. calls = <<>>
    BY <1>2 DEF TreeInv, DeleteTree, InPhase
  <2> QED BY <1>2, <2>1, TreeGoes DEF DeleteTree, InPhase, buildVars
<1> QED BY <1>1, <1>2

(* Every step of the driver keeps the invariant. *)
LEMMA NextTree == TreeInv /\ [Next]_vars => TreeInv'
BY SetsKeepTree, NodesKeepTree, AddLinkKeepsTree, EndNodeKeepsTree, HeaderKeepsTree, AppendKeepsTree,
   PrintTreeKeepsTree, PhasesKeepTree, ParseEndsKeepsTree, EndsKeepTree DEF Next, Sets

(* The type invariant follows from the two. *)
LEMMA TypeFollows == TreeInv /\ MemInv => CompilerTypeOK
<1> SUFFICES ASSUME TreeInv, MemInv PROVE CompilerTypeOK
  OBVIOUS
<1>1. /\ NodesOK(nodes, attributes) /\ AttributesOK(nodes, attributes, lists, links)
      /\ PointersOK(lists, links) /\ LinksOK(nodes, links) /\ CallsOK(nodes, lists, links, calls)
  BY DEF TreeInv, TreeOK
<1>2. /\ DOMAIN nodes = 1 .. Len(nodes) /\ DOMAIN attributes = 1 .. Len(attributes)
      /\ DOMAIN lists = 1 .. Len(lists) /\ DOMAIN links = 1 .. Len(links)
      /\ DOMAIN calls = 1 .. Len(calls)
  BY <1>1 DEF NodesOK, AttributesOK, PointersOK, LinksOK, CallsOK
<1>3. Len(nodes) \in Nat /\ Len(attributes) \in Nat /\ Len(lists) \in Nat /\ Len(links) \in Nat
  BY Lengths DEF TreeInv
<1>4. ASSUME NEW n \in 1 .. Len(nodes)
      PROVE  /\ nodes[n].kind \in Kinds
             /\ nodes[n].attr_count \in 0 .. AttrCapacity
             /\ \A h \in 0 .. AttrCapacity - 1 : nodes[n].attrs[h] \in {Null} \cup 1 .. Len(attributes)
  <2>1. nodes[n] \in NodeRecords
    BY <1>1 DEF NodesOK
  <2>2. \A h \in 0 .. AttrCapacity - 1 : nodes[n].attrs[h] \in 0 .. Len(attributes)
    BY <1>1 DEF NodesOK
  <2> QED BY <1>3, <2>1, <2>2 DEF NodeRecords, Null
<1>5. ASSUME NEW a \in 1 .. Len(attributes)
      PROVE  /\ attributes[a].name \in AttrNames /\ attributes[a].type \in AttrTypes
             /\ attributes[a].next_attr \in 0 .. a - 1
             /\ attributes[a].value \in {Null, Lexeme, Cell} \cup (1 .. Len(nodes)) \cup (1 .. Len(lists))
  <2>1. attributes[a] \in AttrRecords
    BY <1>1 DEF AttributesOK
  <2>2. attributes[a].next_attr \in 0 .. a - 1
    BY <1>1, <1>3 DEF AttributesOK, Descends
  <2>3. ValueOK(nodes, lists, links, attributes[a].type, attributes[a].value)
    BY <1>1 DEF AttributesOK
  <2>4. attributes[a].value \in {Null, Lexeme, Cell} \cup (1 .. Len(nodes)) \cup (1 .. Len(lists))
    BY <2>3 DEF ValueOK
  <2> QED BY <2>1, <2>2, <2>4 DEF AttrRecords
<1>6. ASSUME NEW l \in 1 .. Len(lists)
      PROVE  {lists[l].head, lists[l].tail, lists[l].next} \subseteq LinkPointers(l)
  BY <1>1, <1>2 DEF PointersOK, LinkPointers
<1>7. ASSUME NEW k \in 1 .. Len(links)
      PROVE  links[k].next \in {Null} \cup 1 .. Len(links) /\ links[k].ast \in {Null} \cup 1 .. Len(nodes)
  BY <1>1, <1>3 DEF LinksOK, Null
<1>8. ASSUME NEW i \in 1 .. Len(calls) PROVE calls[i].ast \in 1 .. Len(nodes)
  BY <1>1 DEF CallsOK, CallOK
<1>9. finished \in {Null} \cup 1 .. Len(nodes) \/ nodes = <<>>
  BY <1>3 DEF TreeInv, Null
<1>10. mem.fresh + mem.released + mem.held["main"] + mem.held["text"] + mem.held["tokens"]
         + mem.held["symtable"] + mem.held["temp"] + mem.held["ast"] = Memory
  BY DEF MemInv, MemOK, Total
<1>11. points \cup dangling \subseteq Arenas \X Arenas
  BY DEF MemInv
<1>12. \A n \in DOMAIN nodes :
         /\ nodes[n].kind \in Kinds
         /\ nodes[n].attr_count \in 0 .. AttrCapacity
         /\ \A h \in 0 .. AttrCapacity - 1 : nodes[n].attrs[h] \in {Null} \cup DOMAIN attributes
  BY <1>2, <1>4
<1>13. \A a \in DOMAIN attributes :
         /\ attributes[a].name \in AttrNames /\ attributes[a].type \in AttrTypes
         /\ attributes[a].next_attr \in 0 .. a - 1
         /\ attributes[a].value \in {Null, Lexeme, Cell} \cup DOMAIN nodes \cup DOMAIN lists
  BY <1>2, <1>5
<1>14. \A l \in DOMAIN lists : {lists[l].head, lists[l].tail, lists[l].next} \subseteq LinkPointers(l)
  BY <1>2, <1>6
<1>15. /\ \A k \in DOMAIN links :
            links[k].next \in {Null} \cup DOMAIN links /\ links[k].ast \in {Null} \cup DOMAIN nodes
       /\ \A i \in DOMAIN calls : calls[i].ast \in DOMAIN nodes
       /\ finished \in {Null} \cup DOMAIN nodes \/ nodes = <<>>
  BY <1>2, <1>7, <1>8, <1>9
<1> QED BY <1>10, <1>11, <1>12, <1>13, <1>14, <1>15 DEF CompilerTypeOK

(* Every pointer a step of the compilation may follow leads to a struct of the  *)
(* right type that exists: the buckets and chains of the nodes, the values of the *)
(* attributes, the links of the lists and the calls of the parser.  A chain goes *)
(* to earlier entries only, so it ends, and the pages of all arenas add up to   *)
(* those of init_memory (ast.c, build_ast.c, arena.c).                          *)
THEOREM CompilerTypesHold == Spec => []CompilerTypeOK
<1>1. Init => TreeInv /\ MemInv
  BY InitTree, InitMem
<1>2. TreeInv /\ MemInv /\ [Next]_vars => TreeInv' /\ MemInv'
  BY NextTree, NextMem
<1>3. TreeInv /\ MemInv => CompilerTypeOK
  BY TypeFollows
<1> QED BY <1>1, <1>2, <1>3, PTL DEF Spec

(* Of the assertions of ast.c and print_ast.c only two kinds can fail: those of *)
(* ast_list_append_link for the uncleared header of a tuple, and the one of     *)
(* ast_kind_to_string for the name `error`.  The table of attributes never fills, *)
(* and no list but that of a tuple starts with anything in it.                  *)
THEOREM OnlyKnownAssertsFail == Spec => []OnlyKnownAsserts
<1>1. TreeInv => OnlyKnownAsserts
  BY DEF TreeInv
<1> QED BY <1>1, InitTree, NextTree, PTL DEF Spec

-----------------------------------------------------------------------------
(* What ast_setattr writes, and that no other node sees it. *)

(* New entries at the end do not change what is found from an old one. *)
LEMMA FindStays ==
  ASSUME NEW entries, NEW entries2, Len(entries) \in Nat, Len(entries2) \in Nat, Len(entries) <= Len(entries2),
         Descends(entries), Descends(entries2),
         \A a \in 1 .. Len(entries) :
           entries2[a].name = entries[a].name /\ entries2[a].next_attr = entries[a].next_attr,
         NEW name, NEW e \in 0 .. Len(entries)
  PROVE  FindIn(entries2, e, name) = FindIn(entries, e, name)
<1> DEFINE good(x) == FindIn(entries2, x, name) = FindIn(entries, x, name)
           U == {n \in 0 .. Len(entries) : \E x \in 0 .. n : ~good(x)}
<1>1. U = {}
  <2> SUFFICES ASSUME U # {} PROVE FALSE
    OBVIOUS
  <2>1. U \in SUBSET Nat
    OBVIOUS
  <2> HIDE DEF U
  <2>2. PICK n \in U : n - 1 \notin U
    BY <2>1, LeastFailure
  <2> USE DEF U
  <2> HIDE DEF good
  <2>3. n \in 0 .. Len(entries) /\ \A x \in 0 .. n - 1 : good(x)
    BY <2>2
  <2>4. ~good(n)
    BY <2>2, <2>3
  <2>5. n \in 0 .. Len(entries2)
    BY <2>3
  <2>6. CASE n = 0 \/ entries[n].name = name
    <3>1. n = 0 \/ entries2[n].name = name
      BY <2>3, <2>6
    <3>2. FindIn(entries, n, name) = n
      BY <2>3, <2>6, FindUnfolds DEF Null
    <3>3. FindIn(entries2, n, name) = n
      BY <2>5, <3>1, FindUnfolds DEF Null
    <3> QED BY <2>4, <3>2, <3>3 DEF good
  <2>7. CASE ~(n = 0 \/ entries[n].name = name)
    <3>1. n \in 1 .. Len(entries)
      BY <2>3, <2>7
    <3>2. entries[n].next_attr \in 0 .. n - 1
      BY <3>1 DEF Descends
    <3>3. ~(n = 0 \/ entries2[n].name = name) /\ entries2[n].next_attr = entries[n].next_attr
      BY <2>7, <3>1
    <3>4. FindIn(entries, n, name) = FindIn(entries, entries[n].next_attr, name)
      BY <2>3, <2>7, FindUnfolds DEF Null
    <3>5. FindIn(entries2, n, name) = FindIn(entries2, entries2[n].next_attr, name)
      BY <2>5, <3>3, FindUnfolds DEF Null
    <3>6. good(entries[n].next_attr)
      BY <2>3, <3>2
    <3> QED BY <2>4, <3>3, <3>4, <3>5, <3>6 DEF good
  <2> QED BY <2>6, <2>7
<1>2. good(e)
  <2> HIDE DEF good
  <2> QED BY <1>1
<1> QED BY <1>2

(* What is found from an entry belongs to the node of that entry. *)
LEMMA FindOwns ==
  ASSUME NEW entries, Len(entries) \in Nat, Descends(entries), NEW own,
         \A a \in 1 .. Len(entries) : entries[a].next_attr # Null => own[entries[a].next_attr] = own[a],
         NEW name, NEW e \in 1 .. Len(entries), FindIn(entries, e, name) # Null
  PROVE  own[FindIn(entries, e, name)] = own[e]
<1> DEFINE good(x) == x = 0 \/ FindIn(entries, x, name) = 0 \/ own[FindIn(entries, x, name)] = own[x]
           U == {n \in 0 .. Len(entries) : \E x \in 0 .. n : ~good(x)}
<1>1. U = {}
  <2> SUFFICES ASSUME U # {} PROVE FALSE
    OBVIOUS
  <2>1. U \in SUBSET Nat
    OBVIOUS
  <2> HIDE DEF U
  <2>2. PICK n \in U : n - 1 \notin U
    BY <2>1, LeastFailure
  <2> USE DEF U
  <2> HIDE DEF good
  <2>3. n \in 0 .. Len(entries) /\ \A x \in 0 .. n - 1 : good(x)
    BY <2>2
  <2>4. ~good(n)
    BY <2>2, <2>3
  <2>5. n \in 1 .. Len(entries)
    BY <2>3, <2>4 DEF good
  <2>6. CASE entries[n].name = name
    <3>1. FindIn(entries, n, name) = n
      BY <2>3, <2>6, FindUnfolds
    <3> QED BY <2>4, <3>1 DEF good
  <2>7. CASE entries[n].name # name
    <3>1. entries[n].next_attr \in 0 .. n - 1
      BY <2>5 DEF Descends
    <3>2. FindIn(entries, n, name) = FindIn(entries, entries[n].next_attr, name)
      BY <2>3, <2>5, <2>7, FindUnfolds DEF Null
    <3>3. good(entries[n].next_attr)
      BY <2>3, <3>1
    <3>4. CASE entries[n].next_attr = 0
      <4>1. 0 \in 0 .. Len(entries)
        OBVIOUS
      <4>2. FindIn(entries, 0, name) = 0
        BY <4>1, FindUnfolds DEF Null
      <4> QED BY <2>4, <3>2, <3>4, <4>2 DEF good
    <3>5. CASE entries[n].next_attr # 0
      <4>1. own[entries[n].next_attr] = own[n]
        BY <2>5, <3>5 DEF Null
      <4> QED BY <2>4, <3>2, <3>3, <3>5, <4>1 DEF good
    <3> QED BY <3>4, <3>5
  <2> QED BY <2>6, <2>7
<1>2. good(e)
  <2> HIDE DEF good
  <2> QED BY <1>1
<1> QED BY <1>2 DEF Null

-----------------------------------------------------------------------------
(* ast_setattr on an attribute that node n has: its entry is written. *)
EntryChanged(n, name, type, value) ==
  /\ nodes' = nodes
  /\ \E e \in 1 .. Len(attributes) :
       /\ e = EntryFor(n, name) /\ attributes[e].name = name
       /\ Len(attributes') = Len(attributes)
       /\ attributes'[e].type = type /\ attributes'[e].value = value
       /\ \A a \in 1 .. Len(attributes) :
            /\ attributes'[a].name = attributes[a].name
            /\ attributes'[a].next_attr = attributes[a].next_attr
            /\ a # e => attributes'[a] = attributes[a]

(* ast_setattr on one it has not: a new entry is in front of its bucket. *)
EntryInFront(n, name, type, value) ==
  /\ EntryFor(n, name) = Null
  /\ Len(attributes') = Len(attributes) + 1
  /\ \A a \in 1 .. Len(attributes) : attributes'[a] = attributes[a]
  /\ attributes'[Len(attributes) + 1] =
       [name |-> name, type |-> type, value |-> value, next_attr |-> nodes[n].attrs[AttrHash[name]]]
  /\ Len(nodes') = Len(nodes) /\ DOMAIN nodes' = DOMAIN nodes
  /\ \A m \in 1 .. Len(nodes) : m # n => nodes'[m] = nodes[m]
  /\ nodes'[n].kind = nodes[n].kind
  /\ \A h \in 0 .. AttrCapacity - 1 :
       nodes'[n].attrs[h] = IF h = AttrHash[name] THEN Len(attributes) + 1 ELSE nodes[n].attrs[h]

(* ast_setattr does one of the two. *)
LEMMA EntrySet ==
  ASSUME TreeOK, NEW n \in 1 .. Len(nodes), NEW name \in AttrNames, NEW type \in AttrTypes, NEW value \in Int,
         ValueOK(nodes, lists, links, type, value), nodes[n].attr_count < AttrCapacity,
         ast_setattr(n, name, value, type)
  PROVE  /\ EntryChanged(n, name, type, value) \/ EntryInFront(n, name, type, value)
         /\ nodes' \in Seq(NodeRecords) /\ attributes' \in Seq(AttrRecords) /\ Descends(attributes')
         /\ NodesOK(nodes', attributes')
         /\ failed' = failed /\ lists' = lists /\ links' = links
<1>1. /\ Len(nodes) \in Nat /\ Len(attributes) \in Nat
      /\ nodes \in Seq(NodeRecords) /\ attributes \in Seq(AttrRecords) /\ Descends(attributes)
      /\ NodesOK(nodes, attributes) /\ AttributesOK(nodes, attributes, lists, links)
  BY Lengths DEF TreeOK, NodesOK, AttributesOK
<1>2. /\ nodes' \in Seq(NodeRecords) /\ attributes' \in Seq(AttrRecords) /\ Descends(attributes')
      /\ NodesOK(nodes', attributes')
      /\ failed' = failed /\ lists' = lists /\ links' = links
  BY AttributeSet DEF AttributeWritten, NodesOK, AttributesOK
<1>3. PICK entry \in 0 .. Len(attributes) :
        /\ entry = EntryFor(n, name)
        /\ entry # Null => attributes[entry].name = name
  <2>1. PICK h \in 0 .. AttrCapacity - 1 : h = AttrHash[name]
    BY AttrTableAssumption
  <2>2. PICK e \in 0 .. Len(attributes) : e = nodes[n].attrs[h]
    BY <1>1 DEF NodesOK
  <2>3. /\ FindIn(attributes, e, name) \in 0 .. Len(attributes)
        /\ FindIn(attributes, e, name) # Null => attributes[FindIn(attributes, e, name)].name = name
    BY <1>1, FindFinds
  <2> QED BY <2>1, <2>2, <2>3, FindEntryIs DEF EntryFor
<1>4. CASE /\ entry # Null
           /\ attributes' = [attributes EXCEPT ![entry].type = type, ![entry].value = value]
           /\ UNCHANGED <<nodes, failed>>
  <2>1. entry \in 1 .. Len(attributes) /\ attributes[entry] \in AttrRecords
    BY <1>1, <1>4 DEF Null
  <2>2. PICK a : a = [attributes[entry] EXCEPT !.type = type, !.value = value]
    OBVIOUS
  <2>3. /\ a \in AttrRecords /\ a.type = type /\ a.value = value
        /\ a.name = attributes[entry].name /\ a.next_attr = attributes[entry].next_attr
    BY <2>1, <2>2 DEF AttrRecords
  <2>4. attributes' = [attributes EXCEPT ![entry] = a]
    BY <1>1, <1>4, <2>1, <2>2
  <2>5. /\ Len(attributes') = Len(attributes)
        /\ attributes'[entry] = a
        /\ \A x \in 1 .. Len(attributes) : x # entry => attributes'[x] = attributes[x]
    BY <1>1, <2>1, <2>3, <2>4
  <2>6. EntryChanged(n, name, type, value)
    BY <1>3, <1>4, <2>1, <2>3, <2>5 DEF EntryChanged
  <2> QED BY <1>2, <2>6
<1>5. CASE entry = Null /\ PushEntry(n, name, type, value)
  <2>1. PICK h \in 0 .. AttrCapacity - 1 : h = AttrHash[name]
    BY AttrTableAssumption
  <2>2. PICK a : a = [name |-> name, type |-> type, value |-> value, next_attr |-> nodes[n].attrs[h]]
    OBVIOUS
  <2>3. nodes[n].attrs[h] \in 0 .. Len(attributes)
    BY <1>1 DEF NodesOK
  <2>4. a \in AttrRecords
    BY <1>1, <2>2, <2>3 DEF AttrRecords
  <2>5. attributes' = Append(attributes, a)
    BY <1>5, <2>1, <2>2 DEF PushEntry
  <2>6. /\ Len(attributes') = Len(attributes) + 1
        /\ attributes'[Len(attributes) + 1] = a
        /\ \A x \in 1 .. Len(attributes) : attributes'[x] = attributes[x]
    BY <1>1, <2>4, <2>5, AppendLast
  <2>7. /\ nodes' \in Seq(NodeRecords) /\ Len(nodes') = Len(nodes)
        /\ \A m \in 1 .. Len(nodes) : m # n => nodes'[m] = nodes[m]
        /\ nodes'[n].kind = nodes[n].kind
        /\ nodes'[n].attrs = [nodes[n].attrs EXCEPT ![h] = Len(attributes) + 1]
    BY <1>1, <1>5, <2>1, EntryPushed
  <2>8. DOMAIN nodes' = DOMAIN nodes
    BY <1>1, <2>7
  <2>9. nodes[n].attrs \in [0 .. AttrCapacity - 1 -> Nat]
    <3>1. nodes[n] \in NodeRecords
      BY <1>1
    <3> QED BY <3>1 DEF NodeRecords
  <2>10. \A g \in 0 .. AttrCapacity - 1 :
           nodes'[n].attrs[g] = IF g = h THEN Len(attributes) + 1 ELSE nodes[n].attrs[g]
    BY <2>7, <2>9
  <2>11. EntryInFront(n, name, type, value)
    BY <1>3, <1>5, <2>1, <2>2, <2>6, <2>7, <2>8, <2>10 DEF EntryInFront
  <2> QED BY <1>2, <2>11
<1>6. nodes[n].attr_count \in Nat
  <2>1. nodes[n] \in NodeRecords
    BY <1>1
  <2> QED BY <2>1 DEF NodeRecords
<1>7. ~(nodes[n].attr_count >= AttrCapacity)
  BY <1>6, AttrTableAssumption
<1> QED BY <1>3, <1>4, <1>5, <1>7 DEF ast_setattr

-----------------------------------------------------------------------------
(* Every entry belongs to one node: no bucket and no chain leads from one *)
(* node to an entry of another.                                             *)
EntriesApart(ns, as) ==
  \E own \in [1 .. Len(as) -> 1 .. Len(ns)] :
    /\ \A n \in 1 .. Len(ns) : \A h \in 0 .. AttrCapacity - 1 :
         ns[n].attrs[h] # Null => own[ns[n].attrs[h]] = n
    /\ \A a \in 1 .. Len(as) : as[a].next_attr # Null => own[as[a].next_attr] = own[a]

(* A write keeps them apart. *)
LEMMA WriteKeepsApart ==
  ASSUME Len(nodes) \in Nat, Len(attributes) \in Nat, NodesOK(nodes, attributes), Descends(attributes),
         NEW n \in 1 .. Len(nodes), NEW name \in AttrNames, NEW type, NEW value,
         EntryChanged(n, name, type, value) \/ EntryInFront(n, name, type, value),
         EntriesApart(nodes, attributes)
  PROVE  EntriesApart(nodes', attributes')
<1>1. PICK own \in [1 .. Len(attributes) -> 1 .. Len(nodes)] :
        /\ \A m \in 1 .. Len(nodes) : \A h \in 0 .. AttrCapacity - 1 :
             nodes[m].attrs[h] # Null => own[nodes[m].attrs[h]] = m
        /\ \A a \in 1 .. Len(attributes) : attributes[a].next_attr # Null => own[attributes[a].next_attr] = own[a]
  BY DEF EntriesApart
<1>2. CASE EntryChanged(n, name, type, value)
  <2>1. /\ nodes' = nodes /\ Len(attributes') = Len(attributes)
        /\ \A a \in 1 .. Len(attributes) : attributes'[a].next_attr = attributes[a].next_attr
    BY <1>2 DEF EntryChanged
  <2>2. \A a \in 1 .. Len(attributes') : attributes'[a].next_attr # Null => own[attributes'[a].next_attr] = own[a]
    BY <1>1, <2>1
  <2> QED BY <1>1, <2>1, <2>2 DEF EntriesApart
<1>3. CASE EntryInFront(n, name, type, value)
  <2>1. PICK new : new = Len(attributes) + 1
    OBVIOUS
  <2>2. PICK g \in 0 .. AttrCapacity - 1 : g = AttrHash[name]
    BY AttrTableAssumption
  <2>3. /\ Len(attributes') = new /\ Len(nodes') = Len(nodes)
        /\ \A a \in 1 .. Len(attributes) : attributes'[a] = attributes[a]
        /\ attributes'[new].next_attr = nodes[n].attrs[g]
        /\ \A m \in 1 .. Len(nodes) : m # n => nodes'[m] = nodes[m]
        /\ \A h \in 0 .. AttrCapacity - 1 :
             nodes'[n].attrs[h] = IF h = g THEN new ELSE nodes[n].attrs[h]
    BY <1>3, <2>1, <2>2 DEF EntryInFront
  <2>4. PICK own2 : own2 = [a \in 1 .. new |-> IF a = new THEN n ELSE own[a]]
    OBVIOUS
  <2>5. own2 \in [1 .. Len(attributes') -> 1 .. Len(nodes')]
    BY <1>1, <2>1, <2>3, <2>4
  <2>6. own2[new] = n /\ \A a \in 1 .. Len(attributes) : own2[a] = own[a]
    BY <2>1, <2>4
  <2>7. \A m \in 1 .. Len(nodes) : \A h \in 0 .. AttrCapacity - 1 : nodes[m].attrs[h] \in 0 .. Len(attributes)
    BY DEF NodesOK
  <2>8. ASSUME NEW m \in 1 .. Len(nodes'), NEW h \in 0 .. AttrCapacity - 1, nodes'[m].attrs[h] # Null
        PROVE  own2[nodes'[m].attrs[h]] = m
    <3>1. CASE m = n /\ h = g
      BY <2>3, <2>6, <3>1
    <3>2. CASE ~(m = n /\ h = g)
      <4>1. nodes'[m].attrs[h] = nodes[m].attrs[h]
        BY <2>3, <3>2
      <4>2. nodes[m].attrs[h] \in 1 .. Len(attributes)
        BY <2>3, <2>7, <2>8, <4>1 DEF Null
      <4>3. own[nodes[m].attrs[h]] = m
        BY <1>1, <2>3, <2>8, <4>1
      <4> QED BY <2>6, <4>1, <4>2, <4>3
    <3> QED BY <3>1, <3>2
  <2>9. ASSUME NEW a \in 1 .. Len(attributes'), attributes'[a].next_attr # Null
        PROVE  own2[attributes'[a].next_attr] = own2[a]
    <3>1. CASE a = new
      <4>1. nodes[n].attrs[g] \in 1 .. Len(attributes) /\ own[nodes[n].attrs[g]] = n
        BY <1>1, <2>3, <2>7, <2>9, <3>1 DEF Null
      <4> QED BY <2>3, <2>6, <3>1, <4>1
    <3>2. CASE a # new
      <4>1. a \in 1 .. Len(attributes)
        BY <2>1, <2>3, <3>2
      <4>2. attributes'[a].next_attr = attributes[a].next_attr
        BY <2>3, <4>1
      <4>3. attributes[a].next_attr \in 1 .. Len(attributes)
        <5>1. attributes[a].next_attr \in 0 .. a - 1 /\ attributes[a].next_attr # 0
          BY <2>9, <4>1, <4>2 DEF Descends, Null
        <5> QED BY <4>1, <5>1
      <4>4. own[attributes[a].next_attr] = own[a]
        BY <1>1, <2>9, <4>1, <4>2
      <4> QED BY <2>6, <4>1, <4>2, <4>3, <4>4
    <3> QED BY <3>1, <3>2
  <2> QED BY <2>5, <2>8, <2>9 DEF EntriesApart
<1> QED BY <1>2, <1>3

(* So does a new node. *)
LEMMA NodeKeepsApart ==
  ASSUME NodesOK(nodes, attributes), Len(nodes) \in Nat, Len(attributes) \in Nat,
         NEW kind \in Kinds, new_ast_node(kind), EntriesApart(nodes, attributes)
  PROVE  EntriesApart(nodes', attributes')
<1>1. PICK own \in [1 .. Len(attributes) -> 1 .. Len(nodes)] :
        /\ \A m \in 1 .. Len(nodes) : \A h \in 0 .. AttrCapacity - 1 :
             nodes[m].attrs[h] # Null => own[nodes[m].attrs[h]] = m
        /\ \A a \in 1 .. Len(attributes) : attributes[a].next_attr # Null => own[attributes[a].next_attr] = own[a]
  BY DEF EntriesApart
<1>2. PICK r : r = [kind |-> kind, attr_count |-> 0, attrs |-> [h \in 0 .. AttrCapacity - 1 |-> Null]]
  OBVIOUS
<1>3. nodes' = Append(nodes, r) /\ attributes' = attributes
  BY <1>2 DEF new_ast_node
<1>4. nodes \in Seq(NodeRecords) /\ r \in NodeRecords
  <2>1. [h \in 0 .. AttrCapacity - 1 |-> Null] \in [0 .. AttrCapacity - 1 -> Nat] /\ 0 \in 0 .. AttrCapacity
    BY AttrTableAssumption DEF Null
  <2> QED BY <1>2, <2>1 DEF NodeRecords, NodesOK
<1>5. /\ Len(nodes') = Len(nodes) + 1 /\ nodes'[Len(nodes) + 1] = r
      /\ \A m \in 1 .. Len(nodes) : nodes'[m] = nodes[m]
  BY <1>3, <1>4, AppendLast
<1>6. own \in [1 .. Len(attributes') -> 1 .. Len(nodes')]
  BY <1>1, <1>3, <1>5
<1>7. ASSUME NEW m \in 1 .. Len(nodes'), NEW h \in 0 .. AttrCapacity - 1, nodes'[m].attrs[h] # Null
      PROVE  own[nodes'[m].attrs[h]] = m
  <2>1. CASE m = Len(nodes) + 1
    <3>1. r.attrs[h] = Null
      BY <1>2
    <3> QED BY <1>5, <1>7, <2>1, <3>1
  <2>2. CASE m \in 1 .. Len(nodes)
    BY <1>1, <1>5, <1>7, <2>2
  <2> QED BY <1>5, <2>1, <2>2
<1> QED BY <1>1, <1>3, <1>6, <1>7 DEF EntriesApart

-----------------------------------------------------------------------------
(* AttrsOf of a node with these buckets. *)
AttrsIn(as, buckets) ==
  [name \in {x \in AttrNames : FindIn(as, buckets[AttrHash[x]], x) # Null} |->
     [type |-> as[FindIn(as, buckets[AttrHash[name]], name)].type,
      value |-> as[FindIn(as, buckets[AttrHash[name]], name)].value]]

(* AttrsOf is AttrsIn, before and after a step. *)
LEMMA AttrsAre ==
  /\ \A n : AttrsOf(n) = AttrsIn(attributes, nodes[n].attrs)
  /\ \A n : AttrsOf(n)' = AttrsIn(attributes', nodes'[n].attrs)
BY DEF AttrsOf, AttrsIn, ast_getattr, EntryFor, FindEntry, FindIn

(* Buckets where every name finds what it found show the same attributes. *)
LEMMA AttrsStay ==
  ASSUME NEW as, NEW as2, NEW buckets, NEW buckets2,
         \A x \in AttrNames :
           LET e == FindIn(as, buckets[AttrHash[x]], x)
           IN /\ FindIn(as2, buckets2[AttrHash[x]], x) = e
              /\ e # Null => as2[e].type = as[e].type /\ as2[e].value = as[e].value
  PROVE  AttrsIn(as2, buckets2) = AttrsIn(as, buckets)
<1> DEFINE D == {x \in AttrNames : FindIn(as, buckets[AttrHash[x]], x) # Null}
           D2 == {x \in AttrNames : FindIn(as2, buckets2[AttrHash[x]], x) # Null}
           f(x) == [type |-> as[FindIn(as, buckets[AttrHash[x]], x)].type,
                    value |-> as[FindIn(as, buckets[AttrHash[x]], x)].value]
           f2(x) == [type |-> as2[FindIn(as2, buckets2[AttrHash[x]], x)].type,
                     value |-> as2[FindIn(as2, buckets2[AttrHash[x]], x)].value]
<1>1. D2 = D
  OBVIOUS
<1>2. \A x \in D : f2(x) = f(x)
  OBVIOUS
<1>3. AttrsIn(as, buckets) = [x \in D |-> f(x)] /\ AttrsIn(as2, buckets2) = [x \in D2 |-> f2(x)]
  BY DEF AttrsIn
<1> HIDE DEF D, D2, f, f2
<1> QED BY <1>1, <1>2, <1>3

(* Node n shows the value under name and all else as before, and the other *)
(* nodes show what they did.                                                *)
WriteShown(n, name, type, value) ==
  /\ AttrsIn(attributes', nodes'[n].attrs) =
       [x \in DOMAIN AttrsIn(attributes, nodes[n].attrs) \cup {name} |->
          IF x = name THEN [type |-> type, value |-> value]
          ELSE AttrsIn(attributes, nodes[n].attrs)[x]]
  /\ \A m \in 1 .. Len(nodes) :
       m # n => AttrsIn(attributes', nodes'[m].attrs) = AttrsIn(attributes, nodes[m].attrs)

(* That is what ast_setattr does. *)
LEMMA WriteShows ==
  ASSUME Len(nodes) \in Nat, Len(attributes) \in Nat, Len(attributes') \in Nat,
         NodesOK(nodes, attributes), Descends(attributes), Descends(attributes'),
         NEW n \in 1 .. Len(nodes), NEW name \in AttrNames, NEW type, NEW value,
         EntryChanged(n, name, type, value) \/ EntryInFront(n, name, type, value),
         EntriesApart(nodes, attributes)
  PROVE  WriteShown(n, name, type, value)
<1> DEFINE Found(m, x) == FindIn(attributes, nodes[m].attrs[AttrHash[x]], x)
           Found2(m, x) == FindIn(attributes', nodes'[m].attrs[AttrHash[x]], x)
<1>1. PICK own \in [1 .. Len(attributes) -> 1 .. Len(nodes)] :
        /\ \A m \in 1 .. Len(nodes) : \A h \in 0 .. AttrCapacity - 1 :
             nodes[m].attrs[h] # Null => own[nodes[m].attrs[h]] = m
        /\ \A a \in 1 .. Len(attributes) : attributes[a].next_attr # Null => own[attributes[a].next_attr] = own[a]
  BY DEF EntriesApart
<1>2. ASSUME NEW m \in 1 .. Len(nodes), NEW x \in AttrNames
      PROVE  /\ AttrHash[x] \in 0 .. AttrCapacity - 1
             /\ nodes[m].attrs[AttrHash[x]] \in 0 .. Len(attributes)
             /\ Found(m, x) \in 0 .. Len(attributes)
             /\ Found(m, x) # Null => attributes[Found(m, x)].name = x /\ own[Found(m, x)] = m
  <2>1. PICK h \in 0 .. AttrCapacity - 1 : h = AttrHash[x]
    BY AttrTableAssumption
  <2>2. PICK e \in 0 .. Len(attributes) : e = nodes[m].attrs[h]
    BY DEF NodesOK
  <2>3. /\ FindIn(attributes, e, x) \in 0 .. Len(attributes)
        /\ FindIn(attributes, e, x) # Null => attributes[FindIn(attributes, e, x)].name = x
    BY FindFinds
  <2>4. CASE e = 0
    <3>1. FindIn(attributes, e, x) = 0
      BY <2>4, FindUnfolds DEF Null
    <3> QED BY <2>1, <2>2, <2>3, <3>1 DEF Null
  <2>5. CASE e # 0
    <3>1. e \in 1 .. Len(attributes) /\ own[e] = m
      BY <1>1, <2>2, <2>5 DEF Null
    <3>2. \A a \in 1 .. Len(attributes) : attributes[a].next_attr # Null => own[attributes[a].next_attr] = own[a]
      BY <1>1
    <3>3. FindIn(attributes, e, x) # Null => own[FindIn(attributes, e, x)] = own[e]
      BY <3>1, <3>2, FindOwns
    <3> QED BY <2>1, <2>2, <2>3, <3>1, <3>3
  <2> QED BY <2>4, <2>5
<1>3. ASSUME Found2(n, name) # Null,
             attributes'[Found2(n, name)].type = type,
             attributes'[Found2(n, name)].value = value,
             \A x \in AttrNames \ {name} :
               /\ Found2(n, x) = Found(n, x)
               /\ Found(n, x) # Null =>
                    /\ attributes'[Found(n, x)].type = attributes[Found(n, x)].type
                    /\ attributes'[Found(n, x)].value = attributes[Found(n, x)].value
      PROVE  AttrsIn(attributes', nodes'[n].attrs) =
               [x \in DOMAIN AttrsIn(attributes, nodes[n].attrs) \cup {name} |->
                  IF x = name THEN [type |-> type, value |-> value]
                  ELSE AttrsIn(attributes, nodes[n].attrs)[x]]
  <2> DEFINE D == {x \in AttrNames : Found(n, x) # Null}
             D2 == {x \in AttrNames : Found2(n, x) # Null}
             f(x) == [type |-> attributes[Found(n, x)].type, value |-> attributes[Found(n, x)].value]
             f2(x) == [type |-> attributes'[Found2(n, x)].type, value |-> attributes'[Found2(n, x)].value]
  <2>1. /\ AttrsIn(attributes, nodes[n].attrs) = [x \in D |-> f(x)]
        /\ AttrsIn(attributes', nodes'[n].attrs) = [x \in D2 |-> f2(x)]
    BY DEF AttrsIn
  <2> HIDE DEF Found, Found2
  <2>2. D2 = D \cup {name}
    BY <1>3
  <2>3. \A x \in D2 : f2(x) = IF x = name THEN [type |-> type, value |-> value] ELSE f(x)
    BY <1>3
  <2> HIDE DEF D, D2, f, f2
  <2>4. DOMAIN AttrsIn(attributes, nodes[n].attrs) = D
        /\ \A x \in D : AttrsIn(attributes, nodes[n].attrs)[x] = f(x)
    BY <2>1
  <2>5. \A x \in D2 : f2(x) = IF x = name THEN [type |-> type, value |-> value]
                             ELSE AttrsIn(attributes, nodes[n].attrs)[x]
    BY <2>2, <2>3, <2>4
  <2> QED BY <2>1, <2>2, <2>4, <2>5
<1>4. CASE EntryChanged(n, name, type, value)
  <2>1. PICK e \in 1 .. Len(attributes) :
          /\ e = EntryFor(n, name) /\ attributes[e].name = name
          /\ Len(attributes') = Len(attributes) /\ nodes' = nodes
          /\ attributes'[e].type = type /\ attributes'[e].value = value
          /\ \A a \in 1 .. Len(attributes) :
               /\ attributes'[a].name = attributes[a].name
               /\ attributes'[a].next_attr = attributes[a].next_attr
               /\ a # e => attributes'[a] = attributes[a]
    BY <1>4 DEF EntryChanged
  <2>2. e = Found(n, name)
    BY <2>1, FindEntryIs DEF EntryFor
  <2>3. own[e] = n
    BY <1>2, <2>2 DEF Null
  <2>4. ASSUME NEW m \in 1 .. Len(nodes), NEW x \in AttrNames PROVE Found2(m, x) = Found(m, x)
    <3>1. PICK b \in 0 .. Len(attributes) : b = nodes[m].attrs[AttrHash[x]]
      BY <1>2
    <3>2. FindIn(attributes', b, x) = FindIn(attributes, b, x)
      BY <2>1, FindStays
    <3> QED BY <2>1, <3>1, <3>2
  <2>5. ASSUME NEW m \in 1 .. Len(nodes), NEW x \in AttrNames, m # n \/ x # name, Found(m, x) # Null
        PROVE  /\ attributes'[Found(m, x)].type = attributes[Found(m, x)].type
               /\ attributes'[Found(m, x)].value = attributes[Found(m, x)].value
    <3>1. /\ Found(m, x) \in 1 .. Len(attributes)
          /\ attributes[Found(m, x)].name = x /\ own[Found(m, x)] = m
      BY <1>2, <2>5 DEF Null
    <3>2. Found(m, x) # e
      BY <2>1, <2>3, <2>5, <3>1
    <3> QED BY <2>1, <3>1, <3>2
  <2> HIDE DEF Found, Found2
  <2>6. ASSUME NEW m \in 1 .. Len(nodes), m # n
        PROVE  AttrsIn(attributes', nodes'[m].attrs) = AttrsIn(attributes, nodes[m].attrs)
    <3>1. \A x \in AttrNames :
            LET f == Found(m, x)
            IN /\ Found2(m, x) = f
               /\ f # Null => attributes'[f].type = attributes[f].type /\ attributes'[f].value = attributes[f].value
      BY <2>4, <2>5, <2>6
    <3> QED BY <3>1, AttrsStay DEF Found, Found2
  <2>7. \A x \in AttrNames \ {name} :
          /\ Found2(n, x) = Found(n, x)
          /\ Found(n, x) # Null =>
               /\ attributes'[Found(n, x)].type = attributes[Found(n, x)].type
               /\ attributes'[Found(n, x)].value = attributes[Found(n, x)].value
    BY <2>4, <2>5
  <2>8. Found2(n, name) # Null
    BY <2>1, <2>2, <2>4 DEF Null
  <2>9. attributes'[Found2(n, name)].type = type
    BY <2>1, <2>2, <2>4
  <2>10. attributes'[Found2(n, name)].value = value
    BY <2>1, <2>2, <2>4
  <2>11. AttrsIn(attributes', nodes'[n].attrs) =
          [x \in DOMAIN AttrsIn(attributes, nodes[n].attrs) \cup {name} |->
             IF x = name THEN [type |-> type, value |-> value]
             ELSE AttrsIn(attributes, nodes[n].attrs)[x]]
    BY <1>3, <2>7, <2>8, <2>9, <2>10
  <2> QED BY <2>6, <2>11 DEF WriteShown
<1>5. CASE EntryInFront(n, name, type, value)
  <2>1. PICK new : new = Len(attributes) + 1
    OBVIOUS
  <2>2. PICK g \in 0 .. AttrCapacity - 1 : g = AttrHash[name]
    BY AttrTableAssumption
  <2>3. /\ Len(attributes') = new /\ new \in 1 .. Len(attributes')
        /\ \A a \in 1 .. Len(attributes) : attributes'[a] = attributes[a]
        /\ attributes'[new] = [name |-> name, type |-> type, value |-> value, next_attr |-> nodes[n].attrs[g]]
        /\ \A m \in 1 .. Len(nodes) : m # n => nodes'[m] = nodes[m]
        /\ \A h \in 0 .. AttrCapacity - 1 :
             nodes'[n].attrs[h] = IF h = g THEN new ELSE nodes[n].attrs[h]
    BY <1>5, <2>1, <2>2 DEF EntryInFront
  <2>4. ASSUME NEW b \in 0 .. Len(attributes), NEW x
        PROVE  FindIn(attributes', b, x) = FindIn(attributes, b, x)
    <3>1. Len(attributes) <= Len(attributes')
      BY <2>1, <2>3
    <3>2. \A a \in 1 .. Len(attributes) :
            attributes'[a].name = attributes[a].name /\ attributes'[a].next_attr = attributes[a].next_attr
      BY <2>3
    <3> QED BY <3>1, <3>2, FindStays
  <2>5. ASSUME NEW m \in 1 .. Len(nodes), NEW x \in AttrNames, m # n \/ x # name PROVE Found2(m, x) = Found(m, x)
    <3>1. PICK h \in 0 .. AttrCapacity - 1 : h = AttrHash[x]
      BY <1>2
    <3>2. PICK b \in 0 .. Len(attributes) : b = nodes[m].attrs[h]
      BY <1>2, <3>1
    <3>3. FindIn(attributes', b, x) = FindIn(attributes, b, x)
      BY <2>4
    <3>4. CASE m # n \/ h # g
      <4>1. nodes'[m].attrs[h] = nodes[m].attrs[h]
        BY <2>3, <3>4
      <4> QED BY <3>1, <3>2, <3>3, <4>1
    <3>5. CASE m = n /\ h = g
      <4>1. nodes'[m].attrs[h] = new
        BY <2>3, <3>5
      <4>2. attributes'[new].name # x /\ attributes'[new].next_attr = b
        BY <2>3, <2>5, <3>2, <3>5
      <4>3. new \in 0 .. Len(attributes') /\ new # Null
        BY <2>1, <2>3 DEF Null
      <4>4. FindIn(attributes', new, x) = FindIn(attributes', b, x)
        BY <4>2, <4>3, FindUnfolds
      <4> QED BY <3>1, <3>2, <3>3, <4>1, <4>4
    <3> QED BY <3>4, <3>5
  <2>6. ASSUME NEW m \in 1 .. Len(nodes), NEW x \in AttrNames, Found(m, x) # Null
        PROVE  attributes'[Found(m, x)] = attributes[Found(m, x)]
    <3>1. Found(m, x) \in 1 .. Len(attributes)
      BY <1>2, <2>6 DEF Null
    <3> QED BY <2>3, <3>1
  <2>7. Found2(n, name) = new
    <3>1. nodes'[n].attrs[g] = new
      BY <2>3
    <3>2. new \in 0 .. Len(attributes') /\ attributes'[new].name = name
      BY <2>3
    <3>3. FindIn(attributes', new, name) = new
      BY <3>2, FindUnfolds
    <3> QED BY <2>2, <3>1, <3>3
  <2> HIDE DEF Found, Found2
  <2>8. ASSUME NEW m \in 1 .. Len(nodes), m # n
        PROVE  AttrsIn(attributes', nodes'[m].attrs) = AttrsIn(attributes, nodes[m].attrs)
    <3>1. \A x \in AttrNames :
            LET f == Found(m, x)
            IN /\ Found2(m, x) = f
               /\ f # Null => attributes'[f].type = attributes[f].type /\ attributes'[f].value = attributes[f].value
      BY <2>5, <2>6, <2>8
    <3> QED BY <3>1, AttrsStay DEF Found, Found2
  <2>9. \A x \in AttrNames \ {name} :
          /\ Found2(n, x) = Found(n, x)
          /\ Found(n, x) # Null =>
               /\ attributes'[Found(n, x)].type = attributes[Found(n, x)].type
               /\ attributes'[Found(n, x)].value = attributes[Found(n, x)].value
    BY <2>5, <2>6
  <2>10. Found2(n, name) # Null
    BY <2>1, <2>3, <2>7 DEF Null
  <2>11. attributes'[Found2(n, name)].type = type
    BY <2>3, <2>7
  <2>12. attributes'[Found2(n, name)].value = value
    BY <2>3, <2>7
  <2>13. AttrsIn(attributes', nodes'[n].attrs) =
           [x \in DOMAIN AttrsIn(attributes, nodes[n].attrs) \cup {name} |->
              IF x = name THEN [type |-> type, value |-> value]
              ELSE AttrsIn(attributes, nodes[n].attrs)[x]]
    BY <1>3, <2>9, <2>10, <2>11, <2>12
  <2> QED BY <2>8, <2>13 DEF WriteShown
<1> QED BY <1>4, <1>5

-----------------------------------------------------------------------------
(* Lists.  Following the links from one on. *)

(* One step of NodesOf: the node of link j, then what f gives for the next link. *)
Follow(ks, f, j) == <<ks[j].ast>> \o IF ks[j].next = Null THEN <<>> ELSE f[ks[j].next]

(* The nodes from link k on. *)
FollowIn(ks, k) ==
  LET follow[j \in 1 .. Len(ks)] ==
        <<ks[j].ast>> \o IF ks[j].next = Null THEN <<>> ELSE follow[ks[j].next]
  IN follow[k]

(* A link comes behind links that were made before it. *)
Ascends(ks) ==
  \A k \in 1 .. Len(ks) : ks[k].next # Null => ks[k].next \in k + 1 .. Len(ks)

(* The recursion of FollowIn ends, so that it may be unfolded. *)
LEMMA FollowUnfolds ==
  ASSUME NEW ks, Len(ks) \in Nat, Ascends(ks), NEW k \in 1 .. Len(ks)
  PROVE  FollowIn(ks, k) =
           <<ks[k].ast>> \o IF ks[k].next = Null THEN <<>> ELSE FollowIn(ks, ks[k].next)
<1> DEFINE N == Len(ks)
           is(f) == f = [j \in 1 .. N |-> Follow(ks, f, j)]
           HasRun(d) == \E f : f = [j \in N - d + 1 .. N |-> Follow(ks, f, j)]
           U == {d \in 0 .. N : ~HasRun(d)}
<1>1. U = {}
  <2> SUFFICES ASSUME U # {} PROVE FALSE
    OBVIOUS
  <2>1. U \in SUBSET Nat
    OBVIOUS
  <2> HIDE DEF U
  <2>2. PICK d \in U : d - 1 \notin U
    BY <2>1, LeastFailure
  <2> USE DEF U
  <2>3. d \in 0 .. N /\ ~HasRun(d)
    BY <2>2
  <2>4. CASE d = 0
    <3> DEFINE f == [j \in N + 1 .. N |-> <<>>]
    <3>1. f = [j \in N - 0 + 1 .. N |-> Follow(ks, f, j)]
      OBVIOUS
    <3> QED BY <2>3, <2>4, <3>1
  <2>5. CASE d # 0
    <3>1. HasRun(d - 1) /\ d - 1 \in 0 .. N
      BY <2>2, <2>3, <2>5
    <3>2. PICK n : n = N - d + 1
      OBVIOUS
    <3>3. n \in 1 .. N /\ N - (d - 1) + 1 = n + 1
      BY <2>3, <2>5, <3>2
    <3>4. PICK f : f = [j \in n + 1 .. N |-> Follow(ks, f, j)]
      BY <3>1, <3>3
    <3>5. PICK v : v = Follow(ks, f, n)
      OBVIOUS
    <3> DEFINE g == [j \in n .. N |-> IF j = n THEN v ELSE f[j]]
    <3>6. ASSUME NEW j \in n .. N PROVE g[j] = Follow(ks, g, j)
      <4>1. j \in 1 .. N
        BY <3>3
      <4>2. ks[j].next # Null => ks[j].next \in n + 1 .. N
        BY <3>3, <4>1 DEF Ascends
      <4>3. ks[j].next # Null => g[ks[j].next] = f[ks[j].next]
        BY <3>3, <4>2
      <4>4. Follow(ks, g, j) = Follow(ks, f, j)
        BY <4>3 DEF Follow
      <4>5. CASE j = n
        BY <3>5, <4>4, <4>5
      <4>6. CASE j # n
        <5>1. j \in n + 1 .. N
          BY <3>3, <4>6
        <5>2. f[j] = Follow(ks, f, j)
          BY <3>4, <5>1
        <5> QED BY <4>4, <4>6, <5>2
      <4> QED BY <4>5, <4>6
    <3>7. g = [j \in n .. N |-> Follow(ks, g, j)]
      BY <3>6
    <3> HIDE DEF g
    <3>8. HasRun(d)
      BY <3>2, <3>7
    <3> QED BY <2>3, <3>8
  <2> QED BY <2>4, <2>5
<1>2. HasRun(N)
  BY <1>1
<1> DEFINE follow == CHOOSE f : is(f)
<1>3. is(follow)
  <2>1. \E f : is(f)
    <3>1. N - N + 1 = 1
      OBVIOUS
    <3> QED BY <1>2, <3>1
  <2> HIDE DEF is
  <2> QED BY <2>1
<1>4. \A x : FollowIn(ks, x) = follow[x]
  BY DEF FollowIn, Follow
<1> HIDE DEF follow
<1>5. follow[k] = Follow(ks, follow, k)
  BY <1>3
<1> QED BY <1>4, <1>5 DEF Follow

(* What holds of a link when it holds of all later ones holds of every link. *)
LEMMA FromTheEnd ==
  ASSUME NEW N \in Nat, NEW G, \A j \in 1 .. N : (\A i \in j + 1 .. N : i \in G) => j \in G
  PROVE  \A j \in 1 .. N : j \in G
<1> DEFINE U == {d \in 0 .. N : \E j \in N - d + 1 .. N : j \notin G}
<1>1. U = {}
  <2> SUFFICES ASSUME U # {} PROVE FALSE
    OBVIOUS
  <2>1. U \in SUBSET Nat
    OBVIOUS
  <2> HIDE DEF U
  <2>2. PICK d \in U : d - 1 \notin U
    BY <2>1, LeastFailure
  <2> USE DEF U
  <2>3. d \in 0 .. N /\ \E j \in N - d + 1 .. N : j \notin G
    BY <2>2
  <2>4. d # 0
    BY <2>3
  <2>5. \A j \in N - (d - 1) + 1 .. N : j \in G
    BY <2>2, <2>3, <2>4
  <2>6. N - d + 1 \in 1 .. N /\ \A j \in (N - d + 1) + 1 .. N : j \in G
    BY <2>3, <2>4, <2>5
  <2>7. N - d + 1 \in G
    BY <2>6
  <2> QED BY <2>3, <2>6, <2>7
<1>2. ASSUME NEW j \in 1 .. N PROVE j \in G
  <2>1. N \notin U
    BY <1>1
  <2> QED BY <2>1
<1> QED BY <1>2

(* Concatenation is associative with a first element. *)
LEMMA Glued ==
  ASSUME NEW x \in Int, NEW s \in Seq(Int), NEW n \in Int
  PROVE  /\ <<x>> \o s \in Seq(Int)
         /\ (<<x>> \o s) \o <<n>> = <<x>> \o (s \o <<n>>)
         /\ Append(s, n) = s \o <<n>>
         /\ <<x>> \o <<>> = <<x>> /\ <<x>> \in Seq(Int)
  OBVIOUS

(* What is followed is a sequence of numbers. *)
LEMMA FollowTyped ==
  ASSUME NEW ks \in Seq(LinkRecords), Ascends(ks), NEW k \in 1 .. Len(ks)
  PROVE  FollowIn(ks, k) \in Seq(Int)
<1> DEFINE G == {j \in 1 .. Len(ks) : FollowIn(ks, j) \in Seq(Int)}
<1>1. ASSUME NEW j \in 1 .. Len(ks), \A i \in j + 1 .. Len(ks) : i \in G
      PROVE  j \in G
  <2>1. ks[j].ast \in Int
    <3>1. ks[j] \in LinkRecords
      OBVIOUS
    <3> QED BY <3>1 DEF LinkRecords
  <2>2. Len(ks) \in Nat
    OBVIOUS
  <2>3. FollowIn(ks, j) = <<ks[j].ast>> \o IF ks[j].next = Null THEN <<>> ELSE FollowIn(ks, ks[j].next)
    BY <2>2, FollowUnfolds
  <2>4. CASE ks[j].next = Null
    <3>1. PICK x \in Int : x = ks[j].ast
      BY <2>1
    <3>2. FollowIn(ks, j) = <<x>> \o <<>>
      BY <2>3, <2>4, <3>1
    <3>3. <<x>> \o <<>> = <<x>> /\ <<x>> \in Seq(Int)
      OBVIOUS
    <3> QED BY <3>2, <3>3
  <2>5. CASE ks[j].next # Null
    <3>1. ks[j].next \in j + 1 .. Len(ks)
      BY <2>5 DEF Ascends
    <3>2. FollowIn(ks, ks[j].next) \in Seq(Int)
      BY <1>1, <3>1
    <3> QED BY <2>1, <2>3, <2>5, <3>2, Glued
  <2> QED BY <2>4, <2>5
<1>2. Len(ks) \in Nat
  OBVIOUS
<1> HIDE DEF G
<1>3. \A j \in 1 .. Len(ks) : j \in G
  BY <1>1, <1>2, FromTheEnd
<1> QED BY <1>3 DEF G

(* Links that keep their node and their successor show the same nodes; S is *)
(* closed under successors.                                                  *)
LEMMA FollowStays ==
  ASSUME NEW ks, NEW ks2, Len(ks) \in Nat, Len(ks2) \in Nat, Len(ks) <= Len(ks2), Ascends(ks), Ascends(ks2),
         NEW S, \A j \in 1 .. Len(ks) : j \in S =>
                  /\ ks2[j].ast = ks[j].ast /\ ks2[j].next = ks[j].next
                  /\ ks[j].next # Null => ks[j].next \in S,
         NEW k \in 1 .. Len(ks), k \in S
  PROVE  FollowIn(ks2, k) = FollowIn(ks, k)
<1> DEFINE G == {j \in 1 .. Len(ks) : j \in S => FollowIn(ks2, j) = FollowIn(ks, j)}
<1>1. ASSUME NEW j \in 1 .. Len(ks), \A i \in j + 1 .. Len(ks) : i \in G
      PROVE  j \in G
  <2>1. SUFFICES ASSUME j \in S PROVE FollowIn(ks2, j) = FollowIn(ks, j)
    OBVIOUS
  <2>2. FollowIn(ks, j) = <<ks[j].ast>> \o IF ks[j].next = Null THEN <<>> ELSE FollowIn(ks, ks[j].next)
    BY FollowUnfolds
  <2>3. j \in 1 .. Len(ks2)
    OBVIOUS
  <2>4. FollowIn(ks2, j) = <<ks2[j].ast>> \o IF ks2[j].next = Null THEN <<>> ELSE FollowIn(ks2, ks2[j].next)
    BY <2>3, FollowUnfolds
  <2>5. ks2[j].ast = ks[j].ast /\ ks2[j].next = ks[j].next
    BY <2>1
  <2>6. CASE ks[j].next = Null
    BY <2>2, <2>4, <2>5, <2>6
  <2>7. CASE ks[j].next # Null
    <3>1. ks[j].next \in j + 1 .. Len(ks) /\ ks[j].next \in S
      BY <2>1, <2>7 DEF Ascends
    <3>2. FollowIn(ks2, ks[j].next) = FollowIn(ks, ks[j].next)
      BY <1>1, <3>1
    <3> QED BY <2>2, <2>4, <2>5, <2>7, <3>2
  <2> QED BY <2>6, <2>7
<1> HIDE DEF G
<1>2. \A j \in 1 .. Len(ks) : j \in G
  BY <1>1, FromTheEnd
<1> QED BY <1>2 DEF G

(* ks2: link t, the only one of S that nothing follows, is followed by k. *)
GrownBy(ks, ks2, S, t, k, n) ==
  /\ t \in 1 .. Len(ks) /\ k \in 1 .. Len(ks) /\ t \in S
  /\ Len(ks2) = Len(ks) /\ Ascends(ks) /\ Ascends(ks2)
  /\ ks2[t].ast = ks[t].ast /\ ks[t].next = Null /\ ks2[t].next = k
  /\ ks2[k].ast = n /\ ks2[k].next = Null
  /\ \A j \in 1 .. Len(ks) : j \in S /\ j # t =>
       /\ ks2[j].ast = ks[j].ast /\ ks2[j].next = ks[j].next
       /\ ks[j].next # Null /\ ks[j].next \in S

(* The nodes from a link of S on then get one more at the end. *)
LEMMA FollowGrows ==
  ASSUME NEW ks \in Seq(LinkRecords), NEW ks2 \in Seq(LinkRecords), NEW S, NEW t, NEW k, NEW n \in Int,
         GrownBy(ks, ks2, S, t, k, n), NEW j \in 1 .. Len(ks), j \in S
  PROVE  FollowIn(ks2, j) = FollowIn(ks, j) \o <<n>>
<1>1. /\ t \in 1 .. Len(ks) /\ k \in 1 .. Len(ks) /\ t \in S
      /\ Len(ks2) = Len(ks) /\ Ascends(ks) /\ Ascends(ks2)
      /\ ks2[t].ast = ks[t].ast /\ ks[t].next = Null /\ ks2[t].next = k
      /\ ks2[k].ast = n /\ ks2[k].next = Null
  BY DEF GrownBy
<1>2. \A i \in 1 .. Len(ks) : i \in S /\ i # t =>
        /\ ks2[i].ast = ks[i].ast /\ ks2[i].next = ks[i].next
        /\ ks[i].next # Null /\ ks[i].next \in S
  BY DEF GrownBy
<1> DEFINE G == {i \in 1 .. Len(ks) : i \in S => FollowIn(ks2, i) = FollowIn(ks, i) \o <<n>>}
<1>3. Len(ks) \in Nat /\ k # Null
  BY <1>1 DEF Null
<1>4. ASSUME NEW i \in 1 .. Len(ks), \A h \in i + 1 .. Len(ks) : h \in G
      PROVE  i \in G
  <2>1. SUFFICES ASSUME i \in S PROVE FollowIn(ks2, i) = FollowIn(ks, i) \o <<n>>
    OBVIOUS
  <2>2. FollowIn(ks, i) = <<ks[i].ast>> \o IF ks[i].next = Null THEN <<>> ELSE FollowIn(ks, ks[i].next)
    BY <1>1, <1>3, FollowUnfolds
  <2>3. \A m \in 1 .. Len(ks2) :
          FollowIn(ks2, m) = <<ks2[m].ast>> \o IF ks2[m].next = Null THEN <<>> ELSE FollowIn(ks2, ks2[m].next)
    BY <1>1, <1>3, FollowUnfolds
  <2>4. ks[i].ast \in Int
    <3>1. ks[i] \in LinkRecords
      OBVIOUS
    <3> QED BY <3>1 DEF LinkRecords
  <2>5. CASE i = t
    <3>1. FollowIn(ks2, k) = <<n>>
      <4>1. FollowIn(ks2, k) = <<n>> \o <<>>
        BY <1>1, <2>3
      <4>2. <<n>> \o <<>> = <<n>>
        OBVIOUS
      <4> QED BY <4>1, <4>2
    <3>2. FollowIn(ks2, t) = <<ks[t].ast>> \o <<n>>
      BY <1>1, <1>3, <2>3, <3>1
    <3>3. FollowIn(ks, t) = <<ks[t].ast>>
      BY <1>1, <2>2, <2>4, <2>5, Glued
    <3> QED BY <2>5, <3>2, <3>3
  <2>6. CASE i # t
    <3>1. /\ ks2[i].ast = ks[i].ast /\ ks2[i].next = ks[i].next
          /\ ks[i].next # Null /\ ks[i].next \in S
      BY <1>2, <2>1, <2>6
    <3>2. ks[i].next \in i + 1 .. Len(ks)
      BY <1>1, <3>1 DEF Ascends
    <3>3. FollowIn(ks2, ks[i].next) = FollowIn(ks, ks[i].next) \o <<n>>
      BY <1>4, <3>1, <3>2
    <3>4. FollowIn(ks, ks[i].next) \in Seq(Int)
      <4>1. PICK m \in 1 .. Len(ks) : m = ks[i].next
        BY <1>3, <3>2
      <4>2. Ascends(ks)
        BY <1>1
      <4>3. FollowIn(ks, m) \in Seq(Int)
        BY ONLY ks \in Seq(LinkRecords), m \in 1 .. Len(ks), <4>2, FollowTyped
      <4> QED BY <4>1, <4>3
    <3>5. PICK s \in Seq(Int) : s = FollowIn(ks, ks[i].next)
      BY <3>4
    <3>6. PICK x \in Int : x = ks[i].ast
      BY <2>4
    <3>7. FollowIn(ks, i) = <<x>> \o s
      BY <2>2, <3>1, <3>5, <3>6
    <3>8. FollowIn(ks2, i) = <<ks2[i].ast>> \o FollowIn(ks2, ks2[i].next)
      BY <1>1, <2>3, <3>1
    <3>9. FollowIn(ks2, i) = <<x>> \o (s \o <<n>>)
      BY <3>1, <3>3, <3>5, <3>6, <3>8
    <3>10. (<<x>> \o s) \o <<n>> = <<x>> \o (s \o <<n>>)
      BY Glued
    <3> QED BY <3>7, <3>9, <3>10
  <2> QED BY <2>5, <2>6
<1> HIDE DEF G
<1>5. \A i \in 1 .. Len(ks) : i \in G
  BY <1>3, <1>4, FromTheEnd
<1> QED BY <1>5 DEF G

(* NodesOf of list l. *)
NodesIn(ls, ks, l) ==
  IF ls[l].head = -l /\ ls[l].next \in 1 .. Len(ks) THEN FollowIn(ks, ls[l].next) ELSE <<>>

(* NodesOf is NodesIn, before and after a step. *)
LEMMA NodesAre ==
  ASSUME lists \in Seq(ListRecords), links \in Seq(LinkRecords), NEW l \in 1 .. Len(lists)
  PROVE  NodesOf(l) = NodesIn(lists, links, l)
<1>1. ~(-l > 0) /\ -(-l) = l /\ DOMAIN links = 1 .. Len(links)
  OBVIOUS
<1>2. lists[l].head = -l => ast_list_first_link(l) = lists[l].next
  BY <1>1 DEF ast_list_first_link, NextOf
<1>3. Null \notin 1 .. Len(links)
  BY DEF Null
<1>4. PICK first : first = IF lists[l].head = -l THEN ast_list_first_link(l) ELSE Null
  OBVIOUS
<1>5. NodesOf(l) = IF first \in DOMAIN links THEN FollowIn(links, first) ELSE <<>>
  BY <1>4 DEF NodesOf, FollowIn
<1> QED BY <1>1, <1>2, <1>3, <1>4, <1>5 DEF NodesIn

LEMMA NodesAreNext ==
  ASSUME lists' \in Seq(ListRecords), links' \in Seq(LinkRecords), NEW l \in 1 .. Len(lists')
  PROVE  NodesOf(l)' = NodesIn(lists', links', l)
<1>1. ~(-l > 0) /\ -(-l) = l /\ DOMAIN links' = 1 .. Len(links')
  OBVIOUS
<1>2. lists'[l].head = -l => ast_list_first_link(l)' = lists'[l].next
  BY <1>1 DEF ast_list_first_link, NextOf
<1>3. Null \notin 1 .. Len(links')
  BY DEF Null
<1>4. PICK first : first = IF lists'[l].head = -l THEN ast_list_first_link(l)' ELSE Null
  OBVIOUS
<1>5. NodesOf(l)' = IF first \in DOMAIN links' THEN FollowIn(links', first) ELSE <<>>
  BY <1>4 DEF NodesOf, FollowIn
<1> QED BY <1>1, <1>2, <1>3, <1>4, <1>5 DEF NodesIn

-----------------------------------------------------------------------------
(* own[k] is the list that link k was appended to, 0 while it is in no list. *)
(* Links of a list lead to later links of that list, and only its tail to    *)
(* none.  An empty list has in next what the memory held.                    *)
OwnedLinks(ls, ks, own) ==
  /\ \A k \in 1 .. Len(ks) :
       /\ ks[k].next # Null => ks[k].next \in k + 1 .. Len(ks) /\ own[k] # 0 /\ own[ks[k].next] = own[k]
       /\ own[k] # 0 /\ ks[k].next = Null => ls[own[k]].tail = k
  /\ \A l \in 1 .. Len(ls) :
       /\ ls[l].tail \in 1 .. Len(ks) => own[ls[l].tail] = l /\ ls[l].next \in 1 .. Len(ks) /\ own[ls[l].next] = l
       /\ ls[l].tail = -l => ls[l].next \in {Null, Stale}

(* The link a call has in hand is in no list yet and was made after the last *)
(* of its list, and no two calls fill the same list.                         *)
OwnedCalls(ls, own, cs) ==
  /\ \A i \in 1 .. Len(cs) : cs[i].link # Null => own[cs[i].link] = 0 /\ ls[cs[i].list].tail < cs[i].link
  /\ \A i, j \in 1 .. Len(cs) : i # j => cs[i].list # cs[j].list \/ cs[i].list = Null

(* There is such an own. *)
LinksApart(ls, ks, cs) ==
  \E own \in [1 .. Len(ks) -> 0 .. Len(ls)] : OwnedLinks(ls, ks, own) /\ OwnedCalls(ls, own, cs)

(* A call without a list may be added, *)
LEMMA OwnedPushed ==
  ASSUME NEW ls, NEW own, NEW cs \in Seq(CallRecords), OwnedCalls(ls, own, cs),
         NEW c \in CallRecords, c.list = Null, c.link = Null
  PROVE  OwnedCalls(ls, own, <<c>> \o cs)
<1>1. PICK cs2 : cs2 = <<c>> \o cs
  OBVIOUS
<1>2. /\ Len(cs2) = Len(cs) + 1 /\ cs2[1] = c
      /\ \A i \in 2 .. Len(cs) + 1 : cs2[i] = cs[i - 1]
  BY <1>1, PushFirst
<1>3. \A i \in 2 .. Len(cs) + 1 : i - 1 \in 1 .. Len(cs)
  OBVIOUS
<1>4. ASSUME NEW i \in 1 .. Len(cs2), cs2[i].link # Null
      PROVE  own[cs2[i].link] = 0 /\ ls[cs2[i].list].tail < cs2[i].link
  <2>1. i \in 2 .. Len(cs) + 1
    BY <1>2, <1>4
  <2>2. PICK h \in 1 .. Len(cs) : cs2[i] = cs[h]
    BY <1>2, <1>3, <2>1
  <2> QED BY <1>4, <2>2 DEF OwnedCalls
<1>5. ASSUME NEW i \in 1 .. Len(cs2), NEW j \in 1 .. Len(cs2), i # j
      PROVE  cs2[i].list # cs2[j].list \/ cs2[i].list = Null
  <2>1. CASE i = 1 \/ j = 1
    BY <1>2, <2>1
  <2>2. CASE i # 1 /\ j # 1
    <3>1. i - 1 \in 1 .. Len(cs) /\ j - 1 \in 1 .. Len(cs) /\ i - 1 # j - 1
      BY <1>2, <1>5, <2>2
    <3>2. cs2[i] = cs[i - 1] /\ cs2[j] = cs[j - 1]
      BY <1>2, <2>2
    <3> QED BY <3>1, <3>2 DEF OwnedCalls
  <2> QED BY <2>1, <2>2
<1> QED BY <1>1, <1>4, <1>5 DEF OwnedCalls

(* and the running one may be left out. *)
LEMMA OwnedDropped ==
  ASSUME NEW ls, NEW own, NEW cs \in Seq(CallRecords), cs # <<>>, OwnedCalls(ls, own, cs)
  PROVE  OwnedCalls(ls, own, Tail(cs))
<1>1. PICK cs2 : cs2 = Tail(cs)
  OBVIOUS
<1>2. /\ Len(cs2) = Len(cs) - 1 /\ Len(cs) \in Nat
      /\ \A i \in 1 .. Len(cs) - 1 : cs2[i] = cs[i + 1]
  BY <1>1, DropFirst
<1>3. \A i \in 1 .. Len(cs2) : cs2[i] = cs[i + 1] /\ i + 1 \in 1 .. Len(cs)
  BY <1>2
<1>4. ASSUME NEW i \in 1 .. Len(cs2), cs2[i].link # Null
      PROVE  own[cs2[i].link] = 0 /\ ls[cs2[i].list].tail < cs2[i].link
  <2>1. PICK h \in 1 .. Len(cs) : cs2[i] = cs[h]
    BY <1>3
  <2> QED BY <1>4, <2>1 DEF OwnedCalls
<1>5. ASSUME NEW i \in 1 .. Len(cs2), NEW j \in 1 .. Len(cs2), i # j
      PROVE  cs2[i].list # cs2[j].list \/ cs2[i].list = Null
  <2>1. i + 1 \in 1 .. Len(cs) /\ j + 1 \in 1 .. Len(cs) /\ i + 1 # j + 1
    BY <1>2, <1>5
  <2>2. cs2[i] = cs[i + 1] /\ cs2[j] = cs[j + 1]
    BY <1>3
  <2> QED BY <2>1, <2>2 DEF OwnedCalls
<1> QED BY <1>1, <1>4, <1>5 DEF OwnedCalls

(* A new header begins an empty list, *)
LEMMA HeaderKeepsApart ==
  ASSUME NEW ns, NEW ls \in Seq(ListRecords), NEW ks, Len(ks) \in Nat, NEW cs, cs # <<>>, CallsOK(ns, ls, ks, cs),
         LinksApart(ls, ks, cs), NEW r \in ListRecords, r.tail = -(Len(ls) + 1), r.next \in {Null, Stale},
         NEW c \in CallRecords, c.link = Null, c.list = Len(ls) + 1
  PROVE  LinksApart(Append(ls, r), ks, <<c>> \o Tail(cs))
<1>1. PICK own \in [1 .. Len(ks) -> 0 .. Len(ls)] : OwnedLinks(ls, ks, own) /\ OwnedCalls(ls, own, cs)
  BY DEF LinksApart
<1>2. PICK ls2, cs2, new : ls2 = Append(ls, r) /\ cs2 = <<c>> \o Tail(cs) /\ new = Len(ls) + 1
  OBVIOUS
<1>3. /\ Len(ls2) = new /\ ls2[new] = r /\ new \in 1 .. new /\ Len(ls) \in Nat
      /\ \A l \in 1 .. Len(ls) : ls2[l] = ls[l]
  BY <1>2, AppendLast
<1>4. /\ Len(cs2) = Len(cs) /\ cs2[1] = c /\ Len(cs) \in Nat
      /\ \A i \in 2 .. Len(cs) : cs2[i] = cs[i]
  <2>1. cs \in Seq(CallRecords)
    BY DEF CallsOK
  <2> QED BY <1>2, <2>1, ReplaceFirst
<1>5. own \in [1 .. Len(ks) -> 0 .. Len(ls2)]
  BY <1>1, <1>2, <1>3
<1>6. ASSUME NEW k \in 1 .. Len(ks), own[k] # 0, ks[k].next = Null
      PROVE  ls2[own[k]].tail = k
  <2>1. own[k] \in 1 .. Len(ls)
    BY <1>1, <1>6
  <2> QED BY <1>1, <1>3, <1>6, <2>1 DEF OwnedLinks
<1>7. ASSUME NEW l \in 1 .. Len(ls2)
      PROVE  /\ ls2[l].tail \in 1 .. Len(ks) => own[ls2[l].tail] = l /\ ls2[l].next \in 1 .. Len(ks) /\ own[ls2[l].next] = l
             /\ ls2[l].tail = -l => ls2[l].next \in {Null, Stale}
  <2>1. CASE l = new
    BY <1>2, <1>3, <2>1
  <2>2. CASE l # new
    <3>1. l \in 1 .. Len(ls)
      BY <1>2, <1>3, <2>2
    <3> QED BY <1>1, <1>3, <3>1 DEF OwnedLinks
  <2> QED BY <2>1, <2>2
<1>8. OwnedLinks(ls2, ks, own)
  <2>1. \A k \in 1 .. Len(ks) :
          ks[k].next # Null => ks[k].next \in k + 1 .. Len(ks) /\ own[k] # 0 /\ own[ks[k].next] = own[k]
    BY <1>1 DEF OwnedLinks
  <2> QED BY <1>6, <1>7, <2>1 DEF OwnedLinks
<1>9. \A i \in 2 .. Len(cs) : cs[i].list \in 0 .. Len(ls) /\ (cs[i].link # Null => cs[i].list \in 1 .. Len(ls))
  BY DEF CallsOK, CallOK, Null
<1>10. ASSUME NEW i \in 1 .. Len(cs2), cs2[i].link # Null
       PROVE  own[cs2[i].link] = 0 /\ ls2[cs2[i].list].tail < cs2[i].link
  <2>1. i \in 2 .. Len(cs) /\ cs2[i] = cs[i]
    BY <1>4, <1>10
  <2>2. ls2[cs[i].list] = ls[cs[i].list]
    BY <1>3, <1>9, <1>10, <2>1
  <2> QED BY <1>1, <1>10, <2>1, <2>2 DEF OwnedCalls
<1>11. ASSUME NEW i \in 1 .. Len(cs2), NEW j \in 1 .. Len(cs2), i # j
       PROVE  cs2[i].list # cs2[j].list \/ cs2[i].list = Null
  <2>1. CASE i = 1
    <3>1. j \in 2 .. Len(cs) /\ cs2[j] = cs[j]
      BY <1>4, <1>11, <2>1
    <3>2. cs[j].list \in 0 .. Len(ls)
      BY <1>9, <3>1
    <3> QED BY <1>3, <1>4, <2>1, <3>1, <3>2
  <2>2. CASE j = 1
    <3>1. i \in 2 .. Len(cs) /\ cs2[i] = cs[i]
      BY <1>4, <1>11, <2>2
    <3>2. cs[i].list \in 0 .. Len(ls)
      BY <1>9, <3>1
    <3> QED BY <1>3, <1>4, <2>2, <3>1, <3>2
  <2>3. CASE i # 1 /\ j # 1
    <3>1. cs2[i] = cs[i] /\ cs2[j] = cs[j] /\ i \in 1 .. Len(cs) /\ j \in 1 .. Len(cs)
      BY <1>4, <2>3
    <3> QED BY <1>1, <1>11, <3>1 DEF OwnedCalls
  <2> QED BY <2>1, <2>2, <2>3
<1>12. OwnedCalls(ls2, own, cs2)
  BY <1>10, <1>11 DEF OwnedCalls
<1> QED BY <1>2, <1>5, <1>8, <1>12 DEF LinksApart

(* and a new link is in no list. *)
LEMMA LinkKeepsApart ==
  ASSUME NEW ns, NEW ls \in Seq(ListRecords), NEW ks \in Seq(LinkRecords), NEW cs, cs # <<>>,
         CallsOK(ns, ls, ks, cs), PointersOK(ls, ks), ShapesOK(ls, ks), LinksApart(ls, ks, cs),
         NEW r \in LinkRecords, r.next = Null, cs[1].list # Null,
         NEW c \in CallRecords, c.list = cs[1].list, c.link = Len(ks) + 1
  PROVE  LinksApart(ls, Append(ks, r), <<c>> \o Tail(cs))
<1>1. PICK own \in [1 .. Len(ks) -> 0 .. Len(ls)] : OwnedLinks(ls, ks, own) /\ OwnedCalls(ls, own, cs)
  BY DEF LinksApart
<1>2. PICK ks2, cs2, new : ks2 = Append(ks, r) /\ cs2 = <<c>> \o Tail(cs) /\ new = Len(ks) + 1
  OBVIOUS
<1>3. /\ Len(ks2) = new /\ ks2[new] = r /\ Len(ks) \in Nat /\ Len(ls) \in Nat
      /\ \A k \in 1 .. Len(ks) : ks2[k] = ks[k]
  BY <1>2, AppendLast
<1>4. /\ Len(cs2) = Len(cs) /\ cs2[1] = c /\ Len(cs) \in Nat
      /\ \A i \in 2 .. Len(cs) : cs2[i] = cs[i]
  <2>1. cs \in Seq(CallRecords)
    BY DEF CallsOK
  <2> QED BY <1>2, <2>1, ReplaceFirst
<1>5. PICK own2 : own2 = [k \in 1 .. new |-> IF k = new THEN 0 ELSE own[k]]
  OBVIOUS
<1>6. own2 \in [1 .. Len(ks2) -> 0 .. Len(ls)]
  BY <1>1, <1>2, <1>3, <1>5
<1>7. own2[new] = 0 /\ \A k \in 1 .. Len(ks) : own2[k] = own[k]
  BY <1>2, <1>3, <1>5
<1>8. \A l \in 1 .. Len(ls) :
        /\ ls[l].tail = -l \/ ls[l].tail \in 1 .. Len(ks)
        /\ ls[l].next \in {Null, Stale, -l} \cup 1 .. Len(ks)
  BY DEF ShapesOK, ListOK, PointersOK
<1>9. ASSUME NEW k \in 1 .. Len(ks2)
      PROVE  /\ ks2[k].next # Null => ks2[k].next \in k + 1 .. Len(ks2) /\ own2[k] # 0 /\ own2[ks2[k].next] = own2[k]
             /\ own2[k] # 0 /\ ks2[k].next = Null => ls[own2[k]].tail = k
  <2>1. CASE k = new
    BY <1>3, <1>7, <2>1
  <2>2. CASE k # new
    <3>1. k \in 1 .. Len(ks) /\ ks2[k] = ks[k] /\ own2[k] = own[k]
      BY <1>2, <1>3, <1>7, <2>2
    <3>2. CASE ks[k].next # Null
      <4>1. ks[k].next \in k + 1 .. Len(ks) /\ own[k] # 0 /\ own[ks[k].next] = own[k]
        BY <1>1, <3>1, <3>2 DEF OwnedLinks
      <4>2. own2[ks[k].next] = own[ks[k].next] /\ ks[k].next \in k + 1 .. Len(ks2)
        BY <1>2, <1>3, <1>7, <3>1, <4>1
      <4> QED BY <3>1, <3>2, <4>1, <4>2
    <3>3. CASE ks[k].next = Null
      BY <1>1, <3>1, <3>3 DEF OwnedLinks
    <3> QED BY <3>2, <3>3
  <2> QED BY <2>1, <2>2
<1>10. ASSUME NEW l \in 1 .. Len(ls)
       PROVE  /\ ls[l].tail \in 1 .. Len(ks2) => own2[ls[l].tail] = l /\ ls[l].next \in 1 .. Len(ks2) /\ own2[ls[l].next] = l
              /\ ls[l].tail = -l => ls[l].next \in {Null, Stale}
  <2>1. CASE ls[l].tail \in 1 .. Len(ks2)
    <3>1. ls[l].tail \in 1 .. Len(ks)
      BY <1>3, <1>8, <2>1
    <3>2. own[ls[l].tail] = l /\ ls[l].next \in 1 .. Len(ks) /\ own[ls[l].next] = l
      BY <1>1, <3>1 DEF OwnedLinks
    <3>3. own2[ls[l].tail] = l /\ own2[ls[l].next] = l /\ ls[l].next \in 1 .. Len(ks2)
      BY <1>2, <1>3, <1>7, <3>1, <3>2
    <3>4. ls[l].tail # -l
      BY <1>3, <3>1
    <3> QED BY <3>3, <3>4
  <2>2. CASE ls[l].tail \notin 1 .. Len(ks2)
    BY <1>1, <2>2 DEF OwnedLinks
  <2> QED BY <2>1, <2>2
<1>11. OwnedLinks(ls, ks2, own2)
  BY <1>9, <1>10 DEF OwnedLinks
<1>12. CallOK(ns, ls, ks, cs[1]) /\ 1 \in 1 .. Len(cs)
  <2>1. cs \in Seq(CallRecords)
    BY DEF CallsOK
  <2>2. 1 \in 1 .. Len(cs)
    BY <2>1
  <2> QED BY <2>2 DEF CallsOK
<1>13. ASSUME NEW i \in 1 .. Len(cs2), cs2[i].link # Null
       PROVE  own2[cs2[i].link] = 0 /\ ls[cs2[i].list].tail < cs2[i].link
  <2>1. CASE i = 1
    <3>1. cs2[i] = c
      BY <1>4, <2>1
    <3>2. cs[1].list \in 1 .. Len(ls)
      BY <1>3, <1>12 DEF CallOK, Null
    <3>3. ls[cs[1].list].tail < new
      <4>1. PICK l \in 1 .. Len(ls) : l = cs[1].list
        BY <3>2
      <4>2. -l < new /\ \A x \in 1 .. Len(ks) : x < new
        BY <1>2, <1>3
      <4>3. ls[l].tail < new
        BY <1>8, <4>2
      <4> QED BY <4>1, <4>3
    <3> QED BY <1>2, <1>7, <3>1, <3>3
  <2>2. CASE i # 1
    <3>1. i \in 2 .. Len(cs) /\ i \in 1 .. Len(cs) /\ cs2[i] = cs[i]
      BY <1>4, <2>2
    <3>2. cs[i].link \in 1 .. Len(ks)
      <4>1. CallOK(ns, ls, ks, cs[i])
        BY <3>1 DEF CallsOK
      <4> QED BY <1>3, <1>13, <3>1, <4>1 DEF CallOK, Null
    <3> QED BY <1>1, <1>7, <1>13, <3>1, <3>2 DEF OwnedCalls
  <2> QED BY <2>1, <2>2
<1>14. ASSUME NEW i \in 1 .. Len(cs2), NEW j \in 1 .. Len(cs2), i # j
       PROVE  cs2[i].list # cs2[j].list \/ cs2[i].list = Null
  <2>1. \A h \in 1 .. Len(cs) : cs2[h].list = cs[h].list
    <3>1. \A h \in 1 .. Len(cs) : h = 1 \/ h \in 2 .. Len(cs)
      BY <1>4
    <3> QED BY <1>4, <3>1
  <2> QED BY <1>1, <1>4, <1>14, <2>1 DEF OwnedCalls
<1> QED BY <1>2, <1>6, <1>11, <1>13, <1>14 DEF LinksApart, OwnedCalls

(* ks2, ls2: after list l has taken link k behind its last one. *)
LinkTaken(ls, ks, l, k, n, ls2, ks2) ==
  LET tail == ls[l].tail
  IN /\ Len(ks2) = Len(ks) /\ Len(ls2) = Len(ls)
     /\ ks2[k].next = Null /\ ks2[k].ast = n
     /\ tail > 0 => ks2[tail].next = k /\ ks2[tail].ast = ks[tail].ast
     /\ \A m \in 1 .. Len(ks) : m # k /\ m # tail => ks2[m] = ks[m]
     /\ ls2[l].head = ls[l].head /\ ls2[l].tail = k
     /\ ls2[l].next = IF tail > 0 THEN ls[l].next ELSE k
     /\ \A m \in 1 .. Len(ls) : m # l => ls2[m] = ls[m]

(* Link k is no list's and was made behind the last one of list l. *)
MayTake(ls, ks, own, l, k) ==
  /\ Len(ls) \in Nat /\ Len(ks) \in Nat
  /\ own \in [1 .. Len(ks) -> 0 .. Len(ls)] /\ OwnedLinks(ls, ks, own)
  /\ l \in 1 .. Len(ls) /\ k \in 1 .. Len(ks) /\ own[k] = 0 /\ ks[k].next = Null
  /\ ls[l].tail = -l \/ ls[l].tail \in 1 .. k - 1

(* Then link k is owned by l. *)
LEMMA AppendKeepsApart ==
  ASSUME NEW ls, NEW ks, NEW ls2, NEW ks2, NEW own, NEW l, NEW k, NEW n,
         MayTake(ls, ks, own, l, k), LinkTaken(ls, ks, l, k, n, ls2, ks2)
  PROVE  OwnedLinks(ls2, ks2, [own EXCEPT ![k] = l])
<1>1. /\ Len(ls) \in Nat /\ Len(ks) \in Nat
      /\ own \in [1 .. Len(ks) -> 0 .. Len(ls)] /\ OwnedLinks(ls, ks, own)
      /\ l \in 1 .. Len(ls) /\ k \in 1 .. Len(ks) /\ own[k] = 0 /\ ks[k].next = Null
      /\ ls[l].tail = -l \/ ls[l].tail \in 1 .. k - 1
  BY DEF MayTake
<1> USE <1>1
<1>2. PICK own2 : own2 = [own EXCEPT ![k] = l]
  OBVIOUS
<1>3. own2[k] = l /\ \A j \in 1 .. Len(ks) : j # k => own2[j] = own[j]
  BY <1>2
<1>4. PICK t : t = ls[l].tail
  OBVIOUS
<1>5. t > 0 => t \in 1 .. k - 1 /\ own[t] = l /\ ls[l].next \in 1 .. Len(ks) /\ own[ls[l].next] = l
  <2>1. ASSUME t > 0 PROVE t \in 1 .. k - 1 /\ t \in 1 .. Len(ks)
    BY <1>4, <2>1
  <2> QED BY <1>4, <2>1 DEF OwnedLinks
<1>6. /\ Len(ks2) = Len(ks) /\ Len(ls2) = Len(ls)
      /\ ks2[k].next = Null
      /\ t > 0 => ks2[t].next = k
      /\ \A m \in 1 .. Len(ks) : m # k /\ m # t => ks2[m] = ks[m]
      /\ ls2[l].tail = k
      /\ ls2[l].next = IF t > 0 THEN ls[l].next ELSE k
      /\ \A m \in 1 .. Len(ls) : m # l => ls2[m] = ls[m]
  BY <1>4 DEF LinkTaken
<1>7. ASSUME NEW j \in 1 .. Len(ks2)
      PROVE  /\ ks2[j].next # Null => ks2[j].next \in j + 1 .. Len(ks2) /\ own2[j] # 0 /\ own2[ks2[j].next] = own2[j]
             /\ own2[j] # 0 /\ ks2[j].next = Null => ls2[own2[j]].tail = j
  <2>1. j \in 1 .. Len(ks)
    BY <1>6
  <2>2. CASE j = k
    BY <1>3, <1>6, <2>2
  <2>3. CASE j # k /\ j = t
    <3>1. ks2[j].next = k /\ own2[j] = l /\ own2[k] = l /\ k \in j + 1 .. Len(ks) /\ k # 0 /\ l # 0
      BY <1>3, <1>5, <1>6, <2>1, <2>3
    <3> QED BY <1>6, <3>1 DEF Null
  <2>4. CASE j # k /\ j # t
    <3>1. ks2[j] = ks[j] /\ own2[j] = own[j]
      BY <1>3, <1>6, <2>1, <2>4
    <3>2. CASE ks[j].next # Null
      <4>1. ks[j].next \in j + 1 .. Len(ks) /\ own[j] # 0 /\ own[ks[j].next] = own[j]
        BY <2>1, <3>2 DEF OwnedLinks
      <4>2. ks[j].next \in 1 .. Len(ks) /\ ks[j].next # k
        BY <2>1, <4>1
      <4>3. own2[ks[j].next] = own[j]
        BY <1>3, <4>1, <4>2
      <4> QED BY <1>6, <3>1, <3>2, <4>1, <4>3
    <3>3. CASE ks[j].next = Null /\ own[j] # 0
      <4>1. own[j] \in 0 .. Len(ls)
        BY <1>1, <2>1
      <4>2. own[j] \in 1 .. Len(ls) /\ ls[own[j]].tail = j
        <5>1. ls[own[j]].tail = j
          BY <1>1, <2>1, <3>3 DEF OwnedLinks
        <5> QED BY <1>1, <3>3, <4>1, <5>1
      <4>3. own[j] # l
        BY <1>4, <2>4, <4>2
      <4>4. ls2[own[j]] = ls[own[j]]
        BY <1>6, <4>2, <4>3
      <4> QED BY <3>1, <3>3, <4>2, <4>4
    <3>4. CASE ks[j].next = Null /\ own[j] = 0
      BY <3>1, <3>4
    <3> QED BY <3>2, <3>3, <3>4
  <2> QED BY <2>2, <2>3, <2>4
<1>8. ASSUME NEW m \in 1 .. Len(ls2)
      PROVE  /\ ls2[m].tail \in 1 .. Len(ks2) => own2[ls2[m].tail] = m /\ ls2[m].next \in 1 .. Len(ks2) /\ own2[ls2[m].next] = m
             /\ ls2[m].tail = -m => ls2[m].next \in {Null, Stale}
  <2>1. CASE m = l
    <3>1. ls2[l].tail = k /\ own2[k] = l /\ k # -l
      BY <1>3, <1>6
    <3>2. CASE t > 0
      <4>1. ls2[l].next = ls[l].next /\ ls[l].next \in 1 .. Len(ks) /\ own[ls[l].next] = l /\ ls[l].next # k
        BY <1>5, <1>6, <3>2
      <4> QED BY <1>3, <1>6, <2>1, <3>1, <4>1
    <3>3. CASE ~(t > 0)
      BY <1>3, <1>6, <2>1, <3>1, <3>3
    <3> QED BY <3>2, <3>3
  <2>2. CASE m # l
    <3>1. ls2[m] = ls[m] /\ m \in 1 .. Len(ls)
      BY <1>6, <2>2
    <3>2. CASE ls[m].tail \in 1 .. Len(ks)
      <4>1. own[ls[m].tail] = m /\ ls[m].next \in 1 .. Len(ks) /\ own[ls[m].next] = m
        BY <3>1, <3>2 DEF OwnedLinks
      <4>2. ls[m].tail # k /\ ls[m].next # k
        BY <3>1, <4>1
      <4>3. ls[m].tail # -m
        BY <3>1, <3>2
      <4> QED BY <1>3, <1>6, <3>1, <3>2, <4>1, <4>2, <4>3
    <3>3. CASE ls[m].tail \notin 1 .. Len(ks)
      BY <1>6, <3>1, <3>3 DEF OwnedLinks
    <3> QED BY <3>2, <3>3
  <2> QED BY <2>1, <2>2
<1> QED BY <1>2, <1>7, <1>8 DEF OwnedLinks

(* Owned links ascend. *)
LEMMA OwnedAscends ==
  ASSUME NEW ls, NEW ks, NEW own, OwnedLinks(ls, ks, own)
  PROVE  Ascends(ks)
BY DEF OwnedLinks, Ascends

(* The first link of a list belongs to it. *)
LEMMA FirstOwned ==
  ASSUME NEW ls, NEW ks, NEW own, OwnedLinks(ls, ks, own), ShapesOK(ls, ks), Len(ks) \in Nat, Len(ks) < Stale,
         NEW m \in 1 .. Len(ls), ls[m].next \in 1 .. Len(ks)
  PROVE  own[ls[m].next] = m
<1>1. ls[m].tail = -m \/ ls[m].tail \in 1 .. Len(ks)
  BY DEF ShapesOK, ListOK
<1>2. ls[m].next # Null /\ ls[m].next # Stale
  BY DEF Null, Stale
<1>3. ls[m].tail # -m
  BY <1>2 DEF OwnedLinks
<1> QED BY <1>1, <1>3 DEF OwnedLinks

(* List l shows node n behind what it showed, and the others what they showed. *)
ShowsNode(ls, ks, l, n, ls2, ks2) ==
  /\ NodesIn(ls2, ks2, l) = Append(NodesIn(ls, ks, l), n)
  /\ \A m \in 1 .. Len(ls) : m # l => NodesIn(ls2, ks2, m) = NodesIn(ls, ks, m)

(* ast_list_append_link does that. *)
LEMMA AppendShows ==
  ASSUME NEW ls, NEW ks, NEW ls2, NEW ks2, NEW own, NEW l, NEW k, NEW n,
         ks \in Seq(LinkRecords), ks2 \in Seq(LinkRecords), n \in Int,
         MayTake(ls, ks, own, l, k), LinkTaken(ls, ks, l, k, n, ls2, ks2),
         ShapesOK(ls, ks), Len(ks) < Stale
  PROVE  ShowsNode(ls, ks, l, n, ls2, ks2)
<1>1. /\ Len(ls) \in Nat /\ Len(ks) \in Nat
      /\ own \in [1 .. Len(ks) -> 0 .. Len(ls)] /\ OwnedLinks(ls, ks, own)
      /\ l \in 1 .. Len(ls) /\ k \in 1 .. Len(ks) /\ own[k] = 0 /\ ks[k].next = Null
      /\ ls[l].tail = -l \/ ls[l].tail \in 1 .. k - 1
  BY DEF MayTake
<1> USE <1>1
<1>2. Ascends(ks) /\ Ascends(ks2)
  <2>1. OwnedLinks(ls2, ks2, [own EXCEPT ![k] = l])
    BY AppendKeepsApart
  <2> QED BY <2>1, OwnedAscends
<1>3. PICK t : t = ls[l].tail
  OBVIOUS
<1>4. t > 0 => /\ t \in 1 .. k - 1 /\ t \in 1 .. Len(ks)
               /\ own[t] = l /\ ls[l].next \in 1 .. Len(ks) /\ own[ls[l].next] = l
  <2>1. ASSUME t > 0 PROVE t \in 1 .. k - 1 /\ t \in 1 .. Len(ks)
    BY <1>3, <2>1
  <2> QED BY <1>3, <2>1 DEF OwnedLinks
<1>5. /\ Len(ks2) = Len(ks) /\ Len(ls2) = Len(ls)
      /\ ks2[k].next = Null /\ ks2[k].ast = n
      /\ t > 0 => ks2[t].next = k /\ ks2[t].ast = ks[t].ast
      /\ \A m \in 1 .. Len(ks) : m # k /\ m # t => ks2[m] = ks[m]
      /\ ls2[l].head = ls[l].head /\ ls2[l].tail = k
      /\ ls2[l].next = IF t > 0 THEN ls[l].next ELSE k
      /\ \A m \in 1 .. Len(ls) : m # l => ls2[m] = ls[m]
  BY <1>3 DEF LinkTaken
<1>6. ls[l].head = -l /\ (t = -l \/ t > 0) /\ (t # -l => ks[t].next = Null)
  <2>1. ListOK(ls, ks, l)
    BY <1>1 DEF ShapesOK
  <2>2. ls[l].head = -l /\ (ls[l].tail = -l \/ ls[l].tail > 0) /\ (ls[l].tail # -l => ks[ls[l].tail].next = Null)
    BY <1>1, <2>1 DEF ListOK
  <2> QED BY <1>3, <2>2
<1>7. NodesIn(ls2, ks2, l) = Append(NodesIn(ls, ks, l), n)
  <2>1. CASE t > 0
    <3> DEFINE S == {j \in 1 .. Len(ks) : own[j] = l}
    <3>1. ks[t].next = Null
      BY <1>1, <1>6, <2>1
    <3>2. ASSUME NEW j \in 1 .. Len(ks), j \in S /\ j # t
          PROVE  /\ ks2[j].ast = ks[j].ast /\ ks2[j].next = ks[j].next
                 /\ ks[j].next # Null /\ ks[j].next \in S
      <4>1. j # k
        BY <3>2
      <4>2. ks2[j] = ks[j]
        BY <1>5, <3>2, <4>1
      <4>3. ks[j].next # Null
        BY <1>3, <3>2 DEF OwnedLinks
      <4>4. ks[j].next \in j + 1 .. Len(ks) /\ own[ks[j].next] = l
        BY <3>2, <4>3 DEF OwnedLinks
      <4>5. ks[j].next \in S
        BY <4>4
      <4> QED BY <4>2, <4>3, <4>5
    <3>3. PICK first \in 1 .. Len(ks) : first = ls[l].next /\ own[first] = l
      BY <1>4, <2>1
    <3>4. first \in S /\ t \in S /\ t \in 1 .. Len(ks)
      BY <1>4, <2>1, <3>3
    <3> HIDE DEF S
    <3>5. FollowIn(ks2, first) = FollowIn(ks, first) \o <<n>>
      <4>1. ks2[t].ast = ks[t].ast /\ ks2[t].next = k
        BY <1>5, <2>1
      <4>2. Len(ks2) = Len(ks) /\ ks2[k].ast = n /\ ks2[k].next = Null
        BY <1>5
      <4>3. \A j \in 1 .. Len(ks) : j \in S /\ j # t =>
              /\ ks2[j].ast = ks[j].ast /\ ks2[j].next = ks[j].next
              /\ ks[j].next # Null /\ ks[j].next \in S
        BY <3>2
      <4>4. t \in 1 .. Len(ks) /\ t \in S /\ first \in S
        BY <3>4
      <4>5. /\ ks2[t].ast = ks[t].ast /\ ks[t].next = Null /\ ks2[t].next = k
            /\ ks2[k].ast = n /\ ks2[k].next = Null /\ Len(ks2) = Len(ks) /\ Ascends(ks) /\ Ascends(ks2)
        BY <1>2, <3>1, <4>1, <4>2
      <4>6. GrownBy(ks, ks2, S, t, k, n)
        BY <4>3, <4>4, <4>5 DEF GrownBy
      <4> QED BY <4>4, <4>6, FollowGrows
    <3>6. NodesIn(ls, ks, l) = FollowIn(ks, first) /\ NodesIn(ls2, ks2, l) = FollowIn(ks2, first)
      BY <1>5, <1>6, <2>1, <3>3 DEF NodesIn
    <3>7. FollowIn(ks, first) \in Seq(Int)
      BY <1>2, FollowTyped
    <3>8. PICK s \in Seq(Int) : s = FollowIn(ks, first)
      BY <3>7
    <3>9. Append(s, n) = s \o <<n>>
      OBVIOUS
    <3> QED BY <3>5, <3>6, <3>8, <3>9
  <2>2. CASE t = -l
    <3>1. ls[l].next \in {Null, Stale}
      BY <1>3, <2>2 DEF OwnedLinks
    <3>2. ls[l].next \notin 1 .. Len(ks)
      BY <1>1, <3>1 DEF Null, Stale
    <3>3. NodesIn(ls, ks, l) = <<>>
      BY <3>2 DEF NodesIn
    <3>4. ls2[l].next = k /\ k \in 1 .. Len(ks2)
      BY <1>5, <2>2
    <3>5. NodesIn(ls2, ks2, l) = FollowIn(ks2, k)
      BY <1>5, <1>6, <3>4 DEF NodesIn
    <3>6. FollowIn(ks2, k) = <<n>> \o <<>>
      BY <1>1, <1>2, <1>5, <3>4, FollowUnfolds
    <3>7. <<n>> \o <<>> = <<n>> /\ Append(<<>>, n) = <<n>>
      OBVIOUS
    <3> QED BY <3>3, <3>5, <3>6, <3>7
  <2> QED BY <1>6, <2>1, <2>2
<1>8. ASSUME NEW m \in 1 .. Len(ls), m # l
      PROVE  NodesIn(ls2, ks2, m) = NodesIn(ls, ks, m)
  <2> DEFINE S == {j \in 1 .. Len(ks) : own[j] = m}
  <2>1. ls2[m] = ls[m]
    BY <1>5, <1>8
  <2>2. CASE ls[m].head = -m /\ ls[m].next \in 1 .. Len(ks)
    <3>1. own[ls[m].next] = m
      BY <1>1, <2>2, FirstOwned
    <3>2. PICK first \in 1 .. Len(ks) : first = ls[m].next
      BY <2>2
    <3>3. first \in S
      BY <3>1, <3>2
    <3>4. ASSUME NEW j \in 1 .. Len(ks), j \in S
          PROVE  /\ ks2[j].ast = ks[j].ast /\ ks2[j].next = ks[j].next
                 /\ ks[j].next # Null => ks[j].next \in S
      <4>1. j # k /\ j # t
        BY <1>4, <1>6, <1>8, <3>4
      <4>2. ks2[j] = ks[j]
        BY <1>5, <4>1
      <4>3. ASSUME ks[j].next # Null PROVE ks[j].next \in S
        <5>1. ks[j].next \in j + 1 .. Len(ks) /\ own[ks[j].next] = m
          BY <3>4, <4>3 DEF OwnedLinks
        <5> QED BY <5>1
      <4> QED BY <4>2, <4>3
    <3> HIDE DEF S
    <3>5. Len(ks2) \in Nat /\ Len(ks) <= Len(ks2)
      BY <1>1, <1>5
    <3>6. FollowIn(ks2, first) = FollowIn(ks, first)
      BY <1>1, <1>2, <3>3, <3>4, <3>5, FollowStays
    <3> QED BY <1>5, <2>1, <2>2, <3>2, <3>6 DEF NodesIn
  <2>3. CASE ~(ls[m].head = -m /\ ls[m].next \in 1 .. Len(ks))
    BY <1>5, <2>1, <2>3 DEF NodesIn
  <2> QED BY <2>2, <2>3
<1> QED BY <1>7, <1>8 DEF ShowsNode

-----------------------------------------------------------------------------
(* The invariant of the structs of the tree. *)

(* The invariant: while no assertion has failed, entries and links are apart *)
(* and there are as many links as the bound says, fewer than what a page     *)
(* held before is taken for.                                                 *)
ApartInv ==
  failed = "no" => /\ EntriesApart(nodes, attributes)
                   /\ LinksApart(lists, links, calls)
                   /\ Len(links) <= MaxLinks

(* The same of the next state. *)
LEMMA ApartInvPrimed ==
  ApartInv' <=> (failed' = "no" => /\ EntriesApart(nodes', attributes')
                                   /\ LinksApart(lists', links', calls')
                                   /\ Len(links') <= MaxLinks)
BY DEF ApartInv, EntriesApart, LinksApart, OwnedLinks, OwnedCalls

(* The running call after a step: without a list. *)
LEMMA CallAdvanced ==
  ASSUME NEW r \in CallRecords, NEW c, c = [r EXCEPT !.step = @ + 1, !.list = Null]
  PROVE  /\ c \in CallRecords /\ c.ast = r.ast /\ c.taken = r.taken /\ c.list = Null
         /\ c.link = r.link /\ c.step = r.step + 1
<1>1. PICK a, s, t, l, k :
        /\ r = [ast |-> a, step |-> s, taken |-> t, list |-> l, link |-> k]
        /\ a \in Nat /\ s \in Nat \ {0} /\ t \in Nat /\ l \in Nat /\ k \in Nat
  BY DEF CallRecords
<1>2. c = [ast |-> a, step |-> s + 1, taken |-> t, list |-> 0, link |-> k]
  BY <1>1 DEF Null
<1>3. s + 1 \in Nat \ {0} /\ 0 \in Nat
  BY <1>1
<1>4. c \in CallRecords
  BY <1>1, <1>2, <1>3 DEF CallRecords
<1> QED BY <1>1, <1>2, <1>4 DEF Null

(* BuildRoot, BeginNode and WrapNode *)
LEMMA NodesKeepApart ==
  ASSUME TreeInv, ApartInv, BuildRoot \/ BeginNode \/ WrapNode
  PROVE  ApartInv'
<1>1. PICK kind \in Kinds : new_ast_node(kind)
  BY NodeStep
<1>2. PICK taken \in 0 .. Len(nodes) : calls' = <<NewCall(taken)>> \o calls
  BY NodeStep
<1>3. failed = "no" /\ lists' = lists /\ links' = links
  BY <1>1, NodeStep DEF new_ast_node
<1>4. EntriesApart(nodes, attributes) /\ LinksApart(lists, links, calls) /\ Len(links) <= MaxLinks
  BY <1>3 DEF ApartInv
<1>5. Len(nodes) \in Nat /\ Len(attributes) \in Nat /\ NodesOK(nodes, attributes) /\ calls \in Seq(CallRecords)
  BY Lengths DEF TreeInv, TreeOK, CallsOK
<1>6. EntriesApart(nodes', attributes')
  BY <1>1, <1>4, <1>5, NodeKeepsApart
<1>7. PICK own \in [1 .. Len(links) -> 0 .. Len(lists)] : OwnedLinks(lists, links, own) /\ OwnedCalls(lists, own, calls)
  BY <1>4 DEF LinksApart
<1>8. PICK c : c = NewCall(taken)
  OBVIOUS
<1>9. c \in CallRecords /\ c.list = Null /\ c.link = Null
  BY <1>5, <1>8 DEF NewCall, CallRecords, Null
<1>10. OwnedCalls(lists, own, <<c>> \o calls)
  BY <1>5, <1>7, <1>9, OwnedPushed
<1>11. LinksApart(lists, links, <<c>> \o calls)
  BY <1>7, <1>10 DEF LinksApart
<1>12. LinksApart(lists', links', calls')
  BY <1>2, <1>3, <1>8, <1>11
<1> QED BY <1>3, <1>4, <1>6, <1>12, ApartInvPrimed

(* The steps that set an attribute keep them apart and write one entry. *)
LEMMA SetsKeepApart ==
  ASSUME TreeInv, ApartInv, Sets
  PROVE  /\ ApartInv'
         /\ lists' = lists /\ links' = links
         /\ \E type \in AttrTypes, value \in {Lexeme, Cell} \cup Nat :
              EntryChanged(Running.ast, Doing.name, type, value) \/ EntryInFront(Running.ast, Doing.name, type, value)
         /\ Descends(attributes') /\ attributes' \in Seq(AttrRecords) /\ nodes' \in Seq(NodeRecords)
<1>1. PICK type \in AttrTypes : \E v \in {Lexeme, Cell} \cup Nat : WritesAttribute(type, v)
  BY SetWrites
<1>2. PICK value \in {Lexeme, Cell} \cup Nat : WritesAttribute(type, value)
  BY <1>1
<1>3. value \in Int
  BY DEF Lexeme, Cell
<1>4. /\ InRule /\ failed = "no" /\ calls # <<>> /\ Running.link = Null /\ StepDone
  BY SetWrites
<1>5. /\ TreeOK /\ Running.ast \in 1 .. Len(nodes) /\ Doing.name \in AttrNames /\ Running \in CallRecords
      /\ nodes[Running.ast].attr_count < AttrCapacity
  BY <1>4, RunningOK DEF TreeInv
<1>6. PICK n \in 1 .. Len(nodes) : n = Running.ast
  BY <1>5
<1>7. PICK name \in AttrNames : name = Doing.name
  BY <1>5
<1>8. /\ ast_setattr(n, name, value, type) /\ ValueOK(nodes, lists, links, type, value)
      /\ nodes[n].attr_count < AttrCapacity
  BY <1>2, <1>5, <1>6, <1>7 DEF WritesAttribute
<1>9. /\ EntryChanged(n, name, type, value) \/ EntryInFront(n, name, type, value)
      /\ nodes' \in Seq(NodeRecords) /\ attributes' \in Seq(AttrRecords) /\ Descends(attributes')
      /\ failed' = failed /\ lists' = lists /\ links' = links
  BY <1>3, <1>5, <1>8, EntrySet
<1>10. EntriesApart(nodes, attributes) /\ LinksApart(lists, links, calls) /\ Len(links) <= MaxLinks
  BY <1>4 DEF ApartInv
<1>11. /\ Len(nodes) \in Nat /\ Len(attributes) \in Nat /\ NodesOK(nodes, attributes) /\ Descends(attributes)
       /\ calls \in Seq(CallRecords)
  BY Lengths DEF TreeInv, TreeOK, CallsOK, AttributesOK
<1>12. EntriesApart(nodes', attributes')
  BY <1>9, <1>10, <1>11, WriteKeepsApart
<1>13. PICK own \in [1 .. Len(links) -> 0 .. Len(lists)] : OwnedLinks(lists, links, own) /\ OwnedCalls(lists, own, calls)
  BY <1>10 DEF LinksApart
<1>14. PICK c : c = [Running EXCEPT !.step = @ + 1, !.list = Null]
  OBVIOUS
<1>15. c \in CallRecords /\ c.list = Null /\ c.link = Null
  BY <1>4, <1>5, <1>14, CallAdvanced
<1>16. Tail(calls) \in Seq(CallRecords)
  BY <1>4, <1>11
<1>17. OwnedCalls(lists, own, Tail(calls))
  BY <1>4, <1>11, <1>13, OwnedDropped
<1>18. OwnedCalls(lists, own, <<c>> \o Tail(calls))
  BY <1>15, <1>16, <1>17, OwnedPushed
<1>19. LinksApart(lists, links, <<c>> \o Tail(calls))
  BY <1>13, <1>18 DEF LinksApart
<1>20. LinksApart(lists', links', calls')
  BY <1>4, <1>9, <1>14, <1>19 DEF StepDone, Update
<1>21. ApartInv'
  BY <1>9, <1>10, <1>12, <1>20, ApartInvPrimed
<1> QED BY <1>6, <1>7, <1>9, <1>21

(* EndNode *)
LEMMA EndNodeKeepsApart ==
  ASSUME TreeInv, ApartInv, EndNode
  PROVE  ApartInv'
<1>1. /\ failed = "no" /\ calls # <<>> /\ calls' = Tail(calls) /\ failed' = failed
      /\ nodes' = nodes /\ attributes' = attributes /\ lists' = lists /\ links' = links
  BY DEF EndNode, Parsing, InPhase, treeVars
<1>2. EntriesApart(nodes, attributes) /\ LinksApart(lists, links, calls) /\ Len(links) <= MaxLinks
  BY <1>1 DEF ApartInv
<1>3. calls \in Seq(CallRecords)
  BY DEF TreeInv, CallsOK
<1>4. PICK own \in [1 .. Len(links) -> 0 .. Len(lists)] : OwnedLinks(lists, links, own) /\ OwnedCalls(lists, own, calls)
  BY <1>2 DEF LinksApart
<1>5. OwnedCalls(lists, own, Tail(calls))
  BY <1>1, <1>3, <1>4, OwnedDropped
<1>6. LinksApart(lists, links, Tail(calls))
  BY <1>4, <1>5 DEF LinksApart
<1>7. LinksApart(lists', links', calls') /\ EntriesApart(nodes', attributes')
  BY <1>1, <1>2, <1>6
<1> QED BY <1>1, <1>2, <1>7, ApartInvPrimed
(* NewListHeader *)
LEMMA HeaderApart ==
  ASSUME TreeInv, ApartInv, NewListHeader
  PROVE  ApartInv'
<1>1. /\ failed = "no" /\ calls # <<>> /\ Running.list = Null /\ Running.link = Null
      /\ calls' = <<[Running EXCEPT !.list = Len(lists) + 1]>> \o Tail(calls)
  <2>1. Parsing /\ InRule /\ Running.list = Null
    BY DEF NewListHeader, AtStep
  <2>2. Running.link = Null
    BY <2>1, StepPrepared
  <2> QED BY <2>1, <2>2 DEF NewListHeader, Parsing, InPhase, Update
<1>2. Len(lists) \in Nat /\ Len(links) \in Nat
  BY Lengths DEF TreeInv
<1>3. EntriesApart(nodes, attributes) /\ LinksApart(lists, links, calls) /\ Len(links) <= MaxLinks
  BY <1>1 DEF ApartInv
<1>4. SUFFICES ASSUME failed' = "no" PROVE LinksApart(lists', links', calls')
  BY <1>3, HeaderMade, ApartInvPrimed
<1>5. PICK x \in ListRecords :
        /\ lists' = Append(lists, x) /\ x.next \in {Null, Stale} /\ x.tail = -(Len(lists) + 1)
  BY <1>4, HeaderMade
<1>6. PICK c : c = [Running EXCEPT !.list = Len(lists) + 1]
  OBVIOUS
<1>7. Running \in CallRecords /\ Len(lists) + 1 \in Nat
  BY <1>1, <1>2, RunningOK
<1>8. c \in CallRecords /\ c.list = Len(lists) + 1 /\ c.link = Null
  BY <1>1, <1>6, <1>7, CallWithList
<1>9. CallsOK(nodes, lists, links, calls) /\ lists \in Seq(ListRecords)
  BY DEF TreeInv, TreeOK, PointersOK
<1>10. LinksApart(Append(lists, x), links, <<c>> \o Tail(calls))
  BY <1>1, <1>2, <1>3, <1>5, <1>8, <1>9, HeaderKeepsApart
<1>11. links' = links
  BY HeaderMade
<1> QED BY <1>1, <1>5, <1>6, <1>10, <1>11

(* AddLink *)
LEMMA AddLinkApart ==
  ASSUME TreeInv, ApartInv, AddLink
  PROVE  ApartInv' /\ lists' = lists /\ nodes' = nodes /\ attributes' = attributes
         /\ \E r \in LinkRecords : links' = Append(links, r)
<1>1. /\ failed = "no" /\ calls # <<>> /\ Running.list # Null
      /\ nodes' = nodes /\ attributes' = attributes /\ lists' = lists /\ failed' = failed
      /\ calls' = <<[Running EXCEPT !.link = Len(links) + 1]>> \o Tail(calls)
      /\ Len(links) < MaxLinks
  BY DEF AddLink, Parsing, InPhase, NewLink, Update
<1>2. Len(lists) \in Nat /\ Len(links) \in Nat
  BY Lengths DEF TreeInv
<1>3. EntriesApart(nodes, attributes) /\ LinksApart(lists, links, calls) /\ Len(links) <= MaxLinks
  BY <1>1 DEF ApartInv
<1>4. PICK r : r = [prev |-> Null, next |-> Null, ast |-> Null]
  OBVIOUS
<1>5. r \in LinkRecords /\ r.next = Null
  BY <1>4 DEF LinkRecords, Null
<1>6. links' = Append(links, r)
  BY <1>4 DEF AddLink, NewLink
<1>7. PICK c : c = [Running EXCEPT !.link = Len(links) + 1]
  OBVIOUS
<1>8. Running = calls[1] /\ Running \in CallRecords /\ Len(links) + 1 \in Nat
  BY <1>1, <1>2, RunningOK
<1>9. c \in CallRecords /\ c.list = calls[1].list /\ c.link = Len(links) + 1
  BY <1>7, <1>8, CallWithLink
<1>10. /\ CallsOK(nodes, lists, links, calls) /\ lists \in Seq(ListRecords) /\ links \in Seq(LinkRecords)
       /\ PointersOK(lists, links) /\ ShapesOK(lists, links)
  BY <1>1 DEF TreeInv, TreeOK, PointersOK, LinksOK
<1>11. calls[1].list # Null
  BY <1>1, <1>8
<1>12. LinksApart(lists, Append(links, r), <<c>> \o Tail(calls))
  BY <1>1, <1>3, <1>5, <1>9, <1>10, <1>11, LinkKeepsApart
<1>13. LinksApart(lists', links', calls') /\ EntriesApart(nodes', attributes')
  BY <1>1, <1>3, <1>6, <1>7, <1>12
<1>14. Len(links') <= MaxLinks
  BY <1>1, <1>2, <1>5, <1>6, <1>10, MemoryAssumption
<1> QED BY <1>1, <1>5, <1>6, <1>13, <1>14, ApartInvPrimed

(* Calls when the running one has lost its link. *)
LEMMA OwnedAppended ==
  ASSUME calls # <<>>, CallsOK(nodes, lists, links, calls), Len(lists) \in Nat, Len(links) \in Nat,
         NEW own \in [1 .. Len(links) -> 0 .. Len(lists)], OwnedCalls(lists, own, calls),
         NEW l \in 1 .. Len(lists), NEW k \in 1 .. Len(links), calls[1].list = l, calls[1].link = k,
         \A m \in 1 .. Len(lists) : m # l => lists'[m] = lists[m],
         NEW c \in CallRecords, c.list = l, c.link = Null,
         NEW own2, own2 = [own EXCEPT ![k] = l]
  PROVE  OwnedCalls(lists', own2, <<c>> \o Tail(calls))
<1>1. PICK cs2 : cs2 = <<c>> \o Tail(calls)
  OBVIOUS
<1>2. \A j \in 1 .. Len(links) : j # k => own2[j] = own[j]
  BY <1>1
<1>3. calls \in Seq(CallRecords) /\ \A i \in 1 .. Len(calls) : CallOK(nodes, lists, links, calls[i])
  BY DEF CallsOK
<1>4. /\ Len(cs2) = Len(calls) /\ cs2[1] = c /\ Len(calls) \in Nat /\ 1 \in 1 .. Len(calls)
      /\ \A i \in 2 .. Len(calls) : cs2[i] = calls[i]
  BY <1>1, <1>3, ReplaceFirst
<1>5. ASSUME NEW i \in 1 .. Len(cs2), cs2[i].link # Null
      PROVE  own2[cs2[i].link] = 0 /\ lists'[cs2[i].list].tail < cs2[i].link
  <2>1. i \in 2 .. Len(calls) /\ i \in 1 .. Len(calls) /\ cs2[i] = calls[i] /\ i # 1
    BY <1>4, <1>5
  <2>2. calls[i].link \in 1 .. Len(links) /\ calls[i].list \in 1 .. Len(lists) /\ calls[i].list # Null
    BY <1>3, <1>5, <2>1 DEF CallOK, Null
  <2>3. calls[i].link # k
    BY <1>4, <1>5, <2>1 DEF CallsOK
  <2>4. calls[i].list # l
    BY <1>4, <2>1, <2>2 DEF OwnedCalls
  <2> QED BY <1>2, <1>5, <2>1, <2>2, <2>3, <2>4 DEF OwnedCalls
<1>6. ASSUME NEW i \in 1 .. Len(cs2), NEW j \in 1 .. Len(cs2), i # j
      PROVE  cs2[i].list # cs2[j].list \/ cs2[i].list = Null
  <2>1. \A h \in 1 .. Len(calls) : cs2[h].list = calls[h].list
    <3>1. \A h \in 1 .. Len(calls) : h = 1 \/ h \in 2 .. Len(calls)
      BY <1>4
    <3> QED BY <1>4, <3>1
  <2> QED BY <1>4, <1>6, <2>1 DEF OwnedCalls
<1> QED BY <1>1, <1>5, <1>6 DEF OwnedCalls

(* List l has taken node n, and the other lists show what they did. *)
Appended(l, n) ==
  /\ lists' \in Seq(ListRecords) /\ links' \in Seq(LinkRecords) /\ Len(lists') = Len(lists)
  /\ NodesIn(lists', links', l) = Append(NodesIn(lists, links, l), n)
  /\ \A m \in 1 .. Len(lists) : m # l => NodesIn(lists', links', m) = NodesIn(lists, links, m)

(* What a page held before is no link (MemoryAssumption). *)
LEMMA LinksBelowStale == MaxLinks \in Nat /\ MaxLinks < Stale /\ Stale \in Int
<1>1. PICK s \in Int : s = Stale
  BY SMT DEF Stale
<1>2. MaxLinks \in 0 .. s - 1
  BY <1>1, MemoryAssumption
<1> QED BY <1>1, <1>2

(* AppendElement: the list takes the node, or an assertion fails and nothing *)
(* is changed.                                                              *)
LEMMA AppendApart ==
  ASSUME TreeInv, ApartInv, AppendElement
  PROVE  /\ ApartInv'
         /\ nodes' = nodes /\ attributes' = attributes
         /\ \/ lists' = lists /\ links' = links
            \/ \E l \in 1 .. Len(lists) : \E n \in 1 .. Len(nodes) : Appended(l, n)
<1>1. /\ failed = "no" /\ phase = "parse" /\ calls # <<>>
      /\ Running.link # Null /\ finished # Null
      /\ calls' = <<[Running EXCEPT !.link = Null]>> \o Tail(calls)
      /\ nodes' = nodes /\ attributes' = attributes
      /\ ast_list_append_link(Running.list, Running.link, finished)
  BY DEF AppendElement, Parsing, InPhase, Parser, Update, ast_list_append_link
<1>2. Len(nodes) \in Nat /\ Len(lists) \in Nat /\ Len(links) \in Nat
  BY Lengths DEF TreeInv
<1>3. Running = calls[1] /\ Running \in CallRecords /\ CallOK(nodes, lists, links, Running)
  BY <1>1, RunningOK
<1>4. PICK l \in 1 .. Len(lists) : l = Running.list
  BY <1>1, <1>2, <1>3 DEF CallOK, Null
<1>5. PICK k \in 1 .. Len(links) : k = Running.link /\ links[k].next = Null
  BY <1>1, <1>2, <1>3 DEF CallOK, Null
<1>6. PICK n \in 1 .. Len(nodes) : n = finished
  BY <1>1, <1>2, FinishedOK DEF Null
<1>7. /\ links \in Seq(LinkRecords) /\ lists \in Seq(ListRecords)
      /\ CallsOK(nodes, lists, links, calls) /\ ShapesOK(lists, links)
  BY <1>1 DEF TreeInv, TreeOK, LinksOK, PointersOK
<1>8. /\ EntriesApart(nodes, attributes) /\ Len(links) <= MaxLinks
      /\ \E own \in [1 .. Len(links) -> 0 .. Len(lists)] : OwnedLinks(lists, links, own) /\ OwnedCalls(lists, own, calls)
  BY <1>1 DEF ApartInv, LinksApart
<1>9. PICK own \in [1 .. Len(links) -> 0 .. Len(lists)] : OwnedLinks(lists, links, own) /\ OwnedCalls(lists, own, calls)
  BY <1>8
<1>10. own[k] = 0 /\ lists[l].tail < k
  <2>1. 1 \in 1 .. Len(calls)
    BY <1>1, <1>7 DEF CallsOK
  <2> QED BY <1>1, <1>3, <1>4, <1>5, <1>9, <2>1 DEF OwnedCalls
<1>11. PICK tail : tail = lists[l].tail
  OBVIOUS
<1>12. tail = -l \/ tail \in 1 .. k - 1
  <2>1. tail = -l \/ tail \in 1 .. Len(links)
    BY <1>7, <1>11 DEF ShapesOK, ListOK
  <2> QED BY <1>10, <1>11, <2>1
<1>13. CASE Linked(l, k, n) /\ UNCHANGED failed
  <2>1. tail = -l \/ tail \in 1 .. Len(links)
    BY <1>12
  <2>2. tail # k /\ n \in Nat
    BY <1>12
  <2>3. links \in Seq(LinkRecords) /\ lists \in Seq(ListRecords) /\ tail = lists[l].tail /\ Linked(l, k, n)
    BY <1>7, <1>11, <1>13
  <2>4. /\ links' \in Seq(LinkRecords) /\ Len(links') = Len(links)
        /\ links'[k].prev = tail /\ links'[k].next = links[k].next /\ links'[k].ast = n
        /\ tail > 0 => /\ links'[tail].prev = links[tail].prev /\ links'[tail].next = k
                       /\ links'[tail].ast = links[tail].ast
        /\ \A m \in 1 .. Len(links) : m # k /\ m # tail => links'[m] = links[m]
        /\ lists' \in Seq(ListRecords) /\ Len(lists') = Len(lists)
        /\ lists'[l].head = lists[l].head /\ lists'[l].tail = k
        /\ lists'[l].link_count = lists[l].link_count + 1
        /\ lists'[l].next = IF tail > 0 THEN lists[l].next ELSE k
        /\ \A m \in 1 .. Len(lists) : m # l => lists'[m] = lists[m]
    <3>1. HungLast(l, k, n, tail)
      BY <2>1, <2>2, <2>3, LinkHung
    <3> QED BY <3>1 DEF HungLast
  <2>5. LinkTaken(lists, links, l, k, n, lists', links')
    BY <1>5, <1>11, <2>4 DEF LinkTaken
  <2>6. lists[l].tail = -l \/ lists[l].tail \in 1 .. k - 1
    BY <1>11, <1>12
  <2>7. links[k].next = Null /\ own[k] = 0 /\ OwnedLinks(lists, links, own)
    BY <1>5, <1>9, <1>10
  <2>8. MayTake(lists, links, own, l, k)
    BY <1>2, <2>6, <2>7 DEF MayTake
  <2>9. OwnedLinks(lists', links', [own EXCEPT ![k] = l])
    BY <2>8, <2>5, AppendKeepsApart
  <2>10. PICK c : c = [Running EXCEPT !.link = Null]
    OBVIOUS
  <2>11. c \in CallRecords /\ c.list = l /\ c.link = Null
    <3>1. Running \in CallRecords /\ Running.list = l /\ Null \in Nat
      BY <1>3, <1>4 DEF Null
    <3> QED BY <2>10, <3>1, CallWithLink
  <2>12. calls[1].list = l /\ calls[1].link = k /\ OwnedCalls(lists, own, calls)
    BY <1>3, <1>4, <1>5, <1>9
  <2>13. \A m \in 1 .. Len(lists) : m # l => lists'[m] = lists[m]
    BY <2>4
  <2>14. PICK own2 : own2 = [own EXCEPT ![k] = l]
    OBVIOUS
  <2>15. OwnedCalls(lists', own2, <<c>> \o Tail(calls))
    BY <1>1, <1>2, <1>7, <2>11, <2>12, <2>13, <2>14, OwnedAppended
  <2>16. own2 \in [1 .. Len(links') -> 0 .. Len(lists')]
    BY <2>4, <2>14
  <2>17. OwnedLinks(lists', links', own2) /\ OwnedCalls(lists', own2, <<c>> \o Tail(calls))
    BY <2>9, <2>15, <2>14
  <2>18. LinksApart(lists', links', calls')
    BY <1>1, <2>10, <2>16, <2>17 DEF LinksApart
  <2>19. EntriesApart(nodes', attributes') /\ Len(links') <= MaxLinks
    BY <1>1, <1>8, <2>4
  <2>20. Len(links) < Stale /\ n \in Int
    BY <1>2, <1>8, LinksBelowStale
  <2>21. /\ NodesIn(lists', links', l) = Append(NodesIn(lists, links, l), n)
         /\ \A m \in 1 .. Len(lists) : m # l => NodesIn(lists', links', m) = NodesIn(lists, links, m)
    <3>1. links \in Seq(LinkRecords) /\ links' \in Seq(LinkRecords) /\ ShapesOK(lists, links)
      BY <1>7, <2>4
    <3>2. Len(links) < Stale /\ n \in Int
      BY <2>20
    <3>3. PICK ls2, ks2 : ls2 = lists' /\ ks2 = links'
      OBVIOUS
    <3>4. ks2 \in Seq(LinkRecords) /\ LinkTaken(lists, links, l, k, n, ls2, ks2)
      BY <2>5, <3>1, <3>3
    <3>5. ShowsNode(lists, links, l, n, ls2, ks2)
      BY <2>8, <3>1, <3>2, <3>4, AppendShows
    <3> QED BY <3>3, <3>5 DEF ShowsNode
  <2>22. Appended(l, n)
    BY <2>4, <2>21 DEF Appended
  <2> QED BY <1>1, <2>18, <2>19, <2>22, ApartInvPrimed
<1>14. CASE lists' = lists /\ links' = links /\ failed' # "no"
  BY <1>1, <1>14, ApartInvPrimed
<1> QED BY <1>1, <1>4, <1>5, <1>6, <1>13, <1>14 DEF ast_list_append_link

-----------------------------------------------------------------------------
(* Nothing is apart from nothing. *)
LEMMA EmptyApart == EntriesApart(<<>>, <<>>) /\ LinksApart(<<>>, <<>>, <<>>)
<1>1. PICK own : own = [k \in 1 .. 0 |-> 0]
  OBVIOUS
<1>2. own \in [1 .. 0 -> 1 .. 0] /\ own \in [1 .. 0 -> 0 .. 0] /\ Len(<<>>) = 0
  BY <1>1
<1>3. EntriesApart(<<>>, <<>>)
  <2>1. PICK e : e = <<>> /\ Len(e) = 0
    OBVIOUS
  <2>2. own \in [1 .. Len(e) -> 1 .. Len(e)]
    BY <1>2, <2>1
  <2>3. \A n \in 1 .. Len(e) : FALSE
    BY <2>1
  <2>4. /\ \A n \in 1 .. Len(e) : \A h \in 0 .. AttrCapacity - 1 :
             e[n].attrs[h] # Null => own[e[n].attrs[h]] = n
        /\ \A a \in 1 .. Len(e) : e[a].next_attr # Null => own[e[a].next_attr] = own[a]
    BY <2>3
  <2>5. EntriesApart(e, e)
    BY Zenon, <2>2, <2>4 DEF EntriesApart
  <2> QED BY <2>1, <2>5
<1>4. OwnedLinks(<<>>, <<>>, own) /\ OwnedCalls(<<>>, own, <<>>)
  BY <1>2 DEF OwnedLinks, OwnedCalls
<1> QED BY <1>2, <1>3, <1>4 DEF LinksApart

(* When all the structs are gone, *)
LEMMA TreeGone ==
  ASSUME nodes' = <<>>, attributes' = <<>>, lists' = <<>>, links' = <<>>, calls' = <<>>
  PROVE  ApartInv'
<1>1. EntriesApart(nodes', attributes') /\ LinksApart(lists', links', calls')
  BY EmptyApart
<1>2. Len(links') <= MaxLinks
  BY MemoryAssumption
<1> QED BY <1>1, <1>2, ApartInvPrimed

(* and at the beginning. *)
LEMMA InitApart == Init => ApartInv
<1> SUFFICES ASSUME Init PROVE ApartInv
  OBVIOUS
<1>1. nodes = <<>> /\ attributes = <<>> /\ lists = <<>> /\ links = <<>> /\ calls = <<>>
  BY DEF Init, TreeInit
<1>2. EntriesApart(nodes, attributes) /\ LinksApart(lists, links, calls)
  BY <1>1, EmptyApart
<1>3. Len(links) <= MaxLinks
  BY <1>1, MemoryAssumption
<1> QED BY <1>2, <1>3 DEF ApartInv

(* The actions that leave the tree alone. *)
Quiet ==
  \/ parse_cmdline_args \/ read_source \/ Tokenize \/ LexEnds \/ symtable_init
  \/ PrintReturns \/ symtable_flush \/ symtable_init_again \/ DeclareName \/ DeleteMain
  \/ ParseEnds \/ PrintTree \/ Ended

(* They change none of its structs, *)
LEMMA QuietLeaves ==
  ASSUME Quiet \/ UNCHANGED vars
  PROVE  /\ nodes' = nodes /\ attributes' = attributes /\ lists' = lists /\ links' = links
         /\ calls' = calls /\ (failed' = "no" => failed = "no")
<1>1. CASE \/ parse_cmdline_args \/ read_source \/ Tokenize \/ LexEnds \/ symtable_init
           \/ PrintReturns \/ symtable_flush \/ symtable_init_again \/ DeclareName \/ DeleteMain
  BY <1>1 DEF treeVars, buildVars, parse_cmdline_args, read_source, Tokenize, LexEnds, symtable_init,
              PrintReturns, symtable_flush, symtable_init_again, DeclareName, DeleteMain
<1>2. CASE ParseEnds \/ PrintTree
  BY <1>2 DEF treeVars, buildVars, ParseEnds, PrintTree, PrintStep, InPhase
<1>3. CASE Ended \/ UNCHANGED vars
  BY <1>3 DEF Ended, vars
<1> QED BY <1>1, <1>2, <1>3 DEF Quiet

(* so that all stays apart. *)
LEMMA QuietApart ==
  ASSUME ApartInv, Quiet \/ UNCHANGED vars
  PROVE  ApartInv'
<1>1. /\ nodes' = nodes /\ attributes' = attributes /\ lists' = lists /\ links' = links
      /\ calls' = calls /\ (failed' = "no" => failed = "no")
  BY QuietLeaves
<1> QED BY <1>1, ApartInvPrimed DEF ApartInv

(* When the process ends or the arena of the tree is deleted, nothing is left. *)
LEMMA EndsEmpty ==
  ASSUME TreeInv, OutOfMemory \/ FilenameRequired \/ FileMissing \/ LexicalError \/ SyntaxError \/ DeleteTree
  PROVE  nodes' = <<>> /\ attributes' = <<>> /\ lists' = <<>> /\ links' = <<>> /\ calls' = <<>>
<1>1. CASE OutOfMemory \/ FilenameRequired \/ FileMissing \/ LexicalError \/ SyntaxError
  BY <1>1 DEF OutOfMemory, FilenameRequired, FileMissing, LexicalError, SyntaxError, Leave
<1>2. CASE DeleteTree
  <2>1. calls = <<>>
    BY <1>2 DEF TreeInv, DeleteTree, InPhase
  <2> QED BY <1>2, <2>1 DEF DeleteTree, buildVars
<1> QED BY <1>1, <1>2

(* Every step keeps entries and links apart. *)
LEMMA NextApart == TreeInv /\ ApartInv /\ [Next]_vars => ApartInv'
BY NodesKeepApart, SetsKeepApart, EndNodeKeepsApart, HeaderApart, AddLinkApart, AppendApart,
   QuietApart, EndsEmpty, TreeGone DEF Next, Quiet, Sets

-----------------------------------------------------------------------------
(* The abstract tree. *)

(* What TreeOf and ListsOf show of these structs. *)
NodeShown(ns, as, n) == [kind |-> ns[n].kind, attrs |-> AttrsIn(as, ns[n].attrs)]
TreeShown(ns, as) == [n \in 1 .. Len(ns) |-> NodeShown(ns, as, n)]
ListsShown(ls, ks) == [l \in 1 .. Len(ls) |-> NodesIn(ls, ks, l)]

(* They are TreeOf and ListsOf, before a step *)
LEMMA ViewsAre ==
  ASSUME TreeInv
  PROVE  TreeOf = TreeShown(nodes, attributes) /\ ListsOf = ListsShown(lists, links)
<1>1. /\ DOMAIN nodes = 1 .. Len(nodes) /\ DOMAIN lists = 1 .. Len(lists)
      /\ lists \in Seq(ListRecords) /\ links \in Seq(LinkRecords)
  BY DEF TreeInv, TreeOK, NodesOK, PointersOK, LinksOK
<1>2. TreeOf = TreeShown(nodes, attributes)
  BY <1>1, AttrsAre DEF TreeOf, TreeShown, NodeShown
<1>3. \A l \in 1 .. Len(lists) : NodesOf(l) = NodesIn(lists, links, l)
  BY <1>1, NodesAre
<1>4. ListsOf = ListsShown(lists, links)
  BY <1>1, <1>3 DEF ListsOf, ListsShown
<1> QED BY <1>2, <1>4

(* and after it. *)
LEMMA ViewsAreNext ==
  ASSUME TreeInv'
  PROVE  TreeOf' = TreeShown(nodes', attributes') /\ ListsOf' = ListsShown(lists', links')
<1>1. /\ NodesOK(nodes', attributes') /\ PointersOK(lists', links') /\ LinksOK(nodes', links')
  BY TreeInvPrimed
<1>2. /\ DOMAIN nodes' = 1 .. Len(nodes') /\ DOMAIN lists' = 1 .. Len(lists')
      /\ lists' \in Seq(ListRecords) /\ links' \in Seq(LinkRecords)
  BY <1>1 DEF NodesOK, PointersOK, LinksOK
<1>3. TreeOf' = TreeShown(nodes', attributes')
  BY <1>2, AttrsAre DEF TreeOf, TreeShown, NodeShown
<1>4. \A l \in 1 .. Len(lists') : NodesOf(l)' = NodesIn(lists', links', l)
  BY <1>2, NodesAreNext
<1>5. ListsOf' = ListsShown(lists', links')
  BY <1>2, <1>4 DEF ListsOf, ListsShown
<1> QED BY <1>3, <1>5

(* t: s with x behind it, both of them sequences. *)
Extends(s, n, x, t) ==
  /\ s = [i \in 1 .. n |-> s[i]] /\ t = [i \in 1 .. n + 1 |-> t[i]]
  /\ t[n + 1] = x /\ \A i \in 1 .. n : t[i] = s[i]

(* Then t is what Append gives. *)
LEMMA AppendIs ==
  ASSUME NEW n, n \in Nat, NEW s, NEW x, NEW t, Extends(s, n, x, t)
  PROVE  t = Append(s, x)
<1> DEFINE S == {t[i] : i \in 1 .. n + 1}
<1>1. \A i \in 1 .. n + 1 : t[i] \in S
  OBVIOUS
<1> HIDE DEF S
<1>2. /\ s = [i \in 1 .. n |-> s[i]] /\ t = [i \in 1 .. n + 1 |-> t[i]]
      /\ t[n + 1] = x /\ \A i \in 1 .. n : t[i] = s[i]
  BY DEF Extends
<1>3. 1 .. n \subseteq 1 .. n + 1 /\ n + 1 \in 1 .. n + 1
  OBVIOUS
<1>4. \A i \in 1 .. n : s[i] \in S
  BY <1>1, <1>2, <1>3
<1>5. t \in [1 .. n + 1 -> S]
  <2>1. PICK f : f = t
    OBVIOUS
  <2>2. [i \in 1 .. n + 1 |-> f[i]] \in [1 .. n + 1 -> S]
    BY <1>1, <2>1
  <2> QED BY <1>2, <2>1, <2>2
<1>6. s \in [1 .. n -> S]
  <2>1. PICK f : f = s
    OBVIOUS
  <2>2. [i \in 1 .. n |-> f[i]] \in [1 .. n -> S]
    BY <1>4, <2>1
  <2> QED BY <1>2, <2>1, <2>2
<1>7. x \in S
  BY <1>1, <1>2, <1>3
<1>8. t \in Seq(S) /\ s \in Seq(S) /\ Len(t) = n + 1 /\ Len(s) = n
  BY <1>5, <1>6
<1>9. PICK u : u = Append(s, x)
  OBVIOUS
<1>10. u \in Seq(S) /\ Len(u) = n + 1 /\ u[n + 1] = x /\ \A i \in 1 .. n : u[i] = s[i]
  BY <1>7, <1>8, <1>9
<1>11. \A i \in 1 .. n + 1 : i \in 1 .. n \/ i = n + 1
  OBVIOUS
<1>12. \A i \in 1 .. n + 1 : u[i] = t[i]
  BY <1>2, <1>10, <1>11
<1>13. u = t
  BY <1>8, <1>10, <1>12
<1> QED BY <1>9, <1>13

-----------------------------------------------------------------------------
(* new_ast_node adds a node without attributes. *)
LEMMA NodeShows ==
  ASSUME TreeInv, TreeInv', NEW kind \in Kinds, new_ast_node(kind)
  PROVE  Tree!NewNode
<1>1. PICK r : r = [kind |-> kind, attr_count |-> 0, attrs |-> [h \in 0 .. AttrCapacity - 1 |-> Null]]
  OBVIOUS
<1>2. /\ nodes' = Append(nodes, r) /\ attributes' = attributes /\ lists' = lists /\ links' = links
      /\ r.kind = kind /\ \A h \in 0 .. AttrCapacity - 1 : r.attrs[h] = Null
  BY <1>1 DEF new_ast_node
<1>3. /\ nodes \in Seq(NodeRecords) /\ Len(nodes) \in Nat /\ Len(attributes) \in Nat /\ nodes' \in Seq(NodeRecords)
      /\ Descends(attributes)
  BY Lengths, TreeInvPrimed DEF TreeInv, TreeOK, NodesOK, AttributesOK
<1>4. /\ Len(nodes') = Len(nodes) + 1 /\ nodes'[Len(nodes) + 1] = r
      /\ \A m \in 1 .. Len(nodes) : nodes'[m] = nodes[m]
  BY <1>2, <1>3
<1>5. AttrsIn(attributes, r.attrs) = [name \in {} |-> 0]
  <2>1. ASSUME NEW x \in AttrNames PROVE FindIn(attributes, r.attrs[AttrHash[x]], x) = Null
    <3>1. AttrHash[x] \in 0 .. AttrCapacity - 1
      BY AttrTableAssumption
    <3>2. r.attrs[AttrHash[x]] = 0
      BY <1>2, <3>1 DEF Null
    <3>3. FindIn(attributes, 0, x) = 0
      BY <1>3, FindUnfolds DEF Null
    <3> QED BY <3>2, <3>3 DEF Null
  <2>2. {x \in AttrNames : FindIn(attributes, r.attrs[AttrHash[x]], x) # Null} = {}
    BY <2>1
  <2> QED BY <2>2 DEF AttrsIn
<1>6. PICK T : T = TreeShown(nodes, attributes)
  OBVIOUS
<1>7. PICK T2 : T2 = TreeShown(nodes', attributes')
  OBVIOUS
<1>8. /\ T = [i \in 1 .. Len(nodes) |-> T[i]]
      /\ T2 = [i \in 1 .. Len(nodes) + 1 |-> T2[i]]
      /\ \A i \in 1 .. Len(nodes) : T2[i] = T[i]
  BY <1>2, <1>3, <1>4, <1>6, <1>7 DEF TreeShown, NodeShown
<1>9. T2[Len(nodes) + 1] = [kind |-> kind, attrs |-> Tree!NoAttributes]
  BY <1>2, <1>3, <1>4, <1>5, <1>7 DEF TreeShown, NodeShown, Tree!NoAttributes
<1>10. T2 = Append(T, [kind |-> kind, attrs |-> Tree!NoAttributes])
  <2>1. PICK x : x = [kind |-> kind, attrs |-> Tree!NoAttributes]
    OBVIOUS
  <2>2. PICK len \in Nat : len = Len(nodes)
    BY <1>3
  <2>3. Extends(T, len, x, T2)
    BY <1>8, <1>9, <2>1, <2>2 DEF Extends
  <2>4. T2 = Append(T, x)
    BY <2>3, AppendIs
  <2> QED BY <2>1, <2>4
<1>11. TreeOf = T /\ TreeOf' = T2
  BY <1>6, <1>7, ViewsAre, ViewsAreNext
<1>12. ListsOf' = ListsOf
  BY <1>2, ViewsAre, ViewsAreNext
<1> QED BY <1>10, <1>11, <1>12 DEF Tree!NewNode

(* ast_setattr writes one attribute of one node. *)
LEMMA SetShows ==
  ASSUME TreeInv, TreeInv', ApartInv, Sets
  PROVE  Tree!SetAttr
<1>1. /\ lists' = lists /\ links' = links /\ failed = "no" /\ calls # <<>> /\ InRule
      /\ Descends(attributes') /\ attributes' \in Seq(AttrRecords) /\ nodes' \in Seq(NodeRecords)
  BY SetsKeepApart, SetWrites
<1>2. PICK n \in 1 .. Len(nodes) : n = Running.ast
  BY <1>1, RunningOK
<1>3. PICK name \in AttrNames : name = Doing.name
  BY <1>1, RunningOK
<1>4. PICK type \in AttrTypes : \E v \in {Lexeme, Cell} \cup Nat :
        EntryChanged(n, name, type, v) \/ EntryInFront(n, name, type, v)
  BY <1>2, <1>3, SetsKeepApart
<1>5. PICK value \in {Lexeme, Cell} \cup Nat :
        EntryChanged(n, name, type, value) \/ EntryInFront(n, name, type, value)
  BY <1>4
<1>6. /\ Len(nodes) \in Nat /\ Len(attributes) \in Nat /\ Len(attributes') \in Nat
      /\ NodesOK(nodes, attributes) /\ Descends(attributes) /\ EntriesApart(nodes, attributes)
  BY <1>1, Lengths DEF TreeInv, TreeOK, AttributesOK, ApartInv
<1>7. WriteShown(n, name, type, value)
  BY <1>1, <1>5, <1>6, WriteShows
<1>8. /\ Len(nodes') = Len(nodes) /\ \A m \in 1 .. Len(nodes) : nodes'[m].kind = nodes[m].kind
  <2>1. CASE EntryChanged(n, name, type, value)
    BY <2>1 DEF EntryChanged
  <2>2. CASE EntryInFront(n, name, type, value)
    BY <2>2 DEF EntryInFront
  <2> QED BY <1>5, <2>1, <2>2
<1>9. PICK pair : pair = [type |-> type, value |-> value]
  OBVIOUS
<1>10. pair \in [type : AttrTypes, value : {Lexeme, Cell} \cup Nat]
  BY <1>9
<1>11. PICK before : before = AttrsIn(attributes, nodes[n].attrs)
  OBVIOUS
<1>12. PICK after : after = [x \in DOMAIN before \cup {name} |-> IF x = name THEN pair ELSE before[x]]
  OBVIOUS
<1>13. AttrsIn(attributes', nodes'[n].attrs) = after
  BY <1>7, <1>9, <1>11, <1>12 DEF WriteShown
<1>14. \A m \in 1 .. Len(nodes) :
         m # n => AttrsIn(attributes', nodes'[m].attrs) = AttrsIn(attributes, nodes[m].attrs)
  BY <1>7 DEF WriteShown
<1>15. PICK T : T = TreeShown(nodes, attributes)
  OBVIOUS
<1>16. PICK T2 : T2 = TreeShown(nodes', attributes')
  OBVIOUS
<1>17. /\ DOMAIN T = 1 .. Len(nodes) /\ DOMAIN T2 = DOMAIN T
       /\ T[n].attrs = before /\ T2[n].attrs = after
  BY <1>8, <1>11, <1>13, <1>15, <1>16 DEF TreeShown, NodeShown
<1>18. T2 = [T EXCEPT ![n].attrs = after]
  <2>1. PICK r : r = [T[n] EXCEPT !.attrs = after]
    OBVIOUS
  <2>2. r = [kind |-> nodes[n].kind, attrs |-> after]
    BY <1>15, <2>1 DEF TreeShown, NodeShown
  <2>3. T2[n] = r
    BY <1>8, <1>13, <1>16, <2>2 DEF TreeShown, NodeShown
  <2>4. \A m \in 1 .. Len(nodes) : m # n => T2[m] = T[m]
    BY <1>8, <1>14, <1>15, <1>16 DEF TreeShown, NodeShown
  <2>5. T2 = [m \in 1 .. Len(nodes) |-> T2[m]] /\ T = [m \in 1 .. Len(nodes) |-> T[m]]
    BY <1>8, <1>15, <1>16 DEF TreeShown
  <2>6. T2 = [T EXCEPT ![n] = r]
    BY <2>3, <2>4, <2>5
  <2> QED BY <2>1, <2>6
<1>19. name \in DOMAIN after /\ after[name] = pair
  BY <1>12
<1>20. TreeOf = T /\ TreeOf' = T2 /\ ListsOf' = ListsOf
  BY <1>1, <1>15, <1>16, ViewsAre, ViewsAreNext
<1>21. n \in DOMAIN T /\ name \in DOMAIN T2[n].attrs /\ T2[n].attrs[name] = pair
  BY <1>17, <1>19
<1>22. T2 = [T EXCEPT ![n].attrs =
               [x \in DOMAIN T[n].attrs \cup {name} |-> IF x = name THEN T2[n].attrs[name] ELSE T[n].attrs[x]]]
  BY <1>12, <1>17, <1>18, <1>21
<1>23. /\ n \in DOMAIN TreeOf /\ name \in DOMAIN TreeOf'[n].attrs
       /\ name \in AttrNames /\ TreeOf'[n].attrs[name] \in [type : AttrTypes, value : {Lexeme, Cell} \cup Nat]
  BY <1>10, <1>20, <1>21
<1>24. TreeOf' = [TreeOf EXCEPT ![n].attrs =
                    [x \in DOMAIN TreeOf[n].attrs \cup {name} |->
                       IF x = name THEN TreeOf'[n].attrs[name] ELSE TreeOf[n].attrs[x]]]
  BY <1>20, <1>22
<1>25. DOMAIN TreeOf' = DOMAIN TreeOf /\ ListsOf' = ListsOf
  BY <1>17, <1>20
<1> QED BY Zenon, <1>23, <1>24, <1>25 DEF Tree!SetAttr

-----------------------------------------------------------------------------
(* ast_list_init adds an empty list, also when its assertion fails: the links *)
(* show nothing of what the page held.                                        *)
LEMMA HeaderShows ==
  ASSUME TreeInv, TreeInv', ApartInv, NewListHeader
  PROVE  Tree!NewList
<1>1. nodes' = nodes /\ attributes' = attributes /\ links' = links
  BY HeaderMade
<1>2. PICK x \in ListRecords : lists' = Append(lists, x) /\ x.next \in {Null, Stale}
  BY HeaderMade
<1>3. /\ lists \in Seq(ListRecords) /\ Len(lists) \in Nat /\ Len(links) \in Nat
  BY Lengths DEF TreeInv, TreeOK, PointersOK
<1>4. /\ Len(lists') = Len(lists) + 1 /\ lists'[Len(lists) + 1] = x
      /\ \A m \in 1 .. Len(lists) : lists'[m] = lists[m]
  BY <1>2, <1>3
<1>5. x.next \notin 1 .. Len(links)
  <2>1. failed = "no"
    BY DEF NewListHeader, AtStep, Parsing, InPhase
  <2>2. Len(links) <= MaxLinks
    BY <2>1 DEF ApartInv
  <2> QED BY <1>2, <1>3, <2>2, LinksBelowStale DEF Null
<1>6. PICK S : S = ListsShown(lists, links)
  OBVIOUS
<1>7. PICK S2 : S2 = ListsShown(lists', links')
  OBVIOUS
<1>8. /\ S = [i \in 1 .. Len(lists) |-> S[i]]
      /\ S2 = [i \in 1 .. Len(lists) + 1 |-> S2[i]]
      /\ \A i \in 1 .. Len(lists) : S2[i] = S[i]
  BY <1>1, <1>3, <1>4, <1>6, <1>7 DEF ListsShown, NodesIn
<1>9. S2[Len(lists) + 1] = <<>>
  BY <1>1, <1>3, <1>4, <1>5, <1>7 DEF ListsShown, NodesIn
<1>10. S2 = Append(S, <<>>)
  <2>1. PICK e : e = <<>>
    OBVIOUS
  <2>2. PICK len \in Nat : len = Len(lists)
    BY <1>3
  <2>3. Extends(S, len, e, S2)
    BY <1>8, <1>9, <2>1, <2>2 DEF Extends
  <2>4. S2 = Append(S, e)
    BY <2>3, AppendIs
  <2> QED BY <2>1, <2>4
<1>11. ListsOf = S /\ ListsOf' = S2 /\ TreeOf' = TreeOf
  BY <1>1, <1>6, <1>7, ViewsAre, ViewsAreNext
<1> QED BY <1>10, <1>11 DEF Tree!NewList

(* ast_list_append_link puts the node at the end of one list, or does nothing. *)
LEMMA ElementShows ==
  ASSUME TreeInv, TreeInv', ApartInv, AppendElement
  PROVE  Tree!AppendNode \/ UNCHANGED Tree!vars
<1>1. nodes' = nodes /\ attributes' = attributes
  BY AppendApart
<1>2. TreeOf' = TreeOf
  BY <1>1, ViewsAre, ViewsAreNext
<1>3. CASE lists' = lists /\ links' = links
  <2>1. ListsOf' = ListsOf
    BY <1>3, ViewsAre, ViewsAreNext
  <2> QED BY <1>2, <2>1 DEF Tree!vars
<1>4. CASE \E l \in 1 .. Len(lists) : \E n \in 1 .. Len(nodes) : Appended(l, n)
  <2>1. PICK l \in 1 .. Len(lists) : \E n \in 1 .. Len(nodes) : Appended(l, n)
    BY <1>4
  <2>2. PICK n \in 1 .. Len(nodes) : Appended(l, n)
    BY <2>1
  <2>3. PICK S : S = ListsShown(lists, links)
    OBVIOUS
  <2>4. PICK S2 : S2 = ListsShown(lists', links')
    OBVIOUS
  <2>5. PICK row : row = Append(S[l], n)
    OBVIOUS
  <2>6. /\ Len(lists') = Len(lists)
        /\ NodesIn(lists', links', l) = Append(NodesIn(lists, links, l), n)
        /\ \A m \in 1 .. Len(lists) : m # l => NodesIn(lists', links', m) = NodesIn(lists, links, m)
    BY <2>2 DEF Appended
  <2>7. S2[l] = row /\ \A m \in 1 .. Len(lists) : m # l => S2[m] = S[m]
    BY <2>3, <2>4, <2>5, <2>6 DEF ListsShown
  <2>8. S = [m \in 1 .. Len(lists) |-> S[m]] /\ S2 = [m \in 1 .. Len(lists) |-> S2[m]]
    BY <2>3, <2>4, <2>6 DEF ListsShown
  <2>9. S2 = [S EXCEPT ![l] = row]
    BY <2>7, <2>8
  <2>10. ListsOf = S /\ ListsOf' = S2 /\ l \in DOMAIN S
    BY <2>3, <2>4, <2>8, ViewsAre, ViewsAreNext
  <2>11. n \in DOMAIN TreeOf
    <3>1. TreeOf = TreeShown(nodes, attributes)
      BY ViewsAre
    <3> QED BY <3>1 DEF TreeShown
  <2>12. l \in DOMAIN ListsOf /\ ListsOf' = [ListsOf EXCEPT ![l] = Append(ListsOf[l], n)]
    BY <2>5, <2>9, <2>10
  <2>13. Tree!AppendNode
    BY Zenon, <1>2, <2>11, <2>12 DEF Tree!AppendNode
  <2> QED BY <2>13
<1> QED BY <1>3, <1>4, AppendApart

-----------------------------------------------------------------------------
(* A link that is in no list does not show. *)
LEMMA LinkHides ==
  ASSUME TreeInv, TreeInv', ApartInv, AddLink
  PROVE  UNCHANGED Tree!vars
<1>1. nodes' = nodes /\ attributes' = attributes /\ lists' = lists /\ ApartInv'
  BY AddLinkApart
<1>2. PICK r \in LinkRecords : links' = Append(links, r)
  BY AddLinkApart
<1>3. /\ links \in Seq(LinkRecords) /\ Len(links) \in Nat /\ Len(lists) \in Nat
      /\ PointersOK(lists, links)
  BY Lengths DEF TreeInv, TreeOK, LinksOK
<1>4. /\ Len(links') = Len(links) + 1 /\ Len(links') \in Nat /\ Len(links) <= Len(links')
      /\ \A k \in 1 .. Len(links) : links'[k] = links[k]
  BY <1>2, <1>3
<1>5. failed = "no" /\ failed' = "no"
  BY DEF AddLink, Parsing, InPhase, NewLink
<1>6. Ascends(links) /\ Len(links) <= MaxLinks
  <2>1. LinksApart(lists, links, calls) /\ Len(links) <= MaxLinks
    BY <1>5 DEF ApartInv
  <2>2. PICK own \in [1 .. Len(links) -> 0 .. Len(lists)] : OwnedLinks(lists, links, own)
    BY <2>1 DEF LinksApart
  <2> QED BY <2>1, <2>2, OwnedAscends
<1>7. Ascends(links') /\ Len(links') <= MaxLinks
  <2>1. LinksApart(lists', links', calls') /\ Len(links') <= MaxLinks
    BY <1>1, <1>5, ApartInvPrimed
  <2>2. PICK own \in [1 .. Len(links') -> 0 .. Len(lists')] : OwnedLinks(lists', links', own)
    BY <2>1 DEF LinksApart
  <2> QED BY <2>1, <2>2, OwnedAscends
<1>8. ASSUME NEW l \in 1 .. Len(lists) PROVE NodesIn(lists', links', l) = NodesIn(lists, links, l)
  <2>1. CASE lists[l].next \in 1 .. Len(links)
    <3>1. PICK first \in 1 .. Len(links) : first = lists[l].next
      BY <2>1
    <3>2. \A j \in 1 .. Len(links) : j \in 1 .. Len(links) =>
            /\ links'[j].ast = links[j].ast /\ links'[j].next = links[j].next
            /\ links[j].next # Null => links[j].next \in 1 .. Len(links)
      BY <1>3, <1>4, <1>6 DEF Ascends
    <3>3. FollowIn(links', first) = FollowIn(links, first)
      BY <1>3, <1>4, <1>6, <1>7, <3>2, FollowStays
    <3>4. lists[l].next \in 1 .. Len(links')
      BY <1>3, <1>4, <2>1
    <3> QED BY <1>1, <2>1, <3>1, <3>3, <3>4 DEF NodesIn
  <2>2. CASE lists[l].next \notin 1 .. Len(links)
    <3>1. lists[l].next \in {Null, Stale, -l}
      BY <1>3, <2>2 DEF PointersOK
    <3>2. lists[l].next \notin 1 .. Len(links')
      BY <1>4, <1>7, <3>1, LinksBelowStale DEF Null
    <3> QED BY <1>1, <2>2, <3>2 DEF NodesIn
  <2> QED BY <2>1, <2>2
<1>9. ListsShown(lists', links') = ListsShown(lists, links)
  BY <1>1, <1>8 DEF ListsShown
<1> QED BY <1>1, <1>9, ViewsAre, ViewsAreNext DEF Tree!vars

(* A step that changes none of the structs does not show, *)
LEMMA UnchangedHides ==
  ASSUME TreeInv, TreeInv', nodes' = nodes, attributes' = attributes, lists' = lists, links' = links
  PROVE  UNCHANGED Tree!vars
BY ViewsAre, ViewsAreNext DEF Tree!vars

(* one that loses them all drops the tree, *)
LEMMA GoneShows ==
  ASSUME TreeInv', nodes' = <<>>, attributes' = <<>>, lists' = <<>>, links' = <<>>
  PROVE  Tree!Drop
<1>1. /\ TreeShown(<<>>, <<>>) = <<>> /\ ListsShown(<<>>, <<>>) = <<>>
  <2>1. PICK e : e = <<>> /\ Len(e) = 0
    OBVIOUS
  <2>2. TreeShown(e, e) = <<>> /\ ListsShown(e, e) = <<>>
    BY <2>1 DEF TreeShown, ListsShown
  <2> QED BY <2>1, <2>2
<1> QED BY <1>1, ViewsAreNext DEF Tree!Drop

(* and there is no tree at the beginning. *)
LEMMA EmptyShows ==
  ASSUME TreeInv, nodes = <<>>, attributes = <<>>, lists = <<>>, links = <<>>
  PROVE  Tree!Init
<1>1. /\ TreeShown(<<>>, <<>>) = <<>> /\ ListsShown(<<>>, <<>>) = <<>>
  <2>1. PICK e : e = <<>> /\ Len(e) = 0
    OBVIOUS
  <2>2. TreeShown(e, e) = <<>> /\ ListsShown(e, e) = <<>>
    BY <2>1 DEF TreeShown, ListsShown
  <2> QED BY <2>1, <2>2
<1> QED BY <1>1, ViewsAre DEF Tree!Init

(* Every step of the driver is a step of the abstract tree or hidden. *)
LEMMA StepShows == TreeInv /\ TreeInv' /\ ApartInv /\ [Next]_vars => [Tree!Next]_(Tree!vars)
<1> SUFFICES ASSUME TreeInv, TreeInv', ApartInv, [Next]_vars PROVE Tree!Next \/ UNCHANGED Tree!vars
  OBVIOUS
<1>1. CASE BuildRoot \/ BeginNode \/ WrapNode
  <2>1. PICK kind \in Kinds : new_ast_node(kind)
    BY <1>1, NodeStep
  <2> QED BY <2>1, NodeShows DEF Tree!Next
<1>2. CASE Sets
  BY <1>2, SetShows DEF Tree!Next
<1>3. CASE NewListHeader
  BY <1>3, HeaderShows DEF Tree!Next
<1>4. CASE AppendElement
  BY <1>4, ElementShows DEF Tree!Next
<1>5. CASE AddLink
  BY <1>5, LinkHides
<1>6. CASE EndNode
  <2>1. nodes' = nodes /\ attributes' = attributes /\ lists' = lists /\ links' = links
    BY <1>6 DEF EndNode, treeVars
  <2> QED BY <2>1, UnchangedHides
<1>7. CASE Quiet \/ UNCHANGED vars
  <2>1. nodes' = nodes /\ attributes' = attributes /\ lists' = lists /\ links' = links
    BY <1>7, QuietLeaves
  <2> QED BY <2>1, UnchangedHides
<1>8. CASE OutOfMemory \/ FilenameRequired \/ FileMissing \/ LexicalError \/ SyntaxError \/ DeleteTree
  <2>1. nodes' = <<>> /\ attributes' = <<>> /\ lists' = <<>> /\ links' = <<>>
    BY <1>8, EndsEmpty
  <2> QED BY <2>1, GoneShows DEF Tree!Next
<1> QED BY <1>1, <1>2, <1>3, <1>4, <1>5, <1>6, <1>7, <1>8 DEF Next, Sets, Quiet

(* The tree of ast.c is a map from names to values for every node and a     *)
(* sequence of nodes for every list: the hash table of attributes with its  *)
(* chains and the lists with their sentinel implement TreeStore.  No write  *)
(* to a node is seen in another, no append to a list in another, and none   *)
(* is lost, however the calls of the parser are nested, whatever the hash   *)
(* does and whatever a reused page held.                                    *)
THEOREM TreeIsKept == Spec => ImplementsTree
<1>1. Init => TreeInv /\ ApartInv /\ Tree!Init
  <2>1. Init => nodes = <<>> /\ attributes = <<>> /\ lists = <<>> /\ links = <<>>
    BY DEF Init, TreeInit
  <2> QED BY <2>1, InitTree, InitApart, EmptyShows
<1>2. TreeInv /\ ApartInv /\ [Next]_vars => TreeInv' /\ ApartInv'
  BY NextTree, NextApart
<1>3. TreeInv /\ TreeInv' /\ ApartInv /\ [Next]_vars => [Tree!Next]_(Tree!vars)
  BY StepShows
<1> QED BY <1>1, <1>2, <1>3, PTL DEF Spec, ImplementsTree, Tree!Spec
=============================================================================
