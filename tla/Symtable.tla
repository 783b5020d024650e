------------------------------ MODULE Symtable ------------------------------
(***************************************************************************)
(* The symbol table (symtable.c, hash.c): a hash table of entries, one per *)
(* name, each with a chain of keyword, type and identifier symbols through *)
(* next_in_scope.  The program is one thread and every operation runs to   *)
(* its end, so each is one action.                                         *)
(*                                                                         *)
(* A symbol is the scope_level it was declared at: its kind is that of the *)
(* chain, its name that of the entry, and its ast is never read back.      *)
(***************************************************************************)
EXTENDS Integers, Sequences, SequencesExt

CONSTANTS
  Keywords,     \* the names add_all_keywords adds, in its order
  Names,        \* the other names the program may look up
  Ksigma,       \* name -> fold_string(name) * SIGMA, of HashWidth bits
  HashWidth,    \* 32 in multiply_hash
  InitialLog2,  \* the first capacity_log2
  MaxLog2,      \* bound: what capacity_log2 may reach
  MaxScope,     \* bound: the deepest scope
  MaxSymbols    \* bound: the symbols in all the chains

AllNames == Names \cup Range(Keywords)

ASSUME KeywordsAssumption == Keywords \in Seq(AllNames) /\ IsInjective(Keywords)
ASSUME HashAssumption ==
  /\ HashWidth \in Nat /\ InitialLog2 \in 1..MaxLog2 /\ MaxLog2 \in 1..HashWidth
  /\ Ksigma \in [AllNames -> 0 .. 2^HashWidth - 1]

(* Arithmetic, stated for the proofs: the prover knows nothing of powers. *)
ASSUME PowerFact ==
  /\ \A k \in 0 .. HashWidth : 2^k \in Nat \ {0}
  /\ \A k \in 1 .. HashWidth : 2^k = 2 * 2^(k - 1)

(* The table of MaxLog2 has room for all names, so that it never grows further. *)
ASSUME BoundAssumption == IsFiniteSet(AllNames) /\ Cardinality(AllNames) <= 2^MaxLog2 - 1

VARIABLES
  symtable,       \* the array of chains of entries, index 0 first
  capacity_log2,
  entry_count,
  scope_level,
  failed          \* the assertion that stopped the program, or "no"

vars == <<symtable, capacity_log2, entry_count, scope_level, failed>>

Kinds == {"id_kw", "id_type", "id_ident"}
Entry == [name : AllNames, id_kw : Seq(Nat), id_type : Seq(Nat), id_ident : Seq(Nat)]
NewEntry(name) == [name |-> name, id_kw |-> <<>>, id_type |-> <<>>, id_ident |-> <<>>]

(* The top m bits of the product, the largest value folded onto 0. *)
hash_string(name, m) == (Ksigma[name] \div 2^(HashWidth - m)) % (2^m - 1)

(* (1 << capacity_log2) - 1 *)
Capacity(m) == 2^m - 1

-----------------------------------------------------------------------------
(* The operations on a table t = [array, log2, count].  array_get and       *)
(* array_set count from 0.                                                  *)
EmptyTable(m) == [array |-> [i \in 1 .. Capacity(m) |-> <<>>], log2 |-> m, count |-> 0]

Bucket(t, name) == hash_string(name, t.log2) + 1

IndexIn(t, name) ==
  SelectInSeq(t.array[Bucket(t, name)], LAMBDA e : e.name = name)

PutFirst(array, h, entry) == [array EXCEPT ![h] = <<entry>> \o @]

(* Wrong on purpose: an entry is put where its hash in the old array was, or  *)
(* is put back without its symbols.                                          *)
InsertAtOldHash(array, e, m) == PutFirst(array, hash_string(e.name, m - 1) + 1, e)
InsertCleared(array, e, m)   == PutFirst(array, hash_string(e.name, m) + 1, NewEntry(e.name))

(* An old entry goes in front of a chain of the array of capacity 2^m - 1. *)
InsertOld(array, e, m) == PutFirst(array, hash_string(e.name, m) + 1, e)

(* The entries, collected bucket by bucket, are put one by one into the      *)
(* lengthened and cleared array.                                             *)
Rehash(t) ==
  LET m       == t.log2 + 1
      longer  == t.array \o [i \in 1 .. Capacity(m) - t.count |-> <<>>]
      cleared == [i \in DOMAIN longer |-> IF i <= Capacity(m) THEN <<>> ELSE longer[i]]
      old     == FlattenSeq(t.array)
      moved[k \in 0 .. Len(old)] ==
        IF k = 0 THEN cleared ELSE InsertOld(moved[k - 1], old[k], m)
  IN [array |-> moved[Len(old)], log2 |-> m, count |-> t.count]

(* The table with an entry for name, which get_symtable_entry returns. *)
get_symtable_entry(t, name) ==
  IF IndexIn(t, name) # 0 THEN t
  ELSE LET u == IF t.count >= Capacity(t.log2) THEN Rehash(t) ELSE t
       IN [u EXCEPT !.array = PutFirst(@, Bucket(u, name), NewEntry(name)), !.count = @ + 1]

(* What is at name's entry once there is one. *)
EntryOf(t, name) ==
  LET u == get_symtable_entry(t, name)
  IN u.array[Bucket(u, name)][IndexIn(u, name)]

(* new_type, new_ident and add_keyword: a symbol in front of the chain. *)
new_symbol(t, name, kind, level) ==
  LET u == get_symtable_entry(t, name)
  IN [u EXCEPT !.array[Bucket(u, name)][IndexIn(u, name)][kind] = <<level>> \o @]

(* add_all_keywords on the table that symtable_init has made. *)
symtable_init(m) ==
  LET added[k \in 0 .. Len(Keywords)] ==
        IF k = 0 THEN EmptyTable(m) ELSE new_symbol(added[k - 1], Keywords[k], "id_kw", 0)
  IN added[Len(Keywords)]

-----------------------------------------------------------------------------
table == [array |-> symtable, log2 |-> capacity_log2, count |-> entry_count]

SetTable(t) ==
  /\ symtable' = t.array
  /\ capacity_log2' = t.log2
  /\ entry_count' = t.count

Init ==
  /\ LET t == symtable_init(InitialLog2)
     IN symtable = t.array /\ capacity_log2 = t.log2 /\ entry_count = t.count
  /\ scope_level = 0
  /\ failed = "no"

push_scope ==
  /\ scope_level' = scope_level + 1
  /\ UNCHANGED <<symtable, capacity_log2, entry_count, failed>>

(* scope_delete_symbol: the first symbol of a chain is taken off when it is  *)
(* of the scope that ends; a chain that begins in an outer scope, or is      *)
(* empty, leaves nothing.                                                    *)
scope_delete_symbol(chain) ==
  IF chain # <<>> /\ Head(chain) > scope_level - 1 THEN Tail(chain) ELSE <<>>

DeleteInEntry(e) ==
  [f \in DOMAIN e |-> IF f \in Kinds THEN scope_delete_symbol(e[f]) ELSE e[f]]

(* The assertion in scope_delete_symbol. *)
NextInScopeFails(e) ==
  \E kind \in Kinds :
    /\ Len(e[kind]) > 1
    /\ e[kind][1] > scope_level - 1
    /\ e[kind][2] > scope_level

(* What pop_scope visits. *)
EntriesInArray == UNION {Range(symtable[i]) : i \in 1 .. Capacity(capacity_log2)}

(* Wrong on purpose: the assertion is missing, or the level goes down by two, *)
(* or the symbols stay.                                                      *)
pop_scope_unchecked ==
  /\ symtable' = [i \in DOMAIN symtable |->
                    [j \in DOMAIN symtable[i] |-> DeleteInEntry(symtable[i][j])]]
  /\ scope_level' = scope_level - 1
  /\ UNCHANGED <<capacity_log2, entry_count, failed>>

pop_scope_twice ==
  /\ scope_level > 0
  /\ scope_level' = scope_level - 2
  /\ UNCHANGED <<symtable, capacity_log2, entry_count, failed>>

pop_scope_keeps_symbols ==
  /\ scope_level > 0
  /\ scope_level' = scope_level - 1
  /\ UNCHANGED <<symtable, capacity_log2, entry_count, failed>>

pop_scope ==
  /\ scope_level > 0
  /\ \A e \in EntriesInArray : ~NextInScopeFails(e)
  /\ symtable' = [i \in DOMAIN symtable |->
                    [j \in DOMAIN symtable[i] |-> DeleteInEntry(symtable[i][j])]]
  /\ scope_level' = scope_level - 1
  /\ UNCHANGED <<capacity_log2, entry_count, failed>>

pop_scope_fails ==
  /\ scope_level > 0
  /\ \E e \in EntriesInArray : NextInScopeFails(e)
  /\ failed' = "next_in_scope"
  /\ UNCHANGED <<symtable, capacity_log2, entry_count, scope_level>>

(* The lookup of next_token in the parser. *)
lookup(name) ==
  /\ SetTable(get_symtable_entry(table, name))
  /\ UNCHANGED <<scope_level, failed>>

(* Wrong on purpose: a symbol of this very scope does not count. *)
name_is_declared_outside(name, kind) ==
  LET chain == EntryOf(table, name)[kind]
  IN chain # <<>> /\ Head(chain) > scope_level

(* name_is_declared answers from the first symbol of the chain. *)
name_is_declared(name, kind) ==
  LET chain == EntryOf(table, name)[kind]
  IN chain # <<>> /\ Head(chain) >= scope_level

new_type(name) ==
  /\ SetTable(new_symbol(table, name, "id_type", scope_level))
  /\ UNCHANGED <<scope_level, failed>>

new_ident(name) ==
  /\ SetTable(new_symbol(table, name, "id_ident", scope_level))
  /\ UNCHANGED <<scope_level, failed>>

(* The table starts anew at the capacity it has grown to. *)
symtable_flush ==
  /\ SetTable(symtable_init(capacity_log2))
  /\ scope_level' = 0
  /\ UNCHANGED failed

Stopped == failed # "no" /\ UNCHANGED vars

SymbolCount ==
  LET entries == FlattenSeq(symtable)
  IN FoldLeft(LAMBDA n, e : n + Len(e.id_kw) + Len(e.id_type) + Len(e.id_ident), 0, entries)

Call ==
  \/ scope_level < MaxScope /\ push_scope
  \/ pop_scope
  \/ pop_scope_fails
  \/ symtable_flush
  \/ \E name \in AllNames : lookup(name)
  \/ /\ SymbolCount < MaxSymbols
     /\ \E name \in Names : new_type(name) \/ new_ident(name)

Next == (failed = "no" /\ Call) \/ Stopped

Spec == Init /\ [][Next]_vars

-----------------------------------------------------------------------------
(* The chains hold scope levels, the table stays within the capacities, and  *)
(* no scope is left that was not entered (symtable.c's static variables).    *)
TypeOK ==
  /\ symtable \in Seq(Seq(Entry))
  /\ capacity_log2 \in InitialLog2 .. MaxLog2
  /\ entry_count \in Nat
  /\ scope_level \in Nat
  /\ failed \in {"no", "next_in_scope"}

(* The table is a map: the array is as long as capacity says, so that no     *)
(* hash is outside it (the assertion of array_get), a name has one entry,    *)
(* in the chain its hash leads to, and entry_count is the number of entries  *)
(* (the assertion j == entry_count of the rehash).  The rehash moves the     *)
(* entries and symtable_flush starts again at the grown capacity.            *)
TableIsMap ==
  LET entries == FlattenSeq(symtable)
  IN /\ Len(symtable) = Capacity(capacity_log2)
     /\ entry_count = Len(entries)
     /\ entry_count <= Capacity(capacity_log2)
     /\ \A i, j \in DOMAIN entries : entries[i].name = entries[j].name => i = j
     /\ \A i \in DOMAIN symtable : \A e \in Range(symtable[i]) : hash_string(e.name, capacity_log2) + 1 = i

HasSymbol(e) == \E kind \in Kinds : e[kind] # <<>>

Map == INSTANCE SymbolMap WITH
         Keywords <- Range(Keywords), AllNames <- AllNames,
         symbols <- {e \in EntriesInArray : HasSymbol(e)}

(* Whatever the hash does and however often the array grows, the table       *)
(* behaves as a map from names to chains of symbols: a lookup that rehashes  *)
(* (get_symtable_entry) loses and changes no symbol.                         *)
ImplementsMap == Map!Spec
=============================================================================
