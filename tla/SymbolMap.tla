----------------------------- MODULE SymbolMap -----------------------------
(***************************************************************************)
(* The symbol table as its users see it: for every name that has one, its  *)
(* chains of keyword, type and identifier symbols, with no hash table      *)
(* below.                                                                  *)
(***************************************************************************)
EXTENDS Integers, Sequences

CONSTANTS Keywords, AllNames

VARIABLES
  symbols,      \* one record for every name that has a symbol
  scope_level,
  failed

vars == <<symbols, scope_level, failed>>

Kinds == {"id_kw", "id_type", "id_ident"}

NoSymbols(name) == [name |-> name, id_kw |-> <<>>, id_type |-> <<>>, id_ident |-> <<>>]
HasSymbol(e)    == \E kind \in Kinds : e[kind] # <<>>
Cleared         == {[NoSymbols(name) EXCEPT !.id_kw = <<0>>] : name \in Keywords}

Init == symbols = Cleared /\ scope_level = 0 /\ failed = "no"

push_scope == scope_level' = scope_level + 1 /\ UNCHANGED <<symbols, failed>>

(* A scope ends: a name declared in it loses its newest symbol, any other    *)
(* name loses all of them.                                                   *)
pop_scope ==
  LET rest(c) == IF c # <<>> /\ Head(c) >= scope_level THEN Tail(c) ELSE <<>>
      left(e) == [name |-> e.name, id_kw |-> rest(e.id_kw),
                  id_type |-> rest(e.id_type), id_ident |-> rest(e.id_ident)]
  IN /\ symbols' = {e \in {left(d) : d \in symbols} : HasSymbol(e)}
     /\ scope_level' = scope_level - 1
     /\ UNCHANGED failed

declare(name, kind) ==
  LET old == {e \in symbols : e.name = name}
      e   == IF old = {} THEN NoSymbols(name) ELSE CHOOSE d \in old : TRUE
  IN /\ symbols' = (symbols \ old) \cup {[e EXCEPT ![kind] = <<scope_level>> \o @]}
     /\ UNCHANGED <<scope_level, failed>>

flush == symbols' = Cleared /\ scope_level' = 0 /\ UNCHANGED failed

stop == failed' = "next_in_scope" /\ UNCHANGED <<symbols, scope_level>>

Next ==
  \/ push_scope \/ pop_scope \/ flush \/ stop
  \/ \E name \in AllNames, kind \in {"id_type", "id_ident"} : declare(name, kind)

Spec == Init /\ [][Next]_vars
=============================================================================
