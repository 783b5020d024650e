--------------------------- MODULE ArenaContract ---------------------------
(***************************************************************************)
(* What the allocator of arena.c promises its clients, free of pages, free *)
(* lists and structs: arena_push returns size consecutive bytes that no    *)
(* arena holds, arena_delete takes back all that one arena holds, and the  *)
(* bytes that are held can be read and written.                            *)
(***************************************************************************)
EXTENDS Integers

CONSTANTS Arenas, Addr, Sizes

VARIABLES
  held,       \* per arena: the bytes handed out
  accessible  \* the bytes that can be read and written

vars == <<held, accessible>>

AllHeld == UNION {held[a] : a \in Arenas}

Init ==
  /\ held = [a \in Arenas |-> {}]
  /\ accessible \in SUBSET Addr

(* arena_push *)
Push(a, size) ==
  \E begin \in Addr :
    LET chunk == begin .. begin + size - 1
    IN /\ chunk \subseteq Addr \ AllHeld
       /\ held' = [held EXCEPT ![a] = @ \cup chunk]

(* arena_delete *)
Delete(a) == held' = [held EXCEPT ![a] = {}]

(* Pages are made accessible and inaccessible, never under a held byte. *)
Next ==
  /\ \/ \E a \in Arenas : Delete(a) \/ \E size \in Sizes : Push(a, size)
     \/ UNCHANGED held
  /\ UNION {held'[a] : a \in Arenas} \subseteq accessible'
  /\ accessible' \subseteq Addr

Spec == Init /\ [][Next]_vars
=============================================================================
