--------------------------- MODULE UnboundedArray --------------------------
(***************************************************************************)
(* The unbounded arrays of arena.c: a table of segments, the k-th with room *)
(* for 2^k elements, which never move while the array grows.               *)
(*                                                                         *)
(* The arrays are clients of an arena.  All that is known of it is its     *)
(* contract: arena_push returns bytes that nobody holds, with whatever was *)
(* in them before.  Other clients push onto the same arena.                *)
(***************************************************************************)
EXTENDS Integers, Sequences, FiniteSets, FiniteSetsExt

CONSTANTS
  Arrays,        \* the arrays of the program
  Elems,         \* what is stored in them
  ElemSize,      \* per array: elem_size
  SegmentSlots,  \* the length of segment_table
  MemSize,       \* the bytes of memory there are
  OtherSizes,    \* the sizes other clients of the arena ask for
  storage,       \* the arena
  NoElem         \* what memory holds that no array has written

Addr == 1 .. MemSize

ASSUME ArrayAssumption ==
  /\ MemSize \in Nat /\ SegmentSlots \in Nat \ {0} /\ OtherSizes \subseteq Nat \ {0}
  /\ ElemSize \in [Arrays -> Nat \ {0}] /\ NoElem \notin Elems

(* The table of segments is long enough for the memory: main reserves 400   *)
(* kilobytes, and 24 segments hold 2^24 - 1 elements.  array_append has no  *)
(* test for the end of the table.                                           *)
ASSUME TableAssumption == MemSize < 2^SegmentSlots

(* Arithmetic, stated for the proofs: the provers know nothing of powers. *)
ASSUME PowerFact ==
  \A k \in 0 .. MemSize + SegmentSlots + 1 : 2^k = IF k = 0 THEN 1 ELSE 2 * 2^(k - 1)

VARIABLES
  segment_table,  \* per array: the address of each segment, or 0
  elem_count,     \* per array
  capacity,       \* per array
  mem,            \* what each byte belongs to: <<element, offset in it>>
  held,           \* per arena: the bytes it has handed out (see ArenaContract)
  status          \* "run" or "exit"

vars == <<segment_table, elem_count, capacity, mem, held, status>>

Chunks == UNION {{ElemSize[a] * 2^k : k \in 0 .. SegmentSlots - 1} : a \in Arrays}

(* The arena, of which only the contract is used. *)
Arena == INSTANCE ArenaContract
  WITH Arenas <- {storage}, Sizes <- OtherSizes \cup Chunks, accessible <- Addr

(* arena_push: the address of the bytes it has just handed out. *)
arena_push(size) == Arena!Push(storage, size)
Pushed == Min(held'[storage] \ held[storage])

(* Wrong on purpose: the logarithm of a power of two rounded down. *)
floor_log2_inexact(x) ==
  LET k == CHOOSE k \in 0 .. x : 2^k <= x /\ x < 2^(k + 1)
  IN IF x = 2^k /\ k > 1 THEN k - 1 ELSE k

(* The segment of an element; computed in floating point, exactly so for    *)
(* the indexes that the memory has room for.                                *)
floor_log2(x) == CHOOSE k \in 0 .. x : 2^k <= x /\ x < 2^(k + 1)

(* array_elem_at_i *)
elem_offset(i) == i - (2^floor_log2(i + 1) - 1)
elem_slot(table, a, i) == table[a][floor_log2(i + 1)] + elem_offset(i) * ElemSize[a]

(* memcpy of an element into the slot. *)
Stored(slot, a, e) ==
  [x \in Addr |-> IF x \in slot .. slot + ElemSize[a] - 1 THEN <<e, x - slot>> ELSE mem[x]]

Init ==
  /\ segment_table = [a \in Arrays |-> [k \in 0 .. SegmentSlots - 1 |-> 0]]
  /\ elem_count = [a \in Arrays |-> 0]
  /\ capacity = [a \in Arrays |-> 0]
  /\ mem = [x \in Addr |-> <<NoElem, 0>>]
  /\ held = [s \in {storage} |-> {}]
  /\ status = "run"

(* array_set, also the end of array_append. *)
array_set(table, a, i, e) == mem' = Stored(elem_slot(table, a, i), a, e)

Set(a, i, e) ==
  /\ status = "run" /\ i < elem_count[a]
  /\ array_set(segment_table, a, i, e)
  /\ UNCHANGED <<segment_table, elem_count, capacity, held, status>>

(* array_append with room in the last segment. *)
AppendFits(a, e) ==
  /\ status = "run" /\ elem_count[a] < capacity[a]
  /\ elem_count' = [elem_count EXCEPT ![a] = @ + 1]
  /\ array_set(segment_table, a, elem_count[a], e)
  /\ UNCHANGED <<segment_table, capacity, held, status>>

(* Wrong on purpose: the new segment is not counted in the capacity. *)
AppendGrowsUncounted(a, e) ==
  LET segment_index == floor_log2(elem_count[a] + 1)
  IN /\ status = "run" /\ elem_count[a] >= capacity[a]
     /\ arena_push(2^segment_index * ElemSize[a])
     /\ segment_table' = [segment_table EXCEPT ![a][segment_index] = Pushed]
     /\ elem_count' = [elem_count EXCEPT ![a] = @ + 1]
     /\ array_set(segment_table', a, elem_count[a], e)
     /\ UNCHANGED <<capacity, status>>

(* array_append that pushes a new segment first.  segment_index lies within *)
(* the table by TableAssumption.                                            *)
AppendGrows(a, e) ==
  LET segment_index    == floor_log2(elem_count[a] + 1)
      segment_capacity == 2^segment_index
  IN /\ status = "run" /\ elem_count[a] >= capacity[a]
     /\ arena_push(segment_capacity * ElemSize[a])
     /\ segment_table' = [segment_table EXCEPT ![a][segment_index] = Pushed]
     /\ capacity' = [capacity EXCEPT ![a] = @ + segment_capacity]
     /\ elem_count' = [elem_count EXCEPT ![a] = @ + 1]
     /\ array_set(segment_table', a, elem_count[a], e)
     /\ UNCHANGED status

(* array_append for which arena_push finds no memory and exits. *)
AppendExits(a) ==
  /\ status = "run" /\ elem_count[a] >= capacity[a]
  /\ status' = "exit"
  /\ UNCHANGED <<segment_table, elem_count, capacity, mem, held>>

(* Somebody else pushes onto the arena. *)
OtherPush ==
  /\ status = "run"
  /\ \E size \in OtherSizes : arena_push(size)
  /\ UNCHANGED <<segment_table, elem_count, capacity, mem, status>>

(* The arena is deleted and the arrays that lie in it are initialised again *)
(* (symtable_flush, array_init); what the memory still holds is as good as  *)
(* never written.                                                           *)
Renew ==
  /\ status = "run" /\ held[storage] # {}
  /\ Arena!Delete(storage)
  /\ segment_table' = [a \in Arrays |-> [k \in 0 .. SegmentSlots - 1 |-> 0]]
  /\ elem_count' = [a \in Arrays |-> 0]
  /\ capacity' = [a \in Arrays |-> 0]
  /\ mem' = [x \in Addr |-> <<NoElem, 0>>]
  /\ UNCHANGED status

Ended == status # "run" /\ UNCHANGED vars

Next ==
  \/ \E a \in Arrays, e \in Elems :
       AppendFits(a, e) \/ AppendGrows(a, e) \/ \E i \in 0 .. elem_count[a] - 1 : Set(a, i, e)
  \/ \E a \in Arrays : AppendExits(a)
  \/ OtherPush \/ Renew \/ Ended

Spec == Init /\ [][Next]_vars

(***************************************************************************)
(* Properties.                                                             *)
(***************************************************************************)
(* Counts, capacities and segments have their types, and an array has a     *)
(* segment for each element it counts (array_append).                       *)
ArrayTypeOK ==
  /\ elem_count \in [Arrays -> 0 .. MemSize] /\ capacity \in [Arrays -> 0 .. 2 * MemSize]
  /\ segment_table \in [Arrays -> [0 .. SegmentSlots - 1 -> {0} \cup Addr]]
  /\ held[storage] \subseteq Addr
  /\ mem \in [Addr -> (Elems \cup {NoElem}) \X (0 .. MemSize)]
  /\ \A a \in Arrays : elem_count[a] <= capacity[a]

(* What array_get reads: the element the bytes of slot i make up. *)
array_get(a, i) ==
  LET slot == elem_slot(segment_table, a, i)
  IN IF \E e \in Elems : \A j \in 0 .. ElemSize[a] - 1 : slot + j \in Addr /\ mem[slot + j] = <<e, j>>
     THEN mem[slot][1] ELSE NoElem

Contents == INSTANCE SequenceStore
  WITH seqs <- [a \in Arrays |-> [i \in 1 .. elem_count[a] |-> array_get(a, i - 1)]]

(* The arrays are sequences: array_get gives for every index the element    *)
(* last stored there, whatever is appended to this array and to the others, *)
(* wherever arena_push puts the segments and whatever was in that memory.   *)
ImplementsSequence == Contents!Spec

=============================================================================
