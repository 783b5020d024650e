----------------------------- MODULE PageArena -----------------------------
(***************************************************************************)
(* The page allocator and the arenas built on it (arena.c).                *)
(*                                                                         *)
(* init_memory reserves total_page_count pages.  Page runs that no arena   *)
(* owns are on the free list, page runs that an arena owns are on that     *)
(* arena's list.  Both are lists of struct PageBlock, and the structs are  *)
(* themselves carved out of an arena, pageblock_storage, so that pushing   *)
(* onto any arena may push onto pageblock_storage before it is finished.   *)
(*                                                                         *)
(* A pointer to a PageBlock is the address of the struct; a list is the    *)
(* sequence of structs reached from its head through next_block.           *)
(* prev_block is written and never read, so it is left out.                *)
(***************************************************************************)
EXTENDS Integers, Sequences, SequencesExt

CONSTANTS
  Arenas,             \* the clients' arenas
  pageblock_storage,  \* the arena the PageBlock structs live in
  PageSize,           \* getpagesize()
  TotalPages,         \* total_page_count
  StructSize,         \* sizeof(struct PageBlock)
  Sizes               \* the sizes clients ask arena_push for

ASSUME StorageAssumption == pageblock_storage \notin Arenas
ASSUME SizeAssumption ==
  /\ PageSize \in Nat /\ TotalPages \in Nat \ {0} /\ StructSize \in Nat \ {0}
  /\ 2 * StructSize < PageSize
  /\ Sizes \subseteq Nat \ {0}

VARIABLES
  block,                   \* memory_begin and memory_end of the struct at an address
  block_freelist,          \* the list at block_freelist_head
  recycled_block_structs,  \* structs to use again before new ones are pushed
  owned_pages,             \* per arena: its list of page runs
  memory_avail,            \* per arena: the next free byte
  memory_limit,            \* per arena: the end of the run it allocates from
  writable,                \* the bytes mprotect has made PROT_READ|PROT_WRITE
  stack,                   \* the arena_push calls waiting for a PageBlock struct
  new_struct,              \* what get_new_block_struct returned, or 0
  pc,                      \* where the process is
  deleting,                \* the argument of the arena_delete call in progress, or
                           \* pageblock_storage
  used                     \* history: per arena, the bytes handed out and not deleted

vars == <<block, block_freelist, recycled_block_structs, owned_pages, memory_avail,
          memory_limit, writable, stack, new_struct, pc, deleting, used>>

AllArenas == Arenas \cup {pageblock_storage}
MemEnd    == TotalPages * PageSize
Addr      == 0 .. MemEnd - 1
Zeroed    == [memory_begin |-> 0, memory_end |-> 0]
Frame     == [arena : AllArenas, size : Nat, memory_begin : 0..MemEnd, memory_end : 0..MemEnd]

Bytes(r) == r.memory_begin .. r.memory_end - 1
Size(r)  == r.memory_end - r.memory_begin

(* The structs of the two kinds of list. *)
FreeBlocks == Range(block_freelist)
OwnedBlocks(a) == Range(owned_pages[a])

-----------------------------------------------------------------------------
(* Wrong on purpose: the first page is counted twice. *)
FirstPageCountedTwice == [memory_begin |-> PageSize, memory_end |-> PageSize + MemEnd]

(* The run of init_memory's block_freelist_head. *)
FirstFreeRun == [memory_begin |-> PageSize, memory_end |-> MemEnd]

(* init_memory: the first page holds the structs of itself and of the one   *)
(* free run, which is all the other pages.                                  *)
Init ==
  /\ block = [s \in Addr |->
                CASE s = 0          -> [memory_begin |-> 0, memory_end |-> PageSize]
                  [] s = StructSize -> FirstFreeRun
                  [] OTHER          -> Zeroed]
  /\ block_freelist = <<StructSize>>
  /\ recycled_block_structs = <<>>
  /\ owned_pages = [a \in AllArenas |-> IF a = pageblock_storage THEN <<0>> ELSE <<>>]
  /\ memory_avail = [a \in AllArenas |-> IF a = pageblock_storage THEN 2 * StructSize ELSE 0]
  /\ memory_limit = [a \in AllArenas |-> IF a = pageblock_storage THEN PageSize ELSE 0]
  /\ writable = 0 .. PageSize - 1
  /\ used = [a \in AllArenas |-> IF a = pageblock_storage THEN 0 .. 2 * StructSize - 1 ELSE {}]
  /\ stack = <<>>
  /\ new_struct = 0
  /\ pc = "idle"
  /\ deleting = pageblock_storage

(* The position in the free list of the first run of enough bytes, or 0. *)
find_block_first_fit(size) ==
  SelectInSeq(block_freelist, LAMBDA b : Size(block[b]) >= size)

(* Wrong on purpose: a size of whole pages is rounded up by one more. *)
RoundsUpOneTooMany(size) == ((size + PageSize) \div PageSize) * PageSize

(* (size + page_size - 1) & ~(page_size - 1), page_size being a power of 2. *)
size_in_page_multiples(size) == ((size + PageSize - 1) \div PageSize) * PageSize

(* The left neighbour of n: the position in l of the first block that does   *)
(* not begin after it, or 0.                                                 *)
LeftNeighbour(l, n, bs) ==
  SelectInSeq(l, LAMBDA p : bs[p].memory_begin <= bs[n].memory_begin)

(* Wrong on purpose: a gap between the blocks is no obstacle. *)
StitchesOverGaps(bs, p, q) == bs[p].memory_end <= bs[q].memory_begin

(* Block q begins where block p ends. *)
Stitches(bs, p, q) == bs[p].memory_end = bs[q].memory_begin

(* block_insert_and_coalesce puts struct n into list l behind its left      *)
(* neighbour, and merges it with the blocks on either side of it that       *)
(* touch it.  bs are the structs' contents, behind   *)
(* is what n's own next_block still leads to.  The result is the list, the  *)
(* contents and the structs recycled, the last one first.                   *)
block_insert_and_coalesce(l, n, bs, behind) ==
  LET k == LeftNeighbour(l, n, bs)
      stitch_left  == k > 0 /\ Stitches(bs, l[k], n)
      stitch_right == k < Len(l) /\ Stitches(bs, n, l[k+1])
  IN CASE l = <<>> ->
            [list |-> <<n>> \o behind, block |-> bs, recycled |-> <<>>]
       [] l # <<>> /\ stitch_left /\ stitch_right ->
            [list |-> RemoveAt(l, k + 1),
             block |-> [bs EXCEPT ![l[k]].memory_end = bs[l[k+1]].memory_end,
                                  ![l[k+1]] = Zeroed, ![n] = Zeroed],
             recycled |-> <<n, l[k+1]>>]
       [] l # <<>> /\ stitch_left /\ ~stitch_right ->
            [list |-> l,
             block |-> [bs EXCEPT ![l[k]].memory_end = bs[n].memory_end, ![n] = Zeroed],
             recycled |-> <<n>>]
       [] l # <<>> /\ ~stitch_left /\ stitch_right ->
            [list |-> l,
             block |-> [bs EXCEPT ![l[k+1]].memory_begin = bs[n].memory_begin, ![n] = Zeroed],
             recycled |-> <<n>>]
       [] OTHER ->
            [list |-> InsertAt(l, k + 1, n), block |-> bs, recycled |-> <<>>]

-----------------------------------------------------------------------------
(* Wrong on purpose: the size asked for is not added. *)
HasRoomIgnoresSize(a, size) == memory_avail[a] < memory_limit[a]

HasRoom(a, size) == memory_avail[a] + size < memory_limit[a]

(* The slow path of arena_push up to its call of get_new_block_struct: the  *)
(* run at position i of the free list is cut from its front and the piece   *)
(* given to arena a.                                                        *)
CutRun(a, size, i) ==
  LET free == block_freelist[i]
      need == size_in_page_multiples(size)
      from == block[free].memory_begin
  IN /\ i # 0
     /\ need <= Size(block[free])
     /\ block' = [block EXCEPT ![free].memory_begin = from + need]
     /\ writable' = writable \cup (from .. from + need - 1)
     /\ memory_avail' = [memory_avail EXCEPT ![a] = from]
     /\ memory_limit' = [memory_limit EXCEPT ![a] = from + need]
     /\ stack' = Append(stack, [arena |-> a, size |-> size,
                                memory_begin |-> from, memory_end |-> from + need])
     /\ pc' = "get_struct"
     /\ UNCHANGED <<recycled_block_structs, owned_pages, new_struct, deleting, used>>

(* Wrong on purpose: a run with nothing left is unlinked. *)
TakePagesUnlinks(a, size) ==
  LET i == find_block_first_fit(size)
      r == block[block_freelist[i]]
  IN /\ CutRun(a, size, i)
     /\ block_freelist' = IF size_in_page_multiples(size) < Size(r)
                          THEN block_freelist ELSE RemoveAt(block_freelist, i)

(* The run stays on the free list even when nothing is left of it. *)
TakePages(a, size) ==
  /\ CutRun(a, size, find_block_first_fit(size))
  /\ UNCHANGED block_freelist

(* The ways the slow path ends the process: no run is large enough, or      *)
(* mprotect fails, or the assertion behind the two size comparisons.        *)
TakePagesFails(size) ==
  LET i == find_block_first_fit(size)
  IN /\ pc' = IF i # 0 /\ size_in_page_multiples(size) > Size(block[block_freelist[i]])
              THEN "assert" ELSE "exit"
     /\ UNCHANGED <<block, block_freelist, recycled_block_structs, owned_pages, memory_avail,
                    memory_limit, writable, stack, new_struct, deleting, used>>

(* arena_push when the current run has room. *)
PushFits(a, size) ==
  /\ pc = "idle"
  /\ HasRoom(a, size)
  /\ memory_avail' = [memory_avail EXCEPT ![a] = @ + size]
  /\ used' = [used EXCEPT ![a] = @ \cup (memory_avail[a] .. memory_avail[a] + size - 1)]
  /\ UNCHANGED <<block, block_freelist, recycled_block_structs, owned_pages, memory_limit,
                 writable, stack, new_struct, pc, deleting>>

(* arena_push when it has not. *)
PushTakesPages(a, size) ==
  /\ pc = "idle"
  /\ ~HasRoom(a, size)
  /\ TakePages(a, size)

PushFails(a, size) ==
  /\ pc = "idle"
  /\ ~HasRoom(a, size)
  /\ TakePagesFails(size)

(* Wrong on purpose: the struct stays with the recycled ones. *)
GetStructKeepsRecycled ==
  /\ pc = "get_struct"
  /\ recycled_block_structs # <<>>
  /\ new_struct' = Head(recycled_block_structs)
  /\ block' = [block EXCEPT ![new_struct'] = Zeroed]
  /\ pc' = "link"
  /\ UNCHANGED <<block_freelist, recycled_block_structs, owned_pages, memory_avail,
                 memory_limit, writable, stack, deleting, used>>

(* get_new_block_struct, from the recycled structs. *)
GetRecycledStruct ==
  /\ pc = "get_struct"
  /\ recycled_block_structs # <<>>
  /\ new_struct' = Head(recycled_block_structs)
  /\ recycled_block_structs' = Tail(recycled_block_structs)
  /\ block' = [block EXCEPT ![new_struct'] = Zeroed]
  /\ pc' = "link"
  /\ UNCHANGED <<block_freelist, owned_pages, memory_avail, memory_limit, writable, stack,
                 deleting, used>>

(* Wrong on purpose: memory_avail is read after arena_push has moved it. *)
GetStoredStructPastIt ==
  /\ pc = "get_struct"
  /\ recycled_block_structs = <<>>
  /\ HasRoom(pageblock_storage, StructSize)
  /\ new_struct' = memory_avail[pageblock_storage] + StructSize
  /\ memory_avail' = [memory_avail EXCEPT ![pageblock_storage] = @ + StructSize]
  /\ used' = [used EXCEPT ![pageblock_storage] =
                @ \cup (memory_avail[pageblock_storage] .. memory_avail'[pageblock_storage] - 1)]
  /\ block' = [block EXCEPT ![new_struct'] = Zeroed]
  /\ pc' = "link"
  /\ UNCHANGED <<block_freelist, recycled_block_structs, owned_pages, memory_limit, writable,
                 stack, deleting>>

(* get_new_block_struct, from pageblock_storage. *)
GetStoredStruct ==
  /\ pc = "get_struct"
  /\ recycled_block_structs = <<>>
  /\ HasRoom(pageblock_storage, StructSize)
  /\ new_struct' = memory_avail[pageblock_storage]
  /\ memory_avail' = [memory_avail EXCEPT ![pageblock_storage] = @ + StructSize]
  /\ used' = [used EXCEPT ![pageblock_storage] =
                @ \cup (new_struct' .. new_struct' + StructSize - 1)]
  /\ block' = [block EXCEPT ![new_struct'] = Zeroed]
  /\ pc' = "link"
  /\ UNCHANGED <<block_freelist, recycled_block_structs, owned_pages, memory_limit, writable,
                 stack, deleting>>

(* get_new_block_struct, from pageblock_storage when it has no room: a      *)
(* second arena_push while the first is waiting.                            *)
GrowStorage ==
  /\ pc = "get_struct"
  /\ recycled_block_structs = <<>>
  /\ ~HasRoom(pageblock_storage, StructSize)
  /\ TakePages(pageblock_storage, StructSize)

GrowStorageFails ==
  /\ pc = "get_struct"
  /\ recycled_block_structs = <<>>
  /\ ~HasRoom(pageblock_storage, StructSize)
  /\ TakePagesFails(StructSize)

(* Wrong on purpose: the chunk ends one byte early. *)
LinkPagesShort ==
  LET f  == Last(stack)
      a  == f.arena
      bs == [block EXCEPT ![new_struct] = [memory_begin |-> f.memory_begin,
                                           memory_end |-> f.memory_end]]
      r  == block_insert_and_coalesce(owned_pages[a], new_struct, bs, <<>>)
      client_memory == memory_avail[a]
  IN /\ pc = "link"
     /\ owned_pages' = [owned_pages EXCEPT ![a] = r.list]
     /\ recycled_block_structs' = r.recycled \o recycled_block_structs
     /\ memory_avail' = [memory_avail EXCEPT ![a] = client_memory + f.size - 1]
     /\ used' = [used EXCEPT ![a] = @ \cup (client_memory .. client_memory + f.size - 2)]
     /\ stack' = Front(stack)
     /\ \/ /\ Len(stack) = 1
           /\ pc' = "idle"
           /\ block' = r.block
           /\ new_struct' = 0
        \/ /\ Len(stack) > 1
           /\ new_struct' = client_memory
           /\ block' = [r.block EXCEPT ![client_memory] = Zeroed]
           /\ UNCHANGED pc
     /\ UNCHANGED <<block_freelist, memory_limit, writable, deleting>>

(* The rest of arena_push: the struct describes the new run and is put on   *)
(* the arena's list, memory_avail is read again and moved on.  When the     *)
(* push was for a struct, its caller gets that struct and goes on.          *)
LinkPages ==
  LET f  == Last(stack)
      a  == f.arena
      bs == [block EXCEPT ![new_struct] = [memory_begin |-> f.memory_begin,
                                           memory_end |-> f.memory_end]]
      r  == block_insert_and_coalesce(owned_pages[a], new_struct, bs, <<>>)
      client_memory == memory_avail[a]
  IN /\ pc = "link"
     /\ owned_pages' = [owned_pages EXCEPT ![a] = r.list]
     /\ recycled_block_structs' = r.recycled \o recycled_block_structs
     /\ memory_avail' = [memory_avail EXCEPT ![a] = client_memory + f.size]
     /\ used' = [used EXCEPT ![a] = @ \cup (client_memory .. client_memory + f.size - 1)]
     /\ stack' = Front(stack)
     /\ \/ /\ Len(stack) = 1
           /\ pc' = "idle"
           /\ block' = r.block
           /\ new_struct' = 0
        \/ /\ Len(stack) > 1
           /\ new_struct' = client_memory
           /\ block' = [r.block EXCEPT ![client_memory] = Zeroed]
           /\ UNCHANGED pc
     /\ UNCHANGED <<block_freelist, memory_limit, writable, deleting>>

(* arena_delete of a client's arena: its first block, ... *)
Delete(a) ==
  /\ pc = "idle"
  /\ pc' = "delete"
  /\ deleting' = a
  /\ used' = [used EXCEPT ![a] = {}]
  /\ UNCHANGED <<block, block_freelist, recycled_block_structs, owned_pages, memory_avail,
                 memory_limit, writable, stack, new_struct>>

(* Wrong on purpose: only the first page of the run. *)
ProtectsFirstPage(p) == block[p].memory_begin .. block[p].memory_begin + PageSize - 1

(* What mprotect (.., PROT_NONE) covers when struct p is freed. *)
Unprotected(p) == Bytes(block[p])

(* ... one round of its loop, ... *)
DeleteBlock ==
  LET p == Head(owned_pages[deleting])
      r == block_insert_and_coalesce(block_freelist, p, block, Tail(owned_pages[deleting]))
  IN /\ pc = "delete"
     /\ owned_pages[deleting] # <<>>
     /\ writable' = writable \ Unprotected(p)
     /\ block' = r.block
     /\ block_freelist' = r.list
     /\ recycled_block_structs' = r.recycled \o recycled_block_structs
     /\ owned_pages' = [owned_pages EXCEPT ![deleting] = Tail(@)]
     /\ UNCHANGED <<memory_avail, memory_limit, stack, new_struct, pc, deleting, used>>

(* Wrong on purpose: the loop does not end with the list. *)
DeleteNeverEnds ==
  /\ pc = "delete"
  /\ owned_pages[deleting] = <<>>
  /\ memory_avail' = [memory_avail EXCEPT ![deleting] = 0]
  /\ memory_limit' = [memory_limit EXCEPT ![deleting] = 0]
  /\ UNCHANGED <<block, block_freelist, recycled_block_structs, owned_pages, writable, stack,
                 new_struct, pc, deleting, used>>

(* ... and the memset behind it. *)
DeleteEnds ==
  /\ pc = "delete"
  /\ owned_pages[deleting] = <<>>
  /\ memory_avail' = [memory_avail EXCEPT ![deleting] = 0]
  /\ memory_limit' = [memory_limit EXCEPT ![deleting] = 0]
  /\ pc' = "idle"
  /\ deleting' = pageblock_storage
  /\ UNCHANGED <<block, block_freelist, recycled_block_structs, owned_pages, writable, stack,
                 new_struct, used>>

(* mprotect fails in arena_delete. *)
DeleteFails ==
  /\ pc = "delete"
  /\ owned_pages[deleting] # <<>>
  /\ pc' = "exit"
  /\ UNCHANGED <<block, block_freelist, recycled_block_structs, owned_pages, memory_avail,
                 memory_limit, writable, stack, new_struct, deleting, used>>

Exited == pc \in {"exit", "assert"} /\ UNCHANGED vars

Call == \E a \in Arenas :
          \/ \E size \in Sizes : PushFits(a, size) \/ PushTakesPages(a, size) \/ PushFails(a, size)
          \/ Delete(a)

Step == \/ GetRecycledStruct \/ GetStoredStruct \/ GrowStorage \/ GrowStorageFails
        \/ LinkPages \/ DeleteBlock \/ DeleteEnds \/ DeleteFails

Next == Call \/ Step \/ Exited

(* The process is one thread: a call it has begun goes on. *)
Spec == Init /\ [][Next]_vars /\ WF_vars(Step)

-----------------------------------------------------------------------------
Run == [memory_begin : 0..MemEnd, memory_end : 0..MemEnd]

(* Every address the allocator keeps (the lists, the arenas' bounds, the     *)
(* frames of the nested arena_push calls) is one of the reserved memory.     *)
TypeOK ==
  /\ block \in [Addr -> Run]
  /\ block_freelist \in Seq(Addr)
  /\ recycled_block_structs \in Seq(Addr)
  /\ owned_pages \in [AllArenas -> Seq(Addr)]
  /\ memory_avail \in [AllArenas -> 0..MemEnd]
  /\ memory_limit \in [AllArenas -> 0..MemEnd]
  /\ writable \in SUBSET Addr
  /\ stack \in Seq(Frame)
  /\ new_struct \in Addr
  /\ pc \in {"idle", "get_struct", "link", "delete", "exit", "assert"}
  /\ deleting \in AllArenas
  /\ used \in [AllArenas -> SUBSET Addr]

(* The runs the program knows of: those on a list, and those an unfinished   *)
(* arena_push has taken from the free list and not yet put on its arena's.   *)
ListedStructs == FreeBlocks \cup UNION {OwnedBlocks(a) : a \in AllArenas}
Held(a) == (UNION {Bytes(block[s]) : s \in OwnedBlocks(a)})
           \cup (UNION {Bytes(stack[i]) : i \in {j \in DOMAIN stack : stack[j].arena = a}})
FreeBytes == UNION {Bytes(block[s]) : s \in FreeBlocks}

(* No page is lost and none is given out twice: at every moment of a push or *)
(* a delete each byte belongs to the free list or to exactly one arena       *)
(* (arena_push's split, arena_delete and block_insert_and_coalesce's merges).*)
PagesPartitioned ==
  /\ FreeBytes \cup UNION {Held(a) : a \in AllArenas} = Addr
  /\ \A a \in AllArenas : Held(a) \cap FreeBytes = {}
  /\ \A a, b \in AllArenas : a # b => Held(a) \cap Held(b) = {}
  /\ \A s, t \in ListedStructs : s # t => Bytes(block[s]) \cap Bytes(block[t]) = {}

(* A PageBlock struct is on one list, once: the free list, an arena's list,  *)
(* the recycled structs, or none because it was just handed out.  A struct   *)
(* recycled while still linked would describe two runs at once.              *)
StructsLinkedOnce ==
  LET Recycled == Range(recycled_block_structs)
  IN /\ IsInjective(block_freelist) /\ IsInjective(recycled_block_structs)
     /\ FreeBlocks \cap Recycled = {}
     /\ \A a \in AllArenas :
          /\ IsInjective(owned_pages[a])
          /\ OwnedBlocks(a) \cap (FreeBlocks \cup Recycled) = {}
          /\ \A b \in AllArenas : a # b => OwnedBlocks(a) \cap OwnedBlocks(b) = {}
     /\ pc = "link" => new_struct \notin ListedStructs \cup Recycled

(* Every struct the lists reach lies in memory that pageblock_storage was    *)
(* given and that mprotect left readable and writable, and overlaps no       *)
(* other: following or editing a list never faults, which the nested push    *)
(* of get_new_block_struct and the delete of a neighbour could break.        *)
StructsAccessible ==
  LET structs == ListedStructs \cup Range(recycled_block_structs)
                 \cup (IF pc = "link" THEN {new_struct} ELSE {})
      At(s)   == s .. s + StructSize - 1
  IN /\ \A s \in structs : At(s) \subseteq used[pageblock_storage] \cap writable
     /\ \A s, t \in structs : s # t => At(s) \cap At(t) = {}

(* A byte can be read and written exactly when an arena holds its page:      *)
(* arena_delete takes the access away from all of a merged run, arena_push   *)
(* gives it for all of the run it cuts off.                                  *)
ProtectionMatchesOwnership ==
  writable = UNION {Held(a) : a \in AllArenas}

(* What arena_push returned stays its caller's until arena_delete: it lies   *)
(* in pages the arena holds, no two arenas' memory overlaps, and the bytes   *)
(* the arena will hand out next are not in use.  arena_push reads            *)
(* memory_avail again after the call that may have pushed onto the same      *)
(* arena; using the value it had before would break this.                    *)
MemoryIsExclusive ==
  \A a \in AllArenas :
    /\ used[a] \subseteq Held(a)
    /\ used[a] \cap (memory_avail[a] .. memory_limit[a] - 1) = {}
    /\ ~(pc \in {"delete", "exit"} /\ deleting = a)
         => memory_avail[a] .. memory_limit[a] - 1 \subseteq Held(a)

(* The free list never becomes empty.  block_insert_and_coalesce would       *)
(* return the block arena_delete is freeing with its next_block untouched,   *)
(* and the arena's other blocks would be on the free list still protected    *)
(* as the arena's; only that an exhausted block stays listed prevents it.    *)
FreelistNonEmpty == block_freelist # <<>>

(* The assertion at the end of arena_push's two size comparisons never       *)
(* fails: a run with room for the request has room for its whole pages.      *)
NoAssert == pc # "assert"

(* The nested calls of arena_push return: a push or a delete that began      *)
(* comes to its end or ends the process.                                     *)
CallReturns == pc \notin {"idle"} ~> pc \in {"idle", "exit", "assert"}

(* The allocator keeps the contract its clients rely on (arena.h): pushes    *)
(* hand out memory nobody else holds, and what is held stays accessible      *)
(* until the arena is deleted, whatever the free list and the structs go     *)
(* through meanwhile.                                                        *)
Contract == INSTANCE ArenaContract WITH
              Arenas <- Arenas, Addr <- Addr, Sizes <- Sizes,
              held <- [a \in Arenas |-> used[a]], accessible <- writable
KeepsContract == Contract!Spec

(* The comments of block_insert_and_coalesce call the list it inserts into   *)
(* "the ordered list of blocks" (arena.c:95, 102): between calls the runs    *)
(* that still have pages are in the order of their addresses.                *)
FreelistOrdered ==
  LET runs == SelectSeq(block_freelist, LAMBDA s : Size(block[s]) > 0)
  IN pc = "idle" => \A i \in 1 .. Len(runs) - 1 :
                      block[runs[i]].memory_begin < block[runs[i+1]].memory_begin
=============================================================================
