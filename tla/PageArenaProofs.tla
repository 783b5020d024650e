-------------------------- MODULE PageArenaProofs --------------------------
(***************************************************************************)
(* Proofs about the page allocator, for every number and size of pages and *)
(* every set of arenas and request sizes.                                  *)
(***************************************************************************)
EXTENDS PageArena, SequenceTheorems, WellFoundedInduction, TLAPS

-----------------------------------------------------------------------------
(* Facts about the helpers.                                                 *)

(* A set of natural numbers that is not empty has its least element in it. *)
LEMMA MinIsLeast ==
  ASSUME NEW S \in SUBSET Nat, S # {}
  PROVE  Min(S) \in S /\ \A y \in S : Min(S) <= y
<1>1. \E x \in S : \A y \in S : x <= y
  <2>1. PICK x \in S : \A y \in S : <<y, x>> \notin OpToRel(<, Nat)
    BY NatLessThanWellFounded, WFMin
  <2>2. \A y \in S : ~(y < x)
    BY <2>1 DEF OpToRel
  <2> QED BY <2>2
<1> QED BY <1>1 DEF Min

(* The page boundaries: where runs of pages begin and end. *)
Boundary == {k * PageSize : k \in 0 .. TotalPages}
PageRun  == [memory_begin : Boundary, memory_end : Boundary]

(* Boundaries are addresses or the end of memory. *)
LEMMA BoundaryRange == Boundary \subseteq 0 .. MemEnd /\ MemEnd \in Nat /\ 0 \in Boundary
<1> USE SizeAssumption
<1>1. ASSUME NEW k \in 0 .. TotalPages PROVE k * PageSize \in 0 .. TotalPages * PageSize
  <2>1. k * PageSize \in Nat /\ (TotalPages - k) * PageSize \in Nat
    BY SMT
  <2>2. TotalPages * PageSize = k * PageSize + (TotalPages - k) * PageSize
    BY SMT
  <2> QED BY <2>1, <2>2, SMT
<1>2. MemEnd \in Nat
  BY SMT DEF MemEnd
<1>3. 0 \in Boundary
  <2>1. 0 = 0 * PageSize /\ 0 \in 0 .. TotalPages
    BY SMT
  <2> QED BY <2>1 DEF Boundary
<1> QED BY <1>1, <1>2, <1>3 DEF Boundary, MemEnd

(* A request rounded up to pages is at least the request, at least a page,   *)
(* and fits into whatever run of whole pages the request fits into: the      *)
(* reason why the assertion of arena_push holds.                             *)
LEMMA RoundUp ==
  ASSUME NEW size \in Nat \ {0}
  PROVE  LET need == size_in_page_multiples(size)
         IN /\ need \in Nat /\ size <= need /\ PageSize <= need
            /\ \A b, e \in Boundary : e - b >= size =>
                 /\ need <= e - b
                 /\ b + need \in Boundary
<1> DEFINE k == (size + PageSize - 1) \div PageSize
           need == size_in_page_multiples(size)
<1> USE SizeAssumption
<1>1. k \in Nat /\ k * PageSize <= size + PageSize - 1 /\ size + PageSize - 1 < k * PageSize + PageSize
  BY SMT
<1>2. need = k * PageSize
  BY DEF size_in_page_multiples
<1>3. k >= 1
  <2>1. SUFFICES ASSUME k = 0 PROVE FALSE
    BY <1>1, SMT
  <2>2. k * PageSize = 0
    BY <2>1, SMT
  <2> QED BY <1>1, <2>2, SMT
<1>4. need \in Nat /\ size <= need
  BY <1>1, <1>2, SMT
<1>5. PageSize <= need
  <2>1. (k - 1) * PageSize \in Nat /\ k * PageSize = (k - 1) * PageSize + PageSize
    BY <1>1, <1>3, SMT
  <2> QED BY <1>2, <2>1, SMT
<1>6. ASSUME NEW b \in Boundary, NEW e \in Boundary, e - b >= size
      PROVE  need <= e - b /\ b + need \in Boundary
  <2>1. PICK m \in 0 .. TotalPages : b = m * PageSize
    BY DEF Boundary
  <2>2. PICK n \in 0 .. TotalPages : e = n * PageSize
    BY DEF Boundary
  <2>3. k <= n - m
    <3>1. SUFFICES ASSUME n - m <= k - 1 PROVE FALSE
      BY <1>1, SMT
    <3>2. e - b = (n - m) * PageSize
      BY <2>1, <2>2, SMT
    <3>3. (k - 1 - (n - m)) * PageSize >= 0
      BY <3>1, <1>1, SMT
    <3>4. (n - m) * PageSize <= k * PageSize - PageSize
      BY <3>3, <1>1, SMT
    <3> QED BY <1>1, <1>6, <3>2, <3>4, SMT
  <2>4. need <= e - b
    <3>1. (n - m - k) * PageSize >= 0
      BY <2>3, <1>1, SMT
    <3>2. (n - m - k) * PageSize = n * PageSize - m * PageSize - k * PageSize
      BY <1>1, SMT
    <3> QED BY <3>1, <3>2, <2>1, <2>2, <1>2, SMT
  <2>5. b + need = (m + k) * PageSize /\ m + k \in 0 .. TotalPages
    BY <2>1, <2>3, <1>1, <1>2, SMT
  <2> QED BY <2>4, <2>5 DEF Boundary
<1> QED BY <1>4, <1>5, <1>6 DEF size_in_page_multiples

(* find_block_first_fit returns a block of the free list that is large enough. *)
LEMMA FirstFit ==
  ASSUME block_freelist \in Seq(Addr), NEW size \in Nat
  PROVE  LET i == find_block_first_fit(size)
         IN /\ i \in 0 .. Len(block_freelist)
            /\ i # 0 => /\ block_freelist[i] \in Addr
                        /\ Size(block[block_freelist[i]]) >= size
<1> DEFINE I == {i \in 1 .. Len(block_freelist) : Size(block[block_freelist[i]]) >= size}
<1>1. find_block_first_fit(size) = IF I # {} THEN Min(I) ELSE 0
  BY DEF find_block_first_fit, SelectInSeq
<1>2. I \in SUBSET Nat /\ Len(block_freelist) \in Nat
  BY LenProperties
<1>3. CASE I = {}
  BY <1>1, <1>2, <1>3
<1>4. CASE I # {}
  <2>1. Min(I) \in I
    BY <1>2, <1>4, MinIsLeast
  <2>2. Min(I) \in 1 .. Len(block_freelist)
    BY <2>1
  <2>3. block_freelist[Min(I)] \in Addr
    BY <2>2, ElementOfSeq
  <2> QED BY <1>1, <1>2, <1>4, <2>1, <2>2, <2>3
<1> QED BY <1>3, <1>4

(* The left neighbour block_insert_and_coalesce finds is a place of the list,
   or 0 when there is none. *)
LEMMA LeftNeighbourIndex ==
  ASSUME NEW l \in Seq(Addr), NEW n \in Addr, NEW bs
  PROVE  /\ Len(l) \in Nat
         /\ LeftNeighbour(l, n, bs) \in 0 .. Len(l)
<1> DEFINE I == {i \in 1 .. Len(l) : bs[l[i]].memory_begin <= bs[n].memory_begin}
<1>1. LeftNeighbour(l, n, bs) = IF I # {} THEN Min(I) ELSE 0
  BY DEF LeftNeighbour, SelectInSeq
<1>2. I \in SUBSET Nat /\ Len(l) \in Nat
  BY LenProperties
<1>3. I # {} => Min(I) \in I
  BY <1>2, MinIsLeast
<1> QED BY <1>1, <1>2, <1>3

(* RemoveAt and InsertAt keep a sequence over its set. *)
LEMMA RemoveInsertType ==
  ASSUME NEW S, NEW l \in Seq(S), NEW i \in 1 .. Len(l) + 1, NEW e \in S
  PROVE  RemoveAt(l, i) \in Seq(S) /\ InsertAt(l, i, e) \in Seq(S)
<1>1. Len(l) \in Nat /\ \A j \in 1 .. Len(l) : l[j] \in S
  BY LenProperties, ElementOfSeq
<1>2. SubSeq(l, 1, i - 1) \in Seq(S)
  BY <1>1, SubSeqProperties
<1>3. SubSeq(l, i + 1, Len(l)) \in Seq(S) /\ SubSeq(l, i, Len(l)) \in Seq(S)
  BY <1>1, SubSeqProperties
<1>4. <<e>> \in Seq(S)
  OBVIOUS
<1> QED BY <1>2, <1>3, <1>4, ConcatProperties DEF RemoveAt, InsertAt

(* block_insert_and_coalesce keeps lists of structs lists of structs, and    *)
(* runs of whole pages runs of whole pages.                                  *)
LEMMA InsertType ==
  ASSUME NEW l \in Seq(Addr), NEW n \in Addr, NEW bs \in [Addr -> PageRun], NEW behind \in Seq(Addr)
  PROVE  LET r == block_insert_and_coalesce(l, n, bs, behind)
         IN r.list \in Seq(Addr) /\ r.block \in [Addr -> PageRun] /\ r.recycled \in Seq(Addr)
<1> DEFINE k == LeftNeighbour(l, n, bs)
           left  == k > 0 /\ bs[l[k]].memory_end = bs[n].memory_begin
           right == k < Len(l) /\ bs[l[k+1]].memory_begin = bs[n].memory_end
           r == block_insert_and_coalesce(l, n, bs, behind)
<1>1. Len(l) \in Nat /\ k \in 0 .. Len(l)
  BY LeftNeighbourIndex
<1>2. /\ k > 0 => l[k] \in Addr
      /\ k < Len(l) => l[k+1] \in Addr
  BY <1>1, ElementOfSeq
<1>a. k + 1 \in 1 .. Len(l) + 1
  BY <1>1
<1>b. RemoveAt(l, k + 1) \in Seq(Addr) /\ InsertAt(l, k + 1, n) \in Seq(Addr)
  BY <1>a, RemoveInsertType
<1>3. Zeroed \in PageRun
  BY BoundaryRange DEF Zeroed, PageRun
<1> HIDE DEF k
<1>4. CASE l = <<>>
  <2>1. r.list = <<n>> \o behind /\ r.block = bs /\ r.recycled = <<>>
    BY <1>4 DEF block_insert_and_coalesce, Stitches
  <2>2. <<n>> \in Seq(Addr) /\ <<>> \in Seq(Addr)
    OBVIOUS
  <2> QED BY <2>1, <2>2, ConcatProperties
<1>5. CASE l # <<>> /\ left /\ right
  <2>1. /\ r.list = RemoveAt(l, k + 1)
        /\ r.block = [bs EXCEPT ![l[k]].memory_end = bs[l[k+1]].memory_end,
                                ![l[k+1]] = Zeroed, ![n] = Zeroed]
        /\ r.recycled = <<n, l[k+1]>>
    BY <1>5 DEF block_insert_and_coalesce, k, Stitches
  <2>2. r.list \in Seq(Addr)
    BY <1>b, <2>1
  <2>3. r.block \in [Addr -> PageRun]
    BY <1>1, <1>2, <1>3, <1>5, <2>1 DEF PageRun
  <2> QED BY <1>2, <1>5, <2>1, <2>2, <2>3
<1>6. CASE l # <<>> /\ left /\ ~right
  <2>1. /\ r.list = l
        /\ r.block = [bs EXCEPT ![l[k]].memory_end = bs[n].memory_end, ![n] = Zeroed]
        /\ r.recycled = <<n>>
    BY <1>6 DEF block_insert_and_coalesce, k, Stitches
  <2>2. r.block \in [Addr -> PageRun]
    BY <1>1, <1>2, <1>3, <1>6, <2>1 DEF PageRun
  <2> QED BY <2>1, <2>2
<1>7. CASE l # <<>> /\ ~left /\ right
  <2>1. /\ r.list = l
        /\ r.block = [bs EXCEPT ![l[k+1]].memory_begin = bs[n].memory_begin, ![n] = Zeroed]
        /\ r.recycled = <<n>>
    BY <1>7 DEF block_insert_and_coalesce, k, Stitches
  <2>2. r.block \in [Addr -> PageRun]
    BY <1>1, <1>2, <1>3, <1>7, <2>1 DEF PageRun
  <2> QED BY <2>1, <2>2
<1>8. CASE l # <<>> /\ ~left /\ ~right
  <2>1. r.list = InsertAt(l, k + 1, n) /\ r.block = bs /\ r.recycled = <<>>
    BY <1>8 DEF block_insert_and_coalesce, k, Stitches
  <2>2. r.list \in Seq(Addr)
    BY <1>b, <2>1
  <2> QED BY <2>1, <2>2
<1> QED BY <1>4, <1>5, <1>6, <1>7, <1>8

-----------------------------------------------------------------------------
(* The inductive invariant behind NoAssert.  Every run, listed or in flight, *)
(* consists of whole pages, so a request that fits a run still fits it when  *)
(* it is rounded up to pages.  That needs the type of the variables, and the *)
(* type of memory_avail needs the nesting of the pushes: a push is of a      *)
(* client's arena, inside it there may be one of pageblock_storage, and the  *)
(* second has a page of its own, which holds both structs it is to provide.  *)

AlignedInv ==
  /\ block \in [Addr -> PageRun]
  /\ \A i \in DOMAIN stack : stack[i].memory_begin \in Boundary /\ stack[i].memory_end \in Boundary

OuterPush(f) ==
  /\ f.arena \in Arenas
  /\ memory_avail[f.arena] + f.size <= MemEnd

InnerPush(f) ==
  /\ f.arena = pageblock_storage
  /\ f.size = StructSize
  /\ memory_avail[pageblock_storage] + (IF pc = "get_struct" THEN 2 * StructSize ELSE StructSize)
       < memory_limit[pageblock_storage]

StackInv ==
  /\ pc \in {"idle", "delete"} => stack = <<>>
  /\ pc \in {"get_struct", "link"} =>
       /\ Len(stack) \in {1, 2}
       /\ OuterPush(stack[1])
       /\ Len(stack) = 2 => InnerPush(stack[2])

SafeInv == TypeOK /\ AlignedInv /\ StackInv /\ NoAssert

(* Whole-page runs are runs, and addresses are what the types say. *)
LEMMA PageRunIsRun == PageRun \subseteq Run /\ Addr \subseteq Nat /\ 0 \in Addr /\ StructSize \in Addr
<1>1. MemEnd \in Nat /\ PageSize <= MemEnd
  <2>1. (TotalPages - 1) * PageSize \in Nat /\ TotalPages * PageSize = (TotalPages - 1) * PageSize + PageSize
    BY SizeAssumption, SMT
  <2> QED BY <2>1, SizeAssumption, SMT DEF MemEnd
<1>2. 0 \in Addr /\ StructSize \in Addr /\ Addr \subseteq Nat
  BY <1>1, SizeAssumption DEF Addr
<1> QED BY <1>2, BoundaryRange DEF PageRun, Run

(* init_memory establishes the invariant. *)
LEMMA InitSafe == Init => SafeInv
<1> SUFFICES ASSUME Init PROVE SafeInv
  OBVIOUS
<1>1. MemEnd \in Nat /\ PageSize \in 0 .. MemEnd /\ 0 \in Boundary /\ PageSize \in Boundary /\ MemEnd \in Boundary
  <2>1. 1 * PageSize = PageSize /\ 1 \in 0 .. TotalPages /\ TotalPages \in 0 .. TotalPages
    BY SizeAssumption
  <2>2. PageSize \in Boundary /\ MemEnd \in Boundary
    BY <2>1 DEF Boundary, MemEnd
  <2> QED BY <2>2, BoundaryRange
<1>2. block \in [Addr -> PageRun]
  BY <1>1, PageRunIsRun DEF Init, FirstFreeRun, PageRun, Zeroed
<1>3. /\ block \in [Addr -> Run]
      /\ block_freelist \in Seq(Addr) /\ recycled_block_structs \in Seq(Addr) /\ stack \in Seq(Frame)
  BY <1>2, PageRunIsRun DEF Init
<1>4. owned_pages \in [AllArenas -> Seq(Addr)]
  <2>1. <<0>> \in Seq(Addr) /\ <<>> \in Seq(Addr)
    BY PageRunIsRun
  <2> QED BY <2>1 DEF Init
<1>5. memory_avail \in [AllArenas -> 0 .. MemEnd] /\ memory_limit \in [AllArenas -> 0 .. MemEnd]
  BY <1>1, SizeAssumption DEF Init
<1>6. writable \in SUBSET Addr /\ used \in [AllArenas -> SUBSET Addr]
  BY <1>1, SizeAssumption DEF Init, Addr
<1>7. new_struct \in Addr /\ deleting \in AllArenas /\ pc = "idle" /\ stack = <<>>
  BY PageRunIsRun DEF Init, AllArenas
<1>8. TypeOK
  BY <1>3, <1>4, <1>5, <1>6, <1>7 DEF TypeOK
<1> QED BY <1>2, <1>7, <1>8 DEF SafeInv, AlignedInv, StackInv, NoAssert

-----------------------------------------------------------------------------
(* What TakePages gives out is a run of whole pages that is large enough. *)
LEMMA TakePagesSafe ==
  ASSUME TypeOK, AlignedInv, NEW a \in AllArenas, NEW size \in Nat \ {0}, TakePages(a, size)
  PROVE  /\ TypeOK' /\ AlignedInv'
         /\ stack' = Append(stack, stack'[Len(stack) + 1])
         /\ LET f == stack'[Len(stack) + 1]
            IN /\ f \in Frame /\ f.arena = a /\ f.size = size
               /\ memory_avail' = [memory_avail EXCEPT ![a] = f.memory_begin]
               /\ memory_limit' = [memory_limit EXCEPT ![a] = f.memory_end]
               /\ f.memory_begin + size <= f.memory_end
               /\ f.memory_begin + PageSize <= f.memory_end
<1> DEFINE i == find_block_first_fit(size)
           free == block_freelist[i]
           need == size_in_page_multiples(size)
           from == block[free].memory_begin
           f == [arena |-> a, size |-> size, memory_begin |-> from, memory_end |-> from + need]
<1>1. i \in 1 .. Len(block_freelist) /\ free \in Addr /\ Size(block[free]) >= size
  <2>1. block_freelist \in Seq(Addr) /\ Len(block_freelist) \in Nat
    BY LenProperties DEF TypeOK
  <2>2. i # 0
    BY DEF TakePages, CutRun
  <2>3. i \in 0 .. Len(block_freelist) /\ (i # 0 => free \in Addr /\ Size(block[free]) >= size)
    BY <2>1, FirstFit
  <2> HIDE DEF i
  <2> QED BY <2>1, <2>2, <2>3
<1>2. from \in Boundary /\ block[free].memory_end \in Boundary /\ block[free] \in PageRun
  BY <1>1 DEF AlignedInv, PageRun
<1>3. need \in Nat /\ size <= need /\ PageSize <= need /\ from + need \in Boundary
  BY <1>1, <1>2, RoundUp DEF Size
<1>4. from \in 0 .. MemEnd /\ from + need \in 0 .. MemEnd /\ MemEnd \in Nat /\ Boundary \subseteq 0 .. MemEnd
  BY <1>2, <1>3, BoundaryRange
<1>5. /\ block' = [block EXCEPT ![free].memory_begin = from + need]
      /\ writable' = writable \cup (from .. from + need - 1)
      /\ memory_avail' = [memory_avail EXCEPT ![a] = from]
      /\ memory_limit' = [memory_limit EXCEPT ![a] = from + need]
      /\ stack' = Append(stack, f)
      /\ pc' = "get_struct"
      /\ UNCHANGED <<block_freelist, recycled_block_structs, owned_pages, new_struct, deleting, used>>
  BY DEF TakePages, CutRun
<1> HIDE DEF i, free, need, from
<1>6. f \in Frame
  BY <1>4 DEF Frame
<1>7. stack \in Seq(Frame) /\ Len(stack) \in Nat
  BY LenProperties DEF TypeOK
<1>8. stack' \in Seq(Frame) /\ stack'[Len(stack) + 1] = f
  BY <1>5, <1>6, <1>7, AppendProperties
<1>9. block' \in [Addr -> PageRun]
  BY <1>1, <1>2, <1>3, <1>5 DEF AlignedInv, PageRun
<1>10. \A j \in DOMAIN stack' : stack'[j].memory_begin \in Boundary /\ stack'[j].memory_end \in Boundary
  <2>1. ASSUME NEW j \in DOMAIN stack' PROVE stack'[j].memory_begin \in Boundary /\ stack'[j].memory_end \in Boundary
    <3>1. DOMAIN stack' = 1 .. Len(stack) + 1 /\ DOMAIN stack = 1 .. Len(stack)
      BY <1>5, <1>6, <1>7, AppendProperties, LenProperties
    <3>2. CASE j = Len(stack) + 1
      BY <1>2, <1>3, <1>8, <3>2
    <3>3. CASE j \in 1 .. Len(stack)
      <4>1. stack'[j] = stack[j]
        BY <1>5, <1>6, <1>7, <3>3, AppendProperties
      <4> QED BY <3>1, <3>3, <4>1 DEF AlignedInv
    <3> QED BY <1>7, <3>1, <3>2, <3>3
  <2> QED BY <2>1
<1>11. memory_avail' \in [AllArenas -> 0 .. MemEnd] /\ memory_limit' \in [AllArenas -> 0 .. MemEnd]
  BY <1>4, <1>5 DEF TypeOK
<1>12. writable' \in SUBSET Addr
  <2>1. from .. from + need - 1 \subseteq 0 .. MemEnd - 1
    BY <1>3, <1>4
  <2> QED BY <1>5, <2>1 DEF TypeOK, Addr
<1>13. TypeOK'
  BY <1>5, <1>8, <1>9, <1>11, <1>12, PageRunIsRun DEF TypeOK
<1>14. AlignedInv'
  BY <1>9, <1>10 DEF AlignedInv
<1>15. f.memory_begin + size <= f.memory_end /\ f.memory_begin + PageSize <= f.memory_end
  BY <1>3, <1>4, SizeAssumption
<1>16. f.arena = a /\ f.size = size /\ f.memory_begin = from /\ f.memory_end = from + need
  OBVIOUS
<1> HIDE DEF f
<1> QED BY <1>5, <1>6, <1>8, <1>13, <1>14, <1>15, <1>16

(* The assertion does not fail: TakePagesFails is "Out of memory" or mprotect. *)
LEMMA TakePagesFailsSafe ==
  ASSUME SafeInv, NEW size \in Nat \ {0}, TakePagesFails(size)
  PROVE  SafeInv'
<1> DEFINE i == find_block_first_fit(size)
<1>1. ASSUME i # 0 PROVE ~(size_in_page_multiples(size) > Size(block[block_freelist[i]]))
  <2>1. block_freelist[i] \in Addr /\ Size(block[block_freelist[i]]) >= size
    BY <1>1, FirstFit DEF SafeInv, TypeOK
  <2>2. block[block_freelist[i]] \in PageRun
    BY <2>1 DEF SafeInv, AlignedInv
  <2>3. /\ block[block_freelist[i]].memory_begin \in Boundary /\ block[block_freelist[i]].memory_end \in Boundary
        /\ Boundary \subseteq 0 .. MemEnd /\ MemEnd \in Nat
    BY <2>2, BoundaryRange DEF PageRun
  <2> DEFINE b == block[block_freelist[i]].memory_begin
             e == block[block_freelist[i]].memory_end
  <2>4. e - b >= size => size_in_page_multiples(size) <= e - b
    BY <2>3, RoundUp
  <2>5. size_in_page_multiples(size) \in Nat
    BY RoundUp
  <2> HIDE DEF i
  <2>6. Size(block[block_freelist[i]]) = e - b
    BY DEF Size
  <2>7. b \in Boundary /\ e \in Boundary
    BY <2>3
  <2> HIDE DEF b, e
  <2>8. b \in Nat /\ e \in Nat
    BY <2>7, BoundaryRange
  <2> QED BY <2>1, <2>4, <2>5, <2>6, <2>8
<1>2. pc' = "exit" /\ UNCHANGED <<block, block_freelist, recycled_block_structs, owned_pages, memory_avail,
                                   memory_limit, writable, stack, new_struct, deleting, used>>
  BY <1>1 DEF TakePagesFails
<1> QED BY <1>2 DEF SafeInv, TypeOK, AlignedInv, StackInv, NoAssert

-----------------------------------------------------------------------------
(* Every action preserves SafeInv. *)

(* arena_push within the current run moves memory_avail inside its limit. *)
LEMMA PushFitsSafe ==
  ASSUME SafeInv, NEW a \in Arenas, NEW size \in Sizes, PushFits(a, size)
  PROVE  SafeInv'
<1>1. a \in AllArenas /\ size \in Nat \ {0}
  BY SizeAssumption DEF AllArenas
<1>2. memory_avail[a] \in Nat /\ memory_limit[a] \in 0 .. MemEnd /\ MemEnd \in Nat
  BY <1>1, BoundaryRange DEF SafeInv, TypeOK
<1>3. memory_avail[a] + size \in 0 .. MemEnd
  BY <1>1, <1>2 DEF PushFits, HasRoom
<1>4. memory_avail[a] .. memory_avail[a] + size - 1 \subseteq Addr
  BY <1>1, <1>2, <1>3 DEF Addr
<1>5. memory_avail' \in [AllArenas -> 0 .. MemEnd] /\ used' \in [AllArenas -> SUBSET Addr]
  BY <1>1, <1>3, <1>4 DEF SafeInv, TypeOK, PushFits
<1> QED BY <1>5 DEF SafeInv, TypeOK, AlignedInv, StackInv, NoAssert, PushFits

(* arena_push that needs pages starts the only frame of the stack. *)
LEMMA PushTakesPagesSafe ==
  ASSUME SafeInv, NEW a \in Arenas, NEW size \in Sizes, PushTakesPages(a, size)
  PROVE  SafeInv'
<1>1. a \in AllArenas /\ size \in Nat \ {0}
  BY SizeAssumption DEF AllArenas
<1>2. TakePages(a, size) /\ stack = <<>> /\ pc' = "get_struct"
  BY DEF PushTakesPages, SafeInv, StackInv, TakePages, CutRun
<1> DEFINE f == stack'[Len(stack) + 1]
<1>3. /\ TypeOK' /\ AlignedInv'
      /\ stack' = Append(stack, f)
      /\ f \in Frame /\ f.arena = a /\ f.size = size
      /\ memory_avail' = [memory_avail EXCEPT ![a] = f.memory_begin]
      /\ f.memory_begin + size <= f.memory_end
  BY <1>1, <1>2, TakePagesSafe DEF SafeInv
<1> HIDE DEF f
<1>4. Len(stack') = 1 /\ stack'[1] = f
  BY <1>2, <1>3
<1>5. memory_avail'[a] = f.memory_begin /\ f.memory_begin \in Nat /\ f.memory_end \in 0 .. MemEnd
  BY <1>1, <1>3, BoundaryRange DEF SafeInv, TypeOK, Frame
<1>6. memory_avail'[f.arena] + f.size <= MemEnd
  BY <1>1, <1>3, <1>5, BoundaryRange
<1>7. OuterPush(stack[1])'
  BY <1>3, <1>4, <1>6 DEF OuterPush
<1> QED BY <1>2, <1>3, <1>4, <1>7 DEF SafeInv, StackInv, NoAssert

(* get_new_block_struct, from the recycled structs. *)
LEMMA GetRecycledStructSafe == SafeInv /\ GetRecycledStruct => SafeInv'
<1> SUFFICES ASSUME SafeInv, GetRecycledStruct PROVE SafeInv'
  OBVIOUS
<1>1. /\ Head(recycled_block_structs) \in Addr
      /\ Tail(recycled_block_structs) \in Seq(Addr)
  BY HeadTailProperties DEF SafeInv, TypeOK, GetRecycledStruct
<1>2. Zeroed \in PageRun
  BY BoundaryRange DEF Zeroed, PageRun
<1>3. new_struct' \in Addr /\ recycled_block_structs' \in Seq(Addr) /\ block' \in [Addr -> PageRun] /\ pc' = "link"
  BY <1>1, <1>2 DEF SafeInv, AlignedInv, GetRecycledStruct
<1>4. TypeOK' /\ AlignedInv' /\ NoAssert'
  BY <1>3, PageRunIsRun DEF SafeInv, TypeOK, AlignedInv, NoAssert, GetRecycledStruct
<1>5. StackInv'
  <2>1. /\ Len(stack) \in {1, 2}
        /\ OuterPush(stack[1])
        /\ Len(stack) = 2 => InnerPush(stack[2])
    BY DEF SafeInv, StackInv, GetRecycledStruct
  <2>2. ASSUME NEW f, InnerPush(f) PROVE InnerPush(f)'
    <3>1. memory_avail[pageblock_storage] \in Nat /\ memory_limit[pageblock_storage] \in Nat
      BY BoundaryRange DEF SafeInv, TypeOK, AllArenas
    <3> QED BY <1>3, <2>2, <3>1, SizeAssumption DEF InnerPush, GetRecycledStruct
  <2> QED BY <1>3, <2>1, <2>2 DEF StackInv, OuterPush, GetRecycledStruct
<1> QED BY <1>4, <1>5 DEF SafeInv

(* get_new_block_struct, from the room left in pageblock_storage. *)
LEMMA GetStoredStructSafe == SafeInv /\ GetStoredStruct => SafeInv'
<1> SUFFICES ASSUME SafeInv, GetStoredStruct PROVE SafeInv'
  OBVIOUS
<1> DEFINE avail == memory_avail[pageblock_storage]
           limit == memory_limit[pageblock_storage]
<1>1. /\ pageblock_storage \in AllArenas /\ MemEnd \in Nat
      /\ avail \in Nat /\ limit \in 0 .. MemEnd
      /\ StructSize \in Nat \ {0}
  BY BoundaryRange, SizeAssumption DEF SafeInv, TypeOK, AllArenas
<1>2. avail + StructSize < limit
  BY DEF GetStoredStruct, HasRoom
<1>3. avail \in Addr /\ avail .. avail + StructSize - 1 \subseteq Addr /\ avail + StructSize \in 0 .. MemEnd
  BY <1>1, <1>2 DEF Addr
<1>4. /\ new_struct' = avail /\ pc' = "link"
      /\ memory_avail' = [memory_avail EXCEPT ![pageblock_storage] = avail + StructSize]
      /\ used' = [used EXCEPT ![pageblock_storage] = @ \cup (avail .. avail + StructSize - 1)]
      /\ block' = [block EXCEPT ![avail] = Zeroed]
      /\ UNCHANGED <<block_freelist, recycled_block_structs, owned_pages, memory_limit, writable,
                     stack, deleting>>
  BY DEF GetStoredStruct
<1> HIDE DEF avail, limit
<1>5. block' \in [Addr -> PageRun]
  <2>1. Zeroed \in PageRun
    BY BoundaryRange DEF Zeroed, PageRun
  <2> QED BY <1>3, <1>4, <2>1 DEF SafeInv, AlignedInv
<1>6. memory_avail' \in [AllArenas -> 0 .. MemEnd] /\ used' \in [AllArenas -> SUBSET Addr]
  BY <1>1, <1>3, <1>4 DEF SafeInv, TypeOK
<1>7. TypeOK' /\ AlignedInv' /\ NoAssert'
  BY <1>3, <1>4, <1>5, <1>6, PageRunIsRun DEF SafeInv, TypeOK, AlignedInv, NoAssert
<1>8. StackInv'
  <2>1. /\ Len(stack) \in {1, 2}
        /\ OuterPush(stack[1])
        /\ Len(stack) = 2 => InnerPush(stack[2])
    BY DEF SafeInv, StackInv, GetStoredStruct
  <2>2. OuterPush(stack[1])'
    <3>1. stack[1].arena # pageblock_storage /\ stack[1].arena \in AllArenas
      BY <2>1, StorageAssumption DEF OuterPush, AllArenas
    <3>2. memory_avail'[stack[1].arena] = memory_avail[stack[1].arena]
      BY <1>4, <3>1 DEF SafeInv, TypeOK
    <3> QED BY <1>4, <2>1, <3>2 DEF OuterPush
  <2>3. Len(stack) = 2 => InnerPush(stack[2])'
    <3>1. memory_avail'[pageblock_storage] = avail + StructSize
      BY <1>1, <1>4 DEF SafeInv, TypeOK
    <3>2. Len(stack) = 2 => avail + 2 * StructSize < limit
      BY <2>1 DEF InnerPush, GetStoredStruct, avail, limit
    <3>3. memory_limit'[pageblock_storage] = limit
      BY <1>4 DEF limit
    <3>4. avail + 2 * StructSize < limit => avail + StructSize + StructSize < limit
      BY <1>1
    <3> QED BY <1>4, <2>1, <3>1, <3>2, <3>3, <3>4 DEF InnerPush
  <2> QED BY <1>4, <2>1, <2>2, <2>3 DEF StackInv
<1> QED BY <1>7, <1>8 DEF SafeInv

(* get_new_block_struct with a nested arena_push: the second and last frame. *)
LEMMA GrowStorageSafe == SafeInv /\ GrowStorage => SafeInv'
<1> SUFFICES ASSUME SafeInv, GrowStorage PROVE SafeInv'
  OBVIOUS
<1>1. /\ pageblock_storage \in AllArenas /\ MemEnd \in Nat
      /\ StructSize \in Nat \ {0} /\ 2 * StructSize < PageSize /\ PageSize \in Nat
      /\ memory_avail[pageblock_storage] \in Nat /\ memory_limit[pageblock_storage] \in Nat
  BY BoundaryRange, SizeAssumption DEF SafeInv, TypeOK, AllArenas
<1>2. TakePages(pageblock_storage, StructSize) /\ pc' = "get_struct"
  BY DEF GrowStorage, TakePages, CutRun
<1> DEFINE f == stack'[Len(stack) + 1]
<1>3. /\ TypeOK' /\ AlignedInv'
      /\ stack' = Append(stack, f)
      /\ f \in Frame /\ f.arena = pageblock_storage /\ f.size = StructSize
      /\ memory_avail' = [memory_avail EXCEPT ![pageblock_storage] = f.memory_begin]
      /\ memory_limit' = [memory_limit EXCEPT ![pageblock_storage] = f.memory_end]
      /\ f.memory_begin + PageSize <= f.memory_end
  BY <1>1, <1>2, TakePagesSafe DEF SafeInv
<1>4. /\ Len(stack) \in {1, 2}
      /\ OuterPush(stack[1])
      /\ Len(stack) = 2 => InnerPush(stack[2])
  BY DEF SafeInv, StackInv, GrowStorage
<1>5. Len(stack) = 1
  <2>1. SUFFICES ASSUME Len(stack) = 2 PROVE FALSE
    BY <1>4
  <2>2. memory_avail[pageblock_storage] + 2 * StructSize < memory_limit[pageblock_storage]
    BY <1>4, <2>1 DEF InnerPush, GrowStorage
  <2>3. ~(memory_avail[pageblock_storage] + StructSize < memory_limit[pageblock_storage])
    BY DEF GrowStorage, HasRoom
  <2> QED BY <1>1, <2>2, <2>3
<1> HIDE DEF f
<1>6. Len(stack') = 2 /\ stack'[1] = stack[1] /\ stack'[2] = f
  <2>1. stack \in Seq(Frame)
    BY DEF SafeInv, TypeOK
  <2>2. /\ Len(Append(stack, f)) = Len(stack) + 1
        /\ \A i \in 1 .. Len(stack) : Append(stack, f)[i] = stack[i]
        /\ Append(stack, f)[Len(stack) + 1] = f
    BY <1>3, <2>1, AppendProperties
  <2> QED BY <1>3, <1>5, <2>2
<1>7. OuterPush(stack[1])'
  <2>1. stack[1].arena # pageblock_storage /\ stack[1].arena \in AllArenas
    BY <1>4, StorageAssumption DEF OuterPush, AllArenas
  <2>2. memory_avail'[stack[1].arena] = memory_avail[stack[1].arena]
    BY <1>3, <2>1 DEF SafeInv, TypeOK
  <2> QED BY <1>4, <1>6, <2>2 DEF OuterPush
<1>8. InnerPush(stack[2])'
  <2>1. /\ memory_avail'[pageblock_storage] = f.memory_begin
        /\ memory_limit'[pageblock_storage] = f.memory_end
        /\ f.memory_begin \in Nat /\ f.memory_end \in Nat
    BY <1>1, <1>3 DEF SafeInv, TypeOK, Frame
  <2>2. f.memory_begin + 2 * StructSize < f.memory_end
    BY <1>1, <1>3, <2>1
  <2> QED BY <1>2, <1>3, <1>6, <2>1, <2>2 DEF InnerPush
<1> QED BY <1>2, <1>3, <1>6, <1>7, <1>8 DEF SafeInv, StackInv, NoAssert

(* The end of arena_push: the frame is popped, and a struct pushed for the
   caller lies inside the run just taken. *)
LEMMA LinkPagesSafe == SafeInv /\ LinkPages => SafeInv'
<1> SUFFICES ASSUME SafeInv, LinkPages PROVE SafeInv'
  OBVIOUS
<1> DEFINE f  == Last(stack)
           a  == f.arena
           bs == [block EXCEPT ![new_struct] = [memory_begin |-> f.memory_begin,
                                                memory_end |-> f.memory_end]]
           r  == block_insert_and_coalesce(owned_pages[a], new_struct, bs, <<>>)
           m  == memory_avail[a]
<1>1. /\ stack \in Seq(Frame) /\ Len(stack) \in {1, 2}
      /\ OuterPush(stack[1])
      /\ Len(stack) = 2 => InnerPush(stack[2])
  BY DEF SafeInv, TypeOK, StackInv, LinkPages
<1>2. /\ f \in Frame /\ a \in AllArenas /\ f.size \in Nat
      /\ f.memory_begin \in Boundary /\ f.memory_end \in Boundary
  <2>1. Len(stack) \in 1 .. Len(stack) /\ Len(stack) \in DOMAIN stack
    BY <1>1, LenProperties
  <2>2. f \in Frame
    BY <1>1, <2>1, ElementOfSeq DEF Last
  <2> QED BY <2>1, <2>2 DEF SafeInv, AlignedInv, Last, Frame
<1>3. new_struct \in Addr /\ owned_pages[a] \in Seq(Addr) /\ m \in Nat /\ MemEnd \in Nat
  BY <1>2, BoundaryRange DEF SafeInv, TypeOK
<1>4. m + f.size <= MemEnd /\ (Len(stack) = 2 => m \in Addr)
  <2>1. CASE Len(stack) = 1
    BY <1>1, <2>1 DEF OuterPush, Last
  <2>2. CASE Len(stack) = 2
    <3>1. a = pageblock_storage /\ f.size = StructSize /\ m + StructSize < memory_limit[pageblock_storage]
      BY <1>1, <2>2 DEF InnerPush, Last, LinkPages
    <3>2. memory_limit[pageblock_storage] \in 0 .. MemEnd
      BY DEF SafeInv, TypeOK, AllArenas
    <3> QED BY <1>3, <3>1, <3>2, SizeAssumption DEF Addr
  <2> QED BY <1>1, <2>1, <2>2
<1>5. /\ owned_pages' = [owned_pages EXCEPT ![a] = r.list]
      /\ recycled_block_structs' = r.recycled \o recycled_block_structs
      /\ memory_avail' = [memory_avail EXCEPT ![a] = m + f.size]
      /\ used' = [used EXCEPT ![a] = @ \cup (m .. m + f.size - 1)]
      /\ stack' = Front(stack)
      /\ \/ Len(stack) = 1 /\ pc' = "idle" /\ block' = r.block /\ new_struct' = 0
         \/ Len(stack) > 1 /\ new_struct' = m /\ block' = [r.block EXCEPT ![m] = Zeroed] /\ pc' = pc
      /\ UNCHANGED <<block_freelist, memory_limit, writable, deleting>>
      /\ pc = "link"
  BY DEF LinkPages
<1>6. r.list \in Seq(Addr) /\ r.block \in [Addr -> PageRun] /\ r.recycled \in Seq(Addr)
  <2>1. bs \in [Addr -> PageRun]
    BY <1>2, <1>3 DEF SafeInv, AlignedInv, PageRun
  <2>2. <<>> \in Seq(Addr)
    OBVIOUS
  <2> HIDE DEF bs, a
  <2> QED BY <1>3, <2>1, <2>2, InsertType
<1> HIDE DEF f, a, r, m
<1>7. block' \in [Addr -> PageRun] /\ new_struct' \in Addr
  <2>1. Zeroed \in PageRun /\ 0 \in Addr
    BY BoundaryRange, PageRunIsRun DEF Zeroed, PageRun
  <2>2. CASE Len(stack) = 1
    BY <1>5, <1>6, <2>1, <2>2
  <2>3. CASE Len(stack) = 2
    BY <1>4, <1>5, <1>6, <2>1, <2>3
  <2> QED BY <1>1, <2>2, <2>3
<1>8. /\ owned_pages' \in [AllArenas -> Seq(Addr)]
      /\ recycled_block_structs' \in Seq(Addr)
  BY <1>2, <1>5, <1>6, ConcatProperties DEF SafeInv, TypeOK
<1>9. memory_avail' \in [AllArenas -> 0 .. MemEnd] /\ used' \in [AllArenas -> SUBSET Addr]
  <2>1. m + f.size \in 0 .. MemEnd /\ m .. m + f.size - 1 \subseteq Addr
    BY <1>2, <1>3, <1>4 DEF Addr
  <2> QED BY <1>2, <1>5, <2>1 DEF SafeInv, TypeOK
<1>10. /\ stack' \in Seq(Frame)
       /\ Len(stack) = 1 => stack' = <<>>
       /\ Len(stack) = 2 => Len(stack') = 1 /\ stack'[1] = stack[1]
       /\ \A j \in DOMAIN stack' : j \in DOMAIN stack /\ stack'[j] = stack[j]
  <2>1. \A j \in 1 .. Len(stack) - 1 : stack[j] \in Frame
    BY <1>1, ElementOfSeq
  <2>2. stack' = SubSeq(stack, 1, Len(stack) - 1)
    BY <1>5 DEF Front
  <2>3. /\ stack' \in Seq(Frame)
        /\ Len(stack') = IF 1 <= Len(stack) - 1 THEN Len(stack) - 1 ELSE 0
        /\ \A j \in 1 .. Len(stack) - 1 : stack'[j] = stack[j]
    BY <1>1, <2>1, <2>2, SubSeqProperties
  <2>4. DOMAIN stack' = 1 .. Len(stack') /\ DOMAIN stack = 1 .. Len(stack)
    BY <1>1, <2>3, LenProperties
  <2>5. Len(stack) = 1 => stack' = <<>>
    BY <2>3, EmptySeq
  <2>6. Len(stack) = 2 => Len(stack') = 1 /\ stack'[1] = stack[1]
    BY <2>3
  <2>7. ASSUME NEW j \in DOMAIN stack' PROVE j \in DOMAIN stack /\ stack'[j] = stack[j]
    <3>0. Len(stack') = Len(stack) - 1
      <4>1. CASE Len(stack) = 1
        BY <2>3, <4>1
      <4>2. CASE Len(stack) = 2
        BY <2>3, <4>2
      <4> QED BY <1>1, <4>1, <4>2
    <3>1. j \in 1 .. Len(stack) - 1
      BY <2>4, <3>0
    <3>2. j \in 1 .. Len(stack)
      BY <1>1, <3>1
    <3> QED BY <2>3, <2>4, <3>1, <3>2
  <2> QED BY <2>3, <2>5, <2>6, <2>7
<1>11. TypeOK' /\ AlignedInv' /\ NoAssert'
  <2>1. TypeOK'
    BY <1>5, <1>7, <1>8, <1>9, <1>10, PageRunIsRun DEF SafeInv, TypeOK
  <2>2. AlignedInv'
    BY <1>7, <1>10 DEF SafeInv, AlignedInv
  <2> QED BY <1>5, <2>1, <2>2 DEF NoAssert
<1>12. StackInv'
  <2>1. CASE Len(stack) = 1
    BY <1>5, <1>10, <2>1 DEF StackInv
  <2>2. CASE Len(stack) = 2
    <3>1. a = pageblock_storage
      BY <1>1, <2>2 DEF InnerPush, a, f, Last
    <3>2. stack[1].arena # pageblock_storage /\ stack[1].arena \in AllArenas
      BY <1>1, StorageAssumption DEF OuterPush, AllArenas
    <3>3. memory_avail'[stack[1].arena] = memory_avail[stack[1].arena]
      BY <1>5, <3>1, <3>2 DEF SafeInv, TypeOK
    <3>4. OuterPush(stack[1])'
      BY <1>1, <1>10, <2>2, <3>3 DEF OuterPush
    <3>5. pc' = "link" /\ Len(stack') = 1
      BY <1>5, <1>10, <2>2
    <3> QED BY <3>4, <3>5 DEF StackInv
  <2> QED BY <1>1, <2>1, <2>2
<1> QED BY <1>11, <1>12 DEF SafeInv

(* One round of arena_delete's loop keeps every list and run well formed. *)
LEMMA DeleteBlockSafe == SafeInv /\ DeleteBlock => SafeInv'
<1> SUFFICES ASSUME SafeInv, DeleteBlock PROVE SafeInv'
  OBVIOUS
<1> DEFINE l == owned_pages[deleting]
           p == Head(l)
           r == block_insert_and_coalesce(block_freelist, p, block, Tail(l))
<1>1. deleting \in AllArenas /\ l \in Seq(Addr) /\ l # <<>>
  BY DEF SafeInv, TypeOK, DeleteBlock
<1>2. p \in Addr /\ Tail(l) \in Seq(Addr)
  BY <1>1, HeadTailProperties
<1>3. /\ writable' = writable \ Unprotected(p)
      /\ block' = r.block /\ block_freelist' = r.list
      /\ recycled_block_structs' = r.recycled \o recycled_block_structs
      /\ owned_pages' = [owned_pages EXCEPT ![deleting] = Tail(l)]
      /\ UNCHANGED <<memory_avail, memory_limit, stack, new_struct, pc, deleting, used>>
  BY <1>1 DEF DeleteBlock, SafeInv, TypeOK
<1> HIDE DEF l, p
<1>4. r.list \in Seq(Addr) /\ r.block \in [Addr -> PageRun] /\ r.recycled \in Seq(Addr)
  <2>1. block_freelist \in Seq(Addr) /\ block \in [Addr -> PageRun]
    BY DEF SafeInv, TypeOK, AlignedInv
  <2> QED BY <1>2, <2>1, InsertType
<1> HIDE DEF r
<1>5. recycled_block_structs' \in Seq(Addr)
  BY <1>3, <1>4, ConcatProperties DEF SafeInv, TypeOK
<1>6. owned_pages' \in [AllArenas -> Seq(Addr)] /\ writable' \in SUBSET Addr
  BY <1>1, <1>2, <1>3 DEF SafeInv, TypeOK
<1>7. TypeOK'
  BY <1>3, <1>4, <1>5, <1>6, PageRunIsRun DEF SafeInv, TypeOK
<1>8. AlignedInv' /\ StackInv' /\ NoAssert'
  BY <1>3, <1>4 DEF SafeInv, AlignedInv, StackInv, NoAssert, OuterPush, InnerPush
<1> QED BY <1>7, <1>8 DEF SafeInv

(* The steps of arena_delete that move no page. *)
LEMMA DeleteSafe ==
  ASSUME SafeInv, (\E a \in Arenas : Delete(a)) \/ DeleteEnds \/ DeleteFails
  PROVE  SafeInv'
<1>1. /\ MemEnd \in Nat /\ pageblock_storage \in AllArenas /\ Arenas \subseteq AllArenas
  BY BoundaryRange DEF AllArenas
<1>2. ASSUME NEW a \in Arenas, Delete(a) PROVE SafeInv'
  <2>1. deleting' \in AllArenas /\ used' \in [AllArenas -> SUBSET Addr]
    BY <1>1, <1>2 DEF SafeInv, TypeOK, Delete
  <2> QED BY <1>2, <2>1 DEF SafeInv, TypeOK, AlignedInv, StackInv, NoAssert, Delete
<1>3. CASE DeleteEnds
  <2>1. memory_avail' \in [AllArenas -> 0 .. MemEnd] /\ memory_limit' \in [AllArenas -> 0 .. MemEnd]
    BY <1>1, <1>3 DEF SafeInv, TypeOK, DeleteEnds
  <2> QED BY <1>1, <1>3, <2>1 DEF SafeInv, TypeOK, AlignedInv, StackInv, NoAssert, DeleteEnds
<1>4. CASE DeleteFails
  BY <1>4 DEF SafeInv, TypeOK, AlignedInv, StackInv, NoAssert, DeleteFails
<1> QED BY <1>2, <1>3, <1>4

(* Every step keeps the invariant. *)
LEMMA NextSafe == SafeInv /\ [Next]_vars => SafeInv'
<1> SUFFICES ASSUME SafeInv, [Next]_vars PROVE SafeInv'
  OBVIOUS
<1>1. ASSUME NEW a \in Arenas, NEW size \in Sizes, PushFails(a, size) PROVE SafeInv'
  <2>1. size \in Nat \ {0} /\ TakePagesFails(size)
    BY <1>1, SizeAssumption DEF PushFails
  <2> QED BY <2>1, TakePagesFailsSafe
<1>2. ASSUME GrowStorageFails PROVE SafeInv'
  <2>1. StructSize \in Nat \ {0} /\ TakePagesFails(StructSize)
    BY <1>2, SizeAssumption DEF GrowStorageFails
  <2> QED BY <2>1, TakePagesFailsSafe
<1>3. CASE Call
  BY <1>1, <1>3, PushFitsSafe, PushTakesPagesSafe, DeleteSafe DEF Call
<1>4. CASE Step
  BY <1>2, <1>4, GetRecycledStructSafe, GetStoredStructSafe, GrowStorageSafe, LinkPagesSafe,
     DeleteBlockSafe, DeleteSafe DEF Step
<1>5. CASE UNCHANGED vars
  BY <1>5 DEF vars, SafeInv, TypeOK, AlignedInv, StackInv, NoAssert, OuterPush, InnerPush
<1>6. CASE Exited
  BY <1>5, <1>6 DEF Exited
<1> QED BY <1>3, <1>4, <1>5, <1>6 DEF Next

(* Every address the allocator keeps is one of the reserved memory.          *)
THEOREM TypeCorrect == Spec => []TypeOK
<1>1. Spec => []SafeInv
  BY InitSafe, NextSafe, PTL DEF Spec
<1>2. SafeInv => TypeOK
  BY DEF SafeInv
<1> QED BY <1>1, <1>2, PTL

(* The assert (0) of arena_push (arena.c:189) is never reached.              *)
THEOREM AssertNeverFails == Spec => []NoAssert
<1>1. Spec => []SafeInv
  BY InitSafe, NextSafe, PTL DEF Spec
<1>2. SafeInv => NoAssert
  BY DEF SafeInv
<1> QED BY <1>1, <1>2, PTL

-----------------------------------------------------------------------------
(* block_insert_and_coalesce never returns an empty list: the right          *)
(* neighbour is only unlinked when there is a left one.                      *)
LEMMA InsertNonEmpty ==
  ASSUME NEW l \in Seq(Addr), NEW n \in Addr, NEW bs, NEW behind \in Seq(Addr)
  PROVE  block_insert_and_coalesce(l, n, bs, behind).list # <<>>
<1> DEFINE k == LeftNeighbour(l, n, bs)
           left  == k > 0 /\ bs[l[k]].memory_end = bs[n].memory_begin
           right == k < Len(l) /\ bs[l[k+1]].memory_begin = bs[n].memory_end
           r == block_insert_and_coalesce(l, n, bs, behind)
<1>1. Len(l) \in Nat /\ k \in 0 .. Len(l) /\ \A j \in 1 .. Len(l) : l[j] \in Addr
  BY LeftNeighbourIndex, ElementOfSeq
<1>2. <<n>> \in Seq(Addr) /\ Len(<<n>>) = 1 /\ Len(<<>>) = 0
  OBVIOUS
<1> HIDE DEF k
<1>3. /\ SubSeq(l, 1, k) \in Seq(Addr)
      /\ Len(SubSeq(l, 1, k)) = IF 1 <= k THEN k ELSE 0
      /\ SubSeq(l, k + 2, Len(l)) \in Seq(Addr) /\ SubSeq(l, k + 1, Len(l)) \in Seq(Addr)
  <2>1. k \in Int /\ k + 1 \in Int /\ k + 2 \in Int /\ k - 1 + 1 = k
    BY <1>1
  <2>2. \A j \in 1 .. k : l[j] \in Addr
    BY <1>1
  <2>3. SubSeq(l, 1, k) \in Seq(Addr) /\ Len(SubSeq(l, 1, k)) = IF 1 <= k THEN k - 1 + 1 ELSE 0
    BY <2>1, <2>2, SubSeqProperties
  <2>4. (\A j \in k + 2 .. Len(l) : l[j] \in Addr) /\ (\A j \in k + 1 .. Len(l) : l[j] \in Addr)
    BY <1>1
  <2>5. SubSeq(l, k + 2, Len(l)) \in Seq(Addr) /\ SubSeq(l, k + 1, Len(l)) \in Seq(Addr)
    BY <1>1, <2>1, <2>4, SubSeqProperties
  <2> QED BY <2>1, <2>3, <2>5
<1>4. CASE l = <<>>
  <2>1. r.list = <<n>> \o behind
    BY <1>4 DEF block_insert_and_coalesce, Stitches
  <2>2. <<n>> \o behind # <<>>
    BY <1>2, ConcatEqualIffEmpty
  <2> QED BY <2>1, <2>2
<1>5. CASE l # <<>> /\ left /\ right
  <2>1. r.list = RemoveAt(l, k + 1)
    BY <1>5 DEF block_insert_and_coalesce, k, Stitches
  <2>2. RemoveAt(l, k + 1) = SubSeq(l, 1, k) \o SubSeq(l, k + 2, Len(l))
    <3>1. (k + 1) - 1 = k /\ (k + 1) + 1 = k + 2
      BY <1>1
    <3>2. \A i : RemoveAt(l, i) = SubSeq(l, 1, i - 1) \o SubSeq(l, i + 1, Len(l))
      BY DEF RemoveAt
    <3> QED BY <3>1, <3>2
  <2>3. SubSeq(l, 1, k) # <<>>
    BY <1>1, <1>2, <1>3, <1>5
  <2>4. SubSeq(l, 1, k) \o SubSeq(l, k + 2, Len(l)) # <<>>
    BY <1>3, <2>3, ConcatEqualIffEmpty
  <2> QED BY <2>1, <2>2, <2>4
<1>6. CASE l # <<>> /\ ((left /\ ~right) \/ (~left /\ right))
  <2>1. r.list = l
    BY <1>6 DEF block_insert_and_coalesce, k, Stitches
  <2> QED BY <1>6, <2>1
<1>7. CASE l # <<>> /\ ~left /\ ~right
  <2>1. r.list = InsertAt(l, k + 1, n)
    BY <1>7 DEF block_insert_and_coalesce, k, Stitches
  <2>2. InsertAt(l, k + 1, n) = SubSeq(l, 1, k) \o <<n>> \o SubSeq(l, k + 1, Len(l))
    <3>1. (k + 1) - 1 = k
      BY <1>1
    <3>2. \A i : InsertAt(l, i, n) = SubSeq(l, 1, i - 1) \o <<n>> \o SubSeq(l, i, Len(l))
      BY DEF InsertAt
    <3> QED BY <3>1, <3>2
  <2>3. SubSeq(l, 1, k) \o <<n>> \in Seq(Addr) /\ SubSeq(l, 1, k) \o <<n>> # <<>>
    BY <1>2, <1>3, ConcatProperties, ConcatEqualIffEmpty
  <2>4. (SubSeq(l, 1, k) \o <<n>>) \o SubSeq(l, k + 1, Len(l)) # <<>>
    BY <1>3, <2>3, ConcatEqualIffEmpty
  <2> QED BY <2>1, <2>2, <2>4
<1>8. \/ l = <<>>
      \/ l # <<>> /\ left /\ right
      \/ l # <<>> /\ ((left /\ ~right) \/ (~left /\ right))
      \/ l # <<>> /\ ~left /\ ~right
  OBVIOUS
<1> QED BY <1>4, <1>5, <1>6, <1>7, <1>8

(* The free list of init_memory is never used up, so arena_delete always     *)
(* inserts into a list and never makes the deleted arena's list the free     *)
(* list.  Only arena_delete changes the list.                                *)
THEOREM FreelistNeverEmpty == Spec => []FreelistNonEmpty
<1> DEFINE I == SafeInv /\ FreelistNonEmpty
<1>1. Init => I
  BY InitSafe DEF Init, FreelistNonEmpty
<1>2. I /\ [Next]_vars => I'
  <2> SUFFICES ASSUME I, [Next]_vars PROVE FreelistNonEmpty'
    BY NextSafe
  <2>1. CASE DeleteBlock
    <3>1. /\ owned_pages[deleting] \in Seq(Addr) /\ owned_pages[deleting] # <<>>
          /\ block_freelist \in Seq(Addr)
      BY <2>1 DEF SafeInv, TypeOK, DeleteBlock
    <3>2. Head(owned_pages[deleting]) \in Addr /\ Tail(owned_pages[deleting]) \in Seq(Addr)
      BY <3>1, HeadTailProperties
    <3>3. block_freelist' = block_insert_and_coalesce(block_freelist, Head(owned_pages[deleting]),
                                                      block, Tail(owned_pages[deleting])).list
      BY <2>1 DEF DeleteBlock
    <3> QED BY <3>1, <3>2, <3>3, InsertNonEmpty DEF FreelistNonEmpty
  <2>2. CASE block_freelist' = block_freelist
    BY <2>2 DEF FreelistNonEmpty
  <2>3. DeleteBlock \/ block_freelist' = block_freelist
    BY DEF Next, Call, Step, vars, PushFits, PushTakesPages, PushFails, TakePages, TakePagesFails,
           GetRecycledStruct, GetStoredStruct, GrowStorage, GrowStorageFails, LinkPages, Delete,
           DeleteEnds, DeleteFails, Exited
  <2> QED BY <2>1, <2>2, <2>3
<1>3. I => FreelistNonEmpty
  OBVIOUS
<1> QED BY <1>1, <1>2, <1>3, PTL DEF Spec
=============================================================================
