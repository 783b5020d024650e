------------------------- MODULE PageOwnershipProofs -------------------------
(***************************************************************************)
(* Who owns the pages of the allocator, for every number and size of pages *)
(* and every set of arenas and request sizes: no page is lost or given out *)
(* twice, the structs that describe the pages are linked once and lie in   *)
(* memory of their own, and what arena_push returned stays its caller's.   *)
(***************************************************************************)
EXTENDS PageArenaProofs

-----------------------------------------------------------------------------
(* A list on which every struct is once, with runs that do not overlap. *)
Ordered(r) == r.memory_begin <= r.memory_end
Apart(r, q) == Bytes(r) \cap Bytes(q) = {}
BytesOf(S, bs) == UNION {Bytes(bs[s]) : s \in S}
RunsOK(S, bs) ==
  /\ \A s \in S : Ordered(bs[s])
  /\ \A s, t \in S : s # t => Apart(bs[s], bs[t])
ListOK(l, bs) == IsInjective(l) /\ RunsOK(Range(l), bs)

Recycled == Range(recycled_block_structs)
Structs == ListedStructs \cup Recycled \cup (IF pc = "link" THEN {new_struct} ELSE {})
At(s) == s .. s + StructSize - 1
Left(a) == memory_avail[a] .. memory_limit[a] - 1
FrameBytes(st, a) == UNION {Bytes(st[i]) : i \in {j \in DOMAIN st : st[j].arena = a}}

-----------------------------------------------------------------------------
(* The inductive invariant.  The properties need each other: a struct that  *)
(* get_new_block_struct returns is on no list because it lies in bytes that *)
(* are not in use, those are the arena's because its runs overlap no other, *)
(* and the runs do not because no struct describes two of them.             *)
ListsInv ==
  /\ ListOK(block_freelist, block)
  /\ \A a \in AllArenas : ListOK(owned_pages[a], block)
  /\ IsInjective(recycled_block_structs)

LinkedInv ==
  /\ FreeBlocks \cap Recycled = {}
  /\ \A a \in AllArenas : OwnedBlocks(a) \cap (FreeBlocks \cup Recycled) = {}
  /\ \A a, b \in AllArenas : a # b => OwnedBlocks(a) \cap OwnedBlocks(b) = {}
  /\ pc = "link" => new_struct \notin ListedStructs \cup Recycled

(* A run in flight is apart from those its arena already has. *)
FramesInv ==
  \A j \in DOMAIN stack :
    /\ Ordered(stack[j])
    /\ \A s \in OwnedBlocks(stack[j].arena) : Apart(block[s], stack[j])

StructsInv ==
  /\ \A s \in Structs : At(s) \subseteq used[pageblock_storage]
  /\ \A s, t \in Structs : s # t => At(s) \cap At(t) = {}

PagesInv ==
  /\ FreeBytes \cup UNION {Held(a) : a \in AllArenas} = Addr
  /\ \A a \in AllArenas : Held(a) \cap FreeBytes = {}
  /\ \A a, b \in AllArenas : a # b => Held(a) \cap Held(b) = {}
  /\ writable = UNION {Held(a) : a \in AllArenas}

(* The memory of one arena. *)
Exclusive(a) ==
  /\ used[a] \subseteq Held(a)
  /\ used[a] \cap Left(a) = {}
  /\ ~(pc \in {"delete", "exit"} /\ deleting = a) => Left(a) \subseteq Held(a)

MemoryInv == \A a \in AllArenas : Exclusive(a)

DeleteInv == pc = "delete" => deleting \in Arenas /\ used[deleting] = {}

PushInv ==
  pc \in {"get_struct", "link"} =>
    /\ stack[1].size \in Sizes
    /\ memory_avail[stack[1].arena] + stack[1].size <= memory_limit[stack[1].arena]

OwnInv ==
  /\ ListsInv /\ LinkedInv /\ FramesInv
  /\ StructsInv /\ PagesInv /\ MemoryInv
  /\ DeleteInv /\ PushInv

-----------------------------------------------------------------------------
(* Lists without their order: which elements they have, each of them once.  *)
LEMMA RangeIs ==
  ASSUME NEW S, NEW l \in Seq(S)
  PROVE  /\ Range(l) \subseteq S
         /\ \A x : x \in Range(l) <=> \E j \in 1 .. Len(l) : x = l[j]
         /\ IsInjective(l) <=> \A i, j \in 1 .. Len(l) : l[i] = l[j] => i = j
         /\ l = <<>> <=> Range(l) = {}
<1>1. Len(l) \in Nat /\ DOMAIN l = 1 .. Len(l) /\ \A j \in 1 .. Len(l) : l[j] \in S
  BY LenProperties, ElementOfSeq
<1>2. Range(l) \subseteq S /\ \A x : x \in Range(l) <=> \E j \in 1 .. Len(l) : x = l[j]
  BY <1>1 DEF Range
<1>3. IsInjective(l) <=> \A i, j \in 1 .. Len(l) : l[i] = l[j] => i = j
  BY <1>1 DEF IsInjective
<1>4. l = <<>> => Range(l) = {}
  <2>1. l = <<>> => Len(l) = 0
    OBVIOUS
  <2> QED BY <1>1, <1>2, <2>1
<1>5. l # <<>> => Range(l) # {}
  <2>1. l # <<>> => 1 \in 1 .. Len(l)
    BY EmptySeq
  <2> QED BY <1>2, <2>1
<1> QED BY <1>2, <1>3, <1>4, <1>5

LEMMA ConcatOnce ==
  ASSUME NEW S, NEW p \in Seq(S), NEW q \in Seq(S)
  PROVE  /\ Range(p \o q) = Range(p) \cup Range(q)
         /\ IsInjective(p) /\ IsInjective(q) /\ Range(p) \cap Range(q) = {} => IsInjective(p \o q)
<1> DEFINE m == Len(p)
           n == Len(q)
           c == p \o q
<1>1. /\ m \in Nat /\ n \in Nat /\ c \in Seq(S) /\ Len(c) = m + n
      /\ \A i \in 1 .. m + n : c[i] = IF i <= m THEN p[i] ELSE q[i - m]
  BY LenProperties, ConcatProperties
<1> HIDE DEF c, m, n
<1>2. /\ \A x : x \in Range(p) <=> \E j \in 1 .. m : x = p[j]
      /\ \A x : x \in Range(q) <=> \E j \in 1 .. n : x = q[j]
      /\ \A x : x \in Range(c) <=> \E j \in 1 .. m + n : x = c[j]
  BY <1>1, RangeIs DEF m, n
<1>3. ASSUME NEW x \in Range(p) PROVE x \in Range(c)
  <2>1. PICK j \in 1 .. m : x = p[j]
    BY <1>2
  <2>2. j \in 1 .. m + n /\ j <= m
    BY <1>1
  <2> QED BY <1>1, <1>2, <2>1, <2>2
<1>4. ASSUME NEW x \in Range(q) PROVE x \in Range(c)
  <2>1. PICK j \in 1 .. n : x = q[j]
    BY <1>2
  <2>2. j + m \in 1 .. m + n /\ ~(j + m <= m) /\ (j + m) - m = j
    BY <1>1
  <2>3. c[j + m] = q[j]
    BY <1>1, <2>2
  <2> QED BY <1>2, <2>1, <2>2, <2>3
<1>5. ASSUME NEW x \in Range(c) PROVE x \in Range(p) \cup Range(q)
  <2>1. PICK j \in 1 .. m + n : x = c[j]
    BY <1>2
  <2>2. CASE j <= m
    <3>1. j \in 1 .. m
      BY <1>1, <2>2
    <3> QED BY <1>1, <1>2, <2>1, <2>2, <3>1
  <2>3. CASE ~(j <= m)
    <3>1. j - m \in 1 .. n
      BY <1>1, <2>3
    <3> QED BY <1>1, <1>2, <2>1, <2>3, <3>1
  <2> QED BY <2>2, <2>3
<1>6. ASSUME IsInjective(p), IsInjective(q), Range(p) \cap Range(q) = {} PROVE IsInjective(c)
  <2>1. /\ \A i, j \in 1 .. m : p[i] = p[j] => i = j
        /\ \A i, j \in 1 .. n : q[i] = q[j] => i = j
        /\ \A i \in 1 .. m, j \in 1 .. n : p[i] # q[j]
    BY <1>2, <1>6, RangeIs DEF m, n
  <2>2. ASSUME NEW i \in 1 .. m + n, NEW j \in 1 .. m + n, c[i] = c[j] PROVE i = j
    <3>1. CASE i <= m /\ j <= m
      BY <1>1, <2>1, <2>2, <3>1
    <3>2. CASE i <= m /\ ~(j <= m)
      <4>1. i \in 1 .. m /\ j - m \in 1 .. n
        BY <1>1, <3>2
      <4> QED BY <1>1, <2>1, <2>2, <3>2, <4>1
    <3>3. CASE ~(i <= m) /\ j <= m
      <4>1. j \in 1 .. m /\ i - m \in 1 .. n
        BY <1>1, <3>3
      <4> QED BY <1>1, <2>1, <2>2, <3>3, <4>1
    <3>4. CASE ~(i <= m) /\ ~(j <= m)
      <4>1. j - m \in 1 .. n /\ i - m \in 1 .. n
        BY <1>1, <3>4
      <4>2. i - m = j - m
        BY <1>1, <2>1, <2>2, <3>4, <4>1
      <4> QED BY <1>1, <4>2
    <3> QED BY <3>1, <3>2, <3>3, <3>4
  <2> QED BY <1>1, <2>2, RangeIs
<1> QED BY <1>3, <1>4, <1>5, <1>6 DEF c

LEMMA SingleOnce ==
  ASSUME NEW S, NEW e \in S
  PROVE  <<e>> \in Seq(S) /\ Range(<<e>>) = {e} /\ IsInjective(<<e>>)
<1>1. <<e>> \in Seq(S) /\ Len(<<e>>) = 1 /\ <<e>>[1] = e
  OBVIOUS
<1>2. \A j \in 1 .. 1 : j = 1
  OBVIOUS
<1>3. DOMAIN <<e>> = {1}
  BY <1>1, <1>2, LenProperties
<1> QED BY <1>1, <1>3 DEF Range, IsInjective

LEMMA EmptyOnce == Range(<<>>) = {} /\ IsInjective(<<>>)
<1>1. <<>> \in Seq({}) /\ Len(<<>>) = 0
  OBVIOUS
<1> QED BY <1>1, RangeIs

(* A list cut before place i + 1. *)
LEMMA SplitOnce ==
  ASSUME NEW S, NEW l \in Seq(S), IsInjective(l), NEW i \in 0 .. Len(l)
  PROVE  LET p == SubSeq(l, 1, i)
             q == SubSeq(l, i + 1, Len(l))
         IN /\ p \in Seq(S) /\ q \in Seq(S) /\ IsInjective(p) /\ IsInjective(q)
            /\ Range(p) \cap Range(q) = {} /\ Range(p) \cup Range(q) = Range(l)
<1> DEFINE n == Len(l)
           p == SubSeq(l, 1, i)
           q == SubSeq(l, i + 1, n)
<1>1. n \in Nat /\ \A j \in 1 .. n : l[j] \in S
  BY LenProperties, ElementOfSeq
<1>2. p \in Seq(S) /\ Len(p) = i /\ \A j \in 1 .. i : p[j] = l[j]
  <2>1. \A j \in 1 .. i : l[j] \in S
    BY <1>1
  <2>2. p \in Seq(S) /\ Len(p) = (IF 1 <= i THEN i - 1 + 1 ELSE 0) /\ \A j \in 1 .. i - 1 + 1 : p[j] = l[1 + j - 1]
    BY <1>1, <2>1, SubSeqProperties
  <2> QED BY <1>1, <2>2
<1>3. q \in Seq(S) /\ Len(q) = n - i /\ \A j \in 1 .. n - i : q[j] = l[i + j]
  <2>1. \A j \in i + 1 .. n : l[j] \in S
    BY <1>1
  <2>2. /\ q \in Seq(S) /\ Len(q) = IF i + 1 <= n THEN n - (i + 1) + 1 ELSE 0
        /\ \A j \in 1 .. n - (i + 1) + 1 : q[j] = l[i + 1 + j - 1]
    BY <1>1, <2>1, SubSeqProperties
  <2>3. n - (i + 1) + 1 = n - i /\ \A j \in 1 .. n - i : i + 1 + j - 1 = i + j
    BY <1>1
  <2>4. Len(q) = n - i
    BY <1>1, <2>2
  <2> HIDE DEF n, q
  <2>5. \A j \in 1 .. n - i : q[j] = l[i + j]
    BY <2>2, <2>3
  <2> QED BY <2>2, <2>4, <2>5
<1>4. /\ \A x : x \in Range(l) <=> \E j \in 1 .. n : x = l[j]
      /\ \A j, k \in 1 .. n : l[j] = l[k] => j = k
  BY RangeIs
<1> HIDE DEF n, p, q
<1>5. /\ \A x : x \in Range(p) <=> \E j \in 1 .. i : x = l[j]
      /\ IsInjective(p)
  <2>1. \A j, k \in 1 .. i : p[j] = p[k] => j = k
    BY <1>1, <1>2, <1>4 DEF n
  <2> QED BY <1>2, <2>1, RangeIs
<1>6. \A x : x \in Range(q) <=> \E j \in 1 .. n - i : x = l[i + j]
  BY <1>3, RangeIs
<1>7. IsInjective(q)
  <2>1. ASSUME NEW j \in 1 .. n - i, NEW k \in 1 .. n - i, q[j] = q[k] PROVE j = k
    <3>1. i + j \in 1 .. n /\ i + k \in 1 .. n
      BY <1>1
    <3>2. i + j = i + k
      BY <1>3, <1>4, <2>1, <3>1
    <3> QED BY <1>1, <3>2
  <2> QED BY <1>3, <2>1, RangeIs
<1>8. ASSUME NEW x, x \in Range(p), x \in Range(q) PROVE FALSE
  <2>1. PICK j \in 1 .. i : x = l[j]
    BY <1>5, <1>8
  <2>2. PICK k \in 1 .. n - i : x = l[i + k]
    BY <1>6, <1>8
  <2>3. j \in 1 .. n /\ i + k \in 1 .. n /\ j # i + k
    BY <1>1 DEF n
  <2> QED BY <1>4, <2>1, <2>2, <2>3
<1>9. ASSUME NEW x \in Range(l) PROVE x \in Range(p) \cup Range(q)
  <2>1. PICK j \in 1 .. n : x = l[j]
    BY <1>4
  <2>2. j \in 1 .. i \/ (j - i \in 1 .. n - i /\ i + (j - i) = j)
    BY <1>1 DEF n
  <2> QED BY <1>5, <1>6, <2>1, <2>2
<1>10. ASSUME NEW x \in Range(p) \cup Range(q) PROVE x \in Range(l)
  <2>1. (\A j \in 1 .. i : j \in 1 .. n) /\ \A j \in 1 .. n - i : i + j \in 1 .. n
    BY <1>1 DEF n
  <2> QED BY <1>4, <1>5, <1>6, <2>1
<1> QED BY <1>2, <1>3, <1>5, <1>7, <1>8, <1>9, <1>10 DEF p, q, n

(* A list around place i. *)
LEMMA MiddleOnce ==
  ASSUME NEW S, NEW l \in Seq(S), IsInjective(l), NEW i \in 1 .. Len(l)
  PROVE  LET p == SubSeq(l, 1, i - 1)
             q == SubSeq(l, i + 1, Len(l))
         IN /\ p \in Seq(S) /\ q \in Seq(S) /\ IsInjective(p) /\ IsInjective(q)
            /\ Range(p) \cap Range(q) = {} /\ Range(p) \cup Range(q) = Range(l) \ {l[i]}
            /\ l[i] \in Range(l)
<1> DEFINE p == SubSeq(l, 1, i - 1)
           q == SubSeq(l, i + 1, Len(l))
           q1 == SubSeq(l, (i - 1) + 1, Len(l))
           one == <<l[i]>>
<1>1. Len(l) \in Nat /\ i - 1 \in 0 .. Len(l) /\ i \in 0 .. Len(l) /\ l[i] \in S /\ i <= Len(l) /\ i >= 1
  BY LenProperties, ElementOfSeq
<1>2. p \in Seq(S) /\ IsInjective(p) /\ Range(p) \cap Range(q1) = {} /\ Range(p) \cup Range(q1) = Range(l)
  BY <1>1, SplitOnce
<1>3. q \in Seq(S) /\ IsInjective(q) /\ Range(SubSeq(l, 1, i)) \cap Range(q) = {}
  BY <1>1, SplitOnce
<1>4. q1 = one \o q
  <2>1. (i - 1) + 1 = i /\ i \in 1 .. Len(l) /\ Len(l) \in i .. Len(l)
    BY <1>1
  <2> QED BY <2>1, SubSeqRecursiveFirst
<1>5. SubSeq(l, 1, i) = p \o one
  <2>1. 1 \in 1 .. Len(l) /\ i \in 1 .. Len(l)
    BY <1>1
  <2> QED BY <2>1, SubSeqRecursiveSecond
<1>6. one \in Seq(S) /\ Range(one) = {l[i]}
  BY <1>1, SingleOnce
<1> HIDE DEF p, q, q1, one
<1>7. Range(one \o q) = Range(one) \cup Range(q)
  BY <1>3, <1>6, ConcatOnce
<1>8. Range(p \o one) = Range(p) \cup Range(one)
  BY <1>2, <1>6, ConcatOnce
<1>9. Range(q1) = {l[i]} \cup Range(q) /\ Range(SubSeq(l, 1, i)) = Range(p) \cup {l[i]}
  BY <1>4, <1>5, <1>6, <1>7, <1>8
<1> QED BY <1>2, <1>3, <1>9 DEF p, q

LEMMA TailOnce ==
  ASSUME NEW S, NEW l \in Seq(S), IsInjective(l), l # <<>>
  PROVE  /\ Head(l) \in Range(l) /\ Tail(l) \in Seq(S) /\ IsInjective(Tail(l))
         /\ Range(Tail(l)) = Range(l) \ {Head(l)}
<1>1. 1 \in 1 .. Len(l) /\ Head(l) = l[1] /\ Tail(l) = SubSeq(l, 1 + 1, Len(l))
  <2>1. 1 \in 1 .. Len(l)
    BY EmptySeq
  <2>2. Tail(l) = SubSeq(l, 2, Len(l))
    BY TailIsSubSeq
  <2> QED BY <2>1, <2>2
<1>2. SubSeq(l, 1, 1 - 1) = <<>>
  BY SubSeqEmpty
<1>3. /\ SubSeq(l, 1 + 1, Len(l)) \in Seq(S) /\ IsInjective(SubSeq(l, 1 + 1, Len(l)))
      /\ Range(SubSeq(l, 1, 1 - 1)) \cup Range(SubSeq(l, 1 + 1, Len(l))) = Range(l) \ {l[1]}
      /\ l[1] \in Range(l)
  BY <1>1, MiddleOnce, Zenon
<1> QED BY <1>1, <1>2, <1>3, EmptyOnce

LEMMA RemoveOnce ==
  ASSUME NEW S, NEW l \in Seq(S), IsInjective(l), NEW i \in 1 .. Len(l)
  PROVE  /\ RemoveAt(l, i) \in Seq(S) /\ IsInjective(RemoveAt(l, i))
         /\ Range(RemoveAt(l, i)) = Range(l) \ {l[i]}
<1> DEFINE p == SubSeq(l, 1, i - 1)
           q == SubSeq(l, i + 1, Len(l))
<1>1. RemoveAt(l, i) = p \o q
  BY Zenon DEF RemoveAt
<1>2. /\ p \in Seq(S) /\ q \in Seq(S) /\ IsInjective(p) /\ IsInjective(q)
      /\ Range(p) \cap Range(q) = {} /\ Range(p) \cup Range(q) = Range(l) \ {l[i]}
  BY MiddleOnce, Zenon
<1> HIDE DEF p, q
<1> QED BY <1>1, <1>2, ConcatOnce, ConcatProperties

LEMMA InsertOnce ==
  ASSUME NEW S, NEW l \in Seq(S), IsInjective(l), NEW i \in 1 .. Len(l) + 1, NEW e \in S, e \notin Range(l)
  PROVE  /\ InsertAt(l, i, e) \in Seq(S) /\ IsInjective(InsertAt(l, i, e))
         /\ Range(InsertAt(l, i, e)) = Range(l) \cup {e}
<1> DEFINE p == SubSeq(l, 1, i - 1)
           q == SubSeq(l, i, Len(l))
           one == <<e>>
           pe == p \o one
<1>1. InsertAt(l, i, e) = pe \o q
  BY Zenon DEF InsertAt
<1>2. /\ p \in Seq(S) /\ q \in Seq(S) /\ IsInjective(p) /\ IsInjective(q)
      /\ Range(p) \cap Range(q) = {} /\ Range(p) \cup Range(q) = Range(l)
  <2>1. Len(l) \in Nat
    BY LenProperties
  <2>2. i - 1 \in 0 .. Len(l) /\ (i - 1) + 1 = i
    BY <2>1
  <2> QED BY <2>2, SplitOnce
<1>3. one \in Seq(S) /\ Range(one) = {e} /\ IsInjective(one)
  BY SingleOnce
<1> HIDE DEF p, q, one
<1>4. /\ Range(p) \cap Range(one) = {} /\ Range(pe) = Range(p) \cup Range(one)
      /\ Range(p) \cap Range(one) = {} => IsInjective(pe)
  <2>1. Range(p) \cap Range(one) = {}
    BY <1>2, <1>3
  <2> QED BY <1>2, <1>3, <2>1, ConcatOnce
<1>5. pe \in Seq(S)
  BY <1>2, <1>3, ConcatProperties
<1> HIDE DEF pe
<1>6. Range(pe) = Range(p) \cup {e} /\ Range(pe) \cap Range(q) = {} /\ Range(pe) \cup Range(q) = Range(l) \cup {e}
  BY <1>2, <1>3, <1>4
<1> QED BY <1>1, <1>2, <1>4, <1>5, <1>6, ConcatOnce, ConcatProperties

-----------------------------------------------------------------------------
(* The bytes of runs, joined and merged.                                    *)
Joined(r, q) == r.memory_begin .. q.memory_end - 1 = Bytes(r) \cup Bytes(q)

LEMMA JoinBytes ==
  ASSUME NEW r, NEW q, r.memory_begin \in Nat, r.memory_end \in Nat, q.memory_end \in Nat,
         r.memory_end = q.memory_begin, r.memory_begin <= r.memory_end, q.memory_begin <= q.memory_end
  PROVE  Joined(r, q)
<1>1. ASSUME NEW b \in Nat, NEW m \in Nat, NEW e \in Nat, b <= m, m <= e
      PROVE  b .. e - 1 = (b .. m - 1) \cup (m .. e - 1)
  BY <1>1
<1> QED BY <1>1 DEF Joined, Bytes

LEMMA BytesOfIs ==
  ASSUME NEW S, NEW bs
  PROVE  \A x : x \in BytesOf(S, bs) <=> \E s \in S : x \in Bytes(bs[s])
  BY DEF BytesOf

(* The structs of S are merged into those of T: what is no longer in T is   *)
(* part of x.                                                               *)
Merges(S, T, x, bs, bs2) ==
  /\ T \subseteq S /\ x \in T /\ RunsOK(S, bs)
  /\ \A s \in T \ {x} : bs2[s] = bs[s]
  /\ Ordered(bs2[x]) /\ Bytes(bs2[x]) = BytesOf((S \ T) \cup {x}, bs)

LEMMA MergeBytes ==
  ASSUME NEW S, NEW T, NEW x, NEW bs, NEW bs2, Merges(S, T, x, bs, bs2)
  PROVE  RunsOK(T, bs2) /\ BytesOf(T, bs2) = BytesOf(S, bs)
<1>0. /\ T \subseteq S /\ x \in T
      /\ \A s \in S : Ordered(bs[s])
      /\ \A s, t \in S : s # t => Apart(bs[s], bs[t])
      /\ \A s \in T \ {x} : bs2[s] = bs[s]
      /\ Ordered(bs2[x]) /\ Bytes(bs2[x]) = BytesOf((S \ T) \cup {x}, bs)
  BY DEF Merges, RunsOK
<1>1. \A s \in T : Ordered(bs2[s])
  <2>1. ASSUME NEW s \in T PROVE Ordered(bs2[s])
    <3>1. CASE s = x
      BY <1>0, <3>1
    <3>2. CASE s # x
      <4>1. bs2[s] = bs[s] /\ Ordered(bs[s])
        BY <1>0, <3>2
      <4> QED BY <4>1 DEF Ordered
    <3> QED BY <3>1, <3>2
  <2> QED BY <2>1
<1>2. \A y : y \in Bytes(bs2[x]) <=> \E s \in (S \ T) \cup {x} : y \in Bytes(bs[s])
  BY <1>0, BytesOfIs
<1>3. \A s \in T \ {x} : Bytes(bs2[s]) = Bytes(bs[s])
  BY <1>0 DEF Bytes
<1>4. \A s, t \in S : s # t => \A y : ~(y \in Bytes(bs[s]) /\ y \in Bytes(bs[t]))
  BY <1>0 DEF Apart
<1>5. \A s \in T \ {x} : \A y : ~(y \in Bytes(bs2[s]) /\ y \in Bytes(bs2[x]))
  BY <1>0, <1>2, <1>3, <1>4
<1>6. \A s, t \in T : s # t => \A y : ~(y \in Bytes(bs2[s]) /\ y \in Bytes(bs2[t]))
  BY <1>0, <1>3, <1>4, <1>5
<1>7. \A s, t \in T : s # t => Apart(bs2[s], bs2[t])
  BY <1>6 DEF Apart
<1>8. \A y : y \in BytesOf(T, bs2) <=> y \in BytesOf(S, bs)
  <2>1. \A y : y \in BytesOf(T, bs2) => \E s \in S : y \in Bytes(bs[s])
    BY <1>0, <1>2, <1>3, BytesOfIs
  <2>2. \A y : (\E s \in S : y \in Bytes(bs[s])) => \E s \in T : y \in Bytes(bs2[s])
    BY <1>0, <1>2, <1>3
  <2> QED BY <2>1, <2>2, BytesOfIs
<1> QED BY <1>1, <1>7, <1>8 DEF RunsOK

(* block_insert_and_coalesce puts struct n into a list: no struct is lost   *)
(* or listed twice, those merged away are recycled, and the list describes  *)
(* the bytes it did before and those of n.                                  *)
InsertedInto(r, l, n, bs) ==
  /\ r.list \in Seq(Addr) /\ r.recycled \in Seq(Addr)
  /\ ListOK(r.list, r.block) /\ IsInjective(r.recycled)
  /\ Range(r.list) \cap Range(r.recycled) = {}
  /\ Range(r.list) \cup Range(r.recycled) = Range(l) \cup {n}
  /\ BytesOf(Range(r.list), r.block) = BytesOf(Range(l) \cup {n}, bs)
  /\ \A s \in Addr \ (Range(l) \cup {n}) : r.block[s] = bs[s]

LEMMA InsertKeeps ==
  ASSUME NEW l \in Seq(Addr), NEW n \in Addr, NEW bs \in [Addr -> Run], NEW behind \in Seq(Addr),
         ListOK(l, bs), n \notin Range(l), Ordered(bs[n]), \A s \in Range(l) : Apart(bs[s], bs[n]),
         l # <<>> \/ behind = <<>>
  PROVE  InsertedInto(block_insert_and_coalesce(l, n, bs, behind), l, n, bs)
<1> DEFINE k == LeftNeighbour(l, n, bs)
           x == l[k]
           y == l[k+1]
           S == Range(l) \cup {n}
           left  == k > 0 /\ bs[x].memory_end = bs[n].memory_begin
           right == k < Len(l) /\ bs[n].memory_end = bs[y].memory_begin
           r == block_insert_and_coalesce(l, n, bs, behind)
<1> SUFFICES InsertedInto(r, l, n, bs)
  OBVIOUS
<1>1. Len(l) \in Nat /\ k \in 0 .. Len(l)
  BY LeftNeighbourIndex
<1>2. /\ S \subseteq Addr /\ IsInjective(l) /\ Range(l) \subseteq Addr
      /\ RunsOK(S, bs) /\ \A s \in S : Ordered(bs[s])
  BY RangeIs DEF ListOK, RunsOK, Apart
<1>3. \A s \in Addr : bs[s].memory_begin \in Nat /\ bs[s].memory_end \in Nat
  BY BoundaryRange DEF Run
<1>4. /\ left => x \in Range(l) /\ x # n /\ k \in 1 .. Len(l)
      /\ right => y \in Range(l) /\ y # n /\ k + 1 \in 1 .. Len(l)
      /\ left /\ right => x # y
  <2>1. left => k \in 1 .. Len(l)
    BY <1>1
  <2>2. right => k + 1 \in 1 .. Len(l)
    BY <1>1
  <2>3. k # k + 1
    BY <1>1
  <2> HIDE DEF k, left, right
  <2> QED BY <1>2, <2>1, <2>2, <2>3, RangeIs
<1>5. <<n>> \in Seq(Addr) /\ Range(<<n>>) = {n} /\ IsInjective(<<n>>)
      /\ <<>> \in Seq(Addr) /\ Range(<<>>) = {} /\ IsInjective(<<>>)
  BY SingleOnce, EmptyOnce, EmptySeq
<1> HIDE DEF k
<1>6. CASE l = <<>>
  <2>1. r.list = <<n>> \o behind /\ r.block = bs /\ r.recycled = <<>>
    BY <1>6 DEF block_insert_and_coalesce, Stitches
  <2>2. <<n>> \o behind = <<n>>
    BY <1>5, <1>6, ConcatEmptySeq
  <2>3. Range(l) = {}
    BY <1>5, <1>6
  <2>4. Range(r.list) = S /\ Range(r.recycled) = {} /\ S = {n}
    BY <1>5, <2>1, <2>2, <2>3
  <2> HIDE DEF r
  <2> QED BY <1>2, <1>5, <2>1, <2>2, <2>4 DEF InsertedInto, ListOK
<1>7. CASE l # <<>> /\ left /\ right
  <2>1. /\ r.list = RemoveAt(l, k + 1)
        /\ r.block = [bs EXCEPT ![x].memory_end = bs[y].memory_end, ![y] = Zeroed, ![n] = Zeroed]
        /\ r.recycled = <<n, y>>
    BY <1>7 DEF block_insert_and_coalesce, k, Stitches
  <2> HIDE DEF r, left, right, x, y
  <2>2. r.list \in Seq(Addr) /\ IsInjective(r.list) /\ Range(r.list) = Range(l) \ {y}
    BY <1>2, <1>4, <1>7, <2>1, RemoveOnce DEF y
  <2>3. r.recycled \in Seq(Addr) /\ Range(r.recycled) = {n, y} /\ IsInjective(r.recycled)
    <3>1. y \in Addr /\ y # n
      BY <1>2, <1>4, <1>7
    <3>2. r.recycled \in Seq(Addr) /\ Len(r.recycled) = 2 /\ r.recycled[1] = n /\ r.recycled[2] = y
      BY <2>1, <3>1
    <3>3. DOMAIN r.recycled = {1, 2}
      BY <3>2, LenProperties
    <3> QED BY <3>1, <3>2, <3>3 DEF Range, IsInjective
  <2>4. /\ r.block[x].memory_begin = bs[x].memory_begin /\ r.block[x].memory_end = bs[y].memory_end
        /\ \A s \in Addr \ {x, y, n} : r.block[s] = bs[s]
    BY <1>2, <1>4, <1>7, <2>1 DEF Run
  <2>5. /\ Ordered(r.block[x]) /\ Bytes(r.block[x]) = Bytes(bs[x]) \cup Bytes(bs[n]) \cup Bytes(bs[y])
    <3>1. /\ bs[x].memory_end = bs[n].memory_begin /\ bs[n].memory_end = bs[y].memory_begin
          /\ bs[x].memory_begin <= bs[x].memory_end /\ bs[n].memory_begin <= bs[n].memory_end
          /\ bs[y].memory_begin <= bs[y].memory_end /\ x \in Addr /\ y \in Addr
      BY <1>2, <1>4, <1>7 DEF left, right, Ordered
    <3>2. Joined(bs[x], bs[n])
      BY <1>3, <3>1, JoinBytes
    <3>3. Joined([memory_begin |-> bs[x].memory_begin, memory_end |-> bs[n].memory_end], bs[y])
      BY <1>3, <3>1, JoinBytes
    <3>4. bs[x].memory_begin .. bs[y].memory_end - 1
            = (bs[x].memory_begin .. bs[n].memory_end - 1) \cup Bytes(bs[y])
      BY <3>3 DEF Joined, Bytes
    <3>5. bs[x].memory_begin .. bs[n].memory_end - 1 = Bytes(bs[x]) \cup Bytes(bs[n])
      BY <3>2 DEF Joined
    <3>6. bs[x].memory_begin <= bs[y].memory_end
      BY <1>3, <3>1
    <3> QED BY <2>4, <3>4, <3>5, <3>6 DEF Bytes, Ordered
  <2>6. Range(r.list) \in SUBSET S /\ x \in Range(r.list) /\ (S \ Range(r.list)) \cup {x} = {x, n, y}
    BY <1>4, <1>7, <2>2
  <2>7. Bytes(r.block[x]) = BytesOf((S \ Range(r.list)) \cup {x}, bs)
    BY <2>5, <2>6, BytesOfIs
  <2>8. \A s \in Range(r.list) \ {x} : r.block[s] = bs[s]
    BY <1>2, <2>2, <2>4
  <2>9. Merges(S, Range(r.list), x, bs, r.block)
    BY <1>2, <2>5, <2>6, <2>7, <2>8 DEF Merges
  <2>10. RunsOK(Range(r.list), r.block) /\ BytesOf(Range(r.list), r.block) = BytesOf(S, bs)
    BY <2>9, MergeBytes
  <2>11. \A s \in Addr \ S : r.block[s] = bs[s]
    BY <1>4, <1>7, <2>4
  <2>12. Range(r.list) \cap Range(r.recycled) = {} /\ Range(r.list) \cup Range(r.recycled) = S
    BY <1>4, <1>7, <2>2, <2>3
  <2> QED BY <2>2, <2>3, <2>10, <2>11, <2>12 DEF InsertedInto, ListOK
<1>8. ASSUME l # <<>>, NEW z \in Range(l), r.list = l, r.recycled = <<n>>,
             \A s \in Addr \ {z, n} : r.block[s] = bs[s],
             Ordered(r.block[z]), Bytes(r.block[z]) = Bytes(bs[z]) \cup Bytes(bs[n])
      PROVE  InsertedInto(r, l, n, bs)
  <2> HIDE DEF r
  <2>1. Range(r.list) \in SUBSET S /\ z \in Range(r.list) /\ (S \ Range(r.list)) \cup {z} = {z, n}
    BY <1>8
  <2>2. Bytes(r.block[z]) = BytesOf((S \ Range(r.list)) \cup {z}, bs)
    BY <1>8, <2>1, BytesOfIs
  <2>3. \A s \in Range(r.list) \ {z} : r.block[s] = bs[s]
    BY <1>2, <1>8
  <2>4. Merges(S, Range(r.list), z, bs, r.block)
    BY <1>2, <1>8, <2>1, <2>2, <2>3 DEF Merges
  <2>5. RunsOK(Range(r.list), r.block) /\ BytesOf(Range(r.list), r.block) = BytesOf(S, bs)
    BY <2>4, MergeBytes
  <2>6. \A s \in Addr \ S : r.block[s] = bs[s]
    BY <1>8
  <2>7. /\ r.recycled \in Seq(Addr) /\ IsInjective(r.recycled)
        /\ Range(r.list) \cap Range(r.recycled) = {} /\ Range(r.list) \cup Range(r.recycled) = S
    BY <1>5, <1>8
  <2> QED BY <1>2, <1>8, <2>5, <2>6, <2>7 DEF InsertedInto, ListOK
<1>9. CASE l # <<>> /\ left /\ ~right
  <2>1. /\ r.list = l
        /\ r.block = [bs EXCEPT ![x].memory_end = bs[n].memory_end, ![n] = Zeroed]
        /\ r.recycled = <<n>>
    BY <1>9 DEF block_insert_and_coalesce, k, Stitches
  <2>2. /\ bs[x].memory_end = bs[n].memory_begin /\ bs[x].memory_begin <= bs[x].memory_end
        /\ bs[n].memory_begin <= bs[n].memory_end /\ x \in Addr /\ x \in Range(l) /\ x # n
    BY <1>2, <1>4, <1>9 DEF Ordered
  <2> HIDE DEF r, left, right, x, y
  <2>3. /\ r.block[x].memory_begin = bs[x].memory_begin /\ r.block[x].memory_end = bs[n].memory_end
        /\ \A s \in Addr \ {x, n} : r.block[s] = bs[s]
    BY <2>1, <2>2 DEF Run
  <2>4. bs[x].memory_begin .. bs[n].memory_end - 1 = Bytes(bs[x]) \cup Bytes(bs[n])
    <3>1. Joined(bs[x], bs[n])
      BY <1>3, <2>2, JoinBytes
    <3> QED BY <3>1 DEF Joined
  <2>5. Ordered(r.block[x]) /\ Bytes(r.block[x]) = Bytes(bs[x]) \cup Bytes(bs[n])
    BY <1>3, <2>2, <2>3, <2>4 DEF Bytes, Ordered
  <2> QED BY <1>8, <1>9, <2>1, <2>2, <2>3, <2>5
<1>10. CASE l # <<>> /\ ~left /\ right
  <2>1. /\ r.list = l
        /\ r.block = [bs EXCEPT ![y].memory_begin = bs[n].memory_begin, ![n] = Zeroed]
        /\ r.recycled = <<n>>
    BY <1>10 DEF block_insert_and_coalesce, k, Stitches
  <2>2. /\ bs[n].memory_end = bs[y].memory_begin /\ bs[y].memory_begin <= bs[y].memory_end
        /\ bs[n].memory_begin <= bs[n].memory_end /\ y \in Addr /\ y \in Range(l) /\ y # n
    BY <1>2, <1>4, <1>10 DEF Ordered
  <2> HIDE DEF r, left, right, x, y
  <2>3. /\ r.block[y].memory_begin = bs[n].memory_begin /\ r.block[y].memory_end = bs[y].memory_end
        /\ \A s \in Addr \ {y, n} : r.block[s] = bs[s]
    BY <2>1, <2>2 DEF Run
  <2>4. bs[n].memory_begin .. bs[y].memory_end - 1 = Bytes(bs[n]) \cup Bytes(bs[y])
    <3>1. Joined(bs[n], bs[y])
      BY <1>3, <2>2, JoinBytes
    <3> QED BY <3>1 DEF Joined
  <2>5. Ordered(r.block[y]) /\ Bytes(r.block[y]) = Bytes(bs[y]) \cup Bytes(bs[n])
    BY <1>3, <2>2, <2>3, <2>4 DEF Bytes, Ordered
  <2> QED BY <1>8, <1>10, <2>1, <2>2, <2>3, <2>5
<1>11. CASE l # <<>> /\ ~left /\ ~right
  <2>1. r.list = InsertAt(l, k + 1, n) /\ r.block = bs /\ r.recycled = <<>>
    BY <1>11 DEF block_insert_and_coalesce, k, Stitches
  <2>2. k + 1 \in 1 .. Len(l) + 1
    BY <1>1
  <2>3. r.list \in Seq(Addr) /\ IsInjective(r.list) /\ Range(r.list) = S
    BY <1>2, <2>1, <2>2, InsertOnce
  <2>4. Range(r.recycled) = {} /\ IsInjective(r.recycled) /\ r.recycled \in Seq(Addr)
    BY <1>5, <2>1
  <2> HIDE DEF r, left, right
  <2> QED BY <1>2, <2>1, <2>3, <2>4 DEF InsertedInto, ListOK
<1> QED BY <1>6, <1>7, <1>9, <1>10, <1>11

-----------------------------------------------------------------------------
(* The bytes an arena holds are those of its list and those in flight. *)
LEMMA HeldParts ==
  ASSUME NEW a
  PROVE  /\ Held(a) = BytesOf(OwnedBlocks(a), block) \cup FrameBytes(stack, a)
         /\ Held(a)' = BytesOf(OwnedBlocks(a), block)' \cup FrameBytes(stack', a)
         /\ FreeBytes = BytesOf(FreeBlocks, block)
         /\ FreeBytes' = BytesOf(FreeBlocks, block)'
<1>1. Held(a) = BytesOf(OwnedBlocks(a), block) \cup FrameBytes(stack, a)
  BY Zenon DEF Held, BytesOf, FrameBytes
<1>2. FreeBytes = BytesOf(FreeBlocks, block)
  BY Zenon DEF FreeBytes, BytesOf
<1>3. Held(a)' = BytesOf(OwnedBlocks(a), block)' \cup FrameBytes(stack', a)
  BY Zenon DEF Held, BytesOf, FrameBytes
<1>4. FreeBytes' = BytesOf(FreeBlocks, block)'
  BY Zenon DEF FreeBytes, BytesOf
<1> QED BY <1>1, <1>2, <1>3, <1>4, Zenon

LEMMA BytesOfSame ==
  ASSUME NEW S, NEW bs, NEW bs2, \A s \in S : bs2[s] = bs[s]
  PROVE  BytesOf(S, bs2) = BytesOf(S, bs) /\ (RunsOK(S, bs) => RunsOK(S, bs2))
<1>1. \A s \in S : Bytes(bs2[s]) = Bytes(bs[s])
  BY DEF Bytes
<1>2. BytesOf(S, bs2) = BytesOf(S, bs)
  BY <1>1, BytesOfIs
<1>3. RunsOK(S, bs) => RunsOK(S, bs2)
  BY <1>1 DEF RunsOK, Ordered, Apart
<1> QED BY <1>2, <1>3

LEMMA StructTypes ==
  ASSUME SafeInv
  PROVE  /\ FreeBlocks \subseteq Addr /\ Recycled \subseteq Addr
         /\ \A a \in AllArenas : OwnedBlocks(a) \subseteq Addr
         /\ ListedStructs \subseteq Addr /\ Structs \subseteq Addr
<1>1. FreeBlocks \subseteq Addr /\ Recycled \subseteq Addr /\ \A a \in AllArenas : OwnedBlocks(a) \subseteq Addr
  BY RangeIs DEF SafeInv, TypeOK, FreeBlocks, Recycled, OwnedBlocks
<1> QED BY <1>1 DEF ListedStructs, Structs, SafeInv, TypeOK

(* Steps that leave the lists and the runs on them alone. *)
LEMMA KeptRuns ==
  ASSUME SafeInv, ListsInv, FramesInv, UNCHANGED <<block_freelist, owned_pages, stack>>,
         \A s \in ListedStructs : block'[s] = block[s]
  PROVE  /\ ListOK(block_freelist, block)' /\ \A a \in AllArenas : ListOK(owned_pages[a], block)'
         /\ FramesInv'
         /\ FreeBytes' = FreeBytes /\ \A a \in AllArenas : Held(a)' = Held(a)
         /\ ListedStructs' = ListedStructs /\ FreeBlocks' = FreeBlocks
         /\ \A a \in AllArenas : OwnedBlocks(a)' = OwnedBlocks(a)
<1>1. FreeBlocks' = FreeBlocks /\ \A a : OwnedBlocks(a)' = OwnedBlocks(a)
  BY DEF FreeBlocks, OwnedBlocks
<1>2. ListedStructs' = ListedStructs
  BY <1>1 DEF ListedStructs
<1>3. FreeBlocks \subseteq ListedStructs /\ \A a \in AllArenas : OwnedBlocks(a) \subseteq ListedStructs
  BY DEF ListedStructs
<1>4. /\ BytesOf(FreeBlocks, block') = BytesOf(FreeBlocks, block)
      /\ RunsOK(FreeBlocks, block) => RunsOK(FreeBlocks, block')
  BY <1>3, BytesOfSame
<1>5. ASSUME NEW a \in AllArenas
      PROVE  /\ BytesOf(OwnedBlocks(a), block') = BytesOf(OwnedBlocks(a), block)
             /\ RunsOK(OwnedBlocks(a), block) => RunsOK(OwnedBlocks(a), block')
  BY <1>3, BytesOfSame
<1>6. FreeBytes' = FreeBytes
  BY <1>1, <1>4, HeldParts
<1>7. ASSUME NEW a \in AllArenas PROVE Held(a)' = Held(a)
  <2>1. FrameBytes(stack', a) = FrameBytes(stack, a)
    BY DEF FrameBytes
  <2> QED BY <1>1, <1>5, <2>1, HeldParts
<1>8. ListOK(block_freelist, block)'
  BY <1>1, <1>4 DEF ListsInv, ListOK, FreeBlocks
<1>9. ASSUME NEW a \in AllArenas PROVE ListOK(owned_pages[a], block)'
  BY <1>1, <1>5 DEF ListsInv, ListOK, OwnedBlocks
<1>10. FramesInv'
  <2>1. \A j \in DOMAIN stack : stack[j].arena \in AllArenas
    <3>1. stack \in Seq(Frame) /\ DOMAIN stack = 1 .. Len(stack)
      BY LenProperties DEF SafeInv, TypeOK
    <3>2. \A j \in DOMAIN stack : stack[j] \in Frame
      BY <3>1, ElementOfSeq
    <3> QED BY <3>2 DEF Frame
  <2>2. \A j \in DOMAIN stack : \A s \in OwnedBlocks(stack[j].arena) : Bytes(block'[s]) = Bytes(block[s])
    BY <1>3, <2>1 DEF Bytes
  <2> QED BY <1>1, <2>2 DEF FramesInv, Apart
<1> QED BY <1>1, <1>2, <1>6, <1>7, <1>8, <1>9, <1>10

(* Steps that leave the structs that are on a list, and the memory of
   pageblock_storage, as they were. *)
LEMMA SameStructs ==
  ASSUME StructsInv, Structs' \subseteq Structs, used[pageblock_storage] \subseteq used'[pageblock_storage]
  PROVE  StructsInv'
  BY DEF StructsInv, At

(* Pages stay where they are. *)
LEMMA SamePages ==
  ASSUME PagesInv, FreeBytes' = FreeBytes, \A a \in AllArenas : Held(a)' = Held(a), writable' = writable
  PROVE  PagesInv'
  BY DEF PagesInv

(* A step that changes nothing an arena's memory depends on. *)
LEMMA SameMemory ==
  ASSUME NEW a \in AllArenas, Exclusive(a),
         used'[a] = used[a], memory_avail'[a] = memory_avail[a], memory_limit'[a] = memory_limit[a],
         Held(a)' = Held(a),
         (pc' \in {"delete", "exit"} /\ deleting' = a) \/ ~(pc \in {"delete", "exit"} /\ deleting = a)
  PROVE  Exclusive(a)'
<1>1. Left(a)' = Left(a)
  BY DEF Left
<1> QED BY <1>1 DEF Exclusive

(* size bytes at memory_avail are handed out. *)
LEMMA HandOut ==
  ASSUME SafeInv, NEW a \in AllArenas, Exclusive(a), ~(pc \in {"delete", "exit"} /\ deleting = a),
         NEW size \in Nat, memory_avail[a] + size <= memory_limit[a],
         memory_avail'[a] = memory_avail[a] + size, memory_limit'[a] = memory_limit[a],
         used'[a] = used[a] \cup (memory_avail[a] .. memory_avail[a] + size - 1),
         Held(a)' = Held(a)
  PROVE  /\ Exclusive(a)'
         /\ memory_avail[a] .. memory_avail[a] + size - 1 \subseteq Left(a)
<1>1. memory_avail[a] \in Nat /\ memory_limit[a] \in Nat
  BY BoundaryRange DEF SafeInv, TypeOK
<1> DEFINE chunk == memory_avail[a] .. memory_avail[a] + size - 1
<1>2. chunk \subseteq Left(a) /\ Left(a)' \subseteq Left(a) /\ chunk \cap Left(a)' = {}
  BY <1>1 DEF Left
<1> HIDE DEF chunk
<1>3. used'[a] = used[a] \cup chunk
  BY DEF chunk
<1>4. Exclusive(a)'
  BY <1>2, <1>3 DEF Exclusive
<1> QED BY <1>2, <1>4 DEF chunk

-----------------------------------------------------------------------------
(* Every action preserves OwnInv. *)

(* arena_push within the current run. *)
LEMMA PushFitsOwn ==
  ASSUME SafeInv, OwnInv, NEW a \in Arenas, NEW size \in Sizes, PushFits(a, size)
  PROVE  OwnInv'
<1>1. a \in AllArenas /\ a # pageblock_storage /\ size \in Nat
  BY SizeAssumption, StorageAssumption DEF AllArenas
<1>2. /\ UNCHANGED <<block, block_freelist, recycled_block_structs, owned_pages, memory_limit,
                     writable, stack, new_struct, pc, deleting>>
      /\ pc = "idle"
  BY DEF PushFits
<1>3. \A b \in AllArenas \ {a} : memory_avail'[b] = memory_avail[b] /\ used'[b] = used[b]
  BY <1>1 DEF PushFits, SafeInv, TypeOK
<1>4. /\ memory_avail'[a] = memory_avail[a] + size
      /\ used'[a] = used[a] \cup (memory_avail[a] .. memory_avail[a] + size - 1)
      /\ memory_avail[a] + size <= memory_limit[a]
  <2>1. memory_avail[a] + size < memory_limit[a] /\ memory_avail[a] \in Nat /\ memory_limit[a] \in Nat
    BY <1>1, BoundaryRange DEF PushFits, HasRoom, SafeInv, TypeOK
  <2> QED BY <1>1, <2>1 DEF PushFits, SafeInv, TypeOK
<1>5. /\ ListOK(block_freelist, block)' /\ \A b \in AllArenas : ListOK(owned_pages[b], block)'
      /\ FramesInv' /\ FreeBytes' = FreeBytes /\ \A b \in AllArenas : Held(b)' = Held(b)
      /\ ListedStructs' = ListedStructs
  BY <1>2, KeptRuns DEF OwnInv
<1>6. ListsInv' /\ LinkedInv'
  BY <1>2, <1>5 DEF OwnInv, ListsInv, LinkedInv, FreeBlocks, OwnedBlocks, Recycled
<1>7. StructsInv'
  <2>1. Structs' = Structs /\ used'[pageblock_storage] = used[pageblock_storage]
    BY <1>1, <1>2, <1>3, <1>5 DEF Structs, Recycled, AllArenas
  <2> QED BY <2>1, SameStructs DEF OwnInv
<1>8. PagesInv'
  BY <1>2, <1>5, SamePages DEF OwnInv
<1>9. ASSUME NEW b \in AllArenas PROVE Exclusive(b)'
  <2>0. Exclusive(b)
    BY DEF OwnInv, MemoryInv
  <2>1. CASE b = a
    BY <1>1, <1>2, <1>4, <1>5, <2>0, <2>1, HandOut
  <2>2. CASE b # a
    BY <1>2, <1>3, <1>5, <2>0, <2>2, SameMemory
  <2> QED BY <2>1, <2>2
<1> QED BY <1>2, <1>5, <1>6, <1>7, <1>8, <1>9 DEF OwnInv, MemoryInv, DeleteInv, PushInv

(* The process ends, or does nothing. *)
LEMMA EndsOwn ==
  ASSUME SafeInv, OwnInv, pc' = "exit",
         UNCHANGED <<block, block_freelist, recycled_block_structs, owned_pages, memory_avail,
                     memory_limit, writable, stack, new_struct, deleting, used>>
  PROVE  OwnInv'
<1>1. /\ ListOK(block_freelist, block)' /\ \A b \in AllArenas : ListOK(owned_pages[b], block)'
      /\ FramesInv' /\ FreeBytes' = FreeBytes /\ \A b \in AllArenas : Held(b)' = Held(b)
      /\ ListedStructs' = ListedStructs
  BY KeptRuns DEF OwnInv
<1>2. ListsInv' /\ LinkedInv'
  BY <1>1 DEF OwnInv, ListsInv, LinkedInv, FreeBlocks, OwnedBlocks, Recycled
<1>3. StructsInv'
  <2>1. Structs' \subseteq Structs
    BY <1>1 DEF Structs, Recycled
  <2> QED BY <2>1, SameStructs DEF OwnInv
<1>4. PagesInv'
  BY <1>1, SamePages DEF OwnInv
<1>5. ASSUME NEW b \in AllArenas PROVE Exclusive(b)'
  <2>1. Exclusive(b)
    BY DEF OwnInv, MemoryInv
  <2> QED BY <1>1, <2>1, SameMemory
<1> QED BY <1>1, <1>2, <1>3, <1>4, <1>5 DEF OwnInv, MemoryInv, DeleteInv, PushInv

(* arena_delete begins: nothing the arena handed out is in use any more. *)
LEMMA DeleteOwn ==
  ASSUME SafeInv, OwnInv, NEW a \in Arenas, Delete(a)
  PROVE  OwnInv'
<1>1. a \in AllArenas /\ a # pageblock_storage
  BY StorageAssumption DEF AllArenas
<1>2. /\ UNCHANGED <<block, block_freelist, recycled_block_structs, owned_pages, memory_avail, memory_limit,
                     writable, stack, new_struct>>
      /\ pc = "idle" /\ pc' = "delete" /\ deleting' = a
  BY DEF Delete
<1>3. used'[a] = {} /\ \A b \in AllArenas \ {a} : used'[b] = used[b]
  BY <1>1 DEF Delete, SafeInv, TypeOK
<1>4. /\ ListOK(block_freelist, block)' /\ \A b \in AllArenas : ListOK(owned_pages[b], block)'
      /\ FramesInv' /\ FreeBytes' = FreeBytes /\ \A b \in AllArenas : Held(b)' = Held(b)
      /\ ListedStructs' = ListedStructs
  BY <1>2, KeptRuns DEF OwnInv
<1>5. ListsInv' /\ LinkedInv'
  BY <1>2, <1>4 DEF OwnInv, ListsInv, LinkedInv, FreeBlocks, OwnedBlocks, Recycled
<1>6. StructsInv'
  <2>1. Structs' \subseteq Structs /\ used'[pageblock_storage] = used[pageblock_storage]
    BY <1>1, <1>2, <1>3, <1>4 DEF Structs, Recycled, AllArenas
  <2> QED BY <2>1, SameStructs DEF OwnInv
<1>7. PagesInv'
  BY <1>2, <1>4, SamePages DEF OwnInv
<1>8. ASSUME NEW b \in AllArenas PROVE Exclusive(b)'
  <2>0. Exclusive(b)
    BY DEF OwnInv, MemoryInv
  <2>1. CASE b = a
    BY <1>2, <1>3, <2>1 DEF Exclusive
  <2>2. CASE b # a
    BY <1>2, <1>3, <1>4, <2>0, <2>2, SameMemory
  <2> QED BY <2>1, <2>2
<1> QED BY <1>2, <1>3, <1>4, <1>5, <1>6, <1>7, <1>8 DEF OwnInv, MemoryInv, DeleteInv, PushInv

(* arena_delete ends: the arena is as it was before its first push. *)
LEMMA DeleteEndsOwn ==
  ASSUME SafeInv, OwnInv, DeleteEnds
  PROVE  OwnInv'
<1>1. /\ UNCHANGED <<block, block_freelist, recycled_block_structs, owned_pages, writable, stack, new_struct, used>>
      /\ pc = "delete" /\ pc' = "idle" /\ deleting \in AllArenas
  BY DEF DeleteEnds, SafeInv, TypeOK
<1>2. /\ memory_avail'[deleting] = 0 /\ memory_limit'[deleting] = 0
      /\ \A b \in AllArenas \ {deleting} : memory_avail'[b] = memory_avail[b] /\ memory_limit'[b] = memory_limit[b]
  BY <1>1 DEF DeleteEnds, SafeInv, TypeOK
<1>3. /\ ListOK(block_freelist, block)' /\ \A b \in AllArenas : ListOK(owned_pages[b], block)'
      /\ FramesInv' /\ FreeBytes' = FreeBytes /\ \A b \in AllArenas : Held(b)' = Held(b)
      /\ ListedStructs' = ListedStructs
  BY <1>1, KeptRuns DEF OwnInv
<1>4. ListsInv' /\ LinkedInv'
  BY <1>1, <1>3 DEF OwnInv, ListsInv, LinkedInv, FreeBlocks, OwnedBlocks, Recycled
<1>5. StructsInv'
  <2>1. Structs' \subseteq Structs
    BY <1>1, <1>3 DEF Structs, Recycled
  <2> QED BY <1>1, <2>1, SameStructs DEF OwnInv
<1>6. PagesInv'
  BY <1>1, <1>3, SamePages DEF OwnInv
<1>7. ASSUME NEW b \in AllArenas PROVE Exclusive(b)'
  <2>0. Exclusive(b)
    BY DEF OwnInv, MemoryInv
  <2>1. CASE b = deleting
    <3>1. Left(b)' = {}
      BY <1>2, <2>1 DEF Left
    <3> QED BY <1>1, <1>3, <2>0, <3>1 DEF Exclusive
  <2>2. CASE b # deleting
    BY <1>1, <1>2, <1>3, <2>0, <2>2, SameMemory
  <2> QED BY <2>1, <2>2
<1> QED BY <1>1, <1>3, <1>4, <1>5, <1>6, <1>7 DEF OwnInv, MemoryInv, DeleteInv, PushInv

(* get_new_block_struct, from the recycled structs: the struct is on no     *)
(* list, so clearing it changes no run.                                     *)
LEMMA GetRecycledOwn ==
  ASSUME SafeInv, OwnInv, GetRecycledStruct
  PROVE  OwnInv'
<1> DEFINE s == Head(recycled_block_structs)
<1>1. /\ UNCHANGED <<block_freelist, owned_pages, memory_avail, memory_limit, writable, stack, deleting, used>>
      /\ pc = "get_struct" /\ pc' = "link" /\ new_struct' = s
      /\ recycled_block_structs' = Tail(recycled_block_structs)
      /\ block' = [block EXCEPT ![s] = Zeroed]
      /\ recycled_block_structs \in Seq(Addr) /\ recycled_block_structs # <<>>
  BY DEF GetRecycledStruct, SafeInv, TypeOK
<1>2. s \in Recycled /\ IsInjective(recycled_block_structs)' /\ Recycled' = Recycled \ {s}
  BY <1>1, TailOnce DEF OwnInv, ListsInv, Recycled
<1> HIDE DEF s
<1>3. s \notin ListedStructs
  BY <1>2 DEF OwnInv, LinkedInv, ListedStructs
<1>4. \A t \in ListedStructs : block'[t] = block[t]
  BY <1>1, <1>3, StructTypes DEF SafeInv, TypeOK
<1>5. /\ ListOK(block_freelist, block)' /\ \A b \in AllArenas : ListOK(owned_pages[b], block)'
      /\ FramesInv' /\ FreeBytes' = FreeBytes /\ \A b \in AllArenas : Held(b)' = Held(b)
      /\ ListedStructs' = ListedStructs /\ FreeBlocks' = FreeBlocks
      /\ \A b \in AllArenas : OwnedBlocks(b)' = OwnedBlocks(b)
  BY <1>1, <1>4, KeptRuns DEF OwnInv
<1>6. ListsInv' /\ LinkedInv'
  <2>1. ListsInv'
    BY <1>2, <1>5 DEF ListsInv
  <2>2. new_struct' \notin ListedStructs' \cup Recycled'
    BY <1>1, <1>2, <1>3, <1>5
  <2>3. LinkedInv'
    BY <1>2, <1>5, <2>2 DEF OwnInv, LinkedInv
  <2> QED BY <2>1, <2>3
<1>7. StructsInv'
  <2>1. Structs' \subseteq Structs
    BY <1>1, <1>2, <1>5 DEF Structs
  <2> QED BY <1>1, <2>1, SameStructs DEF OwnInv
<1>8. PagesInv'
  BY <1>1, <1>5, SamePages DEF OwnInv
<1>9. ASSUME NEW b \in AllArenas PROVE Exclusive(b)'
  <2>1. Exclusive(b)
    BY DEF OwnInv, MemoryInv
  <2> QED BY <1>1, <1>5, <2>1, SameMemory
<1> QED BY <1>1, <1>5, <1>6, <1>7, <1>8, <1>9 DEF OwnInv, MemoryInv, DeleteInv, PushInv

(* A struct carved out of what pageblock_storage has left is not one of the *)
(* structs there are, and overlaps none of them.                            *)
LEMMA FreshStruct ==
  ASSUME SafeInv, OwnInv, NEW m \in Nat, At(m) \subseteq Left(pageblock_storage)
  PROVE  m \notin Structs /\ \A s \in Structs : At(s) \cap At(m) = {}
<1>1. pageblock_storage \in AllArenas
  BY DEF AllArenas
<1>2. \A s \in Structs : At(s) \subseteq used[pageblock_storage]
  BY DEF OwnInv, StructsInv
<1>3. used[pageblock_storage] \cap Left(pageblock_storage) = {}
  BY <1>1 DEF OwnInv, MemoryInv, Exclusive
<1>4. \A s \in Structs : At(s) \cap At(m) = {}
  BY <1>2, <1>3
<1>5. m \in At(m)
  BY SizeAssumption DEF At
<1> QED BY <1>4, <1>5

(* get_new_block_struct, from what is left of pageblock_storage. *)
LEMMA GetStoredOwn ==
  ASSUME SafeInv, OwnInv, GetStoredStruct
  PROVE  OwnInv'
<1> DEFINE s == memory_avail[pageblock_storage]
<1>1. /\ UNCHANGED <<block_freelist, recycled_block_structs, owned_pages, memory_limit, writable, stack, deleting>>
      /\ pc = "get_struct" /\ pc' = "link" /\ new_struct' = s
      /\ block' = [block EXCEPT ![s] = Zeroed]
      /\ memory_avail' = [memory_avail EXCEPT ![pageblock_storage] = s + StructSize]
      /\ used' = [used EXCEPT ![pageblock_storage] = @ \cup (s .. s + StructSize - 1)]
      /\ s + StructSize < memory_limit[pageblock_storage]
  BY DEF GetStoredStruct, HasRoom
<1>2. pageblock_storage \in AllArenas /\ s \in Nat /\ memory_limit[pageblock_storage] \in Nat /\ StructSize \in Nat
  BY BoundaryRange, SizeAssumption DEF AllArenas, SafeInv, TypeOK
<1>3. /\ memory_avail'[pageblock_storage] = memory_avail[pageblock_storage] + StructSize
      /\ used'[pageblock_storage] = used[pageblock_storage] \cup At(s)
      /\ \A b \in AllArenas \ {pageblock_storage} : memory_avail'[b] = memory_avail[b] /\ used'[b] = used[b]
  BY <1>1, <1>2 DEF SafeInv, TypeOK, At
<1>4. memory_avail[pageblock_storage] + StructSize <= memory_limit[pageblock_storage]
  BY <1>1, <1>2
<1>5. At(s) \subseteq Left(pageblock_storage)
  BY <1>2, <1>4 DEF At, Left
<1>6. s \notin Structs /\ \A t \in Structs : At(t) \cap At(s) = {}
  BY <1>2, <1>5, FreshStruct
<1>7. ListedStructs \subseteq Structs /\ Recycled \subseteq Structs
  BY DEF Structs
<1>8. \A t \in ListedStructs : block'[t] = block[t]
  BY <1>1, <1>6, <1>7, StructTypes DEF SafeInv, TypeOK
<1>9. /\ ListOK(block_freelist, block)' /\ \A b \in AllArenas : ListOK(owned_pages[b], block)'
      /\ FramesInv' /\ FreeBytes' = FreeBytes /\ \A b \in AllArenas : Held(b)' = Held(b)
      /\ ListedStructs' = ListedStructs /\ FreeBlocks' = FreeBlocks
      /\ \A b \in AllArenas : OwnedBlocks(b)' = OwnedBlocks(b)
  BY <1>1, <1>8, KeptRuns DEF OwnInv
<1>10. Recycled' = Recycled
  BY <1>1 DEF Recycled
<1>11. ASSUME NEW b \in AllArenas PROVE Exclusive(b)'
  <2>0. Exclusive(b)
    BY DEF OwnInv, MemoryInv
  <2>1. CASE b = pageblock_storage
    <3>1. used'[b] = used[b] \cup (memory_avail[b] .. memory_avail[b] + StructSize - 1)
      BY <1>3, <2>1 DEF At
    <3> QED BY <1>1, <1>2, <1>3, <1>4, <1>9, <2>0, <2>1, <3>1, HandOut
  <2>2. CASE b # pageblock_storage
    BY <1>1, <1>3, <1>9, <2>0, <2>2, SameMemory
  <2> QED BY <2>1, <2>2
<1> HIDE DEF s
<1>12. ListsInv' /\ LinkedInv'
  <2>1. ListsInv'
    BY <1>1, <1>9 DEF OwnInv, ListsInv
  <2>2. new_struct' \notin ListedStructs' \cup Recycled'
    BY <1>1, <1>6, <1>7, <1>9, <1>10
  <2>3. LinkedInv'
    BY <1>9, <1>10, <2>2 DEF OwnInv, LinkedInv
  <2> QED BY <2>1, <2>3
<1>13. StructsInv'
  <2>1. Structs' = Structs \cup {s}
    BY <1>1, <1>9, <1>10 DEF Structs
  <2>2. (\A t \in Structs : At(t) \subseteq used[pageblock_storage])
        /\ \A t, u \in Structs : t # u => At(t) \cap At(u) = {}
    BY DEF OwnInv, StructsInv
  <2>3. \A t \in Structs' : At(t) \subseteq used'[pageblock_storage]
    BY <1>3, <2>1, <2>2
  <2>4. \A t, u \in Structs' : t # u => At(t) \cap At(u) = {}
    BY <1>6, <2>1, <2>2
  <2> QED BY <2>3, <2>4 DEF StructsInv, At
<1>14. PagesInv'
  BY <1>1, <1>9, SamePages DEF OwnInv
<1>15. PushInv'
  <2>1. stack[1].arena # pageblock_storage /\ stack[1].arena \in AllArenas
    BY <1>1, StorageAssumption DEF SafeInv, StackInv, OuterPush, AllArenas
  <2> QED BY <1>1, <1>3, <2>1 DEF OwnInv, PushInv
<1> QED BY <1>1, <1>9, <1>11, <1>12, <1>13, <1>14, <1>15 DEF OwnInv, MemoryInv, DeleteInv

-----------------------------------------------------------------------------
(* The runs in flight when a frame is pushed and when it is popped. *)
LEMMA FrameBytesIs ==
  ASSUME NEW st, NEW b
  PROVE  \A x : x \in FrameBytes(st, b) <=> \E j \in DOMAIN st : st[j].arena = b /\ x \in Bytes(st[j])
  BY DEF FrameBytes, Bytes

(* st2 has the frames of st and f, which is of arena a. *)
OneMore(st, st2, n, f) ==
  DOMAIN st2 = DOMAIN st \cup {n} /\ st2[n] = f /\ \A j \in DOMAIN st : st2[j] = st[j]
MoreBytes(st, st2, f, a) ==
  /\ FrameBytes(st2, a) = FrameBytes(st, a) \cup Bytes(f)
  /\ \A b : b # a => FrameBytes(st2, b) = FrameBytes(st, b)

LEMMA OneMoreFrame ==
  ASSUME NEW st, NEW st2, NEW n, NEW f, NEW a, OneMore(st, st2, n, f), f.arena = a
  PROVE  MoreBytes(st, st2, f, a)
<1>0. DOMAIN st2 = DOMAIN st \cup {n} /\ st2[n] = f /\ \A j \in DOMAIN st : st2[j] = st[j]
  BY DEF OneMore
<1>1. ASSUME NEW b, NEW x
      PROVE  x \in FrameBytes(st2, b) <=> x \in FrameBytes(st, b) \/ (f.arena = b /\ x \in Bytes(f))
  <2>1. x \in FrameBytes(st2, b) => x \in FrameBytes(st, b) \/ (f.arena = b /\ x \in Bytes(f))
    <3>1. SUFFICES ASSUME NEW j \in DOMAIN st2, st2[j].arena = b, x \in Bytes(st2[j])
                   PROVE  x \in FrameBytes(st, b) \/ (f.arena = b /\ x \in Bytes(f))
      BY FrameBytesIs
    <3>2. CASE j = n
      BY <1>0, <3>1, <3>2
    <3>3. CASE j \in DOMAIN st
      <4>1. st2[j] = st[j]
        BY <1>0, <3>3
      <4> QED BY <3>1, <3>3, <4>1, FrameBytesIs
    <3> QED BY <1>0, <3>2, <3>3
  <2>2. x \in FrameBytes(st, b) => x \in FrameBytes(st2, b)
    <3>1. SUFFICES ASSUME NEW j \in DOMAIN st, st[j].arena = b, x \in Bytes(st[j])
                   PROVE  x \in FrameBytes(st2, b)
      BY FrameBytesIs
    <3>2. j \in DOMAIN st2 /\ st2[j] = st[j]
      BY <1>0
    <3> QED BY <3>1, <3>2, FrameBytesIs
  <2>3. f.arena = b /\ x \in Bytes(f) => x \in FrameBytes(st2, b)
    BY <1>0, FrameBytesIs
  <2> QED BY <2>1, <2>2, <2>3
<1> QED BY <1>1 DEF MoreBytes

LEMMA PushedFrame ==
  ASSUME stack \in Seq(Frame), NEW f \in Frame, NEW a, f.arena = a, stack' = Append(stack, f)
  PROVE  OneMore(stack, stack', Len(stack) + 1, f) /\ MoreBytes(stack, stack', f, a)
<1>1. /\ DOMAIN stack' = 1 .. Len(stack) + 1 /\ DOMAIN stack = 1 .. Len(stack) /\ Len(stack) \in Nat
      /\ stack'[Len(stack) + 1] = f /\ \A j \in 1 .. Len(stack) : stack'[j] = stack[j]
  BY AppendProperties, LenProperties
<1> DEFINE n == Len(stack) + 1
<1>2. DOMAIN stack' = DOMAIN stack \cup {n}
  BY <1>1
<1>3. stack'[n] = f /\ \A j \in DOMAIN stack : stack'[j] = stack[j]
  BY <1>1
<1>4. OneMore(stack, stack', n, f)
  BY <1>2, <1>3 DEF OneMore
<1> HIDE DEF n
<1>5. MoreBytes(stack, stack', f, a)
  BY <1>4, OneMoreFrame
<1> QED BY <1>4, <1>5 DEF n

LEMMA PoppedFrame ==
  ASSUME stack \in Seq(Frame), Len(stack) \in {1, 2}, NEW f, f = Last(stack), NEW a, f.arena = a,
         stack' = Front(stack)
  PROVE  /\ Len(stack) \in DOMAIN stack /\ stack[Len(stack)] = f
         /\ DOMAIN stack' = DOMAIN stack \ {Len(stack)} /\ \A j \in DOMAIN stack' : stack'[j] = stack[j]
         /\ Len(stack) = 2 => DOMAIN stack' = {1}
         /\ Len(stack) = 1 => stack' = <<>>
         /\ MoreBytes(stack', stack, f, a)
<1> DEFINE n == Len(stack)
<1>1. n \in {1, 2} /\ DOMAIN stack = 1 .. n /\ stack[n] = f
  BY LenProperties DEF Last
<1>2. stack' \in Seq(Frame) /\ Len(stack') = n - 1 /\ \A j \in 1 .. n - 1 : stack'[j] = stack[j]
  <2>1. \A j \in 1 .. n - 1 : stack[j] \in Frame
    BY <1>1, ElementOfSeq
  <2>2. /\ stack' \in Seq(Frame)
        /\ Len(stack') = IF 1 <= n - 1 THEN (n - 1) - 1 + 1 ELSE 0
        /\ \A j \in 1 .. (n - 1) - 1 + 1 : stack'[j] = stack[1 + j - 1]
    BY <1>1, <2>1, SubSeqProperties DEF Front
  <2>3. (n - 1) - 1 + 1 = n - 1 /\ \A j \in 1 .. n - 1 : 1 + j - 1 = j
    BY <1>1
  <2>4. Len(stack') = n - 1
    <3>1. CASE n = 1
      BY <2>2, <3>1
    <3>2. CASE n = 2
      BY <2>2, <3>2
    <3> QED BY <1>1, <3>1, <3>2
  <2> QED BY <2>2, <2>3, <2>4
<1>3. DOMAIN stack' = 1 .. n - 1
  BY <1>2, LenProperties
<1>4. n \in DOMAIN stack /\ DOMAIN stack' = DOMAIN stack \ {n} /\ DOMAIN stack = DOMAIN stack' \cup {n}
  BY <1>1, <1>3
<1>5. (n = 2 => DOMAIN stack' = {1}) /\ (n = 1 => stack' = <<>>)
  BY <1>2, <1>3, EmptySeq
<1>6. \A j \in DOMAIN stack' : stack[j] = stack'[j]
  BY <1>2, <1>3
<1>7. stack[n] = f
  BY <1>1
<1> HIDE DEF n
<1>8. MoreBytes(stack', stack, f, a)
  <2>1. OneMore(stack', stack, n, f)
    BY <1>4, <1>6, <1>7 DEF OneMore
  <2> QED BY <2>1, OneMoreFrame
<1> QED BY <1>4, <1>5, <1>6, <1>7, <1>8 DEF n

(* The effect of TakePages: the run P at the front of a free one goes to    *)
(* the arena, in a new frame.                                               *)
Taken(a, P) ==
  /\ P \subseteq FreeBytes
  /\ FreeBytes' = FreeBytes \ P
  /\ Held(a)' = Held(a) \cup P
  /\ \A b \in AllArenas \ {a} : Held(b)' = Held(b)
  /\ writable' = writable \cup P

LEMMA TakenPages ==
  ASSUME PagesInv, NEW a \in AllArenas, NEW P, Taken(a, P)
  PROVE  PagesInv'
<1>1. /\ FreeBytes \cup UNION {Held(b) : b \in AllArenas} = Addr
      /\ \A b \in AllArenas : Held(b) \cap FreeBytes = {}
      /\ \A b, c \in AllArenas : b # c => Held(b) \cap Held(c) = {}
      /\ writable = UNION {Held(b) : b \in AllArenas}
  BY DEF PagesInv
<1>2. \A x : x \in UNION {Held(b) : b \in AllArenas} <=> \E b \in AllArenas : x \in Held(b)
  OBVIOUS
<1>3. \A x : x \in (UNION {Held(b) : b \in AllArenas})' <=> \E b \in AllArenas : x \in Held(b)'
  OBVIOUS
<1>4. \A b \in AllArenas : \A x : x \in Held(b)' <=> x \in Held(b) \/ (b = a /\ x \in P)
  BY DEF Taken
<1>5. (UNION {Held(b) : b \in AllArenas})' = (UNION {Held(b) : b \in AllArenas}) \cup P
  BY <1>2, <1>3, <1>4
<1>6. FreeBytes' \cup (UNION {Held(b) : b \in AllArenas})' = Addr
  BY <1>1, <1>5 DEF Taken
<1>7. ASSUME NEW b \in AllArenas PROVE (Held(b) \cap FreeBytes)' = {}
  BY <1>1, <1>4 DEF Taken
<1>8. ASSUME NEW b \in AllArenas, NEW c \in AllArenas, b # c PROVE (Held(b) \cap Held(c))' = {}
  BY <1>1, <1>4, <1>8 DEF Taken
<1>9. writable' = (UNION {Held(b) : b \in AllArenas})'
  BY <1>1, <1>5 DEF Taken
<1> QED BY <1>6, <1>7, <1>8, <1>9 DEF PagesInv

(* What TakePages cuts off is the front of one free run. *)
CutOff(f, a, size) ==
  /\ f.arena = a /\ f.size = size /\ Ordered(f) /\ f.memory_begin + size <= f.memory_end
  /\ stack' = Append(stack, f)
  /\ memory_avail' = [memory_avail EXCEPT ![a] = f.memory_begin]
  /\ memory_limit' = [memory_limit EXCEPT ![a] = f.memory_end]
  /\ ListOK(block_freelist, block)'
  /\ \A s \in Addr \ FreeBlocks : block'[s] = block[s]
  /\ Bytes(f) \subseteq FreeBytes /\ FreeBytes' = FreeBytes \ Bytes(f)
  /\ writable' = writable \cup Bytes(f)
  /\ pc' = "get_struct"
  /\ UNCHANGED <<block_freelist, recycled_block_structs, owned_pages, new_struct, deleting, used>>

LEMMA TakePagesCuts ==
  ASSUME SafeInv, OwnInv, NEW a \in AllArenas, NEW size \in Nat \ {0}, TakePages(a, size)
  PROVE  \E f \in Frame : CutOff(f, a, size)
<1> DEFINE i == find_block_first_fit(size)
           free == block_freelist[i]
           need == size_in_page_multiples(size)
           from == block[free].memory_begin
           to   == block[free].memory_end
           f == [arena |-> a, size |-> size, memory_begin |-> from, memory_end |-> from + need]
<1>1. i \in 1 .. Len(block_freelist) /\ free \in Addr /\ Size(block[free]) >= size
  <2>1. block_freelist \in Seq(Addr) /\ Len(block_freelist) \in Nat
    BY LenProperties DEF SafeInv, TypeOK
  <2>2. i # 0
    BY DEF TakePages, CutRun
  <2>3. i \in 0 .. Len(block_freelist) /\ (i # 0 => free \in Addr /\ Size(block[free]) >= size)
    BY <2>1, FirstFit
  <2> HIDE DEF i
  <2> QED BY <2>1, <2>2, <2>3
<1>2. free \in FreeBlocks
  BY <1>1, RangeIs DEF FreeBlocks, SafeInv, TypeOK
<1>3. from \in Boundary /\ to \in Boundary /\ from \in Nat /\ to \in Nat
  <2>1. block[free] \in PageRun
    BY <1>1 DEF SafeInv, AlignedInv
  <2>2. from \in Boundary /\ to \in Boundary
    BY <2>1 DEF PageRun
  <2> HIDE DEF from, to
  <2> QED BY <2>2, BoundaryRange
<1>4. need \in Nat /\ size <= need /\ from + need \in Boundary /\ from + need <= to
  <2>1. to - from >= size
    BY <1>1 DEF Size
  <2>2. need \in Nat /\ size <= need /\ need <= to - from /\ from + need \in Boundary
    BY <1>3, <2>1, RoundUp
  <2> HIDE DEF need, from, to
  <2> QED BY <1>3, <2>2
<1>5. /\ block' = [block EXCEPT ![free].memory_begin = from + need]
      /\ writable' = writable \cup (from .. from + need - 1)
      /\ memory_avail' = [memory_avail EXCEPT ![a] = from]
      /\ memory_limit' = [memory_limit EXCEPT ![a] = from + need]
      /\ stack' = Append(stack, f)
      /\ pc' = "get_struct"
      /\ UNCHANGED <<block_freelist, recycled_block_structs, owned_pages, new_struct, deleting, used>>
  BY DEF TakePages, CutRun
<1>6. f \in Frame
  <2>1. from \in 0 .. MemEnd /\ from + need \in 0 .. MemEnd
    BY <1>3, <1>4, BoundaryRange
  <2> HIDE DEF from, need
  <2> QED BY <2>1 DEF Frame
<1>a. f.arena = a /\ f.size = size /\ f.memory_begin = from /\ f.memory_end = from + need
  OBVIOUS
<1> HIDE DEF i, need, f
<1>b. Bytes(block[free]) = from .. to - 1
  BY DEF Bytes
<1>7. Bytes(f) = from .. from + need - 1 /\ Bytes(block[free]) = from .. to - 1
  <2> HIDE DEF from, to, free
  <2>1. Bytes(f) = f.memory_begin .. f.memory_end - 1
    BY DEF Bytes
  <2> QED BY <1>3, <1>4, <1>a, <1>b, <2>1
<1>8. /\ \A s \in Addr \ {free} : block'[s] = block[s]
      /\ block'[free].memory_begin = from + need /\ block'[free].memory_end = to
  BY <1>1, <1>5 DEF SafeInv, TypeOK, Run
<1> HIDE DEF from, to, free
<1>9. /\ Ordered(f) /\ Ordered(block'[free])
      /\ Bytes(f) \subseteq Bytes(block[free]) /\ Bytes(block'[free]) = Bytes(block[free]) \ Bytes(f)
  <2>1. Ordered(f) /\ Ordered(block'[free])
    BY <1>3, <1>4, <1>a, <1>8 DEF Ordered
  <2>2. Bytes(block'[free]) = from + need .. to - 1
    BY <1>8 DEF Bytes
  <2> QED BY <1>3, <1>4, <1>7, <2>1, <2>2
<1>10. FreeBlocks' = FreeBlocks /\ FreeBlocks \subseteq Addr
  BY <1>5, StructTypes DEF FreeBlocks
<1>11. /\ \A s \in FreeBlocks : Ordered(block[s])
       /\ \A s, t \in FreeBlocks : s # t => Bytes(block[s]) \cap Bytes(block[t]) = {}
       /\ IsInjective(block_freelist)
  BY DEF OwnInv, ListsInv, ListOK, RunsOK, FreeBlocks, Apart
<1>12. \A s \in FreeBlocks \ {free} : Bytes(block'[s]) = Bytes(block[s]) /\ Ordered(block'[s])
  BY <1>8, <1>10, <1>11 DEF Bytes, Ordered
<1>13. \A x : x \in FreeBytes <=> \E s \in FreeBlocks : x \in Bytes(block[s])
  BY HeldParts, BytesOfIs
<1>14. \A x : x \in FreeBytes' <=> \E s \in FreeBlocks : x \in Bytes(block'[s])
  BY <1>10, HeldParts, BytesOfIs
<1>15. Bytes(f) \subseteq FreeBytes /\ FreeBytes' = FreeBytes \ Bytes(f)
  <2>1. Bytes(f) \subseteq FreeBytes
    BY <1>2, <1>9, <1>13
  <2>2. \A s \in FreeBlocks \ {free} : Bytes(f) \cap Bytes(block[s]) = {}
    BY <1>2, <1>9, <1>11
  <2>3. ASSUME NEW x \in FreeBytes' PROVE x \in FreeBytes \ Bytes(f)
    BY <1>2, <1>9, <1>12, <1>13, <1>14, <2>2
  <2>4. ASSUME NEW x \in FreeBytes \ Bytes(f) PROVE x \in FreeBytes'
    BY <1>2, <1>9, <1>12, <1>13, <1>14
  <2> QED BY <2>1, <2>3, <2>4
<1>16. ListOK(block_freelist, block)'
  <2>1. \A s \in FreeBlocks : Ordered(block'[s])
    BY <1>9, <1>12
  <2>2. \A s \in FreeBlocks : Bytes(block'[s]) \subseteq Bytes(block[s])
    BY <1>9, <1>12
  <2>3. \A s, t \in FreeBlocks : s # t => Bytes(block'[s]) \cap Bytes(block'[t]) = {}
    BY <1>11, <2>2
  <2>4. RunsOK(FreeBlocks, block')
    BY <2>1, <2>3 DEF RunsOK, Apart
  <2> QED BY <1>5, <1>11, <2>4 DEF ListOK, FreeBlocks
<1>17. f.memory_begin + size <= f.memory_end
  BY <1>3, <1>4, <1>a
<1>18. \A s \in Addr \ FreeBlocks : block'[s] = block[s]
  BY <1>2, <1>8
<1>19. CutOff(f, a, size)
  BY <1>5, <1>a, <1>7, <1>9, <1>15, <1>16, <1>17, <1>18 DEF CutOff
<1> QED BY <1>6, <1>19

(* arena_push takes pages, for a client or, inside such a push, for the     *)
(* structs: the pages change hands and nothing else does.                   *)
LEMMA TakePagesOwn ==
  ASSUME SafeInv, OwnInv, NEW a \in AllArenas, NEW size \in Nat \ {0}, TakePages(a, size),
         \/ pc = "idle" /\ size \in Sizes
         \/ pc = "get_struct" /\ a = pageblock_storage
  PROVE  OwnInv'
<1>1. PICK f \in Frame : CutOff(f, a, size)
  BY TakePagesCuts
<1>2. /\ f.arena = a /\ f.size = size /\ Ordered(f) /\ f.memory_begin + size <= f.memory_end
      /\ stack' = Append(stack, f)
      /\ memory_avail' = [memory_avail EXCEPT ![a] = f.memory_begin]
      /\ memory_limit' = [memory_limit EXCEPT ![a] = f.memory_end]
      /\ ListOK(block_freelist, block)'
      /\ \A s \in Addr \ FreeBlocks : block'[s] = block[s]
      /\ Bytes(f) \subseteq FreeBytes /\ FreeBytes' = FreeBytes \ Bytes(f)
      /\ writable' = writable \cup Bytes(f)
      /\ pc' = "get_struct" /\ pc # "link"
      /\ UNCHANGED <<block_freelist, recycled_block_structs, owned_pages, new_struct, deleting, used>>
  BY <1>1 DEF CutOff
<1>3. /\ memory_avail'[a] = f.memory_begin /\ memory_limit'[a] = f.memory_end
      /\ \A b \in AllArenas \ {a} : memory_avail'[b] = memory_avail[b] /\ memory_limit'[b] = memory_limit[b]
  BY <1>2 DEF SafeInv, TypeOK
<1>4. /\ FreeBlocks' = FreeBlocks /\ Recycled' = Recycled /\ \A b \in AllArenas : OwnedBlocks(b)' = OwnedBlocks(b)
      /\ ListedStructs' = ListedStructs
  BY <1>2 DEF FreeBlocks, OwnedBlocks, Recycled, ListedStructs
<1>5. \A b \in AllArenas : \A s \in OwnedBlocks(b) : block'[s] = block[s]
  BY <1>2, StructTypes DEF OwnInv, LinkedInv
<1>6. ASSUME NEW b \in AllArenas
      PROVE  /\ BytesOf(OwnedBlocks(b), block)' = BytesOf(OwnedBlocks(b), block)
             /\ ListOK(owned_pages[b], block)'
  <2>1. /\ BytesOf(OwnedBlocks(b), block') = BytesOf(OwnedBlocks(b), block)
        /\ RunsOK(OwnedBlocks(b), block) => RunsOK(OwnedBlocks(b), block')
    BY <1>5, BytesOfSame
  <2>2. ListOK(owned_pages[b], block)'
    BY <1>2, <2>1 DEF OwnInv, ListsInv, ListOK, OwnedBlocks
  <2> QED BY <1>4, <2>1, <2>2
<1>7. /\ DOMAIN stack' = DOMAIN stack \cup {Len(stack) + 1}
      /\ stack'[Len(stack) + 1] = f /\ \A j \in DOMAIN stack : stack'[j] = stack[j]
      /\ FrameBytes(stack', a) = FrameBytes(stack, a) \cup Bytes(f)
      /\ \A b : b # a => FrameBytes(stack', b) = FrameBytes(stack, b)
  <2>1. OneMore(stack, stack', Len(stack) + 1, f) /\ MoreBytes(stack, stack', f, a)
    BY <1>2, PushedFrame DEF SafeInv, TypeOK
  <2> QED BY <2>1 DEF OneMore, MoreBytes
<1>8. Held(a)' = Held(a) \cup Bytes(f) /\ \A b \in AllArenas \ {a} : Held(b)' = Held(b)
  <2>1. ASSUME NEW b \in AllArenas
        PROVE  Held(b) = BytesOf(OwnedBlocks(b), block) \cup FrameBytes(stack, b)
               /\ Held(b)' = BytesOf(OwnedBlocks(b), block) \cup FrameBytes(stack', b)
    BY <1>6, HeldParts
  <2>2. Held(a)' = Held(a) \cup Bytes(f)
    BY <1>7, <2>1
  <2>3. \A b \in AllArenas \ {a} : Held(b)' = Held(b)
    BY <1>7, <2>1
  <2> QED BY <2>2, <2>3
<1>9. PagesInv'
  <2>1. Taken(a, Bytes(f))
    BY <1>2, <1>8 DEF Taken
  <2> QED BY <2>1, TakenPages DEF OwnInv
<1>10. ListsInv' /\ LinkedInv'
  BY <1>2, <1>4, <1>6 DEF OwnInv, ListsInv, LinkedInv
<1>11. StructsInv'
  <2>1. Structs' \subseteq Structs
    BY <1>2, <1>4 DEF Structs
  <2> QED BY <1>2, <2>1, SameStructs DEF OwnInv
<1>12. Held(a) \cap FreeBytes = {} /\ \A s \in OwnedBlocks(a) : Bytes(block[s]) \subseteq Held(a)
  BY HeldParts, BytesOfIs DEF OwnInv, PagesInv
<1>13. FramesInv'
  <2>1. \A j \in DOMAIN stack : stack[j].arena \in AllArenas
    <3>1. stack \in Seq(Frame) /\ DOMAIN stack = 1 .. Len(stack)
      BY LenProperties DEF SafeInv, TypeOK
    <3>2. \A j \in DOMAIN stack : stack[j] \in Frame
      BY <3>1, ElementOfSeq
    <3> QED BY <3>2 DEF Frame
  <2>2. ASSUME NEW j \in DOMAIN stack
        PROVE  (Ordered(stack[j]) /\ \A s \in OwnedBlocks(stack[j].arena) : Apart(block[s], stack[j]))'
    <3>1. Ordered(stack[j]) /\ \A s \in OwnedBlocks(stack[j].arena) : Apart(block[s], stack[j])
      BY DEF OwnInv, FramesInv
    <3>2. stack'[j] = stack[j]
      BY <1>7
    <3>3. \A s \in OwnedBlocks(stack[j].arena) : Bytes(block'[s]) = Bytes(block[s])
      BY <1>5, <2>1 DEF Bytes
    <3> QED BY <1>2, <3>1, <3>2, <3>3 DEF Apart, OwnedBlocks, Ordered
  <2>3. ASSUME NEW s \in OwnedBlocks(a) PROVE Apart(block'[s], f)
    <3>1. Bytes(block'[s]) = Bytes(block[s])
      BY <1>5 DEF Bytes
    <3> QED BY <1>2, <1>12, <3>1 DEF Apart
  <2>4. ASSUME NEW j, j = Len(stack) + 1
        PROVE  (Ordered(stack[j]) /\ \A s \in OwnedBlocks(stack[j].arena) : Apart(block[s], stack[j]))'
    BY <1>2, <1>7, <2>3, <2>4 DEF OwnedBlocks
  <2> QED BY <1>7, <2>2, <2>4 DEF FramesInv
<1>14. ASSUME NEW b \in AllArenas PROVE Exclusive(b)'
  <2>0. Exclusive(b)
    BY DEF OwnInv, MemoryInv
  <2>1. CASE b = a
    <3>1. Left(a)' = Bytes(f)
      BY <1>3 DEF Left, Bytes
    <3>2. used[a] \subseteq Held(a)
      BY <2>0, <2>1 DEF Exclusive
    <3> QED BY <1>2, <1>8, <1>12, <2>1, <3>1, <3>2 DEF Exclusive
  <2>2. CASE b # a
    BY <1>2, <1>3, <1>8, <2>0, <2>2, SameMemory
  <2> QED BY <2>1, <2>2
<1>15. PushInv'
  <2>1. CASE pc = "idle" /\ size \in Sizes
    <3>1. stack = <<>>
      BY <2>1 DEF SafeInv, StackInv
    <3>2. stack'[1] = f
      BY <1>2, <3>1
    <3> QED BY <1>2, <1>3, <2>1, <3>2 DEF PushInv
  <2>2. CASE pc = "get_struct" /\ a = pageblock_storage
    <3>1. stack[1].arena \in AllArenas \ {a} /\ 1 \in DOMAIN stack
      <4>1. Len(stack) \in {1, 2} /\ stack[1].arena \in Arenas /\ DOMAIN stack = 1 .. Len(stack)
        BY <2>2, LenProperties DEF SafeInv, TypeOK, StackInv, OuterPush
      <4> QED BY <2>2, <4>1, StorageAssumption DEF AllArenas
    <3>2. stack'[1] = stack[1]
      BY <1>7, <3>1
    <3> QED BY <1>3, <2>2, <3>1, <3>2 DEF OwnInv, PushInv
  <2> QED BY <2>1, <2>2
<1> QED BY <1>2, <1>9, <1>10, <1>11, <1>13, <1>14, <1>15 DEF OwnInv, MemoryInv, DeleteInv

-----------------------------------------------------------------------------
(* The effect of one round of arena_delete: the run P goes back. *)
Returned(a, P) ==
  /\ P \subseteq Held(a)
  /\ FreeBytes' = FreeBytes \cup P
  /\ Held(a)' = Held(a) \ P
  /\ \A b \in AllArenas \ {a} : Held(b)' = Held(b)
  /\ writable' = writable \ P

LEMMA ReturnedPages ==
  ASSUME PagesInv, NEW a \in AllArenas, NEW P, Returned(a, P)
  PROVE  PagesInv'
<1>1. /\ FreeBytes \cup UNION {Held(b) : b \in AllArenas} = Addr
      /\ \A b \in AllArenas : Held(b) \cap FreeBytes = {}
      /\ \A b, c \in AllArenas : b # c => Held(b) \cap Held(c) = {}
      /\ writable = UNION {Held(b) : b \in AllArenas}
  BY DEF PagesInv
<1>2. \A x : x \in UNION {Held(b) : b \in AllArenas} <=> \E b \in AllArenas : x \in Held(b)
  OBVIOUS
<1>3. \A x : x \in (UNION {Held(b) : b \in AllArenas})' <=> \E b \in AllArenas : x \in Held(b)'
  OBVIOUS
<1>4. \A b \in AllArenas : \A x : x \in Held(b)' <=> x \in Held(b) /\ x \notin P
  BY <1>1 DEF Returned
<1>5. (UNION {Held(b) : b \in AllArenas})' = (UNION {Held(b) : b \in AllArenas}) \ P
  BY <1>2, <1>3, <1>4
<1>6. FreeBytes' \cup (UNION {Held(b) : b \in AllArenas})' = Addr
  <2>1. P \subseteq UNION {Held(b) : b \in AllArenas}
    BY <1>2 DEF Returned
  <2> QED BY <1>1, <1>5, <2>1 DEF Returned
<1>7. ASSUME NEW b \in AllArenas PROVE (Held(b) \cap FreeBytes)' = {}
  BY <1>1, <1>4 DEF Returned
<1>8. ASSUME NEW b \in AllArenas, NEW c \in AllArenas, b # c PROVE (Held(b) \cap Held(c))' = {}
  BY <1>1, <1>4, <1>8 DEF Returned
<1>9. writable' = (UNION {Held(b) : b \in AllArenas})'
  BY <1>1, <1>5 DEF Returned
<1> QED BY <1>6, <1>7, <1>8, <1>9 DEF PagesInv

(* One round of arena_delete's loop.  The free list takes over the struct   *)
(* and its bytes, or merges it away.                                        *)
LEMMA DeleteBlockOwn ==
  ASSUME SafeInv, FreelistNonEmpty, OwnInv, DeleteBlock
  PROVE  OwnInv'
<1>0. PICK d \in AllArenas : d = deleting
  BY DEF SafeInv, TypeOK
<1> DEFINE l == owned_pages[d]
           p == Head(l)
           P == Bytes(block[p])
           r == block_insert_and_coalesce(block_freelist, p, block, Tail(l))
<1>1. /\ pc = "delete" /\ d \in Arenas /\ d \in AllArenas /\ stack = <<>> /\ used[d] = {}
      /\ l \in Seq(Addr) /\ l # <<>> /\ ListOK(l, block) /\ d # pageblock_storage
  BY <1>0, StorageAssumption DEF DeleteBlock, OwnInv, DeleteInv, ListsInv, SafeInv, TypeOK, StackInv, AllArenas
<1>2. /\ p \in OwnedBlocks(d) /\ Tail(l) \in Seq(Addr) /\ IsInjective(Tail(l))
      /\ Range(Tail(l)) = OwnedBlocks(d) \ {p}
  BY <1>1, TailOnce DEF ListOK, OwnedBlocks
<1>3. /\ writable' = writable \ P
      /\ block' = r.block /\ block_freelist' = r.list
      /\ recycled_block_structs' = r.recycled \o recycled_block_structs
      /\ owned_pages' = [owned_pages EXCEPT ![d] = Tail(l)]
      /\ UNCHANGED <<memory_avail, memory_limit, stack, new_struct, pc, deleting, used>>
  BY <1>0 DEF DeleteBlock, Unprotected
<1>4. /\ Range(l) = OwnedBlocks(d) /\ Range(block_freelist) = FreeBlocks
      /\ Range(recycled_block_structs) = Recycled
  BY DEF OwnedBlocks, FreeBlocks, Recycled
<1>5. /\ p \in Addr /\ p \notin FreeBlocks /\ p \notin Recycled
      /\ \A b \in AllArenas : b # d => p \notin OwnedBlocks(b)
  BY <1>1, <1>2, StructTypes DEF OwnInv, LinkedInv
<1> HIDE DEF l, p
<1>6. RunsOK(OwnedBlocks(d), block) /\ Ordered(block[p])
      /\ \A s \in OwnedBlocks(d) \ {p} : Bytes(block[s]) \cap P = {}
  BY <1>1, <1>2, <1>4 DEF ListOK, RunsOK, Apart
<1>7. /\ \A x : x \in FreeBytes <=> \E s \in FreeBlocks : x \in Bytes(block[s])
      /\ \A x : x \in FreeBytes' <=> \E s \in FreeBlocks' : x \in Bytes(block'[s])
  BY HeldParts, BytesOfIs
<1>8. FrameBytes(stack, d) = {} /\ FrameBytes(stack', d) = {} /\ \A b : FrameBytes(stack', b) = FrameBytes(stack, b)
  <2>1. DOMAIN stack = {} /\ stack' = stack
    BY <1>1, <1>3
  <2>2. \A b : FrameBytes(stack', b) = FrameBytes(stack, b)
    BY <2>1 DEF FrameBytes
  <2> QED BY <2>1, <2>2, FrameBytesIs
<1>9. \A x : x \in Held(d) <=> \E s \in OwnedBlocks(d) : x \in Bytes(block[s])
  <2>1. Held(d) = BytesOf(OwnedBlocks(d), block) \cup FrameBytes(stack, d)
    BY HeldParts
  <2> QED BY <1>8, <2>1, BytesOfIs
<1>10. P \subseteq Held(d) /\ Held(d) \cap FreeBytes = {}
  BY <1>1, <1>2, <1>9 DEF OwnInv, PagesInv
<1>11. \A s \in FreeBlocks : Apart(block[s], block[p])
  BY <1>7, <1>10 DEF Apart
<1>12. InsertedInto(r, block_freelist, p, block)
  <2>1. block_freelist \in Seq(Addr) /\ block \in [Addr -> Run] /\ ListOK(block_freelist, block)
    BY DEF SafeInv, TypeOK, OwnInv, ListsInv
  <2>2. block_freelist # <<>>
    BY DEF FreelistNonEmpty
  <2> QED BY <1>2, <1>4, <1>5, <1>6, <1>11, <2>1, <2>2, InsertKeeps
<1> HIDE DEF P, r
<1>13. /\ r.recycled \in Seq(Addr) /\ IsInjective(r.recycled) /\ ListOK(block_freelist, block)'
       /\ FreeBlocks' \cap Range(r.recycled) = {} /\ FreeBlocks' \cup Range(r.recycled) = FreeBlocks \cup {p}
       /\ BytesOf(FreeBlocks', block') = BytesOf(FreeBlocks \cup {p}, block)
       /\ \A s \in Addr \ (FreeBlocks \cup {p}) : block'[s] = block[s]
  BY <1>3, <1>4, <1>12 DEF InsertedInto, FreeBlocks
<1>14. FreeBytes' = FreeBytes \cup P
  <2>1. \A x : x \in FreeBytes' <=> \E s \in FreeBlocks \cup {p} : x \in Bytes(block[s])
    BY <1>13, HeldParts, BytesOfIs
  <2> QED BY <1>7, <2>1 DEF P
<1>15. OwnedBlocks(d)' = OwnedBlocks(d) \ {p} /\ \A b \in AllArenas \ {d} : OwnedBlocks(b)' = OwnedBlocks(b)
  <2>1. owned_pages'[d] = Tail(l) /\ \A b \in AllArenas \ {d} : owned_pages'[b] = owned_pages[b]
    BY <1>1, <1>3 DEF SafeInv, TypeOK
  <2> QED BY <1>2, <2>1 DEF OwnedBlocks
<1>16. \A b \in AllArenas : OwnedBlocks(b)' \subseteq OwnedBlocks(b)
  BY <1>15
<1>17. \A b \in AllArenas : \A s \in OwnedBlocks(b)' : block'[s] = block[s]
  <2>1. ASSUME NEW b \in AllArenas, NEW s \in OwnedBlocks(b)' PROVE s \in Addr /\ s \notin FreeBlocks \cup {p}
    <3>1. s \in OwnedBlocks(b) /\ s \in Addr
      BY <1>16, StructTypes
    <3>2. s \notin FreeBlocks
      BY <3>1 DEF OwnInv, LinkedInv
    <3>3. s # p
      BY <1>5, <1>15, <3>1
    <3> QED BY <3>1, <3>2, <3>3
  <2> QED BY <1>13, <2>1
<1>18. ASSUME NEW b \in AllArenas
       PROVE  /\ BytesOf(OwnedBlocks(b), block)' = BytesOf(OwnedBlocks(b)', block)
              /\ ListOK(owned_pages[b], block)'
  <2>1. /\ BytesOf(OwnedBlocks(b)', block') = BytesOf(OwnedBlocks(b)', block)
        /\ RunsOK(OwnedBlocks(b)', block) => RunsOK(OwnedBlocks(b)', block')
    BY <1>17, BytesOfSame
  <2>2. RunsOK(OwnedBlocks(b)', block)
    <3>1. RunsOK(OwnedBlocks(b), block)
      BY DEF OwnInv, ListsInv, ListOK, OwnedBlocks
    <3> QED BY <1>16, <3>1 DEF RunsOK
  <2>3. IsInjective(owned_pages'[b])
    <3>1. IsInjective(owned_pages[b])
      BY DEF OwnInv, ListsInv, ListOK
    <3> QED BY <1>1, <1>2, <1>3, <3>1 DEF SafeInv, TypeOK
  <2> QED BY <2>1, <2>2, <2>3 DEF ListOK, OwnedBlocks
<1>19. Held(d)' = Held(d) \ P /\ \A b \in AllArenas \ {d} : Held(b)' = Held(b)
  <2>1. \A b \in AllArenas \ {d} : Held(b)' = Held(b)
    BY <1>8, <1>15, <1>18, HeldParts
  <2>2. \A x : x \in Held(d)' <=> \E s \in OwnedBlocks(d) \ {p} : x \in Bytes(block[s])
    <3>1. Held(d)' = BytesOf(OwnedBlocks(d)', block)
      BY <1>8, <1>18, HeldParts
    <3> QED BY <1>15, <3>1, BytesOfIs
  <2>3. \A x : x \in Held(d)' <=> x \in Held(d) /\ x \notin P
    BY <1>2, <1>6, <1>9, <2>2 DEF P
  <2> QED BY <2>1, <2>3
<1>20. PagesInv'
  <2>1. Returned(d, P)
    BY <1>3, <1>10, <1>14, <1>19 DEF Returned
  <2> QED BY <2>1, ReturnedPages DEF OwnInv
<1>21. /\ Recycled' = Range(r.recycled) \cup Recycled /\ IsInjective(recycled_block_structs)'
  <2>1. Range(r.recycled) \cap Range(recycled_block_structs) = {}
    BY <1>4, <1>5, <1>13 DEF OwnInv, LinkedInv
  <2>2. IsInjective(recycled_block_structs) /\ recycled_block_structs \in Seq(Addr)
    BY DEF OwnInv, ListsInv, SafeInv, TypeOK
  <2> QED BY <1>3, <1>13, <2>1, <2>2, ConcatOnce DEF Recycled
<1>22. ListsInv'
  BY <1>13, <1>18, <1>21 DEF ListsInv
<1>23. LinkedInv'
  <2>1. FreeBlocks' \cap Recycled' = {}
    BY <1>5, <1>13, <1>21 DEF OwnInv, LinkedInv
  <2>2. ASSUME NEW b \in AllArenas PROVE (OwnedBlocks(b) \cap (FreeBlocks \cup Recycled))' = {}
    <3>1. p \notin OwnedBlocks(b)'
      BY <1>5, <1>15
    <3> QED BY <1>13, <1>16, <1>21, <3>1 DEF OwnInv, LinkedInv
  <2>3. ASSUME NEW b \in AllArenas, NEW c \in AllArenas, b # c PROVE (OwnedBlocks(b) \cap OwnedBlocks(c))' = {}
    BY <1>16, <2>3 DEF OwnInv, LinkedInv
  <2> QED BY <1>1, <1>3, <2>1, <2>2, <2>3 DEF LinkedInv
<1>24. StructsInv'
  <2>1. ListedStructs' \cup Recycled' \subseteq ListedStructs \cup Recycled
    <3>1. FreeBlocks' \cup Recycled' \subseteq FreeBlocks \cup {p} \cup Recycled
      BY <1>13, <1>21
    <3>2. p \in ListedStructs
      BY <1>1, <1>2 DEF ListedStructs
    <3> QED BY <1>16, <3>1, <3>2 DEF ListedStructs
  <2>2. Structs' \subseteq Structs
    BY <1>1, <1>3, <2>1 DEF Structs
  <2> QED BY <1>3, <2>2, SameStructs DEF OwnInv
<1>25. ASSUME NEW b \in AllArenas PROVE Exclusive(b)'
  <2>0. Exclusive(b)
    BY DEF OwnInv, MemoryInv
  <2>1. CASE b = d
    BY <1>0, <1>1, <1>3, <2>1 DEF Exclusive
  <2>2. CASE b # d
    BY <1>0, <1>3, <1>19, <2>0, <2>2, SameMemory
  <2> QED BY <2>1, <2>2
<1>26. FramesInv' /\ DeleteInv' /\ PushInv'
  BY <1>0, <1>1, <1>3 DEF FramesInv, DeleteInv, PushInv
<1> QED BY <1>20, <1>22, <1>23, <1>24, <1>25, <1>26 DEF OwnInv, MemoryInv

-----------------------------------------------------------------------------
(* The rest of arena_push.  The struct and the bytes of the frame go to the *)
(* arena's list, so that the arena holds what it held; the struct that an   *)
(* inner push provides is carved out of what pageblock_storage has left.    *)
LEMMA LinkPagesOwn ==
  ASSUME SafeInv, OwnInv, LinkPages
  PROVE  OwnInv'
<1>1. /\ pc = "link" /\ stack \in Seq(Frame) /\ Len(stack) \in {1, 2} /\ stack' = Front(stack)
      /\ stack[1].arena \in Arenas /\ (Len(stack) = 2 => InnerPush(stack[2]))
  BY DEF LinkPages, SafeInv, TypeOK, StackInv, OuterPush
<1>2. PICK f \in Frame : f = Last(stack)
  <2>1. Len(stack) \in 1 .. Len(stack)
    BY <1>1
  <2> QED BY <1>1, <2>1, ElementOfSeq DEF Last
<1>3. PICK a \in AllArenas : a = f.arena
  BY DEF Frame
<1> DEFINE n == new_struct
           l == owned_pages[a]
           m == memory_avail[a]
           bs == [block EXCEPT ![n] = [memory_begin |-> f.memory_begin, memory_end |-> f.memory_end]]
           r == block_insert_and_coalesce(l, n, bs, <<>>)
<1>4. /\ owned_pages' = [owned_pages EXCEPT ![a] = r.list]
      /\ recycled_block_structs' = r.recycled \o recycled_block_structs
      /\ memory_avail' = [memory_avail EXCEPT ![a] = m + f.size]
      /\ used' = [used EXCEPT ![a] = @ \cup (m .. m + f.size - 1)]
      /\ \/ Len(stack) = 1 /\ pc' = "idle" /\ block' = r.block
         \/ Len(stack) > 1 /\ new_struct' = m /\ block' = [r.block EXCEPT ![m] = Zeroed] /\ pc' = pc
      /\ UNCHANGED <<block_freelist, memory_limit, writable, deleting>>
  BY <1>2, <1>3 DEF LinkPages
<1>5. /\ Len(stack) \in DOMAIN stack /\ stack[Len(stack)] = f
      /\ DOMAIN stack' = DOMAIN stack \ {Len(stack)} /\ \A j \in DOMAIN stack' : stack'[j] = stack[j]
      /\ Len(stack) = 2 => DOMAIN stack' = {1}
      /\ Len(stack) = 1 => stack' = <<>>
      /\ MoreBytes(stack', stack, f, a)
  BY <1>1, <1>2, <1>3, PoppedFrame
<1>6. n \in Addr /\ n \notin ListedStructs /\ n \notin Recycled /\ n \in Structs
  BY <1>1 DEF SafeInv, TypeOK, OwnInv, LinkedInv, Structs
<1>7. /\ bs \in [Addr -> Run] /\ \A s \in Addr \ {n} : bs[s] = block[s]
      /\ bs[n].memory_begin = f.memory_begin /\ bs[n].memory_end = f.memory_end
  <2>1. f.memory_begin \in 0 .. MemEnd /\ f.memory_end \in 0 .. MemEnd
    BY DEF Frame
  <2> QED BY <1>6, <2>1 DEF SafeInv, TypeOK, Run
<1> HIDE DEF bs
<1>8. Bytes(bs[n]) = Bytes(f) /\ Ordered(bs[n])
  <2>1. Ordered(f)
    BY <1>5 DEF OwnInv, FramesInv
  <2> QED BY <1>7, <2>1 DEF Bytes, Ordered
<1>9. Range(l) = OwnedBlocks(a) /\ OwnedBlocks(a) \subseteq Addr \ {n} /\ l \in Seq(Addr) /\ IsInjective(l)
  <2>1. OwnedBlocks(a) \subseteq ListedStructs
    BY DEF ListedStructs
  <2> QED BY <1>6, <2>1, StructTypes DEF OwnedBlocks, SafeInv, TypeOK, OwnInv, ListsInv, ListOK
<1>10. \A s \in OwnedBlocks(a) : bs[s] = block[s]
  BY <1>7, <1>9
<1>11. /\ BytesOf(OwnedBlocks(a), bs) = BytesOf(OwnedBlocks(a), block)
       /\ RunsOK(OwnedBlocks(a), bs)
  <2>1. RunsOK(OwnedBlocks(a), block)
    BY <1>9 DEF OwnInv, ListsInv, ListOK
  <2> QED BY <1>10, <2>1, BytesOfSame
<1>12. \A s \in OwnedBlocks(a) : Apart(bs[s], bs[n])
  <2>1. \A s \in OwnedBlocks(a) : Apart(block[s], f)
    <3>1. \A j \in DOMAIN stack : \A s \in OwnedBlocks(stack[j].arena) : Apart(block[s], stack[j])
      BY DEF OwnInv, FramesInv
    <3> QED BY <1>3, <1>5, <3>1
  <2>2. \A s \in OwnedBlocks(a) : Bytes(bs[s]) = Bytes(block[s])
    BY <1>10 DEF Bytes
  <2> QED BY <1>8, <2>1, <2>2 DEF Apart
<1>13. InsertedInto(r, l, n, bs)
  <2>1. ListOK(l, bs) /\ n \notin Range(l) /\ <<>> \in Seq(Addr)
    BY <1>9, <1>11 DEF ListOK
  <2> HIDE DEF l, n, r
  <2>2. \A s \in Range(l) : Apart(bs[s], bs[n])
    BY <1>9, <1>12
  <2> QED BY <1>6, <1>7, <1>8, <1>9, <2>1, <2>2, InsertKeeps DEF r
<1>14. \A s \in Structs : s \in Addr /\ block'[s] = r.block[s]
  <2>1. Structs \subseteq Addr
    BY StructTypes
  <2>2. CASE Len(stack) = 1
    BY <1>4, <2>1, <2>2
  <2>3. CASE Len(stack) = 2
    <3>1. /\ a = pageblock_storage /\ f.size = StructSize
          /\ m + StructSize < memory_limit[a] /\ m \in Nat /\ memory_limit[a] \in Nat
      BY <1>1, <1>3, <1>5, <2>3, BoundaryRange DEF InnerPush, SafeInv, TypeOK
    <3>2. At(m) \subseteq Left(pageblock_storage)
      BY <3>1, SizeAssumption DEF At, Left
    <3>3. m \notin Structs
      BY <3>1, <3>2, FreshStruct
    <3>4. block' = [r.block EXCEPT ![m] = Zeroed]
      BY <1>4, <2>3
    <3>5. block' \in [Addr -> Run] /\ DOMAIN r.block = DOMAIN block'
      BY <3>4, LinkPagesSafe DEF SafeInv, TypeOK
    <3> HIDE DEF m, r
    <3> QED BY <2>1, <3>3, <3>4, <3>5
  <2> QED BY <1>1, <2>2, <2>3
<1>15. /\ OwnedBlocks(a)' = Range(r.list) /\ IsInjective(owned_pages'[a])
       /\ \A b \in AllArenas \ {a} : owned_pages'[b] = owned_pages[b] /\ OwnedBlocks(b)' = OwnedBlocks(b)
       /\ FreeBlocks' = FreeBlocks
  <2>1. owned_pages'[a] = r.list /\ \A b \in AllArenas \ {a} : owned_pages'[b] = owned_pages[b]
    BY <1>4 DEF SafeInv, TypeOK
  <2>2. IsInjective(r.list)
    BY <1>13 DEF InsertedInto, ListOK
  <2> HIDE DEF r
  <2> QED BY <1>4, <2>1, <2>2 DEF OwnedBlocks, FreeBlocks
<1> HIDE DEF r
<1>16. /\ r.recycled \in Seq(Addr) /\ IsInjective(r.recycled)
       /\ OwnedBlocks(a)' \cap Range(r.recycled) = {}
       /\ OwnedBlocks(a)' \cup Range(r.recycled) = OwnedBlocks(a) \cup {n}
       /\ RunsOK(OwnedBlocks(a)', r.block)
       /\ BytesOf(OwnedBlocks(a)', r.block) = BytesOf(OwnedBlocks(a) \cup {n}, bs)
       /\ \A s \in Addr \ (OwnedBlocks(a) \cup {n}) : r.block[s] = bs[s]
  BY <1>9, <1>13, <1>15 DEF InsertedInto, ListOK
<1> HIDE DEF l, n, m
<1>17. /\ FreeBlocks \subseteq Structs /\ Recycled \subseteq Structs
       /\ \A b \in AllArenas : OwnedBlocks(b) \subseteq Structs
       /\ n \notin FreeBlocks /\ \A b \in AllArenas : n \notin OwnedBlocks(b)
       /\ OwnedBlocks(a)' \subseteq Structs
  BY <1>6, <1>16 DEF Structs, ListedStructs
<1>18. /\ \A s \in FreeBlocks : block'[s] = block[s]
       /\ \A b \in AllArenas \ {a} : \A s \in OwnedBlocks(b) : block'[s] = block[s]
  <2>1. ASSUME NEW s \in Structs, s \notin OwnedBlocks(a), s # n PROVE block'[s] = block[s]
    BY <1>7, <1>14, <1>16, <2>1
  <2>2. OwnedBlocks(a) \cap FreeBlocks = {} /\ \A b \in AllArenas \ {a} : OwnedBlocks(a) \cap OwnedBlocks(b) = {}
    BY DEF OwnInv, LinkedInv
  <2> QED BY <1>17, <2>1, <2>2
<1>19. ListOK(owned_pages[a], block)' /\ BytesOf(OwnedBlocks(a)', block') = BytesOf(OwnedBlocks(a), block) \cup Bytes(f)
  <2>1. \A s \in OwnedBlocks(a)' : block'[s] = r.block[s]
    BY <1>14, <1>17
  <2>2. RunsOK(OwnedBlocks(a)', block') /\ BytesOf(OwnedBlocks(a)', block') = BytesOf(OwnedBlocks(a) \cup {n}, bs)
    BY <1>16, <2>1, BytesOfSame
  <2>3. \A x : x \in BytesOf(OwnedBlocks(a) \cup {n}, bs) <=> x \in BytesOf(OwnedBlocks(a), bs) \/ x \in Bytes(bs[n])
    BY BytesOfIs
  <2>4. BytesOf(OwnedBlocks(a) \cup {n}, bs) = BytesOf(OwnedBlocks(a), block) \cup Bytes(f)
    BY <1>8, <1>11, <2>3 DEF n
  <2>5. ListOK(owned_pages[a], block)'
    BY <1>15, <2>2 DEF ListOK, OwnedBlocks
  <2> QED BY <2>2, <2>4, <2>5
<1>20. ASSUME NEW b \in AllArenas, b # a
       PROVE  ListOK(owned_pages[b], block)' /\ BytesOf(OwnedBlocks(b), block)' = BytesOf(OwnedBlocks(b), block)
  <2>1. RunsOK(OwnedBlocks(b), block) /\ IsInjective(owned_pages[b])
    BY DEF OwnInv, ListsInv, ListOK, OwnedBlocks
  <2>2. RunsOK(OwnedBlocks(b), block') /\ BytesOf(OwnedBlocks(b), block') = BytesOf(OwnedBlocks(b), block)
    BY <1>18, <1>20, <2>1, BytesOfSame
  <2>3. OwnedBlocks(b)' = OwnedBlocks(b) /\ owned_pages'[b] = owned_pages[b]
    BY <1>15, <1>20
  <2> QED BY <2>1, <2>2, <2>3 DEF ListOK, OwnedBlocks
<1>21. ListOK(block_freelist, block)' /\ FreeBytes' = FreeBytes
  <2>1. RunsOK(FreeBlocks, block) /\ IsInjective(block_freelist)
    BY DEF OwnInv, ListsInv, ListOK, FreeBlocks
  <2>2. RunsOK(FreeBlocks, block') /\ BytesOf(FreeBlocks, block') = BytesOf(FreeBlocks, block)
    BY <1>18, <2>1, BytesOfSame
  <2>3. FreeBytes' = FreeBytes
    BY <1>15, <2>2, HeldParts
  <2> QED BY <1>4, <2>1, <2>2, <2>3 DEF ListOK, FreeBlocks
<1>22. \A b \in AllArenas : Held(b)' = Held(b)
  <2>1. /\ FrameBytes(stack, a) = FrameBytes(stack', a) \cup Bytes(f)
        /\ \A b : b # a => FrameBytes(stack, b) = FrameBytes(stack', b)
    BY <1>5 DEF MoreBytes
  <2>2. Held(a)' = Held(a)
    <3>1. Held(a)' = BytesOf(OwnedBlocks(a)', block') \cup FrameBytes(stack', a)
      BY HeldParts
    <3>2. Held(a) = BytesOf(OwnedBlocks(a), block) \cup FrameBytes(stack, a)
      BY HeldParts
    <3> QED BY <1>19, <2>1, <3>1, <3>2
  <2>3. ASSUME NEW b \in AllArenas, b # a PROVE Held(b)' = Held(b)
    <3>1. Held(b)' = BytesOf(OwnedBlocks(b), block)' \cup FrameBytes(stack', b)
      BY HeldParts
    <3>2. Held(b) = BytesOf(OwnedBlocks(b), block) \cup FrameBytes(stack, b)
      BY HeldParts
    <3> QED BY <1>20, <2>1, <2>3, <3>1, <3>2
  <2> QED BY <2>2, <2>3
<1>23. Recycled' = Range(r.recycled) \cup Recycled /\ IsInjective(recycled_block_structs)'
  <2>1. Range(r.recycled) \cap Range(recycled_block_structs) = {}
    BY <1>6, <1>16 DEF OwnInv, LinkedInv, Recycled, n
  <2>2. IsInjective(recycled_block_structs) /\ recycled_block_structs \in Seq(Addr)
    BY DEF OwnInv, ListsInv, SafeInv, TypeOK
  <2> QED BY <1>4, <1>16, <2>1, <2>2, ConcatOnce DEF Recycled
<1>24. ListsInv'
  <2>1. \A b \in AllArenas : ListOK(owned_pages[b], block)'
    BY <1>19, <1>20
  <2> QED BY <1>21, <1>23, <2>1 DEF ListsInv
<1>25. ListedStructs' \cup Recycled' \subseteq Structs
  <2>1. \A b \in AllArenas : OwnedBlocks(b)' \subseteq Structs
    BY <1>15, <1>17
  <2>2. Range(r.recycled) \subseteq Structs
    BY <1>6, <1>16, <1>17 DEF n
  <2> QED BY <1>15, <1>17, <1>23, <2>1, <2>2 DEF ListedStructs
<1>26. /\ memory_avail'[a] = memory_avail[a] + f.size /\ f.size \in Nat
       /\ used'[a] = used[a] \cup (memory_avail[a] .. memory_avail[a] + f.size - 1)
       /\ \A b \in AllArenas \ {a} : memory_avail'[b] = memory_avail[b] /\ used'[b] = used[b]
  BY <1>4 DEF SafeInv, TypeOK, Frame, m
<1>27. ASSUME Len(stack) = 2
       PROVE  /\ a = pageblock_storage /\ f.size = StructSize /\ pc' = "link" /\ new_struct' = m
              /\ memory_avail[a] + f.size <= memory_limit[a]
              /\ m \notin Structs /\ \A s \in Structs : At(s) \cap At(m) = {}
  <2>1. /\ a = pageblock_storage /\ f.size = StructSize
        /\ m + StructSize < memory_limit[a] /\ m \in Nat /\ memory_limit[a] \in Nat
    BY <1>1, <1>3, <1>5, <1>27, BoundaryRange DEF InnerPush, SafeInv, TypeOK, m
  <2>2. At(m) \subseteq Left(pageblock_storage)
    BY <2>1, SizeAssumption DEF At, Left, m
  <2>3. m \notin Structs /\ \A s \in Structs : At(s) \cap At(m) = {}
    BY <2>1, <2>2, FreshStruct
  <2>4. memory_avail[a] + f.size <= memory_limit[a]
    BY <2>1, SizeAssumption DEF m
  <2> QED BY <1>1, <1>4, <1>27, <2>1, <2>3, <2>4
<1>28. ASSUME Len(stack) = 1
       PROVE  /\ a \in Arenas /\ a # pageblock_storage /\ pc' = "idle"
              /\ memory_avail[a] + f.size <= memory_limit[a]
  <2>1. f = stack[1] /\ a \in Arenas
    BY <1>1, <1>3, <1>5, <1>28
  <2>2. memory_avail[a] + f.size <= memory_limit[a]
    BY <1>1, <1>3, <2>1 DEF OwnInv, PushInv
  <2> QED BY <1>4, <1>28, <2>1, <2>2, StorageAssumption
<1>29. LinkedInv'
  <2>1. /\ FreeBlocks \cap Recycled = {}
        /\ \A b \in AllArenas : OwnedBlocks(b) \cap (FreeBlocks \cup Recycled) = {}
        /\ \A b, c \in AllArenas : b # c => OwnedBlocks(b) \cap OwnedBlocks(c) = {}
    BY DEF OwnInv, LinkedInv
  <2>2. n \notin Recycled
    BY <1>6 DEF n
  <2>3. FreeBlocks' \cap Recycled' = {}
    BY <1>15, <1>16, <1>17, <1>23, <2>1
  <2>4. ASSUME NEW b \in AllArenas PROVE (OwnedBlocks(b) \cap (FreeBlocks \cup Recycled))' = {}
    <3>1. CASE b = a
      BY <1>15, <1>16, <1>17, <1>23, <2>1, <2>2, <3>1
    <3>2. CASE b # a
      BY <1>15, <1>16, <1>17, <1>23, <2>1, <3>2
    <3> QED BY <3>1, <3>2
  <2>5. ASSUME NEW b \in AllArenas, NEW c \in AllArenas, b # c PROVE (OwnedBlocks(b) \cap OwnedBlocks(c))' = {}
    <3>1. CASE b = a
      BY <1>15, <1>16, <1>17, <2>1, <2>5, <3>1
    <3>2. CASE c = a
      BY <1>15, <1>16, <1>17, <2>1, <2>5, <3>2
    <3>3. CASE b # a /\ c # a
      BY <1>15, <2>1, <2>5, <3>3
    <3> QED BY <3>1, <3>2, <3>3
  <2>6. pc' = "link" => new_struct' \notin ListedStructs' \cup Recycled'
    BY <1>1, <1>25, <1>27, <1>28
  <2> QED BY <2>3, <2>4, <2>5, <2>6 DEF LinkedInv
<1>30. StructsInv'
  <2>1. CASE Len(stack) = 1
    <3>1. Structs' \subseteq Structs /\ used'[pageblock_storage] = used[pageblock_storage]
      BY <1>25, <1>26, <1>28, <2>1 DEF Structs, AllArenas
    <3> QED BY <3>1, SameStructs DEF OwnInv
  <2>2. CASE Len(stack) = 2
    <3>1. Structs' \subseteq Structs \cup {m}
      BY <1>25, <1>27, <2>2 DEF Structs
    <3>2. used'[pageblock_storage] = used[pageblock_storage] \cup At(m)
      BY <1>26, <1>27, <2>2 DEF At, m
    <3>3. /\ \A s \in Structs : At(s) \subseteq used[pageblock_storage]
          /\ \A s, t \in Structs : s # t => At(s) \cap At(t) = {}
      BY DEF OwnInv, StructsInv
    <3>4. \A s \in Structs' : At(s) \subseteq used'[pageblock_storage]
      BY <3>1, <3>2, <3>3
    <3>5. \A s, t \in Structs' : s # t => At(s) \cap At(t) = {}
      BY <1>27, <2>2, <3>1, <3>3
    <3> QED BY <3>4, <3>5 DEF StructsInv, At
  <2> QED BY <1>1, <2>1, <2>2
<1>31. PagesInv'
  BY <1>4, <1>21, <1>22, SamePages DEF OwnInv
<1>32. ASSUME NEW b \in AllArenas PROVE Exclusive(b)'
  <2>0. Exclusive(b) /\ memory_limit' = memory_limit /\ Held(b)' = Held(b)
    BY <1>4, <1>22 DEF OwnInv, MemoryInv
  <2>1. CASE b = a
    <3>1. memory_avail[a] + f.size <= memory_limit[a]
      BY <1>1, <1>27, <1>28
    <3> QED BY <1>1, <1>26, <2>0, <2>1, <3>1, HandOut
  <2>2. CASE b # a
    BY <1>1, <1>26, <2>0, <2>2, SameMemory
  <2> QED BY <2>1, <2>2
<1>33. FramesInv' /\ PushInv'
  <2>1. CASE Len(stack) = 1
    <3>1. DOMAIN stack' = {}
      BY <1>5, <2>1
    <3>2. FramesInv'
      BY <3>1 DEF FramesInv
    <3> QED BY <1>28, <2>1, <3>2 DEF PushInv
  <2>2. CASE Len(stack) = 2
    <3>1. PICK c \in AllArenas : c = stack[1].arena
      BY <1>1 DEF AllArenas
    <3>2. c # a /\ DOMAIN stack' = {1} /\ stack'[1] = stack[1] /\ 1 \in DOMAIN stack
      BY <1>1, <1>5, <1>27, <2>2, <3>1, StorageAssumption
    <3>3. Ordered(stack[1]) /\ \A s \in OwnedBlocks(c) : Apart(block[s], stack[1])
      BY <3>1, <3>2 DEF OwnInv, FramesInv
    <3>4. \A s \in OwnedBlocks(c) : Bytes(block'[s]) = Bytes(block[s])
      BY <1>18, <3>2 DEF Bytes
    <3>5. \A s \in OwnedBlocks(c)' : Apart(block'[s], stack[1])
      BY <1>15, <3>2, <3>3, <3>4 DEF Apart
    <3>6. ASSUME NEW j \in DOMAIN stack'
          PROVE  (Ordered(stack[j]) /\ \A s \in OwnedBlocks(stack[j].arena) : Apart(block[s], stack[j]))'
      <4>1. j = 1
        BY <3>2
      <4>2. stack'[1] = stack[1] /\ c = stack'[1].arena
        BY <3>1, <3>2
      <4> QED BY <3>3, <3>5, <4>1, <4>2 DEF OwnedBlocks
    <3>7. FramesInv'
      BY <3>6 DEF FramesInv
    <3>8. PushInv'
      BY <1>1, <1>4, <1>26, <3>1, <3>2 DEF OwnInv, PushInv
    <3> QED BY <3>7, <3>8
  <2> QED BY <1>1, <2>1, <2>2
<1>34. DeleteInv'
  BY <1>1, <1>27, <1>28 DEF DeleteInv
<1> QED BY <1>24, <1>29, <1>30, <1>31, <1>32, <1>33, <1>34 DEF OwnInv, MemoryInv

-----------------------------------------------------------------------------
(* init_memory establishes the invariant: the first page is held by         *)
(* pageblock_storage and holds the two structs there are.                   *)
LEMMA InitOwn == Init => OwnInv
<1> SUFFICES ASSUME Init PROVE OwnInv
  OBVIOUS
<1>1. /\ MemEnd \in Nat /\ PageSize \in 0 .. MemEnd /\ PageSize \in Nat /\ 0 \in Addr /\ StructSize \in Addr
      /\ StructSize \in Nat \ {0} /\ 2 * StructSize < PageSize
  <2>1. PageSize <= MemEnd
    <3>1. (TotalPages - 1) * PageSize \in Nat /\ TotalPages * PageSize = (TotalPages - 1) * PageSize + PageSize
      BY SizeAssumption, SMT
    <3> QED BY <3>1, SizeAssumption, SMT DEF MemEnd
  <2> QED BY <2>1, BoundaryRange, PageRunIsRun, SizeAssumption
<1>2. /\ block[0] = [memory_begin |-> 0, memory_end |-> PageSize]
      /\ block[StructSize] = [memory_begin |-> PageSize, memory_end |-> MemEnd]
  BY <1>1 DEF Init, FirstFreeRun
<1>3. /\ Bytes(block[0]) = 0 .. PageSize - 1 /\ Bytes(block[StructSize]) = PageSize .. MemEnd - 1
      /\ Ordered(block[0]) /\ Ordered(block[StructSize])
  BY <1>1, <1>2 DEF Bytes, Ordered
<1>4. pageblock_storage \in AllArenas
  BY DEF AllArenas
<1>5. /\ owned_pages[pageblock_storage] = <<0>> /\ \A a \in AllArenas \ {pageblock_storage} : owned_pages[a] = <<>>
      /\ block_freelist = <<StructSize>> /\ recycled_block_structs = <<>> /\ stack = <<>>
  BY <1>4 DEF Init
<1>6. /\ OwnedBlocks(pageblock_storage) = {0} /\ \A a \in AllArenas \ {pageblock_storage} : OwnedBlocks(a) = {}
      /\ FreeBlocks = {StructSize} /\ Recycled = {}
      /\ IsInjective(block_freelist) /\ IsInjective(recycled_block_structs)
      /\ \A a \in AllArenas : IsInjective(owned_pages[a])
  BY <1>1, <1>5, SingleOnce, EmptyOnce DEF OwnedBlocks, FreeBlocks, Recycled
<1>7. ListsInv
  <2>1. ListOK(block_freelist, block)
    BY <1>3, <1>6 DEF ListOK, RunsOK, FreeBlocks
  <2>2. ASSUME NEW a \in AllArenas PROVE ListOK(owned_pages[a], block)
    BY <1>3, <1>6 DEF ListOK, RunsOK, OwnedBlocks
  <2> QED BY <1>6, <2>1, <2>2 DEF ListsInv
<1>8. pc = "idle" /\ ListedStructs = {0, StructSize} /\ Structs = {0, StructSize}
  <2>1. pc = "idle"
    BY DEF Init
  <2>2. \A x : x \in ListedStructs <=> x \in FreeBlocks \/ \E a \in AllArenas : x \in OwnedBlocks(a)
    BY DEF ListedStructs
  <2>3. ListedStructs = {0, StructSize}
    BY <1>4, <1>6, <2>2
  <2> QED BY <1>6, <2>1, <2>3 DEF Structs
<1>9. LinkedInv
  BY <1>1, <1>6, <1>8 DEF LinkedInv
<1>10. used[pageblock_storage] = 0 .. 2 * StructSize - 1 /\ \A a \in AllArenas \ {pageblock_storage} : used[a] = {}
  BY <1>4 DEF Init
<1>11. StructsInv
  <2>1. At(0) = 0 .. StructSize - 1 /\ At(StructSize) = StructSize .. 2 * StructSize - 1
    BY <1>1 DEF At
  <2>2. /\ At(0) \subseteq 0 .. 2 * StructSize - 1 /\ At(StructSize) \subseteq 0 .. 2 * StructSize - 1
        /\ At(0) \cap At(StructSize) = {}
    BY <1>1, <2>1
  <2> QED BY <1>8, <1>10, <2>2 DEF StructsInv
<1>12. /\ Held(pageblock_storage) = 0 .. PageSize - 1 /\ FreeBytes = PageSize .. MemEnd - 1
       /\ \A a \in AllArenas \ {pageblock_storage} : Held(a) = {}
  <2>1. \A a : FrameBytes(stack, a) = {}
    BY <1>5, FrameBytesIs
  <2>2. ASSUME NEW a, NEW x PROVE x \in Held(a) <=> \E s \in OwnedBlocks(a) : x \in Bytes(block[s])
    BY <2>1, HeldParts, BytesOfIs
  <2>3. \A x : x \in FreeBytes <=> \E s \in FreeBlocks : x \in Bytes(block[s])
    BY HeldParts, BytesOfIs
  <2>4. Held(pageblock_storage) = 0 .. PageSize - 1
    BY <1>3, <1>6, <2>2
  <2>5. FreeBytes = PageSize .. MemEnd - 1
    BY <1>3, <1>6, <2>3
  <2>6. \A a \in AllArenas \ {pageblock_storage} : Held(a) = {}
    BY <1>6, <2>2
  <2> QED BY <2>4, <2>5, <2>6
<1>13. PagesInv
  <2>1. UNION {Held(a) : a \in AllArenas} = 0 .. PageSize - 1
    <3>1. \A x : x \in UNION {Held(a) : a \in AllArenas} <=> \E a \in AllArenas : x \in Held(a)
      OBVIOUS
    <3> QED BY <1>4, <1>12, <3>1
  <2>2. (0 .. PageSize - 1) \cup (PageSize .. MemEnd - 1) = Addr /\ (0 .. PageSize - 1) \cap (PageSize .. MemEnd - 1) = {}
    BY <1>1 DEF Addr
  <2>3. writable = 0 .. PageSize - 1
    BY DEF Init
  <2> QED BY <1>12, <2>1, <2>2, <2>3 DEF PagesInv
<1>14. ASSUME NEW a \in AllArenas PROVE Exclusive(a)
  <2>1. CASE a = pageblock_storage
    <3>1. memory_avail[a] = 2 * StructSize /\ memory_limit[a] = PageSize
      BY <2>1 DEF Init
    <3>2. Left(a) = 2 * StructSize .. PageSize - 1
      BY <3>1 DEF Left
    <3>3. /\ 0 .. 2 * StructSize - 1 \subseteq 0 .. PageSize - 1
          /\ 2 * StructSize .. PageSize - 1 \subseteq 0 .. PageSize - 1
          /\ (0 .. 2 * StructSize - 1) \cap (2 * StructSize .. PageSize - 1) = {}
      BY <1>1
    <3> QED BY <1>10, <1>12, <2>1, <3>2, <3>3 DEF Exclusive
  <2>2. CASE a # pageblock_storage
    <3>1. memory_avail[a] = 0 /\ memory_limit[a] = 0
      BY <2>2 DEF Init
    <3>2. Left(a) = {}
      BY <3>1 DEF Left
    <3> QED BY <1>10, <2>2, <3>2 DEF Exclusive
  <2> QED BY <2>1, <2>2
<1>15. FramesInv /\ DeleteInv /\ PushInv
  BY <1>5, <1>8 DEF FramesInv, DeleteInv, PushInv
<1> QED BY <1>7, <1>9, <1>11, <1>13, <1>14, <1>15 DEF OwnInv, MemoryInv

(* Every step keeps the invariant. *)
LEMMA NextOwn == SafeInv /\ SafeInv' /\ FreelistNonEmpty /\ OwnInv /\ [Next]_vars => OwnInv'
<1> SUFFICES ASSUME SafeInv, SafeInv', FreelistNonEmpty, OwnInv, [Next]_vars PROVE OwnInv'
  OBVIOUS
<1>1. Arenas \subseteq AllArenas /\ pageblock_storage \in AllArenas /\ Sizes \subseteq Nat \ {0} /\ StructSize \in Nat \ {0}
  BY SizeAssumption DEF AllArenas
<1>2. ASSUME NEW size, TakePagesFails(size) PROVE OwnInv'
  <2>1. pc' \in {"exit", "assert"} /\ pc' # "assert"
    BY <1>2 DEF TakePagesFails, SafeInv, NoAssert
  <2> QED BY <1>2, <2>1, EndsOwn DEF TakePagesFails
<1>3. ASSUME NEW a \in Arenas, NEW size \in Sizes, PushTakesPages(a, size) PROVE OwnInv'
  BY <1>1, <1>3, TakePagesOwn DEF PushTakesPages
<1>4. CASE GrowStorage
  BY <1>1, <1>4, TakePagesOwn DEF GrowStorage
<1>5. CASE DeleteFails
  BY <1>5, EndsOwn DEF DeleteFails
<1>6. CASE UNCHANGED vars
  <2>1. UNCHANGED <<block, block_freelist, recycled_block_structs, owned_pages, memory_avail, memory_limit,
                    writable, stack, new_struct, pc, deleting, used>>
    BY <1>6 DEF vars
  <2>2. /\ ListOK(block_freelist, block)' /\ \A b \in AllArenas : ListOK(owned_pages[b], block)'
        /\ FramesInv' /\ FreeBytes' = FreeBytes /\ \A b \in AllArenas : Held(b)' = Held(b)
        /\ ListedStructs' = ListedStructs
    BY <2>1, KeptRuns DEF OwnInv
  <2>3. ListsInv' /\ LinkedInv'
    BY <2>1, <2>2 DEF OwnInv, ListsInv, LinkedInv, FreeBlocks, OwnedBlocks, Recycled
  <2>4. StructsInv'
    <3>1. Structs' = Structs
      BY <2>1, <2>2 DEF Structs, Recycled
    <3> QED BY <2>1, <3>1, SameStructs DEF OwnInv
  <2>5. PagesInv'
    BY <2>1, <2>2, SamePages DEF OwnInv
  <2>6. ASSUME NEW b \in AllArenas PROVE Exclusive(b)'
    <3>1. Exclusive(b)
      BY DEF OwnInv, MemoryInv
    <3> QED BY <2>1, <2>2, <3>1, SameMemory
  <2>7. DeleteInv' /\ PushInv'
    BY <2>1 DEF OwnInv, DeleteInv, PushInv
  <2> QED BY <2>2, <2>3, <2>4, <2>5, <2>6, <2>7 DEF OwnInv, MemoryInv
<1>7. CASE Call
  BY <1>2, <1>3, <1>7, PushFitsOwn, DeleteOwn DEF Call, PushFails
<1>8. CASE Step
  BY <1>2, <1>4, <1>5, <1>8, GetRecycledOwn, GetStoredOwn, LinkPagesOwn, DeleteBlockOwn, DeleteEndsOwn
     DEF Step, GrowStorageFails
<1>9. CASE Exited
  BY <1>6, <1>9 DEF Exited
<1> QED BY <1>6, <1>7, <1>8, <1>9 DEF Next

LEMMA Ownership == Spec => [](SafeInv /\ OwnInv)
<1>1. Spec => []SafeInv
  BY InitSafe, NextSafe, PTL DEF Spec
<1>2. Spec => []FreelistNonEmpty
  BY FreelistNeverEmpty
<1>3. Init => OwnInv
  BY InitOwn
<1>4. SafeInv /\ SafeInv' /\ FreelistNonEmpty /\ OwnInv /\ [Next]_vars => OwnInv'
  BY NextOwn
<1> QED BY <1>1, <1>2, <1>3, <1>4, PTL DEF Spec

-----------------------------------------------------------------------------
(* A PageBlock struct is on one list, once, whatever block_insert_and_coalesce
   merges and get_new_block_struct takes from the recycled ones. *)
THEOREM EachStructLinkedOnce == Spec => []StructsLinkedOnce
<1>1. OwnInv => StructsLinkedOnce
  BY DEF OwnInv, ListsInv, LinkedInv, ListOK, StructsLinkedOnce, Recycled
<1> QED BY <1>1, Ownership, PTL

(* arena_push's split, arena_delete and block_insert_and_coalesce's merges
   lose no page and give none out twice. *)
THEOREM NoPageLostOrShared == Spec => []PagesPartitioned
<1>1. SafeInv /\ OwnInv => PagesPartitioned
  <2> SUFFICES ASSUME SafeInv, OwnInv PROVE PagesPartitioned
    OBVIOUS
  <2>1. ASSUME NEW s \in ListedStructs, NEW t \in ListedStructs, s # t
        PROVE  Bytes(block[s]) \cap Bytes(block[t]) = {}
    <3>1. /\ \A u, v \in FreeBlocks : u # v => Bytes(block[u]) \cap Bytes(block[v]) = {}
          /\ \A a \in AllArenas : \A u, v \in OwnedBlocks(a) : u # v => Bytes(block[u]) \cap Bytes(block[v]) = {}
      BY DEF OwnInv, ListsInv, ListOK, RunsOK, Apart, FreeBlocks, OwnedBlocks
    <3>2. /\ \A u \in FreeBlocks : Bytes(block[u]) \subseteq FreeBytes
          /\ \A a \in AllArenas : \A u \in OwnedBlocks(a) : Bytes(block[u]) \subseteq Held(a)
      BY HeldParts, BytesOfIs
    <3>3. /\ \A a \in AllArenas : Held(a) \cap FreeBytes = {}
          /\ \A a, b \in AllArenas : a # b => Held(a) \cap Held(b) = {}
      BY DEF OwnInv, PagesInv
    <3>4. \A u \in ListedStructs : u \in FreeBlocks \/ \E a \in AllArenas : u \in OwnedBlocks(a)
      BY DEF ListedStructs
    <3>5. CASE s \in FreeBlocks /\ t \in FreeBlocks
      BY <2>1, <3>1, <3>5
    <3>6. ASSUME NEW a \in AllArenas, s \in OwnedBlocks(a), t \in FreeBlocks
          PROVE  Bytes(block[s]) \cap Bytes(block[t]) = {}
      BY <3>2, <3>3, <3>6
    <3>7. ASSUME NEW a \in AllArenas, s \in FreeBlocks, t \in OwnedBlocks(a)
          PROVE  Bytes(block[s]) \cap Bytes(block[t]) = {}
      BY <3>2, <3>3, <3>7
    <3>8. ASSUME NEW a \in AllArenas, NEW b \in AllArenas, s \in OwnedBlocks(a), t \in OwnedBlocks(b)
          PROVE  Bytes(block[s]) \cap Bytes(block[t]) = {}
      <4>1. CASE a = b
        BY <2>1, <3>1, <3>8, <4>1
      <4>2. CASE a # b
        BY <3>2, <3>3, <3>8, <4>2
      <4> QED BY <4>1, <4>2
    <3> QED BY <3>4, <3>5, <3>6, <3>7, <3>8
  <2> QED BY <2>1 DEF OwnInv, PagesInv, PagesPartitioned
<1> QED BY <1>1, Ownership, PTL

(* The pages mprotect leaves readable and writable are those of the arenas. *)
THEOREM OwnedMeansAccessible == Spec => []ProtectionMatchesOwnership
<1>1. OwnInv => ProtectionMatchesOwnership
  BY DEF OwnInv, PagesInv, ProtectionMatchesOwnership
<1> QED BY <1>1, Ownership, PTL

(* What arena_push returned stays its caller's until arena_delete. *)
THEOREM PushedMemoryIsExclusive == Spec => []MemoryIsExclusive
<1>1. OwnInv => MemoryIsExclusive
  BY DEF OwnInv, MemoryInv, Exclusive, Left, MemoryIsExclusive
<1> QED BY <1>1, Ownership, PTL

(* Following or editing a list of PageBlock structs never faults. *)
THEOREM ListsNeverFault == Spec => []StructsAccessible
<1>1. OwnInv => StructsAccessible
  <2> SUFFICES ASSUME OwnInv PROVE StructsAccessible
    OBVIOUS
  <2>1. used[pageblock_storage] \subseteq writable
    <3>1. pageblock_storage \in AllArenas
      BY DEF AllArenas
    <3>2. used[pageblock_storage] \subseteq Held(pageblock_storage)
      BY <3>1 DEF OwnInv, MemoryInv, Exclusive
    <3>3. Held(pageblock_storage) \subseteq UNION {Held(a) : a \in AllArenas}
      BY <3>1
    <3> QED BY <3>2, <3>3 DEF OwnInv, PagesInv
  <2>2. /\ \A s \in Structs : s .. s + StructSize - 1 \subseteq used[pageblock_storage] \cap writable
        /\ \A s, t \in Structs : s # t => (s .. s + StructSize - 1) \cap (t .. t + StructSize - 1) = {}
    BY <2>1 DEF OwnInv, StructsInv, At
  <2> QED BY <2>2 DEF StructsAccessible, Structs, Recycled
<1> QED BY <1>1, Ownership, PTL

-----------------------------------------------------------------------------
(* The allocator implements its contract: what the clients' arenas have     *)
(* handed out is held, what mprotect left accessible is accessible.         *)
Handed == [a \in Arenas |-> used[a]]

LEMMA ContractAccess ==
  ASSUME SafeInv, OwnInv
  PROVE  UNION {Handed[a] : a \in Arenas} \subseteq writable /\ writable \subseteq Addr
<1>1. ASSUME NEW a \in Arenas PROVE Handed[a] \subseteq writable
  <2>1. a \in AllArenas /\ Handed[a] = used[a]
    BY DEF AllArenas, Handed
  <2>2. used[a] \subseteq Held(a)
    BY <2>1 DEF OwnInv, MemoryInv, Exclusive
  <2>3. Held(a) \subseteq UNION {Held(b) : b \in AllArenas}
    BY <2>1
  <2> QED BY <2>1, <2>2, <2>3 DEF OwnInv, PagesInv
<1> QED BY <1>1 DEF SafeInv, TypeOK

(* A chunk of what an arena has left is nobody's. *)
LEMMA ContractPush ==
  ASSUME SafeInv, OwnInv, NEW a \in Arenas, NEW size \in Sizes,
         ~(pc \in {"delete", "exit"} /\ deleting = a),
         memory_avail[a] + size <= memory_limit[a],
         used' = [used EXCEPT ![a] = @ \cup (memory_avail[a] .. memory_avail[a] + size - 1)]
  PROVE  Contract!Push(a, size)
<1> DEFINE begin == memory_avail[a]
           chunk == begin .. begin + size - 1
<1>1. a \in AllArenas /\ size \in Nat \ {0} /\ begin \in Nat /\ memory_limit[a] \in 0 .. MemEnd /\ MemEnd \in Nat
  BY SizeAssumption, BoundaryRange DEF AllArenas, SafeInv, TypeOK
<1>2. begin \in Addr /\ chunk \subseteq Addr /\ chunk \subseteq Left(a)
  BY <1>1 DEF Addr, Left
<1> HIDE DEF begin
<1>3. ASSUME NEW b \in Arenas PROVE chunk \cap used[b] = {}
  <2>1. b \in AllArenas
    BY DEF AllArenas
  <2>2. Left(a) \subseteq Held(a) /\ used[a] \cap Left(a) = {} /\ used[b] \subseteq Held(b)
    BY <1>1, <2>1 DEF OwnInv, MemoryInv, Exclusive
  <2>3. a # b => Held(a) \cap Held(b) = {}
    BY <1>1, <2>1 DEF OwnInv, PagesInv
  <2> QED BY <1>2, <2>2, <2>3
<1>4. chunk \subseteq Addr \ UNION {Handed[b] : b \in Arenas}
  BY <1>2, <1>3 DEF Handed
<1>5. Handed' = [Handed EXCEPT ![a] = @ \cup chunk]
  <2>1. used' = [used EXCEPT ![a] = @ \cup chunk]
    BY DEF begin
  <2> HIDE DEF chunk
  <2> QED BY <1>1, <2>1 DEF Handed, SafeInv, TypeOK, AllArenas
<1> QED BY <1>2, <1>4, <1>5 DEF Contract!Push, Contract!AllHeld, Handed

LEMMA ContractStep ==
  ASSUME SafeInv, OwnInv, SafeInv', OwnInv', [Next]_vars
  PROVE  [Contract!Next]_(Contract!vars)
<1>1. (UNION {Handed[a] : a \in Arenas} \subseteq writable)' /\ (writable \subseteq Addr)'
  <2>1. (SafeInv /\ OwnInv => UNION {Handed[a] : a \in Arenas} \subseteq writable /\ writable \subseteq Addr)'
    BY ContractAccess, PTL
  <2> QED BY <2>1
<1>2. ASSUME \/ Handed' = Handed
             \/ \E a \in Arenas : Handed' = [Handed EXCEPT ![a] = {}]
             \/ \E a \in Arenas, size \in Sizes : Contract!Push(a, size)
      PROVE  [Contract!Next]_(Contract!vars)
  <2>1. CASE Handed' = Handed
    BY <1>1, <2>1 DEF Contract!Next, Handed
  <2>2. CASE \E a \in Arenas : Handed' = [Handed EXCEPT ![a] = {}]
    BY <1>1, <2>2 DEF Contract!Next, Contract!Delete, Handed
  <2>3. CASE \E a \in Arenas, size \in Sizes : Contract!Push(a, size)
    BY <1>1, <2>3 DEF Contract!Next, Handed
  <2> QED BY <1>2, <2>1, <2>2, <2>3
<1>3. ASSUME used' = used PROVE Handed' = Handed
  BY <1>3 DEF Handed
<1>4. ASSUME NEW S, used' = [used EXCEPT ![pageblock_storage] = S] PROVE Handed' = Handed
  BY <1>4, StorageAssumption DEF Handed, SafeInv, TypeOK, AllArenas
<1>5. ASSUME NEW a \in Arenas, NEW size \in Sizes, PushFits(a, size) PROVE Contract!Push(a, size)
  <2>1. memory_avail[a] + size <= memory_limit[a]
    <3>1. memory_avail[a] + size < memory_limit[a] /\ memory_avail[a] \in Nat /\ memory_limit[a] \in Nat /\ size \in Nat
      BY <1>5, SizeAssumption, BoundaryRange DEF PushFits, HasRoom, SafeInv, TypeOK, AllArenas
    <3> QED BY <3>1
  <2> QED BY <1>5, <2>1, ContractPush DEF PushFits
<1>6. ASSUME NEW a \in Arenas, Delete(a) PROVE Handed' = [Handed EXCEPT ![a] = {}]
  BY <1>6 DEF Delete, Handed, SafeInv, TypeOK, AllArenas
<1>7. ASSUME LinkPages
      PROVE  Handed' = Handed \/ \E a \in Arenas, size \in Sizes : Contract!Push(a, size)
  <2> DEFINE f == Last(stack)
             m == memory_avail[f.arena]
  <2>1. /\ pc = "link" /\ Len(stack) \in {1, 2} /\ stack[1].arena \in Arenas
        /\ Len(stack) = 2 => stack[2].arena = pageblock_storage
        /\ used' = [used EXCEPT ![f.arena] = @ \cup (m .. m + f.size - 1)]
    BY <1>7 DEF LinkPages, SafeInv, StackInv, OuterPush, InnerPush
  <2>2. CASE Len(stack) = 2
    <3>1. f.arena = pageblock_storage
      BY <2>1, <2>2 DEF Last
    <3> QED BY <1>4, <2>1, <3>1
  <2>3. CASE Len(stack) = 1
    <3>1. f = stack[1]
      BY <2>3 DEF Last
    <3>2. f.arena \in Arenas /\ f.size \in Sizes /\ memory_avail[f.arena] + f.size <= memory_limit[f.arena]
      BY <2>1, <3>1 DEF OwnInv, PushInv
    <3>3. PICK b \in Arenas, size \in Sizes : b = f.arena /\ size = f.size
      BY <3>2
    <3>4. /\ used' = [used EXCEPT ![b] = @ \cup (memory_avail[b] .. memory_avail[b] + size - 1)]
          /\ memory_avail[b] + size <= memory_limit[b] /\ ~(pc \in {"delete", "exit"} /\ deleting = b)
      BY <2>1, <3>2, <3>3
    <3>5. Contract!Push(b, size)
      BY <3>4, ContractPush
    <3> QED BY <3>5
  <2> QED BY <2>1, <2>2, <2>3
<1>8. ASSUME GetStoredStruct PROVE Handed' = Handed
  <2>1. used' = [used EXCEPT ![pageblock_storage] =
                   used[pageblock_storage] \cup (new_struct' .. new_struct' + StructSize - 1)]
    BY <1>8 DEF GetStoredStruct
  <2> QED BY <1>4, <2>1
<1>9. CASE Call
  <2>1. ASSUME NEW a \in Arenas, NEW size \in Sizes, PushTakesPages(a, size) \/ PushFails(a, size)
        PROVE  Handed' = Handed
    BY <1>3, <2>1 DEF PushTakesPages, PushFails, TakePages, CutRun, TakePagesFails
  <2> QED BY <1>2, <1>5, <1>6, <1>9, <2>1 DEF Call
<1>10. CASE Step
  <2>1. ASSUME GetRecycledStruct \/ GrowStorage \/ GrowStorageFails \/ DeleteBlock \/ DeleteEnds \/ DeleteFails
        PROVE  Handed' = Handed
    BY <1>3, <2>1 DEF GetRecycledStruct, GrowStorage, GrowStorageFails, TakePages, CutRun, TakePagesFails,
                      DeleteBlock, DeleteEnds, DeleteFails
  <2> QED BY <1>2, <1>7, <1>8, <1>10, <2>1 DEF Step
<1>11. CASE UNCHANGED vars \/ Exited
  BY <1>2, <1>3, <1>11 DEF vars, Exited
<1> QED BY <1>9, <1>10, <1>11 DEF Next

(* Clients of arena.h may rely on the contract alone: arena_push hands out
   bytes nobody holds, arena_delete takes back one arena's, and what is held
   can be read and written, whatever free list and structs go through. *)
THEOREM ContractIsKept == Spec => KeepsContract
<1>1. Init => Contract!Init
  <2> SUFFICES ASSUME Init PROVE Contract!Init
    OBVIOUS
  <2>1. \A a \in Arenas : used[a] = {}
    BY StorageAssumption DEF Init, AllArenas
  <2>2. writable \subseteq Addr
    BY InitSafe DEF SafeInv, TypeOK
  <2> QED BY <2>1, <2>2 DEF Contract!Init
<1>2. (SafeInv /\ OwnInv) /\ (SafeInv /\ OwnInv)' /\ [Next]_vars => [Contract!Next]_(Contract!vars)
  BY ContractStep
<1> QED BY <1>1, <1>2, Ownership, PTL DEF Spec, KeepsContract, Contract!Spec
=============================================================================
