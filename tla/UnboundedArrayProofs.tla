------------------------ MODULE UnboundedArrayProofs -----------------------
(***************************************************************************)
(* Proofs about the unbounded arrays: the segments are disjoint and large  *)
(* enough, and the arrays are the sequences of SequenceStore.              *)
(***************************************************************************)
EXTENDS UnboundedArray, FiniteSetTheorems, WellFoundedInduction, TLAPS

-----------------------------------------------------------------------------
(* Arithmetic. *)
LEMMA LeastFailure ==
  ASSUME NEW T \in SUBSET Nat, T # {}
  PROVE  \E n \in T : n - 1 \notin T
<1>1. PICK n \in T : \A y \in T : <<y, n>> \notin OpToRel(<, Nat)
  BY NatLessThanWellFounded, WFMin
<1>2. \A y \in T : ~(y < n)
  BY <1>1 DEF OpToRel
<1> QED BY <1>2

(* The exponents the assumption on powers is about. *)
Logs == 0 .. MemSize + SegmentSlots + 1

LEMMA PowerZero == 0 \in Logs /\ \A k \in Logs : k = 0 => 2^k = 1
BY PowerFact, ArrayAssumption DEF Logs

LEMMA PowerNext == \A k \in Logs : k # 0 => k - 1 \in Logs /\ 2^k = 2 * 2^(k - 1)
BY PowerFact, ArrayAssumption DEF Logs

LEMMA PowerIs == \A k \in Logs : 2^k \in Nat \ {0}
<1> DEFINE T == {k \in Logs : 2^k \notin Nat \ {0}}
<1>1. ASSUME NEW n \in T, n - 1 \notin T PROVE FALSE
  <2>1. n # 0 /\ n \in Logs
    BY PowerZero
  <2>2. n - 1 \in Logs /\ 2^n = 2 * 2^(n - 1)
    BY <2>1, PowerNext
  <2>3. 2^(n - 1) \in Nat \ {0}
    BY <1>1, <2>2
  <2> QED BY <2>2, <2>3
<1>2. T \in SUBSET Nat
  BY ArrayAssumption DEF Logs
<1> HIDE DEF T
<1>3. T = {}
  BY <1>1, <1>2, LeastFailure
<1> QED BY <1>3 DEF T

LEMMA PowerGrows ==
  ASSUME NEW k \in Logs, NEW l \in Logs, k < l
  PROVE  2^k < 2^l
<1> DEFINE T == {m \in Logs : k < m /\ ~(2^k < 2^m)}
<1>0. Logs \subseteq Nat
  BY ArrayAssumption DEF Logs
<1>1. ASSUME NEW n \in T, n - 1 \notin T PROVE FALSE
  <2>1. n \in Logs /\ k < n /\ ~(2^k < 2^n) /\ n # 0 /\ n \in Nat /\ k \in Nat
    BY <1>0
  <2>2. n - 1 \in Logs /\ 2^n = 2 * 2^(n - 1) /\ 2^(n - 1) \in Nat \ {0} /\ 2^k \in Nat \ {0}
    BY <2>1, PowerNext, PowerIs
  <2>3. n - 1 = k \/ 2^k < 2^(n - 1)
    BY <1>1, <2>1, <2>2
  <2> QED BY <2>1, <2>2, <2>3
<1>2. T \in SUBSET Nat
  BY <1>0
<1> HIDE DEF T
<1>3. T = {}
  BY <1>1, <1>2, LeastFailure
<1> QED BY <1>3 DEF T

LEMMA PowerAbove == \A k \in Logs : k < 2^k
<1> DEFINE T == {k \in Logs : ~(k < 2^k)}
<1>0. Logs \subseteq Nat
  BY ArrayAssumption DEF Logs
<1>1. ASSUME NEW n \in T, n - 1 \notin T PROVE FALSE
  <2>1. n \in Logs /\ ~(n < 2^n) /\ n \in Nat
    BY <1>0
  <2>2. n # 0
    BY <2>1, PowerZero
  <2>3. n - 1 \in Logs /\ 2^n = 2 * 2^(n - 1) /\ 2^(n - 1) \in Nat \ {0}
    BY <2>1, <2>2, PowerNext, PowerIs
  <2>4. n - 1 < 2^(n - 1)
    BY <1>1, <2>3
  <2> QED BY <2>1, <2>2, <2>3, <2>4
<1>2. T \in SUBSET Nat
  BY <1>0
<1> HIDE DEF T
<1>3. T = {}
  BY <1>1, <1>2, LeastFailure
<1> QED BY <1>3 DEF T

(* The logarithm exists and is the only one. *)
LEMMA FloorIs ==
  ASSUME NEW x \in 1 .. MemSize + SegmentSlots
  PROVE  /\ floor_log2(x) \in 0 .. x
         /\ 2^floor_log2(x) <= x /\ x < 2^(floor_log2(x) + 1)
<1> DEFINE T == {k \in 0 .. x : x < 2^k}
<1>0. 0 .. x \subseteq Logs /\ MemSize \in Nat /\ SegmentSlots \in Nat
  BY ArrayAssumption DEF Logs
<1>1. x \in T /\ T \in SUBSET Nat
  BY <1>0, PowerAbove
<1>2. PICK n \in T : n - 1 \notin T
  BY <1>1, LeastFailure
<1>3. n \in 0 .. x /\ x < 2^n
  BY <1>2
<1>4. n # 0
  BY <1>0, <1>3, PowerZero
<1>5. n - 1 \in 0 .. x /\ ~(x < 2^(n - 1))
  BY <1>2, <1>3, <1>4
<1>6. 2^(n - 1) \in Nat
  BY <1>0, <1>5, PowerIs
<1>7. 2^(n - 1) <= x /\ x < 2^((n - 1) + 1)
  <2>1. (n - 1) + 1 = n
    BY <1>3
  <2> QED BY <1>3, <1>5, <1>6, <2>1
<1>8. \E k \in 0 .. x : 2^k <= x /\ x < 2^(k + 1)
  BY <1>5, <1>7
<1> QED BY <1>8 DEF floor_log2

LEMMA FloorUnique ==
  ASSUME NEW x \in 1 .. MemSize + SegmentSlots, NEW k \in Logs, 2^k <= x, x < 2 * 2^k
  PROVE  floor_log2(x) = k
<1>1. PICK n : n = floor_log2(x)
  OBVIOUS
<1>2. n \in 0 .. x /\ 2^n <= x /\ x < 2^(n + 1)
  BY <1>1, FloorIs
<1>3. n \in Logs /\ n + 1 \in Logs /\ n \in Nat /\ k \in Nat
  BY <1>2, ArrayAssumption DEF Logs
<1>4. 2^k \in Nat /\ 2^n \in Nat /\ 2^(n + 1) = 2 * 2^n
  <2>1. (n + 1) - 1 = n /\ n + 1 # 0
    BY <1>3
  <2> QED BY <1>3, <2>1, PowerIs, PowerNext
<1>5. ~(n < k)
  <2> SUFFICES ASSUME n < k PROVE FALSE
    OBVIOUS
  <2>1. n + 1 = k \/ 2^(n + 1) < 2^k
    BY <1>3, PowerGrows
  <2> QED BY <1>2, <1>4, <2>1
<1>6. ~(k < n)
  <2> SUFFICES ASSUME k < n PROVE FALSE
    OBVIOUS
  <2>1. k + 1 \in Logs /\ 2^(k + 1) = 2 * 2^k
    <3>1. k + 1 \in Logs /\ (k + 1) - 1 = k /\ k + 1 # 0
      BY <1>3, ArrayAssumption DEF Logs
    <3> QED BY <3>1, PowerNext
  <2>2. k + 1 = n \/ 2^(k + 1) < 2^n
    BY <1>3, <2>1, PowerGrows
  <2> QED BY <1>2, <1>4, <2>1, <2>2
<1> QED BY <1>1, <1>3, <1>5, <1>6

LEMMA Times ==
  ASSUME NEW m \in Nat, NEW n \in Nat, NEW c \in Nat, m < n
  PROVE  m * c + c <= n * c /\ m * c \in Nat /\ n * c \in Nat
<1>1. PICK d \in Nat : n = m + 1 + d
  <2>1. n - m - 1 \in Nat /\ n = m + 1 + (n - m - 1)
    OBVIOUS
  <2> QED BY <2>1
<1>2. n * c = m * c + c + d * c /\ d * c \in Nat /\ m * c \in Nat /\ n * c \in Nat
  BY <1>1
<1> QED BY <1>2
-----------------------------------------------------------------------------
(* The segments.  The k-th segment of an array is in use when the capacity  *)
(* counts it; the capacity is 2^j - 1 when the first j segments are.        *)
Slots == 0 .. SegmentSlots - 1
Uses(cap, a) == {k \in Slots : 2^k <= cap[a]}
SegmentAt(table, a, k) == table[a][k] .. table[a][k] + 2^k * ElemSize[a] - 1
BytesOf(table, cap, a) == UNION {SegmentAt(table, a, k) : k \in Uses(cap, a)}
Tables == [Arrays -> [Slots -> {0} \cup Addr]]
Counts == [Arrays -> Nat]

Capacities(cap) == \A a \in Arrays : \E j \in 0 .. SegmentSlots : cap[a] = 2^j - 1

(* Segments in use lie in what the arena has handed out, *)
SegmentsHeld(table, cap, mine) ==
  \A a \in Arrays : \A k \in Uses(cap, a) : table[a][k] \in Addr /\ SegmentAt(table, a, k) \subseteq mine

(* do not overlap, *)
SegmentsApart(table, cap) ==
  \A a, b \in Arrays : \A k \in Uses(cap, a), l \in Uses(cap, b) :
    a # b \/ k # l => SegmentAt(table, a, k) \cap SegmentAt(table, b, l) = {}

(* and have room for as many elements as the capacity says. *)
SegmentsSized(table, cap) ==
  \A a \in Arrays : Cardinality(BytesOf(table, cap, a)) = cap[a] * ElemSize[a]

TableFits(table, cap, mine) ==
  /\ table \in Tables /\ cap \in Counts /\ mine \subseteq Addr
  /\ Capacities(cap) /\ SegmentsHeld(table, cap, mine) /\ SegmentsApart(table, cap)
  /\ SegmentsSized(table, cap)

LEMMA SizesAre ==
  /\ MemSize \in Nat /\ SegmentSlots \in Nat \ {0} /\ Slots \subseteq Logs /\ 0 .. SegmentSlots \subseteq Logs
  /\ Slots \subseteq Nat /\ Logs \subseteq Nat
  /\ IsFiniteSet(Addr) /\ Cardinality(Addr) = MemSize
  /\ \A a \in Arrays : ElemSize[a] \in Nat \ {0}
<1>1. MemSize \in Nat /\ SegmentSlots \in Nat \ {0} /\ \A a \in Arrays : ElemSize[a] \in Nat \ {0}
  BY ArrayAssumption
<1>2. IsFiniteSet(Addr) /\ Cardinality(Addr) = MemSize
  BY <1>1, FS_Interval DEF Addr
<1> QED BY <1>1, <1>2 DEF Slots, Logs

(* No capacity exceeds the memory. *)
LEMMA CapacityBound ==
  ASSUME NEW table, NEW cap, NEW mine, TableFits(table, cap, mine), NEW a \in Arrays
  PROVE  cap[a] <= MemSize /\ cap[a] \in Nat
<1>1. BytesOf(table, cap, a) \subseteq Addr
  BY DEF TableFits, BytesOf, SegmentsHeld
<1>2. Cardinality(BytesOf(table, cap, a)) <= MemSize
  BY <1>1, SizesAre, FS_Subset
<1>3. cap[a] \in Nat /\ ElemSize[a] \in Nat \ {0} /\ cap[a] * ElemSize[a] <= MemSize
  BY <1>2, SizesAre DEF TableFits, SegmentsSized, Counts
<1>4. cap[a] <= cap[a] * ElemSize[a]
  <2>1. PICK c \in Nat, z \in Nat \ {0} : c = cap[a] /\ z = ElemSize[a]
    BY <1>3
  <2>2. PICK y \in Nat : z = y + 1
    <3>1. z - 1 \in Nat /\ z = (z - 1) + 1
      OBVIOUS
    <3> QED BY <3>1
  <2>3. c * z = c * y + c /\ c * y \in Nat
    BY <2>2
  <2> QED BY <2>1, <2>3
<1> QED BY <1>3, <1>4, SizesAre

(* An index within the capacity belongs to a segment in use, and its slot   *)
(* to that segment.                                                         *)
LEMMA SlotIn ==
  ASSUME NEW table, NEW cap, NEW mine, TableFits(table, cap, mine), NEW a \in Arrays,
         NEW i \in Nat, i < cap[a]
  PROVE  /\ floor_log2(i + 1) \in Uses(cap, a)
         /\ elem_offset(i) \in Nat /\ elem_offset(i) < 2^floor_log2(i + 1)
         /\ i = 2^floor_log2(i + 1) - 1 + elem_offset(i)
         /\ elem_slot(table, a, i) \in Addr
         /\ elem_slot(table, a, i) = table[a][floor_log2(i + 1)] + elem_offset(i) * ElemSize[a]
         /\ elem_slot(table, a, i) .. elem_slot(table, a, i) + ElemSize[a] - 1
              \subseteq SegmentAt(table, a, floor_log2(i + 1))
<1>1. PICK k, o : k = floor_log2(i + 1) /\ o = elem_offset(i)
  OBVIOUS
<1>2. cap[a] \in Nat /\ cap[a] <= MemSize
  BY CapacityBound
<1>3. i + 1 \in 1 .. MemSize + SegmentSlots
  BY <1>2, SizesAre
<1>4. k \in 0 .. i + 1 /\ 2^k <= i + 1 /\ i + 1 < 2^(k + 1)
  BY <1>1, <1>3, FloorIs
<1>5. k \in Logs /\ k + 1 \in Logs /\ 2^k \in Nat \ {0} /\ 2^(k + 1) = 2 * 2^k
  <2>1. k \in Logs /\ k + 1 \in Logs /\ (k + 1) - 1 = k /\ k + 1 # 0
    BY <1>3, <1>4, SizesAre DEF Logs
  <2> QED BY <2>1, PowerIs, PowerNext
<1>6. o = i - (2^k - 1) /\ o \in Nat /\ o < 2^k
  BY <1>1, <1>4, <1>5 DEF elem_offset
<1>7. k \in Uses(cap, a)
  <2>1. PICK j \in 0 .. SegmentSlots : cap[a] = 2^j - 1
    BY DEF TableFits, Capacities
  <2>2. j \in Logs /\ 2^j \in Nat \ {0} /\ j \in Nat /\ k \in Nat
    BY <1>5, SizesAre, PowerIs
  <2>3. ~(j <= k)
    <3> SUFFICES ASSUME j <= k PROVE FALSE
      OBVIOUS
    <3>1. j = k \/ 2^j < 2^k
      BY <1>5, <2>2, PowerGrows
    <3> QED BY <1>4, <1>5, <2>1, <2>2, <3>1
  <2>4. k \in Slots
    BY <2>2, <2>3, SizesAre DEF Slots
  <2> QED BY <1>2, <1>4, <1>5, <2>4 DEF Uses
<1>8. PICK s, z : s = table[a][k] /\ z = ElemSize[a]
  OBVIOUS
<1>9. s \in Addr /\ s \in Nat /\ z \in Nat \ {0}
  BY <1>7, <1>8, SizesAre DEF TableFits, SegmentsHeld, Addr
<1>10. o * z + z <= 2^k * z /\ o * z \in Nat /\ 2^k * z \in Nat
  BY <1>5, <1>6, <1>9, Times
<1>11. elem_slot(table, a, i) = s + o * z
  BY <1>1, <1>8 DEF elem_slot
<1>12. SegmentAt(table, a, k) = s .. s + 2^k * z - 1 /\ SegmentAt(table, a, k) \subseteq Addr
  BY <1>7, <1>8 DEF SegmentAt, TableFits, SegmentsHeld
<1>13. s + o * z .. s + o * z + z - 1 \subseteq s .. s + 2^k * z - 1
  <2>1. PICK m, n : m = o * z /\ n = 2^k * z
    OBVIOUS
  <2>2. m + z <= n /\ m \in Nat /\ n \in Nat
    BY <1>10, <2>1
  <2>3. s + m .. s + m + z - 1 \subseteq s .. s + n - 1
    BY <1>9, <2>2
  <2> QED BY <2>1, <2>3
<1>14. s + o * z \in s + o * z .. s + o * z + z - 1
  BY <1>9, <1>10
<1>15. s + o * z \in Addr
  BY <1>12, <1>13, <1>14
<1>16. i = 2^k - 1 + o
  BY <1>5, <1>6
<1> QED BY <1>1, <1>6, <1>7, <1>8, <1>11, <1>12, <1>13, <1>15, <1>16

SlotOf(table, a, i) == elem_slot(table, a, i) .. elem_slot(table, a, i) + ElemSize[a] - 1

(* Two elements do not share a byte. *)
LEMMA SlotsApart ==
  ASSUME NEW table, NEW cap, NEW mine, TableFits(table, cap, mine),
         NEW a \in Arrays, NEW i \in Nat, i < cap[a],
         NEW b \in Arrays, NEW h \in Nat, h < cap[b],
         a # b \/ i # h
  PROVE  SlotOf(table, a, i) \cap SlotOf(table, b, h) = {}
<1>1. PICK k, l, o, p : /\ k = floor_log2(i + 1) /\ l = floor_log2(h + 1)
                        /\ o = elem_offset(i) /\ p = elem_offset(h)
  OBVIOUS
<1>2. /\ k \in Uses(cap, a) /\ o \in Nat /\ i = 2^k - 1 + o
      /\ elem_slot(table, a, i) = table[a][k] + o * ElemSize[a]
      /\ SlotOf(table, a, i) \subseteq SegmentAt(table, a, k)
  BY <1>1, SlotIn DEF SlotOf
<1>3. /\ l \in Uses(cap, b) /\ p \in Nat /\ h = 2^l - 1 + p
      /\ elem_slot(table, b, h) = table[b][l] + p * ElemSize[b]
      /\ SlotOf(table, b, h) \subseteq SegmentAt(table, b, l)
  BY <1>1, SlotIn DEF SlotOf
<1>4. CASE a # b \/ k # l
  <2>1. SegmentAt(table, a, k) \cap SegmentAt(table, b, l) = {}
    BY <1>2, <1>3, <1>4 DEF TableFits, SegmentsApart
  <2> QED BY <1>2, <1>3, <2>1
<1>5. CASE a = b /\ k = l
  <2>1. PICK s, z : s = table[a][k] /\ z = ElemSize[a]
    OBVIOUS
  <2>2. s \in Nat /\ z \in Nat \ {0} /\ 2^k \in Nat
    BY <1>2, <2>1, SizesAre, PowerIs DEF TableFits, SegmentsHeld, Addr, Uses
  <2>3. o # p
    BY <1>2, <1>3, <1>5, <2>2
  <2>4. (o < p => o * z + z <= p * z) /\ (p < o => p * z + z <= o * z) /\ o * z \in Nat /\ p * z \in Nat
    BY <1>2, <1>3, <2>2, Times
  <2>5. SlotOf(table, a, i) = s + o * z .. s + o * z + z - 1 /\ SlotOf(table, b, h) = s + p * z .. s + p * z + z - 1
    BY <1>2, <1>3, <1>5, <2>1 DEF SlotOf
  <2>6. PICK m, n : m = o * z /\ n = p * z
    OBVIOUS
  <2>7. m \in Nat /\ n \in Nat /\ (m + z <= n \/ n + z <= m)
    BY <1>2, <1>3, <2>3, <2>4, <2>6
  <2>8. (s + m .. s + m + z - 1) \cap (s + n .. s + n + z - 1) = {}
    BY <2>2, <2>7
  <2> QED BY <2>5, <2>6, <2>8
<1> QED BY <1>4, <1>5
(* A segment pushed for an array that is full is the next one, within the   *)
(* table, and doubles the capacity.                                         *)
(* A full array gets the chunk of bytes for its next segment. *)
GetsChunk(table, cap, mine, a, k, begin, chunk) ==
  /\ TableFits(table, cap, mine) /\ a \in Arrays /\ k = floor_log2(cap[a] + 1)
  /\ begin \in Addr /\ chunk = begin .. begin + 2^k * ElemSize[a] - 1 /\ chunk \subseteq Addr \ mine

LEMMA GrownFits ==
  ASSUME NEW table, NEW cap, NEW mine, NEW a, NEW k, NEW begin, NEW chunk,
         GetsChunk(table, cap, mine, a, k, begin, chunk)
  PROVE  /\ k \in Slots /\ cap[a] + 1 = 2^k
         /\ TableFits([table EXCEPT ![a][k] = begin], [cap EXCEPT ![a] = @ + 2^k], mine \cup chunk)
<1> USE DEF GetsChunk
<1> DEFINE T == [table EXCEPT ![a][k] = begin]
           C == [cap EXCEPT ![a] = @ + 2^k]
<1>1. k \in Logs /\ k + 1 \in Logs /\ k \in 0 .. SegmentSlots /\ cap[a] = 2^k - 1 /\ 2^k \in Nat \ {0} /\ 2^(k + 1) = 2 * 2^k
  <2>1. PICK j \in 0 .. SegmentSlots : cap[a] = 2^j - 1
    BY DEF TableFits, Capacities
  <2>2. j \in Logs /\ 2^j \in Nat \ {0} /\ cap[a] <= MemSize
    BY SizesAre, PowerIs, CapacityBound
  <2>3. cap[a] + 1 \in 1 .. MemSize + SegmentSlots /\ cap[a] + 1 = 2^j
    BY <2>1, <2>2, SizesAre
  <2>4. k = j
    BY <2>2, <2>3, FloorUnique
  <2>5. k + 1 \in Logs /\ (k + 1) - 1 = k /\ k + 1 # 0
    BY <2>1, <2>4, SizesAre DEF Logs
  <2> QED BY <2>1, <2>2, <2>4, <2>5, PowerNext
<1>2. PICK n, z : n = 2^k /\ z = ElemSize[a]
  OBVIOUS
<1>3. n \in Nat \ {0} /\ z \in Nat \ {0} /\ n * z \in Nat \ {0} /\ cap[a] = n - 1 /\ begin \in Nat
  <2>1. n \in Nat \ {0} /\ z \in Nat \ {0} /\ cap[a] = n - 1
    BY <1>1, <1>2, SizesAre
  <2>2. n * z # 0 /\ n * z \in Nat
    BY <2>1, Times
  <2> QED BY <2>1, <2>2, SizesAre DEF Addr
<1>4. IsFiniteSet(chunk) /\ Cardinality(chunk) = n * z
  <2>1. PICK s \in Nat \ {0} : s = n * z
    BY <1>3
  <2>2. PICK q : q = begin + s - 1
    OBVIOUS
  <2>3. begin \in Int /\ q \in Int /\ ~(begin > q) /\ q - begin + 1 = s
    BY <1>3, <2>1, <2>2
  <2>4. IsFiniteSet(begin .. q) /\ Cardinality(begin .. q) = s
    <3>1. IsFiniteSet(begin .. q) /\ Cardinality(begin .. q) = IF begin > q THEN 0 ELSE q - begin + 1
      BY <2>3, FS_Interval, Zenon
    <3> QED BY <2>3, <3>1
  <2> QED BY <1>2, <2>1, <2>2, <2>4
<1> DEFINE B == BytesOf(table, cap, a)
<1>5. B \subseteq mine /\ IsFiniteSet(B) /\ Cardinality(B) = (n - 1) * z
  <2>1. B \subseteq mine
    BY DEF BytesOf, TableFits, SegmentsHeld
  <2>2. IsFiniteSet(B)
    BY <2>1, SizesAre, FS_Subset DEF TableFits
  <2> QED BY <1>2, <1>3, <2>1, <2>2 DEF TableFits, SegmentsSized
<1>6. Cardinality(B \cup chunk) = (n - 1) * z + n * z /\ IsFiniteSet(B \cup chunk) /\ (n - 1) * z \in Nat
  <2>1. B \cap chunk = {}
    BY <1>5
  <2>2. Cardinality(B \cap chunk) = 0
    BY <2>1, FS_EmptySet
  <2>3. IsFiniteSet(B \cup chunk) /\ Cardinality(B \cup chunk) = Cardinality(B) + Cardinality(chunk) - Cardinality(B \cap chunk)
    BY <1>4, <1>5, FS_Union
  <2>4. (n - 1) * z \in Nat
    BY <1>3
  <2> HIDE DEF B
  <2> QED BY <1>3, <1>4, <1>5, <2>2, <2>3, <2>4
<1>7. (n - 1) * z + n * z = (2 * n - 1) * z
  BY <1>3
<1>8. 2 * n - 1 <= MemSize
  <2>1. Cardinality(B \cup chunk) <= MemSize
    <3>1. B \cup chunk \subseteq Addr
      BY <1>5 DEF TableFits
    <3> QED BY <3>1, SizesAre, FS_Subset
  <2>2. (2 * n - 1) * z <= MemSize
    BY <1>6, <1>7, <2>1
  <2>3. PICK m \in Nat, y \in Nat : m = 2 * n - 1 /\ z = y + 1
    <3>1. 2 * n - 1 \in Nat /\ z - 1 \in Nat /\ z = (z - 1) + 1
      BY <1>3
    <3> QED BY <3>1
  <2>4. m * z = m * y + m /\ m * y \in Nat
    BY <2>3
  <2> QED BY <2>2, <2>3, <2>4, SizesAre
<1>9. k \in Slots
  <2>1. MemSize < 2^SegmentSlots /\ SegmentSlots \in Logs /\ 2^SegmentSlots \in Nat
    BY TableAssumption, SizesAre, PowerIs DEF Logs
  <2>2. ~(SegmentSlots < k + 1)
    <3> SUFFICES ASSUME SegmentSlots < k + 1 PROVE FALSE
      OBVIOUS
    <3>1. 2^SegmentSlots < 2^(k + 1)
      BY <1>1, <2>1, PowerGrows
    <3>2. k = SegmentSlots
      BY <1>1, SizesAre
    <3>3. 2^SegmentSlots = n
      BY <1>2, <3>2, Zenon
    <3> QED BY <1>3, <1>8, <2>1, <3>3, SizesAre
  <2> QED BY <1>1, <2>2, SizesAre DEF Slots
<1>10. /\ T \in Tables /\ C \in Counts /\ mine \cup chunk \subseteq Addr
       /\ C[a] = 2 * n - 1 /\ \A b \in Arrays : b # a => C[b] = cap[b]
       /\ T[a][k] = begin /\ \A b \in Arrays : \A l \in Slots : b # a \/ l # k => T[b][l] = table[b][l]
  <2>1. table \in [Arrays -> [Slots -> {0} \cup Addr]] /\ cap \in [Arrays -> Nat] /\ mine \subseteq Addr
    BY DEF TableFits, Tables, Counts
  <2>2. C = [cap EXCEPT ![a] = @ + n] /\ cap[a] + n = 2 * n - 1
    BY <1>2, <1>3
  <2> HIDE DEF C
  <2>3. C \in Counts /\ C[a] = 2 * n - 1 /\ \A b \in Arrays : b # a => C[b] = cap[b]
    BY <1>3, <2>1, <2>2 DEF Counts
  <2>4. T \in Tables /\ T[a][k] = begin
    BY <1>9, <2>1 DEF Tables
  <2>5. \A b \in Arrays : \A l \in Slots : b # a \/ l # k => T[b][l] = table[b][l]
    BY <1>9, <2>1
  <2>6. mine \cup chunk \subseteq Addr
    BY <2>1
  <2> QED BY <2>3, <2>4, <2>5, <2>6
<1> HIDE DEF T, C
<1>11. /\ Uses(C, a) = Uses(cap, a) \cup {k} /\ k \notin Uses(cap, a)
       /\ \A b \in Arrays : b # a => Uses(C, b) = Uses(cap, b)
  <2>1. ASSUME NEW l \in Slots PROVE (2^l <= C[a] <=> l <= k) /\ (2^l <= cap[a] <=> l < k)
    <3>1. l \in Logs /\ 2^l \in Nat /\ l \in Nat /\ k \in Nat
      BY <1>1, SizesAre, PowerIs
    <3>2. (l < k => 2^l < 2^k) /\ (k < l => k + 1 = l \/ 2^(k + 1) < 2^l)
      BY <1>1, <3>1, PowerGrows
    <3>3. 2^(k + 1) = 2 * n /\ (k + 1 = l => 2^(k + 1) = 2^l) /\ (l = k => 2^l = n)
      BY <1>1, <1>2, Zenon
    <3>4. (l < k => 2^l < n) /\ (k < l => 2 * n <= 2^l)
      <4>1. l < k => 2^l < n
        BY <1>2, <3>2, Zenon
      <4>2. k < l => 2 * n = 2^l \/ 2 * n < 2^l
        BY <3>2, <3>3, Zenon
      <4>3. 2 * n \in Nat
        BY <1>3
      <4> QED BY <3>1, <4>1, <4>2, <4>3
    <3> QED BY <1>3, <1>10, <3>1, <3>3, <3>4
  <2>2. \A b \in Arrays : b # a => Uses(C, b) = Uses(cap, b)
    BY <1>10 DEF Uses
  <2>3. \A l \in Slots : l \in Nat
    BY SizesAre
  <2>4. Uses(C, a) = Uses(cap, a) \cup {k} /\ k \notin Uses(cap, a)
    BY <1>9, <2>1, <2>3 DEF Uses
  <2> QED BY <2>2, <2>4
<1>12. /\ SegmentAt(T, a, k) = chunk
       /\ \A b \in Arrays : \A l \in Uses(cap, b) : SegmentAt(T, b, l) = SegmentAt(table, b, l)
  <2>1. SegmentAt(T, a, k) = chunk
    BY <1>10 DEF SegmentAt
  <2>2. ASSUME NEW b \in Arrays, NEW l \in Uses(cap, b) PROVE T[b][l] = table[b][l]
    BY <1>10, <1>11 DEF Uses
  <2> QED BY <2>1, <2>2 DEF SegmentAt
<1>13. Capacities(C)
  <2>1. k + 1 \in 0 .. SegmentSlots
    BY <1>9, SizesAre DEF Slots
  <2>2. 2^(k + 1) = 2 * n
    BY <1>1, <1>2, Zenon
  <2>3. C[a] = 2^(k + 1) - 1
    BY <1>10, <2>2, Zenon
  <2> QED BY <1>10, <2>1, <2>3 DEF Capacities, TableFits
<1>14. SegmentsHeld(T, C, mine \cup chunk)
  <2> SUFFICES ASSUME NEW b \in Arrays, NEW l \in Uses(C, b)
               PROVE T[b][l] \in Addr /\ SegmentAt(T, b, l) \subseteq mine \cup chunk
    BY DEF SegmentsHeld
  <2>1. CASE b = a /\ l = k
    BY <1>10, <1>12, <2>1
  <2>2. CASE l \in Uses(cap, b)
    <3>1. T[b][l] = table[b][l]
      BY <1>10, <1>11, <2>2 DEF Uses
    <3> QED BY <1>12, <2>2, <3>1 DEF TableFits, SegmentsHeld
  <2> QED BY <1>11, <2>1, <2>2
<1>15. SegmentsApart(T, C)
  <2>1. \A b \in Arrays : \A l \in Uses(cap, b) : SegmentAt(table, b, l) \cap chunk = {}
    BY DEF TableFits, SegmentsHeld
  <2> SUFFICES ASSUME NEW b \in Arrays, NEW c \in Arrays, NEW l \in Uses(C, b), NEW m \in Uses(C, c),
                      b # c \/ l # m
               PROVE SegmentAt(T, b, l) \cap SegmentAt(T, c, m) = {}
    BY DEF SegmentsApart
  <2>2. CASE l \in Uses(cap, b) /\ m \in Uses(cap, c)
    BY <1>12, <2>2 DEF TableFits, SegmentsApart
  <2>3. CASE b = a /\ l = k
    <3>1. m \in Uses(cap, c)
      BY <1>11, <2>3
    <3> QED BY <1>12, <2>1, <2>3, <3>1
  <2>4. CASE c = a /\ m = k
    <3>1. l \in Uses(cap, b)
      BY <1>11, <2>4
    <3> QED BY <1>12, <2>1, <2>4, <3>1
  <2> QED BY <1>11, <2>2, <2>3, <2>4
<1>16. SegmentsSized(T, C)
  <2>1. ASSUME NEW b \in Arrays, b # a PROVE Cardinality(BytesOf(T, C, b)) = C[b] * ElemSize[b]
    <3>1. BytesOf(T, C, b) = BytesOf(table, cap, b)
      BY <1>11, <1>12, <2>1 DEF BytesOf
    <3> QED BY <1>10, <2>1, <3>1 DEF TableFits, SegmentsSized
  <2>2. BytesOf(T, C, a) = B \cup chunk
    <3>1. \A x : x \in BytesOf(T, C, a) <=> x \in SegmentAt(T, a, k) \/ \E l \in Uses(cap, a) : x \in SegmentAt(T, a, l)
      BY <1>11 DEF BytesOf
    <3>2. \A x : x \in B <=> \E l \in Uses(cap, a) : x \in SegmentAt(table, a, l)
      BY DEF BytesOf
    <3> HIDE DEF B
    <3> QED BY <1>12, <3>1, <3>2
  <2>3. Cardinality(BytesOf(T, C, a)) = C[a] * ElemSize[a]
    BY <1>2, <1>6, <1>7, <1>10, <2>2
  <2> QED BY <2>1, <2>3 DEF SegmentsSized
<1>17. TableFits(T, C, mine \cup chunk)
  BY <1>10, <1>13, <1>14, <1>15, <1>16 DEF TableFits
<1> QED BY <1>2, <1>3, <1>9, <1>17 DEF T, C
-----------------------------------------------------------------------------
(* What is stored.  The bytes of a slot make up an element. *)
Holds(table, m, a, i, e) ==
  \A j \in 0 .. ElemSize[a] - 1 : m[elem_slot(table, a, i) + j] = <<e, j>>

StoresAll(table, cnt, m) ==
  \A a \in Arrays : \A i \in 0 .. cnt[a] - 1 : \E e \in Elems : Holds(table, m, a, i, e)

Memories == [Addr -> (Elems \cup {NoElem}) \X (0 .. MemSize)]

(* array_get on a table and a memory. *)
Get(table, m, a, i) ==
  LET slot == elem_slot(table, a, i)
  IN IF \E e \in Elems : \A j \in 0 .. ElemSize[a] - 1 : slot + j \in Addr /\ m[slot + j] = <<e, j>>
     THEN m[slot][1] ELSE NoElem

SeqsOf(table, m, cnt) == [a \in Arrays |-> [i \in 1 .. cnt[a] |-> Get(table, m, a, i - 1)]]

LEMMA GetIs ==
  ASSUME NEW table, NEW cap, NEW mine, TableFits(table, cap, mine), NEW a \in Arrays,
         NEW i \in Nat, i < cap[a], NEW m, NEW e \in Elems, Holds(table, m, a, i, e)
  PROVE  Get(table, m, a, i) = e
<1>1. PICK s, z : s = elem_slot(table, a, i) /\ z = ElemSize[a]
  OBVIOUS
<1>2. s \in Nat /\ z \in Nat \ {0} /\ s .. s + z - 1 \subseteq Addr
  <2>1. floor_log2(i + 1) \in Uses(cap, a)
    BY SlotIn
  <2>2. s .. s + z - 1 \subseteq SegmentAt(table, a, floor_log2(i + 1)) /\ s \in Addr
    BY <1>1, SlotIn
  <2> QED BY <1>1, <2>1, <2>2, SizesAre DEF TableFits, SegmentsHeld, Addr
<1>3. \A j \in 0 .. z - 1 : s + j \in Addr
  BY <1>2
<1>4. \A j \in 0 .. z - 1 : m[s + j] = <<e, j>>
  BY <1>1 DEF Holds
<1>5. m[s] = <<e, 0>>
  <2>1. 0 \in 0 .. z - 1 /\ s + 0 = s
    BY <1>2
  <2> QED BY <1>4, <2>1
<1>6. Get(table, m, a, i) = m[s][1]
  BY <1>1, <1>3, <1>4, Zenon DEF Get
<1> QED BY <1>5, <1>6

(* A store changes one slot. *)
LEMMA StoreKeeps ==
  ASSUME NEW table, NEW cap, NEW mine, TableFits(table, cap, mine), mem \in Memories,
         NEW a \in Arrays, NEW i \in Nat, i < cap[a], NEW e \in Elems,
         NEW m, m = Stored(elem_slot(table, a, i), a, e)
  PROVE  /\ m \in Memories
         /\ Holds(table, m, a, i, e)
         /\ \A b \in Arrays : \A h \in Nat : \A f :
              h < cap[b] /\ (a # b \/ i # h) /\ Holds(table, mem, b, h, f) => Holds(table, m, b, h, f)
<1>1. PICK s, z : s = elem_slot(table, a, i) /\ z = ElemSize[a]
  OBVIOUS
<1>2. s \in Addr /\ s \in Nat /\ z \in Nat \ {0} /\ SlotOf(table, a, i) = s .. s + z - 1
  BY <1>1, SlotIn, SizesAre DEF Addr, SlotOf
<1>3. ASSUME NEW b \in Arrays, NEW h \in Nat, h < cap[b]
      PROVE /\ elem_slot(table, b, h) \in Nat /\ ElemSize[b] \in Nat \ {0}
            /\ \A j \in 0 .. ElemSize[b] - 1 :
                 elem_slot(table, b, h) + j \in Addr /\ elem_slot(table, b, h) + j \in SlotOf(table, b, h)
  <2>1. /\ elem_slot(table, b, h) \in Addr
        /\ SlotOf(table, b, h) \subseteq SegmentAt(table, b, floor_log2(h + 1))
        /\ floor_log2(h + 1) \in Uses(cap, b)
    BY <1>3, SlotIn DEF SlotOf
  <2>2. SlotOf(table, b, h) \subseteq Addr
    BY <2>1 DEF TableFits, SegmentsHeld
  <2>3. PICK t, y : t = elem_slot(table, b, h) /\ y = ElemSize[b]
    OBVIOUS
  <2>4. t \in Nat /\ y \in Nat \ {0} /\ SlotOf(table, b, h) = t .. t + y - 1
    BY <2>1, <2>3, SizesAre DEF Addr, SlotOf
  <2>5. \A j \in 0 .. y - 1 : t + j \in t .. t + y - 1
    BY <2>4
  <2> QED BY <2>2, <2>3, <2>4, <2>5
<1>4. m = [x \in Addr |-> IF x \in s .. s + z - 1 THEN <<e, x - s>> ELSE mem[x]]
  BY <1>1 DEF Stored
<1>5. m \in Memories
  <2>1. \A x \in Addr : x \in s .. s + z - 1 => x - s \in 0 .. MemSize
    BY <1>2, SizesAre DEF Addr
  <2> QED BY <1>4, <2>1 DEF Memories
<1>6. Holds(table, m, a, i, e)
  <2> SUFFICES ASSUME NEW j \in 0 .. z - 1 PROVE m[s + j] = <<e, j>>
    BY <1>1 DEF Holds
  <2>1. s + j \in Addr
    BY <1>1, <1>3
  <2>2. s + j \in s .. s + z - 1 /\ (s + j) - s = j
    BY <1>2
  <2> QED BY <1>4, <2>1, <2>2
<1>7. ASSUME NEW b \in Arrays, NEW h \in Nat, NEW f, h < cap[b], a # b \/ i # h, Holds(table, mem, b, h, f)
      PROVE Holds(table, m, b, h, f)
  <2> SUFFICES ASSUME NEW j \in 0 .. ElemSize[b] - 1
               PROVE m[elem_slot(table, b, h) + j] = <<f, j>>
    BY DEF Holds
  <2>1. elem_slot(table, b, h) + j \in Addr /\ elem_slot(table, b, h) + j \in SlotOf(table, b, h)
    BY <1>3, <1>7
  <2>2. elem_slot(table, b, h) + j \notin s .. s + z - 1
    BY <1>2, <1>7, <2>1, SlotsApart
  <2>3. mem[elem_slot(table, b, h) + j] = <<f, j>>
    BY <1>7 DEF Holds
  <2> QED BY <1>4, <2>1, <2>2, <2>3
<1> QED BY <1>5, <1>6, <1>7

(* A new segment moves none of the elements. *)
LEMMA GrownStays ==
  ASSUME NEW table, NEW cap, NEW mine, NEW a, NEW k, NEW begin, NEW chunk,
         GetsChunk(table, cap, mine, a, k, begin, chunk), NEW b \in Arrays, NEW h \in Nat, h < cap[b]
  PROVE  elem_slot([table EXCEPT ![a][k] = begin], b, h) = elem_slot(table, b, h)
<1> DEFINE T == [table EXCEPT ![a][k] = begin]
<1>0. TableFits(table, cap, mine) /\ a \in Arrays /\ k \in Slots /\ cap[a] + 1 = 2^k
  <2>1. k \in Slots /\ cap[a] + 1 = 2^k
    BY GrownFits
  <2> QED BY <2>1 DEF GetsChunk
<1>1. PICK l : l = floor_log2(h + 1)
  OBVIOUS
<1>2. l \in Uses(cap, b)
  BY <1>0, <1>1, SlotIn
<1>3. a # b \/ k # l
  <2> SUFFICES ASSUME a = b, k = l PROVE FALSE
    OBVIOUS
  <2>1. 2^k <= cap[a]
    BY <1>2 DEF Uses
  <2>2. cap[a] \in Nat
    BY <1>0, CapacityBound
  <2>3. cap[a] + 1 <= cap[a]
    BY <1>0, <2>1
  <2> QED BY <2>2, <2>3
<1>4. table \in [Arrays -> [Slots -> {0} \cup Addr]] /\ l \in Slots
  BY <1>0, <1>2 DEF TableFits, Tables, Uses
<1>5. T[b][l] = table[b][l]
  BY <1>0, <1>3, <1>4
<1> HIDE DEF T
<1>6. elem_slot(T, b, h) = elem_slot(table, b, h)
  BY <1>1, <1>5 DEF elem_slot
<1> QED BY <1>6 DEF T

(* What is stored in arrays of these counts. *)
Stores(table, cap, mine, cnt, m) ==
  /\ TableFits(table, cap, mine) /\ cnt \in Counts
  /\ \A b \in Arrays : cnt[b] <= cap[b]
  /\ StoresAll(table, cnt, m)

(* An element more, with all others kept. *)
OneMore(table, m, cnt, table2, m2, cap2, mine2, cnt2, a, e) ==
  /\ TableFits(table2, cap2, mine2) /\ a \in Arrays /\ cnt[a] < cap2[a]
  /\ cnt2 = [cnt EXCEPT ![a] = @ + 1]
  /\ \A b \in Arrays : cnt[b] <= cap2[b]
  /\ e \in Elems /\ Holds(table2, m2, a, cnt[a], e)
  /\ \A b \in Arrays : \A h \in Nat : \A f :
       h < cnt[b] /\ Holds(table, m, b, h, f) => Holds(table2, m2, b, h, f)

Appended(seqs, seqs2, a, e) == seqs2 = [seqs EXCEPT ![a] = Append(@, e)]

(* The sequences that are read after an append, and after a replacement.     *)
LEMMA AppendShows ==
  ASSUME NEW table, NEW cap, NEW mine, NEW cnt, NEW m, Stores(table, cap, mine, cnt, m),
         NEW table2, NEW cap2, NEW mine2, NEW m2, NEW cnt2, NEW a, NEW e,
         OneMore(table, m, cnt, table2, m2, cap2, mine2, cnt2, a, e)
  PROVE  /\ StoresAll(table2, cnt2, m2)
         /\ Appended(SeqsOf(table, m, cnt), SeqsOf(table2, m2, cnt2), a, e)
<1> USE DEF Stores, OneMore
<1>1. /\ cnt2 \in Counts /\ cnt2[a] = cnt[a] + 1 /\ cnt[a] \in Nat
      /\ \A b \in Arrays : cnt[b] \in Nat /\ cnt2[b] \in Nat /\ (b # a => cnt2[b] = cnt[b])
  BY DEF Counts
<1>2. \A b \in Arrays : cap[b] \in Nat /\ cap2[b] \in Nat
  BY CapacityBound
<1>3. ASSUME NEW b \in Arrays, NEW h \in Nat, h < cnt[b]
      PROVE /\ Get(table2, m2, b, h) = Get(table, m, b, h)
            /\ \E f \in Elems : Holds(table2, m2, b, h, f)
  <2>1. h \in 0 .. cnt[b] - 1
    BY <1>1, <1>3
  <2>2. PICK f \in Elems : Holds(table, m, b, h, f)
    BY <2>1 DEF StoresAll
  <2>3. Holds(table2, m2, b, h, f)
    BY <1>3, <2>2
  <2>4. h < cap[b] /\ h < cap2[b]
    BY <1>1, <1>2, <1>3
  <2>5. Get(table, m, b, h) = f /\ Get(table2, m2, b, h) = f
    BY <2>2, <2>3, <2>4, GetIs
  <2> QED BY <2>3, <2>5
<1>4. Get(table2, m2, a, cnt[a]) = e
  <2>1. cnt[a] < cap2[a]
    BY <1>1, <1>2
  <2> QED BY <1>1, <2>1, GetIs
<1>5. StoresAll(table2, cnt2, m2)
  <2> SUFFICES ASSUME NEW b \in Arrays, NEW h \in 0 .. cnt2[b] - 1
               PROVE \E f \in Elems : Holds(table2, m2, b, h, f)
    BY DEF StoresAll
  <2>1. h \in Nat /\ (h < cnt[b] \/ (b = a /\ h = cnt[a]))
    BY <1>1
  <2> QED BY <1>3, <2>1
<1>6. SeqsOf(table2, m2, cnt2) = [SeqsOf(table, m, cnt) EXCEPT ![a] = Append(@, e)]
  <2> DEFINE s == [i \in 1 .. cnt[a] |-> Get(table, m, a, i - 1)]
  <2>1. Append(s, e) = [i \in 1 .. cnt[a] + 1 |-> IF i = cnt[a] + 1 THEN e ELSE s[i]]
    <3>1. \A i \in 1 .. cnt[a] : s[i] = Get(table, m, a, i - 1)
      OBVIOUS
    <3>2. Len(s) = cnt[a]
      BY <1>1
    <3> QED BY <1>1, <3>2
  <2>2. [i \in 1 .. cnt2[a] |-> Get(table2, m2, a, i - 1)] = Append(s, e)
    <3>1. ASSUME NEW i \in 1 .. cnt[a] + 1
          PROVE Get(table2, m2, a, i - 1) = IF i = cnt[a] + 1 THEN e ELSE s[i]
      <4>1. CASE i = cnt[a] + 1
        <5>1. i - 1 = cnt[a]
          BY <1>1, <4>1
        <5> QED BY <1>4, <4>1, <5>1, Zenon
      <4>2. CASE i # cnt[a] + 1
        <5>1. i \in 1 .. cnt[a] /\ i - 1 \in Nat /\ i - 1 < cnt[a]
          BY <1>1, <4>2
        <5>2. Get(table2, m2, a, i - 1) = Get(table, m, a, i - 1)
          BY <1>3, <5>1
        <5> QED BY <4>2, <5>1, <5>2
      <4> QED BY <4>1, <4>2
    <3> HIDE DEF s
    <3> QED BY <1>1, <2>1, <3>1
  <2>3. ASSUME NEW b \in Arrays, b # a
        PROVE [i \in 1 .. cnt2[b] |-> Get(table2, m2, b, i - 1)] = [i \in 1 .. cnt[b] |-> Get(table, m, b, i - 1)]
    <3>1. cnt2[b] = cnt[b]
      BY <1>1, <2>3
    <3>2. \A i \in 1 .. cnt[b] : i - 1 \in Nat /\ i - 1 < cnt[b]
      BY <1>1
    <3>3. \A i \in 1 .. cnt[b] : Get(table2, m2, b, i - 1) = Get(table, m, b, i - 1)
      BY <1>3, <3>2
    <3> QED BY <3>1, <3>3, Zenon
  <2>4. SeqsOf(table, m, cnt)[a] = s /\ DOMAIN SeqsOf(table, m, cnt) = Arrays
    BY DEF SeqsOf
  <2> HIDE DEF s
  <2>5. ASSUME NEW b \in Arrays
        PROVE SeqsOf(table2, m2, cnt2)[b] = [SeqsOf(table, m, cnt) EXCEPT ![a] = Append(@, e)][b]
    <3>1. CASE b = a
      <4>1. SeqsOf(table2, m2, cnt2)[a] = Append(s, e)
        BY <2>2 DEF SeqsOf
      <4> QED BY <2>4, <3>1, <4>1
    <3>2. CASE b # a
      <4>1. SeqsOf(table2, m2, cnt2)[b] = SeqsOf(table, m, cnt)[b]
        BY <2>3, <3>2 DEF SeqsOf
      <4> QED BY <2>4, <3>2, <4>1
    <3> QED BY <3>1, <3>2
  <2> QED BY <2>4, <2>5 DEF SeqsOf
<1> QED BY <1>5, <1>6 DEF Appended

LEMMA SetShows ==
  ASSUME NEW table, NEW cap, NEW mine, TableFits(table, cap, mine),
         NEW cnt \in Counts, \A b \in Arrays : cnt[b] <= cap[b], NEW m, StoresAll(table, cnt, m),
         NEW a \in Arrays, NEW i \in 0 .. cnt[a] - 1,
         NEW m2, NEW e \in Elems, Holds(table, m2, a, i, e),
         \A b \in Arrays : \A h \in Nat : \A f :
           h < cnt[b] /\ (a # b \/ i # h) /\ Holds(table, m, b, h, f) => Holds(table, m2, b, h, f)
  PROVE  /\ StoresAll(table, cnt, m2)
         /\ i + 1 \in 1 .. cnt[a]
         /\ SeqsOf(table, m2, cnt) = [SeqsOf(table, m, cnt) EXCEPT ![a][i + 1] = e]
<1>1. \A b \in Arrays : cnt[b] \in Nat /\ cap[b] \in Nat
  BY CapacityBound DEF Counts
<1>2. i \in Nat /\ i < cnt[a] /\ i < cap[a] /\ i + 1 \in 1 .. cnt[a]
  BY <1>1
<1>3. ASSUME NEW b \in Arrays, NEW h \in Nat, h < cnt[b], a # b \/ i # h
      PROVE /\ Get(table, m2, b, h) = Get(table, m, b, h)
            /\ \E f \in Elems : Holds(table, m2, b, h, f)
  <2>1. h \in 0 .. cnt[b] - 1 /\ h < cap[b]
    BY <1>1, <1>3
  <2>2. PICK f \in Elems : Holds(table, m, b, h, f)
    BY <2>1 DEF StoresAll
  <2>3. Holds(table, m2, b, h, f)
    BY <1>3, <2>2
  <2>4. Get(table, m, b, h) = f /\ Get(table, m2, b, h) = f
    BY <2>1, <2>2, <2>3, GetIs
  <2> QED BY <2>3, <2>4
<1>4. Get(table, m2, a, i) = e
  BY <1>2, GetIs
<1>5. StoresAll(table, cnt, m2)
  <2> SUFFICES ASSUME NEW b \in Arrays, NEW h \in 0 .. cnt[b] - 1
               PROVE \E f \in Elems : Holds(table, m2, b, h, f)
    BY DEF StoresAll
  <2>1. h \in Nat /\ h < cnt[b]
    BY <1>1
  <2> QED BY <1>3, <2>1
<1>6. SeqsOf(table, m2, cnt) = [SeqsOf(table, m, cnt) EXCEPT ![a][i + 1] = e]
  <2> DEFINE s == [h \in 1 .. cnt[a] |-> Get(table, m, a, h - 1)]
             q == SeqsOf(table, m, cnt)
  <2>1. q[a] = s /\ DOMAIN q = Arrays /\ q = [b \in Arrays |-> q[b]]
    BY DEF SeqsOf
  <2>2. SeqsOf(table, m2, cnt)[a] = [s EXCEPT ![i + 1] = e]
    <3>1. ASSUME NEW h \in 1 .. cnt[a]
          PROVE Get(table, m2, a, h - 1) = [s EXCEPT ![i + 1] = e][h]
      <4>1. CASE h = i + 1
        <5>1. h - 1 = i
          BY <1>1, <1>2, <4>1
        <5>2. [s EXCEPT ![i + 1] = e][h] = e
          BY <1>2, <4>1
        <5> QED BY <1>4, <5>1, <5>2, Zenon
      <4>2. CASE h # i + 1
        <5>1. h - 1 \in Nat /\ h - 1 < cnt[a] /\ i # h - 1
          BY <1>1, <1>2, <4>2
        <5>2. Get(table, m2, a, h - 1) = Get(table, m, a, h - 1)
          BY <1>3, <5>1
        <5>3. [s EXCEPT ![i + 1] = e][h] = Get(table, m, a, h - 1)
          BY <4>2
        <5> QED BY <5>2, <5>3
      <4> QED BY <4>1, <4>2
    <3>2. SeqsOf(table, m2, cnt)[a] = [h \in 1 .. cnt[a] |-> Get(table, m2, a, h - 1)]
      BY DEF SeqsOf
    <3>3. DOMAIN [s EXCEPT ![i + 1] = e] = 1 .. cnt[a]
      OBVIOUS
    <3> QED BY <3>1, <3>2, <3>3
  <2>3. ASSUME NEW b \in Arrays, b # a PROVE SeqsOf(table, m2, cnt)[b] = q[b]
    <3>1. \A h \in 1 .. cnt[b] : h - 1 \in Nat /\ h - 1 < cnt[b]
      BY <1>1
    <3>2. \A h \in 1 .. cnt[b] : Get(table, m2, b, h - 1) = Get(table, m, b, h - 1)
      BY <1>3, <2>3, <3>1
    <3> QED BY <3>2, Zenon DEF SeqsOf
  <2>4. DOMAIN SeqsOf(table, m2, cnt) = Arrays
    BY DEF SeqsOf
  <2> HIDE DEF s, q
  <2>5. [q EXCEPT ![a][i + 1] = e] = [b \in Arrays |-> IF b = a THEN [s EXCEPT ![i + 1] = e] ELSE q[b]]
    BY <2>1
  <2>6. SeqsOf(table, m2, cnt) = [b \in Arrays |-> SeqsOf(table, m2, cnt)[b]]
    BY DEF SeqsOf
  <2>7. SeqsOf(table, m2, cnt) = [q EXCEPT ![a][i + 1] = e]
    BY <2>2, <2>3, <2>5, <2>6
  <2> QED BY <2>7 DEF q
<1> QED BY <1>2, <1>5, <1>6
-----------------------------------------------------------------------------
(* The state: the table fits the memory the arena has handed out, and every *)
(* element that is counted has been stored.                                 *)
ArrayInv ==
  /\ TableFits(segment_table, capacity, held[storage])
  /\ DOMAIN held = {storage}
  /\ elem_count \in Counts /\ \A a \in Arrays : elem_count[a] <= capacity[a]
  /\ mem \in Memories /\ StoresAll(segment_table, elem_count, mem)

Shown == SeqsOf(segment_table, mem, elem_count)

(* Zero elements everywhere. *)
LEMMA NothingStored ==
  ASSUME NEW table, table = [a \in Arrays |-> [k \in Slots |-> 0]],
         NEW cap, cap = [a \in Arrays |-> 0], NEW m, m = [x \in Addr |-> <<NoElem, 0>>]
  PROVE  /\ TableFits(table, cap, {}) /\ cap \in Counts /\ m \in Memories
         /\ StoresAll(table, cap, m)
         /\ SeqsOf(table, m, cap) = [a \in Arrays |-> << >>]
<1>1. table \in Tables /\ cap \in Counts /\ m \in Memories
  BY ArrayAssumption DEF Tables, Counts, Memories
<1>2. \A a \in Arrays : Uses(cap, a) = {}
  <2>1. \A k \in Slots : 2^k \in Nat \ {0}
    BY PowerIs, SizesAre
  <2> QED BY <2>1 DEF Uses
<1>3. \A a \in Arrays : BytesOf(table, cap, a) = {} /\ cap[a] * ElemSize[a] = 0
  BY <1>2, SizesAre DEF BytesOf
<1>4. SegmentsSized(table, cap)
  BY <1>3, FS_EmptySet DEF SegmentsSized
<1>5. Capacities(cap)
  <2>1. PICK z : z = 2^0
    OBVIOUS
  <2>2. 0 \in 0 .. SegmentSlots
    BY ArrayAssumption
  <2>3. 2^0 = 1
    BY PowerZero, Zenon
  <2>4. 2^0 - 1 = 0
    BY <2>1, <2>3
  <2>5. \A a \in Arrays : cap[a] = 2^0 - 1
    <3>1. \A a \in Arrays : cap[a] = 0
      OBVIOUS
    <3> QED BY <2>4, <3>1, Zenon
  <2> QED BY <2>2, <2>5, Zenon DEF Capacities
<1>6. TableFits(table, cap, {})
  BY <1>1, <1>2, <1>4, <1>5 DEF TableFits, SegmentsHeld, SegmentsApart
<1>7. StoresAll(table, cap, m)
  BY DEF StoresAll
<1>8. SeqsOf(table, m, cap) = [a \in Arrays |-> << >>]
  <2>1. \A a \in Arrays : [i \in 1 .. cap[a] |-> Get(table, m, a, i - 1)] = << >>
    OBVIOUS
  <2> QED BY <2>1, Zenon DEF SeqsOf
<1> QED BY <1>1, <1>6, <1>7, <1>8
-----------------------------------------------------------------------------
(* The steps. *)
LEMMA InitStep == Init => ArrayInv /\ Shown = [a \in Arrays |-> << >>] /\ status = "run"
<1> SUFFICES ASSUME Init PROVE ArrayInv /\ Shown = [a \in Arrays |-> << >>] /\ status = "run"
  OBVIOUS
<1>1. /\ TableFits(segment_table, capacity, {}) /\ capacity \in Counts /\ mem \in Memories
      /\ StoresAll(segment_table, capacity, mem)
      /\ SeqsOf(segment_table, mem, capacity) = [a \in Arrays |-> << >>]
  BY NothingStored DEF Init, Slots
<1>2. elem_count = capacity /\ held[storage] = {} /\ DOMAIN held = {storage} /\ status = "run"
  BY DEF Init
<1>3. \A a \in Arrays : elem_count[a] <= capacity[a]
  BY <1>1, <1>2 DEF Counts
<1> QED BY <1>1, <1>2, <1>3 DEF ArrayInv, Shown

LEMMA RenewStep ==
  ASSUME ArrayInv, Renew
  PROVE  ArrayInv' /\ Shown' = [a \in Arrays |-> << >>]
<1>1. /\ TableFits(segment_table', capacity', {}) /\ capacity' \in Counts /\ mem' \in Memories
      /\ StoresAll(segment_table', capacity', mem')
      /\ SeqsOf(segment_table', mem', capacity') = [a \in Arrays |-> << >>]
  BY NothingStored DEF Renew, Slots
<1>2. elem_count' = capacity' /\ held'[storage] = {} /\ DOMAIN held' = {storage}
  BY DEF Renew, ArrayInv, Arena!Delete
<1>3. \A a \in Arrays : elem_count'[a] <= capacity'[a]
  BY <1>1, <1>2 DEF Counts
<1> QED BY <1>1, <1>2, <1>3 DEF ArrayInv, Shown

LEMMA SetStep ==
  ASSUME ArrayInv, NEW a \in Arrays, NEW e \in Elems, NEW i \in 0 .. elem_count[a] - 1, Set(a, i, e)
  PROVE  /\ ArrayInv' /\ i + 1 \in 1 .. elem_count[a]
         /\ Shown' = [Shown EXCEPT ![a][i + 1] = e]
<1>1. /\ TableFits(segment_table, capacity, held[storage]) /\ mem \in Memories
      /\ elem_count \in Counts /\ \A b \in Arrays : elem_count[b] <= capacity[b]
      /\ StoresAll(segment_table, elem_count, mem)
  BY DEF ArrayInv
<1>2. /\ mem' = Stored(elem_slot(segment_table, a, i), a, e)
      /\ UNCHANGED <<segment_table, elem_count, capacity, held>>
  BY DEF Set, array_set
<1>3. \A b \in Arrays : elem_count[b] \in Nat /\ capacity[b] \in Nat
  BY <1>1, CapacityBound DEF Counts
<1>4. i \in Nat /\ i < capacity[a]
  BY <1>1, <1>3
<1>5. /\ mem' \in Memories /\ Holds(segment_table, mem', a, i, e)
      /\ \A b \in Arrays : \A h \in Nat : \A f :
           h < capacity[b] /\ (a # b \/ i # h) /\ Holds(segment_table, mem, b, h, f)
             => Holds(segment_table, mem', b, h, f)
  BY <1>1, <1>2, <1>4, StoreKeeps
<1>6. \A b \in Arrays : \A h \in Nat : h < elem_count[b] => h < capacity[b]
  BY <1>1, <1>3
<1>7. /\ StoresAll(segment_table, elem_count, mem') /\ i + 1 \in 1 .. elem_count[a]
      /\ SeqsOf(segment_table, mem', elem_count) = [SeqsOf(segment_table, mem, elem_count) EXCEPT ![a][i + 1] = e]
  BY <1>1, <1>5, <1>6, SetShows
<1> QED BY <1>1, <1>2, <1>5, <1>7 DEF ArrayInv, Shown

LEMMA AppendFitsStep ==
  ASSUME ArrayInv, NEW a \in Arrays, NEW e \in Elems, AppendFits(a, e)
  PROVE  ArrayInv' /\ Shown' = [Shown EXCEPT ![a] = Append(@, e)]
<1>1. /\ TableFits(segment_table, capacity, held[storage]) /\ mem \in Memories
      /\ elem_count \in Counts /\ \A b \in Arrays : elem_count[b] <= capacity[b]
      /\ StoresAll(segment_table, elem_count, mem)
  BY DEF ArrayInv
<1>2. /\ mem' = Stored(elem_slot(segment_table, a, elem_count[a]), a, e)
      /\ elem_count[a] < capacity[a] /\ elem_count' = [elem_count EXCEPT ![a] = @ + 1]
      /\ UNCHANGED <<segment_table, capacity, held>>
  BY DEF AppendFits, array_set
<1>3. \A b \in Arrays : elem_count[b] \in Nat /\ capacity[b] \in Nat
  BY <1>1, CapacityBound DEF Counts
<1>4. /\ mem' \in Memories /\ Holds(segment_table, mem', a, elem_count[a], e)
      /\ \A b \in Arrays : \A h \in Nat : \A f :
           h < capacity[b] /\ (a # b \/ elem_count[a] # h) /\ Holds(segment_table, mem, b, h, f)
             => Holds(segment_table, mem', b, h, f)
  BY <1>1, <1>2, <1>3, StoreKeeps
<1>5. \A b \in Arrays : \A h \in Nat : h < elem_count[b] => h < capacity[b] /\ (a # b \/ elem_count[a] # h)
  BY <1>1, <1>3
<1>6. elem_count' \in Counts /\ \A b \in Arrays : elem_count'[b] <= capacity[b]
  BY <1>1, <1>2, <1>3 DEF Counts
<1>7. /\ StoresAll(segment_table, elem_count', mem')
      /\ Appended(SeqsOf(segment_table, mem, elem_count), SeqsOf(segment_table, mem', elem_count'), a, e)
  <2>1. Stores(segment_table, capacity, held[storage], elem_count, mem)
    BY <1>1 DEF Stores
  <2>2. OneMore(segment_table, mem, elem_count, segment_table, mem', capacity, held[storage], elem_count', a, e)
    BY <1>1, <1>2, <1>4, <1>5 DEF OneMore
  <2> QED BY <2>1, <2>2, AppendShows
<1> QED BY <1>1, <1>2, <1>4, <1>6, <1>7 DEF ArrayInv, Shown, Appended

(* arena_push hands out bytes nobody held, and the new segment starts with   *)
(* the first of them.                                                        *)
LEMMA PushHands ==
  ASSUME DOMAIN held = {storage}, NEW size \in Nat \ {0}, arena_push(size)
  PROVE  \E begin \in Addr :
           /\ begin .. begin + size - 1 \subseteq Addr \ held[storage]
           /\ held' = [held EXCEPT ![storage] = @ \cup (begin .. begin + size - 1)]
           /\ held'[storage] = held[storage] \cup (begin .. begin + size - 1)
           /\ DOMAIN held' = {storage} /\ Pushed = begin
<1>1. PICK begin \in Addr :
        /\ begin .. begin + size - 1 \subseteq Addr \ UNION {held[s] : s \in {storage}}
        /\ held' = [held EXCEPT ![storage] = @ \cup (begin .. begin + size - 1)]
  BY DEF arena_push, Arena!Push, Arena!AllHeld
<1>2. UNION {held[s] : s \in {storage}} = held[storage]
  OBVIOUS
<1>3. held'[storage] = held[storage] \cup (begin .. begin + size - 1) /\ DOMAIN held' = {storage}
  BY <1>1
<1>4. held'[storage] \ held[storage] = begin .. begin + size - 1
  BY <1>1, <1>2, <1>3
<1>5. begin \in Nat
  BY SizesAre DEF Addr
<1>6. Min(begin .. begin + size - 1) = begin
  <2>1. begin \in begin .. begin + size - 1 /\ \A y \in begin .. begin + size - 1 : begin <= y
    BY <1>5
  <2>2. \A x \in begin .. begin + size - 1 : x <= begin => x = begin
    BY <1>5
  <2>3. PICK x : x = Min(begin .. begin + size - 1)
    OBVIOUS
  <2>4. x \in begin .. begin + size - 1 /\ \A y \in begin .. begin + size - 1 : x <= y
    BY <2>1, <2>3, Zenon DEF Min
  <2> QED BY <2>1, <2>2, <2>3, <2>4
<1>7. Pushed = begin
  BY <1>4, <1>6 DEF Pushed
<1> QED BY <1>1, <1>2, <1>3, <1>7

LEMMA AppendGrowsStep ==
  ASSUME ArrayInv, NEW a \in Arrays, NEW e \in Elems, AppendGrows(a, e)
  PROVE  ArrayInv' /\ Shown' = [Shown EXCEPT ![a] = Append(@, e)]
<1>1. /\ TableFits(segment_table, capacity, held[storage]) /\ mem \in Memories
      /\ elem_count \in Counts /\ \A b \in Arrays : elem_count[b] <= capacity[b]
      /\ StoresAll(segment_table, elem_count, mem) /\ DOMAIN held = {storage}
  BY DEF ArrayInv
<1>2. PICK k : k = floor_log2(elem_count[a] + 1)
  OBVIOUS
<1>3. /\ elem_count[a] >= capacity[a] /\ arena_push(2^k * ElemSize[a])
      /\ segment_table' = [segment_table EXCEPT ![a][k] = Pushed]
      /\ capacity' = [capacity EXCEPT ![a] = @ + 2^k]
      /\ elem_count' = [elem_count EXCEPT ![a] = @ + 1]
      /\ mem' = Stored(elem_slot(segment_table', a, elem_count[a]), a, e)
  BY <1>2, Zenon DEF AppendGrows, array_set
<1>4. \A b \in Arrays : elem_count[b] \in Nat /\ capacity[b] \in Nat /\ elem_count[b] <= MemSize
  <2>1. \A b \in Arrays : capacity[b] \in Nat /\ capacity[b] <= MemSize
    BY <1>1, CapacityBound
  <2> QED BY <1>1, <2>1, SizesAre DEF Counts
<1>5. elem_count[a] = capacity[a] /\ k = floor_log2(capacity[a] + 1)
  BY <1>1, <1>2, <1>3, <1>4
<1>6. k \in Logs /\ 2^k \in Nat \ {0}
  <2>1. elem_count[a] + 1 \in 1 .. MemSize + SegmentSlots
    BY <1>4, SizesAre
  <2>2. k \in 0 .. elem_count[a] + 1
    BY <1>2, <2>1, FloorIs
  <2>3. k \in Logs
    BY <2>1, <2>2, SizesAre DEF Logs
  <2> QED BY <2>3, PowerIs
<1>7. PICK size \in Nat \ {0} : size = 2^k * ElemSize[a]
  <2>1. PICK n, z : n = 2^k /\ z = ElemSize[a]
    OBVIOUS
  <2>2. n \in Nat \ {0} /\ z \in Nat \ {0}
    BY <1>6, <2>1, SizesAre
  <2>3. n * z \in Nat \ {0}
    BY <2>2, Times
  <2> QED BY <2>1, <2>3
<1>8. PICK begin \in Addr :
        /\ begin .. begin + size - 1 \subseteq Addr \ held[storage]
        /\ held'[storage] = held[storage] \cup (begin .. begin + size - 1)
        /\ DOMAIN held' = {storage} /\ Pushed = begin
  <2>1. arena_push(size)
    BY <1>3, <1>7
  <2> QED BY <1>1, <2>1, PushHands
<1>9. segment_table' = [segment_table EXCEPT ![a][k] = begin]
  BY <1>3, <1>8
<1>10. /\ k \in Slots /\ capacity[a] + 1 = 2^k
       /\ TableFits(segment_table', capacity', held'[storage])
       /\ \A b \in Arrays : \A h \in Nat : h < capacity[b] =>
            elem_slot(segment_table', b, h) = elem_slot(segment_table, b, h)
  <2>1. PICK chunk : chunk = begin .. begin + size - 1
    OBVIOUS
  <2>2. chunk = begin .. begin + 2^k * ElemSize[a] - 1 /\ chunk \subseteq Addr \ held[storage]
    BY <1>7, <1>8, <2>1
  <2>3. GetsChunk(segment_table, capacity, held[storage], a, k, begin, chunk)
    BY <1>1, <1>5, <2>2 DEF GetsChunk
  <2>4. /\ k \in Slots /\ capacity[a] + 1 = 2^k
        /\ TableFits([segment_table EXCEPT ![a][k] = begin], [capacity EXCEPT ![a] = @ + 2^k], held[storage] \cup chunk)
    BY <2>3, GrownFits
  <2>5. \A b \in Arrays : \A h \in Nat : h < capacity[b] =>
          elem_slot([segment_table EXCEPT ![a][k] = begin], b, h) = elem_slot(segment_table, b, h)
    BY <2>3, GrownStays
  <2> QED BY <1>3, <1>8, <1>9, <2>1, <2>4, <2>5
<1>12. /\ capacity'[a] = capacity[a] + 2^k /\ elem_count[a] < capacity'[a]
       /\ elem_count' \in Counts
       /\ \A b \in Arrays : capacity[b] <= capacity'[b] /\ elem_count'[b] <= capacity'[b]
  <2>1. PICK n \in Nat \ {0} : n = 2^k
    BY <1>6
  <2>2. capacity' = [capacity EXCEPT ![a] = @ + n] /\ capacity \in [Arrays -> Nat] /\ elem_count \in [Arrays -> Nat]
    BY <1>1, <1>3, <2>1 DEF Counts, TableFits
  <2> QED BY <1>1, <1>3, <1>4, <1>5, <2>1, <2>2 DEF Counts
<1>13. /\ mem' \in Memories /\ Holds(segment_table', mem', a, elem_count[a], e)
       /\ \A b \in Arrays : \A h \in Nat : \A f :
            h < capacity'[b] /\ (a # b \/ elem_count[a] # h) /\ Holds(segment_table', mem, b, h, f)
              => Holds(segment_table', mem', b, h, f)
  BY <1>1, <1>3, <1>4, <1>10, <1>12, StoreKeeps
<1>14. ASSUME NEW b \in Arrays, NEW h \in Nat, NEW f, h < elem_count[b], Holds(segment_table, mem, b, h, f)
       PROVE Holds(segment_table', mem', b, h, f)
  <2>1. capacity'[b] \in Nat
    BY <1>10, CapacityBound
  <2>2. h < capacity[b] /\ h < capacity'[b] /\ (a # b \/ elem_count[a] # h)
    BY <1>1, <1>4, <1>12, <1>14, <2>1
  <2>3. Holds(segment_table', mem, b, h, f)
    BY <1>10, <1>14, <2>2 DEF Holds
  <2> QED BY <1>13, <2>2, <2>3
<1>15. /\ StoresAll(segment_table', elem_count', mem')
       /\ Appended(SeqsOf(segment_table, mem, elem_count), SeqsOf(segment_table', mem', elem_count'), a, e)
  <2>1. Stores(segment_table, capacity, held[storage], elem_count, mem)
    BY <1>1 DEF Stores
  <2>2. \A b \in Arrays : elem_count[b] <= capacity'[b]
    <3>1. \A b \in Arrays : capacity'[b] \in Nat
      BY <1>10, CapacityBound
    <3> QED BY <1>1, <1>4, <1>12, <3>1
  <2>3. OneMore(segment_table, mem, elem_count, segment_table', mem', capacity', held'[storage], elem_count', a, e)
    BY <1>3, <1>10, <1>12, <1>13, <1>14, <2>2 DEF OneMore
  <2> QED BY <2>1, <2>3, AppendShows
<1> QED BY <1>8, <1>10, <1>12, <1>13, <1>15 DEF ArrayInv, Shown, Appended

(* What others push does not concern the arrays. *)
LEMMA OtherPushStep ==
  ASSUME ArrayInv, OtherPush
  PROVE  ArrayInv' /\ Shown' = Shown
<1>1. PICK size \in OtherSizes : arena_push(size)
  BY DEF OtherPush
<1>2. size \in Nat \ {0}
  BY ArrayAssumption
<1>3. PICK begin \in Addr :
        /\ begin .. begin + size - 1 \subseteq Addr \ held[storage]
        /\ held'[storage] = held[storage] \cup (begin .. begin + size - 1)
        /\ DOMAIN held' = {storage}
  BY <1>1, <1>2, PushHands DEF ArrayInv
<1>4. held[storage] \subseteq held'[storage] /\ held'[storage] \subseteq Addr
  BY <1>3 DEF ArrayInv, TableFits
<1>5. TableFits(segment_table, capacity, held'[storage])
  BY <1>4 DEF ArrayInv, TableFits, SegmentsHeld
<1> QED BY <1>3, <1>5 DEF ArrayInv, OtherPush, Shown

LEMMA ArrayInvStep == ArrayInv /\ [Next]_vars => ArrayInv'
<1> SUFFICES ASSUME ArrayInv, [Next]_vars PROVE ArrayInv'
  OBVIOUS
<1>1. ASSUME NEW a \in Arrays, NEW e \in Elems, AppendFits(a, e) PROVE ArrayInv'
  BY <1>1, AppendFitsStep
<1>2. ASSUME NEW a \in Arrays, NEW e \in Elems, AppendGrows(a, e) PROVE ArrayInv'
  BY <1>2, AppendGrowsStep
<1>3. ASSUME NEW a \in Arrays, NEW e \in Elems, NEW i \in 0 .. elem_count[a] - 1, Set(a, i, e) PROVE ArrayInv'
  BY <1>3, SetStep
<1>4. ASSUME NEW a \in Arrays, AppendExits(a) PROVE ArrayInv'
  BY <1>4 DEF AppendExits, ArrayInv
<1>5. CASE OtherPush
  BY <1>5, OtherPushStep
<1>6. CASE Renew
  BY <1>6, RenewStep
<1>7. CASE UNCHANGED vars
  BY <1>7 DEF vars, ArrayInv
<1> QED BY <1>1, <1>2, <1>3, <1>4, <1>5, <1>6, <1>7 DEF Next, Ended

LEMMA ArrayInvTypes == ArrayInv => ArrayTypeOK
<1> SUFFICES ASSUME ArrayInv PROVE ArrayTypeOK
  OBVIOUS
<1>1. /\ TableFits(segment_table, capacity, held[storage]) /\ elem_count \in Counts
      /\ \A a \in Arrays : elem_count[a] <= capacity[a]
      /\ mem \in Memories
  BY DEF ArrayInv
<1>2. \A a \in Arrays : capacity[a] \in Nat /\ capacity[a] <= MemSize /\ elem_count[a] \in Nat
  BY <1>1, CapacityBound DEF Counts
<1>3. \A a \in Arrays : capacity[a] \in 0 .. 2 * MemSize /\ elem_count[a] \in 0 .. MemSize
  BY <1>1, <1>2, SizesAre
<1>4. elem_count \in [Arrays -> 0 .. MemSize] /\ capacity \in [Arrays -> 0 .. 2 * MemSize]
  BY <1>1, <1>3 DEF TableFits, Counts
<1> QED BY <1>1, <1>4 DEF ArrayTypeOK, TableFits, Tables, Slots, Memories

(* Counts, capacities, segments and memory have their types, and every array *)
(* has room for what it counts (array_append).                               *)
THEOREM ArrayTypesHold == Spec => []ArrayTypeOK
<1>1. Init => ArrayInv
  BY InitStep
<1>2. ArrayInv /\ [Next]_vars => ArrayInv'
  BY ArrayInvStep
<1>3. ArrayInv => ArrayTypeOK
  BY ArrayInvTypes
<1> QED BY <1>1, <1>2, <1>3, PTL DEF Spec
-----------------------------------------------------------------------------
(* The refinement. *)
ContentsNow == [a \in Arrays |-> [i \in 1 .. elem_count[a] |-> array_get(a, i - 1)]]

LEMMA ShownIs == ContentsNow = Shown
BY DEF ContentsNow, Shown, SeqsOf, Get, array_get

LEMMA ShownNextIs == (ContentsNow = Shown)'
BY ShownIs, PTL

LEMMA LengthShown == \A a \in Arrays : elem_count \in Counts => Len(Shown[a]) = elem_count[a]
BY DEF Shown, SeqsOf, Counts

LEMMA SequenceStep == ArrayInv /\ [Next]_vars => [Contents!Next]_ContentsNow
<1> SUFFICES ASSUME ArrayInv, [Next]_vars PROVE [Contents!Next]_ContentsNow
  OBVIOUS
<1>0. Shown = ContentsNow /\ Shown' = ContentsNow'
  <2>1. Shown' = ContentsNow'
    BY ShownNextIs
  <2> QED BY <2>1, ShownIs
<1>1. ASSUME NEW a \in Arrays, NEW e \in Elems, Shown' = [Shown EXCEPT ![a] = Append(@, e)]
      PROVE Contents!Next
  <2>1. Contents!Append_(a, e)
    BY <1>0, <1>1 DEF Contents!Append_, ContentsNow
  <2> QED BY <2>1 DEF Contents!Next
<1>2. ASSUME NEW a \in Arrays, NEW e \in Elems, NEW i \in 0 .. elem_count[a] - 1, Set(a, i, e)
      PROVE Contents!Next
  <2>1. i + 1 \in 1 .. elem_count[a] /\ Shown' = [Shown EXCEPT ![a][i + 1] = e]
    BY <1>2, SetStep
  <2>2. i + 1 \in 1 .. Len(Shown[a])
    BY <2>1, LengthShown DEF ArrayInv
  <2>3. i + 1 \in 1 .. Len(ContentsNow[a]) /\ Contents!Set(a, i + 1, e)
    BY <1>0, <2>1, <2>2 DEF Contents!Set, ContentsNow
  <2> QED BY <2>3 DEF Contents!Next, ContentsNow
<1>3. CASE Renew
  <2>1. Shown' = [a \in Arrays |-> << >>]
    BY <1>3, RenewStep
  <2>2. Contents!Clear(Arrays)
    BY <1>0, <2>1 DEF Contents!Clear, ContentsNow
  <2> QED BY <2>2 DEF Contents!Next
<1>4. ASSUME Shown' = Shown PROVE UNCHANGED ContentsNow
  BY <1>0, <1>4
<1>5. ASSUME NEW a \in Arrays, AppendExits(a) PROVE Shown' = Shown
  BY <1>5 DEF AppendExits, Shown
<1>6. CASE OtherPush
  BY <1>4, <1>6, OtherPushStep
<1>7. CASE UNCHANGED vars
  BY <1>4, <1>7 DEF vars, Shown
<1>8. ASSUME NEW a \in Arrays, NEW e \in Elems, AppendFits(a, e) \/ AppendGrows(a, e) PROVE Contents!Next
  BY <1>1, <1>8, AppendFitsStep, AppendGrowsStep
<1> QED BY <1>2, <1>3, <1>4, <1>5, <1>6, <1>7, <1>8 DEF Next, Ended

(* The arrays are sequences: what array_get reads at each index is what was   *)
(* stored there last, whatever is appended, wherever arena_push puts the      *)
(* segments and whatever was in that memory.                                  *)
THEOREM ArraysAreSequences == Spec => ImplementsSequence
<1>1. Init => ArrayInv /\ Contents!Init
  <2>1. Init => Shown = [a \in Arrays |-> << >>]
    BY InitStep
  <2>2. Init => ContentsNow = [a \in Arrays |-> << >>]
    BY <2>1, ShownIs
  <2> QED BY <2>2, InitStep DEF Contents!Init, ContentsNow
<1>2. ArrayInv /\ [Next]_vars => ArrayInv'
  BY ArrayInvStep
<1>3. ArrayInv /\ [Next]_vars => [Contents!Next]_ContentsNow
  BY SequenceStep
<1> QED BY <1>1, <1>2, <1>3, PTL DEF Spec, ImplementsSequence, Contents!Spec, ContentsNow
=============================================================================
