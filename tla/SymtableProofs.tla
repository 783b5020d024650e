---------------------------- MODULE SymtableProofs ----------------------------
(***************************************************************************)
(* Proofs about the symbol table, for every hash function and every set of *)
(* names: the hash table is a map, whose entries a rehash moves and does   *)
(* not change, and it implements the table without a hash table.           *)
(***************************************************************************)
EXTENDS Symtable, SequenceTheorems, FiniteSetTheorems, WellFoundedInduction, TLAPS

-----------------------------------------------------------------------------
(* What is in an array of chains. *)
EntriesOf(array) == UNION {Range(array[i]) : i \in DOMAIN array}
NamesOf(array) == {e.name : e \in EntriesOf(array)}

(* The entries of one chain have different names and belong there. *)
ChainOK(chain, h, m) ==
  /\ chain \in Seq(Entry)
  /\ \A j \in 1 .. Len(chain) : hash_string(chain[j].name, m) + 1 = h
  /\ \A j, k \in 1 .. Len(chain) : chain[j].name = chain[k].name => j = k

ArrayOK(array, m) ==
  /\ array \in Seq(Seq(Entry)) /\ Len(array) = Capacity(m)
  /\ \A h \in 1 .. Capacity(m) : ChainOK(array[h], h, m)

TableOK(t) ==
  /\ t = [array |-> t.array, log2 |-> t.log2, count |-> t.count]
  /\ t.log2 \in InitialLog2 .. MaxLog2
  /\ ArrayOK(t.array, t.log2)
  /\ t.count = Cardinality(NamesOf(t.array))
  /\ t.count <= Capacity(t.log2)

SymInv ==
  /\ TableOK(table)
  /\ scope_level \in Nat
  /\ failed \in {"no", "next_in_scope"}

-----------------------------------------------------------------------------
(* Helpers: least elements, loops, sequences. *)
LEMMA LeastElement ==
  ASSUME NEW T \in SUBSET Nat, T # {}
  PROVE  Min(T) \in T /\ \A y \in T : Min(T) <= y
<1>1. PICK n \in T : \A y \in T : <<y, n>> \notin OpToRel(<, Nat)
  BY NatLessThanWellFounded, WFMin
<1>2. \A y \in T : ~(y < n)
  BY <1>1 DEF OpToRel
<1>3. \A y \in T : n <= y
  BY <1>2
<1> QED BY <1>3 DEF Min

LEMMA SmallestFailure ==
  ASSUME NEW T, T \subseteq Nat, T # {}
  PROVE  \E n \in T : n - 1 \notin T
<1>0. T \in SUBSET Nat
  OBVIOUS
<1>1. PICK n \in T : \A y \in T : n <= y
  BY <1>0, LeastElement, Zenon
<1>2. n - 1 \notin T
  BY <1>1
<1> QED BY <1>1, <1>2

(* A loop of N rounds over values in S has a sequence of values. *)
HasRun(N, S, z, step) ==
  \E f \in [0 .. N -> S] : f[0] = z /\ \A k \in 1 .. N : f[k] = step[<<f[k - 1], k>>]

LEMMA LoopRuns ==
  ASSUME NEW N \in Nat, NEW S, NEW z \in S, NEW step,
         \A r \in S : \A k \in 1 .. N : step[<<r, k>>] \in S
  PROVE  HasRun(N, S, z, step)
<1> DEFINE Runs(f, n) == f[0] = z /\ \A k \in 1 .. n : f[k] = step[<<f[k - 1], k>>]
           T == {n \in 0 .. N : ~\E f \in [0 .. n -> S] : Runs(f, n)}
<1>1. 0 \notin T
  <2> DEFINE f == [k \in 0 .. 0 |-> z]
  <2>1. f \in [0 .. 0 -> S] /\ Runs(f, 0)
    OBVIOUS
  <2> QED BY <2>1
<1>2. ASSUME NEW n \in T, n - 1 \notin T PROVE FALSE
  <2>1. n \in 0 .. N /\ ~\E f \in [0 .. n -> S] : Runs(f, n)
    OBVIOUS
  <2>2. n \in 1 .. N
    <3>1. n # 0
      BY <1>1, Zenon
    <3> QED BY <2>1, <3>1
  <2>3. PICK g \in [0 .. n - 1 -> S] : Runs(g, n - 1)
    BY <1>2, <2>2
  <2> DEFINE f == [k \in 0 .. n |-> IF k = n THEN step[<<g[n - 1], n>>] ELSE g[k]]
  <2>4. g[n - 1] \in S
    BY <2>2, <2>3
  <2>5. step[<<g[n - 1], n>>] \in S
    BY <2>2, <2>4
  <2>6. f \in [0 .. n -> S]
    BY <2>2, <2>3, <2>5
  <2>7. f[0] = z
    BY <2>2, <2>3
  <2>8. ASSUME NEW k \in 1 .. n PROVE f[k] = step[<<f[k - 1], k>>]
    <3>1. f[k - 1] = g[k - 1]
      BY <2>2
    <3>2. CASE k = n
      <4>1. f[n] = step[<<g[n - 1], n>>]
        BY <2>2
      <4> HIDE DEF f
      <4> QED BY <3>1, <3>2, <4>1, Zenon
    <3>3. CASE k # n
      <4>1. k \in 1 .. n - 1 /\ f[k] = g[k]
        BY <2>2, <3>3
      <4> QED BY <2>3, <3>1, <4>1
    <3> QED BY <3>2, <3>3
  <2>9. Runs(f, n)
    BY <2>7, <2>8
  <2> QED BY <2>1, <2>6, <2>9
<1>3. T \subseteq Nat
  OBVIOUS
<1> HIDE DEF T
<1>4. T = {}
  BY <1>2, <1>3, SmallestFailure
<1> QED BY <1>4 DEF T, HasRun

(* What holds of the first value and is kept by each round holds of all. *)
LEMMA StaysIn ==
  ASSUME NEW N \in Nat, NEW T \in SUBSET (0 .. N), 0 \in T, \A k \in 1 .. N : k - 1 \in T => k \in T
  PROVE  T = 0 .. N
<1> DEFINE U == {k \in 0 .. N : k \notin T}
<1>1. ASSUME NEW n \in U, n - 1 \notin U PROVE FALSE
  <2>1. n \in 0 .. N /\ n \notin T /\ n # 0
    OBVIOUS
  <2>2. n \in 1 .. N /\ n - 1 \in 0 .. N
    BY <2>1
  <2> QED BY <1>1, <2>1, <2>2
<1>2. U \subseteq Nat
  OBVIOUS
<1> HIDE DEF U
<1>3. U = {}
  BY <1>1, <1>2, SmallestFailure
<1> QED BY <1>3 DEF U

(* Capacities and hashes. *)
LEMMA CapacityIs ==
  ASSUME NEW m \in 1 .. MaxLog2
  PROVE  /\ Capacity(m) \in Nat \ {0}
         /\ m + 1 \in 1 .. MaxLog2 => Capacity(m + 1) = 2 * Capacity(m) + 1
         /\ 2^(HashWidth - m) \in Nat \ {0}
<1>1. m \in 1 .. HashWidth /\ HashWidth - m \in 0 .. HashWidth /\ m - 1 \in 0 .. HashWidth
  BY HashAssumption
<1>2. 2^m = 2 * 2^(m - 1) /\ 2^(m - 1) \in Nat \ {0} /\ 2^(HashWidth - m) \in Nat \ {0}
  BY <1>1, PowerFact
<1>3. m + 1 \in 1 .. MaxLog2 => 2^(m + 1) = 2 * 2^m
  <2>1. m + 1 \in 1 .. MaxLog2 => m + 1 \in 1 .. HashWidth /\ (m + 1) - 1 = m
    BY HashAssumption
  <2> QED BY <2>1, PowerFact
<1> DEFINE p == 2^m
           q == 2^(m - 1)
           r == 2^(m + 1)
<1>4. p = 2 * q /\ q \in Nat \ {0} /\ (m + 1 \in 1 .. MaxLog2 => r = 2 * p)
  BY <1>2, <1>3
<1>5. Capacity(m) = p - 1 /\ Capacity(m + 1) = r - 1
  BY DEF Capacity
<1> HIDE DEF p, q, r
<1>6. p - 1 \in Nat \ {0} /\ (m + 1 \in 1 .. MaxLog2 => r - 1 = 2 * (p - 1) + 1)
  BY <1>4
<1> QED BY <1>2, <1>5, <1>6

LEMMA HashRange ==
  ASSUME NEW name \in AllNames, NEW m \in 1 .. MaxLog2
  PROVE  hash_string(name, m) + 1 \in 1 .. Capacity(m)
<1> DEFINE K == Ksigma[name]
           d == 2^(HashWidth - m)
           c == Capacity(m)
           q == K \div d
<1>1. c \in Nat \ {0} /\ d \in Nat \ {0}
  BY CapacityIs
<1>2. K \in Nat
  <2>1. HashWidth \in 0 .. HashWidth
    BY HashAssumption
  <2>2. 2^HashWidth \in Nat
    BY <2>1, PowerFact
  <2>3. Ksigma[name] \in 0 .. 2^HashWidth - 1
    BY HashAssumption
  <2> QED BY <2>2, <2>3
<1>3. hash_string(name, m) = q % c
  BY DEF hash_string, Capacity
<1> HIDE DEF K, d, c
<1>4. q \in Int
  BY <1>1, <1>2
<1> HIDE DEF q
<1>5. q % c \in 0 .. c - 1
  BY <1>1, <1>4
<1>6. (q % c) + 1 \in 1 .. c
  BY <1>1, <1>5
<1> QED BY <1>3, <1>6 DEF c

-----------------------------------------------------------------------------
(* Chains and arrays. *)
LEMMA RangeIs ==
  ASSUME NEW S, NEW l \in Seq(S)
  PROVE  /\ Len(l) \in Nat /\ DOMAIN l = 1 .. Len(l) /\ \A j \in 1 .. Len(l) : l[j] \in S
         /\ Range(l) \subseteq S
         /\ \A x : x \in Range(l) <=> \E j \in 1 .. Len(l) : x = l[j]
<1>1. Len(l) \in Nat /\ DOMAIN l = 1 .. Len(l) /\ \A j \in 1 .. Len(l) : l[j] \in S
  BY LenProperties, ElementOfSeq
<1> QED BY <1>1 DEF Range

LEMMA ConsIs ==
  ASSUME NEW S, NEW e \in S, NEW c \in Seq(S)
  PROVE  /\ <<e>> \o c \in Seq(S)
         /\ Len(<<e>> \o c) = Len(c) + 1
         /\ (<<e>> \o c)[1] = e
         /\ \A j \in 2 .. Len(c) + 1 : (<<e>> \o c)[j] = c[j - 1]
         /\ Range(<<e>> \o c) = {e} \cup Range(c)
<1> DEFINE d == <<e>> \o c
<1>1. /\ d \in Seq(S) /\ Len(d) = Len(c) + 1 /\ Len(c) \in Nat /\ d[1] = e
      /\ \A j \in 2 .. Len(c) + 1 : d[j] = c[j - 1]
  OBVIOUS
<1> HIDE DEF d
<1>2. \A x : x \in Range(d) <=> x = e \/ x \in Range(c)
  <2>1. ASSUME NEW x \in Range(d) PROVE x = e \/ x \in Range(c)
    <3>1. PICK j \in 1 .. Len(d) : x = d[j]
      BY <1>1, RangeIs
    <3>2. CASE j = 1
      BY <1>1, <3>1, <3>2
    <3>3. CASE j # 1
      <4>1. j \in 2 .. Len(c) + 1 /\ j - 1 \in 1 .. Len(c)
        BY <1>1, <3>3
      <4> QED BY <1>1, <3>1, <4>1, RangeIs
    <3> QED BY <3>2, <3>3
  <2>2. e \in Range(d)
    <3>1. 1 \in 1 .. Len(d)
      BY <1>1
    <3> QED BY <1>1, <3>1, RangeIs
  <2>3. ASSUME NEW x \in Range(c) PROVE x \in Range(d)
    <3>1. PICK j \in 1 .. Len(c) : x = c[j]
      BY RangeIs
    <3>2. j + 1 \in 2 .. Len(c) + 1 /\ (j + 1) - 1 = j /\ j + 1 \in 1 .. Len(d)
      BY <1>1
    <3>3. x = d[j + 1]
      BY <1>1, <3>1, <3>2
    <3> QED BY <1>1, <3>2, <3>3, RangeIs
  <2> QED BY <2>1, <2>2, <2>3
<1> QED BY <1>1, <1>2 DEF d

LEMMA ArrayIs ==
  ASSUME NEW m \in 1 .. MaxLog2, NEW array, ArrayOK(array, m)
  PROVE  /\ DOMAIN array = 1 .. Capacity(m)
         /\ \A h \in 1 .. Capacity(m) : array[h] \in Seq(Entry)
         /\ EntriesOf(array) \subseteq Entry
         /\ \A e : e \in EntriesOf(array) <=> \E h \in 1 .. Capacity(m) : e \in Range(array[h])
         /\ \A e \in EntriesOf(array) :
              /\ hash_string(e.name, m) + 1 \in 1 .. Capacity(m)
              /\ e \in Range(array[hash_string(e.name, m) + 1])
         /\ \A d, e \in EntriesOf(array) : d.name = e.name => d = e
<1>1. DOMAIN array = 1 .. Capacity(m) /\ \A h \in 1 .. Capacity(m) : array[h] \in Seq(Entry)
  BY RangeIs DEF ArrayOK
<1>2. \A e : e \in EntriesOf(array) <=> \E h \in 1 .. Capacity(m) : e \in Range(array[h])
  BY <1>1 DEF EntriesOf
<1>3. EntriesOf(array) \subseteq Entry
  BY <1>1, <1>2, RangeIs
<1>4. ASSUME NEW e \in EntriesOf(array)
      PROVE  /\ hash_string(e.name, m) + 1 \in 1 .. Capacity(m)
             /\ \E j \in 1 .. Len(array[hash_string(e.name, m) + 1]) : e = array[hash_string(e.name, m) + 1][j]
             /\ e \in Range(array[hash_string(e.name, m) + 1])
  <2>1. PICK h \in 1 .. Capacity(m) : e \in Range(array[h])
    BY <1>2
  <2>2. array[h] \in Seq(Entry)
    BY <1>1
  <2>3. PICK j \in 1 .. Len(array[h]) : e = array[h][j]
    BY <2>1, <2>2, RangeIs
  <2>4. ChainOK(array[h], h, m)
    BY DEF ArrayOK
  <2>5. hash_string(e.name, m) + 1 = h
    BY <2>3, <2>4 DEF ChainOK
  <2> QED BY <2>1, <2>3, <2>5
<1>5. ASSUME NEW d \in EntriesOf(array), NEW e \in EntriesOf(array), d.name = e.name PROVE d = e
  <2>1. PICK h \in 1 .. Capacity(m) : h = hash_string(e.name, m) + 1
    BY <1>4
  <2>2. hash_string(d.name, m) + 1 = h
    BY <1>5, <2>1
  <2>3. PICK j \in 1 .. Len(array[h]) : e = array[h][j]
    BY <1>4, <2>1
  <2>4. PICK k \in 1 .. Len(array[h]) : d = array[h][k]
    BY <1>4, <2>2
  <2>5. ChainOK(array[h], h, m)
    BY DEF ArrayOK
  <2>6. j = k
    BY <1>5, <2>3, <2>4, <2>5 DEF ChainOK
  <2> QED BY <2>3, <2>4, <2>6
<1> QED BY <1>1, <1>2, <1>3, <1>4, <1>5

LEMMA InArray ==
  ASSUME NEW m \in 1 .. MaxLog2, NEW array, ArrayOK(array, m), NEW h, h \in 1 .. Capacity(m),
         NEW x, x \in Range(array[h])
  PROVE  x \in EntriesOf(array)
  BY ArrayIs

(* An entry of a new name in front of the chain its hash leads to. *)
LEMMA PutFirstOK ==
  ASSUME NEW m \in 1 .. MaxLog2, NEW array, ArrayOK(array, m),
         NEW e \in Entry, e.name \notin NamesOf(array), NEW h, h = hash_string(e.name, m) + 1
  PROVE  /\ ArrayOK(PutFirst(array, h, e), m)
         /\ EntriesOf(PutFirst(array, h, e)) = EntriesOf(array) \cup {e}
<1>1. e.name \in AllNames
  BY DEF Entry
<1>2. h \in 1 .. Capacity(m)
  BY <1>1, HashRange
<1> DEFINE new == PutFirst(array, h, e)
           c == array[h]
<1>3. DOMAIN array = 1 .. Capacity(m) /\ \A i \in 1 .. Capacity(m) : array[i] \in Seq(Entry)
  BY ArrayIs
<1>4. /\ DOMAIN new = 1 .. Capacity(m) /\ new[h] = <<e>> \o c
      /\ \A i \in 1 .. Capacity(m) : i # h => new[i] = array[i]
  BY <1>2, <1>3 DEF PutFirst
<1>5. /\ <<e>> \o c \in Seq(Entry) /\ Len(<<e>> \o c) = Len(c) + 1 /\ (<<e>> \o c)[1] = e
      /\ \A j \in 2 .. Len(c) + 1 : (<<e>> \o c)[j] = c[j - 1]
      /\ Range(<<e>> \o c) = {e} \cup Range(c)
  BY <1>2, <1>3, ConsIs
<1>6. new \in Seq(Seq(Entry)) /\ Len(new) = Capacity(m)
  <2>1. \A i \in 1 .. Capacity(m) : new[i] \in Seq(Entry)
    BY <1>3, <1>4, <1>5
  <2>2. array \in Seq(Seq(Entry)) /\ Len(array) = Capacity(m)
    BY DEF ArrayOK
  <2>3. new \in Seq(Seq(Entry))
    <3> DEFINE x == <<e>> \o array[h]
               S == Seq(Entry)
    <3>1. new = [array EXCEPT ![h] = x]
      BY DEF PutFirst
    <3>2. h \in 1 .. Len(array) /\ x \in S /\ array \in Seq(S)
      BY <1>2, <1>5, <2>2
    <3> HIDE DEF x, S, new
    <3>3. new \in Seq(S)
      BY <3>1, <3>2, ExceptSeq
    <3> QED BY <3>3 DEF S
  <2>4. Len(new) = Capacity(m)
    BY <1>2, <2>2 DEF PutFirst
  <2> QED BY <2>3, <2>4
<1> DEFINE d == <<e>> \o c
<1>7. d \in Seq(Entry) /\ Len(d) = Len(c) + 1 /\ d[1] = e /\ \A j \in 2 .. Len(c) + 1 : d[j] = c[j - 1]
  BY <1>5
<1> HIDE DEF new, d
<1>8. ChainOK(d, h, m)
  <2>1. Len(c) \in Nat
    BY <1>2, <1>3, RangeIs
  <2>2. ChainOK(c, h, m)
    BY <1>2 DEF ArrayOK
  <2>3. ASSUME NEW j \in 1 .. Len(d), j # 1 PROVE j \in 2 .. Len(c) + 1 /\ j - 1 \in 1 .. Len(c) /\ d[j] = c[j - 1]
    BY <1>7, <2>1, <2>3
  <2>4. ASSUME NEW j \in 1 .. Len(c) PROVE c[j].name # e.name
    <3>1. c[j] \in Range(c)
      BY <1>2, <1>3, RangeIs
    <3>2. c[j] \in EntriesOf(array)
      BY <1>2, <3>1, ArrayIs
    <3> QED BY <3>2 DEF NamesOf
  <2>5. ASSUME NEW j \in 1 .. Len(d) PROVE hash_string(d[j].name, m) + 1 = h
    <3>1. CASE j = 1
      BY <1>7, <3>1
    <3>2. CASE j # 1
      BY <2>2, <2>3, <3>2 DEF ChainOK
    <3> QED BY <3>1, <3>2
  <2>6. ASSUME NEW j \in 1 .. Len(d), NEW k \in 1 .. Len(d), d[j].name = d[k].name PROVE j = k
    <3>1. CASE j = 1 /\ k = 1
      BY <3>1
    <3>2. CASE j = 1 /\ k # 1
      BY <1>7, <2>3, <2>4, <2>6, <3>2
    <3>3. CASE j # 1 /\ k = 1
      BY <1>7, <2>3, <2>4, <2>6, <3>3
    <3>4. CASE j # 1 /\ k # 1
      <4>1. j - 1 \in 1 .. Len(c) /\ k - 1 \in 1 .. Len(c) /\ d[j] = c[j - 1] /\ d[k] = c[k - 1]
        BY <2>3, <3>4
      <4>2. c[j - 1].name = c[k - 1].name
        BY <2>6, <4>1
      <4>3. j - 1 = k - 1
        BY <2>2, <4>1, <4>2 DEF ChainOK
      <4> QED BY <4>3, <2>1, <1>7
    <3> QED BY <3>1, <3>2, <3>3, <3>4
  <2> QED BY <1>7, <2>5, <2>6 DEF ChainOK
<1>9. ASSUME NEW i \in 1 .. Capacity(m) PROVE ChainOK(new[i], i, m)
  <2>1. CASE i = h
    BY <1>4, <1>8, <2>1 DEF d
  <2>2. CASE i # h
    BY <1>4, <2>2 DEF ArrayOK
  <2> QED BY <2>1, <2>2
<1>10. ArrayOK(new, m)
  BY <1>6, <1>9 DEF ArrayOK
<1>11. \A x : x \in EntriesOf(new) <=> x \in EntriesOf(array) \cup {e}
  <2>1. \A x : x \in EntriesOf(new) <=> \E i \in 1 .. Capacity(m) : x \in Range(new[i])
    BY <1>10, ArrayIs
  <2>2. \A x : x \in EntriesOf(array) <=> \E i \in 1 .. Capacity(m) : x \in Range(array[i])
    BY ArrayIs
  <2>3. \A i \in 1 .. Capacity(m) : Range(new[i]) = IF i = h THEN {e} \cup Range(array[i]) ELSE Range(array[i])
    BY <1>4, <1>5
  <2> QED BY <1>2, <2>1, <2>2, <2>3
<1> QED BY <1>10, <1>11 DEF new

LEMMA ExceptIs ==
  ASSUME NEW S, NEW l \in Seq(S), NEW i, i \in 1 .. Len(l), NEW x, x \in S
  PROVE  /\ [l EXCEPT ![i] = x] \in Seq(S)
         /\ Len([l EXCEPT ![i] = x]) = Len(l)
  BY ExceptSeq

(* An entry is replaced by one with the same name. *)
LEMMA ReplaceOK ==
  ASSUME NEW m \in 1 .. MaxLog2, NEW array, ArrayOK(array, m),
         NEW h \in 1 .. Capacity(m), NEW i \in 1 .. Len(array[h]),
         NEW e \in Entry, e.name = array[h][i].name,
         NEW new, new = [array EXCEPT ![h] = [array[h] EXCEPT ![i] = e]]
  PROVE  /\ ArrayOK(new, m)
         /\ EntriesOf(new) = (EntriesOf(array) \ {array[h][i]}) \cup {e}
         /\ array[h][i] \in EntriesOf(array)
         /\ NamesOf(new) = NamesOf(array)
<1> DEFINE c == array[h]
           d == [c EXCEPT ![i] = e]
<1>1. DOMAIN array = 1 .. Capacity(m) /\ \A g \in 1 .. Capacity(m) : array[g] \in Seq(Entry)
  BY ArrayIs
<1>2. c \in Seq(Entry) /\ DOMAIN c = 1 .. Len(c) /\ i \in 1 .. Len(c) /\ Len(c) \in Nat
  BY <1>1, RangeIs
<1>3. /\ d \in Seq(Entry) /\ Len(d) = Len(c)
      /\ \A j \in 1 .. Len(c) : d[j] = IF j = i THEN e ELSE c[j]
  BY <1>2, ExceptSeq
<1>4. /\ DOMAIN new = 1 .. Capacity(m) /\ new[h] = d
      /\ \A g \in 1 .. Capacity(m) : g # h => new[g] = array[g]
  BY <1>1
<1>5. new \in Seq(Seq(Entry)) /\ Len(new) = Capacity(m)
  <2> DEFINE S == Seq(Entry)
  <2>1. array \in Seq(S) /\ h \in 1 .. Len(array) /\ d \in S /\ new = [array EXCEPT ![h] = d] /\ Len(array) = Capacity(m)
    BY <1>3 DEF ArrayOK
  <2> HIDE DEF S, d
  <2>2. [array EXCEPT ![h] = d] \in Seq(S) /\ Len([array EXCEPT ![h] = d]) = Len(array)
    BY <2>1, ExceptIs
  <2>3. new \in Seq(Seq(Entry)) /\ Len(new) = Capacity(m)
    BY <2>1, <2>2, Zenon DEF S
  <2> QED BY <2>3, Zenon
<1>15. /\ \A x : x \in Range(d) => \E j \in 1 .. Len(c) : x = d[j]
       /\ \A j \in 1 .. Len(c) : d[j] \in Range(d)
  <2>1. DOMAIN d = 1 .. Len(c)
    BY <1>2
  <2> HIDE DEF d
  <2> QED BY <2>1 DEF Range
<1> DEFINE o == c[i]
<1>6. o.name = e.name /\ d[i] = e
  BY <1>2, <1>3
<1>7. ChainOK(c, h, m)
  BY DEF ArrayOK
<1> HIDE DEF d, c
<1>8. \A j \in 1 .. Len(c) : d[j].name = c[j].name
  BY <1>3, <1>6
<1>9. ChainOK(d, h, m)
  BY <1>3, <1>7, <1>8 DEF ChainOK
<1>10. ArrayOK(new, m)
  BY <1>4, <1>5, <1>9 DEF ArrayOK
<1>11. o \in EntriesOf(array)
  <2>1. o \in Range(c)
    BY <1>2, RangeIs
  <2> QED BY <2>1, ArrayIs DEF c
<1>12. ASSUME NEW x \in EntriesOf(array), x # o PROVE x \in EntriesOf(new)
  <2>1. PICK g \in 1 .. Capacity(m) : x \in Range(array[g])
    BY ArrayIs
  <2>2. CASE g = h
    <3>1. PICK j \in 1 .. Len(c) : x = c[j]
      BY <1>2, <2>1, <2>2, RangeIs DEF c
    <3>2. d[j] = x
      BY <1>3, <1>12, <3>1
    <3>3. x \in Range(d)
      BY <1>15, <3>1, <3>2
    <3>4. x \in Range(new[h])
      BY <1>4, <3>3, Zenon
    <3> QED BY <1>10, <3>4, ArrayIs, Zenon
  <2>3. CASE g # h
    BY <1>4, <1>10, <2>1, <2>3, ArrayIs
  <2> QED BY <2>2, <2>3
<1>13. e \in EntriesOf(new)
  <2>1. e \in Range(d)
    BY <1>2, <1>6, <1>15, Zenon
  <2>2. e \in Range(new[h])
    BY <1>4, <2>1, Zenon
  <2> QED BY <1>10, <2>2, InArray, Zenon
<1>14. ASSUME NEW x \in EntriesOf(new), x # e PROVE x \in EntriesOf(array) /\ x # o
  <2>1. PICK g \in 1 .. Capacity(m) : x \in Range(new[g])
    BY <1>10, ArrayIs
  <2>2. x \in EntriesOf(array)
    <3>1. CASE g = h
      <4>0. x \in Range(d)
        BY <1>4, <2>1, <3>1, Zenon
      <4>1. PICK j \in 1 .. Len(c) : x = d[j]
        BY <1>15, <4>0, Zenon
      <4>2. x = c[j]
        BY <1>3, <1>14, <4>1
      <4>3. x \in Range(c)
        BY <1>2, <4>2, RangeIs
      <4> QED BY <4>3, ArrayIs DEF c
    <3>2. CASE g # h
      BY <1>4, <2>1, <3>2, ArrayIs
    <3> QED BY <3>1, <3>2
  <2>3. x.name # e.name
    BY <1>10, <1>13, <1>14, ArrayIs
  <2> QED BY <1>6, <2>2, <2>3
<1>16. EntriesOf(new) = (EntriesOf(array) \ {o}) \cup {e}
  BY <1>12, <1>13, <1>14
<1>17. NamesOf(new) = NamesOf(array)
  <2> DEFINE E == EntriesOf(array)
             F == EntriesOf(new)
  <2>1. F = (E \ {o}) \cup {e} /\ o \in E /\ o.name = e.name
    BY <1>6, <1>11, <1>16
  <2> HIDE DEF E, F
  <2>2. {x.name : x \in F} = {x.name : x \in E}
    BY <2>1
  <2> QED BY <2>2 DEF E, F, NamesOf
<1> QED BY <1>10, <1>11, <1>16, <1>17 DEF o, c

-----------------------------------------------------------------------------
(* The search for a name. *)
LEMMA Log2Is ==
  ASSUME NEW t, TableOK(t)
  PROVE  t.log2 \in 1 .. MaxLog2 /\ t.log2 \in Nat /\ ArrayOK(t.array, t.log2) /\ t.log2 <= MaxLog2
  BY HashAssumption DEF TableOK

LEMMA IndexInIs ==
  ASSUME NEW t, TableOK(t), NEW name \in AllNames
  PROVE  /\ Bucket(t, name) \in 1 .. Capacity(t.log2)
         /\ IndexIn(t, name) \in 0 .. Len(t.array[Bucket(t, name)])
         /\ IndexIn(t, name) # 0 =>
              /\ t.array[Bucket(t, name)][IndexIn(t, name)] \in EntriesOf(t.array)
              /\ t.array[Bucket(t, name)][IndexIn(t, name)].name = name
         /\ IndexIn(t, name) # 0 <=> name \in NamesOf(t.array)
<1> DEFINE h == Bucket(t, name)
           c == t.array[h]
           I == {j \in 1 .. Len(c) : c[j].name = name}
<1>1. h \in 1 .. Capacity(t.log2) /\ h = hash_string(name, t.log2) + 1
  BY Log2Is, HashRange DEF Bucket
<1>2. c \in Seq(Entry) /\ Len(c) \in Nat
  BY <1>1, Log2Is, ArrayIs, RangeIs
<1>3. I \in SUBSET Nat
  BY <1>2
<1>4. IndexIn(t, name) = IF I # {} THEN Min(I) ELSE 0
  BY DEF IndexIn, SelectInSeq
<1> HIDE DEF h, c
<1>5. CASE I # {}
  <2>1. Min(I) \in I
    BY <1>3, <1>5, LeastElement
  <2>2. Min(I) \in 1 .. Len(c) /\ c[Min(I)].name = name
    BY <2>1
  <2>3. c[Min(I)] \in EntriesOf(t.array)
    <3>1. c[Min(I)] \in Range(c)
      BY <1>2, <2>2, RangeIs
    <3> QED BY <1>1, <3>1, Log2Is, ArrayIs DEF c
  <2>4. name \in NamesOf(t.array)
    BY <2>2, <2>3 DEF NamesOf
  <2>5. IndexIn(t, name) = Min(I) /\ Min(I) # 0
    BY <1>2, <1>4, <1>5, <2>2
  <2> HIDE DEF I
  <2> QED BY <1>1, <1>2, <2>2, <2>3, <2>4, <2>5 DEF h, c
<1>6. CASE I = {}
  <2>1. name \notin NamesOf(t.array)
    <3> SUFFICES ASSUME NEW e \in EntriesOf(t.array), e.name = name PROVE FALSE
      BY DEF NamesOf
    <3>1. e \in Range(t.array[hash_string(e.name, t.log2) + 1])
      BY Log2Is, ArrayIs
    <3>2. e \in Range(c)
      BY <1>1, <3>1 DEF c
    <3>3. PICK j \in 1 .. Len(c) : e = c[j]
      BY <1>2, <3>2, RangeIs
    <3>4. j \in I
      BY <3>3
    <3> QED BY <1>6, <3>4
  <2>2. IndexIn(t, name) = 0
    BY <1>4, <1>6
  <2> QED BY <1>1, <1>2, <2>1, <2>2 DEF h, c
<1> QED BY <1>5, <1>6

-----------------------------------------------------------------------------
(* The entries of all chains in a row. *)
Distinct(l) == \A i, j \in 1 .. Len(l) : l[i].name = l[j].name => i = j

LEMMA ConcatDistinct ==
  ASSUME NEW S, NEW p \in Seq(S), NEW q \in Seq(S)
  PROVE  /\ p \o q \in Seq(S)
         /\ Range(p \o q) = Range(p) \cup Range(q)
         /\ /\ Distinct(p) /\ Distinct(q)
            /\ \A x \in Range(p), y \in Range(q) : x.name # y.name
            => Distinct(p \o q)
<1> DEFINE m == Len(p)
           n == Len(q)
           c == p \o q
<1>1. /\ m \in Nat /\ n \in Nat /\ c \in Seq(S) /\ Len(c) = m + n
      /\ \A i \in 1 .. m + n : c[i] = IF i <= m THEN p[i] ELSE q[i - m]
  BY LenProperties, ConcatProperties
<1> HIDE DEF c, m, n
<1>2. /\ \A x : x \in Range(p) <=> \E j \in 1 .. m : x = p[j]
      /\ \A x : x \in Range(q) <=> \E j \in 1 .. n : x = q[j]
      /\ \A x : x \in Range(c) <=> \E j \in 1 .. m + n : x = c[j]
  <2>1. \A x : x \in Range(p) <=> \E j \in 1 .. m : x = p[j]
    BY RangeIs DEF m
  <2>2. \A x : x \in Range(q) <=> \E j \in 1 .. n : x = q[j]
    BY RangeIs DEF n
  <2>3. \A x : x \in Range(c) <=> \E j \in 1 .. m + n : x = c[j]
    <3>1. c \in Seq(S) /\ Len(c) = m + n
      BY <1>1
    <3>2. \A x : x \in Range(c) <=> \E j \in 1 .. Len(c) : x = c[j]
      BY <3>1, RangeIs, Zenon
    <3> QED BY <3>1, <3>2, Zenon
  <2> QED BY <2>1, <2>2, <2>3
<1>3. ASSUME NEW x \in Range(p) PROVE x \in Range(c)
  <2>1. PICK j \in 1 .. m : x = p[j]
    BY <1>2
  <2>2. j \in 1 .. m + n /\ j <= m
    BY <1>1
  <2> QED BY <1>1, <1>2, <2>1, <2>2
<1>4. ASSUME NEW x \in Range(q) PROVE x \in Range(c)
  <2>1. PICK j \in 1 .. n : x = q[j]
    BY <1>2
  <2>2. j + m \in 1 .. m + n /\ ~(j + m <= m) /\ (j + m) - m = j
    BY <1>1
  <2>3. c[j + m] = q[j]
    BY <1>1, <2>2
  <2> QED BY <1>2, <2>1, <2>2, <2>3
<1>5. ASSUME NEW x \in Range(c) PROVE x \in Range(p) \cup Range(q)
  <2>1. PICK j \in 1 .. m + n : x = c[j]
    BY <1>2
  <2>2. CASE j <= m
    <3>1. j \in 1 .. m
      BY <1>1, <2>2
    <3> QED BY <1>1, <1>2, <2>1, <2>2, <3>1
  <2>3. CASE ~(j <= m)
    <3>1. j - m \in 1 .. n
      BY <1>1, <2>3
    <3> QED BY <1>1, <1>2, <2>1, <2>3, <3>1
  <2> QED BY <2>2, <2>3
<1>6. ASSUME Distinct(p), Distinct(q), \A x \in Range(p), y \in Range(q) : x.name # y.name
      PROVE  Distinct(c)
  <2>1. /\ \A i, j \in 1 .. m : p[i].name = p[j].name => i = j
        /\ \A i, j \in 1 .. n : q[i].name = q[j].name => i = j
        /\ \A i \in 1 .. m, j \in 1 .. n : p[i].name # q[j].name
    BY <1>2, <1>6 DEF Distinct, m, n
  <2>2. ASSUME NEW i \in 1 .. m + n, NEW j \in 1 .. m + n, c[i].name = c[j].name PROVE i = j
    <3>1. CASE i <= m /\ j <= m
      BY <1>1, <2>1, <2>2, <3>1
    <3>2. CASE i <= m /\ ~(j <= m)
      <4>1. i \in 1 .. m /\ j - m \in 1 .. n
        BY <1>1, <3>2
      <4> QED BY <1>1, <2>1, <2>2, <3>2, <4>1
    <3>3. CASE ~(i <= m) /\ j <= m
      <4>1. j \in 1 .. m /\ i - m \in 1 .. n
        BY <1>1, <3>3
      <4> QED BY <1>1, <2>1, <2>2, <3>3, <4>1
    <3>4. CASE ~(i <= m) /\ ~(j <= m)
      <4>1. j - m \in 1 .. n /\ i - m \in 1 .. n
        BY <1>1, <3>4
      <4>2. i - m = j - m
        BY <1>1, <2>1, <2>2, <3>4, <4>1
      <4> QED BY <1>1, <4>2
    <3> QED BY <3>1, <3>2, <3>3, <3>4
  <2> QED BY <1>1, <2>2 DEF Distinct
<1> QED BY <1>1, <1>3, <1>4, <1>5, <1>6 DEF c

(* The first k chains in a row. *)
FirstChains(array, l, k) ==
  /\ l \in Seq(Entry) /\ Distinct(l)
  /\ \A e : e \in Range(l) <=> \E i \in 1 .. k : e \in Range(array[i])

LEMMA FlattenIs ==
  ASSUME NEW m \in 1 .. MaxLog2, NEW array, ArrayOK(array, m)
  PROVE  /\ FlattenSeq(array) \in Seq(Entry)
         /\ Distinct(FlattenSeq(array))
         /\ Range(FlattenSeq(array)) = EntriesOf(array)
<1> DEFINE N == Len(array)
<1>1. N = Capacity(m) /\ N \in Nat \ {0}
  BY CapacityIs DEF ArrayOK
<1>2. \A i \in 1 .. N : array[i] \in Seq(Entry) /\ ChainOK(array[i], i, m)
  BY <1>1, ArrayIs DEF ArrayOK
<1> HIDE DEF N
<1>3. \E g : g = [i \in 1 .. N |-> IF i = 1 THEN array[i] ELSE g[i - 1] \o array[i]]
  <2> DEFINE S == Seq(Entry)
             step == [p \in S \X (1 .. N) |-> p[1] \o array[p[2]]]
  <2>1. \A r \in S, k \in 1 .. N : step[<<r, k>>] = r \o array[k]
    OBVIOUS
  <2>2. \A r \in S : \A k \in 1 .. N : r \o array[k] \in S
    BY <1>2, ConcatProperties
  <2>3. \A r \in S : \A k \in 1 .. N : step[<<r, k>>] \in S
    BY <2>1, <2>2, Zenon
  <2>4. <<>> \in S /\ \A l \in S : <<>> \o l = l
    OBVIOUS
  <2> HIDE DEF step, S
  <2>5. PICK f \in [0 .. N -> S] : f[0] = <<>> /\ \A k \in 1 .. N : f[k] = step[<<f[k - 1], k>>]
    <3>1. N \in Nat
      BY <1>1
    <3>2. HasRun(N, S, <<>>, step)
      BY <2>3, <2>4, <3>1, LoopRuns, Zenon
    <3> QED BY <3>2, Zenon DEF HasRun
  <2>6. ASSUME NEW k \in 1 .. N PROVE f[k] = f[k - 1] \o array[k]
    <3>1. f[k - 1] \in S
      BY <1>1
    <3> QED BY <2>1, <2>5, <3>1, Zenon
  <2> DEFINE g == [i \in 1 .. N |-> f[i]]
  <2>7. ASSUME NEW i \in 1 .. N PROVE g[i] = IF i = 1 THEN array[i] ELSE g[i - 1] \o array[i]
    <3>1. CASE i = 1
      <4>1. array[1] \in S
        BY <1>1, <1>2 DEF S
      <4>2. f[1] = f[0] \o array[1]
        <5>1. 1 \in 1 .. N /\ 1 - 1 = 0
          BY <1>1
        <5>2. f[1] = f[1 - 1] \o array[1]
          BY <2>6, <5>1, Zenon
        <5> QED BY <5>1, <5>2
      <4>3. f[1] = array[1]
        BY <2>4, <2>5, <4>1, <4>2
      <4> QED BY <3>1, <4>3
    <3>2. CASE i # 1
      <4>1. i - 1 \in 1 .. N
        BY <1>1, <3>2
      <4>2. g[i] = f[i] /\ g[i - 1] = f[i - 1]
        BY <4>1
      <4> QED BY <2>6, <3>2, <4>2
    <3> QED BY <3>1, <3>2
  <2>8. g = [i \in 1 .. N |-> IF i = 1 THEN array[i] ELSE g[i - 1] \o array[i]]
    BY <2>7
  <2> QED BY <2>8
<1>4. PICK g : /\ g = [i \in 1 .. N |-> IF i = 1 THEN array[i] ELSE g[i - 1] \o array[i]]
               /\ FlattenSeq(array) = g[N]
  <2> DEFINE g == CHOOSE f : f = [i \in 1 .. N |-> IF i = 1 THEN array[i] ELSE f[i - 1] \o array[i]]
  <2>1. g = [i \in 1 .. N |-> IF i = 1 THEN array[i] ELSE g[i - 1] \o array[i]]
    BY <1>3, Zenon
  <2>2. ~(N = 0)
    BY <1>1
  <2>3. FlattenSeq(array) = g[N]
    BY <2>2, Zenon DEF FlattenSeq, N
  <2> HIDE DEF g
  <2> QED BY <2>1, <2>3, Zenon
<1>5. /\ g[1] = array[1]
      /\ \A k \in 2 .. N : g[k] = g[k - 1] \o array[k]
  <2>1. \A i \in 1 .. N : g[i] = IF i = 1 THEN array[i] ELSE g[i - 1] \o array[i]
    BY <1>4, Zenon
  <2>2. 1 \in 1 .. N /\ \A k \in 2 .. N : k \in 1 .. N /\ k # 1
    BY <1>1
  <2> QED BY <2>1, <2>2, Zenon
<1> DEFINE T == {k \in 0 .. N : k = 0 \/ FirstChains(array, g[k], k)}
<1>6. ASSUME NEW k \in 1 .. N, k - 1 \in T PROVE k \in T
  <2>1. array[k] \in Seq(Entry) /\ Distinct(array[k])
    BY <1>2 DEF ChainOK, Distinct
  <2>2. CASE k = 1
    <3>1. FirstChains(array, g[1], 1)
      BY <1>5, <2>1, <2>2 DEF FirstChains
    <3> QED BY <2>2, <3>1
  <2>3. CASE k # 1
    <3>1. k - 1 \in 1 .. N /\ FirstChains(array, g[k - 1], k - 1) /\ k \in 2 .. N
      BY <1>1, <1>6, <2>3
    <3> DEFINE p == g[k - 1]
               q == array[k]
    <3>2. p \in Seq(Entry) /\ Distinct(p) /\ g[k] = p \o q
      BY <1>5, <3>1 DEF FirstChains
    <3>3. ASSUME NEW x \in Range(p), NEW y \in Range(q) PROVE x.name # y.name
      <4>1. PICK i \in 1 .. k - 1 : x \in Range(array[i])
        BY <3>1 DEF FirstChains
      <4>2. i \in 1 .. N /\ i # k
        BY <1>1, <3>1
      <4>3. hash_string(x.name, m) + 1 = i
        <5>1. PICK j \in 1 .. Len(array[i]) : x = array[i][j]
          BY <1>2, <4>1, <4>2, RangeIs
        <5>2. ChainOK(array[i], i, m)
          BY <1>2, <4>2
        <5> QED BY <5>1, <5>2 DEF ChainOK
      <4>4. hash_string(y.name, m) + 1 = k
        <5>1. PICK j \in 1 .. Len(array[k]) : y = array[k][j]
          BY <2>1, <3>3, RangeIs
        <5>2. ChainOK(array[k], k, m)
          BY <1>2
        <5> QED BY <5>1, <5>2 DEF ChainOK
      <4> QED BY <4>2, <4>3, <4>4
    <3>4. /\ p \o q \in Seq(Entry) /\ Distinct(p \o q)
          /\ Range(p \o q) = Range(p) \cup Range(q)
      BY <2>1, <3>2, <3>3, ConcatDistinct
    <3>5. \A e : e \in Range(p) <=> \E i \in 1 .. k - 1 : e \in Range(array[i])
      BY <3>1 DEF FirstChains
    <3>6. \A e : e \in Range(p \o q) <=> \E i \in 1 .. k : e \in Range(array[i])
      <4>1. \A i : i \in 1 .. k <=> i \in 1 .. k - 1 \/ i = k
        BY <1>1
      <4> HIDE DEF p
      <4> QED BY <3>4, <3>5, <4>1
    <3>7. FirstChains(array, g[k], k)
      BY <3>2, <3>4, <3>6 DEF FirstChains
    <3> QED BY <3>7
  <2> QED BY <2>2, <2>3
<1>7. T \in SUBSET (0 .. N) /\ 0 \in T /\ N \in Nat
  BY <1>1
<1> HIDE DEF T
<1>8. T = 0 .. N
  BY <1>6, <1>7, StaysIn, Zenon
<1>9. FirstChains(array, g[N], N)
  <2>1. N \in T /\ N # 0
    BY <1>1, <1>8
  <2> QED BY <2>1 DEF T
<1>10. Range(g[N]) = EntriesOf(array)
  <2>1. \A e : e \in EntriesOf(array) <=> \E h \in 1 .. N : e \in Range(array[h])
    BY <1>1, ArrayIs
  <2> QED BY <1>9, <2>1 DEF FirstChains
<1> QED BY <1>4, <1>9, <1>10 DEF FirstChains

(* As many names as entries. *)
LEMMA CountIs ==
  ASSUME NEW l \in Seq(Entry), Distinct(l)
  PROVE  Cardinality({e.name : e \in Range(l)}) = Len(l) /\ IsFiniteSet({e.name : e \in Range(l)})
<1> DEFINE n == Len(l)
           S == 1 .. n
           T == {e.name : e \in Range(l)}
           f == [i \in S |-> l[i].name]
<1>1. n \in Nat /\ \A x : x \in Range(l) <=> \E j \in 1 .. n : x = l[j]
  BY RangeIs
<1>2. f \in [S -> T]
  BY <1>1
<1>3. \A i, j \in S : f[i] = f[j] => i = j
  BY DEF Distinct
<1>4. \A y \in T : \E i \in S : f[i] = y
  BY <1>1
<1>5. IsFiniteSet(S) /\ Cardinality(S) = n
  BY <1>1, FS_Interval
<1> HIDE DEF f, S, T, n
<1>6. ExistsBijection(S, T)
  BY <1>2, <1>3, <1>4 DEF ExistsBijection, Bijection, Injection, Surjection, IsInjective
<1>7. IsFiniteSet(T) /\ Cardinality(T) = Cardinality(S)
  BY <1>5, <1>6, FS_Bijection
<1> QED BY <1>5, <1>7 DEF T, n

-----------------------------------------------------------------------------
(* The rehash. *)
LEMMA FilledIs ==
  ASSUME NEW S, NEW x \in S, NEW n \in Nat
  PROVE  [i \in 1 .. n |-> x] \in Seq(S) /\ Len([i \in 1 .. n |-> x]) = n
  OBVIOUS

LEMMA EmptyOK ==
  ASSUME NEW m \in 1 .. MaxLog2, NEW array, array = [i \in 1 .. Capacity(m) |-> <<>>]
  PROVE  ArrayOK(array, m) /\ EntriesOf(array) = {} /\ NamesOf(array) = {}
<1> DEFINE N == Capacity(m)
<1>1. N \in Nat /\ array = [i \in 1 .. N |-> <<>>]
  BY CapacityIs
<1> HIDE DEF N
<1>2. array \in Seq(Seq(Entry)) /\ Len(array) = N
  <2> DEFINE S == Seq(Entry)
  <2> DEFINE x == <<>>
  <2>1. x \in S /\ array = [i \in 1 .. N |-> x]
    BY <1>1
  <2> HIDE DEF S, x
  <2>2. [i \in 1 .. N |-> x] \in Seq(S) /\ Len([i \in 1 .. N |-> x]) = N
    BY <1>1, <2>1, FilledIs
  <2>3. array \in Seq(S) /\ Len(array) = N
    BY <2>1, <2>2, Zenon
  <2> QED BY <2>3 DEF S
<1>3. ASSUME NEW h \in 1 .. N PROVE ChainOK(array[h], h, m)
  <2>1. array[h] = <<>>
    BY <1>1, Zenon
  <2>2. 1 .. Len(<<>>) = {} /\ <<>> \in Seq(Entry)
    OBVIOUS
  <2> QED BY <2>1, <2>2 DEF ChainOK
<1>4. ArrayOK(array, m)
  BY <1>2, <1>3 DEF ArrayOK, N
<1>5. EntriesOf(array) = {}
  BY <1>1 DEF EntriesOf, Range
<1> QED BY <1>4, <1>5 DEF NamesOf

Arrays(m) == {array \in Seq(Seq(Entry)) : Len(array) = Capacity(m)}

LEMMA InsertType ==
  ASSUME NEW m \in 1 .. MaxLog2, NEW array \in Arrays(m), NEW e \in Entry
  PROVE  InsertOld(array, e, m) \in Arrays(m)
<1> DEFINE S == Seq(Entry)
           h == hash_string(e.name, m) + 1
           c == <<e>> \o array[h]
<1>1. h \in 1 .. Capacity(m)
  BY HashRange DEF Entry
<1>2. array \in Seq(S) /\ Len(array) = Capacity(m)
  BY DEF Arrays
<1>3. array[h] \in S
  BY <1>1, <1>2, ElementOfSeq
<1>4. c \in S
  BY <1>3, ConsIs
<1>5. InsertOld(array, e, m) = [array EXCEPT ![h] = c]
  BY DEF InsertOld, PutFirst
<1> HIDE DEF S, h, c
<1>6. [array EXCEPT ![h] = c] \in Seq(S) /\ Len([array EXCEPT ![h] = c]) = Len(array)
  BY <1>1, <1>2, <1>4, ExceptIs
<1> QED BY <1>2, <1>5, <1>6 DEF Arrays, S

LEMMA InsertOldOK ==
  ASSUME NEW m \in 1 .. MaxLog2, NEW array, ArrayOK(array, m),
         NEW e \in Entry, e.name \notin NamesOf(array)
  PROVE  /\ ArrayOK(InsertOld(array, e, m), m)
         /\ EntriesOf(InsertOld(array, e, m)) = EntriesOf(array) \cup {e}
<1>1. PICK h : h = hash_string(e.name, m) + 1
  OBVIOUS
<1>2. ArrayOK(PutFirst(array, h, e), m) /\ EntriesOf(PutFirst(array, h, e)) = EntriesOf(array) \cup {e}
  BY <1>1, PutFirstOK
<1>3. InsertOld(array, e, m) = PutFirst(array, h, e)
  BY <1>1, Zenon DEF InsertOld
<1> QED BY <1>2, <1>3, Zenon

(* The entries put back so far, one after the other. *)
PutBack(array, old, k, m) ==
  /\ ArrayOK(array, m)
  /\ \A e : e \in EntriesOf(array) <=> \E i \in 1 .. k : e = old[i]

MovedBy(cleared, old, m) ==
  LET moved[k \in 0 .. Len(old)] == IF k = 0 THEN cleared ELSE InsertOld(moved[k - 1], old[k], m)
  IN moved[Len(old)]

LEMMA MovedIs ==
  ASSUME NEW m \in 1 .. MaxLog2, NEW old \in Seq(Entry), Distinct(old),
         NEW cleared, cleared = [i \in 1 .. Capacity(m) |-> <<>>]
  PROVE  PutBack(MovedBy(cleared, old, m), old, Len(old), m)
<1> DEFINE N == Len(old)
<1>1. N \in Nat /\ \A k \in 1 .. N : old[k] \in Entry
  BY RangeIs
<1>2. cleared \in Arrays(m) /\ ArrayOK(cleared, m) /\ EntriesOf(cleared) = {}
  BY EmptyOK DEF Arrays, ArrayOK
<1> HIDE DEF N
<1>3. \E f : f = [k \in 0 .. N |-> IF k = 0 THEN cleared ELSE InsertOld(f[k - 1], old[k], m)]
  <2> DEFINE S == Arrays(m)
             step == [p \in S \X (1 .. N) |-> InsertOld(p[1], old[p[2]], m)]
  <2>1. \A r \in S, k \in 1 .. N : step[<<r, k>>] = InsertOld(r, old[k], m)
    OBVIOUS
  <2>2. \A r \in S : \A k \in 1 .. N : InsertOld(r, old[k], m) \in S
    BY <1>1, InsertType
  <2>3. \A r \in S : \A k \in 1 .. N : step[<<r, k>>] \in S
    BY <2>1, <2>2, Zenon
  <2>4. cleared \in S /\ N \in Nat
    BY <1>1, <1>2
  <2> HIDE DEF step, S
  <2>5. PICK f \in [0 .. N -> S] : f[0] = cleared /\ \A k \in 1 .. N : f[k] = step[<<f[k - 1], k>>]
    <3>1. HasRun(N, S, cleared, step)
      BY <2>3, <2>4, LoopRuns, Zenon
    <3> QED BY <3>1, Zenon DEF HasRun
  <2>6. ASSUME NEW k \in 1 .. N PROVE f[k] = InsertOld(f[k - 1], old[k], m)
    <3>1. f[k - 1] \in S
      BY <1>1
    <3> QED BY <2>1, <2>5, <3>1, Zenon
  <2>7. \A k \in 0 .. N : k = 0 \/ k \in 1 .. N
    BY <1>1
  <2>8. \A k \in 0 .. N : f[k] = IF k = 0 THEN cleared ELSE InsertOld(f[k - 1], old[k], m)
    BY <2>5, <2>6, <2>7, Zenon
  <2>9. f = [k \in 0 .. N |-> IF k = 0 THEN cleared ELSE InsertOld(f[k - 1], old[k], m)]
    BY <2>8
  <2> QED BY <2>9
<1>4. ASSUME NEW f, f = [k \in 0 .. N |-> IF k = 0 THEN cleared ELSE InsertOld(f[k - 1], old[k], m)]
      PROVE  PutBack(f[N], old, N, m)
  <2>1. \A k \in 0 .. N : f[k] = IF k = 0 THEN cleared ELSE InsertOld(f[k - 1], old[k], m)
    BY <1>4, Zenon
  <2>2. f[0] = cleared /\ \A k \in 1 .. N : f[k] = InsertOld(f[k - 1], old[k], m)
    <3>1. 0 \in 0 .. N /\ \A k \in 1 .. N : k \in 0 .. N /\ k # 0
      BY <1>1
    <3> QED BY <2>1, <3>1, Zenon
  <2> DEFINE T == {k \in 0 .. N : PutBack(f[k], old, k, m)}
  <2>3. 0 \in T
    <3>1. 0 \in 0 .. N /\ \A i : i \notin 1 .. 0
      BY <1>1
    <3>2. PutBack(cleared, old, 0, m)
      BY <1>2, <3>1 DEF PutBack
    <3> QED BY <2>2, <3>1, <3>2, Zenon
  <2>4. ASSUME NEW k \in 1 .. N, k - 1 \in T PROVE k \in T
    <3> DEFINE a == f[k - 1]
               e == old[k]
    <3>1. ArrayOK(a, m) /\ \A x : x \in EntriesOf(a) <=> \E i \in 1 .. k - 1 : x = old[i]
      BY <2>4 DEF PutBack
    <3>2. e \in Entry
      BY <1>1
    <3>3. e.name \notin NamesOf(a)
      <4> SUFFICES ASSUME NEW x \in EntriesOf(a), x.name = e.name PROVE FALSE
        BY DEF NamesOf
      <4>1. PICK i \in 1 .. k - 1 : x = old[i]
        BY <3>1
      <4>2. i \in 1 .. Len(old) /\ k \in 1 .. Len(old) /\ i # k
        BY <1>1 DEF N
      <4> QED BY <4>1, <4>2 DEF Distinct
    <3>4. f[k] = InsertOld(a, e, m)
      BY <2>2
    <3>5. ArrayOK(f[k], m) /\ EntriesOf(f[k]) = EntriesOf(a) \cup {e}
      <4> HIDE DEF a, e
      <4> QED BY <3>1, <3>2, <3>3, <3>4, InsertOldOK
    <3>6. \A i : i \in 1 .. k <=> i \in 1 .. k - 1 \/ i = k
      BY <1>1
    <3> HIDE DEF a
    <3>7. \A x : x \in EntriesOf(f[k]) <=> \E i \in 1 .. k : x = old[i]
      BY <3>1, <3>5, <3>6
    <3>8. PutBack(f[k], old, k, m)
      BY <3>5, <3>7 DEF PutBack
    <3>9. k \in 0 .. N
      BY <1>1
    <3> QED BY <3>8, <3>9
  <2>5. N \in Nat /\ T \in SUBSET (0 .. N) /\ N \in 0 .. N
    BY <1>1
  <2> HIDE DEF T
  <2>6. T = 0 .. N
    BY <2>3, <2>4, <2>5, StaysIn, Zenon
  <2>7. N \in T
    BY <2>5, <2>6
  <2> QED BY <2>7 DEF T
<1> DEFINE moved == CHOOSE f : f = [k \in 0 .. N |-> IF k = 0 THEN cleared ELSE InsertOld(f[k - 1], old[k], m)]
<1>5. moved = [k \in 0 .. N |-> IF k = 0 THEN cleared ELSE InsertOld(moved[k - 1], old[k], m)]
  BY <1>3, Zenon
<1>6. PutBack(moved[N], old, N, m)
  BY <1>4, <1>5, Zenon
<1> QED BY <1>6, Zenon DEF N, MovedBy

LEMMA RehashIs ==
  ASSUME NEW t, TableOK(t), t.count >= Capacity(t.log2), t.log2 < MaxLog2
  PROVE  /\ TableOK(Rehash(t))
         /\ EntriesOf(Rehash(t).array) = EntriesOf(t.array)
         /\ Rehash(t).count < Capacity(Rehash(t).log2)
<1> DEFINE m == t.log2 + 1
           c == Capacity(t.log2)
           longer == t.array \o [i \in 1 .. Capacity(m) - t.count |-> <<>>]
           cleared == [i \in DOMAIN longer |-> IF i <= Capacity(m) THEN <<>> ELSE longer[i]]
           old == FlattenSeq(t.array)
           array == MovedBy(cleared, old, m)
           u == Rehash(t)
<1>1. /\ t.log2 \in 1 .. MaxLog2 /\ m \in 1 .. MaxLog2 /\ m \in InitialLog2 .. MaxLog2
      /\ ArrayOK(t.array, t.log2)
  BY Log2Is, HashAssumption DEF TableOK
<1>2. c \in Nat \ {0} /\ Capacity(m) = 2 * c + 1
  BY <1>1, CapacityIs
<1>3. t.count = c
  <2>1. t.count <= c /\ t.count >= c
    BY DEF TableOK
  <2>2. IsFiniteSet(NamesOf(t.array)) /\ Cardinality(NamesOf(t.array)) \in Nat
    <3>1. Distinct(old) /\ old \in Seq(Entry) /\ Range(old) = EntriesOf(t.array)
      BY <1>1, FlattenIs
    <3> HIDE DEF old
    <3>2. IsFiniteSet({e.name : e \in Range(old)})
      BY <3>1, CountIs
    <3>3. IsFiniteSet(NamesOf(t.array))
      BY <3>1, <3>2 DEF NamesOf
    <3> QED BY <3>3, FS_CardinalityType
  <2>3. t.count \in Nat
    BY <2>2 DEF TableOK
  <2> QED BY <1>2, <2>1, <2>3
<1>4. cleared = [i \in 1 .. Capacity(m) |-> <<>>]
  <2> DEFINE S == Seq(Entry)
             d == Capacity(m) - t.count
             more == [i \in 1 .. d |-> <<>>]
  <2>1. d \in Nat /\ c + d = Capacity(m)
    BY <1>2, <1>3
  <2>2. <<>> \in S /\ t.array \in Seq(S) /\ Len(t.array) = c
    BY <1>1 DEF ArrayOK
  <2> HIDE DEF S, d
  <2>3. more \in Seq(S) /\ Len(more) = d
    BY <2>1, <2>2
  <2> HIDE DEF more
  <2>4. t.array \o more \in Seq(S) /\ Len(t.array \o more) = c + d
    BY <2>2, <2>3, ConcatProperties
  <2>5. longer = t.array \o more
    BY DEF more, d
  <2>6. DOMAIN longer = 1 .. Capacity(m)
    BY <2>1, <2>4, <2>5, LenProperties
  <2> HIDE DEF longer, c
  <2>7. \A i \in 1 .. Capacity(m) : i <= Capacity(m)
    BY <1>2
  <2> QED BY <2>6, <2>7
<1>5. old \in Seq(Entry) /\ Distinct(old) /\ Range(old) = EntriesOf(t.array)
  BY <1>1, FlattenIs
<1>6. u = [array |-> array, log2 |-> m, count |-> t.count]
  BY Zenon DEF Rehash, MovedBy
<1> HIDE DEF m, cleared, old
<1>7. PutBack(array, old, Len(old), m)
  BY <1>1, <1>4, <1>5, MovedIs, Zenon
<1> HIDE DEF array, u
<1>8. EntriesOf(array) = EntriesOf(t.array)
  <2>1. \A x : x \in Range(old) <=> \E i \in 1 .. Len(old) : x = old[i]
    BY <1>5, RangeIs
  <2> QED BY <1>5, <1>7, <2>1 DEF PutBack
<1>9. u.array = array /\ u.log2 = m /\ u.count = t.count
  BY <1>6
<1>10. t.count = Cardinality(NamesOf(array))
  BY <1>8 DEF TableOK, NamesOf
<1>11. t.count < Capacity(m)
  BY <1>2, <1>3
<1>12. TableOK(u)
  <2>1. u = [array |-> u.array, log2 |-> u.log2, count |-> u.count]
    BY <1>6, <1>9, Zenon
  <2>2. ArrayOK(array, m)
    BY <1>7 DEF PutBack
  <2>3. t.count <= Capacity(m)
    BY <1>2, <1>3
  <2> QED BY <1>1, <1>9, <1>10, <2>1, <2>2, <2>3 DEF TableOK
<1> QED BY <1>8, <1>9, <1>11, <1>12 DEF u

-----------------------------------------------------------------------------
(* Look-ups and declarations. *)
LEMMA NamesAre ==
  ASSUME NEW t, TableOK(t)
  PROVE  /\ NamesOf(t.array) \subseteq AllNames /\ IsFiniteSet(NamesOf(t.array))
         /\ t.count \in Nat /\ t.count = Cardinality(NamesOf(t.array))
         /\ t.count <= Cardinality(AllNames) /\ Cardinality(AllNames) \in Nat
         /\ NamesOf(t.array) # AllNames => t.count < Cardinality(AllNames)
<1>1. EntriesOf(t.array) \subseteq Entry
  BY Log2Is, ArrayIs
<1>2. NamesOf(t.array) \in SUBSET AllNames
  BY <1>1 DEF NamesOf, Entry
<1>3. /\ IsFiniteSet(NamesOf(t.array)) /\ Cardinality(NamesOf(t.array)) <= Cardinality(AllNames)
      /\ Cardinality(AllNames) = Cardinality(NamesOf(t.array)) => AllNames = NamesOf(t.array)
  BY <1>2, BoundAssumption, FS_Subset
<1>4. Cardinality(NamesOf(t.array)) \in Nat /\ Cardinality(AllNames) \in Nat
  BY <1>3, BoundAssumption, FS_CardinalityType
<1>5. t.count = Cardinality(NamesOf(t.array))
  BY DEF TableOK
<1> QED BY <1>2, <1>3, <1>4, <1>5

LEMMA RoomToGrow ==
  ASSUME NEW t, TableOK(t), NEW name \in AllNames, name \notin NamesOf(t.array),
         t.count >= Capacity(t.log2)
  PROVE  t.log2 < MaxLog2
<1>1. t.count < Cardinality(AllNames) /\ Cardinality(AllNames) \in Nat /\ t.count \in Nat
  BY NamesAre
<1>2. MaxLog2 \in 1 .. MaxLog2
  BY HashAssumption
<1>3. Capacity(MaxLog2) \in Nat /\ Cardinality(AllNames) <= Capacity(MaxLog2)
  BY <1>2, CapacityIs, BoundAssumption DEF Capacity
<1>4. t.log2 # MaxLog2
  BY <1>1, <1>3
<1> QED BY <1>2, <1>4, Log2Is

LEMMA NewEntryIs == ASSUME NEW name \in AllNames PROVE NewEntry(name) \in Entry /\ NewEntry(name).name = name
<1>1. <<>> \in Seq(Nat)
  OBVIOUS
<1> QED BY <1>1 DEF NewEntry, Entry

(* What get_symtable_entry makes of the table before it links a new entry. *)
Grown(t) == IF t.count >= Capacity(t.log2) THEN Rehash(t) ELSE t

LEMMA GrownIs ==
  ASSUME NEW t, TableOK(t), NEW name \in AllNames, name \notin NamesOf(t.array)
  PROVE  /\ TableOK(Grown(t)) /\ EntriesOf(Grown(t).array) = EntriesOf(t.array)
         /\ Grown(t).count < Capacity(Grown(t).log2)
<1>1. CASE t.count >= Capacity(t.log2)
  <2>1. t.log2 < MaxLog2
    BY <1>1, RoomToGrow
  <2>2. Grown(t) = Rehash(t)
    BY <1>1 DEF Grown
  <2> QED BY <1>1, <2>1, <2>2, RehashIs
<1>2. CASE ~(t.count >= Capacity(t.log2))
  <2>1. Grown(t) = t
    BY <1>2 DEF Grown
  <2>2. t.count \in Nat /\ Capacity(t.log2) \in Nat
    BY NamesAre, Log2Is, CapacityIs
  <2> QED BY <1>2, <2>1, <2>2
<1> QED BY <1>1, <1>2

LEMMA GetIs ==
  ASSUME NEW t, TableOK(t), NEW name \in AllNames
  PROVE  /\ TableOK(get_symtable_entry(t, name))
         /\ EntriesOf(get_symtable_entry(t, name).array) =
              IF name \in NamesOf(t.array) THEN EntriesOf(t.array) ELSE EntriesOf(t.array) \cup {NewEntry(name)}
         /\ name \in NamesOf(get_symtable_entry(t, name).array)
<1> DEFINE u == get_symtable_entry(t, name)
<1>1. CASE name \in NamesOf(t.array)
  <2>1. IndexIn(t, name) # 0
    BY <1>1, IndexInIs
  <2>2. u = t
    BY <2>1, Zenon DEF get_symtable_entry
  <2> HIDE DEF u
  <2>3. TableOK(u) /\ EntriesOf(u.array) = EntriesOf(t.array) /\ name \in NamesOf(u.array)
    BY <1>1, <2>2, Zenon
  <2> QED BY <1>1, <2>3 DEF u
<1>2. CASE name \notin NamesOf(t.array)
  <2> DEFINE v == Grown(t)
             e == NewEntry(name)
             array == InsertOld(v.array, e, v.log2)
  <2>1. TableOK(v) /\ EntriesOf(v.array) = EntriesOf(t.array) /\ v.count < Capacity(v.log2)
    BY <1>2, GrownIs
  <2>2. e \in Entry /\ e.name = name
    BY NewEntryIs
  <2>3. ~(IndexIn(t, name) # 0)
    BY <1>2, IndexInIs
  <2>4. u = [v EXCEPT !.array = PutFirst(@, Bucket(v, name), NewEntry(name)), !.count = @ + 1]
    BY <2>3, Zenon DEF get_symtable_entry, Grown
  <2>5. array = PutFirst(v.array, Bucket(v, name), NewEntry(name))
    BY <2>2, Zenon DEF InsertOld, Bucket
  <2>6. v = [array |-> v.array, log2 |-> v.log2, count |-> v.count]
    BY <2>1 DEF TableOK
  <2> HIDE DEF array, u, v, e
  <2>7. u = [array |-> array, log2 |-> v.log2, count |-> v.count + 1]
    BY <2>4, <2>5, <2>6
  <2>8. u.array = array /\ u.log2 = v.log2 /\ u.count = v.count + 1
    BY <2>7
  <2>9. NamesOf(v.array) = NamesOf(t.array)
    BY <2>1 DEF NamesOf
  <2>10. v.log2 \in 1 .. MaxLog2 /\ ArrayOK(v.array, v.log2)
    BY <2>1, Log2Is
  <2>11. ArrayOK(array, v.log2) /\ EntriesOf(array) = EntriesOf(t.array) \cup {e}
    <3>1. e.name \notin NamesOf(v.array)
      BY <1>2, <2>2, <2>9
    <3>2. /\ ArrayOK(InsertOld(v.array, e, v.log2), v.log2)
          /\ EntriesOf(InsertOld(v.array, e, v.log2)) = EntriesOf(v.array) \cup {e}
      BY <2>2, <2>10, <3>1, InsertOldOK
    <3> QED BY <2>1, <3>2 DEF array
  <2>12. NamesOf(array) = NamesOf(t.array) \cup {name}
    BY <2>2, <2>11 DEF NamesOf
  <2>13. IsFiniteSet(NamesOf(t.array)) /\ v.count = Cardinality(NamesOf(t.array)) /\ v.count \in Nat
    <3>1. v.count = Cardinality(NamesOf(v.array)) /\ v.count \in Nat
      BY <2>1, NamesAre
    <3> QED BY <2>9, <3>1, NamesAre
  <2>14. Cardinality(NamesOf(array)) = v.count + 1
    BY <1>2, <2>12, <2>13, FS_AddElement
  <2>15. v.count + 1 <= Capacity(v.log2)
    BY <2>1, <2>10, <2>13, CapacityIs
  <2>16. v.log2 \in InitialLog2 .. MaxLog2
    BY <2>1 DEF TableOK
  <2>17. TableOK(u)
    <3>1. u = [array |-> u.array, log2 |-> u.log2, count |-> u.count]
      BY <2>7, <2>8, Zenon
    <3> QED BY <2>8, <2>11, <2>14, <2>15, <2>16, <3>1 DEF TableOK
  <2>18. EntriesOf(u.array) = EntriesOf(t.array) \cup {NewEntry(name)} /\ name \in NamesOf(u.array)
    BY <2>8, <2>11, <2>12 DEF e
  <2> QED BY <1>2, <2>17, <2>18 DEF u
<1> QED BY <1>1, <1>2

(* A symbol in front of a chain of an entry. *)
WithSymbol(o, kind, level) == [o EXCEPT ![kind] = <<level>> \o @]

LEMMA WithSymbolIs ==
  ASSUME NEW o \in Entry, NEW kind \in Kinds, NEW level \in Nat
  PROVE  /\ WithSymbol(o, kind, level) \in Entry
         /\ WithSymbol(o, kind, level).name = o.name
         /\ WithSymbol(o, kind, level)[kind] = <<level>> \o o[kind]
         /\ \A k \in Kinds : k # kind => WithSymbol(o, kind, level)[k] = o[k]
<1>1. \A k \in Kinds : o[k] \in Seq(Nat)
  BY DEF Entry, Kinds
<1>2. <<level>> \o o[kind] \in Seq(Nat)
  BY <1>1
<1> DEFINE c == <<level>> \o o[kind]
<1>3. WithSymbol(o, kind, level) = [o EXCEPT ![kind] = c]
  BY DEF WithSymbol
<1>4. c \in Seq(Nat)
  BY <1>2
<1> HIDE DEF c
<1>5. CASE kind = "id_kw"
  BY <1>3, <1>4, <1>5 DEF Entry, Kinds, c
<1>6. CASE kind = "id_type"
  BY <1>3, <1>4, <1>6 DEF Entry, Kinds, c
<1>7. CASE kind = "id_ident"
  BY <1>3, <1>4, <1>7 DEF Entry, Kinds, c
<1> QED BY <1>5, <1>6, <1>7 DEF Kinds

(* new_symbol changes the entry o of the name and no other. *)
Declares(t, v, name, kind, level) ==
  \E o \in EntriesOf(get_symtable_entry(t, name).array) :
    /\ o.name = name
    /\ EntriesOf(v.array) = (EntriesOf(get_symtable_entry(t, name).array) \ {o}) \cup {WithSymbol(o, kind, level)}

LEMMA NewSymbolIs ==
  ASSUME NEW t, TableOK(t), NEW name \in AllNames, NEW kind \in Kinds, NEW level \in Nat
  PROVE  /\ TableOK(new_symbol(t, name, kind, level))
         /\ Declares(t, new_symbol(t, name, kind, level), name, kind, level)
<1> DEFINE u == get_symtable_entry(t, name)
           h == Bucket(u, name)
           i == IndexIn(u, name)
           o == u.array[h][i]
           e == WithSymbol(o, kind, level)
           c == [u.array[h] EXCEPT ![i] = e]
           array == [u.array EXCEPT ![h] = c]
           v == new_symbol(t, name, kind, level)
<1>1. TableOK(u) /\ name \in NamesOf(u.array)
  BY GetIs
<1> HIDE DEF u
<1>2. h \in 1 .. Capacity(u.log2) /\ i \in 1 .. Len(u.array[h]) /\ o \in EntriesOf(u.array) /\ o.name = name
  <2>1. i # 0 /\ i \in 0 .. Len(u.array[h])
    BY <1>1, IndexInIs
  <2>2. h \in 1 .. Capacity(u.log2)
    BY <1>1, IndexInIs
  <2>3. u.array[h] \in Seq(Entry)
    BY <1>1, <2>2, Log2Is, ArrayIs
  <2>4. Len(u.array[h]) \in Nat
    BY <2>3, RangeIs
  <2> HIDE DEF h, i
  <2>5. i \in 1 .. Len(u.array[h])
    BY <2>1, <2>4
  <2> QED BY <1>1, <2>1, <2>2, <2>5, IndexInIs DEF h, i
<1>3. u = [array |-> u.array, log2 |-> u.log2, count |-> u.count]
  BY <1>1 DEF TableOK
<1>4. v = [u EXCEPT !.array[h][i][kind] = <<level>> \o @]
  BY Zenon DEF new_symbol, u
<1> HIDE DEF h, i
<1>5. v = [u EXCEPT !.array = array]
  BY <1>4 DEF WithSymbol
<1> HIDE DEF array, v
<1>6. v = [array |-> array, log2 |-> u.log2, count |-> u.count]
  BY <1>3, <1>5
<1>7. v.array = array /\ v.log2 = u.log2 /\ v.count = u.count
  BY <1>6
<1>8. /\ u.log2 \in 1 .. MaxLog2 /\ ArrayOK(u.array, u.log2) /\ EntriesOf(u.array) \subseteq Entry
  BY <1>1, Log2Is, ArrayIs
<1>9. o \in Entry
  BY <1>2, <1>8
<1> HIDE DEF o
<1>10. e \in Entry /\ e.name = o.name
  BY <1>9, WithSymbolIs
<1> HIDE DEF e
<1>11. /\ ArrayOK(array, u.log2)
       /\ EntriesOf(array) = (EntriesOf(u.array) \ {o}) \cup {e}
       /\ NamesOf(array) = NamesOf(u.array)
  <2>1. array = [u.array EXCEPT ![h] = [u.array[h] EXCEPT ![i] = e]]
    BY DEF array
  <2>2. e.name = u.array[h][i].name
    BY <1>10 DEF o
  <2> QED BY <1>2, <1>8, <1>10, <2>1, <2>2, ReplaceOK DEF o
<1>12. TableOK(v)
  <2>1. v = [array |-> v.array, log2 |-> v.log2, count |-> v.count]
    BY <1>6, <1>7, Zenon
  <2>2. /\ u.log2 \in InitialLog2 .. MaxLog2
        /\ u.count = Cardinality(NamesOf(u.array)) /\ u.count <= Capacity(u.log2)
    BY <1>1 DEF TableOK
  <2> QED BY <1>7, <1>11, <2>1, <2>2 DEF TableOK
<1>13. Declares(t, v, name, kind, level)
  <2>1. EntriesOf(v.array) = (EntriesOf(u.array) \ {o}) \cup {WithSymbol(o, kind, level)}
    BY <1>7, <1>11 DEF e
  <2> QED BY <1>2, <2>1 DEF Declares, u
<1> QED BY <1>12, <1>13 DEF v

-----------------------------------------------------------------------------
(* The keywords. *)
KeywordEntry(name) == WithSymbol(NewEntry(name), "id_kw", 0)

LEMMA KeywordsAre ==
  /\ Len(Keywords) \in Nat /\ \A k \in 1 .. Len(Keywords) : Keywords[k] \in AllNames
  /\ \A j, k \in 1 .. Len(Keywords) : Keywords[j] = Keywords[k] => j = k
  /\ Range(Keywords) = {Keywords[k] : k \in 1 .. Len(Keywords)}
<1>1. Keywords \in Seq(AllNames)
  BY KeywordsAssumption
<1>2. DOMAIN Keywords = 1 .. Len(Keywords) /\ Len(Keywords) \in Nat /\ \A k \in 1 .. Len(Keywords) : Keywords[k] \in AllNames
  BY <1>1, RangeIs
<1> QED BY <1>2, KeywordsAssumption DEF IsInjective, Range

(* The first k keywords have been added. *)
Added(t, k) ==
  /\ TableOK(t)
  /\ EntriesOf(t.array) = {KeywordEntry(Keywords[j]) : j \in 1 .. k}

LEMMA KeywordAdded ==
  ASSUME NEW t, NEW k \in 1 .. Len(Keywords), Added(t, k - 1)
  PROVE  Added(new_symbol(t, Keywords[k], "id_kw", 0), k)
<1> DEFINE name == Keywords[k]
           E == EntriesOf(t.array)
           u == get_symtable_entry(t, name)
           v == new_symbol(t, name, "id_kw", 0)
           n == NewEntry(name)
<1>1. TableOK(t) /\ E = {KeywordEntry(Keywords[j]) : j \in 1 .. k - 1}
  BY DEF Added
<1>2. k \in Nat /\ name \in AllNames /\ \A j \in 1 .. k - 1 : Keywords[j] \in AllNames /\ Keywords[j] # name
  BY KeywordsAre
<1>3. \A x \in AllNames : KeywordEntry(x).name = x
  BY NewEntryIs, WithSymbolIs DEF KeywordEntry, Kinds
<1>4. name \notin NamesOf(t.array)
  BY <1>1, <1>2, <1>3 DEF NamesOf
<1>5. EntriesOf(u.array) = E \cup {n} /\ TableOK(u)
  BY <1>1, <1>2, <1>4, GetIs
<1>6. n.name = name
  BY <1>2, NewEntryIs
<1>7. TableOK(v) /\ Declares(t, v, name, "id_kw", 0)
  BY <1>1, <1>2, NewSymbolIs DEF Kinds
<1>8. PICK o \in EntriesOf(u.array) :
         o.name = name /\ EntriesOf(v.array) = (EntriesOf(u.array) \ {o}) \cup {WithSymbol(o, "id_kw", 0)}
  BY <1>7 DEF Declares
<1>9. \A x \in E : x.name # name
  BY <1>4 DEF NamesOf
<1> HIDE DEF E, u, v, n, name
<1>10. o = n
  BY <1>5, <1>8, <1>9
<1>11. EntriesOf(v.array) = E \cup {WithSymbol(n, "id_kw", 0)}
  BY <1>5, <1>6, <1>8, <1>9, <1>10
<1>12. WithSymbol(n, "id_kw", 0) = KeywordEntry(Keywords[k])
  BY DEF KeywordEntry, n, name
<1>13. \A j : j \in 1 .. k <=> j \in 1 .. k - 1 \/ j = k
  BY <1>2
<1>14. EntriesOf(v.array) = {KeywordEntry(Keywords[j]) : j \in 1 .. k}
  BY <1>1, <1>11, <1>12, <1>13
<1> QED BY <1>7, <1>14 DEF Added, v, name

Tables == {t \in [array : Seq(Seq(Entry)), log2 : Nat, count : Nat] : TableOK(t)}

LEMMA TablesAre == ASSUME NEW t, TableOK(t) PROVE t \in Tables
<1>1. t = [array |-> t.array, log2 |-> t.log2, count |-> t.count]
  BY DEF TableOK
<1>2. t.array \in Seq(Seq(Entry)) /\ t.log2 \in Nat /\ t.count \in Nat
  BY Log2Is, NamesAre DEF ArrayOK
<1>3. [array |-> t.array, log2 |-> t.log2, count |-> t.count] \in [array : Seq(Seq(Entry)), log2 : Nat, count : Nat]
  BY <1>2
<1> QED BY <1>1, <1>3 DEF Tables

LEMMA EmptyTableIs ==
  ASSUME NEW m \in InitialLog2 .. MaxLog2
  PROVE  TableOK(EmptyTable(m)) /\ EntriesOf(EmptyTable(m).array) = {}
<1> DEFINE t == EmptyTable(m)
           array == [i \in 1 .. Capacity(m) |-> <<>>]
<1>1. m \in 1 .. MaxLog2
  BY HashAssumption
<1>2. t = [array |-> array, log2 |-> m, count |-> 0]
  BY DEF EmptyTable
<1>3. ArrayOK(array, m) /\ EntriesOf(array) = {} /\ NamesOf(array) = {}
  BY <1>1, EmptyOK
<1> HIDE DEF array, t
<1>4. t.array = array /\ t.log2 = m /\ t.count = 0 /\ t = [array |-> t.array, log2 |-> t.log2, count |-> t.count]
  BY <1>2
<1>5. Cardinality({}) = 0 /\ 0 <= Capacity(m)
  BY <1>1, FS_EmptySet, CapacityIs
<1> QED BY <1>3, <1>4, <1>5 DEF TableOK, t

LEMMA SymtableInitIs ==
  ASSUME NEW m \in InitialLog2 .. MaxLog2
  PROVE  /\ TableOK(symtable_init(m))
         /\ EntriesOf(symtable_init(m).array) = {KeywordEntry(name) : name \in Range(Keywords)}
<1> DEFINE N == Len(Keywords)
           S == Tables
           z == EmptyTable(m)
           Round(t, k) == new_symbol(t, Keywords[k], "id_kw", 0)
<1>1. N \in Nat /\ \A k \in 1 .. N : Keywords[k] \in AllNames
  BY KeywordsAre
<1>2. z \in S /\ Added(z, 0)
  <2>1. \A j : j \notin 1 .. 0
    OBVIOUS
  <2>2. {KeywordEntry(Keywords[j]) : j \in 1 .. 0} = {}
    BY <2>1
  <2> QED BY <2>2, EmptyTableIs, TablesAre DEF Added
<1>3. ASSUME NEW t \in S, NEW k \in 1 .. N PROVE Round(t, k) \in S
  <2>1. TableOK(t) /\ Keywords[k] \in AllNames
    BY <1>1 DEF Tables
  <2>2. TableOK(Round(t, k))
    BY <2>1, NewSymbolIs DEF Kinds
  <2> QED BY <2>2, TablesAre
<1>4. ASSUME NEW k \in 1 .. N, NEW t, Added(t, k - 1) PROVE Added(Round(t, k), k)
  BY <1>4, KeywordAdded
<1> HIDE DEF N, Round, S, z
<1>5. \E f : f = [k \in 0 .. N |-> IF k = 0 THEN z ELSE Round(f[k - 1], k)]
  <2> DEFINE step == [p \in S \X (1 .. N) |-> Round(p[1], p[2])]
  <2>1. \A r \in S, k \in 1 .. N : step[<<r, k>>] = Round(r, k)
    OBVIOUS
  <2>2. \A r \in S : \A k \in 1 .. N : step[<<r, k>>] \in S
    BY <1>3, <2>1, Zenon
  <2> HIDE DEF step
  <2>3. PICK f \in [0 .. N -> S] : f[0] = z /\ \A k \in 1 .. N : f[k] = step[<<f[k - 1], k>>]
    <3>1. HasRun(N, S, z, step)
      BY <1>1, <1>2, <2>2, LoopRuns, Zenon
    <3> QED BY <3>1, Zenon DEF HasRun
  <2>4. ASSUME NEW k \in 1 .. N PROVE f[k] = Round(f[k - 1], k)
    <3>1. f[k - 1] \in S
      BY <1>1
    <3> QED BY <2>1, <2>3, <3>1, Zenon
  <2>5. \A k \in 0 .. N : k = 0 \/ k \in 1 .. N
    BY <1>1
  <2>6. \A k \in 0 .. N : f[k] = IF k = 0 THEN z ELSE Round(f[k - 1], k)
    BY <2>3, <2>4, <2>5, Zenon
  <2>7. f = [k \in 0 .. N |-> IF k = 0 THEN z ELSE Round(f[k - 1], k)]
    BY <2>6
  <2> QED BY <2>7
<1>6. ASSUME NEW f, f = [k \in 0 .. N |-> IF k = 0 THEN z ELSE Round(f[k - 1], k)]
      PROVE  Added(f[N], N)
  <2>1. \A k \in 0 .. N : f[k] = IF k = 0 THEN z ELSE Round(f[k - 1], k)
    BY <1>6, Zenon
  <2>2. f[0] = z /\ \A k \in 1 .. N : f[k] = Round(f[k - 1], k)
    <3>1. 0 \in 0 .. N /\ \A k \in 1 .. N : k \in 0 .. N /\ k # 0
      BY <1>1
    <3> QED BY <2>1, <3>1, Zenon
  <2> DEFINE T == {k \in 0 .. N : Added(f[k], k)}
  <2>3. 0 \in T
    <3>1. 0 \in 0 .. N
      BY <1>1
    <3> QED BY <1>2, <2>2, <3>1, Zenon
  <2>4. ASSUME NEW k \in 1 .. N, k - 1 \in T PROVE k \in T
    <3>1. Added(f[k - 1], k - 1) /\ k \in 0 .. N
      BY <1>1, <2>4
    <3>2. Added(Round(f[k - 1], k), k)
      BY <1>4, <3>1
    <3> QED BY <2>2, <3>1, <3>2, Zenon
  <2>5. N \in Nat /\ T \in SUBSET (0 .. N) /\ N \in 0 .. N
    BY <1>1
  <2> HIDE DEF T
  <2>6. T = 0 .. N
    BY <2>3, <2>4, <2>5, StaysIn, Zenon
  <2>7. N \in T
    BY <2>5, <2>6
  <2> QED BY <2>7 DEF T
<1> DEFINE added == CHOOSE f : f = [k \in 0 .. N |-> IF k = 0 THEN z ELSE Round(f[k - 1], k)]
<1>7. added = [k \in 0 .. N |-> IF k = 0 THEN z ELSE Round(added[k - 1], k)]
  BY <1>5, Zenon
<1>8. Added(added[N], N)
  BY <1>6, <1>7, Zenon
<1>9. symtable_init(m) = added[N]
  BY Zenon DEF symtable_init, N, z, Round
<1> HIDE DEF added
<1>10. Added(symtable_init(m), N)
  BY <1>8, <1>9, Zenon
<1>11. {KeywordEntry(Keywords[j]) : j \in 1 .. N} = {KeywordEntry(name) : name \in Range(Keywords)}
  BY KeywordsAre DEF N
<1> QED BY <1>10, <1>11 DEF Added

-----------------------------------------------------------------------------
(* The end of a scope. *)
LEMMA DeletedIs ==
  ASSUME NEW e \in Entry, scope_level \in Nat
  PROVE  /\ DeleteInEntry(e) \in Entry
         /\ DeleteInEntry(e) = [name |-> e.name, id_kw |-> scope_delete_symbol(e.id_kw),
                                id_type |-> scope_delete_symbol(e.id_type),
                                id_ident |-> scope_delete_symbol(e.id_ident)]
<1>1. DOMAIN e = {"name", "id_kw", "id_type", "id_ident"} /\ e.name \in AllNames
      /\ e.id_kw \in Seq(Nat) /\ e.id_type \in Seq(Nat) /\ e.id_ident \in Seq(Nat)
  BY DEF Entry
<1>2. \A c \in Seq(Nat) : scope_delete_symbol(c) \in Seq(Nat)
  BY DEF scope_delete_symbol
<1>3. DeleteInEntry(e) = [name |-> e.name, id_kw |-> scope_delete_symbol(e.id_kw),
                          id_type |-> scope_delete_symbol(e.id_type),
                          id_ident |-> scope_delete_symbol(e.id_ident)]
  BY <1>1 DEF DeleteInEntry, Kinds
<1> QED BY <1>1, <1>2, <1>3 DEF Entry

LEMMA DeletedChainIs ==
  ASSUME NEW h, NEW m, NEW c, ChainOK(c, h, m), scope_level \in Nat,
         NEW d, d = [j \in DOMAIN c |-> DeleteInEntry(c[j])]
  PROVE  ChainOK(d, h, m) /\ Range(d) = {DeleteInEntry(e) : e \in Range(c)}
<1> DEFINE n == Len(c)
<1>1. n \in Nat /\ DOMAIN c = 1 .. n /\ \A j \in 1 .. n : c[j] \in Entry
  BY RangeIs DEF ChainOK
<1>2. \A j \in 1 .. n : DeleteInEntry(c[j]) \in Entry /\ DeleteInEntry(c[j]).name = c[j].name
  BY <1>1, DeletedIs
<1> HIDE DEF n
<1>3. d = [j \in 1 .. n |-> DeleteInEntry(c[j])]
  BY <1>1
<1>4. d \in Seq(Entry) /\ Len(d) = n
  BY <1>1, <1>2, <1>3
<1>5. \A j \in 1 .. n : d[j] = DeleteInEntry(c[j]) /\ d[j].name = c[j].name
  BY <1>2, <1>3
<1>6. ChainOK(d, h, m)
  BY <1>4, <1>5 DEF ChainOK, n
<1>7. \A x : x \in Range(d) <=> \E j \in 1 .. n : x = DeleteInEntry(c[j])
  BY <1>4, <1>5, RangeIs
<1>8. \A x : x \in Range(c) <=> \E j \in 1 .. n : x = c[j]
  BY RangeIs DEF ChainOK, n
<1> QED BY <1>6, <1>7, <1>8

Deleted(array) == [i \in DOMAIN array |-> [j \in DOMAIN array[i] |-> DeleteInEntry(array[i][j])]]

(* Every entry stays where it is, under its name. *)
LEMMA DeletedArrayIs ==
  ASSUME NEW m \in 1 .. MaxLog2, NEW array, ArrayOK(array, m), scope_level \in Nat,
         NEW new, new = Deleted(array)
  PROVE  /\ ArrayOK(new, m)
         /\ EntriesOf(new) = {DeleteInEntry(e) : e \in EntriesOf(array)}
         /\ NamesOf(new) = NamesOf(array)
<1> DEFINE N == Capacity(m)
<1>1. N \in Nat /\ DOMAIN array = 1 .. N /\ \A h \in 1 .. N : ChainOK(array[h], h, m)
  BY CapacityIs, ArrayIs DEF ArrayOK
<1> HIDE DEF N
<1>2. new = [i \in 1 .. N |-> [j \in DOMAIN array[i] |-> DeleteInEntry(array[i][j])]]
  BY <1>1, Zenon DEF Deleted
<1>3. ASSUME NEW h \in 1 .. N
      PROVE  ChainOK(new[h], h, m) /\ Range(new[h]) = {DeleteInEntry(e) : e \in Range(array[h])}
  <2>1. new[h] = [j \in DOMAIN array[h] |-> DeleteInEntry(array[h][j])]
    BY <1>2, Zenon
  <2>2. ChainOK(array[h], h, m)
    BY <1>1
  <2>3. PICK c, d : c = array[h] /\ d = new[h]
    OBVIOUS
  <2>4. d = [j \in DOMAIN c |-> DeleteInEntry(c[j])] /\ ChainOK(c, h, m)
    BY <2>1, <2>2, <2>3, Zenon
  <2>5. ChainOK(d, h, m) /\ Range(d) = {DeleteInEntry(e) : e \in Range(c)}
    BY <2>4, DeletedChainIs
  <2> QED BY <2>3, <2>5, Zenon
<1>4. DOMAIN new = 1 .. N
  BY <1>2
<1>5. ArrayOK(new, m)
  <2> DEFINE S == Seq(Entry)
             F(i) == [j \in DOMAIN array[i] |-> DeleteInEntry(array[i][j])]
  <2>1. new = [i \in 1 .. N |-> F(i)] /\ \A i \in 1 .. N : F(i) \in S
    BY <1>2, <1>3 DEF ChainOK
  <2> HIDE DEF F, S
  <2>2. new \in Seq(S) /\ Len(new) = N
    BY <1>1, <2>1
  <2> QED BY <1>3, <2>2 DEF ArrayOK, S, N
<1>6. \A x : x \in EntriesOf(new) <=> \E h \in 1 .. N : x \in Range(new[h])
  BY <1>4 DEF EntriesOf
<1>7. \A x : x \in EntriesOf(array) <=> \E h \in 1 .. N : x \in Range(array[h])
  BY <1>1 DEF EntriesOf
<1>8. EntriesOf(new) = {DeleteInEntry(e) : e \in EntriesOf(array)}
  BY <1>3, <1>6, <1>7
<1>9. \A e \in EntriesOf(array) : DeleteInEntry(e).name = e.name
  BY ArrayIs, DeletedIs
<1>10. NamesOf(new) = NamesOf(array)
  BY <1>8, <1>9 DEF NamesOf
<1> QED BY <1>5, <1>8, <1>10

-----------------------------------------------------------------------------
(* The invariant. *)
LEMMA TableSet == ASSUME NEW t, TableOK(t), SetTable(t) PROVE table' = t
  BY DEF TableOK, SetTable, table

LEMMA TableIs ==
  SymInv => /\ TableOK(table) /\ table.array = symtable /\ table.log2 = capacity_log2 /\ table.count = entry_count
            /\ capacity_log2 \in 1 .. MaxLog2 /\ capacity_log2 \in InitialLog2 .. MaxLog2
            /\ ArrayOK(symtable, capacity_log2)
<1> SUFFICES ASSUME SymInv PROVE TableIs!2
  OBVIOUS
<1>1. TableOK(table) /\ table.array = symtable /\ table.log2 = capacity_log2 /\ table.count = entry_count
  BY DEF SymInv, table
<1>2. capacity_log2 \in 1 .. MaxLog2 /\ ArrayOK(symtable, capacity_log2) /\ capacity_log2 \in InitialLog2 .. MaxLog2
  BY <1>1, Log2Is DEF TableOK
<1> QED BY <1>1, <1>2

LEMMA InitInv == Init => SymInv /\ EntriesOf(symtable) = {KeywordEntry(name) : name \in Range(Keywords)}
<1> SUFFICES ASSUME Init PROVE InitInv!2
  OBVIOUS
<1>1. InitialLog2 \in InitialLog2 .. MaxLog2
  BY HashAssumption
<1>2. PICK t : t = symtable_init(InitialLog2)
  OBVIOUS
<1>3. TableOK(t) /\ EntriesOf(t.array) = {KeywordEntry(name) : name \in Range(Keywords)}
  BY <1>1, <1>2, SymtableInitIs, Zenon
<1>4. symtable = t.array /\ capacity_log2 = t.log2 /\ entry_count = t.count /\ scope_level = 0 /\ failed = "no"
  BY <1>2, Zenon DEF Init
<1>5. table = t
  BY <1>3, <1>4 DEF TableOK, table
<1> QED BY <1>3, <1>4, <1>5 DEF SymInv

LEMMA PopScope ==
  ASSUME SymInv, pop_scope
  PROVE  SymInv' /\ EntriesOf(symtable') = {DeleteInEntry(e) : e \in EntriesOf(symtable)}
<1>1. PICK m, new : m = capacity_log2 /\ new = symtable'
  OBVIOUS
<1>2. new = Deleted(symtable)
  BY <1>1, Zenon DEF pop_scope, Deleted
<1>3. m \in 1 .. MaxLog2 /\ ArrayOK(symtable, m) /\ scope_level \in Nat
  BY <1>1, TableIs DEF SymInv
<1>4. /\ ArrayOK(new, m) /\ NamesOf(new) = NamesOf(symtable)
      /\ EntriesOf(new) = {DeleteInEntry(e) : e \in EntriesOf(symtable)}
  BY <1>2, <1>3, DeletedArrayIs
<1>5. table' = [array |-> new, log2 |-> m, count |-> entry_count]
  BY <1>1 DEF table, pop_scope
<1>6. TableOK(table')
  <2>1. /\ m \in InitialLog2 .. MaxLog2 /\ entry_count = Cardinality(NamesOf(symtable))
        /\ entry_count <= Capacity(m)
    BY <1>1, TableIs DEF TableOK
  <2>2. PICK u : u = [array |-> new, log2 |-> m, count |-> entry_count]
    OBVIOUS
  <2>3. TableOK(u)
    BY <1>4, <2>1, <2>2 DEF TableOK
  <2> QED BY <1>5, <2>2, <2>3, Zenon
<1>7. scope_level' \in Nat /\ failed' = failed
  BY <1>3 DEF pop_scope
<1>8. EntriesOf(symtable') = EntriesOf(new)
  BY <1>1
<1> QED BY <1>4, <1>6, <1>7, <1>8 DEF SymInv

LEMMA Lookup ==
  ASSUME SymInv, NEW name \in AllNames, lookup(name)
  PROVE  /\ SymInv'
         /\ \/ EntriesOf(symtable') = EntriesOf(symtable)
            \/ EntriesOf(symtable') = EntriesOf(symtable) \cup {NewEntry(name)}
<1>1. PICK t, u : t = table /\ u = get_symtable_entry(t, name)
  OBVIOUS
<1>2. TableOK(t) /\ t.array = symtable
  BY <1>1, TableIs
<1>3. /\ TableOK(u)
      /\ \/ EntriesOf(u.array) = EntriesOf(t.array)
         \/ EntriesOf(u.array) = EntriesOf(t.array) \cup {NewEntry(name)}
  BY <1>1, <1>2, GetIs
<1>4. SetTable(u) /\ UNCHANGED <<scope_level, failed>>
  BY <1>1, Zenon DEF lookup
<1>5. table' = u /\ symtable' = u.array
  BY <1>3, <1>4, TableSet DEF SetTable
<1>6. SymInv'
  BY <1>3, <1>4, <1>5 DEF SymInv
<1>7. EntriesOf(symtable') = EntriesOf(u.array) /\ EntriesOf(symtable) = EntriesOf(t.array)
  BY <1>2, <1>5
<1> QED BY <1>3, <1>6, <1>7

(* A symbol of the current scope is put in front of a chain of kind. *)
DeclareSymbol(name, kind) ==
  /\ SetTable(new_symbol(table, name, kind, scope_level))
  /\ UNCHANGED <<scope_level, failed>>

LEMMA Declaration ==
  ASSUME SymInv, NEW name \in AllNames, NEW kind \in {"id_type", "id_ident"}, DeclareSymbol(name, kind)
  PROVE  SymInv' /\ Declares(table, table', name, kind, scope_level)
<1>1. PICK t, v, level : t = table /\ level = scope_level /\ v = new_symbol(t, name, kind, level)
  OBVIOUS
<1>2. TableOK(t) /\ t.array = symtable /\ level \in Nat /\ kind \in Kinds
  BY <1>1, TableIs DEF SymInv, Kinds
<1>3. TableOK(v) /\ Declares(t, v, name, kind, level)
  BY <1>1, <1>2, NewSymbolIs
<1>4. SetTable(v) /\ UNCHANGED <<scope_level, failed>>
  BY <1>1, Zenon DEF DeclareSymbol
<1>5. table' = v
  BY <1>3, <1>4, TableSet
<1>6. SymInv'
  BY <1>3, <1>4, <1>5 DEF SymInv
<1>7. Declares(table, table', name, kind, scope_level)
  BY <1>1, <1>3, <1>5, Zenon
<1> QED BY <1>6, <1>7

LEMMA Flush ==
  ASSUME SymInv, symtable_flush
  PROVE  /\ SymInv'
         /\ EntriesOf(symtable') = {KeywordEntry(name) : name \in Range(Keywords)}
<1>1. PICK t, m : m = capacity_log2 /\ t = symtable_init(m)
  OBVIOUS
<1>2. m \in InitialLog2 .. MaxLog2
  BY <1>1, TableIs
<1>3. TableOK(t) /\ EntriesOf(t.array) = {KeywordEntry(name) : name \in Range(Keywords)}
  BY <1>1, <1>2, SymtableInitIs, Zenon
<1>4. SetTable(t) /\ scope_level' = 0 /\ failed' = failed
  BY <1>1, Zenon DEF symtable_flush
<1>5. table' = t /\ symtable' = t.array
  BY <1>3, <1>4, TableSet DEF SetTable
<1>6. SymInv'
  BY <1>3, <1>4, <1>5 DEF SymInv
<1>7. EntriesOf(symtable') = EntriesOf(t.array)
  BY <1>5
<1> QED BY <1>3, <1>6, <1>7, Zenon

LEMMA SameTable ==
  ASSUME SymInv, UNCHANGED <<symtable, capacity_log2, entry_count>>, scope_level' \in Nat,
         failed' \in {"no", "next_in_scope"}
  PROVE  SymInv'
<1>1. table' = table
  BY DEF table
<1>2. TableOK(table')
  BY <1>1, Zenon DEF SymInv
<1> QED BY <1>2 DEF SymInv

LEMMA NamesInAll == Names \subseteq AllNames
  BY DEF AllNames

LEMMA NextInv == SymInv /\ [Next]_vars => SymInv'
<1> SUFFICES ASSUME SymInv, [Next]_vars PROVE SymInv'
  OBVIOUS
<1>1. scope_level \in Nat /\ failed \in {"no", "next_in_scope"}
  BY DEF SymInv
<1>2. CASE push_scope
  BY <1>1, <1>2, SameTable DEF push_scope
<1>3. CASE pop_scope
  BY <1>3, PopScope, Zenon
<1>4. CASE pop_scope_fails
  BY <1>1, <1>4, SameTable DEF pop_scope_fails
<1>5. CASE symtable_flush
  BY <1>5, Flush, Zenon
<1>6. ASSUME NEW name \in AllNames, lookup(name) PROVE SymInv'
  BY <1>6, Lookup, Zenon
<1>7. ASSUME NEW name \in Names, new_type(name) \/ new_ident(name) PROVE SymInv'
  <2>1. name \in AllNames
    BY NamesInAll
  <2>2. DeclareSymbol(name, "id_type") \/ DeclareSymbol(name, "id_ident")
    BY <1>7, Zenon DEF new_type, new_ident, DeclareSymbol
  <2> QED BY <2>1, <2>2, Declaration, Zenon
<1>8. CASE UNCHANGED vars
  BY <1>1, <1>8, SameTable DEF vars
<1> QED BY <1>2, <1>3, <1>4, <1>5, <1>6, <1>7, <1>8, Zenon DEF Next, Call, Stopped

LEMMA Invariant == Spec => []SymInv
  BY InitInv, NextInv, PTL DEF Spec

LEMMA TypesAre == SymInv => TypeOK
<1> SUFFICES ASSUME SymInv PROVE TypeOK
  OBVIOUS
<1>1. symtable \in Seq(Seq(Entry)) /\ capacity_log2 \in InitialLog2 .. MaxLog2
  BY TableIs DEF ArrayOK
<1>2. entry_count \in Nat
  BY TableIs, NamesAre, Zenon
<1> QED BY <1>1, <1>2 DEF SymInv, TypeOK

(* The chains hold scope levels, the capacity stays within the bounds and no *)
(* scope ends that was not entered, whatever operations are called.          *)
THEOREM TypesHold == Spec => []TypeOK
  BY TypesAre, Invariant, PTL

(* The array always has the capacity's length, every entry is in the chain   *)
(* its hash leads to, a name has one entry, and entry_count is the number of *)
(* entries: the assertions of array_get and of the rehash in symtable.c      *)
(* never fail, for every hash function and every number of growths.          *)
THEOREM TableStaysAMap == Spec => []TableIsMap
<1>1. SymInv => TableIsMap
  <2> SUFFICES ASSUME SymInv PROVE TableIsMap
    OBVIOUS
  <2>1. PICK entries : entries = FlattenSeq(symtable)
    OBVIOUS
  <2>2. entries \in Seq(Entry) /\ Distinct(entries) /\ Range(entries) = EntriesOf(symtable)
    BY <2>1, TableIs, FlattenIs, Zenon
  <2>3. Len(entries) \in Nat /\ DOMAIN entries = 1 .. Len(entries)
    BY <2>2, RangeIs
  <2>4. entry_count = Cardinality(NamesOf(symtable)) /\ entry_count <= Capacity(capacity_log2)
    BY TableIs DEF TableOK
  <2>5. entry_count = Len(entries)
    BY <2>2, <2>4, CountIs DEF NamesOf
  <2>6. \A i, j \in DOMAIN entries : entries[i].name = entries[j].name => i = j
    BY <2>2, <2>3 DEF Distinct
  <2>7. Len(symtable) = Capacity(capacity_log2)
    BY TableIs DEF ArrayOK
  <2>8. ASSUME NEW i \in DOMAIN symtable, NEW e \in Range(symtable[i])
        PROVE  hash_string(e.name, capacity_log2) + 1 = i
    <3>1. i \in 1 .. Capacity(capacity_log2) /\ ChainOK(symtable[i], i, capacity_log2)
      BY TableIs, ArrayIs DEF ArrayOK
    <3>2. PICK j \in 1 .. Len(symtable[i]) : e = symtable[i][j]
      BY <3>1, RangeIs DEF ChainOK
    <3> QED BY <3>1, <3>2 DEF ChainOK
  <2> QED BY <2>1, <2>4, <2>5, <2>6, <2>7, <2>8, Zenon DEF TableIsMap
<1> QED BY <1>1, Invariant, PTL

-----------------------------------------------------------------------------
(* The refinement: the entries that have symbols are the map's records.      *)
Symbols(E) == {e \in E : HasSymbol(e)}
Shown == {e \in EntriesInArray : HasSymbol(e)}

LEMMA EntriesInArrayIs == SymInv => EntriesInArray = EntriesOf(symtable)
<1> SUFFICES ASSUME SymInv PROVE EntriesInArray = EntriesOf(symtable)
  OBVIOUS
<1>1. DOMAIN symtable = 1 .. Capacity(capacity_log2)
  BY TableIs, ArrayIs
<1> QED BY <1>1, Zenon DEF EntriesInArray, EntriesOf

LEMMA ShownIs == SymInv => Shown = Symbols(EntriesOf(symtable))
  BY EntriesInArrayIs DEF Shown, Symbols

LEMMA ShownNext == SymInv' => Shown' = Symbols(EntriesOf(symtable'))
<1>1. (SymInv => Shown = Symbols(EntriesOf(symtable)))'
  BY ShownIs, PTL
<1> QED BY <1>1

LEMMA HasSymbolIs ==
  /\ \A e : HasSymbol(e) <=> e.id_kw # <<>> \/ e.id_type # <<>> \/ e.id_ident # <<>>
  /\ \A e : Map!HasSymbol(e) <=> HasSymbol(e)
  BY DEF HasSymbol, Kinds, Map!HasSymbol, Map!Kinds

LEMMA KeywordsShown == Symbols({KeywordEntry(name) : name \in Range(Keywords)}) = Map!Cleared
<1>1. ASSUME NEW name
      PROVE  /\ HasSymbol(KeywordEntry(name))
             /\ KeywordEntry(name) = [Map!NoSymbols(name) EXCEPT !.id_kw = <<0>>]
  <2>1. KeywordEntry(name) = [name |-> name, id_kw |-> <<0>> \o <<>>, id_type |-> <<>>, id_ident |-> <<>>]
    BY DEF KeywordEntry, WithSymbol, NewEntry
  <2>2. <<0>> \o <<>> = <<0>> /\ <<0>> # <<>>
    OBVIOUS
  <2>3. KeywordEntry(name) = [name |-> name, id_kw |-> <<0>>, id_type |-> <<>>, id_ident |-> <<>>]
    BY <2>1, <2>2, Zenon
  <2>4. [Map!NoSymbols(name) EXCEPT !.id_kw = <<0>>] =
        [name |-> name, id_kw |-> <<0>>, id_type |-> <<>>, id_ident |-> <<>>]
    BY DEF Map!NoSymbols
  <2> QED BY <2>2, <2>3, <2>4, HasSymbolIs
<1> QED BY <1>1 DEF Symbols, Map!Cleared

LEMMA NewShown ==
  ASSUME NEW E, NEW name
  PROVE  Symbols(E \cup {NewEntry(name)}) = Symbols(E)
<1>1. ~HasSymbol(NewEntry(name))
  BY HasSymbolIs DEF NewEntry
<1> QED BY <1>1 DEF Symbols

LEMMA PopImplements == ASSUME SymInv, SymInv', pop_scope PROVE Map!pop_scope
<1> DEFINE rest(c) == IF c # <<>> /\ Head(c) >= scope_level THEN Tail(c) ELSE <<>>
           left(e) == [name |-> e.name, id_kw |-> rest(e.id_kw),
                       id_type |-> rest(e.id_type), id_ident |-> rest(e.id_ident)]
           E == EntriesOf(symtable)
<1>1. /\ E \subseteq Entry /\ scope_level \in Nat
      /\ Shown = Symbols(E) /\ Shown' = Symbols({DeleteInEntry(e) : e \in E})
  <2>1. E \subseteq Entry
    BY TableIs, ArrayIs
  <2>2. EntriesOf(symtable') = {DeleteInEntry(e) : e \in E}
    BY PopScope
  <2> QED BY <2>1, <2>2, ShownIs, ShownNext DEF SymInv
<1> HIDE DEF E
<1>2. \A c \in Seq(Nat) : scope_delete_symbol(c) = rest(c)
  BY <1>1 DEF scope_delete_symbol
<1>3. ASSUME NEW e \in E
      PROVE  DeleteInEntry(e) = left(e) /\ (~HasSymbol(e) => ~HasSymbol(left(e)))
  <2>1. e \in Entry /\ e.id_kw \in Seq(Nat) /\ e.id_type \in Seq(Nat) /\ e.id_ident \in Seq(Nat)
    BY <1>1 DEF Entry
  <2>2. /\ scope_delete_symbol(e.id_kw) = rest(e.id_kw)
        /\ scope_delete_symbol(e.id_type) = rest(e.id_type)
        /\ scope_delete_symbol(e.id_ident) = rest(e.id_ident)
    BY <1>2, <2>1, Zenon
  <2>3. DeleteInEntry(e) = left(e)
    BY <1>1, <2>1, <2>2, DeletedIs, Zenon
  <2>4. rest(<<>>) = <<>>
    OBVIOUS
  <2>5. left(e).id_kw = rest(e.id_kw) /\ left(e).id_type = rest(e.id_type) /\ left(e).id_ident = rest(e.id_ident)
    OBVIOUS
  <2> HIDE DEF rest, left
  <2>6. ~HasSymbol(e) => ~HasSymbol(left(e))
    <3> SUFFICES ASSUME ~HasSymbol(e) PROVE ~HasSymbol(left(e))
      OBVIOUS
    <3>1. e.id_kw = <<>> /\ e.id_type = <<>> /\ e.id_ident = <<>>
      BY HasSymbolIs
    <3> QED BY <2>4, <2>5, <3>1, HasSymbolIs
  <2> QED BY <2>3, <2>6
<1> HIDE DEF rest, left
<1>4. Shown' = {e \in {left(d) : d \in Shown} : HasSymbol(e)}
  BY <1>1, <1>3 DEF Symbols
<1>5. Shown' = {e \in {left(d) : d \in Shown} : Map!HasSymbol(e)}
  BY <1>4, HasSymbolIs
<1>6. scope_level' = scope_level - 1 /\ UNCHANGED failed
  BY DEF pop_scope
<1> QED BY <1>5, <1>6, Zenon DEF Map!pop_scope, Shown, left, rest

LEMMA DeclareImplements ==
  ASSUME SymInv, SymInv', NEW name \in AllNames, NEW kind \in {"id_type", "id_ident"}, DeclareSymbol(name, kind)
  PROVE  Map!declare(name, kind)
<1>1. PICK u : u = get_symtable_entry(table, name)
  OBVIOUS
<1> DEFINE G == EntriesOf(u.array)
           S == Shown
           old == {e \in S : e.name = name}
<1>2. TableOK(u) /\ (G = EntriesOf(symtable) \/ G = EntriesOf(symtable) \cup {NewEntry(name)})
  <2>1. PICK t : t = table
    OBVIOUS
  <2>2. TableOK(t) /\ t.array = symtable
    BY <2>1, TableIs
  <2> QED BY <1>1, <2>1, <2>2, GetIs
<1>3. G \subseteq Entry /\ \A d, e \in G : d.name = e.name => d = e
  BY <1>2, Log2Is, ArrayIs
<1>4. S = Symbols(G)
  BY <1>2, ShownIs, NewShown
<1>5. EntriesOf(table'.array) = EntriesOf(symtable')
  BY DEF table
<1>6. PICK o \in G : o.name = name /\ EntriesOf(symtable') = (G \ {o}) \cup {WithSymbol(o, kind, scope_level)}
  <2>1. Declares(table, table', name, kind, scope_level)
    BY Declaration
  <2> QED BY <1>1, <1>5, <2>1, Zenon DEF Declares
<1> DEFINE W == WithSymbol(o, kind, scope_level)
           e0 == IF old = {} THEN Map!NoSymbols(name) ELSE CHOOSE d \in old : TRUE
<1>7. HasSymbol(W)
  <2>1. o \in Entry /\ kind \in Kinds /\ scope_level \in Nat
    BY <1>3, <1>6 DEF Kinds, SymInv
  <2>2. W[kind] = <<scope_level>> \o o[kind] /\ o[kind] \in Seq(Nat)
    BY <2>1, WithSymbolIs DEF Entry, Kinds
  <2>3. W[kind] # <<>>
    BY <2>1, <2>2
  <2> QED BY <2>1, <2>3 DEF HasSymbol
<1> HIDE DEF G, S, W
<1>8. Shown' = Symbols(G \ {o}) \cup {W}
  BY <1>6, <1>7, ShownNext DEF Symbols, W
<1>9. e0 = o /\ S \ old = Symbols(G \ {o})
  <2>1. CASE HasSymbol(o)
    <3>1. old = {o}
      BY <1>3, <1>4, <1>6, <2>1 DEF Symbols
    <3> HIDE DEF old
    <3>2. e0 = o
      BY <3>1
    <3> QED BY <1>4, <3>1, <3>2 DEF Symbols
  <2>2. CASE ~HasSymbol(o)
    <3>1. old = {}
      BY <1>3, <1>4, <1>6, <2>2 DEF Symbols
    <3>2. o = Map!NoSymbols(name)
      <4>1. o \in Entry /\ o.id_kw = <<>> /\ o.id_type = <<>> /\ o.id_ident = <<>>
        BY <1>3, <1>6, <2>2, HasSymbolIs
      <4> QED BY <1>6, <4>1 DEF Entry, Map!NoSymbols
    <3> HIDE DEF old
    <3>3. e0 = o
      BY <3>1, <3>2
    <3> QED BY <1>4, <2>2, <3>1, <3>3 DEF Symbols
  <2> QED BY <2>1, <2>2
<1> HIDE DEF e0, old
<1>10. W = [e0 EXCEPT ![kind] = <<scope_level>> \o @]
  BY <1>9 DEF W, WithSymbol
<1>11. Shown' = (Shown \ old) \cup {[e0 EXCEPT ![kind] = <<scope_level>> \o @]}
  BY <1>8, <1>9, <1>10 DEF S
<1>12. UNCHANGED <<scope_level, failed>>
  BY DEF DeclareSymbol
<1> QED BY <1>11, <1>12, Zenon DEF Map!declare, Shown, e0, old, S

LEMMA StepImplements == SymInv /\ [Next]_vars => [Map!Next]_(Map!vars)
<1> SUFFICES ASSUME SymInv, [Next]_vars PROVE [Map!Next]_(Map!vars)
  OBVIOUS
<1>0. SymInv' /\ Shown = Symbols(EntriesOf(symtable)) /\ Shown' = Symbols(EntriesOf(symtable'))
  BY NextInv, ShownIs, ShownNext
<1>1. Map!vars = <<Shown, scope_level, failed>>
  BY DEF Map!vars, Shown
<1>2. CASE push_scope
  <2>1. Shown' = Shown /\ scope_level' = scope_level + 1 /\ UNCHANGED failed
    BY <1>0, <1>2 DEF push_scope
  <2>2. Map!push_scope
    BY <2>1 DEF Map!push_scope, Shown
  <2> QED BY <2>2 DEF Map!Next
<1>3. CASE pop_scope
  BY <1>0, <1>3, PopImplements, Zenon DEF Map!Next
<1>4. CASE pop_scope_fails
  <2>1. Shown' = Shown /\ failed' = "next_in_scope" /\ UNCHANGED scope_level
    BY <1>0, <1>4 DEF pop_scope_fails
  <2>2. Map!stop
    BY <2>1 DEF Map!stop, Shown
  <2> QED BY <2>2 DEF Map!Next
<1>5. CASE symtable_flush
  <2>1. Shown' = Map!Cleared /\ scope_level' = 0 /\ UNCHANGED failed
    BY <1>0, <1>5, Flush, KeywordsShown DEF symtable_flush
  <2>2. Map!flush
    BY <2>1 DEF Map!flush, Shown
  <2> QED BY <2>2 DEF Map!Next
<1>6. ASSUME NEW name \in AllNames, lookup(name) PROVE UNCHANGED Map!vars
  <2>1. Shown' = Shown
    BY <1>0, <1>6, Lookup, NewShown
  <2> QED BY <1>1, <1>6, <2>1 DEF lookup, Map!vars, Shown
<1>7. ASSUME NEW name \in Names, new_type(name) \/ new_ident(name) PROVE Map!Next
  <2>1. name \in AllNames
    BY NamesInAll
  <2>2. \E kind \in {"id_type", "id_ident"} : DeclareSymbol(name, kind)
    BY <1>7, Zenon DEF new_type, new_ident, DeclareSymbol
  <2>3. \E kind \in {"id_type", "id_ident"} : Map!declare(name, kind)
    BY <1>0, <2>1, <2>2, DeclareImplements, Zenon
  <2> QED BY <2>1, <2>3, Zenon DEF Map!Next
<1>8. CASE UNCHANGED vars
  <2>1. Shown' = Shown
    BY <1>0, <1>8 DEF vars
  <2> QED BY <1>8, <2>1 DEF vars, Map!vars, Shown
<1> QED BY <1>2, <1>3, <1>4, <1>5, <1>6, <1>7, <1>8, Zenon DEF Next, Call, Stopped

(* The hash table behaves as the map from names to chains of symbols that    *)
(* the parser and the declaration pass rely on: no lookup, growth, scope end *)
(* or flush loses, changes or mixes up a symbol of symtable.c.               *)
THEOREM TableImplementsMap == Spec => ImplementsMap
<1>1. Init => Map!Init
  <2> SUFFICES ASSUME Init PROVE Map!Init
    OBVIOUS
  <2>1. Shown = Map!Cleared
    BY InitInv, ShownIs, KeywordsShown
  <2> QED BY <2>1 DEF Init, Map!Init, Shown
<1> QED BY <1>1, StepImplements, Invariant, PTL DEF Spec, ImplementsMap, Map!Spec
=============================================================================
