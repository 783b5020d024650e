------------------------- MODULE BuildSymtableProofs -------------------------
(***************************************************************************)
(* Proofs about the declaration pass, for every tree and every set of      *)
(* names: its scopes are balanced, and its reports are about declarations  *)
(* of the scope they name.                                                 *)
(***************************************************************************)
EXTENDS BuildSymtable, SymtableProofs

-----------------------------------------------------------------------------
(* Counting the tasks from the k-th on. *)
Places(s, set, k) == {i \in k .. Len(s) : s[i] \in set}
From(s, set, k) == Cardinality(Places(s, set, k))

LEMMA PlacesAre ==
  ASSUME NEW s \in Seq(Tasks), NEW set, NEW k \in Nat \ {0}
  PROVE  /\ IsFiniteSet(Places(s, set, k)) /\ Places(s, set, k) \in SUBSET Nat
         /\ From(s, set, k) \in Nat
<1>1. Len(s) \in Nat
  BY LenProperties
<1>2. IsFiniteSet(k .. Len(s)) /\ Places(s, set, k) \subseteq k .. Len(s)
  BY <1>1, FS_Interval DEF Places
<1>3. IsFiniteSet(Places(s, set, k))
  BY <1>2, FS_Subset
<1> QED BY <1>1, <1>3, FS_CardinalityType DEF From, Places

LEMMA FromIs ==
  ASSUME NEW s \in Seq(Tasks), NEW set
  PROVE  /\ From(s, set, Len(s) + 1) = 0
         /\ \A k \in 1 .. Len(s) : From(s, set, k) = From(s, set, k + 1) + (IF s[k] \in set THEN 1 ELSE 0)
<1>1. Len(s) \in Nat
  BY LenProperties
<1>2. Places(s, set, Len(s) + 1) = {}
  BY <1>1 DEF Places
<1>3. From(s, set, Len(s) + 1) = 0
  BY <1>2, FS_EmptySet DEF From
<1>4. ASSUME NEW k \in 1 .. Len(s)
      PROVE  From(s, set, k) = From(s, set, k + 1) + (IF s[k] \in set THEN 1 ELSE 0)
  <2>1. k + 1 \in Nat \ {0} /\ k \in Nat \ {0}
    BY <1>1
  <2>2. IsFiniteSet(Places(s, set, k + 1)) /\ From(s, set, k + 1) \in Nat
    BY <2>1, PlacesAre
  <2>3. CASE s[k] \in set
    <3>1. Places(s, set, k) = Places(s, set, k + 1) \cup {k} /\ k \notin Places(s, set, k + 1)
      BY <1>1, <2>3 DEF Places
    <3>2. Cardinality(Places(s, set, k)) = Cardinality(Places(s, set, k + 1)) + 1
      BY <2>2, <3>1, FS_AddElement
    <3> QED BY <2>3, <3>2 DEF From
  <2>4. CASE s[k] \notin set
    <3>1. Places(s, set, k) = Places(s, set, k + 1)
      BY <1>1, <2>4 DEF Places
    <3> QED BY <2>2, <2>4, <3>1 DEF From
  <2> QED BY <2>3, <2>4
<1> QED BY <1>3, <1>4

LEMMA Shifted ==
  ASSUME NEW n \in Nat, NEW S \in SUBSET Nat, IsFiniteSet(S)
  PROVE  IsFiniteSet({n + i : i \in S}) /\ Cardinality({n + i : i \in S}) = Cardinality(S)
<1> DEFINE T == {n + i : i \in S}
           f == [i \in S |-> n + i]
<1>1. f \in [S -> T] /\ (\A i, j \in S : f[i] = f[j] => i = j) /\ \A y \in T : \E i \in S : f[i] = y
  OBVIOUS
<1> HIDE DEF f, T
<1>2. ExistsBijection(S, T)
  BY <1>1 DEF ExistsBijection, Bijection, Injection, Surjection, IsInjective
<1>3. IsFiniteSet(T) /\ Cardinality(T) = Cardinality(S)
  BY <1>2, FS_Bijection
<1> QED BY <1>3 DEF T

LEMMA FromConcat ==
  ASSUME NEW p \in Seq(Tasks), NEW q \in Seq(Tasks), NEW set
  PROVE  /\ p \o q \in Seq(Tasks) /\ Len(p \o q) = Len(p) + Len(q)
         /\ \A k \in 1 .. Len(p) + 1 : From(p \o q, set, k) = From(p, set, k) + From(q, set, 1)
         /\ \A k \in 1 .. Len(q) + 1 : From(p \o q, set, Len(p) + k) = From(q, set, k)
<1> DEFINE c == p \o q
           m == Len(p)
           n == Len(q)
<1>1. /\ m \in Nat /\ n \in Nat /\ c \in Seq(Tasks) /\ Len(c) = m + n
      /\ \A i \in 1 .. m : c[i] = p[i]
      /\ \A i \in 1 .. n : c[m + i] = q[i]
  OBVIOUS
<1> HIDE DEF c
<1>2. ASSUME NEW k \in 1 .. n + 1
      PROVE  Places(c, set, m + k) = {m + i : i \in Places(q, set, k)}
  <2>1. ASSUME NEW x \in Places(c, set, m + k) PROVE \E i \in Places(q, set, k) : x = m + i
    <3>1. x \in m + k .. m + n /\ c[x] \in set
      BY <1>1 DEF Places
    <3>2. x - m \in k .. n /\ x - m \in 1 .. n /\ m + (x - m) = x
      BY <1>1, <3>1
    <3>3. x - m \in Places(q, set, k)
      BY <1>1, <3>1, <3>2 DEF Places
    <3> QED BY <3>2, <3>3
  <2>2. ASSUME NEW i \in Places(q, set, k) PROVE m + i \in Places(c, set, m + k)
    <3>1. i \in k .. n /\ q[i] \in set /\ i \in 1 .. n
      BY <1>1 DEF Places
    <3>2. c[m + i] \in set /\ m + i \in m + k .. m + n
      BY <1>1, <3>1
    <3> QED BY <1>1, <3>2 DEF Places
  <2> QED BY <2>1, <2>2
<1>3. ASSUME NEW k \in 1 .. n + 1
      PROVE  From(c, set, m + k) = From(q, set, k)
  <2>1. k \in Nat \ {0}
    OBVIOUS
  <2>2. IsFiniteSet(Places(q, set, k)) /\ Places(q, set, k) \in SUBSET Nat
    BY <2>1, PlacesAre
  <2> QED BY <1>1, <1>2, <2>2, Shifted DEF From
<1>4. ASSUME NEW k \in 1 .. m + 1
      PROVE  From(c, set, k) = From(p, set, k) + From(q, set, 1)
  <2>1. k \in Nat \ {0} /\ m + 1 \in Nat \ {0} /\ 1 \in 1 .. n + 1
    BY <1>1
  <2>2. Places(c, set, k) = Places(p, set, k) \cup Places(c, set, m + 1)
    <3>1. ASSUME NEW x PROVE x \in Places(c, set, k) <=> x \in Places(p, set, k) \/ x \in Places(c, set, m + 1)
      <4>1. x \in k .. m + n <=> x \in k .. m \/ x \in m + 1 .. m + n
        BY <1>1, <2>1
      <4>2. x \in k .. m => c[x] = p[x]
        BY <1>1, <2>1
      <4> QED BY <1>1, <4>1, <4>2 DEF Places
    <3> QED BY <3>1
  <2>3. Places(p, set, k) \cap Places(c, set, m + 1) = {}
    BY <1>1, <2>1 DEF Places
  <2>4. IsFiniteSet(Places(p, set, k)) /\ IsFiniteSet(Places(c, set, m + 1))
        /\ From(p, set, k) \in Nat /\ From(c, set, m + 1) \in Nat
    BY <1>1, <2>1, PlacesAre
  <2>5. From(c, set, k) = From(p, set, k) + From(c, set, m + 1)
    <3>1. Cardinality(Places(p, set, k) \cup Places(c, set, m + 1)) =
          Cardinality(Places(p, set, k)) + Cardinality(Places(c, set, m + 1)) - Cardinality({})
      BY <2>3, <2>4, FS_Union
    <3> QED BY <2>2, <2>4, <3>1, FS_EmptySet DEF From
  <2> QED BY <1>3, <2>1, <2>5
<1> QED BY <1>1, <1>3, <1>4 DEF c

-----------------------------------------------------------------------------
(* The pop_scope tasks from the k-th on that have no push_scope there. *)
Depth(s, k) == From(s, {"pop_scope"}, k) - From(s, {"push_scope"}, k)

(* All that is walked lies in a scope; tasks that leave all their scopes. *)
Nested(s) == \A k \in 1 .. Len(s) : Depth(s, k) >= (IF s[k] = "push_scope" THEN 0 ELSE 1)
Closed(s) == s \in Seq(Tasks) /\ Depth(s, 1) = 0 /\ \A k \in 1 .. Len(s) : Depth(s, k) >= 0

LEMMA DepthIs ==
  ASSUME NEW s \in Seq(Tasks)
  PROVE  /\ Len(s) \in Nat /\ \A k \in 1 .. Len(s) + 1 : Depth(s, k) \in Int
         /\ Depth(s, Len(s) + 1) = 0
         /\ \A k \in 1 .. Len(s) :
              Depth(s, k) = Depth(s, k + 1) + (IF s[k] = "pop_scope" THEN 1
                                               ELSE IF s[k] = "push_scope" THEN -1 ELSE 0)
<1>1. Len(s) \in Nat
  BY LenProperties
<1>2. \A k \in 1 .. Len(s) + 1 : From(s, {"pop_scope"}, k) \in Nat /\ From(s, {"push_scope"}, k) \in Nat
  <2>1. \A k \in 1 .. Len(s) + 1 : k \in Nat \ {0}
    BY <1>1
  <2> QED BY <2>1, PlacesAre
<1>3. ASSUME NEW k \in 1 .. Len(s)
      PROVE  Depth(s, k) = Depth(s, k + 1) + (IF s[k] = "pop_scope" THEN 1
                                              ELSE IF s[k] = "push_scope" THEN -1 ELSE 0)
  <2>1. k \in 1 .. Len(s) + 1 /\ k + 1 \in 1 .. Len(s) + 1
    BY <1>1
  <2>2. ASSUME NEW set PROVE From(s, set, k) = From(s, set, k + 1) + (IF s[k] \in set THEN 1 ELSE 0)
    BY FromIs
  <2>3. PICK pop, push : pop = {"pop_scope"} /\ push = {"push_scope"}
    OBVIOUS
  <2>4. /\ From(s, pop, k) = From(s, pop, k + 1) + (IF s[k] \in pop THEN 1 ELSE 0)
        /\ From(s, push, k) = From(s, push, k + 1) + (IF s[k] \in push THEN 1 ELSE 0)
    BY <2>2
  <2>5. /\ Depth(s, k) = From(s, pop, k) - From(s, push, k)
        /\ Depth(s, k + 1) = From(s, pop, k + 1) - From(s, push, k + 1)
        /\ From(s, pop, k + 1) \in Nat /\ From(s, push, k + 1) \in Nat
    BY <1>2, <2>1, <2>3, Zenon DEF Depth
  <2>6. CASE s[k] = "pop_scope"
    <3>1. s[k] \in pop /\ s[k] \notin push
      BY <2>3, <2>6
    <3> QED BY <2>4, <2>5, <2>6, <3>1
  <2>7. CASE s[k] = "push_scope"
    <3>1. s[k] \notin pop /\ s[k] \in push
      BY <2>3, <2>7
    <3> QED BY <2>4, <2>5, <2>7, <3>1
  <2>8. CASE s[k] # "push_scope" /\ s[k] # "pop_scope"
    <3>1. s[k] \notin pop /\ s[k] \notin push
      BY <2>3, <2>8
    <3> QED BY <2>4, <2>5, <2>8, <3>1
  <2> QED BY <2>6, <2>7, <2>8
<1> QED BY <1>1, <1>2, <1>3, FromIs DEF Depth

LEMMA DepthConcat ==
  ASSUME NEW p \in Seq(Tasks), NEW q \in Seq(Tasks)
  PROVE  /\ p \o q \in Seq(Tasks) /\ Len(p \o q) = Len(p) + Len(q)
         /\ \A k \in 1 .. Len(p) + 1 : Depth(p \o q, k) = Depth(p, k) + Depth(q, 1)
         /\ \A k \in 1 .. Len(q) + 1 : Depth(p \o q, Len(p) + k) = Depth(q, k)
<1>1. Len(p) \in Nat /\ Len(q) \in Nat
  BY LenProperties
<1>2. /\ \A k \in 1 .. Len(p) + 1 : k \in Nat \ {0}
      /\ \A k \in 1 .. Len(q) + 1 : k \in Nat \ {0}
      /\ 1 \in Nat \ {0}
  BY <1>1
<1>3. /\ \A set : \A k \in 1 .. Len(p) + 1 : From(p, set, k) \in Nat
      /\ \A set : \A k \in 1 .. Len(q) + 1 : From(q, set, k) \in Nat
      /\ \A set : From(q, set, 1) \in Nat
  BY <1>2, PlacesAre
<1> QED BY <1>3, FromConcat DEF Depth

(* c is p and then q, of m and n tasks. *)
DepthsAdd(p, q, c, m, n) ==
  /\ c \in Seq(Tasks) /\ Len(c) = m + n
  /\ \A k \in 1 .. m + 1 : Depth(c, k) = Depth(p, k) + Depth(q, 1)
  /\ \A k \in 1 .. n + 1 : Depth(c, m + k) = Depth(q, k)

LEMMA DepthOf ==
  ASSUME NEW p, p \in Seq(Tasks), NEW q, q \in Seq(Tasks)
  PROVE  DepthsAdd(p, q, p \o q, Len(p), Len(q))
  BY DepthConcat DEF DepthsAdd

LEMMA OneTask ==
  ASSUME NEW task \in Tasks
  PROVE  /\ <<task>> \in Seq(Tasks) /\ Len(<<task>>) = 1
         /\ Depth(<<task>>, 1) = IF task = "pop_scope" THEN 1 ELSE IF task = "push_scope" THEN -1 ELSE 0
<1> DEFINE s == <<task>>
<1>1. s \in Seq(Tasks) /\ Len(s) = 1 /\ s[1] = task
  OBVIOUS
<1> HIDE DEF s
<1>2. Depth(s, 1) = Depth(s, 1 + 1) + (IF s[1] = "pop_scope" THEN 1 ELSE IF s[1] = "push_scope" THEN -1 ELSE 0)
  BY <1>1, DepthIs
<1>3. Depth(s, 1 + 1) = 0
  BY <1>1, DepthIs
<1> QED BY <1>1, <1>2, <1>3 DEF s

LEMMA ClosedConcat ==
  ASSUME NEW p, Closed(p), NEW q, Closed(q)
  PROVE  Closed(p \o q)
<1>1. p \in Seq(Tasks) /\ q \in Seq(Tasks) /\ Len(p) \in Nat /\ Len(q) \in Nat
  BY LenProperties DEF Closed
<1> DEFINE c == p \o q
<1>2. /\ c \in Seq(Tasks) /\ Len(c) = Len(p) + Len(q)
      /\ \A k \in 1 .. Len(p) + 1 : Depth(c, k) = Depth(p, k) + Depth(q, 1)
      /\ \A k \in 1 .. Len(q) + 1 : Depth(c, Len(p) + k) = Depth(q, k)
  BY <1>1, DepthConcat
<1> HIDE DEF c
<1>3. ASSUME NEW k \in 1 .. Len(c) PROVE Depth(c, k) >= 0
  <2>1. CASE k <= Len(p)
    <3>1. k \in 1 .. Len(p) /\ k \in 1 .. Len(p) + 1
      BY <1>1, <2>1
    <3>2. Depth(p, k) \in Int /\ Depth(p, k) >= 0
      BY <1>1, <3>1, DepthIs DEF Closed
    <3> QED BY <1>2, <3>1, <3>2 DEF Closed
  <2>2. CASE k > Len(p)
    <3>1. k - Len(p) \in 1 .. Len(q) /\ k - Len(p) \in 1 .. Len(q) + 1 /\ Len(p) + (k - Len(p)) = k
      BY <1>1, <1>2, <2>2
    <3> QED BY <1>2, <3>1 DEF Closed
  <2> QED BY <1>1, <2>1, <2>2
<1>4. Depth(c, 1) = 0
  <2>1. 1 \in 1 .. Len(p) + 1
    BY <1>1
  <2> QED BY <1>2, <2>1 DEF Closed
<1> QED BY <1>2, <1>3, <1>4 DEF Closed, c

LEMMA ClosedOne ==
  /\ Closed(<<>>)
  /\ \A list \in Lists : Closed(<<list>>)
<1>1. Closed(<<>>)
  <2>1. <<>> \in Seq(Tasks) /\ Len(<<>>) = 0
    OBVIOUS
  <2>2. Depth(<<>>, Len(<<>>) + 1) = 0
    BY <2>1, DepthIs
  <2>3. Len(<<>>) + 1 = 1 /\ 1 .. Len(<<>>) = {}
    BY <2>1
  <2> QED BY <2>1, <2>2, <2>3 DEF Closed
<1>2. ASSUME NEW list \in Lists PROVE Closed(<<list>>)
  <2>1. list \in Tasks /\ list # "pop_scope" /\ list # "push_scope"
    BY DEF Tasks, Lists
  <2>2. <<list>> \in Seq(Tasks) /\ Len(<<list>>) = 1 /\ Depth(<<list>>, 1) = 0
    BY <2>1, OneTask
  <2> QED BY <2>2 DEF Closed
<1> QED BY <1>1, <1>2

LEMMA ClosedScoped ==
  ASSUME NEW m, Closed(m)
  PROVE  Closed(Scoped(m)) /\ Nested(Scoped(m))
<1> DEFINE a == <<"push_scope">>
           b == <<"pop_scope">>
           p == a \o m
           s == p \o b
<1>1. m \in Seq(Tasks) /\ Len(m) \in Nat /\ Depth(m, 1) = 0
      /\ \A k \in 1 .. Len(m) : Depth(m, k) >= 0 /\ Depth(m, k) \in Int
  BY LenProperties, DepthIs DEF Closed
<1>2. /\ a \in Seq(Tasks) /\ Len(a) = 1 /\ Depth(a, 1) = -1
      /\ b \in Seq(Tasks) /\ Len(b) = 1 /\ Depth(b, 1) = 1
  BY OneTask DEF Tasks
<1>3. s[1] = "push_scope"
  BY <1>1
<1>4. Scoped(m) = s
  BY <1>1 DEF Scoped
<1> HIDE DEF a, b
<1>5. /\ p \in Seq(Tasks) /\ Len(p) = 1 + Len(m)
      /\ \A k \in 1 .. 1 + 1 : Depth(p, k) = Depth(a, k) + Depth(m, 1)
      /\ \A k \in 1 .. Len(m) + 1 : Depth(p, 1 + k) = Depth(m, k)
  <2>1. DepthsAdd(a, m, p, Len(a), Len(m))
    BY <1>1, <1>2, DepthOf, Zenon
  <2>2. DepthsAdd(a, m, p, 1, Len(m))
    BY <1>2, <2>1, Zenon
  <2> HIDE DEF p
  <2> QED BY <2>2 DEF DepthsAdd
<1> HIDE DEF p
<1>6. /\ s \in Seq(Tasks) /\ Len(s) = Len(p) + 1
      /\ \A k \in 1 .. Len(p) + 1 : Depth(s, k) = Depth(p, k) + Depth(b, 1)
      /\ \A k \in 1 .. 1 + 1 : Depth(s, Len(p) + k) = Depth(b, k)
  <2>1. DepthsAdd(p, b, s, Len(p), Len(b))
    BY <1>2, <1>5, DepthOf, Zenon
  <2>2. DepthsAdd(p, b, s, Len(p), 1)
    BY <1>2, <2>1, Zenon
  <2> HIDE DEF s
  <2> QED BY <2>2 DEF DepthsAdd
<1> HIDE DEF s
<1>7. Depth(s, 1) = 0
  <2>1. Depth(p, 1) = -1
    BY <1>1, <1>2, <1>5
  <2>2. 1 \in 1 .. Len(p) + 1
    BY <1>1, <1>5
  <2> QED BY <1>2, <1>6, <2>1, <2>2
<1>8. ASSUME NEW k \in 1 .. Len(s), k # 1 PROVE Depth(s, k) >= 1
  <2>1. CASE k = Len(p) + 1
    BY <1>2, <1>6, <2>1
  <2>2. CASE k # Len(p) + 1
    <3>1. k - 1 \in 1 .. Len(m) /\ k - 1 \in 1 .. Len(m) + 1 /\ 1 + (k - 1) = k /\ k \in 1 .. Len(p) + 1
      BY <1>1, <1>5, <1>6, <1>8, <2>2
    <3>2. Depth(p, k) = Depth(m, k - 1) /\ Depth(s, k) = Depth(p, k) + Depth(b, 1)
      BY <1>5, <1>6, <3>1
    <3> QED BY <1>1, <1>2, <3>1, <3>2
  <2> QED BY <2>1, <2>2
<1>9. Closed(s)
  <2>1. \A k \in 1 .. Len(s) : Depth(s, k) \in Int
    <3>1. \A k \in 1 .. Len(s) : k \in 1 .. Len(s) + 1
      BY <1>1, <1>5, <1>6
    <3> QED BY <1>6, <3>1, DepthIs
  <2> QED BY <1>6, <1>7, <1>8, <2>1 DEF Closed
<1>10. Nested(s)
  <2> SUFFICES ASSUME NEW k \in 1 .. Len(s) PROVE Depth(s, k) >= (IF s[k] = "push_scope" THEN 0 ELSE 1)
    BY DEF Nested
  <2>1. CASE k = 1
    BY <1>3, <1>7, <2>1
  <2>2. CASE k # 1
    <3>1. Depth(s, k) >= 1 /\ Depth(s, k) \in Int
      <4>1. k \in 1 .. Len(s) + 1
        BY <1>1, <1>5, <1>6
      <4> QED BY <1>6, <1>8, <2>2, <4>1, DepthIs
    <3> QED BY <3>1
  <2> QED BY <2>1, <2>2
<1> QED BY <1>4, <1>9, <1>10

LEMMA NestedTail ==
  ASSUME NEW s \in Seq(Tasks), s # <<>>, Nested(s)
  PROVE  /\ Tail(s) \in Seq(Tasks) /\ Nested(Tail(s)) /\ Head(s) \in Tasks
         /\ Depth(s, 1) = Depth(Tail(s), 1) + (IF Head(s) = "pop_scope" THEN 1
                                               ELSE IF Head(s) = "push_scope" THEN -1 ELSE 0)
         /\ Depth(s, 1) >= (IF Head(s) = "push_scope" THEN 0 ELSE 1)
         /\ Depth(Tail(s), 1) \in Int /\ Depth(s, 1) \in Int
<1> DEFINE t == Tail(s)
           a == <<Head(s)>>
<1>1. /\ t \in Seq(Tasks) /\ Len(t) \in Nat /\ Len(s) = Len(t) + 1 /\ s = a \o t
      /\ Head(s) \in Tasks /\ Head(s) = s[1]
      /\ \A k \in 1 .. Len(t) : t[k] = s[1 + k]
  OBVIOUS
<1>2. a \in Seq(Tasks) /\ Len(a) = 1
      /\ Depth(a, 1) = IF Head(s) = "pop_scope" THEN 1 ELSE IF Head(s) = "push_scope" THEN -1 ELSE 0
  BY <1>1, OneTask
<1> HIDE DEF t, a
<1>3. /\ Depth(s, 1) = Depth(a, 1) + Depth(t, 1)
      /\ \A k \in 1 .. Len(t) + 1 : Depth(s, 1 + k) = Depth(t, k)
  <2>1. 1 \in 1 .. Len(a) + 1
    BY <1>2
  <2> QED BY <1>1, <1>2, <2>1, DepthConcat
<1>4. Nested(t)
  <2> SUFFICES ASSUME NEW k \in 1 .. Len(t) PROVE Depth(t, k) >= (IF t[k] = "push_scope" THEN 0 ELSE 1)
    BY DEF Nested
  <2>1. 1 + k \in 1 .. Len(s) /\ k \in 1 .. Len(t) + 1
    BY <1>1
  <2> QED BY <1>1, <1>3, <2>1 DEF Nested
<1>5. Depth(s, 1) >= (IF Head(s) = "push_scope" THEN 0 ELSE 1)
  BY <1>1 DEF Nested
<1>6. Depth(t, 1) \in Int
  <2>1. 1 \in 1 .. Len(t) + 1
    BY <1>1
  <2> QED BY <1>1, <2>1, DepthIs
<1> QED BY <1>1, <1>2, <1>3, <1>4, <1>5, <1>6 DEF t

LEMMA NestedMore ==
  ASSUME NEW s \in Seq(Tasks), Nested(s), Depth(s, 1) >= 1, NEW m, Closed(m)
  PROVE  m \o s \in Seq(Tasks) /\ Nested(m \o s) /\ Depth(m \o s, 1) = Depth(s, 1)
<1> DEFINE c == m \o s
<1>1. m \in Seq(Tasks) /\ Len(m) \in Nat /\ Len(s) \in Nat /\ Depth(m, 1) = 0
      /\ \A k \in 1 .. Len(m) : Depth(m, k) >= 0 /\ Depth(m, k) \in Int
      /\ Depth(s, 1) \in Int
  <2>1. Len(s) \in Nat /\ 1 \in 1 .. Len(s) + 1
    BY LenProperties
  <2>2. Depth(s, 1) \in Int
    BY <2>1, DepthIs
  <2> QED BY <2>1, <2>2, LenProperties, DepthIs DEF Closed
<1>2. /\ c \in Seq(Tasks) /\ Len(c) = Len(m) + Len(s)
      /\ \A k \in 1 .. Len(m) + 1 : Depth(c, k) = Depth(m, k) + Depth(s, 1)
      /\ \A k \in 1 .. Len(s) + 1 : Depth(c, Len(m) + k) = Depth(s, k)
  BY <1>1, DepthConcat
<1>3. \A k \in 1 .. Len(s) : c[Len(m) + k] = s[k]
  BY <1>1
<1> HIDE DEF c
<1>4. ASSUME NEW k \in 1 .. Len(c) PROVE Depth(c, k) >= (IF c[k] = "push_scope" THEN 0 ELSE 1)
  <2>1. CASE k <= Len(m)
    <3>1. k \in 1 .. Len(m) /\ k \in 1 .. Len(m) + 1
      BY <1>1, <2>1
    <3> QED BY <1>1, <1>2, <3>1
  <2>2. CASE k > Len(m)
    <3>1. k - Len(m) \in 1 .. Len(s) /\ k - Len(m) \in 1 .. Len(s) + 1 /\ Len(m) + (k - Len(m)) = k
      BY <1>1, <1>2, <2>2
    <3>2. Depth(c, k) = Depth(s, k - Len(m)) /\ c[k] = s[k - Len(m)]
      BY <1>2, <1>3, <3>1
    <3> QED BY <3>1, <3>2 DEF Nested
  <2> QED BY <1>1, <2>1, <2>2
<1>5. Depth(c, 1) = Depth(s, 1)
  <2>1. 1 \in 1 .. Len(m) + 1
    BY <1>1
  <2> QED BY <1>1, <1>2, <2>1
<1> QED BY <1>2, <1>4, <1>5 DEF Nested, c

-----------------------------------------------------------------------------
(* The steps of the walk. *)
PassesOver(list) ==
  /\ \E more : Closed(more) /\ Visit(list, more)
  /\ UNCHANGED <<vars, history>>
  /\ status' \in {status, "assert"}

Announces(list, name, kind) == \E more : Closed(more) /\ Declare(list, name, kind, more)

Prototype(list, name) == build_symtable_function_proto(list, name)

Kinds2 == {"id_type", "id_ident"}

LEMMA BodiesClosed ==
  ASSUME NEW list \in Lists, NEW body \in Optional(list)
  PROVE  Closed(body) /\ Closed(ScopedIfAny(body)) /\ Closed(Scoped(body))
<1>1. Closed(body)
  BY ClosedOne DEF Optional
<1>2. Closed(Scoped(body))
  BY <1>1, ClosedScoped
<1> QED BY <1>1, <1>2, ClosedOne DEF ScopedIfAny

LEMMA ProgramCases ==
  ASSUME build_symtable_program
  PROVE  \E list \in Lists :
           \/ PassesOver(list)
           \/ \E name \in Names : Prototype(list, name) \/ \E kind \in Kinds2 : Announces(list, name, kind)
<1> DEFINE L == "decl_list"
           Goal == \E name \in Names : Prototype(L, name) \/ \E kind \in Kinds2 : Announces(L, name, kind)
<1>1. L \in Lists /\ {"decl_list", "local_decls", "stmt_list", "local_elements", "method_protos", "fields"} = Lists
  BY DEF Lists
<1>2. ASSUME NEW name \in Names, NEW kind \in Kinds2, NEW more, Closed(more), Declare(L, name, kind, more) PROVE Goal
  BY <1>2, Zenon DEF Announces
<1>3. "id_type" \in Kinds2 /\ "id_ident" \in Kinds2
  BY DEF Kinds2
<1> HIDE DEF Goal
<1>4. CASE PassOver(L)
  <2>1. PassesOver(L)
    BY <1>4, ClosedOne, Zenon DEF PassOver, PassesOver, history
  <2> QED BY <1>1, <2>1, Zenon
<1>5. ASSUME NEW name \in Names, build_symtable_control(name) PROVE Goal
  <2>1. CASE Declare(L, name, "id_type", Scoped(<<>>))
    BY <1>2, <1>3, <2>1, ClosedOne, ClosedScoped, Zenon
  <2>2. ASSUME NEW locals \in Optional("local_decls"), NEW stmts \in Optional("stmt_list"),
               Declare(L, name, "id_type", Scoped(ScopedIfAny(locals) \o Scoped(stmts)))
        PROVE  Goal
    <3>1. Closed(ScopedIfAny(locals)) /\ Closed(Scoped(stmts))
      BY <1>1, BodiesClosed
    <3>2. Closed(ScopedIfAny(locals) \o Scoped(stmts))
      BY <3>1, ClosedConcat, Zenon
    <3>3. Closed(Scoped(ScopedIfAny(locals) \o Scoped(stmts)))
      BY <3>2, ClosedScoped, Zenon
    <3> QED BY <1>2, <1>3, <2>2, <3>3, Zenon
  <2> QED BY <1>5, <2>1, <2>2, Zenon DEF build_symtable_control
<1>6. ASSUME NEW name \in Names, build_symtable_parser(name) PROVE Goal
  <2>1. PICK locals \in Optional("local_elements") : Declare(L, name, "id_type", Scoped(ScopedIfAny(locals)))
    BY <1>6, Zenon DEF build_symtable_parser
  <2>2. Closed(ScopedIfAny(locals))
    BY <1>1, BodiesClosed
  <2>3. Closed(Scoped(ScopedIfAny(locals)))
    BY <2>2, ClosedScoped, Zenon
  <2> QED BY <1>2, <1>3, <2>1, <2>3, Zenon
<1>7. ASSUME NEW name \in Names, build_symtable_extern(name) PROVE Goal
  <2>1. PICK methods \in Optional("method_protos") : Declare(L, name, "id_type", ScopedIfAny(methods))
    BY <1>7, Zenon DEF build_symtable_extern
  <2>2. Closed(ScopedIfAny(methods))
    BY <1>1, BodiesClosed
  <2> QED BY <1>2, <1>3, <2>1, <2>2, Zenon
<1>8. ASSUME NEW name \in Names, build_symtable_struct(name) PROVE Goal
  <2>1. PICK fields \in Optional("fields") : Declare(L, name, "id_type", ScopedIfAny(fields))
    BY <1>8, Zenon DEF build_symtable_struct
  <2>2. Closed(ScopedIfAny(fields))
    BY <1>1, BodiesClosed
  <2> QED BY <1>2, <1>3, <2>1, <2>2, Zenon
<1>9. ASSUME NEW name \in Names,
             \/ build_symtable_package(name) \/ build_symtable_top_level_instantiation(name)
      PROVE  Goal
  BY <1>2, <1>3, <1>9, ClosedOne, Zenon DEF build_symtable_package, build_symtable_top_level_instantiation
<1>10. ASSUME NEW name \in Names, build_symtable_function_proto(L, name) PROVE Goal
  BY <1>10, Zenon DEF Prototype, Goal
<1>11. PassOver(L) \/ Goal
  BY <1>5, <1>6, <1>7, <1>8, <1>9, <1>10, Zenon DEF build_symtable_program
<1> QED BY <1>1, <1>4, <1>11, Zenon DEF Goal

LEMMA InnerCases ==
  ASSUME InnerLists
  PROVE  \E list \in Lists :
           \/ PassesOver(list)
           \/ \E name \in Names : Prototype(list, name) \/ \E kind \in Kinds2 : Announces(list, name, kind)
<1>1. /\ "method_protos" \in Lists /\ "local_elements" \in Lists /\ "fields" \in Lists
      /\ "local_decls" \in Lists /\ "stmt_list" \in Lists
      /\ "id_ident" \in Kinds2
  BY DEF Lists, Kinds2
<1>2. ASSUME NEW name \in Names, build_symtable_function_proto("method_protos", name) PROVE InnerCases!2
  BY <1>1, <1>2, Zenon DEF Prototype
<1>3. ASSUME NEW name \in Names, NEW list \in Lists, Declare(list, name, "id_ident", <<>>) PROVE InnerCases!2
  BY <1>1, <1>3, ClosedOne, Zenon DEF Announces
<1>4. ASSUME NEW list \in Lists, build_symtable_block_statement(list) PROVE InnerCases!2
  <2>1. PICK stmts \in Optional("stmt_list") : Visit(list, Scoped(stmts))
    BY <1>4, Zenon DEF build_symtable_block_statement
  <2>2. Closed(Scoped(stmts))
    BY <1>1, BodiesClosed
  <2>3. UNCHANGED <<vars, status, history>>
    BY <1>4, Zenon DEF build_symtable_block_statement
  <2>4. status' \in {status, "assert"} /\ UNCHANGED <<vars, history>>
    BY <2>3
  <2> QED BY <2>1, <2>2, <2>4, Zenon DEF PassesOver
<1>5. ASSUME NEW list \in Lists, PassOver(list) PROVE InnerCases!2
  <2>1. Visit(list, <<>>) /\ UNCHANGED <<vars, status, history>>
    BY <1>5, Zenon DEF PassOver
  <2>2. status' \in {status, "assert"} /\ UNCHANGED <<vars, history>>
    BY <2>1
  <2> QED BY <2>1, <2>2, ClosedOne, Zenon DEF PassesOver
<1>6. ASSUME NEW list \in Lists, KindNotHandled(list) PROVE InnerCases!2
  <2>1. Visit(list, <<>>) /\ status' = "assert" /\ UNCHANGED <<vars, history>>
    BY <1>6, Zenon DEF KindNotHandled
  <2>2. status' \in {status, "assert"}
    BY <2>1
  <2> QED BY <2>1, <2>2, ClosedOne, Zenon DEF PassesOver
<1>7. \A list \in {"local_decls", "stmt_list"} : list \in Lists
  BY <1>1
<1> QED BY <1>1, <1>2, <1>3, <1>4, <1>5, <1>6, <1>7, Zenon
        DEF InnerLists, build_symtable_local_parser_element, build_symtable_struct_field,
            build_symtable_local_control_declaration

-----------------------------------------------------------------------------
(* What name_is_declared answers. *)
LEMMA EntryOfIs ==
  ASSUME NEW t, TableOK(t), NEW name \in AllNames
  PROVE  /\ EntryOf(t, name) \in EntriesOf(get_symtable_entry(t, name).array)
         /\ EntryOf(t, name).name = name
<1>1. PICK u : u = get_symtable_entry(t, name)
  OBVIOUS
<1>2. TableOK(u) /\ name \in NamesOf(u.array)
  BY <1>1, GetIs
<1>3. IndexIn(u, name) # 0
  BY <1>2, IndexInIs
<1>4. /\ u.array[Bucket(u, name)][IndexIn(u, name)] \in EntriesOf(u.array)
      /\ u.array[Bucket(u, name)][IndexIn(u, name)].name = name
  BY <1>2, <1>3, IndexInIs
<1>5. EntryOf(t, name) = u.array[Bucket(u, name)][IndexIn(u, name)]
  BY <1>1, Zenon DEF EntryOf
<1> QED BY <1>1, <1>4, <1>5, Zenon

Knows(E, name, kind, level) ==
  \E e \in E : e.name = name /\ e[kind] # <<>> /\ Head(e[kind]) >= level

LEMMA DeclaredIs ==
  ASSUME SymInv, NEW name \in AllNames, NEW kind \in Kinds
  PROVE  name_is_declared(name, kind) <=> Knows(EntriesOf(symtable), name, kind, scope_level)
<1>1. PICK t, u, e, E : t = table /\ u = get_symtable_entry(t, name) /\ e = EntryOf(t, name) /\ E = EntriesOf(symtable)
  OBVIOUS
<1>2. TableOK(t) /\ t.array = symtable
  BY <1>1, TableIs
<1>3. /\ TableOK(u) /\ name \in NamesOf(u.array)
      /\ \/ EntriesOf(u.array) = E
         \/ EntriesOf(u.array) = E \cup {NewEntry(name)}
  <2>1. EntriesOf(t.array) = E
    BY <1>1, <1>2
  <2>2. /\ TableOK(u) /\ name \in NamesOf(u.array)
        /\ \/ EntriesOf(u.array) = EntriesOf(t.array)
           \/ EntriesOf(u.array) = EntriesOf(t.array) \cup {NewEntry(name)}
    BY <1>1, <1>2, GetIs
  <2> QED BY <2>1, <2>2, Zenon
<1>4. e \in EntriesOf(u.array) /\ e.name = name
  BY <1>1, <1>2, EntryOfIs, Zenon
<1>5. \A d \in EntriesOf(u.array) : d.name = name => d = e
  BY <1>3, <1>4, Log2Is, ArrayIs
<1>6. name_is_declared(name, kind) <=> e[kind] # <<>> /\ Head(e[kind]) >= scope_level
  BY <1>1, Zenon DEF name_is_declared
<1>7. NewEntry(name)[kind] = <<>>
  BY DEF NewEntry, Kinds
<1> QED BY <1>1, <1>3, <1>4, <1>5, <1>6, <1>7 DEF Knows

-----------------------------------------------------------------------------
(* The steps on the table. *)
LEMMA AllNamesAre == \A name \in Names : name \in AllNames
  BY DEF AllNames

LEMMA AnnounceCases ==
  ASSUME NEW list, NEW name, NEW kind, NEW more, Declare(list, name, kind, more)
  PROVE  /\ Visit(list, more)
         /\ \/ /\ ~name_is_declared(name, kind) /\ DeclareSymbol(name, kind)
               /\ missed' = (missed \/ <<name, kind>> \in Last(declared))
               /\ declared' = [declared EXCEPT ![Len(declared)] = @ \cup {<<name, kind>>}]
               /\ recent' = recent \cup {<<name, kind>>}
               /\ UNCHANGED <<status, reported, overloaded>>
            \/ /\ name_is_declared(name, kind) /\ lookup(name)
               /\ status' = "redeclared"
               /\ reported' = {<<name, kind>>}
               /\ UNCHANGED <<declared, recent, overloaded, missed>>
<1>1. Visit(list, more)
  BY Zenon DEF Declare
<1>2. CASE /\ ~name_is_declared(name, kind)
           /\ SetTable(new_symbol(table, name, kind, scope_level))
           /\ missed' = (missed \/ <<name, kind>> \in Last(declared))
           /\ declared' = [declared EXCEPT ![Len(declared)] = @ \cup {<<name, kind>>}]
           /\ recent' = recent \cup {<<name, kind>>}
           /\ UNCHANGED <<scope_level, failed, status, reported, overloaded>>
  <2>1. UNCHANGED <<scope_level, failed>> /\ UNCHANGED <<status, reported, overloaded>>
    BY <1>2
  <2>2. DeclareSymbol(name, kind)
    BY <1>2, <2>1, Zenon DEF DeclareSymbol
  <2> QED BY <1>1, <1>2, <2>1, <2>2, Zenon
<1>3. CASE /\ name_is_declared(name, kind)
           /\ SetTable(get_symtable_entry(table, name))
           /\ status' = "redeclared"
           /\ reported' = {<<name, kind>>}
           /\ UNCHANGED <<scope_level, failed, declared, recent, overloaded, missed>>
  <2>1. UNCHANGED <<scope_level, failed>> /\ UNCHANGED <<declared, recent, overloaded, missed>>
    BY <1>3
  <2>2. lookup(name)
    BY <1>3, <2>1, Zenon DEF lookup
  <2> QED BY <1>1, <1>3, <2>1, <2>2, Zenon
<1> QED BY <1>2, <1>3, Zenon DEF Declare

LEMMA PrototypeCases ==
  ASSUME NEW list, NEW name, Prototype(list, name)
  PROVE  /\ Visit(list, <<>>) /\ DeclareSymbol(name, "id_ident")
         /\ overloaded' = (overloaded \/ name_is_declared(name, "id_ident"))
         /\ declared' = [declared EXCEPT ![Len(declared)] = @ \cup {<<name, "id_ident">>}]
         /\ recent' = recent \cup {<<name, "id_ident">>}
         /\ UNCHANGED <<status, reported, missed>>
  BY Zenon DEF Prototype, build_symtable_function_proto, new_ident, DeclareSymbol

(* The walk in nine cases. *)
LEMMA WalkCases ==
  ASSUME WalkNext
  PROVE  \/ EnterScope \/ LeaveScope \/ LeaveScopeFails \/ EndOfList \/ Finish \/ Halted
         \/ \E list \in Lists : PassesOver(list)
         \/ \E list \in Lists, name \in Names : Prototype(list, name)
         \/ \E list \in Lists, name \in Names, kind \in Kinds2 : Announces(list, name, kind)
  BY ProgramCases, InnerCases, Zenon DEF WalkNext

LEMMA SymKept == ASSUME SymInv, [WalkNext]_allvars PROVE SymInv'
<1>1. scope_level \in Nat /\ failed \in {"no", "next_in_scope"}
  BY DEF SymInv
<1>2. ASSUME UNCHANGED vars PROVE SymInv'
  BY <1>1, <1>2, SameTable DEF vars
<1>3. CASE EnterScope
  BY <1>1, <1>3, SameTable DEF EnterScope, push_scope
<1>4. CASE LeaveScope
  BY <1>4, PopScope, Zenon DEF LeaveScope
<1>5. CASE LeaveScopeFails
  BY <1>1, <1>5, SameTable DEF LeaveScopeFails, pop_scope_fails
<1>6. CASE EndOfList \/ Finish \/ Halted \/ UNCHANGED allvars
  <2>1. UNCHANGED vars
    BY <1>6 DEF EndOfList, Finish, Halted, allvars
  <2> QED BY <1>2, <2>1
<1>7. ASSUME NEW list \in Lists, PassesOver(list) PROVE SymInv'
  <2>1. UNCHANGED vars
    BY <1>7 DEF PassesOver
  <2> QED BY <1>2, <2>1
<1>8. ASSUME NEW list \in Lists, NEW name \in Names, Prototype(list, name) PROVE SymInv'
  <2>1. DeclareSymbol(name, "id_ident") /\ name \in AllNames
    BY <1>8, PrototypeCases, AllNamesAre, Zenon
  <2> QED BY <2>1, Declaration, Zenon
<1>9. ASSUME NEW list \in Lists, NEW name \in Names, NEW kind \in Kinds2, Announces(list, name, kind) PROVE SymInv'
  <2>1. DeclareSymbol(name, kind) \/ lookup(name)
    BY <1>9, AnnounceCases, Zenon DEF Announces
  <2>2. name \in AllNames /\ kind \in {"id_type", "id_ident"}
    BY AllNamesAre, Zenon DEF Kinds2
  <2> QED BY <2>1, <2>2, Declaration, Lookup, Zenon
<1> QED BY <1>3, <1>4, <1>5, <1>6, <1>7, <1>8, <1>9, WalkCases, Zenon

-----------------------------------------------------------------------------
(* Types and scopes. *)
Pairs == Names \X Kinds

WalkTypes ==
  /\ todo \in Seq(Tasks)
  /\ status \in {"run", "redeclared", "assert", "done"}
  /\ elements \in 1 .. MaxElements /\ fresh \in BOOLEAN
  /\ declared \in Seq(SUBSET Pairs)
  /\ recent \subseteq Pairs /\ reported \subseteq Pairs
  /\ overloaded \in BOOLEAN /\ missed \in BOOLEAN

NestInv ==
  /\ Nested(todo)
  /\ scope_level = Depth(todo, 1) /\ scope_level = Len(declared)
  /\ status = "done" => todo = <<>>

WalkInv == SymInv /\ WalkTypes /\ NestInv

LEMMA CountInIs ==
  ASSUME NEW s \in Seq(Tasks), NEW set
  PROVE  CountIn(s, set) = From(s, set, 1) /\ CountIn(s, set) \in Nat
<1>1. DOMAIN s = 1 .. Len(s) /\ 1 \in Nat \ {0}
  BY LenProperties
<1>2. CountIn(s, set) = From(s, set, 1)
  BY <1>1, Zenon DEF CountIn, From, Places
<1> QED BY <1>1, <1>2, PlacesAre

LEMMA DeclaredMore ==
  ASSUME NEW d \in Seq(SUBSET Pairs), NEW p \in Pairs, NEW e, e = [d EXCEPT ![Len(d)] = @ \cup {p}]
  PROVE  /\ e \in Seq(SUBSET Pairs) /\ Len(e) = Len(d)
         /\ \A i \in 1 .. Len(d) : d[i] \subseteq e[i]
         /\ Len(d) > 0 => p \in e[Len(d)]
<1>1. Len(d) \in Nat /\ DOMAIN d = 1 .. Len(d) /\ \A i \in 1 .. Len(d) : d[i] \in SUBSET Pairs
  BY RangeIs
<1>2. CASE Len(d) = 0
  <2>1. e = d
    BY <1>1, <1>2
  <2>2. e \in Seq(SUBSET Pairs) /\ Len(e) = Len(d) /\ \A i \in 1 .. Len(d) : d[i] \subseteq e[i]
    BY <2>1, Zenon
  <2> QED BY <1>2, <2>2
<1>3. CASE Len(d) # 0
  <2> DEFINE n == Len(d)
             x == d[n] \cup {p}
  <2>1. n \in 1 .. n /\ x \in SUBSET Pairs
    BY <1>1, <1>3
  <2>2. e = [d EXCEPT ![n] = x]
    OBVIOUS
  <2> DEFINE S == SUBSET Pairs
  <2>3. d \in Seq(S) /\ x \in S
    BY <2>1
  <2> HIDE DEF n, x, S
  <2>4. [d EXCEPT ![n] = x] \in Seq(S) /\ Len([d EXCEPT ![n] = x]) = Len(d)
    BY <2>1, <2>3, ExceptIs DEF n
  <2>5. \A i \in 1 .. Len(d) : e[i] = IF i = n THEN x ELSE d[i]
    BY <1>1, <2>2
  <2> QED BY <2>1, <2>2, <2>4, <2>5 DEF n, x, S
<1> QED BY <1>2, <1>3

LEMMA VisitIs ==
  ASSUME WalkInv, NEW list \in Lists, NEW more, Closed(more), Visit(list, more)
  PROVE  /\ todo' \in Seq(Tasks) /\ Nested(todo') /\ Depth(todo', 1) = scope_level
         /\ scope_level >= 1 /\ status = "run" /\ elements' \in 1 .. MaxElements /\ fresh' \in BOOLEAN
         /\ failed = "no"
<1>1. PICK s, new : s = todo /\ new = todo'
  OBVIOUS
<1>2. /\ status = "run" /\ failed = "no" /\ s # <<>> /\ Head(s) = list /\ new = more \o s
      /\ fresh' = FALSE /\ elements' <= MaxElements
      /\ elements' = elements + (IF fresh THEN 0 ELSE 1) + CountIn(more, Lists)
  BY <1>1, Zenon DEF Visit, Running
<1>3. s \in Seq(Tasks) /\ Nested(s) /\ scope_level = Depth(s, 1) /\ more \in Seq(Tasks)
  BY <1>1 DEF WalkInv, WalkTypes, NestInv, Closed
<1>4. list # "push_scope"
  BY DEF Lists
<1>5. Depth(s, 1) >= 1
  BY <1>2, <1>3, <1>4, NestedTail
<1>6. new \in Seq(Tasks) /\ Nested(new) /\ Depth(new, 1) = Depth(s, 1)
  BY <1>2, <1>3, <1>5, NestedMore
<1>7. elements' \in 1 .. MaxElements
  <2>1. CountIn(more, Lists) \in Nat /\ elements \in 1 .. MaxElements /\ fresh \in BOOLEAN
    BY <1>3, CountInIs DEF WalkInv, WalkTypes
  <2> QED BY <1>2, <2>1, ElementsAssumption
<1> QED BY <1>1, <1>2, <1>3, <1>5, <1>6, <1>7

LEMMA AnnounceKept ==
  ASSUME WalkInv, NEW list \in Lists, NEW name \in Names, NEW kind \in Kinds2, Announces(list, name, kind)
  PROVE  WalkTypes' /\ NestInv'
<1>1. PICK more : Closed(more) /\ Declare(list, name, kind, more)
  BY DEF Announces
<1>2. Visit(list, more)
  BY <1>1, AnnounceCases, Zenon
<1>3. /\ todo' \in Seq(Tasks) /\ Nested(todo') /\ Depth(todo', 1) = scope_level
      /\ scope_level >= 1 /\ status = "run" /\ elements' \in 1 .. MaxElements /\ fresh' \in BOOLEAN
  BY <1>1, <1>2, VisitIs, Zenon
<1>4. <<name, kind>> \in Pairs
  BY DEF Pairs, Kinds, Kinds2
<1>5. PICK d, p, new : d = declared /\ p = <<name, kind>> /\ new = declared'
  OBVIOUS
<1>6. d \in Seq(SUBSET Pairs) /\ scope_level = Len(d)
  BY <1>5 DEF WalkInv, WalkTypes, NestInv
<1>7. scope_level' = scope_level
  BY <1>1, AnnounceCases, Zenon DEF DeclareSymbol, lookup
<1>8. CASE /\ missed' = (missed \/ <<name, kind>> \in Last(declared))
           /\ declared' = [declared EXCEPT ![Len(declared)] = @ \cup {<<name, kind>>}]
           /\ recent' = recent \cup {<<name, kind>>}
           /\ UNCHANGED <<status, reported, overloaded>>
  <2>1. new = [d EXCEPT ![Len(d)] = @ \cup {p}]
    BY <1>5, <1>8, Zenon
  <2>2. new \in Seq(SUBSET Pairs) /\ Len(new) = Len(d)
    BY <1>4, <1>5, <1>6, <2>1, DeclaredMore
  <2>3. missed' \in BOOLEAN
    BY <1>8, Zenon DEF WalkInv, WalkTypes
  <2>4. status' = "run" /\ reported' = reported /\ overloaded' = overloaded /\ recent' \subseteq Pairs
    BY <1>3, <1>4, <1>8 DEF WalkInv, WalkTypes
  <2>5. WalkTypes'
    BY <1>3, <1>5, <2>2, <2>3, <2>4 DEF WalkInv, WalkTypes
  <2>6. NestInv'
    BY <1>3, <1>5, <1>6, <1>7, <2>2, <2>4 DEF NestInv
  <2> QED BY <2>5, <2>6
<1>9. CASE /\ status' = "redeclared"
           /\ reported' = {<<name, kind>>}
           /\ UNCHANGED <<declared, recent, overloaded, missed>>
  <2>1. WalkTypes'
    BY <1>3, <1>4, <1>9 DEF WalkInv, WalkTypes
  <2>2. NestInv'
    BY <1>3, <1>5, <1>6, <1>7, <1>9 DEF NestInv
  <2> QED BY <2>1, <2>2
<1> QED BY <1>1, <1>8, <1>9, AnnounceCases, Zenon

LEMMA PrototypeKept ==
  ASSUME WalkInv, NEW list \in Lists, NEW name \in Names, Prototype(list, name)
  PROVE  WalkTypes' /\ NestInv'
<1>1. /\ Visit(list, <<>>) /\ DeclareSymbol(name, "id_ident")
      /\ overloaded' = (overloaded \/ name_is_declared(name, "id_ident"))
      /\ declared' = [declared EXCEPT ![Len(declared)] = @ \cup {<<name, "id_ident">>}]
      /\ recent' = recent \cup {<<name, "id_ident">>}
      /\ UNCHANGED <<status, reported, missed>>
  BY PrototypeCases, Zenon
<1>2. /\ todo' \in Seq(Tasks) /\ Nested(todo') /\ Depth(todo', 1) = scope_level
      /\ scope_level >= 1 /\ status = "run" /\ elements' \in 1 .. MaxElements /\ fresh' \in BOOLEAN
  BY <1>1, ClosedOne, VisitIs, Zenon
<1>3. PICK d, p, new : d = declared /\ p = <<name, "id_ident">> /\ new = declared'
  OBVIOUS
<1>4. p \in Pairs
  BY <1>3 DEF Pairs, Kinds
<1>5. d \in Seq(SUBSET Pairs) /\ scope_level = Len(d)
  BY <1>3 DEF WalkInv, WalkTypes, NestInv
<1>6. scope_level' = scope_level
  BY <1>1 DEF DeclareSymbol
<1>7. new = [d EXCEPT ![Len(d)] = @ \cup {p}]
  BY <1>1, <1>3, Zenon
<1>8. new \in Seq(SUBSET Pairs) /\ Len(new) = Len(d)
  BY <1>4, <1>5, <1>7, DeclaredMore
<1>9. overloaded' \in BOOLEAN
  BY <1>1, Zenon DEF WalkInv, WalkTypes
<1>10. status' = "run" /\ reported' = reported /\ missed' = missed /\ recent' \subseteq Pairs
  BY <1>1, <1>2, <1>3, <1>4 DEF WalkInv, WalkTypes
<1>11. WalkTypes'
  BY <1>2, <1>3, <1>8, <1>9, <1>10 DEF WalkInv, WalkTypes
<1>12. NestInv'
  BY <1>2, <1>3, <1>5, <1>6, <1>8, <1>10 DEF NestInv
<1> QED BY <1>11, <1>12

LEMMA FrontIs ==
  ASSUME NEW S, NEW d, d \in Seq(S), Len(d) >= 1
  PROVE  /\ Front(d) \in Seq(S) /\ Len(Front(d)) = Len(d) - 1
         /\ \A i \in 1 .. Len(d) - 1 : Front(d)[i] = d[i]
<1>1. PICK n : n = Len(d) /\ n \in Nat /\ n >= 1
  BY LenProperties
<1>2. Front(d) = SubSeq(d, 1, n - 1)
  BY <1>1, Zenon DEF Front
<1>3. \A i \in 1 .. n - 1 : i \in 1 .. Len(d)
  BY <1>1
<1>4. /\ SubSeq(d, 1, n - 1) \in Seq(S)
      /\ Len(SubSeq(d, 1, n - 1)) = IF 1 <= n - 1 THEN n - 1 - 1 + 1 ELSE 0
      /\ \A i \in 1 .. n - 1 : SubSeq(d, 1, n - 1)[i] = d[i]
  <2> DEFINE e == SubSeq(d, 1, n - 1)
  <2>1. e = [i \in 1 .. n - 1 |-> d[i]]
    BY <1>1, SubSeqProperties
  <2> HIDE DEF e
  <2>2. \A i \in 1 .. n - 1 : d[i] \in S
    BY <1>3, ElementOfSeq
  <2> QED BY <1>1, <2>1, <2>2 DEF e
<1> QED BY <1>1, <1>2, <1>4

LEMMA ScopeKept ==
  ASSUME WalkInv, EnterScope \/ LeaveScope
  PROVE  WalkTypes' /\ NestInv' /\ (LeaveScope => scope_level >= 1)
<1>1. PICK s, t, d, new : s = todo /\ t = Tail(s) /\ d = declared /\ new = declared'
  OBVIOUS
<1>2. /\ status = "run" /\ s # <<>> /\ todo' = t /\ fresh' \in BOOLEAN /\ recent' = {}
      /\ UNCHANGED <<status, elements, reported, overloaded, missed>>
  BY <1>1 DEF EnterScope, LeaveScope, Running
<1>3. s \in Seq(Tasks) /\ Nested(s) /\ scope_level = Depth(s, 1) /\ scope_level = Len(d) /\ d \in Seq(SUBSET Pairs)
  BY <1>1 DEF WalkInv, WalkTypes, NestInv
<1>4. /\ t \in Seq(Tasks) /\ Nested(t) /\ Depth(t, 1) \in Int
      /\ Depth(s, 1) = Depth(t, 1) + (IF Head(s) = "pop_scope" THEN 1
                                      ELSE IF Head(s) = "push_scope" THEN -1 ELSE 0)
      /\ Depth(s, 1) >= (IF Head(s) = "push_scope" THEN 0 ELSE 1)
  BY <1>1, <1>2, <1>3, NestedTail
<1>5. Len(d) \in Nat
  BY <1>3, LenProperties
<1>6. /\ new \in Seq(SUBSET Pairs) /\ scope_level' = Depth(t, 1) /\ scope_level' = Len(new)
      /\ (LeaveScope => scope_level >= 1)
  <2>1. CASE EnterScope
    <3>1. Head(s) = "push_scope" /\ scope_level' = scope_level + 1 /\ new = Append(d, {})
      BY <1>1, <2>1 DEF EnterScope, Running, push_scope
    <3>2. ~LeaveScope
      BY <1>1, <3>1 DEF LeaveScope, Running
    <3>3. {} \in SUBSET Pairs
      OBVIOUS
    <3> DEFINE S == SUBSET Pairs
    <3>4. {} \in S /\ d \in Seq(S)
      BY <1>3
    <3> HIDE DEF S
    <3>5. Append(d, {}) \in Seq(S) /\ Len(Append(d, {})) = Len(d) + 1
      BY <3>4
    <3>6. Depth(t, 1) = scope_level + 1
      BY <1>3, <1>4, <3>1
    <3> QED BY <1>3, <3>1, <3>2, <3>5, <3>6 DEF S
  <2>2. CASE LeaveScope
    <3>1. Head(s) = "pop_scope" /\ scope_level' = scope_level - 1 /\ new = Front(d)
      BY <1>1, <2>2 DEF LeaveScope, Running, pop_scope
    <3>2. scope_level >= 1 /\ Depth(t, 1) = scope_level - 1
      BY <1>3, <1>4, <3>1
    <3> DEFINE S == SUBSET Pairs
    <3>3. d \in Seq(S) /\ Len(d) >= 1 /\ Len(d) \in Nat
      BY <1>3, <1>5, <3>2
    <3> HIDE DEF S
    <3>4. Front(d) \in Seq(S) /\ Len(Front(d)) = Len(d) - 1
        BY FrontIs, <3>3
    <3> QED BY <1>3, <3>1, <3>2, <3>4 DEF S
  <2> QED BY <2>1, <2>2
<1>7. WalkTypes'
  BY <1>1, <1>2, <1>4, <1>6 DEF WalkInv, WalkTypes
<1>8. NestInv'
  BY <1>1, <1>2, <1>4, <1>6 DEF NestInv
<1> QED BY <1>6, <1>7, <1>8

LEMMA EndKept == ASSUME WalkInv, EndOfList PROVE WalkTypes' /\ NestInv'
<1>1. PICK s, t : s = todo /\ t = Tail(s)
  OBVIOUS
<1>2. PICK list \in Lists : Running(list)
  BY DEF EndOfList
<1>3. status = "run" /\ s # <<>> /\ Head(s) = list
  BY <1>1, <1>2 DEF Running
<1>4. /\ todo' = t /\ fresh' = FALSE
      /\ UNCHANGED <<vars, status, elements, history>>
  BY <1>1, Zenon DEF EndOfList
<1>5. list # "push_scope" /\ list # "pop_scope"
  BY DEF Lists
<1>6. s \in Seq(Tasks) /\ Nested(s) /\ scope_level = Depth(s, 1)
  BY <1>1 DEF WalkInv, WalkTypes, NestInv
<1>7. t \in Seq(Tasks) /\ Nested(t) /\ Depth(t, 1) \in Int /\ Depth(s, 1) = Depth(t, 1) + 0
  BY <1>1, <1>3, <1>5, <1>6, NestedTail
<1>8. WalkTypes'
  BY <1>4, <1>7 DEF WalkInv, WalkTypes, history
<1>9. NestInv'
  BY <1>3, <1>4, <1>6, <1>7 DEF WalkInv, NestInv, vars, history
<1> QED BY <1>8, <1>9

LEMMA PassKept ==
  ASSUME WalkInv, NEW list \in Lists, PassesOver(list)
  PROVE  WalkTypes' /\ NestInv'
<1>1. PICK more : Closed(more) /\ Visit(list, more)
  BY DEF PassesOver
<1>2. /\ todo' \in Seq(Tasks) /\ Nested(todo') /\ Depth(todo', 1) = scope_level
      /\ scope_level >= 1 /\ status = "run" /\ elements' \in 1 .. MaxElements /\ fresh' \in BOOLEAN
  BY <1>1, VisitIs, Zenon
<1>3. UNCHANGED <<vars, history>> /\ (status' = "run" \/ status' = "assert")
  BY <1>2 DEF PassesOver
<1>4. WalkTypes'
  BY <1>2, <1>3 DEF WalkInv, WalkTypes, history
<1>5. NestInv'
  BY <1>2, <1>3 DEF WalkInv, NestInv, history, vars
<1> QED BY <1>4, <1>5

LEMMA WalkKept == WalkInv /\ [WalkNext]_allvars => WalkInv'
<1> SUFFICES ASSUME WalkInv, [WalkNext]_allvars PROVE WalkInv'
  OBVIOUS
<1>1. SymInv'
  BY SymKept, Zenon DEF WalkInv
<1>2. CASE EnterScope \/ LeaveScope
  BY <1>1, <1>2, ScopeKept, Zenon DEF WalkInv
<1>3. CASE EndOfList
  BY <1>1, <1>3, EndKept, Zenon DEF WalkInv
<1>4. CASE Halted \/ LeaveScopeFails \/ UNCHANGED allvars
  <2>1. UNCHANGED <<walk, history, scope_level>>
    BY <1>4 DEF Halted, LeaveScopeFails, allvars, vars, pop_scope_fails
  <2>2. WalkTypes' /\ NestInv'
    BY <2>1 DEF WalkInv, WalkTypes, NestInv, walk, history
  <2> QED BY <1>1, <2>2, Zenon DEF WalkInv
<1>5. CASE Finish
  <2>1. WalkTypes' /\ NestInv'
    BY <1>5 DEF Finish, WalkInv, WalkTypes, NestInv, vars, history
  <2> QED BY <1>1, <2>1, Zenon DEF WalkInv
<1>6. ASSUME NEW list \in Lists, PassesOver(list) PROVE WalkInv'
  BY <1>1, <1>6, PassKept, Zenon DEF WalkInv
<1>7. ASSUME NEW list \in Lists, NEW name \in Names, Prototype(list, name) PROVE WalkInv'
  BY <1>1, <1>7, PrototypeKept, Zenon DEF WalkInv
<1>8. ASSUME NEW list \in Lists, NEW name \in Names, NEW kind \in Kinds2, Announces(list, name, kind) PROVE WalkInv'
  BY <1>1, <1>8, AnnounceKept, Zenon DEF WalkInv
<1> QED BY <1>2, <1>3, <1>4, <1>5, <1>6, <1>7, <1>8, WalkCases, Zenon

LEMMA WalkBegins == WalkInit => WalkInv
<1> SUFFICES ASSUME WalkInit PROVE WalkInv
  OBVIOUS
<1>1. SymInv /\ scope_level = 0
  BY InitInv DEF WalkInit, Init
<1>2. PICK s : s = Scoped(<<"decl_list">>)
  OBVIOUS
<1>3. Closed(s) /\ Nested(s)
  <2>1. "decl_list" \in Lists
    BY DEF Lists
  <2>2. Closed(<<"decl_list">>)
    BY <2>1, ClosedOne, Zenon
  <2> QED BY <1>2, <2>2, ClosedScoped, Zenon
<1>4. todo = s /\ status = "run" /\ elements = 1 /\ fresh = FALSE
      /\ declared = <<>> /\ recent = {} /\ reported = {} /\ overloaded = FALSE /\ missed = FALSE
  BY <1>2 DEF WalkInit
<1>5. WalkTypes
  <2>1. elements \in 1 .. MaxElements /\ <<>> \in Seq(SUBSET Pairs)
    BY <1>4, ElementsAssumption
  <2>2. /\ s \in Seq(Tasks)
        /\ status \in {"run", "redeclared", "assert", "done"}
        /\ fresh \in BOOLEAN /\ recent \subseteq Pairs /\ reported \subseteq Pairs
        /\ overloaded \in BOOLEAN /\ missed \in BOOLEAN
    BY <1>3, <1>4, Zenon DEF Closed
  <2> QED BY <1>4, <2>1, <2>2, Zenon DEF WalkTypes
<1>6. NestInv
  BY <1>1, <1>3, <1>4 DEF NestInv, Closed
<1> QED BY <1>1, <1>5, <1>6 DEF WalkInv

LEMMA WalkInvariant == WalkSpec => []WalkInv
  BY WalkBegins, WalkKept, PTL DEF WalkSpec

(* The walk keeps its types and those of the table, for every tree.          *)
THEOREM WalkTypesHold == WalkSpec => []WalkTypeOK
<1>1. WalkInv => WalkTypeOK
  <2> SUFFICES ASSUME WalkInv PROVE WalkTypeOK
    OBVIOUS
  <2>1. TypeOK
    BY TypesAre DEF WalkInv
  <2> QED BY <2>1 DEF WalkInv, WalkTypes, WalkTypeOK, Pairs
<1> QED BY <1>1, WalkInvariant, PTL

(* For every tree, each push_scope of build_symtable.c is met by a pop_scope *)
(* of its own, the level is 0 at the end, every element is visited within a  *)
(* scope, and the assertion scope_level > 0 of pop_scope never fails.        *)
THEOREM ScopesAreBalanced == WalkSpec => []ScopesBalanced
<1>1. WalkInv => ScopesBalanced
  <2> SUFFICES ASSUME WalkInv PROVE ScopesBalanced
    OBVIOUS
  <2>1. /\ todo \in Seq(Tasks) /\ Nested(todo) /\ scope_level = Depth(todo, 1) /\ scope_level = Len(declared)
        /\ (status = "done" => todo = <<>>)
    BY DEF WalkInv, WalkTypes, NestInv
  <2>2. scope_level = CountIn(todo, {"pop_scope"}) - CountIn(todo, {"push_scope"})
    BY <2>1, CountInIs, Zenon DEF Depth
  <2>3. ASSUME todo # <<>>, Head(todo) # "push_scope" PROVE scope_level > 0
    BY <2>1, <2>3, NestedTail
  <2>4. ASSUME todo = <<>> PROVE scope_level = 0
    BY <2>1, <2>4, ClosedOne DEF Closed
  <2> QED BY <2>1, <2>2, <2>3, <2>4, Zenon DEF ScopesBalanced
<1> QED BY <1>1, WalkInvariant, PTL

-----------------------------------------------------------------------------
(* The effect of a declaration on the entries E: o is the name's entry. *)
SymbolPut(E, F, name, kind, level) ==
  \E o \in Entry : \E G \in SUBSET Entry :
    /\ o \in G /\ o.name = name /\ (G = E \/ G = E \cup {NewEntry(name)})
    /\ F = (G \ {o}) \cup {WithSymbol(o, kind, level)}

LEMMA SymbolPutBy ==
  ASSUME SymInv, NEW name \in AllNames, NEW kind \in Kinds2, DeclareSymbol(name, kind)
  PROVE  SymbolPut(EntriesOf(symtable), EntriesOf(symtable'), name, kind, scope_level)
<1>1. PICK t, u, E, level : t = table /\ u = get_symtable_entry(t, name) /\ E = EntriesOf(symtable) /\ level = scope_level
  OBVIOUS
<1>2. TableOK(t) /\ t.array = symtable
  BY <1>1, TableIs
<1>3. TableOK(u) /\ (EntriesOf(u.array) = E \/ EntriesOf(u.array) = E \cup {NewEntry(name)})
  <2>1. EntriesOf(t.array) = E
    BY <1>1, <1>2
  <2>2. /\ TableOK(u)
        /\ \/ EntriesOf(u.array) = EntriesOf(t.array)
           \/ EntriesOf(u.array) = EntriesOf(t.array) \cup {NewEntry(name)}
    BY <1>1, <1>2, GetIs
  <2> QED BY <2>1, <2>2, Zenon
<1>4. EntriesOf(u.array) \in SUBSET Entry
  BY <1>3, Log2Is, ArrayIs
<1>5. Declares(t, table', name, kind, level)
  <2>1. Declares(table, table', name, kind, scope_level)
    BY Declaration DEF Kinds2
  <2> QED BY <1>1, <2>1, Zenon
<1>6. PICK o \in EntriesOf(u.array) :
         o.name = name /\ EntriesOf(table'.array) = (EntriesOf(u.array) \ {o}) \cup {WithSymbol(o, kind, level)}
  BY <1>1, <1>5, Zenon DEF Declares
<1>7. table'.array = symtable'
  BY DEF table
<1>8. SymbolPut(E, EntriesOf(symtable'), name, kind, level)
  <2>1. EntriesOf(symtable') = (EntriesOf(u.array) \ {o}) \cup {WithSymbol(o, kind, level)}
    BY <1>6, <1>7, Zenon
  <2>2. o \in Entry
    BY <1>4
  <2> QED BY <1>3, <1>4, <1>6, <2>1, <2>2, Zenon DEF SymbolPut
<1> QED BY <1>1, <1>8, Zenon

LEMMA LookupKeeps ==
  ASSUME SymInv, NEW name \in AllNames, lookup(name)
  PROVE  \/ EntriesOf(symtable') = EntriesOf(symtable)
         \/ EntriesOf(symtable') = EntriesOf(symtable) \cup {NewEntry(name)}
  BY Lookup, Zenon

LEMMA FrontSymbol ==
  ASSUME NEW o \in Entry, NEW kind \in Kinds, NEW level \in Nat
  PROVE  /\ WithSymbol(o, kind, level)[kind] # <<>>
         /\ Head(WithSymbol(o, kind, level)[kind]) = level
<1>1. o[kind] \in Seq(Nat) /\ WithSymbol(o, kind, level)[kind] = <<level>> \o o[kind]
  BY WithSymbolIs DEF Entry, Kinds
<1> QED BY <1>1

-----------------------------------------------------------------------------
(* What was declared since a scope last began or ended is known. *)
RecentInv == \A p \in recent : Knows(EntriesOf(symtable), p[1], p[2], scope_level)

LEMMA KnowsMore ==
  ASSUME NEW E, NEW F, E \subseteq F, NEW n, NEW k, NEW level, Knows(E, n, k, level)
  PROVE  Knows(F, n, k, level)
  BY DEF Knows

LEMMA PutKnows ==
  ASSUME NEW E, NEW F, NEW name, NEW kind \in Kinds, NEW level \in Nat, SymbolPut(E, F, name, kind, level)
  PROVE  /\ Knows(F, name, kind, level)
         /\ \A n : \A k \in Kinds : Knows(E, n, k, level) => Knows(F, n, k, level)
<1>1. PICK o \in Entry, G \in SUBSET Entry :
         /\ o \in G /\ o.name = name /\ (G = E \/ G = E \cup {NewEntry(name)})
         /\ F = (G \ {o}) \cup {WithSymbol(o, kind, level)}
  BY DEF SymbolPut
<1>2. PICK w : w = WithSymbol(o, kind, level)
  OBVIOUS
<1>3. /\ w.name = name /\ w[kind] # <<>> /\ Head(w[kind]) = level
      /\ \A k \in Kinds : k # kind => w[k] = o[k]
  BY <1>1, <1>2, FrontSymbol, WithSymbolIs
<1>4. w \in F /\ \A e \in E : e = o \/ e \in F
  BY <1>1, <1>2
<1>5. Knows(F, name, kind, level)
  BY <1>3, <1>4 DEF Knows
<1>6. ASSUME NEW n, NEW k \in Kinds, Knows(E, n, k, level) PROVE Knows(F, n, k, level)
  <2>1. PICK e \in E : e.name = n /\ e[k] # <<>> /\ Head(e[k]) >= level
    BY <1>6 DEF Knows
  <2>2. CASE e \in F
    BY <2>1, <2>2, Zenon DEF Knows
  <2>3. CASE e = o
    <3>1. n = name
      BY <1>1, <2>1, <2>3
    <3>2. CASE k = kind
      BY <1>5, <3>1, <3>2
    <3>3. CASE k # kind
      <4>1. w.name = n /\ w[k] # <<>> /\ Head(w[k]) >= level
        BY <1>3, <2>1, <2>3, <3>1, <3>3, Zenon
      <4> QED BY <1>4, <4>1, Zenon DEF Knows
    <3> QED BY <3>2, <3>3
  <2> QED BY <1>4, <2>2, <2>3
<1> QED BY <1>5, <1>6

LEMMA RecentDeclared ==
  ASSUME WalkInv, RecentInv, NEW name \in Names, NEW kind \in Kinds2, DeclareSymbol(name, kind),
         recent' = recent \cup {<<name, kind>>}
  PROVE  RecentInv'
<1>1. PICK E, F, level : E = EntriesOf(symtable) /\ F = EntriesOf(symtable') /\ level = scope_level
  OBVIOUS
<1>2. SymbolPut(E, F, name, kind, level) /\ level \in Nat /\ kind \in Kinds /\ scope_level' = level
  <2>1. SymInv /\ name \in AllNames
    BY AllNamesAre DEF WalkInv
  <2>2. SymbolPut(EntriesOf(symtable), EntriesOf(symtable'), name, kind, scope_level)
    BY <2>1, SymbolPutBy, Zenon
  <2>3. level \in Nat /\ kind \in Kinds /\ scope_level' = level
    BY <1>1, <2>1 DEF SymInv, Kinds, Kinds2, DeclareSymbol
  <2> QED BY <1>1, <2>2, <2>3, Zenon
<1>3. /\ Knows(F, name, kind, level)
      /\ \A n : \A k \in Kinds : Knows(E, n, k, level) => Knows(F, n, k, level)
  BY <1>2, PutKnows
<1>4. \A p \in recent : p[2] \in Kinds
  BY DEF WalkInv, WalkTypes, Pairs
<1>5. \A p \in recent : Knows(E, p[1], p[2], level)
  BY <1>1, Zenon DEF RecentInv
<1>6. ASSUME NEW p \in recent \cup {<<name, kind>>} PROVE Knows(F, p[1], p[2], level)
  <2>1. CASE p \in recent
    BY <1>3, <1>4, <1>5, <2>1, Zenon
  <2>2. CASE p = <<name, kind>>
    <3>1. p[1] = name /\ p[2] = kind
      BY <2>2
    <3> QED BY <1>3, <3>1, Zenon
  <2> QED BY <2>1, <2>2
<1>7. \A p \in recent' : Knows(EntriesOf(symtable'), p[1], p[2], scope_level')
  BY <1>1, <1>2, <1>6, Zenon
<1> QED BY <1>7 DEF RecentInv

LEMMA RecentSame ==
  ASSUME RecentInv, EntriesOf(symtable) \subseteq EntriesOf(symtable'), recent' = recent, scope_level' = scope_level
  PROVE  RecentInv'
<1>1. ASSUME NEW p \in recent PROVE Knows(EntriesOf(symtable'), p[1], p[2], scope_level)
  <2>1. Knows(EntriesOf(symtable), p[1], p[2], scope_level)
    BY DEF RecentInv
  <2> QED BY <2>1 DEF Knows
<1>2. \A p \in recent' : Knows(EntriesOf(symtable'), p[1], p[2], scope_level')
  BY <1>1, Zenon
<1> QED BY <1>2 DEF RecentInv

LEMMA RecentKept == WalkInv /\ RecentInv /\ [WalkNext]_allvars => RecentInv'
<1> SUFFICES ASSUME WalkInv, RecentInv, [WalkNext]_allvars PROVE RecentInv'
  OBVIOUS
<1>1. ASSUME symtable' = symtable, recent' = recent, scope_level' = scope_level PROVE RecentInv'
  BY <1>1, RecentSame
<1>2. CASE EnterScope \/ LeaveScope
  <2>1. recent' = {}
    BY <1>2 DEF EnterScope, LeaveScope
  <2> QED BY <2>1, Zenon DEF RecentInv
<1>3. CASE LeaveScopeFails \/ EndOfList \/ Finish \/ Halted \/ UNCHANGED allvars
  <2>1. symtable' = symtable /\ recent' = recent /\ scope_level' = scope_level
    BY <1>3 DEF LeaveScopeFails, EndOfList, Finish, Halted, allvars, vars, history, pop_scope_fails
  <2> QED BY <1>1, <2>1
<1>4. ASSUME NEW list \in Lists, PassesOver(list) PROVE RecentInv'
  <2>1. symtable' = symtable /\ recent' = recent /\ scope_level' = scope_level
    BY <1>4 DEF PassesOver, vars, history
  <2> QED BY <1>1, <2>1
<1>5. ASSUME NEW list \in Lists, NEW name \in Names, Prototype(list, name) PROVE RecentInv'
  <2>1. DeclareSymbol(name, "id_ident") /\ recent' = recent \cup {<<name, "id_ident">>}
    BY <1>5, PrototypeCases, Zenon
  <2>2. "id_ident" \in Kinds2
    BY DEF Kinds2
  <2> QED BY <2>1, <2>2, RecentDeclared, Zenon
<1>6. ASSUME NEW list \in Lists, NEW name \in Names, NEW kind \in Kinds2, Announces(list, name, kind) PROVE RecentInv'
  <2>1. PICK more : Declare(list, name, kind, more)
    BY <1>6 DEF Announces
  <2>2. CASE DeclareSymbol(name, kind) /\ recent' = recent \cup {<<name, kind>>}
    BY <2>2, RecentDeclared, Zenon
  <2>3. CASE lookup(name) /\ UNCHANGED <<declared, recent, overloaded, missed>>
    <3>1. \/ EntriesOf(symtable') = EntriesOf(symtable)
          \/ EntriesOf(symtable') = EntriesOf(symtable) \cup {NewEntry(name)}
      BY <2>3, AllNamesAre, LookupKeeps, Zenon DEF WalkInv
    <3>2. EntriesOf(symtable) \subseteq EntriesOf(symtable')
      BY <3>1
    <3>3. recent' = recent /\ scope_level' = scope_level
      BY <2>3 DEF lookup
    <3> QED BY <3>2, <3>3, RecentSame
  <2> QED BY <2>1, <2>2, <2>3, AnnounceCases, Zenon
<1> QED BY <1>2, <1>3, <1>4, <1>5, <1>6, WalkCases, Zenon

(* For every tree, name_is_declared knows every name declared since a scope  *)
(* last began or ended, so that a second declaration of it is reported; the  *)
(* table may be rehashed in between.                                         *)
THEOREM RecentNamesKnown == WalkSpec => []RecentDeclarationsKnown
<1>1. WalkInit => RecentInv
  BY DEF WalkInit, RecentInv
<1>2. WalkInv /\ RecentInv => RecentDeclarationsKnown
  <2> SUFFICES ASSUME WalkInv, RecentInv, NEW d \in recent PROVE name_is_declared(d[1], d[2])
    BY DEF RecentDeclarationsKnown
  <2>1. d[1] \in AllNames /\ d[2] \in Kinds
    BY AllNamesAre DEF WalkInv, WalkTypes, Pairs
  <2>2. Knows(EntriesOf(symtable), d[1], d[2], scope_level)
    BY DEF RecentInv
  <2>3. SymInv
    BY DEF WalkInv
  <2> QED BY <2>1, <2>2, <2>3, DeclaredIs
<1>3. WalkSpec => []RecentInv
  BY <1>1, RecentKept, WalkInvariant, PTL DEF WalkSpec
<1> QED BY <1>2, <1>3, WalkInvariant, PTL

-----------------------------------------------------------------------------
(* Without overloads a chain has one symbol per scope that declared the      *)
(* name, the innermost first.                                                *)
ChainFits(c, name, kind, level, decl) ==
  /\ c \in Seq(Nat)
  /\ \A i \in 1 .. Len(c) : c[i] <= level
  /\ \A i, j \in 1 .. Len(c) : i < j => c[j] < c[i]
  /\ kind # "id_kw" => \A i \in 1 .. Len(c) : c[i] >= 1 /\ <<name, kind>> \in decl[c[i]]

EntryFits(e, level, decl) == \A kind \in Kinds : ChainFits(e[kind], e.name, kind, level, decl)

LEMMA EmptyFits == ASSUME NEW name, NEW kind, NEW level, NEW decl PROVE ChainFits(<<>>, name, kind, level, decl)
<1>1. <<>> \in Seq(Nat) /\ 1 .. Len(<<>>) = {}
  OBVIOUS
<1> QED BY <1>1 DEF ChainFits

LEMMA WiderFits ==
  ASSUME NEW c, NEW name, NEW kind, NEW level \in Nat, NEW decl, ChainFits(c, name, kind, level, decl),
         NEW wider \in Nat, level <= wider, NEW more, \A i \in 1 .. level : decl[i] \subseteq more[i]
  PROVE  ChainFits(c, name, kind, wider, more)
<1>1. c \in Seq(Nat) /\ \A i \in 1 .. Len(c) : c[i] <= level /\ c[i] \in Nat
  BY RangeIs DEF ChainFits
<1>2. \A i \in 1 .. Len(c) : c[i] <= wider
  BY <1>1
<1>3. ASSUME kind # "id_kw", NEW i \in 1 .. Len(c) PROVE c[i] >= 1 /\ <<name, kind>> \in more[c[i]]
  <2>1. c[i] >= 1 /\ <<name, kind>> \in decl[c[i]]
    BY <1>3 DEF ChainFits
  <2>2. c[i] \in 1 .. level
    BY <1>1, <2>1
  <2> QED BY <2>1, <2>2
<1> QED BY <1>1, <1>2, <1>3 DEF ChainFits

LEMMA ConsFits ==
  ASSUME NEW c, NEW name, NEW kind, NEW level \in Nat \ {0}, NEW decl, ChainFits(c, name, kind, level, decl),
         c = <<>> \/ Head(c) < level, <<name, kind>> \in decl[level]
  PROVE  ChainFits(<<level>> \o c, name, kind, level, decl)
<1> DEFINE d == <<level>> \o c
           n == Len(c)
<1>1. c \in Seq(Nat) /\ n \in Nat /\ \A i \in 1 .. n : c[i] \in Nat /\ c[i] <= level
  BY RangeIs DEF ChainFits
<1>2. \A i \in 1 .. n : c[i] < level
  <2> SUFFICES ASSUME NEW i \in 1 .. n PROVE c[i] < level
    OBVIOUS
  <2>1. Head(c) < level /\ Head(c) = c[1] /\ 1 \in 1 .. n
    BY <1>1
  <2>2. i = 1 \/ c[i] < c[1]
    BY <1>1, <2>1 DEF ChainFits
  <2> QED BY <1>1, <2>1, <2>2
<1>3. d \in Seq(Nat) /\ Len(d) = n + 1 /\ d[1] = level /\ \A j \in 2 .. n + 1 : d[j] = c[j - 1]
  BY <1>1, ConsIs
<1> HIDE DEF d
<1>4. \A j \in 2 .. n + 1 : j - 1 \in 1 .. n
  BY <1>1
<1>5. \A j \in 1 .. n + 1 : j = 1 \/ j \in 2 .. n + 1
  BY <1>1
<1>6. ASSUME NEW i \in 1 .. n + 1 PROVE d[i] <= level
  <2>1. CASE i = 1
    BY <1>3, <2>1
  <2>2. CASE i # 1
    <3>1. i \in 2 .. n + 1
      BY <1>5, <2>2
    <3>2. i - 1 \in 1 .. n /\ d[i] = c[i - 1]
      BY <1>3, <1>4, <3>1
    <3> QED BY <1>1, <3>2
  <2> QED BY <2>1, <2>2
<1>7. ASSUME NEW i \in 1 .. n + 1, NEW j \in 1 .. n + 1, i < j PROVE d[j] < d[i]
  <2>1. j \in 2 .. n + 1 /\ d[j] = c[j - 1] /\ j - 1 \in 1 .. n
    BY <1>3, <1>4, <1>5, <1>7
  <2>2. CASE i = 1
    BY <1>2, <1>3, <2>1, <2>2
  <2>3. CASE i # 1
    <3>1. i \in 2 .. n + 1
      BY <1>5, <2>3
    <3>2. i - 1 \in 1 .. n /\ d[i] = c[i - 1]
      BY <1>3, <1>4, <3>1
    <3>3. i - 1 < j - 1
      BY <1>1, <1>7
    <3> QED BY <2>1, <3>2, <3>3 DEF ChainFits
  <2> QED BY <2>2, <2>3
<1>8. ASSUME kind # "id_kw", NEW i \in 1 .. n + 1 PROVE d[i] >= 1 /\ <<name, kind>> \in decl[d[i]]
  <2>1. CASE i = 1
    BY <1>3, <2>1
  <2>2. CASE i # 1
    <3>1. i - 1 \in 1 .. n /\ d[i] = c[i - 1]
      BY <1>3, <1>4, <1>5, <2>2
    <3> QED BY <1>8, <3>1 DEF ChainFits
  <2> QED BY <2>1, <2>2
<1> QED BY <1>3, <1>6, <1>7, <1>8 DEF ChainFits, d

LEMMA TailIs ==
  ASSUME NEW c \in Seq(Nat), c # <<>>
  PROVE  /\ Tail(c) \in Seq(Nat) /\ Len(Tail(c)) = Len(c) - 1 /\ Len(c) \in Nat /\ Len(c) >= 1
         /\ \A i \in 1 .. Len(c) - 1 : Tail(c)[i] = c[i + 1]
         /\ Head(c) = c[1]
  OBVIOUS

LEMMA DeleteFits ==
  ASSUME NEW c, NEW name, NEW kind, NEW level \in Nat \ {0}, level = scope_level,
         NEW decl, ChainFits(c, name, kind, level, decl),
         NEW less, \A i \in 1 .. level - 1 : less[i] = decl[i]
  PROVE  ChainFits(scope_delete_symbol(c), name, kind, level - 1, less)
<1>1. c \in Seq(Nat)
  BY DEF ChainFits
<1>2. CASE c # <<>> /\ Head(c) > scope_level - 1
  <2> DEFINE d == Tail(c)
             n == Len(c)
  <2>1. scope_delete_symbol(c) = d
    BY <1>2 DEF scope_delete_symbol
  <2>2. d \in Seq(Nat) /\ Len(d) = n - 1 /\ n \in Nat /\ n >= 1 /\ \A i \in 1 .. n - 1 : d[i] = c[i + 1]
    BY <1>1, <1>2, TailIs
  <2> HIDE DEF d
  <2>3. \A i \in 1 .. n : c[i] \in Nat /\ c[i] <= level
    BY <1>1, RangeIs DEF ChainFits
  <2>4. \A i \in 1 .. n - 1 : i + 1 \in 1 .. n /\ 1 \in 1 .. n /\ 1 < i + 1
    BY <2>2
  <2>5. \A i \in 1 .. n - 1 : d[i] \in Nat /\ d[i] <= level - 1
    <3> SUFFICES ASSUME NEW i \in 1 .. n - 1 PROVE d[i] \in Nat /\ d[i] <= level - 1
      OBVIOUS
    <3>1. c[i + 1] < c[1] /\ c[1] <= level /\ c[1] \in Nat /\ c[i + 1] \in Nat /\ d[i] = c[i + 1]
      BY <2>2, <2>3, <2>4 DEF ChainFits
    <3> QED BY <3>1
  <2>6. ASSUME NEW i \in 1 .. n - 1, NEW j \in 1 .. n - 1, i < j PROVE d[j] < d[i]
    <3>1. i + 1 \in 1 .. n /\ j + 1 \in 1 .. n /\ i + 1 < j + 1
      BY <2>2, <2>4, <2>6
    <3>2. c[j + 1] < c[i + 1]
      BY <3>1 DEF ChainFits
    <3> QED BY <2>2, <3>2
  <2>7. ASSUME kind # "id_kw", NEW i \in 1 .. n - 1 PROVE d[i] >= 1 /\ <<name, kind>> \in less[d[i]]
    <3>1. d[i] >= 1 /\ <<name, kind>> \in decl[d[i]]
      BY <2>2, <2>4, <2>7 DEF ChainFits
    <3>2. d[i] \in 1 .. level - 1
      BY <2>5, <3>1
    <3> QED BY <3>1, <3>2
  <2> QED BY <2>1, <2>2, <2>5, <2>6, <2>7 DEF ChainFits
<1>3. CASE ~(c # <<>> /\ Head(c) > scope_level - 1)
  <2>1. scope_delete_symbol(c) = <<>>
    BY <1>3 DEF scope_delete_symbol
  <2> QED BY <2>1, EmptyFits
<1> QED BY <1>2, <1>3

LEMMA NewFits == ASSUME NEW name, NEW level, NEW decl PROVE EntryFits(NewEntry(name), level, decl)
<1>1. \A kind \in Kinds : NewEntry(name)[kind] = <<>>
  BY DEF NewEntry, Kinds
<1> QED BY <1>1, EmptyFits DEF EntryFits

LEMMA KeywordFits ==
  ASSUME NEW name \in AllNames, NEW decl
  PROVE  EntryFits(KeywordEntry(name), 0, decl)
<1> DEFINE e == KeywordEntry(name)
<1>1. "id_kw" \in Kinds /\ 0 \in Nat /\ NewEntry(name) \in Entry
  BY NewEntryIs DEF Kinds
<1>2. /\ e["id_kw"] = <<0>> \o NewEntry(name)["id_kw"]
      /\ \A k \in Kinds : k # "id_kw" => e[k] = NewEntry(name)[k]
  BY <1>1, WithSymbolIs DEF KeywordEntry
<1>3. \A k \in Kinds : NewEntry(name)[k] = <<>>
  BY DEF NewEntry, Kinds
<1> HIDE DEF e
<1>4. e["id_kw"] = <<0>>
  <2>1. <<0>> \o <<>> = <<0>>
    OBVIOUS
  <2> QED BY <1>1, <1>2, <1>3, <2>1, Zenon
<1>5. ChainFits(<<0>>, e.name, "id_kw", 0, decl)
  <2>1. <<0>> \in Seq(Nat) /\ Len(<<0>>) = 1 /\ <<0>>[1] = 0
    OBVIOUS
  <2> QED BY <2>1 DEF ChainFits
<1>6. ASSUME NEW k \in Kinds PROVE ChainFits(e[k], e.name, k, 0, decl)
  <2>1. CASE k = "id_kw"
    BY <1>4, <1>5, <2>1
  <2>2. CASE k # "id_kw"
    <3>1. e[k] = <<>>
      BY <1>2, <1>3, <2>2
    <3> QED BY <3>1, EmptyFits
  <2> QED BY <2>1, <2>2
<1> QED BY <1>6 DEF EntryFits, e

LEMMA PutFits ==
  ASSUME NEW E \in SUBSET Entry, NEW F, NEW name, NEW kind \in Kinds2, NEW level \in Nat \ {0},
         SymbolPut(E, F, name, kind, level), ~Knows(E, name, kind, level),
         NEW decl, \A e \in E : EntryFits(e, level, decl),
         NEW new, \A i \in 1 .. level : decl[i] \subseteq new[i], <<name, kind>> \in new[level]
  PROVE  \A e \in F : EntryFits(e, level, new)
<1>1. PICK o \in Entry, G \in SUBSET Entry :
         /\ o \in G /\ o.name = name /\ (G = E \/ G = E \cup {NewEntry(name)})
         /\ F = (G \ {o}) \cup {WithSymbol(o, kind, level)}
  BY DEF SymbolPut
<1>2. kind \in Kinds /\ level \in Nat
  BY DEF Kinds, Kinds2
<1>3. \A e \in G : EntryFits(e, level, new)
  <2>1. ASSUME NEW e, EntryFits(e, level, decl) PROVE EntryFits(e, level, new)
    <3> SUFFICES ASSUME NEW k \in Kinds PROVE ChainFits(e[k], e.name, k, level, new)
      BY DEF EntryFits
    <3>1. ChainFits(e[k], e.name, k, level, decl)
      BY <2>1 DEF EntryFits
    <3> QED BY <1>2, <3>1, WiderFits
  <2>2. EntryFits(NewEntry(name), level, decl)
    BY NewFits
  <2> QED BY <1>1, <2>1, <2>2
<1>4. o[kind] = <<>> \/ Head(o[kind]) < level
  <2>1. CASE o \in E
    <3>1. ~(o[kind] # <<>> /\ Head(o[kind]) >= level)
      BY <1>1, <2>1, Zenon DEF Knows
    <3>2. o[kind] \in Seq(Nat)
      BY <1>2 DEF Entry, Kinds
    <3>3. o[kind] # <<>> => Head(o[kind]) \in Nat
      BY <3>2
    <3> QED BY <1>2, <3>1, <3>3
  <2>2. CASE o = NewEntry(name)
    BY <1>2, <2>2 DEF NewEntry, Kinds
  <2> QED BY <1>1, <2>1, <2>2
<1>5. PICK w : w = WithSymbol(o, kind, level)
  OBVIOUS
<1>6. w.name = name /\ w[kind] = <<level>> \o o[kind] /\ \A k \in Kinds : k # kind => w[k] = o[k]
  BY <1>1, <1>2, <1>5, WithSymbolIs
<1>7. EntryFits(w, level, new)
  <2> SUFFICES ASSUME NEW k \in Kinds PROVE ChainFits(w[k], name, k, level, new)
    BY <1>6 DEF EntryFits
  <2>1. ChainFits(o[k], name, k, level, new)
    BY <1>1, <1>3 DEF EntryFits
  <2>2. CASE k = kind
    <3>1. ChainFits(<<level>> \o o[kind], name, kind, level, new)
      BY <1>4, <2>1, <2>2, ConsFits
    <3> QED BY <1>6, <2>2, <3>1, Zenon
  <2>3. CASE k # kind
    BY <1>6, <2>1, <2>3, Zenon
  <2> QED BY <2>2, <2>3
<1> QED BY <1>1, <1>3, <1>5, <1>7

-----------------------------------------------------------------------------
(* The reports. *)
Fitting == failed = "no" /\ \A e \in EntriesOf(symtable) : EntryFits(e, scope_level, declared)

ReportInv ==
  /\ status # "redeclared" => reported = {}
  /\ ~overloaded => Fitting
  /\ ~overloaded => \A p \in reported : p \in Last(declared)

LEMMA EntriesAre == SymInv => EntriesOf(symtable) \in SUBSET Entry
<1> SUFFICES ASSUME SymInv PROVE EntriesOf(symtable) \subseteq Entry
  OBVIOUS
<1> QED BY TableIs, ArrayIs

LEMMA FittingEnters == ASSUME WalkInv, Fitting, EnterScope PROVE Fitting'
<1>1. PICK d, level, new : d = declared /\ level = scope_level /\ new = declared'
  OBVIOUS
<1>2. /\ new = Append(d, {}) /\ scope_level' = level + 1 /\ symtable' = symtable /\ failed' = failed
      /\ level \in Nat /\ Len(d) = level /\ d \in Seq(SUBSET Pairs)
  BY <1>1 DEF EnterScope, push_scope, WalkInv, SymInv, NestInv, WalkTypes
<1>3. \A i \in 1 .. level : d[i] \subseteq new[i]
  <2> DEFINE S == SUBSET Pairs
  <2>1. d \in Seq(S)
    BY <1>2
  <2> HIDE DEF S
  <2>2. \A i \in 1 .. level : Append(d, {})[i] = d[i]
    BY <1>2, <2>1
  <2> QED BY <1>2, <2>2
<1>4. ASSUME NEW e \in EntriesOf(symtable) PROVE EntryFits(e, level + 1, new)
  <2> SUFFICES ASSUME NEW k \in Kinds PROVE ChainFits(e[k], e.name, k, level + 1, new)
    BY DEF EntryFits
  <2>1. ChainFits(e[k], e.name, k, level, d)
    BY <1>1 DEF Fitting, EntryFits
  <2>2. level + 1 \in Nat /\ level <= level + 1
    BY <1>2
  <2> QED BY <1>2, <1>3, <2>1, <2>2, WiderFits
<1>5. failed' = "no" /\ \A e \in EntriesOf(symtable') : EntryFits(e, scope_level', declared')
  BY <1>1, <1>2, <1>4 DEF Fitting
<1> QED BY <1>5 DEF Fitting

LEMMA FittingLeaves == ASSUME WalkInv, Fitting, LeaveScope PROVE Fitting'
<1>1. PICK d, level, new : d = declared /\ level = scope_level /\ new = declared'
  OBVIOUS
<1>2. /\ new = Front(d) /\ scope_level' = level - 1 /\ failed' = failed
      /\ level \in Nat /\ Len(d) = level /\ d \in Seq(SUBSET Pairs)
  BY <1>1 DEF LeaveScope, pop_scope, WalkInv, SymInv, NestInv, WalkTypes
<1>3. level \in Nat \ {0} /\ level >= 1
  BY <1>1, <1>2 DEF LeaveScope, pop_scope
<1>4. \A i \in 1 .. level - 1 : new[i] = d[i]
  BY <1>2, <1>3, FrontIs
<1>5. EntriesOf(symtable') = {DeleteInEntry(e) : e \in EntriesOf(symtable)}
  BY PopScope DEF LeaveScope, WalkInv
<1>6. ASSUME NEW e \in EntriesOf(symtable) PROVE EntryFits(DeleteInEntry(e), level - 1, new)
  <2>1. e \in Entry /\ scope_level \in Nat
    BY EntriesAre DEF WalkInv, SymInv
  <2>2. PICK f : f = DeleteInEntry(e)
    OBVIOUS
  <2>3. f.name = e.name /\ \A k \in Kinds : f[k] = scope_delete_symbol(e[k])
    BY <2>1, <2>2, DeletedIs DEF Kinds
  <2> SUFFICES ASSUME NEW k \in Kinds PROVE ChainFits(scope_delete_symbol(e[k]), e.name, k, level - 1, new)
    BY <2>2, <2>3 DEF EntryFits
  <2>4. ChainFits(e[k], e.name, k, level, d)
    BY <1>1 DEF Fitting, EntryFits
  <2> QED BY <1>1, <1>3, <1>4, <2>4, DeleteFits
<1>7. failed' = "no" /\ \A e \in EntriesOf(symtable') : EntryFits(e, scope_level', declared')
  BY <1>1, <1>2, <1>5, <1>6 DEF Fitting
<1> QED BY <1>7 DEF Fitting

(* The symbols behind the first one are of outer scopes. *)
LEMMA FittingPops == ASSUME WalkInv, Fitting PROVE ~LeaveScopeFails
<1> SUFFICES ASSUME LeaveScopeFails PROVE FALSE
  OBVIOUS
<1>1. PICK e \in EntriesInArray : NextInScopeFails(e)
  BY DEF LeaveScopeFails, pop_scope_fails
<1>2. e \in EntriesOf(symtable) /\ scope_level \in Nat
  BY EntriesInArrayIs DEF WalkInv, SymInv
<1>3. PICK k \in Kinds : Len(e[k]) > 1 /\ e[k][2] > scope_level
  BY <1>1 DEF NextInScopeFails
<1>4. ChainFits(e[k], e.name, k, scope_level, declared)
  BY <1>2 DEF Fitting, EntryFits
<1>5. e[k] \in Seq(Nat) /\ Len(e[k]) \in Nat
  BY <1>4, RangeIs DEF ChainFits
<1>6. 2 \in 1 .. Len(e[k])
  BY <1>3, <1>5
<1>7. e[k][2] <= scope_level /\ e[k][2] \in Nat
  BY <1>4, <1>5, <1>6, RangeIs DEF ChainFits
<1> QED BY <1>2, <1>3, <1>7

LEMMA FittingDeclares ==
  ASSUME WalkInv, Fitting, NEW name \in Names, NEW kind \in Kinds2, DeclareSymbol(name, kind),
         ~name_is_declared(name, kind), scope_level >= 1,
         declared' = [declared EXCEPT ![Len(declared)] = @ \cup {<<name, kind>>}]
  PROVE  Fitting'
<1>1. PICK E, F, level, d, new, p : /\ E = EntriesOf(symtable) /\ F = EntriesOf(symtable') /\ level = scope_level
                                    /\ d = declared /\ new = declared' /\ p = <<name, kind>>
  OBVIOUS
<1>2. SymInv /\ name \in AllNames /\ kind \in Kinds
  BY AllNamesAre DEF WalkInv, Kinds, Kinds2
<1>3. SymbolPut(E, F, name, kind, level)
  <2>1. SymbolPut(EntriesOf(symtable), EntriesOf(symtable'), name, kind, scope_level)
    BY <1>2, SymbolPutBy, Zenon
  <2> QED BY <1>1, <2>1, Zenon
<1>4. ~Knows(E, name, kind, level)
  <2>1. ~Knows(EntriesOf(symtable), name, kind, scope_level)
    BY <1>2, DeclaredIs, Zenon
  <2> QED BY <1>1, <2>1, Zenon
<1>5. level \in Nat \ {0} /\ scope_level' = level /\ failed' = "no" /\ Len(d) = level /\ d \in Seq(SUBSET Pairs)
  BY <1>1 DEF WalkInv, SymInv, NestInv, WalkTypes, DeclareSymbol, Fitting
<1>6. /\ \A i \in 1 .. level : d[i] \subseteq new[i]
      /\ p \in new[level]
  <2>1. p \in Pairs
    BY <1>1 DEF Pairs, Kinds, Kinds2
  <2>2. new = [d EXCEPT ![Len(d)] = @ \cup {p}]
    BY <1>1, Zenon
  <2>3. (\A i \in 1 .. Len(d) : d[i] \subseteq new[i]) /\ (Len(d) > 0 => p \in new[Len(d)])
    BY <1>5, <2>1, <2>2, DeclaredMore
  <2> QED BY <1>5, <2>3
<1>7. E \in SUBSET Entry /\ \A e \in E : EntryFits(e, level, d)
  BY <1>1, <1>2, EntriesAre, Zenon DEF Fitting
<1>8. \A e \in F : EntryFits(e, level, new)
  <2>1. <<name, kind>> \in new[level]
    BY <1>1, <1>6, Zenon
  <2>2. level \in Nat \ {0} /\ (\A i \in 1 .. level : d[i] \subseteq new[i])
    BY <1>5, <1>6
  <2> QED BY <1>3, <1>4, <1>7, <2>1, <2>2, PutFits, Zenon
<1>9. failed' = "no" /\ \A e \in EntriesOf(symtable') : EntryFits(e, scope_level', declared')
  BY <1>1, <1>5, <1>8, Zenon
<1> QED BY <1>9 DEF Fitting

LEMMA FittingSame ==
  ASSUME Fitting, UNCHANGED <<scope_level, failed, declared>>,
         \/ EntriesOf(symtable') = EntriesOf(symtable)
         \/ \E name : EntriesOf(symtable') = EntriesOf(symtable) \cup {NewEntry(name)}
  PROVE  Fitting'
<1>1. PICK level, d : level = scope_level /\ d = declared
  OBVIOUS
<1>2. failed' = "no" /\ scope_level' = level /\ declared' = d /\ \A e \in EntriesOf(symtable) : EntryFits(e, level, d)
  BY <1>1 DEF Fitting
<1>3. \A e \in EntriesOf(symtable') : EntryFits(e, level, d)
  <2>1. \A name : EntryFits(NewEntry(name), level, d)
    BY NewFits
  <2> QED BY <1>2, <2>1
<1>4. failed' = "no" /\ \A e \in EntriesOf(symtable') : EntryFits(e, scope_level', declared')
  BY <1>2, <1>3, Zenon
<1> QED BY <1>4 DEF Fitting

(* A name that name_is_declared knows is one that the innermost scope declared. *)
LEMMA KnownInScope ==
  ASSUME WalkInv, Fitting, NEW name \in Names, NEW kind \in Kinds2, name_is_declared(name, kind)
  PROVE  <<name, kind>> \in Last(declared)
<1>1. SymInv /\ name \in AllNames /\ kind \in Kinds /\ kind # "id_kw" /\ scope_level = Len(declared) /\ scope_level \in Nat
  BY AllNamesAre DEF WalkInv, Kinds, Kinds2, NestInv, SymInv
<1>2. PICK e \in EntriesOf(symtable) : e.name = name /\ e[kind] # <<>> /\ Head(e[kind]) >= scope_level
  BY <1>1, DeclaredIs DEF Knows
<1>3. ChainFits(e[kind], name, kind, scope_level, declared)
  BY <1>1, <1>2 DEF Fitting, EntryFits
<1>4. PICK c : c = e[kind]
  OBVIOUS
<1>5. c \in Seq(Nat) /\ c # <<>>
  BY <1>2, <1>3, <1>4 DEF ChainFits
<1>6. 1 \in 1 .. Len(c) /\ c[1] \in Nat /\ Head(c) = c[1]
  BY <1>5
<1>7. c[1] <= scope_level /\ <<name, kind>> \in declared[c[1]]
  BY <1>1, <1>3, <1>4, <1>6 DEF ChainFits
<1>8. c[1] = scope_level
  BY <1>1, <1>2, <1>4, <1>6, <1>7
<1> QED BY <1>1, <1>7, <1>8 DEF Last

LEMMA ReportSame ==
  ASSUME ReportInv, Fitting => Fitting', UNCHANGED <<reported, declared, overloaded>>,
         status' = status \/ status = "run"
  PROVE  ReportInv'
<1>1. status' # "redeclared" => reported' = {}
  BY DEF ReportInv
<1>2. ~overloaded' => Fitting'
  BY DEF ReportInv
<1>3. ~overloaded' => \A p \in reported' : p \in Last(declared')
  BY DEF ReportInv
<1> QED BY <1>1, <1>2, <1>3, Zenon DEF ReportInv

LEMMA ReportEmpty ==
  ASSUME ReportInv, Fitting => Fitting', status = "run", UNCHANGED <<status, reported, overloaded>>
  PROVE  ReportInv'
<1>1. reported' = {}
  BY DEF ReportInv
<1>2. ~overloaded' => Fitting'
  BY DEF ReportInv
<1> QED BY <1>1, <1>2, Zenon DEF ReportInv

LEMMA ReportKept == WalkInv /\ ReportInv /\ [WalkNext]_allvars => ReportInv'
<1> SUFFICES ASSUME WalkInv, ReportInv, [WalkNext]_allvars PROVE ReportInv'
  OBVIOUS
<1>1. ASSUME UNCHANGED <<vars, history>>, status' = status \/ status = "run" PROVE ReportInv'
  <2>1. UNCHANGED <<scope_level, failed, declared, reported, overloaded>> /\ symtable' = symtable
    BY <1>1 DEF vars, history
  <2>2. Fitting => Fitting'
    BY <2>1, FittingSame
  <2> QED BY <1>1, <2>1, <2>2, ReportSame
<1>2. CASE EnterScope
  <2>1. status = "run" /\ UNCHANGED <<status, reported, overloaded>>
    BY <1>2 DEF EnterScope, Running
  <2> QED BY <1>2, <2>1, FittingEnters, ReportEmpty
<1>3. CASE LeaveScope
  <2>1. status = "run" /\ UNCHANGED <<status, reported, overloaded>>
    BY <1>3 DEF LeaveScope, Running
  <2> QED BY <1>3, <2>1, FittingLeaves, ReportEmpty
<1>4. CASE LeaveScopeFails
  <2>1. UNCHANGED <<status, reported, overloaded>> /\ status = "run"
    BY <1>4 DEF LeaveScopeFails, Running, walk, history
  <2>2. ~Fitting
    BY <1>4, FittingPops
  <2> QED BY <2>1, <2>2, ReportEmpty
<1>5. CASE EndOfList \/ Finish \/ Halted \/ UNCHANGED allvars
  <2>1. UNCHANGED <<vars, history>> /\ (status' = status \/ status = "run")
    BY <1>5 DEF EndOfList, Finish, Halted, allvars, walk
  <2> QED BY <1>1, <2>1
<1>6. ASSUME NEW list \in Lists, PassesOver(list) PROVE ReportInv'
  <2>1. UNCHANGED <<vars, history>>
    BY <1>6 DEF PassesOver
  <2>2. status = "run"
    BY <1>6 DEF PassesOver, Visit, Running
  <2> QED BY <1>1, <2>1, <2>2
<1>7. ASSUME NEW list \in Lists, NEW name \in Names, Prototype(list, name) PROVE ReportInv'
  <2>1. /\ Visit(list, <<>>) /\ DeclareSymbol(name, "id_ident")
        /\ overloaded' = (overloaded \/ name_is_declared(name, "id_ident"))
        /\ declared' = [declared EXCEPT ![Len(declared)] = @ \cup {<<name, "id_ident">>}]
        /\ UNCHANGED <<status, reported, missed>>
    BY <1>7, PrototypeCases, Zenon
  <2>2. status = "run" /\ scope_level >= 1
    BY <2>1, ClosedOne, VisitIs, Zenon
  <2>3. reported' = {}
    BY <2>1, <2>2 DEF ReportInv
  <2>4. ASSUME ~overloaded' PROVE Fitting'
    <3>1. ~overloaded /\ ~name_is_declared(name, "id_ident")
      BY <2>1, <2>4, Zenon
    <3>2. Fitting /\ "id_ident" \in Kinds2
      BY <3>1 DEF ReportInv, Kinds2
    <3> QED BY <2>1, <2>2, <3>1, <3>2, FittingDeclares, Zenon
  <2> QED BY <2>3, <2>4, Zenon DEF ReportInv
<1>8. ASSUME NEW list \in Lists, NEW name \in Names, NEW kind \in Kinds2, Announces(list, name, kind) PROVE ReportInv'
  <2>1. PICK more : Closed(more) /\ Declare(list, name, kind, more)
    BY <1>8 DEF Announces
  <2>2. Visit(list, more)
    BY <2>1, AnnounceCases, Zenon
  <2>3. status = "run" /\ scope_level >= 1
    BY <2>1, <2>2, VisitIs, Zenon
  <2>4. CASE /\ ~name_is_declared(name, kind) /\ DeclareSymbol(name, kind)
             /\ declared' = [declared EXCEPT ![Len(declared)] = @ \cup {<<name, kind>>}]
             /\ UNCHANGED <<status, reported, overloaded>>
    <3>1. Fitting => Fitting'
      BY <2>3, <2>4, FittingDeclares, Zenon
    <3> QED BY <2>3, <2>4, <3>1, ReportEmpty, Zenon
  <2>5. CASE /\ name_is_declared(name, kind) /\ lookup(name)
             /\ status' = "redeclared"
             /\ reported' = {<<name, kind>>}
             /\ UNCHANGED <<declared, recent, overloaded, missed>>
    <3>1. UNCHANGED <<scope_level, failed, declared>> /\ overloaded' = overloaded /\ declared' = declared
      BY <2>5 DEF lookup
    <3>2. \/ EntriesOf(symtable') = EntriesOf(symtable)
          \/ EntriesOf(symtable') = EntriesOf(symtable) \cup {NewEntry(name)}
      BY <2>5, AllNamesAre, LookupKeeps, Zenon DEF WalkInv
    <3>3. Fitting => Fitting'
      BY <3>1, <3>2, FittingSame, Zenon
    <3>4. ASSUME ~overloaded' PROVE Fitting' /\ \A p \in reported' : p \in Last(declared')
      <4>1. Fitting
        BY <3>1, <3>4 DEF ReportInv
      <4>2. <<name, kind>> \in Last(declared)
        BY <2>5, <4>1, KnownInScope, Zenon
      <4> QED BY <2>5, <3>1, <3>3, <4>1, <4>2
    <3> QED BY <2>5, <3>4, Zenon DEF ReportInv
  <2> QED BY <2>1, <2>4, <2>5, AnnounceCases, Zenon
<1> QED BY <1>2, <1>3, <1>4, <1>5, <1>6, <1>7, <1>8, WalkCases, Zenon

LEMMA ReportBegins == WalkInit => ReportInv
<1> SUFFICES ASSUME WalkInit PROVE ReportInv
  OBVIOUS
<1>1. /\ SymInv /\ scope_level = 0 /\ failed = "no" /\ reported = {}
      /\ EntriesOf(symtable) = {KeywordEntry(name) : name \in Range(Keywords)}
  BY InitInv DEF WalkInit, Init
<1>2. \A name \in Range(Keywords) : name \in AllNames
  BY DEF AllNames
<1>3. PICK d, level : d = declared /\ level = scope_level
  OBVIOUS
<1>4. \A e \in EntriesOf(symtable) : EntryFits(e, 0, d)
  BY <1>1, <1>2, KeywordFits
<1>5. Fitting
  BY <1>1, <1>3, <1>4 DEF Fitting
<1> QED BY <1>1, <1>5 DEF ReportInv

(* For every tree without overloaded prototypes, "name redeclared" is        *)
(* reported only for a name that the very scope declared before, and the     *)
(* assertion about next_in_scope in scope_delete_symbol never fails.         *)
THEOREM ReportsStayRight == WalkSpec => []ReportsAreRight
<1>1. ReportInv => ReportsAreRight
  BY DEF ReportInv, ReportsAreRight, Fitting
<1>2. WalkSpec => []ReportInv
  BY ReportBegins, ReportKept, WalkInvariant, PTL DEF WalkSpec
<1> QED BY <1>1, <1>2, PTL
=============================================================================
