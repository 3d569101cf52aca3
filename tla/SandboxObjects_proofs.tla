-------------------------- MODULE SandboxObjects_proofs --------------------------
(***************************************************************************)
(* The table of a sandbox, the references, the pointers and the names of   *)
(* its objects, for any number of objects, names, buckets and slots.  The  *)
(* first three are proved together: what is deleted must be in the table   *)
(* to be counted right, and the memory of a destroyed object must have no  *)
(* pointers left.  The chains of the hash table follow the table: what is  *)
(* left of a chain is defined by recursion along it, so what it holds is   *)
(* shown for all chains by the least length for which it would be wrong.   *)
(***************************************************************************)
EXTENDS SandboxObjects, FunctionTheorems, FiniteSetTheorems, SequenceTheorems,
        NaturalsInduction, WellFoundedInduction, TLAPS

\* The objects of a table.
In(T) == Range(T) \ {Null}

\* A table T, its free slots F and the indices I of the objects.
TableOK(T, F, I) ==
  /\ T \in Seq(Pointer) /\ F \in Seq(Nat) /\ I \in [Object -> Nat]
  /\ \A i \in 1..Len(T) : T[i] # Null => I[T[i]] = i
  /\ \A i \in 1..Len(F) : F[i] \in 1..Len(T) /\ T[F[i]] = Null
  /\ \A i \in 1..Len(T) : T[i] = Null => \E j \in 1..Len(F) : F[j] = i
  /\ \A i, j \in 1..Len(F) : F[i] = F[j] => i = j

-------------------------------------------------------------------------------
(* Sequences and sets. *)

LEMMA NullIsNoObject == Null \notin Object /\ Module \subseteq Object
BY ObjectsAssumption DEF ObjectsAssumption

LEMMA RangeFacts ==
  ASSUME NEW S, NEW q \in Seq(S)
  PROVE  /\ DOMAIN q = 1..Len(q) /\ Len(q) \in Nat
         /\ \A e : e \in Range(q) <=> \E i \in 1..Len(q) : q[i] = e
         /\ Range(q) \subseteq S
         /\ IsInjective(q) <=> \A i, j \in 1..Len(q) : q[i] = q[j] => i = j
<1>1. DOMAIN q = 1..Len(q) /\ Len(q) \in Nat /\ \A i \in 1..Len(q) : q[i] \in S
  OBVIOUS
<1>2. IsInjective(q) <=> \A i, j \in 1..Len(q) : q[i] = q[j] => i = j
  BY <1>1 DEF IsInjective
<1>. QED BY <1>1, <1>2 DEF Range

LEMMA FrontFacts ==
  ASSUME NEW S, NEW q \in Seq(S), q # <<>>
  PROVE  /\ Len(q) \in Nat \ {0} /\ Last(q) = q[Len(q)]
         /\ Front(q) \in Seq(S) /\ Len(Front(q)) = Len(q) - 1
         /\ \A i \in 1..(Len(q) - 1) : Front(q)[i] = q[i]
<1>. DEFINE k == Len(q) - 1
            r == SubSeq(q, 1, k)
<1>1. Len(q) \in Nat \ {0} /\ k \in 0..Len(q)
  OBVIOUS
<1>. HIDE DEF k
<1>2. r \in Seq(S) /\ Len(r) = k /\ \A i \in 1..k : r[i] = q[i]
  BY <1>1
<1>. HIDE DEF r
<1>3. Front(q) = r /\ Last(q) = q[Len(q)]
  BY DEF Front, Last, r, k
<1>. QED BY <1>1, <1>2, <1>3 DEF k

LEMMA Concatenated ==
  ASSUME NEW S, NEW u \in Seq(S), NEW v \in Seq(S)
  PROVE  /\ u \o v \in Seq(S) /\ Len(u \o v) = Len(u) + Len(v)
         /\ \A i \in 1..(Len(u) + Len(v)) :
              (u \o v)[i] = IF i <= Len(u) THEN u[i] ELSE v[i - Len(u)]
BY ConcatProperties, Zenon

\* Each object of a table is in the slot it thinks, and in no other.
LEMMA SlotOfObject ==
  ASSUME NEW T, NEW F, NEW I, TableOK(T, F, I)
  PROVE  /\ In(T) \subseteq Object
         /\ \A o \in In(T) : I[o] \in 1..Len(T) /\ T[I[o]] = o
         /\ \A o, p \in In(T) : I[o] = I[p] => o = p
<1>1. T \in Seq(Pointer)
  BY DEF TableOK
<1>2. \A e : e \in Range(T) <=> \E i \in 1..Len(T) : T[i] = e
  BY <1>1, RangeFacts
<1>3. Range(T) \subseteq Pointer
  BY <1>1, RangeFacts
<1>4. \A o \in In(T) : I[o] \in 1..Len(T) /\ T[I[o]] = o
  BY <1>2 DEF In, TableOK
<1>. QED BY <1>3, <1>4 DEF In, Pointer

LEMMA TableIsFinite ==
  ASSUME NEW T, NEW F, NEW I, TableOK(T, F, I)
  PROVE  IsFiniteSet(In(T))
<1>1. /\ T \in Seq(Pointer) /\ DOMAIN T = 1..Len(T) /\ Len(T) \in Nat
      /\ I \in [Object -> Nat]
  BY RangeFacts DEF TableOK
<1>. DEFINE f == [o \in In(T) |-> I[o]]
<1>2. f \in Injection(In(T), 1..Len(T))
  BY SlotOfObject DEF Injection, IsInjective
<1>3. IsFiniteSet(1..Len(T))
  BY <1>1, FS_Interval
<1>. HIDE DEF f
<1>. QED BY <1>2, <1>3, FS_Injection

\* A finite set can be sorted: an object's place is the number of those not after it.
LEMMA CanBeSorted ==
  ASSUME NEW S, IsFiniteSet(S), NEW I, \A o \in S : I[o] \in Nat,
         \A o, p \in S : I[o] = I[p] => o = p
  PROVE  \E d \in SetToSeqs(S) : \A i, j \in DOMAIN d : i < j => I[d[i]] < I[d[j]]
<1>. DEFINE n == Cardinality(S)
            before(o) == {p \in S : I[p] <= I[o]}
            rank == [o \in S |-> Cardinality(before(o))]
            D == 1..n
            d == [i \in D |-> CHOOSE o \in S : rank[o] = i]
<1>1. n \in Nat /\ IsFiniteSet(D) /\ Cardinality(D) = n
  BY FS_CardinalityType, FS_Interval
<1>2. ASSUME NEW o \in S
      PROVE  /\ IsFiniteSet(before(o)) /\ Cardinality(before(o)) \in Nat
             /\ Cardinality(before(o)) <= n /\ Cardinality(before(o)) # 0
  <2>1. before(o) \in SUBSET S /\ o \in before(o)
    OBVIOUS
  <2>2. IsFiniteSet(before(o)) /\ Cardinality(before(o)) <= n
    BY <2>1, FS_Subset
  <2>3. Cardinality(before(o)) \in Nat /\ Cardinality(before(o)) # 0
    BY <2>1, <2>2, FS_CardinalityType, FS_EmptySet
  <2>. QED BY <2>2, <2>3
<1>3. ASSUME NEW o \in S, NEW p \in S, I[o] < I[p]
      PROVE  Cardinality(before(o)) < Cardinality(before(p))
  <2>1. before(o) \in SUBSET before(p) /\ p \in before(p) /\ p \notin before(o)
    BY <1>3
  <2>2. /\ Cardinality(before(o)) <= Cardinality(before(p))
        /\ Cardinality(before(o)) # Cardinality(before(p))
    <3>1. IsFiniteSet(before(p))
      BY <1>2
    <3>. HIDE DEF before
    <3>. QED BY <2>1, <3>1, FS_Subset
  <2>3. Cardinality(before(o)) \in Nat /\ Cardinality(before(p)) \in Nat
    BY <1>2
  <2>. HIDE DEF before
  <2>. QED BY <2>2, <2>3
<1>. HIDE DEF before
<1>4. /\ \A o \in S : rank[o] \in D
      /\ \A o, p \in S : I[o] < I[p] => rank[o] < rank[p]
      /\ rank \in [S -> D]
  BY <1>1, <1>2, <1>3
<1>. HIDE DEF rank
<1>5. \A o, p \in S : rank[o] = rank[p] => o = p
  <2>. SUFFICES ASSUME NEW o \in S, NEW p \in S, o # p PROVE rank[o] # rank[p]
    OBVIOUS
  <2>1. I[o] < I[p] \/ I[p] < I[o]
    BY I[o] # I[p], I[o] \in Nat, I[p] \in Nat
  <2>2. rank[o] \in Nat /\ rank[p] \in Nat
    BY <1>1, <1>4
  <2>. QED BY <1>4, <2>1, <2>2
<1>6. rank \in Surjection(S, D)
  <2>1. rank \in Injection(S, D)
    BY <1>4, <1>5 DEF Injection, IsInjective
  <2>2. Cardinality(S) = Cardinality(D)
    BY <1>1
  <2>. HIDE DEF D
  <2>. QED BY <1>1, <2>1, <2>2, FS_Injection
<1>7. \A i \in D : \E o \in S : rank[o] = i
  BY <1>6 DEF Surjection
<1>8. \A i \in D : d[i] \in S /\ rank[d[i]] = i
  BY <1>7
<1>9. d \in [D -> S] /\ DOMAIN d = D
  BY <1>8
<1>. HIDE DEF d
<1>10. \A i, j \in D : i # j => d[i] # d[j]
  BY <1>8
<1>11. ASSUME NEW i \in D, NEW j \in D, i < j PROVE I[d[i]] < I[d[j]]
  <2>. DEFINE o == d[i]
              p == d[j]
  <2>1. o \in S /\ p \in S /\ rank[o] = i /\ rank[p] = j
    BY <1>8
  <2>. HIDE DEF o, p
  <2>2. ~(I[p] < I[o]) /\ o # p
    BY <1>1, <1>4, <1>11, <2>1
  <2>3. I[o] < I[p]
    BY <2>1, <2>2
  <2>. QED BY <2>3 DEF o, p
<1>. QED BY <1>9, <1>10, <1>11 DEF SetToSeqs

\* The objects of a set in the order of their slots are all of them, each once.
LEMMA SlotOrderExact ==
  ASSUME TableOK(m_obj_table, free_index_array, m_runtime_index),
         NEW s, s \subseteq InTable
  PROVE  /\ SlotOrder(s) \in Seq(s) /\ IsInjective(SlotOrder(s))
         /\ Range(SlotOrder(s)) = s
<1>. DEFINE d == SlotOrder(s)
            n == Cardinality(s)
<1>1. InTable = In(m_obj_table)
  BY DEF InTable, In
<1>2. /\ IsFiniteSet(s) /\ \A o \in s : m_runtime_index[o] \in Nat
      /\ \A o, p \in s : m_runtime_index[o] = m_runtime_index[p] => o = p
  <2>1. s \in SUBSET In(m_obj_table)
    BY <1>1
  <2>2. IsFiniteSet(s)
    BY <2>1, TableIsFinite, FS_Subset
  <2>3. In(m_obj_table) \subseteq Object /\ m_runtime_index \in [Object -> Nat]
    BY SlotOfObject DEF TableOK
  <2>. QED BY <2>1, <2>2, <2>3, SlotOfObject
<1>3. d \in SetToSeqs(s)
  <2>. DEFINE sorted(e) == \A i, j \in DOMAIN e :
                             i < j => m_runtime_index[e[i]] < m_runtime_index[e[j]]
  <2>1. \E e \in SetToSeqs(s) : sorted(e)
    BY <1>2, CanBeSorted
  <2>2. d = CHOOSE e \in SetToSeqs(s) : sorted(e)
    BY DEF SlotOrder
  <2>. HIDE DEF sorted, d
  <2>. QED BY <2>1, <2>2
<1>. HIDE DEF d
<1>4. d \in [1..n -> s] /\ \A i, j \in 1..n : i # j => d[i] # d[j]
  BY <1>3 DEF SetToSeqs
<1>5. n \in Nat /\ IsFiniteSet(1..n) /\ Cardinality(1..n) = n
  BY <1>2, FS_CardinalityType, FS_Interval
<1>6. d \in Seq(s) /\ IsInjective(d)
  BY <1>4, <1>5 DEF IsInjective
<1>7. Range(d) = s
  <2>1. d \in Injection(1..n, s)
    BY <1>4, <1>6 DEF Injection
  <2>2. d \in Surjection(1..n, s)
    BY <1>2, <1>5, <2>1, FS_Injection
  <2>. QED BY <1>4, <2>2 DEF Surjection, Range
<1>. QED BY <1>6, <1>7 DEF d

-------------------------------------------------------------------------------
(* The operations of the table. *)

LEMMA InOf ==
  ASSUME NEW T \in Seq(Pointer)
  PROVE  /\ Len(T) \in Nat /\ \A i \in 1..Len(T) : T[i] \in Object \cup {Null}
         /\ \A e : e \in In(T) <=> e # Null /\ \E i \in 1..Len(T) : T[i] = e
<1>1. \A e : e \in Range(T) <=> \E i \in 1..Len(T) : T[i] = e
  BY RangeFacts
<1>. QED BY <1>1 DEF In, Pointer

\* allocate, when the pool is full.
LEMMA TableGrows ==
  ASSUME NEW T, NEW I, TableOK(T, <<>>, I), NEW o \in Object, o \notin In(T)
  PROVE  /\ TableOK(Append(T, o), <<>>, [I EXCEPT ![o] = Len(T) + 1])
         /\ In(Append(T, o)) = In(T) \cup {o}
<1>. DEFINE V == Append(T, o)
            J == [I EXCEPT ![o] = Len(T) + 1]
<1>1. T \in Seq(Pointer) /\ o \in Pointer /\ o # Null /\ I \in [Object -> Nat]
  BY NullIsNoObject DEF TableOK, Pointer
<1>2. /\ V \in Seq(Pointer) /\ Len(V) = Len(T) + 1 /\ Len(T) \in Nat
      /\ \A i \in 1..Len(T) : V[i] = T[i]
      /\ V[Len(T) + 1] = o
  BY <1>1
<1>3. J \in [Object -> Nat] /\ \A p \in Object : J[p] = IF p = o THEN Len(T) + 1 ELSE I[p]
  BY <1>1, <1>2
<1>4. Len(<<>>) = 0 /\ <<>> \in Seq(Nat)
  OBVIOUS
<1>5. \A i \in 1..Len(T) : T[i] # Null /\ T[i] # o /\ I[T[i]] = i /\ T[i] \in Object
  <2>1. \A i \in 1..Len(T) : T[i] # Null
    BY <1>4 DEF TableOK
  <2>. QED BY <1>1, <2>1, InOf DEF TableOK
<1>. HIDE DEF V, J
<1>6. \A i \in 1..Len(V) : V[i] # Null /\ J[V[i]] = i
  <2>. TAKE i \in 1..Len(V)
  <2>1. CASE i = Len(T) + 1 BY <2>1, <1>1, <1>2, <1>3
  <2>2. CASE i \in 1..Len(T) BY <2>2, <1>2, <1>3, <1>5
  <2>. QED BY <2>1, <2>2, <1>2
<1>7. TableOK(V, <<>>, J)
  BY <1>2, <1>3, <1>4, <1>6 DEF TableOK
<1>8. In(V) = In(T) \cup {o}
  <2>1. ASSUME NEW e \in In(V) PROVE e \in In(T) \cup {o}
    <3>1. PICK i \in 1..Len(V) : V[i] = e /\ e # Null
      BY <1>2, InOf
    <3>2. CASE i = Len(T) + 1 BY <3>1, <3>2, <1>2
    <3>3. CASE i \in 1..Len(T) BY <3>1, <3>3, <1>1, <1>2, InOf
    <3>. QED BY <3>2, <3>3, <1>2
  <2>2. ASSUME NEW e \in In(T) PROVE e \in In(V)
    <3>1. PICK i \in 1..Len(T) : T[i] = e /\ e # Null
      BY <1>1, InOf
    <3>2. i \in 1..Len(V) /\ V[i] = e
      BY <3>1, <1>2
    <3>. QED BY <3>1, <3>2, <1>2, InOf
  <2>3. o \in In(V)
    <3>1. Len(T) + 1 \in 1..Len(V)
      BY <1>2
    <3>. QED BY <3>1, <1>1, <1>2, InOf
  <2>. QED BY <2>1, <2>2, <2>3
<1>. QED BY <1>7, <1>8 DEF V, J

\* allocate, when a slot is free.
LEMMA SlotIsTaken ==
  ASSUME NEW T, NEW F, NEW I, TableOK(T, F, I), F # <<>>, NEW o \in Object, o \notin In(T)
  PROVE  LET i == Last(F)
         IN  /\ TableOK([T EXCEPT ![i] = o], Front(F), [I EXCEPT ![o] = i])
             /\ In([T EXCEPT ![i] = o]) = In(T) \cup {o}
<1>. DEFINE k == Last(F)
            V == [T EXCEPT ![k] = o]
            G == Front(F)
            J == [I EXCEPT ![o] = k]
<1>1. /\ T \in Seq(Pointer) /\ o \in Pointer /\ o # Null /\ I \in [Object -> Nat]
      /\ F \in Seq(Nat)
  BY NullIsNoObject DEF TableOK, Pointer
<1>2. /\ Len(F) \in Nat \ {0} /\ k = F[Len(F)]
      /\ G \in Seq(Nat) /\ Len(G) = Len(F) - 1
      /\ \A i \in 1..(Len(F) - 1) : G[i] = F[i]
  <2>. QED BY <1>1, FrontFacts
<1>3. k \in 1..Len(T) /\ T[k] = Null /\ k \in Nat
  <2>1. Len(F) \in 1..Len(F) BY <1>2
  <2>2. F[Len(F)] \in 1..Len(T) /\ T[F[Len(F)]] = Null
    BY <2>1 DEF TableOK
  <2>. QED BY <1>2, <2>2
<1>4. /\ V \in Seq(Pointer) /\ Len(V) = Len(T)
      /\ \A i \in 1..Len(T) : V[i] = IF i = k THEN o ELSE T[i]
  BY <1>1, <1>3
<1>5. J \in [Object -> Nat] /\ \A p \in Object : J[p] = IF p = o THEN k ELSE I[p]
  BY <1>1, <1>3
<1>. HIDE DEF k, V, G, J
<1>6. \A i \in 1..Len(T) : T[i] # o /\ (T[i] # Null => T[i] \in Object)
  BY <1>1, InOf
<1>7. \A i \in 1..Len(V) : V[i] # Null => J[V[i]] = i
  <2>. TAKE i \in 1..Len(V)
  <2>. HAVE V[i] # Null
  <2>1. CASE i = k
    BY <2>1, <1>3, <1>4, <1>5
  <2>2. CASE i # k
    <3>1. i \in 1..Len(T) /\ V[i] = T[i] /\ T[i] # o /\ T[i] \in Object
      BY <2>2, <1>4, <1>6
    <3>2. I[T[i]] = i
      BY <3>1, <1>1 DEF TableOK
    <3>. QED BY <3>1, <3>2, <1>5
  <2>. QED BY <2>1, <2>2
<1>8. \A i \in 1..Len(G) : G[i] \in 1..Len(V) /\ V[G[i]] = Null
  <2>. TAKE i \in 1..Len(G)
  <2>1. i \in 1..Len(F) /\ Len(F) \in 1..Len(F) /\ i # Len(F) /\ G[i] = F[i]
    BY <1>2
  <2>2. F[i] \in 1..Len(T) /\ T[F[i]] = Null /\ F[i] # k
    BY <2>1, <1>2 DEF TableOK
  <2>. QED BY <2>1, <2>2, <1>4
<1>9. ASSUME NEW i \in 1..Len(V), V[i] = Null
      PROVE  \E j \in 1..Len(G) : G[j] = i
  <2>1. i # k /\ i \in 1..Len(T) /\ T[i] = Null
    BY <1>1, <1>4, <1>9
  <2>2. PICK j \in 1..Len(F) : F[j] = i
    BY <2>1 DEF TableOK
  <2>3. j \in 1..Len(G) /\ G[j] = F[j]
    BY <2>1, <2>2, <1>2
  <2>. QED BY <2>2, <2>3
<1>10. \A i, j \in 1..Len(G) : G[i] = G[j] => i = j
  <2>1. \A i \in 1..Len(G) : i \in 1..Len(F) /\ G[i] = F[i]
    BY <1>2
  <2>. QED BY <2>1 DEF TableOK
<1>11. TableOK(V, G, J)
  BY <1>2, <1>4, <1>5, <1>7, <1>8, <1>9, <1>10 DEF TableOK
<1>12. In(V) = In(T) \cup {o}
  <2>1. ASSUME NEW e \in In(V) PROVE e \in In(T) \cup {o}
    <3>1. PICK i \in 1..Len(V) : V[i] = e /\ e # Null
      BY <1>4, InOf
    <3>. QED BY <3>1, <1>1, <1>4, InOf
  <2>2. ASSUME NEW e \in In(T) PROVE e \in In(V)
    <3>1. PICK i \in 1..Len(T) : T[i] = e /\ e # Null
      BY <1>1, InOf
    <3>2. i \in 1..Len(V) /\ V[i] = e
      BY <3>1, <1>3, <1>4
    <3>. QED BY <3>1, <3>2, <1>4, InOf
  <2>3. o \in In(V)
    BY <1>1, <1>3, <1>4, InOf
  <2>. QED BY <2>1, <2>2, <2>3
<1>. QED BY <1>11, <1>12 DEF k, V, G, J

\* The sequence d lists the objects of s, each once.
Lists(d, s) ==
  /\ d \in Seq(Object)
  /\ \A e : e \in s <=> \E i \in 1..Len(d) : d[i] = e
  /\ \A i, j \in 1..Len(d) : d[i] = d[j] => i = j

\* The table without the objects of s, and the slots of those d lists.
Without(T, s) == [i \in 1..Len(T) |-> IF T[i] \in s THEN Null ELSE T[i]]
SlotsOf(d, I) == [i \in 1..Len(d) |-> I[d[i]]]

LEMMA TableWithout ==
  ASSUME NEW T \in Seq(Pointer), NEW s
  PROVE  In(Without(T, s)) = In(T) \ s
<1>. DEFINE V == Without(T, s)
<1>1. Null \notin Object /\ Len(T) \in Nat
  BY NullIsNoObject
<1>2. /\ V \in Seq(Pointer) /\ Len(V) = Len(T)
      /\ \A i \in 1..Len(T) : V[i] = IF T[i] \in s THEN Null ELSE T[i]
  BY <1>1 DEF Pointer, Without
<1>. HIDE DEF V
<1>3. In(V) = In(T) \ s
  <2>1. ASSUME NEW e \in In(V) PROVE e \in In(T) /\ e \notin s
    <3>1. PICK i \in 1..Len(V) : V[i] = e /\ e # Null
      BY <1>2, InOf
    <3>. QED BY <3>1, <1>1, <1>2, InOf
  <2>2. ASSUME NEW e \in In(T), e \notin s PROVE e \in In(V)
    <3>1. PICK i \in 1..Len(T) : T[i] = e /\ e # Null
      BY <1>1, InOf
    <3>. QED BY <2>2, <3>1, <1>2, InOf
  <2>. QED BY <2>1, <2>2
<1>. QED BY <1>3 DEF V

\* Delete: the slots of the objects of d become free.
LEMMA SlotsAreFreed ==
  ASSUME NEW T, NEW F, NEW I, TableOK(T, F, I), NEW d, NEW s, Lists(d, s), s \subseteq In(T)
  PROVE  TableOK(Without(T, s), F \o SlotsOf(d, I), I) /\ In(Without(T, s)) = In(T) \ s
<1>. DEFINE V == Without(T, s)
            freed == SlotsOf(d, I)
            G == F \o freed
<1>0. /\ d \in Seq(Object) /\ \A e : e \in s <=> \E i \in 1..Len(d) : d[i] = e
      /\ \A i, j \in 1..Len(d) : d[i] = d[j] => i = j
  BY DEF Lists
<1>1. T \in Seq(Pointer) /\ F \in Seq(Nat) /\ I \in [Object -> Nat] /\ Null \notin Object
  BY NullIsNoObject DEF TableOK
<1>2. Len(T) \in Nat /\ Len(F) \in Nat /\ Len(d) \in Nat
  BY <1>0, <1>1
<1>3. /\ V \in Seq(Pointer) /\ Len(V) = Len(T)
      /\ \A i \in 1..Len(T) : V[i] = IF T[i] \in s THEN Null ELSE T[i]
  BY <1>1, <1>2 DEF Pointer, Without
<1>4. \A i \in 1..Len(d) : d[i] \in Object /\ d[i] \in s
  <2>1. \A i \in 1..Len(d) : d[i] \in Object
    BY <1>0
  <2>. QED BY <1>0, <2>1
<1>5. freed \in Seq(Nat) /\ Len(freed) = Len(d) /\ \A i \in 1..Len(d) : freed[i] = I[d[i]]
  BY <1>1, <1>2, <1>4 DEF SlotsOf
<1>. HIDE DEF V, freed
<1>6. /\ G \in Seq(Nat) /\ Len(G) = Len(F) + Len(d)
      /\ \A i \in 1..Len(G) : G[i] = IF i <= Len(F) THEN F[i] ELSE freed[i - Len(F)]
  <2>1. /\ F \o freed \in Seq(Nat) /\ Len(F \o freed) = Len(F) + Len(freed)
        /\ \A i \in 1..(Len(F) + Len(freed)) :
             (F \o freed)[i] = IF i <= Len(F) THEN F[i] ELSE freed[i - Len(F)]
    <3>1. F \in Seq(Nat)
      BY <1>1
    <3>2. freed \in Seq(Nat)
      BY <1>5
    <3>. QED BY <3>1, <3>2, Concatenated
  <2>. QED BY <1>5, <2>1
<1>. HIDE DEF G
<1>7. \A i \in 1..Len(d) : I[d[i]] \in 1..Len(T) /\ T[I[d[i]]] = d[i]
  BY <1>4, SlotOfObject
<1>8. \A i \in 1..Len(G) : \/ i \in 1..Len(F) /\ G[i] = F[i]
                           \/ i - Len(F) \in 1..Len(d) /\ G[i] = I[d[i - Len(F)]]
  <2>. TAKE i \in 1..Len(G)
  <2>1. CASE i <= Len(F)
    <3>1. i \in 1..Len(F)
      BY <2>1, <1>2, <1>6
    <3>. QED BY <2>1, <3>1, <1>6
  <2>2. CASE ~(i <= Len(F))
    <3>1. i - Len(F) \in 1..Len(d)
      BY <2>2, <1>2, <1>6
    <3>. QED BY <2>2, <3>1, <1>5, <1>6
  <2>. QED BY <2>1, <2>2
<1>9. \A i \in 1..Len(V) : V[i] # Null => I[V[i]] = i
  BY <1>3 DEF TableOK
<1>10. \A i \in 1..Len(G) : G[i] \in 1..Len(V) /\ V[G[i]] = Null
  <2>. TAKE i \in 1..Len(G)
  <2>1. CASE i \in 1..Len(F) /\ G[i] = F[i]
    <3>1. F[i] \in 1..Len(T) /\ T[F[i]] = Null
      BY <2>1 DEF TableOK
    <3>. QED BY <2>1, <3>1, <1>3
  <2>2. CASE i - Len(F) \in 1..Len(d) /\ G[i] = I[d[i - Len(F)]]
    BY <2>2, <1>3, <1>4, <1>7
  <2>. QED BY <2>1, <2>2, <1>8
<1>11. ASSUME NEW i \in 1..Len(V), V[i] = Null
       PROVE  \E j \in 1..Len(G) : G[j] = i
  <2>1. CASE T[i] = Null
    <3>1. PICK j \in 1..Len(F) : F[j] = i
      BY <2>1, <1>3 DEF TableOK
    <3>2. j \in 1..Len(G) /\ G[j] = F[j]
      BY <1>2, <1>6
    <3>. QED BY <3>1, <3>2
  <2>2. CASE T[i] \in s
    <3>1. PICK j \in 1..Len(d) : d[j] = T[i]
      BY <2>2, <1>0
    <3>2. I[d[j]] = i
      <4>1. i \in 1..Len(T) /\ T[i] # Null
        BY <3>1, <1>1, <1>3, <1>4
      <4>. QED BY <3>1, <4>1 DEF TableOK
    <3>3. /\ Len(F) + j \in 1..Len(G) /\ ~(Len(F) + j <= Len(F))
          /\ (Len(F) + j) - Len(F) = j
      BY <1>2, <1>6
    <3>4. G[Len(F) + j] = i
      BY <3>2, <3>3, <1>5, <1>6
    <3>. QED BY <3>3, <3>4
  <2>. QED BY <2>1, <2>2, <1>3, <1>11
<1>12. ASSUME NEW i \in 1..Len(G), NEW j \in 1..Len(G), G[i] = G[j]
       PROVE  i = j
  <2>1. \A k \in 1..Len(F) : T[F[k]] = Null
    BY DEF TableOK
  <2>2. \A k \in 1..Len(d) : T[I[d[k]]] # Null
    BY <1>1, <1>4, <1>7
  <2>3. CASE i \in 1..Len(F) /\ G[i] = F[i] /\ j \in 1..Len(F) /\ G[j] = F[j]
    <3>1. \A k, l \in 1..Len(F) : F[k] = F[l] => k = l
      BY DEF TableOK
    <3>. QED BY <2>3, <3>1, <1>12
  <2>4. CASE /\ i - Len(F) \in 1..Len(d) /\ G[i] = I[d[i - Len(F)]]
             /\ j - Len(F) \in 1..Len(d) /\ G[j] = I[d[j - Len(F)]]
    <3>1. d[i - Len(F)] = d[j - Len(F)]
      <4>1. I[d[i - Len(F)]] = I[d[j - Len(F)]]
        BY <2>4, <1>12
      <4>2. /\ T[I[d[i - Len(F)]]] = d[i - Len(F)]
            /\ T[I[d[j - Len(F)]]] = d[j - Len(F)]
        BY <2>4, <1>7
      <4>. QED BY <4>1, <4>2
    <3>2. i - Len(F) = j - Len(F)
      BY <2>4, <3>1, <1>0
    <3>. QED BY <3>2, <1>2
  <2>5. /\ ~(/\ i \in 1..Len(F) /\ G[i] = F[i]
             /\ j - Len(F) \in 1..Len(d) /\ G[j] = I[d[j - Len(F)]])
        /\ ~(/\ j \in 1..Len(F) /\ G[j] = F[j]
             /\ i - Len(F) \in 1..Len(d) /\ G[i] = I[d[i - Len(F)]])
    <3>. HIDE DEF G
    <3>1. \A k \in 1..Len(F), l \in 1..Len(d) : F[k] # I[d[l]]
      BY <2>1, <2>2
    <3>. QED BY <3>1, <1>12
  <2>. QED BY <2>3, <2>4, <2>5, <1>8
<1>13. TableOK(V, G, I)
  BY <1>1, <1>3, <1>6, <1>9, <1>10, <1>11, <1>12 DEF TableOK
<1>14. In(V) = In(T) \ s
  BY TableWithout, <1>1 DEF V
<1>. QED BY <1>13, <1>14 DEF G, V, freed

\* An object that is in no slot may lose its index.
LEMMA IndexForgotten ==
  ASSUME NEW T, NEW F, NEW I, TableOK(T, F, I), NEW gone, gone \cap In(T) = {},
         NEW J, J = [o \in Object |-> IF o \in gone THEN 0 ELSE I[o]]
  PROVE  TableOK(T, F, J)
<1>1. T \in Seq(Pointer) /\ I \in [Object -> Nat]
  BY DEF TableOK
<1>2. J \in [Object -> Nat] /\ \A o \in Object : o \notin gone => J[o] = I[o]
  BY <1>1
<1>3. \A i \in 1..Len(T) : T[i] # Null => T[i] \in Object /\ T[i] \notin gone
  BY <1>1, InOf
<1>. QED BY <1>2, <1>3 DEF TableOK

-------------------------------------------------------------------------------
(* The inductive invariant. *)

Table == TableOK(m_obj_table, free_index_array, m_runtime_index)

\* What waits for deletion is in no slot, so no reference is counted twice.
References ==
  /\ live \subseteq Object /\ held \in [Object -> Nat]
  /\ m_objects_wait_for_delete \subseteq Object \ InTable
  /\ LiveIsReferenced

\* The memory of an object that does not exist points to nothing.
Pointers ==
  /\ m_owner \in [Object -> Pointer] /\ m_pointer \in [Object -> Pointer]
  /\ m_is_deleted \in [Object -> BOOLEAN]
  /\ \A o \in Object \ live : m_pointer[o] = Null
  /\ PointersLive

\* Nobody owns itself, through whatever chain: an owner can be given a smaller rank.
Ranked(owner) ==
  \E rank \in [Object -> Nat] : \A o \in Object : owner[o] # Null => rank[owner[o]] < rank[o]

Owners ==
  /\ \A o \in Object \ live : m_owner[o] = Null
  /\ Ranked(m_owner)

ObjectsInv == Table /\ References /\ Pointers /\ Owners

LEMMA TableObjects ==
  ASSUME Table
  PROVE  InTable = In(m_obj_table) /\ InTable \subseteq Object /\ Alive \subseteq InTable
<1>1. InTable = In(m_obj_table) /\ Alive \subseteq InTable
  BY DEF InTable, In, Alive
<1>2. In(m_obj_table) \subseteq Object
  BY SlotOfObject DEF Table
<1>. QED BY <1>1, <1>2

\* What is in the table, waits, or is held exists.
LEMMA Exists ==
  ASSUME Table, References
  PROVE  /\ \A o \in Object : get_ref(o) \in Nat
         /\ InTable \subseteq live /\ m_objects_wait_for_delete \subseteq live
         /\ \A o \in Object : o \notin live => held[o] = 0
<1>1. \A o \in Object : /\ get_ref(o) \in Nat
                        /\ o \in InTable => get_ref(o) > 0
                        /\ o \in m_objects_wait_for_delete => get_ref(o) > 0
                        /\ held[o] > 0 => get_ref(o) > 0
  BY DEF get_ref, References
<1>2. \A o \in Object : o \in live <=> get_ref(o) > 0
  BY DEF References, LiveIsReferenced
<1>3. \A o \in Object : held[o] \in Nat
  BY DEF References
<1>4. InTable \subseteq Object /\ m_objects_wait_for_delete \subseteq Object
  BY TableObjects DEF References
<1>. QED BY <1>1, <1>2, <1>3, <1>4

LEMMA FewerOwners ==
  ASSUME Ranked(m_owner), \A o \in Object : m_owner'[o] \in {m_owner[o], Null},
         \A o \in Object \ live' : m_owner'[o] = Null
  PROVE  Owners'
<1>1. PICK rank \in [Object -> Nat] :
        \A o \in Object : m_owner[o] # Null => rank[m_owner[o]] < rank[o]
  BY DEF Ranked
<1>2. \A o \in Object : m_owner'[o] # Null => rank[m_owner'[o]] < rank[o]
  BY <1>1
<1>. QED BY <1>2 DEF Owners, Ranked

\* The walk along the owners never comes back.
LEMMA OwnerIsAnother ==
  ASSUME ObjectsInv, NEW o \in Object, NEW keep, keep \subseteq Object
  PROVE  o \notin OwnersIn(o, keep)
<1>1. PICK rank \in [Object -> Nat] :
        \A p \in Object : m_owner[p] # Null => rank[m_owner[p]] < rank[p]
  BY DEF ObjectsInv, Owners, Ranked
<1>. DEFINE s == {p \in keep : rank[p] < rank[o]}
<1>2. ASSUME NEW p \in s \cup {o}, m_owner[p] \in keep PROVE m_owner[p] \in s
  <2>1. p \in Object /\ rank[p] \in Nat /\ rank[o] \in Nat /\ rank[p] <= rank[o]
    BY <1>1
  <2>2. m_owner[p] \in Object /\ m_owner[p] # Null
    BY <1>2, NullIsNoObject
  <2>3. rank[m_owner[p]] < rank[p] /\ rank[m_owner[p]] \in Nat
    BY <1>1, <2>1, <2>2
  <2>. QED BY <1>2, <2>1, <2>3
<1>3. s \in SUBSET keep /\ o \notin s
  BY <1>1
<1>. HIDE DEF s
<1>. QED BY <1>2, <1>3 DEF OwnersIn

-------------------------------------------------------------------------------
(* Every step keeps the invariant. *)

LEMMA CreateGrows ==
  ASSUME ObjectsInv, NEW o \in Object, NEW n, NEW owner, create_object(o, n, owner)
  PROVE  Table' /\ InTable' = InTable \cup {o}
<1>. USE DEF ObjectsInv
<1>1. allocate(o) /\ o \notin InTable
  BY Exists DEF create_object
<1>2. o \notin In(m_obj_table)
  BY <1>1, TableObjects
<1>3. Table' /\ In(m_obj_table)' = In(m_obj_table) \cup {o}
  <2>1. CASE free_index_array = <<>>
    <3>1. TableOK(m_obj_table, <<>>, m_runtime_index)
      BY <2>1 DEF Table
    <3>2. /\ m_obj_table' = Append(m_obj_table, o) /\ free_index_array' = <<>>
          /\ m_runtime_index' = [m_runtime_index EXCEPT ![o] = Len(m_obj_table) + 1]
      BY <1>1, <2>1 DEF allocate
    <3>. QED BY <1>2, <3>1, <3>2, TableGrows DEF Table
  <2>2. CASE free_index_array # <<>>
    <3>. DEFINE i == Last(free_index_array)
    <3>1. /\ m_obj_table' = [m_obj_table EXCEPT ![i] = o]
          /\ free_index_array' = Front(free_index_array)
          /\ m_runtime_index' = [m_runtime_index EXCEPT ![o] = i]
      BY <1>1, <2>2 DEF allocate
    <3>2. /\ TableOK([m_obj_table EXCEPT ![i] = o], Front(free_index_array),
                     [m_runtime_index EXCEPT ![o] = i])
          /\ In([m_obj_table EXCEPT ![i] = o]) = In(m_obj_table) \cup {o}
      BY <1>2, <2>2, SlotIsTaken DEF Table
    <3>. HIDE DEF i
    <3>. QED BY <3>1, <3>2 DEF Table
  <2>. QED BY <2>1, <2>2
<1>. QED BY <1>3 DEF InTable, In

LEMMA CreateStep ==
  ASSUME ObjectsInv, NEW o \in Object, NEW n, NEW owner, create_object(o, n, owner)
  PROVE  ObjectsInv'
<1>. USE DEF ObjectsInv
<1>1. /\ o \notin live /\ owner \in Alive \cup {Null} /\ live' = live \cup {o}
      /\ allocate(o) /\ m_owner' = [m_owner EXCEPT ![o] = owner]
      /\ not_cleared' = not_cleared \ {o}
      /\ UNCHANGED <<m_pointer, held, m_is_deleted, m_objects_wait_for_delete>>
  BY DEF create_object
<1>2. o \notin InTable /\ o # Null /\ o \notin m_objects_wait_for_delete /\ held[o] = 0
  BY <1>1, Exists, NullIsNoObject
<1>3. Table'
  BY CreateGrows
<1>4. InTable' = InTable \cup {o}
  BY CreateGrows
<1>5. References'
  <2>1. \A p \in Object : p # o => get_ref(p)' = get_ref(p)
    BY <1>1, <1>4 DEF get_ref
  <2>2. get_ref(o)' = 1
    BY <1>1, <1>2, <1>4 DEF get_ref
  <2>3. LiveIsReferenced'
    BY <1>1, <2>1, <2>2 DEF References, LiveIsReferenced
  <2>. QED BY <1>1, <1>2, <1>4, <2>3 DEF References
<1>6. Pointers'
  <2>1. Alive' \subseteq Alive \cup {o} /\ Alive \subseteq InTable
    BY <1>1, <1>4 DEF Alive
  <2>2. \A p \in Alive' :
          {m_owner'[p], m_pointer'[p]} \subseteq InTable' \cup not_cleared' \cup {Null}
    <3>. TAKE p \in Alive'
    <3>1. CASE p = o
      BY <1>1, <1>4, <2>1, <3>1 DEF Pointers
    <3>2. CASE p # o
      <4>1. p \in Alive /\ p \in Object
        BY <2>1, <3>2, TableObjects
      <4>2. {m_owner[p], m_pointer[p]} \subseteq InTable \cup not_cleared \cup {Null}
        BY <4>1 DEF Pointers, PointersLive
      <4>3. m_owner'[p] = m_owner[p] /\ m_pointer'[p] = m_pointer[p]
        BY <1>1, <3>2, <4>1 DEF Pointers
      <4>. QED BY <1>1, <1>4, <4>2, <4>3
    <3>. QED BY <3>1, <3>2
  <2>3. owner \in Pointer
    BY <1>1, TableObjects DEF Pointer
  <2>. QED BY <1>1, <2>2, <2>3 DEF Pointers, PointersLive
<1>7. Owners'
  <2>1. PICK rank \in [Object -> Nat] :
          \A p \in Object : m_owner[p] # Null => rank[m_owner[p]] < rank[p]
    BY DEF Owners, Ranked
  <2>. DEFINE r == [rank EXCEPT ![o] = IF owner = Null THEN 0 ELSE rank[owner] + 1]
  <2>2. owner # Null => owner \in Object /\ owner # o
    BY <1>1, <1>2, TableObjects
  <2>3. r \in [Object -> Nat] /\ \A p \in Object : p # o => r[p] = rank[p]
    BY <2>1, <2>2
  <2>4. \A p \in Object : m_owner'[p] = IF p = o THEN owner ELSE m_owner[p]
    BY <1>1 DEF Pointers
  <2>5. \A p \in Object : m_owner[p] # o
    BY <1>1, <1>2 DEF create_object, Unreferenced, Owners
  <2>6. ASSUME NEW p \in Object, m_owner'[p] # Null PROVE r[m_owner'[p]] < r[p]
    <3>1. CASE p = o
      <4>1. r[o] = rank[owner] + 1 /\ r[owner] = rank[owner] /\ rank[owner] \in Nat
        BY <2>1, <2>2, <2>4, <2>6, <3>1
      <4>. QED BY <2>4, <3>1, <4>1
    <3>2. CASE p # o
      <4>1. m_owner'[p] = m_owner[p] /\ m_owner[p] # o /\ m_owner[p] \in Object
        BY <2>4, <2>5, <2>6, <3>2 DEF Pointers, Pointer
      <4>2. rank[m_owner[p]] < rank[p]
        BY <2>1, <2>6, <4>1
      <4>. QED BY <2>3, <3>2, <4>1, <4>2
    <3>. QED BY <3>1, <3>2
  <2>. HIDE DEF r
  <2>7. Ranked(m_owner')
    BY <2>3, <2>6 DEF Ranked
  <2>8. \A p \in Object \ live' : m_owner'[p] = Null
    BY <1>1, <2>4 DEF Owners
  <2>. QED BY <2>7, <2>8 DEF Owners, Ranked
<1>. QED BY <1>3, <1>5, <1>6, <1>7

LEMMA DeleteStep ==
  ASSUME ObjectsInv, NEW d \in Seq(Object), IsInjective(d), Range(d) \subseteq InTable,
         NEW force \in BOOLEAN,
         NEW owners \in [Object -> Pointer], NEW pointers \in [Object -> Pointer],
         \A o \in Object \ live : pointers[o] = Null,
         \A o \in Object : owners[o] \in {m_owner[o], Null},
         \A o \in Alive \ Range(d) :
           {owners[o], pointers[o]} \subseteq (InTable \ Range(d)) \cup not_cleared' \cup {Null},
         Delete(d, force, owners, pointers)
  PROVE  ObjectsInv'
<1>. USE DEF ObjectsInv
<1>. DEFINE s == Range(d)
            gone == IF force THEN {o \in s : held[o] = 0} ELSE {}
            indices == [o \in Object |-> IF o \in gone THEN 0 ELSE m_runtime_index[o]]
            table == Without(m_obj_table, s)
            free == free_index_array \o SlotsOf(d, m_runtime_index)
<1>1. /\ m_objects_wait_for_delete' = m_objects_wait_for_delete \cup (IF force THEN {} ELSE s)
      /\ m_obj_table' = table /\ free_index_array' = free /\ m_runtime_index' = indices
      /\ live' = live \ gone
      /\ m_owner' = [o \in Object |-> IF o \in gone \/ o \in s THEN Null ELSE owners[o]]
      /\ m_pointer' = [o \in Object |-> IF o \in gone THEN Null ELSE pointers[o]]
      /\ m_is_deleted' = [o \in Object |-> o \notin gone /\ (o \in s \/ m_is_deleted[o])]
      /\ held' = held
  BY DEF Delete, Destroyed, FreeSlots, SlotsOf, Without
<1>2. gone \subseteq s /\ s \subseteq InTable /\ s \subseteq Object /\ InTable = In(m_obj_table)
  BY TableObjects
<1>3. TableOK(table, free, m_runtime_index) /\ In(table) = In(m_obj_table) \ s
  <2>1. Lists(d, s)
    BY RangeFacts DEF Lists
  <2>2. s \subseteq In(m_obj_table)
    BY <1>2
  <2>. HIDE DEF s
  <2>. QED BY <2>1, <2>2, SlotsAreFreed DEF Table
<1>. HIDE DEF s, gone, indices, table, free
<1>4. Table' /\ InTable' = InTable \ s
  <2>1. gone \cap In(table) = {}
    BY <1>2, <1>3
  <2>2. TableOK(table, free, indices)
    <3>1. indices = [o \in Object |-> IF o \in gone THEN 0 ELSE m_runtime_index[o]]
      BY DEF indices
    <3>. QED BY <1>3, <2>1, <3>1, IndexForgotten
  <2>3. InTable' = In(table)
    BY <1>1 DEF InTable, In
  <2>. QED BY <1>1, <1>2, <1>3, <2>2, <2>3 DEF Table
<1>5. References'
  <2>1. m_objects_wait_for_delete' \subseteq Object \ InTable'
    BY <1>1, <1>2, <1>4 DEF References
  <2>2. ASSUME NEW o \in Object
        PROVE  o \in live' <=> get_ref(o)' > 0
    <3>1. o \in live <=> get_ref(o) > 0
      BY DEF References, LiveIsReferenced
    <3>2. held[o] \in Nat /\ held'[o] = held[o]
      BY <1>1 DEF References
    <3>3. CASE o \notin s
      <4>1. /\ o \in InTable' <=> o \in InTable
            /\ o \in m_objects_wait_for_delete' <=> o \in m_objects_wait_for_delete
            /\ o \in live' <=> o \in live
        BY <1>1, <1>2, <1>4, <3>3
      <4>. QED BY <3>1, <3>2, <4>1 DEF get_ref
    <3>4. CASE o \in s
      <4>1. /\ o \notin InTable' /\ o \in InTable /\ o \in live
            /\ o \notin m_objects_wait_for_delete
        BY <1>2, <1>4, <3>4, Exists DEF References
      <4>2. CASE force
        <5>1. o \notin m_objects_wait_for_delete' /\ (o \in live' <=> held[o] # 0)
          BY <1>1, <3>4, <4>1, <4>2 DEF gone
        <5>. QED BY <3>2, <4>1, <5>1 DEF get_ref
      <4>3. CASE ~force
        <5>1. o \in m_objects_wait_for_delete' /\ o \in live'
          BY <1>1, <3>4, <4>1, <4>3 DEF gone
        <5>. QED BY <3>2, <4>1, <5>1 DEF get_ref
      <4>. QED BY <4>2, <4>3
    <3>. QED BY <3>3, <3>4
  <2>3. LiveIsReferenced'
    BY <1>1, <2>2 DEF References, LiveIsReferenced
  <2>. QED BY <1>1, <2>1, <2>3 DEF References
<1>6. Pointers'
  <2>1. ASSUME NEW o \in Alive'
        PROVE  {m_owner'[o], m_pointer'[o]} \subseteq InTable' \cup not_cleared' \cup {Null}
    <3>1. o \in InTable /\ o \notin s /\ ~m_is_deleted'[o]
      BY <1>4 DEF Alive
    <3>2. o \in Object /\ o \notin gone
      BY <1>2, <3>1, TableObjects
    <3>3. ~m_is_deleted[o]
      BY <1>1, <3>1, <3>2
    <3>4. {owners[o], pointers[o]} \subseteq (InTable \ s) \cup not_cleared' \cup {Null}
      BY <3>1, <3>3 DEF Alive, s
    <3>. QED BY <1>1, <1>4, <3>1, <3>2, <3>4
  <2>2. /\ m_owner' \in [Object -> Pointer] /\ m_pointer' \in [Object -> Pointer]
        /\ m_is_deleted' \in [Object -> BOOLEAN]
    BY <1>1 DEF Pointer, Pointers
  <2>3. \A o \in Object \ live' : m_pointer'[o] = Null
    BY <1>1
  <2>. QED BY <2>1, <2>2, <2>3 DEF Pointers, PointersLive
<1>7. Owners'
  <2>1. \A o \in Object : m_owner'[o] \in {m_owner[o], Null}
    BY <1>1
  <2>2. \A o \in Object \ live' : m_owner'[o] = Null
    BY <1>1, <2>1 DEF Owners
  <2>. QED BY <2>1, <2>2, FewerOwners DEF Owners
<1>. QED BY <1>4, <1>5, <1>6, <1>7

\* What is destroyed had no reference but the one that goes, and was in no slot.
LEMMA DestroyStep ==
  ASSUME ObjectsInv, NEW gone, gone \subseteq Object, gone \cap InTable = {},
         NEW deleted \in [Object -> BOOLEAN],
         \A o \in Object : m_is_deleted[o] => deleted[o],
         Destroyed(gone, m_owner, m_pointer, deleted),
         UNCHANGED <<m_obj_table, free_index_array, not_cleared>>,
         held' \in [Object -> Nat], m_objects_wait_for_delete' \subseteq m_objects_wait_for_delete,
         \A o \in Object : /\ o \in gone => get_ref(o)' = 0
                           /\ o \notin gone => (get_ref(o)' > 0 <=> get_ref(o) > 0)
  PROVE  ObjectsInv'
<1>. USE DEF ObjectsInv
<1>1. /\ live' = live \ gone
      /\ m_owner' = [o \in Object |-> IF o \in gone THEN Null ELSE m_owner[o]]
      /\ m_pointer' = [o \in Object |-> IF o \in gone THEN Null ELSE m_pointer[o]]
      /\ m_is_deleted' = [o \in Object |-> o \notin gone /\ deleted[o]]
      /\ m_runtime_index' = [o \in Object |-> IF o \in gone THEN 0 ELSE m_runtime_index[o]]
  BY DEF Destroyed
<1>2. InTable' = InTable /\ InTable = In(m_obj_table) /\ InTable \subseteq Object
  BY TableObjects DEF InTable
<1>3. Table'
  <2>1. TableOK(m_obj_table, free_index_array, m_runtime_index)
    BY DEF Table
  <2>2. gone \cap In(m_obj_table) = {}
    BY <1>2
  <2>3. TableOK(m_obj_table, free_index_array, m_runtime_index')
    BY <1>1, <2>1, <2>2, IndexForgotten
  <2>. QED BY <2>3 DEF Table
<1>4. References'
  <2>1. ASSUME NEW o \in Object PROVE o \in live' <=> get_ref(o)' > 0
    BY <1>1 DEF References, LiveIsReferenced
  <2>. QED BY <1>1, <1>2, <2>1 DEF References, LiveIsReferenced
<1>5. Pointers'
  <2>1. ASSUME NEW o \in Alive'
        PROVE  {m_owner'[o], m_pointer'[o]} \subseteq InTable' \cup not_cleared' \cup {Null}
    <3>1. o \in InTable /\ o \in Object /\ o \notin gone /\ ~m_is_deleted'[o]
      BY <1>2 DEF Alive
    <3>2. o \in Alive
      BY <1>1, <3>1 DEF Alive
    <3>3. {m_owner[o], m_pointer[o]} \subseteq InTable \cup not_cleared \cup {Null}
      BY <3>2 DEF Pointers, PointersLive
    <3>. QED BY <1>1, <1>2, <3>1, <3>3
  <2>2. /\ m_owner' \in [Object -> Pointer] /\ m_pointer' \in [Object -> Pointer]
        /\ m_is_deleted' \in [Object -> BOOLEAN]
    BY <1>1 DEF Pointer, Pointers
  <2>3. \A o \in Object \ live' : m_pointer'[o] = Null
    BY <1>1 DEF Pointers
  <2>. QED BY <2>1, <2>2, <2>3 DEF Pointers, PointersLive
<1>6. Owners'
  <2>1. \A o \in Object : m_owner'[o] \in {m_owner[o], Null}
    BY <1>1
  <2>2. \A o \in Object \ live' : m_owner'[o] = Null
    BY <1>1, <2>1 DEF Owners
  <2>. QED BY <2>1, <2>2, FewerOwners DEF Owners
<1>. QED BY <1>3, <1>4, <1>5, <1>6

LEMMA DecRefStep ==
  ASSUME ObjectsInv, NEW o \in Object, dec_ref(o)
  PROVE  ObjectsInv'
<1>. DEFINE gone == {p \in {o} : get_ref(p) = 1}
            deleted == [m_is_deleted EXCEPT
                          ![o] = @ \/ (get_ref(o) = 2 /\ m_owner[o] \notin Module)]
<1>1. /\ held[o] > 0 /\ held' = [held EXCEPT ![o] = held[o] - 1]
      /\ Destroyed(gone, m_owner, m_pointer, deleted)
      /\ UNCHANGED <<m_obj_table, free_index_array, not_cleared, m_objects_wait_for_delete>>
  BY DEF dec_ref, ObjectsInv, References
<1>2. /\ held \in [Object -> Nat] /\ m_is_deleted \in [Object -> BOOLEAN]
      /\ Table /\ References
  BY DEF ObjectsInv, References, Pointers
<1>3. InTable' = InTable
  BY <1>1 DEF InTable
<1>4. held' \in [Object -> Nat]
  BY <1>1, <1>2
<1>5. deleted \in [Object -> BOOLEAN] /\ \A p \in Object : m_is_deleted[p] => deleted[p]
  BY <1>2
<1>6. gone \subseteq Object /\ gone \cap InTable = {}
  BY <1>1, <1>2 DEF get_ref
<1>7. ASSUME NEW p \in Object
      PROVE  /\ p \in gone => get_ref(p)' = 0
             /\ p \notin gone => (get_ref(p)' > 0 <=> get_ref(p) > 0)
  <2>1. CASE p = o
    BY <1>1, <1>2, <1>3, <2>1 DEF get_ref
  <2>2. CASE p # o
    <3>1. get_ref(p)' = get_ref(p) /\ p \notin gone
      BY <1>1, <1>2, <1>3, <2>2 DEF get_ref
    <3>. QED BY <3>1
  <2>. QED BY <2>1, <2>2
<1>. HIDE DEF gone, deleted
<1>. QED BY <1>1, <1>4, <1>5, <1>6, <1>7, DestroyStep

LEMMA CollectStep ==
  ASSUME ObjectsInv, collect_garbage
  PROVE  ObjectsInv'
<1>. DEFINE gone == {o \in m_objects_wait_for_delete : get_ref(o) = 1}
<1>1. /\ m_objects_wait_for_delete' = m_objects_wait_for_delete \ gone
      /\ Destroyed(gone, m_owner, m_pointer, m_is_deleted)
      /\ UNCHANGED <<m_obj_table, free_index_array, held, not_cleared>>
  BY DEF collect_garbage
<1>2. /\ held \in [Object -> Nat] /\ m_is_deleted \in [Object -> BOOLEAN]
      /\ m_objects_wait_for_delete \subseteq Object \ InTable
  BY DEF ObjectsInv, References, Pointers
<1>3. InTable' = InTable
  BY <1>1 DEF InTable
<1>4. gone \subseteq Object /\ gone \cap InTable = {}
  BY <1>2
<1>5. ASSUME NEW p \in Object
      PROVE  /\ p \in gone => get_ref(p)' = 0
             /\ p \notin gone => (get_ref(p)' > 0 <=> get_ref(p) > 0)
  <2>1. held'[p] = held[p] /\ held[p] \in Nat
    BY <1>1, <1>2
  <2>2. CASE p \in gone
    BY <1>1, <1>2, <1>3, <2>1, <2>2 DEF get_ref
  <2>3. CASE p \notin gone
    <3>1. p \in m_objects_wait_for_delete' <=> p \in m_objects_wait_for_delete
      BY <1>1, <2>3
    <3>. QED BY <1>3, <2>1, <2>3, <3>1 DEF get_ref
  <2>. QED BY <2>2, <2>3
<1>. HIDE DEF gone
<1>. QED BY <1>1, <1>2, <1>4, <1>5, DestroyStep

LEMMA AloneInOrder ==
  ASSUME NEW o \in Object
  PROVE  <<o>> \in Seq(Object) /\ IsInjective(<<o>>) /\ Range(<<o>>) = {o}
<1>. DEFINE q == <<o>>
<1>1. q \in Seq(Object) /\ Len(q) = 1 /\ q[1] = o
  OBVIOUS
<1>. HIDE DEF q
<1>2. /\ \A e : e \in Range(q) <=> \E i \in 1..Len(q) : q[i] = e
      /\ IsInjective(q) <=> \A i, j \in 1..Len(q) : q[i] = q[j] => i = j
  BY <1>1, RangeFacts
<1>3. 1..Len(q) = {1}
  BY <1>1
<1>4. q \in Seq(Object) /\ IsInjective(q) /\ Range(q) = {o}
  BY <1>1, <1>2, <1>3
<1>. QED BY <1>4 DEF q

\* Nothing that stays points to what is deleted.
LEMMA DeleteObjectStep ==
  ASSUME ObjectsInv, NEW o \in Object, NEW force \in BOOLEAN, delete_object(o, force)
  PROVE  ObjectsInv'
<1>. USE DEF ObjectsInv
<1>1. /\ o \in InTable /\ Delete(<<o>>, force, m_owner, m_pointer)
      /\ not_cleared' = not_cleared /\ Unreferenced(o)
  BY DEF delete_object
<1>2. <<o>> \in Seq(Object) /\ IsInjective(<<o>>) /\ Range(<<o>>) = {o}
  BY AloneInOrder
<1>3. ASSUME NEW p \in Alive \ {o}
      PROVE  {m_owner[p], m_pointer[p]} \subseteq (InTable \ {o}) \cup not_cleared' \cup {Null}
  <2>1. p \in live
    BY TableObjects, Exists
  <2>2. o \notin {m_owner[p], m_pointer[p]}
    BY <1>1, <2>1 DEF Unreferenced
  <2>3. {m_owner[p], m_pointer[p]} \subseteq InTable \cup not_cleared \cup {Null}
    BY DEF Pointers, PointersLive
  <2>. QED BY <1>1, <2>2, <2>3
<1>4. /\ m_owner \in [Object -> Pointer] /\ m_pointer \in [Object -> Pointer]
      /\ \A p \in Object \ live : m_pointer[p] = Null
      /\ \A p \in Object : m_owner[p] \in {m_owner[p], Null}
  BY DEF Pointers
<1>. HIDE DEF ObjectsInv
<1>5. Range(<<o>>) \subseteq InTable
  BY <1>1, <1>2
<1>6. \A p \in Alive \ Range(<<o>>) :
        {m_owner[p], m_pointer[p]} \subseteq (InTable \ Range(<<o>>)) \cup not_cleared' \cup {Null}
  BY <1>2, <1>3
<1>. QED BY <1>1, <1>2, <1>4, <1>5, <1>6, DeleteStep

LEMMA ClearedFacts ==
  ASSUME ObjectsInv, NEW s
  PROVE  /\ Cleared(m_owner, s) \in [Object -> Pointer]
         /\ Cleared(m_pointer, s) \in [Object -> Pointer]
         /\ \A o \in Object \ live : Cleared(m_pointer, s)[o] = Null
         /\ \A o \in Object : Cleared(m_owner, s)[o] \in {m_owner[o], Null}
         /\ \A o \in Alive : {Cleared(m_owner, s)[o], Cleared(m_pointer, s)[o]}
                               \subseteq (InTable \ s) \cup (not_cleared \ s) \cup {Null}
<1>. USE DEF ObjectsInv
<1>1. /\ Cleared(m_owner, s) \in [Object -> Pointer]
      /\ Cleared(m_pointer, s) \in [Object -> Pointer]
      /\ \A o \in Object \ live : Cleared(m_pointer, s)[o] = Null
      /\ \A o \in Object : Cleared(m_owner, s)[o] \in {m_owner[o], Null}
  BY DEF Cleared, Pointers, Pointer
<1>2. ASSUME NEW o \in Alive
      PROVE  {Cleared(m_owner, s)[o], Cleared(m_pointer, s)[o]}
               \subseteq (InTable \ s) \cup (not_cleared \ s) \cup {Null}
  <2>1. o \in Object
    BY TableObjects
  <2>2. {m_owner[o], m_pointer[o]} \subseteq InTable \cup not_cleared \cup {Null}
    BY DEF Pointers, PointersLive
  <2>. QED BY <2>1, <2>2 DEF Cleared
<1>. QED BY <1>1, <1>2

\* One more object after a list of others.
LEMMA ListedLast ==
  ASSUME NEW q \in Seq(Object), IsInjective(q), NEW o \in Object, o \notin Range(q)
  PROVE  /\ Append(q, o) \in Seq(Object) /\ IsInjective(Append(q, o))
         /\ Range(Append(q, o)) = Range(q) \cup {o}
<1>. DEFINE r == Append(q, o)
<1>1. /\ r \in Seq(Object) /\ Len(r) = Len(q) + 1 /\ Len(q) \in Nat
      /\ \A i \in 1..Len(q) : r[i] = q[i]
      /\ r[Len(q) + 1] = o
  OBVIOUS
<1>. HIDE DEF r
<1>2. /\ \A e : e \in Range(q) <=> \E i \in 1..Len(q) : q[i] = e
      /\ \A i, j \in 1..Len(q) : q[i] = q[j] => i = j
      /\ \A e : e \in Range(r) <=> \E i \in 1..Len(r) : r[i] = e
      /\ IsInjective(r) <=> \A i, j \in 1..Len(r) : r[i] = r[j] => i = j
  BY <1>1, RangeFacts
<1>3. \A i \in 1..Len(r) : i \in 1..Len(q) \/ i = Len(q) + 1
  BY <1>1
<1>4. \A i \in 1..Len(q) : q[i] # o
  BY <1>2
<1>5. IsInjective(r)
  BY <1>1, <1>2, <1>3, <1>4
<1>6. Range(r) = Range(q) \cup {o}
  <2>1. Len(q) + 1 \in 1..Len(r) /\ \A i \in 1..Len(q) : i \in 1..Len(r)
    BY <1>1
  <2>. QED BY <1>1, <1>2, <1>3, <2>1
<1>. QED BY <1>1, <1>5, <1>6 DEF r

\* One more object before a list of others.
LEMMA ListedFirst ==
  ASSUME NEW q \in Seq(Object), IsInjective(q), NEW o \in Object, o \notin Range(q)
  PROVE  /\ <<o>> \o q \in Seq(Object) /\ IsInjective(<<o>> \o q)
         /\ Range(<<o>> \o q) = {o} \cup Range(q)
<1>. DEFINE r == <<o>> \o q
<1>1. /\ r \in Seq(Object) /\ Len(r) = 1 + Len(q) /\ Len(q) \in Nat
      /\ \A i \in 1..(1 + Len(q)) : r[i] = IF i <= 1 THEN o ELSE q[i - 1]
  <2>1. <<o>> \in Seq(Object) /\ Len(<<o>>) = 1 /\ <<o>>[1] = o /\ Len(q) \in Nat
    OBVIOUS
  <2>2. /\ <<o>> \o q \in Seq(Object) /\ Len(<<o>> \o q) = Len(<<o>>) + Len(q)
        /\ \A i \in 1..(Len(<<o>>) + Len(q)) :
             (<<o>> \o q)[i] = IF i <= Len(<<o>>) THEN <<o>>[i] ELSE q[i - Len(<<o>>)]
    BY <2>1, Concatenated
  <2>. QED BY <2>1, <2>2
<1>. HIDE DEF r
<1>2. /\ \A e : e \in Range(q) <=> \E i \in 1..Len(q) : q[i] = e
      /\ \A i, j \in 1..Len(q) : q[i] = q[j] => i = j
      /\ \A e : e \in Range(r) <=> \E i \in 1..Len(r) : r[i] = e
      /\ IsInjective(r) <=> \A i, j \in 1..Len(r) : r[i] = r[j] => i = j
  BY <1>1, RangeFacts
<1>3. \A i \in 1..Len(r) : \/ i = 1 /\ r[i] = o
                           \/ i - 1 \in 1..Len(q) /\ r[i] = q[i - 1]
  BY <1>1
<1>4. \A i \in 1..Len(q) : q[i] # o
  BY <1>2
<1>5. IsInjective(r)
  <2>1. ASSUME NEW i \in 1..Len(r), NEW j \in 1..Len(r), r[i] = r[j] PROVE i = j
    <3>1. CASE i - 1 \in 1..Len(q) /\ r[i] = q[i - 1] /\ j - 1 \in 1..Len(q) /\ r[j] = q[j - 1]
      <4>1. i - 1 = j - 1
        BY <1>2, <2>1, <3>1
      <4>. QED BY <4>1, <1>1
    <3>. QED BY <1>3, <1>4, <2>1, <3>1
  <2>. QED BY <1>2, <2>1
<1>6. Range(r) = {o} \cup Range(q)
  <2>1. 1 \in 1..Len(r) /\ r[1] = o
    BY <1>1
  <2>2. \A i \in 1..Len(q) : i + 1 \in 1..Len(r) /\ r[i + 1] = q[i]
    BY <1>1
  <2>3. \A e \in Range(r) : e \in {o} \cup Range(q)
    BY <1>2, <1>3
  <2>4. o \in Range(r) /\ \A e \in Range(q) : e \in Range(r)
    BY <1>2, <2>1, <2>2
  <2>. QED BY <2>3, <2>4
<1>. QED BY <1>1, <1>5, <1>6 DEF r

\* A set of objects of the table, in the order of their slots.
LEMMA SetInOrder ==
  ASSUME ObjectsInv, NEW s, s \subseteq InTable
  PROVE  /\ SlotOrder(s) \in Seq(Object) /\ IsInjective(SlotOrder(s))
         /\ Range(SlotOrder(s)) = s
<1>1. SlotOrder(s) \in Seq(s) /\ IsInjective(SlotOrder(s)) /\ Range(SlotOrder(s)) = s
  BY SlotOrderExact DEF ObjectsInv, Table
<1>2. s \subseteq Object
  BY TableObjects DEF ObjectsInv
<1>. HIDE DEF SlotOrder
<1>. QED BY <1>1, <1>2

\* The objects delete_object_tree deletes, in its order.
LEMMA TreeInOrder ==
  ASSUME ObjectsInv, NEW top \in Object, top \in Alive, NEW d,
         d = Append(SlotOrder(query_objects_owned_by(top)), top)
  PROVE  d \in Seq(Object) /\ IsInjective(d) /\ Range(d) \subseteq InTable
<1>. DEFINE s == query_objects_owned_by(top)
<1>1. s \subseteq InTable /\ top \in InTable
  BY TableObjects DEF query_objects_owned_by, Named, ObjectsInv
<1>2. top \notin s
  BY OwnerIsAnother DEF query_objects_owned_by
<1>. HIDE DEF s
<1>3. d \in Seq(Object) /\ IsInjective(d) /\ Range(d) = s \cup {top}
  BY <1>1, <1>2, SetInOrder, ListedLast DEF s
<1>. QED BY <1>1, <1>3

LEMMA DeleteTreeStep ==
  ASSUME ObjectsInv, NEW top \in Object, delete_object_tree(top)
  PROVE  ObjectsInv'
<1>. DEFINE s == query_objects_owned_by(top)
            d == Append(SlotOrder(s), top)
            owners == Cleared(m_owner, Range(d))
            pointers == Cleared(m_pointer, Range(d))
<1>1. top \in Alive /\ Delete(d, FALSE, owners, pointers) /\ not_cleared' = not_cleared
  BY DEF delete_object_tree
<1>4. d \in Seq(Object) /\ IsInjective(d) /\ Range(d) \subseteq InTable
  BY <1>1, TreeInOrder
<1>. HIDE DEF d
<1>5. /\ owners \in [Object -> Pointer] /\ pointers \in [Object -> Pointer]
      /\ \A o \in Object \ live : pointers[o] = Null
      /\ \A o \in Object : owners[o] \in {m_owner[o], Null}
      /\ \A o \in Alive : {owners[o], pointers[o]}
                            \subseteq (InTable \ Range(d)) \cup (not_cleared \ Range(d)) \cup {Null}
  BY ClearedFacts
<1>. HIDE DEF owners, pointers
<1>6. \A o \in Alive \ Range(d) :
        {owners[o], pointers[o]} \subseteq (InTable \ Range(d)) \cup not_cleared' \cup {Null}
  BY <1>1, <1>5
<1>. QED BY <1>1, <1>4, <1>5, <1>6, DeleteStep

\* The objects unload_module deletes, in its order, and none else.
LEMMA ModuleInOrder ==
  ASSUME ObjectsInv, NEW m \in Object, m \in Alive, NEW first \in query_module_object(m),
         NEW rest, rest = query_module_object(m) \ {first},
         NEW d, d = <<first>> \o SlotOrder(rest) \o <<m>>
  PROVE  /\ d \in Seq(Object) /\ IsInjective(d) /\ Range(d) \subseteq InTable
         /\ Range(d) = query_module_object(m) \cup {m}
<1>. DEFINE s == query_module_object(m)
            q == SlotOrder(rest)
            u == <<first>> \o q
<1>1. s \subseteq InTable /\ m \in InTable
  BY TableObjects DEF query_module_object, Named, ObjectsInv
<1>2. m \notin s
  <2>1. Alive \subseteq Object
    BY TableObjects DEF ObjectsInv
  <2>. QED BY <2>1, OwnerIsAnother DEF query_module_object
<1>. HIDE DEF s
<1>3. /\ rest \subseteq InTable /\ first \notin rest /\ m \notin rest \cup {first}
      /\ first \in Object /\ rest \cup {first} = s
  BY <1>1, <1>2, TableObjects DEF ObjectsInv, s
<1>4. q \in Seq(Object) /\ IsInjective(q) /\ Range(q) = rest
  BY <1>3, SetInOrder
<1>. HIDE DEF q
<1>5. u \in Seq(Object) /\ IsInjective(u) /\ Range(u) = {first} \cup rest
  BY <1>3, <1>4, ListedFirst
<1>6. d = u \o <<m>>
  BY DEF q
<1>. HIDE DEF u
<1>7. u \o <<m>> = Append(u, m)
  BY <1>5
<1>8. /\ Append(u, m) \in Seq(Object) /\ IsInjective(Append(u, m))
      /\ Range(Append(u, m)) = {first} \cup rest \cup {m}
  BY <1>3, <1>5, ListedLast
<1>. QED BY <1>1, <1>3, <1>6, <1>7, <1>8 DEF s

\* The first object of the set and the module are the ones still pointed to.
LEMMA UnloadStep ==
  ASSUME ObjectsInv, NEW m \in Object, unload_module(m)
  PROVE  ObjectsInv'
<1>. DEFINE s == query_module_object(m)
<1>1. m \in Alive /\ m \in InTable
  BY TableObjects DEF unload_module, ObjectsInv
<1>2. CASE s = {} /\ Delete(<<m>>, TRUE, m_owner, m_pointer) /\ not_cleared' = not_cleared \cup {m}
  <2>1. <<m>> \in Seq(Object) /\ IsInjective(<<m>>) /\ Range(<<m>>) = {m}
    BY AloneInOrder
  <2>2. /\ m_owner \in [Object -> Pointer] /\ m_pointer \in [Object -> Pointer]
        /\ \A o \in Object \ live : m_pointer[o] = Null
        /\ \A o \in Object : m_owner[o] \in {m_owner[o], Null}
    BY DEF ObjectsInv, Pointers
  <2>3. \A o \in Alive \ Range(<<m>>) :
          {m_owner[o], m_pointer[o]}
             \subseteq (InTable \ Range(<<m>>)) \cup not_cleared' \cup {Null}
    BY <1>2, <2>1 DEF ObjectsInv, Pointers, PointersLive
  <2>4. Range(<<m>>) \subseteq InTable
    BY <1>1, <2>1
  <2>. QED BY <1>2, <2>1, <2>2, <2>3, <2>4, DeleteStep
<1>3. ASSUME NEW first \in s,
             Delete(<<first>> \o SlotOrder(s \ {first}) \o <<m>>, TRUE,
                    Cleared(m_owner, s \ {first}), Cleared(m_pointer, s \ {first})),
             not_cleared' = not_cleared \cup {m, first}
      PROVE  ObjectsInv'
  <2>. DEFINE rest == s \ {first}
              d == <<first>> \o SlotOrder(rest) \o <<m>>
              owners == Cleared(m_owner, rest)
              pointers == Cleared(m_pointer, rest)
  <2>1. /\ d \in Seq(Object) /\ IsInjective(d) /\ Range(d) \subseteq InTable
        /\ Range(d) = s \cup {m}
    <3>. HIDE DEF d, rest
    <3>. QED BY <1>1, ModuleInOrder DEF d, rest
  <2>2. Delete(d, TRUE, owners, pointers)
    BY <1>3
  <2>3. rest \cup {first} = s
    OBVIOUS
  <2>. HIDE DEF s, rest, d
  <2>4. /\ owners \in [Object -> Pointer] /\ pointers \in [Object -> Pointer]
        /\ \A o \in Object \ live : pointers[o] = Null
        /\ \A o \in Object : owners[o] \in {m_owner[o], Null}
        /\ \A o \in Alive : {owners[o], pointers[o]}
                              \subseteq (InTable \ rest) \cup (not_cleared \ rest) \cup {Null}
    BY ClearedFacts
  <2>. HIDE DEF owners, pointers
  <2>5. \A o \in Alive \ Range(d) :
          {owners[o], pointers[o]} \subseteq (InTable \ Range(d)) \cup not_cleared' \cup {Null}
    BY <1>3, <2>1, <2>3, <2>4
  <2>. QED BY <2>1, <2>2, <2>4, <2>5, DeleteStep
<1>. QED
  <2>. HIDE DEF s
  <2>. QED BY <1>2, <1>3 DEF unload_module, s

-------------------------------------------------------------------------------
LEMMA ObjectsInvInit ==
  ASSUME Init
  PROVE  ObjectsInv
<1>. DEFINE F == [i \in 1..InitialSize |-> InitialSize - i + 1]
            T == [i \in 1..InitialSize |-> Null]
<1>1. InitialSize \in Nat
  BY ObjectsAssumption DEF ObjectsAssumption
<1>2. /\ m_obj_table = T /\ free_index_array = F
      /\ m_runtime_index = [o \in Object |-> 0]
  BY DEF Init
<1>3. T \in Seq(Pointer) /\ Len(T) = InitialSize /\ \A i \in 1..Len(T) : T[i] = Null
  BY <1>1 DEF Pointer
<1>4. /\ F \in Seq(Nat) /\ Len(F) = InitialSize
      /\ \A i \in 1..Len(F) : F[i] = InitialSize - i + 1
  BY <1>1
<1>. HIDE DEF T, F
<1>5. Table
  <2>1. \A i \in 1..Len(F) : F[i] \in 1..Len(T)
    BY <1>1, <1>3, <1>4
  <2>2. ASSUME NEW i \in 1..Len(T) PROVE \E j \in 1..Len(F) : F[j] = i
    <3>1. InitialSize - i + 1 \in 1..Len(F) /\ F[InitialSize - i + 1] = i
      BY <1>1, <1>3, <1>4
    <3>. QED BY <3>1
  <2>3. \A i, j \in 1..Len(F) : F[i] = F[j] => i = j
    BY <1>1, <1>4
  <2>. QED BY <1>2, <1>3, <1>4, <2>1, <2>2, <2>3 DEF Table, TableOK
<1>6. InTable = {}
  <2>1. \A e \in In(T) : FALSE
    BY <1>3, InOf
  <2>. QED BY <1>2, <2>1 DEF InTable, In
<1>7. References
  <2>1. \A o \in Object : get_ref(o) = 0
    BY <1>6 DEF Init, get_ref
  <2>. QED BY <1>6, <2>1 DEF Init, References, LiveIsReferenced
<1>8. Pointers
  BY <1>6 DEF Init, Pointers, PointersLive, Nowhere, Pointer, Alive
<1>9. Owners
  <2>1. \A o \in Object : m_owner[o] = Null
    BY DEF Init, Nowhere
  <2>2. [o \in Object |-> 0] \in [Object -> Nat]
    OBVIOUS
  <2>. QED BY <2>1, <2>2 DEF Owners, Ranked
<1>. QED BY <1>5, <1>7, <1>8, <1>9 DEF ObjectsInv

LEMMA ObjectsInvNext ==
  ASSUME ObjectsInv, [Next]_vars
  PROVE  ObjectsInv'
<1>. USE DEF ObjectsInv
<1>1. ASSUME UNCHANGED <<live, tableVars, pointerVars, deleteVars>>,
             \/ held' = held
             \/ \E o \in Object : o \in live /\ held' = [held EXCEPT ![o] = @ + 1]
      PROVE  ObjectsInv'
  <2>1. /\ InTable' = InTable /\ Alive' = Alive
        /\ UNCHANGED <<live, m_obj_table, free_index_array, m_runtime_index, m_owner, m_pointer,
                       m_is_deleted, m_objects_wait_for_delete, not_cleared>>
    BY <1>1 DEF tableVars, pointerVars, deleteVars, InTable, Alive
  <2>2. Table' /\ Pointers' /\ Owners'
    BY <2>1 DEF Table, Pointers, PointersLive, Owners, Ranked
  <2>3. held' \in [Object -> Nat]
    BY <1>1 DEF References
  <2>4. \A o \in Object : get_ref(o)' > 0 <=> get_ref(o) > 0
    <3>1. CASE held' = held
      BY <2>1, <3>1 DEF get_ref
    <3>2. ASSUME NEW o \in Object, o \in live, held' = [held EXCEPT ![o] = @ + 1],
                 NEW p \in Object
          PROVE  get_ref(p)' > 0 <=> get_ref(p) > 0
      <4>1. held[p] \in Nat /\ held'[p] = IF p = o THEN held[p] + 1 ELSE held[p]
        BY <3>2 DEF References
      <4>2. get_ref(o) > 0
        BY <3>2 DEF References, LiveIsReferenced
      <4>. QED BY <2>1, <4>1, <4>2 DEF get_ref
    <3>. QED BY <1>1, <3>1, <3>2
  <2>5. References'
    BY <2>1, <2>3, <2>4 DEF References, LiveIsReferenced
  <2>. QED BY <2>2, <2>5
<1>2. ASSUME NEW o \in Object, NEW n, rename_object(o, n)
      PROVE  ObjectsInv'
  BY <1>1, <1>2 DEF rename_object
<1>3. ASSUME NEW o \in Object, NEW p \in Object, set_pointer(o, p)
      PROVE  ObjectsInv'
  <2>1. /\ o \in Alive /\ p \in Alive /\ m_pointer' = [m_pointer EXCEPT ![o] = p]
        /\ UNCHANGED <<live, m_obj_table, free_index_array, m_runtime_index, m_owner, held,
                       m_is_deleted, m_objects_wait_for_delete, not_cleared>>
    BY <1>3 DEF set_pointer, tableVars, deleteVars
  <2>2. InTable' = InTable /\ Alive' = Alive /\ \A q : get_ref(q)' = get_ref(q)
    BY <2>1 DEF InTable, Alive, get_ref
  <2>3. p \in InTable /\ o \in live
    BY <2>1, TableObjects, Exists
  <2>4. \A q \in Object : m_pointer'[q] = IF q = o THEN p ELSE m_pointer[q]
    BY <2>1 DEF Pointers
  <2>5. m_pointer' \in [Object -> Pointer]
    BY <2>1 DEF Pointers, Pointer
  <2>6. Alive \subseteq Object
    BY TableObjects
  <2>7. PointersLive'
    BY <2>1, <2>2, <2>3, <2>4, <2>6 DEF Pointers, PointersLive
  <2>8. Pointers'
    BY <2>1, <2>3, <2>4, <2>5, <2>7 DEF Pointers
  <2>9. Table' /\ References' /\ Owners'
    BY <2>1, <2>2 DEF Table, References, LiveIsReferenced, Owners, Ranked
  <2>. QED BY <2>8, <2>9
<1>4. ASSUME NEW o \in Object, inc_ref(o)
      PROVE  ObjectsInv'
  <2>1. o \in live
    BY <1>4, TableObjects, Exists DEF inc_ref, References
  <2>. QED BY <1>1, <1>4, <2>1 DEF inc_ref
<1>5. CASE UNCHANGED vars
  BY <1>1, <1>5 DEF vars
<1>. HIDE DEF ObjectsInv
<1>. QED
  BY <1>2, <1>3, <1>4, <1>5, CreateStep, DecRefStep, DeleteObjectStep, DeleteTreeStep, UnloadStep,
     CollectStep DEF Next

THEOREM ObjectsInvariant == Spec => []ObjectsInv
<1>1. Init => ObjectsInv
  BY ObjectsInvInit
<1>2. ObjectsInv /\ [Next]_vars => ObjectsInv'
  BY ObjectsInvNext
<1>. QED BY <1>1, <1>2, PTL DEF Spec

\* Whatever is created, named, released, deleted and unloaded, in whatever order, an
\* object is in the slot it thinks and a slot without one is free exactly once.
THEOREM TableIsExact == Spec => []TableExact
<1>1. ObjectsInv => TableExact
  <2>. SUFFICES ASSUME ObjectsInv PROVE TableExact
    OBVIOUS
  <2>1. TableOK(m_obj_table, free_index_array, m_runtime_index) /\ InTable = In(m_obj_table)
    BY TableObjects DEF ObjectsInv, Table
  <2>2. \A o \in InTable : m_obj_table[m_runtime_index[o]] = o
    BY <2>1, SlotOfObject
  <2>3. \A i, j \in 1..Len(m_obj_table) : m_obj_table[i] = m_obj_table[j] =>
          i = j \/ m_obj_table[i] = Null
    BY <2>1 DEF TableOK
  <2>4. free_index_array \in Seq(Nat)
    BY <2>1 DEF TableOK
  <2>5. Range(free_index_array) = {i \in 1..Len(m_obj_table) : m_obj_table[i] = Null}
    <3>1. \A e : e \in Range(free_index_array)
                   <=> \E i \in 1..Len(free_index_array) : free_index_array[i] = e
      BY <2>4, RangeFacts
    <3>2. ASSUME NEW e \in Range(free_index_array)
          PROVE  e \in 1..Len(m_obj_table) /\ m_obj_table[e] = Null
      <4>1. PICK i \in 1..Len(free_index_array) : free_index_array[i] = e
        BY <3>1, <3>2
      <4>. QED BY <2>1, <4>1 DEF TableOK
    <3>3. ASSUME NEW e \in 1..Len(m_obj_table), m_obj_table[e] = Null
          PROVE  e \in Range(free_index_array)
      <4>1. \E i \in 1..Len(free_index_array) : free_index_array[i] = e
        BY <2>1, <3>3 DEF TableOK
      <4>. QED BY <3>1, <4>1
    <3>. QED BY <3>2, <3>3
  <2>6. IsInjective(free_index_array)
    BY <2>1, <2>4, RangeFacts DEF TableOK
  <2>. QED BY <2>2, <2>3, <2>5, <2>6 DEF TableExact
<1>. QED BY <1>1, ObjectsInvariant, PTL

\* An object exists exactly as long as the table, the garbage collection or a user
\* refers to it: dec_ref, forced deletion and collect_garbage destroy none too early
\* and leave none behind.
THEOREM ReferencedObjectsLive == Spec => []LiveIsReferenced
<1>1. ObjectsInv => LiveIsReferenced
  BY DEF ObjectsInv, References
<1>. QED BY <1>1, ObjectsInvariant, PTL

\* No object that is not marked deleted points to a deleted one, but for an unloaded
\* module and its first object.
THEOREM NoDanglingPointer == Spec => []PointersLive
<1>1. ObjectsInv => PointersLive
  BY DEF ObjectsInv, Pointers
<1>. QED BY <1>1, ObjectsInvariant, PTL

-------------------------------------------------------------------------------
(* The chains of the hash table. *)

\* A set of numbers with 0 that has, of each number, the next one: all of them.
LEMMA NaturalInduction ==
  ASSUME NEW T \in SUBSET Nat, 0 \in T, \A n \in T : n + 1 \in T
  PROVE  T = Nat
<1>. DEFINE R == OpToRel(<, Nat)
            bad == Nat \ T
<1>1. IsWellFoundedOn(R, Nat)
  BY NatLessThanWellFounded
<1>2. \A x, y \in Nat : y < x => <<y, x>> \in R
  BY DEF OpToRel
<1>. HIDE DEF R
<1>3. SUFFICES ASSUME bad # {} PROVE FALSE
  OBVIOUS
<1>4. PICK x \in bad : \A y \in bad : ~(<<y, x>> \in R)
  BY <1>1, <1>3, WFMin
<1>5. x \in Nat /\ x # 0 /\ x - 1 \in Nat /\ x - 1 < x /\ (x - 1) + 1 = x
  OBVIOUS
<1>6. x - 1 \notin bad
  BY <1>2, <1>4, <1>5, Zenon
<1>. QED BY <1>5, <1>6

\* One object more of a chain: kept or left out.
Kept(f, chain, s, i) ==
  IF i = 0 THEN <<>>
  ELSE IF chain[i] \in s THEN f[i - 1] ELSE Append(f[i - 1], chain[i])

KeptFrom(f, chain, s, n) == f = [i \in 0..n |-> Kept(f, chain, s, i)]

LEMMA KeptExists ==
  ASSUME NEW chain, NEW s, NEW n \in Nat
  PROVE  \E f : KeptFrom(f, chain, s, n)
<1>. DEFINE Good == {k \in Nat : \E f : KeptFrom(f, chain, s, k)}
<1>1. 0 \in Good
  <2>. DEFINE f == [i \in 0..0 |-> <<>>]
  <2>1. f = [i \in 0..0 |-> Kept(f, chain, s, i)]
    BY DEF Kept
  <2>. QED BY <2>1 DEF KeptFrom
<1>2. ASSUME NEW k \in Good PROVE k + 1 \in Good
  <2>1. PICK f : f = [i \in 0..k |-> Kept(f, chain, s, i)]
    BY DEF KeptFrom
  <2>. DEFINE g == [i \in 0..(k + 1) |-> Kept(f, chain, s, i)]
  <2>2. \A i \in 0..k : g[i] = f[i]
    <3>1. \A i \in 0..k : f[i] = Kept(f, chain, s, i)
      BY <2>1
    <3>. QED BY <3>1
  <2>3. ASSUME NEW i \in 0..(k + 1) PROVE g[i] = Kept(g, chain, s, i)
    <3>1. i = 0 \/ i - 1 \in 0..k
      OBVIOUS
    <3>2. g[i] = Kept(f, chain, s, i)
      OBVIOUS
    <3>. HIDE DEF g
    <3>. QED BY <2>2, <3>1, <3>2 DEF Kept
  <2>4. g = [i \in 0..(k + 1) |-> Kept(g, chain, s, i)]
    BY <2>3
  <2>5. KeptFrom(g, chain, s, k + 1)
    BY <2>4 DEF KeptFrom
  <2>. QED BY <2>5
<1>3. Good = Nat
  <2>. HIDE DEF Good
  <2>1. Good \in SUBSET Nat
    BY DEF Good
  <2>. QED BY <1>1, <1>2, <2>1, NaturalInduction
<1>. QED BY <1>3

\* What is left of a chain: the others, each once.
LEMMA LeftOfChain ==
  ASSUME NEW chain \in Seq(Object), IsInjective(chain), NEW s
  PROVE  /\ ChainWithout(chain, s) \in Seq(Object) /\ IsInjective(ChainWithout(chain, s))
         /\ Range(ChainWithout(chain, s)) = Range(chain) \ s
<1>. DEFINE n == Len(chain)
            before(i) == {chain[j] : j \in 1..i}
            Left(q, i) == /\ q \in Seq(Object) /\ IsInjective(q)
                          /\ Range(q) = before(i) \ s
<1>1. n \in Nat /\ \A j \in 1..n : chain[j] \in Object
  OBVIOUS
<1>2. PICK f : f = [i \in 0..n |-> Kept(f, chain, s, i)]
  <2>1. n \in Nat
    BY <1>1
  <2>. HIDE DEF n
  <2>2. \E f : KeptFrom(f, chain, s, n)
    BY <2>1, KeptExists
  <2>. QED BY <2>2 DEF KeptFrom
<1>. DEFINE k == CHOOSE g : g = [i \in 0..n |-> Kept(g, chain, s, i)]
<1>3. k = [i \in 0..n |-> Kept(k, chain, s, i)]
  BY <1>2
<1>4. ChainWithout(chain, s) = k[n]
  BY DEF ChainWithout, Kept
<1>. HIDE DEF k
<1>5. k[0] = <<>> /\ \A i \in 0..n : i # 0 =>
        k[i] = IF chain[i] \in s THEN k[i - 1] ELSE Append(k[i - 1], chain[i])
  <2>1. \A i \in 0..n : k[i] = Kept(k, chain, s, i)
    <3>. DEFINE e(i) == Kept(k, chain, s, i)
    <3>1. k = [i \in 0..n |-> e(i)]
      BY <1>3
    <3>. HIDE DEF e
    <3>2. \A i \in 0..n : k[i] = e(i)
      BY <3>1
    <3>. QED BY <3>2 DEF e
  <2>2. 0 \in 0..n
    BY <1>1
  <2>. QED BY <2>1, <2>2 DEF Kept
<1>. DEFINE Good == {i \in Nat : i <= n => Left(k[i], i)}
<1>6. 0 \in Good
  <2>1. <<>> \in Seq(Object) /\ IsInjective(<<>>) /\ Range(<<>>) = {}
    BY DEF IsInjective, Range
  <2>2. before(0) = {}
    OBVIOUS
  <2>3. Left(k[0], 0)
    <3>. HIDE DEF before
    <3>. QED BY <1>5, <2>1, <2>2
  <2>. QED BY <2>3
<1>7. ASSUME NEW i \in Good PROVE i + 1 \in Good
  <2>. SUFFICES ASSUME i + 1 <= n PROVE Left(k[i + 1], i + 1)
    OBVIOUS
  <2>1. i \in Nat /\ i + 1 \in 0..n /\ i + 1 \in 1..n /\ (i + 1) - 1 = i /\ i + 1 # 0
    BY <1>1
  <2>. DEFINE q == k[i]
              o == chain[i + 1]
  <2>2. k[i + 1] = IF o \in s THEN q ELSE Append(q, o)
    BY <1>5, <2>1
  <2>3. Left(q, i)
    BY <1>1, <2>1
  <2>4. before(i + 1) = before(i) \cup {o}
    BY <2>1
  <2>5. o \in Object /\ o \notin before(i)
    <3>1. \A j \in 1..n : chain[j] = chain[i + 1] => j = i + 1
      BY <2>1, RangeFacts
    <3>2. \A j \in 1..i : j \in 1..n /\ j # i + 1
      BY <1>1, <2>1
    <3>. QED BY <1>1, <2>1, <3>1, <3>2
  <2>. HIDE DEF before, q, o
  <2>6. CASE o \in s
    BY <2>2, <2>3, <2>4, <2>6
  <2>7. CASE o \notin s
    <3>1. o \notin Range(q)
      BY <2>3, <2>5
    <3>2. /\ Append(q, o) \in Seq(Object) /\ IsInjective(Append(q, o))
          /\ Range(Append(q, o)) = Range(q) \cup {o}
      BY <2>3, <2>5, <3>1, ListedLast
    <3>. QED BY <2>2, <2>3, <2>4, <2>7, <3>2
  <2>. QED BY <2>6, <2>7
<1>8. Left(k[n], n)
  <2>1. Good \in SUBSET Nat
    OBVIOUS
  <2>. HIDE DEF Good
  <2>2. n \in Good
    BY <1>1, <1>6, <1>7, <2>1, NaturalInduction
  <2>. QED BY <1>1, <2>2 DEF Good
<1>9. before(n) = Range(chain)
  BY RangeFacts
<1>. QED BY <1>4, <1>8, <1>9

Bucket == 0..(NumBucket - 1)

\* The chains hold the named ones of the objects, each once, in the bucket of its name.
ChainsOf(chains, names, objects) ==
  /\ names \in [Object -> 0..MaxName] /\ chains \in [Bucket -> Seq(Object)]
  /\ \A b \in Bucket :
       /\ Range(chains[b]) = {o \in objects : names[o] # 0 /\ hash(names[o]) = b}
       /\ IsInjective(chains[b])

Chains == ChainsOf(m_object_hash_table, m_name, InTable)

LEMMA HashInBucket == \A n \in 0..MaxName : hash(n) \in Bucket
<1>1. NumBucket \in Nat \ {0} /\ MaxName \in Nat
  BY ObjectsAssumption DEF ObjectsAssumption
<1>. QED BY <1>1 DEF hash, Bucket

\* remove_object_from_hash, of each object of s.
LEMMA ChainsUnlinked ==
  ASSUME Chains, NEW s
  PROVE  ChainsOf(Unlinked(s), m_name, InTable \ s)
<1>1. /\ m_name \in [Object -> 0..MaxName]
      /\ \A b \in Bucket :
           /\ m_object_hash_table[b] \in Seq(Object)
           /\ IsInjective(m_object_hash_table[b])
           /\ Range(m_object_hash_table[b]) =
                {o \in InTable : m_name[o] # 0 /\ hash(m_name[o]) = b}
  BY DEF Chains, ChainsOf
<1>2. Unlinked(s) = [b \in Bucket |-> ChainWithout(m_object_hash_table[b], s)]
  BY DEF Unlinked, Bucket
<1>3. ASSUME NEW b \in Bucket
      PROVE  /\ Unlinked(s)[b] \in Seq(Object) /\ IsInjective(Unlinked(s)[b])
             /\ Range(Unlinked(s)[b]) = {o \in InTable \ s : m_name[o] # 0 /\ hash(m_name[o]) = b}
  <2>. DEFINE chain == m_object_hash_table[b]
  <2>1. /\ chain \in Seq(Object) /\ IsInjective(chain)
        /\ Range(chain) = {o \in InTable : m_name[o] # 0 /\ hash(m_name[o]) = b}
    BY <1>1
  <2>2. Unlinked(s)[b] = ChainWithout(chain, s)
    BY <1>2
  <2>. HIDE DEF chain
  <2>3. /\ ChainWithout(chain, s) \in Seq(Object) /\ IsInjective(ChainWithout(chain, s))
        /\ Range(ChainWithout(chain, s)) = Range(chain) \ s
    BY <2>1, LeftOfChain
  <2>. QED BY <2>1, <2>2, <2>3
<1>4. Unlinked(s) \in [Bucket -> Seq(Object)]
  BY <1>2, <1>3
<1>. QED BY <1>1, <1>3, <1>4 DEF ChainsOf

\* add_object_to_hash, of an object that is in no chain.
LEMMA ChainsLinked ==
  ASSUME NEW chains, NEW objects, objects \subseteq Object,
         ChainsOf(chains, m_name, objects),
         NEW o \in Object, o \notin objects, NEW n \in 0..MaxName,
         add_object_to_hash(o, n, chains)
  PROVE  ChainsOf(m_object_hash_table', m_name', objects \cup {o})
<1>1. /\ m_name \in [Object -> 0..MaxName] /\ chains \in [Bucket -> Seq(Object)]
      /\ \A b \in Bucket :
           /\ Range(chains[b]) = {p \in objects : m_name[p] # 0 /\ hash(m_name[p]) = b}
           /\ IsInjective(chains[b])
  BY DEF ChainsOf
<1>2. /\ m_name' \in [Object -> 0..MaxName] /\ m_name'[o] = n
      /\ \A p \in Object : p # o => m_name'[p] = m_name[p]
  BY <1>1 DEF add_object_to_hash
<1>3. ASSUME NEW b \in Bucket, ~(n # 0 /\ hash(n) = b)
      PROVE  {p \in objects \cup {o} : m_name'[p] # 0 /\ hash(m_name'[p]) = b}
               = {p \in objects : m_name[p] # 0 /\ hash(m_name[p]) = b}
  BY <1>2, <1>3
<1>4. CASE n = 0
  BY <1>1, <1>2, <1>3, <1>4 DEF ChainsOf, add_object_to_hash
<1>5. CASE n # 0
  <2>. DEFINE h == hash(n)
  <2>1. h \in Bucket
    BY HashInBucket
  <2>2. \A b \in Bucket :
          m_object_hash_table'[b] = IF b = h THEN <<o>> \o chains[b] ELSE chains[b]
    BY <1>1, <1>5 DEF add_object_to_hash
  <2>3. ASSUME NEW b \in Bucket
        PROVE  /\ m_object_hash_table'[b] \in Seq(Object)
               /\ IsInjective(m_object_hash_table'[b])
               /\ Range(m_object_hash_table'[b]) =
                    {p \in objects \cup {o} : m_name'[p] # 0 /\ hash(m_name'[p]) = b}
    <3>1. CASE b # h
      BY <1>1, <1>3, <2>2, <3>1
    <3>2. CASE b = h
      <4>. DEFINE chain == chains[b]
                  others == {p \in objects : m_name[p] # 0 /\ hash(m_name[p]) = b}
      <4>1. chain \in Seq(Object) /\ IsInjective(chain) /\ Range(chain) = others
        BY <1>1
      <4>2. o \notin others
        OBVIOUS
      <4>3. {p \in objects \cup {o} : m_name'[p] # 0 /\ hash(m_name'[p]) = b} = {o} \cup others
        BY <1>2, <1>5, <3>2
      <4>4. m_object_hash_table'[b] = <<o>> \o chain
        BY <2>2, <3>2
      <4>. HIDE DEF chain, others
      <4>5. /\ <<o>> \o chain \in Seq(Object) /\ IsInjective(<<o>> \o chain)
            /\ Range(<<o>> \o chain) = {o} \cup Range(chain)
        BY <4>1, <4>2, ListedFirst
      <4>. QED BY <4>1, <4>3, <4>4, <4>5
    <3>. QED BY <3>1, <3>2
  <2>4. m_object_hash_table' \in [Bucket -> Seq(Object)]
    <3>1. m_object_hash_table' = [chains EXCEPT ![h] = <<o>> \o @]
      BY <1>5 DEF add_object_to_hash
    <3>2. m_object_hash_table' = [b \in Bucket |-> m_object_hash_table'[b]]
      BY <1>1, <3>1
    <3>. QED BY <2>3, <3>2
  <2>. QED BY <1>2, <2>3, <2>4 DEF ChainsOf
<1>. QED BY <1>4, <1>5

\* An object that is in no chain may lose its name.
LEMMA NameForgotten ==
  ASSUME NEW chains, NEW objects, NEW gone, objects \cap gone = {}, objects \subseteq Object,
         ChainsOf(chains, m_name, objects),
         m_name' = [o \in Object |-> IF o \in gone THEN 0 ELSE m_name[o]]
  PROVE  ChainsOf(chains, m_name', objects)
<1>1. 0 \in 0..MaxName
  BY ObjectsAssumption DEF ObjectsAssumption
<1>2. m_name' \in [Object -> 0..MaxName] /\ \A o \in objects : m_name'[o] = m_name[o]
  BY <1>1 DEF ChainsOf
<1>3. \A b \in Bucket : {o \in objects : m_name'[o] # 0 /\ hash(m_name'[o]) = b}
                          = {o \in objects : m_name[o] # 0 /\ hash(m_name[o]) = b}
  BY <1>2
<1>. QED BY <1>2, <1>3 DEF ChainsOf

LEMMA ChainsInit ==
  ASSUME Init
  PROVE  Chains
<1>1. InTable = {}
  <2>1. ObjectsInv /\ \A i \in 1..InitialSize : m_obj_table[i] = Null
    BY ObjectsInvInit DEF Init
  <2>2. m_obj_table \in Seq(Pointer) /\ Len(m_obj_table) = InitialSize
    BY <2>1, ObjectsAssumption DEF Init, ObjectsAssumption, ObjectsInv, Table, TableOK
  <2>3. \A e \in In(m_obj_table) : FALSE
    BY <2>1, <2>2, InOf
  <2>. QED BY <2>3 DEF InTable, In
<1>2. <<>> \in Seq(Object) /\ IsInjective(<<>>) /\ Range(<<>>) = {}
  BY DEF IsInjective, Range
<1>3. m_object_hash_table = [b \in Bucket |-> <<>>] /\ m_name = [o \in Object |-> 0]
  BY DEF Init, Bucket
<1>4. 0 \in 0..MaxName
  BY ObjectsAssumption DEF ObjectsAssumption
<1>. QED BY <1>1, <1>2, <1>3, <1>4 DEF Chains, ChainsOf

LEMMA ChainsNext ==
  ASSUME ObjectsInv, Chains, [Next]_vars
  PROVE  Chains'
<1>1. InTable \subseteq Object /\ InTable \subseteq live /\ Alive \subseteq InTable
  BY TableObjects, Exists DEF ObjectsInv
<1>2. ASSUME NEW o \in Object, NEW n \in 0..MaxName, NEW owner, create_object(o, n, owner)
      PROVE  Chains'
  <2>1. o \notin InTable /\ add_object_to_hash(o, n, m_object_hash_table)
    BY <1>1, <1>2 DEF create_object
  <2>2. InTable' = InTable \cup {o}
    BY <1>2, CreateGrows
  <2>3. ChainsOf(m_object_hash_table, m_name, InTable)
    BY DEF Chains
  <2>4. ChainsOf(m_object_hash_table', m_name', InTable \cup {o})
    BY <1>1, <2>1, <2>3, ChainsLinked
  <2>. QED BY <2>2, <2>4 DEF Chains
<1>3. ASSUME NEW o \in Object, NEW n \in 0..MaxName, rename_object(o, n)
      PROVE  Chains'
  <2>1. /\ o \in InTable /\ add_object_to_hash(o, n, Unlinked({o}))
        /\ InTable' = InTable
    BY <1>1, <1>3 DEF rename_object, tableVars, InTable
  <2>2. ChainsOf(Unlinked({o}), m_name, InTable \ {o})
    BY ChainsUnlinked
  <2>3. InTable \ {o} \subseteq Object /\ o \notin InTable \ {o}
    BY <1>1
  <2>. DEFINE others == InTable \ {o}
  <2>4. others \cup {o} = InTable
    BY <2>1
  <2>. HIDE DEF others
  <2>5. ChainsOf(m_object_hash_table', m_name', others \cup {o})
    BY <2>1, <2>2, <2>3, ChainsLinked DEF others
  <2>. QED BY <2>1, <2>4, <2>5 DEF Chains
<1>4. ASSUME NEW d \in Seq(Object), Range(d) \subseteq InTable, NEW force \in BOOLEAN,
             NEW owners, NEW pointers, Delete(d, force, owners, pointers)
      PROVE  Chains'
  <2>. DEFINE s == Range(d)
              gone == IF force THEN {o \in s : held[o] = 0} ELSE {}
  <2>1. m_object_hash_table' = Unlinked(s)
    BY <1>4 DEF Delete
  <2>2. m_name' = [o \in Object |-> IF o \in gone THEN 0 ELSE m_name[o]]
    BY <1>4 DEF Delete, Destroyed
  <2>3. InTable' = InTable \ s
    <3>1. m_obj_table' = Without(m_obj_table, s)
      BY <1>4 DEF Delete, Without
    <3>2. In(Without(m_obj_table, s)) = In(m_obj_table) \ s
      BY TableWithout DEF ObjectsInv, Table, TableOK
    <3>. QED BY <3>1, <3>2 DEF InTable, In
  <2>4. (InTable \ s) \cap gone = {} /\ InTable \ s \subseteq Object
    BY <1>1
  <2>. HIDE DEF s, gone
  <2>5. ChainsOf(Unlinked(s), m_name, InTable \ s)
    BY ChainsUnlinked
  <2>. DEFINE others == InTable \ s
              chains == Unlinked(s)
  <2>. HIDE DEF others, chains
  <2>6. ChainsOf(chains, m_name', others)
    BY <2>2, <2>4, <2>5, NameForgotten DEF others, chains
  <2>. QED BY <2>1, <2>3, <2>6 DEF Chains, others, chains
<1>5. ASSUME NEW gone, gone \cap InTable = {}, NEW deleted,
             Destroyed(gone, m_owner, m_pointer, deleted),
             UNCHANGED <<m_obj_table, m_object_hash_table>>
      PROVE  Chains'
  <2>1. m_name' = [o \in Object |-> IF o \in gone THEN 0 ELSE m_name[o]] /\ InTable' = InTable
    BY <1>5 DEF Destroyed, InTable
  <2>2. ChainsOf(m_object_hash_table, m_name, InTable) /\ InTable \cap gone = {}
    BY <1>5 DEF Chains
  <2>3. ChainsOf(m_object_hash_table, m_name', InTable)
    BY <1>1, <2>1, <2>2, NameForgotten
  <2>. QED BY <1>5, <2>1, <2>3 DEF Chains
<1>6. ASSUME NEW o \in Object, dec_ref(o)
      PROVE  Chains'
  <2>1. /\ held[o] \in Nat /\ held[o] > 0
    BY <1>6 DEF dec_ref, ObjectsInv, References
  <2>2. {p \in {o} : get_ref(p) = 1} \cap InTable = {}
    BY <2>1 DEF get_ref
  <2>. QED BY <1>5, <1>6, <2>2 DEF dec_ref
<1>7. CASE collect_garbage
  <2>1. m_objects_wait_for_delete \cap InTable = {}
    BY DEF ObjectsInv, References
  <2>. QED BY <1>5, <1>7, <2>1 DEF collect_garbage
<1>8. ASSUME UNCHANGED <<m_obj_table, m_object_hash_table, m_name>>
      PROVE  Chains'
  BY <1>8 DEF Chains, InTable
<1>9. ASSUME NEW o \in Object, NEW force \in BOOLEAN, delete_object(o, force)
      PROVE  Chains'
  <2>1. o \in InTable /\ Delete(<<o>>, force, m_owner, m_pointer)
    BY <1>9 DEF delete_object
  <2>2. <<o>> \in Seq(Object) /\ Range(<<o>>) \subseteq InTable
    BY <2>1, AloneInOrder
  <2>. QED BY <1>4, <2>1, <2>2
<1>10. ASSUME NEW top \in Object, delete_object_tree(top)
       PROVE  Chains'
  <2>. DEFINE d == Append(SlotOrder(query_objects_owned_by(top)), top)
  <2>1. top \in Alive /\ Delete(d, FALSE, Cleared(m_owner, Range(d)), Cleared(m_pointer, Range(d)))
    BY <1>10 DEF delete_object_tree
  <2>2. d \in Seq(Object) /\ Range(d) \subseteq InTable
    BY <2>1, TreeInOrder
  <2>. HIDE DEF d
  <2>. QED BY <1>4, <2>1, <2>2
<1>11. ASSUME NEW m \in Object, unload_module(m)
       PROVE  Chains'
  <2>1. m \in Alive /\ m \in InTable
    BY <1>1, <1>11 DEF unload_module
  <2>2. CASE Delete(<<m>>, TRUE, m_owner, m_pointer)
    <3>1. <<m>> \in Seq(Object) /\ Range(<<m>>) \subseteq InTable
      BY <2>1, AloneInOrder
    <3>. QED BY <1>4, <2>2, <3>1
  <2>3. ASSUME NEW first \in query_module_object(m), NEW rest,
               rest = query_module_object(m) \ {first},
               Delete(<<first>> \o SlotOrder(rest) \o <<m>>, TRUE,
                      Cleared(m_owner, rest), Cleared(m_pointer, rest))
        PROVE  Chains'
    <3>. DEFINE d == <<first>> \o SlotOrder(rest) \o <<m>>
    <3>1. d \in Seq(Object) /\ Range(d) \subseteq InTable
      BY <2>1, <2>3, ModuleInOrder
    <3>2. Delete(d, TRUE, Cleared(m_owner, rest), Cleared(m_pointer, rest))
      BY <2>3
    <3>. HIDE DEF d
    <3>. QED BY <1>4, <3>1, <3>2
  <2>. QED BY <1>11, <2>2, <2>3 DEF unload_module
<1>. QED
  BY <1>2, <1>3, <1>6, <1>7, <1>8, <1>9, <1>10, <1>11
  DEF Next, vars, set_pointer, inc_ref, tableVars, hashVars

\* Whatever is created, renamed, deleted one by one, in a tree or with its module, the
\* chains of the hash table hold the named objects of the table, each once.
THEOREM HashIsExact == Spec => []HashExact
<1>1. Init => Chains
  BY ChainsInit
<1>2. ObjectsInv /\ Chains /\ [Next]_vars => Chains'
  BY ChainsNext
<1>3. Chains => HashExact
  <2>1. Chains => DOMAIN m_object_hash_table = Bucket
    BY DEF Chains, ChainsOf
  <2>. QED BY <2>1 DEF Chains, ChainsOf, HashExact
<1>. QED BY <1>1, <1>2, <1>3, ObjectsInvariant, PTL DEF Spec
===============================================================================
