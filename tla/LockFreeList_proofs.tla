--------------------------- MODULE LockFreeList_proofs ---------------------------
(***************************************************************************)
(* Proofs about LockFreeList, for every number of nodes and threads, as    *)
(* long as the counter of the header does not wrap: the pointers stand for *)
(* what the list is meant to hold, and no node has two owners.             *)
(***************************************************************************)
EXTENDS LockFreeList, TLAPS, SequenceTheorems

-------------------------------------------------------------------------------
(* Sequences of nodes. *)

LEMMA TailFacts ==
  ASSUME NEW s \in Seq(Node), s # <<>>
  PROVE  /\ SubSeq(s, 2, Len(s)) \in Seq(Node)
         /\ Len(SubSeq(s, 2, Len(s))) = Len(s) - 1
         /\ \A i \in 1..(Len(s) - 1) : SubSeq(s, 2, Len(s))[i] = s[i + 1]
         /\ Len(s) \in Nat \ {0}
         /\ s[1] \in Node
<1>. DEFINE t == SubSeq(s, 2, Len(s))
<1>1. Len(s) \in Nat \ {0}
  BY EmptySeq
<1>2. \A i \in 1..Len(s) : s[i] \in Node
  BY ElementOfSeq
<1>3. /\ t \in Seq(Node)
      /\ Len(t) = IF 2 <= Len(s) THEN Len(s) - 2 + 1 ELSE 0
      /\ \A i \in 1..(Len(s) - 2 + 1) : t[i] = s[2 + i - 1]
  <2>1. \A i \in 2..Len(s) : s[i] \in Node
    BY <1>1, <1>2
  <2>2. 2 \in Int /\ Len(s) \in Int
    BY <1>1
  <2>. QED
    BY <2>1, <2>2, SubSeqProperties
<1>. HIDE DEF t
<1>4. Len(t) = Len(s) - 1
  <2>1. Len(s) = 1 \/ 2 <= Len(s)
    BY <1>1
  <2>2. CASE Len(s) = 1
    BY <1>3, <2>2
  <2>3. CASE 2 <= Len(s)
    BY <1>1, <1>3, <2>3
  <2>. QED
    BY <2>1, <2>2, <2>3
<1>5. \A i \in 1..(Len(s) - 1) : t[i] = s[i + 1]
  BY <1>1, <1>3
<1>6. s[1] \in Node
  BY <1>1, <1>2
<1>. QED
  BY <1>1, <1>3, <1>4, <1>5, <1>6 DEF t

LEMMA OneFacts ==
  ASSUME NEW s \in Seq(Node), s # <<>>
  PROVE  SubSeq(s, 1, 1) = <<s[1]>>
<1>. DEFINE t == SubSeq(s, 1, 1)
            u == <<s[1]>>
<1>1. 1 \in 1..Len(s) /\ s[1] \in Node
  BY TailFacts
<1>2. t \in Seq(Node) /\ Len(t) = 1 /\ t[1] = s[1]
  BY <1>1, SubSeqProperties
<1>3. u \in Seq(Node) /\ Len(u) = 1 /\ u[1] = s[1]
  BY <1>1
<1>. HIDE DEF t, u
<1>4. \A i \in 1..Len(t) : t[i] = u[i]
  BY <1>2, <1>3
<1>5. t = u
  BY <1>2, <1>3, <1>4, SeqEqual
<1>. QED
  BY <1>5 DEF t, u

LEMMA EmptyFacts ==
  /\ <<>> \in Seq(Node) /\ Len(<<>>) = 0 /\ Elements(<<>>) = {} /\ Distinct(<<>>)
  /\ \A s \in Seq(Node) : s = <<>> <=> Len(s) = 0
<1>1. <<>> \in Seq(Node) /\ Len(<<>>) = 0
  BY EmptySeq
<1>2. Elements(<<>>) = {} /\ Distinct(<<>>)
  BY <1>1 DEF Elements, Distinct
<1>3. \A s \in Seq(Node) : s = <<>> <=> Len(s) = 0
  BY EmptySeq
<1>. QED
  BY <1>1, <1>2, <1>3

LEMMA ElementFacts ==
  ASSUME NEW s \in Seq(Node)
  PROVE  /\ Len(s) \in Nat
         /\ \A i \in 1..Len(s) : s[i] \in Node /\ s[i] \in Elements(s)
         /\ Elements(s) \subseteq Node
BY LenProperties, ElementOfSeq DEF Elements

LEMMA TailElements ==
  ASSUME NEW s \in Seq(Node), s # <<>>, Distinct(s)
  PROVE  LET t == SubSeq(s, 2, Len(s))
         IN  /\ Distinct(t)
             /\ Elements(s) = Elements(t) \cup {s[1]}
             /\ s[1] \notin Elements(t)
<1>. DEFINE t == SubSeq(s, 2, Len(s))
<1>1. /\ t \in Seq(Node) /\ Len(t) = Len(s) - 1 /\ Len(s) \in Nat \ {0}
      /\ \A i \in 1..Len(t) : t[i] = s[i + 1]
  BY TailFacts
<1>. HIDE DEF t
<1>2. Distinct(t)
  BY <1>1 DEF Distinct
<1>3. \A i \in 1..Len(s) : i = 1 \/ (i - 1 \in 1..Len(t) /\ t[i - 1] = s[i])
  BY <1>1
<1>4. Elements(s) = Elements(t) \cup {s[1]}
  BY <1>1, <1>3 DEF Elements
<1>5. s[1] \notin Elements(t)
  BY <1>1 DEF Elements, Distinct
<1>. QED
  BY <1>2, <1>4, <1>5 DEF t

LEMMA ConcatElements ==
  ASSUME NEW r \in Seq(Node), NEW s \in Seq(Node), Distinct(r), Distinct(s),
         Elements(r) \cap Elements(s) = {}
  PROVE  /\ r \o s \in Seq(Node)
         /\ Distinct(r \o s)
         /\ Elements(r \o s) = Elements(r) \cup Elements(s)
<1>. DEFINE t == r \o s
<1>1. /\ t \in Seq(Node) /\ Len(t) = Len(r) + Len(s) /\ Len(r) \in Nat /\ Len(s) \in Nat
      /\ \A i \in 1..Len(t) : t[i] = IF i <= Len(r) THEN r[i] ELSE s[i - Len(r)]
  BY ConcatProperties, LenProperties
<1>. HIDE DEF t
<1>2. ASSUME NEW i \in 1..Len(t)
      PROVE  \/ i \in 1..Len(r) /\ t[i] = r[i] /\ r[i] \in Elements(r)
             \/ i - Len(r) \in 1..Len(s) /\ t[i] = s[i - Len(r)] /\ t[i] \in Elements(s)
  BY <1>1 DEF Elements
<1>3. Distinct(t)
  <2>. SUFFICES ASSUME NEW i \in 1..Len(t), NEW j \in 1..Len(t), t[i] = t[j]
                PROVE  i = j
    BY DEF Distinct
  <2>1. CASE i \in 1..Len(r) /\ j \in 1..Len(r)
    BY <1>1, <2>1 DEF Distinct
  <2>2. CASE i - Len(r) \in 1..Len(s) /\ j - Len(r) \in 1..Len(s)
    BY <1>1, <2>2 DEF Distinct
  <2>. QED
    BY <1>1, <1>2, <2>1, <2>2
<1>4. Elements(t) \subseteq Elements(r) \cup Elements(s)
  BY <1>2 DEF Elements
<1>5. \A i \in 1..Len(r) : i \in 1..Len(t) /\ t[i] = r[i]
  BY <1>1
<1>6. \A i \in 1..Len(s) : i + Len(r) \in 1..Len(t) /\ t[i + Len(r)] = s[i]
  BY <1>1
<1>7. Elements(r) \cup Elements(s) \subseteq Elements(t)
  BY <1>5, <1>6 DEF Elements
<1>. QED
  BY <1>1, <1>3, <1>4, <1>7 DEF t

LEMMA Single ==
  ASSUME NEW n \in Node
  PROVE  /\ <<n>> \in Seq(Node) /\ Len(<<n>>) = 1 /\ <<n>>[1] = n /\ <<n>> # <<>>
         /\ Elements(<<n>>) = {n} /\ Distinct(<<n>>)
<1>1. <<n>> \in Seq(Node) /\ Len(<<n>>) = 1 /\ <<n>>[1] = n /\ <<n>> # <<>>
  OBVIOUS
<1>. QED
  BY <1>1 DEF Elements, Distinct

-------------------------------------------------------------------------------
(* Chains of next pointers. *)

\* Linked, for given next pointers.
LinkedBy(nx, p, s, end) ==
  /\ p = IF s = <<>> THEN end ELSE s[1]
  /\ \A i \in 1..Len(s) : nx[s[i]] = IF i = Len(s) THEN end ELSE s[i + 1]

\* Changing the pointers of other nodes leaves a chain as it is.
LEMMA LinkedFrame ==
  ASSUME NEW nx, NEW ny, NEW p, NEW s \in Seq(Node), NEW end,
         LinkedBy(nx, p, s, end), \A n \in Elements(s) : ny[n] = nx[n]
  PROVE  LinkedBy(ny, p, s, end)
BY ElementFacts DEF LinkedBy

LEMMA LinkedTail ==
  ASSUME NEW nx, NEW p, NEW s \in Seq(Node), NEW end, s # <<>>, LinkedBy(nx, p, s, end)
  PROVE  /\ p = s[1]
         /\ LinkedBy(nx, nx[p], SubSeq(s, 2, Len(s)), end)
<1>. DEFINE t == SubSeq(s, 2, Len(s))
<1>1. /\ t \in Seq(Node) /\ Len(t) = Len(s) - 1 /\ Len(s) \in Nat \ {0}
      /\ \A i \in 1..Len(t) : t[i] = s[i + 1]
  BY TailFacts
<1>. HIDE DEF t
<1>2. p = s[1]
  BY DEF LinkedBy
<1>3. nx[p] = IF t = <<>> THEN end ELSE t[1]
  <2>1. t = <<>> <=> Len(s) = 1
    BY <1>1, EmptyFacts
  <2>2. nx[s[1]] = IF 1 = Len(s) THEN end ELSE s[2]
    BY <1>1 DEF LinkedBy
  <2>. QED
    BY <1>1, <1>2, <2>1, <2>2
<1>4. ASSUME NEW i \in 1..Len(t)
      PROVE  nx[t[i]] = IF i = Len(t) THEN end ELSE t[i + 1]
  <2>1. i + 1 \in 1..Len(s) /\ t[i] = s[i + 1]
    BY <1>1
  <2>2. nx[s[i + 1]] = IF i + 1 = Len(s) THEN end ELSE s[i + 2]
    BY <2>1 DEF LinkedBy
  <2>3. i # Len(t) => t[i + 1] = s[i + 2]
    BY <1>1
  <2>. QED
    BY <1>1, <2>1, <2>2, <2>3
<1>. QED
  BY <1>2, <1>3, <1>4 DEF LinkedBy, t

LEMMA LinkedConcat ==
  ASSUME NEW nx, NEW p, NEW q, NEW r \in Seq(Node), NEW s \in Seq(Node), NEW end,
         LinkedBy(nx, p, r, q), LinkedBy(nx, q, s, end)
  PROVE  LinkedBy(nx, p, r \o s, end)
<1>. DEFINE t == r \o s
<1>1. /\ t \in Seq(Node) /\ Len(t) = Len(r) + Len(s) /\ Len(r) \in Nat /\ Len(s) \in Nat
      /\ \A i \in 1..Len(t) : t[i] = IF i <= Len(r) THEN r[i] ELSE s[i - Len(r)]
  BY ConcatProperties, LenProperties
<1>. HIDE DEF t
<1>2. /\ r = <<>> <=> Len(r) = 0
      /\ s = <<>> <=> Len(s) = 0
      /\ t = <<>> <=> Len(t) = 0
  BY <1>1, EmptyFacts
<1>3. q = IF s = <<>> THEN end ELSE s[1]
  BY DEF LinkedBy
<1>4. p = IF r = <<>> THEN q ELSE r[1]
  BY DEF LinkedBy
<1>5. p = IF t = <<>> THEN end ELSE t[1]
  BY <1>1, <1>2, <1>3, <1>4
<1>6. ASSUME NEW i \in 1..Len(t)
      PROVE  nx[t[i]] = IF i = Len(t) THEN end ELSE t[i + 1]
  <2>1. CASE i < Len(r)
    <3>1. i \in 1..Len(r) /\ t[i] = r[i] /\ t[i + 1] = r[i + 1]
      BY <1>1, <2>1
    <3>2. nx[r[i]] = IF i = Len(r) THEN q ELSE r[i + 1]
      BY <3>1 DEF LinkedBy
    <3>. QED
      BY <1>1, <2>1, <3>1, <3>2
  <2>2. CASE i = Len(r)
    <3>1. i \in 1..Len(r) /\ t[i] = r[i]
      BY <1>1, <2>2
    <3>2. nx[r[i]] = q
      BY <2>2, <3>1 DEF LinkedBy
    <3>3. Len(s) # 0 => t[i + 1] = s[1]
      BY <1>1, <2>2
    <3>. QED
      BY <1>1, <1>2, <1>3, <2>2, <3>1, <3>2, <3>3
  <2>3. CASE i > Len(r)
    <3>1. i - Len(r) \in 1..Len(s) /\ t[i] = s[i - Len(r)]
      BY <1>1, <2>3
    <3>2. nx[s[i - Len(r)]] = IF i - Len(r) = Len(s) THEN end ELSE s[i - Len(r) + 1]
      BY <3>1 DEF LinkedBy
    <3>3. i # Len(t) => t[i + 1] = s[i - Len(r) + 1]
      BY <1>1, <2>3
    <3>. QED
      BY <1>1, <3>1, <3>2, <3>3
  <2>. QED
    BY <1>1, <2>1, <2>2, <2>3
<1>. QED
  BY <1>5, <1>6 DEF LinkedBy, t

LEMMA LinkedNull ==
  ASSUME NEW nx, NEW p, NEW s \in Seq(Node), LinkedBy(nx, p, s, Null)
  PROVE  /\ p = Null <=> s = <<>>
         /\ s # <<>> => p = s[1] /\ p \in Elements(s) /\ nx[s[Len(s)]] = Null
<1>1. s # <<>> => Len(s) \in Nat \ {0} /\ s[1] \in Node /\ s[1] \in Elements(s)
  BY TailFacts, ElementFacts, EmptyFacts
<1>2. s # <<>> => nx[s[Len(s)]] = Null
  BY <1>1 DEF LinkedBy
<1>. QED
  BY <1>1, <1>2, ListAssumption DEF LinkedBy

\* The last pointer of a chain of distinct nodes is redirected.
LEMMA LinkedEnd ==
  ASSUME NEW nx, NEW ny, NEW p, NEW s \in Seq(Node), NEW end, s # <<>>, Distinct(s),
         LinkedBy(nx, p, s, end),
         \A n \in Elements(s) : n # s[Len(s)] => ny[n] = nx[n]
  PROVE  LinkedBy(ny, p, s, ny[s[Len(s)]])
<1>1. Len(s) \in Nat \ {0}
  BY TailFacts
<1>2. ASSUME NEW i \in 1..Len(s)
      PROVE  ny[s[i]] = IF i = Len(s) THEN ny[s[Len(s)]] ELSE s[i + 1]
  <2>1. CASE i = Len(s)
    BY <2>1
  <2>2. CASE i # Len(s)
    <3>1. s[i] # s[Len(s)] /\ s[i] \in Elements(s)
      BY <1>1, <2>2, ElementFacts DEF Distinct
    <3>. QED
      BY <2>2, <3>1 DEF LinkedBy
  <2>. QED
    BY <2>1, <2>2
<1>. QED
  BY <1>2 DEF LinkedBy

-------------------------------------------------------------------------------
(* The inductive invariant. *)

\* The counter names the number of swaps.
Counted == swaps < CounterMod => counter = swaps

\* A header seen with the counter of the header is the header, and the next pointer
\* read after it is still the one of the head.
ThreadSeen(t) ==
  /\ pc[t] \in {"unlink_counter", "unlink_swap", "front_next", "front_swap"} =>
       saw[t].head # Null
  /\ pc[t] \in {"front_next", "front_swap"} /\ swaps < MaxSwaps =>
       saw[t].counter <= counter /\ (saw[t].counter = counter => saw[t].head = head)
  /\ pc[t] = "front_swap" /\ swaps < MaxSwaps /\ saw[t].counter = counter =>
       saw[t].next = next[head]

ListInv ==
  /\ TypeOK /\ Counted /\ PointersExact /\ OneOwner
  /\ \A t \in Thread : ThreadSeen(t)

\* The assumption under which the list is correct.
NoWrap == MaxSwaps <= CounterMod

Owned(t) == Elements(chain[t]) \cup Elements(todo[t])

\* OneOwner, as far as t and what all threads share are concerned.
Held(t) == Owned(t) \cup free \cup Elements(stack)
Private(t) ==
  /\ Distinct(chain[t]) /\ Distinct(todo[t])
  /\ Elements(chain[t]) \cap Elements(todo[t]) = {}
  /\ Owned(t) \cap (free \cup Elements(stack)) = {}
Shared == Distinct(stack) /\ Elements(stack) \cap free = {}

\* The step is one of t.
OnlyOf(t) ==
  \A u \in Thread \ {t} :
    /\ pc'[u] = pc[u] /\ saw'[u] = saw[u]
    /\ first'[u] = first[u] /\ last'[u] = last[u] /\ rest'[u] = rest[u]
    /\ chain'[u] = chain[u] /\ todo'[u] = todo[u]

LEMMA CounterFacts ==
  ASSUME NEW c \in 0..(CounterMod - 1)
  PROVE  /\ NextCounter(c) \in 0..(CounterMod - 1)
         /\ c + 1 < CounterMod => NextCounter(c) = c + 1
BY ListAssumption DEF NextCounter

LEMMA OwnersStep ==
  ASSUME OneOwner, NEW t \in Thread, OnlyOf(t),
         Held(t)' = Held(t), Private(t)', Shared'
  PROVE  OneOwner'
<1>1. ASSUME NEW u \in Thread \ {t}
      PROVE  Owned(u)' = Owned(u) /\ chain'[u] = chain[u] /\ todo'[u] = todo[u]
  BY <1>1 DEF OnlyOf, Owned, Elements
<1>2. \A u \in Thread \ {t} : Private(u) /\ Owned(u) \cap Held(t) = {}
  BY DEF OneOwner, Private, Owned, Held
<1>3. ASSUME NEW u \in Thread \ {t}
      PROVE  Private(u)' /\ Owned(u)' \cap Held(t)' = {}
  <2>1. Owned(u)' \cap Held(t)' = {}
    BY <1>1, <1>2
  <2>2. Owned(u)' \cap (free \cup Elements(stack))' = {}
    BY <2>1 DEF Held
  <2>3. Distinct(chain[u])' /\ Distinct(todo[u])' /\ (Elements(chain[u]) \cap Elements(todo[u]) = {})'
    BY <1>1, <1>2 DEF Private
  <2>. QED
    BY <2>1, <2>2, <2>3 DEF Private
<1>4. \A u, v \in Thread \ {t} : u # v => Owned(u)' \cap Owned(v)' = {}
  BY <1>1 DEF OneOwner, Owned
<1>5. \A u \in Thread \ {t} : Owned(u)' \cap Owned(t)' = {}
  BY <1>3 DEF Held
<1>6. \A u \in Thread : \A v \in Thread \ {u} : Owned(u)' \cap Owned(v)' = {}
  BY <1>4, <1>5
<1>7. \A u \in Thread : Private(u)'
  BY <1>3
<1>8. Node = Held(t) \cup (UNION {Owned(u) : u \in Thread})
  BY DEF OneOwner, Held, Owned
<1>9. (UNION {Owned(u) : u \in Thread}) \cup Held(t) = (UNION {Owned(u) : u \in Thread \ {t}}) \cup Held(t)
  BY DEF Held
<1>10. (UNION {Owned(u)' : u \in Thread}) \cup Held(t)' = (UNION {Owned(u)' : u \in Thread \ {t}}) \cup Held(t)'
  BY DEF Held
<1>11. (UNION {Owned(u)' : u \in Thread \ {t}}) = (UNION {Owned(u) : u \in Thread \ {t}})
  BY <1>1
<1>12. Node = Held(t)' \cup (UNION {Owned(u)' : u \in Thread})
  BY <1>8, <1>9, <1>10, <1>11
<1>13. Node = free' \cup Elements(stack') \cup (UNION {Owned(u)' : u \in Thread})
  BY <1>12 DEF Held
<1>. QED
  BY <1>6, <1>7, <1>13 DEF OneOwner, Private, Shared, Owned

\* ThreadPointers of values.
ChainsOf(nx, step, f, l, r, h, ch, td) ==
  /\ step \notin {"push", "push_swap", "reverse", "walk"} => ch = <<>>
  /\ step # "reverse" => td = <<>>
  /\ step \in {"push", "push_swap"} =>
       ch # <<>> /\ l = ch[Len(ch)] /\ LinkedBy(nx, f, ch, nx[l])
  /\ step = "push_swap" => nx[l] = h
  /\ step \in {"reverse", "walk"} =>
       LinkedBy(nx, f, ch, Null) /\ (ch # <<>> => l = ch[Len(ch)])
  /\ step = "reverse" =>
       LinkedBy(nx, r, td, Null) /\ (ch = <<>> => td # <<>> /\ l = td[1])

LEMMA PointersOf ==
  ASSUME NEW t \in Thread
  PROVE  /\ ThreadPointers(t) <=>
              ChainsOf(next, pc[t], first[t], last[t], rest[t], saw[t].head, chain[t], todo[t])
         /\ ThreadPointers(t)' <=>
              ChainsOf(next', pc'[t], first'[t], last'[t], rest'[t], saw'[t].head, chain'[t],
                       todo'[t])
BY DEF ThreadPointers, ChainsOf, Linked, LinkedBy

LEMMA PointersFrame ==
  ASSUME TypeOK, NEW u \in Thread, ThreadPointers(u), NEW t \in Thread \ {u}, OnlyOf(t),
         \A n \in Owned(u) : next'[n] = next[n]
  PROVE  ThreadPointers(u)'
<1>1. /\ pc'[u] = pc[u] /\ saw'[u] = saw[u]
      /\ first'[u] = first[u] /\ last'[u] = last[u] /\ rest'[u] = rest[u]
      /\ chain'[u] = chain[u] /\ todo'[u] = todo[u]
  BY DEF OnlyOf
<1>2. chain[u] \in Seq(Node) /\ todo[u] \in Seq(Node)
  BY DEF TypeOK
<1>3. \A p, end : LinkedBy(next, p, chain[u], end) => LinkedBy(next', p, chain[u], end)
  BY <1>2, LinkedFrame DEF Owned
<1>4. \A p, end : LinkedBy(next, p, todo[u], end) => LinkedBy(next', p, todo[u], end)
  BY <1>2, LinkedFrame DEF Owned
<1>5. chain[u] # <<>> => next'[chain[u][Len(chain[u])]] = next[chain[u][Len(chain[u])]]
  BY <1>2, TailFacts, ElementFacts DEF Owned
<1>6. ChainsOf(next, pc[u], first[u], last[u], rest[u], saw[u].head, chain[u], todo[u])
  BY PointersOf
<1>7. ChainsOf(next', pc[u], first[u], last[u], rest[u], saw[u].head, chain[u], todo[u])
  BY <1>3, <1>4, <1>5, <1>6 DEF ChainsOf
<1>. QED
  BY <1>1, <1>7, PointersOf

LEMMA StackFrame ==
  ASSUME TypeOK, Linked(head, stack, Null), UNCHANGED <<head, stack>>,
         \A n \in Elements(stack) : next'[n] = next[n]
  PROVE  Linked(head, stack, Null)'
<1>1. LinkedBy(next, head, stack, Null)
  BY DEF Linked, LinkedBy
<1>2. LinkedBy(next', head, stack, Null)
  BY <1>1, LinkedFrame DEF TypeOK
<1>. QED
  BY <1>2 DEF Linked, LinkedBy

\* While nobody replaces the header.
LEMMA SeenFrame ==
  ASSUME TypeOK, Linked(head, stack, Null), NEW u \in Thread, ThreadSeen(u),
         pc'[u] = pc[u], saw'[u] = saw[u], UNCHANGED <<head, counter, swaps>>,
         \A n \in Elements(stack) : next'[n] = next[n]
  PROVE  ThreadSeen(u)'
<1>1. LinkedBy(next, head, stack, Null) /\ stack \in Seq(Node)
  BY DEF Linked, LinkedBy, TypeOK
<1>2. head # Null => next'[head] = next[head]
  BY <1>1, LinkedNull
<1>. QED
  BY <1>2 DEF ThreadSeen

\* When somebody does, nobody else has seen the new header.
LEMMA SeenSwap ==
  ASSUME TypeOK, NoWrap, Counted, NEW u \in Thread, ThreadSeen(u),
         pc'[u] = pc[u], saw'[u] = saw[u],
         swaps < MaxSwaps, swaps' = swaps + 1, counter' = NextCounter(counter)
  PROVE  ThreadSeen(u)'
<1>1. /\ swaps \in Nat /\ MaxSwaps \in Nat /\ CounterMod \in Nat
      /\ counter \in 0..(CounterMod - 1) /\ saw[u].counter \in Int
  BY ListAssumption DEF TypeOK, Saw
<1>2. ASSUME swaps' < MaxSwaps
      PROVE  counter' = counter + 1
  BY <1>1, <1>2, CounterFacts DEF NoWrap, Counted
<1>. QED
  BY <1>1, <1>2 DEF ThreadSeen

LEMMA CountedStep ==
  ASSUME TypeOK, Counted, swaps' = swaps + 1, counter' = NextCounter(counter)
  PROVE  Counted'
<1>1. swaps \in Nat /\ CounterMod \in Nat /\ counter \in 0..(CounterMod - 1)
  BY ListAssumption DEF TypeOK
<1>. QED
  BY <1>1, CounterFacts DEF Counted

-------------------------------------------------------------------------------
(* What is left to show of a step of t. *)

LEMMA QuietStep ==
  ASSUME ListInv, TypeOK', NEW t \in Thread, OnlyOf(t),
         UNCHANGED <<head, counter, swaps, stack>>,
         \A n \in Node \ Owned(t) : next'[n] = next[n],
         OneOwner', ThreadPointers(t)', ThreadSeen(t)'
  PROVE  ListInv'
<1>1. TypeOK /\ Counted /\ OneOwner /\ Linked(head, stack, Null)
  BY DEF ListInv, PointersExact
<1>2. \A n \in Elements(stack) : n \in Node \ Owned(t)
  <2>1. Elements(stack) \subseteq Node
    BY <1>1, ElementFacts DEF TypeOK
  <2>. QED
    BY <1>1, <2>1 DEF OneOwner, Owned
<1>3. Linked(head, stack, Null)'
  BY <1>1, <1>2, StackFrame
<1>4. ASSUME NEW u \in Thread \ {t}
      PROVE  ThreadPointers(u)' /\ ThreadSeen(u)'
  <2>1. \A n \in Owned(u) : n \in Node \ Owned(t)
    BY <1>1 DEF OneOwner, Owned
  <2>2. ThreadPointers(u) /\ ThreadSeen(u)
    BY DEF ListInv, PointersExact
  <2>3. pc'[u] = pc[u] /\ saw'[u] = saw[u]
    BY DEF OnlyOf
  <2>4. ThreadPointers(u)'
    BY <1>1, <2>1, <2>2, PointersFrame
  <2>5. ThreadSeen(u)'
    BY <1>1, <1>2, <2>2, <2>3, SeenFrame
  <2>. QED
    BY <2>4, <2>5
<1>5. Counted'
  BY <1>1 DEF Counted
<1>. QED
  BY <1>3, <1>4, <1>5 DEF ListInv, PointersExact

\* No node changes its place.
LEMMA StillStep ==
  ASSUME ListInv, TypeOK', NEW t \in Thread, OnlyOf(t),
         UNCHANGED <<head, counter, swaps, stack, free, chain, todo>>,
         \A n \in Node \ Owned(t) : next'[n] = next[n],
         ThreadPointers(t)', ThreadSeen(t)'
  PROVE  ListInv'
<1>1. OneOwner'
  BY DEF ListInv, OneOwner
<1>. QED
  BY <1>1, QuietStep

LEMMA SwapStep ==
  ASSUME ListInv, NoWrap, TypeOK', NEW t \in Thread, OnlyOf(t), UNCHANGED next,
         swaps < MaxSwaps, swaps' = swaps + 1, counter' = NextCounter(counter),
         Linked(head, stack, Null)',
         OneOwner', ThreadPointers(t)', ThreadSeen(t)'
  PROVE  ListInv'
<1>1. TypeOK /\ Counted
  BY DEF ListInv
<1>2. ASSUME NEW u \in Thread \ {t}
      PROVE  ThreadPointers(u)' /\ ThreadSeen(u)'
  <2>1. ThreadPointers(u) /\ ThreadSeen(u)
    BY DEF ListInv, PointersExact
  <2>2. pc'[u] = pc[u] /\ saw'[u] = saw[u]
    BY DEF OnlyOf
  <2>3. ThreadPointers(u)'
    BY <1>1, <2>1, PointersFrame
  <2>4. ThreadSeen(u)'
    BY <1>1, <2>1, <2>2, SeenSwap
  <2>. QED
    BY <2>3, <2>4
<1>3. Counted'
  BY <1>1, CountedStep
<1>. QED
  BY <1>2, <1>3 DEF ListInv, PointersExact

-------------------------------------------------------------------------------
(* The steps that move no node. *)

\* The steps of t that only read, or change what it has read.
ReadStep(t) ==
  \/ Retry(t, "push_swap", "push") \/ unlink_head(t) \/ unlink_empty(t) \/ unlink_counter(t)
  \/ Retry(t, "unlink_swap", "unlink") \/ reverse_end(t) \/ walk_end(t) \/ push_list(t)
  \/ front_read(t) \/ front_empty(t) \/ front_next(t) \/ Retry(t, "front_swap", "front")

LEMMA SawFacts ==
  ASSUME TypeOK, NEW t \in Thread
  PROVE  /\ [saw EXCEPT ![t] = Nothing] \in [Thread -> Saw]
         /\ \A h \in Pointer : [saw EXCEPT ![t].head = h] \in [Thread -> Saw]
         /\ \A c \in 0..(CounterMod - 1) : [saw EXCEPT ![t].counter = c] \in [Thread -> Saw]
         /\ \A h \in Pointer : [saw EXCEPT ![t].next = h] \in [Thread -> Saw]
         /\ \A h \in Pointer, c \in 0..(CounterMod - 1) :
              [saw EXCEPT ![t].head = h, ![t].counter = c] \in [Thread -> Saw]
<1>1. Null \in Pointer /\ 0 \in 0..(CounterMod - 1)
  BY ListAssumption DEF Pointer
<1>2. Nothing \in Saw
  BY <1>1 DEF Nothing, Saw
<1>3. saw \in [Thread -> Saw] /\ saw[t] \in Saw
  BY DEF TypeOK
<1>4. \A r \in Saw : [saw EXCEPT ![t] = r] \in [Thread -> Saw]
  BY <1>3
<1>5. \A h \in Pointer : [saw[t] EXCEPT !.head = h] \in Saw
  BY <1>3 DEF Saw
<1>6. \A c \in 0..(CounterMod - 1) : [saw[t] EXCEPT !.counter = c] \in Saw
  BY <1>3 DEF Saw
<1>7. \A h \in Pointer : [saw[t] EXCEPT !.next = h] \in Saw
  BY <1>3 DEF Saw
<1>8. \A h \in Pointer, c \in 0..(CounterMod - 1) :
        [saw[t] EXCEPT !.head = h, !.counter = c] \in Saw
  BY <1>3 DEF Saw
<1>. QED
  BY <1>2, <1>3, <1>4, <1>5, <1>6, <1>7, <1>8

LEMMA ReadTyped ==
  ASSUME ListInv, NEW t \in Thread, ReadStep(t)
  PROVE  TypeOK' /\ OnlyOf(t)
<1>1. TypeOK /\ ThreadSeen(t)
  BY DEF ListInv
<1>2. ASSUME NEW x \in Step, pc' = [pc EXCEPT ![t] = x], saw' \in [Thread -> Saw],
             \A u \in Thread \ {t} : saw'[u] = saw[u],
             UNCHANGED <<head, counter, next, first, last, rest, free, swaps, stack, chain, todo>>
      PROVE  TypeOK' /\ OnlyOf(t)
  BY <1>1, <1>2 DEF TypeOK, OnlyOf
<1>3. \A x \in {"idle", "push", "unlink", "unlink_counter", "unlink_swap", "walk", "front",
                "front_next", "front_swap"} : x \in Step
  BY DEF Step
<1>4. saw \in [Thread -> Saw] /\ head \in Pointer /\ counter \in 0..(CounterMod - 1)
  BY <1>1 DEF TypeOK
<1>5. CASE Retry(t, "push_swap", "push") \/ Retry(t, "unlink_swap", "unlink")
             \/ Retry(t, "front_swap", "front")
  <2>1. saw' = [saw EXCEPT ![t] = Nothing]
    BY <1>5 DEF Retry, Forget
  <2>2. saw' \in [Thread -> Saw] /\ \A u \in Thread \ {t} : saw'[u] = saw[u]
    BY <1>1, <1>4, <2>1, SawFacts
  <2>. QED
    BY <1>2, <1>3, <1>5, <2>2 DEF Retry, Goto
<1>6. CASE unlink_head(t)
  <2>1. saw' \in [Thread -> Saw] /\ \A u \in Thread \ {t} : saw'[u] = saw[u]
    BY <1>1, <1>4, <1>6, SawFacts DEF unlink_head
  <2>. QED
    BY <1>2, <1>3, <1>6, <2>1 DEF unlink_head, Goto
<1>7. CASE unlink_empty(t) \/ front_empty(t) \/ reverse_end(t) \/ push_list(t)
  BY <1>2, <1>3, <1>4, <1>7
     DEF unlink_empty, front_empty, reverse_end, push_list, Goto, memoryVars
<1>8. CASE unlink_counter(t)
  <2>1. saw' \in [Thread -> Saw] /\ \A u \in Thread \ {t} : saw'[u] = saw[u]
    BY <1>1, <1>4, <1>8, SawFacts DEF unlink_counter
  <2>. QED
    BY <1>2, <1>3, <1>8, <2>1 DEF unlink_counter, Goto
<1>9. CASE walk_end(t)
  <2>1. pc' = [pc EXCEPT ![t] = "idle"] /\ last' = [last EXCEPT ![t] = Null]
    BY <1>9 DEF walk_end, Goto
  <2>2. UNCHANGED <<head, counter, next, first, rest, saw, free, swaps, stack, chain, todo>>
    BY <1>9 DEF walk_end
  <2>. QED
    BY <1>1, <2>1, <2>2 DEF TypeOK, OnlyOf, Step, Pointer
<1>10. CASE front_read(t)
  <2>1. saw' \in [Thread -> Saw] /\ \A u \in Thread \ {t} : saw'[u] = saw[u]
    BY <1>1, <1>4, <1>10, SawFacts DEF front_read
  <2>. QED
    BY <1>2, <1>3, <1>10, <2>1 DEF front_read, Goto
<1>11. CASE front_next(t)
  <2>1. pc[t] = "front_next" /\ saw[t] \in Saw /\ saw[t].head # Null
    BY <1>1, <1>4, <1>11 DEF front_next, Goto, ThreadSeen
  <2>2. saw[t].head \in Node
    BY <2>1 DEF Saw, Pointer
  <2>3. next[saw[t].head] \in Pointer
    BY <1>1, <2>2 DEF TypeOK
  <2>4. PICK p \in Pointer : saw' = [saw EXCEPT ![t].next = p]
    BY <1>11, <2>3 DEF front_next
  <2>5. saw' \in [Thread -> Saw] /\ \A u \in Thread \ {t} : saw'[u] = saw[u]
    BY <1>1, <1>4, <2>4, SawFacts
  <2>. QED
    BY <1>2, <1>3, <1>11, <2>5 DEF front_next, Goto
<1>. QED
  BY <1>5, <1>6, <1>7, <1>8, <1>9, <1>10, <1>11 DEF ReadStep

LEMMA ReadPointers ==
  ASSUME ListInv, NEW t \in Thread, ReadStep(t)
  PROVE  ThreadPointers(t)'
<1>1. TypeOK /\ ThreadPointers(t) /\ chain[t] \in Seq(Node) /\ todo[t] \in Seq(Node)
      /\ pc \in [Thread -> Step]
  BY DEF ListInv, TypeOK, PointersExact
<1>2. ChainsOf(next, pc[t], first[t], last[t], rest[t], saw[t].head, chain[t], todo[t])
  BY <1>1, PointersOf
<1>3. ASSUME UNCHANGED <<next, first, last, rest, chain, todo>>,
             ChainsOf(next, pc'[t], first[t], last[t], rest[t], saw'[t].head, chain[t], todo[t])
      PROVE  ThreadPointers(t)'
  BY <1>3, PointersOf
<1>4. CASE Retry(t, "push_swap", "push")
  <2>1. pc[t] = "push_swap" /\ pc'[t] = "push" /\ UNCHANGED <<next, first, last, rest, chain, todo>>
    BY <1>1, <1>4 DEF Retry, Goto
  <2>. QED
    BY <1>2, <1>3, <2>1 DEF ChainsOf
<1>5. CASE \/ unlink_head(t) \/ unlink_empty(t) \/ unlink_counter(t)
           \/ Retry(t, "unlink_swap", "unlink")
           \/ front_read(t) \/ front_empty(t) \/ front_next(t) \/ Retry(t, "front_swap", "front")
  <2>1. /\ pc[t] \notin {"push", "push_swap", "reverse", "walk"}
        /\ pc'[t] \notin {"push", "push_swap", "reverse", "walk"}
    BY <1>1, <1>5 DEF unlink_head, unlink_empty, unlink_counter, front_read, front_empty,
                      front_next, Retry, Goto
  <2>2. UNCHANGED <<next, first, last, rest, chain, todo>>
    BY <1>5 DEF unlink_head, unlink_empty, unlink_counter, front_read, front_empty,
                front_next, Retry, memoryVars
  <2>. QED
    BY <1>2, <1>3, <2>1, <2>2 DEF ChainsOf
<1>6. CASE reverse_end(t)
  <2>1. /\ pc[t] = "reverse" /\ pc'[t] = "walk" /\ rest[t] = Null
        /\ UNCHANGED <<next, first, last, rest, chain, todo>>
    BY <1>1, <1>6 DEF reverse_end, Goto, memoryVars
  <2>2. todo[t] = <<>>
    BY <1>1, <1>2, <2>1, LinkedNull DEF ChainsOf
  <2>. QED
    BY <1>2, <1>3, <2>1, <2>2 DEF ChainsOf
<1>7. CASE walk_end(t)
  <2>1. /\ pc[t] = "walk" /\ pc'[t] = "idle" /\ first[t] = Null
        /\ UNCHANGED <<chain, todo>>
    BY <1>1, <1>7 DEF walk_end, Goto
  <2>2. chain[t] = <<>> /\ todo[t] = <<>>
    BY <1>1, <1>2, <2>1, LinkedNull DEF ChainsOf
  <2>3. pc'[t] = "idle" /\ chain'[t] = <<>> /\ todo'[t] = <<>>
    BY <2>1, <2>2
  <2>. QED
    BY <2>3, PointersOf DEF ChainsOf
<1>8. CASE push_list(t)
  <2>1. /\ pc[t] = "walk" /\ pc'[t] = "push" /\ first[t] # Null
        /\ UNCHANGED <<next, first, last, rest, chain, todo>>
    BY <1>1, <1>8 DEF push_list, Goto, memoryVars
  <2>2. LinkedBy(next, first[t], chain[t], Null) /\ todo[t] = <<>>
    BY <1>2, <2>1 DEF ChainsOf
  <2>3. chain[t] # <<>> /\ next[chain[t][Len(chain[t])]] = Null
    BY <1>1, <2>1, <2>2, LinkedNull
  <2>4. last[t] = chain[t][Len(chain[t])]
    BY <1>2, <2>1, <2>3 DEF ChainsOf
  <2>. QED
    BY <1>3, <2>1, <2>2, <2>3, <2>4 DEF ChainsOf
<1>. QED
  BY <1>4, <1>5, <1>6, <1>7, <1>8 DEF ReadStep

LEMMA ReadSeen ==
  ASSUME ListInv, NEW t \in Thread, ReadStep(t)
  PROVE  ThreadSeen(t)'
<1>1. TypeOK /\ ThreadSeen(t) /\ pc \in [Thread -> Step] /\ saw \in [Thread -> Saw]
      /\ counter \in Nat
  BY DEF ListInv, TypeOK
<1>2. saw[t] \in Saw
  BY <1>1
<1>3. CASE Retry(t, "push_swap", "push") \/ Retry(t, "unlink_swap", "unlink")
             \/ Retry(t, "front_swap", "front") \/ unlink_empty(t) \/ front_empty(t)
             \/ reverse_end(t) \/ walk_end(t) \/ push_list(t)
  <2>1. pc'[t] \notin {"unlink_counter", "unlink_swap", "front_next", "front_swap"}
    BY <1>1, <1>3 DEF Retry, unlink_empty, front_empty, reverse_end, walk_end, push_list, Goto
  <2>. QED
    BY <2>1 DEF ThreadSeen
<1>4. CASE unlink_head(t)
  <2>1. pc'[t] = "unlink_counter" /\ saw'[t].head = head /\ head # Null
    BY <1>1, <1>2, <1>4 DEF unlink_head, Goto, Saw
  <2>. QED
    BY <2>1 DEF ThreadSeen
<1>5. CASE unlink_counter(t)
  <2>1. pc[t] = "unlink_counter" /\ pc'[t] = "unlink_swap" /\ saw'[t].head = saw[t].head
    BY <1>1, <1>2, <1>5 DEF unlink_counter, Goto, Saw
  <2>. QED
    BY <1>1, <2>1 DEF ThreadSeen
<1>6. CASE front_read(t)
  <2>1. /\ pc'[t] = "front_next" /\ saw'[t].head = head /\ saw'[t].counter = counter
        /\ head # Null /\ head' = head /\ counter' = counter
    BY <1>1, <1>2, <1>6 DEF front_read, Goto, Saw
  <2>. QED
    BY <1>1, <2>1 DEF ThreadSeen
<1>7. CASE front_next(t)
  <2>1. /\ pc[t] = "front_next" /\ pc'[t] = "front_swap"
        /\ saw'[t].head = saw[t].head /\ saw'[t].counter = saw[t].counter
        /\ UNCHANGED <<head, counter, swaps, next>>
    BY <1>1, <1>2, <1>7 DEF front_next, Goto, Saw
  <2>2. saw[t].head \notin free => saw'[t].next = next[saw[t].head]
    BY <1>1, <1>2, <1>7 DEF front_next, Saw
  <2>3. head # Null => head \notin free
    <3>1. LinkedBy(next, head, stack, Null) /\ stack \in Seq(Node)
      BY DEF ListInv, PointersExact, Linked, LinkedBy, TypeOK
    <3>2. head # Null => head \in Elements(stack)
      BY <3>1, LinkedNull
    <3>. QED
      BY <3>2 DEF ListInv, OneOwner
  <2>. QED
    BY <1>1, <2>1, <2>2, <2>3 DEF ThreadSeen
<1>. QED
  BY <1>3, <1>4, <1>5, <1>6, <1>7 DEF ReadStep

LEMMA ReadKeeps ==
  ASSUME ListInv, NEW t \in Thread, ReadStep(t)
  PROVE  ListInv'
<1>1. UNCHANGED <<head, counter, swaps, stack, free, chain, todo, next>>
  BY DEF ReadStep, Retry, unlink_head, unlink_empty, unlink_counter, reverse_end, walk_end,
         push_list, front_read, front_empty, front_next, memoryVars
<1>. QED
  BY <1>1, ReadTyped, ReadPointers, ReadSeen, StillStep

-------------------------------------------------------------------------------
(* The steps that move nodes. *)

\* What every step knows of its thread.
LEMMA Known ==
  ASSUME ListInv, NEW t \in Thread
  PROVE  /\ TypeOK /\ OneOwner /\ LinkedBy(next, head, stack, Null) /\ stack \in Seq(Node)
         /\ chain[t] \in Seq(Node) /\ todo[t] \in Seq(Node) /\ saw[t] \in Saw
         /\ first[t] \in Pointer /\ last[t] \in Pointer /\ rest[t] \in Pointer
         /\ ChainsOf(next, pc[t], first[t], last[t], rest[t], saw[t].head, chain[t], todo[t])
         /\ ThreadSeen(t) /\ Private(t) /\ Shared
         /\ free \subseteq Node /\ Null \notin Node
<1>1. TypeOK /\ OneOwner /\ ThreadSeen(t) /\ ThreadPointers(t) /\ Linked(head, stack, Null)
  BY DEF ListInv, PointersExact
<1>2. Private(t) /\ Shared
  BY <1>1 DEF OneOwner, Private, Shared, Owned
<1>3. LinkedBy(next, head, stack, Null)
  BY <1>1 DEF Linked, LinkedBy
<1>. QED
  BY <1>1, <1>2, <1>3, PointersOf, ListAssumption DEF TypeOK

LEMMA CreateKeeps ==
  ASSUME ListInv, NEW t \in Thread, NEW n \in Node, create(t, n)
  PROVE  ListInv'
<1>1. /\ pc[t] = "idle" /\ pc' = [pc EXCEPT ![t] = "push"] /\ n \in free /\ free' = free \ {n}
      /\ first' = [first EXCEPT ![t] = n] /\ last' = [last EXCEPT ![t] = n]
      /\ chain' = [chain EXCEPT ![t] = <<n>>]
      /\ UNCHANGED <<head, counter, next, rest, saw, swaps, stack, todo>>
  BY DEF create, Goto
<1>2. chain[t] = <<>> /\ todo[t] = <<>>
  BY <1>1, Known DEF ChainsOf
<1>3. /\ <<n>> \in Seq(Node) /\ Elements(<<n>>) = {n} /\ Distinct(<<n>>)
      /\ <<n>> # <<>> /\ Len(<<n>>) = 1 /\ <<n>>[1] = n
  BY Single
<1>4. TypeOK' /\ OnlyOf(t)
  BY <1>1, <1>3, Known DEF TypeOK, OnlyOf, Step, Pointer
<1>5. pc'[t] = "push" /\ first'[t] = n /\ last'[t] = n /\ chain'[t] = <<n>> /\ todo'[t] = <<>>
  BY <1>1, <1>2, Known DEF TypeOK
<1>6. OneOwner'
  <2>1. Held(t)' = Held(t)
    BY <1>1, <1>2, <1>3, <1>5, EmptyFacts DEF Held, Owned
  <2>2. Private(t)' /\ Shared'
    BY <1>1, <1>2, <1>3, <1>5, EmptyFacts, Known DEF Private, Shared, Owned
  <2>. QED
    BY <1>4, <2>1, <2>2, Known, OwnersStep
<1>7. ThreadPointers(t)'
  <2>1. LinkedBy(next, n, <<n>>, next[n])
    BY <1>3 DEF LinkedBy
  <2>. QED
    BY <1>1, <1>3, <1>5, <2>1, PointersOf DEF ChainsOf
<1>8. ThreadSeen(t)'
  BY <1>5 DEF ThreadSeen
<1>. QED
  BY <1>1, <1>4, <1>6, <1>7, <1>8, QuietStep

LEMMA PushReadKeeps ==
  ASSUME ListInv, NEW t \in Thread, push_read(t)
  PROVE  ListInv'
<1>1. /\ pc[t] = "push" /\ pc' = [pc EXCEPT ![t] = "push_swap"]
      /\ saw' = [saw EXCEPT ![t].head = head, ![t].counter = counter]
      /\ next' = [next EXCEPT ![last[t]] = head]
      /\ UNCHANGED <<head, counter, first, last, rest, free, swaps, stack, chain, todo>>
  BY DEF push_read, Goto
<1>2. /\ chain[t] # <<>> /\ last[t] = chain[t][Len(chain[t])] /\ todo[t] = <<>>
      /\ LinkedBy(next, first[t], chain[t], next[last[t]])
  BY <1>1, Known DEF ChainsOf
<1>3. last[t] \in Elements(chain[t]) /\ last[t] \in Node
  <2>1. Len(chain[t]) \in 1..Len(chain[t])
    BY <1>2, Known, TailFacts
  <2>. QED
    BY <1>2, <2>1, Known, ElementFacts
<1>4. TypeOK' /\ OnlyOf(t)
  <2>1. saw' \in [Thread -> Saw] /\ \A u \in Thread \ {t} : saw'[u] = saw[u]
    BY <1>1, Known, SawFacts DEF TypeOK
  <2>2. next' \in [Node -> Pointer] /\ pc' \in [Thread -> Step]
    BY <1>1, Known DEF TypeOK, Step
  <2>. QED
    BY <1>1, <2>1, <2>2, Known DEF TypeOK, OnlyOf
<1>5. pc'[t] = "push_swap" /\ saw'[t].head = head /\ next'[last[t]] = head
  BY <1>1, <1>3, Known DEF TypeOK, Saw
<1>6. \A n \in Node : n # last[t] => next'[n] = next[n]
  BY <1>1, Known DEF TypeOK
<1>7. ThreadPointers(t)'
  <2>1. Elements(chain[t]) \subseteq Node
    BY Known, ElementFacts
  <2>2. \A n \in Elements(chain[t]) : n # chain[t][Len(chain[t])] => next'[n] = next[n]
    BY <1>2, <1>6, <2>1
  <2>3. chain[t] \in Seq(Node) /\ Distinct(chain[t])
    BY Known DEF Private
  <2>4. LinkedBy(next', first[t], chain[t], next'[chain[t][Len(chain[t])]])
    BY <1>2, <2>2, <2>3, LinkedEnd
  <2>. QED
    BY <1>1, <1>2, <1>5, <2>4, PointersOf DEF ChainsOf
<1>8. ThreadSeen(t)'
  BY <1>5 DEF ThreadSeen
<1>. QED
  BY <1>1, <1>3, <1>4, <1>6, <1>7, <1>8, StillStep DEF Owned

LEMMA PushSwapKeeps ==
  ASSUME ListInv, NoWrap, NEW t \in Thread, push_swap(t)
  PROVE  ListInv'
<1>1. /\ pc[t] = "push_swap" /\ pc' = [pc EXCEPT ![t] = "idle"]
      /\ head = saw[t].head /\ head' = first[t]
      /\ swaps < MaxSwaps /\ swaps' = swaps + 1 /\ counter' = NextCounter(counter)
      /\ saw' = [saw EXCEPT ![t] = Nothing]
      /\ first' = [first EXCEPT ![t] = Null] /\ last' = [last EXCEPT ![t] = Null]
      /\ stack' = chain[t] \o stack /\ chain' = [chain EXCEPT ![t] = <<>>]
      /\ UNCHANGED <<next, rest, free, todo>>
  BY DEF push_swap, Swap, HeaderAsSeen, Goto, Forget
<1>2. todo[t] = <<>> /\ LinkedBy(next, first[t], chain[t], head)
  BY <1>1, Known DEF ChainsOf
<1>3. /\ chain[t] \o stack \in Seq(Node) /\ Distinct(chain[t] \o stack)
      /\ Elements(chain[t] \o stack) = Elements(chain[t]) \cup Elements(stack)
  <2>1. Elements(chain[t]) \cap Elements(stack) = {} /\ Distinct(chain[t]) /\ Distinct(stack)
    BY Known DEF Private, Shared, Owned
  <2>. QED
    BY <2>1, Known, ConcatElements
<1>4. TypeOK' /\ OnlyOf(t)
  <2>1. saw' \in [Thread -> Saw] /\ \A u \in Thread \ {t} : saw'[u] = saw[u]
    BY <1>1, Known, SawFacts DEF TypeOK
  <2>2. swaps' \in 0..MaxSwaps /\ counter' \in 0..(CounterMod - 1) /\ head' \in Pointer
    <3>1. counter \in 0..(CounterMod - 1) /\ swaps \in 0..MaxSwaps /\ first[t] \in Pointer
      BY Known DEF TypeOK
    <3>2. counter' \in 0..(CounterMod - 1)
      BY <1>1, <3>1, CounterFacts
    <3>3. swaps' \in 0..MaxSwaps
      BY <1>1, <3>1, ListAssumption
    <3>. QED
      BY <1>1, <3>1, <3>2, <3>3
  <2>3. Null \in Pointer /\ "idle" \in Step
    BY DEF Pointer, Step
  <2>. QED
    BY <1>1, <1>3, <2>1, <2>2, <2>3, Known, EmptyFacts DEF TypeOK, OnlyOf
<1>5. pc'[t] = "idle" /\ chain'[t] = <<>> /\ todo'[t] = <<>>
  BY <1>1, <1>2, Known DEF TypeOK
<1>6. OneOwner'
  <2>1. Held(t)' = Held(t)
    BY <1>1, <1>2, <1>3, <1>5, EmptyFacts DEF Held, Owned
  <2>2. Private(t)'
    BY <1>5, EmptyFacts DEF Private, Owned
  <2>3. Shared'
    BY <1>1, <1>3, Known DEF Private, Shared, Owned
  <2>. QED
    BY <1>4, <2>1, <2>2, <2>3, Known, OwnersStep
<1>7. Linked(head, stack, Null)'
  <2>1. LinkedBy(next, first[t], chain[t] \o stack, Null)
    BY <1>2, Known, LinkedConcat
  <2>. QED
    BY <1>1, <2>1 DEF Linked, LinkedBy
<1>8. ThreadPointers(t)' /\ ThreadSeen(t)'
  BY <1>5, PointersOf DEF ChainsOf, ThreadSeen
<1>. QED
  BY <1>1, <1>4, <1>6, <1>7, <1>8, SwapStep

LEMMA UnlinkSwapKeeps ==
  ASSUME ListInv, NoWrap, NEW t \in Thread, unlink_swap(t)
  PROVE  ListInv'
<1>1. /\ pc[t] = "unlink_swap" /\ pc' = [pc EXCEPT ![t] = "reverse"]
      /\ head = saw[t].head /\ head' = Null
      /\ swaps < MaxSwaps /\ swaps' = swaps + 1 /\ counter' = NextCounter(counter)
      /\ saw' = [saw EXCEPT ![t] = Nothing]
      /\ first' = [first EXCEPT ![t] = Null]
      /\ last' = [last EXCEPT ![t] = head] /\ rest' = [rest EXCEPT ![t] = head]
      /\ todo' = [todo EXCEPT ![t] = stack] /\ stack' = <<>>
      /\ UNCHANGED <<next, free, chain>>
  BY DEF unlink_swap, Swap, HeaderAsSeen, Goto, Forget
<1>2. chain[t] = <<>> /\ todo[t] = <<>>
  BY <1>1, Known DEF ChainsOf
<1>3. stack # <<>> /\ head = stack[1]
  BY <1>1, Known, LinkedNull DEF ThreadSeen
<1>4. TypeOK' /\ OnlyOf(t)
  <2>1. saw' \in [Thread -> Saw] /\ \A u \in Thread \ {t} : saw'[u] = saw[u]
    BY <1>1, Known, SawFacts DEF TypeOK
  <2>2. swaps' \in 0..MaxSwaps /\ counter' \in 0..(CounterMod - 1)
    <3>1. counter \in 0..(CounterMod - 1) /\ swaps \in 0..MaxSwaps
      BY Known DEF TypeOK
    <3>2. counter' \in 0..(CounterMod - 1)
      BY <1>1, <3>1, CounterFacts
    <3>3. swaps' \in 0..MaxSwaps
      BY <1>1, <3>1, ListAssumption
    <3>. QED
      BY <3>2, <3>3
  <2>3. Null \in Pointer /\ "reverse" \in Step
    BY DEF Pointer, Step
  <2>. QED
    BY <1>1, <2>1, <2>2, <2>3, Known, EmptyFacts DEF TypeOK, OnlyOf
<1>5. /\ pc'[t] = "reverse" /\ chain'[t] = <<>> /\ todo'[t] = stack
      /\ first'[t] = Null /\ last'[t] = head /\ rest'[t] = head
  BY <1>1, <1>2, Known DEF TypeOK
<1>6. OneOwner'
  <2>1. Held(t)' = Held(t)
    BY <1>1, <1>2, <1>5, EmptyFacts DEF Held, Owned
  <2>2. Private(t)' /\ Shared'
    BY <1>1, <1>5, EmptyFacts, Known DEF Private, Shared, Owned
  <2>. QED
    BY <1>4, <2>1, <2>2, Known, OwnersStep
<1>7. LinkedBy(next, Null, <<>>, Null)
  BY EmptyFacts DEF LinkedBy
<1>8. Linked(head, stack, Null)'
  BY <1>1, <1>7 DEF Linked, LinkedBy
<1>9. ThreadPointers(t)'
  BY <1>1, <1>3, <1>5, <1>7, Known, PointersOf DEF ChainsOf
<1>10. ThreadSeen(t)'
  BY <1>5 DEF ThreadSeen
<1>. QED
  BY <1>1, <1>4, <1>6, <1>8, <1>9, <1>10, SwapStep

LEMMA ReverseKeeps ==
  ASSUME ListInv, NEW t \in Thread, reverse_turn(t)
  PROVE  ListInv'
<1>. DEFINE n == rest[t]
            td == SubSeq(todo[t], 2, Len(todo[t]))
            ch == <<n>> \o chain[t]
<1>1. /\ pc[t] = "reverse" /\ n # Null
      /\ rest' = [rest EXCEPT ![t] = next[n]]
      /\ next' = [next EXCEPT ![n] = first[t]]
      /\ first' = [first EXCEPT ![t] = n]
      /\ todo' = [todo EXCEPT ![t] = td]
      /\ chain' = [chain EXCEPT ![t] = SubSeq(todo[t], 1, 1) \o chain[t]]
      /\ UNCHANGED <<head, counter, last, saw, free, swaps, pc, stack>>
  BY DEF reverse_turn
<1>2. /\ LinkedBy(next, first[t], chain[t], Null) /\ LinkedBy(next, n, todo[t], Null)
      /\ chain[t] # <<>> => last[t] = chain[t][Len(chain[t])]
      /\ chain[t] = <<>> => last[t] = todo[t][1]
  BY <1>1, Known DEF ChainsOf
<1>3. todo[t] # <<>> /\ n = todo[t][1] /\ n \in Node
  BY <1>1, <1>2, Known, LinkedNull DEF Pointer
<1>4. /\ td \in Seq(Node) /\ Distinct(td)
      /\ Elements(todo[t]) = Elements(td) \cup {n} /\ n \notin Elements(td)
  <2>1. Distinct(todo[t])
    BY Known DEF Private
  <2>. QED
    BY <1>3, <2>1, Known, TailFacts, TailElements
<1>5. LinkedBy(next, next[n], td, Null)
  BY <1>2, <1>3, Known, LinkedTail
<1>6. SubSeq(todo[t], 1, 1) = <<n>>
  BY <1>3, Known, OneFacts
<1>7. /\ <<n>> \in Seq(Node) /\ Elements(<<n>>) = {n} /\ Distinct(<<n>>)
      /\ <<n>> # <<>> /\ Len(<<n>>) = 1 /\ <<n>>[1] = n
  BY <1>3, Single
<1>8. /\ ch \in Seq(Node) /\ Distinct(ch) /\ Elements(ch) = {n} \cup Elements(chain[t])
  <2>1. Distinct(chain[t]) /\ {n} \cap Elements(chain[t]) = {}
    BY <1>4, Known DEF Private
  <2>. QED
    BY <1>7, <2>1, Known, ConcatElements
<1>9. ch # <<>> /\ ch[Len(ch)] = IF chain[t] = <<>> THEN n ELSE chain[t][Len(chain[t])]
  <2>1. Len(ch) = 1 + Len(chain[t])
    BY <1>7, Known, ConcatProperties
  <2>2. \A i \in 1..(1 + Len(chain[t])) :
          ch[i] = IF i <= 1 THEN <<n>>[i] ELSE chain[t][i - 1]
    BY <1>7, Known, ConcatProperties
  <2>3. Len(chain[t]) \in Nat /\ (chain[t] = <<>> <=> Len(chain[t]) = 0)
    BY Known, EmptyFacts, ElementFacts
  <2>. QED
    BY <1>7, <1>8, <2>1, <2>2, <2>3, EmptyFacts
<1>. HIDE DEF n, td, ch
<1>10. chain' = [chain EXCEPT ![t] = ch]
  BY <1>1, <1>6 DEF ch
<1>11. TypeOK' /\ OnlyOf(t)
  <2>1. next' \in [Node -> Pointer] /\ next[n] \in Pointer /\ n \in Pointer
    BY <1>1, <1>3, Known DEF TypeOK, Pointer
  <2>. QED
    BY <1>1, <1>4, <1>8, <1>10, <2>1, Known DEF TypeOK, OnlyOf
<1>12. /\ pc'[t] = "reverse" /\ chain'[t] = ch /\ todo'[t] = td
       /\ first'[t] = n /\ last'[t] = last[t] /\ rest'[t] = next[n] /\ next'[n] = first[t]
  BY <1>1, <1>3, <1>10, Known DEF TypeOK
<1>13. OneOwner'
  <2>1. Held(t)' = Held(t)
    BY <1>1, <1>4, <1>8, <1>12 DEF Held, Owned
  <2>2. Private(t)' /\ Shared'
    BY <1>1, <1>4, <1>8, <1>12, Known DEF Private, Shared, Owned
  <2>. QED
    BY <1>11, <2>1, <2>2, Known, OwnersStep
<1>14. \A m \in Node : m # n => next'[m] = next[m]
  BY <1>1, Known DEF TypeOK
<1>15. ThreadPointers(t)'
  <2>1. LinkedBy(next', next[n], td, Null)
    <3>1. \A m \in Elements(td) : next'[m] = next[m]
      BY <1>4, <1>14, ElementFacts
    <3>. QED
      BY <1>4, <1>5, <3>1, LinkedFrame
  <2>2. LinkedBy(next', first[t], chain[t], Null)
    <3>1. \A m \in Elements(chain[t]) : m \in Node /\ m # n
      BY <1>4, Known, ElementFacts DEF Private
    <3>2. \A m \in Elements(chain[t]) : next'[m] = next[m]
      BY <1>14, <3>1
    <3>. QED
      BY <1>2, <3>2, Known, LinkedFrame
  <2>3. LinkedBy(next', n, <<n>>, first[t])
    BY <1>7, <1>12 DEF LinkedBy
  <2>4. LinkedBy(next', n, ch, Null)
    BY <1>7, <2>2, <2>3, Known, LinkedConcat DEF ch
  <2>5. last[t] = ch[Len(ch)]
    BY <1>2, <1>3, <1>9
  <2>. QED
    BY <1>9, <1>12, <2>1, <2>4, <2>5, PointersOf DEF ChainsOf
<1>16. ThreadSeen(t)'
  BY <1>12 DEF ThreadSeen
<1>17. \A m \in Node \ Owned(t) : next'[m] = next[m]
  BY <1>4, <1>14 DEF Owned
<1>. QED
  BY <1>1, <1>11, <1>13, <1>15, <1>16, <1>17, QuietStep

LEMMA WalkKeeps ==
  ASSUME ListInv, NEW t \in Thread, walk(t)
  PROVE  ListInv'
<1>. DEFINE n == first[t]
            ch == SubSeq(chain[t], 2, Len(chain[t]))
<1>1. /\ pc[t] = "walk" /\ n # Null
      /\ first' = [first EXCEPT ![t] = next[n]]
      /\ free' = free \cup {n}
      /\ chain' = [chain EXCEPT ![t] = ch]
      /\ UNCHANGED <<head, counter, next, last, rest, saw, swaps, pc, stack, todo>>
  BY DEF walk
<1>2. /\ LinkedBy(next, n, chain[t], Null) /\ todo[t] = <<>>
      /\ chain[t] # <<>> => last[t] = chain[t][Len(chain[t])]
  BY <1>1, Known DEF ChainsOf
<1>3. chain[t] # <<>> /\ n = chain[t][1] /\ n \in Node
  BY <1>1, <1>2, Known, LinkedNull DEF Pointer
<1>4. /\ ch \in Seq(Node) /\ Distinct(ch)
      /\ Elements(chain[t]) = Elements(ch) \cup {n} /\ n \notin Elements(ch)
  <2>1. Distinct(chain[t])
    BY Known DEF Private
  <2>. QED
    BY <1>3, <2>1, Known, TailFacts, TailElements
<1>5. LinkedBy(next, next[n], ch, Null)
  BY <1>2, <1>3, Known, LinkedTail
<1>6. ch # <<>> => last[t] = ch[Len(ch)]
  <2>1. /\ Len(ch) = Len(chain[t]) - 1 /\ Len(chain[t]) \in Nat
        /\ \A i \in 1..(Len(chain[t]) - 1) : ch[i] = chain[t][i + 1]
    BY <1>3, Known, TailFacts
  <2>2. ch # <<>> => Len(ch) # 0
    BY <1>4, EmptyFacts
  <2>. QED
    BY <1>2, <1>3, <1>4, <2>1, <2>2
<1>. HIDE DEF n, ch
<1>7. TypeOK' /\ OnlyOf(t)
  <2>1. next[n] \in Pointer
    BY <1>3, Known DEF TypeOK
  <2>. QED
    BY <1>1, <1>3, <1>4, <2>1, Known DEF TypeOK, OnlyOf
<1>8. /\ pc'[t] = "walk" /\ chain'[t] = ch /\ todo'[t] = <<>>
      /\ first'[t] = next[n] /\ last'[t] = last[t]
  BY <1>1, <1>2, Known DEF TypeOK
<1>9. OneOwner'
  <2>1. Held(t)' = Held(t)
    BY <1>1, <1>2, <1>4, <1>8, EmptyFacts DEF Held, Owned
  <2>2. Private(t)' /\ Shared'
    BY <1>1, <1>4, <1>8, EmptyFacts, Known DEF Private, Shared, Owned
  <2>. QED
    BY <1>7, <2>1, <2>2, Known, OwnersStep
<1>10. ThreadPointers(t)'
  BY <1>1, <1>5, <1>6, <1>8, PointersOf DEF ChainsOf
<1>11. ThreadSeen(t)'
  BY <1>8 DEF ThreadSeen
<1>. QED
  BY <1>1, <1>7, <1>9, <1>10, <1>11, QuietStep

LEMMA FrontSwapKeeps ==
  ASSUME ListInv, NoWrap, NEW t \in Thread, front_swap(t)
  PROVE  ListInv'
<1>. DEFINE rem == SubSeq(stack, 2, Len(stack))
<1>1. /\ pc[t] = "front_swap" /\ pc' = [pc EXCEPT ![t] = "idle"]
      /\ head = saw[t].head /\ counter = saw[t].counter /\ head' = saw[t].next
      /\ swaps < MaxSwaps /\ swaps' = swaps + 1 /\ counter' = NextCounter(counter)
      /\ saw' = [saw EXCEPT ![t] = Nothing]
      /\ free' = free \cup {head} /\ stack' = rem
      /\ UNCHANGED <<next, first, last, rest, chain, todo>>
  BY DEF front_swap, Swap, HeaderAsSeen, Goto, Forget
<1>2. chain[t] = <<>> /\ todo[t] = <<>>
  BY <1>1, Known DEF ChainsOf
<1>3. head # Null /\ head' = next[head]
  BY <1>1, Known DEF ThreadSeen
<1>4. stack # <<>> /\ head = stack[1] /\ head \in Node
  BY <1>3, Known, LinkedNull, TailFacts
<1>5. /\ rem \in Seq(Node) /\ Distinct(rem)
      /\ Elements(stack) = Elements(rem) \cup {head} /\ head \notin Elements(rem)
  <2>1. Distinct(stack)
    BY Known DEF Shared
  <2>. QED
    BY <1>4, <2>1, Known, TailFacts, TailElements
<1>6. LinkedBy(next, next[head], rem, Null)
  BY <1>4, Known, LinkedTail
<1>. HIDE DEF rem
<1>7. TypeOK' /\ OnlyOf(t)
  <2>1. saw' \in [Thread -> Saw] /\ \A u \in Thread \ {t} : saw'[u] = saw[u]
    BY <1>1, Known, SawFacts DEF TypeOK
  <2>2. swaps' \in 0..MaxSwaps /\ counter' \in 0..(CounterMod - 1)
    <3>1. counter \in 0..(CounterMod - 1) /\ swaps \in 0..MaxSwaps
      BY Known DEF TypeOK
    <3>2. counter' \in 0..(CounterMod - 1)
      BY <1>1, <3>1, CounterFacts
    <3>3. swaps' \in 0..MaxSwaps
      BY <1>1, <3>1, ListAssumption
    <3>. QED
      BY <3>2, <3>3
  <2>3. head' \in Pointer /\ "idle" \in Step
    BY <1>3, <1>4, Known DEF TypeOK, Step
  <2>. QED
    BY <1>1, <1>4, <1>5, <2>1, <2>2, <2>3, Known DEF TypeOK, OnlyOf
<1>8. pc'[t] = "idle" /\ chain'[t] = <<>> /\ todo'[t] = <<>>
  BY <1>1, <1>2, Known DEF TypeOK
<1>9. OneOwner'
  <2>1. Held(t)' = Held(t)
    BY <1>1, <1>2, <1>5, <1>8 DEF Held, Owned
  <2>2. Private(t)'
    BY <1>8, EmptyFacts DEF Private, Owned
  <2>3. Shared'
    BY <1>1, <1>5, Known DEF Shared
  <2>. QED
    BY <1>7, <2>1, <2>2, <2>3, Known, OwnersStep
<1>10. Linked(head, stack, Null)'
  BY <1>1, <1>3, <1>6 DEF Linked, LinkedBy
<1>11. ThreadPointers(t)' /\ ThreadSeen(t)'
  BY <1>8, PointersOf DEF ChainsOf, ThreadSeen
<1>. QED
  BY <1>1, <1>7, <1>9, <1>10, <1>11, SwapStep

-------------------------------------------------------------------------------
LEMMA InvInit == Init => ListInv
<1>. SUFFICES ASSUME Init
              PROVE  ListInv
  OBVIOUS
<1>1. TypeOK
  <2>1. Null \in Pointer /\ 0 \in 0..(CounterMod - 1) /\ 0 \in 0..MaxSwaps /\ "idle" \in Step
    BY ListAssumption DEF Pointer, Step
  <2>2. Nothing \in Saw
    BY <2>1 DEF Nothing, Saw
  <2>. QED
    BY <2>1, <2>2, EmptyFacts DEF Init, TypeOK
<1>2. OneOwner
  BY EmptyFacts DEF Init, OneOwner
<1>3. PointersExact
  <2>1. Linked(head, stack, Null)
    BY EmptyFacts DEF Init, Linked
  <2>2. \A t \in Thread : ThreadPointers(t)
    BY DEF Init, ThreadPointers
  <2>. QED
    BY <2>1, <2>2 DEF PointersExact
<1>4. Counted /\ \A t \in Thread : ThreadSeen(t)
  BY DEF Init, Counted, ThreadSeen
<1>. QED
  BY <1>1, <1>2, <1>3, <1>4 DEF ListInv

LEMMA InvStep == NoWrap /\ ListInv /\ [Next]_vars => ListInv'
<1>. SUFFICES ASSUME NoWrap, ListInv, [Next]_vars
              PROVE  ListInv'
  OBVIOUS
<1>1. CASE UNCHANGED vars
  <2>1. UNCHANGED <<head, counter, next, first, last, rest, saw, free, swaps, pc, stack, chain,
                    todo>>
    BY <1>1 DEF vars, memoryVars
  <2>2. TypeOK' /\ Counted'
    BY <2>1 DEF ListInv, TypeOK, Counted
  <2>3. PointersExact'
    BY <2>1 DEF ListInv, PointersExact, ThreadPointers, Linked
  <2>4. OneOwner' /\ \A t \in Thread : ThreadSeen(t)'
    BY <2>1 DEF ListInv, OneOwner, ThreadSeen
  <2>. QED
    BY <2>2, <2>3, <2>4 DEF ListInv
<1>2. CASE Next
  <2>1. PICK t \in Thread :
          \/ \E n \in Node : create(t, n)
          \/ push_read(t) \/ push_swap(t) \/ unlink_swap(t) \/ reverse_turn(t) \/ walk(t)
          \/ front_swap(t) \/ ReadStep(t)
    BY <1>2 DEF Next, ReadStep
  <2>. QED
    BY <2>1, CreateKeeps, PushReadKeeps, PushSwapKeeps, UnlinkSwapKeeps, ReverseKeeps,
       WalkKeeps, FrontSwapKeeps, ReadKeeps
<1>. QED
  BY <1>1, <1>2

LEMMA Invariant == ASSUME NoWrap PROVE Spec => []ListInv
BY NoWrap, InvInit, InvStep, PTL DEF Spec

\* While the counter of the header does not wrap, every chain of next pointers is what it is
\* meant to be, for any number of threads and nodes: a compare-and-swap that finds the header
\* as it was read finds the next pointer as it was read, too (gv_CAS2, pop_front).
THEOREM ListIsExact == ASSUME NoWrap PROVE Spec => []PointersExact
<1>1. ListInv => PointersExact
  BY DEF ListInv
<1>. QED
  BY <1>1, Invariant, PTL

\* While the counter does not wrap, no node is lost and none has two owners, for any number of
\* threads and nodes (push_list, pop_list, pop_front).
THEOREM NodeHasOneOwner == ASSUME NoWrap PROVE Spec => []OneOwner
<1>1. ListInv => OneOwner
  BY DEF ListInv
<1>. QED
  BY <1>1, Invariant, PTL

\* While the counter does not wrap, every reachable state is of its types: in particular no
\* thread follows the next pointer of no node.
THEOREM TypeCorrect == ASSUME NoWrap PROVE Spec => []TypeOK
<1>1. ListInv => TypeOK
  BY DEF ListInv
<1>. QED
  BY <1>1, Invariant, PTL

-------------------------------------------------------------------------------
(* The list implements a concurrent stack. *)

Rev(s) == SeqOps!Reverse(s)

\* The chains of the stack.
Chains == [t \in Thread |-> Rev(todo[t]) \o chain[t]]

LEMMA RevFacts ==
  ASSUME NEW s \in Seq(Node)
  PROVE  /\ Rev(s) \in Seq(Node) /\ Len(Rev(s)) = Len(s)
         /\ \A i \in 1..Len(s) : Rev(s)[i] = s[Len(s) - i + 1]
<1>. DEFINE t == Rev(s)
<1>1. Len(s) \in Nat /\ \A i \in 1..Len(s) : s[i] \in Node
  BY ElementFacts
<1>2. t = [i \in 1..Len(s) |-> s[(Len(s) - i) + 1]]
  BY DEF Rev, SeqOps!Reverse
<1>3. \A i \in 1..Len(s) : (Len(s) - i) + 1 \in 1..Len(s)
  BY <1>1
<1>4. t \in [1..Len(s) -> Node]
  BY <1>1, <1>2, <1>3
<1>5. t \in Seq(Node) /\ Len(t) = Len(s)
  BY <1>1, <1>4
<1>6. \A i \in 1..Len(s) : t[i] = s[Len(s) - i + 1]
  BY <1>2
<1>. QED
  BY <1>5, <1>6

LEMMA RevEmpty == Rev(<<>>) = <<>>
BY RevFacts, EmptyFacts

\* What is reversed last comes first.
LEMMA RevTail ==
  ASSUME NEW s \in Seq(Node), s # <<>>
  PROVE  Rev(s) = Rev(SubSeq(s, 2, Len(s))) \o <<s[1]>>
<1>. DEFINE t == SubSeq(s, 2, Len(s))
            v == Rev(s)
            r == Rev(t)
            u == r \o <<s[1]>>
<1>1. /\ t \in Seq(Node) /\ Len(t) = Len(s) - 1 /\ Len(s) \in Nat \ {0} /\ s[1] \in Node
      /\ \A i \in 1..Len(t) : t[i] = s[i + 1]
  BY TailFacts
<1>2. /\ r \in Seq(Node) /\ Len(r) = Len(t)
      /\ \A i \in 1..Len(t) : r[i] = t[Len(t) - i + 1]
  BY <1>1, RevFacts
<1>3. /\ v \in Seq(Node) /\ Len(v) = Len(s)
      /\ \A i \in 1..Len(s) : v[i] = s[Len(s) - i + 1]
  BY RevFacts
<1>4. <<s[1]>> \in Seq(Node) /\ Len(<<s[1]>>) = 1 /\ <<s[1]>>[1] = s[1]
  BY <1>1, Single
<1>. HIDE DEF t, v, r
<1>5. /\ u \in Seq(Node) /\ Len(u) = Len(r) + 1
      /\ \A i \in 1..Len(r) : u[i] = r[i]
      /\ u[Len(r) + 1] = s[1]
  <2>. DEFINE w == <<s[1]>>
  <2>1. w \in Seq(Node) /\ Len(w) = 1 /\ w[1] = s[1]
    BY <1>4
  <2>. HIDE DEF w
  <2>2. /\ r \o w \in Seq(Node) /\ Len(r \o w) = Len(r) + 1
        /\ \A i \in 1..(Len(r) + 1) : (r \o w)[i] = IF i <= Len(r) THEN r[i] ELSE w[i - Len(r)]
    <3>1. /\ r \o w \in Seq(Node) /\ Len(r \o w) = Len(r) + Len(w)
          /\ \A i \in 1..(Len(r) + Len(w)) :
               (r \o w)[i] = IF i <= Len(r) THEN r[i] ELSE w[i - Len(r)]
      BY <1>2, <2>1, ConcatProperties
    <3>. QED
      BY <2>1, <3>1
  <2>3. Len(r) \in Nat
    BY <1>1, <1>2
  <2>4. (r \o w)[Len(r) + 1] = w[1]
    BY <2>2, <2>3
  <2>. QED
    BY <2>1, <2>2, <2>3, <2>4 DEF w
<1>. HIDE DEF u
<1>6. ASSUME NEW i \in 1..Len(u)
      PROVE  u[i] = v[i]
  <2>1. CASE i <= Len(r)
    <3>1. i \in 1..Len(t) /\ Len(t) - i + 1 \in 1..Len(t) /\ u[i] = r[i]
      BY <1>1, <1>2, <1>5, <2>1
    <3>2. r[i] = s[Len(t) - i + 1 + 1]
      BY <1>1, <1>2, <3>1
    <3>3. Len(t) - i + 1 + 1 = Len(s) - i + 1
      BY <1>1
    <3>. QED
      BY <1>1, <1>3, <3>1, <3>2, <3>3
  <2>2. CASE i = Len(r) + 1
    <3>1. i - Len(r) = 1 /\ i \in 1..Len(s) /\ Len(s) - i + 1 = 1
      BY <1>1, <1>2, <2>2
    <3>2. v[i] = s[1]
      BY <1>3, <3>1
    <3>3. u[i] = s[1]
      BY <1>2, <1>1, <1>5, <2>2, <3>1
    <3>. QED
      BY <3>2, <3>3
  <2>. QED
    BY <1>1, <1>2, <1>5, <2>1, <2>2
<1>7. Len(u) = Len(v)
  BY <1>1, <1>2, <1>3, <1>5
<1>8. u = v
  BY <1>3, <1>5, <1>6, <1>7, SeqEqual
<1>. QED
  BY <1>8 DEF u, v, r, t

LEMMA ChainsStep ==
  ASSUME NEW t \in Thread, OnlyOf(t), NEW x, Rev(todo'[t]) \o chain'[t] = x
  PROVE  Chains' = [Chains EXCEPT ![t] = x]
<1>1. \A u \in Thread \ {t} : Rev(todo'[u]) \o chain'[u] = Rev(todo[u]) \o chain[u]
  BY DEF OnlyOf
<1>2. Chains' = [u \in Thread |-> Rev(todo'[u]) \o chain'[u]]
  BY DEF Chains
<1>. QED
  BY <1>1, <1>2 DEF Chains

\* The steps of the stack are those of ConcurrentStack, of the chains.
LEMMA StackSteps ==
  ASSUME NEW t \in Thread
  PROVE  /\ \A n \in Node :
              Chains[t] = <<>> /\ n \in free /\ Chains' = [Chains EXCEPT ![t] = <<n>>]
                /\ free' = free \ {n} /\ UNCHANGED stack => Stack!Next
         /\ Chains[t] # <<>> /\ stack' = Chains[t] \o stack
              /\ Chains' = [Chains EXCEPT ![t] = <<>>] /\ UNCHANGED free => Stack!Next
         /\ Chains[t] = <<>> /\ stack # <<>> /\ Chains' = [Chains EXCEPT ![t] = Rev(stack)]
              /\ stack' = <<>> /\ UNCHANGED free => Stack!Next
         /\ Chains[t] = <<>> /\ stack # <<>> /\ free' = free \cup {Head(stack)}
              /\ stack' = Tail(stack) /\ UNCHANGED Chains => Stack!Next
         /\ Chains[t] # <<>> /\ free' = free \cup {Head(Chains[t])}
              /\ Chains' = [Chains EXCEPT ![t] = Tail(Chains[t])] /\ UNCHANGED stack => Stack!Next
BY DEF Stack!Next, Stack!Create, Stack!Push, Stack!TakeAll, Stack!TakeFront, Stack!HandOut,
       Stack!Reverse, Chains, Rev, SeqOps!Reverse

LEMMA RefineStep == NoWrap /\ ListInv /\ [Next]_vars => [Stack!Next]_<<stack, Chains, free>>
<1>. SUFFICES ASSUME NoWrap, ListInv, [Next]_vars, ~(UNCHANGED <<stack, Chains, free>>)
              PROVE  Stack!Next
  OBVIOUS
<1>1. ~(UNCHANGED vars)
  BY DEF vars, memoryVars, Chains
<1>2. PICK t \in Thread :
        \/ \E n \in Node : create(t, n)
        \/ push_read(t) \/ push_swap(t) \/ unlink_swap(t) \/ reverse_turn(t) \/ walk(t)
        \/ front_swap(t) \/ ReadStep(t)
  BY <1>1 DEF Next, ReadStep
<1>3. Chains[t] = Rev(todo[t]) \o chain[t] /\ Rev(todo[t]) \in Seq(Node)
  BY Known, RevFacts DEF Chains
<1>4. todo[t] = <<>> => Chains[t] = chain[t]
  BY <1>3, Known, RevEmpty, ConcatEmptySeq
<1>5. /\ \A u \in Thread : pc[u] \in Step
      /\ pc \in [Thread -> Step] /\ chain \in [Thread -> Seq(Node)] /\ todo \in [Thread -> Seq(Node)]
  BY Known DEF TypeOK
<1>6. ~push_read(t) /\ ~ReadStep(t)
  BY DEF push_read, ReadStep, Retry, unlink_head, unlink_empty, unlink_counter, reverse_end,
         walk_end, push_list, front_read, front_empty, front_next, memoryVars, Chains
<1>7. ASSUME NEW n \in Node, create(t, n)
      PROVE  Stack!Next
  <2>1. /\ chain[t] = <<>> /\ todo[t] = <<>> /\ n \in free /\ free' = free \ {n}
        /\ UNCHANGED stack /\ chain' = [chain EXCEPT ![t] = <<n>>] /\ UNCHANGED todo
    BY <1>7, Known DEF create, Goto, ChainsOf
  <2>2. Rev(todo'[t]) \o chain'[t] = <<n>>
    <3>1. todo'[t] = <<>> /\ chain'[t] = <<n>> /\ <<n>> \in Seq(Node)
      BY <1>5, <2>1, Single
    <3>. QED
      BY <3>1, RevEmpty, ConcatEmptySeq
  <2>3. OnlyOf(t)
    BY <1>7, Known DEF create, Goto, OnlyOf, TypeOK
  <2>. QED
    BY <1>4, <2>1, <2>2, <2>3, ChainsStep, StackSteps
<1>8. CASE push_swap(t)
  <2>1. /\ chain[t] # <<>> /\ todo[t] = <<>> /\ stack' = chain[t] \o stack
        /\ chain' = [chain EXCEPT ![t] = <<>>] /\ UNCHANGED <<todo, free>>
    BY <1>8, Known DEF push_swap, Swap, Goto, ChainsOf
  <2>2. Rev(todo'[t]) \o chain'[t] = <<>>
    <3>1. todo'[t] = <<>> /\ chain'[t] = <<>>
      BY <1>5, <2>1
    <3>. QED
      BY <3>1, RevEmpty, EmptyFacts, ConcatEmptySeq
  <2>3. OnlyOf(t)
    BY <1>8, Known DEF push_swap, Swap, Forget, Goto, OnlyOf, TypeOK
  <2>. QED
    BY <1>4, <2>1, <2>2, <2>3, ChainsStep, StackSteps
<1>9. CASE unlink_swap(t)
  <2>1. /\ chain[t] = <<>> /\ todo[t] = <<>> /\ stack' = <<>> /\ head = saw[t].head
        /\ todo' = [todo EXCEPT ![t] = stack] /\ UNCHANGED <<chain, free>>
    BY <1>9, Known DEF unlink_swap, Swap, HeaderAsSeen, Goto, ChainsOf
  <2>2. stack # <<>>
    BY <1>9, <2>1, Known, LinkedNull DEF unlink_swap, Swap, Goto, ThreadSeen
  <2>3. Rev(todo'[t]) \o chain'[t] = Rev(stack)
    <3>1. todo'[t] = stack /\ chain'[t] = <<>> /\ Rev(stack) \in Seq(Node)
      BY <1>5, <2>1, Known, RevFacts
    <3>. QED
      BY <3>1, ConcatEmptySeq
  <2>4. OnlyOf(t)
    BY <1>9, Known DEF unlink_swap, Swap, Forget, Goto, OnlyOf, TypeOK
  <2>. QED
    BY <1>4, <2>1, <2>2, <2>3, <2>4, ChainsStep, StackSteps
<1>10. CASE reverse_turn(t)
  <2>. DEFINE td == SubSeq(todo[t], 2, Len(todo[t]))
  <2>1. /\ pc[t] = "reverse" /\ rest[t] # Null
        /\ todo' = [todo EXCEPT ![t] = td]
        /\ chain' = [chain EXCEPT ![t] = SubSeq(todo[t], 1, 1) \o chain[t]]
        /\ UNCHANGED <<free, stack>>
    BY <1>10 DEF reverse_turn
  <2>2. LinkedBy(next, rest[t], todo[t], Null)
    BY <2>1, Known DEF ChainsOf
  <2>3. todo[t] # <<>>
    BY <2>1, <2>2, Known, LinkedNull
  <2>4. /\ td \in Seq(Node) /\ todo[t][1] \in Node
        /\ SubSeq(todo[t], 1, 1) = <<todo[t][1]>>
        /\ Rev(todo[t]) = Rev(td) \o <<todo[t][1]>>
    BY <2>3, Known, TailFacts, OneFacts, RevTail
  <2>. HIDE DEF td
  <2>5. todo'[t] = td /\ chain'[t] = <<todo[t][1]>> \o chain[t]
    BY <1>5, <2>1, <2>4
  <2>6. Rev(todo'[t]) \o chain'[t] = Chains[t]
    <3>1. Rev(td) \in Seq(Node) /\ <<todo[t][1]>> \in Seq(Node) /\ chain[t] \in Seq(Node)
      BY <2>4, Known, RevFacts, Single
    <3>2. \A x, y, z \in Seq(Node) : (x \o y) \o z = x \o (y \o z)
      BY ConcatAssociative
    <3>3. (Rev(td) \o <<todo[t][1]>>) \o chain[t] = Rev(td) \o (<<todo[t][1]>> \o chain[t])
      BY <3>1, <3>2, Zenon
    <3>. QED
      BY <1>3, <2>4, <2>5, <3>3
  <2>7. OnlyOf(t)
    BY <1>10, Known DEF reverse_turn, OnlyOf, TypeOK
  <2>8. Chains' = [Chains EXCEPT ![t] = Chains[t]]
    BY <2>6, <2>7, ChainsStep
  <2>9. UNCHANGED Chains
    BY <2>8 DEF Chains
  <2>. QED
    BY <2>1, <2>9
<1>11. CASE walk(t)
  <2>. DEFINE ch == SubSeq(chain[t], 2, Len(chain[t]))
  <2>1. /\ pc[t] = "walk" /\ first[t] # Null
        /\ free' = free \cup {first[t]} /\ chain' = [chain EXCEPT ![t] = ch]
        /\ UNCHANGED <<stack, todo>>
    BY <1>11 DEF walk
  <2>2. LinkedBy(next, first[t], chain[t], Null) /\ todo[t] = <<>>
    BY <2>1, Known DEF ChainsOf
  <2>3. chain[t] # <<>> /\ first[t] = chain[t][1]
    BY <2>1, <2>2, Known, LinkedNull
  <2>4. ch \in Seq(Node) /\ Tail(chain[t]) = ch /\ Head(chain[t]) = first[t]
    BY <2>3, Known, TailFacts, TailIsSubSeq
  <2>. HIDE DEF ch
  <2>5. todo'[t] = <<>> /\ chain'[t] = ch
    BY <1>5, <2>1, <2>2
  <2>6. Rev(todo'[t]) \o chain'[t] = Tail(Chains[t])
    BY <1>4, <2>2, <2>4, <2>5, RevEmpty, ConcatEmptySeq
  <2>7. OnlyOf(t)
    BY <1>11, Known DEF walk, OnlyOf, TypeOK
  <2>8. Chains' = [Chains EXCEPT ![t] = Tail(Chains[t])]
    BY <2>6, <2>7, ChainsStep
  <2>. QED
    BY <1>4, <2>1, <2>2, <2>3, <2>4, <2>8, StackSteps
<1>12. CASE front_swap(t)
  <2>1. /\ chain[t] = <<>> /\ todo[t] = <<>> /\ saw[t].head = head /\ head # Null
        /\ free' = free \cup {head} /\ stack' = SubSeq(stack, 2, Len(stack))
        /\ UNCHANGED <<chain, todo>>
    BY <1>12, Known DEF front_swap, Swap, HeaderAsSeen, Goto, ChainsOf, ThreadSeen
  <2>2. stack # <<>> /\ head = stack[1]
    BY <2>1, Known, LinkedNull
  <2>3. Tail(stack) = SubSeq(stack, 2, Len(stack)) /\ Head(stack) = head
    BY <2>2, Known, TailIsSubSeq
  <2>4. UNCHANGED Chains
    BY <2>1 DEF Chains
  <2>. QED
    BY <1>4, <2>1, <2>2, <2>3, <2>4, StackSteps
<1>. QED
  BY <1>2, <1>6, <1>7, <1>8, <1>9, <1>10, <1>11, <1>12

\* While the counter does not wrap, every step of every thread is a step of the atomic stack
\* of ConcurrentStack or leaves it unchanged, for any number of threads and nodes: pushing,
\* taking all and taking the front are atomic, and who takes all gets the oldest first.
THEOREM ListImplementsStack == ASSUME NoWrap PROVE Spec => ImplementsStack
<1>1. Init => Stack!Init
  <2>1. Init => Chains = [t \in Thread |-> <<>>]
    BY RevEmpty, EmptyFacts, ConcatEmptySeq DEF Init, Chains
  <2>. QED
    BY <2>1 DEF Init, Stack!Init, Chains, Rev
<1>2. NoWrap /\ ListInv /\ [Next]_vars => [Stack!Next]_(Stack!vars)
  BY RefineStep DEF Stack!vars, Chains, Rev
<1>. QED
  BY <1>1, <1>2, Invariant, PTL DEF Spec, ImplementsStack, Stack!StackSpec

================================================================================
