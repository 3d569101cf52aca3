---------------------------- MODULE RudpServer_proofs ----------------------------
(***************************************************************************)
(* Three things about the servers, for any number of them and of peers.    *)
(*                                                                         *)
(* The pool of peers, its two lists and the address map agree.  PoolExact  *)
(* is not inductive: an address that maps to a slot must also be the       *)
(* address of the peer in it, the requests must name slots of their host,  *)
(* and the peers an update pass has still to visit must be in use.         *)
(*                                                                         *)
(* An accepting peer is connected only after its verify packet arrived,    *)
(* and hears the peer it shook hands with: the packets, the peers and the  *)
(* requests say the same of each other.                                    *)
(*                                                                         *)
(* The remote hosts of the managers above the servers: what each waits     *)
(* for, that the servers below them keep all of this, and that of two      *)
(* nodes none believes in a connection whose end it is not going to hear   *)
(* of.                                                                     *)
(***************************************************************************)
EXTENDS NetworkManager, SequenceTheorems, FiniteSetTheorems, WellFoundedInduction, TLAPS

Elems(q) == {q[i] : i \in 1..Len(q)}

Distinct(q) == \A i, j \in 1..Len(q) : q[i] = q[j] => i = j

Fields == DOMAIN [state |-> 0, address |-> 0, session |-> 0, outPeer |-> 0, connSeq |-> 0,
                  outSeq |-> 0, inSeq |-> 0, queued |-> 0, waiting |-> 0, early |-> 0,
                  incarnation |-> 0, partner |-> 0, got |-> 0]

\* What the pool needs of a peer.
PeerOK(p) ==
  /\ DOMAIN p = Fields
  /\ p.address \in Node
  /\ \A d \in p.queued : d.from \in Node

\* The pool of host n: its peers P, the slots in use U, the free ones F, the map M.
PoolAt(n, P, U, F, M) ==
  /\ DOMAIN P = Slot(n) /\ \A s \in Slot(n) : PeerOK(P[s])
  /\ U \in Seq(Slot(n)) /\ F \in Seq(Slot(n)) /\ Distinct(U) /\ Distinct(F)
  /\ Elems(U) \cap Elems(F) = {} /\ Elems(U) \cup Elems(F) = Slot(n)
  /\ Len(U) + Len(F) = MaxPeers[n]
  /\ M \in [Node -> Slot(n) \cup {NoSlot}]
  /\ \A s \in Elems(U) : M[P[s].address] = s
  /\ \A m \in Node : M[m] # NoSlot => M[m] \in Elems(U) /\ P[M[m]].address = m
  /\ \A s \in Elems(F) : P[s].state = "zombie"

-------------------------------------------------------------------------------
(* Sequences without repetitions. *)

LEMMA ElemsIn ==
  ASSUME NEW S, NEW q \in Seq(S)
  PROVE  /\ Elems(q) \subseteq S
         /\ \A e : e \in Elems(q) <=> \E i \in 1..Len(q) : q[i] = e
BY DEF Elems

LEMMA AppendedElems ==
  ASSUME NEW S, NEW q \in Seq(S), NEW e \in S, Distinct(q), e \notin Elems(q)
  PROVE  /\ Append(q, e) \in Seq(S) /\ Distinct(Append(q, e))
         /\ Elems(Append(q, e)) = Elems(q) \cup {e}
         /\ Len(Append(q, e)) = Len(q) + 1
<1>1. /\ Append(q, e) \in Seq(S) /\ Len(Append(q, e)) = Len(q) + 1 /\ Len(q) \in Nat
      /\ \A i \in 1..Len(q) : Append(q, e)[i] = q[i]
      /\ Append(q, e)[Len(q) + 1] = e
  OBVIOUS
<1>2. Elems(Append(q, e)) = Elems(q) \cup {e}
  <2>1. ASSUME NEW x \in Elems(Append(q, e)) PROVE x \in Elems(q) \cup {e}
    <3>1. PICK i \in 1..(Len(q) + 1) : Append(q, e)[i] = x
      BY <1>1, <2>1 DEF Elems
    <3>2. CASE i = Len(q) + 1 BY <3>1, <3>2, <1>1
    <3>3. CASE i \in 1..Len(q) BY <3>1, <3>3, <1>1 DEF Elems
    <3>. QED BY <3>2, <3>3, <1>1
  <2>2. ASSUME NEW x \in Elems(q) PROVE x \in Elems(Append(q, e))
    <3>1. PICK i \in 1..Len(q) : q[i] = x
      BY <2>2 DEF Elems
    <3>2. i \in 1..Len(Append(q, e)) /\ Append(q, e)[i] = x
      BY <3>1, <1>1
    <3>. QED BY <3>2 DEF Elems
  <2>3. e \in Elems(Append(q, e))
    <3>1. Len(q) + 1 \in 1..Len(Append(q, e))
      BY <1>1
    <3>. QED BY <3>1, <1>1 DEF Elems
  <2>. QED BY <2>1, <2>2, <2>3
<1>3. Distinct(Append(q, e))
  <2>1. \A i \in 1..Len(q) : q[i] # e
    BY DEF Elems
  <2>. QED BY <1>1, <2>1 DEF Distinct
<1>. QED BY <1>1, <1>2, <1>3

LEMMA TailElems ==
  ASSUME NEW S, NEW q \in Seq(S), q # <<>>, Distinct(q)
  PROVE  /\ Tail(q) \in Seq(S) /\ Distinct(Tail(q))
         /\ Head(q) \in Elems(q)
         /\ Elems(Tail(q)) = Elems(q) \ {Head(q)}
         /\ Len(Tail(q)) = Len(q) - 1
<1>1. /\ Len(q) \in Nat \ {0} /\ Tail(q) \in Seq(S) /\ Len(Tail(q)) = Len(q) - 1
      /\ Head(q) = q[1]
      /\ \A i \in 1..(Len(q) - 1) : Tail(q)[i] = q[i + 1]
  OBVIOUS
<1>2. Head(q) \in Elems(q)
  <2>1. 1 \in 1..Len(q) BY <1>1
  <2>. QED BY <1>1, <2>1 DEF Elems
<1>3. Elems(Tail(q)) = Elems(q) \ {Head(q)}
  <2>1. ASSUME NEW x \in Elems(Tail(q)) PROVE x \in Elems(q) /\ x # Head(q)
    <3>1. PICK i \in 1..(Len(q) - 1) : Tail(q)[i] = x
      BY <1>1, <2>1 DEF Elems
    <3>2. i + 1 \in 1..Len(q) /\ q[i + 1] = x /\ i + 1 # 1 /\ 1 \in 1..Len(q)
      BY <3>1, <1>1
    <3>. QED BY <3>2, <1>1 DEF Elems, Distinct
  <2>2. ASSUME NEW x \in Elems(q), x # Head(q) PROVE x \in Elems(Tail(q))
    <3>1. PICK i \in 1..Len(q) : q[i] = x
      BY <2>2 DEF Elems
    <3>2. i # 1
      BY <3>1, <2>2, <1>1
    <3>3. i - 1 \in 1..(Len(q) - 1) /\ (i - 1) + 1 = i
      BY <3>2, <1>1
    <3>4. Tail(q)[i - 1] = x
      BY <3>1, <3>3, <1>1
    <3>. QED BY <3>3, <3>4, <1>1 DEF Elems
  <2>. QED BY <2>1, <2>2
<1>4. Distinct(Tail(q))
  BY <1>1 DEF Distinct
<1>. QED BY <1>1, <1>2, <1>3, <1>4

LEMMA UnlinkedElems ==
  ASSUME NEW S, NEW q \in Seq(S), Distinct(q), NEW e \in Elems(q)
  PROVE  /\ Unlinked(q, e) \in Seq(S) /\ Distinct(Unlinked(q, e))
         /\ Elems(Unlinked(q, e)) = Elems(q) \ {e}
         /\ Len(Unlinked(q, e)) = Len(q) - 1
<1>. DEFINE k == CHOOSE i \in DOMAIN q : q[i] = e
            r == Unlinked(q, e)
            before == SubSeq(q, 1, k - 1)
            after == SubSeq(q, k + 1, Len(q))
<1>1. k \in 1..Len(q) /\ q[k] = e /\ Len(q) \in Nat
  <2>1. DOMAIN q = 1..Len(q) /\ Len(q) \in Nat
    OBVIOUS
  <2>2. \E i \in DOMAIN q : q[i] = e
    BY <2>1 DEF Elems
  <2>. QED BY <2>1, <2>2
<1>2. r = before \o after
  BY DEF Unlinked, RemoveAt
<1>3. before \in Seq(S) /\ Len(before) = k - 1 /\ \A i \in 1..(k - 1) : before[i] = q[i]
  BY <1>1
<1>4. /\ after \in Seq(S) /\ Len(after) = Len(q) - k
      /\ \A i \in 1..(Len(q) - k) : after[i] = q[i + k]
  BY <1>1
<1>. HIDE DEF k, r, before, after
<1>5. /\ r \in Seq(S) /\ Len(r) = Len(q) - 1
      /\ \A i \in 1..(k - 1) : r[i] = q[i]
      /\ \A i \in k..(Len(q) - 1) : r[i] = q[i + 1]
  <2>1. /\ r \in Seq(S) /\ Len(r) = Len(before) + Len(after)
        /\ \A i \in 1..Len(r) : r[i] = IF i <= Len(before) THEN before[i]
                                        ELSE after[i - Len(before)]
    <3>1. before \in Seq(S) /\ after \in Seq(S)
      BY <1>3, <1>4
    <3>2. /\ before \o after \in Seq(S)
          /\ Len(before \o after) = Len(before) + Len(after)
          /\ \A i \in 1..(Len(before) + Len(after)) :
               (before \o after)[i] = IF i <= Len(before) THEN before[i]
                                      ELSE after[i - Len(before)]
      BY <3>1, ConcatProperties, Zenon
    <3>. QED BY <1>2, <3>2, Zenon
  <2>2. Len(r) = Len(q) - 1
    BY <2>1, <1>1, <1>3, <1>4
  <2>3. ASSUME NEW i \in 1..(k - 1) PROVE r[i] = q[i]
    <3>1. i \in 1..Len(r) /\ i <= Len(before)
      BY <2>2, <1>1, <1>3
    <3>. QED BY <2>1, <3>1, <1>3
  <2>4. ASSUME NEW i \in k..(Len(q) - 1) PROVE r[i] = q[i + 1]
    <3>1. i \in 1..Len(r) /\ ~(i <= Len(before)) /\ i - Len(before) = i - (k - 1)
      BY <2>2, <1>1, <1>3
    <3>2. i - (k - 1) \in 1..(Len(q) - k) /\ (i - (k - 1)) + k = i + 1
      BY <1>1
    <3>. QED BY <2>1, <3>1, <3>2, <1>4
  <2>. QED BY <2>1, <2>2, <2>3, <2>4
<1>. DEFINE at(i) == IF i < k THEN i ELSE i + 1
<1>6. \A i \in 1..Len(r) : at(i) \in 1..Len(q) /\ at(i) # k /\ r[i] = q[at(i)]
  BY <1>1, <1>5
<1>7. \A i, j \in 1..Len(r) : at(i) = at(j) => i = j
  BY <1>1, <1>5
<1>8. \A j \in 1..Len(q) : j # k => \E i \in 1..Len(r) : at(i) = j
  <2>. TAKE j \in 1..Len(q)
  <2>. HAVE j # k
  <2>1. CASE j < k
    <3>1. j \in 1..Len(r) /\ at(j) = j BY <2>1, <1>1, <1>5
    <3>. QED BY <3>1
  <2>2. CASE j > k
    <3>1. j - 1 \in 1..Len(r) /\ at(j - 1) = j BY <2>2, <1>1, <1>5
    <3>. QED BY <3>1
  <2>. QED BY <2>1, <2>2, <1>1
<1>. HIDE DEF at
<1>9. Distinct(r)
  BY <1>6, <1>7 DEF Distinct
<1>10. Elems(r) = Elems(q) \ {e}
  <2>1. ASSUME NEW x \in Elems(r) PROVE x \in Elems(q) /\ x # e
    <3>1. PICK i \in 1..Len(r) : r[i] = x
      BY DEF Elems
    <3>. QED BY <3>1, <1>1, <1>6 DEF Elems, Distinct
  <2>2. ASSUME NEW x \in Elems(q), x # e PROVE x \in Elems(r)
    <3>1. PICK j \in 1..Len(q) : q[j] = x
      BY DEF Elems
    <3>2. PICK i \in 1..Len(r) : at(i) = j
      BY <3>1, <2>2, <1>1, <1>8
    <3>. QED BY <3>1, <3>2, <1>6 DEF Elems
  <2>. QED BY <2>1, <2>2
<1>. QED BY <1>5, <1>9, <1>10 DEF r

-------------------------------------------------------------------------------
(* The operations of the pool. *)

LEMMA SlotFacts ==
  /\ MaxPeers \in [Node -> Nat \ {0}]
  /\ \A n \in Node : NoSlot \notin Slot(n) /\ Slot(n) \subseteq Int
BY ServerAssumption DEF ServerAssumption, NoSlot, Slot

\* A peer keeps its address.
LEMMA PeerChanged ==
  ASSUME NEW n \in Node, NEW P, NEW U, NEW F, NEW M, PoolAt(n, P, U, F, M),
         NEW s \in Slot(n), NEW p, PeerOK(p), p.address = P[s].address,
         s \in Elems(U) \/ p.state = "zombie"
  PROVE  PoolAt(n, [P EXCEPT ![s] = p], U, F, M)
<1>. DEFINE Q == [P EXCEPT ![s] = p]
<1>1. DOMAIN Q = Slot(n) /\ \A t \in Slot(n) : Q[t] = IF t = s THEN p ELSE P[t]
  BY DEF PoolAt
<1>2. /\ \A t \in Slot(n) : PeerOK(Q[t]) /\ Q[t].address = P[t].address
      /\ Elems(U) \subseteq Slot(n) /\ Elems(F) \subseteq Slot(n)
  BY <1>1 DEF PoolAt
<1>3. \A t \in Elems(F) : Q[t].state = "zombie"
  BY <1>1, <1>2 DEF PoolAt
<1>. HIDE DEF Q
<1>4. \A t \in Elems(U) : M[Q[t].address] = t
  BY <1>2 DEF PoolAt
<1>5. \A m \in Node : M[m] # NoSlot => M[m] \in Elems(U) /\ Q[M[m]].address = m
  BY <1>2 DEF PoolAt
<1>. QED BY <1>1, <1>2, <1>3, <1>4, <1>5 DEF PoolAt

\* create_peer and add_peer_map, for an address that is new.
LEMMA PeerCreated ==
  ASSUME NEW n \in Node, NEW P, NEW U, NEW F, NEW M, PoolAt(n, P, U, F, M),
         NEW a \in Node, M[a] = NoSlot, F # <<>>,
         NEW p, PeerOK(p), p.address = a
  PROVE  LET s == Head(F)
         IN  PoolAt(n, [P EXCEPT ![s] = p], Append(U, s), Tail(F), [M EXCEPT ![a] = s])
<1>. DEFINE s == Head(F)
            Q == [P EXCEPT ![s] = p]
            N == [M EXCEPT ![a] = s]
            V == Append(U, s)
            G == Tail(F)
<1>1. /\ G \in Seq(Slot(n)) /\ Distinct(G) /\ s \in Elems(F)
      /\ Elems(G) = Elems(F) \ {s} /\ Len(G) = Len(F) - 1
  <2>. F \in Seq(Slot(n)) /\ Distinct(F) BY DEF PoolAt
  <2>. QED BY TailElems
<1>2. s \in Slot(n) /\ s \notin Elems(U)
  BY <1>1 DEF PoolAt
<1>3. /\ V \in Seq(Slot(n)) /\ Distinct(V)
      /\ Elems(V) = Elems(U) \cup {s} /\ Len(V) = Len(U) + 1
  <2>. U \in Seq(Slot(n)) /\ Distinct(U) BY DEF PoolAt
  <2>. QED BY <1>2, AppendedElems
<1>4. DOMAIN Q = Slot(n) /\ \A t \in Slot(n) : Q[t] = IF t = s THEN p ELSE P[t]
  BY <1>2 DEF PoolAt
<1>5. /\ N \in [Node -> Slot(n) \cup {NoSlot}]
      /\ \A m \in Node : N[m] = IF m = a THEN s ELSE M[m]
  BY <1>2 DEF PoolAt
<1>. HIDE DEF s, Q, N, V, G
<1>6. /\ Elems(V) \cap Elems(G) = {} /\ Elems(V) \cup Elems(G) = Slot(n)
      /\ Len(V) + Len(G) = MaxPeers[n]
  <2>1. Len(U) \in Nat /\ Len(F) \in Nat /\ Len(U) + Len(F) = MaxPeers[n]
    <3>. U \in Seq(Slot(n)) /\ F \in Seq(Slot(n)) /\ Len(U) + Len(F) = MaxPeers[n]
      BY DEF PoolAt
    <3>. QED OBVIOUS
  <2>2. Len(V) + Len(G) = MaxPeers[n]
    BY <2>1, <1>1, <1>3
  <2>3. Elems(U) \cap Elems(F) = {} /\ Elems(U) \cup Elems(F) = Slot(n)
    BY DEF PoolAt
  <2>. QED BY <2>2, <2>3, <1>1, <1>2, <1>3
<1>7. ASSUME NEW t \in Elems(V) PROVE N[Q[t].address] = t
  <2>1. CASE t = s
    BY <2>1, <1>2, <1>4, <1>5
  <2>2. CASE t # s
    <3>1. t \in Elems(U) /\ t \in Slot(n) /\ t # NoSlot
      BY <2>2, <1>3, SlotFacts DEF PoolAt
    <3>2. M[P[t].address] = t /\ P[t].address \in Node
      BY <3>1 DEF PoolAt, PeerOK
    <3>3. P[t].address # a
      BY <3>1, <3>2
    <3>. QED BY <2>2, <3>1, <3>2, <3>3, <1>4, <1>5
  <2>. QED BY <2>1, <2>2
<1>8. ASSUME NEW m \in Node, N[m] # NoSlot PROVE N[m] \in Elems(V) /\ Q[N[m]].address = m
  <2>1. CASE m = a
    BY <2>1, <1>2, <1>3, <1>4, <1>5
  <2>2. CASE m # a
    <3>1. M[m] \in Elems(U) /\ P[M[m]].address = m /\ N[m] = M[m]
      BY <2>2, <1>5, <1>8 DEF PoolAt
    <3>2. M[m] # s /\ M[m] \in Slot(n)
      BY <3>1, <1>2 DEF PoolAt
    <3>. QED BY <3>1, <3>2, <1>3, <1>4
  <2>. QED BY <2>1, <2>2
<1>9. \A t \in Elems(G) : Q[t].state = "zombie"
  BY <1>1, <1>4 DEF PoolAt
<1>10. \A t \in Slot(n) : PeerOK(Q[t])
  BY <1>4 DEF PoolAt
<1>. QED
  <2>. PoolAt(n, Q, V, G, N)
    BY <1>1, <1>3, <1>4, <1>5, <1>6, <1>7, <1>8, <1>9, <1>10 DEF PoolAt
  <2>. QED BY DEF s, Q, N, V, G

\* The same for an address that has a peer.
LEMMA PeerSetUpAgain ==
  ASSUME NEW n \in Node, NEW P, NEW U, NEW F, NEW M, PoolAt(n, P, U, F, M),
         NEW a \in Node, M[a] # NoSlot, NEW p, PeerOK(p), p.address = a
  PROVE  PoolAt(n, [P EXCEPT ![M[a]] = p], U, F, [M EXCEPT ![a] = M[a]])
<1>1. M[a] \in Elems(U) /\ M[a] \in Slot(n) /\ P[M[a]].address = a
  BY DEF PoolAt
<1>2. [M EXCEPT ![a] = M[a]] = M
  BY DEF PoolAt
<1>. QED BY <1>1, <1>2, PeerChanged

\* destroy_peer
LEMMA PeerDestroyed ==
  ASSUME NEW n \in Node, NEW P, NEW U, NEW F, NEW M, PoolAt(n, P, U, F, M),
         NEW s \in Elems(U), NEW p, PeerOK(p), p.state = "zombie"
  PROVE  PoolAt(n, [P EXCEPT ![s] = p], Unlinked(U, s), Append(F, s),
                [M EXCEPT ![P[s].address] = NoSlot])
<1>. DEFINE a == P[s].address
            Q == [P EXCEPT ![s] = p]
            N == [M EXCEPT ![a] = NoSlot]
            V == Unlinked(U, s)
            G == Append(F, s)
<1>1. s \in Slot(n) /\ s \notin Elems(F) /\ a \in Node /\ M[a] = s
  BY DEF PoolAt, PeerOK
<1>2. /\ V \in Seq(Slot(n)) /\ Distinct(V)
      /\ Elems(V) = Elems(U) \ {s} /\ Len(V) = Len(U) - 1
  <2>. U \in Seq(Slot(n)) /\ Distinct(U) BY DEF PoolAt
  <2>. QED BY UnlinkedElems
<1>3. /\ G \in Seq(Slot(n)) /\ Distinct(G)
      /\ Elems(G) = Elems(F) \cup {s} /\ Len(G) = Len(F) + 1
  <2>. F \in Seq(Slot(n)) /\ Distinct(F) BY DEF PoolAt
  <2>. QED BY <1>1, AppendedElems
<1>4. DOMAIN Q = Slot(n) /\ \A t \in Slot(n) : Q[t] = IF t = s THEN p ELSE P[t]
  BY <1>1 DEF PoolAt
<1>5. /\ N \in [Node -> Slot(n) \cup {NoSlot}]
      /\ \A m \in Node : N[m] = IF m = a THEN NoSlot ELSE M[m]
  BY <1>1 DEF PoolAt
<1>. HIDE DEF a, Q, N, V, G
<1>6. /\ Elems(V) \cap Elems(G) = {} /\ Elems(V) \cup Elems(G) = Slot(n)
      /\ Len(V) + Len(G) = MaxPeers[n]
  <2>1. Len(U) \in Nat /\ Len(F) \in Nat /\ Len(U) + Len(F) = MaxPeers[n]
    <3>. U \in Seq(Slot(n)) /\ F \in Seq(Slot(n)) /\ Len(U) + Len(F) = MaxPeers[n]
      BY DEF PoolAt
    <3>. QED OBVIOUS
  <2>2. Len(V) + Len(G) = MaxPeers[n]
    BY <2>1, <1>2, <1>3
  <2>3. Elems(U) \cap Elems(F) = {} /\ Elems(U) \cup Elems(F) = Slot(n)
    BY DEF PoolAt
  <2>. QED BY <2>2, <2>3, <1>1, <1>2, <1>3
<1>7. ASSUME NEW t \in Elems(V) PROVE N[Q[t].address] = t
  <2>1. t # s /\ t \in Elems(U) /\ t \in Slot(n)
    BY <1>2 DEF PoolAt
  <2>2. M[P[t].address] = t /\ P[t].address \in Node /\ P[t].address # a
    BY <2>1, <1>1 DEF PoolAt, PeerOK
  <2>. QED BY <2>1, <2>2, <1>4, <1>5
<1>8. ASSUME NEW m \in Node, N[m] # NoSlot PROVE N[m] \in Elems(V) /\ Q[N[m]].address = m
  <2>1. m # a /\ N[m] = M[m] /\ M[m] # NoSlot
    BY <1>5, <1>8
  <2>2. M[m] \in Elems(U) /\ P[M[m]].address = m /\ M[m] \in Slot(n)
    BY <2>1 DEF PoolAt
  <2>3. M[m] # s
    BY <2>1, <2>2 DEF a
  <2>. QED BY <2>1, <2>2, <2>3, <1>2, <1>4
<1>9. \A t \in Elems(G) : Q[t].state = "zombie"
  BY <1>1, <1>3, <1>4 DEF PoolAt
<1>10. \A t \in Slot(n) : PeerOK(Q[t])
  BY <1>4 DEF PoolAt
<1>. QED
  <2>. PoolAt(n, Q, V, G, N)
    BY <1>2, <1>3, <1>4, <1>5, <1>6, <1>7, <1>8, <1>9, <1>10 DEF PoolAt
  <2>. QED BY DEF a, Q, N, V, G

-------------------------------------------------------------------------------
(* The inductive invariant. *)

\* A request of host n names an address, and a slot unless it asks for a connection.
Requested(n) ==
  {r \in Request : r.type # "connect" => r.slot \in Slot(n)}

Hosts ==
  /\ peer = [n \in Node |-> peer[n]] /\ using_list = [n \in Node |-> using_list[n]]
  /\ free_list = [n \in Node |-> free_list[n]] /\ peer_map = [n \in Node |-> peer_map[n]]
  /\ \A n \in Node : PoolAt(n, peer[n], using_list[n], free_list[n], peer_map[n])

Requests ==
  /\ incoming_requests = [n \in Node |-> incoming_requests[n]]
  /\ \A n \in Node : incoming_requests[n] \in Seq(Requested(n))

Senders == \A d \in network : d.from \in Node

\* What an update pass has still to visit is in use.
Visits ==
  /\ DOMAIN service = {"node", "pass", "rest"}
  /\ service.pass = "update" =>
       /\ service.node \in Node
       /\ service.rest \in Seq(Slot(service.node)) /\ service.rest # <<>>
       /\ Distinct(service.rest)
       /\ Elems(service.rest) \subseteq Elems(using_list[service.node])

PoolInv == Hosts /\ Requests /\ Senders /\ Visits

\* One host changes, the others do not.
LEMMA HostChanged ==
  ASSUME Hosts, NEW n \in Node, NEW P, NEW U, NEW F, NEW M, PoolAt(n, P, U, F, M),
         peer' = [peer EXCEPT ![n] = P], using_list' = [using_list EXCEPT ![n] = U],
         free_list' = [free_list EXCEPT ![n] = F], peer_map' = [peer_map EXCEPT ![n] = M]
  PROVE  Hosts'
<1>1. /\ peer' = [m \in Node |-> peer'[m]] /\ using_list' = [m \in Node |-> using_list'[m]]
      /\ free_list' = [m \in Node |-> free_list'[m]]
      /\ peer_map' = [m \in Node |-> peer_map'[m]]
  BY DEF Hosts
<1>2. ASSUME NEW m \in Node
      PROVE  PoolAt(m, peer'[m], using_list'[m], free_list'[m], peer_map'[m])
  <2>1. CASE m = n
    <3>1. peer'[m] = P /\ using_list'[m] = U /\ free_list'[m] = F /\ peer_map'[m] = M
      BY <2>1 DEF Hosts
    <3>. QED BY <2>1, <3>1
  <2>2. CASE m # n
    <3>1. /\ peer'[m] = peer[m] /\ using_list'[m] = using_list[m]
          /\ free_list'[m] = free_list[m] /\ peer_map'[m] = peer_map[m]
      BY <2>2 DEF Hosts
    <3>. QED BY <3>1 DEF Hosts
  <2>. QED BY <2>1, <2>2
<1>. QED BY <1>1, <1>2 DEF Hosts

\* A live slot is in use.
LEMMA LiveInUse ==
  ASSUME Hosts, NEW n \in Node, NEW s \in Slot(n), Live(n, s)
  PROVE  s \in Elems(using_list[n])
<1>. PoolAt(n, peer[n], using_list[n], free_list[n], peer_map[n])
  BY DEF Hosts
<1>. QED BY DEF PoolAt, Live

PeerBecomes(n, s, p) ==
  peer' = [peer EXCEPT ![n][s] = p] /\ UNCHANGED <<using_list, free_list, peer_map>>

\* One peer changes and keeps its address.
LEMMA OnePeer ==
  ASSUME Hosts, NEW n \in Node, NEW s \in Slot(n), NEW p, PeerOK(p),
         p.address = peer[n][s].address,
         s \in Elems(using_list[n]) \/ p.state = "zombie",
         PeerBecomes(n, s, p)
  PROVE  Hosts'
<1>. DEFINE P == peer[n]
            Q == [P EXCEPT ![s] = p]
            U == using_list[n]
            F == free_list[n]
            M == peer_map[n]
<1>1. PoolAt(n, P, U, F, M)
  BY DEF Hosts
<1>2. /\ peer' = [peer EXCEPT ![n] = Q] /\ using_list' = [using_list EXCEPT ![n] = U]
      /\ free_list' = [free_list EXCEPT ![n] = F] /\ peer_map' = [peer_map EXCEPT ![n] = M]
  BY DEF Hosts, PeerBecomes
<1>. HIDE DEF P, U, F, M
<1>3. PoolAt(n, Q, U, F, M)
  BY <1>1, PeerChanged DEF P, U
<1>. HIDE DEF Q
<1>. QED BY <1>2, <1>3, HostChanged

LEMMA PeerOfHost ==
  ASSUME Hosts, NEW n \in Node, NEW s \in Slot(n)
  PROVE  PeerOK(peer[n][s])
BY DEF Hosts, PoolAt

\* The slot a connection gets is a slot of its host.
LEMMA SlotInPool ==
  ASSUME Hosts, NEW n \in Node, NEW a \in Node, HasSlotFor(n, a)
  PROVE  SlotFor(n, a) \in Slot(n)
<1>1. PoolAt(n, peer[n], using_list[n], free_list[n], peer_map[n])
  BY DEF Hosts
<1>2. CASE peer_map[n][a] # NoSlot
  BY <1>1, <1>2 DEF PoolAt, SlotFor
<1>3. CASE peer_map[n][a] = NoSlot
  <2>1. free_list[n] \in Seq(Slot(n)) /\ free_list[n] # <<>>
    BY <1>1, <1>3 DEF PoolAt, HasSlotFor
  <2>2. Head(free_list[n]) \in Slot(n)
    BY <2>1
  <2>. QED BY <1>3, <2>2 DEF SlotFor
<1>. QED BY <1>2, <1>3

\* exec_connect and handle_connection set up a peer for an address.
LEMMA SetUpKeepsHosts ==
  ASSUME Hosts, NEW n \in Node, NEW a \in Node, HasSlotFor(n, a),
         NEW p, PeerOK(p), p.address = a, SetUp(n, a, p)
  PROVE  Hosts'
<1>. DEFINE P == peer[n]
            U == using_list[n]
            F == free_list[n]
            M == peer_map[n]
            s == SlotFor(n, a)
<1>1. PoolAt(n, P, U, F, M)
  BY DEF Hosts
<1>2. /\ peer' = [peer EXCEPT ![n] = [P EXCEPT ![s] = p]]
      /\ peer_map' = [peer_map EXCEPT ![n] = [M EXCEPT ![a] = s]]
      /\ using_list' = [using_list EXCEPT ![n] = IF M[a] = NoSlot THEN Append(U, s) ELSE U]
      /\ free_list' = [free_list EXCEPT ![n] = IF M[a] = NoSlot THEN Tail(F) ELSE F]
  BY DEF SetUp, Hosts
<1>3. CASE M[a] = NoSlot
  <2>1. s = Head(F) /\ F # <<>>
    BY <1>3 DEF SlotFor, HasSlotFor
  <2>2. PoolAt(n, [P EXCEPT ![s] = p], Append(U, s), Tail(F), [M EXCEPT ![a] = s])
    <3>. HIDE DEF P, U, F, M, s
    <3>. QED BY <1>1, <1>3, <2>1, PeerCreated
  <2>3. /\ using_list' = [using_list EXCEPT ![n] = Append(U, s)]
        /\ free_list' = [free_list EXCEPT ![n] = Tail(F)]
    BY <1>2, <1>3
  <2>. HIDE DEF P, U, F, M, s
  <2>. QED BY <1>2, <2>2, <2>3, HostChanged
<1>4. CASE M[a] # NoSlot
  <2>1. s = M[a]
    BY <1>4 DEF SlotFor
  <2>2. PoolAt(n, [P EXCEPT ![s] = p], U, F, [M EXCEPT ![a] = s])
    <3>. HIDE DEF P, U, F, M, s
    <3>. QED BY <1>1, <1>4, <2>1, PeerSetUpAgain
  <2>3. /\ using_list' = [using_list EXCEPT ![n] = U]
        /\ free_list' = [free_list EXCEPT ![n] = F]
    BY <1>2, <1>4
  <2>. HIDE DEF P, U, F, M, s
  <2>. QED BY <1>2, <2>2, <2>3, HostChanged
<1>. QED BY <1>3, <1>4

LEMMA DestroyKeepsHosts ==
  ASSUME Hosts, NEW n \in Node, NEW s \in Elems(using_list[n]), Destroy(n, s)
  PROVE  /\ Hosts'
         /\ Elems(using_list'[n]) = Elems(using_list[n]) \ {s}
<1>. DEFINE P == peer[n]
            U == using_list[n]
            F == free_list[n]
            M == peer_map[n]
            p == Unused(P[s].address)
<1>1. PoolAt(n, P, U, F, M)
  BY DEF Hosts
<1>2. /\ peer' = [peer EXCEPT ![n] = [P EXCEPT ![s] = p]]
      /\ peer_map' = [peer_map EXCEPT ![n] = [M EXCEPT ![P[s].address] = NoSlot]]
      /\ using_list' = [using_list EXCEPT ![n] = Unlinked(U, s)]
      /\ free_list' = [free_list EXCEPT ![n] = Append(F, s)]
  BY DEF Destroy, Hosts
<1>3. PeerOK(p) /\ p.state = "zombie"
  <2>. s \in Slot(n) /\ PeerOK(P[s])
    BY <1>1 DEF PoolAt
  <2>. QED BY DEF PeerOK, Unused, Fields
<1>4. U \in Seq(Slot(n)) /\ Distinct(U)
  BY <1>1 DEF PoolAt
<1>. HIDE DEF P, U, F, M, p
<1>5. PoolAt(n, [P EXCEPT ![s] = p], Unlinked(U, s), Append(F, s),
             [M EXCEPT ![P[s].address] = NoSlot])
  BY <1>1, <1>3, PeerDestroyed DEF U
<1>6. Hosts'
  BY <1>2, <1>5, HostChanged
<1>7. Elems(Unlinked(U, s)) = Elems(U) \ {s}
  BY <1>4, UnlinkedElems DEF U
<1>8. using_list'[n] = Unlinked(U, s)
  BY <1>2 DEF Hosts
<1>. QED BY <1>6, <1>7, <1>8 DEF U

-------------------------------------------------------------------------------
(* What the operations on a peer leave alone. *)

LEMMA PeerOperations ==
  ASSUME NEW n \in Node, NEW p, PeerOK(p)
  PROVE  /\ \A seq : PeerOK(Released(p, seq)) /\ Released(p, seq).address = p.address
         /\ PeerOK(Channel(p)) /\ Channel(p).address = p.address
         /\ \A kind, src, ack, msg :
              PeerOK(Posted(n, p, kind, src, ack, msg))
              /\ Posted(n, p, kind, src, ack, msg).address = p.address
         /\ \A kind, src, ack :
              PeerOK(Remembered(n, p, kind, src, ack))
              /\ Remembered(n, p, kind, src, ack).address = p.address
         /\ \A k : PeerOK(Advanced(p, k)) /\ Advanced(p, k).address = p.address
                   /\ Advanced(p, k).state = p.state
                   /\ Advanced(p, k).queued = p.queued
<1>1. \A seq : PeerOK(Released(p, seq)) /\ Released(p, seq).address = p.address
  BY DEF PeerOK, Released, Fields
<1>2. PeerOK(Channel(p)) /\ Channel(p).address = p.address
  BY DEF PeerOK, Channel, Fields
<1>3. ASSUME NEW kind, NEW src, NEW ack, NEW msg
      PROVE  /\ PeerOK(Posted(n, p, kind, src, ack, msg))
             /\ Posted(n, p, kind, src, ack, msg).address = p.address
  <2>. DEFINE d == Packet(n, p, kind, src, ack, msg)
              q == Posted(n, p, kind, src, ack, msg)
  <2>1. d.from = n
    BY DEF Packet
  <2>2. q = [p EXCEPT !.queued = @ \cup {d}, !.outSeq = p.outSeq + 1]
    BY DEF Posted
  <2>. HIDE DEF d, q
  <2>3. DOMAIN q = Fields /\ q.address = p.address /\ q.queued = p.queued \cup {d}
    BY <2>2 DEF PeerOK, Fields
  <2>4. PeerOK(q) /\ q.address = p.address
    BY <2>1, <2>3 DEF PeerOK
  <2>. QED BY <2>4 DEF q
<1>4. ASSUME NEW kind, NEW src, NEW ack
      PROVE  /\ PeerOK(Remembered(n, p, kind, src, ack))
             /\ Remembered(n, p, kind, src, ack).address = p.address
  <2>. DEFINE q == Posted(n, p, kind, src, ack, [incarnation |-> p.incarnation, index |-> 0])
  <2>1. Remembered(n, p, kind, src, ack) = [q EXCEPT !.connSeq = p.outSeq]
    BY DEF Remembered
  <2>2. PeerOK(q) /\ q.address = p.address
    BY <1>3
  <2>. HIDE DEF q
  <2>. QED BY <2>1, <2>2 DEF PeerOK, Fields
<1>5. ASSUME NEW k
      PROVE  /\ PeerOK(Advanced(p, k)) /\ Advanced(p, k).address = p.address
             /\ Advanced(p, k).state = p.state /\ Advanced(p, k).queued = p.queued
  BY DEF PeerOK, Advanced, Fields
<1>. QED BY <1>1, <1>2, <1>3, <1>4, <1>5

-------------------------------------------------------------------------------
(* Every step keeps the invariant. *)

\* While the service is not in its update pass, nothing is left to visit.
LEMMA NothingToVisit ==
  ASSUME Visits, service' = service, service.pass # "update"
  PROVE  Visits'
BY DEF Visits

LEMMA SenderKnown ==
  ASSUME Senders, NEW n \in Node, NEW p, NEW seq, post_ack_packet(n, p, seq)
  PROVE  Senders'
BY DEF Senders, post_ack_packet, Packet

\* The peer a valid packet names.
LEMMA Addressed ==
  ASSUME Hosts, NEW n \in Node, NEW d, is_protocol_head_valid(n, d)
  PROVE  /\ d.peer \in Slot(n) /\ d.peer \in Elems(using_list[n])
         /\ PeerOK(peer[n][d.peer])
BY LiveInUse, PeerOfHost DEF is_protocol_head_valid

LEMMA PacketStep ==
  ASSUME PoolInv, NEW n \in Node, PacketPass(n)
  PROVE  PoolInv'
<1>. USE DEF PoolInv
<1>1. ASSUME NEW d \in network, handle_acknowledge(n, d)
      PROVE  PoolInv'
  <2>. DEFINE p == peer[n][d.peer]
              q(state) == [Released(p, d.ack) EXCEPT !.state = state]
  <2>1. /\ service' = service /\ service.pass = "packets" /\ is_protocol_head_valid(n, d)
        /\ UNCHANGED <<using_list, free_list, peer_map, incoming_requests, network>>
        /\ \E state : peer' = [peer EXCEPT ![n][d.peer] = q(state)]
    BY <1>1 DEF handle_acknowledge, Incoming
  <2>2. PICK state : PeerBecomes(n, d.peer, q(state))
    BY <2>1 DEF PeerBecomes
  <2>3. d.peer \in Slot(n) /\ d.peer \in Elems(using_list[n]) /\ PeerOK(p)
    BY <2>1, Addressed
  <2>4. PeerOK(q(state)) /\ q(state).address = p.address
    <3>1. PeerOK(Released(p, d.ack)) /\ Released(p, d.ack).address = p.address
      BY <2>3, PeerOperations
    <3>. QED BY <3>1 DEF PeerOK, Fields
  <2>5. Hosts'
    <3>. HIDE DEF q
    <3>. QED BY <2>2, <2>3, <2>4, OnePeer
  <2>. QED BY <2>1, <2>5, NothingToVisit DEF Requests, Senders
<1>2. ASSUME NEW d \in network, handle_connection(n, d)
      PROVE  PoolInv'
  <2>. DEFINE s == SlotFor(n, d.from)
              r == Channel(peer[n][s])
              p == [r EXCEPT
                      !.outPeer = d.src, !.session = d.session, !.address = d.from,
                      !.partner = d.msg.incarnation,
                      !.state = "connecting_ack", !.inSeq = d.seq + 1]
              q == Remembered(n, p, "verify", s, d.seq)
  <2>1. /\ service' = service /\ service.pass = "packets" /\ HasSlotFor(n, d.from)
        /\ SetUp(n, d.from, q)
        /\ UNCHANGED <<incoming_requests, network>>
    BY <1>2 DEF handle_connection, Incoming
  <2>2. d.from \in Node
    BY DEF Senders
  <2>3. s \in Slot(n)
    BY <2>1, <2>2, SlotInPool
  <2>4. PeerOK(r)
    BY <2>3, PeerOfHost, PeerOperations
  <2>5. PeerOK(p) /\ p.address = d.from
    <3>. HIDE DEF r
    <3>. QED BY <2>2, <2>4 DEF PeerOK, Fields
  <2>6. PeerOK(q) /\ q.address = d.from
    <3>. HIDE DEF p
    <3>. QED BY <2>5, PeerOperations
  <2>7. Hosts'
    <3>. HIDE DEF q
    <3>. QED BY <2>1, <2>2, <2>6, SetUpKeepsHosts
  <2>. QED BY <2>1, <2>7, NothingToVisit DEF Requests, Senders
<1>3. ASSUME NEW d \in network, handle_connection_refused(n, d)
      PROVE  PoolInv'
  <2>1. /\ UNCHANGED <<peer, using_list, free_list, peer_map, incoming_requests, network>>
        /\ service' = [service EXCEPT !.pass = "idle"]
    BY <1>3 DEF handle_connection_refused, poolVars
  <2>2. Visits'
    BY <2>1 DEF Visits
  <2>. QED BY <2>1, <2>2 DEF Hosts, Requests, Senders
<1>4. ASSUME NEW d \in network, handle_verify_connection(n, d)
      PROVE  PoolInv'
  <2>. DEFINE p == peer[n][d.peer]
              r == Released(p, d.ack)
              q == [r EXCEPT !.outPeer = d.src, !.state = "connected",
                      !.partner = d.msg.incarnation,
                      !.inSeq = IF @ <= d.seq THEN d.seq + 1 ELSE @]
  <2>1. /\ service' = service /\ service.pass = "packets" /\ is_protocol_head_valid(n, d)
        /\ UNCHANGED <<using_list, free_list, peer_map, incoming_requests>>
        /\ \E o : post_ack_packet(n, o, d.seq)
        /\ peer' = peer \/ peer' = [peer EXCEPT ![n][d.peer] = q]
    <3>. HIDE DEF r
    <3>1. \/ peer' = peer /\ post_ack_packet(n, p, d.seq)
          \/ peer' = [peer EXCEPT ![n][d.peer] = q] /\ post_ack_packet(n, q, d.seq)
      BY <1>4 DEF handle_verify_connection, r
    <3>2. /\ service' = service /\ service.pass = "packets" /\ is_protocol_head_valid(n, d)
          /\ UNCHANGED <<using_list, free_list, peer_map, incoming_requests>>
      BY <1>4 DEF handle_verify_connection, Incoming
    <3>. HIDE DEF p, q
    <3>. QED BY <3>1, <3>2
  <2>2. d.peer \in Slot(n) /\ d.peer \in Elems(using_list[n]) /\ PeerOK(p)
    BY <2>1, Addressed
  <2>3. PeerOK(q) /\ q.address = p.address
    <3>1. PeerOK(r) /\ r.address = p.address
      BY <2>2, PeerOperations
    <3>. HIDE DEF r, p
    <3>. QED BY <3>1 DEF PeerOK, Fields
  <2>4. Hosts'
    <3>1. CASE peer' = peer
      BY <2>1, <3>1 DEF Hosts
    <3>2. CASE peer' = [peer EXCEPT ![n][d.peer] = q]
      <4>1. PeerBecomes(n, d.peer, q)
        BY <2>1, <3>2 DEF PeerBecomes
      <4>. HIDE DEF q
      <4>. QED BY <2>2, <2>3, <4>1, OnePeer
    <3>. QED BY <2>1, <3>1, <3>2
  <2>. QED BY <2>1, <2>4, NothingToVisit, SenderKnown DEF Requests
<1>5. ASSUME NEW d \in network, handle_disconnected(n, d)
      PROVE  PoolInv'
  <2>. DEFINE p == peer[n][d.peer]
              q == [p EXCEPT !.state = "disconnected"]
  <2>1. /\ service' = service /\ service.pass = "packets" /\ is_protocol_head_valid(n, d)
        /\ UNCHANGED <<using_list, free_list, peer_map, incoming_requests>>
        /\ post_ack_packet(n, p, d.seq)
        /\ peer' = [peer EXCEPT ![n][d.peer] = q]
    BY <1>5 DEF handle_disconnected, Incoming
  <2>2. d.peer \in Slot(n) /\ d.peer \in Elems(using_list[n]) /\ PeerOK(p)
    BY <2>1, Addressed
  <2>3. PeerOK(q) /\ q.address = p.address
    BY <2>2 DEF PeerOK, Fields
  <2>4. PeerBecomes(n, d.peer, q)
    BY <2>1 DEF PeerBecomes
  <2>5. Hosts'
    <3>. HIDE DEF q
    <3>. QED BY <2>2, <2>3, <2>4, OnePeer
  <2>. QED BY <2>1, <2>5, NothingToVisit, SenderKnown DEF Requests
<1>6. ASSUME NEW d \in network, handle_recieve_reliable(n, d)
      PROVE  PoolInv'
  <2>. DEFINE p == peer[n][d.peer]
              q == [p EXCEPT !.inSeq = @ + 1, !.got = Append(@, d.msg)]
              r == [p EXCEPT !.early = @ \cup {d}]
  <2>1. /\ service' = service /\ service.pass = "packets" /\ is_protocol_head_valid(n, d)
        /\ UNCHANGED <<using_list, free_list, peer_map, incoming_requests>>
        /\ post_ack_packet(n, p, d.seq)
        /\ \/ peer' = peer \/ peer' = [peer EXCEPT ![n][d.peer] = q]
           \/ peer' = [peer EXCEPT ![n][d.peer] = r]
    BY <1>6 DEF handle_recieve_reliable, Incoming
  <2>2. d.peer \in Slot(n) /\ d.peer \in Elems(using_list[n]) /\ PeerOK(p)
    BY <2>1, Addressed
  <2>3. PeerOK(q) /\ q.address = p.address /\ PeerOK(r) /\ r.address = p.address
    BY <2>2 DEF PeerOK, Fields
  <2>. HIDE DEF q, r
  <2>4. ASSUME NEW o \in {q, r}, peer' = [peer EXCEPT ![n][d.peer] = o]
        PROVE  Hosts'
    <3>1. PeerBecomes(n, d.peer, o)
      BY <2>1, <2>4 DEF PeerBecomes
    <3>2. PeerOK(o) /\ o.address = p.address
      BY <2>3
    <3>. QED BY <2>2, <3>1, <3>2, OnePeer
  <2>5. peer' = peer => Hosts'
    BY <2>1 DEF Hosts
  <2>6. Hosts'
    BY <2>1, <2>4, <2>5
  <2>. QED BY <2>1, <2>6, NothingToVisit, SenderKnown DEF Requests
<1>7. ASSUME do_handle_incoming_packets_end(n)
      PROVE  PoolInv'
  <2>1. /\ UNCHANGED <<peer, using_list, free_list, peer_map, incoming_requests, network>>
        /\ service' = [service EXCEPT !.pass = "requests"]
    BY <1>7 DEF do_handle_incoming_packets_end, poolVars
  <2>2. Visits'
    BY <2>1 DEF Visits
  <2>. QED BY <2>1, <2>2 DEF Hosts, Requests, Senders
<1>. QED BY <1>1, <1>2, <1>3, <1>4, <1>5, <1>6, <1>7 DEF PacketPass

\* A request leaves the queue: it is one the host was asked.
LEMMA Executed ==
  ASSUME PoolInv, NEW n \in Node, NEW type, Executing(n, type)
  PROVE  /\ Requests' /\ Head(incoming_requests[n]) \in Requested(n)
         /\ Head(incoming_requests[n]).type = type
         /\ service' = service /\ service.pass = "requests" /\ network' = network
<1>1. incoming_requests[n] \in Seq(Requested(n)) /\ incoming_requests[n] # <<>>
  BY DEF PoolInv, Requests, Executing
<1>2. /\ Tail(incoming_requests[n]) \in Seq(Requested(n))
      /\ Head(incoming_requests[n]) \in Requested(n)
  BY <1>1
<1>3. incoming_requests' = [incoming_requests EXCEPT ![n] = Tail(incoming_requests[n])]
  BY DEF Executing, PoolInv, Requests
<1>4. Requests'
  BY <1>2, <1>3 DEF PoolInv, Requests, Requested
<1>. QED BY <1>2, <1>4 DEF Executing

LEMMA RequestStep ==
  ASSUME PoolInv, NEW n \in Node, RequestPass(n)
  PROVE  PoolInv'
<1>. DEFINE R == Head(incoming_requests[n])
<1>0. ASSUME NEW type, Executing(n, type), Hosts'
      PROVE  PoolInv'
  BY <1>0, Executed, NothingToVisit DEF PoolInv, Senders
<1>1. CASE exec_connect(n)
  <2>. DEFINE s == SlotFor(n, R.address)
              r == Channel(peer[n][s])
              p == [r EXCEPT !.address = R.address, !.outPeer = 0, !.state = "connecting",
                      !.session = SessionOf(n, R.address)]
              q == Remembered(n, p, "connection", s, NoSlot)
  <2>1. /\ Executing(n, "connect")
        /\ \/ UNCHANGED poolVars
           \/ HasSlotFor(n, R.address) /\ SetUp(n, R.address, q)
    BY <1>1 DEF exec_connect
  <2>2. R.address \in Node
    BY <2>1, Executed DEF Requested, Request
  <2>3. Hosts
    BY DEF PoolInv
  <2>. HIDE DEF R
  <2>4. CASE UNCHANGED poolVars
    <3>1. Hosts'
      BY <2>3, <2>4 DEF Hosts, poolVars
    <3>. QED BY <1>0, <2>1, <3>1
  <2>5. CASE HasSlotFor(n, R.address) /\ SetUp(n, R.address, q)
    <3>1. PeerOK(r)
      <4>1. s \in Slot(n)
        BY <2>2, <2>3, <2>5, SlotInPool
      <4>. QED BY <2>3, <4>1, PeerOfHost, PeerOperations
    <3>2. PeerOK(p) /\ p.address = R.address
      <4>. HIDE DEF r
      <4>. QED BY <2>2, <3>1 DEF PeerOK, Fields
    <3>3. PeerOK(q) /\ q.address = R.address
      <4>. HIDE DEF p
      <4>. QED BY <3>2, PeerOperations
    <3>4. Hosts'
      <4>. HIDE DEF q
      <4>. QED BY <2>2, <2>3, <2>5, <3>3, SetUpKeepsHosts
    <3>. QED BY <1>0, <2>1, <3>4
  <2>. QED BY <2>1, <2>4, <2>5
<1>2. CASE exec_dropped(n)
  <2>1. Hosts'
    BY <1>2 DEF exec_dropped, PoolInv, Hosts, poolVars
  <2>. QED BY <1>0, <1>2, <2>1 DEF exec_dropped
<1>3. CASE exec_send_reliable(n)
  <2>. DEFINE p == peer[n][R.slot]
              q == Posted(n, p, "data", NoSlot, NoSlot,
                          [incarnation |-> p.incarnation, index |-> p.outSeq])
  <2>1. Executing(n, "send") /\ Live(n, R.slot) /\ PeerBecomes(n, R.slot, q)
    BY <1>3 DEF exec_send_reliable, PeerBecomes
  <2>2. R.slot \in Slot(n) /\ Hosts
    BY <2>1, Executed DEF Requested, PoolInv
  <2>. HIDE DEF R
  <2>3. R.slot \in Elems(using_list[n]) /\ PeerOK(p)
    BY <2>1, <2>2, LiveInUse, PeerOfHost
  <2>4. PeerOK(q) /\ q.address = p.address
    <3>. HIDE DEF p
    <3>. QED BY <2>3, PeerOperations
  <2>5. Hosts'
    <3>. HIDE DEF q
    <3>. QED BY <2>1, <2>2, <2>3, <2>4, OnePeer
  <2>. QED BY <1>0, <2>1, <2>5
<1>4. CASE exec_disconnect(n)
  <2>. DEFINE p == peer[n][R.slot]
              r == [p EXCEPT !.state = "disconnecting"]
              q == Remembered(n, r, "disconnection", NoSlot, NoSlot)
  <2>1. Executing(n, "disconnect") /\ Live(n, R.slot)
    BY <1>4 DEF exec_disconnect
  <2>2. R.slot \in Slot(n) /\ Hosts
    BY <2>1, Executed DEF Requested, PoolInv
  <2>3. PeerBecomes(n, R.slot, q)
    BY <1>4, <2>2 DEF exec_disconnect, PeerBecomes, Hosts, PoolAt
  <2>. HIDE DEF R
  <2>4. R.slot \in Elems(using_list[n]) /\ PeerOK(p)
    BY <2>1, <2>2, LiveInUse, PeerOfHost
  <2>5. PeerOK(r) /\ r.address = p.address
    <3>. HIDE DEF p
    <3>. QED BY <2>4 DEF PeerOK, Fields
  <2>6. PeerOK(q) /\ q.address = p.address
    <3>. HIDE DEF p, r
    <3>. QED BY <2>5, PeerOperations
  <2>7. Hosts'
    <3>. HIDE DEF q
    <3>. QED BY <2>2, <2>3, <2>4, <2>6, OnePeer
  <2>. QED BY <1>0, <2>1, <2>7
<1>5. CASE exec_reset(n)
  <2>1. PICK type \in {"disconnected", "connect_fail"} : Executing(n, type)
    BY <1>5 DEF exec_reset
  <2>2. R.slot \in Slot(n) /\ Hosts
    BY <2>1, Executed DEF Requested, PoolInv
  <2>3. IF Live(n, R.slot) THEN Destroy(n, R.slot) ELSE UNCHANGED poolVars
    BY <1>5 DEF exec_reset
  <2>. HIDE DEF R
  <2>4. CASE Live(n, R.slot)
    <3>1. R.slot \in Elems(using_list[n]) /\ Destroy(n, R.slot)
      BY <2>2, <2>3, <2>4, LiveInUse
    <3>2. Hosts'
      BY <2>2, <3>1, DestroyKeepsHosts
    <3>. QED BY <1>0, <2>1, <3>2
  <2>5. CASE ~Live(n, R.slot)
    <3>1. Hosts'
      BY <2>2, <2>3, <2>5 DEF Hosts, poolVars
    <3>. QED BY <1>0, <2>1, <3>1
  <2>. QED BY <2>4, <2>5
<1>6. CASE do_exec_user_requests_end(n)
  <2>. DEFINE U == using_list[n]
  <2>1. /\ UNCHANGED <<peer, using_list, free_list, peer_map, incoming_requests, network>>
        /\ service.node = n
        /\ service' = IF U = <<>> THEN [service EXCEPT !.pass = "idle"]
                      ELSE [service EXCEPT !.pass = "update", !.rest = U]
    BY <1>6 DEF do_exec_user_requests_end, poolVars
  <2>2. U \in Seq(Slot(n)) /\ Distinct(U)
    BY DEF PoolInv, Hosts, PoolAt
  <2>3. DOMAIN service = {"node", "pass", "rest"} /\ using_list'[n] = U
    BY <2>1 DEF PoolInv, Visits
  <2>. HIDE DEF U
  <2>4. CASE U = <<>>
    <3>1. service' = [service EXCEPT !.pass = "idle"]
      BY <2>1, <2>4
    <3>. QED BY <2>1, <3>1 DEF PoolInv, Hosts, Requests, Senders, Visits
  <2>5. CASE U # <<>>
    <3>1. service' = [service EXCEPT !.pass = "update", !.rest = U]
      BY <2>1, <2>5
    <3>2. DOMAIN service' = {"node", "pass", "rest"} /\ service'.node = n /\ service'.rest = U
      BY <2>1, <2>3, <3>1
    <3>3. Visits'
      BY <2>2, <2>3, <2>5, <3>2 DEF Visits
    <3>. QED BY <2>1, <3>3 DEF PoolInv, Hosts, Requests, Senders
  <2>. QED BY <2>4, <2>5
<1>. QED BY <1>1, <1>2, <1>3, <1>4, <1>5, <1>6 DEF RequestPass

\* A pass visits a peer in use and goes on with peers in use.
LEMMA Visited ==
  ASSUME PoolInv, NEW n \in Node, Updating(n)
  PROVE  LET s == Head(service.rest)
         IN  /\ s \in Slot(n) /\ s \in Elems(using_list[n])
             /\ \/ using_list' = using_list
                \/ Elems(using_list'[n]) = Elems(using_list[n]) \ {s}
                => Visits'
<1>. DEFINE s == Head(service.rest)
            rest == service.rest
<1>1. /\ rest \in Seq(Slot(n)) /\ rest # <<>> /\ Distinct(rest) /\ n = service.node
      /\ Elems(rest) \subseteq Elems(using_list[n])
      /\ DOMAIN service = {"node", "pass", "rest"}
  BY DEF Updating, PoolInv, Visits
<1>2. service' = [service EXCEPT !.rest = Tail(rest),
                                 !.pass = IF Len(rest) = 1 THEN "idle" ELSE @]
  BY DEF Updating
<1>. HIDE DEF rest
<1>3. /\ Tail(rest) \in Seq(Slot(n)) /\ Distinct(Tail(rest)) /\ s \in Elems(rest)
      /\ Elems(Tail(rest)) = Elems(rest) \ {s} /\ Len(Tail(rest)) = Len(rest) - 1
  BY <1>1, TailElems DEF rest
<1>4. s \in Slot(n) /\ s \in Elems(using_list[n])
  <2>1. s \in Elems(using_list[n])
    BY <1>1, <1>3
  <2>2. Elems(using_list[n]) \subseteq Slot(n)
    BY DEF PoolInv, Hosts, PoolAt
  <2>. QED BY <2>1, <2>2
<1>5. ASSUME \/ using_list' = using_list
             \/ Elems(using_list'[n]) = Elems(using_list[n]) \ {s}
      PROVE  Visits'
  <2>1. CASE Len(rest) = 1
    BY <1>1, <1>2, <2>1 DEF Visits
  <2>2. CASE Len(rest) # 1
    <3>1. /\ DOMAIN service' = {"node", "pass", "rest"}
          /\ service'.node = n /\ service'.rest = Tail(rest)
      BY <1>1, <1>2
    <3>2. Tail(rest) # <<>>
      <4>1. Len(rest) \in Nat /\ Len(rest) # 0
        BY <1>1
      <4>2. Len(Tail(rest)) # 0
        BY <1>3, <2>2, <4>1
      <4>. QED BY <1>3, <4>2, EmptySeq, Zenon
    <3>3. Elems(Tail(rest)) \subseteq Elems(using_list'[n])
      BY <1>1, <1>3, <1>5
    <3>. QED BY <1>3, <3>1, <3>2, <3>3 DEF Visits
  <2>. QED BY <2>1, <2>2
<1>. QED BY <1>4, <1>5

\* post_request keeps the queue well formed.
LEMMA Asks ==
  ASSUME Requests, NEW n \in Node, NEW r \in Requested(n), post_request(n, r)
  PROVE  Requests'
<1>1. Append(incoming_requests[n], r) \in Seq(Requested(n))
  BY DEF Requests
<1>2. incoming_requests' = [incoming_requests EXCEPT ![n] = Append(incoming_requests[n], r)]
  BY DEF post_request, Requests
<1>. QED BY <1>1, <1>2 DEF Requests, Requested

LEMMA RequestedOfSlot ==
  ASSUME Hosts, NEW n \in Node, NEW s \in Slot(n)
  PROVE  /\ \A type \in {"send", "disconnect", "disconnected", "connect_fail"} :
              Notice(type, s, peer[n][s].address) \in Requested(n)
         /\ NowRequest(n, s) \in Requested(n)
<1>1. peer[n][s].address \in Node
  BY PeerOfHost DEF PeerOK
<1>2. s \in AnySlot
  BY DEF AnySlot
<1>3. \A type \in {"send", "disconnect", "disconnected", "connect_fail"} :
        Notice(type, s, peer[n][s].address) \in Requested(n)
  BY <1>1, <1>2 DEF Requested, Request, Notice
<1>. QED BY <1>3 DEF NowRequest

LEMMA UpdateStep ==
  ASSUME PoolInv, NEW n \in Node, UpdatePass(n)
  PROVE  PoolInv'
<1>. DEFINE s == Head(service.rest)
            p == peer[n][s]
<1>0. Hosts /\ Requests /\ Senders
  BY DEF PoolInv
<1>1. CASE update(n)
  <2>. DEFINE k == Len(Ready(p))
              r == Advanced(p, k)
              q == [r EXCEPT !.state = IF @ = "disconnected" THEN "zombie" ELSE @,
                             !.waiting = @ \cup p.queued, !.queued = {}]
  <2>1. Updating(n) /\ PeerBecomes(n, s, q)
        /\ network' = network \cup p.queued
        /\ UNCHANGED <<using_list, incoming_requests>>
    BY <1>1 DEF update, PeerBecomes
  <2>2. s \in Slot(n) /\ s \in Elems(using_list[n]) /\ Visits'
    BY <2>1, Visited
  <2>. HIDE DEF s
  <2>3. PeerOK(p)
    BY <1>0, <2>2, PeerOfHost
  <2>. HIDE DEF p
  <2>4. PeerOK(r) /\ r.address = p.address
    BY <2>3, PeerOperations
  <2>5. PeerOK(q) /\ q.address = p.address
    <3>. HIDE DEF r
    <3>. QED BY <2>4 DEF PeerOK, Fields
  <2>. HIDE DEF q
  <2>6. Hosts'
    BY <1>0, <2>1, <2>2, <2>5, OnePeer DEF p
  <2>7. Senders'
    BY <1>0, <2>1, <2>3 DEF Senders, PeerOK
  <2>8. Requests'
    BY <1>0, <2>1 DEF Requests
  <2>. QED BY <2>2, <2>6, <2>7, <2>8 DEF PoolInv
<1>2. CASE update_fail(n)
  <2>1. Updating(n) /\ Destroy(n, s) /\ post_request(n, NowRequest(n, s))
        /\ network' = network
    BY <1>2 DEF update_fail
  <2>2. /\ s \in Slot(n) /\ s \in Elems(using_list[n])
        /\ Elems(using_list'[n]) = Elems(using_list[n]) \ {s} => Visits'
    BY <2>1, Visited
  <2>. HIDE DEF s
  <2>3. Hosts' /\ Elems(using_list'[n]) = Elems(using_list[n]) \ {s}
    BY <1>0, <2>1, <2>2, DestroyKeepsHosts
  <2>4. Requests'
    BY <1>0, <2>1, <2>2, RequestedOfSlot, Asks
  <2>. QED BY <1>0, <2>1, <2>2, <2>3, <2>4 DEF PoolInv, Senders
<1>3. CASE update_crash(n)
  <2>1. /\ UNCHANGED <<peer, using_list, free_list, peer_map, incoming_requests, network>>
        /\ service' = [service EXCEPT !.pass = "idle"]
    BY <1>3 DEF update_crash, poolVars
  <2>2. Visits'
    BY <2>1 DEF PoolInv, Visits
  <2>. QED BY <1>0, <2>1, <2>2 DEF PoolInv, Hosts, Requests, Senders
<1>. QED BY <1>1, <1>2, <1>3 DEF UpdatePass

LEMMA UserStep ==
  ASSUME PoolInv, NEW n \in Node, User(n)
  PROVE  PoolInv'
<1>1. ASSUME NEW call, NEW bound, Calling(n, call, bound), Requests'
      PROVE  PoolInv'
  <2>. UNCHANGED <<peer, using_list, free_list, peer_map, service, network>>
    BY <1>1 DEF Calling, poolVars
  <2>. QED BY <1>1 DEF PoolInv, Hosts, Senders, Visits
<1>2. Hosts /\ Requests
  BY DEF PoolInv
<1>3. ASSUME NEW m \in Node, post_connect(n, m)
      PROVE  PoolInv'
  <2>1. Notice("connect", NoSlot, m) \in Requested(n)
    BY DEF Notice, Requested, Request
  <2>. QED BY <1>1, <1>2, <1>3, <2>1, Asks DEF post_connect
<1>4. ASSUME NEW s \in Slot(n), post_send_reliable(n, s)
      PROVE  PoolInv'
  BY <1>1, <1>2, <1>4, RequestedOfSlot, Asks DEF post_send_reliable
<1>5. ASSUME NEW s \in Slot(n), post_disconnect(n, s)
      PROVE  PoolInv'
  BY <1>1, <1>2, <1>5, RequestedOfSlot, Asks DEF post_disconnect
<1>6. ASSUME NEW s \in Slot(n), post_disconnect_now(n, s)
      PROVE  PoolInv'
  BY <1>1, <1>2, <1>6, RequestedOfSlot, Asks DEF post_disconnect_now
<1>. QED BY <1>3, <1>4, <1>5, <1>6 DEF User

LEMMA PoolInvInit ==
  ASSUME Init
  PROVE  PoolInv
<1>1. ASSUME NEW n \in Node
      PROVE  PoolAt(n, peer[n], using_list[n], free_list[n], peer_map[n])
  <2>. DEFINE F == [i \in 1..MaxPeers[n] |-> i - 1]
  <2>1. /\ peer[n] = [s \in Slot(n) |-> Unused(n)] /\ using_list[n] = <<>>
        /\ free_list[n] = F /\ peer_map[n] = [m \in Node |-> NoSlot]
    BY DEF Init
  <2>2. MaxPeers[n] \in Nat
    BY SlotFacts
  <2>3. /\ F \in Seq(Slot(n)) /\ Len(F) = MaxPeers[n]
        /\ \A i \in 1..Len(F) : F[i] = i - 1
    BY <2>2 DEF Slot
  <2>. HIDE DEF F
  <2>4. Distinct(F) /\ Elems(F) = Slot(n)
    <3>1. Distinct(F)
      BY <2>2, <2>3 DEF Distinct
    <3>2. ASSUME NEW s \in Slot(n) PROVE s \in Elems(F)
      <4>1. s + 1 \in 1..Len(F) /\ F[s + 1] = s
        BY <2>2, <2>3 DEF Slot
      <4>. QED BY <4>1 DEF Elems
    <3>. QED BY <2>3, <3>1, <3>2, ElemsIn
  <2>5. Elems(<<>>) = {} /\ Distinct(<<>>) /\ <<>> \in Seq(Slot(n)) /\ Len(<<>>) = 0
    BY DEF Elems, Distinct
  <2>6. PeerOK(Unused(n)) /\ Unused(n).state = "zombie"
    BY DEF PeerOK, Unused, Fields
  <2>7. DOMAIN peer[n] = Slot(n) /\ \A s \in Slot(n) : peer[n][s] = Unused(n)
    BY <2>1
  <2>8. /\ peer_map[n] \in [Node -> Slot(n) \cup {NoSlot}]
        /\ \A m \in Node : peer_map[n][m] = NoSlot
    BY <2>1
  <2>. QED BY <2>1, <2>2, <2>3, <2>4, <2>5, <2>6, <2>7, <2>8 DEF PoolAt
<1>2. Hosts
  BY <1>1 DEF Init, Hosts
<1>3. Requests /\ Senders /\ Visits
  BY DEF Init, Requests, Senders, Visits
<1>. QED BY <1>2, <1>3 DEF PoolInv

-------------------------------------------------------------------------------
LEMMA PoolHolds == Spec => []PoolInv
<1>1. Init => PoolInv
  BY PoolInvInit
<1>2. PoolInv /\ [Next]_vars => PoolInv'
  <2>. SUFFICES ASSUME PoolInv, [Next]_vars PROVE PoolInv'
    OBVIOUS
  <2>1. ASSUME NEW n \in Node, Service(n) PROVE PoolInv'
    <3>1. CASE do_service(n)
      <4>1. /\ UNCHANGED <<peer, using_list, free_list, peer_map, incoming_requests, network>>
            /\ service'= [node |-> n, pass |-> "packets", rest |-> <<>>]
        BY <3>1 DEF do_service, poolVars
      <4>. QED BY <4>1 DEF PoolInv, Hosts, Requests, Senders, Visits
    <3>. QED BY <2>1, <3>1, PacketStep, RequestStep, UpdateStep DEF Service
  <2>2. CASE UNCHANGED vars
    BY <2>2 DEF vars, poolVars, PoolInv, Hosts, Requests, Senders, Visits
  <2>. QED BY <2>1, <2>2, UserStep DEF Next
<1>. QED BY <1>1, <1>2, PTL DEF Spec

LEMMA PoolAgrees == PoolInv => PoolExact
<1>. SUFFICES ASSUME PoolInv, NEW n \in Node
              PROVE  LET U == using_list[n]
                         F == free_list[n]
                         used == {U[i] : i \in DOMAIN U}
                         free == {F[i] : i \in DOMAIN F}
                     IN  /\ used \cup free = Slot(n) /\ used \cap free = {}
                         /\ Len(U) + Len(F) = MaxPeers[n]
                         /\ \A s \in used : peer_map[n][peer[n][s].address] = s
                         /\ \A m \in Node : peer_map[n][m] # NoSlot => peer_map[n][m] \in used
                         /\ \A s \in free : ~Live(n, s)
  BY DEF PoolExact
<1>1. PoolAt(n, peer[n], using_list[n], free_list[n], peer_map[n])
  BY DEF PoolInv, Hosts
<1>2. /\ {using_list[n][i] : i \in DOMAIN using_list[n]} = Elems(using_list[n])
      /\ {free_list[n][i] : i \in DOMAIN free_list[n]} = Elems(free_list[n])
  BY <1>1 DEF PoolAt, Elems
<1>. QED BY <1>1, <1>2 DEF PoolAt, Live

\* Whatever the servers are asked and whatever packets arrive, in any order and any
\* number of times, each slot of a host is in one of its lists, once; a slot in use is
\* the one its address maps to; a free one is a zombie.
THEOREM PoolIsExact == Spec => []PoolExact
BY PoolAgrees, PoolHolds, PTL

-------------------------------------------------------------------------------
(* The handshake.  What the packets and the peers of an accepting node say of *)
(* each other: the number 0 is that of a verify packet, so the ack of 0 means *)
(* that the other side got one of that session.                               *)

Acceptor == Node \ Connectors

Heard(session, H) == \E h \in H : h.session = session

\* A message of the peer of that incarnation, with its position.
Nth(incarnation, i) == [incarnation |-> incarnation, index |-> i]

\* Its first k messages.
Told(incarnation, k) == [i \in 1..k |-> Nth(incarnation, i)]

\* A packet of node n.
SentBy(n, d) ==
  /\ d.seq \in Nat
  /\ d.kind = "connection" => n \in Connectors /\ d.seq = 0
  /\ n \in Acceptor /\ d.seq = 0 => d.kind \in {"verify", "ack"}
  /\ PatientUser /\ d.to \in Acceptor =>
       /\ d.kind = "connection" => d.msg.incarnation = d.session
       /\ d.kind = "data" => d.msg = Nth(d.session, d.seq)

\* What the peer of an accepting node has delivered and keeps for later.
Listens(p) ==
  /\ p.partner = p.session
  /\ p.state # "zombie" => p.inSeq # 0
  /\ p.got = Told(p.session, p.inSeq - 1)
  /\ \A d \in p.early : d.seq \in Nat /\ d.msg = Nth(p.session, d.seq)

\* The peer of an accepting node.
Accepts(p, H) ==
  /\ p.state # "connecting"
  /\ p.state # "zombie" => p.outSeq # 0
  /\ p.state = "connecting_ack" => p.connSeq = 0
  /\ p.state = "connected" => Heard(p.session, H)
  /\ PatientUser => Listens(p)

\* The packets a peer has still to send are packets of its node.
Sends(n, p) == \A d \in p.queued : d.from = n /\ SentBy(n, d) /\ d.kind # "ack"

Speaks(n, p, H) ==
  /\ p.outSeq \in Nat /\ p.inSeq \in Nat /\ IsFiniteSet(p.early)
  /\ Sends(n, p)
  /\ PatientUser /\ p.address \in Acceptor => p.session = p.incarnation
  /\ n \in Acceptor => Accepts(p, H)

Peers == \A n \in Node : \A s \in Slot(n) : Speaks(n, peer[n][s], heard)

\* The ack of 0 that an accepting node gets is that of a verify packet.
Travels(d, H) ==
  /\ SentBy(d.from, d)
  /\ d.kind = "ack" /\ d.to \in Acceptor /\ d.ack = 0 => Heard(d.session, H)

Traffic == \A d \in network : Travels(d, heard)

\* Only a connecting node asks for connections; a patient user for one at a time.
Attempting(n, Q, M) ==
  \A i \in 1..Len(Q) : Q[i].type = "connect" =>
    /\ n \in Connectors
    /\ PatientUser =>
         /\ Q[i].address \in Acceptor => M[Q[i].address] = NoSlot
         /\ \A j \in 1..Len(Q) : Q[j].type = "connect" => j = i

Attempts == \A n \in Node : Attempting(n, incoming_requests[n], peer_map[n])

HandshakeInv == Peers /\ Traffic /\ Attempts

LEMMA LeastNatural ==
  ASSUME NEW T \in SUBSET Nat, T # {}
  PROVE  \E x \in T : \A y \in T : x <= y
<1>. DEFINE R == OpToRel(<, Nat)
<1>1. IsWellFoundedOn(R, Nat)
  BY NatLessThanWellFounded
<1>2. \A x, y \in Nat : y < x => <<y, x>> \in R
  BY DEF OpToRel
<1>. HIDE DEF R
<1>3. PICK x \in T : \A y \in T : ~ (<<y, x>> \in R)
  BY <1>1, WFMin
<1>4. ASSUME NEW y \in T PROVE x <= y
  <2>1. x \in Nat /\ y \in Nat
    OBVIOUS
  <2>2. ~(y < x)
    BY <1>2, <1>3, <2>1, Zenon
  <2>. QED BY <2>1, <2>2
<1>. QED BY <1>4

\* The packets that are ready are early ones, in the order of their numbers.
LEMMA ReadyInOrder ==
  ASSUME NEW p, p.inSeq \in Nat, IsFiniteSet(p.early)
  PROVE  /\ Len(Ready(p)) \in Nat
         /\ \A i \in 1..Len(Ready(p)) :
              Ready(p)[i] \in p.early /\ Ready(p)[i].seq = p.inSeq + i - 1
<1>. DEFINE c == Cardinality(p.early)
            Gap(k) == Early(p, p.inSeq + k) = {}
            Fits(k) == Gap(k) /\ \A i \in 0..(k - 1) : ~Gap(i)
            first == CHOOSE k \in 0..c : Fits(k)
            chosen(i) == CHOOSE d \in Early(p, p.inSeq + i - 1) : TRUE
<1>1. c \in Nat
  BY FS_CardinalityType
<1>2. \E k \in 0..c : Gap(k)
  <2>. SUFFICES ASSUME \A k \in 0..c : ~Gap(k) PROVE FALSE
    OBVIOUS
  <2>. DEFINE f == [k \in 0..c |-> CHOOSE d : d \in Early(p, p.inSeq + k)]
  <2>1. \A k \in 0..c : f[k] \in Early(p, p.inSeq + k)
    OBVIOUS
  <2>2. \A k \in 0..c : f[k] \in p.early /\ f[k].seq = p.inSeq + k
    BY <2>1 DEF Early
  <2>3. f \in [0..c -> p.early]
    BY <2>2
  <2>4. IsFiniteSet(0..c) /\ Cardinality(0..c) = c + 1
    BY <1>1, FS_Interval
  <2>. HIDE DEF f, c
  <2>5. c < Cardinality(0..c)
    BY <1>1, <2>4
  <2>6. PICK x, y \in 0..c : x # y /\ f[x] = f[y]
    BY <2>3, <2>4, <2>5, FS_PigeonHole DEF c
  <2>. QED BY <2>2, <2>6, <1>1
<1>. HIDE DEF Gap, c
<1>3. \E k \in 0..c : Fits(k)
  <2>. DEFINE T == {k \in 0..c : Gap(k)}
  <2>1. T \in SUBSET Nat /\ T # {}
    BY <1>1, <1>2
  <2>2. PICK k \in T : \A y \in T : k <= y
    BY <2>1, LeastNatural
  <2>3. k \in 0..c /\ Gap(k)
    BY <2>2
  <2>4. ASSUME NEW i \in 0..(k - 1) PROVE ~Gap(i)
    <3>1. i \in 0..c /\ ~(k <= i)
      BY <1>1, <2>3
    <3>. QED BY <2>2, <3>1
  <2>. QED BY <2>3, <2>4
<1>4. first \in 0..c /\ Fits(first)
  BY <1>3
<1>5. Ready(p) = [i \in 1..first |-> chosen(i)]
  BY DEF Ready, Gap, c
<1>. HIDE DEF first
<1>6. ASSUME NEW i \in 1..first
      PROVE  chosen(i) \in p.early /\ chosen(i).seq = p.inSeq + i - 1
  <2>1. i - 1 \in 0..(first - 1) /\ p.inSeq + (i - 1) = p.inSeq + i - 1
    BY <1>1, <1>4
  <2>2. ~Gap(i - 1)
    BY <1>4, <2>1
  <2>3. Early(p, p.inSeq + i - 1) # {}
    BY <2>1, <2>2 DEF Gap
  <2>4. chosen(i) \in Early(p, p.inSeq + i - 1)
    BY <2>3
  <2>. QED BY <2>4 DEF Early
<1>. HIDE DEF chosen
<1>7. Len(Ready(p)) = first /\ \A i \in 1..first : Ready(p)[i] = chosen(i)
  BY <1>1, <1>4, <1>5
<1>. QED BY <1>1, <1>4, <1>6, <1>7

\* What the handshake sees of a peer, its state and the packets to send aside.
Alike(p, q) ==
  /\ q.outSeq = p.outSeq /\ q.inSeq = p.inSeq /\ q.address = p.address
  /\ q.session = p.session /\ q.incarnation = p.incarnation /\ q.connSeq = p.connSeq
  /\ q.partner = p.partner /\ q.got = p.got /\ q.early = p.early

LEMMA HeardGrows ==
  ASSUME NEW H, NEW G, H \subseteq G
  PROVE  /\ \A session : Heard(session, H) => Heard(session, G)
         /\ \A n, p : Speaks(n, p, H) => Speaks(n, p, G)
         /\ \A d : Travels(d, H) => Travels(d, G)
<1>1. \A session : Heard(session, H) => Heard(session, G)
  BY DEF Heard
<1>2. \A p : Accepts(p, H) => Accepts(p, G)
  BY <1>1 DEF Accepts
<1>. QED BY <1>1, <1>2 DEF Speaks, Travels

\* A peer that only changes its state, or has sent what it had to send.
LEMMA StateChanged ==
  ASSUME NEW n, NEW p, NEW q, NEW H, Speaks(n, p, H), Alike(p, q), q.queued \subseteq p.queued,
         n \in Acceptor =>
           /\ q.state # "connecting"
           /\ q.state # "zombie" => p.state # "zombie"
           /\ q.state = "connecting_ack" => p.state = "connecting_ack"
           /\ q.state = "connected" => Heard(p.session, H)
  PROVE  Speaks(n, q, H)
<1>1. q.outSeq \in Nat /\ q.inSeq \in Nat /\ IsFiniteSet(q.early)
  BY DEF Speaks, Alike
<1>2. Sends(n, q)
  BY DEF Speaks, Sends
<1>3. PatientUser /\ q.address \in Acceptor => q.session = q.incarnation
  BY DEF Speaks, Alike
<1>4. ASSUME n \in Acceptor PROVE Accepts(q, H)
  <2>1. Accepts(p, H)
    BY <1>4 DEF Speaks
  <2>2. ASSUME PatientUser PROVE Listens(q)
    <3>1. Listens(p)
      BY <2>1, <2>2 DEF Accepts
    <3>. QED BY <1>4, <3>1 DEF Listens, Alike
  <2>. QED BY <1>4, <2>1, <2>2 DEF Accepts, Alike
<1>. QED BY <1>1, <1>2, <1>3, <1>4 DEF Speaks

\* A live peer posts a packet.
LEMMA PacketPosted ==
  ASSUME NEW n, NEW p, NEW q, NEW d, NEW H, Speaks(n, p, H), p.state # "zombie",
         d.from = n, SentBy(n, d), d.kind # "ack",
         q.queued = p.queued \cup {d}, q.outSeq = p.outSeq + 1,
         q.inSeq = p.inSeq, q.address = p.address, q.session = p.session,
         q.incarnation = p.incarnation, q.partner = p.partner, q.got = p.got,
         q.early = p.early,
         \/ q.state = "disconnecting"
         \/ q.state = p.state /\ q.connSeq = p.connSeq
  PROVE  Speaks(n, q, H)
<1>1. p.outSeq \in Nat /\ q.outSeq \in Nat /\ q.outSeq # 0 /\ q.inSeq \in Nat
      /\ IsFiniteSet(q.early)
  BY DEF Speaks
<1>2. Sends(n, q)
  BY DEF Speaks, Sends
<1>3. PatientUser /\ q.address \in Acceptor => q.session = q.incarnation
  BY DEF Speaks
<1>4. ASSUME n \in Acceptor PROVE Accepts(q, H)
  <2>1. Accepts(p, H)
    BY <1>4 DEF Speaks
  <2>2. ASSUME PatientUser PROVE Listens(q)
    <3>1. Listens(p)
      BY <2>1, <2>2 DEF Accepts
    <3>. QED BY <3>1 DEF Listens
  <2>. QED BY <1>1, <2>1, <2>2 DEF Accepts
<1>. QED BY <1>1, <1>2, <1>3, <1>4 DEF Speaks

LEMMA ToldIsSeq ==
  ASSUME NEW k \in Nat, NEW session
  PROVE  /\ Told(session, k) \in Seq({Nth(session, i) : i \in Nat})
         /\ Len(Told(session, k)) = k
         /\ \A i \in 1..k : Told(session, k)[i] = Nth(session, i)
<1>. DEFINE S == {Nth(session, i) : i \in Nat}
<1>1. \A i \in Nat : Nth(session, i) \in S
  OBVIOUS
<1>. HIDE DEF S
<1>2. /\ Told(session, k) \in Seq(S) /\ Len(Told(session, k)) = k
      /\ \A i \in 1..k : Told(session, k)[i] = Nth(session, i)
  BY <1>1 DEF Told
<1>. QED BY <1>2 DEF S

\* What a peer has got is in order, and more in order is put behind it.
LEMMA OrderGrows ==
  ASSUME NEW a \in Nat, NEW k \in Nat, NEW session, NEW f,
         f = [i \in 1..k |-> f[i]], \A i \in 1..k : f[i] = Nth(session, a + i)
  PROVE  Told(session, a) \o f = Told(session, a + k)
<1>. DEFINE S == {Nth(session, i) : i \in Nat}
            g == Told(session, a)
            h == Told(session, a + k)
<1>1. g \in Seq(S) /\ Len(g) = a /\ \A i \in 1..a : g[i] = Nth(session, i)
  BY ToldIsSeq
<1>2. h \in Seq(S) /\ Len(h) = a + k /\ \A i \in 1..(a + k) : h[i] = Nth(session, i)
  <2>1. a + k \in Nat
    OBVIOUS
  <2>. QED BY <2>1, ToldIsSeq, Zenon
<1>3. \A i \in 1..k : f[i] \in S
  BY a + 0 \in Nat
<1>. HIDE DEF g, h, S
<1>4. f \in Seq(S) /\ Len(f) = k
  BY <1>3
<1>5. /\ g \o f \in Seq(S) /\ Len(g \o f) = a + k
      /\ \A i \in 1..(a + k) : (g \o f)[i] = IF i <= a THEN g[i] ELSE f[i - a]
  BY <1>1, <1>4
<1>6. ASSUME NEW i \in 1..(a + k) PROVE (g \o f)[i] = h[i]
  <2>1. CASE i <= a
    <3>1. i \in 1..a BY <2>1
    <3>. QED BY <1>1, <1>2, <1>5, <2>1, <3>1
  <2>2. CASE ~(i <= a)
    <3>1. i - a \in 1..k /\ a + (i - a) = i BY <2>2
    <3>. QED BY <1>2, <1>5, <2>2, <3>1
  <2>. QED BY <2>1, <2>2
<1>7. g \o f = h
  BY <1>2, <1>5, <1>6, SeqEqual
<1>. QED BY <1>7 DEF g, h

LEMMA OneMore ==
  ASSUME NEW k \in Nat, NEW session
  PROVE  Append(Told(session, k), Nth(session, k + 1)) = Told(session, k + 1)
<1>. DEFINE S == {Nth(session, i) : i \in Nat}
            g == Told(session, k)
            h == Told(session, k + 1)
            e == Nth(session, k + 1)
<1>1. g \in Seq(S) /\ Len(g) = k /\ \A i \in 1..k : g[i] = Nth(session, i)
  BY ToldIsSeq
<1>2. h \in Seq(S) /\ Len(h) = k + 1 /\ \A i \in 1..(k + 1) : h[i] = Nth(session, i)
  BY ToldIsSeq
<1>3. e \in S
  OBVIOUS
<1>. HIDE DEF g, h, e, S
<1>4. /\ Append(g, e) \in Seq(S) /\ Len(Append(g, e)) = k + 1
      /\ \A i \in 1..k : Append(g, e)[i] = g[i]
      /\ Append(g, e)[k + 1] = e
  BY <1>1, <1>3
<1>5. \A i \in 1..(k + 1) : Append(g, e)[i] = h[i]
  BY <1>1, <1>2, <1>4 DEF e
<1>6. Append(g, e) = h
  BY <1>2, <1>4, <1>5, SeqEqual
<1>. QED BY <1>6 DEF g, h, e

\* update_incoming_channel delivers what is ready.
LEMMA AdvancedListens ==
  ASSUME NEW p, PeerOK(p), p.inSeq \in Nat, IsFiniteSet(p.early), Listens(p),
         p.state # "zombie", NEW k, k = Len(Ready(p))
  PROVE  Listens(Advanced(p, k))
<1>. DEFINE q == Advanced(p, k)
            f == [i \in 1..k |-> Ready(p)[i].msg]
            a == p.inSeq - 1
<1>1. /\ k \in Nat
      /\ \A i \in 1..k : Ready(p)[i] \in p.early /\ Ready(p)[i].seq = p.inSeq + i - 1
  BY ReadyInOrder
<1>2. a \in Nat /\ p.inSeq = a + 1
  BY DEF Listens
<1>3. \A i \in 1..k : Ready(p)[i].msg = Nth(p.session, a + i)
  <2>. TAKE i \in 1..k
  <2>1. Ready(p)[i].msg = Nth(p.session, Ready(p)[i].seq)
    BY <1>1 DEF Listens
  <2>2. Ready(p)[i].seq = a + i
    BY <1>1, <1>2
  <2>. QED BY <2>1, <2>2
<1>4. f = [i \in 1..k |-> f[i]] /\ \A i \in 1..k : f[i] = Nth(p.session, a + i)
  BY <1>3
<1>5. /\ q.partner = p.partner /\ q.session = p.session /\ q.state = p.state
      /\ q.inSeq = p.inSeq + k /\ q.got = p.got \o f
      /\ q.early = {d \in p.early : d.seq >= p.inSeq + k}
  BY DEF PeerOK, Fields, Advanced
<1>. HIDE DEF q, f
<1>6. q.got = Told(q.session, q.inSeq - 1)
  <2>1. p.got = Told(p.session, a)
    BY DEF Listens
  <2>2. q.inSeq - 1 = a + k
    BY <1>1, <1>2, <1>5
  <2>. HIDE DEF a
  <2>3. p.got \o f = Told(p.session, a + k)
    <3>1. a \in Nat /\ k \in Nat
      BY <1>1, <1>2
    <3>2. Told(p.session, a) \o f = Told(p.session, a + k)
      BY <1>4, <3>1, OrderGrows, Zenon
    <3>. QED BY <2>1, <3>2, Zenon
  <2>. QED BY <1>5, <2>2, <2>3
<1>7. q.early \subseteq p.early
  BY <1>5
<1>9. q.inSeq # 0
  BY <1>1, <1>2, <1>5
<1>10. q.partner = q.session
  BY <1>5 DEF Listens
<1>11. \A d \in q.early : d.seq \in Nat /\ d.msg = Nth(q.session, d.seq)
  BY <1>5, <1>7 DEF Listens
<1>12. Listens(q)
  BY <1>6, <1>9, <1>10, <1>11 DEF Listens
<1>. QED BY <1>12 DEF q

-------------------------------------------------------------------------------
(* Every step keeps the handshake. *)

\* One peer changes, and the others hear no less.
LEMMA OneSpeaks ==
  ASSUME Hosts, Peers, NEW n \in Node, NEW s \in Slot(n), NEW p,
         Speaks(n, p, heard'), heard \subseteq heard', peer' = [peer EXCEPT ![n][s] = p]
  PROVE  Peers'
<1>1. ASSUME NEW m \in Node, NEW t \in Slot(m) PROVE Speaks(m, peer'[m][t], heard')
  <2>1. /\ peer' = [peer EXCEPT ![n] = [peer[n] EXCEPT ![s] = p]]
        /\ DOMAIN peer[n] = Slot(n) /\ DOMAIN peer = Node
    BY DEF Hosts, PoolAt
  <2>2. CASE m = n /\ t = s
    <3>1. peer'[m][t] = p
      BY <2>1, <2>2
    <3>. QED BY <2>2, <3>1
  <2>3. CASE ~(m = n /\ t = s)
    <3>1. peer'[m][t] = peer[m][t]
      BY <2>1, <2>3
    <3>2. Speaks(m, peer[m][t], heard)
      BY DEF Peers
    <3>. QED BY <3>1, <3>2, HeardGrows
  <2>. QED BY <2>2, <2>3
<1>. QED BY <1>1 DEF Peers

\* New packets join those sent before.
LEMMA TrafficGrows ==
  ASSUME Traffic, heard \subseteq heard', NEW D, network' = network \cup D,
         \A d \in D : Travels(d, heard')
  PROVE  Traffic'
<1>1. \A d \in network : Travels(d, heard')
  BY HeardGrows DEF Traffic
<1>. QED BY <1>1 DEF Traffic

\* The ack of a packet goes back to the node that sent it.
LEMMA Acked ==
  ASSUME Traffic, heard \subseteq heard', NEW n \in Node, NEW d \in network, NEW p,
         post_ack_packet(n, p, d.seq), p.address = d.from, p.session = d.session,
         d.kind # "ack", d.kind = "verify" => Heard(d.session, heard')
  PROVE  Traffic'
<1>. DEFINE a == Packet(n, p, "ack", NoSlot, d.seq, NoMessage)
<1>1. /\ a.kind = "ack" /\ a.from = n /\ a.to = d.from /\ a.session = d.session
      /\ a.seq = 0 /\ a.ack = d.seq
  BY DEF Packet
<1>2. network' = network \cup {a}
  BY DEF post_ack_packet
<1>. HIDE DEF a
<1>3. SentBy(d.from, d)
  BY DEF Traffic, Travels
<1>4. SentBy(n, a)
  BY <1>1 DEF SentBy
<1>5. Travels(a, heard')
  BY <1>1, <1>3, <1>4 DEF Travels, SentBy
<1>. DEFINE D == {a}
<1>6. network' = network \cup D /\ \A e \in D : Travels(e, heard')
  BY <1>2, <1>5
<1>. HIDE DEF D
<1>. QED BY <1>6, TrafficGrows

\* The queue is left alone, and no address of an accepting node gets a peer.
LEMMA AttemptsStay ==
  ASSUME Attempts, incoming_requests' = incoming_requests,
         \A m \in Node : \A a \in Acceptor :
           peer_map[m][a] = NoSlot => peer_map'[m][a] = NoSlot
  PROVE  Attempts'
BY DEF Attempts, Attempting

\* The queue of one host changes.
LEMMA AttemptsOf ==
  ASSUME Attempts, NEW n \in Node, Attempting(n, incoming_requests'[n], peer_map'[n]),
         \A m \in Node \ {n} : /\ incoming_requests'[m] = incoming_requests[m]
                               /\ peer_map'[m] = peer_map[m]
  PROVE  Attempts'
<1>1. ASSUME NEW m \in Node PROVE Attempting(m, incoming_requests'[m], peer_map'[m])
  <2>1. CASE m = n BY <2>1
  <2>2. CASE m # n BY <2>2 DEF Attempts
  <2>. QED BY <2>1, <2>2
<1>. QED BY <1>1 DEF Attempts

\* The first request is taken; the others are not for connections when it was one.
LEMMA AttemptingOn ==
  ASSUME NEW n, NEW S, NEW Q \in Seq(S), Q # <<>>, NEW M, NEW N, Attempting(n, Q, M),
         \/ Head(Q).type = "connect"
         \/ \A a \in Acceptor : M[a] = NoSlot => N[a] = NoSlot
  PROVE  Attempting(n, Tail(Q), N)
<1>. DEFINE T == Tail(Q)
<1>1. /\ Len(Q) \in Nat /\ Len(T) = Len(Q) - 1 /\ Head(Q) = Q[1] /\ 1 \in 1..Len(Q)
      /\ \A i \in 1..Len(T) : T[i] = Q[i + 1] /\ i + 1 \in 1..Len(Q)
  OBVIOUS
<1>. HIDE DEF T
<1>2. ASSUME NEW i \in 1..Len(T), T[i].type = "connect"
      PROVE  /\ n \in Connectors
             /\ PatientUser =>
                  /\ T[i].address \in Acceptor => N[T[i].address] = NoSlot
                  /\ \A j \in 1..Len(T) : T[j].type = "connect" => j = i
  <2>1. i + 1 \in 1..Len(Q) /\ Q[i + 1] = T[i] /\ i + 1 # 1
    BY <1>1
  <2>2. n \in Connectors
    BY <1>2, <2>1 DEF Attempting
  <2>3. ASSUME PatientUser
        PROVE  /\ T[i].address \in Acceptor => N[T[i].address] = NoSlot
               /\ \A j \in 1..Len(T) : T[j].type = "connect" => j = i
    <3>1. /\ Q[i + 1].address \in Acceptor => M[Q[i + 1].address] = NoSlot
          /\ \A j \in 1..Len(Q) : Q[j].type = "connect" => j = i + 1
      BY <1>2, <2>1, <2>3 DEF Attempting
    <3>2. Head(Q).type # "connect"
      BY <1>1, <2>1, <3>1
    <3>3. ASSUME NEW j \in 1..Len(T), T[j].type = "connect" PROVE j = i
      <4>1. j + 1 = i + 1
        BY <1>1, <3>1, <3>3
      <4>. QED BY <4>1, <1>1
    <3>. QED BY <2>1, <3>1, <3>2, <3>3
  <2>. QED BY <2>2, <2>3
<1>3. Attempting(n, T, N)
  BY <1>2 DEF Attempting
<1>. QED BY <1>3 DEF T

\* A request is added; one for a connection by a patient user comes alone.
LEMMA AttemptingMore ==
  ASSUME NEW n, NEW S, NEW Q \in Seq(S), NEW r \in S, NEW M, NEW N, Attempting(n, Q, M),
         \A a \in Acceptor : M[a] = NoSlot => N[a] = NoSlot,
         r.type = "connect" =>
           /\ n \in Connectors
           /\ PatientUser =>
                /\ N[r.address] = NoSlot
                /\ \A i \in 1..Len(Q) : Q[i].type # "connect"
  PROVE  Attempting(n, Append(Q, r), N)
<1>. DEFINE T == Append(Q, r)
<1>1. /\ Len(Q) \in Nat /\ Len(T) = Len(Q) + 1 /\ T[Len(Q) + 1] = r
      /\ \A i \in 1..Len(Q) : T[i] = Q[i]
      /\ \A i \in 1..Len(T) : i \in 1..Len(Q) \/ i = Len(Q) + 1
  OBVIOUS
<1>. HIDE DEF T
<1>2. ASSUME NEW i \in 1..Len(T), T[i].type = "connect"
      PROVE  /\ n \in Connectors
             /\ PatientUser =>
                  /\ T[i].address \in Acceptor => N[T[i].address] = NoSlot
                  /\ \A j \in 1..Len(T) : T[j].type = "connect" => j = i
  <2>1. CASE i = Len(Q) + 1
    <3>1. T[i] = r
      BY <1>1, <2>1
    <3>2. PatientUser => \A j \in 1..Len(Q) : T[j].type # "connect"
      BY <1>1, <1>2, <3>1
    <3>. QED BY <1>1, <1>2, <2>1, <3>1, <3>2
  <2>2. CASE i \in 1..Len(Q)
    <3>1. T[i] = Q[i] /\ Q[i].type = "connect"
      BY <1>1, <1>2, <2>2
    <3>2. PatientUser => r.type # "connect"
      BY <2>2, <3>1
    <3>3. n \in Connectors
      BY <2>2, <3>1 DEF Attempting
    <3>4. ASSUME PatientUser
          PROVE  /\ T[i].address \in Acceptor => N[T[i].address] = NoSlot
                 /\ \A j \in 1..Len(Q) : Q[j].type = "connect" => j = i
      BY <2>2, <3>1, <3>4 DEF Attempting
    <3>. QED BY <1>1, <3>2, <3>3, <3>4
  <2>. QED BY <1>1, <2>1, <2>2
<1>3. Attempting(n, T, N)
  BY <1>2 DEF Attempting
<1>. QED BY <1>3 DEF T

\* A peer of an accepting node in Peers.
LEMMA PeerSpeaks ==
  ASSUME Peers, NEW n \in Node, NEW s \in Slot(n)
  PROVE  /\ Speaks(n, peer[n][s], heard)
         /\ n \in Acceptor => Accepts(peer[n][s], heard)
BY DEF Peers, Speaks

\* What a packet that arrives with a valid head tells of the peer it names.
LEMMA ValidHead ==
  ASSUME PoolInv, HandshakeInv, NEW n \in Node, NEW d \in network,
         is_protocol_head_valid(n, d)
  PROVE  /\ d.peer \in Slot(n) /\ PeerOK(peer[n][d.peer])
         /\ peer[n][d.peer].state # "zombie"
         /\ peer[n][d.peer].address = d.from /\ peer[n][d.peer].session = d.session
         /\ Speaks(n, peer[n][d.peer], heard)
         /\ n \in Acceptor => Accepts(peer[n][d.peer], heard)
         /\ SentBy(d.from, d) /\ Travels(d, heard)
<1>1. d.peer \in Slot(n) /\ PeerOK(peer[n][d.peer])
  BY Addressed DEF PoolInv
<1>2. /\ Speaks(n, peer[n][d.peer], heard)
      /\ n \in Acceptor => Accepts(peer[n][d.peer], heard)
  BY <1>1, PeerSpeaks DEF HandshakeInv
<1>3. SentBy(d.from, d) /\ Travels(d, heard)
  BY DEF HandshakeInv, Traffic, Travels
<1>. QED BY <1>1, <1>2, <1>3 DEF is_protocol_head_valid, Live

LEMMA AcknowledgeKeeps ==
  ASSUME PoolInv, HandshakeInv, NEW n \in Node, NEW d \in network, handle_acknowledge(n, d)
  PROVE  HandshakeInv'
<1>. DEFINE p == peer[n][d.peer]
            q(state) == [Released(p, d.ack) EXCEPT !.state = state]
<1>1. /\ d.to = n /\ d.kind = "ack" /\ is_protocol_head_valid(n, d)
      /\ UNCHANGED <<peer_map, incoming_requests, network, heard>>
  BY DEF handle_acknowledge, Incoming
<1>2. PICK state \in {"connected", "disconnected"} :
        /\ peer' = [peer EXCEPT ![n][d.peer] = q(state)]
        /\ state = "connected" =>
             \/ p.state = "connected"
             \/ p.state = "connecting_ack" /\ d.ack = p.connSeq
  BY DEF handle_acknowledge, AnswersHandshake
<1>3. /\ d.peer \in Slot(n) /\ PeerOK(p) /\ p.state # "zombie" /\ p.session = d.session
      /\ Speaks(n, p, heard) /\ (n \in Acceptor => Accepts(p, heard))
      /\ Travels(d, heard)
  BY <1>1, ValidHead
<1>4. Alike(p, q(state)) /\ q(state).queued = p.queued /\ q(state).state = state
  BY <1>3 DEF Alike, Released, PeerOK, Fields
<1>5. n \in Acceptor /\ state = "connected" => Heard(p.session, heard)
  BY <1>1, <1>2, <1>3 DEF Accepts, Travels
<1>. HIDE DEF p, q
<1>6. Speaks(n, q(state), heard)
  BY <1>2, <1>3, <1>4, <1>5, StateChanged
<1>7. Peers'
  BY <1>1, <1>2, <1>3, <1>6, OneSpeaks DEF PoolInv, HandshakeInv
<1>8. Traffic' /\ Attempts'
  BY <1>1 DEF HandshakeInv, Traffic, Attempts
<1>. QED BY <1>7, <1>8 DEF HandshakeInv

LEMMA ConnectionKeeps ==
  ASSUME PoolInv, HandshakeInv, NEW n \in Node, NEW d \in network, handle_connection(n, d)
  PROVE  HandshakeInv'
<1>. DEFINE s == SlotFor(n, d.from)
            r == Channel(peer[n][s])
            p == [r EXCEPT
                    !.outPeer = d.src, !.session = d.session, !.address = d.from,
                    !.partner = d.msg.incarnation,
                    !.state = "connecting_ack", !.inSeq = d.seq + 1]
            v == Packet(n, p, "verify", s, d.seq, [incarnation |-> p.incarnation, index |-> 0])
            o == Posted(n, p, "verify", s, d.seq, [incarnation |-> p.incarnation, index |-> 0])
            q == Remembered(n, p, "verify", s, d.seq)
<1>1. /\ d.to = n /\ d.kind = "connection" /\ HasSlotFor(n, d.from)
      /\ peer' = [peer EXCEPT ![n][s] = q]
      /\ peer_map' = [peer_map EXCEPT ![n][d.from] = s]
      /\ UNCHANGED <<incoming_requests, network, heard>>
  BY DEF handle_connection, Incoming, SetUp
<1>2. d.from \in Node /\ s \in Slot(n) /\ PeerOK(peer[n][s])
  <2>1. d.from \in Node /\ Hosts
    BY DEF PoolInv, Senders
  <2>. QED BY <1>1, <2>1, SlotInPool, PeerOfHost
<1>3. SentBy(d.from, d)
  BY DEF HandshakeInv, Traffic, Travels
<1>4. /\ DOMAIN r = Fields /\ r.queued = {} /\ r.early = {} /\ r.outSeq = 0
      /\ r.got = <<>>
  BY <1>2 DEF Channel, PeerOK, Fields
<1>. HIDE DEF r
<1>5. /\ DOMAIN p = Fields /\ p.queued = {} /\ p.early = {} /\ p.outSeq = 0
      /\ p.got = <<>> /\ p.session = d.session /\ p.address = d.from
      /\ p.partner = d.msg.incarnation /\ p.state = "connecting_ack" /\ p.inSeq = d.seq + 1
  BY <1>4 DEF Fields
<1>6. v.kind = "verify" /\ v.from = n /\ v.seq = 0
  BY <1>5 DEF Packet
<1>. HIDE DEF p
<1>7. o = [p EXCEPT !.queued = p.queued \cup {v}, !.outSeq = p.outSeq + 1]
  BY DEF Posted
<1>8. q = [o EXCEPT !.connSeq = p.outSeq]
  BY DEF Remembered
<1>. HIDE DEF o, q, v
<1>9. /\ DOMAIN o = Fields /\ o.queued = {v} /\ o.early = {} /\ o.outSeq = 1
      /\ o.got = <<>> /\ o.session = d.session /\ o.address = d.from
      /\ o.partner = d.msg.incarnation /\ o.state = "connecting_ack" /\ o.inSeq = d.seq + 1
  BY <1>5, <1>7 DEF Fields
<1>10. /\ q.queued = {v} /\ q.early = {} /\ q.outSeq = 1 /\ q.connSeq = 0
       /\ q.got = <<>> /\ q.session = d.session /\ q.address = d.from
       /\ q.partner = d.msg.incarnation /\ q.state = "connecting_ack"
       /\ q.inSeq = d.seq + 1
  BY <1>5, <1>8, <1>9 DEF Fields
<1>11. d.from \in Connectors /\ d.from \notin Acceptor /\ d.seq = 0
  BY <1>1, <1>3 DEF SentBy, Acceptor
<1>12. Sends(n, q)
  BY <1>6, <1>10 DEF Sends, SentBy
<1>13. ASSUME n \in Acceptor PROVE Accepts(q, heard)
  <2>1. ASSUME PatientUser PROVE Listens(q)
    <3>1. d.msg.incarnation = d.session
      BY <1>1, <1>3, <1>13, <2>1 DEF SentBy
    <3>2. q.inSeq - 1 = 0 /\ q.inSeq # 0
      BY <1>10, <1>11
    <3>3. Told(q.session, 0) = <<>>
      BY DEF Told
    <3>. QED BY <1>10, <3>1, <3>2, <3>3 DEF Listens
  <2>. QED BY <1>10, <2>1 DEF Accepts
<1>14. Speaks(n, q, heard)
  BY <1>10, <1>11, <1>12, <1>13, FS_EmptySet DEF Speaks
<1>15. Peers'
  BY <1>1, <1>2, <1>14, OneSpeaks DEF PoolInv, HandshakeInv
<1>16. Attempts'
  <2>1. ASSUME NEW m \in Node, NEW a \in Acceptor, peer_map[m][a] = NoSlot
        PROVE  peer_map'[m][a] = NoSlot
    <3>1. a # d.from
      BY <1>11
    <3>2. peer_map'[m][a] = peer_map[m][a]
      <4>. HIDE DEF s
      <4>1. /\ peer_map = [x \in Node |-> peer_map[x]]
            /\ peer_map[m] \in [Node -> Slot(m) \cup {NoSlot}] /\ a \in Node
        BY DEF PoolInv, Hosts, PoolAt, Acceptor
      <4>2. CASE m = n
        BY <1>1, <3>1, <4>1, <4>2
      <4>3. CASE m # n
        BY <1>1, <4>1, <4>3
      <4>. QED BY <4>2, <4>3
    <3>. QED BY <2>1, <3>2
  <2>. QED BY <1>1, <2>1, AttemptsStay DEF HandshakeInv
<1>17. Traffic'
  BY <1>1 DEF HandshakeInv, Traffic
<1>. QED BY <1>15, <1>16, <1>17 DEF HandshakeInv

LEMMA VerifyKeeps ==
  ASSUME PoolInv, HandshakeInv, NEW n \in Node, NEW d \in network,
         handle_verify_connection(n, d)
  PROVE  HandshakeInv'
<1>. DEFINE p == peer[n][d.peer]
            r == Released(p, d.ack)
            q == [r EXCEPT !.outPeer = d.src, !.state = "connected",
                    !.partner = d.msg.incarnation,
                    !.inSeq = IF @ <= d.seq THEN d.seq + 1 ELSE @]
            h == [session |-> d.session, incarnation |-> d.msg.incarnation]
<1>1. /\ d.kind = "verify" /\ is_protocol_head_valid(n, d)
      /\ UNCHANGED <<peer_map, incoming_requests>>
      /\ heard' = heard \cup {h}
  BY DEF handle_verify_connection, Incoming
<1>2. \/ /\ peer' = peer /\ post_ack_packet(n, p, d.seq)
      \/ /\ p.state = "connecting"
         /\ peer' = [peer EXCEPT ![n][d.peer] = q] /\ post_ack_packet(n, q, d.seq)
  BY DEF handle_verify_connection
<1>3. /\ d.peer \in Slot(n) /\ PeerOK(p) /\ p.address = d.from /\ p.session = d.session
      /\ Speaks(n, p, heard) /\ (n \in Acceptor => Accepts(p, heard))
      /\ SentBy(d.from, d)
  BY <1>1, ValidHead
<1>4. heard \subseteq heard' /\ Heard(d.session, heard')
  <2>1. h \in heard' /\ h.session = d.session
    BY <1>1
  <2>. QED BY <1>1, <2>1 DEF Heard
<1>5. /\ DOMAIN r = Fields /\ r.queued = p.queued /\ r.outSeq = p.outSeq
      /\ r.inSeq = p.inSeq /\ r.address = p.address /\ r.session = p.session
      /\ r.incarnation = p.incarnation /\ r.early = p.early
  BY <1>3 DEF Released, PeerOK, Fields
<1>. HIDE DEF r
<1>6. /\ q.queued = p.queued /\ q.outSeq = p.outSeq /\ q.address = p.address
      /\ q.session = p.session /\ q.incarnation = p.incarnation /\ q.early = p.early
      /\ q.inSeq = IF p.inSeq <= d.seq THEN d.seq + 1 ELSE p.inSeq
  BY <1>5 DEF Fields
<1>. HIDE DEF p, q
<1>7. Peers'
  <2>1. CASE peer' = peer
    BY <1>4, <2>1, HeardGrows DEF HandshakeInv, Peers
  <2>2. CASE p.state = "connecting" /\ peer' = [peer EXCEPT ![n][d.peer] = q]
    <3>1. n \notin Acceptor
      BY <1>3, <2>2 DEF Accepts
    <3>2. q.inSeq \in Nat /\ q.outSeq \in Nat /\ IsFiniteSet(q.early)
      BY <1>3, <1>6 DEF Speaks, SentBy
    <3>3. Sends(n, q)
      BY <1>3, <1>6 DEF Speaks, Sends
    <3>4. Speaks(n, q, heard')
      BY <1>3, <1>6, <3>1, <3>2, <3>3 DEF Speaks
    <3>. QED BY <1>3, <1>4, <2>2, <3>4, OneSpeaks DEF PoolInv, HandshakeInv
  <2>. QED BY <1>2, <2>1, <2>2
<1>8. Traffic'
  <2>1. PICK o \in {p, q} : post_ack_packet(n, o, d.seq)
    BY <1>2
  <2>2. o.address = d.from /\ o.session = d.session
    BY <1>3, <1>6
  <2>. QED BY <1>1, <1>4, <2>1, <2>2, Acked DEF HandshakeInv
<1>9. Attempts'
  BY <1>1 DEF HandshakeInv, Attempts
<1>. QED BY <1>7, <1>8, <1>9 DEF HandshakeInv

LEMMA DisconnectedKeeps ==
  ASSUME PoolInv, HandshakeInv, NEW n \in Node, NEW d \in network, handle_disconnected(n, d)
  PROVE  HandshakeInv'
<1>. DEFINE p == peer[n][d.peer]
            q == [p EXCEPT !.state = "disconnected"]
<1>1. /\ d.kind = "disconnection" /\ is_protocol_head_valid(n, d)
      /\ UNCHANGED <<peer_map, incoming_requests, heard>>
      /\ post_ack_packet(n, p, d.seq)
      /\ peer' = [peer EXCEPT ![n][d.peer] = q]
  BY DEF handle_disconnected, Incoming
<1>2. /\ d.peer \in Slot(n) /\ PeerOK(p) /\ p.address = d.from /\ p.session = d.session
      /\ p.state # "zombie" /\ Speaks(n, p, heard)
  BY <1>1, ValidHead
<1>3. Alike(p, q) /\ q.queued = p.queued /\ q.state = "disconnected"
  BY <1>2 DEF Alike, PeerOK, Fields
<1>. HIDE DEF p, q
<1>4. Speaks(n, q, heard)
  BY <1>2, <1>3, StateChanged
<1>5. Peers'
  BY <1>1, <1>2, <1>4, OneSpeaks DEF PoolInv, HandshakeInv
<1>6. Traffic'
  BY <1>1, <1>2, Acked DEF HandshakeInv
<1>7. Attempts'
  BY <1>1 DEF HandshakeInv, Attempts
<1>. QED BY <1>5, <1>6, <1>7 DEF HandshakeInv

LEMMA RecieveKeeps ==
  ASSUME PoolInv, HandshakeInv, NEW n \in Node, NEW d \in network,
         handle_recieve_reliable(n, d)
  PROVE  HandshakeInv'
<1>. DEFINE p == peer[n][d.peer]
            q == [p EXCEPT !.inSeq = @ + 1, !.got = Append(@, d.msg)]
            r == [p EXCEPT !.early = @ \cup {d}]
<1>1. /\ d.to = n /\ d.kind = "data" /\ is_protocol_head_valid(n, d)
      /\ UNCHANGED <<peer_map, incoming_requests, heard>>
      /\ post_ack_packet(n, p, d.seq)
  BY DEF handle_recieve_reliable, Incoming
<1>2. \/ peer' = peer
      \/ p.inSeq = d.seq /\ peer' = [peer EXCEPT ![n][d.peer] = q]
      \/ peer' = [peer EXCEPT ![n][d.peer] = r]
  BY DEF handle_recieve_reliable
<1>3. /\ d.peer \in Slot(n) /\ PeerOK(p) /\ p.address = d.from /\ p.session = d.session
      /\ p.state # "zombie" /\ SentBy(d.from, d)
      /\ Speaks(n, p, heard) /\ (n \in Acceptor => Accepts(p, heard))
  BY <1>1, ValidHead
<1>4. /\ q.queued = p.queued /\ q.outSeq = p.outSeq /\ q.inSeq = p.inSeq + 1
      /\ q.address = p.address /\ q.session = p.session /\ q.connSeq = p.connSeq
      /\ q.incarnation = p.incarnation /\ q.partner = p.partner /\ q.state = p.state
      /\ q.got = Append(p.got, d.msg) /\ q.early = p.early
  BY <1>3 DEF PeerOK, Fields
<1>5. /\ r.queued = p.queued /\ r.outSeq = p.outSeq /\ r.inSeq = p.inSeq
      /\ r.address = p.address /\ r.session = p.session /\ r.connSeq = p.connSeq
      /\ r.incarnation = p.incarnation /\ r.partner = p.partner /\ r.state = p.state
      /\ r.got = p.got /\ r.early = p.early \cup {d}
  BY <1>3 DEF PeerOK, Fields
<1>. HIDE DEF p, q, r
<1>6. n \in Acceptor /\ PatientUser => d.msg = Nth(p.session, d.seq) /\ d.seq \in Nat
  BY <1>1, <1>3 DEF SentBy
<1>7. ASSUME p.inSeq = d.seq PROVE Speaks(n, q, heard)
  <2>1. Sends(n, q) /\ q.outSeq \in Nat /\ q.inSeq \in Nat /\ IsFiniteSet(q.early)
    BY <1>3, <1>4 DEF Speaks, Sends
  <2>2. ASSUME n \in Acceptor, PatientUser PROVE Listens(q)
    <3>1. Listens(p) /\ p.inSeq \in Nat /\ p.inSeq # 0
      BY <1>3, <2>2 DEF Accepts, Listens, Speaks
    <3>. DEFINE k == p.inSeq - 1
    <3>2. k \in Nat /\ p.inSeq = k + 1 /\ q.inSeq - 1 = k + 1 /\ q.inSeq # 0
      BY <1>4, <3>1
    <3>3. p.got = Told(p.session, k)
      BY <3>1 DEF Listens
    <3>. HIDE DEF k
    <3>4. d.msg = Nth(p.session, k + 1)
      BY <1>6, <1>7, <2>2, <3>2
    <3>5. Append(Told(p.session, k), Nth(p.session, k + 1)) = Told(p.session, k + 1)
      BY <3>2, OneMore, Zenon
    <3>6. q.got = Told(q.session, q.inSeq - 1)
      BY <1>4, <3>2, <3>3, <3>4, <3>5
    <3>. QED BY <1>4, <3>1, <3>2, <3>6 DEF Listens
  <2>. QED BY <1>3, <1>4, <2>1, <2>2 DEF Speaks, Accepts
<1>8. Speaks(n, r, heard)
  <2>1. Sends(n, r) /\ r.outSeq \in Nat /\ r.inSeq \in Nat
    BY <1>3, <1>5 DEF Speaks, Sends
  <2>0. IsFiniteSet(r.early)
    BY <1>3, <1>5, FS_AddElement DEF Speaks
  <2>2. ASSUME n \in Acceptor, PatientUser PROVE Listens(r)
    <3>1. Listens(p)
      BY <1>3, <2>2 DEF Accepts
    <3>2. \A e \in r.early : e.seq \in Nat /\ e.msg = Nth(r.session, e.seq)
      BY <1>5, <1>6, <2>2, <3>1 DEF Listens
    <3>. QED BY <1>5, <3>1, <3>2 DEF Listens
  <2>. QED BY <1>3, <1>5, <2>0, <2>1, <2>2 DEF Speaks, Accepts
<1>9. Peers'
  <2>1. CASE peer' = peer
    BY <1>1, <2>1 DEF HandshakeInv, Peers
  <2>2. CASE p.inSeq = d.seq /\ peer' = [peer EXCEPT ![n][d.peer] = q]
    BY <1>1, <1>3, <1>7, <2>2, OneSpeaks DEF PoolInv, HandshakeInv
  <2>3. CASE peer' = [peer EXCEPT ![n][d.peer] = r]
    BY <1>1, <1>3, <1>8, <2>3, OneSpeaks DEF PoolInv, HandshakeInv
  <2>. QED BY <1>2, <2>1, <2>2, <2>3
<1>10. Traffic'
  BY <1>1, <1>3, Acked DEF HandshakeInv
<1>11. Attempts'
  BY <1>1 DEF HandshakeInv, Attempts
<1>. QED BY <1>9, <1>10, <1>11 DEF HandshakeInv

LEMMA PacketKeeps ==
  ASSUME PoolInv, HandshakeInv, NEW n \in Node, PacketPass(n)
  PROVE  HandshakeInv'
<1>1. ASSUME UNCHANGED <<peer, peer_map, incoming_requests, network, heard>>
      PROVE  HandshakeInv'
  BY <1>1 DEF HandshakeInv, Peers, Traffic, Attempts
<1>2. ASSUME NEW d \in network, handle_connection_refused(n, d)
      PROVE  HandshakeInv'
  BY <1>1, <1>2 DEF handle_connection_refused, poolVars
<1>3. CASE do_handle_incoming_packets_end(n)
  BY <1>1, <1>3 DEF do_handle_incoming_packets_end, poolVars
<1>. QED BY <1>2, <1>3, AcknowledgeKeeps, ConnectionKeeps, VerifyKeeps, DisconnectedKeeps,
            RecieveKeeps DEF PacketPass

\* A request is taken from the queue of its host.
LEMMA Taken ==
  ASSUME PoolInv, HandshakeInv, NEW n \in Node, NEW type, Executing(n, type)
  PROVE  /\ heard' = heard /\ Traffic'
         /\ /\ \A m \in Node \ {n} : peer_map'[m] = peer_map[m]
            /\ \/ type = "connect"
               \/ \A a \in Acceptor : peer_map[n][a] = NoSlot => peer_map'[n][a] = NoSlot
            => Attempts'
<1>1. heard' = heard /\ network' = network
  BY DEF Executing
<1>2. Traffic'
  BY <1>1 DEF HandshakeInv, Traffic
<1>3. ASSUME \A m \in Node \ {n} : peer_map'[m] = peer_map[m],
             \/ type = "connect"
             \/ \A a \in Acceptor : peer_map[n][a] = NoSlot => peer_map'[n][a] = NoSlot
      PROVE  Attempts'
  <2>. DEFINE Q == incoming_requests[n]
  <2>1. /\ Q \in Seq(Requested(n)) /\ Q # <<>> /\ Head(Q).type = type
        /\ incoming_requests' = [incoming_requests EXCEPT ![n] = Tail(Q)]
        /\ incoming_requests = [m \in Node |-> incoming_requests[m]]
    BY DEF PoolInv, Requests, Executing
  <2>2. Attempting(n, Q, peer_map[n])
    BY DEF HandshakeInv, Attempts
  <2>3. /\ incoming_requests'[n] = Tail(Q)
        /\ \A m \in Node \ {n} : incoming_requests'[m] = incoming_requests[m]
    BY <2>1
  <2>. HIDE DEF Q
  <2>4. Attempting(n, Tail(Q), peer_map'[n])
    BY <1>3, <2>1, <2>2, AttemptingOn
  <2>. QED BY <1>3, <2>3, <2>4, AttemptsOf DEF HandshakeInv
<1>. QED BY <1>1, <1>2, <1>3

LEMMA ConnectKeeps ==
  ASSUME PoolInv, HandshakeInv, NEW n \in Node, exec_connect(n)
  PROVE  HandshakeInv'
<1>. DEFINE R == Head(incoming_requests[n])
            s == SlotFor(n, R.address)
            r == Channel(peer[n][s])
            p == [r EXCEPT !.address = R.address, !.outPeer = 0, !.state = "connecting",
                    !.session = SessionOf(n, R.address)]
            m == [incarnation |-> p.incarnation, index |-> 0]
            v == Packet(n, p, "connection", s, NoSlot, m)
            o == Posted(n, p, "connection", s, NoSlot, m)
            q == Remembered(n, p, "connection", s, NoSlot)
<1>1. /\ Executing(n, "connect")
      /\ \/ UNCHANGED poolVars
         \/ /\ HasSlotFor(n, R.address) /\ peer' = [peer EXCEPT ![n][s] = q]
            /\ peer_map' = [peer_map EXCEPT ![n][R.address] = s]
  BY DEF exec_connect, SetUp
<1>2. /\ heard' = heard /\ Traffic'
      /\ (\A i \in Node \ {n} : peer_map'[i] = peer_map[i]) => Attempts'
  BY <1>1, Taken
<1>3. R.address \in Node /\ R.type = "connect" /\ Hosts
  BY <1>1, Executed DEF Requested, Request, PoolInv
<1>4. /\ n \in Connectors
      /\ PatientUser /\ R.address \in Acceptor => peer_map[n][R.address] = NoSlot
  <2>. DEFINE Q == incoming_requests[n]
  <2>1. Q \in Seq(Requested(n)) /\ Q # <<>>
    BY <1>1 DEF PoolInv, Requests, Executing
  <2>2. Attempting(n, Q, peer_map[n])
    BY DEF HandshakeInv, Attempts
  <2>. HIDE DEF Q
  <2>3. 1 \in 1..Len(Q) /\ Head(Q) = Q[1]
    BY <2>1
  <2>4. /\ n \in Connectors
        /\ PatientUser /\ Q[1].address \in Acceptor => peer_map[n][Q[1].address] = NoSlot
    BY <1>3, <2>2, <2>3 DEF Attempting, Q
  <2>. QED BY <2>3, <2>4 DEF Q
<1>5. CASE UNCHANGED poolVars
  <2>1. Peers'
    BY <1>2, <1>5 DEF HandshakeInv, Peers, poolVars
  <2>2. Attempts'
    BY <1>2, <1>5 DEF poolVars
  <2>. QED BY <1>2, <2>1, <2>2 DEF HandshakeInv
<1>6. CASE /\ HasSlotFor(n, R.address) /\ peer' = [peer EXCEPT ![n][s] = q]
           /\ peer_map' = [peer_map EXCEPT ![n][R.address] = s]
  <2>. HIDE DEF R
  <2>1. s \in Slot(n) /\ PeerOK(peer[n][s])
    BY <1>3, <1>6, SlotInPool, PeerOfHost
  <2>2. /\ DOMAIN r = Fields /\ r.queued = {} /\ r.outSeq = 0 /\ r.inSeq = 0 /\ r.early = {}
        /\ r.incarnation = incarnations + 1
    BY <2>1 DEF Channel, PeerOK, Fields
  <2>. HIDE DEF s, r
  <2>3. /\ DOMAIN p = Fields /\ p.queued = {} /\ p.outSeq = 0 /\ p.inSeq = 0 /\ p.early = {}
        /\ p.incarnation = incarnations + 1 /\ p.address = R.address
        /\ p.session = SessionOf(n, R.address)
    BY <2>2 DEF Fields
  <2>4. PatientUser /\ p.address \in Acceptor => p.session = p.incarnation
    BY <1>4, <2>3 DEF SessionOf
  <2>5. /\ v.kind = "connection" /\ v.from = n /\ v.seq = 0 /\ v.to = p.address
        /\ v.session = p.session /\ v.msg.incarnation = p.incarnation
    BY <2>3 DEF Packet
  <2>. HIDE DEF p, m
  <2>6. o = [p EXCEPT !.queued = p.queued \cup {v}, !.outSeq = p.outSeq + 1]
    BY DEF Posted
  <2>7. q = [o EXCEPT !.connSeq = p.outSeq]
    BY DEF Remembered, m
  <2>. HIDE DEF o, q, v
  <2>8. /\ DOMAIN o = Fields /\ o.queued = {v} /\ o.outSeq = 1 /\ o.inSeq = 0 /\ o.early = {}
        /\ o.incarnation = p.incarnation /\ o.address = p.address /\ o.session = p.session
    BY <2>3, <2>6 DEF Fields
  <2>9. /\ q.queued = {v} /\ q.outSeq = 1 /\ q.inSeq = 0 /\ q.early = {}
        /\ q.incarnation = p.incarnation /\ q.address = p.address /\ q.session = p.session
    BY <2>7, <2>8 DEF Fields
  <2>10. SentBy(n, v) /\ v.kind # "ack"
    BY <1>4, <2>4, <2>5 DEF SentBy, Acceptor
  <2>11. Sends(n, q)
    BY <2>5, <2>9, <2>10 DEF Sends
  <2>12. Speaks(n, q, heard)
    BY <1>4, <2>4, <2>9, <2>11, FS_EmptySet DEF Speaks, Acceptor
  <2>13. Peers'
    BY <1>2, <1>3, <1>6, <2>1, <2>12, OneSpeaks DEF HandshakeInv
  <2>14. Attempts'
    <3>1. peer_map = [i \in Node |-> peer_map[i]]
      BY <1>3 DEF Hosts
    <3>2. \A i \in Node \ {n} : peer_map'[i] = peer_map[i]
      BY <1>6, <3>1
    <3>. QED BY <1>2, <3>2
  <2>. QED BY <1>2, <2>13, <2>14 DEF HandshakeInv
<1>. QED BY <1>1, <1>5, <1>6

\* destroy_peer, of a peer with any number of packets still to send.
LEMMA DestroyKeeps ==
  ASSUME Hosts, Peers, NEW n \in Node, NEW s \in Slot(n), Destroy(n, s), heard' = heard
  PROVE  /\ Peers'
         /\ \A m \in Node : \A a \in Acceptor :
              peer_map[m][a] = NoSlot => peer_map'[m][a] = NoSlot
         /\ \A m \in Node \ {n} : peer_map'[m] = peer_map[m]
<1>. DEFINE a == peer[n][s].address
            q == Unused(a)
<1>1. /\ peer' = [peer EXCEPT ![n][s] = q]
      /\ peer_map' = [peer_map EXCEPT ![n][a] = NoSlot]
  BY DEF Destroy
<1>2. Speaks(n, q, heard)
  <2>1. Sends(n, q)
    BY DEF Sends, Unused
  <2>2. Told(0, 0 - 1) = <<>>
    BY DEF Told
  <2>3. Listens(q)
    BY <2>2 DEF Listens, Unused
  <2>4. Accepts(q, heard)
    BY <2>3 DEF Accepts, Unused
  <2>. QED BY <2>1, <2>4, FS_EmptySet DEF Speaks, Unused
<1>. HIDE DEF a, q
<1>3. Peers'
  BY <1>1, <1>2, OneSpeaks
<1>4. /\ peer_map = [m \in Node |-> peer_map[m]]
      /\ \A m \in Node : peer_map[m] \in [Node -> Slot(m) \cup {NoSlot}]
  BY DEF Hosts, PoolAt
<1>5. ASSUME NEW m \in Node, NEW b \in Acceptor, peer_map[m][b] = NoSlot
      PROVE  peer_map'[m][b] = NoSlot
  <2>1. b \in Node
    BY DEF Acceptor
  <2>2. CASE m = n
    BY <1>1, <1>4, <1>5, <2>1, <2>2
  <2>3. CASE m # n
    BY <1>1, <1>4, <1>5, <2>3
  <2>. QED BY <2>2, <2>3
<1>6. \A m \in Node \ {n} : peer_map'[m] = peer_map[m]
  BY <1>1, <1>4
<1>. QED BY <1>3, <1>5, <1>6

LEMMA RequestKeeps ==
  ASSUME PoolInv, HandshakeInv, NEW n \in Node, RequestPass(n)
  PROVE  HandshakeInv'
<1>. DEFINE R == Head(incoming_requests[n])
            p == peer[n][R.slot]
<1>0. Hosts /\ Peers
  BY DEF PoolInv, HandshakeInv
<1>1. ASSUME NEW type, Executing(n, type), type # "connect"
      PROVE  R.slot \in Slot(n)
  BY <1>1, Executed DEF Requested
<1>2. ASSUME NEW type, Executing(n, type), peer_map' = peer_map, Peers'
      PROVE  HandshakeInv'
  <2>1. heard' = heard /\ Traffic' /\ Attempts'
    BY <1>2, Taken
  <2>. QED BY <1>2, <2>1 DEF HandshakeInv
<1>3. CASE exec_dropped(n)
  <2>1. PICK type : Executing(n, type)
    BY <1>3 DEF exec_dropped
  <2>2. peer_map' = peer_map /\ Peers'
    BY <1>0, <1>3, <2>1 DEF exec_dropped, poolVars, Executing, Peers
  <2>. QED BY <1>2, <2>1, <2>2
<1>4. CASE exec_send_reliable(n)
  <2>. DEFINE m == [incarnation |-> p.incarnation, index |-> p.outSeq]
              v == Packet(n, p, "data", NoSlot, NoSlot, m)
              q == Posted(n, p, "data", NoSlot, NoSlot, m)
  <2>1. /\ Executing(n, "send") /\ peer' = [peer EXCEPT ![n][R.slot] = q]
        /\ peer_map' = peer_map /\ heard' = heard /\ p.state # "zombie"
    BY <1>4 DEF exec_send_reliable, Executing, Live
  <2>2. R.slot \in Slot(n)
    BY <1>1, <2>1
  <2>. HIDE DEF R
  <2>3. PeerOK(p) /\ Speaks(n, p, heard) /\ (n \in Acceptor => Accepts(p, heard))
    BY <1>0, <2>2, PeerOfHost, PeerSpeaks
  <2>4. /\ v.kind = "data" /\ v.from = n /\ v.seq = p.outSeq /\ v.to = p.address
        /\ v.session = p.session /\ v.msg = Nth(p.incarnation, p.outSeq)
    BY DEF Packet, Nth
  <2>5. q = [p EXCEPT !.queued = p.queued \cup {v}, !.outSeq = p.outSeq + 1]
    BY DEF Posted
  <2>. HIDE DEF q, v, m, p
  <2>6. SentBy(n, v)
    BY <2>1, <2>3, <2>4 DEF SentBy, Speaks, Accepts
  <2>7. /\ q.queued = p.queued \cup {v} /\ q.outSeq = p.outSeq + 1
        /\ q.inSeq = p.inSeq /\ q.address = p.address /\ q.session = p.session
        /\ q.incarnation = p.incarnation /\ q.partner = p.partner /\ q.got = p.got
        /\ q.early = p.early /\ q.state = p.state /\ q.connSeq = p.connSeq
    BY <2>3, <2>5 DEF PeerOK, Fields
  <2>8. Speaks(n, q, heard)
    BY <2>1, <2>3, <2>4, <2>6, <2>7, PacketPosted
  <2>9. Peers'
    BY <1>0, <2>1, <2>2, <2>8, OneSpeaks
  <2>. QED BY <1>2, <2>1, <2>9
<1>5. CASE exec_disconnect(n)
  <2>. DEFINE r == [p EXCEPT !.state = "disconnecting"]
              m == [incarnation |-> r.incarnation, index |-> 0]
              v == Packet(n, r, "disconnection", NoSlot, NoSlot, m)
              o == Posted(n, r, "disconnection", NoSlot, NoSlot, m)
              q == Remembered(n, r, "disconnection", NoSlot, NoSlot)
  <2>1. /\ Executing(n, "disconnect") /\ p.state # "zombie"
        /\ peer_map' = peer_map /\ heard' = heard
    BY <1>5 DEF exec_disconnect, Executing, Live
  <2>2. R.slot \in Slot(n)
    BY <1>1, <2>1
  <2>3. peer' = [peer EXCEPT ![n][R.slot] = q]
    BY <1>0, <1>5, <2>2 DEF exec_disconnect, Hosts, PoolAt
  <2>. HIDE DEF R
  <2>4. PeerOK(p) /\ Speaks(n, p, heard) /\ (n \in Acceptor => Accepts(p, heard))
    BY <1>0, <2>2, PeerOfHost, PeerSpeaks
  <2>. HIDE DEF p
  <2>5. /\ DOMAIN r = Fields /\ r.outSeq = p.outSeq /\ r.queued = p.queued
        /\ r.inSeq = p.inSeq /\ r.address = p.address /\ r.session = p.session
        /\ r.incarnation = p.incarnation /\ r.partner = p.partner /\ r.got = p.got
        /\ r.early = p.early /\ r.state = "disconnecting"
    BY <2>4 DEF PeerOK, Fields
  <2>. HIDE DEF r
  <2>6. v.kind = "disconnection" /\ v.from = n /\ v.seq = p.outSeq
    BY <2>5 DEF Packet
  <2>. HIDE DEF m
  <2>7. o = [r EXCEPT !.queued = r.queued \cup {v}, !.outSeq = r.outSeq + 1]
    BY DEF Posted
  <2>8. q = [o EXCEPT !.connSeq = r.outSeq]
    BY DEF Remembered, m
  <2>. HIDE DEF o, q, v
  <2>9. /\ DOMAIN o = Fields /\ o.outSeq = p.outSeq + 1 /\ o.queued = p.queued \cup {v}
        /\ o.inSeq = p.inSeq /\ o.address = p.address /\ o.session = p.session
        /\ o.incarnation = p.incarnation /\ o.partner = p.partner /\ o.got = p.got
        /\ o.early = p.early /\ o.state = "disconnecting"
    BY <2>5, <2>7 DEF Fields
  <2>10. /\ q.outSeq = p.outSeq + 1 /\ q.queued = p.queued \cup {v}
         /\ q.inSeq = p.inSeq /\ q.address = p.address /\ q.session = p.session
         /\ q.incarnation = p.incarnation /\ q.partner = p.partner /\ q.got = p.got
         /\ q.early = p.early /\ q.state = "disconnecting"
    BY <2>8, <2>9 DEF Fields
  <2>11. SentBy(n, v)
    BY <2>1, <2>4, <2>6 DEF SentBy, Speaks, Accepts
  <2>12. Speaks(n, q, heard)
    BY <2>1, <2>4, <2>6, <2>10, <2>11, PacketPosted
  <2>13. Peers'
    BY <1>0, <2>1, <2>2, <2>3, <2>12, OneSpeaks
  <2>. QED BY <1>2, <2>1, <2>13
<1>6. CASE exec_reset(n)
  <2>1. PICK type \in {"disconnected", "connect_fail"} : Executing(n, type)
    BY <1>6 DEF exec_reset
  <2>2. R.slot \in Slot(n)
    BY <1>1, <2>1
  <2>3. IF Live(n, R.slot) THEN Destroy(n, R.slot) ELSE UNCHANGED poolVars
    BY <1>6 DEF exec_reset
  <2>. HIDE DEF R
  <2>4. CASE Destroy(n, R.slot)
    <3>1. heard' = heard /\ Traffic'
      BY <2>1, Taken
    <3>2. /\ Peers'
          /\ \A m \in Node : \A a \in Acceptor :
               peer_map[m][a] = NoSlot => peer_map'[m][a] = NoSlot
          /\ \A m \in Node \ {n} : peer_map'[m] = peer_map[m]
      BY <1>0, <2>2, <2>4, <3>1, DestroyKeeps
    <3>3. Attempts'
      BY <2>1, <3>2, Taken
    <3>. QED BY <3>1, <3>2, <3>3 DEF HandshakeInv
  <2>5. CASE UNCHANGED poolVars
    <3>1. peer_map' = peer_map /\ Peers'
      BY <1>0, <2>1, <2>5 DEF poolVars, Executing, Peers
    <3>. QED BY <1>2, <2>1, <3>1
  <2>. QED BY <2>3, <2>4, <2>5
<1>7. CASE do_exec_user_requests_end(n)
  BY <1>7 DEF do_exec_user_requests_end, poolVars, HandshakeInv, Peers, Traffic, Attempts
<1>. QED BY <1>3, <1>4, <1>5, <1>6, <1>7, ConnectKeeps DEF RequestPass

\* A request that is not for a connection is posted.
LEMMA PostedKeeps ==
  ASSUME PoolInv, HandshakeInv, NEW n \in Node, NEW r \in Requested(n), r.type # "connect",
         post_request(n, r),
         \A m \in Node : \A a \in Acceptor :
           peer_map[m][a] = NoSlot => peer_map'[m][a] = NoSlot,
         \A m \in Node \ {n} : peer_map'[m] = peer_map[m]
  PROVE  Attempts'
<1>. DEFINE Q == incoming_requests[n]
<1>1. /\ Q \in Seq(Requested(n)) /\ Attempting(n, Q, peer_map[n])
      /\ incoming_requests' = [incoming_requests EXCEPT ![n] = Append(Q, r)]
      /\ incoming_requests = [m \in Node |-> incoming_requests[m]]
  BY DEF PoolInv, Requests, HandshakeInv, Attempts, post_request
<1>2. /\ incoming_requests'[n] = Append(Q, r)
      /\ \A m \in Node \ {n} : incoming_requests'[m] = incoming_requests[m]
  BY <1>1
<1>. HIDE DEF Q
<1>3. Attempting(n, Append(Q, r), peer_map'[n])
  BY <1>1, AttemptingMore
<1>. QED BY <1>2, <1>3, AttemptsOf DEF HandshakeInv

LEMMA UpdateKeeps ==
  ASSUME PoolInv, HandshakeInv, NEW n \in Node, UpdatePass(n)
  PROVE  HandshakeInv'
<1>. DEFINE s == Head(service.rest)
            p == peer[n][s]
<1>0. Hosts /\ Requests /\ Peers /\ Traffic /\ Attempts
  BY DEF PoolInv, HandshakeInv
<1>1. CASE update(n)
  <2>. DEFINE k == Len(Ready(p))
              r == Advanced(p, k)
              q == [r EXCEPT !.state = IF @ = "disconnected" THEN "zombie" ELSE @,
                             !.waiting = @ \cup p.queued, !.queued = {}]
  <2>1. /\ Updating(n) /\ heard' = heard /\ p.state # "zombie"
        /\ peer' = [peer EXCEPT ![n][s] = q]
        /\ network' = network \cup p.queued
        /\ UNCHANGED <<peer_map, incoming_requests>>
    BY <1>1 DEF update, Updating, Live
  <2>2. s \in Slot(n)
    BY <2>1, Visited
  <2>. HIDE DEF s
  <2>3. PeerOK(p) /\ Speaks(n, p, heard) /\ (n \in Acceptor => Accepts(p, heard))
    BY <1>0, <2>2, PeerOfHost, PeerSpeaks
  <2>. HIDE DEF p
  <2>4. /\ DOMAIN r = Fields /\ r.outSeq = p.outSeq /\ r.queued = p.queued
        /\ r.address = p.address /\ r.session = p.session /\ r.connSeq = p.connSeq
        /\ r.incarnation = p.incarnation /\ r.partner = p.partner /\ r.state = p.state
        /\ r.inSeq = p.inSeq + k /\ r.early \subseteq p.early
    BY <2>3 DEF Advanced, PeerOK, Fields
  <2>5. n \in Acceptor /\ PatientUser => Listens(r)
    BY <2>1, <2>3, AdvancedListens DEF Speaks, Accepts
  <2>6. r.inSeq \in Nat /\ IsFiniteSet(r.early)
    BY <2>3, <2>4, ReadyInOrder, FS_Subset DEF Speaks
  <2>. HIDE DEF r, k
  <2>7. /\ q.outSeq = r.outSeq /\ q.inSeq = r.inSeq /\ q.queued = {}
        /\ q.address = r.address /\ q.session = r.session /\ q.connSeq = r.connSeq
        /\ q.incarnation = r.incarnation /\ q.partner = r.partner
        /\ q.got = r.got /\ q.early = r.early
        /\ q.state = IF r.state = "disconnected" THEN "zombie" ELSE r.state
    BY <2>4 DEF Fields
  <2>. HIDE DEF q
  <2>8. Sends(n, q)
    BY <2>7 DEF Sends
  <2>9. n \in Acceptor => Accepts(q, heard)
    <3>1. n \in Acceptor /\ PatientUser => Listens(q)
      BY <2>1, <2>4, <2>5, <2>7 DEF Listens
    <3>. QED BY <2>1, <2>3, <2>4, <2>7, <3>1 DEF Accepts
  <2>10. Speaks(n, q, heard)
    BY <2>3, <2>4, <2>6, <2>7, <2>8, <2>9 DEF Speaks
  <2>11. Peers'
    BY <1>0, <2>1, <2>2, <2>10, OneSpeaks
  <2>12. Traffic'
    <3>1. \A d \in p.queued : Travels(d, heard)
      BY <2>3 DEF Speaks, Sends, Travels
    <3>. QED BY <1>0, <2>1, <3>1, TrafficGrows
  <2>13. Attempts'
    BY <1>0, <2>1 DEF Attempts
  <2>. QED BY <2>11, <2>12, <2>13 DEF HandshakeInv
<1>2. CASE update_fail(n)
  <2>1. /\ Updating(n) /\ Destroy(n, s) /\ post_request(n, NowRequest(n, s))
        /\ network' = network /\ heard' = heard
    BY <1>2 DEF update_fail, Updating
  <2>2. s \in Slot(n)
    BY <2>1, Visited
  <2>. HIDE DEF s
  <2>3. /\ Peers'
        /\ \A m \in Node : \A a \in Acceptor :
             peer_map[m][a] = NoSlot => peer_map'[m][a] = NoSlot
        /\ \A m \in Node \ {n} : peer_map'[m] = peer_map[m]
    BY <1>0, <2>1, <2>2, DestroyKeeps
  <2>4. NowRequest(n, s) \in Requested(n) /\ NowRequest(n, s).type # "connect"
    BY <1>0, <2>2, RequestedOfSlot DEF NowRequest, Notice
  <2>5. Attempts'
    BY <2>1, <2>3, <2>4, PostedKeeps
  <2>6. Traffic'
    BY <1>0, <2>1 DEF Traffic
  <2>. QED BY <2>3, <2>5, <2>6 DEF HandshakeInv
<1>3. CASE update_crash(n)
  BY <1>0, <1>3 DEF update_crash, poolVars, HandshakeInv, Peers, Traffic, Attempts
<1>. QED BY <1>1, <1>2, <1>3 DEF UpdatePass

LEMMA UserKeeps ==
  ASSUME PoolInv, HandshakeInv, NEW n \in Node, User(n)
  PROVE  HandshakeInv'
<1>1. ASSUME NEW call, NEW bound, Calling(n, call, bound), Attempts'
      PROVE  HandshakeInv'
  BY <1>1 DEF Calling, poolVars, HandshakeInv, Peers, Traffic
<1>2. ASSUME NEW call, NEW bound, Calling(n, call, bound)
      PROVE  peer_map' = peer_map
  BY <1>2 DEF Calling, poolVars
<1>3. Hosts
  BY DEF PoolInv
<1>4. ASSUME NEW m \in Node, n \in Connectors, post_connect(n, m)
      PROVE  HandshakeInv'
  <2>. DEFINE Q == incoming_requests[n]
              r == Notice("connect", NoSlot, m)
  <2>1. r \in Requested(n) /\ r.type = "connect" /\ r.address = m
    BY DEF Notice, Requested, Request
  <2>2. /\ Q \in Seq(Requested(n)) /\ Attempting(n, Q, peer_map[n]) /\ DOMAIN Q = 1..Len(Q)
        /\ incoming_requests = [i \in Node |-> incoming_requests[i]]
    BY DEF PoolInv, Requests, HandshakeInv, Attempts
  <2>3. /\ incoming_requests' = [incoming_requests EXCEPT ![n] = Append(Q, r)]
        /\ PatientUser => /\ peer_map[n][m] = NoSlot
                          /\ \A i \in DOMAIN Q : Q[i].type # "connect"
        /\ peer_map' = peer_map
    BY <1>2, <1>4 DEF post_connect, post_request
  <2>4. /\ incoming_requests'[n] = Append(Q, r)
        /\ \A i \in Node \ {n} : incoming_requests'[i] = incoming_requests[i]
    BY <2>2, <2>3
  <2>. HIDE DEF Q, r
  <2>5. Attempting(n, Append(Q, r), peer_map'[n])
    <3>1. \A a \in Acceptor : peer_map[n][a] = NoSlot => peer_map'[n][a] = NoSlot
      BY <2>3
    <3>2. r.type = "connect" =>
            /\ n \in Connectors
            /\ PatientUser => /\ peer_map'[n][r.address] = NoSlot
                              /\ \A i \in 1..Len(Q) : Q[i].type # "connect"
      BY <1>4, <2>1, <2>2, <2>3
    <3>. QED BY <2>1, <2>2, <3>1, <3>2, AttemptingMore
  <2>6. Attempts'
    BY <2>3, <2>4, <2>5, AttemptsOf DEF HandshakeInv
  <2>. QED BY <1>1, <1>4, <2>6 DEF post_connect
<1>5. ASSUME NEW s \in Slot(n), NEW call, NEW bound, Calling(n, call, bound),
             NEW r \in {Notice("send", s, peer[n][s].address),
                        Notice("disconnect", s, peer[n][s].address), NowRequest(n, s)},
             post_request(n, r)
      PROVE  HandshakeInv'
  <2>0. /\ Notice("send", s, peer[n][s].address).type # "connect"
        /\ Notice("disconnect", s, peer[n][s].address).type # "connect"
        /\ NowRequest(n, s).type # "connect"
    BY DEF NowRequest, Notice
  <2>1. r \in Requested(n) /\ r.type # "connect"
    BY <1>3, <1>5, <2>0, RequestedOfSlot
  <2>2. peer_map' = peer_map
    BY <1>2, <1>5
  <2>3. Attempts'
    BY <1>5, <2>1, <2>2, PostedKeeps
  <2>. QED BY <1>1, <1>5, <2>3
<1>6. ASSUME NEW s \in Slot(n), post_send_reliable(n, s)
      PROVE  HandshakeInv'
  BY <1>5, <1>6 DEF post_send_reliable
<1>7. ASSUME NEW s \in Slot(n), post_disconnect(n, s)
      PROVE  HandshakeInv'
  BY <1>5, <1>7 DEF post_disconnect
<1>8. ASSUME NEW s \in Slot(n), post_disconnect_now(n, s)
      PROVE  HandshakeInv'
  BY <1>5, <1>8 DEF post_disconnect_now
<1>. QED BY <1>4, <1>6, <1>7, <1>8 DEF User

LEMMA HandshakeInit ==
  ASSUME Init
  PROVE  HandshakeInv
<1>1. ASSUME NEW n \in Node, NEW s \in Slot(n) PROVE Speaks(n, peer[n][s], heard)
  <2>. DEFINE q == Unused(n)
  <2>1. peer[n][s] = q
    BY DEF Init
  <2>2. Told(0, 0 - 1) = <<>>
    BY DEF Told
  <2>3. Accepts(q, heard)
    BY <2>2 DEF Accepts, Listens, Unused
  <2>4. Speaks(n, q, heard)
    BY <2>3, FS_EmptySet DEF Speaks, Sends, Unused
  <2>. QED BY <2>1, <2>4
<1>2. Peers
  BY <1>1 DEF Peers
<1>3. Traffic /\ Attempts
  BY DEF Init, Traffic, Attempts, Attempting
<1>. QED BY <1>2, <1>3 DEF HandshakeInv

LEMMA HandshakeHolds == Spec => []HandshakeInv
<1>1. Init => HandshakeInv
  BY HandshakeInit
<1>2. PoolInv /\ HandshakeInv /\ [Next]_vars => HandshakeInv'
  <2>. SUFFICES ASSUME PoolInv, HandshakeInv, [Next]_vars PROVE HandshakeInv'
    OBVIOUS
  <2>1. ASSUME NEW n \in Node, do_service(n) PROVE HandshakeInv'
    BY <2>1 DEF do_service, poolVars, HandshakeInv, Peers, Traffic, Attempts
  <2>2. CASE UNCHANGED vars
    BY <2>2 DEF vars, poolVars, HandshakeInv, Peers, Traffic, Attempts
  <2>. QED BY <2>1, <2>2, PacketKeeps, RequestKeeps, UpdateKeeps, UserKeeps
           DEF Next, Service
<1>. QED BY <1>1, <1>2, PoolHolds, PTL DEF Spec

LEMMA AcceptedWhenHeard == HandshakeInv => AcceptedAfterVerify
BY DEF HandshakeInv, Peers, Speaks, Accepts, Acceptor, Heard, AcceptedAfterVerify

\* Whatever packets are lost, repeated or late, and whatever the users call, a peer of
\* the accepting side is connected only if the connecting side got a verify packet of
\* its session.
THEOREM AcceptedOnlyAfterVerify == Spec => []AcceptedAfterVerify
BY AcceptedWhenHeard, HandshakeHolds, PTL

\* When the users of the connecting side wait until the last connection is gone before
\* they ask for another, what an accepting peer delivers is what the peer it shook
\* hands with sent, in order and without a gap.
THEOREM AcceptorHearsItsPartner ==
  ASSUME PatientUser
  PROVE  Spec => []AcceptorHearsPartner
<1>1. HandshakeInv => AcceptorHearsPartner
  <2>. SUFFICES ASSUME HandshakeInv, NEW n \in Acceptor, NEW s \in Slot(n)
                PROVE  HearsPartner(peer[n][s])
    BY DEF AcceptorHearsPartner, Acceptor
  <2>. DEFINE p == peer[n][s]
  <2>1. n \in Node
    BY DEF Acceptor
  <2>2. Listens(p) /\ p.inSeq \in Nat
    BY <2>1 DEF HandshakeInv, Peers, Speaks, Accepts
  <2>3. p.got = Told(p.session, p.inSeq - 1) /\ p.partner = p.session
    BY <2>2 DEF Listens
  <2>. HIDE DEF p
  <2>4. CASE p.inSeq = 0
    <3>1. p.got = <<>>
      BY <2>3, <2>4 DEF Told
    <3>. QED BY <3>1 DEF HearsPartner, p
  <2>5. CASE p.inSeq # 0
    <3>. DEFINE k == p.inSeq - 1
    <3>1. k \in Nat /\ p.got = Told(p.session, k)
      BY <2>2, <2>3, <2>5
    <3>. HIDE DEF k
    <3>2. Len(p.got) = k /\ \A i \in 1..k : p.got[i] = Nth(p.partner, i)
      <4>1. /\ Len(Told(p.session, k)) = k
            /\ \A i \in 1..k : Told(p.session, k)[i] = Nth(p.session, i)
        BY <3>1, ToldIsSeq, Zenon
      <4>. QED BY <2>3, <3>1, <4>1, Zenon
    <3>. QED BY <3>2 DEF HearsPartner, Nth, p
  <2>. QED BY <2>4, <2>5
<1>. QED BY <1>1, HandshakeHolds, PTL

-------------------------------------------------------------------------------
(* The remote hosts of the managers. *)

\* The host the connection is opened for.
Opened(h, slot) ==
  CASE h.state = "not_created" -> NewHost("connected", slot, FALSE)
    [] h.state = "connecting" -> Signal([h EXCEPT !.connected = TRUE, !.slot = slot])
    [] OTHER -> [h EXCEPT !.slot = slot]

\* What may happen in a step to a host h of node n: g is the host after it.
Changes(n, h, g) ==
  \/ g = h
  \/ /\ results[n] # <<>> /\ Head(results[n]).type = "connect_succeed"
     /\ g = Opened(h, Head(results[n]).slot)
  \/ h.state = "connecting" /\ g = Signal([h EXCEPT !.connected = FALSE])
  \/ g = Removed(h)
  \/ \E q : g = [h EXCEPT !.incoming = q]
  \/ g = Ticked(Flushed(h)) \/ g = Ticked(TimedOut(Flushed(h)))
  \/ h.state = "connected" /\ g = [h EXCEPT !.state = "disconnecting"]
  \/ /\ n \in Connectors
     /\ \/ h.state = "disconnected" /\ g = [h EXCEPT !.state = "connecting"]
        \/ \E persistent : g = NewHost("connecting", NoSlot, persistent)

HostsOfNodes ==
  /\ host = [n \in Node |-> [m \in Node |-> host[n][m]]]
  /\ \A n, m \in Node : DOMAIN host[n][m] = DOMAIN NoHost

LEMMA EventChange ==
  ASSUME HostsOfNodes, NEW n \in Node, NEW h, UpdateHost(n, h),
         Changes(n, EventHost(n), h)
  PROVE  /\ host' = [i \in Node |-> [m \in Node |-> host'[i][m]]]
         /\ \A i, m \in Node : Changes(i, host[i][m], host'[i][m])
<1>. DEFINE a == Head(results[n]).address
<1>1. host' = [host EXCEPT ![n][a] = h] /\ EventHost(n) = host[n][a]
  BY DEF UpdateHost, EventHost
<1>. HIDE DEF a
<1>2. \A i, g : Changes(i, g, g)
  BY DEF Changes
<1>3. host' = [i \in Node |-> [m \in Node |-> host'[i][m]]]
  BY <1>1 DEF HostsOfNodes
<1>4. \A i, m \in Node : host'[i][m] = IF i = n /\ m = a THEN h ELSE host[i][m]
  BY <1>1 DEF HostsOfNodes
<1>. QED BY <1>1, <1>2, <1>3, <1>4

LEMMA EventChanges ==
  ASSUME HostsOfNodes, NEW n \in Node, HandleEvent(n)
  PROVE  /\ host' = [i \in Node |-> [m \in Node |-> host'[i][m]]]
         /\ \A i, m \in Node : Changes(i, host[i][m], host'[i][m])
<1>. DEFINE h == EventHost(n)
<1>1. ASSUME NEW g, UpdateHost(n, g), Changes(n, h, g)
      PROVE  /\ host' = [i \in Node |-> [m \in Node |-> host'[i][m]]]
             /\ \A i, m \in Node : Changes(i, host[i][m], host'[i][m])
  BY <1>1, EventChange
<1>. HIDE DEF h
<1>2. CASE create_connection(n)
  <2>1. /\ results[n] # <<>> /\ Head(results[n]).type = "connect_succeed"
        /\ UpdateHost(n, Opened(h, Head(results[n]).slot))
    BY <1>2 DEF create_connection, Handling, Pending, Opened, h
  <2>. QED BY <1>1, <2>1 DEF Changes
<1>3. CASE cancel_connection(n)
  <2>. DEFINE g == IF h.state = "connecting" THEN Signal([h EXCEPT !.connected = FALSE]) ELSE h
  <2>1. UpdateHost(n, g)
    BY <1>3 DEF cancel_connection, h
  <2>2. Changes(n, h, g)
    BY DEF Changes
  <2>. HIDE DEF g
  <2>. QED BY <1>1, <2>1, <2>2
<1>4. CASE remove_connection(n)
  BY <1>1, <1>4 DEF remove_connection, Changes, h
<1>5. CASE queue_incoming_packet(n)
  <2>1. UpdateHost(n, [h EXCEPT !.incoming = <<Len(@) + 1>> \o @])
    BY <1>5 DEF queue_incoming_packet, h
  <2>2. [h EXCEPT !.incoming = <<Len(@) + 1>> \o @]
          = [h EXCEPT !.incoming = <<Len(h.incoming) + 1>> \o h.incoming]
    OBVIOUS
  <2>3. Changes(n, h, [h EXCEPT !.incoming = <<Len(h.incoming) + 1>> \o h.incoming])
    BY DEF Changes
  <2>. QED BY <1>1, <2>1, <2>2, <2>3
<1>6. CASE recieve_from_unknown_host(n)
  BY <1>6 DEF recieve_from_unknown_host, managerVars, HostsOfNodes, Changes
<1>. QED BY <1>2, <1>3, <1>4, <1>5, <1>6 DEF HandleEvent

\* The hosts of n when it ticks them, those of late out of time.
InTime(n, late) ==
  [m \in Node |-> IF m \in late THEN TimedOut(Flushed(host[n][m])) ELSE Flushed(host[n][m])]

LEMMA TickChanges ==
  ASSUME HostsOfNodes, NEW n \in Node, tick_hosts(n)
  PROVE  /\ host' = [i \in Node |-> [m \in Node |-> host'[i][m]]]
         /\ \A i, m \in Node : Changes(i, host[i][m], host'[i][m])
<1>1. PICK late : host' = [host EXCEPT ![n] = [m \in Node |-> Ticked(InTime(n, late)[m])]]
  BY DEF tick_hosts, InTime
<1>2. \A m \in Node : Changes(n, host[n][m], Ticked(InTime(n, late)[m]))
  BY DEF InTime, Changes
<1>3. \A i, h : Changes(i, h, h)
  BY DEF Changes
<1>. DEFINE T(m) == Ticked(InTime(n, late)[m])
<1>4. host' = [host EXCEPT ![n] = [m \in Node |-> T(m)]]
  BY <1>1
<1>5. \A m \in Node : Changes(n, host[n][m], T(m))
  BY <1>2
<1>. HIDE DEF T
<1>6. \A i, m \in Node : host'[i][m] = IF i = n THEN T(m) ELSE host[i][m]
  BY <1>4 DEF HostsOfNodes
<1>7. host' = [i \in Node |-> [m \in Node |-> host'[i][m]]]
  BY <1>4 DEF HostsOfNodes
<1>. QED BY <1>3, <1>5, <1>6, <1>7

LEMMA UserChanges ==
  ASSUME HostsOfNodes, NEW n \in Node, NEW m \in Node, ManagerUser(n, m)
  PROVE  /\ host' = [i \in Node |-> [k \in Node |-> host'[i][k]]]
         /\ \A i, k \in Node : Changes(i, host[i][k], host'[i][k])
<1>. DEFINE h == host[n][m]
<1>1. ASSUME NEW g, Changes(n, h, g), host' = [host EXCEPT ![n][m] = g]
      PROVE  /\ host' = [i \in Node |-> [k \in Node |-> host'[i][k]]]
             /\ \A i, k \in Node : Changes(i, host[i][k], host'[i][k])
  <2>1. \A i, f : Changes(i, f, f)
    BY DEF Changes
  <2>2. \A i, k \in Node : host'[i][k] = IF i = n /\ k = m THEN g ELSE host[i][k]
    BY <1>1 DEF HostsOfNodes
  <2>3. host' = [i \in Node |-> [k \in Node |-> host'[i][k]]]
    BY <1>1 DEF HostsOfNodes
  <2>. QED BY <1>1, <2>1, <2>2, <2>3
<1>2. CASE n \in Connectors /\ manual_connect(n, m)
  <2>1. /\ h.state = "disconnected"
        /\ host' = [host EXCEPT ![n][m] = [h EXCEPT !.state = "connecting"]]
    BY <1>2 DEF manual_connect, HostsOfNodes
  <2>. HIDE DEF h
  <2>. QED BY <1>1, <1>2, <2>1 DEF Changes
<1>3. CASE n \in Connectors /\ on_event_add_host(n, m)
  BY <1>1, <1>3 DEF on_event_add_host, Changes
<1>4. CASE manual_disconnect(n, m)
  <2>1. /\ h.state = "connected"
        /\ host' = [host EXCEPT ![n][m] = [h EXCEPT !.state = "disconnecting"]]
    BY <1>4 DEF manual_disconnect, HostsOfNodes
  <2>. HIDE DEF h
  <2>. QED BY <1>1, <2>1 DEF Changes
<1>5. CASE send_packet(n, m)
  BY <1>5 DEF send_packet, managerVars, HostsOfNodes, Changes
<1>. QED BY <1>2, <1>3, <1>4, <1>5 DEF ManagerUser

LEMMA ShapeKept ==
  ASSUME NEW n, NEW h, NEW g, Changes(n, h, g), DOMAIN h = DOMAIN NoHost
  PROVE  DOMAIN g = DOMAIN NoHost
BY DEF Changes, Opened, NewHost, NoHost, Signal, Removed, Ticked, StartConnect, TimedOut, Flushed

\* Every step of a manager does one of these things to each host.
LEMMA HostsChange ==
  ASSUME HostsOfNodes, [ManagerNext]_allVars
  PROVE  HostsOfNodes' /\ \A n, m \in Node : Changes(n, host[n][m], host'[n][m])
<1>1. /\ host' = [n \in Node |-> [m \in Node |-> host'[n][m]]]
      /\ \A n, m \in Node : Changes(n, host[n][m], host'[n][m])
  <2>1. CASE host' = host
    BY <2>1 DEF HostsOfNodes, Changes
  <2>2. ASSUME NEW n \in Node, tick_server(n) \/ server_passes(n) PROVE host' = host
    BY <2>2 DEF tick_server, server_passes, managerVars
  <2>3. CASE UNCHANGED allVars
    BY <2>1, <2>3 DEF allVars
  <2>. QED BY <2>1, <2>2, <2>3, EventChanges, TickChanges, UserChanges DEF ManagerNext
<1>2. \A n, m \in Node : DOMAIN host'[n][m] = DOMAIN NoHost
  BY <1>1, ShapeKept DEF HostsOfNodes
<1>. QED BY <1>1, <1>2 DEF HostsOfNodes

-------------------------------------------------------------------------------
(* What a host waits for. *)

\* A wait is for a connection only: it is over before the host is connected, and a
\* host that is disconnected meanwhile goes on to wait.
Waits(h) ==
  /\ {h.connected, h.waiting, h.signaled, h.timer} \subseteq BOOLEAN
  /\ h.waiting => h.timer \/ h.signaled
  /\ h.state \in {"connected", "disconnecting"} => ~h.waiting

LEMMA NewHostWaits ==
  ASSUME NEW state, NEW slot, NEW persistent
  PROVE  Waits(NewHost(state, slot, persistent))
BY DEF Waits, NewHost

LEMMA HostWaits ==
  ASSUME NEW n, NEW h, NEW g, Changes(n, h, g), DOMAIN h = DOMAIN NoHost, Waits(h)
  PROVE  Waits(g)
<1>0. /\ \A state, slot, persistent : Waits(NewHost(state, slot, persistent))
      /\ Waits(NoHost)
  BY NewHostWaits DEF NoHost
<1>1. ASSUME NEW f, DOMAIN f = DOMAIN NoHost, Waits(f)
      PROVE  Waits(Flushed(f)) /\ Waits(TimedOut(f)) /\ Waits(Ticked(f))
             /\ DOMAIN Flushed(f) = DOMAIN NoHost /\ DOMAIN TimedOut(f) = DOMAIN NoHost
  <2>1. /\ Waits(Flushed(f)) /\ DOMAIN Flushed(f) = DOMAIN NoHost
        /\ Waits(TimedOut(f)) /\ DOMAIN TimedOut(f) = DOMAIN NoHost
    BY <1>1 DEF Waits, Flushed, TimedOut, NoHost, NewHost
  <2>2. Waits(Ticked(f))
    BY <1>1 DEF Waits, Ticked, StartConnect, NoHost, NewHost
  <2>. QED BY <2>1, <2>2
<1>2. Waits(Ticked(Flushed(h))) /\ Waits(Ticked(TimedOut(Flushed(h))))
  BY <1>1
<1>3. ASSUME NEW slot PROVE Waits(Opened(h, slot))
  <2>1. CASE h.state = "not_created"
    BY <1>0, <2>1 DEF Opened
  <2>2. CASE h.state = "connecting"
    <3>1. Opened(h, slot) = Signal([h EXCEPT !.connected = TRUE, !.slot = slot])
      BY <2>2 DEF Opened
    <3>. QED BY <2>2, <3>1 DEF Waits, Signal, NoHost, NewHost
  <2>3. CASE h.state \notin {"not_created", "connecting"}
    <3>1. Opened(h, slot) = [h EXCEPT !.slot = slot]
      BY <2>3 DEF Opened
    <3>. QED BY <3>1 DEF Waits, NoHost, NewHost
  <2>. QED BY <2>1, <2>2, <2>3
<1>4. Waits(Removed(h))
  BY <1>0 DEF Waits, Removed, Signal, NoHost, NewHost
<1>5. /\ h.state = "connecting" => Waits(Signal([h EXCEPT !.connected = FALSE]))
      /\ \A q : Waits([h EXCEPT !.incoming = q])
      /\ h.state = "disconnected" => Waits([h EXCEPT !.state = "connecting"])
      /\ h.state = "connected" => Waits([h EXCEPT !.state = "disconnecting"])
  BY DEF Waits, Signal, NoHost, NewHost
<1>6. CASE \E persistent : g = NewHost("connecting", NoSlot, persistent)
  BY <1>0, <1>6
<1>7. CASE \E slot : g = Opened(h, slot)
  BY <1>3, <1>7
<1>8. CASE g = Ticked(Flushed(h)) \/ g = Ticked(TimedOut(Flushed(h))) \/ g = Removed(h) \/ g = h
  BY <1>2, <1>4, <1>8
<1>9. CASE \/ h.state = "connecting" /\ g = Signal([h EXCEPT !.connected = FALSE])
           \/ \E q : g = [h EXCEPT !.incoming = q]
           \/ h.state = "disconnected" /\ g = [h EXCEPT !.state = "connecting"]
           \/ h.state = "connected" /\ g = [h EXCEPT !.state = "disconnecting"]
  BY <1>5, <1>9
<1>. QED BY <1>6, <1>7, <1>8, <1>9 DEF Changes

LEMMA HostsInit ==
  ASSUME ManagerInit
  PROVE  /\ HostsOfNodes
         /\ \A n, m \in Node : \E persistent :
              \/ host[n][m] = NewHost("connecting", NoSlot, persistent)
              \/ host[n][m] = NoHost
<1>1. PICK persistent :
        host = [n \in Node |-> [m \in Node |->
                  IF n \in Connectors /\ m # n THEN NewHost("connecting", NoSlot, persistent)
                  ELSE NoHost]]
  BY DEF ManagerInit
<1>. QED BY <1>1 DEF HostsOfNodes, NoHost, NewHost

AllWait == HostsOfNodes /\ \A n, m \in Node : Waits(host[n][m])

LEMMA AllWaitInit == ManagerInit => AllWait
BY HostsInit, NewHostWaits DEF AllWait, NoHost

\* Whatever events arrive in whatever state of a remote host, and whatever its user
\* asks meanwhile, a behaviour tree that waits has a timer that runs or a signal that
\* is raised.
THEOREM EveryWaitEnds == ManagerSpec => []WaitEnds
<1>1. ManagerInit => AllWait
  BY AllWaitInit
<1>2. AllWait /\ [ManagerNext]_allVars => AllWait'
  BY HostsChange, HostWaits DEF AllWait, HostsOfNodes
<1>3. AllWait => WaitEnds
  BY DEF AllWait, Waits, WaitEnds
<1>. QED BY <1>1, <1>2, <1>3, PTL DEF ManagerSpec

-------------------------------------------------------------------------------
(* The server below the manager. *)

\* A host that is connected, or is to be disconnected, knows its peer; only connecting
\* nodes connect.
Slotted(n, h) ==
  /\ h.connected \/ h.state \in {"connected", "disconnecting"} => h.slot \in Slot(n)
  /\ h.state = "connecting" => n \in Connectors

AllSlotted == \A n, m \in Node : Slotted(n, host[n][m])

\* An event of host n, which names a slot when it tells of a connection.
Announced(n) == {e \in Event : e.type = "connect_succeed" => e.slot \in Slot(n)}

Announcements ==
  /\ results = [n \in Node |-> results[n]]
  /\ \A n \in Node : results[n] \in Seq(Announced(n))

LEMMA HostSlotted ==
  ASSUME NEW n, NEW h, NEW g, Changes(n, h, g), DOMAIN h = DOMAIN NoHost, Waits(h), Waits(g),
         results[n] \in Seq(Announced(n)), Slotted(n, h)
  PROVE  Slotted(n, g)
<1>0. \A persistent : Slotted(n, NoHost)
                      /\ (n \in Connectors => Slotted(n, NewHost("connecting", NoSlot, persistent)))
  BY DEF Slotted, NewHost, NoHost
<1>1. ASSUME NEW f, DOMAIN f = DOMAIN NoHost, Waits(f), Slotted(n, f)
      PROVE  /\ Slotted(n, Flushed(f)) /\ Slotted(n, TimedOut(f)) /\ Slotted(n, Ticked(f))
             /\ Waits(Flushed(f)) /\ Waits(TimedOut(f))
             /\ DOMAIN Flushed(f) = DOMAIN NoHost /\ DOMAIN TimedOut(f) = DOMAIN NoHost
  <2>1. /\ Slotted(n, Flushed(f)) /\ DOMAIN Flushed(f) = DOMAIN NoHost /\ Waits(Flushed(f))
        /\ Slotted(n, TimedOut(f)) /\ DOMAIN TimedOut(f) = DOMAIN NoHost /\ Waits(TimedOut(f))
    BY <1>1 DEF Slotted, Waits, Flushed, TimedOut, NoHost, NewHost
  <2>2. Slotted(n, Ticked(f))
    BY <1>1 DEF Slotted, Waits, Ticked, StartConnect, NoHost, NewHost
  <2>. QED BY <2>1, <2>2
<1>2. Slotted(n, Ticked(Flushed(h))) /\ Slotted(n, Ticked(TimedOut(Flushed(h))))
  BY <1>1
<1>3. \A slot \in Slot(n) : Slotted(n, Opened(h, slot))
  BY DEF Slotted, Waits, Opened, Signal, NoHost, NewHost
<1>4. Slotted(n, Removed(h))
  BY <1>0 DEF Slotted, Waits, Removed, Signal, NoHost, NewHost
<1>5. /\ h.state = "connecting" => Slotted(n, Signal([h EXCEPT !.connected = FALSE]))
      /\ \A q : Slotted(n, [h EXCEPT !.incoming = q])
      /\ h.state = "connected" => Slotted(n, [h EXCEPT !.state = "disconnecting"])
      /\ n \in Connectors /\ h.state = "disconnected" =>
           Slotted(n, [h EXCEPT !.state = "connecting"])
  BY DEF Slotted, Waits, Signal, NoHost, NewHost
<1>6. ASSUME n \in Connectors, \E persistent : g = NewHost("connecting", NoSlot, persistent)
      PROVE  Slotted(n, g)
  BY <1>0, <1>6
<1>7. ASSUME results[n] # <<>>, Head(results[n]).type = "connect_succeed",
             g = Opened(h, Head(results[n]).slot)
      PROVE  Slotted(n, g)
  <2>1. Head(results[n]) \in Announced(n)
    BY <1>7
  <2>. QED BY <1>3, <1>7, <2>1 DEF Announced
<1>8. g = Removed(h) \/ g = h => Slotted(n, g)
  BY <1>4
<1>9. g = Ticked(Flushed(h)) \/ g = Ticked(TimedOut(Flushed(h))) => Slotted(n, g)
  BY <1>2
<1>10. h.state = "connecting" /\ g = Signal([h EXCEPT !.connected = FALSE]) => Slotted(n, g)
  BY <1>5
<1>11. ASSUME NEW q, g = [h EXCEPT !.incoming = q] PROVE Slotted(n, g)
  BY <1>5, <1>11
<1>12. h.state = "connected" /\ g = [h EXCEPT !.state = "disconnecting"] => Slotted(n, g)
  BY <1>5
<1>13. n \in Connectors /\ h.state = "disconnected" /\ g = [h EXCEPT !.state = "connecting"]
         => Slotted(n, g)
  BY <1>5
<1>. QED BY <1>6, <1>7, <1>8, <1>9, <1>10, <1>11, <1>12, <1>13, Zenon DEF Changes

-------------------------------------------------------------------------------
(* A tick asks for what its hosts need, one after the other. *)

LEMMA NodesInOrder ==
  ASSUME NEW S, IsFiniteSet(S)
  PROVE  SetToSeq(S) \in Seq(S)
<1>1. Cardinality(S) \in Nat /\ ExistsBijection(1..Cardinality(S), S)
  BY FS_CardinalityType
<1>2. \E f \in [1..Cardinality(S) -> S] : IsInjective(f)
  BY <1>1 DEF ExistsBijection, Bijection, Injection, Surjection
<1>3. SetToSeq(S) \in [1..Cardinality(S) -> S]
  BY <1>2 DEF SetToSeq
<1>. QED BY <1>1, <1>3

\* The first i of the sequences, one after the other.
Joined(f, seqs, i) == IF i = 1 THEN seqs[i] ELSE f[i - 1] \o seqs[i]

LEMMA JoinedExists ==
  ASSUME NEW seqs, NEW n \in Nat
  PROVE  \E f : f = [i \in 1..n |-> Joined(f, seqs, i)]
<1>. DEFINE Good(k) == \E f : f = [i \in 1..k |-> Joined(f, seqs, i)]
            bad == {k \in Nat : ~Good(k)}
<1>1. Good(0)
  <2>. DEFINE f == [i \in 1..0 |-> <<>>]
  <2>1. f = [i \in 1..0 |-> Joined(f, seqs, i)]
    OBVIOUS
  <2>. QED BY <2>1
<1>2. ASSUME NEW k \in Nat, Good(k) PROVE Good(k + 1)
  <2>1. PICK f : f = [i \in 1..k |-> Joined(f, seqs, i)]
    BY <1>2
  <2>. DEFINE g == [i \in 1..(k + 1) |-> Joined(f, seqs, i)]
  <2>2. \A i \in 1..k : g[i] = f[i]
    <3>1. \A i \in 1..k : f[i] = Joined(f, seqs, i)
      BY <2>1
    <3>. QED BY <3>1
  <2>3. ASSUME NEW i \in 1..(k + 1) PROVE g[i] = Joined(g, seqs, i)
    <3>1. i = 1 \/ i - 1 \in 1..k
      OBVIOUS
    <3>2. g[i] = Joined(f, seqs, i)
      OBVIOUS
    <3>. HIDE DEF g
    <3>. QED BY <2>2, <3>1, <3>2 DEF Joined
  <2>4. g = [i \in 1..(k + 1) |-> Joined(g, seqs, i)]
    BY <2>3
  <2>. QED BY <2>4
<1>. HIDE DEF Good
<1>3. bad = {}
  <2>1. SUFFICES ASSUME bad # {} PROVE FALSE
    OBVIOUS
  <2>2. PICK k \in bad : \A j \in bad : k <= j
    BY <2>1, LeastNatural
  <2>3. k # 0
    BY <1>1
  <2>4. k - 1 \in Nat /\ k - 1 \notin bad
    BY <2>2, <2>3
  <2>5. Good((k - 1) + 1)
    BY <1>2, <2>4
  <2>. QED BY <2>5
<1>. QED BY <1>3 DEF Good

\* Some sequences, one after the other.
LEMMA FlatSteps ==
  ASSUME NEW seqs, NEW n \in Nat, Len(seqs) = n, n # 0
  PROVE  \E f : /\ FlattenSeq(seqs) = f[n]
                /\ \A i \in 1..n : f[i] = IF i = 1 THEN seqs[i] ELSE f[i - 1] \o seqs[i]
<1>. DEFINE f == CHOOSE g : g = [i \in 1..n |-> Joined(g, seqs, i)]
<1>1. f = [i \in 1..n |-> Joined(f, seqs, i)]
  <2>1. \E g : g = [i \in 1..n |-> Joined(g, seqs, i)]
    BY JoinedExists
  <2>. QED BY <2>1, Zenon
<1>2. FlattenSeq(seqs) = f[n]
  BY DEF FlattenSeq, Joined
<1>. HIDE DEF f
<1>3. \A i \in 1..n : f[i] = IF i = 1 THEN seqs[i] ELSE f[i - 1] \o seqs[i]
  <2>. DEFINE e(i) == Joined(f, seqs, i)
  <2>1. f = [i \in 1..n |-> e(i)]
    BY <1>1
  <2>. HIDE DEF e
  <2>2. \A i \in 1..n : f[i] = e(i)
    BY <2>1
  <2>. QED BY <2>2 DEF e, Joined
<1>. QED BY <1>2, <1>3

LEMMA FlatIsSeq ==
  ASSUME NEW S, NEW seqs, NEW n \in Nat, Len(seqs) = n, n # 0,
         \A i \in 1..n : seqs[i] \in Seq(S)
  PROVE  FlattenSeq(seqs) \in Seq(S)
<1>1. PICK f : /\ FlattenSeq(seqs) = f[n]
               /\ \A i \in 1..n : f[i] = IF i = 1 THEN seqs[i] ELSE f[i - 1] \o seqs[i]
  BY FlatSteps
<1>. DEFINE bad == {i \in 1..n : f[i] \notin Seq(S)}
<1>2. ASSUME NEW i \in 1..n PROVE f[i] \in Seq(S)
  <2>0. bad \in SUBSET Nat /\ \A j : j \in bad <=> (j \in 1..n /\ f[j] \notin Seq(S))
    OBVIOUS
  <2>. HIDE DEF bad
  <2>1. SUFFICES ASSUME i \in bad PROVE FALSE
    BY <2>0
  <2>2. PICK k \in bad : \A j \in bad : k <= j
    BY <2>0, <2>1, LeastNatural
  <2>3. k \in 1..n /\ f[k] \notin Seq(S)
    BY <2>0
  <2>4. k # 1
    BY <1>1, <2>3
  <2>5. k - 1 \in 1..n /\ ~(k <= k - 1)
    BY <2>3, <2>4
  <2>6. f[k - 1] \in Seq(S)
    BY <2>0, <2>2, <2>5
  <2>7. seqs[k] \in Seq(S) /\ f[k] = f[k - 1] \o seqs[k]
    BY <1>1, <2>3, <2>4
  <2>8. f[k] \in Seq(S)
    BY <2>6, <2>7
  <2>. QED BY <2>3, <2>8
<1>. QED BY <1>1, <1>2

LEMMA FlatPair ==
  ASSUME NEW seqs, Len(seqs) = 2
  PROVE  FlattenSeq(seqs) = seqs[1] \o seqs[2]
<1>. DEFINE n == Len(seqs)
<1>1. n \in Nat /\ n # 0 /\ n = 2
  OBVIOUS
<1>. HIDE DEF n
<1>2. PICK f : /\ FlattenSeq(seqs) = f[n]
               /\ \A i \in 1..n : f[i] = IF i = 1 THEN seqs[i] ELSE f[i - 1] \o seqs[i]
  BY <1>1, FlatSteps DEF n
<1>3. f[1] = seqs[1] /\ f[n] = f[1] \o seqs[n]
  BY <1>1, <1>2
<1>. QED BY <1>1, <1>2, <1>3

LEMMA PairInOrder ==
  ASSUME NEW n, NEW m, n # m
  PROVE  LET order == SetToSeq({n, m})
         IN  /\ DOMAIN order = 1..2
             /\ \/ order[1] = n /\ order[2] = m
                \/ order[1] = m /\ order[2] = n
<1>. DEFINE S == {n, m}
            order == SetToSeq(S)
<1>1. Cardinality(S) = 2 /\ IsFiniteSet(S)
  <2>1. IsFiniteSet({n}) /\ Cardinality({n}) = 1
    BY FS_Singleton
  <2>2. S = {n} \cup {m} /\ m \notin {n}
    OBVIOUS
  <2>. HIDE DEF S
  <2>. QED BY <2>1, <2>2, FS_AddElement
<1>2. \E f \in [1..2 -> S] : IsInjective(f)
  <2>1. ExistsBijection(1..Cardinality(S), S)
    BY <1>1, FS_CardinalityType
  <2>. QED BY <1>1, <2>1 DEF ExistsBijection, Bijection, Injection, Surjection
<1>3. order \in [1..2 -> S] /\ IsInjective(order)
  BY <1>1, <1>2 DEF SetToSeq
<1>. HIDE DEF order
<1>4. order[1] # order[2]
  <2>1. DOMAIN order = 1..2 /\ 1 \in 1..2 /\ 2 \in 1..2
    BY <1>3
  <2>. QED BY <1>3, <2>1 DEF IsInjective
<1>. QED BY <1>3, <1>4 DEF order

-------------------------------------------------------------------------------
(* The server announces what it knows. *)

LEMMA EventsBecome ==
  ASSUME Announcements, NEW n \in Node, NEW q \in Seq(Announced(n)),
         results' = [results EXCEPT ![n] = q]
  PROVE  Announcements'
<1>1. results' = [m \in Node |-> results'[m]]
  BY DEF Announcements
<1>2. \A m \in Node : results'[m] \in Seq(Announced(m))
  BY DEF Announcements
<1>. QED BY <1>1, <1>2 DEF Announcements, Announced

LEMMA NoticeAnnounced ==
  ASSUME NEW n \in Node, NEW a \in Node, NEW s \in Slot(n) \cup {NoSlot},
         NEW type \in {"connect_succeed", "connect_fail", "recieve", "disconnected"},
         type = "connect_succeed" => s \in Slot(n)
  PROVE  Notice(type, s, a) \in Announced(n)
BY DEF Notice, Announced, Event, AnySlot

LEMMA ResultPosted ==
  ASSUME Announcements, NEW n \in Node, NEW a \in Node, NEW s \in Slot(n) \cup {NoSlot},
         NEW type \in {"connect_succeed", "connect_fail", "recieve", "disconnected"},
         type = "connect_succeed" => s \in Slot(n), post_result(n, type, s, a)
  PROVE  Announcements'
<1>1. Notice(type, s, a) \in Announced(n) /\ results[n] \in Seq(Announced(n))
  BY NoticeAnnounced DEF Announcements
<1>2. results' = [results EXCEPT ![n] = Append(results[n], Notice(type, s, a))]
  BY DEF post_result, Announcements
<1>3. Append(results[n], Notice(type, s, a)) \in Seq(Announced(n))
  BY <1>1
<1>. QED BY <1>2, <1>3, EventsBecome

LEMMA PacketAnnounces ==
  ASSUME PoolInv, Announcements, NEW n \in Node, PacketPass(n)
  PROVE  Announcements'
<1>1. results' = results => Announcements'
  BY DEF Announcements, Announced
<1>2. ASSUME NEW d \in network, is_protocol_head_valid(n, d),
             NEW type \in {"connect_succeed", "recieve"},
             post_result(n, type, d.peer, peer[n][d.peer].address)
      PROVE  Announcements'
  <2>1. d.peer \in Slot(n) /\ peer[n][d.peer].address \in Node
    BY <1>2, Addressed DEF PoolInv, PeerOK
  <2>. QED BY <1>2, <2>1, ResultPosted
<1>3. ASSUME NEW d \in network, handle_acknowledge(n, d) PROVE Announcements'
  BY <1>1, <1>2, <1>3 DEF handle_acknowledge
<1>4. ASSUME NEW d \in network, handle_verify_connection(n, d) PROVE Announcements'
  BY <1>1, <1>2, <1>4 DEF handle_verify_connection
<1>5. ASSUME NEW d \in network, handle_recieve_reliable(n, d) PROVE Announcements'
  BY <1>1, <1>2, <1>5 DEF handle_recieve_reliable
<1>6. ASSUME NEW d \in network,
             handle_connection(n, d) \/ handle_connection_refused(n, d) \/ handle_disconnected(n, d)
      PROVE  Announcements'
  BY <1>1, <1>6 DEF handle_connection, handle_connection_refused, handle_disconnected
<1>7. CASE do_handle_incoming_packets_end(n)
  BY <1>1, <1>7 DEF do_handle_incoming_packets_end
<1>. QED BY <1>3, <1>4, <1>5, <1>6, <1>7 DEF PacketPass

LEMMA RequestAnnounces ==
  ASSUME PoolInv, Announcements, NEW n \in Node, RequestPass(n)
  PROVE  Announcements'
<1>. DEFINE R == Head(incoming_requests[n])
<1>1. results' = results => Announcements'
  BY DEF Announcements, Announced
<1>2. ASSUME exec_connect(n), results' # results PROVE Announcements'
  <2>1. Executing(n, "connect") /\ post_result(n, "connect_fail", NoSlot, R.address)
    BY <1>2 DEF exec_connect
  <2>2. R.address \in Node
    BY <2>1, Executed DEF Requested, Request
  <2>. HIDE DEF R
  <2>. QED BY <2>1, <2>2, ResultPosted
<1>3. CASE exec_reset(n)
  <2>1. PICK type \in {"disconnected", "connect_fail"} : Executing(n, type)
    BY <1>3 DEF exec_reset
  <2>2. R.slot \in Slot(n) /\ R.address \in Node /\ R.type = type
    BY <2>1, Executed DEF Requested, Request
  <2>3. post_result(n, R.type, R.slot, R.address)
    BY <1>3 DEF exec_reset
  <2>. HIDE DEF R
  <2>. QED BY <2>2, <2>3, ResultPosted
<1>4. CASE exec_dropped(n) \/ exec_send_reliable(n) \/ exec_disconnect(n)
  BY <1>1, <1>4 DEF exec_dropped, exec_send_reliable, exec_disconnect
<1>5. CASE do_exec_user_requests_end(n)
  BY <1>1, <1>5 DEF do_exec_user_requests_end
<1>. QED BY <1>1, <1>2, <1>3, <1>4, <1>5 DEF RequestPass

LEMMA UpdateAnnounces ==
  ASSUME PoolInv, HandshakeInv, Announcements, NEW n \in Node, UpdatePass(n)
  PROVE  Announcements'
<1>. DEFINE s == Head(service.rest)
            last == Len(Ready(peer[n][s]))
<1>1. ASSUME Updating(n), NEW k \in 0..last,
             results' = [results EXCEPT ![n] = @ \o RecieveEvents(n, s, k)]
      PROVE  Announcements'
  <2>1. s \in Slot(n)
    BY <1>1, Visited
  <2>2. last \in Nat
    BY <2>1, PeerSpeaks, ReadyInOrder DEF HandshakeInv, Speaks
  <2>. DEFINE e == Notice("recieve", s, peer[n][s].address)
  <2>3. e \in Announced(n)
    BY <2>1, PeerOfHost, NoticeAnnounced DEF PoolInv, PeerOK
  <2>4. RecieveEvents(n, s, k) = [i \in 1..k |-> e]
    BY DEF RecieveEvents
  <2>. HIDE DEF e, last
  <2>5. RecieveEvents(n, s, k) \in Seq(Announced(n))
    BY <2>2, <2>3, <2>4
  <2>6. results[n] \o RecieveEvents(n, s, k) \in Seq(Announced(n))
    BY <2>5 DEF Announcements
  <2>7. results' = [results EXCEPT ![n] = results[n] \o RecieveEvents(n, s, k)]
    BY <1>1 DEF Announcements
  <2>. QED BY <2>6, <2>7, EventsBecome
<1>2. CASE update(n)
  <2>1. Updating(n) /\ results' = [results EXCEPT ![n] = @ \o RecieveEvents(n, s, last)]
    BY <1>2 DEF update
  <2>2. last \in Nat
    BY <2>1, Visited, PeerSpeaks, ReadyInOrder DEF HandshakeInv, Speaks
  <2>3. last \in 0..last
    BY <2>2
  <2>. QED BY <1>1, <2>1, <2>3
<1>3. CASE update_fail(n)
  BY <1>1, <1>3 DEF update_fail
<1>4. CASE update_crash(n)
  BY <1>4 DEF update_crash, Announcements, Announced
<1>. QED BY <1>2, <1>3, <1>4 DEF UpdatePass

-------------------------------------------------------------------------------
(* The server keeps its invariants below a manager. *)

ServerInv == PoolInv /\ HandshakeInv /\ Announcements

LEMMA ServerTicks ==
  ASSUME ServerInv, NEW n \in Node, tick_server(n)
  PROVE  ServerInv'
<1>1. /\ UNCHANGED <<peer, using_list, free_list, peer_map, incoming_requests, network, heard>>
      /\ service' = [node |-> n, pass |-> "packets", rest |-> <<>>]
      /\ results' = [results EXCEPT ![n] = <<>>]
  BY DEF tick_server, do_service, poolVars
<1>2. PoolInv'
  BY <1>1 DEF ServerInv, PoolInv, Hosts, Requests, Senders, Visits
<1>3. HandshakeInv'
  BY <1>1 DEF ServerInv, HandshakeInv, Peers, Traffic, Attempts
<1>4. Announcements'
  <2>1. <<>> \in Seq(Announced(n))
    OBVIOUS
  <2>. QED BY <1>1, <2>1, EventsBecome DEF ServerInv
<1>. QED BY <1>2, <1>3, <1>4 DEF ServerInv

LEMMA ServerPasses ==
  ASSUME ServerInv, NEW n \in Node, server_passes(n)
  PROVE  ServerInv'
<1>1. PacketPass(n) \/ RequestPass(n) \/ UpdatePass(n)
  BY DEF server_passes
<1>2. PoolInv'
  BY <1>1, PacketStep, RequestStep, UpdateStep DEF ServerInv
<1>3. HandshakeInv'
  BY <1>1, PacketKeeps, RequestKeeps, UpdateKeeps DEF ServerInv
<1>4. Announcements'
  BY <1>1, PacketAnnounces, RequestAnnounces, UpdateAnnounces DEF ServerInv
<1>. QED BY <1>2, <1>3, <1>4 DEF ServerInv

\* The manager takes events and posts requests, and leaves the rest to the server.
LEMMA OnlyRequests ==
  ASSUME ServerInv, UNCHANGED <<poolVars, network, service, heard>>,
         Requests', Attempts', Announcements'
  PROVE  ServerInv'
BY DEF poolVars, ServerInv, PoolInv, Hosts, Senders, Visits, HandshakeInv, Peers, Traffic

LEMMA EventHandled ==
  ASSUME ServerInv, NEW n \in Node, HandleEvent(n)
  PROVE  ServerInv'
<1>1. /\ UNCHANGED <<poolVars, network, service, heard, incoming_requests>>
      /\ \/ results' = results
         \/ results[n] # <<>> /\ results' = [results EXCEPT ![n] = Tail(@)]
  BY DEF HandleEvent, create_connection, cancel_connection, remove_connection,
         queue_incoming_packet, recieve_from_unknown_host, Handling, peek_event, poolVars
<1>2. Requests' /\ Attempts'
  BY <1>1 DEF poolVars, ServerInv, PoolInv, Requests, HandshakeInv, Attempts
<1>3. CASE results' = results
  <2>1. Announcements'
    BY <1>3 DEF ServerInv, Announcements, Announced
  <2>. QED BY <1>1, <1>2, <2>1, OnlyRequests
<1>4. CASE results[n] # <<>> /\ results' = [results EXCEPT ![n] = Tail(@)]
  <2>1. results[n] \in Seq(Announced(n))
    BY DEF ServerInv, Announcements
  <2>2. Tail(results[n]) \in Seq(Announced(n))
    BY <1>4, <2>1
  <2>3. results' = [results EXCEPT ![n] = Tail(results[n])]
    BY <1>4
  <2>4. Announcements'
    BY <2>2, <2>3, EventsBecome DEF ServerInv
  <2>. QED BY <1>1, <1>2, <2>4, OnlyRequests
<1>. QED BY <1>1, <1>3, <1>4

\* Several requests are added by a user that may ask for any number of connections.
LEMMA AttemptingAll ==
  ASSUME ~PatientUser, NEW n, NEW S, NEW Q \in Seq(S), NEW R \in Seq(S), NEW M,
         Attempting(n, Q, M), \A i \in 1..Len(R) : R[i].type = "connect" => n \in Connectors
  PROVE  Attempting(n, Q \o R, M)
<1>1. ASSUME NEW i \in 1..Len(Q \o R), (Q \o R)[i].type = "connect" PROVE n \in Connectors
  <2>1. \/ i \in 1..Len(Q) /\ (Q \o R)[i] = Q[i]
        \/ i - Len(Q) \in 1..Len(R) /\ (Q \o R)[i] = R[i - Len(Q)]
    OBVIOUS
  <2>. QED BY <1>1, <2>1 DEF Attempting
<1>. QED BY <1>1 DEF Attempting

LEMMA HostsTicked ==
  ASSUME ~PatientUser, IsFiniteSet(Node), ServerInv, AllWait, AllSlotted,
         NEW n \in Node, tick_hosts(n)
  PROVE  ServerInv'
<1>. DEFINE order == SetToSeq(Node)
            asked(h) == FlattenSeq([i \in DOMAIN order |-> Asked(h[order[i]], order[i])])
            A == {r \in Requested(n) : r.type = "connect" => n \in Connectors}
<1>1. PICK late : /\ incoming_requests' =
                       [incoming_requests EXCEPT ![n] = @ \o asked(InTime(n, late))]
                  /\ UNCHANGED <<poolVars, network, service, heard, results>>
  BY DEF tick_hosts, InTime
<1>. DEFINE h == InTime(n, late)
<1>2. ASSUME NEW m \in Node PROVE Asked(h[m], m) \in Seq(A)
  <2>1. Slotted(n, h[m])
    <3>1. Slotted(n, host[n][m]) /\ DOMAIN host[n][m] = DOMAIN NoHost
      BY DEF AllSlotted, AllWait, HostsOfNodes
    <3>2. h[m] = TimedOut(Flushed(host[n][m])) \/ h[m] = Flushed(host[n][m])
      BY DEF InTime
    <3>. HIDE DEF h
    <3>3. \A g : Slotted(n, g) /\ DOMAIN g = DOMAIN NoHost =>
                 /\ Slotted(n, Flushed(g)) /\ DOMAIN Flushed(g) = DOMAIN NoHost
                 /\ Slotted(n, TimedOut(g))
      BY DEF Slotted, Flushed, TimedOut, NoHost, NewHost
    <3>. QED BY <3>1, <3>2, <3>3
  <2>. HIDE DEF h
  <2>2. h[m].state = "connecting" => <<Notice("connect", NoSlot, m)>> \in Seq(A)
    <3>1. h[m].state = "connecting" => Notice("connect", NoSlot, m) \in A
      BY <2>1 DEF Slotted, Notice, Requested, Request
    <3>. QED BY <3>1
  <2>3. h[m].state = "disconnecting" => <<Notice("disconnect", h[m].slot, m)>> \in Seq(A)
    <3>1. h[m].state = "disconnecting" => Notice("disconnect", h[m].slot, m) \in A
      BY <2>1 DEF Slotted, Notice, Requested, Request, AnySlot
    <3>. QED BY <3>1
  <2>. HIDE DEF A
  <2>. QED BY <2>2, <2>3 DEF Asked
<1>. HIDE DEF h
<1>3. asked(h) \in Seq(A)
  <2>. DEFINE c == Len(order)
              q == [i \in DOMAIN order |-> Asked(h[order[i]], order[i])]
  <2>1. order \in Seq(Node)
    BY NodesInOrder
  <2>2. c \in Nat /\ DOMAIN order = 1..c /\ \A i \in 1..c : order[i] \in Node
    BY <2>1
  <2>3. Len(q) = c /\ \A i \in 1..c : q[i] \in Seq(A)
    BY <1>2, <2>2
  <2>4. c = 0 => q = <<>>
    BY <2>2
  <2>. HIDE DEF order, A, q
  <2>5. c = 0 => FlattenSeq(q) \in Seq(A)
    BY <2>3, <2>4 DEF FlattenSeq
  <2>6. c # 0 => FlattenSeq(q) \in Seq(A)
    BY <2>2, <2>3, FlatIsSeq
  <2>. QED BY <2>5, <2>6 DEF q
<1>4. \E R \in Seq(A) : incoming_requests' = [incoming_requests EXCEPT ![n] = @ \o R]
  <2>1. incoming_requests' = [incoming_requests EXCEPT ![n] = @ \o asked(h)]
    BY <1>1 DEF h
  <2>. HIDE DEF asked, A
  <2>. QED BY <1>3, <2>1
<1>. HIDE DEF asked
<1>5. PICK R \in Seq(A) : incoming_requests' = [incoming_requests EXCEPT ![n] = @ \o R]
  BY <1>4
<1>. DEFINE Q == incoming_requests[n]
<1>6. /\ Q \in Seq(Requested(n)) /\ incoming_requests' = [incoming_requests EXCEPT ![n] = Q \o R]
      /\ incoming_requests = [m \in Node |-> incoming_requests[m]]
      /\ Attempting(n, Q, peer_map[n])
  BY <1>5 DEF ServerInv, PoolInv, Requests, HandshakeInv, Attempts
<1>7. R \in Seq(Requested(n)) /\ \A i \in 1..Len(R) : R[i].type = "connect" => n \in Connectors
  <2>1. A \subseteq Requested(n) /\ \A r \in A : r.type = "connect" => n \in Connectors
    OBVIOUS
  <2>. HIDE DEF A
  <2>. QED BY <1>5, <2>1
<1>. HIDE DEF Q, A
<1>8. Q \o R \in Seq(Requested(n))
  BY <1>6, <1>7
<1>9. /\ incoming_requests' = [m \in Node |-> incoming_requests'[m]]
      /\ incoming_requests'[n] = Q \o R
      /\ \A m \in Node \ {n} : incoming_requests'[m] = incoming_requests[m]
  BY <1>6
<1>10. Requests'
  BY <1>8, <1>9 DEF ServerInv, PoolInv, Requests, Requested
<1>11. Attempts'
  <2>1. peer_map' = peer_map
    BY <1>1 DEF poolVars
  <2>2. Attempting(n, Q \o R, peer_map'[n])
    BY <1>6, <1>7, <2>1, AttemptingAll
  <2>. QED BY <1>9, <2>1, <2>2, AttemptsOf DEF ServerInv, HandshakeInv
<1>12. Announcements'
  BY <1>1 DEF ServerInv, Announcements, Announced
<1>. QED BY <1>1, <1>10, <1>11, <1>12, OnlyRequests

LEMMA ManagerAsks ==
  ASSUME ServerInv, AllSlotted, NEW n \in Node, NEW m \in Node, ManagerUser(n, m)
  PROVE  ServerInv'
<1>1. ASSUME NEW call, NEW bound, Calling(n, call, bound), Requests', Attempts'
      PROVE  ServerInv'
  <2>1. UNCHANGED <<poolVars, network, service, heard, results>>
    BY <1>1 DEF Calling
  <2>2. Announcements'
    BY <2>1 DEF ServerInv, Announcements, Announced
  <2>. QED BY <1>1, <2>1, <2>2, OnlyRequests
<1>2. ASSUME NEW call, NEW bound, Calling(n, call, bound), UNCHANGED incoming_requests
      PROVE  ServerInv'
  <2>1. Requests' /\ Attempts'
    BY <1>2 DEF Calling, poolVars, ServerInv, PoolInv, Requests, HandshakeInv, Attempts
  <2>. QED BY <1>1, <1>2, <2>1
<1>3. CASE manual_connect(n, m) \/ on_event_add_host(n, m) \/ manual_disconnect(n, m)
  BY <1>2, <1>3 DEF manual_connect, on_event_add_host, manual_disconnect, Asking
<1>4. CASE send_packet(n, m)
  <2>. DEFINE r == Notice("send", host[n][m].slot, m)
  <2>1. r \in Requested(n) /\ r.type # "connect"
    BY <1>4 DEF send_packet, AllSlotted, Slotted, Notice, Requested, Request, AnySlot
  <2>2. Calling(n, "send", MaxSends) /\ post_request(n, r) /\ peer_map' = peer_map
    BY <1>4 DEF send_packet, Calling, poolVars
  <2>. HIDE DEF r
  <2>3. Requests'
    BY <2>1, <2>2, Asks DEF ServerInv, PoolInv
  <2>4. Attempts'
    BY <2>1, <2>2, PostedKeeps DEF ServerInv
  <2>. QED BY <1>1, <2>2, <2>3, <2>4
<1>. QED BY <1>3, <1>4 DEF ManagerUser

BelowInv == ServerInv /\ AllWait /\ AllSlotted

LEMMA BelowHolds ==
  ASSUME ~PatientUser, IsFiniteSet(Node)
  PROVE  ManagerSpec => []BelowInv
<1>1. ManagerInit => BelowInv
  <2>. SUFFICES ASSUME ManagerInit PROVE BelowInv
    OBVIOUS
  <2>1. PoolInv /\ HandshakeInv
    BY PoolInvInit, HandshakeInit DEF ManagerInit
  <2>2. Announcements
    BY DEF ManagerInit, Init, Announcements
  <2>3. AllWait
    BY AllWaitInit
  <2>4. AllSlotted
    BY DEF ManagerInit, AllSlotted, Slotted, NewHost, NoHost
  <2>. QED BY <2>1, <2>2, <2>3, <2>4 DEF BelowInv, ServerInv
<1>2. BelowInv /\ [ManagerNext]_allVars => BelowInv'
  <2>. SUFFICES ASSUME BelowInv, [ManagerNext]_allVars PROVE BelowInv'
    OBVIOUS
  <2>1. ServerInv'
    <3>1. ASSUME NEW n \in Node, NEW m \in Node, ManagerUser(n, m) PROVE ServerInv'
      BY <3>1, ManagerAsks DEF BelowInv
    <3>2. ASSUME NEW n \in Node, tick_hosts(n) PROVE ServerInv'
      BY <3>2, HostsTicked DEF BelowInv
    <3>3. CASE UNCHANGED allVars
      BY <3>3 DEF allVars, vars, poolVars, BelowInv, ServerInv, PoolInv, Hosts, Requests,
                  Senders, Visits, HandshakeInv, Peers, Traffic, Attempts, Announcements, Announced
    <3>. QED BY <3>1, <3>2, <3>3, ServerTicks, ServerPasses, EventHandled
             DEF ManagerNext, BelowInv
  <2>2. HostsOfNodes' /\ \A n, m \in Node : Changes(n, host[n][m], host'[n][m])
    BY HostsChange DEF BelowInv, AllWait
  <2>3. AllWait'
    BY <2>2, HostWaits DEF BelowInv, AllWait, HostsOfNodes
  <2>4. AllSlotted'
    <3>1. ASSUME NEW n \in Node, NEW m \in Node PROVE Slotted(n, host'[n][m])
      <4>1. /\ Changes(n, host[n][m], host'[n][m]) /\ DOMAIN host[n][m] = DOMAIN NoHost
            /\ Waits(host[n][m]) /\ Waits(host'[n][m]) /\ Slotted(n, host[n][m])
            /\ results[n] \in Seq(Announced(n))
        BY <2>2, <2>3 DEF BelowInv, ServerInv, AllWait, HostsOfNodes, AllSlotted, Announcements
      <4>. QED BY <4>1, HostSlotted
    <3>. QED BY <3>1 DEF AllSlotted
  <2>. QED BY <2>1, <2>3, <2>4 DEF BelowInv
<1>. QED BY <1>1, <1>2, PTL DEF ManagerSpec

\* Below the manager of any number of servers, too, the pool, its lists and the address
\* map agree: the manager names the slots it was told of.  A user that does not wait
\* makes every step one that waits makes.
THEOREM PoolIsExactBelow ==
  ASSUME ~PatientUser, IsFiniteSet(Node)
  PROVE  ManagerSpec => []PoolExact
<1>1. BelowInv => PoolExact
  BY PoolAgrees DEF BelowInv, ServerInv
<1>. QED BY <1>1, BelowHolds, PTL

\* Nor does a manager make the accepting side connect before the connecting side got a
\* verify packet of its session.
THEOREM AcceptedOnlyAfterVerifyBelow ==
  ASSUME ~PatientUser, IsFiniteSet(Node)
  PROVE  ManagerSpec => []AcceptedAfterVerify
<1>1. BelowInv => AcceptedAfterVerify
  BY AcceptedWhenHeard DEF BelowInv, ServerInv
<1>. QED BY <1>1, BelowHolds, PTL

-------------------------------------------------------------------------------
(* A step of one node leaves the others alone. *)

Untouched(k) ==
  /\ peer'[k] = peer[k] /\ peer_map'[k] = peer_map[k]
  /\ incoming_requests'[k] = incoming_requests[k] /\ results'[k] = results[k]
  /\ host'[k] = host[k]

\* A node that is up has events to handle only while it ticks, and its server works for
\* its frame only.
InFrame ==
  /\ up = [n \in Node |-> up[n]]
  /\ service.pass # "idle" => frame = service.node
  /\ \A n \in Node : up[n] /\ results[n] # <<>> => frame = n

LEMMA Tables ==
  ASSUME BelowInv
  PROVE  /\ peer = [k \in Node |-> peer[k]] /\ peer_map = [k \in Node |-> peer_map[k]]
         /\ incoming_requests = [k \in Node |-> incoming_requests[k]]
         /\ results = [k \in Node |-> results[k]] /\ host = [k \in Node |-> host[k]]
<1>1. host = [k \in Node |-> [m \in Node |-> host[k][m]]]
  BY DEF BelowInv, AllWait, HostsOfNodes
<1>2. host = [k \in Node |-> host[k]]
  BY <1>1
<1>. QED BY <1>2 DEF BelowInv, ServerInv, PoolInv, Hosts, Requests, Announcements

LEMMA Elsewhere ==
  ASSUME BelowInv, NEW n \in Node, NEW k \in Node \ {n},
         \/ tick_server(n) \/ server_passes(n) \/ HandleEvent(n) \/ tick_hosts(n)
         \/ \E m \in Node : ManagerUser(n, m)
  PROVE  Untouched(k)
<1>. /\ peer = [i \in Node |-> peer[i]] /\ peer_map = [i \in Node |-> peer_map[i]]
     /\ incoming_requests = [i \in Node |-> incoming_requests[i]]
     /\ results = [i \in Node |-> results[i]] /\ host = [i \in Node |-> host[i]]
  BY Tables
<1>1. CASE tick_server(n)
  BY <1>1 DEF tick_server, do_service, poolVars, Untouched
<1>2. CASE server_passes(n)
  <2>0. host' = host
    BY <1>2 DEF server_passes, managerVars
  <2>1. CASE PacketPass(n)
    <3>1. \A d : handle_acknowledge(n, d) \/ handle_verify_connection(n, d)
                 \/ handle_disconnected(n, d) \/ handle_recieve_reliable(n, d) => Untouched(k)
      BY <2>0 DEF handle_acknowledge, handle_verify_connection, handle_disconnected,
                  handle_recieve_reliable, post_result, Untouched
    <3>2. \A d : handle_connection(n, d) => Untouched(k)
      BY <2>0 DEF handle_connection, SetUp, Untouched
    <3>3. \A d : handle_connection_refused(n, d) \/ do_handle_incoming_packets_end(n)
                 => Untouched(k)
      BY <2>0 DEF handle_connection_refused, do_handle_incoming_packets_end, poolVars, Untouched
    <3>. QED BY <2>1, <3>1, <3>2, <3>3 DEF PacketPass
  <2>2. CASE RequestPass(n)
    <3>1. CASE exec_connect(n)
      BY <2>0, <3>1 DEF exec_connect, Executing, SetUp, poolVars, post_result, Untouched
    <3>2. CASE exec_dropped(n)
      BY <2>0, <3>2 DEF exec_dropped, Executing, poolVars, Untouched
    <3>3. CASE exec_send_reliable(n)
      BY <2>0, <3>3 DEF exec_send_reliable, Executing, Untouched
    <3>4. CASE exec_disconnect(n)
      BY <2>0, <3>4 DEF exec_disconnect, Executing, Untouched
    <3>5. CASE exec_reset(n)
      BY <2>0, <3>5 DEF exec_reset, Executing, Destroy, poolVars, post_result, Untouched
    <3>6. CASE do_exec_user_requests_end(n)
      BY <2>0, <3>6 DEF do_exec_user_requests_end, poolVars, Untouched
    <3>. QED BY <2>2, <3>1, <3>2, <3>3, <3>4, <3>5, <3>6 DEF RequestPass
  <2>3. CASE UpdatePass(n)
    <3>1. CASE update(n)
      BY <2>0, <3>1 DEF update, Untouched
    <3>2. CASE update_fail(n)
      BY <2>0, <3>2 DEF update_fail, Destroy, post_request, Untouched
    <3>3. CASE update_crash(n)
      BY <2>0, <3>3 DEF update_crash, poolVars, Untouched
    <3>. QED BY <2>3, <3>1, <3>2, <3>3 DEF UpdatePass
  <2>. QED BY <1>2, <2>1, <2>2, <2>3 DEF server_passes
<1>3. CASE HandleEvent(n)
  BY <1>3 DEF HandleEvent, create_connection, cancel_connection, remove_connection,
              queue_incoming_packet, recieve_from_unknown_host, Handling, peek_event,
              UpdateHost, poolVars, managerVars, Untouched
<1>4. CASE tick_hosts(n)
  BY <1>4 DEF tick_hosts, poolVars, Untouched
<1>5. ASSUME NEW m \in Node, ManagerUser(n, m) PROVE Untouched(k)
  BY <1>5 DEF ManagerUser, manual_connect, on_event_add_host, manual_disconnect, send_packet,
              Asking, Calling, post_request, poolVars, managerVars, Untouched
<1>. QED BY <1>1, <1>2, <1>3, <1>4, <1>5

-------------------------------------------------------------------------------
(* Frames. *)

LEMMA InFrameInit == ManagerInit => InFrame
BY DEF ManagerInit, Init, InFrame

LEMMA InFrameStays ==
  ASSUME BelowInv, InFrame, [ManagerNext]_allVars
  PROVE  InFrame' /\ \A n \in Node : up'[n] => up[n]
<1>. DEFINE UpStays == up' = [k \in Node |-> up'[k]] /\ \A k \in Node : up'[k] => up[k]
<1>. DOMAIN service = {"node", "pass", "rest"}
  BY DEF BelowInv, ServerInv, PoolInv, Visits
<1>1. ASSUME NEW n \in Node, tick_server(n) PROVE InFrame' /\ UpStays
  <2>1. /\ up' = up /\ frame' = n /\ service' = [node |-> n, pass |-> "packets", rest |-> <<>>]
        /\ results' = [results EXCEPT ![n] = <<>>]
        /\ frame \in Node => ~up[frame]
    BY <1>1 DEF tick_server, do_service, BetweenFrames
  <2>2. \A k \in Node : up'[k] => results'[k] = <<>>
    <3>1. \A k \in Node : results'[k] = IF k = n THEN <<>> ELSE results[k]
      BY <2>1, Tables
    <3>. QED BY <2>1, <3>1 DEF InFrame
  <2>. QED BY <2>1, <2>2 DEF InFrame
<1>2. ASSUME NEW n \in Node, server_passes(n) PROVE InFrame' /\ UpStays
  <2>1. service.node = n /\ service.pass # "idle" /\ frame' = frame
    BY <1>2 DEF server_passes, managerVars, PacketPass, RequestPass, UpdatePass,
                handle_acknowledge, handle_connection, handle_connection_refused,
                handle_verify_connection, handle_disconnected, handle_recieve_reliable, Incoming,
                do_handle_incoming_packets_end, exec_connect, exec_dropped, exec_send_reliable,
                exec_disconnect, exec_reset, Executing, do_exec_user_requests_end, update,
                update_fail, update_crash, Updating
  <2>2. /\ service'.node = service.node
        /\ up' = up \/ up' = [up EXCEPT ![n] = FALSE]
    BY <1>2 DEF server_passes, managerVars, PacketPass, RequestPass, UpdatePass,
                handle_acknowledge, handle_connection, handle_connection_refused,
                handle_verify_connection, handle_disconnected, handle_recieve_reliable,
                do_handle_incoming_packets_end, exec_connect, exec_dropped, exec_send_reliable,
                exec_disconnect, exec_reset, Executing, do_exec_user_requests_end, update,
                update_fail, update_crash, Updating
  <2>3. UpStays
    BY <2>2 DEF InFrame
  <2>4. \A k \in Node \ {n} : results'[k] = results[k]
    BY <1>2, Elsewhere DEF Untouched
  <2>. QED BY <2>1, <2>2, <2>3, <2>4 DEF InFrame
<1>3. ASSUME NEW n \in Node, HandleEvent(n) PROVE InFrame' /\ UpStays
  <2>1. /\ frame = n /\ frame' = n /\ service' = service /\ service.pass = "idle"
        /\ up' = up \/ up' = [up EXCEPT ![n] = FALSE]
    BY <1>3 DEF HandleEvent, create_connection, cancel_connection, remove_connection,
                queue_incoming_packet, recieve_from_unknown_host, Handling, Pending, peek_event,
                managerVars
  <2>2. UpStays
    BY <2>1 DEF InFrame
  <2>3. \A k \in Node \ {n} : results'[k] = results[k]
    BY <1>3, Elsewhere DEF Untouched
  <2>. QED BY <2>1, <2>2, <2>3 DEF InFrame
<1>4. ASSUME NEW n \in Node, tick_hosts(n) PROVE InFrame' /\ UpStays
  BY <1>4 DEF tick_hosts, InFrame
<1>5. ASSUME NEW n \in Node, NEW m \in Node, ManagerUser(n, m) PROVE InFrame' /\ UpStays
  BY <1>5 DEF ManagerUser, manual_connect, on_event_add_host, manual_disconnect, send_packet,
              Asking, Calling, managerVars, InFrame
<1>6. CASE UNCHANGED allVars
  BY <1>6 DEF allVars, vars, InFrame
<1>. QED BY <1>1, <1>2, <1>3, <1>4, <1>5, <1>6 DEF ManagerNext

-------------------------------------------------------------------------------
(* Nobody speaks with itself. *)

Abroad(n, S) == {r \in S : r.address # n}

Apart(n) ==
  /\ peer_map[n][n] = NoSlot
  /\ incoming_requests[n] \in Seq(Abroad(n, Requested(n)))
  /\ results[n] \in Seq(Abroad(n, Event))
  /\ \A s \in Slot(n) : \A d \in peer[n][s].queued : d.to # n
  /\ host[n][n].state = "not_created"

AllApart == (\A n \in Node : Apart(n)) /\ \A d \in network : d.from # d.to

LEMMA ApartInit ==
  ASSUME ManagerInit, BelowInv
  PROVE  AllApart
<1>1. ASSUME NEW n \in Node PROVE Apart(n)
  <2>1. peer_map[n][n] = NoSlot /\ incoming_requests[n] = <<>> /\ results[n] = <<>>
    BY DEF ManagerInit, Init
  <2>2. \A s \in Slot(n) : peer[n][s].queued = {}
    BY DEF ManagerInit, Init, Unused
  <2>3. host[n][n].state = "not_created"
    BY DEF ManagerInit, NoHost, NewHost
  <2>. QED BY <2>1, <2>2, <2>3 DEF Apart
<1>. QED BY <1>1 DEF AllApart, ManagerInit, Init

LEMMA ApartElsewhere ==
  ASSUME AllApart, NEW n \in Node, \A k \in Node \ {n} : Untouched(k), Apart(n)',
         \A d \in network' : d.from # d.to
  PROVE  AllApart'
<1>1. ASSUME NEW k \in Node PROVE Apart(k)'
  <2>1. CASE k = n BY <2>1
  <2>2. CASE k # n
    <3>1. Apart(k) /\ Untouched(k)
      BY <2>2 DEF AllApart
    <3>. QED BY <3>1 DEF Untouched, Apart, Requested
  <2>. QED BY <2>1, <2>2
<1>. QED BY <1>1 DEF AllApart

\* A peer in use is for another node.
LEMMA PeersAbroad ==
  ASSUME BelowInv, AllApart, NEW n \in Node, NEW s \in Elems(using_list[n])
  PROVE  s \in Slot(n) /\ peer[n][s].address \in Node \ {n}
<1>1. PoolAt(n, peer[n], using_list[n], free_list[n], peer_map[n])
  BY DEF BelowInv, ServerInv, PoolInv, Hosts
<1>2. s \in Slot(n) /\ peer[n][s].address \in Node /\ peer_map[n][peer[n][s].address] = s
  BY <1>1 DEF PoolAt, PeerOK
<1>3. s # NoSlot
  BY <1>2, SlotFacts
<1>. QED BY <1>2, <1>3 DEF AllApart, Apart

\* An event about another node.
LEMMA EventAbroad ==
  ASSUME AllApart, NEW n \in Node, NEW a \in Node \ {n}, NEW s \in Slot(n) \cup {NoSlot},
         NEW type \in {"connect_succeed", "connect_fail", "recieve", "disconnected"}
  PROVE  /\ Notice(type, s, a) \in Abroad(n, Event)
         /\ Append(results[n], Notice(type, s, a)) \in Seq(Abroad(n, Event))
<1>1. Notice(type, s, a) \in Abroad(n, Event)
  BY DEF Notice, Abroad, Event, AnySlot
<1>. QED BY <1>1 DEF AllApart, Apart

\* What is queued for a node of that address is not for the node itself.
LEMMA QueuedAbroad ==
  ASSUME NEW n \in Node, NEW p, \A d \in p.queued : d.to # n, p.address # n, PeerOK(p)
  PROVE  /\ \A kind, src, ack, msg : \A d \in Posted(n, p, kind, src, ack, msg).queued : d.to # n
         /\ \A kind, src, ack : \A d \in Remembered(n, p, kind, src, ack).queued : d.to # n
<1>1. ASSUME NEW kind, NEW src, NEW ack, NEW msg,
             NEW d \in Posted(n, p, kind, src, ack, msg).queued
      PROVE  d.to # n
  <2>. DEFINE e == Packet(n, p, kind, src, ack, msg)
  <2>1. e.to = p.address
    BY DEF Packet
  <2>. HIDE DEF e
  <2>2. d \in p.queued \cup {e}
    BY <1>1 DEF Posted, PeerOK, Fields, e
  <2>. QED BY <2>1, <2>2
<1>2. ASSUME NEW kind, NEW src, NEW ack, NEW d \in Remembered(n, p, kind, src, ack).queued
      PROVE  d.to # n
  <2>. DEFINE q == Posted(n, p, kind, src, ack, [incarnation |-> p.incarnation, index |-> 0])
  <2>1. PeerOK(q)
    BY PeerOperations
  <2>2. Remembered(n, p, kind, src, ack) = [q EXCEPT !.connSeq = p.outSeq]
    BY DEF Remembered
  <2>. HIDE DEF q
  <2>3. Remembered(n, p, kind, src, ack).queued = q.queued
    BY <2>1, <2>2 DEF PeerOK, Fields
  <2>. QED BY <1>1, <1>2, <2>3 DEF q
<1>. QED BY <1>1, <1>2

\* One peer changes.
LEMMA PeerAbroad ==
  ASSUME BelowInv, AllApart, NEW n \in Node, NEW s \in Slot(n), NEW p,
         \A d \in p.queued : d.to # n, peer' = [peer EXCEPT ![n][s] = p]
  PROVE  \A t \in Slot(n) : \A d \in peer'[n][t].queued : d.to # n
<1>1. /\ peer = [k \in Node |-> peer[k]] /\ DOMAIN peer[n] = Slot(n)
  BY DEF BelowInv, ServerInv, PoolInv, Hosts, PoolAt
<1>2. \A t \in Slot(n) : peer'[n][t] = IF t = s THEN p ELSE peer[n][t]
  BY <1>1
<1>. QED BY <1>2 DEF AllApart, Apart

LEMMA PacketAbroad ==
  ASSUME BelowInv, AllApart, NEW n \in Node, PacketPass(n)
  PROVE  /\ peer_map'[n][n] = NoSlot /\ incoming_requests' = incoming_requests
         /\ results'[n] \in Seq(Abroad(n, Event))
         /\ \A s \in Slot(n) : \A d \in peer'[n][s].queued : d.to # n
         /\ \A d \in network' : d.from # d.to
<1>. DEFINE G == /\ peer_map'[n][n] = NoSlot /\ incoming_requests' = incoming_requests
                 /\ results'[n] \in Seq(Abroad(n, Event))
                 /\ \A s \in Slot(n) : \A d \in peer'[n][s].queued : d.to # n
                 /\ \A d \in network' : d.from # d.to
<1>0. /\ Apart(n) /\ (\A d \in network : d.from # d.to)
      /\ PoolInv /\ HandshakeInv /\ Hosts /\ results = [k \in Node |-> results[k]]
      /\ peer_map = [k \in Node |-> peer_map[k]] /\ peer_map[n] \in [Node -> Slot(n) \cup {NoSlot}]
  BY DEF BelowInv, ServerInv, PoolInv, Hosts, PoolAt, AllApart, Announcements
<1>1. ASSUME NEW d \in network, is_protocol_head_valid(n, d), d.to = n,
             NEW type \in {"connect_succeed", "recieve"},
             post_result(n, type, d.peer, peer[n][d.peer].address)
      PROVE  results'[n] \in Seq(Abroad(n, Event))
  <2>1. /\ results'[n] = Append(results[n], Notice(type, d.peer, peer[n][d.peer].address))
        /\ d.peer \in Slot(n) /\ peer[n][d.peer].address = d.from
    BY <1>0, <1>1, Addressed DEF post_result, is_protocol_head_valid
  <2>2. d.from \in Node \ {n}
    BY <1>0, <1>1 DEF PoolInv, Senders
  <2>. QED BY <2>1, <2>2, EventAbroad
<1>2. ASSUME NEW d \in network, is_protocol_head_valid(n, d), d.to = n, NEW p,
             p.address = peer[n][d.peer].address, post_ack_packet(n, p, d.seq)
      PROVE  \A e \in network' : e.from # e.to
  <2>1. peer[n][d.peer].address = d.from /\ d.from # n
    BY <1>0, <1>2 DEF is_protocol_head_valid
  <2>. DEFINE e == Packet(n, p, "ack", NoSlot, d.seq, NoMessage)
  <2>2. e.from # e.to /\ network' = network \cup {e}
    BY <1>2, <2>1 DEF Packet, post_ack_packet
  <2>. HIDE DEF e
  <2>. QED BY <1>0, <2>2
<1>3. ASSUME NEW d \in network, handle_acknowledge(n, d) PROVE G
  <2>. DEFINE p == peer[n][d.peer]
              q(state) == [Released(p, d.ack) EXCEPT !.state = state]
  <2>1. /\ d.to = n /\ is_protocol_head_valid(n, d)
        /\ UNCHANGED <<peer_map, incoming_requests, network>>
        /\ results' = results \/ post_result(n, "connect_succeed", d.peer, p.address)
        /\ \E state : peer' = [peer EXCEPT ![n][d.peer] = q(state)]
    BY <1>3 DEF handle_acknowledge, Incoming
  <2>2. PICK state : peer' = [peer EXCEPT ![n][d.peer] = q(state)]
    BY <2>1
  <2>3. d.peer \in Slot(n) /\ PeerOK(p)
    BY <1>0, <2>1, Addressed
  <2>4. q(state).queued = p.queued
    BY <2>3 DEF Released, PeerOK, Fields
  <2>5. \A e \in p.queued : e.to # n
    BY <1>0, <2>3 DEF Apart
  <2>6. \A s \in Slot(n) : \A e \in peer'[n][s].queued : e.to # n
    <3>1. \A e \in q(state).queued : e.to # n
      BY <2>4, <2>5
    <3>. DEFINE o == q(state)
    <3>2. peer' = [peer EXCEPT ![n][d.peer] = o]
      BY <2>2
    <3>. HIDE DEF o
    <3>. QED BY <2>3, <3>1, <3>2, PeerAbroad DEF o
  <2>7. results'[n] \in Seq(Abroad(n, Event))
    BY <1>0, <1>1, <2>1 DEF Apart
  <2>. QED BY <1>0, <2>1, <2>6, <2>7 DEF Apart
<1>4. ASSUME NEW d \in network, handle_connection(n, d) PROVE G
  <2>. DEFINE s == SlotFor(n, d.from)
              r == Channel(peer[n][s])
              p == [r EXCEPT
                      !.outPeer = d.src, !.session = d.session, !.address = d.from,
                      !.partner = d.msg.incarnation,
                      !.state = "connecting_ack", !.inSeq = d.seq + 1]
              q == Remembered(n, p, "verify", s, d.seq)
  <2>1. /\ d.to = n /\ HasSlotFor(n, d.from) /\ peer' = [peer EXCEPT ![n][s] = q]
        /\ peer_map' = [peer_map EXCEPT ![n][d.from] = s]
        /\ UNCHANGED <<incoming_requests, results, network>>
    BY <1>4 DEF handle_connection, Incoming, SetUp
  <2>2. d.from \in Node /\ d.from # n
    BY <1>0, <2>1 DEF PoolInv, Senders
  <2>3. s \in Slot(n)
    BY <1>0, <2>1, <2>2, SlotInPool
  <2>4. PeerOK(r)
    BY <1>0, <2>3, PeerOfHost, PeerOperations
  <2>5. r.queued = {}
    <3>1. PeerOK(peer[n][s])
      BY <1>0, <2>3, PeerOfHost
    <3>. QED BY <3>1 DEF Channel, PeerOK, Fields
  <2>6. PeerOK(p) /\ p.address = d.from /\ p.queued = {}
    <3>. HIDE DEF r
    <3>. QED BY <2>2, <2>4, <2>5 DEF PeerOK, Fields
  <2>7. \A e \in q.queued : e.to # n
    <3>. HIDE DEF p
    <3>. QED BY <2>2, <2>6, QueuedAbroad
  <2>8. \A t \in Slot(n) : \A e \in peer'[n][t].queued : e.to # n
    <3>. HIDE DEF q
    <3>. QED BY <2>1, <2>3, <2>7, PeerAbroad
  <2>9. peer_map'[n][n] = NoSlot
    <3>. HIDE DEF s
    <3>. QED BY <1>0, <2>1, <2>2 DEF Apart
  <2>. QED BY <1>0, <2>1, <2>8, <2>9 DEF Apart
<1>5. ASSUME NEW d \in network, handle_verify_connection(n, d) PROVE G
  <2>. DEFINE p == peer[n][d.peer]
              r == Released(p, d.ack)
              q == [r EXCEPT !.outPeer = d.src, !.state = "connected",
                      !.partner = d.msg.incarnation,
                      !.inSeq = IF @ <= d.seq THEN d.seq + 1 ELSE @]
  <2>1. d.to = n /\ is_protocol_head_valid(n, d) /\ UNCHANGED <<peer_map, incoming_requests>>
    BY <1>5 DEF handle_verify_connection, Incoming
  <2>2. d.peer \in Slot(n) /\ PeerOK(p)
    BY <1>0, <2>1, Addressed
  <2>3. q.queued = p.queued /\ q.address = p.address
    <3>1. PeerOK(r) /\ r.address = p.address
      BY <2>2, PeerOperations
    <3>2. r.queued = p.queued
      BY <2>2 DEF Released, PeerOK, Fields
    <3>. HIDE DEF r, p
    <3>. QED BY <3>1, <3>2 DEF PeerOK, Fields
  <2>4. \A e \in p.queued : e.to # n
    BY <1>0, <2>2 DEF Apart
  <2>5. \/ peer' = peer /\ results' = results /\ post_ack_packet(n, p, d.seq)
        \/ /\ peer' = [peer EXCEPT ![n][d.peer] = q] /\ post_ack_packet(n, q, d.seq)
           /\ post_result(n, "connect_succeed", d.peer, p.address)
    <3>. HIDE DEF r
    <3>. QED BY <1>5 DEF handle_verify_connection, r
  <2>. HIDE DEF p, q
  <2>6. \A s \in Slot(n) : \A e \in peer'[n][s].queued : e.to # n
    BY <1>0, <2>2, <2>3, <2>4, <2>5, PeerAbroad DEF Apart
  <2>7. \A e \in network' : e.from # e.to
    BY <1>2, <2>1, <2>3, <2>5 DEF p
  <2>8. results'[n] \in Seq(Abroad(n, Event))
    BY <1>0, <1>1, <2>1, <2>5 DEF Apart, p
  <2>. QED BY <1>0, <2>1, <2>6, <2>7, <2>8 DEF Apart
<1>6. ASSUME NEW d \in network, handle_disconnected(n, d) PROVE G
  <2>. DEFINE p == peer[n][d.peer]
              q == [p EXCEPT !.state = "disconnected"]
  <2>1. /\ d.to = n /\ is_protocol_head_valid(n, d)
        /\ UNCHANGED <<peer_map, incoming_requests, results>>
        /\ peer' = [peer EXCEPT ![n][d.peer] = q]
        /\ post_ack_packet(n, p, d.seq)
    <3>1. peer' = [peer EXCEPT ![n][d.peer].state = "disconnected"]
      BY <1>6 DEF handle_disconnected
    <3>. QED BY <1>6, <3>1 DEF handle_disconnected, Incoming
  <2>2. d.peer \in Slot(n) /\ PeerOK(p)
    BY <1>0, <2>1, Addressed
  <2>3. q.queued = p.queued
    BY <2>2 DEF PeerOK, Fields
  <2>4. \A e \in p.queued : e.to # n
    BY <1>0, <2>2 DEF Apart
  <2>5. \A e \in network' : e.from # e.to
    BY <1>2, <2>1
  <2>6. \A s \in Slot(n) : \A e \in peer'[n][s].queued : e.to # n
    <3>. HIDE DEF p, q
    <3>1. \A e \in q.queued : e.to # n
      BY <2>3, <2>4
    <3>2. peer' = [peer EXCEPT ![n][d.peer] = q] /\ d.peer \in Slot(n)
      BY <2>1, <2>2
    <3>. QED BY <3>1, <3>2, PeerAbroad
  <2>. QED BY <1>0, <2>1, <2>5, <2>6 DEF Apart
<1>7. ASSUME NEW d \in network, handle_recieve_reliable(n, d) PROVE G
  <2>. DEFINE p == peer[n][d.peer]
              q == [p EXCEPT !.inSeq = @ + 1, !.got = Append(@, d.msg)]
              r == [p EXCEPT !.early = @ \cup {d}]
  <2>1. /\ d.to = n /\ is_protocol_head_valid(n, d)
        /\ UNCHANGED <<peer_map, incoming_requests>>
        /\ post_ack_packet(n, p, d.seq)
        /\ results' = results \/ post_result(n, "recieve", d.peer, p.address)
        /\ \/ peer' = peer \/ peer' = [peer EXCEPT ![n][d.peer] = q]
           \/ peer' = [peer EXCEPT ![n][d.peer] = r]
    BY <1>7 DEF handle_recieve_reliable, Incoming
  <2>2. d.peer \in Slot(n) /\ PeerOK(p)
    BY <1>0, <2>1, Addressed
  <2>3. q.queued = p.queued /\ r.queued = p.queued
    BY <2>2 DEF PeerOK, Fields
  <2>4. \A e \in p.queued : e.to # n
    BY <1>0, <2>2 DEF Apart
  <2>5. \A e \in network' : e.from # e.to
    BY <1>2, <2>1
  <2>6. results'[n] \in Seq(Abroad(n, Event))
    BY <1>0, <1>1, <2>1 DEF Apart
  <2>7. \A s \in Slot(n) : \A e \in peer'[n][s].queued : e.to # n
    <3>. HIDE DEF p, q, r
    <3>0. (\A e \in q.queued : e.to # n) /\ \A e \in r.queued : e.to # n
      BY <2>3, <2>4
    <3>4. d.peer \in Slot(n)
      BY <2>2
    <3>1. CASE peer' = peer
      BY <1>0, <3>1 DEF Apart
    <3>2. CASE peer' = [peer EXCEPT ![n][d.peer] = q]
      BY <3>0, <3>2, <3>4, PeerAbroad
    <3>3. CASE peer' = [peer EXCEPT ![n][d.peer] = r]
      BY <3>0, <3>3, <3>4, PeerAbroad
    <3>. QED BY <2>1, <3>1, <3>2, <3>3
  <2>. QED BY <1>0, <2>1, <2>5, <2>6, <2>7 DEF Apart
<1>8. ASSUME NEW d \in network, handle_connection_refused(n, d) PROVE G
  BY <1>0, <1>8 DEF handle_connection_refused, poolVars, Apart
<1>9. ASSUME do_handle_incoming_packets_end(n) PROVE G
  BY <1>0, <1>9 DEF do_handle_incoming_packets_end, poolVars, Apart
<1>. QED BY <1>3, <1>4, <1>5, <1>6, <1>7, <1>8, <1>9 DEF PacketPass

\* The operations of the pool keep the peers abroad.
LEMMA SetUpAbroad ==
  ASSUME BelowInv, AllApart, NEW n \in Node, NEW a \in Node \ {n}, HasSlotFor(n, a),
         NEW p, \A d \in p.queued : d.to # n, SetUp(n, a, p)
  PROVE  /\ peer_map'[n][n] = NoSlot
         /\ \A s \in Slot(n) : \A d \in peer'[n][s].queued : d.to # n
<1>. DEFINE s == SlotFor(n, a)
<1>1. /\ Hosts /\ peer_map = [k \in Node |-> peer_map[k]]
      /\ peer_map[n] \in [Node -> Slot(n) \cup {NoSlot}]
  BY DEF BelowInv, ServerInv, PoolInv, Hosts, PoolAt
<1>2. s \in Slot(n)
  BY <1>1, SlotInPool
<1>3. peer' = [peer EXCEPT ![n][s] = p] /\ peer_map' = [peer_map EXCEPT ![n][a] = s]
  BY DEF SetUp
<1>. HIDE DEF s
<1>4. peer_map'[n][n] = NoSlot
  BY <1>1, <1>3 DEF AllApart, Apart
<1>5. \A t \in Slot(n) : \A d \in peer'[n][t].queued : d.to # n
  BY <1>2, <1>3, PeerAbroad
<1>. QED BY <1>4, <1>5

LEMMA DestroyAbroad ==
  ASSUME BelowInv, AllApart, NEW n \in Node, NEW s \in Slot(n), Destroy(n, s)
  PROVE  /\ peer_map'[n][n] = NoSlot
         /\ \A t \in Slot(n) : \A d \in peer'[n][t].queued : d.to # n
<1>1. /\ peer_map = [k \in Node |-> peer_map[k]]
      /\ peer_map[n] \in [Node -> Slot(n) \cup {NoSlot}]
  BY DEF BelowInv, ServerInv, PoolInv, Hosts, PoolAt
<1>2. peer_map'[n][n] = NoSlot
  BY <1>1 DEF Destroy, AllApart, Apart
<1>. DEFINE u == Unused(peer[n][s].address)
<1>3. u.queued = {} /\ peer' = [peer EXCEPT ![n][s] = u]
  BY DEF Unused, Destroy
<1>. HIDE DEF u
<1>4. \A d \in u.queued : d.to # n
  BY <1>3
<1>5. \A t \in Slot(n) : \A d \in peer'[n][t].queued : d.to # n
  BY <1>3, <1>4, PeerAbroad
<1>. QED BY <1>2, <1>5

\* The first request is taken.
LEMMA TakenAbroad ==
  ASSUME BelowInv, AllApart, NEW n \in Node, NEW type, Executing(n, type)
  PROVE  /\ Head(incoming_requests[n]) \in Abroad(n, Requested(n))
         /\ Head(incoming_requests[n]).type = type
         /\ incoming_requests'[n] = Tail(incoming_requests[n])
         /\ incoming_requests'[n] \in Seq(Abroad(n, Requested(n)))
         /\ network' = network
<1>1. /\ incoming_requests[n] \in Seq(Abroad(n, Requested(n))) /\ incoming_requests[n] # <<>>
      /\ incoming_requests = [k \in Node |-> incoming_requests[k]]
  BY Tables DEF AllApart, Apart, Executing
<1>2. incoming_requests'[n] = Tail(incoming_requests[n])
  BY <1>1 DEF Executing
<1>. QED BY <1>1, <1>2 DEF Executing

LEMMA RequestAbroad ==
  ASSUME BelowInv, AllApart, NEW n \in Node, RequestPass(n)
  PROVE  /\ peer_map'[n][n] = NoSlot
         /\ incoming_requests'[n] \in Seq(Abroad(n, Requested(n)))
         /\ results'[n] \in Seq(Abroad(n, Event))
         /\ \A s \in Slot(n) : \A d \in peer'[n][s].queued : d.to # n
         /\ network' = network
<1>. DEFINE R == Head(incoming_requests[n])
            G == /\ peer_map'[n][n] = NoSlot
                 /\ incoming_requests'[n] \in Seq(Abroad(n, Requested(n)))
                 /\ results'[n] \in Seq(Abroad(n, Event))
                 /\ \A s \in Slot(n) : \A d \in peer'[n][s].queued : d.to # n
                 /\ network' = network
<1>0. /\ Apart(n) /\ PoolInv /\ Hosts /\ results = [k \in Node |-> results[k]]
      /\ results[n] \in Seq(Abroad(n, Event))
      /\ \A s \in Slot(n) : \A d \in peer[n][s].queued : d.to # n
  BY DEF BelowInv, ServerInv, PoolInv, AllApart, Apart, Announcements
<1>1. CASE exec_connect(n)
  <2>. DEFINE s == SlotFor(n, R.address)
              r == Channel(peer[n][s])
              p == [r EXCEPT !.address = R.address, !.outPeer = 0, !.state = "connecting",
                      !.session = SessionOf(n, R.address)]
              q == Remembered(n, p, "connection", s, NoSlot)
  <2>1. /\ R \in Abroad(n, Requested(n)) /\ network' = network
        /\ incoming_requests'[n] \in Seq(Abroad(n, Requested(n)))
    BY <1>1, TakenAbroad DEF exec_connect
  <2>2. R.address \in Node \ {n}
    BY <2>1 DEF Abroad, Requested, Request
  <2>3. \/ UNCHANGED poolVars /\ results' = results
        \/ UNCHANGED poolVars /\ post_result(n, "connect_fail", NoSlot, R.address)
        \/ HasSlotFor(n, R.address) /\ SetUp(n, R.address, q) /\ results' = results
    BY <1>1 DEF exec_connect
  <2>4. CASE UNCHANGED poolVars /\ results' = results
    BY <1>0, <2>1, <2>4 DEF poolVars, Apart
  <2>5. CASE UNCHANGED poolVars /\ post_result(n, "connect_fail", NoSlot, R.address)
    <3>1. results'[n] = Append(results[n], Notice("connect_fail", NoSlot, R.address))
      BY <1>0, <2>5 DEF post_result
    <3>2. results'[n] \in Seq(Abroad(n, Event))
      <4>. HIDE DEF R
      <4>. QED BY <2>2, <3>1, EventAbroad
    <3>. QED BY <1>0, <2>1, <2>5, <3>2 DEF poolVars, Apart
  <2>6. CASE HasSlotFor(n, R.address) /\ SetUp(n, R.address, q) /\ results' = results
    <3>1. PeerOK(peer[n][s])
      BY <1>0, <2>2, <2>6, SlotInPool, PeerOfHost
    <3>2. PeerOK(r) /\ r.queued = {}
      <4>1. PeerOK(r)
        BY <3>1, PeerOperations
      <4>. QED BY <3>1, <4>1 DEF Channel, PeerOK, Fields
    <3>3. PeerOK(p) /\ p.address = R.address /\ p.queued = {}
      <4>. HIDE DEF r, R
      <4>. QED BY <2>2, <3>2 DEF PeerOK, Fields
    <3>4. \A d \in q.queued : d.to # n
      <4>. HIDE DEF p
      <4>. QED BY <2>2, <3>3, QueuedAbroad
    <3>5. /\ peer_map'[n][n] = NoSlot
          /\ \A t \in Slot(n) : \A d \in peer'[n][t].queued : d.to # n
      <4>. HIDE DEF q, R
      <4>. QED BY <2>2, <2>6, <3>4, SetUpAbroad
    <3>. QED BY <1>0, <2>1, <2>6, <3>5
  <2>. QED BY <2>3, <2>4, <2>5, <2>6
<1>2. CASE exec_dropped(n)
  <2>1. PICK type : Executing(n, type)
    BY <1>2 DEF exec_dropped
  <2>2. network' = network /\ incoming_requests'[n] \in Seq(Abroad(n, Requested(n)))
    BY <2>1, TakenAbroad
  <2>. QED BY <1>0, <1>2, <2>2 DEF exec_dropped, poolVars, Apart
<1>3. ASSUME NEW p, NEW q, NEW type, Executing(n, type), Live(n, R.slot), type # "connect",
             \/ q = Remembered(n, p, "disconnection", NoSlot, NoSlot)
             \/ q = Posted(n, p, "data", NoSlot, NoSlot,
                           [incarnation |-> p.incarnation, index |-> p.outSeq]),
             p = peer[n][R.slot] \/ p = [peer[n][R.slot] EXCEPT !.state = "disconnecting"],
             peer' = [peer EXCEPT ![n][R.slot] = q], UNCHANGED <<peer_map, results>>
      PROVE  G
  <2>1. /\ R \in Requested(n) /\ R.type = type /\ network' = network
        /\ incoming_requests'[n] \in Seq(Abroad(n, Requested(n)))
    BY <1>3, TakenAbroad DEF Abroad
  <2>2. R.slot \in Slot(n)
    BY <1>3, <2>1 DEF Requested
  <2>3. PeerOK(peer[n][R.slot]) /\ peer[n][R.slot].address # n
    BY <1>0, <1>3, <2>2, LiveInUse, PeersAbroad, PeerOfHost
  <2>. HIDE DEF R
  <2>4. PeerOK(p) /\ p.address # n /\ p.queued = peer[n][R.slot].queued
    BY <1>3, <2>3 DEF PeerOK, Fields
  <2>5. \A d \in p.queued : d.to # n
    BY <1>0, <2>2, <2>4
  <2>6. \A d \in q.queued : d.to # n
    BY <1>3, <2>4, <2>5, QueuedAbroad
  <2>7. \A t \in Slot(n) : \A d \in peer'[n][t].queued : d.to # n
    BY <1>3, <2>2, <2>6, PeerAbroad
  <2>. QED BY <1>0, <1>3, <2>1, <2>7 DEF Apart
<1>4. CASE exec_send_reliable(n)
  <2>. DEFINE p == peer[n][R.slot]
              q == Posted(n, p, "data", NoSlot, NoSlot,
                          [incarnation |-> p.incarnation, index |-> p.outSeq])
  <2>1. /\ Executing(n, "send") /\ Live(n, R.slot)
        /\ peer' = [peer EXCEPT ![n][R.slot] = q] /\ UNCHANGED <<peer_map, results>>
    BY <1>4 DEF exec_send_reliable
  <2>. QED BY <1>3, <2>1
<1>5. CASE exec_disconnect(n)
  <2>. DEFINE p == [peer[n][R.slot] EXCEPT !.state = "disconnecting"]
              q == Remembered(n, p, "disconnection", NoSlot, NoSlot)
  <2>1. /\ Executing(n, "disconnect") /\ Live(n, R.slot)
        /\ peer' = [peer EXCEPT ![n][R.slot] = q] /\ UNCHANGED <<peer_map, results>>
    BY <1>5 DEF exec_disconnect
  <2>. QED BY <1>3, <2>1
<1>6. CASE exec_reset(n)
  <2>1. PICK type \in {"disconnected", "connect_fail"} : Executing(n, type)
    BY <1>6 DEF exec_reset
  <2>2. /\ R \in Abroad(n, Requested(n)) /\ R.type = type /\ network' = network
        /\ incoming_requests'[n] \in Seq(Abroad(n, Requested(n)))
    BY <2>1, TakenAbroad
  <2>3. R.slot \in Slot(n) /\ R.address \in Node \ {n}
    BY <2>1, <2>2 DEF Abroad, Requested, Request
  <2>4. /\ post_result(n, R.type, R.slot, R.address)
        /\ Destroy(n, R.slot) \/ UNCHANGED poolVars
    BY <1>6 DEF exec_reset
  <2>. HIDE DEF R
  <2>5. results'[n] = Append(results[n], Notice(type, R.slot, R.address))
    BY <1>0, <2>2, <2>4 DEF post_result
  <2>6. results'[n] \in Seq(Abroad(n, Event))
    BY <2>1, <2>3, <2>5, EventAbroad
  <2>7. /\ peer_map'[n][n] = NoSlot
        /\ \A t \in Slot(n) : \A d \in peer'[n][t].queued : d.to # n
    <3>1. CASE UNCHANGED poolVars
      BY <1>0, <3>1 DEF poolVars, Apart
    <3>2. CASE Destroy(n, R.slot)
      BY <2>3, <3>2, DestroyAbroad
    <3>. QED BY <2>4, <3>1, <3>2
  <2>. QED BY <2>2, <2>6, <2>7
<1>7. CASE do_exec_user_requests_end(n)
  BY <1>0, <1>7 DEF do_exec_user_requests_end, poolVars, Apart
<1>. QED BY <1>1, <1>2, <1>4, <1>5, <1>6, <1>7 DEF RequestPass

\* The peer an update visits, and the packets it has ready.
LEMMA ReadyCounted ==
  ASSUME BelowInv, NEW n \in Node, Updating(n)
  PROVE  LET s == Head(service.rest)
         IN  /\ s \in Slot(n) /\ s \in Elems(using_list[n])
             /\ Len(Ready(peer[n][s])) \in Nat
<1>. DEFINE s == Head(service.rest)
<1>1. s \in Slot(n) /\ s \in Elems(using_list[n])
  BY Visited DEF BelowInv, ServerInv
<1>. HIDE DEF s
<1>2. Speaks(n, peer[n][s], heard)
  BY <1>1, PeerSpeaks DEF BelowInv, ServerInv, HandshakeInv
<1>3. Len(Ready(peer[n][s])) \in Nat
  BY <1>2, ReadyInOrder DEF Speaks
<1>. QED BY <1>1, <1>3 DEF s

\* A peer has as many events to tell of as packets ready.
LEMMA Recieved ==
  ASSUME BelowInv, NEW n \in Node, Updating(n),
         NEW k \in 0..Len(Ready(peer[n][Head(service.rest)]))
  PROVE  LET s == Head(service.rest)
         IN  /\ s \in Slot(n) /\ s \in Elems(using_list[n])
             /\ k \in Nat
             /\ RecieveEvents(n, s, k)
                  = [i \in 1..k |-> Notice("recieve", s, peer[n][s].address)]
BY ReadyCounted DEF RecieveEvents

LEMMA UpdateAbroad ==
  ASSUME BelowInv, AllApart, NEW n \in Node, UpdatePass(n)
  PROVE  /\ peer_map'[n][n] = NoSlot
         /\ incoming_requests'[n] \in Seq(Abroad(n, Requested(n)))
         /\ results'[n] \in Seq(Abroad(n, Event))
         /\ \A s \in Slot(n) : \A d \in peer'[n][s].queued : d.to # n
         /\ \A d \in network' : d.from # d.to
<1>. DEFINE s == Head(service.rest)
            p == peer[n][s]
            last == Len(Ready(p))
            G == /\ peer_map'[n][n] = NoSlot
                 /\ incoming_requests'[n] \in Seq(Abroad(n, Requested(n)))
                 /\ results'[n] \in Seq(Abroad(n, Event))
                 /\ \A t \in Slot(n) : \A d \in peer'[n][t].queued : d.to # n
                 /\ \A d \in network' : d.from # d.to
<1>0. /\ Apart(n) /\ Hosts /\ results = [k \in Node |-> results[k]]
      /\ incoming_requests = [k \in Node |-> incoming_requests[k]]
      /\ \A d \in network : d.from # d.to
  BY Tables DEF BelowInv, ServerInv, PoolInv, AllApart, Apart
<1>1. ASSUME Updating(n), NEW k \in 0..last,
             results' = [results EXCEPT ![n] = @ \o RecieveEvents(n, s, k)]
      PROVE  /\ s \in Slot(n) /\ s \in Elems(using_list[n]) /\ p.address \in Node \ {n}
             /\ PeerOK(p) /\ results'[n] \in Seq(Abroad(n, Event))
  <2>1. /\ s \in Slot(n) /\ s \in Elems(using_list[n]) /\ k \in Nat
        /\ RecieveEvents(n, s, k) = [i \in 1..k |-> Notice("recieve", s, p.address)]
    BY <1>1, Recieved
  <2>2. p.address \in Node \ {n} /\ PeerOK(p)
    BY <1>0, <2>1, PeersAbroad, PeerOfHost
  <2>. DEFINE e == Notice("recieve", s, p.address)
  <2>3. e \in Abroad(n, Event)
    <3>. HIDE DEF s
    <3>. QED BY <2>1, <2>2, EventAbroad
  <2>. HIDE DEF e
  <2>4. RecieveEvents(n, s, k) \in Seq(Abroad(n, Event))
    BY <2>1, <2>3 DEF e
  <2>5. results'[n] = results[n] \o RecieveEvents(n, s, k)
    BY <1>0, <1>1
  <2>6. results'[n] \in Seq(Abroad(n, Event))
    BY <1>0, <2>4, <2>5 DEF Apart
  <2>. QED BY <2>1, <2>2, <2>6
<1>2. CASE update(n)
  <2>. DEFINE r == Advanced(p, last)
              q == [r EXCEPT !.state = IF @ = "disconnected" THEN "zombie" ELSE @,
                             !.waiting = @ \cup p.queued, !.queued = {}]
  <2>1. /\ Updating(n) /\ results' = [results EXCEPT ![n] = @ \o RecieveEvents(n, s, last)]
        /\ peer' = [peer EXCEPT ![n][s] = q] /\ network' = network \cup p.queued
        /\ UNCHANGED <<peer_map, incoming_requests>>
    BY <1>2 DEF update
  <2>2. last \in 0..last
    <3>1. Updating(n)
      BY <2>1
    <3>2. last \in Nat
      BY <3>1, ReadyCounted
    <3>. HIDE DEF last
    <3>. QED BY <3>2
  <2>3. /\ s \in Slot(n) /\ PeerOK(p) /\ results'[n] \in Seq(Abroad(n, Event))
    BY <1>1, <2>1, <2>2
  <2>4. q.queued = {}
    <3>1. PeerOK(r)
      BY <2>3, PeerOperations
    <3>. HIDE DEF r, p
    <3>. QED BY <3>1 DEF PeerOK, Fields
  <2>5. \A t \in Slot(n) : \A d \in peer'[n][t].queued : d.to # n
    <3>. HIDE DEF q, s
    <3>. QED BY <2>1, <2>3, <2>4, PeerAbroad
  <2>6. \A d \in network' : d.from # d.to
    <3>1. \A d \in p.queued : d.from = n /\ d.to # n
      BY <1>0, <2>3, PeerSpeaks DEF BelowInv, ServerInv, HandshakeInv, Speaks, Sends, Apart
    <3>. QED BY <1>0, <2>1, <3>1
  <2>. QED BY <1>0, <2>1, <2>3, <2>5, <2>6 DEF Apart
<1>3. CASE update_fail(n)
  <2>1. PICK k \in 0..last : results' = [results EXCEPT ![n] = @ \o RecieveEvents(n, s, k)]
    BY <1>3 DEF update_fail
  <2>2. /\ Updating(n) /\ Destroy(n, s) /\ post_request(n, NowRequest(n, s))
        /\ network' = network
    BY <1>3 DEF update_fail
  <2>3. /\ s \in Slot(n) /\ p.address \in Node \ {n} /\ results'[n] \in Seq(Abroad(n, Event))
    BY <1>1, <2>1, <2>2
  <2>4. NowRequest(n, s) \in Abroad(n, Requested(n))
    <3>1. NowRequest(n, s) \in Requested(n)
      BY <1>0, <2>3, RequestedOfSlot
    <3>. QED BY <2>3, <3>1 DEF NowRequest, Notice, Abroad
  <2>5. incoming_requests'[n] = Append(incoming_requests[n], NowRequest(n, s))
    BY <1>0, <2>2 DEF post_request
  <2>. HIDE DEF s
  <2>6. /\ peer_map'[n][n] = NoSlot
        /\ \A t \in Slot(n) : \A d \in peer'[n][t].queued : d.to # n
    BY <2>2, <2>3, DestroyAbroad
  <2>. QED BY <1>0, <2>2, <2>3, <2>4, <2>5, <2>6 DEF Apart
<1>4. CASE update_crash(n)
  BY <1>0, <1>4 DEF update_crash, poolVars, Apart
<1>. QED BY <1>2, <1>3, <1>4 DEF UpdatePass

\* What a tick asks the server of n for: requests about other nodes.
LEMMA AskedAbroad ==
  ASSUME BelowInv, AllApart, IsFiniteSet(Node), NEW n \in Node, tick_hosts(n), Requests'
  PROVE  incoming_requests'[n] \in Seq(Abroad(n, Requested(n)))
<1>. DEFINE order == SetToSeq(Node)
            asked(h) == FlattenSeq([i \in DOMAIN order |-> Asked(h[order[i]], order[i])])
            T == [type : {"connect", "disconnect"}, slot : Slot(n) \cup {NoSlot}, address : Node]
            B == {r \in T : r.address # n}
<1>1. PICK late :
        /\ incoming_requests' = [incoming_requests EXCEPT ![n] = @ \o asked(InTime(n, late))]
  BY DEF tick_hosts, InTime
<1>. DEFINE h == InTime(n, late)
<1>2. ASSUME NEW m \in Node PROVE Asked(h[m], m) \in Seq(B)
  <2>1. /\ h[m].state = host[n][m].state /\ h[m].slot = host[n][m].slot
        /\ Slotted(n, host[n][m])
    <3>1. DOMAIN host[n][m] = DOMAIN NoHost /\ Slotted(n, host[n][m])
      BY DEF BelowInv, AllWait, HostsOfNodes, AllSlotted
    <3>. QED BY <3>1 DEF InTime, TimedOut, Flushed, NoHost, NewHost
  <2>. HIDE DEF h
  <2>2. CASE m = n
    <3>1. h[m].state = "not_created"
      BY <2>1, <2>2 DEF AllApart, Apart
    <3>. QED BY <3>1 DEF Asked
  <2>3. CASE m # n
    <3>1. Notice("connect", NoSlot, m) \in B
      BY <2>3 DEF Notice
    <3>2. h[m].state = "disconnecting" => Notice("disconnect", h[m].slot, m) \in B
      BY <2>1, <2>3 DEF Notice, Slotted
    <3>. HIDE DEF B
    <3>. QED BY <3>1, <3>2 DEF Asked
  <2>. QED BY <2>2, <2>3
<1>. HIDE DEF h
<1>3. asked(h) \in Seq(B)
  <2>. DEFINE c == Len(order)
              q == [i \in DOMAIN order |-> Asked(h[order[i]], order[i])]
  <2>1. order \in Seq(Node)
    BY NodesInOrder
  <2>2. c \in Nat /\ DOMAIN order = 1..c /\ \A i \in 1..c : order[i] \in Node
    BY <2>1
  <2>3. Len(q) = c /\ \A i \in 1..c : q[i] \in Seq(B)
    BY <1>2, <2>2
  <2>4. c = 0 => q = <<>>
    BY <2>2
  <2>. HIDE DEF order, B, q
  <2>5. c = 0 => FlattenSeq(q) \in Seq(B)
    BY <2>3, <2>4 DEF FlattenSeq
  <2>6. c # 0 => FlattenSeq(q) \in Seq(B)
    BY <2>2, <2>3, FlatIsSeq
  <2>. QED BY <2>5, <2>6 DEF q
<1>. DEFINE R == asked(h)
            Q == incoming_requests[n]
<1>4. Q \in Seq(Abroad(n, Requested(n))) /\ incoming_requests'[n] = Q \o R /\ R \in Seq(B)
  <2>1. Q \in Seq(Abroad(n, Requested(n)))
    BY DEF AllApart, Apart
  <2>2. incoming_requests'[n] = Q \o R
    <3>. HIDE DEF asked
    <3>1. incoming_requests = [k \in Node |-> incoming_requests[k]]
      BY Tables
    <3>. QED BY <1>1, <3>1 DEF h
  <2>. QED BY <1>3, <2>1, <2>2
<1>5. Q \o R \in Seq(Requested(n))
  BY <1>4 DEF Requests
<1>. HIDE DEF R, Q, B
<1>6. Q \o R \in Seq(Abroad(n, Requested(n)))
  <2>1. /\ Len(Q) \in Nat /\ Len(R) \in Nat /\ Len(Q \o R) = Len(Q) + Len(R)
        /\ \A i \in 1..Len(Q) : (Q \o R)[i] = Q[i] /\ Q[i] \in Abroad(n, Requested(n))
        /\ \A i \in (Len(Q) + 1)..(Len(Q) + Len(R)) :
             (Q \o R)[i] = R[i - Len(Q)] /\ R[i - Len(Q)] \in B
    BY <1>4
  <2>2. \A i \in 1..Len(Q \o R) : (Q \o R)[i].address # n
    BY <2>1 DEF Abroad, B
  <2>3. \A i \in 1..Len(Q \o R) : (Q \o R)[i] \in Abroad(n, Requested(n))
    BY <1>5, <2>2 DEF Abroad
  <2>. DEFINE W == Q \o R
  <2>4. W \in Seq(Requested(n)) /\ \A i \in 1..Len(W) : W[i] \in Abroad(n, Requested(n))
    BY <1>5, <2>3
  <2>. HIDE DEF W
  <2>5. W \in Seq(Abroad(n, Requested(n)))
    BY <2>4
  <2>. QED BY <2>5 DEF W
<1>. QED BY <1>4, <1>6

LEMMA ApartStays ==
  ASSUME BelowInv, BelowInv', AllApart, IsFiniteSet(Node), [ManagerNext]_allVars
  PROVE  AllApart'
<1>0. \A d \in network : d.from # d.to
  BY DEF AllApart
<1>1. ASSUME NEW n \in Node, tick_server(n) PROVE AllApart'
  <2>1. /\ UNCHANGED <<peer, peer_map, incoming_requests, network, host>>
        /\ results' = [results EXCEPT ![n] = <<>>]
    BY <1>1 DEF tick_server, do_service, poolVars
  <2>2. results'[n] \in Seq(Abroad(n, Event))
    BY <2>1, Tables
  <2>3. Apart(n)'
    BY <2>1, <2>2 DEF AllApart, Apart, Requested
  <2>. QED BY <1>0, <1>1, <2>1, <2>3, Elsewhere, ApartElsewhere
<1>2. ASSUME NEW n \in Node, server_passes(n) PROVE AllApart'
  <2>1. host' = host
    BY <1>2 DEF server_passes, managerVars
  <2>2. /\ peer_map'[n][n] = NoSlot
        /\ incoming_requests'[n] \in Seq(Abroad(n, Requested(n)))
        /\ results'[n] \in Seq(Abroad(n, Event))
        /\ \A s \in Slot(n) : \A d \in peer'[n][s].queued : d.to # n
        /\ \A d \in network' : d.from # d.to
    <3>1. CASE PacketPass(n)
      BY <3>1, PacketAbroad DEF AllApart, Apart
    <3>2. CASE RequestPass(n)
      BY <1>0, <3>2, RequestAbroad
    <3>3. CASE UpdatePass(n)
      BY <3>3, UpdateAbroad
    <3>. QED BY <1>2, <3>1, <3>2, <3>3 DEF server_passes
  <2>3. Apart(n)'
    BY <2>1, <2>2 DEF AllApart, Apart, Requested
  <2>. QED BY <1>2, <2>2, <2>3, Elsewhere, ApartElsewhere
<1>3. ASSUME NEW n \in Node, HandleEvent(n) PROVE AllApart'
  <2>1. /\ UNCHANGED <<peer, peer_map, incoming_requests, network>>
        /\ results[n] # <<>>
        /\ results' = results \/ results' = [results EXCEPT ![n] = Tail(@)]
        /\ host' = host \/ \E g : host' = [host EXCEPT ![n][Head(results[n]).address] = g]
    BY <1>3 DEF HandleEvent, create_connection, cancel_connection, remove_connection,
                queue_incoming_packet, recieve_from_unknown_host, Handling, Pending, peek_event,
                UpdateHost, poolVars, managerVars
  <2>2. results[n] \in Seq(Abroad(n, Event)) /\ results = [k \in Node |-> results[k]]
    BY Tables DEF AllApart, Apart
  <2>3. results'[n] \in Seq(Abroad(n, Event)) /\ Head(results[n]).address # n
    BY <2>1, <2>2 DEF Abroad
  <2>4. host'[n][n] = host[n][n]
    BY <2>1, <2>3 DEF BelowInv, AllWait, HostsOfNodes
  <2>5. Apart(n)'
    BY <2>1, <2>3, <2>4 DEF AllApart, Apart, Requested
  <2>. QED BY <1>0, <1>3, <2>1, <2>5, Elsewhere, ApartElsewhere
<1>4. ASSUME NEW n \in Node, tick_hosts(n) PROVE AllApart'
  <2>1. UNCHANGED <<peer, peer_map, results, network>>
    BY <1>4 DEF tick_hosts, poolVars
  <2>2. Requests'
    BY DEF BelowInv, ServerInv, PoolInv
  <2>3. incoming_requests'[n] \in Seq(Abroad(n, Requested(n)))
    BY <1>4, <2>2, AskedAbroad
  <2>4. host'[n][n].state = "not_created"
    <3>1. PICK late : host' = [host EXCEPT ![n] = [m \in Node |-> Ticked(InTime(n, late)[m])]]
      BY <1>4 DEF tick_hosts, InTime
    <3>. DEFINE h == InTime(n, late)[n]
    <3>2. DOMAIN host[n][n] = DOMAIN NoHost /\ host[n][n].state = "not_created"
      BY DEF BelowInv, AllWait, HostsOfNodes, AllApart, Apart
    <3>3. h.state = "not_created"
      BY <3>2 DEF InTime, TimedOut, Flushed, NoHost, NewHost
    <3>4. host'[n][n] = Ticked(h)
      BY <3>1 DEF BelowInv, AllWait, HostsOfNodes
    <3>. HIDE DEF h
    <3>. QED BY <3>3, <3>4 DEF Ticked
  <2>5. Apart(n)'
    BY <2>1, <2>3, <2>4 DEF AllApart, Apart, Requested
  <2>. QED BY <1>0, <1>4, <2>1, <2>5, Elsewhere, ApartElsewhere
<1>5. ASSUME NEW n \in Node, NEW m \in Node \ {n}, ManagerUser(n, m) PROVE AllApart'
  <2>1. /\ UNCHANGED <<peer, peer_map, results, network>>
        /\ \/ incoming_requests' = incoming_requests
           \/ post_request(n, Notice("send", host[n][m].slot, m))
        /\ \/ host' = host
           \/ \E g : host' = [host EXCEPT ![n][m] = g]
    <3>1. CASE manual_connect(n, m)
      <4>1. host' = [host EXCEPT ![n][m] = [host[n][m] EXCEPT !.state = "connecting"]]
        BY <3>1 DEF manual_connect, BelowInv, AllWait, HostsOfNodes
      <4>. QED BY <3>1, <4>1 DEF manual_connect, Asking, Calling, poolVars
    <3>2. CASE on_event_add_host(n, m)
      BY <3>2 DEF on_event_add_host, Asking, Calling, poolVars
    <3>3. CASE manual_disconnect(n, m)
      <4>1. host' = [host EXCEPT ![n][m] = [host[n][m] EXCEPT !.state = "disconnecting"]]
        BY <3>3 DEF manual_disconnect, BelowInv, AllWait, HostsOfNodes
      <4>. QED BY <3>3, <4>1 DEF manual_disconnect, Asking, Calling, poolVars
    <3>4. CASE send_packet(n, m)
      BY <3>4 DEF send_packet, Calling, poolVars, managerVars
    <3>. QED BY <1>5, <3>1, <3>2, <3>3, <3>4 DEF ManagerUser
  <2>2. incoming_requests'[n] \in Seq(Abroad(n, Requested(n)))
    <3>1. incoming_requests[n] \in Seq(Abroad(n, Requested(n)))
      BY DEF AllApart, Apart
    <3>2. incoming_requests' = incoming_requests
          \/ incoming_requests'[n]
               = Append(incoming_requests[n], Notice("send", host[n][m].slot, m))
      BY <2>1, Tables DEF post_request
    <3>3. incoming_requests'[n] \in Seq(Requested(n))
      BY DEF BelowInv, ServerInv, PoolInv, Requests, Requested
    <3>. DEFINE r == Notice("send", host[n][m].slot, m)
    <3>4. CASE incoming_requests'[n] = Append(incoming_requests[n], r)
      <4>1. r.address # n
        BY DEF Notice
      <4>. HIDE DEF r
      <4>2. /\ Len(incoming_requests[n]) + 1 \in 1..Len(incoming_requests'[n])
            /\ incoming_requests'[n][Len(incoming_requests[n]) + 1] = r
        BY <3>1, <3>4
      <4>3. r \in Abroad(n, Requested(n))
        BY <3>3, <4>1, <4>2 DEF Abroad
      <4>. QED BY <3>1, <3>4, <4>3
    <3>. QED BY <3>1, <3>2, <3>4
  <2>3. host'[n][n] = host[n][n]
    BY <2>1 DEF BelowInv, AllWait, HostsOfNodes
  <2>4. Apart(n)'
    BY <2>1, <2>2, <2>3 DEF AllApart, Apart, Requested
  <2>. QED BY <1>0, <1>5, <2>1, <2>4, Elsewhere, ApartElsewhere
<1>6. CASE UNCHANGED allVars
  BY <1>6 DEF allVars, vars, poolVars, AllApart, Apart, Requested
<1>. QED BY <1>1, <1>2, <1>3, <1>4, <1>5, <1>6 DEF ManagerNext

-------------------------------------------------------------------------------
(* Queues by the types of what they hold. *)

Types(q) == {q[i].type : i \in 1..Len(q)}

\* A request to connect, or the notice that a connection failed: one attempt.
Tries == {"connect", "connect_fail"}

Once(q) ==
  \A i, j \in 1..Len(q) : q[i].type \in Tries /\ q[j].type \in Tries => i = j

\* Once a connection is gone, none is announced.
Ordered(q) ==
  \A i, j \in 1..Len(q) :
    i < j /\ q[i].type = "disconnected" => q[j].type # "connect_succeed"

LEMMA TypesAppended ==
  ASSUME NEW S, NEW q \in Seq(S), NEW e \in S
  PROVE  /\ Types(Append(q, e)) = Types(q) \cup {e.type}
         /\ Once(q) /\ (e.type \in Tries => Types(q) \cap Tries = {}) => Once(Append(q, e))
<1>1. /\ Len(Append(q, e)) = Len(q) + 1 /\ Len(q) \in Nat
      /\ \A i \in 1..Len(q) : Append(q, e)[i] = q[i]
      /\ Append(q, e)[Len(q) + 1] = e
  OBVIOUS
<1>. DEFINE r == Append(q, e)
            c == Len(q)
<1>2. /\ Len(r) = c + 1 /\ c \in Nat /\ r[c + 1] = e /\ \A i \in 1..c : r[i] = q[i]
  BY <1>1
<1>. HIDE DEF r
<1>3. Types(r) = Types(q) \cup {e.type}
  <2>1. 1..(c + 1) = (1..c) \cup {c + 1}
    BY <1>2
  <2>. QED BY <1>2, <2>1 DEF Types
<1>4. ASSUME Once(q), e.type \in Tries => Types(q) \cap Tries = {} PROVE Once(r)
  <2>1. \A i \in 1..c : e.type \in Tries => q[i].type \notin Tries
    BY <1>4 DEF Types
  <2>2. \A i \in 1..(c + 1) : i \in 1..c \/ i = c + 1
    BY <1>2
  <2>. QED BY <1>2, <1>4, <2>1, <2>2 DEF Once
<1>. QED BY <1>3, <1>4 DEF r

LEMMA TypesTaken ==
  ASSUME NEW S, NEW q \in Seq(S), q # <<>>
  PROVE  /\ Types(q) = {Head(q).type} \cup Types(Tail(q))
         /\ Once(q) => Once(Tail(q))
         /\ Once(q) /\ Head(q).type \in Tries => Types(Tail(q)) \cap Tries = {}
         /\ Ordered(q) => Ordered(Tail(q))
         /\ Ordered(q) /\ Head(q).type = "disconnected" => "connect_succeed" \notin Types(Tail(q))
<1>. DEFINE t == Tail(q)
            c == Len(q)
<1>1. /\ c \in Nat \ {0} /\ Len(t) = c - 1 /\ Head(q) = q[1]
      /\ \A i \in 1..(c - 1) : t[i] = q[i + 1]
  OBVIOUS
<1>. HIDE DEF t
<1>2. Types(q) = {q[1].type} \cup Types(t)
  <2>1. Types(t) = {q[i + 1].type : i \in 1..(c - 1)}
    BY <1>1 DEF Types
  <2>2. \A i \in 1..c : i = 1 \/ (i - 1 \in 1..(c - 1) /\ (i - 1) + 1 = i)
    BY <1>1
  <2>3. \A i \in 1..(c - 1) : i + 1 \in 1..c
    BY <1>1
  <2>4. 1 \in 1..c
    BY <1>1
  <2>5. ASSUME NEW i \in 1..c PROVE q[i].type \in {q[1].type} \cup Types(t)
    <3>1. CASE i = 1 BY <3>1
    <3>2. CASE i - 1 \in 1..(c - 1) /\ (i - 1) + 1 = i
      BY <2>1, <3>2
    <3>. QED BY <2>2, <3>1, <3>2
  <2>. QED BY <2>1, <2>3, <2>4, <2>5 DEF Types
<1>3. ASSUME Once(q) PROVE Once(t)
  <2>1. ASSUME NEW i \in 1..(c - 1), NEW j \in 1..(c - 1), t[i].type \in Tries, t[j].type \in Tries
        PROVE  i = j
    <3>1. i + 1 \in 1..c /\ j + 1 \in 1..c /\ t[i] = q[i + 1] /\ t[j] = q[j + 1]
      BY <1>1
    <3>2. i + 1 = j + 1
      BY <1>3, <2>1, <3>1 DEF Once
    <3>. QED BY <3>2
  <2>. QED BY <1>1, <2>1 DEF Once
<1>4. ASSUME Once(q), q[1].type \in Tries PROVE Types(t) \cap Tries = {}
  <2>1. ASSUME NEW i \in 1..(c - 1) PROVE t[i].type \notin Tries
    <3>1. i + 1 \in 1..c /\ 1 \in 1..c /\ i + 1 # 1 /\ t[i] = q[i + 1]
      BY <1>1
    <3>. QED BY <1>4, <3>1 DEF Once
  <2>. QED BY <1>1, <2>1 DEF Types
<1>5. Ordered(q) => Ordered(t)
  BY <1>1 DEF Ordered
<1>6. ASSUME Ordered(q), q[1].type = "disconnected" PROVE "connect_succeed" \notin Types(t)
  <2>1. ASSUME NEW i \in 1..(c - 1) PROVE t[i].type # "connect_succeed"
    <3>1. i + 1 \in 1..c /\ 1 \in 1..c /\ 1 < i + 1 /\ t[i] = q[i + 1]
      BY <1>1
    <3>. QED BY <1>6, <3>1 DEF Ordered
  <2>. QED BY <1>1, <2>1 DEF Types
<1>. QED BY <1>1, <1>2, <1>3, <1>4, <1>5, <1>6 DEF t

LEMMA TypesJoined ==
  ASSUME NEW S, NEW q \in Seq(S), NEW w \in Seq(S)
  PROVE  /\ Types(q \o w) = Types(q) \cup Types(w)
         /\ Ordered(q) /\ "connect_succeed" \notin Types(w) => Ordered(q \o w)
<1>. DEFINE r == q \o w
            c == Len(q)
            k == Len(w)
<1>1. /\ c \in Nat /\ k \in Nat /\ Len(r) = c + k
      /\ \A i \in 1..c : r[i] = q[i]
      /\ \A i \in (c + 1)..(c + k) : r[i] = w[i - c]
  OBVIOUS
<1>. HIDE DEF r
<1>2. \A i \in 1..(c + k) : i \in 1..c \/ (i \in (c + 1)..(c + k) /\ i - c \in 1..k)
  BY <1>1
<1>3. \A i \in 1..k : i + c \in (c + 1)..(c + k) /\ i + c \in 1..(c + k) /\ (i + c) - c = i
  BY <1>1
<1>4. \A i \in 1..c : i \in 1..(c + k)
  BY <1>1
<1>5. Types(r) \subseteq Types(q) \cup Types(w)
  BY <1>1, <1>2 DEF Types
<1>6. Types(q) \subseteq Types(r)
  BY <1>1, <1>4 DEF Types
<1>7. Types(w) \subseteq Types(r)
  <2>1. ASSUME NEW i \in 1..k PROVE w[i].type \in Types(r)
    <3>1. r[i + c] = w[i] /\ i + c \in 1..Len(r)
      BY <1>1, <1>3
    <3>. QED BY <3>1 DEF Types
  <2>. QED BY <2>1 DEF Types
<1>8. ASSUME Ordered(q), "connect_succeed" \notin Types(w) PROVE Ordered(r)
  <2>1. ASSUME NEW i \in 1..(c + k), NEW j \in 1..(c + k), i < j, r[i].type = "disconnected"
        PROVE  r[j].type # "connect_succeed"
    <3>1. CASE j \in 1..c
      <4>1. i \in 1..c
        BY <1>1, <2>1, <3>1
      <4>. QED BY <1>1, <1>8, <2>1, <3>1, <4>1 DEF Ordered
    <3>2. CASE j \in (c + 1)..(c + k) /\ j - c \in 1..k
      BY <1>1, <1>8, <3>2 DEF Types
    <3>. QED BY <1>2, <3>1, <3>2
  <2>. QED BY <1>1, <2>1 DEF Ordered
<1>. QED BY <1>5, <1>6, <1>7, <1>8 DEF r

\* Server n has events of those types more.
Tells(n, T) ==
  \E w \in Seq(Event) : results'[n] = results[n] \o w /\ Types(w) \subseteq T

LEMMA EventsTyped ==
  ASSUME AllApart, NEW n \in Node
  PROVE  results[n] \in Seq(Event)
<1>1. results[n] \in Seq(Abroad(n, Event)) /\ Abroad(n, Event) \subseteq Event
  BY DEF AllApart, Apart, Abroad
<1>. HIDE DEF Abroad
<1>. QED BY <1>1, SeqMonotonic, Zenon

LEMMA Telling ==
  ASSUME AllApart, NEW n \in Node, NEW T, Tells(n, T)
  PROVE  /\ Types(results[n]) \subseteq Types(results'[n])
         /\ Types(results'[n]) \subseteq Types(results[n]) \cup T
         /\ Ordered(results[n]) /\ "connect_succeed" \notin T => Ordered(results'[n])
<1>1. PICK w \in Seq(Event) : results'[n] = results[n] \o w /\ Types(w) \subseteq T
  BY DEF Tells
<1>2. results[n] \in Seq(Event)
  BY EventsTyped
<1>3. /\ Types(results'[n]) = Types(results[n]) \cup Types(w)
      /\ Ordered(results[n]) /\ "connect_succeed" \notin Types(w) => Ordered(results'[n])
  BY <1>1, <1>2, TypesJoined
<1>. QED BY <1>1, <1>3

LEMMA TellsNothing ==
  ASSUME AllApart, NEW n \in Node, results'[n] = results[n]
  PROVE  \A T : Tells(n, T)
<1>1. results[n] \in Seq(Event)
  BY EventsTyped
<1>2. results[n] \o <<>> = results[n] /\ <<>> \in Seq(Event) /\ Types(<<>>) = {}
  BY <1>1 DEF Types
<1>. QED BY <1>2 DEF Tells

LEMMA TellsOne ==
  ASSUME BelowInv, AllApart, AllApart', NEW n \in Node, NEW type, NEW s, NEW a,
         post_result(n, type, s, a)
  PROVE  Tells(n, {type}) /\ type \in Types(results'[n])
<1>. DEFINE e == Notice(type, s, a)
            c == Len(results[n])
<1>1. results[n] \in Seq(Event) /\ results'[n] \in Seq(Event)
  <2>1. results'[n] \in Seq(Abroad(n, Event)) /\ Abroad(n, Event) \subseteq Event
    BY DEF AllApart, Apart, Abroad
  <2>2. results'[n] \in Seq(Event)
    BY <2>1, SeqMonotonic, Zenon
  <2>. QED BY <2>2, EventsTyped
<1>2. results'[n] = Append(results[n], e)
  BY Tables DEF post_result
<1>3. e.type = type
  BY DEF Notice
<1>. HIDE DEF e
<1>4. c + 1 \in 1..Len(results'[n]) /\ results'[n][c + 1] = e
  BY <1>1, <1>2
<1>5. e \in Event
  BY <1>1, <1>4
<1>6. /\ <<e>> \in Seq(Event) /\ results'[n] = results[n] \o <<e>>
      /\ Types(<<e>>) = {type}
  BY <1>1, <1>2, <1>3, <1>5 DEF Types
<1>. QED BY <1>3, <1>4, <1>6 DEF Tells, Types

LEMMA TellsRecieved ==
  ASSUME BelowInv, AllApart, NEW n \in Node, Updating(n),
         NEW k \in 0..Len(Ready(peer[n][Head(service.rest)])),
         results' = [results EXCEPT ![n] = @ \o RecieveEvents(n, Head(service.rest), k)]
  PROVE  Tells(n, {"recieve"})
<1>. DEFINE s == Head(service.rest)
            e == Notice("recieve", s, peer[n][s].address)
            w == RecieveEvents(n, s, k)
<1>1. /\ s \in Slot(n) /\ s \in Elems(using_list[n]) /\ k \in Nat /\ w = [i \in 1..k |-> e]
  BY Recieved
<1>2. e.type = "recieve"
  BY DEF Notice
<1>3. e \in Event
  BY <1>1, PeersAbroad DEF Notice, Event, AnySlot
<1>4. results'[n] = results[n] \o w
  BY Tables
<1>. HIDE DEF e, w
<1>5. w \in Seq(Event) /\ Types(w) \subseteq {"recieve"}
  BY <1>1, <1>2, <1>3 DEF Types
<1>. QED BY <1>4, <1>5 DEF Tells

-------------------------------------------------------------------------------
(* Two nodes: what a pass of the server does for the host of the other. *)

\* A peer of n waits for the answer to its connection.
Trying(n) == \E s \in Slot(n) : peer[n][s].state = "connecting"

\* All slots in use are one.
LEMMA OneUsed ==
  ASSUME BelowInv, AllApart, NEW n \in Node, NEW m \in Node, Node = {n, m},
         NEW s \in Elems(using_list[n])
  PROVE  s \in Slot(n) /\ s = peer_map[n][m] /\ peer_map[n][m] # NoSlot
         /\ peer[n][s].address = m /\ m # n
<1>1. s \in Slot(n) /\ peer[n][s].address = m /\ m # n
  BY PeersAbroad
<1>2. peer_map[n][peer[n][s].address] = s
  BY DEF BelowInv, ServerInv, PoolInv, Hosts, PoolAt
<1>. QED BY <1>1, <1>2, SlotFacts

LEMMA OneLive ==
  ASSUME BelowInv, AllApart, NEW n \in Node, NEW m \in Node, Node = {n, m},
         NEW s \in Slot(n), Live(n, s)
  PROVE  s = peer_map[n][m] /\ peer_map[n][m] # NoSlot
<1>1. s \in Elems(using_list[n])
  BY LiveInUse DEF BelowInv, ServerInv, PoolInv
<1>. QED BY <1>1, OneUsed

LEMMA OneState ==
  ASSUME BelowInv, NEW n \in Node, NEW s \in Slot(n), NEW q,
         peer' = [peer EXCEPT ![n][s] = q]
  PROVE  peer'[n][s] = q /\ \A t \in Slot(n) \ {s} : peer'[n][t] = peer[n][t]
<1>1. /\ peer = [k \in Node |-> peer[k]] /\ DOMAIN peer[n] = Slot(n)
  BY DEF BelowInv, ServerInv, PoolInv, Hosts, PoolAt
<1>. QED BY <1>1

LEMMA NoneTries ==
  ASSUME BelowInv, NEW n \in Node, NEW s \in Slot(n), NEW q,
         peer' = [peer EXCEPT ![n][s] = q],
         q.state = "connecting" => peer[n][s].state = "connecting"
  PROVE  Trying(n)' => Trying(n)
<1>1. peer'[n][s] = q /\ \A t \in Slot(n) \ {s} : peer'[n][t] = peer[n][t]
  BY OneState
<1>. QED BY <1>1 DEF Trying

\* The peer in use is no longer connecting: no peer is.
LEMMA TriesNoMore ==
  ASSUME BelowInv, AllApart, NEW n \in Node, NEW m \in Node, Node = {n, m},
         NEW s \in Elems(using_list[n]), NEW q, peer' = [peer EXCEPT ![n][s] = q],
         q.state # "connecting"
  PROVE  ~Trying(n)'
<1>1. s \in Slot(n)
  BY PeersAbroad
<1>2. peer'[n][s] = q /\ \A t \in Slot(n) \ {s} : peer'[n][t] = peer[n][t]
  BY <1>1, OneState
<1>3. ASSUME NEW t \in Slot(n), peer'[n][t].state = "connecting" PROVE FALSE
  <2>1. t # s /\ peer[n][t].state = "connecting"
    BY <1>2, <1>3
  <2>2. Live(n, t)
    BY <2>1 DEF Live
  <2>3. t = peer_map[n][m]
    BY <2>2, OneLive
  <2>4. s = peer_map[n][m]
    BY OneUsed
  <2>. QED BY <2>1, <2>3, <2>4
<1>. QED BY <1>3 DEF Trying

Quiet(n, m, T) ==
  /\ Tells(n, T) /\ peer_map'[n][m] = peer_map[n][m] /\ (Trying(n)' => Trying(n))
  /\ incoming_requests'[n] = incoming_requests[n]

\* The connection is established.
Announces(n, m) ==
  /\ Tells(n, {"connect_succeed"}) /\ peer_map'[n][m] = peer_map[n][m]
  /\ peer_map[n][m] # NoSlot /\ ~Trying(n)'
  /\ incoming_requests'[n] = incoming_requests[n]

\* The other node is heard to connect.
IsCalled(n, m) ==
  /\ n \notin Connectors /\ peer_map'[n][m] # NoSlot
  /\ Tells(n, {}) /\ incoming_requests'[n] = incoming_requests[n]

LEMMA PacketMoves ==
  ASSUME BelowInv, AllApart, AllApart', NEW n \in Node, NEW m \in Node, Node = {n, m},
         ~(Node \subseteq Connectors), PacketPass(n)
  PROVE  Quiet(n, m, {"recieve"}) \/ Announces(n, m) \/ IsCalled(n, m)
<1>. DEFINE G == Quiet(n, m, {"recieve"}) \/ Announces(n, m) \/ IsCalled(n, m)
<1>0. /\ PoolInv /\ HandshakeInv /\ Hosts /\ peer_map = [k \in Node |-> peer_map[k]]
      /\ \A s \in Slot(n) : PeerOK(peer[n][s])
      /\ \A d \in network : d.from # d.to
  BY PeerOfHost DEF BelowInv, ServerInv, PoolInv, Hosts, AllApart
<1>1. ASSUME NEW d \in network, handle_acknowledge(n, d) PROVE G
  <2>. DEFINE p == peer[n][d.peer]
              q(state) == [Released(p, d.ack) EXCEPT !.state = state]
  <2>1. /\ is_protocol_head_valid(n, d) /\ UNCHANGED <<peer_map, incoming_requests>>
        /\ \E state \in {"connected", "disconnected"} :
             /\ peer' = [peer EXCEPT ![n][d.peer] = q(state)]
             /\ \/ results' = results
                \/ post_result(n, "connect_succeed", d.peer, p.address)
    BY <1>1 DEF handle_acknowledge
  <2>2. d.peer \in Slot(n) /\ d.peer \in Elems(using_list[n]) /\ PeerOK(p)
    BY <1>0, <2>1, Addressed
  <2>3. PICK state \in {"connected", "disconnected"} :
          /\ peer' = [peer EXCEPT ![n][d.peer] = q(state)]
          /\ \/ results' = results
             \/ post_result(n, "connect_succeed", d.peer, p.address)
    BY <2>1
  <2>. DEFINE o == q(state)
  <2>4. o.state # "connecting"
    BY <2>2, <2>3 DEF Released, PeerOK, Fields
  <2>5. peer' = [peer EXCEPT ![n][d.peer] = o]
    BY <2>3
  <2>. HIDE DEF o
  <2>6. ~Trying(n)'
    BY <2>2, <2>4, <2>5, TriesNoMore
  <2>7. peer_map[n][m] # NoSlot
    BY <2>2, OneUsed
  <2>8. CASE results' = results
    BY <2>1, <2>6, <2>8, TellsNothing DEF Quiet
  <2>9. CASE post_result(n, "connect_succeed", d.peer, p.address)
    <3>1. Tells(n, {"connect_succeed"})
      BY <2>9, TellsOne
    <3>. QED BY <2>1, <2>6, <2>7, <3>1 DEF Announces
  <2>. QED BY <2>3, <2>8, <2>9
<1>2. ASSUME NEW d \in network, handle_connection(n, d) PROVE G
  <2>1. /\ d.to = n /\ d.kind = "connection" /\ HasSlotFor(n, d.from)
        /\ peer_map' = [peer_map EXCEPT ![n][d.from] = SlotFor(n, d.from)]
        /\ UNCHANGED <<incoming_requests, results>>
    BY <1>2 DEF handle_connection, Incoming, SetUp
  <2>2. d.from = m
    BY <1>0, <2>1 DEF PoolInv, Senders
  <2>3. m \in Connectors
    BY <1>0, <2>1, <2>2 DEF HandshakeInv, Traffic, Travels, SentBy
  <2>4. n \notin Connectors
    BY <2>3
  <2>5. SlotFor(n, m) # NoSlot
    BY <1>0, <2>1, <2>2, SlotInPool, SlotFacts
  <2>6. peer_map'[n][m] # NoSlot
    <3>1. peer_map[n] \in [Node -> Slot(n) \cup {NoSlot}]
      BY <1>0 DEF Hosts, PoolAt
    <3>. QED BY <1>0, <2>1, <2>2, <2>5, <3>1
  <2>. QED BY <2>1, <2>4, <2>6, TellsNothing DEF IsCalled
<1>3. ASSUME NEW d \in network, handle_verify_connection(n, d) PROVE G
  <2>. DEFINE p == peer[n][d.peer]
              r == Released(p, d.ack)
              q == [r EXCEPT !.outPeer = d.src, !.state = "connected",
                      !.partner = d.msg.incarnation,
                      !.inSeq = IF @ <= d.seq THEN d.seq + 1 ELSE @]
  <2>1. is_protocol_head_valid(n, d) /\ UNCHANGED <<peer_map, incoming_requests>>
    BY <1>3 DEF handle_verify_connection
  <2>2. d.peer \in Slot(n) /\ d.peer \in Elems(using_list[n]) /\ PeerOK(p)
    BY <1>0, <2>1, Addressed
  <2>3. q.state = "connected"
    <3>1. PeerOK(r)
      BY <2>2, PeerOperations
    <3>. HIDE DEF r
    <3>. QED BY <3>1 DEF PeerOK, Fields
  <2>4. \/ peer' = peer /\ results' = results
        \/ /\ peer' = [peer EXCEPT ![n][d.peer] = q]
           /\ post_result(n, "connect_succeed", d.peer, p.address)
    <3>. HIDE DEF r
    <3>. QED BY <1>3 DEF handle_verify_connection, r
  <2>. HIDE DEF p, q
  <2>5. CASE peer' = peer /\ results' = results
    BY <2>1, <2>5, TellsNothing DEF Quiet, Trying
  <2>6. CASE /\ peer' = [peer EXCEPT ![n][d.peer] = q]
             /\ post_result(n, "connect_succeed", d.peer, p.address)
    <3>1. Tells(n, {"connect_succeed"})
      BY <2>6, TellsOne
    <3>2. q.state # "connecting"
      BY <2>3
    <3>3. ~Trying(n)'
      BY <2>2, <2>6, <3>2, TriesNoMore
    <3>4. peer_map[n][m] # NoSlot
      BY <2>2, OneUsed
    <3>. QED BY <2>1, <3>1, <3>3, <3>4 DEF Announces
  <2>. QED BY <2>4, <2>5, <2>6
<1>4. ASSUME NEW d \in network, NEW q, is_protocol_head_valid(n, d),
             peer' = peer \/ peer' = [peer EXCEPT ![n][d.peer] = q],
             q.state \in {"disconnected", peer[n][d.peer].state},
             UNCHANGED <<peer_map, incoming_requests>>,
             \/ results' = results
             \/ post_result(n, "recieve", d.peer, peer[n][d.peer].address)
      PROVE  Quiet(n, m, {"recieve"})
  <2>1. d.peer \in Slot(n)
    BY <1>0, <1>4, Addressed
  <2>2. Trying(n)' => Trying(n)
    <3>1. CASE peer' = peer
      BY <3>1 DEF Trying
    <3>2. CASE peer' = [peer EXCEPT ![n][d.peer] = q]
      BY <1>4, <2>1, <3>2, NoneTries
    <3>. QED BY <1>4, <3>1, <3>2
  <2>3. Tells(n, {"recieve"})
    BY <1>4, TellsNothing, TellsOne
  <2>. QED BY <1>4, <2>2, <2>3 DEF Quiet
<1>5. ASSUME NEW d \in network, handle_disconnected(n, d) PROVE G
  <2>. DEFINE q == [peer[n][d.peer] EXCEPT !.state = "disconnected"]
  <2>1. /\ is_protocol_head_valid(n, d) /\ UNCHANGED <<peer_map, incoming_requests, results>>
        /\ peer' = [peer EXCEPT ![n][d.peer] = q]
    <3>1. peer' = [peer EXCEPT ![n][d.peer].state = "disconnected"]
      BY <1>5 DEF handle_disconnected
    <3>. QED BY <1>5, <3>1 DEF handle_disconnected
  <2>2. q.state = "disconnected"
    BY <1>0, <2>1 DEF is_protocol_head_valid, PeerOK, Fields
  <2>. HIDE DEF q
  <2>. QED BY <1>4, <2>1, <2>2
<1>6. ASSUME NEW d \in network, handle_recieve_reliable(n, d) PROVE G
  <2>. DEFINE p == peer[n][d.peer]
              q == [p EXCEPT !.inSeq = @ + 1, !.got = Append(@, d.msg)]
              r == [p EXCEPT !.early = @ \cup {d}]
  <2>1. /\ is_protocol_head_valid(n, d) /\ UNCHANGED <<peer_map, incoming_requests>>
        /\ results' = results \/ post_result(n, "recieve", d.peer, p.address)
        /\ \/ peer' = peer \/ peer' = [peer EXCEPT ![n][d.peer] = q]
           \/ peer' = [peer EXCEPT ![n][d.peer] = r]
    BY <1>6 DEF handle_recieve_reliable
  <2>2. q.state = p.state /\ r.state = p.state
    BY <1>0, <2>1 DEF is_protocol_head_valid, PeerOK, Fields
  <2>3. \E o : o.state = p.state /\ (peer' = peer \/ peer' = [peer EXCEPT ![n][d.peer] = o])
    <3>. HIDE DEF p, q, r
    <3>. QED BY <2>1, <2>2
  <2>. QED BY <1>4, <2>1, <2>3
<1>7. ASSUME NEW d \in network, handle_connection_refused(n, d) PROVE G
  BY <1>7, TellsNothing DEF handle_connection_refused, poolVars, Quiet, Trying
<1>8. ASSUME do_handle_incoming_packets_end(n) PROVE G
  BY <1>8, TellsNothing DEF do_handle_incoming_packets_end, poolVars, Quiet, Trying
<1>. QED BY <1>1, <1>2, <1>3, <1>5, <1>6, <1>7, <1>8 DEF PacketPass

\* A request is executed.
Serves(n, m) ==
  \E type :
    /\ Executing(n, type)
    /\ \/ /\ type \in {"send", "disconnect"}
          /\ Tells(n, {}) /\ peer_map'[n][m] = peer_map[n][m] /\ (Trying(n)' => Trying(n))
       \/ /\ type \in {"disconnected", "connect_fail"}
          /\ Tells(n, {type}) /\ type \in Types(results'[n])
          /\ (peer_map[n][m] = NoSlot => peer_map'[n][m] = NoSlot) /\ (Trying(n)' => Trying(n))
       \/ type = "connect" /\ Tells(n, {"connect_fail"})

\* A peer is given up.
GivenUp(n, m) ==
  /\ Tells(n, {"recieve"}) /\ peer_map[n][m] # NoSlot /\ peer_map'[n][m] = NoSlot
  /\ ~Trying(n)'
  /\ \E r \in Requested(n) :
       /\ incoming_requests'[n] = Append(incoming_requests[n], r)
       /\ \/ r.type = "disconnected"
          \/ r.type = "connect_fail" /\ Trying(n) /\ n \in Connectors

\* A slot is destroyed.
LEMMA SlotGoes ==
  ASSUME BelowInv, NEW n \in Node, NEW m \in Node, NEW s \in Slot(n), Destroy(n, s)
  PROVE  /\ peer_map[n][m] = NoSlot => peer_map'[n][m] = NoSlot
         /\ peer[n][s].address = m => peer_map'[n][m] = NoSlot
         /\ Trying(n)' => Trying(n)
         /\ peer' = [peer EXCEPT ![n][s] = Unused(peer[n][s].address)]
<1>1. /\ peer_map = [k \in Node |-> peer_map[k]]
      /\ peer_map[n] \in [Node -> Slot(n) \cup {NoSlot}]
  BY DEF BelowInv, ServerInv, PoolInv, Hosts, PoolAt
<1>2. /\ peer_map[n][m] = NoSlot => peer_map'[n][m] = NoSlot
      /\ peer[n][s].address = m => peer_map'[n][m] = NoSlot
  BY <1>1 DEF Destroy
<1>. DEFINE u == Unused(peer[n][s].address)
<1>3. u.state = "zombie" /\ peer' = [peer EXCEPT ![n][s] = u]
  BY DEF Destroy, Unused
<1>. HIDE DEF u
<1>4. Trying(n)' => Trying(n)
  BY <1>3, NoneTries
<1>. QED BY <1>2, <1>3, <1>4 DEF u

LEMMA RequestMoves ==
  ASSUME BelowInv, AllApart, AllApart', NEW n \in Node, NEW m \in Node, Node = {n, m},
         RequestPass(n)
  PROVE  Quiet(n, m, {}) \/ Serves(n, m)
<1>. DEFINE R == Head(incoming_requests[n])
            G == Quiet(n, m, {}) \/ Serves(n, m)
<1>1. CASE exec_connect(n)
  <2>1. Executing(n, "connect")
    BY <1>1 DEF exec_connect
  <2>2. results' = results \/ post_result(n, "connect_fail", NoSlot, R.address)
    BY <1>1 DEF exec_connect
  <2>3. Tells(n, {"connect_fail"})
    BY <2>2, TellsNothing, TellsOne
  <2>. QED BY <2>1, <2>3 DEF Serves
<1>2. CASE exec_dropped(n)
  <2>1. PICK type \in {"send", "disconnect"} : Executing(n, type)
    BY <1>2 DEF exec_dropped
  <2>2. Tells(n, {}) /\ peer_map'[n][m] = peer_map[n][m] /\ (Trying(n)' => Trying(n))
    BY <1>2, TellsNothing DEF exec_dropped, poolVars, Trying
  <2>. QED BY <2>1, <2>2 DEF Serves
<1>3. ASSUME NEW q, NEW type \in {"send", "disconnect"}, Executing(n, type),
             peer' = [peer EXCEPT ![n][R.slot] = q],
             q.state = "connecting" => peer[n][R.slot].state = "connecting",
             UNCHANGED <<peer_map, results>>
      PROVE  G
  <2>1. R.slot \in Slot(n)
    BY <1>3, TakenAbroad DEF Abroad, Requested
  <2>2. Trying(n)' => Trying(n)
    <3>. HIDE DEF R
    <3>. QED BY <1>3, <2>1, NoneTries
  <2>3. Tells(n, {})
    BY <1>3, TellsNothing
  <2>. QED BY <1>3, <2>2, <2>3 DEF Serves
<1>4. ASSUME NEW type, Executing(n, type), type # "connect"
      PROVE  R.slot \in Slot(n) /\ PeerOK(peer[n][R.slot])
  <2>1. R.slot \in Slot(n)
    BY <1>4, TakenAbroad DEF Abroad, Requested
  <2>. QED BY <2>1, PeerOfHost DEF BelowInv, ServerInv, PoolInv
<1>5. CASE exec_send_reliable(n)
  <2>. DEFINE p == peer[n][R.slot]
              q == Posted(n, p, "data", NoSlot, NoSlot,
                          [incarnation |-> p.incarnation, index |-> p.outSeq])
  <2>1. /\ Executing(n, "send")
        /\ peer' = [peer EXCEPT ![n][R.slot] = q] /\ UNCHANGED <<peer_map, results>>
    BY <1>5 DEF exec_send_reliable
  <2>2. PeerOK(p)
    BY <1>4, <2>1
  <2>3. q.state = p.state
    <3>. HIDE DEF p
    <3>. QED BY <2>2 DEF Posted, PeerOK, Fields
  <2>. HIDE DEF q
  <2>. QED BY <1>3, <2>1, <2>3
<1>6. CASE exec_disconnect(n)
  <2>. DEFINE p == [peer[n][R.slot] EXCEPT !.state = "disconnecting"]
              q == Remembered(n, p, "disconnection", NoSlot, NoSlot)
  <2>1. /\ Executing(n, "disconnect")
        /\ peer' = [peer EXCEPT ![n][R.slot] = q] /\ UNCHANGED <<peer_map, results>>
    BY <1>6 DEF exec_disconnect
  <2>2. PeerOK(peer[n][R.slot])
    BY <1>4, <2>1
  <2>3. PeerOK(p) /\ p.state = "disconnecting"
    BY <2>2 DEF PeerOK, Fields
  <2>4. q.state = "disconnecting"
    <3>. HIDE DEF p
    <3>. QED BY <2>3 DEF Remembered, Posted, PeerOK, Fields
  <2>. HIDE DEF q
  <2>. QED BY <1>3, <2>1, <2>4
<1>7. CASE exec_reset(n)
  <2>1. PICK type \in {"disconnected", "connect_fail"} : Executing(n, type)
    BY <1>7 DEF exec_reset
  <2>2. R.slot \in Slot(n) /\ R.type = type
    BY <1>4, <2>1, TakenAbroad
  <2>3. /\ post_result(n, R.type, R.slot, R.address)
        /\ Destroy(n, R.slot) \/ UNCHANGED poolVars
    BY <1>7 DEF exec_reset
  <2>. HIDE DEF R
  <2>4. Tells(n, {type}) /\ type \in Types(results'[n])
    BY <2>2, <2>3, TellsOne
  <2>5. /\ peer_map[n][m] = NoSlot => peer_map'[n][m] = NoSlot
        /\ Trying(n)' => Trying(n)
    <3>1. CASE UNCHANGED poolVars
      BY <3>1 DEF poolVars, Trying
    <3>2. CASE Destroy(n, R.slot)
      BY <2>2, <3>2, SlotGoes
    <3>. QED BY <2>3, <3>1, <3>2
  <2>. QED BY <2>1, <2>4, <2>5 DEF Serves
<1>8. CASE do_exec_user_requests_end(n)
  BY <1>8, TellsNothing DEF do_exec_user_requests_end, poolVars, Quiet, Trying
<1>. QED BY <1>1, <1>2, <1>5, <1>6, <1>7, <1>8 DEF RequestPass

LEMMA UpdateMoves ==
  ASSUME BelowInv, AllApart, AllApart', NEW n \in Node, NEW m \in Node, Node = {n, m},
         UpdatePass(n)
  PROVE  Quiet(n, m, {"recieve"}) \/ GivenUp(n, m)
<1>. DEFINE s == Head(service.rest)
            p == peer[n][s]
            last == Len(Ready(p))
            G == Quiet(n, m, {"recieve"}) \/ GivenUp(n, m)
<1>1. ASSUME Updating(n)
      PROVE  /\ last \in 0..last /\ s \in Slot(n) /\ PeerOK(p)
             /\ s = peer_map[n][m] /\ s # NoSlot /\ p.address = m
             /\ s \in Elems(using_list[n])
  <2>1. /\ last \in 0..last /\ s \in Slot(n) /\ s \in Elems(using_list[n])
    <3>1. /\ last \in Nat /\ s \in Slot(n) /\ s \in Elems(using_list[n])
      BY <1>1, ReadyCounted
    <3>. HIDE DEF last, s
    <3>. QED BY <3>1
  <2>2. PeerOK(p)
    BY <2>1, PeerOfHost DEF BelowInv, ServerInv, PoolInv
  <2>3. s = peer_map[n][m] /\ peer_map[n][m] # NoSlot /\ p.address = m
    <3>. HIDE DEF s
    <3>. QED BY <2>1, OneUsed
  <2>. QED BY <2>1, <2>2, <2>3
<1>2. CASE update(n)
  <2>. DEFINE r == Advanced(p, last)
              q == [r EXCEPT !.state = IF @ = "disconnected" THEN "zombie" ELSE @,
                             !.waiting = @ \cup p.queued, !.queued = {}]
  <2>1. /\ Updating(n) /\ results' = [results EXCEPT ![n] = @ \o RecieveEvents(n, s, last)]
        /\ peer' = [peer EXCEPT ![n][s] = q]
        /\ UNCHANGED <<peer_map, incoming_requests>>
    BY <1>2 DEF update
  <2>2. q.state = "connecting" => p.state = "connecting"
    <3>1. PeerOK(r) /\ r.state = p.state
      <4>1. PeerOK(r)
        BY <1>1, <2>1, PeerOperations
      <4>. QED BY <1>1, <2>1, <4>1 DEF Advanced, PeerOK, Fields
    <3>. HIDE DEF r, p
    <3>. QED BY <3>1 DEF PeerOK, Fields
  <2>3. Trying(n)' => Trying(n)
    <3>. HIDE DEF q, s
    <3>. QED BY <1>1, <2>1, <2>2, NoneTries
  <2>4. Tells(n, {"recieve"})
    BY <1>1, <2>1, TellsRecieved
  <2>. QED BY <2>1, <2>3, <2>4 DEF Quiet
<1>3. CASE update_fail(n)
  <2>1. PICK k \in 0..last : results' = [results EXCEPT ![n] = @ \o RecieveEvents(n, s, k)]
    BY <1>3 DEF update_fail
  <2>2. Updating(n) /\ Destroy(n, s) /\ post_request(n, NowRequest(n, s))
    BY <1>3 DEF update_fail
  <2>3. Tells(n, {"recieve"})
    BY <2>1, <2>2, TellsRecieved
  <2>4. /\ peer_map[n][m] # NoSlot /\ peer_map'[n][m] = NoSlot
        /\ peer' = [peer EXCEPT ![n][s] = Unused(p.address)]
    <3>. HIDE DEF s
    <3>. QED BY <1>1, <2>2, SlotGoes
  <2>5. ~Trying(n)'
    <3>. DEFINE u == Unused(p.address)
    <3>1. u.state # "connecting"
      BY DEF Unused
    <3>2. peer' = [peer EXCEPT ![n][s] = u] /\ s \in Elems(using_list[n])
      BY <1>1, <2>2, <2>4
    <3>. HIDE DEF u, s
    <3>. QED BY <3>1, <3>2, TriesNoMore
  <2>. DEFINE r == NowRequest(n, s)
  <2>6. r \in Requested(n)
    BY <1>1, <2>2, RequestedOfSlot DEF BelowInv, ServerInv, PoolInv
  <2>7. incoming_requests'[n] = Append(incoming_requests[n], r)
    BY <2>2, Tables DEF post_request
  <2>8. \/ r.type = "disconnected"
        \/ r.type = "connect_fail" /\ p.state = "connecting"
    BY DEF NowRequest, Notice
  <2>9. p.state = "connecting" => Trying(n) /\ n \in Connectors
    <3>1. n \in Acceptor => p.state # "connecting"
      BY <1>1, <2>2, PeerSpeaks DEF BelowInv, ServerInv, HandshakeInv, Speaks, Accepts
    <3>. QED BY <1>1, <2>2, <3>1 DEF Trying, Acceptor
  <2>. HIDE DEF r, p
  <2>. QED BY <2>3, <2>4, <2>5, <2>6, <2>7, <2>8, <2>9 DEF GivenUp
<1>4. CASE update_crash(n)
  BY <1>4, TellsNothing DEF update_crash, poolVars, Quiet, Trying
<1>. QED BY <1>2, <1>3, <1>4 DEF UpdatePass

-------------------------------------------------------------------------------
(* The order of the events. *)

\* The packets of a frame come before its requests: until those are executed no event
\* tells of the end of a connection.
Order(n) ==
  /\ service.pass = "packets" /\ service.node = n => "disconnected" \notin Types(results[n])
  /\ Ordered(results[n])

LEMMA NothingGone ==
  ASSUME NEW q, "disconnected" \notin Types(q)
  PROVE  Ordered(q)
BY DEF Types, Ordered

LEMMA TellsMore ==
  ASSUME NEW n \in Node, NEW T, NEW U, T \subseteq U, Tells(n, T)
  PROVE  Tells(n, U)
BY DEF Tells

LEMMA PassMoves ==
  ASSUME BelowInv, AllApart, AllApart', NEW n \in Node, NEW m \in Node, Node = {n, m},
         ~(Node \subseteq Connectors), server_passes(n)
  PROVE  Quiet(n, m, {"recieve"}) \/ Announces(n, m) \/ IsCalled(n, m) \/ Serves(n, m)
         \/ GivenUp(n, m)
<1>1. ASSUME Quiet(n, m, {}) PROVE Quiet(n, m, {"recieve"})
  <2>1. Tells(n, {"recieve"})
    BY <1>1, TellsMore DEF Quiet
  <2>. QED BY <1>1, <2>1 DEF Quiet
<1>. QED BY <1>1, PacketMoves, RequestMoves, UpdateMoves DEF server_passes

LEMMA PassOrder ==
  ASSUME BelowInv, AllApart, AllApart', NEW n \in Node, NEW m \in Node, Node = {n, m},
         ~(Node \subseteq Connectors), server_passes(n), Order(n)
  PROVE  Order(n)'
<1>. DOMAIN service = {"node", "pass", "rest"}
  BY DEF BelowInv, ServerInv, PoolInv, Visits
<1>1. CASE PacketPass(n)
  <2>1. "disconnected" \notin Types(results[n])
    BY <1>1 DEF Order, PacketPass, handle_acknowledge, handle_connection,
                handle_connection_refused, handle_verify_connection, handle_disconnected,
                handle_recieve_reliable, Incoming, do_handle_incoming_packets_end
  <2>2. \E T : Tells(n, T) /\ "disconnected" \notin T
    BY <1>1, PacketMoves DEF Quiet, Announces, IsCalled
  <2>3. PICK T : Tells(n, T) /\ "disconnected" \notin T
    BY <2>2
  <2>4. "disconnected" \notin Types(results'[n])
    <3>1. Types(results'[n]) \subseteq Types(results[n]) \cup T
      BY <2>3, Telling
    <3>. QED BY <2>1, <2>3, <3>1
  <2>5. Ordered(results'[n])
    BY <2>4, NothingGone
  <2>. QED BY <2>4, <2>5 DEF Order
<1>2. CASE RequestPass(n) \/ UpdatePass(n)
  <2>1. service'.pass # "packets"
    BY <1>2 DEF RequestPass, UpdatePass, exec_connect, exec_dropped, exec_send_reliable,
                exec_disconnect, exec_reset, Executing, do_exec_user_requests_end, update,
                update_fail, update_crash, Updating
  <2>2. \E T : Tells(n, T) /\ "connect_succeed" \notin T
    <3>1. CASE RequestPass(n)
      <4>1. CASE Quiet(n, m, {})
        BY <4>1 DEF Quiet
      <4>2. CASE Serves(n, m)
        <5>1. PICK type :
                \/ Tells(n, {})
                \/ type \in {"disconnected", "connect_fail"} /\ Tells(n, {type})
                \/ Tells(n, {"connect_fail"})
          BY <4>2 DEF Serves
        <5>. QED BY <5>1
      <4>. QED BY <3>1, <4>1, <4>2, RequestMoves
    <3>2. CASE UpdatePass(n)
      BY <3>2, UpdateMoves DEF Quiet, GivenUp
    <3>. QED BY <1>2, <3>1, <3>2
  <2>3. PICK T : Tells(n, T) /\ "connect_succeed" \notin T
    BY <2>2
  <2>4. Ordered(results[n])
    BY DEF Order
  <2>5. Ordered(results'[n])
    BY <2>3, <2>4, Telling
  <2>. QED BY <2>1, <2>5 DEF Order
<1>. QED BY <1>1, <1>2 DEF server_passes

LEMMA OrderStays ==
  ASSUME BelowInv, AllApart, AllApart', ~(Node \subseteq Connectors), [ManagerNext]_allVars,
         NEW n \in Node, NEW m \in Node, Node = {n, m}, Order(n)
  PROVE  Order(n)'
<1>1. CASE UNCHANGED <<service, results>>
  BY <1>1 DEF Order
<1>2. ASSUME NEW k \in Node, tick_server(k) PROVE Order(n)'
  <2>1. /\ service' = [node |-> k, pass |-> "packets", rest |-> <<>>]
        /\ results' = [results EXCEPT ![k] = <<>>]
    BY <1>2 DEF tick_server, do_service
  <2>2. Types(<<>>) = {} /\ Ordered(<<>>)
    BY DEF Types, Ordered
  <2>3. CASE k = n
    <3>1. results'[n] = <<>>
      BY <2>1, <2>3, Tables
    <3>. QED BY <2>2, <3>1 DEF Order
  <2>4. CASE k # n
    <3>1. results'[n] = results[n] /\ service'.node # n
      BY <2>1, <2>4
    <3>. QED BY <3>1 DEF Order
  <2>. QED BY <2>3, <2>4
<1>3. ASSUME NEW k \in Node, server_passes(k) PROVE Order(n)'
  <2>1. CASE k = n
    BY <1>3, <2>1, PassOrder
  <2>2. CASE k # n
    <3>1. results'[n] = results[n]
      BY <1>3, <2>2, Elsewhere DEF Untouched
    <3>2. service'.node = k
      <4>. DOMAIN service = {"node", "pass", "rest"}
        BY DEF BelowInv, ServerInv, PoolInv, Visits
      <4>. QED
        BY <1>3 DEF server_passes, PacketPass, RequestPass, UpdatePass, handle_acknowledge,
                handle_connection, handle_connection_refused, handle_verify_connection,
                handle_disconnected, handle_recieve_reliable, Incoming,
                do_handle_incoming_packets_end, exec_connect, exec_dropped,
                exec_send_reliable, exec_disconnect, exec_reset, Executing,
                do_exec_user_requests_end, update, update_fail, update_crash, Updating
    <3>. QED BY <2>2, <3>1, <3>2 DEF Order
  <2>. QED BY <2>1, <2>2
<1>4. ASSUME NEW k \in Node, HandleEvent(k) PROVE Order(n)'
  <2>1. /\ service' = service /\ service.pass = "idle" /\ results[k] # <<>>
        /\ results' = results \/ results' = [results EXCEPT ![k] = Tail(@)]
    BY <1>4 DEF HandleEvent, create_connection, cancel_connection, remove_connection,
                queue_incoming_packet, recieve_from_unknown_host, Handling, Pending, peek_event
  <2>2. Ordered(results'[n])
    <3>1. results'[n] = results[n] \/ (k = n /\ results'[n] = Tail(results[n]))
      BY <2>1, Tables
    <3>2. results[n] \in Seq(Event) /\ Ordered(results[n])
      BY EventsTyped DEF Order
    <3>3. results[n] # <<>> => Ordered(Tail(results[n]))
      BY <3>2, TypesTaken
    <3>. QED BY <2>1, <3>1, <3>2, <3>3
  <2>. QED BY <2>1, <2>2 DEF Order
<1>5. ASSUME NEW k \in Node, NEW i \in Node, ManagerUser(k, i) PROVE Order(n)'
  BY <1>1, <1>5 DEF ManagerUser, manual_connect, on_event_add_host, manual_disconnect,
                    send_packet, Asking, Calling
<1>6. ASSUME NEW k \in Node, tick_hosts(k) PROVE Order(n)'
  BY <1>1, <1>6 DEF tick_hosts
<1>7. CASE UNCHANGED allVars
  BY <1>1, <1>7 DEF allVars, vars
<1>. QED BY <1>2, <1>3, <1>4, <1>5, <1>6, <1>7 DEF ManagerNext

-------------------------------------------------------------------------------
(* What node n believes of its connection with node m. *)

\* It takes the other node for connected, or will as soon as its tree is told.
Believed(n, m) ==
  \/ host[n][m].state = "connected"
  \/ host[n][m].state = "connecting" /\ host[n][m].connected = TRUE
  \/ "connect_succeed" \in Types(results[n])

\* Its next tick asks for a connection.
Untried(n, m) == host[n][m].state = "connecting" /\ host[n][m].waiting = FALSE

\* A request to connect, or the failure of one, is still to be executed.
Attempted(n) == Types(incoming_requests[n]) \cap Tries # {}

Gone(n) == "disconnected" \in Types(incoming_requests[n]) \cup Types(results[n])

Claim(n, m) ==
  /\ Once(incoming_requests[n])
  /\ Attempted(n) => ~Untried(n, m) /\ n \in Connectors
  /\ Attempted(n) \/ Untried(n, m) => peer_map[n][m] = NoSlot
  /\ Attempted(n) \/ Untried(n, m) \/ Trying(n) => ~Believed(n, m)
  /\ up[n] /\ Believed(n, m) => peer_map[n][m] # NoSlot \/ Gone(n)

LEMMA ClaimInit ==
  ASSUME ManagerInit, NEW n \in Node, NEW m \in Node
  PROVE  Claim(n, m)
<1>1. /\ results[n] = <<>> /\ incoming_requests[n] = <<>> /\ peer_map[n][m] = NoSlot
      /\ Types(<<>>) = {} /\ Once(<<>>)
  BY DEF ManagerInit, Init, Types, Once
<1>2. host[n][m].connected = FALSE /\ host[n][m].state # "connected"
  BY DEF ManagerInit, NewHost, NoHost
<1>. QED BY <1>1, <1>2 DEF Claim, Believed, Attempted

\* A step that raises no new claim and loses no news.
LEMMA ClaimKept ==
  ASSUME NEW n \in Node, NEW m \in Node, Claim(n, m),
         Believed(n, m)' => Believed(n, m), Untried(n, m)' => Untried(n, m),
         Attempted(n)' => Attempted(n), Once(incoming_requests[n])',
         peer_map[n][m] = NoSlot => peer_map'[n][m] = NoSlot,
         Trying(n)' => Trying(n), up'[n] => up[n],
         peer_map[n][m] # NoSlot \/ Gone(n) => peer_map'[n][m] # NoSlot \/ Gone(n)'
  PROVE  Claim(n, m)'
BY DEF Claim

LEMMA ClaimUntouched ==
  ASSUME NEW n \in Node, NEW m \in Node, Claim(n, m), Untouched(n), up'[n] => up[n]
  PROVE  Claim(n, m)'
<1>1. /\ Believed(n, m)' = Believed(n, m) /\ Untried(n, m)' = Untried(n, m)
      /\ Attempted(n)' = Attempted(n) /\ Once(incoming_requests[n])'
      /\ peer_map'[n][m] = peer_map[n][m] /\ Trying(n)' = Trying(n) /\ Gone(n)' = Gone(n)
  BY DEF Untouched, Believed, Untried, Attempted, Trying, Gone, Claim
<1>. QED BY <1>1, ClaimKept

\* The requests of a host, by their types.
LEMMA RequestsTyped ==
  ASSUME AllApart, NEW n \in Node
  PROVE  incoming_requests[n] \in Seq(Requested(n))
<1>1. /\ incoming_requests[n] \in Seq(Abroad(n, Requested(n)))
      /\ Abroad(n, Requested(n)) \subseteq Requested(n)
  BY DEF AllApart, Apart, Abroad
<1>. HIDE DEF Abroad, Requested
<1>. QED BY <1>1, SeqMonotonic, Zenon

LEMMA PassClaim ==
  ASSUME BelowInv, BelowInv', AllApart, AllApart', NEW n \in Node, NEW m \in Node,
         Node = {n, m}, ~(Node \subseteq Connectors), server_passes(n), Claim(n, m),
         up'[n] => up[n]
  PROVE  Claim(n, m)'
<1>0. host' = host
  BY DEF server_passes, managerVars
<1>1. Untried(n, m)' = Untried(n, m)
  BY <1>0 DEF Untried
<1>2. ASSUME "connect_succeed" \notin Types(results'[n]) \ Types(results[n])
      PROVE  Believed(n, m)' => Believed(n, m)
  BY <1>0, <1>2 DEF Believed
<1>3. CASE Quiet(n, m, {"recieve"})
  <2>1. /\ Types(results[n]) \subseteq Types(results'[n])
        /\ Types(results'[n]) \subseteq Types(results[n]) \cup {"recieve"}
    BY <1>3, Telling DEF Quiet
  <2>2. Believed(n, m)' => Believed(n, m)
    BY <1>2, <2>1
  <2>3. /\ Attempted(n)' = Attempted(n) /\ Once(incoming_requests[n])'
        /\ Gone(n) => Gone(n)'
    BY <1>3, <2>1 DEF Quiet, Attempted, Gone, Claim
  <2>. QED BY <1>1, <1>3, <2>2, <2>3, ClaimKept DEF Quiet
<1>4. CASE Announces(n, m)
  BY <1>1, <1>4 DEF Announces, Claim, Attempted
<1>5. CASE IsCalled(n, m)
  <2>1. ~Untried(n, m)
    BY <1>5 DEF IsCalled, Untried, BelowInv, AllSlotted, Slotted
  <2>2. ~Trying(n)'
    <3>1. ASSUME NEW s \in Slot(n) PROVE peer'[n][s].state # "connecting"
      BY <1>5 DEF IsCalled, BelowInv, ServerInv, HandshakeInv, Peers, Speaks, Acceptor, Accepts
    <3>. QED BY <3>1 DEF Trying
  <2>. QED BY <1>1, <1>5, <2>1, <2>2 DEF IsCalled, Claim, Attempted
<1>6. CASE Serves(n, m)
  <2>. DEFINE Q == incoming_requests[n]
  <2>1. PICK type :
          /\ Executing(n, type)
          /\ \/ /\ type \in {"send", "disconnect"}
                /\ Tells(n, {}) /\ peer_map'[n][m] = peer_map[n][m] /\ (Trying(n)' => Trying(n))
             \/ /\ type \in {"disconnected", "connect_fail"}
                /\ Tells(n, {type}) /\ type \in Types(results'[n])
                /\ (peer_map[n][m] = NoSlot => peer_map'[n][m] = NoSlot)
                /\ (Trying(n)' => Trying(n))
             \/ type = "connect" /\ Tells(n, {"connect_fail"})
    BY <1>6 DEF Serves
  <2>2. Q \in Seq(Requested(n)) /\ Q # <<>> /\ Head(Q).type = type
        /\ incoming_requests'[n] = Tail(Q)
    BY <2>1, RequestsTyped, TakenAbroad DEF Executing
  <2>3. /\ Types(Q) = {type} \cup Types(Tail(Q))
        /\ Once(Q) => Once(Tail(Q))
        /\ Once(Q) /\ type \in Tries => Types(Tail(Q)) \cap Tries = {}
    <3>. HIDE DEF Q
    <3>. QED BY <2>2, TypesTaken
  <2>4. Once(incoming_requests[n])' /\ (Attempted(n)' => Attempted(n))
        /\ (type \in Tries => Attempted(n) /\ ~Attempted(n)')
    BY <2>2, <2>3 DEF Claim, Attempted
  <2>5. ASSUME NEW T, Tells(n, T), "connect_succeed" \notin T
        PROVE  /\ Believed(n, m)' => Believed(n, m)
               /\ Types(results[n]) \subseteq Types(results'[n])
    <3>1. /\ Types(results[n]) \subseteq Types(results'[n])
          /\ Types(results'[n]) \subseteq Types(results[n]) \cup T
      BY <2>5, Telling
    <3>. QED BY <1>2, <2>5, <3>1
  <2>6. CASE /\ type \in {"send", "disconnect"}
             /\ Tells(n, {}) /\ peer_map'[n][m] = peer_map[n][m] /\ (Trying(n)' => Trying(n))
    <3>1. /\ Believed(n, m)' => Believed(n, m)
          /\ Types(results[n]) \subseteq Types(results'[n])
      BY <2>5, <2>6
    <3>2. Gone(n) => Gone(n)'
      BY <2>2, <2>3, <2>6, <3>1 DEF Gone
    <3>. QED BY <1>1, <2>4, <2>6, <3>1, <3>2, ClaimKept
  <2>7. CASE /\ type \in {"disconnected", "connect_fail"}
             /\ Tells(n, {type}) /\ type \in Types(results'[n])
             /\ (peer_map[n][m] = NoSlot => peer_map'[n][m] = NoSlot) /\ (Trying(n)' => Trying(n))
    <3>1. Believed(n, m)' => Believed(n, m)
      BY <2>5, <2>7
    <3>2. CASE type = "disconnected"
      <4>1. Gone(n)'
        BY <2>7, <3>2 DEF Gone
      <4>. QED BY <1>1, <2>4, <2>7, <3>1, <4>1, ClaimKept
    <3>3. CASE type = "connect_fail"
      BY <1>1, <2>4, <2>7, <3>1, <3>3 DEF Claim, Tries
    <3>. QED BY <2>7, <3>2, <3>3
  <2>8. CASE type = "connect" /\ Tells(n, {"connect_fail"})
    <3>1. Believed(n, m)' => Believed(n, m)
      BY <2>5, <2>8
    <3>. QED BY <1>1, <2>4, <2>8, <3>1 DEF Claim, Tries
  <2>. QED BY <2>1, <2>6, <2>7, <2>8
<1>7. CASE GivenUp(n, m)
  <2>. DEFINE Q == incoming_requests[n]
  <2>1. PICK r \in Requested(n) :
          /\ incoming_requests'[n] = Append(Q, r)
          /\ \/ r.type = "disconnected"
             \/ r.type = "connect_fail" /\ Trying(n) /\ n \in Connectors
    BY <1>7 DEF GivenUp
  <2>2. ~Attempted(n) /\ ~Untried(n, m)
    BY <1>7 DEF GivenUp, Claim
  <2>3. Types(Append(Q, r)) = Types(Q) \cup {r.type} /\ Once(incoming_requests'[n])
    <3>1. Q \in Seq(Requested(n))
      BY RequestsTyped
    <3>2. Once(Q) /\ Types(Q) \cap Tries = {}
      BY <2>2 DEF Claim, Attempted
    <3>. HIDE DEF Q, Requested
    <3>. QED BY <2>1, <3>1, <3>2, TypesAppended
  <2>4. /\ Types(results'[n]) \subseteq Types(results[n]) \cup {"recieve"}
        /\ Types(results[n]) \subseteq Types(results'[n])
    BY <1>7, Telling DEF GivenUp
  <2>5. Believed(n, m)' => Believed(n, m)
    BY <1>2, <2>4
  <2>6. CASE r.type = "disconnected"
    <3>1. ~Attempted(n)' /\ Gone(n)'
      BY <2>1, <2>2, <2>3, <2>6 DEF Attempted, Gone, Tries
    <3>. QED BY <1>1, <1>7, <2>2, <2>3, <3>1 DEF Claim, GivenUp
  <2>7. CASE r.type = "connect_fail" /\ Trying(n) /\ n \in Connectors
    <3>1. ~Believed(n, m)'
      BY <2>5, <2>7 DEF Claim
    <3>. QED BY <1>1, <1>7, <2>2, <2>3, <2>7, <3>1 DEF Claim, GivenUp
  <2>. QED BY <2>1, <2>6, <2>7
<1>. QED BY <1>3, <1>4, <1>5, <1>6, <1>7, PassMoves

LEMMA FrameClaim ==
  ASSUME BelowInv, InFrame, NEW n \in Node, NEW m \in Node, tick_server(n), Claim(n, m)
  PROVE  Claim(n, m)'
<1>1. /\ UNCHANGED <<peer, peer_map, incoming_requests, host, up>>
      /\ results' = [results EXCEPT ![n] = <<>>] /\ up[n] /\ (frame \in Node => ~up[frame])
  BY DEF tick_server, do_service, poolVars, BetweenFrames
<1>2. results[n] = <<>>
  BY <1>1 DEF InFrame
<1>3. results'[n] = results[n]
  BY <1>1, <1>2, Tables
<1>. QED BY <1>1, <1>3, ClaimUntouched DEF Untouched

\* The event that is handled, and what becomes of the host.
LEMMA EventMoves ==
  ASSUME BelowInv, AllApart, NEW n \in Node, NEW m \in Node, Node = {n, m},
         NEW types, NEW h, Handling(n, types), UpdateHost(n, h)
  PROVE  /\ EventHost(n) = host[n][m] /\ DOMAIN host[n][m] = DOMAIN NoHost
         /\ host'[n][m] = h
         /\ Head(results[n]).type \in types
         /\ results'[n] = Tail(results[n])
         /\ Types(results[n]) = {Head(results[n]).type} \cup Types(results'[n])
         /\ Ordered(results[n]) /\ Head(results[n]).type = "disconnected"
            => "connect_succeed" \notin Types(results'[n])
         /\ UNCHANGED <<peer, peer_map, incoming_requests, up>>
<1>1. /\ results[n] # <<>> /\ Head(results[n]).type \in types
      /\ results' = [results EXCEPT ![n] = Tail(@)]
      /\ UNCHANGED <<peer, peer_map, incoming_requests, up>>
  BY DEF Handling, Pending, peek_event, poolVars
<1>2. results[n] \in Seq(Abroad(n, Event)) /\ results'[n] = Tail(results[n])
  BY <1>1, Tables DEF AllApart, Apart
<1>3. Head(results[n]).address = m
  <2>1. Head(results[n]) \in Abroad(n, Event)
    BY <1>1, <1>2
  <2>. QED BY <2>1 DEF Abroad, Event
<1>4. EventHost(n) = host[n][m] /\ host' = [host EXCEPT ![n][m] = h]
  BY <1>3 DEF EventHost, UpdateHost
<1>5. host'[n][m] = h /\ DOMAIN host[n][m] = DOMAIN NoHost
  BY <1>4 DEF BelowInv, AllWait, HostsOfNodes
<1>6. /\ Types(results[n]) = {Head(results[n]).type} \cup Types(results'[n])
      /\ Ordered(results[n]) /\ Head(results[n]).type = "disconnected"
         => "connect_succeed" \notin Types(results'[n])
  <2>1. results[n] \in Seq(Event)
    BY EventsTyped
  <2>. QED BY <1>1, <1>2, <2>1, TypesTaken
<1>. QED BY <1>1, <1>2, <1>4, <1>5, <1>6

LEMMA EventClaim ==
  ASSUME BelowInv, AllApart, NEW n \in Node, NEW m \in Node, Node = {n, m},
         HandleEvent(n), Claim(n, m), Order(n), up'[n] => up[n]
  PROVE  Claim(n, m)'
<1>. DEFINE h == host[n][m]
            first == Head(results[n]).type
<1>1. ASSUME NEW g, NEW types, Handling(n, types), UpdateHost(n, g), first # "disconnected",
             g.state = "connected" => h.state = "connected" \/ first = "connect_succeed",
             g.state = "connecting" => /\ h.state = "connecting" /\ g.waiting = h.waiting
                                       /\ \/ g.connected = h.connected \/ g.connected = FALSE
                                          \/ first = "connect_succeed"
      PROVE  Claim(n, m)'
  <2>1. /\ host'[n][m] = g
        /\ Types(results[n]) = {first} \cup Types(results'[n])
        /\ UNCHANGED <<peer, peer_map, incoming_requests, up>>
    BY <1>1, EventMoves
  <2>2. Believed(n, m)' => Believed(n, m)
    BY <1>1, <2>1 DEF Believed
  <2>3. Untried(n, m)' => Untried(n, m)
    BY <1>1, <2>1 DEF Untried
  <2>4. /\ Attempted(n)' = Attempted(n) /\ Once(incoming_requests[n])'
        /\ Trying(n)' = Trying(n)
    BY <2>1 DEF Attempted, Trying, Claim
  <2>5. Gone(n) => Gone(n)'
    BY <1>1, <2>1 DEF Gone
  <2>. QED BY <2>1, <2>2, <2>3, <2>4, <2>5, ClaimKept
<1>2. CASE create_connection(n)
  <2>. DEFINE slot == Head(results[n]).slot
              g == CASE h.state = "not_created" -> NewHost("connected", slot, FALSE)
                     [] h.state = "connecting" ->
                          Signal([h EXCEPT !.connected = TRUE, !.slot = slot])
                     [] OTHER -> [h EXCEPT !.slot = slot]
              f == CASE EventHost(n).state = "not_created" -> NewHost("connected", slot, FALSE)
                     [] EventHost(n).state = "connecting" ->
                          Signal([EventHost(n) EXCEPT !.connected = TRUE, !.slot = slot])
                     [] OTHER -> [EventHost(n) EXCEPT !.slot = slot]
  <2>1. Handling(n, {"connect_succeed"}) /\ UpdateHost(n, f)
    BY <1>2 DEF create_connection
  <2>. HIDE DEF f
  <2>2. EventHost(n) = h /\ DOMAIN h = DOMAIN NoHost /\ first = "connect_succeed"
    BY <2>1, EventMoves
  <2>3. f = g
    BY <2>2 DEF f
  <2>4. g.state = "connecting" => h.state = "connecting" /\ g.waiting = h.waiting
    <3>1. CASE h.state = "not_created"
      <4>1. g = NewHost("connected", slot, FALSE)
        BY <3>1
      <4>. QED BY <4>1 DEF NewHost
    <3>2. CASE h.state = "connecting"
      <4>1. g = Signal([h EXCEPT !.connected = TRUE, !.slot = slot])
        BY <3>2
      <4>. QED BY <2>2, <3>2, <4>1 DEF Signal, NoHost, NewHost
    <3>3. CASE h.state \notin {"not_created", "connecting"}
      <4>1. g = [h EXCEPT !.slot = slot]
        BY <3>3
      <4>2. g.state = h.state
        BY <2>2, <4>1 DEF NoHost, NewHost
      <4>. QED BY <3>3, <4>2
    <3>. QED BY <3>1, <3>2, <3>3
  <2>. HIDE DEF g
  <2>. QED BY <1>1, <2>1, <2>2, <2>3, <2>4
<1>3. CASE cancel_connection(n)
  <2>. DEFINE g == IF h.state = "connecting" THEN Signal([h EXCEPT !.connected = FALSE]) ELSE h
              f == IF EventHost(n).state = "connecting"
                   THEN Signal([EventHost(n) EXCEPT !.connected = FALSE]) ELSE EventHost(n)
  <2>1. Handling(n, {"connect_fail"}) /\ UpdateHost(n, f)
    BY <1>3 DEF cancel_connection
  <2>. HIDE DEF f
  <2>2. EventHost(n) = h /\ DOMAIN h = DOMAIN NoHost /\ first = "connect_fail"
    BY <2>1, EventMoves
  <2>3. f = g
    BY <2>2 DEF f
  <2>4. /\ g.state = h.state /\ g.waiting = h.waiting
        /\ g.connected = h.connected \/ g.connected = FALSE
    BY <2>2 DEF Signal, NoHost, NewHost
  <2>. HIDE DEF g
  <2>. QED BY <1>1, <2>1, <2>2, <2>3, <2>4
<1>4. CASE queue_incoming_packet(n)
  <2>. DEFINE g == [h EXCEPT !.incoming = <<Len(@) + 1>> \o @]
              f == [EventHost(n) EXCEPT !.incoming = <<Len(@) + 1>> \o @]
  <2>1. Handling(n, {"recieve"}) /\ UpdateHost(n, f)
    BY <1>4 DEF queue_incoming_packet
  <2>. HIDE DEF f
  <2>2. EventHost(n) = h /\ DOMAIN h = DOMAIN NoHost /\ first = "recieve"
    BY <2>1, EventMoves
  <2>3. f = g
    BY <2>2 DEF f
  <2>4. g.state = h.state /\ g.waiting = h.waiting /\ g.connected = h.connected
    BY <2>2 DEF NoHost, NewHost
  <2>. HIDE DEF g
  <2>. QED BY <1>1, <2>1, <2>2, <2>3, <2>4
<1>5. CASE remove_connection(n)
  <2>1. Handling(n, {"disconnected"}) /\ UpdateHost(n, Removed(EventHost(n)))
    BY <1>5 DEF remove_connection
  <2>2. /\ EventHost(n) = h /\ DOMAIN h = DOMAIN NoHost /\ first = "disconnected"
        /\ host'[n][m] = Removed(EventHost(n))
        /\ UNCHANGED <<peer, peer_map, incoming_requests, up>>
        /\ Ordered(results[n]) => "connect_succeed" \notin Types(results'[n])
    BY <2>1, EventMoves
  <2>3. Removed(h).state \in {"not_created", "disconnecting", "disconnected"}
    BY <2>2 DEF Removed, Signal, NoHost, NewHost
  <2>4. ~Believed(n, m)' /\ ~Untried(n, m)'
    <3>. HIDE DEF h
    <3>1. host'[n][m].state \in {"not_created", "disconnecting", "disconnected"}
      BY <2>2, <2>3
    <3>. QED BY <2>2, <3>1 DEF Believed, Untried, Order
  <2>. QED BY <2>2, <2>4 DEF Claim, Attempted, Trying
<1>6. CASE recieve_from_unknown_host(n)
  <2>1. UNCHANGED <<peer, peer_map, incoming_requests, results, host>>
    BY <1>6 DEF recieve_from_unknown_host, Pending, poolVars, managerVars
  <2>. QED BY <2>1, ClaimUntouched DEF Untouched
<1>. QED BY <1>2, <1>3, <1>4, <1>5, <1>6 DEF HandleEvent

\* The other node is the one a tick is about.
LEMMA TickMoves ==
  ASSUME BelowInv, AllApart, NEW n \in Node, NEW m \in Node, Node = {n, m}, n # m,
         tick_hosts(n)
  PROVE  \E h :
           /\ DOMAIN h = DOMAIN NoHost /\ h.state = host[n][m].state
           /\ h.waiting = host[n][m].waiting /\ h.connected = host[n][m].connected
           /\ h.waiting \in BOOLEAN
           /\ h.state = "disconnecting" => h.slot \in Slot(n)
           /\ host'[n][m] = Ticked(h)
           /\ incoming_requests'[n] = incoming_requests[n] \o Asked(h, m)
<1>. DEFINE order == SetToSeq(Node)
            seqs(h) == [i \in DOMAIN order |-> Asked(h[order[i]], order[i])]
<1>1. PICK late :
        /\ host' = [host EXCEPT ![n] = [k \in Node |-> Ticked(InTime(n, late)[k])]]
        /\ incoming_requests'
             = [incoming_requests EXCEPT ![n] = @ \o FlattenSeq(seqs(InTime(n, late)))]
  BY DEF tick_hosts, InTime
<1>. DEFINE h == InTime(n, late)
            S == {e \in [type : {"connect", "disconnect"}, slot : Slot(n) \cup {NoSlot},
                         address : Node] : TRUE}
<1>2. ASSUME NEW k \in Node
      PROVE  /\ DOMAIN h[k] = DOMAIN NoHost /\ h[k].state = host[n][k].state
             /\ h[k].waiting = host[n][k].waiting /\ h[k].connected = host[n][k].connected
             /\ h[k].slot = host[n][k].slot
  <2>1. DOMAIN host[n][k] = DOMAIN NoHost
    BY DEF BelowInv, AllWait, HostsOfNodes
  <2>. QED BY <2>1 DEF InTime, TimedOut, Flushed, NoHost, NewHost
<1>3. host'[n][m] = Ticked(h[m])
  <2>1. host = [k \in Node |-> host[k]]
    BY Tables
  <2>. HIDE DEF h
  <2>. QED BY <1>1, <2>1 DEF h
<1>4. h[m].waiting \in BOOLEAN
  BY <1>2 DEF BelowInv, AllWait, Waits
<1>5. h[m].state = "disconnecting" => h[m].slot \in Slot(n)
  BY <1>2 DEF BelowInv, AllSlotted, Slotted
<1>. HIDE DEF h
<1>6. Asked(h[n], n) = <<>>
  <2>1. h[n].state = "not_created"
    BY <1>2 DEF AllApart, Apart
  <2>. QED BY <2>1 DEF Asked
<1>7. Asked(h[m], m) \in Seq(S)
  <2>1. Notice("connect", NoSlot, m) \in S
    BY DEF Notice
  <2>2. h[m].state = "disconnecting" => Notice("disconnect", h[m].slot, m) \in S
    BY <1>5 DEF Notice
  <2>. HIDE DEF S
  <2>. QED BY <2>1, <2>2 DEF Asked
<1>8. FlattenSeq(seqs(h)) = Asked(h[m], m)
  <2>1. /\ DOMAIN order = 1..2
        /\ \/ order[1] = n /\ order[2] = m
           \/ order[1] = m /\ order[2] = n
    BY PairInOrder
  <2>. HIDE DEF order, S
  <2>. DEFINE q == seqs(h)
  <2>2. /\ Len(q) = 2 /\ q[1] = Asked(h[order[1]], order[1])
        /\ q[2] = Asked(h[order[2]], order[2])
    BY <2>1
  <2>. HIDE DEF q
  <2>3. FlattenSeq(q) = q[1] \o q[2]
    BY <2>2, FlatPair
  <2>. DEFINE a == Asked(h[m], m)
  <2>4. (q[1] = <<>> /\ q[2] = a) \/ (q[1] = a /\ q[2] = <<>>)
    BY <1>6, <2>1, <2>2
  <2>. HIDE DEF a
  <2>5. a \in Seq(S)
    BY <1>7 DEF a
  <2>6. <<>> \o a = a /\ a \o <<>> = a
    BY <2>5
  <2>7. FlattenSeq(q) = a
    BY <2>3, <2>4, <2>6
  <2>. QED BY <2>7 DEF q, a
<1>9. incoming_requests'[n] = incoming_requests[n] \o Asked(h[m], m)
  <2>1. incoming_requests = [k \in Node |-> incoming_requests[k]]
    BY Tables
  <2>. HIDE DEF seqs
  <2>. QED BY <1>1, <1>8, <2>1 DEF h
<1>. QED BY <1>2, <1>3, <1>4, <1>5, <1>9

LEMMA TickClaim ==
  ASSUME BelowInv, AllApart, NEW n \in Node, NEW m \in Node, Node = {n, m}, n # m,
         tick_hosts(n), Claim(n, m)
  PROVE  Claim(n, m)'
<1>. DEFINE Q == incoming_requests[n]
<1>0. UNCHANGED <<peer, peer_map, results, up>>
  BY DEF tick_hosts, poolVars
<1>1. PICK h :
        /\ DOMAIN h = DOMAIN NoHost /\ h.state = host[n][m].state
        /\ h.waiting = host[n][m].waiting /\ h.connected = host[n][m].connected
        /\ h.waiting \in BOOLEAN
        /\ h.state = "disconnecting" => h.slot \in Slot(n)
        /\ host'[n][m] = Ticked(h)
        /\ incoming_requests'[n] = Q \o Asked(h, m)
  BY TickMoves
<1>2. Q \in Seq(Requested(n))
  BY RequestsTyped
<1>3. ASSUME NEW type, NEW s, NEW e, e = Notice(type, s, m), Asked(h, m) = <<e>>,
             type \in Tries => ~Attempted(n)
      PROVE  /\ Types(incoming_requests'[n]) = Types(Q) \cup {type}
             /\ Once(incoming_requests'[n])
  <2>. DEFINE S == Requested(n) \cup {e}
  <2>1. Q \in Seq(S) /\ e \in S /\ e.type = type
    <3>1. Requested(n) \subseteq S
      OBVIOUS
    <3>2. Q \in Seq(S)
      <4>. HIDE DEF S, Q
      <4>. QED BY <1>2, <3>1, SeqMonotonic, Zenon
    <3>. QED BY <1>3, <3>2 DEF Notice
  <2>2. Once(Q) /\ (e.type \in Tries => Types(Q) \cap Tries = {})
    BY <1>3, <2>1 DEF Claim, Attempted
  <2>. HIDE DEF S, Q
  <2>3. Types(Append(Q, e)) = Types(Q) \cup {e.type} /\ Once(Append(Q, e))
    BY <2>1, <2>2, TypesAppended
  <2>4. incoming_requests'[n] = Append(Q, e)
    BY <1>1, <1>3, <2>1
  <2>. QED BY <2>1, <2>3, <2>4
<1>4. CASE h.state = "connecting" /\ h.waiting = FALSE
  <2>1. Untried(n, m) /\ n \in Connectors
    BY <1>1, <1>4 DEF Untried, BelowInv, AllSlotted, Slotted
  <2>2. ~Attempted(n) /\ peer_map[n][m] = NoSlot /\ ~Believed(n, m)
    BY <2>1 DEF Claim
  <2>. DEFINE e == Notice("connect", NoSlot, m)
  <2>3. Asked(h, m) = <<e>>
    BY <1>4 DEF Asked
  <2>4. /\ Types(incoming_requests'[n]) = Types(Q) \cup {"connect"}
        /\ Once(incoming_requests'[n])
    BY <1>3, <2>2, <2>3
  <2>5. /\ host'[n][m].state = "connecting" /\ host'[n][m].waiting = TRUE
        /\ host'[n][m].connected = h.connected
    <3>1. host'[n][m] = StartConnect(h)
      BY <1>1, <1>4 DEF Ticked
    <3>. QED BY <1>1, <1>4, <3>1 DEF StartConnect, NoHost, NewHost
  <2>6. ~Believed(n, m)' /\ ~Untried(n, m)'
    BY <1>0, <1>1, <1>4, <2>2, <2>5 DEF Believed, Untried
  <2>. QED BY <1>0, <2>1, <2>2, <2>4, <2>6 DEF Claim
<1>5. CASE h.state = "disconnecting"
  <2>. DEFINE e == Notice("disconnect", h.slot, m)
  <2>1. Asked(h, m) = <<e>>
    BY <1>5 DEF Asked
  <2>2. "disconnect" \notin Tries
    BY DEF Tries
  <2>3. /\ Types(incoming_requests'[n]) = Types(Q) \cup {"disconnect"}
        /\ Once(incoming_requests'[n])
    BY <1>3, <2>1, <2>2
  <2>4. host'[n][m].state = "disconnected"
    BY <1>1, <1>5 DEF Ticked, NoHost, NewHost
  <2>5. /\ Believed(n, m)' => Believed(n, m)
        /\ Untried(n, m)' => Untried(n, m)
    BY <1>0, <2>4 DEF Believed, Untried
  <2>6. /\ Attempted(n)' => Attempted(n)
        /\ Gone(n) => Gone(n)'
        /\ Trying(n)' = Trying(n)
    BY <1>0, <2>2, <2>3 DEF Attempted, Gone, Trying
  <2>. QED BY <1>0, <2>3, <2>5, <2>6, ClaimKept
<1>6. CASE ~(h.state = "connecting" /\ h.waiting = FALSE) /\ h.state # "disconnecting"
  <2>1. Asked(h, m) = <<>>
    <3>1. h.state = "connecting" => h.waiting
      BY <1>1, <1>6
    <3>. QED BY <1>6, <3>1 DEF Asked
  <2>2. incoming_requests'[n] = Q
    BY <1>1, <1>2, <2>1
  <2>3. \/ Ticked(h) = h
        \/ /\ h.state = "connecting"
           /\ Ticked(h) = [h EXCEPT !.waiting = FALSE, !.signaled = FALSE,
                             !.state = IF h.connected THEN "connected" ELSE "disconnected"]
    <3>1. h.state = "connecting" => h.waiting
      BY <1>1, <1>6
    <3>. QED BY <1>6, <3>1 DEF Ticked
  <2>4. /\ Believed(n, m)' => Believed(n, m)
        /\ Untried(n, m)' => Untried(n, m)
    <3>1. CASE Ticked(h) = h
      BY <1>0, <1>1, <3>1 DEF Believed, Untried
    <3>2. CASE /\ h.state = "connecting"
               /\ Ticked(h) = [h EXCEPT !.waiting = FALSE, !.signaled = FALSE,
                                 !.state = IF h.connected THEN "connected" ELSE "disconnected"]
      <4>1. host'[n][m].state = IF h.connected THEN "connected" ELSE "disconnected"
        BY <1>1, <3>2 DEF NoHost, NewHost
      <4>2. h.connected \in BOOLEAN
        BY <1>1 DEF BelowInv, AllWait, Waits
      <4>. QED BY <1>0, <1>1, <3>2, <4>1, <4>2 DEF Believed, Untried
    <3>. QED BY <2>3, <3>1, <3>2
  <2>5. /\ Attempted(n)' = Attempted(n) /\ Once(incoming_requests[n])'
        /\ Gone(n)' = Gone(n) /\ Trying(n)' = Trying(n)
    BY <1>0, <2>2 DEF Attempted, Gone, Trying, Claim
  <2>. QED BY <1>0, <2>4, <2>5, ClaimKept
<1>. QED BY <1>4, <1>5, <1>6

-------------------------------------------------------------------------------
(* A host is connected until it is told otherwise. *)

\* The users have counted their calls.
Counts == DOMAIN calls = {"connect", "send", "disconnect"} /\ calls.connect \in Nat

LEMMA CountsStay ==
  ASSUME Counts, [ManagerNext]_allVars
  PROVE  /\ Counts' /\ (calls'.connect = 0 => calls.connect = 0)
         /\ \A n, m \in Node :
              manual_connect(n, m) \/ on_event_add_host(n, m) => calls'.connect # 0
<1>1. ASSUME NEW n \in Node, NEW call \in {"connect", "send", "disconnect"}, NEW bound,
             Calling(n, call, bound)
      PROVE  /\ Counts' /\ (calls'.connect = 0 => calls.connect = 0)
             /\ call = "connect" => calls'.connect # 0
  BY <1>1 DEF Calling, Counts
<1>2. \A n, m \in Node : manual_connect(n, m) \/ on_event_add_host(n, m) => calls'.connect # 0
  BY <1>1 DEF manual_connect, on_event_add_host, Asking
<1>3. CASE calls' = calls
  BY <1>2, <1>3 DEF Counts
<1>4. ASSUME NEW n \in Node, tick_server(n) PROVE calls' = calls
  BY <1>4 DEF tick_server, do_service
<1>5. ASSUME NEW n \in Node, server_passes(n) PROVE calls' = calls
  BY <1>5 DEF server_passes, PacketPass, RequestPass, UpdatePass, handle_acknowledge,
              handle_connection, handle_connection_refused, handle_verify_connection,
              handle_disconnected, handle_recieve_reliable, do_handle_incoming_packets_end,
              exec_connect, exec_dropped, exec_send_reliable, exec_disconnect, exec_reset,
              Executing, do_exec_user_requests_end, update, update_fail, update_crash,
              Updating
<1>6. ASSUME NEW n \in Node, HandleEvent(n) \/ tick_hosts(n) PROVE calls' = calls
  BY <1>6 DEF HandleEvent, create_connection, cancel_connection, remove_connection,
              queue_incoming_packet, recieve_from_unknown_host, Handling, peek_event,
              tick_hosts
<1>7. ASSUME NEW n \in Node, NEW m \in Node, ManagerUser(n, m)
      PROVE  Counts' /\ (calls'.connect = 0 => calls.connect = 0)
  BY <1>1, <1>7 DEF ManagerUser, manual_connect, on_event_add_host, manual_disconnect,
                    send_packet, Asking
<1>8. CASE UNCHANGED allVars
  BY <1>3, <1>8 DEF allVars, vars
<1>. QED BY <1>2, <1>3, <1>4, <1>5, <1>6, <1>7, <1>8 DEF ManagerNext

LEMMA UserClaim ==
  ASSUME BelowInv, AllApart, Counts, NEW n \in Node, NEW m \in Node, Node = {n, m},
         NEW k \in Node \ {n}, ManagerUser(n, k), [ManagerNext]_allVars,
         calls'.connect = 0, Claim(n, m)
  PROVE  Claim(n, m)'
<1>1. k = m
  OBVIOUS
<1>2. manual_disconnect(n, m) \/ send_packet(n, m)
  BY <1>1, CountsStay DEF ManagerUser
<1>3. CASE manual_disconnect(n, m)
  <2>1. /\ UNCHANGED <<peer, peer_map, incoming_requests, results, up>>
        /\ host' = [host EXCEPT ![n][m].state = "disconnecting"]
    BY <1>3 DEF manual_disconnect, Asking, Calling, poolVars
  <2>2. host'[n][m].state = "disconnecting"
    BY <2>1 DEF BelowInv, AllWait, HostsOfNodes, NoHost, NewHost
  <2>3. /\ Believed(n, m)' => Believed(n, m)
        /\ Untried(n, m)' => Untried(n, m)
    BY <2>1, <2>2 DEF Believed, Untried
  <2>4. /\ Attempted(n)' = Attempted(n) /\ Once(incoming_requests[n])'
        /\ Gone(n)' = Gone(n) /\ Trying(n)' = Trying(n)
    BY <2>1 DEF Attempted, Gone, Trying, Claim
  <2>. QED BY <2>1, <2>3, <2>4, ClaimKept
<1>4. CASE send_packet(n, m)
  <2>. DEFINE e == Notice("send", host[n][m].slot, m)
              Q == incoming_requests[n]
  <2>1. /\ UNCHANGED <<peer, peer_map, results, up, host>>
        /\ incoming_requests'[n] = Append(Q, e)
        /\ host[n][m].state = "connected"
    BY <1>4, Tables DEF send_packet, Calling, post_request, poolVars, managerVars
  <2>2. e \in Requested(n) /\ e.type = "send"
    <3>1. host[n][m].slot \in Slot(n)
      BY <2>1 DEF BelowInv, AllSlotted, Slotted
    <3>. QED BY <3>1 DEF Notice, Requested, Request, AnySlot
  <2>3. /\ Types(incoming_requests'[n]) = Types(Q) \cup {"send"}
        /\ Once(incoming_requests'[n])
    <3>1. Q \in Seq(Requested(n)) /\ Once(Q) /\ "send" \notin Tries
      BY RequestsTyped DEF Claim, Tries
    <3>. HIDE DEF e, Q
    <3>2. Types(Append(Q, e)) = Types(Q) \cup {e.type} /\ Once(Append(Q, e))
      BY <2>2, <3>1, TypesAppended
    <3>. QED BY <2>1, <2>2, <3>2
  <2>4. /\ Attempted(n)' => Attempted(n)
        /\ Gone(n) => Gone(n)'
        /\ Trying(n)' = Trying(n)
        /\ Believed(n, m)' = Believed(n, m) /\ Untried(n, m)' = Untried(n, m)
    BY <2>1, <2>3 DEF Attempted, Gone, Trying, Tries, Believed, Untried
  <2>. QED BY <2>1, <2>3, <2>4, ClaimKept
<1>. QED BY <1>2, <1>3, <1>4

\* What holds of two nodes of which one connects.
Pairs ==
  \A n, m \in Node :
    Node = {n, m} /\ n # m /\ ~(Node \subseteq Connectors) =>
      /\ Order(n)
      /\ calls.connect = 0 => Claim(n, m)

TellInv == BelowInv /\ InFrame /\ AllApart /\ Counts /\ Pairs

LEMMA PairsStay ==
  ASSUME TellInv, BelowInv', AllApart', [ManagerNext]_allVars
  PROVE  Pairs'
<1>. /\ BelowInv /\ InFrame /\ AllApart /\ Counts /\ Pairs
  BY DEF TellInv
<1>. SUFFICES ASSUME NEW n \in Node, NEW m \in Node, Node = {n, m}, n # m,
                     ~(Node \subseteq Connectors)
              PROVE  Order(n)' /\ (calls'.connect = 0 => Claim(n, m)')
  BY DEF Pairs
<1>1. Order(n)'
  BY OrderStays DEF Pairs
<1>2. ASSUME calls'.connect = 0 PROVE Claim(n, m)'
  <2>1. Claim(n, m) /\ Order(n)
    BY <1>2, CountsStay DEF Pairs
  <2>2. up'[n] => up[n]
    BY InFrameStays
  <2>3. ASSUME NEW k \in Node,
               \/ tick_server(k) \/ server_passes(k) \/ HandleEvent(k) \/ tick_hosts(k)
               \/ \E i \in Node \ {k} : ManagerUser(k, i)
        PROVE  Claim(n, m)'
    <3>1. CASE k # n
      <4>1. Untouched(n)
        BY <2>3, <3>1, Elsewhere
      <4>. QED BY <2>1, <2>2, <4>1, ClaimUntouched
    <3>2. CASE k = n
      <4>1. CASE tick_server(n)
        BY <2>1, <4>1, FrameClaim
      <4>2. CASE server_passes(n)
        BY <2>1, <2>2, <4>2, PassClaim
      <4>3. CASE HandleEvent(n)
        BY <2>1, <2>2, <4>3, EventClaim
      <4>4. CASE tick_hosts(n)
        BY <2>1, <4>4, TickClaim
      <4>5. CASE \E i \in Node \ {n} : ManagerUser(n, i)
        BY <1>2, <2>1, <4>5, UserClaim
      <4>. QED BY <2>3, <3>2, <4>1, <4>2, <4>3, <4>4, <4>5
    <3>. QED BY <3>1, <3>2
  <2>4. CASE UNCHANGED allVars
    <3>1. Untouched(n)
      BY <2>4 DEF allVars, vars, poolVars, Untouched
    <3>. QED BY <2>1, <2>2, <3>1, ClaimUntouched
  <2>. QED BY <2>3, <2>4 DEF ManagerNext
<1>. QED BY <1>1, <1>2

LEMMA TellHolds ==
  ASSUME ~PatientUser, IsFiniteSet(Node)
  PROVE  ManagerSpec => []TellInv
<1>1. ManagerInit /\ BelowInv => TellInv
  <2>. SUFFICES ASSUME ManagerInit, BelowInv PROVE TellInv
    OBVIOUS
  <2>1. ASSUME NEW n \in Node PROVE Order(n)
    <3>1. results[n] = <<>> /\ Types(<<>>) = {} /\ Ordered(<<>>)
      BY DEF ManagerInit, Init, Types, Ordered
    <3>. QED BY <3>1 DEF Order
  <2>2. Pairs
    BY <2>1, ClaimInit DEF Pairs
  <2>3. Counts
    BY DEF ManagerInit, Init, Counts
  <2>. QED BY <2>2, <2>3, InFrameInit, ApartInit DEF TellInv
<1>2. TellInv /\ BelowInv' /\ [ManagerNext]_allVars => TellInv'
  <2>. SUFFICES ASSUME TellInv, BelowInv', [ManagerNext]_allVars PROVE TellInv'
    OBVIOUS
  <2>1. InFrame' /\ Counts'
    BY InFrameStays, CountsStay DEF TellInv
  <2>2. AllApart'
    BY ApartStays DEF TellInv
  <2>3. Pairs'
    BY <2>2, PairsStay
  <2>. QED BY <2>1, <2>2, <2>3 DEF TellInv
<1>3. ManagerSpec => []BelowInv
  BY BelowHolds
<1>. QED BY <1>1, <1>2, <1>3, PTL DEF ManagerSpec

LEMMA TellInvTells == TellInv => ConnectedHasPeer
<1>. SUFFICES ASSUME TellInv, NEW n \in Node, NEW m \in Node, Node = {n, m},
                     ~(Node \subseteq Connectors), calls.connect = 0, up[n],
                     host[n][m].state = "connected", peer_map[n][m] = NoSlot
              PROVE  \E r \in ToSet(results[n]) \cup ToSet(incoming_requests[n]) :
                       r.address = m /\ r.type = "disconnected"
  BY DEF ConnectedHasPeer
<1>1. n # m
  BY DEF TellInv, AllApart, Apart
<1>2. Gone(n)
  BY <1>1 DEF TellInv, Pairs, Claim, Believed
<1>3. ASSUME NEW q, NEW S, q \in Seq(Abroad(n, S)), \A r \in S : r.address \in Node,
             "disconnected" \in Types(q)
      PROVE  \E r \in ToSet(q) : r.address = m /\ r.type = "disconnected"
  <2>1. PICK i \in 1..Len(q) : q[i].type = "disconnected"
    BY <1>3 DEF Types
  <2>2. q[i] \in Abroad(n, S) /\ q[i] \in ToSet(q)
    <3>. HIDE DEF Abroad
    <3>. QED BY <1>3, <2>1 DEF ToSet
  <2>. QED BY <1>3, <2>1, <2>2 DEF Abroad
<1>4. /\ results[n] \in Seq(Abroad(n, Event))
      /\ incoming_requests[n] \in Seq(Abroad(n, Requested(n)))
  BY DEF TellInv, AllApart, Apart
<1>5. /\ \A r \in Event : r.address \in Node
      /\ \A r \in Requested(n) : r.address \in Node
  BY DEF Event, Requested, Request
<1>6. CASE "disconnected" \in Types(results[n])
  <2>1. \E r \in ToSet(results[n]) : r.address = m /\ r.type = "disconnected"
    BY <1>3, <1>4, <1>5, <1>6
  <2>. QED BY <2>1
<1>7. CASE "disconnected" \in Types(incoming_requests[n])
  <2>1. \E r \in ToSet(incoming_requests[n]) : r.address = m /\ r.type = "disconnected"
    BY <1>3, <1>4, <1>5, <1>7
  <2>. QED BY <2>1
<1>. QED BY <1>2, <1>6, <1>7 DEF Gone

\* Two managers of which one connects, until its user connects again: a host that takes
\* the other for connected has a peer for it in the server below, or the end of the
\* connection is in an event or a request that is still to come, whatever packets, time
\* outs, disconnections and crashes there are.
THEOREM ConnectedUntilTold ==
  ASSUME ~PatientUser, IsFiniteSet(Node)
  PROVE  ManagerSpec => []ConnectedHasPeer
<1>1. ManagerSpec => []TellInv
  BY TellHolds
<1>. QED BY <1>1, TellInvTells, PTL
===============================================================================
