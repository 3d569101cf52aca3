---------------------------- MODULE Replica_proofs ----------------------------
(***************************************************************************)
(* Three things about the updates, for every set of variables, priority    *)
(* and condition and every number of changes, commands and packets.        *)
(*                                                                         *)
(* No variable starves.  What is written is read: a packet that is full    *)
(* anywhere, or is mixed with commands, leaves the reader where the writer *)
(* takes it to be.  The reliable variables arrive, when one packet comes   *)
(* in a frame.                                                             *)
(***************************************************************************)
EXTENDS Replica, FiniteSetTheorems, SequenceTheorems, WellFoundedInduction, TLAPS

\* The inductive invariant: is_dirty counts the updates an item has waited for, and
\* more, and an item is sent before it exceeds its priority; so it never reaches
\* MaxByte, where the counter starts again.
Aging ==
  /\ is_dirty \in [Item -> Nat] /\ waited \in [Item -> Nat]
  /\ \A x \in Item : waited[x] <= is_dirty[x] /\ is_dirty[x] <= Priority[x]

LEMMA PriorityRange == \A x \in Item : Priority[x] \in Nat /\ Priority[x] < MaxByte
BY ReplicaAssumption

\* What an update does to an item it does not send.
LEMMA AgedUnsent ==
  ASSUME Aging, NEW x \in Item, ~Due(x)
  PROVE  /\ Aged(x) \in Nat /\ is_dirty[x] <= Aged(x) /\ Aged(x) <= Priority[x]
         /\ Shown(x) /\ value[x] # sent[x] => waited[x] + 1 <= Aged(x)
<1>1. /\ is_dirty[x] \in Nat /\ waited[x] \in Nat /\ MaxByte \in Nat
      /\ Priority[x] \in Nat /\ Priority[x] < MaxByte
      /\ waited[x] <= is_dirty[x] /\ is_dirty[x] <= Priority[x]
  BY PriorityRange, ReplicaAssumption DEF Aging
<1>2. CASE ~Shown(x)
  BY <1>1, <1>2 DEF Aged
<1>3. CASE Shown(x) /\ is_dirty[x] = 0
  <2>1. Aged(x) = IF value[x] # sent[x] THEN 1 ELSE 0
    BY <1>1, <1>3 DEF Aged
  <2>. QED
    BY <1>1, <1>3, <2>1 DEF Due
<1>4. CASE Shown(x) /\ is_dirty[x] # 0
  <2>1. is_dirty[x] \in 1..(MaxByte - 1)
    BY <1>1, <1>4
  <2>2. Aged(x) = is_dirty[x] + 1
    BY <1>4, <2>1 DEF Aged
  <2>. QED
    BY <1>1, <1>4, <2>2 DEF Due
<1>. QED
  BY <1>2, <1>3, <1>4

LEMMA AgingUpdate == Aging /\ update_out_going_replica => Aging'
<1>. SUFFICES ASSUME Aging, update_out_going_replica
              PROVE  Aging'
  OBVIOUS
<1>1. /\ is_dirty' = [x \in Item |-> IF Due(x) THEN 0 ELSE Aged(x)]
      /\ waited' = [x \in Item |-> IF Due(x) \/ ~Shown(x) \/ value[x] = sent[x] THEN 0
                                   ELSE waited[x] + 1]
  BY DEF update_out_going_replica
<1>2. ASSUME NEW x \in Item
      PROVE  /\ is_dirty'[x] \in Nat /\ waited'[x] \in Nat
             /\ waited'[x] <= is_dirty'[x] /\ is_dirty'[x] <= Priority[x]
  <2>1. waited[x] \in Nat /\ Priority[x] \in Nat
    BY PriorityRange DEF Aging
  <2>2. CASE Due(x)
    BY <1>1, <2>1, <2>2
  <2>3. CASE ~Due(x)
    BY <1>1, <2>1, <2>3, AgedUnsent
  <2>. QED
    BY <2>2, <2>3
<1>. QED
  BY <1>1, <1>2 DEF Aging

LEMMA AgingStep == Aging /\ [Next]_vars => Aging'
<1>. SUFFICES ASSUME Aging, [Next]_vars
              PROVE  Aging'
  OBVIOUS
<1>1. CASE update_out_going_replica
  BY <1>1, AgingUpdate
<1>2. CASE UNCHANGED <<is_dirty, waited>>
  BY <1>2 DEF Aging
<1>3. ASSUME NEW x \in Item, change(x)
      PROVE  UNCHANGED <<is_dirty, waited>>
  BY <1>3 DEF change
<1>4. ASSUME NEW r \in BOOLEAN, NEW n \in CommandSize, send_net_cmd(r, n)
      PROVE  UNCHANGED <<is_dirty, waited>>
  BY <1>4 DEF send_net_cmd
<1>5. connect => UNCHANGED <<is_dirty, waited>>
  BY DEF connect, senderVars
<1>6. arrive_reliable => UNCHANGED <<is_dirty, waited>>
  BY DEF arrive_reliable, Queue, senderVars
<1>7. ASSUME NEW p \in unreliable, NEW again \in BOOLEAN, arrive_unreliable(p, again)
      PROVE  UNCHANGED <<is_dirty, waited>>
  BY <1>7 DEF arrive_unreliable, Queue, senderVars
<1>8. ASSUME NEW p \in unreliable, lose(p)
      PROVE  UNCHANGED <<is_dirty, waited>>
  BY <1>8 DEF lose, senderVars
<1>9. flush_in_coming_packets \/ recieve_one_packet => UNCHANGED <<is_dirty, waited>>
  BY DEF flush_in_coming_packets, recieve_one_packet, senderVars
<1>10. UNCHANGED vars => UNCHANGED <<is_dirty, waited>>
  BY DEF vars, senderVars
<1>. QED
  BY <1>1, <1>2, <1>3, <1>4, <1>5, <1>6, <1>7, <1>8, <1>9, <1>10 DEF Next

\* A changed variable is sent after at most as many updates as its priority
\* (update_one_var and the selection of update_out_going_replica).
THEOREM NoneStarves == Spec => []SentWithinPriority
<1>1. Init => Aging
  BY PriorityRange DEF Init, Aging
<1>2. Aging => SentWithinPriority
  <2>. SUFFICES ASSUME Aging, NEW x \in Item
                PROVE  waited[x] <= Priority[x]
    BY DEF SentWithinPriority
  <2>. QED
    BY PriorityRange DEF Aging
<1>. QED
  BY <1>1, <1>2, AgingStep, PTL DEF Spec

-------------------------------------------------------------------------------
(* The reader.  What it does with a sequence of tokens, one token after the other. *)

St(reads, id, var, index, found) ==
  [reads |-> reads, id |-> id, var |-> var, index |-> index, found |-> found]

ReadStart == St("cmd", 0, 0, 0, <<>>)

IsReading(f, data) ==
  f = [i \in 0..Len(data) |-> IF i = 0 THEN ReadStart ELSE ReadToken(f[i - 1], data[i])]

LEMMA LeastNatural ==
  ASSUME NEW D \in SUBSET Nat, D # {}
  PROVE  \E x \in D : \A y \in D : x <= y
<1>. DEFINE R == OpToRel(<, Nat)
<1>1. IsWellFoundedOn(R, Nat)
  BY NatLessThanWellFounded
<1>2. \A x, y \in Nat : y < x => <<y, x>> \in R
  BY DEF OpToRel
<1>. HIDE DEF R
<1>3. PICK x \in D : \A y \in D : ~ (<<y, x>> \in R)
  BY <1>1, WFMin
<1>4. ASSUME NEW y \in D PROVE x <= y
  <2>1. ~(y < x)
    BY <1>2, <1>3, Zenon
  <2>. QED BY <2>1
<1>. QED BY <1>4

LEMMA GreatestBelow ==
  ASSUME NEW n \in Nat, NEW H \in SUBSET (1..n), H # {}
  PROVE  \E x \in H : \A y \in H : x >= y
<1>. DEFINE D == {n - x : x \in H}
<1>1. D \in SUBSET Nat
  <2>1. \A x \in H : n - x \in Nat
    OBVIOUS
  <2>. QED BY <2>1
<1>0. D # {}
  OBVIOUS
<1>. HIDE DEF D
<1>2. PICK d \in D : \A e \in D : d <= e
  BY <1>0, <1>1, LeastNatural
<1>3. PICK x \in H : d = n - x
  BY DEF D
<1>4. ASSUME NEW y \in H PROVE x >= y
  <2>1. n - y \in D
    BY DEF D
  <2>2. n - x <= n - y
    BY <1>2, <1>3, <2>1
  <2>. QED BY <2>2
<1>. QED BY <1>4

\* What holds of 0, and of each number when it holds of the one before.
LEMMA UpTo ==
  ASSUME NEW n \in Nat, NEW D, 0 \in D,
         \A i \in 0..n : i + 1 \in 0..n /\ i \in D => i + 1 \in D
  PROVE  \A i \in 0..n : i \in D
<1>. DEFINE bad == {i \in 0..n : i \notin D}
<1>1. SUFFICES ASSUME bad # {} PROVE FALSE
  OBVIOUS
<1>2. bad \in SUBSET Nat
  OBVIOUS
<1>3. PICK i \in bad : \A j \in bad : i <= j
  <2>. HIDE DEF bad
  <2>. QED BY <1>1, <1>2, LeastNatural
<1>4. i # 0 /\ i - 1 \in 0..n /\ (i - 1) + 1 = i
  OBVIOUS
<1>5. i - 1 \notin bad
  BY <1>3, <1>4
<1>. QED BY <1>3, <1>4, <1>5

LEMMA ReadingExists ==
  ASSUME NEW data, Len(data) \in Nat
  PROVE  \E f : IsReading(f, data)
<1>. DEFINE Step(f, i) == IF i = 0 THEN ReadStart ELSE ReadToken(f[i - 1], data[i])
            Good(n) == \E f : f = [i \in 0..n |-> Step(f, i)]
            D == {n \in Nat : Good(n)}
<1>1. Good(0)
  <2>. DEFINE f == [i \in 0..0 |-> ReadStart]
  <2>1. f = [i \in 0..0 |-> Step(f, i)]
    OBVIOUS
  <2>. QED BY <2>1
<1>2. ASSUME NEW n \in Nat, Good(n) PROVE Good(n + 1)
  <2>1. PICK f : f = [i \in 0..n |-> Step(f, i)]
    BY <1>2
  <2>. DEFINE g == [i \in 0..(n + 1) |-> Step(f, i)]
  <2>2. \A i \in 0..n : g[i] = f[i]
    BY <2>1
  <2>3. ASSUME NEW i \in 0..(n + 1) PROVE Step(f, i) = Step(g, i)
    <3>1. i # 0 => i - 1 \in 0..n
      OBVIOUS
    <3>. HIDE DEF g
    <3>. QED BY <2>2, <3>1
  <2>4. g = [i \in 0..(n + 1) |-> Step(g, i)]
    BY <2>3
  <2>. QED BY <2>4
<1>. HIDE DEF Good
<1>3. 0 \in D
  BY <1>1
<1>4. \A i \in 0..Len(data) : i + 1 \in 0..Len(data) /\ i \in D => i + 1 \in D
  BY <1>2
<1>5. Len(data) \in D
  <2>1. Len(data) \in 0..Len(data)
    OBVIOUS
  <2>. HIDE DEF D
  <2>. QED BY <1>3, <1>4, <2>1, UpTo
<1>6. Good(Len(data))
  BY <1>5
<1>. QED BY <1>6 DEF Good, IsReading

LEMMA DecodeIs ==
  ASSUME NEW data, Len(data) \in Nat
  PROVE  \E f : IsReading(f, data) /\ Decode(data) = f[Len(data)]
<1>. DEFINE f == CHOOSE f : IsReading(f, data)
<1>1. IsReading(f, data)
  BY ReadingExists
<1>2. Decode(data) = f[Len(data)]
  BY DEF Decode, IsReading, ReadStart, St
<1>. QED BY <1>1, <1>2

LEMMA DecodeEmpty == Decode(<<>>) = ReadStart
<1>1. PICK f : IsReading(f, <<>>) /\ Decode(<<>>) = f[Len(<<>>)]
  BY DecodeIs
<1>. QED BY <1>1 DEF IsReading

LEMMA DecodeAppend ==
  ASSUME NEW S, NEW data \in Seq(S), NEW t \in S
  PROVE  Decode(Append(data, t)) = ReadToken(Decode(data), t)
<1>. DEFINE more == Append(data, t)
            n == Len(data)
<1>1. /\ n \in Nat /\ Len(more) = n + 1 /\ more[n + 1] = t
      /\ \A i \in 1..n : more[i] = data[i]
  OBVIOUS
<1>. HIDE DEF more, n
<1>2. PICK f : IsReading(f, data) /\ Decode(data) = f[n]
  BY <1>1, DecodeIs DEF n
<1>3. PICK g : IsReading(g, more) /\ Decode(more) = g[n + 1]
  BY <1>1, DecodeIs
<1>4. /\ f[0] = ReadStart /\ g[0] = ReadStart
      /\ \A i \in 1..n : f[i] = ReadToken(f[i - 1], data[i])
      /\ \A i \in 1..(n + 1) : g[i] = ReadToken(g[i - 1], more[i])
  <2>1. f = [i \in 0..n |-> IF i = 0 THEN ReadStart ELSE ReadToken(f[i - 1], data[i])]
    BY <1>2 DEF IsReading, n
  <2>2. g = [i \in 0..(n + 1) |-> IF i = 0 THEN ReadStart ELSE ReadToken(g[i - 1], more[i])]
    BY <1>1, <1>3 DEF IsReading
  <2>3. \A i \in 0..n : f[i] = IF i = 0 THEN ReadStart ELSE ReadToken(f[i - 1], data[i])
    BY <2>1
  <2>4. \A i \in 0..(n + 1) :
          g[i] = IF i = 0 THEN ReadStart ELSE ReadToken(g[i - 1], more[i])
    BY <2>2
  <2>. QED BY <1>1, <2>3, <2>4
<1>. DEFINE D == {i \in 0..n : f[i] = g[i]}
<1>5. ASSUME NEW i \in 0..n, i + 1 \in 0..n, i \in D PROVE i + 1 \in D
  <2>1. i + 1 \in 1..n /\ i + 1 \in 1..(n + 1) /\ (i + 1) - 1 = i
    BY <1>1, <1>5
  <2>2. f[i + 1] = ReadToken(f[i], data[i + 1]) /\ g[i + 1] = ReadToken(g[i], more[i + 1])
    BY <1>4, <2>1
  <2>. QED BY <1>1, <1>5, <2>1, <2>2
<1>6. 0 \in D
  BY <1>1, <1>4
<1>7. n \in D
  <2>1. n \in 0..n
    BY <1>1
  <2>. HIDE DEF D
  <2>. QED BY <1>1, <1>5, <1>6, <2>1, UpTo
<1>8. g[n + 1] = ReadToken(g[n], more[n + 1])
  <2>1. n + 1 \in 1..(n + 1) /\ (n + 1) - 1 = n
    BY <1>1
  <2>. QED BY <1>4, <2>1
<1>. QED BY <1>1, <1>2, <1>3, <1>7, <1>8 DEF more

LEMMA ReadsNext ==
  /\ \A id, var, index, found, n :
       ReadToken(St("cmd", id, var, index, found), T("cmd", n)) = St("var", n, var, index, found)
  /\ \A id, var, index, found, n :
       ReadToken(St("cmd", id, var, index, found), T("other", n))
         = St("cmd", id, var, index, found)
  /\ \A id, var, index, found, n :
       ReadToken(St("cmd", id, var, index, found), T("cmd_end", n))
         = St("done", id, var, index, found)
  /\ \A id, var, index, found, n :
       ReadToken(St("var", id, var, index, found), T("end", n)) = St("cmd", id, var, index, found)
  /\ \A id, var, index, found, n :
       ReadToken(St("var", id, var, index, found), T("var", n)) = St("index", id, n, index, found)
  /\ \A id, var, index, found, n :
       ReadToken(St("index", id, var, index, found), T("end", n))
         = St("var", id, var, index, found)
  /\ \A id, var, index, found, n :
       ReadToken(St("index", id, var, index, found), T("index", n))
         = St("value", id, var, n, found)
<1>1. ASSUME NEW id, NEW var, NEW index, NEW found, NEW n
      PROVE  /\ ReadToken(St("cmd", id, var, index, found), T("cmd", n))
                  = St("var", n, var, index, found)
             /\ ReadToken(St("cmd", id, var, index, found), T("other", n))
                  = St("cmd", id, var, index, found)
             /\ ReadToken(St("cmd", id, var, index, found), T("cmd_end", n))
                  = St("done", id, var, index, found)
             /\ ReadToken(St("var", id, var, index, found), T("end", n))
                  = St("cmd", id, var, index, found)
             /\ ReadToken(St("var", id, var, index, found), T("var", n))
                  = St("index", id, n, index, found)
             /\ ReadToken(St("index", id, var, index, found), T("end", n))
                  = St("var", id, var, index, found)
             /\ ReadToken(St("index", id, var, index, found), T("index", n))
                  = St("value", id, var, n, found)
  BY DEF ReadToken, St, T, Named
<1>. QED BY <1>1

LEMMA ReadsValue ==
  ASSUME NEW id, NEW var, NEW index, NEW found, NEW n,
         [id |-> id, var |-> var, index |-> index] \in Item
  PROVE  ReadToken(St("value", id, var, index, found), T("value", n))
           = St("index", id, var, index,
                Append(found, [item |-> [id |-> id, var |-> var, index |-> index], value |-> n]))
BY DEF ReadToken, St, T, Named

-------------------------------------------------------------------------------
(* What an item adds to a packet. *)

U(x) == [item |-> x, value |-> value[x]]

LEMMA ItemParts ==
  ASSUME NEW x \in Item
  PROVE  /\ x.id \in Nat /\ x.id # 0 /\ x.var \in Nat /\ x.var # 0 /\ x.index \in Nat
         /\ x = [id |-> x.id, var |-> x.var, index |-> x.index]
BY ReplicaAssumption

LEMMA Tokens ==
  /\ \A n \in Nat : \A kind \in {"cmd", "var", "index", "value"} : T(kind, n) \in Token
  /\ End \in Token /\ CmdEnd \in Token /\ T("other", 0) \in Token
BY DEF T, End, CmdEnd, Token

LEMMA DecodeOne ==
  ASSUME NEW S, NEW q \in Seq(S), NEW a \in S
  PROVE  /\ q \o <<a>> \in Seq(S)
         /\ Decode(q \o <<a>>) = ReadToken(Decode(q), a)
<1>1. q \o <<a>> = Append(q, a) /\ Append(q, a) \in Seq(S)
  OBVIOUS
<1>2. Decode(Append(q, a)) = ReadToken(Decode(q), a)
  BY DecodeAppend
<1>. QED BY <1>1, <1>2

LEMMA DecodeTwo ==
  ASSUME NEW S, NEW q \in Seq(S), NEW a \in S, NEW b \in S
  PROVE  /\ q \o <<a, b>> \in Seq(S)
         /\ Decode(q \o <<a, b>>) = ReadToken(ReadToken(Decode(q), a), b)
<1>1. Append(q, a) \in Seq(S) /\ Append(Append(q, a), b) \in Seq(S)
  OBVIOUS
<1>2. q \o <<a, b>> = Append(Append(q, a), b)
  OBVIOUS
<1>3. Decode(Append(Append(q, a), b)) = ReadToken(Decode(Append(q, a)), b)
  BY <1>1, DecodeAppend
<1>4. Decode(Append(q, a)) = ReadToken(Decode(q), a)
  BY DecodeAppend
<1>. QED BY <1>1, <1>2, <1>3, <1>4

\* The three parts of fill_one_replica_update.
Opening(w, x) ==
  IF w.id = x.id THEN <<>>
  ELSE (IF w.id = 0 THEN <<>> ELSE <<End, End>>) \o <<T("cmd", x.id)>>

Naming(w, x) ==
  IF w.id = x.id /\ w.var = x.var THEN <<>>
  ELSE (IF w.id # x.id \/ w.var = 0 THEN <<>> ELSE <<End>>) \o <<T("var", x.var)>>

LEMMA PartsOfFill ==
  ASSUME NEW w, NEW x \in Item, value[x] \in Nat
  PROVE  /\ Opening(w, x) \in Seq(Token) /\ Naming(w, x) \in Seq(Token)
         /\ <<T("index", x.index), T("value", value[x])>> \in Seq(Token)
         /\ Fill(w, x) = (Opening(w, x) \o Naming(w, x))
                           \o <<T("index", x.index), T("value", value[x])>>
         /\ Fill(w, x) \in Seq(Token)
         /\ w.id = 0 => Len(Fill(w, x)) = 4
<1>. DEFINE last == <<T("index", x.index), T("value", value[x])>>
            cmd == T("cmd", x.id)
            var == T("var", x.var)
<1>1. cmd \in Token /\ var \in Token /\ End \in Token
  BY ItemParts, Tokens
<1>2. last \in Seq(Token) /\ Len(last) = 2
  BY ItemParts, Tokens
<1>3. Fill(w, x) = (Opening(w, x) \o Naming(w, x)) \o last
  BY DEF Fill, Opening, Naming
<1>4. x.id # 0
  BY ItemParts
<1>. HIDE DEF last, cmd, var
<1>5. /\ Opening(w, x) \in Seq(Token)
      /\ w.id = 0 => Len(Opening(w, x)) = 1
  BY <1>1, <1>4 DEF Opening, cmd
<1>6. /\ Naming(w, x) \in Seq(Token)
      /\ w.id = 0 => Len(Naming(w, x)) = 1
  BY <1>1, <1>4 DEF Naming, var
<1>. HIDE DEF Opening, Naming
<1>7. /\ Opening(w, x) \o Naming(w, x) \in Seq(Token)
      /\ Len(Opening(w, x) \o Naming(w, x)) = Len(Opening(w, x)) + Len(Naming(w, x))
  BY <1>5, <1>6
<1>8. ASSUME w.id = 0 PROVE Len(Fill(w, x)) = 4
  <2>1. Len(Fill(w, x)) = Len(Opening(w, x) \o Naming(w, x)) + Len(last)
    <3>. DEFINE first == Opening(w, x) \o Naming(w, x)
    <3>1. first \in Seq(Token) /\ Fill(w, x) = first \o last
      BY <1>3, <1>7
    <3>. HIDE DEF first
    <3>2. Len(first \o last) = Len(first) + Len(last)
      BY <1>2, <3>1, ConcatProperties
    <3>. QED BY <3>1, <3>2 DEF first
  <2>2. Len(Opening(w, x)) = 1 /\ Len(Naming(w, x)) = 1
    BY <1>5, <1>6, <1>8
  <2>. QED BY <1>2, <1>7, <2>1, <2>2
<1>9. Fill(w, x) \in Seq(Token)
  BY <1>2, <1>3, <1>7
<1>. QED BY <1>2, <1>3, <1>5, <1>6, <1>8, <1>9 DEF last

\* Where the reader is after the opening of a replica, and of a variable.
LEMMA OpeningReads ==
  ASSUME NEW w, NEW x \in Item, NEW data \in Seq(Token), NEW index, NEW found,
         w.id = 0 => \E id, var : Decode(data) = St("cmd", id, var, index, found),
         w.id # 0 => Decode(data) = St("index", w.id, w.var, index, found)
  PROVE  /\ w.id = x.id =>
              Decode(data \o Opening(w, x)) = St("index", w.id, w.var, index, found)
         /\ w.id # x.id => \E v : Decode(data \o Opening(w, x)) = St("var", x.id, v, index, found)
<1>. DEFINE cmd == T("cmd", x.id)
<1>0. cmd \in Token /\ End \in Token /\ x.id # 0
  BY ItemParts, Tokens
<1>1. CASE w.id = x.id
  <2>1. data \o Opening(w, x) = data
    BY <1>1 DEF Opening
  <2>. QED BY <1>0, <1>1, <2>1
<1>2. CASE w.id = 0
  <2>1. Opening(w, x) = <<cmd>>
    BY <1>0, <1>2 DEF Opening
  <2>2. PICK id, var : Decode(data) = St("cmd", id, var, index, found)
    BY <1>2
  <2>3. Decode(data \o <<cmd>>) = ReadToken(St("cmd", id, var, index, found), cmd)
    BY <1>0, <2>2, DecodeOne
  <2>. QED BY <1>0, <1>2, <2>1, <2>3, ReadsNext
<1>3. CASE w.id # x.id /\ w.id # 0
  <2>1. Opening(w, x) = <<End, End>> \o <<cmd>>
    BY <1>3 DEF Opening
  <2>. DEFINE q == data \o <<End, End>>
  <2>2. /\ q \in Seq(Token)
        /\ Decode(q) = ReadToken(ReadToken(St("index", w.id, w.var, index, found), End), End)
    BY <1>0, <1>3, DecodeTwo
  <2>3. Decode(q) = St("cmd", w.id, w.var, index, found)
    BY <2>2, ReadsNext DEF End
  <2>4. data \o Opening(w, x) = q \o <<cmd>>
    <3>. HIDE DEF cmd
    <3>. QED BY <1>0, <2>1, ConcatAssociative
  <2>. HIDE DEF q
  <2>5. Decode(q \o <<cmd>>) = ReadToken(St("cmd", w.id, w.var, index, found), cmd)
    BY <1>0, <2>2, <2>3, DecodeOne
  <2>. QED BY <1>3, <2>4, <2>5, ReadsNext
<1>. QED BY <1>1, <1>2, <1>3

LEMMA NamingNew ==
  ASSUME NEW w, NEW x \in Item, NEW q \in Seq(Token), NEW index, NEW found, NEW v,
         w.id # x.id, Decode(q) = St("var", x.id, v, index, found)
  PROVE  Decode(q \o Naming(w, x)) = St("index", x.id, x.var, index, found)
<1>. DEFINE var == T("var", x.var)
<1>0. var \in Token
  BY ItemParts, Tokens
<1>1. Naming(w, x) = <<var>>
  BY <1>0 DEF Naming
<1>2. Decode(q \o <<var>>) = ReadToken(St("var", x.id, v, index, found), var)
  BY <1>0, DecodeOne
<1>. QED BY <1>1, <1>2, ReadsNext

LEMMA NamingNext ==
  ASSUME NEW w, NEW x \in Item, NEW q \in Seq(Token), NEW index, NEW found,
         w.id = x.id, w.var # 0, Decode(q) = St("index", w.id, w.var, index, found)
  PROVE  Decode(q \o Naming(w, x)) = St("index", x.id, x.var, index, found)
<1>. DEFINE var == T("var", x.var)
<1>0. var \in Token /\ End \in Token
  BY ItemParts, Tokens
<1>1. CASE w.var = x.var
  <2>1. q \o Naming(w, x) = q
    BY <1>1 DEF Naming
  <2>. QED BY <1>1, <2>1
<1>2. CASE w.var # x.var
  <2>1. Naming(w, x) = <<End>> \o <<var>>
    BY <1>2 DEF Naming
  <2>. DEFINE p == q \o <<End>>
  <2>2. p \in Seq(Token) /\ Decode(p) = ReadToken(St("index", w.id, w.var, index, found), End)
    BY <1>0, DecodeOne
  <2>3. Decode(p) = St("var", w.id, w.var, index, found)
    BY <2>2, ReadsNext DEF End
  <2>4. q \o Naming(w, x) = p \o <<var>>
    <3>. HIDE DEF var
    <3>. QED BY <1>0, <2>1, ConcatAssociative
  <2>. HIDE DEF p
  <2>5. Decode(p \o <<var>>) = ReadToken(St("var", w.id, w.var, index, found), var)
    BY <1>0, <2>2, <2>3, DecodeOne
  <2>. QED BY <2>4, <2>5, ReadsNext
<1>. QED BY <1>1, <1>2

LEMMA FillReads ==
  ASSUME NEW w, NEW x \in Item, value[x] \in Nat, NEW data \in Seq(Token),
         NEW index, NEW found,
         w.id = 0 => \E id, var : Decode(data) = St("cmd", id, var, index, found),
         w.id # 0 => w.var # 0 /\ Decode(data) = St("index", w.id, w.var, index, found)
  PROVE  Decode(data \o Fill(w, x)) = St("index", x.id, x.var, x.index, Append(found, U(x)))
<1>. DEFINE a == T("index", x.index)
            b == T("value", value[x])
            one == Opening(w, x)
            two == Naming(w, x)
            q == data \o one
            p == q \o two
<1>1. /\ one \in Seq(Token) /\ two \in Seq(Token) /\ <<a, b>> \in Seq(Token)
      /\ Fill(w, x) = (one \o two) \o <<a, b>>
  BY PartsOfFill
<1>2. a \in Token /\ b \in Token /\ x.id # 0
  BY ItemParts, Tokens
<1>3. /\ w.id = x.id => Decode(q) = St("index", w.id, w.var, index, found)
      /\ w.id # x.id => \E v : Decode(q) = St("var", x.id, v, index, found)
  <2>1. w.id # 0 => Decode(data) = St("index", w.id, w.var, index, found)
    OBVIOUS
  <2>. QED BY <2>1, OpeningReads DEF one
<1>. HIDE DEF a, b, one, two
<1>4. q \in Seq(Token) /\ p \in Seq(Token)
  BY <1>1
<1>5. data \o Fill(w, x) = p \o <<a, b>>
  <2>. DEFINE r == <<a, b>>
  <2>. HIDE DEF r
  <2>1. data \o ((one \o two) \o r) = (data \o (one \o two)) \o r
    <3>1. \A s, u \in Seq(Token) : data \o (s \o u) = (data \o s) \o u
      BY ConcatAssociative
    <3>2. r \in Seq(Token) /\ one \o two \in Seq(Token)
      BY <1>1 DEF r
    <3>. QED BY <3>1, <3>2, Zenon
  <2>2. data \o (one \o two) = p
    <3>1. \A s, u \in Seq(Token) : data \o (s \o u) = (data \o s) \o u
      BY ConcatAssociative
    <3>. QED BY <1>1, <3>1, Zenon
  <2>. QED BY <1>1, <2>1, <2>2 DEF r
<1>6. Decode(p) = St("index", x.id, x.var, index, found)
  <2>. HIDE DEF q
  <2>1. w.id = x.id => w.var # 0
    BY <1>2
  <2>2. CASE w.id = x.id
    <3>1. Decode(q) = St("index", w.id, w.var, index, found)
      BY <1>3, <2>2
    <3>. HIDE DEF p
    <3>2. Decode(q \o Naming(w, x)) = St("index", x.id, x.var, index, found)
      BY <1>4, <2>1, <2>2, <3>1, NamingNext
    <3>. QED BY <3>2 DEF p, two
  <2>3. CASE w.id # x.id
    <3>1. PICK v : Decode(q) = St("var", x.id, v, index, found)
      BY <1>3, <2>3
    <3>2. Decode(q \o Naming(w, x)) = St("index", x.id, x.var, index, found)
      BY <1>4, <2>3, <3>1, NamingNew
    <3>. QED BY <3>2 DEF two
  <2>. QED BY <2>2, <2>3
<1>7. Decode(p \o <<a, b>>) = ReadToken(ReadToken(St("index", x.id, x.var, index, found), a), b)
  <2>. HIDE DEF p
  <2>. QED BY <1>2, <1>4, <1>6, DecodeTwo
<1>8. ReadToken(St("index", x.id, x.var, index, found), a)
        = St("value", x.id, x.var, x.index, found)
  BY ReadsNext DEF a
<1>9. x = [id |-> x.id, var |-> x.var, index |-> x.index]
  BY ItemParts
<1>10. ReadToken(St("value", x.id, x.var, x.index, found), b)
         = St("index", x.id, x.var, x.index, Append(found, U(x)))
  BY <1>9, ReadsValue DEF b, U
<1>. QED BY <1>5, <1>7, <1>8, <1>10

-------------------------------------------------------------------------------
(* The packets an update fills, and what they carry. *)

Out == [data : Seq(Token), carries : Seq(Update)]
Cur == [data : Seq(Token), carries : Seq(Update), mine : BOOLEAN]
Writer == [ended : [BOOLEAN -> Seq(Out)], id : Nat, var : Nat, first_unreliable : BOOLEAN,
           current : [BOOLEAN -> Cur]]

Elems(q) == {q[i] : i \in 1..Len(q)}

\* The reader finds what the packet carries.
Readable(p) ==
  /\ Len(p.data) <= PacketSize
  /\ Decode(p.data).reads = "done" /\ Decode(p.data).found = p.carries

\* A packet that is being filled has room for its end, and its reader is between two
\* commands, or in the array of the last item.
Filled(c) ==
  /\ c \in Cur
  /\ c.mine => /\ Len(c.data) + 3 <= PacketSize
               /\ \E id, var, index : Decode(c.data) = St("index", id, var, index, c.carries)
  /\ ~c.mine => /\ Len(c.data) + 1 <= PacketSize /\ c.carries = <<>>
                /\ \E id, var, index : Decode(c.data) = St("cmd", id, var, index, <<>>)

LEMMA EndedIsReadable ==
  ASSUME NEW c, Filled(c)
  PROVE  /\ Ended(Close(c)) \in Out /\ Readable(Ended(Close(c)))
         /\ Ended(Close(c)).carries = c.carries
<1>. DEFINE e == Ended(Close(c))
<1>1. c \in Cur /\ c.data \in Seq(Token) /\ c.carries \in Seq(Update) /\ c.mine \in BOOLEAN
  BY DEF Filled, Cur
<1>2. End \in Token /\ CmdEnd \in Token
  BY Tokens
<1>3. CASE c.mine
  <2>. DEFINE q == c.data \o <<End, End>>
  <2>1. PICK id, var, index : Decode(c.data) = St("index", id, var, index, c.carries)
    BY <1>3 DEF Filled
  <2>2. /\ q \in Seq(Token) /\ Len(q) = Len(c.data) + 2
        /\ Decode(q) = ReadToken(ReadToken(St("index", id, var, index, c.carries), End), End)
    BY <1>1, <1>2, <2>1, DecodeTwo
  <2>3. Decode(q) = St("cmd", id, var, index, c.carries)
    BY <2>2, ReadsNext DEF End
  <2>4. Close(c).data = q /\ Close(c).carries = c.carries
    BY <1>1, <1>3 DEF Close, Cur
  <2>. HIDE DEF q
  <2>5. Decode(Append(q, CmdEnd)) = ReadToken(St("cmd", id, var, index, c.carries), CmdEnd)
    BY <1>2, <2>2, <2>3, DecodeAppend
  <2>6. Decode(Append(q, CmdEnd)) = St("done", id, var, index, c.carries)
    BY <2>5, ReadsNext DEF CmdEnd
  <2>7. e = [data |-> Append(q, CmdEnd), carries |-> c.carries]
    BY <2>4 DEF Ended
  <2>8. Append(q, CmdEnd) \in Seq(Token) /\ Len(Append(q, CmdEnd)) <= PacketSize
    <3>1. Len(c.data) + 3 <= PacketSize /\ Len(c.data) \in Nat /\ PacketSize \in Nat
      BY <1>1, <1>3, ReplicaAssumption DEF Filled
    <3>. QED BY <1>2, <2>2, <3>1
  <2>9. /\ St("done", id, var, index, c.carries).reads = "done"
        /\ St("done", id, var, index, c.carries).found = c.carries
    BY DEF St
  <2>. QED BY <1>1, <2>6, <2>7, <2>8, <2>9 DEF Out, Readable
<1>4. CASE ~c.mine
  <2>1. PICK id, var, index : Decode(c.data) = St("cmd", id, var, index, <<>>)
    BY <1>4 DEF Filled
  <2>2. Close(c) = c /\ c.carries = <<>>
    BY <1>4 DEF Close, Filled
  <2>3. Decode(Append(c.data, CmdEnd)) = ReadToken(St("cmd", id, var, index, <<>>), CmdEnd)
    BY <1>1, <1>2, <2>1, DecodeAppend
  <2>4. Decode(Append(c.data, CmdEnd)) = St("done", id, var, index, <<>>)
    BY <2>3, ReadsNext DEF CmdEnd
  <2>5. e = [data |-> Append(c.data, CmdEnd), carries |-> c.carries]
    BY <2>2 DEF Ended
  <2>6. Append(c.data, CmdEnd) \in Seq(Token) /\ Len(Append(c.data, CmdEnd)) <= PacketSize
    <3>1. Len(c.data) + 1 <= PacketSize /\ Len(c.data) \in Nat /\ PacketSize \in Nat
      BY <1>1, <1>4, ReplicaAssumption DEF Filled
    <3>. QED BY <1>1, <1>2, <3>1
  <2>7. /\ St("done", id, var, index, <<>>).reads = "done"
        /\ St("done", id, var, index, <<>>).found = <<>>
    BY DEF St
  <2>. QED BY <1>1, <2>2, <2>4, <2>5, <2>6, <2>7 DEF Out, Readable
<1>. QED BY <1>1, <1>3, <1>4

\* A packet of commands only.
LEMMA CommandsRead ==
  ASSUME NEW q \in Seq({T("other", 0)})
  PROVE  q \in Seq(Token) /\ Decode(q) = ReadStart
<1>1. PICK f : IsReading(f, q) /\ Decode(q) = f[Len(q)]
  BY DecodeIs
<1>. DEFINE n == Len(q)
            D == {i \in 0..n : f[i] = ReadStart}
<1>2. n \in Nat /\ \A i \in 1..n : q[i] = T("other", 0)
  OBVIOUS
<1>. HIDE DEF n
<1>3. \A i \in 0..n : f[i] = IF i = 0 THEN ReadStart ELSE ReadToken(f[i - 1], q[i])
  BY <1>1 DEF IsReading, n
<1>4. 0 \in D
  BY <1>2, <1>3
<1>5. ASSUME NEW i \in 0..n, i + 1 \in 0..n, i \in D PROVE i + 1 \in D
  <2>1. i + 1 \in 1..n /\ (i + 1) - 1 = i /\ i + 1 # 0
    BY <1>2, <1>5
  <2>2. f[i + 1] = ReadToken(f[i], q[i + 1])
    BY <1>3, <2>1
  <2>3. f[i + 1] = ReadToken(ReadStart, T("other", 0))
    BY <1>2, <1>5, <2>1, <2>2
  <2>. QED BY <2>1, <2>3, ReadsNext DEF ReadStart
<1>6. n \in D
  <2>1. n \in 0..n
    BY <1>2
  <2>. HIDE DEF D
  <2>. QED BY <1>2, <1>4, <1>5, <2>1, UpTo
<1>. QED BY <1>1, <1>6, Tokens DEF n

\* What the packets of one kind carry, ended or not.
Carried(w, r) ==
  (UNION {Elems(p.carries) : p \in Elems(w.ended[r])}) \cup Elems(w.current[r].carries)

\* The state of an update that has written the items of S: the open replica is that of the
\* current packet of the kind it is at.
Wrote(w, S) ==
  /\ w \in Writer
  /\ \A r \in BOOLEAN : Filled(w.current[r]) /\ \A p \in Elems(w.ended[r]) : Readable(p)
  /\ LET c == w.current[~w.first_unreliable]
     IN  IF w.id = 0 THEN ~c.mine
         ELSE /\ w.var # 0 /\ c.mine
              /\ \E index : Decode(c.data) = St("index", w.id, w.var, index, c.carries)
  /\ ~w.first_unreliable => ~w.current[FALSE].mine
  /\ \A r \in BOOLEAN : Carried(w, r) = {U(x) : x \in {y \in S : need_reliable(y) = r}}

\* The three steps of WriteOne.
Switched(w, x) ==
  IF ~need_reliable(x) /\ ~w.first_unreliable
  THEN [w EXCEPT !.first_unreliable = TRUE, !.id = 0, !.var = 0] ELSE w

Roomed(a, x) ==
  LET r == need_reliable(x)
  IN  IF Fits(a.current[r], Len(Fill(a, x))) THEN a
      ELSE [a EXCEPT !.ended[r] = Append(@, Ended(Close(a.current[r]))),
                     !.current[r] = Empty, !.id = 0, !.var = 0]

Added(b, x) ==
  LET r == need_reliable(x)
  IN  [b EXCEPT !.current[r] =
                  [data |-> @.data \o Fill(b, x),
                   carries |-> Append(@.carries, [item |-> x, value |-> value[x]]),
                   mine |-> TRUE],
                !.id = x.id, !.var = x.var]

LEMMA WriteOneIs ==
  ASSUME NEW w, NEW x
  PROVE  WriteOne(w, x) = Added(Roomed(Switched(w, x), x), x)
BY DEF WriteOne, Added, Roomed, Switched

LEMMA SwitchedWrote ==
  ASSUME NEW w, NEW S, Wrote(w, S), NEW x,
         w.first_unreliable => ~need_reliable(x)
  PROVE  /\ Wrote(Switched(w, x), S)
         /\ Switched(w, x).first_unreliable = ~need_reliable(x)
<1>1. need_reliable(x) \in BOOLEAN /\ w.first_unreliable \in BOOLEAN
  BY DEF need_reliable, Wrote, Writer
<1>2. CASE ~need_reliable(x) /\ ~w.first_unreliable
  <2>. DEFINE a == Switched(w, x)
  <2>1. /\ a \in Writer /\ a.ended = w.ended /\ a.current = w.current
        /\ a.first_unreliable = TRUE /\ a.id = 0 /\ a.var = 0
    BY <1>2 DEF Switched, Wrote, Writer
  <2>. HIDE DEF a
  <2>2. ~a.current[~a.first_unreliable].mine
    <3>1. ~w.current[FALSE].mine
      BY <1>2 DEF Wrote
    <3>2. (~a.first_unreliable) = FALSE
      BY <2>1
    <3>. QED BY <2>1, <3>1, <3>2
  <2>3. \A r \in BOOLEAN : Carried(a, r) = Carried(w, r)
    BY <2>1 DEF Carried
  <2>4. Wrote(a, S)
    BY <2>1, <2>2, <2>3 DEF Wrote
  <2>. QED BY <1>2, <2>1, <2>4 DEF a
<1>3. CASE need_reliable(x) \/ w.first_unreliable
  <2>1. Switched(w, x) = w
    BY <1>3 DEF Switched
  <2>. QED BY <1>1, <1>3, <2>1
<1>. QED BY <1>2, <1>3

LEMMA ElemsAppended ==
  ASSUME NEW S, NEW q \in Seq(S), NEW e \in S
  PROVE  /\ Elems(Append(q, e)) = Elems(q) \cup {e}
         /\ Append(q, e) \in Seq(S)
<1>1. /\ Len(q) \in Nat /\ Len(Append(q, e)) = Len(q) + 1
      /\ \A i \in 1..Len(q) : Append(q, e)[i] = q[i]
      /\ Append(q, e)[Len(q) + 1] = e
  OBVIOUS
<1>. DEFINE more == Append(q, e)
<1>. HIDE DEF more
<1>2. Elems(more) = Elems(q) \cup {e}
  BY <1>1 DEF Elems, more
<1>. QED BY <1>2 DEF more

LEMMA RoomedWrote ==
  ASSUME NEW a, NEW S, Wrote(a, S), NEW x \in Item, value[x] \in Nat,
         a.first_unreliable = ~need_reliable(x)
  PROVE  LET b == Roomed(a, x)
         IN  /\ Wrote(b, S) /\ b.first_unreliable = a.first_unreliable
             /\ Fits(b.current[need_reliable(x)], Len(Fill(b, x)))
<1>. DEFINE r == need_reliable(x)
            c == a.current[r]
            b == Roomed(a, x)
            e == Ended(Close(c))
<1>1. /\ r \in BOOLEAN /\ r = ~a.first_unreliable
      /\ a \in Writer /\ a.current \in [BOOLEAN -> Cur] /\ a.ended \in [BOOLEAN -> Seq(Out)]
      /\ Filled(c)
  BY DEF need_reliable, Wrote, Writer
<1>2. CASE Fits(a.current[r], Len(Fill(a, x)))
  <2>1. Roomed(a, x) = a
    BY <1>2 DEF Roomed
  <2>. QED BY <1>2, <2>1
<1>3. CASE ~Fits(a.current[r], Len(Fill(a, x)))
  <2>1. e \in Out /\ Readable(e) /\ e.carries = c.carries
    BY <1>1, EndedIsReadable
  <2>2. Empty \in Cur /\ Empty.carries = <<>> /\ Empty.data = <<>> /\ ~Empty.mine
    BY DEF Empty, Cur
  <2>3. b = [a EXCEPT !.ended = [a.ended EXCEPT ![r] = Append(a.ended[r], e)],
                      !.current = [a.current EXCEPT ![r] = Empty], !.id = 0, !.var = 0]
    <3>1. b = [a EXCEPT !.ended[r] = Append(@, e), !.current[r] = Empty, !.id = 0, !.var = 0]
      BY <1>3 DEF Roomed
    <3>. HIDE DEF b, e, r
    <3>. QED BY <1>1, <3>1 DEF Writer
  <2>. HIDE DEF b, e
  <2>4. /\ b \in Writer /\ b.first_unreliable = a.first_unreliable /\ b.id = 0 /\ b.var = 0
        /\ b.ended = [a.ended EXCEPT ![r] = Append(a.ended[r], e)]
        /\ b.current = [a.current EXCEPT ![r] = Empty]
    <3>. DEFINE ended == [a.ended EXCEPT ![r] = Append(a.ended[r], e)]
                current == [a.current EXCEPT ![r] = Empty]
    <3>1. ended \in [BOOLEAN -> Seq(Out)] /\ current \in [BOOLEAN -> Cur]
      <4>1. Append(a.ended[r], e) \in Seq(Out)
        <5>1. a.ended[r] \in Seq(Out)
          BY <1>1
        <5>. QED BY <2>1, <5>1, ElemsAppended
      <4>. QED BY <1>1, <2>2, <4>1
    <3>. HIDE DEF ended, current
    <3>2. b = [a EXCEPT !.ended = ended, !.current = current, !.id = 0, !.var = 0]
      BY <2>3 DEF ended, current
    <3>3. /\ b \in Writer /\ b.first_unreliable = a.first_unreliable /\ b.id = 0
          /\ b.var = 0 /\ b.ended = ended /\ b.current = current
      BY <1>1, <3>1, <3>2 DEF Writer
    <3>. QED BY <3>3 DEF ended, current
  <2>5. b.current[r] = Empty /\ \A s \in BOOLEAN \ {r} :
          b.current[s] = a.current[s] /\ b.ended[s] = a.ended[s]
    BY <1>1, <2>4
  <2>6. Elems(b.ended[r]) = Elems(a.ended[r]) \cup {e}
    <3>1. b.ended[r] = Append(a.ended[r], e) /\ a.ended[r] \in Seq(Out)
      BY <1>1, <2>4
    <3>. QED BY <2>1, <3>1, ElemsAppended
  <2>7. Filled(Empty)
    <3>1. Len(Empty.data) + 1 <= PacketSize
      BY <2>2, ReplicaAssumption
    <3>. QED BY <2>2, <3>1, DecodeEmpty DEF Filled, ReadStart
  <2>8. \A s \in BOOLEAN : Filled(b.current[s]) /\ \A p \in Elems(b.ended[s]) : Readable(p)
    BY <2>1, <2>5, <2>6, <2>7 DEF Wrote
  <2>9. ASSUME NEW s \in BOOLEAN PROVE Carried(b, s) = Carried(a, s)
    <3>1. CASE s # r
      BY <2>5, <3>1 DEF Carried
    <3>2. CASE s = r
      <4>1. Elems(<<>>) = {}
        BY DEF Elems
      <4>2. UNION {Elems(p.carries) : p \in Elems(a.ended[r]) \cup {e}}
              = (UNION {Elems(p.carries) : p \in Elems(a.ended[r])}) \cup Elems(e.carries)
        OBVIOUS
      <4>. QED BY <2>1, <2>2, <2>5, <2>6, <3>2, <4>1, <4>2 DEF Carried
    <3>. QED BY <3>1, <3>2
  <2>10. b.current[~b.first_unreliable] = Empty
    BY <1>1, <2>4, <2>5
  <2>11. ~b.first_unreliable => ~b.current[FALSE].mine
    <3>. SUFFICES ASSUME ~b.first_unreliable PROVE ~b.current[FALSE].mine
      OBVIOUS
    <3>1. r = TRUE /\ ~a.first_unreliable
      BY <1>1, <2>4
    <3>. QED BY <2>5, <3>1 DEF Wrote
  <2>12. Wrote(b, S)
    BY <2>2, <2>4, <2>8, <2>9, <2>10, <2>11 DEF Wrote
  <2>13. Fits(b.current[r], Len(Fill(b, x)))
    <3>1. Len(Fill(b, x)) = 4
      BY <2>4, PartsOfFill
    <3>2. Len(Empty.data) = 0 /\ PacketSize \in Nat /\ PacketSize >= 7
      BY <2>2, ReplicaAssumption
    <3>. QED BY <2>5, <3>1, <3>2 DEF Fits
  <2>. QED BY <2>4, <2>12, <2>13 DEF b
<1>. QED BY <1>2, <1>3

LEMMA AddedWrote ==
  ASSUME NEW b, NEW S, Wrote(b, S), NEW x \in Item, value[x] \in Value,
         b.first_unreliable = ~need_reliable(x),
         Fits(b.current[need_reliable(x)], Len(Fill(b, x)))
  PROVE  /\ Wrote(Added(b, x), S \cup {x})
         /\ Added(b, x).first_unreliable = b.first_unreliable
<1>. DEFINE r == need_reliable(x)
            c == b.current[r]
            d == Added(b, x)
            e == [data |-> c.data \o Fill(b, x), carries |-> Append(c.carries, U(x)),
                  mine |-> TRUE]
<1>1. /\ r \in BOOLEAN /\ r = ~b.first_unreliable
      /\ b \in Writer /\ b.current \in [BOOLEAN -> Cur] /\ b.id \in Nat
      /\ Filled(c) /\ c \in Cur /\ c.data \in Seq(Token) /\ c.carries \in Seq(Update)
  <2>1. r \in BOOLEAN /\ r = ~b.first_unreliable
    BY DEF need_reliable
  <2>2. b \in Writer /\ \A k \in BOOLEAN : Filled(b.current[k])
    BY DEF Wrote
  <2>3. b.current \in [BOOLEAN -> Cur] /\ b.id \in Nat
    BY <2>2 DEF Writer
  <2>4. Filled(c) /\ c \in Cur
    BY <2>1, <2>2 DEF Filled
  <2>. QED BY <2>1, <2>2, <2>3, <2>4 DEF Cur
<1>2. value[x] \in Nat /\ U(x) \in Update /\ x.id \in Nat /\ x.id # 0 /\ x.var \in Nat
      /\ x.var # 0
  BY ItemParts, ReplicaAssumption DEF U, Update
<1>3. Fill(b, x) \in Seq(Token)
  BY <1>2, PartsOfFill
<1>4. Decode(e.data) = St("index", x.id, x.var, x.index, e.carries)
  <2>1. CASE b.id = 0
    <3>1. ~c.mine
      BY <1>1, <2>1 DEF Wrote
    <3>2. PICK id, var, index : Decode(c.data) = St("cmd", id, var, index, c.carries)
      BY <1>1, <3>1 DEF Filled
    <3>3. Decode(c.data \o Fill(b, x)) = St("index", x.id, x.var, x.index, Append(c.carries, U(x)))
      BY <1>1, <1>2, <2>1, <3>2, FillReads
    <3>. QED BY <3>3
  <2>2. CASE b.id # 0
    <3>1. /\ b.var # 0
          /\ \E index : Decode(c.data) = St("index", b.id, b.var, index, c.carries)
      BY <1>1, <2>2 DEF Wrote
    <3>2. PICK index : Decode(c.data) = St("index", b.id, b.var, index, c.carries)
      BY <3>1
    <3>3. Decode(c.data \o Fill(b, x)) = St("index", x.id, x.var, x.index, Append(c.carries, U(x)))
      <4>1. c.data \in Seq(Token)
        BY <1>1
      <4>. HIDE DEF c, r
      <4>2. b.id = 0 => \E i, v : Decode(c.data) = St("cmd", i, v, index, c.carries)
        BY <2>2
      <4>3. b.id # 0 => /\ b.var # 0
                        /\ Decode(c.data) = St("index", b.id, b.var, index, c.carries)
        BY <3>1, <3>2
      <4>. QED BY <1>2, <4>1, <4>2, <4>3, FillReads
    <3>. QED BY <3>3
  <2>. QED BY <2>1, <2>2
<1>5. e \in Cur /\ e.mine /\ Len(e.data) + 3 <= PacketSize /\ e.carries = Append(c.carries, U(x))
  <2>1. Append(c.carries, U(x)) \in Seq(Update)
    BY <1>1, <1>2
  <2>2. /\ c.data \o Fill(b, x) \in Seq(Token)
        /\ Len(c.data \o Fill(b, x)) = Len(c.data) + Len(Fill(b, x))
    BY <1>1, <1>3
  <2>3. Len(c.data) + Len(Fill(b, x)) + 3 <= PacketSize
    BY DEF Fits
  <2>. QED BY <2>1, <2>2, <2>3 DEF Cur
<1>6. Filled(e)
  BY <1>4, <1>5 DEF Filled
<1>7. /\ d \in Writer /\ d.first_unreliable = b.first_unreliable /\ d.ended = b.ended
      /\ d.id = x.id /\ d.var = x.var /\ d.current = [b.current EXCEPT ![r] = e]
  <2>. DEFINE current == [b.current EXCEPT ![r] = e]
  <2>1. d = [b EXCEPT !.current[r] = [data |-> @.data \o Fill(b, x),
                                      carries |-> Append(@.carries, U(x)), mine |-> TRUE],
                      !.id = x.id, !.var = x.var]
    BY DEF Added, U
  <2>2. d = [b EXCEPT !.current = current, !.id = x.id, !.var = x.var]
    <3>. HIDE DEF d, r
    <3>. QED BY <1>1, <2>1 DEF Writer
  <2>3. current \in [BOOLEAN -> Cur]
    <3>. HIDE DEF e, r
    <3>. QED BY <1>1, <1>5
  <2>. HIDE DEF d, current
  <2>4. /\ d \in Writer /\ d.first_unreliable = b.first_unreliable /\ d.ended = b.ended
        /\ d.id = x.id /\ d.var = x.var /\ d.current = current
    BY <1>1, <1>2, <2>2, <2>3 DEF Writer
  <2>. QED BY <2>4 DEF current
<1>. HIDE DEF d, e
<1>8. d.current[r] = e /\ \A s \in BOOLEAN \ {r} : d.current[s] = b.current[s]
  BY <1>1, <1>7
<1>9. \A s \in BOOLEAN : Filled(d.current[s]) /\ \A p \in Elems(d.ended[s]) : Readable(p)
  BY <1>6, <1>7, <1>8 DEF Wrote
<1>10. d.current[~d.first_unreliable] = e
  BY <1>1, <1>7, <1>8
<1>11. ~d.first_unreliable => ~d.current[FALSE].mine
  <2>. SUFFICES ASSUME ~d.first_unreliable PROVE ~d.current[FALSE].mine
    OBVIOUS
  <2>1. r = TRUE /\ ~b.first_unreliable
    BY <1>1, <1>7
  <2>. QED BY <1>8, <2>1 DEF Wrote
<1>12. ASSUME NEW s \in BOOLEAN
       PROVE  Carried(d, s) = {U(y) : y \in {z \in S \cup {x} : need_reliable(z) = s}}
  <2>1. Carried(b, s) = {U(y) : y \in {z \in S : need_reliable(z) = s}}
    BY DEF Wrote
  <2>2. CASE s # r
    <3>1. Carried(d, s) = Carried(b, s)
      BY <1>7, <1>8, <2>2 DEF Carried
    <3>. QED BY <2>1, <2>2, <3>1
  <2>3. CASE s = r
    <3>1. Elems(e.carries) = Elems(c.carries) \cup {U(x)}
      BY <1>1, <1>2, <1>5, ElemsAppended
    <3>2. Carried(d, s) = Carried(b, s) \cup {U(x)}
      BY <1>7, <1>8, <2>3, <3>1 DEF Carried
    <3>. QED BY <2>1, <2>3, <3>2
  <2>. QED BY <2>2, <2>3
<1>13. Wrote(d, S \cup {x})
  <2>1. \E index : Decode(e.data) = St("index", d.id, d.var, index, e.carries)
    BY <1>4, <1>7
  <2>. QED BY <1>2, <1>5, <1>7, <1>9, <1>10, <1>11, <1>12, <2>1 DEF Wrote
<1>. QED BY <1>7, <1>13 DEF d

\* One item more.
LEMMA WriteOneWrote ==
  ASSUME NEW w, NEW S, Wrote(w, S), NEW x \in Item, value[x] \in Value,
         w.first_unreliable => ~need_reliable(x)
  PROVE  /\ Wrote(WriteOne(w, x), S \cup {x})
         /\ WriteOne(w, x).first_unreliable = ~need_reliable(x)
<1>. DEFINE a == Switched(w, x)
            b == Roomed(a, x)
<1>1. Wrote(a, S) /\ a.first_unreliable = ~need_reliable(x)
  BY SwitchedWrote
<1>2. value[x] \in Nat
  BY ReplicaAssumption
<1>. HIDE DEF a
<1>3. /\ Wrote(b, S) /\ b.first_unreliable = a.first_unreliable
      /\ Fits(b.current[need_reliable(x)], Len(Fill(b, x)))
  BY <1>1, <1>2, RoomedWrote
<1>. HIDE DEF b
<1>4. Wrote(Added(b, x), S \cup {x}) /\ Added(b, x).first_unreliable = b.first_unreliable
  BY <1>1, <1>3, AddedWrote
<1>5. WriteOne(w, x) = Added(b, x)
  BY WriteOneIs DEF a, b
<1>. QED BY <1>1, <1>3, <1>4, <1>5

-------------------------------------------------------------------------------
(* A whole update. *)

IsWriting(f, q) ==
  f = [i \in 0..Len(q) |-> IF i = 0 THEN Start ELSE WriteOne(f[i - 1], q[i])]

LEMMA WritingExists ==
  ASSUME NEW q, Len(q) \in Nat
  PROVE  \E f : IsWriting(f, q)
<1>. DEFINE Step(f, i) == IF i = 0 THEN Start ELSE WriteOne(f[i - 1], q[i])
            Good(n) == \E f : f = [i \in 0..n |-> Step(f, i)]
            D == {n \in Nat : Good(n)}
<1>1. Good(0)
  <2>. DEFINE f == [i \in 0..0 |-> Start]
  <2>1. f = [i \in 0..0 |-> Step(f, i)]
    OBVIOUS
  <2>. QED BY <2>1
<1>2. ASSUME NEW n \in Nat, Good(n) PROVE Good(n + 1)
  <2>1. PICK f : f = [i \in 0..n |-> Step(f, i)]
    BY <1>2
  <2>. DEFINE g == [i \in 0..(n + 1) |-> Step(f, i)]
  <2>2. \A i \in 0..n : g[i] = f[i]
    BY <2>1
  <2>3. ASSUME NEW i \in 0..(n + 1) PROVE Step(f, i) = Step(g, i)
    <3>1. i # 0 => i - 1 \in 0..n
      OBVIOUS
    <3>. HIDE DEF g
    <3>. QED BY <2>2, <3>1
  <2>4. g = [i \in 0..(n + 1) |-> Step(g, i)]
    BY <2>3
  <2>. QED BY <2>4
<1>. HIDE DEF Good
<1>3. 0 \in D
  BY <1>1
<1>4. \A i \in 0..Len(q) : i + 1 \in 0..Len(q) /\ i \in D => i + 1 \in D
  BY <1>2
<1>5. Len(q) \in D
  <2>1. Len(q) \in 0..Len(q)
    OBVIOUS
  <2>. HIDE DEF D
  <2>. QED BY <1>3, <1>4, <2>1, UpTo
<1>6. Good(Len(q))
  BY <1>5
<1>. QED BY <1>6 DEF Good, IsWriting

LEMMA WrittenIs ==
  ASSUME NEW q, Len(q) \in Nat
  PROVE  \E f : /\ IsWriting(f, q)
                /\ Written(q) = [r \in BOOLEAN |->
                     f[Len(q)].ended[r] \o IF f[Len(q)].current[r].data = <<>> THEN <<>>
                                           ELSE <<Ended(Close(f[Len(q)].current[r]))>>]
<1>. DEFINE f == CHOOSE f : IsWriting(f, q)
<1>1. IsWriting(f, q)
  BY WritingExists
<1>2. Written(q) = [r \in BOOLEAN |->
        f[Len(q)].ended[r] \o IF f[Len(q)].current[r].data = <<>> THEN <<>>
                              ELSE <<Ended(Close(f[Len(q)].current[r]))>>]
  BY DEF Written, IsWriting
<1>. QED BY <1>1, <1>2

\* Commands that wait leave room for the end of their packet.
Waiting ==
  /\ pending \in [BOOLEAN -> Seq({T("other", 0)})]
  /\ \A r \in BOOLEAN : Len(pending[r]) + 1 <= PacketSize

\* The commands of a frame are a packet that is being filled.
LEMMA StartFilled ==
  ASSUME Waiting, NEW r \in BOOLEAN
  PROVE  /\ Start.current[r] = [data |-> pending[r], carries |-> <<>>, mine |-> FALSE]
         /\ Start.ended[r] = <<>> /\ Filled(Start.current[r])
         /\ Carried(Start, r) = {} /\ ~Start.current[r].mine
<1>1. Start.current[r] = [data |-> pending[r], carries |-> <<>>, mine |-> FALSE]
  BY DEF Start, Empty
<1>2. Start.ended[r] = <<>>
  BY DEF Start
<1>3. pending[r] \in Seq({T("other", 0)}) /\ Len(pending[r]) + 1 <= PacketSize
  BY DEF Waiting
<1>4. pending[r] \in Seq(Token) /\ Decode(pending[r]) = ReadStart
  BY <1>3, CommandsRead
<1>5. Filled(Start.current[r])
  BY <1>1, <1>3, <1>4 DEF Filled, Cur, ReadStart
<1>6. Elems(<<>>) = {}
  BY DEF Elems
<1>7. ~Start.current[r].mine
  BY <1>1
<1>. QED BY <1>1, <1>2, <1>5, <1>6, <1>7 DEF Carried

LEMMA StartWrote ==
  ASSUME Waiting
  PROVE  Wrote(Start, {}) /\ ~Start.first_unreliable
<1>1. ASSUME NEW r \in BOOLEAN
      PROVE  /\ Start.current[r] = [data |-> pending[r], carries |-> <<>>, mine |-> FALSE]
             /\ Start.ended[r] = <<>> /\ Filled(Start.current[r])
             /\ Carried(Start, r) = {} /\ ~Start.current[r].mine
  BY StartFilled
<1>2. Start \in Writer /\ Start.id = 0 /\ ~Start.first_unreliable
  <2>. DEFINE ended == [r \in BOOLEAN |-> <<>>]
              current == [r \in BOOLEAN |-> [Empty EXCEPT !.data = pending[r]]]
  <2>1. Start = [ended |-> ended, id |-> 0, var |-> 0, first_unreliable |-> FALSE,
                 current |-> current]
    BY DEF Start
  <2>2. ended \in [BOOLEAN -> Seq(Out)]
    OBVIOUS
  <2>3. current \in [BOOLEAN -> Cur]
    <3>1. \A r \in BOOLEAN : current[r] \in Cur
      BY <1>1, <2>1 DEF Filled
    <3>. HIDE DEF Cur
    <3>. QED BY <3>1
  <2>. HIDE DEF ended, current
  <2>. QED BY <2>1, <2>2, <2>3 DEF Writer
<1>3. Elems(<<>>) = {}
  BY DEF Elems
<1>4. \A c \in BOOLEAN : ~Start.current[c].mine
  BY <1>1
<1>. QED BY <1>1, <1>2, <1>3, <1>4 DEF Wrote

LEMMA PriorityOfDue ==
  ASSUME Aging, NEW x \in Item, Due(x)
  PROVE  m_priority(x) \in Nat /\ (m_priority(x) = 0 <=> Priority[x] = 0)
<1>1. Priority[x] \in Nat /\ is_dirty[x] \in Nat
  BY PriorityRange DEF Aging
<1>2. Aged(x) \in Nat
  BY <1>1 DEF Aged
<1>3. Aged(x) > 0
  BY <1>1, <1>2 DEF Due
<1>4. \A a, b \in Nat : b > 0 => a \div b \in Nat
  OBVIOUS
<1>5. Priority[x] \div Aged(x) \in Nat
  BY <1>1, <1>2, <1>3, <1>4
<1>. QED BY <1>1, <1>5 DEF m_priority

\* The result holds what is due, the reliable items first.
LEMMA ResultIs ==
  ASSUME Aging, NEW q \in result
  PROVE  /\ q \in Seq(Item) /\ {q[i] : i \in 1..Len(q)} = {x \in Item : Due(x)}
         /\ \A i, j \in 1..Len(q) : i < j /\ need_reliable(q[j]) => need_reliable(q[i])
<1>. DEFINE due == {x \in Item : Due(x)}
            n == Cardinality(due)
<1>1. n \in Nat
  <2>1. IsFiniteSet(Item) /\ due \subseteq Item
    BY ReplicaAssumption
  <2>. QED BY <2>1, FS_Subset, FS_CardinalityType
<1>2. /\ q \in [1..n -> due] /\ Range(q) = due
      /\ \A i, j \in DOMAIN q : i < j => ~Before(q[j], q[i])
  BY DEF result
<1>. HIDE DEF n
<1>3. q \in Seq(Item) /\ Len(q) = n /\ DOMAIN q = 1..n
  BY <1>1, <1>2
<1>4. {q[i] : i \in 1..Len(q)} = due
  BY <1>2, <1>3 DEF Range
<1>5. ASSUME NEW i \in 1..n, NEW j \in 1..n, i < j, need_reliable(q[j]), ~need_reliable(q[i])
      PROVE  FALSE
  <2>1. q[i] \in Item /\ q[j] \in Item /\ Due(q[i]) /\ Due(q[j])
    BY <1>2
  <2>2. m_priority(q[j]) = 0 /\ m_priority(q[i]) # 0 /\ m_priority(q[i]) \in Nat
    BY <1>5, <2>1, PriorityOfDue DEF need_reliable
  <2>3. m_priority(q[j]) < m_priority(q[i])
    BY <2>2
  <2>4. Before(q[j], q[i])
    BY <2>3 DEF Before
  <2>. QED BY <1>2, <1>3, <1>5, <2>4
<1>. QED BY <1>3, <1>4, <1>5

LEMMA AllWrote ==
  ASSUME Waiting, Aging, value \in [Item -> Value], NEW q \in result,
         NEW f, IsWriting(f, q)
  PROVE  Wrote(f[Len(q)], {x \in Item : Due(x)})
<1>. DEFINE n == Len(q)
            First(i) == {q[j] : j \in 1..i}
            Good(i) == /\ Wrote(f[i], First(i))
                       /\ f[i].first_unreliable => \E j \in 1..i : ~need_reliable(q[j])
            D == {i \in 0..n : Good(i)}
<1>1. /\ q \in Seq(Item) /\ n \in Nat /\ First(n) = {x \in Item : Due(x)}
      /\ \A i, j \in 1..n : i < j /\ need_reliable(q[j]) => need_reliable(q[i])
  <2>1. /\ q \in Seq(Item) /\ First(n) = {x \in Item : Due(x)}
        /\ \A i, j \in 1..n : i < j /\ need_reliable(q[j]) => need_reliable(q[i])
    BY ResultIs
  <2>. QED BY <2>1
<1>2. \A i \in 1..n : q[i] \in Item
  BY <1>1
<1>3. \A i \in 0..n : f[i] = IF i = 0 THEN Start ELSE WriteOne(f[i - 1], q[i])
  BY DEF IsWriting
<1>. HIDE DEF n
<1>4. 0 \in D
  <2>1. f[0] = Start /\ First(0) = {}
    BY <1>1, <1>3
  <2>2. Wrote(f[0], First(0)) /\ ~f[0].first_unreliable
    BY <2>1, StartWrote
  <2>3. 0 \in 0..n
    BY <1>1
  <2>. HIDE DEF First
  <2>. QED BY <2>2, <2>3
<1>5. ASSUME NEW i \in 0..n, i + 1 \in 0..n, i \in D PROVE i + 1 \in D
  <2>. DEFINE x == q[i + 1]
  <2>1. i + 1 \in 1..n /\ x \in Item /\ f[i + 1] = WriteOne(f[i], x)
    <3>1. i + 1 \in 1..n /\ i + 1 # 0 /\ (i + 1) - 1 = i
      BY <1>1, <1>5
    <3>. QED BY <1>2, <1>3, <3>1
  <2>2. First(i + 1) = First(i) \cup {x}
    <3>1. 1..(i + 1) = 1..i \cup {i + 1}
      BY <1>1, <1>5
    <3>. QED BY <3>1
  <2>3. f[i].first_unreliable => ~need_reliable(x)
    BY <1>1, <1>5, <2>1
  <2>4. Wrote(f[i], First(i)) /\ value[x] \in Value
    BY <1>5, <2>1
  <2>. HIDE DEF First, x
  <2>5. /\ Wrote(f[i + 1], First(i + 1))
        /\ f[i + 1].first_unreliable = ~need_reliable(x)
    BY <2>1, <2>2, <2>3, <2>4, WriteOneWrote
  <2>6. f[i + 1].first_unreliable => \E j \in 1..(i + 1) : ~need_reliable(q[j])
    <3>1. i + 1 \in 1..(i + 1)
      BY <1>1, <1>5
    <3>. QED BY <2>5, <3>1 DEF x
  <2>. QED BY <1>5, <2>5, <2>6
<1>6. n \in D
  <2>1. n \in 0..n
    BY <1>1
  <2>. HIDE DEF D
  <2>. QED BY <1>1, <1>4, <1>5, <2>1, UpTo
<1>. QED BY <1>1, <1>6 DEF n

LEMMA WrittenSent ==
  ASSUME Waiting, Aging, value \in [Item -> Value], NEW q \in result
  PROVE  /\ Written(q) \in [BOOLEAN -> Seq(Out)]
         /\ \A r \in BOOLEAN :
              /\ \A p \in Elems(Written(q)[r]) : Readable(p)
              /\ UNION {Elems(p.carries) : p \in Elems(Written(q)[r])}
                   = {U(x) : x \in {y \in Item : Due(y) /\ need_reliable(y) = r}}
<1>0. Len(q) \in Nat
  BY ResultIs
<1>1. PICK f : /\ IsWriting(f, q)
               /\ Written(q) = [r \in BOOLEAN |->
                    f[Len(q)].ended[r] \o IF f[Len(q)].current[r].data = <<>> THEN <<>>
                                          ELSE <<Ended(Close(f[Len(q)].current[r]))>>]
  BY <1>0, WrittenIs
<1>. DEFINE w == f[Len(q)]
<1>2. Wrote(w, {x \in Item : Due(x)})
  BY <1>1, AllWrote
<1>3. Written(q) = [r \in BOOLEAN |-> w.ended[r] \o IF w.current[r].data = <<>> THEN <<>>
                                                    ELSE <<Ended(Close(w.current[r]))>>]
  BY <1>1
<1>. HIDE DEF w
<1>4. ASSUME NEW r \in BOOLEAN
      PROVE  /\ Written(q)[r] \in Seq(Out)
             /\ \A p \in Elems(Written(q)[r]) : Readable(p)
             /\ UNION {Elems(p.carries) : p \in Elems(Written(q)[r])} = Carried(w, r)
  <2>. DEFINE c == w.current[r]
              e == Ended(Close(c))
  <2>1. Filled(c) /\ w.ended[r] \in Seq(Out) /\ \A p \in Elems(w.ended[r]) : Readable(p)
    BY <1>2 DEF Wrote, Writer
  <2>2. CASE c.data = <<>>
    <3>1. Written(q)[r] = w.ended[r]
      <4>1. Written(q)[r] = w.ended[r] \o <<>>
        BY <1>3, <2>2
      <4>. QED BY <2>1, <4>1, ConcatEmptySeq
    <3>2. ~c.mine
      <4>1. SUFFICES ASSUME c.mine PROVE FALSE
        OBVIOUS
      <4>2. PICK id, var, index : Decode(c.data) = St("index", id, var, index, c.carries)
        BY <2>1, <4>1 DEF Filled
      <4>3. St("index", id, var, index, c.carries) = St("cmd", 0, 0, 0, <<>>)
        BY <2>2, <4>2, DecodeEmpty DEF ReadStart
      <4>4. St("index", id, var, index, c.carries).reads = "index"
            /\ St("cmd", 0, 0, 0, <<>>).reads = "cmd"
        BY DEF St
      <4>. QED BY <4>3, <4>4
    <3>3. Elems(c.carries) = {}
      <4>1. c.carries = <<>>
        BY <2>1, <3>2 DEF Filled
      <4>. QED BY <4>1 DEF Elems
    <3>. QED BY <2>1, <3>1, <3>3 DEF Carried
  <2>3. CASE c.data # <<>>
    <3>1. e \in Out /\ Readable(e) /\ e.carries = c.carries
      BY <2>1, EndedIsReadable
    <3>2. Written(q)[r] = w.ended[r] \o <<e>>
      BY <1>3, <2>3
    <3>. HIDE DEF e
    <3>3. w.ended[r] \o <<e>> = Append(w.ended[r], e)
      BY <2>1, <3>1
    <3>4. /\ Elems(Written(q)[r]) = Elems(w.ended[r]) \cup {e}
          /\ Written(q)[r] \in Seq(Out)
      <4>. DEFINE ended == w.ended[r]
      <4>1. ended \in Seq(Out) /\ Written(q)[r] = Append(ended, e)
        BY <2>1, <3>2, <3>3
      <4>. HIDE DEF ended
      <4>2. Elems(Append(ended, e)) = Elems(ended) \cup {e} /\ Append(ended, e) \in Seq(Out)
        BY <3>1, <4>1, ElemsAppended
      <4>. QED BY <4>1, <4>2 DEF ended
    <3>5. UNION {Elems(p.carries) : p \in Elems(w.ended[r]) \cup {e}}
            = (UNION {Elems(p.carries) : p \in Elems(w.ended[r])}) \cup Elems(e.carries)
      OBVIOUS
    <3>. QED BY <2>1, <3>1, <3>4, <3>5 DEF Carried
  <2>. QED BY <2>2, <2>3
<1>5. Written(q) \in [BOOLEAN -> Seq(Out)]
  <2>1. Written(q) = [r \in BOOLEAN |-> Written(q)[r]]
    BY <1>3
  <2>2. \A r \in BOOLEAN : Written(q)[r] \in Seq(Out)
    BY <1>4
  <2>. QED BY <2>1, <2>2
<1>6. \A r \in BOOLEAN : Carried(w, r)
        = {U(x) : x \in {y \in Item : Due(y) /\ need_reliable(y) = r}}
  <2>. SUFFICES ASSUME NEW r \in BOOLEAN
                PROVE  Carried(w, r) = {U(x) : x \in {y \in Item : Due(y) /\ need_reliable(y) = r}}
    OBVIOUS
  <2>1. Carried(w, r) = {U(x) : x \in {y \in {z \in Item : Due(z)} : need_reliable(y) = r}}
    BY <1>2 DEF Wrote
  <2>. QED BY <2>1
<1>. QED BY <1>4, <1>5, <1>6

-------------------------------------------------------------------------------
(* What is written is read. *)

GoodPacket == {p \in Packet : Readable(p)}

Kept ==
  /\ value \in [Item -> Value] /\ sent \in [Item -> Value]
  /\ received \in [Item -> Value] /\ owed \in [Item -> Value] /\ sq_no \in [Item -> Nat]
  /\ connected \in BOOLEAN /\ flushing \in BOOLEAN
  /\ changes \in 0..MaxChange

Commanded == Waiting /\ commands \in 0..MaxCommand

Encoded ==
  /\ sequence \in [BOOLEAN -> Nat]
  /\ reliable \in Seq(GoodPacket) /\ unreliable \subseteq GoodPacket
  /\ m_incoming_pkt_list \in Seq(GoodPacket)
  /\ flushing => m_incoming_pkt_list # <<>>
  /\ ~m_is_hacker /\ m_is_hacker \in BOOLEAN

EncodeInv == Aging /\ Kept /\ Commanded /\ Encoded

LEMMA NothingWaits ==
  /\ pending = [r \in BOOLEAN |-> <<>>] => Waiting
  /\ pending' = [r \in BOOLEAN |-> <<>>] => Waiting'
<1>. DEFINE none == [r \in BOOLEAN |-> <<>>]
<1>1. /\ none \in [BOOLEAN -> Seq({T("other", 0)})]
      /\ \A r \in BOOLEAN : Len(none[r]) + 1 <= PacketSize
  <2>1. \A r \in BOOLEAN : none[r] = <<>>
    OBVIOUS
  <2>2. <<>> \in Seq({T("other", 0)}) /\ Len(<<>>) = 0 /\ PacketSize \in Nat
        /\ PacketSize >= 7
    BY ReplicaAssumption
  <2>. QED BY <2>1, <2>2
<1>. HIDE DEF none
<1>2. pending = none => Waiting
  BY <1>1 DEF Waiting
<1>3. pending' = none => Waiting'
  BY <1>1 DEF Waiting
<1>. QED BY <1>2, <1>3 DEF none

LEMMA EncodeInit == Init => EncodeInv
<1>. SUFFICES ASSUME Init PROVE EncodeInv
  OBVIOUS
<1>1. 0 \in Value /\ MaxChange \in Nat /\ MaxCommand \in Nat
  BY ReplicaAssumption
<1>2. Aging
  BY PriorityRange DEF Init, Aging
<1>3. Kept
  <2>. DEFINE zero == [x \in Item |-> 0]
  <2>1. /\ value = zero /\ sent = value /\ received = value /\ owed = value
        /\ is_dirty = zero /\ sq_no = is_dirty
    BY DEF Init
  <2>2. zero \in [Item -> Value] /\ zero \in [Item -> Nat]
    BY <1>1
  <2>. HIDE DEF zero
  <2>3. connected = FALSE /\ flushing = FALSE /\ changes = 0
    BY DEF Init
  <2>4. connected \in BOOLEAN /\ flushing \in BOOLEAN
    BY <2>3, Zenon
  <2>5. changes \in 0..MaxChange
    BY <1>1, <2>3
  <2>. QED BY <2>1, <2>2, <2>4, <2>5 DEF Kept
<1>4. Commanded
  <2>1. pending = [r \in BOOLEAN |-> <<>>] /\ commands = 0
    BY DEF Init
  <2>2. Waiting
    BY <2>1, NothingWaits
  <2>. QED BY <1>1, <2>1, <2>2 DEF Commanded
<1>5. Encoded
  <2>1. sequence = [r \in BOOLEAN |-> 0]
    BY DEF Init
  <2>2. sequence \in [BOOLEAN -> Nat]
    BY <2>1
  <2>3. <<>> \in Seq(GoodPacket) /\ {} \subseteq GoodPacket
    OBVIOUS
  <2>4. /\ reliable = <<>> /\ unreliable = {} /\ m_incoming_pkt_list = <<>>
        /\ flushing = FALSE /\ m_is_hacker = FALSE
    BY DEF Init
  <2>. QED BY <2>2, <2>3, <2>4 DEF Encoded
<1>. QED BY <1>2, <1>3, <1>4, <1>5 DEF EncodeInv

LEMMA EncodeTypes == EncodeInv => TypeOK /\ EncodedIsDecoded
<1>. SUFFICES ASSUME EncodeInv PROVE TypeOK /\ EncodedIsDecoded
  OBVIOUS
<1>1. \A p \in OnTheWay : p \in GoodPacket
  BY DEF EncodeInv, Encoded, OnTheWay, Range
<1>2. EncodedIsDecoded
  BY <1>1 DEF EncodedIsDecoded, GoodPacket, Readable, EncodeInv, Encoded
<1>3. pending \in [BOOLEAN -> Seq(Token)]
  <2>1. {T("other", 0)} \subseteq Token
    BY Tokens
  <2>2. Seq({T("other", 0)}) \subseteq Seq(Token)
    BY <2>1
  <2>. QED BY <2>2 DEF EncodeInv, Commanded, Waiting
<1>4. /\ reliable \in Seq(Packet) /\ unreliable \subseteq Packet
      /\ m_incoming_pkt_list \in Seq(Packet)
  <2>1. GoodPacket \subseteq Packet
    BY DEF GoodPacket
  <2>2. Seq(GoodPacket) \subseteq Seq(Packet)
    BY <2>1
  <2>. QED BY <2>1, <2>2 DEF EncodeInv, Encoded
<1>5. \A x \in Item : is_dirty[x] \in 0..Priority[x]
  BY PriorityRange DEF EncodeInv, Aging
<1>6. TypeOK
  BY <1>3, <1>4, <1>5 DEF TypeOK, EncodeInv, Aging, Kept, Commanded, Encoded
<1>. QED BY <1>2, <1>6

LEMMA NumberedGood ==
  ASSUME NEW packets \in [BOOLEAN -> Seq(Out)], NEW r \in BOOLEAN,
         \A p \in Elems(packets[r]) : Readable(p), sequence \in [BOOLEAN -> Nat]
  PROVE  /\ Numbered(packets, r) \in Seq(GoodPacket)
         /\ Len(Numbered(packets, r)) = Len(packets[r])
         /\ \A i \in 1..Len(packets[r]) : Numbered(packets, r)[i].carries = packets[r][i].carries
<1>. DEFINE q == packets[r]
            N(i) == [sq |-> sequence[r] + i, data |-> q[i].data, carries |-> q[i].carries]
<1>1. q \in Seq(Out) /\ Len(q) \in Nat /\ sequence[r] \in Nat
  OBVIOUS
<1>2. Numbered(packets, r) = [i \in 1..Len(q) |-> N(i)]
  BY DEF Numbered
<1>3. \A i \in 1..Len(q) : q[i] \in Out /\ Readable(q[i])
  BY <1>1 DEF Elems
<1>. HIDE DEF q
<1>4. ASSUME NEW i \in 1..Len(q) PROVE N(i) \in GoodPacket
  <2>1. sequence[r] + i \in Nat
    BY <1>1
  <2>2. q[i].data \in Seq(Token) /\ q[i].carries \in Seq(Update)
    BY <1>3 DEF Out
  <2>3. N(i) \in Packet
    BY <2>1, <2>2 DEF Packet
  <2>4. Readable(N(i))
    BY <1>3 DEF Readable
  <2>. QED BY <2>3, <2>4 DEF GoodPacket
<1>5. \A i \in 1..Len(q) : N(i).carries = q[i].carries
  OBVIOUS
<1>. HIDE DEF N
<1>6. [i \in 1..Len(q) |-> N(i)] \in Seq(GoodPacket)
  BY <1>1, <1>4
<1>7. Len([i \in 1..Len(q) |-> N(i)]) = Len(q)
  BY <1>1
<1>. QED BY <1>2, <1>5, <1>6, <1>7 DEF q

\* What the receiver reads of the first packet of its frame.
LEMMA ReadsGood ==
  ASSUME Encoded, flushing
  PROVE  /\ m_incoming_pkt_list # <<>> /\ m_incoming_pkt_list[1] \in GoodPacket
         /\ Decode(m_incoming_pkt_list[1].data).reads = "done"
         /\ Decode(m_incoming_pkt_list[1].data).found = m_incoming_pkt_list[1].carries
         /\ m_incoming_pkt_list[1].carries \in Seq(Update) /\ m_incoming_pkt_list[1].sq \in Nat
<1>1. m_incoming_pkt_list # <<>> /\ m_incoming_pkt_list \in Seq(GoodPacket)
  BY DEF Encoded
<1>2. m_incoming_pkt_list[1] \in GoodPacket
  BY <1>1
<1>. QED BY <1>1, <1>2 DEF GoodPacket, Readable, Packet

LEMMA LastOf ==
  ASSUME NEW n \in Nat, NEW H \in SUBSET (1..n), H # {}
  PROVE  Max(H) \in H /\ \A y \in H : Max(H) >= y
<1>1. \E x \in H : \A y \in H : x >= y
  BY GreatestBelow
<1>. QED BY <1>1 DEF Max

LEMMA RecvTypes ==
  ASSUME received \in [Item -> Value], sq_no \in [Item -> Nat],
         NEW found \in Seq(Update), NEW sq \in Nat, recv_a_var(found, sq)
  PROVE  received' \in [Item -> Value] /\ sq_no' \in [Item -> Nat]
<1>. DEFINE at(x) == {i \in 1..Len(found) : found[i].item = x}
<1>1. /\ received' = [x \in Item |-> IF at(x) = {} THEN received[x]
                                     ELSE found[Max(at(x))].value]
      /\ sq_no' = [x \in Item |-> IF at(x) = {} \/ sq_no[x] > sq THEN sq_no[x] ELSE sq]
  BY DEF recv_a_var
<1>2. Len(found) \in Nat /\ \A i \in 1..Len(found) : found[i].value \in Value
  <2>1. Len(found) \in Nat /\ \A i \in 1..Len(found) : found[i] \in Update
    OBVIOUS
  <2>2. \A u \in Update : u.value \in Value
    BY DEF Update
  <2>. QED BY <2>1, <2>2
<1>3. ASSUME NEW x \in Item, at(x) # {} PROVE found[Max(at(x))].value \in Value
  <2>1. at(x) \in SUBSET (1..Len(found))
    OBVIOUS
  <2>. HIDE DEF at
  <2>2. Max(at(x)) \in at(x)
    BY <1>2, <1>3, <2>1, LastOf
  <2>. QED BY <1>2, <2>1, <2>2
<1>. HIDE DEF at
<1>. QED BY <1>1, <1>3

LEMMA KeptStep == EncodeInv /\ [Next]_vars => Kept'
<1>. SUFFICES ASSUME EncodeInv, [Next]_vars PROVE Kept'
  OBVIOUS
<1>0. Kept /\ Encoded
  BY DEF EncodeInv
<1>. DEFINE others == /\ sent' = sent /\ received' = received /\ owed' = owed /\ sq_no' = sq_no
<1>1. CASE \E x \in Item : change(x)
  <2>1. PICK x \in Item : change(x)
    BY <1>1
  <2>2. PICK v \in Value : value' = [value EXCEPT ![x] = v]
    BY <2>1 DEF change
  <2>3. /\ others /\ connected' = connected /\ flushing' = flushing
        /\ changes' = changes + 1 /\ changes < MaxChange
    BY <2>1 DEF change, senderVars, networkVars, receiverVars
  <2>4. value' \in [Item -> Value]
    BY <1>0, <2>2 DEF Kept
  <2>5. changes' \in 0..MaxChange
    BY <1>0, <2>3, ReplicaAssumption DEF Kept
  <2>. QED BY <1>0, <2>3, <2>4, <2>5 DEF Kept
<1>2. CASE \E r \in BOOLEAN, n \in CommandSize : send_net_cmd(r, n)
  <2>1. others /\ UNCHANGED <<value, connected, flushing, changes>>
    BY <1>2 DEF send_net_cmd, senderVars, networkVars, receiverVars
  <2>. QED BY <1>0, <2>1 DEF Kept
<1>3. CASE connect
  <2>1. others /\ UNCHANGED <<value, flushing, changes>> /\ connected' = TRUE
    BY <1>3 DEF connect, senderVars, networkVars, receiverVars
  <2>. QED BY <1>0, <2>1 DEF Kept
<1>4. CASE update_out_going_replica
  <2>1. /\ UNCHANGED <<value, received, sq_no, connected, flushing, changes>>
        /\ sent' = [x \in Item |-> IF Due(x) THEN value[x] ELSE sent[x]]
        /\ \/ owed' = [x \in Item |-> IF Due(x) THEN value[x] ELSE owed[x]]
           \/ owed' = owed
    BY <1>4 DEF update_out_going_replica, receiverVars
  <2>2. sent' \in [Item -> Value]
    BY <1>0, <2>1 DEF Kept
  <2>3. owed' \in [Item -> Value]
    BY <1>0, <2>1 DEF Kept
  <2>. QED BY <1>0, <2>1, <2>2, <2>3 DEF Kept
<1>5. CASE arrive_reliable
  <2>1. others /\ UNCHANGED <<value, connected, flushing, changes>>
    BY <1>5 DEF arrive_reliable, Queue, senderVars, networkVars, receiverVars
  <2>. QED BY <1>0, <2>1 DEF Kept
<1>6. CASE \E p \in unreliable : lose(p)
  <2>1. others /\ UNCHANGED <<value, connected, flushing, changes>>
    BY <1>6 DEF lose, senderVars, networkVars, receiverVars
  <2>. QED BY <1>0, <2>1 DEF Kept
<1>7. CASE \E p \in unreliable : \E again \in BOOLEAN : arrive_unreliable(p, again)
  <2>1. others /\ UNCHANGED <<value, connected, flushing, changes>>
    BY <1>7 DEF arrive_unreliable, Queue, senderVars, networkVars, receiverVars
  <2>. QED BY <1>0, <2>1 DEF Kept
<1>8. CASE flush_in_coming_packets
  <2>1. others /\ UNCHANGED <<value, connected, changes>> /\ flushing' = TRUE
    BY <1>8 DEF flush_in_coming_packets, senderVars, networkVars, receiverVars
  <2>. QED BY <1>0, <2>1 DEF Kept
<1>9. CASE recieve_one_packet
  <2>. DEFINE p == m_incoming_pkt_list[1]
  <2>1. flushing /\ recv_a_var(Decode(p.data).found, p.sq)
    BY <1>9 DEF recieve_one_packet
  <2>2. recv_a_var(p.carries, p.sq) /\ p.carries \in Seq(Update) /\ p.sq \in Nat
    BY <1>0, <2>1, ReadsGood
  <2>. HIDE DEF p
  <2>3. received' \in [Item -> Value] /\ sq_no' \in [Item -> Nat]
    BY <1>0, <2>2, RecvTypes DEF Kept
  <2>4. UNCHANGED <<value, sent, owed, connected, changes>> /\ flushing' \in BOOLEAN
    BY <1>9 DEF recieve_one_packet, senderVars, networkVars
  <2>. QED BY <1>0, <2>3, <2>4 DEF Kept
<1>10. CASE UNCHANGED vars
  <2>1. others /\ UNCHANGED <<value, connected, flushing, changes>>
    BY <1>10 DEF vars, senderVars, networkVars, receiverVars
  <2>. QED BY <1>0, <2>1 DEF Kept
<1>. QED BY <1>1, <1>2, <1>3, <1>4, <1>5, <1>6, <1>7, <1>8, <1>9, <1>10 DEF Next

LEMMA CommandIs ==
  ASSUME NEW n \in CommandSize
  PROVE  /\ Command(n) \in Seq({T("other", 0)}) /\ Len(Command(n)) = n
         /\ n \in Nat /\ n + 1 <= PacketSize
<1>1. n \in 1..(PacketSize - 1) /\ PacketSize \in Nat
  BY ReplicaAssumption
<1>2. n \in Nat /\ n + 1 <= PacketSize
  BY <1>1
<1>. QED BY <1>2 DEF Command

LEMMA CommandedStep == EncodeInv /\ [Next]_vars => Commanded'
<1>. SUFFICES ASSUME EncodeInv, [Next]_vars PROVE Commanded'
  OBVIOUS
<1>0. /\ Waiting /\ commands \in 0..MaxCommand
      /\ MaxCommand \in Nat /\ PacketSize \in Nat /\ PacketSize >= 7
  BY ReplicaAssumption DEF EncodeInv, Commanded
<1>. DEFINE O == {T("other", 0)}
<1>1. ASSUME NEW r \in BOOLEAN, NEW n \in CommandSize, send_net_cmd(r, n) PROVE Commanded'
  <2>1. commands' \in 0..MaxCommand
    BY <1>0, <1>1 DEF send_net_cmd
  <2>2. pending \in [BOOLEAN -> Seq(O)] /\ \A k \in BOOLEAN : Len(pending[k]) + 1 <= PacketSize
    BY <1>0 DEF Waiting
  <2>3. PICK q \in Seq(O) : pending' = [pending EXCEPT ![r] = q] /\ Len(q) + 1 <= PacketSize
    <3>0. /\ Command(n) \in Seq(O) /\ Len(Command(n)) = n /\ n \in Nat
          /\ n + 1 <= PacketSize
      BY CommandIs
    <3>1. CASE /\ Len(pending[r]) + n < PacketSize
               /\ pending' = [pending EXCEPT ![r] = pending[r] \o Command(n)]
      <4>. DEFINE q == pending[r] \o Command(n)
      <4>. HIDE DEF O
      <4>1. pending[r] \in Seq(O)
        BY <2>2
      <4>2. q \in Seq(O) /\ Len(q) = Len(pending[r]) + n /\ Len(pending[r]) \in Nat
        BY <3>0, <4>1
      <4>3. Len(q) + 1 <= PacketSize
        BY <1>0, <3>0, <3>1, <4>2
      <4>. QED BY <3>1, <4>2, <4>3
    <3>2. CASE pending' = [pending EXCEPT ![r] = Command(n)]
      BY <3>0, <3>2
    <3>. QED BY <1>1, <3>1, <3>2 DEF send_net_cmd
  <2>. HIDE DEF O
  <2>4. Waiting'
    <3>1. pending' \in [BOOLEAN -> Seq(O)]
      BY <2>2, <2>3
    <3>2. \A k \in BOOLEAN : Len(pending'[k]) + 1 <= PacketSize
      BY <2>2, <2>3
    <3>. QED BY <3>1, <3>2 DEF Waiting, O
  <2>. QED BY <2>1, <2>4 DEF Commanded
<1>2. CASE update_out_going_replica
  <2>1. commands' = commands /\ pending' = [r \in BOOLEAN |-> <<>>]
    BY <1>2 DEF update_out_going_replica
  <2>. QED BY <1>0, <2>1, NothingWaits DEF Commanded
<1>3. ASSUME UNCHANGED <<pending, commands>> PROVE Commanded'
  BY <1>0, <1>3 DEF Commanded, Waiting
<1>4. ASSUME NEW x \in Item, change(x) PROVE Commanded'
  BY <1>3, <1>4 DEF change
<1>5. CASE connect
  BY <1>3, <1>5 DEF connect, senderVars
<1>6. CASE arrive_reliable
  BY <1>3, <1>6 DEF arrive_reliable, Queue, senderVars
<1>7. ASSUME NEW p \in unreliable, lose(p) PROVE Commanded'
  BY <1>3, <1>7 DEF lose, senderVars
<1>8. ASSUME NEW p \in unreliable, NEW again \in BOOLEAN, arrive_unreliable(p, again)
      PROVE  Commanded'
  BY <1>3, <1>8 DEF arrive_unreliable, Queue, senderVars
<1>9. CASE flush_in_coming_packets
  BY <1>3, <1>9 DEF flush_in_coming_packets, senderVars
<1>10. CASE recieve_one_packet
  BY <1>3, <1>10 DEF recieve_one_packet, senderVars
<1>11. CASE UNCHANGED vars
  BY <1>3, <1>11 DEF vars, senderVars
<1>. QED
  BY <1>1, <1>2, <1>4, <1>5, <1>6, <1>7, <1>8, <1>9, <1>10, <1>11 DEF Next

\* The packets of an update.
LEMMA PacketsSent ==
  ASSUME EncodeInv, NEW q \in result, NEW packets, packets = Written(q), NEW r \in BOOLEAN
  PROVE  /\ packets \in [BOOLEAN -> Seq(Out)]
         /\ \A p \in Elems(packets[r]) : Readable(p)
         /\ Numbered(packets, r) \in Seq(GoodPacket)
         /\ UNION {Elems(p.carries) : p \in Elems(Numbered(packets, r))}
              = {U(x) : x \in {y \in Item : Due(y) /\ need_reliable(y) = r}}
<1>1. Waiting
  BY DEF EncodeInv, Commanded
<1>2. /\ packets \in [BOOLEAN -> Seq(Out)]
      /\ \A p \in Elems(packets[r]) : Readable(p)
      /\ UNION {Elems(p.carries) : p \in Elems(packets[r])}
           = {U(x) : x \in {y \in Item : Due(y) /\ need_reliable(y) = r}}
  <2>1. Aging /\ value \in [Item -> Value]
    BY DEF EncodeInv, Kept
  <2>. QED BY <1>1, <2>1, WrittenSent
<1>3. sequence \in [BOOLEAN -> Nat]
  BY DEF EncodeInv, Encoded
<1>. DEFINE N == Numbered(packets, r)
<1>4. /\ N \in Seq(GoodPacket) /\ Len(N) = Len(packets[r]) /\ Len(packets[r]) \in Nat
      /\ \A i \in 1..Len(packets[r]) : N[i].carries = packets[r][i].carries
  BY <1>2, <1>3, NumberedGood
<1>. HIDE DEF N
<1>5. UNION {Elems(p.carries) : p \in Elems(N)}
        = UNION {Elems(p.carries) : p \in Elems(packets[r])}
  <2>1. \A p \in Elems(N) : \E o \in Elems(packets[r]) : o.carries = p.carries
    BY <1>4 DEF Elems
  <2>2. \A o \in Elems(packets[r]) : \E p \in Elems(N) : o.carries = p.carries
    BY <1>4 DEF Elems
  <2>. QED BY <2>1, <2>2
<1>. QED BY <1>2, <1>4, <1>5 DEF N

LEMMA SendGood ==
  ASSUME Encoded, NEW packets \in [BOOLEAN -> Seq(Out)],
         \A r \in BOOLEAN : \A p \in Elems(packets[r]) : Readable(p), send_packet(packets)
  PROVE  /\ sequence' \in [BOOLEAN -> Nat]
         /\ reliable' \in Seq(GoodPacket) /\ unreliable' \subseteq GoodPacket
<1>. DEFINE A == Numbered(packets, TRUE)
            B == Numbered(packets, FALSE)
<1>0. /\ sequence \in [BOOLEAN -> Nat]
      /\ reliable \in Seq(GoodPacket) /\ unreliable \subseteq GoodPacket
  BY DEF Encoded
<1>1. A \in Seq(GoodPacket) /\ B \in Seq(GoodPacket)
  BY <1>0, NumberedGood
<1>2. /\ reliable' = reliable \o A /\ unreliable' = unreliable \cup Range(B)
      /\ sequence' = [r \in BOOLEAN |-> sequence[r] + Len(packets[r])]
  BY DEF send_packet
<1>. HIDE DEF A, B
<1>3. reliable' \in Seq(GoodPacket)
  BY <1>0, <1>1, <1>2
<1>4. unreliable' \subseteq GoodPacket
  BY <1>0, <1>1, <1>2 DEF Range
<1>5. sequence' \in [BOOLEAN -> Nat]
  <2>1. \A r \in BOOLEAN : sequence[r] \in Nat /\ Len(packets[r]) \in Nat
    BY <1>0
  <2>2. \A r \in BOOLEAN : sequence[r] + Len(packets[r]) \in Nat
    BY <2>1
  <2>. QED BY <1>2, <2>2
<1>. QED BY <1>3, <1>4, <1>5

\* The packet of commands that is sent when it is full.
Full(r) ==
  [k \in BOOLEAN |-> IF k = r THEN <<Ended([Empty EXCEPT !.data = pending[r]])>> ELSE <<>>]

LEMMA FullSent ==
  ASSUME Waiting, NEW r \in BOOLEAN, NEW k \in BOOLEAN
  PROVE  /\ Full(r) \in [BOOLEAN -> Seq(Out)]
         /\ \A p \in Elems(Full(r)[k]) : Readable(p) /\ p.carries = <<>>
<1>. DEFINE c == [Empty EXCEPT !.data = pending[r]]
            e == Ended(c)
<1>1. c = Start.current[r]
  BY DEF Start
<1>2. Filled(c) /\ c = [data |-> pending[r], carries |-> <<>>, mine |-> FALSE]
  BY <1>1, StartFilled
<1>3. Close(c) = c /\ c.carries = <<>>
  BY <1>2 DEF Close
<1>. HIDE DEF c
<1>4. e \in Out /\ Readable(e) /\ e.carries = <<>>
  BY <1>2, <1>3, EndedIsReadable
<1>. HIDE DEF e
<1>5. Full(r) = [j \in BOOLEAN |-> IF j = r THEN <<e>> ELSE <<>>]
  BY DEF Full, c, e
<1>6. <<e>> \in Seq(Out) /\ <<>> \in Seq(Out)
  BY <1>4
<1>7. Full(r) \in [BOOLEAN -> Seq(Out)]
  BY <1>5, <1>6
<1>8. Elems(<<e>>) = {e} /\ Elems(<<>>) = {}
  BY DEF Elems
<1>9. Full(r)[k] = <<e>> \/ Full(r)[k] = <<>>
  BY <1>5
<1>. QED BY <1>4, <1>7, <1>8, <1>9

LEMMA EncodedStep == EncodeInv /\ [Next]_vars => Encoded'
<1>. SUFFICES ASSUME EncodeInv, [Next]_vars PROVE Encoded'
  OBVIOUS
<1>0. Encoded
  BY DEF EncodeInv
<1>1. CASE update_out_going_replica
  <2>1. UNCHANGED <<m_incoming_pkt_list, flushing, m_is_hacker>>
    BY <1>1 DEF update_out_going_replica, receiverVars
  <2>2. CASE UNCHANGED <<reliable, unreliable, sequence>>
    BY <1>0, <2>1, <2>2 DEF Encoded
  <2>3. ASSUME NEW q \in result, send_packet(Written(q)) PROVE Encoded'
    <3>. DEFINE packets == Written(q)
    <3>1. packets \in [BOOLEAN -> Seq(Out)]
      BY PacketsSent
    <3>2. \A r \in BOOLEAN : \A p \in Elems(packets[r]) : Readable(p)
      BY PacketsSent
    <3>3. send_packet(packets)
      BY <2>3
    <3>. HIDE DEF packets
    <3>4. /\ sequence' \in [BOOLEAN -> Nat]
          /\ reliable' \in Seq(GoodPacket) /\ unreliable' \subseteq GoodPacket
      BY <1>0, <3>1, <3>2, <3>3, SendGood
    <3>. QED BY <1>0, <2>1, <3>4 DEF Encoded
  <2>. QED BY <1>1, <2>2, <2>3 DEF update_out_going_replica
<1>2. ASSUME NEW p \in GoodPacket, Queue(p), unreliable' \subseteq GoodPacket,
             reliable' \in Seq(GoodPacket)
      PROVE  Encoded'
  <2>1. /\ m_incoming_pkt_list' = <<p>> \o m_incoming_pkt_list
        /\ UNCHANGED <<sequence, flushing, m_is_hacker>> /\ ~flushing
    BY <1>2 DEF Queue, receiverVars
  <2>2. <<p>> \o m_incoming_pkt_list \in Seq(GoodPacket)
    BY <1>0 DEF Encoded
  <2>. QED BY <1>0, <1>2, <2>1, <2>2 DEF Encoded
<1>3. CASE arrive_reliable
  <2>1. reliable \in Seq(GoodPacket) /\ reliable # <<>> /\ unreliable \subseteq GoodPacket
    BY <1>0, <1>3 DEF Encoded, arrive_reliable
  <2>2. reliable[1] \in GoodPacket /\ Tail(reliable) \in Seq(GoodPacket)
    BY <2>1
  <2>3. Queue(reliable[1]) /\ reliable' = Tail(reliable) /\ unreliable' = unreliable
    BY <1>3 DEF arrive_reliable
  <2>. QED BY <1>2, <2>1, <2>2, <2>3
<1>4. ASSUME NEW p \in unreliable, NEW again \in BOOLEAN, arrive_unreliable(p, again)
      PROVE  Encoded'
  <2>1. reliable \in Seq(GoodPacket) /\ p \in GoodPacket /\ unreliable \subseteq GoodPacket
    BY <1>0 DEF Encoded
  <2>2. Queue(p) /\ reliable' = reliable /\ unreliable' \subseteq unreliable
    BY <1>4 DEF arrive_unreliable
  <2>. QED BY <1>2, <2>1, <2>2
<1>5. ASSUME NEW p \in unreliable, lose(p) PROVE Encoded'
  <2>1. /\ UNCHANGED <<sequence, reliable, m_incoming_pkt_list, flushing, m_is_hacker>>
        /\ unreliable' \subseteq unreliable
    BY <1>5 DEF lose, receiverVars
  <2>. QED BY <1>0, <2>1 DEF Encoded
<1>6. CASE flush_in_coming_packets
  <2>1. /\ UNCHANGED <<sequence, reliable, unreliable, m_incoming_pkt_list, m_is_hacker>>
        /\ m_incoming_pkt_list # <<>>
    BY <1>6 DEF flush_in_coming_packets, networkVars, receiverVars
  <2>. QED BY <1>0, <2>1 DEF Encoded
<1>7. CASE recieve_one_packet
  <2>1. flushing /\ UNCHANGED <<sequence, reliable, unreliable>>
    BY <1>7 DEF recieve_one_packet, networkVars
  <2>2. /\ m_incoming_pkt_list # <<>>
        /\ Decode(m_incoming_pkt_list[1].data).reads = "done"
    BY <1>0, <2>1, ReadsGood
  <2>3. /\ m_incoming_pkt_list' = Tail(m_incoming_pkt_list) /\ m_is_hacker' = m_is_hacker
        /\ flushing' = (Tail(m_incoming_pkt_list) # <<>>)
    BY <1>0, <1>7, <2>2 DEF recieve_one_packet, Encoded
  <2>4. Tail(m_incoming_pkt_list) \in Seq(GoodPacket)
    BY <1>0, <2>2 DEF Encoded
  <2>. QED BY <1>0, <2>1, <2>3, <2>4 DEF Encoded
<1>8. ASSUME UNCHANGED <<sequence, reliable, unreliable, m_incoming_pkt_list, flushing,
                         m_is_hacker>>
      PROVE  Encoded'
  BY <1>0, <1>8 DEF Encoded
<1>9. ASSUME NEW x \in Item, change(x) PROVE Encoded'
  BY <1>8, <1>9 DEF change, networkVars, receiverVars
<1>10. ASSUME NEW r \in BOOLEAN, NEW n \in CommandSize, send_net_cmd(r, n) PROVE Encoded'
  <2>1. UNCHANGED <<m_incoming_pkt_list, flushing, m_is_hacker>>
    BY <1>10 DEF send_net_cmd, receiverVars
  <2>2. CASE UNCHANGED <<reliable, unreliable, sequence>>
    BY <1>8, <2>1, <2>2
  <2>3. CASE send_packet(Full(r))
    <3>1. Waiting
      BY DEF EncodeInv, Commanded
    <3>2. /\ Full(r) \in [BOOLEAN -> Seq(Out)]
          /\ \A k \in BOOLEAN : \A p \in Elems(Full(r)[k]) : Readable(p)
      BY <3>1, FullSent
    <3>3. /\ sequence' \in [BOOLEAN -> Nat]
          /\ reliable' \in Seq(GoodPacket) /\ unreliable' \subseteq GoodPacket
      BY <1>0, <2>3, <3>2, SendGood
    <3>. QED BY <1>0, <2>1, <3>3 DEF Encoded
  <2>. QED BY <1>10, <2>2, <2>3 DEF send_net_cmd, Full
<1>11. CASE connect
  BY <1>8, <1>11 DEF connect, networkVars, receiverVars
<1>12. CASE UNCHANGED vars
  BY <1>8, <1>12 DEF vars, networkVars, receiverVars
<1>. QED
  BY <1>1, <1>3, <1>4, <1>5, <1>6, <1>7, <1>9, <1>10, <1>11, <1>12 DEF Next

LEMMA EncodeStep == EncodeInv /\ [Next]_vars => EncodeInv'
BY AgingStep, KeptStep, CommandedStep, EncodedStep DEF EncodeInv

\* The sender's and the receiver's variables have their types (gv_net_replica,
\* gv_com_net_host): an update leaves no variable dirty beyond its priority.
THEOREM ReplicaIsTyped == Spec => []TypeOK
<1>1. EncodeInv => TypeOK
  BY EncodeTypes
<1>. QED
  BY <1>1, EncodeInit, EncodeStep, PTL DEF Spec

\* No packet is too large, and its reader finds what its writer put into it
\* (update_out_going_replica, recieve_one_packet).
THEOREM WrittenIsRead == Spec => []EncodedIsDecoded
<1>1. EncodeInv => EncodedIsDecoded
  BY EncodeTypes
<1>. QED
  BY <1>1, EncodeInit, EncodeStep, PTL DEF Spec

-------------------------------------------------------------------------------
(* What is sent arrives.  The stream of a reliable variable is the frame of the receiver  *)
(* and the reliable packets behind it: the last of them that has the variable has the     *)
(* value owed.                                                                            *)

Has(p, x) == \E u \in Elems(p.carries) : u.item = x

Holds(p, x, v) == \A u \in Elems(p.carries) : u.item = x => u.value = v

Latest(s, x, got, last) ==
  /\ (\A i \in 1..Len(s) : ~Has(s[i], x)) => got = last
  /\ \A i \in 1..Len(s) :
       Has(s[i], x) /\ (\A j \in (i + 1)..Len(s) : ~Has(s[j], x)) => Holds(s[i], x, last)

LEMMA LatestBehind ==
  ASSUME NEW S, NEW s \in Seq(S), NEW p \in S, NEW x, NEW got, NEW last
  PROVE  /\ Latest(s, x, got, last) /\ ~Has(p, x) => Latest(<<p>> \o s, x, got, last)
         /\ Latest(<<p>> \o s, x, got, last) /\ ~Has(p, x) => Latest(s, x, got, last)
<1>. DEFINE t == <<p>> \o s
<1>1. /\ Len(s) \in Nat /\ Len(t) = Len(s) + 1 /\ t[1] = p
      /\ \A i \in 1..Len(s) : t[i + 1] = s[i]
  OBVIOUS
<1>. HIDE DEF t
<1>2. \A j \in 1..Len(t) : j = 1 \/ (j - 1 \in 1..Len(s) /\ (j - 1) + 1 = j)
  BY <1>1
<1>3. \A j \in 1..Len(t) : j = 1 \/ (j - 1 \in 1..Len(s) /\ t[j] = s[j - 1])
  BY <1>1, <1>2
<1>4. 1 \in 1..Len(t) /\ \A i \in 1..Len(s) : i + 1 \in 1..Len(t)
  BY <1>1
<1>5. ASSUME Latest(s, x, got, last), ~Has(p, x) PROVE Latest(t, x, got, last)
  <2>1. ASSUME \A i \in 1..Len(t) : ~Has(t[i], x) PROVE got = last
    <3>1. \A i \in 1..Len(s) : ~Has(s[i], x)
      BY <1>1, <1>4, <2>1
    <3>. QED BY <1>5, <3>1 DEF Latest
  <2>2. ASSUME NEW i \in 1..Len(t), Has(t[i], x),
               \A j \in (i + 1)..Len(t) : ~Has(t[j], x)
        PROVE  Holds(t[i], x, last)
    <3>1. i - 1 \in 1..Len(s) /\ t[i] = s[i - 1]
      BY <1>1, <1>3, <1>5, <2>2
    <3>2. ASSUME NEW j \in ((i - 1) + 1)..Len(s) PROVE ~Has(s[j], x)
      <4>1. j \in 1..Len(s) /\ j + 1 \in (i + 1)..Len(t)
        BY <1>1, <3>1
      <4>. QED BY <1>1, <2>2, <4>1
    <3>. QED BY <1>5, <2>2, <3>1, <3>2 DEF Latest
  <2>. QED BY <2>1, <2>2 DEF Latest
<1>6. ASSUME Latest(t, x, got, last), ~Has(p, x) PROVE Latest(s, x, got, last)
  <2>1. ASSUME \A i \in 1..Len(s) : ~Has(s[i], x) PROVE got = last
    <3>1. \A i \in 1..Len(t) : ~Has(t[i], x)
      BY <1>1, <1>3, <1>6, <2>1
    <3>. QED BY <1>6, <3>1 DEF Latest
  <2>2. ASSUME NEW i \in 1..Len(s), Has(s[i], x),
               \A j \in (i + 1)..Len(s) : ~Has(s[j], x)
        PROVE  Holds(s[i], x, last)
    <3>1. i + 1 \in 1..Len(t) /\ t[i + 1] = s[i]
      BY <1>1, <1>4
    <3>2. ASSUME NEW j \in ((i + 1) + 1)..Len(t) PROVE ~Has(t[j], x)
      <4>1. j - 1 \in (i + 1)..Len(s) /\ j \in 1..Len(t) /\ j # 1
        BY <1>1
      <4>. QED BY <1>3, <2>2, <4>1
    <3>. QED BY <1>6, <2>2, <3>1, <3>2 DEF Latest
  <2>. QED BY <2>1, <2>2 DEF Latest
<1>. QED BY <1>5, <1>6 DEF t

LEMMA LatestRead ==
  ASSUME NEW S, NEW s \in Seq(S), NEW p \in S, NEW x, NEW got, NEW last,
         Latest(<<p>> \o s, x, got, last), NEW u \in Elems(p.carries), u.item = x
  PROVE  Latest(s, x, u.value, last)
<1>. DEFINE t == <<p>> \o s
<1>1. /\ Len(s) \in Nat /\ Len(t) = Len(s) + 1 /\ t[1] = p
      /\ \A i \in 1..Len(s) : t[i + 1] = s[i]
  OBVIOUS
<1>2. Latest(t, x, got, last)
  OBVIOUS
<1>. HIDE DEF t
<1>3. \A j \in 2..Len(t) : j - 1 \in 1..Len(s) /\ t[j] = s[j - 1]
  <2>1. \A j \in 2..Len(t) : j - 1 \in 1..Len(s) /\ (j - 1) + 1 = j
    BY <1>1
  <2>. QED BY <1>1, <2>1
<1>4. ASSUME \A i \in 1..Len(s) : ~Has(s[i], x) PROVE u.value = last
  <2>1. \A j \in (1 + 1)..Len(t) : ~Has(t[j], x)
    BY <1>3, <1>4
  <2>2. Has(t[1], x) /\ 1 \in 1..Len(t)
    BY <1>1 DEF Has
  <2>3. Holds(t[1], x, last)
    BY <1>2, <2>1, <2>2 DEF Latest
  <2>. QED BY <1>1, <2>3 DEF Holds
<1>5. ASSUME NEW i \in 1..Len(s), Has(s[i], x),
             \A j \in (i + 1)..Len(s) : ~Has(s[j], x)
      PROVE  Holds(s[i], x, last)
  <2>1. i + 1 \in 1..Len(t) /\ t[i + 1] = s[i]
    BY <1>1
  <2>2. ASSUME NEW j \in ((i + 1) + 1)..Len(t) PROVE ~Has(t[j], x)
    <3>1. j - 1 \in (i + 1)..Len(s) /\ j \in 2..Len(t)
      BY <1>1
    <3>. QED BY <1>3, <1>5, <3>1
  <2>. QED BY <1>2, <1>5, <2>1, <2>2 DEF Latest
<1>. QED BY <1>4, <1>5 DEF Latest

LEMMA LatestAppended ==
  ASSUME NEW S, NEW s \in Seq(S), NEW t \in Seq(S), NEW x, NEW got, NEW last
  PROVE  /\ (\A i \in 1..Len(t) : ~Has(t[i], x)) /\ Latest(s, x, got, last)
              => Latest(s \o t, x, got, last)
         /\ (\E i \in 1..Len(t) : Has(t[i], x)) /\ (\A i \in 1..Len(t) : Holds(t[i], x, last))
              => Latest(s \o t, x, got, last)
<1>. DEFINE q == s \o t
            n == Len(s)
<1>1. /\ n \in Nat /\ Len(t) \in Nat /\ Len(q) = n + Len(t)
      /\ \A i \in 1..n : q[i] = s[i]
      /\ \A i \in 1..Len(t) : q[n + i] = t[i]
  BY ConcatProperties
<1>. HIDE DEF q, n
<1>2. \A j \in (n + 1)..Len(q) : j - n \in 1..Len(t) /\ q[j] = t[j - n]
  <2>1. \A j \in (n + 1)..Len(q) : j - n \in 1..Len(t) /\ n + (j - n) = j
    BY <1>1
  <2>. QED BY <1>1, <2>1
<1>3. \A i \in 1..n : i \in 1..Len(q) /\ (i + 1)..n \subseteq (i + 1)..Len(q)
  BY <1>1
<1>4. \A i \in 1..Len(t) : n + i \in 1..Len(q) /\ n + i \in (n + 1)..Len(q)
  BY <1>1
<1>5. \A i \in 1..Len(q) : i \in 1..n \/ i \in (n + 1)..Len(q)
  BY <1>1
<1>6. ASSUME \A i \in 1..Len(t) : ~Has(t[i], x), Latest(s, x, got, last)
      PROVE  Latest(q, x, got, last)
  <2>1. ASSUME \A i \in 1..Len(q) : ~Has(q[i], x) PROVE got = last
    <3>1. \A i \in 1..n : ~Has(s[i], x)
      BY <1>1, <1>3, <2>1
    <3>. QED BY <1>6, <3>1 DEF Latest, n
  <2>2. ASSUME NEW i \in 1..Len(q), Has(q[i], x),
               \A j \in (i + 1)..Len(q) : ~Has(q[j], x)
        PROVE  Holds(q[i], x, last)
    <3>1. i \in 1..n /\ q[i] = s[i]
      BY <1>1, <1>2, <1>5, <1>6, <2>2
    <3>2. ASSUME NEW j \in (i + 1)..n PROVE ~Has(s[j], x)
      <4>1. j \in 1..n /\ j \in (i + 1)..Len(q)
        BY <1>1, <1>3, <3>1
      <4>. QED BY <1>1, <2>2, <4>1
    <3>. QED BY <1>6, <2>2, <3>1, <3>2 DEF Latest, n
  <2>. QED BY <2>1, <2>2 DEF Latest
<1>7. ASSUME \E i \in 1..Len(t) : Has(t[i], x), \A i \in 1..Len(t) : Holds(t[i], x, last)
      PROVE  Latest(q, x, got, last)
  <2>1. PICK k \in 1..Len(t) : Has(t[k], x)
    BY <1>7
  <2>2. n + k \in 1..Len(q) /\ Has(q[n + k], x)
    BY <1>1, <1>4, <2>1
  <2>3. ASSUME NEW i \in 1..Len(q), Has(q[i], x),
               \A j \in (i + 1)..Len(q) : ~Has(q[j], x)
        PROVE  Holds(q[i], x, last)
    <3>1. i \in (n + 1)..Len(q)
      <4>1. SUFFICES ASSUME i \in 1..n PROVE FALSE
        BY <1>5
      <4>2. n + k \in (i + 1)..Len(q)
        BY <1>1, <2>2, <4>1
      <4>. QED BY <2>2, <2>3, <4>2
    <3>. QED BY <1>2, <1>7, <3>1
  <2>. QED BY <2>2, <2>3 DEF Latest
<1>. QED BY <1>6, <1>7 DEF q

Stream == m_incoming_pkt_list \o reliable

\* An unreliable packet has no reliable variable, and the stream of each ends in what is owed.
Arriving ==
  /\ Len(m_incoming_pkt_list) <= 1
  /\ \A x \in Item : Priority[x] = 0 =>
       /\ \A p \in unreliable : ~Has(p, x)
       /\ Latest(Stream, x, received[x], owed[x])

ArriveInv == EncodeInv /\ Arriving

LEMMA ArriveInit == Init => Arriving
<1>. SUFFICES ASSUME Init PROVE Arriving
  OBVIOUS
<1>1. /\ m_incoming_pkt_list = <<>> /\ reliable = <<>> /\ unreliable = {}
      /\ received = [x \in Item |-> 0] /\ owed = [x \in Item |-> 0]
  BY DEF Init
<1>2. Len(m_incoming_pkt_list) <= 1 /\ Stream = <<>>
  BY <1>1 DEF Stream
<1>3. \A x \in Item : received[x] = owed[x]
  BY <1>1
<1>. QED BY <1>1, <1>2, <1>3 DEF Arriving, Latest

LEMMA ArriveQuiet == ArriveInv => ReliableArrives
<1>. SUFFICES ASSUME ArriveInv, reliable = <<>>,
                     \A p \in OnTheWay : \A i \in 1..Len(p.carries) :
                       Priority[p.carries[i].item] > 0,
                     NEW x \in Item, Priority[x] = 0
              PROVE  received[x] = owed[x]
  BY DEF ReliableArrives
<1>1. m_incoming_pkt_list \in Seq(GoodPacket)
  BY DEF ArriveInv, EncodeInv, Encoded
<1>2. Stream = m_incoming_pkt_list
  BY <1>1 DEF Stream
<1>3. ASSUME NEW i \in 1..Len(Stream) PROVE ~Has(Stream[i], x)
  <2>1. Stream[i] \in OnTheWay
    BY <1>1, <1>2 DEF OnTheWay, Range
  <2>. QED BY <2>1 DEF Has, Elems
<1>4. Latest(Stream, x, received[x], owed[x])
  BY DEF ArriveInv, Arriving
<1>. QED BY <1>3, <1>4 DEF Latest

\* The packets of an update have the values that are owed then.
LEMMA ArriveUpdate ==
  ASSUME ArriveInv, update_out_going_replica
  PROVE  Arriving'
<1>0. /\ Arriving /\ EncodeInv /\ Aging
      /\ m_incoming_pkt_list \in Seq(GoodPacket) /\ reliable \in Seq(GoodPacket)
  BY DEF ArriveInv, EncodeInv, Encoded
<1>1. UNCHANGED <<m_incoming_pkt_list, received>>
  BY DEF update_out_going_replica, receiverVars
<1>2. CASE UNCHANGED <<reliable, unreliable, owed>>
  BY <1>0, <1>1, <1>2 DEF Arriving, Stream
<1>3. ASSUME NEW q \in result, send_packet(Written(q)),
             owed' = [x \in Item |-> IF Due(x) THEN value[x] ELSE owed[x]]
      PROVE  Arriving'
  <2>. DEFINE packets == Written(q)
              A == Numbered(packets, TRUE)
              B == Numbered(packets, FALSE)
              Sent(r) == {U(x) : x \in {y \in Item : Due(y) /\ need_reliable(y) = r}}
  <2>1. /\ A \in Seq(GoodPacket) /\ B \in Seq(GoodPacket)
        /\ UNION {Elems(p.carries) : p \in Elems(A)} = Sent(TRUE)
        /\ UNION {Elems(p.carries) : p \in Elems(B)} = Sent(FALSE)
    BY <1>0, PacketsSent
  <2>2. reliable' = reliable \o A /\ unreliable' = unreliable \cup Range(B)
    BY <1>3 DEF send_packet
  <2>3. Stream' = Stream \o A /\ Stream \in Seq(GoodPacket)
    <3>1. Stream' = m_incoming_pkt_list \o (reliable \o A)
      BY <1>1, <2>2 DEF Stream
    <3>. HIDE DEF A
    <3>2. m_incoming_pkt_list \o (reliable \o A) = (m_incoming_pkt_list \o reliable) \o A
      <4>1. \A s, t, u \in Seq(GoodPacket) : s \o (t \o u) = (s \o t) \o u
        BY ConcatAssociative
      <4>. QED BY <1>0, <2>1, <4>1, Zenon
    <3>3. m_incoming_pkt_list \o reliable \in Seq(GoodPacket)
      BY <1>0
    <3>. QED BY <3>1, <3>2, <3>3 DEF Stream
  <2>4. \A x \in Item : Due(x) => (need_reliable(x) <=> Priority[x] = 0)
    BY <1>0, PriorityOfDue DEF need_reliable
  <2>5. \A r \in BOOLEAN : \A u \in Sent(r) :
          \E x \in Item : u = U(x) /\ Due(x) /\ need_reliable(x) = r
    OBVIOUS
  <2>6. \A x \in Item : Due(x) /\ need_reliable(x) => U(x) \in Sent(TRUE)
    OBVIOUS
  <2>. HIDE DEF packets, A, B, Sent
  <2>7. ASSUME NEW x \in Item, Priority[x] = 0, NEW p \in unreliable' PROVE ~Has(p, x)
    <3>1. CASE p \in unreliable
      BY <1>0, <2>7, <3>1 DEF Arriving
    <3>2. CASE p \in Range(B)
      <4>1. SUFFICES ASSUME NEW u \in Elems(p.carries), u.item = x PROVE FALSE
        BY DEF Has
      <4>2. p \in Elems(B)
        BY <2>1, <3>2 DEF Elems, Range
      <4>3. u \in Sent(FALSE)
        BY <2>1, <4>2
      <4>4. PICK y \in Item : u = U(y) /\ Due(y) /\ need_reliable(y) = FALSE
        BY <2>5, <4>3
      <4>5. y = x
        BY <4>1, <4>4 DEF U
      <4>. QED BY <2>4, <2>7, <4>4, <4>5
    <3>. QED BY <2>2, <3>1, <3>2
  <2>8. ASSUME NEW x \in Item, Priority[x] = 0
        PROVE  Latest(Stream \o A, x, received[x], owed'[x])
    <3>1. Latest(Stream, x, received[x], owed[x])
      BY <1>0, <2>8 DEF Arriving
    <3>2. ASSUME NEW i \in 1..Len(A), NEW u \in Elems(A[i].carries), u.item = x
          PROVE  Due(x) /\ u.value = value[x]
      <4>1. A[i] \in Elems(A)
        BY DEF Elems
      <4>2. u \in Sent(TRUE)
        BY <2>1, <3>2, <4>1
      <4>3. PICK y \in Item : u = U(y) /\ Due(y)
        BY <2>5, <4>2
      <4>. QED BY <3>2, <4>3 DEF U
    <3>3. CASE Due(x)
      <4>1. owed'[x] = value[x]
        BY <1>3, <3>3
      <4>2. \A i \in 1..Len(A) : Holds(A[i], x, owed'[x])
        BY <3>2, <4>1 DEF Holds
      <4>3. \E i \in 1..Len(A) : Has(A[i], x)
        <5>1. U(x) \in UNION {Elems(p.carries) : p \in Elems(A)}
          BY <2>1, <2>4, <2>6, <2>8, <3>3
        <5>2. PICK p \in Elems(A) : U(x) \in Elems(p.carries)
          BY <5>1
        <5>3. PICK i \in 1..Len(A) : p = A[i]
          BY DEF Elems
        <5>4. U(x).item = x
          BY DEF U
        <5>. QED BY <5>2, <5>3, <5>4 DEF Has
      <4>. DEFINE last == owed'[x]
      <4>4. /\ \A i \in 1..Len(A) : Holds(A[i], x, last)
            /\ \E i \in 1..Len(A) : Has(A[i], x)
        BY <4>2, <4>3
      <4>. HIDE DEF last
      <4>5. Latest(Stream \o A, x, received[x], last)
        BY <2>1, <2>3, <4>4, LatestAppended
      <4>. QED BY <4>5 DEF last
    <3>4. CASE ~Due(x)
      <4>1. owed'[x] = owed[x]
        BY <1>3, <3>4
      <4>2. \A i \in 1..Len(A) : ~Has(A[i], x)
        BY <3>2, <3>4 DEF Has
      <4>3. Latest(Stream \o A, x, received[x], owed[x])
        BY <2>1, <2>3, <3>1, <4>2, LatestAppended
      <4>. QED BY <4>1, <4>3
    <3>. QED BY <3>3, <3>4
  <2>. QED BY <1>0, <1>1, <2>3, <2>7, <2>8 DEF Arriving
<1>. QED BY <1>2, <1>3 DEF update_out_going_replica

LEMMA ArriveFull ==
  ASSUME ArriveInv, NEW r \in BOOLEAN, send_packet(Full(r)),
         UNCHANGED <<m_incoming_pkt_list, received, owed>>
  PROVE  Arriving'
<1>. DEFINE A == Numbered(Full(r), TRUE)
            B == Numbered(Full(r), FALSE)
<1>0. /\ Arriving /\ Waiting /\ sequence \in [BOOLEAN -> Nat]
      /\ m_incoming_pkt_list \in Seq(GoodPacket) /\ reliable \in Seq(GoodPacket)
  BY DEF ArriveInv, EncodeInv, Encoded, Commanded
<1>1. ASSUME NEW k \in BOOLEAN
      PROVE  /\ Numbered(Full(r), k) \in Seq(GoodPacket)
             /\ \A i \in 1..Len(Numbered(Full(r), k)) : \A x \in Item :
                  ~Has(Numbered(Full(r), k)[i], x)
  <2>. DEFINE packets == Full(r)
              N == Numbered(packets, k)
  <2>1. /\ packets \in [BOOLEAN -> Seq(Out)]
        /\ \A p \in Elems(packets[k]) : Readable(p) /\ p.carries = <<>>
    BY <1>0, FullSent
  <2>. HIDE DEF packets
  <2>2. /\ N \in Seq(GoodPacket) /\ Len(N) = Len(packets[k])
        /\ \A i \in 1..Len(packets[k]) : N[i].carries = packets[k][i].carries
    BY <1>0, <2>1, NumberedGood
  <2>. HIDE DEF N
  <2>3. \A i \in 1..Len(N) : N[i].carries = <<>>
    BY <2>1, <2>2 DEF Elems
  <2>4. \A i \in 1..Len(N) : \A x \in Item : ~Has(N[i], x)
    BY <2>3 DEF Has, Elems
  <2>. QED BY <2>2, <2>4 DEF N, packets
<1>2. /\ A \in Seq(GoodPacket) /\ \A i \in 1..Len(A) : \A x \in Item : ~Has(A[i], x)
      /\ B \in Seq(GoodPacket) /\ \A i \in 1..Len(B) : \A x \in Item : ~Has(B[i], x)
  BY <1>1
<1>3. reliable' = reliable \o A /\ unreliable' = unreliable \cup Range(B)
  BY DEF send_packet
<1>. HIDE DEF A, B
<1>4. Stream' = Stream \o A /\ Stream \in Seq(GoodPacket)
  <2>1. Stream' = m_incoming_pkt_list \o (reliable \o A)
    BY <1>3 DEF Stream
  <2>2. m_incoming_pkt_list \o (reliable \o A) = (m_incoming_pkt_list \o reliable) \o A
    <3>1. \A s, t, u \in Seq(GoodPacket) : s \o (t \o u) = (s \o t) \o u
      BY ConcatAssociative
    <3>. QED BY <1>0, <1>2, <3>1, Zenon
  <2>3. m_incoming_pkt_list \o reliable \in Seq(GoodPacket)
    BY <1>0
  <2>. QED BY <2>1, <2>2, <2>3 DEF Stream
<1>5. ASSUME NEW x \in Item, Priority[x] = 0
      PROVE  /\ \A p \in unreliable' : ~Has(p, x)
             /\ Latest(Stream \o A, x, received[x], owed[x])
  <2>1. \A p \in Range(B) : ~Has(p, x)
    BY <1>2 DEF Range
  <2>2. (\A p \in unreliable : ~Has(p, x)) /\ Latest(Stream, x, received[x], owed[x])
    BY <1>0, <1>5 DEF Arriving
  <2>3. Latest(Stream \o A, x, received[x], owed[x])
    BY <1>2, <1>4, <2>2, LatestAppended
  <2>. QED BY <1>3, <2>1, <2>2, <2>3
<1>. QED BY <1>0, <1>4, <1>5 DEF Arriving

LEMMA Single ==
  ASSUME NEW S, NEW s \in Seq(S), s # <<>>, Len(s) <= 1
  PROVE  s = <<s[1]>> /\ Tail(s) = <<>>
<1>1. Len(s) \in Nat /\ Len(s) # 0
  OBVIOUS
<1>2. Len(s) = 1
  BY <1>1
<1>3. s = <<s[1]>>
  BY <1>2
<1>4. Tail(s) = <<>>
  <2>1. Tail(s) \in Seq(S) /\ Len(Tail(s)) = 0
    BY <1>2
  <2>. QED BY <2>1
<1>. QED BY <1>3, <1>4

\* The receiver takes the last value of a packet.
LEMMA ArriveRead ==
  ASSUME ArriveInv, recieve_one_packet
  PROVE  Arriving'
<1>0. Arriving /\ Encoded /\ flushing
  BY DEF ArriveInv, EncodeInv, recieve_one_packet
<1>. DEFINE p == m_incoming_pkt_list[1]
            m == m_incoming_pkt_list
<1>1. /\ m # <<>> /\ p \in GoodPacket /\ Decode(p.data).reads = "done"
      /\ Decode(p.data).found = p.carries /\ p.carries \in Seq(Update)
      /\ m \in Seq(GoodPacket) /\ reliable \in Seq(GoodPacket) /\ Len(m) <= 1
  BY <1>0, ReadsGood DEF Encoded, Arriving
<1>2. /\ recv_a_var(p.carries, p.sq) /\ m' = Tail(m)
      /\ UNCHANGED <<reliable, unreliable, owed>>
  BY <1>1 DEF recieve_one_packet, networkVars
<1>3. m = <<p>> /\ Tail(m) = <<>>
  BY <1>1, Single
<1>4. Stream = <<p>> \o reliable
  BY <1>3 DEF Stream
<1>5. Stream' = reliable /\ Len(m') <= 1
  <2>1. Stream' = m' \o reliable
    BY <1>2 DEF Stream
  <2>. QED BY <1>1, <1>2, <1>3, <2>1
<1>. DEFINE at(x) == {i \in 1..Len(p.carries) : p.carries[i].item = x}
<1>6. received' = [x \in Item |-> IF at(x) = {} THEN received[x]
                                  ELSE p.carries[Max(at(x))].value]
  BY <1>2 DEF recv_a_var
<1>7. ASSUME NEW x \in Item, Priority[x] = 0
      PROVE  Latest(reliable, x, received'[x], owed[x])
  <2>1. Latest(<<p>> \o reliable, x, received[x], owed[x])
    BY <1>0, <1>4, <1>7 DEF Arriving
  <2>2. CASE at(x) = {}
    <3>1. received'[x] = received[x]
      BY <1>6, <2>2
    <3>2. ~Has(p, x)
      BY <2>2 DEF Has, Elems
    <3>3. Latest(reliable, x, received[x], owed[x])
      BY <1>1, <2>1, <3>2, LatestBehind
    <3>. QED BY <3>1, <3>3
  <2>3. CASE at(x) # {}
    <3>1. at(x) \in SUBSET (1..Len(p.carries)) /\ Len(p.carries) \in Nat
      BY <1>1
    <3>. DEFINE k == Max(at(x))
                u == p.carries[k]
    <3>2. k \in at(x)
      <4>. HIDE DEF at
      <4>. QED BY <2>3, <3>1, LastOf
    <3>3. u \in Elems(p.carries) /\ u.item = x
      BY <3>2 DEF Elems
    <3>4. received'[x] = u.value
      BY <1>6, <2>3
    <3>. HIDE DEF u, k, at, p, m
    <3>5. Latest(reliable, x, u.value, owed[x])
      BY <1>1, <2>1, <3>3, LatestRead
    <3>. QED BY <3>4, <3>5
  <2>. QED BY <2>2, <2>3
<1>. HIDE DEF p, at
<1>. QED BY <1>0, <1>2, <1>5, <1>7 DEF Arriving

LEMMA ArriveStep ==
  PerFrame <= 1 /\ ArriveInv /\ [Next]_vars => ArriveInv'
<1>. SUFFICES ASSUME PerFrame <= 1, ArriveInv, [Next]_vars
              PROVE  Arriving'
  BY EncodeStep DEF ArriveInv
<1>0. /\ Arriving /\ PerFrame \in Nat /\ m_incoming_pkt_list \in Seq(GoodPacket)
      /\ reliable \in Seq(GoodPacket) /\ unreliable \subseteq GoodPacket
  BY ReplicaAssumption DEF ArriveInv, EncodeInv, Encoded
<1>1. ASSUME UNCHANGED <<reliable, m_incoming_pkt_list, received, owed>>,
             unreliable' \subseteq unreliable
      PROVE  Arriving'
  <2>1. Stream' = Stream
    BY <1>1 DEF Stream
  <2>. QED BY <1>0, <1>1, <2>1 DEF Arriving
<1>2. ASSUME NEW p, Queue(p)
      PROVE  /\ m_incoming_pkt_list = <<>> /\ m_incoming_pkt_list' = <<p>>
             /\ UNCHANGED <<received, owed>>
  <2>1. /\ Len(m_incoming_pkt_list) < PerFrame
        /\ m_incoming_pkt_list' = <<p>> \o m_incoming_pkt_list
        /\ UNCHANGED <<received, owed>>
    BY <1>2 DEF Queue, receiverVars
  <2>2. m_incoming_pkt_list = <<>>
    BY <1>0, <2>1
  <2>3. <<p>> \o <<>> = <<p>>
    OBVIOUS
  <2>. QED BY <2>1, <2>2, <2>3
<1>3. CASE arrive_reliable
  <2>. DEFINE p == reliable[1]
  <2>1. reliable # <<>> /\ Queue(p) /\ reliable' = Tail(reliable) /\ unreliable' = unreliable
    BY <1>3 DEF arrive_reliable
  <2>2. reliable = <<p>> \o Tail(reliable)
    BY <1>0, <2>1
  <2>. HIDE DEF p
  <2>3. /\ m_incoming_pkt_list = <<>> /\ m_incoming_pkt_list' = <<p>>
        /\ UNCHANGED <<received, owed>>
    BY <1>2, <2>1
  <2>4. Stream = reliable
    BY <1>0, <2>3 DEF Stream
  <2>5. Stream' = <<p>> \o Tail(reliable)
    BY <2>1, <2>3 DEF Stream
  <2>6. Stream' = Stream /\ Len(m_incoming_pkt_list') <= 1
    BY <2>2, <2>3, <2>4, <2>5
  <2>. QED BY <1>0, <2>1, <2>3, <2>6 DEF Arriving
<1>4. ASSUME NEW p \in unreliable, NEW again \in BOOLEAN, arrive_unreliable(p, again)
      PROVE  Arriving'
  <2>1. Queue(p) /\ reliable' = reliable /\ unreliable' \subseteq unreliable
    BY <1>4 DEF arrive_unreliable
  <2>2. /\ m_incoming_pkt_list = <<>> /\ m_incoming_pkt_list' = <<p>>
        /\ UNCHANGED <<received, owed>>
    BY <1>2, <2>1
  <2>3. Stream = reliable /\ Stream' = <<p>> \o reliable
    BY <1>0, <2>1, <2>2 DEF Stream
  <2>4. ASSUME NEW x \in Item, Priority[x] = 0
        PROVE  /\ \A o \in unreliable' : ~Has(o, x)
               /\ Latest(<<p>> \o reliable, x, received[x], owed[x])
    <3>1. /\ \A o \in unreliable : ~Has(o, x)
          /\ Latest(reliable, x, received[x], owed[x])
      BY <1>0, <2>3, <2>4 DEF Arriving
    <3>2. p \in GoodPacket /\ ~Has(p, x)
      BY <1>0, <3>1
    <3>3. Latest(<<p>> \o reliable, x, received[x], owed[x])
      BY <1>0, <3>1, <3>2, LatestBehind
    <3>. QED BY <2>1, <3>1, <3>3
  <2>5. Len(m_incoming_pkt_list') <= 1
    BY <2>2
  <2>. QED BY <2>2, <2>3, <2>4, <2>5 DEF Arriving
<1>5. ASSUME NEW p \in unreliable, lose(p) PROVE Arriving'
  BY <1>1, <1>5 DEF lose, receiverVars
<1>6. CASE flush_in_coming_packets
  BY <1>1, <1>6 DEF flush_in_coming_packets, networkVars, receiverVars
<1>7. ASSUME NEW x \in Item, change(x) PROVE Arriving'
  BY <1>1, <1>7 DEF change, networkVars, receiverVars
<1>8. ASSUME NEW r \in BOOLEAN, NEW n \in CommandSize, send_net_cmd(r, n) PROVE Arriving'
  <2>1. UNCHANGED <<m_incoming_pkt_list, received, owed>>
    BY <1>8 DEF send_net_cmd, receiverVars
  <2>2. CASE UNCHANGED <<reliable, unreliable, sequence>>
    BY <1>1, <2>1, <2>2
  <2>3. CASE send_packet(Full(r))
    BY <2>1, <2>3, ArriveFull
  <2>. QED BY <1>8, <2>2, <2>3 DEF send_net_cmd, Full
<1>9. CASE connect
  BY <1>1, <1>9 DEF connect, networkVars, receiverVars
<1>10. CASE UNCHANGED vars
  BY <1>1, <1>10 DEF vars, networkVars, receiverVars
<1>. QED
  BY <1>3, <1>4, <1>5, <1>6, <1>7, <1>8, <1>9, <1>10, ArriveUpdate, ArriveRead DEF Next

\* What is sent of a reliable variable arrives, when no two packets come in one frame
\* (flush_in_coming_packets reads those of a frame newest first).
THEOREM ReliableReceived == ASSUME PerFrame <= 1 PROVE Spec => []ReliableArrives
<1>1. Init => ArriveInv
  BY EncodeInit, ArriveInit DEF ArriveInv
<1>. QED
  BY <1>1, ArriveStep, ArriveQuiet, PTL DEF Spec
===============================================================================
