--------------------------- MODULE RudpChannel_proofs ---------------------------
(***************************************************************************)
(* Proofs about RudpChannel, for every number of messages, window, resend  *)
(* limit and width of the sequence numbers, as long as no number wraps.    *)
(***************************************************************************)
EXTENDS RudpChannel, TLAPS, SequenceTheorems, FiniteSetTheorems, FunctionTheorems

LEMMA AdmittedRange ==
  ASSUME TypeOK
  PROVE  /\ Admitted \in 0..Len(outgoing_reliable_list)
         /\ cu_send_window_size < WindowSize =>
              cu_send_window_size + Admitted <= WindowSize
         /\ cu_send_window_size >= WindowSize => Admitted = 0
<1>1. Len(outgoing_reliable_list) \in Nat
  BY LenProperties DEF TypeOK
<1>. QED
  BY <1>1, ConstantsAssumption DEF TypeOK, Admitted

\* What one pass over the sending side has in its waiting list.
LEMMA WaitingType ==
  ASSUME TypeOK
  PROVE  Waiting \subseteq WaitEntry
<1>1. ASSUME NEW i \in 1..Admitted
      PROVE  [pkt |-> outgoing_reliable_list[i], times |-> 0] \in WaitEntry
  <2>1. i \in 1..Len(outgoing_reliable_list)
    BY AdmittedRange, LenProperties DEF TypeOK
  <2>2. outgoing_reliable_list[i] \in Packet
    BY <2>1, ElementOfSeq DEF TypeOK
  <2>. QED
    BY <2>2, ConstantsAssumption DEF WaitEntry
<1>. QED
  BY <1>1 DEF Waiting, TypeOK

\* A list cut after its first n elements.
LEMMA CutType ==
  ASSUME TypeOK, NEW n \in 0..Len(outgoing_reliable_list)
  PROVE  LET rest == SubSeq(outgoing_reliable_list, n + 1, Len(outgoing_reliable_list))
         IN  /\ rest \in Seq(Packet)
             /\ Len(rest) = Len(outgoing_reliable_list) - n
             /\ \A i \in 1..Len(rest) : rest[i] = outgoing_reliable_list[n + i]
<1>1. Len(outgoing_reliable_list) \in Nat /\ n \in Nat
  BY LenProperties DEF TypeOK
<1>2. \A i \in (n + 1)..Len(outgoing_reliable_list) : outgoing_reliable_list[i] \in Packet
  BY <1>1, ElementOfSeq DEF TypeOK
<1>. DEFINE rest == SubSeq(outgoing_reliable_list, n + 1, Len(outgoing_reliable_list))
<1>3. /\ rest \in Seq(Packet)
      /\ Len(rest) = IF n + 1 <= Len(outgoing_reliable_list)
                     THEN Len(outgoing_reliable_list) - (n + 1) + 1 ELSE 0
      /\ \A i \in 1..(Len(outgoing_reliable_list) - (n + 1) + 1) :
           rest[i] = outgoing_reliable_list[(n + 1) + i - 1]
  BY <1>1, <1>2, SubSeqProperties
<1>. QED
  BY <1>1, <1>3

-------------------------------------------------------------------------------
(* Type correctness. *)

LEMMA SeqNumFacts ==
  /\ SeqNum \subseteq Nat
  /\ 0 \in SeqNum
  /\ \A s \in Nat : s % SeqMod \in SeqNum
  /\ \A s \in SeqNum : NextSeq(s) \in SeqNum
  /\ \A s \in SeqNum : s % SeqMod = s
BY ConstantsAssumption DEF SeqNum, NextSeq

\* The messages handed to the user when the walk of update_incoming_channel
\* reaches number s.
LEMMA RunType ==
  ASSUME TypeOK, NEW s \in Nat, Reached(s)
  PROVE  LET run == [i \in 1..(s - incoming_reliable_sequence) |->
                       MessageOf(incoming_reliable_sequence + i - 1)]
         IN  /\ s - incoming_reliable_sequence \in Nat
             /\ run \in Seq(Message)
             /\ Len(run) = s - incoming_reliable_sequence
<1>1. incoming_reliable_sequence \in Nat /\ s - incoming_reliable_sequence \in Nat
  BY SeqNumFacts, ConstantsAssumption DEF TypeOK, Reached
<1>2. ASSUME NEW i \in 1..(s - incoming_reliable_sequence)
      PROVE  MessageOf(incoming_reliable_sequence + i - 1) \in Message
  <2>. DEFINE t == incoming_reliable_sequence + i - 1
  <2>1. t \in incoming_reliable_sequence..(s - 1)
    BY <1>1
  <2>2. PICK p \in incoming_reliable_list : p.seq = t
    BY <2>1 DEF Reached, Buffered
  <2>3. (CHOOSE q \in incoming_reliable_list : q.seq = t) \in incoming_reliable_list
    BY <2>2
  <2>4. (CHOOSE q \in incoming_reliable_list : q.seq = t) \in Packet
    BY <2>3 DEF TypeOK
  <2>. QED
    BY <2>4 DEF MessageOf, Packet
<1>. DEFINE run == [i \in 1..(s - incoming_reliable_sequence) |->
                     MessageOf(incoming_reliable_sequence + i - 1)]
<1>3. run \in [1..(s - incoming_reliable_sequence) -> Message]
  BY <1>2
<1>. HIDE DEF run
<1>4. run \in Seq(Message) /\ Len(run) = s - incoming_reliable_sequence
  BY <1>1, <1>3
<1>. QED
  BY <1>1, <1>4 DEF run

LEMMA DeliverType ==
  ASSUME TypeOK, NEW s \in Nat, DeliverUpTo(s)
  PROVE  incoming_reliable_sequence' \in SeqNum /\ delivered' \in Seq(Message)
<1>. DEFINE run == [i \in 1..(s - incoming_reliable_sequence) |->
                     MessageOf(incoming_reliable_sequence + i - 1)]
<1>1. run \in Seq(Message)
  BY RunType DEF DeliverUpTo
<1>2. delivered \o run \in Seq(Message)
  BY <1>1, ConcatProperties DEF TypeOK
<1>. QED
  BY <1>2, SeqNumFacts DEF DeliverUpTo

LEMMA TypeStep == TypeOK /\ [Next]_vars => TypeOK'
<1>. SUFFICES ASSUME TypeOK, [Next]_vars
              PROVE  TypeOK'
  OBVIOUS
<1>. USE ConstantsAssumption
<1>1. CASE do_send_reliable
  <2>1. [seq |-> outgoing_reliable_sequence, msg |-> sent + 1] \in Packet
    BY <1>1 DEF do_send_reliable, TypeOK, Packet, Message
  <2>2. outgoing_reliable_list' \in Seq(Packet)
    BY <1>1, <2>1, AppendProperties DEF do_send_reliable, TypeOK
  <2>3. sent' \in 0..MaxSend
    BY <1>1 DEF do_send_reliable, TypeOK
  <2>4. outgoing_reliable_sequence' \in SeqNum
    BY <1>1, SeqNumFacts DEF do_send_reliable, TypeOK
  <2>. QED
    BY <1>1, <2>2, <2>3, <2>4 DEF do_send_reliable, TypeOK, receiverVars
<1>2. ASSUME NEW expired \in SUBSET InFlight, update_outgoing_channel(expired)
      PROVE  TypeOK'
  <2>. DEFINE due == Due(Waiting, expired)
  <2>1. due \subseteq Waiting
    BY DEF Due
  <2>2. \A w \in Waiting : w \in WaitEntry /\ w.times <= MaxResend
    BY <1>2, WaitingType DEF update_outgoing_channel, Exhausted, WaitEntry
  <2>3. \A w \in due : [w EXCEPT !.times = @ + 1] \in WaitEntry
    BY <2>1, <2>2 DEF WaitEntry
  <2>4. wait_for_ack_list' \in SUBSET WaitEntry
    BY <1>2, <2>2, <2>3 DEF update_outgoing_channel
  <2>5. {w.pkt : w \in due} \subseteq Packet
    BY <2>1, <2>2 DEF WaitEntry
  <2>6. outgoing_reliable_list' \in Seq(Packet)
    BY <1>2, CutType, AdmittedRange DEF update_outgoing_channel
  <2>7. datagrams' \in SUBSET Packet
    BY <1>2, <2>5 DEF update_outgoing_channel, TypeOK
  <2>8. cu_send_window_size' \in Int
    BY <1>2, AdmittedRange, LenProperties DEF update_outgoing_channel, TypeOK
  <2>. QED
    BY <1>2, <2>4, <2>6, <2>7, <2>8 DEF update_outgoing_channel, TypeOK, receiverVars
<1>3. ASSUME NEW expired \in SUBSET InFlight, NEW w \in Waiting,
             update_outgoing_channel_fail(expired, w)
      PROVE  TypeOK'
  <2>. DEFINE due == Due({u \in Waiting : u.pkt.msg < w.pkt.msg}, expired)
  <2>1. {v.pkt : v \in due} \subseteq Packet
    BY WaitingType DEF Due, WaitEntry
  <2>2. datagrams' \in SUBSET Packet
    BY <1>3, <2>1 DEF update_outgoing_channel_fail, TypeOK
  <2>3. outgoing_reliable_list' \in Seq(Packet)
    BY <1>3, EmptySeq DEF update_outgoing_channel_fail
  <2>4. wait_for_ack_list' \in SUBSET WaitEntry /\ cu_send_window_size' \in Int
    BY <1>3 DEF update_outgoing_channel_fail
  <2>. QED
    BY <1>3, <2>2, <2>3, <2>4 DEF update_outgoing_channel_fail, TypeOK, receiverVars
<1>4. ASSUME NEW s \in acks, do_ack(s)
      PROVE  TypeOK'
  BY <1>4 DEF do_ack, TypeOK, receiverVars
<1>5. ASSUME NEW p \in datagrams, handle_recieve_reliable(p)
      PROVE  TypeOK'
  <2>1. p \in Packet /\ p.seq \in SeqNum /\ p.msg \in Message
    BY DEF TypeOK, Packet
  <2>2. Append(delivered, p.msg) \in Seq(Message)
    BY <2>1, AppendProperties DEF TypeOK
  <2>. QED
    BY <1>5, <2>1, <2>2, SeqNumFacts
    DEF handle_recieve_reliable, TypeOK, receiverVars, senderVars
<1>6. CASE update_incoming_channel
  <2>1. PICK s \in SeqNum \cup {SeqMod} :
          /\ DeliverUpTo(s)
          /\ incoming_reliable_list' = {p \in incoming_reliable_list : p.seq >= s}
    BY <1>6 DEF update_incoming_channel
  <2>2. s \in Nat
    BY SeqNumFacts
  <2>. QED
    BY <1>6, <2>1, <2>2, DeliverType DEF update_incoming_channel, TypeOK, senderVars
<1>7. CASE update_incoming_channel_fail
  <2>1. PICK s \in SeqNum : DeliverUpTo(s)
    BY <1>7 DEF update_incoming_channel_fail
  <2>2. s \in Nat
    BY SeqNumFacts
  <2>. QED
    BY <1>7, <2>1, <2>2, DeliverType DEF update_incoming_channel_fail, TypeOK, senderVars
<1>8. CASE UNCHANGED vars
  BY <1>8 DEF TypeOK, vars, senderVars, receiverVars
<1>9. CASE update_connect_sender
  <2>1. outgoing_reliable_list' \in Seq(Packet)
    BY <1>9, EmptySeq DEF update_connect_sender
  <2>2. wait_for_ack_list' \in SUBSET WaitEntry /\ cu_send_window_size' \in Int
    BY <1>9 DEF update_connect_sender
  <2>. QED
    BY <1>9, <2>1, <2>2 DEF update_connect_sender, TypeOK, receiverVars
<1>10. CASE update_connect_receiver
  BY <1>10 DEF update_connect_receiver, TypeOK, senderVars
<1>. QED
  BY <1>1, <1>2, <1>3, <1>4, <1>5, <1>6, <1>7, <1>8, <1>9, <1>10 DEF Next

\* Every variable keeps its type, whatever the constants: in particular no packet
\* is resent more than gvc_max_resend_times + 1 times, and sequence numbers stay
\* in their width.
THEOREM TypeCorrect == Spec => []TypeOK
<1>1. Init => TypeOK
  BY ConstantsAssumption, SeqNumFacts, EmptySeq DEF Init, TypeOK
<1>. QED
  BY <1>1, TypeStep, PTL DEF Spec
-------------------------------------------------------------------------------
(* Order, exactly-once delivery and custody. *)

\* What update_incoming_channel hands to the user, when packets are stamped and
\* the deliveries so far are a prefix: the messages up to the awaited number s.
LEMMA RunMessages ==
  ASSUME ChannelInv, NoWrap, NEW s \in Nat, DeliverUpTo(s)
  PROVE  /\ s <= sent
         /\ incoming_reliable_sequence <= s
         /\ incoming_reliable_sequence' = s
         /\ Len(delivered') = s
         /\ \A i \in 1..s : delivered'[i] = i
<1>. DEFINE base == incoming_reliable_sequence
            run == [i \in 1..(s - base) |-> MessageOf(base + i - 1)]
<1>0. /\ base \in Nat /\ base = Len(delivered) /\ base <= s
      /\ sent \in Nat /\ sent <= MaxSend /\ base <= sent
      /\ MaxSend \in Nat /\ SeqMod \in Nat /\ MaxSend < SeqMod
  BY SeqNumFacts, ConstantsAssumption
  DEF ChannelInv, TypeOK, Prefix, DeliverUpTo, Reached, NoWrap
<1>1. ASSUME NEW t \in base..(s - 1)
      PROVE  MessageOf(t) = t + 1 /\ t + 1 <= sent
  <2>1. PICK p \in incoming_reliable_list : p.seq = t
    BY DEF DeliverUpTo, Reached, Buffered
  <2>. DEFINE q == CHOOSE x \in incoming_reliable_list : x.seq = t
  <2>2. q \in incoming_reliable_list /\ q.seq = t
    BY <2>1
  <2>. HIDE DEF q
  <2>3. q \in Packet /\ Stamped(q)
    BY <2>2 DEF ChannelInv, TypeOK, Stamps
  <2>4. q.msg \in Nat
    BY <2>3, ConstantsAssumption DEF Packet, Message
  <2>5. q.msg = t + 1 /\ t + 1 <= sent
    BY <1>0, <2>2, <2>3, <2>4 DEF Stamped
  <2>. QED
    BY <2>5 DEF MessageOf, q
<1>2. s <= sent
  <2>1. CASE s = base
    BY <1>0, <2>1
  <2>2. CASE s # base
    BY <1>0, <1>1, <2>2
  <2>. QED
    BY <2>1, <2>2
<1>3. s % SeqMod = s
  <2>1. s \in SeqNum
    BY <1>0, <1>2 DEF SeqNum
  <2>. QED
    BY <2>1, SeqNumFacts
<1>4. /\ run \in Seq(Message) /\ Len(run) = s - base
  BY RunType DEF ChannelInv, DeliverUpTo
<1>5. \A i \in 1..(s - base) : run[i] = base + i
  BY <1>0, <1>1
<1>. HIDE DEF run
<1>6. /\ Len(delivered \o run) = Len(delivered) + Len(run)
      /\ \A i \in 1..(Len(delivered) + Len(run)) :
           (delivered \o run)[i] =
             IF i <= Len(delivered) THEN delivered[i] ELSE run[i - Len(delivered)]
  BY <1>4, ConcatProperties DEF ChannelInv, TypeOK
<1>7. delivered' = delivered \o run
  BY DEF DeliverUpTo, run
<1>8. Len(delivered') = s
  BY <1>0, <1>4, <1>6, <1>7
<1>9. ASSUME NEW i \in 1..s
      PROVE  delivered'[i] = i
  <2>1. CASE i <= base
    BY <1>0, <1>4, <1>6, <1>7, <2>1 DEF ChannelInv, Prefix
  <2>2. CASE i > base
    <3>1. i - base \in 1..(s - base)
      BY <1>0, <2>2
    <3>. QED
      BY <1>0, <1>4, <1>5, <1>6, <1>7, <2>2, <3>1
  <2>. QED
    BY <1>0, <2>1, <2>2
<1>. QED
  BY <1>0, <1>2, <1>3, <1>8, <1>9 DEF DeliverUpTo

LEMMA StampsStep ==
  ASSUME ChannelInv, NoWrap, [Next]_vars
  PROVE  Stamps'
<1>0. /\ sent \in Nat /\ sent <= MaxSend /\ MaxSend \in Nat /\ SeqMod \in Nat
      /\ MaxSend < SeqMod
  BY ConstantsAssumption DEF ChannelInv, TypeOK, NoWrap
<1>1. CASE do_send_reliable
  <2>. DEFINE new == [seq |-> outgoing_reliable_sequence, msg |-> sent + 1]
  <2>1. new \in Packet
    BY <1>0, <1>1 DEF do_send_reliable, ChannelInv, TypeOK, Packet, Message
  <2>2. /\ Len(outgoing_reliable_list') = Len(outgoing_reliable_list) + 1
        /\ \A i \in 1..Len(outgoing_reliable_list) :
             outgoing_reliable_list'[i] = outgoing_reliable_list[i]
        /\ outgoing_reliable_list'[Len(outgoing_reliable_list) + 1] = new
    BY <1>1, <2>1, AppendProperties DEF do_send_reliable, ChannelInv, TypeOK
  <2>3. Len(outgoing_reliable_list) \in Nat
    BY LenProperties DEF ChannelInv, TypeOK
  <2>4. outgoing_reliable_sequence' = sent'
    <3>1. sent + 1 \in SeqNum
      BY <1>0, <1>1 DEF do_send_reliable, SeqNum
    <3>2. (sent + 1) % SeqMod = sent + 1
      BY <3>1, SeqNumFacts
    <3>. QED
      BY <1>1, <3>2 DEF do_send_reliable, ChannelInv, Stamps, NextSeq
  <2>. DEFINE Good(q) == q.seq = q.msg - 1 /\ q.msg <= sent'
  <2>5. \A q \in Packet : Stamped(q) => Good(q)
    BY <1>0, <1>1, ConstantsAssumption DEF do_send_reliable, Stamped, Packet, Message
  <2>6. Good(new)
    BY <1>0, <1>1 DEF do_send_reliable, ChannelInv, Stamps
  <2>. HIDE DEF new, Good
  <2>7. \A i \in 1..Len(outgoing_reliable_list') : Good(outgoing_reliable_list'[i])
    <3>1. \A i \in 1..Len(outgoing_reliable_list) : Good(outgoing_reliable_list[i])
      BY <2>5, ElementOfSeq DEF ChannelInv, TypeOK, Stamps
    <3>. QED
      BY <2>2, <2>3, <2>6, <3>1
  <2>8. \A w \in wait_for_ack_list' : Good(w.pkt)
    BY <1>1, <2>5 DEF do_send_reliable, ChannelInv, TypeOK, Stamps, WaitEntry
  <2>9. \A p \in datagrams' \cup incoming_reliable_list' : Good(p)
    BY <1>1, <2>5 DEF do_send_reliable, receiverVars, ChannelInv, TypeOK, Stamps
  <2>. QED
    BY <2>4, <2>7, <2>8, <2>9 DEF Stamps, Stamped, Good
<1>. DEFINE Same == sent' = sent /\ outgoing_reliable_sequence' = outgoing_reliable_sequence
<1>2. ASSUME NEW expired \in SUBSET InFlight, update_outgoing_channel(expired)
      PROVE  Stamps'
  <2>1. Same /\ UNCHANGED incoming_reliable_list
    BY <1>2 DEF update_outgoing_channel, receiverVars
  <2>2. \A w \in Waiting : Stamped(w.pkt)
    BY AdmittedRange, LenProperties DEF Waiting, ChannelInv, TypeOK, Stamps
  <2>3. \A w \in wait_for_ack_list' : \E v \in Waiting : w.pkt = v.pkt
    BY <1>2, WaitingType DEF update_outgoing_channel, Due, WaitEntry, ChannelInv
  <2>4. \A p \in datagrams' : p \in datagrams \/ \E v \in Waiting : p = v.pkt
    BY <1>2 DEF update_outgoing_channel, Due
  <2>5. \A i \in 1..Len(outgoing_reliable_list') : Stamped(outgoing_reliable_list'[i])
    <3>. DEFINE n == Admitted
    <3>1. TypeOK /\ n \in 0..Len(outgoing_reliable_list)
      BY AdmittedRange DEF ChannelInv
    <3>2. /\ Len(outgoing_reliable_list') = Len(outgoing_reliable_list) - n
          /\ \A i \in 1..Len(outgoing_reliable_list') :
               outgoing_reliable_list'[i] = outgoing_reliable_list[n + i]
      BY <1>2, <3>1, CutType DEF update_outgoing_channel
    <3>3. Len(outgoing_reliable_list) \in Nat
      BY <3>1, LenProperties DEF TypeOK
    <3>. HIDE DEF n
    <3>4. \A i \in 1..Len(outgoing_reliable_list') : n + i \in 1..Len(outgoing_reliable_list)
      BY <3>1, <3>2, <3>3
    <3>. QED
      BY <3>2, <3>4 DEF ChannelInv, Stamps
  <2>. QED
    BY <2>1, <2>2, <2>3, <2>4, <2>5 DEF ChannelInv, Stamps, Stamped
<1>3. ASSUME NEW expired \in SUBSET InFlight, NEW w \in Waiting,
             update_outgoing_channel_fail(expired, w)
      PROVE  Stamps'
  <2>1. Same /\ UNCHANGED incoming_reliable_list
    BY <1>3 DEF update_outgoing_channel_fail, receiverVars
  <2>2. \A v \in Waiting : Stamped(v.pkt)
    BY AdmittedRange, LenProperties DEF Waiting, ChannelInv, TypeOK, Stamps
  <2>3. \A p \in datagrams' : p \in datagrams \/ \E v \in Waiting : p = v.pkt
    BY <1>3 DEF update_outgoing_channel_fail, Due
  <2>4. outgoing_reliable_list' = <<>> /\ wait_for_ack_list' = {}
    BY <1>3 DEF update_outgoing_channel_fail
  <2>. QED
    BY <2>1, <2>2, <2>3, <2>4, EmptySeq DEF ChannelInv, Stamps, Stamped
<1>4. ASSUME NEW s \in acks, do_ack(s)
      PROVE  Stamps'
  BY <1>4 DEF do_ack, receiverVars, ChannelInv, Stamps, Stamped
<1>5. ASSUME NEW p \in datagrams, handle_recieve_reliable(p)
      PROVE  Stamps'
  BY <1>5 DEF handle_recieve_reliable, senderVars, receiverVars, ChannelInv, Stamps, Stamped
<1>6. CASE update_incoming_channel
  BY <1>6 DEF update_incoming_channel, senderVars, ChannelInv, Stamps, Stamped
<1>7. CASE update_incoming_channel_fail
  BY <1>7 DEF update_incoming_channel_fail, senderVars, ChannelInv, Stamps, Stamped
<1>8. CASE UNCHANGED vars
  BY <1>8 DEF vars, senderVars, receiverVars, ChannelInv, Stamps, Stamped
<1>9. CASE update_connect_sender
  BY <1>9, EmptySeq DEF update_connect_sender, receiverVars, ChannelInv, Stamps, Stamped
<1>10. CASE update_connect_receiver
  BY <1>10 DEF update_connect_receiver, senderVars, ChannelInv, Stamps, Stamped
<1>. QED
  BY <1>1, <1>2, <1>3, <1>4, <1>5, <1>6, <1>7, <1>8, <1>9, <1>10 DEF Next
LEMMA PrefixStep ==
  ASSUME ChannelInv, NoWrap, [Next]_vars
  PROVE  Prefix'
<1>0. /\ sent \in Nat /\ sent <= MaxSend /\ MaxSend \in Nat /\ SeqMod \in Nat
      /\ MaxSend < SeqMod /\ Len(delivered) \in Nat
  BY ConstantsAssumption, LenProperties DEF ChannelInv, TypeOK, NoWrap
<1>1. CASE do_send_reliable
  BY <1>0, <1>1 DEF do_send_reliable, receiverVars, ChannelInv, Prefix
<1>2. ASSUME NEW expired \in SUBSET InFlight, update_outgoing_channel(expired)
      PROVE  Prefix'
  BY <1>2 DEF update_outgoing_channel, receiverVars, ChannelInv, Prefix
<1>3. ASSUME NEW expired \in SUBSET InFlight, NEW w \in Waiting,
             update_outgoing_channel_fail(expired, w)
      PROVE  Prefix'
  BY <1>3 DEF update_outgoing_channel_fail, receiverVars, ChannelInv, Prefix
<1>4. ASSUME NEW s \in acks, do_ack(s)
      PROVE  Prefix'
  BY <1>4 DEF do_ack, receiverVars, ChannelInv, Prefix
<1>5. ASSUME NEW p \in datagrams, handle_recieve_reliable(p)
      PROVE  Prefix'
  <2>1. p \in Packet /\ p.msg \in Nat /\ Stamped(p)
    BY <1>0 DEF ChannelInv, TypeOK, Stamps, Packet, Message
  <2>2. CASE UNCHANGED receiverVars
    BY <1>5, <2>2 DEF handle_recieve_reliable, senderVars, receiverVars, ChannelInv, Prefix
  <2>3. CASE /\ incoming_reliable_sequence = p.seq
             /\ incoming_reliable_sequence' = NextSeq(incoming_reliable_sequence)
             /\ delivered' = Append(delivered, p.msg)
    <3>1. p.msg = Len(delivered) + 1 /\ p.msg <= sent
      BY <1>0, <2>1, <2>3 DEF Stamped, ChannelInv, Prefix
    <3>2. /\ Len(delivered') = Len(delivered) + 1
          /\ \A i \in 1..Len(delivered) : delivered'[i] = delivered[i]
          /\ delivered'[Len(delivered) + 1] = p.msg
      BY <2>1, <2>3, AppendProperties DEF ChannelInv, TypeOK, Packet
    <3>3. p.msg \in SeqNum
      BY <1>0, <2>1, <3>1 DEF SeqNum
    <3>4. incoming_reliable_sequence' = Len(delivered')
      BY <2>3, <3>1, <3>2, <3>3, SeqNumFacts DEF NextSeq, ChannelInv, Prefix
    <3>5. \A i \in 1..Len(delivered') : delivered'[i] = i
      BY <1>0, <3>1, <3>2 DEF ChannelInv, Prefix
    <3>6. sent' = sent
      BY <1>5 DEF handle_recieve_reliable, senderVars
    <3>. QED
      BY <3>1, <3>2, <3>4, <3>5, <3>6 DEF Prefix
  <2>4. CASE UNCHANGED <<incoming_reliable_sequence, delivered, receiverUp>>
    BY <1>5, <2>4 DEF handle_recieve_reliable, senderVars, ChannelInv, Prefix
  <2>. QED
    BY <1>5, <2>2, <2>3, <2>4 DEF handle_recieve_reliable
<1>6. CASE update_incoming_channel
  <2>1. PICK s \in SeqNum \cup {SeqMod} : DeliverUpTo(s)
    BY <1>6 DEF update_incoming_channel
  <2>2. s \in Nat
    BY <1>0, SeqNumFacts
  <2>3. sent' = sent
    BY <1>6 DEF update_incoming_channel, senderVars
  <2>. QED
    BY <2>1, <2>2, <2>3, RunMessages DEF Prefix
<1>7. CASE update_incoming_channel_fail
  <2>1. PICK s \in SeqNum : DeliverUpTo(s)
    BY <1>7 DEF update_incoming_channel_fail
  <2>2. s \in Nat
    BY SeqNumFacts
  <2>3. sent' = sent
    BY <1>7 DEF update_incoming_channel_fail, senderVars
  <2>. QED
    BY <2>1, <2>2, <2>3, RunMessages DEF Prefix
<1>8. CASE UNCHANGED vars
  BY <1>8 DEF vars, senderVars, receiverVars, ChannelInv, Prefix
<1>9. CASE update_connect_sender
  BY <1>9 DEF update_connect_sender, receiverVars, ChannelInv, Prefix
<1>10. CASE update_connect_receiver
  BY <1>10 DEF update_connect_receiver, senderVars, ChannelInv, Prefix
<1>. QED
  BY <1>1, <1>2, <1>3, <1>4, <1>5, <1>6, <1>7, <1>8, <1>9, <1>10 DEF Next

\* A step that leaves the sender's lists alone keeps its half of Acknowledged, one
\* that leaves the receiver alone and adds no ack keeps the other half.
LEMMA AcknowledgedSame ==
  ASSUME ChannelInv, acks \subseteq acks'
  PROVE  /\ UNCHANGED <<sent, outgoing_reliable_list, wait_for_ack_list, senderUp>> =>
              (senderUp' =>
                 \A n \in 1..sent' : \/ n \in OutgoingMessages'
                                     \/ n \in WaitingMessages'
                                     \/ n - 1 \in acks')
         /\ UNCHANGED <<receiverVars, acks>> =>
              (receiverUp' => \A s \in acks' : s < incoming_reliable_sequence' \/ Buffered(s)')
BY DEF ChannelInv, Acknowledged, OutgoingMessages, WaitingMessages, receiverVars, Buffered

LEMMA AcknowledgedStep ==
  ASSUME ChannelInv, NoWrap, [Next]_vars
  PROVE  Acknowledged'
<1>0. /\ sent \in Nat /\ Len(outgoing_reliable_list) \in Nat
      /\ incoming_reliable_sequence \in Nat /\ acks \subseteq Nat
  BY ConstantsAssumption, LenProperties, SeqNumFacts DEF ChannelInv, TypeOK
<1>1. CASE do_send_reliable
  <2>. DEFINE new == [seq |-> outgoing_reliable_sequence, msg |-> sent + 1]
  <2>0. new \in Packet
    BY <1>0, <1>1, ConstantsAssumption
    DEF do_send_reliable, ChannelInv, TypeOK, Packet, Message
  <2>1. /\ Len(outgoing_reliable_list') = Len(outgoing_reliable_list) + 1
        /\ \A i \in 1..Len(outgoing_reliable_list) :
             outgoing_reliable_list'[i] = outgoing_reliable_list[i]
        /\ outgoing_reliable_list'[Len(outgoing_reliable_list) + 1] = new
    BY <1>1, <2>0, AppendProperties DEF do_send_reliable, ChannelInv, TypeOK
  <2>2. OutgoingMessages \cup {sent + 1} \subseteq OutgoingMessages'
    BY <1>0, <2>1 DEF OutgoingMessages
  <2>3. /\ WaitingMessages' = WaitingMessages /\ acks' = acks
        /\ senderUp' = senderUp /\ sent' = sent + 1 /\ UNCHANGED receiverVars
    BY <1>1 DEF do_send_reliable, WaitingMessages
  <2>. QED
    BY <1>0, <2>2, <2>3, AcknowledgedSame DEF ChannelInv, Acknowledged
<1>2. ASSUME NEW expired \in SUBSET InFlight, update_outgoing_channel(expired)
      PROVE  Acknowledged'
  <2>. DEFINE n == Admitted
  <2>0. TypeOK /\ n \in 0..Len(outgoing_reliable_list)
    BY AdmittedRange DEF ChannelInv
  <2>1. /\ Len(outgoing_reliable_list') = Len(outgoing_reliable_list) - n
        /\ \A i \in 1..Len(outgoing_reliable_list') :
             outgoing_reliable_list'[i] = outgoing_reliable_list[n + i]
    BY <1>2, <2>0, CutType DEF update_outgoing_channel
  <2>2. \A v \in Waiting : v.pkt.msg \in WaitingMessages'
    <3>1. ASSUME NEW v \in Waiting, v \notin Due(Waiting, expired)
          PROVE  v \in wait_for_ack_list'
      BY <1>2, <3>1 DEF update_outgoing_channel
    <3>2. ASSUME NEW v \in Waiting, v \in Due(Waiting, expired)
          PROVE  [v EXCEPT !.times = @ + 1] \in wait_for_ack_list'
      BY <1>2, <3>2 DEF update_outgoing_channel
    <3>3. \A v \in Waiting : [v EXCEPT !.times = @ + 1].pkt = v.pkt
      BY <2>0, WaitingType DEF WaitEntry
    <3>. QED
      BY <3>1, <3>2, <3>3 DEF WaitingMessages
  <2>3. ASSUME NEW i \in 1..Len(outgoing_reliable_list)
        PROVE  \/ outgoing_reliable_list[i].msg \in OutgoingMessages'
               \/ outgoing_reliable_list[i].msg \in WaitingMessages'
    <3>1. CASE i <= n
      <4>1. [pkt |-> outgoing_reliable_list[i], times |-> 0] \in Waiting
        BY <2>0, <3>1 DEF Waiting
      <4>. QED
        BY <2>2, <4>1
    <3>2. CASE i > n
      <4>. HIDE DEF n
      <4>1. i - n \in 1..Len(outgoing_reliable_list') /\ n + (i - n) = i
        BY <1>0, <2>0, <2>1, <3>2
      <4>2. outgoing_reliable_list'[i - n] = outgoing_reliable_list[i]
        BY <2>1, <4>1
      <4>. QED
        BY <4>1, <4>2 DEF OutgoingMessages
    <3>. QED
      BY <1>0, <2>0, <3>1, <3>2
  <2>4. \A w \in wait_for_ack_list : w.pkt.msg \in WaitingMessages'
    BY <2>2 DEF Waiting
  <2>5. UNCHANGED <<sent, senderUp, receiverVars, acks>>
    BY <1>2 DEF update_outgoing_channel
  <2>6. \A m \in 1..sent : m \in OutgoingMessages \/ m \in WaitingMessages =>
          m \in OutgoingMessages' \/ m \in WaitingMessages'
    BY <2>3, <2>4 DEF OutgoingMessages, WaitingMessages
  <2>7. receiverUp' => \A s \in acks' : s < incoming_reliable_sequence' \/ Buffered(s)'
    BY <2>5, AcknowledgedSame
  <2>8. senderUp' => \A m \in 1..sent' : m \in OutgoingMessages' \/ m \in WaitingMessages'
                                        \/ m - 1 \in acks'
    BY <2>5, <2>6 DEF ChannelInv, Acknowledged
  <2>. QED
    BY <2>7, <2>8 DEF Acknowledged
<1>3. ASSUME NEW expired \in SUBSET InFlight, NEW w \in Waiting,
             update_outgoing_channel_fail(expired, w)
      PROVE  Acknowledged'
  <2>1. ~senderUp' /\ UNCHANGED <<receiverVars, acks>>
    BY <1>3 DEF update_outgoing_channel_fail
  <2>. QED
    BY <2>1, AcknowledgedSame DEF Acknowledged
<1>4. ASSUME NEW s \in acks, do_ack(s)
      PROVE  Acknowledged'
  <2>1. PICK w \in wait_for_ack_list :
          w.pkt.seq = s /\ wait_for_ack_list' = wait_for_ack_list \ {w}
    BY <1>4 DEF do_ack
  <2>2. w.pkt.msg \in Nat /\ w.pkt.msg - 1 = s
    BY <2>1, ConstantsAssumption
    DEF ChannelInv, TypeOK, Stamps, Stamped, WaitEntry, Packet, Message
  <2>3. UNCHANGED <<sent, outgoing_reliable_list, senderUp, receiverVars, acks>>
    BY <1>4 DEF do_ack
  <2>4. \A m \in WaitingMessages : m \in WaitingMessages' \/ m = w.pkt.msg
    BY <2>1 DEF WaitingMessages
  <2>5. OutgoingMessages' = OutgoingMessages
    BY <2>3 DEF OutgoingMessages
  <2>. QED
    BY <2>2, <2>3, <2>4, <2>5, AcknowledgedSame DEF ChannelInv, Acknowledged
<1>5. ASSUME NEW p \in datagrams, handle_recieve_reliable(p)
      PROVE  Acknowledged'
  <2>1. p.seq \in Nat /\ p.seq \in SeqNum
    BY SeqNumFacts DEF ChannelInv, TypeOK, Packet
  <2>2. acks' = acks \cup {p.seq} /\ receiverUp /\ UNCHANGED senderVars
    BY <1>5 DEF handle_recieve_reliable
  <2>3. \A s \in acks : s < incoming_reliable_sequence \/ Buffered(s)
    BY <2>2 DEF ChannelInv, Acknowledged
  <2>4. \A s \in acks' : s < incoming_reliable_sequence' \/ Buffered(s)'
    <3>1. CASE AlreadyReceived(p) /\ UNCHANGED receiverVars
      BY <1>0, <2>1, <2>2, <2>3, <3>1 DEF AlreadyReceived, receiverVars, Buffered
    <3>2. CASE /\ incoming_reliable_sequence = p.seq
               /\ incoming_reliable_sequence' = NextSeq(incoming_reliable_sequence)
               /\ delivered' = Append(delivered, p.msg)
               /\ UNCHANGED <<incoming_reliable_list, receiverUp>>
      <4>1. p.seq + 1 <= sent /\ p.msg \in Nat
        BY <2>1, ConstantsAssumption
        DEF ChannelInv, TypeOK, Stamps, Stamped, Packet, Message
      <4>2. p.seq + 1 \in SeqNum
        BY <1>0, <2>1, <4>1, ConstantsAssumption DEF ChannelInv, TypeOK, SeqNum, NoWrap
      <4>3. incoming_reliable_sequence' = p.seq + 1
        BY <3>2, <4>2, SeqNumFacts DEF NextSeq
      <4>. QED
        BY <1>0, <2>1, <2>2, <2>3, <3>2, <4>3 DEF Buffered
    <3>3. CASE /\ incoming_reliable_list' = incoming_reliable_list \cup {p}
               /\ UNCHANGED <<incoming_reliable_sequence, delivered, receiverUp>>
      BY <2>2, <2>3, <3>3 DEF Buffered
    <3>. QED
      BY <1>5, <3>1, <3>2, <3>3 DEF handle_recieve_reliable
  <2>. QED
    BY <2>2, <2>4, AcknowledgedSame DEF Acknowledged, senderVars
<1>6. CASE update_incoming_channel
  <2>1. PICK s \in SeqNum \cup {SeqMod} :
          /\ ~Buffered(s)
          /\ DeliverUpTo(s)
          /\ incoming_reliable_list' = {p \in incoming_reliable_list : p.seq >= s}
    BY <1>6 DEF update_incoming_channel
  <2>2. s \in Nat
    BY SeqNumFacts, ConstantsAssumption
  <2>3. /\ incoming_reliable_sequence' = s /\ incoming_reliable_sequence <= s
        /\ s % SeqMod = s
    BY <2>1, <2>2, RunMessages DEF DeliverUpTo
  <2>4. UNCHANGED <<senderVars, receiverUp, acks>>
    BY <1>6 DEF update_incoming_channel
  <2>5. \A t \in acks : receiverUp => t < s \/ Buffered(t)'
    <3>1. \A p \in incoming_reliable_list : p.seq \in Nat
      BY SeqNumFacts DEF ChannelInv, TypeOK, Packet
    <3>. QED
      BY <1>0, <2>1, <2>2, <2>3, <3>1 DEF ChannelInv, Acknowledged, Buffered
  <2>. QED
    BY <2>3, <2>4, <2>5, AcknowledgedSame DEF Acknowledged, senderVars
<1>7. CASE update_incoming_channel_fail
  BY <1>7, AcknowledgedSame DEF update_incoming_channel_fail, Acknowledged, senderVars
<1>8. CASE UNCHANGED vars
  BY <1>8, AcknowledgedSame DEF vars, senderVars, Acknowledged
<1>9. CASE update_connect_sender
  BY <1>9, AcknowledgedSame DEF update_connect_sender, Acknowledged
<1>10. CASE update_connect_receiver
  BY <1>10, AcknowledgedSame DEF update_connect_receiver, Acknowledged, senderVars
<1>. QED
  BY <1>1, <1>2, <1>3, <1>4, <1>5, <1>6, <1>7, <1>8, <1>9, <1>10 DEF Next

\* The inductive invariant: stamps, delivered prefix and acknowledgements, in a
\* session in which no sequence number wraps.
THEOREM ChannelInvariant ==
  ASSUME NoWrap
  PROVE  Spec => []ChannelInv
<1>1. Init => ChannelInv
  <2>. SUFFICES ASSUME Init
                PROVE  ChannelInv
    OBVIOUS
  <2>1. TypeOK
    BY ConstantsAssumption, SeqNumFacts, EmptySeq DEF Init, TypeOK
  <2>2. Len(<<>>) = 0
    BY EmptySeq
  <2>. QED
    BY <2>1, <2>2 DEF Init, ChannelInv, Stamps, Prefix, Acknowledged
<1>2. ChannelInv /\ [Next]_vars => ChannelInv'
  BY TypeStep, StampsStep, PrefixStep, AcknowledgedStep DEF ChannelInv
<1>. QED
  BY <1>1, <1>2, PTL DEF Spec

\* Whatever the network loses, repeats or reorders, for every window and resend
\* limit: the messages delivered are the first ones accepted, once each, in order.
THEOREM InOrderDelivery ==
  ASSUME NoWrap
  PROVE  Spec => []InOrderOnce
<1>1. ChannelInv => InOrderOnce
  BY DEF ChannelInv, Prefix, InOrderOnce
<1>. QED
  BY <1>1, ChannelInvariant, PTL

LEMMA HeldSomewhere == ChannelInv => Custody
<1>. SUFFICES ASSUME ChannelInv, senderUp, receiverUp, NEW n \in 1..sent,
                     n \notin OutgoingMessages, n \notin WaitingMessages
              PROVE  n \in BufferedMessages \/ n \in DeliveredMessages
  BY DEF Custody
<1>1. n - 1 \in acks
  BY DEF ChannelInv, Acknowledged
<1>2. n \in Nat /\ Len(delivered) \in Nat /\ incoming_reliable_sequence = Len(delivered)
  BY LenProperties DEF ChannelInv, TypeOK, Prefix
<1>3. CASE n - 1 < incoming_reliable_sequence
  <2>1. n \in 1..Len(delivered) /\ delivered[n] = n
    BY <1>2, <1>3 DEF ChannelInv, Prefix
  <2>. QED
    BY <2>1 DEF DeliveredMessages
<1>4. CASE Buffered(n - 1)
  <2>1. PICK p \in incoming_reliable_list : p.seq = n - 1
    BY <1>4 DEF Buffered
  <2>2. p.msg \in Nat /\ Stamped(p)
    BY ConstantsAssumption DEF ChannelInv, TypeOK, Stamps, Packet, Message
  <2>3. p.msg = n
    BY <1>2, <2>1, <2>2 DEF Stamped
  <2>. QED
    BY <2>3 DEF BufferedMessages
<1>. QED
  BY <1>1, <1>3, <1>4 DEF ChannelInv, Acknowledged

\* No message accepted is lost while both peers live: the sender drops a packet only
\* on an ack, and an ack is sent only for a packet delivered or buffered.
THEOREM NothingLost ==
  ASSUME NoWrap
  PROVE  Spec => []Custody
BY ChannelInvariant, HeldSomewhere, PTL

\* Without a wrap the test of handle_recieve_reliable that takes a packet for an
\* old one is right.
THEOREM OldPacketsWereReceived ==
  ASSUME NoWrap
  PROVE  Spec => []OldMeansReceived
<1>1. ChannelInv => OldMeansReceived
  <2>. SUFFICES ASSUME ChannelInv, NEW p \in datagrams, AlreadyReceived(p)
                PROVE  p.msg \in DeliveredMessages
    BY DEF OldMeansReceived
  <2>1. p.msg \in Nat \ {0} /\ p.seq = p.msg - 1
    BY ConstantsAssumption DEF ChannelInv, TypeOK, Stamps, Stamped, Packet, Message
  <2>2. Len(delivered) \in Nat /\ incoming_reliable_sequence = Len(delivered)
    BY LenProperties DEF ChannelInv, TypeOK, Prefix
  <2>3. p.msg \in 1..Len(delivered)
    BY <2>1, <2>2 DEF AlreadyReceived
  <2>4. delivered[p.msg] = p.msg
    BY <2>3 DEF ChannelInv, Prefix
  <2>. QED
    BY <2>3, <2>4 DEF DeliveredMessages
<1>. QED
  BY <1>1, ChannelInvariant, PTL

-------------------------------------------------------------------------------
(* The window. *)

\* What one pass has in its waiting list are the messages that waited and the next
\* ones of the outgoing list, each once.
LEMMA WaitingOnce ==
  ASSUME WindowInv
  PROVE  LET base == sent - Len(outgoing_reliable_list)
         IN  /\ \A w \in Waiting : w.pkt.msg <= base + Admitted
             /\ \A v, w \in Waiting : v.pkt.msg = w.pkt.msg => v = w
             /\ {w.pkt.msg : w \in Waiting} =
                  WaitingMessages \cup ((base + 1)..(base + Admitted))
<1>. DEFINE n == Admitted
            base == sent - Len(outgoing_reliable_list)
            Entry(i) == [pkt |-> outgoing_reliable_list[i], times |-> 0]
<1>1. /\ sent \in Int /\ Len(outgoing_reliable_list) \in Nat
      /\ base \in Int /\ n \in 0..Len(outgoing_reliable_list)
  BY AdmittedRange, ConstantsAssumption, LenProperties DEF WindowInv, TypeOK
<1>2. Waiting = wait_for_ack_list \cup {Entry(i) : i \in 1..n}
  BY DEF Waiting
<1>3. \A w \in wait_for_ack_list : w.pkt.msg \in Int /\ w.pkt.msg <= base
  BY ConstantsAssumption DEF WindowInv, TypeOK, Queue, WaitEntry, Packet, Message
<1>4. \A i \in 1..n : Entry(i).pkt.msg = base + i
  BY <1>1 DEF WindowInv, Queue
<1>5. \A v, w \in wait_for_ack_list : v.pkt.msg = w.pkt.msg => v = w
  BY DEF WindowInv, Queue
<1>. HIDE DEF n, base, Entry
<1>6. \A w \in Waiting : w.pkt.msg <= base + n
  BY <1>1, <1>2, <1>3, <1>4
<1>7. \A v, w \in Waiting : v.pkt.msg = w.pkt.msg => v = w
  <2>. SUFFICES ASSUME NEW v \in Waiting, NEW w \in Waiting, v.pkt.msg = w.pkt.msg
                PROVE  v = w
    OBVIOUS
  <2>1. CASE v \in wait_for_ack_list /\ w \in wait_for_ack_list
    BY <1>5, <2>1
  <2>2. ASSUME NEW i \in 1..n, v = Entry(i), w \in wait_for_ack_list
        PROVE  FALSE
    BY <1>1, <1>3, <1>4, <2>2
  <2>3. ASSUME NEW i \in 1..n, w = Entry(i), v \in wait_for_ack_list
        PROVE  FALSE
    BY <1>1, <1>3, <1>4, <2>3
  <2>4. ASSUME NEW i \in 1..n, NEW j \in 1..n, v = Entry(i), w = Entry(j)
        PROVE  v = w
    <3>1. i = j
      BY <1>1, <1>4, <2>4
    <3>. QED
      BY <2>4, <3>1
  <2>. QED
    BY <1>2, <2>1, <2>2, <2>3, <2>4
<1>8. {w.pkt.msg : w \in Waiting} = WaitingMessages \cup ((base + 1)..(base + n))
  <2>1. (base + 1)..(base + n) = {base + i : i \in 1..n}
    <3>1. ASSUME NEW m \in (base + 1)..(base + n)
          PROVE  m - base \in 1..n /\ m = base + (m - base)
      BY <1>1
    <3>. QED
      BY <1>1, <3>1
  <2>2. {w.pkt.msg : w \in Waiting} = WaitingMessages \cup {Entry(i).pkt.msg : i \in 1..n}
    BY <1>2 DEF WaitingMessages
  <2>. QED
    BY <1>4, <2>1, <2>2
<1>. QED
  BY <1>6, <1>7, <1>8 DEF n, base

\* The pass changes no packet of its waiting list, and repeats none.
LEMMA UpdateWaiting ==
  ASSUME WindowInv, NEW expired \in SUBSET InFlight, update_outgoing_channel(expired)
  PROVE  /\ \A v \in wait_for_ack_list' : \E w \in Waiting : v.pkt = w.pkt
         /\ \A v, w \in wait_for_ack_list' : v.pkt.msg = w.pkt.msg => v = w
         /\ WaitingMessages' = {w.pkt.msg : w \in Waiting}
<1>. DEFINE due == Due(Waiting, expired)
            Resent(w) == [w EXCEPT !.times = @ + 1]
            After(w) == IF w \in due THEN Resent(w) ELSE w
<1>1. wait_for_ack_list' = (Waiting \ due) \cup {Resent(w) : w \in due}
  BY DEF update_outgoing_channel
<1>2. due \subseteq Waiting
  BY DEF Due
<1>3. \A w \in Waiting : Resent(w).pkt = w.pkt
  BY WaitingType DEF WindowInv, WaitEntry
<1>. HIDE DEF due, Resent
<1>4. wait_for_ack_list' = {After(w) : w \in Waiting}
  BY <1>1, <1>2, Zenon
<1>5. \A w \in Waiting : After(w).pkt = w.pkt
  BY <1>3
<1>6. \A v, w \in Waiting : v.pkt.msg = w.pkt.msg => v = w
  BY WaitingOnce
<1>. HIDE DEF After
<1>7. \A v \in wait_for_ack_list' : \E w \in Waiting : v = After(w)
  BY <1>4
<1>8. \A v, w \in wait_for_ack_list' : v.pkt.msg = w.pkt.msg => v = w
  BY <1>5, <1>6, <1>7
<1>9. WaitingMessages' = {w.pkt.msg : w \in Waiting}
  BY <1>4, <1>5 DEF WaitingMessages
<1>. QED
  BY <1>5, <1>7, <1>8, <1>9

LEMMA WindowStep ==
  ASSUME WindowInv, [Next]_vars
  PROVE  WindowInv'
<1>. DEFINE base == sent - Len(outgoing_reliable_list)
<1>0. /\ TypeOK /\ TypeOK' /\ sent \in Int /\ Len(outgoing_reliable_list) \in Nat
      /\ cu_send_window_size \in Int /\ WindowSize \in Nat /\ base \in Int
  BY TypeStep, ConstantsAssumption, LenProperties DEF WindowInv, TypeOK
<1>1. CASE do_send_reliable
  <2>. DEFINE new == [seq |-> outgoing_reliable_sequence, msg |-> sent + 1]
  <2>1. new \in Packet
    BY <1>0, <1>1, ConstantsAssumption DEF do_send_reliable, TypeOK, Packet, Message
  <2>2. /\ Len(outgoing_reliable_list') = Len(outgoing_reliable_list) + 1
        /\ \A i \in 1..Len(outgoing_reliable_list) :
             outgoing_reliable_list'[i] = outgoing_reliable_list[i]
        /\ outgoing_reliable_list'[Len(outgoing_reliable_list) + 1] = new
    BY <1>0, <1>1, <2>1, AppendProperties DEF do_send_reliable, TypeOK
  <2>3. sent' = sent + 1 /\ UNCHANGED <<wait_for_ack_list, cu_send_window_size>>
    BY <1>1 DEF do_send_reliable
  <2>4. new.msg = sent + 1
    OBVIOUS
  <2>. HIDE DEF new
  <2>5. \A i \in 1..Len(outgoing_reliable_list') :
          outgoing_reliable_list'[i].msg = sent' - Len(outgoing_reliable_list') + i
    <3>1. \A i \in 1..Len(outgoing_reliable_list) :
            outgoing_reliable_list[i].msg = sent - Len(outgoing_reliable_list) + i
      BY DEF WindowInv, Queue
    <3>2. SUFFICES ASSUME NEW i \in 1..(Len(outgoing_reliable_list) + 1)
                   PROVE  outgoing_reliable_list'[i].msg =
                            sent' - Len(outgoing_reliable_list') + i
      BY <2>2
    <3>3. CASE i = Len(outgoing_reliable_list) + 1
      BY <1>0, <2>2, <2>3, <2>4, <3>3
    <3>4. CASE i \in 1..Len(outgoing_reliable_list)
      <4>1. outgoing_reliable_list'[i].msg = sent - Len(outgoing_reliable_list) + i
        BY <2>2, <3>1, <3>4
      <4>. QED
        BY <1>0, <2>2, <2>3, <4>1
    <3>. QED
      BY <1>0, <3>3, <3>4
  <2>6. sent' - Len(outgoing_reliable_list') = base
    BY <1>0, <2>2, <2>3
  <2>7. Queue'
    BY <2>3, <2>5, <2>6 DEF WindowInv, Queue
  <2>. QED
    BY <1>0, <2>3, <2>7 DEF WindowInv, WaitingMessages
<1>2. ASSUME NEW expired \in SUBSET InFlight, update_outgoing_channel(expired)
      PROVE  WindowInv'
  <2>. DEFINE n == Admitted
  <2>1. /\ n \in 0..Len(outgoing_reliable_list)
        /\ cu_send_window_size + n <= WindowSize
    BY <1>0, AdmittedRange DEF WindowInv
  <2>2. /\ Len(outgoing_reliable_list') = Len(outgoing_reliable_list) - n
        /\ \A i \in 1..Len(outgoing_reliable_list') :
             outgoing_reliable_list'[i] = outgoing_reliable_list[n + i]
    BY <1>0, <1>2, <2>1, CutType DEF update_outgoing_channel
  <2>3. sent' = sent /\ cu_send_window_size' = cu_send_window_size + n
    BY <1>2 DEF update_outgoing_channel
  <2>4. /\ \A w \in Waiting : w.pkt.msg <= base + n
        /\ {w.pkt.msg : w \in Waiting} = WaitingMessages \cup ((base + 1)..(base + n))
    BY WaitingOnce
  <2>5. \A m \in WaitingMessages : m <= base
    BY DEF WindowInv, Queue, WaitingMessages
  <2>. HIDE DEF n, base
  <2>6. sent' - Len(outgoing_reliable_list') = base + n
    BY <1>0, <2>1, <2>2, <2>3 DEF base
  <2>7. \A i \in 1..Len(outgoing_reliable_list') :
          outgoing_reliable_list'[i].msg = (base + n) + i
    <3>1. ASSUME NEW i \in 1..Len(outgoing_reliable_list')
          PROVE  n + i \in 1..Len(outgoing_reliable_list) /\ base + (n + i) = (base + n) + i
      BY <1>0, <2>1, <2>2
    <3>2. \A i \in 1..Len(outgoing_reliable_list) :
            outgoing_reliable_list[i].msg = base + i
      BY DEF WindowInv, Queue, base
    <3>. QED
      BY <2>2, <3>1, <3>2
  <2>8. Queue'
    <3>1. \A v \in wait_for_ack_list' : v.pkt.msg <= base + n
      BY <1>2, <2>4, UpdateWaiting
    <3>2. \A v, w \in wait_for_ack_list' : v.pkt.msg = w.pkt.msg => v = w
      BY <1>2, UpdateWaiting
    <3>. QED
      BY <2>6, <2>7, <3>1, <3>2 DEF Queue
  <2>9. WaitingMessages' = WaitingMessages \cup ((base + 1)..(base + n))
    BY <1>2, <2>4, UpdateWaiting
  <2>10. /\ IsFiniteSet((base + 1)..(base + n))
         /\ Cardinality((base + 1)..(base + n)) = n
    <3>1. base + 1 \in Int /\ base + n \in Int
      BY <1>0, <2>1
    <3>2. /\ IsFiniteSet((base + 1)..(base + n))
          /\ Cardinality((base + 1)..(base + n)) =
               IF base + 1 > base + n THEN 0 ELSE (base + n) - (base + 1) + 1
      BY <3>1, FS_Interval
    <3>. QED
      BY <1>0, <2>1, <3>2
  <2>11. WaitingMessages \cap ((base + 1)..(base + n)) = {}
    BY <1>0, <2>1, <2>5
  <2>12. /\ IsFiniteSet(WaitingMessages')
         /\ Cardinality(WaitingMessages') = Cardinality(WaitingMessages) + n
    <3>1. IsFiniteSet(WaitingMessages)
      BY DEF WindowInv
    <3>2. Cardinality(WaitingMessages) \in Nat
      BY <3>1, FS_CardinalityType
    <3>. DEFINE new == (base + 1)..(base + n)
    <3>3. /\ IsFiniteSet(new) /\ Cardinality(new) = n
          /\ WaitingMessages' = WaitingMessages \cup new
          /\ WaitingMessages \cap new = {}
      BY <2>9, <2>10, <2>11
    <3>. HIDE DEF new
    <3>4. /\ IsFiniteSet(WaitingMessages \cup new)
          /\ Cardinality(WaitingMessages \cup new) =
               Cardinality(WaitingMessages) + Cardinality(new)
                 - Cardinality(WaitingMessages \cap new)
      BY <3>1, <3>3, FS_Union
    <3>5. Cardinality(WaitingMessages \cap new) = 0
      BY <3>3, FS_EmptySet
    <3>. QED
      BY <2>1, <3>2, <3>3, <3>4, <3>5
  <2>. QED
    BY <1>0, <2>1, <2>3, <2>8, <2>12 DEF WindowInv
<1>3. ASSUME ~senderUp', outgoing_reliable_list' = <<>>, wait_for_ack_list' = {},
             cu_send_window_size' = 0
      PROVE  WindowInv'
  <2>1. Queue'
    BY <1>3, EmptySeq DEF Queue
  <2>2. WaitingMessages' = {}
    BY <1>3 DEF WaitingMessages
  <2>. QED
    BY <1>0, <1>3, <2>1, <2>2, FS_EmptySet DEF WindowInv
<1>4. ASSUME NEW s \in acks, do_ack(s)
      PROVE  WindowInv'
  <2>1. PICK w \in wait_for_ack_list : wait_for_ack_list' = wait_for_ack_list \ {w}
    BY <1>4 DEF do_ack
  <2>2. /\ UNCHANGED <<sent, outgoing_reliable_list>>
        /\ cu_send_window_size' = cu_send_window_size - 1
    BY <1>4 DEF do_ack
  <2>3. Queue'
    BY <2>1, <2>2 DEF WindowInv, Queue
  <2>4. WaitingMessages' = WaitingMessages \ {w.pkt.msg} /\ w.pkt.msg \in WaitingMessages
    BY <2>1 DEF WindowInv, Queue, WaitingMessages
  <2>5. /\ IsFiniteSet(WaitingMessages')
        /\ Cardinality(WaitingMessages') = Cardinality(WaitingMessages) - 1
    BY <2>4, FS_RemoveElement DEF WindowInv
  <2>. QED
    BY <1>0, <2>2, <2>3, <2>5 DEF WindowInv
<1>5. ASSUME UNCHANGED <<sent, outgoing_reliable_list, wait_for_ack_list,
                         cu_send_window_size>>
      PROVE  WindowInv'
  BY <1>0, <1>5 DEF WindowInv, Queue, WaitingMessages
<1>6. ASSUME NEW expired \in SUBSET InFlight, NEW w \in Waiting,
             update_outgoing_channel_fail(expired, w)
      PROVE  WindowInv'
  BY <1>3, <1>6 DEF update_outgoing_channel_fail
<1>7. CASE update_connect_sender
  BY <1>3, <1>7 DEF update_connect_sender
<1>8. CASE \/ \E p \in datagrams : handle_recieve_reliable(p)
           \/ update_incoming_channel
           \/ update_incoming_channel_fail
           \/ update_connect_receiver
           \/ UNCHANGED vars
  BY <1>5, <1>8
  DEF handle_recieve_reliable, update_incoming_channel, update_incoming_channel_fail,
      update_connect_receiver, vars, senderVars
<1>. QED
  BY <1>1, <1>2, <1>4, <1>6, <1>7, <1>8 DEF Next

\* The send window is exact: its counter is the length of the waiting list, which
\* never exceeds the window, for every window and even when sequence numbers wrap.
THEOREM WindowIsExact == Spec => []WindowExact
<1>1. Init => WindowInv
  <2>. SUFFICES ASSUME Init
                PROVE  WindowInv
    OBVIOUS
  <2>1. TypeOK
    BY ConstantsAssumption, SeqNumFacts, EmptySeq DEF Init, TypeOK
  <2>2. Queue
    BY EmptySeq DEF Init, Queue
  <2>3. WaitingMessages = {}
    BY DEF Init, WaitingMessages
  <2>. QED
    BY <2>1, <2>2, <2>3, FS_EmptySet, ConstantsAssumption DEF Init, WindowInv
<1>2. WindowInv /\ [Next]_vars => WindowInv'
  BY WindowStep
<1>3. WindowInv => WindowExact
  <2>. SUFFICES ASSUME WindowInv
                PROVE  WindowExact
    OBVIOUS
  <2>. DEFINE f == [w \in wait_for_ack_list |-> w.pkt.msg]
  <2>1. f \in Bijection(wait_for_ack_list, WaitingMessages)
    BY DEF WindowInv, Queue, WaitingMessages, Bijection, Injection, Surjection, IsInjective
  <2>2. \E g : g \in Bijection(WaitingMessages, wait_for_ack_list)
    BY <2>1, Fun_BijInverse
  <2>3. Cardinality(wait_for_ack_list) = Cardinality(WaitingMessages)
    BY <2>2, FS_Bijection DEF WindowInv, ExistsBijection
  <2>. QED
    BY <2>3 DEF WindowInv, WindowExact
<1>. QED
  BY <1>1, <1>2, <1>3, PTL DEF Spec

-------------------------------------------------------------------------------
(* The channel implements the stream. *)

\* A step of a live receiver that delivers more, and keeps the invariant, delivers
\* the next messages of the stream.
LEMMA DeliversNext ==
  ASSUME ChannelInv, TypeOK', Prefix', receiverUp, sent' = sent, senderUp' = senderUp,
         Len(delivered) <= Len(delivered')
  PROVE  Stream!ReceiverStep
<1>. DEFINE k == Len(delivered') - Len(delivered)
            longer == [i \in 1..(Len(delivered) + k) |->
                         IF i <= Len(delivered) THEN delivered[i] ELSE i]
<1>1. /\ sent \in Nat /\ Len(delivered) \in Nat /\ Len(delivered') \in Nat
      /\ Len(delivered') <= sent
  BY ConstantsAssumption, LenProperties DEF ChannelInv, TypeOK, Prefix
<1>2. k \in 0..sent /\ Len(delivered) + k = Len(delivered')
  BY <1>1
<1>3. delivered' = [i \in 1..Len(delivered') |-> delivered'[i]]
  BY LenProperties DEF TypeOK
<1>4. \A i \in 1..Len(delivered') : delivered'[i] = longer[i]
  BY <1>1, <1>2 DEF ChannelInv, Prefix
<1>5. delivered' = longer
  BY <1>2, <1>3, <1>4
<1>6. Stream!Deliver(k)
  BY <1>1, <1>2, <1>5 DEF Stream!Deliver
<1>. QED
  BY <1>2, <1>6 DEF Stream!ReceiverStep, TypeOK

LEMMA StreamStep ==
  ASSUME ChannelInv, NoWrap, [Next]_vars
  PROVE  [Stream!StreamNext]_(Stream!streamVars)
<1>. USE DEF Stream!StreamNext, Stream!streamVars
<1>0. TypeOK' /\ Prefix' /\ Len(delivered) \in Nat
  BY TypeStep, PrefixStep, LenProperties DEF ChannelInv, TypeOK
<1>1. CASE do_send_reliable
  BY <1>1 DEF do_send_reliable, receiverVars, Stream!Accept
<1>2. ASSUME NEW expired \in SUBSET InFlight, update_outgoing_channel(expired)
      PROVE  UNCHANGED Stream!streamVars
  BY <1>2 DEF update_outgoing_channel, receiverVars
<1>3. ASSUME NEW expired \in SUBSET InFlight, NEW w \in Waiting,
             update_outgoing_channel_fail(expired, w)
      PROVE  Stream!SenderGivesUp
  BY <1>3 DEF update_outgoing_channel_fail, receiverVars, Stream!SenderGivesUp
<1>4. ASSUME NEW s \in acks, do_ack(s)
      PROVE  UNCHANGED Stream!streamVars
  BY <1>4 DEF do_ack, receiverVars
<1>5. ASSUME NEW p \in datagrams, handle_recieve_reliable(p)
      PROVE  Stream!ReceiverStep
  <2>1. p.msg \in Message
    BY DEF ChannelInv, TypeOK, Packet
  <2>2. Len(delivered) <= Len(delivered')
    <3>1. delivered' \in {delivered, Append(delivered, p.msg)}
      BY <1>5 DEF handle_recieve_reliable, receiverVars
    <3>2. Len(Append(delivered, p.msg)) = Len(delivered) + 1
      BY <2>1, AppendProperties DEF ChannelInv, TypeOK
    <3>. QED
      BY <1>0, <3>1, <3>2
  <2>. QED
    BY <1>0, <1>5, <2>2, DeliversNext DEF handle_recieve_reliable, senderVars
<1>6. CASE update_incoming_channel
  <2>1. PICK s \in SeqNum \cup {SeqMod} : DeliverUpTo(s)
    BY <1>6 DEF update_incoming_channel
  <2>2. s \in Nat
    BY SeqNumFacts, ConstantsAssumption
  <2>3. Len(delivered) <= Len(delivered')
    BY <2>1, <2>2, RunMessages DEF ChannelInv, Prefix
  <2>. QED
    BY <1>0, <1>6, <2>3, DeliversNext DEF update_incoming_channel, senderVars
<1>7. CASE update_incoming_channel_fail
  <2>1. PICK s \in SeqNum : DeliverUpTo(s)
    BY <1>7 DEF update_incoming_channel_fail
  <2>2. s \in Nat
    BY SeqNumFacts
  <2>3. Len(delivered) <= Len(delivered')
    BY <2>1, <2>2, RunMessages DEF ChannelInv, Prefix
  <2>. QED
    BY <1>0, <1>7, <2>3, DeliversNext DEF update_incoming_channel_fail, senderVars
<1>8. CASE UNCHANGED vars
  BY <1>8 DEF vars, senderVars, receiverVars
<1>9. CASE update_connect_sender
  BY <1>9 DEF update_connect_sender, receiverVars, Stream!SenderGivesUp
<1>10. CASE update_connect_receiver
  BY <1>0, <1>10, DeliversNext DEF update_connect_receiver, senderVars
<1>. QED
  BY <1>1, <1>2, <1>3, <1>4, <1>5, <1>6, <1>7, <1>8, <1>9, <1>10 DEF Next

\* Every step of the sender, the receiver and the network is a step of the FIFO
\* stream of ReliableStream or leaves it unchanged.
THEOREM ChannelImplementsStream ==
  ASSUME NoWrap
  PROVE  Spec => ImplementsStream
<1>1. Init => Stream!StreamInit
  BY DEF Init, Stream!StreamInit
<1>2. ChannelInv /\ [Next]_vars => [Stream!StreamNext]_(Stream!streamVars)
  BY StreamStep
<1>. QED
  BY <1>1, <1>2, ChannelInvariant, PTL DEF Spec, ImplementsStream, Stream!StreamSpec
===============================================================================
