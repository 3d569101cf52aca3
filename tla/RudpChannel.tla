------------------------------ MODULE RudpChannel ------------------------------
(***************************************************************************)
(* One direction of one channel of a connection of gv_reliable_udp_server: *)
(* the sending gv_rudp_channel, the receiving gv_rudp_channel and the UDP  *)
(* network between them, while both peers are connected.                   *)
(*                                                                         *)
(* A message is its number in the order of the calls of do_send_reliable;  *)
(* a packet carries the message and the 32-bit m_sequence_number the       *)
(* sender stamped on it.  The network is the set of datagrams ever sent:   *)
(* one that is never received is lost, one received twice was duplicated,  *)
(* and the order in which they are received is free.                       *)
(*                                                                         *)
(* m_outgoing_reliable_wait_for_ack_list and m_incoming_reliable_list are  *)
(* sets: the code keeps both ordered by sequence number, so the order      *)
(* carries no information, and a duplicate entry of the incoming list is   *)
(* erased by the same walk that delivers its twin.                         *)
(***************************************************************************)
EXTENDS Integers, Sequences, FiniteSets

CONSTANTS
  MaxSend,      \* bound: messages the user sends
  WindowSize,   \* gvc_rudp_default_window_size (8)
  MaxResend,    \* gvc_max_resend_times (30)
  SeqMod        \* the values of a gv_uint sequence number (2^32)

ASSUME ConstantsAssumption ==
  /\ MaxSend \in Nat
  /\ WindowSize \in Nat \ {0}
  /\ MaxResend \in Nat
  /\ SeqMod \in Nat \ {0}

VARIABLES
  sent,                           \* messages accepted by do_send_reliable so far
  outgoing_reliable_sequence,
  outgoing_reliable_list,
  wait_for_ack_list,              \* entries [pkt, times]: times is m_resend_times
  cu_send_window_size,
  senderUp,                       \* the sending peer has not been destroyed
  incoming_reliable_sequence,
  incoming_reliable_list,
  delivered,                      \* messages of the receive events, in order
  receiverUp,                     \* the receiving peer has not been destroyed
  datagrams,                      \* data packets ever put on the network
  acks                            \* sequence numbers of the acks ever sent

senderVars ==
  <<sent, outgoing_reliable_sequence, outgoing_reliable_list, wait_for_ack_list,
    cu_send_window_size, senderUp>>
receiverVars ==
  <<incoming_reliable_sequence, incoming_reliable_list, delivered, receiverUp>>
vars == <<senderVars, receiverVars, datagrams, acks>>

SeqNum == 0..(SeqMod - 1)
Message == 1..MaxSend
Packet == [seq : SeqNum, msg : Message]
WaitEntry == [pkt : Packet, times : 0..(MaxResend + 1)]

NextSeq(s) == (s + 1) % SeqMod

TypeOK ==
  /\ sent \in 0..MaxSend
  /\ outgoing_reliable_sequence \in SeqNum
  /\ outgoing_reliable_list \in Seq(Packet)
  /\ wait_for_ack_list \in SUBSET WaitEntry
  /\ cu_send_window_size \in Int
  /\ senderUp \in BOOLEAN
  /\ incoming_reliable_sequence \in SeqNum
  /\ incoming_reliable_list \in SUBSET Packet
  /\ delivered \in Seq(Message)
  /\ receiverUp \in BOOLEAN
  /\ datagrams \in SUBSET Packet
  /\ acks \in SUBSET SeqNum

Init ==
  /\ sent = 0
  /\ outgoing_reliable_sequence = 0
  /\ outgoing_reliable_list = <<>>
  /\ wait_for_ack_list = {}
  /\ cu_send_window_size = 0
  /\ senderUp = TRUE
  /\ incoming_reliable_sequence = 0
  /\ incoming_reliable_list = {}
  /\ delivered = <<>>
  /\ receiverUp = TRUE
  /\ datagrams = {}
  /\ acks = {}

-------------------------------------------------------------------------------
(* The sender. *)

\* The user's packet is stamped with the next sequence number and queued.
do_send_reliable ==
  /\ senderUp
  /\ sent < MaxSend
  /\ sent' = sent + 1
  /\ outgoing_reliable_sequence' = NextSeq(outgoing_reliable_sequence)
  /\ outgoing_reliable_list' =
       Append(outgoing_reliable_list,
              [seq |-> outgoing_reliable_sequence, msg |-> sent + 1])
  /\ UNCHANGED <<wait_for_ack_list, cu_send_window_size, senderUp,
                 receiverVars, datagrams, acks>>

\* Mutant: the window is ignored.
AdmittedUnbounded == Len(outgoing_reliable_list)

\* update_outgoing_channel: how many packets the window lets through now.
Admitted ==
  LET room == WindowSize - cu_send_window_size
  IN  IF room < Len(outgoing_reliable_list)
      THEN IF room > 0 THEN room ELSE 0
      ELSE Len(outgoing_reliable_list)

\* The waiting list after update_outgoing_channel moved those packets to it.
Waiting ==
  wait_for_ack_list \cup
    {[pkt |-> outgoing_reliable_list[i], times |-> 0] : i \in 1..Admitted}

\* Mutant: one resend too many.
ExhaustedLate(w) == w.times > MaxResend + 1

Exhausted(w) == w.times > MaxResend

\* Mutant: a packet is sent once only.
DueOnce(walked, expired) == {w \in walked : w.times = 0}

\* The packets the walk of update_outgoing_channel_ack sends: those never sent
\* and those whose resend timer has run out (expired).
Due(walked, expired) == {w \in walked : w.times = 0 \/ w.pkt \in expired}

\* One pass of gv_rudp_peer::update over the sending side.
update_outgoing_channel(expired) ==
  LET due == Due(Waiting, expired)
  IN  /\ senderUp
      /\ \A w \in Waiting : ~Exhausted(w)
      /\ outgoing_reliable_list' =
           SubSeq(outgoing_reliable_list, Admitted + 1, Len(outgoing_reliable_list))
      /\ cu_send_window_size' = cu_send_window_size + Admitted
      /\ wait_for_ack_list' =
           (Waiting \ due) \cup {[w EXCEPT !.times = @ + 1] : w \in due}
      /\ datagrams' = datagrams \cup {w.pkt : w \in due}
      /\ UNCHANGED <<sent, outgoing_reliable_sequence, senderUp, receiverVars, acks>>

\* The same pass when its walk reaches a packet w that was resent too often or
\* that waited longer than gvc_very_long_time_out: update returns false and
\* update_peers destroys the peer.  The packets before w have been sent.
update_outgoing_channel_fail(expired, w) ==
  /\ senderUp
  /\ w \in Waiting
  /\ \A v \in Waiting : Exhausted(v) => w.pkt.msg <= v.pkt.msg
  /\ datagrams' = datagrams \cup
       {v.pkt : v \in Due({u \in Waiting : u.pkt.msg < w.pkt.msg}, expired)}
  /\ senderUp' = FALSE
  /\ outgoing_reliable_list' = <<>>
  /\ wait_for_ack_list' = {}
  /\ cu_send_window_size' = 0
  /\ UNCHANGED <<sent, outgoing_reliable_sequence, receiverVars, acks>>

\* An ack arrives: the first waiting packet with that number is released.
\* An ack that matches no waiting packet changes nothing.
do_ack(s) ==
  /\ senderUp
  /\ \E w \in wait_for_ack_list :
       /\ w.pkt.seq = s
       /\ \A v \in wait_for_ack_list : v.pkt.seq = s => w.pkt.msg <= v.pkt.msg
       /\ wait_for_ack_list' = wait_for_ack_list \ {w}
  /\ cu_send_window_size' = cu_send_window_size - 1
  /\ UNCHANGED <<sent, outgoing_reliable_sequence, outgoing_reliable_list, senderUp,
                 receiverVars, datagrams, acks>>

-------------------------------------------------------------------------------
(* The receiver. *)

\* Mutant: the awaited packet is taken for an old one.
AlreadyReceivedOrAwaited(p) == incoming_reliable_sequence >= p.seq

AlreadyReceived(p) == incoming_reliable_sequence > p.seq

\* handle_recieve_reliable: acknowledge an old packet, deliver the awaited one,
\* keep an early one; every case sends an ack.
handle_recieve_reliable(p) ==
  /\ receiverUp
  /\ acks' = acks \cup {p.seq}
  /\ \/ /\ AlreadyReceived(p)
        /\ UNCHANGED receiverVars
     \/ /\ ~AlreadyReceived(p)
        /\ incoming_reliable_sequence = p.seq
        /\ incoming_reliable_sequence' = NextSeq(incoming_reliable_sequence)
        /\ delivered' = Append(delivered, p.msg)
        /\ UNCHANGED <<incoming_reliable_list, receiverUp>>
     \/ /\ ~AlreadyReceived(p)
        /\ incoming_reliable_sequence # p.seq
        /\ incoming_reliable_list' = incoming_reliable_list \cup {p}
        /\ UNCHANGED <<incoming_reliable_sequence, delivered, receiverUp>>
  /\ UNCHANGED <<senderVars, datagrams>>

Buffered(s) == \E p \in incoming_reliable_list : p.seq = s

\* The message update_incoming_channel delivers when it awaits number s.
MessageOf(s) == (CHOOSE p \in incoming_reliable_list : p.seq = s).msg

\* The walk of update_incoming_channel awaits number s after delivering the
\* buffered run that starts at the awaited number.
Reached(s) ==
  /\ s \in incoming_reliable_sequence..SeqMod
  /\ \A t \in incoming_reliable_sequence..(s - 1) : Buffered(t)

\* Mutant: the walk delivers without advancing the awaited number.
DeliverWithoutAdvancing(s) ==
  /\ Reached(s)
  /\ UNCHANGED incoming_reliable_sequence
  /\ delivered' = delivered \o
       [i \in 1..(s - incoming_reliable_sequence) |->
          MessageOf(incoming_reliable_sequence + i - 1)]

\* Mutant: the walk advances the awaited number one too far.
DeliverOneTooFar(s) ==
  /\ Reached(s)
  /\ incoming_reliable_sequence' = (s + 1) % SeqMod
  /\ delivered' = delivered \o
       [i \in 1..(s - incoming_reliable_sequence) |->
          MessageOf(incoming_reliable_sequence + i - 1)]

\* Mutant: the incoming list is sorted the wrong way round.
DeliverReversed(s) ==
  /\ Reached(s)
  /\ incoming_reliable_sequence' = s % SeqMod
  /\ delivered' = delivered \o
       [i \in 1..(s - incoming_reliable_sequence) |-> MessageOf(s - i)]

\* Delivering that run up to, and not including, number s.
DeliverUpTo(s) ==
  /\ Reached(s)
  /\ incoming_reliable_sequence' = s % SeqMod
  /\ delivered' = delivered \o
       [i \in 1..(s - incoming_reliable_sequence) |->
          MessageOf(incoming_reliable_sequence + i - 1)]

\* One pass of gv_rudp_peer::update over the receiving side: deliver the whole
\* run, erase what is delivered or older.
update_incoming_channel ==
  /\ receiverUp
  /\ \E s \in SeqNum \cup {SeqMod} :
       /\ ~Buffered(s)
       /\ DeliverUpTo(s)
       /\ incoming_reliable_list' = {p \in incoming_reliable_list : p.seq >= s}
  /\ UNCHANGED <<senderVars, receiverUp, datagrams, acks>>

\* The same pass when the walk reaches a buffered packet that waited longer than
\* gvc_very_long_time_out: update_peers destroys the peer, and what the walk
\* delivered before stays delivered.
update_incoming_channel_fail ==
  /\ receiverUp
  /\ \E s \in SeqNum :
       /\ \E p \in incoming_reliable_list : p.seq >= s
       /\ DeliverUpTo(s)
  /\ receiverUp' = FALSE
  /\ incoming_reliable_list' = {}
  /\ UNCHANGED <<senderVars, datagrams, acks>>

-------------------------------------------------------------------------------
(* update_connect: a peer that heard nothing for gvc_very_long_time_out is destroyed, *)
(* as is one whose user calls post_disconnect_now.                                    *)

update_connect_sender ==
  /\ senderUp
  /\ senderUp' = FALSE
  /\ outgoing_reliable_list' = <<>>
  /\ wait_for_ack_list' = {}
  /\ cu_send_window_size' = 0
  /\ UNCHANGED <<sent, outgoing_reliable_sequence, receiverVars, datagrams, acks>>

update_connect_receiver ==
  /\ receiverUp
  /\ receiverUp' = FALSE
  /\ incoming_reliable_list' = {}
  /\ UNCHANGED <<senderVars, incoming_reliable_sequence, delivered, datagrams, acks>>

-------------------------------------------------------------------------------
InFlight == {w.pkt : w \in wait_for_ack_list}

Next ==
  \/ do_send_reliable
  \/ \E expired \in SUBSET InFlight : update_outgoing_channel(expired)
  \/ \E expired \in SUBSET InFlight, w \in Waiting :
       update_outgoing_channel_fail(expired, w)
  \/ \E s \in acks : do_ack(s)
  \/ \E p \in datagrams : handle_recieve_reliable(p)
  \/ update_incoming_channel
  \/ update_incoming_channel_fail
  \/ update_connect_sender
  \/ update_connect_receiver

Spec == Init /\ [][Next]_vars

\* do_service runs once a frame on each side and time passes, so a pass of
\* update in which every resend timer has run out keeps coming, and so does a
\* pass that finds a packet exhausted.  Nothing is assumed of the network.
Fairness ==
  /\ WF_vars(update_outgoing_channel(InFlight))
  /\ WF_vars(\E w \in Waiting : Exhausted(w) /\ update_outgoing_channel_fail(InFlight, w))
  /\ WF_vars(update_incoming_channel)

FairSpec == Spec /\ Fairness

-------------------------------------------------------------------------------
(* Properties. *)

OutgoingMessages == {outgoing_reliable_list[i].msg : i \in 1..Len(outgoing_reliable_list)}
WaitingMessages == {w.pkt.msg : w \in wait_for_ack_list}
BufferedMessages == {p.msg : p \in incoming_reliable_list}
DeliveredMessages == {delivered[i] : i \in 1..Len(delivered)}

\* Every message is delivered once and in the order of the sends, whatever the
\* network loses, repeats or reorders (handle_recieve_reliable,
\* update_incoming_channel).
InOrderOnce ==
  /\ Len(delivered) <= sent
  /\ \A i \in 1..Len(delivered) : delivered[i] = i

\* The sender lets go of a packet only when somebody else holds its message: while
\* both peers live, every message accepted is queued, waiting for an ack, buffered
\* by the receiver or delivered (do_ack against handle_recieve_reliable).
Custody ==
  senderUp /\ receiverUp =>
    1..sent \subseteq OutgoingMessages \cup WaitingMessages
                       \cup BufferedMessages \cup DeliveredMessages

\* m_cu_send_window_size is the length of the waiting list, which never exceeds the
\* window: three functions change one of the two (do_ack, update_outgoing_channel,
\* remove_reliable_wait_packet).
WindowExact ==
  /\ cu_send_window_size = Cardinality(wait_for_ack_list)
  /\ cu_send_window_size <= WindowSize

\* A packet that handle_recieve_reliable would take for an old one has been
\* received: "already get the message before ,just ack".
OldMeansReceived ==
  \A p \in datagrams :
    receiverUp /\ AlreadyReceived(p) => p.msg \in DeliveredMessages

\* The channel settles: every message accepted is delivered, or one of the peers
\* is given up, although nothing obliges the network to carry any packet.  A
\* packet resent more than gvc_max_resend_times destroys the peer, an acknowledged
\* one is delivered when its predecessors are.
Settles ==
  \A n \in Message :
    (sent >= n) ~> (n \in DeliveredMessages \/ ~senderUp \/ ~receiverUp)

\* The inductive invariant, for a session in which no sequence number wraps.
NoWrap == MaxSend < SeqMod

Stamped(p) == p.seq = p.msg - 1 /\ p.msg <= sent

\* Every packet anywhere carries the number of its message.
Stamps ==
  /\ outgoing_reliable_sequence = sent
  /\ \A i \in 1..Len(outgoing_reliable_list) : Stamped(outgoing_reliable_list[i])
  /\ \A w \in wait_for_ack_list : Stamped(w.pkt)
  /\ \A p \in datagrams \cup incoming_reliable_list : Stamped(p)

\* The receiver has delivered exactly the messages before the awaited one.
Prefix ==
  /\ incoming_reliable_sequence = Len(delivered)
  /\ \A i \in 1..Len(delivered) : delivered[i] = i
  /\ Len(delivered) <= sent

\* What was acknowledged was received; what was sent and released was acknowledged.
Acknowledged ==
  /\ receiverUp => \A s \in acks : s < incoming_reliable_sequence \/ Buffered(s)
  /\ senderUp =>
       \A n \in 1..sent : \/ n \in OutgoingMessages
                          \/ n \in WaitingMessages
                          \/ n - 1 \in acks

ChannelInv == TypeOK /\ Stamps /\ Prefix /\ Acknowledged

\* The outgoing list holds the last messages accepted, the waiting list older ones,
\* each once.
Queue ==
  /\ \A i \in 1..Len(outgoing_reliable_list) :
       outgoing_reliable_list[i].msg = sent - Len(outgoing_reliable_list) + i
  /\ \A w \in wait_for_ack_list : w.pkt.msg <= sent - Len(outgoing_reliable_list)
  /\ \A v, w \in wait_for_ack_list : v.pkt.msg = w.pkt.msg => v = w

\* The inductive invariant of the window: it counts the messages that wait, which
\* are as many as the entries because no message waits twice.  A wrap of the sequence
\* numbers does not disturb it.
WindowInv ==
  /\ TypeOK /\ Queue
  /\ IsFiniteSet(WaitingMessages)
  /\ cu_send_window_size = Cardinality(WaitingMessages)
  /\ cu_send_window_size <= WindowSize

\* The channel implements the stream it promises.
Stream == INSTANCE ReliableStream WITH accepted <- sent, output <- delivered
ImplementsStream == Stream!StreamSpec
===============================================================================
