---------------------------- MODULE ReliableStream ----------------------------
(***************************************************************************)
(* What one reliable channel of gv_reliable_udp_server promises its user,  *)
(* with no sequence number, window, acknowledgement or packet in sight:    *)
(* the messages given to post_send_reliable come out of peek_event once    *)
(* each and in the order they went in, until one of the two ends gives the *)
(* connection up.                                                          *)
(*                                                                         *)
(* Messages are numbered by the order in which the sender accepted them.   *)
(***************************************************************************)
EXTENDS Naturals, Sequences

VARIABLES
  accepted,    \* how many messages the sender has accepted
  output,      \* the messages the receiver handed to its user, in order
  senderUp,    \* the sender still holds the connection
  receiverUp   \* the receiver still holds the connection

streamVars == <<accepted, output, senderUp, receiverUp>>

StreamInit ==
  /\ accepted = 0
  /\ output = <<>>
  /\ senderUp = TRUE
  /\ receiverUp = TRUE

Accept ==
  /\ senderUp
  /\ accepted' = accepted + 1
  /\ UNCHANGED <<output, senderUp, receiverUp>>

\* The next k messages of the stream, no other and none twice.
Deliver(k) ==
  /\ Len(output) + k <= accepted
  /\ output' = [i \in 1..(Len(output) + k) |-> IF i <= Len(output) THEN output[i] ELSE i]

ReceiverStep ==
  /\ receiverUp
  /\ receiverUp' \in BOOLEAN
  /\ \E k \in 0..accepted : Deliver(k)
  /\ UNCHANGED <<accepted, senderUp>>

SenderGivesUp ==
  /\ senderUp
  /\ senderUp' = FALSE
  /\ UNCHANGED <<accepted, output, receiverUp>>

StreamNext == Accept \/ ReceiverStep \/ SenderGivesUp

StreamSpec == StreamInit /\ [][StreamNext]_streamVars
===============================================================================
