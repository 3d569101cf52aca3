------------------------------- MODULE RudpServer -------------------------------
(***************************************************************************)
(* The connections of gv_reliable_udp_server: the pool of peers of a host, *)
(* its address map, the request queue, the three passes of do_service, and *)
(* the connection, verify, acknowledge, disconnection and data packets     *)
(* several servers exchange over UDP.                                      *)
(*                                                                         *)
(* A node is a server with one host and one address, a peer is a slot of   *)
(* the host's pool and has one channel.  The network is the set of         *)
(* datagrams ever sent: loss, duplication and reordering are free, and     *)
(* sending a packet again adds nothing, so resending is not seen.  What a  *)
(* resend limit or a timeout decides is a choice.  Windows never fill with *)
(* as few packets as a run sends (RudpChannel has the window).             *)
(*                                                                         *)
(* Servers meet only through the network, and do_service takes its packets *)
(* from the queue before it does anything else, so services of different   *)
(* nodes running at once behave as if one came after the other: one        *)
(* service runs at a time.  Requests are posted between services, which is *)
(* where a request posted during the packet pass belongs, too.             *)
(***************************************************************************)
EXTENDS Integers, SequencesExt

CONSTANTS
  Node,             \* servers, and their addresses
  Connectors,       \* nodes whose user calls post_connect
  MaxPeers,         \* max_peer_count of each node's host
  MaxConnects,      \* bound: calls of post_connect
  MaxSends,         \* bound: calls of post_send_reliable
  MaxDisconnects,   \* bound: calls of post_disconnect and post_disconnect_now
  PatientUser,      \* connects again when the last connection is gone, and calls on
                    \* peers in use only
  MaxIncarnations   \* bound: peers set up by exec_connect or handle_connection

ASSUME ServerAssumption ==
  /\ Connectors \subseteq Node
  /\ MaxPeers \in [Node -> Nat \ {0}]
  /\ PatientUser \in BOOLEAN
  /\ {MaxConnects, MaxSends, MaxDisconnects, MaxIncarnations} \subseteq Nat

VARIABLES
  peer,               \* the pool of each host
  using_list,         \* slots in use, in the order of their allocation
  free_list,          \* slots to allocate, first in first out
  peer_map,           \* m_peer_map: address -> slot
  incoming_requests,
  results,            \* m_results
  service,            \* the node inside do_service, its pass, the peers left to update
  up,                 \* the process has not crashed
  network,            \* datagrams ever sent
  calls,              \* how many calls the users made
  incarnations,       \* peers set up so far
  heard               \* [session, incarnation] whose verify packet the other side got

poolVars == <<peer, using_list, free_list, peer_map>>
vars == <<poolVars, incoming_requests, results, service, up, network, calls,
          incarnations, heard>>

Slot(n) == 0..(MaxPeers[n] - 1)
AnySlot == UNION {Slot(n) : n \in Node}
NoSlot == -1
Session == 0..MaxIncarnations
NoMessage == [incarnation |-> 0, index |-> 0]

SeqNum == 0..(MaxSends + MaxDisconnects + 2)
\* One message of the user: the message of a given peer with a given position.
Message == [incarnation : 0..MaxIncarnations, index : SeqNum]

Datagram ==
  [kind : {"connection", "verify", "ack", "disconnection", "data"},
   from : Node, to : Node,
   peer : AnySlot,          \* m_outgoing_peer_id in the protocol header
   session : Session,
   seq : SeqNum,
   src : AnySlot \cup {NoSlot},   \* outgoing_peer_id of connection and verify
   ack : SeqNum \cup {NoSlot},    \* received_reliable_sequence_number
   msg : Message]

PeerState ==
  {"disconnected", "connecting", "connecting_ack", "connected", "disconnecting", "zombie"}

Peer ==
  [state : PeerState, address : Node, session : Session, outPeer : AnySlot,
   connSeq : SeqNum,          \* m_connection_sequence
   outSeq : SeqNum, inSeq : SeqNum,
   queued : SUBSET Datagram,  \* m_outgoing_reliable_list
   waiting : SUBSET Datagram, \* m_outgoing_reliable_wait_for_ack_list
   early : SUBSET Datagram,   \* m_incoming_reliable_list
   incarnation : 0..MaxIncarnations,
   partner : 0..MaxIncarnations,  \* the incarnation that sent the handshake packet
   got : Seq(Message)]        \* messages delivered since the peer was set up

Request == [type : {"connect", "send", "disconnect", "disconnected", "connect_fail"},
            slot : AnySlot \cup {NoSlot}, address : Node]
Event == [type : {"connect_succeed", "connect_fail", "recieve", "disconnected"},
          slot : AnySlot \cup {NoSlot}, address : Node]

TypeOK ==
  /\ \A n \in Node :
       /\ \A s \in Slot(n) :
            /\ DOMAIN peer[n][s] = DOMAIN [state |-> 0, address |-> 0, session |-> 0,
                 outPeer |-> 0, connSeq |-> 0, outSeq |-> 0, inSeq |-> 0, queued |-> 0,
                 waiting |-> 0, early |-> 0, incarnation |-> 0, partner |-> 0, got |-> 0]
            /\ peer[n][s].state \in PeerState
            /\ peer[n][s].address \in Node
            /\ peer[n][s].session \in Session
            /\ peer[n][s].queued \cup peer[n][s].waiting \cup peer[n][s].early
                 \subseteq Datagram
            /\ {peer[n][s].connSeq, peer[n][s].outSeq, peer[n][s].inSeq} \subseteq SeqNum
       /\ using_list[n] \in Seq(Slot(n)) /\ free_list[n] \in Seq(Slot(n))
       /\ peer_map[n] \in [Node -> Slot(n) \cup {NoSlot}]
       /\ incoming_requests[n] \in Seq(Request)
       /\ results[n] \in Seq(Event)
  /\ service.node \in Node /\ service.pass \in {"idle", "packets", "requests", "update"}
  /\ service.rest \in Seq(AnySlot)
  /\ up \in [Node -> BOOLEAN]
  /\ network \subseteq Datagram
  /\ incarnations \in 0..MaxIncarnations

\* A slot nobody uses: reset() leaves m_address alone.
Unused(address) ==
  [state |-> "zombie", address |-> address, session |-> 0, outPeer |-> 0, connSeq |-> 0,
   outSeq |-> 0, inSeq |-> 0, queued |-> {}, waiting |-> {}, early |-> {},
   incarnation |-> 0, partner |-> 0, got |-> <<>>]

Init ==
  /\ peer = [n \in Node |-> [s \in Slot(n) |-> Unused(n)]]
  /\ using_list = [n \in Node |-> <<>>]
  /\ free_list = [n \in Node |-> [i \in 1..MaxPeers[n] |-> i - 1]]
  /\ peer_map = [n \in Node |-> [m \in Node |-> NoSlot]]
  /\ incoming_requests = [n \in Node |-> <<>>]
  /\ results = [n \in Node |-> <<>>]
  /\ service = [node |-> CHOOSE n \in Node : TRUE, pass |-> "idle", rest |-> <<>>]
  /\ up = [n \in Node |-> TRUE]
  /\ network = {}
  /\ calls = [connect |-> 0, send |-> 0, disconnect |-> 0]
  /\ incarnations = 0
  /\ heard = {}

-------------------------------------------------------------------------------
(* What the peers are made of. *)

Live(n, s) == peer[n][s].state # "zombie"

\* A peer that exec_connect and handle_connection may set up again for its address.
Reusable(n, s) == peer[n][s].state \in {"disconnected", "zombie"}

\* update_outgoing_packet: the header is what the peer knows of the other side now.
Packet(n, p, kind, src, ack, msg) ==
  [kind |-> kind, from |-> n, to |-> p.address, peer |-> p.outPeer,
   session |-> p.session, seq |-> IF kind = "ack" THEN 0 ELSE p.outSeq,
   src |-> src, ack |-> ack, msg |-> msg]

\* post_reliable_packet of a packet of that kind.
Posted(n, p, kind, src, ack, msg) ==
  [p EXCEPT !.queued = @ \cup {Packet(n, p, kind, src, ack, msg)},
            !.outSeq = p.outSeq + 1]

\* post_connection_packet, post_connection_verify_packet, post_disconnection_packet:
\* a posted packet whose number the peer remembers.
Remembered(n, p, kind, src, ack) ==
  [Posted(n, p, kind, src, ack, [incarnation |-> p.incarnation, index |-> 0])
     EXCEPT !.connSeq = p.outSeq]

post_ack_packet(n, p, seq) ==
  network' = network \cup {Packet(n, p, "ack", NoSlot, seq, NoMessage)}

\* reset_channel
Channel(p) ==
  [p EXCEPT !.queued = {}, !.waiting = {}, !.early = {}, !.outSeq = 0, !.inSeq = 0,
            !.got = <<>>, !.incarnation = incarnations + 1, !.partner = 0]

\* do_ack: remove_reliable_wait_packet looks at the waiting list only.
Released(p, seq) == [p EXCEPT !.waiting = {d \in @ : d.seq # seq}]

\* The slot a connection with that address gets, when there is one: its own if the
\* address is known, else the front of the free list.
SlotFor(n, address) ==
  IF peer_map[n][address] # NoSlot THEN peer_map[n][address] ELSE Head(free_list[n])

HasSlotFor(n, address) == peer_map[n][address] # NoSlot \/ free_list[n] # <<>>

\* create_peer (when the address is new), add_peer_map, and the peer as it is set up;
\* p is the peer before the channel and the connection fields are filled in.
SetUp(n, address, p) ==
  LET s == SlotFor(n, address)
      isNew == peer_map[n][address] = NoSlot
  IN  /\ incarnations < MaxIncarnations
      /\ incarnations' = incarnations + 1
      /\ peer' = [peer EXCEPT ![n][s] = p]
      /\ peer_map' = [peer_map EXCEPT ![n][address] = s]
      /\ using_list' = [using_list EXCEPT ![n] = IF isNew THEN Append(@, s) ELSE @]
      /\ free_list' = [free_list EXCEPT ![n] = IF isNew THEN Tail(@) ELSE @]

Unlinked(list, s) == RemoveAt(list, CHOOSE i \in DOMAIN list : list[i] = s)

\* Mutant: the address map still names the slot.
DestroyStillMapped(n, s) ==
  /\ UNCHANGED peer_map
  /\ peer' = [peer EXCEPT ![n][s] = Unused(peer[n][s].address)]
  /\ using_list' = [using_list EXCEPT ![n] = Unlinked(@, s)]
  /\ free_list' = [free_list EXCEPT ![n] = Append(@, s)]

\* destroy_peer
Destroy(n, s) ==
  /\ peer_map' = [peer_map EXCEPT ![n][peer[n][s].address] = NoSlot]
  /\ peer' = [peer EXCEPT ![n][s] = Unused(peer[n][s].address)]
  /\ using_list' = [using_list EXCEPT ![n] = Unlinked(@, s)]
  /\ free_list' = [free_list EXCEPT ![n] = Append(@, s)]

Notice(type, slot, address) == [type |-> type, slot |-> slot, address |-> address]

post_request(n, request) ==
  incoming_requests' = [incoming_requests EXCEPT ![n] = Append(@, request)]

post_result(n, type, slot, address) ==
  results' = [results EXCEPT ![n] = Append(@, Notice(type, slot, address))]

\* Mutant: the peer is asked to disconnect, which a destroyed one never does.
GentleRequest(n, s) == Notice("disconnect", s, peer[n][s].address)

\* post_disconnect_now(host, peer): a peer that is still connecting is reported as a
\* failed connection.
NowRequest(n, s) ==
  Notice(IF peer[n][s].state = "connecting" THEN "connect_fail" ELSE "disconnected",
           s, peer[n][s].address)

-------------------------------------------------------------------------------
(* do_service: the packet pass. *)

\* The results nobody fetched are dropped.
do_service(n) ==
  /\ service.pass = "idle"
  /\ up[n]
  /\ service' = [node |-> n, pass |-> "packets", rest |-> <<>>]
  /\ results' = [results EXCEPT ![n] = <<>>]
  /\ UNCHANGED <<poolVars, incoming_requests, up, network, calls, incarnations, heard>>

Incoming(n, d, kind) ==
  /\ service.node = n /\ service.pass = "packets"
  /\ d.to = n /\ d.kind = kind

\* is_protocol_head_valid for all but a connection packet.
is_protocol_head_valid(n, d) ==
  /\ d.peer \in Slot(n)
  /\ Live(n, d.peer)
  /\ peer[n][d.peer].address = d.from
  /\ peer[n][d.peer].session = d.session

\* Mutant: any ack ends the handshake.
AnswersAnything(p, d) == TRUE

\* The ack of the packet whose number the peer remembers.
AnswersHandshake(p, d) == d.ack = p.connSeq

handle_acknowledge(n, d) ==
  LET p == peer[n][d.peer]
      Becomes(state) == peer' = [peer EXCEPT ![n][d.peer] =
                                   [Released(p, d.ack) EXCEPT !.state = state]]
  IN  /\ Incoming(n, d, "ack") /\ is_protocol_head_valid(n, d)
      /\ \/ /\ p.state = "connecting_ack" /\ AnswersHandshake(p, d)
            /\ Becomes("connected")
            /\ post_result(n, "connect_succeed", d.peer, p.address)
         \/ /\ p.state = "disconnecting" /\ AnswersHandshake(p, d)
            /\ Becomes("disconnected")
            /\ UNCHANGED results
         \/ /\ p.state = "connected"
            /\ Becomes("connected")
            /\ UNCHANGED results
      /\ UNCHANGED <<using_list, free_list, peer_map, incoming_requests, service, up,
                     network, calls, incarnations, heard>>

\* handle_incoming_packet_type_connection and handle_connection.
handle_connection(n, d) ==
  LET s == SlotFor(n, d.from)
      p == [Channel(peer[n][s]) EXCEPT
              !.outPeer = d.src, !.session = d.session, !.address = d.from,
              !.partner = d.msg.incarnation,
              !.state = "connecting_ack", !.inSeq = d.seq + 1]
  IN  /\ Incoming(n, d, "connection")
      /\ peer_map[n][d.from] # NoSlot => Reusable(n, s)
      /\ HasSlotFor(n, d.from)
      /\ SetUp(n, d.from, Remembered(n, p, "verify", s, d.seq))
      /\ UNCHANGED <<incoming_requests, results, service, up, network, calls, heard>>

\* The same when every peer is in use: the branch that reports the refusal reads
\* peer->m_host_id of the NULL peer.
handle_connection_refused(n, d) ==
  /\ Incoming(n, d, "connection")
  /\ ~HasSlotFor(n, d.from)
  /\ up' = [up EXCEPT ![n] = FALSE]
  /\ service' = [service EXCEPT !.pass = "idle"]
  /\ UNCHANGED <<poolVars, incoming_requests, results, network, calls, incarnations,
                 heard>>

\* handle_incoming_packet_type_verify_connection and handle_verify_connection.
handle_verify_connection(n, d) ==
  LET p == peer[n][d.peer]
      q == [Released(p, d.ack) EXCEPT !.outPeer = d.src, !.state = "connected",
              !.partner = d.msg.incarnation,
              !.inSeq = IF @ <= d.seq THEN d.seq + 1 ELSE @]
  IN  /\ Incoming(n, d, "verify") /\ is_protocol_head_valid(n, d)
      /\ \/ /\ p.state # "connecting"
            /\ post_ack_packet(n, p, d.seq)
            /\ UNCHANGED <<peer, results>>
         \/ /\ p.state = "connecting"
            /\ \E w \in p.waiting : w.seq = d.ack
            /\ peer' = [peer EXCEPT ![n][d.peer] = q]
            /\ post_ack_packet(n, q, d.seq)
            /\ post_result(n, "connect_succeed", d.peer, p.address)
      /\ heard' = heard \cup {[session |-> d.session, incarnation |-> d.msg.incarnation]}
      /\ UNCHANGED <<using_list, free_list, peer_map, incoming_requests, service, up,
                     calls, incarnations>>

handle_disconnected(n, d) ==
  /\ Incoming(n, d, "disconnection") /\ is_protocol_head_valid(n, d)
  /\ peer' = [peer EXCEPT ![n][d.peer].state = "disconnected"]
  /\ post_ack_packet(n, peer[n][d.peer], d.seq)
  /\ UNCHANGED <<using_list, free_list, peer_map, incoming_requests, results, service,
                 up, calls, incarnations, heard>>

\* Whatever the state of the peer: an old packet is acknowledged, the awaited one
\* delivered, an early one kept.
handle_recieve_reliable(n, d) ==
  LET p == peer[n][d.peer]
  IN  /\ Incoming(n, d, "data") /\ is_protocol_head_valid(n, d)
      /\ post_ack_packet(n, p, d.seq)
      /\ \/ /\ p.inSeq > d.seq
            /\ UNCHANGED <<peer, results>>
         \/ /\ p.inSeq = d.seq
            /\ peer' = [peer EXCEPT ![n][d.peer] =
                 [p EXCEPT !.inSeq = @ + 1, !.got = Append(@, d.msg)]]
            /\ post_result(n, "recieve", d.peer, p.address)
         \/ /\ p.inSeq < d.seq
            /\ peer' = [peer EXCEPT ![n][d.peer].early = @ \cup {d}]
            /\ UNCHANGED results
      /\ UNCHANGED <<using_list, free_list, peer_map, incoming_requests, service, up,
                     calls, incarnations, heard>>

\* The queue of packets is empty.
do_handle_incoming_packets_end(n) ==
  /\ service.node = n /\ service.pass = "packets"
  /\ service' = [service EXCEPT !.pass = "requests"]
  /\ UNCHANGED <<poolVars, incoming_requests, results, up, network, calls, incarnations,
                 heard>>

-------------------------------------------------------------------------------
(* do_service: the request pass, do_exec_user_requests. *)

Executing(n, type) ==
  /\ service.node = n /\ service.pass = "requests"
  /\ incoming_requests[n] # <<>>
  /\ Head(incoming_requests[n]).type = type
  /\ incoming_requests' = [incoming_requests EXCEPT ![n] = Tail(@)]
  /\ UNCHANGED <<service, up, network, calls, heard>>

\* Mutant: every peer has the same session.
SameSession(n, address) == 1

\* A new peer has a new session (create_peer); one set up again keeps the one it had.
SessionOf(n, address) ==
  IF peer_map[n][address] = NoSlot THEN incarnations + 1
  ELSE peer[n][peer_map[n][address]].session

exec_connect(n) ==
  LET r == Head(incoming_requests[n])
      s == SlotFor(n, r.address)
      p == [Channel(peer[n][s]) EXCEPT !.address = r.address, !.outPeer = 0,
              !.state = "connecting",
              !.session = SessionOf(n, r.address)]
  IN  /\ Executing(n, "connect")
      /\ \/ /\ peer_map[n][r.address] # NoSlot /\ ~Reusable(n, s)
            /\ UNCHANGED <<poolVars, incarnations, results>>
         \/ /\ ~HasSlotFor(n, r.address)
            /\ post_result(n, "connect_fail", NoSlot, r.address)
            /\ UNCHANGED <<poolVars, incarnations>>
         \/ /\ peer_map[n][r.address] # NoSlot => Reusable(n, s)
            /\ HasSlotFor(n, r.address)
            /\ SetUp(n, r.address, Remembered(n, p, "connection", s, NoSlot))
            /\ UNCHANGED results

\* A request for a slot that is out of use is dropped.
exec_dropped(n) ==
  /\ \E type \in {"send", "disconnect"} : Executing(n, type)
  /\ ~Live(n, Head(incoming_requests[n]).slot)
  /\ UNCHANGED <<poolVars, incarnations, results>>

exec_send_reliable(n) ==
  LET s == Head(incoming_requests[n]).slot
      p == peer[n][s]
  IN  /\ Executing(n, "send") /\ Live(n, s)
      /\ peer' = [peer EXCEPT ![n][s] =
           Posted(n, p, "data", NoSlot, NoSlot,
                  [incarnation |-> p.incarnation, index |-> p.outSeq])]
      /\ UNCHANGED <<using_list, free_list, peer_map, incarnations, results>>

exec_disconnect(n) ==
  LET s == Head(incoming_requests[n]).slot
  IN  /\ Executing(n, "disconnect") /\ Live(n, s)
      /\ peer' = [peer EXCEPT ![n][s] =
           Remembered(n, [@ EXCEPT !.state = "disconnecting"], "disconnection",
                      NoSlot, NoSlot)]
      /\ UNCHANGED <<using_list, free_list, peer_map, incarnations, results>>

\* exec_disconnect_now, exec_reset: whoever uses the slot now is destroyed, and the
\* result tells the address the request was posted for.
exec_reset(n) ==
  LET r == Head(incoming_requests[n])
  IN  /\ \E type \in {"disconnected", "connect_fail"} : Executing(n, type)
      /\ IF Live(n, r.slot) THEN Destroy(n, r.slot) ELSE UNCHANGED poolVars
      /\ post_result(n, r.type, r.slot, r.address)
      /\ UNCHANGED incarnations

do_exec_user_requests_end(n) ==
  /\ service.node = n /\ service.pass = "requests"
  /\ incoming_requests[n] = <<>>
  /\ service' = IF using_list[n] = <<>> THEN [service EXCEPT !.pass = "idle"]
                ELSE [service EXCEPT !.pass = "update", !.rest = using_list[n]]
  /\ UNCHANGED <<poolVars, incoming_requests, results, up, network, calls, incarnations,
                 heard>>

-------------------------------------------------------------------------------
(* do_service: the update pass, update_peers. *)

Updating(n) ==
  /\ service.node = n /\ service.pass = "update"
  /\ service' = [service EXCEPT !.rest = Tail(@),
                                !.pass = IF Len(service.rest) = 1 THEN "idle" ELSE @]
  /\ UNCHANGED <<up, calls, incarnations, heard>>

\* The early packets update_incoming_channel can deliver now, in order.
Early(p, seq) == {d \in p.early : d.seq = seq}
Ready(p) ==
  LET k == CHOOSE k \in 0..Cardinality(p.early) :
             /\ Early(p, p.inSeq + k) = {}
             /\ \A i \in 0..(k - 1) : Early(p, p.inSeq + i) # {}
  IN  [i \in 1..k |-> CHOOSE d \in Early(p, p.inSeq + i - 1) : TRUE]

\* The peer after the first k of them have been delivered.
Advanced(p, k) ==
  [p EXCEPT !.inSeq = @ + k,
            !.got = @ \o [i \in 1..k |-> Ready(p)[i].msg],
            !.early = {d \in @ : d.seq >= p.inSeq + k}]

RecieveEvents(n, s, k) ==
  [i \in 1..k |-> Notice("recieve", s, peer[n][s].address)]

\* gv_rudp_peer::update returns true: update_connect turns a disconnected peer into a
\* zombie, what is ready is delivered, what is queued is sent.
update(n) ==
  LET s == Head(service.rest)
      p == peer[n][s]
      k == Len(Ready(p))
  IN  /\ Updating(n)
      /\ Live(n, s)
      /\ p.state = "disconnected" => k = 0
      /\ peer' = [peer EXCEPT ![n][s] =
           [Advanced(p, k) EXCEPT
              !.state = IF @ = "disconnected" THEN "zombie" ELSE @,
              !.waiting = @ \cup p.queued, !.queued = {}]]
      /\ network' = network \cup p.queued
      /\ results' = [results EXCEPT ![n] = @ \o RecieveEvents(n, s, k)]
      /\ UNCHANGED <<using_list, free_list, peer_map, incoming_requests>>

\* update returns false: the peer is a zombie, heard nothing for too long, or has a
\* channel that is blocked for too long.  A request for the service after this one
\* announces it, and the peer is destroyed.
update_fail(n) ==
  LET s == Head(service.rest)
      p == peer[n][s]
  IN  /\ Updating(n)
      /\ \E k \in 0..Len(Ready(p)) :
           /\ p.state \in {"zombie", "disconnected"} => k = 0
           /\ results' = [results EXCEPT ![n] = @ \o RecieveEvents(n, s, k)]
      /\ post_request(n, NowRequest(n, s))
      /\ Destroy(n, s)
      /\ UNCHANGED network

\* The peer that became a zombie a moment ago delivers a packet: post_result looks
\* the peer up, finds no zombie, and reads its round trip time through NULL.
update_crash(n) ==
  LET s == Head(service.rest)
  IN  /\ service.node = n /\ service.pass = "update"
      /\ peer[n][s].state = "disconnected"
      /\ Ready(peer[n][s]) # <<>>
      /\ up' = [up EXCEPT ![n] = FALSE]
      /\ service' = [service EXCEPT !.pass = "idle"]
      /\ UNCHANGED <<poolVars, incoming_requests, results, network, calls, incarnations,
                     heard>>

-------------------------------------------------------------------------------
(* The user of a node. *)

Calling(n, call, bound) ==
  /\ service.pass = "idle" /\ up[n]
  /\ calls[call] < bound
  /\ calls' = [calls EXCEPT ![call] = @ + 1]
  /\ UNCHANGED <<poolVars, results, service, up, network, incarnations, heard>>

post_connect(n, m) ==
  /\ Calling(n, "connect", MaxConnects)
  /\ PatientUser =>
       /\ peer_map[n][m] = NoSlot
       /\ \A i \in DOMAIN incoming_requests[n] : incoming_requests[n][i].type # "connect"
  /\ post_request(n, Notice("connect", NoSlot, m))

post_send_reliable(n, s) ==
  /\ Calling(n, "send", MaxSends)
  /\ PatientUser => Live(n, s)
  /\ post_request(n, Notice("send", s, peer[n][s].address))

post_disconnect(n, s) ==
  /\ Calling(n, "disconnect", MaxDisconnects)
  /\ PatientUser => Live(n, s)
  /\ post_request(n, Notice("disconnect", s, peer[n][s].address))

post_disconnect_now(n, s) ==
  /\ Calling(n, "disconnect", MaxDisconnects)
  /\ PatientUser => Live(n, s)
  /\ post_request(n, NowRequest(n, s))

peek_event(n) ==
  /\ service.pass = "idle" /\ up[n]
  /\ results[n] # <<>>
  /\ results' = [results EXCEPT ![n] = Tail(@)]
  /\ UNCHANGED <<poolVars, incoming_requests, service, up, network, calls, incarnations,
                 heard>>

-------------------------------------------------------------------------------
PacketPass(n) ==
  \/ \E d \in network : \/ handle_acknowledge(n, d)
                        \/ handle_connection(n, d)
                        \/ handle_connection_refused(n, d)
                        \/ handle_verify_connection(n, d)
                        \/ handle_disconnected(n, d)
                        \/ handle_recieve_reliable(n, d)
  \/ do_handle_incoming_packets_end(n)

RequestPass(n) ==
  \/ exec_connect(n) \/ exec_dropped(n) \/ exec_send_reliable(n)
  \/ exec_disconnect(n) \/ exec_reset(n)
  \/ do_exec_user_requests_end(n)

UpdatePass(n) == update(n) \/ update_fail(n) \/ update_crash(n)

Service(n) == do_service(n) \/ PacketPass(n) \/ RequestPass(n) \/ UpdatePass(n)

User(n) ==
  \/ n \in Connectors /\ \E m \in Node \ {n} : post_connect(n, m)
  \/ \E s \in Slot(n) : \/ post_send_reliable(n, s)
                        \/ post_disconnect(n, s)
                        \/ post_disconnect_now(n, s)

Next == \E n \in Node : Service(n) \/ User(n)

Spec == Init /\ [][Next]_vars

\* A pass in which the peer gives up waiting for an answer of the other side.
GivesUp(n) ==
  /\ service.pass = "update"
  /\ peer[n][Head(service.rest)].state \in {"connecting", "disconnecting"}
  /\ update_fail(n)

\* Every node that has not crashed calls do_service again and again, and each of its
\* passes ends: a pass takes the packets and requests that are there.  The packet a
\* connecting or disconnecting peer waits for the answer of is resent at most
\* gvc_max_resend_times, so such a peer does not survive update for ever.
Fairness ==
  \A n \in Node :
    /\ SF_vars(do_service(n))
    /\ WF_vars(do_handle_incoming_packets_end(n))
    /\ WF_vars(RequestPass(n))
    /\ WF_vars(UpdatePass(n))
    /\ SF_vars(GivesUp(n))

FairSpec == Spec /\ Fairness

-------------------------------------------------------------------------------
(* Properties. *)

\* The pool, its two lists and the address map agree whatever order connections,
\* failures and stale requests come in: each slot is in one list, once; a slot in use
\* is the one its address maps to; a free one is a zombie.
PoolExact ==
  \A n \in Node :
    LET used == {using_list[n][i] : i \in DOMAIN using_list[n]}
        free == {free_list[n][i] : i \in DOMAIN free_list[n]}
    IN  /\ used \cup free = Slot(n) /\ used \cap free = {}
        /\ Len(using_list[n]) + Len(free_list[n]) = MaxPeers[n]
        /\ \A s \in used : peer_map[n][peer[n][s].address] = s
        /\ \A m \in Node : peer_map[n][m] # NoSlot => peer_map[n][m] \in used
        /\ \A s \in free : ~Live(n, s)

\* The accepting side takes a connection for established only when the connecting
\* side got a verify packet of that session: the ack that ends the handshake is told
\* from the acks of data by m_connection_sequence alone.
AcceptedAfterVerify ==
  \A n \in Node \ Connectors : \A s \in Slot(n) :
    peer[n][s].state = "connected" => \E h \in heard : h.session = peer[n][s].session

\* "send back the verify ,and check ack to become connected": an accepting peer is
\* connected only when the other side got the verify packet this very peer sent.
VerifyAnswered ==
  \A n \in Node \ Connectors : \A s \in Slot(n) :
    peer[n][s].state = "connected" =>
      [session |-> peer[n][s].session, incarnation |-> peer[n][s].incarnation] \in heard

\* What a peer delivers, the other end of its own conversation sent, in order and
\* without a gap: datagrams of an earlier connection of the same two addresses do not
\* leak into this one.
HearsPartner(p) ==
  \A i \in 1..Len(p.got) : p.got[i] = [incarnation |-> p.partner, index |-> i]

AcceptorHearsPartner ==
  \A n \in Node \ Connectors : \A s \in Slot(n) : HearsPartner(peer[n][s])

\* "one address still can have several session!!": the same for both ends.
SessionsIsolated == \A n \in Node : \A s \in Slot(n) : HearsPartner(peer[n][s])

\* Every attempt to connect is answered: a connecting peer leads to an event for its
\* address, however many packets are lost, unless the node crashes
\* (post_disconnect_now, update_peers, exec_reset).
Answered ==
  \A n \in Connectors, m \in Node :
    (\E s \in Slot(n) : peer[n][s].state = "connecting" /\ peer[n][s].address = m)
      ~> \/ ~up[n]
         \/ \E i \in DOMAIN results[n] :
              /\ results[n][i].address = m
              /\ results[n][i].type \in {"connect_succeed", "connect_fail", "disconnected"}

\* do_service never dereferences the NULL peer.
NoCrash == \A n \in Node : up[n]
===============================================================================
