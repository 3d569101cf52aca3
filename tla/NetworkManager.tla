----------------------------- MODULE NetworkManager -----------------------------
(***************************************************************************)
(* gv_network_mgr on top of the reliable UDP server: the remote hosts a    *)
(* node knows by their address, the behaviour tree each of them ticks      *)
(* (gv_com_net_host over gv_com_tasklet and gv_state_machine), and the     *)
(* events of the server that drive them.                                   *)
(*                                                                         *)
(* One tick of the manager is a frame: do_service, the events of the       *)
(* server one by one, the tick of every remote host.  The user acts        *)
(* between the frames of its node.  Frames of different nodes meet only    *)
(* through the network, so one frame runs at a time.                       *)
(***************************************************************************)
EXTENDS RudpServer

VARIABLES
  host,    \* m_address_map: the gv_com_net_host a node has for an address
  frame    \* the node whose manager ticks

managerVars == <<host, frame>>
allVars == <<vars, host, frame>>

NoFrame == "none"

HostState == {"not_created", "disconnected", "disconnecting", "connecting", "connected"}

Host ==
  [state : HostState,     \* the host level of the behaviour tree
   connected : BOOLEAN,   \* m_connected
   waiting : BOOLEAN,     \* m_bt_state is gve_bt_wait_for_signal
   signaled : BOOLEAN,    \* m_signal is not 0
   timer : BOOLEAN,       \* m_sleep_time_count_down is not 0
   slot : AnySlot \cup {NoSlot},  \* m_peer_id
   persistent : BOOLEAN,
   incoming : Seq(Nat)]   \* m_incoming_pkt_list, from its head: packets of this frame,
                          \* numbered as the server delivers them

NewHost(state, slot, persistent) ==
  [state |-> state, connected |-> FALSE, waiting |-> FALSE, signaled |-> FALSE,
   timer |-> FALSE, slot |-> slot, persistent |-> persistent, incoming |-> <<>>]

\* No host has that address.
NoHost == NewHost("not_created", NoSlot, FALSE)

Known(n, m) == host[n][m].state # "not_created"

ManagerTypeOK ==
  /\ \A n \in Node : \A m \in Node :
       LET h == host[n][m]
       IN  /\ h.state \in HostState /\ h.slot \in AnySlot \cup {NoSlot}
           /\ {h.connected, h.waiting, h.signaled, h.timer} \subseteq BOOLEAN
           /\ h.incoming # <<>> /\ up[n] => frame = n
  /\ frame \in Node \cup {NoFrame}

\* The user of a connector has attached a remote host for every other node, with
\* auto_connect (init_host, on_event_add_host).
ManagerInit ==
  /\ Init
  /\ \E persistent \in BOOLEAN :
       host = [n \in Node |-> [m \in Node |->
         IF n \in Connectors /\ m # n THEN NewHost("connecting", NoSlot, persistent)
         ELSE NoHost]]
  /\ frame = NoFrame

-------------------------------------------------------------------------------
(* The frame: do_service. *)

BetweenFrames == frame \in Node => ~up[frame]

tick_server(n) ==
  /\ BetweenFrames
  /\ do_service(n)
  /\ frame' = n
  /\ UNCHANGED host

server_passes(n) ==
  /\ PacketPass(n) \/ RequestPass(n) \/ UpdatePass(n)
  /\ UNCHANGED managerVars

-------------------------------------------------------------------------------
(* The frame: the events of the server. *)

Pending(n, types) ==
  /\ frame = n /\ service.pass = "idle"
  /\ results[n] # <<>>
  /\ Head(results[n]).type \in types

Handling(n, types) ==
  /\ Pending(n, types)
  /\ peek_event(n)
  /\ UNCHANGED frame

\* Change the host of the address the event is about.
UpdateHost(n, h) == host' = [host EXCEPT ![n][Head(results[n]).address] = h]

EventHost(n) == host[n][Head(results[n]).address]

\* gv_state_machine::signal
Signal(h) == [h EXCEPT !.signaled = TRUE]

\* Only a connecting host becomes connected; one in any other state gets the peer
\* and stays as it is.  An unknown address gets a host of its own.
create_connection(n) ==
  LET h == EventHost(n)
      slot == Head(results[n]).slot
  IN  /\ Handling(n, {"connect_succeed"})
      /\ UpdateHost(n,
           CASE h.state = "not_created" -> NewHost("connected", slot, FALSE)
             [] h.state = "connecting" -> Signal([h EXCEPT !.connected = TRUE, !.slot = slot])
             [] OTHER -> [h EXCEPT !.slot = slot])

cancel_connection(n) ==
  LET h == EventHost(n)
  IN  /\ Handling(n, {"connect_fail"})
      /\ UpdateHost(n, IF h.state = "connecting"
                       THEN Signal([h EXCEPT !.connected = FALSE]) ELSE h)

\* Mutant: a host that stays keeps its state.
RemovedKeepingState(h) ==
  IF h.persistent THEN [h EXCEPT !.connected = FALSE] ELSE NoHost

\* A host that is not persistent is forgotten.  One that is not disconnecting is
\* disconnected without a signal: what its tree waits for stays awaited.
Removed(h) ==
  CASE ~h.persistent -> NoHost
    [] h.persistent /\ h.state = "disconnecting" -> Signal([h EXCEPT !.connected = FALSE])
    [] OTHER -> [h EXCEPT !.connected = FALSE, !.state = "disconnected"]

remove_connection(n) ==
  /\ Handling(n, {"disconnected"})
  /\ UpdateHost(n, Removed(EventHost(n)))

\* queue_incoming_packet
queue_incoming_packet(n) ==
  LET h == EventHost(n)
  IN  /\ Handling(n, {"recieve"})
      /\ h.state # "not_created"
      /\ UpdateHost(n, [h EXCEPT !.incoming = <<Len(@) + 1>> \o @])

\* A packet of an unknown host: GV_ASSERT(0).
recieve_from_unknown_host(n) ==
  /\ Pending(n, {"recieve"})
  /\ EventHost(n).state = "not_created"
  /\ up' = [up EXCEPT ![n] = FALSE]
  /\ UNCHANGED <<poolVars, incoming_requests, results, service, network, calls,
                 incarnations, heard, managerVars>>

-------------------------------------------------------------------------------
(* The frame: the tick of the remote hosts. *)

\* gv_com_tasklet::tick: the time of a tree that waits is over.
TimedOut(h) == [h EXCEPT !.timer = FALSE, !.signaled = @ \/ h.waiting]

\* Mutant: the wait has no time out.
StartConnectUntimed(h) == [h EXCEPT !.waiting = TRUE]

\* task_connect, as a latent leaf
StartConnect(h) == [h EXCEPT !.waiting = TRUE, !.timer = TRUE]

\* tick_remote_host
Ticked(h) ==
  CASE h.state = "connecting" /\ ~h.waiting -> StartConnect(h)
    [] h.state = "connecting" /\ h.waiting /\ h.signaled ->
         [h EXCEPT !.waiting = FALSE, !.signaled = FALSE,
                   !.state = IF h.connected THEN "connected" ELSE "disconnected"]
    [] h.state = "disconnecting" -> [h EXCEPT !.state = "disconnected", !.timer = FALSE]
    [] OTHER -> h

\* connect_host, disconnect_host: what the leaf of that tick asks the server for.
Asked(h, m) ==
  CASE h.state = "connecting" /\ ~h.waiting -> <<Notice("connect", NoSlot, m)>>
    [] h.state = "disconnecting" -> <<Notice("disconnect", h.slot, m)>>
    [] OTHER -> <<>>

\* flush_in_coming_packets executes the incoming list from its head and empties it.
Flushed(h) == [h EXCEPT !.incoming = <<>>]

\* Out of time are the hosts of late.
tick_hosts(n) ==
  \E late \in SUBSET {m \in Node : host[n][m].timer} :
    LET h == [m \in Node |-> IF m \in late THEN TimedOut(Flushed(host[n][m]))
                             ELSE Flushed(host[n][m])]
        order == SetToSeq(Node)
        asked == FlattenSeq([i \in DOMAIN order |-> Asked(h[order[i]], order[i])])
    IN  /\ frame = n /\ service.pass = "idle" /\ up[n]
        /\ results[n] = <<>>
        /\ host' = [host EXCEPT ![n] = [m \in Node |-> Ticked(h[m])]]
        /\ incoming_requests' = [incoming_requests EXCEPT ![n] = @ \o asked]
        /\ frame' = NoFrame
        /\ UNCHANGED <<poolVars, results, service, up, network, calls, incarnations,
                       heard>>

-------------------------------------------------------------------------------
(* The user, between frames. *)

Asking(n, call, bound) ==
  /\ frame # n
  /\ Calling(n, call, bound)
  /\ UNCHANGED <<incoming_requests, frame>>

\* A patient user asks is_connected first: the last connection is gone.
manual_connect(n, m) ==
  /\ Asking(n, "connect", MaxConnects)
  /\ PatientUser => ~host[n][m].connected
  /\ host[n][m].state = "disconnected"
  /\ host' = [host EXCEPT ![n][m].state = "connecting"]

\* A new host for an address nobody has.
on_event_add_host(n, m) ==
  /\ Asking(n, "connect", MaxConnects)
  /\ ~Known(n, m)
  /\ \E persistent \in BOOLEAN :
       host' = [host EXCEPT ![n][m] = NewHost("connecting", NoSlot, persistent)]

manual_disconnect(n, m) ==
  /\ Asking(n, "disconnect", MaxDisconnects)
  /\ host[n][m].state = "connected"
  /\ host' = [host EXCEPT ![n][m].state = "disconnecting"]

send_packet(n, m) ==
  /\ frame # n
  /\ Calling(n, "send", MaxSends)
  /\ host[n][m].state = "connected"
  /\ post_request(n, Notice("send", host[n][m].slot, m))
  /\ UNCHANGED managerVars

-------------------------------------------------------------------------------
HandleEvent(n) ==
  \/ create_connection(n) \/ cancel_connection(n) \/ remove_connection(n)
  \/ queue_incoming_packet(n) \/ recieve_from_unknown_host(n)

ManagerUser(n, m) ==
  \/ n \in Connectors /\ (manual_connect(n, m) \/ on_event_add_host(n, m))
  \/ manual_disconnect(n, m)
  \/ send_packet(n, m)

ManagerNext ==
  \E n \in Node :
    \/ tick_server(n) \/ server_passes(n) \/ HandleEvent(n) \/ tick_hosts(n)
    \/ \E m \in Node \ {n} : ManagerUser(n, m)

ManagerSpec == ManagerInit /\ [][ManagerNext]_allVars

-------------------------------------------------------------------------------
(* Properties. *)

\* Every wait of a behaviour tree can end: whatever events arrive while the tree of a
\* host waits for its connection, its timer runs or its signal is raised.
WaitEnds ==
  \A n, m \in Node : host[n][m].waiting => host[n][m].timer \/ host[n][m].signaled

\* Between two servers of which one connects, and until its user connects again, a host
\* is connected only while the server has a peer for it, or will tell that it has not: an
\* event or a request under way reports the end of the connection (update_peers,
\* exec_reset, remove_connection).  A third server may take the slot before the request
\* of the first is executed: exec_reset then destroys the one and reports the other.  Of
\* two servers that connect to each other, one may accept a connection that ends before
\* its own attempt is executed: the peer is set up again, the attempt fails, and
\* cancel_connection leaves a connected host as it is.
ConnectedHasPeer ==
  \A n, m \in Node :
    Node = {n, m} /\ ~(Node \subseteq Connectors) /\ calls.connect = 0 /\ up[n]
    /\ host[n][m].state = "connected" =>
      \/ peer_map[n][m] # NoSlot
      \/ \E r \in ToSet(results[n]) \cup ToSet(incoming_requests[n]) :
           r.address = m /\ r.type = "disconnected"

\* "recieve data   from UNKOWN HOST!!!", GV_ASSERT(0): a packet comes only from a host
\* the manager was told of.
RecieveFromKnownHost ==
  \A n \in Node : Pending(n, {"recieve"}) /\ up[n] => EventHost(n).state # "not_created"

\* "will wait for a missing sequence": the commands of a packet are executed after
\* those of the packets the server delivered before it.
CommandsInOrder ==
  \A n, m \in Node :
    \A i, j \in DOMAIN host[n][m].incoming :
      i < j => host[n][m].incoming[i] < host[n][m].incoming[j]
===============================================================================
