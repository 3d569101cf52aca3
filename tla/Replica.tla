-------------------------------- MODULE Replica --------------------------------
(***************************************************************************)
(* Replication of variables from a host to a remote one: the sender's      *)
(* update ages what has changed, selects what is old enough, writes it     *)
(* into packets, and sends them; the remote host reads the packets of a    *)
(* frame and sets its variables.                                           *)
(*                                                                         *)
(* A packet is a sequence of tokens: the reader knows what a token is only *)
(* from those before it.  The sizes are counted in tokens.  Reliable       *)
(* packets arrive in order (ReliableStream), the others are lost, repeated *)
(* and reordered.  An update, which one thread does, is one step.          *)
(***************************************************************************)
EXTENDS Integers, SequencesExt

CONSTANTS
  Item,         \* the variables of the sender's arrays: each with its replica, its place in
                \* that, and the place of that in its array
  Priority,     \* of each; 0 is reliable
  Condition,    \* the item that must not be 0 for an item to be replicated, or itself
  Value,        \* what a variable can be
  MaxByte,      \* the largest is_dirty, 255 in the code
  PacketSize,   \* the most tokens of a packet, gvc_default_mtu
  CommandSize,  \* the tokens that a command may take
  PerFrame,     \* bound: packets that arrive within a frame of the receiver
  MaxChange,    \* bound: changes of variables
  MaxCommand    \* bound: commands written beside the updates

ASSUME ReplicaAssumption ==
  /\ Item \subseteq [id : Nat \ {0}, var : Nat \ {0}, index : Nat] /\ IsFiniteSet(Item)
  /\ Priority \in [Item -> 0..(MaxByte - 1)] /\ Condition \in [Item -> Item]
  /\ 0 \in Value /\ Value \subseteq Nat
  /\ {MaxByte, PacketSize, PerFrame, MaxChange, MaxCommand} \subseteq Nat
  /\ PacketSize >= 7   \* an item, its replica, and their ends
  /\ CommandSize \subseteq 1..(PacketSize - 1)

VARIABLES
  value, is_dirty, sent,    \* of each item, at the sender
  pending,                  \* commands written into its two packets before the update
  connected,                \* the state of the remote host
  sequence,                 \* of the last packet sent, reliable or not
  reliable,                 \* the reliable packets on their way
  unreliable,               \* the others
  m_incoming_pkt_list, flushing,     \* the receiver's packets, and whether it reads them
  received, sq_no,          \* of each item, at the receiver
  m_is_hacker,
  owed,                     \* the last value of an item in a packet that was sent
  waited,                   \* the updates in a row that left a changed item unsent
  changes, commands         \* how many of them

senderVars == <<value, is_dirty, sent, waited, changes, commands>>
networkVars == <<sequence, reliable, unreliable, owed>>
receiverVars == <<received, sq_no, m_is_hacker>>
vars == <<senderVars, pending, connected, networkVars, m_incoming_pkt_list, flushing,
          receiverVars>>

Token == [kind : {"cmd", "var", "index", "value"}, n : Nat]
           \cup [kind : {"end", "cmd_end", "other"}, n : {0}]
Update == [item : Item, value : Value]
Packet == [sq : Nat, data : Seq(Token), carries : Seq(Update)]

TypeOK ==
  /\ value \in [Item -> Value] /\ sent \in [Item -> Value]
  /\ \A x \in Item : is_dirty[x] \in 0..Priority[x]
  /\ pending \in [BOOLEAN -> Seq(Token)]
  /\ connected \in BOOLEAN /\ flushing \in BOOLEAN /\ m_is_hacker \in BOOLEAN
  /\ sequence \in [BOOLEAN -> Nat]
  /\ reliable \in Seq(Packet) /\ unreliable \subseteq Packet
  /\ m_incoming_pkt_list \in Seq(Packet)
  /\ received \in [Item -> Value] /\ owed \in [Item -> Value]
  /\ sq_no \in [Item -> Nat] /\ waited \in [Item -> Nat]
  /\ changes \in 0..MaxChange /\ commands \in 0..MaxCommand

Init ==
  /\ value = [x \in Item |-> 0] /\ sent = value /\ received = value /\ owed = value
  /\ is_dirty = [x \in Item |-> 0] /\ sq_no = is_dirty /\ waited = is_dirty
  /\ pending = [r \in BOOLEAN |-> <<>>]
  /\ connected = FALSE /\ flushing = FALSE /\ m_is_hacker = FALSE
  /\ sequence = [r \in BOOLEAN |-> 0]
  /\ reliable = <<>> /\ unreliable = {} /\ m_incoming_pkt_list = <<>>
  /\ changes = 0 /\ commands = 0

-------------------------------------------------------------------------------
(* What an update selects. *)

T(kind, n) == [kind |-> kind, n |-> n]
End == T("end", 0)      \* gvc_invalid_replica_array_idx and gvc_invalid_replica_var_idx
CmdEnd == T("cmd_end", 0)

Shown(x) == Condition[x] = x \/ value[Condition[x]] # 0

\* Mutant: what waits does not get older.
AgedNotOlder(x) == IF Shown(x) /\ value[x] # sent[x] THEN 1 ELSE is_dirty[x]

\* update_one_var: is_dirty after it.
Aged(x) ==
  IF ~Shown(x) THEN is_dirty[x]
  ELSE IF is_dirty[x] \in 1..(MaxByte - 1) THEN is_dirty[x] + 1
  ELSE IF is_dirty[x] = MaxByte \/ value[x] # sent[x] THEN 1
  ELSE is_dirty[x]

\* Mutant: one update too late.
DueLate(x) == Shown(x) /\ Aged(x) > Priority[x] + 1

Due(x) == Shown(x) /\ Aged(x) > Priority[x]

m_priority(x) == IF Priority[x] = 0 THEN 0 ELSE Priority[x] \div Aged(x) + 1

\* Mutant: the two kinds of packet are swapped.
need_unreliable(x) == m_priority(x) # 0

need_reliable(x) == m_priority(x) = 0

Before(x, y) ==
  LET key(z) == <<m_priority(z), z.id, z.var>>
  IN  \E i \in 1..3 : /\ key(x)[i] < key(y)[i]
                      /\ \A j \in 1..(i - 1) : key(x)[j] = key(y)[j]

\* What the result may be: the sort is not stable.
result ==
  LET due == {x \in Item : Due(x)}
  IN  {q \in [1..Cardinality(due) -> due] :
         /\ Range(q) = due
         /\ \A i, j \in DOMAIN q : i < j => ~Before(q[j], q[i])}

-------------------------------------------------------------------------------
(* How an update is written.  w is the state of update_out_going_replica: the packets *)
(* it has ended of each kind, reliable or not, the two current ones with what they    *)
(* carry and whether they are its own, and the replica and the variable that are      *)
(* open, 0 for none.                                                                  *)

\* Mutant: the open array is not ended before the next variable.
FillNoEnd(w, x) ==
  (IF w.id = x.id THEN <<>>
   ELSE (IF w.id = 0 THEN <<>> ELSE <<End, End>>) \o <<T("cmd", x.id)>>)
  \o (IF w.id = x.id /\ w.var = x.var THEN <<>> ELSE <<T("var", x.var)>>)
  \o <<T("index", x.index), T("value", value[x])>>

Fill(w, x) ==
  (IF w.id = x.id THEN <<>>
   ELSE (IF w.id = 0 THEN <<>> ELSE <<End, End>>) \o <<T("cmd", x.id)>>)
  \o (IF w.id = x.id /\ w.var = x.var THEN <<>>
      ELSE (IF w.id # x.id \/ w.var = 0 THEN <<>> ELSE <<End>>) \o <<T("var", x.var)>>)
  \o <<T("index", x.index), T("value", value[x])>>

Close(p) == IF p.mine THEN [p EXCEPT !.data = @ \o <<End, End>>] ELSE p

Ended(p) == [data |-> Append(p.data, CmdEnd), carries |-> p.carries]

Empty == [data |-> <<>>, carries |-> <<>>, mine |-> FALSE]

\* The packet has room for n tokens, and for those that end it.
Fits(p, n) == Len(p.data) + n + 3 <= PacketSize

WriteOne(w, x) ==
  LET r == need_reliable(x)
      first == ~r /\ ~w.first_unreliable
      a == IF first THEN [w EXCEPT !.first_unreliable = TRUE, !.id = 0, !.var = 0] ELSE w
      b == IF Fits(a.current[r], Len(Fill(a, x))) THEN a
           ELSE [a EXCEPT !.ended[r] = Append(@, Ended(Close(a.current[r]))),
                          !.current[r] = Empty, !.id = 0, !.var = 0]
  IN  [b EXCEPT !.current[r] =
                  [data |-> @.data \o Fill(b, x),
                   carries |-> Append(@.carries, [item |-> x, value |-> value[x]]),
                   mine |-> TRUE],
                !.id = x.id, !.var = x.var]

Start ==
  [ended |-> [r \in BOOLEAN |-> <<>>], id |-> 0, var |-> 0, first_unreliable |-> FALSE,
   current |-> [r \in BOOLEAN |-> [Empty EXCEPT !.data = pending[r]]]]

\* The packets of an update that writes q, of each kind in the order they are sent: those
\* that were full, and the current one.  written[i] is the state after the first i.
Written(q) ==
  LET written[i \in 0..Len(q)] ==
        IF i = 0 THEN Start ELSE WriteOne(written[i - 1], q[i])
      w == written[Len(q)]
  IN  [r \in BOOLEAN |-> w.ended[r] \o IF w.current[r].data = <<>> THEN <<>>
                                       ELSE <<Ended(Close(w.current[r]))>>]

-------------------------------------------------------------------------------
(* The sender. *)

change(x) ==
  /\ changes < MaxChange
  /\ \E v \in Value \ {value[x]} : value' = [value EXCEPT ![x] = v]
  /\ changes' = changes + 1
  /\ UNCHANGED <<is_dirty, sent, waited, commands, pending, connected, networkVars,
                 m_incoming_pkt_list, flushing, receiverVars>>

\* The packets of each kind, with their numbers.
Numbered(packets, r) ==
  [i \in 1..Len(packets[r]) |-> [sq |-> sequence[r] + i, data |-> packets[r][i].data,
                                 carries |-> packets[r][i].carries]]

send_packet(packets) ==
  /\ reliable' = reliable \o Numbered(packets, TRUE)
  /\ unreliable' = unreliable \cup Range(Numbered(packets, FALSE))
  /\ sequence' = [r \in BOOLEAN |-> sequence[r] + Len(packets[r])]



Command(n) == [i \in 1..n |-> T("other", 0)]

\* A command is written before the update, by tick_connection, into a packet that has room
\* for it and for its end.
send_net_cmd(r, n) ==
  /\ connected /\ commands < MaxCommand
  /\ commands' = commands + 1
  /\ \/ /\ Len(pending[r]) + n < PacketSize
        /\ pending' = [pending EXCEPT ![r] = @ \o Command(n)]
        /\ UNCHANGED <<reliable, unreliable, sequence>>
     \/ /\ Len(pending[r]) + n >= PacketSize
        /\ pending' = [pending EXCEPT ![r] = Command(n)]
        /\ LET full == Ended([Empty EXCEPT !.data = pending[r]])
           IN  send_packet([k \in BOOLEAN |-> IF k = r THEN <<full>> ELSE <<>>])
  /\ UNCHANGED <<value, is_dirty, sent, waited, changes, connected, owed,
                 m_incoming_pkt_list, flushing, receiverVars>>

connect ==
  /\ ~connected
  /\ connected' = TRUE
  /\ UNCHANGED <<senderVars, pending, networkVars, m_incoming_pkt_list, flushing,
                 receiverVars>>

\* The packets are dropped when the host is not connected; on_send is called all the same.
update_out_going_replica ==
  /\ (\E x \in Item : Aged(x) # is_dirty[x]) \/ (\E r \in BOOLEAN : pending[r] # <<>>)
  /\ is_dirty' = [x \in Item |-> IF Due(x) THEN 0 ELSE Aged(x)]
  /\ sent' = [x \in Item |-> IF Due(x) THEN value[x] ELSE sent[x]]
  /\ waited' = [x \in Item |-> IF Due(x) \/ ~Shown(x) \/ value[x] = sent[x] THEN 0
                               ELSE waited[x] + 1]
  /\ pending' = [r \in BOOLEAN |-> <<>>]
  /\ IF connected
     THEN /\ \E q \in result : send_packet(Written(q))
          /\ owed' = [x \in Item |-> IF Due(x) THEN value[x] ELSE owed[x]]
     ELSE UNCHANGED <<reliable, unreliable, sequence, owed>>
  /\ UNCHANGED <<value, changes, commands, connected, m_incoming_pkt_list, flushing,
                 receiverVars>>

-------------------------------------------------------------------------------
(* The network and the receiver. *)

\* queue_incoming_packet: a packet goes before those that came earlier.
Queue(p) ==
  /\ ~flushing
  /\ Len(m_incoming_pkt_list) < PerFrame
  /\ m_incoming_pkt_list' = <<p>> \o m_incoming_pkt_list
  /\ UNCHANGED <<senderVars, pending, connected, sequence, owed, flushing,
                 receiverVars>>

arrive_reliable ==
  /\ reliable # <<>>
  /\ Queue(reliable[1])
  /\ reliable' = Tail(reliable)
  /\ UNCHANGED unreliable

arrive_unreliable(p, again) ==
  /\ p \in unreliable
  /\ Queue(p)
  /\ unreliable' = IF again THEN unreliable ELSE unreliable \ {p}
  /\ UNCHANGED reliable

lose(p) ==
  /\ p \in unreliable
  /\ unreliable' = unreliable \ {p}
  /\ UNCHANGED <<senderVars, pending, connected, sequence, reliable, owed,
                 m_incoming_pkt_list, flushing, receiverVars>>

flush_in_coming_packets ==
  /\ ~flushing /\ m_incoming_pkt_list # <<>>
  /\ flushing' = TRUE
  /\ UNCHANGED <<senderVars, pending, connected, networkVars, m_incoming_pkt_list,
                 receiverVars>>

\* The variable the reader is at.
Named(s) == [id |-> s.id, var |-> s.var, index |-> s.index]

\* exec_replicate and the loop around it: what the next token means.
ReadToken(s, t) ==
  CASE s.reads = "cmd" /\ t.kind = "cmd" -> [s EXCEPT !.reads = "var", !.id = t.n]
    [] s.reads = "cmd" /\ t.kind = "other" -> s
    [] s.reads = "cmd" /\ t.kind = "cmd_end" -> [s EXCEPT !.reads = "done"]
    [] s.reads = "var" /\ t.kind = "end" -> [s EXCEPT !.reads = "cmd"]
    [] s.reads = "var" /\ t.kind = "var" -> [s EXCEPT !.reads = "index", !.var = t.n]
    [] s.reads = "index" /\ t.kind = "end" -> [s EXCEPT !.reads = "var"]
    [] s.reads = "index" /\ t.kind = "index" -> [s EXCEPT !.reads = "value", !.index = t.n]
    [] s.reads = "value" /\ t.kind = "value" /\ Named(s) \in Item ->
         [s EXCEPT !.reads = "index",
                   !.found = Append(@, [item |-> Named(s), value |-> t.n])]
    [] OTHER -> [s EXCEPT !.reads = "error"]

\* read[i] is the state of the reader after the first i tokens.
Decode(data) ==
  LET read[i \in 0..Len(data)] ==
        IF i = 0 THEN [reads |-> "cmd", id |-> 0, var |-> 0, index |-> 0, found |-> <<>>]
        ELSE ReadToken(read[i - 1], data[i])
  IN  read[Len(data)]

\* The last value of a variable is read into it before the sequence number is looked at.
recv_a_var(found, sq) ==
  LET at(x) == {i \in 1..Len(found) : found[i].item = x}
  IN  /\ received' = [x \in Item |-> IF at(x) = {} THEN received[x]
                                     ELSE found[Max(at(x))].value]
      /\ sq_no' = [x \in Item |-> IF at(x) = {} \/ sq_no[x] > sq THEN sq_no[x] ELSE sq]

\* After an error what is left of the frame is ignored.
recieve_one_packet ==
  /\ flushing
  /\ LET p == m_incoming_pkt_list[1]
         d == Decode(p.data)
         error == d.reads # "done"
         rest == IF error THEN <<>> ELSE Tail(m_incoming_pkt_list)
     IN  /\ recv_a_var(d.found, p.sq)
         /\ m_is_hacker' = (m_is_hacker \/ error)
         /\ m_incoming_pkt_list' = rest
         /\ flushing' = (rest # <<>>)
  /\ UNCHANGED <<senderVars, pending, connected, networkVars>>

-------------------------------------------------------------------------------
Next ==
  \/ \E x \in Item : change(x)
  \/ \E r \in BOOLEAN, n \in CommandSize : send_net_cmd(r, n)
  \/ connect
  \/ update_out_going_replica
  \/ arrive_reliable
  \/ \E p \in unreliable : lose(p) \/ \E again \in BOOLEAN : arrive_unreliable(p, again)
  \/ flush_in_coming_packets \/ recieve_one_packet

Spec == Init /\ [][Next]_vars

-------------------------------------------------------------------------------
(* Properties. *)

OnTheWay == Range(reliable) \cup unreliable \cup Range(m_incoming_pkt_list)

\* Whatever the updates, however they are split over packets and mixed with commands,
\* a packet is not too large, and its reader finds what its writer put into it: a reader
\* out of step takes the sender for a hacker.
EncodedIsDecoded ==
  /\ \A p \in OnTheWay :
       /\ Len(p.data) <= PacketSize
       /\ Decode(p.data).reads = "done" /\ Decode(p.data).found = p.carries
  /\ ~m_is_hacker

\* When no reliable packet is on its way the receiver has, of each reliable variable, the
\* value of the last packet sent for it: it takes that at most one packet comes in a frame.
ReliableArrives ==
  LET quiet == /\ reliable = <<>>
               /\ \A p \in OnTheWay : \A i \in 1..Len(p.carries) : Priority[p.carries[i].item] > 0
  IN  quiet => \A x \in Item : Priority[x] = 0 => received[x] = owed[x]

\* A changed variable that stays shown is written to a packet after at most as many updates
\* as its priority: none starves, whatever changes with it and however often.
SentWithinPriority == \A x \in Item : waited[x] <= Priority[x]

\* A packet that comes after a newer one does not set the variable back.
NewerKept ==
  [][\A x \in Item : sq_no'[x] = sq_no[x] /\ sq_no[x] > 0 => received'[x] = received[x]]_vars
===============================================================================
