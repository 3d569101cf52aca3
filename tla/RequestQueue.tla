------------------------------ MODULE RequestQueue ------------------------------
(***************************************************************************)
(* post_request and do_exec_user_requests of gv_reliable_udp_server: user  *)
(* threads hand session events to the service thread, who executes them    *)
(* and may keep one as a result until the next service.  The list between  *)
(* them is atomic (LockFreeList implements ConcurrentStack); the reference *)
(* count of an event is atomic; s_service_id is a plain static variable,   *)
(* so its read and its write are steps of their own.                       *)
(*                                                                         *)
(* An event is named by its thread and its place among that thread's       *)
(* posts.                                                                  *)
(***************************************************************************)
EXTENDS Integers, Sequences, SequencesExt, FiniteSets

CONSTANTS
  Thread,     \* user threads
  MaxPosts    \* bound: posts of each thread

ASSUME QueueAssumption == MaxPosts \in Nat \ {0}

VARIABLES
  s_service_id,
  pc,         \* the step each user thread is at
  posts,      \* how many events each user thread has posted before this one
  read_id,    \* the value of s_service_id a thread has read
  service_id, \* of each event posted
  refs,       \* m_ref_count of each event
  dead,       \* events destroyed
  m_incoming_requests,  \* newest first
  service,    \* what the service thread holds: its list, the event it executes
  m_results,
  executed    \* events executed, in order

vars == <<s_service_id, pc, posts, read_id, service_id, refs, dead, m_incoming_requests,
          service, m_results, executed>>

Event == [thread : Thread, number : 1..MaxPosts]
Cu(t) == [thread |-> t, number |-> posts[t] + 1]
None == [thread |-> "none", number |-> 0]

TypeOK ==
  /\ s_service_id \in 0..(MaxPosts * Cardinality(Thread))
  /\ pc \in [Thread -> {"idle", "alloc", "store", "inc_ref", "push", "return"}]
  /\ posts \in [Thread -> 0..MaxPosts]
  /\ DOMAIN service_id = Event /\ DOMAIN refs = Event
  /\ \A e \in Event : refs[e] \in 0..3
  /\ dead \subseteq Event
  /\ m_incoming_requests \in Seq(Event) /\ m_results \in Seq(Event)
  /\ service.list \in Seq(Event) /\ service.event \in Event \cup {None}

Init ==
  /\ s_service_id = 0
  /\ pc = [t \in Thread |-> "idle"]
  /\ posts = [t \in Thread |-> 0]
  /\ read_id = [t \in Thread |-> 0]
  /\ service_id = [e \in Event |-> -1]
  /\ refs = [e \in Event |-> 0]
  /\ dead = {}
  /\ m_incoming_requests = <<>>
  /\ service = [pc |-> "idle", list |-> <<>>, event |-> None]
  /\ m_results = <<>>
  /\ executed = <<>>

-------------------------------------------------------------------------------
(* gv_refable *)

inc_ref(e) == refs' = [refs EXCEPT ![e] = @ + 1] /\ UNCHANGED dead

\* The last reference destroys the event.
dec_ref(e) ==
  /\ refs' = [refs EXCEPT ![e] = @ - 1]
  /\ dead' = IF refs[e] = 1 THEN dead \cup {e} ELSE dead

\* The same for every event of a sequence without repetition.
dec_refs(s) ==
  /\ refs' = [e \in Event |-> IF e \in ToSet(s) THEN refs[e] - 1 ELSE refs[e]]
  /\ dead' = dead \cup {e \in ToSet(s) : refs[e] = 1}

-------------------------------------------------------------------------------
(* A user thread. *)

Goto(t, from, to) == pc[t] = from /\ pc' = [pc EXCEPT ![t] = to]

create_event(t) ==
  /\ Goto(t, "idle", "alloc")
  /\ posts[t] < MaxPosts
  /\ inc_ref(Cu(t))
  /\ UNCHANGED <<s_service_id, posts, read_id, service_id, m_incoming_requests, service,
                 m_results, executed>>

\* alloc_service_id: s_service_id++
alloc_service_id(t) ==
  /\ Goto(t, "alloc", "store")
  /\ read_id' = [read_id EXCEPT ![t] = s_service_id]
  /\ UNCHANGED <<s_service_id, posts, service_id, refs, dead, m_incoming_requests,
                 service, m_results, executed>>

store_service_id(t) ==
  /\ Goto(t, "store", "inc_ref")
  /\ s_service_id' = read_id[t] + 1
  /\ service_id' = [service_id EXCEPT ![Cu(t)] = read_id[t]]
  /\ UNCHANGED <<posts, read_id, refs, dead, m_incoming_requests, service, m_results,
                 executed>>

\* Mutant: the list has no reference of its own.
list_reference_missing(t) ==
  /\ Goto(t, "inc_ref", "push")
  /\ UNCHANGED <<s_service_id, posts, read_id, service_id, refs, dead,
                 m_incoming_requests, service, m_results, executed>>

list_reference(t) ==
  /\ Goto(t, "inc_ref", "push")
  /\ inc_ref(Cu(t))
  /\ UNCHANGED <<s_service_id, posts, read_id, service_id, m_incoming_requests, service,
                 m_results, executed>>

push(t) ==
  /\ Goto(t, "push", "return")
  /\ m_incoming_requests' = <<Cu(t)>> \o m_incoming_requests
  /\ UNCHANGED <<s_service_id, posts, read_id, service_id, refs, dead, service,
                 m_results, executed>>

\* The caller's reference goes when it returns.
return(t) ==
  /\ Goto(t, "return", "idle")
  /\ dec_ref(Cu(t))
  /\ posts' = [posts EXCEPT ![t] = @ + 1]
  /\ UNCHANGED <<s_service_id, read_id, service_id, m_incoming_requests, service,
                 m_results, executed>>

-------------------------------------------------------------------------------
(* The service thread: do_exec_user_requests, the results of do_service. *)

At(step) == service.pc = step

\* m_results.clear()
clear_results ==
  /\ At("idle")
  /\ dec_refs(m_results)
  /\ m_results' = <<>>
  /\ service' = [service EXCEPT !.pc = "pop"]
  /\ UNCHANGED <<s_service_id, pc, posts, read_id, service_id, m_incoming_requests,
                 executed>>

\* Mutant: the list is not put in the order of the posts.
PoppedAsIs(s) == s

Popped(s) == Reverse(s)

pop_all ==
  /\ At("pop")
  /\ service' = [service EXCEPT !.pc = "next", !.list = Popped(m_incoming_requests)]
  /\ m_incoming_requests' = <<>>
  /\ UNCHANGED <<s_service_id, pc, posts, read_id, service_id, refs, dead, m_results,
                 executed>>

\* gvt_ref_ptr p(it)
hold ==
  /\ At("next") /\ service.list # <<>>
  /\ inc_ref(Head(service.list))
  /\ service' = [service EXCEPT !.pc = "assert", !.event = Head(service.list)]
  /\ UNCHANGED <<s_service_id, pc, posts, read_id, service_id, m_incoming_requests,
                 m_results, executed>>

\* it->dec_ref(), the reference of the list; it = it->next
release ==
  /\ At("assert")
  /\ dec_ref(service.event)
  /\ service' = [service EXCEPT !.pc = "exec", !.list = Tail(@)]
  /\ UNCHANGED <<s_service_id, pc, posts, read_id, service_id, m_incoming_requests,
                 m_results, executed>>

\* exec_request, and p goes: post_result keeps a reference of some events.
exec_request ==
  /\ At("exec")
  /\ executed' = Append(executed, service.event)
  /\ service' = [service EXCEPT !.pc = "next", !.event = None]
  /\ \/ /\ m_results' = Append(m_results, service.event)
        /\ UNCHANGED <<refs, dead>>
     \/ /\ dec_ref(service.event)
        /\ UNCHANGED m_results
  /\ UNCHANGED <<s_service_id, pc, posts, read_id, service_id, m_incoming_requests>>

service_end ==
  /\ At("next") /\ service.list = <<>>
  /\ service' = [service EXCEPT !.pc = "idle"]
  /\ UNCHANGED <<s_service_id, pc, posts, read_id, service_id, refs, dead,
                 m_incoming_requests, m_results, executed>>

-------------------------------------------------------------------------------
UserThread(t) ==
  \/ create_event(t) \/ alloc_service_id(t) \/ store_service_id(t)
  \/ list_reference(t) \/ push(t) \/ return(t)

ServiceThread ==
  \/ clear_results \/ pop_all \/ hold \/ release \/ exec_request \/ service_end

Next == ServiceThread \/ \E t \in Thread : UserThread(t)

Spec == Init /\ [][Next]_vars

-------------------------------------------------------------------------------
(* Properties. *)

Held ==
  ToSet(m_incoming_requests) \cup ToSet(service.list) \cup ToSet(m_results)
    \cup {Cu(t) : t \in {u \in Thread : pc[u] # "idle"}}
    \cup (IF service.event = None THEN {} ELSE {service.event})

\* An event is destroyed when, and only when, nobody holds it any more: not the
\* thread that posts it, the list, the service thread, nor the results, in whatever
\* order the service and the return of post_request let it go.
DestroyedWhenDone ==
  /\ Held \cap dead = {}
  /\ ToSet(executed) \subseteq Held \cup dead

\* GV_ASSERT(it->get_ref() > 1), the service thread's check on what it pops.
PoppedIsReferenced == At("assert") => refs[service.event] > 1

\* The requests of one thread are executed in the order it posted them, once each.
PostOrder ==
  \A i, j \in DOMAIN executed :
    i < j /\ executed[i].thread = executed[j].thread =>
      executed[i].number < executed[j].number

\* "post a event to request queue to command server , return unique service id."
UniqueServiceId ==
  \A e, f \in Event :
    service_id[e] # -1 /\ service_id[e] = service_id[f] => e = f
===============================================================================
