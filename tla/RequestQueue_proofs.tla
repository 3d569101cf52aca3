-------------------------- MODULE RequestQueue_proofs --------------------------
(***************************************************************************)
(* Proofs about RequestQueue, for every set of user threads and number of  *)
(* posts: the requests of a thread are executed in their order, and an     *)
(* event is destroyed exactly when its last holder lets it go.  For a      *)
(* finite set of threads, its counters stay in their ranges.               *)
(***************************************************************************)
EXTENDS RequestQueue, TLAPS, SequenceTheorems, FiniteSetTheorems

\* e is executed before f, if they are of one thread.
Before(e, f) == e.thread = f.thread => e.number < f.number
AllBefore(S, T) == \A e \in S : \A f \in T : Before(e, f)
Sorted(s) == \A i, j \in 1..Len(s) : i < j => Before(s[i], s[j])

-------------------------------------------------------------------------------
(* Sequences. *)

LEMMA AppendSorted ==
  ASSUME NEW S, NEW s \in Seq(S), NEW x \in S
  PROVE  /\ Append(s, x) \in Seq(S)
         /\ ToSet(Append(s, x)) = ToSet(s) \cup {x}
         /\ Sorted(s) /\ AllBefore(ToSet(s), {x}) => Sorted(Append(s, x))
<1>. DEFINE t == Append(s, x)
<1>1. /\ t \in Seq(S) /\ Len(t) = Len(s) + 1 /\ Len(s) \in Nat
      /\ \A i \in 1..Len(s) : t[i] = s[i]
      /\ t[Len(s) + 1] = x
  OBVIOUS
<1>2. DOMAIN s = 1..Len(s) /\ DOMAIN t = 1..Len(t)
  BY <1>1
<1>. HIDE DEF t
<1>3. ToSet(t) = ToSet(s) \cup {x}
  BY <1>1, <1>2 DEF ToSet
<1>4. ASSUME Sorted(s), AllBefore(ToSet(s), {x}),
             NEW i \in 1..Len(t), NEW j \in 1..Len(t), i < j
      PROVE  Before(t[i], t[j])
  <2>1. i \in 1..Len(s) /\ t[i] = s[i] /\ s[i] \in ToSet(s)
    BY <1>1, <1>2, <1>4 DEF ToSet
  <2>2. CASE j \in 1..Len(s)
    BY <1>1, <1>4, <2>1, <2>2 DEF Sorted
  <2>3. CASE j = Len(s) + 1
    BY <1>1, <1>4, <2>1, <2>3 DEF AllBefore
  <2>. QED
    BY <1>1, <2>2, <2>3
<1>. QED
  BY <1>1, <1>3, <1>4 DEF Sorted, t

LEMMA AppendEvent ==
  \A s \in Seq(Event), x \in Event :
    Append(s, x) \in Seq(Event) /\ ToSet(Append(s, x)) = ToSet(s) \cup {x}
<1>. SUFFICES ASSUME NEW s \in Seq(Event), NEW x \in Event
              PROVE  Append(s, x) \in Seq(Event) /\ ToSet(Append(s, x)) = ToSet(s) \cup {x}
  OBVIOUS
<1>. DEFINE t == Append(s, x)
<1>1. /\ t \in Seq(Event) /\ Len(t) = Len(s) + 1 /\ Len(s) \in Nat
      /\ \A i \in 1..Len(s) : t[i] = s[i]
      /\ t[Len(s) + 1] = x
  OBVIOUS
<1>2. DOMAIN s = 1..Len(s) /\ DOMAIN t = 1..Len(t)
  BY <1>1
<1>. HIDE DEF t
<1>3. ToSet(t) = ToSet(s) \cup {x}
  BY <1>1, <1>2 DEF ToSet
<1>. QED
  BY <1>1, <1>3 DEF t

LEMMA ConsSet ==
  ASSUME NEW S, NEW s \in Seq(S), NEW x \in S
  PROVE  ToSet(<<x>> \o s) = ToSet(s) \cup {x}
<1>. DEFINE t == <<x>> \o s
<1>1. /\ Len(t) = Len(s) + 1 /\ Len(s) \in Nat
      /\ t[1] = x /\ \A i \in 1..Len(s) : t[i + 1] = s[i]
      /\ DOMAIN t = 1..Len(t) /\ DOMAIN s = 1..Len(s)
  OBVIOUS
<1>. HIDE DEF t
<1>2. ASSUME NEW i \in 1..Len(t)
      PROVE  t[i] \in ToSet(s) \cup {x}
  <2>1. i # 1 => i - 1 \in 1..Len(s) /\ t[i] = s[i - 1]
    BY <1>1
  <2>. QED
    BY <1>1, <2>1 DEF ToSet
<1>3. \A i \in 1..Len(s) : s[i] \in ToSet(t)
  BY <1>1 DEF ToSet
<1>4. x \in ToSet(t)
  BY <1>1 DEF ToSet
<1>5. ToSet(t) \subseteq ToSet(s) \cup {x} /\ ToSet(s) \subseteq ToSet(t)
  BY <1>1, <1>2, <1>3 DEF ToSet
<1>. QED
  BY <1>4, <1>5 DEF t

LEMMA ReverseType ==
  ASSUME NEW S, NEW s \in Seq(S)
  PROVE  /\ Reverse(s) \in Seq(S)
         /\ ToSet(Reverse(s)) = ToSet(s)
         /\ Len(Reverse(s)) = Len(s)
         /\ \A i \in 1..Len(s) : Reverse(s)[i] = s[Len(s) - i + 1]
<1>. DEFINE t == Reverse(s)
<1>1. Len(s) \in Nat /\ DOMAIN s = 1..Len(s) /\ \A i \in 1..Len(s) : s[i] \in S
  OBVIOUS
<1>2. t = [i \in 1..Len(s) |-> s[Len(s) - i + 1]]
  BY DEF Reverse
<1>3. \A i \in 1..Len(s) : Len(s) - i + 1 \in 1..Len(s)
  BY <1>1
<1>4. t \in [1..Len(s) -> S]
  BY <1>1, <1>2, <1>3
<1>5. t \in Seq(S) /\ Len(t) = Len(s) /\ DOMAIN t = 1..Len(s)
  BY <1>1, <1>2, <1>4
<1>6. \A i \in 1..Len(s) : t[i] = s[Len(s) - i + 1]
  BY <1>2
<1>. HIDE DEF t
<1>7. ToSet(t) = ToSet(s)
  <2>1. ASSUME NEW i \in 1..Len(s)
        PROVE  s[i] = t[Len(s) - i + 1] /\ t[i] = s[Len(s) - i + 1]
    <3>1. Len(s) - i + 1 \in 1..Len(s) /\ Len(s) - (Len(s) - i + 1) + 1 = i
      BY <1>1
    <3>. QED
      BY <1>6, <3>1
  <2>. QED
    BY <1>1, <1>3, <1>5, <2>1 DEF ToSet
<1>. QED
  BY <1>5, <1>6, <1>7 DEF t

LEMMA ReverseSorted ==
  ASSUME NEW S, NEW s \in Seq(S), NEW x \in S,
         Sorted(Reverse(s)), AllBefore(ToSet(s), {x})
  PROVE  /\ <<x>> \o s \in Seq(S)
         /\ ToSet(<<x>> \o s) = ToSet(s) \cup {x}
         /\ Sorted(Reverse(<<x>> \o s))
<1>. DEFINE t == <<x>> \o s
<1>1. /\ t \in Seq(S) /\ Len(t) = Len(s) + 1 /\ Len(s) \in Nat
      /\ t[1] = x /\ \A i \in 1..Len(s) : t[i + 1] = s[i]
  OBVIOUS
<1>. HIDE DEF t
<1>2. /\ Reverse(t) \in Seq(S) /\ ToSet(Reverse(t)) = ToSet(t)
      /\ Len(Reverse(t)) = Len(t)
      /\ \A i \in 1..Len(t) : Reverse(t)[i] = t[Len(t) - i + 1]
  BY <1>1, ReverseType
<1>3. /\ Reverse(s) \in Seq(S) /\ ToSet(Reverse(s)) = ToSet(s)
      /\ Len(Reverse(s)) = Len(s)
      /\ \A i \in 1..Len(s) : Reverse(s)[i] = s[Len(s) - i + 1]
  BY ReverseType
<1>4. \A i \in 1..Len(s) : Reverse(t)[i] = Reverse(s)[i]
  <2>1. ASSUME NEW i \in 1..Len(s)
        PROVE  Reverse(t)[i] = Reverse(s)[i]
    <3>1. Len(t) - i + 1 = (Len(s) - i + 1) + 1 /\ Len(s) - i + 1 \in 1..Len(s)
      BY <1>1
    <3>2. t[Len(t) - i + 1] = s[Len(s) - i + 1]
      BY <1>1, <3>1
    <3>. QED
      BY <1>1, <1>2, <1>3, <3>2
  <2>. QED
    BY <2>1
<1>5. Reverse(t)[Len(s) + 1] = x
  BY <1>1, <1>2
<1>6. Reverse(t) = Append(Reverse(s), x)
  <2>. DEFINE u == Append(Reverse(s), x)
  <2>1. /\ u \in Seq(S) /\ Len(u) = Len(s) + 1 /\ u[Len(s) + 1] = x
        /\ \A i \in 1..Len(s) : u[i] = Reverse(s)[i]
    BY <1>3
  <2>. HIDE DEF u
  <2>2. \A i \in 1..Len(u) : Reverse(t)[i] = u[i]
    BY <1>1, <1>4, <1>5, <2>1
  <2>3. Reverse(t) = u
    BY <1>1, <1>2, <2>1, <2>2, SeqEqual
  <2>. QED
    BY <2>3 DEF u
<1>7. AllBefore(ToSet(Reverse(s)), {x})
  BY <1>3
<1>8. /\ ToSet(Reverse(t)) = ToSet(Reverse(s)) \cup {x}
      /\ Sorted(Reverse(t))
  BY <1>3, <1>6, <1>7, AppendSorted
<1>9. ToSet(t) = ToSet(s) \cup {x}
  BY <1>2, <1>3, <1>8
<1>. QED
  BY <1>1, <1>8, <1>9 DEF t

LEMMA TailSorted ==
  ASSUME NEW S, NEW s \in Seq(S), s # <<>>
  PROVE  /\ Head(s) \in S /\ Tail(s) \in Seq(S)
         /\ ToSet(s) = ToSet(Tail(s)) \cup {Head(s)}
         /\ Sorted(s) => Sorted(Tail(s)) /\ AllBefore({Head(s)}, ToSet(Tail(s)))
<1>. DEFINE t == Tail(s)
<1>1. /\ Head(s) = s[1] /\ s[1] \in S /\ t \in Seq(S)
      /\ Len(s) \in Nat \ {0} /\ Len(t) = Len(s) - 1
      /\ \A i \in 1..Len(t) : t[i] = s[i + 1]
      /\ DOMAIN s = 1..Len(s) /\ DOMAIN t = 1..Len(t)
  OBVIOUS
<1>. HIDE DEF t
<1>2. ToSet(s) = ToSet(t) \cup {Head(s)}
  <2>1. ASSUME NEW i \in 1..Len(s)
        PROVE  s[i] \in ToSet(t) \cup {Head(s)}
    <3>1. i # 1 => i - 1 \in 1..Len(t) /\ t[i - 1] = s[i]
      BY <1>1
    <3>. QED
      BY <1>1, <3>1 DEF ToSet
  <2>2. ASSUME NEW i \in 1..Len(t)
        PROVE  t[i] \in ToSet(s)
    BY <1>1 DEF ToSet
  <2>3. Head(s) \in ToSet(s)
    BY <1>1 DEF ToSet
  <2>4. ToSet(s) \subseteq ToSet(t) \cup {Head(s)}
    BY <1>1, <2>1 DEF ToSet
  <2>5. ToSet(t) \subseteq ToSet(s)
    BY <1>1, <2>2 DEF ToSet
  <2>. QED
    BY <2>3, <2>4, <2>5
<1>3. ASSUME Sorted(s)
      PROVE  Sorted(t)
  BY <1>1, <1>3 DEF Sorted
<1>4. ASSUME Sorted(s), NEW f \in ToSet(t)
      PROVE  Before(Head(s), f)
  <2>1. PICK i \in 1..Len(t) : f = t[i]
    BY <1>1 DEF ToSet
  <2>2. 1 \in 1..Len(s) /\ i + 1 \in 1..Len(s) /\ 1 < i + 1 /\ f = s[i + 1]
    BY <1>1, <2>1
  <2>. QED
    BY <1>1, <1>4, <2>2 DEF Sorted
<1>. QED
  BY <1>1, <1>2, <1>3, <1>4 DEF AllBefore, t

-------------------------------------------------------------------------------
(* The order of the posts. *)

Step == {"idle", "alloc", "store", "inc_ref", "push", "return"}

Shape ==
  /\ pc \in [Thread -> Step]
  /\ posts \in [Thread -> 0..MaxPosts]
  /\ \A t \in Thread : pc[t] # "idle" => posts[t] < MaxPosts
  /\ m_incoming_requests \in Seq(Event) /\ m_results \in Seq(Event)
  /\ executed \in Seq(Event)
  /\ service \in [pc : {"idle", "pop", "next", "assert", "exec"}, list : Seq(Event),
                  event : Event \cup {None}]
  /\ service.pc \in {"assert", "exec"} <=> service.event # None
  /\ service.pc \in {"idle", "pop"} => service.list = <<>>
  /\ service.pc = "assert" =>
       service.list # <<>> /\ service.event = Head(service.list)

\* The event that has left the list and is not yet executed.
Doing == IF service.pc = "exec" THEN {service.event} ELSE {}

Incoming == ToSet(m_incoming_requests)
Listed == ToSet(service.list)
Done == ToSet(executed)

\* What was pushed: the posts that have returned, and that about to.
Pushed(e) ==
  \/ e.number <= posts[e.thread]
  \/ e.number = posts[e.thread] + 1 /\ pc[e.thread] = "return"

\* On its way from the post to the execution no request overtakes another of its
\* thread, wherever the two are.
Order ==
  /\ Sorted(executed) /\ Sorted(service.list) /\ Sorted(Reverse(m_incoming_requests))
  /\ AllBefore(Done, Doing \cup Listed \cup Incoming)
  /\ AllBefore(Doing, Listed \cup Incoming)
  /\ AllBefore(Listed, Incoming)
  /\ \A e \in Done \cup Doing \cup Listed \cup Incoming : e \in Event /\ Pushed(e)

Ordered == Shape /\ Order

LEMMA EmptySorted == Sorted(<<>>) /\ Sorted(Reverse(<<>>)) /\ ToSet(<<>>) = {}
BY DEF Sorted, Reverse, ToSet

LEMMA OrderedInit == Init => Ordered
<1>. SUFFICES ASSUME Init
              PROVE  Ordered
  OBVIOUS
<1>1. Shape
  BY QueueAssumption DEF Init, Shape, Step
<1>2. Order
  BY EmptySorted DEF Init, Order, AllBefore, Done, Doing, Listed, Incoming
<1>. QED
  BY <1>1, <1>2 DEF Ordered

LEMMA EventFacts ==
  /\ None \notin Event
  /\ \A e \in Event : e.thread \in Thread /\ e.number \in Nat
  /\ \A t \in Thread : posts[t] \in Nat /\ posts[t] < MaxPosts => Cu(t) \in Event
  /\ \A t : Cu(t).thread = t /\ Cu(t).number = posts[t] + 1
BY QueueAssumption DEF None, Event, Cu

LEMMA UserShape ==
  ASSUME Shape, NEW t \in Thread, UserThread(t)
  PROVE  Shape'
<1>1. UNCHANGED <<m_results, executed, service>>
  BY DEF UserThread, create_event, alloc_service_id, store_service_id, list_reference, push,
         return
<1>2. m_incoming_requests' \in Seq(Event)
  <2>1. CASE push(t)
    <3>1. Cu(t) \in Event
      BY <2>1, EventFacts DEF push, Goto, Shape
    <3>. QED
      BY <2>1, <3>1 DEF push, Shape
  <2>2. CASE ~push(t)
    BY <2>2 DEF UserThread, create_event, alloc_service_id, store_service_id,
                list_reference, return, Shape
  <2>. QED
    BY <2>1, <2>2
<1>3. /\ pc' \in [Thread -> Step] /\ posts' \in [Thread -> 0..MaxPosts]
      /\ \A u \in Thread : pc'[u] # "idle" => posts'[u] < MaxPosts
  <2>1. CASE return(t)
    <3>1. /\ pc' \in [Thread -> Step] /\ pc'[t] = "idle"
          /\ \A u \in Thread \ {t} : pc'[u] = pc[u]
      BY <2>1 DEF return, Goto, Shape, Step
    <3>2. pc[t] # "idle" /\ posts[t] \in 0..MaxPosts /\ posts[t] < MaxPosts
      BY <2>1 DEF return, Goto, Shape
    <3>3. posts' = [posts EXCEPT ![t] = posts[t] + 1] /\ posts[t] + 1 \in 0..MaxPosts
      BY <2>1, <3>2, QueueAssumption DEF return
    <3>. QED
      BY <3>1, <3>3 DEF Shape
  <2>2. CASE create_event(t)
    BY <2>2, QueueAssumption DEF create_event, Goto, Shape, Step
  <2>3. CASE alloc_service_id(t) \/ store_service_id(t) \/ list_reference(t) \/ push(t)
    BY <2>3, QueueAssumption
    DEF alloc_service_id, store_service_id, list_reference, push, Goto, Shape, Step
  <2>. QED
    BY <2>1, <2>2, <2>3 DEF UserThread
<1>. QED
  BY <1>1, <1>2, <1>3 DEF Shape

\* What was pushed stays pushed.
LEMMA PushedKept ==
  ASSUME Shape, NEW t \in Thread, UserThread(t), NEW e \in Event, Pushed(e)
  PROVE  Pushed(e)'
<1>1. e.thread \in Thread /\ e.number \in Nat /\ posts[e.thread] \in Nat
  BY EventFacts DEF Shape
<1>2. CASE e.thread # t
  <2>1. pc'[e.thread] = pc[e.thread] /\ posts'[e.thread] = posts[e.thread]
    BY <1>1, <1>2 DEF UserThread, create_event, alloc_service_id, store_service_id,
                      list_reference, push, return, Goto, Shape
  <2>. QED
    BY <2>1 DEF Pushed
<1>3. CASE e.thread = t /\ return(t)
  <2>1. posts'[t] = posts[t] + 1
    BY <1>3 DEF return, Shape
  <2>. QED
    BY <1>1, <1>3, <2>1 DEF Pushed
<1>4. CASE e.thread = t /\ ~return(t)
  <2>1. pc[t] # "return" /\ UNCHANGED posts
    BY <1>4 DEF UserThread, create_event, alloc_service_id, store_service_id,
                list_reference, push, Goto
  <2>. QED
    BY <1>4, <2>1 DEF Pushed
<1>. QED
  BY <1>2, <1>3, <1>4

LEMMA UserOrdered ==
  ASSUME Ordered, NEW t \in Thread, UserThread(t)
  PROVE  Ordered'
<1>. USE DEF Ordered
<1>1. Shape'
  BY UserShape
<1>2. \A e \in Done \cup Doing \cup Listed \cup Incoming : e \in Event /\ Pushed(e)'
  BY PushedKept DEF Order
<1>3. UNCHANGED <<executed, service>>
  BY DEF UserThread, create_event, alloc_service_id, store_service_id, list_reference, push,
         return
<1>4. UNCHANGED <<Done, Doing, Listed>>
  BY <1>3 DEF Done, Doing, Listed
<1>5. CASE push(t)
  <2>1. /\ pc[t] = "push" /\ pc' = [pc EXCEPT ![t] = "return"]
        /\ m_incoming_requests' = <<Cu(t)>> \o m_incoming_requests
        /\ UNCHANGED posts
    BY <1>5 DEF push, Goto
  <2>2. PICK x \in Event : x = Cu(t) /\ x.thread = t /\ x.number = posts[t] + 1
    BY <2>1, EventFacts DEF Shape
  <2>3. \A e \in Done \cup Doing \cup Listed \cup Incoming : Before(e, x)
    <3>. SUFFICES ASSUME NEW e \in Done \cup Doing \cup Listed \cup Incoming, e.thread = t
                  PROVE  e.number < posts[t] + 1
      BY <2>2 DEF Before
    <3>1. e \in Event /\ Pushed(e)
      BY DEF Order
    <3>. QED
      BY <2>1, <3>1, EventFacts DEF Pushed, Shape
  <2>4. AllBefore(ToSet(m_incoming_requests), {x}) /\ Sorted(Reverse(m_incoming_requests))
    BY <2>3 DEF AllBefore, Incoming, Order
  <2>5. /\ ToSet(<<x>> \o m_incoming_requests) = Incoming \cup {x}
        /\ Sorted(Reverse(<<x>> \o m_incoming_requests))
    <3>1. m_incoming_requests \in Seq(Event)
      BY DEF Shape
    <3>. HIDE DEF Ordered
    <3>2. /\ ToSet(<<x>> \o m_incoming_requests) = ToSet(m_incoming_requests) \cup {x}
          /\ Sorted(Reverse(<<x>> \o m_incoming_requests))
      BY <2>4, <3>1, ReverseSorted
    <3>. QED
      BY <3>2 DEF Incoming
  <2>6. Incoming' = Incoming \cup {x} /\ Sorted(Reverse(m_incoming_requests'))
    BY <2>1, <2>2, <2>5 DEF Incoming
  <2>7. Pushed(x)'
    BY <2>1, <2>2 DEF Pushed, Shape
  <2>8. AllBefore(Done \cup Doing \cup Listed, Incoming')
    BY <2>3, <2>6 DEF AllBefore, Order
  <2>. QED
    BY <1>1, <1>2, <1>3, <1>4, <2>6, <2>7, <2>8 DEF Order, AllBefore
<1>6. CASE ~push(t)
  <2>1. UNCHANGED m_incoming_requests
    BY <1>6 DEF UserThread, create_event, alloc_service_id, store_service_id, list_reference,
                return
  <2>. QED
    BY <1>1, <1>2, <1>3, <1>4, <2>1 DEF Order, Incoming
<1>. QED
  BY <1>5, <1>6

LEMMA ServiceOrdered == Ordered /\ ServiceThread => Ordered'
<1>. SUFFICES ASSUME Ordered, ServiceThread
              PROVE  Ordered'
  OBVIOUS
<1>. USE DEF Ordered
<1>1. UNCHANGED <<pc, posts>>
  BY DEF ServiceThread, clear_results, pop_all, hold, release, exec_request, service_end
<1>2. \A e : Pushed(e)' = Pushed(e)
  BY <1>1 DEF Pushed
<1>3. /\ service.list \in Seq(Event) /\ m_incoming_requests \in Seq(Event)
      /\ m_results \in Seq(Event) /\ executed \in Seq(Event)
      /\ service.event \in Event \cup {None}
  BY DEF Shape
<1>4. CASE clear_results
  <2>1. /\ service.pc = "idle" /\ service' = [service EXCEPT !.pc = "pop"]
        /\ m_results' = <<>> /\ UNCHANGED <<executed, m_incoming_requests>>
    BY <1>4 DEF clear_results, At
  <2>2. Shape'
    BY <1>1, <2>1 DEF Shape
  <2>3. UNCHANGED <<Done, Doing, Listed, Incoming, service.list>>
    BY <2>1 DEF Done, Doing, Listed, Incoming, Shape
  <2>. QED
    BY <1>2, <2>1, <2>2, <2>3 DEF Order
<1>5. CASE pop_all
  <2>. DEFINE list == Reverse(m_incoming_requests)
  <2>1. /\ service.pc = "pop" /\ service' = [service EXCEPT !.pc = "next", !.list = list]
        /\ m_incoming_requests' = <<>> /\ UNCHANGED <<executed, m_results>>
    BY <1>5 DEF pop_all, At, Popped
  <2>2. list \in Seq(Event) /\ ToSet(list) = Incoming
    BY <1>3, ReverseType DEF Incoming
  <2>3. service'.list = list /\ service'.pc = "next" /\ service'.event = service.event
    BY <2>1 DEF Shape
  <2>4. Shape'
    BY <1>1, <2>1, <2>2 DEF Shape
  <2>5. Done' = Done /\ Doing' = {} /\ Listed' = Incoming /\ Incoming' = {}
    BY <2>1, <2>2, <2>3, EmptySorted DEF Done, Doing, Listed, Incoming
  <2>6. Sorted(list) /\ Sorted(Reverse(m_incoming_requests'))
    BY <2>1, EmptySorted DEF Order
  <2>. QED
    BY <1>2, <2>1, <2>3, <2>4, <2>5, <2>6 DEF Order, AllBefore
<1>6. CASE hold
  <2>1. /\ service.pc = "next" /\ service.list # <<>>
        /\ service' = [service EXCEPT !.pc = "assert", !.event = Head(service.list)]
        /\ UNCHANGED <<executed, m_incoming_requests, m_results>>
    BY <1>6 DEF hold, At
  <2>2. Head(service.list) \in Event /\ Head(service.list) # None
    BY <1>3, <2>1, TailSorted, EventFacts
  <2>3. Shape'
    BY <1>1, <2>1, <2>2 DEF Shape
  <2>4. UNCHANGED <<Done, Doing, Listed, Incoming, service.list>>
    BY <2>1 DEF Done, Doing, Listed, Incoming, Shape
  <2>. QED
    BY <1>2, <2>1, <2>3, <2>4 DEF Order
<1>7. CASE release
  <2>1. /\ service.pc = "assert" /\ service.list # <<>>
        /\ service.event = Head(service.list)
        /\ service' = [service EXCEPT !.pc = "exec", !.list = Tail(service.list)]
        /\ UNCHANGED <<executed, m_incoming_requests, m_results>>
    BY <1>7 DEF release, At, Shape
  <2>2. /\ service.event \in Event /\ Tail(service.list) \in Seq(Event)
        /\ Listed = ToSet(Tail(service.list)) \cup {service.event}
        /\ Sorted(Tail(service.list))
        /\ AllBefore({service.event}, ToSet(Tail(service.list)))
    BY <1>3, <2>1, TailSorted DEF Order, Listed
  <2>3. service'.list = Tail(service.list) /\ service'.pc = "exec"
        /\ service'.event = service.event
    BY <2>1 DEF Shape
  <2>4. Shape'
    BY <1>1, <2>1, <2>2, EventFacts DEF Shape
  <2>5. /\ UNCHANGED <<Done, Incoming>> /\ Doing = {} /\ Doing' = {service.event}
        /\ Listed' \subseteq Listed /\ Doing' \subseteq Listed
        /\ AllBefore(Doing', Listed')
    BY <2>1, <2>2, <2>3 DEF Done, Doing, Listed, Incoming
  <2>. QED
    BY <1>2, <2>1, <2>2, <2>3, <2>4, <2>5 DEF Order, AllBefore
<1>8. CASE exec_request
  <2>1. /\ service.pc = "exec" /\ executed' = Append(executed, service.event)
        /\ service' = [service EXCEPT !.pc = "next", !.event = None]
        /\ m_results' \in {m_results, Append(m_results, service.event)}
        /\ UNCHANGED m_incoming_requests
    BY <1>8 DEF exec_request, At
  <2>2. service.event \in Event /\ Doing = {service.event}
    BY <2>1 DEF Shape, Doing
  <2>3. service'.list = service.list /\ service'.pc = "next" /\ service'.event = None
    BY <2>1 DEF Shape
  <2>4. /\ executed' \in Seq(Event) /\ Done' = Done \cup {service.event}
        /\ Sorted(executed')
    BY <1>3, <2>1, <2>2, AppendSorted DEF Order, AllBefore, Done
  <2>5. m_results' \in Seq(Event)
    <3>1. Append(m_results, service.event) \in Seq(Event)
      BY <1>3, <2>2, AppendSorted
    <3>. QED
      BY <1>3, <2>1, <3>1
  <2>6. Shape'
    BY <1>1, <2>1, <2>4, <2>5 DEF Shape
  <2>7. UNCHANGED <<Listed, Incoming>> /\ Doing' = {}
    BY <2>1, <2>3 DEF Doing, Listed, Incoming
  <2>. QED
    BY <1>2, <2>1, <2>2, <2>3, <2>4, <2>6, <2>7 DEF Order, AllBefore
<1>9. CASE service_end
  <2>1. /\ service.pc = "next" /\ service.list = <<>>
        /\ service' = [service EXCEPT !.pc = "idle"]
        /\ UNCHANGED <<executed, m_incoming_requests, m_results>>
    BY <1>9 DEF service_end, At
  <2>2. Shape'
    BY <1>1, <2>1 DEF Shape
  <2>3. UNCHANGED <<Done, Doing, Listed, Incoming, service.list>>
    BY <2>1 DEF Done, Doing, Listed, Incoming, Shape
  <2>. QED
    BY <1>2, <2>1, <2>2, <2>3 DEF Order
<1>. QED
  BY <1>4, <1>5, <1>6, <1>7, <1>8, <1>9 DEF ServiceThread

LEMMA OrderedStep == Ordered /\ [Next]_vars => Ordered'
<1>1. Ordered /\ UNCHANGED vars => Ordered'
  BY DEF Ordered, Shape, Order, Done, Doing, Listed, Incoming, Pushed, vars
<1>. QED
  BY <1>1, UserOrdered, ServiceOrdered DEF Next

\* The requests of one thread are executed in the order it posted them, once each, whatever
\* the threads do between the steps of the others (post_request, do_exec_user_requests).
THEOREM PostsInOrder == Spec => []PostOrder
<1>1. Ordered => PostOrder
  <2>. SUFFICES ASSUME Ordered, NEW i \in DOMAIN executed, NEW j \in DOMAIN executed, i < j,
                       executed[i].thread = executed[j].thread
                PROVE  executed[i].number < executed[j].number
    BY DEF PostOrder
  <2>1. DOMAIN executed = 1..Len(executed)
    BY DEF Ordered, Shape
  <2>. QED
    BY <2>1 DEF Ordered, Order, Sorted, Before
<1>. QED
  BY <1>1, OrderedInit, OrderedStep, PTL DEF Spec

-------------------------------------------------------------------------------
(* The references. *)

One(b) == IF b THEN 1 ELSE 0

Posting(e) == pc[e.thread] # "idle" /\ e.number = posts[e.thread] + 1

\* The list's reference is counted before the push.
OnList(e) == (Posting(e) /\ pc[e.thread] = "push") \/ e \in Listed \cup Incoming

Kept == ToSet(m_results)

\* The references of an event are those of its caller, of the list, of the service thread
\* and of the results; without any it is destroyed once its post has returned.
Counted ==
  /\ refs \in [Event -> Int] /\ dead \subseteq Event
  /\ \A e \in Event :
       /\ refs[e] = One(Posting(e)) + One(OnList(e)) + One(service.event = e) + One(e \in Kept)
       /\ e \in dead <=> refs[e] = 0 /\ e.number <= posts[e.thread]
  /\ Kept \subseteq Done

LEMMA OneFacts == \A b : One(b) \in {0, 1} /\ (b => One(b) = 1) /\ (~b => One(b) = 0)
BY DEF One

LEMMA CountedInit == Init => Counted
<1>. SUFFICES ASSUME Init
              PROVE  Counted
  OBVIOUS
<1>1. Kept = {} /\ Listed = {} /\ Incoming = {}
  BY EmptySorted DEF Init, Kept, Listed, Incoming
<1>2. \A e \in Event : /\ pc[e.thread] = "idle" /\ posts[e.thread] = 0 /\ e # None
                       /\ e.number \in 1..MaxPosts
  BY EventFacts, QueueAssumption DEF Init, Event
<1>3. \A e \in Event : ~Posting(e) /\ ~OnList(e) /\ service.event # e
  BY <1>1, <1>2 DEF Init, Posting, OnList
<1>4. refs = [e \in Event |-> 0] /\ dead = {}
  BY DEF Init
<1>5. ASSUME NEW e \in Event
      PROVE  /\ refs[e] = One(Posting(e)) + One(OnList(e)) + One(service.event = e)
                         + One(e \in Kept)
             /\ ~(e.number <= posts[e.thread])
  <2>1. e \notin Kept /\ ~Posting(e) /\ ~OnList(e) /\ service.event # e
    BY <1>1, <1>3
  <2>2. refs[e] = 0 /\ e.number \in 1..MaxPosts /\ posts[e.thread] = 0
    BY <1>2, <1>4
  <2>. QED
    BY <2>1, <2>2, QueueAssumption DEF One
<1>6. refs \in [Event -> Int]
  BY <1>4
<1>. QED
  BY <1>1, <1>4, <1>5, <1>6 DEF Counted

\* No event is in two places of its way.
LEMMA Apart ==
  ASSUME Ordered
  PROVE  /\ Listed \cap Incoming = {} /\ Doing \cap (Listed \cup Incoming) = {}
         /\ Done \cap (Doing \cup Listed \cup Incoming) = {}
<1>1. ASSUME NEW S, NEW T, AllBefore(S, T), S \subseteq Event
      PROVE  S \cap T = {}
  BY <1>1, EventFacts DEF AllBefore, Before
<1>2. Done \subseteq Event /\ Doing \subseteq Event /\ Listed \subseteq Event
  BY DEF Ordered, Order
<1>. QED
  BY <1>1, <1>2 DEF Ordered, Order

LEMMA PushedPosting ==
  ASSUME Ordered, NEW e \in Done \cup Doing \cup Listed \cup Incoming
  PROVE  /\ e \in Event /\ (e.number <= posts[e.thread] \/ Posting(e))
         /\ ~(Posting(e) /\ pc[e.thread] = "push")
<1>1. /\ e \in Event /\ Pushed(e) /\ e.number \in Nat /\ posts[e.thread] \in Nat
  BY EventFacts DEF Ordered, Order, Shape
<1>. QED
  BY <1>1 DEF Pushed, Posting

LEMMA UserCounted ==
  ASSUME Ordered, Counted, NEW t \in Thread, UserThread(t)
  PROVE  Counted'
<1>. USE DEF Ordered
<1>1. UNCHANGED <<m_results, executed, service>>
  BY DEF UserThread, create_event, alloc_service_id, store_service_id, list_reference, push,
         return
<1>2. UNCHANGED <<Kept, Done, Listed, service.event>>
  BY <1>1 DEF Kept, Done, Listed
<1>3. /\ \A u \in Thread \ {t} : pc'[u] = pc[u] /\ posts'[u] = posts[u]
      /\ posts[t] \in Nat /\ pc \in [Thread -> Step]
  BY DEF UserThread, create_event, alloc_service_id, store_service_id, list_reference, push,
         return, Goto, Shape
<1>4. PICK x : x = Cu(t) /\ x.thread = t /\ x.number = posts[t] + 1
  BY EventFacts
<1>5. x \in Event
  <2>1. posts[t] < MaxPosts
    BY DEF UserThread, create_event, alloc_service_id, store_service_id, list_reference, push,
           return, Goto, Shape
  <2>. QED
    BY <1>3, <1>4, <2>1, EventFacts
<1>6. \A e \in Event : e # x => e.thread # t \/ e.number # posts[t] + 1
  BY <1>4 DEF Event, Cu
<1>7. \A e \in Event : e.thread \in Thread /\ e.number \in Nat
  BY EventFacts
<1>8. ASSUME UNCHANGED <<refs, dead, posts, Incoming>>, pc[t] # "idle", pc'[t] # "idle",
             pc[t] # "push", pc'[t] # "push"
      PROVE  Counted'
  <2>1. \A e \in Event : Posting(e)' = Posting(e) /\ OnList(e)' = OnList(e)
    BY <1>2, <1>3, <1>6, <1>7, <1>8 DEF Posting, OnList
  <2>. QED
    BY <1>2, <1>8, <2>1 DEF Counted
<1>9. CASE alloc_service_id(t) \/ store_service_id(t)
  <2>1. /\ UNCHANGED <<refs, dead, posts, m_incoming_requests>>
        /\ pc[t] \notin {"idle", "push"} /\ pc'[t] \notin {"idle", "push"}
    BY <1>3, <1>9 DEF alloc_service_id, store_service_id, Goto
  <2>. QED
    BY <1>8, <2>1 DEF Incoming
<1>10. \A e \in Event : e # x => Posting(e)' = Posting(e)
  BY <1>3, <1>6, <1>7
  DEF UserThread, create_event, alloc_service_id, store_service_id, list_reference, push,
      return, Goto, Posting, Shape
<1>11. x \notin Listed \cup Incoming \/ pc[t] = "return"
  BY <1>3, <1>4 DEF Order, Pushed
<1>12. CASE create_event(t)
  <2>1. /\ pc[t] = "idle" /\ pc'[t] = "alloc" /\ refs' = [refs EXCEPT ![x] = @ + 1]
        /\ UNCHANGED <<dead, posts, Incoming>>
    BY <1>3, <1>4, <1>12 DEF create_event, Goto, inc_ref, Incoming
  <2>2. ~Posting(x) /\ Posting(x)' /\ ~OnList(x) /\ ~OnList(x)'
    BY <1>2, <1>4, <1>11, <2>1 DEF Posting, OnList
  <2>3. \A e \in Event : e # x => OnList(e)' = OnList(e)
    BY <1>2, <1>3, <1>7, <1>10, <2>1 DEF OnList, Posting
  <2>4. x \notin dead /\ refs[x] >= 0 /\ ~(x.number <= posts[t])
    BY <1>3, <1>4, <1>5, <1>7, OneFacts DEF Counted
  <2>5. \A e \in Event : refs'[e] = IF e = x THEN refs[x] + 1 ELSE refs[e]
    BY <2>1 DEF Counted
  <2>6. \A e \in Event : e # x => /\ One(Posting(e))' = One(Posting(e))
                                /\ One(OnList(e))' = One(OnList(e))
    BY <1>10, <2>3 DEF One
  <2>7. One(Posting(x))' = One(Posting(x)) + 1 /\ One(OnList(x))' = One(OnList(x))
    BY <2>2 DEF One
  <2>. QED
    BY <1>2, <1>4, <1>5, <1>7, <2>1, <2>4, <2>5, <2>6, <2>7, OneFacts DEF Counted
<1>13. CASE list_reference(t)
  <2>1. /\ pc[t] = "inc_ref" /\ pc'[t] = "push" /\ refs' = [refs EXCEPT ![x] = @ + 1]
        /\ UNCHANGED <<dead, posts, Incoming>>
    BY <1>3, <1>4, <1>13 DEF list_reference, Goto, inc_ref, Incoming
  <2>2. Posting(x) /\ Posting(x)' /\ ~OnList(x) /\ OnList(x)'
    BY <1>2, <1>4, <1>11, <2>1 DEF Posting, OnList
  <2>3. \A e \in Event : e # x => OnList(e)' = OnList(e)
    BY <1>2, <1>3, <1>7, <1>6, <1>10, <2>1 DEF OnList, Posting
  <2>4. x \notin dead /\ refs[x] >= 0 /\ ~(x.number <= posts[t])
    BY <1>3, <1>4, <1>5, <1>7, OneFacts DEF Counted
  <2>5. \A e \in Event : refs'[e] = IF e = x THEN refs[x] + 1 ELSE refs[e]
    BY <2>1 DEF Counted
  <2>6. \A e \in Event : e # x => /\ One(Posting(e))' = One(Posting(e))
                                /\ One(OnList(e))' = One(OnList(e))
    BY <1>10, <2>3 DEF One
  <2>7. One(Posting(x))' = One(Posting(x)) /\ One(OnList(x))' = One(OnList(x)) + 1
    BY <2>2 DEF One
  <2>. QED
    BY <1>2, <1>4, <1>5, <1>7, <2>1, <2>4, <2>5, <2>6, <2>7, OneFacts DEF Counted
<1>14. CASE push(t)
  <2>1. /\ pc[t] = "push" /\ pc'[t] = "return" /\ UNCHANGED <<refs, dead, posts>>
        /\ m_incoming_requests' = <<x>> \o m_incoming_requests
    BY <1>3, <1>4, <1>14 DEF push, Goto
  <2>2. Incoming' = Incoming \cup {x}
    <3>1. m_incoming_requests \in Seq(Event)
      BY DEF Shape
    <3>. HIDE DEF Ordered
    <3>. QED
      BY <1>5, <2>1, <3>1, ConsSet DEF Incoming
  <2>3. Posting(x) /\ Posting(x)' /\ OnList(x) /\ OnList(x)'
    BY <1>2, <1>4, <2>1, <2>2 DEF Posting, OnList
  <2>4. \A e \in Event : e # x => OnList(e)' = OnList(e)
    BY <1>2, <1>3, <1>7, <1>6, <1>10, <2>1, <2>2 DEF OnList, Posting
  <2>5. \A e \in Event : /\ One(Posting(e))' = One(Posting(e))
                         /\ One(OnList(e))' = One(OnList(e))
    BY <1>10, <2>3, <2>4 DEF One
  <2>. QED
    BY <1>2, <2>1, <2>5 DEF Counted
<1>15. CASE return(t)
  <2>1. /\ pc[t] = "return" /\ pc'[t] = "idle" /\ refs' = [refs EXCEPT ![x] = @ - 1]
        /\ dead' = IF refs[x] = 1 THEN dead \cup {x} ELSE dead
        /\ posts'[t] = posts[t] + 1 /\ UNCHANGED Incoming
    BY <1>3, <1>4, <1>15 DEF return, Goto, dec_ref, Incoming, Shape
  <2>2. Posting(x) /\ ~Posting(x)' /\ OnList(x)' = OnList(x)
    BY <1>2, <1>4, <2>1 DEF Posting, OnList
  <2>3. \A e \in Event : e # x => OnList(e)' = OnList(e)
    BY <1>2, <1>3, <1>7, <1>6, <1>10, <2>1 DEF OnList, Posting
  <2>4. x \notin dead /\ ~(x.number <= posts[t]) /\ x.number <= posts'[t]
    BY <1>3, <1>4, <1>5, <1>7, <2>1 DEF Counted
  <2>5. \A e \in Event : refs'[e] = IF e = x THEN refs[x] - 1 ELSE refs[e]
    BY <2>1 DEF Counted
  <2>6. \A e \in Event : e # x => /\ One(Posting(e))' = One(Posting(e))
                                /\ One(OnList(e))' = One(OnList(e))
    BY <1>10, <2>3 DEF One
  <2>7. One(Posting(x))' = One(Posting(x)) - 1 /\ One(OnList(x))' = One(OnList(x))
    BY <2>2 DEF One
  <2>8. \A e \in Event : e # x => (e.number <= posts'[e.thread] <=> e.number <= posts[e.thread])
    BY <1>3, <1>6, <1>7, <2>1
  <2>. QED
    BY <1>2, <1>4, <1>5, <1>7, <2>1, <2>4, <2>5, <2>6, <2>7, <2>8, OneFacts DEF Counted
<1>. QED
  BY <1>9, <1>12, <1>13, <1>14, <1>15 DEF UserThread

LEMMA ServiceCounted == Ordered /\ Counted /\ ServiceThread => Counted'
<1>. SUFFICES ASSUME Ordered, Counted, ServiceThread
              PROVE  Counted'
  OBVIOUS
<1>1. UNCHANGED <<pc, posts>>
  BY DEF ServiceThread, clear_results, pop_all, hold, release, exec_request, service_end
<1>2. \A e : Posting(e)' = Posting(e)
  BY <1>1 DEF Posting
<1>3. /\ service.list \in Seq(Event) /\ m_incoming_requests \in Seq(Event)
      /\ m_results \in Seq(Event) /\ executed \in Seq(Event)
      /\ service.event \in Event \cup {None} /\ None \notin Event
  BY EventFacts DEF Ordered, Shape
<1>4. \A e \in Event : e.number \in Nat /\ posts[e.thread] \in Nat
  BY EventFacts DEF Ordered, Shape
<1>5. \A e \in Event : refs[e] \in Int
  BY DEF Counted
\* An event the service thread holds one reference of dies with it.
<1>6. ASSUME NEW e \in Done \cup Doing \cup Listed \cup Incoming, refs[e] = 1,
             service.event = e \/ e \in Kept
      PROVE  e.number <= posts[e.thread]
  <2>1. e \in Event /\ (e.number <= posts[e.thread] \/ Posting(e))
    BY PushedPosting
  <2>2. refs[e] = One(Posting(e)) + One(OnList(e)) + One(service.event = e) + One(e \in Kept)
    BY <2>1 DEF Counted
  <2>3. ~Posting(e)
    BY <1>6, <2>2 DEF One
  <2>. QED
    BY <2>1, <2>3
<1>7. CASE clear_results
  <2>1. /\ service' = [service EXCEPT !.pc = "pop"] /\ UNCHANGED <<executed, m_incoming_requests>>
        /\ m_results' = <<>>
        /\ refs' = [e \in Event |-> IF e \in Kept THEN refs[e] - 1 ELSE refs[e]]
        /\ dead' = dead \cup {e \in Kept : refs[e] = 1}
    BY <1>7 DEF clear_results, dec_refs, Kept
  <2>2. Kept' = {}
    BY <2>1, EmptySorted DEF Kept
  <2>3. UNCHANGED <<Done, Listed, Incoming, service.event>>
    BY <2>1 DEF Ordered, Shape, Done, Listed, Incoming
  <2>4. \A e : OnList(e)' = OnList(e)
    BY <1>1, <1>2, <2>3 DEF OnList
  <2>5. \A e \in Kept : refs[e] = 1 => e.number <= posts[e.thread]
    BY <1>6 DEF Counted
  <2>6. \A e \in Kept : refs[e] >= 1 /\ e \in Event
    <3>1. Kept \subseteq Event
      BY DEF Counted, Ordered, Order
    <3>2. ASSUME NEW e \in Kept
          PROVE  refs[e] >= 1
      <4>1. refs[e] = One(Posting(e)) + One(OnList(e)) + One(service.event = e)
                      + One(e \in Kept)
        BY <3>1 DEF Counted
      <4>. QED
        BY <4>1 DEF One
    <3>. QED
      BY <3>1, <3>2
  <2>7. \A e \in Event : /\ One(e \in Kept)' = 0
                         /\ One(e \in Kept) = IF e \in Kept THEN 1 ELSE 0
                         /\ One(Posting(e))' = One(Posting(e))
                         /\ One(OnList(e))' = One(OnList(e))
    BY <1>2, <2>2, <2>4 DEF One
  <2>. QED
    BY <1>1, <1>5, <2>1, <2>2, <2>3, <2>5, <2>6, <2>7, OneFacts DEF Counted
<1>8. CASE pop_all
  <2>1. /\ service.list = <<>> /\ m_incoming_requests' = <<>>
        /\ service' = [service EXCEPT !.pc = "next", !.list = Reverse(m_incoming_requests)]
        /\ UNCHANGED <<refs, dead, m_results, executed>>
    BY <1>8 DEF pop_all, At, Popped, Ordered, Shape
  <2>2. Listed' = Incoming /\ Listed = {} /\ Incoming' = {}
    <3>1. ToSet(Reverse(m_incoming_requests)) = Incoming
      BY <1>3, ReverseType DEF Incoming
    <3>2. service'.list = Reverse(m_incoming_requests)
      BY <2>1 DEF Ordered, Shape
    <3>. QED
      BY <2>1, <3>1, <3>2, EmptySorted DEF Listed, Incoming
  <2>3. UNCHANGED <<Kept, Done, service.event>>
    BY <2>1 DEF Kept, Done, Ordered, Shape
  <2>4. \A e : OnList(e)' = OnList(e)
    BY <1>1, <1>2, <2>2 DEF OnList
  <2>5. \A e \in Event : One(Posting(e))' = One(Posting(e)) /\ One(OnList(e))' = One(OnList(e))
    BY <1>2, <2>4 DEF One
  <2>. QED
    BY <1>1, <2>1, <2>3, <2>5 DEF Counted
<1>9. CASE hold
  <2>1. /\ service.list # <<>> /\ service.event = None
        /\ service' = [service EXCEPT !.pc = "assert", !.event = Head(service.list)]
        /\ refs' = [refs EXCEPT ![Head(service.list)] = @ + 1]
        /\ UNCHANGED <<dead, m_results, executed, m_incoming_requests>>
    BY <1>9 DEF hold, inc_ref, At, Ordered, Shape
  <2>2. PICK x \in Event : x = Head(service.list) /\ x \in Listed
    <3>1. service.list \in Seq(Event) /\ service.list # <<>>
      BY <1>3, <2>1
    <3>2. /\ Head(service.list) \in Event
          /\ ToSet(service.list) = ToSet(Tail(service.list)) \cup {Head(service.list)}
      BY <3>1, TailSorted
    <3>. QED
      BY <3>2 DEF Listed
  <2>3. service'.event = x /\ UNCHANGED <<Listed, Incoming, Kept, Done>>
    BY <2>1, <2>2 DEF Listed, Incoming, Kept, Done, Ordered, Shape
  <2>4. \A e : OnList(e)' = OnList(e)
    BY <1>1, <1>2, <2>3 DEF OnList
  <2>5. \A e \in Event : /\ One(Posting(e))' = One(Posting(e))
                         /\ One(OnList(e))' = One(OnList(e))
                         /\ One(service.event = e) = 0
                         /\ One(service.event = e)' = IF e = x THEN 1 ELSE 0
                         /\ One(e \in Kept)' = One(e \in Kept)
    BY <1>2, <1>3, <2>1, <2>3, <2>4 DEF One
  <2>6. \A e \in Event : refs'[e] = IF e = x THEN refs[x] + 1 ELSE refs[e]
    BY <2>1, <2>2 DEF Counted
  <2>7. refs[x] >= 1
    <3>1. /\ refs[x] = One(Posting(x)) + One(OnList(x)) + One(service.event = x) + One(x \in Kept)
          /\ OnList(x)
      BY <2>2 DEF Counted, OnList
    <3>. QED
      BY <3>1 DEF One
  <2>8. refs' \in [Event -> Int] /\ x \notin dead
    BY <2>1, <2>2, <2>7 DEF Counted
  <2>. QED
    BY <1>1, <1>5, <2>1, <2>3, <2>5, <2>6, <2>7, <2>8, OneFacts DEF Counted
<1>10. CASE release
  <2>1. /\ service.list # <<>> /\ service.event = Head(service.list)
        /\ service' = [service EXCEPT !.pc = "exec", !.list = Tail(service.list)]
        /\ refs' = [refs EXCEPT ![service.event] = @ - 1]
        /\ dead' = IF refs[service.event] = 1 THEN dead \cup {service.event} ELSE dead
        /\ UNCHANGED <<m_results, executed, m_incoming_requests>>
    BY <1>10 DEF release, dec_ref, At, Ordered, Shape
  <2>2. PICK x \in Event : x = service.event /\ x \in Listed
    BY <1>3, <2>1, TailSorted DEF Listed
  <2>3. /\ Listed' = ToSet(Tail(service.list)) /\ service'.event = x
        /\ UNCHANGED <<Incoming, Kept, Done>>
    BY <2>1, <2>2 DEF Listed, Incoming, Kept, Done, Ordered, Shape
  <2>4. Listed = Listed' \cup {x} /\ x \notin Listed' /\ x \notin Incoming
    <3>1. /\ Listed = Listed' \cup {x} /\ AllBefore({x}, Listed')
      BY <1>3, <2>1, <2>2, <2>3, TailSorted DEF Listed, Ordered, Order
    <3>2. x \notin Listed'
      BY <1>4, <3>1 DEF AllBefore, Before
    <3>. QED
      BY <2>2, <3>1, <3>2, Apart
  <2>5. ~OnList(x)' /\ OnList(x) /\ \A e : e # x => OnList(e)' = OnList(e)
    <3>1. ~(Posting(x) /\ pc[x.thread] = "push")
      BY <2>2, PushedPosting
    <3>. QED
      BY <1>1, <1>2, <2>2, <2>3, <2>4, <3>1 DEF OnList
  <2>6. \A e \in Event : /\ One(Posting(e))' = One(Posting(e))
                         /\ One(service.event = e)' = One(service.event = e)
                         /\ One(e \in Kept)' = One(e \in Kept)
                         /\ One(OnList(e))' = IF e = x THEN One(OnList(x)) - 1
                                             ELSE One(OnList(e))
    BY <1>2, <2>2, <2>3, <2>5 DEF One
  <2>7. \A e \in Event : refs'[e] = IF e = x THEN refs[x] - 1 ELSE refs[e]
    BY <2>1, <2>2 DEF Counted
  <2>8. refs[x] >= 2
    <3>1. /\ refs[x] = One(Posting(x)) + One(OnList(x)) + One(service.event = x) + One(x \in Kept)
          /\ OnList(x)
      BY <2>5 DEF Counted
    <3>. QED
      BY <2>2, <3>1 DEF One
  <2>9. dead' = dead
    BY <2>1, <2>2, <2>8
  <2>10. refs' \in [Event -> Int] /\ x \notin dead
    BY <2>1, <2>2, <2>8 DEF Counted
  <2>. QED
    BY <1>1, <1>5, <2>3, <2>6, <2>7, <2>8, <2>9, <2>10, OneFacts DEF Counted
<1>11. CASE exec_request
  <2>1. /\ service.pc = "exec" /\ service.event # None
        /\ service' = [service EXCEPT !.pc = "next", !.event = None]
        /\ executed' = Append(executed, service.event)
        /\ UNCHANGED m_incoming_requests
        /\ \/ /\ m_results' = Append(m_results, service.event)
              /\ UNCHANGED <<refs, dead>>
           \/ /\ refs' = [refs EXCEPT ![service.event] = @ - 1]
              /\ dead' = IF refs[service.event] = 1 THEN dead \cup {service.event} ELSE dead
              /\ UNCHANGED m_results
    BY <1>11 DEF exec_request, dec_ref, At, Ordered, Shape
  <2>2. PICK x \in Event : x = service.event /\ x \in Doing
    BY <1>3, <2>1 DEF Doing
  <2>3. /\ UNCHANGED <<Listed, Incoming>> /\ service'.event = None
    BY <2>1 DEF Listed, Incoming, Ordered, Shape
  <2>4. Done' = Done \cup {x}
    <3>1. executed \in Seq(Event) /\ executed' = Append(executed, x)
      BY <1>3, <2>1, <2>2
    <3>2. ToSet(Append(executed, x)) = ToSet(executed) \cup {x}
      BY <3>1, AppendEvent
    <3>. QED
      BY <3>1, <3>2 DEF Done
  <2>5. \A e : OnList(e)' = OnList(e)
    BY <1>1, <1>2, <2>3 DEF OnList
  <2>6. x \notin Kept
    BY <2>2, Apart DEF Counted
  <2>7. \A e \in Event : /\ One(Posting(e))' = One(Posting(e))
                         /\ One(OnList(e))' = One(OnList(e))
                         /\ One(service.event = e)' = 0
                         /\ One(service.event = e) = IF e = x THEN 1 ELSE 0
    BY <1>2, <1>3, <2>2, <2>3, <2>5 DEF One
  <2>8. CASE m_results' = Append(m_results, service.event) /\ UNCHANGED <<refs, dead>>
    <3>1. Kept' = Kept \cup {x}
      <4>1. m_results \in Seq(Event) /\ m_results' = Append(m_results, x)
        BY <1>3, <2>2, <2>8
      <4>2. ToSet(Append(m_results, x)) = ToSet(m_results) \cup {x}
        BY <4>1, AppendEvent
      <4>. QED
        BY <4>1, <4>2 DEF Kept
    <3>2. \A e \in Event : One(e \in Kept)' = IF e = x THEN One(x \in Kept) + 1
                                              ELSE One(e \in Kept)
      BY <2>6, <3>1 DEF One
    <3>. QED
      BY <1>1, <1>5, <2>4, <2>7, <2>8, <3>1, <3>2, OneFacts DEF Counted
  <2>9. CASE /\ refs' = [refs EXCEPT ![service.event] = @ - 1]
             /\ dead' = IF refs[service.event] = 1 THEN dead \cup {service.event} ELSE dead
             /\ UNCHANGED m_results
    <3>1. Kept' = Kept
      BY <2>9 DEF Kept
    <3>2. \A e \in Event : refs'[e] = IF e = x THEN refs[x] - 1 ELSE refs[e]
      BY <2>2, <2>9 DEF Counted
    <3>3. refs[x] = 1 => x.number <= posts[x.thread]
      BY <1>6, <2>2
    <3>4. refs[x] >= 1 /\ x \notin dead
      <4>1. refs[x] = One(Posting(x)) + One(OnList(x)) + One(service.event = x)
                      + One(x \in Kept)
        BY DEF Counted
      <4>2. refs[x] >= 1
        BY <2>2, <4>1 DEF One
      <4>. QED
        BY <4>2 DEF Counted
    <3>5. refs' \in [Event -> Int] /\ dead' \subseteq Event
      BY <2>2, <2>9 DEF Counted
    <3>. QED
      BY <1>1, <1>5, <2>2, <2>4, <2>7, <2>9, <3>1, <3>2, <3>3, <3>4, <3>5, OneFacts DEF Counted
  <2>. QED
    BY <2>1, <2>8, <2>9
<1>12. CASE service_end
  <2>1. /\ service' = [service EXCEPT !.pc = "idle"]
        /\ UNCHANGED <<refs, dead, executed, m_incoming_requests, m_results>>
    BY <1>12 DEF service_end
  <2>2. UNCHANGED <<Done, Listed, Incoming, Kept, service.event>>
    BY <2>1 DEF Done, Listed, Incoming, Kept, Ordered, Shape
  <2>3. \A e : OnList(e)' = OnList(e)
    BY <1>1, <1>2, <2>2 DEF OnList
  <2>4. \A e \in Event : One(Posting(e))' = One(Posting(e)) /\ One(OnList(e))' = One(OnList(e))
    BY <1>2, <2>3 DEF One
  <2>. QED
    BY <1>1, <2>1, <2>2, <2>4 DEF Counted
<1>. QED
  BY <1>7, <1>8, <1>9, <1>10, <1>11, <1>12 DEF ServiceThread

LEMMA CountedStep == Ordered /\ Counted /\ [Next]_vars => Counted'
<1>1. Counted /\ UNCHANGED vars => Counted'
  BY DEF Counted, Posting, OnList, Kept, Listed, Incoming, Done, vars
<1>. QED
  BY <1>1, UserCounted, ServiceCounted DEF Next

\* An event is destroyed when, and only when, its last holder lets it go, in whatever order
\* its caller, the service and the results do (gv_refable::dec_ref, post_request).
THEOREM DestroyedOnceReleased == Spec => []DestroyedWhenDone
<1>1. Ordered /\ Counted => DestroyedWhenDone
  <2>. SUFFICES ASSUME Ordered, Counted
                PROVE  DestroyedWhenDone
    OBVIOUS
  <2>1. ASSUME NEW e \in Event
        PROVE  /\ refs[e] = One(Posting(e)) + One(OnList(e)) + One(service.event = e)
                             + One(e \in Kept)
               /\ e \in dead <=> refs[e] = 0 /\ e.number <= posts[e.thread]
    BY DEF Counted
  <2>2. \A e \in Event : e \in dead => /\ ~Posting(e) /\ ~OnList(e) /\ service.event # e
                                      /\ e \notin Kept
    BY <2>1 DEF One
  <2>3. dead \subseteq Event
    BY DEF Counted
  <2>4. \A t \in Thread : pc[t] # "idle" => Posting(Cu(t)) /\ Cu(t) \in Event
    BY EventFacts, QueueAssumption DEF Posting, Ordered, Shape
  <2>5. Held \cap dead = {}
    BY <2>2, <2>3, <2>4 DEF Held, OnList, Listed, Incoming, Kept
  <2>6. ASSUME NEW e \in Done
        PROVE  e \in Held \cup dead
    <3>1. e \in Event /\ (e.number <= posts[e.thread] \/ Posting(e))
      BY PushedPosting
    <3>2. Posting(e) => e = Cu(e.thread) /\ pc[e.thread] # "idle" /\ e.thread \in Thread
      BY <3>1 DEF Posting, Event, Cu
    <3>3. CASE Posting(e)
      BY <3>2, <3>3 DEF Held
    <3>4. CASE ~Posting(e) /\ e \notin dead
      <4>1. refs[e] # 0
        BY <2>1, <3>1, <3>4
      <4>2. OnList(e) \/ service.event = e \/ e \in Kept
        BY <2>1, <3>1, <3>4, <4>1 DEF One
      <4>3. e # None
        BY <3>1, EventFacts
      <4>. QED
        BY <3>4, <4>2, <4>3 DEF OnList, Held, Listed, Incoming, Kept
    <3>. QED
      BY <3>3, <3>4
  <2>. QED
    BY <2>5, <2>6 DEF DestroyedWhenDone, Done
<1>. QED
  BY <1>1, OrderedInit, OrderedStep, CountedInit, CountedStep, PTL DEF Spec

\* GV_ASSERT(it->get_ref() > 1) of do_exec_user_requests never fails: the list has not yet
\* released what the service thread takes.
THEOREM PoppedIsHeld == Spec => []PoppedIsReferenced
<1>1. Ordered /\ Counted => PoppedIsReferenced
  <2>. SUFFICES ASSUME Ordered, Counted, service.pc = "assert"
                PROVE  refs[service.event] > 1
    BY DEF PoppedIsReferenced, At
  <2>1. service.list \in Seq(Event) /\ service.list # <<>> /\ service.event = Head(service.list)
    BY DEF Ordered, Shape
  <2>2. /\ service.event \in Event
        /\ ToSet(service.list) = ToSet(Tail(service.list)) \cup {service.event}
    BY <2>1, TailSorted
  <2>3. OnList(service.event)
    BY <2>2 DEF OnList, Listed
  <2>4. refs[service.event] = One(Posting(service.event)) + One(OnList(service.event))
                                + One(service.event = service.event)
                                + One(service.event \in Kept)
    BY <2>2 DEF Counted
  <2>. QED
    BY <2>3, <2>4 DEF One
<1>. QED
  BY <1>1, OrderedInit, OrderedStep, CountedInit, CountedStep, PTL DEF Spec

-------------------------------------------------------------------------------
(* The types, with the bound of s_service_id. *)

\* The posts that have stored s_service_id.
Storing(t) == pc[t] \in {"inc_ref", "push", "return"}
Stored == {e \in Event : \/ e.number <= posts[e.thread]
                         \/ e.number = posts[e.thread] + 1 /\ Storing(e.thread)}

\* s_service_id is not greater than the number of the stores, since who stores it has read
\* it before, whatever was stored in between.
Allocated ==
  /\ s_service_id \in Nat /\ s_service_id <= Cardinality(Stored)
  /\ read_id \in [Thread -> Nat]
  /\ \A t \in Thread : pc[t] = "store" => read_id[t] <= Cardinality(Stored)
  /\ service_id \in [Event -> Int]

LEMMA EventsFinite ==
  ASSUME IsFiniteSet(Thread)
  PROVE  IsFiniteSet(Event) /\ Cardinality(Event) = MaxPosts * Cardinality(Thread)
<1>. DEFINE S == Thread \X (1..MaxPosts)
            f == [x \in S |-> [thread |-> x[1], number |-> x[2]]]
<1>1. IsFiniteSet(1..MaxPosts) /\ Cardinality(1..MaxPosts) = MaxPosts
  <2>1. 1 \in Int /\ MaxPosts \in Int /\ MaxPosts >= 1
    BY QueueAssumption
  <2>. QED
    BY <2>1, FS_Interval
<1>2. IsFiniteSet(S) /\ Cardinality(S) = Cardinality(Thread) * Cardinality(1..MaxPosts)
  BY <1>1, FS_Product
<1>3. f \in Bijection(S, Event)
  <2>1. f \in [S -> Event]
    BY DEF Event
  <2>2. ASSUME NEW x \in S, NEW y \in S, f[x] = f[y]
        PROVE  x = y
    BY <2>2
  <2>3. ASSUME NEW e \in Event
        PROVE  \E x \in S : f[x] = e
    <3>1. <<e.thread, e.number>> \in S /\ f[<<e.thread, e.number>>] = e
      BY DEF Event
    <3>. QED
      BY <3>1
  <2>. HIDE DEF f, S
  <2>. QED
    BY <2>1, <2>2, <2>3 DEF Bijection, Injection, Surjection, IsInjective
<1>. HIDE DEF f, S
<1>4. IsFiniteSet(Event) /\ Cardinality(Event) = Cardinality(S)
  BY <1>2, <1>3, FS_Bijection DEF ExistsBijection
<1>5. Cardinality(Thread) \in Nat
  BY FS_CardinalityType
<1>. QED
  BY <1>1, <1>2, <1>4, <1>5, QueueAssumption

LEMMA StoredFinite ==
  ASSUME IsFiniteSet(Thread)
  PROVE  /\ IsFiniteSet(Stored) /\ Cardinality(Stored) \in Nat
         /\ Cardinality(Stored) <= MaxPosts * Cardinality(Thread)
<1>1. Stored \subseteq Event
  BY DEF Stored
<1>. QED
  BY <1>1, EventsFinite, FS_Subset, FS_CardinalityType

LEMMA AllocatedInit == Init => Allocated
<1>. SUFFICES ASSUME Init
              PROVE  Allocated
  OBVIOUS
<1>1. Stored = {}
  BY EventFacts, QueueAssumption DEF Init, Stored, Storing, Event
<1>2. Cardinality(Stored) = 0
  BY <1>1, FS_EmptySet
<1>. QED
  BY <1>2 DEF Init, Allocated

\* A thread adds to the posts when it stores, and takes none away.
LEMMA StoredStep ==
  ASSUME Shape, NEW t \in Thread, UserThread(t)
  PROVE  /\ ~store_service_id(t) => Stored' = Stored
         /\ store_service_id(t) => Cu(t) \notin Stored /\ Stored' = Stored \cup {Cu(t)}
<1>. SUFFICES ASSUME NEW e \in Event
              PROVE  /\ ~store_service_id(t) => (e \in Stored' <=> e \in Stored)
                     /\ store_service_id(t) =>
                          /\ e \in Stored' <=> (e \in Stored \/ e = Cu(t))
                          /\ Cu(t) \in Event /\ Cu(t) \notin Stored
  <2>1. Stored \subseteq Event /\ Stored' \subseteq Event
    BY DEF Stored
  <2>2. store_service_id(t) => Cu(t) \in Event
    BY EventFacts DEF store_service_id, Goto, Shape
  <2>. QED
    BY <2>1, <2>2
<1>1. e.thread \in Thread /\ e.number \in Nat /\ posts[e.thread] \in Nat /\ posts[t] \in Nat
  BY EventFacts DEF Shape
<1>2. CASE e.thread # t
  <2>1. pc'[e.thread] = pc[e.thread] /\ posts'[e.thread] = posts[e.thread]
    BY <1>1, <1>2 DEF UserThread, create_event, alloc_service_id, store_service_id,
       list_reference, push, return, Goto, Shape
  <2>2. e # Cu(t)
    BY <1>2, EventFacts
  <2>3. store_service_id(t) => Cu(t) \in Event /\ Cu(t) \notin Stored
    BY <1>1, EventFacts DEF store_service_id, Goto, Shape, Stored, Storing
  <2>. QED
    BY <2>1, <2>2, <2>3 DEF Stored, Storing
<1>3. CASE e.thread = t
  <2>1. e = Cu(t) <=> e.number = posts[t] + 1
    BY <1>3 DEF Event, Cu
  <2>2. CASE store_service_id(t)
    <3>1. /\ pc[t] = "store" /\ pc'[t] = "inc_ref" /\ posts' = posts
          /\ posts[t] < MaxPosts
      BY <2>2 DEF store_service_id, Goto, Shape
    <3>. QED
      BY <1>1, <1>3, <2>1, <2>2, <3>1, EventFacts DEF Stored, Storing
  <2>3. CASE return(t)
    <3>1. pc[t] = "return" /\ pc'[t] = "idle" /\ posts'[t] = posts[t] + 1
      BY <2>3 DEF return, Goto, Shape
    <3>2. ~store_service_id(t)
      BY <3>1 DEF store_service_id, Goto
    <3>. QED
      BY <1>1, <1>3, <3>1, <3>2 DEF Stored, Storing
  <2>4. CASE create_event(t) \/ alloc_service_id(t) \/ list_reference(t) \/ push(t)
    <3>1. /\ posts' = posts /\ (Storing(t)' <=> Storing(t)) /\ ~store_service_id(t)
      BY <2>4 DEF create_event, alloc_service_id, list_reference, push, store_service_id,
         Goto, Shape, Storing
    <3>. QED
      BY <1>1, <1>3, <3>1 DEF Stored, Storing
  <2>. QED
    BY <2>2, <2>3, <2>4 DEF UserThread
<1>. QED
  BY <1>2, <1>3

LEMMA AllocatedStep ==
  ASSUME IsFiniteSet(Thread), Ordered, Allocated, [Next]_vars
  PROVE  Allocated'
<1>1. IsFiniteSet(Stored) /\ Cardinality(Stored) \in Nat
  BY StoredFinite
<1>2. CASE ServiceThread \/ UNCHANGED vars
  <2>1. UNCHANGED <<s_service_id, pc, posts, read_id, service_id>>
    BY <1>2 DEF ServiceThread, clear_results, pop_all, hold, release, exec_request,
       service_end, vars
  <2>2. Stored' = Stored
    BY <2>1 DEF Stored, Storing
  <2>. QED
    BY <2>1, <2>2 DEF Allocated
<1>3. ASSUME NEW t \in Thread, UserThread(t)
      PROVE  Allocated'
  <2>1. CASE store_service_id(t)
    <3>1. /\ pc[t] = "store" /\ pc' = [pc EXCEPT ![t] = "inc_ref"]
          /\ s_service_id' = read_id[t] + 1 /\ read_id' = read_id
          /\ service_id' = [service_id EXCEPT ![Cu(t)] = read_id[t]]
      BY <2>1 DEF store_service_id, Goto
    <3>2. Cu(t) \notin Stored /\ Stored' = Stored \cup {Cu(t)}
      BY <1>3, <2>1, StoredStep DEF Ordered
    <3>3. Cardinality(Stored') = Cardinality(Stored) + 1
      BY <1>1, <3>2, FS_AddElement
    <3>4. read_id[t] \in Nat /\ read_id[t] <= Cardinality(Stored)
      BY <3>1 DEF Allocated
    <3>5. s_service_id' \in Nat /\ s_service_id' <= Cardinality(Stored')
      BY <1>1, <3>1, <3>3, <3>4
    <3>6. \A u \in Thread : pc'[u] = "store" => read_id[u] <= Cardinality(Stored')
      <4>. SUFFICES ASSUME NEW u \in Thread, pc'[u] = "store"
                    PROVE  read_id[u] <= Cardinality(Stored')
        OBVIOUS
      <4>1. read_id[u] <= Cardinality(Stored) /\ read_id[u] \in Nat
        BY <3>1 DEF Allocated, Ordered, Shape
      <4>. QED
        BY <1>1, <3>3, <4>1
    <3>7. service_id' \in [Event -> Int]
      <4>1. service_id \in [Event -> Int] /\ read_id[t] \in Int
        BY <3>4 DEF Allocated
      <4>2. ASSUME NEW c, NEW n \in Int
            PROVE  [service_id EXCEPT ![c] = n] \in [Event -> Int]
        BY <4>1
      <4>. QED
        BY <3>1, <4>1, <4>2
    <3>. QED
      BY <3>1, <3>5, <3>6, <3>7 DEF Allocated
  <2>2. CASE alloc_service_id(t)
    <3>1. /\ pc' = [pc EXCEPT ![t] = "store"] /\ pc[t] = "alloc"
          /\ read_id' = [read_id EXCEPT ![t] = s_service_id]
          /\ UNCHANGED <<s_service_id, service_id>>
      BY <2>2 DEF alloc_service_id, Goto
    <3>2. Stored' = Stored
      <4>1. ~store_service_id(t)
        BY <3>1 DEF store_service_id, Goto
      <4>. QED
        BY <1>3, <4>1, StoredStep DEF Ordered
    <3>. QED
      BY <3>1, <3>2 DEF Allocated, Ordered, Shape
  <2>3. CASE create_event(t) \/ list_reference(t) \/ push(t) \/ return(t)
    <3>1. /\ \A u \in Thread : pc'[u] = "store" => pc[u] = "store"
          /\ UNCHANGED <<s_service_id, read_id, service_id>>
      BY <2>3 DEF create_event, list_reference, push, return, Goto, Ordered, Shape
    <3>2. Stored' = Stored
      <4>1. ~store_service_id(t)
        BY <2>3 DEF create_event, list_reference, push, return, store_service_id, Goto
      <4>. QED
        BY <1>3, <4>1, StoredStep DEF Ordered
    <3>. QED
      BY <3>1, <3>2 DEF Allocated
  <2>. QED
    BY <1>3, <2>1, <2>2, <2>3 DEF UserThread
<1>. QED
  BY <1>2, <1>3 DEF Next

\* Every reachable state is of its types, when the threads are finitely many: an event has
\* at most three references at a time (inc_ref and dec_ref), and s_service_id counts no
\* more than the posts (alloc_service_id).
THEOREM QueueIsTyped ==
  ASSUME IsFiniteSet(Thread)
  PROVE  Spec => []TypeOK
<1>1. Ordered /\ Counted /\ Allocated => TypeOK
  <2>. SUFFICES ASSUME Ordered, Counted, Allocated
                PROVE  TypeOK
    OBVIOUS
  <2>1. s_service_id \in 0..(MaxPosts * Cardinality(Thread))
    <3>1. Cardinality(Thread) \in Nat
      BY FS_CardinalityType
    <3>2. MaxPosts * Cardinality(Thread) \in Nat
      BY <3>1, QueueAssumption
    <3>. QED
      BY <3>2, StoredFinite DEF Allocated
  <2>2. ASSUME NEW e \in Event
        PROVE  refs[e] \in 0..3
    <3>1. ~(service.event = e /\ e \in Kept)
      <4>. SUFFICES ASSUME service.event = e, e \in Kept
                    PROVE  FALSE
        OBVIOUS
      <4>1. e \in Done
        BY DEF Counted
      <4>2. service.pc \in {"assert", "exec"}
        BY EventFacts DEF Ordered, Shape
      <4>3. CASE service.pc = "exec"
        BY <4>1, <4>3, Apart DEF Doing
      <4>4. CASE service.pc = "assert"
        <5>1. service.list \in Seq(Event) /\ service.list # <<>> /\ e = Head(service.list)
          BY <4>4 DEF Ordered, Shape
        <5>2. e \in Listed
          BY <5>1, TailSorted DEF Listed
        <5>. QED
          BY <4>1, <5>2, Apart
      <4>. QED
        BY <4>2, <4>3, <4>4
    <3>2. refs[e] = One(Posting(e)) + One(OnList(e)) + One(service.event = e) + One(e \in Kept)
      BY DEF Counted
    <3>. QED
      BY <3>1, <3>2 DEF One
  <2>3. /\ pc \in [Thread -> {"idle", "alloc", "store", "inc_ref", "push", "return"}]
        /\ posts \in [Thread -> 0..MaxPosts]
        /\ m_incoming_requests \in Seq(Event) /\ m_results \in Seq(Event)
        /\ service.list \in Seq(Event) /\ service.event \in Event \cup {None}
    BY DEF Ordered, Shape, Step
  <2>4. DOMAIN service_id = Event /\ DOMAIN refs = Event /\ dead \subseteq Event
    BY DEF Allocated, Counted
  <2>. QED
    BY <2>1, <2>2, <2>3, <2>4 DEF TypeOK
<1>2. Ordered /\ Allocated /\ [Next]_vars => Allocated'
  BY AllocatedStep
<1>. QED
  BY <1>1, <1>2, OrderedInit, OrderedStep, CountedInit, CountedStep, AllocatedInit, PTL
  DEF Spec
===============================================================================
