------------------------------ MODULE LockFreeList ------------------------------
(***************************************************************************)
(* gvt_lock_free_header and the list functions on it: the queue of packets *)
(* and of requests of the reliable UDP server, of events and jobs of an    *)
(* event processor, of commands of a network host.                         *)
(*                                                                         *)
(* A node has a next pointer.  The header is a pointer and a counter in    *)
(* one 64-bit word: interlock_copy reads both at once, gv_CAS2 replaces    *)
(* both at once, every other access is a step of its own.  The pause       *)
(* between two tries of a loop is left out.                                *)
(*                                                                         *)
(* A thread creates a node and pushes it, takes the whole list, reverses   *)
(* it and walks it, pushes what it has not walked to the list again, or    *)
(* takes the front.  A node handed out is the owner's: it is freed, and    *)
(* may be created again.  Reading the next pointer of a freed node gives   *)
(* any value.                                                              *)
(***************************************************************************)
EXTENDS Integers, Sequences

CONSTANTS
  Node,         \* memory for nodes
  Thread,
  Null,
  CounterMod,   \* values of the header's counter (2^32)
  MaxSwaps      \* bound: successful gv_CAS2 on the header

ASSUME ListAssumption ==
  /\ Null \notin Node
  /\ CounterMod \in Nat \ {0}
  /\ MaxSwaps \in Nat

VARIABLES
  head, counter,   \* the header
  next,            \* of each node
  pc,              \* the step each thread is at
  first, last,     \* the chain a thread works on, by its pointers
  rest,            \* what the reversal of a thread has not reached
  saw,             \* what a thread has read of the header
  free,            \* nodes nobody works on
  swaps,
  (* What the pointers stand for, to state the properties with. *)
  stack,           \* the nodes of the list, from its head
  chain,           \* of each thread, the nodes from first
  todo             \* of each thread, the nodes from rest

memoryVars == <<head, counter, next, first, last, rest, saw, free, swaps>>
vars == <<memoryVars, pc, stack, chain, todo>>

Pointer == Node \cup {Null}

Step == {"idle", "push", "push_swap", "unlink", "unlink_counter", "unlink_swap",
         "reverse", "walk", "front", "front_next", "front_swap"}

Saw == [head : Pointer, counter : 0..(CounterMod - 1), next : Pointer]
Nothing == [head |-> Null, counter |-> 0, next |-> Null]

TypeOK ==
  /\ head \in Pointer /\ counter \in 0..(CounterMod - 1)
  /\ next \in [Node -> Pointer]
  /\ pc \in [Thread -> Step]
  /\ first \in [Thread -> Pointer] /\ last \in [Thread -> Pointer]
  /\ rest \in [Thread -> Pointer]
  /\ saw \in [Thread -> Saw]
  /\ free \in SUBSET Node
  /\ swaps \in 0..MaxSwaps
  /\ stack \in Seq(Node)
  /\ chain \in [Thread -> Seq(Node)]
  /\ todo \in [Thread -> Seq(Node)]

Init ==
  /\ head = Null /\ counter = 0
  /\ next = [n \in Node |-> Null]
  /\ pc = [t \in Thread |-> "idle"]
  /\ first = [t \in Thread |-> Null] /\ last = [t \in Thread |-> Null]
  /\ rest = [t \in Thread |-> Null]
  /\ saw = [t \in Thread |-> Nothing]
  /\ free = Node
  /\ swaps = 0
  /\ stack = <<>>
  /\ chain = [t \in Thread |-> <<>>]
  /\ todo = [t \in Thread |-> <<>>]

-------------------------------------------------------------------------------
Goto(t, from, to) == pc[t] = from /\ pc' = [pc EXCEPT ![t] = to]

\* What a thread read is gone when its function returns or its loop starts again.
Forget(t) == saw' = [saw EXCEPT ![t] = Nothing]

\* Mutant: the counter does not wrap.
CounterUnwrapped(c) == c + 1

NextCounter(c) == (c + 1) % CounterMod

\* Mutant: the counter is not compared, as in the code that is commented out.
SameHeader(t) == head = saw[t].head

\* gv_CAS2 finds the header as the thread saw it.
HeaderAsSeen(t) == head = saw[t].head /\ counter = saw[t].counter

\* Mutant: the counter stays.
SwapUncounted(t, from, to, pointer) ==
  /\ Goto(t, from, to)
  /\ HeaderAsSeen(t)
  /\ swaps < MaxSwaps
  /\ swaps' = swaps + 1
  /\ head' = pointer
  /\ UNCHANGED counter

\* gv_CAS2 replaces the header.
Swap(t, from, to, pointer) ==
  /\ Goto(t, from, to)
  /\ HeaderAsSeen(t)
  /\ swaps < MaxSwaps
  /\ swaps' = swaps + 1
  /\ head' = pointer
  /\ counter' = NextCounter(counter)

\* gv_CAS2 does not, and the loop starts again.
Retry(t, from, to) ==
  /\ Goto(t, from, to)
  /\ ~HeaderAsSeen(t)
  /\ Forget(t)
  /\ UNCHANGED <<head, counter, next, first, last, rest, free, swaps, stack, chain, todo>>

\* A node to push.
create(t, n) ==
  /\ Goto(t, "idle", "push")
  /\ n \in free
  /\ free' = free \ {n}
  /\ first' = [first EXCEPT ![t] = n]
  /\ last' = [last EXCEPT ![t] = n]
  /\ chain' = [chain EXCEPT ![t] = <<n>>]
  /\ UNCHANGED <<head, counter, next, rest, saw, swaps, stack, todo>>

\* push_list: read the header, link the last node to its head.
push_read(t) ==
  /\ Goto(t, "push", "push_swap")
  /\ saw' = [saw EXCEPT ![t].head = head, ![t].counter = counter]
  /\ next' = [next EXCEPT ![last[t]] = head]
  /\ UNCHANGED <<head, counter, first, last, rest, free, swaps, stack, chain, todo>>

push_swap(t) ==
  /\ Swap(t, "push_swap", "idle", first[t])
  /\ Forget(t)
  /\ first' = [first EXCEPT ![t] = Null]
  /\ last' = [last EXCEPT ![t] = Null]
  /\ stack' = chain[t] \o stack
  /\ chain' = [chain EXCEPT ![t] = <<>>]
  /\ UNCHANGED <<next, rest, free, todo>>

\* unlink_all reads the head and the counter one after the other.
unlink_head(t) ==
  /\ Goto(t, "idle", "unlink_counter") \/ Goto(t, "unlink", "unlink_counter")
  /\ head # Null
  /\ saw' = [saw EXCEPT ![t].head = head]
  /\ UNCHANGED <<head, counter, next, first, last, rest, free, swaps, stack, chain, todo>>

\* Nor does a first try that finds the list empty change anything.
unlink_empty(t) ==
  /\ Goto(t, "unlink", "idle")
  /\ head = Null
  /\ UNCHANGED <<memoryVars, stack, chain, todo>>

unlink_counter(t) ==
  /\ Goto(t, "unlink_counter", "unlink_swap")
  /\ saw' = [saw EXCEPT ![t].counter = counter]
  /\ UNCHANGED <<head, counter, next, first, last, rest, free, swaps, stack, chain, todo>>

\* Mutant: the list is handed out newest first.
unlink_swap_unreversed(t) ==
  /\ Swap(t, "unlink_swap", "walk", Null)
  /\ last' = [last EXCEPT ![t] = saw[t].head]
  /\ rest' = [rest EXCEPT ![t] = Null]
  /\ first' = [first EXCEPT ![t] = saw[t].head]
  /\ chain' = [chain EXCEPT ![t] = stack]
  /\ stack' = <<>>
  /\ Forget(t)
  /\ UNCHANGED <<next, free, todo>>

unlink_swap(t) ==
  /\ Swap(t, "unlink_swap", "reverse", Null)
  /\ last' = [last EXCEPT ![t] = saw[t].head]
  /\ rest' = [rest EXCEPT ![t] = saw[t].head]
  /\ first' = [first EXCEPT ![t] = Null]
  /\ todo' = [todo EXCEPT ![t] = stack]
  /\ stack' = <<>>
  /\ Forget(t)
  /\ UNCHANGED <<next, free, chain>>

\* pop_list: one turn of the loop that reverses the list.
reverse_turn(t) ==
  /\ pc[t] = "reverse" /\ rest[t] # Null
  /\ rest' = [rest EXCEPT ![t] = next[rest[t]]]
  /\ next' = [next EXCEPT ![rest[t]] = first[t]]
  /\ first' = [first EXCEPT ![t] = rest[t]]
  /\ todo' = [todo EXCEPT ![t] = SubSeq(@, 2, Len(@))]
  /\ chain' = [chain EXCEPT ![t] = SubSeq(todo[t], 1, 1) \o @]
  /\ UNCHANGED <<head, counter, last, saw, free, swaps, pc, stack>>

reverse_end(t) ==
  /\ Goto(t, "reverse", "walk")
  /\ rest[t] = Null
  /\ UNCHANGED <<memoryVars, stack, chain, todo>>

\* The caller takes the next node of the list it popped.
walk(t) ==
  /\ pc[t] = "walk" /\ first[t] # Null
  /\ first' = [first EXCEPT ![t] = next[first[t]]]
  /\ free' = free \cup {first[t]}
  /\ chain' = [chain EXCEPT ![t] = SubSeq(@, 2, Len(@))]
  /\ UNCHANGED <<head, counter, next, last, rest, saw, swaps, pc, stack, todo>>

walk_end(t) ==
  /\ Goto(t, "walk", "idle")
  /\ first[t] = Null
  /\ last' = [last EXCEPT ![t] = Null]
  /\ UNCHANGED <<head, counter, next, first, rest, saw, free, swaps, stack, chain, todo>>

\* flush_jobs1: the list it popped is pushed as a whole.
push_list(t) ==
  /\ Goto(t, "walk", "push")
  /\ first[t] # Null
  /\ UNCHANGED <<memoryVars, stack, chain, todo>>

\* pop_front
front_read(t) ==
  /\ Goto(t, "idle", "front_next") \/ Goto(t, "front", "front_next")
  /\ head # Null
  /\ saw' = [saw EXCEPT ![t].head = head, ![t].counter = counter]
  /\ UNCHANGED <<head, counter, next, first, last, rest, free, swaps, stack, chain, todo>>

front_empty(t) ==
  /\ Goto(t, "front", "idle")
  /\ head = Null
  /\ UNCHANGED <<memoryVars, stack, chain, todo>>

front_next(t) ==
  /\ Goto(t, "front_next", "front_swap")
  /\ \E p \in IF saw[t].head \in free THEN Pointer ELSE {next[saw[t].head]} :
       saw' = [saw EXCEPT ![t].next = p]
  /\ UNCHANGED <<head, counter, next, first, last, rest, free, swaps, stack, chain, todo>>

front_swap(t) ==
  /\ Swap(t, "front_swap", "idle", saw[t].next)
  /\ free' = free \cup {saw[t].head}
  /\ stack' = SubSeq(stack, 2, Len(stack))
  /\ Forget(t)
  /\ UNCHANGED <<next, first, last, rest, chain, todo>>

Next ==
  \E t \in Thread :
    \/ \E n \in Node : create(t, n)
    \/ push_read(t) \/ push_swap(t) \/ Retry(t, "push_swap", "push")
    \/ unlink_head(t) \/ unlink_empty(t) \/ unlink_counter(t) \/ unlink_swap(t)
    \/ Retry(t, "unlink_swap", "unlink")
    \/ reverse_turn(t) \/ reverse_end(t) \/ walk(t) \/ walk_end(t) \/ push_list(t)
    \/ front_read(t) \/ front_empty(t) \/ front_next(t) \/ front_swap(t)
    \/ Retry(t, "front_swap", "front")

Spec == Init /\ [][Next]_vars

-------------------------------------------------------------------------------
(* Properties. *)

\* The nodes s are linked in that order, p points to the first, the last to end.
Linked(p, s, end) ==
  /\ p = IF s = <<>> THEN end ELSE s[1]
  /\ \A i \in 1..Len(s) : next[s[i]] = IF i = Len(s) THEN end ELSE s[i + 1]

\* What the pointers of a thread stand for, at each of its steps.
ThreadPointers(t) ==
  /\ pc[t] \notin {"push", "push_swap", "reverse", "walk"} => chain[t] = <<>>
  /\ pc[t] # "reverse" => todo[t] = <<>>
  /\ pc[t] \in {"push", "push_swap"} =>
       /\ chain[t] # <<>>
       /\ last[t] = chain[t][Len(chain[t])]
       /\ Linked(first[t], chain[t], next[last[t]])
  /\ pc[t] = "push_swap" => next[last[t]] = saw[t].head
  /\ pc[t] \in {"reverse", "walk"} =>
       /\ Linked(first[t], chain[t], Null)
       /\ chain[t] # <<>> => last[t] = chain[t][Len(chain[t])]
  /\ pc[t] = "reverse" =>
       /\ Linked(rest[t], todo[t], Null)
       /\ chain[t] = <<>> => todo[t] # <<>> /\ last[t] = todo[t][1]

\* The list in memory is the stack of what was pushed and not popped, and ends in
\* Null, whatever other threads push and pop between the read of the header, the
\* read of a next pointer and the swap; so are the chains the threads work on.
PointersExact ==
  /\ Linked(head, stack, Null)
  /\ \A t \in Thread : ThreadPointers(t)

Elements(s) == {s[i] : i \in 1..Len(s)}
Distinct(s) == \A i, j \in 1..Len(s) : s[i] = s[j] => i = j

\* No node is lost, and none is in two places: two threads never work on one node,
\* nor is a node handed out still in the list.
OneOwner ==
  /\ Node = free \cup Elements(stack)
             \cup UNION {Elements(chain[t]) \cup Elements(todo[t]) : t \in Thread}
  /\ Distinct(stack) /\ Elements(stack) \cap free = {}
  /\ \A t \in Thread :
       /\ Distinct(chain[t]) /\ Distinct(todo[t])
       /\ Elements(chain[t]) \cap Elements(todo[t]) = {}
       /\ (Elements(chain[t]) \cup Elements(todo[t])) \cap (free \cup Elements(stack)) = {}
       /\ \A u \in Thread \ {t} :
            (Elements(chain[t]) \cup Elements(todo[t]))
              \cap (Elements(chain[u]) \cup Elements(todo[u])) = {}

\* Pushing a chain, taking all and taking the front are atomic, and who takes all
\* gets the nodes in the order they were pushed.
SeqOps == INSTANCE SequencesExt
Stack == INSTANCE ConcurrentStack WITH
  chain <- [t \in Thread |-> SeqOps!Reverse(todo[t]) \o chain[t]]
ImplementsStack == Stack!StackSpec
===============================================================================
