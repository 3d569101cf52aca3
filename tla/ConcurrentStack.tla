---------------------------- MODULE ConcurrentStack ----------------------------
(***************************************************************************)
(* What gvt_lock_free_header promises the threads that share it: a stack   *)
(* of nodes on which pushing a chain, taking everything and taking the     *)
(* newest node are atomic.  Who takes everything gets it oldest first.     *)
(***************************************************************************)
EXTENDS Sequences, SequencesExt

CONSTANTS Node, Thread

VARIABLES
  stack,   \* newest first
  chain,   \* the nodes a thread works on, in the order it hands them out
  free     \* nodes nobody works on

vars == <<stack, chain, free>>

Init ==
  /\ stack = <<>>
  /\ chain = [t \in Thread |-> <<>>]
  /\ free = Node

Create(t, n) ==
  /\ chain[t] = <<>> /\ n \in free
  /\ chain' = [chain EXCEPT ![t] = <<n>>]
  /\ free' = free \ {n}
  /\ UNCHANGED stack

Push(t) ==
  /\ chain[t] # <<>>
  /\ stack' = chain[t] \o stack
  /\ chain' = [chain EXCEPT ![t] = <<>>]
  /\ UNCHANGED free

TakeAll(t) ==
  /\ chain[t] = <<>> /\ stack # <<>>
  /\ chain' = [chain EXCEPT ![t] = Reverse(stack)]
  /\ stack' = <<>>
  /\ UNCHANGED free

TakeFront(t) ==
  /\ chain[t] = <<>> /\ stack # <<>>
  /\ free' = free \cup {Head(stack)}
  /\ stack' = Tail(stack)
  /\ UNCHANGED chain

HandOut(t) ==
  /\ chain[t] # <<>>
  /\ free' = free \cup {Head(chain[t])}
  /\ chain' = [chain EXCEPT ![t] = Tail(@)]
  /\ UNCHANGED stack

Next ==
  \E t \in Thread :
    \/ \E n \in Node : Create(t, n)
    \/ Push(t) \/ TakeAll(t) \/ TakeFront(t) \/ HandOut(t)

StackSpec == Init /\ [][Next]_vars
===============================================================================
