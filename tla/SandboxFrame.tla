------------------------------ MODULE SandboxFrame ------------------------------
(***************************************************************************)
(* gv_sandbox::tick and the event processors of a sandbox: the frame of    *)
(* the main thread starts the synchronized autonomous processors, ticks    *)
(* the others itself, waits until each of the first has ended its tick,    *)
(* synchronizes, and collects garbage.  An autonomous processor that is    *)
(* not synchronized ticks by itself.  A tick that fails ends the frames;   *)
(* then the owner clears the processors.                                   *)
(*                                                                         *)
(* Taking a list and pushing to one are atomic (LockFreeList).  The events *)
(* gv_event reset themselves in a step after the one that ends the wait.   *)
(* Flushing the events and the jobs is one step: what is posted meanwhile  *)
(* goes to the next tick.  An event or job is the frame it was posted in.  *)
(***************************************************************************)
EXTENDS Integers, Sequences, FiniteSetsExt

CONSTANTS
  Processor,
  Active,         \* m_active_event_processors, in the order of their registration
  Autonomous,     \* those with a thread of their own
  Synchronized,   \* those of them whose tick is part of the frame
  Base,           \* the source of job1 jobs
  Slave,          \* those with that base channel
  MaxFrame,       \* bound: frames
  MaxPost,        \* bound: events and jobs
  PatientOwner    \* the processors are cleared when every thread runs

ASSUME FrameAssumption ==
  /\ Active \in Seq(Processor) /\ \A p \in Processor : \E i \in 1..Len(Active) : Active[i] = p
  /\ \A i, j \in 1..Len(Active) : Active[i] = Active[j] => i = j    \* registered once
  /\ Synchronized \subseteq Autonomous /\ Autonomous \subseteq Processor
  /\ Base \in Processor /\ Slave \subseteq Processor \ {Base}
  /\ MaxFrame \in Nat /\ MaxPost \in Nat
  /\ PatientOwner \in BOOLEAN

VARIABLES
  step,                     \* of each processor
  m_is_running,             \* of its thread
  m_start_tick_event, m_end_tick_event,
  m_synchronized, m_synchronize_continue, m_is_autonomous, m_quit,
  ticks,                    \* m_tick_count
  queue,                    \* m_event_queue and m_job_list of each processor
  m_job1_list, m_job1_list_for_read,    \* of the base
  main,                     \* the main thread, and the processor it is at
  left,                     \* what its loop has not reached of the active processors
  frame,                    \* m_tick_count of the sandbox
  posted, executed          \* how many events and jobs

flagVars == <<m_is_running, m_synchronized, m_synchronize_continue, m_is_autonomous, m_quit>>
eventVars == <<m_start_tick_event, m_end_tick_event>>
listVars == <<queue, m_job1_list, m_job1_list_for_read, posted, executed>>
mainVars == <<main, left, frame>>
vars == <<step, ticks, flagVars, eventVars, listVars, mainVars>>

Ticking == {"flush", "job1_move", "job1", "ticked"}
Failing == {"failed", "failed_continue", "failed_end"}

TypeOK ==
  /\ step \in [Processor -> {"new", "wait", "reset", "check_quit", "rest", "ended"}
                              \cup Ticking \cup Failing]
  /\ \A flag \in {m_is_running, m_start_tick_event, m_end_tick_event, m_synchronized,
                  m_synchronize_continue, m_is_autonomous, m_quit} :
       flag \in [Processor -> BOOLEAN]
  /\ ticks \in [Processor -> 0..frame]
  /\ queue \in [Processor -> Seq(Nat)]
  /\ {m_job1_list, m_job1_list_for_read} \subseteq Seq(Nat)
  /\ main \in [pc : {"idle", "pre_tick", "do_tick", "ticking", "post_tick", "wait_end",
                     "reset_end", "synchronize", "collect_garbage", "stopped",
                     "clear", "join", "gone"},
               at : Processor]
  /\ left \in Seq(Processor)
  /\ frame \in 0..MaxFrame
  /\ posted \in 0..MaxPost /\ executed \in 0..MaxPost

Init ==
  /\ step = [p \in Processor |-> IF p \in Autonomous THEN "new" ELSE "rest"]
  /\ m_is_running = [p \in Processor |-> FALSE]
  /\ m_start_tick_event = [p \in Processor |-> FALSE]
  /\ m_end_tick_event = [p \in Processor |-> FALSE]
  /\ m_synchronized = [p \in Processor |-> p \in Synchronized]
  /\ m_synchronize_continue = [p \in Processor |-> TRUE]
  /\ m_is_autonomous = [p \in Processor |-> p \in Autonomous]
  /\ m_quit = [p \in Processor |-> FALSE]
  /\ ticks = [p \in Processor |-> 0]
  /\ queue = [p \in Processor |-> <<>>]
  /\ m_job1_list = <<>> /\ m_job1_list_for_read = <<>>
  /\ main = [pc |-> "idle", at |-> Base]
  /\ left = <<>>
  /\ frame = 0
  /\ posted = 0 /\ executed = 0

-------------------------------------------------------------------------------
(* Posting, by any thread, while the processors are there. *)

Cleared == main.pc \in {"clear", "join", "gone"}

CountPost ==
  /\ ~Cleared
  /\ posted < MaxPost
  /\ posted' = posted + 1
  /\ UNCHANGED <<step, ticks, flagVars, eventVars, mainVars, m_job1_list_for_read, executed>>

\* post_event and post_job.
post(p) ==
  /\ CountPost
  /\ queue' = [queue EXCEPT ![p] = Append(@, frame)]
  /\ UNCHANGED m_job1_list

post_job1 ==
  /\ CountPost
  /\ m_job1_list' = Append(m_job1_list, frame)
  /\ UNCHANGED queue

-------------------------------------------------------------------------------
(* gv_event_processor::tick, by the thread of the processor or by the main thread. *)

Step(p, from, to) == step[p] = from /\ step' = [step EXCEPT ![p] = to]

\* flush_events and flush_jobs.
flush(p) ==
  /\ Step(p, "flush", IF p = Base THEN "job1_move" ELSE IF p \in Slave THEN "job1" ELSE "ticked")
  /\ queue' = [queue EXCEPT ![p] = <<>>]
  /\ executed' = executed + Len(queue[p])
  /\ UNCHANGED <<ticks, flagVars, eventVars, mainVars, m_job1_list, m_job1_list_for_read, posted>>

\* Mutant: the jobs posted since the last tick are not moved.
flush_jobs1_move_missing ==
  /\ Step(Base, "job1_move", "job1")
  /\ UNCHANGED <<ticks, flagVars, eventVars, listVars, mainVars>>

\* Mutant: the moved jobs stay in the list they came from.
flush_jobs1_move_kept ==
  /\ Step(Base, "job1_move", "job1")
  /\ m_job1_list_for_read' = m_job1_list \o m_job1_list_for_read
  /\ UNCHANGED <<ticks, flagVars, eventVars, mainVars, queue, m_job1_list, posted, executed>>

\* The base moves what was posted since its last tick to the list that is read, before
\* what is left of it.
flush_jobs1_move ==
  /\ Step(Base, "job1_move", "job1")
  /\ m_job1_list_for_read' = m_job1_list \o m_job1_list_for_read
  /\ m_job1_list' = <<>>
  /\ UNCHANGED <<ticks, flagVars, eventVars, mainVars, queue, posted, executed>>

pop_job1(p) ==
  /\ step[p] = "job1"
  /\ m_job1_list_for_read # <<>>
  /\ m_job1_list_for_read' = Tail(m_job1_list_for_read)
  /\ executed' = executed + 1
  /\ UNCHANGED <<step, ticks, flagVars, eventVars, mainVars, queue, m_job1_list, posted>>

\* A slave finds no source when the base has been cleared before it.
flush_jobs1_end(p) ==
  /\ Step(p, "job1", "ticked")
  /\ m_job1_list_for_read = <<>> \/ (p # Base /\ Cleared)
  /\ UNCHANGED <<ticks, flagVars, eventVars, listVars, mainVars>>

-------------------------------------------------------------------------------
(* gv_thread::entry and tick_autonomous. *)

\* The head of the loop of tick_autonomous.
Await(p) == IF m_synchronized[p] THEN "wait" ELSE "check_quit"

entry(p) ==
  /\ Step(p, "new", Await(p))
  /\ m_is_running' = [m_is_running EXCEPT ![p] = TRUE]
  /\ UNCHANGED <<ticks, m_synchronized, m_synchronize_continue, m_is_autonomous, m_quit,
                 eventVars, listVars, mainVars>>

wait_start(p) ==
  /\ Step(p, "wait", "reset")
  /\ m_start_tick_event[p]
  /\ UNCHANGED <<ticks, flagVars, eventVars, listVars, mainVars>>

\* Mutant: the event does not reset itself.
reset_start_missing(p) ==
  /\ Step(p, "reset", "check_quit")
  /\ UNCHANGED <<ticks, flagVars, eventVars, listVars, mainVars>>

reset_start(p) ==
  /\ Step(p, "reset", "check_quit")
  /\ m_start_tick_event' = [m_start_tick_event EXCEPT ![p] = FALSE]
  /\ UNCHANGED <<ticks, flagVars, m_end_tick_event, listVars, mainVars>>

check_quit(p) ==
  /\ Step(p, "check_quit", IF m_quit[p] THEN "ended" ELSE "flush")
  /\ m_is_running' = [m_is_running EXCEPT ![p] = ~m_quit[p]]
  /\ UNCHANGED <<ticks, m_synchronized, m_synchronize_continue, m_is_autonomous, m_quit,
                 eventVars, listVars, mainVars>>

\* tick returns true: the end is signalled to the frame.
tick_end(p) ==
  /\ p \in Autonomous
  /\ Step(p, "ticked", Await(p))
  /\ ticks' = [ticks EXCEPT ![p] = IF p \in Synchronized THEN @ + 1 ELSE @]
  /\ m_end_tick_event' = [m_end_tick_event EXCEPT ![p] = @ \/ m_synchronized[p]]
  /\ UNCHANGED <<flagVars, m_start_tick_event, listVars, mainVars>>

\* tick returns false: the frame will stop when it reaches this processor.
tick_fail(p) ==
  /\ p \in Autonomous
  /\ Step(p, "ticked", "failed")
  /\ UNCHANGED <<ticks, flagVars, eventVars, listVars, mainVars>>

fail_synchronized(p) ==
  /\ Step(p, "failed", "failed_continue")
  /\ m_synchronized' = [m_synchronized EXCEPT ![p] = TRUE]
  /\ UNCHANGED <<ticks, m_is_running, m_synchronize_continue, m_is_autonomous, m_quit,
                 eventVars, listVars, mainVars>>

fail_continue(p) ==
  /\ Step(p, "failed_continue", "failed_end")
  /\ m_synchronize_continue' = [m_synchronize_continue EXCEPT ![p] = FALSE]
  /\ UNCHANGED <<ticks, m_is_running, m_synchronized, m_is_autonomous, m_quit,
                 eventVars, listVars, mainVars>>

\* Mutant: who waits for the end is not told.
fail_end_silent(p) ==
  /\ Step(p, "failed_end", "ended")
  /\ m_is_running' = [m_is_running EXCEPT ![p] = FALSE]
  /\ UNCHANGED <<ticks, m_synchronized, m_synchronize_continue, m_is_autonomous, m_quit,
                 eventVars, listVars, mainVars>>

fail_end(p) ==
  /\ Step(p, "failed_end", "ended")
  /\ m_end_tick_event' = [m_end_tick_event EXCEPT ![p] = TRUE]
  /\ m_is_running' = [m_is_running EXCEPT ![p] = FALSE]
  /\ UNCHANGED <<ticks, m_synchronized, m_synchronize_continue, m_is_autonomous, m_quit,
                 m_start_tick_event, listVars, mainVars>>

-------------------------------------------------------------------------------
(* gv_sandbox::tick. *)

MainAt(pc) == main.pc = pc
Main(from, to, todo) ==
  /\ MainAt(from)
  /\ main' = [main EXCEPT !.pc = to]
  /\ left' = todo

\* The loop is at p, and goes on.
AtNext(pc, p) ==
  /\ MainAt(pc)
  /\ left # <<>>
  /\ p = left[1]
  /\ left' = Tail(left)

InFrame(p) == m_synchronized[p] /\ m_is_autonomous[p]

pre_tick ==
  /\ Main("idle", "pre_tick", Active)
  /\ frame < MaxFrame
  /\ frame' = frame + 1
  /\ UNCHANGED <<step, ticks, flagVars, eventVars, listVars>>

signal_frame_start(p) ==
  /\ AtNext("pre_tick", p)
  /\ m_start_tick_event' = [m_start_tick_event EXCEPT ![p] = @ \/ InFrame(p)]
  /\ UNCHANGED <<step, ticks, flagVars, m_end_tick_event, listVars, main, frame>>

do_tick ==
  /\ Main("pre_tick", "do_tick", Active)
  /\ left = <<>>
  /\ UNCHANGED <<step, ticks, flagVars, eventVars, listVars, frame>>

do_tick_skip(p) ==
  /\ AtNext("do_tick", p)
  /\ m_is_autonomous[p]
  /\ UNCHANGED <<step, ticks, flagVars, eventVars, listVars, main, frame>>

\* The main thread ticks a processor that has no thread.
tick_inline(p) ==
  /\ AtNext("do_tick", p)
  /\ ~m_is_autonomous[p]
  /\ Step(p, "rest", "flush")
  /\ main' = [pc |-> "ticking", at |-> p]
  /\ UNCHANGED <<ticks, flagVars, eventVars, listVars, frame>>

tick_inline_end(ok) ==
  /\ Step(main.at, "ticked", "rest")
  /\ Main("ticking", IF ok THEN "do_tick" ELSE "stopped", left)
  /\ ticks' = [ticks EXCEPT ![main.at] = @ + 1]
  /\ UNCHANGED <<flagVars, eventVars, listVars, frame>>

post_tick ==
  /\ Main("do_tick", "post_tick", Active)
  /\ left = <<>>
  /\ UNCHANGED <<step, ticks, flagVars, eventVars, listVars, frame>>

post_tick_skip(p) ==
  /\ AtNext("post_tick", p)
  /\ ~InFrame(p)
  /\ UNCHANGED <<step, ticks, flagVars, eventVars, listVars, main, frame>>

\* Mutant: the end of a tick is not waited for.
wait_signal_frame_end_skipped(p) ==
  /\ AtNext("post_tick", p)
  /\ InFrame(p)
  /\ main' = [pc |-> "synchronize", at |-> p]
  /\ UNCHANGED <<step, ticks, flagVars, eventVars, listVars, frame>>

wait_signal_frame_end(p) ==
  /\ AtNext("post_tick", p)
  /\ InFrame(p)
  /\ main' = [pc |-> IF m_synchronize_continue[p] THEN "wait_end" ELSE "synchronize", at |-> p]
  /\ UNCHANGED <<step, ticks, flagVars, eventVars, listVars, frame>>

wait_end ==
  /\ Main("wait_end", "reset_end", left)
  /\ m_end_tick_event[main.at]
  /\ UNCHANGED <<step, ticks, flagVars, eventVars, listVars, frame>>

reset_end ==
  /\ Main("reset_end", "synchronize", left)
  /\ m_end_tick_event' = [m_end_tick_event EXCEPT ![main.at] = FALSE]
  /\ UNCHANGED <<step, ticks, flagVars, m_start_tick_event, listVars, frame>>

do_synchronization ==
  /\ Main("synchronize", IF m_synchronize_continue[main.at] THEN "post_tick" ELSE "stopped",
          left)
  /\ UNCHANGED <<step, ticks, flagVars, eventVars, listVars, frame>>

post_tick_end ==
  /\ Main("post_tick", "collect_garbage", <<>>)
  /\ left = <<>>
  /\ UNCHANGED <<step, ticks, flagVars, eventVars, listVars, frame>>

collect_garbage ==
  /\ Main("collect_garbage", "idle", <<>>)
  /\ UNCHANGED <<step, ticks, flagVars, eventVars, listVars, frame>>

-------------------------------------------------------------------------------
(* clear_event_processor and set_autonomous(false). *)

clear_event_processor ==
  /\ \E pc \in {"idle", "stopped"} : Main(pc, "clear", Active)
  /\ PatientOwner => \A p \in Autonomous : step[p] # "new"
  /\ UNCHANGED <<step, ticks, flagVars, eventVars, listVars, frame>>

\* Mutant: a thread that waits for its frame is not woken.
set_autonomous_false_asleep(p) ==
  /\ AtNext("clear", p)
  /\ IF m_is_running[p]
     THEN /\ m_quit' = [m_quit EXCEPT ![p] = TRUE]
          /\ main' = [pc |-> "join", at |-> p]
          /\ UNCHANGED <<m_start_tick_event, m_is_autonomous>>
     ELSE /\ m_is_autonomous' = [m_is_autonomous EXCEPT ![p] = FALSE]
          /\ UNCHANGED <<m_quit, m_start_tick_event, main>>
  /\ UNCHANGED <<step, ticks, m_is_running, m_synchronized, m_synchronize_continue,
                 m_end_tick_event, listVars, frame>>

\* It changes nothing of a processor that has no thread.
set_autonomous_false(p) ==
  /\ AtNext("clear", p)
  /\ IF m_is_running[p]
     THEN /\ m_quit' = [m_quit EXCEPT ![p] = TRUE]
          /\ m_start_tick_event' = [m_start_tick_event EXCEPT ![p] = TRUE]
          /\ main' = [pc |-> "join", at |-> p]
          /\ UNCHANGED m_is_autonomous
     ELSE /\ m_is_autonomous' = [m_is_autonomous EXCEPT ![p] = FALSE]
          /\ UNCHANGED <<m_quit, m_start_tick_event, main>>
  /\ UNCHANGED <<step, ticks, m_is_running, m_synchronized, m_synchronize_continue,
                 m_end_tick_event, listVars, frame>>

join ==
  /\ Main("join", "clear", left)
  /\ step[main.at] = "ended"
  /\ m_is_autonomous' = [m_is_autonomous EXCEPT ![main.at] = FALSE]
  /\ UNCHANGED <<step, ticks, m_is_running, m_synchronized, m_synchronize_continue, m_quit,
                 eventVars, listVars, frame>>

\* The processors are destroyed.
destroyed ==
  /\ Main("clear", "gone", <<>>)
  /\ left = <<>>
  /\ UNCHANGED <<step, ticks, flagVars, eventVars, listVars, frame>>

-------------------------------------------------------------------------------
Tick(p) ==
  \/ flush(p)
  \/ p = Base /\ flush_jobs1_move
  \/ pop_job1(p) \/ flush_jobs1_end(p)

Thread(p) ==
  \/ entry(p) \/ wait_start(p) \/ reset_start(p) \/ check_quit(p)
  \/ (p \in Autonomous /\ Tick(p))
  \/ tick_end(p) \/ tick_fail(p) \/ fail_synchronized(p) \/ fail_continue(p) \/ fail_end(p)

\* A frame that has begun, and the end.
MainNext ==
  \/ do_tick \/ post_tick \/ wait_end \/ reset_end \/ do_synchronization \/ post_tick_end
  \/ collect_garbage \/ join \/ destroyed
  \/ \E ok \in BOOLEAN : tick_inline_end(ok)
  \/ \E p \in Processor :
       \/ signal_frame_start(p) \/ do_tick_skip(p) \/ tick_inline(p)
       \/ (p \notin Autonomous /\ Tick(p))
       \/ post_tick_skip(p) \/ wait_signal_frame_end(p) \/ set_autonomous_false(p)

Next ==
  \/ \E p \in Processor : Thread(p) \/ post(p)
  \/ post_job1
  \/ pre_tick \/ clear_event_processor \/ MainNext

Spec == Init /\ [][Next]_vars

\* Threads run.  Nothing is assumed of the callers of tick, post and destroy.
FairSpec == Spec /\ WF_vars(MainNext) /\ \A p \in Autonomous : WF_vars(Thread(p))

-------------------------------------------------------------------------------
(* Properties. *)

Resting == {"new", "wait", "ended"}

\* Garbage is collected, and the world is changed between frames, while no tick of the
\* frame runs; a processor is synchronized while it does not tick.  The signals that
\* say so reset themselves late, and a tick may fail at any time.
FrameExclusive ==
  /\ main.pc \in {"idle", "collect_garbage"} =>
       \A p \in Synchronized : step[p] \in Resting
  /\ main.pc = "synchronize" => step[main.at] \in Resting \cup {"failed_end"}

\* When a frame is complete every processor of it has ticked once for each frame, and
\* has processed what was posted to it before the frame; a slave shares the job1 jobs.
FrameComplete ==
  main.pc = "collect_garbage" =>
    /\ \A p \in Synchronized \cup (Processor \ Autonomous) :
         /\ ticks[p] = frame
         /\ \A i \in 1..Len(queue[p]) : queue[p][i] = frame
    /\ Base \in Synchronized =>
         /\ m_job1_list_for_read = <<>>
         /\ \A i \in 1..Len(m_job1_list) : m_job1_list[i] = frame

\* Every event and job that was posted was executed once or is still in one list.
PostedOnce ==
  LET waiting(p) == Len(queue[p])
  IN  posted = executed + MapThenSumSet(waiting, Processor)
                 + Len(m_job1_list) + Len(m_job1_list_for_read)

\* The data of a processor, its thread object included, is destroyed after its thread.
ThreadsJoined == main.pc = "gone" => \A p \in Autonomous : step[p] = "ended"

\* A frame that begins ends, complete or stopped, whichever ticks fail meanwhile.
FrameEnds == main.pc = "pre_tick" ~> main.pc \in {"idle", "stopped"}

\* The owner never waits forever for a thread to end.
ClearEnds == main.pc = "clear" ~> main.pc = "gone"
===============================================================================
