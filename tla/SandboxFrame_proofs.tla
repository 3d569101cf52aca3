--------------------------- MODULE SandboxFrame_proofs ---------------------------
(***************************************************************************)
(* Between frames no synchronized processor ticks.  The inductive          *)
(* invariant says, for every place of the main thread, what each           *)
(* synchronized processor may be doing: asleep before its signal, busy     *)
(* after it, asleep again when the main thread has waited for it.          *)
(*                                                                         *)
(* On it rest two more: every processor of a complete frame has had its    *)
(* tick of it and taken what was posted before it; and no event or job is  *)
(* lost or executed twice.                                                 *)
(***************************************************************************)
EXTENDS SandboxFrame, FiniteSetTheorems, WellFoundedInduction, TLAPS

\* What of the types the argument needs.
Typed ==
  /\ step \in [Processor -> {"new", "wait", "reset", "check_quit", "rest", "ended"}
                              \cup Ticking \cup Failing]
  /\ m_start_tick_event \in [Processor -> BOOLEAN]
  /\ m_end_tick_event \in [Processor -> BOOLEAN]
  /\ m_synchronized \in [Processor -> BOOLEAN]
  /\ m_synchronize_continue \in [Processor -> BOOLEAN]
  /\ m_is_autonomous \in [Processor -> BOOLEAN]
  /\ m_quit \in [Processor -> BOOLEAN]
  /\ main \in [pc : {"idle", "pre_tick", "do_tick", "ticking", "post_tick", "wait_end",
                     "reset_end", "synchronize", "collect_garbage", "stopped",
                     "clear", "join", "gone"},
               at : Processor]

\* The main thread has the end of a processor in hand.
Waiting == {"wait_end", "reset_end", "synchronize"}

\* The frames go on.
Framing ==
  main.pc \in {"idle", "pre_tick", "do_tick", "ticking", "post_tick", "collect_garbage"}
                \cup Waiting

InLeft(p) == \E i \in 1..Len(left) : left[i] = p

\* The main thread meets a processor once in a loop.
Loop ==
  main.pc \in {"pre_tick", "post_tick"} \cup Waiting =>
    /\ left \in Seq(Processor)
    /\ \A i, j \in 1..Len(left) : left[i] = left[j] => i = j
    /\ main.pc \in Waiting => main.at \in Autonomous /\ ~InLeft(main.at)

\* Which processors have a thread, and nobody has told them to quit.
Owned ==
  /\ \A p \in Processor \ Autonomous : ~m_is_autonomous[p]
  /\ \A p \in Autonomous : step[p] # "rest"
  /\ main.pc = "ticking" => main.at \notin Autonomous
  /\ \A p \in Synchronized : m_synchronized[p]
  /\ Framing => \A p \in Autonomous : ~m_quit[p] /\ m_is_autonomous[p]

\* It waits for the signal of the frame.
Asleep(p) ==
  /\ step[p] \in {"new", "wait"}
  /\ ~m_start_tick_event[p] /\ ~m_end_tick_event[p] /\ m_synchronize_continue[p]

\* It has the signal, and its tick has not ended.
InTick(p) ==
  /\ ~m_end_tick_event[p]
  /\ \/ /\ step[p] \in {"new", "wait", "reset"}
        /\ m_start_tick_event[p] /\ m_synchronize_continue[p]
     \/ /\ step[p] \in {"check_quit", "failed", "failed_continue"} \cup Ticking
        /\ ~m_start_tick_event[p] /\ m_synchronize_continue[p]
     \/ /\ step[p] = "failed_end"
        /\ ~m_start_tick_event[p] /\ ~m_synchronize_continue[p]

\* Its tick has ended, and has told so.
Done(p) ==
  /\ m_end_tick_event[p] /\ ~m_start_tick_event[p]
  /\ \/ step[p] = "wait" /\ m_synchronize_continue[p]
     \/ step[p] = "ended" /\ ~m_synchronize_continue[p]

Busy(p) == InTick(p) \/ Done(p)

\* Its tick has failed.
Failed(p) == step[p] \in {"failed_end", "ended"} /\ ~m_synchronize_continue[p]

\* A processor the main thread is at.
Met(p) ==
  /\ main.pc = "wait_end" => Busy(p)
  /\ main.pc = "reset_end" => Done(p)
  /\ main.pc = "synchronize" => Asleep(p) \/ Failed(p)

Phase(p) ==
  /\ main.pc \in {"idle", "collect_garbage"} => Asleep(p)
  /\ main.pc = "pre_tick" => IF InLeft(p) THEN Asleep(p) ELSE Busy(p)
  /\ main.pc \in {"do_tick", "ticking"} => Busy(p)
  /\ main.pc = "post_tick" => IF InLeft(p) THEN Busy(p) ELSE Asleep(p)
  /\ main.pc \in Waiting =>
       IF p = main.at THEN Met(p) ELSE IF InLeft(p) THEN Busy(p) ELSE Asleep(p)

\* A processor with a thread that is not synchronized becomes so when its tick fails.
Free(p) ==
  /\ m_synchronized[p] => step[p] \in {"failed_continue", "failed_end", "ended"}
  /\ ~m_synchronize_continue[p] => step[p] \in {"failed_end", "ended"}
  /\ m_end_tick_event[p] => step[p] = "ended"
  /\ main.pc \in {"reset_end", "synchronize"} /\ main.at = p =>
       step[p] \in {"failed_end", "ended"}

FrameInv ==
  /\ Typed /\ Loop /\ Owned
  /\ \A p \in Synchronized : Phase(p)
  /\ \A p \in Autonomous \ Synchronized : Free(p)

-------------------------------------------------------------------------------
LEMMA Distinctly ==
  /\ Active \in Seq(Processor)
  /\ \A i, j \in 1..Len(Active) : Active[i] = Active[j] => i = j
  /\ \A p \in Processor : \E i \in 1..Len(Active) : Active[i] = p
  /\ Synchronized \subseteq Autonomous /\ Autonomous \subseteq Processor
  /\ Base \in Processor
BY FrameAssumption DEF FrameAssumption

\* What a loop has left when it moves on.
LEMMA MovesOn ==
  ASSUME NEW p \in Processor, left \in Seq(Processor), left # <<>>, p = left[1],
         \A i, j \in 1..Len(left) : left[i] = left[j] => i = j,
         left' = Tail(left)
  PROVE  /\ left' \in Seq(Processor)
         /\ \A i, j \in 1..Len(left') : left'[i] = left'[j] => i = j
         /\ InLeft(p) /\ ~InLeft(p)'
         /\ \A q \in Processor : q # p => (InLeft(q)' <=> InLeft(q))
<1>1. /\ Len(left) \in Nat /\ Len(left) > 0
      /\ Len(left') = Len(left) - 1 /\ left' \in Seq(Processor)
      /\ \A i \in 1..Len(left') : left'[i] = left[i + 1]
  OBVIOUS
<1>2. \A i, j \in 1..Len(left') : left'[i] = left'[j] => i = j
  BY <1>1
<1>3. InLeft(p) /\ ~InLeft(p)'
  BY <1>1 DEF InLeft
<1>4. ASSUME NEW q \in Processor, q # p PROVE InLeft(q)' <=> InLeft(q)
  <2>1. InLeft(q)' => InLeft(q)
    BY <1>1 DEF InLeft
  <2>2. ASSUME NEW i \in 1..Len(left), left[i] = q PROVE left'[i - 1] = q /\ i - 1 \in 1..Len(left')
    <3>1. i # 1
      BY <2>2, <1>4
    <3>2. i - 1 \in 1..Len(left')
      BY <3>1, <1>1
    <3>3. left'[i - 1] = left[(i - 1) + 1]
      BY <3>2, <1>1
    <3>. QED BY <3>2, <3>3, <2>2
  <2>. QED BY <2>1, <2>2 DEF InLeft
<1>. QED BY <1>1, <1>2, <1>3, <1>4

\* What a thread changes is its own.
LEMMA OthersKept ==
  ASSUME Typed, NEW p \in Processor, Thread(p), NEW q \in Processor, q # p
  PROVE  /\ step'[q] = step[q]
         /\ m_start_tick_event'[q] = m_start_tick_event[q]
         /\ m_end_tick_event'[q] = m_end_tick_event[q]
         /\ m_synchronize_continue'[q] = m_synchronize_continue[q]
<1>. USE DEF Typed, Step
<1>1. CASE entry(p) BY <1>1 DEF entry, eventVars
<1>2. CASE wait_start(p) BY <1>2 DEF wait_start, flagVars, eventVars
<1>3. CASE reset_start(p) BY <1>3 DEF reset_start, flagVars
<1>4. CASE check_quit(p) BY <1>4 DEF check_quit, eventVars
<1>5. CASE flush(p) BY <1>5 DEF flush, flagVars, eventVars
<1>6. CASE p = Base /\ flush_jobs1_move BY <1>6 DEF flush_jobs1_move, flagVars, eventVars
<1>7. CASE pop_job1(p) BY <1>7 DEF pop_job1, flagVars, eventVars
<1>8. CASE flush_jobs1_end(p) BY <1>8 DEF flush_jobs1_end, flagVars, eventVars
<1>9. CASE tick_end(p) BY <1>9 DEF tick_end, flagVars
<1>10. CASE tick_fail(p) BY <1>10 DEF tick_fail, flagVars, eventVars
<1>11. CASE fail_synchronized(p) BY <1>11 DEF fail_synchronized, eventVars
<1>12. CASE fail_continue(p) BY <1>12 DEF fail_continue, eventVars
<1>13. CASE fail_end(p) BY <1>13 DEF fail_end
<1>. QED
  BY <1>1, <1>2, <1>3, <1>4, <1>5, <1>6, <1>7, <1>8, <1>9, <1>10, <1>11, <1>12, <1>13
  DEF Thread, Tick

\* The step of p from one place to another, with its two events and the flag as given.
Moves(p, from, to, start, end, continue) ==
  /\ step[p] = from /\ step'[p] = to
  /\ m_start_tick_event'[p] = start
  /\ m_end_tick_event'[p] = end
  /\ m_synchronize_continue'[p] = continue

\* The steps of a synchronized processor while nobody tells it to quit.
OwnSteps(p) ==
  LET start == m_start_tick_event[p]
      end == m_end_tick_event[p]
      continue == m_synchronize_continue[p]
  IN  \/ Moves(p, "new", "wait", start, end, continue)
      \/ start /\ Moves(p, "wait", "reset", start, end, continue)
      \/ Moves(p, "reset", "check_quit", FALSE, end, continue)
      \/ Moves(p, "check_quit", "flush", start, end, continue)
      \/ \E from \in Ticking, to \in Ticking : Moves(p, from, to, start, end, continue)
      \/ Moves(p, "ticked", "wait", start, TRUE, continue)
      \/ Moves(p, "ticked", "failed", start, end, continue)
      \/ Moves(p, "failed", "failed_continue", start, end, continue)
      \/ Moves(p, "failed_continue", "failed_end", start, end, FALSE)
      \/ Moves(p, "failed_end", "ended", start, TRUE, continue)

LEMMA OwnStep ==
  ASSUME Typed, Owned, Framing, NEW p \in Synchronized, Thread(p)
  PROVE  OwnSteps(p)
<1>. USE Distinctly DEF Typed, Step, Moves
<1>0. p \in Processor /\ m_synchronized[p] /\ ~m_quit[p]
  BY DEF Owned
<1>1. CASE entry(p)
  <2>. Moves(p, "new", "wait", m_start_tick_event[p], m_end_tick_event[p], m_synchronize_continue[p])
    BY <1>0, <1>1 DEF entry, Await, eventVars
  <2>. QED BY DEF OwnSteps
<1>2. CASE wait_start(p)
  <2>. /\ m_start_tick_event[p]
       /\ Moves(p, "wait", "reset", m_start_tick_event[p], m_end_tick_event[p], m_synchronize_continue[p])
    BY <1>0, <1>2 DEF wait_start, flagVars, eventVars
  <2>. QED BY DEF OwnSteps
<1>3. CASE reset_start(p)
  <2>. Moves(p, "reset", "check_quit", FALSE, m_end_tick_event[p], m_synchronize_continue[p])
    BY <1>0, <1>3 DEF reset_start, flagVars
  <2>. QED BY DEF OwnSteps
<1>4. CASE check_quit(p)
  <2>. Moves(p, "check_quit", "flush", m_start_tick_event[p], m_end_tick_event[p], m_synchronize_continue[p])
    BY <1>0, <1>4 DEF check_quit, eventVars
  <2>. QED BY DEF OwnSteps
<1>5. CASE Tick(p)
  <2>1. PICK from \in Ticking, to \in Ticking :
          Moves(p, from, to, m_start_tick_event[p], m_end_tick_event[p], m_synchronize_continue[p])
    <3>. USE <1>0 DEF Ticking
    <3>1. CASE flush(p) BY <3>1 DEF flush, flagVars, eventVars
    <3>2. CASE p = Base /\ flush_jobs1_move BY <3>2 DEF flush_jobs1_move, flagVars, eventVars
    <3>3. CASE pop_job1(p) BY <3>3 DEF pop_job1, flagVars, eventVars
    <3>4. CASE flush_jobs1_end(p) BY <3>4 DEF flush_jobs1_end, flagVars, eventVars
    <3>. QED BY <1>5, <3>1, <3>2, <3>3, <3>4 DEF Tick
  <2>. QED BY <2>1 DEF OwnSteps
<1>6. CASE tick_end(p)
  <2>. Moves(p, "ticked", "wait", m_start_tick_event[p], TRUE, m_synchronize_continue[p])
    BY <1>0, <1>6 DEF tick_end, Await, flagVars
  <2>. QED BY DEF OwnSteps
<1>7. CASE tick_fail(p)
  <2>. Moves(p, "ticked", "failed", m_start_tick_event[p], m_end_tick_event[p], m_synchronize_continue[p])
    BY <1>0, <1>7 DEF tick_fail, flagVars, eventVars
  <2>. QED BY DEF OwnSteps
<1>8. CASE fail_synchronized(p)
  <2>. Moves(p, "failed", "failed_continue", m_start_tick_event[p], m_end_tick_event[p],
             m_synchronize_continue[p])
    BY <1>0, <1>8 DEF fail_synchronized, eventVars
  <2>. QED BY DEF OwnSteps
<1>9. CASE fail_continue(p)
  <2>. Moves(p, "failed_continue", "failed_end", m_start_tick_event[p], m_end_tick_event[p], FALSE)
    BY <1>0, <1>9 DEF fail_continue, eventVars
  <2>. QED BY DEF OwnSteps
<1>10. CASE fail_end(p)
  <2>. Moves(p, "failed_end", "ended", m_start_tick_event[p], TRUE, m_synchronize_continue[p])
    BY <1>0, <1>10 DEF fail_end
  <2>. QED BY DEF OwnSteps
<1>. QED
  BY <1>1, <1>2, <1>3, <1>4, <1>5, <1>6, <1>7, <1>8, <1>9, <1>10 DEF Thread

\* A thread does not take a processor from one of these conditions to another.
LEMMA ThreadKeepsKind ==
  ASSUME Typed, Owned, Framing, NEW p \in Processor, Thread(p),
         NEW q \in Synchronized
  PROVE  /\ Asleep(q) => Asleep(q)'
         /\ Busy(q) => Busy(q)'
         /\ Done(q) => Done(q)'
         /\ Failed(q) => Failed(q)'
<1>1. CASE q = p
  <2>1. OwnSteps(q)
    BY <1>1, OwnStep
  <2>2. Asleep(q) => Asleep(q)'
    BY <2>1 DEF OwnSteps, Moves, Asleep, Ticking
  <2>3. InTick(q) => InTick(q)' \/ Done(q)'
    BY <2>1 DEF OwnSteps, Moves, InTick, Done, Ticking
  <2>4. Done(q) => Done(q)'
    BY <2>1 DEF OwnSteps, Moves, Done, Ticking
  <2>5. Failed(q) => Failed(q)'
    BY <2>1 DEF OwnSteps, Moves, Failed, Ticking
  <2>. QED BY <2>2, <2>3, <2>4, <2>5 DEF Busy
<1>2. CASE q # p
  <2>1. /\ step'[q] = step[q]
        /\ m_start_tick_event'[q] = m_start_tick_event[q]
        /\ m_end_tick_event'[q] = m_end_tick_event[q]
        /\ m_synchronize_continue'[q] = m_synchronize_continue[q]
    BY <1>2, OthersKept, Distinctly
  <2>. QED BY <2>1 DEF Asleep, Busy, InTick, Done, Failed
<1>. QED BY <1>1, <1>2

LEMMA ThreadKeepsTyped ==
  ASSUME Typed, Owned, NEW p \in Processor, Thread(p)
  PROVE  Typed'
<1>. USE Distinctly DEF Typed, Owned, Step, Ticking, Failing
<1>1. CASE entry(p) BY <1>1 DEF entry, Await, eventVars, mainVars
<1>2. CASE wait_start(p) BY <1>2 DEF wait_start, flagVars, eventVars, mainVars
<1>3. CASE reset_start(p) BY <1>3 DEF reset_start, flagVars, mainVars
<1>4. CASE check_quit(p) BY <1>4 DEF check_quit, eventVars, mainVars
<1>5. CASE flush(p) BY <1>5 DEF flush, flagVars, eventVars, mainVars
<1>6. CASE p = Base /\ flush_jobs1_move
  BY <1>6 DEF flush_jobs1_move, flagVars, eventVars, mainVars
<1>7. CASE pop_job1(p) BY <1>7 DEF pop_job1, flagVars, eventVars, mainVars
<1>8. CASE flush_jobs1_end(p) BY <1>8 DEF flush_jobs1_end, flagVars, eventVars, mainVars
<1>9. CASE tick_end(p) BY <1>9 DEF tick_end, Await, flagVars, mainVars
<1>10. CASE tick_fail(p) BY <1>10 DEF tick_fail, flagVars, eventVars, mainVars
<1>11. CASE fail_synchronized(p) BY <1>11 DEF fail_synchronized, eventVars, mainVars
<1>12. CASE fail_continue(p) BY <1>12 DEF fail_continue, eventVars, mainVars
<1>13. CASE fail_end(p) BY <1>13 DEF fail_end, mainVars
<1>. QED
  BY <1>1, <1>2, <1>3, <1>4, <1>5, <1>6, <1>7, <1>8, <1>9, <1>10, <1>11, <1>12, <1>13
  DEF Thread, Tick

\* The flags of the owner are not the thread's to change, and it is never at rest.
LEMMA ThreadKeepsOwned ==
  ASSUME Typed, Owned, NEW p \in Processor, Thread(p)
  PROVE  Owned' /\ UNCHANGED mainVars
<1>1. /\ UNCHANGED <<m_is_autonomous, m_quit, mainVars>>
      /\ \A q \in Synchronized : m_synchronized'[q]
      /\ \A q \in Autonomous : step'[q] # "rest"
  <2>. USE Distinctly DEF Typed, Owned, Step, Ticking, Failing
  <2>1. CASE entry(p) BY <2>1 DEF entry, Await, eventVars
  <2>2. CASE wait_start(p) BY <2>2 DEF wait_start, flagVars
  <2>3. CASE reset_start(p) BY <2>3 DEF reset_start, flagVars
  <2>4. CASE check_quit(p) BY <2>4 DEF check_quit
  <2>5. CASE flush(p) BY <2>5 DEF flush, flagVars
  <2>6. CASE p = Base /\ flush_jobs1_move BY <2>6 DEF flush_jobs1_move, flagVars
  <2>7. CASE pop_job1(p) BY <2>7 DEF pop_job1, flagVars
  <2>8. CASE flush_jobs1_end(p) BY <2>8 DEF flush_jobs1_end, flagVars
  <2>9. CASE tick_end(p) BY <2>9 DEF tick_end, Await, flagVars
  <2>10. CASE tick_fail(p) BY <2>10 DEF tick_fail, flagVars
  <2>11. CASE fail_synchronized(p) BY <2>11 DEF fail_synchronized
  <2>12. CASE fail_continue(p) BY <2>12 DEF fail_continue
  <2>13. CASE fail_end(p) BY <2>13 DEF fail_end
  <2>. QED
    BY <2>1, <2>2, <2>3, <2>4, <2>5, <2>6, <2>7, <2>8, <2>9, <2>10, <2>11, <2>12, <2>13
    DEF Thread, Tick
<1>. QED BY <1>1 DEF Owned, Framing, mainVars

\* What a thread that is not synchronized does keeps it so, or fails.
LEMMA ThreadKeepsFree ==
  ASSUME Typed, Owned, NEW p \in Processor, Thread(p),
         NEW q \in Autonomous \ Synchronized, Free(q)
  PROVE  Free(q)'
<1>. USE Distinctly DEF Typed, Owned, Free, Step, Ticking, Failing
<1>1. CASE entry(p) BY <1>1 DEF entry, Await, eventVars, mainVars
<1>2. CASE wait_start(p) BY <1>2 DEF wait_start, flagVars, eventVars, mainVars
<1>3. CASE reset_start(p) BY <1>3 DEF reset_start, flagVars, mainVars
<1>4. CASE check_quit(p) BY <1>4 DEF check_quit, eventVars, mainVars
<1>5. CASE flush(p) BY <1>5 DEF flush, flagVars, eventVars, mainVars
<1>6. CASE p = Base /\ flush_jobs1_move
  BY <1>6 DEF flush_jobs1_move, flagVars, eventVars, mainVars
<1>7. CASE pop_job1(p) BY <1>7 DEF pop_job1, flagVars, eventVars, mainVars
<1>8. CASE flush_jobs1_end(p) BY <1>8 DEF flush_jobs1_end, flagVars, eventVars, mainVars
<1>9. CASE tick_end(p)
  <2>1. step[p] = "ticked" /\ UNCHANGED <<m_synchronized, m_synchronize_continue, main>>
    BY <1>9 DEF tick_end, flagVars, mainVars
  <2>2. CASE q = p
    <3>1. ~m_synchronized[q] /\ m_synchronize_continue[q] /\ ~m_end_tick_event[q]
      BY <2>1, <2>2
    <3>2. ~m_end_tick_event'[q]
      BY <1>9, <2>2, <3>1 DEF tick_end
    <3>. QED BY <2>1, <2>2, <3>1, <3>2
  <2>3. CASE q # p
    BY <2>1, <2>3, <1>9 DEF tick_end
  <2>. QED BY <2>2, <2>3
<1>10. CASE tick_fail(p) BY <1>10 DEF tick_fail, flagVars, eventVars, mainVars
<1>11. CASE fail_synchronized(p) BY <1>11 DEF fail_synchronized, eventVars, mainVars
<1>12. CASE fail_continue(p) BY <1>12 DEF fail_continue, eventVars, mainVars
<1>13. CASE fail_end(p) BY <1>13 DEF fail_end, mainVars
<1>. QED
  BY <1>1, <1>2, <1>3, <1>4, <1>5, <1>6, <1>7, <1>8, <1>9, <1>10, <1>11, <1>12, <1>13
  DEF Thread, Tick

LEMMA ThreadKeeps ==
  ASSUME FrameInv, NEW p \in Processor, Thread(p)
  PROVE  FrameInv'
<1>1. Typed' /\ Owned' /\ UNCHANGED mainVars
  BY ThreadKeepsTyped, ThreadKeepsOwned DEF FrameInv
<1>2. Loop'
  BY <1>1 DEF FrameInv, Loop, InLeft, mainVars
<1>3. ASSUME NEW q \in Synchronized PROVE Phase(q)'
  <2>1. CASE Framing
    <3>1. /\ Asleep(q) => Asleep(q)'
          /\ Busy(q) => Busy(q)'
          /\ Done(q) => Done(q)'
          /\ Failed(q) => Failed(q)'
      BY <2>1, ThreadKeepsKind DEF FrameInv
    <3>2. Phase(q) /\ main' = main /\ left' = left /\ (InLeft(q)' <=> InLeft(q))
      BY <1>1 DEF FrameInv, mainVars, InLeft
    <3>. QED BY <3>1, <3>2 DEF Phase, Met
  <2>2. CASE ~Framing
    BY <2>2, <1>1 DEF Framing, Waiting, Phase, Met, mainVars
  <2>. QED BY <2>1, <2>2
<1>4. \A q \in Autonomous \ Synchronized : Free(q)'
  BY ThreadKeepsFree DEF FrameInv
<1>. QED BY <1>1, <1>2, <1>3, <1>4 DEF FrameInv

-------------------------------------------------------------------------------
(* The main thread. *)

\* What most of its steps leave alone.
Kept == UNCHANGED <<step, flagVars, eventVars>>

LEMMA KeptKinds ==
  ASSUME Kept, NEW p
  PROVE  /\ Asleep(p)' <=> Asleep(p)
         /\ Busy(p)' <=> Busy(p)
         /\ Done(p)' <=> Done(p)
         /\ Failed(p)' <=> Failed(p)
BY DEF Kept, flagVars, eventVars, Asleep, Busy, InTick, Done, Failed

\* A step that only moves the main thread.
LEMMA MainMoves ==
  ASSUME FrameInv, Kept, main' \in [pc : {main'.pc}, at : Processor],
         main'.pc \in {"idle", "pre_tick", "do_tick", "post_tick", "wait_end",
                     "reset_end", "synchronize", "collect_garbage", "stopped",
                     "clear", "join", "gone"},
         Framing' => Framing,
         Loop', \A p \in Synchronized : Phase(p)',
         \A p \in Autonomous \ Synchronized :
           main'.pc \in {"reset_end", "synchronize"} /\ main'.at = p =>
             step[p] \in {"failed_end", "ended"}
  PROVE  FrameInv'
<1>1. Typed'
  BY DEF FrameInv, Typed, Kept, flagVars, eventVars
<1>2. Owned'
  BY DEF FrameInv, Owned, Kept, flagVars, eventVars
<1>3. ASSUME NEW p \in Autonomous \ Synchronized PROVE Free(p)'
  BY DEF FrameInv, Free, Kept, flagVars, eventVars
<1>. QED BY <1>1, <1>2, <1>3 DEF FrameInv

LEMMA PreTick == ASSUME FrameInv, pre_tick PROVE FrameInv'
<1>1. Kept /\ main.pc = "idle" /\ main' = [main EXCEPT !.pc = "pre_tick"] /\ left' = Active
  BY DEF pre_tick, Main, MainAt, Kept
<1>2. main \in [pc : {"idle"}, at : Processor] /\ main'.pc = "pre_tick" /\ main'.at = main.at
  BY <1>1 DEF FrameInv, Typed
<1>3. Loop'
  BY <1>1, <1>2, Distinctly DEF Loop, Waiting
<1>4. ASSUME NEW p \in Synchronized PROVE Phase(p)'
  <2>1. InLeft(p)'
    BY <1>1, Distinctly DEF InLeft
  <2>2. Asleep(p)'
    BY <1>1, KeptKinds DEF FrameInv, Phase
  <2>. QED BY <1>2, <2>1, <2>2 DEF Phase, Waiting
<1>. QED BY <1>1, <1>2, <1>3, <1>4, MainMoves DEF Framing, Waiting

LEMMA SignalStart ==
  ASSUME FrameInv, NEW p \in Processor, signal_frame_start(p) PROVE FrameInv'
<1>1. /\ main.pc = "pre_tick" /\ main' = main
      /\ left # <<>> /\ p = left[1] /\ left' = Tail(left)
      /\ m_start_tick_event' = [m_start_tick_event EXCEPT ![p] = @ \/ InFrame(p)]
      /\ UNCHANGED <<step, flagVars, m_end_tick_event>>
  BY DEF signal_frame_start, AtNext, MainAt
<1>2. /\ left' \in Seq(Processor)
      /\ \A i, j \in 1..Len(left') : left'[i] = left'[j] => i = j
      /\ InLeft(p) /\ ~InLeft(p)'
      /\ \A q \in Processor : q # p => (InLeft(q)' <=> InLeft(q))
  BY <1>1, MovesOn DEF FrameInv, Loop
<1>3. Typed'
  BY <1>1 DEF FrameInv, Typed, InFrame, flagVars
<1>4. Loop'
  BY <1>1, <1>2 DEF Loop, Waiting
<1>5. Owned'
  BY <1>1 DEF FrameInv, Owned, Framing, flagVars
<1>6. ASSUME NEW q \in Synchronized PROVE Phase(q)'
  <2>1. CASE q = p
    <3>1. Asleep(p)
      BY <1>1, <1>2, <2>1 DEF FrameInv, Phase
    <3>2. InFrame(p)
      BY <1>1, <2>1, Distinctly DEF FrameInv, Owned, Framing, InFrame
    <3>3. InTick(p)'
      BY <1>1, <3>1, <3>2 DEF Asleep, InTick, FrameInv, Typed, flagVars
    <3>. QED BY <1>1, <1>2, <2>1, <3>3 DEF Phase, Busy, Waiting
  <2>2. CASE q # p
    <3>1. /\ Asleep(q) => Asleep(q)'
          /\ Busy(q) => Busy(q)'
      BY <1>1, <2>2 DEF FrameInv, Typed, flagVars, Asleep, Busy, InTick, Done
    <3>2. InLeft(q)' <=> InLeft(q)
      BY <1>2, <2>2, Distinctly
    <3>. QED BY <1>1, <3>1, <3>2 DEF FrameInv, Phase, Waiting
  <2>. QED BY <2>1, <2>2
<1>7. \A q \in Autonomous \ Synchronized : Free(q)'
  BY <1>1 DEF FrameInv, Free, flagVars
<1>. QED BY <1>3, <1>4, <1>5, <1>6, <1>7 DEF FrameInv

LEMMA DoTick == ASSUME FrameInv, do_tick PROVE FrameInv'
<1>1. /\ Kept /\ main.pc = "pre_tick" /\ main' = [main EXCEPT !.pc = "do_tick"]
      /\ left = <<>>
  BY DEF do_tick, Main, MainAt, Kept
<1>2. /\ main \in [pc : {"pre_tick"}, at : Processor]
      /\ main'.pc = "do_tick" /\ main'.at = main.at
  BY <1>1 DEF FrameInv, Typed
<1>3. Loop'
  BY <1>2 DEF Loop, Waiting
<1>4. ASSUME NEW p \in Synchronized PROVE Phase(p)'
  <2>1. ~InLeft(p)
    BY <1>1 DEF InLeft
  <2>2. Busy(p)'
    BY <1>1, <2>1, KeptKinds DEF FrameInv, Phase
  <2>. QED BY <1>2, <2>2 DEF Phase, Waiting
<1>. QED BY <1>1, <1>2, <1>3, <1>4, MainMoves DEF Framing, Waiting

LEMMA DoTickSkip ==
  ASSUME FrameInv, NEW p \in Processor, do_tick_skip(p) PROVE FrameInv'
<1>1. Kept /\ main.pc = "do_tick" /\ main' = main
  BY DEF do_tick_skip, AtNext, MainAt, Kept
<1>2. main' \in [pc : {main'.pc}, at : Processor]
  BY <1>1 DEF FrameInv, Typed
<1>3. Loop'
  BY <1>1 DEF Loop, Waiting
<1>4. ASSUME NEW q \in Synchronized PROVE Phase(q)'
  BY <1>1, KeptKinds DEF FrameInv, Phase, Waiting
<1>. QED BY <1>1, <1>2, <1>3, <1>4, MainMoves DEF Framing, Waiting

LEMMA TickInline ==
  ASSUME FrameInv, NEW p \in Processor, tick_inline(p) PROVE FrameInv'
<1>1. /\ main.pc = "do_tick" /\ main' = [pc |-> "ticking", at |-> p]
      /\ step[p] = "rest" /\ step' = [step EXCEPT ![p] = "flush"]
      /\ UNCHANGED <<flagVars, eventVars>>
  BY DEF tick_inline, AtNext, MainAt, Step
<1>2. p \notin Autonomous
  BY <1>1 DEF FrameInv, Owned
<1>3. Typed'
  BY <1>1 DEF FrameInv, Typed, Ticking, flagVars, eventVars
<1>4. \A q \in Autonomous : step'[q] = step[q]
  BY <1>1, <1>2, Distinctly DEF FrameInv, Typed
<1>5. Owned'
  BY <1>1, <1>2, <1>4 DEF FrameInv, Owned, Framing, flagVars
<1>6. ASSUME NEW q \in Synchronized PROVE Phase(q)'
  <2>1. Busy(q) => Busy(q)'
    BY <1>1, <1>4, Distinctly DEF Busy, InTick, Done, flagVars, eventVars
  <2>. QED BY <1>1, <2>1 DEF FrameInv, Phase, Waiting
<1>7. \A q \in Autonomous \ Synchronized : Free(q)'
  BY <1>1, <1>4 DEF FrameInv, Free, flagVars, eventVars
<1>. QED BY <1>1, <1>3, <1>5, <1>6, <1>7 DEF FrameInv, Loop, Waiting

\* A step of a processor without a thread.
LEMMA RestingStep ==
  ASSUME FrameInv, main.at \notin Autonomous, main.pc = "ticking",
         step' = [step EXCEPT ![main.at] = "rest"], main'.at = main.at,
         main' \in [pc : {"do_tick", "stopped"}, at : Processor],
         UNCHANGED <<flagVars, eventVars>>
  PROVE  FrameInv'
<1>1. \A q \in Autonomous : step'[q] = step[q]
  BY Distinctly DEF FrameInv, Typed
<1>2. Typed'
  BY DEF FrameInv, Typed, flagVars, eventVars
<1>3. Owned'
  BY <1>1 DEF FrameInv, Owned, Framing, flagVars
<1>4. ASSUME NEW q \in Synchronized PROVE Phase(q)'
  <2>1. Busy(q)'
    BY <1>1, Distinctly DEF FrameInv, Phase, Busy, InTick, Done, flagVars, eventVars
  <2>. QED BY <2>1 DEF Phase, Waiting
<1>5. \A q \in Autonomous \ Synchronized : Free(q)'
  BY <1>1 DEF FrameInv, Free, flagVars, eventVars
<1>. QED BY <1>2, <1>3, <1>4, <1>5 DEF FrameInv, Loop, Waiting

LEMMA TickInlineEnd ==
  ASSUME FrameInv, NEW ok \in BOOLEAN, tick_inline_end(ok) PROVE FrameInv'
<1>1. /\ main.pc = "ticking" /\ step' = [step EXCEPT ![main.at] = "rest"]
      /\ main' = [main EXCEPT !.pc = IF ok THEN "do_tick" ELSE "stopped"]
      /\ UNCHANGED <<flagVars, eventVars>>
  BY DEF tick_inline_end, Main, MainAt, Step
<1>2. main'.at = main.at /\ main' \in [pc : {"do_tick", "stopped"}, at : Processor]
  BY <1>1 DEF FrameInv, Typed
<1>3. main.at \notin Autonomous
  BY <1>1 DEF FrameInv, Owned
<1>. QED BY <1>1, <1>2, <1>3, RestingStep

LEMMA PostTick == ASSUME FrameInv, post_tick PROVE FrameInv'
<1>1. /\ Kept /\ main.pc = "do_tick" /\ main' = [main EXCEPT !.pc = "post_tick"]
      /\ left' = Active
  BY DEF post_tick, Main, MainAt, Kept
<1>2. /\ main \in [pc : {"do_tick"}, at : Processor]
      /\ main'.pc = "post_tick" /\ main'.at = main.at
  BY <1>1 DEF FrameInv, Typed
<1>3. Loop'
  BY <1>1, <1>2, Distinctly DEF Loop, Waiting
<1>4. ASSUME NEW p \in Synchronized PROVE Phase(p)'
  <2>1. InLeft(p)'
    BY <1>1, Distinctly DEF InLeft
  <2>2. Busy(p)'
    BY <1>1, KeptKinds DEF FrameInv, Phase
  <2>. QED BY <1>2, <2>1, <2>2 DEF Phase, Waiting
<1>. QED BY <1>1, <1>2, <1>3, <1>4, MainMoves DEF Framing, Waiting

LEMMA PostTickSkip ==
  ASSUME FrameInv, NEW p \in Processor, post_tick_skip(p) PROVE FrameInv'
<1>1. /\ Kept /\ main.pc = "post_tick" /\ main' = main /\ ~InFrame(p)
      /\ left # <<>> /\ p = left[1] /\ left' = Tail(left)
  BY DEF post_tick_skip, AtNext, MainAt, Kept
<1>2. /\ left' \in Seq(Processor)
      /\ \A i, j \in 1..Len(left') : left'[i] = left'[j] => i = j
      /\ \A q \in Processor : q # p => (InLeft(q)' <=> InLeft(q))
  BY <1>1, MovesOn DEF FrameInv, Loop
<1>3. main' \in [pc : {main'.pc}, at : Processor]
  BY <1>1 DEF FrameInv, Typed
<1>4. Loop'
  BY <1>1, <1>2 DEF Loop, Waiting
<1>5. ASSUME NEW q \in Synchronized PROVE Phase(q)'
  <2>1. q # p
    BY <1>1, Distinctly DEF FrameInv, Owned, Framing, InFrame
  <2>2. InLeft(q)' <=> InLeft(q)
    BY <1>2, <2>1, Distinctly
  <2>. QED BY <1>1, <2>2, KeptKinds DEF FrameInv, Phase, Waiting
<1>. QED BY <1>1, <1>3, <1>4, <1>5, MainMoves DEF Framing, Waiting

LEMMA WaitFrameEnd ==
  ASSUME FrameInv, NEW p \in Processor, wait_signal_frame_end(p) PROVE FrameInv'
<1>1. /\ Kept /\ main.pc = "post_tick" /\ InFrame(p)
      /\ main' = [pc |-> IF m_synchronize_continue[p] THEN "wait_end" ELSE "synchronize",
                  at |-> p]
      /\ left # <<>> /\ p = left[1] /\ left' = Tail(left)
  BY DEF wait_signal_frame_end, AtNext, MainAt, Kept
<1>2. /\ left' \in Seq(Processor)
      /\ \A i, j \in 1..Len(left') : left'[i] = left'[j] => i = j
      /\ InLeft(p) /\ ~InLeft(p)'
      /\ \A q \in Processor : q # p => (InLeft(q)' <=> InLeft(q))
  BY <1>1, MovesOn DEF FrameInv, Loop
<1>3. /\ main' \in [pc : {main'.pc}, at : Processor]
      /\ main'.at = p /\ main'.pc \in {"wait_end", "synchronize"}
  BY <1>1
<1>4. p \in Autonomous
  BY <1>1 DEF FrameInv, Owned, InFrame
<1>5. Loop'
  BY <1>2, <1>3, <1>4 DEF Loop
<1>6. ASSUME NEW q \in Synchronized PROVE Phase(q)'
  <2>1. CASE q = p
    <3>1. Busy(q)
      BY <1>1, <1>2, <2>1 DEF FrameInv, Phase
    <3>2. ~m_synchronize_continue[p] => Failed(q)
      BY <2>1, <3>1 DEF Busy, InTick, Done, Failed
    <3>3. Met(q)'
      BY <1>1, <3>1, <3>2, KeptKinds DEF Met
    <3>. QED BY <1>3, <2>1, <3>3 DEF Phase, Waiting
  <2>2. CASE q # p
    <3>1. InLeft(q)' <=> InLeft(q)
      BY <1>2, <2>2, Distinctly
    <3>2. IF InLeft(q)' THEN Busy(q)' ELSE Asleep(q)'
      BY <1>1, <3>1, KeptKinds DEF FrameInv, Phase
    <3>. QED BY <1>3, <2>2, <3>2 DEF Phase, Waiting
  <2>. QED BY <2>1, <2>2
<1>7. ASSUME NEW q \in Autonomous \ Synchronized, main'.pc \in {"reset_end", "synchronize"},
             main'.at = q
      PROVE  step[q] \in {"failed_end", "ended"}
  BY <1>1, <1>3, <1>7 DEF FrameInv, Free
<1>. QED BY <1>1, <1>3, <1>5, <1>6, <1>7, MainMoves DEF Framing, Waiting

\* The main thread stays at a processor.
LEMMA Stays ==
  ASSUME FrameInv, main.pc \in Waiting, main'.pc \in Waiting, main'.at = main.at,
         left' = left,
         \A q \in Synchronized : q # main.at => /\ Asleep(q) => Asleep(q)'
                                                /\ Busy(q) => Busy(q)',
         main.at \in Synchronized => Met(main.at)'
  PROVE  Loop' /\ \A q \in Synchronized : Phase(q)'
<1>1. Loop'
  BY DEF FrameInv, Loop, InLeft
<1>2. ASSUME NEW q \in Synchronized PROVE Phase(q)'
  <2>1. InLeft(q)' <=> InLeft(q)
    BY DEF InLeft
  <2>2. CASE q = main.at
    <3>1. Met(q)'
      BY <2>2
    <3>. QED BY <2>2, <3>1 DEF Phase, Waiting
  <2>3. CASE q # main.at
    <3>1. IF InLeft(q) THEN Busy(q) ELSE Asleep(q)
      BY <2>3 DEF FrameInv, Phase, Waiting
    <3>2. IF InLeft(q)' THEN Busy(q)' ELSE Asleep(q)'
      BY <2>1, <2>3, <3>1
    <3>. QED BY <2>3, <3>2 DEF Phase, Waiting
  <2>. QED BY <2>2, <2>3
<1>. QED BY <1>1, <1>2

LEMMA WaitEnd == ASSUME FrameInv, wait_end PROVE FrameInv'
<1>1. /\ Kept /\ main.pc = "wait_end" /\ main' = [main EXCEPT !.pc = "reset_end"]
      /\ left' = left /\ m_end_tick_event[main.at]
  BY DEF wait_end, Main, MainAt, Kept
<1>2. /\ main' \in [pc : {main'.pc}, at : Processor]
      /\ main'.pc = "reset_end" /\ main'.at = main.at
  BY <1>1 DEF FrameInv, Typed
<1>3. ASSUME main.at \in Synchronized PROVE Met(main.at)'
  <2>1. Busy(main.at)
    BY <1>1, <1>3 DEF FrameInv, Phase, Met, Waiting
  <2>2. Done(main.at)
    BY <1>1, <2>1 DEF Busy, InTick
  <2>3. Done(main.at)'
    BY <1>1, <1>2, <2>2 DEF Done, Kept, flagVars, eventVars
  <2>. QED BY <1>2, <2>3 DEF Met
<1>4. Loop' /\ \A q \in Synchronized : Phase(q)'
  BY <1>1, <1>2, <1>3, KeptKinds, Stays DEF Waiting
<1>5. ASSUME NEW q \in Autonomous \ Synchronized, main'.at = q
      PROVE  step[q] \in {"failed_end", "ended"}
  BY <1>1, <1>2, <1>5 DEF FrameInv, Free
<1>. QED BY <1>1, <1>2, <1>4, <1>5, MainMoves DEF Framing, Waiting

LEMMA ResetEnd == ASSUME FrameInv, reset_end PROVE FrameInv'
<1>1. /\ main.pc = "reset_end" /\ main' = [main EXCEPT !.pc = "synchronize"]
      /\ left' = left /\ m_end_tick_event' = [m_end_tick_event EXCEPT ![main.at] = FALSE]
      /\ UNCHANGED <<step, flagVars, m_start_tick_event>>
  BY DEF reset_end, Main, MainAt
<1>2. main'.pc = "synchronize" /\ main'.at = main.at /\ main.at \in Processor
  BY <1>1 DEF FrameInv, Typed
<1>3. Typed'
  BY <1>1, <1>2 DEF FrameInv, Typed, flagVars
<1>4. Owned'
  BY <1>1, <1>2 DEF FrameInv, Owned, Framing, Waiting, flagVars
<1>5. ASSUME main.at \in Synchronized PROVE Met(main.at)'
  <2>1. Done(main.at)
    BY <1>1, <1>5 DEF FrameInv, Phase, Met, Waiting
  <2>2. ~m_end_tick_event'[main.at]
    BY <1>1, <1>2 DEF FrameInv, Typed
  <2>3. Asleep(main.at)' \/ Failed(main.at)'
    BY <1>1, <1>2, <2>1, <2>2 DEF Asleep, Failed, Done, flagVars
  <2>. QED BY <1>2, <2>3 DEF Met
<1>6. ASSUME NEW q \in Synchronized, q # main.at
      PROVE  /\ Asleep(q) => Asleep(q)'
             /\ Busy(q) => Busy(q)'
  BY <1>1, <1>6 DEF FrameInv, Typed, Asleep, Busy, InTick, Done, flagVars
<1>7. Loop' /\ \A q \in Synchronized : Phase(q)'
  BY <1>1, <1>2, <1>5, <1>6, Stays DEF Waiting
<1>8. ASSUME NEW q \in Autonomous \ Synchronized PROVE Free(q)'
  <2>1. m_end_tick_event'[q] => m_end_tick_event[q]
    BY <1>1, Distinctly DEF FrameInv, Typed
  <2>. QED BY <1>1, <1>2, <2>1 DEF FrameInv, Free, flagVars
<1>. QED BY <1>3, <1>4, <1>7, <1>8 DEF FrameInv

LEMMA Synchronization == ASSUME FrameInv, do_synchronization PROVE FrameInv'
<1>1. /\ Kept /\ main.pc = "synchronize" /\ left' = left
      /\ main' = [main EXCEPT !.pc = IF m_synchronize_continue[main.at]
                                     THEN "post_tick" ELSE "stopped"]
  BY DEF do_synchronization, Main, MainAt, Kept
<1>2. /\ main' \in [pc : {main'.pc}, at : Processor] /\ main'.at = main.at
      /\ main'.pc = IF m_synchronize_continue[main.at] THEN "post_tick" ELSE "stopped"
  BY <1>1 DEF FrameInv, Typed
<1>3. left \in Seq(Processor) /\ \A i, j \in 1..Len(left) : left[i] = left[j] => i = j
  BY <1>1 DEF FrameInv, Loop, Waiting
<1>4. Loop'
  BY <1>1, <1>2, <1>3 DEF Loop, Waiting
<1>5. ASSUME NEW q \in Synchronized PROVE Phase(q)'
  <2>1. CASE m_synchronize_continue[main.at]
    <3>1. main'.pc = "post_tick" /\ (InLeft(q)' <=> InLeft(q))
      BY <1>1, <1>2, <2>1 DEF InLeft
    <3>2. q = main.at => ~InLeft(q) /\ Asleep(q)
      BY <1>1, <2>1 DEF FrameInv, Loop, Phase, Met, Failed, Waiting
    <3>3. IF InLeft(q) THEN Busy(q) ELSE Asleep(q)
      BY <1>1, <3>2 DEF FrameInv, Phase, Waiting
    <3>. QED BY <1>1, <3>1, <3>3, KeptKinds DEF Phase, Waiting
  <2>2. CASE ~m_synchronize_continue[main.at]
    BY <1>2, <2>2 DEF Phase, Waiting
  <2>. QED BY <2>1, <2>2
<1>. QED BY <1>1, <1>2, <1>4, <1>5, MainMoves DEF Framing, Waiting

LEMMA PostTickEnd == ASSUME FrameInv, post_tick_end PROVE FrameInv'
<1>1. /\ Kept /\ main.pc = "post_tick" /\ main' = [main EXCEPT !.pc = "collect_garbage"]
      /\ left = <<>>
  BY DEF post_tick_end, Main, MainAt, Kept
<1>2. /\ main' \in [pc : {main'.pc}, at : Processor]
      /\ main'.pc = "collect_garbage" /\ main'.at = main.at
  BY <1>1 DEF FrameInv, Typed
<1>3. Loop'
  BY <1>2 DEF Loop, Waiting
<1>4. ASSUME NEW q \in Synchronized PROVE Phase(q)'
  <2>1. ~InLeft(q)
    BY <1>1 DEF InLeft
  <2>. QED BY <1>1, <1>2, <2>1, KeptKinds DEF FrameInv, Phase, Waiting
<1>. QED BY <1>1, <1>2, <1>3, <1>4, MainMoves DEF Framing, Waiting

LEMMA CollectGarbage == ASSUME FrameInv, collect_garbage PROVE FrameInv'
<1>1. /\ Kept /\ main.pc = "collect_garbage" /\ main' = [main EXCEPT !.pc = "idle"]
  BY DEF collect_garbage, Main, MainAt, Kept
<1>2. /\ main' \in [pc : {main'.pc}, at : Processor]
      /\ main'.pc = "idle" /\ main'.at = main.at
  BY <1>1 DEF FrameInv, Typed
<1>3. Loop'
  BY <1>2 DEF Loop, Waiting
<1>4. ASSUME NEW q \in Synchronized PROVE Phase(q)'
  BY <1>1, <1>2, KeptKinds DEF FrameInv, Phase, Waiting
<1>. QED BY <1>1, <1>2, <1>3, <1>4, MainMoves DEF Framing, Waiting

\* Once the frames are over nothing is claimed but the types and who has a thread.
LEMMA Ending ==
  ASSUME FrameInv, Typed', main'.pc \in {"clear", "join", "gone"}, UNCHANGED step,
         UNCHANGED <<m_synchronized, m_synchronize_continue, m_end_tick_event>>,
         \A p \in Processor : m_is_autonomous'[p] => m_is_autonomous[p]
  PROVE  FrameInv'
<1>1. Loop' /\ \A p \in Synchronized : Phase(p)'
  BY DEF Loop, Phase, Waiting
<1>2. Owned'
  BY DEF FrameInv, Owned, Framing, Waiting
<1>3. \A p \in Autonomous \ Synchronized : Free(p)'
  BY DEF FrameInv, Free
<1>. QED BY <1>1, <1>2, <1>3 DEF FrameInv

LEMMA Clear == ASSUME FrameInv, clear_event_processor PROVE FrameInv'
<1>1. main' = [main EXCEPT !.pc = "clear"] /\ Kept
  BY DEF clear_event_processor, Main, Kept
<1>2. main'.pc = "clear" /\ Typed'
  BY <1>1 DEF FrameInv, Typed, Kept, flagVars, eventVars
<1>. QED BY <1>1, <1>2, Ending DEF Kept, flagVars, eventVars

LEMMA SetAutonomousFalse ==
  ASSUME FrameInv, NEW p \in Processor, set_autonomous_false(p) PROVE FrameInv'
<1>1. /\ main.pc = "clear"
      /\ main' = IF m_is_running[p] THEN [pc |-> "join", at |-> p] ELSE main
      /\ m_quit' = IF m_is_running[p] THEN [m_quit EXCEPT ![p] = TRUE] ELSE m_quit
      /\ m_start_tick_event' = IF m_is_running[p]
                               THEN [m_start_tick_event EXCEPT ![p] = TRUE]
                               ELSE m_start_tick_event
      /\ m_is_autonomous' = IF m_is_running[p] THEN m_is_autonomous
                            ELSE [m_is_autonomous EXCEPT ![p] = FALSE]
      /\ UNCHANGED <<step, m_synchronized, m_synchronize_continue, m_end_tick_event>>
  BY DEF set_autonomous_false, AtNext, MainAt
<1>2. Typed' /\ main'.pc \in {"clear", "join"}
  BY <1>1 DEF FrameInv, Typed
<1>3. \A q \in Processor : m_is_autonomous'[q] => m_is_autonomous[q]
  BY <1>1 DEF FrameInv, Typed
<1>. QED BY <1>1, <1>2, <1>3, Ending

LEMMA Join == ASSUME FrameInv, join PROVE FrameInv'
<1>1. /\ main' = [main EXCEPT !.pc = "clear"]
      /\ m_is_autonomous' = [m_is_autonomous EXCEPT ![main.at] = FALSE]
      /\ UNCHANGED <<step, m_synchronized, m_synchronize_continue, m_quit, eventVars>>
  BY DEF join, Main
<1>2. Typed' /\ main'.pc = "clear"
  BY <1>1 DEF FrameInv, Typed, eventVars
<1>3. \A q \in Processor : m_is_autonomous'[q] => m_is_autonomous[q]
  BY <1>1 DEF FrameInv, Typed
<1>. QED BY <1>1, <1>2, <1>3, Ending DEF eventVars

LEMMA Destroyed == ASSUME FrameInv, destroyed PROVE FrameInv'
<1>1. main' = [main EXCEPT !.pc = "gone"] /\ Kept
  BY DEF destroyed, Main, Kept
<1>2. main'.pc = "gone" /\ Typed'
  BY <1>1 DEF FrameInv, Typed, Kept, flagVars, eventVars
<1>. QED BY <1>1, <1>2, Ending DEF Kept, flagVars, eventVars

\* The main thread ticks a processor without a thread.
LEMMA InlineTick ==
  ASSUME FrameInv, NEW p \in Processor \ Autonomous, Tick(p) PROVE FrameInv'
<1>1. /\ \A q \in Autonomous : step'[q] = step[q]
      /\ step' \in [Processor -> {"new", "wait", "reset", "check_quit", "rest", "ended"}
                                   \cup Ticking \cup Failing]
      /\ UNCHANGED <<flagVars, eventVars, mainVars>>
  <2>. USE Distinctly DEF FrameInv, Typed, Step, Ticking
  <2>1. CASE flush(p) BY <2>1 DEF flush
  <2>2. CASE p = Base /\ flush_jobs1_move BY <2>2 DEF flush_jobs1_move
  <2>3. CASE pop_job1(p) BY <2>3 DEF pop_job1
  <2>4. CASE flush_jobs1_end(p) BY <2>4 DEF flush_jobs1_end
  <2>. QED BY <2>1, <2>2, <2>3, <2>4 DEF Tick
<1>2. Typed'
  BY <1>1 DEF FrameInv, Typed, flagVars, eventVars, mainVars
<1>3. Owned' /\ Loop'
  BY <1>1 DEF FrameInv, Owned, Loop, InLeft, Framing, flagVars, mainVars
<1>4. ASSUME NEW q \in Synchronized PROVE Phase(q)'
  <2>1. /\ Asleep(q)' <=> Asleep(q)
        /\ Busy(q)' <=> Busy(q)
        /\ Done(q)' <=> Done(q)
        /\ Failed(q)' <=> Failed(q)
    BY <1>1, Distinctly DEF Asleep, Busy, InTick, Done, Failed, flagVars, eventVars
  <2>2. Phase(q) /\ main' = main /\ (InLeft(q)' <=> InLeft(q))
    BY <1>1 DEF FrameInv, InLeft, mainVars
  <2>. QED BY <2>1, <2>2 DEF Phase, Met
<1>5. \A q \in Autonomous \ Synchronized : Free(q)'
  BY <1>1 DEF FrameInv, Free, flagVars, eventVars, mainVars
<1>. QED BY <1>2, <1>3, <1>4, <1>5 DEF FrameInv

\* What a step that changes none of these variables keeps.
LEMMA Elsewhere ==
  ASSUME FrameInv, UNCHANGED <<step, flagVars, eventVars, mainVars>> PROVE FrameInv'
<1>. USE DEF flagVars, eventVars, mainVars
<1>1. Typed' BY DEF FrameInv, Typed
<1>2. Owned' /\ Loop' BY DEF FrameInv, Owned, Loop, InLeft, Framing
<1>3. ASSUME NEW q \in Synchronized PROVE Phase(q)'
  <2>1. Kept /\ Phase(q) /\ main' = main /\ (InLeft(q)' <=> InLeft(q))
    BY DEF FrameInv, InLeft, Kept
  <2>. QED BY <2>1, KeptKinds DEF Phase, Met
<1>4. \A q \in Autonomous \ Synchronized : Free(q)' BY DEF FrameInv, Free
<1>. QED BY <1>1, <1>2, <1>3, <1>4 DEF FrameInv

LEMMA FrameInit == Init => FrameInv
<1>. SUFFICES ASSUME Init PROVE FrameInv
  OBVIOUS
<1>. USE Distinctly DEF Init
<1>1. Typed BY DEF Typed
<1>2. Owned BY DEF Owned
<1>3. Loop BY DEF Loop, Waiting
<1>4. \A q \in Synchronized : Phase(q) BY DEF Phase, Asleep, Waiting
<1>5. \A q \in Autonomous \ Synchronized : Free(q) BY DEF Free
<1>. QED BY <1>1, <1>2, <1>3, <1>4, <1>5 DEF FrameInv

LEMMA FrameStep == FrameInv /\ [Next]_vars => FrameInv'
<1>. SUFFICES ASSUME FrameInv, [Next]_vars PROVE FrameInv'
  OBVIOUS
<1>1. ASSUME NEW p \in Processor, Thread(p) PROVE FrameInv'
  BY <1>1, ThreadKeeps
<1>2. ASSUME NEW p \in Processor, post(p) PROVE FrameInv'
  BY <1>2, Elsewhere DEF post, CountPost
<1>3. CASE post_job1
  BY <1>3, Elsewhere DEF post_job1, CountPost
<1>4. CASE pre_tick BY <1>4, PreTick
<1>5. CASE clear_event_processor BY <1>5, Clear
<1>6. CASE MainNext
  <2>1. CASE do_tick BY <2>1, DoTick
  <2>2. CASE post_tick BY <2>2, PostTick
  <2>3. CASE wait_end BY <2>3, WaitEnd
  <2>4. CASE reset_end BY <2>4, ResetEnd
  <2>5. CASE do_synchronization BY <2>5, Synchronization
  <2>6. CASE post_tick_end BY <2>6, PostTickEnd
  <2>7. CASE collect_garbage BY <2>7, CollectGarbage
  <2>8. CASE join BY <2>8, Join
  <2>9. CASE destroyed BY <2>9, Destroyed
  <2>10. ASSUME NEW ok \in BOOLEAN, tick_inline_end(ok) PROVE FrameInv'
    BY <2>10, TickInlineEnd
  <2>11. ASSUME NEW p \in Processor, signal_frame_start(p) PROVE FrameInv'
    BY <2>11, SignalStart
  <2>12. ASSUME NEW p \in Processor, tick_inline(p) PROVE FrameInv'
    BY <2>12, TickInline
  <2>13. ASSUME NEW p \in Processor, p \notin Autonomous, Tick(p) PROVE FrameInv'
    BY <2>13, InlineTick
  <2>14. ASSUME NEW p \in Processor, post_tick_skip(p) PROVE FrameInv'
    BY <2>14, PostTickSkip
  <2>15. ASSUME NEW p \in Processor, wait_signal_frame_end(p) PROVE FrameInv'
    BY <2>15, WaitFrameEnd
  <2>16. ASSUME NEW p \in Processor, set_autonomous_false(p) PROVE FrameInv'
    BY <2>16, SetAutonomousFalse
  <2>17. ASSUME NEW p \in Processor, do_tick_skip(p) PROVE FrameInv'
    BY <2>17, DoTickSkip
  <2>. QED
    BY <1>6, <2>1, <2>2, <2>3, <2>4, <2>5, <2>6, <2>7, <2>8, <2>9, <2>10, <2>11, <2>12, <2>13,
       <2>14, <2>15, <2>16, <2>17 DEF MainNext
<1>7. CASE UNCHANGED vars
  BY <1>7, Elsewhere DEF vars
<1>. QED BY <1>1, <1>2, <1>3, <1>4, <1>5, <1>6, <1>7 DEF Next

-------------------------------------------------------------------------------
LEMMA FrameInvExclusive == FrameInv => FrameExclusive
<1>. SUFFICES ASSUME FrameInv PROVE FrameExclusive
  OBVIOUS
<1>1. ASSUME main.pc \in {"idle", "collect_garbage"}, NEW p \in Synchronized
      PROVE  step[p] \in Resting
  BY <1>1 DEF FrameInv, Phase, Asleep, Resting
<1>2. ASSUME main.pc = "synchronize" PROVE step[main.at] \in Resting \cup {"failed_end"}
  <2>1. main.at \in Autonomous
    BY <1>2 DEF FrameInv, Loop, Waiting
  <2>2. CASE main.at \in Synchronized
    BY <1>2, <2>2 DEF FrameInv, Phase, Met, Asleep, Failed, Resting, Waiting
  <2>3. CASE main.at \notin Synchronized
    BY <1>2, <2>1, <2>3 DEF FrameInv, Free, Resting
  <2>. QED BY <2>2, <2>3
<1>. QED BY <1>1, <1>2 DEF FrameExclusive

\* Between the frames, and while garbage is collected, no synchronized processor ticks,
\* for any number of processors, with and without threads, and ticks that fail at any time.
THEOREM NoTickBetweenFrames == Spec => []FrameExclusive
<1>1. Spec => []FrameInv
  BY FrameInit, FrameStep, PTL DEF Spec
<1>. QED BY <1>1, FrameInvExclusive, PTL

-------------------------------------------------------------------------------
(* A complete frame.  Who has the tick of the frame before it is one tick behind; of the  *)
(* others, who goes on has ticked in it, and has taken what was posted before it.         *)

Lists ==
  /\ queue \in [Processor -> Seq(Nat)]
  /\ m_job1_list \in Seq(Nat) /\ m_job1_list_for_read \in Seq(Nat)
  /\ frame \in Nat /\ frame <= MaxFrame
  /\ ticks \in [Processor -> Nat]
  /\ m_is_running \in [Processor -> BOOLEAN]

\* The loop that ticks the processors without a thread meets each of them once.
Loops ==
  /\ left \in Seq(Processor)
  /\ main.pc \in {"do_tick", "ticking"} =>
       \A i, j \in 1..Len(left) : left[i] = left[j] => i = j
  /\ main.pc = "ticking" => ~InLeft(main.at)

\* They tick when the main thread is at them.
Still ==
  \A p \in Processor \ Autonomous :
    IF main.pc = "ticking" /\ main.at = p THEN step[p] \in Ticking ELSE step[p] = "rest"

\* Those whose tick is part of the frame.
Framed == Synchronized \cup (Processor \ Autonomous)

Fresh(list) == \A i \in 1..Len(list) : list[i] = frame

\* What the tick of p has done so far.
Flushed(p) ==
  /\ step[p] \in {"job1_move", "job1", "ticked"} => Fresh(queue[p])
  /\ step[p] \in {"job1", "ticked"} /\ p = Base => Fresh(m_job1_list)
  /\ step[p] = "ticked" /\ p = Base => m_job1_list_for_read = <<>>

\* The frame has the tick of p before it.
Turn(p) ==
  \/ main.pc = "pre_tick" /\ (p \notin Autonomous \/ InLeft(p))
  \/ p \in Synchronized /\ InTick(p)
  \/ p \notin Autonomous /\ main.pc \in {"do_tick", "ticking"} /\ InLeft(p)
  \/ p \notin Autonomous /\ main.pc = "ticking" /\ main.at = p

Current(p) ==
  /\ ticks[p] = frame /\ Fresh(queue[p])
  /\ p = Base => Fresh(m_job1_list) /\ m_job1_list_for_read = <<>>

Goes(p) == p \in Synchronized => m_synchronize_continue[p]

Pace(p) ==
  Framing => IF Turn(p) THEN ticks[p] = frame - 1 ELSE Goes(p) => Current(p)

\* Nobody ticks more often than there are frames, not even when they have ended.
Limit(p) ==
  /\ ticks[p] <= frame
  /\ step[p] \in Ticking => ticks[p] < frame
  /\ p \in Synchronized =>
       /\ (m_start_tick_event[p] \/ step[p] \in {"reset", "check_quit"}) /\ ~m_quit[p] =>
            ticks[p] < frame
       /\ m_start_tick_event[p] /\ step[p] \in Ticking \cup {"check_quit"} => m_quit[p]

CompleteInv ==
  /\ FrameInv /\ Lists /\ Loops /\ Still
  /\ \A p \in Framed : Flushed(p) /\ Pace(p) /\ Limit(p)
  /\ \A p \in Autonomous \ Synchronized : ticks[p] = 0

LEMMA FramedIn == Framed \subseteq Processor /\ (Framed \cap Autonomous = Synchronized)
BY Distinctly DEF Framed

\* Each of the threads of a frame is in one of these conditions.
LEMMA Conditions ==
  ASSUME FrameInv, Framing, NEW p \in Synchronized
  PROVE  Asleep(p) \/ InTick(p) \/ Done(p) \/ Failed(p)
BY DEF FrameInv, Framing, Phase, Met, Busy, Waiting

\* What a tick leaves alone.
LEMMA TickData ==
  ASSUME Typed, Lists, NEW p \in Processor, Tick(p)
  PROVE  /\ Lists' /\ UNCHANGED <<ticks, flagVars, eventVars, mainVars>>
         /\ \A q \in Processor : q # p => queue'[q] = queue[q] /\ step'[q] = step[q]
         /\ p # Base => m_job1_list' = m_job1_list
         /\ p # Base => (m_job1_list_for_read = <<>> => m_job1_list_for_read' = <<>>)
         /\ step[p] \in Ticking /\ step'[p] \in Ticking
         /\ step'[p] # "flush"
<1>. USE Distinctly DEF Typed, Lists, Step, Ticking, flagVars, eventVars, mainVars
<1>1. CASE flush(p)
  <2>1. /\ queue' = [queue EXCEPT ![p] = <<>>]
        /\ UNCHANGED <<frame, m_job1_list, m_job1_list_for_read>>
        /\ UNCHANGED <<ticks, flagVars, eventVars, mainVars>>
    BY <1>1 DEF flush
  <2>2. step[p] = "flush" /\ step'[p] \in Ticking \ {"flush"}
    BY <1>1 DEF flush
  <2>3. \A q \in Processor : q # p => step'[q] = step[q]
    BY <1>1 DEF flush
  <2>4. queue' \in [Processor -> Seq(Nat)]
    BY <2>1
  <2>. QED BY <2>1, <2>2, <2>3, <2>4
<1>2. CASE p = Base /\ flush_jobs1_move
  <2>1. /\ m_job1_list' = <<>> /\ m_job1_list_for_read' = m_job1_list \o m_job1_list_for_read
        /\ UNCHANGED <<queue, frame, ticks, flagVars, eventVars, mainVars>>
        /\ step[p] = "job1_move" /\ step' = [step EXCEPT ![p] = "job1"]
    BY <1>2 DEF flush_jobs1_move
  <2>2. m_job1_list' \in Seq(Nat) /\ m_job1_list_for_read' \in Seq(Nat)
    BY <2>1
  <2>. QED BY <1>2, <2>1, <2>2
<1>3. CASE pop_job1(p)
  <2>1. /\ m_job1_list_for_read' = Tail(m_job1_list_for_read) /\ m_job1_list_for_read # <<>>
        /\ UNCHANGED <<step, queue, frame, m_job1_list, ticks, flagVars, eventVars, mainVars>>
        /\ step[p] = "job1"
    BY <1>3 DEF pop_job1
  <2>2. m_job1_list_for_read' \in Seq(Nat)
    BY <2>1
  <2>. QED BY <2>1, <2>2
<1>4. CASE flush_jobs1_end(p) BY <1>4 DEF flush_jobs1_end, listVars
<1>. QED BY <1>1, <1>2, <1>3, <1>4 DEF Tick

\* What a tick has done when it comes to its end.
LEMMA TickFlushes ==
  ASSUME Typed, Lists, NEW p \in Processor, Tick(p), Flushed(p)
  PROVE  Flushed(p)'
<1>. USE Distinctly DEF Typed, Lists, Step, Flushed, Fresh
<1>1. CASE flush(p)
  <2>1. /\ queue'[p] = <<>> /\ p \in Processor
        /\ step'[p] = (IF p = Base THEN "job1_move" ELSE IF p \in Slave THEN "job1" ELSE "ticked")
    BY <1>1 DEF flush
  <2>2. Len(queue'[p]) = 0
    BY <2>1
  <2>3. Fresh(queue[p])'
    BY <2>2
  <2>4. p = Base => step'[p] = "job1_move"
    BY <2>1
  <2>. QED BY <2>3, <2>4
<1>2. CASE p = Base /\ flush_jobs1_move
  <2>1. /\ queue' = queue /\ m_job1_list' = <<>> /\ step'[p] = "job1" /\ step[p] = "job1_move"
        /\ frame' = frame
    BY <1>2 DEF flush_jobs1_move, mainVars
  <2>2. Len(m_job1_list') = 0
    BY <2>1
  <2>3. Fresh(m_job1_list)'
    BY <2>2
  <2>4. Fresh(queue[p]) /\ (Fresh(queue[p])' <=> Fresh(queue[p]))
    BY <2>1
  <2>. HIDE DEF Fresh
  <2>. QED BY <2>1, <2>3, <2>4
<1>3. CASE pop_job1(p)
  <2>1. UNCHANGED <<queue, m_job1_list, step, frame>> /\ step[p] = "job1"
    BY <1>3 DEF pop_job1, mainVars
  <2>. QED BY <2>1
<1>4. CASE flush_jobs1_end(p)
  <2>1. /\ UNCHANGED <<queue, m_job1_list, m_job1_list_for_read, frame>>
        /\ step[p] = "job1" /\ step'[p] = "ticked"
        /\ p = Base => m_job1_list_for_read = <<>>
    BY <1>4 DEF flush_jobs1_end, mainVars, listVars
  <2>. QED BY <2>1
<1>. QED BY <1>1, <1>2, <1>3, <1>4 DEF Tick

\* The processors a step does not touch.
LEMMA Untouched ==
  ASSUME NEW p, Flushed(p), Pace(p), Limit(p),
         UNCHANGED <<mainVars, m_quit>>,
         step'[p] = step[p], ticks'[p] = ticks[p], queue'[p] = queue[p],
         m_start_tick_event'[p] = m_start_tick_event[p],
         m_end_tick_event'[p] = m_end_tick_event[p],
         m_synchronize_continue'[p] = m_synchronize_continue[p],
         p = Base => /\ m_job1_list' = m_job1_list
                     /\ m_job1_list_for_read = <<>> => m_job1_list_for_read' = <<>>
  PROVE  Flushed(p)' /\ Pace(p)' /\ Limit(p)'
<1>. USE DEF mainVars
<1>1. Fresh(queue[p])' <=> Fresh(queue[p])
  BY DEF Fresh
<1>2. p = Base => (Fresh(m_job1_list)' <=> Fresh(m_job1_list))
  BY DEF Fresh
<1>3. Flushed(p)'
  BY <1>1, <1>2 DEF Flushed
<1>4. (InTick(p)' <=> InTick(p)) /\ (InLeft(p)' <=> InLeft(p))
  BY DEF InTick, InLeft
<1>5. (Turn(p)' <=> Turn(p)) /\ (Goes(p)' <=> Goes(p)) /\ (Framing' <=> Framing)
  BY <1>4 DEF Turn, Goes, Framing
<1>6. Current(p) => Current(p)'
  BY <1>1, <1>2 DEF Current
<1>7. Pace(p)'
  BY <1>5, <1>6 DEF Pace
<1>8. Limit(p)'
  BY DEF Limit
<1>. QED BY <1>3, <1>7, <1>8

-------------------------------------------------------------------------------
(* The threads. *)

LEMMA ThreadData ==
  ASSUME Typed, Lists, NEW p \in Processor, Thread(p)
  PROVE  /\ Lists' /\ UNCHANGED <<m_quit, mainVars>>
         /\ \A q \in Processor : q # p => queue'[q] = queue[q] /\ ticks'[q] = ticks[q]
         /\ p # Base => m_job1_list' = m_job1_list
         /\ p # Base => (m_job1_list_for_read = <<>> => m_job1_list_for_read' = <<>>)
         /\ p \notin Synchronized => ticks'[p] = ticks[p]
<1>1. CASE Tick(p) BY <1>1, TickData DEF flagVars
<1>2. CASE ~Tick(p)
  <2>. USE DEF Lists, listVars, mainVars, Typed
  <2>1. CASE entry(p) BY <2>1 DEF entry
  <2>2. CASE wait_start(p) BY <2>2 DEF wait_start, flagVars
  <2>3. CASE reset_start(p) BY <2>3 DEF reset_start, flagVars
  <2>4. CASE check_quit(p)
    <3>1. m_is_running' \in [Processor -> BOOLEAN]
      BY <2>4 DEF check_quit
    <3>. QED BY <2>4, <3>1 DEF check_quit
  <2>5. CASE tick_end(p)
    <3>1. ticks' = [ticks EXCEPT ![p] = IF p \in Synchronized THEN @ + 1 ELSE @]
      BY <2>5 DEF tick_end
    <3>2. ticks' \in [Processor -> Nat]
      BY <3>1
    <3>. QED BY <2>5, <3>1, <3>2 DEF tick_end, flagVars
  <2>6. CASE tick_fail(p) BY <2>6 DEF tick_fail, flagVars
  <2>7. CASE fail_synchronized(p) BY <2>7 DEF fail_synchronized
  <2>8. CASE fail_continue(p) BY <2>8 DEF fail_continue
  <2>9. CASE fail_end(p) BY <2>9 DEF fail_end
  <2>. QED
    BY <1>2, <2>1, <2>2, <2>3, <2>4, <2>5, <2>6, <2>7, <2>8, <2>9 DEF Thread
<1>. QED BY <1>1, <1>2

LEMMA OwnFlushed ==
  ASSUME Typed, Lists, NEW p \in Synchronized, Flushed(p), Thread(p)
  PROVE  Flushed(p)'
<1>. p \in Processor
  BY Distinctly
<1>1. CASE Tick(p) BY <1>1, TickFlushes
<1>2. CASE ~Tick(p)
  <2>. USE <1>2 DEF Typed, Step
  <2>1. step'[p] \notin {"job1_move", "job1", "ticked"}
    <3>1. CASE entry(p) BY <3>1 DEF entry, Await
    <3>2. CASE wait_start(p) BY <3>2 DEF wait_start
    <3>3. CASE reset_start(p) BY <3>3 DEF reset_start
    <3>4. CASE check_quit(p) BY <3>4 DEF check_quit
    <3>5. CASE tick_end(p) BY <3>5 DEF tick_end, Await
    <3>6. CASE tick_fail(p) BY <3>6 DEF tick_fail
    <3>7. CASE fail_synchronized(p) BY <3>7 DEF fail_synchronized
    <3>8. CASE fail_continue(p) BY <3>8 DEF fail_continue
    <3>9. CASE fail_end(p) BY <3>9 DEF fail_end
    <3>. QED BY <3>1, <3>2, <3>3, <3>4, <3>5, <3>6, <3>7, <3>8, <3>9 DEF Thread
  <2>. QED BY <2>1 DEF Flushed
<1>. QED BY <1>1, <1>2

LEMMA OwnLimit ==
  ASSUME Typed, Lists, Owned, NEW p \in Synchronized, Limit(p), Thread(p)
  PROVE  Limit(p)'
<1>. p \in Processor /\ m_synchronized[p]
  BY Distinctly DEF Owned
<1>0. ticks[p] \in Nat /\ frame \in Nat
  BY DEF Lists
<1>1. CASE Tick(p)
  BY <1>1, TickData DEF Limit, flagVars, eventVars, mainVars
<1>2. CASE ~Tick(p)
  <2>. USE <1>2 DEF Typed, Step, Limit, Ticking, mainVars
  <2>1. CASE entry(p) BY <2>1 DEF entry, Await, eventVars
  <2>2. CASE wait_start(p) BY <2>2 DEF wait_start, flagVars, eventVars
  <2>3. CASE reset_start(p) BY <2>3 DEF reset_start, flagVars
  <2>4. CASE check_quit(p) BY <2>4 DEF check_quit, eventVars
  <2>5. CASE tick_end(p)
    <3>1. ticks'[p] = ticks[p] + 1 /\ frame' = frame /\ step[p] = "ticked" /\ step'[p] = "wait"
      BY <2>5 DEF tick_end, Await, Lists
    <3>2. m_start_tick_event' = m_start_tick_event /\ m_quit' = m_quit
      BY <2>5 DEF tick_end, flagVars
    <3>. QED BY <1>0, <3>1, <3>2
  <2>6. CASE tick_fail(p) BY <2>6 DEF tick_fail, flagVars, eventVars
  <2>7. CASE fail_synchronized(p) BY <2>7 DEF fail_synchronized, eventVars
  <2>8. CASE fail_continue(p) BY <2>8 DEF fail_continue, eventVars
  <2>9. CASE fail_end(p) BY <2>9 DEF fail_end
  <2>. QED
    BY <2>1, <2>2, <2>3, <2>4, <2>5, <2>6, <2>7, <2>8, <2>9 DEF Thread
<1>. QED BY <1>1, <1>2

\* A step of a thread that is neither part of its tick nor the end of it.
LEMMA OwnOther ==
  ASSUME Typed, NEW p \in Synchronized, Thread(p), ~Tick(p), ~tick_end(p)
  PROVE  UNCHANGED <<ticks, queue, m_job1_list, m_job1_list_for_read, mainVars>>
<1>. USE DEF listVars
<1>1. CASE entry(p) BY <1>1 DEF entry
<1>2. CASE wait_start(p) BY <1>2 DEF wait_start
<1>3. CASE reset_start(p) BY <1>3 DEF reset_start
<1>4. CASE check_quit(p) BY <1>4 DEF check_quit
<1>5. CASE tick_fail(p) BY <1>5 DEF tick_fail
<1>6. CASE fail_synchronized(p) BY <1>6 DEF fail_synchronized
<1>7. CASE fail_continue(p) BY <1>7 DEF fail_continue
<1>8. CASE fail_end(p) BY <1>8 DEF fail_end
<1>. QED BY <1>1, <1>2, <1>3, <1>4, <1>5, <1>6, <1>7, <1>8 DEF Thread

LEMMA OwnPace ==
  ASSUME CompleteInv, Framing, NEW p \in Synchronized, Thread(p)
  PROVE  Pace(p)'
<1>. p \in Processor /\ p \in Framed /\ p \in Autonomous
  BY Distinctly DEF Framed
<1>0. Typed /\ Lists /\ Owned /\ Pace(p) /\ Flushed(p) /\ FrameInv
  BY DEF CompleteInv, FrameInv
<1>1. OwnSteps(p)
  BY <1>0, OwnStep
<1>2. Asleep(p) \/ InTick(p) \/ Done(p) \/ Failed(p)
  BY <1>0, Conditions
<1>3. UNCHANGED mainVars /\ (InLeft(p)' <=> InLeft(p))
  BY <1>0, ThreadData DEF InLeft, mainVars
<1>4. CASE Tick(p)
  <2>1. UNCHANGED <<ticks, eventVars, flagVars>> /\ step[p] \in Ticking /\ step'[p] \in Ticking
    BY <1>0, <1>4, TickData
  <2>2. InTick(p)
    BY <1>2, <2>1 DEF Asleep, Done, Failed, Ticking
  <2>3. InTick(p)'
    BY <2>1, <2>2 DEF InTick, flagVars, eventVars, Ticking
  <2>4. ticks[p] = frame - 1
    BY <1>0, <2>2 DEF Pace, Turn
  <2>. QED BY <1>3, <2>1, <2>3, <2>4 DEF Pace, Turn, mainVars
<1>5. CASE tick_end(p)
  <2>1. /\ ticks'[p] = ticks[p] + 1 /\ step[p] = "ticked" /\ step'[p] = "wait"
        /\ UNCHANGED <<queue, m_job1_list, m_job1_list_for_read, m_start_tick_event>>
        /\ m_end_tick_event'[p]
    BY <1>0, <1>5 DEF tick_end, Await, Lists, Typed, Owned, Step, listVars
  <2>2. InTick(p) /\ ~InTick(p)'
    BY <1>2, <2>1 DEF Asleep, InTick, Done, Failed, Ticking
  <2>3. ticks[p] = frame - 1
    BY <1>0, <2>2 DEF Pace, Turn
  <2>4. ticks'[p] = frame'
    BY <1>0, <1>3, <2>1, <2>3 DEF Lists, mainVars
  <2>5. Current(p)'
    BY <1>0, <1>3, <2>1, <2>4 DEF Current, Flushed, Fresh, mainVars
  <2>6. main.pc # "pre_tick" \/ ~InLeft(p)
    BY <1>0, <2>2, <2>1 DEF FrameInv, Phase, Asleep
  <2>7. ~Turn(p)'
    BY <1>3, <2>2, <2>6 DEF Turn, mainVars
  <2>. QED BY <2>5, <2>7 DEF Pace
<1>6. CASE ~Tick(p) /\ ~tick_end(p)
  <2>1. UNCHANGED <<ticks, queue, m_job1_list, m_job1_list_for_read, mainVars>>
    BY <1>0, <1>6, OwnOther
  <2>2. Current(p) => Current(p)'
    BY <2>1 DEF Current, Fresh, mainVars
  <2>3. CASE InTick(p)
    <3>1. InTick(p)' \/ ~m_synchronize_continue'[p]
      <4>1. step'[p] # "wait" \/ step[p] # "ticked"
        BY <1>0, <1>6 DEF Thread, entry, wait_start, reset_start, check_quit, tick_fail,
           fail_synchronized, fail_continue, fail_end, Step, Typed
      <4>. QED BY <1>1, <2>3, <4>1 DEF OwnSteps, Moves, InTick, Ticking
    <3>2. ticks[p] = frame - 1
      BY <1>0, <2>3 DEF Pace, Turn
    <3>. QED BY <2>1, <3>1, <3>2 DEF Pace, Turn, Goes, mainVars
  <2>4. CASE ~InTick(p)
    <3>1. ~InTick(p)' /\ (Goes(p)' => Goes(p))
      BY <1>1, <1>2, <2>4 DEF OwnSteps, Moves, InTick, Asleep, Done, Failed, Goes, Ticking
    <3>2. Turn(p)' <=> Turn(p)
      BY <1>3, <2>4, <3>1 DEF Turn, mainVars
    <3>. QED BY <1>0, <2>1, <2>2, <3>1, <3>2 DEF Pace, mainVars
  <2>. QED BY <2>3, <2>4
<1>. QED BY <1>4, <1>5, <1>6

LEMMA ThreadComplete ==
  ASSUME CompleteInv, NEW p \in Processor, Thread(p), p \in Autonomous
  PROVE  CompleteInv'
<1>0. FrameInv /\ Typed /\ Owned /\ Lists
  BY DEF CompleteInv, FrameInv
<1>1. FrameInv' /\ Lists' /\ UNCHANGED <<m_quit, mainVars>>
  BY <1>0, ThreadKeeps, ThreadData
<1>2. Loops'
  BY <1>1 DEF CompleteInv, Loops, InLeft, mainVars
<1>3. Still'
  BY <1>0, <1>1, OthersKept DEF CompleteInv, Still, mainVars
<1>4. ASSUME NEW q \in Framed PROVE Flushed(q)' /\ Pace(q)' /\ Limit(q)'
  <2>. q \in Processor
    BY FramedIn
  <2>0. Flushed(q) /\ Pace(q) /\ Limit(q)
    BY DEF CompleteInv
  <2>1. CASE q # p
    <3>1. /\ step'[q] = step[q]
          /\ m_start_tick_event'[q] = m_start_tick_event[q]
          /\ m_end_tick_event'[q] = m_end_tick_event[q]
          /\ m_synchronize_continue'[q] = m_synchronize_continue[q]
      BY <1>0, <2>1, OthersKept
    <3>2. /\ ticks'[q] = ticks[q] /\ queue'[q] = queue[q]
          /\ q = Base => /\ m_job1_list' = m_job1_list
                         /\ m_job1_list_for_read = <<>> => m_job1_list_for_read' = <<>>
      BY <1>0, <2>1, ThreadData
    <3>. QED BY <1>1, <2>0, <3>1, <3>2, Untouched
  <2>2. CASE q = p
    <3>1. q \in Synchronized
      BY <2>2, FramedIn
    <3>2. Flushed(q)' /\ Limit(q)'
      BY <1>0, <2>0, <2>2, <3>1, OwnFlushed, OwnLimit
    <3>3. CASE Framing
      BY <2>2, <3>1, <3>2, <3>3, OwnPace
    <3>4. CASE ~Framing
      BY <1>1, <3>2, <3>4 DEF Pace, Framing, mainVars
    <3>. QED BY <3>2, <3>3, <3>4
  <2>. QED BY <2>1, <2>2
<1>5. ASSUME NEW q \in Autonomous \ Synchronized PROVE ticks'[q] = 0
  BY <1>0, ThreadData, Distinctly DEF CompleteInv
<1>. QED BY <1>1, <1>2, <1>3, <1>4, <1>5 DEF CompleteInv

-------------------------------------------------------------------------------
(* The steps of the main thread that only move it. *)

MainKept == UNCHANGED <<step, flagVars, eventVars, ticks, listVars, frame>>

LEMMA MainData ==
  ASSUME MainKept, NEW p
  PROVE  /\ Flushed(p)' <=> Flushed(p)
         /\ Limit(p)' <=> Limit(p)
         /\ Current(p)' <=> Current(p)
         /\ InTick(p)' <=> InTick(p)
         /\ Goes(p)' <=> Goes(p)
         /\ Lists' <=> Lists
<1>. USE DEF MainKept, flagVars, eventVars, listVars
<1>1. (Fresh(queue[p])' <=> Fresh(queue[p])) /\ (Fresh(m_job1_list)' <=> Fresh(m_job1_list))
  BY DEF Fresh
<1>2. Flushed(p)' <=> Flushed(p) BY <1>1 DEF Flushed
<1>3. Limit(p)' <=> Limit(p) BY DEF Limit
<1>4. Current(p)' <=> Current(p) BY <1>1 DEF Current
<1>5. InTick(p)' <=> InTick(p) BY DEF InTick
<1>6. Goes(p)' <=> Goes(p) BY DEF Goes
<1>7. Lists' <=> Lists BY DEF Lists
<1>. QED BY <1>2, <1>3, <1>4, <1>5, <1>6, <1>7

LEMMA MainComplete ==
  ASSUME CompleteInv, FrameInv', MainKept, Loops',
         main.pc # "ticking", main'.pc # "ticking", Framing' => Framing,
         Framing' => \A p \in Framed : Turn(p)' <=> Turn(p)
  PROVE  CompleteInv'
<1>1. Still'
  BY DEF CompleteInv, Still, MainKept
<1>2. Lists'
  BY MainData DEF CompleteInv
<1>3. ASSUME NEW p \in Framed PROVE Flushed(p)' /\ Pace(p)' /\ Limit(p)'
  <2>1. Flushed(p)' /\ Limit(p)'
    BY MainData DEF CompleteInv
  <2>2. Pace(p)'
    <3>1. SUFFICES ASSUME Framing' PROVE Pace(p)'
      BY DEF Pace
    <3>2. Pace(p) /\ Framing /\ (Turn(p)' <=> Turn(p))
      BY <3>1 DEF CompleteInv
    <3>3. ticks' = ticks /\ frame' = frame
      BY DEF MainKept
    <3>. QED BY <3>2, <3>3, MainData DEF Pace
  <2>. QED BY <2>1, <2>2
<1>4. \A p \in Autonomous \ Synchronized : ticks'[p] = 0
  BY DEF CompleteInv, MainKept
<1>. QED BY <1>1, <1>2, <1>3, <1>4 DEF CompleteInv

\* After the ticks of the main thread the turns are those of the threads.
LEMMA LateTurns ==
  ASSUME CompleteInv, FrameInv', MainKept, left' \in Seq(Processor),
         main.pc \in {"post_tick", "wait_end", "synchronize", "collect_garbage", "idle",
                      "stopped", "clear"},
         main'.pc \in {"post_tick", "wait_end", "reset_end", "synchronize", "collect_garbage",
                       "idle", "stopped", "clear", "gone"},
         Framing' => Framing
  PROVE  CompleteInv'
<1>1. Loops'
  BY DEF Loops
<1>2. \A p \in Framed : Turn(p)' <=> Turn(p)
  BY MainData DEF Turn
<1>. QED BY <1>1, <1>2, MainComplete

LEMMA TailIn ==
  ASSUME left \in Seq(Processor), left # <<>>
  PROVE  Tail(left) \in Seq(Processor)
OBVIOUS

LEMMA NoneLeft == ASSUME left = <<>>, NEW p PROVE ~InLeft(p)
BY DEF InLeft

LEMMA MainTypes ==
  CompleteInv => main \in [pc : {main.pc}, at : Processor] /\ left \in Seq(Processor)
BY DEF CompleteInv, FrameInv, Typed, Loops

LEMMA DoTickComplete == ASSUME CompleteInv, do_tick PROVE CompleteInv'
<1>1. /\ MainKept /\ main.pc = "pre_tick" /\ main' = [main EXCEPT !.pc = "do_tick"]
      /\ left = <<>> /\ left' = Active
  BY DEF do_tick, Main, MainAt, MainKept
<1>2. main'.pc = "do_tick" /\ main'.at = main.at
  BY <1>1, MainTypes
<1>3. Loops'
  BY <1>1, <1>2, Distinctly DEF Loops
<1>4. ASSUME NEW p \in Framed PROVE Turn(p)' <=> Turn(p)
  <2>1. ~InLeft(p) /\ InLeft(p)'
    BY <1>1, NoneLeft, FramedIn, Distinctly DEF InLeft
  <2>. QED BY <1>1, <1>2, <2>1, MainData, FramedIn DEF Turn
<1>5. FrameInv'
  BY DoTick DEF CompleteInv
<1>. QED BY <1>1, <1>2, <1>3, <1>4, <1>5, MainComplete DEF Framing

LEMMA DoTickSkipComplete ==
  ASSUME CompleteInv, NEW p \in Processor, do_tick_skip(p) PROVE CompleteInv'
<1>1. /\ MainKept /\ main.pc = "do_tick" /\ main' = main /\ m_is_autonomous[p]
      /\ left # <<>> /\ p = left[1] /\ left' = Tail(left)
  BY DEF do_tick_skip, AtNext, MainAt, MainKept
<1>2. /\ left' \in Seq(Processor)
      /\ \A i, j \in 1..Len(left') : left'[i] = left'[j] => i = j
      /\ \A q \in Processor : q # p => (InLeft(q)' <=> InLeft(q))
  BY <1>1, MovesOn DEF CompleteInv, Loops
<1>3. Loops'
  BY <1>1, <1>2 DEF Loops
<1>4. p \in Autonomous
  BY <1>1 DEF CompleteInv, FrameInv, Owned
<1>5. ASSUME NEW q \in Framed PROVE Turn(q)' <=> Turn(q)
  BY <1>1, <1>2, <1>4, MainData, FramedIn DEF Turn
<1>6. FrameInv'
  BY DoTickSkip DEF CompleteInv
<1>. QED BY <1>1, <1>3, <1>5, <1>6, MainComplete DEF Framing

LEMMA PostTickComplete == ASSUME CompleteInv, post_tick PROVE CompleteInv'
<1>1. /\ MainKept /\ main.pc = "do_tick" /\ main' = [main EXCEPT !.pc = "post_tick"]
      /\ left = <<>> /\ left' = Active
  BY DEF post_tick, Main, MainAt, MainKept
<1>2. main'.pc = "post_tick"
  BY <1>1, MainTypes
<1>3. Loops'
  BY <1>1, <1>2, Distinctly DEF Loops
<1>4. ASSUME NEW p \in Framed PROVE Turn(p)' <=> Turn(p)
  BY <1>1, <1>2, NoneLeft, MainData DEF Turn
<1>5. FrameInv'
  BY PostTick DEF CompleteInv
<1>. QED BY <1>1, <1>2, <1>3, <1>4, <1>5, MainComplete DEF Framing

LEMMA PostTickSkipComplete ==
  ASSUME CompleteInv, NEW p \in Processor, post_tick_skip(p) PROVE CompleteInv'
<1>1. /\ MainKept /\ main.pc = "post_tick" /\ main' = main
      /\ left # <<>> /\ left' = Tail(left)
  BY DEF post_tick_skip, AtNext, MainAt, MainKept
<1>2. FrameInv' /\ left' \in Seq(Processor)
  BY <1>1, PostTickSkip, TailIn, MainTypes DEF CompleteInv
<1>. QED BY <1>1, <1>2, LateTurns DEF Framing

LEMMA WaitFrameEndComplete ==
  ASSUME CompleteInv, NEW p \in Processor, wait_signal_frame_end(p) PROVE CompleteInv'
<1>1. /\ MainKept /\ main.pc = "post_tick" /\ main'.pc \in {"wait_end", "synchronize"}
      /\ left # <<>> /\ left' = Tail(left)
  BY DEF wait_signal_frame_end, AtNext, MainAt, MainKept
<1>2. FrameInv' /\ left' \in Seq(Processor)
  BY <1>1, WaitFrameEnd, TailIn, MainTypes DEF CompleteInv
<1>. QED BY <1>1, <1>2, LateTurns DEF Framing

LEMMA WaitEndComplete == ASSUME CompleteInv, wait_end PROVE CompleteInv'
<1>1. /\ MainKept /\ main.pc = "wait_end" /\ main' = [main EXCEPT !.pc = "reset_end"]
      /\ left' = left
  BY DEF wait_end, Main, MainAt, MainKept
<1>2. FrameInv' /\ left' \in Seq(Processor) /\ main'.pc = "reset_end"
  BY <1>1, WaitEnd, MainTypes DEF CompleteInv
<1>. QED BY <1>1, <1>2, LateTurns DEF Framing, Waiting

LEMMA SynchronizationComplete == ASSUME CompleteInv, do_synchronization PROVE CompleteInv'
<1>1. /\ MainKept /\ main.pc = "synchronize" /\ left' = left
      /\ main' = [main EXCEPT !.pc = IF m_synchronize_continue[main.at]
                                     THEN "post_tick" ELSE "stopped"]
  BY DEF do_synchronization, Main, MainAt, MainKept
<1>2. FrameInv' /\ left' \in Seq(Processor) /\ main'.pc \in {"post_tick", "stopped"}
  BY <1>1, Synchronization, MainTypes DEF CompleteInv
<1>. QED BY <1>1, <1>2, LateTurns DEF Framing, Waiting

LEMMA PostTickEndComplete == ASSUME CompleteInv, post_tick_end PROVE CompleteInv'
<1>1. /\ MainKept /\ main.pc = "post_tick" /\ main' = [main EXCEPT !.pc = "collect_garbage"]
      /\ left' = <<>>
  BY DEF post_tick_end, Main, MainAt, MainKept
<1>2. FrameInv' /\ left' \in Seq(Processor) /\ main'.pc = "collect_garbage"
  BY <1>1, PostTickEnd, MainTypes DEF CompleteInv
<1>. QED BY <1>1, <1>2, LateTurns DEF Framing

LEMMA CollectGarbageComplete == ASSUME CompleteInv, collect_garbage PROVE CompleteInv'
<1>1. /\ MainKept /\ main.pc = "collect_garbage" /\ main' = [main EXCEPT !.pc = "idle"]
      /\ left' = <<>>
  BY DEF collect_garbage, Main, MainAt, MainKept
<1>2. FrameInv' /\ left' \in Seq(Processor) /\ main'.pc = "idle"
  BY <1>1, CollectGarbage, MainTypes DEF CompleteInv
<1>. QED BY <1>1, <1>2, LateTurns DEF Framing

LEMMA ClearComplete == ASSUME CompleteInv, clear_event_processor PROVE CompleteInv'
<1>1. /\ MainKept /\ main.pc \in {"idle", "stopped"} /\ main' = [main EXCEPT !.pc = "clear"]
      /\ left' = Active
  BY DEF clear_event_processor, Main, MainAt, MainKept
<1>2. FrameInv' /\ left' \in Seq(Processor) /\ main'.pc = "clear"
  BY <1>1, Clear, MainTypes, Distinctly DEF CompleteInv
<1>. QED BY <1>1, <1>2, LateTurns DEF Framing, Waiting

LEMMA DestroyedComplete == ASSUME CompleteInv, destroyed PROVE CompleteInv'
<1>1. /\ MainKept /\ main.pc = "clear" /\ main' = [main EXCEPT !.pc = "gone"]
      /\ left' = <<>>
  BY DEF destroyed, Main, MainAt, MainKept
<1>2. FrameInv' /\ left' \in Seq(Processor) /\ main'.pc = "gone"
  BY <1>1, Destroyed, MainTypes DEF CompleteInv
<1>. QED BY <1>1, <1>2, LateTurns DEF Framing, Waiting

-------------------------------------------------------------------------------
(* The steps of the main thread that do more. *)

LEMMA PreTickComplete == ASSUME CompleteInv, pre_tick PROVE CompleteInv'
<1>1. /\ UNCHANGED <<step, ticks, flagVars, eventVars, listVars>>
      /\ main.pc = "idle" /\ main' = [main EXCEPT !.pc = "pre_tick"] /\ left' = Active
      /\ frame < MaxFrame /\ frame' = frame + 1
  BY DEF pre_tick, Main, MainAt
<1>2. FrameInv' /\ main'.pc = "pre_tick"
  BY <1>1, PreTick, MainTypes DEF CompleteInv
<1>3. Loops' /\ Still'
  BY <1>1, <1>2, Distinctly DEF CompleteInv, Loops, Still
<1>4. frame \in Nat /\ MaxFrame \in Nat
  BY FrameAssumption DEF CompleteInv, Lists, FrameAssumption
<1>5. Lists'
  BY <1>1, <1>4 DEF CompleteInv, Lists, flagVars, listVars
<1>6. ASSUME NEW p \in Framed PROVE Flushed(p)' /\ Pace(p)' /\ Limit(p)'
  <2>1. p \in Processor /\ Limit(p) /\ Pace(p) /\ ticks[p] \in Nat
    BY FramedIn DEF CompleteInv, Lists
  <2>2. /\ step[p] \notin Ticking
        /\ p \in Synchronized => Asleep(p)
        /\ p \notin Synchronized => p \notin Autonomous
    BY <1>1, FramedIn DEF CompleteInv, FrameInv, Phase, Asleep, Still, Framed, Ticking
  <2>3. Flushed(p)'
    BY <1>1, <2>2 DEF Flushed, Ticking
  <2>4. Limit(p)'
    BY <1>1, <1>4, <2>1, <2>2 DEF Limit, flagVars, eventVars, Asleep
  <2>5. ~Turn(p) /\ Goes(p)
    BY <1>1, <2>2 DEF Turn, Goes, Asleep, InTick
  <2>6. ticks[p] = frame
    BY <1>1, <2>1, <2>5 DEF Pace, Framing, Current
  <2>7. Turn(p)'
    <3>1. InLeft(p)'
      BY <1>1, <2>1, Distinctly DEF InLeft
    <3>. QED BY <1>2, <3>1 DEF Turn
  <2>8. Pace(p)'
    BY <1>1, <1>4, <2>6, <2>7 DEF Pace
  <2>. QED BY <2>3, <2>4, <2>8
<1>7. \A p \in Autonomous \ Synchronized : ticks'[p] = 0
  BY <1>1 DEF CompleteInv
<1>. QED BY <1>2, <1>3, <1>5, <1>6, <1>7 DEF CompleteInv

LEMMA SignalStartComplete ==
  ASSUME CompleteInv, NEW p \in Processor, signal_frame_start(p) PROVE CompleteInv'
<1>1. /\ UNCHANGED <<step, ticks, flagVars, m_end_tick_event, listVars, main, frame>>
      /\ main.pc = "pre_tick" /\ left # <<>> /\ p = left[1] /\ left' = Tail(left)
      /\ m_start_tick_event' = [m_start_tick_event EXCEPT ![p] = @ \/ InFrame(p)]
  BY DEF signal_frame_start, AtNext, MainAt
<1>2. /\ left' \in Seq(Processor) /\ InLeft(p) /\ ~InLeft(p)'
      /\ \A q \in Processor : q # p => (InLeft(q)' <=> InLeft(q))
  BY <1>1, MovesOn DEF CompleteInv, FrameInv, Loop
<1>3. FrameInv' /\ Loops' /\ Still'
  BY <1>1, <1>2, SignalStart DEF CompleteInv, Loops, Still
<1>4. Lists'
  BY <1>1 DEF CompleteInv, Lists, flagVars, listVars
<1>5. ASSUME NEW q \in Framed PROVE Flushed(q)' /\ Pace(q)' /\ Limit(q)'
  <2>1. q \in Processor /\ Limit(q) /\ Pace(q) /\ ticks[q] \in Nat /\ frame \in Nat /\ Flushed(q)
    BY FramedIn DEF CompleteInv, Lists
  <2>2. Flushed(q)' /\ (Current(q)' <=> Current(q)) /\ (Goes(q)' <=> Goes(q))
    BY <1>1, <2>1 DEF Flushed, Fresh, Current, Goes, listVars, flagVars
  <2>3. CASE q = p /\ q \in Synchronized
    <3>1. Asleep(q) /\ Turn(q)
      BY <1>1, <1>2, <2>3 DEF CompleteInv, FrameInv, Phase, Turn
    <3>2. InTick(q)'
      <4>1. InFrame(q)
        BY <1>1, <2>3, Distinctly DEF CompleteInv, FrameInv, Owned, Framing, InFrame
      <4>. QED
        BY <1>1, <2>1, <2>3, <3>1, <4>1
        DEF Asleep, InTick, CompleteInv, FrameInv, Typed, flagVars
    <3>3. ticks[q] = frame - 1
      BY <1>1, <2>1, <3>1 DEF Pace, Framing
    <3>4. Pace(q)'
      BY <1>1, <2>3, <3>2, <3>3 DEF Pace, Turn
    <3>5. Limit(q)'
      BY <1>1, <2>1, <3>1, <3>3 DEF Limit, Asleep, Ticking, flagVars
    <3>. QED BY <2>2, <3>4, <3>5
  <2>4. CASE q # p \/ q \notin Synchronized
    <3>1. q \in Synchronized => m_start_tick_event'[q] = m_start_tick_event[q]
      BY <1>1, <2>1, <2>4 DEF CompleteInv, FrameInv, Typed
    <3>2. q \in Synchronized => (InTick(q)' <=> InTick(q)) /\ (InLeft(q)' <=> InLeft(q))
      BY <1>1, <1>2, <2>1, <2>4, <3>1 DEF InTick, flagVars
    <3>3. Turn(q)' <=> Turn(q)
      BY <1>1, <3>2, FramedIn DEF Turn
    <3>4. Pace(q)'
      BY <1>1, <2>1, <2>2, <3>3 DEF Pace, Framing
    <3>5. Limit(q)'
      BY <1>1, <2>1, <3>1 DEF Limit, flagVars
    <3>. QED BY <2>2, <3>4, <3>5
  <2>. QED BY <2>3, <2>4
<1>6. \A q \in Autonomous \ Synchronized : ticks'[q] = 0
  BY <1>1 DEF CompleteInv
<1>. QED BY <1>3, <1>4, <1>5, <1>6 DEF CompleteInv

\* What a change of the step of one processor without a thread leaves of the others.
LEMMA OtherFramed ==
  ASSUME CompleteInv, UNCHANGED <<flagVars, eventVars, listVars, frame>>,
         NEW q \in Framed, step'[q] = step[q], ticks'[q] = ticks[q],
         main.pc \in {"do_tick", "ticking"}, Framing' => Framing /\ (Turn(q)' <=> Turn(q))
  PROVE  Flushed(q)' /\ Pace(q)' /\ Limit(q)'
<1>. USE DEF CompleteInv, flagVars, eventVars, listVars
<1>1. Flushed(q)' /\ (Current(q)' <=> Current(q)) /\ (Goes(q)' <=> Goes(q))
  BY DEF Flushed, Fresh, Current, Goes
<1>2. Pace(q)'
  BY <1>1 DEF Pace
<1>3. Limit(q)'
  BY DEF Limit
<1>. QED BY <1>1, <1>2, <1>3

LEMMA TickInlineComplete ==
  ASSUME CompleteInv, NEW p \in Processor, tick_inline(p) PROVE CompleteInv'
<1>1. /\ UNCHANGED <<ticks, flagVars, eventVars, listVars, frame>>
      /\ main.pc = "do_tick" /\ main' = [pc |-> "ticking", at |-> p]
      /\ step[p] = "rest" /\ step' = [step EXCEPT ![p] = "flush"]
      /\ left # <<>> /\ p = left[1] /\ left' = Tail(left)
  BY DEF tick_inline, AtNext, MainAt, Step
<1>2. /\ left' \in Seq(Processor) /\ InLeft(p) /\ ~InLeft(p)'
      /\ \A i, j \in 1..Len(left') : left'[i] = left'[j] => i = j
      /\ \A q \in Processor : q # p => (InLeft(q)' <=> InLeft(q))
  BY <1>1, MovesOn DEF CompleteInv, Loops
<1>3. p \notin Autonomous
  BY <1>1 DEF CompleteInv, FrameInv, Owned
<1>4. \A q \in Processor : q # p => step'[q] = step[q]
  BY <1>1 DEF CompleteInv, FrameInv, Typed
<1>5. step'[p] = "flush"
  BY <1>1 DEF CompleteInv, FrameInv, Typed
<1>6. FrameInv' /\ Loops' /\ Lists'
  BY <1>1, <1>2, TickInline DEF CompleteInv, Loops, Lists, flagVars, listVars
<1>7. Still'
  BY <1>1, <1>4, <1>5 DEF CompleteInv, Still, Ticking
<1>8. ASSUME NEW q \in Framed PROVE Flushed(q)' /\ Pace(q)' /\ Limit(q)'
  <2>. q \in Processor
    BY FramedIn
  <2>1. CASE q = p
    <3>1. Turn(q) /\ Turn(q)' /\ q \notin Synchronized
      BY <1>1, <1>2, <1>3, <2>1, FramedIn DEF Turn
    <3>2. Pace(q) /\ ticks[q] = frame - 1 /\ frame \in Nat
      BY <1>1, <3>1 DEF CompleteInv, Pace, Framing, Lists
    <3>3. Pace(q)' /\ Limit(q)'
      BY <1>1, <3>1, <3>2 DEF Pace, Limit
    <3>4. Flushed(q)'
      BY <1>5, <2>1 DEF Flushed
    <3>. QED BY <3>3, <3>4
  <2>2. CASE q # p
    <3>1. Turn(q)' <=> Turn(q)
      <4>1. q \in Synchronized => (InTick(q)' <=> InTick(q))
        BY <1>1, <1>4, <2>2 DEF InTick, flagVars, eventVars
      <4>. QED BY <1>1, <1>2, <2>2, <4>1 DEF Turn
    <3>. QED BY <1>1, <1>4, <2>2, <3>1, OtherFramed DEF Framing
  <2>. QED BY <2>1, <2>2
<1>9. \A q \in Autonomous \ Synchronized : ticks'[q] = 0
  BY <1>1 DEF CompleteInv
<1>. QED BY <1>6, <1>7, <1>8, <1>9 DEF CompleteInv

LEMMA TickInlineEndComplete ==
  ASSUME CompleteInv, NEW ok \in BOOLEAN, tick_inline_end(ok) PROVE CompleteInv'
<1>. DEFINE p == main.at
<1>1. /\ UNCHANGED <<flagVars, eventVars, listVars, frame>>
      /\ main.pc = "ticking" /\ step[p] = "ticked" /\ step' = [step EXCEPT ![p] = "rest"]
      /\ main' = [main EXCEPT !.pc = IF ok THEN "do_tick" ELSE "stopped"]
      /\ left' = left /\ ticks' = [ticks EXCEPT ![p] = @ + 1]
  BY DEF tick_inline_end, Main, MainAt, Step
<1>2. main'.at = p /\ main'.pc = (IF ok THEN "do_tick" ELSE "stopped") /\ p \in Processor
  BY <1>1, MainTypes
<1>3. p \notin Autonomous /\ p \in Framed /\ p \notin Synchronized
  BY <1>1, <1>2, Distinctly DEF CompleteInv, FrameInv, Owned, Framed
<1>4. /\ \A q \in Processor : q # p => step'[q] = step[q] /\ ticks'[q] = ticks[q]
      /\ step'[p] = "rest" /\ ticks'[p] = ticks[p] + 1
  BY <1>1, <1>2 DEF CompleteInv, FrameInv, Typed, Lists
<1>5. FrameInv'
  BY TickInlineEnd DEF CompleteInv
<1>6. Loops' /\ Lists'
  <2>1. ticks' \in [Processor -> Nat]
    BY <1>1, <1>2 DEF CompleteInv, Lists
  <2>. QED BY <1>1, <1>2, <2>1 DEF CompleteInv, Loops, InLeft, Lists, flagVars, listVars
<1>7. Still'
  BY <1>1, <1>2, <1>4 DEF CompleteInv, Still
<1>8. ASSUME NEW q \in Framed PROVE Flushed(q)' /\ Pace(q)' /\ Limit(q)'
  <2>. q \in Processor
    BY FramedIn
  <2>1. CASE q = p
    <3>1. Turn(q) /\ ~InLeft(q)
      BY <1>1, <1>3, <2>1 DEF CompleteInv, Loops, Turn
    <3>2. ticks[q] = frame - 1 /\ frame \in Nat /\ ticks[q] \in Nat
      BY <1>1, <3>1 DEF CompleteInv, Pace, Framing, Lists
    <3>3. Flushed(q)' /\ Limit(q)'
      BY <1>1, <1>3, <1>4, <2>1, <3>2 DEF Flushed, Limit, Ticking
    <3>4. ticks'[q] = frame'
      BY <1>1, <1>4, <2>1, <3>2
    <3>5. Fresh(queue[q]) /\ (q = Base => Fresh(m_job1_list) /\ m_job1_list_for_read = <<>>)
      BY <1>1, <2>1 DEF CompleteInv, Flushed
    <3>6. Current(q)'
      BY <1>1, <3>4, <3>5 DEF Current, Fresh, listVars
    <3>7. ~Turn(q)'
      BY <1>1, <1>2, <1>3, <2>1, <3>1 DEF Turn, InLeft
    <3>8. Pace(q)'
      BY <3>6, <3>7 DEF Pace
    <3>. QED BY <3>3, <3>8
  <2>2. CASE q # p
    <3>1. main'.pc = "do_tick" => (Turn(q)' <=> Turn(q))
      <4>1. InLeft(q)' <=> InLeft(q)
        BY <1>1 DEF InLeft
      <4>2. InTick(q)' <=> InTick(q)
        BY <1>1, <1>4, <2>2 DEF InTick, flagVars, eventVars
      <4>. QED BY <1>1, <1>2, <2>2, <4>1, <4>2 DEF Turn
    <3>2. Framing' => Framing /\ main'.pc = "do_tick"
      BY <1>1, <1>2 DEF Framing, Waiting
    <3>. QED BY <1>1, <1>4, <2>2, <3>1, <3>2, OtherFramed
  <2>. QED BY <2>1, <2>2
<1>9. ASSUME NEW q \in Autonomous \ Synchronized PROVE ticks'[q] = 0
  BY <1>3, <1>4, Distinctly DEF CompleteInv
<1>. QED BY <1>5, <1>6, <1>7, <1>8, <1>9 DEF CompleteInv

LEMMA InlineTickComplete ==
  ASSUME CompleteInv, NEW p \in Processor, p \notin Autonomous, Tick(p) PROVE CompleteInv'
<1>0. Typed /\ Lists
  BY DEF CompleteInv, FrameInv
<1>1. /\ Lists' /\ UNCHANGED <<ticks, flagVars, eventVars, mainVars>>
      /\ \A q \in Processor : q # p => queue'[q] = queue[q] /\ step'[q] = step[q]
      /\ p # Base => m_job1_list' = m_job1_list
      /\ p # Base => (m_job1_list_for_read = <<>> => m_job1_list_for_read' = <<>>)
      /\ step[p] \in Ticking /\ step'[p] \in Ticking
  BY <1>0, TickData
<1>2. FrameInv' /\ Loops'
  BY <1>1, InlineTick DEF CompleteInv, Loops, InLeft, mainVars
<1>3. main.pc = "ticking" /\ main.at = p
  BY <1>1 DEF CompleteInv, Still, Ticking
<1>4. Still'
  BY <1>1, <1>3 DEF CompleteInv, Still, mainVars
<1>5. ASSUME NEW q \in Framed PROVE Flushed(q)' /\ Pace(q)' /\ Limit(q)'
  <2>. q \in Processor
    BY FramedIn
  <2>0. Flushed(q) /\ Pace(q) /\ Limit(q)
    BY DEF CompleteInv
  <2>1. CASE q # p
    BY <1>1, <2>0, <2>1, Untouched DEF flagVars, eventVars
  <2>2. CASE q = p
    <3>1. Flushed(q)'
      BY <1>0, <2>0, <2>2, TickFlushes
    <3>2. Turn(q) /\ Turn(q)'
      BY <1>1, <1>3, <2>2 DEF Turn, mainVars
    <3>3. Pace(q)'
      BY <1>1, <2>0, <3>2 DEF Pace, Framing, mainVars
    <3>4. Limit(q)'
      BY <1>1, <2>0, <2>2, Distinctly DEF Limit, mainVars
    <3>. QED BY <3>1, <3>3, <3>4
  <2>. QED BY <2>1, <2>2
<1>6. \A q \in Autonomous \ Synchronized : ticks'[q] = 0
  BY <1>1 DEF CompleteInv
<1>. QED BY <1>1, <1>2, <1>4, <1>5, <1>6 DEF CompleteInv

LEMMA ResetEndComplete == ASSUME CompleteInv, reset_end PROVE CompleteInv'
<1>1. /\ UNCHANGED <<step, ticks, flagVars, m_start_tick_event, listVars, frame>>
      /\ main.pc = "reset_end" /\ main' = [main EXCEPT !.pc = "synchronize"] /\ left' = left
      /\ m_end_tick_event' = [m_end_tick_event EXCEPT ![main.at] = FALSE]
  BY DEF reset_end, Main, MainAt
<1>2. FrameInv' /\ main'.pc = "synchronize"
  BY <1>1, ResetEnd, MainTypes DEF CompleteInv
<1>3. Loops' /\ Still' /\ Lists'
  BY <1>1, <1>2 DEF CompleteInv, Loops, Still, Lists, flagVars, listVars
<1>4. ASSUME NEW q \in Framed PROVE Flushed(q)' /\ Pace(q)' /\ Limit(q)'
  <2>. q \in Processor /\ Flushed(q) /\ Pace(q) /\ Limit(q)
    BY FramedIn DEF CompleteInv
  <2>1. Flushed(q)' /\ (Current(q)' <=> Current(q)) /\ (Goes(q)' <=> Goes(q)) /\ Limit(q)'
    BY <1>1 DEF Flushed, Fresh, Current, Goes, Limit, listVars, flagVars
  <2>2. q \in Synchronized => (InTick(q)' <=> InTick(q))
    <3>1. CASE q # main.at
      BY <1>1, <3>1 DEF InTick, CompleteInv, FrameInv, Typed, flagVars
    <3>2. CASE q = main.at /\ q \in Synchronized
      <4>1. Done(q)
        BY <1>1, <3>2 DEF CompleteInv, FrameInv, Phase, Met, Waiting
      <4>. QED BY <1>1, <4>1 DEF Done, InTick, Ticking, flagVars
    <3>. QED BY <3>1, <3>2
  <2>3. Turn(q)' <=> Turn(q)
    BY <1>1, <1>2, <2>2 DEF Turn
  <2>4. Pace(q)'
    BY <1>1, <2>1, <2>3 DEF Pace, Framing, Waiting
  <2>. QED BY <2>1, <2>4
<1>5. \A q \in Autonomous \ Synchronized : ticks'[q] = 0
  BY <1>1 DEF CompleteInv
<1>. QED BY <1>2, <1>3, <1>4, <1>5 DEF CompleteInv

LEMMA EndingComplete ==
  ASSUME CompleteInv, FrameInv', main.pc \in {"clear", "join"}, main'.pc \in {"clear", "join"},
         left' \in Seq(Processor), UNCHANGED <<step, ticks, m_is_running, listVars, frame>>,
         \A p \in Synchronized : /\ m_start_tick_event'[p] => m_start_tick_event[p] \/ m_quit'[p]
                                 /\ m_quit[p] => m_quit'[p]
  PROVE  CompleteInv'
<1>1. Loops' /\ Still' /\ Lists'
  BY DEF CompleteInv, Loops, Still, Lists, listVars
<1>2. ASSUME NEW q \in Framed PROVE Flushed(q)' /\ Pace(q)' /\ Limit(q)'
  <2>1. Flushed(q)' /\ Pace(q)'
    BY DEF CompleteInv, Flushed, Fresh, Pace, Framing, Waiting, listVars
  <2>2. Limit(q)'
    BY DEF CompleteInv, Limit
  <2>. QED BY <2>1, <2>2
<1>. QED BY <1>1, <1>2 DEF CompleteInv

LEMMA SetAutonomousFalseComplete ==
  ASSUME CompleteInv, NEW p \in Processor, set_autonomous_false(p) PROVE CompleteInv'
<1>1. /\ main.pc = "clear" /\ left # <<>> /\ left' = Tail(left)
      /\ main' = IF m_is_running[p] THEN [pc |-> "join", at |-> p] ELSE main
      /\ m_quit' = IF m_is_running[p] THEN [m_quit EXCEPT ![p] = TRUE] ELSE m_quit
      /\ m_start_tick_event' = IF m_is_running[p]
                               THEN [m_start_tick_event EXCEPT ![p] = TRUE]
                               ELSE m_start_tick_event
      /\ UNCHANGED <<step, ticks, m_is_running, listVars, frame>>
  BY DEF set_autonomous_false, AtNext, MainAt
<1>2. FrameInv' /\ main'.pc \in {"clear", "join"} /\ left' \in Seq(Processor)
  BY <1>1, SetAutonomousFalse, TailIn, MainTypes DEF CompleteInv
<1>3. ASSUME NEW q \in Synchronized
      PROVE  /\ m_start_tick_event'[q] => m_start_tick_event[q] \/ m_quit'[q]
             /\ m_quit[q] => m_quit'[q]
  BY <1>1, Distinctly DEF CompleteInv, FrameInv, Typed
<1>. QED BY <1>1, <1>2, <1>3, EndingComplete

LEMMA JoinComplete == ASSUME CompleteInv, join PROVE CompleteInv'
<1>1. /\ main.pc = "join" /\ main' = [main EXCEPT !.pc = "clear"] /\ left' = left
      /\ UNCHANGED <<step, ticks, m_is_running, m_quit, eventVars, listVars, frame>>
  BY DEF join, Main, MainAt
<1>2. FrameInv' /\ main'.pc = "clear" /\ left' \in Seq(Processor)
  BY <1>1, Join, MainTypes DEF CompleteInv
<1>. QED BY <1>1, <1>2, EndingComplete DEF eventVars

\* What is posted during a frame is of that frame.
LEMMA PostComplete ==
  ASSUME CompleteInv, NEW p \in Processor, post(p) \/ post_job1 PROVE CompleteInv'
<1>1. UNCHANGED <<step, ticks, flagVars, eventVars, mainVars, m_job1_list_for_read>>
  BY DEF post, post_job1, CountPost
<1>2. \/ queue' = [queue EXCEPT ![p] = Append(@, frame)] /\ m_job1_list' = m_job1_list
      \/ queue' = queue /\ m_job1_list' = Append(m_job1_list, frame)
  BY DEF post, post_job1
<1>3. ASSUME NEW list \in Seq(Nat), Fresh(list) PROVE Fresh(Append(list, frame))'
  BY <1>1, <1>3 DEF CompleteInv, Lists, Fresh, mainVars
<1>4. ASSUME NEW q \in Processor
      PROVE  /\ Fresh(queue[q]) => Fresh(queue[q])'
             /\ Fresh(m_job1_list) => Fresh(m_job1_list)'
  <2>1. queue'[q] = queue[q] \/ queue'[q] = Append(queue[q], frame)
    BY <1>2 DEF CompleteInv, Lists
  <2>2. m_job1_list' = m_job1_list \/ m_job1_list' = Append(m_job1_list, frame)
    BY <1>2
  <2>3. queue[q] \in Seq(Nat) /\ m_job1_list \in Seq(Nat) /\ frame' = frame
    BY <1>1 DEF CompleteInv, Lists, mainVars
  <2>. QED BY <1>3, <2>1, <2>2, <2>3 DEF Fresh
<1>5. Lists'
  <2>1. Append(m_job1_list, frame) \in Seq(Nat) /\ Append(queue[p], frame) \in Seq(Nat)
    BY DEF CompleteInv, Lists
  <2>2. queue' \in [Processor -> Seq(Nat)] /\ m_job1_list' \in Seq(Nat)
    BY <1>2, <2>1 DEF CompleteInv, Lists
  <2>. QED BY <1>1, <2>2 DEF CompleteInv, Lists, flagVars, mainVars
<1>6. FrameInv'
  BY <1>1, Elsewhere DEF CompleteInv
<1>7. Loops' /\ Still'
  BY <1>1 DEF CompleteInv, Loops, Still, InLeft, mainVars
<1>8. ASSUME NEW q \in Framed PROVE Flushed(q)' /\ Pace(q)' /\ Limit(q)'
  <2>. q \in Processor /\ Flushed(q) /\ Pace(q) /\ Limit(q)
    BY FramedIn DEF CompleteInv
  <2>. USE DEF flagVars, eventVars, mainVars
  <2>1. Flushed(q)'
    BY <1>1, <1>4 DEF Flushed
  <2>2. Current(q) => Current(q)'
    BY <1>1, <1>4 DEF Current
  <2>3. (Turn(q)' <=> Turn(q)) /\ (Goes(q)' <=> Goes(q)) /\ (Framing' <=> Framing)
    BY <1>1 DEF Turn, Goes, Framing, InTick, InLeft
  <2>4. Pace(q)'
    BY <1>1, <2>2, <2>3 DEF Pace
  <2>5. Limit(q)'
    BY <1>1 DEF Limit
  <2>. QED BY <2>1, <2>4, <2>5
<1>9. \A q \in Autonomous \ Synchronized : ticks'[q] = 0
  BY <1>1 DEF CompleteInv
<1>. QED BY <1>5, <1>6, <1>7, <1>8, <1>9 DEF CompleteInv

LEMMA CompleteInit == Init => CompleteInv
<1>. SUFFICES ASSUME Init PROVE CompleteInv
  OBVIOUS
<1>1. FrameInv
  BY FrameInit
<1>2. Lists
  BY FrameAssumption DEF Init, Lists, FrameAssumption
<1>3. Loops /\ Still
  BY DEF Init, Loops, Still
<1>4. ASSUME NEW p \in Framed PROVE Flushed(p) /\ Pace(p) /\ Limit(p)
  <2>1. p \in Processor /\ queue[p] = <<>> /\ ticks[p] = 0
    BY FramedIn DEF Init
  <2>2. step[p] \in {"new", "rest"} /\ ~m_start_tick_event[p]
    BY <2>1 DEF Init
  <2>3. Len(queue[p]) = 0 /\ Len(m_job1_list) = 0
    BY <2>1 DEF Init
  <2>4. Current(p)
    BY <2>1, <2>3 DEF Init, Current, Fresh
  <2>5. ~Turn(p)
    BY <2>1, <2>2 DEF Init, Turn, InTick, Ticking
  <2>. QED BY <2>1, <2>2, <2>4, <2>5 DEF Flushed, Pace, Limit, Init, Ticking
<1>5. \A p \in Autonomous \ Synchronized : ticks[p] = 0
  BY Distinctly DEF Init
<1>. QED BY <1>1, <1>2, <1>3, <1>4, <1>5 DEF CompleteInv

LEMMA CompleteStep == CompleteInv /\ [Next]_vars => CompleteInv'
<1>. SUFFICES ASSUME CompleteInv, [Next]_vars PROVE CompleteInv'
  OBVIOUS
<1>1. ASSUME NEW p \in Processor, Thread(p) PROVE CompleteInv'
  <2>1. CASE p \in Autonomous BY <1>1, <2>1, ThreadComplete
  <2>2. CASE p \notin Autonomous
    <3>1. ~Thread(p)
      BY <2>2 DEF CompleteInv, Still, Thread, entry, wait_start, reset_start, check_quit, tick_end,
         tick_fail, fail_synchronized, fail_continue, fail_end, Step, Ticking
    <3>. QED BY <1>1, <3>1
  <2>. QED BY <2>1, <2>2
<1>2. ASSUME NEW p \in Processor, post(p) PROVE CompleteInv'
  BY <1>2, PostComplete
<1>3. CASE post_job1
  BY <1>3, PostComplete, Distinctly
<1>4. CASE pre_tick BY <1>4, PreTickComplete
<1>5. CASE clear_event_processor BY <1>5, ClearComplete
<1>6. CASE MainNext
  <2>1. CASE do_tick BY <2>1, DoTickComplete
  <2>2. CASE post_tick BY <2>2, PostTickComplete
  <2>3. CASE wait_end BY <2>3, WaitEndComplete
  <2>4. CASE reset_end BY <2>4, ResetEndComplete
  <2>5. CASE do_synchronization BY <2>5, SynchronizationComplete
  <2>6. CASE post_tick_end BY <2>6, PostTickEndComplete
  <2>7. CASE collect_garbage BY <2>7, CollectGarbageComplete
  <2>8. CASE join BY <2>8, JoinComplete
  <2>9. CASE destroyed BY <2>9, DestroyedComplete
  <2>10. ASSUME NEW ok \in BOOLEAN, tick_inline_end(ok) PROVE CompleteInv'
    BY <2>10, TickInlineEndComplete
  <2>11. ASSUME NEW p \in Processor, signal_frame_start(p) PROVE CompleteInv'
    BY <2>11, SignalStartComplete
  <2>12. ASSUME NEW p \in Processor, tick_inline(p) PROVE CompleteInv'
    BY <2>12, TickInlineComplete
  <2>13. ASSUME NEW p \in Processor, p \notin Autonomous, Tick(p) PROVE CompleteInv'
    BY <2>13, InlineTickComplete
  <2>14. ASSUME NEW p \in Processor, post_tick_skip(p) PROVE CompleteInv'
    BY <2>14, PostTickSkipComplete
  <2>15. ASSUME NEW p \in Processor, wait_signal_frame_end(p) PROVE CompleteInv'
    BY <2>15, WaitFrameEndComplete
  <2>16. ASSUME NEW p \in Processor, set_autonomous_false(p) PROVE CompleteInv'
    BY <2>16, SetAutonomousFalseComplete
  <2>17. ASSUME NEW p \in Processor, do_tick_skip(p) PROVE CompleteInv'
    BY <2>17, DoTickSkipComplete
  <2>. QED
    BY <1>6, <2>1, <2>2, <2>3, <2>4, <2>5, <2>6, <2>7, <2>8, <2>9, <2>10, <2>11, <2>12, <2>13,
       <2>14, <2>15, <2>16, <2>17 DEF MainNext
<1>7. CASE UNCHANGED vars
  <2>1. FrameInv'
    BY <1>7, Elsewhere DEF CompleteInv, vars
  <2>2. Lists' /\ Loops' /\ Still'
    BY <1>7 DEF CompleteInv, Lists, Loops, Still, InLeft, vars, flagVars, eventVars, listVars,
       mainVars
  <2>3. ASSUME NEW q \in Framed PROVE Flushed(q)' /\ Pace(q)' /\ Limit(q)'
    BY <1>7, Untouched DEF CompleteInv, vars, flagVars, eventVars, listVars, mainVars
  <2>. QED BY <1>7, <2>1, <2>2, <2>3 DEF CompleteInv, vars
<1>. QED BY <1>1, <1>2, <1>3, <1>4, <1>5, <1>6, <1>7 DEF Next

LEMMA CompleteHolds == Spec => []CompleteInv
BY CompleteInit, CompleteStep, PTL DEF Spec

LEMMA CompleteInvComplete == CompleteInv => FrameComplete
<1>. SUFFICES ASSUME CompleteInv, main.pc = "collect_garbage",
                     NEW p \in Synchronized \cup (Processor \ Autonomous)
              PROVE  Current(p)
  <2>1. Base \in Synchronized => Base \in Processor
    BY Distinctly
  <2>. QED BY <2>1 DEF FrameComplete, Current, Fresh
<1>1. p \in Framed
  BY DEF Framed
<1>2. p \in Synchronized => Asleep(p)
  BY DEF CompleteInv, FrameInv, Phase
<1>3. Goes(p) /\ ~Turn(p)
  BY <1>2 DEF Goes, Turn, Asleep, InTick, Ticking
<1>. QED BY <1>1, <1>3 DEF CompleteInv, Pace, Framing

\* Every processor of a complete frame has ticked once in each frame, and has processed
\* what was posted to it before the frame, for any number of processors and frames.
THEOREM FramesAreComplete == Spec => []FrameComplete
BY CompleteHolds, CompleteInvComplete, PTL

-------------------------------------------------------------------------------
(* How many events and jobs wait.  The sum over the processors takes them in the order of *)
(* CHOOSE; what it is follows from the least set of processors for which it is not.       *)

Choice(s) == CHOOSE x \in s : TRUE

IsSum(h, lists, T) ==
  h = [s \in SUBSET T |-> IF s = {} THEN 0 ELSE Len(lists[Choice(s)]) + h[s \ {Choice(s)}]]

SumOf(lists, T) == (CHOOSE h : IsSum(h, lists, T))[T]

LEMMA SumOfQueues == 
  PostedOnce <=> posted = executed + SumOf(queue, Processor)
                        + Len(m_job1_list) + Len(m_job1_list_for_read)
BY DEF PostedOnce, MapThenSumSet, MapThenFoldSet, SumOf, IsSum, Choice

LEMMA ChoiceIn == ASSUME NEW s, s # {} PROVE Choice(s) \in s
BY DEF Choice

\* A set of finite sets has one with no smaller set in it.
LEMMA LeastSet ==
  ASSUME NEW T, IsFiniteSet(T), NEW B \in SUBSET (SUBSET T), B # {}
  PROVE  \E s \in B : \A t \in SUBSET s : t # s => t \notin B
<1>. DEFINE R == StrictSubsetOrdering(T)
            F == FiniteSubsetsOf(T)
<1>1. IsWellFoundedOn(R, F)
  BY FS_StrictSubsetOrderingWellFounded
<1>2. ASSUME NEW s \in SUBSET T, NEW t \in SUBSET s, t # s PROVE <<t, s>> \in R
  BY <1>2 DEF StrictSubsetOrdering
<1>3. B \in SUBSET F
  BY FS_Subset DEF FiniteSubsetsOf
<1>. HIDE DEF R, F
<1>4. PICK s \in B : \A t \in B : ~(<<t, s>> \in R)
  BY <1>1, <1>3, WFMin
<1>. QED BY <1>2, <1>4

LEMMA LeastNatural ==
  ASSUME NEW T \in SUBSET Nat, T # {}
  PROVE  \E x \in T : \A y \in T : x <= y
<1>. DEFINE R == OpToRel(<, Nat)
<1>1. IsWellFoundedOn(R, Nat)
  BY NatLessThanWellFounded
<1>2. \A x, y \in Nat : y < x => <<y, x>> \in R
  BY DEF OpToRel
<1>. HIDE DEF R
<1>3. PICK x \in T : \A y \in T : ~(<<y, x>> \in R)
  BY <1>1, WFMin
<1>4. ASSUME NEW y \in T PROVE x <= y
  <2>1. ~(y < x)
    BY <1>2, <1>3, Zenon
  <2>. QED BY <2>1
<1>. QED BY <1>4

LEMMA SumExists ==
  ASSUME NEW T, IsFiniteSet(T), NEW lists
  PROVE  \E h : IsSum(h, lists, T)
<1>. DEFINE D(n) == {s \in SUBSET T : Cardinality(s) <= n}
            Unfold(h, s) == IF s = {} THEN 0 ELSE Len(lists[Choice(s)]) + h[s \ {Choice(s)}]
            Good(n) == \E h : h = [s \in D(n) |-> Unfold(h, s)]
            bad == {n \in Nat : ~Good(n)}
<1>1. \A s \in SUBSET T :
        IsFiniteSet(s) /\ Cardinality(s) \in Nat /\ Cardinality(s) <= Cardinality(T)
  BY FS_Subset, FS_CardinalityType
<1>2. Good(0)
  <2>. DEFINE h == [s \in D(0) |-> 0]
  <2>1. \A s \in D(0) : s = {}
    BY <1>1, FS_EmptySet
  <2>2. h = [s \in D(0) |-> Unfold(h, s)]
    BY <2>1
  <2>. QED BY <2>2
<1>3. ASSUME NEW n \in Nat, Good(n) PROVE Good(n + 1)
  <2>1. PICK h : h = [s \in D(n) |-> Unfold(h, s)]
    BY <1>3
  <2>. DEFINE g == [s \in D(n + 1) |-> Unfold(h, s)]
  <2>2. ASSUME NEW s \in D(n + 1), s # {} PROVE s \ {Choice(s)} \in D(n)
    <3>1. Choice(s) \in s
      BY <2>2, ChoiceIn
    <3>2. Cardinality(s \ {Choice(s)}) = Cardinality(s) - 1
      BY <1>1, <3>1, FS_RemoveElement
    <3>. QED BY <1>1, <3>2
  <2>3. \A s \in D(n) : s \in D(n + 1)
    BY <1>1
  <2>4. \A s \in D(n) : g[s] = h[s]
    BY <2>1, <2>3
  <2>5. ASSUME NEW s \in D(n + 1) PROVE g[s] = Unfold(g, s)
    BY <2>2, <2>4
  <2>6. g = [s \in D(n + 1) |-> Unfold(g, s)]
    BY <2>5
  <2>. QED BY <2>6
<1>. HIDE DEF Good
<1>4. bad = {}
  <2>1. SUFFICES ASSUME bad # {} PROVE FALSE
    OBVIOUS
  <2>2. PICK n \in bad : \A m \in bad : n <= m
    BY <2>1, LeastNatural
  <2>3. n # 0
    BY <1>2
  <2>4. n - 1 \in Nat /\ n - 1 \notin bad
    BY <2>2, <2>3
  <2>5. Good((n - 1) + 1)
    BY <1>3, <2>4
  <2>. QED BY <2>5
<1>5. Cardinality(T) \in Nat /\ D(Cardinality(T)) = SUBSET T
  BY <1>1, FS_CardinalityType
<1>6. Good(Cardinality(T))
  BY <1>4, <1>5
<1>. QED BY <1>5, <1>6 DEF IsSum, Good

LEMMA SumChanges ==
  ASSUME NEW T, IsFiniteSet(T), NEW a \in [T -> Seq(Nat)], NEW b \in [T -> Seq(Nat)],
         NEW p \in T, \A q \in T : q # p => b[q] = a[q]
  PROVE  /\ SumOf(a, T) \in Nat
         /\ SumOf(b, T) = SumOf(a, T) + Len(b[p]) - Len(a[p])
<1>. DEFINE h == CHOOSE f : IsSum(f, a, T)
            g == CHOOSE f : IsSum(f, b, T)
            d == Len(b[p]) - Len(a[p])
            Fits(s) == h[s] \in Nat /\ g[s] = h[s] + (IF p \in s THEN d ELSE 0)
            bad == {s \in SUBSET T : ~Fits(s)}
<1>1. IsSum(h, a, T) /\ IsSum(g, b, T)
  BY SumExists
<1>. HIDE DEF h, g
<1>2. /\ h[{}] = 0 /\ g[{}] = 0
      /\ \A s \in SUBSET T : s # {} =>
           /\ h[s] = Len(a[Choice(s)]) + h[s \ {Choice(s)}]
           /\ g[s] = Len(b[Choice(s)]) + g[s \ {Choice(s)}]
  BY <1>1 DEF IsSum
<1>3. d \in Int
  OBVIOUS
<1>4. ASSUME NEW s \in SUBSET T, s # {}, Fits(s \ {Choice(s)}) PROVE Fits(s)
  <2>. DEFINE c == Choice(s)
              r == s \ {c}
  <2>1. c \in s /\ c \in T
    BY <1>4, ChoiceIn
  <2>2. h[s] = Len(a[c]) + h[r] /\ g[s] = Len(b[c]) + g[r]
    BY <1>2, <1>4
  <2>3. h[r] \in Nat /\ g[r] = h[r] + (IF p \in r THEN d ELSE 0)
    BY <1>4
  <2>4. Len(a[c]) \in Nat /\ Len(b[c]) \in Nat
    BY <2>1
  <2>5. CASE c = p
    <3>1. p \in s /\ p \notin r
      BY <2>1, <2>5
    <3>. HIDE DEF c, r
    <3>2. Len(b[c]) = Len(a[c]) + d
      BY <2>4, <2>5
    <3>. QED BY <1>3, <2>2, <2>3, <2>4, <3>1, <3>2
  <2>6. CASE c # p
    <3>1. (p \in r <=> p \in s) /\ b[c] = a[c]
      BY <2>1, <2>6
    <3>. HIDE DEF c, r, d
    <3>. QED BY <1>3, <2>2, <2>3, <2>4, <3>1
  <2>. QED BY <2>5, <2>6
<1>5. Fits({})
  BY <1>2
<1>. HIDE DEF Fits
<1>6. bad = {}
  <2>1. SUFFICES ASSUME bad # {} PROVE FALSE
    OBVIOUS
  <2>0. bad \in SUBSET (SUBSET T)
    OBVIOUS
  <2>2. PICK s \in bad : \A t \in SUBSET s : t # s => t \notin bad
    <3>. HIDE DEF bad
    <3>. QED BY <2>0, <2>1, LeastSet
  <2>3. s # {} /\ Choice(s) \in s
    BY <1>5, ChoiceIn
  <2>4. Fits(s \ {Choice(s)})
    BY <2>2, <2>3
  <2>. QED BY <1>4, <2>3, <2>4
<1>7. Fits(T)
  BY <1>6
<1>. QED BY <1>7, <1>3 DEF Fits, SumOf, h, g

PostedInv ==
  /\ posted \in 0..MaxPost /\ executed \in Nat
  /\ posted = executed + SumOf(queue, Processor) + Len(m_job1_list) + Len(m_job1_list_for_read)

LEMMA ProcessorsAreFinite == IsFiniteSet(Processor)
<1>1. Active \in [1..Len(Active) -> Processor] /\ Len(Active) \in Nat
  BY Distinctly
<1>2. Active \in Surjection(1..Len(Active), Processor)
  BY <1>1, Distinctly DEF Surjection
<1>3. IsFiniteSet(1..Len(Active))
  BY <1>1, FS_Interval
<1>. QED BY <1>2, <1>3, FS_Surjection

LEMMA SumIsNatural == Lists => SumOf(queue, Processor) \in Nat
<1>. SUFFICES ASSUME Lists PROVE SumOf(queue, Processor) \in Nat
  OBVIOUS
<1>. QED BY SumChanges, ProcessorsAreFinite, Distinctly DEF Lists

\* The list of one processor changes.
LEMMA SumUpdates ==
  ASSUME Lists, Lists', NEW p \in Processor, NEW list,
         queue' = [queue EXCEPT ![p] = list]
  PROVE  SumOf(queue', Processor) = SumOf(queue, Processor) + Len(list) - Len(queue[p])
<1>1. queue \in [Processor -> Seq(Nat)] /\ queue' \in [Processor -> Seq(Nat)]
  BY DEF Lists
<1>2. queue'[p] = list /\ \A q \in Processor : q # p => queue'[q] = queue[q]
  BY <1>1
<1>. DEFINE after == queue'
<1>3. after \in [Processor -> Seq(Nat)] /\ \A q \in Processor : q # p => after[q] = queue[q]
  BY <1>1, <1>2
<1>4. after[p] = list
  BY <1>2
<1>. HIDE DEF after
<1>5. SumOf(after, Processor) = SumOf(queue, Processor) + Len(after[p]) - Len(queue[p])
  <2>. DEFINE before == queue
  <2>1. before \in [Processor -> Seq(Nat)] /\ \A q \in Processor : q # p => after[q] = before[q]
    BY <1>1, <1>3
  <2>. HIDE DEF before
  <2>2. after \in [Processor -> Seq(Nat)] /\ IsFiniteSet(Processor)
    BY <1>3, ProcessorsAreFinite
  <2>3. \A T : IsFiniteSet(T) => \A a, b \in [T -> Seq(Nat)] : \A i \in T :
           (\A j \in T : j # i => b[j] = a[j]) =>
             SumOf(b, T) = SumOf(a, T) + Len(b[i]) - Len(a[i])
    BY SumChanges
  <2>4. SumOf(after, Processor) = SumOf(before, Processor) + Len(after[p]) - Len(before[p])
    BY <2>1, <2>2, <2>3, Zenon
  <2>. QED BY <2>4 DEF before
<1>. QED BY <1>4, <1>5 DEF after

LEMMA TickKeepsPosted ==
  ASSUME PostedInv, Lists, Lists', NEW p \in Processor, Tick(p)
  PROVE  PostedInv'
<1>. DEFINE sum == SumOf(queue, Processor)
<1>0. /\ sum \in Nat /\ posted \in Nat /\ executed \in Nat /\ Len(queue[p]) \in Nat
      /\ Len(m_job1_list) \in Nat /\ Len(m_job1_list_for_read) \in Nat
  <2>1. posted \in Nat /\ executed \in Nat
    BY FrameAssumption DEF PostedInv, FrameAssumption
  <2>2. Len(queue[p]) \in Nat /\ Len(m_job1_list) \in Nat /\ Len(m_job1_list_for_read) \in Nat
    BY DEF Lists
  <2>. QED BY <2>1, <2>2, SumIsNatural
<1>1. CASE flush(p)
  <2>1. /\ queue' = [queue EXCEPT ![p] = <<>>] /\ executed' = executed + Len(queue[p])
        /\ UNCHANGED <<m_job1_list, m_job1_list_for_read, posted>>
    BY <1>1 DEF flush
  <2>2. SumOf(queue', Processor) = sum + Len(<<>>) - Len(queue[p])
    BY <2>1, SumUpdates
  <2>3. Len(<<>>) = 0
    OBVIOUS
  <2>. HIDE DEF sum
  <2>4. SumOf(queue', Processor) = sum - Len(queue[p])
    BY <1>0, <2>2, <2>3
  <2>. QED BY <1>0, <2>1, <2>4 DEF PostedInv, sum
<1>2. CASE flush_jobs1_move
  <2>1. /\ m_job1_list_for_read' = m_job1_list \o m_job1_list_for_read /\ m_job1_list' = <<>>
        /\ UNCHANGED <<queue, posted, executed>>
    BY <1>2 DEF flush_jobs1_move
  <2>2. /\ Len(m_job1_list_for_read') = Len(m_job1_list) + Len(m_job1_list_for_read)
        /\ Len(m_job1_list') = 0
    BY <2>1 DEF Lists
  <2>. HIDE DEF sum
  <2>. QED BY <1>0, <2>1, <2>2 DEF PostedInv, sum
<1>3. CASE pop_job1(p)
  <2>1. /\ m_job1_list_for_read # <<>> /\ m_job1_list_for_read' = Tail(m_job1_list_for_read)
        /\ executed' = executed + 1 /\ UNCHANGED <<queue, m_job1_list, posted>>
    BY <1>3 DEF pop_job1
  <2>2. Len(m_job1_list_for_read') = Len(m_job1_list_for_read) - 1
    BY <2>1 DEF Lists
  <2>. QED BY <1>0, <2>1, <2>2 DEF PostedInv
<1>4. CASE flush_jobs1_end(p)
  BY <1>4 DEF flush_jobs1_end, listVars, PostedInv
<1>. QED BY <1>1, <1>2, <1>3, <1>4 DEF Tick

LEMMA PostKeepsPosted ==
  ASSUME PostedInv, Lists, Lists', NEW p \in Processor, post(p) \/ post_job1
  PROVE  PostedInv'
<1>. DEFINE sum == SumOf(queue, Processor)
<1>0. /\ sum \in Nat /\ posted \in Nat /\ executed \in Nat /\ Len(queue[p]) \in Nat
      /\ Len(m_job1_list) \in Nat /\ Len(m_job1_list_for_read) \in Nat
      /\ queue[p] \in Seq(Nat) /\ m_job1_list \in Seq(Nat) /\ frame \in Nat
  <2>1. posted \in Nat /\ executed \in Nat
    BY FrameAssumption DEF PostedInv, FrameAssumption
  <2>2. queue[p] \in Seq(Nat) /\ m_job1_list \in Seq(Nat) /\ m_job1_list_for_read \in Seq(Nat)
        /\ frame \in Nat
    BY DEF Lists
  <2>. QED BY <2>1, <2>2, SumIsNatural
<1>1. /\ posted < MaxPost /\ posted' = posted + 1
      /\ UNCHANGED <<m_job1_list_for_read, executed>>
  BY DEF post, post_job1, CountPost
<1>2. posted' \in 0..MaxPost
  <2>1. MaxPost \in Nat
    BY FrameAssumption DEF FrameAssumption
  <2>. QED BY <1>0, <1>1, <2>1
<1>3. CASE post(p)
  <2>1. queue' = [queue EXCEPT ![p] = Append(queue[p], frame)] /\ m_job1_list' = m_job1_list
    BY <1>3 DEF post
  <2>2. SumOf(queue', Processor) = sum + Len(Append(queue[p], frame)) - Len(queue[p])
    BY <2>1, SumUpdates
  <2>3. Len(Append(queue[p], frame)) = Len(queue[p]) + 1
    BY <1>0
  <2>. HIDE DEF sum
  <2>4. SumOf(queue', Processor) = sum + 1
    BY <1>0, <2>2, <2>3
  <2>. QED BY <1>0, <1>1, <1>2, <2>1, <2>4 DEF PostedInv, sum
<1>4. CASE post_job1
  <2>1. m_job1_list' = Append(m_job1_list, frame) /\ queue' = queue
    BY <1>4 DEF post_job1
  <2>2. Len(m_job1_list') = Len(m_job1_list) + 1
    BY <1>0, <2>1
  <2>. HIDE DEF sum
  <2>. QED BY <1>0, <1>1, <1>2, <2>1, <2>2 DEF PostedInv, sum
<1>. QED BY <1>3, <1>4

LEMMA PostedInit == Init => PostedInv
<1>. SUFFICES ASSUME Init PROVE PostedInv
  OBVIOUS
<1>. DEFINE zero == [p \in Processor |-> <<>>]
            h == CHOOSE f : IsSum(f, zero, Processor)
            bad == {s \in SUBSET Processor : h[s] # 0}
<1>1. IsSum(h, zero, Processor)
  BY SumExists, ProcessorsAreFinite
<1>2. Len(<<>>) = 0
  OBVIOUS
<1>. HIDE DEF h
<1>3. /\ h[{}] = 0
      /\ \A s \in SUBSET Processor : s # {} => h[s] = 0 + h[s \ {Choice(s)}]
  BY <1>1, <1>2, ChoiceIn DEF IsSum
<1>4. bad = {}
  <2>1. SUFFICES ASSUME bad # {} PROVE FALSE
    OBVIOUS
  <2>0. bad \in SUBSET (SUBSET Processor)
    OBVIOUS
  <2>2. PICK s \in bad : \A t \in SUBSET s : t # s => t \notin bad
    <3>. HIDE DEF bad
    <3>. QED BY <2>0, <2>1, LeastSet, ProcessorsAreFinite
  <2>3. s # {} /\ Choice(s) \in s
    BY <1>3, ChoiceIn
  <2>4. h[s \ {Choice(s)}] = 0
    BY <2>2, <2>3
  <2>5. h[s] = 0 + 0 /\ h[s] # 0
    BY <1>3, <2>3, <2>4
  <2>. QED BY <2>5
<1>5. SumOf(zero, Processor) = 0
  BY <1>4 DEF SumOf, h
<1>6. /\ queue = zero /\ m_job1_list = <<>> /\ m_job1_list_for_read = <<>>
      /\ posted = 0 /\ executed = 0
  BY DEF Init
<1>. HIDE DEF zero
<1>. QED BY <1>2, <1>5, <1>6, FrameAssumption DEF PostedInv, FrameAssumption

LEMMA PostedStep == CompleteInv /\ CompleteInv' /\ PostedInv /\ [Next]_vars => PostedInv'
<1>. SUFFICES ASSUME CompleteInv, CompleteInv', PostedInv, [Next]_vars PROVE PostedInv'
  OBVIOUS
<1>0. Lists /\ Lists'
  BY DEF CompleteInv
<1>1. ASSUME NEW p \in Processor, Tick(p) PROVE PostedInv'
  BY <1>0, <1>1, TickKeepsPosted
<1>2. ASSUME NEW p \in Processor, post(p) \/ post_job1 PROVE PostedInv'
  BY <1>0, <1>2, PostKeepsPosted
<1>3. CASE UNCHANGED listVars
  BY <1>3 DEF listVars, PostedInv
<1>4. ASSUME NEW p \in Processor, Thread(p), ~Tick(p) PROVE UNCHANGED listVars
  BY <1>4 DEF Thread, entry, wait_start, reset_start, check_quit, tick_end, tick_fail,
     fail_synchronized, fail_continue, fail_end
<1>5. CASE pre_tick \/ clear_event_processor
  BY <1>3, <1>5 DEF pre_tick, clear_event_processor
<1>6. CASE MainNext
  <2>1. (\E p \in Processor : Tick(p)) \/ UNCHANGED listVars
    BY <1>6 DEF MainNext, do_tick, post_tick, wait_end, reset_end, do_synchronization,
       post_tick_end, collect_garbage, join, destroyed, tick_inline_end, signal_frame_start,
       do_tick_skip, tick_inline, post_tick_skip, wait_signal_frame_end, set_autonomous_false
  <2>. QED BY <1>1, <1>3, <2>1
<1>7. CASE UNCHANGED vars
  BY <1>3, <1>7 DEF vars
<1>. QED BY <1>1, <1>2, <1>3, <1>4, <1>5, <1>6, <1>7, Distinctly DEF Next

LEMMA PostedHolds == Spec => []PostedInv
<1>1. CompleteInv /\ PostedInv /\ [Next]_vars => PostedInv'
  BY CompleteStep, PostedStep
<1>. QED BY <1>1, CompleteHolds, PostedInit, PTL DEF Spec

\* Every event and every job that was posted has been executed once or waits in one list,
\* for any number of processors, of threads that post and of slaves that share the jobs.
THEOREM NoPostIsLost == Spec => []PostedOnce
<1>1. PostedInv => PostedOnce
  BY SumOfQueues DEF PostedInv
<1>. QED BY <1>1, PostedHolds, PTL

\* Every variable keeps its type; no processor has ticked in more frames than there were.
THEOREM FrameIsTyped == Spec => []TypeOK
<1>1. CompleteInv /\ PostedInv => TypeOK
  <2>. SUFFICES ASSUME CompleteInv, PostedInv PROVE TypeOK
    OBVIOUS
  <2>. USE DEF CompleteInv, FrameInv
  <2>1. ticks \in [Processor -> 0..frame]
    <3>1. ASSUME NEW p \in Processor PROVE ticks[p] \in Nat /\ ticks[p] <= frame /\ frame \in Nat
      <4>1. CASE p \in Framed
        BY <4>1 DEF Lists, Limit
      <4>2. CASE p \in Autonomous \ Synchronized
        BY <4>2 DEF Lists
      <4>. QED BY <4>1, <4>2 DEF Framed
    <3>. QED BY <3>1 DEF Lists
  <2>2. executed \in 0..MaxPost /\ posted \in 0..MaxPost
    <3>1. SumOf(queue, Processor) \in Nat /\ Len(m_job1_list) \in Nat
          /\ Len(m_job1_list_for_read) \in Nat
      BY SumIsNatural DEF Lists
    <3>2. MaxPost \in Nat /\ posted \in Nat /\ posted <= MaxPost /\ executed \in Nat
      BY FrameAssumption DEF PostedInv, FrameAssumption
    <3>. QED BY <3>1, <3>2 DEF PostedInv
  <2>3. frame \in 0..MaxFrame
    BY FrameAssumption DEF Lists, FrameAssumption
  <2>4. \A flag \in {m_is_running, m_start_tick_event, m_end_tick_event, m_synchronized,
                     m_synchronize_continue, m_is_autonomous, m_quit} :
          flag \in [Processor -> BOOLEAN]
    BY DEF Typed, Lists
  <2>. QED BY <2>1, <2>2, <2>3, <2>4 DEF TypeOK, Typed, Lists, Loops
<1>. QED BY <1>1, CompleteHolds, PostedHolds, PTL
===============================================================================
