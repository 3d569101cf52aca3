------------------------------ MODULE TaskManager ------------------------------
(***************************************************************************)
(* gv_task_manager: parallel_for posts a task and helps to execute it; the *)
(* manager's thread takes the task, gives it to workers, and helps too; a  *)
(* worker sleeps until its event is set, takes its whole list and executes *)
(* it.  The destructor stops the threads.                                  *)
(*                                                                         *)
(* Pushing to a list and taking it are atomic (LockFreeList).  A task has  *)
(* one next pointer, whatever lists it is in.  m_start_event resets itself *)
(* in a step after the one that ends the wait; m_incoming_event is reset   *)
(* by who waits.  Taking an index and calling the functor with it is one   *)
(* step; nobody waits for the count of the finished ones.                  *)
(***************************************************************************)
EXTENDS Integers, FiniteSets

CONSTANTS
  Poster,       \* threads that call parallel_for
  Worker,
  WorkerAt,     \* the worker of an index
  NumWorkers,   \* get_num_workers, 4 in the code
  Task,         \* every call has a task of its own
  Count,        \* the loop count of each task
  Incoming,     \* the manager's list
  Null,
  MaxInFlight   \* bound: tasks somebody still refers to

ASSUME TaskAssumption ==
  /\ NumWorkers \in Nat \ {0}
  /\ WorkerAt \in [0..(NumWorkers - 1) -> Worker]
  /\ Count \in [Task -> Nat]
  /\ Incoming \notin Worker /\ Null \notin Task /\ Null \notin Worker
  /\ MaxInFlight \in Nat

VARIABLES
  head,               \* of the manager's list and of each worker's
  next,               \* of each task
  ref,                \* m_ref_count of each task
  life,               \* of each task: new, live or freed
  started, finished,  \* m_started_count and m_finished_count of each task
  m_incoming_event,   \* is it set?
  m_start_event,      \* is that of a worker set?
  poster,             \* of each thread in parallel_for, its step and task
  manager,            \* the manager's thread
  worker,             \* each worker's thread
  total_task_count,   \* modulo the number of workers
  m_quit,             \* of each worker
  owner               \* the step of the destructor

counts == <<started, finished>>
taskVars == <<ref, life, counts>>
vars == <<head, next, taskVars, m_incoming_event, m_start_event, poster, manager,
          worker, total_task_count, m_quit, owner>>

Pointer == Task \cup {Null}

TypeOK ==
  /\ head \in [Worker \cup {Incoming} -> Pointer]
  /\ next \in [Task -> Pointer]
  /\ ref \in [Task -> Int]
  /\ life \in [Task -> {"new", "live", "freed"}]
  /\ started \in [Task -> Nat] /\ finished \in [Task -> Nat]
  /\ m_incoming_event \in BOOLEAN
  /\ m_start_event \in [Worker -> BOOLEAN]
  /\ poster \in [Poster -> [pc : {"idle", "post", "signal", "execute", "release"},
                            task : Pointer]]
  /\ manager \in [pc : {"reset", "wait", "check_quit", "reverse", "distribute", "notify",
                        "execute", "dec_ref", "next", "ended"},
                  task : Pointer,             \* what flush_jobs and process_job work on
                  first : Pointer, rest : Pointer,   \* the list it reverses
                  left : Nat,                 \* workers it has still to give the task to
                  index : 0..(NumWorkers - 1)]
  /\ worker \in [Worker -> [pc : {"loop", "wait", "reset", "do_work", "job", "execute",
                                  "dec_ref", "ended"},
                            job : Pointer, next : Pointer]]
  /\ total_task_count \in 0..(NumWorkers - 1)
  /\ m_quit \in [Worker -> BOOLEAN]
  /\ owner \in {"alive", "signal", "quit_workers", "join_workers", "join", "gone"}

Init ==
  /\ head = [l \in Worker \cup {Incoming} |-> Null]
  /\ next = [t \in Task |-> Null]
  /\ ref = [t \in Task |-> 0]
  /\ life = [t \in Task |-> "new"]
  /\ started = [t \in Task |-> 0] /\ finished = [t \in Task |-> 0]
  /\ m_incoming_event = FALSE
  /\ m_start_event = [w \in Worker |-> FALSE]
  /\ poster = [p \in Poster |-> [pc |-> "idle", task |-> Null]]
  /\ manager = [pc |-> "reset", task |-> Null, first |-> Null, rest |-> Null,
                left |-> 0, index |-> 0]
  /\ worker = [w \in Worker |-> [pc |-> "loop", job |-> Null, next |-> Null]]
  /\ total_task_count = 1 % NumWorkers
  /\ m_quit = [w \in Worker |-> FALSE]
  /\ owner = "alive"

-------------------------------------------------------------------------------
(* References and lists. *)

inc_ref(t) == ref' = [ref EXCEPT ![t] = @ + 1]

dec_ref(t) ==
  /\ ref' = [ref EXCEPT ![t] = @ - 1]
  /\ life' = [life EXCEPT ![t] = IF ref[t] = 1 THEN "freed" ELSE @]

push(t, list) ==
  /\ next' = [next EXCEPT ![t] = head[list]]
  /\ head' = [head EXCEPT ![list] = t]

\* Mutant: the last index is out of range.
NothingLeftEarly(t) == started[t] + 1 >= Count[t]

\* The index a thread takes is out of range.
NothingLeft(t) == started[t] >= Count[t]

\* One turn of the loop of execute: the functor is called, or the loop ends.
TakeIndex(t) ==
  /\ started' = [started EXCEPT ![t] = @ + 1]
  /\ finished' = [finished EXCEPT ![t] = @ + (IF NothingLeft(t) THEN 0 ELSE 1)]

InFlight == {t \in Task : life[t] = "live"}

-------------------------------------------------------------------------------
(* parallel_for and parallel_process_stream. *)

\* Mutant: the reference of the manager's list is not counted.
create_task_one_ref(p, t) ==
  /\ owner = "alive"
  /\ poster[p].pc = "idle"
  /\ life[t] = "new" /\ Cardinality(InFlight) < MaxInFlight
  /\ life' = [life EXCEPT ![t] = "live"]
  /\ ref' = [ref EXCEPT ![t] = 1]
  /\ poster' = [poster EXCEPT ![p] = [pc |-> "post", task |-> t]]
  /\ UNCHANGED <<head, next, counts, m_incoming_event, m_start_event, manager, worker,
                 total_task_count, m_quit, owner>>

\* Nobody calls a manager that is being destroyed.
create_task(p, t) ==
  /\ owner = "alive"
  /\ poster[p].pc = "idle"
  /\ life[t] = "new" /\ Cardinality(InFlight) < MaxInFlight
  /\ life' = [life EXCEPT ![t] = "live"]
  /\ ref' = [ref EXCEPT ![t] = 2]
  /\ poster' = [poster EXCEPT ![p] = [pc |-> "post", task |-> t]]
  /\ UNCHANGED <<head, next, counts, m_incoming_event, m_start_event, manager, worker,
                 total_task_count, m_quit, owner>>

post_job(p) ==
  /\ poster[p].pc = "post"
  /\ push(poster[p].task, Incoming)
  /\ poster' = [poster EXCEPT ![p].pc = "signal"]
  /\ UNCHANGED <<taskVars, m_incoming_event, m_start_event, manager, worker,
                 total_task_count, m_quit, owner>>

signal_incoming_task(p) ==
  /\ poster[p].pc = "signal"
  /\ m_incoming_event' = TRUE
  /\ poster' = [poster EXCEPT ![p].pc = "execute"]
  /\ UNCHANGED <<head, next, taskVars, m_start_event, manager, worker, total_task_count,
                 m_quit, owner>>

poster_execute(p) ==
  /\ poster[p].pc = "execute"
  /\ TakeIndex(poster[p].task)
  /\ poster' = [poster EXCEPT ![p].pc =
                  IF NothingLeft(poster[p].task) THEN "release" ELSE @]
  /\ UNCHANGED <<head, next, ref, life, m_incoming_event, m_start_event, manager, worker,
                 total_task_count, m_quit, owner>>

poster_return(p) ==
  /\ poster[p].pc = "release"
  /\ dec_ref(poster[p].task)
  /\ poster' = [poster EXCEPT ![p] = [pc |-> "idle", task |-> Null]]
  /\ UNCHANGED <<head, next, counts, m_incoming_event, m_start_event, manager, worker,
                 total_task_count, m_quit, owner>>

-------------------------------------------------------------------------------
(* The manager's thread: tick, flush_jobs, process_job, distribute_task. *)

\* Neither the event nor the workers exist.
Gone == owner \in {"join", "gone"}

ManagerAt(pc) ==
  /\ manager.pc = pc
  /\ UNCHANGED <<poster, worker, m_quit, owner>>

wait_reset ==
  /\ ManagerAt("reset") /\ ~Gone
  /\ m_incoming_event' = FALSE
  /\ manager' = [manager EXCEPT !.pc = "wait"]
  /\ UNCHANGED <<head, next, taskVars, m_start_event, total_task_count>>

wait_for_incoming_task ==
  /\ ManagerAt("wait") /\ ~Gone
  /\ m_incoming_event
  /\ manager' = [manager EXCEPT !.pc = "check_quit"]
  /\ UNCHANGED <<head, next, taskVars, m_incoming_event, m_start_event, total_task_count>>

tick_quit ==
  /\ ManagerAt("check_quit")
  /\ owner # "alive"
  /\ manager' = [manager EXCEPT !.pc = "ended"]
  /\ UNCHANGED <<head, next, taskVars, m_incoming_event, m_start_event, total_task_count>>

\* flush_jobs takes the list, and reverses it.
pop_all ==
  /\ ManagerAt("check_quit")
  /\ owner = "alive"
  /\ manager' = [manager EXCEPT !.pc = "reverse", !.rest = head[Incoming], !.first = Null]
  /\ head' = [head EXCEPT ![Incoming] = Null]
  /\ UNCHANGED <<next, taskVars, m_incoming_event, m_start_event, total_task_count>>

reverse ==
  /\ ManagerAt("reverse")
  /\ manager.rest # Null
  /\ manager' = [manager EXCEPT !.first = manager.rest, !.rest = next[manager.rest]]
  /\ next' = [next EXCEPT ![manager.rest] = manager.first]
  /\ UNCHANGED <<head, taskVars, m_incoming_event, m_start_event, total_task_count>>

\* (gv_uint)m_task_count - 1 is a large number for an empty task.
Helpers(t) ==
  IF Count[t] = 0 \/ Count[t] - 1 >= NumWorkers THEN NumWorkers ELSE Count[t] - 1

\* flush_jobs holds a reference to the task it works on, as process_job does.
process_job(t) ==
  manager' = IF t = Null
             THEN [manager EXCEPT !.pc = "reset", !.task = Null, !.first = Null]
             ELSE [manager EXCEPT !.pc = "distribute", !.task = t, !.first = Null,
                                  !.left = Helpers(t)]

flush_jobs ==
  /\ ManagerAt("reverse")
  /\ manager.rest = Null
  /\ process_job(manager.first)
  /\ IF manager.first = Null THEN UNCHANGED ref ELSE inc_ref(manager.first)
  /\ UNCHANGED <<head, next, life, counts, m_incoming_event, m_start_event,
                 total_task_count>>

\* Mutant: the worker's index is not taken modulo their number.
distribute_task_unwrapped ==
  /\ ManagerAt("distribute") /\ ~Gone
  /\ manager.left > 0
  /\ inc_ref(manager.task)
  /\ push(manager.task, WorkerAt[total_task_count])
  /\ total_task_count' = total_task_count + 1
  /\ manager' = [manager EXCEPT !.pc = "notify", !.index = total_task_count,
                                !.left = @ - 1]
  /\ UNCHANGED <<life, counts, m_incoming_event, m_start_event>>

distribute_task ==
  /\ ManagerAt("distribute") /\ ~Gone
  /\ manager.left > 0
  /\ inc_ref(manager.task)
  /\ push(manager.task, WorkerAt[total_task_count])
  /\ total_task_count' = (total_task_count + 1) % NumWorkers
  /\ manager' = [manager EXCEPT !.pc = "notify", !.index = total_task_count,
                                !.left = @ - 1]
  /\ UNCHANGED <<life, counts, m_incoming_event, m_start_event>>

notify ==
  /\ ManagerAt("notify") /\ ~Gone
  /\ m_start_event' = [m_start_event EXCEPT ![WorkerAt[manager.index]] = TRUE]
  /\ manager' = [manager EXCEPT !.pc = "distribute"]
  /\ UNCHANGED <<head, next, taskVars, m_incoming_event, total_task_count>>

distribute_end ==
  /\ ManagerAt("distribute")
  /\ manager.left = 0
  /\ manager' = [manager EXCEPT !.pc = "execute"]
  /\ UNCHANGED <<head, next, taskVars, m_incoming_event, m_start_event, total_task_count>>

manager_execute ==
  /\ ManagerAt("execute")
  /\ TakeIndex(manager.task)
  /\ manager' = [manager EXCEPT !.pc = IF NothingLeft(manager.task) THEN "dec_ref" ELSE @]
  /\ UNCHANGED <<head, next, ref, life, m_incoming_event, m_start_event, total_task_count>>

manager_dec_ref ==
  /\ ManagerAt("dec_ref")
  /\ dec_ref(manager.task)
  /\ manager' = [manager EXCEPT !.pc = "next"]
  /\ UNCHANGED <<head, next, counts, m_incoming_event, m_start_event, total_task_count>>

\* Whatever the next pointer is now.
flush_next ==
  /\ ManagerAt("next")
  /\ LET t == manager.task
         n == next[t]
     IN  /\ process_job(n)
         /\ ref' = [u \in Task |-> ref[u] + (IF u = n THEN 1 ELSE 0)
                                          - (IF u = t THEN 1 ELSE 0)]
         /\ life' = [life EXCEPT ![t] = IF ref[t] = 1 /\ n # t THEN "freed" ELSE @]
  /\ UNCHANGED <<head, next, counts, m_incoming_event, m_start_event, total_task_count>>

-------------------------------------------------------------------------------
(* A worker's thread: run and do_work. *)

WorkerStep(w, from, to) ==
  /\ worker[w].pc = from
  /\ worker' = [worker EXCEPT ![w] = to]
  /\ UNCHANGED <<poster, manager, m_incoming_event, total_task_count, m_quit, owner>>

Resting(pc) == [pc |-> pc, job |-> Null, next |-> Null]

\* Mutant: with the call of reset that is commented out.
run_reset(w) ==
  /\ WorkerStep(w, "loop", Resting(IF m_quit[w] THEN "ended" ELSE "wait"))
  /\ m_start_event' = [m_start_event EXCEPT ![w] = FALSE]
  /\ UNCHANGED <<head, next, taskVars>>

run(w) ==
  /\ WorkerStep(w, "loop", Resting(IF m_quit[w] THEN "ended" ELSE "wait"))
  /\ UNCHANGED <<head, next, taskVars, m_start_event>>

worker_wait(w) ==
  /\ WorkerStep(w, "wait", Resting("reset"))
  /\ m_start_event[w]
  /\ UNCHANGED <<head, next, taskVars, m_start_event>>

worker_reset(w) ==
  /\ WorkerStep(w, "reset", Resting("do_work"))
  /\ m_start_event' = [m_start_event EXCEPT ![w] = FALSE]
  /\ UNCHANGED <<head, next, taskVars>>

unlink_all(w) ==
  /\ WorkerStep(w, "do_work",
       IF m_quit[w] \/ head[w] = Null THEN Resting("loop")
       ELSE [pc |-> "job", job |-> head[w], next |-> Null])
  /\ head' = [head EXCEPT ![w] = IF m_quit[w] THEN @ ELSE Null]
  /\ UNCHANGED <<next, taskVars, m_start_event>>

do_work(w) ==
  /\ worker[w].job # Null /\ ~m_quit[w]
  /\ WorkerStep(w, "job", [worker[w] EXCEPT !.pc = "execute", !.next = next[worker[w].job]])
  /\ UNCHANGED <<head, next, taskVars, m_start_event>>

\* What is left of the list is forgotten when the worker quits.
do_work_end(w) ==
  /\ worker[w].job = Null \/ m_quit[w]
  /\ WorkerStep(w, "job", Resting("do_work"))
  /\ UNCHANGED <<head, next, taskVars, m_start_event>>

worker_execute(w) ==
  /\ worker[w].pc = "execute"
  /\ TakeIndex(worker[w].job)
  /\ WorkerStep(w, "execute",
       [worker[w] EXCEPT !.pc = IF NothingLeft(worker[w].job) THEN "dec_ref" ELSE @])
  /\ UNCHANGED <<head, next, ref, life, m_start_event>>

\* Mutant: the reference of the list is not released.
worker_no_dec_ref(w) ==
  /\ worker[w].pc = "dec_ref"
  /\ WorkerStep(w, "dec_ref", [pc |-> "job", job |-> worker[w].next, next |-> Null])
  /\ UNCHANGED <<head, next, taskVars, m_start_event>>

worker_dec_ref(w) ==
  /\ worker[w].pc = "dec_ref"
  /\ dec_ref(worker[w].job)
  /\ WorkerStep(w, "dec_ref", [pc |-> "job", job |-> worker[w].next, next |-> Null])
  /\ UNCHANGED <<head, next, counts, m_start_event>>

-------------------------------------------------------------------------------
(* The destructor. *)

OwnerStep(from, to) ==
  /\ owner = from /\ owner' = to
  /\ UNCHANGED <<head, next, taskVars, poster, manager, worker, total_task_count>>

quit ==
  /\ OwnerStep("alive", "signal")
  /\ \A p \in Poster : poster[p].pc = "idle"
  /\ UNCHANGED <<m_incoming_event, m_start_event, m_quit>>

quit_signal ==
  /\ OwnerStep("signal", "quit_workers")
  /\ m_incoming_event' = TRUE
  /\ UNCHANGED <<m_start_event, m_quit>>

\* Mutant: the flag is set, the event is not.
quit_worker_silent(w) ==
  /\ owner = "quit_workers"
  /\ ~m_quit[w]
  /\ m_quit' = [m_quit EXCEPT ![w] = TRUE]
  /\ UNCHANGED <<head, next, taskVars, m_incoming_event, m_start_event, poster, manager, worker,
                 total_task_count, owner>>

quit_worker(w) ==
  /\ owner = "quit_workers"
  /\ ~m_quit[w]
  /\ m_quit' = [m_quit EXCEPT ![w] = TRUE]
  /\ m_start_event' = [m_start_event EXCEPT ![w] = TRUE]
  /\ UNCHANGED <<head, next, taskVars, m_incoming_event, poster, manager, worker,
                 total_task_count, owner>>

quit_workers_end ==
  /\ OwnerStep("quit_workers", "join_workers")
  /\ \A w \in Worker : m_quit[w]
  /\ UNCHANGED <<m_incoming_event, m_start_event, m_quit>>

\* With the workers gone the implementation is destroyed, and the event with it.
join_workers ==
  /\ OwnerStep("join_workers", "join")
  /\ \A w \in Worker : worker[w].pc = "ended"
  /\ UNCHANGED <<m_incoming_event, m_start_event, m_quit>>

\* ~gv_event_processor: set_autonomous(false) joins the manager's thread.
join ==
  /\ OwnerStep("join", "gone")
  /\ manager.pc = "ended"
  /\ UNCHANGED <<m_incoming_event, m_start_event, m_quit>>

-------------------------------------------------------------------------------
Manager ==
  \/ wait_reset \/ wait_for_incoming_task \/ tick_quit \/ pop_all \/ reverse \/ flush_jobs
  \/ distribute_task \/ notify \/ distribute_end \/ manager_execute \/ manager_dec_ref
  \/ flush_next

WorkerNext(w) ==
  \/ run(w) \/ worker_wait(w) \/ worker_reset(w) \/ unlink_all(w) \/ do_work(w)
  \/ do_work_end(w) \/ worker_execute(w) \/ worker_dec_ref(w)

PosterNext(p) ==
  post_job(p) \/ signal_incoming_task(p) \/ poster_execute(p) \/ poster_return(p)

Owner ==
  \/ quit_signal \/ (\E w \in Worker : quit_worker(w)) \/ quit_workers_end
  \/ join_workers \/ join

Next ==
  \/ \E p \in Poster : PosterNext(p) \/ \E t \in Task : create_task(p, t)
  \/ Manager
  \/ \E w \in Worker : WorkerNext(w)
  \/ quit \/ Owner

Spec == Init /\ [][Next]_vars

\* Threads run; nothing is assumed of the callers and of when the owner quits.
Fairness ==
  /\ \A p \in Poster : WF_vars(PosterNext(p))
  /\ WF_vars(Manager)
  /\ \A w \in Worker : WF_vars(WorkerNext(w))
  /\ WF_vars(Owner)

FairSpec == Spec /\ Fairness

-------------------------------------------------------------------------------
(* Properties. *)

Freed(t) == t # Null /\ life[t] = "freed"

\* The references of the poster, of the manager and of the lists keep a task alive
\* as long as any thread works on it: nobody executes, releases or follows the next
\* pointer of a freed task.  With more than one task in flight it does not hold.
NoUseAfterFree ==
  /\ \A p \in Poster : ~Freed(poster[p].task)
  /\ ~Freed(manager.task) /\ ~Freed(manager.first) /\ ~Freed(manager.rest)
  /\ \A w \in Worker : ~Freed(worker[w].job)

\* A worker that sleeps, or is about to, with a task in its list is woken: its event
\* is set, or the manager is about to set it.  The event resets itself after the wait
\* has ended, so a set may get lost; the list is taken after that.
WorkerAwake ==
  \A w \in Worker :
    worker[w].pc \in {"loop", "wait"} /\ head[w] # Null /\ ~m_quit[w] =>
      m_start_event[w] \/ (manager.pc = "notify" /\ WorkerAt[manager.index] = w)

\* A task is freed after the functor was called for every index, once, whoever of the
\* threads that share it called it and whoever frees the task.
FreedIsDone == \A t \in Task : life[t] = "freed" => finished[t] = Count[t]

\* A task the manager has distributed is freed in the end, unless the owner quits:
\* no thread keeps a reference to it, and no list forgets it.
DistributedIsFreed ==
  \A t \in Task : manager.task = t ~> life[t] = "freed" \/ owner # "alive"

\* Once told to quit, every worker ends, wherever it was, so their join returns.
WorkersEnd == owner = "join_workers" ~> \A w \in Worker : worker[w].pc = "ended"

\* The destructor of the manager returns.
ShutdownEnds == owner = "signal" ~> owner = "gone"
===============================================================================
