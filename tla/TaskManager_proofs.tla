--------------------------- MODULE TaskManager_proofs ---------------------------
(***************************************************************************)
(* Proofs about TaskManager, for every number of workers, callers, tasks   *)
(* and tasks in flight, and every loop count.  The last one is for one     *)
(* task in flight: the references of a task are at least its holders, and  *)
(* no next pointer leads anywhere, since no list ever has two tasks.       *)
(***************************************************************************)
EXTENDS TaskManager, FiniteSetTheorems, TLAPS

\* A thread that works on a task has one.
Working ==
  /\ manager.pc \in {"distribute", "notify", "execute", "dec_ref", "next"} =>
       manager.task \in Task
  /\ \A w \in Worker : worker[w].pc \in {"execute", "dec_ref"} => worker[w].job \in Task
  /\ \A p \in Poster : poster[p].pc # "idle" => poster[p].task \in Task

Typed == TypeOK /\ Working

LEMMA HelpersType == \A t \in Task : Helpers(t) \in Nat
BY TaskAssumption DEF Helpers

\* What the manager takes up next, when it is a task or none.
LEMMA ProcessJobType ==
  ASSUME Typed, NEW t \in Pointer, process_job(t),
         UNCHANGED worker, UNCHANGED poster
  PROVE  /\ manager' \in [pc : {"reset", "wait", "check_quit", "reverse", "distribute",
                                "notify", "execute", "dec_ref", "next", "ended"},
                          task : Pointer, first : Pointer, rest : Pointer, left : Nat,
                          index : 0..(NumWorkers - 1)]
         /\ Working'
<1>1. Null \in Pointer /\ (t # Null => t \in Task)
  BY DEF Pointer
<1>2. CASE t = Null
  BY <1>1, <1>2 DEF process_job, Typed, TypeOK, Working
<1>3. CASE t # Null
  BY <1>1, <1>3, HelpersType DEF process_job, Typed, TypeOK, Working
<1>. QED
  BY <1>2, <1>3

LEMMA TypedInit == Init => Typed
<1>. SUFFICES ASSUME Init
              PROVE  Typed
  OBVIOUS
<1>1. 1 % NumWorkers \in 0..(NumWorkers - 1) /\ 0 \in 0..(NumWorkers - 1)
  BY TaskAssumption
<1>2. TypeOK
  <2>1. /\ head \in [Worker \cup {Incoming} -> Pointer] /\ next \in [Task -> Pointer]
        /\ ref \in [Task -> Int] /\ life \in [Task -> {"new", "live", "freed"}]
        /\ started \in [Task -> Nat] /\ finished \in [Task -> Nat]
    BY DEF Init, Pointer
  <2>2. poster \in [Poster -> [pc : {"idle", "post", "signal", "execute", "release"},
                               task : Pointer]]
    BY DEF Init, Pointer
  <2>3. manager \in [pc : {"reset", "wait", "check_quit", "reverse", "distribute",
                           "notify", "execute", "dec_ref", "next", "ended"},
                     task : Pointer, first : Pointer, rest : Pointer, left : Nat,
                     index : 0..(NumWorkers - 1)]
    BY <1>1 DEF Init, Pointer
  <2>4. worker \in [Worker -> [pc : {"loop", "wait", "reset", "do_work", "job", "execute",
                                     "dec_ref", "ended"},
                               job : Pointer, next : Pointer]]
    BY DEF Init, Pointer
  <2>. QED
    BY <1>1, <2>1, <2>2, <2>3, <2>4 DEF Init, TypeOK
<1>3. Working
  BY DEF Init, Working
<1>. QED
  BY <1>2, <1>3 DEF Typed

LEMMA DecRefType ==
  ASSUME TypeOK, NEW t \in Task, dec_ref(t)
  PROVE  ref' \in [Task -> Int] /\ life' \in [Task -> {"new", "live", "freed"}]
BY DEF dec_ref, TypeOK

LEMMA PosterTyped ==
  ASSUME Typed, NEW p \in Poster, PosterNext(p) \/ \E t \in Task : create_task(p, t)
  PROVE  Typed'
<1>1. ASSUME NEW t \in Task, create_task(p, t)
      PROVE  Typed'
  <2>1. /\ poster' \in [Poster -> [pc : {"idle", "post", "signal", "execute", "release"},
                                   task : Pointer]]
        /\ life' \in [Task -> {"new", "live", "freed"}] /\ ref' \in [Task -> Int]
    BY <1>1 DEF create_task, Typed, TypeOK, Pointer
  <2>2. Working'
    BY <1>1 DEF create_task, Typed, TypeOK, Working
  <2>. QED
    BY <1>1, <2>1, <2>2 DEF create_task, Typed, TypeOK, counts
<1>2. CASE post_job(p)
  <2>1. poster[p].task \in Task
    BY <1>2 DEF post_job, Typed, Working
  <2>2. /\ head' \in [Worker \cup {Incoming} -> Pointer]
        /\ next' \in [Task -> Pointer]
    BY <1>2, <2>1 DEF post_job, push, Typed, TypeOK, Pointer
  <2>3. poster' \in [Poster -> [pc : {"idle", "post", "signal", "execute", "release"},
                                task : Pointer]]
    BY <1>2 DEF post_job, Typed, TypeOK
  <2>4. Working'
    BY <1>2, <2>1 DEF post_job, Typed, TypeOK, Working
  <2>. QED
    BY <1>2, <2>2, <2>3, <2>4 DEF post_job, Typed, TypeOK, taskVars, counts
<1>3. CASE signal_incoming_task(p)
  BY <1>3 DEF signal_incoming_task, Typed, TypeOK, Working, taskVars, counts
<1>4. CASE poster_execute(p)
  BY <1>4 DEF poster_execute, TakeIndex, Typed, TypeOK, Working
<1>5. CASE poster_return(p)
  <2>1. poster' \in [Poster -> [pc : {"idle", "post", "signal", "execute", "release"},
                                task : Pointer]]
    BY <1>5 DEF poster_return, Typed, TypeOK, Pointer
  <2>2. life' \in [Task -> {"new", "live", "freed"}] /\ ref' \in [Task -> Int]
    BY <1>5, DecRefType DEF poster_return, Typed, Working
  <2>3. Working'
    BY <1>5 DEF poster_return, Typed, TypeOK, Working
  <2>. QED
    BY <1>5, <2>1, <2>2, <2>3 DEF poster_return, Typed, TypeOK, counts
<1>. QED
  BY <1>1, <1>2, <1>3, <1>4, <1>5 DEF PosterNext

LEMMA ManagerTyped == Typed /\ Manager => Typed'
<1>. SUFFICES ASSUME Typed, Manager
              PROVE  Typed'
  OBVIOUS
<1>. USE DEF Typed, ManagerAt
<1>1. CASE wait_reset
  BY <1>1 DEF wait_reset, TypeOK, Working, taskVars, counts
<1>2. CASE wait_for_incoming_task
  BY <1>2 DEF wait_for_incoming_task, TypeOK, Working, taskVars, counts
<1>3. CASE tick_quit
  BY <1>3 DEF tick_quit, TypeOK, Working, taskVars, counts
<1>4. CASE pop_all
  BY <1>4 DEF pop_all, TypeOK, Working, Pointer, taskVars, counts
<1>5. CASE reverse
  <2>1. manager.rest \in Task /\ next[manager.rest] \in Pointer
    BY <1>5 DEF reverse, TypeOK, Pointer
  <2>. QED
    BY <1>5, <2>1 DEF reverse, TypeOK, Working, taskVars, counts
<1>6. CASE flush_jobs
  <2>1. manager.first \in Pointer /\ process_job(manager.first)
    BY <1>6 DEF flush_jobs, TypeOK
  <2>2. ref' \in [Task -> Int]
    BY <1>6 DEF flush_jobs, inc_ref, TypeOK
  <2>. QED
    BY <1>6, <2>1, <2>2, ProcessJobType DEF flush_jobs, TypeOK, counts
<1>7. CASE distribute_task
  <2>1. /\ manager.task \in Task
        /\ total_task_count \in 0..(NumWorkers - 1)
        /\ WorkerAt[total_task_count] \in Worker
        /\ (total_task_count + 1) % NumWorkers \in 0..(NumWorkers - 1)
        /\ manager.left - 1 \in Nat
    BY <1>7, TaskAssumption DEF distribute_task, TypeOK, Working
  <2>2. /\ head' \in [Worker \cup {Incoming} -> Pointer]
        /\ next' \in [Task -> Pointer] /\ ref' \in [Task -> Int]
    BY <1>7, <2>1 DEF distribute_task, push, inc_ref, TypeOK, Pointer
  <2>3. manager' \in [pc : {"reset", "wait", "check_quit", "reverse", "distribute",
                            "notify", "execute", "dec_ref", "next", "ended"},
                      task : Pointer, first : Pointer, rest : Pointer, left : Nat,
                      index : 0..(NumWorkers - 1)]
    BY <1>7, <2>1 DEF distribute_task, TypeOK
  <2>4. Working'
    BY <1>7, <2>1 DEF distribute_task, TypeOK, Working
  <2>. QED
    BY <1>7, <2>1, <2>2, <2>3, <2>4 DEF distribute_task, TypeOK, counts
<1>8. CASE notify
  BY <1>8 DEF notify, TypeOK, Working, taskVars, counts
<1>9. CASE distribute_end
  BY <1>9 DEF distribute_end, TypeOK, Working, taskVars, counts
<1>10. CASE manager_execute
  BY <1>10 DEF manager_execute, TakeIndex, TypeOK, Working
<1>11. CASE manager_dec_ref
  BY <1>11 DEF manager_dec_ref, dec_ref, TypeOK, Working, counts
<1>12. CASE flush_next
  <2>1. manager.task \in Task /\ next[manager.task] \in Pointer
    BY <1>12 DEF flush_next, TypeOK, Working
  <2>2. ref' = [u \in Task |-> ref[u] + (IF u = next[manager.task] THEN 1 ELSE 0)
                                      - (IF u = manager.task THEN 1 ELSE 0)]
    BY <1>12 DEF flush_next
  <2>3. ref' \in [Task -> Int]
    BY <2>2 DEF TypeOK
  <2>4. life' \in [Task -> {"new", "live", "freed"}]
    BY <1>12 DEF flush_next, TypeOK
  <2>. QED
    BY <1>12, <2>1, <2>3, <2>4, ProcessJobType DEF flush_next, TypeOK, counts
<1>. QED
  BY <1>1, <1>2, <1>3, <1>4, <1>5, <1>6, <1>7, <1>8, <1>9, <1>10, <1>11, <1>12 DEF Manager

LEMMA WorkerTyped ==
  ASSUME Typed, NEW w \in Worker, WorkerNext(w)
  PROVE  Typed'
<1>. USE DEF Typed, WorkerStep, Resting
<1>1. CASE run(w)
  BY <1>1 DEF run, TypeOK, Working, Pointer, taskVars, counts
<1>2. CASE worker_wait(w)
  BY <1>2 DEF worker_wait, TypeOK, Working, Pointer, taskVars, counts
<1>3. CASE worker_reset(w)
  BY <1>3 DEF worker_reset, TypeOK, Working, Pointer, taskVars, counts
<1>4. CASE unlink_all(w)
  BY <1>4 DEF unlink_all, TypeOK, Working, Pointer, taskVars, counts
<1>5. CASE do_work(w)
  <2>1. worker[w].job \in Task /\ next[worker[w].job] \in Pointer
    BY <1>5 DEF do_work, TypeOK, Pointer
  <2>2. /\ worker' \in [Worker -> [pc : {"loop", "wait", "reset", "do_work", "job", "execute",
                                       "dec_ref", "ended"},
                                 job : Pointer, next : Pointer]]
        /\ worker'[w].job \in Task /\ \A v \in Worker \ {w} : worker'[v] = worker[v]
    <3>1. /\ worker' = [worker EXCEPT ![w] = [worker[w] EXCEPT !.pc = "execute",
                                                             !.next = next[worker[w].job]]]
          /\ worker \in [Worker -> [pc : {"loop", "wait", "reset", "do_work", "job", "execute",
                                          "dec_ref", "ended"},
                                    job : Pointer, next : Pointer]]
      BY <1>5 DEF do_work, TypeOK
    <3>. QED
      BY <2>1, <3>1
  <2>3. Working'
    BY <1>5, <2>2 DEF do_work, TypeOK, Working
  <2>. QED
    BY <1>5, <2>2, <2>3 DEF do_work, TypeOK, taskVars, counts
<1>6. CASE do_work_end(w)
  BY <1>6 DEF do_work_end, TypeOK, Working, Pointer, taskVars, counts
<1>7. CASE worker_execute(w)
  BY <1>7 DEF worker_execute, TakeIndex, TypeOK, Working
<1>8. CASE worker_dec_ref(w)
  BY <1>8 DEF worker_dec_ref, dec_ref, TypeOK, Working, Pointer, counts
<1>. QED
  BY <1>1, <1>2, <1>3, <1>4, <1>5, <1>6, <1>7, <1>8 DEF WorkerNext

LEMMA OwnerTyped == Typed /\ (quit \/ Owner) => Typed'
<1>. SUFFICES ASSUME Typed, quit \/ Owner
              PROVE  Typed'
  OBVIOUS
<1>. USE DEF Typed, TypeOK, Working, taskVars, counts
<1>1. CASE quit \/ quit_workers_end \/ join_workers \/ join
  BY <1>1 DEF quit, quit_workers_end, join_workers, join, OwnerStep
<1>2. CASE quit_signal
  BY <1>2 DEF quit_signal, OwnerStep
<1>3. ASSUME NEW w \in Worker, quit_worker(w)
      PROVE  Typed'
  BY <1>3 DEF quit_worker
<1>. QED
  BY <1>1, <1>2, <1>3 DEF Owner

LEMMA TypedStep == Typed /\ [Next]_vars => Typed'
<1>1. Typed /\ UNCHANGED vars => Typed'
  BY DEF Typed, TypeOK, Working, vars, taskVars, counts
<1>. QED
  BY <1>1, PosterTyped, ManagerTyped, WorkerTyped, OwnerTyped DEF Next

\* Every reachable state is of its types: the index of a worker stays in range
\* (distribute_task), and no thread works on a task it does not have.
THEOREM TypeCorrect == Spec => []TypeOK
<1>1. Typed => TypeOK
  BY DEF Typed
<1>. QED
  BY <1>1, TypedInit, TypedStep, PTL DEF Spec

-------------------------------------------------------------------------------
(* A task is freed when the functor was called for all its indices. *)

\* Who releases a task has been refused an index, and what was refused once is refused
\* for ever; a task is freed by who releases it.
Executed ==
  /\ \A t \in Task : finished[t] = IF NothingLeft(t) THEN Count[t] ELSE started[t]
  /\ \A t \in Task : life[t] = "freed" => NothingLeft(t)
  /\ \A p \in Poster : poster[p].pc = "release" => NothingLeft(poster[p].task)
  /\ manager.pc \in {"dec_ref", "next"} => NothingLeft(manager.task)
  /\ \A w \in Worker : worker[w].pc = "dec_ref" => NothingLeft(worker[w].job)

LEMMA TakeIndexFacts ==
  ASSUME Typed, Executed, NEW t \in Task, TakeIndex(t)
  PROVE  /\ \A u \in Task : finished'[u] = IF NothingLeft(u)' THEN Count[u] ELSE started'[u]
         /\ \A u \in Task : NothingLeft(u) => NothingLeft(u)'
<1>. SUFFICES ASSUME NEW u \in Task
              PROVE  /\ finished'[u] = IF NothingLeft(u)' THEN Count[u] ELSE started'[u]
                     /\ NothingLeft(u) => NothingLeft(u)'
  OBVIOUS
<1>1. /\ started[u] \in Nat /\ Count[u] \in Nat
      /\ finished[u] = IF NothingLeft(u) THEN Count[u] ELSE started[u]
  BY TaskAssumption DEF Typed, TypeOK, Executed
<1>2. /\ started'[u] = IF u = t THEN started[u] + 1 ELSE started[u]
      /\ finished'[u] = IF u = t /\ ~NothingLeft(u) THEN finished[u] + 1 ELSE finished[u]
  BY <1>1 DEF TakeIndex, Typed, TypeOK, NothingLeft
<1>. QED
  BY <1>1, <1>2 DEF NothingLeft

LEMMA Refused ==
  ASSUME Typed, UNCHANGED counts
  PROVE  \A t : NothingLeft(t)' = NothingLeft(t)
BY DEF counts, NothingLeft

LEMMA DecRefExecuted ==
  ASSUME Typed, Executed, NEW t \in Task, NothingLeft(t), dec_ref(t)
  PROVE  \A u \in Task : life'[u] = "freed" => NothingLeft(u)
BY DEF dec_ref, Typed, TypeOK, Executed

LEMMA PosterExecuted ==
  ASSUME Typed, Executed, NEW p \in Poster,
         PosterNext(p) \/ \E t \in Task : create_task(p, t)
  PROVE  Executed'
<1>1. ASSUME NEW t \in Task, create_task(p, t)
      PROVE  Executed'
  <2>1. \A u : NothingLeft(u)' = NothingLeft(u)
    BY <1>1, Refused DEF create_task
  <2>2. \A u \in Task : life'[u] = "freed" => life[u] = "freed"
    BY <1>1 DEF create_task, Typed, TypeOK
  <2>3. \A q \in Poster : poster'[q].pc = "release" => poster'[q] = poster[q]
    BY <1>1 DEF create_task, Typed, TypeOK
  <2>. QED
    BY <1>1, <2>1, <2>2, <2>3 DEF create_task, Executed, counts
<1>2. CASE post_job(p) \/ signal_incoming_task(p)
  <2>1. \A u : NothingLeft(u)' = NothingLeft(u)
    BY <1>2, Refused DEF post_job, signal_incoming_task, taskVars
  <2>2. \A q \in Poster : poster'[q].pc = "release" => poster'[q] = poster[q]
    BY <1>2 DEF post_job, signal_incoming_task, Typed, TypeOK
  <2>. QED
    BY <1>2, <2>1, <2>2
    DEF post_job, signal_incoming_task, Executed, taskVars, counts
<1>3. CASE poster_execute(p)
  <2>1. poster[p].task \in Task
    BY <1>3 DEF poster_execute, Typed, Working
  <2>2. /\ \A u \in Task : finished'[u] = IF NothingLeft(u)' THEN Count[u] ELSE started'[u]
        /\ \A u \in Task : NothingLeft(u) => NothingLeft(u)'
    BY <1>3, <2>1, TakeIndexFacts DEF poster_execute
  <2>3. \A q \in Poster : /\ poster'[q].task = poster[q].task
                          /\ poster'[q].pc = "release" =>
                               poster[q].pc = "release" \/ (q = p /\ NothingLeft(poster[p].task))
    <3>1. \A q \in Poster \ {p} : poster'[q] = poster[q]
      BY <1>3 DEF poster_execute, Typed, TypeOK
    <3>2. poster'[p].task = poster[p].task
      BY <1>3 DEF poster_execute, Typed, TypeOK
    <3>3. CASE ~NothingLeft(poster[p].task)
      <4>1. poster' = [poster EXCEPT ![p].pc = poster[p].pc] /\ poster[p].pc = "execute"
        BY <1>3, <3>3 DEF poster_execute
      <4>. QED
        BY <3>1, <3>2, <4>1 DEF Typed, TypeOK
    <3>4. CASE NothingLeft(poster[p].task)
      BY <3>1, <3>2, <3>4
    <3>. QED
      BY <3>3, <3>4
  <2>4. \A q \in Poster : poster[q].pc = "release" => poster[q].task \in Task
    BY DEF Typed, Working
  <2>5. \A q \in Poster : poster'[q].pc = "release" => NothingLeft(poster[q].task)'
    BY <2>1, <2>2, <2>3, <2>4 DEF Executed, NothingLeft
  <2>. QED
    BY <1>3, <2>2, <2>5 DEF poster_execute, Executed, Typed, Working
<1>4. CASE poster_return(p)
  <2>1. poster[p].task \in Task /\ NothingLeft(poster[p].task)
    BY <1>4 DEF poster_return, Typed, Working, Executed
  <2>2. \A u : NothingLeft(u)' = NothingLeft(u)
    BY <1>4, Refused DEF poster_return
  <2>3. \A u \in Task : life'[u] = "freed" => NothingLeft(u)
    BY <1>4, <2>1, DecRefExecuted DEF poster_return
  <2>4. \A q \in Poster : poster'[q].pc = "release" => poster'[q] = poster[q]
    BY <1>4 DEF poster_return, Typed, TypeOK
  <2>. QED
    BY <1>4, <2>2, <2>3, <2>4 DEF poster_return, Executed, counts
<1>. QED
  BY <1>1, <1>2, <1>3, <1>4 DEF PosterNext

LEMMA ManagerExecuted == Typed /\ Executed /\ Manager => Executed'
<1>. SUFFICES ASSUME Typed, Executed, Manager
              PROVE  Executed'
  OBVIOUS
<1>. USE DEF ManagerAt
<1>1. CASE /\ UNCHANGED <<life, counts, poster, worker>>
           /\ manager'.pc \notin {"dec_ref", "next"}
  BY <1>1, Refused DEF Executed, counts
<1>2. manager.pc \in {"dec_ref", "next"} => manager.task \in Task
  BY DEF Typed, Working
<1>3. wait_reset \/ wait_for_incoming_task \/ tick_quit \/ pop_all \/ reverse =>
        /\ UNCHANGED <<life, counts, poster, worker>>
        /\ manager'.pc \notin {"dec_ref", "next"}
  BY DEF wait_reset, wait_for_incoming_task, tick_quit, pop_all, reverse, taskVars,
         Typed, TypeOK
<1>4. distribute_task \/ notify \/ distribute_end =>
        /\ UNCHANGED <<life, counts, poster, worker>>
        /\ manager'.pc \notin {"dec_ref", "next"}
  BY DEF distribute_task, notify, distribute_end, taskVars, Typed, TypeOK
<1>5. ASSUME NEW t, process_job(t)
      PROVE  manager'.pc \notin {"dec_ref", "next"}
  BY <1>5 DEF process_job, Typed, TypeOK
<1>6. CASE flush_jobs
  BY <1>1, <1>5, <1>6 DEF flush_jobs
<1>7. CASE manager_execute
  <2>1. manager.task \in Task
    BY <1>7 DEF manager_execute, Typed, Working
  <2>2. /\ \A u \in Task : finished'[u] = IF NothingLeft(u)' THEN Count[u] ELSE started'[u]
        /\ \A u \in Task : NothingLeft(u) => NothingLeft(u)'
    BY <1>7, <2>1, TakeIndexFacts DEF manager_execute
  <2>3. /\ manager'.task = manager.task
        /\ manager'.pc \in {"dec_ref", "next"} => NothingLeft(manager.task)
    BY <1>7 DEF manager_execute, Typed, TypeOK
  <2>. QED
    BY <1>7, <2>1, <2>2, <2>3 DEF manager_execute, Executed, Typed, Working
<1>8. CASE manager_dec_ref
  <2>1. manager.task \in Task /\ NothingLeft(manager.task)
    BY <1>2, <1>8 DEF manager_dec_ref, Executed
  <2>2. \A u : NothingLeft(u)' = NothingLeft(u)
    BY <1>8, Refused DEF manager_dec_ref
  <2>3. \A u \in Task : life'[u] = "freed" => NothingLeft(u)
    BY <1>8, <2>1, DecRefExecuted DEF manager_dec_ref
  <2>4. manager'.task = manager.task
    BY <1>8 DEF manager_dec_ref, Typed, TypeOK
  <2>. QED
    BY <1>8, <2>1, <2>2, <2>3, <2>4 DEF manager_dec_ref, Executed, counts
<1>9. CASE flush_next
  <2>1. manager.task \in Task /\ NothingLeft(manager.task)
    BY <1>2, <1>9 DEF flush_next, Executed
  <2>2. \A u : NothingLeft(u)' = NothingLeft(u)
    BY <1>9, Refused DEF flush_next
  <2>3. \A u \in Task : life'[u] = "freed" => life[u] = "freed" \/ u = manager.task
    BY <1>9 DEF flush_next, Typed, TypeOK
  <2>4. manager'.pc \notin {"dec_ref", "next"}
    BY <1>5, <1>9 DEF flush_next
  <2>. QED
    BY <1>9, <2>1, <2>2, <2>3, <2>4 DEF flush_next, Executed, counts
<1>. QED
  BY <1>1, <1>3, <1>4, <1>6, <1>7, <1>8, <1>9 DEF Manager

LEMMA WorkerExecuted ==
  ASSUME Typed, Executed, NEW w \in Worker, WorkerNext(w)
  PROVE  Executed'
<1>. USE DEF WorkerStep, Resting
<1>1. CASE \/ run(w) \/ worker_wait(w) \/ worker_reset(w) \/ unlink_all(w) \/ do_work(w)
           \/ do_work_end(w)
  <2>1. UNCHANGED <<life, counts, poster, manager>>
    BY <1>1 DEF run, worker_wait, worker_reset, unlink_all, do_work, do_work_end, taskVars
  <2>2. worker'[w].pc # "dec_ref"
    <3>1. CASE run(w) \/ worker_wait(w) \/ worker_reset(w) \/ do_work_end(w)
      BY <3>1 DEF run, worker_wait, worker_reset, do_work_end, Typed, TypeOK
    <3>2. CASE unlink_all(w)
      BY <3>2 DEF unlink_all, Typed, TypeOK
    <3>3. CASE do_work(w)
      BY <3>3 DEF do_work, Typed, TypeOK
    <3>. QED
      BY <1>1, <3>1, <3>2, <3>3
  <2>3. \A v \in Worker \ {w} : worker'[v] = worker[v]
    BY <1>1 DEF run, worker_wait, worker_reset, unlink_all, do_work, do_work_end,
                Typed, TypeOK
  <2>. QED
    BY <2>1, <2>2, <2>3, Refused DEF Executed, counts
<1>2. CASE worker_execute(w)
  <2>1. worker[w].job \in Task
    BY <1>2 DEF worker_execute, Typed, Working
  <2>2. /\ \A u \in Task : finished'[u] = IF NothingLeft(u)' THEN Count[u] ELSE started'[u]
        /\ \A u \in Task : NothingLeft(u) => NothingLeft(u)'
    BY <1>2, <2>1, TakeIndexFacts DEF worker_execute
  <2>3. \A v \in Worker : /\ worker'[v].job = worker[v].job
                          /\ worker'[v].pc = "dec_ref" =>
                               worker[v].pc = "dec_ref" \/ (v = w /\ NothingLeft(worker[w].job))
    BY <1>2 DEF worker_execute, NothingLeft, Typed, TypeOK
  <2>4. \A v \in Worker : worker[v].pc = "dec_ref" => worker[v].job \in Task
    BY DEF Typed, Working
  <2>5. \A v \in Worker : worker[v].pc = "dec_ref" => NothingLeft(worker[v].job)
    BY DEF Executed
  <2>6. \A u \in Task : started[u] >= Count[u] => started'[u] >= Count[u]
    BY <2>2 DEF NothingLeft
  <2>7. \A v \in Worker : worker'[v].pc = "dec_ref" =>
                            started'[worker'[v].job] >= Count[worker'[v].job]
    <3>. SUFFICES ASSUME NEW v \in Worker, worker'[v].pc = "dec_ref"
                  PROVE  started'[worker[v].job] >= Count[worker[v].job]
      BY <2>3
    <3>1. NothingLeft(worker[v].job) /\ worker[v].job \in Task
      BY <2>1, <2>3, <2>4, <2>5
    <3>. QED
      BY <2>6, <3>1 DEF NothingLeft
  <2>. QED
    BY <1>2, <2>2, <2>7 DEF worker_execute, Executed, Typed, Working, NothingLeft
<1>3. CASE worker_dec_ref(w)
  <2>1. worker[w].job \in Task /\ NothingLeft(worker[w].job)
    BY <1>3 DEF worker_dec_ref, Typed, Working, Executed
  <2>2. \A u : NothingLeft(u)' = NothingLeft(u)
    BY <1>3, Refused DEF worker_dec_ref
  <2>3. \A u \in Task : life'[u] = "freed" => NothingLeft(u)
    BY <1>3, <2>1, DecRefExecuted DEF worker_dec_ref
  <2>4. \A v \in Worker : worker'[v].pc = "dec_ref" => worker'[v] = worker[v]
    BY <1>3 DEF worker_dec_ref, Typed, TypeOK
  <2>. QED
    BY <1>3, <2>2, <2>3, <2>4 DEF worker_dec_ref, Executed, counts
<1>. QED
  BY <1>1, <1>2, <1>3 DEF WorkerNext

LEMMA OtherExecuted ==
  ASSUME Typed, Executed, quit \/ Owner \/ UNCHANGED vars
  PROVE  Executed'
<1>1. UNCHANGED <<life, counts, poster, manager, worker>>
  BY DEF quit, Owner, quit_signal, quit_worker, quit_workers_end, join_workers, join,
         OwnerStep, vars, taskVars
<1>. QED
  BY <1>1, Refused DEF Executed, counts

\* A task is freed after the functor was called for every index, once, whichever threads
\* share it and however many tasks there are (gv_task_list::execute and dec_ref).
THEOREM FreedIsExecuted == Spec => []FreedIsDone
<1>1. Init => Executed
  <2>. SUFFICES ASSUME Init
                PROVE  Executed
    OBVIOUS
  <2>1. \A t \in Task : Count[t] \in Nat /\ started[t] = 0 /\ finished[t] = 0
    BY TaskAssumption DEF Init
  <2>. QED
    BY <2>1 DEF Init, Executed, NothingLeft
<1>2. Typed /\ Executed /\ [Next]_vars => Executed'
  BY PosterExecuted, ManagerExecuted, WorkerExecuted, OtherExecuted DEF Next
<1>3. Executed => FreedIsDone
  BY DEF Executed, FreedIsDone
<1>. QED
  BY <1>1, <1>2, <1>3, TypedInit, TypedStep, PTL DEF Spec

-------------------------------------------------------------------------------
(* No worker sleeps over a task. *)

\* With a task in its list a worker's event is set, or about to be, or the worker is on
\* its way from the wait to the list.
Awake ==
  \A w \in Worker :
    head[w] # Null /\ ~m_quit[w] =>
      \/ m_start_event[w]
      \/ manager.pc = "notify" /\ WorkerAt[manager.index] = w
      \/ worker[w].pc \in {"reset", "do_work"}

LEMMA AwakeStep == Typed /\ Awake /\ [Next]_vars => Awake'
<1>. SUFFICES ASSUME Typed, Awake, [Next]_vars, NEW w \in Worker,
                     head'[w] # Null, ~m_quit'[w]
              PROVE  \/ m_start_event'[w]
                     \/ manager'.pc = "notify" /\ WorkerAt[manager'.index] = w
                     \/ worker'[w].pc \in {"reset", "do_work"}
  BY DEF Awake
<1>. DEFINE Woken == \/ m_start_event[w]
                     \/ manager.pc = "notify" /\ WorkerAt[manager.index] = w
                     \/ worker[w].pc \in {"reset", "do_work"}
<1>1. head[w] # Null /\ ~m_quit[w] => Woken
  BY DEF Awake
<1>2. w # Incoming
  BY TaskAssumption
<1>3. CASE UNCHANGED <<manager, m_start_event, worker, m_quit>> /\ head'[w] = head[w]
  BY <1>1, <1>3
<1>4. ASSUME NEW p \in Poster, PosterNext(p) \/ \E t \in Task : create_task(p, t)
      PROVE  UNCHANGED <<manager, m_start_event, worker, m_quit>> /\ head'[w] = head[w]
  BY <1>2, <1>4
  DEF PosterNext, create_task, post_job, push, signal_incoming_task, poster_execute,
      poster_return, Typed, TypeOK
<1>5. CASE Manager
  <2>1. CASE distribute_task
    <3>1. total_task_count \in 0..(NumWorkers - 1)
      BY DEF Typed, TypeOK
    <3>2. /\ manager.pc = "distribute"
          /\ manager'.pc = "notify" /\ manager'.index = total_task_count
          /\ UNCHANGED <<m_start_event, worker, m_quit>>
      BY <2>1 DEF distribute_task, ManagerAt, Typed, TypeOK
    <3>3. WorkerAt[total_task_count] # w => head'[w] = head[w]
      BY <2>1 DEF distribute_task, push, Typed, TypeOK
    <3>. QED
      BY <1>1, <3>2, <3>3
  <2>2. CASE notify
    <3>1. /\ m_start_event' = [m_start_event EXCEPT ![WorkerAt[manager.index]] = TRUE]
          /\ UNCHANGED <<head, worker, m_quit>>
      BY <2>2 DEF notify, ManagerAt
    <3>2. m_start_event'[w] = (m_start_event[w] \/ WorkerAt[manager.index] = w)
      BY <3>1, ZenonT(30) DEF Typed, TypeOK
    <3>. QED
      BY <1>1, <3>1, <3>2
  <2>3. ASSUME /\ UNCHANGED <<m_start_event, worker, m_quit>> /\ head'[w] = head[w]
               /\ manager.pc # "notify"
        PROVE  \/ m_start_event'[w]
               \/ worker'[w].pc \in {"reset", "do_work"}
    BY <1>1, <2>3
  <2>4. CASE wait_reset \/ wait_for_incoming_task \/ tick_quit \/ pop_all \/ reverse
    BY <1>2, <2>3, <2>4
    DEF wait_reset, wait_for_incoming_task, tick_quit, pop_all, reverse, ManagerAt,
        Typed, TypeOK
  <2>5. CASE flush_jobs \/ distribute_end \/ manager_execute \/ manager_dec_ref \/ flush_next
    BY <2>3, <2>5
    DEF flush_jobs, distribute_end, manager_execute, manager_dec_ref, flush_next, ManagerAt
  <2>. QED
    BY <1>5, <2>1, <2>2, <2>4, <2>5 DEF Manager
<1>6. ASSUME NEW v \in Worker, WorkerNext(v)
      PROVE  \/ m_start_event'[w]
             \/ manager'.pc = "notify" /\ WorkerAt[manager'.index] = w
             \/ worker'[w].pc \in {"reset", "do_work"}
  <2>1. UNCHANGED <<manager, m_quit>>
    BY <1>6 DEF WorkerNext, run, worker_wait, worker_reset, unlink_all, do_work, do_work_end,
                worker_execute, worker_dec_ref, WorkerStep
  <2>2. CASE v # w
    <3>1. m_start_event'[w] = m_start_event[w]
      BY <1>6, <2>2 DEF WorkerNext, run, worker_wait, worker_reset, unlink_all, do_work,
                        do_work_end, worker_execute, worker_dec_ref, WorkerStep,
                        Typed, TypeOK
    <3>2. head'[w] = head[w]
      BY <1>6, <2>2 DEF WorkerNext, run, worker_wait, worker_reset, unlink_all, do_work,
                        do_work_end, worker_execute, worker_dec_ref, WorkerStep,
                        Typed, TypeOK
    <3>3. worker'[w] = worker[w]
      BY <1>6, <2>2 DEF WorkerNext, run, worker_wait, worker_reset, unlink_all, do_work,
                        do_work_end, worker_execute, worker_dec_ref, WorkerStep,
                        Typed, TypeOK
    <3>. QED
      BY <1>1, <2>1, <3>1, <3>2, <3>3
  <2>3. CASE v = w
    <3>1. CASE worker_wait(w) \/ worker_reset(w)
      BY <3>1 DEF worker_wait, worker_reset, WorkerStep, Resting, Typed, TypeOK
    <3>2. CASE unlink_all(w)
      BY <2>1, <3>2 DEF unlink_all, Typed, TypeOK
    <3>3. CASE \/ run(w) \/ do_work(w) \/ do_work_end(w) \/ worker_execute(w)
               \/ worker_dec_ref(w)
      <4>1. UNCHANGED <<head, m_start_event>> /\ worker[w].pc \notin {"reset", "do_work"}
        BY <3>3 DEF run, do_work, do_work_end, worker_execute, worker_dec_ref, WorkerStep
      <4>. QED
        BY <1>1, <2>1, <4>1
    <3>. QED
      BY <1>6, <2>3, <3>1, <3>2, <3>3 DEF WorkerNext
  <2>. QED
    BY <2>2, <2>3
<1>7. CASE quit \/ Owner
  <2>1. UNCHANGED <<head, manager, worker>>
    BY <1>7 DEF quit, Owner, quit_signal, quit_worker, quit_workers_end, join_workers, join,
                OwnerStep
  <2>2. ASSUME NEW v \in Worker, quit_worker(v)
        PROVE  /\ m_quit' = [m_quit EXCEPT ![v] = TRUE]
               /\ m_start_event' = [m_start_event EXCEPT ![v] = TRUE]
    BY <2>2 DEF quit_worker
  <2>3. ASSUME NEW v \in Worker, quit_worker(v)
        PROVE  m_quit'[w] = m_quit[w] /\ m_start_event'[w] = m_start_event[w]
    BY <2>2, <2>3, ZenonT(30) DEF Typed, TypeOK
  <2>4. quit \/ quit_signal \/ quit_workers_end \/ join_workers \/ join =>
          UNCHANGED <<m_quit, m_start_event>>
    BY DEF quit, quit_signal, quit_workers_end, join_workers, join
  <2>. QED
    BY <1>1, <1>7, <2>1, <2>3, <2>4 DEF Owner
<1>8. CASE UNCHANGED vars
  BY <1>3, <1>8 DEF vars
<1>. QED
  BY <1>3, <1>4, <1>5, <1>6, <1>7, <1>8 DEF Next

\* A worker that sleeps with a task in its list is woken: the set that the automatic reset
\* loses came before the list was taken (gv_task_worker::run, gv_event_ansi::wait).
THEOREM NoneSleepsOverATask == Spec => []WorkerAwake
<1>1. Init => Awake
  BY DEF Init, Awake
<1>2. Typed /\ Awake => WorkerAwake
  BY DEF Typed, TypeOK, Awake, WorkerAwake
<1>. QED
  BY <1>1, <1>2, AwakeStep, TypedInit, TypedStep, PTL DEF Spec

-------------------------------------------------------------------------------
(* With one task in flight nobody works on a freed task. *)

\* One task in flight, and every index has a worker of its own (m_workers).
OneAtATime == MaxInFlight <= 1
OwnWorkers ==
  \A i, j \in 0..(NumWorkers - 1) : WorkerAt[i] = WorkerAt[j] => i = j

\* The places of a task that waits to be distributed.
Queued(t) ==
  {<<"post", p>> : p \in {q \in Poster : poster[q].pc = "post" /\ poster[q].task = t}}
  \cup {x \in {<<"incoming", Null>>} : head[Incoming] = t}
  \cup {x \in {<<"rest", Null>>} : manager.rest = t}
  \cup {x \in {<<"first", Null>>} : manager.first = t}

\* Who holds a reference to a task: who queued it, whose place in the queue and then in
\* process_job one reference counts for, flush_jobs, the lists and the workers.
Holders(t) ==
  Queued(t)
  \cup {<<"poster", p>> : p \in {q \in Poster : poster[q].task = t}}
  \cup {x \in {<<"flush", Null>>} : manager.task = t}
  \cup {x \in {<<"process", Null>>} : manager.task = t /\ manager.pc # "next"}
  \cup {<<"list", w>> : w \in {v \in Worker : head[v] = t}}
  \cup {<<"job", w>> : w \in {v \in Worker : worker[v].job = t}}

\* One task is live, so no list has two.
Alone ==
  /\ IsFiniteSet(InFlight)
  /\ \A t, u \in InFlight : t = u
  /\ \A t \in Task : next[t] = Null
  /\ \A w \in Worker : worker[w].next = Null

\* A quitting worker forgets what it holds, so the references may be more.
Counted ==
  \A t \in Task :
    IF life[t] = "live"
    THEN IsFiniteSet(Holders(t)) /\ Cardinality(Holders(t)) <= ref[t]
    ELSE Holders(t) = {}

\* The workers the manager has still to give its task to.
ToCome ==
  {i \in 0..(NumWorkers - 1) :
     \/ total_task_count <= i /\ i < total_task_count + manager.left
     \/ i + NumWorkers < total_task_count + manager.left}

\* A task is in one place of the queue, then with the manager, and only then in lists.
Distributing ==
  /\ \A t \in Task :
       /\ \A x, y \in Queued(t) : x = y
       /\ Queued(t) # {} => manager.task # t /\ \A w \in Worker : head[w] # t
  /\ manager.pc \in {"distribute", "notify"} =>
       manager.left <= NumWorkers /\ \A i \in ToCome : head[WorkerAt[i]] = Null

\* A thread that has no business with a task names none.
Resigned ==
  /\ manager.pc \notin {"distribute", "notify", "execute", "dec_ref", "next"} =>
       manager.task = Null
  /\ manager.pc # "reverse" => manager.first = Null /\ manager.rest = Null
  /\ \A p \in Poster : poster[p].pc = "idle" => poster[p].task = Null
  /\ \A w \in Worker : worker[w].pc \notin {"job", "execute", "dec_ref"} =>
                         worker[w].job = Null

Held == Alone /\ Counted /\ Distributing /\ Resigned

-------------------------------------------------------------------------------
LEMMA SetBounds ==
  ASSUME NEW H, IsFiniteSet(H), NEW G
  PROVE  /\ G \subseteq H => IsFiniteSet(G) /\ Cardinality(G) <= Cardinality(H)
         /\ \A y : G \subseteq H \cup {y} =>
              IsFiniteSet(G) /\ Cardinality(G) <= Cardinality(H) + 1
         /\ \A x \in H : G \subseteq H \ {x} =>
              IsFiniteSet(G) /\ Cardinality(G) <= Cardinality(H) - 1
         /\ \A x \in H : \A y : G \subseteq (H \ {x}) \cup {y} =>
              IsFiniteSet(G) /\ Cardinality(G) <= Cardinality(H)
         /\ \A x \in H : \A y, z : G \subseteq (H \ {x}) \cup {y, z} =>
              IsFiniteSet(G) /\ Cardinality(G) <= Cardinality(H) + 1
<1>1. \A S, T : IsFiniteSet(S) /\ T \subseteq S =>
                  IsFiniteSet(T) /\ Cardinality(T) <= Cardinality(S)
  BY FS_Subset
<1>2. \A S, y : IsFiniteSet(S) =>
                  IsFiniteSet(S \cup {y}) /\ Cardinality(S \cup {y}) <= Cardinality(S) + 1
  <2>. SUFFICES ASSUME NEW S, NEW y, IsFiniteSet(S)
                PROVE  /\ IsFiniteSet(S \cup {y})
                       /\ Cardinality(S \cup {y}) <= Cardinality(S) + 1
    OBVIOUS
  <2>1. Cardinality(S) \in Nat
    BY FS_CardinalityType
  <2>2. /\ IsFiniteSet(S \cup {y})
        /\ Cardinality(S \cup {y}) = IF y \in S THEN Cardinality(S) ELSE Cardinality(S) + 1
    BY FS_AddElement
  <2>. QED
    BY <2>1, <2>2
<1>3. \A S, x : IsFiniteSet(S) /\ x \in S =>
                  IsFiniteSet(S \ {x}) /\ Cardinality(S \ {x}) = Cardinality(S) - 1
  BY FS_RemoveElement
<1>4. \A S : IsFiniteSet(S) => Cardinality(S) \in Nat
  BY FS_CardinalityType
<1>5. G \subseteq H => IsFiniteSet(G) /\ Cardinality(G) <= Cardinality(H)
  BY <1>1
<1>6. ASSUME NEW y, G \subseteq H \cup {y}
      PROVE  IsFiniteSet(G) /\ Cardinality(G) <= Cardinality(H) + 1
  <2>1. IsFiniteSet(H \cup {y}) /\ Cardinality(H \cup {y}) <= Cardinality(H) + 1
    BY <1>2
  <2>2. IsFiniteSet(G) /\ Cardinality(G) <= Cardinality(H \cup {y})
    BY <1>1, <1>6, <2>1
  <2>. QED
    BY <1>4, <2>1, <2>2
<1>7. ASSUME NEW x \in H, G \subseteq H \ {x}
      PROVE  IsFiniteSet(G) /\ Cardinality(G) <= Cardinality(H) - 1
  <2>1. IsFiniteSet(H \ {x}) /\ Cardinality(H \ {x}) = Cardinality(H) - 1
    BY <1>3
  <2>. QED
    BY <1>1, <1>7, <2>1
<1>8. ASSUME NEW x \in H, NEW y, G \subseteq (H \ {x}) \cup {y}
      PROVE  IsFiniteSet(G) /\ Cardinality(G) <= Cardinality(H)
  <2>. DEFINE B == H \ {x}
              C == B \cup {y}
  <2>1. IsFiniteSet(B) /\ Cardinality(B) = Cardinality(H) - 1
    BY <1>3
  <2>2. IsFiniteSet(C) /\ Cardinality(C) <= Cardinality(B) + 1
    BY <1>2, <2>1
  <2>3. G \subseteq C
    BY <1>8
  <2>. HIDE DEF B, C
  <2>4. IsFiniteSet(G) /\ Cardinality(G) <= Cardinality(C)
    BY <1>1, <2>2, <2>3
  <2>. QED
    BY <1>4, <2>1, <2>2, <2>4
<1>9. ASSUME NEW x \in H, NEW y, NEW z, G \subseteq (H \ {x}) \cup {y, z}
      PROVE  IsFiniteSet(G) /\ Cardinality(G) <= Cardinality(H) + 1
  <2>. DEFINE B == H \ {x}
              C == B \cup {y}
              D == C \cup {z}
  <2>1. IsFiniteSet(B) /\ Cardinality(B) = Cardinality(H) - 1
    BY <1>3
  <2>2. IsFiniteSet(C) /\ Cardinality(C) <= Cardinality(B) + 1
    BY <1>2, <2>1
  <2>3. IsFiniteSet(D) /\ Cardinality(D) <= Cardinality(C) + 1
    BY <1>2, <2>2
  <2>4. G \subseteq D
    BY <1>9
  <2>. HIDE DEF B, C, D
  <2>5. IsFiniteSet(G) /\ Cardinality(G) <= Cardinality(D)
    BY <1>1, <2>3, <2>4
  <2>. QED
    BY <1>4, <2>1, <2>2, <2>3, <2>5
<1>. QED
  BY <1>5, <1>6, <1>7, <1>8, <1>9

LEMMA HeldIsLive ==
  ASSUME Counted, NEW t \in Task, Holders(t) # {}
  PROVE  life[t] = "live"
BY DEF Counted

\* What a step may do to the references of the tasks.
LEMMA CountedSame ==
  ASSUME Typed, Counted, UNCHANGED <<ref, life>>,
         \A t \in Task : Holders(t)' \subseteq Holders(t)
  PROVE  Counted'
<1>. SUFFICES ASSUME NEW t \in Task
              PROVE  IF life[t] = "live"
                     THEN IsFiniteSet(Holders(t)') /\ Cardinality(Holders(t)') <= ref[t]
                     ELSE Holders(t)' = {}
  BY DEF Counted
<1>1. Holders(t)' \subseteq Holders(t)
  OBVIOUS
<1>2. CASE life[t] = "live"
  <2>1. IsFiniteSet(Holders(t)) /\ Cardinality(Holders(t)) <= ref[t] /\ ref[t] \in Int
    BY <1>2 DEF Counted, Typed, TypeOK
  <2>2. Cardinality(Holders(t)) \in Nat
    BY <2>1, FS_CardinalityType
  <2>3. IsFiniteSet(Holders(t)') /\ Cardinality(Holders(t)') <= Cardinality(Holders(t))
    BY <1>1, <2>1, SetBounds
  <2>4. Cardinality(Holders(t)') \in Nat
    BY <2>3, FS_CardinalityType
  <2>. QED
    BY <1>2, <2>1, <2>2, <2>3, <2>4
<1>3. CASE life[t] # "live"
  BY <1>1, <1>3 DEF Counted
<1>. QED
  BY <1>2, <1>3

LEMMA CountedChange ==
  ASSUME Counted, NEW t \in Task,
         \A u \in Task \ {t} : /\ Holders(u)' \subseteq Holders(u)
                               /\ ref'[u] = ref[u] /\ life'[u] = life[u],
         ref \in [Task -> Int],
         IF life'[t] = "live"
         THEN IsFiniteSet(Holders(t)') /\ Cardinality(Holders(t)') <= ref'[t]
         ELSE Holders(t)' = {}
  PROVE  Counted'
<1>. SUFFICES ASSUME NEW u \in Task, u # t
              PROVE  IF life'[u] = "live"
                     THEN IsFiniteSet(Holders(u)') /\ Cardinality(Holders(u)') <= ref'[u]
                     ELSE Holders(u)' = {}
  BY DEF Counted
<1>1. Holders(u)' \subseteq Holders(u) /\ ref'[u] = ref[u] /\ life'[u] = life[u]
  OBVIOUS
<1>2. CASE life[u] = "live"
  <2>1. IsFiniteSet(Holders(u)) /\ Cardinality(Holders(u)) <= ref[u] /\ ref[u] \in Int
    BY <1>2 DEF Counted
  <2>2. Cardinality(Holders(u)) \in Nat
    BY <2>1, FS_CardinalityType
  <2>3. IsFiniteSet(Holders(u)') /\ Cardinality(Holders(u)') <= Cardinality(Holders(u))
    BY <1>1, <2>1, SetBounds
  <2>4. Cardinality(Holders(u)') \in Nat
    BY <2>3, FS_CardinalityType
  <2>. QED
    BY <1>1, <1>2, <2>1, <2>2, <2>3, <2>4
<1>3. CASE life[u] # "live"
  BY <1>1, <1>3 DEF Counted
<1>. QED
  BY <1>2, <1>3

\* A reference goes from one holder to another.
LEMMA CountedMove ==
  ASSUME Typed, Counted, UNCHANGED <<ref, life>>, NEW t \in Task,
         \A u \in Task \ {t} : Holders(u)' \subseteq Holders(u),
         NEW x \in Holders(t), NEW y, Holders(t)' \subseteq (Holders(t) \ {x}) \cup {y}
  PROVE  Counted'
<1>1. life[t] = "live"
  BY HeldIsLive
<1>2. IsFiniteSet(Holders(t)) /\ Cardinality(Holders(t)) <= ref[t] /\ ref \in [Task -> Int]
  BY <1>1 DEF Counted, Typed, TypeOK
<1>3. IsFiniteSet(Holders(t)') /\ Cardinality(Holders(t)') <= Cardinality(Holders(t))
  BY <1>2, SetBounds
<1>4. Cardinality(Holders(t)) \in Nat /\ Cardinality(Holders(t)') \in Nat
  BY <1>2, <1>3, FS_CardinalityType
<1>5. Cardinality(Holders(t)') <= ref'[t] /\ life'[t] = "live"
  BY <1>1, <1>2, <1>3, <1>4
<1>. QED
  BY <1>2, <1>3, <1>5, CountedChange

\* One holder more, and its reference is counted.
LEMMA CountedTake ==
  ASSUME Typed, Counted, UNCHANGED life, NEW t \in Task, inc_ref(t), Holders(t) # {},
         \A u \in Task \ {t} : Holders(u)' \subseteq Holders(u),
         \/ \E y : Holders(t)' \subseteq Holders(t) \cup {y}
         \/ \E x \in Holders(t) : \E y, z : Holders(t)' \subseteq (Holders(t) \ {x}) \cup {y, z}
  PROVE  Counted'
<1>1. life[t] = "live"
  BY HeldIsLive
<1>2. IsFiniteSet(Holders(t)) /\ Cardinality(Holders(t)) <= ref[t] /\ ref \in [Task -> Int]
  BY <1>1 DEF Counted, Typed, TypeOK
<1>3. IsFiniteSet(Holders(t)') /\ Cardinality(Holders(t)') <= Cardinality(Holders(t)) + 1
  BY <1>2, SetBounds
<1>4. Cardinality(Holders(t)) \in Nat /\ Cardinality(Holders(t)') \in Nat
  BY <1>2, <1>3, FS_CardinalityType
<1>5. ref'[t] = ref[t] + 1 /\ \A u \in Task \ {t} : ref'[u] = ref[u]
  BY <1>2 DEF inc_ref
<1>6. Cardinality(Holders(t)') <= ref'[t] /\ life'[t] = "live"
  BY <1>1, <1>2, <1>3, <1>4, <1>5
<1>. QED
  BY <1>2, <1>3, <1>5, <1>6, CountedChange

\* A holder less, and the task is freed with the last.
LEMMA CountedRelease ==
  ASSUME Typed, Counted, NEW t \in Task,
         ref' = [ref EXCEPT ![t] = @ - 1],
         life' = [life EXCEPT ![t] = IF ref[t] = 1 THEN "freed" ELSE @],
         \A u \in Task \ {t} : Holders(u)' \subseteq Holders(u),
         NEW x \in Holders(t), Holders(t)' \subseteq Holders(t) \ {x}
  PROVE  Counted'
<1>1. life[t] = "live"
  BY HeldIsLive
<1>2. /\ IsFiniteSet(Holders(t)) /\ Cardinality(Holders(t)) <= ref[t]
      /\ ref \in [Task -> Int] /\ life \in [Task -> {"new", "live", "freed"}]
  BY <1>1 DEF Counted, Typed, TypeOK
<1>3. IsFiniteSet(Holders(t)') /\ Cardinality(Holders(t)') <= Cardinality(Holders(t)) - 1
  BY <1>2, SetBounds
<1>4. Cardinality(Holders(t)) \in Nat /\ Cardinality(Holders(t)') \in Nat
  BY <1>2, <1>3, FS_CardinalityType
<1>5. /\ ref'[t] = ref[t] - 1 /\ \A u \in Task \ {t} : ref'[u] = ref[u] /\ life'[u] = life[u]
      /\ life'[t] = IF ref[t] = 1 THEN "freed" ELSE "live"
  BY <1>1, <1>2
<1>6. Cardinality(Holders(t)') <= ref'[t]
  BY <1>2, <1>3, <1>4, <1>5
<1>7. CASE ref[t] = 1
  <2>1. Cardinality(Holders(t)') = 0
    BY <1>2, <1>4, <1>5, <1>6, <1>7
  <2>2. Holders(t)' = {}
    BY <1>3, <2>1, FS_EmptySet
  <2>. QED
    BY <1>2, <1>5, <1>7, <2>2, CountedChange
<1>8. CASE ref[t] # 1
  BY <1>2, <1>3, <1>5, <1>6, <1>8, CountedChange
<1>. QED
  BY <1>7, <1>8

-------------------------------------------------------------------------------
LEMMA HeldInit == Init => Held
<1>. SUFFICES ASSUME Init
              PROVE  Held
  OBVIOUS
<1>1. \A t \in Task : t # Null
  BY TaskAssumption
<1>2. \A t \in Task : Queued(t) = {} /\ Holders(t) = {}
  BY <1>1 DEF Init, Queued, Holders
<1>3. InFlight = {}
  BY DEF Init, InFlight
<1>4. Alone
  BY <1>3, FS_EmptySet DEF Init, Alone
<1>5. Counted
  BY <1>2 DEF Init, Counted
<1>6. Distributing /\ Resigned
  BY <1>2 DEF Init, Distributing, Resigned
<1>. QED
  BY <1>4, <1>5, <1>6 DEF Held

\* Who names a task holds it.
LEMMA Holding ==
  ASSUME Typed, NEW t \in Task
  PROVE  /\ \A l \in Worker \cup {Incoming} : head[l] = t => Holders(t) # {}
         /\ t \in {manager.task, manager.first, manager.rest} => Holders(t) # {}
         /\ \A w \in Worker : worker[w].job = t => Holders(t) # {}
         /\ \A p \in Poster : poster[p].task = t => Holders(t) # {}
BY DEF Holders, Queued

\* With one task live, a list that holds any task holds this one.
LEMMA OnlyOne ==
  ASSUME Typed, Alone, Counted, NEW t \in Task, Holders(t) # {},
         NEW u \in Task, Holders(u) # {}
  PROVE  u = t
BY HeldIsLive DEF Alone, InFlight

LEMMA NamesOnlyOne ==
  ASSUME Typed, Alone, Counted, NEW t \in Task, Holders(t) # {}
  PROVE  /\ \A l \in Worker \cup {Incoming} : head[l] \in {t, Null}
         /\ {manager.task, manager.first, manager.rest} \subseteq {t, Null}
         /\ \A w \in Worker : worker[w].job \in {t, Null}
         /\ \A p \in Poster : poster[p].task \in {t, Null}
<1>1. \A u \in Task : Holders(u) # {} => u = t
  BY OnlyOne
<1>2. \A l \in Worker \cup {Incoming} : head[l] \in Pointer
  BY DEF Typed, TypeOK
<1>3. {manager.task, manager.first, manager.rest} \subseteq Pointer
  BY DEF Typed, TypeOK
<1>4. \A w \in Worker : worker[w].job \in Pointer
  BY DEF Typed, TypeOK
<1>5. \A p \in Poster : poster[p].task \in Pointer
  BY DEF Typed, TypeOK
<1>6. \A l \in Worker \cup {Incoming} : head[l] \in {t, Null}
  BY <1>1, <1>2, Holding DEF Pointer
<1>7. {manager.task, manager.first, manager.rest} \subseteq {t, Null}
  BY <1>1, <1>3, Holding DEF Pointer
<1>8. \A w \in Worker : worker[w].job \in {t, Null}
  BY <1>1, <1>4, Holding DEF Pointer
<1>9. \A p \in Poster : poster[p].task \in {t, Null}
  BY <1>1, <1>5, Holding DEF Pointer
<1>. QED
  BY <1>6, <1>7, <1>8, <1>9

\* What the holders of a task depend on.
LEMMA HoldersSame ==
  ASSUME NEW t,
         \A p \in Poster : /\ poster'[p].task = poster[p].task
                           /\ poster'[p].pc = "post" <=> poster[p].pc = "post",
         UNCHANGED head,
         /\ manager'.task = manager.task /\ manager'.first = manager.first
         /\ manager'.rest = manager.rest /\ (manager'.pc = "next" <=> manager.pc = "next"),
         \A w \in Worker : worker'[w].job = worker[w].job
  PROVE  Queued(t)' = Queued(t) /\ Holders(t)' = Holders(t)
<1>1. {p \in Poster : poster'[p].pc = "post" /\ poster'[p].task = t}
        = {p \in Poster : poster[p].pc = "post" /\ poster[p].task = t}
  OBVIOUS
<1>2. {p \in Poster : poster'[p].task = t} = {p \in Poster : poster[p].task = t}
  OBVIOUS
<1>3. {w \in Worker : worker'[w].job = t} = {w \in Worker : worker[w].job = t}
  OBVIOUS
<1>4. Queued(t)' = Queued(t)
  BY <1>1 DEF Queued
<1>. HIDE DEF Queued
<1>. QED
  BY <1>2, <1>3, <1>4 DEF Holders

\* A step that changes no holder, no list and no reference.
LEMMA HeldSame ==
  ASSUME Typed, Held, UNCHANGED <<head, next, ref, life, total_task_count>>,
         \A p \in Poster : /\ poster'[p].task = poster[p].task
                           /\ poster'[p].pc = "post" <=> poster[p].pc = "post"
                           /\ poster'[p].pc = "idle" <=> poster[p].pc = "idle",
         /\ manager'.task = manager.task /\ manager'.first = manager.first
         /\ manager'.rest = manager.rest /\ (manager'.pc = "next" <=> manager.pc = "next")
         /\ manager'.left = manager.left,
         manager'.pc \in {"distribute", "notify"} => manager.pc \in {"distribute", "notify"},
         manager.pc \in {"distribute", "notify", "execute", "dec_ref", "next"} <=>
           manager'.pc \in {"distribute", "notify", "execute", "dec_ref", "next"},
         manager.pc = "reverse" <=> manager'.pc = "reverse",
         \A w \in Worker : /\ worker'[w].job = worker[w].job
                           /\ worker'[w].next = worker[w].next
                           /\ worker[w].pc \in {"job", "execute", "dec_ref"} <=>
                                worker'[w].pc \in {"job", "execute", "dec_ref"}
  PROVE  Held'
<1>1. \A t \in Task : Queued(t)' = Queued(t) /\ Holders(t)' = Holders(t)
  BY HoldersSame
<1>2. Alone'
  BY DEF Held, Alone, InFlight
<1>3. Counted'
  BY <1>1, CountedSame DEF Held
<1>4. Distributing'
  <2>1. ToCome' = ToCome
    BY DEF ToCome
  <2>. QED
    BY <1>1, <2>1 DEF Held, Distributing
<1>5. Resigned'
  <2>1. /\ manager'.pc \notin {"distribute", "notify", "execute", "dec_ref", "next"} =>
             manager'.task = Null
        /\ manager'.pc # "reverse" => manager'.first = Null /\ manager'.rest = Null
    BY DEF Held, Resigned
  <2>2. \A p \in Poster : poster'[p].pc = "idle" => poster'[p].task = Null
    BY DEF Held, Resigned
  <2>3. \A w \in Worker : worker'[w].pc \notin {"job", "execute", "dec_ref"} =>
                           worker'[w].job = Null
    <3>1. \A w \in Worker : worker[w].pc \notin {"job", "execute", "dec_ref"} =>
                             worker[w].job = Null
      BY DEF Held, Resigned
    <3>. QED
      BY <3>1
  <2>. QED
    BY <2>1, <2>2, <2>3 DEF Resigned
<1>. QED
  BY <1>2, <1>3, <1>4, <1>5 DEF Held
LEMMA CreateHeld ==
  ASSUME Typed, Held, OneAtATime, NEW p \in Poster, NEW t \in Task, create_task(p, t)
  PROVE  Held'
<1>. USE DEF Held
<1>1. /\ poster[p].pc = "idle" /\ life[t] = "new" /\ Cardinality(InFlight) < MaxInFlight
      /\ life' = [life EXCEPT ![t] = "live"] /\ ref' = [ref EXCEPT ![t] = 2]
      /\ poster' = [poster EXCEPT ![p] = [pc |-> "post", task |-> t]]
      /\ UNCHANGED <<head, next, manager, worker, total_task_count>>
  BY DEF create_task
<1>2. t # Null
  BY TaskAssumption
<1>3. poster'[p] = [pc |-> "post", task |-> t] /\ \A q \in Poster \ {p} : poster'[q] = poster[q]
  BY <1>1 DEF Typed, TypeOK
<1>4. InFlight = {}
  <2>1. MaxInFlight \in Nat /\ MaxInFlight <= 1
    BY TaskAssumption DEF OneAtATime
  <2>2. IsFiniteSet(InFlight)
    BY DEF Alone
  <2>3. Cardinality(InFlight) \in Nat
    BY <2>2, FS_CardinalityType
  <2>4. Cardinality(InFlight) = 0
    BY <1>1, <2>1, <2>3
  <2>. QED
    BY <2>2, <2>4, FS_EmptySet
<1>5. \A u \in Task : Holders(u) = {} /\ Queued(u) = {}
  <2>1. \A u \in Task : life[u] # "live"
    BY <1>4 DEF InFlight
  <2>2. \A u \in Task : Queued(u) \subseteq Holders(u)
    BY DEF Holders
  <2>. QED
    BY <2>1, <2>2 DEF Counted
<1>6. \A u \in Task \ {t} : Holders(u)' = {} /\ Queued(u)' = {}
  <2>. SUFFICES ASSUME NEW u \in Task \ {t}
                PROVE  Holders(u)' = {} /\ Queued(u)' = {}
    OBVIOUS
  <2>1. \A q \in Poster : poster[q].task # u
    BY <1>5, Holding
  <2>2. \A q \in Poster : poster'[q].task # u
    BY <1>3, <2>1
  <2>3. Queued(u)' = {}
    BY <1>1, <1>5, <2>2 DEF Queued
  <2>. QED
    BY <1>1, <1>5, <2>2, <2>3 DEF Holders
<1>7. \A q \in Poster \ {p} : poster'[q].task # t
  <2>1. \A q \in Poster : poster[q].task # t
    BY <1>5, Holding
  <2>. QED
    BY <1>3, <2>1
<1>8. Queued(t)' \subseteq {<<"post", p>>}
  BY <1>1, <1>5, <1>7 DEF Queued
<1>9. Holders(t)' \subseteq {<<"poster", p>>, <<"post", p>>}
  BY <1>1, <1>5, <1>7, <1>8 DEF Holders
<1>10. Alone'
  <2>1. InFlight' = {t}
    BY <1>1, <1>4 DEF InFlight, Typed, TypeOK
  <2>. QED
    BY <1>1, <2>1, FS_Singleton DEF Alone
<1>11. Counted'
  <2>. DEFINE G == Holders(t)'
  <2>1. IsFiniteSet({<<"poster", p>>}) /\ Cardinality({<<"poster", p>>}) = 1
    BY FS_Singleton
  <2>2. G \subseteq {<<"poster", p>>} \cup {<<"post", p>>}
    BY <1>9
  <2>. HIDE DEF G
  <2>3. IsFiniteSet(G) /\ Cardinality(G) <= 1 + 1
    BY <2>1, <2>2, SetBounds
  <2>4. IsFiniteSet(G) /\ Cardinality(G) <= 2
    BY <2>3, FS_CardinalityType
  <2>5. IsFiniteSet(Holders(t)') /\ Cardinality(Holders(t)') <= 2
    BY <2>4 DEF G
  <2>6. ref'[t] = 2 /\ life'[t] = "live" /\ ref \in [Task -> Int]
    BY <1>1 DEF Typed, TypeOK
  <2>7. \A u \in Task \ {t} : /\ Holders(u)' \subseteq Holders(u)
                              /\ ref'[u] = ref[u] /\ life'[u] = life[u]
    BY <1>1, <1>6 DEF Typed, TypeOK
  <2>. QED
    BY <2>5, <2>6, <2>7, CountedChange
<1>12. Distributing'
  <2>1. manager.task # t /\ \A w \in Worker : head[w] # t
    BY <1>5, Holding
  <2>2. ToCome' = ToCome
    BY <1>1 DEF ToCome
  <2>. QED
    BY <1>1, <1>6, <1>8, <2>1, <2>2 DEF Distributing
<1>13. Resigned'
  BY <1>1, <1>3 DEF Resigned
<1>. QED
  BY <1>10, <1>11, <1>12, <1>13

\* A task that waits in the queue is in one place, and no other list holds any.
LEMMA QueuedAlone ==
  ASSUME Typed, Held, NEW t \in Task, NEW x \in Queued(t)
  PROVE  /\ Queued(t) = {x}
         /\ \A u \in Task \ {t} : Holders(u) = {} /\ Queued(u) = {}
         /\ \A w \in Worker : head[w] = Null
         /\ manager.task = Null
         /\ x # <<"incoming", Null>> => head[Incoming] = Null
         /\ x # <<"rest", Null>> => manager.rest = Null
         /\ x # <<"first", Null>> => manager.first = Null
<1>. USE DEF Held
<1>1. Queued(t) = {x} /\ manager.task # t /\ \A w \in Worker : head[w] # t
  BY DEF Distributing
<1>2. \A u \in Task : Queued(u) \subseteq Holders(u)
  BY DEF Holders
<1>3. Holders(t) # {}
  BY <1>2
<1>4. \A u \in Task \ {t} : Holders(u) = {} /\ Queued(u) = {}
  BY <1>2, <1>3, OnlyOne
<1>5. /\ \A l \in Worker \cup {Incoming} : head[l] \in {t, Null}
      /\ {manager.task, manager.first, manager.rest} \subseteq {t, Null}
  BY <1>3, NamesOnlyOne
<1>6. /\ head[Incoming] = t => <<"incoming", Null>> \in Queued(t)
      /\ manager.rest = t => <<"rest", Null>> \in Queued(t)
      /\ manager.first = t => <<"first", Null>> \in Queued(t)
  BY DEF Queued
<1>. QED
  BY <1>1, <1>4, <1>5, <1>6
LEMMA PosterHeld ==
  ASSUME Typed, Held, NEW p \in Poster, PosterNext(p)
  PROVE  Held'
<1>. USE DEF Held
<1>1. CASE post_job(p)
  <2>0. PICK t \in Task : t = poster[p].task
    BY <1>1 DEF post_job, Typed, Working
  <2>1. t \in Task /\ poster[p].pc = "post"
    BY <1>1 DEF post_job
  <2>2. <<"post", p>> \in Queued(t)
    BY <2>0, <2>1 DEF Queued
  <2>3. /\ Queued(t) = {<<"post", p>>}
        /\ \A u \in Task \ {t} : Holders(u) = {} /\ Queued(u) = {}
        /\ \A w \in Worker : head[w] = Null
        /\ manager.task = Null /\ head[Incoming] = Null
        /\ manager.rest = Null /\ manager.first = Null
    BY <2>1, <2>2, QueuedAlone
  <2>4. /\ head' = [head EXCEPT ![Incoming] = t]
        /\ next' = [next EXCEPT ![t] = Null]
        /\ poster' = [poster EXCEPT ![p].pc = "signal"]
        /\ UNCHANGED <<ref, life, manager, worker, total_task_count>>
    BY <1>1, <2>0, <2>3 DEF post_job, push, taskVars
  <2>5. /\ head'[Incoming] = t /\ \A w \in Worker : head'[w] = Null
        /\ poster'[p] = [pc |-> "signal", task |-> t]
        /\ \A q \in Poster \ {p} : poster'[q] = poster[q]
    BY <2>0, <2>3, <2>4, TaskAssumption DEF Typed, TypeOK
  <2>6. t # Null
    BY <2>1, TaskAssumption
  <2>7. \A q \in Poster : poster'[q].pc = "post" => poster'[q].task # t
    <3>1. \A q \in Poster \ {p} : poster[q].pc = "post" => poster[q].task # t
      <4>. SUFFICES ASSUME NEW q \in Poster \ {p}, poster[q].pc = "post", poster[q].task = t
                    PROVE  FALSE
        OBVIOUS
      <4>1. <<"post", q>> \in Queued(t)
        BY DEF Queued
      <4>2. <<"post", q>> = <<"post", p>>
        BY <2>3, <4>1
      <4>. QED
        BY <4>2
    <3>. QED
      BY <2>5, <3>1
  <2>8. Queued(t)' = {<<"incoming", Null>>}
    BY <2>3, <2>4, <2>5, <2>6, <2>7 DEF Queued
  <2>9. Holders(t)' \subseteq (Holders(t) \ {<<"post", p>>}) \cup {<<"incoming", Null>>}
    <3>1. \A q \in Poster : poster'[q].task = t => poster[q].task = t
      BY <2>0, <2>5
    <3>. QED
      BY <2>3, <2>4, <2>5, <2>6, <2>8, <3>1 DEF Holders
  <2>10. \A u \in Task \ {t} : Holders(u)' = {} /\ Queued(u)' = {}
    <3>. SUFFICES ASSUME NEW u \in Task \ {t}
                  PROVE  Holders(u)' = {} /\ Queued(u)' = {}
      OBVIOUS
    <3>1. \A q \in Poster : poster[q].task # u
      BY <2>3, Holding
    <3>2. \A q \in Poster : poster'[q].task # u
      BY <2>0, <2>5, <3>1
    <3>3. u # Null
      BY TaskAssumption
    <3>4. Queued(u)' = {}
      BY <2>3, <2>4, <2>5, <3>2, <3>3 DEF Queued
    <3>. QED
      BY <2>3, <2>4, <2>5, <3>2, <3>3, <3>4 DEF Holders
  <2>11. Alone'
    <3>1. InFlight' = InFlight
      BY <2>4 DEF InFlight
    <3>. QED
      BY <2>1, <2>4, <3>1 DEF Alone, Typed, TypeOK
  <2>12. Counted'
    <3>1. <<"post", p>> \in Holders(t)
      BY <2>2 DEF Holders
    <3>. QED
      BY <2>4, <2>9, <2>10, <3>1, CountedMove
  <2>13. Distributing'
    <3>1. ToCome' = ToCome
      BY <2>4 DEF ToCome
    <3>2. manager.pc \notin {"distribute", "notify"}
      BY <2>3, TaskAssumption DEF Typed, Working
    <3>. QED
      BY <2>3, <2>4, <2>5, <2>6, <2>8, <2>10, <3>1, <3>2 DEF Distributing
  <2>14. Resigned'
    BY <2>4, <2>5 DEF Resigned
  <2>. QED
    BY <2>11, <2>12, <2>13, <2>14
<1>2. CASE signal_incoming_task(p) \/ poster_execute(p)
  <2>1. /\ UNCHANGED <<head, next, ref, life, total_task_count, manager, worker>>
    BY <1>2 DEF signal_incoming_task, poster_execute, taskVars
  <2>2. \A q \in Poster : /\ poster'[q].task = poster[q].task
                          /\ poster'[q].pc = "post" <=> poster[q].pc = "post"
                          /\ poster'[q].pc = "idle" <=> poster[q].pc = "idle"
    <3>1. CASE signal_incoming_task(p)
      BY <3>1 DEF signal_incoming_task, Typed, TypeOK
    <3>2. CASE poster_execute(p)
      BY <3>2 DEF poster_execute, NothingLeft, Typed, TypeOK
    <3>. QED
      BY <1>2, <3>1, <3>2
  <2>. QED
    BY <2>1, <2>2, HeldSame
<1>3. CASE poster_return(p)
  <2>0. PICK t \in Task : t = poster[p].task
    BY <1>3 DEF poster_return, Typed, Working
  <2>1. t \in Task /\ poster[p].pc = "release"
    BY <1>3 DEF poster_return
  <2>2. /\ dec_ref(t) /\ poster' = [poster EXCEPT ![p] = [pc |-> "idle", task |-> Null]]
        /\ UNCHANGED <<head, next, manager, worker, total_task_count>>
    BY <1>3, <2>0 DEF poster_return
  <2>3. /\ poster'[p] = [pc |-> "idle", task |-> Null]
        /\ \A q \in Poster \ {p} : poster'[q] = poster[q]
    BY <2>2 DEF Typed, TypeOK
  <2>4. <<"poster", p>> \in Holders(t)
    BY <2>0 DEF Holders
  <2>5. \A u \in Task : Queued(u)' = Queued(u)
    <3>1. \A u \in Task, q \in Poster : (poster'[q].pc = "post" /\ poster'[q].task = u)
                                       <=> (poster[q].pc = "post" /\ poster[q].task = u)
      BY <2>1, <2>3
    <3>. QED
      BY <2>2, <3>1 DEF Queued
  <2>6. \A u \in Task : Holders(u)' \subseteq Holders(u) \ {<<"poster", p>>}
    <3>. SUFFICES ASSUME NEW u \in Task
                  PROVE  Holders(u)' \subseteq Holders(u) \ {<<"poster", p>>}
      OBVIOUS
    <3>1. \A q \in Poster : poster'[q].task = u => poster[q].task = u /\ q # p
      BY <2>3, TaskAssumption
    <3>2. <<"poster", p>> \notin Queued(u)
      BY DEF Queued
    <3>3. Queued(u)' = Queued(u)
      BY <2>5
    <3>. HIDE DEF Queued
    <3>. QED
      BY <2>2, <3>1, <3>2, <3>3 DEF Holders
  <2>7. Counted'
    <3>1. /\ ref' = [ref EXCEPT ![t] = @ - 1]
          /\ life' = [life EXCEPT ![t] = IF ref[t] = 1 THEN "freed" ELSE @]
      BY <2>2 DEF dec_ref
    <3>2. /\ \A u \in Task \ {t} : Holders(u)' \subseteq Holders(u)
          /\ Holders(t)' \subseteq Holders(t) \ {<<"poster", p>>}
      BY <2>6
    <3>. QED
      BY <2>4, <3>1, <3>2, CountedRelease
  <2>8. Alone'
    <3>1. InFlight' \subseteq InFlight
      BY <2>2 DEF InFlight, dec_ref, Typed, TypeOK
    <3>. QED
      BY <2>2, <3>1, FS_Subset DEF Alone
  <2>9. Distributing'
    <3>1. ToCome' = ToCome
      BY <2>2 DEF ToCome
    <3>. QED
      BY <2>2, <2>5, <3>1 DEF Distributing
  <2>10. Resigned'
    BY <2>2, <2>3 DEF Resigned
  <2>. QED
    BY <2>7, <2>8, <2>9, <2>10
<1>. QED
  BY <1>1, <1>2, <1>3 DEF PosterNext
LEMMA PopAllHeld == Typed /\ Held /\ pop_all => Held'
<1>. SUFFICES ASSUME Typed, Held, pop_all
              PROVE  Held'
  OBVIOUS
<1>. USE DEF Held
<1>1. /\ manager.pc = "check_quit"
      /\ manager' = [manager EXCEPT !.pc = "reverse", !.rest = head[Incoming], !.first = Null]
      /\ head' = [head EXCEPT ![Incoming] = Null]
      /\ UNCHANGED <<next, ref, life, poster, worker, total_task_count>>
  BY DEF pop_all, ManagerAt, taskVars
<1>2. manager.task = Null /\ manager.first = Null /\ manager.rest = Null
  BY <1>1 DEF Resigned
<1>3. /\ manager'.pc = "reverse" /\ manager'.rest = head[Incoming] /\ manager'.first = Null
      /\ manager'.task = Null
      /\ head'[Incoming] = Null /\ \A w \in Worker : head'[w] = head[w]
  BY <1>1, <1>2, TaskAssumption DEF Typed, TypeOK
<1>4. Alone'
  <2>1. InFlight' = InFlight
    BY <1>1 DEF InFlight
  <2>. QED
    BY <1>1, <2>1 DEF Alone
<1>5. Resigned'
  BY <1>1, <1>3 DEF Resigned
<1>6. \A t \in Task : t # Null
  BY TaskAssumption
<1>7. \A t \in Task : Queued(t)' = {<<"post", p>> : p \in {q \in Poster : poster[q].pc = "post"
                                                                     /\ poster[q].task = t}}
                                  \cup {x \in {<<"rest", Null>>} : head[Incoming] = t}
  BY <1>1, <1>3, <1>6 DEF Queued
<1>8. CASE head[Incoming] = Null
  <2>1. \A t \in Task : Queued(t)' = Queued(t)
    BY <1>2, <1>6, <1>7, <1>8 DEF Queued
  <2>2. \A t \in Task : Holders(t)' = Holders(t)
    BY <1>1, <1>2, <1>3, <1>6, <2>1 DEF Holders
  <2>3. Counted'
    BY <1>1, <2>2, CountedSame
  <2>4. Distributing'
    BY <1>2, <1>3, <1>6, <2>1 DEF Distributing
  <2>. QED
    BY <1>4, <1>5, <2>3, <2>4
<1>9. CASE head[Incoming] # Null
  <2>0. PICK t \in Task : t = head[Incoming]
    BY <1>9 DEF Typed, TypeOK, Pointer
  <2>1. <<"incoming", Null>> \in Queued(t)
    BY <2>0 DEF Queued
  <2>2. /\ Queued(t) = {<<"incoming", Null>>}
        /\ \A u \in Task \ {t} : Holders(u) = {} /\ Queued(u) = {}
        /\ \A w \in Worker : head[w] = Null
    BY <2>1, QueuedAlone
  <2>3. {<<"post", p>> : p \in {q \in Poster : poster[q].pc = "post" /\ poster[q].task = t}} = {}
    <3>1. \A q \in Poster : <<"post", q>> # <<"incoming", Null>>
      OBVIOUS
    <3>2. {<<"post", p>> : p \in {q \in Poster : poster[q].pc = "post" /\ poster[q].task = t}}
            \subseteq {<<"incoming", Null>>}
      BY <2>2 DEF Queued
    <3>. QED
      BY <3>1, <3>2
  <2>4. Queued(t)' = {<<"rest", Null>>}
    BY <1>7, <2>0, <2>3
  <2>5. \A u \in Task \ {t} : Queued(u)' = {}
    BY <1>7, <2>0, <2>2 DEF Queued
  <2>6. \A u \in Task \ {t} : Holders(u)' = {}
    BY <1>1, <1>2, <1>3, <2>2, <2>5 DEF Holders
  <2>7. Holders(t)' \subseteq (Holders(t) \ {<<"incoming", Null>>}) \cup {<<"rest", Null>>}
    BY <1>1, <1>3, <1>6, <2>4 DEF Holders
  <2>8. Counted'
    <3>1. <<"incoming", Null>> \in Holders(t)
      BY <2>1 DEF Holders
    <3>. QED
      BY <1>1, <2>6, <2>7, <3>1, CountedMove
  <2>9. Distributing'
    BY <1>3, <1>6, <2>2, <2>4, <2>5 DEF Distributing
  <2>. QED
    BY <1>4, <1>5, <2>8, <2>9
<1>. QED
  BY <1>8, <1>9

LEMMA ReverseHeld == Typed /\ Held /\ reverse => Held'
<1>. SUFFICES ASSUME Typed, Held, reverse
              PROVE  Held'
  OBVIOUS
<1>. USE DEF Held
<1>0. PICK t \in Task : t = manager.rest
  BY DEF reverse, Typed, TypeOK, Pointer
<1>1. <<"rest", Null>> \in Queued(t)
  BY <1>0 DEF Queued
<1>2. /\ Queued(t) = {<<"rest", Null>>}
      /\ \A u \in Task \ {t} : Holders(u) = {} /\ Queued(u) = {}
      /\ \A w \in Worker : head[w] = Null
      /\ manager.task = Null /\ head[Incoming] = Null /\ manager.first = Null
  BY <1>1, QueuedAlone
<1>3. next[t] = Null
  BY DEF Alone
<1>4. /\ manager.pc = "reverse"
      /\ manager' = [manager EXCEPT !.first = t, !.rest = Null]
      /\ next' = [next EXCEPT ![t] = Null]
      /\ UNCHANGED <<head, ref, life, poster, worker, total_task_count>>
  BY <1>0, <1>2, <1>3 DEF reverse, ManagerAt, taskVars
<1>5. /\ manager'.first = t /\ manager'.rest = Null /\ manager'.task = Null
      /\ manager'.pc = "reverse"
  BY <1>2, <1>4 DEF Typed, TypeOK
<1>6. \A u \in Task : u # Null
  BY TaskAssumption
<1>7. Alone'
  <2>1. InFlight' = InFlight
    BY <1>4 DEF InFlight
  <2>. QED
    BY <1>4, <2>1 DEF Alone, Typed, TypeOK
<1>8. Resigned'
  BY <1>4, <1>5 DEF Resigned
<1>9. {<<"post", p>> : p \in {q \in Poster : poster[q].pc = "post" /\ poster[q].task = t}} = {}
  <2>1. \A q \in Poster : <<"post", q>> # <<"rest", Null>>
    OBVIOUS
  <2>2. {<<"post", p>> : p \in {q \in Poster : poster[q].pc = "post" /\ poster[q].task = t}}
          \subseteq {<<"rest", Null>>}
    BY <1>2 DEF Queued
  <2>. QED
    BY <2>1, <2>2
<1>10. Queued(t)' = {<<"first", Null>>}
  BY <1>2, <1>4, <1>5, <1>6, <1>9 DEF Queued
<1>11. \A u \in Task \ {t} : Queued(u)' = {}
  BY <1>2, <1>4, <1>5, <1>6 DEF Queued
<1>12. \A u \in Task \ {t} : Holders(u)' = {}
  BY <1>2, <1>4, <1>5, <1>6, <1>11 DEF Holders
<1>13. Holders(t)' \subseteq (Holders(t) \ {<<"rest", Null>>}) \cup {<<"first", Null>>}
  BY <1>2, <1>4, <1>5, <1>6, <1>10 DEF Holders
<1>14. Counted'
  <2>1. <<"rest", Null>> \in Holders(t)
    BY <1>1 DEF Holders
  <2>. QED
    BY <1>4, <1>12, <1>13, <2>1, CountedMove
<1>15. Distributing'
  BY <1>2, <1>4, <1>5, <1>6, <1>10, <1>11 DEF Distributing
<1>. QED
  BY <1>7, <1>8, <1>14, <1>15

LEMMA FlushJobsHeld == Typed /\ Held /\ flush_jobs => Held'
<1>. SUFFICES ASSUME Typed, Held, flush_jobs
              PROVE  Held'
  OBVIOUS
<1>. USE DEF Held
<1>1. /\ manager.pc = "reverse" /\ manager.rest = Null /\ manager.task = Null
      /\ UNCHANGED <<head, next, life, poster, worker, total_task_count>>
  BY DEF flush_jobs, ManagerAt, Resigned
<1>2. \A u \in Task : u # Null
  BY TaskAssumption
<1>3. Alone'
  <2>1. InFlight' = InFlight
    BY <1>1 DEF InFlight
  <2>. QED
    BY <1>1, <2>1 DEF Alone
<1>4. CASE manager.first = Null
  <2>1. /\ manager'.pc = "reset" /\ manager'.task = Null /\ manager'.first = Null
        /\ manager'.rest = Null /\ UNCHANGED ref
    BY <1>1, <1>4 DEF flush_jobs, process_job, Typed, TypeOK
  <2>2. \A t \in Task : Queued(t)' = Queued(t)
    BY <1>1, <1>2, <1>4, <2>1 DEF Queued
  <2>3. \A t \in Task : Holders(t)' = Holders(t)
    BY <1>1, <1>2, <2>1, <2>2 DEF Holders
  <2>4. Counted'
    BY <1>1, <2>1, <2>3, CountedSame
  <2>5. Distributing'
    BY <1>1, <1>2, <2>1, <2>2 DEF Distributing
  <2>6. Resigned'
    BY <1>1, <2>1 DEF Resigned
  <2>. QED
    BY <1>3, <2>4, <2>5, <2>6
<1>5. CASE manager.first # Null
  <2>0. PICK t \in Task : t = manager.first
    BY <1>5 DEF Typed, TypeOK, Pointer
  <2>1. <<"first", Null>> \in Queued(t)
    BY <2>0 DEF Queued
  <2>2. /\ Queued(t) = {<<"first", Null>>}
        /\ \A u \in Task \ {t} : Holders(u) = {} /\ Queued(u) = {}
        /\ \A w \in Worker : head[w] = Null
        /\ head[Incoming] = Null
    BY <2>1, QueuedAlone
  <2>3. /\ manager' = [manager EXCEPT !.pc = "distribute", !.task = t, !.first = Null,
                                     !.left = Helpers(t)]
        /\ inc_ref(t)
    BY <1>2, <1>5, <2>0 DEF flush_jobs, process_job
  <2>4. /\ manager'.pc = "distribute" /\ manager'.task = t /\ manager'.first = Null
        /\ manager'.rest = Null /\ manager'.left = Helpers(t)
    BY <1>1, <2>3 DEF Typed, TypeOK
  <2>5. Helpers(t) <= NumWorkers
    BY TaskAssumption DEF Helpers
  <2>6. {<<"post", p>> : p \in {q \in Poster : poster[q].pc = "post" /\ poster[q].task = t}} = {}
    <3>1. \A q \in Poster : <<"post", q>> # <<"first", Null>>
      OBVIOUS
    <3>2. {<<"post", p>> : p \in {q \in Poster : poster[q].pc = "post" /\ poster[q].task = t}}
            \subseteq {<<"first", Null>>}
      BY <2>2 DEF Queued
    <3>. QED
      BY <3>1, <3>2
  <2>7. \A u \in Task : Queued(u)' = {}
    <3>1. Queued(t)' = {}
      BY <1>1, <1>2, <2>2, <2>4, <2>6 DEF Queued
    <3>2. \A u \in Task \ {t} : Queued(u)' = {}
      BY <1>1, <1>2, <2>2, <2>4 DEF Queued
    <3>. QED
      BY <3>1, <3>2
  <2>8. \A u \in Task \ {t} : Holders(u)' = {}
    BY <1>1, <1>2, <2>2, <2>4, <2>7 DEF Holders
  <2>9. Holders(t)' \subseteq (Holders(t) \ {<<"first", Null>>})
                              \cup {<<"flush", Null>>, <<"process", Null>>}
    BY <1>1, <1>2, <2>2, <2>4, <2>7 DEF Holders
  <2>10. Counted'
    <3>1. <<"first", Null>> \in Holders(t)
      BY <2>1 DEF Holders
    <3>2. \E x \in Holders(t) : \E y, z : Holders(t)' \subseteq (Holders(t) \ {x}) \cup {y, z}
      BY <2>9, <3>1
    <3>. QED
      BY <1>1, <2>3, <2>8, <3>1, <3>2, CountedTake
  <2>11. Distributing'
    <3>1. \A i \in ToCome' : WorkerAt[i] \in Worker
      BY TaskAssumption DEF ToCome
    <3>2. \A i \in ToCome' : head'[WorkerAt[i]] = Null
      BY <1>1, <2>2, <3>1
    <3>. QED
      BY <2>4, <2>5, <2>7, <3>2 DEF Distributing
  <2>12. Resigned'
    BY <1>1, <2>4 DEF Resigned
  <2>. QED
    BY <1>3, <2>10, <2>11, <2>12
<1>. QED
  BY <1>4, <1>5
\* The index in use leaves the indices to come, and none joins them.
LEMMA NextIndex ==
  ASSUME Typed, manager.left \in 1..NumWorkers,
         total_task_count' = (total_task_count + 1) % NumWorkers,
         manager'.left = manager.left - 1
  PROVE  /\ total_task_count \in ToCome
         /\ ToCome' \subseteq ToCome \ {total_task_count}
<1>. DEFINE n == total_task_count
<1>1. n \in 0..(NumWorkers - 1) /\ NumWorkers \in Nat \ {0} /\ manager.left \in Nat
  BY TaskAssumption DEF Typed, TypeOK
<1>2. total_task_count' = IF n + 1 = NumWorkers THEN 0 ELSE n + 1
  <2>1. CASE n + 1 = NumWorkers
    BY <1>1, <2>1
  <2>2. CASE n + 1 # NumWorkers
    <3>1. n + 1 \in 0..(NumWorkers - 1)
      BY <1>1, <2>2
    <3>. QED
      BY <1>1, <2>2, <3>1
  <2>. QED
    BY <2>1, <2>2
<1>. QED
  BY <1>1, <1>2 DEF ToCome

LEMMA DistributeHeld ==
  ASSUME Typed, Held, OwnWorkers, distribute_task
  PROVE  Held'
<1>. USE DEF Held
<1>0. PICK t \in Task : t = manager.task
  BY DEF distribute_task, ManagerAt, Typed, Working
<1>. DEFINE n == total_task_count
<1>1. n \in 0..(NumWorkers - 1) /\ WorkerAt[n] \in Worker
  BY TaskAssumption DEF Typed, TypeOK
<1>2. PICK w \in Worker : w = WorkerAt[n]
  BY <1>1
<1>3. manager.pc = "distribute" /\ manager.left \in 1..NumWorkers
  BY TaskAssumption DEF distribute_task, ManagerAt, Distributing, Typed, TypeOK
<1>4. /\ manager' = [manager EXCEPT !.pc = "notify", !.index = n, !.left = @ - 1]
      /\ total_task_count' = (n + 1) % NumWorkers
      /\ inc_ref(t)
      /\ UNCHANGED <<life, poster, worker>>
  BY <1>0 DEF distribute_task, ManagerAt
<1>5. /\ manager'.pc = "notify" /\ manager'.left = manager.left - 1
      /\ manager'.task = t /\ manager'.rest = manager.rest /\ manager'.first = manager.first
  BY <1>0, <1>4 DEF Typed, TypeOK
<1>6. n \in ToCome /\ ToCome' \subseteq ToCome \ {n}
  BY <1>3, <1>4, <1>5, NextIndex
<1>7. head[w] = Null
  BY <1>2, <1>3, <1>6 DEF Distributing
<1>8. /\ head' = [head EXCEPT ![w] = t]
      /\ next' = [next EXCEPT ![t] = Null]
  BY <1>0, <1>2, <1>7 DEF distribute_task, push
<1>9. /\ head'[w] = t /\ head'[Incoming] = head[Incoming]
      /\ \A v \in Worker \ {w} : head'[v] = head[v]
  BY <1>8, TaskAssumption DEF Typed, TypeOK
<1>10. \A u \in Task : u # Null
  BY TaskAssumption
<1>11. manager.first = Null /\ manager.rest = Null
  BY <1>3 DEF Resigned
<1>12. \A u \in Task : Queued(u)' = Queued(u)
  BY <1>4, <1>5, <1>9 DEF Queued
<1>13. Holders(t) # {}
  BY <1>0, Holding
<1>14. Queued(t) = {}
  BY <1>0 DEF Distributing
<1>15. \A u \in Task \ {t} : Holders(u) = {} /\ Queued(u) = {}
  <2>1. \A u \in Task : Queued(u) \subseteq Holders(u)
    BY DEF Holders
  <2>. QED
    BY <1>13, <2>1, OnlyOne
<1>16. \A u \in Task \ {t} : Holders(u)' = {}
  <2>. SUFFICES ASSUME NEW u \in Task \ {t}
                PROVE  Holders(u)' = {}
    OBVIOUS
  <2>1. Queued(u)' = {}
    BY <1>12, <1>15
  <2>2. /\ \A v \in Worker : head'[v] # u
        /\ \A v \in Worker : worker[v].job # u
        /\ \A q \in Poster : poster[q].task # u
    BY <1>9, <1>15, Holding
  <2>. QED
    BY <1>4, <1>5, <2>1, <2>2 DEF Holders
<1>17. Holders(t)' \subseteq Holders(t) \cup {<<"list", w>>}
  <2>1. \A v \in Worker : head'[v] = t => head[v] = t \/ v = w
    BY <1>9
  <2>2. Queued(t)' = Queued(t)
    BY <1>12
  <2>. HIDE DEF Queued
  <2>. QED
    BY <1>0, <1>3, <1>4, <1>5, <2>1, <2>2 DEF Holders
<1>18. Counted'
  BY <1>4, <1>13, <1>16, <1>17, CountedTake
<1>19. Alone'
  <2>1. InFlight' = InFlight
    BY <1>4 DEF InFlight
  <2>. QED
    BY <1>4, <1>8, <2>1 DEF Alone, Typed, TypeOK
<1>20. Distributing'
  <2>1. \A i \in ToCome' : head'[WorkerAt[i]] = Null
    <3>. SUFFICES ASSUME NEW i \in ToCome'
                  PROVE  head'[WorkerAt[i]] = Null
      OBVIOUS
    <3>1. i \in ToCome /\ i # n /\ i \in 0..(NumWorkers - 1)
      BY <1>6 DEF ToCome
    <3>2. WorkerAt[i] # w /\ WorkerAt[i] \in Worker
      BY <1>1, <1>2, <3>1, TaskAssumption DEF OwnWorkers
    <3>3. head[WorkerAt[i]] = Null
      BY <1>3, <3>1 DEF Distributing
    <3>. QED
      BY <1>9, <3>2, <3>3
  <2>2. manager'.left <= NumWorkers
    BY <1>3, <1>5, TaskAssumption
  <2>3. \A u \in Task : Queued(u)' = {}
    BY <1>12, <1>14, <1>15
  <2>. QED
    BY <2>1, <2>2, <2>3 DEF Distributing
<1>21. Resigned'
  BY <1>4, <1>5, <1>11 DEF Resigned
<1>. QED
  BY <1>18, <1>19, <1>20, <1>21

\* The manager releases the reference of the queue, or its own.
LEMMA ManagerReleases ==
  ASSUME Typed, Held, NEW t \in Task, t = manager.task,
         UNCHANGED <<head, next, poster, worker, total_task_count>>,
         ref' = [ref EXCEPT ![t] = @ - 1],
         life' = [life EXCEPT ![t] = IF ref[t] = 1 THEN "freed" ELSE @],
         manager'.first = Null, manager'.rest = Null,
         manager'.pc \notin {"distribute", "notify", "reverse"},
         \/ manager.pc = "dec_ref" /\ manager'.pc = "next" /\ manager'.task = t
         \/ manager.pc = "next" /\ manager'.pc = "reset" /\ manager'.task = Null
  PROVE  Held'
<1>. USE DEF Held
<1>1. PICK x \in Holders(t) : x = <<IF manager.pc = "next" THEN "flush" ELSE "process", Null>>
  BY DEF Holders
<1>2. manager.first = Null /\ manager.rest = Null
  BY DEF Resigned
<1>3. \A u \in Task : u # Null
  BY TaskAssumption
<1>4. \A u \in Task : Queued(u)' = Queued(u)
  BY <1>2, <1>3 DEF Queued
<1>5. \A u \in Task : Holders(u)' \subseteq Holders(u) \ {x}
  <2>. SUFFICES ASSUME NEW u \in Task
                PROVE  Holders(u)' \subseteq Holders(u) \ {x}
    OBVIOUS
  <2>1. Queued(u)' = Queued(u) /\ x \notin Queued(u)
    BY <1>1, <1>4 DEF Queued
  <2>. HIDE DEF Queued
  <2>2. CASE manager.pc = "dec_ref"
    BY <1>1, <2>1, <2>2 DEF Holders
  <2>3. CASE manager.pc = "next"
    BY <1>1, <1>3, <2>1, <2>3 DEF Holders
  <2>. QED
    BY <2>2, <2>3
<1>6. Counted'
  BY <1>5, CountedRelease
<1>7. Alone'
  <2>1. InFlight' \subseteq InFlight
    BY DEF InFlight, Typed, TypeOK
  <2>. QED
    BY <2>1, FS_Subset DEF Alone
<1>8. Distributing'
  <2>1. \A u \in Task : manager'.task = u => manager.task = u
    BY <1>3
  <2>. QED
    BY <1>4, <2>1 DEF Distributing
<1>9. Resigned'
  BY DEF Resigned
<1>. QED
  BY <1>6, <1>7, <1>8, <1>9

LEMMA ManagerHeld ==
  ASSUME Typed, Held, OwnWorkers, Manager
  PROVE  Held'
<1>1. CASE \/ wait_reset \/ wait_for_incoming_task \/ tick_quit \/ notify \/ distribute_end
           \/ manager_execute
  <2>1. UNCHANGED <<head, next, ref, life, total_task_count, poster, worker>>
    BY <1>1 DEF wait_reset, wait_for_incoming_task, tick_quit, notify, distribute_end,
                manager_execute, ManagerAt, taskVars
  <2>2. \E pc \in {"wait", "check_quit", "ended", "distribute", "execute", "dec_ref"} :
          /\ manager' = [manager EXCEPT !.pc = pc]
          /\ <<manager.pc, pc>> \in {<<"reset", "wait">>, <<"wait", "check_quit">>,
                                   <<"check_quit", "ended">>, <<"notify", "distribute">>,
                                   <<"distribute", "execute">>, <<"execute", "execute">>,
                                   <<"execute", "dec_ref">>}
    <3>1. CASE wait_reset \/ wait_for_incoming_task \/ tick_quit
      BY <3>1 DEF wait_reset, wait_for_incoming_task, tick_quit, ManagerAt
    <3>2. CASE notify \/ distribute_end
      BY <3>2 DEF notify, distribute_end, ManagerAt
    <3>3. CASE manager_execute
      <4>1. CASE NothingLeft(manager.task)
        BY <3>3, <4>1 DEF manager_execute, ManagerAt
      <4>2. CASE ~NothingLeft(manager.task)
        BY <3>3, <4>2 DEF manager_execute, ManagerAt
      <4>. QED
        BY <4>1, <4>2
    <3>. QED
      BY <1>1, <3>1, <3>2, <3>3
  <2>3. PICK pc \in {"wait", "check_quit", "ended", "distribute", "execute", "dec_ref"} :
          /\ manager' = [manager EXCEPT !.pc = pc]
          /\ <<manager.pc, pc>> \in {<<"reset", "wait">>, <<"wait", "check_quit">>,
                                   <<"check_quit", "ended">>, <<"notify", "distribute">>,
                                   <<"distribute", "execute">>, <<"execute", "execute">>,
                                   <<"execute", "dec_ref">>}
    BY <2>2
  <2>4. /\ manager'.task = manager.task /\ manager'.first = manager.first
        /\ manager'.rest = manager.rest /\ manager'.left = manager.left /\ manager'.pc = pc
    BY <2>3 DEF Typed, TypeOK
  <2>. QED
    BY <2>1, <2>3, <2>4, HeldSame
<1>2. CASE manager_dec_ref
  <2>0. PICK t \in Task : t = manager.task
    BY <1>2 DEF manager_dec_ref, ManagerAt, Typed, Working
  <2>1. manager'.pc = "next" /\ manager'.task = t /\ manager'.first = Null /\ manager'.rest = Null
    BY <1>2, <2>0 DEF manager_dec_ref, ManagerAt, Typed, TypeOK, Held, Resigned
  <2>. QED
    BY <1>2, <2>0, <2>1, ManagerReleases DEF manager_dec_ref, ManagerAt, dec_ref
<1>3. CASE flush_next
  <2>0. PICK t \in Task : t = manager.task
    BY <1>3 DEF flush_next, ManagerAt, Typed, Working
  <2>1. next[t] = Null
    BY DEF Held, Alone
  <2>2. /\ process_job(Null)
        /\ ref' = [u \in Task |-> ref[u] + (IF u = Null THEN 1 ELSE 0) - (IF u = t THEN 1 ELSE 0)]
        /\ life' = [life EXCEPT ![t] = IF ref[t] = 1 /\ Null # t THEN "freed" ELSE @]
    BY <1>3, <2>0, <2>1 DEF flush_next
  <2>3. \A u \in Task : u # Null
    BY TaskAssumption
  <2>4. ref' = [ref EXCEPT ![t] = @ - 1]
    <3>1. ref \in [Task -> Int]
      BY DEF Typed, TypeOK
    <3>2. ref' = [u \in Task |-> ref[u] + 0 - (IF u = t THEN 1 ELSE 0)]
      BY <2>2, <2>3
    <3>3. [ref EXCEPT ![t] = @ - 1] = [u \in Task |-> IF u = t THEN ref[u] - 1 ELSE ref[u]]
      BY <3>1
    <3>. QED
      BY <3>1, <3>2, <3>3
  <2>5. life' = [life EXCEPT ![t] = IF ref[t] = 1 THEN "freed" ELSE @]
    BY <2>2, <2>3
  <2>6. /\ manager'.pc = "reset" /\ manager'.task = Null /\ manager'.first = Null
        /\ manager'.rest = Null
    <3>1. manager.pc = "next" /\ manager.rest = Null
      BY <1>3 DEF flush_next, ManagerAt, Held, Resigned
    <3>2. manager' = [manager EXCEPT !.pc = "reset", !.task = Null, !.first = Null]
      BY <2>2 DEF process_job
    <3>. QED
      BY <3>1, <3>2 DEF Typed, TypeOK
  <2>. QED
    BY <1>3, <2>0, <2>4, <2>5, <2>6, ManagerReleases DEF flush_next, ManagerAt
<1>. QED
  BY <1>1, <1>2, <1>3, PopAllHeld, ReverseHeld, FlushJobsHeld, DistributeHeld DEF Manager
\* A worker takes its list, forgets what is left of it, or releases its job.
LEMMA UnlinkHeld ==
  ASSUME Typed, Held, NEW w \in Worker, unlink_all(w), ~m_quit[w], head[w] # Null
  PROVE  Held'
<1>. USE DEF Held
<1>0. PICK t \in Task : t = head[w]
  BY DEF Typed, TypeOK, Pointer
<1>1. /\ worker[w].pc = "do_work"
      /\ worker' = [worker EXCEPT ![w] = [pc |-> "job", job |-> t, next |-> Null]]
      /\ head' = [head EXCEPT ![w] = Null]
      /\ UNCHANGED <<next, ref, life, poster, manager, total_task_count>>
  BY <1>0 DEF unlink_all, WorkerStep, taskVars
<1>2. /\ worker'[w] = [pc |-> "job", job |-> t, next |-> Null]
      /\ \A v \in Worker \ {w} : worker'[v] = worker[v] /\ head'[v] = head[v]
      /\ head'[w] = Null /\ head'[Incoming] = head[Incoming]
  BY <1>1, TaskAssumption DEF Typed, TypeOK
<1>3. \A u \in Task : u # Null
  BY TaskAssumption
<1>4. \A u \in Task : Queued(u)' = Queued(u)
  BY <1>1, <1>2 DEF Queued
<1>5. <<"list", w>> \in Holders(t)
  BY <1>0 DEF Holders
<1>6. Holders(t)' \subseteq (Holders(t) \ {<<"list", w>>}) \cup {<<"job", w>>}
  <2>1. Queued(t)' = Queued(t) /\ <<"list", w>> \notin Queued(t)
    BY <1>4 DEF Queued
  <2>2. \A v \in Worker : /\ head'[v] = t => head[v] = t /\ v # w
                          /\ worker'[v].job = t => worker[v].job = t \/ v = w
    BY <1>2, <1>3
  <2>. HIDE DEF Queued
  <2>. QED
    BY <1>1, <2>1, <2>2 DEF Holders
<1>7. \A u \in Task \ {t} : Holders(u)' \subseteq Holders(u)
  <2>. SUFFICES ASSUME NEW u \in Task \ {t}
                PROVE  Holders(u)' \subseteq Holders(u)
    OBVIOUS
  <2>1. Queued(u)' = Queued(u)
    BY <1>4
  <2>2. \A v \in Worker : /\ head'[v] = u => head[v] = u
                          /\ worker'[v].job = u => worker[v].job = u
    BY <1>2, <1>3
  <2>. HIDE DEF Queued
  <2>. QED
    BY <1>1, <2>1, <2>2 DEF Holders
<1>8. Counted'
  BY <1>1, <1>5, <1>6, <1>7, CountedMove
<1>9. Alone'
  <2>1. InFlight' = InFlight
    BY <1>1 DEF InFlight
  <2>. QED
    BY <1>1, <1>2, <2>1 DEF Alone
<1>10. Distributing'
  <2>1. ToCome' = ToCome
    BY <1>1 DEF ToCome
  <2>2. \A v \in Worker : head'[v] = head[v] \/ head'[v] = Null
    BY <1>2
  <2>3. \A i \in ToCome : WorkerAt[i] \in Worker
    BY TaskAssumption DEF ToCome
  <2>4. \A u \in Task : Queued(u) # {} => \A v \in Worker : head'[v] # u
    BY <1>3, <2>2 DEF Distributing
  <2>5. manager.pc \in {"distribute", "notify"} => \A i \in ToCome : head'[WorkerAt[i]] = Null
    BY <2>2, <2>3 DEF Distributing
  <2>. QED
    BY <1>1, <1>4, <2>1, <2>4, <2>5 DEF Distributing
<1>11. Resigned'
  BY <1>1, <1>2 DEF Resigned
<1>. QED
  BY <1>8, <1>9, <1>10, <1>11

LEMMA WorkerLeaves ==
  ASSUME Typed, Held, NEW w \in Worker,
         UNCHANGED <<head, next, poster, manager, total_task_count>>,
         worker[w].job \in Task,
         worker'[w].job = Null, worker'[w].next = Null,
         \A v \in Worker \ {w} : worker'[v] = worker[v],
         UNCHANGED <<ref, life>> \/ dec_ref(worker[w].job)
  PROVE  Held'
<1>. USE DEF Held
<1>0. PICK t \in Task : t = worker[w].job
  OBVIOUS
<1>1. \A u \in Task : u # Null
  BY TaskAssumption
<1>2. \A u \in Task : Queued(u)' = Queued(u)
  BY DEF Queued
<1>3. <<"job", w>> \in Holders(t)
  BY <1>0 DEF Holders
<1>4. \A u \in Task : Holders(u)' \subseteq Holders(u) \ {<<"job", w>>}
  <2>. SUFFICES ASSUME NEW u \in Task
                PROVE  Holders(u)' \subseteq Holders(u) \ {<<"job", w>>}
    OBVIOUS
  <2>1. Queued(u)' = Queued(u) /\ <<"job", w>> \notin Queued(u)
    BY <1>2 DEF Queued
  <2>2. \A v \in Worker : worker'[v].job = u => worker[v].job = u /\ v # w
    BY <1>1
  <2>. HIDE DEF Queued
  <2>. QED
    BY <2>1, <2>2 DEF Holders
<1>5. Counted'
  <2>1. CASE UNCHANGED <<ref, life>>
    BY <1>4, <2>1, CountedSame
  <2>2. CASE dec_ref(t)
    <3>1. /\ ref' = [ref EXCEPT ![t] = @ - 1]
          /\ life' = [life EXCEPT ![t] = IF ref[t] = 1 THEN "freed" ELSE @]
      BY <2>2 DEF dec_ref
    <3>. QED
      BY <1>3, <1>4, <3>1, CountedRelease
  <2>. QED
    BY <1>0, <2>1, <2>2
<1>6. Alone'
  <2>1. InFlight' \subseteq InFlight
    <3>1. CASE UNCHANGED <<ref, life>>
      BY <3>1 DEF InFlight
    <3>2. CASE dec_ref(t)
      BY <3>2 DEF dec_ref, InFlight, Typed, TypeOK
    <3>. QED
      BY <1>0, <3>1, <3>2
  <2>. QED
    BY <2>1, FS_Subset DEF Alone
<1>7. Distributing'
  <2>1. ToCome' = ToCome
    BY DEF ToCome
  <2>. QED
    BY <1>2, <2>1 DEF Distributing
<1>8. Resigned'
  BY DEF Resigned
<1>. QED
  BY <1>5, <1>6, <1>7, <1>8

LEMMA WorkerHeld ==
  ASSUME Typed, Held, NEW w \in Worker, WorkerNext(w)
  PROVE  Held'
<1>1. /\ UNCHANGED <<poster, manager, total_task_count>>
      /\ \A v \in Worker \ {w} : worker'[v] = worker[v]
  BY DEF WorkerNext, run, worker_wait, worker_reset, unlink_all, do_work, do_work_end,
         worker_execute, worker_dec_ref, WorkerStep, Typed, TypeOK
<1>2. /\ worker[w].next = Null /\ worker[w].job \in Pointer
      /\ worker[w].pc \notin {"job", "execute", "dec_ref"} => worker[w].job = Null
  BY DEF Held, Alone, Resigned, Typed, TypeOK
<1>3. ASSUME UNCHANGED <<head, next, ref, life>>,
             worker'[w].job = worker[w].job /\ worker'[w].next = Null,
             worker[w].pc \in {"job", "execute", "dec_ref"} <=>
               worker'[w].pc \in {"job", "execute", "dec_ref"}
      PROVE  Held'
  <2>1. \A v \in Worker : /\ worker'[v].job = worker[v].job
                          /\ worker'[v].next = worker[v].next
                          /\ worker[v].pc \in {"job", "execute", "dec_ref"} <=>
                               worker'[v].pc \in {"job", "execute", "dec_ref"}
    BY <1>1, <1>2, <1>3
  <2>. QED
    BY <1>1, <1>3, <2>1, HeldSame
<1>4. CASE run(w) \/ worker_wait(w) \/ worker_reset(w)
  <2>1. UNCHANGED <<head, next, ref, life>>
    BY <1>4 DEF run, worker_wait, worker_reset, taskVars
  <2>2. /\ worker[w].pc \in {"loop", "wait", "reset"}
        /\ \E pc \in {"ended", "wait", "reset", "do_work"} : worker'[w] = Resting(pc)
    BY <1>4 DEF run, worker_wait, worker_reset, WorkerStep, Typed, TypeOK
  <2>. QED
    BY <1>2, <1>3, <2>1, <2>2 DEF Resting
<1>5. CASE unlink_all(w)
  <2>1. CASE ~m_quit[w] /\ head[w] # Null
    BY <1>5, <2>1, UnlinkHeld
  <2>2. CASE m_quit[w] \/ head[w] = Null
    <3>1. /\ UNCHANGED <<next, ref, life>>
          /\ worker[w].pc = "do_work" /\ worker'[w] = Resting("loop")
      BY <1>5, <2>2 DEF unlink_all, WorkerStep, taskVars, Typed, TypeOK
    <3>2. head' = [head EXCEPT ![w] = head[w]]
      BY <1>5, <2>2 DEF unlink_all
    <3>3. head' = head
      BY <3>2 DEF Typed, TypeOK
    <3>. QED
      BY <1>2, <1>3, <3>1, <3>3 DEF Resting
  <2>. QED
    BY <2>1, <2>2
<1>6. CASE do_work(w)
  <2>1. worker[w].job \in Task
    BY <1>2, <1>6 DEF do_work, Pointer
  <2>2. next[worker[w].job] = Null
    BY <2>1 DEF Held, Alone
  <2>3. /\ UNCHANGED <<head, next, ref, life>> /\ worker[w].pc = "job"
        /\ worker' = [worker EXCEPT ![w] = [worker[w] EXCEPT !.pc = "execute", !.next = Null]]
    BY <1>6, <2>2 DEF do_work, WorkerStep, taskVars
  <2>4. /\ worker'[w].job = worker[w].job /\ worker'[w].next = Null
        /\ worker'[w].pc = "execute"
    BY <2>3 DEF Typed, TypeOK
  <2>. QED
    BY <1>3, <2>3, <2>4
<1>7. CASE do_work_end(w)
  <2>1. /\ UNCHANGED <<head, next, ref, life>> /\ worker[w].pc = "job"
        /\ worker'[w] = Resting("do_work")
    BY <1>7 DEF do_work_end, WorkerStep, taskVars, Typed, TypeOK
  <2>2. worker'[w].job = Null /\ worker'[w].next = Null /\ worker'[w].pc = "do_work"
    BY <2>1 DEF Resting
  <2>3. CASE worker[w].job = Null
    <3>1. \A v \in Worker : worker'[v].job = worker[v].job
      BY <1>1, <2>2, <2>3
    <3>2. \A t \in Task : Queued(t)' = Queued(t) /\ Holders(t)' = Holders(t)
      BY <1>1, <2>1, <3>1, HoldersSame
    <3>3. Counted'
      BY <2>1, <3>2, CountedSame DEF Held
    <3>4. Alone'
      <4>1. InFlight' = InFlight
        BY <2>1 DEF InFlight
      <4>. QED
        BY <1>1, <2>1, <2>2, <4>1 DEF Held, Alone
    <3>5. Distributing'
      <4>1. ToCome' = ToCome
        BY <1>1 DEF ToCome
      <4>. QED
        BY <1>1, <2>1, <3>2, <4>1 DEF Held, Distributing
    <3>6. Resigned'
      BY <1>1, <2>2 DEF Held, Resigned
    <3>. QED
      BY <3>3, <3>4, <3>5, <3>6 DEF Held
  <2>4. CASE worker[w].job # Null
    BY <1>1, <1>2, <2>1, <2>2, <2>4, WorkerLeaves DEF Pointer
  <2>. QED
    BY <2>3, <2>4
<1>8. CASE worker_execute(w)
  <2>1. UNCHANGED <<head, next, ref, life>> /\ worker[w].pc = "execute"
    BY <1>8 DEF worker_execute
  <2>2. /\ worker'[w].job = worker[w].job /\ worker'[w].next = worker[w].next
        /\ worker'[w].pc \in {"execute", "dec_ref"}
    BY <1>8 DEF worker_execute, WorkerStep, NothingLeft, Typed, TypeOK
  <2>. QED
    BY <1>2, <1>3, <2>1, <2>2
<1>9. CASE worker_dec_ref(w)
  <2>1. /\ UNCHANGED <<head, next>> /\ dec_ref(worker[w].job)
        /\ worker' = [worker EXCEPT ![w] = [pc |-> "job", job |-> Null, next |-> Null]]
    BY <1>2, <1>9 DEF worker_dec_ref, WorkerStep
  <2>2. worker[w].job \in Task
    BY <1>9 DEF worker_dec_ref, Typed, Working
  <2>3. worker'[w].job = Null /\ worker'[w].next = Null
    BY <2>1 DEF Typed, TypeOK
  <2>. QED
    BY <1>1, <2>1, <2>2, <2>3, WorkerLeaves
<1>. QED
  BY <1>4, <1>5, <1>6, <1>7, <1>8, <1>9 DEF WorkerNext

LEMMA HeldStep ==
  ASSUME Typed, Held, OneAtATime, OwnWorkers, [Next]_vars
  PROVE  Held'
<1>1. CASE quit \/ Owner \/ UNCHANGED vars
  <2>1. UNCHANGED <<head, next, ref, life, poster, manager, worker, total_task_count>>
    BY <1>1 DEF quit, Owner, quit_signal, quit_worker, quit_workers_end, join_workers, join,
                OwnerStep, vars, taskVars
  <2>. QED
    BY <2>1, HeldSame
<1>. QED
  BY <1>1, CreateHeld, PosterHeld, ManagerHeld, WorkerHeld DEF Next

\* With one task in flight, and a worker of its own for every index, nobody executes,
\* releases or follows the next pointer of a freed task, however many threads call
\* parallel_for, work and quit (create_task, distribute_task, do_work, dec_ref).
THEOREM NoneUsesAFreedTask ==
  ASSUME OneAtATime, OwnWorkers
  PROVE  Spec => []NoUseAfterFree
<1>1. Typed /\ Held => NoUseAfterFree
  <2>. SUFFICES ASSUME Typed, Held
                PROVE  NoUseAfterFree
    OBVIOUS
  <2>1. \A t \in Task : life[t] = "freed" => Holders(t) = {}
    BY DEF Held, Counted
  <2>2. /\ \A p \in Poster : poster[p].task \in Pointer
        /\ manager.task \in Pointer /\ manager.first \in Pointer /\ manager.rest \in Pointer
        /\ \A w \in Worker : worker[w].job \in Pointer
    BY DEF Typed, TypeOK
  <2>. QED
    BY <2>1, <2>2, Holding DEF NoUseAfterFree, Freed, Pointer
<1>2. Typed /\ Held /\ [Next]_vars => Held'
  BY HeldStep
<1>. QED
  BY <1>1, <1>2, HeldInit, TypedInit, TypedStep, PTL DEF Spec
===============================================================================
