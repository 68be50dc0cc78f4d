----------------------------- MODULE TaskQueue -----------------------------
(***************************************************************************)
(* libretro-common/queues/task_queue.c: the queue of background tasks, run *)
(* either by the thread that drives the frontend (impl_regular) or by a    *)
(* worker thread (impl_threaded), with the switch from one to the other    *)
(* that task_queue_check makes on the fly.                                 *)
(*                                                                         *)
(* A critical section that neither blocks nor races with code outside its  *)
(* lock is one step, enabled when the lock is free.  The owner of a lock   *)
(* is recorded where the lock is held from one step to the next:           *)
(* running_lock over the traversals of task_queue_check, cancel and reset, *)
(* finished_lock over the callbacks, property_lock over the update of the  *)
(* flags.  queue_lock is always innermost and nothing blocks under it: it  *)
(* is what makes the search of task_queue_push one step.  In the regular   *)
(* mode the locks are NULL and slock_lock does nothing.                    *)
(***************************************************************************)
EXTENDS TaskSeq, FiniteSets

CONSTANTS
  Tasks,        \* every task the program ever pushes
  NoTask,       \* the NULL task pointer
  Blocking,     \* the tasks of type TASK_TYPE_BLOCKING
  Pusher,       \* who pushes each task: the frame loop, a callback, a handler
  Rescheduling, \* the tasks whose handler may set `when` to a later time
  Endless,      \* the tasks whose handler need not ever finish
  Modes,        \* the settings of the threaded mode the program may start with
  Ops,          \* what the frame loop calls besides task_queue_push and _check
  Delays,       \* how far in the future `when` is set
  Slack,        \* how early the worker starts a task: 500 us of the code
  MaxTime,      \* bound on the clock
  MaxSwitches   \* bound on the changes of mode

Contexts == {"idle", "callback", "handler"}
AllOps   == {"wait", "cancel", "reset", "switch"}

\* Handlers do not push blocking tasks: the save states, screenshots, Wi-Fi and
\* Bluetooth requests come from the frame loop and from callbacks.
ASSUME TaskQueueAssumption ==
  /\ NoTask \notin Tasks
  /\ Blocking \subseteq Tasks
  /\ Pusher \in [Tasks -> Contexts]
  /\ \A t \in Blocking : Pusher[t] # "handler"
  /\ Rescheduling \subseteq Tasks
  /\ Endless \subseteq Tasks
  /\ Modes \subseteq BOOLEAN
  /\ Ops \subseteq AllOps
  /\ Delays \subseteq Nat \ {0}
  /\ Slack \in Nat
  /\ MaxTime \in Nat
  /\ MaxSwitches \in Nat

Main    == "main"
Worker  == "worker"
Threads == {Main, Worker}
Nobody  == "nobody"

VARIABLES
  running,    \* tasks_running
  finished,   \* tasks_finished
  batch,      \* the local list of retro_task_regular_gather
  flags,      \* task->flags, as a set
  when,       \* task->when
  life,       \* whether the task is allocated and in the hands of the queue
  now,        \* cpu_features_get_time_usec()
  impl,       \* impl_current: "regular", "threaded", or "none"
  threaded,   \* task_threaded_enable
  asked,      \* the mode last asked for, by init, set_threaded or unset_threaded
  switches,   \* how often the mode has been asked for
  continue,   \* worker_continue
  asleep,     \* the worker is blocked on worker_cond
  deadline,   \* until when, 0 for ever
  owner,      \* who holds each lock
  pc,         \* where each thread is
  cur,        \* the task in the local variable `task` of each thread
  arg,        \* the task each thread is pushing
  checking,   \* the mode is changed by task_queue_check
  old,        \* the flags a thread has read and is about to write back
  todo,       \* what is left of a traversal of tasks_running
  waiting,    \* the frame loop is inside task_queue_wait
  unbegun,    \* history: the tasks pushed and not yet run, in the order of pushing
  done        \* history: the tasks whose handler has set FINISHED

lists   == <<running, finished, batch>>
props   == <<flags, when, life>>
history == <<unbegun, done>>
mode    == <<impl, threaded, asked, switches>>
sleep   == <<continue, asleep, deadline>>
threads == <<cur, arg, checking, old, todo, waiting>>
vars    == <<lists, props, history, now, mode, sleep, owner, pc, threads>>

Flags == {"FINISHED", "CANCELLED"}
Locks == {"running_lock", "finished_lock", "property_lock"}

MainLabels ==
  {"idle", "stop", "join", "init", "gather", "scan", "batch", "handler",
   "set_flags", "put", "rebuild", "collect_lock", "collect", "callback",
   "wait_running", "wait_finished", "wait_regular", "cancel", "cancel_write"}
WorkerLabels ==
  {"none", "top", "sleep", "handler", "set_flags", "put", "read_flags",
   "requeue", "remove", "put_finished"}

ListsOK ==
  /\ running \in Seq(Tasks) /\ finished \in Seq(Tasks) /\ batch \in Seq(Tasks)
  /\ todo \in Seq(Tasks)
  /\ unbegun \in Seq(Tasks) /\ done \subseteq Tasks
PropsOK ==
  /\ flags \in [Tasks -> SUBSET Flags]
  /\ when \in [Tasks -> Nat]
  /\ life \in [Tasks -> {"new", "pushing", "pushed", "freed"}]
ModeOK ==
  /\ now \in Nat
  /\ impl \in {"none", "regular", "threaded"}
  /\ threaded \in BOOLEAN /\ asked \in BOOLEAN /\ switches \in 0..MaxSwitches
  /\ continue \in BOOLEAN /\ asleep \in BOOLEAN /\ deadline \in Nat
  /\ checking \in BOOLEAN /\ waiting \in BOOLEAN
PcOK ==
  /\ pc \in [Threads -> MainLabels \cup WorkerLabels]
  /\ pc[Main] \in MainLabels /\ pc[Worker] \in WorkerLabels
LocalsOK ==
  /\ owner \in [Locks -> Threads \cup {Nobody}]
  /\ cur \in [Threads -> Tasks \cup {NoTask}]
  /\ arg \in [Threads -> Tasks \cup {NoTask}]
  /\ old \in [Threads -> SUBSET Flags]
TypeOK == ListsOK /\ PropsOK /\ ModeOK /\ PcOK /\ LocalsOK

Init ==
  /\ running = <<>> /\ finished = <<>> /\ batch = <<>>
  /\ flags = [t \in Tasks |-> {}]
  /\ when = [t \in Tasks |-> 0]
  /\ life = [t \in Tasks |-> "new"]
  /\ now = 0
  /\ threaded \in Modes /\ asked = threaded
  /\ impl = IF threaded THEN "threaded" ELSE "regular"
  /\ switches = 0
  /\ continue = TRUE /\ asleep = FALSE /\ deadline = 0
  /\ owner = [l \in Locks |-> Nobody]
  /\ pc = [th \in Threads |-> IF th = Main THEN "idle"
                              ELSE IF threaded THEN "top" ELSE "none"]
  /\ cur = [th \in Threads |-> NoTask]
  /\ arg = [th \in Threads |-> NoTask]
  /\ checking = FALSE
  /\ old = [th \in Threads |-> {}]
  /\ todo = <<>>
  /\ waiting = FALSE
  /\ unbegun = <<>> /\ done = {}

Goto(th, l) == pc' = [pc EXCEPT ![th] = l]
At(th, l)   == pc[th] = l

\* slock_lock and slock_unlock: nothing when the lock is NULL.
Free(l) == owner[l] = Nobody
Acquire(l, th) ==
  IF impl = "threaded"
  THEN Free(l) /\ owner' = [owner EXCEPT ![l] = th]
  ELSE UNCHANGED owner
Release(l) == owner' = [owner EXCEPT ![l] = Nobody]

\* Mutant: the worker is not woken.
NoSignal == UNCHANGED asleep

\* scond_signal(worker_cond).
Signal == asleep' = FALSE

\* The times a caller or a handler may give `when`, apart from 0.
Later == { w \in { now + d : d \in Delays } : w < MaxTime }
-----------------------------------------------------------------------------
(* task_queue_push, by the frame loop, a callback or a handler. *)

\* Mutant: the search begins behind the first task.
BlockingBehindFirst == running # <<>> /\ Members(Tail(running)) \cap Blocking # {}

\* The search for a blocking task, under queue_lock.
FoundBlocking == Members(running) \cap Blocking # {}

\* task_init and the caller's settings, then the search.  When one is found the
\* caller frees its task and may try again: nothing has changed.
PushCheck(th, t) ==
  /\ pc[th] \in Contexts
  /\ Pusher[t] = pc[th]
  /\ life[t] = "new"
  /\ t \in Blocking => ~ FoundBlocking
  /\ \E w \in {0} \cup Later : when' = [when EXCEPT ![t] = w]
  /\ life' = [life EXCEPT ![t] = "pushing"]
  /\ arg' = [arg EXCEPT ![th] = t]
  /\ Goto(th, "put")
  /\ UNCHANGED <<lists, flags, history, now, mode, sleep, owner, cur, checking, old, todo, waiting>>

\* impl_current->push_running.
PushRunning(th) ==
  /\ At(th, "put")
  /\ Free("running_lock")
  /\ running' = task_queue_put(running, arg[th], when)
  /\ life' = [life EXCEPT ![arg[th]] = "pushed"]
  /\ unbegun' = Append(unbegun, arg[th])
  /\ Signal
  /\ arg' = [arg EXCEPT ![th] = NoTask]
  /\ Goto(th, Pusher[arg[th]])
  /\ UNCHANGED <<finished, batch, flags, when, done, now, mode, continue, deadline,
                 owner, cur, checking, old, todo, waiting>>
-----------------------------------------------------------------------------
(* A task's handler, called by the worker or by retro_task_regular_gather. *)

\* The handler of t is called; the first time, t leaves unbegun.
Begin(t) ==
  unbegun' = IF t \in Members(unbegun) THEN task_queue_remove(unbegun, t) ELSE unbegun

\* Mutant: both callers go on as retro_task_regular_gather does.
AfterHandlerOfMain(th) == Goto(th, "rebuild")

\* Where the caller of the handler goes on.
AfterHandler(th) == Goto(th, IF th = Main THEN "rebuild" ELSE "read_flags")

\* The handler returns with work left for the next call.
HandlerYields(th) ==
  /\ At(th, "handler")
  /\ AfterHandler(th)
  /\ UNCHANGED <<lists, props, history, now, mode, sleep, owner, threads>>

\* It asks to be called again later; `when` is written under no lock.
HandlerReschedules(th) ==
  /\ At(th, "handler")
  /\ cur[th] \in Rescheduling
  /\ \E w \in Later : when' = [when EXCEPT ![cur[th]] = w]
  /\ AfterHandler(th)
  /\ UNCHANGED <<lists, flags, life, history, now, mode, sleep, owner, threads>>

\* task_set_flags(task, RETRO_TASK_FLG_FINISHED, true): the flags are read ...
HandlerReadsFlags(th) ==
  /\ At(th, "handler")
  /\ Acquire("property_lock", th)
  /\ old' = [old EXCEPT ![th] = flags[cur[th]]]
  /\ Goto(th, "set_flags")
  /\ UNCHANGED <<lists, props, history, now, mode, sleep, cur, arg, checking, todo, waiting>>

\* ... and written back with FINISHED in them; then the handler returns.
HandlerSetsFinished(th) ==
  /\ At(th, "set_flags")
  /\ flags' = [flags EXCEPT ![cur[th]] = old[th] \cup {"FINISHED"}]
  /\ done' = done \cup {cur[th]}
  /\ old' = [old EXCEPT ![th] = {}]
  /\ Release("property_lock")
  /\ AfterHandler(th)
  /\ UNCHANGED <<lists, when, life, unbegun, now, mode, sleep,
                 cur, arg, checking, todo, waiting>>
-----------------------------------------------------------------------------
(* threaded_worker. *)

WorkerExits ==
  /\ At(Worker, "top")
  /\ Free("running_lock")
  /\ ~continue
  /\ Goto(Worker, "none")
  /\ UNCHANGED <<lists, props, history, now, mode, sleep, owner, threads>>

\* The time left before the first task is due.
Delay == when[Head(running)] - now - Slack
NotDue == when[Head(running)] # 0 /\ Delay > 0

\* Nothing to do (scond_wait), or nothing yet (scond_wait_timeout).
WorkerSleeps ==
  /\ At(Worker, "top")
  /\ Free("running_lock")
  /\ continue
  /\ \/ running = <<>> /\ deadline' = 0
     \/ running # <<>> /\ NotDue /\ deadline' = now + Delay
  /\ asleep' = TRUE
  /\ Goto(Worker, "sleep")
  /\ UNCHANGED <<lists, props, history, now, mode, continue, owner, threads>>

\* The wait times out.
WorkerTimesOut ==
  /\ asleep
  /\ deadline # 0 /\ now >= deadline
  /\ asleep' = FALSE
  /\ UNCHANGED <<lists, props, history, now, mode, continue, deadline, owner, pc, threads>>

\* The wait ends, by a signal or in time, with running_lock taken and released.
WorkerWakes ==
  /\ At(Worker, "sleep")
  /\ ~asleep
  /\ Free("running_lock")
  /\ deadline' = 0
  /\ Goto(Worker, "top")
  /\ UNCHANGED <<lists, props, history, now, mode, continue, asleep, owner, threads>>

\* The first task is due: call its handler.  It stays in the list.
WorkerStarts ==
  /\ At(Worker, "top")
  /\ Free("running_lock")
  /\ continue
  /\ running # <<>> /\ ~NotDue
  /\ cur' = [cur EXCEPT ![Worker] = Head(running)]
  /\ Begin(Head(running))
  /\ Goto(Worker, "handler")
  /\ UNCHANGED <<lists, props, done, now, mode, sleep, owner, arg, checking, old, todo, waiting>>

WorkerReadsFlags ==
  /\ At(Worker, "read_flags")
  /\ Free("property_lock")
  /\ Goto(Worker, IF "FINISHED" \in flags[cur[Worker]] THEN "remove" ELSE "requeue")
  /\ UNCHANGED <<lists, props, history, now, mode, sleep, owner, threads>>

\* Move an unfinished task to the back, unless it is there (task->next is NULL).
WorkerRequeues ==
  /\ At(Worker, "requeue")
  /\ Free("running_lock")
  /\ LET t == cur[Worker]
     IN IF running[Len(running)] # t
        THEN /\ running' = task_queue_put(task_queue_remove(running, t), t, when)
             /\ Signal
        ELSE UNCHANGED <<running, asleep>>
  /\ cur' = [cur EXCEPT ![Worker] = NoTask]
  /\ Goto(Worker, "top")
  /\ UNCHANGED <<finished, batch, props, history, now, mode, continue, deadline, owner,
                 arg, checking, old, todo, waiting>>

\* Take a finished task out of tasks_running ...
WorkerRemoves ==
  /\ At(Worker, "remove")
  /\ Free("running_lock")
  /\ running' = task_queue_remove(running, cur[Worker])
  /\ Goto(Worker, "put_finished")
  /\ UNCHANGED <<finished, batch, props, history, now, mode, sleep, owner, threads>>

\* ... and, no lock having been held in between, put it on tasks_finished.
WorkerPutsFinished ==
  /\ At(Worker, "put_finished")
  /\ Free("finished_lock")
  /\ finished' = task_queue_put(finished, cur[Worker], when)
  /\ cur' = [cur EXCEPT ![Worker] = NoTask]
  /\ Goto(Worker, "top")
  /\ UNCHANGED <<running, batch, props, history, now, mode, sleep, owner,
                 arg, checking, old, todo, waiting>>
-----------------------------------------------------------------------------
(* task_queue_check, and the changes of mode. *)

\* task_queue_check: change the implementation if another mode is wanted.
Check ==
  /\ At(Main, "idle")
  /\ checking' = (threaded # (impl = "threaded"))
  /\ Goto(Main, IF threaded = (impl = "threaded") THEN "gather"
                ELSE IF impl = "threaded" THEN "stop" ELSE "init")
  /\ UNCHANGED <<lists, props, history, now, mode, sleep, owner, cur, arg, old, todo, waiting>>

\* task_queue_set_threaded and task_queue_unset_threaded, from the settings.
SetThreaded ==
  /\ At(Main, "idle")
  /\ "switch" \in Ops /\ switches < MaxSwitches
  /\ switches' = switches + 1
  /\ threaded' = ~threaded
  /\ asked' = ~threaded
  /\ UNCHANGED <<lists, props, history, now, impl, sleep, owner, pc, threads>>

\* retroarch_init_task_queue: task_queue_deinit, then task_queue_init with the
\* user's setting.
InitTaskQueue ==
  /\ At(Main, "idle")
  /\ "switch" \in Ops /\ switches < MaxSwitches
  /\ switches' = switches + 1
  /\ asked' \in BOOLEAN
  /\ Goto(Main, IF impl = "threaded" THEN "stop" ELSE "init")
  /\ UNCHANGED <<lists, props, history, now, impl, threaded, sleep, owner, threads>>

\* retro_task_threaded_deinit up to sthread_join ...
DeinitStops ==
  /\ At(Main, "stop")
  /\ Free("running_lock")
  /\ continue' = FALSE
  /\ Signal
  /\ Goto(Main, "join")
  /\ UNCHANGED <<lists, props, history, now, mode, deadline, owner, threads>>

\* Mutant: the worker is not joined.
DeinitDoesNotWait ==
  /\ At(Main, "join")
  /\ impl' = "none"
  /\ Goto(Main, "init")
  /\ UNCHANGED <<lists, props, history, now, threaded, asked, switches, sleep, owner, threads>>

\* ... and from there on.
DeinitJoins ==
  /\ At(Main, "join")
  /\ At(Worker, "none")
  /\ impl' = "none"
  /\ Goto(Main, "init")
  /\ UNCHANGED <<lists, props, history, now, threaded, asked, switches, sleep, owner, threads>>

\* Mutant: worker_continue keeps the value the last deinit gave it.
InitDoesNotContinue ==
  /\ At(Main, "init")
  /\ LET want == IF checking THEN threaded ELSE asked
     IN /\ impl' = IF want THEN "threaded" ELSE "regular"
        /\ threaded' = (threaded \/ want)
        /\ pc' = [th \in Threads |-> IF th = Main THEN IF checking THEN "gather" ELSE "idle"
                                   ELSE IF want THEN "top" ELSE "none"]
  /\ checking' = FALSE
  /\ UNCHANGED <<lists, props, history, now, asked, switches, sleep, owner,
                 cur, arg, old, todo, waiting>>

\* task_queue_init, from task_queue_check with the mode it wants or with the
\* user's.  Only TRUE is remembered in task_threaded_enable.
TaskQueueInit ==
  /\ At(Main, "init")
  /\ LET want == IF checking THEN threaded ELSE asked
     IN /\ impl' = IF want THEN "threaded" ELSE "regular"
        /\ threaded' = (threaded \/ want)
        /\ continue' = (continue \/ want)
        /\ pc' = [th \in Threads |-> IF th = Main THEN IF checking THEN "gather" ELSE "idle"
                                   ELSE IF want THEN "top" ELSE "none"]
  /\ checking' = FALSE
  /\ UNCHANGED <<lists, props, history, now, asked, switches, asleep, deadline, owner,
                 cur, arg, old, todo, waiting>>
-----------------------------------------------------------------------------
(* retro_task_threaded_gather. *)

GatherLocks ==
  /\ At(Main, "gather") /\ impl = "threaded"
  /\ Acquire("running_lock", Main)
  /\ todo' = running
  /\ Goto(Main, "scan")
  /\ UNCHANGED <<lists, props, history, now, mode, sleep, cur, arg, checking, old, waiting>>

\* task_queue_push_progress reports one task under property_lock.
GatherReports ==
  /\ At(Main, "scan")
  /\ todo # <<>>
  /\ Free("property_lock")
  /\ todo' = Tail(todo)
  /\ UNCHANGED <<lists, props, history, now, mode, sleep, owner, pc, cur, arg, checking, old, waiting>>

GatherUnlocks ==
  /\ At(Main, "scan")
  /\ todo = <<>>
  /\ Release("running_lock")
  /\ Goto(Main, "collect_lock")
  /\ UNCHANGED <<lists, props, history, now, mode, sleep, threads>>

CollectLocks ==
  /\ At(Main, "collect_lock")
  /\ Acquire("finished_lock", Main)
  /\ Goto(Main, "collect")
  /\ UNCHANGED <<lists, props, history, now, mode, sleep, threads>>

(* retro_task_internal_gather. *)

\* Take the first finished task, report it and call its callback.
Collect ==
  /\ At(Main, "collect")
  /\ finished # <<>>
  /\ Free("property_lock")
  /\ cur' = [cur EXCEPT ![Main] = Head(finished)]
  /\ finished' = Tail(finished)
  /\ Goto(Main, "callback")
  /\ UNCHANGED <<running, batch, props, history, now, mode, sleep, owner,
                 arg, checking, old, todo, waiting>>

\* The callback returns; cleanup, then the strings and the task are freed.
CallbackReturns ==
  /\ At(Main, "callback")
  /\ Free("property_lock")
  /\ life' = [life EXCEPT ![cur[Main]] = "freed"]
  /\ cur' = [cur EXCEPT ![Main] = NoTask]
  /\ Goto(Main, "collect")
  /\ UNCHANGED <<lists, flags, when, history, now, mode, sleep, owner,
                 arg, checking, old, todo, waiting>>

\* Nothing is left: back to the frame loop or to task_queue_wait.
CollectEnds ==
  /\ At(Main, "collect")
  /\ finished = <<>>
  /\ Release("finished_lock")
  /\ Goto(Main, IF ~waiting THEN "idle"
                ELSE IF impl = "threaded" THEN "wait_running" ELSE "wait_regular")
  /\ UNCHANGED <<lists, props, history, now, mode, sleep, threads>>
-----------------------------------------------------------------------------
(* retro_task_regular_gather. *)

\* Every task is taken from the list, which reverses it.
BatchTakes ==
  /\ At(Main, "gather") /\ impl = "regular"
  /\ batch' = Reverse(running)
  /\ running' = <<>>
  /\ Goto(Main, "batch")
  /\ UNCHANGED <<finished, props, history, now, mode, sleep, owner, threads>>

\* Mutant: a task that has a time never comes up.
DueAtOnce(t) == when[t] = 0

\* The condition for the handler to be called.
Due(t) == when[t] = 0 \/ when[t] < now

\* Put the task that has been taken from the batch where it belongs.
PutBack(t) ==
  IF "FINISHED" \in flags[t]
  THEN finished' = task_queue_put(finished, t, when) /\ UNCHANGED running
  ELSE running' = task_queue_put(running, t, when) /\ UNCHANGED finished

\* The next task is due: call its handler ...
BatchStarts ==
  /\ At(Main, "batch")
  /\ batch # <<>>
  /\ Due(Head(batch))
  /\ cur' = [cur EXCEPT ![Main] = Head(batch)]
  /\ batch' = Tail(batch)
  /\ Begin(Head(batch))
  /\ Goto(Main, "handler")
  /\ UNCHANGED <<running, finished, props, done, now, mode, sleep, owner,
                 arg, checking, old, todo, waiting>>

\* ... and see whether it has finished.
BatchPuts ==
  /\ At(Main, "rebuild")
  /\ PutBack(cur[Main])
  /\ cur' = [cur EXCEPT ![Main] = NoTask]
  /\ Goto(Main, "batch")
  /\ UNCHANGED <<batch, props, history, now, mode, sleep, owner, arg, checking, old, todo, waiting>>

\* The next task is not due.
BatchSkips ==
  /\ At(Main, "batch")
  /\ batch # <<>>
  /\ ~ Due(Head(batch))
  /\ PutBack(Head(batch))
  /\ batch' = Tail(batch)
  /\ UNCHANGED <<props, history, now, mode, sleep, owner, pc, threads>>

BatchEnds ==
  /\ At(Main, "batch")
  /\ batch = <<>>
  /\ Goto(Main, "collect")
  /\ UNCHANGED <<lists, props, history, now, mode, sleep, owner, threads>>
-----------------------------------------------------------------------------
(* task_queue_wait.  The caller's condition is any function: after a pass *)
(* it may let the wait go on or end it.                                    *)

\* The first task of a list is to be run as soon as possible.
FirstIsActive(q) == q # <<>> /\ when[Head(q)] = 0

Wait ==
  /\ At(Main, "idle")
  /\ "wait" \in Ops
  /\ waiting' = TRUE
  /\ Goto(Main, IF impl = "threaded" THEN "gather" ELSE "wait_regular")
  /\ UNCHANGED <<lists, props, history, now, mode, sleep, owner, cur, arg, checking, old, todo>>

Condition ==
  \/ Goto(Main, "gather") /\ UNCHANGED waiting
  \/ Goto(Main, "idle") /\ waiting' = FALSE

\* The last reason to go on waiting is gone.
WaitReturns == Goto(Main, "idle") /\ waiting' = FALSE

WaitLooksAtRunning ==
  /\ At(Main, "wait_running")
  /\ Free("running_lock")
  /\ IF FirstIsActive(running) THEN Condition
     ELSE Goto(Main, "wait_finished") /\ UNCHANGED waiting
  /\ UNCHANGED <<lists, props, history, now, mode, sleep, owner, cur, arg, checking, old, todo>>

WaitLooksAtFinished ==
  /\ At(Main, "wait_finished")
  /\ Free("finished_lock")
  /\ IF FirstIsActive(finished) THEN Condition ELSE WaitReturns
  /\ UNCHANGED <<lists, props, history, now, mode, sleep, owner, cur, arg, checking, old, todo>>

\* The loop of retro_task_regular_wait.
WaitRegular ==
  /\ At(Main, "wait_regular")
  /\ IF FirstIsActive(running) THEN Condition ELSE WaitReturns
  /\ UNCHANGED <<lists, props, history, now, mode, sleep, owner, cur, arg, checking, old, todo>>
-----------------------------------------------------------------------------
(* task_queue_cancel_task and task_queue_reset.  In the regular mode a task *)
(* is cancelled without being looked for in the list.                       *)

\* Mutant: the threaded mode does not look either.
NoSearch(t) == life[t] # "new"

\* The search of retro_task_threaded_cancel.
Found(t) == t \in Members(running)

Cancel(t) ==
  /\ At(Main, "idle")
  /\ "cancel" \in Ops
  /\ Acquire("running_lock", Main)
  /\ IF impl = "threaded"
     THEN todo' = IF Found(t) THEN <<t>> ELSE <<>>
     ELSE life[t] = "pushed" /\ todo' = <<t>>
  /\ Goto(Main, "cancel")
  /\ UNCHANGED <<lists, props, history, now, mode, sleep, cur, arg, checking, old, waiting>>

Reset ==
  /\ At(Main, "idle")
  /\ "reset" \in Ops
  /\ Acquire("running_lock", Main)
  /\ todo' = running
  /\ Goto(Main, "cancel")
  /\ UNCHANGED <<lists, props, history, now, mode, sleep, cur, arg, checking, old, waiting>>

\* The flags are read and written back under running_lock, not property_lock.
CancelReadsFlags ==
  /\ At(Main, "cancel")
  /\ todo # <<>>
  /\ old' = [old EXCEPT ![Main] = flags[Head(todo)]]
  /\ Goto(Main, "cancel_write")
  /\ UNCHANGED <<lists, props, history, now, mode, sleep, owner, cur, arg, checking, todo, waiting>>

CancelSetsCancelled ==
  /\ At(Main, "cancel_write")
  /\ flags' = [flags EXCEPT ![Head(todo)] = old[Main] \cup {"CANCELLED"}]
  /\ old' = [old EXCEPT ![Main] = {}]
  /\ todo' = Tail(todo)
  /\ Goto(Main, "cancel")
  /\ UNCHANGED <<lists, when, life, history, now, mode, sleep, owner,
                 cur, arg, checking, waiting>>

CancelEnds ==
  /\ At(Main, "cancel")
  /\ todo = <<>>
  /\ Release("running_lock")
  /\ Goto(Main, "idle")
  /\ UNCHANGED <<lists, props, history, now, mode, sleep, threads>>
-----------------------------------------------------------------------------
Tick ==
  /\ now < MaxTime
  /\ now' = now + 1
  /\ UNCHANGED <<lists, props, history, mode, sleep, owner, pc, threads>>

Push(th) == (\E t \in Tasks : PushCheck(th, t)) \/ PushRunning(th)

Handler(th) ==
  \/ HandlerYields(th) \/ HandlerReschedules(th)
  \/ HandlerReadsFlags(th) \/ HandlerSetsFinished(th)

WorkerStep ==
  \/ WorkerExits \/ WorkerSleeps \/ WorkerTimesOut \/ WorkerWakes \/ WorkerStarts
  \/ WorkerReadsFlags \/ WorkerRequeues \/ WorkerRemoves \/ WorkerPutsFinished

SwitchStep == DeinitStops \/ DeinitJoins \/ TaskQueueInit

GatherStep ==
  \/ GatherLocks \/ GatherReports \/ GatherUnlocks
  \/ CollectLocks \/ Collect \/ CallbackReturns \/ CollectEnds
  \/ BatchTakes \/ BatchStarts \/ BatchPuts \/ BatchSkips \/ BatchEnds

WaitStep == WaitLooksAtRunning \/ WaitLooksAtFinished \/ WaitRegular

CancelStep == CancelReadsFlags \/ CancelSetsCancelled \/ CancelEnds

\* What the frame loop chooses to do.
FrameLoop ==
  \/ Check \/ SetThreaded \/ InitTaskQueue \/ Wait \/ Reset
  \/ \E t \in Tasks : Cancel(t)

Next ==
  \/ \E th \in Threads : Push(th) \/ Handler(th)
  \/ WorkerStep \/ FrameLoop
  \/ SwitchStep \/ GatherStep \/ WaitStep \/ CancelStep
  \/ Tick

Spec == Init /\ [][Next]_vars

-----------------------------------------------------------------------------
\* The steps by which each thread goes on with what it is doing.
MainStep ==
  \/ PushRunning(Main) \/ Handler(Main)
  \/ SwitchStep \/ GatherStep \/ WaitStep \/ CancelStep
WorkerRuns == WorkerStep \/ PushRunning(Worker) \/ Handler(Worker)

\* The handler of t sets FINISHED.
Finishes(t) ==
  \E th \in Threads : cur[th] = t /\ (HandlerReadsFlags(th) \/ HandlerSetsFinished(th))

\* Time passes; each thread goes on (with strong fairness, as it may have to
\* wait for a lock the other takes again and again); the frame loop calls
\* task_queue_check on every frame; a handler called often enough finishes.
Fairness ==
  /\ WF_vars(Tick)
  /\ SF_vars(MainStep) /\ SF_vars(WorkerRuns)
  /\ SF_vars(Check)
  /\ \A t \in Tasks \ Endless : SF_vars(Finishes(t))

FairSpec == Spec /\ Fairness
-----------------------------------------------------------------------------
\* Thread th is inside the handler of cur[th].
InHandler(th) ==
  \/ pc[th] \in {"handler", "set_flags"}
  \/ pc[th] = "put" /\ Pusher[arg[th]] = "handler"

\* The worker has a task and has not yet taken it out of tasks_running.
WorkerHas ==
  InHandler(Worker) \/ pc[Worker] \in {"read_flags", "requeue", "remove"}

\* The tasks that are in no list: the one the main thread runs or delivers, and
\* the one the worker carries from tasks_running to tasks_finished.
Held ==
  ({cur[Main]} \ {NoTask})
  \cup (IF pc[Worker] = "put_finished" THEN {cur[Worker]} ELSE {})

\* The queue owns every task that has been pushed, in one place, until it is
\* freed: no list holds a task twice or one that another list or a thread holds,
\* none is lost on the way (from tasks_running over the worker to
\* tasks_finished, through the batch of the regular mode, over a change of
\* mode), none that has been freed is still reachable, and the task whose
\* handler the worker runs is still in tasks_running.
EveryTaskInOnePlace ==
  /\ NoDuplicates(running) /\ NoDuplicates(finished) /\ NoDuplicates(batch)
  /\ Members(running) \cap Members(finished) = {}
  /\ Members(running) \cap Members(batch) = {}
  /\ Members(finished) \cap Members(batch) = {}
  /\ Held \cap (Members(running) \cup Members(finished) \cup Members(batch)) = {}
  /\ Held \cup Members(running) \cup Members(finished) \cup Members(batch)
       = { t \in Tasks : life[t] = "pushed" }
  /\ WorkerHas => cur[Worker] \in Members(running)
  /\ pc[Worker] = "put_finished" => cur[Main] # cur[Worker]
  /\ Members(todo) \subseteq { t \in Tasks : life[t] = "pushed" }

\* What the program counters say about the local variables and the mode.
MainHas ==
  \/ InHandler(Main)
  \/ pc[Main] \in {"rebuild", "callback"}
  \/ pc[Main] = "put" /\ Pusher[arg[Main]] = "callback"
Control ==
  /\ \A th \in Threads : arg[th] # NoTask <=> pc[th] = "put"
  /\ \A th \in Threads : pc[th] = "put" => life[arg[th]] = "pushing"
  /\ pc[Main] = "put" /\ pc[Worker] = "put" => arg[Main] # arg[Worker]
  /\ pc[Worker] = "put" => Pusher[arg[Worker]] = "handler"
  /\ cur[Main] # NoTask <=> MainHas
  /\ cur[Worker] # NoTask <=> WorkerHas \/ pc[Worker] = "put_finished"
  /\ batch # <<>> => InHandler(Main) \/ pc[Main] \in {"batch", "rebuild"}
  /\ todo # <<>> => pc[Main] \in {"scan", "cancel", "cancel_write"}
  /\ pc[Main] = "cancel_write" => todo # <<>>
  /\ impl # "threaded" => pc[Worker] = "none"
  /\ pc[Main] = "init" => impl # "threaded"

\* The inductive invariant behind TypeOK and EveryTaskInOnePlace.
IInv == TypeOK /\ Control /\ EveryTaskInOnePlace

\* "Only one blocking task can exist in the queue at a time": the search of
\* task_queue_push and the insertion are two critical sections, and in the
\* regular mode the tasks of the batch are in no list that is searched.
OneBlockingTask ==
  \A t, u \in Blocking :
    {t, u} \subseteq Members(running) \cup Members(batch)
                     \cup { cur[th] : th \in { x \in Threads : InHandler(x) } }
      => t = u

\* The tasks that are in the queue and not finished, as far as the main thread
\* can tell; the one the worker runs is among those of tasks_running.
InQueue ==
  Members(running) \cup Members(batch)
    \cup (IF InHandler(Main) \/ pc[Main] = "rebuild" THEN {cur[Main]} ELSE {})

\* What keeps the blocking tasks apart between the search and the insertion:
\* handlers do not push them, and the main thread does not push anything else
\* until the one it has found no other for is in tasks_running.
BlockingInv ==
  /\ \A t, u \in Blocking : {t, u} \subseteq InQueue => t = u
  /\ pc[Main] = "put" /\ arg[Main] \in Blocking => InQueue \cap Blocking = {}
  /\ pc[Worker] = "put" => arg[Worker] \notin Blocking

\* How far each task has come, seen as by TaskLifecycle.
Stage(t) ==
  CASE life[t] \in {"new", "pushing"} -> "new"
    [] life[t] = "freed" -> "freed"
    [] life[t] = "pushed" /\ \E th \in Threads :
         cur[th] = t /\ (InHandler(th) \/ pc[th] \in {"read_flags", "rebuild"}) -> "active"
    [] life[t] = "pushed" /\
         \/ t \in Members(finished)
         \/ t = cur[Worker] /\ pc[Worker] \in {"remove", "put_finished"}
         \/ t = cur[Main] /\ ~InHandler(Main) /\ pc[Main] # "rebuild"
       -> "finished"
    [] OTHER -> "queued"

Lifecycle == INSTANCE TaskLifecycle WITH stage <- [t \in Tasks |-> Stage(t)]

\* Both modes, and the changes between them, implement the life cycle that
\* task_queue.h promises.
ImplementsLifecycle == Lifecycle!Spec
-----------------------------------------------------------------------------
\* tasks_running without the task whose handler the worker runs.
Waiting == IF WorkerHas THEN task_queue_remove(running, cur[Worker]) ELSE running

\* "the queue is sorted by 'when' so items that aren't scheduled to run
\* immediately are at the back of the queue" (task_queue_put): no task waits
\* behind one that is due later.  The worker sleeps until its first task is
\* due, so a task behind it would not be run in time.
RunningSorted == SortedByWhen(Waiting, when)

\* "Tasks with the same task::when value will be executed in the order they
\* were scheduled" (task_queue_push): the first time a handler is called, no
\* task with the same `when` that was pushed before it is still to be run.
FirstRunsInOrder ==
  [][ \A j \in 1..Len(unbegun) :
        unbegun[j] \notin Members(unbegun') =>
          \A i \in 1..(j - 1) : when[unbegun[i]] # when[unbegun[j]] ]_vars

\* A task whose handler has set FINISHED is finished: "At this point the task
\* queue will call callback and cleanup, then deallocate the task" and the
\* handler is never called again.
FinishedIsFinal ==
  \A th \in Threads : InHandler(th) /\ pc[th] # "put" => cur[th] \notin done

\* task_queue_wait "Block[s] until all active (i.e. current time > task::when)
\* tasks have finished": unless its condition ends it, it returns when no task
\* to be run as soon as possible is left that was pushed.
NothingActive == \A t \in Tasks : life[t] = "pushed" => when[t] # 0
WaitDrains ==
  [][ waiting /\ ~waiting' /\ ~ (FirstIsActive(running) /\ pc[Main] # "wait_finished")
        /\ ~ (FirstIsActive(finished) /\ pc[Main] = "wait_finished")
      => NothingActive ]_vars

\* A task that has been pushed is delivered to its callback and freed.
EveryTaskDelivered ==
  \A t \in Tasks : life[t] = "pushed" ~> life[t] = "freed"

\* task_queue_deinit returns: the worker sees worker_continue and exits, however
\* it was waiting.
DeinitReturns == At(Main, "join") ~> At(Main, "init")

\* "The time (in microseconds) when the task should start running": a task that
\* is due is run, whatever the other tasks do.
DueTasksRun ==
  \A t \in Tasks :
    (life[t] = "pushed" /\ when[t] < now) ~> (t \in done \/ t \notin Members(unbegun))
=============================================================================
