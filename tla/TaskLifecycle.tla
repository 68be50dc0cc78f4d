--------------------------- MODULE TaskLifecycle ---------------------------
(***************************************************************************)
(* What the task queue promises its callers, with no queue, lock or thread *)
(* in sight (libretro-common/include/queues/task_queue.h): a task that has *)
(* been pushed is run by one handler call at a time, no two handlers run   *)
(* at once ("All tasks run in sequence on a single thread"), a task whose  *)
(* handler has finished is delivered to its callback and deallocated       *)
(* exactly once and is never run again, and two blocking tasks are never   *)
(* in the queue together.  TaskQueue is checked to implement this.         *)
(***************************************************************************)
CONSTANTS Tasks,    \* every task the program ever allocates
          Blocking  \* those of type TASK_TYPE_BLOCKING, a subset of Tasks

VARIABLE stage  \* how far each task has come

Stages == {"new", "queued", "active", "finished", "freed"}

TypeOK == stage \in [Tasks -> Stages]

InQueue(t) == stage[t] \in {"queued", "active"}

Init == stage = [t \in Tasks |-> "new"]

Move(t, from, to) ==
  /\ stage[t] = from
  /\ stage' = [stage EXCEPT ![t] = to]

\* task_queue_push returned true.
Push(t) ==
  /\ t \in Blocking => \A u \in Blocking : ~InQueue(u)
  /\ Move(t, "new", "queued")

\* The handler is called, while no other handler is.
Start(t) ==
  /\ \A u \in Tasks : stage[u] # "active"
  /\ Move(t, "queued", "active")

\* The handler returned without having finished, or having finished.
Yield(t)  == Move(t, "active", "queued")
Finish(t) == Move(t, "active", "finished")

\* The callback and the cleanup have run and the task is deallocated.
Deliver(t) == Move(t, "finished", "freed")

Next == \E t \in Tasks : Push(t) \/ Start(t) \/ Yield(t) \/ Finish(t) \/ Deliver(t)

Spec == Init /\ [][Next]_stage
=============================================================================
