------------------------------ MODULE TaskSeq ------------------------------
(***************************************************************************)
(* The list operations of libretro-common/queues/task_queue.c, on the      *)
(* sequence of tasks a task_queue_t stands for: the tasks met by following *)
(* `next` from `front`.                                                    *)
(*                                                                         *)
(* `when` is a function from tasks to the time each should start, 0 for    *)
(* "as soon as possible".                                                  *)
(***************************************************************************)
EXTENDS Integers, Sequences, SequencesExt

\* Mutant: the loop stops at a task that is due at the same time.
InsertPosBeforeEqual(q, t, when) ==
  CHOOSE i \in 1..Len(q) :
    /\ when[q[i]] >= when[t]
    /\ \A j \in 1..(i - 1) : when[q[j]] < when[t]

\* The position of the first task of q that is due later than t: where the
\* loop of task_queue_put stops.
InsertPos(q, t, when) ==
  CHOOSE i \in 1..Len(q) :
    /\ when[q[i]] > when[t]
    /\ \A j \in 1..(i - 1) : when[q[j]] <= when[t]

\* The position of t in q.
PosOf(q, t) == CHOOSE i \in 1..Len(q) : q[i] = t

\* Mutant: `when` is not looked at.
PutLast(q, t, when) == Append(q, t)

\* Insert t into q.  Only the last task of q decides whether the list is
\* walked: a t that is not due before it is appended.
task_queue_put(q, t, when) ==
  IF q # <<>> /\ when[q[Len(q)]] > when[t]
  THEN InsertAt(q, InsertPos(q, t, when), t)
  ELSE Append(q, t)

\* Mutant: only a task at the front is unlinked.
UnlinkFirstOnly(q, t) == IF Head(q) = t THEN Tail(q) ELSE q

\* Unlink t, which is somewhere in q.
task_queue_remove(q, t) == RemoveAt(q, PosOf(q, t))

\* No task of q stands before one that is due earlier.
SortedByWhen(q, when) ==
  \A i, j \in 1..Len(q) : i < j => when[q[i]] <= when[q[j]]

\* No task occurs twice in q.
NoDuplicates(q) == \A i, j \in 1..Len(q) : q[i] = q[j] => i = j

\* The tasks in q.
Members(q) == { q[i] : i \in 1..Len(q) }
=============================================================================
