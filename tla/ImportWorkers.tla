----------------------------- MODULE ImportWorkers -----------------------------
(***************************************************************************)
(* Process-local ownership of the automatic import workers                 *)
(* (import_workers.py) and the order in which a lifespan of the service    *)
(* ends (_import_worker_lifecycle in main.py, the background tasks of      *)
(* tasks.py).                                                              *)
(*                                                                         *)
(* Everything runs on one event loop: a step is what happens between two   *)
(* awaits.  A task that has finished is still registered until its done    *)
(* callback runs, and other steps can come between.  A cancelled worker    *)
(* settles its current unit of work before it finishes.                    *)
(***************************************************************************)
EXTENDS Naturals, FiniteSets

CONSTANTS
  Queue,         \* ids of import queue rows
  Task,          \* bound: the asyncio tasks that can be created
  Producer,      \* background loops that schedule imports
  NoTask,
  MaxLifespans   \* bound: lifespans of the application in this process

VARIABLES
  phase,       \* of the lifespan
  accepting,   \* _accepting_import_workers
  workers,     \* _IMPORT_WORKERS
  task,        \* every task: its row and what became of it
  producers,   \* _BACKGROUND_TASKS that are still running
  awaited,     \* the tasks that cancel_import_workers gathers
  lifespans

vars == <<phase, accepting, workers, task, producers, awaited, lifespans>>

NotCreated == [row |-> NoTask, state |-> "new"]
Alive(t) == task[t].state \in {"running", "cancelling"}

TypeOK ==
  /\ phase \in {"down", "up", "stopping", "draining"}
  /\ accepting \in BOOLEAN
  /\ workers \in [Queue -> Task \union {NoTask}]
  /\ task \in [Task -> [row: Queue \union {NoTask},
                        state: {"new", "running", "cancelling", "done", "over"}]]
  /\ producers \in SUBSET Producer
  /\ awaited \in SUBSET Task
  /\ lifespans \in 0..MaxLifespans

Init ==
  /\ phase = "down" /\ accepting = FALSE
  /\ workers = [q \in Queue |-> NoTask]
  /\ task = [t \in Task |-> NotCreated]
  /\ producers = {} /\ awaited = {} /\ lifespans = 0

-----------------------------------------------------------------------------
Owned == {q \in Queue : workers[q] # NoTask}

\* Start refuses while workers are owned.
start_import_worker_scheduling ==
  /\ phase = "down" /\ lifespans < MaxLifespans /\ Owned = {}
  /\ phase' = "up" /\ accepting' = TRUE /\ producers' = Producer
  /\ lifespans' = lifespans + 1
  /\ UNCHANGED <<workers, task, awaited>>

\* Mutation of Free: a row with a registered worker is scheduled again.
Free_always(q) == TRUE

\* no worker is registered, or the registered one has finished
Free(q) == workers[q] # NoTask => ~Alive(workers[q])

MaySchedule(q) == accepting /\ Free(q)

\* Called by producers, by the retry of stuck rows and by request handlers,
\* which may still be at work while the lifespan ends.
schedule_import_worker(q) ==
  /\ phase # "down" /\ MaySchedule(q)
  /\ \E t \in Task :
       /\ task[t] = NotCreated
       /\ task' = [task EXCEPT ![t] = [row |-> q, state |-> "running"]]
       /\ workers' = [workers EXCEPT ![q] = t]
  /\ UNCHANGED <<phase, accepting, producers, awaited, lifespans>>

\* _run_import_worker returns, raises or ends its cancellation
WorkerFinishes(t) ==
  /\ Alive(t)
  /\ task' = [task EXCEPT ![t].state = "done"]
  /\ UNCHANGED <<phase, accepting, workers, producers, awaited, lifespans>>

\* only the task that owns its key removes it
Unregistered(t) ==
  IF workers[task[t].row] = t THEN [workers EXCEPT ![task[t].row] = NoTask] ELSE workers

_on_import_worker_done(t) ==
  /\ task[t].state = "done"
  /\ workers' = Unregistered(t)
  /\ task' = [task EXCEPT ![t].state = "over"]
  /\ UNCHANGED <<phase, accepting, producers, awaited, lifespans>>

-----------------------------------------------------------------------------
\* the lifespan ends: no admission, then the producers, then the workers
stop_import_worker_scheduling ==
  /\ phase = "up"
  /\ phase' = "stopping" /\ accepting' = FALSE
  /\ UNCHANGED <<workers, task, producers, awaited, lifespans>>

_cancel_background_tasks(p) ==
  /\ phase = "stopping" /\ p \in producers
  /\ producers' = producers \ {p}
  /\ UNCHANGED <<phase, accepting, workers, task, awaited, lifespans>>

\* cancelling a task that has finished does nothing
Cancelled(owned) ==
  [t \in Task |-> IF t \in owned /\ task[t].state = "running"
                  THEN [task[t] EXCEPT !.state = "cancelling"] ELSE task[t]]

cancel_import_workers ==
  LET owned == {workers[q] : q \in Owned} IN
  /\ phase = "stopping" /\ producers = {}
  /\ phase' = "draining" /\ awaited' = owned
  /\ task' = Cancelled(owned)
  /\ UNCHANGED <<accepting, workers, producers, lifespans>>

\* gather's own callback was added after the worker's, and callbacks run in
\* order: when gather resumes, the awaited tasks are unregistered
Gathered == \A t \in awaited : task[t].state = "over"

LifespanEnds ==
  /\ phase = "draining" /\ Gathered
  /\ phase' = "down" /\ awaited' = {}
  /\ UNCHANGED <<accepting, workers, task, producers, lifespans>>

-----------------------------------------------------------------------------
Shutdown ==
  \/ \E p \in Producer : _cancel_background_tasks(p)
  \/ cancel_import_workers \/ LifespanEnds

LoopStep ==
  \E t \in Task : WorkerFinishes(t) \/ _on_import_worker_done(t)

Next ==
  \/ start_import_worker_scheduling \/ stop_import_worker_scheduling
  \/ \E q \in Queue : schedule_import_worker(q)
  \/ LoopStep \/ Shutdown

Spec == Init /\ [][Next]_vars

\* The event loop runs what is ready, and a cancelled worker settles its unit
\* of work and ends.  A worker that is not cancelled may take for ever.
CancelledFinishes(t) == task[t].state = "cancelling" /\ WorkerFinishes(t)
Fairness ==
  /\ WF_vars(Shutdown)
  /\ \A t \in Task : /\ WF_vars(CancelledFinishes(t))
                     /\ WF_vars(_on_import_worker_done(t))

-----------------------------------------------------------------------------
(* Properties.                                                             *)

\* A row has at most one worker that is at work, also when it is scheduled
\* again between the end of a worker and its done callback.
OneWorkerPerRow ==
  \A s, t \in Task : Alive(s) /\ Alive(t) /\ task[s].row = task[t].row => s = t

\* Every worker at work is registered, so that the shutdown reaches it.
LiveWorkerRegistered == \A t \in Task : Alive(t) => workers[task[t].row] = t

\* When the lifespan has ended no worker is left, at work or registered: the
\* next lifespan of the process is not refused.
QuietWhenDown == phase = "down" => Owned = {} /\ \A t \in Task : ~Alive(t)

\* A lifespan that has begun to stop ends, however long its imports would take.
ShutdownEnds == phase = "stopping" ~> phase = "down"
=============================================================================
