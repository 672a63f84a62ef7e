------------------------------ MODULE Executor ------------------------------
(***************************************************************************)
(* The executor of internal/testing/executor: clients submit tasks to a    *)
(* bounded queue, a dispatcher hands them to a pool of workers, and Stop   *)
(* shuts everything down.                                                  *)
(*                                                                         *)
(* Channels without a buffer (a worker's task and done, terminating) are   *)
(* joint steps of the two ends; tasks and availableWorker are queues; the  *)
(* wait groups are counters.  If tasks has no buffer, its one slot is the  *)
(* task the dispatcher has received and not yet passed to the pool.  One   *)
(* goroutine calls Stop.                                                   *)
(***************************************************************************)
EXTENDS Integers, Sequences, FiniteSets

CONSTANTS
  Tasks,        \* tasks clients submit, each one once
  Delayed,      \* those submitted with SubmitDelayed
  Workers,      \* workers of the pool
  QueueLength,  \* capacity of the channel tasks
  WaitFlag,     \* argument of Stop
  NoTask

ASSUME ExecutorAssumption ==
  /\ Delayed \subseteq Tasks
  /\ IsFiniteSet(Tasks) /\ IsFiniteSet(Workers)
  /\ QueueLength \in Nat
  /\ WaitFlag \in BOOLEAN
  /\ NoTask \notin Tasks

VARIABLES
  state,        \* Executor.state
  tasks,        \* Executor.tasks
  wg,           \* Executor.wg
  sub,          \* where the submission of each task is
  disp,         \* the dispatcher: "off", "select", "assign" or "done"
  dtask,        \* the task it holds
  avail,        \* Pool.availableWorker
  taskWg,       \* Pool.taskWg
  poolWg,       \* Pool.wg
  worker,       \* each worker: "off", "announce", "select", "busy" or "stopped"
  wtask,        \* the task it invokes
  runs,         \* how often each task was completed
  stop,         \* where the call of Stop is
  waiter,       \* where the call of Wait is: "no", "wait" or "returned"
  stopFor,      \* the tasks accepted when Stop was called
  waitFor       \* the tasks accepted when Wait was called

client == <<sub, wg>>
dispatcher == <<disp, dtask>>
pool == <<avail, taskWg, poolWg, worker, wtask, runs>>
calls == <<stop, stopFor, waiter, waitFor>>
vars == <<state, tasks, client, dispatcher, pool, calls>>

\* Submissions that returned nil.
Accepted == {t \in Tasks : sub[t] \in {"timer", "late", "lateAdded", "dropped", "accepted"}}

\* The tasks that can be between Submit and the pool.
Slots(capacity) == IF capacity = 0 THEN 1 ELSE capacity

\* The variables range over their types.
TypeOK ==
  /\ state \in {"NEW", "STARTED", "TERMINATED"}
  /\ tasks \in Seq(Tasks) /\ Len(tasks) <= Slots(QueueLength)
  /\ wg \in Nat /\ taskWg \in Nat /\ poolWg \in 0 .. Cardinality(Workers)
  /\ sub \in [Tasks -> {"new", "checked", "added", "timer", "late", "lateAdded", "dropped", "accepted", "refused"}]
  /\ disp \in {"off", "select", "assign", "done"}
  /\ dtask \in Tasks \cup {NoTask}
  /\ avail \in Seq(Workers) /\ Len(avail) <= Cardinality(Workers)
  /\ worker \in [Workers -> {"off", "announce", "select", "busy", "stopped"}]
  /\ wtask \in [Workers -> Tasks \cup {NoTask}]
  /\ runs \in [Tasks -> Nat]
  /\ stop \in {"no", "drain", "terminate", "tasks", "workers", "returned"}
  /\ waiter \in {"no", "wait", "returned"}
  /\ stopFor \subseteq Tasks /\ waitFor \subseteq Tasks
-----------------------------------------------------------------------------
(***************************************************************************)
(* Clients.                                                                *)
(***************************************************************************)
Start ==
  /\ state = "NEW"
  /\ state' = "STARTED"
  /\ poolWg' = Cardinality(Workers)
  /\ worker' = [w \in Workers |-> "announce"]
  /\ disp' = "select"
  /\ UNCHANGED <<tasks, client, dtask, avail, taskWg, wtask, runs, calls>>

\* Submit and SubmitDelayed look at the state, under no lock.
Check(t) ==
  /\ sub[t] = "new"
  /\ sub' = [sub EXCEPT ![t] = IF state = "STARTED" THEN "checked" ELSE "refused"]
  /\ UNCHANGED <<state, tasks, wg, dispatcher, pool, calls>>

\* Submission t goes on, and the wait group counts it.
Raise(t, from, to) ==
  /\ sub[t] = from
  /\ wg' = wg + 1
  /\ sub' = [sub EXCEPT ![t] = to]
  /\ UNCHANGED <<state, tasks, dispatcher, pool, calls>>

\* A task is sent to the channel tasks once it has room, or, if it has no buffer,
\* once the dispatcher receives.
Send(t, from, capacity) ==
  /\ sub[t] = from
  /\ Len(tasks) < Slots(capacity)
  /\ capacity = 0 => disp = "select"
  /\ tasks' = Append(tasks, t)
  /\ sub' = [sub EXCEPT ![t] = "accepted"]
  /\ UNCHANGED <<state, dispatcher, pool, calls>>

\* Only then is the wait group raised.
Add(t) == Raise(t, "checked", IF t \in Delayed THEN "timer" ELSE "added")

\* Mutant: the channel is made one longer than queueLength.
Enqueue_OneMore(t) == Send(t, "added", QueueLength + 1) /\ UNCHANGED wg

Enqueue(t) == Send(t, "added", QueueLength) /\ UNCHANGED wg

\* The timer of SubmitDelayed fires and Submit is called; its error is dropped.
TimerFires(t) ==
  /\ sub[t] = "timer"
  /\ IF state = "STARTED"
     THEN sub' = [sub EXCEPT ![t] = "late"] /\ UNCHANGED wg
     ELSE sub' = [sub EXCEPT ![t] = "dropped"] /\ wg' = wg - 1
  /\ UNCHANGED <<state, tasks, dispatcher, pool, calls>>

LateAdd(t) == Raise(t, "late", "lateAdded")

LateEnqueue(t) == Send(t, "lateAdded", QueueLength) /\ wg' = wg - 1

WaitCalled ==
  /\ waiter = "no"
  /\ state # "NEW"
  /\ waiter' = "wait"
  /\ waitFor' = Accepted
  /\ UNCHANGED <<state, tasks, client, dispatcher, pool, stop, stopFor>>

WaitReturns ==
  /\ waiter = "wait"
  /\ wg = 0
  /\ waiter' = "returned"
  /\ UNCHANGED <<state, tasks, client, dispatcher, pool, stop, stopFor, waitFor>>
-----------------------------------------------------------------------------
(***************************************************************************)
(* The dispatcher and the workers.                                         *)
(***************************************************************************)

\* The dispatcher takes a task and calls Pool.Submit.
Take ==
  /\ disp = "select"
  /\ tasks # <<>>
  /\ dtask' = Head(tasks)
  /\ tasks' = Tail(tasks)
  /\ taskWg' = taskWg + 1
  /\ disp' = "assign"
  /\ UNCHANGED <<state, client, avail, poolWg, worker, wtask, runs, calls>>

\* The task goes to the first worker in the queue, and left remains.
HandOver(left) ==
  /\ disp = "assign"
  /\ avail # <<>>
  /\ LET w == Head(avail)
     IN  /\ worker' = [worker EXCEPT ![w] = "busy"]
         /\ wtask' = [wtask EXCEPT ![w] = dtask]
  /\ avail' = left
  /\ disp' = "select"
  /\ dtask' = NoTask
  /\ wg' = wg - 1
  /\ UNCHANGED <<state, tasks, sub, taskWg, poolWg, runs, calls>>

\* Mutant: Pool.Submit does not take the worker off the queue.
Assign_KeepAvailable == HandOver(avail)

\* It waits for an available worker, hands it the task, and reports the task done.
Assign == HandOver(Tail(avail))

\* StateChange(READY), then the worker selects.
Announce(w) ==
  /\ worker[w] = "announce"
  /\ avail' = Append(avail, w)
  /\ worker' = [worker EXCEPT ![w] = "select"]
  /\ UNCHANGED <<state, tasks, client, dispatcher, taskWg, poolWg, wtask, runs, calls>>

\* The task returns; done are reported to the wait group; the worker goes on at next.
TaskReturns(w, done, next) ==
  /\ worker[w] = "busy"
  /\ runs' = [runs EXCEPT ![wtask[w]] = @ + 1]
  /\ wtask' = [wtask EXCEPT ![w] = NoTask]
  /\ taskWg' = taskWg - done
  /\ worker' = [worker EXCEPT ![w] = next]
  /\ UNCHANGED <<state, tasks, client, dispatcher, avail, poolWg, calls>>

\* Mutant: TaskCompleted does not report the task to the wait group.
Complete_NoDone(w) == TaskReturns(w, 0, "announce")

\* Mutant: a worker says that it is ready before its loop, not in it.
Complete_NoAnnounce(w) == TaskReturns(w, 1, "select")

\* TaskCompleted is called, and the loop starts again.
Complete(w) == TaskReturns(w, 1, "announce")
-----------------------------------------------------------------------------
(***************************************************************************)
(* Stop.                                                                   *)
(***************************************************************************)
Stop ==
  /\ state = "STARTED"
  /\ state' = "TERMINATED"
  /\ stop' = "drain"
  /\ stopFor' = Accepted
  /\ UNCHANGED <<tasks, client, dispatcher, pool, waiter, waitFor>>

StopStep(from, to) ==
  /\ stop = from
  /\ stop' = to
  /\ UNCHANGED <<state, tasks, client, dtask, pool, stopFor, waiter, waitFor>>

\* Mutant: Stop does not wait for the dispatcher.
Drained_NoWait == StopStep("drain", "terminate") /\ UNCHANGED disp

Drained == wg = 0 /\ StopStep("drain", "terminate") /\ UNCHANGED disp

\* The dispatcher is in its select.
Terminate ==
  /\ disp = "select"
  /\ QueueLength = 0 => tasks = <<>>
  /\ disp' = "done"
  /\ StopStep("terminate", "tasks")

TasksDone == (WaitFlag => taskWg = 0) /\ StopStep("tasks", "workers") /\ UNCHANGED disp

\* Pool.Stop takes every worker once off the queue and stops it.
StopWorker ==
  /\ stop = "workers"
  /\ avail # <<>>
  /\ worker' = [worker EXCEPT ![Head(avail)] = "stopped"]
  /\ avail' = Tail(avail)
  /\ poolWg' = poolWg - 1
  /\ UNCHANGED <<state, tasks, client, dispatcher, taskWg, wtask, runs, calls>>

StopReturns == poolWg = 0 /\ StopStep("workers", "returned") /\ UNCHANGED disp
-----------------------------------------------------------------------------
Init ==
  /\ state = "NEW"
  /\ tasks = <<>>
  /\ wg = 0 /\ taskWg = 0 /\ poolWg = 0
  /\ sub = [t \in Tasks |-> "new"]
  /\ disp = "off" /\ dtask = NoTask
  /\ avail = <<>>
  /\ worker = [w \in Workers |-> "off"]
  /\ wtask = [w \in Workers |-> NoTask]
  /\ runs = [t \in Tasks |-> 0]
  /\ stop = "no" /\ stopFor = {}
  /\ waiter = "no" /\ waitFor = {}

Submission(t) == Add(t) \/ Enqueue(t) \/ TimerFires(t) \/ LateAdd(t) \/ LateEnqueue(t)
Dispatch == Take \/ Assign
Work(w) == Announce(w) \/ Complete(w)
Stopping == Drained \/ Terminate \/ TasksDone \/ StopWorker \/ StopReturns

Next ==
  \/ Start \/ Stop \/ WaitCalled \/ WaitReturns
  \/ \E t \in Tasks : Check(t) \/ Submission(t)
  \/ Dispatch
  \/ \E w \in Workers : Work(w)
  \/ Stopping

Spec == Init /\ [][Next]_vars

\* Goroutines that can go on do, and tasks return.  Clients may never call.  The
\* dispatcher selects at random between a task and terminating.
FairSpec ==
  /\ Spec
  /\ \A t \in Tasks : WF_vars(Submission(t))
  /\ \A w \in Workers : WF_vars(Work(w))
  /\ WF_vars(Dispatch) /\ WF_vars(Stopping)
-----------------------------------------------------------------------------
(***************************************************************************)
(* Properties.                                                             *)
(***************************************************************************)

\* No task is invoked twice, and a worker that is offered as available is idle.
RunsOnce ==
  /\ \A t \in Tasks : runs[t] + Cardinality({w \in Workers : wtask[w] = t}) <= 1
  /\ \A i \in 1 .. Len(avail) : worker[avail[i]] = "select"

\* When Stop(true) has returned, the tasks accepted before it was called have
\* completed, except delayed ones whose timer fired too late.  Stop changes the
\* state before it waits, while Submit is under way elsewhere, and two wait groups
\* together have to cover the whole way of a task.
StopCompletes ==
  stop = "returned" /\ WaitFlag => \A t \in stopFor : sub[t] = "dropped" \/ runs[t] = 1

\* "Wait waits for all outstanding tasks to complete" (executor.go:131).  It does
\* not: the dispatcher reports a task done when a worker has taken it.
WaitCompletes ==
  waiter = "returned" => \A t \in waitFor : sub[t] = "dropped" \/ runs[t] = 1

\* A call of Stop that got past the state check returns: the dispatcher drains the
\* queue, the tasks complete and every worker comes back to be stopped.
StopAlwaysReturns == stop # "no" ~> stop = "returned"

\* A task in the queue of an executor that was not stopped is completed, whether or
\* not Stop is called afterwards.
AcceptedRuns == \A t \in Tasks : (sub[t] = "accepted" /\ state = "STARTED") ~> runs[t] = 1
=============================================================================
