--------------------------- MODULE ExecutorProofs ---------------------------
(***************************************************************************)
(* The executor runs a task once and keeps the promises of Stop,           *)
(* for every number of tasks and workers and every length of the queue.    *)
(***************************************************************************)
EXTENDS Executor, FiniteSetTheorems, FunctionTheorems, TLAPS

(***************************************************************************)
(* Channels as sequences without repetition.                               *)
(***************************************************************************)
Elems(s) == {s[i] : i \in 1 .. Len(s)}
Distinct(s) == \A i, j \in 1 .. Len(s) : s[i] = s[j] => i = j

\* Sending to a channel adds one element.
LEMMA AppendElems ==
  ASSUME NEW S, NEW s \in Seq(S), NEW x \in S, x \notin Elems(s), Distinct(s)
  PROVE  Elems(Append(s, x)) = Elems(s) \cup {x} /\ Distinct(Append(s, x))
  <1> DEFINE a == Append(s, x)
  <1>1. Len(a) = Len(s) + 1 /\ a[Len(s) + 1] = x /\ \A i \in 1 .. Len(s) : a[i] = s[i]
    OBVIOUS
  <1>2. Len(s) \in Nat
    OBVIOUS
  <1> HIDE DEF a
  <1>3. Elems(a) = Elems(s) \cup {x}
    BY <1>1, <1>2 DEF Elems
  <1>4. Distinct(a)
    BY <1>1, <1>2 DEF Elems, Distinct
  <1> QED
    BY <1>3, <1>4 DEF a

\* Receiving from it takes the first one away.
LEMMA TailElems ==
  ASSUME NEW S, NEW s \in Seq(S), s # <<>>, Distinct(s)
  PROVE  /\ Tail(s) \in Seq(S) /\ Len(Tail(s)) = Len(s) - 1
         /\ Head(s) \in S /\ Head(s) \in Elems(s)
         /\ Elems(Tail(s)) = Elems(s) \ {Head(s)}
         /\ Distinct(Tail(s))
  <1> DEFINE r == Tail(s)
  <1>1. r \in Seq(S) /\ Len(r) = Len(s) - 1 /\ \A i \in 1 .. Len(r) : r[i] = s[i + 1]
    OBVIOUS
  <1>2. Len(s) \in Nat /\ Len(s) > 0 /\ Head(s) = s[1] /\ s[1] \in S
    OBVIOUS
  <1> HIDE DEF r
  <1>3. Distinct(r)
    BY <1>1, <1>2 DEF Distinct
  <1>4. Elems(r) = Elems(s) \ {s[1]}
    <2>1. ASSUME NEW i \in 1 .. Len(s), s[i] # s[1]
          PROVE  s[i] \in Elems(r)
      <3>1. i - 1 \in 1 .. Len(r) /\ r[i - 1] = s[i]
        BY <1>1, <1>2, <2>1
      <3> QED
        BY <3>1 DEF Elems
    <2>2. ASSUME NEW i \in 1 .. Len(r)
          PROVE  r[i] \in Elems(s) /\ r[i] # s[1]
      BY <1>1, <1>2 DEF Elems, Distinct
    <2> QED
      BY <2>1, <2>2 DEF Elems
  <1>5. s[1] \in Elems(s)
    BY <1>2 DEF Elems
  <1> QED
    BY <1>1, <1>2, <1>3, <1>4, <1>5 DEF r

\* A queue without repetition is no longer than the set it draws from.
LEMMA DistinctBounded ==
  ASSUME NEW S, IsFiniteSet(S), NEW s \in Seq(S), Distinct(s)
  PROVE  Len(s) <= Cardinality(S)
  <1>1. Len(s) \in Nat /\ s \in [1 .. Len(s) -> S]
    OBVIOUS
  <1>2. s \in Injection(1 .. Len(s), S)
    BY <1>1 DEF Injection, IsInjective, Distinct
  <1>3. Cardinality(1 .. Len(s)) <= Cardinality(S)
    BY <1>2, FS_Injection
  <1>4. Cardinality(1 .. Len(s)) = Len(s)
    BY <1>1, FS_Interval, SMTT(60)
  <1> QED
    BY <1>3, <1>4
-----------------------------------------------------------------------------
(***************************************************************************)
(* The inductive invariant.                                                *)
(***************************************************************************)
Queued == Elems(tasks)
Held == IF disp = "assign" THEN {dtask} ELSE {}
Busy == {w \in Workers : wtask[w] # NoTask}
Active == {w \in Workers : worker[w] \in {"announce", "select", "busy"}}
HandedOver(t) == runs[t] = 1 \/ \E w \in Workers : wtask[w] = t

\* The submissions the wait group counts: from Add until a worker has the task.
\* A delayed one is counted twice while its Submit waits for room.
Owed ==
  {t \in Tasks : sub[t] \in {"added", "timer", "late", "lateAdded"} \/ t \in Queued \/ t \in Held}
Twice == {t \in Tasks : sub[t] = "lateAdded"}

Places == {"new", "checked", "added", "timer", "late", "lateAdded", "dropped", "accepted", "refused"}

\* The type invariant without the counters and the length of avail.
Types ==
  /\ state \in {"NEW", "STARTED", "TERMINATED"}
  /\ tasks \in Seq(Tasks) /\ Len(tasks) <= Slots(QueueLength)
  /\ sub \in [Tasks -> Places]
  /\ disp \in {"off", "select", "assign", "done"}
  /\ dtask \in Tasks \cup {NoTask}
  /\ avail \in Seq(Workers)
  /\ worker \in [Workers -> {"off", "announce", "select", "busy", "stopped"}]
  /\ wtask \in [Workers -> Tasks \cup {NoTask}]
  /\ runs \in [Tasks -> {0, 1}]
  /\ stop \in {"no", "drain", "terminate", "tasks", "workers", "returned"}
  /\ waiter \in {"no", "wait", "returned"}

\* How the dispatcher, the workers and Stop depend on the state.
Phases ==
  /\ state = "NEW" <=> disp = "off"
  /\ \A w \in Workers : state = "NEW" <=> worker[w] = "off"
  /\ stop = "no" <=> state # "TERMINATED"
  /\ disp = "done" <=> stop \in {"tasks", "workers", "returned"}
  /\ disp = "assign" <=> dtask # NoTask

\* availableWorker holds the workers that select, each of them once.
PoolShape ==
  /\ \A w \in Workers : worker[w] = "busy" <=> wtask[w] # NoTask
  /\ \A w \in Workers : worker[w] = "select" <=> w \in Elems(avail)
  /\ Distinct(avail)

\* An accepted task is in one place: in the queue, with the dispatcher, with one
\* worker, or completed.
OnePlace ==
  /\ Distinct(tasks)
  /\ \A t \in Queued : t \notin Held /\ ~ HandedOver(t)
  /\ \A t \in Held : ~ HandedOver(t)
  /\ \A w \in Workers : wtask[w] # NoTask => runs[wtask[w]] = 0
  /\ \A v, w \in Workers : wtask[v] = wtask[w] /\ wtask[v] # NoTask => v = w
  /\ \A t \in Tasks : sub[t] = "accepted" <=> t \in Queued \/ t \in Held \/ HandedOver(t)

\* The two wait groups and the one of the pool.
Counters ==
  /\ wg = Cardinality(Owed) + Cardinality(Twice)
  /\ taskWg = Cardinality(Busy) + Cardinality(Held)
  /\ poolWg = Cardinality(Active)

\* What Stop has established so far.
Promises ==
  /\ stopFor \subseteq Accepted /\ waitFor \subseteq Accepted
  /\ stop \in {"terminate", "tasks", "workers", "returned"} =>
       \A t \in stopFor : sub[t] = "dropped" \/ HandedOver(t)
  /\ stop \in {"workers", "returned"} /\ WaitFlag =>
       \A t \in stopFor : sub[t] = "dropped" \/ runs[t] = 1

Control == Types /\ Phases /\ PoolShape
ExecutorInv == Control /\ OnePlace /\ Counters /\ Promises
-----------------------------------------------------------------------------
(***************************************************************************)
(* Control: types, phases and the pool.                                    *)
(***************************************************************************)

\* A step of a client: the submission of t changes, and at most the queue grows.
LEMMA ClientStep ==
  ASSUME Control, OnePlace, NEW t \in Tasks, Check(t) \/ Submission(t)
  PROVE  Control'
  <1>1. UNCHANGED <<state, disp, dtask, avail, worker, wtask, runs, stop, waiter>>
    BY DEF Check, Submission, Add, Raise, Enqueue, Send, TimerFires, LateAdd, LateEnqueue,
      dispatcher, pool, calls
  <1>2. sub' \in [Tasks -> Places]
    BY DEF Check, Submission, Add, Raise, Enqueue, Send, TimerFires, LateAdd, LateEnqueue,
      Control, Types, Places
  <1>3. tasks' \in Seq(Tasks) /\ Len(tasks') <= Slots(QueueLength)
    <2>1. UNCHANGED tasks \/ (tasks' = Append(tasks, t) /\ Len(tasks) < Slots(QueueLength))
      BY DEF Check, Submission, Add, Raise, Enqueue, Send, TimerFires, LateAdd, LateEnqueue
    <2> QED
      BY <2>1, ExecutorAssumption DEF Control, Types, Slots
  <1> QED
    BY <1>1, <1>2, <1>3 DEF Control, Types, Phases, PoolShape

\* A call of Wait, and the steps of Stop that only wait.
LEMMA CallStep ==
  ASSUME Control,
         WaitCalled \/ WaitReturns \/ Stop \/ Drained \/ Terminate \/ TasksDone \/ StopReturns
  PROVE  Control'
  <1>1. UNCHANGED <<tasks, sub, dtask, avail, worker, wtask, runs>>
    BY DEF WaitCalled, WaitReturns, Stop, Drained, Terminate, TasksDone, StopReturns,
      StopStep, client, dispatcher, pool
  <1>2. PoolShape'
    BY <1>1 DEF Control, PoolShape
  <1>3. Types' /\ Phases'
    <2>1. CASE WaitCalled \/ WaitReturns
      BY <1>1, <2>1 DEF WaitCalled, WaitReturns, dispatcher, Control, Types, Phases
    <2>2. CASE Stop
      BY <1>1, <2>2 DEF Stop, dispatcher, Control, Types, Phases
    <2>3. CASE Drained \/ Terminate \/ TasksDone \/ StopReturns
      BY <1>1, <2>3 DEF Drained, Terminate, TasksDone, StopReturns, StopStep, Control, Types, Phases
    <2> QED
      BY <2>1, <2>2, <2>3
  <1> QED
    BY <1>2, <1>3 DEF Control

\* Start, the dispatcher and the workers.
LEMMA PoolStep ==
  ASSUME Control, OnePlace,
         Start \/ Dispatch \/ StopWorker \/ \E w \in Workers : Work(w)
  PROVE  Control'
  <1>1. CASE Start
    <2>1. avail = <<>>
      BY <1>1 DEF Start, Control, Phases, PoolShape, Types, Elems
    <2> QED
      BY <1>1, <2>1 DEF Start, client, calls, Control, Types, Phases, PoolShape, Elems
  <1>2. CASE Take
    <2>1. /\ Tail(tasks) \in Seq(Tasks) /\ Head(tasks) \in Tasks
          /\ Len(Tail(tasks)) = Len(tasks) - 1
      BY <1>2, TailElems DEF Take, Control, Types, OnePlace
    <2>2. Len(tasks') <= Slots(QueueLength)
      BY <1>2, <2>1, ExecutorAssumption DEF Take, Control, Types, Slots
    <2> QED
      BY <1>2, <2>1, <2>2, ExecutorAssumption
        DEF Take, client, calls, Control, Types, Phases, PoolShape
  <1>3. CASE Assign
    <2>1. /\ Head(avail) \in Workers /\ Head(avail) \in Elems(avail)
          /\ Tail(avail) \in Seq(Workers)
          /\ Elems(Tail(avail)) = Elems(avail) \ {Head(avail)} /\ Distinct(Tail(avail))
      BY <1>3, TailElems DEF Assign, HandOver, Control, Types, PoolShape
    <2>2. dtask \in Tasks /\ dtask # NoTask
      BY <1>3 DEF Assign, HandOver, Control, Types, Phases
    <2>3. /\ avail' = Tail(avail) /\ disp = "assign" /\ disp' = "select" /\ dtask' = NoTask
          /\ worker' = [worker EXCEPT ![Head(avail)] = "busy"]
          /\ wtask' = [wtask EXCEPT ![Head(avail)] = dtask]
          /\ UNCHANGED <<state, tasks, sub, runs, stop, waiter>>
      BY <1>3 DEF Assign, HandOver, calls
    <2>4. worker[Head(avail)] = "select"
      BY <2>1 DEF Control, PoolShape
    <2>5. Types' /\ Phases'
      BY <2>1, <2>2, <2>3, <2>4 DEF Control, Types, Phases
    <2>6. PoolShape'
      BY <2>1, <2>2, <2>3, <2>4 DEF Control, Types, PoolShape
    <2> QED
      BY <2>5, <2>6 DEF Control
  <1>4. ASSUME NEW w \in Workers, Announce(w)
        PROVE  Control'
    <2>1. w \notin Elems(avail)
      BY <1>4 DEF Announce, Control, PoolShape
    <2>2. /\ avail' \in Seq(Workers)
          /\ Elems(avail') = Elems(avail) \cup {w} /\ Distinct(avail')
      BY <1>4, <2>1, AppendElems DEF Announce, Control, Types, PoolShape
    <2> QED
      BY <1>4, <2>2 DEF Announce, client, dispatcher, calls, Control, Types, Phases, PoolShape
  <1>5. ASSUME NEW w \in Workers, Complete(w)
        PROVE  Control'
    <2>1. wtask[w] \in Tasks /\ runs[wtask[w]] = 0
      BY <1>5 DEF Complete, TaskReturns, Control, Types, PoolShape, OnePlace
    <2>2. runs' \in [Tasks -> {0, 1}]
      BY <1>5, <2>1 DEF Complete, TaskReturns, Control, Types
    <2> QED
      BY <1>5, <2>2 DEF Complete, TaskReturns, client, dispatcher, calls, Control, Types, Phases, PoolShape
  <1>6. CASE StopWorker
    <2>1. /\ Head(avail) \in Workers /\ Head(avail) \in Elems(avail)
          /\ Tail(avail) \in Seq(Workers)
          /\ Elems(Tail(avail)) = Elems(avail) \ {Head(avail)} /\ Distinct(Tail(avail))
      BY <1>6, TailElems DEF StopWorker, Control, Types, PoolShape
    <2> QED
      BY <1>6, <2>1 DEF StopWorker, client, dispatcher, calls, Control, Types, Phases, PoolShape
  <1> QED
    BY <1>1, <1>2, <1>3, <1>4, <1>5, <1>6 DEF Dispatch, Work

\* Every step keeps the control state well formed.
LEMMA ControlStep ==
  ASSUME Control, OnePlace, [Next]_vars
  PROVE  Control'
  <1>1. CASE UNCHANGED vars
    BY <1>1 DEF vars, client, dispatcher, pool, calls, Control, Types, Phases, PoolShape
  <1>2. CASE Next
    BY <1>2, ClientStep, CallStep, PoolStep DEF Next, Stopping
  <1> QED
    BY <1>1, <1>2
-----------------------------------------------------------------------------
(***************************************************************************)
(* Places: a task goes from the queue to the dispatcher, to a worker, and  *)
(* is completed; each step takes it away where it was.                     *)
(***************************************************************************)

\* Steps that move no task.
LEMMA PlacesFrame ==
  ASSUME OnePlace, UNCHANGED <<tasks, wtask, runs>>, Held' = Held,
         \A t \in Tasks : sub'[t] = "accepted" <=> sub[t] = "accepted"
  PROVE  OnePlace' /\ \A t \in Tasks : HandedOver(t)' <=> HandedOver(t)
  BY DEF OnePlace, Queued, HandedOver

\* A task that is sent was nowhere before.
LEMMA PlacesSend ==
  ASSUME Control, OnePlace, NEW t \in Tasks, Enqueue(t) \/ LateEnqueue(t)
  PROVE  OnePlace' /\ Queued' = Queued \cup {t} /\ t \notin Queued
  <1>1. /\ sub[t] \in {"added", "lateAdded"} /\ tasks' = Append(tasks, t)
        /\ sub' = [sub EXCEPT ![t] = "accepted"]
        /\ UNCHANGED <<disp, dtask, wtask, runs>>
    BY DEF Enqueue, LateEnqueue, Send, dispatcher, pool
  <1>2. t \notin Queued /\ t \notin Held /\ ~ HandedOver(t)
    BY <1>1 DEF OnePlace
  <1>3. Elems(tasks') = Elems(tasks) \cup {t} /\ Distinct(tasks')
    BY <1>1, <1>2, AppendElems DEF Control, Types, OnePlace, Queued
  <1>4. Held' = Held /\ \A u : HandedOver(u)' <=> HandedOver(u)
    BY <1>1 DEF Held, HandedOver
  <1>5. OnePlace'
    BY <1>1, <1>2, <1>3, <1>4 DEF Control, Types, OnePlace, Queued
  <1> QED
    BY <1>2, <1>3, <1>5 DEF Queued

\* The dispatcher takes the first task of the queue.
LEMMA PlacesTake ==
  ASSUME Control, OnePlace, Take
  PROVE  /\ OnePlace' /\ Queued' = Queued \ {Head(tasks)} /\ Held' = {Head(tasks)} /\ Held = {}
         /\ Head(tasks) \in Queued /\ \A t \in Tasks : HandedOver(t)' <=> HandedOver(t)
  <1>1. /\ disp = "select" /\ disp' = "assign" /\ dtask' = Head(tasks) /\ tasks' = Tail(tasks)
        /\ tasks # <<>> /\ UNCHANGED <<sub, wtask, runs>>
    BY DEF Take, client
  <1>2. /\ Head(tasks) \in Elems(tasks) /\ Elems(tasks') = Elems(tasks) \ {Head(tasks)}
        /\ Distinct(tasks')
    BY <1>1, TailElems DEF Control, Types, OnePlace
  <1>3. Held' = {Head(tasks)} /\ Held = {}
    BY <1>1 DEF Held
  <1>4. \A u : HandedOver(u)' <=> HandedOver(u)
    BY <1>1 DEF HandedOver
  <1>5. OnePlace'
    BY <1>1, <1>2, <1>3, <1>4 DEF OnePlace, Queued
  <1> QED
    BY <1>2, <1>3, <1>4, <1>5 DEF Queued

\* It hands the task to an idle worker.
LEMMA PlacesAssign ==
  ASSUME Control, OnePlace, Assign
  PROVE  /\ OnePlace' /\ Queued' = Queued /\ Held = {dtask} /\ Held' = {} /\ dtask \in Tasks
         /\ dtask \notin Queued
         /\ Head(avail) \in Workers \ Busy /\ Busy' = Busy \cup {Head(avail)}
         /\ \A t \in Tasks : HandedOver(t) => HandedOver(t)'
  <1> DEFINE w == Head(avail)
  <1>1. w \in Workers /\ w \in Elems(avail)
    BY TailElems DEF Assign, HandOver, Control, Types, PoolShape
  <1>2. /\ disp = "assign" /\ disp' = "select" /\ dtask' = NoTask
        /\ wtask' = [wtask EXCEPT ![w] = dtask]
        /\ UNCHANGED <<tasks, sub, runs>>
    BY DEF Assign, HandOver
  <1>3. dtask \in Tasks /\ dtask # NoTask /\ wtask[w] = NoTask
    BY <1>1, <1>2, ExecutorAssumption DEF Control, Types, Phases, PoolShape
  <1>4. Held = {dtask} /\ Held' = {} /\ Queued' = Queued
    BY <1>2 DEF Held, Queued
  <1> HIDE DEF w
  <1>5. wtask \in [Workers -> Tasks \cup {NoTask}] /\ NoTask \notin Tasks
    BY ExecutorAssumption DEF Control, Types
  <1>6. /\ \A t \in Tasks : HandedOver(t)' <=> HandedOver(t) \/ t = dtask
        /\ Busy' = Busy \cup {w} /\ w \notin Busy
    BY <1>1, <1>2, <1>3, <1>5 DEF HandedOver, Busy
  <1>7. dtask \notin Queued /\ ~ HandedOver(dtask)
    BY <1>4 DEF OnePlace
  <1>8. runs \in [Tasks -> {0, 1}] /\ Queued \subseteq Tasks
    BY DEF Control, Types, Queued, Elems
  <1>9. runs[dtask] = 0
    BY <1>3, <1>7, <1>8 DEF HandedOver
  <1>10. \A v \in Workers : wtask[v] # dtask
    BY <1>7 DEF HandedOver
  <1>11. /\ \A v \in Workers : wtask'[v] # NoTask => runs'[wtask'[v]] = 0
         /\ \A u, v \in Workers : wtask'[u] = wtask'[v] /\ wtask'[u] # NoTask => u = v
    BY <1>1, <1>2, <1>3, <1>5, <1>9, <1>10 DEF OnePlace
  <1>12. /\ \A t \in Queued' : t \notin Held' /\ ~ HandedOver(t)'
         /\ \A t \in Tasks : sub'[t] = "accepted" <=> t \in Queued' \/ t \in Held' \/ HandedOver(t)'
    BY <1>2, <1>4, <1>6, <1>7, <1>8 DEF OnePlace
  <1>13. OnePlace'
    BY <1>2, <1>4, <1>11, <1>12 DEF OnePlace
  <1> QED
    BY <1>1, <1>3, <1>4, <1>6, <1>7, <1>13 DEF w

\* The worker completes it.
LEMMA PlacesComplete ==
  ASSUME Control, OnePlace, NEW w \in Workers, Complete(w)
  PROVE  /\ OnePlace' /\ w \in Busy /\ Busy' = Busy \ {w}
         /\ \A t \in Tasks : /\ HandedOver(t)' <=> HandedOver(t)
                             /\ runs[t] = 1 => runs'[t] = 1
  <1>1. PICK u \in Tasks : u = wtask[w] /\ u # NoTask /\ runs[u] = 0
    BY ExecutorAssumption DEF Complete, TaskReturns, Control, Types, PoolShape, OnePlace
  <1>2. /\ runs' = [runs EXCEPT ![u] = @ + 1] /\ wtask' = [wtask EXCEPT ![w] = NoTask]
        /\ UNCHANGED <<tasks, sub, disp, dtask>>
    BY <1>1 DEF Complete, TaskReturns, client, dispatcher
  <1>3. /\ wtask \in [Workers -> Tasks \cup {NoTask}] /\ NoTask \notin Tasks
        /\ runs \in [Tasks -> {0, 1}]
    BY ExecutorAssumption DEF Control, Types
  <1>4. runs'[u] = 1 /\ \A t \in Tasks \ {u} : runs'[t] = runs[t]
    BY <1>1, <1>2, <1>3
  <1>5. \A v \in Workers \ {w} : wtask'[v] = wtask[v] /\ wtask'[v] # u
    BY <1>1, <1>2, <1>3 DEF OnePlace
  <1>6. wtask'[w] = NoTask
    BY <1>2, <1>3
  <1>7. HandedOver(u) /\ HandedOver(u)'
    BY <1>1, <1>4 DEF HandedOver
  <1>8. ASSUME NEW t \in Tasks
        PROVE  HandedOver(t)' <=> HandedOver(t)
    <2>1. CASE t = u
      BY <1>7, <2>1
    <2>2. CASE t # u
      <3>1. runs'[t] = runs[t]
        BY <1>4, <2>2
      <3>2. ASSUME NEW v \in Workers
            PROVE  wtask'[v] = t <=> wtask[v] = t
        BY <1>1, <1>3, <1>5, <1>6, <2>2
      <3> QED
        BY <3>1, <3>2 DEF HandedOver
    <2> QED
      BY <2>1, <2>2
  <1>9. Held' = Held /\ Queued' = Queued
    BY <1>2 DEF Held, Queued
  <1>10. Queued \subseteq Tasks /\ Held \subseteq Tasks
    BY DEF Control, Types, Phases, Queued, Held, Elems
  <1>11. /\ \A v \in Workers : wtask'[v] # NoTask => runs'[wtask'[v]] = 0
         /\ \A x, v \in Workers : wtask'[x] = wtask'[v] /\ wtask'[x] # NoTask => x = v
    BY <1>3, <1>4, <1>5, <1>6 DEF OnePlace
  <1>12. OnePlace'
    BY <1>2, <1>8, <1>9, <1>10, <1>11 DEF OnePlace
  <1>13. w \in Busy /\ Busy' = Busy \ {w}
    BY <1>1, <1>5, <1>6 DEF Busy
  <1> QED
    BY <1>1, <1>4, <1>8, <1>12, <1>13

\* The steps of Start, of Stop and of Wait, and the stutter, move no task.
LEMMA PlacesCalls ==
  ASSUME Control, OnePlace,
         \/ Start \/ Stop \/ WaitCalled \/ WaitReturns \/ Stopping \/ UNCHANGED vars
         \/ \E w \in Workers : Announce(w)
  PROVE  /\ UNCHANGED <<tasks, sub, wg, taskWg, dtask, wtask, runs>> /\ Held' = Held
         /\ OnePlace' /\ \A t \in Tasks : HandedOver(t)' <=> HandedOver(t)
  <1>1. UNCHANGED <<tasks, sub, wg, taskWg, dtask, wtask, runs>>
    BY DEF Start, Stop, WaitCalled, WaitReturns, Stopping, Drained, Terminate, TasksDone,
      StopWorker, StopReturns, StopStep, Announce, vars, client, dispatcher, pool
  <1>2. Held' = Held
    <2>1. UNCHANGED disp \/ (disp # "assign" /\ disp' # "assign")
      BY DEF Start, Stop, WaitCalled, WaitReturns, Stopping, Drained, Terminate, TasksDone,
        StopWorker, StopReturns, StopStep, Announce, vars, dispatcher, Control, Phases
    <2> QED
      BY <1>1, <2>1 DEF Held
  <1> QED
    BY <1>1, <1>2, PlacesFrame

\* A submission that is not sent yet moves no task either.
LEMMA PlacesClient ==
  ASSUME Control, OnePlace, NEW t \in Tasks, Check(t) \/ Add(t) \/ TimerFires(t) \/ LateAdd(t)
  PROVE  /\ UNCHANGED <<tasks, taskWg, poolWg, disp, dtask, worker, wtask, runs>>
         /\ Held' = Held /\ Queued' = Queued
         /\ OnePlace' /\ \A u \in Tasks : HandedOver(u)' <=> HandedOver(u)
  <1>1. UNCHANGED <<tasks, taskWg, poolWg, disp, dtask, worker, wtask, runs>>
    BY DEF Check, Add, Raise, TimerFires, LateAdd, dispatcher, pool
  <1>2. \A u \in Tasks : sub'[u] = "accepted" <=> sub[u] = "accepted"
    BY DEF Check, Add, Raise, TimerFires, LateAdd, Control, Types
  <1>3. Held' = Held /\ Queued' = Queued
    BY <1>1 DEF Held, Queued
  <1> QED
    BY <1>1, <1>2, <1>3, PlacesFrame

\* Every step keeps each task in one place, and does not take it from a worker
\* before it is completed.
LEMMA PlacesStep ==
  ASSUME Control, OnePlace, [Next]_vars
  PROVE  OnePlace' /\ \A t \in Tasks : /\ HandedOver(t) => HandedOver(t)'
                                       /\ runs[t] = 1 => runs'[t] = 1
  <1>1. CASE \/ Start \/ Stop \/ WaitCalled \/ WaitReturns \/ Stopping \/ UNCHANGED vars
             \/ \E w \in Workers : Announce(w)
    BY <1>1, PlacesCalls
  <1>2. ASSUME NEW t \in Tasks, Check(t) \/ Add(t) \/ TimerFires(t) \/ LateAdd(t)
        PROVE  OnePlace' /\ \A u \in Tasks : /\ HandedOver(u) => HandedOver(u)'
                                             /\ runs[u] = 1 => runs'[u] = 1
    BY <1>2, PlacesClient
  <1>3. ASSUME NEW t \in Tasks, Enqueue(t) \/ LateEnqueue(t)
        PROVE  OnePlace' /\ \A u \in Tasks : /\ HandedOver(u) => HandedOver(u)'
                                             /\ runs[u] = 1 => runs'[u] = 1
    <2>1. UNCHANGED <<wtask, runs>>
      BY <1>3 DEF Enqueue, LateEnqueue, Send, pool
    <2> QED
      BY <1>3, <2>1, PlacesSend DEF HandedOver
  <1>4. CASE Take
    <2>1. UNCHANGED runs
      BY <1>4 DEF Take
    <2> QED
      BY <1>4, <2>1, PlacesTake
  <1>5. CASE Assign
    <2>1. UNCHANGED runs
      BY <1>5 DEF Assign, HandOver
    <2> QED
      BY <1>5, <2>1, PlacesAssign
  <1>6. ASSUME NEW w \in Workers, Complete(w)
        PROVE  OnePlace' /\ \A t \in Tasks : /\ HandedOver(t) => HandedOver(t)'
                                             /\ runs[t] = 1 => runs'[t] = 1
    BY <1>6, PlacesComplete
  <1> QED
    BY <1>1, <1>2, <1>3, <1>4, <1>5, <1>6 DEF Next, Submission, Dispatch, Work
-----------------------------------------------------------------------------
(***************************************************************************)
(* Counters.                                                               *)
(***************************************************************************)

\* What is counted is finite.
LEMMA Countable ==
  /\ IsFiniteSet(Owed) /\ IsFiniteSet(Twice) /\ IsFiniteSet(Busy) /\ IsFiniteSet(Active)
  /\ Cardinality(Owed) \in Nat /\ Cardinality(Twice) \in Nat
  /\ Cardinality(Busy) \in Nat /\ Cardinality(Active) \in Nat
  /\ Cardinality(Active) <= Cardinality(Workers)
  /\ Cardinality(Held) \in Nat
  <1>1. Owed \subseteq Tasks /\ Twice \subseteq Tasks /\ Busy \subseteq Workers /\ Active \subseteq Workers
    BY DEF Owed, Twice, Busy, Active
  <1>2. IsFiniteSet(Tasks) /\ IsFiniteSet(Workers)
    BY ExecutorAssumption
  <1>3. /\ IsFiniteSet(Owed) /\ IsFiniteSet(Twice) /\ IsFiniteSet(Busy) /\ IsFiniteSet(Active)
        /\ Cardinality(Active) <= Cardinality(Workers)
    BY <1>1, <1>2, FS_Subset
  <1>4. IsFiniteSet(Held)
    <2>1. CASE disp = "assign"
      BY <2>1, FS_Singleton DEF Held
    <2>2. CASE disp # "assign"
      BY <2>2, FS_EmptySet DEF Held
    <2> QED
      BY <2>1, <2>2
  <1> QED
    BY <1>3, <1>4, FS_CardinalityType

\* A wait group that counts one more, and one less.
LEMMA CountUp ==
  ASSUME NEW S, NEW x, IsFiniteSet(S), x \notin S
  PROVE  Cardinality(S \cup {x}) = Cardinality(S) + 1
  BY FS_AddElement

\* Taking one element out of a finite set leaves one less.
LEMMA CountDown ==
  ASSUME NEW S, NEW x, IsFiniteSet(S), x \in S
  PROVE  Cardinality(S \ {x}) = Cardinality(S) - 1
  BY FS_RemoveElement

\* Executor.wg.
LEMMA WgStep ==
  ASSUME Control, OnePlace, Counters, [Next]_vars
  PROVE  wg' = Cardinality(Owed') + Cardinality(Twice')
  <1> DEFINE Counted == wg' = Cardinality(Owed') + Cardinality(Twice')
  <1>0. /\ wg = Cardinality(Owed) + Cardinality(Twice)
        /\ Cardinality(Owed) \in Nat /\ Cardinality(Twice) \in Nat
        /\ IsFiniteSet(Owed) /\ IsFiniteSet(Twice)
    BY Countable DEF Counters
  <1>a. sub \in [Tasks -> Places] /\ Queued \subseteq Tasks /\ Held \subseteq Tasks
    BY DEF Control, Types, Phases, Queued, Held, Elems
  <1>b. \A t \in Tasks : sub[t] # "accepted" => t \notin Queued /\ t \notin Held
    BY DEF OnePlace
  <1>1. CASE \/ Start \/ Stop \/ WaitCalled \/ WaitReturns \/ Stopping \/ UNCHANGED vars
             \/ \E w \in Workers : Announce(w)
    <2>1. UNCHANGED <<tasks, sub, wg>> /\ Held' = Held
      BY <1>1, PlacesCalls
    <2>2. Owed' = Owed /\ Twice' = Twice
      BY <2>1 DEF Owed, Twice, Queued
    <2> QED
      BY <1>0, <2>1, <2>2
  <1>2. ASSUME NEW t \in Tasks, Check(t)
        PROVE  Counted
    <2>1. Held' = Held /\ Queued' = Queued
      BY <1>2, PlacesClient
    <2>2. sub[t] = "new" /\ sub'[t] \in {"checked", "refused"} /\ wg' = wg
          /\ \A u \in Tasks \ {t} : sub'[u] = sub[u]
      BY <1>2, <1>a DEF Check
    <2>3. Owed' = Owed /\ Twice' = Twice
      BY <2>1, <2>2 DEF Owed, Twice
    <2> QED
      BY <1>0, <2>2, <2>3
  <1>3. ASSUME NEW t \in Tasks, Add(t)
        PROVE  Counted
    <2>1. Held' = Held /\ Queued' = Queued
      BY <1>3, PlacesClient
    <2>2. sub[t] = "checked" /\ sub'[t] \in {"added", "timer"} /\ wg' = wg + 1
          /\ \A u \in Tasks \ {t} : sub'[u] = sub[u]
      BY <1>3, <1>a DEF Add, Raise
    <2>3. Owed' = Owed \cup {t} /\ t \notin Owed /\ Twice' = Twice
      BY <1>b, <2>1, <2>2 DEF Owed, Twice
    <2>4. Cardinality(Owed') = Cardinality(Owed) + 1
      BY <1>0, <2>3, CountUp
    <2> QED
      BY <1>0, <2>2, <2>3, <2>4
  <1>4. ASSUME NEW t \in Tasks, TimerFires(t)
        PROVE  Counted
    <2>1. Held' = Held /\ Queued' = Queued
      BY <1>4, PlacesClient
    <2>2. sub[t] = "timer" /\ (\A u \in Tasks \ {t} : sub'[u] = sub[u])
          /\ ((sub'[t] = "late" /\ wg' = wg) \/ (sub'[t] = "dropped" /\ wg' = wg - 1))
      BY <1>4, <1>a DEF TimerFires
    <2>3. CASE sub'[t] = "late" /\ wg' = wg
      <3>1. Owed' = Owed /\ Twice' = Twice
        BY <2>1, <2>2, <2>3 DEF Owed, Twice
      <3> QED
        BY <1>0, <2>3, <3>1
    <2>4. CASE sub'[t] = "dropped" /\ wg' = wg - 1
      <3>1. Owed' = Owed \ {t} /\ t \in Owed /\ Twice' = Twice
        BY <1>b, <2>1, <2>2, <2>4 DEF Owed, Twice
      <3>2. Cardinality(Owed') = Cardinality(Owed) - 1
        BY <1>0, <3>1, CountDown
      <3> QED
        BY <1>0, <2>4, <3>1, <3>2
    <2> QED
      BY <2>2, <2>3, <2>4
  <1>5. ASSUME NEW t \in Tasks, LateAdd(t)
        PROVE  Counted
    <2>1. Held' = Held /\ Queued' = Queued
      BY <1>5, PlacesClient
    <2>2. sub[t] = "late" /\ sub'[t] = "lateAdded" /\ wg' = wg + 1
          /\ \A u \in Tasks \ {t} : sub'[u] = sub[u]
      BY <1>5, <1>a DEF LateAdd, Raise
    <2>3. Owed' = Owed /\ Twice' = Twice \cup {t} /\ t \notin Twice
      BY <2>1, <2>2 DEF Owed, Twice
    <2>4. Cardinality(Twice') = Cardinality(Twice) + 1
      BY <1>0, <2>3, CountUp
    <2> QED
      BY <1>0, <2>2, <2>3, <2>4
  <1>6. ASSUME NEW t \in Tasks, Enqueue(t) \/ LateEnqueue(t)
        PROVE  Counted
    <2>1. Queued' = Queued \cup {t}
      BY <1>6, PlacesSend
    <2>2. Held' = Held
      BY <1>6 DEF Enqueue, LateEnqueue, Send, dispatcher, Held
    <2>3. sub'[t] = "accepted" /\ (\A u \in Tasks \ {t} : sub'[u] = sub[u])
          /\ ((sub[t] = "added" /\ wg' = wg) \/ (sub[t] = "lateAdded" /\ wg' = wg - 1))
      BY <1>6, <1>a DEF Enqueue, LateEnqueue, Send
    <2>4. Owed' = Owed
      BY <2>1, <2>2, <2>3 DEF Owed
    <2>5. CASE sub[t] = "added" /\ wg' = wg
      <3>1. Twice' = Twice
        BY <2>3, <2>5 DEF Twice
      <3> QED
        BY <1>0, <2>4, <2>5, <3>1
    <2>6. CASE sub[t] = "lateAdded" /\ wg' = wg - 1
      <3>1. Twice' = Twice \ {t} /\ t \in Twice
        BY <2>3, <2>6 DEF Twice
      <3>2. Cardinality(Twice') = Cardinality(Twice) - 1
        BY <1>0, <3>1, CountDown
      <3> QED
        BY <1>0, <2>4, <2>6, <3>2
    <2> QED
      BY <2>3, <2>5, <2>6
  <1>7. CASE Take
    <2>1. /\ Queued' = Queued \ {Head(tasks)} /\ Held' = {Head(tasks)} /\ Held = {}
          /\ Head(tasks) \in Queued
      BY <1>7, PlacesTake
    <2>2. UNCHANGED <<sub, wg>>
      BY <1>7 DEF Take, client
    <2>3. Owed' = Owed /\ Twice' = Twice
      BY <2>1, <2>2 DEF Owed, Twice
    <2> QED
      BY <1>0, <2>2, <2>3
  <1>8. CASE Assign
    <2>1. Queued' = Queued /\ Held = {dtask} /\ Held' = {} /\ dtask \in Tasks /\ dtask \notin Queued
      BY <1>8, PlacesAssign
    <2>2. sub' = sub /\ wg' = wg - 1
      BY <1>8 DEF Assign, HandOver
    <2>3. sub[dtask] = "accepted"
      BY <2>1 DEF OnePlace
    <2>4. Owed' = Owed \ {dtask} /\ dtask \in Owed /\ Twice' = Twice
      BY <2>1, <2>2, <2>3 DEF Owed, Twice
    <2>5. Cardinality(Owed') = Cardinality(Owed) - 1
      BY <1>0, <2>4, CountDown
    <2> QED
      BY <1>0, <2>2, <2>4, <2>5
  <1>9. ASSUME NEW w \in Workers, Complete(w)
        PROVE  Counted
    <2>1. UNCHANGED <<tasks, sub, wg, disp, dtask>>
      BY <1>9 DEF Complete, TaskReturns, client, dispatcher
    <2>2. Owed' = Owed /\ Twice' = Twice
      BY <2>1 DEF Owed, Twice, Queued, Held
    <2> QED
      BY <1>0, <2>1, <2>2
  <1> QED
    BY <1>1, <1>2, <1>3, <1>4, <1>5, <1>6, <1>7, <1>8, <1>9 DEF Next, Submission, Dispatch, Work

\* Pool.taskWg: the task the dispatcher holds, and those with a worker.
LEMMA TaskWgStep ==
  ASSUME Control, OnePlace, Counters, [Next]_vars
  PROVE  taskWg' = Cardinality(Busy') + Cardinality(Held')
  <1> DEFINE Counted == taskWg' = Cardinality(Busy') + Cardinality(Held')
  <1>0. taskWg = Cardinality(Busy) + Cardinality(Held) /\ Cardinality(Busy) \in Nat /\ IsFiniteSet(Busy)
    BY Countable DEF Counters
  <1>a. /\ Cardinality({}) = 0
        /\ \A x : Cardinality({x}) = 1
    BY FS_EmptySet, FS_Singleton
  <1>b. ASSUME UNCHANGED <<taskWg, wtask>>, Held' = Held
        PROVE  Counted
    BY <1>0, <1>b DEF Busy
  <1>1. CASE \/ Start \/ Stop \/ WaitCalled \/ WaitReturns \/ Stopping \/ UNCHANGED vars
             \/ \E w \in Workers : Announce(w)
    BY <1>1, <1>b, PlacesCalls
  <1>2. ASSUME NEW t \in Tasks, Check(t) \/ Add(t) \/ TimerFires(t) \/ LateAdd(t)
        PROVE  Counted
    BY <1>2, <1>b, PlacesClient
  <1>3. ASSUME NEW t \in Tasks, Enqueue(t) \/ LateEnqueue(t)
        PROVE  Counted
    <2>1. UNCHANGED <<taskWg, wtask>> /\ Held' = Held
      BY <1>3 DEF Enqueue, LateEnqueue, Send, pool, dispatcher, Held
    <2> QED
      BY <1>b, <2>1
  <1>4. CASE Take
    <2>1. Held' = {Head(tasks)} /\ Held = {}
      BY <1>4, PlacesTake
    <2>2. taskWg' = taskWg + 1 /\ Busy' = Busy
      BY <1>4 DEF Take, Busy
    <2>3. Cardinality(Held) = 0 /\ Cardinality(Held') = 1
      BY <1>a, <2>1
    <2> QED
      BY <1>0, <2>2, <2>3
  <1>5. CASE Assign
    <2>1. /\ Held = {dtask} /\ Held' = {}
          /\ Head(avail) \notin Busy /\ Busy' = Busy \cup {Head(avail)}
      BY <1>5, PlacesAssign
    <2>2. taskWg' = taskWg
      BY <1>5 DEF Assign, HandOver
    <2>3. Cardinality(Held) = 1 /\ Cardinality(Held') = 0
      BY <1>a, <2>1
    <2>4. Cardinality(Busy') = Cardinality(Busy) + 1
      BY <1>0, <2>1, CountUp
    <2> QED
      BY <1>0, <2>2, <2>3, <2>4
  <1>6. ASSUME NEW w \in Workers, Complete(w)
        PROVE  Counted
    <2>1. w \in Busy /\ Busy' = Busy \ {w}
      BY <1>6, PlacesComplete
    <2>2. taskWg' = taskWg - 1 /\ Held' = Held
      BY <1>6 DEF Complete, TaskReturns, dispatcher, Held
    <2>3. Cardinality(Busy') = Cardinality(Busy) - 1
      BY <1>0, <2>1, CountDown
    <2>4. Cardinality(Held) \in Nat
      BY Countable
    <2> QED
      BY <1>0, <2>2, <2>3, <2>4
  <1> QED
    BY <1>1, <1>2, <1>3, <1>4, <1>5, <1>6 DEF Next, Submission, Dispatch, Work

\* Pool.wg: the workers that were not stopped.
LEMMA PoolWgStep ==
  ASSUME Control, Counters, [Next]_vars
  PROVE  poolWg' = Cardinality(Active')
  <1>0. poolWg = Cardinality(Active) /\ Cardinality(Active) \in Nat /\ IsFiniteSet(Active)
    BY Countable DEF Counters
  <1>a. worker \in [Workers -> {"off", "announce", "select", "busy", "stopped"}]
    BY DEF Control, Types
  <1>b. ASSUME NEW w \in Workers, w \in Active, poolWg' = poolWg,
               NEW to \in {"announce", "select", "busy"}, worker' = [worker EXCEPT ![w] = to]
        PROVE  poolWg' = Cardinality(Active')
    <2>1. Active' = Active
      BY <1>a, <1>b DEF Active
    <2> QED
      BY <1>0, <1>b, <2>1
  <1>1. CASE UNCHANGED <<poolWg, worker>>
    BY <1>0, <1>1 DEF Active
  <1>2. CASE Start
    <2>1. Active' = Workers /\ poolWg' = Cardinality(Workers)
      BY <1>2 DEF Start, Active
    <2> QED
      BY <2>1
  <1>3. CASE Assign
    <2>1. Head(avail) \in Workers /\ worker[Head(avail)] = "select"
      BY <1>3, TailElems DEF Assign, HandOver, Control, Types, PoolShape
    <2>2. worker' = [worker EXCEPT ![Head(avail)] = "busy"] /\ poolWg' = poolWg
      BY <1>3 DEF Assign, HandOver
    <2> QED
      BY <1>b, <2>1, <2>2 DEF Active
  <1>4. ASSUME NEW w \in Workers, Work(w)
        PROVE  poolWg' = Cardinality(Active')
    BY <1>4, <1>b DEF Work, Announce, Complete, TaskReturns, Active
  <1>5. CASE StopWorker
    <2>1. Head(avail) \in Workers /\ worker[Head(avail)] = "select"
      BY <1>5, TailElems DEF StopWorker, Control, Types, PoolShape
    <2>2. worker' = [worker EXCEPT ![Head(avail)] = "stopped"] /\ poolWg' = poolWg - 1
      BY <1>5 DEF StopWorker
    <2>3. Active' = Active \ {Head(avail)} /\ Head(avail) \in Active
      BY <1>a, <2>1, <2>2 DEF Active
    <2>4. Cardinality(Active') = Cardinality(Active) - 1
      BY <1>0, <2>3, CountDown
    <2> QED
      BY <1>0, <2>2, <2>4
  <1> QED
    BY <1>1, <1>2, <1>3, <1>4, <1>5 DEF Next, Check, Submission, Add, Raise, Enqueue, Send, TimerFires,
      LateAdd, LateEnqueue, Dispatch, Take, WaitCalled, WaitReturns, Stop, Stopping, Drained,
      Terminate, TasksDone, StopReturns, StopStep, vars, pool
-----------------------------------------------------------------------------
(***************************************************************************)
(* Promises.                                                               *)
(***************************************************************************)

\* What was accepted stays so.
LEMMA AcceptedStays ==
  ASSUME Control, [Next]_vars
  PROVE  /\ Accepted \subseteq Accepted'
         /\ \A t \in Tasks : sub[t] = "dropped" => sub'[t] = "dropped"
  <1>1. CASE UNCHANGED sub
    BY <1>1 DEF Accepted
  <1>2. ASSUME NEW t \in Tasks, Check(t) \/ Submission(t)
        PROVE  /\ Accepted \subseteq Accepted'
               /\ \A u \in Tasks : sub[u] = "dropped" => sub'[u] = "dropped"
    BY <1>2 DEF Check, Submission, Add, Raise, Enqueue, Send, TimerFires, LateAdd, LateEnqueue,
      Accepted, Control, Types
  <1> QED
    BY <1>1, <1>2 DEF Next, Start, Stop, WaitCalled, WaitReturns, Dispatch, Take, Assign,
      HandOver, Work, Announce, Complete, TaskReturns, Stopping, Drained, Terminate, TasksDone,
      StopWorker, StopReturns, StopStep, vars, client

\* A wait group at zero: every task that was accepted has been handed over, or
\* its timer fired too late.
LEMMA NothingOwed ==
  ASSUME OnePlace, Counters, wg = 0, NEW t \in Accepted
  PROVE  sub[t] = "dropped" \/ HandedOver(t)
  <1>1. Owed = {}
    <2>1. Cardinality(Owed) = 0
      BY Countable DEF Counters
    <2> QED
      BY <2>1, Countable, FS_EmptySet
  <1>2. t \in Tasks /\ sub[t] \in {"timer", "late", "lateAdded", "dropped", "accepted"}
    BY DEF Accepted
  <1>3. t \notin Queued /\ t \notin Held /\ sub[t] \notin {"timer", "late", "lateAdded"}
    BY <1>1, <1>2 DEF Owed
  <1> QED
    BY <1>2, <1>3 DEF OnePlace

\* The pool's wait group at zero: no worker has a task.
LEMMA NothingRuns ==
  ASSUME OnePlace, Counters, taskWg = 0, NEW t \in Tasks, HandedOver(t)
  PROVE  runs[t] = 1
  <1>1. Cardinality(Held) \in Nat
    BY Countable
  <1>2. Cardinality(Busy) = 0
    BY <1>1, Countable DEF Counters
  <1>3. Busy = {}
    BY <1>2, Countable, FS_EmptySet
  <1> QED
    BY <1>3, ExecutorAssumption DEF Busy, HandedOver

\* Every step keeps the promises.
LEMMA PromisesStep ==
  ASSUME Control, OnePlace, Counters, Promises, [Next]_vars
  PROVE  Promises'
  <1>a. /\ Accepted \subseteq Accepted' /\ Accepted \subseteq Tasks
        /\ \A t \in Tasks : /\ sub[t] = "dropped" => sub'[t] = "dropped"
                            /\ HandedOver(t) => HandedOver(t)'
                            /\ runs[t] = 1 => runs'[t] = 1
    BY AcceptedStays, PlacesStep DEF Accepted
  <1>1. CASE UNCHANGED <<stop, stopFor, waiter, waitFor>>
    BY <1>1, <1>a DEF Promises
  <1>2. CASE WaitCalled
    <2>1. waiter' = "wait" /\ waitFor' = Accepted /\ UNCHANGED <<stop, stopFor>>
      BY <1>2 DEF WaitCalled
    <2> QED
      BY <1>a, <2>1 DEF Promises
  <1>3. CASE WaitReturns
    <2>1. UNCHANGED <<stop, stopFor, waitFor>>
      BY <1>3 DEF WaitReturns
    <2> QED
      BY <1>a, <2>1 DEF Promises
  <1>4. CASE Stop
    <2>1. stop' = "drain" /\ stopFor' = Accepted /\ UNCHANGED <<waiter, waitFor>>
      BY <1>4 DEF Stop
    <2> QED
      BY <1>a, <2>1 DEF Promises
  <1>5. CASE Drained
    <2>1. wg = 0 /\ stop' = "terminate" /\ UNCHANGED <<stopFor, waiter, waitFor>>
      BY <1>5 DEF Drained, StopStep
    <2>2. \A t \in stopFor : sub[t] = "dropped" \/ HandedOver(t)
      BY <2>1, NothingOwed DEF Promises
    <2> QED
      BY <1>a, <2>1, <2>2 DEF Promises
  <1>6. CASE Terminate
    <2>1. stop = "terminate" /\ stop' = "tasks" /\ UNCHANGED <<stopFor, waiter, waitFor>>
      BY <1>6 DEF Terminate, StopStep
    <2> QED
      BY <1>a, <2>1 DEF Promises
  <1>7. CASE TasksDone
    <2>1. /\ stop = "tasks" /\ stop' = "workers" /\ UNCHANGED <<stopFor, waiter, waitFor>>
          /\ WaitFlag => taskWg = 0
      BY <1>7 DEF TasksDone, StopStep
    <2>2. \A t \in stopFor : sub[t] = "dropped" \/ HandedOver(t)
      BY <2>1 DEF Promises
    <2>3. WaitFlag => \A t \in stopFor : sub[t] = "dropped" \/ runs[t] = 1
      BY <1>a, <2>1, <2>2, NothingRuns DEF Promises
    <2> QED
      BY <1>a, <2>1, <2>2, <2>3 DEF Promises
  <1>8. CASE StopReturns
    <2>1. stop = "workers" /\ stop' = "returned" /\ UNCHANGED <<stopFor, waiter, waitFor>>
      BY <1>8 DEF StopReturns, StopStep
    <2> QED
      BY <1>a, <2>1 DEF Promises
  <1> QED
    BY <1>1, <1>2, <1>3, <1>4, <1>5, <1>6, <1>7, <1>8 DEF Next, Start, Check, Submission, Add, Raise,
      Enqueue, Send, TimerFires, LateAdd, LateEnqueue, Dispatch, Take, Assign, HandOver, Work, Announce,
      Complete, TaskReturns, Stopping, StopWorker, vars, calls
-----------------------------------------------------------------------------
\* The invariant holds at the start.
LEMMA InitExecutor == Init => ExecutorInv
  <1> SUFFICES ASSUME Init
               PROVE  ExecutorInv
    OBVIOUS
  <1>1. Elems(<<>>) = {} /\ Distinct(<<>>)
    BY DEF Elems, Distinct
  <1>2. Control
    BY <1>1, ExecutorAssumption DEF Init, Control, Types, Phases, PoolShape, Places, Slots
  <1>3. Queued = {} /\ Held = {} /\ \A t \in Tasks : ~ HandedOver(t)
    BY <1>1, ExecutorAssumption DEF Init, Queued, Held, HandedOver
  <1>4. OnePlace
    BY <1>1, <1>3 DEF Init, OnePlace
  <1>5. Owed = {} /\ Twice = {} /\ Busy = {} /\ Active = {}
    BY <1>3 DEF Init, Owed, Twice, Busy, Active
  <1>6. Counters
    BY <1>3, <1>5, FS_EmptySet DEF Init, Counters
  <1>7. Promises
    BY DEF Init, Promises
  <1> QED
    BY <1>2, <1>4, <1>6, <1>7 DEF ExecutorInv

\* Every step keeps it.
LEMMA NextExecutor == ExecutorInv /\ [Next]_vars => ExecutorInv'
  <1> SUFFICES ASSUME ExecutorInv, [Next]_vars
               PROVE  ExecutorInv'
    OBVIOUS
  <1>1. Control /\ OnePlace /\ Counters /\ Promises
    BY DEF ExecutorInv
  <1>2. Control'
    BY <1>1, ControlStep
  <1>3. OnePlace'
    BY <1>1, PlacesStep
  <1>4. Counters'
    BY <1>1, WgStep, TaskWgStep, PoolWgStep DEF Counters
  <1>5. Promises'
    BY <1>1, PromisesStep
  <1> QED
    BY <1>2, <1>3, <1>4, <1>5 DEF ExecutorInv

\* The invariant of the executor is inductive.
LEMMA ExecutorInvariant == Spec => []ExecutorInv
  BY InitExecutor, NextExecutor, PTL DEF Spec

\* TypeOK holds in every reachable state: in particular the wait groups never go
\* below zero, which would be a panic in Go, and neither channel is overfull.
THEOREM ExecutorTypeCorrect == Spec => []TypeOK
  <1>1. ExecutorInv => TypeOK
    <2> SUFFICES ASSUME ExecutorInv
                 PROVE  TypeOK
      OBVIOUS
    <2>1. Types /\ PoolShape /\ Counters /\ Promises
      BY DEF ExecutorInv, Control
    <2>2. Cardinality(Held) \in Nat
      BY Countable
    <2>3. Cardinality(Workers) \in Nat
      BY ExecutorAssumption, FS_CardinalityType
    <2>4. wg \in Nat /\ taskWg \in Nat /\ poolWg \in 0 .. Cardinality(Workers)
      BY <2>1, <2>2, <2>3, Countable DEF Counters
    <2>5. Len(avail) <= Cardinality(Workers)
      BY <2>1, ExecutorAssumption, DistinctBounded DEF Types, PoolShape
    <2>6. stopFor \subseteq Tasks /\ waitFor \subseteq Tasks
      BY <2>1 DEF Promises, Accepted
    <2>7. runs \in [Tasks -> Nat]
      BY <2>1 DEF Types
    <2> QED
      BY <2>1, <2>4, <2>5, <2>6, <2>7 DEF Types, Places, TypeOK
  <1> QED
    BY <1>1, ExecutorInvariant, PTL

\* No task is invoked twice and no busy worker is offered a task, whatever the
\* order in which clients, the dispatcher, the workers and Stop take their steps.
THEOREM RunsOnceCorrect == Spec => []RunsOnce
  <1>1. ExecutorInv => RunsOnce
    <2> SUFFICES ASSUME ExecutorInv
                 PROVE  RunsOnce
      OBVIOUS
    <2>1. Types /\ PoolShape /\ OnePlace
      BY DEF ExecutorInv, Control
    <2>2. ASSUME NEW t \in Tasks
          PROVE  runs[t] + Cardinality({w \in Workers : wtask[w] = t}) <= 1
      <3> DEFINE with == {w \in Workers : wtask[w] = t}
      <3>1. t # NoTask /\ runs[t] \in {0, 1}
        BY <2>1, ExecutorAssumption DEF Types
      <3>2. CASE with = {}
        <4>1. Cardinality(with) = 0
          BY <3>2, FS_EmptySet
        <4> QED
          BY <3>1, <4>1
      <3>3. CASE with # {}
        <4>1. PICK w \in Workers : wtask[w] = t
          BY <3>3
        <4>2. runs[t] = 0 /\ with = {w}
          BY <2>1, <3>1, <4>1 DEF OnePlace
        <4>3. Cardinality(with) = 1
          BY <4>2, FS_Singleton
        <4> QED
          BY <4>2, <4>3
      <3> QED
        BY <3>2, <3>3
    <2>3. \A i \in 1 .. Len(avail) : worker[avail[i]] = "select"
      BY <2>1 DEF Types, PoolShape, Elems
    <2> QED
      BY <2>2, <2>3 DEF RunsOnce
  <1> QED
    BY <1>1, ExecutorInvariant, PTL

\* When Stop(true) has returned, the tasks accepted before the call are completed,
\* or were dropped by a timer that fired too late.
THEOREM StopCompletesCorrect == Spec => []StopCompletes
  <1>1. ExecutorInv => StopCompletes
    BY DEF ExecutorInv, Promises, StopCompletes
  <1> QED
    BY <1>1, ExecutorInvariant, PTL
=============================================================================
