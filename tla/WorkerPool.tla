------------------------------ MODULE WorkerPool -------------------------------
(***************************************************************************)
(* SimpleTaskProcessor (environment_stream.hpp): the threads that run what *)
(* cesium-native does off the main thread, over a queue, a mutex and a     *)
(* condition variable.  Anyone may start a task, a task that runs          *)
(* included; the destructor stops the threads and joins them.              *)
(***************************************************************************)
EXTENDS Naturals, Sequences

CONSTANTS
  Task, Worker,
  Nobody               \* holds a free mutex, and is the task of a worker without one

VARIABLES
  mutex,       \* mutex_: who holds it
  queue,       \* queue_
  stop,        \* stop_
  at,          \* where each worker is in workerLoop
  task,        \* the task it has taken
  owner,       \* where the destructor is
  signals,     \* calls of notify_one that are still to come
  started, done

poolVars == <<mutex, queue, stop, at, task, owner, signals, started, done>>

PoolInit ==
  /\ mutex = Nobody /\ queue = <<>> /\ stop = FALSE
  /\ at = [w \in Worker |-> "loop"]
  /\ task = [w \in Worker |-> Nobody]
  /\ owner = "alive" /\ signals = 0
  /\ started = {} /\ done = {}

-----------------------------------------------------------------------------
\* startTask, under the lock; by a task that runs or, until the destructor, by others.
StartTask(t) ==
  /\ t \notin started
  /\ owner = "alive" \/ \E w \in Worker : at[w] = "running"
  /\ mutex = Nobody
  /\ queue' = Append(queue, t)
  /\ started' = started \union {t}
  /\ signals' = signals + 1
  /\ UNCHANGED <<mutex, stop, at, task, owner, done>>

Waiting == {w \in Worker : at[w] = "waiting"}

\* Its notify_one, after the lock: wakes a worker that waits, if one does.
Notify ==
  /\ signals > 0
  /\ signals' = signals - 1
  /\ IF Waiting = {} THEN UNCHANGED at
                     ELSE \E w \in Waiting : at' = [at EXCEPT ![w] = "loop"]
  /\ UNCHANGED <<mutex, queue, stop, task, owner, started, done>>

\* workerLoop: the lock, at the top of the loop or after a wake-up.
Lock(w) ==
  /\ at[w] = "loop" /\ mutex = Nobody
  /\ mutex' = w
  /\ at' = [at EXCEPT ![w] = "locked"]
  /\ UNCHANGED <<queue, stop, task, owner, signals, started, done>>

\* The predicate of the wait does not hold: it will wait, and holds the lock until it does.
FindNothing(w) ==
  /\ at[w] = "locked" /\ ~stop /\ queue = <<>>
  /\ at' = [at EXCEPT ![w] = "idle"]
  /\ UNCHANGED <<mutex, queue, stop, task, owner, signals, started, done>>

Wait(w) ==
  /\ at[w] = "idle"
  /\ at' = [at EXCEPT ![w] = "waiting"]
  /\ mutex' = Nobody
  /\ UNCHANGED <<queue, stop, task, owner, signals, started, done>>

\* A condition variable may wake up on its own.
WakeUp(w) ==
  /\ at[w] = "waiting"
  /\ at' = [at EXCEPT ![w] = "loop"]
  /\ UNCHANGED <<mutex, queue, stop, task, owner, signals, started, done>>

\* It holds, and there is a task to take.
Take(w) ==
  /\ at[w] = "locked" /\ queue # <<>>
  /\ task' = [task EXCEPT ![w] = Head(queue)]
  /\ queue' = Tail(queue)
  /\ at' = [at EXCEPT ![w] = "running"]
  /\ mutex' = Nobody
  /\ UNCHANGED <<stop, owner, signals, started, done>>

\* Or none, and the pool stops.
Leave(w) ==
  /\ at[w] = "locked" /\ stop /\ queue = <<>>
  /\ at' = [at EXCEPT ![w] = "gone"]
  /\ mutex' = Nobody
  /\ UNCHANGED <<queue, stop, task, owner, signals, started, done>>

\* The task ends.
Run(w) ==
  /\ at[w] = "running"
  /\ done' = done \union {task[w]}
  /\ task' = [task EXCEPT ![w] = Nobody]
  /\ at' = [at EXCEPT ![w] = "loop"]
  /\ UNCHANGED <<mutex, queue, stop, owner, signals, started>>

\* Mutant: stop_ is an atomic and is set without the lock.
StopUnlocked ==
  /\ owner = "alive"
  /\ stop' = TRUE
  /\ owner' = "notify"
  /\ UNCHANGED <<mutex, queue, at, task, signals, started, done>>

\* ~SimpleTaskProcessor: stop_ under the lock, notify_all, join.
Stop ==
  /\ owner = "alive" /\ mutex = Nobody
  /\ stop' = TRUE
  /\ owner' = "notify"
  /\ UNCHANGED <<mutex, queue, at, task, signals, started, done>>

NotifyAll ==
  /\ owner = "notify"
  /\ at' = [w \in Worker |-> IF at[w] = "waiting" THEN "loop" ELSE at[w]]
  /\ owner' = "join"
  /\ UNCHANGED <<mutex, queue, stop, task, signals, started, done>>

Join ==
  /\ owner = "join" /\ \A w \in Worker : at[w] = "gone"
  /\ owner' = "gone"
  /\ UNCHANGED <<mutex, queue, stop, at, task, signals, started, done>>

WorkerStep(w) ==
  Lock(w) \/ FindNothing(w) \/ Wait(w) \/ Take(w) \/ Leave(w) \/ Run(w)

\* The pool is no more: nothing is left to do.
Over == owner = "gone" /\ UNCHANGED poolVars

PoolNext ==
  \/ \E t \in Task : StartTask(t)
  \/ Notify
  \/ \E w \in Worker : WorkerStep(w) \/ WakeUp(w)
  \/ Stop \/ NotifyAll \/ Join
  \/ Over

PoolSpec == PoolInit /\ [][PoolNext]_poolVars

\* The threads run and tasks end; a call that has pushed notifies, and the destructor,
\* once it has begun, goes on.
PoolFairSpec ==
  /\ PoolSpec
  /\ \A w \in Worker : WF_poolVars(WorkerStep(w))
  /\ WF_poolVars(Notify) /\ WF_poolVars(NotifyAll \/ Join)

-----------------------------------------------------------------------------
PoolTypeOK ==
  /\ mutex \in Worker \union {Nobody}
  /\ queue \in Seq(Task) /\ stop \in BOOLEAN
  /\ at \in [Worker -> {"loop", "locked", "idle", "waiting", "running", "gone"}]
  /\ task \in [Worker -> Task \union {Nobody}]
  /\ owner \in {"alive", "notify", "join", "gone"} /\ signals \in Nat
  /\ started \subseteq Task /\ done \subseteq started

\* No task waits in the queue unless a signal is still to come or a worker to look.
SomebodyComes ==
  queue # <<>> => \/ signals > 0
                  \/ \E w \in Worker : at[w] \in {"loop", "locked", "running"}

\* What PoolDrains needs of every state: a task in the queue has somebody to come for it, no worker
\* sleeps while the destructor waits for it, no task runs on two threads or again when it is
\* done, and the pool is gone only when all that was started is done.
NobodyIsForgotten ==
  /\ SomebodyComes
  /\ owner = "join" => Waiting = {}
  /\ \A v, w \in Worker :
       at[v] = "running" /\ at[w] = "running" /\ v # w => task[v] # task[w]
  /\ \A w \in Worker : at[w] = "running" => task[w] \in started \ done
  /\ owner = "gone" => started = done

\* Every task that was started runs, and the destructor returns once they have all run:
\* no notification is lost between a worker's look at the queue and its wait, whatever is
\* started while the pool stops (environment_stream.hpp:84, environment_stream.hpp:102).
PoolDrains ==
  /\ \A t \in Task : t \in started ~> t \in done
  /\ stop ~> owner = "gone" /\ started = done
=============================================================================
