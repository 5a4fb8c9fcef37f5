----------------------------- MODULE QueuedPool -----------------------------
(***************************************************************************)
(* The task pool and the priority task pool (runtime/pool/_queuedpool.py). *)
(* The code between two awaits is one step of the event loop and so one    *)
(* action here; an executor, a callback's runner task, the manager that    *)
(* polls the configured size and the shutdown task interleave freely.      *)
(*                                                                         *)
(* asyncio.Event _changed: an executor clears it and begins to wait in one *)
(* step, so the flag itself is never read and set() is "every waiting      *)
(* executor becomes ready" (Wake).                                         *)
(***************************************************************************)
EXTENDS Integers, FiniteSets

CONSTANTS Tasks,       (* the calls of add_task *)
          Requests,    (* requests whose cancellation or deadline tasks carry *)
          NoRequest,   (* a task submitted outside any request *)
          Priorities,  (* priorities given to add_task *)
          Heap,        (* TRUE: PriorityTaskPoolImpl; FALSE: TaskPoolImpl *)
          MaxTarget    (* bound on the configured number of executors *)

ASSUME TasksFinite == IsFiniteSet(Tasks)
ASSUME RequestsAssumption == NoRequest \notin Requests
ASSUME PrioritiesAssumption == Priorities \subseteq Nat
ASSUME HeapAssumption == Heap \in BOOLEAN
ASSUME MaxTargetAssumption == MaxTarget \in Nat \ {0}

Slots == 0 .. MaxTarget - 1
Targets == 1 .. MaxTarget
Urgent == -1   \* float('-inf'), before every priority

VARIABLES
  started, stopped,  \* _started, _stopped
  configured,        \* executors_count in the current configuration
  target,            \* _target
  manager,           \* _executor_manager_task: "none", "polling" or "ended"
  phase,             \* how far _shutdown has come
  state,             \* what has become of each task
  request,           \* the request each task belongs to
  ended,             \* requests that were cancelled or whose deadline passed
  watched,           \* tasks registered in _watches
  queue,             \* the tasks in _queue ...
  key,               \* ... and their places in it
  counter, front,    \* _counter; how often a FIFO task was moved to the front
  executor,          \* _executors, one worker per slot
  holds,             \* the task whose runner a busy executor awaits
  stale,             \* slots whose previous worker's done-callback is still due
  running,           \* tasks whose runner is in _running_tasks
  wg,                \* the count of _wg
  exited             \* a callback failed and the process called os._exit(2)

poolVars == <<started, stopped, configured, target, manager, phase>>
taskVars == <<state, request, ended, watched, queue, key, counter, front>>
workVars == <<executor, holds, stale, running, wg>>
vars == <<poolVars, taskVars, workVars, exited>>

TaskStates == {"new", "cancelled", "stopped", "delayed", "running", "finished"}
WorkerStates == {"none", "ready", "waiting", "busy", "done"}
Phases == {"open", "sealed", "draining", "joining", "closed"}

-----------------------------------------------------------------------------
(* The order of the queue: a heap of (priority, counter), or an            *)
(* OrderedDict, whose order is kept as increasing positions.               *)

BeforeUntimed(k, l) == k[1] < l[1]   \* Fault: equal priorities in any order

Before(k, l) == k[1] < l[1] \/ (k[1] = l[1] /\ k[2] < l[2])

Ahead(t) == {u \in queue : Before(key[u], key[t])}

IsHead(t) == t \in queue /\ Ahead(t) = {}

Wake(e) == [s \in Slots |-> IF e[s] = "waiting" THEN "ready" ELSE e[s]]

(* _ensure_executors: replace missing and finished workers, then wake all. *)
Vacant(e, s, n) == s < n /\ e[s] \in {"none", "done"}

Ensured(e, n) == [s \in Slots |-> IF Vacant(e, s, n) THEN "ready" ELSE Wake(e)[s]]

EnsureExecutors(e, old, n) ==
  /\ executor' = Ensured(e, n)
  /\ stale' = old \union {s \in Slots : s < n /\ e[s] = "done"}

-----------------------------------------------------------------------------
Init ==
  /\ started = FALSE /\ stopped = FALSE
  /\ configured \in Targets
  /\ target = configured
  /\ manager = "none"
  /\ phase = "open"
  /\ state = [t \in Tasks |-> "new"]
  /\ request = [t \in Tasks |-> NoRequest]
  /\ ended = {} /\ watched = {} /\ queue = {}
  /\ key = [t \in Tasks |-> <<0, 0>>]
  /\ counter = 0 /\ front = 0
  /\ executor = [s \in Slots |-> "none"]
  /\ holds = [s \in Slots |-> {}]
  /\ stale = {} /\ running = {}
  /\ wg = 0
  /\ exited = FALSE

(* _add, called with the context of request r. *)
Refuse(t, r) ==
  /\ state[t] = "new"
  /\ r \in ended \/ stopped
  /\ state' = [state EXCEPT ![t] = IF r \in ended THEN "cancelled" ELSE "stopped"]
  /\ UNCHANGED <<poolVars, request, ended, watched, queue, key, counter, front, workVars, exited>>

AddSealed(t, r, p) ==   \* Fault: a stopped pool still accepts
  /\ state[t] = "new" /\ r \notin ended
  /\ state' = [state EXCEPT ![t] = "delayed"]
  /\ request' = [request EXCEPT ![t] = r]
  /\ queue' = queue \union {t}
  /\ key' = [key EXCEPT ![t] = <<IF Heap THEN p ELSE 0, counter>>]
  /\ counter' = counter + 1
  /\ wg' = wg + 1
  /\ watched' = IF r = NoRequest THEN watched ELSE watched \union {t}
  /\ executor' = Wake(executor)
  /\ UNCHANGED <<poolVars, ended, front, holds, stale, running, exited>>

Add(t, r, p) ==
  /\ state[t] = "new"
  /\ r \notin ended
  /\ ~stopped
  /\ state' = [state EXCEPT ![t] = "delayed"]
  /\ request' = [request EXCEPT ![t] = r]
  /\ queue' = queue \union {t}
  /\ key' = [key EXCEPT ![t] = <<IF Heap THEN p ELSE 0, counter>>]
  /\ counter' = counter + 1
  /\ wg' = wg + 1
  /\ watched' = IF r = NoRequest THEN watched ELSE watched \union {t}
  /\ executor' = Wake(executor)
  /\ UNCHANGED <<poolVars, ended, front, holds, stale, running, exited>>

(* A request is cancelled by its client or passes its deadline. *)
EndRequest(r) ==
  /\ ended' = ended \union {r}
  /\ UNCHANGED <<poolVars, state, request, watched, queue, key, counter, front, workVars, exited>>

(* _notify of the watches removes the entry and calls _promote. *)
Promote(t) ==
  /\ t \in watched
  /\ request[t] \in ended
  /\ watched' = watched \ {t}
  /\ IF Heap
       THEN /\ key' = [key EXCEPT ![t] = <<Urgent, @[2]>>]
            /\ UNCHANGED front
       ELSE IF IsHead(t)
              THEN UNCHANGED <<key, front>>
              ELSE /\ key' = [key EXCEPT ![t] = <<0, front - 1>>]
                   /\ front' = front - 1
  /\ executor' = Wake(executor)
  /\ UNCHANGED <<poolVars, state, request, ended, queue, counter, holds, stale, running, wg, exited>>

-----------------------------------------------------------------------------
(* _executor(s), from one await to the next: a worker that is new or was   *)
(* woken, or one whose runner has finished.  The latter first removes its  *)
(* runner and wakes the others, and goes on without an await.  A new       *)
(* worker is scheduled behind the done-callback of the one it replaces.    *)

Awake(s) == executor[s] = "ready" /\ s \notin stale

Resuming(s) == executor[s] = "busy" /\ \A t \in holds[s] : state[t] = "finished"

Scheduled(s) == Awake(s) \/ Resuming(s)

Left(s) == running \ holds[s]

BecomeSilent(s, w) ==    \* Fault: a finished runner wakes nobody
  executor' = [executor EXCEPT ![s] = w]

Become(s, w) ==
  executor' = [(IF Resuming(s) THEN Wake(executor) ELSE executor) EXCEPT ![s] = w]

Full(s) == Cardinality(Left(s)) >= target

AllDone == stopped /\ queue = {}

Take(s, t) ==
  /\ Scheduled(s)
  /\ s < target
  /\ IsHead(t) /\ ~Full(s)
  /\ queue' = queue \ {t}
  /\ state' = [state EXCEPT ![t] = "running"]
  /\ watched' = watched \ {t}
  /\ running' = Left(s) \union {t}
  /\ holds' = [holds EXCEPT ![s] = {t}]
  /\ Become(s, "busy")
  /\ UNCHANGED <<poolVars, request, ended, key, counter, front, stale, wg, exited>>

Pause(s, w) ==
  /\ Scheduled(s)
  /\ running' = Left(s)
  /\ holds' = [holds EXCEPT ![s] = {}]
  /\ Become(s, w)
  /\ UNCHANGED <<poolVars, taskVars, stale, wg, exited>>

Wait(s) ==
  /\ s < target
  /\ queue = {} \/ Full(s)
  /\ ~AllDone
  /\ Pause(s, "waiting")

(* The worker returns: its slot is above the target, or all work is done. *)
Return(s) ==
  /\ s >= target \/ AllDone
  /\ Pause(s, "done")

(* The done-callback of a worker, which may belong to a replaced one. *)
DoneCallback(s) ==
  /\ s \in stale \/ executor[s] = "done"
  /\ LET left == IF s \in stale THEN executor ELSE [executor EXCEPT ![s] = "none"]
     IN IF ~stopped /\ s < target
          THEN EnsureExecutors(left, stale \ {s}, target)
          ELSE executor' = left /\ stale' = stale \ {s}
  /\ UNCHANGED <<poolVars, taskVars, holds, running, wg, exited>>

(* _run_task: the callback returned or was cancelled ... *)
Finish(t) ==
  /\ state[t] = "running"
  /\ state' = [state EXCEPT ![t] = "finished"]
  /\ wg' = wg - 1
  /\ UNCHANGED <<poolVars, request, ended, watched, queue, key, counter, front,
                 executor, holds, stale, running, exited>>

(* ... or raised anything else, which terminates the process. *)
Fail(t) ==
  /\ state[t] = "running"
  /\ exited' = TRUE
  /\ UNCHANGED <<poolVars, taskVars, workVars>>

-----------------------------------------------------------------------------
Start ==
  /\ ~stopped /\ ~started
  /\ started' = TRUE
  /\ target' = configured
  /\ EnsureExecutors(executor, stale, configured)
  /\ manager' = "polling"
  /\ UNCHANGED <<stopped, configured, phase, taskVars, holds, running, wg, exited>>

Reconfigure(n) ==
  /\ configured' = n
  /\ UNCHANGED <<started, stopped, target, manager, phase, taskVars, workVars, exited>>

(* One round of _manager; its context may also have expired. *)
Poll ==
  /\ manager = "polling" /\ ~stopped
  /\ configured # target
  /\ target' = configured
  /\ EnsureExecutors(executor, stale, configured)
  /\ UNCHANGED <<started, stopped, configured, manager, phase, taskVars, holds, running, wg, exited>>

ManagerReturns ==
  /\ manager = "polling"
  /\ manager' = "ended"
  /\ UNCHANGED <<started, stopped, configured, target, phase, taskVars, workVars, exited>>

(* The first call of stop() seals the pool and creates the shutdown task. *)
Stop ==
  /\ phase = "open"
  /\ stopped' = TRUE
  /\ phase' = "sealed"
  /\ UNCHANGED <<started, configured, target, manager, taskVars, workVars, exited>>

ShutdownBeginIdle ==   \* Fault: no executors for a pool that never started
  /\ phase = "sealed"
  /\ manager' = IF manager = "none" THEN "none" ELSE "ended"
  /\ phase' = "draining"
  /\ UNCHANGED <<started, stopped, configured, target, taskVars, workVars, exited>>

(* _shutdown: cancel the manager, make sure that executors exist, ... *)
ShutdownBegin ==
  /\ phase = "sealed"
  /\ manager' = IF manager = "none" THEN "none" ELSE "ended"
  /\ EnsureExecutors(executor, stale, target)
  /\ phase' = "draining"
  /\ UNCHANGED <<started, stopped, configured, target, taskVars, holds, running, wg, exited>>

(* ... wait for the wait group, wake the executors, ... *)
ShutdownDrained ==
  /\ phase = "draining"
  /\ wg = 0
  /\ executor' = Wake(executor)
  /\ phase' = "joining"
  /\ UNCHANGED <<started, stopped, configured, target, manager, taskVars, holds, stale, running, wg, exited>>

(* ... gather them and close the watches. *)
ShutdownJoined ==
  /\ phase = "joining"
  /\ \A s \in Slots : executor[s] \in {"none", "done"}
  /\ phase' = "closed"
  /\ UNCHANGED <<started, stopped, configured, target, manager, taskVars, workVars, exited>>

Shutdown == ShutdownBegin \/ ShutdownDrained \/ ShutdownJoined

Work(s) == (\E t \in Tasks : Take(s, t)) \/ Wait(s) \/ Return(s) \/ DoneCallback(s)

Next ==
  /\ ~exited
  /\ \/ \E t \in Tasks :
          \/ \E r \in Requests \union {NoRequest} :
               Refuse(t, r) \/ \E p \in Priorities : Add(t, r, p)
          \/ Promote(t) \/ Finish(t) \/ Fail(t)
     \/ \E r \in Requests : EndRequest(r)
     \/ \E s \in Slots : Work(s)
     \/ \E n \in Targets : Reconfigure(n)
     \/ Start \/ Poll \/ ManagerReturns \/ Stop \/ Shutdown

Spec == Init /\ [][Next]_vars

(* The event loop runs every ready task, and callbacks return. *)
Fairness ==
  /\ \A s \in Slots : WF_vars(~exited /\ Work(s))
  /\ \A t \in Tasks : WF_vars(~exited /\ Finish(t))
  /\ WF_vars(~exited /\ Shutdown)

FairSpec == Spec /\ Fairness
-----------------------------------------------------------------------------
TypeOK ==
  /\ started \in BOOLEAN /\ stopped \in BOOLEAN /\ exited \in BOOLEAN
  /\ configured \in Targets /\ target \in Targets
  /\ manager \in {"none", "polling", "ended"}
  /\ phase \in Phases
  /\ state \in [Tasks -> TaskStates]
  /\ request \in [Tasks -> Requests \union {NoRequest}]
  /\ ended \subseteq Requests
  /\ watched \subseteq queue /\ queue \subseteq Tasks
  /\ key \in [Tasks -> Int \X Int]
  /\ counter \in Nat /\ front \in Int
  /\ executor \in [Slots -> WorkerStates]
  /\ holds \in [Slots -> SUBSET Tasks]
  /\ stale \subseteq Slots
  /\ running \subseteq Tasks
  /\ wg \in Int

Outstanding == {t \in Tasks : state[t] \in {"delayed", "running"}}

(* The wait group counts exactly the accepted tasks that are queued or     *)
(* running: stop() neither returns early nor waits for ever because of a   *)
(* missed or doubled done().                                               *)
WaitGroupExact == wg = Cardinality(Outstanding)

(* Two executors never run the same task, and every runner that counts     *)
(* towards the concurrency limit is awaited by an executor that will       *)
(* discard it.                                                             *)
RunnersOwned ==
  /\ \A s \in Slots : (executor[s] = "busy") <=> (holds[s] # {})
  /\ \A s, u \in Slots : s # u => holds[s] \intersect holds[u] = {}
  /\ \A t \in Tasks : t \in running <=> \E s \in Slots : t \in holds[s]
  /\ \A t \in Tasks : state[t] = "running" => t \in running

(* No executor sleeps while a queued task could be started, and none above *)
(* the target sleeps at all: _changed is set by everything that can make   *)
(* the loop's condition false (an add, a finished runner, a resize).       *)
NoLostWakeup ==
  /\ queue # {} /\ Cardinality(running) < target => \A s \in Slots : executor[s] # "waiting"
  /\ \A s \in Slots : s >= target => executor[s] # "waiting"

(* When _shutdown reaches the gather, no executor sleeps in _changed.wait: *)
(* the gather cannot wait for ever.                                        *)
JoinTerminates ==
  phase \in {"joining", "closed"} => \A s \in Slots : executor[s] # "waiting"

(* stop() has returned only when every accepted task has run and every     *)
(* executor is gone.                                                       *)
StoppedIsDrained ==
  phase = "closed" =>
    /\ queue = {} /\ running = {} /\ watched = {}
    /\ \A t \in Tasks : state[t] \notin {"delayed", "running"}
    /\ \A s \in Slots : executor[s] \in {"none", "done"}

(* A queued task is expedited when its request has ended and its watch has *)
(* fired.                                                                  *)
Expedited(t) == t \in queue /\ request[t] # NoRequest /\ t \notin watched

(* Tasks start in turn: expedited tasks before all others, and the others  *)
(* by priority and, within a priority, in the order in which they were     *)
(* accepted, however often the queue was reordered in between.             *)
StartsInTurn ==
  [][\A t \in queue : state'[t] = "running" =>
       \A u \in queue \ {t} :
         /\ Expedited(u) => Expedited(t)
         /\ ~Expedited(t) => /\ key[t][1] <= key[u][1]
                             /\ key[t][1] = key[u][1] => key[t][2] < key[u][2]]_vars

(* Every accepted task is eventually run once the pool is started or       *)
(* stopped, and stop() completes, unless a failing callback ends the       *)
(* process (PoolServes: both).                                             *)
AcceptedRuns ==
  \A t \in Tasks : (state[t] = "delayed" /\ (started \/ stopped)) ~> (state[t] = "finished" \/ exited)

StopCompletes == stopped ~> (phase = "closed" \/ exited)

PoolServes == AcceptedRuns /\ StopCompletes

-----------------------------------------------------------------------------
(* The strengthening that makes the invariants above inductive. *)

QueueIsDelayed == \A t \in Tasks : t \in queue <=> state[t] = "delayed"

RunnersTaken == \A t \in running : state[t] \in {"running", "finished"}

SealedByStop ==
  /\ stopped <=> phase # "open"
  /\ phase \in {"joining", "closed"} => wg = 0
  /\ phase = "closed" => \A s \in Slots : executor[s] \in {"none", "done"}

IInv == /\ TypeOK /\ QueueIsDelayed /\ RunnersTaken /\ RunnersOwned
        /\ WaitGroupExact /\ NoLostWakeup /\ SealedByStop /\ JoinTerminates

-----------------------------------------------------------------------------
(* What a caller sees of the pool. *)
Job == [t \in Tasks |->
          CASE state[t] = "new" -> "new"
            [] state[t] \in {"cancelled", "stopped"} -> "refused"
            [] state[t] = "delayed" -> "accepted"
            [] state[t] = "running" -> "running"
            [] state[t] = "finished" -> "done"]

Stage == IF phase \in {"open", "closed"} THEN phase ELSE "sealed"

Abstract == INSTANCE TaskPool WITH
  Limit <- MaxTarget,
  job <- Job,
  phase <- Stage

ImplementsTaskPool == Abstract!Spec
=============================================================================
