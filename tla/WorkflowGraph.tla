--------------------------- MODULE WorkflowGraph ---------------------------
(***************************************************************************)
(* One activation of a graph inside a Temporal Workflow: the environment   *)
(* (datasource/temporal/workflow_environment.py) with its parallel tasks   *)
(* and task pool, and the endpoint that runs the graph, waits for it and   *)
(* winds it up (execute_workflow_graph_endpoint, workflow.py).             *)
(***************************************************************************)
EXTENDS Integers, FiniteSets

CONSTANTS Work,       (* pieces of asynchronous work of the graph *)
          PoolWork,   (* those that a pool runs; the others are tasks of create_task *)
          Executors   (* of the pool *)

VARIABLES
  endpoint,       \* where the endpoint's coroutine is
  outcome,        \* of the execution: "none", "ok", "failed"
  wantsResult,    \* the endpoint has a result stream
  result,         \* the result has arrived
  work,           \* where each piece of work is
  tasks, pending, \* _tasks of the environment, _pending of the pool
  failure,        \* _failure is recorded
  stopped,        \* the pool is stopped
  awaited         \* what _wait_for_quiescence awaits

vars == <<endpoint, outcome, wantsResult, result, work, tasks, pending, failure, stopped, awaited>>

NothingAwaited == [tasks |-> {}, pool |-> FALSE]

Init ==
  /\ endpoint = "activating" /\ outcome = "none"
  /\ wantsResult \in BOOLEAN /\ result = FALSE
  /\ work = [w \in Work |-> "none"]
  /\ tasks = {} /\ pending = {}
  /\ failure = FALSE /\ stopped = FALSE
  /\ awaited = NothingAwaited

Become(w, where) == work' = [work EXCEPT ![w] = where]

Ended == {w \in Work : work[w] \in {"returned", "raised"}}

Raised == {w \in Work : work[w] = "raised"}

-----------------------------------------------------------------------------
(* Who calls: the activation itself, or work that is running. *)
Calling == endpoint = "activating" \/ \E v \in Work : work[v] = "running"

(* create_task, or a task for the pool. *)
Spawn(w) ==
  /\ endpoint # "over" /\ Calling /\ work[w] = "none"
  /\ IF w \in PoolWork
       THEN ~stopped /\ Become(w, "queued") /\ pending' = pending \union {w} /\ UNCHANGED tasks
       ELSE Become(w, "running") /\ tasks' = tasks \union {w} /\ UNCHANGED pending
  /\ UNCHANGED <<endpoint, outcome, wantsResult, result, failure, stopped, awaited>>

(* An executor of the pool takes a task. *)
Take(w) ==
  /\ endpoint # "over" /\ work[w] = "queued"
  /\ Cardinality({v \in PoolWork : work[v] = "running"}) < Executors
  /\ Become(w, "running")
  /\ UNCHANGED <<endpoint, outcome, wantsResult, result, tasks, pending, failure, stopped, awaited>>

(* The result reaches the endpoint. *)
Produce ==
  /\ endpoint # "over" /\ Calling /\ wantsResult /\ ~result
  /\ result' = TRUE
  /\ UNCHANGED <<endpoint, outcome, wantsResult, work, tasks, pending, failure, stopped, awaited>>

(* The pool's executor reports the error and counts the task as done. *)
PoolDone(w, end) ==
  /\ pending' = pending \ {w}
  /\ failure' = (failure \/ end = "raised")
  /\ awaited' = [awaited EXCEPT !.pool = @ /\ pending' # {}]

(* A second result raises, as does any other error of the graph. *)
End(w) ==
  /\ endpoint # "over" /\ work[w] = "running"
  /\ \E end \in {"returned", "raised"} :
       /\ Become(w, end)
       /\ IF w \in PoolWork THEN PoolDone(w, end) ELSE UNCHANGED <<pending, failure, awaited>>
  /\ UNCHANGED <<endpoint, outcome, wantsResult, result, tasks, stopped>>

CompleteSilently(w) ==   \* Fault: the error of a parallel task is not looked at
  /\ endpoint # "over" /\ w \in tasks \intersect Ended
  /\ tasks' = tasks \ {w}
  /\ UNCHANGED <<endpoint, outcome, wantsResult, result, work, pending, failure, stopped, awaited>>

(* The done callback of a parallel task. *)
Complete(w) ==
  /\ endpoint # "over" /\ w \in tasks \intersect Ended
  /\ tasks' = tasks \ {w}
  /\ failure' = (failure \/ w \in Raised)
  /\ UNCHANGED <<endpoint, outcome, wantsResult, result, work, pending, stopped, awaited>>

-----------------------------------------------------------------------------
Go(place) == endpoint' = place

(* The activation returns or raises. *)
Activated ==
  /\ endpoint = "activating"
  /\ \/ Go(IF wantsResult THEN "waiting" ELSE "quiescing") /\ UNCHANGED outcome
     \/ Go("finishing") /\ outcome' = "failed"
  /\ UNCHANGED <<wantsResult, result, work, tasks, pending, failure, stopped, awaited>>

(* wait_for_completion: the result or a failure, whichever comes first. *)
Await ==
  /\ endpoint = "waiting" /\ (result \/ failure)
  /\ IF failure THEN Go("finishing") /\ outcome' = "failed"
                ELSE Go("quiescing") /\ UNCHANGED outcome
  /\ UNCHANGED <<wantsResult, result, work, tasks, pending, failure, stopped, awaited>>

Quiescing == endpoint \in {"quiescing", "finishing"} /\ awaited = NothingAwaited

(* _wait_for_quiescence: a failure is raised at once, ... *)
QuiesceRaises ==
  /\ Quiescing /\ failure
  /\ outcome' = "failed"
  /\ Go(IF endpoint = "quiescing" THEN "finishing" ELSE "over")
  /\ UNCHANGED <<wantsResult, result, work, tasks, pending, failure, stopped, awaited>>

(* ... work that is under way is awaited, and all is looked at again, ... *)
QuiesceAwaits ==
  /\ Quiescing /\ ~failure /\ (tasks # {} \/ pending # {})
  /\ awaited' = [tasks |-> tasks, pool |-> pending # {}]
  /\ UNCHANGED <<endpoint, outcome, wantsResult, result, work, tasks, pending, failure, stopped>>

AwaitedTasksEnd ==
  /\ awaited.tasks # {} /\ awaited.tasks \subseteq Ended
  /\ failure' = (failure \/ awaited.tasks \intersect Raised # {})
  /\ awaited' = [awaited EXCEPT !.tasks = {}]
  /\ UNCHANGED <<endpoint, outcome, wantsResult, result, work, tasks, pending, stopped>>

(* ... until there is none. *)
Quiesced ==
  /\ Quiescing /\ ~failure /\ tasks = {} /\ pending = {}
  /\ IF endpoint = "quiescing"
       THEN Go("finishing") /\ outcome' = "ok" /\ UNCHANGED stopped
       ELSE Go("stopping") /\ stopped' = TRUE /\ UNCHANGED outcome
  /\ UNCHANGED <<wantsResult, result, work, tasks, pending, failure, awaited>>

(* finish() has stopped the pools and gathered the tasks. *)
Finished ==
  /\ endpoint = "stopping" /\ pending = {} /\ tasks = {}
  /\ Go("over")
  /\ outcome' = IF failure THEN "failed" ELSE outcome
  /\ UNCHANGED <<wantsResult, result, work, tasks, pending, failure, stopped, awaited>>

Winding == Await \/ QuiesceRaises \/ QuiesceAwaits \/ AwaitedTasksEnd \/ Quiesced \/ Finished

Next ==
  \/ \E w \in Work : Spawn(w) \/ Take(w) \/ End(w) \/ Complete(w)
  \/ Produce \/ Activated \/ Winding

Spec == Init /\ [][Next]_vars

(* What runs comes to an end; nothing makes the graph produce a result. *)
Fairness ==
  /\ WF_vars(Activated) /\ WF_vars(Winding)
  /\ \A w \in Work : WF_vars(Take(w) \/ End(w) \/ Complete(w))

FairSpec == Spec /\ Fairness

-----------------------------------------------------------------------------
(* "a concurrent failed branch cannot be hidden by a faster successful     *)
(* result": an execution that succeeds has left no work behind, and none   *)
(* of its work has failed.                                                 *)
FailureNotHidden ==
  endpoint = "over" /\ outcome = "ok" =>
    /\ \A w \in Work : work[w] \in {"none", "returned"}
    /\ wantsResult => result

(* What the endpoint waits for is under way: the pool counts exactly its   *)
(* work that is not over, and is awaited only while there is some; the     *)
(* environment knows each parallel branch that runs and none that never    *)
(* did; and a failure is on record or still has its callback to come.      *)
WorkAccounted ==
  /\ pending = {w \in PoolWork \intersect Work : work[w] \in {"queued", "running"}}
  /\ awaited.pool => pending # {}
  /\ \A w \in tasks : work[w] \in {"running", "returned", "raised"}
  /\ \A w \in awaited.tasks : w \in tasks \/ w \in Ended
  /\ \A w \in Work : work[w] = "running" => w \in tasks \union pending
  /\ Raised # {} => failure \/ Raised \intersect tasks # {}

(* "A pooled or parallel failure must wake a Workflow endpoint that would  *)
(* otherwise wait forever for its result."                                 *)
FailureWakes == Raised # {} ~> endpoint = "over"
=============================================================================
