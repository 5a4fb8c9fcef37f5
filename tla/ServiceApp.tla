----------------------------- MODULE ServiceApp -----------------------------
(***************************************************************************)
(* The life of a service (runtime/serviceapp.py): start() brings its       *)
(* resources up one after the other, stop() takes them down in phases that *)
(* share one deadline, while messages that were accepted go through the    *)
(* graph, from links called directly to task pools, the delay pool and     *)
(* ParallelCall tasks.                                                     *)
(*                                                                         *)
(* One resource stands for all of its kind, "component" for those with and *)
(* without inbound admission (AdmissionLifecycle).  An item is one         *)
(* invocation of graph code; what a pool promises of it is TaskPool's      *)
(* business.  Graph code itself does not fail here, so that an exit is the *)
(* shutdown's doing.                                                       *)
(***************************************************************************)
EXTENDS Integers, FiniteSets, Sequences

CONSTANT Items   (* invocations of graph code *)

VARIABLES
  up,         \* the resources start() has brought up, in order
  failed,     \* start() raised
  phase,      \* how far stop() has come
  waiting,    \* the operations of the phase that have not ended
  expired,    \* the deadline of stop() has passed
  sealed,     \* what stop() has closed
  state,      \* what has become of each item
  place,      \* who runs it
  early,      \* items a component let in, and what these handed on
  registry,   \* _tasks
  snapshot,   \* the tasks stop() waits for
  exited      \* os._exit(2)

startVars == <<up, failed>>
stopVars == <<phase, waiting, expired, sealed, snapshot>>
itemVars == <<state, place, early, registry>>
vars == <<startVars, stopVars, itemVars, exited>>

(* start() *)
GraphOrder == <<"connector", "storage", "delay", "pool", "component", "sink">>

Order == GraphOrder \o <<"admission", "source", "http">>

IsUp(r) == \E i \in 1 .. Len(up) : up[i] = r

(* stop(): the operations of each phase, and what they close at once. *)
Phases == <<"admission", "sources", "managed", "producers", "parallel", "sinks", "connectors", "telemetry", "logs">>

Operations(p) ==
  CASE p = "admission"  -> {"loader", "component_admission"} \union (IF IsUp("http") THEN {"http"} ELSE {})
    [] p = "sources"    -> {"source", "component"}
    [] p = "managed"    -> {"admission"}
    [] p = "producers"  -> {"delay", "pool", "deferred_component", "storage"}
    [] p = "sinks"      -> {"sink"}
    [] p = "connectors" -> {"connector"}
    [] p = "telemetry"  -> {"metrics", "tracing"}
    [] p = "logs"       -> {"logs"}
    [] OTHER            -> {}

(* Where messages come in; a component admits them once it has started.    *)
Roots == {"component_admission", "admission", "source", "http"}

Admits(p) == IsUp(IF p = "component_admission" THEN "component" ELSE p) /\ p \notin sealed

Places == Roots \union {"delay", "pool", "parallel"}

Init ==
  /\ up = <<>> /\ failed = FALSE
  /\ phase = 0 /\ waiting = {} /\ expired = FALSE /\ sealed = {}
  /\ state = [i \in Items |-> "new"] /\ place = [i \in Items |-> "source"] /\ early = {}
  /\ registry = {} /\ snapshot = {}
  /\ exited = FALSE

Stopped == phase > Len(Phases)

InPhase(p) == phase > 0 /\ ~Stopped /\ Phases[phase] = p

-----------------------------------------------------------------------------
StartNext ==
  /\ Len(up) < Len(Order) /\ ~failed /\ phase = 0
  /\ up' = Append(up, Order[Len(up) + 1])
  /\ UNCHANGED <<failed, stopVars, itemVars, exited>>

StartFails ==
  /\ Len(up) < Len(Order) /\ ~failed /\ phase = 0
  /\ failed' = TRUE
  /\ UNCHANGED <<up, stopVars, itemVars, exited>>

-----------------------------------------------------------------------------
Runs(p) == {i \in Items : place[i] = p /\ state[i] = "running"}
Holds(p) == {i \in Items : place[i] = p /\ state[i] \in {"queued", "running"}}

(* A message arrives over HTTP, from a source, a connector or a component. *)
Arrive(i, p) ==
  /\ state[i] = "new" /\ p \in Roots /\ Admits(p)
  /\ state' = [state EXCEPT ![i] = "running"]
  /\ place' = [place EXCEPT ![i] = p]
  /\ early' = IF p = "component_admission" THEN early \union {i} ELSE early
  /\ UNCHANGED <<startVars, stopVars, registry, exited>>

HandsOn(i, j) == early' = IF i \in early THEN early \union {j} ELSE early

(* Running i hands j to the delay pool or a task pool: accepted, ... *)
Submit(i, j, p) ==
  /\ state[i] = "running" /\ state[j] = "new"
  /\ p \notin sealed
  /\ state' = [state EXCEPT ![j] = "queued"]
  /\ place' = [place EXCEPT ![j] = p] /\ HandsOn(i, j)
  /\ UNCHANGED <<startVars, stopVars, registry, exited>>

(* ... or a task pool refuses: the caller raises PoolStoppedError, which a *)
(* root invocation's source handles and a detached callback turns into     *)
(* terminate_background_failure.  (The delay operator hands its refusal to *)
(* delay_error, and the item goes on.)                                     *)
Refused(i) ==
  /\ state[i] = "running" /\ "pool" \in sealed
  /\ IF place[i] \in Roots
       THEN state' = [state EXCEPT ![i] = "over"] /\ UNCHANGED exited
       ELSE exited' = TRUE /\ UNCHANGED state
  /\ UNCHANGED <<startVars, stopVars, place, early, registry>>

(* ParallelCaller: create_task, never refused. *)
CreateTask(i, j) ==
  /\ state[i] = "running" /\ state[j] = "new"
  /\ state' = [state EXCEPT ![j] = "running"]
  /\ place' = [place EXCEPT ![j] = "parallel"] /\ HandsOn(i, j)
  /\ registry' = registry \union {j}
  /\ UNCHANGED <<startVars, stopVars, exited>>

(* A timer fires, an executor takes a task. *)
Dispatch(i) ==
  /\ state[i] = "queued"
  /\ state' = [state EXCEPT ![i] = "running"]
  /\ UNCHANGED <<startVars, stopVars, place, early, registry, exited>>

ReturnRegistered(i) ==   \* Fault: complete() leaves the task in the registry
  /\ state[i] = "running"
  /\ state' = [state EXCEPT ![i] = "over"]
  /\ UNCHANGED <<startVars, stopVars, place, early, registry, exited>>

(* The item is done; a ParallelCall task leaves the registry. *)
Return(i) ==
  /\ state[i] = "running"
  /\ state' = [state EXCEPT ![i] = "over"]
  /\ registry' = registry \ {i}
  /\ UNCHANGED <<startVars, stopVars, place, early, exited>>

-----------------------------------------------------------------------------
Enter(n) ==
  /\ phase' = n
  /\ waiting' = IF n > Len(Phases) THEN {} ELSE Operations(Phases[n])
  /\ sealed' = sealed \union waiting'
  /\ snapshot' = IF n <= Len(Phases) /\ Phases[n] = "parallel" THEN registry ELSE {}

Stop ==
  /\ phase = 0 /\ (failed \/ Len(up) = Len(Order))
  /\ Enter(1)
  /\ UNCHANGED <<startVars, expired, itemVars, exited>>

Expire ==
  /\ phase > 0 /\ ~Stopped /\ ~expired
  /\ expired' = TRUE
  /\ UNCHANGED <<startVars, phase, waiting, sealed, snapshot, itemVars, exited>>

(* What an operation waits for: accepted requests, root invocations, tasks. *)
Drained(o) ==
  /\ o \in Roots => Runs(o) = {}
  /\ o \in {"delay", "pool"} => Holds(o) = {}

(* An operation returns or raises, which is only logged. *)
OperationEnds(o) ==
  /\ o \in waiting /\ Drained(o)
  /\ waiting' = waiting \ {o}
  /\ UNCHANGED <<startVars, phase, expired, sealed, snapshot, itemVars, exited>>

(* All operations have ended, or the rest is cancelled at the deadline. *)
PhaseEnds ==
  /\ phase > 0 /\ ~Stopped /\ ~InPhase("parallel")
  /\ waiting = {} \/ expired
  /\ Enter(phase + 1)
  /\ UNCHANGED <<startVars, expired, itemVars, exited>>

ParallelDrainedOnce ==   \* Fault: one snapshot of the registry
  /\ InPhase("parallel")
  /\ \A i \in snapshot : state[i] = "over"
  /\ Enter(phase + 1)
  /\ UNCHANGED <<startVars, expired, itemVars, exited>>

(* The registry is empty ... *)
ParallelDrained ==
  /\ InPhase("parallel")
  /\ \A i \in snapshot : state[i] = "over"
  /\ IF registry = {}
       THEN Enter(phase + 1)
       ELSE snapshot' = registry /\ UNCHANGED <<phase, waiting, sealed>>
  /\ UNCHANGED <<startVars, expired, itemVars, exited>>

(* ... or what the snapshot still has is cancelled. *)
ParallelCancelled ==
  /\ InPhase("parallel") /\ expired
  /\ \E i \in snapshot : state[i] # "over"
  /\ state' = [i \in Items |-> IF i \in snapshot THEN "over" ELSE state[i]]
  /\ registry' = registry \ snapshot
  /\ Enter(phase + 1)
  /\ UNCHANGED <<startVars, expired, place, early, exited>>

StopStep ==
  \/ \E o \in waiting : OperationEnds(o)
  \/ PhaseEnds \/ ParallelDrained \/ ParallelCancelled

GraphStep ==
  \E i \in Items :
    \/ \E p \in Roots : Arrive(i, p)
    \/ \E j \in Items : CreateTask(i, j) \/ \E p \in {"delay", "pool"} : Submit(i, j, p)
    \/ Refused(i) \/ Dispatch(i) \/ Return(i)

Next ==
  /\ ~exited
  /\ StartNext \/ StartFails \/ Stop \/ Expire \/ StopStep \/ GraphStep

Spec == Init /\ [][Next]_vars

(* Graph code returns; the event loop runs stop() and dispatches. *)
Fairness ==
  /\ WF_vars(~exited /\ StopStep)
  /\ \A i \in Items : WF_vars(~exited /\ Dispatch(i)) /\ WF_vars(~exited /\ Return(i))

FairSpec == Spec /\ Fairness

-----------------------------------------------------------------------------
Resources == {Order[n] : n \in 1 .. Len(Order)}

TypeOK ==
  /\ up \in Seq(Resources) /\ failed \in BOOLEAN
  /\ phase \in 0 .. Len(Phases) + 1
  /\ waiting \subseteq sealed
  /\ expired \in BOOLEAN /\ exited \in BOOLEAN
  /\ state \in [Items -> {"new", "queued", "running", "over"}]
  /\ place \in [Items -> Places]
  /\ early \subseteq Items /\ registry \subseteq Items /\ snapshot \subseteq Items

Alive == {i \in Items : state[i] \in {"queued", "running"}}

(* Whatever a message may reach downstream is up before any is admitted,   *)
(* the sinks before any that no component lets in, and stays open for it:  *)
(* unless the deadline passed, no sink, connector or telemetry engine is   *)
(* stopped while graph code is queued or running.  stop() knows the        *)
(* ParallelCall tasks by _tasks: those that run, however late they were    *)
(* created, and none that is over.                                         *)
DownstreamOpen ==
  /\ Alive # {} => \A n \in 1 .. Len(GraphOrder) : GraphOrder[n] # "sink" => IsUp(GraphOrder[n])
  /\ Alive \ early # {} => IsUp("sink")
  /\ Alive # {} /\ ~expired /\ ~exited => sealed \intersect {"sink", "connector", "metrics", "logs"} = {}
  /\ registry = Runs("parallel")

(* stop() returns, without its deadline, once graph code returns.          *)
StopReturns == phase > 0 ~> Stopped \/ exited

(* "Pools and timers are graph-work producers. Drain them ...": draining   *)
(* what was accepted does not terminate the process.                       *)
DrainSurvives == ~exited
=============================================================================
