---------------------------- MODULE ServiceProofs ----------------------------
(* Proofs about ServiceApp, for any number of invocations of graph code,   *)
(* about StreamGraph, for any branches, pools and links, and about         *)
(* OperatorGraph, for any graph.                                           *)
EXTENDS MCService, FiniteSetTheorems, SequenceTheorems, WellFoundedInduction, TLAPS

Types ==
  /\ phase \in 0 .. 10
  /\ state \in [Items -> {"new", "queued", "running", "over"}]
  /\ place \in [Items -> Places]
  /\ phase \in {0, 5} => waiting = {}

(* Resources come up in their order, and nothing runs before a component   *)
(* is up, nor what no component let in before another root is.             *)
UpsOrdered ==
  /\ Len(up) \in 0 .. 9 /\ DOMAIN up = 1 .. Len(up)
  /\ \A n \in 1 .. Len(up) : up[n] = Order[n]

Ups ==
  /\ UpsOrdered
  /\ \A i \in Items : state[i] # "new" => Len(up) >= 5 /\ (i \in early \/ Len(up) >= 7)
  /\ \A i \in Items : state[i] # "new" /\ place[i] = "http" => Len(up) = 9
  /\ \A i \in Items : i \in registry \union snapshot => state[i] # "new"

(* What each phase of stop() has closed. *)
Seals ==
  /\ phase >= 1 => "component_admission" \in sealed
  /\ phase >= 1 /\ Len(up) = 9 => "http" \in sealed
  /\ phase >= 2 => "source" \in sealed
  /\ phase >= 3 => "admission" \in sealed
  /\ phase >= 4 => "delay" \in sealed /\ "pool" \in sealed
  /\ phase < 6 => sealed \intersect {"sink", "connector", "metrics", "logs"} = {}

(* Graph code of a kind is there until the phase that drains it is over:   *)
(* each kind can be fed only by kinds that are drained later or with it.   *)
Until(i, n, o) == phase < n \/ (phase = n /\ o \in waiting)

Drains ==
  /\ \A i \in Items : state[i] = "queued" => place[i] \in {"delay", "pool"}
  /\ ~expired /\ ~exited =>
       \A i \in Items : state[i] \in {"queued", "running"} =>
         /\ place[i] = "component_admission" => Until(i, 1, "component_admission")
         /\ place[i] = "http" => Until(i, 1, "http")
         /\ place[i] = "source" => Until(i, 2, "source")
         /\ place[i] = "admission" => Until(i, 3, "admission")
         /\ place[i] \in {"delay", "pool"} => Until(i, 4, place[i])
         /\ place[i] = "parallel" => phase <= 5 /\ i \in registry

IInv == Types /\ Ups /\ Seals /\ Drains

-----------------------------------------------------------------------------
LEMMA OrderIs ==
  /\ Len(Order) = 9 /\ Len(GraphOrder) = 6
  /\ Order[1] = "connector" /\ Order[2] = "storage" /\ Order[3] = "delay" /\ Order[4] = "pool"
  /\ Order[5] = "component" /\ Order[6] = "sink" /\ Order[7] = "admission" /\ Order[8] = "source"
  /\ Order[9] = "http"
  /\ \A n \in 1 .. 6 : GraphOrder[n] = Order[n]
  BY DEF Order, GraphOrder

LEMMA PhasesAre ==
  /\ Len(Phases) = 9
  /\ Phases[1] = "admission" /\ Phases[2] = "sources" /\ Phases[3] = "managed" /\ Phases[4] = "producers"
  /\ Phases[5] = "parallel" /\ Phases[6] = "sinks" /\ Phases[7] = "connectors" /\ Phases[8] = "telemetry"
  /\ Phases[9] = "logs"
  BY DEF Phases

LEMMA OperationsAre ==
  /\ Operations("admission") = {"loader", "component_admission"} \union (IF IsUp("http") THEN {"http"} ELSE {})
  /\ Operations("sources") = {"source", "component"}
  /\ Operations("managed") = {"admission"}
  /\ Operations("producers") = {"delay", "pool", "deferred_component", "storage"}
  /\ Operations("parallel") = {}
  BY DEF Operations

LEMMA RootsUp ==
  ASSUME Ups
  PROVE  /\ \A p \in Roots : Admits(p) => Len(up) >= 5 /\ (p = "component_admission" \/ Len(up) >= 7)
         /\ IsUp("http") <=> Len(up) = 9
         /\ \A n \in 1 .. Len(GraphOrder) : Len(up) >= n => IsUp(GraphOrder[n])
<1>1. ASSUME NEW p \in Roots, Admits(p) PROVE Len(up) >= 5 /\ (p = "component_admission" \/ Len(up) >= 7)
  BY <1>1, OrderIs DEF Ups, UpsOrdered, IsUp, Roots, Admits
<1>2. IsUp("http") <=> Len(up) = 9
  BY OrderIs DEF Ups, UpsOrdered, IsUp
<1>3. ASSUME NEW n \in 1 .. Len(GraphOrder), Len(up) >= n PROVE IsUp(GraphOrder[n])
  <2>1. n \in 1 .. Len(up) /\ up[n] = GraphOrder[n]
    BY <1>3, OrderIs DEF Ups, UpsOrdered
  <2> QED
    BY <2>1 DEF IsUp
<1> QED
  BY <1>1, <1>2, <1>3

LEMMA InitIInv == Init => IInv
<1> SUFFICES ASSUME Init PROVE IInv
  OBVIOUS
<1>1. Types
  <2>1. place \in [Items -> Places] /\ state \in [Items -> {"new", "queued", "running", "over"}]
    BY DEF Init, Places, Roots
  <2> QED
    BY <2>1 DEF Init, Types
<1>2. Ups
  <2>1. Len(up) = 0 /\ DOMAIN up = 1 .. Len(up)
    BY DEF Init
  <2> QED
    BY <2>1 DEF Init, Ups, UpsOrdered
<1>3. Seals /\ Drains
  BY DEF Init, Seals, Drains
<1> QED
  BY <1>1, <1>2, <1>3 DEF IInv

(* start() *)
LEMMA StartIInv ==
  ASSUME IInv, StartNext \/ StartFails PROVE IInv'
<1> USE DEF IInv, stopVars, itemVars
<1>1. CASE StartFails
  BY <1>1 DEF StartFails, Types, Ups, UpsOrdered, Seals, Drains, Until
<1>2. CASE StartNext
  <2>1. Len(up) < 9 /\ phase = 0 /\ up' = Append(up, Order[Len(up) + 1])
        /\ UNCHANGED <<phase, waiting, expired, sealed, state, place, early, registry, snapshot, exited>>
    BY <1>2, OrderIs DEF StartNext
  <2>2. Ups'
    BY <2>1 DEF Ups, UpsOrdered
  <2>3. Types' /\ Seals' /\ Drains'
    BY <2>1 DEF Types, Seals, Drains, Until
  <2> QED
    BY <2>2, <2>3
<1> QED
  BY <1>1, <1>2

(* Graph code runs. *)
LEMMA GraphIInv ==
  ASSUME IInv, ~exited, GraphStep PROVE IInv'
<1> USE DEF IInv, startVars, stopVars
<1>1. ASSUME NEW i \in Items, NEW p \in Roots, Arrive(i, p) PROVE IInv'
  <2>1. /\ Admits(p) /\ p \notin sealed
        /\ early' = IF p = "component_admission" THEN early \union {i} ELSE early
        /\ state' = [state EXCEPT ![i] = "running"] /\ place' = [place EXCEPT ![i] = p]
        /\ UNCHANGED <<up, phase, waiting, expired, sealed, registry, snapshot, exited>>
    BY <1>1 DEF Arrive, Admits
  <2>2. Types' /\ Seals'
    BY <2>1 DEF Types, Seals, Places
  <2>3. Ups'
    <3>1. UpsOrdered'
      BY <2>1 DEF Ups, UpsOrdered
    <3>2. /\ Len(up) >= 5 /\ (i \in early' \/ Len(up) >= 7)
          /\ p = "http" => Len(up) = 9
      BY <2>1, RootsUp DEF Admits
    <3>3. /\ \A k \in Items : k # i => state'[k] = state[k] /\ place'[k] = place[k]
          /\ place'[i] = p /\ state'[i] = "running" /\ early \subseteq early'
      BY <2>1 DEF Types
    <3> QED
      BY <2>1, <3>1, <3>2, <3>3 DEF Ups
  <2>4. /\ p \in {"http", "component_admission"} => phase < 1
        /\ p = "source" => phase < 2
        /\ p = "admission" => phase < 3
    BY <2>1, RootsUp DEF Seals, Types, Admits
  <2>5. Drains'
    BY <2>1, <2>4 DEF Drains, Types, Until, Roots
  <2> QED
    BY <2>2, <2>3, <2>5
<1>2. ASSUME NEW i \in Items, NEW j \in Items, NEW p \in {"delay", "pool"}, Submit(i, j, p) PROVE IInv'
  <2>1. Types' /\ Seals' /\ Ups'
    BY <1>2 DEF Submit, HandsOn, Types, Seals, Ups, UpsOrdered, Places
  <2>2. phase < 4
    BY <1>2 DEF Submit, Seals, Types
  <2>3. Drains'
    BY <1>2, <2>2 DEF Submit, Drains, Types, Until
  <2> QED
    BY <2>1, <2>3
<1>3. ASSUME NEW i \in Items, NEW j \in Items, CreateTask(i, j) PROVE IInv'
  <2>1. Types' /\ Seals' /\ Ups'
    BY <1>3 DEF CreateTask, HandsOn, Types, Seals, Ups, UpsOrdered, Places
  <2>2. ~expired => phase <= 5
    BY <1>3 DEF CreateTask, Drains, Types, Until, Places, Roots
  <2>3. Drains'
    BY <1>3, <2>2 DEF CreateTask, Drains, Types, Until
  <2> QED
    BY <2>1, <2>3
<1>4. ASSUME NEW i \in Items, Refused(i) \/ Return(i) PROVE IInv'
  <2>1. Types' /\ Seals' /\ Ups'
    <3>1. UNCHANGED <<startVars, stopVars, place, early>> /\ registry' \subseteq registry
      BY <1>4 DEF Refused, Return
    <3>2. /\ state' \in [Items -> {"new", "queued", "running", "over"}]
          /\ \A k \in Items : state'[k] # "new" => state[k] # "new"
      BY <1>4 DEF Refused, Return, Types
    <3>3. Types' /\ Seals'
      BY <3>1, <3>2 DEF Types, Seals, startVars, stopVars
    <3>4. up' = up /\ place' = place /\ early' = early /\ snapshot' = snapshot
      BY <3>1 DEF startVars, stopVars
    <3>5. Ups'
      <4>1. \A k \in Items : state'[k] # "new" =>
              Len(up) >= 5 /\ (k \in early \/ Len(up) >= 7) /\ (place[k] = "http" => Len(up) = 9)
        BY <3>2 DEF Ups
      <4>2. \A k \in Items : k \in registry \union snapshot => state'[k] # "new"
        BY <1>4, <3>2 DEF Ups, UpsOrdered, Refused, Return
      <4>3. UpsOrdered'
        BY <3>4 DEF Ups, UpsOrdered
      <4>4. \A k \in registry' \union snapshot' : k \in registry \union snapshot
        BY <3>1, <3>4
      <4>5. \A k \in Items : k \in registry' \union snapshot' => state'[k] # "new"
        BY <4>2, <4>4
      <4>6. \A k \in Items : state'[k] # "new" => Len(up') >= 5 /\ (k \in early' \/ Len(up') >= 7)
        BY <3>4, <4>1
      <4>7. \A k \in Items : state'[k] # "new" /\ place'[k] = "http" => Len(up') = 9
        BY <3>4, <4>1
      <4> QED
        BY <4>3, <4>5, <4>6, <4>7 DEF Ups
    <3> QED
      BY <3>3, <3>5
  <2>2. ASSUME Refused(i) PROVE Drains'
    <3>1. \A k \in Items : state'[k] = state[k] \/ state'[k] = "over"
      BY <2>2 DEF Refused, Types
    <3>2. UNCHANGED <<stopVars, place, registry>> /\ (~exited' => ~exited)
      BY <2>2 DEF Refused
    <3> QED
      BY <3>1, <3>2 DEF Drains, Until, stopVars
  <2>3. ASSUME Return(i) PROVE Drains'
    <3>1. \A k \in Items : IF k = i THEN state'[k] = "over" ELSE state'[k] = state[k]
      BY <2>3 DEF Return, Types
    <3>2. UNCHANGED <<stopVars, place, exited>> /\ registry' = registry \ {i}
      BY <2>3 DEF Return
    <3> QED
      BY <3>1, <3>2 DEF Drains, Until, stopVars
  <2> QED
    BY <1>4, <2>1, <2>2, <2>3
<1>5. ASSUME NEW i \in Items, Dispatch(i) PROVE IInv'
  <2>1. Types' /\ Seals' /\ Ups'
    BY <1>5 DEF Dispatch, Types, Seals, Ups, UpsOrdered
  <2>2. Drains'
    BY <1>5 DEF Dispatch, Drains, Types, Until
  <2> QED
    BY <2>1, <2>2
<1> QED
  BY <1>1, <1>2, <1>3, <1>4, <1>5 DEF GraphStep

(* A phase begins: its operations are waited for and closed; what the      *)
(* earlier ones have drained stays drained.                                *)
LEMMA EnterSeals ==
  ASSUME IInv, NEW n \in 1 .. 10, phase = n - 1, Enter(n), UNCHANGED startVars
  PROVE  /\ n = 1 => waiting' = Operations("admission")
         /\ n = 2 => waiting' = Operations("sources")
         /\ n = 3 => waiting' = Operations("managed")
         /\ n = 4 => waiting' = Operations("producers")
         /\ n = 5 => waiting' = {}
         /\ phase' = n /\ Seals' /\ snapshot' \subseteq registry
<1>1. /\ n = 1 => waiting' = Operations("admission")
      /\ n = 2 => waiting' = Operations("sources")
      /\ n = 3 => waiting' = Operations("managed")
      /\ n = 4 => waiting' = Operations("producers")
      /\ n = 5 => waiting' = {}
      /\ phase' = n /\ sealed' = sealed \union waiting'
  BY PhasesAre, OperationsAre DEF Enter
<1>2. n = 1 /\ Len(up) = 9 => "http" \in sealed'
  BY <1>1, OperationsAre, RootsUp DEF IInv
<1>3. n < 6 => sealed' \intersect {"sink", "connector", "metrics", "logs"} = {}
  BY <1>1, OperationsAre DEF IInv, Seals, Types
<1>4. Seals'
  BY <1>1, <1>2, <1>3, OperationsAre DEF IInv, Seals, Types, startVars
<1> QED
  BY <1>1, <1>4 DEF Enter

LEMMA EnterIInv ==
  ASSUME IInv, ~exited, NEW n \in 1 .. 10, phase = n - 1, Enter(n),
         waiting = {} \/ expired, n = 6 => registry = {} \/ expired,
         UNCHANGED <<startVars, expired, itemVars, exited>>
  PROVE  IInv'
<1> USE DEF IInv, startVars, itemVars
<1>1. Seals' /\ phase' = n /\ (n = 5 => waiting' = {})
  BY EnterSeals
<1>2. Types' /\ Ups'
  <2>1. Types'
    BY <1>1 DEF Types
  <2>2. Ups'
    BY DEF Ups, UpsOrdered, Enter
  <2> QED
    BY <2>1, <2>2
<1>3. Drains'
  <2> SUFFICES ASSUME ~expired PROVE Drains'
    BY DEF Drains
  <2>1. waiting = {}
    OBVIOUS
  <2>2. /\ n = 1 => "component_admission" \in waiting' /\ (Len(up) = 9 => "http" \in waiting')
        /\ n = 2 => "source" \in waiting'
        /\ n = 3 => "admission" \in waiting'
        /\ n = 4 => "delay" \in waiting' /\ "pool" \in waiting'
    BY EnterSeals, OperationsAre, RootsUp
  <2> QED
    BY <1>1, <2>1, <2>2 DEF Drains, Types, Until, Ups, UpsOrdered
<1> QED
  BY <1>1, <1>2, <1>3

(* stop() *)
LEMMA StopIInv ==
  ASSUME IInv, ~exited, Stop \/ Expire \/ StopStep PROVE IInv'
<1> USE DEF IInv
<1>1. CASE Stop
  BY <1>1, EnterIInv DEF Stop, Types
<1>2. CASE Expire
  BY <1>2 DEF Expire, Types, Ups, UpsOrdered, Seals, Drains, startVars, itemVars
<1>3. ASSUME NEW o \in waiting, OperationEnds(o) PROVE IInv'
  <2>1. Types' /\ Ups' /\ Seals'
    BY <1>3 DEF OperationEnds, Types, Ups, UpsOrdered, Seals, startVars, itemVars
  <2>2. Drains'
    <3>0. Drained(o)
      BY <1>3 DEF OperationEnds
    <3>1. ASSUME o \in Roots PROVE \A i \in Items : state[i] \in {"queued", "running"} => place[i] # o
      <4>1. Runs(o) = {}
        BY <3>0, <3>1 DEF Drained
      <4> QED
        BY <3>1, <4>1 DEF Runs, Drains, Roots
    <3>2. ASSUME o \in {"delay", "pool"}
          PROVE  \A i \in Items : state[i] \in {"queued", "running"} => place[i] # o
      <4>1. Holds(o) = {}
        BY <3>0, <3>2 DEF Drained, Roots
      <4> QED
        BY <4>1 DEF Holds
    <3>3. \A i \in Items : place[i] = o => o \in Roots \union {"delay", "pool", "parallel"}
      BY DEF Types, Places
    <3> QED
      BY <1>3, <3>1, <3>2, <3>3 DEF OperationEnds, Drains, Until, startVars, itemVars, Types, Roots
  <2> QED
    BY <2>1, <2>2
<1>4. CASE PhaseEnds
  BY <1>4, EnterIInv, PhasesAre DEF PhaseEnds, Stopped, InPhase, Types
<1>5. CASE ParallelDrained
  <2>1. phase = 5
    BY <1>5, PhasesAre DEF ParallelDrained, Stopped, InPhase, Types
  <2>2. CASE registry = {}
    BY <1>5, <2>1, <2>2, EnterIInv DEF ParallelDrained, Types
  <2>3. CASE registry # {}
    <3>1. UNCHANGED <<startVars, itemVars, phase, waiting, sealed, expired>> /\ snapshot' \subseteq registry
      BY <1>5, <2>3 DEF ParallelDrained
    <3>2. Types' /\ Ups' /\ Seals'
      BY <3>1 DEF startVars, itemVars, Types, Ups, UpsOrdered, Seals
    <3>3. Drains'
      BY <3>1 DEF startVars, itemVars, Drains, Until
    <3> QED
      BY <3>2, <3>3
  <2> QED
    BY <2>2, <2>3
<1>6. CASE ParallelCancelled
  <2>1. phase = 5 /\ expired /\ expired'
    BY <1>6, PhasesAre DEF ParallelCancelled, Stopped, InPhase, Types
  <2>2. Seals' /\ phase' = 6 /\ snapshot' \subseteq registry
    BY <1>6, <2>1, EnterSeals DEF ParallelCancelled
  <2>3. /\ state' = [i \in Items |-> IF i \in snapshot THEN "over" ELSE state[i]]
        /\ registry' \subseteq registry
        /\ UNCHANGED <<up, place, early, expired>>
    BY <1>6 DEF ParallelCancelled, startVars
  <2>4. state' \in [Items -> {"new", "queued", "running", "over"}]
        /\ \A i \in Items : state'[i] = state[i] \/ (state'[i] = "over" /\ state[i] # "new")
    BY <2>3 DEF Types, Ups, UpsOrdered
  <2>5. Types'
    BY <2>2, <2>3, <2>4 DEF Types
  <2>6. Ups'
    BY <2>2, <2>3, <2>4 DEF Types, Ups, UpsOrdered
  <2>7. Drains'
    BY <2>1, <2>3, <2>4 DEF Types, Drains
  <2> QED
    BY <2>2, <2>5, <2>6, <2>7
<1> QED
  BY <1>1, <1>2, <1>3, <1>4, <1>5, <1>6 DEF StopStep

LEMMA StepIInv == IInv /\ [Next]_vars => IInv'
<1> SUFFICES ASSUME IInv, [Next]_vars PROVE IInv'
  OBVIOUS
<1>1. CASE UNCHANGED vars
  BY <1>1 DEF vars, startVars, stopVars, itemVars, IInv, Types, Ups, UpsOrdered, Seals, Drains, Until
<1>2. CASE Next
  BY <1>2, StartIInv, GraphIInv, StopIInv DEF Next
<1> QED
  BY <1>1, <1>2

(* The registry has the ParallelCall tasks that run. *)
Registered == \A i \in Items : i \in registry <=> place[i] = "parallel" /\ state[i] = "running"

LEMMA RegisteredStep ==
  ASSUME IInv, registry \subseteq Items, Registered, [Next]_vars
  PROVE  registry' \subseteq Items /\ Registered'
<1> USE DEF IInv, Types, Registered, stopVars, startVars
<1>1. CASE UNCHANGED itemVars
  BY <1>1 DEF itemVars
<1>2. ASSUME NEW i \in Items, NEW p \in Roots, Arrive(i, p) PROVE registry' \subseteq Items /\ Registered'
  BY <1>2 DEF Arrive, Roots
<1>3. ASSUME NEW i \in Items, NEW j \in Items, NEW p \in {"delay", "pool"}, Submit(i, j, p)
      PROVE  registry' \subseteq Items /\ Registered'
  BY <1>3 DEF Submit
<1>4. ASSUME NEW i \in Items, NEW j \in Items, CreateTask(i, j) PROVE registry' \subseteq Items /\ Registered'
  BY <1>4 DEF CreateTask
<1>5. ASSUME NEW i \in Items, Refused(i) PROVE registry' \subseteq Items /\ Registered'
  BY <1>5 DEF Refused, Roots
<1>6. ASSUME NEW i \in Items, Return(i) PROVE registry' \subseteq Items /\ Registered'
  BY <1>6 DEF Return
<1>7. ASSUME NEW i \in Items, Dispatch(i) PROVE registry' \subseteq Items /\ Registered'
  BY <1>7 DEF Dispatch, Drains
<1>8. CASE ParallelCancelled
  BY <1>8 DEF ParallelCancelled
<1>9. CASE StartNext \/ StartFails \/ Stop \/ Expire \/ PhaseEnds \/ ParallelDrained
           \/ \E o \in waiting : OperationEnds(o)
  BY <1>1, <1>9 DEF StartNext, StartFails, Stop, Expire, PhaseEnds, ParallelDrained, OperationEnds
<1>10. CASE UNCHANGED vars
  BY <1>1, <1>10 DEF vars
<1> QED
  BY <1>2, <1>3, <1>4, <1>5, <1>6, <1>7, <1>8, <1>9, <1>10 DEF Next, StopStep, GraphStep

(* runtime/serviceapp.py: start() and the phases of stop() keep everything *)
(* a message may reach downstream open for as long as one is under way,    *)
(* but for the sinks that start after the component that let it in, and    *)
(* stop() knows every ParallelCall task that is.                           *)
THEOREM OpenWhileAlive == Spec => []DownstreamOpen
<1> DEFINE AppInv == IInv /\ registry \subseteq Items /\ Registered
<1>1. Init => AppInv
  BY InitIInv DEF Init, Registered
<1>2. AppInv /\ [Next]_vars => AppInv'
  BY StepIInv, RegisteredStep
<1>3. AppInv => DownstreamOpen
  <2>0. ASSUME AppInv PROVE registry = Runs("parallel")
    BY <2>0 DEF Registered, Runs
  <2> SUFFICES ASSUME IInv, NEW i \in Items, state[i] \in {"queued", "running"}
               PROVE  /\ \A n \in 1 .. Len(GraphOrder) : GraphOrder[n] # "sink" => IsUp(GraphOrder[n])
                      /\ i \notin early => IsUp("sink")
                      /\ ~expired /\ ~exited => sealed \intersect {"sink", "connector", "metrics", "logs"} = {}
    BY <2>0 DEF DownstreamOpen, Alive
  <2>1. Len(up) >= 5 /\ (i \in early \/ Len(up) >= 7)
    BY DEF IInv, Ups, UpsOrdered
  <2>2. ~expired /\ ~exited => phase < 6
    BY DEF IInv, Types, Drains, Until, Places, Roots
  <2>3. ASSUME NEW n \in 1 .. Len(GraphOrder), GraphOrder[n] # "sink" PROVE IsUp(GraphOrder[n])
    BY <2>1, <2>3, RootsUp, OrderIs DEF IInv
  <2>4. i \notin early => IsUp("sink")
    BY <2>1, RootsUp, OrderIs DEF IInv
  <2> QED
    BY <2>2, <2>3, <2>4 DEF IInv, Seals
<1> QED
  BY <1>1, <1>2, <1>3, PTL DEF Spec

(***************************************************************************)
(* From the configuration of the links to a message at a split.            *)
(***************************************************************************)
AnySide ==
  [semantics : Links!Semantics \union {Links!Nothing, "no link"},
   pool : Pools \union {Links!Nothing, "undeclared"}, priority : BOOLEAN]

LinkTypes ==
  /\ edge \in [Links!All -> AnySide]
  /\ branch \in [Links!All -> {"unserved", "called", "handed", "done", "raised"}]
  /\ caller \in [Links!All -> AnySide]
  /\ default \in {"Inherited", "TaskPool", "ParallelCall"}

(* What service_init has let pass has its pools.                           *)
Validated ==
  building \notin {"configured", "rejected"} =>
    \A b \in Links!All : Links!Linked(b) =>
      /\ Links!Accepts(edge[b])
      /\ edge[b].semantics \in Links!Pooled => <<edge[b].semantics, edge[b].pool>> \in created

(* A caller is made only after that, and is what its link says.            *)
CallersMatch ==
  /\ building \in {"configured", "rejected"} => \A b \in Links!All : caller[b] = Links!Unset
  /\ \A b \in Links!All : Links!Linked(b) /\ caller[b] # Links!Unset => caller[b].semantics = edge[b].semantics

(* A message comes when the branches are sorted.                           *)
Sorted ==
  IF building \in {"serving", "served", "raised"}
    THEN \A a, d \in Links!All : Links!IsAsync(a) /\ ~Links!IsAsync(d) => <<d, a>> \notin order
    ELSE \A b \in Links!All : branch[b] = "unserved"

LinksInv == LinkTypes /\ Validated /\ CallersMatch /\ Sorted /\ LinksServed

LEMMA InitLinksInv == Links!Init => LinksInv
<1> SUFFICES ASSUME Links!Init PROVE LinksInv OBVIOUS
<1>1. LinkTypes
  <2>1. Links!Unset \in AnySide /\ Links!NoLink \in AnySide
    BY DEF Links!Unset, Links!NoLink, Links!Side, AnySide
  <2>2. ASSUME NEW side \in Links!Sides PROVE side \in AnySide
    <3>1. ASSUME NEW s \in Links!Semantics, side = Links!Side(s, Links!Nothing, FALSE) PROVE side \in AnySide
      BY <3>1 DEF Links!Side, AnySide
    <3>2. ASSUME NEW s \in Links!Pooled, NEW p \in Pools \union {"undeclared"}, NEW pr \in BOOLEAN, side = Links!Side(s, p, pr)
          PROVE  side \in AnySide
      BY <3>2 DEF Links!Side, Links!Semantics, Links!Pooled, AnySide
    <3>3. \/ \E s \in Links!Semantics : side = Links!Side(s, Links!Nothing, FALSE)
          \/ \E s \in Links!Pooled, p \in Pools \union {"undeclared"}, pr \in BOOLEAN : side = Links!Side(s, p, pr)
      BY DEF Links!Sides, Links!Side
    <3> QED BY <3>1, <3>2, <3>3
  <2> QED BY <2>1, <2>2 DEF Links!Init, LinkTypes
<1>2. Validated /\ CallersMatch /\ Sorted /\ LinksServed
  BY DEF Links!Init, Validated, CallersMatch, Sorted, LinksServed, Links!ValidatedBuilds,
       Links!AsyncBranchesServed
<1> QED BY <1>1, <1>2 DEF LinksInv

(* service_init.                                                           *)
LEMMA InitServiceStep == LinksInv /\ Links!ServiceInit => LinksInv'
<1> SUFFICES ASSUME LinksInv, Links!ServiceInit PROVE LinksInv' OBVIOUS
<1> USE DEF LinksInv, Links!ServiceInit
<1>1. LinkTypes'
  BY DEF LinkTypes
<1>2. \A b \in Links!All : caller[b] = Links!Unset /\ branch[b] = "unserved"
  BY DEF CallersMatch, Sorted
<1>3. Validated'
  <2> SUFFICES ASSUME building' \notin {"configured", "rejected"}, NEW b \in Links!All, Links!Linked(b)'
               PROVE  /\ Links!Accepts(edge[b])
                      /\ edge[b].semantics \in Links!Pooled => <<edge[b].semantics, edge[b].pool>> \in created'
    BY DEF Validated
  <2> DEFINE sides == {edge[x] : x \in {y \in Links!All : Links!Linked(y)}}
  <2>1. edge[b] \in sides
    BY DEF Links!Linked
  <2>2. (\A side \in sides : Links!Accepts(side)) /\ created' = Links!PoolsOf(sides)
    OBVIOUS
  <2> HIDE DEF sides
  <2> QED BY <2>1, <2>2 DEF Links!PoolsOf
<1>4. CallersMatch' /\ Sorted'
  BY <1>2 DEF CallersMatch, Sorted
<1>5. LinksServed'
  BY <1>2 DEF LinksServed, Links!ValidatedBuilds, Links!AsyncBranchesServed
<1> QED BY <1>1, <1>3, <1>4, <1>5

(* make_caller fails only where no link names a pool.                      *)
LEMMA MakeCallerStep == ASSUME LinksInv, NEW b \in Links!All, Links!MakeCaller(b) PROVE LinksInv'
<1> USE DEF Links!Linked
<1> DEFINE semantics == Links!Resolve(b)
           made == IF semantics \in Links!Pooled THEN [edge[b] EXCEPT !.semantics = semantics]
                                                 ELSE Links!Side(semantics, Links!Nothing, FALSE)
<1>1. /\ building = "constructing" /\ caller[b] = Links!Unset
      /\ UNCHANGED <<local, default, edge, async, created, order, branch>>
  BY DEF Links!MakeCaller
<1>2. \A a \in Links!All : branch[a] = "unserved"
  BY <1>1 DEF LinksInv, Sorted
<1>3. CASE Links!Linked(b)
  <2>1. Links!Accepts(edge[b]) /\ (edge[b].semantics \in Links!Pooled
        => <<edge[b].semantics, edge[b].pool>> \in created)
    BY <1>1, <1>3 DEF LinksInv, Validated
  <2>2. semantics = edge[b].semantics /\ semantics \in Links!Semantics \ {"Inherited"}
    BY <1>3, <2>1 DEF Links!Resolve, Links!Accepts, Links!Semantics, Links!Nothing
  <2>3. semantics \in Links!Pooled =>
          /\ edge[b].pool # Links!Nothing /\ <<semantics, edge[b].pool>> \in created
          /\ semantics = "PriorityTaskPool" => edge[b].priority
    BY <2>1, <2>2, PoolsAssumption DEF Links!Accepts, Links!Nothing
  <2>4. caller' = [caller EXCEPT ![b] = made] /\ building' = building
    BY <1>3, <2>3 DEF Links!MakeCaller
  <2>5. made \in AnySide /\ made.semantics = semantics
    <3>1. edge[b] \in AnySide
      BY DEF LinksInv, LinkTypes
    <3>2. [edge[b] EXCEPT !.semantics = semantics] \in AnySide
          /\ [edge[b] EXCEPT !.semantics = semantics].semantics = semantics
      BY <2>2, <3>1 DEF AnySide
    <3>3. Links!Side(semantics, Links!Nothing, FALSE) \in AnySide
          /\ Links!Side(semantics, Links!Nothing, FALSE).semantics = semantics
      BY <2>2 DEF AnySide, Links!Side
    <3> QED BY <3>2, <3>3
  <2> HIDE DEF made
  <2>6. LinkTypes'
    BY <1>1, <2>4, <2>5 DEF LinksInv, LinkTypes
  <2>7. Validated' /\ Sorted'
    BY <1>1, <1>2, <2>4 DEF LinksInv, Validated, Sorted
  <2>8. CallersMatch'
    BY <1>1, <2>2, <2>4, <2>5 DEF LinksInv, LinkTypes, CallersMatch
  <2>9. LinksServed'
    <3>1. Links!ValidatedBuilds'
      BY <1>1, <2>1, <2>2, <2>4, <2>5 DEF LinksInv, LinksServed, LinkTypes, Links!ValidatedBuilds
    <3> QED BY <1>1, <1>2, <3>1 DEF LinksServed, Links!AsyncBranchesServed
  <2> QED BY <2>6, <2>7, <2>8, <2>9 DEF LinksInv
<1>4. CASE ~Links!Linked(b)
  <2>1. CASE building' = "failed" /\ caller' = caller /\ semantics \in Links!Pooled
    <3>1. default \in Links!Pooled
      BY <1>4, <2>1 DEF Links!Resolve, Links!Nothing, Links!Pooled
    <3>2. LinkTypes' /\ Validated' /\ CallersMatch' /\ Sorted'
      BY <1>1, <1>2, <2>1 DEF LinksInv, LinkTypes, Validated, CallersMatch, Sorted
    <3>3. LinksServed'
      BY <1>1, <1>2, <1>4, <2>1, <3>1 DEF LinksInv, LinksServed, Links!ValidatedBuilds,
           Links!AsyncBranchesServed
    <3> QED BY <3>2, <3>3 DEF LinksInv
  <2>2. CASE caller' = [caller EXCEPT ![b] = made] /\ building' = building /\ semantics \notin Links!Pooled
    <3>1. made \in AnySide
      BY <1>4, <2>2 DEF LinksInv, LinkTypes, AnySide, Links!Side, Links!Resolve, Links!Nothing, Links!Semantics
    <3> HIDE DEF made
    <3>2. LinkTypes' /\ Validated' /\ Sorted'
      BY <1>1, <1>2, <2>2, <3>1 DEF LinksInv, LinkTypes, Validated, Sorted
    <3>3. \A a \in Links!All : Links!Linked(a) => caller'[a] = caller[a]
      BY <1>4, <2>2 DEF LinksInv, LinkTypes
    <3>4. CallersMatch'
      BY <1>1, <2>2, <3>3 DEF LinksInv, CallersMatch
    <3>5. LinksServed'
      BY <1>1, <1>2, <2>2, <3>3 DEF LinksInv, LinksServed, Links!ValidatedBuilds, Links!AsyncBranchesServed
    <3> QED BY <3>2, <3>4, <3>5 DEF LinksInv
  <2> QED BY <1>4, <2>1, <2>2 DEF Links!MakeCaller
<1> QED BY <1>3, <1>4

(* build() puts the asynchronous branches first.                           *)
LEMMA BuildStep == LinksInv /\ Links!Build => LinksInv'
<1> SUFFICES ASSUME LinksInv, Links!Build PROVE LinksInv' OBVIOUS
<1> USE DEF Links!Linked
<1>1. /\ building = "constructing" /\ building' = "serving"
      /\ UNCHANGED <<local, default, edge, async, created, caller, branch>>
  BY DEF Links!Build
<1>2. LinkTypes' /\ Validated' /\ CallersMatch'
  BY <1>1 DEF LinksInv, LinkTypes, Validated, CallersMatch
<1>3. \A a, d \in Links!All : Links!IsAsync(a) /\ ~Links!IsAsync(d) => <<d, a>> \notin order'
  <2> SUFFICES ASSUME NEW a \in Links!All, NEW d \in Links!All, Links!IsAsync(a), ~Links!IsAsync(d), <<d, a>> \in order'
               PROVE  FALSE
    OBVIOUS
  <2>1. IF Links!IsAsync(d) = Links!IsAsync(a) THEN <<d, a>> \in order ELSE Links!IsAsync(d)
    BY DEF Links!Build
  <2> QED BY <2>1
<1>4. Sorted'
  BY <1>1, <1>3 DEF Sorted, Links!IsAsync, Links!Linked
<1>5. LinksServed'
  BY <1>1 DEF LinksInv, Sorted, LinksServed, Links!ValidatedBuilds, Links!AsyncBranchesServed
<1> QED BY <1>2, <1>4, <1>5 DEF LinksInv

(* consume().                                                              *)
LEMMA ConsumeStep ==
  ASSUME LinksInv, Links!Served \/ \E b \in Links!All : Links!Serve(b) \/ Links!Returns(b) \/ Links!Raises(b)
  PROVE  LinksInv'
<1> USE DEF Links!Linked
<1>1. UNCHANGED <<local, default, edge, async, created, caller, order>>
  BY DEF Links!Served, Links!Serve, Links!Returns, Links!Raises
<1>2. \A b \in Links!All : Links!IsAsync(b)' = Links!IsAsync(b)
  BY <1>1 DEF Links!IsAsync, Links!Linked
<1>3. building \in {"serving", "served", "raised"} /\ building' \in {"serving", "served", "raised"}
  BY DEF LinksInv, Sorted, Links!Served, Links!Serve, Links!Returns, Links!Raises
<1>4. LinkTypes'
  BY <1>1 DEF LinksInv, LinkTypes, Links!Served, Links!Serve, Links!Returns, Links!Raises
<1>5. Validated' /\ CallersMatch' /\ Sorted'
  BY <1>1, <1>2, <1>3 DEF LinksInv, Validated, CallersMatch, Sorted
<1>6. Links!AsyncBranchesServed'
  <2>1. CASE Links!Served
    BY <1>2, <2>1 DEF Links!Served, LinksInv, LinksServed, Links!AsyncBranchesServed
  <2>2. ASSUME NEW b \in Links!All, Links!Serve(b) PROVE Links!AsyncBranchesServed'
    <3> SUFFICES ASSUME NEW a \in Links!All, NEW d \in Links!All, Links!IsAsync(a), ~Links!IsAsync(d),
                        branch'[d] # "unserved", branch'[a] = "unserved"
                 PROVE  FALSE
      BY <1>2 DEF Links!AsyncBranchesServed
    <3>1. branch[a] = "unserved" /\ a # b
      BY <2>2 DEF Links!Serve, LinksInv, LinkTypes
    <3>2. CASE d = b
      BY <1>3, <2>2, <3>1, <3>2 DEF Links!Serve, Links!Unserved, LinksInv, Sorted
    <3>3. CASE d # b
      BY <2>2, <3>1, <3>3 DEF Links!Serve, LinksInv, LinkTypes, LinksServed, Links!AsyncBranchesServed
    <3> QED BY <3>2, <3>3
  <2>3. ASSUME NEW b \in Links!All, Links!Returns(b) \/ Links!Raises(b) PROVE Links!AsyncBranchesServed'
    <3>1. \A a \in Links!All : branch'[a] = "unserved" <=> branch[a] = "unserved"
      BY <2>3 DEF Links!Returns, Links!Raises, LinksInv, LinkTypes
    <3> QED BY <1>2, <3>1 DEF LinksInv, LinksServed, Links!AsyncBranchesServed
  <2> QED BY <2>1, <2>2, <2>3
<1>7. Links!ValidatedBuilds'
  BY <1>1, <1>3 DEF LinksInv, LinksServed, Links!ValidatedBuilds, Links!Linked
<1> QED BY <1>4, <1>5, <1>6, <1>7 DEF LinksInv, LinksServed

(* runtime/serviceapp.py, runtime/common.py and operators/split.py: of all *)
(* configurations that service_init accepts, only one that leaves a branch *)
(* without a link to a default that needs a pool cannot be built; every    *)
(* caller is the one its link asks for, on a pool there is; and no branch  *)
(* that runs inside consume() comes before an asynchronous one.            *)
THEOREM ValidLinksServed == Links!Spec => []LinksServed
<1>1. LinksInv /\ [Links!Next]_(Links!vars) => LinksInv'
  <2> SUFFICES ASSUME LinksInv, [Links!Next]_(Links!vars) PROVE LinksInv' OBVIOUS
  <2>1. CASE UNCHANGED Links!vars
    BY <2>1 DEF Links!vars, LinksInv, LinkTypes, Validated, CallersMatch, Sorted, LinksServed,
         Links!ValidatedBuilds,
       Links!AsyncBranchesServed, Links!Linked, Links!IsAsync
  <2> QED BY <2>1, InitServiceStep, MakeCallerStep, BuildStep, ConsumeStep DEF Links!Next
<1>2. LinksInv => LinksServed
  BY DEF LinksInv
<1> QED BY <1>1, <1>2, InitLinksInv, PTL DEF Links!Spec

(***************************************************************************)
(* A message in a graph of operators.                                      *)
(***************************************************************************)
Joins == {"join", "multijoin"}
Held == {"sleeping", "delivering"}
Ats == {"call", "return", "raise", "joining", "expiring", "late", "error"} \union Held

AnyFrame ==
  [node : Operators!Nodes, value : ValueTypes \union Nat, side : {1, 2}, at : Ats, left : Int, id : Nat]

OperatorTypes ==
  /\ graph \in Graphs /\ durable \in BOOLEAN
  /\ stacks \in Seq(Seq(AnyFrame))
  /\ delayed \subseteq [id : Nat, node : Operators!Nodes, value : ValueTypes]
  /\ fate \in Seq(SUBSET {"delivered", "dropped", "reported"})
  /\ group = [n \in Operators!Nodes |-> group[n]]

(* Nothing moves before build(), whose switches lead to branches of the    *)
(* type they are asked for; only joins have groups.                        *)
Routed(n) ==
  \A v \in ValueTypes :
    LET i == selector[n][v]
    IN  i \in Operators!Forks(n) => graph[Operators!To(n)[i].node].type = v

Stages ==
  /\ source # "none" => built = "built"
  /\ source = "none" => stacks = <<>> /\ delayed = {}
  /\ built = "built" => \A n \in Operators!Cases : Routed(n)
  /\ \A n \in Operators!Nodes : group[n] # Operators!EmptyGroup =>
       source # "none" /\ Operators!Op(n) \in Joins

(* What a call does is what its operator may do, and a branch has a value  *)
(* of its type.                                                            *)
Suits(f) ==
  /\ Operators!Op(f.node) \in Joins \/ f.value \in ValueTypes
  /\ Operators!Op(f.node) = "when" => f.value = graph[f.node].type
  /\ f.at \in Held \union {"late", "error"} => Operators!Op(f.node) = "delay"
  /\ f.at \in {"joining", "expiring"} => Operators!Op(f.node) \in Joins

Suited ==
  /\ \A t \in DOMAIN stacks : \A i \in DOMAIN stacks[t] : Suits(stacks[t][i])
  /\ \A h \in delayed : Operators!Op(h.node) = "delay"

(* Whoever has a delayed value has it alone: the pool, which no Workflow   *)
(* uses, or the call that sleeps, the last of its task, or delivers.       *)
HeldRight(t, i) ==
  LET f == stacks[t][i]
  IN  /\ f.at \in Held => durable /\ f.id \in DOMAIN fate
      /\ f.at = "sleeping" => i = Len(stacks[t]) /\ fate[f.id] = {}
      /\ f.at = "delivering" => fate[f.id] = {"delivered"}

Holders ==
  /\ \A t \in DOMAIN stacks : \A i \in DOMAIN stacks[t] : HeldRight(t, i)
  /\ \A t, u \in DOMAIN stacks : \A i \in DOMAIN stacks[t] : \A j \in DOMAIN stacks[u] :
       stacks[t][i].at \in Held /\ stacks[u][j].at \in Held /\ stacks[t][i].id = stacks[u][j].id
         => t = u /\ i = j

Pooled ==
  /\ delayed # {} => ~durable
  /\ \A h \in delayed : h.id \in DOMAIN fate /\ fate[h.id] = {}
  /\ \A g, h \in delayed : g.id = h.id => g = h

Fated ==
  \A id \in DOMAIN fate :
    \/ fate[id] = {} /\ ((\E h \in delayed : h.id = id) \/ Operators!Sleeping(id))
    \/ fate[id] \in {{"delivered"}, {"reported"}}
    \/ fate[id] = {"dropped"} /\ ended
    \/ fate[id] = {"delivered", "reported"} /\ durable

OperatorInv == OperatorTypes /\ Stages /\ Suited /\ Holders /\ Pooled /\ Fated

(* The frames of st are those of stacks, but for the calls of task t from  *)
(* the n-th on: there may be one of F in its place, and calls that hold    *)
(* nothing, in any task.                                                   *)
Begun == {f \in AnyFrame : f.at \notin Held /\ Suits(f)}

Reshaped(st, t, n, F) ==
  /\ st \in Seq(Seq(AnyFrame))
  /\ \A u \in DOMAIN stacks : u \in DOMAIN st /\ (u # t => st[u] = stacks[u])
  /\ t \in DOMAIN stacks =>
       \A i \in DOMAIN stacks[t] : i < n => i \in DOMAIN st[t] /\ st[t][i] = stacks[t][i]
  /\ \A u \in DOMAIN st : \A i \in DOMAIN st[u] :
       \/ /\ u \in DOMAIN stacks /\ i \in DOMAIN stacks[u] /\ (u = t => i < n)
          /\ st[u][i] = stacks[u][i]
       \/ u = t /\ i = n /\ st[u][i] \in F
       \/ st[u][i] \in Begun

(* The last element of a sequence, replaced and removed. *)
LEMMA LastReplaced ==
  ASSUME NEW S, NEW s \in Seq(S), s # <<>>, NEW e \in S
  PROVE  /\ Append(Operators!Front(s), e) \in Seq(S) /\ Operators!Front(s) \in Seq(S)
         /\ Len(s) \in Nat \ {0} /\ Operators!Last(s) = s[Len(s)] /\ Operators!Last(s) \in S
         /\ DOMAIN s = 1 .. Len(s)
         /\ Len(Operators!Front(s)) = Len(s) - 1 /\ DOMAIN Operators!Front(s) = 1 .. Len(s) - 1
         /\ Len(Append(Operators!Front(s), e)) = Len(s) /\ DOMAIN Append(Operators!Front(s), e) = 1 .. Len(s)
         /\ \A i \in 1 .. Len(s) - 1 : Operators!Front(s)[i] = s[i] /\ Append(Operators!Front(s), e)[i] = s[i]
         /\ Append(Operators!Front(s), e)[Len(s)] = e
<1>1. Len(s) \in Nat \ {0} /\ DOMAIN s = 1 .. Len(s)
  OBVIOUS
<1>2. Operators!Front(s) = [i \in 1 .. Len(s) - 1 |-> s[i]] /\ Operators!Front(s) \in Seq(S)
      /\ Len(Operators!Front(s)) = Len(s) - 1
  BY <1>1 DEF Operators!Front
<1> DEFINE q == Operators!Front(s)
<1>3. /\ q \in Seq(S) /\ Len(q) = Len(s) - 1 /\ DOMAIN q = 1 .. Len(s) - 1
      /\ \A i \in 1 .. Len(s) - 1 : q[i] = s[i]
  BY <1>1, <1>2
<1>4. /\ Append(q, e) \in Seq(S) /\ Len(Append(q, e)) = Len(s) /\ DOMAIN Append(q, e) = 1 .. Len(s)
      /\ \A i \in 1 .. Len(s) - 1 : Append(q, e)[i] = s[i]
      /\ Append(q, e)[Len(s)] = e
  <2> HIDE DEF q
  <2>1. /\ Append(q, e) \in Seq(S) /\ Len(Append(q, e)) = Len(q) + 1
        /\ \A i \in 1 .. Len(q) : Append(q, e)[i] = q[i]
        /\ Append(q, e)[Len(q) + 1] = e
    BY <1>3, AppendProperties
  <2>2. Len(q) + 1 = Len(s) /\ Len(q) = Len(s) - 1
    BY <1>1, <1>3
  <2>3. DOMAIN Append(q, e) = 1 .. Len(Append(q, e))
    BY <2>1
  <2>4. QED
    BY <1>3, <2>1, <2>2, <2>3
<1>5. Operators!Last(s) = s[Len(s)] /\ Operators!Last(s) \in S
  BY <1>1 DEF Operators!Last
<1>6. QED
  BY <1>1, <1>3, <1>4, <1>5

(* What GraphsAssumption says of the graph that was chosen. *)
LEMMA GraphFacts ==
  ASSUME graph \in Graphs
  PROVE  /\ 1 \in Operators!Nodes /\ Operators!Op(1) # "when" /\ Operators!Nodes \subseteq Nat
         /\ \A n \in Operators!Nodes :
              /\ graph[n].emits \in Nat /\ Operators!Gives(n) \subseteq ValueTypes
              /\ \E m \in Nat : Operators!Forks(n) = 1 .. m
              /\ \A k \in Operators!Forks(n) :
                   LET out == Operators!To(n)[k]
                   IN  /\ out.node \in 0 .. Len(graph) /\ out.side \in {1, 2}
                       /\ out.node # 0 => out.node \in Operators!Nodes
                       /\ out.node # 0 /\ Operators!Op(out.node) = "when" => Operators!Op(n) = "case"
<1>1. IsGraph(graph)
  BY GraphsAssumption
<1> DEFINE Outputs == [node : 0 .. Len(graph), how : {"call", "task", "pool"}, side : {1, 2}]
           Node == [op : STRING, type : STRING, emits : Nat, gives : SUBSET ValueTypes, to : Seq(Outputs)]
<1>2. graph \in Seq(Node) /\ graph # <<>> /\ graph[1].op # "when"
  BY <1>1 DEF IsGraph
<1>3. \A n \in 1 .. Len(graph) : \A k \in DOMAIN graph[n].to :
        graph[n].to[k].node # 0 /\ graph[graph[n].to[k].node].op = "when" => graph[n].op = "case"
  BY <1>1 DEF IsGraph
<1>4. \A n \in Operators!Nodes : graph[n] \in Node
  <2> HIDE DEF Node
  <2>1. QED
    BY <1>2 DEF Operators!Nodes
<1>5. ASSUME NEW n \in Operators!Nodes, NEW k \in Operators!Forks(n)
      PROVE  Operators!To(n)[k] \in Outputs
  <2>1. graph[n] \in Node
    BY <1>4
  <2>2. graph[n].to \in Seq(Outputs)
    BY <2>1
  <2> HIDE DEF Outputs
  <2>3. QED
    BY <2>2 DEF Operators!Forks, Operators!To
<1>6. ASSUME NEW n \in Operators!Nodes
      PROVE  \E m \in Nat : Operators!Forks(n) = 1 .. m
  <2>1. graph[n].to \in Seq(Outputs)
    BY <1>4
  <2> HIDE DEF Outputs
  <2>2. QED
    BY <2>1 DEF Operators!Forks, Operators!To
<1>7. 1 \in Operators!Nodes /\ Operators!Nodes \subseteq Nat
  BY <1>2 DEF Operators!Nodes
<1>8. \A n \in Operators!Nodes : graph[n].emits \in Nat /\ Operators!Gives(n) \subseteq ValueTypes
  <2> HIDE DEF Outputs
  <2>1. QED
    BY <1>4 DEF Operators!Gives
<1>9. ASSUME NEW n \in Operators!Nodes, NEW k \in Operators!Forks(n)
      PROVE  LET out == Operators!To(n)[k]
             IN  /\ out.node \in 0 .. Len(graph) /\ out.side \in {1, 2}
                 /\ out.node # 0 => out.node \in Operators!Nodes
                 /\ out.node # 0 /\ Operators!Op(out.node) = "when" => Operators!Op(n) = "case"
  <2> DEFINE out == Operators!To(n)[k]
  <2>1. out.node \in 0 .. Len(graph) /\ out.side \in {1, 2}
    BY <1>5
  <2>2. out.node # 0 => out.node \in Operators!Nodes
    BY <1>2, <2>1 DEF Operators!Nodes
  <2>3. out.node # 0 /\ Operators!Op(out.node) = "when" => Operators!Op(n) = "case"
    BY <1>3 DEF Operators!Nodes, Operators!Op, Operators!Forks, Operators!To
  <2>4. QED
    BY <2>1, <2>2, <2>3
<1>10. Operators!Op(1) # "when"
  BY <1>2 DEF Operators!Op
<1>11. QED
  BY <1>7, <1>8, <1>6, <1>9, <1>10

LEMMA FrameMade ==
  ASSUME OperatorTypes, NEW n \in Operators!Nodes, NEW v \in ValueTypes \union Nat, NEW s \in {1, 2},
         NEW a \in Ats
  PROVE  LET f == Operators!Frame(n, v, s, a)
         IN  f \in AnyFrame /\ f.node = n /\ f.value = v /\ f.at = a /\ f.id = 0
<1>1. graph[n].emits \in Nat
  BY GraphFacts DEF OperatorTypes
<1>2. QED
  BY <1>1 DEF Operators!Frame, AnyFrame

LEMMA TopOf ==
  ASSUME OperatorTypes, NEW t, Operators!Running(t)
  PROVE  /\ t \in DOMAIN stacks /\ t \in Nat \ {0}
         /\ stacks[t] \in Seq(AnyFrame) /\ stacks[t] # <<>>
         /\ Len(stacks[t]) \in Nat \ {0} /\ DOMAIN stacks[t] = 1 .. Len(stacks[t])
         /\ Operators!Top(t) = stacks[t][Len(stacks[t])] /\ Operators!Top(t) \in AnyFrame
         /\ Operators!Node(t) = Operators!Top(t).node /\ Operators!Node(t) \in Operators!Nodes
<1>1. t \in DOMAIN stacks /\ stacks[t] # <<>> /\ stacks \in Seq(Seq(AnyFrame))
  BY DEF Operators!Running, OperatorTypes
<1>2. t \in Nat \ {0} /\ stacks[t] \in Seq(AnyFrame)
  BY <1>1
<1>3. /\ Len(stacks[t]) \in Nat \ {0} /\ DOMAIN stacks[t] = 1 .. Len(stacks[t])
      /\ Operators!Top(t) = stacks[t][Len(stacks[t])] /\ Operators!Top(t) \in AnyFrame
  BY <1>1, <1>2 DEF Operators!Top, Operators!Last
<1>4. QED
  BY <1>1, <1>2, <1>3 DEF Operators!Node, AnyFrame

(* The steps that change the calls of one task. *)
LEMMA TaskReshaped ==
  ASSUME OperatorTypes, NEW t, Operators!Running(t), NEW calls \in Seq(AnyFrame), NEW n \in Nat, NEW F,
         n <= Len(stacks[t]),
         \A i \in 1 .. Len(stacks[t]) : i < n => i \in DOMAIN calls /\ calls[i] = stacks[t][i],
         \A i \in DOMAIN calls : i < n \/ (i = n /\ calls[i] \in F) \/ calls[i] \in Begun
  PROVE  /\ Reshaped([stacks EXCEPT ![t] = calls], t, n, F)
         /\ DOMAIN [stacks EXCEPT ![t] = calls] = DOMAIN stacks
         /\ Len([stacks EXCEPT ![t] = calls]) = Len(stacks)
         /\ [stacks EXCEPT ![t] = calls][t] = calls
<1> DEFINE st == [stacks EXCEPT ![t] = calls]
<1>1. stacks \in Seq(Seq(AnyFrame)) /\ t \in DOMAIN stacks /\ DOMAIN stacks[t] = 1 .. Len(stacks[t])
  BY TopOf DEF OperatorTypes
<1>2. st \in Seq(Seq(AnyFrame)) /\ DOMAIN st = DOMAIN stacks /\ Len(st) = Len(stacks)
  BY <1>1
<1>3. \A u \in DOMAIN stacks : st[u] = IF u = t THEN calls ELSE stacks[u]
  BY <1>1
<1> HIDE DEF st
<1>4. ASSUME NEW u \in DOMAIN st, NEW i \in DOMAIN st[u]
      PROVE  \/ /\ u \in DOMAIN stacks /\ i \in DOMAIN stacks[u] /\ (u = t => i < n)
                /\ st[u][i] = stacks[u][i]
             \/ u = t /\ i = n /\ st[u][i] \in F
             \/ st[u][i] \in Begun
  <2>1. CASE u # t
    BY <1>2, <1>3, <1>4, <2>1
  <2>2. CASE u = t
    <3>1. st[u] = calls /\ i \in DOMAIN calls /\ i \in Nat \ {0}
      BY <1>1, <1>3, <1>4, <2>2
    <3>2. i < n => i \in DOMAIN stacks[t] /\ calls[i] = stacks[t][i]
      BY <1>1, <3>1, TopOf
    <3>3. QED
      BY <1>1, <2>2, <3>1, <3>2
  <2>3. QED
    BY <2>1, <2>2
<1>5. Reshaped(st, t, n, F)
  BY <1>1, <1>2, <1>3, <1>4 DEF Reshaped
<1>6. QED
  BY <1>1, <1>2, <1>3, <1>5 DEF st

LEMMA TopReshaped ==
  ASSUME OperatorTypes, NEW t, Operators!Running(t), NEW f \in AnyFrame
  PROVE  LET st == Operators!WithTop(t, f)
         IN  /\ Reshaped(st, t, Len(stacks[t]), {f})
             /\ DOMAIN st = DOMAIN stacks /\ Len(st) = Len(stacks) /\ t \in DOMAIN st
             /\ Len(st[t]) = Len(stacks[t]) /\ st[t][Len(stacks[t])] = f
             /\ st[t] \in Seq(AnyFrame) /\ DOMAIN st[t] = 1 .. Len(stacks[t])
<1> DEFINE s == stacks[t]
           calls == Append(Operators!Front(s), f)
<1>1. s \in Seq(AnyFrame) /\ s # <<>> /\ t \in DOMAIN stacks
  BY TopOf
<1>2. /\ calls \in Seq(AnyFrame) /\ Len(calls) = Len(s) /\ DOMAIN calls = 1 .. Len(s)
      /\ Len(s) \in Nat \ {0} /\ calls[Len(s)] = f
      /\ \A i \in 1 .. Len(s) - 1 : calls[i] = s[i]
  BY <1>1, LastReplaced
<1>3. Operators!WithTop(t, f) = [stacks EXCEPT ![t] = calls]
  BY DEF Operators!WithTop
<1> HIDE DEF calls
<1>4. \A i \in 1 .. Len(s) : i < Len(s) => i \in DOMAIN calls /\ calls[i] = s[i]
  BY <1>2
<1>5. \A i \in DOMAIN calls : i < Len(s) \/ (i = Len(s) /\ calls[i] \in {f})
  BY <1>2
<1>6. /\ Reshaped([stacks EXCEPT ![t] = calls], t, Len(s), {f})
      /\ DOMAIN [stacks EXCEPT ![t] = calls] = DOMAIN stacks
      /\ Len([stacks EXCEPT ![t] = calls]) = Len(stacks)
      /\ [stacks EXCEPT ![t] = calls][t] = calls
  BY <1>2, <1>4, <1>5, TaskReshaped
<1>7. QED
  BY <1>1, <1>2, <1>3, <1>6

LEMMA TopPopped ==
  ASSUME OperatorTypes, NEW t, Operators!Running(t)
  PROVE  Reshaped([stacks EXCEPT ![t] = Operators!Front(@)], t, Len(stacks[t]), {})
<1> DEFINE s == stacks[t]
           calls == Operators!Front(s)
<1>1. s \in Seq(AnyFrame) /\ s # <<>> /\ t \in DOMAIN stacks /\ Operators!Top(t) \in AnyFrame
  BY TopOf
<1>2. /\ calls \in Seq(AnyFrame) /\ DOMAIN calls = 1 .. Len(s) - 1 /\ Len(s) \in Nat \ {0}
      /\ \A i \in 1 .. Len(s) - 1 : calls[i] = s[i]
  BY <1>1, LastReplaced
<1>3. [stacks EXCEPT ![t] = Operators!Front(@)] = [stacks EXCEPT ![t] = calls]
  OBVIOUS
<1> HIDE DEF calls
<1>4. \A i \in 1 .. Len(s) : i < Len(s) => i \in DOMAIN calls /\ calls[i] = s[i]
  BY <1>2
<1>5. \A i \in DOMAIN calls : i < Len(s)
  BY <1>2
<1>6. Reshaped([stacks EXCEPT ![t] = calls], t, Len(s), {})
  BY <1>2, <1>4, <1>5, TaskReshaped
<1>7. QED
  BY <1>3, <1>6

LEMMA TaskAdded ==
  ASSUME OperatorTypes, NEW f \in Begun
  PROVE  Reshaped(Append(stacks, <<f>>), 0, 0, {})
<1> DEFINE st == Append(stacks, <<f>>)
<1>1. stacks \in Seq(Seq(AnyFrame)) /\ f \in AnyFrame /\ <<f>> \in Seq(AnyFrame) /\ Len(stacks) \in Nat
  BY DEF OperatorTypes, Begun
<1>2. /\ st \in Seq(Seq(AnyFrame)) /\ Len(st) = Len(stacks) + 1
      /\ \A u \in 1 .. Len(stacks) : st[u] = stacks[u]
      /\ st[Len(stacks) + 1] = <<f>>
  BY <1>1, AppendProperties
<1>3. DOMAIN stacks = 1 .. Len(stacks) /\ DOMAIN st = 1 .. Len(stacks) + 1
  BY <1>1, <1>2
<1> HIDE DEF st
<1>4. ASSUME NEW u \in DOMAIN st, NEW i \in DOMAIN st[u]
      PROVE  \/ u \in DOMAIN stacks /\ i \in DOMAIN stacks[u] /\ u # 0 /\ st[u][i] = stacks[u][i]
             \/ st[u][i] \in Begun
  <2>1. CASE u \in 1 .. Len(stacks)
    BY <1>1, <1>2, <1>3, <2>1
  <2>2. CASE u = Len(stacks) + 1
    <3>1. st[u] = <<f>> /\ i = 1
      BY <1>2, <1>4, <2>2
    <3>2. QED
      BY <3>1
  <2>3. QED
    BY <1>1, <1>3, <1>4, <2>1, <2>2
<1>5. Reshaped(st, 0, 0, {})
  BY <1>1, <1>2, <1>3, <1>4 DEF Reshaped
<1>6. QED
  BY <1>5 DEF st

LEMMA BegunAnywhere ==
  ASSUME NEW st, NEW t, NEW n, NEW F, NEW G, F \subseteq G \union Begun, Reshaped(st, t, n, F)
  PROVE  Reshaped(st, t, n, G)
  BY DEF Reshaped

LEMMA CallUnwound ==
  ASSUME OperatorTypes, NEW t, Operators!Running(t), Operators!Front(stacks[t]) # <<>>, NEW f \in AnyFrame
  PROVE  LET rest == Operators!Front(stacks[t])
             n == Len(stacks[t]) - 1
         IN  /\ n \in Nat \ {0} /\ Operators!Last(rest) = stacks[t][n] /\ n \in DOMAIN stacks[t]
             /\ stacks[t][n] \in AnyFrame
             /\ Reshaped([stacks EXCEPT ![t] = Append(Operators!Front(rest), f)], t, n, {f})
<1> DEFINE s == stacks[t]
           rest == Operators!Front(s)
           n == Len(s) - 1
           calls == Append(Operators!Front(rest), f)
<1>1. s \in Seq(AnyFrame) /\ s # <<>> /\ t \in DOMAIN stacks /\ Operators!Top(t) \in AnyFrame
  BY TopOf
<1>2. /\ rest \in Seq(AnyFrame) /\ Len(rest) = n /\ Len(s) \in Nat \ {0} /\ DOMAIN s = 1 .. Len(s)
      /\ \A i \in 1 .. n : rest[i] = s[i]
  BY <1>1, LastReplaced
<1> HIDE DEF rest
<1>3. rest # <<>> /\ rest \in Seq(AnyFrame)
  BY <1>2 DEF rest
<1>4. /\ calls \in Seq(AnyFrame) /\ Len(calls) = Len(rest) /\ DOMAIN calls = 1 .. Len(rest)
      /\ Len(rest) \in Nat \ {0} /\ calls[Len(rest)] = f /\ Operators!Last(rest) = rest[Len(rest)]
      /\ \A i \in 1 .. Len(rest) - 1 : calls[i] = rest[i]
  BY <1>3, LastReplaced
<1>5. /\ calls \in Seq(AnyFrame) /\ Len(calls) = n /\ DOMAIN calls = 1 .. n
      /\ n \in Nat \ {0} /\ calls[n] = f /\ Operators!Last(rest) = rest[n]
      /\ \A i \in 1 .. n - 1 : calls[i] = rest[i]
  <2> HIDE DEF calls
  <2>1. QED
    BY <1>2, <1>4
<1> HIDE DEF calls
<1>6. Operators!Last(rest) = s[n] /\ n \in DOMAIN s /\ s[n] \in AnyFrame
  BY <1>1, <1>2, <1>5
<1>7. \A i \in 1 .. Len(s) : i < n => i \in DOMAIN calls /\ calls[i] = s[i]
  BY <1>2, <1>5
<1>8. \A i \in DOMAIN calls : i < n \/ (i = n /\ calls[i] \in {f})
  BY <1>2, <1>5
<1>9. n \in Nat /\ n <= Len(s)
  BY <1>2, <1>5
<1>10. Reshaped([stacks EXCEPT ![t] = calls], t, n, {f})
  <2> HIDE DEF n
  <2>1. QED
    BY <1>5, <1>7, <1>8, <1>9, TaskReshaped
<1>11. QED
  BY <1>5, <1>6, <1>10 DEF rest, calls

(* A value that leaves f arrives where it fits. *)
Fits(f, k, v) ==
  k \in Operators!Forks(f.node) =>
    LET out == Operators!To(f.node)[k].node
    IN  out # 0 /\ Operators!Op(out) = "when" => v = graph[out].type

LEMMA EmittedReshaped ==
  ASSUME OperatorTypes, NEW t, Operators!Running(t), NEW f \in AnyFrame, Suits(f), NEW k,
         NEW v \in ValueTypes, Fits(f, k, v)
  PROVE  Reshaped(Operators!Emitted(t, f, k, v), t, Len(stacks[t]), {f})
<1> DEFINE st == Operators!WithTop(t, f)
           n == Len(stacks[t])
           out == Operators!To(f.node)[k]
           call == Operators!Frame(out.node, v, out.side, "call")
<1>1. /\ Reshaped(st, t, n, {f}) /\ t \in DOMAIN st /\ DOMAIN st = DOMAIN stacks
      /\ Len(st) = Len(stacks) /\ Len(st[t]) = n /\ st[t] \in Seq(AnyFrame) /\ DOMAIN st[t] = 1 .. n
      /\ st[t][n] = f
  BY TopReshaped
<1>2. CASE k \notin Operators!Forks(f.node) \/ out.node = 0
  BY <1>1, <1>2 DEF Operators!Emitted
<1>3. CASE k \in Operators!Forks(f.node) /\ out.node # 0
  <2>1. f.node \in Operators!Nodes
    BY DEF AnyFrame
  <2>2. out.node \in Operators!Nodes /\ out.side \in {1, 2}
    BY <1>3, <2>1, GraphFacts DEF OperatorTypes
  <2>3. call \in AnyFrame /\ call.node = out.node /\ call.value = v /\ call.at = "call"
    BY <2>2, FrameMade DEF Ats
  <2>4. call \in Begun
    BY <1>3, <2>3 DEF Begun, Suits, Fits, Held
  <2>5. ASSUME out.how = "call"
        PROVE  Reshaped([st EXCEPT ![t] = Append(@, call)], t, n, {f})
    <3> DEFINE calls == Append(st[t], call)
    <3>1. /\ calls \in Seq(AnyFrame) /\ Len(calls) = n + 1 /\ calls[n + 1] = call
          /\ \A i \in 1 .. n : calls[i] = st[t][i]
      BY <1>1, <2>3, AppendProperties
    <3>2. [st EXCEPT ![t] = Append(@, call)] = [stacks EXCEPT ![t] = calls]
      BY <1>1 DEF Operators!WithTop
    <3> HIDE DEF calls, call, st
    <3>3. n \in Nat \ {0} /\ DOMAIN stacks[t] = 1 .. n /\ DOMAIN calls = 1 .. n + 1
      BY <3>1, TopOf
    <3>4. \A i \in 1 .. n : i < n => i \in DOMAIN calls /\ calls[i] = stacks[t][i]
      <4>1. t \in DOMAIN stacks /\ \A i \in DOMAIN stacks[t] : i < n => st[t][i] = stacks[t][i]
        BY <1>1, TopOf DEF Reshaped
      <4>2. QED
        BY <3>1, <3>3, <4>1
    <3>5. \A i \in DOMAIN calls : i < n \/ (i = n /\ calls[i] \in {f}) \/ calls[i] \in Begun
      BY <1>1, <2>4, <3>1, <3>3
    <3>6. Reshaped([stacks EXCEPT ![t] = calls], t, n, {f})
      <4> HIDE DEF n
      <4>1. n \in Nat /\ n <= Len(stacks[t])
        BY <3>3 DEF n
      <4>2. \A i \in 1 .. Len(stacks[t]) : i < n => i \in DOMAIN calls /\ calls[i] = stacks[t][i]
        BY <3>4 DEF n
      <4>3. QED
        BY <3>1, <3>5, <4>1, <4>2, TaskReshaped
    <3>7. QED
      BY <3>2, <3>6
  <2>6. Reshaped(Operators!WithTop(t, Operators!Failed(f)), t, n, {f})
    <3>1. Operators!Failed(f) \in Begun
      BY DEF Operators!Failed, Begun, AnyFrame, Ats, Held, Suits
    <3>2. Reshaped(Operators!WithTop(t, Operators!Failed(f)), t, n, {Operators!Failed(f)})
      BY <3>1, TopReshaped DEF Begun
    <3>3. QED
      BY <3>1, <3>2, BegunAnywhere
  <2>7. Reshaped(Append(st, <<call>>), t, n, {f})
    <3> DEFINE su == Append(st, <<call>>)
    <3>1. st \in Seq(Seq(AnyFrame)) /\ <<call>> \in Seq(AnyFrame) /\ Len(st) \in Nat
      BY <1>1, <2>3 DEF Reshaped
    <3>2. /\ su \in Seq(Seq(AnyFrame)) /\ Len(su) = Len(st) + 1 /\ su[Len(st) + 1] = <<call>>
          /\ \A u \in 1 .. Len(st) : su[u] = st[u]
      BY <3>1, AppendProperties
    <3>3. DOMAIN st = 1 .. Len(st) /\ DOMAIN su = 1 .. Len(st) + 1
      BY <3>1, <3>2
    <3> HIDE DEF su, st, call
    <3>4. \A u \in DOMAIN stacks : u \in DOMAIN su /\ su[u] = st[u]
      BY <1>1, <3>1, <3>2, <3>3
    <3>5. ASSUME NEW u \in DOMAIN su, NEW i \in DOMAIN su[u]
          PROVE  (u \in DOMAIN st /\ i \in DOMAIN st[u] /\ su[u][i] = st[u][i]) \/ su[u][i] \in Begun
      <4>1. CASE u \in 1 .. Len(st)
        BY <3>2, <3>3, <3>5, <4>1
      <4>2. CASE u = Len(st) + 1
        <5>1. su[u] = <<call>> /\ i = 1
          BY <3>2, <3>5, <4>2
        <5>2. QED
          BY <2>4, <5>1
      <4>3. QED
        BY <3>1, <3>3, <3>5, <4>1, <4>2
    <3>6. Reshaped(su, t, n, {f})
      BY <1>1, <3>2, <3>4, <3>5 DEF Reshaped
    <3>7. QED
      BY <3>6 DEF su
  <2>8. Operators!Emitted(t, f, k, v) =
          CASE out.how = "call" -> [st EXCEPT ![t] = Append(@, call)]
            [] out.how = "pool" /\ stopping -> Operators!WithTop(t, Operators!Failed(f))
            [] OTHER -> Append(st, <<call>>)
    BY <1>3 DEF Operators!Emitted
  <2>9. QED
    <3> HIDE DEF st, call, out
    <3>1. CASE out.how = "call"
      BY <2>5, <2>8, <3>1
    <3>2. CASE out.how # "call" /\ out.how = "pool" /\ stopping
      BY <2>6, <2>8, <3>2
    <3>3. CASE out.how # "call" /\ ~(out.how = "pool" /\ stopping)
      BY <2>7, <2>8, <3>3
    <3>4. QED
      BY <3>1, <3>2, <3>3
<1>4. QED
  BY <1>2, <1>3

(* What reshaping the calls leaves as it was. *)
LEMMA SuitedKept ==
  ASSUME Suited, graph' = graph, NEW t, NEW n, NEW F, Reshaped(stacks', t, n, F), \A f \in F : Suits(f),
         \A h \in delayed' : Operators!Op(h.node) = "delay"
  PROVE  Suited'
<1>1. ASSUME NEW u \in DOMAIN stacks', NEW i \in DOMAIN stacks'[u]
      PROVE  Suits(stacks'[u][i])
  BY DEF Reshaped, Suited, Begun
<1>2. ASSUME NEW u \in DOMAIN stacks', NEW i \in DOMAIN stacks'[u]
      PROVE  Suits(stacks[u][i])'
  BY <1>1 DEF Suits, Operators!Op
<1>3. QED
  BY <1>2 DEF Suited, Operators!Op

LEMMA TypesKept ==
  ASSUME graph' = graph
  PROVE  AnyFrame' = AnyFrame /\ Operators!Nodes' = Operators!Nodes
  BY DEF AnyFrame, Operators!Nodes

(* Frames that hold a value and are not replaced see its fate unchanged;   *)
(* a frame of F may hold a value that none of them holds.                  *)
Spared(t, n, u, i) == stacks[u][i].at \in Held /\ (u = t => i < n)

Unmoved(t, n) ==
  \A u \in DOMAIN stacks : \A i \in DOMAIN stacks[u] :
    Spared(t, n, u, i) => stacks[u][i].id \in DOMAIN fate' /\ fate'[stacks[u][i].id] = fate[stacks[u][i].id]

Alone(t, n, id) ==
  \A u \in DOMAIN stacks : \A i \in DOMAIN stacks[u] : Spared(t, n, u, i) => stacks[u][i].id # id

Heirs(t, n, F) ==
  /\ \A f, g \in F : f = g
  /\ \A f \in F : f.at \in Held =>
       /\ durable /\ f.id \in DOMAIN fate' /\ Alone(t, n, f.id)
       /\ f.at = "sleeping" => n = Len(stacks'[t]) /\ fate'[f.id] = {}
       /\ f.at = "delivering" => fate'[f.id] = {"delivered"}

LEMMA HoldersKept ==
  ASSUME OperatorTypes, Holders, durable' = durable, NEW t, NEW n \in Nat, NEW F, Reshaped(stacks', t, n, F),
         t \in DOMAIN stacks => n <= Len(stacks[t]), Unmoved(t, n), Heirs(t, n, F)
  PROVE  Holders'
<1> USE DEF Spared, Unmoved, Alone, Heirs
<1> DEFINE Old(u, i) == u \in DOMAIN stacks /\ i \in DOMAIN stacks[u] /\ (u = t => i < n)
                        /\ stacks'[u][i] = stacks[u][i]
           New(u, i) == u = t /\ i = n /\ stacks'[u][i] \in F
<1>1. ASSUME NEW u \in DOMAIN stacks', NEW i \in DOMAIN stacks'[u], stacks'[u][i].at \in Held
      PROVE  Old(u, i) \/ New(u, i)
  <2>1. stacks'[u][i] \notin Begun
    BY <1>1 DEF Begun
  <2>2. QED
    BY <1>1, <2>1 DEF Reshaped
<1>2. ASSUME NEW u \in DOMAIN stacks', NEW i \in DOMAIN stacks'[u]
      PROVE  HeldRight(u, i)'
  <2>1. CASE stacks'[u][i].at \notin Held
    BY <2>1 DEF HeldRight, Held
  <2>2. CASE stacks'[u][i].at \in Held /\ Old(u, i)
    <3> DEFINE f == stacks[u][i]
    <3>1. HeldRight(u, i) /\ f = stacks'[u][i] /\ f.at \in Held
      BY <2>2 DEF Holders
    <3>2. durable /\ f.id \in DOMAIN fate' /\ fate'[f.id] = fate[f.id]
      BY <2>2, <3>1 DEF HeldRight
    <3>3. f.at = "sleeping" => i = Len(stacks'[u]) /\ fate'[f.id] = {}
      <4>1. CASE u = t
        <5>1. f.at = "sleeping" => i = Len(stacks[t]) /\ i < n
          BY <2>2, <3>1, <4>1 DEF HeldRight
        <5>2. i \in Nat /\ Len(stacks[t]) \in Nat /\ n <= Len(stacks[t])
          BY <2>2, <4>1 DEF OperatorTypes
        <5>3. QED
          BY <5>1, <5>2
      <4>2. CASE u # t
        BY <2>2, <3>1, <3>2, <4>2 DEF HeldRight, Reshaped
      <4>3. QED
        BY <4>1, <4>2
    <3>4. f.at = "delivering" => fate'[f.id] = {"delivered"}
      BY <3>1, <3>2 DEF HeldRight
    <3>5. QED
      BY <3>1, <3>2, <3>3, <3>4 DEF HeldRight
  <2>3. CASE stacks'[u][i].at \in Held /\ New(u, i)
    BY <2>3 DEF HeldRight
  <2>4. QED
    BY <1>1, <1>2, <2>1, <2>2, <2>3
<1>3. ASSUME NEW u \in DOMAIN stacks', NEW v \in DOMAIN stacks',
             NEW i \in DOMAIN stacks'[u], NEW j \in DOMAIN stacks'[v],
             stacks'[u][i].at \in Held, stacks'[v][j].at \in Held, stacks'[u][i].id = stacks'[v][j].id
      PROVE  u = v /\ i = j
  <2>1. CASE Old(u, i) /\ Old(v, j)
    BY <1>3, <2>1 DEF Holders
  <2>2. CASE New(u, i) /\ Old(v, j)
    BY <1>3, <2>2
  <2>3. CASE Old(u, i) /\ New(v, j)
    BY <1>3, <2>3
  <2>4. CASE New(u, i) /\ New(v, j)
    BY <2>4
  <2>5. QED
    BY <1>1, <1>3, <2>1, <2>2, <2>3, <2>4
<1>4. QED
  BY <1>2, <1>3 DEF Holders

LEMMA SleepersKept ==
  ASSUME OperatorTypes, Holders, NEW t, NEW n, NEW F, Reshaped(stacks', t, n, F), NEW id, Operators!Sleeping(id),
         t \in DOMAIN stacks => \A i \in DOMAIN stacks[t] :
           ~(i = Len(stacks[t]) /\ stacks[t][i].at = "sleeping" /\ stacks[t][i].id = id)
  PROVE  Operators!Sleeping(id)'
<1>1. PICK u \in DOMAIN stacks : \E i \in DOMAIN stacks[u] : stacks[u][i].id = id
      /\ stacks[u][i].at = "sleeping"
  BY DEF Operators!Sleeping
<1>2. PICK i \in DOMAIN stacks[u] : stacks[u][i].id = id /\ stacks[u][i].at = "sleeping"
  BY <1>1
<1>3. u # t
  BY <1>2 DEF Holders, HeldRight
<1>4. u \in DOMAIN stacks' /\ stacks'[u] = stacks[u]
  BY <1>3 DEF Reshaped
<1>5. QED
  BY <1>2, <1>4 DEF Operators!Sleeping

(* A step that only begins, changes and ends calls that hold nothing, or   *)
(* ends one that delivers.                                                 *)
Plain(t, n) ==
  /\ Reshaped(stacks', t, n, {})
  /\ t \in DOMAIN stacks => n <= Len(stacks[t]) /\ stacks[t][Len(stacks[t])].at # "sleeping"
  /\ UNCHANGED <<graph, durable, delayed, fate>> /\ (ended => ended')

LEMMA PlainKeeps ==
  ASSUME OperatorInv, NEW t, NEW n \in Nat, Plain(t, n)
  PROVE  (Suited /\ Holders /\ Pooled /\ Fated)'
<1> USE DEF OperatorInv, Plain
<1>1. Suited'
  BY SuitedKept DEF Suited
<1>2. Holders'
  <2>1. Unmoved(t, n)
    BY DEF Holders, HeldRight, Unmoved, Spared
  <2>2. Heirs(t, n, {})
    BY DEF Heirs
  <2>3. QED
    BY <2>1, <2>2, HoldersKept
<1>3. Pooled'
  BY DEF Pooled
<1>4. ASSUME NEW id, Operators!Sleeping(id)
      PROVE  Operators!Sleeping(id)'
  BY <1>4, SleepersKept
<1>5. Fated'
  BY <1>4 DEF Fated
<1>6. QED
  BY <1>1, <1>2, <1>3, <1>5

(* What every step of a task leaves alone, or right. *)
Aside ==
  /\ UNCHANGED <<graph, durable, selector, built>>
  /\ source # "none" \/ built = "built"
  /\ source' # "none" /\ (ended => ended')
  /\ group' = [n \in Operators!Nodes |-> group'[n]]
  /\ \A n \in Operators!Nodes : group'[n] # Operators!EmptyGroup => Operators!Op(n) \in Joins

Quiet(t) == Aside /\ UNCHANGED <<delayed, fate>> /\ Plain(t, Len(stacks[t]))

LEMMA CallOf ==
  ASSUME OperatorInv, NEW t, Operators!Running(t)
  PROVE  LET f == Operators!Top(t)
         IN  /\ f \in AnyFrame /\ Suits(f) /\ f = stacks[t][Len(stacks[t])]
             /\ Operators!Node(t) = f.node /\ f.node \in Operators!Nodes
             /\ Operators!Over(f) \in Begun /\ Operators!Over(f).node = f.node
             /\ Operators!Failed(f) \in Begun
             /\ f.at \notin Held => Operators!Spent(f) \in Begun
             /\ Operators!Spent(f).node = f.node
             /\ t \in DOMAIN stacks /\ Len(stacks[t]) \in Nat \ {0}
             /\ source # "none" /\ group = [n \in Operators!Nodes |-> group[n]]
             /\ \A n \in Operators!Nodes : group[n] # Operators!EmptyGroup => Operators!Op(n) \in Joins
<1> DEFINE f == Operators!Top(t)
<1>1. /\ f \in AnyFrame /\ t \in DOMAIN stacks /\ f = stacks[t][Len(stacks[t])]
      /\ Len(stacks[t]) \in DOMAIN stacks[t] /\ Operators!Node(t) = f.node /\ f.node \in Operators!Nodes
      /\ Len(stacks[t]) \in Nat \ {0}
  BY TopOf DEF OperatorInv, AnyFrame
<1>2. Suits(f)
  BY <1>1 DEF OperatorInv, Suited
<1> HIDE DEF f
<1>3. /\ Operators!Over(f) \in AnyFrame /\ Operators!Over(f).node = f.node
      /\ Operators!Over(f).value = f.value /\ Operators!Over(f).at = "return"
  BY <1>1 DEF Operators!Over, AnyFrame, Ats
<1>4. /\ Operators!Failed(f) \in AnyFrame /\ Operators!Failed(f).node = f.node
      /\ Operators!Failed(f).value = f.value /\ Operators!Failed(f).at = "raise"
  BY <1>1 DEF Operators!Failed, AnyFrame, Ats
<1>5. /\ Operators!Spent(f) \in AnyFrame /\ Operators!Spent(f).node = f.node
      /\ Operators!Spent(f).value = f.value /\ Operators!Spent(f).at = f.at
  BY <1>1 DEF Operators!Spent, AnyFrame
<1>6. /\ Operators!Over(f) \in Begun /\ Operators!Failed(f) \in Begun
      /\ f.at \notin Held => Operators!Spent(f) \in Begun
  BY <1>2, <1>3, <1>4, <1>5 DEF Begun, Suits, Held
<1>7. source # "none"
  BY <1>1 DEF OperatorInv, Stages
<1>8. QED
  BY <1>1, <1>2, <1>3, <1>5, <1>6, <1>7 DEF f, OperatorInv, OperatorTypes, Stages

LEMMA PlainTop ==
  ASSUME OperatorInv, NEW t, Operators!Running(t), Operators!Top(t).at # "sleeping",
         NEW F, F \subseteq Begun, Reshaped(stacks', t, Len(stacks[t]), F),
         UNCHANGED <<graph, durable, delayed, fate, ended>>
  PROVE  Plain(t, Len(stacks[t]))
  BY CallOf, BegunAnywhere DEF Plain

(* A value that leaves through a case reaches the branch of its type; no   *)
(* other stream has branches.                                              *)
LEMMA FitsElsewhere ==
  ASSUME OperatorTypes, NEW f \in AnyFrame, Operators!Op(f.node) # "case", NEW k, NEW v
  PROVE  Fits(f, k, v)
  BY GraphFacts DEF Fits, OperatorTypes, AnyFrame

LEMMA EmitQuiet ==
  ASSUME OperatorInv, NEW t, Operators!Running(t), Operators!Top(t).at # "sleeping", NEW f \in Begun, NEW k,
         NEW v \in ValueTypes, Fits(f, k, v), Operators!Emit(t, f, k, v)
  PROVE  Quiet(t)
<1>1. Reshaped(stacks', t, Len(stacks[t]), {f})
  BY EmittedReshaped DEF Operators!Emit, OperatorInv, Begun
<1>2. UNCHANGED <<graph, durable, selector, built, source, delayed, fate, group, ended>>
  BY DEF Operators!Emit, Operators!graphVars, Operators!joinVars, Operators!lifeVars
<1>3. Plain(t, Len(stacks[t]))
  BY <1>1, <1>2, PlainTop
<1>4. QED
  BY <1>2, <1>3, CallOf DEF Quiet, Aside

LEMMA ReturnQuiet ==
  ASSUME OperatorInv, NEW t, Operators!Running(t), Operators!Top(t).at # "sleeping", Operators!Return(t)
  PROVE  Quiet(t)
<1>1. Reshaped(stacks', t, Len(stacks[t]), {})
  BY TopPopped DEF Operators!Return, OperatorInv
<1>2. UNCHANGED <<graph, durable, selector, built, delayed, fate, group, ended>>
  BY DEF Operators!Return, Operators!graphVars, Operators!joinVars, Operators!lifeVars
<1>3. Plain(t, Len(stacks[t]))
  BY <1>1, <1>2, PlainTop
<1>4. source' # "none"
  BY CallOf DEF Operators!Return
<1>5. QED
  BY <1>2, <1>3, <1>4, CallOf DEF Quiet, Aside

LEMMA RaiseQuiet ==
  ASSUME OperatorInv, NEW t, Operators!Running(t), Operators!Top(t).at # "sleeping", Operators!Raise(t)
  PROVE  Quiet(t)
<1>1. PICK f \in Begun : f = Operators!Failed(Operators!Top(t))
  BY CallOf
<1>2. Reshaped(stacks', t, Len(stacks[t]), {f}) /\ {f} \subseteq Begun
  BY <1>1, TopReshaped DEF Operators!Raise, OperatorInv, Begun
<1>3. UNCHANGED <<graph, durable, selector, built, source, delayed, fate, group, ended>>
  BY DEF Operators!Raise, Operators!graphVars, Operators!joinVars, Operators!lifeVars
<1>4. Plain(t, Len(stacks[t]))
  BY <1>2, <1>3, PlainTop
<1>5. QED
  BY <1>3, <1>4, CallOf DEF Quiet, Aside

(* What the steps of a call that emits have in common. *)
LEMMA Emits ==
  ASSUME OperatorInv, NEW t, Operators!Running(t), Operators!Top(t).at \notin Held,
         Operators!Op(Operators!Node(t)) # "case", NEW k
  PROVE  LET f == Operators!Top(t)
         IN  /\ \A v \in Operators!Gives(Operators!Node(t)) :
                  /\ Operators!Emit(t, Operators!Spent(f), k, v) => Quiet(t)
                  /\ Operators!Emit(t, Operators!Over(f), k, v) => Quiet(t)
             /\ Operators!Op(Operators!Node(t)) \notin Joins =>
                  /\ Operators!Emit(t, Operators!Over(f), k, f.value) => Quiet(t)
                  /\ Operators!Emit(t, Operators!Spent(f), k, f.value) => Quiet(t)
<1> DEFINE f == Operators!Top(t)
<1>1. /\ f \in AnyFrame /\ Suits(f) /\ Operators!Node(t) = f.node /\ f.node \in Operators!Nodes
      /\ Operators!Over(f) \in Begun /\ Operators!Spent(f) \in Begun
      /\ Operators!Over(f).node = f.node /\ Operators!Spent(f).node = f.node
  BY CallOf
<1>2. Operators!Gives(f.node) \subseteq ValueTypes
  BY <1>1, GraphFacts DEF OperatorInv, OperatorTypes
<1>3. Operators!Op(f.node) \notin Joins => f.value \in ValueTypes
  BY <1>1 DEF Suits
<1>4. f.at # "sleeping"
  BY DEF Held
<1> HIDE DEF f
<1>5. \A v \in ValueTypes : Fits(Operators!Over(f), k, v) /\ Fits(Operators!Spent(f), k, v)
  BY <1>1, FitsElsewhere DEF OperatorInv, Begun
<1>6. \A v \in ValueTypes : /\ Operators!Emit(t, Operators!Spent(f), k, v) => Quiet(t)
                            /\ Operators!Emit(t, Operators!Over(f), k, v) => Quiet(t)
  BY <1>1, <1>4, <1>5, EmitQuiet DEF f
<1>7. QED
  BY <1>1, <1>2, <1>3, <1>6 DEF f

(* The steps of streams, functions and sinks. *)
LEMMA StreamSteps ==
  ASSUME OperatorInv, NEW t,
         \/ Operators!Input(t) \/ Operators!Merge(t) \/ Operators!Link(t) \/ Operators!When(t) \/ Operators!Error(t)
         \/ Operators!Map(t) \/ Operators!FlatMap(t) \/ Operators!KeyBy(t) \/ Operators!Process(t)
         \/ Operators!Filter(t) \/ Operators!Iterate(t) \/ Operators!Deliver(t)
  PROVE  Quiet(t)
<1> DEFINE f == Operators!Top(t)
           n == Operators!Node(t)
<1>1. ASSUME NEW ops, ops \subseteq {"input", "merge", "link", "when", "error", "map", "flatmap", "keyby", "process",
                                     "filter", "iterable", "sink"}, Operators!At(t, ops)
      PROVE  /\ Operators!Running(t) /\ f.at = "call" /\ f.at \notin Held /\ f.at # "sleeping"
             /\ Operators!Op(n) # "case" /\ Operators!Op(n) \notin Joins
  BY <1>1 DEF Operators!At, Held, Joins
<1>2. CASE Operators!Input(t) \/ Operators!Merge(t) \/ Operators!Link(t) \/ Operators!When(t) \/ Operators!Error(t)
  <2>1. /\ Operators!Running(t) /\ f.at \notin Held
        /\ Operators!Op(n) # "case" /\ Operators!Op(n) \notin Joins
    BY <1>1, <1>2 DEF Operators!Input, Operators!Merge, Operators!Link, Operators!When, Operators!Error
  <2>2. Operators!Emit(t, Operators!Over(f), 1, f.value)
    BY <1>2 DEF Operators!Input, Operators!Merge, Operators!Link, Operators!When, Operators!Error,
         Operators!PassOn
  <2>3. QED
    BY <2>1, <2>2, Emits
<1>3. CASE Operators!Map(t) \/ Operators!FlatMap(t) \/ Operators!KeyBy(t) \/ Operators!Process(t)
  <2>1. /\ Operators!Running(t) /\ f.at \notin Held /\ f.at # "sleeping"
        /\ Operators!Op(n) # "case" /\ Operators!Op(n) \notin Joins
    BY <1>1, <1>3 DEF Operators!Map, Operators!FlatMap, Operators!KeyBy, Operators!Process
  <2>2. Operators!Call(t)
    BY <1>3 DEF Operators!Map, Operators!FlatMap, Operators!KeyBy, Operators!Process
  <2>3. \A k, v : v \in Operators!Gives(n) /\ Operators!Emit(t, Operators!Spent(f), k, v) => Quiet(t)
    BY <2>1, Emits
  <2>4. QED
    BY <2>1, <2>2, <2>3, ReturnQuiet, RaiseQuiet DEF Operators!Call
<1>4. CASE Operators!Filter(t)
  <2>1. /\ Operators!Running(t) /\ f.at \notin Held /\ f.at # "sleeping"
        /\ Operators!Op(n) # "case" /\ Operators!Op(n) \notin Joins
    BY <1>1, <1>4 DEF Operators!Filter
  <2>2. Operators!Emit(t, Operators!Over(f), 1, f.value) => Quiet(t)
    BY <2>1, Emits
  <2>3. QED
    BY <1>4, <2>1, <2>2, ReturnQuiet, RaiseQuiet DEF Operators!Filter
<1>5. CASE Operators!Iterate(t) \/ Operators!Deliver(t)
  <2>1. /\ Operators!Running(t) /\ f.at \notin Held /\ f.at # "sleeping"
        /\ Operators!Op(n) # "case" /\ Operators!Op(n) \notin Joins
    BY <1>1, <1>5 DEF Operators!Iterate, Operators!Deliver
  <2>2. \A v \in Operators!Gives(n) : /\ Operators!Emit(t, Operators!Spent(f), 1, v) => Quiet(t)
                                      /\ Operators!Emit(t, Operators!Over(f), 1, v) => Quiet(t)
    BY <2>1, Emits
  <2>3. QED
    BY <1>5, <2>1, <2>2, ReturnQuiet, RaiseQuiet DEF Operators!Iterate, Operators!Deliver
<1>6. QED
  BY <1>2, <1>3, <1>4, <1>5

LEMMA SelectStep ==
  ASSUME OperatorInv, NEW t, Operators!Select(t)
  PROVE  Quiet(t)
<1> DEFINE f == Operators!Top(t)
           i == selector[f.node][f.value]
<1>1. /\ Operators!Running(t) /\ f.at = "call" /\ f.at # "sleeping" /\ Operators!Op(Operators!Node(t)) = "case"
  BY DEF Operators!Select, Operators!At
<1>2. /\ f \in AnyFrame /\ Suits(f) /\ Operators!Node(t) = f.node /\ f.node \in Operators!Nodes
      /\ Operators!Over(f) \in Begun /\ Operators!Over(f).node = f.node /\ source # "none"
  BY <1>1, CallOf
<1>3. f.value \in ValueTypes /\ f.node \in Operators!Cases
  BY <1>1, <1>2 DEF Suits, Joins, Operators!Cases
<1>4. Routed(f.node)
  BY <1>2, <1>3 DEF OperatorInv, Stages
<1>5. CASE i \in Operators!Forks(f.node)
  <2>1. graph[Operators!To(f.node)[i].node].type = f.value
    BY <1>3, <1>4, <1>5 DEF Routed
  <2>2. Fits(Operators!Over(f), i, f.value)
    BY <1>2, <2>1 DEF Fits
  <2>3. Operators!Emit(t, Operators!Over(f), i, f.value)
    BY <1>2, <1>5 DEF Operators!Select
  <2>4. QED
    BY <1>1, <1>2, <1>3, <2>2, <2>3, EmitQuiet
<1>6. CASE i \notin Operators!Forks(f.node)
  BY <1>1, <1>2, <1>6, RaiseQuiet DEF Operators!Select
<1>7. QED
  BY <1>5, <1>6

LEMMA CalledForms ==
  ASSUME NEW f, NEW g
  PROVE  Operators!Called(f, g) \in {[f EXCEPT !.at = "joining"], Operators!Failed(f), Operators!Over(f)}
<1>1. Operators!JoinCalled(f, g) \in {[f EXCEPT !.at = "joining"], Operators!Failed(f), Operators!Over(f)}
  <2> DEFINE can == CASE graph[f.node].type = "Inner" -> {1, 2} \subseteq g.sides
                      [] graph[f.node].type = "Left"  -> 1 \in g.sides
                      [] graph[f.node].type = "Right" -> 2 \in g.sides
                      [] OTHER -> TRUE
  <2>1. Operators!JoinCalled(f, g) = CASE can /\ g.width >= 2 -> [f EXCEPT !.at = "joining"]
                                       [] can /\ g.width < 2  -> Operators!Failed(f)
                                       [] OTHER               -> Operators!Over(f)
    BY DEF Operators!JoinCalled
  <2> HIDE DEF can
  <2>2. QED
    BY <2>1
<1>2. Operators!MultiJoinCalled(f, g) \in {[f EXCEPT !.at = "joining"], Operators!Failed(f), Operators!Over(f)}
  BY DEF Operators!MultiJoinCalled
<1>3. QED
  BY <1>1, <1>2 DEF Operators!Called

LEMMA JoinSteps ==
  ASSUME OperatorInv, NEW t, Operators!Join(t) \/ Operators!MultiJoin(t) \/ Operators!Joining(t)
  PROVE  Quiet(t)
<1> DEFINE f == Operators!Top(t)
           n == Operators!Node(t)
<1>1. Operators!Running(t) /\ f.at \in {"call", "joining", "expiring"}
  BY DEF Operators!Join, Operators!MultiJoin, Operators!Joining, Operators!At
<1>2. /\ f \in AnyFrame /\ Suits(f) /\ n = f.node /\ n \in Operators!Nodes
      /\ Operators!Over(f) \in Begun /\ Operators!Failed(f) \in Begun
      /\ source # "none" /\ group = [m \in Operators!Nodes |-> group[m]]
      /\ \A m \in Operators!Nodes : group[m] # Operators!EmptyGroup => Operators!Op(m) \in Joins
  BY <1>1, CallOf
<1>3. Operators!Op(n) \in Joins
  BY <1>1, <1>2 DEF Suits, Operators!Join, Operators!MultiJoin, Operators!At, Joins, Operators!Joining
<1>4. Operators!Op(n) # "case" /\ f.at \notin Held /\ f.at # "sleeping"
  BY <1>1, <1>3 DEF Joins, Held
<1> HIDE DEF f, n
<1>5. ASSUME NEW h \in Begun, stacks' = Operators!WithTop(t, h),
             UNCHANGED <<graph, durable, selector, built, source, delayed, fate, ended>>,
             NEW g, group' = group \/ group' = [group EXCEPT ![n] = g]
      PROVE  Quiet(t)
  <2>1. Reshaped(stacks', t, Len(stacks[t]), {h})
    BY <1>1, <1>5, TopReshaped DEF OperatorInv, Begun
  <2>2. Plain(t, Len(stacks[t]))
    BY <1>1, <1>4, <1>5, <2>1, PlainTop DEF f
  <2>3. group' = [m \in Operators!Nodes |-> group'[m]] /\ \A m \in Operators!Nodes \ {n} : group'[m] = group[m]
    BY <1>2, <1>5
  <2>4. \A m \in Operators!Nodes : group'[m] # Operators!EmptyGroup => Operators!Op(m) \in Joins
    BY <1>2, <1>3, <2>3
  <2>5. QED
    BY <1>2, <1>5, <2>2, <2>3, <2>4 DEF Quiet, Aside
<1>6. CASE Operators!Join(t) \/ Operators!MultiJoin(t)
  <2>1. PICK g : /\ group' = [group EXCEPT ![n] = g] /\ stacks' = Operators!WithTop(t, Operators!Called(f, g))
                 /\ UNCHANGED <<graph, durable, selector, built, source, delayed, fate, ended>>
    BY <1>6 DEF Operators!Join, Operators!MultiJoin, Operators!Stored, f, n, Operators!graphVars,
         Operators!lifeVars
  <2>2. [f EXCEPT !.at = "joining"] \in Begun
    BY <1>2, <1>3 DEF Begun, AnyFrame, Ats, Held, Suits
  <2>3. Operators!Called(f, g) \in Begun
    BY <1>2, <2>2, CalledForms
  <2>4. QED
    BY <1>5, <2>1, <2>3
<1>7. CASE Operators!Joining(t)
  <2>1. \A v \in Operators!Gives(n) : Operators!Emit(t, Operators!Spent(f), 1, v) => Quiet(t)
    BY <1>1, <1>4, Emits DEF f, n
  <2>2. CASE f.at = "joining" /\ UNCHANGED <<graph, durable, selector, built, source, delayed, fate, ended>>
             /\ (\/ stacks' = Operators!WithTop(t, Operators!Over(f))
                    /\ \E done \in BOOLEAN :
                         group' = IF done THEN [group EXCEPT ![n] = Operators!EmptyGroup] ELSE group
                 \/ stacks' = Operators!WithTop(t, Operators!Failed(f)) /\ UNCHANGED group)
    BY <1>2, <1>5, <2>2
  <2>3. CASE f.at = "expiring" /\ (Operators!Return(t) \/ Operators!Raise(t))
    BY <1>1, <1>4, <2>3, ReturnQuiet, RaiseQuiet DEF f
  <2>4. QED
    BY <1>7, <2>1, <2>2, <2>3 DEF Operators!Joining, f, n, Operators!graphVars, Operators!lifeVars
<1>8. QED
  BY <1>6, <1>7

(* The steps of a delay that leave its values where they are. *)
LEMMA DelaySteps ==
  ASSUME OperatorInv, NEW t,
         Operators!Late(t) \/ Operators!Report(t) \/ Operators!Delivered(t) \/ Operators!Returns(t)
  PROVE  Quiet(t)
<1> DEFINE f == Operators!Top(t)
<1>1. Operators!Running(t) /\ f.at # "sleeping"
  BY DEF Operators!Late, Operators!Report, Operators!Delivered, Operators!Returns
<1>2. CASE Operators!Late(t) \/ Operators!Report(t)
  <2>1. f.at \in {"late", "error"} /\ f.at \notin Held
    BY <1>2 DEF Operators!Late, Operators!Report, Held
  <2>2. Operators!Op(Operators!Node(t)) = "delay"
    BY <1>1, <2>1, CallOf DEF Suits
  <2>3. /\ Operators!Emit(t, Operators!Over(f), 1, f.value) => Quiet(t)
        /\ Operators!Emit(t, Operators!Spent(f), 1, f.value) => Quiet(t)
    BY <1>1, <2>1, <2>2, Emits DEF Joins
  <2>4. QED
    BY <1>1, <1>2, <2>3, ReturnQuiet, RaiseQuiet DEF Operators!Late, Operators!Report
<1>3. CASE Operators!Delivered(t) \/ Operators!Returns(t)
  BY <1>1, <1>3, ReturnQuiet DEF Operators!Delivered, Operators!Returns
<1>4. QED
  BY <1>2, <1>3

Delayed == [id : Nat, node : Operators!Nodes, value : ValueTypes]
Fates == SUBSET {"delivered", "dropped", "reported"}

Kept ==
  /\ stacks' \in Seq(Seq(AnyFrame)) /\ delayed' \subseteq Delayed /\ fate' \in Seq(Fates)
  /\ (Suited /\ Holders /\ Pooled /\ Fated)'

LEMMA FateSettled ==
  ASSUME OperatorTypes, NEW id \in DOMAIN fate, NEW what \in {"delivered", "dropped", "reported"}
  PROVE  LET after == Operators!Settle(id, what)
         IN  /\ after \in Seq(Fates) /\ DOMAIN after = DOMAIN fate
             /\ after[id] = fate[id] \union {what}
             /\ \A x \in DOMAIN fate : x # id => after[x] = fate[x]
<1>1. fate \in Seq(Fates)
  BY DEF OperatorTypes, Fates
<1>2. fate[id] \in Fates
  BY <1>1
<1>3. fate[id] \union {what} \in Fates
  BY <1>2 DEF Fates
<1> HIDE DEF Fates
<1>4. QED
  BY <1>1, <1>3 DEF Operators!Settle

LEMMA FateAppended ==
  ASSUME OperatorTypes, NEW first \in Fates
  PROVE  /\ Append(fate, first) \in Seq(Fates) /\ Operators!Fresh \in Nat /\ Operators!Fresh \notin DOMAIN fate
         /\ DOMAIN Append(fate, first) = DOMAIN fate \union {Operators!Fresh}
         /\ \A x \in DOMAIN fate : Append(fate, first)[x] = fate[x]
         /\ Append(fate, first)[Operators!Fresh] = first
<1>1. fate \in Seq(Fates)
  BY DEF OperatorTypes, Fates
<1> HIDE DEF Fates
<1>2. QED
  BY <1>1, AppendProperties DEF Operators!Fresh

(* A delayed value meets a fate: whoever had it has it no more, unless it  *)
(* is the call that delivers it.                                           *)
Sleeper(t, id) ==
  t \in DOMAIN stacks => \A i \in DOMAIN stacks[t] :
    i = Len(stacks[t]) /\ stacks[t][i].at = "sleeping" => stacks[t][i].id = id

Delivers(F, id, what) ==
  /\ \A f, g \in F : f = g
  /\ \A f \in F : /\ Suits(f) /\ f.at # "sleeping"
                  /\ f.at = "delivering" => durable /\ f.id = id /\ fate[id] = {} /\ what = "delivered"

LEMMA SettleKeeps ==
  ASSUME OperatorInv, NEW id \in DOMAIN fate, NEW what \in {"delivered", "dropped", "reported"},
         fate' = Operators!Settle(id, what), UNCHANGED <<graph, durable>>, ended => ended',
         NEW t, NEW n \in Nat, NEW F, Reshaped(stacks', t, n, F),
         t \in DOMAIN stacks => n <= Len(stacks[t]), Alone(t, n, id), Sleeper(t, id), Delivers(F, id, what),
         delayed' = {h \in delayed : h.id # id},
         \/ fate[id] = {} /\ (what = "dropped" => ended)
         \/ fate[id] = {"delivered"} /\ what = "reported" /\ durable
  PROVE  Kept
<1>1. /\ fate' \in Seq(Fates) /\ DOMAIN fate' = DOMAIN fate
      /\ fate'[id] = fate[id] \union {what}
      /\ \A x \in DOMAIN fate : x # id => fate'[x] = fate[x]
  BY FateSettled DEF OperatorInv
<1>2. stacks' \in Seq(Seq(AnyFrame)) /\ delayed' \subseteq Delayed
  BY DEF Reshaped, OperatorInv, OperatorTypes, Delayed
<1>3. Suited'
  BY SuitedKept DEF OperatorInv, Suited, Delivers
<1>4. Holders'
  <2>1. Unmoved(t, n)
    BY <1>1 DEF OperatorInv, Holders, HeldRight, Unmoved, Alone, Spared
  <2>2. Heirs(t, n, F)
    BY <1>1 DEF Heirs, Delivers, Held
  <2>3. QED
    BY <2>1, <2>2, HoldersKept DEF OperatorInv
<1>5. Pooled'
  BY <1>1 DEF OperatorInv, Pooled
<1>6. ASSUME NEW x \in DOMAIN fate
      PROVE  \/ fate'[x] = {} /\ ((\E h \in delayed' : h.id = x) \/ Operators!Sleeping(x)')
             \/ fate'[x] \in {{"delivered"}, {"reported"}}
             \/ fate'[x] = {"dropped"} /\ ended'
             \/ fate'[x] = {"delivered", "reported"} /\ durable'
  <2>1. CASE x = id
    BY <1>1, <2>1
  <2>2. CASE x # id
    <3>1. Operators!Sleeping(x) => Operators!Sleeping(x)'
      BY <2>2, SleepersKept DEF OperatorInv, Sleeper
    <3>2. fate'[x] = fate[x]
      BY <1>1, <2>2
    <3>3. (\E h \in delayed : h.id = x) => (\E h \in delayed' : h.id = x)
      BY <2>2
    <3>4. QED
      BY <3>1, <3>2, <3>3 DEF OperatorInv, Fated
  <2>3. QED
    BY <2>1, <2>2
<1>7. Fated'
  BY <1>1, <1>6 DEF Fated
<1>8. QED
  BY <1>1, <1>2, <1>3, <1>4, <1>5, <1>7 DEF Kept

LEMMA WakeStep ==
  ASSUME OperatorInv, NEW t, Operators!Wake(t)
  PROVE  Aside /\ Kept
<1> DEFINE f == Operators!Top(t)
           n == Len(stacks[t])
           g == [f EXCEPT !.at = "delivering"]
<1>1. Operators!Running(t) /\ f.at = "sleeping"
  BY DEF Operators!Wake
<1>2. /\ f \in AnyFrame /\ Suits(f) /\ f = stacks[t][n] /\ t \in DOMAIN stacks /\ n \in DOMAIN stacks[t]
      /\ n \in Nat \ {0} /\ Operators!Over(f) \in Begun /\ f.node \in Operators!Nodes
  BY <1>1, CallOf, TopOf DEF OperatorInv
<1>3. Aside
  BY <1>1, CallOf DEF Operators!Wake, Operators!graphVars, Operators!joinVars, Operators!lifeVars, Aside
<1>4. /\ durable /\ f.id \in DOMAIN fate /\ fate[f.id] = {} /\ delayed = {}
      /\ \A u \in DOMAIN stacks : \A i \in DOMAIN stacks[u] :
           stacks[u][i].at \in Held /\ stacks[u][i].id = f.id => u = t /\ i = n
  BY <1>1, <1>2 DEF OperatorInv, Holders, HeldRight, Held, Pooled
<1>5. /\ Operators!Op(f.node) = "delay" /\ f.value \in ValueTypes
  BY <1>1, <1>2 DEF Suits, Held, Joins
<1>6. UNCHANGED <<graph, durable, ended, delayed>>
  BY DEF Operators!Wake, Operators!graphVars, Operators!joinVars, Operators!lifeVars
<1>7. delayed' = {h \in delayed : h.id # f.id}
  BY <1>4, <1>6
<1> HIDE DEF f, n, g
<1>8. Alone(t, n, f.id) /\ Sleeper(t, f.id)
  BY <1>2, <1>4 DEF n, Alone, Spared, Sleeper
<1>9. CASE ended
  <2>1. fate' = Operators!Settle(f.id, "dropped") /\ stacks' = Operators!WithTop(t, Operators!Over(f))
    BY <1>9 DEF Operators!Wake, f
  <2>2. Reshaped(stacks', t, n, {})
    <3>1. Reshaped(stacks', t, n, {Operators!Over(f)})
      BY <1>1, <1>2, <2>1, TopReshaped DEF OperatorInv, Begun, n
    <3>2. QED
      BY <1>2, <3>1, BegunAnywhere
  <2>3. n <= Len(stacks[t]) /\ n \in Nat
    BY <1>2 DEF n
  <2>4. Delivers({}, f.id, "dropped")
    BY DEF Delivers
  <2>5. Kept
    BY <1>4, <1>6, <1>7, <1>8, <1>9, <2>1, <2>2, <2>3, <2>4, SettleKeeps
  <2>6. QED
    BY <1>3, <2>5
<1>10. CASE ~ended
  <2>1. fate' = Operators!Settle(f.id, "delivered") /\ stacks' = Operators!Emitted(t, g, 1, f.value)
    BY <1>10 DEF Operators!Wake, f, g
  <2>2. g \in AnyFrame /\ g.node = f.node /\ g.value = f.value /\ g.at = "delivering" /\ g.id = f.id
    BY <1>2 DEF g, AnyFrame, Ats, Held
  <2>3. Suits(g)
    BY <1>5, <2>2 DEF Suits, Joins
  <2>4. Fits(g, 1, f.value)
    BY <1>5, <2>2, FitsElsewhere DEF OperatorInv
  <2>5. Reshaped(stacks', t, n, {g})
    BY <1>1, <1>5, <2>1, <2>2, <2>3, <2>4, EmittedReshaped DEF OperatorInv, n
  <2>6. n <= Len(stacks[t]) /\ n \in Nat
    BY <1>2 DEF n
  <2>7. Delivers({g}, f.id, "delivered")
    BY <1>4, <2>2, <2>3 DEF Delivers
  <2>8. Kept
    BY <1>4, <1>6, <1>7, <1>8, <2>1, <2>5, <2>6, <2>7, SettleKeeps
  <2>9. QED
    BY <1>3, <2>8
<1>11. QED
  BY <1>9, <1>10

LEMMA DueStep ==
  ASSUME OperatorInv, NEW h \in delayed, Operators!Due(h)
  PROVE  Aside /\ Kept
<1>1. /\ h \in Delayed /\ h.id \in DOMAIN fate /\ fate[h.id] = {} /\ ~durable /\ Operators!Op(h.node) = "delay"
      /\ delayed \ {h} = {x \in delayed : x.id # h.id} /\ source # "none"
  BY DEF OperatorInv, OperatorTypes, Delayed, Pooled, Suited, Stages
<1>2. UNCHANGED <<graph, durable, selector, built, source, group, ended>>
      /\ delayed' = {x \in delayed : x.id # h.id}
  BY <1>1 DEF Operators!Due, Operators!graphVars, Operators!joinVars, Operators!lifeVars
<1>3. Aside
  BY <1>1, <1>2 DEF OperatorInv, OperatorTypes, Stages, Aside
<1>4. \A u \in DOMAIN stacks : \A i \in DOMAIN stacks[u] : stacks[u][i].at \notin Held
  BY <1>1 DEF OperatorInv, Holders, HeldRight
<1>5. /\ 0 \notin DOMAIN stacks /\ Alone(0, 0, h.id) /\ Sleeper(0, h.id)
      /\ Delivers({}, h.id, "dropped") /\ Delivers({}, h.id, "delivered")
  BY <1>4 DEF OperatorInv, OperatorTypes, Alone, Spared, Sleeper, Delivers
<1>6. CASE ended
  <2>1. fate' = Operators!Settle(h.id, "dropped") /\ UNCHANGED stacks
    BY <1>6 DEF Operators!Due
  <2>2. Reshaped(stacks', 0, 0, {})
    BY <1>5, <2>1 DEF Reshaped, OperatorInv, OperatorTypes
  <2>3. Kept
    BY <1>1, <1>2, <1>5, <1>6, <2>1, <2>2, SettleKeeps
  <2>4. QED
    BY <1>3, <2>3
<1>7. CASE ~ended
  <2> DEFINE f == Operators!Frame(h.node, h.value, 1, "late")
  <2>1. fate' = Operators!Settle(h.id, "delivered") /\ stacks' = Append(stacks, <<f>>)
    BY <1>7 DEF Operators!Due
  <2>2. f \in AnyFrame /\ f.node = h.node /\ f.value = h.value /\ f.at = "late" /\ h.value \in ValueTypes
    BY <1>1, FrameMade DEF OperatorInv, Delayed, Ats
  <2> HIDE DEF f
  <2>3. f \in Begun
    BY <1>1, <2>2 DEF Begun, Suits, Held
  <2>4. Reshaped(stacks', 0, 0, {})
    BY <2>1, <2>3, TaskAdded DEF OperatorInv
  <2>5. Kept
    BY <1>1, <1>2, <1>5, <2>1, <2>4, SettleKeeps
  <2>6. QED
    BY <1>3, <2>5
<1>8. QED
  BY <1>6, <1>7

LEMMA PlainIsKept ==
  ASSUME OperatorInv, NEW t, NEW n \in Nat, Plain(t, n)
  PROVE  Kept
<1>1. (Suited /\ Holders /\ Pooled /\ Fated)'
  BY PlainKeeps
<1>2. stacks' \in Seq(Seq(AnyFrame)) /\ UNCHANGED <<delayed, fate>>
  BY DEF Plain, Reshaped
<1>3. QED
  BY <1>1, <1>2 DEF Kept, OperatorInv, OperatorTypes, Delayed, Fates

LEMMA QuietIsKept ==
  ASSUME OperatorInv, NEW t, Operators!Running(t), Quiet(t)
  PROVE  Aside /\ Kept
<1>1. Len(stacks[t]) \in Nat
  BY CallOf
<1>2. QED
  BY <1>1, PlainIsKept DEF Quiet

(* A value that is delayed: by a Workflow, which sleeps; not at all, when  *)
(* the request has ended or the pool is stopped; or in the pool.           *)
LEMMA DelayStep ==
  ASSUME OperatorInv, NEW t, Operators!Delay(t)
  PROVE  Aside /\ Kept
<1>0. PICK id : id = Operators!Fresh
  OBVIOUS
<1> DEFINE f == Operators!Top(t)
           n == Len(stacks[t])
           g == [f EXCEPT !.at = "sleeping", !.id = id]
           e == [f EXCEPT !.at = "error", !.id = id]
           h == [id |-> id, node |-> Operators!Node(t), value |-> f.value]
<1>1. /\ Operators!Running(t) /\ f.at = "call" /\ f.at # "sleeping" /\ f.at \notin Held
      /\ Operators!Op(Operators!Node(t)) = "delay"
  BY DEF Operators!Delay, Operators!At, Held
<1>2. /\ f \in AnyFrame /\ Suits(f) /\ f = stacks[t][n] /\ t \in DOMAIN stacks /\ n \in Nat \ {0}
      /\ Operators!Over(f) \in Begun /\ Operators!Node(t) = f.node /\ f.node \in Operators!Nodes
      /\ source # "none" /\ group = [m \in Operators!Nodes |-> group[m]]
      /\ \A m \in Operators!Nodes : group[m] # Operators!EmptyGroup => Operators!Op(m) \in Joins
  BY <1>1, CallOf
<1>3. f.value \in ValueTypes
  BY <1>1, <1>2 DEF Suits, Joins
<1>4. {} \in Fates /\ {"reported"} \in Fates /\ id \in Nat
  BY <1>0, FateAppended DEF Fates, OperatorInv
<1>5. g \in AnyFrame /\ g.node = f.node /\ g.value = f.value /\ g.at = "sleeping" /\ g.id = id
  BY <1>2, <1>4 DEF AnyFrame, Ats, Held
<1>6. e \in AnyFrame /\ e.node = f.node /\ e.value = f.value /\ e.at = "error" /\ e.id = id
  BY <1>2, <1>4 DEF AnyFrame, Ats, Held
<1>7. Suits(g) /\ e \in Begun
  <2>1. Operators!Op(f.node) = "delay"
    BY <1>1, <1>2
  <2> HIDE DEF f, g, e
  <2>2. Suits(g)
    BY <1>3, <1>5, <2>1 DEF Suits
  <2>3. Suits(e) /\ e.at \notin Held
    BY <1>3, <1>6, <2>1 DEF Suits, Held
  <2>4. QED
    BY <1>6, <2>2, <2>3 DEF Begun
<1>8. h \in Delayed /\ h.id = id /\ h.node = f.node
  BY <1>2, <1>3, <1>4 DEF Delayed
<1> HIDE DEF f, n, g, e, h
<1>9. CASE Operators!Emit(t, Operators!Over(f), 1, f.value)
  <2>1. Quiet(t)
    BY <1>1, <1>9, Emits DEF f, Joins
  <2>2. QED
    BY <1>1, <2>1, QuietIsKept
<1>10. CASE Operators!Raise(t)
  BY <1>1, <1>10, RaiseQuiet, QuietIsKept DEF f
<1> DEFINE Keeps(first) == /\ fate' = Append(fate, first)
                           /\ UNCHANGED <<graph, durable, selector, built, source, group, ended>>
<1>11. ASSUME NEW first \in Fates, Keeps(first)
       PROVE  /\ fate' \in Seq(Fates) /\ id \notin DOMAIN fate
              /\ DOMAIN fate' = DOMAIN fate \union {id} /\ fate'[id] = first
              /\ \A x \in DOMAIN fate : fate'[x] = fate[x]
              /\ Aside /\ Unmoved(t, n) /\ Alone(t, n, id)
  <2>1. /\ fate' \in Seq(Fates) /\ id \notin DOMAIN fate
        /\ DOMAIN fate' = DOMAIN fate \union {id} /\ fate'[id] = first
        /\ \A x \in DOMAIN fate : fate'[x] = fate[x]
    BY <1>11, <1>0, FateAppended DEF OperatorInv
  <2>2. Unmoved(t, n) /\ Alone(t, n, id)
    BY <2>1 DEF OperatorInv, Holders, HeldRight, Unmoved, Alone, Spared
  <2>3. Aside
    BY <1>2, <1>11 DEF Aside
  <2>4. QED
    BY <2>1, <2>2, <2>3
<1>12. n <= Len(stacks[t]) /\ n \in Nat
  BY <1>2 DEF n
<1>13. \A x : Operators!Sleeping(x) /\ (\E F : Reshaped(stacks', t, n, F)) => Operators!Sleeping(x)'
  BY <1>1, <1>2, SleepersKept DEF OperatorInv, n
<1>14. CASE durable /\ stacks' = Operators!WithTop(t, g) /\ Keeps({}) /\ UNCHANGED delayed
  <2>1. /\ Reshaped(stacks', t, n, {g}) /\ t \in DOMAIN stacks' /\ Len(stacks'[t]) = n
        /\ n \in DOMAIN stacks'[t] /\ stacks'[t][n] = g
    <3> DEFINE st == Operators!WithTop(t, g)
    <3>1. /\ Reshaped(st, t, n, {g}) /\ t \in DOMAIN st /\ Len(st[t]) = n
          /\ DOMAIN st[t] = 1 .. n /\ st[t][n] = g
      BY <1>1, <1>5, TopReshaped DEF OperatorInv, n
    <3> HIDE DEF st
    <3>2. stacks' = st
      BY <1>14 DEF st
    <3>3. QED
      BY <1>2, <3>1, <3>2
  <2>2. /\ fate' \in Seq(Fates) /\ DOMAIN fate' = DOMAIN fate \union {id} /\ fate'[id] = {}
        /\ \A x \in DOMAIN fate : fate'[x] = fate[x]
        /\ Aside /\ Unmoved(t, n) /\ Alone(t, n, id)
    BY <1>4, <1>11, <1>14
  <2>3. Heirs(t, n, {g})
    BY <1>5, <1>14, <2>1, <2>2 DEF Heirs
  <2>4. Holders'
    BY <1>12, <1>14, <2>1, <2>2, <2>3, HoldersKept DEF OperatorInv
  <2>5. Suited'
    BY <1>7, <1>14, <2>1, SuitedKept DEF OperatorInv, Suited
  <2>6. delayed = {}
    BY <1>14 DEF OperatorInv, Pooled
  <2>7. Pooled'
    BY <1>14, <2>6 DEF Pooled
  <2>8. Operators!Sleeping(id)'
    BY <1>5, <2>1 DEF Operators!Sleeping
  <2>9. \A x \in DOMAIN fate : Operators!Sleeping(x) => Operators!Sleeping(x)'
    BY <1>13, <2>1
  <2>10. Fated'
    BY <1>14, <2>2, <2>8, <2>9 DEF Fated, OperatorInv
  <2>11. QED
    BY <1>14, <2>1, <2>2, <2>4, <2>5, <2>7, <2>10 DEF Kept, Reshaped, OperatorInv, OperatorTypes, Delayed
<1>15. ASSUME NEW c \in Begun, stacks' = Operators!WithTop(t, c), NEW first \in Fates, Keeps(first)
       PROVE  /\ stacks' \in Seq(Seq(AnyFrame)) /\ Holders'
              /\ ((\A x \in delayed' : Operators!Op(x.node) = "delay") => Suited')
              /\ \A x \in DOMAIN fate : Operators!Sleeping(x) => Operators!Sleeping(x)'
  <2>1. Reshaped(stacks', t, n, {c})
    BY <1>1, <1>15, TopReshaped DEF OperatorInv, Begun, n
  <2>2. Reshaped(stacks', t, n, {})
    BY <2>1, BegunAnywhere
  <2>3. Unmoved(t, n) /\ Heirs(t, n, {})
    BY <1>11, <1>15 DEF Heirs
  <2>4. Holders'
    BY <1>12, <1>15, <2>2, <2>3, HoldersKept DEF OperatorInv
  <2>5. (\A x \in delayed' : Operators!Op(x.node) = "delay") => Suited'
    BY <1>15, <2>2, SuitedKept DEF OperatorInv
  <2>6. QED
    BY <1>13, <2>2, <2>4, <2>5 DEF Reshaped
<1>16. CASE stacks' = Operators!WithTop(t, e) /\ Keeps({"reported"}) /\ UNCHANGED delayed
  <2>1. /\ stacks' \in Seq(Seq(AnyFrame)) /\ Holders' /\ Suited'
        /\ \A x \in DOMAIN fate : Operators!Sleeping(x) => Operators!Sleeping(x)'
    BY <1>4, <1>7, <1>15, <1>16 DEF OperatorInv, Suited
  <2>2. /\ fate' \in Seq(Fates) /\ DOMAIN fate' = DOMAIN fate \union {id} /\ fate'[id] = {"reported"}
        /\ (\A x \in DOMAIN fate : fate'[x] = fate[x]) /\ Aside
    BY <1>4, <1>11, <1>16
  <2>3. Pooled'
    BY <1>16, <2>2 DEF OperatorInv, Pooled
  <2>4. Fated'
    BY <1>16, <2>1, <2>2 DEF Fated, OperatorInv
  <2>5. QED
    BY <1>16, <2>1, <2>2, <2>3, <2>4 DEF Kept, OperatorInv, OperatorTypes, Delayed
<1>17. CASE ~durable /\ stacks' = Operators!WithTop(t, Operators!Over(f)) /\ Keeps({})
            /\ delayed' = delayed \union {h}
  <2>1. \A x \in delayed' : Operators!Op(x.node) = "delay"
    BY <1>1, <1>2, <1>8, <1>17 DEF OperatorInv, Suited
  <2>2. /\ stacks' \in Seq(Seq(AnyFrame)) /\ Holders' /\ Suited'
        /\ \A x \in DOMAIN fate : Operators!Sleeping(x) => Operators!Sleeping(x)'
    BY <1>2, <1>4, <1>15, <1>17, <2>1
  <2>3. /\ fate' \in Seq(Fates) /\ id \notin DOMAIN fate /\ DOMAIN fate' = DOMAIN fate \union {id}
        /\ fate'[id] = {} /\ (\A x \in DOMAIN fate : fate'[x] = fate[x]) /\ Aside
    BY <1>4, <1>11, <1>17
  <2>4. Pooled'
    BY <1>8, <1>17, <2>3 DEF OperatorInv, Pooled
  <2>5. Fated'
    BY <1>8, <1>17, <2>2, <2>3 DEF Fated, OperatorInv
  <2>6. delayed' \subseteq Delayed
    BY <1>8, <1>17 DEF OperatorInv, OperatorTypes, Delayed
  <2>7. QED
    BY <2>2, <2>3, <2>4, <2>5, <2>6 DEF Kept
<1>18. QED
  <2>1. \/ Operators!Emit(t, Operators!Over(f), 1, f.value)
        \/ Operators!Raise(t)
        \/ durable /\ stacks' = Operators!WithTop(t, g) /\ Keeps({}) /\ UNCHANGED delayed
        \/ stacks' = Operators!WithTop(t, e) /\ Keeps({"reported"}) /\ UNCHANGED delayed
        \/ ~durable /\ stacks' = Operators!WithTop(t, Operators!Over(f)) /\ Keeps({})
           /\ delayed' = delayed \union {h}
    BY <1>0 DEF Operators!Delay, f, g, e, h, Operators!graphVars, Operators!joinVars, Operators!lifeVars
  <2>2. QED
    BY <1>9, <1>10, <1>14, <1>16, <1>17, <2>1

LEMMA UnwindStep ==
  ASSUME OperatorInv, NEW t, Operators!Unwind(t)
  PROVE  Aside /\ Kept
<1> DEFINE rest == Operators!Front(stacks[t])
           n == Len(stacks[t]) - 1
           below == Operators!Last(rest)
           GoesOn(f) == stacks' = [stacks EXCEPT ![t] = Append(Operators!Front(rest), f)]
<1>1. Operators!Running(t) /\ Operators!Top(t).at = "raise"
  BY DEF Operators!Unwind
<1>2. UNCHANGED <<graph, durable, selector, built, delayed, group, ended>>
  BY DEF Operators!Unwind, Operators!graphVars
<1>3. /\ t \in DOMAIN stacks /\ Len(stacks[t]) \in Nat \ {0} /\ source # "none"
      /\ DOMAIN stacks[t] = 1 .. Len(stacks[t]) /\ Operators!Top(t) = stacks[t][Len(stacks[t])]
      /\ group = [m \in Operators!Nodes |-> group[m]]
      /\ \A m \in Operators!Nodes : group[m] # Operators!EmptyGroup => Operators!Op(m) \in Joins
  BY <1>1, CallOf, TopOf DEF OperatorInv
<1>4. CASE rest = <<>>
  <2>1. stacks' = [stacks EXCEPT ![t] = <<>>] /\ UNCHANGED fate /\ source' # "none"
    BY <1>3, <1>4 DEF Operators!Unwind
  <2>2. Len(stacks[t]) = 1
    BY <1>1, <1>3, <1>4, TopOf, LastReplaced DEF OperatorInv
  <2>3. <<>> \in Seq(AnyFrame) /\ DOMAIN <<>> = {}
    OBVIOUS
  <2>4. Reshaped([stacks EXCEPT ![t] = <<>>], t, 1, {})
    <3>1. PICK calls : calls = <<>>
      OBVIOUS
    <3>2. calls \in Seq(AnyFrame) /\ 1 \in Nat /\ 1 <= Len(stacks[t])
      BY <2>2, <2>3, <3>1
    <3>3. \A i \in 1 .. Len(stacks[t]) : i < 1 => i \in DOMAIN calls /\ calls[i] = stacks[t][i]
      BY <1>3
    <3>4. \A i \in DOMAIN calls : i < 1 \/ (i = 1 /\ calls[i] \in {}) \/ calls[i] \in Begun
      BY <2>3, <3>1
    <3>5. Reshaped([stacks EXCEPT ![t] = calls], t, 1, {})
      BY <1>1, <3>2, <3>3, <3>4, TaskReshaped DEF OperatorInv
    <3>6. QED
      BY <3>1, <3>5
  <2>5. Plain(t, 1)
    BY <1>1, <1>2, <1>3, <2>1, <2>2, <2>4 DEF Plain
  <2>6. Aside
    BY <1>2, <1>3, <2>1 DEF Aside
  <2>7. QED
    BY <2>5, <2>6, PlainIsKept
<1>5. ASSUME rest # <<>>
      PROVE  /\ n \in Nat \ {0} /\ n \in DOMAIN stacks[t] /\ below = stacks[t][n] /\ below \in AnyFrame
             /\ n < Len(stacks[t]) /\ Suits(below) /\ below.at # "sleeping"
             /\ \A f \in Begun : GoesOn(f) => Reshaped(stacks', t, n, {})
  <2>1. /\ n \in Nat \ {0} /\ n \in DOMAIN stacks[t] /\ below = stacks[t][n] /\ below \in AnyFrame
    BY <1>1, <1>5, TopOf, CallUnwound DEF OperatorInv
  <2>2. n < Len(stacks[t])
    BY <1>3
  <2>3. Suits(below) /\ below.at # "sleeping"
    BY <1>3, <2>1, <2>2 DEF OperatorInv, Suited, Holders, HeldRight
  <2>4. ASSUME NEW f \in Begun, GoesOn(f)
        PROVE  Reshaped(stacks', t, n, {})
    <3>1. Reshaped(stacks', t, n, {f})
      BY <1>1, <1>5, <2>4, CallUnwound DEF OperatorInv, Begun
    <3>2. QED
      BY <3>1, BegunAnywhere
  <2>5. QED
    BY <2>1, <2>2, <2>3, <2>4
<1>6. CASE rest # <<>> /\ below.at = "delivering"
  <2> DEFINE e == [below EXCEPT !.at = "error"]
  <2>1. /\ GoesOn(e) /\ fate' = [fate EXCEPT ![below.id] = @ \union {"reported"}] /\ UNCHANGED source
    BY <1>6 DEF Operators!Unwind
  <2>2. /\ n \in Nat \ {0} /\ n \in DOMAIN stacks[t] /\ below = stacks[t][n] /\ below \in AnyFrame
        /\ n < Len(stacks[t]) /\ Suits(below)
        /\ \A f \in Begun : GoesOn(f) => Reshaped(stacks', t, n, {})
    BY <1>5, <1>6
  <2>3. durable /\ below.id \in DOMAIN fate /\ fate[below.id] = {"delivered"} /\ delayed = {}
    BY <1>3, <1>6, <2>2 DEF OperatorInv, Holders, HeldRight, Held, Pooled
  <2>4. Alone(t, n, below.id) /\ Sleeper(t, below.id)
    <3>1. \A u \in DOMAIN stacks : \A i \in DOMAIN stacks[u] :
            stacks[u][i].at \in Held /\ stacks[u][i].id = below.id => u = t /\ i = n
      BY <1>3, <1>6, <2>2 DEF OperatorInv, Holders, Held
    <3>2. Alone(t, n, below.id)
      <4> HIDE DEF n, below
      <4>1. QED
        BY <2>2, <3>1 DEF Alone, Spared
    <3>3. Sleeper(t, below.id)
      BY <1>1, <1>3 DEF Sleeper
    <3>4. QED
      BY <3>2, <3>3
  <2> HIDE DEF n, below, GoesOn, e
  <2>5. e \in Begun
    BY <1>6, <2>2 DEF e, Begun, AnyFrame, Ats, Held, Suits
  <2>6. Reshaped(stacks', t, n, {})
    BY <2>1, <2>2, <2>5
  <2>7. /\ fate' = Operators!Settle(below.id, "reported") /\ Delivers({}, below.id, "reported")
        /\ delayed' = {h \in delayed : h.id # below.id} /\ n <= Len(stacks[t]) /\ n \in Nat
    BY <1>2, <1>3, <2>1, <2>2, <2>3 DEF Operators!Settle, Delivers
  <2>8. Kept
    BY <1>2, <2>3, <2>4, <2>6, <2>7, SettleKeeps
  <2>9. Aside
    BY <1>2, <1>3, <2>1 DEF Aside
  <2>10. QED
    BY <2>8, <2>9
<1>7. CASE rest # <<>> /\ below.at # "delivering"
  <2>1. /\ UNCHANGED <<source, fate>>
        /\ GoesOn(Operators!Failed(below)) \/ (below.at = "call" /\ GoesOn(below))
    BY <1>7 DEF Operators!Unwind
  <2>2. /\ n \in Nat \ {0} /\ below \in AnyFrame /\ n < Len(stacks[t]) /\ Suits(below)
        /\ \A f \in Begun : GoesOn(f) => Reshaped(stacks', t, n, {})
    BY <1>5, <1>7
  <2> HIDE DEF n, below, GoesOn
  <2>3. Operators!Failed(below) \in Begun /\ (below.at = "call" => below \in Begun)
    BY <2>2 DEF Operators!Failed, Begun, AnyFrame, Ats, Held, Suits
  <2>4. Reshaped(stacks', t, n, {})
    BY <2>1, <2>2, <2>3
  <2>5. Plain(t, n)
    BY <1>1, <1>2, <1>3, <2>1, <2>2, <2>4 DEF Plain
  <2>6. Aside
    BY <1>2, <1>3, <2>1 DEF Aside
  <2>7. QED
    BY <2>2, <2>5, <2>6, PlainIsKept
<1>8. QED
  BY <1>4, <1>6, <1>7

LEMMA ExpireStep ==
  ASSUME OperatorInv, NEW n \in Operators!Nodes, Operators!Expire(n)
  PROVE  Aside /\ Kept
<1> DEFINE e == Operators!Frame(n, n, 1, "expiring")
           f == Operators!Called(e, group[n])
           g == IF f.at = "joining" THEN [f EXCEPT !.at = "expiring"] ELSE f
<1>1. /\ source # "none" /\ Operators!Op(n) \in Joins /\ n \in Nat
      /\ group = [m \in Operators!Nodes |-> group[m]]
      /\ \A m \in Operators!Nodes : group[m] # Operators!EmptyGroup => Operators!Op(m) \in Joins
  BY GraphFacts DEF OperatorInv, OperatorTypes, Stages, Operators!Expire
<1>2. /\ UNCHANGED <<graph, durable, selector, built, source, delayed, fate, ended>>
      /\ group' = [group EXCEPT ![n] = Operators!EmptyGroup] /\ stacks' = Append(stacks, <<g>>)
  BY DEF Operators!Expire, Operators!graphVars, Operators!lifeVars
<1>3. e \in AnyFrame /\ e.node = n
  BY <1>1, FrameMade DEF OperatorInv, Ats
<1>4. f \in {[e EXCEPT !.at = "joining"], Operators!Failed(e), Operators!Over(e)}
  BY CalledForms
<1> HIDE DEF e, f
<1>5. g \in Begun
  <2>1. \A a \in {"expiring", "raise", "return"} :
          /\ [e EXCEPT !.at = a] \in AnyFrame /\ [e EXCEPT !.at = a].node = n /\ [e EXCEPT !.at = a].at = a
    BY <1>3 DEF AnyFrame, Ats
  <2>2. [e EXCEPT !.at = "expiring"] \in Begun /\ Operators!Failed(e) \in Begun /\ Operators!Over(e) \in Begun
    BY <1>1, <2>1 DEF Begun, Suits, Joins, Held, Operators!Failed, Operators!Over
  <2>3. CASE f = [e EXCEPT !.at = "joining"]
    <3>1. g = [e EXCEPT !.at = "expiring"]
      BY <1>3, <2>3 DEF AnyFrame
    <3>2. QED
      BY <2>2, <3>1
  <2>4. CASE f \in {Operators!Failed(e), Operators!Over(e)}
    <3>1. f.at # "joining"
      BY <1>3, <2>4 DEF AnyFrame, Operators!Failed, Operators!Over
    <3>2. QED
      BY <2>2, <2>4, <3>1
  <2>5. QED
    BY <1>4, <2>3, <2>4
<1> HIDE DEF g
<1>6. Reshaped(stacks', 0, 0, {})
  BY <1>2, <1>5, TaskAdded DEF OperatorInv
<1>7. Plain(0, 0)
  BY <1>2, <1>6 DEF Plain, OperatorInv, OperatorTypes
<1>8. Aside
  BY <1>1, <1>2 DEF Aside
<1>9. QED
  BY <1>7, <1>8, PlainIsKept

LEMMA KeptAside ==
  ASSUME OperatorInv, Aside, Kept
  PROVE  OperatorInv'
<1>1. AnyFrame' = AnyFrame /\ Operators!Nodes' = Operators!Nodes
  BY TypesKept DEF Aside
<1>2. OperatorTypes'
  BY <1>1 DEF OperatorInv, OperatorTypes, Aside, Kept, Delayed, Fates
<1>3. Stages'
  <2>1. \A n \in Operators!Cases : Routed(n)' <=> Routed(n)
    BY DEF Aside, Routed, Operators!Forks, Operators!To
  <2>2. Operators!Cases' = Operators!Cases
    BY <1>1 DEF Operators!Cases, Operators!Op, Aside
  <2>3. built = "built" /\ \A n \in Operators!Cases : Routed(n)
    BY DEF OperatorInv, Stages, Aside
  <2>4. built' = "built" /\ (\A n \in Operators!Cases : Routed(n))'
    BY <2>1, <2>2, <2>3 DEF Aside
  <2>5. \A n \in Operators!Nodes : group'[n] # Operators!EmptyGroup => Operators!Op(n)' \in Joins
    BY DEF Aside, Operators!Op
  <2>6. source' # "none"
    BY DEF Aside
  <2>7. QED
    BY <1>1, <2>4, <2>5, <2>6 DEF Stages, Operators!EmptyGroup
<1>4. QED
  BY <1>2, <1>3 DEF OperatorInv, Kept

(* A set of numbers that has a bound has a greatest element. *)
LessThan == {p \in Nat \X Nat : p[1] < p[2]}

LEMMA Greatest ==
  ASSUME NEW m \in Nat, NEW S \in SUBSET (1 .. m), S # {}
  PROVE  \E i \in S : \A j \in S : j <= i
<1> DEFINE T == {m - i : i \in S}
<1>1. IsWellFoundedOn(LessThan, Nat)
  BY NatLessThanWellFounded DEF OpToRel, LessThan
<1>2. T \subseteq Nat /\ T # {}
  <2>1. \A i \in S : m - i \in Nat
    OBVIOUS
  <2>2. QED
    BY <2>1
<1>3. PICK x \in T : \A y \in T : <<y, x>> \notin LessThan
  BY <1>1, <1>2, WFMin
<1>4. PICK i \in S : x = m - i
  BY <1>3
<1>5. ASSUME NEW j \in S
      PROVE  j <= i
  <2>1. m - j \in T /\ ~ (m - j < m - i)
    BY <1>2, <1>3, <1>4 DEF LessThan
  <2>2. QED
    BY <2>1
<1>6. QED
  BY <1>5

LEMMA Switches ==
  ASSUME graph \in Graphs, NEW n \in Operators!Nodes, NEW v
  PROVE  /\ Operators!DefaultSwitch(n, v) \in Operators!ForksOf(n, v) \union {Operators!NoBranch}
         /\ Operators!WhenIndex(n, v) \in Operators!ForksOf(n, v) \union {Operators!NoBranch}
         /\ Operators!NoBranch \notin Operators!Forks(n)
<1> DEFINE found == Operators!ForksOf(n, v)
<1>1. PICK m \in Nat : Operators!Forks(n) = 1 .. m
  BY GraphFacts
<1>2. found \in SUBSET (1 .. m)
  BY <1>1 DEF Operators!ForksOf
<1> HIDE DEF found
<1>3. found # {} => \E i \in found : \A j \in found : j <= i
  BY <1>2, Greatest
<1>4. Operators!DefaultSwitch(n, v) \in found \union {Operators!NoBranch}
  BY <1>3 DEF Operators!DefaultSwitch, found
<1>5. found # {} => (CHOOSE i \in found : TRUE) \in found
  OBVIOUS
<1>6. Operators!WhenIndex(n, v) \in found \union {Operators!NoBranch}
  <2>1. CASE \E i \in found : found = {i}
    BY <1>5, <2>1 DEF Operators!WhenIndex, found
  <2>2. CASE ~\E i \in found : found = {i}
    BY <2>2 DEF Operators!WhenIndex, found
  <2>3. QED
    BY <2>1, <2>2
<1>7. QED
  BY <1>1, <1>4, <1>6 DEF found, Operators!NoBranch

LEMMA CasesBuilt ==
  ASSUME OperatorInv, Operators!Build
  PROVE  OperatorInv'
<1>1. UNCHANGED <<graph, durable, stacks, source, delayed, fate, group, ended>> /\ built = "pending"
  BY DEF Operators!Build, Operators!joinVars, Operators!lifeVars
<1>2. source = "none" /\ source' = "none"
  BY <1>1 DEF OperatorInv, Stages
<1>3. \/ selector' = Operators!Bound(Operators!DefaultSwitch)
      \/ selector' = Operators!Bound(Operators!WhenIndex)
      \/ built' = "failed"
  BY DEF Operators!Build
<1>4. ASSUME built' = "built", NEW n \in Operators!Cases, NEW v \in ValueTypes
      PROVE  LET i == selector'[n][v]
             IN  i \in Operators!Forks(n) => graph[Operators!To(n)[i].node].type = v
  <2>1. n \in Operators!Nodes /\ graph \in Graphs
    BY <1>4 DEF Operators!Cases, OperatorInv, OperatorTypes
  <2>2. \/ selector'[n][v] = Operators!DefaultSwitch(n, v)
        \/ selector'[n][v] = Operators!WhenIndex(n, v)
    BY <1>3, <1>4, <2>1 DEF Operators!Bound
  <2>3. selector'[n][v] \in Operators!Forks(n) => selector'[n][v] \in Operators!ForksOf(n, v)
    BY <2>1, <2>2, Switches
  <2>4. QED
    BY <2>3 DEF Operators!ForksOf
<1>5. AnyFrame' = AnyFrame /\ Operators!Nodes' = Operators!Nodes /\ Operators!Cases' = Operators!Cases
  BY <1>1, TypesKept DEF Operators!Cases, Operators!Op, Operators!Nodes
<1>6. OperatorTypes'
  BY <1>1, <1>5 DEF OperatorInv, OperatorTypes
<1>7. Stages'
  <2>1. (built = "built" => \A n \in Operators!Cases : Routed(n))'
    BY <1>1, <1>4, <1>5 DEF Routed, Operators!Forks, Operators!To
  <2>2. QED
    BY <1>1, <1>2, <1>5, <2>1 DEF OperatorInv, Stages, Operators!Op, Operators!EmptyGroup
<1>8. Reshaped(stacks', 0, 0, {})
  BY <1>1, <1>2 DEF OperatorInv, OperatorTypes, Stages, Reshaped
<1>9. Plain(0, 0)
  BY <1>1, <1>8 DEF Plain, OperatorInv, OperatorTypes
<1>10. Kept
  BY <1>9, PlainIsKept
<1>11. QED
  BY <1>6, <1>7, <1>10 DEF Kept, OperatorInv

LEMMA OutsideSteps ==
  ASSUME OperatorInv, Operators!Consume \/ Operators!EndRequest \/ Operators!Seal
  PROVE  Aside /\ Kept
<1>1. /\ UNCHANGED <<graph, durable, selector, built, delayed, fate, group>>
      /\ source # "none" \/ built = "built"
      /\ source' # "none" /\ (ended => ended')
  BY DEF Operators!Consume, Operators!EndRequest, Operators!Seal, Operators!graphVars, Operators!joinVars,
     Operators!lifeVars
<1>2. Aside
  BY <1>1 DEF OperatorInv, OperatorTypes, Stages, Aside
<1>3. Reshaped(stacks', 0, 0, {})
  <2>1. CASE Operators!Consume
    <3>1. PICK v \in Operators!Gives(1) : stacks' = <<<<Operators!Frame(1, v, 1, "call")>>>>
      BY <2>1 DEF Operators!Consume
    <3>2. stacks = <<>>
      BY <2>1 DEF Operators!Consume, OperatorInv, Stages
    <3> DEFINE f == Operators!Frame(1, v, 1, "call")
    <3>3. v \in ValueTypes /\ 1 \in Operators!Nodes /\ Operators!Op(1) # "when"
      BY GraphFacts DEF OperatorInv, OperatorTypes
    <3>4. f \in AnyFrame /\ f.node = 1 /\ f.value = v /\ f.at = "call"
      BY <3>3, FrameMade DEF OperatorInv, Ats
    <3> HIDE DEF f
    <3>5. f \in Begun
      BY <3>3, <3>4 DEF Begun, Suits, Held
    <3>6. Append(stacks, <<f>>) = <<<<f>>>>
      BY <3>2
    <3>7. Reshaped(<<<<f>>>>, 0, 0, {})
      BY <3>5, <3>6, TaskAdded DEF OperatorInv
    <3>8. QED
      BY <3>1, <3>7 DEF f
  <2>2. CASE Operators!EndRequest \/ Operators!Seal
    <3>1. stacks' = stacks
      BY <2>2 DEF Operators!EndRequest, Operators!Seal
    <3>2. QED
      BY <3>1 DEF Reshaped, OperatorInv, OperatorTypes
  <2>3. QED
    BY <2>1, <2>2
<1>4. Plain(0, 0)
  BY <1>1, <1>3 DEF Plain, OperatorInv, OperatorTypes
<1>5. QED
  BY <1>2, <1>4, PlainIsKept

LEMMA OperatorInit == Operators!Init => OperatorInv
<1> SUFFICES ASSUME Operators!Init PROVE OperatorInv
  OBVIOUS
<1>1. /\ graph \in Graphs /\ durable \in BOOLEAN /\ stacks = <<>> /\ source = "none" /\ built = "pending"
      /\ delayed = {} /\ fate = <<>> /\ group = [n \in Operators!Nodes |-> Operators!EmptyGroup]
  BY DEF Operators!Init
<1>2. stacks \in Seq(Seq(AnyFrame)) /\ fate \in Seq(SUBSET {"delivered", "dropped", "reported"})
  BY <1>1
<1>3. DOMAIN stacks = {} /\ DOMAIN fate = {}
  BY <1>1
<1>4. OperatorTypes /\ Stages
  BY <1>1, <1>2 DEF OperatorTypes, Stages
<1>5. Suited /\ Holders /\ Pooled /\ Fated
  BY <1>1, <1>3 DEF Suited, Holders, Pooled, Fated
<1>6. QED
  BY <1>4, <1>5 DEF OperatorInv

LEMMA OperatorStep == OperatorInv /\ [Operators!Next]_(Operators!vars) => OperatorInv'
<1> SUFFICES ASSUME OperatorInv, [Operators!Next]_(Operators!vars) PROVE OperatorInv'
  OBVIOUS
<1>1. ASSUME NEW t, Operators!Step(t)
      PROVE  Aside /\ Kept
  <2>1. Operators!Running(t) /\ Quiet(t) => Aside /\ Kept
    BY QuietIsKept
  <2>2. CASE \/ Operators!Input(t) \/ Operators!Merge(t) \/ Operators!Link(t) \/ Operators!When(t)
             \/ Operators!Error(t) \/ Operators!Map(t) \/ Operators!FlatMap(t) \/ Operators!KeyBy(t)
             \/ Operators!Process(t) \/ Operators!Filter(t) \/ Operators!Iterate(t) \/ Operators!Deliver(t)
    <3>1. Operators!Running(t)
      BY <2>2 DEF Operators!Input, Operators!Merge, Operators!Link, Operators!When,
           Operators!Error, Operators!Map,
         Operators!FlatMap, Operators!KeyBy, Operators!Process, Operators!Filter, Operators!Iterate,
         Operators!Deliver, Operators!At
    <3>2. QED
      BY <2>1, <2>2, <3>1, StreamSteps
  <2>3. CASE Operators!Select(t)
    <3>1. Operators!Running(t)
      BY <2>3 DEF Operators!Select, Operators!At
    <3>2. QED
      BY <2>1, <2>3, <3>1, SelectStep
  <2>4. CASE Operators!Join(t) \/ Operators!MultiJoin(t) \/ Operators!Joining(t)
    <3>1. Operators!Running(t)
      BY <2>4 DEF Operators!Join, Operators!MultiJoin, Operators!Joining, Operators!At
    <3>2. QED
      BY <2>1, <2>4, <3>1, JoinSteps
  <2>5. CASE Operators!Late(t) \/ Operators!Report(t) \/ Operators!Delivered(t) \/ Operators!Returns(t)
    <3>1. Operators!Running(t)
      BY <2>5 DEF Operators!Late, Operators!Report, Operators!Delivered, Operators!Returns
    <3>2. QED
      BY <2>1, <2>5, <3>1, DelaySteps
  <2>6. QED
    BY <1>1, <2>2, <2>3, <2>4, <2>5, DelayStep, WakeStep, UnwindStep DEF Operators!Step
<1>2. CASE UNCHANGED Operators!vars
  <2>1. UNCHANGED <<graph, durable, selector, built, stacks, source, delayed, fate, group, ended>>
    BY <1>2 DEF Operators!vars, Operators!graphVars, Operators!joinVars, Operators!lifeVars
  <2>2. AnyFrame' = AnyFrame /\ Operators!Nodes' = Operators!Nodes /\ Operators!Cases' = Operators!Cases
    BY <2>1, TypesKept DEF Operators!Cases, Operators!Op, Operators!Nodes
  <2>3. OperatorTypes'
    BY <2>1, <2>2 DEF OperatorInv, OperatorTypes
  <2>4. Stages'
    BY <2>1, <2>2 DEF OperatorInv, Stages, Routed, Operators!Forks, Operators!To, Operators!Op,
       Operators!EmptyGroup
  <2>5. Reshaped(stacks', 0, 0, {}) /\ Plain(0, 0)
    BY <2>1 DEF Reshaped, Plain, OperatorInv, OperatorTypes
  <2>6. QED
    BY <2>3, <2>4, <2>5, PlainIsKept DEF Kept, OperatorInv
<1>3. QED
  BY <1>1, <1>2, KeptAside, CasesBuilt, OutsideSteps, ExpireStep, DueStep DEF Operators!Next

(* Every value that an operator delays meets one fate, however its message *)
(* ends and whatever is raised below it, and a case hands its branches     *)
(* values of their types: in every graph, in any number of tasks.          *)
THEOREM DelayedValuesSettle == Operators!Spec => []OneFate
<1>1. OperatorInv => OneFate
  <2> SUFFICES ASSUME OperatorInv PROVE OneFate
    OBVIOUS
  <2>1. ASSUME NEW id \in DOMAIN fate
        PROVE  LET waits == \E h \in delayed : h.id = id
               IN  \/ fate[id] = {} /\ waits # Operators!Sleeping(id)
                   \/ /\ ~waits /\ ~Operators!Sleeping(id)
                      /\ \/ fate[id] \in {{"delivered"}, {"reported"}}
                         \/ fate[id] = {"dropped"} /\ ended
                         \/ durable /\ fate[id] = {"delivered", "reported"}
    <3>1. (\E h \in delayed : h.id = id) => fate[id] = {} /\ ~Operators!Sleeping(id)
      BY DEF OperatorInv, Pooled, Holders, HeldRight, Held, Operators!Sleeping
    <3>2. Operators!Sleeping(id) => fate[id] = {}
      BY DEF OperatorInv, Holders, HeldRight, Operators!Sleeping
    <3>3. CASE fate[id] = {}
      BY <3>1, <3>3 DEF OperatorInv, Fated, Operators!Sleeping
    <3>4. CASE fate[id] # {}
      <4>1. ~(\E h \in delayed : h.id = id) /\ ~Operators!Sleeping(id)
        BY <3>1, <3>2, <3>4
      <4>2. QED
        BY <3>4, <4>1 DEF OperatorInv, Fated
    <3>5. QED
      BY <3>3, <3>4
  <2>2. Operators!RightBranch
    BY DEF OperatorInv, Suited, Suits, Operators!RightBranch
  <2>3. Operators!OneFate
    BY <2>1 DEF Operators!OneFate
  <2>4. QED
    BY <2>2, <2>3 DEF OneFate
<1>2. QED
  BY <1>1, OperatorInit, OperatorStep, PTL DEF Operators!Spec

-----------------------------------------------------------------------------
(* The loader: the file that is watched in place is where load() found it, *)
(* and a version load() has not read is on its way to the watching task,   *)
(* which considers nothing before the service is ready.                    *)
LoaderTypes ==
  /\ link \in Targets /\ contents \in [Targets -> Int] /\ newest \in Int
  /\ loading \in {"begin", "resolved", "watching", "read", "ready", "failed"}
  /\ watcher \in {"none", "idle", "holding", "reading", "ended"}

InPlace == ~mounted => exists = {link} /\ path = link /\ contents[link] = newest

Reporting ==
  /\ loading \in {"begin", "resolved"} => watcher = "none"
  /\ loading \in {"watching", "read"} => watcher # "reading"
  /\ watcher # "holding" => batch = {}

ReadOrReported ==
  ~mounted /\ loading = "read" /\ Loader!Watching /\ draft # newest => "modified" \in events \union batch

LoaderInv == LoaderTypes /\ InPlace /\ Reporting /\ ReadOrReported /\ Loader!WriteNoticed

(* A version is published, in place or in a new target. *)
LEMMA PublishStep ==
  ASSUME LoaderInv, NEW broken \in BOOLEAN,
         Loader!Write(broken) \/ \E t \in Targets : Loader!Replace(t, broken)
  PROVE  LoaderInv'
<1> USE DEF LoaderInv, LoaderTypes, InPlace, Reporting, ReadOrReported, Loader!WriteNoticed, Loader!Watching,
        Loader!loadVars, Loader!serviceVars, Loader!Publish, Loader!Noticed
<1>1. CASE Loader!Write(broken)
  <2>1. /\ ~mounted /\ newest' = newest + 1 /\ contents' = [contents EXCEPT ![link] = newest + 1]
        /\ Loader!Watching => "modified" \in events'
        /\ UNCHANGED <<mounted, link, exists, loading, path, draft, watcher, batch, applied>>
    BY <1>1 DEF Loader!Write
  <2>2. contents' \in [Targets -> Int] /\ contents'[link] = newest'
    BY <2>1
  <2> QED
    BY <2>1, <2>2
<1>2. CASE \E t \in Targets : Loader!Replace(t, broken)
  BY <1>2 DEF Loader!Replace
<1> QED
  BY <1>1, <1>2

(* load() resolves the path, starts the watch and reads. *)
LEMMA LoadStep ==
  ASSUME LoaderInv,
         \/ Loader!Resolve \/ Loader!StartWatching \/ Loader!ReadValues
         \/ Loader!InitService \/ Loader!Fail
  PROVE  LoaderInv'
<1> USE DEF LoaderInv, LoaderTypes, InPlace, Reporting, ReadOrReported, Loader!WriteNoticed, Loader!Watching,
        Loader!fileVars, Loader!watchVars, Loader!serviceVars
<1>1. CASE Loader!Resolve
  BY <1>1 DEF Loader!Resolve
<1>2. CASE Loader!StartWatching
  BY <1>2 DEF Loader!StartWatching
<1>3. CASE Loader!ReadValues
  BY <1>3 DEF Loader!ReadValues
<1>4. CASE Loader!InitService
  BY <1>4 DEF Loader!InitService
<1>5. CASE Loader!Fail
  BY <1>5 DEF Loader!Fail
<1> QED
  BY <1>1, <1>2, <1>3, <1>4, <1>5

(* The watching task is given changes, considers them and reads the file;  *)
(* what it reads in place is the newest version.                           *)
LEMMA WatchStep ==
  ASSUME LoaderInv, Loader!Report \/ Loader!Consider \/ Loader!Reload \/ Loader!Stop
  PROVE  LoaderInv'
<1> USE DEF LoaderInv, LoaderTypes, InPlace, Reporting, ReadOrReported, Loader!WriteNoticed, Loader!Watching,
        Loader!fileVars, Loader!loadVars, Loader!serviceVars
<1>1. CASE Loader!Report
  BY <1>1 DEF Loader!Report
<1>2. CASE Loader!Consider
  BY <1>2 DEF Loader!Consider
<1>3. CASE Loader!Reload
  <2>1. /\ watcher = "reading" /\ watcher' = "idle" /\ UNCHANGED <<events, batch>>
        /\ UNCHANGED <<mounted, link, exists, contents, newest, bad, loading, path, draft>>
        /\ path \in exists /\ contents[path] \notin bad => applied' = contents[path]
    BY <1>3 DEF Loader!Reload
  <2>2. ~mounted /\ newest \notin bad => applied' = newest
    BY <2>1
  <2>3. loading \notin {"watching", "read"}
    BY <2>1
  <2>4. LoaderTypes' /\ InPlace' /\ Reporting'
    BY <2>1
  <2> QED
    BY <2>1, <2>2, <2>3, <2>4
<1>4. CASE Loader!Stop
  BY <1>4 DEF Loader!Stop
<1> QED
  BY <1>1, <1>2, <1>3, <1>4

(* runtime/serviceapp.py: while the service runs and its task watches a    *)
(* values file that is written in place, a version that can be parsed is   *)
(* in the configuration, or the task has been told and will read it: no    *)
(* write slips between load()'s read and the watch, for any number of      *)
(* versions.                                                               *)
THEOREM WritesAreNoticed == Loader!Spec => []Loader!WriteNoticed
<1>1. Loader!Init => LoaderInv
  BY DEF Loader!Init, Loader!Versions, LoaderInv, LoaderTypes, InPlace, Reporting, ReadOrReported,
         Loader!WriteNoticed
<1>2. LoaderInv /\ [Loader!Next]_(Loader!vars) => LoaderInv'
  <2> SUFFICES ASSUME LoaderInv, [Loader!Next]_(Loader!vars) PROVE LoaderInv'
    OBVIOUS
  <2>1. CASE UNCHANGED Loader!vars
    BY <2>1 DEF Loader!vars, Loader!fileVars, Loader!loadVars, Loader!watchVars, Loader!serviceVars,
                LoaderInv, LoaderTypes, InPlace, Reporting, ReadOrReported, Loader!WriteNoticed, Loader!Watching
  <2>2. CASE Loader!Next
    BY <2>2, PublishStep, LoadStep, WatchStep DEF Loader!Next
  <2> QED
    BY <2>1, <2>2
<1>3. LoaderInv => Loader!WriteNoticed
  BY DEF LoaderInv
<1> QED
  BY <1>1, <1>2, <1>3, PTL DEF Loader!Spec
=============================================================================
