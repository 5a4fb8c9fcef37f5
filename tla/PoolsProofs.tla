----------------------------- MODULE PoolsProofs -----------------------------
(***************************************************************************)
(* Proofs about QueuedPool for any finite set of tasks, any requests, any  *)
(* priorities, both queue disciplines and any number of executors, and     *)
(* about DelayPool for any callbacks, requests, delays and deadlines.      *)
(***************************************************************************)
EXTENDS MCPools, FiniteSetTheorems, TLAPS

(* _changed.set() makes every waiting executor ready and changes no other.  *)
LEMMA WakeFacts ==
  ASSUME NEW e \in [Slots -> WorkerStates]
  PROVE  /\ Wake(e) \in [Slots -> WorkerStates]
         /\ \A s \in Slots : Wake(e)[s] # "waiting"
         /\ \A s \in Slots : e[s] # "waiting" => Wake(e)[s] = e[s]
         /\ \A s \in Slots : e[s] = "waiting" => Wake(e)[s] = "ready"
  BY DEF Wake, WorkerStates

(* _ensure_executors leaves no executor asleep and none that is busy        *)
(* changes.                                                                 *)
LEMMA EnsuredFacts ==
  ASSUME NEW e \in [Slots -> WorkerStates], NEW n \in Targets
  PROVE  /\ Ensured(e, n) \in [Slots -> WorkerStates]
         /\ \A s \in Slots : Ensured(e, n)[s] # "waiting"
         /\ \A s \in Slots : Ensured(e, n)[s] = "busy" <=> e[s] = "busy"
  BY WakeFacts DEF Ensured, Vacant, WorkerStates

(* What an executor's step does to itself, and that it puts no other to      *)
(* sleep; if its runner has just finished, none is left asleep.              *)
LEMMA BecomeFacts ==
  ASSUME TypeOK, NEW s \in Slots, NEW w \in WorkerStates, Become(s, w)
  PROVE  /\ executor' \in [Slots -> WorkerStates]
         /\ executor'[s] = w
         /\ \A u \in Slots \ {s} : executor'[u] = "busy" <=> executor[u] = "busy"
         /\ \A u \in Slots \ {s} : executor'[u] = "waiting" => executor[u] = "waiting" /\ ~Resuming(s)
  BY WakeFacts DEF TypeOK, Become, WorkerStates

(* The pool is created with its variables in their types.                   *)
LEMMA InitTypeOK == Init => TypeOK
<1>1. ASSUME Init PROVE key \in [Tasks -> Int \X Int]
  BY <1>1 DEF Init
<1>2. ASSUME Init PROVE state \in [Tasks -> TaskStates] /\ executor \in [Slots -> WorkerStates]
  BY <1>2 DEF Init, TaskStates, WorkerStates
<1>3. ASSUME Init PROVE holds \in [Slots -> SUBSET Tasks] /\ request \in [Tasks -> Requests \union {NoRequest}]
  BY <1>3 DEF Init
<1>4. ASSUME Init PROVE started \in BOOLEAN /\ stopped \in BOOLEAN /\ exited \in BOOLEAN
  BY <1>4, Zenon DEF Init
<1>5. ASSUME Init PROVE /\ configured \in Targets /\ target \in Targets
                       /\ manager \in {"none", "polling", "ended"} /\ phase \in Phases
                       /\ counter \in Nat /\ front \in Int /\ wg \in Int
  BY <1>5 DEF Init, Phases
<1>6. ASSUME Init PROVE /\ ended \subseteq Requests /\ watched \subseteq queue /\ queue \subseteq Tasks
                       /\ stale \subseteq Slots /\ running \subseteq Tasks
  BY <1>6 DEF Init
<1> QED
  BY <1>1, <1>2, <1>3, <1>4, <1>5, <1>6, Zenon DEF TypeOK

(* Every operation of the pool keeps the variables in their types.          *)
LEMMA StepTypeOK == TypeOK /\ [Next]_vars => TypeOK'
<1> SUFFICES ASSUME TypeOK, [Next]_vars PROVE TypeOK'
  OBVIOUS
<1> USE DEF poolVars, taskVars, workVars
<1>1. ASSUME NEW t \in Tasks, NEW r \in Requests \union {NoRequest}, Refuse(t, r) PROVE TypeOK'
  BY <1>1 DEF TypeOK, Refuse, TaskStates
<1>2. ASSUME NEW t \in Tasks, NEW r \in Requests \union {NoRequest}, NEW p \in Priorities, Add(t, r, p)
      PROVE TypeOK'
  <2>1. executor' \in [Slots -> WorkerStates]
    BY <1>2, WakeFacts DEF TypeOK, Add
  <2>2. <<IF Heap THEN p ELSE 0, counter>> \in Int \X Int
    BY PrioritiesAssumption DEF TypeOK
  <2>3. key' \in [Tasks -> Int \X Int]
    BY <1>2, <2>2 DEF TypeOK, Add
  <2> QED
    BY <1>2, <2>1, <2>3 DEF TypeOK, Add, TaskStates
<1>3. ASSUME NEW t \in Tasks, Promote(t) PROVE TypeOK'
  <2>1. executor' \in [Slots -> WorkerStates]
    BY <1>3, WakeFacts DEF TypeOK, Promote
  <2>2. <<Urgent, key[t][2]>> \in Int \X Int /\ <<0, front - 1>> \in Int \X Int
    BY DEF TypeOK, Urgent
  <2>3. key' \in [Tasks -> Int \X Int] /\ front' \in Int
    BY <1>3, <2>2 DEF TypeOK, Promote
  <2> QED
    BY <1>3, <2>1, <2>3 DEF TypeOK, Promote
<1>4. ASSUME NEW t \in Tasks, Finish(t) PROVE TypeOK'
  BY <1>4 DEF TypeOK, Finish, TaskStates
<1>5. ASSUME NEW t \in Tasks, Fail(t) PROVE TypeOK'
  <2>1. exited' \in BOOLEAN
    BY <1>5, Zenon DEF Fail
  <2> QED
    BY <1>5, <2>1 DEF TypeOK, Fail
<1>6. ASSUME NEW r \in Requests, EndRequest(r) PROVE TypeOK'
  BY <1>6 DEF TypeOK, EndRequest
<1>7. ASSUME NEW s \in Slots, NEW t \in Tasks, Take(s, t) PROVE TypeOK'
  <2>1. executor' \in [Slots -> WorkerStates]
    BY <1>7, BecomeFacts DEF Take, WorkerStates
  <2> QED
    BY <1>7, <2>1 DEF TypeOK, Take, TaskStates, Left, IsHead
<1>8. ASSUME NEW s \in Slots, Wait(s) PROVE TypeOK'
  <2>1. executor' \in [Slots -> WorkerStates]
    BY <1>8, BecomeFacts DEF Wait, Pause, WorkerStates
  <2> QED
    BY <1>8, <2>1 DEF TypeOK, Wait, Pause, Left
<1>9. ASSUME NEW s \in Slots, Return(s) PROVE TypeOK'
  <2>1. executor' \in [Slots -> WorkerStates]
    BY <1>9, BecomeFacts DEF Return, Pause, WorkerStates
  <2> QED
    BY <1>9, <2>1 DEF TypeOK, Return, Pause, Left
<1>10. ASSUME NEW s \in Slots, DoneCallback(s) PROVE TypeOK'
  <2> DEFINE left == IF s \in stale THEN executor ELSE [executor EXCEPT ![s] = "none"]
  <2>1. left \in [Slots -> WorkerStates]
    BY DEF TypeOK, WorkerStates
  <2>2. Ensured(left, target) \in [Slots -> WorkerStates]
    BY <2>1, EnsuredFacts DEF TypeOK
  <2> HIDE DEF left
  <2>3. executor' \in [Slots -> WorkerStates] /\ stale' \subseteq Slots
    BY <1>10, <2>1, <2>2 DEF TypeOK, DoneCallback, EnsureExecutors, left
  <2> QED
    BY <1>10, <2>3 DEF TypeOK, DoneCallback
<1>11. ASSUME NEW n \in Targets, Reconfigure(n) PROVE TypeOK'
  BY <1>11 DEF TypeOK, Reconfigure
<1>12. ASSUME Start PROVE TypeOK'
  <2>1. executor' \in [Slots -> WorkerStates] /\ stale' \subseteq Slots
    BY <1>12, EnsuredFacts DEF TypeOK, Start, EnsureExecutors
  <2>2. started' \in BOOLEAN
    BY <1>12, Zenon DEF Start
  <2> QED
    BY <1>12, <2>1, <2>2 DEF TypeOK, Start
<1>13. ASSUME Poll PROVE TypeOK'
  <2>1. executor' \in [Slots -> WorkerStates] /\ stale' \subseteq Slots
    BY <1>13, EnsuredFacts DEF TypeOK, Poll, EnsureExecutors
  <2> QED
    BY <1>13, <2>1 DEF TypeOK, Poll
<1>14. ASSUME ManagerReturns PROVE TypeOK'
  BY <1>14 DEF TypeOK, ManagerReturns
<1>15. ASSUME Stop PROVE TypeOK'
  <2>1. stopped' \in BOOLEAN
    BY <1>15, Zenon DEF Stop
  <2> QED
    BY <1>15, <2>1 DEF TypeOK, Stop, Phases
<1>16. ASSUME ShutdownBegin PROVE TypeOK'
  <2>1. executor' \in [Slots -> WorkerStates] /\ stale' \subseteq Slots
    BY <1>16, EnsuredFacts DEF TypeOK, ShutdownBegin, EnsureExecutors
  <2> QED
    BY <1>16, <2>1 DEF TypeOK, ShutdownBegin, Phases
<1>17. ASSUME ShutdownDrained PROVE TypeOK'
  BY <1>17, WakeFacts DEF TypeOK, ShutdownDrained, Phases
<1>18. ASSUME ShutdownJoined PROVE TypeOK'
  BY <1>18 DEF TypeOK, ShutdownJoined, Phases
<1>19. CASE UNCHANGED vars
  BY <1>19 DEF TypeOK, vars
<1>20. QED
  BY <1>1, <1>2, <1>3, <1>4, <1>5, <1>6, <1>7, <1>8, <1>9, <1>10, <1>11, <1>12, <1>13, <1>14,
     <1>15, <1>16, <1>17, <1>18, <1>19 DEF Next, Work, Shutdown

(* Every variable keeps its type. *)
THEOREM TypeCorrect == Spec => []TypeOK
<1>1. QED
  BY InitTypeOK, StepTypeOK, PTL DEF Spec

-----------------------------------------------------------------------------
(* Every step keeps the queue, the runners and the executors' holds in     *)
(* agreement.                                                              *)
LEMMA OwnershipStep ==
  ASSUME IInv, [Next]_vars, TypeOK'
  PROVE  (QueueIsDelayed /\ RunnersTaken /\ RunnersOwned)'
<1> DEFINE Own == QueueIsDelayed /\ RunnersTaken /\ RunnersOwned
<1> USE DEF poolVars, taskVars, workVars, QueueIsDelayed, RunnersTaken, RunnersOwned
<1>0. TypeOK /\ Own
  BY DEF IInv
<1>1. ASSUME NEW t \in Tasks, NEW r \in Requests \union {NoRequest}, Refuse(t, r) PROVE Own'
  BY <1>0, <1>1 DEF TypeOK, Refuse
<1>2. ASSUME NEW t \in Tasks, NEW r \in Requests \union {NoRequest}, NEW p \in Priorities, Add(t, r, p)
      PROVE Own'
  <2>1. \A s \in Slots : executor'[s] = "busy" <=> executor[s] = "busy"
    BY <1>0, <1>2, WakeFacts DEF TypeOK, Add
  <2> QED
    BY <1>0, <1>2, <2>1 DEF TypeOK, Add
<1>3. ASSUME NEW t \in Tasks, Promote(t) PROVE Own'
  <2>1. \A s \in Slots : executor'[s] = "busy" <=> executor[s] = "busy"
    BY <1>0, <1>3, WakeFacts DEF TypeOK, Promote
  <2> QED
    BY <1>0, <1>3, <2>1 DEF TypeOK, Promote
<1>4. ASSUME NEW t \in Tasks, Finish(t) PROVE Own'
  BY <1>0, <1>4 DEF TypeOK, Finish
<1>5. ASSUME NEW s \in Slots, NEW t \in Tasks, Take(s, t) PROVE Own'
  <2>1. /\ executor'[s] = "busy"
        /\ \A u \in Slots \ {s} : executor'[u] = "busy" <=> executor[u] = "busy"
    BY <1>0, <1>5, BecomeFacts DEF Take, WorkerStates
  <2>2. /\ holds'[s] = {t}
        /\ \A u \in Slots \ {s} : holds'[u] = holds[u]
    BY <1>0, <1>5 DEF TypeOK, Take
  <2>3. state[t] = "delayed" /\ t \notin running /\ \A u \in Slots : t \notin holds[u]
    BY <1>0, <1>5 DEF TypeOK, Take, IsHead
  <2>4. \A u \in holds[s] : state[u] # "running"
    BY <1>0, <1>5 DEF Take, Scheduled, Awake, Resuming
  <2>5. \A u \in Tasks : u \in running' <=> \E v \in Slots : u \in holds'[v]
    BY <1>0, <1>5, <2>2, <2>3 DEF TypeOK, Take, Left
  <2>6. QueueIsDelayed' /\ RunnersTaken'
    BY <1>0, <1>5, <2>3 DEF TypeOK, Take, IsHead, Left
  <2>7. \A u \in Tasks : state'[u] = "running" => u \in running'
    BY <1>0, <1>5, <2>4 DEF TypeOK, Take, Left
  <2>8. \A u, v \in Slots : u # v => holds'[u] \intersect holds'[v] = {}
    BY <1>0, <2>2, <2>3 DEF TypeOK
  <2>9. \A u \in Slots : executor'[u] = "busy" <=> holds'[u] # {}
    BY <1>0, <2>1, <2>2
  <2> QED
    BY <2>5, <2>6, <2>7, <2>8, <2>9
<1>6. ASSUME NEW s \in Slots, NEW w \in {"waiting", "done"}, Pause(s, w) PROVE Own'
  <2>1. /\ executor'[s] = w
        /\ \A u \in Slots \ {s} : executor'[u] = "busy" <=> executor[u] = "busy"
    BY <1>0, <1>6, BecomeFacts DEF Pause, WorkerStates
  <2>2. /\ holds'[s] = {}
        /\ \A u \in Slots \ {s} : holds'[u] = holds[u]
    BY <1>0, <1>6 DEF TypeOK, Pause
  <2>3. \A u \in holds[s] : state[u] # "running"
    BY <1>0, <1>6 DEF Pause, Scheduled, Awake, Resuming
  <2> QED
    BY <1>0, <1>6, <2>1, <2>2, <2>3 DEF TypeOK, Pause, Left
<1>7. ASSUME NEW s \in Slots, DoneCallback(s) PROVE Own'
  <2> DEFINE left == IF s \in stale THEN executor ELSE [executor EXCEPT ![s] = "none"]
  <2>1. /\ left \in [Slots -> WorkerStates]
        /\ \A u \in Slots : left[u] = "busy" <=> executor[u] = "busy"
    BY <1>0, <1>7 DEF TypeOK, WorkerStates, DoneCallback
  <2>2. executor' = left \/ executor' = Ensured(left, target)
    BY <1>7 DEF DoneCallback, EnsureExecutors
  <2> HIDE DEF left
  <2>3. target \in Targets
    BY <1>0 DEF TypeOK
  <2>4. \A u \in Slots : Ensured(left, target)[u] = "busy" <=> left[u] = "busy"
    BY <2>1, <2>3, EnsuredFacts
  <2>5. \A u \in Slots : executor'[u] = "busy" <=> executor[u] = "busy"
    BY <2>1, <2>2, <2>4
  <2> QED
    BY <1>0, <1>7, <2>5 DEF DoneCallback
<1>8. ASSUME Start \/ Poll \/ ShutdownBegin PROVE Own'
  <2>1. \A u \in Slots : executor'[u] = "busy" <=> executor[u] = "busy"
    BY <1>0, <1>8, EnsuredFacts DEF TypeOK, Start, Poll, ShutdownBegin, EnsureExecutors
  <2> QED
    BY <1>0, <1>8, <2>1 DEF Start, Poll, ShutdownBegin
<1>9. ASSUME ShutdownDrained PROVE Own'
  <2>1. \A u \in Slots : executor'[u] = "busy" <=> executor[u] = "busy"
    BY <1>0, <1>9, WakeFacts DEF TypeOK, ShutdownDrained
  <2> QED
    BY <1>0, <1>9, <2>1 DEF ShutdownDrained
<1>10. ASSUME \/ \E t \in Tasks : Fail(t)
              \/ \E r \in Requests : EndRequest(r)
              \/ \E n \in Targets : Reconfigure(n)
              \/ ManagerReturns \/ Stop \/ ShutdownJoined \/ UNCHANGED vars
       PROVE Own'
  BY <1>0, <1>10 DEF Fail, EndRequest, Reconfigure, ManagerReturns, Stop, ShutdownJoined, vars
<1> QED
  BY <1>1, <1>2, <1>3, <1>4, <1>5, <1>6, <1>7, <1>8, <1>9, <1>10 DEF Next, Work, Wait, Return, Shutdown

(* Every step keeps the wait group equal to the number of accepted tasks   *)
(* that have not finished.                                                 *)
LEMMA CountingStep ==
  ASSUME IInv, [Next]_vars, TypeOK'
  PROVE  WaitGroupExact'
<1> USE DEF poolVars, taskVars, workVars
<1>0. TypeOK /\ QueueIsDelayed /\ wg = Cardinality(Outstanding) /\ IsFiniteSet(Outstanding)
  BY TasksFinite, FS_Subset DEF IInv, WaitGroupExact, Outstanding
<1>1. ASSUME NEW t \in Tasks, NEW r \in Requests \union {NoRequest}, NEW p \in Priorities, Add(t, r, p)
      PROVE WaitGroupExact'
  <2>1. t \notin Outstanding /\ Outstanding' = Outstanding \union {t}
    BY <1>0, <1>1 DEF Add, Outstanding, TypeOK
  <2> QED
    BY <1>0, <1>1, <2>1, FS_AddElement DEF Add, WaitGroupExact
<1>2. ASSUME NEW t \in Tasks, Finish(t) PROVE WaitGroupExact'
  <2>1. t \in Outstanding /\ Outstanding' = Outstanding \ {t}
    BY <1>0, <1>2 DEF Finish, Outstanding, TypeOK
  <2> QED
    BY <1>0, <1>2, <2>1, FS_RemoveElement DEF Finish, WaitGroupExact
<1>3. ASSUME Outstanding' = Outstanding, wg' = wg PROVE WaitGroupExact'
  BY <1>0, <1>3 DEF WaitGroupExact
<1>4. ASSUME NEW s \in Slots, NEW t \in Tasks, Take(s, t) PROVE WaitGroupExact'
  <2>1. Outstanding' = Outstanding
    BY <1>0, <1>4 DEF Take, IsHead, Outstanding, QueueIsDelayed, TypeOK
  <2> QED
    BY <1>3, <1>4, <2>1 DEF Take
<1>5. ASSUME NEW t \in Tasks, NEW r \in Requests \union {NoRequest}, Refuse(t, r) PROVE WaitGroupExact'
  <2>1. Outstanding' = Outstanding
    BY <1>0, <1>5 DEF Refuse, Outstanding, TypeOK
  <2> QED
    BY <1>3, <1>5, <2>1 DEF Refuse
<1>6. ASSUME state' = state, wg' = wg PROVE WaitGroupExact'
  BY <1>3, <1>6 DEF Outstanding
<1> QED
  BY <1>1, <1>2, <1>4, <1>5, <1>6
  DEF Next, vars, Work, Shutdown, Promote, Fail, EndRequest, Wait, Return, Pause, DoneCallback, Reconfigure,
      Start, Poll, ManagerReturns, Stop, ShutdownBegin, ShutdownDrained, ShutdownJoined

(* Every step that can make the executors' condition true wakes them: an   *)
(* executor falls asleep only where NoLostWakeup lets it.                  *)
LEMMA WakeupStep ==
  ASSUME IInv, [Next]_vars, TypeOK'
  PROVE  NoLostWakeup'
<1> USE DEF poolVars, taskVars, workVars
<1>0. TypeOK /\ NoLostWakeup
  BY DEF IInv
<1>1. ASSUME \A s \in Slots : executor'[s] # "waiting" PROVE NoLostWakeup'
  BY <1>1 DEF NoLostWakeup
<1>2. ASSUME NEW t \in Tasks, NEW r \in Requests \union {NoRequest}, NEW p \in Priorities, Add(t, r, p)
      PROVE NoLostWakeup'
  BY <1>0, <1>1, <1>2, WakeFacts DEF TypeOK, Add
<1>3. ASSUME Start \/ Poll \/ ShutdownBegin PROVE NoLostWakeup'
  BY <1>0, <1>1, <1>3, EnsuredFacts DEF TypeOK, Start, Poll, ShutdownBegin, EnsureExecutors
<1>4. ASSUME NEW s \in Slots, NEW t \in Tasks, Take(s, t) PROVE NoLostWakeup'
  <2>1. \A u \in Slots \ {s} : executor'[u] = "waiting" => executor[u] = "waiting" /\ ~Resuming(s)
    BY <1>0, <1>4, BecomeFacts DEF Take, WorkerStates
  <2>2. executor'[s] = "busy" /\ target' = target
    BY <1>0, <1>4, BecomeFacts DEF Take, WorkerStates
  <2>3. holds[s] = {} \/ Resuming(s)
    BY <1>4 DEF IInv, RunnersOwned, Take, Scheduled, Awake
  <2>4. queue # {} /\ ~(Cardinality(Left(s)) >= target)
    BY <1>4 DEF Take, Full, IsHead
  <2>5. Cardinality(Left(s)) \in Nat
    BY <1>0, TasksFinite, FS_Subset, FS_CardinalityType DEF TypeOK, Left
  <2>6. CASE Resuming(s)
    BY <1>1, <2>1, <2>2, <2>6
  <2>7. CASE holds[s] = {}
    <3>1. Left(s) = running
      BY <2>7 DEF Left
    <3>2. \A u \in Slots : executor[u] # "waiting"
      BY <1>0, <2>4, <2>5, <3>1 DEF NoLostWakeup, TypeOK, Targets
    <3> QED
      BY <1>1, <2>1, <2>2, <3>2
  <2> QED
    BY <2>3, <2>6, <2>7
<1>5. ASSUME NEW s \in Slots, Wait(s) \/ Return(s) PROVE NoLostWakeup'
  <2>1. PICK w \in {"waiting", "done"} : Pause(s, w) /\ (w = "waiting" => Wait(s))
    BY <1>5 DEF Wait, Return
  <2>2. /\ \A u \in Slots \ {s} : executor'[u] = "waiting" => executor[u] = "waiting" /\ ~Resuming(s)
        /\ executor'[s] = w
        /\ target' = target /\ queue' = queue /\ running' = Left(s)
    BY <1>0, <2>1, BecomeFacts DEF Pause, WorkerStates
  <2>3. holds[s] = {} \/ Resuming(s)
    BY <2>1 DEF IInv, RunnersOwned, Pause, Scheduled, Awake
  <2>4. holds[s] = {} => Left(s) = running
    BY DEF Left
  <2>5. w = "waiting" => s < target /\ (queue = {} \/ Cardinality(Left(s)) >= target)
    BY <2>1 DEF Wait, Full
  <2>6. Cardinality(Left(s)) \in Nat
    BY <1>0, TasksFinite, FS_Subset, FS_CardinalityType DEF TypeOK, Left
  <2>7. \A u \in Slots : u >= target' => executor'[u] # "waiting"
    BY <1>0, <2>2, <2>5 DEF NoLostWakeup, TypeOK, Targets, Slots
  <2>8. ASSUME queue' # {}, Cardinality(running') < target', NEW u \in Slots PROVE executor'[u] # "waiting"
    <3>1. w # "waiting"
      BY <1>0, <2>2, <2>5, <2>6, <2>8 DEF TypeOK, Targets
    <3>2. Resuming(s) \/ \A v \in Slots : executor[v] # "waiting"
      BY <1>0, <2>2, <2>3, <2>4, <2>8 DEF NoLostWakeup
    <3> QED
      BY <2>2, <3>1, <3>2
  <2> QED
    BY <2>7, <2>8 DEF NoLostWakeup
<1>6. ASSUME NEW s \in Slots, DoneCallback(s) PROVE NoLostWakeup'
  <2> DEFINE left == IF s \in stale THEN executor ELSE [executor EXCEPT ![s] = "none"]
  <2>1. /\ left \in [Slots -> WorkerStates]
        /\ \A u \in Slots : left[u] = "waiting" => executor[u] = "waiting"
    BY <1>0 DEF TypeOK, WorkerStates
  <2>2. executor' = left \/ executor' = Ensured(left, target)
    BY <1>6 DEF DoneCallback, EnsureExecutors
  <2> HIDE DEF left
  <2>3. target \in Targets
    BY <1>0 DEF TypeOK
  <2>4. \A u \in Slots : Ensured(left, target)[u] # "waiting"
    BY <2>1, <2>3, EnsuredFacts
  <2>5. \A u \in Slots : executor'[u] = "waiting" => executor[u] = "waiting"
    BY <2>1, <2>2, <2>4
  <2> QED
    BY <1>0, <1>6, <2>5 DEF DoneCallback, NoLostWakeup
<1>7. ASSUME executor' = executor, running' = running, queue' = queue, target' = target PROVE NoLostWakeup'
  BY <1>0, <1>7 DEF NoLostWakeup
<1>8. ASSUME NEW t \in Tasks, Promote(t) PROVE NoLostWakeup'
  BY <1>0, <1>1, <1>8, WakeFacts DEF TypeOK, Promote
<1>9. ASSUME ShutdownDrained PROVE NoLostWakeup'
  BY <1>0, <1>1, <1>9, WakeFacts DEF TypeOK, ShutdownDrained
<1> QED
  BY <1>2, <1>3, <1>4, <1>5, <1>6, <1>7, <1>8, <1>9
  DEF Next, vars, Work, Shutdown, Refuse, Finish, Fail, EndRequest, Reconfigure, ManagerReturns, Stop, ShutdownJoined

(* Nothing is queued, running or asleep from the gather of the executors   *)
(* on, and no step undoes that.                                            *)
LEMMA ShutdownStep ==
  ASSUME IInv, [Next]_vars, TypeOK'
  PROVE  (SealedByStop /\ JoinTerminates)'
<1> USE DEF poolVars, taskVars, workVars
<1> DEFINE Sealed == SealedByStop /\ JoinTerminates
<1>0. TypeOK /\ Sealed
  BY DEF IInv
<1>1. ASSUME phase \in {"joining", "closed"}
      PROVE /\ stopped /\ queue = {}
            /\ \A t \in Tasks : state[t] \notin {"delayed", "running"}
  <2>1. wg = 0 /\ stopped
    BY <1>0, <1>1 DEF SealedByStop
  <2>2. Outstanding = {}
    BY <2>1, TasksFinite, FS_Subset, FS_EmptySet DEF IInv, WaitGroupExact, Outstanding
  <2> QED
    BY <1>0, <2>1, <2>2 DEF IInv, Outstanding, QueueIsDelayed, TypeOK
<1>2. ASSUME NEW t \in Tasks, NEW r \in Requests \union {NoRequest}, NEW p \in Priorities, Add(t, r, p)
      PROVE Sealed'
  BY <1>0, <1>1, <1>2 DEF Add, SealedByStop, JoinTerminates, TypeOK, Phases
<1>3. ASSUME NEW t \in Tasks, Promote(t) PROVE Sealed'
  <2>1. queue # {}
    BY <1>0, <1>3 DEF TypeOK, Promote
  <2> QED
    BY <1>0, <1>1, <1>3, <2>1 DEF Promote, SealedByStop, JoinTerminates
<1>4. ASSUME NEW t \in Tasks, Finish(t) PROVE Sealed'
  BY <1>0, <1>1, <1>4 DEF Finish, SealedByStop, JoinTerminates
<1>5. ASSUME NEW s \in Slots, NEW t \in Tasks, Take(s, t) PROVE Sealed'
  BY <1>0, <1>1, <1>5 DEF Take, IsHead, SealedByStop, JoinTerminates
<1>6. ASSUME NEW s \in Slots, Wait(s) PROVE Sealed'
  BY <1>0, <1>1, <1>6 DEF Wait, Pause, AllDone, SealedByStop, JoinTerminates
<1>7. ASSUME NEW s \in Slots, Return(s) PROVE Sealed'
  <2>1. /\ executor'[s] = "done"
        /\ \A u \in Slots \ {s} : executor'[u] = "waiting" => executor[u] = "waiting"
    BY <1>0, <1>7, BecomeFacts DEF Return, Pause, WorkerStates
  <2>2. ASSUME phase = "closed" PROVE FALSE
    BY <1>0, <1>7, <2>2 DEF Return, Pause, SealedByStop, Scheduled, Awake, Resuming
  <2> QED
    BY <1>0, <1>7, <2>1, <2>2 DEF Return, Pause, SealedByStop, JoinTerminates
<1>8. ASSUME NEW s \in Slots, DoneCallback(s) PROVE Sealed'
  <2>1. ASSUME ~stopped PROVE Sealed'
    BY <1>0, <1>8, <2>1 DEF DoneCallback, SealedByStop, JoinTerminates, TypeOK, Phases
  <2>2. ASSUME stopped PROVE Sealed'
    <3>1. executor' = executor \/ executor' = [executor EXCEPT ![s] = "none"]
      BY <1>8, <2>2 DEF DoneCallback
    <3> QED
      BY <1>0, <1>8, <3>1 DEF DoneCallback, SealedByStop, JoinTerminates, TypeOK
  <2> QED
    BY <2>1, <2>2
<1>9. ASSUME Start \/ Poll \/ Stop \/ ShutdownBegin PROVE Sealed'
  BY <1>0, <1>9 DEF Start, Poll, Stop, ShutdownBegin, SealedByStop, JoinTerminates, TypeOK, Phases
<1>10. ASSUME ShutdownDrained PROVE Sealed'
  BY <1>0, <1>10, WakeFacts DEF ShutdownDrained, SealedByStop, JoinTerminates, TypeOK, Phases
<1>11. ASSUME ShutdownJoined PROVE Sealed'
  BY <1>0, <1>11 DEF ShutdownJoined, SealedByStop, JoinTerminates, TypeOK
<1>12. ASSUME UNCHANGED <<stopped, phase, wg, executor>> PROVE Sealed'
  BY <1>0, <1>12 DEF SealedByStop, JoinTerminates
<1> QED
  BY <1>2, <1>3, <1>4, <1>5, <1>6, <1>7, <1>8, <1>9, <1>10, <1>11, <1>12
  DEF Next, vars, Work, Shutdown, Refuse, Fail, EndRequest, Reconfigure, ManagerReturns

-----------------------------------------------------------------------------
(* The conjunction of the type invariant, the ownership of runners, the    *)
(* exact wait group, the absence of lost wakeups and the shutdown phases   *)
(* holds in every reachable state.                                         *)
THEOREM InductiveInvariant == Spec => []IInv
<1>1. Init => IInv
  <2> SUFFICES ASSUME Init PROVE IInv
    OBVIOUS
  <2>1. TypeOK
    BY InitTypeOK
  <2>2. QueueIsDelayed /\ RunnersTaken /\ RunnersOwned
    BY DEF Init, QueueIsDelayed, RunnersTaken, RunnersOwned
  <2>3. WaitGroupExact
    <3>1. Outstanding = {}
      BY DEF Init, Outstanding
    <3> QED
      BY <3>1, FS_EmptySet DEF Init, WaitGroupExact
  <2>4. NoLostWakeup /\ JoinTerminates
    BY DEF Init, NoLostWakeup, JoinTerminates
  <2>5. SealedByStop
    <3>1. phase = "open" /\ ~stopped
      BY DEF Init
    <3> QED
      BY <3>1 DEF SealedByStop
  <2> QED
    BY <2>1, <2>2, <2>3, <2>4, <2>5 DEF IInv
<1>2. IInv /\ [Next]_vars => IInv'
  <2> SUFFICES ASSUME IInv, [Next]_vars PROVE IInv'
    OBVIOUS
  <2>1. TypeOK'
    BY StepTypeOK DEF IInv
  <2> QED
    BY <2>1, OwnershipStep, CountingStep, WakeupStep, ShutdownStep DEF IInv
<1>3. QED
  BY <1>1, <1>2, PTL DEF Spec

(* For every number of executors and tasks: no executor sleeps while a     *)
(* queued task could start.                                                *)
THEOREM WakeupsNotLost == Spec => []NoLostWakeup
<1>1. IInv => NoLostWakeup
  BY DEF IInv
<1>2. QED
  BY <1>1, InductiveInvariant, PTL

(* The wait group that stop() waits for is exact. *)
THEOREM WaitGroupCounts == Spec => []WaitGroupExact
<1>1. IInv => WaitGroupExact
  BY DEF IInv
<1>2. QED
  BY <1>1, InductiveInvariant, PTL

(* Once stop() has returned nothing is queued, running or watched and no   *)
(* executor is left.                                                       *)
THEOREM DrainedWhenStopped == Spec => []StoppedIsDrained
<1>1. IInv => StoppedIsDrained
  <2> SUFFICES ASSUME IInv, phase = "closed"
               PROVE /\ queue = {} /\ running = {} /\ watched = {}
                     /\ \A t \in Tasks : state[t] \notin {"delayed", "running"}
                     /\ \A s \in Slots : executor[s] \in {"none", "done"}
    BY DEF StoppedIsDrained
  <2>1. \A s \in Slots : executor[s] \in {"none", "done"}
    BY DEF IInv, SealedByStop
  <2>2. wg = 0
    BY DEF IInv, SealedByStop
  <2>3. Outstanding = {}
    BY <2>2, TasksFinite, FS_Subset, FS_EmptySet DEF IInv, WaitGroupExact, Outstanding
  <2>4. \A s \in Slots : holds[s] = {}
    BY <2>1 DEF IInv, RunnersOwned
  <2>5. running = {}
    BY <2>4 DEF IInv, RunnersOwned, TypeOK
  <2>6. queue = {} /\ watched = {}
    BY <2>3 DEF IInv, QueueIsDelayed, TypeOK, Outstanding
  <2> QED
    BY <2>1, <2>3, <2>5, <2>6 DEF Outstanding
<1>2. QED
  BY <1>1, InductiveInvariant, PTL

(* A step that moves one task moves its job, and one that leaves the       *)
(* states alone leaves every job alone.                                    *)
LEMMA JobMoves ==
  ASSUME TypeOK, NEW t \in Tasks, NEW x \in TaskStates, state' = [state EXCEPT ![t] = x]
  PROVE  Job' = [Job EXCEPT ![t] = CASE x = "new" -> "new"
                                     [] x \in {"cancelled", "stopped"} -> "refused"
                                     [] x = "delayed" -> "accepted"
                                     [] x = "running" -> "running"
                                     [] x = "finished" -> "done"]
  BY DEF TypeOK, TaskStates, Job

(* An executor that takes a task leaves at most MaxTarget callbacks running. *)
LEMMA RoomToRun ==
  ASSUME IInv, NEW s \in Slots, NEW t \in Tasks, Take(s, t)
  PROVE  Cardinality({u \in Tasks : Job[u] = "running"} \union {t}) <= MaxTarget
<1> DEFINE R == {u \in Tasks : Job[u] = "running"}
<1>0. TypeOK /\ RunnersOwned /\ target \in 1 .. MaxTarget
  BY DEF IInv, TypeOK, Targets
<1>1. \A u \in R : state[u] = "running"
  BY <1>0 DEF TypeOK, TaskStates, Job
<1>2. \A u \in holds[s] : state[u] # "running"
  BY <1>0 DEF RunnersOwned, Take, Scheduled, Awake, Resuming
<1>3. R \subseteq Left(s)
  BY <1>0, <1>1, <1>2 DEF Left, RunnersOwned
<1>4. IsFiniteSet(Left(s))
  BY <1>0, TasksFinite, FS_Subset DEF TypeOK, Left
<1> HIDE DEF R
<1>5. Cardinality(R) \in Nat /\ Cardinality(Left(s)) \in Nat /\ Cardinality(R) <= Cardinality(Left(s))
  BY <1>3, <1>4, FS_Subset, FS_CardinalityType
<1>6. ~(Cardinality(Left(s)) >= target)
  BY DEF Take, Full
<1>7. Cardinality(R) < MaxTarget
  BY <1>0, <1>5, <1>6, MaxTargetAssumption
<1>8. IsFiniteSet(R)
  BY <1>3, <1>4, FS_Subset
<1>9. Cardinality(R \union {t}) <= Cardinality(R) + 1
  <2>1. Cardinality(R \union {t}) = IF t \in R THEN Cardinality(R) ELSE Cardinality(R) + 1
    BY <1>8, FS_AddElement
  <2> QED
    BY <1>5, <2>1
<1>10. Cardinality(R \union {t}) \in Nat
  BY <1>8, FS_AddElement, FS_CardinalityType
<1> QED
  BY <1>5, <1>7, <1>9, <1>10, MaxTargetAssumption DEF R

(* The instance of TaskPool counts with the same Cardinality.              *)
LEMMA SameCardinality == \A S : Abstract!Cardinality(S) = Cardinality(S)
  BY Zenon DEF Abstract!Cardinality, Cardinality, Abstract!IsFiniteSet, IsFiniteSet

(* The pool implements the abstract specification: every accepted task is  *)
(* run exactly once and never after stop() has returned.                   *)
THEOREM Refinement == Spec => ImplementsTaskPool
<1> USE DEF poolVars, taskVars, workVars
<1>1. Init => Abstract!Init
  BY DEF Init, Abstract!Init, Job, Stage
<1>2. IInv /\ [Next]_vars => [Abstract!Next]_(Abstract!vars)
  <2> SUFFICES ASSUME IInv, [Next]_vars PROVE [Abstract!Next]_(Abstract!vars)
    OBVIOUS
  <2>0. TypeOK
    BY DEF IInv
  <2>1. ASSUME NEW t \in Tasks, NEW r \in Requests \union {NoRequest}, Refuse(t, r)
        PROVE Abstract!Refuse(t)
    <3>1. Job[t] = "new"
      BY <2>0, <2>1 DEF Job, Refuse
    <3>2. Job' = [Job EXCEPT ![t] = "refused"]
      BY <2>0, <2>1, JobMoves DEF Refuse, TaskStates
    <3> QED
      BY <2>1, <3>1, <3>2 DEF Refuse, Abstract!Refuse, Abstract!Move, Stage
  <2>2. ASSUME NEW t \in Tasks, NEW r \in Requests \union {NoRequest}, NEW p \in Priorities, Add(t, r, p)
        PROVE Abstract!Accept(t)
    <3>1. Job[t] = "new"
      BY <2>0, <2>2 DEF Job, Add
    <3>2. Job' = [Job EXCEPT ![t] = "accepted"]
      BY <2>0, <2>2, JobMoves DEF Add, TaskStates
    <3>3. phase = "open"
      BY <2>2 DEF IInv, SealedByStop, Add
    <3> QED
      BY <2>2, <3>1, <3>2, <3>3 DEF Add, Abstract!Accept, Abstract!Move, Stage
  <2>3. ASSUME NEW s \in Slots, NEW t \in Tasks, Take(s, t) PROVE Abstract!Run({t})
    <3>1. Job[t] = "accepted"
      BY <2>0, <2>3 DEF IInv, QueueIsDelayed, Job, Take, IsHead
    <3>2. Job' = [Job EXCEPT ![t] = "running"]
      BY <2>0, <2>3, JobMoves DEF Take, TaskStates
    <3>3. Job' = [u \in Tasks |-> IF u \in {t} THEN "running" ELSE Job[u]]
      BY <3>2 DEF Job
    <3>4. Abstract!Cardinality(Abstract!Running \union {t}) <= MaxTarget
      BY <2>3, RoomToRun, SameCardinality DEF Abstract!Running
    <3>5. Stage' = Stage
      BY <2>3 DEF Take, Stage
    <3> QED
      BY <3>1, <3>3, <3>4, <3>5 DEF Abstract!Run
  <2>4. ASSUME NEW t \in Tasks, Finish(t) PROVE Abstract!Finish(t)
    <3>1. Job[t] = "running"
      BY <2>0, <2>4 DEF Job, Finish
    <3>2. Job' = [Job EXCEPT ![t] = "done"]
      BY <2>0, <2>4, JobMoves DEF Finish, TaskStates
    <3> QED
      BY <2>4, <3>1, <3>2 DEF Finish, Abstract!Finish, Abstract!Move, Stage
  <2>5. ASSUME Stop PROVE Abstract!Seal
    BY <2>5 DEF Stop, Abstract!Seal, Job, Stage
  <2>6. ASSUME ShutdownJoined PROVE Abstract!Close
    <3>1. wg = 0
      BY <2>6 DEF ShutdownJoined, IInv, SealedByStop
    <3>2. Outstanding = {}
      BY <3>1, TasksFinite, FS_Subset, FS_EmptySet DEF IInv, WaitGroupExact, Outstanding
    <3>3. \A t \in Tasks : Job[t] \notin {"accepted", "running"}
      BY <2>0, <3>2 DEF Outstanding, Job, TypeOK, TaskStates
    <3>4. Stage = "sealed" /\ Stage' = "closed"
      BY <2>6 DEF ShutdownJoined, Stage
    <3>5. Job' = Job
      BY <2>6 DEF ShutdownJoined, Job
    <3> QED
      BY <3>3, <3>4, <3>5 DEF Abstract!Close
  <2>7. ASSUME \/ \E t \in Tasks : Promote(t) \/ Fail(t)
               \/ \E r \in Requests : EndRequest(r)
               \/ \E s \in Slots : Wait(s) \/ Return(s) \/ DoneCallback(s)
               \/ \E n \in Targets : Reconfigure(n)
               \/ Start \/ Poll \/ ManagerReturns \/ ShutdownBegin \/ ShutdownDrained \/ UNCHANGED vars
        PROVE UNCHANGED Abstract!vars
    <3>1. state' = state
      BY <2>7 DEF Promote, Fail, EndRequest, Wait, Return, Pause, DoneCallback, Reconfigure, Start, Poll,
                  ManagerReturns, ShutdownBegin, ShutdownDrained, vars
    <3>2. \/ phase' = phase
          \/ phase = "sealed" /\ phase' = "draining"
          \/ phase = "draining" /\ phase' = "joining"
      BY <2>7 DEF Promote, Fail, EndRequest, Wait, Return, Pause, DoneCallback, Reconfigure, Start, Poll,
                  ManagerReturns, ShutdownBegin, ShutdownDrained, vars
    <3>3. Job' = Job
      BY <3>1 DEF Job
    <3>4. Stage' = Stage
      BY <3>2 DEF Stage
    <3> QED
      BY <3>3, <3>4 DEF Abstract!vars
  <2>8. QED
    BY <2>1, <2>2, <2>3, <2>4, <2>5, <2>6, <2>7 DEF Next, Work, Shutdown, Abstract!Next
<1>3. QED
  BY <1>1, <1>2, InductiveInvariant, PTL DEF Spec, ImplementsTaskPool, Abstract!Spec

-----------------------------------------------------------------------------
(* Where a queued task stands: no two share a place, every place lies      *)
(* between the front and the counter, and the expedited tasks come first.  *)
Turns ==
  /\ front <= counter
  /\ \A t \in queue : front <= key[t][2] /\ key[t][2] < counter
  /\ \A t, u \in queue : key[t][2] = key[u][2] => t = u
  /\ \A t \in queue : key[t][1] \in IF ~Heap THEN {0} ELSE IF Expedited(t) THEN {Urgent} ELSE Nat
  /\ \A t, u \in queue : Expedited(t) /\ ~Expedited(u) => Before(key[t], key[u])

(* A task is queued behind all others of its priority, and so is not       *)
(* before one that has been expedited.                                     *)
LEMMA AddTurns ==
  ASSUME IInv, Turns, NEW t \in Tasks, NEW r \in Requests \union {NoRequest}, NEW p \in Priorities, Add(t, r, p)
  PROVE  Turns'
<1>1. t \notin queue /\ queue' = queue \union {t} /\ queue \subseteq Tasks
  BY DEF IInv, TypeOK, QueueIsDelayed, Add
<1>2. /\ key' = [key EXCEPT ![t] = <<IF Heap THEN p ELSE 0, counter>>]
      /\ key \in [Tasks -> Int \X Int] /\ counter' = counter + 1 /\ front' = front
      /\ counter \in Nat /\ front \in Int /\ p \in Nat
  BY PrioritiesAssumption DEF IInv, TypeOK, Add
<1>3. key'[t] = <<IF Heap THEN p ELSE 0, counter>>
  BY <1>2
<1>4. ASSUME NEW u \in queue PROVE key'[u] = key[u] /\ key[u][1] \in Int /\ key[u][2] \in Int
  BY <1>1, <1>2
<1>5. ~Expedited(t)'
  BY DEF IInv, TypeOK, Add, Expedited
<1>6. ASSUME NEW u \in queue PROVE Expedited(u)' <=> Expedited(u)
  BY <1>1 DEF IInv, TypeOK, Add, Expedited
<1>7. \A u \in queue' : front' <= key'[u][2] /\ key'[u][2] < counter'
  BY <1>1, <1>2, <1>3, <1>4 DEF Turns
<1>8. \A u, w \in queue' : key'[u][2] = key'[w][2] => u = w
  BY <1>1, <1>2, <1>3, <1>4 DEF Turns
<1>9. \A u \in queue' : key'[u][1] \in IF ~Heap THEN {0} ELSE IF Expedited(u)' THEN {Urgent} ELSE Nat
  <2> SUFFICES ASSUME NEW u \in queue'
               PROVE  key'[u][1] \in IF ~Heap THEN {0} ELSE IF Expedited(u)' THEN {Urgent} ELSE Nat
    OBVIOUS
  <2>1. CASE u = t
    BY <1>2, <1>3, <1>5, <2>1
  <2>2. CASE u \in queue
    BY <1>4, <1>6, <2>2 DEF Turns
  <2> QED BY <1>1, <2>1, <2>2
<1>10. ASSUME NEW u \in queue', NEW w \in queue', Expedited(u)', ~Expedited(w)' PROVE Before(key'[u], key'[w])
  <2>1. u \in queue /\ Expedited(u)
    BY <1>1, <1>5, <1>6, <1>10
  <2>2. CASE w \in queue
    BY <1>4, <1>6, <1>10, <2>1, <2>2 DEF Turns
  <2>3. CASE w = t
    <3>1. key[u][1] \in (IF Heap THEN {Urgent} ELSE {0}) /\ key[u][2] < counter
      BY <2>1 DEF Turns
    <3> QED BY <1>2, <1>3, <1>4, <2>1, <2>3, <3>1 DEF Before, Urgent
  <2> QED BY <1>1, <2>2, <2>3
<1>11. front' <= counter'
  BY <1>2 DEF Turns
<1> QED BY <1>7, <1>8, <1>9, <1>10, <1>11 DEF Turns

(* A promoted task is before every task that was not: in the heap by its   *)
(* priority, in the dictionary because it is at the front already or is    *)
(* put there.                                                              *)
LEMMA PromoteTurns ==
  ASSUME IInv, Turns, NEW t \in Tasks, Promote(t)
  PROVE  Turns'
<1>1. t \in queue /\ queue' = queue /\ queue \subseteq Tasks /\ counter' = counter
  BY DEF IInv, TypeOK, Promote
<1>2. key \in [Tasks -> Int \X Int] /\ counter \in Nat /\ front \in Int
  BY DEF IInv, TypeOK
<1>3. Expedited(t)'
  BY <1>1, RequestsAssumption DEF IInv, TypeOK, Promote, Expedited
<1>4. ASSUME NEW u \in queue \ {t} PROVE (Expedited(u)' <=> Expedited(u)) /\ key'[u] = key[u]
  BY <1>1, <1>2 DEF Promote, Expedited
<1>5. \A u \in queue : key[u][1] \in Int /\ key[u][2] \in Int
  BY <1>1, <1>2
<1>6. CASE Heap
  <2>1. key'[t] = <<Urgent, key[t][2]>> /\ front' = front
    BY <1>1, <1>2, <1>6 DEF Promote
  <2>2. ASSUME NEW u \in queue PROVE key'[u][2] = key[u][2]
    BY <1>4, <2>1
  <2>3. /\ \A u \in queue' : front' <= key'[u][2] /\ key'[u][2] < counter'
        /\ \A u, w \in queue' : key'[u][2] = key'[w][2] => u = w
    BY <1>1, <2>1, <2>2 DEF Turns
  <2>4. \A u \in queue' : key'[u][1] \in IF Expedited(u)' THEN {Urgent} ELSE Nat
    BY <1>1, <1>3, <1>4, <1>6, <2>1 DEF Turns
  <2>5. \A u, w \in queue' : Expedited(u)' /\ ~Expedited(w)' => Before(key'[u], key'[w])
    BY <2>4 DEF Before, Urgent
  <2> QED BY <1>1, <1>6, <2>1, <2>3, <2>4, <2>5 DEF Turns
<1>7. CASE ~Heap /\ IsHead(t)
  <2>1. key' = key /\ front' = front
    BY <1>7 DEF Promote
  <2>2. \A u \in queue : key[u][1] = 0
    BY <1>7 DEF Turns
  <2>3. \A u \in queue : ~Before(key[u], key[t])
    BY <1>7 DEF IsHead, Ahead
  <2>4. \A u \in queue \ {t} : Before(key[t], key[u])
    BY <1>1, <1>5, <2>2, <2>3 DEF Turns, Before
  <2>5. \A u, w \in queue' : Expedited(u)' /\ ~Expedited(w)' => Before(key'[u], key'[w])
    BY <1>1, <1>3, <1>4, <2>1, <2>4 DEF Turns
  <2> QED BY <1>1, <1>7, <2>1, <2>2, <2>5 DEF Turns
<1>8. CASE ~Heap /\ ~IsHead(t)
  <2>1. key'[t] = <<0, front - 1>> /\ front' = front - 1
    BY <1>1, <1>2, <1>8 DEF Promote
  <2>2. \A u \in queue \ {t} : key'[u][1] = 0 /\ front <= key'[u][2] /\ key'[u][2] < counter
    BY <1>4, <1>8 DEF Turns
  <2>3. \A u \in queue' : front' <= key'[u][2] /\ key'[u][2] < counter'
    BY <1>1, <1>2, <1>4, <1>5, <2>1, <2>2 DEF Turns
  <2>4. \A u, w \in queue' : key'[u][2] = key'[w][2] => u = w
    BY <1>1, <1>2, <1>4, <1>5, <2>1, <2>2 DEF Turns
  <2>5. \A u \in queue' : key'[u][1] = 0
    BY <1>1, <2>1, <2>2
  <2>6. \A u \in queue \ {t} : Before(key'[t], key'[u])
    BY <1>2, <1>4, <1>5, <2>1, <2>2 DEF Before
  <2>7. \A u, w \in queue' : Expedited(u)' /\ ~Expedited(w)' => Before(key'[u], key'[w])
    BY <1>1, <1>3, <1>4, <2>6 DEF Turns
  <2>8. front' <= counter'
    BY <1>1, <1>2, <2>1 DEF Turns
  <2> QED BY <1>8, <2>3, <2>4, <2>5, <2>7, <2>8 DEF Turns
<1> QED BY <1>6, <1>7, <1>8

(* Whatever else the pool does leaves the queued tasks in their places.    *)
LEMMA TurnsStep == IInv /\ Turns /\ [Next]_vars => Turns'
<1> SUFFICES ASSUME IInv, Turns, [Next]_vars PROVE Turns' OBVIOUS
<1>1. ASSUME NEW s \in Slots, NEW t \in Tasks, Take(s, t) PROVE Turns'
  <2>1. queue' = queue \ {t} /\ watched' = watched \ {t} /\ UNCHANGED <<request, key, counter, front>>
    BY <1>1 DEF Take
  <2>2. \A u \in queue' : Expedited(u)' <=> Expedited(u)
    BY <2>1 DEF Expedited
  <2> QED BY <2>1, <2>2 DEF Turns
<1>2. ASSUME UNCHANGED <<request, watched, queue, key, counter, front>> PROVE Turns'
  BY <1>2 DEF Turns, Expedited
<1> QED
  BY <1>1, <1>2, AddTurns, PromoteTurns
  DEF Next, vars, poolVars, taskVars, Work, Shutdown, Refuse, Finish, Fail, EndRequest, Wait, Return, Pause,
      DoneCallback, Reconfigure, Start, Poll, ManagerReturns, Stop, ShutdownBegin, ShutdownDrained, ShutdownJoined

(* runtime/pool/_queuedpool.py (_add, _promote, _executor): tasks of ended *)
(* requests start before all others, and the others by priority and in the *)
(* order in which they were accepted, for any tasks, priorities and        *)
(* requests and however often the queue is reordered.                      *)
THEOREM TasksStartInTurn == Spec => StartsInTurn
<1>1. Init => Turns
  BY DEF Init, Turns
<1>2. IInv /\ Turns /\ [Next]_vars =>
        [\A t \in queue : state'[t] = "running" =>
           \A u \in queue \ {t} :
             /\ Expedited(u) => Expedited(t)
             /\ ~Expedited(t) => /\ key[t][1] <= key[u][1]
                                 /\ key[t][1] = key[u][1] => key[t][2] < key[u][2]]_vars
  <2> SUFFICES ASSUME IInv, Turns, Next, NEW t \in queue, state'[t] = "running", NEW u \in queue \ {t}
               PROVE  /\ Expedited(u) => Expedited(t)
                      /\ ~Expedited(t) => /\ key[t][1] <= key[u][1]
                                          /\ key[t][1] = key[u][1] => key[t][2] < key[u][2]
    OBVIOUS
  <2>1. t \in Tasks /\ state[t] = "delayed" /\ state \in [Tasks -> TaskStates]
    BY DEF IInv, TypeOK, QueueIsDelayed
  <2>2. \E s \in Slots : Take(s, t)
    BY <2>1 DEF Next, vars, poolVars, taskVars, workVars, Work, Shutdown, Refuse, Add, Promote,
         Take, Finish, Fail,
       EndRequest, Wait, Return, Pause, DoneCallback, Reconfigure, Start, Poll, ManagerReturns, Stop, ShutdownBegin,
       ShutdownDrained, ShutdownJoined
  <2>3. ~Before(key[u], key[t])
    BY <2>2 DEF Take, IsHead, Ahead
  <2>4. /\ key[t][1] \in Int /\ key[t][2] \in Int
        /\ key[u][1] \in Int /\ key[u][2] \in Int
    BY DEF IInv, TypeOK
  <2>5. key[t][2] # key[u][2]
    BY DEF Turns
  <2> QED BY <2>3, <2>4, <2>5 DEF Turns, Before
<1> QED BY <1>1, <1>2, TurnsStep, InductiveInvariant, PTL DEF Spec, StartsInTurn

-----------------------------------------------------------------------------
(* The delay pool.  Its clock is bounded in the model only; the proofs hold *)
(* for every bound.                                                        *)

CallbackStates == {"new", "refused", "delayed", "running", "finished"}

(* The delay pool keeps its variables in their types.                      *)
DelayTypes ==
  /\ callback \in [Callbacks -> CallbackStates]
  /\ callbackRequest \in [Callbacks -> Requests \union {NoRequest}]
  /\ now \in Nat
  /\ delayed \in [Callbacks -> Nat] /\ when \in [Callbacks -> Nat]
  /\ delayQueue \subseteq Callbacks /\ delayWatched \subseteq delayQueue
  /\ delayWg \in Int

(* A callback is in the queue as long as it is delayed, among the runners  *)
(* as long as it runs, and counted by the wait group in between.           *)
DelayHolds ==
  /\ \A t \in Callbacks : t \in delayQueue <=> callback[t] = "delayed"
  /\ \A t \in Callbacks : callback[t] = "running" => t \in runners

(* What the wait group counts: accepted callbacks that have not finished.  *)
Unsettled == {t \in Callbacks : callback[t] \in {"delayed", "running"}}

(* The deadline of a request only brings its callback forward; the timer   *)
(* is that of the first one in the queue.                                  *)
DelayTimes ==
  /\ \A t \in delayQueue : when[t] <= delayed[t]
  /\ timer = Delay!Earliest(delayQueue, when) /\ armed = timer

(* The inductive invariant of the delay pool.                              *)
DelayInv == DelayTypes /\ DelayHolds /\ delayWg = Cardinality(Unsettled) /\ DelayTimes

(* The lesser of two times, at which a callback is due that has a request  *)
(* with a deadline.                                                        *)
LEMMA LesserOf ==
  ASSUME NEW a \in Nat, NEW b \in Nat
  PROVE  Delay!Min({a, b}) \in Nat /\ Delay!Min({a, b}) <= a /\ Delay!Min({a, b}) <= b
<1>1. \E x \in {a, b} : \A y \in {a, b} : x <= y
  OBVIOUS
<1> QED BY <1>1 DEF Delay!Min

(* _arm sets the timer to the first time in the queue, or cancels it.      *)
LEMMA ArmFacts ==
  ASSUME NEW Q, NEW w, NEW at, Delay!Arm(Q, w, at, at)
  PROVE  timer' = Delay!Earliest(Q, w) /\ armed' = timer'
  BY DEF Delay!Arm

(* The callbacks in S, all of them delayed, begin to run.                  *)
LEMMA DispatchStep ==
  ASSUME DelayInv, NEW S \in SUBSET delayQueue, Delay!Dispatch(S), Delay!Arm(delayQueue \ S, when, timer, timer),
         UNCHANGED <<now, cancelled, callbackRequest, delayed, when, delayWg, delayPhase, delayExited>>
  PROVE  DelayInv'
<1>1. /\ callback' = [t \in Callbacks |-> IF t \in S THEN "running" ELSE callback[t]]
      /\ delayQueue' = delayQueue \ S /\ delayWatched' = delayWatched \ S
      /\ runners' = runners \union S
  BY DEF Delay!Dispatch
<1>2. DelayTypes'
  BY <1>1 DEF DelayInv, DelayTypes, CallbackStates
<1>3. DelayHolds'
  BY <1>1 DEF DelayInv, DelayTypes, DelayHolds
<1>4. Unsettled' = Unsettled
  BY <1>1 DEF DelayInv, DelayTypes, DelayHolds, Unsettled
<1>5. DelayTimes'
  BY <1>1, ArmFacts DEF DelayInv, DelayTimes
<1> QED BY <1>2, <1>3, <1>4, <1>5 DEF DelayInv

(* An added callback is counted, queued at its time and armed for.         *)
LEMMA DelayAddStep ==
  ASSUME DelayInv, NEW t \in Callbacks, NEW r \in Requests \union {NoRequest},
         NEW d \in Delay!Times \union {Delay!Never}, NEW delay \in 0 .. MaxTime - now, Delay!Add(t, r, delay, d)
  PROVE  DelayInv'
<1>1. d \in Nat /\ now + delay \in Nat
  BY CallbacksAssumption DEF Delay!Times, Delay!Never, DelayInv, DelayTypes
<1>2. /\ callback' = [callback EXCEPT ![t] = "delayed"]
      /\ callbackRequest' = [callbackRequest EXCEPT ![t] = r]
      /\ delayed' = [delayed EXCEPT ![t] = now + delay]
      /\ when' = [when EXCEPT ![t] = Delay!Min({now + delay, d})]
      /\ delayQueue' = delayQueue \union {t}
      /\ delayWatched' \subseteq delayQueue'
      /\ delayWg' = delayWg + 1 /\ UNCHANGED <<now, runners>>
  BY DEF Delay!Add, DelayInv, DelayTypes
<1>3. Delay!Min({now + delay, d}) \in Nat /\ Delay!Min({now + delay, d}) <= now + delay
  BY <1>1, LesserOf
<1>4. DelayTypes'
  BY <1>1, <1>2, <1>3 DEF DelayInv, DelayTypes, CallbackStates
<1>5. callback[t] = "new" /\ t \notin delayQueue
  BY DEF Delay!Add, DelayInv, DelayHolds
<1>6. DelayHolds'
  BY <1>2, <1>5 DEF DelayInv, DelayTypes, DelayHolds
<1>7. delayWg' = Cardinality(Unsettled')
  <2>1. Unsettled' = Unsettled \union {t} /\ t \notin Unsettled
    BY <1>2, <1>5 DEF DelayInv, DelayTypes, Unsettled
  <2>2. IsFiniteSet(Unsettled)
    BY CallbacksAssumption, FS_Subset DEF Unsettled
  <2> QED BY <1>2, <2>1, <2>2, FS_AddElement DEF DelayInv
<1>8. \A u \in delayQueue' : when'[u] <= delayed'[u]
  BY <1>2, <1>3, <1>5 DEF DelayInv, DelayTypes, DelayTimes
<1>9. timer' = Delay!Earliest(delayQueue', when') /\ armed' = timer'
  BY <1>2, ArmFacts DEF Delay!Add, DelayInv, DelayTimes
<1> QED BY <1>4, <1>6, <1>7, <1>8, <1>9 DEF DelayInv, DelayTimes

(* Every operation of the delay pool, and the passing of time, keeps its    *)
(* invariant.                                                              *)
LEMMA DelayInvariant == Delay!Spec => []DelayInv
<1>1. Delay!Init => DelayInv
  <2> SUFFICES ASSUME Delay!Init PROVE DelayInv OBVIOUS
  <2>1. Unsettled = {}
    BY DEF Delay!Init, Unsettled
  <2>2. delayWg = Cardinality(Unsettled)
    BY <2>1, FS_EmptySet DEF Delay!Init
  <2>3. Delay!Earliest({}, when) = Delay!Never
    <3>1. {Delay!Never} \union {when[t] : t \in {}} = {Delay!Never}
      OBVIOUS
    <3>2. Delay!Never <= Delay!Never
      BY CallbacksAssumption DEF Delay!Never
    <3>3. Delay!Min({Delay!Never}) = Delay!Never
      BY <3>2 DEF Delay!Min
    <3> QED BY <3>1, <3>3 DEF Delay!Earliest
  <2>4. DelayTypes
    BY DEF Delay!Init, DelayTypes, CallbackStates
  <2>5. DelayHolds /\ DelayTimes
    BY <2>3 DEF Delay!Init, DelayHolds, DelayTimes
  <2> QED BY <2>2, <2>4, <2>5 DEF DelayInv
<1>2. DelayInv /\ [Delay!Next]_(Delay!vars) => DelayInv'
  <2> SUFFICES ASSUME DelayInv, [Delay!Next]_(Delay!vars) PROVE DelayInv' OBVIOUS
  <2>1. ASSUME NEW t \in Callbacks, Delay!Cancel(t) PROVE DelayInv'
    <3>1. {t} \in SUBSET delayQueue /\ armed = timer
      BY <2>1 DEF Delay!Cancel, DelayInv, DelayTypes, DelayTimes
    <3> QED BY <2>1, <3>1, DispatchStep DEF Delay!Cancel
  <2>2. ASSUME Delay!Ready PROVE DelayInv'
    <3>1. Delay!Due \in SUBSET delayQueue
      BY DEF Delay!Due
    <3>2. timer' = Delay!Earliest(delayQueue \ Delay!Due, when) /\ armed' = timer'
      BY <2>2, ArmFacts DEF Delay!Ready
    <3>3. Delay!Arm(delayQueue \ Delay!Due, when, timer, timer)
      BY <3>2 DEF Delay!Arm
    <3> QED BY <2>2, <3>1, <3>3, DispatchStep DEF Delay!Ready
  <2>3. ASSUME NEW t \in Callbacks, Delay!Finish(t) PROVE DelayInv'
    <3>1. Unsettled' = Unsettled \ {t} /\ t \in Unsettled
      BY <2>3 DEF Delay!Finish, DelayInv, DelayTypes, Unsettled
    <3>2. IsFiniteSet(Unsettled)
      BY CallbacksAssumption, FS_Subset DEF Unsettled
    <3>3. delayWg' = Cardinality(Unsettled')
      BY <2>3, <3>1, <3>2, FS_RemoveElement DEF Delay!Finish, DelayInv
    <3>4. DelayTypes' /\ DelayHolds' /\ DelayTimes'
      BY <2>3 DEF Delay!Finish, DelayInv, DelayTypes, DelayHolds, DelayTimes, CallbackStates
    <3> QED BY <3>3, <3>4 DEF DelayInv
  <2>4. ASSUME NEW t \in Callbacks, NEW r \in Requests \union {NoRequest},
               NEW d \in Delay!Times \union {Delay!Never}, Delay!Refuse(t, r, d)
        PROVE DelayInv'
    <3>1. Unsettled' = Unsettled
      BY <2>4 DEF Delay!Refuse, DelayInv, DelayTypes, Unsettled
    <3> QED BY <2>4, <3>1 DEF Delay!Refuse, DelayInv, DelayTypes, DelayHolds, DelayTimes, CallbackStates
  <2>5. ASSUME NEW t \in Callbacks, Delay!Discard(t) PROVE DelayInv'
    BY <2>5 DEF Delay!Discard, DelayInv, DelayTypes, DelayHolds, DelayTimes, Unsettled
  <2>6. ASSUME Delay!Tick PROVE DelayInv'
    BY <2>6 DEF Delay!Tick, DelayInv, DelayTypes, DelayHolds, DelayTimes, Unsettled
  <2>7. ASSUME UNCHANGED <<now, callback, callbackRequest, delayed, when, delayQueue, delayWatched, armed, timer,
                           runners, delayWg>>
        PROVE DelayInv'
    BY <2>7 DEF DelayInv, DelayTypes, DelayHolds, DelayTimes, Unsettled
  <2> QED
    BY <2>1, <2>2, <2>3, <2>4, <2>5, <2>6, <2>7, DelayAddStep
       DEF Delay!Next, Delay!vars, Delay!Fail, Delay!CancelRequest, Delay!Stop, Delay!Shutdown
<1> QED BY <1>1, <1>2, PTL DEF Delay!Spec

(* runtime/pool/delaypool.py (_arm, _ready): whatever is added, cancelled  *)
(* or run in between, and however early the loop calls _ready, the timer   *)
(* stands at the time of the first callback in the queue, or at none.      *)
THEOREM TimerIsSet == Delay!Spec => [](timer = Delay!Earliest(delayQueue, when))
<1>1. DelayInv => timer = Delay!Earliest(delayQueue, when)
  BY DEF DelayInv, DelayTimes
<1> QED BY <1>1, DelayInvariant, PTL

(* runtime/pool/delaypool.py: no callback starts before its delay is over, *)
(* unless its request was cancelled or has reached its deadline.           *)
THEOREM NothingEarly == Delay!Spec => Delay!NotEarly
<1>1. ASSUME DelayInv, Delay!Next, NEW t \in delayQueue, callback'[t] = "running"
      PROVE  now >= delayed[t] \/ callbackRequest[t] \in cancelled \/ (when[t] < delayed[t] /\ now >= when[t])
  <2>0. /\ t \in Callbacks /\ callback[t] = "delayed" /\ callback \in [Callbacks -> CallbackStates]
        /\ now \in Nat /\ when[t] \in Nat /\ delayed[t] \in Nat /\ when[t] <= delayed[t]
    BY <1>1 DEF DelayInv, DelayTypes, DelayHolds, DelayTimes
  <2>1. CASE Delay!Ready
    <3>1. t \in Delay!Due
      BY <1>1, <2>0, <2>1 DEF Delay!Ready, Delay!Dispatch
    <3> QED BY <2>0, <3>1 DEF Delay!Due
  <2>2. ASSUME NEW u \in Callbacks, Delay!Cancel(u) PROVE callbackRequest[t] \in cancelled
    BY <1>1, <2>0, <2>2 DEF Delay!Cancel, Delay!Dispatch
  <2>3. ASSUME NEW u \in Callbacks, \/ \E r \in Requests \union {NoRequest}, d \in Delay!Times \union {Delay!Never} :
                                         \/ Delay!Refuse(u, r, d)
                                         \/ \E delay \in 0 .. MaxTime - now : Delay!Add(u, r, delay, d)
                                    \/ Delay!Finish(u)
        PROVE FALSE
    BY <1>1, <2>0, <2>3 DEF Delay!Refuse, Delay!Add, Delay!Finish
  <2>4. ASSUME UNCHANGED callback PROVE FALSE
    BY <1>1, <2>0, <2>4
  <2> QED
    BY <1>1, <2>1, <2>2, <2>3, <2>4
       DEF Delay!Next, Delay!Fail, Delay!Discard, Delay!CancelRequest, Delay!Stop, Delay!Shutdown, Delay!Tick
<1>2. DelayInv /\ [Delay!Next]_(Delay!vars) =>
        [\A t \in delayQueue : callback'[t] = "running" =>
           now >= delayed[t] \/ callbackRequest[t] \in cancelled
             \/ (when[t] < delayed[t] /\ now >= when[t])]_(Delay!vars)
  BY <1>1
<1> QED BY <1>2, DelayInvariant, PTL DEF Delay!Spec, Delay!NotEarly

(* What the caller sees of callbacks that are moved together.              *)
LEMMA DelayJobs ==
  ASSUME DelayInv, NEW S \in SUBSET Callbacks, NEW x \in CallbackStates,
         callback' = [t \in Callbacks |-> IF t \in S THEN x ELSE callback[t]]
  PROVE  Delay!Job' = [t \in Callbacks |-> IF t \notin S THEN Delay!Job[t]
                                          ELSE CASE x = "delayed" -> "accepted"
                                                 [] x = "finished" -> "done"
                                                 [] OTHER -> x]
  BY DEF DelayInv, DelayTypes, CallbackStates, Delay!Job

(* The instances count with the same Cardinality.                          *)
LEMMA DelayCardinality ==
  \A S : Delay!Abstract!Cardinality(S) = Cardinality(S) /\ Delay!Cardinality(S) = Cardinality(S)
  BY Zenon DEF Delay!Abstract!Cardinality, Delay!Cardinality, Cardinality,
               Delay!Abstract!IsFiniteSet, Delay!IsFiniteSet, IsFiniteSet

(* Callbacks that are delayed and begin to run together run in TaskPool.   *)
LEMMA DispatchRuns ==
  ASSUME DelayInv, NEW S \in SUBSET delayQueue, Delay!Dispatch(S), UNCHANGED delayPhase
  PROVE  Delay!Abstract!Run(S) /\ S \in SUBSET Callbacks
<1>1. S \in SUBSET Callbacks /\ \A t \in S : callback[t] = "delayed"
  BY DEF DelayInv, DelayTypes, DelayHolds
<1>2. \A t \in S : Delay!Job[t] = "accepted"
  BY <1>1 DEF Delay!Job
<1>3. Delay!Job' = [t \in Callbacks |-> IF t \in S THEN "running" ELSE Delay!Job[t]]
  BY <1>1, DelayJobs DEF Delay!Dispatch, CallbackStates
<1>4. Cardinality(Delay!Abstract!Running \union S) <= Cardinality(Callbacks)
  <2>1. (Delay!Abstract!Running \union S) \subseteq Callbacks
    BY <1>1 DEF Delay!Abstract!Running
  <2> QED BY <2>1, CallbacksAssumption, FS_Subset
<1>5. Delay!Abstract!Cardinality(Delay!Abstract!Running \union S) <= Delay!Cardinality(Callbacks)
  BY <1>4, DelayCardinality
<1> QED BY <1>1, <1>2, <1>3, <1>5 DEF Delay!Abstract!Run

(* The delay pool implements the abstract specification too: a callback    *)
(* that was accepted is run exactly once, nothing is accepted once stop()  *)
(* was called, and stop() completes when all have run.                     *)
THEOREM DelayRefinement == Delay!Spec => Delay!ImplementsTaskPool
<1>1. Delay!Init => Delay!Abstract!Init
  BY DEF Delay!Init, Delay!Abstract!Init, Delay!Job
<1>2. DelayInv /\ [Delay!Next]_(Delay!vars) => [Delay!Abstract!Next]_(Delay!Abstract!vars)
  <2> SUFFICES ASSUME DelayInv, [Delay!Next]_(Delay!vars)
               PROVE  [Delay!Abstract!Next]_(Delay!Abstract!vars)
    OBVIOUS
  <2>1. ASSUME NEW t \in Callbacks, NEW r \in Requests \union {NoRequest},
               NEW d \in Delay!Times \union {Delay!Never}, Delay!Refuse(t, r, d)
        PROVE  Delay!Abstract!Refuse(t)
    <3>1. callback' = [u \in Callbacks |-> IF u \in {t} THEN "refused" ELSE callback[u]] /\ callback[t] = "new"
      BY <2>1 DEF Delay!Refuse, DelayInv, DelayTypes
    <3>2. Delay!Job' = [Delay!Job EXCEPT ![t] = "refused"] /\ Delay!Job[t] = "new"
      BY <3>1, DelayJobs DEF CallbackStates, Delay!Job
    <3> QED BY <2>1, <3>2 DEF Delay!Refuse, Delay!Abstract!Refuse, Delay!Abstract!Move
  <2>2. ASSUME NEW t \in Callbacks, NEW r \in Requests \union {NoRequest},
               NEW d \in Delay!Times \union {Delay!Never}, NEW delay \in 0 .. MaxTime - now,
               Delay!Add(t, r, delay, d)
        PROVE  Delay!Abstract!Accept(t)
    <3>1. callback' = [u \in Callbacks |-> IF u \in {t} THEN "delayed" ELSE callback[u]] /\ callback[t] = "new"
      BY <2>2 DEF Delay!Add, DelayInv, DelayTypes
    <3>2. Delay!Job' = [Delay!Job EXCEPT ![t] = "accepted"] /\ Delay!Job[t] = "new"
      BY <3>1, DelayJobs DEF CallbackStates, Delay!Job
    <3> QED BY <2>2, <3>2 DEF Delay!Add, Delay!Abstract!Accept, Delay!Abstract!Move
  <2>3. ASSUME NEW t \in Callbacks, Delay!Finish(t) PROVE Delay!Abstract!Finish(t)
    <3>1. callback' = [u \in Callbacks |-> IF u \in {t} THEN "finished" ELSE callback[u]]
          /\ callback[t] = "running"
      BY <2>3 DEF Delay!Finish, DelayInv, DelayTypes
    <3>2. Delay!Job' = [Delay!Job EXCEPT ![t] = "done"] /\ Delay!Job[t] = "running"
      BY <3>1, DelayJobs DEF CallbackStates, Delay!Job
    <3> QED BY <2>3, <3>2 DEF Delay!Finish, Delay!Abstract!Finish, Delay!Abstract!Move
  <2>4. ASSUME NEW t \in Callbacks, Delay!Cancel(t) PROVE Delay!Abstract!Next
    <3>1. {t} \in SUBSET delayQueue
      BY <2>4 DEF Delay!Cancel, DelayInv, DelayTypes
    <3> QED BY <2>4, <3>1, DispatchRuns DEF Delay!Cancel, Delay!Abstract!Next
  <2>5. ASSUME Delay!Ready PROVE Delay!Abstract!Next
    <3>1. Delay!Due \in SUBSET delayQueue
      BY DEF Delay!Due
    <3> QED BY <2>5, <3>1, DispatchRuns DEF Delay!Ready, Delay!Abstract!Next
  <2>6. ASSUME Delay!Stop PROVE Delay!Abstract!Seal
    BY <2>6 DEF Delay!Stop, Delay!Abstract!Seal, Delay!Job
  <2>7. ASSUME Delay!Shutdown PROVE Delay!Abstract!Close
    <3>1. Unsettled = {}
      BY <2>7, CallbacksAssumption, FS_Subset, FS_EmptySet DEF Delay!Shutdown, DelayInv, Unsettled
    <3>2. \A t \in Callbacks : Delay!Job[t] \notin {"accepted", "running"}
      BY <3>1 DEF Unsettled, Delay!Job, DelayInv, DelayTypes, CallbackStates
    <3> QED BY <2>7, <3>2 DEF Delay!Shutdown, Delay!Abstract!Close, Delay!Job
  <2>8. ASSUME UNCHANGED <<callback, delayPhase>> PROVE UNCHANGED Delay!Abstract!vars
    BY <2>8 DEF Delay!Abstract!vars, Delay!Job
  <2> QED
    BY <2>1, <2>2, <2>3, <2>4, <2>5, <2>6, <2>7, <2>8
       DEF Delay!Next, Delay!vars, Delay!Fail, Delay!Discard, Delay!CancelRequest, Delay!Tick, Delay!Abstract!Next
<1> QED BY <1>1, <1>2, DelayInvariant, PTL DEF Delay!Spec, Delay!ImplementsTaskPool, Delay!Abstract!Spec
=============================================================================
