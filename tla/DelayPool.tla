----------------------------- MODULE DelayPool -----------------------------
(***************************************************************************)
(* DelayPoolImpl (runtime/pool/delaypool.py): callbacks that run when      *)
(* their delay has passed, or as soon as their request is cancelled or     *)
(* its deadline reached.  One timer serves the whole queue.  start() only  *)
(* sets a flag that no other operation reads, and is left out.             *)
(***************************************************************************)
EXTENDS Naturals, FiniteSetsExt

CONSTANTS Tasks,     (* the calls of add_task *)
          Requests,  (* requests that can be cancelled *)
          NoRequest,
          MaxTime    (* bound on the clock *)

Never == MaxTime + 1
Times == 0 .. MaxTime

VARIABLES now,        \* loop.time()
          cancelled,  \* requests whose event is set
          state,      \* of each task
          request,    \* the request of each task
          delayed,    \* the time its delay ends (not stored by the code)
          when,       \* the key of each task in _queue
          queue,      \* tasks in _queue
          watched,    \* tasks in _watches
          armed,      \* _armed_at
          timer,      \* the time of the pending call of _ready
          running,    \* _running_tasks
          wg,         \* the count of _wg
          phase,      \* "open", then the steps of _shutdown
          exited      \* a callback failed and the process called os._exit(2)

vars == <<now, cancelled, state, request, delayed, when, queue, watched, armed, timer,
          running, wg, phase, exited>>

Init ==
  /\ now = 0
  /\ cancelled = {}
  /\ state = [t \in Tasks |-> "new"]
  /\ request = [t \in Tasks |-> NoRequest]
  /\ delayed = [t \in Tasks |-> 0]
  /\ when = [t \in Tasks |-> 0]
  /\ queue = {} /\ watched = {} /\ running = {}
  /\ armed = Never /\ timer = Never
  /\ wg = 0
  /\ phase = "open"
  /\ exited = FALSE

Earliest(Q, w) == Min({Never} \union {w[t] : t \in Q})

(* _arm with Q queued; tm is the timer if it is still the one for at. *)
Arm(Q, w, at, tm) ==
  /\ armed' = Earliest(Q, w)
  /\ timer' = IF Earliest(Q, w) = at THEN tm ELSE Earliest(Q, w)

(* _dispatch: tasks that are still delayed start in runners of their own. *)
Dispatch(S) ==
  /\ state' = [t \in Tasks |-> IF t \in S THEN "running" ELSE state[t]]
  /\ queue' = queue \ S
  /\ watched' = watched \ S
  /\ running' = running \union S

(* add_task in request r, whose deadline is d. *)
Refuse(t, r, d) ==
  /\ state[t] = "new"
  /\ r \in cancelled \/ d <= now \/ phase # "open"
  /\ state' = [state EXCEPT ![t] = "refused"]
  /\ UNCHANGED <<now, cancelled, request, delayed, when, queue, watched, armed, timer, running, wg, phase, exited>>

Add(t, r, delay, d) ==
  /\ state[t] = "new"
  /\ r \notin cancelled /\ d > now
  /\ phase = "open"
  /\ state' = [state EXCEPT ![t] = "delayed"]
  /\ request' = [request EXCEPT ![t] = r]
  /\ delayed' = [delayed EXCEPT ![t] = now + delay]
  /\ when' = [when EXCEPT ![t] = Min({now + delay, d})]
  /\ queue' = queue \union {t}
  /\ watched' = IF r = NoRequest THEN watched ELSE watched \union {t}
  /\ wg' = wg + 1
  /\ Arm(queue \union {t}, when', armed, timer)
  /\ UNCHANGED <<now, cancelled, running, phase, exited>>

CancelRequest(r) ==
  /\ cancelled' = cancelled \union {r}
  /\ UNCHANGED <<now, state, request, delayed, when, queue, watched, armed, timer, running, wg, phase, exited>>

(* The watches call _cancel for a queued task of a cancelled request. *)
Cancel(t) ==
  /\ t \in watched
  /\ request[t] \in cancelled
  /\ Dispatch({t})
  /\ Arm(queue \ {t}, when, armed, timer)
  /\ UNCHANGED <<now, cancelled, request, delayed, when, wg, phase, exited>>

(* _ready, which the loop may call up to its clock resolution early. *)
Due == {t \in queue : when[t] <= now}

ReadyArmed ==   \* Fault: _armed_at is not reset, though the timer is spent
  /\ timer # Never
  /\ timer <= now + 1
  /\ Dispatch(Due)
  /\ Arm(queue \ Due, when, armed, Never)
  /\ UNCHANGED <<now, cancelled, request, delayed, when, wg, phase, exited>>

Ready ==
  /\ timer # Never
  /\ timer <= now + 1
  /\ Dispatch(Due)
  /\ Arm(queue \ Due, when, Never, Never)
  /\ UNCHANGED <<now, cancelled, request, delayed, when, wg, phase, exited>>

(* _run_task: the callback returns or is cancelled ... *)
Finish(t) ==
  /\ state[t] = "running"
  /\ state' = [state EXCEPT ![t] = "finished"]
  /\ wg' = wg - 1
  /\ UNCHANGED <<now, cancelled, request, delayed, when, queue, watched, armed, timer, running, phase, exited>>

(* ... or raises anything else, which terminates the process. *)
Fail(t) ==
  /\ state[t] = "running"
  /\ exited' = TRUE
  /\ UNCHANGED <<now, cancelled, state, request, delayed, when, queue, watched, armed, timer, running, wg, phase>>

(* The runner's done-callback. *)
Discard(t) ==
  /\ t \in running /\ state[t] = "finished"
  /\ running' = running \ {t}
  /\ UNCHANGED <<now, cancelled, state, request, delayed, when, queue, watched, armed, timer, wg, phase, exited>>

Stop ==
  /\ phase = "open"
  /\ phase' = "draining"
  /\ UNCHANGED <<now, cancelled, state, request, delayed, when, queue, watched, armed, timer, running, wg, exited>>

(* _shutdown: after the wait group, the runners are gathered. *)
Shutdown ==
  /\ phase = "draining" /\ wg = 0
  /\ \A t \in running : state[t] = "finished"
  /\ phase' = "closed"
  /\ UNCHANGED <<now, cancelled, state, request, delayed, when, queue, watched, armed, timer, running, wg, exited>>

Tick ==
  /\ now < MaxTime
  /\ now' = now + 1
  /\ UNCHANGED <<cancelled, state, request, delayed, when, queue, watched, armed, timer, running, wg, phase, exited>>

Next ==
  /\ ~exited
  /\ \/ \E t \in Tasks :
          \/ \E r \in Requests \union {NoRequest}, d \in Times \union {Never} :
               \/ Refuse(t, r, d)
               \/ \E delay \in 0 .. MaxTime - now : Add(t, r, delay, d)
          \/ Cancel(t) \/ Finish(t) \/ Fail(t) \/ Discard(t)
     \/ \E r \in Requests : CancelRequest(r)
     \/ Ready \/ Stop \/ Shutdown \/ Tick

Spec == Init /\ [][Next]_vars

(* Time passes, the loop runs timers and watches, and callbacks return. *)
Fairness ==
  /\ WF_vars(~exited /\ Tick)
  /\ WF_vars(~exited /\ Ready)
  /\ WF_vars(~exited /\ Shutdown)
  /\ \A t \in Tasks : WF_vars(~exited /\ Cancel(t)) /\ WF_vars(~exited /\ Finish(t))

FairSpec == Spec /\ Fairness

-----------------------------------------------------------------------------
TypeOK ==
  /\ now \in Times /\ armed \in 0 .. Never /\ timer \in 0 .. Never
  /\ cancelled \subseteq Requests
  /\ state \in [Tasks -> {"new", "refused", "delayed", "running", "finished"}]
  /\ request \in [Tasks -> Requests \union {NoRequest}]
  /\ delayed \in [Tasks -> Nat] /\ when \in [Tasks -> Nat]
  /\ watched \subseteq queue /\ queue \subseteq Tasks /\ running \subseteq Tasks
  /\ wg \in Int
  /\ phase \in {"open", "draining", "closed"}
  /\ exited \in BOOLEAN

(* A callback starts before its delay has passed only if its request was   *)
(* cancelled or the deadline of its request has come.                      *)
NotEarly ==
  [][\A t \in queue : state'[t] = "running" =>
       now >= delayed[t] \/ request[t] \in cancelled \/ (when[t] < delayed[t] /\ now >= when[t])]_vars

(* Every accepted callback runs, at the latest when its delay has passed,  *)
(* and stop() completes, unless a failing callback ends the process.       *)
AcceptedRuns == \A t \in Tasks : state[t] = "delayed" ~> (state[t] = "finished" \/ exited)

StopCompletes == phase = "draining" ~> (phase = "closed" \/ exited)

(* What a caller sees of the pool; nothing limits how many callbacks run. *)
Job == [t \in Tasks |->
          CASE state[t] = "delayed" -> "accepted"
            [] state[t] = "finished" -> "done"
            [] OTHER -> state[t]]

Abstract == INSTANCE TaskPool WITH
  Limit <- Cardinality(Tasks),
  job <- Job,
  phase <- IF phase = "draining" THEN "sealed" ELSE phase

ImplementsTaskPool == Abstract!Spec
=============================================================================
