-------------------------- MODULE KafkaLifecycle --------------------------
(***************************************************************************)
(* Start and stop of a Kafka data source and of its endpoint consumers:    *)
(* the admin client that makes the topics, the start tasks that outlive    *)
(* the start() that made them, the drains that every stop() shares, and    *)
(* the transports they close, once.                                        *)
(* One action runs from one await to the next.  What the running loops do  *)
(* is KafkaSource's; here they make lanes, which end or raise.             *)
(*                                                                         *)
(* External: aiokafka's admin client and consumer, restore_checkpoint and  *)
(* on_error of the handler, all of which may fail, keep a cancellation to  *)
(* themselves, or end because of it; the callers of start() and stop(),    *)
(* whose contexts may end at any time.                                     *)
(***************************************************************************)
EXTENDS Naturals, FiniteSets

CONSTANTS Count,    (* enabled endpoints *)
          Stoppers  (* callers of stop() *)

Endpoints == 1 .. Count

VARIABLES
  starter,      \* the caller of start()
  stopped,      \* _stopped; the owner's context is cancelled with it
  startTask,    \* _start_task: what it awaits
  startFails,   \* it will raise once it has closed the admin client
  abandoned,    \* it has been cancelled and has not noticed
  admin,        \* _admin_client and _admin_close_task
  active,       \* _active_endpoints
  drain,        \* _shutdown_task: what it awaits
  left, failing,\* endpoints it has still to stop; it has errors
  stopper,      \* the callers of stop()
  halted,       \* _stopped of each endpoint consumer
  launch,       \* its _start_task: what it awaits
  dropped,      \* which has been cancelled and has not noticed
  transport,    \* its _kafka_consumer and _transport_close_task
  loops,        \* its loops run
  lanes,        \* its lanes
  spoilt,       \* _message_errors is not empty
  winding       \* its _shutdown_task: what it awaits

sourceVars == <<starter, stopped, startTask, startFails, abandoned, admin, active>>
drainVars == <<drain, left, failing, stopper>>
endpointVars == <<halted, launch, dropped, transport, loops, lanes, spoilt, winding>>
vars == <<sourceVars, drainVars, endpointVars>>

Init ==
  /\ starter = "none" /\ stopped = FALSE
  /\ startTask = "none" /\ startFails = FALSE /\ abandoned = FALSE
  /\ admin = "none" /\ active = {}
  /\ drain = "none" /\ left = {} /\ failing = FALSE
  /\ stopper = [c \in Stoppers |-> "idle"]
  /\ halted = [e \in Endpoints |-> FALSE]
  /\ launch = [e \in Endpoints |-> "none"]
  /\ dropped = [e \in Endpoints |-> FALSE]
  /\ transport = [e \in Endpoints |-> "none"]
  /\ loops = [e \in Endpoints |-> FALSE]
  /\ lanes = [e \in Endpoints |-> FALSE]
  /\ spoilt = [e \in Endpoints |-> FALSE]
  /\ winding = [e \in Endpoints |-> "none"]

(* A drain that failed is tried again, one that runs or is done is shared. *)
Again(d) == IF d \in {"none", "failed"} THEN "created" ELSE d

(* _begin_shutdown of the source, but for the callers. *)
BeginShutdown == stopped' = TRUE /\ drain' = Again(drain)

-----------------------------------------------------------------------------
(* start() of the source and its task. *)

Start ==
  /\ starter = "none" /\ ~stopped
  /\ starter' = "waiting" /\ startTask' = "created"
  /\ UNCHANGED <<stopped, startFails, abandoned, admin, active, drainVars, endpointVars>>

(* start() of an endpoint makes a task and returns.  None is started when  *)
(* the source stops, the context of start() is over or no broker is given. *)
StartEndpoints ==
  \/ startTask' = "raised" /\ UNCHANGED <<active, launch>>
  \/ /\ ~stopped
     /\ startTask' = "done"
     /\ active' = Endpoints
     /\ launch' = [e \in Endpoints |-> "restoring"]

BeginTopics ==
  /\ startTask = "created" /\ ~abandoned
  /\ startTask' = "topics" /\ admin' = "open"
  /\ UNCHANGED <<starter, stopped, startFails, abandoned, active, drainVars, endpointVars>>

(* No endpoint has create_topic. *)
BeginEndpoints ==
  /\ startTask = "created" /\ ~abandoned
  /\ StartEndpoints
  /\ UNCHANGED <<starter, stopped, startFails, abandoned, admin, drainVars,
                 halted, dropped, transport, loops, lanes, spoilt, winding>>

(* The client is started and its topics made, or it fails, or is told to   *)
(* stop: it is closed and the task awaits that.                            *)
TopicsEnd(fails) ==
  /\ startTask = "topics"
  /\ startTask' = "closing" /\ startFails' = fails
  /\ abandoned' = (abandoned /\ ~fails)
  /\ admin' = "closing"
  /\ UNCHANGED <<starter, stopped, active, drainVars, endpointVars>>

(* close() of the client, once whoever asks for it. *)
AdminCloses ==
  /\ admin = "closing"
  /\ admin' \in {"closed", "broken"}
  /\ UNCHANGED <<starter, stopped, startTask, startFails, abandoned, active, drainVars, endpointVars>>

TopicsClosed ==
  /\ startTask = "closing" /\ admin \in {"closed", "broken"}
  /\ admin' = IF admin = "closed" THEN "none" ELSE admin
  /\ IF startFails \/ admin = "broken"
       THEN startTask' = "raised" /\ UNCHANGED <<active, launch>>
       ELSE StartEndpoints
  /\ UNCHANGED <<starter, stopped, startFails, abandoned, drainVars,
                 halted, dropped, transport, loops, lanes, spoilt, winding>>

(* The task is told to stop when it has not begun or awaits the close,     *)
(* which goes on.                                                          *)
StartCancelled ==
  /\ abandoned /\ startTask \in {"created", "closing"}
  /\ abandoned' = FALSE
  /\ startTask' = "raised"
  /\ UNCHANGED <<starter, stopped, startFails, admin, active, drainVars, endpointVars>>

Over(task) == task \in {"none", "done", "raised"}

StartReturns ==
  /\ starter = "waiting" /\ startTask = "done"
  /\ starter' = "returned"
  /\ UNCHANGED <<stopped, startTask, startFails, abandoned, admin, active, drainVars, endpointVars>>

(* start() raises what the task raised, or its caller gives up: the source *)
(* stops by itself.                                                        *)
StartGivesUp ==
  /\ starter = "waiting" /\ startTask # "done"
  /\ starter' = "raised"
  /\ BeginShutdown
  /\ UNCHANGED <<startTask, startFails, abandoned, admin, active, left, failing, stopper, endpointVars>>

-----------------------------------------------------------------------------
(* stop() of the source and the drain.  Whoever waits for the drain when   *)
(* it ends learns how it ended.                                            *)

Stop(c) ==
  /\ stopper[c] \in {"idle", "raised"}
  /\ stopper' = [stopper EXCEPT ![c] = "waiting"]
  /\ BeginShutdown
  /\ UNCHANGED <<starter, startTask, startFails, abandoned, admin, active, left, failing, endpointVars>>

StopGivesUp(c) ==
  /\ stopper[c] = "waiting"
  /\ stopper' = [stopper EXCEPT ![c] = "raised"]
  /\ UNCHANGED <<sourceVars, drain, left, failing, endpointVars>>

StopReturns(c) ==
  /\ stopper[c] = "waiting" /\ drain = "done"
  /\ stopper' = [stopper EXCEPT ![c] = "returned"]
  /\ UNCHANGED <<sourceVars, drain, left, failing, endpointVars>>

DrainBegins ==
  /\ drain = "created"
  /\ drain' = "joining"
  /\ abandoned' = ~Over(startTask)
  /\ failing' = FALSE
  /\ UNCHANGED <<starter, stopped, startTask, startFails, admin, active, left, stopper, endpointVars>>

DrainJoins ==
  /\ drain = "joining" /\ Over(startTask)
  /\ drain' = "endpoints" /\ left' = active
  /\ UNCHANGED <<sourceVars, failing, stopper, endpointVars>>

(* _begin_shutdown of an endpoint consumer. *)
Halt(e) ==
  /\ halted' = [halted EXCEPT ![e] = TRUE]
  /\ winding' = [winding EXCEPT ![e] = Again(@)]

(* The endpoints are stopped one after the other, the last one first. *)
DrainStops(e) ==
  /\ drain = "endpoints" /\ e \in left /\ \A f \in left : f <= e
  /\ drain' = "waiting"
  /\ Halt(e)
  /\ UNCHANGED <<sourceVars, left, failing, stopper, launch, dropped, transport, loops, lanes, spoilt>>

Stopping(e) == drain = "waiting" /\ e \in left /\ \A f \in left : f <= e

DrainGoesOn(e, returns) ==
  /\ drain' = "endpoints" /\ left' = left \ {e}
  /\ active' = IF returns THEN active \ {e} ELSE active
  /\ failing' = (failing \/ ~returns)
  /\ UNCHANGED <<starter, stopped, startTask, startFails, abandoned, admin, stopper, endpointVars>>

(* stop() of the endpoint returns, or raises what its drain raised. *)
DrainStopped(e) ==
  /\ Stopping(e) /\ winding[e] \in {"done", "failed"}
  /\ DrainGoesOn(e, winding[e] = "done")

(* The context of the stop() that began this drain ends. *)
DrainGivesUp(e) == Stopping(e) /\ DrainGoesOn(e, FALSE)

Settle(fails) ==
  /\ drain' = IF fails THEN "failed" ELSE "done"
  /\ stopper' = [c \in Stoppers |-> IF stopper[c] # "waiting" THEN stopper[c]
                                    ELSE IF fails THEN "raised" ELSE "returned"]

(* _close_admin in the drain. *)
DrainCloses ==
  /\ drain = "endpoints" /\ left = {}
  /\ IF admin = "none"
       THEN Settle(failing) /\ UNCHANGED admin
       ELSE /\ drain' = "closing"
            /\ admin' = IF admin = "open" THEN "closing" ELSE admin
            /\ UNCHANGED stopper
  /\ UNCHANGED <<starter, stopped, startTask, startFails, abandoned, active, left, failing, endpointVars>>

DrainClosed ==
  /\ drain = "closing" /\ admin \in {"closed", "broken"}
  /\ admin' = IF admin = "closed" THEN "none" ELSE admin
  /\ Settle(failing \/ admin = "broken")
  /\ UNCHANGED <<starter, stopped, startTask, startFails, abandoned, active, left, failing, endpointVars>>

-----------------------------------------------------------------------------
(* The start task of an endpoint consumer. *)

Launches(e, next) == launch' = [launch EXCEPT ![e] = next]

(* The checkpoint is there and the consumer made, which now connects. *)
LaunchRestored(e) ==
  /\ launch[e] = "restoring"
  /\ Launches(e, "connecting")
  /\ transport' = [transport EXCEPT ![e] = "open"]
  /\ UNCHANGED <<sourceVars, drainVars, halted, dropped, loops, lanes, spoilt, winding>>

(* An endpoint that is not enabled is left alone. *)
LaunchDisabled(e) ==
  /\ launch[e] = "restoring"
  /\ Launches(e, "done")
  /\ UNCHANGED <<sourceVars, drainVars, halted, dropped, transport, loops, lanes, spoilt, winding>>

LaunchConnected(e, expired) ==
  LET late == halted[e] \/ stopped \/ expired
  IN /\ launch[e] = "connecting"
     /\ Launches(e, IF late THEN "raised" ELSE "done")
     /\ loops' = [loops EXCEPT ![e] = ~late]
     /\ UNCHANGED <<sourceVars, drainVars, halted, dropped, transport, lanes, spoilt, winding>>

(* The handler's on_error is told. *)
LaunchFails(e) ==
  /\ launch[e] \in {"restoring", "connecting"}
  /\ Launches(e, "reporting")
  /\ UNCHANGED <<sourceVars, drainVars, halted, dropped, transport, loops, lanes, spoilt, winding>>

LaunchReported(e) ==
  /\ launch[e] = "reporting"
  /\ Launches(e, "raised")
  /\ Halt(e)
  /\ UNCHANGED <<sourceVars, drainVars, dropped, transport, loops, lanes, spoilt>>

LaunchCancelled(e) ==
  /\ dropped[e] /\ launch[e] \in {"restoring", "connecting", "reporting"}
  /\ Launches(e, "raised")
  /\ UNCHANGED <<sourceVars, drainVars, halted, dropped, transport, loops, lanes, spoilt, winding>>

(* cancel_start: the owner's context ends, by its deadline or with the     *)
(* source, while the task runs.                                            *)
LaunchExpires(e) ==
  /\ ~Over(launch[e]) /\ ~halted[e]
  /\ Halt(e)
  /\ UNCHANGED <<sourceVars, drainVars, launch, dropped, transport, loops, lanes, spoilt>>

-----------------------------------------------------------------------------
(* The loops and lanes of an endpoint consumer, and its drain. *)

LaneBegins(e) ==
  /\ loops[e] /\ ~halted[e] /\ ~lanes[e]
  /\ lanes' = [lanes EXCEPT ![e] = TRUE]
  /\ UNCHANGED <<sourceVars, drainVars, halted, launch, dropped, transport, loops, spoilt, winding>>

(* _message_finished *)
LaneEnds(e, raises) ==
  /\ lanes[e]
  /\ lanes' = [lanes EXCEPT ![e] = FALSE]
  /\ spoilt' = [spoilt EXCEPT ![e] = @ \/ raises]
  /\ UNCHANGED <<sourceVars, drainVars, halted, launch, dropped, transport, loops, winding>>

Winds(e, next) == winding' = [winding EXCEPT ![e] = next]

WindBegins(e) ==
  /\ winding[e] = "created"
  /\ Winds(e, "joining")
  /\ dropped' = [dropped EXCEPT ![e] = ~Over(launch[e])]
  /\ UNCHANGED <<sourceVars, drainVars, halted, launch, transport, loops, lanes, spoilt>>

WindJoinsAtOnce(e) ==   \* Fault: a start task that was told to stop is taken to be over
  /\ winding[e] = "joining"
  /\ Winds(e, "lanes")
  /\ loops' = [loops EXCEPT ![e] = FALSE]
  /\ UNCHANGED <<sourceVars, drainVars, halted, launch, dropped, transport, lanes, spoilt>>

(* The loops are cancelled and awaited. *)
WindJoins(e) ==
  /\ winding[e] = "joining" /\ Over(launch[e])
  /\ Winds(e, "lanes")
  /\ loops' = [loops EXCEPT ![e] = FALSE]
  /\ UNCHANGED <<sourceVars, drainVars, halted, launch, dropped, transport, lanes, spoilt>>

(* The errors of lanes are raised, once, before the transport is touched. *)
WindLanes(e) ==
  /\ winding[e] = "lanes" /\ ~lanes[e]
  /\ Winds(e, IF spoilt[e] THEN "failed" ELSE IF transport[e] = "none" THEN "done" ELSE "flushing")
  /\ spoilt' = [spoilt EXCEPT ![e] = FALSE]
  /\ UNCHANGED <<sourceVars, drainVars, halted, launch, dropped, transport, loops, lanes>>

(* The marked offsets are committed, or not; the transport is closed once. *)
WindFlushed(e, fails) ==
  /\ winding[e] = "flushing"
  /\ Winds(e, IF fails THEN "failed" ELSE "closing")
  /\ transport' = IF ~fails /\ transport[e] = "open" THEN [transport EXCEPT ![e] = "closing"] ELSE transport
  /\ UNCHANGED <<sourceVars, drainVars, halted, launch, dropped, loops, lanes, spoilt>>

TransportCloses(e) ==
  /\ transport[e] = "closing"
  /\ \E how \in {"closed", "broken"} : transport' = [transport EXCEPT ![e] = how]
  /\ UNCHANGED <<sourceVars, drainVars, halted, launch, dropped, loops, lanes, spoilt, winding>>

(* What close() came to stays what every later drain finds. *)
WindClosed(e) ==
  /\ winding[e] = "closing" /\ transport[e] \in {"closed", "broken"}
  /\ Winds(e, IF transport[e] = "closed" THEN "done" ELSE "failed")
  /\ transport' = [transport EXCEPT ![e] = IF @ = "closed" THEN "none" ELSE @]
  /\ UNCHANGED <<sourceVars, drainVars, halted, launch, dropped, loops, lanes, spoilt>>

-----------------------------------------------------------------------------
SourceStep ==
  \/ Start \/ BeginTopics \/ BeginEndpoints \/ TopicsEnd(TRUE) \/ TopicsEnd(FALSE) \/ AdminCloses \/ TopicsClosed
  \/ StartCancelled \/ StartReturns \/ StartGivesUp

DrainStep ==
  \/ DrainBegins \/ DrainJoins \/ DrainCloses \/ DrainClosed
  \/ \E e \in Endpoints : DrainStops(e) \/ DrainStopped(e)

EndpointStep(e) ==
  \/ LaunchRestored(e) \/ LaunchDisabled(e) \/ LaunchFails(e) \/ LaunchReported(e)
  \/ \E expired \in BOOLEAN : LaunchConnected(e, expired)
  \/ LaunchCancelled(e) \/ LaunchExpires(e)
  \/ LaneBegins(e) \/ LaneEnds(e, TRUE) \/ LaneEnds(e, FALSE) \/ TransportCloses(e)

WindStep(e) ==
  \/ WindBegins(e) \/ WindJoins(e) \/ WindLanes(e)
  \/ WindFlushed(e, TRUE) \/ WindFlushed(e, FALSE) \/ WindClosed(e)

Next ==
  \/ SourceStep \/ DrainStep
  \/ \E e \in Endpoints : DrainGivesUp(e) \/ EndpointStep(e) \/ WindStep(e)
  \/ \E c \in Stoppers : Stop(c) \/ StopReturns(c) \/ StopGivesUp(c)

Spec == Init /\ [][Next]_vars

(* Tasks run; what aiokafka and the handler are asked for ends. *)
Fairness ==
  /\ WF_vars(BeginTopics \/ BeginEndpoints \/ TopicsEnd(TRUE) \/ TopicsClosed \/ StartCancelled)
  /\ WF_vars(AdminCloses)
  /\ WF_vars(DrainStep)
  /\ \A c \in Stoppers : WF_vars(StopReturns(c))
  /\ \A e \in Endpoints :
       /\ WF_vars(WindStep(e)) /\ WF_vars(TransportCloses(e))
       /\ WF_vars(LaneEnds(e, FALSE))
       /\ WF_vars(LaunchReported(e) \/ LaunchCancelled(e))

FairSpec == Spec /\ Fairness

-----------------------------------------------------------------------------
StartStates == {"none", "created", "topics", "closing", "done", "raised"}
Launching == {"none", "restoring", "connecting", "reporting", "done", "raised"}
Draining == {"none", "created", "joining", "endpoints", "waiting", "closing", "failed", "done"}
Winding == {"none", "created", "joining", "lanes", "flushing", "closing", "failed", "done"}
Clients == {"none", "open", "closing", "closed", "broken"}
Calls == {"none", "idle", "waiting", "returned", "raised"}

TypeOK ==
  /\ starter \in Calls /\ stopped \in BOOLEAN
  /\ startTask \in StartStates /\ startFails \in BOOLEAN /\ abandoned \in BOOLEAN
  /\ admin \in Clients /\ active \in SUBSET Endpoints
  /\ drain \in Draining /\ left \in SUBSET Endpoints /\ failing \in BOOLEAN
  /\ stopper \in [Stoppers -> Calls]
  /\ halted \in [Endpoints -> BOOLEAN] /\ launch \in [Endpoints -> Launching]
  /\ dropped \in [Endpoints -> BOOLEAN] /\ transport \in [Endpoints -> Clients]
  /\ loops \in [Endpoints -> BOOLEAN] /\ lanes \in [Endpoints -> BOOLEAN]
  /\ spoilt \in [Endpoints -> BOOLEAN] /\ winding \in [Endpoints -> Winding]

(* What an endpoint consumer may still hold. *)
Quiet(e) == Over(launch[e]) /\ transport[e] = "none" /\ ~loops[e] /\ ~lanes[e]

(* A stop() that returns has left nothing behind, whoever else started,    *)
(* stopped or gave up on the source meanwhile: no start task, no admin     *)
(* client, no consumer, no loop and no lane of any endpoint, and none of   *)
(* them comes back.                                                        *)
Released ==
  /\ \A e \in Endpoints : winding[e] = "done" => Quiet(e)
  /\ drain = "done" \/ (\E c \in Stoppers : stopper[c] = "returned") =>
       Over(startTask) /\ admin = "none" /\ \A e \in Endpoints : Quiet(e)

(* A stop() ends, with the drain or without it, however many share it. *)
StopEnds == \A c \in Stoppers : stopper[c] = "waiting" ~> stopper[c] # "waiting"
=============================================================================
