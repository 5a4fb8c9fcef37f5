------------------------------ MODULE MCPools ------------------------------
(***************************************************************************)
(* One instance of each asynchronous pool, side by side: subject says      *)
(* which of them moves, the others stay in one initial state.  The FIFO    *)
(* and the priority pool share their variables.                            *)
(***************************************************************************)
EXTENDS QueuedPool, TLC

CONSTANTS MaxReconfigure,  (* bound: how often the configuration may change *)
          Callbacks,       (* the calls of DelayPool's add_task *)
          MaxTime          (* bound on DelayPool's clock *)

ASSUME CallbacksAssumption == IsFiniteSet(Callbacks) /\ MaxTime \in Nat

VARIABLES subject, reconfigured,
          now, cancelled, callback, callbackRequest, delayed, when, delayQueue,
          delayWatched, armed, timer, runners, delayWg, delayPhase, delayExited

delayVars == <<now, cancelled, callback, callbackRequest, delayed, when, delayQueue,
               delayWatched, armed, timer, runners, delayWg, delayPhase, delayExited>>

Priority == INSTANCE QueuedPool WITH Heap <- TRUE

Delay == INSTANCE DelayPool WITH
  Tasks <- Callbacks, state <- callback, request <- callbackRequest, queue <- delayQueue,
  watched <- delayWatched, running <- runners, wg <- delayWg, phase <- delayPhase,
  exited <- delayExited

MCInit ==
  /\ subject \in {"fifo", "priority", "delay"}
  /\ Init /\ Delay!Init
  /\ reconfigured = 0
  /\ subject = "delay" => configured = 1

Bounded == /\ reconfigured' = reconfigured + IF configured' = configured THEN 0 ELSE 1
           /\ reconfigured' <= MaxReconfigure

FifoNext == subject = "fifo" /\ Next /\ Bounded /\ UNCHANGED <<subject, delayVars>>

PriorityNext == subject = "priority" /\ Priority!Next /\ Bounded /\ UNCHANGED <<subject, delayVars>>

DelayNext == subject = "delay" /\ Delay!Next /\ UNCHANGED <<subject, reconfigured, vars>>

MCNext == FifoNext \/ PriorityNext \/ DelayNext

MCSpec == MCInit /\ [][MCNext]_<<subject, reconfigured, vars, delayVars>>

(* Only the pool that moves is scheduled. *)
MCFairSpec ==
  /\ MCSpec
  /\ \A s \in Slots :
       /\ WF_vars(subject = "fifo" /\ ~exited /\ Work(s))
       /\ WF_vars(subject = "priority" /\ ~exited /\ Priority!Work(s))
  /\ \A t \in Tasks : WF_vars(subject # "delay" /\ ~exited /\ Finish(t))
  /\ WF_vars(subject # "delay" /\ ~exited /\ Shutdown)
  /\ WF_delayVars(subject = "delay" /\ ~delayExited /\ Delay!Tick)
  /\ WF_delayVars(subject = "delay" /\ ~delayExited /\ Delay!Ready)
  /\ WF_delayVars(subject = "delay" /\ ~delayExited /\ Delay!Shutdown)
  /\ \A c \in Callbacks :
       /\ WF_delayVars(subject = "delay" /\ ~delayExited /\ Delay!Cancel(c))
       /\ WF_delayVars(subject = "delay" /\ ~delayExited /\ Delay!Finish(c))

(* DelayPool's: it implements TaskPool too, and every accepted callback    *)
(* runs, not before its time, and stop() completes.                        *)
DelayedRuns == Delay!ImplementsTaskPool /\ Delay!NotEarly /\ Delay!AcceptedRuns /\ Delay!StopCompletes
=============================================================================
