----------------------------- MODULE MCSources -----------------------------
(***************************************************************************)
(* One instance of each data source model, side by side: subject says      *)
(* which of them moves, the others stay in one initial state.              *)
(***************************************************************************)
EXTENDS RequestSource, TLC

CONSTANTS Calls, Limits, MaxChanges,  (* of CustomSource *)
          Runs, Callers, MaxTime,     (* of CronSource *)
          Work, PoolWork, Executors,  (* of WorkflowGraph *)
          Submissions, Ids, Streams, MaxAttempts  (* of TemporalEndpoint *)

ASSUME LimitsAssumption == Limits \subseteq Nat /\ MaxChanges \in Nat
ASSUME PoolAssumption == PoolWork \subseteq Work /\ Executors \in Nat \ {0}
ASSUME AttemptsAssumption == MaxAttempts \in Nat \ {0}

VARIABLES
  subject,
  stopped, limit, changes, semaphore, sized, value, waiters, granted,
  call, held, tasks, snapshot, stopping,
  interval, skipMissed, skipOverlap, now, cronStarted, shutdown, due, accepting,
  scheduled, expected, run, caller,
  endpoint, outcome, wantsResult, result, work, workTasks, awaiting, failure, poolStopped, awaited,
  withResult, waits, connector, idOf, streamOf, request, execution, foreign, counting, attempt,
  replying, answered

customVars == <<stopped, limit, changes, semaphore, sized, value, waiters, granted,
                call, held, tasks, snapshot, stopping>>
cronVars == <<interval, skipMissed, skipOverlap, now, cronStarted, shutdown, due,
              accepting, scheduled, expected, run, caller>>

flowVars == <<endpoint, outcome, wantsResult, result, work, workTasks, awaiting, failure,
              poolStopped, awaited>>
temporalVars == <<withResult, waits, connector, idOf, streamOf, request, execution, foreign,
                  counting, attempt, replying, answered>>

Custom == INSTANCE CustomSource

Cron == INSTANCE CronSource WITH started <- cronStarted

Flow == INSTANCE WorkflowGraph WITH
  tasks <- workTasks, pending <- awaiting, stopped <- poolStopped

Temporal == INSTANCE TemporalEndpoint WITH
  Requests <- Submissions, Messages <- Ids, current <- counting,
  hasResult <- withResult, pending <- replying

(* Up to names: two submissions of a message, its Workflow ours or not,    *)
(* with and without results, or two messages of an endpoint with a result  *)
(* stream, whose stream ids are the same or not.                           *)
TemporalCases ==
  LET q1 == CHOOSE q \in Submissions : TRUE
      w1 == CHOOSE m \in Ids : TRUE
  IN /\ idOf[q1] = w1 /\ streamOf[w1] = CHOOSE i \in Streams : TRUE
     /\ \/ /\ \A q \in Submissions : idOf[q] = w1
           /\ foreign \subseteq {w1} /\ \A m \in Ids : streamOf[m] = streamOf[w1]
        \/ /\ \E q \in Submissions : idOf[q] # w1
           /\ foreign = {} /\ withResult /\ q1 \in waits

MCInit ==
  /\ subject \in {"requests", "custom", "cron", "workflow", "temporal"}
  /\ Init /\ Custom!Init /\ Cron!Init /\ Flow!Init /\ Temporal!Init
  /\ subject # "requests" => transport = "http" /\ hasResult /\ \A r, q \in Requests : sid[r] = sid[q]
  /\ subject # "custom" => \A l \in Limits : limit <= l
  /\ subject # "cron" => interval /\ skipMissed /\ skipOverlap
  /\ subject # "workflow" => wantsResult
  /\ subject # "temporal" => /\ withResult /\ waits = {} /\ foreign = {}
                             /\ idOf = [r \in Submissions |-> CHOOSE m \in Ids : TRUE]
  /\ TemporalCases

RequestsNext ==
  subject = "requests" /\ Next /\ UNCHANGED <<subject, customVars, cronVars, flowVars, temporalVars>>

CustomNext ==
  subject = "custom" /\ Custom!Next /\ UNCHANGED <<subject, vars, cronVars, flowVars, temporalVars>>

CronNext ==
  subject = "cron" /\ Cron!Next /\ UNCHANGED <<subject, vars, customVars, flowVars, temporalVars>>

FlowNext ==
  subject = "workflow" /\ Flow!Next /\ UNCHANGED <<subject, vars, customVars, cronVars, temporalVars>>

TemporalNext ==
  subject = "temporal" /\ Temporal!Next /\ UNCHANGED <<subject, vars, customVars, cronVars, flowVars>>

MCNext == RequestsNext \/ CustomNext \/ CronNext \/ FlowNext \/ TemporalNext

MCSpec ==
  MCInit /\ [][MCNext]_<<subject, vars, customVars, cronVars, flowVars, temporalVars>>

FlowFairness ==
  /\ WF_flowVars(subject = "workflow" /\ Flow!Activated)
  /\ WF_flowVars(subject = "workflow" /\ Flow!Winding)
  /\ \A w \in Work : WF_flowVars(subject = "workflow" /\ (Flow!Take(w) \/ Flow!End(w) \/ Flow!Complete(w)))

MCFairSpec == MCSpec /\ Fairness /\ Cron!Fairness /\ FlowFairness

(* CustomSource's: while a handler's limit stays what it is, no more       *)
(* requests run than it allows, and no call waits while a slot is free     *)
(* that nobody is about to hand on.                                        *)
LimitHeld == Custom!LimitHeld

(* CronSource's: a coalescing endpoint fires with the occurrence it was    *)
(* submitted for, and an interval run with a backlog is dropped.           *)
FiresOwnOccurrence == Cron!FiresOwnOccurrence

(* WorkflowGraph's: a fast result does not hide a failed branch.           *)
FailureNotHidden == Flow!FailureNotHidden

(* Both: a drain completes, also when every caller gives up, and leaves    *)
(* nothing that fires; a failed branch ends the execution, which waits for *)
(* nothing else than work that is under way.                               *)
WindsUp ==
  /\ Cron!DrainCompletes /\ Cron!StoppedIsQuiet
  /\ Flow!FailureWakes /\ []Flow!WorkAccounted

(* TemporalEndpoint's: attempts and requests share one execution.          *)
OneExecution == Temporal!OneExecution
=============================================================================
