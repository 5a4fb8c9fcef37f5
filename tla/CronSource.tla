----------------------------- MODULE CronSource -----------------------------
(***************************************************************************)
(* The cron source (datasource/cron/apscheduler.py) with one endpoint: how *)
(* each submission of the scheduler becomes at most one fired occurrence,  *)
(* and a stop() that several callers share.                                *)
(*                                                                         *)
(* External: APScheduler.  At a wake-up it submits what is due as one job  *)
(* task, or reports that max_instances run already, and tells listeners    *)
(* before the task begins; the task skips run times past their grace.      *)
(* Time counts the slots of the schedule; slot t is due at time t.         *)
(***************************************************************************)
EXTENDS Integers, FiniteSets, Sequences

CONSTANTS Runs,     (* submissions of the scheduler *)
          Callers,  (* calls of stop() *)
          MaxTime   (* bound of the clock *)

Skipped == 0

VARIABLES
  interval,    \* an interval schedule; FALSE: a cron expression
  skipMissed,  \* ScheduleMissedRunPolicy.SKIP; FALSE: FIREONCE
  skipOverlap, \* ScheduleOverlapPolicy.SKIP: max_instances is 1
  now,         \* the clock
  started,     \* _started
  shutdown,    \* _shutdown: "none", "draining" or "done"
  due,         \* next_run_time of the job; 0 when there is no job
  accepting,   \* _accepting
  scheduled,   \* _scheduled: slots, or Skipped for None
  expected,    \* _interval_next
  run,         \* the job task of each submission
  caller       \* the calls of stop()

policy == <<interval, skipMissed, skipOverlap>>
vars == <<policy, now, started, shutdown, due, accepting, scheduled, expected, run, caller>>

(* at: where the task is; times: run times it has still to go through;     *)
(* backlog: slots had been missed when it was submitted; got: the          *)
(* occurrence it fires with.                                               *)
NoRun == [at |-> "none", times |-> <<>>, slot |-> 0, backlog |-> FALSE, got |-> 0]

Init ==
  /\ interval \in BOOLEAN /\ skipMissed \in BOOLEAN /\ skipOverlap \in BOOLEAN
  /\ now = 0 /\ started = FALSE /\ shutdown = "none"
  /\ due = 0 /\ accepting = FALSE
  /\ scheduled = <<>> /\ expected = 0
  /\ run = [r \in Runs |-> NoRun]
  /\ caller = [c \in Callers |-> "idle"]

Coalesced == interval \/ ~skipMissed

Busy == {r \in Runs : run[r].at \in {"created", "between", "firing"}}
Firing == {r \in Runs : run[r].at = "firing"}

(* Tasks begin in the order they were made; one that has begun goes on by  *)
(* itself to its next run time.                                            *)
Runnable(r) ==
  \/ run[r].at = "between"
  \/ run[r].at = "created" /\ \A q \in Runs : run[q].at = "created" => run[r].slot <= run[q].slot

Left(times) == IF times = <<>> THEN "over" ELSE "between"

(* start(), refused while a drain is under way; register() of the endpoint. *)
Start ==
  /\ ~started /\ shutdown # "draining" /\ now < MaxTime
  /\ started' = TRUE /\ shutdown' = "none"
  /\ accepting' = TRUE
  /\ due' = now + 1
  /\ expected' = now + 1
  /\ UNCHANGED <<policy, now, scheduled, run, caller>>

Tick ==
  /\ now < MaxTime
  /\ now' = now + 1
  /\ UNCHANGED <<policy, started, shutdown, due, accepting, scheduled, expected, run, caller>>

(* The run times of a submission at this moment. *)
DueTimes == IF Coalesced THEN <<now>> ELSE [i \in 1 .. now - due + 1 |-> due + i - 1]

(* _on_submission for a job that was submitted. *)
Admission == IF skipMissed /\ now > expected THEN Skipped ELSE now

Noted == IF interval THEN Append(scheduled, Admission) ELSE scheduled \o DueTimes

Submit(r) ==
  /\ due # 0 /\ due <= now
  /\ run[r].at = "none"
  /\ skipOverlap => Busy = {}
  /\ run' = [run EXCEPT ![r] =
       [at |-> "created", times |-> DueTimes, slot |-> now, backlog |-> now > expected, got |-> 0]]
  /\ scheduled' = Noted
  /\ expected' = now + 1
  /\ due' = now + 1
  /\ UNCHANGED <<policy, now, started, shutdown, accepting, caller>>

OverlapNoted ==   \* Fault: a slot without a task leaves its occurrence behind
  /\ due # 0 /\ due <= now
  /\ skipOverlap /\ Busy # {}
  /\ due' = now + 1
  /\ expected' = now + 1
  /\ scheduled' = Noted
  /\ UNCHANGED <<policy, now, started, shutdown, accepting, run, caller>>

(* EVENT_JOB_MAX_INSTANCES: no task; an interval endpoint counts the slot. *)
Overlap ==
  /\ due # 0 /\ due <= now
  /\ skipOverlap /\ Busy # {}
  /\ due' = now + 1
  /\ expected' = now + 1
  /\ UNCHANGED <<policy, now, started, shutdown, accepting, scheduled, run, caller>>

(* run_coroutine_job reaches its nth remaining run time, the ones before   *)
(* having passed their grace, and calls _scheduled_fire.                   *)
Fire(r, n) ==
  /\ Runnable(r) /\ n \in DOMAIN run[r].times
  /\ Coalesced => n = 1
  /\ LET rest == SubSeq(run[r].times, n + 1, Len(run[r].times)) IN
       IF accepting /\ scheduled # <<>>
         THEN /\ scheduled' = Tail(scheduled)
              /\ run' = [run EXCEPT ![r] = [@ EXCEPT
                   !.times = rest, !.got = Head(scheduled),
                   !.at = IF Head(scheduled) # Skipped THEN "firing"
                          ELSE Left(rest)]]
         ELSE /\ run' = [run EXCEPT ![r] = [@ EXCEPT !.times = rest, !.at = Left(rest)]]
              /\ UNCHANGED scheduled
  /\ UNCHANGED <<policy, now, started, shutdown, due, accepting, expected, caller>>

(* All the remaining run times have passed their grace. *)
Misfire(r) ==
  /\ Runnable(r) /\ ~Coalesced
  /\ run' = [run EXCEPT ![r] = [@ EXCEPT !.times = <<>>, !.at = "over"]]
  /\ UNCHANGED <<policy, now, started, shutdown, due, accepting, scheduled, expected, caller>>

(* The endpoint's function, and the result it waits for, are done. *)
FireReturns(r) ==
  /\ run[r].at = "firing"
  /\ run' = [run EXCEPT ![r].at = Left(run[r].times)]
  /\ UNCHANGED <<policy, now, started, shutdown, due, accepting, scheduled, expected, caller>>

(* The first stop(): close admission, remove the jobs, start the drain. *)
StopAdmission ==
  /\ accepting' = FALSE
  /\ due' = 0
  /\ shutdown' = "draining"

Stop(c) ==
  /\ caller[c] = "idle"
  /\ IF shutdown = "none" /\ ~started
       THEN /\ caller' = [caller EXCEPT ![c] = "returned"]
            /\ UNCHANGED <<accepting, due, shutdown>>
       ELSE /\ caller' = [caller EXCEPT ![c] = "waiting"]
            /\ IF shutdown = "none" THEN StopAdmission
               ELSE UNCHANGED <<accepting, due, shutdown>>
  /\ UNCHANGED <<policy, now, started, scheduled, expected, run>>

(* A caller's context is cancelled or expires; the drain goes on. *)
GiveUp(c) ==
  /\ caller[c] = "waiting"
  /\ caller' = [caller EXCEPT ![c] = "failed"]
  /\ UNCHANGED <<policy, now, started, shutdown, due, accepting, scheduled, expected, run>>

StopReturns(c) ==
  /\ caller[c] = "waiting" /\ shutdown = "done"
  /\ caller' = [caller EXCEPT ![c] = "returned"]
  /\ UNCHANGED <<policy, now, started, shutdown, due, accepting, scheduled, expected, run>>

DrainedByCaller ==   \* Fault: the drain runs in the task of a caller
  /\ shutdown = "draining"
  /\ Firing = {} /\ \E c \in Callers : caller[c] = "waiting"
  /\ shutdown' = "done" /\ started' = FALSE
  /\ scheduled' = <<>>
  /\ run' = [r \in Runs |-> IF r \in Busy THEN [run[r] EXCEPT !.at = "over"] ELSE run[r]]
  /\ UNCHANGED <<policy, now, due, accepting, expected, caller>>

(* _drain_scheduler: nothing fires any more; the scheduler cancels tasks   *)
(* that have not begun.                                                    *)
Drained ==
  /\ shutdown = "draining"
  /\ Firing = {}
  /\ shutdown' = "done" /\ started' = FALSE
  /\ scheduled' = <<>>
  /\ run' = [r \in Runs |-> IF r \in Busy THEN [run[r] EXCEPT !.at = "over"] ELSE run[r]]
  /\ UNCHANGED <<policy, now, due, accepting, expected, caller>>

Next ==
  \/ Start \/ Tick \/ Overlap \/ Drained
  \/ \E r \in Runs :
       \/ Submit(r) \/ Misfire(r) \/ FireReturns(r)
       \/ \E n \in 1 .. MaxTime : Fire(r, n)
  \/ \E c \in Callers : Stop(c) \/ GiveUp(c) \/ StopReturns(c)

Spec == Init /\ [][Next]_vars

(* Fired functions return and the event loop runs what is ready. *)
Fairness ==
  /\ WF_vars(Drained)
  /\ \A r \in Runs : WF_vars(FireReturns(r)) /\ WF_vars(\E n \in 1 .. MaxTime : Fire(r, n))
  /\ \A c \in Callers : WF_vars(StopReturns(c))

FairSpec == Spec /\ Fairness

-----------------------------------------------------------------------------
TypeOK ==
  /\ policy \in BOOLEAN \X BOOLEAN \X BOOLEAN
  /\ now \in 0 .. MaxTime /\ started \in BOOLEAN /\ shutdown \in {"none", "draining", "done"}
  /\ due \in 0 .. MaxTime + 1 /\ accepting \in BOOLEAN
  /\ scheduled \in Seq(0 .. MaxTime) /\ expected \in 0 .. MaxTime + 1
  /\ run \in [Runs -> [at : {"none", "created", "between", "firing", "over"}, times : Seq(1 .. MaxTime),
                       slot : 0 .. MaxTime, backlog : BOOLEAN, got : 0 .. MaxTime]]
  /\ caller \in [Callers -> {"idle", "waiting", "returned", "failed"}]

(* A coalescing endpoint fires with the occurrence it was submitted for;   *)
(* with the SKIP policy an interval run is dropped exactly when slots      *)
(* before it went by unsubmitted, and one rejected for overlap is none.    *)
FiresOwnOccurrence ==
  \A r \in Runs :
    /\ Coalesced /\ run[r].at = "firing" => run[r].got = run[r].slot
    /\ interval /\ skipMissed /\ run[r].at = "firing" => ~run[r].backlog

(* From stop() to the next start() nothing is submitted and no task fires  *)
(* anew; after the drain no function of an endpoint runs, and no task of   *)
(* the old schedule is left for the next start().                          *)
StoppedIsQuiet ==
  /\ [](/\ shutdown # "none" => ~accepting /\ due = 0
        /\ shutdown = "done" => ~started
        /\ ~started => Busy = {})
  /\ [][shutdown # "none" => Firing' \subseteq Firing]_vars

(* A drain that was begun completes, also when every caller gives up. *)
DrainCompletes == shutdown = "draining" ~> shutdown = "done"
=============================================================================
