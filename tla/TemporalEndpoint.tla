-------------------------- MODULE TemporalEndpoint --------------------------
(***************************************************************************)
(* A Temporal endpoint executed as an Activity: the sink that submits      *)
(* messages (datasink/temporal), the connector (datasource/temporal/       *)
(* connector.py), the infrastructure Workflow and the source that hands an *)
(* attempt to the graph and waits for its result (datasource/temporal/     *)
(* temporal.py).  Only an endpoint with a result stream waits, and only a  *)
(* sink with results waits for the Workflow.  The Temporal server and the  *)
(* SDK's worker are external; what the code relies on is that the id of a  *)
(* Workflow belongs to one execution, that an attempt which fails or times *)
(* out is retried, and that only the current attempt's report counts.      *)
(***************************************************************************)
EXTENDS Integers, FiniteSets

CONSTANTS Requests,     (* submissions of the sink *)
          Messages,     (* ids, for which get_message_id is asked *)
          Streams,      (* stream ids: of the context, or the message's *)
          MaxAttempts   (* maximum_attempts *)

Attempts == 1 .. MaxAttempts

VARIABLES
  hasResult,  \* the endpoint has a result stream
  waits,      \* submissions of sinks that take a result
  connector,  \* "new", "started", "admitting", "draining", "stopped"
  idOf,       \* the message of each request
  streamOf,   \* the stream id in the envelope of each message's Workflow
  request,    \* where each submission is
  execution,  \* what the server knows of each message's Workflow
  foreign,    \* messages whose Workflow id somebody else uses
  current,    \* the attempt that counts, 0 before the first
  attempt,    \* where each attempt is in the worker
  pending,    \* _pending of the source: the attempts whose futures are there
  answered    \* attempts whose future has its result

setup == <<hasResult, waits, idOf, streamOf, foreign>>
vars == <<setup, connector, request, execution, current, attempt, pending, answered>>

Init ==
  /\ hasResult \in BOOLEAN /\ waits \in SUBSET Requests
  /\ connector = "new"
  /\ idOf \in [Requests -> Messages] /\ streamOf \in [Messages -> Streams]
  /\ request = [r \in Requests |-> "new"]
  /\ foreign \in SUBSET Messages
  /\ execution = [m \in Messages |-> IF m \in foreign THEN "running" ELSE "none"]
  /\ current = [m \in Messages |-> 0]
  /\ attempt = [m \in Messages |-> [n \in Attempts |-> "none"]]
  /\ pending = {}
  /\ answered = {}

-----------------------------------------------------------------------------
(* Lifecycle of the connector. *)
Start ==
  /\ connector = "new" /\ connector' = "started"
  /\ UNCHANGED <<setup, request, execution, current, attempt, pending, answered>>

StartAdmission ==
  /\ connector = "started" /\ connector' = "admitting"
  /\ UNCHANGED <<setup, request, execution, current, attempt, pending, answered>>

Active(m, n) == attempt[m][n] \in {"invoking", "waiting"}

(* The workers stop polling; their activities end, or are cancelled after  *)
(* the worker's timeout.  Submissions go on.                               *)
StopAdmission ==
  /\ connector = "admitting" /\ connector' = "draining"
  /\ UNCHANGED <<setup, request, execution, current, attempt, pending, answered>>

Stop ==
  /\ connector \in {"started", "draining"}
  /\ \A m \in Messages, n \in Attempts : ~Active(m, n)
  /\ connector' = "stopped"
  /\ UNCHANGED <<setup, request, execution, current, attempt, pending, answered>>

-----------------------------------------------------------------------------
Ask(r, where) == request' = [request EXCEPT ![r] = where]

(* submit_endpoint: start_workflow rejects the id of a Workflow that is    *)
(* over and attaches to one that runs, whoever started it, ...             *)
Submit(r) ==
  LET m == idOf[r] IN
  /\ request[r] = "new" /\ connector # "new"
  /\ IF connector = "stopped" \/ execution[m] \notin {"none", "running"}
       THEN Ask(r, "failed") /\ UNCHANGED execution
       ELSE Ask(r, "started") /\ execution' = [execution EXCEPT ![m] = "running"]
  /\ UNCHANGED <<setup, connector, current, attempt, pending, answered>>

(* ... so that its type and memo have to be looked at.  A submission that  *)
(* waits for no result is then over.                                       *)
Validate(r) ==
  /\ request[r] = "started"
  /\ Ask(r, IF idOf[r] \in foreign THEN "failed" ELSE IF r \in waits THEN "waiting" ELSE "submitted")
  /\ UNCHANGED <<setup, connector, execution, current, attempt, pending, answered>>

(* The result of the Workflow, which the sink emits. *)
Answer(r) ==
  /\ request[r] = "waiting" /\ execution[idOf[r]] \in {"completed", "failed"}
  /\ Ask(r, IF execution[idOf[r]] = "completed" THEN "answered" ELSE "failed")
  /\ UNCHANGED <<setup, connector, execution, current, attempt, pending, answered>>

-----------------------------------------------------------------------------
(* The server: execute_activity of the infrastructure Workflow. *)
Schedule(m) ==
  /\ execution[m] = "running" /\ m \notin foreign /\ current[m] = 0
  /\ current' = [current EXCEPT ![m] = 1]
  /\ UNCHANGED <<setup, connector, request, execution, attempt, pending, answered>>

(* An attempt fails, for the server: another one follows, or the Workflow fails. *)
Retry(m) ==
  IF current[m] < MaxAttempts
    THEN current' = [current EXCEPT ![m] = @ + 1] /\ UNCHANGED execution
    ELSE execution' = [execution EXCEPT ![m] = "failed"] /\ UNCHANGED current

Counts(m, n) == current[m] = n /\ execution[m] = "running"

(* The attempt takes longer than start_to_close, or misses its heartbeat;  *)
(* the worker goes on with it.                                             *)
TimeOut(m) ==
  /\ \E n \in Attempts : Counts(m, n) /\ Active(m, n)
  /\ Retry(m)
  /\ UNCHANGED <<setup, connector, request, attempt, pending, answered>>

(* The Workflow of the other owner ends some day. *)
ForeignEnds(m) ==
  /\ m \in foreign /\ execution[m] = "running"
  /\ execution' = [execution EXCEPT ![m] = "completed"]
  /\ UNCHANGED <<setup, connector, request, current, attempt, pending, answered>>

-----------------------------------------------------------------------------
At(m, n, where) == attempt' = [attempt EXCEPT ![m][n] = where]

(* The entry of a stream id, which different messages may share, and the   *)
(* other entries.                                                          *)
Entry(s) == {p \in pending : streamOf[p[1]] = s}
Others(s) == pending \ Entry(s)

ActivateFreeing(m, n) ==   \* Fault: an execution that is refused clears the other's entry
  /\ connector = "admitting" /\ Counts(m, n) /\ attempt[m][n] = "none"
  /\ IF hasResult /\ Entry(streamOf[m]) # {}
       THEN At(m, n, "raised") /\ Retry(m) /\ pending' = Others(streamOf[m])
       ELSE /\ At(m, n, "invoking")
            /\ pending' = IF hasResult THEN Others(streamOf[m]) \union {<<m, n>>} ELSE pending
            /\ UNCHANGED <<execution, current>>
  /\ UNCHANGED <<setup, connector, request, answered>>

(* activate(): with a result stream one execution of a stream id at a      *)
(* time, a second one raises.                                              *)
Activate(m, n) ==
  /\ connector = "admitting" /\ Counts(m, n) /\ attempt[m][n] = "none"
  /\ IF hasResult /\ Entry(streamOf[m]) # {}
       THEN At(m, n, "raised") /\ Retry(m) /\ UNCHANGED pending
       ELSE /\ At(m, n, "invoking")
            /\ pending' = IF hasResult THEN Others(streamOf[m]) \union {<<m, n>>} ELSE pending
            /\ UNCHANGED <<execution, current>>
  /\ UNCHANGED <<setup, connector, request, answered>>

(* The graph has been entered and has returned; now its result counts. *)
Invoked(m, n) ==
  /\ attempt[m][n] = "invoking" /\ hasResult
  /\ At(m, n, "waiting")
  /\ UNCHANGED <<setup, connector, request, execution, current, pending, answered>>

(* consume_result: by the stream id, whichever attempt produced it; none   *)
(* pending is late, a second one a duplicate.                              *)
ConsumeResult(s) ==
  /\ \E m \in Messages, n \in Attempts : streamOf[m] = s /\ attempt[m][n] # "none"
  /\ Entry(s) \ answered # {}
  /\ answered' = answered \union Entry(s)
  /\ UNCHANGED <<setup, connector, request, execution, current, attempt, pending>>

Leave(m) == pending' = IF hasResult THEN Others(streamOf[m]) ELSE pending

(* The attempt returns the result, or without a result stream as soon as   *)
(* the graph has returned.                                                 *)
Return(m, n) ==
  /\ IF hasResult THEN attempt[m][n] = "waiting" /\ <<m, n>> \in answered
                  ELSE attempt[m][n] = "invoking"
  /\ At(m, n, "returned") /\ Leave(m)
  /\ IF Counts(m, n) THEN execution' = [execution EXCEPT ![m] = "completed"] ELSE UNCHANGED execution
  /\ UNCHANGED <<setup, connector, request, current, answered>>

(* The graph raises, or the worker cancels the attempt. *)
Raise(m, n) ==
  /\ Active(m, n)
  /\ At(m, n, "raised") /\ Leave(m)
  /\ IF Counts(m, n) THEN Retry(m) ELSE UNCHANGED <<execution, current>>
  /\ UNCHANGED <<setup, connector, request, answered>>

Next ==
  \/ Start \/ StartAdmission \/ StopAdmission \/ Stop
  \/ \E r \in Requests : Submit(r) \/ Validate(r) \/ Answer(r)
  \/ \E m \in Messages :
       \/ Schedule(m) \/ TimeOut(m) \/ ForeignEnds(m)
       \/ \E n \in Attempts : Activate(m, n) \/ Invoked(m, n) \/ Return(m, n) \/ Raise(m, n)
  \/ \E s \in Streams : ConsumeResult(s)

Spec == Init /\ [][Next]_vars

-----------------------------------------------------------------------------
(* Attempts of a message, messages of a stream id and requests for a       *)
(* message share: with a result stream at most one attempt of a stream id  *)
(* is in the graph, and the future that results of that id complete is its *)
(* own.  A request is answered only when such an attempt has returned, its *)
(* future completed, and never by somebody else's Workflow, which is not   *)
(* reported as submitted either.                                           *)
OneExecution ==
  /\ \A m \in Messages, n \in Attempts :
       <<m, n>> \in pending <=> hasResult /\ Active(m, n)
  /\ \A p, q \in pending : streamOf[p[1]] = streamOf[q[1]] => p = q
  /\ \A r \in Requests :
       /\ request[r] = "answered" =>
            \E n \in Attempts : /\ attempt[idOf[r]][n] = "returned"
                               /\ hasResult => <<idOf[r], n>> \in answered
       /\ request[r] \in {"answered", "submitted"} => idOf[r] \notin foreign
=============================================================================
