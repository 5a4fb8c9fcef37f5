----------------------------- MODULE RequestSink -----------------------------
(***************************************************************************)
(* The sinks that make one request of each message: the local, HTTP, unary *)
(* and server-streaming gRPC sinks, and the Kafka sink, whose messages go  *)
(* out in tasks that outlive the request.  A data sink is started once and *)
(* stopped once; one action runs from one await to the next.  What leaves  *)
(* consume() is its caller's; what leaves a task that sends a Kafka        *)
(* message ends the process.                                               *)
(*                                                                         *)
(* External: the handler's callbacks, the HTTP and gRPC peers, the Kafka   *)
(* producer, whose stop() answers what it still holds.                     *)
(***************************************************************************)
EXTENDS Integers, FiniteSets

CONSTANT Requests   (* calls of consume() *)

VARIABLES
  kind,      \* "local", "http", "unary", "server" or "kafka"
  sink,      \* "new", "up", "stopping" or "down"
  stage,     \* where each request's coroutine is
  failed,    \* requests whose end_err is set
  cancelled, \* requests whose task was cancelled
  begun,     \* requests whose begin_request returned
  ends,      \* calls of end_request for each
  endRaised, \* requests whose end_request raised
  active,    \* the gauge active_requests
  counted,   \* messages_total
  message,   \* the Kafka message each request sent, on its way
  reports,   \* calls of on_delivery for it
  reportRaised, \* messages whose on_delivery raised
  exited        \* os._exit(2)

requestVars == <<stage, failed, cancelled, begun, ends, endRaised, active, counted>>
sendVars == <<message, reports, reportRaised, exited>>
vars == <<kind, sink, requestVars, sendVars>>

Init ==
  /\ kind \in {"local", "http", "unary", "server", "kafka"}
  /\ sink = "new"
  /\ stage = [r \in Requests |-> "new"]
  /\ failed = {} /\ cancelled = {} /\ begun = {} /\ endRaised = {} /\ reportRaised = {}
  /\ ends = [r \in Requests |-> 0]
  /\ active = 0 /\ counted = 0
  /\ message = [r \in Requests |-> "none"]
  /\ reports = [r \in Requests |-> 0] /\ exited = FALSE

Enter(r, s) == stage' = [stage EXCEPT ![r] = s]
EndRequest(r) == ends' = [ends EXCEPT ![r] = @ + 1]
OnDelivery(r) == reports' = [reports EXCEPT ![r] = @ + 1]

(* on_request_end *)
Count(err) ==
  /\ active' = active - 1
  /\ counted' = IF err THEN counted ELSE counted + 1

-----------------------------------------------------------------------------
(* start() and stop() of the data sink *)
Start ==
  /\ sink = "new"
  /\ sink' = "up"
  /\ UNCHANGED <<kind, requestVars, sendVars>>

(* Kafka: _stopped is set, then the producer's stop() flushes. *)
Stop ==
  /\ sink = "up"
  /\ sink' = "stopping"
  /\ UNCHANGED <<kind, requestVars, sendVars>>

Stopped ==
  /\ sink = "stopping"
  /\ \A r \in Requests : message[r] # "sent"
  /\ sink' = "down"
  /\ UNCHANGED <<kind, requestVars, sendVars>>

-----------------------------------------------------------------------------
(* consume(): a session (HTTP) or an enabled consumer (Kafka) is needed.   *)
Admits ==
  CASE kind = "http"  -> sink \in {"up", "stopping"}
    [] kind = "kafka" -> sink \in {"up", "stopping"}
    [] OTHER          -> TRUE

Drop(r) ==
  /\ stage[r] = "new" /\ ~Admits
  /\ Enter(r, "over")
  /\ UNCHANGED <<kind, sink, failed, cancelled, begun, ends, endRaised, active, counted, sendVars>>

Open(r) ==
  /\ stage[r] = "new" /\ Admits /\ kind # "kafka"
  /\ active' = active + 1
  /\ Enter(r, "beginning")
  /\ UNCHANGED <<kind, sink, failed, cancelled, begun, ends, endRaised, counted, sendVars>>

Begun(r) ==
  /\ stage[r] = "beginning"
  /\ begun' = begun \union {r}
  /\ Enter(r, "consuming")
  /\ UNCHANGED <<kind, sink, failed, cancelled, ends, endRaised, active, counted, sendVars>>

(* The local sink lets the error out and does not record it. *)
BeginFails(r) ==
  /\ stage[r] = "beginning"
  /\ Count(kind # "local")
  /\ Enter(r, "over")
  /\ UNCHANGED <<kind, sink, failed, cancelled, begun, ends, endRaised, sendVars>>

(* Kafka's begin_request does not suspend; it is counted once begun. *)
KafkaOpen(r) ==
  /\ stage[r] = "new" /\ Admits /\ kind = "kafka"
  /\ \/ /\ active' = active + 1
        /\ begun' = begun \union {r}
        /\ Enter(r, "consuming")
     \/ Enter(r, "over") /\ UNCHANGED <<active, begun>>
  /\ UNCHANGED <<kind, sink, failed, cancelled, ends, endRaised, counted, sendVars>>

(* The local and Kafka sinks are done once the message is consumed; the    *)
(* others call, and only if the handler has set a request (gRPC).          *)
Consumed(r) ==
  /\ stage[r] = "consuming"
  /\ IF kind \in {"local", "kafka"}
       THEN EndRequest(r) /\ Enter(r, "ending")
       ELSE Enter(r, "calling") /\ UNCHANGED ends
  /\ UNCHANGED <<kind, sink, failed, cancelled, begun, endRaised, active, counted, sendVars>>

(* consume_message or handle_response raises, no request was set, the call *)
(* fails or its next response does.                                        *)
Fail(r) ==
  /\ stage[r] \in {"consuming", "calling", "responding"}
  /\ failed' = failed \union {r}
  /\ EndRequest(r)
  /\ Enter(r, "failing")
  /\ UNCHANGED <<kind, sink, cancelled, begun, endRaised, active, counted, sendVars>>

(* A response, the only one but for a server stream. *)
Answered(r) ==
  /\ stage[r] = "calling"
  /\ Enter(r, "responding")
  /\ UNCHANGED <<kind, sink, failed, cancelled, begun, ends, endRaised, active, counted, sendVars>>

EndOfStream(r) ==
  /\ stage[r] = "calling" /\ kind = "server"
  /\ EndRequest(r)
  /\ Enter(r, "ending")
  /\ UNCHANGED <<kind, sink, failed, cancelled, begun, endRaised, active, counted, sendVars>>

Responded(r) ==
  /\ stage[r] = "responding"
  /\ IF kind = "server"
       THEN Enter(r, "calling") /\ UNCHANGED ends
       ELSE EndRequest(r) /\ Enter(r, "ending")
  /\ UNCHANGED <<kind, sink, failed, cancelled, begun, endRaised, active, counted, sendVars>>

EndReturns(r) ==
  /\ stage[r] \in {"ending", "failing"}
  /\ Count(r \in failed)
  /\ Enter(r, "over")
  /\ UNCHANGED <<kind, sink, failed, cancelled, begun, ends, endRaised, sendVars>>

(* end_request raises.  In the local and Kafka sinks the first call is in  *)
(* the same try as consume_message, and the handler of that calls again.   *)
EndRaises(r) ==
  /\ stage[r] \in {"ending", "failing"}
  /\ endRaised' = endRaised \union {r}
  /\ IF stage[r] = "ending" /\ kind \in {"local", "kafka"}
       THEN /\ failed' = failed \union {r}
            /\ EndRequest(r)
            /\ Enter(r, "failing")
            /\ UNCHANGED <<active, counted>>
       ELSE /\ Count(r \in failed)
            /\ Enter(r, "over")
            /\ UNCHANGED <<failed, ends>>
  /\ UNCHANGED <<kind, sink, cancelled, begun, sendVars>>

(* The task that runs consume() is cancelled.  CancelledError passes every *)
(* except Exception: no end_request follows, and on_request_end has the    *)
(* error that was recorded before.                                         *)
Cancel(r) ==
  /\ stage[r] \notin {"new", "over"}
  /\ cancelled' = cancelled \union {r}
  /\ Count(r \in failed)
  /\ Enter(r, "over")
  /\ UNCHANGED <<kind, sink, failed, begun, ends, endRaised, sendVars>>

-----------------------------------------------------------------------------
(* Kafka: SinkMessage.send starts a task. *)
Send(r) ==
  /\ kind = "kafka" /\ stage[r] = "consuming" /\ message[r] = "none"
  /\ message' = [message EXCEPT ![r] = "queued"]
  /\ UNCHANGED <<kind, sink, requestVars, reports, reportRaised, exited>>

ProduceQuietly(r) ==   \* Fault: a stopped sink drops the message without a report
  /\ message[r] = "queued"
  /\ message' = [message EXCEPT ![r] = IF sink = "up" THEN "sent" ELSE "over"]
  /\ UNCHANGED <<kind, sink, requestVars, reports, reportRaised, exited>>

(* partitions_for and send_message; a sink that is stopped reports at      *)
(* once, and so does one whose topic has no partitions or whose            *)
(* partitioner raises.                                                     *)
Produce(r) ==
  /\ message[r] = "queued"
  /\ \/ /\ sink = "up"
        /\ message' = [message EXCEPT ![r] = "sent"]
        /\ UNCHANGED reports
     \/ /\ OnDelivery(r)
        /\ message' = [message EXCEPT ![r] = "over"]
  /\ UNCHANGED <<kind, sink, requestVars, reportRaised, exited>>

(* The producer answers, the callback returns, ... *)
Delivered(r) ==
  /\ message[r] = "sent"
  /\ OnDelivery(r)
  /\ message' = [message EXCEPT ![r] = "over"]
  /\ UNCHANGED <<kind, sink, requestVars, reportRaised, exited>>

(* ... or raises, within the try that reports a failed send.               *)
ReportRaises(r) ==
  /\ message[r] = "sent"
  /\ reports' = [reports EXCEPT ![r] = @ + 2]
  /\ message' = [message EXCEPT ![r] = "over"]
  /\ reportRaised' = reportRaised \union {r}
  /\ UNCHANGED <<kind, sink, requestVars, exited>>

(* The report of a failure raises: create_task ends the process.           *)
Exit(r) ==
  /\ message[r] \in {"queued", "sent"}
  /\ exited' = TRUE
  /\ UNCHANGED <<kind, sink, requestVars, message, reports, reportRaised>>

(* stop() of the service cancels the task at its deadline, silently.       *)
CancelSend(r) ==
  /\ message[r] \in {"queued", "sent"}
  /\ message' = [message EXCEPT ![r] = "lost"]
  /\ UNCHANGED <<kind, sink, requestVars, reports, reportRaised, exited>>

Returns(r) == Consumed(r) \/ Answered(r) \/ Responded(r) \/ EndOfStream(r) \/ EndReturns(r)

Next ==
  /\ ~exited
  /\ \/ Start \/ Stop \/ Stopped
     \/ \E r \in Requests :
          \/ Drop(r) \/ Open(r) \/ Begun(r) \/ BeginFails(r) \/ KafkaOpen(r)
          \/ Returns(r) \/ Fail(r) \/ EndRaises(r) \/ Cancel(r)
          \/ Send(r) \/ Produce(r) \/ Delivered(r) \/ ReportRaises(r)
          \/ Exit(r) \/ CancelSend(r)

Spec == Init /\ [][Next]_vars

(* Tasks run, and the producer answers what it was given. *)
Fairness ==
  \A r \in Requests :
    /\ WF_vars(~exited /\ Produce(r))
    /\ WF_vars(~exited /\ (Delivered(r) \/ ReportRaises(r)))

-----------------------------------------------------------------------------
(* end_request is called only for a request that began, once unless the    *)
(* first call itself raised; a request that began and is over has had its  *)
(* end_request unless its task was cancelled before that; and the gauge    *)
(* counts the requests that are not over, cancelled ones included.         *)
EndMatchesBegin ==
  /\ \A r \in Requests :
       /\ r \notin begun => ends[r] = 0
       /\ stage[r] = "over" /\ r \in begun => ends[r] > 0 \/ r \in cancelled
       /\ ends[r] <= IF r \in endRaised THEN 2 ELSE 1
  /\ active = Cardinality({r \in Requests : stage[r] \notin {"new", "over"}})

(* Nothing of a Kafka message is reported while it is on its way or once   *)
(* its task was cancelled; what is over was reported, once unless the      *)
(* report raised; and a sink that is down has left no message with its     *)
(* producer.                                                               *)
ReportMatchesSend ==
  \A r \in Requests :
    /\ reports[r] = CASE message[r] # "over" -> 0
                     [] r \in reportRaised -> 2
                     [] OTHER -> 1
    /\ sink = "down" => message[r] # "sent"

(* A message that was handed over for sending is reported, once unless the *)
(* report raised, also when the sink stops meanwhile or the request that   *)
(* sent it is cancelled; unless the task that sends it is cancelled, or a  *)
(* report ends the process.                                                *)
SendReported ==
  \A r \in Requests :
    message[r] = "queued" ~>
      \/ message[r] = "over" /\ reports[r] = IF r \in reportRaised THEN 2 ELSE 1
      \/ message[r] = "lost" \/ exited
=============================================================================
