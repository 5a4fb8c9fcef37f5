------------------------------ MODULE MCSinks ------------------------------
(***************************************************************************)
(* The streaming gRPC sinks, the request sinks, and the serdes that make   *)
(* the bytes of messages, side by side: subject says which of them moves.  *)
(***************************************************************************)
EXTENDS GrpcSink, TLC

CONSTANTS Requests,         (* of RequestSink *)
          Byte, Wide, SizeBytes   (* of Serde *)

ASSUME ByteAssumption == Byte \in Nat \ {0, 1} /\ Wide \in Nat \ {0} /\ SizeBytes \in Nat \ {0}

VARIABLES
  subject,
  kind, sink, reqStage, reqFailed, cancelled, begun, reqEnds, endRaised, reqActive, counted,
  message, reports, reportRaised, exited,
  type, value, side, streamed, prefix, buffer, decoded

requestSinkVars == <<kind, sink, reqStage, reqFailed, cancelled, begun, reqEnds, endRaised,
                     reqActive, counted, message, reports, reportRaised, exited>>

Request == INSTANCE RequestSink WITH
  stage <- reqStage, failed <- reqFailed, ends <- reqEnds, active <- reqActive

serdeVars == <<type, value, side, streamed, prefix, buffer, decoded>>

Codec == INSTANCE Serde WITH outcome <- decoded

FirstSid == CHOOSE s \in Sids : TRUE

(* The first two messages share a stream id, as do all for the other       *)
(* subjects.                                                               *)
MCInit ==
  /\ subject \in {"sessions", "requests", "serde"}
  /\ subject # "serde" => type = <<"bool">> /\ value = FALSE /\ side = "service" /\ prefix = <<>>
  /\ Init /\ Request!Init /\ Codec!Init
  /\ sid[1] = FirstSid /\ sid[2] = FirstSid
  /\ subject # "sessions" => mode = "client" /\ \A i \in Items : sid[i] = FirstSid
  /\ subject # "requests" => kind = "local"

SessionsNext == subject = "sessions" /\ Next /\ UNCHANGED <<subject, requestSinkVars, serdeVars>>

RequestsNext == subject = "requests" /\ Request!Next /\ UNCHANGED <<subject, vars, serdeVars>>

SerdeNext == subject = "serde" /\ Codec!Next /\ UNCHANGED <<subject, vars, requestSinkVars>>

MCSpec == MCInit /\ [][SessionsNext \/ RequestsNext \/ SerdeNext]_<<subject, vars, requestSinkVars, serdeVars>>

MCFairSpec == MCSpec /\ Fairness /\ Request!Fairness

(* RequestSink's: end_request follows begin_request once unless the task   *)
(* of the request is cancelled, and every Kafka message handed over is     *)
(* reported unless its task is, or the process exits.                      *)
RequestsEnd == [](Request!EndMatchesBegin /\ Request!ReportMatchesSend) /\ Request!SendReported

(* Serde's: what was written is read back, and missing bytes are noticed.  *)
ReadsBack == Codec!ReadsBack
=============================================================================
