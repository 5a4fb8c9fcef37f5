--------------------------- MODULE RequestSource ---------------------------
(***************************************************************************)
(* A request of the HTTP, gRPC, custom and Kafka sources, from             *)
(* begin_request to end_request, and the results that find it again by its *)
(* stream id.                                                              *)
(* One action runs from one await to the next.  The four sources share     *)
(* the pending map and the endpoint's gauges and differ in what they       *)
(* reserve, whom they cancel and how callbacks are fenced; transport says  *)
(* which one a behaviour is about.                                         *)
(*                                                                         *)
(* External: the user's handler (which callbacks it registers, when it     *)
(* calls done), the servers that open and cancel requests, the pipeline    *)
(* that delivers results in any order, late and more than once.            *)
(***************************************************************************)
EXTENDS RotatingMap

CONSTANTS Deliveries,  (* results that may be under way at once in a gRPC source *)
          Messages     (* message ids *)

Requests == Values
Sids == Keys
NoRequest == NoValue

VARIABLES
  transport,   \* "http", "grpc", "custom" or "kafka"
  hasResult,   \* _has_result
  started,     \* start() made the pending map
  admitting,   \* the server or the producer still opens requests
  rotating,    \* the rotation loop of the pending map runs
  stage, sid,  \* where each request's coroutine is; its stream id
  done,        \* requests whose completion future is set
  callbacks,   \* _callbacks of each request, by message id
  delivery,    \* the calls of _consume_result that await (gRPC)
  begun,       \* requests whose begin_request has returned
  ends,        \* how often end_request was called
  active, pending  \* the gauges active_requests and pending_requests

sourceVars == <<transport, hasResult, started, admitting, rotating>>
requestVars == <<stage, sid, done, callbacks, begun, ends>>
vars == <<sourceVars, requestVars, delivery, active, pending, mapVars>>

Stages == {"new", "beginning", "consuming", "awaiting", "finalizing", "ending",
           "ended", "rejecting", "over"}

Idle == [at |-> "idle"]
Active(a, r, m) == [at |-> a, request |-> r, message |-> m]

Enter(r, s) == stage' = [stage EXCEPT ![r] = s]

EndRequest(r) == ends' = [ends EXCEPT ![r] = @ + 1]

-----------------------------------------------------------------------------
(* The endpoint's gauges (DataSourceEndpoint). *)

RequestStarted == active' = active + 1

RequestEnded == active' = active - 1

PendingAdded == pending' = pending + 1

PendingRemoved == pending' = pending - 1

-----------------------------------------------------------------------------
Init ==
  /\ transport \in {"http", "grpc", "custom", "kafka"}
  /\ hasResult \in BOOLEAN
  /\ started = FALSE /\ admitting = (transport = "grpc") /\ rotating = FALSE
  /\ stage = [r \in Requests |-> "new"]
  /\ sid \in [Requests -> Sids]
  /\ transport = "kafka" => \A r, q \in Requests : r # q => sid[r] # sid[q]   \* new_stream_id()
  /\ done = {} /\ begun = {}
  /\ callbacks = [r \in Requests |-> {}]
  /\ delivery = [d \in Deliveries |-> Idle]
  /\ ends = [r \in Requests |-> 0]
  /\ active = 0 /\ pending = 0
  /\ MapInit

(* start() of the consumer.  A gRPC server is the application's and may    *)
(* call before; HTTP and custom requests come from what start() starts.    *)
HttpStart ==
  /\ transport = "http" /\ ~started
  /\ started' = TRUE /\ admitting' = TRUE /\ rotating' = hasResult
  /\ UNCHANGED <<transport, hasResult, requestVars, delivery, active, pending, mapVars>>

GrpcStart ==
  /\ transport = "grpc" /\ ~started
  /\ started' = TRUE /\ rotating' = TRUE
  /\ UNCHANGED <<transport, hasResult, admitting, requestVars, delivery, active, pending, mapVars>>

CustomStart ==
  /\ transport = "custom" /\ ~started
  /\ started' = TRUE /\ admitting' = TRUE /\ rotating' = hasResult
  /\ UNCHANGED <<transport, hasResult, requestVars, delivery, active, pending, mapVars>>

KafkaStart ==
  /\ transport = "kafka" /\ ~started
  /\ started' = TRUE /\ admitting' = TRUE /\ rotating' = hasResult
  /\ UNCHANGED <<transport, hasResult, requestVars, delivery, active, pending, mapVars>>

(* The listener closes, or stop() sets _stopped; requests go on. *)
CloseAdmission ==
  /\ started /\ admitting
  /\ admitting' = FALSE
  /\ UNCHANGED <<transport, hasResult, started, rotating, requestVars, delivery, active, pending, mapVars>>

(* stop() of the consumer cancels the rotation loop and keeps the map; a   *)
(* Kafka source has waited for its requests before.                        *)
StopRotation ==
  /\ rotating
  /\ transport \in {"custom", "kafka"} => ~admitting
  /\ transport = "kafka" => \A r \in Requests : stage[r] \in {"new", "over"}
  /\ rotating' = FALSE
  /\ UNCHANGED <<transport, hasResult, started, admitting, requestVars, delivery, active, pending, mapVars>>

RotationTick ==
  /\ rotating
  /\ Rotate
  /\ UNCHANGED <<sourceVars, requestVars, delivery, active, pending>>

-----------------------------------------------------------------------------
(* What the user's handler does with a result context in the meantime. *)

InHands(r) == hasResult /\ stage[r] \in {"consuming", "awaiting"}

(* set_result_callback *)
Register(r, m) ==
  /\ InHands(r) /\ m \notin callbacks[r]
  /\ callbacks' = [callbacks EXCEPT ![r] = @ \union {m}]
  /\ UNCHANGED <<sourceVars, stage, sid, done, begun, ends, delivery, active, pending, mapVars>>

(* done() of the context, or send() of a unary sender. *)
SetDone(r) ==
  /\ InHands(r) /\ r \notin done
  /\ done' = done \union {r}
  /\ UNCHANGED <<sourceVars, stage, sid, callbacks, begun, ends, delivery, active, pending, mapVars>>

-----------------------------------------------------------------------------
(* HTTP: _serve_http *)

HttpOpen(r) ==
  /\ transport = "http" /\ admitting /\ stage[r] = "new"
  /\ Enter(r, "beginning")
  /\ RequestStarted
  /\ UNCHANGED <<sourceVars, sid, done, callbacks, begun, ends, delivery, pending, mapVars>>

HttpBeginFails(r) ==
  /\ transport = "http" /\ stage[r] = "beginning"
  /\ Enter(r, "over")
  /\ RequestEnded
  /\ UNCHANGED <<sourceVars, sid, done, callbacks, begun, ends, delivery, pending, mapVars>>

(* A second request with the id of a pending one: set() raises and only    *)
(* the outer finally runs.                                                 *)
HttpBegun(r) ==
  /\ transport = "http" /\ stage[r] = "beginning"
  /\ begun' = begun \union {r}
  /\ IF ~hasResult
       THEN Enter(r, "consuming") /\ UNCHANGED <<active, pending, mapVars>>
       ELSE IF Has(sid[r])
              THEN Enter(r, "over") /\ RequestEnded /\ UNCHANGED <<pending, mapVars>>
              ELSE /\ Enter(r, "consuming")
                   /\ Set(sid[r], r)
                   /\ PendingAdded
                   /\ UNCHANGED active
  /\ UNCHANGED <<sourceVars, sid, done, callbacks, ends, delivery>>

(* The request leaves the map and end_request is awaited. *)
HttpConclude(r) ==
  /\ Enter(r, "ending")
  /\ EndRequest(r)
  /\ IF hasResult THEN Pop(sid[r]) /\ PendingRemoved ELSE UNCHANGED <<mapVars, pending>>
  /\ UNCHANGED <<sourceVars, sid, done, callbacks, begun, delivery, active>>

HttpConsumeFails(r) ==
  /\ transport = "http" /\ stage[r] = "consuming"
  /\ HttpConclude(r)

(* consume_message returns; a completion future that is set is not waited for. *)
HttpConsumed(r) ==
  /\ transport = "http" /\ stage[r] = "consuming"
  /\ IF hasResult /\ r \notin done
       THEN /\ Enter(r, "awaiting")
            /\ UNCHANGED <<sourceVars, sid, done, callbacks, begun, ends, delivery, active, pending, mapVars>>
       ELSE HttpConclude(r)

HttpAnswered(r) ==
  /\ transport = "http" /\ stage[r] = "awaiting" /\ r \in done
  /\ HttpConclude(r)

(* aiohttp cancels what is left when its shutdown time is over: only the   *)
(* wait for the result handles it.                                         *)
HttpCancel(r) ==
  /\ transport = "http" /\ ~admitting
  /\ \/ stage[r] = "awaiting" /\ HttpConclude(r)
     \/ /\ stage[r] \in {"beginning", "consuming", "ending"}
        /\ Enter(r, "over")
        /\ RequestEnded
        /\ UNCHANGED <<sourceVars, sid, done, callbacks, begun, ends, delivery, pending, mapVars>>

HttpEndReturns(r) ==
  /\ transport = "http" /\ stage[r] = "ending"
  /\ Enter(r, "over")
  /\ RequestEnded
  /\ UNCHANGED <<sourceVars, sid, done, callbacks, begun, ends, delivery, pending, mapVars>>

(* _consume_result: lookup, callback and removal in one step. *)
HttpDeliver(s, m, remove, finish) ==
  /\ transport = "http" /\ hasResult
  /\ Has(s)
  /\ LET r == Get(s) IN
       /\ m \in callbacks[r]
       /\ callbacks' = [callbacks EXCEPT ![r] = IF remove THEN @ \ {m} ELSE @]
       /\ done' = IF finish THEN done \union {r} ELSE done
  /\ UNCHANGED <<sourceVars, stage, sid, begun, ends, delivery, active, pending, mapVars>>

-----------------------------------------------------------------------------
(* gRPC: _handle_common_inner.  Every request reserves its id. *)

GrpcOpen(r) ==
  /\ transport = "grpc" /\ admitting /\ stage[r] = "new"
  /\ Enter(r, "beginning")
  /\ UNCHANGED <<sourceVars, sid, done, callbacks, begun, ends, delivery, active, pending, mapVars>>

GrpcBeginFails(r) ==
  /\ transport = "grpc" /\ stage[r] = "beginning"
  /\ Enter(r, "over")
  /\ UNCHANGED <<sourceVars, sid, done, callbacks, begun, ends, delivery, active, pending, mapVars>>

GrpcBegun(r) ==
  /\ transport = "grpc" /\ stage[r] = "beginning"
  /\ begun' = begun \union {r}
  /\ RequestStarted
  /\ IF started /\ ~Has(sid[r])
       THEN /\ Enter(r, "consuming")
            /\ Set(sid[r], r)
            /\ IF hasResult THEN PendingAdded ELSE UNCHANGED pending
            /\ UNCHANGED ends
       ELSE Enter(r, "rejecting") /\ EndRequest(r) /\ UNCHANGED <<pending, mapVars>>
  /\ UNCHANGED <<sourceVars, sid, done, callbacks, delivery>>

(* result.closed is set and the finalization task is made. *)
GrpcClose(r) ==
  /\ Enter(r, "finalizing")
  /\ UNCHANGED <<sourceVars, sid, done, callbacks, begun, ends, delivery, active, pending, mapVars>>

Closed(r) == stage[r] \in {"finalizing", "ending", "ended", "over"}

GrpcConsumeFails(r) ==
  /\ transport = "grpc" /\ stage[r] = "consuming"
  /\ GrpcClose(r)

GrpcConsumed(r) ==
  /\ transport = "grpc" /\ stage[r] = "consuming"
  /\ IF hasResult /\ r \notin done
       THEN /\ Enter(r, "awaiting")
            /\ UNCHANGED <<sourceVars, sid, done, callbacks, begun, ends, delivery, active, pending, mapVars>>
       ELSE GrpcClose(r)

GrpcAnswered(r) ==
  /\ transport = "grpc" /\ stage[r] = "awaiting" /\ r \in done
  /\ GrpcClose(r)

(* The client gives up or its deadline passes.  The finalization is        *)
(* shielded; the end_request of a rejected opening is not, and then        *)
(* on_request_end is skipped.                                              *)
GrpcCancel(r) ==
  /\ transport = "grpc"
  /\ \/ stage[r] \in {"consuming", "awaiting"} /\ GrpcClose(r)
     \/ /\ stage[r] \in {"beginning", "rejecting"}
        /\ Enter(r, "over")
        /\ UNCHANGED <<sourceVars, sid, done, callbacks, begun, ends, delivery, active, pending, mapVars>>

GrpcRejected(r) ==
  /\ transport = "grpc" /\ stage[r] = "rejecting"
  /\ Enter(r, "over")
  /\ RequestEnded
  /\ UNCHANGED <<sourceVars, sid, done, callbacks, begun, ends, delivery, pending, mapVars>>

Readers(r) == {d \in Deliveries : delivery[d].at = "running" /\ delivery[d].request = r}

GrpcFinalizeSharedLock(r) ==   \* Fault: one lifetime lock for all requests
  /\ transport = "grpc" /\ stage[r] = "finalizing"
  /\ \A d \in Deliveries : delivery[d] = Idle
  /\ Enter(r, "ending")
  /\ EndRequest(r)
  /\ UNCHANGED <<sourceVars, sid, done, callbacks, begun, delivery, active, pending, mapVars>>

(* finish_request has the write side of the lifetime lock. *)
GrpcFinalize(r) ==
  /\ transport = "grpc" /\ stage[r] = "finalizing"
  /\ Readers(r) = {}
  /\ Enter(r, "ending")
  /\ EndRequest(r)
  /\ UNCHANGED <<sourceVars, sid, done, callbacks, begun, delivery, active, pending, mapVars>>

GrpcEndReturns(r) ==
  /\ transport = "grpc" /\ stage[r] = "ending"
  /\ Enter(r, "ended")
  /\ RequestEnded
  /\ UNCHANGED <<sourceVars, sid, done, callbacks, begun, ends, delivery, pending, mapVars>>

(* The finally of _handle_common_inner. *)
GrpcRelease(r) ==
  /\ transport = "grpc" /\ stage[r] = "ended"
  /\ Enter(r, "over")
  /\ callbacks' = [callbacks EXCEPT ![r] = {}]
  /\ Pop(sid[r])
  /\ IF hasResult THEN PendingRemoved ELSE UNCHANGED pending
  /\ UNCHANGED <<sourceVars, sid, done, begun, ends, delivery, active>>

(* _consume_result up to the read side of the lifetime lock. *)
GrpcDeliver(d, s, m) ==
  /\ transport = "grpc" /\ hasResult /\ started
  /\ delivery[d] = Idle
  /\ Has(s) /\ ~Closed(Get(s))
  /\ delivery' = [delivery EXCEPT ![d] = Active("asking", Get(s), m)]
  /\ UNCHANGED <<sourceVars, requestVars, active, pending, mapVars>>

Asking(d, r) == delivery[d].at = "asking" /\ delivery[d].request = r

(* With the lock: the request is still current, its callback is called. *)
CallbackBegin(d, r) ==
  /\ Asking(d, r)
  /\ ~Closed(r) /\ Get(sid[r]) = r
  /\ delivery[d].message \in callbacks[r]
  /\ delivery' = [delivery EXCEPT ![d].at = "running"]
  /\ UNCHANGED <<sourceVars, requestVars, active, pending, mapVars>>

(* A late result, or one whose message id is not known. *)
DeliveryDropped(d, r) ==
  /\ Asking(d, r) /\ stage[r] # "ending"
  /\ \/ Closed(r) \/ Get(sid[r]) # r
     \/ delivery[d].message \notin callbacks[r]
  /\ delivery' = [delivery EXCEPT ![d] = Idle]
  /\ UNCHANGED <<sourceVars, requestVars, active, pending, mapVars>>

CallbackReturns(d, remove, finish) ==
  /\ delivery[d].at = "running"
  /\ LET r == delivery[d].request IN
       /\ callbacks' = [callbacks EXCEPT ![r] = IF remove THEN @ \ {delivery[d].message} ELSE @]
       /\ done' = IF finish THEN done \union {r} ELSE done
  /\ delivery' = [delivery EXCEPT ![d] = Idle]
  /\ UNCHANGED <<sourceVars, stage, sid, begun, ends, active, pending, mapVars>>

-----------------------------------------------------------------------------
(* Custom: _endpoint_request_inner *)

CustomOpen(r) ==
  /\ transport = "custom" /\ admitting /\ stage[r] = "new"
  /\ Enter(r, "beginning")
  /\ RequestStarted
  /\ UNCHANGED <<sourceVars, sid, done, callbacks, begun, ends, delivery, pending, mapVars>>

CustomBeginFails(r) ==
  /\ transport = "custom" /\ stage[r] = "beginning"
  /\ Enter(r, "over")
  /\ RequestEnded
  /\ UNCHANGED <<sourceVars, sid, done, callbacks, begun, ends, delivery, pending, mapVars>>

CustomBegun(r) ==
  /\ transport = "custom" /\ stage[r] = "beginning"
  /\ begun' = begun \union {r}
  /\ IF ~hasResult
       THEN Enter(r, "consuming") /\ UNCHANGED <<active, pending, mapVars>>
       ELSE IF Has(sid[r])
              THEN Enter(r, "over") /\ RequestEnded /\ UNCHANGED <<pending, mapVars>>
              ELSE /\ Enter(r, "consuming")
                   /\ Set(sid[r], r)
                   /\ PendingAdded
                   /\ UNCHANGED active
  /\ UNCHANGED <<sourceVars, sid, done, callbacks, ends, delivery>>

CustomConclude(r) ==
  /\ Enter(r, "ending")
  /\ EndRequest(r)
  /\ IF hasResult THEN Pop(sid[r]) /\ PendingRemoved ELSE UNCHANGED <<mapVars, pending>>
  /\ UNCHANGED <<sourceVars, sid, done, callbacks, begun, delivery, active>>

CustomConsumeFailsOn(r) ==   \* Fault: no return after end_request(err)
  /\ transport = "custom" /\ stage[r] = "consuming"
  /\ Enter(r, "awaiting")
  /\ EndRequest(r)
  /\ UNCHANGED <<sourceVars, sid, done, callbacks, begun, delivery, active, pending, mapVars>>

CustomConsumeFails(r) ==
  /\ transport = "custom" /\ stage[r] = "consuming"
  /\ CustomConclude(r)

CustomConsumed(r) ==
  /\ transport = "custom" /\ stage[r] = "consuming"
  /\ IF hasResult /\ r \notin done
       THEN /\ Enter(r, "awaiting")
            /\ UNCHANGED <<sourceVars, sid, done, callbacks, begun, ends, delivery, active, pending, mapVars>>
       ELSE CustomConclude(r)

CustomAnswered(r) ==
  /\ transport = "custom" /\ stage[r] = "awaiting" /\ r \in done
  /\ CustomConclude(r)

(* The deadline of the context given to start() passes. *)
CustomTimeout(r) ==
  /\ transport = "custom" /\ stage[r] = "awaiting" /\ r \notin done
  /\ CustomConclude(r)

(* stop() gives up waiting and the gather cancels the request's task. *)
CustomCancel(r) ==
  /\ transport = "custom" /\ ~admitting
  /\ stage[r] \in {"beginning", "consuming", "awaiting", "ending"}
  /\ Enter(r, "over")
  /\ RequestEnded
  /\ UNCHANGED <<sourceVars, sid, done, callbacks, begun, ends, delivery, pending, mapVars>>

CustomEndReturns(r) ==
  /\ transport = "custom" /\ stage[r] = "ending"
  /\ Enter(r, "over")
  /\ RequestEnded
  /\ UNCHANGED <<sourceVars, sid, done, callbacks, begun, ends, delivery, pending, mapVars>>

CustomDeliver(s, m, remove, finish) ==
  /\ transport = "custom" /\ hasResult
  /\ Has(s)
  /\ LET r == Get(s) IN
       /\ m \in callbacks[r]
       /\ callbacks' = [callbacks EXCEPT ![r] = IF remove THEN @ \ {m} ELSE @]
       /\ done' = IF finish THEN done \union {r} ELSE done
  /\ UNCHANGED <<sourceVars, stage, sid, begun, ends, delivery, active, pending, mapVars>>

-----------------------------------------------------------------------------
(* Kafka: _endpoint_request_inner; the offsets are KafkaSource's. *)

KafkaOpen(r) ==
  /\ transport = "kafka" /\ admitting /\ stage[r] = "new"
  /\ Enter(r, "beginning")
  /\ UNCHANGED <<sourceVars, sid, done, callbacks, begun, ends, delivery, active, pending, mapVars>>

KafkaBeginFails(r) ==
  /\ transport = "kafka" /\ stage[r] = "beginning"
  /\ Enter(r, "over")
  /\ UNCHANGED <<sourceVars, sid, done, callbacks, begun, ends, delivery, active, pending, mapVars>>

KafkaBegun(r) ==
  /\ transport = "kafka" /\ stage[r] = "beginning"
  /\ begun' = begun \union {r}
  /\ RequestStarted
  /\ Enter(r, "consuming")
  /\ IF hasResult THEN Set(sid[r], r) /\ PendingAdded ELSE UNCHANGED <<pending, mapVars>>
  /\ UNCHANGED <<sourceVars, sid, done, callbacks, ends, delivery>>

KafkaConclude(r) ==
  /\ Enter(r, "ending")
  /\ EndRequest(r)
  /\ IF hasResult THEN Pop(sid[r]) /\ PendingRemoved ELSE UNCHANGED <<mapVars, pending>>
  /\ UNCHANGED <<sourceVars, sid, done, callbacks, begun, delivery, active>>

KafkaConsumeFails(r) ==
  /\ transport = "kafka" /\ stage[r] = "consuming"
  /\ KafkaConclude(r)

KafkaConsumed(r) ==
  /\ transport = "kafka" /\ stage[r] = "consuming"
  /\ IF hasResult /\ r \notin done
       THEN /\ Enter(r, "awaiting")
            /\ UNCHANGED <<sourceVars, sid, done, callbacks, begun, ends, delivery, active, pending, mapVars>>
       ELSE KafkaConclude(r)

KafkaAnswered(r) ==
  /\ transport = "kafka" /\ stage[r] = "awaiting" /\ r \in done
  /\ KafkaConclude(r)

(* _wait_kafka_completion: the owner is cancelled, as stop() does, or its  *)
(* deadline passes.                                                        *)
KafkaGivesUp(r) ==
  /\ transport = "kafka" /\ stage[r] = "awaiting" /\ r \notin done
  /\ KafkaConclude(r)

OwnerCancelled(r) == ~admitting /\ KafkaGivesUp(r)

(* A revocation cancels the lane and the request in it.  The wait for the  *)
(* result takes a cancellation for the end of the wait; consume_message    *)
(* has no handler for it, and only the finally runs.                       *)
KafkaCancel(r) ==
  /\ transport = "kafka"
  /\ \/ stage[r] = "awaiting" /\ KafkaConclude(r)
     \/ /\ stage[r] \in {"beginning", "consuming", "ending"}
        /\ Enter(r, "over")
        /\ IF stage[r] = "beginning" THEN UNCHANGED active ELSE RequestEnded
        /\ UNCHANGED <<sourceVars, sid, done, callbacks, begun, ends, delivery, pending, mapVars>>

KafkaEndReturns(r) ==
  /\ transport = "kafka" /\ stage[r] = "ending"
  /\ Enter(r, "over")
  /\ RequestEnded
  /\ UNCHANGED <<sourceVars, sid, done, callbacks, begun, ends, delivery, pending, mapVars>>

KafkaDeliver(s, m, remove, finish) ==
  /\ transport = "kafka" /\ hasResult
  /\ Has(s)
  /\ LET r == Get(s) IN
       /\ m \in callbacks[r]
       /\ callbacks' = [callbacks EXCEPT ![r] = IF remove THEN @ \ {m} ELSE @]
       /\ done' = IF finish THEN done \union {r} ELSE done
  /\ UNCHANGED <<sourceVars, stage, sid, begun, ends, delivery, active, pending, mapVars>>

-----------------------------------------------------------------------------
HttpStep(r) ==
  \/ HttpOpen(r) \/ HttpBeginFails(r) \/ HttpBegun(r) \/ HttpConsumeFails(r)
  \/ HttpConsumed(r) \/ HttpAnswered(r) \/ HttpCancel(r) \/ HttpEndReturns(r)

GrpcStep(r) ==
  \/ GrpcOpen(r) \/ GrpcBeginFails(r) \/ GrpcBegun(r) \/ GrpcConsumeFails(r)
  \/ GrpcConsumed(r) \/ GrpcAnswered(r) \/ GrpcCancel(r) \/ GrpcRejected(r)
  \/ GrpcFinalize(r) \/ GrpcEndReturns(r) \/ GrpcRelease(r)

CustomStep(r) ==
  \/ CustomOpen(r) \/ CustomBeginFails(r) \/ CustomBegun(r) \/ CustomConsumeFails(r)
  \/ CustomConsumed(r) \/ CustomAnswered(r) \/ CustomTimeout(r) \/ CustomCancel(r)
  \/ CustomEndReturns(r)

KafkaStep(r) ==
  \/ KafkaOpen(r) \/ KafkaBeginFails(r) \/ KafkaBegun(r) \/ KafkaConsumeFails(r)
  \/ KafkaConsumed(r) \/ KafkaAnswered(r) \/ KafkaGivesUp(r) \/ KafkaCancel(r)
  \/ KafkaEndReturns(r)

DeliveryStep ==
  \/ \E s \in Sids, m \in Messages, remove, finish \in BOOLEAN :
       \/ HttpDeliver(s, m, remove, finish)
       \/ CustomDeliver(s, m, remove, finish)
       \/ KafkaDeliver(s, m, remove, finish)
  \/ \E d \in Deliveries :
       \/ \E s \in Sids, m \in Messages : GrpcDeliver(d, s, m)
       \/ \E r \in Requests : CallbackBegin(d, r) \/ DeliveryDropped(d, r)
       \/ \E remove, finish \in BOOLEAN : CallbackReturns(d, remove, finish)

Next ==
  \/ HttpStart \/ GrpcStart \/ CustomStart \/ KafkaStart
  \/ CloseAdmission \/ StopRotation \/ RotationTick
  \/ \E r \in Requests :
       \/ HttpStep(r) \/ GrpcStep(r) \/ CustomStep(r) \/ KafkaStep(r)
       \/ SetDone(r)
       \/ \E m \in Messages : Register(r, m)
  \/ DeliveryStep

Spec == Init /\ [][Next]_vars

(* The handler's calls return; a result callback returns.  Nothing makes a *)
(* client cancel or a handler call done.  A request is one task, at one    *)
(* step at a time.                                                         *)
Fairness ==
  /\ \A r \in Requests : WF_vars(
       \/ HttpConsumed(r) \/ HttpAnswered(r) \/ HttpEndReturns(r)
       \/ GrpcConsumed(r) \/ GrpcAnswered(r)
       \/ GrpcFinalize(r) \/ GrpcEndReturns(r) \/ GrpcRelease(r)
       \/ CustomConsumed(r) \/ CustomAnswered(r) \/ CustomEndReturns(r)
       \/ KafkaConsumed(r) \/ KafkaAnswered(r) \/ KafkaEndReturns(r)
       \/ OwnerCancelled(r))
  /\ \A d \in Deliveries : WF_vars(\E remove, finish \in BOOLEAN : CallbackReturns(d, remove, finish))

FairSpec == Spec /\ Fairness

-----------------------------------------------------------------------------
TypeOK ==
  /\ transport \in {"http", "grpc", "custom", "kafka"} /\ hasResult \in BOOLEAN
  /\ started \in BOOLEAN /\ admitting \in BOOLEAN /\ rotating \in BOOLEAN
  /\ stage \in [Requests -> Stages] /\ sid \in [Requests -> Sids]
  /\ done \subseteq Requests /\ begun \subseteq Requests
  /\ callbacks \in [Requests -> SUBSET Messages]
  /\ delivery \in [Deliveries -> {Idle} \union
       [at : {"asking", "running"}, request : Requests, message : Messages]]
  /\ ends \in [Requests -> Nat] /\ active \in Int /\ pending \in Int
  /\ current \in Bucket /\ prev \in Bucket /\ mark \in Nat

(* A request that lives has its id to itself: whatever other requests,     *)
(* rotations and late results do, its id leads to it and no other.  Its    *)
(* reservation ends with it, except that a request which shutdown, or the  *)
(* revocation of its partition, cancels inside consume_message leaves it   *)
(* behind in an HTTP, custom or Kafka source.                              *)
Reserved(r) == Get(sid[r]) = r

Holding == IF transport = "grpc" THEN {"consuming", "awaiting", "finalizing", "ending", "ended"}
           ELSE IF hasResult THEN {"consuming", "awaiting"} ELSE {}

ReservationKept ==
  \A r \in Requests :
    /\ stage[r] \in Holding => Reserved(r)
    /\ Reserved(r) => \/ stage[r] \in Holding
                      \/ stage[r] = "over" /\ ends[r] = 0 /\ transport # "grpc"
                         /\ (transport = "kafka" \/ ~admitting)

(* The handler's state belongs to callbacks until end_request has it: none *)
(* runs, and in HTTP and custom sources none can be found, afterwards.     *)
StateOwned ==
  \A r \in Requests :
    ends[r] > 0 => /\ Readers(r) = {}
                   /\ transport # "grpc" => ~Reserved(r)

(* end_request is never called twice, nor before begin_request; a gRPC     *)
(* request that was begun has had it when it is over, however it ended.    *)
EndedOnce ==
  \A r \in Requests :
    /\ ends[r] <= IF r \in begun THEN 1 ELSE 0
    /\ transport = "grpc" /\ stage[r] = "over" /\ r \in begun => ends[r] = 1

(* The gauge of pending requests is the number of ids in the map. *)
PendingExact == hasResult => pending = Total

(* A request that was answered is given up by its source: its coroutine    *)
(* ends, although results keep coming for it.  So does one that waits for  *)
(* a result when a Kafka source is stopped, whose stop() waits for it.     *)
AnsweredEnds ==
  \A r \in Requests :
    (r \in done \/ (transport = "kafka" /\ started /\ ~admitting /\ stage[r] = "awaiting")) ~> stage[r] = "over"
=============================================================================
