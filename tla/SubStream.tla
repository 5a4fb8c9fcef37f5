----------------------------- MODULE SubStream -----------------------------
(***************************************************************************)
(* One call of a sub-stream (operators/substream.py): the caller sends a   *)
(* value through a body of the graph and hands the results that come back  *)
(* to its collector, until the collector says that it has all it needs.    *)
(* Results arrive in the caller's own task (Inline: the body consists of   *)
(* function calls) or in tasks of a pool or of ParallelCall.               *)
(***************************************************************************)
EXTENDS FiniteSets, Naturals

CONSTANTS Results,   (* results the body may produce *)
          Inline     (* those of them produced by the caller's task *)

VARIABLES
  caller,              \* where the caller's task is in consume()
  outcome,             \* how consume() ends: "normal" or "raised"
  result,              \* where the delivery of each result is
  closed, error, done, \* of the _SubStreamCall
  lock,                \* its lock: the result that holds it, or NoHolder
  took,                \* results the collector was given
  complete,            \* the collector has returned True
  expired, cancelled,  \* the deadline and the cancellation of the request
  exited               \* os._exit(2)

vars == <<caller, outcome, result, closed, error, done, lock, took, complete, expired, cancelled, exited>>

NoHolder == "free"

ASSUME ResultsAssumption == NoHolder \notin Results
ASSUME InlineAssumption == Inline \subseteq Results

Init ==
  /\ caller = "calling" /\ outcome = "normal"
  /\ result = [r \in Results |-> "none"]
  /\ closed = FALSE /\ error = FALSE /\ done = FALSE
  /\ lock = NoHolder
  /\ took = {} /\ complete = FALSE
  /\ expired = FALSE /\ cancelled = FALSE /\ exited = FALSE

Become(r, where) == result' = [result EXCEPT ![r] = where]

Stopped == expired \/ cancelled

(* The except branch of deliver(): the failure ends the call. *)
Fail ==
  /\ error' = TRUE /\ closed' = TRUE /\ done' = TRUE
  /\ lock' = NoHolder

-----------------------------------------------------------------------------
(* The request ends while the call is under way. *)
Expire == ~expired /\ expired' = TRUE
          /\ UNCHANGED <<caller, outcome, result, closed, error, done, lock, took, complete, cancelled, exited>>

CancelRequest == ~cancelled /\ cancelled' = TRUE
          /\ UNCHANGED <<caller, outcome, result, closed, error, done, lock, took, complete, expired, exited>>

-----------------------------------------------------------------------------
(* consume(): check_context, then the body. *)
Call ==
  /\ caller = "calling"
  /\ IF Stopped THEN caller' = "closing" /\ outcome' = "raised"
                ELSE caller' = "body" /\ UNCHANGED outcome
  /\ UNCHANGED <<result, closed, error, done, lock, took, complete, expired, cancelled, exited>>

InBody(r) == r \in Inline /\ result[r] \in {"locking", "out", "drained"}

(* The body has handed the value on. *)
BodyReturns ==
  /\ caller = "body" /\ \A r \in Results : ~InBody(r)
  /\ caller' = "waiting"
  /\ UNCHANGED <<outcome, result, closed, error, done, lock, took, complete, expired, cancelled, exited>>

(* The body raises, or the caller's task is cancelled outside a delivery. *)
Abandon ==
  /\ caller \in {"body", "waiting"} /\ \A r \in Results : ~InBody(r)
  /\ caller' = "closing" /\ outcome' = "raised"
  /\ UNCHANGED <<result, closed, error, done, lock, took, complete, expired, cancelled, exited>>

(* wait_substream_result, and the error of a delivery *)
WaitEnds ==
  /\ caller = "waiting" /\ (done \/ Stopped)
  /\ caller' = "closing"
  /\ outcome' = IF done /\ ~error THEN "normal" ELSE "raised"
  /\ UNCHANGED <<result, closed, error, done, lock, took, complete, expired, cancelled, exited>>

CloseAtOnce ==   \* Fault: close() does not wait for the collector that is running
  /\ caller = "closing"
  /\ closed' = TRUE /\ caller' = "over"
  /\ UNCHANGED <<outcome, result, error, done, lock, took, complete, expired, cancelled, exited>>

(* close() takes the lock: a collector that is running is waited for, also *)
(* by a caller that is cancelled meanwhile.                                *)
Close ==
  /\ caller = "closing"
  /\ closed' = TRUE
  /\ caller' = IF lock = NoHolder THEN "over" ELSE "closing"
  /\ UNCHANGED <<outcome, result, error, done, lock, took, complete, expired, cancelled, exited>>

-----------------------------------------------------------------------------
(* A result comes out of the body. *)
Arrive(r) ==
  /\ result[r] = "none" /\ caller \notin {"calling"}
  /\ r \in Inline => caller = "body" /\ \A q \in Results : ~InBody(q)
  /\ Become(r, IF closed THEN "over" ELSE "locking")
  /\ UNCHANGED <<caller, outcome, closed, error, done, lock, took, complete, expired, cancelled, exited>>

(* What the delivery raises goes up to the task that delivers, unless a    *)
(* sink or a function on the way catches it, which a cancellation passes:  *)
(* the caller's task leaves the body, a task of its own ends, and with it  *)
(* the process if it was not cancelled.                                    *)
RaisedIn(r, cancellation) ==
  /\ Become(r, "raised")
  /\ \/ ~cancellation /\ UNCHANGED <<caller, outcome, exited>>
     \/ r \in Inline /\ caller' = "closing" /\ outcome' = "raised" /\ UNCHANGED exited
     \/ r \notin Inline /\ exited' = ~cancellation /\ UNCHANGED <<caller, outcome>>

(* deliver() with the lock *)
Deliver(r) ==
  /\ result[r] = "locking" /\ lock = NoHolder
  /\ IF closed
       THEN Become(r, "over") /\ UNCHANGED <<caller, outcome, closed, error, done, lock, took, exited>>
     ELSE IF Stopped
       THEN Fail /\ RaisedIn(r, cancelled) /\ UNCHANGED took
       ELSE /\ Become(r, "out") /\ lock' = r /\ took' = took \union {r}
            /\ UNCHANGED <<caller, outcome, closed, error, done, exited>>
  /\ UNCHANGED <<complete, expired, cancelled>>

CollectorReturns(r) ==
  /\ result[r] = "out"
  /\ \E finished \in BOOLEAN :
       /\ complete' = (complete \/ finished)
       /\ closed' = (closed \/ finished) /\ done' = (done \/ finished)
  /\ lock' = NoHolder
  /\ Become(r, "over")
  /\ UNCHANGED <<caller, outcome, error, took, expired, cancelled, exited>>

RaisesQuietly(r) ==   \* Fault: a collector that fails leaves the waiter asleep
  /\ result[r] = "out"
  /\ error' = TRUE /\ closed' = TRUE /\ lock' = NoHolder
  /\ \E cancellation \in BOOLEAN : RaisedIn(r, cancellation)
  /\ UNCHANGED <<done, took, complete, expired, cancelled>>

CollectorRaises(r) ==
  /\ result[r] = "out"
  /\ Fail /\ \E cancellation \in BOOLEAN : RaisedIn(r, cancellation)
  /\ UNCHANGED <<took, complete, expired, cancelled>>

(* The delivering task is cancelled: before it has the lock it leaves, and *)
(* a collector that is running is brought to its end first.                *)
CancelDelivery(r) ==
  /\ \/ result[r] = "locking" /\ RaisedIn(r, TRUE)
     \/ result[r] = "out" /\ Become(r, "drained") /\ UNCHANGED <<caller, outcome, exited>>
  /\ UNCHANGED <<closed, error, done, lock, took, complete, expired, cancelled>>

(* Then the cancellation goes on, or what the collector has raised.        *)
Drained(r) ==
  /\ result[r] = "drained" /\ Fail
  /\ \/ RaisedIn(r, TRUE) /\ \E finished \in BOOLEAN : complete' = (complete \/ finished)
     \/ RaisedIn(r, FALSE) /\ UNCHANGED complete
  /\ UNCHANGED <<took, expired, cancelled>>

-----------------------------------------------------------------------------
Collects(r) == Deliver(r) \/ CollectorReturns(r) \/ CollectorRaises(r) \/ Drained(r)

Next ==
  /\ ~exited
  /\ \/ Expire \/ CancelRequest
     \/ Call \/ BodyReturns \/ Abandon \/ WaitEnds \/ Close
     \/ \E r \in Results : Arrive(r) \/ Collects(r) \/ CancelDelivery(r)

Spec == Init /\ [][Next]_vars

(* The body and the collector return.  Nothing makes a result arrive, and  *)
(* nothing makes the request expire: it need not have a deadline.          *)
Fairness ==
  /\ WF_vars(~exited /\ Call) /\ WF_vars(~exited /\ BodyReturns)
  /\ WF_vars(~exited /\ WaitEnds) /\ WF_vars(~exited /\ Close)
  /\ \A r \in Results : WF_vars(~exited /\ Collects(r))

FairSpec == Spec /\ Fairness

-----------------------------------------------------------------------------
Collecting(r) == result[r] \in {"out", "drained"}

(* The collector is the caller's: it runs only inside the call, for one    *)
(* result at a time, and it is never given another result once it has said *)
(* that it is done; the call succeeds only after it has said so.  Whoever  *)
(* waits is told: of a collector that is done or has failed the caller, of *)
(* the lock, which only a running collector holds, the next delivery.      *)
CollectorInCall ==
  /\ \A r \in Results : Collecting(r) => caller # "over" /\ ~complete
  /\ Cardinality({r \in Results : Collecting(r)}) <= 1
  /\ caller = "over" /\ outcome = "normal" => complete
  /\ complete \/ error => done
  /\ lock # NoHolder => lock \in Results /\ Collecting(lock)

(* The caller is woken when its collector is done or has failed, and when  *)
(* the request is cancelled or expires; then the call ends, unless the     *)
(* failure of a delivery has ended the process.                            *)
CallEnds == (caller # "calling" /\ (complete \/ error \/ Stopped)) ~> caller = "over" \/ exited
=============================================================================
