------------------------------ MODULE GrpcSink ------------------------------
(***************************************************************************)
(* The streaming gRPC sinks (datasink/grpc/grpcds.py): the messages of one *)
(* stream id share one call, which the first of them opens.  A session is  *)
(* named by the message that created its cell.                             *)
(*                                                                         *)
(* The pending map is what RotatingMap's get, set and pop make of it.  The *)
(* read lock never makes a message wait: closing is set in the same step   *)
(* as, or before, the first step that asks for the write lock.             *)
(*                                                                         *)
(* External: the handler's callbacks and the peer of the call.             *)
(***************************************************************************)
EXTENDS Integers, FiniteSets

CONSTANTS Items,   (* messages: calls of consume(), numbered as they come *)
          Sids,    (* stream ids *)
          NoCell

ASSUME ItemsAssumption == Items \subseteq Nat /\ NoCell \notin Items

VARIABLES
  mode,       \* "client" or "bidi" streaming
  sid,        \* the stream id of each message
  pending,    \* _pending: the cell of each stream id
  stage,      \* where each message's coroutine is
  owner,      \* the cell each message found or made
  ready, closing, finished,  \* cells by their flags
  done,       \* cells whose handler called done()
  cut,        \* cells whose request was cancelled or timed out
  failed,     \* client-streaming sessions that get no response to handle
  completing, \* _complete() of each session
  receiving,  \* _recv_loop() of each session (bidi)
  halfClosed, \* sessions whose sender is closed and done_writing() called
  ends,       \* calls of end_request for each cell
  active      \* the gauge active_requests

messageVars == <<mode, sid, stage, owner>>
cellVars == <<pending, ready, closing, finished>>
signalVars == <<done, cut>>
taskVars == <<failed, completing, receiving, halfClosed>>
vars == <<messageVars, cellVars, signalVars, taskVars, ends, active>>

Init ==
  /\ mode \in {"client", "bidi"}
  /\ sid \in [Items -> Sids]
  /\ pending = [s \in Sids |-> NoCell]
  /\ stage = [i \in Items |-> "new"]
  /\ owner = [i \in Items |-> NoCell]
  /\ ready = {} /\ closing = {} /\ finished = {} /\ done = {} /\ cut = {} /\ failed = {}
  /\ completing = [i \in Items |-> "none"]
  /\ receiving = [i \in Items |-> "none"]
  /\ halfClosed = {}
  /\ ends = [i \in Items |-> 0]
  /\ active = 0

Enter(i, s) == stage' = [stage EXCEPT ![i] = s]
Become(c, s) == completing' = [completing EXCEPT ![c] = s]
EndRequest(c) == ends' = [ends EXCEPT ![c] = @ + 1]

(* _drop_reservation *)
Dropped(c) ==
  pending' = [s \in Sids |-> IF pending[s] = c THEN NoCell ELSE pending[s]]

Readers(c) == {i \in Items : owner[i] = c /\ stage[i] = "consuming"}

-----------------------------------------------------------------------------
Comes(i) == stage[i] = "new" /\ \A j \in Items : j < i => stage[j] # "new"

(* consume(): the first message of an id makes the cell and begins, the    *)
(* others wait for it.                                                     *)
Reserve(i) ==
  /\ Comes(i) /\ pending[sid[i]] = NoCell
  /\ pending' = [pending EXCEPT ![sid[i]] = i]
  /\ owner' = [owner EXCEPT ![i] = i]
  /\ Enter(i, "beginning")
  /\ UNCHANGED <<mode, sid, ready, closing, finished, signalVars, taskVars, ends, active>>

Find(i) ==
  /\ Comes(i) /\ pending[sid[i]] # NoCell
  /\ owner' = [owner EXCEPT ![i] = pending[sid[i]]]
  /\ Enter(i, "waiting")
  /\ UNCHANGED <<mode, sid, cellVars, signalVars, taskVars, ends, active>>

BeginFails(i) ==
  /\ stage[i] = "beginning"
  /\ closing' = closing \union {i} /\ ready' = ready \union {i}
  /\ Dropped(i)
  /\ Enter(i, "over")
  /\ UNCHANGED <<mode, sid, owner, finished, signalVars, taskVars, ends, active>>

Begun(i) ==
  /\ stage[i] = "beginning"
  /\ Enter(i, "opening")
  /\ active' = active + 1
  /\ UNCHANGED <<mode, sid, owner, cellVars, signalVars, taskVars, ends>>

(* The failure is published before end_request runs. *)
OpenFails(i) ==
  /\ stage[i] = "opening"
  /\ closing' = closing \union {i} /\ ready' = ready \union {i}
  /\ EndRequest(i)
  /\ Enter(i, "refusing")
  /\ UNCHANGED <<mode, sid, owner, pending, finished, signalVars, taskVars, active>>

Refused(i) ==
  /\ stage[i] = "refusing"
  /\ active' = active - 1
  /\ Dropped(i)
  /\ Enter(i, "over")
  /\ UNCHANGED <<mode, sid, owner, ready, closing, finished, signalVars, taskVars, ends>>

(* The session is built, its tasks start, its message is consumed. *)
Opened(i) ==
  /\ stage[i] = "opening"
  /\ ready' = ready \union {i}
  /\ Become(i, "signal")
  /\ receiving' = [receiving EXCEPT ![i] = IF mode = "bidi" THEN "reading" ELSE "none"]
  /\ Enter(i, "consuming")
  /\ UNCHANGED <<mode, sid, owner, pending, closing, finished, signalVars, failed, halfClosed, ends, active>>

(* A waiting message joins the session, or is reported and given up. *)
Join(i) ==
  /\ stage[i] = "waiting" /\ owner[i] \in ready
  /\ Enter(i, IF owner[i] \in closing THEN "over" ELSE "consuming")
  /\ UNCHANGED <<mode, sid, owner, cellVars, signalVars, taskVars, ends, active>>

(* consume_message: the handler may call done(), return or raise, ... *)
SignalDone(i) ==
  /\ stage[i] = "consuming"
  /\ done' = done \union {owner[i]}
  /\ UNCHANGED <<messageVars, cellVars, cut, taskVars, ends, active>>

Consumed(i) ==
  /\ stage[i] = "consuming"
  /\ Enter(i, "over")
  /\ UNCHANGED <<mode, sid, owner, cellVars, signalVars, taskVars, ends, active>>

(* ... which ends the session as done() does. *)
ConsumeFails(i) ==
  /\ stage[i] = "consuming"
  /\ done' = done \union {owner[i]}
  /\ Enter(i, "over")
  /\ UNCHANGED <<mode, sid, owner, cellVars, cut, taskVars, ends, active>>

(* The task that runs consume() is cancelled.  CancelledError passes the   *)
(* handlers of Exception, and only end_request's failure path cleans up.   *)
Cancel(i) ==
  /\ stage[i] \in {"beginning", "opening", "refusing", "waiting", "consuming"}
  /\ Enter(i, "over")
  /\ IF stage[i] = "refusing"
       THEN active' = active - 1 /\ Dropped(i)
       ELSE UNCHANGED <<active, pending>>
  /\ UNCHANGED <<mode, sid, owner, ready, closing, finished, signalVars, taskVars, ends>>

(* The request that opened the call is cancelled or its deadline passes. *)
Cut(c) ==
  /\ completing[c] = "signal"
  /\ cut' = cut \union {c}
  /\ UNCHANGED <<messageVars, cellVars, done, taskVars, ends, active>>

-----------------------------------------------------------------------------
(* _complete() of a client-streaming session *)
AnsweredFreeing(c) ==   \* Fault: the id is free before the request ends
  /\ completing[c] = "answering"
  /\ Become(c, "locking")
  /\ failed' \in {failed, failed \union {c}}
  /\ Dropped(c)
  /\ UNCHANGED <<messageVars, ready, closing, finished, signalVars, receiving, halfClosed, ends, active>>

DoneSignalled(c) ==
  /\ mode = "client" /\ completing[c] = "signal" /\ c \in done \union cut
  /\ closing' = closing \union {c}
  /\ IF c \in done
       THEN /\ halfClosed' = halfClosed \union {c}
            /\ Become(c, "answering")
            /\ UNCHANGED failed
       ELSE /\ failed' = failed \union {c}
            /\ Become(c, "locking")
            /\ UNCHANGED halfClosed
  /\ UNCHANGED <<messageVars, pending, ready, finished, signalVars, receiving, ends, active>>

Answered(c) ==
  /\ completing[c] = "answering"
  /\ Become(c, "locking")
  /\ failed' \in {failed, failed \union {c}}
  /\ UNCHANGED <<messageVars, cellVars, signalVars, receiving, halfClosed, ends, active>>

LockPast(c) ==   \* Fault: the response is not held back by the messages
  /\ mode = "client" /\ completing[c] = "locking"
  /\ finished' = finished \union {c}
  /\ IF c \in failed
       THEN Become(c, "ending") /\ EndRequest(c)
       ELSE Become(c, "responding") /\ UNCHANGED ends
  /\ UNCHANGED <<messageVars, pending, ready, closing, signalVars, failed, receiving, halfClosed, active>>

(* Under the write lock the response is handled, then the request ends. *)
Lock(c) ==
  /\ mode = "client" /\ completing[c] = "locking" /\ Readers(c) = {}
  /\ finished' = finished \union {c}
  /\ IF c \in failed
       THEN Become(c, "ending") /\ EndRequest(c)
       ELSE Become(c, "responding") /\ UNCHANGED ends
  /\ UNCHANGED <<messageVars, pending, ready, closing, signalVars, failed, receiving, halfClosed, active>>

Responded(c) ==
  /\ completing[c] = "responding"
  /\ Become(c, "ending") /\ EndRequest(c)
  /\ UNCHANGED <<messageVars, cellVars, signalVars, failed, receiving, halfClosed, active>>

(* end_request returns or raises: the gauge goes down, the id is free. *)
Ended(c) ==
  /\ completing[c] = "ending"
  /\ active' = active - 1
  /\ Dropped(c)
  /\ Become(c, "over")
  /\ UNCHANGED <<messageVars, ready, closing, finished, signalVars, failed, receiving, halfClosed, ends>>

-----------------------------------------------------------------------------
(* _recv_loop() and _close_send() of a bidi session *)
PeerSends(c) ==
  /\ receiving[c] = "reading"
  /\ receiving' = [receiving EXCEPT ![c] = "responding"]
  /\ UNCHANGED <<messageVars, cellVars, signalVars, failed, completing, halfClosed, ends, active>>

ResponseHandled(c) ==
  /\ receiving[c] = "responding"
  /\ receiving' = [receiving EXCEPT ![c] = "reading"]
  /\ UNCHANGED <<messageVars, cellVars, signalVars, failed, completing, halfClosed, ends, active>>

HandleFails(c) ==
  /\ receiving[c] = "responding"
  /\ receiving' = [receiving EXCEPT ![c] = "over"]
  /\ UNCHANGED <<messageVars, cellVars, signalVars, failed, completing, halfClosed, ends, active>>

(* The peer ends the call, in order or not. *)
PeerEnds(c) ==
  /\ receiving[c] = "reading"
  /\ receiving' = [receiving EXCEPT ![c] = "over"]
  /\ UNCHANGED <<messageVars, cellVars, signalVars, failed, completing, halfClosed, ends, active>>

CloseSendAfter(c) ==   \* Fault: only the end of the call closes the sender
  /\ mode = "bidi" /\ completing[c] = "over" /\ c \notin halfClosed
  /\ halfClosed' = halfClosed \union {c}
  /\ UNCHANGED <<messageVars, cellVars, signalVars, failed, completing, receiving, ends, active>>

CloseSend(c) ==
  /\ mode = "bidi" /\ completing[c] # "none" /\ c \notin halfClosed
  /\ c \in done \union cut \/ completing[c] = "over"
  /\ halfClosed' = halfClosed \union {c}
  /\ UNCHANGED <<messageVars, cellVars, signalVars, failed, completing, receiving, ends, active>>

(* _complete() of a bidi session waits for the receiver, ... *)
Received(c) ==
  /\ completing[c] = "signal" /\ receiving[c] = "over"
  /\ closing' = closing \union {c}
  /\ Become(c, "locking")
  /\ UNCHANGED <<messageVars, pending, ready, finished, signalVars, failed, receiving, halfClosed, ends, active>>

(* ... then for the messages under way, and ends the request. *)
LockBidi(c) ==
  /\ mode = "bidi" /\ completing[c] = "locking" /\ Readers(c) = {}
  /\ finished' = finished \union {c}
  /\ Become(c, "ending") /\ EndRequest(c)
  /\ UNCHANGED <<messageVars, pending, ready, closing, signalVars, failed, receiving, halfClosed, active>>

Creating(i) == Begun(i) \/ OpenFails(i) \/ Refused(i) \/ Opened(i) \/ BeginFails(i)

Completing(c) ==
  DoneSignalled(c) \/ Answered(c) \/ Lock(c) \/ Responded(c) \/ Ended(c) \/ Received(c) \/ LockBidi(c)

Next ==
  \E i \in Items :
    \/ Reserve(i) \/ Find(i) \/ Creating(i) \/ Join(i)
    \/ SignalDone(i) \/ Consumed(i) \/ ConsumeFails(i) \/ Cancel(i) \/ Cut(i)
    \/ Completing(i)
    \/ PeerSends(i) \/ ResponseHandled(i) \/ HandleFails(i) \/ PeerEnds(i) \/ CloseSend(i)

Spec == Init /\ [][Next]_vars

(* Callbacks return, the client library answers, and a peer that was told  *)
(* there is nothing more to come ends the call, responses or not.          *)
Fairness ==
  \A i \in Items :
    /\ WF_vars(Creating(i)) /\ WF_vars(Join(i)) /\ WF_vars(Consumed(i))
    /\ WF_vars(Completing(i)) /\ WF_vars(CloseSend(i))
    /\ WF_vars(ResponseHandled(i) \/ HandleFails(i))
    /\ SF_vars(i \in halfClosed /\ PeerEnds(i))

FairSpec == Spec /\ Fairness

-----------------------------------------------------------------------------
Begins == {i \in Items : stage[i] \in {"opening", "refusing"} \/ completing[i] \notin {"none", "over"}}

(* end_request is called once and last: when it has been, no message of    *)
(* the session is with the handler, no response is, and none will be.      *)
EndIsLast ==
  \A c \in Items :
    /\ ends[c] <= 1
    /\ ends[c] = 1 \/ completing[c] = "responding" => Readers(c) = {}
    /\ ends[c] = 1 => receiving[c] \in {"none", "over"}

(* Sessions of one stream id do not overlap: a message opens a second call *)
(* only when the first one's request has ended.                            *)
OneSession == \A c, d \in Begins : sid[c] = sid[d] => c = d

(* Once done() is called the request ends and its stream id is free, and a *)
(* message that waits for a session gets on, unless the message that was   *)
(* to open it was cancelled.                                               *)
SessionEnds ==
  \A c \in Items :
    /\ c \in done ~> completing[c] = "over"
    /\ stage[c] = "waiting" ~> stage[c] # "waiting" \/ (owner[c] \notin ready /\ stage[owner[c]] = "over")
=============================================================================
