----------------------------- MODULE SinksProofs -----------------------------
(***************************************************************************)
(* Proofs about GrpcSink for any messages and stream ids, in either mode,  *)
(* and about RequestSink for any finite set of requests and every kind of  *)
(* sink.  RequestSink is instantiated as it is in MCSinks.                 *)
(***************************************************************************)
EXTENDS GrpcSink, FiniteSetTheorems, TLAPS

CONSTANT Requests   \* of RequestSink

VARIABLES kind, sink, reqStage, reqFailed, cancelled, begun, reqEnds, endRaised, reqActive, counted,
          message, reports, reportRaised, exited

Request == INSTANCE RequestSink WITH
  stage <- reqStage, failed <- reqFailed, ends <- reqEnds, active <- reqActive

MessageStages == {"new", "beginning", "opening", "refusing", "waiting", "consuming", "over"}
Completions == {"none", "signal", "answering", "locking", "responding", "ending", "over"}
Creations == {"beginning", "opening", "refusing"}

TypeOK ==
  /\ mode \in {"client", "bidi"}
  /\ sid \in [Items -> Sids]
  /\ pending \in [Sids -> Items \union {NoCell}]
  /\ stage \in [Items -> MessageStages]
  /\ owner \in [Items -> Items \union {NoCell}]
  /\ completing \in [Items -> Completions]
  /\ receiving \in [Items -> {"none", "reading", "responding", "over"}]
  /\ ends \in [Items -> {0, 1}]

(* The message that creates a cell owns it, and nothing of the cell is     *)
(* there before its call is open.                                          *)
Created ==
  \A c \in Items :
    /\ stage[c] \in Creations => owner[c] = c
    /\ stage[c] \in {"new"} \union Creations => completing[c] = "none"
    /\ stage[c] \in {"new", "beginning", "opening"} => c \notin ready \union closing /\ ends[c] = 0
    /\ completing[c] = "none" => receiving[c] = "none"

(* A cell whose request is not over keeps its stream id. *)
Holds(c) == stage[c] \in Creations \/ completing[c] \notin {"none", "over"}

Reserved == \A c \in Items : Holds(c) => pending[sid[c]] = c

(* How far the end of a request has come, and who has to be gone by then.  *)
(* A message is with the handler only in a session that is published, and  *)
(* none comes to a closing one.                                            *)
Ending ==
  \A c \in Items :
    /\ completing[c] \in {"signal", "answering", "locking", "responding"} => ends[c] = 0
    /\ ends[c] = 1 \/ completing[c] \notin {"none", "signal"} => c \in closing
    /\ c \notin ready => Readers(c) = {}
    /\ ends[c] = 1 \/ completing[c] = "responding" => Readers(c) = {}

(* The receiver has ended before the end of a bidi request begins. *)
Receiving ==
  /\ mode = "client" => \A c \in Items : receiving[c] = "none"
  /\ \A c \in Items : completing[c] \notin {"none", "signal"} => receiving[c] \in {"none", "over"}

IInv == TypeOK /\ Created /\ Reserved /\ Ending /\ Receiving

LEMMA InitIInv == Init => IInv
<1> SUFFICES ASSUME Init PROVE IInv
  OBVIOUS
<1> USE DEF Init
<1>1. TypeOK
  BY DEF TypeOK, MessageStages, Completions
<1>2. Created /\ Receiving
  BY DEF Created, Receiving, Creations
<1>3. Reserved /\ Ending
  BY DEF Reserved, Ending, Holds, Readers, Creations
<1> QED
  BY <1>1, <1>2, <1>3 DEF IInv

LEMMA StepTypeOK ==
  ASSUME IInv, [Next]_vars PROVE TypeOK'
<1> USE DEF IInv, TypeOK, MessageStages, Completions, Enter, Become, EndRequest, Dropped,
            messageVars, cellVars, signalVars, taskVars
<1>1. ASSUME NEW i \in Items, Reserve(i) \/ Find(i) \/ Join(i) \/ SignalDone(i) \/ Consumed(i) \/ ConsumeFails(i)
             \/ Cancel(i) \/ Cut(i)
      PROVE  TypeOK'
  BY <1>1 DEF Reserve, Find, Join, SignalDone, Consumed, ConsumeFails, Cancel, Cut, Comes
<1>2. ASSUME NEW i \in Items, Creating(i) PROVE TypeOK'
  BY <1>2 DEF Creating, Begun, OpenFails, Refused, Opened, BeginFails, Created, Creations
<1>3. ASSUME NEW i \in Items, Completing(i) PROVE TypeOK'
  BY <1>3 DEF Completing, DoneSignalled, Answered, Lock, Responded, Ended, Received, LockBidi, Ending
<1>4. ASSUME NEW i \in Items, PeerSends(i) \/ ResponseHandled(i) \/ HandleFails(i) \/ PeerEnds(i) \/ CloseSend(i)
      PROVE  TypeOK'
  BY <1>4 DEF PeerSends, ResponseHandled, HandleFails, PeerEnds, CloseSend
<1>5. ASSUME UNCHANGED vars PROVE TypeOK'
  BY <1>5 DEF vars
<1> QED
  BY <1>1, <1>2, <1>3, <1>4, <1>5 DEF Next

LEMMA StepCreated ==
  ASSUME IInv, [Next]_vars PROVE Created'
<1> USE DEF IInv, TypeOK, Created, Creations, Enter, Become, EndRequest, Dropped,
            messageVars, cellVars, signalVars, taskVars
<1>1. ASSUME NEW i \in Items, Reserve(i) \/ Find(i) \/ Join(i) \/ SignalDone(i) \/ Consumed(i) \/ ConsumeFails(i)
             \/ Cancel(i) \/ Cut(i)
      PROVE  Created'
  BY <1>1 DEF Reserve, Find, Join, SignalDone, Consumed, ConsumeFails, Cancel, Cut, Comes
<1>2. ASSUME NEW i \in Items, Creating(i) PROVE Created'
  BY <1>2 DEF Creating, Begun, OpenFails, Refused, Opened, BeginFails
<1>3. ASSUME NEW i \in Items, Completing(i) PROVE Created'
  BY <1>3 DEF Completing, DoneSignalled, Answered, Lock, Responded, Ended, Received, LockBidi
<1>4. ASSUME NEW i \in Items, PeerSends(i) \/ ResponseHandled(i) \/ HandleFails(i) \/ PeerEnds(i) \/ CloseSend(i)
      PROVE  Created'
  BY <1>4 DEF PeerSends, ResponseHandled, HandleFails, PeerEnds, CloseSend
<1>5. ASSUME UNCHANGED vars PROVE Created'
  BY <1>5 DEF vars
<1> QED
  BY <1>1, <1>2, <1>3, <1>4, <1>5 DEF Next

LEMMA StepReserved ==
  ASSUME IInv, [Next]_vars PROVE Reserved'
<1> USE DEF IInv, TypeOK, Created, Reserved, Holds, Creations, Enter, Become, EndRequest, Dropped,
            messageVars, cellVars, signalVars, taskVars
<1>1. ASSUME NEW i \in Items, Reserve(i) PROVE Reserved'
  BY <1>1, ItemsAssumption DEF Reserve, Comes
<1>2. ASSUME NEW i \in Items, Find(i) \/ Join(i) \/ SignalDone(i) \/ Consumed(i) \/ ConsumeFails(i)
             \/ Cancel(i) \/ Cut(i)
      PROVE  Reserved'
  BY <1>2 DEF Find, Join, SignalDone, Consumed, ConsumeFails, Cancel, Cut, Comes
<1>3. ASSUME NEW i \in Items, Creating(i) PROVE Reserved'
  BY <1>3 DEF Creating, Begun, OpenFails, Refused, Opened, BeginFails
<1>4. ASSUME NEW i \in Items, Completing(i) PROVE Reserved'
  BY <1>4 DEF Completing, DoneSignalled, Answered, Lock, Responded, Ended, Received, LockBidi
<1>5. ASSUME NEW i \in Items, PeerSends(i) \/ ResponseHandled(i) \/ HandleFails(i) \/ PeerEnds(i) \/ CloseSend(i)
      PROVE  Reserved'
  BY <1>5 DEF PeerSends, ResponseHandled, HandleFails, PeerEnds, CloseSend
<1>6. ASSUME UNCHANGED vars PROVE Reserved'
  BY <1>6 DEF vars
<1> QED
  BY <1>1, <1>2, <1>3, <1>4, <1>5, <1>6 DEF Next

LEMMA StepReceiving ==
  ASSUME IInv, [Next]_vars PROVE Receiving'
<1> USE DEF IInv, TypeOK, Created, Creations, Receiving, Enter, Become, EndRequest, Dropped,
            messageVars, cellVars, signalVars, taskVars
<1>1. ASSUME NEW i \in Items, Reserve(i) \/ Find(i) \/ Join(i) \/ SignalDone(i) \/ Consumed(i) \/ ConsumeFails(i)
             \/ Cancel(i) \/ Cut(i)
      PROVE  Receiving'
  BY <1>1 DEF Reserve, Find, Join, SignalDone, Consumed, ConsumeFails, Cancel, Cut
<1>2. ASSUME NEW i \in Items, Creating(i) PROVE Receiving'
  BY <1>2 DEF Creating, Begun, OpenFails, Refused, Opened, BeginFails
<1>3. ASSUME NEW i \in Items, Completing(i) PROVE Receiving'
  BY <1>3 DEF Completing, DoneSignalled, Answered, Lock, Responded, Ended, Received, LockBidi
<1>4. ASSUME NEW i \in Items, PeerSends(i) \/ ResponseHandled(i) \/ HandleFails(i) \/ PeerEnds(i) \/ CloseSend(i)
      PROVE  Receiving'
  BY <1>4 DEF PeerSends, ResponseHandled, HandleFails, PeerEnds, CloseSend
<1>5. ASSUME UNCHANGED vars PROVE Receiving'
  BY <1>5 DEF vars
<1> QED
  BY <1>1, <1>2, <1>3, <1>4, <1>5 DEF Next

(* A message that is not with the handler changes nobody's readers when it *)
(* moves elsewhere, and leaves them when it was.                           *)
LEMMA StepEnding ==
  ASSUME IInv, [Next]_vars PROVE Ending'
<1> USE DEF IInv, TypeOK, Created, Creations, Ending, Readers, Enter, Become, EndRequest, Dropped,
            messageVars, cellVars, signalVars, taskVars
<1>1. ASSUME NEW i \in Items, Reserve(i) \/ Find(i) \/ SignalDone(i) \/ Consumed(i) \/ ConsumeFails(i)
             \/ Cancel(i) \/ Cut(i)
      PROVE  Ending'
  BY <1>1 DEF Reserve, Find, SignalDone, Consumed, ConsumeFails, Cancel, Cut, Comes
<1>2. ASSUME NEW i \in Items, Join(i) PROVE Ending'
  BY <1>2 DEF Join
<1>3. ASSUME NEW i \in Items, Creating(i) PROVE Ending'
  <2>1. ASSUME Begun(i) \/ Refused(i) \/ BeginFails(i) PROVE Ending'
    BY <1>3, <2>1 DEF Begun, Refused, BeginFails
  <2>2. ASSUME OpenFails(i) PROVE Ending'
    BY <2>2 DEF OpenFails
  <2>3. ASSUME Opened(i) PROVE Ending'
    BY <2>3 DEF Opened
  <2> QED
    BY <1>3, <2>1, <2>2, <2>3 DEF Creating
<1>4. ASSUME NEW i \in Items, Completing(i) PROVE Ending'
  BY <1>4 DEF Completing, DoneSignalled, Answered, Lock, Responded, Ended, Received, LockBidi
<1>5. ASSUME NEW i \in Items, PeerSends(i) \/ ResponseHandled(i) \/ HandleFails(i) \/ PeerEnds(i) \/ CloseSend(i)
      PROVE  Ending'
  BY <1>5 DEF PeerSends, ResponseHandled, HandleFails, PeerEnds, CloseSend
<1>6. ASSUME UNCHANGED vars PROVE Ending'
  BY <1>6 DEF vars
<1> QED
  BY <1>1, <1>2, <1>3, <1>4, <1>5, <1>6 DEF Next

LEMMA StepIInv == IInv /\ [Next]_vars => IInv'
  BY StepTypeOK, StepCreated, StepReserved, StepEnding, StepReceiving DEF IInv

(* datasink/grpc/grpcds.py: end_request of a session is called once, after *)
(* every message and response of it.                                       *)
THEOREM RequestEndsLast == Spec => []EndIsLast
<1>1. Init => IInv
  BY InitIInv
<1>2. IInv /\ [Next]_vars => IInv'
  BY StepIInv
<1>3. IInv => EndIsLast
  BY DEF IInv, TypeOK, Created, Ending, Receiving, EndIsLast
<1> QED
  BY <1>1, <1>2, <1>3, PTL DEF Spec

(* datasink/grpc/grpcds.py: while a session's request lives, no message    *)
(* opens another one for its stream id.                                    *)
THEOREM SessionsApart == Spec => []OneSession
<1>1. Init => IInv
  BY InitIInv
<1>2. IInv /\ [Next]_vars => IInv'
  BY StepIInv
<1>3. IInv => OneSession
  BY DEF IInv, Reserved, Holds, Creations, OneSession, Begins
<1> QED
  BY <1>1, <1>2, <1>3, PTL DEF Spec

-----------------------------------------------------------------------------
(* The sinks that make one request of each message.                        *)

Opening == {"new", "beginning"}
Within == {"consuming", "calling", "responding"}

RequestTypes ==
  /\ reqStage \in [Requests -> Opening \union Within \union {"ending", "failing", "over"}]
  /\ reqEnds \in [Requests -> Nat]
  /\ reqActive \in Int

(* How often end_request was called, by where the request is. *)
EndsSoFar(r) ==
  /\ reqStage[r] \in Opening => reqEnds[r] = 0 /\ r \notin begun
  /\ reqStage[r] \in Within => reqEnds[r] = 0 /\ r \in begun
  /\ reqStage[r] \in Opening \union Within \union {"ending"} => r \notin endRaised
  /\ reqStage[r] = "ending" => reqEnds[r] = 1 /\ r \in begun
  /\ reqStage[r] = "failing" => reqEnds[r] = (IF r \in endRaised THEN 2 ELSE 1) /\ r \in begun
  /\ reqStage[r] = "over" =>
       /\ r \notin begun => reqEnds[r] = 0
       /\ r \in begun => reqEnds[r] > 0 \/ r \in cancelled
       /\ reqEnds[r] <= IF r \in endRaised THEN 2 ELSE 1

Unfinished == {r \in Requests : reqStage[r] \notin {"new", "over"}}

RequestInv ==
  RequestTypes /\ (\A r \in Requests : EndsSoFar(r)) /\ reqActive = Cardinality(Unfinished)

(* A request that goes from one place to another changes the gauge as the  *)
(* code does: up when it opens, down when it is over.                      *)
LEMMA GaugeMoves ==
  ASSUME IsFiniteSet(Requests), RequestInv, NEW r \in Requests, NEW s,
         reqStage' = [reqStage EXCEPT ![r] = s],
         \/ reqStage[r] = "new" /\ s \notin {"new", "over"} /\ reqActive' = reqActive + 1
         \/ reqStage[r] \notin {"new", "over"} /\ s = "over" /\ reqActive' = reqActive - 1
         \/ (reqStage[r] \in {"new", "over"} <=> s \in {"new", "over"}) /\ reqActive' = reqActive
  PROVE  reqActive' = Cardinality(Unfinished') /\ reqActive' \in Int
<1>1. IsFiniteSet(Unfinished) /\ Cardinality(Unfinished) \in Nat /\ reqActive = Cardinality(Unfinished)
  BY FS_Subset, FS_CardinalityType DEF Unfinished, RequestInv
<1>2. CASE reqStage[r] = "new" /\ s \notin {"new", "over"} /\ reqActive' = reqActive + 1
  <2>1. Unfinished' = Unfinished \union {r} /\ r \notin Unfinished
    BY <1>2 DEF Unfinished, RequestInv, RequestTypes
  <2>2. Cardinality(Unfinished') = Cardinality(Unfinished) + 1
    BY <1>1, <2>1, FS_AddElement
  <2> QED BY <1>1, <1>2, <2>2
<1>3. CASE reqStage[r] \notin {"new", "over"} /\ s = "over" /\ reqActive' = reqActive - 1
  <2>1. Unfinished' = Unfinished \ {r} /\ r \in Unfinished
    BY <1>3 DEF Unfinished, RequestInv, RequestTypes
  <2>2. Cardinality(Unfinished') = Cardinality(Unfinished) - 1
    BY <1>1, <2>1, FS_RemoveElement
  <2> QED BY <1>1, <1>3, <2>2
<1>4. CASE (reqStage[r] \in {"new", "over"} <=> s \in {"new", "over"}) /\ reqActive' = reqActive
  <2>1. Unfinished' = Unfinished
    BY <1>4 DEF Unfinished, RequestInv, RequestTypes
  <2> QED BY <1>1, <1>4, <2>1
<1> QED BY <1>2, <1>3, <1>4

(* The opening of a request. *)
LEMMA OpeningStep ==
  ASSUME IsFiniteSet(Requests), RequestInv, NEW r \in Requests,
         \/ Request!Drop(r) \/ Request!Open(r) \/ Request!Begun(r) \/ Request!BeginFails(r)
         \/ Request!KafkaOpen(r)
  PROVE  RequestInv'
<1> USE DEF RequestInv, RequestTypes, EndsSoFar, Opening, Within, Request!Enter
<1>1. CASE Request!Drop(r)
  <2>1. RequestTypes' /\ \A q \in Requests : EndsSoFar(q)'
    BY <1>1 DEF Request!Drop
  <2> QED BY <1>1, <2>1, GaugeMoves DEF Request!Drop
<1>2. CASE Request!Open(r)
  <2>1. RequestTypes' /\ \A q \in Requests : EndsSoFar(q)'
    BY <1>2 DEF Request!Open
  <2> QED BY <1>2, <2>1, GaugeMoves DEF Request!Open
<1>3. CASE Request!Begun(r)
  <2>1. RequestTypes' /\ \A q \in Requests : EndsSoFar(q)'
    BY <1>3 DEF Request!Begun
  <2> QED BY <1>3, <2>1, GaugeMoves DEF Request!Begun
<1>4. CASE Request!BeginFails(r)
  <2>1. RequestTypes' /\ \A q \in Requests : EndsSoFar(q)'
    BY <1>4 DEF Request!BeginFails, Request!Count
  <2> QED BY <1>4, <2>1, GaugeMoves DEF Request!BeginFails, Request!Count
<1>5. CASE Request!KafkaOpen(r)
  <2>1. RequestTypes' /\ \A q \in Requests : EndsSoFar(q)'
    BY <1>5 DEF Request!KafkaOpen
  <2> QED BY <1>5, <2>1, GaugeMoves DEF Request!KafkaOpen
<1> QED BY <1>1, <1>2, <1>3, <1>4, <1>5

(* What the message, the call and its responses do to a request. *)
LEMMA WithinStep ==
  ASSUME IsFiniteSet(Requests), RequestInv, NEW r \in Requests,
         \/ Request!Consumed(r) \/ Request!Answered(r) \/ Request!EndOfStream(r)
         \/ Request!Responded(r) \/ Request!Fail(r)
  PROVE  RequestInv'
<1> USE DEF RequestInv, RequestTypes, EndsSoFar, Opening, Within, Request!Enter, Request!EndRequest
<1>1. PICK s \in {"calling", "responding", "ending", "failing"} :
        /\ reqStage' = [reqStage EXCEPT ![r] = s]
        /\ reqStage[r] \in Within
        /\ reqEnds' = IF s \in {"ending", "failing"} THEN [reqEnds EXCEPT ![r] = @ + 1] ELSE reqEnds
        /\ UNCHANGED <<cancelled, begun, endRaised, reqActive>>
  BY DEF Request!Consumed, Request!Answered, Request!EndOfStream, Request!Responded, Request!Fail
<1>2. RequestTypes' /\ \A q \in Requests : EndsSoFar(q)'
  BY <1>1
<1> QED BY <1>1, <1>2, GaugeMoves

(* Wherever consume() awaits, its task may be cancelled. *)
LEMMA CancelStep ==
  ASSUME IsFiniteSet(Requests), RequestInv, NEW r \in Requests, Request!Cancel(r)
  PROVE  RequestInv'
<1> USE DEF RequestInv, RequestTypes, EndsSoFar, Opening, Within, Request!Enter, Request!Count, Request!Cancel
<1>1. RequestTypes' /\ \A q \in Requests : EndsSoFar(q)'
  OBVIOUS
<1> QED BY <1>1, GaugeMoves

(* end_request returns or raises, and may be called again. *)
LEMMA EndingStep ==
  ASSUME IsFiniteSet(Requests), RequestInv, NEW r \in Requests, Request!EndReturns(r) \/ Request!EndRaises(r)
  PROVE  RequestInv'
<1> USE DEF RequestInv, RequestTypes, EndsSoFar, Opening, Within, Request!Enter,
        Request!EndRequest, Request!Count
<1>1. CASE Request!EndReturns(r)
  <2>1. RequestTypes' /\ \A q \in Requests : EndsSoFar(q)'
    BY <1>1 DEF Request!EndReturns
  <2> QED BY <1>1, <2>1, GaugeMoves DEF Request!EndReturns
<1>2. CASE Request!EndRaises(r) /\ reqStage[r] = "ending" /\ kind \in {"local", "kafka"}
  <2>1. RequestTypes' /\ \A q \in Requests : EndsSoFar(q)'
    BY <1>2 DEF Request!EndRaises
  <2> QED BY <1>2, <2>1, GaugeMoves DEF Request!EndRaises
<1>3. CASE Request!EndRaises(r) /\ ~(reqStage[r] = "ending" /\ kind \in {"local", "kafka"})
  <2>1. RequestTypes' /\ \A q \in Requests : EndsSoFar(q)'
    BY <1>3 DEF Request!EndRaises
  <2> QED BY <1>3, <2>1, GaugeMoves DEF Request!EndRaises
<1> QED BY <1>1, <1>2, <1>3

(* datasink/localsink/custom.py, datasink/http/aiohttpds.py,               *)
(* datasink/grpc/grpcds.py and datasink/kafka/aiokafkads.py: a request     *)
(* that is over has called end_request only if begin_request had returned, *)
(* and if it had, unless its task was cancelled before; once, or twice if  *)
(* the first call raised; and the gauge counts the requests that are not   *)
(* over, on every path through a sink, cancellation included.              *)
THEOREM EveryBeginHasItsEnd ==
  IsFiniteSet(Requests) => (Request!Spec => []Request!EndMatchesBegin)
<1> SUFFICES ASSUME IsFiniteSet(Requests) PROVE Request!Spec => []Request!EndMatchesBegin
  OBVIOUS
<1>1. Request!Init => RequestInv
  <2> SUFFICES ASSUME Request!Init PROVE RequestInv OBVIOUS
  <2>1. Unfinished = {}
    BY DEF Request!Init, Unfinished
  <2> QED BY <2>1, FS_EmptySet DEF Request!Init, RequestInv, RequestTypes, EndsSoFar, Opening, Within
<1>2. RequestInv /\ [Request!Next]_(Request!vars) => RequestInv'
  <2> SUFFICES ASSUME RequestInv, [Request!Next]_(Request!vars) PROVE RequestInv' OBVIOUS
  <2>1. ASSUME UNCHANGED Request!requestVars PROVE RequestInv'
    BY <2>1 DEF Request!requestVars, RequestInv, RequestTypes, EndsSoFar, Unfinished
  <2> QED
    BY <2>1, OpeningStep, WithinStep, CancelStep, EndingStep
       DEF Request!Next, Request!vars, Request!Returns, Request!Start, Request!Stop, Request!Stopped,
           Request!Send, Request!Produce, Request!Delivered, Request!ReportRaises, Request!Exit,
           Request!CancelSend
<1>3. RequestInv => Request!EndMatchesBegin
  <2> SUFFICES ASSUME RequestInv PROVE Request!EndMatchesBegin OBVIOUS
  <2>1. ASSUME NEW r \in Requests
        PROVE  /\ r \notin begun => reqEnds[r] = 0
               /\ reqStage[r] = "over" /\ r \in begun => reqEnds[r] > 0 \/ r \in cancelled
               /\ reqEnds[r] <= IF r \in endRaised THEN 2 ELSE 1
    <3>1. EndsSoFar(r) /\ reqEnds[r] \in Nat
          /\ reqStage[r] \in Opening \union Within \union {"ending", "failing", "over"}
      BY DEF RequestInv, RequestTypes
    <3>2. CASE reqStage[r] \in Opening \union Within
      BY <3>1, <3>2 DEF EndsSoFar, Opening, Within
    <3>3. CASE reqStage[r] = "ending"
      BY <3>1, <3>3 DEF EndsSoFar, Opening, Within
    <3>4. CASE reqStage[r] = "failing"
      BY <3>1, <3>4 DEF EndsSoFar
    <3>5. CASE reqStage[r] = "over"
      BY <3>1, <3>5 DEF EndsSoFar
    <3> QED BY <3>1, <3>2, <3>3, <3>4, <3>5
  <2>2. \A S : Request!Cardinality(S) = Cardinality(S)
    BY Zenon DEF Request!Cardinality, Cardinality, Request!IsFiniteSet, IsFiniteSet
  <2> QED BY <2>1, <2>2 DEF RequestInv, Unfinished, Request!EndMatchesBegin
<1> QED BY <1>1, <1>2, <1>3, PTL DEF Request!Spec

-----------------------------------------------------------------------------
(* The messages of the Kafka sink. *)
ReportInv ==
  /\ message \in [Requests -> {"none", "queued", "sent", "over", "lost"}]
  /\ reports \in [Requests -> Nat]
  /\ \A r \in Requests : message[r] # "over" => r \notin reportRaised
  /\ Request!ReportMatchesSend

(* A step of one message: it goes on or is lost, and is reported when it   *)
(* is over.                                                                *)
LEMMA MessageStep ==
  ASSUME ReportInv, NEW r \in Requests,
         \/ Request!Send(r) \/ Request!Produce(r) \/ Request!Delivered(r) \/ Request!ReportRaises(r)
         \/ Request!CancelSend(r)
  PROVE  ReportInv'
<1> USE DEF ReportInv
<1>1. PICK m \in {"queued", "sent", "over", "lost"}, n \in {0, 1, 2} :
        /\ message' = [message EXCEPT ![r] = m] /\ reports' = [reports EXCEPT ![r] = n]
        /\ reportRaised' = IF n = 2 THEN reportRaised \union {r} ELSE reportRaised
        /\ m = "over" <=> n # 0
        /\ m = "sent" => sink = "up"
        /\ message[r] # "over" /\ UNCHANGED sink
  <2>1. message[r] # "over" => reports[r] = 0
    BY DEF Request!ReportMatchesSend
  <2>2. reports = [reports EXCEPT ![r] = reports[r]]
    OBVIOUS
  <2>3. CASE Request!Send(r)
    BY <2>1, <2>2, <2>3 DEF Request!Send
  <2>4. CASE Request!Produce(r)
    BY <2>1, <2>2, <2>4 DEF Request!Produce, Request!OnDelivery
  <2>5. CASE Request!Delivered(r)
    BY <2>1, <2>5 DEF Request!Delivered, Request!OnDelivery
  <2>6. CASE Request!ReportRaises(r)
    BY <2>1, <2>6 DEF Request!ReportRaises
  <2>7. CASE Request!CancelSend(r)
    BY <2>1, <2>2, <2>7 DEF Request!CancelSend
  <2> QED
    BY <2>3, <2>4, <2>5, <2>6, <2>7
<1>2. /\ message'[r] = m /\ reports'[r] = n
      /\ \A q \in Requests \ {r} : message'[q] = message[q] /\ reports'[q] = reports[q]
                                   /\ (q \in reportRaised' <=> q \in reportRaised)
      /\ r \notin reportRaised /\ (r \in reportRaised' <=> n = 2)
  BY <1>1
<1>3. Request!ReportMatchesSend'
  BY <1>1, <1>2 DEF Request!ReportMatchesSend
<1> QED
  BY <1>1, <1>2, <1>3

(* Everything else leaves the messages alone; the producer has answered    *)
(* for all of them before the sink is down.                                *)
LEMMA NoMessageStep ==
  ASSUME ReportInv, UNCHANGED <<message, reports, reportRaised>>,
         \/ sink' \in {"up", "stopping", sink}
         \/ \A r \in Requests : message[r] # "sent"
  PROVE  ReportInv'
BY DEF ReportInv, Request!ReportMatchesSend

(* datasink/kafka/aiokafkads.py: whatever stops, fails or raises, nothing  *)
(* is reported of a message that is on its way or lost, what is over was   *)
(* reported,                                                               *)
(* once unless the report itself raised, and a sink that is down has left  *)
(* nothing with its producer.                                              *)
THEOREM ReportsMatchSends == Request!Spec => []Request!ReportMatchesSend
<1>1. Request!Init => ReportInv
  BY DEF Request!Init, ReportInv, Request!ReportMatchesSend
<1>2. ReportInv /\ [Request!Next]_(Request!vars) => ReportInv'
  <2> SUFFICES ASSUME ReportInv, [Request!Next]_(Request!vars) PROVE ReportInv'
    OBVIOUS
  <2>1. CASE \E r \in Requests :
               \/ Request!Send(r) \/ Request!Produce(r) \/ Request!Delivered(r) \/ Request!ReportRaises(r)
               \/ Request!CancelSend(r)
    BY <2>1, MessageStep
  <2>2. CASE Request!Start \/ Request!Stop \/ Request!Stopped \/ \E r \in Requests : Request!Exit(r)
    BY <2>2, NoMessageStep DEF Request!Exit, Request!sendVars, Request!Start, Request!Stop, Request!Stopped
  <2>3. CASE \E r \in Requests :
               \/ Request!Drop(r) \/ Request!Open(r) \/ Request!Begun(r) \/ Request!BeginFails(r)
               \/ Request!KafkaOpen(r)
    BY <2>3, NoMessageStep
       DEF Request!Drop, Request!Open, Request!Begun, Request!BeginFails, Request!KafkaOpen, Request!sendVars
  <2>4. CASE \E r \in Requests : Request!Returns(r) \/ Request!Fail(r) \/ Request!EndRaises(r) \/ Request!Cancel(r)
    BY <2>4, NoMessageStep
       DEF Request!sendVars, Request!Cancel, Request!Returns, Request!Consumed, Request!Answered, Request!Responded, Request!EndOfStream,
           Request!EndReturns, Request!Fail, Request!EndRaises
  <2>5. CASE UNCHANGED Request!vars
    BY <2>5, NoMessageStep DEF Request!vars, Request!sendVars
  <2> QED
    BY <2>1, <2>2, <2>3, <2>4, <2>5 DEF Request!Next
<1>3. ReportInv => Request!ReportMatchesSend
  BY DEF ReportInv
<1> QED BY <1>1, <1>2, <1>3, PTL DEF Request!Spec
=============================================================================
