------------------------ MODULE RequestSourceProofs ------------------------
(* Proofs about RequestSource for any requests, stream ids and sizes of    *)
(* the pending map, over each of the four transports.                      *)
EXTENDS RequestSource, TLAPS

Types ==
  /\ transport \in {"http", "grpc", "custom", "kafka"} /\ hasResult \in BOOLEAN
  /\ stage \in [Requests -> Stages] /\ sid \in [Requests -> Sids]
  /\ begun \subseteq Requests /\ ends \in [Requests -> Nat]

(* How often end_request was called by the time a coroutine is somewhere. *)
EndsByStage ==
  \A r \in Requests :
    /\ stage[r] \in {"new", "beginning"} => r \notin begun /\ ends[r] = 0
    /\ stage[r] \in {"consuming", "awaiting", "finalizing"} => r \in begun /\ ends[r] = 0
    /\ stage[r] \in {"rejecting", "ending", "ended"} => r \in begun /\ ends[r] = 1
    /\ stage[r] \in {"rejecting", "finalizing", "ended"} => transport = "grpc"
    /\ stage[r] = "over" => ends[r] = 0 \/ (ends[r] = 1 /\ r \in begun)
    /\ stage[r] = "over" /\ transport = "grpc" /\ r \in begun => ends[r] = 1

Progress == Types /\ EndsByStage

Steps(r) ==
  HttpStep(r) \/ GrpcStep(r) \/ CustomStep(r) \/ KafkaStep(r)

LEMMA InitProgress == Init => Progress
  BY DEF Init, Progress, Types, EndsByStage, Stages

LEMMA HttpProgress ==
  ASSUME Progress, NEW r \in Requests, HttpStep(r) PROVE Progress'
<1> USE DEF Progress, Types, EndsByStage, Stages, Enter, EndRequest, sourceVars
<1>1. ASSUME HttpOpen(r) \/ HttpBeginFails(r) \/ HttpBegun(r) \/ HttpEndReturns(r) PROVE Progress'
  BY <1>1 DEF HttpOpen, HttpBeginFails, HttpBegun, HttpEndReturns
<1>2. ASSUME HttpConsumeFails(r) \/ HttpConsumed(r) \/ HttpAnswered(r) \/ HttpCancel(r) PROVE Progress'
  BY <1>2 DEF HttpConsumeFails, HttpConsumed, HttpAnswered, HttpCancel, HttpConclude
<1> QED
  BY <1>1, <1>2 DEF HttpStep

LEMMA GrpcProgress ==
  ASSUME Progress, NEW r \in Requests, GrpcStep(r) PROVE Progress'
<1> USE DEF Progress, Types, EndsByStage, Stages, Enter, EndRequest, sourceVars
<1>1. ASSUME GrpcOpen(r) \/ GrpcBeginFails(r) \/ GrpcBegun(r) \/ GrpcRejected(r) PROVE Progress'
  BY <1>1 DEF GrpcOpen, GrpcBeginFails, GrpcBegun, GrpcRejected
<1>2. ASSUME GrpcConsumeFails(r) \/ GrpcConsumed(r) \/ GrpcAnswered(r) \/ GrpcCancel(r) PROVE Progress'
  BY <1>2 DEF GrpcConsumeFails, GrpcConsumed, GrpcAnswered, GrpcCancel, GrpcClose
<1>3. ASSUME GrpcFinalize(r) \/ GrpcEndReturns(r) \/ GrpcRelease(r) PROVE Progress'
  BY <1>3 DEF GrpcFinalize, GrpcEndReturns, GrpcRelease
<1> QED
  BY <1>1, <1>2, <1>3 DEF GrpcStep

LEMMA CustomProgress ==
  ASSUME Progress, NEW r \in Requests, CustomStep(r) PROVE Progress'
<1> USE DEF Progress, Types, EndsByStage, Stages, Enter, EndRequest, sourceVars
<1>1. ASSUME CustomOpen(r) \/ CustomBeginFails(r) \/ CustomBegun(r) \/ CustomEndReturns(r) PROVE Progress'
  BY <1>1 DEF CustomOpen, CustomBeginFails, CustomBegun, CustomEndReturns
<1>2. ASSUME CustomConsumeFails(r) \/ CustomConsumed(r) \/ CustomAnswered(r) \/ CustomTimeout(r) \/ CustomCancel(r)
      PROVE  Progress'
  BY <1>2 DEF CustomConsumeFails, CustomConsumed, CustomAnswered, CustomTimeout, CustomCancel, CustomConclude
<1> QED
  BY <1>1, <1>2 DEF CustomStep

LEMMA KafkaProgress ==
  ASSUME Progress, NEW r \in Requests, KafkaStep(r) PROVE Progress'
<1> USE DEF Progress, Types, EndsByStage, Stages, Enter, EndRequest, sourceVars
<1>1. ASSUME KafkaOpen(r) \/ KafkaBeginFails(r) \/ KafkaBegun(r) \/ KafkaEndReturns(r) PROVE Progress'
  BY <1>1 DEF KafkaOpen, KafkaBeginFails, KafkaBegun, KafkaEndReturns
<1>2. ASSUME KafkaConsumeFails(r) \/ KafkaConsumed(r) \/ KafkaAnswered(r) \/ KafkaGivesUp(r) \/ KafkaCancel(r)
      PROVE  Progress'
  BY <1>2 DEF KafkaConsumeFails, KafkaConsumed, KafkaAnswered, KafkaGivesUp, KafkaCancel, KafkaConclude
<1> QED
  BY <1>1, <1>2 DEF KafkaStep

(* Everything else leaves the coroutines of the requests where they are. *)
LEMMA OtherSteps ==
  ASSUME [Next]_vars
  PROVE  \/ \E r \in Requests : Steps(r)
         \/ HttpStart \/ GrpcStart \/ CustomStart \/ KafkaStart
         \/ CloseAdmission \/ StopRotation \/ RotationTick
         \/ UNCHANGED <<sourceVars, stage, sid, begun, ends, mapVars>>
<1>1. ASSUME NEW r \in Requests, SetDone(r) \/ \E m \in Messages : Register(r, m)
      PROVE  UNCHANGED <<sourceVars, stage, sid, begun, ends, mapVars>>
  BY <1>1 DEF SetDone, Register, sourceVars
<1>2. ASSUME DeliveryStep PROVE UNCHANGED <<sourceVars, stage, sid, begun, ends, mapVars>>
  <2> DEFINE Same == UNCHANGED <<sourceVars, stage, sid, begun, ends, mapVars>>
  <2>1. ASSUME NEW s \in Sids, NEW m \in Messages, NEW x \in BOOLEAN, NEW f \in BOOLEAN,
               HttpDeliver(s, m, x, f) PROVE Same
    BY <2>1 DEF HttpDeliver, requestVars
  <2>2. ASSUME NEW s \in Sids, NEW m \in Messages, NEW x \in BOOLEAN, NEW f \in BOOLEAN,
               CustomDeliver(s, m, x, f) PROVE Same
    BY <2>2 DEF CustomDeliver, requestVars
  <2>3. ASSUME NEW s \in Sids, NEW m \in Messages, NEW x \in BOOLEAN, NEW f \in BOOLEAN,
               KafkaDeliver(s, m, x, f) PROVE Same
    BY <2>3 DEF KafkaDeliver, requestVars
  <2>4. ASSUME NEW d \in Deliveries, NEW s \in Sids, NEW m \in Messages, GrpcDeliver(d, s, m) PROVE Same
    BY <2>4 DEF GrpcDeliver, requestVars
  <2>5. ASSUME NEW d \in Deliveries, NEW r \in Requests, CallbackBegin(d, r) \/ DeliveryDropped(d, r)
        PROVE  Same
    BY <2>5 DEF CallbackBegin, DeliveryDropped, requestVars
  <2>6. ASSUME NEW d \in Deliveries, NEW x \in BOOLEAN, NEW f \in BOOLEAN, CallbackReturns(d, x, f)
        PROVE  Same
    BY <2>6 DEF CallbackReturns, requestVars
  <2> QED
    BY <1>2, <2>1, <2>2, <2>3, <2>4, <2>5, <2>6 DEF DeliveryStep
<1>3. ASSUME UNCHANGED vars PROVE UNCHANGED <<sourceVars, stage, sid, begun, ends, mapVars>>
  BY <1>3 DEF vars, requestVars
<1> QED
  BY <1>1, <1>2, <1>3 DEF Next, Steps

LEMMA StepProgress == Progress /\ [Next]_vars => Progress'
<1> SUFFICES ASSUME Progress, [Next]_vars PROVE Progress'
  OBVIOUS
<1>1. ASSUME NEW r \in Requests, Steps(r) PROVE Progress'
  BY <1>1, HttpProgress, GrpcProgress, CustomProgress, KafkaProgress DEF Steps
<1>2. ASSUME HttpStart \/ GrpcStart \/ CustomStart \/ KafkaStart \/ CloseAdmission \/ StopRotation \/ RotationTick
      PROVE  Progress'
  BY <1>2 DEF HttpStart, GrpcStart, CustomStart, KafkaStart, CloseAdmission, StopRotation, RotationTick,
              Progress, Types, EndsByStage, sourceVars, requestVars
<1>3. ASSUME UNCHANGED <<sourceVars, stage, sid, begun, ends, mapVars>> PROVE Progress'
  BY <1>3 DEF Progress, Types, EndsByStage, sourceVars
<1> QED
  BY <1>1, <1>2, <1>3, OtherSteps

(* datasource/{http,grpc,localsource,kafka}: end_request follows           *)
(* begin_request, is never called twice, and in a gRPC source is not left  *)
(* out, however a request ends.                                            *)
THEOREM EndFollowsBegin == Spec => []EndedOnce
<1>1. Init => Progress
  BY InitProgress
<1>2. Progress /\ [Next]_vars => Progress'
  BY StepProgress
<1>3. Progress => EndedOnce
  BY DEF Progress, Types, EndsByStage, EndedOnce, Stages
<1> QED
  BY <1>1, <1>2, <1>3, PTL DEF Spec

-----------------------------------------------------------------------------
(* The pending map as one function from ids to requests; Set, Pop and      *)
(* Rotate as what they do to it.                                           *)
Lookup == [k \in Keys |-> Get(k)]

MapOK ==
  /\ current \in Bucket /\ prev \in Bucket
  /\ \A k \in Keys : current[k] = NoValue \/ prev[k] = NoValue

LEMMA HasLookup == ASSUME NEW k \in Keys PROVE Has(k) <=> Lookup[k] # NoValue
  BY DEF Has, Lookup, Get

LEMMA SetLookup ==
  ASSUME MapOK, NEW k \in Keys, NEW v \in Values, Lookup[k] = NoValue, Set(k, v)
  PROVE  MapOK' /\ Lookup' = [j \in Keys |-> IF j = k THEN v ELSE Lookup[j]]
<1>1. current[k] = NoValue /\ prev[k] = NoValue
  BY ValuesAssumption DEF Lookup, Get, MapOK, Bucket
<1> QED
  BY <1>1, ValuesAssumption DEF MapOK, Bucket, Lookup, Get, Set

LEMMA PopLookup ==
  ASSUME MapOK, NEW k \in Keys, Pop(k)
  PROVE  MapOK' /\ Lookup' = [j \in Keys |-> IF j = k THEN NoValue ELSE Lookup[j]]
  BY ValuesAssumption DEF MapOK, Bucket, Lookup, Get, Pop

LEMMA RotateLookup ==
  ASSUME MapOK, Rotate
  PROVE  MapOK' /\ Lookup' = Lookup
  BY ValuesAssumption DEF MapOK, Bucket, EmptyBucket, Lookup, Get, Rotate, Merged

LEMMA KeepLookup ==
  ASSUME MapOK, UNCHANGED mapVars
  PROVE  MapOK' /\ Lookup' = Lookup
  BY DEF MapOK, Lookup, Get, mapVars

(* What an id finds is a request of that id; and ReservationKept in terms  *)
(* of Lookup.                                                              *)
Found == \A k \in Sids : Lookup[k] # NoValue => Lookup[k] \in Requests /\ sid[Lookup[k]] = k

Kept ==
  \A r \in Requests :
    /\ stage[r] \in Holding => Lookup[sid[r]] = r
    /\ Lookup[sid[r]] = r => \/ stage[r] \in Holding
                             \/ stage[r] = "over" /\ ends[r] = 0 /\ transport # "grpc"
                                /\ (transport = "kafka" \/ ~admitting)

(* Kafka makes an id for each request; no source but a gRPC one has        *)
(* requests before it is started.                                          *)
Apart == transport = "kafka" => \A r, q \in Requests : r # q => sid[r] # sid[q]

Unstarted == ~started /\ transport # "grpc" => \A r \in Requests : stage[r] = "new"

AdmitsStarted == admitting /\ transport # "grpc" => started

IInv == Progress /\ MapOK /\ Found /\ Kept /\ Apart /\ Unstarted /\ AdmitsStarted

LEMMA InitIInv == Init => IInv
<1> SUFFICES ASSUME Init PROVE IInv
  OBVIOUS
<1>1. Progress /\ Apart /\ Unstarted /\ AdmitsStarted
  BY InitProgress DEF Init, Apart, Unstarted, AdmitsStarted
<1>2. MapOK /\ \A k \in Keys : Lookup[k] = NoValue
  BY DEF Init, MapInit, EmptyBucket, Bucket, MapOK, Lookup, Get
<1>3. Found /\ Kept
  BY <1>2, ValuesAssumption DEF Init, Found, Kept, Holding, Requests, Sids
<1> QED
  BY <1>1, <1>2, <1>3 DEF IInv

LEMMA HttpKept ==
  ASSUME IInv, NEW r \in Requests, HttpStep(r) PROVE IInv'
<1> USE ValuesAssumption DEF IInv, Progress, Types, EndsByStage, Found, Kept, Apart, Unstarted, AdmitsStarted,
        Holding, Enter, EndRequest, sourceVars, Stages, Requests, Sids
<1>0. Progress'
  BY HttpProgress
<1>1. ASSUME HttpOpen(r) \/ HttpBeginFails(r) \/ HttpEndReturns(r) PROVE IInv'
  BY <1>0, <1>1, KeepLookup DEF HttpOpen, HttpBeginFails, HttpEndReturns
<1>2. ASSUME HttpBegun(r) PROVE IInv'
  <2>1. CASE hasResult /\ ~Has(sid[r])
    BY <1>0, <1>2, <2>1, HasLookup, SetLookup DEF HttpBegun
  <2>2. CASE ~hasResult \/ Has(sid[r])
    BY <1>0, <1>2, <2>2, HasLookup, KeepLookup DEF HttpBegun
  <2> QED
    BY <2>1, <2>2
<1>3. ASSUME HttpConclude(r), transport = "http", stage[r] \in {"consuming", "awaiting"} PROVE IInv'
  <2>1. CASE hasResult
    BY <1>0, <1>3, <2>1, PopLookup DEF HttpConclude
  <2>2. CASE ~hasResult
    BY <1>0, <1>3, <2>2, KeepLookup DEF HttpConclude
  <2> QED
    BY <2>1, <2>2
<1>4. ASSUME HttpConsumeFails(r) \/ HttpConsumed(r) \/ HttpAnswered(r) \/ HttpCancel(r) PROVE IInv'
  BY <1>0, <1>3, <1>4, KeepLookup DEF HttpConsumeFails, HttpConsumed, HttpAnswered, HttpCancel
<1> QED
  BY <1>1, <1>2, <1>4 DEF HttpStep

LEMMA CustomKept ==
  ASSUME IInv, NEW r \in Requests, CustomStep(r) PROVE IInv'
<1> USE ValuesAssumption DEF IInv, Progress, Types, EndsByStage, Found, Kept, Apart, Unstarted, AdmitsStarted,
        Holding, Enter, EndRequest, sourceVars, Stages, Requests, Sids
<1>0. Progress'
  BY CustomProgress
<1>1. ASSUME CustomOpen(r) \/ CustomBeginFails(r) \/ CustomEndReturns(r) PROVE IInv'
  BY <1>0, <1>1, KeepLookup DEF CustomOpen, CustomBeginFails, CustomEndReturns
<1>2. ASSUME CustomBegun(r) PROVE IInv'
  <2>1. CASE hasResult /\ ~Has(sid[r])
    BY <1>0, <1>2, <2>1, HasLookup, SetLookup DEF CustomBegun
  <2>2. CASE ~hasResult \/ Has(sid[r])
    BY <1>0, <1>2, <2>2, HasLookup, KeepLookup DEF CustomBegun
  <2> QED
    BY <2>1, <2>2
<1>3. ASSUME CustomConclude(r), transport = "custom", stage[r] \in {"consuming", "awaiting"} PROVE IInv'
  <2>1. CASE hasResult
    BY <1>0, <1>3, <2>1, PopLookup DEF CustomConclude
  <2>2. CASE ~hasResult
    BY <1>0, <1>3, <2>2, KeepLookup DEF CustomConclude
  <2> QED
    BY <2>1, <2>2
<1>4. ASSUME CustomConsumeFails(r) \/ CustomConsumed(r) \/ CustomAnswered(r) \/ CustomTimeout(r) \/ CustomCancel(r)
      PROVE  IInv'
  BY <1>0, <1>3, <1>4, KeepLookup DEF CustomConsumeFails, CustomConsumed, CustomAnswered,
                              CustomTimeout, CustomCancel
<1> QED
  BY <1>1, <1>2, <1>4 DEF CustomStep

LEMMA KafkaKept ==
  ASSUME IInv, NEW r \in Requests, KafkaStep(r) PROVE IInv'
<1> USE ValuesAssumption DEF IInv, Progress, Types, EndsByStage, Found, Kept, Apart, Unstarted, AdmitsStarted,
        Holding, Enter, EndRequest, sourceVars, Stages, Requests, Sids
<1>0. Progress'
  BY KafkaProgress
<1>1. ASSUME KafkaOpen(r) \/ KafkaBeginFails(r) \/ KafkaEndReturns(r) PROVE IInv'
  BY <1>0, <1>1, KeepLookup DEF KafkaOpen, KafkaBeginFails, KafkaEndReturns
<1>2. ASSUME KafkaBegun(r) PROVE IInv'
  <2>1. CASE hasResult
    <3>1. Lookup[sid[r]] = NoValue
      BY <1>2, <2>1 DEF KafkaBegun
    <3> QED
      BY <1>0, <1>2, <2>1, <3>1, SetLookup DEF KafkaBegun
  <2>2. CASE ~hasResult
    BY <1>0, <1>2, <2>2, KeepLookup DEF KafkaBegun
  <2> QED
    BY <2>1, <2>2
<1>3. ASSUME KafkaConclude(r), transport = "kafka", stage[r] \in {"consuming", "awaiting"} PROVE IInv'
  <2>1. CASE hasResult
    BY <1>0, <1>3, <2>1, PopLookup DEF KafkaConclude
  <2>2. CASE ~hasResult
    BY <1>0, <1>3, <2>2, KeepLookup DEF KafkaConclude
  <2> QED
    BY <2>1, <2>2
<1>4. ASSUME KafkaConsumeFails(r) \/ KafkaConsumed(r) \/ KafkaAnswered(r) \/ KafkaGivesUp(r) \/ KafkaCancel(r)
      PROVE  IInv'
  BY <1>0, <1>3, <1>4, KeepLookup DEF KafkaConsumeFails, KafkaConsumed, KafkaAnswered, KafkaGivesUp, KafkaCancel
<1> QED
  BY <1>1, <1>2, <1>4 DEF KafkaStep

LEMMA GrpcKept ==
  ASSUME IInv, NEW r \in Requests, GrpcStep(r) PROVE IInv'
<1> USE ValuesAssumption DEF IInv, Progress, Types, EndsByStage, Found, Kept, Apart, Unstarted, AdmitsStarted,
        Holding, Enter, EndRequest, sourceVars, Stages, Requests, Sids
<1>0. Progress'
  BY GrpcProgress
<1>1. ASSUME GrpcOpen(r) \/ GrpcBeginFails(r) \/ GrpcRejected(r) PROVE IInv'
  BY <1>0, <1>1, KeepLookup DEF GrpcOpen, GrpcBeginFails, GrpcRejected
<1>2. ASSUME GrpcBegun(r) PROVE IInv'
  <2>1. CASE started /\ ~Has(sid[r])
    BY <1>0, <1>2, <2>1, HasLookup, SetLookup DEF GrpcBegun
  <2>2. CASE ~(started /\ ~Has(sid[r]))
    BY <1>0, <1>2, <2>2, KeepLookup DEF GrpcBegun
  <2> QED
    BY <2>1, <2>2
<1>3. ASSUME GrpcConsumeFails(r) \/ GrpcConsumed(r) \/ GrpcAnswered(r) \/ GrpcCancel(r) PROVE IInv'
  BY <1>0, <1>3, KeepLookup DEF GrpcConsumeFails, GrpcConsumed, GrpcAnswered, GrpcCancel, GrpcClose
<1>4. ASSUME GrpcFinalize(r) \/ GrpcEndReturns(r) PROVE IInv'
  BY <1>0, <1>4, KeepLookup DEF GrpcFinalize, GrpcEndReturns
<1>5. ASSUME GrpcRelease(r) PROVE IInv'
  BY <1>0, <1>5, PopLookup DEF GrpcRelease
<1> QED
  BY <1>1, <1>2, <1>3, <1>4, <1>5 DEF GrpcStep

(* start() finds no request but a gRPC one, and a request that left its    *)
(* reservation behind has seen its source closed for good.                 *)
LEMMA StepIInv == IInv /\ [Next]_vars => IInv'
<1> SUFFICES ASSUME IInv, [Next]_vars PROVE IInv'
  OBVIOUS
<1>0. Progress'
  BY StepProgress DEF IInv
<1>1. ASSUME NEW r \in Requests, Steps(r) PROVE IInv'
  BY <1>1, HttpKept, GrpcKept, CustomKept, KafkaKept DEF Steps
<1>2. ASSUME HttpStart \/ GrpcStart \/ CustomStart \/ KafkaStart \/ CloseAdmission \/ StopRotation PROVE IInv'
  <2>1. MapOK' /\ Lookup' = Lookup
    BY <1>2, KeepLookup DEF IInv, HttpStart, GrpcStart, CustomStart, KafkaStart, CloseAdmission, StopRotation
  <2> QED
    BY <1>0, <1>2, <2>1 DEF IInv, Found, Kept, Apart, Unstarted, AdmitsStarted, Holding, requestVars,
       HttpStart, GrpcStart, CustomStart, KafkaStart, CloseAdmission, StopRotation
<1>3. ASSUME RotationTick PROVE IInv'
  <2>1. MapOK' /\ Lookup' = Lookup
    BY <1>3, RotateLookup DEF IInv, RotationTick
  <2> QED
    BY <1>0, <1>3, <2>1 DEF IInv, Found, Kept, Apart, Unstarted, AdmitsStarted, Holding, RotationTick,
       sourceVars, requestVars
<1>4. ASSUME UNCHANGED <<sourceVars, stage, sid, begun, ends, mapVars>> PROVE IInv'
  <2>1. MapOK' /\ Lookup' = Lookup
    BY <1>4, KeepLookup DEF IInv
  <2> QED
    BY <1>0, <1>4, <2>1 DEF IInv, Found, Kept, Apart, Unstarted, AdmitsStarted, Holding, sourceVars
<1> QED
  BY <1>1, <1>2, <1>3, <1>4, OtherSteps

(* runtime/store/rotatingmap.py and the sources above it: the id of a      *)
(* request that lives finds that request, through any rotation, and what   *)
(* stays behind in the map was cancelled.                                  *)
THEOREM IdFindsRequest == Spec => []ReservationKept
<1>1. Init => IInv
  BY InitIInv
<1>2. IInv /\ [Next]_vars => IInv'
  BY StepIInv
<1>3. IInv => ReservationKept
  BY DEF IInv, Progress, Types, Kept, Lookup, Sids, ReservationKept, Reserved
<1> QED
  BY <1>1, <1>2, <1>3, PTL DEF Spec
=============================================================================
