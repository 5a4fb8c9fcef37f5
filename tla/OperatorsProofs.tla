-------------------------- MODULE OperatorsProofs --------------------------
(* Proofs about the sub-stream call (SubStream) for any results, inline or *)
(* not, and about the join storage (HashMapJoinStorage) for any keys,      *)
(* calls and times.                                                        *)
EXTENDS MCOperators, FiniteSetTheorems, TLAPS

Places == {"calling", "body", "waiting", "closing", "over"}

CallTypes ==
  /\ caller \in Places /\ outcome \in {"normal", "raised"}
  /\ result \in [Results -> {"none", "locking", "out", "drained", "raised", "over"}]
  /\ lock \in Results \union {NoHolder}

(* The lock tells whose collector runs; nothing gets it once the call is   *)
(* closed.                                                                 *)
LockTells == \A r \in Results : Collecting(r) <=> lock = r

(* Whoever completes, closes; who waits is told that it is done only by a  *)
(* collector that has all it needs or by a failure.                        *)
CompleteCloses ==
  /\ complete => closed
  /\ \A r \in Results : Collecting(r) => ~complete
  /\ done <=> error \/ complete

(* The call is over with the lock free and its door closed. *)
OverClosed ==
  /\ caller = "over" => closed /\ lock = NoHolder
  /\ caller \in {"closing", "over"} => outcome = "raised" \/ complete

CallInv == CallTypes /\ LockTells /\ CompleteCloses /\ OverClosed

LEMMA InitCallInv == Init => CallInv
  BY ResultsAssumption DEF Init, CallInv, CallTypes, LockTells, CompleteCloses, OverClosed, Collecting, Places

(* Steps that leave the lock, and so the collector, alone. *)
LEMMA CallerStep ==
  ASSUME CallInv, Expire \/ CancelRequest \/ Call \/ BodyReturns \/ Abandon \/ WaitEnds \/ Close
  PROVE  CallInv'
<1> USE ResultsAssumption
<1>1. ASSUME Expire \/ CancelRequest \/ Call \/ BodyReturns \/ Abandon PROVE CallInv'
  BY <1>1 DEF CallInv, CallTypes, LockTells, CompleteCloses, OverClosed, Collecting, Places,
              Expire, CancelRequest, Call, BodyReturns, Abandon
<1>2. ASSUME WaitEnds PROVE CallInv'
  BY <1>2 DEF CallInv, CallTypes, LockTells, CompleteCloses, OverClosed, Collecting, Places, WaitEnds
<1>3. ASSUME Close PROVE CallInv'
  BY <1>3 DEF CallInv, CallTypes, LockTells, CompleteCloses, OverClosed, Collecting, Places, Close
<1> QED
  BY <1>1, <1>2, <1>3

(* Steps of one delivery. *)
LEMMA ResultStep ==
  ASSUME CallInv, NEW r \in Results,
         Arrive(r) \/ Collects(r) \/ CancelDelivery(r)
  PROVE  CallInv'
<1> USE ResultsAssumption DEF CallInv, CallTypes, LockTells, CompleteCloses, OverClosed,
        Collecting, Places, Become, RaisedIn, Fail
<1>1. ASSUME Arrive(r) PROVE CallInv'
  BY <1>1 DEF Arrive
<1>2. ASSUME Deliver(r) PROVE CallInv'
  <2>1. CASE closed
    BY <1>2, <2>1 DEF Deliver
  <2>2. CASE ~closed /\ Stopped
    BY <1>2, <2>2 DEF Deliver
  <2>3. CASE ~closed /\ ~Stopped
    BY <1>2, <2>3 DEF Deliver
  <2> QED
    BY <2>1, <2>2, <2>3
<1>3. ASSUME CollectorReturns(r) PROVE CallInv'
  BY <1>3 DEF CollectorReturns
<1>4. ASSUME CollectorRaises(r) PROVE CallInv'
  BY <1>4 DEF CollectorRaises
<1>5. ASSUME CancelDelivery(r) PROVE CallInv'
  BY <1>5 DEF CancelDelivery
<1>6. ASSUME Drained(r) PROVE CallInv'
  BY <1>6 DEF Drained
<1> QED
  BY <1>1, <1>2, <1>3, <1>4, <1>5, <1>6 DEF Collects

LEMMA StepCallInv == CallInv /\ [Next]_vars => CallInv'
<1> SUFFICES ASSUME CallInv, [Next]_vars PROVE CallInv'
  OBVIOUS
<1>1. CASE UNCHANGED vars
  BY <1>1 DEF CallInv, CallTypes, LockTells, CompleteCloses, OverClosed, Collecting, vars
<1>2. CASE Next
  BY <1>2, CallerStep, ResultStep DEF Next
<1> QED
  BY <1>1, <1>2

LEMMA CallInvEnough == CallInv => CollectorInCall
<1> SUFFICES ASSUME CallInv PROVE CollectorInCall
  OBVIOUS
<1> DEFINE Running == {r \in Results : Collecting(r)}
<1>1. \A r \in Results : Collecting(r) => caller # "over" /\ ~complete
  BY ResultsAssumption DEF CallInv, LockTells, CompleteCloses, OverClosed
<1>2. Cardinality(Running) <= 1
  <2>1. Running \subseteq {lock}
    BY DEF CallInv, LockTells
  <2>2. IsFiniteSet({lock}) /\ Cardinality({lock}) = 1
    BY FS_Singleton
  <2>3. Cardinality(Running) <= Cardinality({lock})
    BY <2>1, <2>2, FS_Subset
  <2> QED
    BY <2>2, <2>3
<1>3. caller = "over" /\ outcome = "normal" => complete
  BY DEF CallInv, OverClosed
<1>4. lock # NoHolder => lock \in Results /\ Collecting(lock)
  BY DEF CallInv, CallTypes, LockTells
<1> QED
  BY <1>1, <1>2, <1>3, <1>4 DEF CollectorInCall, CallInv, CompleteCloses

(* operators/substream.py: whatever results arrive in whichever task, and  *)
(* however the request ends, the collector runs for one result at a time,  *)
(* inside the call, and not after it has said that it is done; and whoever *)
(* waits for it, for its answer or for its lock, is told.                  *)
THEOREM CollectorStaysInCall == Spec => []CollectorInCall
<1>1. Init => CallInv
  BY InitCallInv
<1>2. CallInv /\ [Next]_vars => CallInv'
  BY StepCallInv
<1>3. CallInv => CollectorInCall
  BY CallInvEnough
<1> QED
  BY <1>1, <1>2, <1>3, PTL DEF Spec

-----------------------------------------------------------------------------
(* The join storage. *)
Occupied == {k \in Keys : current[k] # None \/ prev[k] # None}

StoreTypes ==
  /\ now \in Int /\ key \in [Calls -> Keys] /\ ttl \in [Calls -> Int]
  /\ current \in [Keys -> Calls \union {None}] /\ prev \in [Keys -> Calls \union {None}]
  /\ pc \in [Calls -> Store!CallStates] /\ found \in [Calls -> Calls \union {None}]
  /\ deadline \in [Calls -> Int \union {Never}] /\ processed \in [Calls -> BOOLEAN]
  /\ after \in [Calls -> Store!AfterStates]

(* A bucket has items of its own key, and a key is in one bucket. *)
Placed ==
  \A k \in Keys :
    /\ current[k] = None \/ prev[k] = None
    /\ current[k] # None => key[current[k]] = k /\ after[current[k]] # "none"
    /\ prev[k] # None => key[prev[k]] = k /\ after[prev[k]] # "none"

Counted == gauge = Cardinality(Occupied)

(* A call has found an item that exists; the call that created one is in   *)
(* its callback or gone; an expiry that has fired has marked its item.     *)
Created ==
  /\ \A c \in Calls : found[c] # None => after[found[c]] # "none"
  /\ \A c \in Calls : after[c] # "none" => pc[c] \in {"calling", "left"}
  /\ \A c \in Calls : pc[c] \in {"calling", "locking"} => found[c] # None
  /\ \A i \in Calls : after[i] = "none" => ~processed[i]
  /\ \A i \in Calls : after[i] \in {"calling", "removing", "failing", "gone"} => processed[i]

StoreInv ==
  StoreTypes /\ Placed /\ Counted /\ Created /\ Store!OpenItemStored /\ Store!CallbackExclusive

LEMMA SizesAre ==
  ASSUME StoreTypes, Placed
  PROVE  Store!Size(current) + Store!Size(prev) = Cardinality(Occupied)
<1> DEFINE A == {k \in Keys : current[k] # None}
           B == {k \in Keys : prev[k] # None}
<1>1. IsFiniteSet(A) /\ IsFiniteSet(B)
  BY CallsFinite, FS_Subset
<1>2. A \intersect B = {} /\ A \union B = Occupied
  BY DEF Placed, Occupied
<1>3. Store!Size(current) = Cardinality(A) /\ Store!Size(prev) = Cardinality(B)
  BY DEF Store!Size, Store!Cardinality, Cardinality
<1> HIDE DEF A, B
<1>4. /\ Cardinality(A) \in Nat /\ Cardinality(B) \in Nat
      /\ Cardinality(A \union B) = Cardinality(A) + Cardinality(B) - Cardinality(A \intersect B)
  BY <1>1, FS_CardinalityType, FS_Union
<1>5. Cardinality(A \intersect B) = 0
  BY <1>2, FS_EmptySet
<1>6. Cardinality(Occupied) = Cardinality(A \union B)
  BY <1>2, Zenon
<1> QED
  BY <1>3, <1>4, <1>5, <1>6

LEMMA InitStoreInv == Store!Init => StoreInv
<1> SUFFICES ASSUME Store!Init PROVE StoreInv
  OBVIOUS
<1>1. StoreTypes /\ Placed /\ Created /\ Store!OpenItemStored /\ Store!CallbackExclusive
  BY DEF Store!Init, StoreTypes, Placed, Created, Store!OpenItemStored, Store!CallbackExclusive,
         Store!CallStates, Store!AfterStates
<1>2. Occupied = {} /\ gauge = 0
  BY DEF Store!Init, Occupied
<1> QED
  BY <1>1, <1>2, FS_EmptySet DEF StoreInv, Counted

(* Steps that touch neither the buckets nor an item: a call comes in, is   *)
(* let in or leaves with its value; timers and stop().                     *)
LEMMA QuietStep ==
  ASSUME StoreInv,
         UNCHANGED <<current, prev, gauge, key, processed, after, deadline>>,
         now' \in Int, now <= now', ttl' \in [Calls -> Int],
         pc' \in [Calls -> Store!CallStates], found' \in [Calls -> Calls \union {None}],
         \A c \in Calls :
           \/ pc'[c] = pc[c] /\ found'[c] = found[c]
           \/ pc[c] \in {"new", "reading"} /\ pc'[c] \in {"reading", "looking"} /\ found'[c] = found[c]
           \/ pc[c] = "calling" /\ pc'[c] = "left" /\ found'[c] = None
  PROVE  StoreInv'
<1> USE DEF StoreInv
<1>1. StoreTypes' /\ Placed' /\ Counted'
  BY DEF StoreTypes, Placed, Counted, Occupied
<1>2. Created'
  BY DEF Created
<1>3. Store!OpenItemStored'
  BY NeverAssumption DEF Store!OpenItemStored, Store!Live, Store!Stored, StoreTypes
<1>4. Store!CallbackExclusive'
  BY DEF Store!CallbackExclusive
<1> QED
  BY <1>1, <1>2, <1>3, <1>4

(* A call that is in the loop or has the lock of item i is given it. *)
LEMMA OfferStep ==
  ASSUME StoreInv, NEW c \in Calls, NEW i \in Calls, pc[c] \in {"looking", "locking"}, after[i] # "none",
         found' = [found EXCEPT ![c] = i],
         \/ pc' = [pc EXCEPT ![c] = "locking"]
         \/ Store!Offer(c, i) /\ ~Store!Locked(i),
         UNCHANGED <<now, key, ttl, processed, after, deadline>>
  PROVE  Created' /\ Store!CallbackExclusive'
<1> USE DEF StoreInv
<1>1. /\ pc' \in [Calls -> Store!CallStates] /\ found' \in [Calls -> Calls \union {None}]
      /\ pc'[c] \in {"locking", "looking", "calling"} /\ found'[c] = i
      /\ \A e \in Calls \ {c} : pc'[e] = pc[e] /\ found'[e] = found[e]
      /\ pc'[c] = "calling" => ~processed[i] /\ \A e \in Calls : ~(pc[e] = "calling" /\ found[e] = i)
  BY DEF StoreTypes, Store!Offer, Store!Locked, Store!CallStates
<1>2. Created'
  BY <1>1, NoneAssumption DEF Created
<1>3. Store!CallbackExclusive'
  BY <1>1, NoneAssumption DEF Store!CallbackExclusive, Created, StoreTypes
<1> QED
  BY <1>2, <1>3

(* The buckets change: the keys that are occupied are counted again. *)
LEMMA Recount ==
  ASSUME Counted, NEW k \in Keys
  PROVE  /\ gauge \in Nat
         /\ Occupied' = Occupied => Cardinality(Occupied') = gauge
         /\ k \notin Occupied /\ Occupied' = Occupied \union {k} => Cardinality(Occupied') = gauge + 1
         /\ k \in Occupied /\ Occupied' = Occupied \ {k} => Cardinality(Occupied') = gauge - 1
<1>1. IsFiniteSet(Occupied)
  BY CallsFinite, FS_Subset DEF Occupied
<1>2. Cardinality(Occupied) \in Nat
  BY <1>1, FS_CardinalityType
<1> QED
  BY <1>1, <1>2, FS_AddElement, FS_RemoveElement DEF Counted

LEMMA LookStep ==
  ASSUME StoreInv, NEW c \in Calls, Store!Look(c) PROVE StoreInv'
<1> DEFINE k == key[c]
           i == IF Store!Usable(current[k]) THEN current[k] ELSE prev[k]
<1>1. /\ pc[c] = "looking" /\ Store!Usable(i)
      /\ current' = [current EXCEPT ![k] = i]
      /\ prev' = IF i = current[k] THEN prev ELSE [prev EXCEPT ![k] = None]
      /\ found' = [found EXCEPT ![c] = i]
      /\ IF Store!Contended(i) THEN pc' = [pc EXCEPT ![c] = "locking"] ELSE Store!Offer(c, i)
      /\ UNCHANGED <<now, gauge, key, ttl, processed, after, deadline>>
  BY DEF Store!Look, Store!callVars
<1>2. k \in Keys /\ i \in Calls /\ i \in {current[k], prev[k]} /\ after[i] # "none" /\ key[i] = k
  BY <1>1, NoneAssumption DEF StoreInv, StoreTypes, Placed, Store!Usable
<1>3. /\ current'[k] = i /\ prev'[k] = None
      /\ \A x \in Keys \ {k} : current'[x] = current[x] /\ prev'[x] = prev[x]
  BY <1>1, <1>2, NoneAssumption DEF StoreInv, StoreTypes, Placed
<1> HIDE DEF k, i
<1>4. current[k] # None \/ prev[k] # None
  BY <1>2, NoneAssumption
<1>5. Created' /\ Store!CallbackExclusive'
  BY <1>1, <1>2, OfferStep DEF Store!Contended
<1>6. StoreTypes'
  BY <1>1, <1>2 DEF StoreInv, StoreTypes, Store!Offer, Store!CallStates
<1>7. Placed'
  BY <1>1, <1>2, <1>3, NoneAssumption DEF StoreInv, Placed
<1>8. Counted'
  <2>1. Occupied' = Occupied
    BY <1>2, <1>3, <1>4, NoneAssumption DEF Occupied
  <2> QED
    BY <1>1, <2>1 DEF StoreInv, Counted
<1>9. Store!OpenItemStored'
  <2> SUFFICES ASSUME NEW j \in Calls, after[j] # "none", ~processed[j], Store!Live(j) PROVE Store!Stored(j)'
    BY <1>1 DEF Store!OpenItemStored, Store!Live
  <2>1. Store!Stored(j) /\ key[j] \in Keys
    BY DEF StoreInv, StoreTypes, Store!OpenItemStored
  <2>2. key[j] = k => j = i
    BY <1>2, <2>1, NoneAssumption DEF StoreInv, Placed, Store!Stored
  <2> QED
    BY <1>1, <1>3, <2>1, <2>2 DEF Store!Stored
<1> QED
  BY <1>5, <1>6, <1>7, <1>8, <1>9 DEF StoreInv

LEMMA CreateStep ==
  ASSUME StoreInv, NEW c \in Calls, Store!Create(c) PROVE StoreInv'
<1> DEFINE k == key[c]
           end == IF ttl[c] > 0 THEN now + ttl[c] ELSE Never
<1>1. /\ pc[c] = "looking" /\ ~Store!Usable(current[k]) /\ ~Store!Usable(prev[k])
      /\ current' = [current EXCEPT ![k] = c] /\ prev' = [prev EXCEPT ![k] = None]
      /\ gauge' = gauge + Store!Growth(k)
      /\ deadline' = [deadline EXCEPT ![c] = end]
      /\ after' = [after EXCEPT ![c] = IF end = Never THEN "untimed" ELSE "sleeping"]
      /\ found' = [found EXCEPT ![c] = c] /\ pc' = [pc EXCEPT ![c] = "calling"]
      /\ UNCHANGED <<now, key, ttl, processed>>
  BY DEF Store!Create, Store!callVars
<1>2. k \in Keys /\ end \in Int \union {Never}
  BY DEF StoreInv, StoreTypes
<1> HIDE DEF end
<1>3. after[c] = "none" /\ after'[c] \in {"untimed", "sleeping"} /\ \A i \in Calls \ {c} : after'[i] = after[i]
  BY <1>1 DEF StoreInv, StoreTypes, Created
<1>4. StoreTypes'
  BY <1>1, <1>2 DEF StoreInv, StoreTypes, Store!CallStates, Store!AfterStates
<1>5. Placed'
  BY <1>1, <1>2, <1>3, NoneAssumption DEF StoreInv, StoreTypes, Placed
<1>6. Counted'
  <2>1. Occupied' = Occupied \union {k}
    BY <1>1, <1>2, NoneAssumption DEF StoreInv, StoreTypes, Occupied
  <2>2. Store!Growth(k) = IF k \in Occupied THEN 0 ELSE 1
    BY <1>2 DEF StoreInv, Placed, Occupied, Store!Growth
  <2>3. k \in Occupied => Occupied' = Occupied
    BY <2>1
  <2> HIDE DEF k
  <2>4. gauge' = gauge + (IF k \in Occupied THEN 0 ELSE 1)
    BY <1>1, <2>2
  <2>5. gauge \in Nat /\ (k \in Occupied => Cardinality(Occupied') = gauge)
        /\ (k \notin Occupied => Cardinality(Occupied') = gauge + 1)
    BY <1>2, <2>1, <2>3, Recount DEF StoreInv
  <2> QED
    BY <2>4, <2>5 DEF Counted
<1>7. Created'
  BY <1>1, <1>3, NoneAssumption DEF StoreInv, StoreTypes, Created
<1>8. Store!OpenItemStored'
  <2> SUFFICES ASSUME NEW i \in Calls, after'[i] # "none", ~processed'[i], Store!Live(i)'
               PROVE  Store!Stored(i)'
    BY DEF Store!OpenItemStored
  <2>1. CASE i = c
    BY <1>1, <1>2, <2>1 DEF StoreInv, StoreTypes, Store!Stored
  <2>2. CASE i # c
    <3>1. Store!Stored(i) /\ Store!Live(i)
      BY <1>1, <1>3, <2>2 DEF StoreInv, StoreTypes, Store!OpenItemStored, Store!Live
    <3>2. key[i] # k
      BY <1>1, <3>1, NoneAssumption DEF Store!Stored, Store!Usable
    <3> QED
      BY <1>1, <3>1, <3>2 DEF StoreInv, StoreTypes, Store!Stored
  <2> QED
    BY <2>1, <2>2
<1>9. Store!CallbackExclusive'
  <2>1. \A e \in Calls : found[e] # c
    BY <1>3, NoneAssumption DEF StoreInv, Created
  <2>2. ~processed[c]
    BY <1>3 DEF StoreInv, Created
  <2> QED
    BY <1>1, <2>1, <2>2 DEF StoreInv, StoreTypes, Store!CallbackExclusive
<1> QED
  BY <1>4, <1>5, <1>6, <1>7, <1>8, <1>9 DEF StoreInv

(* _remove_item takes the item, and no other, out of the buckets. *)
LEMMA RemoveItem ==
  ASSUME StoreInv, NEW i \in Calls, Store!Remove(i), key' = key,
         \A j \in Calls : after[j] # "none" => after'[j] # "none"
  PROVE  /\ current' \in [Keys -> Calls \union {None}] /\ prev' \in [Keys -> Calls \union {None}]
         /\ Placed' /\ Counted'
         /\ \A j \in Calls \ {i} : Store!Stored(j) => Store!Stored(j)'
<1> DEFINE k == key[i]
<1>1. /\ current' = IF current[k] = i THEN [current EXCEPT ![k] = None] ELSE current
      /\ prev' = IF current[k] # i /\ prev[k] = i THEN [prev EXCEPT ![k] = None] ELSE prev
      /\ gauge' = IF Store!Stored(i) THEN gauge - 1 ELSE gauge
  BY DEF Store!Remove
<1>2. k \in Keys /\ (Store!Stored(i) <=> current[k] = i \/ prev[k] = i)
  BY DEF StoreInv, StoreTypes, Store!Stored
<1>3. current' \in [Keys -> Calls \union {None}] /\ prev' \in [Keys -> Calls \union {None}]
  BY <1>1 DEF StoreInv, StoreTypes
<1> HIDE DEF k
<1>4. /\ \A x \in Keys \ {k} : current'[x] = current[x] /\ prev'[x] = prev[x]
      /\ Store!Stored(i) => current'[k] = None /\ prev'[k] = None
      /\ ~Store!Stored(i) => current'[k] = current[k] /\ prev'[k] = prev[k]
  BY <1>1, <1>2, NoneAssumption DEF StoreInv, StoreTypes, Placed
<1>5. Placed'
  BY <1>2, <1>3, <1>4, NoneAssumption DEF StoreInv, Placed
<1>6. Counted'
  <2>1. CASE Store!Stored(i)
    <3>1. k \in Occupied /\ Occupied' = Occupied \ {k}
      BY <1>2, <1>4, <2>1, NoneAssumption DEF Occupied
    <3>2. Cardinality(Occupied') = gauge - 1
      BY <1>2, <3>1, Recount DEF StoreInv
    <3> QED
      BY <1>1, <2>1, <3>2 DEF Counted
  <2>2. CASE ~Store!Stored(i)
    <3>1. Occupied' = Occupied
      BY <1>1, <1>2, <2>2 DEF Occupied
    <3> QED
      BY <1>1, <2>2, <3>1 DEF StoreInv, Counted
  <2> QED
    BY <2>1, <2>2
<1>7. ASSUME NEW j \in Calls \ {i}, Store!Stored(j) PROVE Store!Stored(j)'
  <2>1. key[j] \in Keys
    BY DEF StoreInv, StoreTypes
  <2>2. CASE key[j] = k
    <3>1. ~Store!Stored(i)
      BY <1>2, <1>7, <2>2, NoneAssumption DEF StoreInv, Placed, Store!Stored
    <3> QED
      BY <1>1, <1>2, <1>7, <3>1 DEF Store!Stored
  <2>3. CASE key[j] # k
    BY <1>4, <1>7, <2>1, <2>3 DEF Store!Stored
  <2> QED
    BY <2>2, <2>3
<1> QED
  BY <1>3, <1>5, <1>6, <1>7

(* An item that is settled goes: its call is over, or its expiry. *)
LEMMA GoneStep ==
  ASSUME StoreInv, NEW i \in Calls, Store!Remove(i), after[i] # "none",
         after' = [after EXCEPT ![i] = "gone"], deadline' = [deadline EXCEPT ![i] = Never],
         processed' = [processed EXCEPT ![i] = TRUE],
         UNCHANGED <<now, key>>, ttl' \in [Calls -> Int],
         pc' \in [Calls -> Store!CallStates], found' \in [Calls -> Calls \union {None}],
         \A e \in Calls : \/ pc'[e] = pc[e] /\ found'[e] = found[e]
                          \/ pc[e] = "calling" /\ pc'[e] = "left" /\ found'[e] = None,
         \A e \in Calls : pc'[e] = "calling" => found[e] # i
  PROVE  StoreInv'
<1> USE DEF StoreInv
<1>1. after'[i] = "gone" /\ processed'[i]
      /\ \A j \in Calls \ {i} : after'[j] = after[j] /\ processed'[j] = processed[j]
         /\ deadline'[j] = deadline[j]
  BY DEF StoreTypes
<1>2. /\ current' \in [Keys -> Calls \union {None}] /\ prev' \in [Keys -> Calls \union {None}]
      /\ Placed' /\ Counted'
      /\ \A j \in Calls \ {i} : Store!Stored(j) => Store!Stored(j)'
  <2>1. \A j \in Calls : after[j] # "none" => after'[j] # "none"
    BY <1>1
  <2> HIDE DEF StoreInv
  <2> QED
    BY <2>1, RemoveItem
<1>3. StoreTypes'
  BY <1>2 DEF StoreTypes, Store!AfterStates
<1>4. Created'
  BY <1>1 DEF Created
<1>5. Store!OpenItemStored'
  BY <1>1, <1>2 DEF Store!OpenItemStored, Store!Live
<1>6. Store!CallbackExclusive'
  BY <1>1, <1>4, NoneAssumption DEF Store!CallbackExclusive, StoreTypes, Created
<1> QED
  BY <1>2, <1>3, <1>4, <1>5, <1>6

LEMMA CompleteStep ==
  ASSUME StoreInv, NEW c \in Calls, Store!Complete(c) PROVE StoreInv'
<1> DEFINE i == found[c]
<1>1. /\ pc[c] = "calling" /\ Store!Remove(i)
      /\ processed' = [processed EXCEPT ![i] = TRUE] /\ after' = [after EXCEPT ![i] = "gone"]
      /\ deadline' = [deadline EXCEPT ![i] = Never]
      /\ pc' = [pc EXCEPT ![c] = "left"] /\ found' = [found EXCEPT ![c] = None] /\ ttl' = [ttl EXCEPT ![c] = 0]
      /\ UNCHANGED <<now, key>>
  BY DEF Store!Complete, Store!Drop, Store!Leave
<1>2. i \in Calls /\ after[i] # "none"
  BY <1>1, NoneAssumption DEF StoreInv, StoreTypes, Created
<1>3. \A e \in Calls \ {c} : pc[e] = "calling" => found[e] # i
  BY <1>1 DEF StoreInv, Store!CallbackExclusive
<1> HIDE DEF i
<1>4. /\ pc' \in [Calls -> Store!CallStates] /\ found' \in [Calls -> Calls \union {None}]
      /\ ttl' \in [Calls -> Int]
      /\ pc'[c] = "left" /\ found'[c] = None /\ \A e \in Calls \ {c} : pc'[e] = pc[e] /\ found'[e] = found[e]
  BY <1>1 DEF StoreInv, StoreTypes, Store!CallStates
<1> QED
  BY <1>1, <1>2, <1>3, <1>4, GoneStep

LEMMA KeepStep ==
  ASSUME StoreInv, NEW c \in Calls, Store!Keep(c) \/ Store!Raise(c) PROVE StoreInv'
<1> DEFINE i == found[c]
           k == key[i]
<1>1. /\ pc[c] = "calling" /\ pc' = [pc EXCEPT ![c] = "left"] /\ found' = [found EXCEPT ![c] = None]
      /\ ttl' = [ttl EXCEPT ![c] = 0]
      /\ UNCHANGED <<now, key, gauge, after>>
  BY DEF Store!Keep, Store!Raise, Store!Leave, Store!mapVars, Store!itemVars
<1>2. i \in Calls /\ k \in Keys /\ after[i] # "none" /\ ~processed[i]
  BY <1>1, NoneAssumption DEF StoreInv, StoreTypes, Created, Store!CallbackExclusive
<1>3. processed' = processed
  <2>1. processed' = [processed EXCEPT ![i] = FALSE] \/ processed' = processed
    BY DEF Store!Keep, Store!Raise, Store!itemVars
  <2>2. processed \in [Calls -> BOOLEAN] /\ processed[i] = FALSE
    BY <1>2 DEF StoreInv, StoreTypes
  <2>3. [processed EXCEPT ![i] = FALSE] = processed
    BY <2>2
  <2> QED
    BY <2>1, <2>3
<1>4. \/ UNCHANGED <<deadline, current, prev>>
      \/ /\ Store!Stored(i) /\ deadline' = [deadline EXCEPT ![i] = now + ttl[c]]
         /\ current' = [current EXCEPT ![k] = i] /\ prev' = [prev EXCEPT ![k] = None]
  <2>1. CASE Store!Raise(c)
    BY <2>1 DEF Store!Raise, Store!mapVars, Store!itemVars
  <2>2. CASE Store!Keep(c)
    <3>1. Store!Renew(c, i)
      BY <2>2 DEF Store!Keep
    <3> QED
      BY <3>1 DEF Store!Renew
  <2> QED
    BY <2>1, <2>2
<1> HIDE DEF i, k
<1>5. /\ pc' \in [Calls -> Store!CallStates] /\ found' \in [Calls -> Calls \union {None}]
      /\ ttl' \in [Calls -> Int]
      /\ pc'[c] = "left" /\ found'[c] = None /\ \A e \in Calls \ {c} : pc'[e] = pc[e] /\ found'[e] = found[e]
  BY <1>1 DEF StoreInv, StoreTypes, Store!CallStates
<1>6. CASE UNCHANGED <<deadline, current, prev>>
  <2>1. now \in Int /\ now' = now
    BY <1>1 DEF StoreInv, StoreTypes
  <2> QED
    BY <1>1, <1>3, <1>5, <1>6, <2>1, QuietStep
<1>7. CASE /\ Store!Stored(i) /\ deadline' = [deadline EXCEPT ![i] = now + ttl[c]]
           /\ current' = [current EXCEPT ![k] = i] /\ prev' = [prev EXCEPT ![k] = None]
  <2> USE DEF StoreInv
  <2>1. /\ deadline' \in [Calls -> Int \union {Never}] /\ \A j \in Calls \ {i} : deadline'[j] = deadline[j]
        /\ current' \in [Keys -> Calls \union {None}] /\ prev' \in [Keys -> Calls \union {None}]
        /\ current'[k] = i /\ prev'[k] = None
        /\ \A x \in Keys \ {k} : current'[x] = current[x] /\ prev'[x] = prev[x]
    BY <1>2, <1>7 DEF StoreTypes
  <2>2. (current[k] = i \/ prev[k] = i) /\ key[i] = k
    BY <1>7 DEF Store!Stored, k
  <2>3. StoreTypes'
    BY <1>1, <1>3, <1>5, <2>1 DEF StoreTypes
  <2>4. Placed'
    BY <1>1, <1>2, <2>1, <2>2 DEF Placed
  <2>5. Counted'
    <3>1. Occupied' = Occupied
      BY <1>2, <2>1, <2>2, NoneAssumption DEF Occupied
    <3> QED
      BY <1>1, <3>1 DEF Counted
  <2>6. Created'
    BY <1>1, <1>3, <1>5 DEF Created
  <2>7. Store!OpenItemStored'
    <3> SUFFICES ASSUME NEW j \in Calls, after[j] # "none", ~processed[j], Store!Live(j)' PROVE Store!Stored(j)'
      BY <1>1, <1>3 DEF Store!OpenItemStored
    <3>1. CASE j = i
      BY <1>1, <2>1, <2>2, <3>1 DEF Store!Stored
    <3>2. CASE j # i
      <4>1. Store!Stored(j) /\ key[j] \in Keys
        BY <1>1, <2>1, <3>2 DEF Store!OpenItemStored, Store!Live, StoreTypes
      <4>2. key[j] # k
        BY <1>2, <2>2, <3>2, <4>1, NoneAssumption DEF Placed, Store!Stored
      <4> QED
        BY <1>1, <2>1, <4>1, <4>2 DEF Store!Stored
    <3> QED
      BY <3>1, <3>2
  <2>8. Store!CallbackExclusive'
    BY <1>3, <1>5 DEF Store!CallbackExclusive
  <2> QED
    BY <2>3, <2>4, <2>5, <2>6, <2>7, <2>8
<1> QED
  BY <1>4, <1>6, <1>7

(* The steps that settle an item without taking it out of its bucket. *)
LEMMA SettleStep ==
  ASSUME StoreInv, NEW i \in Calls, after[i] \in {"sleeping", "locking"}, ~Store!Locked(i), Store!Settle(i),
         UNCHANGED <<now, current, prev, gauge, key, ttl, pc, found, deadline>>
  PROVE  StoreInv'
<1> USE DEF StoreInv
<1>1. /\ after' \in [Calls -> Store!AfterStates] /\ processed' \in [Calls -> BOOLEAN]
      /\ after'[i] \in {"gone", "sleeping", "calling"}
      /\ after'[i] \in {"gone", "calling"} => processed'[i]
      /\ processed[i] => processed'[i]
      /\ \A j \in Calls \ {i} : after'[j] = after[j] /\ processed'[j] = processed[j]
  BY DEF Store!Settle, StoreTypes, Store!AfterStates
<1>2. StoreTypes' /\ Placed' /\ Counted'
  BY <1>1 DEF StoreTypes, Placed, Counted, Occupied
<1>3. Created'
  <2>1. \A j \in Calls : /\ after'[j] = "none" <=> after[j] = "none"
                         /\ after'[j] = "none" => ~processed'[j]
                         /\ after'[j] \in {"calling", "removing", "failing", "gone"} => processed'[j]
    BY <1>1 DEF Created
  <2>2. \A c \in Calls : found[c] # None => found[c] \in Calls
    BY DEF StoreTypes
  <2> QED
    BY <2>1, <2>2 DEF Created
<1>4. Store!OpenItemStored'
  BY <1>1 DEF Store!OpenItemStored, Store!Live, Store!Stored
<1>5. Store!CallbackExclusive'
  <2>1. \A c \in Calls : pc[c] = "calling" => found[c] \in Calls \ {i}
    BY DEF StoreTypes, Created, Store!Locked
  <2> QED
    BY <1>1, <2>1 DEF Store!CallbackExclusive
<1> QED
  BY <1>2, <1>3, <1>4, <1>5

LEMMA AfterStep ==
  ASSUME StoreInv, NEW i \in Calls, Store!After(i) PROVE StoreInv'
<1> USE DEF Store!mapVars, Store!callVars
<1>1. ASSUME Store!AfterWakes(i), Store!Contended(i) PROVE StoreInv'
  <2>1. /\ after[i] = "sleeping" /\ after' = [after EXCEPT ![i] = "locking"]
        /\ UNCHANGED <<now, current, prev, gauge, key, ttl, pc, found, deadline, processed>>
    BY <1>1 DEF Store!AfterWakes
  <2> QED
    BY <2>1 DEF StoreInv, StoreTypes, Store!AfterStates, Placed, Counted, Occupied, Created,
                Store!OpenItemStored, Store!Live, Store!Stored, Store!CallbackExclusive
<1>2. ASSUME Store!AfterWakes(i), ~Store!Contended(i) PROVE StoreInv'
  BY <1>2, SettleStep DEF Store!AfterWakes, Store!Contended
<1>3. ASSUME Store!AfterAcquires(i) PROVE StoreInv'
  BY <1>3, SettleStep DEF Store!AfterAcquires
<1>4. ASSUME Store!AfterReturns(i) PROVE StoreInv'
  <2>1. /\ after[i] = "calling" /\ \E s \in {"removing", "failing"} : after' = [after EXCEPT ![i] = s]
        /\ UNCHANGED <<now, current, prev, gauge, key, ttl, pc, found, deadline, processed>>
    BY <1>4 DEF Store!AfterReturns
  <2> QED
    BY <2>1 DEF StoreInv, StoreTypes, Store!AfterStates, Placed, Counted, Occupied, Created,
                Store!OpenItemStored, Store!Live, Store!Stored, Store!CallbackExclusive
<1>5. ASSUME Store!AfterRemoves(i) PROVE StoreInv'
  <2>1. /\ after[i] \in {"removing", "failing"} /\ Store!Remove(i) /\ after' = [after EXCEPT ![i] = "gone"]
        /\ deadline' = [deadline EXCEPT ![i] = Never]
        /\ UNCHANGED <<now, key, ttl, pc, found, processed>>
    BY <1>5 DEF Store!AfterRemoves, Store!Drop
  <2>2. processed \in [Calls -> BOOLEAN] /\ processed[i] = TRUE
    BY <2>1 DEF StoreInv, StoreTypes, Created
  <2>3. processed' = [processed EXCEPT ![i] = TRUE]
    BY <2>1, <2>2
  <2>4. ttl \in [Calls -> Int] /\ pc \in [Calls -> Store!CallStates] /\ found \in [Calls -> Calls \union {None}]
        /\ \A e \in Calls : pc[e] = "calling" => found[e] # i
    BY <2>2 DEF StoreInv, StoreTypes, Store!CallbackExclusive
  <2> QED
    BY <2>1, <2>3, <2>4, GoneStep
<1> QED
  BY <1>1, <1>2, <1>3, <1>4, <1>5 DEF Store!After

(* The rotation moves every item of one bucket to the other. *)
LEMMA RotateStep ==
  ASSUME StoreInv, Store!Rotate PROVE StoreInv'
<1> USE DEF StoreInv, Store!callVars, Store!itemVars
<1>1. UNCHANGED <<now, key, ttl, pc, found, deadline, processed, after>>
  BY DEF Store!Rotate
<1>2. \/ UNCHANGED <<current, prev, gauge>>
      \/ /\ prev' = Store!Rotated /\ current' = [k \in Keys |-> None]
         /\ gauge' = gauge - Store!Cardinality(Store!Evicted)
  BY DEF Store!Rotate, Store!mapVars
<1>3. CASE UNCHANGED <<current, prev, gauge>>
  BY <1>1, <1>3 DEF StoreTypes, Placed, Counted, Occupied, Created,
                    Store!OpenItemStored, Store!Live, Store!Stored, Store!CallbackExclusive
<1>4. CASE /\ prev' = Store!Rotated /\ current' = [k \in Keys |-> None]
           /\ gauge' = gauge - Store!Cardinality(Store!Evicted)
  <2>1. \A k \in Keys : current'[k] = None /\ prev'[k] = IF current[k] = None THEN prev[k] ELSE current[k]
    BY <1>4 DEF Store!Rotated
  <2>2. current' \in [Keys -> Calls \union {None}] /\ prev' \in [Keys -> Calls \union {None}]
    BY <1>4 DEF Store!Rotated, StoreTypes
  <2>3. Placed'
    BY <1>1, <2>1 DEF Placed
  <2>4. Counted'
    <3>1. Store!Evicted = {}
      BY DEF Placed, Store!Evicted
    <3>2. Store!Cardinality({}) = Cardinality({})
      BY DEF Store!Cardinality, Cardinality
    <3>3. Store!Cardinality(Store!Evicted) = 0
      BY <3>1, <3>2, FS_EmptySet
    <3>4. Occupied' = Occupied
      BY <2>1 DEF Occupied
    <3>5. gauge \in Nat
      <4>1. IsFiniteSet(Occupied)
        BY CallsFinite, FS_Subset DEF Occupied
      <4> QED
        BY <4>1, FS_CardinalityType DEF Counted
    <3> QED
      BY <1>4, <3>3, <3>4, <3>5 DEF Counted
  <2>5. Store!OpenItemStored'
    <3> SUFFICES ASSUME NEW i \in Calls, after[i] # "none", ~processed[i], Store!Live(i) PROVE Store!Stored(i)'
      BY <1>1 DEF Store!OpenItemStored, Store!Live
    <3>1. Store!Stored(i) /\ key[i] \in Keys
      BY DEF Store!OpenItemStored, StoreTypes
    <3> QED
      BY <1>1, <2>1, <3>1, NoneAssumption DEF Placed, Store!Stored
  <2> QED
    BY <1>1, <2>2, <2>3, <2>4, <2>5 DEF StoreTypes, Created, Store!CallbackExclusive
<1> QED
  BY <1>2, <1>3, <1>4

(* Calls that come, are let in and wait; timers, the clock and stop(). *)
LEMMA OtherStoreStep ==
  ASSUME StoreInv,
         \/ \E c \in Calls : (\E d \in Deadlines \union {Never} : Store!Enter(c, d)) \/ Store!Cancel(c) \/ Store!Admit(c)
         \/ Store!Tick \/ Store!Start \/ Store!RotationDue \/ Store!StopCalled \/ Store!StopLocked
  PROVE  StoreInv'
<1> USE DEF Store!mapVars, Store!callVars, Store!itemVars
<1>0. /\ now \in Int /\ now + 1 \in Int /\ now <= now + 1 /\ ttl \in [Calls -> Int]
      /\ pc \in [Calls -> Store!CallStates] /\ found \in [Calls -> Calls \union {None}]
  BY DEF StoreInv, StoreTypes
<1>1. ASSUME NEW c \in Calls, NEW d \in Deadlines \union {Never}, Store!Enter(c, d) PROVE StoreInv'
  <2> DEFINE left == IF d = Never THEN Ttl ELSE IF d > now THEN d - now ELSE 0
  <2>1. /\ pc[c] = "new" /\ ttl' = [ttl EXCEPT ![c] = left]
        /\ pc' = [pc EXCEPT ![c] = IF left > 0 /\ Store!WriterWaits THEN "reading" ELSE "looking"]
        /\ UNCHANGED <<now, current, prev, gauge, key, found, processed, after, deadline>>
    BY <1>1 DEF Store!Enter
  <2>2. left \in Int
    BY <1>0, TimesAssumption
  <2> HIDE DEF left
  <2>3. /\ ttl' \in [Calls -> Int] /\ pc' \in [Calls -> Store!CallStates]
        /\ found' \in [Calls -> Calls \union {None}]
        /\ pc'[c] \in {"reading", "looking"} /\ \A e \in Calls \ {c} : pc'[e] = pc[e]
    BY <1>0, <2>1, <2>2 DEF Store!CallStates
  <2>4. now' \in Int /\ now <= now' /\ \A e \in Calls : found'[e] = found[e]
    BY <1>0, <2>1
  <2> QED
    BY <2>1, <2>3, <2>4, QuietStep
<1>2. ASSUME NEW c \in Calls, Store!Admit(c) PROVE StoreInv'
  <2>1. /\ pc[c] = "reading" /\ pc' = [pc EXCEPT ![c] = "looking"]
        /\ UNCHANGED <<now, ttl, current, prev, gauge, key, found, processed, after, deadline>>
    BY <1>2 DEF Store!Admit
  <2>2. /\ ttl' \in [Calls -> Int] /\ pc' \in [Calls -> Store!CallStates]
        /\ found' \in [Calls -> Calls \union {None}]
        /\ pc'[c] = "looking" /\ \A e \in Calls \ {c} : pc'[e] = pc[e]
    BY <1>0, <2>1 DEF Store!CallStates
  <2>3. now' \in Int /\ now <= now' /\ \A e \in Calls : found'[e] = found[e]
    BY <1>0, <2>1
  <2> QED
    BY <2>1, <2>2, <2>3, QuietStep
<1>3. ASSUME \/ \E c \in Calls : Store!Cancel(c)
             \/ Store!Tick \/ Store!Start \/ Store!RotationDue \/ Store!StopCalled \/ Store!StopLocked
      PROVE  StoreInv'
  <2>1. /\ UNCHANGED <<ttl, pc, found, current, prev, gauge, key, processed, after, deadline>>
        /\ now' \in {now, now + 1}
    BY <1>3 DEF Store!Cancel, Store!Tick, Store!Start, Store!RotationDue, Store!StopCalled, Store!StopLocked
  <2>2. now' \in Int /\ now <= now'
    BY <1>0, <2>1
  <2> QED
    BY <1>0, <2>1, <2>2, QuietStep
<1> QED
  BY <1>1, <1>2, <1>3

LEMMA AcquireStep ==
  ASSUME StoreInv, NEW c \in Calls, Store!Acquire(c) PROVE StoreInv'
<1> USE DEF StoreInv, Store!mapVars, Store!callVars
<1>1. /\ pc[c] = "locking" /\ ~Store!Locked(found[c]) /\ Store!Offer(c, found[c])
      /\ UNCHANGED <<now, current, prev, gauge, key, ttl, found, processed, after, deadline>>
  BY DEF Store!Acquire
<1>2. found[c] \in Calls /\ after[found[c]] # "none" /\ found' = [found EXCEPT ![c] = found[c]]
  BY <1>1 DEF Created, StoreTypes
<1>3. Created' /\ Store!CallbackExclusive'
  <2> HIDE DEF StoreInv
  <2> QED
    BY <1>1, <1>2, OfferStep
<1>4. StoreTypes' /\ Placed' /\ Counted'
  BY <1>1 DEF StoreTypes, Store!Offer, Store!CallStates, Placed, Counted, Occupied
<1>5. Store!OpenItemStored'
  BY <1>1 DEF Store!OpenItemStored, Store!Live, Store!Stored
<1> QED
  BY <1>3, <1>4, <1>5

LEMMA StoreStep == StoreInv /\ [Store!Next]_(Store!vars) => StoreInv'
<1> SUFFICES ASSUME StoreInv, [Store!Next]_(Store!vars) PROVE StoreInv'
  OBVIOUS
<1>1. CASE UNCHANGED Store!vars
  <2>1. UNCHANGED <<now, current, prev, gauge, key, ttl, pc, found, deadline, processed, after>>
    BY <1>1 DEF Store!vars, Store!mapVars, Store!callVars, Store!itemVars
  <2> QED
    BY <2>1 DEF StoreInv, StoreTypes, Placed, Counted, Occupied, Created,
                Store!OpenItemStored, Store!Live, Store!Stored, Store!CallbackExclusive
<1>2. CASE Store!Next
  BY <1>2, LookStep, CreateStep, AcquireStep, CompleteStep, KeepStep, AfterStep, RotateStep, OtherStoreStep
     DEF Store!Next, Store!Call
<1> QED
  BY <1>1, <1>2

(* runtime/store/hashmap.py: for any keys, calls, times to live and        *)
(* deadlines, and whatever joins, expires, is renewed or rotates in        *)
(* between, the count gauge is exact, a group that accepts values is found *)
(* by the next one, a group has one callback at a time, and the expiry of  *)
(* one that is not settled is still to come.                               *)
THEOREM JoinStoreSound == Store!Spec => []StoreSound
<1>1. Store!Init => StoreInv
  BY InitStoreInv
<1>2. StoreInv /\ [Store!Next]_(Store!vars) => StoreInv'
  BY StoreStep
<1>3. StoreInv => StoreSound
  <2> SUFFICES ASSUME StoreInv PROVE StoreSound
    OBVIOUS
  <2>1. Store!GaugeExact
    BY SizesAre DEF StoreInv, Store!GaugeExact, Placed, Counted
  <2>2. Store!ExpiryToCome
    BY DEF StoreInv, StoreTypes, Created, Store!AfterStates, Store!ExpiryToCome
  <2> QED
    BY <2>1, <2>2 DEF StoreInv, StoreSound, Store!StoreSound
<1> QED
  BY <1>1, <1>2, <1>3, PTL DEF Store!Spec
=============================================================================
