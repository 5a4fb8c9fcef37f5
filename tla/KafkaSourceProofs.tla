------------------------- MODULE KafkaSourceProofs -------------------------
(* Proofs about KafkaSource for any partitions, lengths, limits, prefetch  *)
(* and number of rebalances.                                               *)
EXTENDS KafkaSource, FiniteSetTheorems, SequenceTheorems, TLAPS

LaneStates == {"none", "created", "waiting", "woken", "handling"}

Types ==
  /\ restoring \in BOOLEAN
  /\ assignment \subseteq Partitions /\ assigned \subseteq Partitions
  /\ rebalancing \in {"none", "revoking", "joining", "assigning"}
  /\ committer \in {"none", "loop", "handler", "drain"}
  /\ lane \in [Partitions -> LaneStates] /\ DOMAIN queue = Partitions
  /\ current \in [Partitions -> Int] /\ epoch \in [Partitions -> Int]
  /\ position \in [Partitions -> Int] /\ committed \in [Partitions -> Int]
  /\ marked \in [Partitions -> Int] /\ inflight \in [Partitions -> Int]
  /\ restored \in [Partitions -> Int]
  /\ given \subseteq [partition : Partitions, offset : Int, epoch : Int]

(* A lane has its queue, and a record in it before it begins. *)
Lanes ==
  /\ \A p \in Partitions :
       /\ queue[p] = NoQueue \/ queue[p] \in Seq(Int)
       /\ lane[p] # "none" => queue[p] \in Seq(Int)
       /\ lane[p] = "created" => queue[p] # <<>>
  /\ \A p \in cancelling : p \in Partitions /\ lane[p] # "none"

(* Checkpoint mode: nothing is fenced in while the group rebalances, and a *)
(* lane works on what is, or waits for its cancellation.                   *)
Fence ==
  restoring =>
    /\ assigned \subseteq assignment
    /\ rebalancing # "none" => assigned = {}
    /\ \A p \in Partitions :
         lane[p] # "none" => p \in assigned \/ (rebalancing = "revoking" /\ p \in assignment)
    /\ \A p \in Partitions : rebalancing # "revoking" /\ lane[p] = "handling" =>
         [partition |-> p, offset |-> current[p], epoch |-> epoch[p]] \in given

(* Checkpoint mode: whatever is marked or on its way belongs to the        *)
(* assignment and lies behind where it was restored.                       *)
Behind(f) == \A p \in Partitions : f[p] # None => p \in assignment /\ restored[p] <= f[p]

Above(b, q) == \A i \in 1 .. Len(q) : b <= q[i]

Bounds ==
  restoring =>
    /\ rebalancing \in {"joining", "assigning"} =>
         committer = "none" /\ \A p \in Partitions : marked[p] = None
    /\ committer = "none" => \A p \in Partitions : inflight[p] = None
    /\ Behind(marked) /\ Behind(inflight)
    /\ \A m \in given :
         /\ m.epoch <= epoch[m.partition]
         /\ m.partition \in assigned /\ m.epoch = epoch[m.partition] => restored[m.partition] <= m.offset
    /\ \A p \in assigned :
         /\ restored[p] <= position[p]
         /\ lane[p] # "none" => Above(restored[p], queue[p])
         /\ lane[p] \in {"waiting", "woken", "handling"} => restored[p] <= current[p]

IInv == Types /\ Lanes /\ Fence /\ Bounds

-----------------------------------------------------------------------------
(* Sequences of offsets. *)

LEMMA AppendAbove ==
  ASSUME NEW q \in Seq(Int), NEW x \in Int
  PROVE  /\ Append(q, x) \in Seq(Int) /\ Append(q, x) # <<>>
         /\ \A b \in Int : Above(b, q) /\ b <= x => Above(b, Append(q, x))
  BY DEF Above

LEMMA TailAbove ==
  ASSUME NEW q \in Seq(Int), q # <<>>
  PROVE  /\ Tail(q) \in Seq(Int) /\ Head(q) \in Int
         /\ \A b \in Int : Above(b, q) => Above(b, Tail(q)) /\ b <= Head(q)
<1>1. Len(q) \in Nat /\ Len(q) > 0 /\ Head(q) = q[1]
  OBVIOUS
<1>2. Tail(q) \in Seq(Int) /\ Len(Tail(q)) = Len(q) - 1 /\ \A i \in 1 .. Len(Tail(q)) : Tail(q)[i] = q[i + 1]
  OBVIOUS
<1> QED
  BY <1>1, <1>2 DEF Above

LEMMA TailOfOne ==
  ASSUME NEW q \in Seq(Int), Len(q) = 1
  PROVE  Tail(q) = <<>> /\ Head(q) = q[1]
<1>1. q # <<>>
  BY EmptySeq
<1>2. Tail(q) \in Seq(Int) /\ Len(Tail(q)) = 0
  BY <1>1, HeadTailProperties
<1>3. Tail(q) = <<>>
  BY <1>2, EmptySeq
<1> QED
  BY <1>1, <1>3

LEMMA EmptyAbove == <<>> \in Seq(Int) /\ \A b \in Int : Above(b, <<>>)
  BY DEF Above

-----------------------------------------------------------------------------
LEMMA InitIInv == Init => IInv
<1> SUFFICES ASSUME Init PROVE IInv
  OBVIOUS
<1>1. Types /\ Lanes
  BY KafkaAssumption DEF Init, Types, Lanes, LaneStates, NoOffsets, None
<1>2. Fence /\ Bounds
  BY DEF Init, Fence, Bounds, Behind, NoOffsets, None
<1> QED
  BY <1>1, <1>2 DEF IInv

LEMMA DeliverIInv ==
  ASSUME IInv, NEW p \in Partitions, Deliver(p) PROVE IInv'
<1> DEFINE q == Append(IF queue[p] = NoQueue THEN <<>> ELSE queue[p], position[p])
<1> USE DEF IInv, Types, Lanes, Fence, Bounds, fenceVars, commitVars, history
<1>1. CASE ~Admitted(p)
  BY <1>1 DEF Deliver, Behind
<1>2. CASE Admitted(p)
  <2>1. q \in Seq(Int) /\ q # <<>>
    BY AppendAbove, EmptyAbove
  <2>2. ASSUME restoring, p \in assigned, lane[p] # "none" \/ queue[p] = NoQueue PROVE Above(restored[p], q)
    BY <2>2, AppendAbove, EmptyAbove
  <2>3. /\ queue' = [queue EXCEPT ![p] = q]
        /\ lane' = IF queue[p] = NoQueue THEN [lane EXCEPT ![p] = "created"] ELSE lane
        /\ position' = [position EXCEPT ![p] = @ + 1]
        /\ UNCHANGED <<assignment, rebalancing, current, cancelling, fenceVars, commitVars, given, history>>
    BY <1>2 DEF Deliver
  <2> HIDE DEF q
  <2>4. Types'
    <3>1. lane' \in [Partitions -> LaneStates] /\ DOMAIN queue' = Partitions
      BY <2>3 DEF LaneStates
    <3> QED
      BY <2>3, <3>1
  <2>5. Lanes'
    BY <2>1, <2>3 DEF LaneStates
  <2>6. Fence'
    BY <1>2, <2>3 DEF Admitted, LaneStates
  <2>7. Bounds'
    <3> SUFFICES ASSUME restoring PROVE Bounds'
      BY <2>3
    <3>1. p \in assigned /\ \A o \in assigned : o # p => queue'[o] = queue[o] /\ lane'[o] = lane[o]
      BY <1>2, <2>3 DEF Admitted
    <3>2. \A o \in assigned : lane'[o] # "none" => Above(restored[o], queue'[o])
      BY <2>2, <2>3, <3>1
    <3>3. \A o \in assigned : restored[o] <= position'[o]
      BY <2>3
    <3> QED
      BY <2>3, <3>1, <3>2, <3>3 DEF Behind, LaneStates
  <2> QED
    BY <2>4, <2>5, <2>6, <2>7
<1> QED
  BY <1>1, <1>2


(* A lane ends: nothing of it is left, and the others are at most told to  *)
(* try again.                                                              *)
LEMMA LaneGoneIInv ==
  ASSUME IInv, NEW p \in Partitions, EndLane(p, lane) \/ EndLane(p, Notified),
         UNCHANGED <<assignment, position, rebalancing, fenceVars, commitVars, given, restored>>
  PROVE  IInv'
<1> USE DEF IInv, fenceVars, commitVars, LaneStates
<1>1. \A o \in Partitions : o # p =>
        /\ queue'[o] = queue[o] /\ current'[o] = current[o]
        /\ lane'[o] = lane[o] \/ (lane[o] = "waiting" /\ lane'[o] = "woken")
  BY DEF EndLane, Notified, Types
<1>2. lane'[p] = "none" /\ queue'[p] = NoQueue /\ cancelling' = cancelling \ {p}
  BY DEF EndLane, Notified, Types
<1>3. Types'
  <2>1. lane' \in [Partitions -> LaneStates]
    BY DEF EndLane, Notified, Types
  <2>2. current' \in [Partitions -> Int] /\ DOMAIN queue' = Partitions
    BY DEF EndLane, Types, None
  <2> QED
    BY <2>1, <2>2 DEF Types
<1>4. Lanes'
  BY <1>1, <1>2 DEF Types, Lanes
<1>5. Fence'
  BY <1>1, <1>2 DEF Types, Fence
<1>6. Bounds'
  BY <1>1, <1>2 DEF Types, Bounds, Behind
<1> QED
  BY <1>3, <1>4, <1>5, <1>6

(* A lane dispatches a record that lies behind where its partition was     *)
(* restored, or waits with it.                                             *)
LEMMA AdmitIInv ==
  ASSUME IInv, NEW p \in Partitions, NEW h \in Int, NEW t \in Seq(Int), Admit(p, h),
         queue' = [queue EXCEPT ![p] = t] \/ (queue' = queue /\ queue[p] = t),
         lane[p] # "none", p \notin cancelling, restoring /\ p \in assigned => restored[p] <= h
           /\ Above(restored[p], t),
         UNCHANGED <<assignment, position, rebalancing, cancelling, fenceVars, commitVars, restored>>
  PROVE  IInv'
<1> USE DEF IInv, fenceVars, commitVars, LaneStates
<1> DEFINE m == [partition |-> p, offset |-> h, epoch |-> epoch[p]]
<1>1. \A o \in Partitions : o # p =>
        queue'[o] = queue[o] /\ current'[o] = current[o] /\ lane'[o] = lane[o]
  BY DEF Admit, Types
<1>2. queue'[p] = t /\ current'[p] = h /\ lane'[p] \in {"handling", "waiting"}
  BY DEF Admit, Types
<1>3. given' \subseteq given \union {m} /\ given \subseteq given' /\ (lane'[p] = "handling" => m \in given')
  BY DEF Admit, Types
<1>4. m \in [partition : Partitions, offset : Int, epoch : Int]
  BY DEF Types
<1>5. Types'
  <2>1. lane' \in [Partitions -> LaneStates] /\ current' \in [Partitions -> Int] /\ DOMAIN queue' = Partitions
    BY DEF Admit, Types
  <2>2. given' \subseteq [partition : Partitions, offset : Int, epoch : Int]
    BY <1>3, <1>4 DEF Types
  <2> QED
    BY <2>1, <2>2 DEF Types
<1>6. Lanes'
  BY <1>1, <1>2 DEF Types, Lanes
<1>7. Fence'
  <2>1. \A o \in Partitions : lane'[o] = "handling" /\ rebalancing # "revoking" /\ restoring =>
          [partition |-> o, offset |-> current'[o], epoch |-> epoch[o]] \in given'
    BY <1>1, <1>2, <1>3 DEF Types, Fence
  <2> QED
    BY <1>1, <1>2, <2>1 DEF Types, Fence
<1>8. Bounds'
  <2>1. m.partition = p /\ m.offset = h /\ m.epoch = epoch[p]
    OBVIOUS
  <2> HIDE DEF m
  <2>2. ASSUME NEW x \in given', restoring
        PROVE  /\ x.epoch <= epoch[x.partition]
               /\ x.partition \in assigned /\ x.epoch = epoch[x.partition] => restored[x.partition] <= x.offset
    <3>1. CASE x \in given
      BY <2>2, <3>1 DEF Bounds
    <3>2. CASE x = m
      BY <2>1, <2>2, <3>2 DEF Types
    <3> QED
      BY <1>3, <3>1, <3>2
  <2> QED
    BY <1>1, <1>2, <2>2 DEF Types, Bounds, Behind
<1> QED
  BY <1>5, <1>6, <1>7, <1>8

(* The steps of a lane. *)
LEMMA LaneIInv ==
  ASSUME IInv, NEW p \in Partitions, LaneStep(p) PROVE IInv'
<1> USE DEF IInv, fenceVars, commitVars, history, LaneStates
<1> DEFINE t == Tail(queue[p])
           h == Head(queue[p])
<1>0. ASSUME queue[p] \in Seq(Int), queue[p] # <<>>
      PROVE  /\ t \in Seq(Int) /\ h \in Int
             /\ \A b \in Int : Above(b, queue[p]) => Above(b, t) /\ b <= h
  BY <1>0, TailAbove
<1> HIDE DEF t, h
<1>1. ASSUME LaneStart(p) PROVE IInv'
  <2>1. CASE Stopped
    BY <1>1, <2>1, LaneGoneIInv DEF LaneStart
  <2>2. CASE ~Stopped
    <3>1. /\ lane[p] = "created" /\ p \notin cancelling
          /\ queue' = [queue EXCEPT ![p] = t] /\ Admit(p, h)
          /\ UNCHANGED <<assignment, position, rebalancing, cancelling, fenceVars, commitVars, restored>>
      BY <1>1, <2>2 DEF LaneStart, t, h
    <3>2. restoring /\ p \in assigned => Above(restored[p], queue[p])
      BY <3>1 DEF Bounds
    <3> QED
      BY <1>0, <3>1, <3>2, AdmitIInv DEF Lanes, Types
  <2> QED
    BY <2>1, <2>2
<1>2. ASSUME LaneRetry(p) PROVE IInv'
  <2>1. CASE Stopped
    BY <1>2, <2>1, LaneGoneIInv DEF LaneRetry
  <2>2. CASE ~Stopped
    <3>1. /\ queue' = queue /\ queue[p] \in Seq(Int) /\ current[p] \in Int
          /\ lane[p] = "woken" /\ p \notin cancelling /\ Admit(p, current[p])
          /\ UNCHANGED <<assignment, position, rebalancing, cancelling, fenceVars, commitVars, restored>>
      BY <1>2, <2>2 DEF LaneRetry, Lanes, Types
    <3>2. restoring /\ p \in assigned => Above(restored[p], queue[p]) /\ restored[p] <= current[p]
      BY <3>1 DEF Bounds
    <3> QED
      BY <3>1, <3>2, AdmitIInv
  <2> QED
    BY <2>1, <2>2
<1>3. ASSUME LaneFinish(p), queue[p] # <<>>, ~Stopped PROVE IInv'
  <2>1. /\ lane[p] = "handling" /\ queue' = [queue EXCEPT ![p] = t] /\ current' = [current EXCEPT ![p] = h]
        /\ lane' = [Notified EXCEPT ![p] = "woken"] /\ cancelling' = cancelling \ {p}
        /\ UNCHANGED <<assignment, position, rebalancing, fenceVars, commitVars, given, restored>>
    BY <1>3 DEF LaneFinish, t, h
  <2>2. /\ t \in Seq(Int) /\ h \in Int
        /\ \A b \in Int : Above(b, queue[p]) => Above(b, t) /\ b <= h
    BY <1>0, <1>3, <2>1 DEF Lanes
  <2>3. Types'
    BY <2>1, <2>2 DEF Notified, Types
  <2>4. Lanes'
    BY <2>1, <2>2 DEF Notified, Types, Lanes
  <2>5. Fence'
    BY <2>1, <2>2 DEF Notified, Types, Fence
  <2>6. Bounds'
    <3>1. restoring /\ p \in assigned => restored[p] <= h /\ Above(restored[p], t)
      BY <2>1, <2>2 DEF Bounds, Types
    <3>2. \A o \in Partitions : o # p =>
            /\ queue'[o] = queue[o] /\ current'[o] = current[o]
            /\ lane'[o] = lane[o] \/ (lane[o] = "waiting" /\ lane'[o] = "woken")
      BY <2>1 DEF Notified, Types
    <3>3. queue'[p] = t /\ current'[p] = h
      BY <2>1 DEF Types
    <3>4. restoring => \A o \in assigned :
            /\ restored'[o] <= position'[o]
            /\ lane'[o] # "none" => Above(restored'[o], queue'[o])
            /\ lane'[o] \in {"waiting", "woken", "handling"} => restored'[o] <= current'[o]
      BY <2>1, <3>1, <3>2, <3>3 DEF Types, Bounds
    <3>5. UNCHANGED <<assignment, assigned, rebalancing, epoch, commitVars, given, restored, restoring>>
      BY <2>1
    <3> QED
      BY <3>4, <3>5 DEF Bounds, Behind
  <2> QED
    BY <2>3, <2>4, <2>5, <2>6
<1>4. ASSUME LaneFinish(p), ~(queue[p] # <<>> /\ ~Stopped) PROVE IInv'
  BY <1>4, LaneGoneIInv DEF LaneFinish
<1>5. ASSUME LaneRaise(p) PROVE IInv'
  BY <1>5, LaneGoneIInv DEF LaneRaise
<1>6. ASSUME LaneCancelled(p), lane[p] = "created" PROVE IInv'
  <2>1. Types'
    BY <1>6 DEF Types, LaneCancelled
  <2>2. Lanes'
    BY <1>6 DEF Types, Lanes, LaneCancelled
  <2>3. Fence'
    BY <1>6 DEF Types, Fence, LaneCancelled
  <2>4. Bounds'
    BY <1>6 DEF Types, Fence, Bounds, Behind, LaneCancelled
  <2> QED
    BY <2>1, <2>2, <2>3, <2>4
<1>7. ASSUME LaneCancelled(p), lane[p] # "created" PROVE IInv'
  <2>1. lane[p] \in {"waiting", "woken", "handling"}
    BY <1>7 DEF LaneCancelled, Lanes, Types
  <2> QED
    BY <1>7, <2>1, LaneGoneIInv DEF LaneCancelled
<1> QED
  BY <1>1, <1>2, <1>3, <1>4, <1>5, <1>6, <1>7 DEF LaneStep

(* Marks and commits. *)
LEMMA CommitIInv ==
  ASSUME IInv, (\E m \in given : Mark(m) \/ Commit(m)) \/ AutoFlush \/ DrainFlush \/ CommitDone \/ CommitFails
  PROVE  IInv'
<1> USE DEF IInv, consumerVars, fenceVars, laneVars, commitVars, history, None
<1>1. ASSUME NEW m \in given, Mark(m) PROVE IInv'
  <2>1. Types'
    BY <1>1 DEF Types, Mark, Fresh, Bigger
  <2>2. Lanes'
    BY <1>1 DEF Types, Lanes, Mark, Fresh, Bigger
  <2>3. Fence'
    BY <1>1 DEF Types, Fence, Mark, Fresh, Bigger
  <2>4. Bounds'
    <3>1. /\ marked' = [marked EXCEPT ![m.partition] = Bigger(@, m.offset + 1)]
          /\ UNCHANGED <<consumerVars, fenceVars, laneVars, committed, committer, inflight, given, restored>>
      BY <1>1 DEF Mark
    <3> SUFFICES ASSUME restoring PROVE Bounds'
      BY <3>1 DEF Bounds
    <3>2. /\ m.partition \in assigned /\ m.epoch = epoch[m.partition]
          /\ restored[m.partition] <= m.offset
      BY <1>1, <3>1 DEF Bounds, Mark, Fresh
    <3>3. Behind(marked')
      BY <1>1, <3>1, <3>2 DEF Types, Fence, Bounds, Behind, Bigger
    <3>4. ~(rebalancing \in {"joining", "assigning"})
      BY <3>2 DEF Fence
    <3> QED
      BY <3>1, <3>3, <3>4 DEF Bounds, Behind
  <2> QED
    BY <2>1, <2>2, <2>3, <2>4
<1>2. ASSUME NEW m \in given, Commit(m) PROVE IInv'
  <2>1. Types'
    BY <1>2 DEF Types, Commit, Fresh, NoOffsets
  <2>2. Lanes'
    BY <1>2 DEF Types, Lanes, Commit, Fresh, NoOffsets
  <2>3. Fence'
    BY <1>2 DEF Types, Fence, Commit, Fresh, NoOffsets
  <2>4. Bounds'
    BY <1>2 DEF Types, Fence, Bounds, Behind, Commit, Fresh, NoOffsets
  <2> QED
    BY <2>1, <2>2, <2>3, <2>4
<1>3. ASSUME AutoFlush \/ DrainFlush PROVE IInv'
  <2>1. Types'
    BY <1>3 DEF Types, AutoFlush, DrainFlush, Flush, NoOffsets
  <2>2. Lanes'
    BY <1>3 DEF Types, Lanes, AutoFlush, DrainFlush, Flush, NoOffsets
  <2>3. Fence'
    BY <1>3 DEF Types, Fence, AutoFlush, DrainFlush, Flush, NoOffsets
  <2>4. Bounds'
    BY <1>3 DEF Types, Fence, Bounds, Behind, AutoFlush, DrainFlush, Flush, NoOffsets
  <2> QED
    BY <2>1, <2>2, <2>3, <2>4
<1>4. ASSUME CommitDone PROVE IInv'
  <2>1. Types'
    BY <1>4 DEF Types, CommitDone, AtBroker, Flushed, NoOffsets, Sent
  <2>2. Lanes'
    BY <1>4 DEF Types, Lanes, CommitDone, AtBroker, Flushed, NoOffsets, Sent
  <2>3. Fence'
    BY <1>4 DEF Types, Fence, CommitDone, AtBroker, Flushed, NoOffsets, Sent
  <2>4. Bounds'
    BY <1>4 DEF Types, Fence, Bounds, Behind, CommitDone, AtBroker, Flushed, NoOffsets, Sent
  <2> QED
    BY <2>1, <2>2, <2>3, <2>4
<1>5. ASSUME CommitFails PROVE IInv'
  <2>1. Types'
    BY <1>5 DEF Types, CommitFails, NoOffsets
  <2>2. Lanes'
    BY <1>5 DEF Types, Lanes, CommitFails, NoOffsets
  <2>3. Fence'
    BY <1>5 DEF Types, Fence, CommitFails, NoOffsets
  <2>4. Bounds'
    BY <1>5 DEF Types, Fence, Bounds, Behind, CommitFails, NoOffsets
  <2> QED
    BY <2>1, <2>2, <2>3, <2>4
<1> QED
  BY <1>1, <1>2, <1>3, <1>4, <1>5

(* Rebalances. *)
LEMMA RebalanceIInv ==
  ASSUME IInv, Revoke \/ Revoked \/ RestoreFails \/ (\E S \in SUBSET Partitions : Join(S))
               \/ (\E r \in [assignment -> Offsets] : Restore(r))
               \/ (\E p \in Partitions, n \in Offsets : Elsewhere(p, n))
  PROVE  IInv'
<1> USE DEF IInv, consumerVars, fenceVars, laneVars, commitVars, history, None
<1>1. ASSUME Revoke PROVE IInv'
  <2>1. Types'
    BY <1>1 DEF Types, Revoke
  <2>2. Lanes'
    BY <1>1 DEF Types, Lanes, Revoke
  <2>3. Fence'
    BY <1>1 DEF Types, Fence, Revoke
  <2>4. Bounds'
    BY <1>1 DEF Types, Fence, Bounds, Behind, Revoke
  <2> QED
    BY <2>1, <2>2, <2>3, <2>4
<1>2. ASSUME Revoked PROVE IInv'
  <2>1. Types'
    BY <1>2 DEF Types, Revoked
  <2>2. Lanes'
    BY <1>2 DEF Types, Lanes, Revoked
  <2>3. Fence'
    BY <1>2 DEF Types, Fence, Revoked
  <2>4. Bounds'
    BY <1>2 DEF Types, Fence, Bounds, Behind, Revoked
  <2> QED
    BY <2>1, <2>2, <2>3, <2>4
<1>3. ASSUME RestoreFails PROVE IInv'
  <2>1. Types'
    BY <1>3 DEF Types, RestoreFails
  <2>2. Lanes'
    BY <1>3 DEF Types, Lanes, RestoreFails
  <2>3. Fence'
    BY <1>3 DEF Types, Fence, RestoreFails
  <2>4. Bounds'
    BY <1>3 DEF Types, Fence, Bounds, Behind, RestoreFails
  <2> QED
    BY <2>1, <2>2, <2>3, <2>4
<1>4. ASSUME NEW S \in SUBSET Partitions, Join(S) PROVE IInv'
  <2>1. Types'
    BY <1>4 DEF Types, Join
  <2>2. Lanes'
    BY <1>4 DEF Types, Lanes, Join
  <2>3. Fence'
    BY <1>4 DEF Types, Fence, Join
  <2>4. Bounds'
    BY <1>4 DEF Types, Fence, Bounds, Behind, Join
  <2> QED
    BY <2>1, <2>2, <2>3, <2>4
<1>5. ASSUME NEW r \in [assignment -> Offsets], Restore(r) PROVE IInv'
  <2>1. Types'
    BY <1>5 DEF Types, Restore, Offsets
  <2>2. Lanes'
    BY <1>5 DEF Types, Lanes, Restore, Offsets
  <2>3. Fence'
    BY <1>5 DEF Types, Fence, Restore, Offsets
  <2>4. Bounds'
    BY <1>5 DEF Types, Fence, Bounds, Behind, Restore, Offsets
  <2> QED
    BY <2>1, <2>2, <2>3, <2>4
<1>6. ASSUME NEW p \in Partitions, NEW n \in Offsets, Elsewhere(p, n) PROVE IInv'
  <2>1. Types'
    BY <1>6 DEF Types, Elsewhere, Offsets
  <2>2. Lanes'
    BY <1>6 DEF Types, Lanes, Elsewhere, Offsets
  <2>3. Fence'
    BY <1>6 DEF Types, Fence, Elsewhere, Offsets
  <2>4. Bounds'
    BY <1>6 DEF Types, Fence, Bounds, Behind, Elsewhere, Offsets
  <2> QED
    BY <2>1, <2>2, <2>3, <2>4
<1> QED
  BY <1>1, <1>2, <1>3, <1>4, <1>5, <1>6

(* stop() and the drain. *)
LEMMA DrainIInv ==
  ASSUME IInv, Stop \/ StopAgain \/ DrainLanes \/ DrainClose
  PROVE  IInv'
<1> USE DEF IInv, consumerVars, fenceVars, laneVars, commitVars, history, None
<1>1. ASSUME Stop PROVE IInv'
  <2>1. Types'
    BY <1>1 DEF Types, Stop, Notified, LaneStates, AtBroker, NoOffsets
  <2>2. Lanes'
    BY <1>1 DEF Types, Lanes, Stop, Notified, LaneStates, AtBroker, NoOffsets
  <2>3. Fence'
    BY <1>1 DEF Types, Fence, Stop, Notified, LaneStates, AtBroker, NoOffsets
  <2>4. Bounds'
    BY <1>1 DEF Types, Fence, Bounds, Behind, Stop, Notified, LaneStates, AtBroker, NoOffsets
  <2> QED
    BY <2>1, <2>2, <2>3, <2>4
<1>2. ASSUME StopAgain \/ DrainLanes \/ DrainClose PROVE IInv'
  <2>1. Types'
    BY <1>2 DEF Types, StopAgain, DrainLanes, DrainClose
  <2>2. Lanes'
    BY <1>2 DEF Types, Lanes, StopAgain, DrainLanes, DrainClose
  <2>3. Fence'
    BY <1>2 DEF Types, Fence, StopAgain, DrainLanes, DrainClose
  <2>4. Bounds'
    BY <1>2 DEF Types, Fence, Bounds, Behind, StopAgain, DrainLanes, DrainClose
  <2> QED
    BY <2>1, <2>2, <2>3, <2>4
<1> QED
  BY <1>1, <1>2

LEMMA StepIInv == IInv /\ [Next]_vars => IInv'
<1> SUFFICES ASSUME IInv, [Next]_vars PROVE IInv'
  OBVIOUS
<1>1. CASE UNCHANGED vars
  BY <1>1 DEF vars, consumerVars, fenceVars, laneVars, commitVars, history, IInv, Types, Lanes,
       Fence, Bounds, Behind
<1>2. CASE Next
  BY <1>2, DeliverIInv, LaneIInv, CommitIInv, RebalanceIInv, DrainIInv DEF Next
<1> QED
  BY <1>1, <1>2

-----------------------------------------------------------------------------
(* datasource/kafka/aiokafkads.py: with checkpoints, whatever rebalances   *)
(* come, a lane of an earlier assignment is gone before the partition is   *)
(* restored in a later one.                                                *)
THEOREM HandlersOfAssignment == Spec => []NoStaleHandler
<1>1. Init => IInv
  BY InitIInv
<1>2. IInv /\ [Next]_vars => IInv'
  BY StepIInv
<1>3. IInv => NoStaleHandler
  BY DEF IInv, Fence, NoStaleHandler
<1> QED
  BY <1>1, <1>2, <1>3, PTL DEF Spec

(* A step that changes what is committed of a partition sends an offset    *)
(* that is on its way.                                                     *)
LEMMA StepFenced ==
  ASSUME IInv, [Next]_vars, restoring, NEW p \in assignment, committed'[p] # committed[p]
  PROVE  rebalancing \in {"none", "revoking"} /\ restored[p] <= committed'[p]
<1>1. ASSUME inflight[p] # None, committed'[p] = inflight[p]
      PROVE  rebalancing \in {"none", "revoking"} /\ restored[p] <= committed'[p]
  BY <1>1 DEF IInv, Types, Bounds, Behind
<1>2. CASE CommitDone
  BY <1>1, <1>2 DEF CommitDone, AtBroker, Sent, IInv, Types
<1>3. CASE Stop
  BY <1>1, <1>3 DEF Stop, AtBroker, Sent, IInv, Types
<1>4. ASSUME NEW o \in Partitions, NEW n \in Offsets, Elsewhere(o, n) PROVE FALSE
  BY <1>4 DEF Elsewhere, IInv, Types
<1>5. ASSUME NEW o \in Partitions, Deliver(o) \/ LaneStep(o) PROVE FALSE
  BY <1>5 DEF Deliver, LaneStep, LaneStart, LaneRetry, LaneFinish, LaneRaise, LaneCancelled, commitVars
<1>6. ASSUME NEW m \in given, Mark(m) \/ Commit(m) PROVE FALSE
  BY <1>6 DEF Mark, Commit
<1>7. ASSUME AutoFlush \/ DrainFlush \/ CommitFails \/ StopAgain \/ DrainLanes \/ DrainClose PROVE FALSE
  BY <1>7 DEF AutoFlush, DrainFlush, Flush, CommitFails, StopAgain, DrainLanes, DrainClose, commitVars
<1>8. ASSUME Revoke \/ Revoked \/ RestoreFails \/ (\E S \in SUBSET Partitions : Join(S))
             \/ (\E r \in [assignment -> Offsets] : Restore(r))
      PROVE  FALSE
  BY <1>8 DEF Revoke, Revoked, RestoreFails, Join, Restore, commitVars
<1>9. CASE UNCHANGED vars
  BY <1>9 DEF vars, commitVars
<1> QED
  BY <1>2, <1>3, <1>4, <1>5, <1>6, <1>7, <1>8, <1>9 DEF Next

(* datasource/kafka/aiokafkads.py: with checkpoints, a commit that arrives *)
(* belongs to the assignment in force and does not take the partition back *)
(* behind where that one was restored.                                     *)
THEOREM CommitsOfAssignment == Spec => FencedCommits
<1>1. Init => IInv
  BY InitIInv
<1>2. IInv /\ [Next]_vars => IInv'
  BY StepIInv
<1>3. IInv /\ [Next]_vars =>
        (restoring => \A p \in assignment : committed'[p] # committed[p] =>
           rebalancing \in {"none", "revoking"} /\ restored[p] <= committed'[p])
  BY StepFenced
<1> QED
  BY <1>1, <1>2, <1>3, PTL DEF Spec, FencedCommits

-----------------------------------------------------------------------------
(* What handlers have marked and what of it is still to be committed.      *)
Payment ==
  /\ owed \in [Partitions -> Int]
  /\ \A p \in Partitions : None <= owed[p] /\ owed[p] <= marked[p]
  /\ committer = "drain" => phase = "flushing" /\ \A p \in Partitions : owed[p] <= inflight[p]
  /\ phase \notin {"open", "stopping"} => \A p \in Partitions : lane[p] = "none"
  /\ phase \in {"closed", "unclosed"} => \A p \in Partitions : owed[p] = None

(* Checkpoint mode: it belongs to the assignment, and a rebalance drops it. *)
Dropped ==
  /\ rebalancing = "assigning" => restoring
  /\ restoring =>
       \A p \in Partitions : owed[p] # None => p \in assignment /\ rebalancing \in {"none", "revoking"}

PInv == IInv /\ Payment /\ Dropped

(* The steps of a record, from its delivery to the end of its lane. *)
LEMMA LanePayment ==
  ASSUME PInv, NEW p \in Partitions, Deliver(p) \/ LaneStep(p) PROVE Payment' /\ Dropped'
<1> USE DEF PInv, IInv, Payment, Dropped, fenceVars, commitVars, history
<1>1. UNCHANGED <<assignment, rebalancing, restoring, marked, committer, inflight, owed, phase>>
  BY DEF Deliver, LaneStep, LaneStart, LaneRetry, LaneFinish, LaneRaise, LaneCancelled
<1>2. ASSUME phase \notin {"open", "stopping"} PROVE lane' = lane
  <2>1. ~Deliver(p)
    BY <1>2 DEF Deliver, Stopped
  <2>2. lane[p] = "none" /\ p \notin cancelling
    BY <1>2 DEF Lanes
  <2> QED
    BY <2>1, <2>2 DEF LaneStep, LaneStart, LaneRetry, LaneFinish, LaneRaise, LaneCancelled
<1> QED
  BY <1>1, <1>2

LEMMA CommitPayment ==
  ASSUME PInv, (\E m \in given : Mark(m) \/ Commit(m)) \/ AutoFlush \/ DrainFlush \/ CommitDone \/ CommitFails
  PROVE  Payment' /\ Dropped'
<1> USE DEF PInv, IInv, consumerVars, fenceVars, laneVars, commitVars, history, None
<1>1. ASSUME NEW m \in given, Mark(m) PROVE Payment' /\ Dropped'
  <2> DEFINE p == m.partition
             n == m.offset + 1
  <2>1. /\ marked' = [marked EXCEPT ![p] = Bigger(@, n)]
        /\ owed' = IF lane[p] = "handling" /\ current[p] = m.offset
                     THEN [owed EXCEPT ![p] = Bigger(@, n)] ELSE owed
        /\ UNCHANGED <<assignment, rebalancing, restoring, lane, committer, inflight, phase>>
    BY <1>1 DEF Mark
  <2>2. p \in Partitions /\ n \in Int /\ (restoring => p \in assigned)
    BY <1>1 DEF Types, Mark, Fresh
  <2> HIDE DEF p, n
  <2>3. owed' \in [Partitions -> Int] /\ \A o \in Partitions : None <= owed'[o] /\ owed'[o] <= marked'[o]
    BY <2>1, <2>2 DEF Payment, Bigger, Types
  <2>4. phase \notin {"open", "stopping"} => owed' = owed
    BY <2>1, <2>2 DEF Payment
  <2>5. Payment'
    BY <2>1, <2>3, <2>4 DEF Payment
  <2>6. Dropped'
    BY <2>1, <2>2 DEF Payment, Dropped, Fence, Types
  <2> QED
    BY <2>5, <2>6
<1>2. ASSUME NEW m \in given, Commit(m) PROVE Payment' /\ Dropped'
  BY <1>2 DEF Payment, Dropped, Commit
<1>3. ASSUME AutoFlush \/ DrainFlush PROVE Payment' /\ Dropped'
  BY <1>3 DEF Payment, Dropped, AutoFlush, DrainFlush, Flush
<1>4. CASE CommitDone
  <2>1. CASE committer = "handler"
    BY <1>4, <2>1 DEF CommitDone, Payment, Dropped
  <2>2. CASE committer # "handler"
    <3>1. /\ marked' = Flushed /\ owed' = Paid /\ committer' = "none"
          /\ UNCHANGED <<assignment, rebalancing, restoring, lane>>
          /\ IF committer = "drain" THEN phase' \in {"closed", "unclosed"} ELSE phase' = phase
      BY <1>4, <2>2 DEF CommitDone
    <3>2. \A p \in Partitions :
            /\ marked'[p] = IF inflight[p] # None /\ marked[p] <= inflight[p] THEN None ELSE marked[p]
            /\ owed'[p] = IF inflight[p] # None /\ owed[p] <= inflight[p] THEN None ELSE owed[p]
      BY <3>1 DEF Flushed, Paid, Sent
    <3>3. owed' \in [Partitions -> Int]
      BY <3>1 DEF Paid, Payment
    <3>4. \A p \in Partitions : None <= owed'[p] /\ owed'[p] <= marked'[p]
      BY <3>2 DEF Payment, Types
    <3>5. committer = "drain" => \A p \in Partitions : owed'[p] = None
      BY <3>2 DEF Payment, Types
    <3>6. \A p \in Partitions : owed'[p] # None => owed[p] # None
      BY <3>2
    <3>7. phase' \in {"closed", "unclosed"} => \A p \in Partitions : owed'[p] = None
      BY <3>1, <3>5, <3>6 DEF Payment
    <3>8. phase' \notin {"open", "stopping"} => phase \notin {"open", "stopping"}
      BY <3>1 DEF Payment
    <3> QED
      BY <3>1, <3>3, <3>4, <3>6, <3>7, <3>8 DEF Payment, Dropped
  <2> QED
    BY <2>1, <2>2
<1>5. CASE CommitFails
  BY <1>5 DEF CommitFails, Payment, Dropped
<1> QED
  BY <1>1, <1>2, <1>3, <1>4, <1>5

LEMMA RebalancePayment ==
  ASSUME PInv, Revoke \/ Revoked \/ RestoreFails \/ (\E S \in SUBSET Partitions : Join(S))
               \/ (\E r \in [assignment -> Offsets] : Restore(r))
               \/ (\E p \in Partitions, n \in Offsets : Elsewhere(p, n))
  PROVE  Payment' /\ Dropped'
<1> USE DEF PInv, IInv, consumerVars, fenceVars, laneVars, commitVars, history, None
<1>1. CASE Revoke
  BY <1>1 DEF Revoke, Payment, Dropped
<1>2. CASE Revoked
  <2>1. Payment'
    BY <1>2 DEF Revoked, Payment, Types
  <2>2. Dropped'
    BY <1>2 DEF Revoked, Dropped
  <2> QED
    BY <2>1, <2>2
<1>3. CASE RestoreFails
  BY <1>3 DEF RestoreFails, Payment, Dropped
<1>4. ASSUME NEW S \in SUBSET Partitions, Join(S) PROVE Payment' /\ Dropped'
  <2>1. Payment'
    BY <1>4 DEF Join, Payment, Types
  <2>2. Dropped'
    BY <1>4 DEF Join, Dropped
  <2> QED
    BY <2>1, <2>2
<1>5. ASSUME NEW r \in [assignment -> Offsets], Restore(r) PROVE Payment' /\ Dropped'
  <2>1. \A p \in Partitions : owed'[p] = owed[p] /\ (restoring => owed[p] = None)
    BY <1>5 DEF Restore, Dropped
  <2>2. \A p \in Partitions : marked'[p] = IF p \in assignment THEN r[p] ELSE marked[p]
    BY <1>5 DEF Restore
  <2>3. \A p \in assignment : None <= r[p]
    BY KafkaAssumption DEF Offsets
  <2>4. rebalancing = "assigning" => restoring
    BY DEF Dropped
  <2> QED
    BY <1>5, <2>1, <2>2, <2>3, <2>4 DEF Restore, Payment, Dropped
<1>6. ASSUME NEW p \in Partitions, NEW n \in Offsets, Elsewhere(p, n) PROVE Payment' /\ Dropped'
  BY <1>6 DEF Elsewhere, Payment, Dropped
<1> QED
  BY <1>1, <1>2, <1>3, <1>4, <1>5, <1>6

LEMMA DrainPayment ==
  ASSUME PInv, Stop \/ StopAgain \/ DrainLanes \/ DrainClose
  PROVE  Payment' /\ Dropped'
<1> USE DEF PInv, IInv, consumerVars, fenceVars, laneVars, commitVars, history, None
<1>1. CASE Stop
  BY <1>1 DEF Stop, Payment, Dropped
<1>2. CASE StopAgain
  BY <1>2 DEF StopAgain, Payment, Dropped
<1>3. CASE DrainLanes
  BY <1>3 DEF DrainLanes, Payment, Dropped
<1>4. CASE DrainClose
  <2>1. \A p \in Partitions : owed[p] = None
    BY <1>4 DEF DrainClose, Payment, NoOffsets
  <2> QED
    BY <1>4, <2>1 DEF DrainClose, Payment, Dropped
<1> QED
  BY <1>1, <1>2, <1>3, <1>4

LEMMA StepPayment == PInv /\ [Next]_vars => PInv'
<1> SUFFICES ASSUME PInv, [Next]_vars PROVE PInv'
  OBVIOUS
<1>1. IInv'
  BY StepIInv DEF PInv
<1>2. CASE UNCHANGED vars
  BY <1>1, <1>2 DEF vars, consumerVars, fenceVars, laneVars, commitVars, history, PInv, Payment, Dropped
<1>3. CASE Next
  BY <1>1, <1>3, LanePayment, CommitPayment, RebalancePayment, DrainPayment DEF Next, PInv
<1> QED
  BY <1>2, <1>3

-----------------------------------------------------------------------------
(* The next offset n is covered by the records in S. *)
Covers(S, n) == 0 .. n - 1 \subseteq S

LEMMA CoversGrow ==
  ASSUME NEW S, NEW T, S \subseteq T, NEW n \in Int, Covers(S, n) PROVE Covers(T, n)
  BY DEF Covers

LEMMA CoversNext ==
  ASSUME NEW S, NEW n \in Int, Covers(S, n) PROVE Covers(S \union {n}, n + 1)
  BY DEF Covers

LEMMA CoversNothing == \A S : Covers(S, 0) /\ Covers(S, None)
  BY DEF Covers, None

(* A partition that is read one record at a time: its next record is the   *)
(* first that has not been handled, or the one its lane has.               *)
InOrder(p) ==
  /\ lane[p] = "none" /\ queue[p] = NoQueue => Covers(served[p], position[p])
  /\ lane[p] # "none" => p \in paused
  /\ lane[p] = "created" => Len(queue[p]) = 1 /\ queue[p][1] = position[p] - 1
                            /\ Covers(served[p], position[p] - 1)
  /\ lane[p] \in {"waiting", "woken", "handling"} => queue[p] = <<>> /\ current[p] = position[p] - 1
  /\ lane[p] \in {"waiting", "woken"} => Covers(served[p], current[p])
  /\ lane[p] = "handling" => Covers(served[p], position[p])

(* Checkpoint mode: everything that may be committed has been handled.     *)
Offsetwise ==
  \A p \in Partitions :
    Covers(served[p], committed[p]) /\ Covers(served[p], marked[p]) /\ Covers(served[p], inflight[p])
Messagewise ==
  \A m \in given : m.partition \in assigned /\ m.epoch = epoch[m.partition] =>
    Covers(served[m.partition], m.offset + 1)

Coverage ==
  /\ served \in [Partitions -> SUBSET Int]
  /\ restoring => /\ Offsetwise
                  /\ Messagewise
                  /\ rebalancing # "revoking" => cancelling = {}
                  /\ ~Stopped => \A p \in assigned : InOrder(p)

CInv == IInv /\ Coverage

(* More records are handled, and what is known of the others stays.        *)
LEMMA StillCovered ==
  ASSUME Coverage, IInv, restoring, UNCHANGED <<committed, marked, inflight>>,
         \A p \in Partitions : served[p] \subseteq served'[p]
  PROVE  Offsetwise'
  BY CoversGrow DEF Coverage, Offsetwise, IInv, Types

LEMMA DeliverCoverage ==
  ASSUME CInv, Prefetch = 1, NEW p \in Partitions, Deliver(p) PROVE Coverage'
<1> USE DEF CInv, IInv, fenceVars, commitVars, history
<1>1. /\ UNCHANGED <<restoring, assigned, epoch, committed, marked, inflight, given, served, cancelling, rebalancing,
                     phase, current>>
      /\ position' = [position EXCEPT ![p] = @ + 1] /\ ~Stopped /\ p \notin paused
  BY DEF Deliver
<1>2. served' \in [Partitions -> SUBSET Int] /\ (restoring => Offsetwise' /\ Messagewise')
  BY <1>1 DEF Coverage, Offsetwise, Messagewise
<1>3. ASSUME restoring, NEW o \in assigned PROVE InOrder(o)'
  <2>0. InOrder(o) /\ o \in Partitions /\ position[o] \in Int
    BY <1>1, <1>3 DEF Coverage, Types
  <2>1. CASE o # p
    <3>1. queue'[o] = queue[o] /\ lane'[o] = lane[o] /\ position'[o] = position[o] /\ (o \in paused
          => o \in paused')
      BY <1>1, <2>0, <2>1 DEF Deliver, Types
    <3> QED
      BY <1>1, <2>0, <3>1 DEF InOrder
  <2>2. CASE o = p
    <3>1. lane[p] = "none" /\ Admitted(p)
      BY <1>1, <1>3, <2>0, <2>2 DEF InOrder, Deliver, Admitted
    <3>2. CASE queue[p] = NoQueue
      <4>1. queue'[p] = Append(<<>>, position[p]) /\ lane'[p] = "created" /\ p \in paused'
        <5>1. Len(Append(<<>>, position[p])) = 1
          BY <2>0, <2>2
        <5> QED
          BY <3>1, <3>2, <5>1 DEF Deliver, Types
      <4>2. Len(queue'[p]) = 1 /\ queue'[p][1] = position[p]
        BY <4>1, <2>0, <2>2
      <4>3. position'[p] - 1 = position[p] /\ Covers(served[p], position[p]) /\ served' = served
        BY <1>1, <2>0, <2>2, <3>1, <3>2 DEF InOrder, Types
      <4> QED
        BY <2>2, <4>1, <4>2, <4>3 DEF InOrder
    <3>3. CASE queue[p] # NoQueue
      <4> DEFINE q == Append(queue[p], position[p])
      <4>1. queue'[p] = q /\ lane'[p] = "none"
        BY <3>1, <3>3 DEF Deliver, Types
      <4>2. q # NoQueue
        <5>1. q \in Seq(Int)
          BY <2>0, <2>2, <3>3 DEF Lanes
        <5> QED
          BY <5>1, KafkaAssumption
      <4> QED
        BY <2>2, <4>1, <4>2 DEF InOrder
    <3> QED
      BY <3>2, <3>3
  <2> QED
    BY <2>1, <2>2
<1> QED
  BY <1>1, <1>2, <1>3 DEF Coverage, Stopped

LEMMA AdmitCoverage ==
  ASSUME CInv, NEW p \in Partitions, NEW o \in Int, Admit(p, o), ~Stopped,
         restoring /\ p \in assigned =>
           queue'[p] = <<>> /\ o = position[p] - 1 /\ Covers(served[p], o) /\ p \in paused,
         \A x \in Partitions : x # p => queue'[x] = queue[x],
         UNCHANGED <<assigned, restoring, epoch, position, rebalancing, cancelling, paused, committed, marked, inflight,
                     phase>>
  PROVE  Coverage'
<1> USE DEF CInv, IInv
<1>1. /\ served' \in [Partitions -> SUBSET Int] /\ \A x \in Partitions : served[x] \subseteq served'[x]
      /\ \A x \in Partitions : x # p => served'[x] = served[x] /\ current'[x] = current[x] /\ lane'[x] = lane[x]
      /\ current'[p] = o
  <2>1. CASE HasSlot
    <3>1. served' = [served EXCEPT ![p] = @ \union {o}]
      BY <2>1 DEF Admit
    <3>2. served' \in [Partitions -> SUBSET Int] /\ \A x \in Partitions : served[x] \subseteq served'[x]
      BY <3>1 DEF Coverage
    <3> QED
      BY <2>1, <3>1, <3>2 DEF Admit, Types
  <2>2. CASE ~HasSlot
    BY <2>2 DEF Admit, Coverage, Types
  <2> QED
    BY <2>1, <2>2
<1>2. restoring => Offsetwise'
  BY <1>1, StillCovered
<1>3. \/ HasSlot /\ lane'[p] = "handling" /\ served'[p] = served[p] \union {o}
         /\ given' = given \union {[partition |-> p, offset |-> o, epoch |-> epoch[p]]}
      \/ ~HasSlot /\ lane'[p] = "waiting" /\ served'[p] = served[p] /\ given' = given
  BY DEF Admit, Coverage, Types
<1>4. ASSUME restoring, p \in assigned, HasSlot PROVE Covers(served'[p], o + 1)
  BY <1>3, <1>4, CoversNext
<1>5. ASSUME restoring PROVE Messagewise'
  <2> SUFFICES ASSUME NEW m \in given', m.partition \in assigned, m.epoch = epoch[m.partition]
               PROVE  Covers(served'[m.partition], m.offset + 1)
    BY DEF Messagewise
  <2>1. CASE m \in given
    <3>1. Covers(served[m.partition], m.offset + 1) /\ m.partition \in Partitions /\ m.offset \in Int
      BY <1>5, <2>1 DEF Coverage, Messagewise, Types
    <3> QED
      BY <1>1, <3>1, CoversGrow
  <2>2. CASE m \notin given
    <3>1. HasSlot /\ m.partition = p /\ m.offset = o
      BY <1>3, <2>2
    <3> QED
      BY <1>4, <1>5, <3>1
  <2> QED
    BY <2>1, <2>2
<1>6. ASSUME restoring, NEW x \in assigned PROVE InOrder(x)'
  <2>1. CASE x # p
    <3>1. InOrder(x) /\ x \in Partitions
      BY <1>6 DEF Coverage, Types
    <3> QED
      BY <1>1, <2>1, <3>1 DEF InOrder
  <2>2. CASE x = p
    <3>1. queue'[p] = <<>> /\ o = position[p] - 1 /\ Covers(served[p], o) /\ p \in paused /\ position[p] \in Int
      BY <1>6, <2>2 DEF Types
    <3> QED
      BY <1>1, <1>3, <1>4, <1>6, <2>2, <3>1 DEF InOrder
  <2> QED
    BY <2>1, <2>2
<1> QED
  BY <1>1, <1>2, <1>5, <1>6 DEF Coverage, Stopped

LEMMA LaneGoneCoverage ==
  ASSUME CInv, NEW p \in Partitions, EndLane(p, lane) \/ EndLane(p, Notified),
         lane[p] = "handling" \/ Stopped \/ p \in cancelling,
         UNCHANGED <<assigned, restoring, epoch, position, rebalancing, committed, marked, inflight, given, served,
                     phase>>
  PROVE  Coverage'
<1> USE DEF CInv, IInv
<1>1. /\ \A x \in Partitions : x # p =>
           /\ queue'[x] = queue[x] /\ current'[x] = current[x] /\ (x \in paused => x \in paused')
           /\ lane'[x] = lane[x] \/ (lane[x] = "waiting" /\ lane'[x] = "woken")
      /\ lane'[p] = "none" /\ queue'[p] = NoQueue /\ cancelling' = cancelling \ {p}
  BY DEF EndLane, Notified, Types, Resume
<1>2. restoring => Offsetwise' /\ Messagewise' /\ (rebalancing' # "revoking" => cancelling' = {})
  BY <1>1 DEF Coverage, Offsetwise, Messagewise
<1>3. ASSUME restoring, ~Stopped, NEW x \in assigned PROVE InOrder(x)'
  <2>1. InOrder(x) /\ x \in Partitions /\ rebalancing = "none"
    BY <1>3 DEF Coverage, Types, Fence
  <2>2. CASE x # p
    BY <1>1, <2>1, <2>2 DEF InOrder
  <2>3. CASE x = p
    <3>1. lane[p] = "handling"
      BY <1>3, <2>1 DEF Coverage
    <3> QED
      BY <1>1, <2>1, <2>3, <3>1 DEF InOrder
  <2> QED
    BY <2>2, <2>3
<1> QED
  BY <1>2, <1>3 DEF Coverage, Stopped

(* The steps of a lane. *)
LEMMA LaneCoverage ==
  ASSUME CInv, NEW p \in Partitions, LaneStep(p) PROVE Coverage'
<1> USE DEF CInv, IInv, fenceVars, commitVars, history
<1>1. CASE LaneStart(p)
  <2>1. CASE Stopped
    BY <1>1, <2>1, LaneGoneCoverage DEF LaneStart
  <2>2. CASE ~Stopped
    <3>1. /\ lane[p] = "created" /\ queue' = [queue EXCEPT ![p] = Tail(@)] /\ Admit(p, Head(queue[p]))
          /\ UNCHANGED <<assigned, restoring, epoch, position, rebalancing, cancelling, paused,
                         committed, marked, inflight, phase>>
      BY <1>1, <2>2 DEF LaneStart
    <3>2. queue[p] \in Seq(Int) /\ queue[p] # <<>> /\ Head(queue[p]) \in Int
      BY <3>1, TailAbove DEF Lanes, Types
    <3>3. ASSUME restoring, p \in assigned
          PROVE  /\ Tail(queue[p]) = <<>> /\ Head(queue[p]) = position[p] - 1
                 /\ Covers(served[p], position[p] - 1) /\ p \in paused
      <4>1. /\ Len(queue[p]) = 1 /\ queue[p][1] = position[p] - 1
            /\ Covers(served[p], position[p] - 1) /\ p \in paused
        BY <2>2, <3>1, <3>3 DEF Coverage, InOrder
      <4> QED
        BY <3>2, <4>1, TailOfOne
    <3>4. \A x \in Partitions : x # p => queue'[x] = queue[x]
      BY <3>1
    <3>5. restoring /\ p \in assigned =>
            /\ queue'[p] = <<>> /\ Head(queue[p]) = position[p] - 1
            /\ Covers(served[p], Head(queue[p])) /\ p \in paused
      BY <3>1, <3>3 DEF Types
    <3> HIDE DEF CInv, IInv
    <3> QED
      BY <2>2, <3>1, <3>2, <3>4, <3>5, AdmitCoverage
  <2> QED
    BY <2>1, <2>2
<1>2. CASE LaneRetry(p)
  <2>1. CASE Stopped
    BY <1>2, <2>1, LaneGoneCoverage DEF LaneRetry
  <2>2. CASE ~Stopped
    <3>1. /\ lane[p] = "woken" /\ queue' = queue /\ Admit(p, current[p]) /\ current[p] \in Int
          /\ UNCHANGED <<assigned, restoring, epoch, position, rebalancing, cancelling, paused,
                         committed, marked, inflight, phase>>
      BY <1>2, <2>2 DEF LaneRetry, Types
    <3>2. restoring /\ p \in assigned =>
            /\ queue[p] = <<>> /\ current[p] = position[p] - 1
            /\ Covers(served[p], current[p]) /\ p \in paused
      BY <2>2, <3>1 DEF Coverage, InOrder
    <3> QED
      BY <2>2, <3>1, <3>2, AdmitCoverage
  <2> QED
    BY <2>1, <2>2
<1>3. CASE LaneFinish(p)
  <2>1. CASE queue[p] # <<>> /\ ~Stopped
    <3>0. /\ lane[p] = "handling" /\ cancelling' = cancelling \ {p}
          /\ lane' = [Notified EXCEPT ![p] = "woken"]
          /\ queue' = [queue EXCEPT ![p] = Tail(@)] /\ current' = [current EXCEPT ![p] = Head(queue[p])]
          /\ UNCHANGED <<assigned, restoring, epoch, position, rebalancing, paused, served, given,
                         committed, marked, inflight, phase>>
      BY <1>3, <2>1 DEF LaneFinish
    <3>1. /\ lane[p] = "handling" /\ cancelling' = cancelling \ {p}
          /\ \A x \in Partitions : x # p =>
               /\ queue'[x] = queue[x] /\ current'[x] = current[x]
               /\ lane'[x] = lane[x] \/ (lane[x] = "waiting" /\ lane'[x] = "woken")
          /\ UNCHANGED <<assigned, restoring, epoch, position, rebalancing, paused, served, given,
                         committed, marked, inflight, phase>>
      BY <3>0 DEF Notified, Types
    <3>2. restoring => p \notin assigned
      BY <2>1, <3>1 DEF Coverage, InOrder
    <3>3. ASSUME restoring, NEW x \in assigned PROVE InOrder(x)'
      <4>1. InOrder(x) /\ x \in Partitions /\ x # p
        BY <2>1, <3>2, <3>3 DEF Coverage, Types
      <4> QED
        BY <3>1, <4>1 DEF InOrder
    <3>4. restoring => Offsetwise' /\ Messagewise' /\ (rebalancing' # "revoking" => cancelling' = {})
      BY <3>1 DEF Coverage, Offsetwise, Messagewise
    <3> QED
      BY <3>1, <3>3, <3>4 DEF Coverage
  <2>2. CASE ~(queue[p] # <<>> /\ ~Stopped)
    BY <1>3, <2>2, LaneGoneCoverage DEF LaneFinish
  <2> QED
    BY <2>1, <2>2
<1>4. CASE LaneRaise(p)
  BY <1>4, LaneGoneCoverage DEF LaneRaise
<1>5. CASE LaneCancelled(p)
  <2>1. CASE lane[p] = "created"
    <3>1. /\ cancelling' = cancelling \ {p} /\ p \in cancelling
          /\ UNCHANGED <<assigned, restoring, epoch, position, rebalancing, paused, served, given,
                         committed, marked, inflight, phase>>
      BY <1>5, <2>1 DEF LaneCancelled
    <3>2. restoring => rebalancing = "revoking" /\ assigned = {}
      BY <3>1 DEF Coverage, Fence
    <3>3. restoring => Offsetwise' /\ Messagewise'
      BY <3>1 DEF Coverage, Offsetwise, Messagewise
    <3> QED
      BY <3>1, <3>2, <3>3 DEF Coverage
  <2>2. CASE lane[p] # "created"
    <3>1. lane[p] \in {"waiting", "woken", "handling"} /\ p \in cancelling
      BY <1>5, <2>2 DEF LaneCancelled, Lanes, Types, LaneStates
    <3> QED
      BY <1>5, <3>1, LaneGoneCoverage DEF LaneCancelled
  <2> QED
    BY <2>1, <2>2
<1> QED
  BY <1>1, <1>2, <1>3, <1>4, <1>5 DEF LaneStep

LEMMA CommitCoverage ==
  ASSUME CInv, (\E m \in given : Mark(m) \/ Commit(m)) \/ AutoFlush \/ DrainFlush \/ CommitDone \/ CommitFails
  PROVE  Coverage'
<1> USE DEF CInv, IInv
<1>1. /\ UNCHANGED <<restoring, assigned, epoch, position, paused, rebalancing, queue, lane, current, cancelling,
                     given, served>>
      /\ Stopped => Stopped'
  BY DEF Mark, Commit, AutoFlush, DrainFlush, Flush, CommitDone, CommitFails, Stopped, consumerVars, fenceVars,
         laneVars, history
<1>2. ASSUME restoring PROVE Offsetwise'
  <2> SUFFICES ASSUME NEW p \in Partitions
               PROVE  /\ Covers(served[p], committed'[p])
                      /\ Covers(served[p], marked'[p])
                      /\ Covers(served[p], inflight'[p])
    BY <1>1 DEF Offsetwise
  <2>0. Covers(served[p], committed[p]) /\ Covers(served[p], marked[p]) /\ Covers(served[p], inflight[p])
    BY <1>2 DEF Coverage, Offsetwise
  <2>1. ASSUME NEW m \in given, Mark(m) \/ Commit(m)
        PROVE  m.partition = p => Covers(served[p], m.offset + 1)
    BY <1>2, <2>1 DEF Mark, Commit, Fresh, Coverage, Messagewise
  <2>2. ASSUME NEW m \in given, Mark(m)
        PROVE  /\ committed'[p] = committed[p] /\ inflight'[p] = inflight[p]
               /\ marked'[p] = marked[p] \/ (m.partition = p /\ marked'[p] = m.offset + 1)
    BY <2>2 DEF Mark, Bigger, Types
  <2>3. ASSUME NEW m \in given, Commit(m)
        PROVE  /\ committed'[p] = committed[p] /\ marked'[p] = marked[p]
               /\ inflight'[p] = None \/ (m.partition = p /\ inflight'[p] = m.offset + 1)
    BY <2>3 DEF Commit, NoOffsets, Types
  <2>4. ASSUME AutoFlush \/ DrainFlush \/ CommitDone \/ CommitFails
        PROVE  /\ committed'[p] \in {committed[p], inflight[p]}
               /\ marked'[p] \in {marked[p], None}
               /\ inflight'[p] \in {marked[p], None}
    <3>1. CASE AutoFlush \/ DrainFlush
      BY <3>1 DEF AutoFlush, DrainFlush, Flush
    <3>2. CASE CommitDone
      BY <3>2 DEF CommitDone, AtBroker, Flushed, NoOffsets
    <3>3. CASE CommitFails
      BY <3>3 DEF CommitFails, commitVars, NoOffsets
    <3> QED
      BY <2>4, <3>1, <3>2, <3>3
  <2> QED
    BY <2>0, <2>1, <2>2, <2>3, <2>4, CoversNothing
<1>3. /\ restoring => Messagewise' /\ (rebalancing' # "revoking" => cancelling' = {})
      /\ restoring /\ ~Stopped => \A p \in assigned : InOrder(p)'
  BY <1>1 DEF Coverage, Messagewise, InOrder
<1> QED
  BY <1>1, <1>2, <1>3 DEF Coverage

LEMMA RebalanceCoverage ==
  ASSUME CInv, Revoke \/ Revoked \/ RestoreFails \/ (\E S \in SUBSET Partitions : Join(S))
               \/ (\E r \in [assignment -> Offsets] : Restore(r))
               \/ (\E p \in Partitions, n \in Offsets : Elsewhere(p, n))
  PROVE  Coverage'
<1> USE DEF CInv, IInv, consumerVars, fenceVars, laneVars, commitVars, history
<1>1. CASE Revoke
  <2>1. restoring /\ rebalancing = "none" /\ rebalancing' = "revoking" /\ assigned' = {}
        /\ UNCHANGED <<restoring, committed, marked, inflight, given, served>>
    BY <1>1 DEF Revoke, Fence
  <2> QED
    BY <2>1 DEF Coverage, Offsetwise, Messagewise
<1>2. CASE Revoked
  <2>1. /\ rebalancing = "revoking" /\ rebalancing' = "joining"
        /\ UNCHANGED <<restoring, assigned, committed, inflight, given, served, epoch, lane, cancelling>>
        /\ \A p \in Partitions : marked'[p] \in {marked[p], None}
    BY <1>2 DEF Revoked
  <2>2. restoring => assigned = {} /\ \A p \in Partitions : lane[p] = "none"
    BY <1>2, <2>1 DEF Revoked, Fence
  <2>3. restoring => cancelling = {}
    BY <2>2 DEF Lanes
  <2> QED
    BY <2>1, <2>2, <2>3, CoversNothing DEF Coverage, Offsetwise, Messagewise
<1>3. CASE RestoreFails
  BY <1>3 DEF RestoreFails, Coverage, Offsetwise, Messagewise, Stopped
<1>4. ASSUME NEW S \in SUBSET Partitions, Join(S) PROVE Coverage'
  <2>1. /\ UNCHANGED <<restoring, committed, marked, inflight, given, served, epoch, cancelling>>
        /\ restoring => rebalancing = "joining" /\ assigned' = {}
    BY <1>4 DEF Join, Fence
  <2> QED
    BY <2>1 DEF Coverage, Offsetwise, Messagewise
<1>5. ASSUME NEW r \in [assignment -> Offsets], Restore(r) PROVE Coverage'
  <2>1. /\ UNCHANGED <<restoring, committed, inflight, given, served, queue, lane, current, cancelling, paused, phase>>
        /\ assigned' = assigned \union assignment /\ rebalancing = "assigning"
        /\ \A p \in Partitions : IF p \in assignment
             THEN marked'[p] = r[p] /\ position'[p] = r[p] /\ epoch'[p] = epoch[p] + 1
                  /\ Covers(served[p], r[p])
             ELSE marked'[p] = marked[p] /\ position'[p] = position[p] /\ epoch'[p] = epoch[p]
    BY <1>5 DEF Restore, Covers
  <2>2. restoring => assigned = {} /\ cancelling = {} /\ \A p \in Partitions : lane[p] = "none"
    BY <2>1 DEF Fence, Coverage
  <2>3. restoring => Offsetwise'
    BY <2>1 DEF Coverage, Offsetwise
  <2>4. ASSUME restoring, NEW m \in given, m.partition \in assignment PROVE m.epoch # epoch'[m.partition]
    BY <2>1, <2>4 DEF Types, Bounds
  <2>5. restoring => Messagewise'
    BY <2>1, <2>2, <2>4 DEF Messagewise
  <2>6. ASSUME restoring, NEW p \in assignment PROVE InOrder(p)'
    BY <2>1, <2>2, <2>6 DEF InOrder, Types
  <2> QED
    BY <2>1, <2>2, <2>3, <2>5, <2>6 DEF Coverage
<1>6. ASSUME NEW p \in Partitions, NEW n \in Offsets, Elsewhere(p, n) PROVE Coverage'
  <2>1. /\ UNCHANGED <<consumerVars, fenceVars, laneVars, marked, inflight, given, phase>>
        /\ committed' = [committed EXCEPT ![p] = n]
        /\ served' = [served EXCEPT ![p] = @ \union 0 .. n - 1] /\ p \notin assignment
    BY <1>6 DEF Elsewhere
  <2>2. n \in Int /\ 0 .. n - 1 \subseteq Int
    BY KafkaAssumption DEF Offsets
  <2>3. /\ served' \in [Partitions -> SUBSET Int]
        /\ \A o \in Partitions : served[o] \subseteq served'[o] /\ (o # p => served'[o] = served[o])
        /\ Covers(served'[p], n)
    BY <2>1, <2>2 DEF Coverage, Covers
  <2>4. ASSUME restoring PROVE Offsetwise'
    <3> SUFFICES ASSUME NEW o \in Partitions
                 PROVE  /\ Covers(served'[o], committed'[o])
                        /\ Covers(served'[o], marked[o])
                        /\ Covers(served'[o], inflight[o])
      BY <2>1 DEF Offsetwise
    <3>1. Covers(served'[o], committed[o]) /\ Covers(served'[o], marked[o]) /\ Covers(served'[o], inflight[o])
      BY <2>3, <2>4, CoversGrow DEF Coverage, Offsetwise, Types
    <3> QED
      BY <2>1, <2>3, <3>1 DEF Types
  <2>5. ASSUME restoring PROVE p \notin assigned
    BY <2>1, <2>5 DEF Fence
  <2>6. restoring => Messagewise'
    BY <2>1, <2>3, <2>5 DEF Coverage, Messagewise, Types
  <2>7. ASSUME restoring, ~Stopped, NEW o \in assigned PROVE InOrder(o)'
    BY <2>1, <2>3, <2>5, <2>7 DEF Coverage, InOrder, Types
  <2> QED
    BY <2>1, <2>3, <2>4, <2>6, <2>7 DEF Coverage, Stopped
<1> QED
  BY <1>1, <1>2, <1>3, <1>4, <1>5, <1>6

LEMMA DrainCoverage ==
  ASSUME CInv, Stop \/ StopAgain \/ DrainLanes \/ DrainClose
  PROVE  Coverage'
<1> USE DEF CInv, IInv, consumerVars, fenceVars, laneVars, commitVars, history
<1>1. Stopped' /\ UNCHANGED <<restoring, assigned, epoch, rebalancing, marked, given, served, cancelling>>
  BY DEF Stop, StopAgain, DrainLanes, DrainClose, Stopped
<1>2. ASSUME NEW p \in Partitions
      PROVE  committed'[p] \in {committed[p], inflight[p]} /\ inflight'[p] \in {inflight[p], None}
  <2>1. CASE Stop
    BY <2>1 DEF Stop, AtBroker, NoOffsets, Types
  <2>2. CASE StopAgain \/ DrainLanes \/ DrainClose
    BY <2>2 DEF StopAgain, DrainLanes, DrainClose
  <2> QED
    BY <2>1, <2>2
<1> QED
  BY <1>1, <1>2, CoversNothing DEF Coverage, Offsetwise, Messagewise

LEMMA StepCoverage == CInv /\ Prefetch = 1 /\ [Next]_vars => CInv'
<1> SUFFICES ASSUME CInv, Prefetch = 1, [Next]_vars PROVE CInv'
  OBVIOUS
<1>1. IInv'
  BY StepIInv DEF CInv
<1>2. CASE UNCHANGED vars
  BY <1>1, <1>2 DEF vars, consumerVars, fenceVars, laneVars, commitVars, history, CInv, Coverage, Offsetwise,
                    Messagewise, InOrder, Stopped
<1>3. CASE Next
  BY <1>1, <1>3, DeliverCoverage, LaneCoverage, CommitCoverage, RebalanceCoverage, DrainCoverage DEF Next, CInv
<1> QED
  BY <1>2, <1>3

(* datasource/kafka/aiokafkads.py (_drain, _flush_marked_offsets): when    *)
(* the consumer is closed every mark of a running handler is committed,    *)
(* for any prefetch; and with checkpoints and the one record that a lane   *)
(* of the code has (_partition_prefetch = 1) a record is committed only    *)
(* when it and all before it have been handled.                            *)
THEOREM NoCommitLosesAMessage == Spec => [](ClosedIsCommitted /\ (Prefetch = 1 => CommitsSound))
<1>1. Init => PInv
  <2> SUFFICES ASSUME Init PROVE Payment /\ Dropped
    BY InitIInv DEF PInv
  <2> QED
    BY DEF Init, Payment, Dropped, NoOffsets, None
<1>2. PInv /\ [Next]_vars => PInv'
  BY StepPayment
<1>3. PInv => ClosedIsCommitted
  BY DEF PInv, IInv, Types, Payment, ClosedIsCommitted
<1>4. Init => CInv
  <2> SUFFICES ASSUME Init PROVE Coverage
    BY InitIInv DEF CInv
  <2>1. served = [p \in Partitions |-> {}] /\ given = {} /\ assigned = {} /\ cancelling = {}
    BY DEF Init
  <2>2. \A p \in Partitions : committed[p] = 0 /\ marked[p] = None /\ inflight[p] = None
    BY DEF Init, NoOffsets
  <2> QED
    BY <2>1, <2>2, CoversNothing DEF Coverage, Offsetwise, Messagewise
<1>5. (Prefetch = 1 => CInv) /\ [Next]_vars => (Prefetch = 1 => CInv)'
  BY StepCoverage
<1>6. ClosedIsCommitted /\ (Prefetch = 1 => CInv) => ClosedIsCommitted /\ (Prefetch = 1 => CommitsSound)
  BY DEF CInv, Coverage, Offsetwise, CommitCovers, Covers, CommitsSound
<1> QED
  BY <1>1, <1>2, <1>3, <1>4, <1>5, <1>6, PTL DEF Spec

-----------------------------------------------------------------------------
(* The slots: SlotsUsed, and what it counts.                               *)
SlotInv ==
  /\ lane \in [Partitions -> LaneStates] /\ active \in Nat
  /\ SlotsUsed

(* The handlers can be counted. *)
LEMMA HandlingFinite == IsFiniteSet(Handling)
BY KafkaAssumption, FS_Subset DEF Handling

(* The lanes that may have begun to wait, or stopped handling, are told    *)
(* apart from those that were notified.                                    *)
LEMMA SlotKept ==
  ASSUME SlotInv, lane' \in [Partitions -> LaneStates], active' = active,
         \A o \in Partitions : \/ lane'[o] = lane[o] /\ phase' = phase
                               \/ (lane'[o] = "handling" <=> lane[o] = "handling") /\ lane'[o] # "waiting"
  PROVE  SlotInv'
<1>1. Handling' = Handling
  BY DEF Handling, SlotInv
<1>2. active' = Cardinality(Handling') /\ (Limit # 0 => active' <= Limit)
  BY <1>1 DEF SlotInv, SlotsUsed
<1>3. ASSUME NEW o \in Partitions, lane'[o] = "waiting" PROVE ~Stopped' /\ Limit # 0 /\ active' = Limit
  BY <1>3 DEF SlotInv, SlotsUsed, Stopped
<1> QED BY <1>2, <1>3 DEF SlotInv, SlotsUsed

(* A slot is given back, and everybody who waits is told. *)
LEMMA SlotGivenBack ==
  ASSUME SlotInv, NEW p \in Partitions, lane[p] = "handling", active' = active - 1,
         NEW x \in LaneStates \ {"handling", "waiting"}, lane' = [Notified EXCEPT ![p] = x]
  PROVE  SlotInv'
<1>1. p \in Handling /\ Handling' = Handling \ {p}
  BY DEF Handling, SlotInv, Notified, LaneStates
<1>2. /\ Cardinality(Handling \ {p}) = Cardinality(Handling) - 1 /\ Cardinality(Handling) \in Nat
      /\ Cardinality(Handling \ {p}) \in Nat
  BY <1>1, HandlingFinite, FS_RemoveElement, FS_CardinalityType
<1>3. active' \in Nat /\ active' = Cardinality(Handling') /\ (Limit # 0 => active' <= Limit)
  BY <1>1, <1>2, KafkaAssumption DEF SlotInv, SlotsUsed
<1>4. \A o \in Partitions : lane'[o] # "waiting"
  BY DEF Notified, SlotInv, LaneStates
<1>5. lane' \in [Partitions -> LaneStates]
  BY DEF Notified, SlotInv, LaneStates
<1> QED BY <1>3, <1>4, <1>5 DEF SlotInv, SlotsUsed

(* A lane asks for a slot, and has it or waits for one: no other was free. *)
LEMMA SlotTaken ==
  ASSUME SlotInv, NEW p \in Partitions, lane[p] \in {"created", "woken"}, NEW h, Admit(p, h),
         ~Stopped, phase' = phase
  PROVE  SlotInv'
<1>1. CASE HasSlot
  <2>1. lane' = [lane EXCEPT ![p] = "handling"] /\ active' = active + 1
    BY <1>1 DEF Admit
  <2>2. p \notin Handling /\ Handling' = Handling \union {p}
    BY <2>1 DEF Handling, SlotInv
  <2>3. Cardinality(Handling') = Cardinality(Handling) + 1
    BY <2>2, HandlingFinite, FS_AddElement
  <2>4. active' \in Nat /\ active' = Cardinality(Handling') /\ (Limit # 0 => active' <= Limit)
    BY <1>1, <2>1, <2>3, KafkaAssumption DEF SlotInv, SlotsUsed, HasSlot
  <2>5. \A o \in Partitions : lane'[o] # "waiting"
    BY <1>1, <2>1, KafkaAssumption DEF SlotInv, SlotsUsed, HasSlot
  <2>6. lane' \in [Partitions -> LaneStates]
    BY <2>1 DEF SlotInv, LaneStates
  <2> QED BY <2>4, <2>5, <2>6 DEF SlotInv, SlotsUsed
<1>2. CASE ~HasSlot
  <2>1. lane' = [lane EXCEPT ![p] = "waiting"] /\ active' = active
    BY <1>2 DEF Admit
  <2>2. Handling' = Handling
    BY <2>1 DEF Handling, SlotInv
  <2>3. active' = Cardinality(Handling') /\ (Limit # 0 => active' <= Limit)
    BY <2>1, <2>2 DEF SlotInv, SlotsUsed
  <2>4. Limit # 0 /\ active' = Limit /\ ~Stopped'
    BY <1>2, <2>1, KafkaAssumption DEF SlotInv, SlotsUsed, HasSlot, Stopped
  <2>5. lane' \in [Partitions -> LaneStates]
    BY <2>1 DEF SlotInv, LaneStates
  <2> QED BY <2>1, <2>3, <2>4, <2>5 DEF SlotInv, SlotsUsed
<1> QED BY <1>1, <1>2

(* Every step keeps the slots.                                             *)
LEMMA SlotStep == PInv /\ SlotInv /\ [Next]_vars => SlotInv'
<1> SUFFICES ASSUME PInv, SlotInv, [Next]_vars PROVE SlotInv'
  OBVIOUS
<1> USE DEF LaneStates
<1>1. ASSUME NEW p \in Partitions, Deliver(p) PROVE SlotInv'
  <2>1. queue[p] = NoQueue => lane[p] = "none"
    BY KafkaAssumption DEF PInv, IInv, Lanes
  <2>2. /\ active' = active /\ phase' = phase
        /\ lane' = lane \/ (queue[p] = NoQueue /\ lane' = [lane EXCEPT ![p] = "created"])
    BY <1>1 DEF Deliver
  <2>3. lane' \in [Partitions -> LaneStates]
    BY <2>2 DEF SlotInv
  <2> QED BY <2>1, <2>2, <2>3, SlotKept DEF SlotInv
<1>2. ASSUME NEW p \in Partitions, LaneStep(p) PROVE SlotInv'
  <2>1. phase' = phase
    BY <1>2 DEF LaneStep, LaneStart, LaneRetry, LaneFinish, LaneRaise, LaneCancelled
  <2>2. ASSUME EndLane(p, lane), lane[p] # "handling", active' = active PROVE SlotInv'
    <3>1. lane' = [lane EXCEPT ![p] = "none"]
      BY <2>2 DEF EndLane
    <3>2. lane' \in [Partitions -> LaneStates]
      BY <3>1 DEF SlotInv
    <3> QED BY <2>1, <2>2, <3>1, <3>2, SlotKept DEF SlotInv
  <2>3. ASSUME EndLane(p, Notified), lane[p] = "handling", active' = active - 1 PROVE SlotInv'
    <3>1. lane' = [Notified EXCEPT ![p] = "none"]
      BY <2>3 DEF EndLane
    <3> QED BY <2>3, <3>1, SlotGivenBack
  <2>4. CASE LaneStart(p)
    BY <2>1, <2>2, <2>4, SlotTaken DEF LaneStart
  <2>5. CASE LaneRetry(p)
    BY <2>1, <2>2, <2>5, SlotTaken DEF LaneRetry
  <2>6. CASE LaneFinish(p)
    BY <2>3, <2>6, SlotGivenBack DEF LaneFinish
  <2>7. CASE LaneRaise(p)
    BY <2>3, <2>7 DEF LaneRaise
  <2>8. CASE LaneCancelled(p)
    <3>1. CASE lane[p] = "created"
      <4>1. lane' = [lane EXCEPT ![p] = "none"] /\ active' = active
        BY <2>8, <3>1 DEF LaneCancelled
      <4>2. lane' \in [Partitions -> LaneStates]
        BY <4>1 DEF SlotInv
      <4> QED BY <2>1, <3>1, <4>1, <4>2, SlotKept DEF SlotInv
    <3>2. CASE lane[p] \in {"waiting", "woken"}
      BY <2>2, <2>8, <3>2 DEF LaneCancelled
    <3>3. CASE lane[p] = "handling"
      BY <2>3, <2>8, <3>3 DEF LaneCancelled
    <3>4. lane[p] # "none"
      BY <2>8 DEF LaneCancelled, PInv, IInv, Lanes
    <3> QED BY <3>1, <3>2, <3>3, <3>4 DEF SlotInv
  <2> QED BY <1>2, <2>4, <2>5, <2>6, <2>7, <2>8 DEF LaneStep
<1>3. CASE Stop
  <2>1. lane' = Notified /\ active' = active
    BY <1>3 DEF Stop
  <2>2. lane' \in [Partitions -> LaneStates]
    BY <2>1 DEF SlotInv, Notified
  <2> QED BY <2>1, <2>2, SlotKept DEF SlotInv, Notified
<1>4. ASSUME UNCHANGED <<lane, active>>, phase' = phase \/ Stopped PROVE SlotInv'
  <2>1. Handling' = Handling
    BY <1>4 DEF Handling
  <2>2. \A o \in Partitions : lane[o] = "waiting" => phase' = phase
    BY <1>4 DEF SlotInv, SlotsUsed
  <2> QED BY <1>4, <2>1, <2>2 DEF SlotInv, SlotsUsed, Stopped
<1>5. ASSUME UNCHANGED laneVars, phase' = phase \/ Stopped PROVE SlotInv'
  BY <1>4, <1>5 DEF laneVars
<1>6. CASE (\E m \in given : Mark(m) \/ Commit(m)) \/ AutoFlush \/ CommitFails \/ DrainFlush \/ CommitDone
  <2>1. UNCHANGED laneVars
    BY <1>6 DEF Mark, Commit, AutoFlush, Flush, CommitFails, DrainFlush, CommitDone
  <2>2. phase' = phase \/ committer = "drain"
    BY <1>6 DEF Mark, Commit, AutoFlush, Flush, CommitFails, DrainFlush, CommitDone
  <2>3. committer = "drain" => Stopped
    BY DEF PInv, Payment, Stopped
  <2> QED BY <1>5, <2>1, <2>2, <2>3
<1>7. CASE \/ Revoke \/ Revoked \/ RestoreFails
           \/ \E S \in SUBSET Partitions : Join(S)
           \/ \E r \in [assignment -> Offsets] : Restore(r)
           \/ \E p \in Partitions, n \in Offsets : Elsewhere(p, n)
  <2>1. UNCHANGED <<lane, active>> /\ phase' = phase
    BY <1>7 DEF Revoke, Revoked, RestoreFails, Join, Restore, Elsewhere, laneVars
  <2> QED BY <1>4, <2>1
<1>8. CASE StopAgain \/ DrainLanes \/ DrainClose
  <2>1. UNCHANGED <<lane, active>> /\ Stopped
    BY <1>8 DEF StopAgain, DrainLanes, DrainClose, laneVars, Stopped
  <2> QED BY <1>4, <2>1
<1>9. CASE UNCHANGED vars
  BY <1>5, <1>9 DEF vars
<1> QED BY <1>1, <1>2, <1>3, <1>6, <1>7, <1>8, <1>9 DEF Next

(* Broker positions: a lane is never cancelled and a queue has its lane;   *)
(* what is paused is paused by a lane that is still there.                 *)
PauseInv ==
  /\ paused \subseteq assignment
  /\ ~restoring =>
       /\ cancelling = {}
       /\ \A p \in Partitions : queue[p] # NoQueue => lane[p] # "none"
  /\ PauseHasLane

(* A lane goes on, with a queue or without. *)
LEMMA PauseKept ==
  ASSUME IInv, PauseInv, UNCHANGED <<restoring, assignment>>, paused' \subseteq paused, held \subseteq held',
         ~restoring => cancelling' = {}, Stopped => Stopped',
         \A p \in Partitions : ~restoring /\ lane'[p] = "none" => lane[p] = "none" /\ queue'[p] = queue[p]
  PROVE  PauseInv'
<1>1. restoring' = restoring /\ assignment \subseteq Partitions
  BY DEF IInv, Types
<1> QED BY <1>1 DEF PauseInv, PauseHasLane

(* A lane that ends resumes its partition: what is left paused was not its *)
(* own.                                                                    *)
LEMMA PauseLaneEnds ==
  ASSUME IInv, PauseInv, NEW p \in Partitions, EndLane(p, lane) \/ EndLane(p, Notified),
         UNCHANGED <<restoring, assignment, phase>>
  PROVE  PauseInv'
<1>1. /\ held' = held \ {p} /\ cancelling' = cancelling \ {p} /\ queue' = [queue EXCEPT ![p] = NoQueue]
      /\ paused' = IF p \in held /\ ~Stopped /\ p \in assignment THEN paused \ {p} ELSE paused
  BY DEF EndLane, Resume
<1>2. DOMAIN queue = Partitions /\ lane \in [Partitions -> LaneStates]
  BY DEF IInv, Types
<1>3. \A o \in Partitions : o # p /\ lane[o] # "none" => lane'[o] # "none"
  BY <1>2 DEF EndLane, Notified
<1>4. Stopped' = Stopped
  BY DEF Stopped
<1>5. PauseHasLane'
  BY <1>1, <1>3, <1>4 DEF PauseInv, PauseHasLane, IInv, Types
<1> QED BY <1>1, <1>2, <1>3, <1>5 DEF PauseInv

(* Every step keeps the pauses.                                            *)
LEMMA PauseStep == PInv /\ PauseInv /\ [Next]_vars => PauseInv'
<1> SUFFICES ASSUME PInv, IInv, PauseInv, [Next]_vars PROVE PauseInv'
  BY DEF PInv
<1>0. lane \in [Partitions -> LaneStates] /\ DOMAIN queue = Partitions
  BY DEF IInv, Types
<1>1. ASSUME NEW p \in Partitions, Deliver(p) PROVE PauseInv'
  <2>1. UNCHANGED <<restoring, assignment, cancelling, phase>> /\ p \in assignment /\ Stopped' = Stopped
    BY <1>1 DEF Deliver, fenceVars, Stopped
  <2>2. \A o \in Partitions : lane[o] # "none" => lane'[o] # "none"
    BY <1>0, <1>1 DEF Deliver
  <2>3. CASE Admitted(p)
    <3>1. ~restoring => lane'[p] # "none"
      BY <1>0, <1>1, <2>3 DEF Deliver, PauseInv
    <3>2. \A o \in Partitions : o # p => queue'[o] = queue[o]
      BY <1>0, <1>1, <2>3 DEF Deliver
    <3>3. \/ UNCHANGED <<paused, held>>
          \/ paused' = paused \union {p} /\ held' = held \union {p}
      BY <1>1, <2>3 DEF Deliver
    <3> QED BY <2>1, <2>2, <3>1, <3>2, <3>3 DEF PauseInv, PauseHasLane, IInv, Types
  <2>4. CASE ~Admitted(p)
    <3>1. UNCHANGED <<queue, lane, paused, held>>
      BY <1>1, <2>4 DEF Deliver
    <3> QED BY <2>1, <3>1 DEF PauseInv, PauseHasLane
  <2> QED BY <2>3, <2>4
<1>2. ASSUME NEW p \in Partitions, LaneStep(p) PROVE PauseInv'
  <2>1. UNCHANGED <<restoring, assignment, phase>>
    BY <1>2 DEF LaneStep, LaneStart, LaneRetry, LaneFinish, LaneRaise, LaneCancelled, fenceVars
  <2>2. Stopped' = Stopped
    BY <2>1 DEF Stopped
  <2>3. ASSUME NEW o, Admit(p, o), UNCHANGED <<cancelling, held, paused>>,
               \A x \in Partitions : x # p => queue'[x] = queue[x]
        PROVE  PauseInv'
    <3>1. \A x \in Partitions : lane'[x] = "none" => lane[x] = "none" /\ x # p
      BY <1>0, <2>3 DEF Admit
    <3> QED BY <2>1, <2>2, <2>3, <3>1, PauseKept DEF PauseInv
  <2>4. CASE LaneStart(p) \/ LaneRetry(p)
    <3>1. CASE EndLane(p, lane)
      BY <2>1, <3>1, PauseLaneEnds
    <3>2. CASE ~EndLane(p, lane)
      <4>1. CASE LaneStart(p)
        <5>1. /\ queue' = [queue EXCEPT ![p] = Tail(@)]
              /\ Admit(p, Head(queue[p])) /\ UNCHANGED <<cancelling, held, paused>>
          BY <3>2, <4>1 DEF LaneStart
        <5>2. \A x \in Partitions : x # p => queue'[x] = queue[x]
          BY <1>0, <5>1
        <5> QED BY <2>3, <5>1, <5>2
      <4>2. CASE LaneRetry(p)
        <5>1. Admit(p, current[p]) /\ UNCHANGED <<queue, cancelling, held, paused>>
          BY <3>2, <4>2 DEF LaneRetry
        <5> QED BY <2>3, <5>1
      <4> QED BY <2>4, <4>1, <4>2
    <3> QED BY <3>1, <3>2
  <2>5. CASE LaneFinish(p) /\ queue[p] # <<>> /\ ~Stopped
    <3>1. \A x \in Partitions : lane'[x] = "none" => lane[x] = "none" /\ x # p
      BY <1>0, <2>5 DEF LaneFinish, Notified
    <3>2. \A x \in Partitions : x # p => queue'[x] = queue[x]
      BY <1>0, <2>5 DEF LaneFinish
    <3>3. UNCHANGED <<held, paused>> /\ cancelling' \subseteq cancelling
      BY <2>5 DEF LaneFinish
    <3> QED BY <2>1, <2>2, <3>1, <3>2, <3>3, PauseKept DEF PauseInv
  <2>6. CASE LaneFinish(p) /\ ~(queue[p] # <<>> /\ ~Stopped)
    BY <2>1, <2>6, PauseLaneEnds DEF LaneFinish
  <2>7. CASE LaneRaise(p)
    BY <2>1, <2>7, PauseLaneEnds DEF LaneRaise
  <2>8. CASE LaneCancelled(p)
    <3>1. restoring
      BY <2>8 DEF LaneCancelled, PauseInv
    <3>2. lane[p] \in {"created", "waiting", "woken", "handling"}
      BY <1>0, <2>8 DEF LaneCancelled, LaneStates, Lanes, IInv
    <3>3. paused' \subseteq paused
      <4>1. CASE lane[p] = "created"
        BY <2>8, <4>1 DEF LaneCancelled
      <4>2. CASE lane[p] \in {"waiting", "woken"}
        BY <2>8, <4>2 DEF LaneCancelled, EndLane, Resume
      <4>3. CASE lane[p] = "handling"
        BY <2>8, <4>3 DEF LaneCancelled, EndLane, Resume
      <4> QED BY <3>2, <4>1, <4>2, <4>3
    <3> QED BY <2>1, <3>1, <3>3 DEF PauseInv, PauseHasLane
  <2> QED BY <1>2, <2>4, <2>5, <2>6, <2>7, <2>8 DEF LaneStep
<1>3. CASE Stop
  <2>1. Stopped' /\ UNCHANGED <<restoring, assignment, paused, cancelling, queue>>
    BY <1>3 DEF Stop, Stopped, consumerVars, fenceVars
  <2>2. \A o \in Partitions : lane'[o] = "none" => lane[o] = "none"
    BY <1>0, <1>3 DEF Stop, Notified
  <2> QED BY <2>1, <2>2 DEF PauseInv, PauseHasLane
<1>4. ASSUME UNCHANGED <<restoring, assignment, paused, laneVars>>, Stopped => Stopped' PROVE PauseInv'
  BY <1>4 DEF PauseInv, PauseHasLane, laneVars
<1>5. CASE (\E m \in given : Mark(m) \/ Commit(m)) \/ AutoFlush \/ CommitFails \/ DrainFlush \/ CommitDone
  <2>1. UNCHANGED <<restoring, assignment, paused, laneVars>>
    BY <1>5 DEF Mark, Commit, AutoFlush, Flush, CommitFails, DrainFlush, CommitDone, consumerVars, fenceVars
  <2>2. phase' = phase \/ (committer = "drain" /\ phase' # "open")
    BY <1>5 DEF Mark, Commit, AutoFlush, Flush, CommitFails, DrainFlush, CommitDone
  <2> QED BY <1>4, <2>1, <2>2 DEF Stopped
<1>6. CASE StopAgain \/ DrainLanes \/ DrainClose
  BY <1>6 DEF StopAgain, DrainLanes, DrainClose, Stopped, consumerVars, fenceVars, laneVars,
       PauseInv, PauseHasLane
<1>7. CASE Revoke
  BY <1>7 DEF Revoke, PauseInv, PauseHasLane, Stopped
<1>8. ASSUME NEW S \in SUBSET Partitions, Join(S) PROVE PauseInv'
  BY <1>8 DEF Join, PauseInv, PauseHasLane, laneVars
<1>9. CASE \/ Revoked \/ RestoreFails
           \/ \E r \in [assignment -> Offsets] : Restore(r)
           \/ \E p \in Partitions, n \in Offsets : Elsewhere(p, n)
  <2>1. UNCHANGED <<restoring, assignment, paused, laneVars, phase>>
    BY <1>9 DEF Revoked, RestoreFails, Restore, Elsewhere, consumerVars, fenceVars
  <2> QED BY <1>4, <2>1 DEF Stopped
<1>10. CASE UNCHANGED vars
  BY <1>4, <1>10 DEF vars, consumerVars, fenceVars, Stopped
<1> QED BY <1>1, <1>2, <1>3, <1>5, <1>6, <1>7, <1>8, <1>9, <1>10 DEF Next

(* The lanes of an endpoint, for any partitions, any limit and any prefetch:  *)
(* in checkpoint mode none works for an assignment that is over; no more      *)
(* handlers run than may, and none waits beside a free slot, whichever lanes  *)
(* fail, end or are cancelled; with broker positions a paused partition has a *)
(* lane that will resume it.                                                  *)
THEOREM LanesServe == Spec => []LanesSound
<1>1. Init => PInv
  <2> SUFFICES ASSUME Init PROVE Payment /\ Dropped
    BY InitIInv DEF PInv
  <2> QED BY DEF Init, Payment, Dropped, NoOffsets, None
<1>2. Init => SlotInv
  <2> SUFFICES ASSUME Init PROVE SlotInv
    OBVIOUS
  <2>1. lane = [p \in Partitions |-> "none"] /\ active = 0
    BY DEF Init
  <2>2. Handling = {}
    BY <2>1 DEF Handling
  <2> QED BY <2>1, <2>2, FS_EmptySet, KafkaAssumption DEF SlotInv, SlotsUsed, LaneStates
<1>3. Init => PauseInv
  BY DEF Init, PauseInv, PauseHasLane
<1>4. PInv /\ SlotInv /\ PauseInv => LanesSound
  BY DEF PInv, IInv, Fence, NoStaleHandler, SlotInv, PauseInv, LanesSound
<1> QED BY <1>1, <1>2, <1>3, <1>4, StepPayment, SlotStep, PauseStep, PTL DEF Spec
=============================================================================
