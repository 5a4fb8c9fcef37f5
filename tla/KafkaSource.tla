---------------------------- MODULE KafkaSource ----------------------------
(***************************************************************************)
(* One endpoint consumer of datasource/kafka/aiokafkads.py, started: the   *)
(* runner that reads records, one lane task per partition that dispatches  *)
(* them under the endpoint's concurrency limit, the marks that handlers    *)
(* leave and the flushes that commit them, the rebalance listener of       *)
(* checkpoint mode, and the drain.                                         *)
(*                                                                         *)
(* External: aiokafka (one consumer, its positions and pauses, the         *)
(* rebalances it goes through, the commits it sends), the broker, the      *)
(* other members of the group and the user's handler, which may keep its   *)
(* message and mark or commit it at any later time.                        *)
(***************************************************************************)
EXTENDS Integers, Sequences, FiniteSets

CONSTANTS Partitions,
          Last,           (* bound on the offsets *)
          Length,         (* partition p has the records 0 .. Length[p] - 1 *)
          Limit,          (* handler.concurrency(), 0 for no limit *)
          Prefetch,       (* _partition_prefetch *)
          MaxRebalances,  (* bound on the rebalances *)
          NoQueue

ASSUME KafkaAssumption ==
  /\ IsFiniteSet(Partitions)
  /\ Last \in Nat /\ Length \in [Partitions -> 0 .. Last]
  /\ Limit \in Nat /\ Prefetch \in Nat \ {0} /\ MaxRebalances \in Nat
  /\ NoQueue \notin Seq(Int)

None == -1
Offsets == 0 .. Last
Epochs == 0 .. 2 * MaxRebalances + 2
Message == [partition: Partitions, offset: Offsets, epoch: Epochs]
NoOffsets == [p \in Partitions |-> None]

VARIABLES
  restoring,                          \* _restoring, set once by _start
  assignment, position, paused,       \* of the aiokafka consumer
  rebalancing, rebalances,            \* where its coordinator is, and how often
  committed,                          \* the group's offsets at the broker
  assigned, epoch, failed,            \* _assigned_partitions, _assignment_epochs, _checkpoint_error
  queue, lane, current, cancelling,   \* _partition_queues, _partition_tasks, cancelled lanes
  held, active,                       \* _paused_partitions, _active_count
  given,                              \* the ConsumerMessages handlers have had
  marked,                             \* _marked_offsets
  committer, inflight,                \* who has _commit_lock, what it commits
  errors, phase,                      \* _message_errors, _stopped and the drain
  served, restored, owed              \* history, see below

consumerVars == <<assignment, position, paused, rebalancing, rebalances>>
fenceVars == <<restoring, assigned, epoch, failed>>
laneVars == <<queue, lane, current, cancelling, held, active, errors>>
commitVars == <<committed, marked, committer, inflight>>
history == <<served, restored, owed>>

vars == <<consumerVars, fenceVars, laneVars, commitVars, given, phase, history>>

(* served: the records some member's handler has had.  restored: where the *)
(* present assignment of a partition began.  owed: the last mark that a    *)
(* running handler made and no commit has covered.                         *)
Init ==
  /\ restoring \in BOOLEAN
  /\ assignment = {} /\ paused = {} /\ rebalancing = "joining" /\ rebalances = 0
  /\ position = [p \in Partitions |-> 0] /\ committed = [p \in Partitions |-> 0]
  /\ assigned = {} /\ failed = FALSE /\ epoch = [p \in Partitions |-> 0]
  /\ queue = [p \in Partitions |-> NoQueue] /\ lane = [p \in Partitions |-> "none"]
  /\ current = NoOffsets /\ cancelling = {}
  /\ held = {} /\ active = 0 /\ given = {}
  /\ marked = NoOffsets /\ committer = "none" /\ inflight = NoOffsets
  /\ errors = FALSE /\ phase = "open"
  /\ served = [p \in Partitions |-> {}]
  /\ restored = NoOffsets /\ owed = NoOffsets

Stopped == phase # "open"
Connected == phase \notin {"closed", "unclosed"}
Bigger(m, n) == IF m < n THEN n ELSE m

-----------------------------------------------------------------------------
(* Records and lanes.                                                      *)

Admitted(p) == restoring => ~failed /\ p \in assigned

(* One turn of _consume_loop: _process_record.  A record that is not       *)
(* admitted is dropped.                                                    *)
Deliver(p) ==
  /\ ~Stopped /\ ~failed
  /\ p \in assignment \ paused /\ position[p] < Length[p]
  /\ position' = [position EXCEPT ![p] = @ + 1]
  /\ IF Admitted(p)
       THEN LET q == Append(IF queue[p] = NoQueue THEN <<>> ELSE queue[p], position[p])
            IN /\ queue' = [queue EXCEPT ![p] = q]
               /\ lane' = IF queue[p] = NoQueue THEN [lane EXCEPT ![p] = "created"] ELSE lane
               /\ IF Len(q) >= Prefetch
                    THEN paused' = paused \union {p} /\ held' = held \union {p}
                    ELSE UNCHANGED <<paused, held>>
       ELSE UNCHANGED <<queue, lane, paused, held>>
  /\ UNCHANGED <<assignment, rebalancing, rebalances, current, cancelling, active, errors,
                 fenceVars, commitVars, given, phase, history>>

(* _resume_partition: the consumer keeps the pause of what it lost. *)
Resume(p) ==
  /\ held' = held \ {p}
  /\ paused' = IF p \in held /\ ~Stopped /\ p \in assignment THEN paused \ {p} ELSE paused

HasSlot == Limit = 0 \/ active < Limit

(* _acquire_concurrency by lane p, about to dispatch record o, and the     *)
(* head of _endpoint_request: the handler gets its message, with the epoch *)
(* that the message will be checked against.                               *)
Admit(p, o) ==
  /\ current' = [current EXCEPT ![p] = o]
  /\ IF HasSlot
       THEN /\ lane' = [lane EXCEPT ![p] = "handling"]
            /\ active' = active + 1
            /\ given' = given \union {[partition |-> p, offset |-> o, epoch |-> epoch[p]]}
            /\ served' = [served EXCEPT ![p] = @ \union {o}]
       ELSE /\ lane' = [lane EXCEPT ![p] = "waiting"]
            /\ UNCHANGED <<active, given, served>>

(* The finally of _run_partition, with the other lanes as l leaves them. *)
EndLane(p, l) ==
  /\ lane' = [l EXCEPT ![p] = "none"]
  /\ queue' = [queue EXCEPT ![p] = NoQueue]
  /\ current' = [current EXCEPT ![p] = None]
  /\ cancelling' = cancelling \ {p}
  /\ Resume(p)

(* Fault: the slot is given back and nobody is told. *)
NotNotified == lane

(* _release_concurrency: notify_all(). *)
Notified == [p \in Partitions |-> IF lane[p] = "waiting" THEN "woken" ELSE lane[p]]

(* _run_partition begins: it pops its first record and asks for a slot. *)
LaneStart(p) ==
  /\ lane[p] = "created" /\ p \notin cancelling
  /\ IF Stopped
       THEN EndLane(p, lane) /\ UNCHANGED <<active, given, served>>
       ELSE /\ queue' = [queue EXCEPT ![p] = Tail(@)]
            /\ Admit(p, Head(queue[p]))
            /\ UNCHANGED <<cancelling, held, paused>>
  /\ UNCHANGED <<assignment, position, rebalancing, rebalances, errors, fenceVars, commitVars,
                 phase, restored, owed>>

(* A lane that was notified, or whose next request begins, tries again. *)
LaneRetry(p) ==
  /\ lane[p] = "woken" /\ p \notin cancelling
  /\ IF Stopped
       THEN EndLane(p, lane) /\ UNCHANGED <<active, given, served>>
       ELSE Admit(p, current[p]) /\ UNCHANGED <<queue, cancelling, held, paused>>
  /\ UNCHANGED <<assignment, position, rebalancing, rebalances, errors, fenceVars, commitVars,
                 phase, restored, owed>>

(* The request ends and gives its slot back.  The lane goes on with the    *)
(* record behind it or ends.  If it was cancelled, the handler, or the     *)
(* wait for its result, has kept the cancellation to itself.               *)
LaneFinish(p) ==
  /\ lane[p] = "handling"
  /\ active' = active - 1
  /\ IF queue[p] # <<>> /\ ~Stopped
       THEN /\ queue' = [queue EXCEPT ![p] = Tail(@)]
            /\ current' = [current EXCEPT ![p] = Head(queue[p])]
            /\ lane' = [Notified EXCEPT ![p] = "woken"]
            /\ cancelling' = cancelling \ {p}
            /\ UNCHANGED <<held, paused>>
       ELSE EndLane(p, Notified)
  /\ UNCHANGED <<assignment, position, rebalancing, rebalances, errors, fenceVars, commitVars,
                 given, phase, history>>

(* end_request raises: the lane ends, and drops what is queued behind it. *)
LaneRaise(p) ==
  /\ lane[p] = "handling"
  /\ active' = active - 1
  /\ EndLane(p, Notified)
  /\ errors' = TRUE
  /\ UNCHANGED <<assignment, position, rebalancing, rebalances, fenceVars, commitVars,
                 given, phase, history>>

(* A lane cancelled by a revocation.  One that had not begun never enters  *)
(* its try, so that its finally does not run.                              *)
LaneCancelled(p) ==
  /\ p \in cancelling
  /\ CASE lane[p] = "created" ->
            /\ lane' = [lane EXCEPT ![p] = "none"]
            /\ cancelling' = cancelling \ {p}
            /\ errors' = TRUE
            /\ UNCHANGED <<queue, current, held, paused, active>>
       [] lane[p] \in {"waiting", "woken"} ->
            EndLane(p, lane) /\ UNCHANGED <<active, errors>>
       [] lane[p] = "handling" ->
            EndLane(p, Notified) /\ active' = active - 1 /\ UNCHANGED errors
  /\ UNCHANGED <<assignment, position, rebalancing, rebalances, fenceVars, commitVars,
                 given, phase, history>>

-----------------------------------------------------------------------------
(* Marks and commits.                                                      *)

(* Fault: the fence looks at the assignment and not at its epoch. *)
FreshByAssignment(m) == restoring => ~failed /\ m.partition \in assigned

(* current_assignment of a message. *)
Fresh(m) == restoring => /\ ~failed
                         /\ m.partition \in assigned
                         /\ m.epoch = epoch[m.partition]

(* mark_message, by its handler as it runs or by whoever kept the message. *)
Mark(m) ==
  /\ m \in given /\ Fresh(m)
  /\ LET p == m.partition
         n == m.offset + 1
     IN /\ marked' = [marked EXCEPT ![p] = Bigger(@, n)]
        /\ owed' = IF lane[p] = "handling" /\ current[p] = m.offset
                     THEN [owed EXCEPT ![p] = Bigger(@, n)] ELSE owed
  /\ UNCHANGED <<consumerVars, fenceVars, laneVars, committed, committer, inflight, given,
                 phase, served, restored>>

(* commit_message: it is fenced when it has the lock. *)
Commit(m) ==
  /\ m \in given /\ Fresh(m) /\ committer = "none" /\ Connected
  /\ committer' = "handler"
  /\ inflight' = [NoOffsets EXCEPT ![m.partition] = m.offset + 1]
  /\ UNCHANGED <<consumerVars, fenceVars, laneVars, committed, marked, given, phase, history>>

(* _flush_marked_offsets, every second until the drain and once in it. *)
Flush(who) ==
  /\ committer = "none" /\ marked # NoOffsets
  /\ committer' = who
  /\ inflight' = marked
  /\ UNCHANGED <<consumerVars, fenceVars, laneVars, committed, marked, given, history>>

AutoFlush == ~Stopped /\ Flush("loop") /\ UNCHANGED phase

Sent == {p \in Partitions : inflight[p] # None}

AtBroker == [p \in Partitions |-> IF p \in Sent THEN inflight[p] ELSE committed[p]]

(* The marks that a flush leaves behind. *)
Flushed == [p \in Partitions |-> IF p \in Sent /\ marked[p] <= inflight[p] THEN None
                                                                           ELSE marked[p]]

Paid == [p \in Partitions |-> IF p \in Sent /\ owed[p] <= inflight[p] THEN None ELSE owed[p]]

(* A commit is done.  aiokafka sends offsets of partitions it has.  The    *)
(* drain goes on to close the consumer, which may fail.                    *)
CommitDone ==
  /\ committer # "none" /\ Sent \subseteq assignment
  /\ committed' = AtBroker
  /\ IF committer = "handler" THEN UNCHANGED <<marked, owed>> ELSE marked' = Flushed /\ owed' = Paid
  /\ IF committer = "drain" THEN phase' \in {"closed", "unclosed"} ELSE UNCHANGED phase
  /\ committer' = "none" /\ inflight' = NoOffsets
  /\ UNCHANGED <<consumerVars, fenceVars, laneVars, given, served, restored>>

(* A commit fails: the marks stay, and so does the drain's transport. *)
CommitFails ==
  /\ committer # "none"
  /\ phase' = IF committer = "drain" THEN "failed" ELSE phase
  /\ committer' = "none" /\ inflight' = NoOffsets
  /\ UNCHANGED <<consumerVars, fenceVars, laneVars, committed, marked, given, history>>

-----------------------------------------------------------------------------
(* Rebalances: the group's, and the listener of checkpoint mode.           *)

(* aiokafka starts to join again; _checkpoint_revoked admits nothing more  *)
(* and cancels the lanes.                                                  *)
Revoke ==
  /\ restoring /\ Connected
  /\ rebalancing = "none" /\ rebalances < MaxRebalances
  /\ rebalancing' = "revoking" /\ rebalances' = rebalances + 1
  /\ assigned' = assigned \ assignment
  /\ epoch' = [p \in Partitions |-> IF p \in assignment THEN epoch[p] + 1 ELSE epoch[p]]
  /\ cancelling' = cancelling \union {p \in assignment : lane[p] # "none"}
  /\ UNCHANGED <<assignment, position, paused, restoring, failed, queue, lane, current, held,
                 active, errors, commitVars, given, phase, history>>

(* Fault: the lanes are cancelled and not waited for. *)
RevokedAtOnce ==
  /\ rebalancing = "revoking" /\ committer = "none"
  /\ rebalancing' = "joining"
  /\ marked' = [p \in Partitions |-> IF p \in assignment THEN None ELSE marked[p]]
  /\ owed' = [p \in Partitions |-> IF p \in assignment THEN None ELSE owed[p]]
  /\ UNCHANGED <<assignment, position, paused, rebalances, fenceVars, laneVars, committed,
                 committer, inflight, given, phase, served, restored>>

(* Its lanes are gone and it has the commit lock: the marks go. *)
Revoked ==
  /\ rebalancing = "revoking" /\ committer = "none"
  /\ \A p \in assignment : lane[p] = "none"
  /\ rebalancing' = "joining"
  /\ marked' = [p \in Partitions |-> IF p \in assignment THEN None ELSE marked[p]]
  /\ owed' = [p \in Partitions |-> IF p \in assignment THEN None ELSE owed[p]]
  /\ UNCHANGED <<assignment, position, paused, rebalances, fenceVars, laneVars, committed,
                 committer, inflight, given, phase, served, restored>>

(* The group assigns S: its positions are the committed ones, no pause is  *)
(* left of earlier.  Without a listener nothing else happens.              *)
Join(S) ==
  /\ Connected
  /\ IF restoring \/ rebalancing = "joining"
       THEN rebalancing = "joining" /\ UNCHANGED rebalances
       ELSE rebalances < MaxRebalances /\ rebalances' = rebalances + 1
  /\ rebalancing' = IF restoring THEN "assigning" ELSE "none"
  /\ assignment' = S
  /\ position' = [p \in Partitions |-> IF p \in S THEN committed[p] ELSE position[p]]
  /\ paused' = {}
  /\ assigned' = IF restoring THEN assigned \ S ELSE assigned
  /\ owed' = [p \in Partitions |-> IF p \in S THEN owed[p] ELSE None]
  /\ UNCHANGED <<restoring, epoch, failed, laneVars, commitVars, given, phase, served, restored>>

(* Fault: the consumer is left where the group has it. *)
RestoreInPlace(r) ==
  /\ rebalancing = "assigning"
  /\ ~failed /\ ~Stopped /\ committer = "none"
  /\ \A p \in assignment : 0 .. r[p] - 1 \subseteq served[p]
  /\ rebalancing' = "none"
  /\ assigned' = assigned \union assignment
  /\ LET Restored(old) == [p \in Partitions |-> IF p \in assignment THEN r[p] ELSE old[p]]
     IN marked' = Restored(marked) /\ restored' = Restored(restored)
  /\ epoch' = [p \in Partitions |-> IF p \in assignment THEN epoch[p] + 1 ELSE epoch[p]]
  /\ UNCHANGED <<assignment, position, paused, rebalances, restoring, failed, laneVars, committed, committer,
                 inflight, given, phase, served, owed>>

(* _checkpoint_assigned with r the checkpoint of the handler: the next     *)
(* offsets of a prefix that has been handled.                              *)
Restore(r) ==
  /\ rebalancing = "assigning"
  /\ ~failed /\ ~Stopped /\ committer = "none"
  /\ \A p \in assignment : 0 .. r[p] - 1 \subseteq served[p]
  /\ rebalancing' = "none"
  /\ assigned' = assigned \union assignment
  /\ LET Restored(old) == [p \in Partitions |-> IF p \in assignment THEN r[p] ELSE old[p]]
     IN position' = Restored(position) /\ marked' = Restored(marked) /\ restored' = Restored(restored)
  /\ epoch' = [p \in Partitions |-> IF p \in assignment THEN epoch[p] + 1 ELSE epoch[p]]
  /\ UNCHANGED <<assignment, paused, rebalances, restoring, failed, laneVars, committed, committer,
                 inflight, given, phase, served, owed>>

(* The restoration fails, or finds its owner cancelled: nothing is read    *)
(* any more.  After a failure every later call returns at once.            *)
RestoreFails ==
  /\ rebalancing = "assigning"
  /\ rebalancing' = "none"
  /\ failed' = TRUE
  /\ assigned' = {}
  /\ UNCHANGED <<assignment, position, paused, rebalances, restoring, epoch, laneVars,
                 commitVars, given, phase, history>>

(* Between rebalances another member reads a partition that this one does  *)
(* not have.                                                               *)
Elsewhere(p, n) ==
  /\ rebalancing = "none" /\ p \notin assignment /\ committed[p] < n /\ n <= Length[p]
  /\ committed' = [committed EXCEPT ![p] = n]
  /\ served' = [served EXCEPT ![p] = @ \union 0 .. n - 1]
  /\ UNCHANGED <<consumerVars, fenceVars, laneVars, marked, committer, inflight, given, phase,
                 restored, owed>>

-----------------------------------------------------------------------------
(* stop() and the drain.                                                   *)

(* _begin_shutdown, and _drain to where it waits for the lanes.  Nobody    *)
(* knows whether a commit of the cancelled loop has reached the broker.    *)
Stop ==
  /\ phase = "open"
  /\ phase' = "stopping"
  /\ lane' = Notified
  /\ IF committer = "loop"
       THEN /\ committer' = "none" /\ inflight' = NoOffsets
            /\ committed' \in IF Sent \subseteq assignment THEN {committed, AtBroker} ELSE {committed}
       ELSE UNCHANGED <<committer, inflight, committed>>
  /\ UNCHANGED <<consumerVars, fenceVars, queue, current, cancelling, held, active, errors, marked,
                 given, history>>

(* A stop() after a drain that failed begins another. *)
StopAgain ==
  /\ phase = "failed"
  /\ phase' = "stopping"
  /\ UNCHANGED <<consumerVars, fenceVars, laneVars, commitVars, given, history>>

(* The lanes are done.  What they failed with ends this drain. *)
DrainLanes ==
  /\ phase = "stopping" /\ \A p \in Partitions : lane[p] = "none"
  /\ phase' = IF errors THEN "failed" ELSE "flushing"
  /\ errors' = FALSE
  /\ UNCHANGED <<consumerVars, fenceVars, queue, lane, current, cancelling, held, active,
                 commitVars, given, history>>

DrainFlush == phase = "flushing" /\ Flush("drain") /\ UNCHANGED phase

(* Nothing is marked: the consumer is closed. *)
DrainClose ==
  /\ phase = "flushing" /\ committer # "drain" /\ marked = NoOffsets
  /\ phase' \in {"closed", "unclosed"}
  /\ UNCHANGED <<consumerVars, fenceVars, laneVars, commitVars, given, history>>

-----------------------------------------------------------------------------
LaneStep(p) ==
  LaneStart(p) \/ LaneRetry(p) \/ LaneFinish(p) \/ LaneRaise(p) \/ LaneCancelled(p)

Next ==
  \/ \E p \in Partitions : Deliver(p) \/ LaneStep(p)
  \/ \E m \in given : Mark(m) \/ Commit(m)
  \/ AutoFlush \/ CommitDone \/ CommitFails
  \/ Revoke \/ Revoked \/ RestoreFails
  \/ \E S \in SUBSET Partitions : Join(S)
  \/ \E r \in [assignment -> Offsets] : Restore(r)
  \/ \E p \in Partitions, n \in Offsets : Elsewhere(p, n)
  \/ Stop \/ StopAgain \/ DrainLanes \/ DrainFlush \/ DrainClose

Spec == Init /\ [][Next]_vars

(* The event loop runs the lanes, and handlers return. *)
FairSpec == Spec /\ \A p \in Partitions : WF_vars(LaneStep(p))

-----------------------------------------------------------------------------
Handling == {p \in Partitions : lane[p] = "handling"}

(* The values of the variables.  The slots in use are those of the lanes   *)
(* whose handler runs, and not more than the limit.                        *)
TypeOK ==
  /\ restoring \in BOOLEAN /\ failed \in BOOLEAN /\ errors \in BOOLEAN
  /\ assignment \subseteq Partitions /\ paused \subseteq assignment
  /\ position \in [Partitions -> Offsets] /\ committed \in [Partitions -> Offsets]
  /\ rebalancing \in {"none", "revoking", "joining", "assigning"}
  /\ rebalances \in 0 .. MaxRebalances
  /\ assigned \subseteq Partitions /\ epoch \in [Partitions -> Epochs]
  /\ \A p \in Partitions : queue[p] = NoQueue \/ queue[p] \in Seq(Offsets)
  /\ lane \in [Partitions -> {"none", "created", "waiting", "woken", "handling"}]
  /\ cancelling \subseteq Partitions /\ held \subseteq Partitions
  /\ active = Cardinality(Handling)
  /\ Limit # 0 => active <= Limit
  /\ given \subseteq Message
  /\ \A f \in {current, marked, inflight, restored, owed} :
       f \in [Partitions -> Offsets \union {None}]
  /\ committer \in {"none", "loop", "handler", "drain"}
  /\ phase \in {"open", "stopping", "flushing", "failed", "closed", "unclosed"}
  /\ served \in [Partitions -> SUBSET Offsets]

(* Checkpoint mode: outside a revocation a lane works on a partition that  *)
(* is assigned and restored, and its handler's message passes the fence.   *)
NoStaleHandler ==
  restoring /\ rebalancing # "revoking" =>
    \A p \in Partitions : lane[p] # "none" =>
      /\ p \in assigned
      /\ lane[p] = "handling" =>
           [partition |-> p, offset |-> current[p], epoch |-> epoch[p]] \in given

(* The handlers that run are counted and not more than the limit, and no   *)
(* lane waits while a slot is free, or after stop(), whichever lanes end,  *)
(* fail or are cancelled in between (_release_concurrency).                *)
SlotsUsed ==
  /\ active = Cardinality(Handling)
  /\ Limit # 0 => active <= Limit
  /\ \A p \in Partitions : lane[p] = "waiting" => ~Stopped /\ Limit # 0 /\ active = Limit

(* Broker positions: a paused partition has a lane, which will resume it   *)
(* when it ends, also after it left and returned (_resume_partition).      *)
PauseHasLane ==
  ~restoring /\ ~Stopped => \A p \in paused : p \in held /\ lane[p] # "none"

LanesSound == NoStaleHandler /\ SlotsUsed /\ PauseHasLane

(* Checkpoint mode: a record is committed, by this member, its periodic    *)
(* flush or its drain, only when it and all before it have been handled.   *)
CommitCovers ==
  restoring => \A p \in Partitions : 0 .. committed[p] - 1 \subseteq served[p]

(* Checkpoint mode: a commit of a partition belongs to the assignment that *)
(* is in force; nothing of an earlier one takes it back behind where this  *)
(* one was restored (_checkpoint_revoked, current_assignment).             *)
FencedCommits ==
  [][restoring => \A p \in assignment : committed'[p] # committed[p] =>
       rebalancing \in {"none", "revoking"} /\ restored[p] <= committed'[p]]_vars

(* When the source has closed its consumer, every mark that a handler made *)
(* as it ran is committed, whatever flushes failed or were cancelled, and  *)
(* unless the partition was taken away (_drain, _flush_marked_offsets).    *)
ClosedIsCommitted ==
  phase \in {"closed", "unclosed"} => \A p \in assignment : owed[p] = None

(* No commit of the source loses a message: neither a commit under way nor *)
(* the last one, at the close (_commit_marked_offsets, _drain).            *)
CommitsSound == CommitCovers /\ ClosedIsCommitted

(* Broker positions: a partition is not left paused (_resume_partition).   *)
PausedResumes ==
  \A p \in Partitions : ~restoring /\ p \in paused ~> p \notin paused \/ Stopped

(* A queue is emptied by its lane (the finally of _run_partition).         *)
QueueHasLane == \A p \in Partitions : queue[p] # NoQueue => lane[p] # "none"
=============================================================================
