---------------------------- MODULE MCPrimitives ----------------------------
(***************************************************************************)
(* One instance of each primitive the runtime is built on, and of the life *)
(* cycle of a Kafka source, side by side: subject says which of them       *)
(* moves, the others stay in one initial state.                            *)
(***************************************************************************)
EXTENDS AsyncRWLock, Sequences, TLC

CONSTANTS
  Entries, Priorities,               (* IndexedHeap: tasks, numbered from 1 *)
  Registrations, Events, NoEvent, MaxTime,  (* ContextWatches *)
  Depth, Subscribers,                (* CancelContext *)
  Threads, Tasks, Sentinel,          (* ThreadPool *)
  Byte, Wide, Prefixes,              (* IntegerSerde *)
  Count, Stoppers                    (* KafkaLifecycle *)

ASSUME EntriesAssumption == Entries = 1 .. Cardinality(Entries)
(* Lowest, below every number here, stands for the minus infinity of promote. *)
ASSUME PrioritiesAssumption == Priorities \subseteq Nat
ASSUME WatchesAssumption == NoEvent \notin Events /\ MaxTime \in Nat
ASSUME ContextAssumption ==
  Depth \in Nat \ {0} /\ Subscribers \intersect {"idle", "flagged", "calling"} = {}
ASSUME ThreadAssumption ==
  /\ IsFiniteSet(Threads) /\ Threads # {}
  /\ Sentinel \notin Tasks /\ Tasks \intersect {"clearing", "getting", "waiting", "over"} = {}
(* A byte has a sign bit. *)
ASSUME ByteAssumption ==
  Byte \in Nat \ {0} /\ Byte % 2 = 0 /\ Wide \in Nat \ {0} /\ Prefixes \subseteq Seq(Nat)

VARIABLES
  subject,
  items, positions, counter, content,
  now, set, event, deadline, callbacks, groups, deadlines, armed, timer, outcome,
  cancelled, table, claim, calls, at, left, canceller,
  queue, stopped, owner, wakes, available, threadAt, accepted, finished,
  type, value, prefix, buffer, decoded,
  starter, halting, startTask, startFails, abandoned, admin, active,
  drain, unstopped, failing, stopper,
  halted, launch, dropped, transport, loops, lanes, spoilt, winding

heapVars == <<items, positions, counter, content>>
watchVars == <<now, set, event, deadline, callbacks, groups, deadlines, armed, timer, outcome>>
contextVars == <<cancelled, table, claim, calls, at, left, canceller>>
threadVars == <<queue, stopped, owner, wakes, available, threadAt, accepted, finished>>
integerVars == <<type, value, prefix, buffer, decoded>>
kafkaVars == <<starter, halting, startTask, startFails, abandoned, admin, active,
               drain, unstopped, failing, stopper,
               halted, launch, dropped, transport, loops, lanes, spoilt, winding>>

Heap == INSTANCE IndexedHeap WITH Tasks <- Entries

Watches == INSTANCE ContextWatches WITH Tasks <- Registrations

Context == INSTANCE CancelContext

ThreadPool == INSTANCE ThreadPool WITH at <- threadAt

Codec == INSTANCE IntegerSerde

Kafka == INSTANCE KafkaLifecycle WITH stopped <- halting, left <- unstopped

MCInit ==
  /\ subject \in {"lock", "heap", "watches", "context", "threads", "integers", "kafka"}
  /\ Init /\ Heap!Init /\ Watches!Init /\ Context!Init /\ ThreadPool!Init /\ Codec!Init /\ Kafka!Init
  /\ subject # "integers" => type = "int8" /\ value = 0 /\ prefix = CHOOSE p \in Prefixes : TRUE

LockNext ==
  subject = "lock" /\ Next
    /\ UNCHANGED <<subject, heapVars, watchVars, contextVars, threadVars, integerVars, kafkaVars>>

(* Tasks are interchangeable: they are pushed in the order of their names. *)
HeapNext ==
  /\ subject = "heap" /\ Heap!Next
  /\ counter' > counter => counter' \in Entries /\ positions'[counter'] # 0
  /\ UNCHANGED <<subject, vars, watchVars, contextVars, threadVars, integerVars, kafkaVars>>

WatchesNext ==
  subject = "watches" /\ Watches!Next
    /\ UNCHANGED <<subject, vars, heapVars, contextVars, threadVars, integerVars, kafkaVars>>

ContextNext ==
  subject = "context" /\ Context!Next
    /\ UNCHANGED <<subject, vars, heapVars, watchVars, threadVars, integerVars, kafkaVars>>

ThreadsNext ==
  subject = "threads" /\ ThreadPool!Next
    /\ UNCHANGED <<subject, vars, heapVars, watchVars, contextVars, integerVars, kafkaVars>>

IntegersNext ==
  subject = "integers" /\ Codec!Next
    /\ UNCHANGED <<subject, vars, heapVars, watchVars, contextVars, threadVars, kafkaVars>>

KafkaNext ==
  subject = "kafka" /\ Kafka!Next
    /\ UNCHANGED <<subject, vars, heapVars, watchVars, contextVars, threadVars, integerVars>>

MCNext == LockNext \/ HeapNext \/ WatchesNext \/ ContextNext \/ ThreadsNext \/ IntegersNext \/ KafkaNext

SomePrefixes == {<<>>, <<1>>}

MCSpec ==
  MCInit /\ [][MCNext]_<<subject, vars, heapVars, watchVars, contextVars, threadVars, integerVars, kafkaVars>>

(* Threads are scheduled from the start, but only where they move. *)
MCFairSpec ==
  /\ MCSpec /\ Fairness
  /\ WF_watchVars(Watches!Expire) /\ \A e \in Events : WF_watchVars(Watches!Waiter(e))
  /\ WF_threadVars(ThreadPool!Wake) /\ WF_threadVars(ThreadPool!Join)
  /\ Kafka!Fairness
  /\ \A t \in Threads : WF_threadVars(subject = "threads" /\ ThreadPool!Run(t))

(* IndexedHeap's: no parent is after its child and positions names the     *)
(* place of every task, also after a removal from the middle.              *)
HeapSound == Heap!HeapOrdered /\ Heap!PositionsExact /\ Heap!ContentKept

(* ContextWatches's: a task is told when its request has ended, unless it  *)
(* was removed, and not before.                                            *)
EndIsNoticed == Watches!NotifiedForCause /\ Watches!EndIsNoticed

(* CancelContext's: a callback runs once for any number of cancellations.  *)
(* ContextWatches's: the end of a registered task's request is watched.    *)
CancelNoticed == Context!CancelNoticed /\ Watches!EndsWatched

(* IntegerSerde's: an integer is read back as it was written, and the      *)
(* bytes sort as the integers do.                                          *)
IntegersSound == Codec!ReadsBack /\ Codec!SortsAsNumber

(* KafkaLifecycle's: when a stop() returns nothing is left of what start() *)
(* has begun. ThreadPool's: when aclose() returns every task has run and   *)
(* no thread is left, and till then none sleeps beside a queued task.      *)
Released == Kafka!Released /\ ThreadPool!ClosedRanAll /\ ThreadPool!NoneSleeps

(* ThreadPool's: every accepted task runs and a closed pool ends; and      *)
(* KafkaLifecycle's: every stop() ends.                                    *)
ClosedEnds == ThreadPool!AddedRuns /\ Kafka!StopEnds
=============================================================================
