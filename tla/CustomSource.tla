---------------------------- MODULE CustomSource ----------------------------
(***************************************************************************)
(* Admission in the custom source (datasource/localsource/custom.py):      *)
(* consume() applies the handler's concurrency limit with a semaphore that *)
(* it replaces when the limit changes, and stop() waits for the requests   *)
(* it knows.  A request is what RequestSource models, here one task.       *)
(*                                                                         *)
(* External: asyncio.Semaphore (a slot is handed to the first waiter,      *)
(* which takes it when it runs) and the producer, which may call consume() *)
(* from several tasks.                                                     *)
(***************************************************************************)
EXTENDS Integers, FiniteSets, Sequences

CONSTANTS Calls,      (* the calls of consume() *)
          Limits,     (* what concurrency() may return; 0 is unlimited *)
          MaxChanges  (* bound: how often it changes *)

VARIABLES
  stopped,     \* _stopped
  limit,       \* what the handler's concurrency() returns
  changes,     \* how often that changed
  semaphore,   \* _semaphore: a number; 0 is None
  sized,       \* _concurrency_limit
  value,       \* the free slots of each semaphore ever made
  waiters,     \* the calls that wait for one, in order, and
  granted,     \* those that were handed one and have not run
  call,        \* how far each call of consume() has come
  held,        \* the semaphore its task will release; 0 for none
  tasks,       \* _tasks
  snapshot,    \* the tasks stop() gathers
  stopping     \* "no", "gathering" or "returned"

vars == <<stopped, limit, changes, semaphore, sized, value, waiters, granted,
          call, held, tasks, snapshot, stopping>>

Made == 0 .. MaxChanges + 1

CallStates == {"new", "refused", "waiting", "running", "over"}

Init ==
  /\ stopped = FALSE /\ stopping = "no"
  /\ limit \in Limits /\ changes = 0
  /\ semaphore = 0 /\ sized = 0
  /\ value = [i \in Made |-> 0] /\ waiters = [i \in Made |-> <<>>]
  /\ granted = [i \in Made |-> {}]
  /\ call = [c \in Calls |-> "new"] /\ held = [c \in Calls |-> 0]
  /\ tasks = {} /\ snapshot = {}

(* The handler's limit follows its configuration. *)
ChangeLimit(n) ==
  /\ n # limit /\ changes < MaxChanges
  /\ limit' = n /\ changes' = changes + 1
  /\ UNCHANGED <<stopped, semaphore, sized, value, waiters, granted, call, held, tasks, snapshot, stopping>>

(* create_task of the request, which will release semaphore i. *)
Launch(c, i) ==
  /\ call' = [call EXCEPT ![c] = "running"]
  /\ held' = [held EXCEPT ![c] = i]
  /\ tasks' = tasks \union {c}

Refuse(c) ==
  /\ call[c] = "new" /\ stopped
  /\ call' = [call EXCEPT ![c] = "refused"]
  /\ UNCHANGED <<stopped, limit, changes, semaphore, sized, value, waiters, granted, held, tasks, snapshot, stopping>>

ConsumeUnlimited(c) ==
  /\ call[c] = "new" /\ ~stopped /\ limit = 0
  /\ Launch(c, 0)
  /\ UNCHANGED <<stopped, limit, changes, semaphore, sized, value, waiters, granted, snapshot, stopping>>

Outdated == semaphore = 0 \/ sized # limit

(* consume() up to the await of acquire(), or through it when a slot is free. *)
Consume(c) ==
  /\ call[c] = "new" /\ ~stopped /\ limit > 0
  /\ LET i == IF Outdated THEN semaphore + 1 ELSE semaphore
         free == IF Outdated THEN limit ELSE value[i]
     IN /\ i \in Made
        /\ semaphore' = i /\ sized' = limit
        /\ IF free > 0 /\ waiters[i] = <<>> /\ granted[i] = {}
             THEN /\ value' = [value EXCEPT ![i] = free - 1]
                  /\ Launch(c, i)
                  /\ UNCHANGED waiters
             ELSE /\ value' = [value EXCEPT ![i] = free]
                  /\ waiters' = [waiters EXCEPT ![i] = Append(@, c)]
                  /\ call' = [call EXCEPT ![c] = "waiting"]
                  /\ UNCHANGED <<held, tasks>>
  /\ UNCHANGED <<stopped, limit, changes, granted, snapshot, stopping>>

(* The acquire() of a call that was handed a slot of semaphore i returns,  *)
(* and hands free slots to those that came to wait behind it; consume()    *)
(* then reads _semaphore again, whatever it is by now.                     *)
Resume(c, i) ==
  /\ c \in granted[i]
  /\ LET n == IF value[i] < Len(waiters[i]) THEN value[i] ELSE Len(waiters[i])
     IN /\ value' = [value EXCEPT ![i] = @ - n]
        /\ waiters' = [waiters EXCEPT ![i] = SubSeq(@, n + 1, Len(@))]
        /\ granted' = [granted EXCEPT ![i] = (@ \ {c}) \union {waiters[i][j] : j \in 1 .. n}]
  /\ Launch(c, semaphore)
  /\ UNCHANGED <<stopped, limit, changes, semaphore, sized, snapshot, stopping>>

HandOn(i) ==
  /\ waiters[i] # <<>>
  /\ granted' = [granted EXCEPT ![i] = @ \union {Head(waiters[i])}]
  /\ waiters' = [waiters EXCEPT ![i] = Tail(@)]

ReleaseTwice(i) ==   \* Fault: the slot is counted free and handed on
  /\ value' = [value EXCEPT ![i] = @ + 1]
  /\ HandOn(i) \/ (waiters[i] = <<>> /\ UNCHANGED <<waiters, granted>>)

(* release() *)
Release(i) ==
  \/ i = 0 /\ UNCHANGED <<value, waiters, granted>>
  \/ i # 0 /\ HandOn(i) /\ UNCHANGED value
  \/ /\ i # 0 /\ waiters[i] = <<>>
     /\ value' = [value EXCEPT ![i] = @ + 1] /\ UNCHANGED <<waiters, granted>>

RequestEnds(c) ==
  /\ call[c] = "running"
  /\ call' = [call EXCEPT ![c] = "over"]
  /\ tasks' = tasks \ {c}
  /\ Release(held[c])
  /\ UNCHANGED <<stopped, limit, changes, semaphore, sized, held, snapshot, stopping>>

StopCalled ==
  /\ ~stopped
  /\ stopped' = TRUE
  /\ snapshot' = tasks
  /\ stopping' = "gathering"
  /\ UNCHANGED <<limit, changes, semaphore, sized, value, waiters, granted, call, held, tasks>>

(* The producer's runner has returned once no call of consume() waits. *)
RunnerDone == \A c \in Calls : call[c] # "waiting"

StopReturns ==
  /\ stopping = "gathering"
  /\ RunnerDone /\ \A c \in snapshot : call[c] = "over"
  /\ stopping' = "returned"
  /\ UNCHANGED <<stopped, limit, changes, semaphore, sized, value, waiters, granted, call, held, tasks, snapshot>>

Next ==
  \/ \E n \in Limits : ChangeLimit(n)
  \/ \E c \in Calls :
       \/ Refuse(c) \/ ConsumeUnlimited(c) \/ Consume(c) \/ RequestEnds(c)
       \/ \E i \in Made : Resume(c, i)
  \/ StopCalled \/ StopReturns

Spec == Init /\ [][Next]_vars

-----------------------------------------------------------------------------
TypeOK ==
  /\ stopped \in BOOLEAN /\ limit \in Limits /\ changes \in 0 .. MaxChanges
  /\ semaphore \in Made /\ sized \in Limits \union {0}
  /\ value \in [Made -> Nat] /\ waiters \in [Made -> Seq(Calls)]
  /\ granted \in [Made -> SUBSET Calls] /\ call \in [Calls -> CallStates] /\ held \in [Calls -> Made]
  /\ tasks \subseteq Calls /\ snapshot \subseteq Calls
  /\ stopping \in {"no", "gathering", "returned"}

(* While the handler's limit stays what it is, no more requests run than   *)
(* it allows, and no call waits while a slot is free, unless a call that   *)
(* was handed one has yet to return from acquire() and to hand on.         *)
LimitHeld ==
  changes = 0 /\ limit > 0 =>
    LET handed == UNION {granted[i] : i \in Made}
    IN /\ Cardinality(tasks) + Cardinality(handed) <= limit
       /\ Cardinality(tasks) < limit /\ handed = {} => \A c \in Calls : call[c] # "waiting"
=============================================================================
