----------------------------- MODULE ThreadPool -----------------------------
(***************************************************************************)
(* The pool of threads of runtime/pool/threadpool.py.  Each thread runs an *)
(* event loop of its own; the threads share one queue and are woken by     *)
(* callbacks on their loops.  Tasks are added, and the pool closed, on the *)
(* loop that owns the pool.                                                *)
(***************************************************************************)
EXTENDS Integers, Sequences, FiniteSets

CONSTANTS Threads, Tasks, Sentinel

VARIABLES
  queue,      \* _task_queue
  stopped,    \* _stopped
  owner,      \* the owner has put entries and not yet woken the threads
  wakes,      \* threads whose loop has a call of _available.set to make
  available,  \* threads whose _available is set
  at,         \* where each thread's _executor is
  accepted, finished  \* tasks

vars == <<queue, stopped, owner, wakes, available, at, accepted, finished>>

Init ==
  /\ queue = <<>> /\ stopped = FALSE /\ owner = "idle"
  /\ wakes = {} /\ available = {}
  /\ at = [t \in Threads |-> "clearing"]
  /\ accepted = {} /\ finished = {}

Become(t, a) == at' = [at EXCEPT ![t] = a]

(* add_task: put, then wake(); a stopped pool raises. *)
AddTask(k) ==
  /\ owner = "idle" /\ ~stopped /\ k \notin accepted
  /\ queue' = Append(queue, k)
  /\ accepted' = accepted \union {k}
  /\ owner' = "waking"
  /\ UNCHANGED <<stopped, wakes, available, at, finished>>

CloseOnce ==   \* Fault: one sentinel for all threads
  /\ owner = "idle" /\ ~stopped
  /\ stopped' = TRUE
  /\ queue' = Append(queue, Sentinel)
  /\ owner' = "waking"
  /\ UNCHANGED <<wakes, available, at, accepted, finished>>

(* aclose: a sentinel for each thread. *)
Close ==
  /\ owner = "idle" /\ ~stopped
  /\ stopped' = TRUE
  /\ queue' = queue \o [n \in 1 .. Cardinality(Threads) |-> Sentinel]
  /\ owner' = "waking"
  /\ UNCHANGED <<wakes, available, at, accepted, finished>>

Wake ==
  /\ owner = "waking"
  /\ wakes' = {t \in Threads : at[t] # "over"} \union wakes
  /\ owner' = IF stopped THEN "joining" ELSE "idle"
  /\ UNCHANGED <<queue, stopped, available, at, accepted, finished>>

Join ==
  /\ owner = "joining" /\ \A t \in Threads : at[t] = "over"
  /\ owner' = "closed"
  /\ UNCHANGED <<queue, stopped, wakes, available, at, accepted, finished>>

(* The loop of a thread runs the callback while its _executor awaits. *)
Set(t) ==
  /\ t \in wakes /\ at[t] \in {"waiting"} \union Tasks
  /\ wakes' = wakes \ {t}
  /\ available' = available \union {t}
  /\ UNCHANGED <<queue, stopped, owner, at, accepted, finished>>

-----------------------------------------------------------------------------
Clear(t) ==
  /\ at[t] = "clearing"
  /\ available' = available \ {t}
  /\ Become(t, "getting")
  /\ UNCHANGED <<queue, stopped, owner, wakes, accepted, finished>>

Get(t) ==
  /\ at[t] = "getting" /\ queue # <<>>
  /\ queue' = Tail(queue)
  /\ Become(t, IF Head(queue) = Sentinel THEN "over" ELSE Head(queue))
  /\ UNCHANGED <<stopped, owner, wakes, available, accepted, finished>>

Empty(t) ==
  /\ at[t] = "getting" /\ queue = <<>>
  /\ Become(t, "waiting")
  /\ UNCHANGED <<queue, stopped, owner, wakes, available, accepted, finished>>

Woken(t) ==
  /\ at[t] = "waiting" /\ t \in available
  /\ Become(t, "clearing")
  /\ UNCHANGED <<queue, stopped, owner, wakes, available, accepted, finished>>

(* The task returns or raises; its future is told on the owner's loop. *)
Finish(t) ==
  /\ at[t] \in Tasks
  /\ finished' = finished \union {at[t]}
  /\ Become(t, "clearing")
  /\ UNCHANGED <<queue, stopped, owner, wakes, available, accepted>>

Run(t) == Set(t) \/ Clear(t) \/ Get(t) \/ Empty(t) \/ Woken(t) \/ Finish(t)

Next ==
  \/ \E k \in Tasks : AddTask(k)
  \/ Close \/ Wake \/ Join
  \/ \E t \in Threads : Run(t)

Spec == Init /\ [][Next]_vars

(* Tasks return and every thread is scheduled. *)
Fairness == WF_vars(Wake) /\ WF_vars(Join) /\ \A t \in Threads : WF_vars(Run(t))

FairSpec == Spec /\ Fairness

-----------------------------------------------------------------------------
(* No thread sleeps while the queue has something: a call that wakes it is *)
(* on its way, or it has been woken (wake(), _executor).                   *)
NoneSleeps ==
  \A t \in Threads : at[t] = "waiting" /\ queue # <<>> => owner = "waking" \/ t \in wakes \union available

(* When aclose() returns every thread has ended, and every task that was   *)
(* added before has run: the sentinels come after all of them, and there   *)
(* is one for each thread.                                                 *)
ClosedRanAll == owner = "closed" => accepted = finished /\ \A t \in Threads : at[t] = "over"

(* Every task that was added runs, and a pool that is closed ends its      *)
(* threads, and has run every task by then.                                *)
AddedRuns == []<>(accepted = finished /\ (stopped => owner = "closed"))
=============================================================================
