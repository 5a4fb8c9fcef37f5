--------------------------- MODULE ContextWatches ---------------------------
(***************************************************************************)
(* ContextWatches of runtime/pool/_scheduling.py: one waiter task for each *)
(* cancellation event and one timer for all deadlines tell a pool that the *)
(* request of a queued task has ended.  Tasks are registered when they are *)
(* queued and removed when they start; a notification removes the task and *)
(* calls the pool back (QueuedPool!Promote, DelayPool!Cancel).             *)
(***************************************************************************)
EXTENDS Naturals, FiniteSetsExt

CONSTANTS Tasks,
          Events,    (* cancellation events of requests *)
          NoEvent,   (* a task outside any request *)
          MaxTime    (* bound on the clock *)

Never == MaxTime + 1   \* no deadline, no timer

VARIABLES now,         \* loop.time()
          set,         \* events that are set
          event,       \* cancelled_event of each task
          deadline,    \* deadline_ts of each task
          callbacks,   \* tasks registered
          groups,      \* tasks of each event; {} when it has no waiter
          deadlines,   \* tasks in the deadline heap
          armed,       \* armed_at: what the timer was last scheduled for
          timer,       \* the time of the pending call of _expire
          outcome      \* "new", "added", "removed" or "notified"

vars == <<now, set, event, deadline, callbacks, groups, deadlines, armed, timer, outcome>>

Init ==
  /\ now = 0
  /\ set = {}
  /\ event = [t \in Tasks |-> NoEvent]
  /\ deadline = [t \in Tasks |-> Never]
  /\ callbacks = {} /\ deadlines = {}
  /\ groups = [e \in Events |-> {}]
  /\ armed = Never /\ timer = Never
  /\ outcome = [t \in Tasks |-> "new"]

Earliest(D) == Min({Never} \union {deadline[t] : t \in D})

(* _arm, when D is left in the heap: the timer, so far scheduled for tm,   *)
(* is replaced only if the earliest deadline is not the one armed.         *)
Arm(D, at, tm) ==
  /\ armed' = Earliest(D)
  /\ timer' = IF Earliest(D) = at THEN tm ELSE Earliest(D)

Watched(e, d) == e # NoEvent \/ d # Never

Add(t, e, d) ==
  /\ outcome[t] = "new"
  /\ outcome' = [outcome EXCEPT ![t] = "added"]
  /\ event' = [event EXCEPT ![t] = e]
  /\ deadline' = [deadline EXCEPT ![t] = d]
  /\ callbacks' = IF Watched(e, d) THEN callbacks \union {t} ELSE callbacks
  /\ groups' = [x \in Events |-> IF x = e THEN groups[x] \union {t} ELSE groups[x]]
  /\ deadlines' = IF d # Never THEN deadlines \union {t} ELSE deadlines
  /\ LET first == Min({d, Earliest(deadlines)})
     IN  /\ armed' = first
         /\ timer' = IF first = armed THEN timer ELSE first
  /\ UNCHANGED <<now, set>>

(* remove of the tasks S, whose group loses its waiter when it is empty. *)
Forget(S, at, tm) ==
  /\ callbacks' = callbacks \ S
  /\ groups' = [e \in Events |-> groups[e] \ S]
  /\ deadlines' = deadlines \ S
  /\ Arm(deadlines \ S, at, tm)

Remove(t) ==
  /\ outcome[t] = "added"
  /\ outcome' = [outcome EXCEPT ![t] = "removed"]
  /\ Forget({t}, armed, timer)
  /\ UNCHANGED <<now, set, event, deadline>>

Notify(S) == outcome' = [t \in Tasks |-> IF t \in S \intersect callbacks THEN "notified" ELSE outcome[t]]

(* _wait: the waiter of a set event notifies every task of its group. *)
Waiter(e) ==
  /\ e \in set
  /\ groups[e] # {}
  /\ Notify(groups[e])
  /\ Forget(groups[e], armed, timer)
  /\ UNCHANGED <<now, set, event, deadline>>

ExpireArmed ==   \* Fault: armed_at is not reset, though the timer is spent
  /\ timer # Never
  /\ timer <= now + 1
  /\ LET due == {t \in deadlines : deadline[t] <= now}
     IN  Notify(due) /\ Forget(due, armed, Never)
  /\ UNCHANGED <<now, set, event, deadline>>

(* _expire: the loop may call it up to its clock resolution early, and it  *)
(* notifies only what is due.                                              *)
Expire ==
  /\ timer # Never
  /\ timer <= now + 1
  /\ LET due == {t \in deadlines : deadline[t] <= now}
     IN  Notify(due) /\ Forget(due, Never, Never)
  /\ UNCHANGED <<now, set, event, deadline>>

SetEvent(e) ==
  /\ set' = set \union {e}
  /\ UNCHANGED <<now, event, deadline, callbacks, groups, deadlines, armed, timer, outcome>>

Tick ==
  /\ now < MaxTime
  /\ now' = now + 1
  /\ UNCHANGED <<set, event, deadline, callbacks, groups, deadlines, armed, timer, outcome>>

Next ==
  \/ \E t \in Tasks :
       Remove(t) \/ \E e \in Events \union {NoEvent}, d \in now .. Never : Add(t, e, d)
  \/ \E e \in Events : Waiter(e) \/ SetEvent(e)
  \/ Expire
  \/ Tick

Spec == Init /\ [][Next]_vars

(* The loop runs a waiter whose event is set and a timer that is due. *)
FairSpec == Spec /\ WF_vars(Expire) /\ \A e \in Events : WF_vars(Waiter(e))

-----------------------------------------------------------------------------
TypeOK ==
  /\ now \in 0 .. MaxTime /\ armed \in 0 .. Never /\ timer \in 0 .. Never
  /\ set \subseteq Events
  /\ event \in [Tasks -> Events \union {NoEvent}]
  /\ deadline \in [Tasks -> 0 .. Never]
  /\ deadlines \subseteq callbacks /\ callbacks \subseteq Tasks
  /\ groups \in [Events -> SUBSET Tasks]
  /\ outcome \in [Tasks -> {"new", "added", "removed", "notified"}]

(* A task is notified only after its event is set or its deadline reached, *)
(* and only while it is registered.                                        *)
NotifiedForCause ==
  [][\A t \in Tasks : outcome'[t] = "notified" /\ outcome[t] # "notified" =>
       /\ outcome[t] = "added"
       /\ event[t] \in set \/ deadline[t] <= now]_vars

(* Nobody is forgotten: as long as a task is registered, it is in the      *)
(* group that waits for its event, and the timer is not later than its     *)
(* deadline, although _arm leaves the timer alone where it can.            *)
EndsWatched ==
  \A t \in Tasks : outcome[t] = "added" =>
    /\ event[t] # NoEvent => t \in groups[event[t]]
    /\ deadline[t] # Never => timer <= deadline[t]

(* Every registered task whose request ended is notified or removed.       *)
EndIsNoticed == []<>(\A t \in Tasks : outcome[t] = "added" => event[t] \notin set /\ deadline[t] > now)
=============================================================================
