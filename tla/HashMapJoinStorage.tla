------------------------- MODULE HashMapJoinStorage -------------------------
(***************************************************************************)
(* The in-memory store of a join (runtime/store/hashmap.py): the values    *)
(* that arrive for a key are grouped in an item until the callback says    *)
(* that the group is complete or the item expires.                         *)
(*                                                                         *)
(* Concurrent calls of join_value, the expiry task of every item, the      *)
(* rotation timer and stop() interleave at their awaits.  A call "looking" *)
(* is inside the loop of _join_value, where nothing is awaited: until it   *)
(* leaves, only the clock moves.  An item is named after the call that     *)
(* created it.  Which values complete a group is the callback's affair:    *)
(* it answers either way.                                                  *)
(*                                                                         *)
(* The rotation lock is the one of AsyncRWLock.tla: no reader enters while *)
(* a writer waits, and a writer's section has no await.                    *)
(***************************************************************************)
EXTENDS Integers, FiniteSets

CONSTANTS Keys, Calls,
          None,          (* no item *)
          Never,         (* no deadline: float('inf') or a request without one *)
          Ttl,           (* ttl of the configuration, 0 for no expiry *)
          RenewTtl,      (* renew_ttl of the configuration *)
          ShrinkFactor,  (* _SHRINK_FACTOR *)
          Deadlines,     (* deadlines of requests *)
          Horizon        (* bound on the time at which calls still arrive *)

VARIABLES
  now,             \* the clock
  current, prev,   \* the two buckets
  gauge,           \* the "count" gauge
  highWater,       \* _high_water_mark
  key, limit, ttl, \* of a call: its key, its request's deadline, its ttl_seconds
  pc, found,       \* of a call: where it is, and the item it has looked up
  cancelled,       \* calls whose request was cancelled
  deadline, processed,          \* of an item
  after, alarm,    \* of an item: its after_task, and when the task wakes up
  timer, stopper,  \* the rotation task; the call of stop()
  stopped, exited  \* _stopped; an expiry callback failed: os._exit(2)

mapVars == <<current, prev, gauge>>
callVars == <<key, limit, ttl, cancelled>>
itemVars == <<deadline, processed, after, alarm>>
lifeVars == <<timer, stopper, stopped, highWater>>
vars == <<now, mapVars, callVars, pc, found, itemVars, lifeVars, exited>>

CallStates == {"new", "reading", "looking", "locking", "calling", "left"}
AfterStates == {"none", "untimed", "sleeping", "locking", "calling", "removing", "failing", "gone"}
TimerStates == {"none", "sleeping", "locking", "ended"}
StopperStates == {"none", "locking", "returned"}

-----------------------------------------------------------------------------
Live(i) == deadline[i] # Never => deadline[i] > now

Usable(i) == i # None /\ Live(i)

Stored(i) == current[key[i]] = i \/ prev[key[i]] = i

(* item.lock is held across an await only by a call in its callback. *)
Locked(i) == \E c \in Calls : pc[c] = "calling" /\ found[c] = i

(* Fault: nobody takes the lock of the item. *)
ContendedNever(i) == FALSE

Contended(i) ==
  Locked(i) \/ after[i] = "locking" \/ \E c \in Calls : pc[c] = "locking" /\ found[c] = i

Readers == {c \in Calls : pc[c] \in {"looking", "locking", "calling"} /\ ttl[c] > 0}

WriterWaits == timer = "locking" \/ stopper = "locking"

Size(bucket) == Cardinality({k \in Keys : bucket[k] # None})

(* The event loop is free to run another task. *)
Yielded == ~exited /\ \A c \in Calls : pc[c] # "looking"

Init ==
  /\ now = 0
  /\ current = [k \in Keys |-> None] /\ prev = [k \in Keys |-> None]
  /\ gauge = 0 /\ highWater = 0
  /\ key \in [Calls -> Keys]
  /\ limit = [c \in Calls |-> Never]
  /\ ttl = [c \in Calls |-> 0]
  /\ pc = [c \in Calls |-> "new"] /\ found = [c \in Calls |-> None]
  /\ cancelled = {}
  /\ deadline = [i \in Calls |-> Never]
  /\ processed = [i \in Calls |-> FALSE]
  /\ after = [i \in Calls |-> "none"]
  /\ alarm = [i \in Calls |-> 0]
  /\ timer = "none" /\ stopper = "none"
  /\ stopped = FALSE /\ exited = FALSE

-----------------------------------------------------------------------------
(* join_value: the ttl of the call, and the read lock when there is one.   *)
Enter(c, d) ==
  /\ Yielded
  /\ pc[c] = "new" /\ now <= Horizon
  /\ limit' = [limit EXCEPT ![c] = d]
  /\ LET left == IF d = Never THEN Ttl ELSE IF d > now THEN d - now ELSE 0
     IN /\ ttl' = [ttl EXCEPT ![c] = left]
        /\ pc' = [pc EXCEPT ![c] = IF left > 0 /\ WriterWaits THEN "reading" ELSE "looking"]
  /\ UNCHANGED <<now, mapVars, key, cancelled, found, itemVars, lifeVars, exited>>

Admit(c) ==
  /\ Yielded
  /\ pc[c] = "reading" /\ ~WriterWaits
  /\ pc' = [pc EXCEPT ![c] = "looking"]
  /\ UNCHANGED <<now, mapVars, callVars, found, itemVars, lifeVars, exited>>

(* Under the lock of item i: add the value and call back, or look again.   *)
Offer(c, i) ==
  IF ~processed[i] /\ Live(i)
    THEN pc' = [pc EXCEPT ![c] = "calling"]
    ELSE pc' = [pc EXCEPT ![c] = "looking"]

(* One turn of the loop of _join_value that finds an item ...              *)
Look(c) ==
  /\ ~exited /\ pc[c] = "looking"
  /\ LET k == key[c]
         i == IF Usable(current[k]) THEN current[k] ELSE prev[k]
     IN /\ Usable(i)
        /\ current' = [current EXCEPT ![k] = i]
        /\ prev' = IF i = current[k] THEN prev ELSE [prev EXCEPT ![k] = None]
        /\ found' = [found EXCEPT ![c] = i]
        /\ IF Contended(i)
             THEN pc' = [pc EXCEPT ![c] = "locking"]
             ELSE Offer(c, i)
  /\ UNCHANGED <<now, gauge, callVars, deadline, processed, after, alarm, lifeVars, exited>>

(* What a new item in place of expired ones changes in the gauge. *)
Growth(k) == (IF current[k] = None THEN 1 ELSE 0) - (IF prev[k] = None THEN 0 ELSE 1)

(* ... and one that creates it; a new item's lock is free.                 *)
Create(c) ==
  /\ ~exited /\ pc[c] = "looking"
  /\ LET k == key[c]
         end == IF ttl[c] > 0 THEN now + ttl[c] ELSE Never
     IN /\ ~Usable(current[k]) /\ ~Usable(prev[k])
        /\ current' = [current EXCEPT ![k] = c]
        /\ prev' = [prev EXCEPT ![k] = None]
        /\ gauge' = gauge + Growth(k)
        /\ deadline' = [deadline EXCEPT ![c] = end]
        /\ after' = [after EXCEPT ![c] = IF end = Never THEN "untimed" ELSE "sleeping"]
        /\ alarm' = [alarm EXCEPT ![c] = IF end = Never THEN 0 ELSE end]
  /\ found' = [found EXCEPT ![c] = c]
  /\ pc' = [pc EXCEPT ![c] = "calling"]
  /\ UNCHANGED <<now, callVars, processed, lifeVars, exited>>

(* The lock is handed to one of its waiters, in any order. *)
Acquire(c) ==
  /\ Yielded
  /\ pc[c] = "locking" /\ ~Locked(found[c])
  /\ Offer(c, found[c])
  /\ UNCHANGED <<now, mapVars, callVars, found, deadline, processed, after, alarm, lifeVars, exited>>

(* _remove_item *)
Remove(i) ==
  LET k == key[i]
  IN /\ current' = IF current[k] = i THEN [current EXCEPT ![k] = None] ELSE current
     /\ prev' = IF current[k] # i /\ prev[k] = i THEN [prev EXCEPT ![k] = None] ELSE prev
     /\ gauge' = IF Stored(i) THEN gauge - 1 ELSE gauge

(* What nobody will read again of a call or of an item is reset.           *)
Leave(c) ==
  /\ pc' = [pc EXCEPT ![c] = "left"]
  /\ found' = [found EXCEPT ![c] = None]
  /\ ttl' = [ttl EXCEPT ![c] = 0]
  /\ limit' = [limit EXCEPT ![c] = IF after[c] = "none" THEN Never ELSE @]

Drop(i) ==
  /\ deadline' = [deadline EXCEPT ![i] = Never]
  /\ alarm' = [alarm EXCEPT ![i] = 0]
  /\ cancelled' = cancelled \ {i}

(* Fault: the expiry is called off and the item is not marked. *)
CompleteUnmarked(c) ==
  /\ Yielded /\ pc[c] = "calling"
  /\ after' = [after EXCEPT ![found[c]] = "gone"]
  /\ Remove(found[c]) /\ Drop(found[c])
  /\ Leave(c)
  /\ UNCHANGED <<now, key, processed, lifeVars, exited>>

(* The callback of a join returns: the group is complete, ... *)
Complete(c) ==
  /\ Yielded /\ pc[c] = "calling"
  /\ LET i == found[c]
     IN /\ processed' = [processed EXCEPT ![i] = TRUE]
        /\ after' = [after EXCEPT ![i] = "gone"]
        /\ Remove(i) /\ Drop(i)
  /\ Leave(c)
  /\ UNCHANGED <<now, key, lifeVars, exited>>

(* ... or it waits for more, for which the item may be given more time, ... *)
Renew(c, i) ==
  IF RenewTtl /\ ttl[c] > 0 /\ Stored(i)
    THEN /\ deadline' = [deadline EXCEPT ![i] = now + ttl[c]]
         /\ current' = [current EXCEPT ![key[i]] = i]
         /\ prev' = [prev EXCEPT ![key[i]] = None]
    ELSE UNCHANGED <<deadline, current, prev>>

Keep(c) ==
  /\ Yielded /\ pc[c] = "calling"
  /\ processed' = [processed EXCEPT ![found[c]] = FALSE]
  /\ Renew(c, found[c])
  /\ Leave(c)
  /\ UNCHANGED <<now, gauge, key, cancelled, after, alarm, lifeVars, exited>>

(* ... or the callback raised, with the value already in the item.         *)
Raise(c) ==
  /\ Yielded /\ pc[c] = "calling"
  /\ Leave(c)
  /\ UNCHANGED <<now, mapVars, key, cancelled, itemVars, lifeVars, exited>>

(* The request of the call that created an item is cancelled.              *)
Cancel(c) ==
  /\ Yielded /\ after[c] = "sleeping" /\ limit[c] # Never
  /\ cancelled' = cancelled \union {c}
  /\ UNCHANGED <<now, mapVars, key, limit, ttl, pc, found, itemVars, lifeVars, exited>>

-----------------------------------------------------------------------------
(* _after_func.  With a request deadline it fires then or when the request *)
(* is cancelled; without one it sleeps again if the item has more time.    *)
Settle(i) ==
  IF processed[i]
    THEN after' = [after EXCEPT ![i] = "gone"] /\ UNCHANGED <<processed, alarm>>
    ELSE IF limit[i] = Never /\ Live(i)
           THEN /\ after' = [after EXCEPT ![i] = "sleeping"]
                /\ alarm' = [alarm EXCEPT ![i] = deadline[i]]
                /\ UNCHANGED processed
           ELSE /\ after' = [after EXCEPT ![i] = "calling"]
                /\ processed' = [processed EXCEPT ![i] = TRUE]
                /\ UNCHANGED alarm

AfterWakes(i) ==
  /\ Yielded
  /\ after[i] = "sleeping"
  /\ now >= alarm[i] \/ i \in cancelled
  /\ IF Contended(i)
       THEN after' = [after EXCEPT ![i] = "locking"] /\ UNCHANGED <<processed, alarm>>
       ELSE Settle(i)
  /\ UNCHANGED <<now, mapVars, callVars, pc, found, deadline, lifeVars, exited>>

AfterAcquires(i) ==
  /\ Yielded
  /\ after[i] = "locking" /\ ~Locked(i)
  /\ Settle(i)
  /\ UNCHANGED <<now, mapVars, callVars, pc, found, deadline, lifeVars, exited>>

(* The callback of the expiry is over; the item goes under the read lock.  *)
AfterReturns(i) ==
  /\ Yielded
  /\ after[i] = "calling"
  /\ \E s \in {"removing", "failing"} : after' = [after EXCEPT ![i] = s]
  /\ UNCHANGED <<now, mapVars, callVars, pc, found, deadline, processed, alarm, lifeVars, exited>>

AfterRemoves(i) ==
  /\ Yielded
  /\ after[i] \in {"removing", "failing"} /\ ~WriterWaits
  /\ Remove(i) /\ Drop(i)
  /\ after' = [after EXCEPT ![i] = "gone"]
  /\ exited' = (after[i] = "failing")
  /\ UNCHANGED <<now, key, limit, ttl, pc, found, processed, lifeVars>>

-----------------------------------------------------------------------------
(* Enough time passes for every item to expire. *)
Tick ==
  /\ ~exited
  /\ now < Horizon \/ \E i \in Calls : deadline[i] # Never /\ deadline[i] > now
  /\ now' = now + 1
  /\ UNCHANGED <<mapVars, callVars, pc, found, itemVars, lifeVars, exited>>

Start ==
  /\ Yielded
  /\ timer = "none" /\ ~stopped /\ Ttl > 0
  /\ timer' = "sleeping"
  /\ UNCHANGED <<now, mapVars, callVars, pc, found, itemVars, stopper, stopped, highWater, exited>>

RotationDue ==
  /\ Yielded
  /\ timer = "sleeping"
  /\ timer' = "locking"
  /\ UNCHANGED <<now, mapVars, callVars, pc, found, itemVars, stopper, stopped, highWater, exited>>

Rotated == [k \in Keys |-> IF current[k] = None THEN prev[k] ELSE current[k]]

Evicted == {k \in Keys : current[k] # None /\ prev[k] # None}

Rotate ==
  /\ Yielded
  /\ timer = "locking" /\ Readers = {}
  /\ timer' = "sleeping"
  /\ LET total == Size(current) + Size(prev)
     IN IF highWater = 0 \/ total * ShrinkFactor < highWater
          THEN /\ highWater' = total
               /\ prev' = Rotated
               /\ current' = [k \in Keys |-> None]
               /\ gauge' = gauge - Cardinality(Evicted)
          ELSE /\ highWater' = IF total > highWater THEN total ELSE highWater
               /\ UNCHANGED mapVars
  /\ UNCHANGED <<now, callVars, pc, found, itemVars, stopper, stopped, exited>>

StopCalled ==
  /\ Yielded
  /\ stopper = "none"
  /\ stopper' = "locking"
  /\ UNCHANGED <<now, mapVars, callVars, pc, found, itemVars, timer, stopped, highWater, exited>>

(* The rotation task is cancelled, also while it waits for the lock.       *)
StopLocked ==
  /\ Yielded
  /\ stopper = "locking" /\ Readers = {}
  /\ stopper' = "returned"
  /\ stopped' = TRUE
  /\ timer' = IF timer = "none" THEN "none" ELSE "ended"
  /\ UNCHANGED <<now, mapVars, callVars, pc, found, itemVars, highWater, exited>>

Call(c) == Admit(c) \/ Look(c) \/ Create(c) \/ Acquire(c) \/ Complete(c) \/ Keep(c) \/ Raise(c)

After(i) == AfterWakes(i) \/ AfterAcquires(i) \/ AfterReturns(i) \/ AfterRemoves(i)

Next ==
  \/ \E c \in Calls : (\E d \in Deadlines \union {Never} : Enter(c, d)) \/ Cancel(c) \/ Call(c)
  \/ \E i \in Calls : After(i)
  \/ Tick \/ Start \/ RotationDue \/ Rotate \/ StopCalled \/ StopLocked

Spec == Init /\ [][Next]_vars

(* Ready tasks run, callbacks return and time passes.  A rotation may come *)
(* again and again, and in between the rotation lock serves who waits.     *)
Fairness ==
  /\ \A c \in Calls : WF_vars(Look(c) \/ Create(c) \/ Acquire(c) \/ Complete(c) \/ Keep(c) \/ Raise(c))
                      /\ SF_vars(Admit(c))
  /\ \A i \in Calls : WF_vars(AfterWakes(i) \/ AfterAcquires(i) \/ AfterReturns(i))
                      /\ SF_vars(AfterRemoves(i))
  /\ WF_vars(Tick) /\ WF_vars(Rotate) /\ WF_vars(StopLocked)

FairSpec == Spec /\ Fairness

-----------------------------------------------------------------------------
TypeOK ==
  /\ now \in Nat
  /\ current \in [Keys -> Calls \union {None}] /\ prev \in [Keys -> Calls \union {None}]
  /\ gauge \in Nat /\ highWater \in Nat
  /\ key \in [Calls -> Keys]
  /\ limit \in [Calls -> Nat \union {Never}] /\ ttl \in [Calls -> Nat]
  /\ pc \in [Calls -> CallStates] /\ found \in [Calls -> Calls \union {None}]
  /\ cancelled \subseteq Calls
  /\ deadline \in [Calls -> Nat \union {Never}]
  /\ processed \in [Calls -> BOOLEAN]
  /\ after \in [Calls -> AfterStates] /\ alarm \in [Calls -> Nat]
  /\ timer \in TimerStates /\ stopper \in StopperStates
  /\ stopped \in BOOLEAN /\ exited \in BOOLEAN

(* A key is in at most one of the buckets, and the count gauge is the      *)
(* number of stored items, whatever rotates, expires or is replaced.       *)
GaugeExact ==
  /\ \A k \in Keys : current[k] = None \/ prev[k] = None
  /\ gauge = Size(current) + Size(prev)

(* A group that still accepts values is where the next value of its key    *)
(* will find it: rotation keeps it, and the late callback of an older      *)
(* generation does not remove it.                                          *)
OpenItemStored ==
  \A i \in Calls : after[i] # "none" /\ ~processed[i] /\ Live(i) => Stored(i)

(* The callback of a join and the callback of the expiry never run at the  *)
(* same time on the same group, and neither runs twice at once.            *)
CallbackExclusive ==
  \A c \in Calls : pc[c] = "calling" =>
    /\ ~processed[found[c]]
    /\ \A e \in Calls \ {c} : ~(pc[e] = "calling" /\ found[e] = found[c])

(* A group with an expiry that is not settled has its expiry task still to *)
(* come, whatever renewed it and however the task found it: one that finds *)
(* the group alive sleeps again.                                           *)
ExpiryToCome ==
  \A i \in Calls :
    after[i] \notin {"none", "untimed"} /\ ~processed[i] => after[i] \in {"sleeping", "locking"}

(* What joins, expiry, renewal, rotation and stop() keep between them: one  *)
(* group of a key, found while it is open, whose callbacks take turns, and  *)
(* whose expiry comes unless it was settled.                                *)
StoreSound == GaugeExact /\ OpenItemStored /\ CallbackExclusive /\ ExpiryToCome

(* Every group with an expiry is handed to a callback that settles it,     *)
(* also when it was replaced by a newer one.                               *)
GroupsSettle ==
  \A i \in Calls : after[i] \notin {"none", "untimed"} ~> (processed[i] \/ exited)

(* "An expired callback may finish after a new generation was admitted": a *)
(* call that finds a settled group looks again and finds another one.      *)
RetryAdmitsAnew ==
  \A c \in Calls : pc[c] = "looking" /\ found[c] # None /\ processed[found[c]] =>
    current[key[c]] # found[c] \/ ~Live(found[c])

(* "ensures items don't linger after context expiry": the group of a       *)
(* request with a deadline is eventually settled.                          *)
NothingLingers ==
  \A i \in Calls : after[i] # "none" /\ limit[i] # Never ~> (processed[i] \/ exited)
=============================================================================
