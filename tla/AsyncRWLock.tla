---------------------------- MODULE AsyncRWLock ----------------------------
(***************************************************************************)
(* The writer-preferring lock of runtime/utils/asyncrwlock.py, which the   *)
(* join storage takes around its maps.                                     *)
(*                                                                         *)
(* The condition's own lock is never held across an await, so taking it    *)
(* never suspends and each section under it is one step.  A task in        *)
(* wait_for is "waiting" until notify_all() and then ready to evaluate its *)
(* predicate again; any task may be cancelled in between.                  *)
(***************************************************************************)
EXTENDS Integers, FiniteSets

CONSTANTS Procs    (* the tasks that use the lock *)

ASSUME ProcsFinite == IsFiniteSet(Procs)

VARIABLES readers, writer, waitingWriters,  \* _readers, _writer, _waiting_writers
          pc,                               \* where each task is
          notified                          \* waiting tasks that were notified

vars == <<readers, writer, waitingWriters, pc, notified>>

States == {"idle", "waitRead", "waitWrite", "reading", "writing"}

Waiting == {p \in Procs : pc[p] \in {"waitRead", "waitWrite"}}

(* Fault: a writer does not wait for readers. *)
CanWritePast == ~writer

CanRead == ~writer /\ waitingWriters = 0
CanWrite == ~writer /\ readers = 0

Init ==
  /\ readers = 0 /\ writer = FALSE /\ waitingWriters = 0
  /\ pc = [p \in Procs |-> "idle"]
  /\ notified = {}

-----------------------------------------------------------------------------
(* read_lock: the first or a later evaluation of the predicate. *)
AskRead(p) ==
  /\ pc[p] = "idle"
  /\ IF CanRead
       THEN /\ readers' = readers + 1
            /\ pc' = [pc EXCEPT ![p] = "reading"]
       ELSE /\ pc' = [pc EXCEPT ![p] = "waitRead"]
            /\ UNCHANGED readers
  /\ UNCHANGED <<writer, waitingWriters, notified>>

RetryRead(p) ==
  /\ pc[p] = "waitRead" /\ p \in notified
  /\ notified' = notified \ {p}
  /\ IF CanRead
       THEN /\ readers' = readers + 1
            /\ pc' = [pc EXCEPT ![p] = "reading"]
       ELSE UNCHANGED <<readers, pc>>
  /\ UNCHANGED <<writer, waitingWriters>>

CancelRead(p) ==
  /\ pc[p] = "waitRead"
  /\ pc' = [pc EXCEPT ![p] = "idle"]
  /\ notified' = notified \ {p}
  /\ UNCHANGED <<readers, writer, waitingWriters>>

(* Fault: the count is tested before it goes down. *)
LeaveReadEarly(p) ==
  /\ pc[p] = "reading"
  /\ readers' = readers - 1
  /\ pc' = [pc EXCEPT ![p] = "idle"]
  /\ notified' = IF readers = 0 THEN Waiting ELSE notified
  /\ UNCHANGED <<writer, waitingWriters>>

(* The last reader that leaves notifies everyone who waits. *)
LeaveRead(p) ==
  /\ pc[p] = "reading"
  /\ readers' = readers - 1
  /\ pc' = [pc EXCEPT ![p] = "idle"]
  /\ notified' = IF readers = 1 THEN Waiting ELSE notified
  /\ UNCHANGED <<writer, waitingWriters>>

-----------------------------------------------------------------------------
(* write_lock announces the writer before it waits. *)
AskWrite(p) ==
  /\ pc[p] = "idle"
  /\ IF CanWrite
       THEN /\ writer' = TRUE
            /\ pc' = [pc EXCEPT ![p] = "writing"]
            /\ UNCHANGED waitingWriters
       ELSE /\ waitingWriters' = waitingWriters + 1
            /\ pc' = [pc EXCEPT ![p] = "waitWrite"]
            /\ UNCHANGED writer
  /\ UNCHANGED <<readers, notified>>

RetryWrite(p) ==
  /\ pc[p] = "waitWrite" /\ p \in notified
  /\ notified' = notified \ {p}
  /\ IF CanWrite
       THEN /\ writer' = TRUE
            /\ waitingWriters' = waitingWriters - 1
            /\ pc' = [pc EXCEPT ![p] = "writing"]
       ELSE UNCHANGED <<writer, waitingWriters, pc>>
  /\ UNCHANGED readers

(* A writer that gives up lets the readers in that it held back. *)
CancelWrite(p) ==
  /\ pc[p] = "waitWrite"
  /\ waitingWriters' = waitingWriters - 1
  /\ pc' = [pc EXCEPT ![p] = "idle"]
  /\ notified' = (IF writer THEN notified ELSE Waiting) \ {p}
  /\ UNCHANGED <<readers, writer>>

LeaveWrite(p) ==
  /\ pc[p] = "writing"
  /\ writer' = FALSE
  /\ pc' = [pc EXCEPT ![p] = "idle"]
  /\ notified' = Waiting
  /\ UNCHANGED <<readers, waitingWriters>>

Next == \E p \in Procs :
  \/ AskRead(p) \/ RetryRead(p) \/ CancelRead(p) \/ LeaveRead(p)
  \/ AskWrite(p) \/ RetryWrite(p) \/ CancelWrite(p) \/ LeaveWrite(p)

Spec == Init /\ [][Next]_vars

(* Ready tasks run, and whoever holds the lock leaves. *)
Fairness ==
  \A p \in Procs : WF_vars(RetryRead(p) \/ RetryWrite(p)) /\ WF_vars(LeaveRead(p) \/ LeaveWrite(p))

FairSpec == Spec /\ Fairness

-----------------------------------------------------------------------------
TypeOK ==
  /\ readers \in Int /\ writer \in BOOLEAN /\ waitingWriters \in Int
  /\ pc \in [Procs -> States]
  /\ notified \subseteq Waiting

In(s) == {p \in Procs : pc[p] = s}

(* The counters are exactly who reads, writes and waits to write, also     *)
(* after cancellations.                                                    *)
CountsExact ==
  /\ readers = Cardinality(In("reading"))
  /\ waitingWriters = Cardinality(In("waitWrite"))
  /\ writer <=> In("writing") # {}

(* A writer excludes readers and other writers. *)
Exclusion ==
  \A p \in In("writing") : \A q \in Procs \ {p} : pc[q] \notin {"reading", "writing"}

(* Nobody sleeps on a predicate that has become true. *)
NoLostWakeup ==
  /\ CanRead => In("waitRead") \subseteq notified
  /\ CanWrite => In("waitWrite") \subseteq notified

(* "prevents new readers from entering": while a writer waits, no task     *)
(* begins to read.                                                         *)
WriterFirst ==
  [][In("waitWrite") # {} => In("reading")' \subseteq In("reading")]_vars

(* The inductive invariant of the lock. *)
IInv == TypeOK /\ CountsExact /\ Exclusion /\ NoLostWakeup

(* Some waiting writer gets in however many readers come: the readers      *)
(* leave and are not replaced.                                             *)
WritersServed ==
  In("waitWrite") # {} ~> (In("writing") # {} \/ In("waitWrite") = {})
=============================================================================
