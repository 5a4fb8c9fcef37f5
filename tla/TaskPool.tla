------------------------------ MODULE TaskPool ------------------------------
(***************************************************************************)
(* What an asynchronous pool of this library promises its callers,         *)
(* whatever it does inside: a task that was accepted is run exactly once,  *)
(* no more than Limit callbacks run together, nothing is accepted once the *)
(* pool is sealed, and stop() completes only after every accepted task has *)
(* been run.  QueuedPool and DelayPool implement this specification.       *)
(***************************************************************************)
EXTENDS Naturals, FiniteSets

CONSTANTS Tasks,   (* the calls of add_task *)
          Limit    (* most callbacks that may run together *)

VARIABLES phase,   (* "open", "sealed" (admission closed) or "closed" (drained) *)
          job      (* what has become of each task *)

vars == <<phase, job>>

Running == {t \in Tasks : job[t] = "running"}

Init == /\ phase = "open"
        /\ job = [t \in Tasks |-> "new"]

Move(t, from, to) == /\ job[t] = from
                     /\ job' = [job EXCEPT ![t] = to]
                     /\ UNCHANGED phase

Accept(t) == phase = "open" /\ Move(t, "new", "accepted")

Refuse(t) == Move(t, "new", "refused")

(* One step of the event loop may start several callbacks. *)
Run(S) ==
  /\ \A t \in S : job[t] = "accepted"
  /\ Cardinality(Running \union S) <= Limit
  /\ job' = [t \in Tasks |-> IF t \in S THEN "running" ELSE job[t]]
  /\ UNCHANGED phase

Finish(t) == Move(t, "running", "done")

Seal == /\ phase = "open"
        /\ phase' = "sealed"
        /\ UNCHANGED job

Close == /\ phase = "sealed"
         /\ \A t \in Tasks : job[t] \notin {"accepted", "running"}
         /\ phase' = "closed"
         /\ UNCHANGED job

Next == \/ \E t \in Tasks : Accept(t) \/ Refuse(t) \/ Finish(t)
        \/ \E S \in SUBSET Tasks : Run(S)
        \/ Seal
        \/ Close

Spec == Init /\ [][Next]_vars
=============================================================================
