---------------------------- MODULE CancelContext ----------------------------
(***************************************************************************)
(* Cancellation callbacks of a chain of contexts                           *)
(* (runtime/context/context.py).  Context 1 is the one subscribed to, the  *)
(* others its ancestors.  There is no lock: what a thread may rely on is   *)
(* that one operation on a dictionary is one step.                         *)
(***************************************************************************)
EXTENDS Integers, FiniteSets

CONSTANTS Depth,        (* contexts in the chain *)
          Subscribers   (* threads that add a callback to context 1 *)

Chain == 1 .. Depth

VARIABLES
  cancelled,  \* contexts whose flag is set
  table,      \* __cancel_callbacks of each context, by subscriber
  claim,      \* subscribers whose notification nobody has claimed
  calls,      \* how often each callback ran
  at, left,   \* where each subscriber's thread is, contexts it still visits
  canceller   \* the thread that cancels each context

vars == <<cancelled, table, claim, calls, at, left, canceller>>

Resting == [at |-> "idle", todo |-> {}, left |-> {}]

Init ==
  /\ cancelled = {}
  /\ table = [c \in Chain |-> {}]
  /\ claim = {}
  /\ calls = [s \in Subscribers |-> 0]
  /\ at = [s \in Subscribers |-> "new"]
  /\ left = [s \in Subscribers |-> {}]
  /\ canceller = [c \in Chain |-> Resting]

Go(s, place, contexts) ==
  /\ at' = [at EXCEPT ![s] = place]
  /\ left' = [left EXCEPT ![s] = contexts]

Lowest(contexts) == CHOOSE c \in contexts : \A d \in contexts : c <= d

Without(c, s) == [table EXCEPT ![c] = @ \ {s}]

-----------------------------------------------------------------------------
(* add_cancel_callback: the claim, then an entry in every context, ... *)
Add(s) ==
  /\ at[s] = "new"
  /\ claim' = claim \union {s}
  /\ Go(s, "installing", Chain)
  /\ UNCHANGED <<cancelled, table, calls, canceller>>

Install(s) ==
  /\ at[s] = "installing" /\ left[s] # {}
  /\ LET c == Lowest(left[s]) IN
       /\ table' = [table EXCEPT ![c] = @ \union {s}]
       /\ Go(s, "installing", left[s] \ {c})
  /\ UNCHANGED <<cancelled, claim, calls, canceller>>

CheckNothing(s) ==   \* Fault: cancellations before the entries were in are missed
  /\ at[s] = "installing" /\ left[s] = {}
  /\ Go(s, "checking", {})
  /\ UNCHANGED <<cancelled, table, claim, calls, canceller>>

(* ... then the flags: what was cancelled meanwhile is notified here.      *)
Check(s) ==
  /\ at[s] = "installing" /\ left[s] = {}
  /\ IF cancelled # {} /\ s \in claim
       THEN claim' = claim \ {s} /\ Go(s, "notifying", Chain)
       ELSE Go(s, "checking", {}) /\ UNCHANGED claim
  /\ UNCHANGED <<cancelled, table, calls, canceller>>

(* Entries that were put in after a notification are taken out again.      *)
CheckLate(s) ==
  /\ at[s] = "checking"
  /\ IF s \in claim THEN Go(s, "added", {}) ELSE Go(s, "cleaning", Chain)
  /\ UNCHANGED <<cancelled, table, claim, calls, canceller>>

(* cleanup() in the subscriber's thread, and the action after a claim. *)
Clean(s) ==
  /\ at[s] \in {"notifying", "cleaning", "removing"} /\ left[s] # {}
  /\ \E c \in left[s] : table' = Without(c, s) /\ Go(s, at[s], left[s] \ {c})
  /\ UNCHANGED <<cancelled, claim, calls, canceller>>

Cleaned(s) ==
  /\ at[s] \in {"notifying", "cleaning", "removing"} /\ left[s] = {}
  /\ IF at[s] = "notifying"
       THEN calls' = [calls EXCEPT ![s] = @ + 1] /\ Go(s, "checking", {})
       ELSE Go(s, IF at[s] = "removing" THEN "removed" ELSE "added", {}) /\ UNCHANGED calls
  /\ UNCHANGED <<cancelled, table, claim, canceller>>

(* remove(), which add_cancel_callback returned *)
Remove(s) ==
  /\ at[s] = "added"
  /\ claim' = claim \ {s}
  /\ Go(s, "removing", Chain)
  /\ UNCHANGED <<cancelled, table, calls, canceller>>

-----------------------------------------------------------------------------
(* cancel(): the flag, a copy of the callbacks, then each notify(). *)
Cancel(c) ==
  /\ canceller[c].at = "idle"
  /\ cancelled' = cancelled \union {c}
  /\ canceller' = [canceller EXCEPT ![c].at = "flagged"]
  /\ UNCHANGED <<table, claim, calls, at, left>>

Snapshot(c) ==
  /\ canceller[c].at = "flagged"
  /\ canceller' = [canceller EXCEPT ![c].at = "calling", ![c].todo = table[c]]
  /\ UNCHANGED <<cancelled, table, claim, calls, at, left>>

Notify(c, s) ==
  /\ canceller[c].at = "calling" /\ s \in canceller[c].todo
  /\ IF s \in claim
       THEN /\ claim' = claim \ {s}
            /\ canceller' = [canceller EXCEPT ![c].at = s, ![c].left = Chain]
       ELSE /\ canceller' = [canceller EXCEPT ![c].todo = @ \ {s}]
            /\ UNCHANGED claim
  /\ UNCHANGED <<cancelled, table, calls, at, left>>

NotifyCleans(c, s) ==
  /\ canceller[c].at = s
  /\ \E d \in canceller[c].left :
       /\ table' = Without(d, s)
       /\ canceller' = [canceller EXCEPT ![c].left = @ \ {d}]
  /\ UNCHANGED <<cancelled, claim, calls, at, left>>

NotifyActs(c, s) ==
  /\ canceller[c].at = s /\ canceller[c].left = {}
  /\ calls' = [calls EXCEPT ![s] = @ + 1]
  /\ canceller' = [canceller EXCEPT ![c].at = "calling", ![c].todo = @ \ {s}]
  /\ UNCHANGED <<cancelled, table, claim, at, left>>

Next ==
  \/ \E s \in Subscribers :
       Add(s) \/ Install(s) \/ Check(s) \/ CheckLate(s) \/ Clean(s) \/ Cleaned(s) \/ Remove(s)
  \/ \E c \in Chain :
       \/ Cancel(c) \/ Snapshot(c)
       \/ \E s \in Subscribers : Notify(c, s) \/ NotifyCleans(c, s) \/ NotifyActs(c, s)

Spec == Init /\ [][Next]_vars

-----------------------------------------------------------------------------
Cancelling(c) == canceller[c].at = "flagged" \/ canceller[c].todo # {}

Busy(s) == \E c \in Chain : canceller[c].at = s

(* A callback runs at most once however many threads cancel, and when the  *)
(* subscriber's and the cancelling threads are through it has run, unless  *)
(* it was removed; then no context keeps an entry for it.                  *)
CancelNoticed ==
  \A s \in Subscribers :
    /\ calls[s] <= 1
    /\ at[s] = "added" /\ cancelled # {} /\ (\A c \in cancelled : ~Cancelling(c)) => calls[s] = 1
    /\ at[s] \in {"added", "removed"} /\ s \notin claim /\ ~Busy(s) => \A c \in Chain : s \notin table[c]
=============================================================================
