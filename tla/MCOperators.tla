---------------------------- MODULE MCOperators ----------------------------
(***************************************************************************)
(* The join storage and a sub-stream call, side by side: subject says      *)
(* which of them moves, the other stays in one initial state.              *)
(***************************************************************************)
EXTENDS SubStream, Integers, TLC

CONSTANTS Keys, Calls, None, Never, Ttl, RenewTtl, ShrinkFactor,
          Deadlines, Horizon   (* of HashMapJoinStorage *)

ASSUME CallsFinite == IsFiniteSet(Calls) /\ IsFiniteSet(Keys)
ASSUME NoneAssumption == None \notin Calls
ASSUME NeverAssumption == Never \notin Int
ASSUME TimesAssumption == Ttl \in Nat /\ Deadlines \subseteq Nat /\ Horizon \in Nat
ASSUME FactorAssumption == ShrinkFactor \in Nat \ {0}
ASSUME RenewAssumption == RenewTtl \in BOOLEAN

VARIABLES subject,
          now, current, prev, gauge, highWater, key, limit, ttl, pc, found, withdrawn,
          deadline, processed, after, alarm, timer, stopper, stopped, storeExited

storeVars == <<now, current, prev, gauge, highWater, key, limit, ttl, pc, found, withdrawn,
               deadline, processed, after, alarm, timer, stopper, stopped, storeExited>>

Store == INSTANCE HashMapJoinStorage WITH cancelled <- withdrawn, exited <- storeExited

MCInit == subject \in {"join", "substream"} /\ Init /\ Store!Init

JoinNext == subject = "join" /\ Store!Next /\ UNCHANGED <<subject, vars>>

SubNext == subject = "substream" /\ Next /\ UNCHANGED <<subject, storeVars>>

MCNext == JoinNext \/ SubNext

MCSpec == MCInit /\ [][MCNext]_<<subject, vars, storeVars>>

(* No more of the storage's fairness than its property needs: the loop     *)
(* runs what is ready, callbacks return and time passes.                   *)
JoinFairness ==
  /\ WF_storeVars(\E c \in Calls :
       \/ Store!Look(c) \/ Store!Create(c) \/ Store!Acquire(c)
       \/ Store!Complete(c) \/ Store!Keep(c) \/ Store!Raise(c)
       \/ Store!AfterWakes(c) \/ Store!AfterAcquires(c) \/ Store!AfterReturns(c))
  /\ WF_storeVars(subject = "join" /\ Store!Tick)

(* The caller is one task, which is at one of these steps at a time. *)
SubFairness ==
  /\ WF_vars(subject = "substream" /\ ~exited /\ (Call \/ BodyReturns \/ WaitEnds \/ Close))
  /\ \A r \in Results : WF_vars(~exited /\ Collects(r))

MCFairSpec == MCSpec /\ JoinFairness /\ SubFairness

(* HashMapJoinStorage's: one group of a key, found while it is open, whose *)
(* callbacks take turns, and a gauge that counts the stored groups.        *)
StoreSound == Store!StoreSound

(* HashMapJoinStorage's: every group with an expiry is settled.            *)
GroupsSettle == Store!GroupsSettle
=============================================================================
