---------------------------- MODULE RotatingMap ----------------------------
(***************************************************************************)
(* The two-bucket map of runtime/store/rotatingmap.py.  No method awaits,  *)
(* so each is one step of whoever calls it.  A bucket is a function of all *)
(* keys; NoValue stands for an absent one.                                 *)
(***************************************************************************)
EXTENDS Integers, FiniteSets

CONSTANTS Keys, Values, NoValue,
          ShrinkFactor,   (* _SHRINK_FACTOR *)
          MinCapacity     (* min_capacity *)

ASSUME ValuesAssumption == NoValue \notin Values
ASSUME KeysFinite == IsFiniteSet(Keys)
ASSUME CapacityAssumption == ShrinkFactor \in Nat \ {0} /\ MinCapacity \in Nat

VARIABLES current, prev,   \* _current, _prev
          mark             \* _high_water_mark

mapVars == <<current, prev, mark>>

Bucket == [Keys -> Values \union {NoValue}]
EmptyBucket == [k \in Keys |-> NoValue]

Size(b) == Cardinality({k \in Keys : b[k] # NoValue})

Total == Size(current) + Size(prev)

MapInit == current = EmptyBucket /\ prev = EmptyBucket /\ mark = 0

(* get: the value of a key, NoValue when neither bucket has it. *)
Get(k) == IF current[k] # NoValue THEN current[k] ELSE prev[k]

Has(k) == current[k] # NoValue \/ prev[k] # NoValue

(* set, for a key that Has does not find (it raises ValueError otherwise). *)
Set(k, v) ==
  /\ current' = [current EXCEPT ![k] = v]
  /\ UNCHANGED <<prev, mark>>

(* pop: the first bucket that has the key loses it. *)
Pop(k) ==
  /\ IF current[k] # NoValue
       THEN current' = [current EXCEPT ![k] = NoValue] /\ UNCHANGED prev
       ELSE prev' = [prev EXCEPT ![k] = NoValue] /\ UNCHANGED current
  /\ UNCHANGED mark

MergedDropping == current   \* Fault: the old bucket is dropped

Merged == [k \in Keys |-> IF prev[k] # NoValue THEN prev[k] ELSE current[k]]

HighWater == IF Total > mark THEN Total ELSE mark

Shrunk == mark = 0 \/ Total * ShrinkFactor < mark

(* _rotate *)
Rotate ==
  IF Shrunk /\ HighWater >= MinCapacity
    THEN mark' = Total /\ prev' = Merged /\ current' = EmptyBucket
    ELSE mark' = HighWater /\ UNCHANGED <<current, prev>>
=============================================================================
