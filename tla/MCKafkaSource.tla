--------------------------- MODULE MCKafkaSource ---------------------------
(* Instances of KafkaSource for TLC. *)
EXTENDS KafkaSource, TLC

CONSTANTS p1, p2

TwoPartitions == {p1, p2}
OneLonger == p1 :> 2 @@ p2 :> 1
=============================================================================
