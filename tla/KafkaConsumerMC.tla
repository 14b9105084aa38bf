-------------------------- MODULE KafkaConsumerMC ---------------------------
(* An instance of KafkaConsumer for TLC: two partitions of two messages,
   of which one in each always fails. *)
EXTENDS KafkaConsumer

CONSTANTS p1, p2

TwoPoison == {<<p1, 1>>, <<p2, 0>>}
=============================================================================
