---------------------------- MODULE KafkaProducerMC ----------------------------
(* Model values with which TLC checks KafkaProducer.                           *)
EXTENDS KafkaProducer, TLC

Symmetry == Permutations(Sends) \cup Permutations(Disconnects)
================================================================================
