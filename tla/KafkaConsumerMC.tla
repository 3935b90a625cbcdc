---------------------------- MODULE KafkaConsumerMC ----------------------------
(* Model values with which TLC checks KafkaConsumer.                           *)
EXTENDS KafkaConsumer

CONSTANTS t1, t2, d1, d2
================================================================================
