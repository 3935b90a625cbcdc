------------------------------ MODULE SnowflakeMC ------------------------------
(* Two hosts, one of them with two instances; sequences of two ids.            *)
EXTENDS Snowflake, TLC

CONSTANTS a, b, c, hostA, hostB

MCHostOf == a :> hostA @@ b :> hostA @@ c :> hostB

\* a and b share a host, a node and an epoch; c has a node and an epoch of its own.
MCNode == a :> 0 @@ b :> 0 @@ c :> 1
MCEpoch == a :> 0 @@ b :> 0 @@ c :> 1
================================================================================
