--------------------------- MODULE AvroSerializerMC ---------------------------
(* Model values with which TLC checks AvroSerializer.                          *)
EXTENDS AvroSerializer, TLC

CONSTANTS t1, t2

\* One topic with both schemas, one with a schema for the value only.
BothAndValue == t1 :> {"key", "value"} @@ t2 :> {"value"}
================================================================================
