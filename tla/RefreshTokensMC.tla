---------------------------- MODULE RefreshTokensMC ----------------------------
(* Model values and the bounds with which TLC checks RefreshTokens.            *)
EXTENDS RefreshTokens

AllOps == OpNames
================================================================================
