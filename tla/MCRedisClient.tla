--------------------------- MODULE MCRedisClient ---------------------------
(***************************************************************************)
(* Instances of RedisClient for TLC.                                       *)
(***************************************************************************)
EXTENDS RedisClient, TLC

\* Callers are interchangeable in the safety properties.
CallerSymmetry == Permutations(Caller)
=============================================================================
