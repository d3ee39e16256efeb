------------------------- MODULE MCRedisConnections -------------------------
(***************************************************************************)
(* An instance of RedisConnections: a pool of two, two calls of disconnect *)
(* and one of healthCheck that overlap everything.                         *)
(***************************************************************************)
EXTENDS RedisConnections

CONSTANTS d1, d2, h1

MCDisconnects == {d1, d2}
MCHealthChecks == {h1}
=============================================================================
