----------------------------- MODULE MCGitCalls -----------------------------
(***************************************************************************)
(* An instance of GitCalls: three calls, one of which may be a health      *)
(* check, with a quota of one request in a window of three units of time.  *)
(***************************************************************************)
EXTENDS GitCalls

CONSTANTS c1, c2, c3

MCCalls == {c1, c2, c3}
MCRetryAfters == {1}
MCBackoff == [a \in 1..MaxAttempts |-> BaseDelayMs * 4^(a - 1)]
=============================================================================
