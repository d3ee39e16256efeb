------------------------------ MODULE MCOutbox ------------------------------
(***************************************************************************)
(* Instances of Outbox: two messages under two relays, three under one;    *)
(* the payload of m1 is not an object.  m3 may not be retried.             *)
(***************************************************************************)
EXTENDS Outbox, TLC

CONSTANTS m1, m2, m3, r1, r2

TwoMessages == {m1, m2}
ThreeMessages == {m1, m2, m3}
PoisonMessages == {m1}
OneRelay == {r1}
TwoRelays == {r1, r2}

TwoRetriesEach == [m \in TwoMessages |-> 2]
ThreeRetriesOrNone == (m1 :> 3) @@ (m2 :> 3) @@ (m3 :> 0)

RelaySymmetry == Permutations(TwoRelays)
=============================================================================
