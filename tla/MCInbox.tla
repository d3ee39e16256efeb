------------------------------- MODULE MCInbox ------------------------------
(***************************************************************************)
(* An instance of Inbox: three deliveries of one message to a consumer that*)
(* uses InboxDeduplicationImpl, two to one that uses the service.          *)
(***************************************************************************)
EXTENDS Inbox, TLC

CONSTANTS k1, k2, d1, d2, d3, d4, d5

MCKeys == {k1, k2}
MCFixedKeys == {k1}
MCDeliveries == {d1, d2, d3, d4, d5}
MCKeyOf == [d \in MCDeliveries |-> IF d \in {d1, d2, d3} THEN k1 ELSE k2]

DeliverySymmetry == Permutations({d1, d2, d3}) \union Permutations({d4, d5})
=============================================================================
