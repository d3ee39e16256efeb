------------------------------ MODULE Delivery ------------------------------
(***************************************************************************)
(* What an outbox promises to the producer of a message: the message is    *)
(* delivered at least once or given up, its fate is decided once and for   *)
(* all, and nothing is delivered after the decision.                       *)
(***************************************************************************)
EXTENDS Naturals

CONSTANT Messages

VARIABLES fate,    \* what has become of each message
          copies   \* how many times it was delivered

vars == <<fate, copies>>

Init == fate = [m \in Messages |-> "none"] /\ copies = [m \in Messages |-> 0]

Accept(m) == /\ fate[m] = "none"
             /\ fate' = [fate EXCEPT ![m] = "pending"]
             /\ UNCHANGED copies

Deliver(m) == /\ fate[m] = "pending"
              /\ copies' = [copies EXCEPT ![m] = @ + 1]
              /\ UNCHANGED fate

Settle(m) == /\ fate[m] = "pending"
             /\ \/ fate' = [fate EXCEPT ![m] = "failed"]
                \/ copies[m] > 0 /\ fate' = [fate EXCEPT ![m] = "sent"]
             /\ UNCHANGED copies

Next == \E m \in Messages : Accept(m) \/ Deliver(m) \/ Settle(m)

Spec == Init /\ [][Next]_vars

FairSpec == Spec /\ \A m \in Messages : WF_vars(Settle(m))
=============================================================================
