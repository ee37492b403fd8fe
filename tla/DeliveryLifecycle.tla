-------------------------- MODULE DeliveryLifecycle --------------------------
(***************************************************************************)
(* What the notification service promises about a delivery: it is          *)
(* attempted at most MaxAttempts times until it is delivered or abandoned, *)
(* and then stays so.  No workers, claims or leases.                       *)
(***************************************************************************)
EXTENDS Naturals

CONSTANTS Deliveries, MaxAttempts

VARIABLES
    state,  \* "absent", "waiting", "delivered", "abandoned", "deleted"
    tries   \* attempts made

vars == <<state, tries>>

Init ==
    /\ state = [d \in Deliveries |-> "absent"]
    /\ tries = [d \in Deliveries |-> 0]

Announce(D) ==
    /\ \A d \in D : state[d] = "absent"
    /\ state' = [d \in Deliveries |-> IF d \in D THEN "waiting" ELSE state[d]]
    /\ UNCHANGED tries

\* One attempt; the last one leaves nothing to wait for.
Attempt(d, result) ==
    /\ state[d] = "waiting"
    /\ result = "waiting" => tries[d] + 1 < MaxAttempts
    /\ tries' = [tries EXCEPT ![d] = tries[d] + 1]
    /\ state' = [state EXCEPT ![d] = result]

Delete(D) ==
    /\ state' = [d \in Deliveries |-> IF d \in D /\ state[d] # "absent"
                                      THEN "deleted" ELSE state[d]]
    /\ tries' = [d \in Deliveries |-> IF d \in D THEN 0 ELSE tries[d]]

Next ==
    \/ \E d \in Deliveries, result \in {"waiting", "delivered", "abandoned"} :
          Attempt(d, result)
    \/ \E D \in SUBSET Deliveries : Announce(D) \/ Delete(D)

Spec == Init /\ [][Next]_vars
=============================================================================
