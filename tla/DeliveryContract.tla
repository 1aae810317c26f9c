-------------------------- MODULE DeliveryContract --------------------------
(***************************************************************************)
(* What the event bus promises a consumer about one event: once published  *)
(* it is worked on, possibly several times and with effects repeated; it   *)
(* counts as done only when each effect was tried at least once, as dead   *)
(* when it was given up, and neither is ever taken back.  A duplicate of a *)
(* settled event may still be worked on.                                   *)
(***************************************************************************)
CONSTANTS
    Deliveries,     \* pairs of an event and the queue it is bound to
    Effects         \* Effects[d]: the effects of handling d

VARIABLES
    standing,       \* standing[d]: which of published, done, dead d has been
    tried           \* tried[d]: the effects of d tried so far

Init ==
    /\ standing = [d \in Deliveries |-> {}]
    /\ tried = [d \in Deliveries |-> {}]

Publish(d) ==
    /\ standing[d] = {}
    /\ standing' = [standing EXCEPT ![d] = {"published"}]
    /\ UNCHANGED tried

Try(d, x) ==
    /\ "published" \in standing[d]
    /\ tried' = [tried EXCEPT ![d] = @ \cup {x}]
    /\ UNCHANGED standing

Settle(d, outcome) ==
    /\ "published" \in standing[d]
    /\ outcome = "done" => tried[d] = Effects[d]
    /\ standing' = [standing EXCEPT ![d] = @ \cup {outcome}]
    /\ UNCHANGED tried

Next ==
    \E d \in Deliveries :
        \/ Publish(d)
        \/ \E x \in Effects[d] : Try(d, x)
        \/ \E outcome \in {"done", "dead"} : Settle(d, outcome)

Spec == Init /\ [][Next]_<<standing, tried>>
=============================================================================
