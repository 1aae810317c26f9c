--------------------------- MODULE PaymentLedger ---------------------------
(***************************************************************************)
(* What the billing module owes the school's books, whatever the provider: *)
(* one provider transaction moves money into the ledger at most once, and  *)
(* out of it only after it came in.  PaymeGateway and ClickGateway are     *)
(* shown to implement this module.                                         *)
(*                                                                         *)
(* Ids are the provider's transaction identifiers.  A void transaction is  *)
(* one that was given up before any money moved; only the ids in Revivable *)
(* may still be credited after that (Click may complete a transaction      *)
(* whose first completion reported a failure, Payme may not).              *)
(***************************************************************************)
EXTENDS Naturals

CONSTANTS Ids, Revivable, Refundable

VARIABLES
    entry,      \* entry[i]: where transaction i stands in the books
    announced   \* announced[i]: payment.recorded events sent for i

vars == <<entry, announced>>

Stage == {"none", "open", "void", "credited", "refunded"}

TypeOK ==
    /\ entry \in [Ids -> Stage]
    /\ announced \in [Ids -> Nat]

Init ==
    /\ entry = [i \in Ids |-> "none"]
    /\ announced = [i \in Ids |-> 0]

Move(i, from, to) ==
    /\ entry[i] = from
    /\ entry' = [entry EXCEPT ![i] = to]
    /\ UNCHANGED announced

Open(i) == Move(i, "none", "open")
Void(i) == Move(i, "open", "void")
Credit(i) == Move(i, "open", "credited")
Revive(i) == i \in Revivable /\ Move(i, "void", "credited")
Refund(i) == i \in Refundable /\ Move(i, "credited", "refunded")

\* The event that tells parents and the audit trail about a payment goes out
\* at most once, and never for money that was not received.
Announce(i) ==
    /\ entry[i] \in {"credited", "refunded"}
    /\ announced[i] = 0
    /\ announced' = [announced EXCEPT ![i] = 1]
    /\ UNCHANGED entry

Next ==
    \E i \in Ids :
        Open(i) \/ Void(i) \/ Credit(i) \/ Revive(i) \/ Refund(i) \/ Announce(i)

Spec == Init /\ [][Next]_vars
=============================================================================
