---------------------------- MODULE ClickGateway ----------------------------
(***************************************************************************)
(* The Click merchant endpoint: ClickService and the rows it keeps in      *)
(* payment_transactions and payments.                                      *)
(*                                                                         *)
(* Click prepares a transaction and then completes it; any request may be  *)
(* repeated, delayed or overtaken.  Prepare runs outside any database      *)
(* transaction: it looks for the row, inserts it, and re-reads it when     *)
(* another request inserted it first, as three actions.  Complete holds    *)
(* the row lock from its look to its commit and is one action, followed by *)
(* the publication of the payment event.  Requests whose signature does    *)
(* not verify change nothing and are left out.                             *)
(*                                                                         *)
(* Complete looks for the row by merchant_prepare_id, or by click_trans_id *)
(* when that names no row.  It does not compare the row it found with the  *)
(* click_trans_id.  The model assumes that Click sends the prepare id it   *)
(* was given for this transaction, none, or one that names no row: then    *)
(* both ways find the row of click_trans_id.                               *)
(***************************************************************************)
EXTENDS Integers

CONSTANTS
    ClickIds,       \* Click's transaction identifiers (click_trans_id)
    ClickHandlers,  \* requests the API can be serving at the same time
    Amounts,        \* positive amounts a request may carry
    Students        \* student codes a request may carry, all of them enrolled

VARIABLES
    clickTrans,     \* clickTrans[i]: the payment_transactions row of i, or NoClickRow
    clickPayment,   \* clickPayment[i]: the payments row with receipt CLICK-i, or Unpaid
    clickJob,       \* clickJob[h]: what handler h has left to do
    nextClickRow,   \* next primary key payment_transactions hands out
    clickPublished, \* clickPublished[i]: payment.recorded events the broker took for i
    prepared,       \* every merchant_prepare_id given to Click
    confirmed,      \* every merchant_confirm_id given to Click
    failed          \* transactions whose prepare ended in an internal error

clickVars ==
    <<clickTrans, clickPayment, clickJob, nextClickRow, clickPublished, prepared, confirmed,
      failed>>

-----------------------------------------------------------------------------
(* What a request is about, and the rows.                                  *)

Purpose == [amount : Amounts, student : Students]

NoClickRow == [row |-> 0, state |-> 0, status |-> "ABSENT"]
\* A definition whose name adds a word to the one that follows it
\* (FailedHalfway before Failed) is a mutant of it.
NewClickRow(key, p) == [row |-> key, state |-> 0, status |-> "PENDING", purpose |-> p]
FailedAsCancelled(r) == [r EXCEPT !.state = -1, !.status = "CANCELLED"]
FailedHalfway(r) == [r EXCEPT !.status = "FAILED"]
Failed(r) == [r EXCEPT !.state = -1, !.status = "FAILED"]
Completed(r) == [r EXCEPT !.state = 1, !.status = "SUCCESS"]
ClickRows == [row : Nat \ {0}, state : {-1, 0, 1},
              status : {"PENDING", "SUCCESS", "FAILED"}, purpose : Purpose]

Unpaid == [status |-> "none"]
ConfirmedFor(p) == [status |-> "CONFIRMED", purpose |-> p]
Payment == {Unpaid} \cup [status : {"CONFIRMED"}, purpose : Purpose]

ClickIdle == [step |-> "idle"]
ClickJobs == {ClickIdle}
             \cup [step : {"insert"}, id : ClickIds, purpose : Purpose]
             \cup [step : {"reread", "publish"}, id : ClickIds]

PrepareAnswer == [id : ClickIds, row : Nat \ {0}]
CompleteAnswer == [id : ClickIds, row : Nat \ {0}, purpose : Purpose]

ClickExists(i) == clickTrans[i].status # "ABSENT"
PaidByPaymeRules(i) == clickTrans[i].status = "SUCCESS" /\ clickTrans[i].state = 2
Paid(i) == clickTrans[i].status = "SUCCESS" /\ clickTrans[i].state = 1

\* The unique index on (provider, provider_trans_id).
ClickViolationMissed(i) == FALSE
ClickViolation(i) == ClickExists(i)

GivePrepareId(i, r) == prepared' = prepared \cup {[id |-> i, row |-> r.row]}
GiveConfirmId(i, r, p) ==
    confirmed' = confirmed \cup {[id |-> i, row |-> r.row, purpose |-> p]}

-----------------------------------------------------------------------------
ClickInit ==
    /\ clickTrans = [i \in ClickIds |-> NoClickRow]
    /\ clickPayment = [i \in ClickIds |-> Unpaid]
    /\ clickJob = [h \in ClickHandlers |-> ClickIdle]
    /\ nextClickRow = 1
    /\ clickPublished = [i \in ClickIds |-> 0]
    /\ prepared = {}
    /\ confirmed = {}
    /\ failed = {}

\* prepare finds the row: it hands out its id again, whatever the row's state
\* and whatever this request is about.
PrepareExisting(h, i) ==
    /\ clickJob[h] = ClickIdle
    /\ ClickExists(i)
    /\ GivePrepareId(i, clickTrans[i])
    /\ UNCHANGED <<clickTrans, clickPayment, clickJob, nextClickRow,
                   clickPublished, confirmed, failed>>

PrepareAbsent(h, i, p) ==
    /\ clickJob[h] = ClickIdle
    /\ ~ClickExists(i)
    /\ clickJob' = [clickJob EXCEPT ![h] = [step |-> "insert", id |-> i, purpose |-> p]]
    /\ UNCHANGED <<clickTrans, clickPayment, nextClickRow, clickPublished,
                   prepared, confirmed, failed>>

\* The INSERT, rejected (23505) when another prepare was faster.
PrepareInsert(h) ==
    /\ clickJob[h].step = "insert"
    /\ LET i == clickJob[h].id
           r == NewClickRow(nextClickRow, clickJob[h].purpose)
       IN  IF ClickViolation(i)
             THEN /\ clickJob' = [clickJob EXCEPT ![h] = [step |-> "reread", id |-> i]]
                  /\ UNCHANGED <<clickTrans, nextClickRow, prepared>>
             ELSE /\ clickTrans' = [clickTrans EXCEPT ![i] = r]
                  /\ GivePrepareId(i, r)
                  /\ nextClickRow' = nextClickRow + 1
                  /\ clickJob' = [clickJob EXCEPT ![h] = ClickIdle]
    /\ UNCHANGED <<clickPayment, clickPublished, confirmed, failed>>

\* The loser of that race hands out the winner's id; had it not found the row,
\* the error would surface and Click would get no id.
PrepareRereadRethrown(h) ==
    /\ clickJob[h].step = "reread"
    /\ failed' = failed \cup {clickJob[h].id}
    /\ clickJob' = [clickJob EXCEPT ![h] = ClickIdle]
    /\ UNCHANGED <<clickTrans, clickPayment, nextClickRow, clickPublished,
                   prepared, confirmed>>
PrepareReread(h) ==
    /\ clickJob[h].step = "reread"
    /\ IF ClickExists(clickJob[h].id)
         THEN GivePrepareId(clickJob[h].id, clickTrans[clickJob[h].id]) /\ UNCHANGED failed
         ELSE failed' = failed \cup {clickJob[h].id} /\ UNCHANGED prepared
    /\ clickJob' = [clickJob EXCEPT ![h] = ClickIdle]
    /\ UNCHANGED <<clickTrans, clickPayment, nextClickRow, clickPublished, confirmed>>

\* complete takes a request seriously only if it is about the amount and the
\* student the row was prepared for; any other is refused and changes nothing.
AcceptableUnchecked(i, p) == ClickExists(i)
Acceptable(i, p) == ClickExists(i) /\ clickTrans[i].purpose = p

\* complete of a transaction already paid: confirmed again, even when Click
\* now reports an error.
CompletePaid(h, i, p) ==
    /\ clickJob[h] = ClickIdle
    /\ Acceptable(i, p) /\ Paid(i)
    /\ GiveConfirmId(i, clickTrans[i], p)
    /\ UNCHANGED <<clickTrans, clickPayment, clickJob, nextClickRow,
                   clickPublished, prepared, failed>>

\* complete with a negative error: Click gave the payment up.
CompleteFailed(h, i, p) ==
    /\ clickJob[h] = ClickIdle
    /\ Acceptable(i, p) /\ ~Paid(i)
    /\ clickTrans' = [clickTrans EXCEPT ![i] = Failed(clickTrans[i])]
    /\ UNCHANGED <<clickPayment, clickJob, nextClickRow, clickPublished, prepared,
                   confirmed, failed>>

\* complete without an error, pending or failed before: the money enters the
\* books and the handler goes on to publish the event.
CompletePays(h, i, p) ==
    /\ clickJob[h] = ClickIdle
    /\ Acceptable(i, p) /\ ~Paid(i)
    /\ clickTrans' = [clickTrans EXCEPT ![i] = Completed(clickTrans[i])]
    /\ clickPayment' = [clickPayment EXCEPT ![i] = ConfirmedFor(clickTrans[i].purpose)]
    /\ GiveConfirmId(i, clickTrans[i], p)
    /\ clickJob' = [clickJob EXCEPT ![h] = [step |-> "publish", id |-> i]]
    /\ UNCHANGED <<nextClickRow, clickPublished, prepared, failed>>

ClickPublish(h) ==
    /\ clickJob[h].step = "publish"
    /\ \/ clickPublished' = [clickPublished EXCEPT ![clickJob[h].id] = @ + 1]
       \/ UNCHANGED clickPublished
    /\ clickJob' = [clickJob EXCEPT ![h] = ClickIdle]
    /\ UNCHANGED <<clickTrans, clickPayment, nextClickRow, prepared, confirmed, failed>>

\* The API process stops and starts again.
ClickCrash ==
    /\ \E h \in ClickHandlers : clickJob[h] # ClickIdle
    /\ clickJob' = [h \in ClickHandlers |-> ClickIdle]
    /\ UNCHANGED <<clickTrans, clickPayment, nextClickRow, clickPublished,
                   prepared, confirmed, failed>>

Prepare(h, i, p) == PrepareExisting(h, i) \/ PrepareAbsent(h, i, p)
Complete(h, i, p) ==
    CompletePaid(h, i, p) \/ CompleteFailed(h, i, p) \/ CompletePays(h, i, p)

\* The steps a running handler takes by itself.
ClickContinue(h) == PrepareInsert(h) \/ PrepareReread(h) \/ ClickPublish(h)

ClickNext ==
    \/ \E h \in ClickHandlers :
         \/ \E i \in ClickIds, p \in Purpose : Prepare(h, i, p) \/ Complete(h, i, p)
         \/ ClickContinue(h)
    \/ ClickCrash

ClickSpec == ClickInit /\ [][ClickNext]_clickVars

-----------------------------------------------------------------------------
(* Safety and refinement.                                                  *)

ClickTypeOK ==
    /\ clickTrans \in [ClickIds -> ClickRows \cup {NoClickRow}]
    /\ clickPayment \in [ClickIds -> Payment]
    /\ clickJob \in [ClickHandlers -> ClickJobs]
    /\ nextClickRow \in Nat \ {0}
    /\ clickPublished \in [ClickIds -> Nat]
    /\ prepared \subseteq PrepareAnswer
    /\ confirmed \subseteq CompleteAnswer
    /\ failed \subseteq ClickIds

\* Whatever Click had confirmed to it is in the books, for the very amount and
\* student of the request that was confirmed, and stays there; and all ids it
\* was ever given for a transaction are the same one, however prepares raced.
ConfirmedIsBooked ==
    /\ \A c \in confirmed : clickPayment[c.id] = ConfirmedFor(c.purpose)
    /\ \A a, b \in prepared \cup confirmed : a.id = b.id => a.row = b.row

\* A prepare that loses the race for the unique index is answered too.
ClickLoserAnswered == failed = {}

\* The two status representations of a row and the payments table agree: money
\* is booked exactly for the transactions that stand SUCCESS with state 1.
ClickBooksAgree ==
    \A i \in ClickIds :
        /\ clickPayment[i] # Unpaid <=> clickTrans[i].status = "SUCCESS"
        /\ clickTrans[i].status = "SUCCESS" <=> clickTrans[i].state = 1
        /\ clickTrans[i].status = "FAILED" <=> clickTrans[i].state = -1

\* What Click was told is booked, for the student and the amount it was told it
\* for, and nothing else: prepare and complete, raced and repeated.
ClickIsBooked == ConfirmedIsBooked /\ ClickBooksAgree

\* A paid transaction is closed: no later complete, and in particular no
\* report of a failure, touches its row or its payment.
PaidIsFinal ==
    [][\A i \in ClickIds : clickTrans[i].status = "SUCCESS"
          => clickTrans'[i] = clickTrans[i] /\ clickPayment'[i] = clickPayment[i]]_clickVars

ClickEntryOf(i) ==
    CASE clickTrans[i].status = "ABSENT" -> "none"
      [] clickTrans[i].status = "PENDING" -> "open"
      [] clickTrans[i].status = "SUCCESS" -> "credited"
      [] clickTrans[i].status = "FAILED" -> "void"

\* Click keeps the promise of PaymentLedger, with two differences from Payme:
\* a transaction Click gave up may still be completed, and none is refunded.
ClickLedger == INSTANCE PaymentLedger
                 WITH Ids <- ClickIds, Revivable <- ClickIds, Refundable <- {},
                      entry <- [i \in ClickIds |-> ClickEntryOf(i)], announced <- clickPublished

ClickImplementsLedger == ClickLedger!Spec
=============================================================================
