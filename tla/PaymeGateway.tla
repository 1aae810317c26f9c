---------------------------- MODULE PaymeGateway ----------------------------
(***************************************************************************)
(* The Payme merchant endpoint: PaymeService and the rows it keeps in      *)
(* payment_transactions and payments.                                      *)
(*                                                                         *)
(* Payme may send any call for any transaction at any time, in any order   *)
(* and any number of times: each handler below picks its request freely.   *)
(* Several handlers run at once.  A handler whose database transaction     *)
(* locks an existing row is one action, because the row lock keeps every   *)
(* other handler of that row out until it commits.  A handler that found   *)
(* no row holds no lock: CreateTransaction is therefore three actions      *)
(* (look, insert, re-read), and publishing the payment event, which runs   *)
(* after the commit, is an action of its own.                              *)
(***************************************************************************)
EXTENDS Integers

CONSTANTS
    Ids,        \* Payme's transaction identifiers (provider_trans_id)
    Handlers,   \* requests the API can be serving at the same time
    Timeout,    \* TIMEOUT_MS, in clock ticks
    MaxClock    \* bound: the clock stops here

ASSUME TimeoutAssumption == Timeout \in Nat
ASSUME MaxClockAssumption == MaxClock \in Nat

VARIABLES
    trans,      \* trans[i]: the payment_transactions row of i, or NoRow
    payment,    \* payment[i]: status of the payments row with receipt PAYME-i
    job,        \* job[h]: what handler h has left to do
    clock,      \* Date.now()
    nextRow,    \* next primary key payment_transactions hands out
    published,  \* published[i]: payment.recorded events the broker took for i
    answers,    \* every result ever sent to Payme
    refusals    \* every error ever sent to Payme that the properties use

vars == <<trans, payment, job, clock, nextRow, published, answers, refusals>>

-----------------------------------------------------------------------------
(* Rows.  A time of 0 is a NULL column; a state of 0 is the column default *)
(* and only stands for a row that is not there.                            *)

FreshRow(key, state, status, time) ==
    [row |-> key, state |-> state, status |-> status, created |-> time,
     performTime |-> 0, cancelTime |-> 0, reason |-> "null", paymentRecord |-> FALSE]

NoRow == FreshRow(0, 0, "ABSENT", 0)

\* The row as inserted, timed out, performed and cancelled.  A definition whose
\* name adds a word to the one that follows it (ExpiredUncoded before Expired) is
\* a mutant of it: the same code with a plausible bug, used to show that the
\* properties notice.
NewRow(key, time) == FreshRow(key, 1, "PENDING", time)
ExpiredUncoded(r) == [r EXCEPT !.state = -1, !.status = "CANCELLED", !.reason = "expired"]
Expired(r) == [r EXCEPT !.state = -1, !.status = "CANCELLED", !.reason = "timeout"]
PerformedUnlinked(r, now) == [r EXCEPT !.state = 2, !.status = "SUCCESS",
                                       !.performTime = now]
Performed(r, now) == [r EXCEPT !.state = 2, !.status = "SUCCESS",
                               !.performTime = now, !.paymentRecord = TRUE]
CancelledUntimed(r, now) == [r EXCEPT !.state = -r.state, !.status = "CANCELLED",
                                      !.reason = "payme"]
Cancelled(r, now) == [r EXCEPT !.state = -r.state, !.status = "CANCELLED",
                               !.cancelTime = now, !.reason = "payme"]

\* The reason column: unset, 4 written by the timeout, or Payme's own code.
Reasons == {"null", "timeout", "payme"}

Row == [row : Nat, state : {-2, -1, 0, 1, 2},
        status : {"ABSENT", "PENDING", "SUCCESS", "CANCELLED"},
        created : Nat, performTime : Nat, cancelTime : Nat,
        reason : Reasons, paymentRecord : BOOLEAN]

PaymentStatus == {"none", "CONFIRMED", "REFUNDED"}

Idle == [step |-> "idle"]
Job == {Idle}
       \cup [step : {"insert"}, id : Ids, time : Nat]
       \cup [step : {"reread", "publish"}, id : Ids]

\* An answer carries what Payme reconciles on: the merchant's transaction
\* (row), the state, and the time of the method that was called.
Answer == [method : {"create", "perform", "cancel"}, id : Ids, row : Nat,
           state : {-2, -1, 1, 2}, time : Nat]
Refusal == [id : Ids, error : {-31008, -32400}]

Exists(i) == trans[i] # NoRow
TimedOutNever(i) == FALSE
TimedOut(i) == clock - trans[i].created > Timeout

\* The unique index on (provider, provider_trans_id).
UniqueViolationMissed(i) == FALSE
UniqueViolation(i) == Exists(i)

Reply(m, i, r, t) ==
    /\ answers' = answers \cup {[method |-> m, id |-> i, row |-> r.row,
                                 state |-> r.state, time |-> t]}
    /\ UNCHANGED refusals
Refuse(i, code) ==
    /\ refusals' = refusals \cup {[id |-> i, error |-> code]}
    /\ UNCHANGED answers

-----------------------------------------------------------------------------
Init ==
    /\ trans = [i \in Ids |-> NoRow]
    /\ payment = [i \in Ids |-> "none"]
    /\ job = [h \in Handlers |-> Idle]
    /\ clock = 1
    /\ nextRow = 1
    /\ published = [i \in Ids |-> 0]
    /\ answers = {}
    /\ refusals = {}

\* Both CreateTransaction and PerformTransaction expire a pending transaction
\* they come across too late.  cancel_time is left NULL.
Expire(i) ==
    /\ trans[i].state = 1 /\ TimedOut(i)
    /\ trans' = [trans EXCEPT ![i] = Expired(trans[i])]
    /\ Refuse(i, -31008)
    /\ UNCHANGED <<payment, job, clock, nextRow, published>>

\* createTransaction, the row is there: expire it, or report it as it is.
CreateExisting(h, i) ==
    /\ job[h] = Idle
    /\ Exists(i)
    /\ \/ Expire(i)
       \/ /\ ~(trans[i].state = 1 /\ TimedOut(i))
          /\ Reply("create", i, trans[i], trans[i].created)
          /\ UNCHANGED <<trans, payment, job, clock, nextRow, published>>

\* createTransaction, no row yet: checkPerformTransaction decides whether the
\* amount and the student are acceptable (payable); if so the handler goes on
\* to insert, remembering the creation time Payme sent.
CreateAbsent(h, i, time, payable) ==
    /\ job[h] = Idle
    /\ ~Exists(i)
    /\ IF payable
         THEN job' = [job EXCEPT ![h] = [step |-> "insert", id |-> i, time |-> time]]
         ELSE UNCHANGED job
    /\ UNCHANGED <<trans, payment, clock, nextRow, published, answers, refusals>>

\* The INSERT, and with it the commit.  The unique index rejects it (23505) when
\* another handler got there first.
CreateInsert(h) ==
    /\ job[h].step = "insert"
    /\ LET i == job[h].id
       IN  IF UniqueViolation(i)
             THEN /\ job' = [job EXCEPT ![h] = [step |-> "reread", id |-> i]]
                  /\ UNCHANGED <<trans, nextRow, answers, refusals>>
             ELSE /\ trans' = [trans EXCEPT ![i] = NewRow(nextRow, job[h].time)]
                  /\ Reply("create", i, NewRow(nextRow, job[h].time), job[h].time)
                  /\ nextRow' = nextRow + 1
                  /\ job' = [job EXCEPT ![h] = Idle]
    /\ UNCHANGED <<payment, clock, published>>

\* The loser of that race reads the winner's row, outside any transaction, and
\* reports it; without a row the error would surface as -32400.
CreateRereadRethrown(h) ==
    /\ job[h].step = "reread"
    /\ Refuse(job[h].id, -32400)
    /\ job' = [job EXCEPT ![h] = Idle]
    /\ UNCHANGED <<trans, payment, clock, nextRow, published>>
CreateReread(h) ==
    /\ job[h].step = "reread"
    /\ LET i == job[h].id
       IN  IF Exists(i)
             THEN Reply("create", i, trans[i], trans[i].created)
             ELSE Refuse(i, -32400)
    /\ job' = [job EXCEPT ![h] = Idle]
    /\ UNCHANGED <<trans, payment, clock, nextRow, published>>

\* performTransaction while the transaction is pending and in time: the money
\* enters the books and the handler goes on to publish the event.  The unique
\* receipt_number cannot reject the payments row: see PendingIsUnpaid.
PerformPending(h, i) ==
    /\ job[h] = Idle
    /\ trans[i].state = 1 /\ ~TimedOut(i)
    /\ trans' = [trans EXCEPT ![i] = Performed(trans[i], clock)]
    /\ Reply("perform", i, Performed(trans[i], clock), clock)
    /\ payment' = [payment EXCEPT ![i] = "CONFIRMED"]
    /\ job' = [job EXCEPT ![h] = [step |-> "publish", id |-> i]]
    /\ UNCHANGED <<clock, nextRow, published>>

\* performTransaction in any other state.  An unknown transaction is refused
\* with -31007, which nothing below distinguishes from no call at all.
PerformOther(h, i) ==
    /\ job[h] = Idle
    /\ Exists(i)
    /\ \/ Expire(i)
       \/ /\ trans[i].state = 2
          /\ Reply("perform", i, trans[i],
                   IF trans[i].performTime # 0 THEN trans[i].performTime ELSE clock)
          /\ UNCHANGED <<trans, payment, job, clock, nextRow, published>>
       \/ /\ trans[i].state \in {-1, -2}
          /\ Refuse(i, -31008)
          /\ UNCHANGED <<trans, payment, job, clock, nextRow, published>>

\* cancelTransaction: a pending transaction is dropped, a performed one is
\* refunded, a cancelled one is reported again.
Cancel(h, i) ==
    /\ job[h] = Idle
    /\ Exists(i)
    /\ IF trans[i].state \in {1, 2}
         THEN /\ trans' = [trans EXCEPT ![i] = Cancelled(trans[i], clock)]
              /\ Reply("cancel", i, Cancelled(trans[i], clock), clock)
         ELSE /\ UNCHANGED trans
              /\ Reply("cancel", i, trans[i],
                       IF trans[i].cancelTime # 0 THEN trans[i].cancelTime ELSE clock)
    /\ payment' = IF trans[i].state = 2 /\ trans[i].paymentRecord
                    THEN [payment EXCEPT ![i] = "REFUNDED"]
                    ELSE payment
    /\ UNCHANGED <<job, clock, nextRow, published>>

\* After the commit the handler publishes payment.recorded; a failure is
\* swallowed and the event is gone.
PublishRetried(h) ==
    /\ job[h].step = "publish"
    /\ published' = [published EXCEPT ![job[h].id] = @ + 1]
    /\ published[job[h].id] < 2
    /\ \/ job' = [job EXCEPT ![h] = Idle]
       \/ UNCHANGED job
    /\ UNCHANGED <<trans, payment, clock, nextRow, answers, refusals>>
Publish(h) ==
    /\ job[h].step = "publish"
    /\ \/ published' = [published EXCEPT ![job[h].id] = @ + 1]
       \/ UNCHANGED published
    /\ job' = [job EXCEPT ![h] = Idle]
    /\ UNCHANGED <<trans, payment, clock, nextRow, answers, refusals>>

\* The API process stops and starts again: committed rows survive, every
\* handler is gone.
Crash ==
    /\ \E h \in Handlers : job[h] # Idle
    /\ job' = [h \in Handlers |-> Idle]
    /\ UNCHANGED <<trans, payment, clock, nextRow, published, answers, refusals>>

Tick ==
    /\ clock < MaxClock
    /\ clock' = clock + 1
    /\ UNCHANGED <<trans, payment, job, nextRow, published, answers, refusals>>

\* The steps a running handler takes by itself.
Continue(h) == CreateInsert(h) \/ CreateReread(h) \/ Publish(h)

Next ==
    \/ \E h \in Handlers :
         \/ \E i \in Ids :
              \/ CreateExisting(h, i)
              \/ \E time \in 1..clock, payable \in BOOLEAN :
                   CreateAbsent(h, i, time, payable)
              \/ PerformPending(h, i)
              \/ PerformOther(h, i)
              \/ Cancel(h, i)
         \/ Continue(h)
    \/ Crash
    \/ Tick

Spec == Init /\ [][Next]_vars

-----------------------------------------------------------------------------
(* Safety.                                                                 *)

TypeOK ==
    /\ trans \in [Ids -> Row]
    /\ payment \in [Ids -> PaymentStatus]
    /\ job \in [Handlers -> Job]
    /\ clock \in Nat
    /\ nextRow \in Nat \ {0}
    /\ published \in [Ids -> Nat]
    /\ answers \subseteq Answer
    /\ refusals \subseteq Refusal

\* The books and the gateway agree: money is in the ledger exactly while the
\* transaction stands performed, and refunded exactly when a performed one was
\* cancelled; the two status representations of the row never part.
BooksAgree ==
    \A i \in Ids :
        /\ payment[i] = "CONFIRMED" <=> trans[i].state = 2
        /\ payment[i] = "REFUNDED" <=> trans[i].state = -2
        /\ trans[i].status = CASE trans[i].state = 0 -> "ABSENT"
                               [] trans[i].state = 1 -> "PENDING"
                               [] trans[i].state = 2 -> "SUCCESS"
                               [] OTHER -> "CANCELLED"

\* What Payme was told stays true of the money.  Once any call was answered
\* "cancelled" (-1) or "too late" (-31008), by whichever handler, the
\* transaction holds no money, now or later; once one was answered "performed"
\* the money did come in.
ToldIsKept ==
    /\ \A a \in answers :
         /\ a.state = -1 => payment[a.id] = "none"
         /\ a.state = -2 => payment[a.id] = "REFUNDED"
         /\ a.state = 2 => payment[a.id] # "none"
    /\ \A e \in refusals : e.error = -31008 => payment[e.id] # "CONFIRMED"

\* Two answers to the same call about the same transaction agree, however they
\* were retried or raced: the merchant's row is the same, and so is the time.
\* Only cancel_time of a transaction the timeout closed is left out: the
\* timeout stores no cancel_time, so each repeated CancelTransaction reports
\* the moment it is served.
AnswersAgree ==
    \A a, b \in answers :
        a.id = b.id =>
            /\ a.row = b.row
            /\ a.method = b.method /\ ~(a.method = "cancel" /\ trans[a.id].reason = "timeout")
                 => a.time = b.time

\* A create that lost the race for the unique index is still answered: the
\* row it re-reads is there, so the internal error never reaches Payme.
RaceLoserAnswered == \A e \in refusals : e.error # -32400

\* No money comes in for a transaction older than the timeout, even when the
\* call that created it arrived late.
NoLateMoney ==
    \A i \in Ids :
        trans[i].paymentRecord => trans[i].performTime - trans[i].created <= Timeout

\* A cancelled transaction is closed: nothing a later call does, and nothing a
\* handler that started before does, changes its row or its payment again.
CancelledIsFinal ==
    [][\A i \in Ids : trans[i].state < 0
          => /\ trans'[i] = trans[i] /\ payment'[i] = payment[i]]_vars

-----------------------------------------------------------------------------
(* Refinement.                                                             *)

EntryOf(i) ==
    CASE trans[i].state = 0 -> "none"
      [] trans[i].state = 1 -> "open"
      [] trans[i].state = 2 -> "credited"
      [] trans[i].state = -1 -> "void"
      [] trans[i].state = -2 -> "refunded"

Ledger == INSTANCE PaymentLedger
            WITH Revivable <- {}, Refundable <- Ids,
                 entry <- [i \in Ids |-> EntryOf(i)], announced <- published

\* The gateway implements the ledger: each transaction credits at most once,
\* is refunded only after that, and is announced at most once.
ImplementsLedger == Ledger!Spec
=============================================================================
