-------------------------- MODULE Gateways_proofs --------------------------
(***************************************************************************)
(* Proofs about PaymeGateway and ClickGateway, for every set of            *)
(* transactions, handlers, amounts and students, every timeout and every   *)
(* bound of the clock.  Each gateway has its inductive invariant (IInv,    *)
(* ClickIInv): what a row and its payment look like in each state (RowOK), *)
(* what a handler that still has work to do may rely on (JobInv), and what *)
(* each answer already sent says about the row it was about (AnswerInv).   *)
(* RowOK and AnswerOK speak of values, not of variables: the lemmas below  *)
(* establish them once for each way a row changes, and the proof of a step *)
(* only has to say which row changed and how.                              *)
(***************************************************************************)
EXTENDS PaymeGateway, ClickGateway, TLAPS

-----------------------------------------------------------------------------
(* PaymeGateway.                                                           *)

\* Row r, the status p of its payment and the number n of its events.
RowOK(r, p, n) ==
    /\ r.state = 0 => r = NoRow
    /\ r.state # 0 => r.row # 0
    /\ r.state = 2 => p = "CONFIRMED"
    /\ r.state = -2 => p = "REFUNDED"
    /\ r.state \in {0, 1, -1} => p = "none" /\ n = 0
    /\ r.status = CASE r.state = 0 -> "ABSENT"
                    [] r.state = 1 -> "PENDING"
                    [] r.state = 2 -> "SUCCESS"
                    [] OTHER -> "CANCELLED"
    /\ r.paymentRecord <=> r.state \in {2, -2}
    /\ r.paymentRecord =>
         r.performTime # 0 /\ r.performTime - r.created <= Timeout
    /\ r.state \in {0, 1, 2} => r.reason = "null"
    /\ r.state < 0 /\ r.reason # "timeout" => r.cancelTime # 0

\* Answer a, in view of the row r it was about.
AnswerOK(a, r) ==
    /\ r.state # 0
    /\ a.row = r.row
    /\ a.state \in {-1, -2} => r.state = a.state
    /\ a.state = 2 => r.state \in {2, -2}
    /\ a.method = "create" => a.time = r.created
    /\ a.method = "perform" => a.state = 2 /\ a.time = r.performTime
    /\ a.method = "cancel" => /\ r.state < 0
                              /\ r.reason # "timeout" => a.time = r.cancelTime

RowInv == \A i \in Ids : RowOK(trans[i], payment[i], published[i])

JobInv ==
    /\ \A h \in Handlers :
         /\ job[h].step = "reread" => trans[job[h].id].state # 0
         /\ job[h].step = "publish" =>
              trans[job[h].id].state \in {2, -2} /\ published[job[h].id] = 0
    /\ \A g, h \in Handlers :
         job[g].step = "publish" /\ job[h].step = "publish" /\ job[g].id = job[h].id
           => g = h

AnswerInv ==
    /\ \A a \in answers : AnswerOK(a, trans[a.id])
    /\ \A e \in refusals : e.error = -31008 /\ trans[e.id].state < 0

IInv == TypeOK /\ clock # 0 /\ RowInv /\ JobInv /\ AnswerInv

USE TimeoutAssumption, MaxClockAssumption

-----------------------------------------------------------------------------
(* How a row changes.                                                      *)

LEMMA NewRowLemma ==
    ASSUME NEW key \in Nat \ {0}, NEW time \in Nat
    PROVE  /\ NewRow(key, time) \in Row
           /\ NewRow(key, time).state = 1
           /\ NewRow(key, time).row = key
           /\ NewRow(key, time).created = time
           /\ RowOK(NewRow(key, time), "none", 0)
<1>1. NewRow(key, time) \in Row
  BY DEF NewRow, FreshRow, Row, Reasons
<1>2. QED
  BY <1>1 DEF NewRow, FreshRow, RowOK

LEMMA ExpiredLemma ==
    ASSUME NEW r \in Row, r.state = 1, NEW p, NEW n, RowOK(r, p, n)
    PROVE  /\ Expired(r) \in Row
           /\ Expired(r).state = -1
           /\ RowOK(Expired(r), p, n)
           /\ \A a \in Answer : AnswerOK(a, r) => AnswerOK(a, Expired(r))
<1>1. Expired(r) \in Row
  BY DEF Expired, Row, Reasons
<1>2. Expired(r).state = -1
  BY DEF Expired, Row
<1>3. RowOK(Expired(r), p, n)
  BY DEF Expired, Row, RowOK
<1>4. \A a \in Answer : AnswerOK(a, r) => AnswerOK(a, Expired(r))
  BY DEF Expired, Row, AnswerOK, Answer
<1>5. QED
  BY <1>1, <1>2, <1>3, <1>4

LEMMA PerformedLemma ==
    ASSUME NEW r \in Row, r.state = 1, NEW now \in Nat \ {0}, now - r.created <= Timeout,
           NEW p, NEW n, RowOK(r, p, n)
    PROVE  /\ Performed(r, now) \in Row
           /\ Performed(r, now).state = 2
           /\ Performed(r, now).row = r.row
           /\ Performed(r, now).performTime = now
           /\ RowOK(Performed(r, now), "CONFIRMED", n)
           /\ \A a \in Answer : AnswerOK(a, r) => AnswerOK(a, Performed(r, now))
<1>1. Performed(r, now) \in Row
  BY DEF Performed, Row
<1>2. /\ Performed(r, now).state = 2
      /\ Performed(r, now).row = r.row
      /\ Performed(r, now).performTime = now
  BY DEF Performed, Row
<1>3. RowOK(Performed(r, now), "CONFIRMED", n)
  BY DEF Performed, Row, RowOK
<1>4. \A a \in Answer : AnswerOK(a, r) => AnswerOK(a, Performed(r, now))
  BY DEF Performed, Row, AnswerOK, Answer
<1>5. QED
  BY <1>1, <1>2, <1>3, <1>4

LEMMA CancelledLemma ==
    ASSUME NEW r \in Row, r.state \in {1, 2}, NEW now \in Nat \ {0},
           NEW p, NEW n, RowOK(r, p, n)
    PROVE  /\ Cancelled(r, now) \in Row
           /\ Cancelled(r, now).state = -r.state
           /\ Cancelled(r, now).row = r.row
           /\ Cancelled(r, now).cancelTime = now
           /\ Cancelled(r, now).reason = "payme"
           /\ RowOK(Cancelled(r, now), IF r.state = 2 THEN "REFUNDED" ELSE p, n)
           /\ \A a \in Answer : AnswerOK(a, r) => AnswerOK(a, Cancelled(r, now))
<1>1. Cancelled(r, now) \in Row
  BY DEF Cancelled, Row, Reasons
<1>2. /\ Cancelled(r, now).state = -r.state
      /\ Cancelled(r, now).row = r.row
      /\ Cancelled(r, now).cancelTime = now
      /\ Cancelled(r, now).reason = "payme"
  BY DEF Cancelled, Row
<1>3. RowOK(Cancelled(r, now), IF r.state = 2 THEN "REFUNDED" ELSE p, n)
  BY DEF Cancelled, Row, RowOK
<1>4. \A a \in Answer : AnswerOK(a, r) => AnswerOK(a, Cancelled(r, now))
  BY DEF Cancelled, Row, AnswerOK, Answer
<1>5. QED
  BY <1>1, <1>2, <1>3, <1>4
-----------------------------------------------------------------------------
(* The initial state and every step keep the invariant.                    *)

LEMMA JobTypes ==
    ASSUME TypeOK, NEW h \in Handlers
    PROVE  /\ job[h].step \in {"idle", "insert", "reread", "publish"}
           /\ job[h].step # "idle" => job[h].id \in Ids
           /\ job[h].step = "insert" => job[h].time \in Nat
  BY DEF TypeOK, Job, Idle

LEMMA InitIInv == Init => IInv
<1> SUFFICES ASSUME Init PROVE IInv
  OBVIOUS
<1>1. TypeOK
  BY DEF Init, TypeOK, PaymentStatus, Job, NoRow, FreshRow, Row, Reasons
<1>2. RowInv
  <2>1. RowOK(NoRow, "none", 0)
    BY DEF RowOK, NoRow, FreshRow
  <2>2. QED
    BY <2>1 DEF Init, RowInv
<1>3. JobInv /\ AnswerInv
  BY DEF Init, JobInv, AnswerInv, Idle
<1>4. QED
  BY <1>1, <1>2, <1>3 DEF IInv, Init

LEMMA ExpireIInv ==
    ASSUME IInv, NEW i \in Ids, Expire(i)
    PROVE  IInv'
<1> USE DEF IInv
<1> DEFINE r == Expired(trans[i])
<1>1. /\ trans[i] \in Row /\ trans[i].state = 1
      /\ RowOK(trans[i], payment[i], published[i])
      /\ trans' = [trans EXCEPT ![i] = r]
      /\ UNCHANGED <<payment, job, clock, nextRow, published, answers>>
      /\ refusals' = refusals \cup {[id |-> i, error |-> -31008]}
  BY DEF Expire, Refuse, TypeOK, RowInv
<1>2. /\ r \in Row /\ r.state = -1 /\ RowOK(r, payment[i], published[i])
      /\ \A a \in Answer : AnswerOK(a, trans[i]) => AnswerOK(a, r)
  BY <1>1, ExpiredLemma
<1> HIDE DEF r
<1>3. TypeOK'
  BY <1>1, <1>2 DEF TypeOK, Refusal
<1>4. RowInv'
  BY <1>1, <1>2 DEF TypeOK, RowInv
<1>5. JobInv'
  BY <1>1, <1>2, JobTypes DEF TypeOK, JobInv
<1>6. AnswerInv'
  BY <1>1, <1>2 DEF TypeOK, AnswerInv, Answer, Refusal
<1>7. QED
  BY <1>1, <1>3, <1>4, <1>5, <1>6

\* Reporting a row as it stands, in answer to any method.
LEMMA ReplyIInv ==
    ASSUME IInv, NEW i \in Ids, NEW m, NEW t,
           m \in {"create", "perform", "cancel"}, t \in Nat,
           trans[i].state # 0,
           m = "create" => t = trans[i].created,
           m = "perform" => trans[i].state = 2 /\ t = trans[i].performTime,
           m = "cancel" => /\ trans[i].state < 0
                           /\ trans[i].reason # "timeout" => t = trans[i].cancelTime,
           Reply(m, i, trans[i], t),
           UNCHANGED <<trans, payment, job, clock, nextRow, published>>
    PROVE  IInv'
<1> USE DEF IInv
<1> DEFINE b == [method |-> m, id |-> i, row |-> trans[i].row,
                 state |-> trans[i].state, time |-> t]
<1>1. b \in Answer /\ AnswerOK(b, trans[i]) /\ b.id = i
  BY DEF TypeOK, Row, Answer, AnswerOK
<1>2. answers' = answers \cup {b} /\ UNCHANGED refusals
  BY DEF Reply
<1> HIDE DEF b
<1>3. TypeOK' /\ RowInv' /\ JobInv'
  BY <1>1, <1>2 DEF TypeOK, RowInv, JobInv
<1>4. AnswerInv'
  BY <1>1, <1>2 DEF AnswerInv
<1>5. QED
  BY <1>3, <1>4

LEMMA CreateExistingIInv ==
    ASSUME IInv, NEW h \in Handlers, NEW i \in Ids, CreateExisting(h, i)
    PROVE  IInv'
<1>1. CASE Expire(i)
  BY <1>1, ExpireIInv
<1>2. CASE Reply("create", i, trans[i], trans[i].created)
           /\ UNCHANGED <<trans, payment, job, clock, nextRow, published>>
  <2>1. trans[i].state # 0 /\ trans[i].created \in Nat
    BY DEF CreateExisting, Exists, IInv, RowInv, RowOK, TypeOK, Row
  <2>2. QED
    BY <1>2, <2>1, ReplyIInv
<1>3. QED
  BY <1>1, <1>2 DEF CreateExisting

LEMMA CreateAbsentIInv ==
    ASSUME IInv, NEW h \in Handlers, NEW i \in Ids, NEW time \in 1..clock,
           NEW payable \in BOOLEAN, CreateAbsent(h, i, time, payable)
    PROVE  IInv'
<1> USE DEF IInv
<1>1. /\ UNCHANGED <<trans, payment, clock, nextRow, published, answers, refusals>>
      /\ \/ job' = job
         \/ job' = [job EXCEPT ![h] = [step |-> "insert", id |-> i, time |-> time]]
  BY DEF CreateAbsent
<1>2. [step |-> "insert", id |-> i, time |-> time] \in Job
  BY DEF TypeOK, Job
<1>3. TypeOK'
  BY <1>1, <1>2 DEF TypeOK
<1>4. RowInv' /\ AnswerInv'
  BY <1>1 DEF RowInv, AnswerInv
<1>5. JobInv'
  BY <1>1 DEF TypeOK, JobInv
<1>6. QED
  BY <1>1, <1>3, <1>4, <1>5

LEMMA CreateInsertIInv ==
    ASSUME IInv, NEW h \in Handlers, CreateInsert(h)
    PROVE  IInv'
<1> USE DEF IInv
<1> DEFINE i == job[h].id
           t == job[h].time
<1>1. i \in Ids /\ t \in Nat
  BY JobTypes DEF CreateInsert
<1>2. CASE Exists(i)
  <2>1. /\ UNCHANGED <<trans, payment, clock, nextRow, published, answers, refusals>>
        /\ job' = [job EXCEPT ![h] = [step |-> "reread", id |-> i]]
        /\ trans[i].state # 0
    BY <1>1, <1>2 DEF CreateInsert, UniqueViolation, Exists, RowInv, RowOK
  <2> HIDE DEF i
  <2>2. TypeOK' /\ RowInv' /\ AnswerInv'
    BY <1>1, <2>1 DEF TypeOK, Job, RowInv, AnswerInv
  <2>3. JobInv'
    BY <1>1, <2>1 DEF TypeOK, JobInv
  <2>4. QED
    BY <2>1, <2>2, <2>3
<1>3. CASE ~Exists(i)
  <2> DEFINE r == NewRow(nextRow, t)
             b == [method |-> "create", id |-> i, row |-> r.row,
                   state |-> r.state, time |-> t]
  <2>1. /\ UNCHANGED <<payment, clock, published, refusals>>
        /\ trans' = [trans EXCEPT ![i] = r]
        /\ answers' = answers \cup {b}
        /\ nextRow' = nextRow + 1
        /\ job' = [job EXCEPT ![h] = Idle]
        /\ trans[i].state = 0
    BY <1>1, <1>3 DEF CreateInsert, UniqueViolation, Exists, Reply, NoRow, FreshRow
  <2>2. /\ r \in Row /\ r.state = 1 /\ r.row = nextRow /\ r.created = t
        /\ RowOK(r, "none", 0)
    BY <1>1, NewRowLemma DEF TypeOK
  <2>3. payment[i] = "none" /\ published[i] = 0
    BY <1>1, <2>1 DEF RowInv, RowOK
  <2>4. b \in Answer /\ b.id = i /\ AnswerOK(b, r)
    BY <1>1, <2>2 DEF Answer, AnswerOK, TypeOK
  <2> HIDE DEF r, b, i, t
  <2>5. TypeOK'
    BY <1>1, <2>1, <2>2, <2>4 DEF TypeOK, Job
  <2>6. RowInv'
    BY <1>1, <2>1, <2>2, <2>3 DEF TypeOK, RowInv
  <2>7. JobInv'
    BY <1>1, <2>1, <2>2, JobTypes DEF TypeOK, JobInv, Idle
  <2>8. AnswerInv'
    BY <1>1, <2>1, <2>2, <2>4 DEF TypeOK, AnswerInv, AnswerOK, Answer, Refusal
  <2>9. QED
    BY <2>1, <2>5, <2>6, <2>7, <2>8
<1>4. QED
  BY <1>2, <1>3

LEMMA CreateRereadIInv ==
    ASSUME IInv, NEW h \in Handlers, CreateReread(h)
    PROVE  IInv'
<1> USE DEF IInv
<1> DEFINE i == job[h].id
           b == [method |-> "create", id |-> i, row |-> trans[i].row,
                 state |-> trans[i].state, time |-> trans[i].created]
<1>1. i \in Ids
  BY JobTypes DEF CreateReread
<1>2. trans[i].state # 0 /\ trans[i] \in Row /\ RowOK(trans[i], payment[i], published[i])
  BY <1>1 DEF CreateReread, JobInv, RowInv, TypeOK
<1>3. Exists(i)
  BY <1>2 DEF Exists, NoRow, FreshRow
<1>4. /\ UNCHANGED <<trans, payment, clock, nextRow, published, refusals>>
      /\ answers' = answers \cup {b}
      /\ job' = [job EXCEPT ![h] = Idle]
  BY <1>1, <1>3 DEF CreateReread, Reply
<1>5. b \in Answer /\ b.id = i /\ AnswerOK(b, trans[i])
  BY <1>1, <1>2 DEF Answer, AnswerOK, Row
<1> HIDE DEF i, b
<1>6. TypeOK' /\ RowInv' /\ JobInv'
  BY <1>4, <1>5 DEF TypeOK, Job, RowInv, JobInv, Idle
<1>7. AnswerInv'
  BY <1>4, <1>5 DEF AnswerInv
<1>8. QED
  BY <1>4, <1>6, <1>7

LEMMA PerformPendingIInv ==
    ASSUME IInv, NEW h \in Handlers, NEW i \in Ids, PerformPending(h, i)
    PROVE  IInv'
<1> USE DEF IInv
<1> DEFINE r == Performed(trans[i], clock)
           b == [method |-> "perform", id |-> i, row |-> r.row,
                 state |-> r.state, time |-> clock]
<1>1. /\ trans[i] \in Row /\ trans[i].state = 1
      /\ clock - trans[i].created <= Timeout
      /\ RowOK(trans[i], payment[i], published[i])
  BY DEF PerformPending, TimedOut, TypeOK, RowInv, Row
<1>2. /\ UNCHANGED <<clock, nextRow, published, refusals>>
      /\ trans' = [trans EXCEPT ![i] = r]
      /\ payment' = [payment EXCEPT ![i] = "CONFIRMED"]
      /\ answers' = answers \cup {b}
      /\ job' = [job EXCEPT ![h] = [step |-> "publish", id |-> i]]
  BY DEF PerformPending, Reply
<1>3. /\ r \in Row /\ r.state = 2 /\ r.row = trans[i].row /\ r.performTime = clock
      /\ RowOK(r, "CONFIRMED", published[i])
      /\ \A a \in Answer : AnswerOK(a, trans[i]) => AnswerOK(a, r)
  BY <1>1, PerformedLemma DEF TypeOK
<1>4. b \in Answer /\ b.id = i /\ AnswerOK(b, r)
  BY <1>1, <1>3 DEF Answer, AnswerOK, TypeOK, Row
<1>5. published[i] = 0
  BY <1>1 DEF RowOK
<1> HIDE DEF r, b
<1>6. TypeOK'
  BY <1>2, <1>3, <1>4 DEF TypeOK, Job, PaymentStatus
<1>7. RowInv'
  BY <1>2, <1>3 DEF TypeOK, RowInv
<1>8. JobInv'
  BY <1>1, <1>2, <1>3, <1>5, JobTypes DEF TypeOK, JobInv
<1>9. AnswerInv'
  BY <1>1, <1>2, <1>3, <1>4 DEF TypeOK, AnswerInv, Answer, Refusal
<1>10. QED
  BY <1>2, <1>6, <1>7, <1>8, <1>9

LEMMA PerformOtherIInv ==
    ASSUME IInv, NEW h \in Handlers, NEW i \in Ids, PerformOther(h, i)
    PROVE  IInv'
<1>1. CASE Expire(i)
  BY <1>1, ExpireIInv
<1>2. CASE trans[i].state = 2 /\ ~Expire(i)
  <2>1. trans[i].performTime \in Nat \ {0}
    BY <1>2 DEF IInv, TypeOK, Row, RowInv, RowOK
  <2>2. Reply("perform", i, trans[i], trans[i].performTime)
        /\ UNCHANGED <<trans, payment, job, clock, nextRow, published>>
    BY <1>2, <2>1 DEF PerformOther
  <2>3. QED
    BY <1>2, <2>1, <2>2, ReplyIInv
<1>3. CASE trans[i].state \in {-1, -2} /\ ~Expire(i)
  <2>1. /\ refusals' = refusals \cup {[id |-> i, error |-> -31008]}
        /\ UNCHANGED <<trans, payment, job, clock, nextRow, published, answers>>
    BY <1>3 DEF PerformOther, Refuse
  <2>2. QED
    BY <1>3, <2>1 DEF IInv, TypeOK, RowInv, JobInv, AnswerInv, Refusal
<1>4. QED
  BY <1>1, <1>2, <1>3 DEF PerformOther

LEMMA CancelIInv ==
    ASSUME IInv, NEW h \in Handlers, NEW i \in Ids, Cancel(h, i)
    PROVE  IInv'
<1> USE DEF IInv
<1>1. /\ trans[i] \in Row /\ trans[i].state \in {-2, -1, 1, 2}
      /\ RowOK(trans[i], payment[i], published[i])
  BY DEF Cancel, Exists, TypeOK, RowInv, RowOK, Row
<1>2. CASE trans[i].state \in {1, 2}
  <2> DEFINE r == Cancelled(trans[i], clock)
             b == [method |-> "cancel", id |-> i, row |-> r.row,
                   state |-> r.state, time |-> clock]
             p == IF trans[i].state = 2 THEN "REFUNDED" ELSE payment[i]
  <2>1. /\ UNCHANGED <<job, clock, nextRow, published, refusals>>
        /\ trans' = [trans EXCEPT ![i] = r]
        /\ answers' = answers \cup {b}
    BY <1>2 DEF Cancel, Reply
  <2>2. payment' = [payment EXCEPT ![i] = p]
    BY <1>1, <1>2 DEF Cancel, RowOK, TypeOK
  <2>3. /\ r \in Row /\ r.state = -trans[i].state /\ r.row = trans[i].row
        /\ r.cancelTime = clock /\ r.reason = "payme"
        /\ RowOK(r, p, published[i])
        /\ \A a \in Answer : AnswerOK(a, trans[i]) => AnswerOK(a, r)
    BY <1>1, <1>2, CancelledLemma DEF TypeOK
  <2>4. b \in Answer /\ b.id = i /\ AnswerOK(b, r)
    BY <1>1, <1>2, <2>3 DEF Answer, AnswerOK, TypeOK, Row
  <2>5. p \in PaymentStatus
    BY DEF TypeOK, PaymentStatus
  <2> HIDE DEF r, b, p
  <2>6. TypeOK'
    BY <2>1, <2>2, <2>3, <2>4, <2>5 DEF TypeOK
  <2>7. RowInv'
    BY <2>1, <2>2, <2>3 DEF TypeOK, RowInv
  <2>8. JobInv'
    BY <1>2, <2>1, <2>3, JobTypes DEF TypeOK, JobInv
  <2>9. AnswerInv'
    BY <1>2, <2>1, <2>3, <2>4 DEF TypeOK, AnswerInv, Answer, Refusal
  <2>10. QED
    BY <2>1, <2>6, <2>7, <2>8, <2>9
<1>3. CASE trans[i].state \in {-1, -2}
  <2> DEFINE t == IF trans[i].cancelTime # 0 THEN trans[i].cancelTime ELSE clock
  <2>1. /\ UNCHANGED <<trans, job, clock, nextRow, published>>
        /\ Reply("cancel", i, trans[i], t)
    BY <1>3 DEF Cancel
  <2>2. UNCHANGED payment
    BY <1>3 DEF Cancel
  <2>3. t \in Nat /\ (trans[i].reason # "timeout" => t = trans[i].cancelTime)
    BY <1>1, <1>3 DEF RowOK, Row, TypeOK
  <2> HIDE DEF t
  <2>4. QED
    BY <1>3, <2>1, <2>2, <2>3, ReplyIInv
<1>4. QED
  BY <1>1, <1>2, <1>3

LEMMA PublishIInv ==
    ASSUME IInv, NEW h \in Handlers, Publish(h)
    PROVE  IInv'
<1> USE DEF IInv
<1> DEFINE i == job[h].id
<1>1. /\ i \in Ids /\ trans[i].state \in {2, -2} /\ published[i] = 0
      /\ \A g \in Handlers \ {h} : job[g].step = "publish" => job[g].id # i
  BY JobTypes DEF Publish, JobInv
<1>2. /\ UNCHANGED <<trans, payment, clock, nextRow, answers, refusals>>
      /\ job' = [job EXCEPT ![h] = Idle]
      /\ \/ published' = [published EXCEPT ![i] = 1]
         \/ published' = published
  BY <1>1 DEF Publish, TypeOK
<1> HIDE DEF i
<1>3. TypeOK'
  BY <1>1, <1>2 DEF TypeOK, Job
<1>4. RowInv'
  BY <1>1, <1>2 DEF TypeOK, RowInv, RowOK
<1>5. JobInv'
  BY <1>1, <1>2, JobTypes DEF TypeOK, JobInv, Idle
<1>6. AnswerInv'
  BY <1>2 DEF AnswerInv
<1>7. QED
  BY <1>2, <1>3, <1>4, <1>5, <1>6

LEMMA NextIInv == IInv /\ [Next]_vars => IInv'
<1> SUFFICES ASSUME IInv, [Next]_vars PROVE IInv'
  OBVIOUS
<1>1. CASE Crash
  BY <1>1 DEF Crash, IInv, TypeOK, Job, Idle, RowInv, JobInv, AnswerInv
<1>2. CASE Tick
  BY <1>2 DEF Tick, IInv, TypeOK, RowInv, JobInv, AnswerInv
<1>3. CASE UNCHANGED vars
  BY <1>3 DEF vars, IInv, TypeOK, RowInv, JobInv, AnswerInv
<1>4. ASSUME NEW h \in Handlers, Continue(h) PROVE IInv'
  BY <1>4, CreateInsertIInv, CreateRereadIInv, PublishIInv DEF Continue
<1>5. ASSUME NEW h \in Handlers, NEW i \in Ids, CreateExisting(h, i) PROVE IInv'
  BY <1>5, CreateExistingIInv
<1>6. ASSUME NEW h \in Handlers, NEW i \in Ids, PerformPending(h, i) PROVE IInv'
  BY <1>6, PerformPendingIInv
<1>7. ASSUME NEW h \in Handlers, NEW i \in Ids, PerformOther(h, i) PROVE IInv'
  BY <1>7, PerformOtherIInv
<1>8. ASSUME NEW h \in Handlers, NEW i \in Ids, Cancel(h, i) PROVE IInv'
  BY <1>8, CancelIInv
<1>9. ASSUME NEW h \in Handlers, NEW i \in Ids, NEW time \in 1..clock,
             NEW payable \in BOOLEAN, CreateAbsent(h, i, time, payable)
      PROVE  IInv'
  BY <1>9, CreateAbsentIInv
<1>10. QED
  BY <1>1, <1>2, <1>3, <1>4, <1>5, <1>6, <1>7, <1>8, <1>9 DEF Next

-----------------------------------------------------------------------------
(* What the invariant gives.                                               *)

\* The inductive invariant holds in every reachable state.
THEOREM Invariance == Spec => []IInv
  BY InitIInv, NextIInv, PTL DEF Spec

\* Every variable keeps its type.
THEOREM TypeCorrect == Spec => []TypeOK
<1>1. IInv => TypeOK
  BY DEF IInv
<1>2. QED
  BY <1>1, Invariance, PTL

\* The ledger and the gateway's rows agree in every reachable state.
THEOREM LedgerAndRowsAgree == Spec => []BooksAgree
<1>1. IInv => BooksAgree
  BY DEF IInv, RowInv, RowOK, BooksAgree, TypeOK, Row
<1>2. QED
  BY <1>1, Invariance, PTL

\* What Payme was told about the money stays true.
THEOREM AnswersAreKept == Spec => []ToldIsKept
<1>1. IInv => ToldIsKept
  <2> SUFFICES ASSUME IInv PROVE ToldIsKept
    OBVIOUS
  <2>1. ASSUME NEW a \in answers
        PROVE  /\ a.state = -1 => payment[a.id] = "none"
               /\ a.state = -2 => payment[a.id] = "REFUNDED"
               /\ a.state = 2 => payment[a.id] # "none"
    <3>1. AnswerOK(a, trans[a.id]) /\ a.id \in Ids
      BY DEF IInv, AnswerInv, TypeOK, Answer
    <3>2. RowOK(trans[a.id], payment[a.id], published[a.id])
      BY <3>1 DEF IInv, RowInv
    <3>3. QED
      BY <3>1, <3>2 DEF AnswerOK, RowOK
  <2>2. ASSUME NEW e \in refusals PROVE payment[e.id] # "CONFIRMED"
    <3>1. e.id \in Ids /\ trans[e.id].state \in {-2, -1}
      BY DEF IInv, AnswerInv, TypeOK, Refusal, Row
    <3>2. QED
      BY <3>1 DEF IInv, RowInv, RowOK
  <2>3. QED
    BY <2>1, <2>2 DEF ToldIsKept
<1>2. QED
  BY <1>1, Invariance, PTL

\* Retried and raced calls about a transaction are answered alike.
THEOREM AnswersNeverDiffer == Spec => []AnswersAgree
<1>1. IInv => AnswersAgree
  <2> SUFFICES ASSUME IInv, NEW a \in answers, NEW b \in answers, a.id = b.id
               PROVE  /\ a.row = b.row
                      /\ a.method = b.method
                           /\ ~(a.method = "cancel" /\ trans[a.id].reason = "timeout")
                         => a.time = b.time
    BY DEF AnswersAgree
  <2>1. AnswerOK(a, trans[a.id]) /\ AnswerOK(b, trans[a.id])
    BY DEF IInv, AnswerInv
  <2>2. a.method \in {"create", "perform", "cancel"}
    BY DEF IInv, TypeOK, Answer
  <2>3. QED
    BY <2>1, <2>2 DEF AnswerOK
<1>2. QED
  BY <1>1, Invariance, PTL

\* A create that loses the race for the unique index is still answered.
THEOREM RaceLosersAnswered == Spec => []RaceLoserAnswered
<1>1. IInv => RaceLoserAnswered
  BY DEF IInv, AnswerInv, RaceLoserAnswered
<1>2. QED
  BY <1>1, Invariance, PTL

\* No money comes in after the timeout.
THEOREM NoMoneyAfterTimeout == Spec => []NoLateMoney
<1>1. IInv => NoLateMoney
  BY DEF IInv, RowInv, RowOK, NoLateMoney
<1>2. QED
  BY <1>1, Invariance, PTL

-----------------------------------------------------------------------------
(* Steps.                                                                  *)

\* What one step can do to the row and the payment of transaction i.
RowStep(i) ==
    \/ trans[i].state = 0 /\ trans'[i].state = 1
    \/ trans[i].state = 1 /\ trans'[i].state = -1
    \/ trans[i].state = 1 /\ trans'[i].state = 2
    \/ trans[i].state = 2 /\ trans'[i].state = -2

\* A step changes at most one row, in one of these ways, or it publishes.
LedgerStep ==
    \/ UNCHANGED <<trans, payment, published>>
    \/ \E i \in Ids :
         /\ RowStep(i)
         /\ \A j \in Ids \ {i} : trans'[j] = trans[j] /\ payment'[j] = payment[j]
         /\ UNCHANGED published
    \/ \E i \in Ids :
         /\ trans[i].state \in {2, -2} /\ published[i] = 0
         /\ published' = [published EXCEPT ![i] = 1]
         /\ UNCHANGED <<trans, payment>>

LEMMA EveryStep ==
    ASSUME IInv, [Next]_vars
    PROVE  LedgerStep
<1> USE DEF IInv, TypeOK
<1>1. ASSUME NEW i \in Ids, Expire(i) PROVE LedgerStep
  <2>1. Expired(trans[i]).state = -1
    BY DEF Expired, Row
  <2>2. RowStep(i)
    BY <1>1, <2>1 DEF Expire, RowStep
  <2>3. QED
    BY <1>1, <2>2 DEF Expire, LedgerStep
<1>2. ASSUME NEW h \in Handlers, NEW i \in Ids, PerformPending(h, i) PROVE LedgerStep
  <2>1. Performed(trans[i], clock).state = 2
    BY DEF Performed, Row
  <2>2. RowStep(i)
    BY <1>2, <2>1 DEF PerformPending, RowStep
  <2>3. QED
    BY <1>2, <2>2 DEF PerformPending, LedgerStep
<1>3. ASSUME NEW h \in Handlers, NEW i \in Ids, Cancel(h, i) PROVE LedgerStep
  <2>1. CASE trans[i].state \in {1, 2}
    <3>1. Cancelled(trans[i], clock).state = -trans[i].state
      BY DEF Cancelled, Row
    <3>2. RowStep(i)
      BY <1>3, <2>1, <3>1 DEF Cancel, RowStep
    <3>3. QED
      BY <1>3, <3>2 DEF Cancel, LedgerStep
  <2>2. CASE trans[i].state \notin {1, 2}
    BY <1>3, <2>2 DEF Cancel, LedgerStep
  <2>3. QED
    BY <2>1, <2>2
<1>4. ASSUME NEW h \in Handlers, CreateInsert(h) PROVE LedgerStep
  <2> DEFINE i == job[h].id
  <2>1. i \in Ids
    BY <1>4, JobTypes DEF CreateInsert
  <2>2. CASE Exists(i)
    BY <1>4, <2>2 DEF CreateInsert, UniqueViolation, LedgerStep
  <2>3. CASE ~Exists(i)
    <3>1. trans[i].state = 0 /\ NewRow(nextRow, job[h].time).state = 1
      BY <2>3 DEF Exists, NoRow, NewRow, FreshRow
    <3>2. trans' = [trans EXCEPT ![i] = NewRow(nextRow, job[h].time)]
          /\ UNCHANGED <<payment, published>>
      BY <1>4, <2>3 DEF CreateInsert, UniqueViolation
    <3>3. RowStep(i)
      BY <2>1, <3>1, <3>2 DEF RowStep
    <3>4. QED
      BY <2>1, <3>2, <3>3 DEF LedgerStep
  <2>4. QED
    BY <2>2, <2>3
<1>5. ASSUME NEW h \in Handlers, Publish(h) PROVE LedgerStep
  <2>1. /\ job[h].id \in Ids /\ trans[job[h].id].state \in {2, -2}
        /\ published[job[h].id] = 0
    BY <1>5, JobTypes DEF Publish, JobInv
  <2>2. QED
    BY <1>5, <2>1 DEF Publish, LedgerStep
<1>6. CASE UNCHANGED <<trans, payment, published>>
  BY <1>6 DEF LedgerStep
<1>7. QED
  BY <1>1, <1>2, <1>3, <1>4, <1>5, <1>6
     DEF Next, vars, CreateExisting, CreateAbsent, PerformOther, Continue,
         CreateReread, Crash, Tick

\* A cancelled transaction never changes again.
THEOREM CancelledStaysCancelled == Spec => CancelledIsFinal
<1>1. ASSUME IInv, [Next]_vars
      PROVE  [\A i \in Ids : trans[i].state < 0
                => /\ trans'[i] = trans[i] /\ payment'[i] = payment[i]]_vars
  BY <1>1, EveryStep DEF LedgerStep, RowStep
<1>2. QED
  BY <1>1, Invariance, PTL DEF Spec, CancelledIsFinal

-----------------------------------------------------------------------------
(* Refinement.                                                             *)

LEMMA EntryChange ==
    ASSUME IInv, NEW i \in Ids, RowStep(i), UNCHANGED published,
           \A j \in Ids \ {i} : trans'[j] = trans[j]
    PROVE  Ledger!Next
<1>1. \A j \in Ids \ {i} : EntryOf(j)' = EntryOf(j)
  BY DEF EntryOf
<1>2. Ledger!Move(i, EntryOf(i), EntryOf(i)')
  <2> DEFINE e == [j \in Ids |-> EntryOf(j)]
  <2>1. [j \in Ids |-> EntryOf(j)'] = [e EXCEPT ![i] = EntryOf(i)']
    BY <1>1
  <2>2. QED
    BY <2>1 DEF Ledger!Move
<1>3. CASE trans[i].state = 0 /\ trans'[i].state = 1
  <2>1. EntryOf(i) = "none" /\ EntryOf(i)' = "open"
    BY <1>3 DEF EntryOf
  <2>2. QED
    BY <1>2, <2>1 DEF Ledger!Next, Ledger!Open
<1>4. CASE trans[i].state = 1 /\ trans'[i].state = -1
  <2>1. EntryOf(i) = "open" /\ EntryOf(i)' = "void"
    BY <1>4 DEF EntryOf
  <2>2. QED
    BY <1>2, <2>1 DEF Ledger!Next, Ledger!Void
<1>5. CASE trans[i].state = 1 /\ trans'[i].state = 2
  <2>1. EntryOf(i) = "open" /\ EntryOf(i)' = "credited"
    BY <1>5 DEF EntryOf
  <2>2. QED
    BY <1>2, <2>1 DEF Ledger!Next, Ledger!Credit
<1>6. CASE trans[i].state = 2 /\ trans'[i].state = -2
  <2>1. EntryOf(i) = "credited" /\ EntryOf(i)' = "refunded"
    BY <1>6 DEF EntryOf
  <2>2. QED
    BY <1>2, <2>1 DEF Ledger!Next, Ledger!Refund
<1>7. QED
  BY <1>3, <1>4, <1>5, <1>6 DEF RowStep

\* The gateway implements PaymentLedger with nothing revivable: no transaction
\* is credited twice, refunded before it was credited or announced twice.
THEOREM GatewayImplementsLedger == Spec => ImplementsLedger
<1>1. Init => Ledger!Init
  BY DEF Init, Ledger!Init, EntryOf, NoRow, FreshRow
<1>2. IInv /\ [Next]_vars => [Ledger!Next]_(Ledger!vars)
  <2> SUFFICES ASSUME IInv, [Next]_vars
               PROVE  Ledger!Next \/ UNCHANGED Ledger!vars
    OBVIOUS
  <2>1. CASE UNCHANGED <<trans, payment, published>>
    BY <2>1 DEF Ledger!vars, EntryOf
  <2>2. CASE \E i \in Ids :
               /\ RowStep(i)
               /\ \A j \in Ids \ {i} : trans'[j] = trans[j] /\ payment'[j] = payment[j]
               /\ UNCHANGED published
    BY <2>2, EntryChange
  <2>3. ASSUME NEW i \in Ids, trans[i].state \in {2, -2}, published[i] = 0,
               published' = [published EXCEPT ![i] = 1], UNCHANGED <<trans, payment>>
        PROVE  Ledger!Next
    <3>1. EntryOf(i) \in {"credited", "refunded"}
      BY <2>3 DEF EntryOf
    <3>2. \A j \in Ids : EntryOf(j)' = EntryOf(j)
      BY <2>3 DEF EntryOf
    <3>3. QED
      BY <2>3, <3>1, <3>2 DEF Ledger!Next, Ledger!Announce
  <2>4. QED
    BY <2>1, <2>2, <2>3, EveryStep DEF LedgerStep
<1>3. QED
  BY <1>1, <1>2, Invariance, PTL DEF Spec, ImplementsLedger, Ledger!Spec

-----------------------------------------------------------------------------
(* ClickGateway.                                                           *)

\* Row r, its payment p and the number n of its events.
ClickRowOK(r, p, n) ==
    /\ r.status = "SUCCESS" <=> r.state = 1
    /\ r.status = "FAILED" <=> r.state = -1
    /\ r.status = "SUCCESS" => p = ConfirmedFor(r.purpose)
    /\ r.status # "SUCCESS" => p = Unpaid /\ n = 0

ClickRowInv == \A i \in ClickIds : ClickRowOK(clickTrans[i], clickPayment[i], clickPublished[i])

ClickJobInv ==
    /\ \A h \in ClickHandlers :
         /\ clickJob[h].step = "reread" => ClickExists(clickJob[h].id)
         /\ clickJob[h].step = "publish" =>
              clickTrans[clickJob[h].id].status = "SUCCESS" /\ clickPublished[clickJob[h].id] = 0
    /\ \A g, h \in ClickHandlers :
         clickJob[g].step = "publish" /\ clickJob[h].step = "publish"
           /\ clickJob[g].id = clickJob[h].id
           => g = h

ClickAnswerInv ==
    /\ \A a \in prepared : ClickExists(a.id) /\ a.row = clickTrans[a.id].row
    /\ \A c \in confirmed :
         /\ clickTrans[c.id].status = "SUCCESS"
         /\ c.row = clickTrans[c.id].row /\ c.purpose = clickTrans[c.id].purpose
    /\ failed = {}

ClickIInv == ClickTypeOK /\ ClickRowInv /\ ClickJobInv /\ ClickAnswerInv

-----------------------------------------------------------------------------
(* How a row changes: it is made, fails, or is paid.  In each case the row  *)
(* keeps its type, and stays in agreement with its payment and its events.  *)

LEMMA ClickNewRowLemma ==
    ASSUME NEW key \in Nat \ {0}, NEW p \in Purpose
    PROVE  /\ NewClickRow(key, p) \in ClickRows
           /\ NewClickRow(key, p).status = "PENDING"
           /\ NewClickRow(key, p).row = key
           /\ ClickRowOK(NewClickRow(key, p), Unpaid, 0)
BY DEF NewClickRow, ClickRows, ClickRowOK

LEMMA ClickFailedLemma ==
    ASSUME NEW r \in ClickRows, NEW p, NEW n, ClickRowOK(r, p, n), r.status # "SUCCESS"
    PROVE  /\ Failed(r) \in ClickRows
           /\ Failed(r).status = "FAILED"
           /\ Failed(r).row = r.row
           /\ ClickRowOK(Failed(r), p, n)
<1>1. /\ Failed(r) \in ClickRows
      /\ Failed(r).status = "FAILED" /\ Failed(r).state = -1
      /\ Failed(r).row = r.row
  BY DEF Failed, ClickRows
<1>2. p = Unpaid /\ n = 0
  BY DEF ClickRowOK
<1>3. QED
  BY <1>1, <1>2 DEF ClickRowOK

LEMMA ClickCompletedLemma ==
    ASSUME NEW r \in ClickRows, NEW n
    PROVE  /\ Completed(r) \in ClickRows
           /\ Completed(r).status = "SUCCESS"
           /\ Completed(r).row = r.row
           /\ Completed(r).purpose = r.purpose
           /\ ConfirmedFor(r.purpose) \in Payment
           /\ ClickRowOK(Completed(r), ConfirmedFor(r.purpose), n)
<1>1. /\ Completed(r) \in ClickRows
      /\ Completed(r).status = "SUCCESS" /\ Completed(r).state = 1
      /\ Completed(r).row = r.row
      /\ Completed(r).purpose = r.purpose
  BY DEF Completed, ClickRows
<1>2. ConfirmedFor(r.purpose) \in Payment
  BY DEF ClickRows, ConfirmedFor, Payment
<1>3. QED
  BY <1>1, <1>2 DEF ClickRowOK

\* A row that exists has the type of a row.
LEMMA ClickRowLemma ==
    ASSUME ClickTypeOK, NEW i \in ClickIds, ClickExists(i)
    PROVE  clickTrans[i] \in ClickRows
BY DEF ClickTypeOK, ClickExists, NoClickRow

LEMMA ClickNotPaidLemma ==
    ASSUME ClickIInv, NEW i \in ClickIds, ~Paid(i)
    PROVE  clickTrans[i].status # "SUCCESS" /\ clickPayment[i] = Unpaid /\ clickPublished[i] = 0
BY DEF ClickIInv, ClickRowInv, ClickRowOK, Paid

-----------------------------------------------------------------------------
(* The invariant.                                                          *)

LEMMA ClickInitLemma == ClickInit => ClickIInv
<1> SUFFICES ASSUME ClickInit PROVE ClickIInv
  OBVIOUS
<1>1. ClickTypeOK
  BY DEF ClickInit, ClickTypeOK, Payment, ClickJobs, PrepareAnswer, CompleteAnswer
<1>2. ClickRowInv
  <2>1. ClickRowOK(NoClickRow, Unpaid, 0)
    BY DEF ClickRowOK, NoClickRow
  <2>2. QED
    BY <2>1 DEF ClickInit, ClickRowInv
<1>3. ClickJobInv /\ ClickAnswerInv
  BY DEF ClickInit, ClickJobInv, ClickAnswerInv, ClickIdle
<1>4. QED
  BY <1>1, <1>2, <1>3 DEF ClickIInv

\* A step that touches no row, and leaves each handler what it was doing or idle.
LEMMA ClickQuietStep ==
    ASSUME ClickIInv, UNCHANGED <<clickTrans, clickPayment, nextClickRow, clickPublished>>,
           clickJob' \in [ClickHandlers -> ClickJobs],
           \A h \in ClickHandlers :
             clickJob'[h] = clickJob[h] \/ clickJob'[h].step \in {"idle", "insert"}
    PROVE  ClickRowInv' /\ ClickJobInv'
<1>1. ClickRowInv'
  BY DEF ClickIInv, ClickRowInv
<1>2. ClickJobInv'
  BY DEF ClickIInv, ClickJobInv, ClickExists
<1>3. QED
  BY <1>1, <1>2

LEMMA PrepareExistingStep ==
    ASSUME ClickIInv, NEW h \in ClickHandlers, NEW i \in ClickIds, PrepareExisting(h, i)
    PROVE  ClickIInv'
<1>1. clickTrans[i] \in ClickRows
  BY ClickRowLemma DEF ClickIInv, PrepareExisting
<1>2. ClickTypeOK'
  <2>1. [id |-> i, row |-> clickTrans[i].row] \in PrepareAnswer
    BY <1>1 DEF PrepareAnswer, ClickRows
  <2>2. QED
    BY <2>1 DEF ClickIInv, ClickTypeOK, PrepareExisting, GivePrepareId
<1>3. ClickRowInv' /\ ClickJobInv'
  BY ClickQuietStep DEF PrepareExisting, ClickIInv, ClickTypeOK
<1>4. ClickAnswerInv'
  BY DEF ClickIInv, ClickAnswerInv, PrepareExisting, GivePrepareId, ClickExists
<1>5. QED
  BY <1>2, <1>3, <1>4 DEF ClickIInv

LEMMA PrepareAbsentStep ==
    ASSUME ClickIInv, NEW h \in ClickHandlers, NEW i \in ClickIds,
           NEW p \in Purpose, PrepareAbsent(h, i, p)
    PROVE  ClickIInv'
<1>1. clickJob' \in [ClickHandlers -> ClickJobs]
  BY DEF ClickIInv, ClickTypeOK, PrepareAbsent, ClickJobs
<1>2. ClickTypeOK'
  BY <1>1 DEF ClickIInv, ClickTypeOK, PrepareAbsent
<1>3. \A g \in ClickHandlers :
        clickJob'[g] = clickJob[g] \/ clickJob'[g].step \in {"idle", "insert"}
  BY DEF ClickIInv, ClickTypeOK, PrepareAbsent
<1>4. ClickRowInv' /\ ClickJobInv'
  BY <1>1, <1>3, ClickQuietStep DEF PrepareAbsent
<1>5. ClickAnswerInv'
  BY DEF ClickIInv, ClickAnswerInv, PrepareAbsent, ClickExists
<1>6. QED
  BY <1>2, <1>4, <1>5 DEF ClickIInv

LEMMA ClickJobLemma ==
    ASSUME ClickTypeOK, NEW h \in ClickHandlers
    PROVE  /\ clickJob[h].step \in {"insert", "reread", "publish"}
              => clickJob[h].id \in ClickIds
           /\ clickJob[h].step = "insert" => clickJob[h].purpose \in Purpose
           /\ ClickIdle \in ClickJobs
<1>1. clickJob[h] \in ClickJobs
  BY DEF ClickTypeOK
<1>2. QED
  BY <1>1 DEF ClickJobs, ClickIdle

LEMMA PrepareInsertStep ==
    ASSUME ClickIInv, NEW h \in ClickHandlers, PrepareInsert(h)
    PROVE  ClickIInv'
<1> DEFINE i == clickJob[h].id
           r == NewClickRow(nextClickRow, clickJob[h].purpose)
<1>1. i \in ClickIds /\ clickJob[h].purpose \in Purpose /\ ClickIdle \in ClickJobs
  BY ClickJobLemma DEF ClickIInv, PrepareInsert
<1>2. CASE ClickViolation(i)
  <2>1. /\ clickJob' = [clickJob EXCEPT ![h] = [step |-> "reread", id |-> i]]
        /\ UNCHANGED <<clickTrans, clickPayment, nextClickRow, clickPublished,
                       prepared, confirmed, failed>>
    BY <1>2 DEF PrepareInsert
  <2>2. ClickTypeOK'
    BY <2>1, <1>1 DEF ClickIInv, ClickTypeOK, ClickJobs
  <2>3. ClickRowInv' /\ ClickAnswerInv'
    BY <2>1 DEF ClickIInv, ClickRowInv, ClickAnswerInv, ClickExists
  <2>4. ClickJobInv'
    BY <2>1, <1>1, <1>2 DEF ClickIInv, ClickTypeOK, ClickJobInv, ClickViolation, ClickExists
  <2>5. QED
    BY <2>2, <2>3, <2>4 DEF ClickIInv
<1>3. CASE ~ClickViolation(i)
  <2>1. /\ clickTrans' = [clickTrans EXCEPT ![i] = r]
        /\ prepared' = prepared \cup {[id |-> i, row |-> r.row]}
        /\ nextClickRow' = nextClickRow + 1
        /\ clickJob' = [clickJob EXCEPT ![h] = ClickIdle]
        /\ UNCHANGED <<clickPayment, clickPublished, confirmed, failed>>
    BY <1>3 DEF PrepareInsert, GivePrepareId
  <2>2. /\ r \in ClickRows /\ r.status = "PENDING" /\ r.row = nextClickRow
        /\ ClickRowOK(r, Unpaid, 0)
    BY <1>1, ClickNewRowLemma DEF ClickIInv, ClickTypeOK
  <2>3. clickTrans[i].status = "ABSENT" /\ clickPayment[i] = Unpaid /\ clickPublished[i] = 0
    BY <1>1, <1>3 DEF ClickViolation, ClickExists, ClickIInv, ClickRowInv, ClickRowOK
  <2>4. ClickTypeOK'
    <3>1. [id |-> i, row |-> r.row] \in PrepareAnswer
      BY <1>1, <2>2 DEF PrepareAnswer, ClickIInv, ClickTypeOK
    <3>2. QED
      BY <1>1, <2>1, <2>2, <3>1 DEF ClickIInv, ClickTypeOK
  <2>5. ClickRowInv'
    BY <1>1, <2>1, <2>2, <2>3 DEF ClickIInv, ClickTypeOK, ClickRowInv
  <2>6. ClickJobInv'
    <3>1. \A j \in ClickIds : ClickExists(j) => clickTrans'[j] = clickTrans[j]
      BY <1>1, <2>1, <2>3 DEF ClickIInv, ClickTypeOK, ClickExists
    <3>2. \A g \in ClickHandlers : g # h => clickJob'[g] = clickJob[g]
      BY <2>1 DEF ClickIInv, ClickTypeOK
    <3>3. clickJob'[h] = ClickIdle
      BY <2>1 DEF ClickIInv, ClickTypeOK
    <3>4. \A g \in ClickHandlers :
            clickJob[g].step \in {"reread", "publish"} => clickJob[g].id \in ClickIds
      BY ClickJobLemma DEF ClickIInv
    <3>5. QED
      BY <2>1, <3>1, <3>2, <3>3, <3>4 DEF ClickIInv, ClickJobInv, ClickExists, ClickIdle
  <2>7. ClickAnswerInv'
    <3>1. \A a \in prepared \cup confirmed : a.id \in ClickIds
      BY DEF ClickIInv, ClickTypeOK, PrepareAnswer, CompleteAnswer
    <3>2. \A a \in prepared \cup confirmed : a.id # i
      BY <2>3 DEF ClickIInv, ClickAnswerInv, ClickExists
    <3>3. \A j \in ClickIds : clickTrans'[j] = IF j = i THEN r ELSE clickTrans[j]
      BY <1>1, <2>1 DEF ClickIInv, ClickTypeOK
    <3>4. QED
      BY <1>1, <2>1, <2>2, <3>1, <3>2, <3>3 DEF ClickIInv, ClickAnswerInv, ClickExists
  <2>8. QED
    BY <2>4, <2>5, <2>6, <2>7 DEF ClickIInv
<1>4. QED
  BY <1>2, <1>3

LEMMA PrepareRereadStep ==
    ASSUME ClickIInv, NEW h \in ClickHandlers, PrepareReread(h)
    PROVE  ClickIInv'
<1> DEFINE i == clickJob[h].id
<1>1. i \in ClickIds /\ ClickIdle \in ClickJobs
  BY ClickJobLemma DEF ClickIInv, PrepareReread
<1>2. ClickExists(i)
  BY DEF ClickIInv, ClickJobInv, PrepareReread
<1>3. prepared' = prepared \cup {[id |-> i, row |-> clickTrans[i].row]} /\ UNCHANGED failed
  BY <1>2 DEF PrepareReread, GivePrepareId
<1>4. ClickTypeOK'
  <2>1. [id |-> i, row |-> clickTrans[i].row] \in PrepareAnswer
    BY <1>1, <1>2, ClickRowLemma DEF ClickIInv, PrepareAnswer, ClickRows
  <2>2. QED
    BY <1>1, <1>3, <2>1 DEF ClickIInv, ClickTypeOK, PrepareReread
<1>5. ClickRowInv' /\ ClickJobInv'
  <2>1. clickJob' \in [ClickHandlers -> ClickJobs]
    BY <1>4 DEF ClickTypeOK
  <2>2. \A g \in ClickHandlers :
          clickJob'[g] = clickJob[g] \/ clickJob'[g].step \in {"idle", "insert"}
    BY DEF ClickIInv, ClickTypeOK, PrepareReread, ClickIdle
  <2>3. QED
    BY <2>1, <2>2, ClickQuietStep DEF PrepareReread
<1>6. ClickAnswerInv'
  BY <1>2, <1>3 DEF ClickIInv, ClickAnswerInv, PrepareReread, ClickExists
<1>7. QED
  BY <1>4, <1>5, <1>6 DEF ClickIInv

LEMMA CompletePaidStep ==
    ASSUME ClickIInv, NEW h \in ClickHandlers, NEW i \in ClickIds,
           NEW p \in Purpose, CompletePaid(h, i, p)
    PROVE  ClickIInv'
<1>1. clickTrans[i] \in ClickRows
  BY ClickRowLemma DEF ClickIInv, CompletePaid, Acceptable
<1>2. ClickTypeOK'
  <2>1. [id |-> i, row |-> clickTrans[i].row, purpose |-> p] \in CompleteAnswer
    BY <1>1 DEF CompleteAnswer, ClickRows
  <2>2. QED
    BY <2>1 DEF ClickIInv, ClickTypeOK, CompletePaid, GiveConfirmId
<1>3. ClickRowInv' /\ ClickJobInv'
  BY ClickQuietStep DEF CompletePaid, ClickIInv, ClickTypeOK
<1>4. ClickAnswerInv'
  BY DEF ClickIInv, ClickAnswerInv, CompletePaid, GiveConfirmId, Acceptable, Paid, ClickExists
<1>5. QED
  BY <1>2, <1>3, <1>4 DEF ClickIInv

LEMMA CompleteFailedStep ==
    ASSUME ClickIInv, NEW h \in ClickHandlers, NEW i \in ClickIds,
           NEW p \in Purpose, CompleteFailed(h, i, p)
    PROVE  ClickIInv'
<1>1. clickTrans[i] \in ClickRows /\ clickTrans[i].status # "SUCCESS"
  BY ClickRowLemma, ClickNotPaidLemma DEF ClickIInv, CompleteFailed, Acceptable
<1>2. /\ Failed(clickTrans[i]) \in ClickRows
      /\ Failed(clickTrans[i]).status = "FAILED"
      /\ Failed(clickTrans[i]).row = clickTrans[i].row
      /\ ClickRowOK(Failed(clickTrans[i]), clickPayment[i], clickPublished[i])
  BY <1>1, ClickFailedLemma DEF ClickIInv, ClickRowInv
<1>3. \A j \in ClickIds :
        clickTrans'[j] = IF j = i THEN Failed(clickTrans[i]) ELSE clickTrans[j]
  BY DEF ClickIInv, ClickTypeOK, CompleteFailed
<1>4. ClickTypeOK'
  BY <1>2 DEF ClickIInv, ClickTypeOK, CompleteFailed
<1>5. ClickRowInv'
  BY <1>2, <1>3 DEF ClickIInv, ClickRowInv, CompleteFailed
<1>6. ClickJobInv'
  <2>1. \A g \in ClickHandlers :
          clickJob[g].step \in {"reread", "publish"} => clickJob[g].id \in ClickIds
    BY ClickJobLemma DEF ClickIInv
  <2>2. QED
    BY <1>1, <1>2, <1>3, <2>1 DEF ClickIInv, ClickJobInv, ClickExists, CompleteFailed
<1>7. ClickAnswerInv'
  <2>1. \A a \in prepared \cup confirmed : a.id \in ClickIds
    BY DEF ClickIInv, ClickTypeOK, PrepareAnswer, CompleteAnswer
  <2>2. \A c \in confirmed : c.id # i
    BY <1>1 DEF ClickIInv, ClickAnswerInv
  <2>3. QED
    BY <1>2, <1>3, <2>1, <2>2 DEF ClickIInv, ClickAnswerInv, ClickExists, CompleteFailed
<1>8. QED
  BY <1>4, <1>5, <1>6, <1>7 DEF ClickIInv

LEMMA CompletePaysStep ==
    ASSUME ClickIInv, NEW h \in ClickHandlers, NEW i \in ClickIds,
           NEW p \in Purpose, CompletePays(h, i, p)
    PROVE  ClickIInv'
<1> DEFINE r == Completed(clickTrans[i])
           b == ConfirmedFor(clickTrans[i].purpose)
<1>1. /\ clickTrans[i] \in ClickRows /\ clickTrans[i].purpose = p
      /\ clickTrans[i].status # "SUCCESS" /\ clickPublished[i] = 0
  BY ClickRowLemma, ClickNotPaidLemma DEF ClickIInv, CompletePays, Acceptable
<1>2. /\ r \in ClickRows /\ r.status = "SUCCESS" /\ r.row = clickTrans[i].row
      /\ r.purpose = clickTrans[i].purpose
      /\ b \in Payment
      /\ ClickRowOK(r, b, clickPublished[i])
  BY <1>1, ClickCompletedLemma
<1>3. \A j \in ClickIds : /\ clickTrans'[j] = IF j = i THEN r ELSE clickTrans[j]
                     /\ clickPayment'[j] = IF j = i THEN b ELSE clickPayment[j]
  BY DEF ClickIInv, ClickTypeOK, CompletePays
<1>4. ClickTypeOK'
  <2>1. [step |-> "publish", id |-> i] \in ClickJobs
    BY DEF ClickJobs
  <2>2. [id |-> i, row |-> clickTrans[i].row, purpose |-> p] \in CompleteAnswer
    BY <1>1 DEF CompleteAnswer, ClickRows
  <2>3. QED
    BY <1>2, <2>1, <2>2 DEF ClickIInv, ClickTypeOK, CompletePays, GiveConfirmId
<1>5. ClickRowInv'
  BY <1>2, <1>3 DEF ClickIInv, ClickRowInv, CompletePays
<1>6. ClickJobInv'
  <2>1. \A g \in ClickHandlers :
          clickJob[g].step \in {"reread", "publish"} => clickJob[g].id \in ClickIds
    BY ClickJobLemma DEF ClickIInv
  <2>2. \A g \in ClickHandlers : g # h => clickJob'[g] = clickJob[g]
    BY DEF ClickIInv, ClickTypeOK, CompletePays
  <2>3. clickJob'[h] = [step |-> "publish", id |-> i]
    BY DEF ClickIInv, ClickTypeOK, CompletePays
  <2>4. \A g \in ClickHandlers : clickJob[g].step = "publish" => clickJob[g].id # i
    BY <1>1 DEF ClickIInv, ClickJobInv
  <2>5. clickPublished' = clickPublished
    BY DEF CompletePays
  <2>6. \A g \in ClickHandlers : clickJob'[g].step = "reread" => ClickExists(clickJob[g].id)'
    BY <1>1, <1>2, <1>3, <2>1, <2>2, <2>3 DEF ClickIInv, ClickJobInv, ClickExists
  <2>7. \A g \in ClickHandlers : clickJob'[g].step = "publish" =>
          clickTrans'[clickJob'[g].id].status = "SUCCESS" /\ clickPublished'[clickJob'[g].id] = 0
    BY <1>1, <1>2, <1>3, <2>1, <2>2, <2>3, <2>5 DEF ClickIInv, ClickJobInv
  <2>8. \A f, g \in ClickHandlers :
          clickJob'[f].step = "publish" /\ clickJob'[g].step = "publish"
            /\ clickJob'[f].id = clickJob'[g].id
            => f = g
    BY <2>2, <2>3, <2>4 DEF ClickIInv, ClickJobInv
  <2>9. QED
    BY <2>6, <2>7, <2>8 DEF ClickJobInv
<1>7. ClickAnswerInv'
  <2>1. \A a \in prepared \cup confirmed : a.id \in ClickIds
    BY DEF ClickIInv, ClickTypeOK, PrepareAnswer, CompleteAnswer
  <2>2. \A c \in confirmed : c.id # i
    BY <1>1 DEF ClickIInv, ClickAnswerInv
  <2>3. confirmed' = confirmed \cup {[id |-> i, row |-> clickTrans[i].row, purpose |-> p]}
    BY DEF CompletePays, GiveConfirmId
  <2>4. QED
    BY <1>1, <1>2, <1>3, <2>1, <2>2, <2>3 DEF ClickIInv, ClickAnswerInv, ClickExists, CompletePays
<1>8. QED
  BY <1>4, <1>5, <1>6, <1>7 DEF ClickIInv

LEMMA ClickPublishStep ==
    ASSUME ClickIInv, NEW h \in ClickHandlers, ClickPublish(h)
    PROVE  ClickIInv'
<1> DEFINE i == clickJob[h].id
<1>1. i \in ClickIds /\ ClickIdle \in ClickJobs
  BY ClickJobLemma DEF ClickIInv, ClickPublish
<1>2. clickTrans[i].status = "SUCCESS" /\ clickPublished[i] = 0
  BY DEF ClickIInv, ClickJobInv, ClickPublish
<1>3. \A j \in ClickIds : j # i => clickPublished'[j] = clickPublished[j]
  BY DEF ClickIInv, ClickTypeOK, ClickPublish
<1>4. ClickTypeOK'
  <2>1. clickPublished' \in [ClickIds -> Nat]
    BY <1>1 DEF ClickIInv, ClickTypeOK, ClickPublish
  <2>2. QED
    BY <1>1, <2>1 DEF ClickIInv, ClickTypeOK, ClickPublish
<1>5. ClickRowInv'
  BY <1>2, <1>3 DEF ClickIInv, ClickRowInv, ClickRowOK, ClickPublish
<1>6. ClickJobInv'
  <2>1. \A g \in ClickHandlers : g # h => clickJob'[g] = clickJob[g]
    BY DEF ClickIInv, ClickTypeOK, ClickPublish
  <2>2. clickJob'[h] = ClickIdle
    BY DEF ClickIInv, ClickTypeOK, ClickPublish
  <2>3. \A g \in ClickHandlers :
          g # h /\ clickJob[g].step = "publish" => clickJob[g].id \in ClickIds \ {i}
    BY ClickJobLemma DEF ClickIInv, ClickJobInv, ClickPublish
  <2>4. QED
    BY <1>3, <2>1, <2>2, <2>3 DEF ClickIInv, ClickJobInv, ClickExists, ClickIdle, ClickPublish
<1>7. ClickAnswerInv'
  BY DEF ClickIInv, ClickAnswerInv, ClickExists, ClickPublish
<1>8. QED
  BY <1>4, <1>5, <1>6, <1>7 DEF ClickIInv

LEMMA ClickCrashStep ==
    ASSUME ClickIInv, ClickCrash
    PROVE  ClickIInv'
<1>1. clickJob' \in [ClickHandlers -> ClickJobs]
  BY DEF ClickCrash, ClickJobs
<1>2. ClickTypeOK' /\ ClickAnswerInv'
  BY <1>1 DEF ClickIInv, ClickTypeOK, ClickAnswerInv, ClickExists, ClickCrash
<1>3. \A h \in ClickHandlers :
        clickJob'[h] = clickJob[h] \/ clickJob'[h].step \in {"idle", "insert"}
  BY DEF ClickCrash, ClickIdle
<1>4. ClickRowInv' /\ ClickJobInv'
  BY <1>1, <1>3, ClickQuietStep DEF ClickCrash
<1>5. QED
  BY <1>2, <1>4 DEF ClickIInv

LEMMA ClickNextLemma == ClickIInv /\ [ClickNext]_clickVars => ClickIInv'
<1> SUFFICES ASSUME ClickIInv, [ClickNext]_clickVars PROVE ClickIInv'
  OBVIOUS
<1>1. CASE UNCHANGED clickVars
  BY <1>1 DEF clickVars, ClickIInv, ClickTypeOK, ClickRowInv, ClickJobInv, ClickAnswerInv,
             ClickExists
<1>2. ASSUME NEW h \in ClickHandlers, NEW i \in ClickIds, NEW p \in Purpose,
             Prepare(h, i, p) \/ Complete(h, i, p)
      PROVE  ClickIInv'
  BY <1>2, PrepareExistingStep, PrepareAbsentStep, CompletePaidStep, CompleteFailedStep,
     CompletePaysStep DEF Prepare, Complete
<1>3. ASSUME NEW h \in ClickHandlers, ClickContinue(h) PROVE ClickIInv'
  BY <1>3, PrepareInsertStep, PrepareRereadStep, ClickPublishStep DEF ClickContinue
<1>4. CASE ClickCrash
  BY <1>4, ClickCrashStep
<1>5. QED
  BY <1>1, <1>2, <1>3, <1>4 DEF ClickNext

LEMMA ClickInvariance == ClickSpec => []ClickIInv
BY ClickInitLemma, ClickNextLemma, PTL DEF ClickSpec

-----------------------------------------------------------------------------
(* What follows.                                                           *)

\* Every variable of ClickGateway keeps its type.
THEOREM ClickTypeCorrect == ClickSpec => []ClickTypeOK
<1>1. ClickIInv => ClickTypeOK
  BY DEF ClickIInv
<1>2. QED
  BY <1>1, ClickInvariance, PTL

\* What Click had confirmed is booked for the amount and the student it was
\* confirmed for, and all ids given for one transaction are the same, however
\* many requests are in flight.
THEOREM ConfirmedStaysBooked == ClickSpec => []ConfirmedIsBooked
<1>1. ClickIInv => ConfirmedIsBooked
  <2> SUFFICES ASSUME ClickIInv PROVE ConfirmedIsBooked
    OBVIOUS
  <2>1. \A a \in prepared \cup confirmed : a.id \in ClickIds /\ a.row = clickTrans[a.id].row
    BY DEF ClickIInv, ClickTypeOK, ClickAnswerInv, PrepareAnswer, CompleteAnswer
  <2>2. \A c \in confirmed : clickPayment[c.id] = ConfirmedFor(c.purpose)
    BY <2>1 DEF ClickIInv, ClickRowInv, ClickRowOK, ClickAnswerInv
  <2>3. QED
    BY <2>1, <2>2 DEF ConfirmedIsBooked
<1>2. QED
  BY <1>1, ClickInvariance, PTL

\* A prepare that loses the race for the unique index never surfaces as an error.
THEOREM ClickRaceLosersAnswered == ClickSpec => []ClickLoserAnswered
<1>1. ClickIInv => ClickLoserAnswered
  BY DEF ClickIInv, ClickAnswerInv, ClickLoserAnswered
<1>2. QED
  BY <1>1, ClickInvariance, PTL

\* Money is booked exactly for the transactions that stand paid, and the two
\* columns that say so never differ.
THEOREM ClickLedgerAndRowsAgree == ClickSpec => []ClickBooksAgree
<1>1. ClickIInv => ClickBooksAgree
  <2>1. \A p : ConfirmedFor(p) # Unpaid
    BY DEF ConfirmedFor, Unpaid
  <2>2. QED
    BY <2>1 DEF ClickIInv, ClickRowInv, ClickRowOK, ClickBooksAgree
<1>2. QED
  BY <1>1, ClickInvariance, PTL

\* What Click was told is booked as it was told, once, and nothing else is.
THEOREM ClickStaysBooked == ClickSpec => []ClickIsBooked
BY ConfirmedStaysBooked, ClickLedgerAndRowsAgree, PTL DEF ClickIsBooked

-----------------------------------------------------------------------------
(* Every step, seen from the rows.                                         *)

\* Transaction i goes one way of the ledger, and no other row or payment changes.
Goes(i) ==
    \/ clickTrans[i].status = "ABSENT" /\ clickTrans'[i].status = "PENDING"
    \/ clickTrans[i].status \in {"PENDING", "FAILED"} /\ clickTrans'[i].status = "FAILED"
    \/ clickTrans[i].status \in {"PENDING", "FAILED"} /\ clickTrans'[i].status = "SUCCESS"

ClickLedgerStep ==
    \/ UNCHANGED <<clickTrans, clickPayment, clickPublished>>
    \/ \E i \in ClickIds :
         /\ Goes(i)
         /\ \A j \in ClickIds \ {i} :
              clickTrans'[j] = clickTrans[j] /\ clickPayment'[j] = clickPayment[j]
         /\ UNCHANGED clickPublished
    \/ \E i \in ClickIds :
         /\ clickTrans[i].status = "SUCCESS" /\ clickPublished[i] = 0
         /\ clickPublished' = [clickPublished EXCEPT ![i] = 1]
         /\ UNCHANGED <<clickTrans, clickPayment>>

LEMMA ClickEveryStep ==
    ASSUME ClickIInv, [ClickNext]_clickVars
    PROVE  ClickLedgerStep
<1>1. ASSUME NEW h \in ClickHandlers, PrepareInsert(h) PROVE ClickLedgerStep
  <2> DEFINE i == clickJob[h].id
             r == NewClickRow(nextClickRow, clickJob[h].purpose)
  <2>1. i \in ClickIds
    BY <1>1, ClickJobLemma DEF ClickIInv, PrepareInsert
  <2>2. CASE ClickViolation(i)
    BY <1>1, <2>2 DEF PrepareInsert, ClickLedgerStep
  <2>3. CASE ~ClickViolation(i)
    <3>1. clickTrans' = [clickTrans EXCEPT ![i] = r] /\ UNCHANGED <<clickPayment,
                                                                    clickPublished>>
      BY <1>1, <2>3 DEF PrepareInsert
    <3>2. clickTrans[i].status = "ABSENT" /\ r.status = "PENDING"
      BY <2>3 DEF ClickViolation, ClickExists, NewClickRow
    <3>3. Goes(i) /\ \A j \in ClickIds \ {i} : clickTrans'[j] = clickTrans[j]
      BY <2>1, <3>1, <3>2 DEF ClickIInv, ClickTypeOK, Goes
    <3>4. QED
      BY <2>1, <3>1, <3>3 DEF ClickLedgerStep
  <2>4. QED
    BY <2>2, <2>3
<1>2. ASSUME NEW h \in ClickHandlers, NEW i \in ClickIds, NEW p \in Purpose,
             CompleteFailed(h, i, p) \/ CompletePays(h, i, p)
      PROVE  ClickLedgerStep
  <2>1. clickTrans[i] \in ClickRows /\ clickTrans[i].status \in {"PENDING", "FAILED"}
    BY <1>2, ClickRowLemma, ClickNotPaidLemma
    DEF ClickIInv, CompleteFailed, CompletePays, Acceptable, ClickRows
  <2>2. clickTrans'[i] \in {Failed(clickTrans[i]), Completed(clickTrans[i])}
    BY <1>2 DEF ClickIInv, ClickTypeOK, CompleteFailed, CompletePays
  <2>3. Goes(i)
    BY <2>1, <2>2 DEF Goes, Failed, Completed, ClickRows
  <2>4. /\ \A j \in ClickIds \ {i} :
             clickTrans'[j] = clickTrans[j] /\ clickPayment'[j] = clickPayment[j]
        /\ UNCHANGED clickPublished
    BY <1>2 DEF ClickIInv, ClickTypeOK, CompleteFailed, CompletePays
  <2>5. QED
    BY <2>3, <2>4 DEF ClickLedgerStep
<1>3. ASSUME NEW h \in ClickHandlers, ClickPublish(h) PROVE ClickLedgerStep
  <2>1. /\ clickJob[h].id \in ClickIds
        /\ clickTrans[clickJob[h].id].status = "SUCCESS" /\ clickPublished[clickJob[h].id] = 0
    BY <1>3, ClickJobLemma DEF ClickIInv, ClickJobInv, ClickPublish
  <2>2. QED
    BY <1>3, <2>1 DEF ClickIInv, ClickTypeOK, ClickPublish, ClickLedgerStep
<1>4. QED
  BY <1>1, <1>2, <1>3 DEF ClickNext, ClickContinue, Prepare, Complete, ClickLedgerStep, clickVars,
     PrepareExisting, PrepareAbsent, PrepareReread, CompletePaid, ClickCrash

\* A paid transaction is closed: no later request touches its row or its payment.
THEOREM PaidStaysPaid == ClickSpec => PaidIsFinal
<1>1. ClickIInv /\ [ClickNext]_clickVars =>
        [\A i \in ClickIds : clickTrans[i].status = "SUCCESS"
           => clickTrans'[i] = clickTrans[i] /\ clickPayment'[i] = clickPayment[i]]_clickVars
  BY ClickEveryStep DEF ClickLedgerStep, Goes
<1>2. QED
  BY <1>1, ClickInvariance, PTL DEF ClickSpec, PaidIsFinal

\* The gateway implements PaymentLedger with every transaction revivable and
\* none refundable, step by step.
THEOREM ClickGatewayImplementsLedger == ClickSpec => ClickImplementsLedger
<1>1. ClickInit => ClickLedger!Init
  BY DEF ClickInit, ClickLedger!Init, ClickEntryOf, NoClickRow
<1>2. ClickIInv /\ [ClickNext]_clickVars => [ClickLedger!Next]_(ClickLedger!vars)
  <2> SUFFICES ASSUME ClickIInv, [ClickNext]_clickVars
               PROVE  ClickLedger!Next \/ UNCHANGED ClickLedger!vars
    OBVIOUS
  <2>1. CASE UNCHANGED <<clickTrans, clickPayment, clickPublished>>
    BY <2>1 DEF ClickLedger!vars, ClickEntryOf
  <2>2. ASSUME NEW i \in ClickIds, Goes(i), UNCHANGED clickPublished,
               \A j \in ClickIds \ {i} :
                 clickTrans'[j] = clickTrans[j] /\ clickPayment'[j] = clickPayment[j]
        PROVE  ClickLedger!Next \/ UNCHANGED ClickLedger!vars
    <3>1. \A j \in ClickIds \ {i} : ClickEntryOf(j)' = ClickEntryOf(j)
      BY <2>2 DEF ClickEntryOf
    <3>2. \/ ClickEntryOf(i) = "none" /\ ClickEntryOf(i)' = "open"
          \/ ClickEntryOf(i) \in {"open", "void"} /\ ClickEntryOf(i)' = "void"
          \/ ClickEntryOf(i) \in {"open", "void"} /\ ClickEntryOf(i)' = "credited"
      BY <2>2 DEF Goes, ClickEntryOf
    <3>3. [j \in ClickIds |-> ClickEntryOf(j)]'
            = [[j \in ClickIds |-> ClickEntryOf(j)] EXCEPT ![i] = ClickEntryOf(i)']
      BY <2>2, <3>1
    <3>4. QED
      BY <2>2, <3>2, <3>3
      DEF ClickLedger!Next, ClickLedger!vars, ClickLedger!Open, ClickLedger!Void,
         ClickLedger!Credit, ClickLedger!Revive, ClickLedger!Move
  <2>3. ASSUME NEW i \in ClickIds, clickTrans[i].status = "SUCCESS", clickPublished[i] = 0,
               clickPublished' = [clickPublished EXCEPT ![i] = 1],
               UNCHANGED <<clickTrans, clickPayment>>
        PROVE  ClickLedger!Next
    <3>1. ClickEntryOf(i) = "credited" /\ \A j \in ClickIds : ClickEntryOf(j)' = ClickEntryOf(j)
      BY <2>3 DEF ClickEntryOf
    <3>2. QED
      BY <2>3, <3>1 DEF ClickLedger!Next, ClickLedger!Announce
  <2>4. QED
    BY <2>1, <2>2, <2>3, ClickEveryStep DEF ClickLedgerStep
<1>3. QED
  BY <1>1, <1>2, ClickInvariance, PTL DEF ClickSpec, ClickImplementsLedger, ClickLedger!Spec
=============================================================================
