------------------------------ MODULE Figures ------------------------------
(***************************************************************************)
(* The figures of the school: BillingService, DashboardService,            *)
(* ReportsService and AttendanceService.getStats, over the pupils, the     *)
(* payments and the attendance records, while these change.                *)
(*                                                                         *)
(* An answer is made of statements sent one after the other, outside any   *)
(* transaction, so that each sees what is committed by then.  Plan names   *)
(* the statements of each answer and what each one waits for; Result is    *)
(* what a statement returns.  The month an answer speaks of, and today,    *)
(* are read off the clock once, as the answer begins.                      *)
(*                                                                         *)
(* Money is counted in half fees, rates in tenths of a percent where the   *)
(* code rounds to them.  A month has MonthDays days; the day begins        *)
(* earlier in Tashkent than in UTC, and every figure goes by Tashkent.     *)
(* Classes are active, and each has one teacher.  Names, order and pages   *)
(* are left out.                                                           *)
(***************************************************************************)
EXTENDS Integers, FiniteSets, FiniteSetsExt, TLC

CONSTANTS
    Pupils, Classes,
    Seats,          \* max_students of every class
    Amounts,        \* what is paid at once
    MonthDays,      \* the days of a month
    MeanLength,     \* the days of the mean
    LastDay,        \* bound: where the clock stops
    Statuses,       \* of attendance
    Backdates,      \* how many days ago a payment may be said to be made
    MaxRecords,     \* bound: payments and attendance records together
    MaxChanges,     \* bound: how many changes fall into one answer
    Nowhere

VARIABLES
    today,          \* the day in Tashkent, from 0
    pupil,          \* pupil[s]: its row, or Unknown
    payments,       \* the payments
    marks,          \* the attendance records
    answer,         \* the answer under way and what it has got so far
    changes,        \* how many changes fell into it
    regrouped,      \* a pupil came, went or moved since it began
    refunded        \* a payment was taken back since it began

figureVars == <<today, pupil, payments, marks, answer, changes, regrouped, refunded>>

-----------------------------------------------------------------------------
Fee == 2
MonthOf(d) == d \div MonthDays
Months == 0..MonthOf(LastDay)

Unknown == [status |-> "UNKNOWN"]
Pupil == [status : {"ACTIVE", "INACTIVE"}, class : Classes \cup {Nowhere}, enrolled : 0..LastDay]
Payment == [id : 1..MaxRecords, pupil : Pupils, month : Months, amount : Amounts,
            paidAt : 0..LastDay, status : {"CONFIRMED", "REFUNDED"}]
Mark == [pupil : Pupils, class : Classes, day : 0..LastDay, status : Statuses]

Active == {s \in Pupils : pupil[s].status = "ACTIVE"}

\* Math.round of a / b, for a >= 0.
Rounded(a, b) == (2 * a + b) \div (2 * b)
Total(f) == SumFunction(f)

-----------------------------------------------------------------------------
(* The statements.                                                         *)

Confirmed(m) == {p \in payments : p.month = m /\ p.status = "CONFIRMED"}
Sum(ps) == MapThenSumSet(LAMBDA p : p.amount, ps)

\* SUM(amount) of the confirmed payments, grouped by student and month.
PaidBy == [s \in Pupils |-> [m \in Months |-> Sum({p \in Confirmed(m) : p.pupil = s})]]

\* How many active students each class has.
Filled == [c \in Classes |-> Cardinality({s \in Active : pupil[s].class = c})]

\* The dashboard sends the statements of Promise.all at once, and the rest when
\* they are all answered.  Those of them that no figure combines with another are
\* one statement here, the census.
Batch == {"list", "census", "expected", "marked", "mean"}
Plan ==
    [stats |-> [collected |-> {}, count |-> {"collected"}, list |-> {"count"},
                paid |-> {"list"}],
     dashboard |->
        [list |-> {}, census |-> {}, expected |-> {}, marked |-> {"expected"}, mean |-> {"marked"},
         collected |-> Batch, before |-> {"collected"}, paid |-> Batch],
     teacher |-> [marked |-> {}, weekly |-> {"marked"}, list |-> {"weekly"},
                  paid |-> {"list"}],
     finance |-> [count |-> {}, before |-> {"count"}, collected |-> {"before"}]]
Kinds == DOMAIN Plan

\* Whom an answer counts: a teacher its own class, the others everyone.
Counted(a) == IF a.kind = "teacher" THEN {s \in Active : pupil[s].class = a.class} ELSE Active
Watched(a) == IF a.kind = "teacher" THEN {a.class} ELSE a.got.expected

\* The days of the mean.
MeanDays(d) == (d - MeanLength + 1)..d

Result(a, st) ==
    LET m == MonthOf(a.day)
    IN  CASE st \in {"list", "count"} -> Counted(a)
          [] st = "census" ->
                [archived |-> {s \in Pupils : pupil[s].status = "INACTIVE"},
                 unassigned |-> {s \in Active : pupil[s].class = Nowhere}, fill |-> Filled]
          [] st = "expected" -> {pupil[s].class : s \in Active} \ {Nowhere}
          [] st = "marked" -> {c \in Watched(a) : \E k \in marks : k.class = c /\ k.day = a.day}
          [] st = "mean" -> [d \in MeanDays(a.day) |->
                {c \in Watched(a) : \E k \in marks : k.class = c /\ k.day = d}]
          [] st = "weekly" ->
                {k \in marks : k.class = a.class /\ k.day \in (a.day - 1)..a.day}
          [] st = "collected" -> Sum(Confirmed(m))
          [] st = "before" ->
                Sum({p \in Confirmed(m - 1) :
                       a.kind = "finance" \/ p.paidAt <= a.day - MonthDays})
          [] st = "paid" -> PaidBy

-----------------------------------------------------------------------------
(* The figures, of the results of the statements.                          *)

\* What a student owes for a month.  A definition whose name adds a word to the
\* one that follows it is a mutant of it.
GapSigned(a, s, m) == Fee - a.got.paid[s][m]
Gap(a, s, m) == IF a.got.paid[s][m] < Fee THEN Fee - a.got.paid[s][m] ELSE 0

\* getDebtors, which getStats calls for the month of its answer.
DebtorsOfNow(a) == {s \in a.got.list : Gap(a, s, MonthOf(today)) > 0}
Debtors(a) == {s \in a.got.list : Gap(a, s, MonthOf(a.day)) > 0}
OwedFor(a, m) == MapThenSumSet(LAMBDA s : Gap(a, s, m), a.got.list)

\* computeArrearsKpi: from the month a student was enrolled, as the list says.
EnrolledIn(a, s) == Min({MonthOf(pupil[s].enrolled), MonthOf(a.day)})
OwedBy(a, s, ms) ==
    MapThenSumSet(LAMBDA m : Gap(a, s, m), {m \in ms : a.since[s] <= m /\ m <= MonthOf(a.day)})
Arrears(a) == MapThenSumSet(LAMBDA s : OwedBy(a, s, Months), a.got.list)
ArrearsBefore(a) ==
    MapThenSumSet(LAMBDA s : OwedBy(a, s, 0..(MonthOf(a.day) - 1)), a.got.list)
OwingBefore(a) == {s \in a.got.list : OwedBy(a, s, 0..(MonthOf(a.day) - 1)) > 0}

\* computeCollectionRateKpi does not cap the rate, and calls nothing expected
\* everything collected; getStats and the finance report cap it, and call it
\* nothing.
RateOfDashboard(a, sum) ==
    IF a.got.list = {} THEN 1000 ELSE Rounded(1000 * sum, Cardinality(a.got.list) * Fee)
RateOfBilling(a, sum) ==
    IF a.got.count = {} THEN 0
    ELSE Min({100, Rounded(100 * sum, Cardinality(a.got.count) * Fee)})

\* computeCompliance
Compliance(a) ==
    IF a.got.expected = {} THEN 1000
    ELSE Rounded(1000 * Cardinality(a.got.marked), Cardinality(a.got.expected))
MeanCompliance(a) ==
    IF a.got.expected = {} THEN 1000
    ELSE Rounded(1000 * MapThenSumSet(LAMBDA d : Cardinality(a.got.mean[d]), DOMAIN a.got.mean),
                 MeanLength * Cardinality(a.got.expected))

\* computeAverageFill: the mean of the shares of the seats that are taken, at most
\* all of them, is rounded once; and the bucket of a class.
Taken(a, c) == Min({Seats, a.got.census.fill[c]})
AverageFill(a) ==
    Rounded(1000 * Total([c \in Classes |-> Taken(a, c)]), Seats * Cardinality(Classes))
Bucket(a, c) == CASE 100 * Taken(a, c) < 50 * Seats -> "<50%"
                  [] 100 * Taken(a, c) \in (50 * Seats)..(80 * Seats - 1) -> "50-79%"
                  [] 100 * Taken(a, c) \in (80 * Seats)..(100 * Seats - 1) -> "80-99%"
                  [] OTHER -> "100%"

\* The rates of attendance: of a student, of a class in a month, of a week.
Attended(ks) ==
    IF ks = {} THEN 1000
    ELSE Rounded(1000 * Cardinality({k \in ks : k.status \in {"PRESENT", "LATE"}}),
                 Cardinality(ks))
AttendanceOf(s) == {k \in marks : k.pupil = s}
AttendanceReport(c, m) == {k \in marks : k.class = c /\ MonthOf(k.day) = m}

-----------------------------------------------------------------------------
None == [kind |-> "none"]

FiguresInit ==
    /\ today = 0
    /\ pupil = [s \in Pupils |-> Unknown]
    /\ payments = {} /\ marks = {}
    /\ answer = None
    /\ changes = 0 /\ regrouped = FALSE /\ refunded = FALSE

\* A change that others commit.
Change ==
    /\ changes < MaxChanges
    /\ changes' = IF answer = None THEN 0 ELSE changes + 1
    /\ UNCHANGED answer

\* recordPayment, and the receipts of the two gateways: any month may be paid,
\* with any date.
Roomy == Cardinality(payments) + Cardinality(marks) < MaxRecords
RecordPayment(s, m, n, d) ==
    /\ Change /\ pupil[s] # Unknown /\ Roomy
    /\ payments' = payments \cup
         {[id |-> Cardinality(payments) + 1, pupil |-> s, month |-> m, amount |-> n,
           paidAt |-> d, status |-> "CONFIRMED"]}
    /\ UNCHANGED <<today, pupil, marks, regrouped, refunded>>

\* The cancellation of a performed Payme transaction.
Refund(p) ==
    /\ Change /\ p.status = "CONFIRMED"
    /\ payments' = (payments \ {p}) \cup {[p EXCEPT !.status = "REFUNDED"]}
    /\ refunded' = (answer # None)
    /\ UNCHANGED <<today, pupil, marks, regrouped>>

\* Admission, with the class or without; placement; archival.
Regroup(s, row) ==
    /\ Change /\ pupil[s] # row
    /\ pupil' = [pupil EXCEPT ![s] = row]
    /\ regrouped' = (answer # None)
    /\ UNCHANGED <<today, payments, marks, refunded>>
Admit(s, c) ==
    pupil[s] = Unknown /\ Regroup(s, [status |-> "ACTIVE", class |-> c, enrolled |-> today])
Place(s, c) == s \in Active /\ c # Nowhere /\ Regroup(s, [pupil[s] EXCEPT !.class = c])
Archive(s) == s \in Active /\ Regroup(s, [pupil[s] EXCEPT !.status = "INACTIVE"])

\* One record of a sheet of today: of any student, under the class of the sheet.
RecordAttendance(s, c, status) ==
    /\ Change /\ pupil[s] # Unknown /\ Roomy
    /\ ~ \E k \in marks : k.pupil = s /\ k.day = today
    /\ marks' = marks \cup {[pupil |-> s, class |-> c, day |-> today, status |-> status]}
    /\ UNCHANGED <<today, pupil, payments, regrouped, refunded>>

NextDay ==
    /\ Change /\ today < LastDay
    /\ today' = today + 1
    /\ UNCHANGED <<pupil, payments, marks, regrouped, refunded>>

-----------------------------------------------------------------------------
\* An answer begins, for the month and the day there are; goes on with the
\* result of a statement that has nothing left to wait for; and is given.
Asked(kind, c) ==
    [kind |-> kind, class |-> c, day |-> today, got |-> << >>, since |-> << >>]
Begin(kind, c) ==
    /\ answer = None
    /\ kind = "teacher" <=> c # Nowhere
    /\ answer' = Asked(kind, c)
    /\ changes' = 0 /\ regrouped' = FALSE /\ refunded' = FALSE
    /\ UNCHANGED <<today, pupil, payments, marks>>

Ready(a, st) ==
    /\ st \in DOMAIN Plan[a.kind] \ DOMAIN a.got
    /\ Plan[a.kind][st] \subseteq DOMAIN a.got
Got(a, st) ==
    [a EXCEPT !.got = @ @@ (st :> Result(a, st)),
              !.since = IF st = "list" THEN [s \in Counted(a) |-> EnrolledIn(a, s)] ELSE @]
Ask(st) ==
    /\ answer # None /\ Ready(answer, st)
    /\ answer' = Got(answer, st)
    /\ UNCHANGED <<today, pupil, payments, marks, changes, regrouped, refunded>>

Complete == answer # None /\ DOMAIN answer.got = DOMAIN Plan[answer.kind]
Give ==
    /\ Complete
    /\ answer' = None
    /\ changes' = 0 /\ regrouped' = FALSE /\ refunded' = FALSE
    /\ UNCHANGED <<today, pupil, payments, marks>>

FiguresNext ==
    \/ \E s \in Pupils :
         \/ \E m \in Months, n \in Amounts, d \in Backdates :
              d <= today /\ RecordPayment(s, m, n, today - d)
         \/ \E c \in Classes \cup {Nowhere} : Admit(s, c) \/ Place(s, c)
         \/ \E c \in Classes, st \in Statuses : RecordAttendance(s, c, st)
         \/ Archive(s)
    \/ \E p \in payments : Refund(p)
    \/ NextDay
    \/ \E kind \in Kinds, c \in Classes \cup {Nowhere} : Begin(kind, c)
    \/ \E st \in UNION {DOMAIN Plan[k] : k \in Kinds} : Ask(st)
    \/ Give

FiguresSpec == FiguresInit /\ [][FiguresNext]_figureVars

-----------------------------------------------------------------------------
(* Properties.                                                             *)

\* An answer that nothing changed while it was made.
Asking(kind, c) ==
    LET a == Asked(kind, c)
    IN  IF kind = "dashboard" THEN [a EXCEPT !.got = [expected |-> Result(a, "expected")]] ELSE a
Undisturbed(kind, c) ==
    LET a == Asking(kind, c)
    IN  [a EXCEPT !.got = [st \in DOMAIN Plan[kind] |-> Result(a, st)],
                  !.since = [s \in Active |-> EnrolledIn(a, s)]]

FiguresTypeOK ==
    /\ today \in 0..LastDay
    /\ pupil \in [Pupils -> Pupil \cup {Unknown}]
    /\ payments \subseteq Payment /\ marks \subseteq Mark
    /\ answer # None => DOMAIN answer.got \subseteq DOMAIN Plan[answer.kind]

\* The mean fill that the buckets allow, in tenths of a percent.
BucketFrom == ("<50%" :> 0) @@ ("50-79%" :> 500) @@ ("80-99%" :> 800) @@ ("100%" :> 1000)
BucketTo == ("<50%" :> 500) @@ ("50-79%" :> 800) @@ ("80-99%" :> 1000) @@ ("100%" :> 1000)
BucketMean(a, ends) == Rounded(Total([c \in Classes |-> ends[Bucket(a, c)]]), Cardinality(Classes))

\* While nothing changes the four services tell one story.  What the dashboard
\* adds to the arrears for this month is what billing's debtors owe, and what
\* the teachers' dashboards and the unplaced students make together; its
\* debtors are billing's and those of earlier months, who were enrolled by then;
\* the rates are the same but for the cap and for rounding twice, where anyone
\* is active; the classes hold the active students that are placed, and are as
\* full in the mean as their buckets say; and the registers counted by student are
\* those counted by class.
ServicesAgree ==
    answer = None =>
        LET b == Undisturbed("stats", Nowhere)
            d == Undisturbed("dashboard", Nowhere)
            f == Undisturbed("finance", Nowhere)
            t == [c \in Classes |-> Undisturbed("teacher", c)]
            m == MonthOf(today)
        IN  /\ Arrears(d) - ArrearsBefore(d) = OwedFor(b, m)
            /\ OwedFor(b, m) = Total([c \in Classes |-> OwedFor(t[c], m)])
                 + MapThenSumSet(LAMBDA s : Gap(d, s, m), d.got.census.unassigned)
            /\ {s \in Active : OwedBy(d, s, Months) > 0} = Debtors(b) \cup OwingBefore(d)
            /\ \A s \in OwingBefore(d) : MonthOf(pupil[s].enrolled) < m
            /\ b.got.collected = d.got.collected /\ b.got.collected = f.got.collected
            /\ Active # {} =>
                 10 * RateOfBilling(b, b.got.collected)
                   - Min({1000, RateOfDashboard(d, d.got.collected)}) \in -5..5
            /\ Cardinality(d.got.list) = Cardinality(d.got.census.unassigned) + Total(d.got.census.fill)
            /\ AverageFill(d) \in BucketMean(d, BucketFrom)..BucketMean(d, BucketTo)
            /\ \A c \in d.got.expected : c \in d.got.marked <=> t[c].got.marked # {}
            /\ Total([s \in Pupils |-> Cardinality(AttendanceOf(s))])
                 = Cardinality(UNION {AttendanceReport(c, n) : c \in Classes, n \in Months})

\* The statements of an answer see different moments, and yet: what is expected
\* is no more than what the answer says is owed and what is collected by its
\* end, whatever is paid between them, unless a payment was taken back, or
\* students came, went or moved between the two lists of getStats.  And the mean
\* of the dashboard counts today: it is no less than its share of today's rate,
\* read before it, and neither is above the whole.
OwedOrCollected ==
    Complete =>
        LET a == answer
            m == MonthOf(a.day)
            paid == Sum(Confirmed(m))
        IN  /\ \/ refunded
               \/ CASE a.kind = "stats" ->
                         regrouped \/ Fee * Cardinality(a.got.count)
                                        <= paid + Fee * Cardinality(Debtors(a))
                    [] a.kind = "dashboard" ->
                         Fee * Cardinality(a.got.list) <= paid + Arrears(a) - ArrearsBefore(a)
                    [] a.kind = "teacher" ->
                         Fee * Cardinality(a.got.list)
                           <= OwedFor(a, m) + MapThenSumSet(LAMBDA s : PaidBy[s][m], a.got.list)
                    [] a.kind = "finance" -> a.got.collected <= paid
            /\ a.kind = "dashboard" =>
                 /\ MeanLength * MeanCompliance(a) + MeanLength >= Compliance(a)
                 /\ Compliance(a) <= 1000 /\ MeanCompliance(a) <= 1000
=============================================================================
