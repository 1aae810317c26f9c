-------------------------- MODULE StudentPlacement --------------------------
(***************************************************************************)
(* Students, their classes and the leads they come from: StudentsService,  *)
(* LeadsService.convertToStudent and updateStage, and the class settings   *)
(* those read.                                                             *)
(*                                                                         *)
(* Requests overlap at the statements they send to the database (READ      *)
(* COMMITTED).  Placing a student locks the class row, converting a lead   *)
(* locks the lead; nothing locks a student.  A save of TypeORM reads the   *)
(* row once more, and updates the columns in which the entity the request  *)
(* holds differs from it: a request that read the row early also writes    *)
(* back what others changed since.  What a transaction writes is seen when *)
(* it commits; one that fails or dies leaves nothing, and is left out.     *)
(*                                                                         *)
(* A step reads a student, or locks and checks a class, or commits.        *)
(* Between the second read of a row and the commit other commits may fall. *)
(***************************************************************************)
EXTENDS Naturals, FiniteSets

CONSTANTS
    Students, Classes, Leads, Handlers,
    Grades,         \* grade levels
    GradeOf,        \* GradeOf[c]: the grade level of class c, which is immutable
    Capacities,     \* what max_students may be set to
    MaxOpen,        \* bound: open history rows of one student and class
    None

ASSUME GradesOfClasses == GradeOf \in [Classes -> Grades] /\ Capacities \subseteq Nat
ASSUME StudentsAreFinite == IsFiniteSet(Students)
ASSUME OpenRowsAreCounted == MaxOpen \in Nat \ {0}
ASSUME NoneIsNone == None \notin Classes \cup Leads \cup Students

VARIABLES
    student,        \* student[s]: its row, or Unborn
    open,           \* open[s][c]: history rows of s and c not yet removed
    class,          \* class[c]: its capacity and whether it is active
    lead,           \* lead[l]: the student it was converted to, or Deleted
    job,            \* job[h]: how far request h has come
    madeFrom,       \* madeFrom[s]: the lead s was made from, or None
    torn,           \* the students saved over by a request that had read
                    \* them before a change it did not know of
    reset,          \* reset[l]: how often a stage update undid a conversion
    overridden      \* the classes given a capacity below their students

vars == <<student, open, class, lead, job, madeFrom, torn, reset, overridden>>

-----------------------------------------------------------------------------
Unborn == [status |-> "UNBORN", class |-> None, grade |-> None]
Row == [status : {"ACTIVE", "INACTIVE"}, class : Classes \cup {None}, grade : Grades]
Deleted == [converted |-> None, deleted |-> TRUE]
LeadRow == [converted : Students \cup {None}, deleted : {FALSE}]

Idle == [step |-> "idle"]
Stored(s) == student[s] # Unborn

\* A save: the columns in which the entity differs from what was read last.
Save(row, seen, entity) ==
    [f \in DOMAIN row |-> IF entity[f] # seen[f] THEN entity[f] ELSE row[f]]

ActiveIn(c) == {s \in Students : student[s].status = "ACTIVE" /\ student[s].class = c}

\* The class row a request holds under FOR UPDATE.  A definition whose name
\* adds a word to the one that follows it is a mutant of it.
Holding(h) ==
    IF job[h].step \in {"create", "assign", "convert"} THEN job[h].class ELSE None
LockedUnheld(c) == FALSE
Locked(c) == c # None /\ \E h \in Handlers : Holding(h) = c

\* lockClass, assertClassCompatible and assertClassHasSpace.
Accepts(c, grade, s) ==
    /\ ~Locked(c)
    /\ class[c].active
    /\ GradeOf[c] = grade
    /\ Cardinality(ActiveIn(c) \ {s}) < class[c].capacity

\* The history rows of s and c are locked by a request that is closing them.
ClosingUnheld(s, c) == FALSE
Closing(s, c) ==
    \E h \in Handlers : job[h].step \in {"assign", "archive"}
                          /\ job[h].student = s /\ job[h].closes = c

\* A request that read s keeps the row it read; one that commits a change of s
\* makes every such request late.
MarkLate(h, s, j) ==
    job' = [g \in Handlers |->
              IF g = h THEN j
              ELSE IF job[g].step \in {"toAssign", "assign", "toArchive", "archive",
                                       "toUpdate", "update"} /\ job[g].student = s
                THEN [job[g] EXCEPT !.late = TRUE] ELSE job[g]]

-----------------------------------------------------------------------------
Init ==
    /\ student = [s \in Students |-> Unborn]
    /\ open = [s \in Students |-> [c \in Classes |-> 0]]
    /\ class \in [Classes -> [capacity : Capacities, active : {TRUE}]]
    /\ lead = [l \in Leads |-> [converted |-> None, deleted |-> FALSE]]
    /\ job = [h \in Handlers |-> Idle]
    /\ madeFrom = [s \in Students |-> None]
    /\ torn = {}
    /\ reset = [l \in Leads |-> 0]
    /\ overridden = {}

Start(h, j) == job[h] = Idle /\ job' = [job EXCEPT ![h] = j]

\* A new student row, with its first history row when it is in a class.
Born(s, c, grade) ==
    /\ student' = [student EXCEPT ![s] = [status |-> "ACTIVE", class |-> c, grade |-> grade]]
    /\ open' = IF c = None THEN open ELSE [open EXCEPT ![s][c] = @ + 1]

\* create: with a class, lock and check it first.
CreateUnplaced(h, s, grade) ==
    /\ job[h] = Idle /\ student[s] = Unborn
    /\ Born(s, None, grade)
    /\ UNCHANGED <<class, lead, job, madeFrom, torn, reset, overridden>>

CreateCheck(h, c, grade) ==
    /\ Accepts(c, grade, None)
    /\ Start(h, [step |-> "create", class |-> c, grade |-> grade])
    /\ UNCHANGED <<student, open, class, lead, madeFrom, torn, reset, overridden>>

CreateCommit(h, s) ==
    /\ job[h].step = "create" /\ student[s] = Unborn
    /\ Born(s, job[h].class, job[h].grade)
    /\ job' = [job EXCEPT ![h] = Idle]
    /\ UNCHANGED <<class, lead, madeFrom, torn, reset, overridden>>

\* assignClass reads the student, locks and checks the class, closes the open
\* history rows of the class the student was read in, and saves.
AssignRead(h, s, c) ==
    /\ student[s].status = "ACTIVE"
    /\ Start(h, [step |-> "toAssign", student |-> s, class |-> c,
                 entity |-> student[s], late |-> FALSE])
    /\ UNCHANGED <<student, open, class, lead, madeFrom, torn, reset, overridden>>

AssignCheck(h) ==
    LET j == job[h]
        left == IF j.entity.class # j.class THEN j.entity.class ELSE None
    IN  /\ j.step = "toAssign"
        /\ IF Accepts(j.class, j.entity.grade, j.student)
             THEN /\ left # None => ~Closing(j.student, left)
                  /\ job' = [job EXCEPT ![h] =
                       [step |-> "assign", student |-> j.student, class |-> j.class,
                        entity |-> [j.entity EXCEPT !.class = j.class],
                        seen |-> student[j.student], closes |-> left,
                        rows |-> IF left = None THEN 0 ELSE open[j.student][left],
                        opens |-> j.entity.class # j.class, late |-> j.late]]
             ELSE ~Locked(j.class) /\ job' = [job EXCEPT ![h] = Idle]
        /\ UNCHANGED <<student, open, class, lead, madeFrom, torn, reset, overridden>>

AssignCommit(h) ==
    LET j == job[h]
        s == j.student
        c == j.class
    IN  /\ j.step = "assign"
        /\ j.opens => open[s][c] < MaxOpen
        /\ student' = [student EXCEPT ![s] = Save(@, j.seen, j.entity)]
        /\ open' = [open EXCEPT ![s] = [d \in Classes |->
                      open[s][d] - (IF d = j.closes THEN j.rows ELSE 0)
                                 + (IF d = c /\ j.opens THEN 1 ELSE 0)]]
        /\ MarkLate(h, s, Idle)
        /\ torn' = IF j.late THEN torn \cup {s} ELSE torn
        /\ UNCHANGED <<class, lead, madeFrom, reset, overridden>>

\* archive
ArchiveRead(h, s) ==
    /\ student[s].status = "ACTIVE"
    /\ Start(h, [step |-> "toArchive", student |-> s, entity |-> student[s],
                 late |-> FALSE])
    /\ UNCHANGED <<student, open, class, lead, madeFrom, torn, reset, overridden>>

ArchiveCheck(h) ==
    LET j == job[h]
        left == j.entity.class
    IN  /\ j.step = "toArchive"
        /\ left # None => ~Closing(j.student, left)
        /\ job' = [job EXCEPT ![h] =
             [step |-> "archive", student |-> j.student,
              entity |-> [j.entity EXCEPT !.class = None, !.status = "INACTIVE"],
              seen |-> student[j.student], closes |-> left,
              rows |-> IF left = None THEN 0 ELSE open[j.student][left],
              late |-> j.late]]
        /\ UNCHANGED <<student, open, class, lead, madeFrom, torn, reset, overridden>>

ArchiveCommit(h) ==
    LET j == job[h]
        s == j.student
    IN  /\ j.step = "archive"
        /\ student' = [student EXCEPT ![s] = Save(@, j.seen, j.entity)]
        /\ open' = [open EXCEPT ![s] = [d \in Classes |->
                      open[s][d] - (IF d = j.closes THEN j.rows ELSE 0)]]
        /\ MarkLate(h, s, Idle)
        /\ torn' = IF j.late THEN torn \cup {s} ELSE torn
        /\ UNCHANGED <<class, lead, madeFrom, reset, overridden>>

\* update of a profile: the grade level only while in no class.
UpdateReadUnguarded(h, s, grade) ==
    /\ Stored(s)
    /\ Start(h, [step |-> "toUpdate", student |-> s,
                 entity |-> [student[s] EXCEPT !.grade = grade], late |-> FALSE])
    /\ UNCHANGED <<student, open, class, lead, madeFrom, torn, reset, overridden>>
UpdateRead(h, s, grade) ==
    /\ Stored(s)
    /\ grade # student[s].grade => student[s].class = None
    /\ Start(h, [step |-> "toUpdate", student |-> s,
                 entity |-> [student[s] EXCEPT !.grade = grade], late |-> FALSE])
    /\ UNCHANGED <<student, open, class, lead, madeFrom, torn, reset, overridden>>

UpdateCheck(h) ==
    /\ job[h].step = "toUpdate"
    /\ job' = [job EXCEPT ![h] =
         [step |-> "update", student |-> @.student, entity |-> @.entity,
          seen |-> student[@.student], late |-> @.late]]
    /\ UNCHANGED <<student, open, class, lead, madeFrom, torn, reset, overridden>>

UpdateCommit(h) ==
    LET j == job[h]
        s == j.student
    IN  /\ j.step = "update"
        /\ student' = [student EXCEPT ![s] = Save(@, j.seen, j.entity)]
        /\ MarkLate(h, s, Idle)
        /\ torn' = IF j.late THEN torn \cup {s} ELSE torn
        /\ UNCHANGED <<open, class, lead, madeFrom, reset, overridden>>

\* convertToStudent: locks the lead, and the class if there is one.
LeadLockedUnheld(l) == FALSE
LeadLocked(l) == \E h \in Handlers : job[h].step = "convert" /\ job[h].lead = l

ConvertCheck(h, l, c, grade) ==
    /\ ~LeadLocked(l)
    /\ ~lead[l].deleted /\ lead[l].converted = None
    /\ c # None => Accepts(c, grade, None)
    /\ Start(h, [step |-> "convert", lead |-> l, class |-> c, grade |-> grade])
    /\ UNCHANGED <<student, open, class, lead, madeFrom, torn, reset, overridden>>

ConvertCommit(h, s) ==
    LET j == job[h]
    IN  /\ j.step = "convert" /\ student[s] = Unborn
        /\ Born(s, j.class, j.grade)
        /\ lead' = [lead EXCEPT ![j.lead] = [converted |-> s, deleted |-> FALSE]]
        /\ madeFrom' = [madeFrom EXCEPT ![s] = j.lead]
        /\ job' = [job EXCEPT ![h] = Idle]
        /\ UNCHANGED <<class, torn, reset, overridden>>

\* updateStage reads the lead and saves it whole.  The stage itself is left
\* out: nothing looks at it.
StageRead(h, l) ==
    /\ ~lead[l].deleted
    /\ Start(h, [step |-> "toStage", lead |-> l, entity |-> lead[l]])
    /\ UNCHANGED <<student, open, class, lead, madeFrom, torn, reset, overridden>>

StageCheck(h) ==
    /\ job[h].step = "toStage"
    /\ job' = [job EXCEPT ![h] = [step |-> "stage", lead |-> @.lead,
                                  entity |-> @.entity, seen |-> lead[@.lead]]]
    /\ UNCHANGED <<student, open, class, lead, madeFrom, torn, reset, overridden>>

\* A save that found no row inserts the entity; one whose row is gone when it
\* updates changes nothing.
StageCommit(h) ==
    LET j == job[h]
        l == j.lead
        saved == IF j.seen.deleted THEN j.entity
                 ELSE IF lead[l].deleted THEN lead[l]
                 ELSE Save(lead[l], j.seen, j.entity)
    IN  /\ j.step = "stage"
        /\ ~LeadLocked(l)
        /\ lead' = [lead EXCEPT ![l] = saved]
        /\ reset' = IF saved.converted # lead[l].converted \/ (lead[l].deleted /\ ~saved.deleted)
                      THEN [reset EXCEPT ![l] = @ + 1] ELSE reset
        /\ job' = [job EXCEPT ![h] = Idle]
        /\ UNCHANGED <<student, open, class, madeFrom, torn, overridden>>

DeleteLead(l) ==
    /\ ~lead[l].deleted /\ ~LeadLocked(l)
    /\ lead' = [lead EXCEPT ![l] = Deleted]
    /\ UNCHANGED <<student, open, class, job, madeFrom, torn, reset, overridden>>

\* ClassesService.update and softDelete: its UPDATE waits for the row lock.
ReviseClass(c, capacity, active) ==
    /\ ~Locked(c)
    /\ class' = [class EXCEPT ![c] = [capacity |-> capacity, active |-> active]]
    /\ overridden' = IF capacity < Cardinality(ActiveIn(c))
                       THEN overridden \cup {c} ELSE overridden
    /\ UNCHANGED <<student, open, lead, job, madeFrom, torn, reset>>

Placement(h) ==
    \/ \E s \in Students, g \in Grades : CreateUnplaced(h, s, g) \/ UpdateRead(h, s, g)
    \/ \E c \in Classes, g \in Grades : CreateCheck(h, c, g)
    \/ \E s \in Students : CreateCommit(h, s) \/ ArchiveRead(h, s)
    \/ \E s \in Students, c \in Classes : AssignRead(h, s, c)
    \/ AssignCheck(h) \/ AssignCommit(h)
    \/ ArchiveCheck(h) \/ ArchiveCommit(h)
    \/ UpdateCheck(h) \/ UpdateCommit(h)

Pipeline(h) ==
    \/ \E l \in Leads, c \in Classes \cup {None}, g \in Grades : ConvertCheck(h, l, c, g)
    \/ \E s \in Students : ConvertCommit(h, s)
    \/ \E l \in Leads : StageRead(h, l)
    \/ StageCheck(h) \/ StageCommit(h)

Next ==
    \/ \E h \in Handlers : Placement(h) \/ Pipeline(h)
    \/ \E l \in Leads : DeleteLead(l)
    \/ \E c \in Classes, n \in Capacities, b \in BOOLEAN : ReviseClass(c, n, b)

Spec == Init /\ [][Next]_vars

-----------------------------------------------------------------------------
(* Properties.                                                             *)

TypeOK ==
    /\ student \in [Students -> Row \cup {Unborn}]
    /\ open \in [Students -> [Classes -> 0..MaxOpen]]
    /\ class \in [Classes -> [capacity : Capacities, active : BOOLEAN]]
    /\ lead \in [Leads -> LeadRow \cup {Deleted}]
    /\ \A h \in Handlers : job[h].step \in
         {"idle", "create", "toAssign", "assign", "toArchive", "archive", "toUpdate",
          "update", "convert", "toStage", "stage"}
    /\ madeFrom \in [Students -> Leads \cup {None}]
    /\ torn \subseteq Students
    /\ reset \in [Leads -> Nat]
    /\ overridden \subseteq Classes

\* However placements, conversions, archivals and profiles overlap, a class whose
\* capacity was not lowered holds no more active students than its capacity, but
\* for those whom a request that came late put back where it had read them.
CapacityKept ==
    \A c \in Classes :
        c \in overridden \/ Cardinality(ActiveIn(c) \ torn) <= class[c].capacity

\* The books of a student whose requests did not overlap: one open history row,
\* of the class it is in, and none when it is in none; an archived student is
\* in none; and its grade level is that of its class.
HistoryFollowsClass ==
    \A s \in Students : Stored(s) /\ s \notin torn =>
        /\ \A c \in Classes : open[s][c] = IF student[s].class = c THEN 1 ELSE 0
        /\ student[s].status = "INACTIVE" => student[s].class = None
        /\ student[s].class # None => GradeOf[student[s].class] = student[s].grade

\* A lead becomes one student, and one more only for every stage update that
\* undid the conversion, or brought the lead back, with what it had read.
ConvertedOnce ==
    \A l \in Leads : Cardinality({s \in Students : madeFrom[s] = l}) <= 1 + reset[l]

\* The notes: an archived student has its class cleared and its history closed.
ArchivedIsOut ==
    \A s \in Students : student[s].status = "INACTIVE" =>
        student[s].class = None /\ \A c \in Classes : open[s][c] = 0
=============================================================================
