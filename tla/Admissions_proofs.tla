-------------------------- MODULE Admissions_proofs --------------------------
(***************************************************************************)
(* Proofs about the two parts of admission, for every set of students,     *)
(* classes, leads, accounts, chats, invites and requests.                  *)
(*                                                                         *)
(* StudentPlacement: FreshInv is the heart of them: what a request that is *)
(* not late holds of its student is still so, and a save of such a request *)
(* makes the row what it holds.  From it follow the capacity (SeatInv: the *)
(* lock of a class has one holder, who found a seat that nobody can take)  *)
(* and the history (FollowsInv).  LeadInv counts the students made from a  *)
(* lead; ClosersInv keeps the rows one request is closing from another.    *)
(*                                                                         *)
(* Families: InviteInv is what a request under way may rely on: an invite  *)
(* that is being accepted is accepted by nobody else, and is neither used  *)
(* nor revoked until the transaction ends, for its row is locked; one that *)
(* a revocation found unused is marked as overtaken when it is used all    *)
(* the same.  EntryInv ties the links to the used invites.                 *)
(***************************************************************************)
EXTENDS StudentPlacement, Families, FiniteSetTheorems, TLAPS

-----------------------------------------------------------------------------
(* Placement.                                                              *)

Placing == Classes \cup {None}

CreateJob == [step : {"create"}, class : Classes, grade : Grades]
ToAssignJob == [step : {"toAssign"}, student : Students, class : Classes, entity : Row,
                late : BOOLEAN]
AssignJob == [step : {"assign"}, student : Students, class : Classes, entity : Row,
              seen : Row, closes : Placing, rows : Int, opens : BOOLEAN, late : BOOLEAN]
ToArchiveJob == [step : {"toArchive"}, student : Students, entity : Row, late : BOOLEAN]
ArchiveJob == [step : {"archive"}, student : Students, entity : Row, seen : Row,
               closes : Placing, rows : Int, late : BOOLEAN]
ToUpdateJob == [step : {"toUpdate"}, student : Students, entity : Row, late : BOOLEAN]
UpdateJob == [step : {"update"}, student : Students, entity : Row, seen : Row, late : BOOLEAN]
ConvertJob == [step : {"convert"}, lead : Leads, class : Placing, grade : Grades]
ToStageJob == [step : {"toStage"}, lead : Leads, entity : LeadRow]
StageJob == [step : {"stage"}, lead : Leads, entity : LeadRow, seen : LeadRow \cup {Deleted}]

ProfileJob == ToAssignJob \cup AssignJob \cup ToArchiveJob \cup ArchiveJob
              \cup ToUpdateJob \cup UpdateJob
OtherJob == {Idle} \cup CreateJob \cup ConvertJob \cup ToStageJob \cup StageJob
Job == OtherJob \cup ProfileJob

\* The steps of the requests that hold a student they have read.
ProfileSteps == {"toAssign", "assign", "toArchive", "archive", "toUpdate", "update"}

PlacementTypeInv ==
    /\ student \in [Students -> Row \cup {Unborn}]
    /\ open \in [Students -> [Classes -> Int]]
    /\ class \in [Classes -> [capacity : Capacities, active : BOOLEAN]]
    /\ lead \in [Leads -> LeadRow \cup {Deleted}]
    /\ job \in [Handlers -> Job]
    /\ madeFrom \in [Students -> Leads \cup {None}]
    /\ torn \subseteq Students
    /\ reset \in [Leads -> Nat]
    /\ overridden \subseteq Classes
    /\ \A h \in Handlers : job[h].step \in ProfileSteps => Stored(job[h].student)

\* What request j, not late, knows of its student, whose row is r and whose
\* open history rows are o.
Fresh(j, r, o) ==
    /\ j.step = "toAssign" => j.entity = r /\ r.status = "ACTIVE"
    /\ j.step = "assign" =>
         /\ j.seen = r /\ r.status = "ACTIVE"
         /\ j.entity = [r EXCEPT !.class = j.class]
         /\ j.closes = IF r.class # j.class THEN r.class ELSE None
         /\ j.rows = IF j.closes = None THEN 0 ELSE o[j.closes]
         /\ j.opens <=> r.class # j.class
         /\ GradeOf[j.class] = r.grade
    /\ j.step = "toArchive" => j.entity = r
    /\ j.step = "archive" =>
         /\ j.seen = r
         /\ j.entity = [r EXCEPT !.class = None, !.status = "INACTIVE"]
         /\ j.closes = r.class
         /\ j.rows = IF j.closes = None THEN 0 ELSE o[j.closes]
    /\ j.step \in {"toUpdate", "update"} =>
         /\ j.entity = [r EXCEPT !.grade = j.entity.grade]
         /\ r.class # None => j.entity.grade = r.grade
    /\ j.step = "update" => j.seen = r

FreshInv ==
    \A h \in Handlers : job[h].step \in ProfileSteps /\ ~job[h].late =>
        Fresh(job[h], student[job[h].student], open[job[h].student])

-----------------------------------------------------------------------------
(* Placement: jobs and rows.                                               *)

\* The kinds of work are told apart by their steps.
LEMMA PlacementWork ==
    ASSUME NEW j \in Job
    PROVE  /\ j.step \in {"idle", "create", "convert", "toStage", "stage"} \cup ProfileSteps
           /\ j.step = "idle" => j = Idle
           /\ j.step = "create" => j \in CreateJob
           /\ j.step = "toAssign" => j \in ToAssignJob
           /\ j.step = "assign" => j \in AssignJob
           /\ j.step = "toArchive" => j \in ToArchiveJob
           /\ j.step = "archive" => j \in ArchiveJob
           /\ j.step = "toUpdate" => j \in ToUpdateJob
           /\ j.step = "update" => j \in UpdateJob
           /\ j.step = "convert" => j \in ConvertJob
           /\ j.step = "toStage" => j \in ToStageJob
           /\ j.step = "stage" => j \in StageJob
           /\ j.step \in ProfileSteps => j.student \in Students /\ j.late \in BOOLEAN
<1>1. CASE j \in OtherJob
  BY <1>1 DEF OtherJob, Idle, CreateJob, ConvertJob, ToStageJob, StageJob, ProfileSteps
<1>2. CASE j \in ProfileJob
  BY <1>2 DEF ProfileJob, ToAssignJob, AssignJob, ToArchiveJob, ArchiveJob, ToUpdateJob,
     UpdateJob, ProfileSteps
<1>3. QED
  BY <1>1, <1>2 DEF Job

\* A request made late changes in nothing else.
LEMMA LateJobs ==
    ASSUME NEW j \in Job, j.step \in ProfileSteps
    PROVE  LET k == [j EXCEPT !.late = TRUE]
           IN  /\ k \in Job /\ k.late /\ k.step = j.step /\ k.student = j.student
               /\ j.step = "assign" => k.class = j.class
               /\ j.step \in {"assign", "archive"} => k.closes = j.closes /\ k.rows = j.rows
<1> DEFINE k == [j EXCEPT !.late = TRUE]
<1> USE DEF ProfileSteps
<1>1. CASE j \in ToAssignJob
  <2>1. k \in ToAssignJob /\ k.late /\ k.step = j.step /\ k.student = j.student
    BY <1>1 DEF ToAssignJob
  <2>2. QED
    BY <1>1, <2>1 DEF Job, ProfileJob, ToAssignJob
<1>2. CASE j \in AssignJob
  <2>1. /\ k \in AssignJob /\ k.late /\ k.step = j.step /\ k.student = j.student
        /\ k.class = j.class /\ k.closes = j.closes /\ k.rows = j.rows
    BY <1>2 DEF AssignJob
  <2>2. QED
    BY <1>2, <2>1 DEF Job, ProfileJob
<1>3. CASE j \in ToArchiveJob
  <2>1. k \in ToArchiveJob /\ k.late /\ k.step = j.step /\ k.student = j.student
    BY <1>3 DEF ToArchiveJob
  <2>2. QED
    BY <1>3, <2>1 DEF Job, ProfileJob, ToArchiveJob
<1>4. CASE j \in ArchiveJob
  <2>1. /\ k \in ArchiveJob /\ k.late /\ k.step = j.step /\ k.student = j.student
        /\ k.closes = j.closes /\ k.rows = j.rows
    BY <1>4 DEF ArchiveJob
  <2>2. QED
    BY <1>4, <2>1 DEF Job, ProfileJob, ArchiveJob
<1>5. CASE j \in ToUpdateJob
  <2>1. k \in ToUpdateJob /\ k.late /\ k.step = j.step /\ k.student = j.student
    BY <1>5 DEF ToUpdateJob
  <2>2. QED
    BY <1>5, <2>1 DEF Job, ProfileJob, ToUpdateJob
<1>6. CASE j \in UpdateJob
  <2>1. k \in UpdateJob /\ k.late /\ k.step = j.step /\ k.student = j.student
    BY <1>6 DEF UpdateJob
  <2>2. QED
    BY <1>6, <2>1 DEF Job, ProfileJob, UpdateJob
<1>7. QED
  BY <1>1, <1>2, <1>3, <1>4, <1>5, <1>6, PlacementWork

\* What MarkLate leaves: job k for request h, and the others as they are or late.
LEMMA MarkedJobs ==
    ASSUME job \in [Handlers -> Job], NEW h \in Handlers, NEW s, NEW k \in Job,
           MarkLate(h, s, k)
    PROVE  /\ job' \in [Handlers -> Job]
           /\ job'[h] = k
           /\ \A g \in Handlers \ {h} :
                \/ job'[g] = job[g] /\ ~(job[g].step \in ProfileSteps /\ job[g].student = s)
                \/ /\ job[g].step \in ProfileSteps
                   /\ job'[g].late /\ job'[g].step = job[g].step
                   /\ job'[g].student = job[g].student
                   /\ job[g].step = "assign" => job'[g].class = job[g].class
                   /\ job[g].step \in {"assign", "archive"} =>
                        job'[g].closes = job[g].closes /\ job'[g].rows = job[g].rows
<1>1. ASSUME NEW g \in Handlers
      PROVE  /\ job'[g] \in Job
             /\ g = h => job'[g] = k
             /\ g # h =>
                  \/ job'[g] = job[g] /\ ~(job[g].step \in ProfileSteps /\ job[g].student = s)
                  \/ /\ job[g].step \in ProfileSteps
                     /\ job'[g].late /\ job'[g].step = job[g].step
                     /\ job'[g].student = job[g].student
                     /\ job[g].step = "assign" => job'[g].class = job[g].class
                     /\ job[g].step \in {"assign", "archive"} =>
                          job'[g].closes = job[g].closes /\ job'[g].rows = job[g].rows
  <2>1. CASE g # h /\ job[g].step \in ProfileSteps /\ job[g].student = s
    <3>1. job'[g] = [job[g] EXCEPT !.late = TRUE]
      BY <2>1 DEF MarkLate, ProfileSteps
    <3>2. QED
      BY <2>1, <3>1, LateJobs
  <2>2. CASE ~(g # h /\ job[g].step \in ProfileSteps /\ job[g].student = s)
    BY <2>2 DEF MarkLate, ProfileSteps
  <2>3. QED
    BY <2>1, <2>2
<1>2. job' = [g \in Handlers |-> job'[g]]
  BY DEF MarkLate
<1>3. QED
  BY <1>1, <1>2

\* A stored student has a row; the rows that requests hold are such rows.
LEMMA StoredRows ==
    ASSUME PlacementTypeInv, NEW s \in Students
    PROVE  Stored(s) <=> student[s] \in Row
BY DEF PlacementTypeInv, Stored, Row, Unborn

\* A save leaves a row, and what the request holds when the row is what it saw.
LEMMA SavedRows ==
    ASSUME NEW row \in Row, NEW seen \in Row, NEW entity \in Row
    PROVE  /\ Save(row, seen, entity) \in Row
           /\ row = seen => Save(row, seen, entity) = entity
<1> DEFINE saved == Save(row, seen, entity)
<1>1. DOMAIN row = {"status", "class", "grade"}
  BY DEF Row
<1>2. saved = [f \in {"status", "class", "grade"} |-> IF entity[f] # seen[f] THEN entity[f]
                                                                            ELSE row[f]]
  BY <1>1 DEF Save
<1>3. saved = [status |-> saved.status, class |-> saved.class, grade |-> saved.grade]
  BY <1>2
<1>4. /\ saved.status \in {entity.status, row.status}
      /\ saved.class \in {entity.class, row.class}
      /\ saved.grade \in {entity.grade, row.grade}
  BY <1>2
<1>5. saved \in Row
  BY <1>3, <1>4 DEF Row
<1>6. ASSUME row = seen PROVE saved = entity
  <2>1. saved.status = entity.status /\ saved.class = entity.class /\ saved.grade = entity.grade
    BY <1>2, <1>6
  <2>2. QED
    BY <1>5, <2>1 DEF Row
<1>7. QED
  BY <1>5, <1>6

\* A lead saved by a stage update is a lead, or gone as it was.
LEMMA SavedLeads ==
    ASSUME NEW row \in LeadRow \cup {Deleted}, NEW seen \in LeadRow \cup {Deleted},
           NEW entity \in LeadRow
    PROVE  (IF seen.deleted THEN entity ELSE IF row.deleted THEN row ELSE Save(row, seen, entity))
             \in LeadRow \cup {Deleted}
<1>1. CASE seen.deleted \/ row.deleted
  BY <1>1
<1>2. CASE ~seen.deleted /\ ~row.deleted
  <2>1. row \in LeadRow /\ seen \in LeadRow
    BY <1>2 DEF Deleted
  <2> DEFINE saved == Save(row, seen, entity)
  <2>2. DOMAIN row = {"converted", "deleted"}
    BY <2>1 DEF LeadRow
  <2>3. saved = [f \in {"converted", "deleted"} |-> IF entity[f] # seen[f] THEN entity[f]
                                                                         ELSE row[f]]
    BY <2>2 DEF Save
  <2>4. saved = [converted |-> saved.converted, deleted |-> saved.deleted]
    BY <2>3
  <2>5. saved.converted \in {entity.converted, row.converted}
        /\ saved.deleted \in {entity.deleted, row.deleted}
    BY <2>3
  <2>6. saved \in LeadRow
    BY <2>1, <2>4, <2>5 DEF LeadRow
  <2>7. QED
    BY <1>2, <2>6
<1>3. QED
  BY <1>1, <1>2

\* The rows requests save.
LEMMA EditedRows ==
    ASSUME NEW r \in Row, NEW c \in Placing, NEW g \in Grades
    PROVE  /\ [r EXCEPT !.class = c] \in Row
           /\ [r EXCEPT !.class = None, !.status = "INACTIVE"] \in Row
           /\ [r EXCEPT !.grade = g] \in Row
           /\ [status |-> "ACTIVE", class |-> c, grade |-> g] \in Row
BY DEF Row, Placing
-----------------------------------------------------------------------------
(* Placement: the types.                                                   *)

\* The requests stay about students that are stored, when the students stay so.
LEMMA StoredStay ==
    ASSUME PlacementTypeInv, NEW h \in Handlers, NEW k \in Job,
           k.step \in ProfileSteps => student'[k.student] # Unborn,
           job' = [job EXCEPT ![h] = k],
           \A u \in Students : Stored(u) => student'[u] # Unborn
    PROVE  /\ job' \in [Handlers -> Job]
           /\ \A g \in Handlers : job'[g].step \in ProfileSteps =>
                                    student'[job'[g].student] # Unborn
<1>1. ASSUME NEW g \in Handlers, job'[g].step \in ProfileSteps
      PROVE  student'[job'[g].student] # Unborn
  <2>1. CASE g = h
    BY <1>1, <2>1 DEF PlacementTypeInv
  <2>2. CASE g # h
    <3>1. job'[g] = job[g] /\ job[g] \in Job
      BY <2>2 DEF PlacementTypeInv
    <3>2. PICK u \in Students : u = job[g].student
      BY <1>1, <3>1, PlacementWork
    <3>3. Stored(u)
      BY <1>1, <3>1, <3>2 DEF PlacementTypeInv
    <3>4. QED
      BY <3>1, <3>2, <3>3
  <2>3. QED
    BY <2>1, <2>2
<1>2. QED
  BY <1>1 DEF PlacementTypeInv

\* A request is given a next job about a student that is stored, or none.
LEMMA OneJobChanges ==
    ASSUME PlacementTypeInv, NEW h \in Handlers, NEW k \in Job,
           k.step \in ProfileSteps => Stored(k.student),
           job' = [job EXCEPT ![h] = k],
           UNCHANGED <<student, open, class, lead, madeFrom, torn, reset, overridden>>
    PROVE  PlacementTypeInv'
<1>1. /\ job' \in [Handlers -> Job]
      /\ \A g \in Handlers : job'[g].step \in ProfileSteps =>
                               student'[job'[g].student] # Unborn
  BY StoredStay DEF Stored
<1>2. QED
  BY <1>1 DEF PlacementTypeInv, Stored

\* The save of a request about student s.
LEMMA ProfileSaved ==
    ASSUME PlacementTypeInv, NEW h \in Handlers, NEW s \in Students, Stored(s),
           NEW seen \in Row, NEW entity \in Row,
           student' = [student EXCEPT ![s] = Save(student[s], seen, entity)],
           open' \in [Students -> [Classes -> Int]],
           MarkLate(h, s, Idle), torn' \subseteq Students,
           UNCHANGED <<class, lead, madeFrom, reset, overridden>>
    PROVE  PlacementTypeInv'
<1> USE DEF PlacementTypeInv
<1>1. Save(student[s], seen, entity) \in Row
  BY SavedRows, StoredRows
<1>2. student' \in [Students -> Row \cup {Unborn}] /\ \A u \in Students : Stored(u) => Stored(u)'
  BY <1>1 DEF Stored, Row, Unborn
<1>3. Idle \in Job
  BY DEF Job, OtherJob
<1>4. /\ job' \in [Handlers -> Job]
      /\ \A g \in Handlers : job'[g].step \in ProfileSteps =>
            job[g].step \in ProfileSteps /\ job'[g].student = job[g].student
  <2>1. job' \in [Handlers -> Job] /\ job'[h] = Idle
    BY <1>3, MarkedJobs
  <2>2. Idle.step \notin ProfileSteps
    BY DEF Idle, ProfileSteps
  <2>3. ASSUME NEW g \in Handlers \ {h}, job'[g].step \in ProfileSteps
        PROVE  job[g].step \in ProfileSteps /\ job'[g].student = job[g].student
    <3>1. \/ job'[g] = job[g]
          \/ job[g].step \in ProfileSteps /\ job'[g].student = job[g].student
      BY <1>3, MarkedJobs
    <3>2. QED
      BY <2>3, <3>1
  <2>4. QED
    BY <2>1, <2>2, <2>3
<1>5. \A g \in Handlers : job'[g].step \in ProfileSteps => student'[job'[g].student] # Unborn
  <2>1. ASSUME NEW g \in Handlers, job'[g].step \in ProfileSteps
        PROVE  student'[job'[g].student] # Unborn
    <3>1. PICK u \in Students : u = job[g].student /\ Stored(u) /\ u = job'[g].student
      BY <1>4, <2>1, PlacementWork
    <3>2. Stored(u)'
      BY <1>2, <3>1
    <3>3. QED
      BY <3>1, <3>2 DEF Stored
  <2>2. QED
    BY <2>1
<1>6. QED
  BY <1>2, <1>4, <1>5 DEF Stored

\* A student is born where nobody was.
LEMMA BirthsAreTyped ==
    ASSUME PlacementTypeInv, NEW s \in Students, student[s] = Unborn, NEW c \in Placing,
           NEW grade \in Grades, Born(s, c, grade)
    PROVE  /\ student' \in [Students -> Row \cup {Unborn}]
           /\ open' \in [Students -> [Classes -> Int]]
           /\ \A u \in Students : Stored(u) => student'[u] # Unborn
<1> USE DEF PlacementTypeInv
<1>1. [status |-> "ACTIVE", class |-> c, grade |-> grade] \in Row
  BY DEF Row, Placing
<1>2. student' = [student EXCEPT ![s] = [status |-> "ACTIVE", class |-> c, grade |-> grade]]
  BY DEF Born
<1>3. open' \in [Students -> [Classes -> Int]]
  BY DEF Born, Placing
<1>4. QED
  BY <1>1, <1>2, <1>3 DEF Stored

LEMMA PlacementTypesKept == PlacementTypeInv /\ [Next]_vars => PlacementTypeInv'
<1> SUFFICES ASSUME PlacementTypeInv, [Next]_vars PROVE PlacementTypeInv'
  OBVIOUS
<1>0. Idle \in Job /\ Idle.step \notin ProfileSteps
  BY DEF Job, OtherJob, Idle, ProfileSteps
<1>1. CASE UNCHANGED vars
  BY <1>1 DEF vars, PlacementTypeInv, Stored
<1>2. ASSUME NEW h \in Handlers, NEW s \in Students, NEW g \in Grades, CreateUnplaced(h, s, g)
      PROVE  PlacementTypeInv'
  <2>1. /\ student' \in [Students -> Row \cup {Unborn}]
        /\ open' \in [Students -> [Classes -> Int]]
        /\ \A u \in Students : Stored(u) => student'[u] # Unborn
    BY <1>2, BirthsAreTyped DEF CreateUnplaced, Placing
  <2>2. job' = [job EXCEPT ![h] = Idle]
    BY <1>2 DEF CreateUnplaced, PlacementTypeInv
  <2>3. QED
    BY <1>0, <1>2, <2>1, <2>2, StoredStay DEF CreateUnplaced, PlacementTypeInv, Stored
<1>3. ASSUME NEW h \in Handlers, NEW c \in Classes, NEW g \in Grades, CreateCheck(h, c, g)
      PROVE  PlacementTypeInv'
  <2>1. [step |-> "create", class |-> c, grade |-> g] \in Job
    BY DEF Job, OtherJob, CreateJob
  <2>2. QED
    BY <1>3, <2>1, OneJobChanges DEF CreateCheck, Start, ProfileSteps
<1>4. ASSUME NEW h \in Handlers, NEW s \in Students, CreateCommit(h, s) PROVE PlacementTypeInv'
  <2>1. job[h].class \in Placing /\ job[h].grade \in Grades
    BY <1>4, PlacementWork DEF CreateCommit, PlacementTypeInv, CreateJob, Placing
  <2>2. /\ student' \in [Students -> Row \cup {Unborn}]
        /\ open' \in [Students -> [Classes -> Int]]
        /\ \A u \in Students : Stored(u) => student'[u] # Unborn
    BY <1>4, <2>1, BirthsAreTyped DEF CreateCommit
  <2>3. job' = [job EXCEPT ![h] = Idle]
    BY <1>4 DEF CreateCommit
  <2>4. QED
    BY <1>0, <1>4, <2>2, <2>3, StoredStay DEF CreateCommit, PlacementTypeInv, Stored
<1>5. ASSUME NEW h \in Handlers, NEW s \in Students, NEW c \in Classes, AssignRead(h, s, c)
      PROVE  PlacementTypeInv'
  <2>1. student[s] \in Row /\ Stored(s)
    BY <1>5, StoredRows DEF AssignRead, Stored, Unborn
  <2>2. [step |-> "toAssign", student |-> s, class |-> c, entity |-> student[s],
         late |-> FALSE] \in Job
    BY <2>1 DEF Job, ProfileJob, ToAssignJob
  <2>3. QED
    BY <1>5, <2>1, <2>2, OneJobChanges DEF AssignRead, Start
<1>6. ASSUME NEW h \in Handlers, AssignCheck(h) PROVE PlacementTypeInv'
  <2>1. /\ job[h].student \in Students /\ job[h].class \in Classes /\ job[h].entity \in Row
        /\ job[h].late \in BOOLEAN /\ Stored(job[h].student)
    BY <1>6, PlacementWork DEF AssignCheck, PlacementTypeInv, ToAssignJob, ProfileSteps
  <2> DEFINE left == IF job[h].entity.class # job[h].class THEN job[h].entity.class ELSE None
             k == [step |-> "assign", student |-> job[h].student, class |-> job[h].class,
                   entity |-> [job[h].entity EXCEPT !.class = job[h].class],
                   seen |-> student[job[h].student], closes |-> left,
                   rows |-> IF left = None THEN 0 ELSE open[job[h].student][left],
                   opens |-> job[h].entity.class # job[h].class, late |-> job[h].late]
  <2>2. left \in Placing
    BY <2>1 DEF Row, Placing
  <2>3. (IF left = None THEN 0 ELSE open[job[h].student][left]) \in Int
    BY <2>1, <2>2 DEF PlacementTypeInv, Placing
  <2>4. student[job[h].student] \in Row /\ [job[h].entity EXCEPT !.class = job[h].class] \in Row
    BY <2>1, StoredRows DEF Row
  <2>5. k \in Job
    BY <2>1, <2>2, <2>3, <2>4 DEF Job, ProfileJob, AssignJob
  <2>6. PICK j \in {k, Idle} : job' = [job EXCEPT ![h] = j]
    BY <1>6 DEF AssignCheck
  <2>7. j \in Job /\ (j.step \in ProfileSteps => Stored(j.student))
    BY <1>0, <2>1, <2>5
  <2>8. QED
    BY <1>6, <2>6, <2>7, OneJobChanges DEF AssignCheck
<1>7. ASSUME NEW h \in Handlers, AssignCommit(h) PROVE PlacementTypeInv'
  <2>1. job[h] \in AssignJob /\ Stored(job[h].student)
    BY <1>7, PlacementWork DEF AssignCommit, PlacementTypeInv, ProfileSteps
  <2>2. PICK s \in Students : s = job[h].student
    BY <2>1 DEF AssignJob
  <2>3. open' \in [Students -> [Classes -> Int]]
    BY <1>7, <2>1, <2>2 DEF AssignCommit, PlacementTypeInv, AssignJob
  <2>4. torn' \subseteq Students /\ MarkLate(h, s, Idle)
    BY <1>7, <2>2 DEF AssignCommit, PlacementTypeInv
  <2>5. student' = [student EXCEPT ![s] = Save(student[s], job[h].seen, job[h].entity)]
    BY <1>7, <2>2 DEF AssignCommit
  <2>6. job[h].seen \in Row /\ job[h].entity \in Row /\ Stored(s)
    BY <2>1, <2>2 DEF AssignJob
  <2>7. QED
    BY <1>7, <2>3, <2>4, <2>5, <2>6, ProfileSaved DEF AssignCommit
<1>8. ASSUME NEW h \in Handlers, NEW s \in Students, ArchiveRead(h, s) PROVE PlacementTypeInv'
  <2>1. student[s] \in Row /\ Stored(s)
    BY <1>8, StoredRows DEF ArchiveRead, Stored, Unborn
  <2>2. [step |-> "toArchive", student |-> s, entity |-> student[s], late |-> FALSE] \in Job
    BY <2>1 DEF Job, ProfileJob, ToArchiveJob
  <2>3. QED
    BY <1>8, <2>1, <2>2, OneJobChanges DEF ArchiveRead, Start
<1>9. ASSUME NEW h \in Handlers, ArchiveCheck(h) PROVE PlacementTypeInv'
  <2>1. /\ job[h].student \in Students /\ job[h].entity \in Row
        /\ job[h].late \in BOOLEAN /\ Stored(job[h].student)
    BY <1>9, PlacementWork DEF ArchiveCheck, PlacementTypeInv, ToArchiveJob, ProfileSteps
  <2> DEFINE left == job[h].entity.class
             k == [step |-> "archive", student |-> job[h].student,
                   entity |-> [job[h].entity EXCEPT !.class = None, !.status = "INACTIVE"],
                   seen |-> student[job[h].student], closes |-> left,
                   rows |-> IF left = None THEN 0 ELSE open[job[h].student][left],
                   late |-> job[h].late]
  <2>2. left \in Placing
    BY <2>1 DEF Row, Placing
  <2>3. (IF left = None THEN 0 ELSE open[job[h].student][left]) \in Int
    BY <2>1, <2>2 DEF PlacementTypeInv, Placing
  <2>4. /\ student[job[h].student] \in Row
        /\ [job[h].entity EXCEPT !.class = None, !.status = "INACTIVE"] \in Row
    BY <2>1, StoredRows DEF Row
  <2>5. k \in Job
    BY <2>1, <2>2, <2>3, <2>4 DEF Job, ProfileJob, ArchiveJob
  <2>6. job' = [job EXCEPT ![h] = k]
    BY <1>9 DEF ArchiveCheck
  <2>7. QED
    BY <1>9, <2>1, <2>5, <2>6, OneJobChanges DEF ArchiveCheck
<1>10. ASSUME NEW h \in Handlers, ArchiveCommit(h) PROVE PlacementTypeInv'
  <2>1. job[h] \in ArchiveJob /\ Stored(job[h].student)
    BY <1>10, PlacementWork DEF ArchiveCommit, PlacementTypeInv, ProfileSteps
  <2>2. PICK s \in Students : s = job[h].student
    BY <2>1 DEF ArchiveJob
  <2>3. open' \in [Students -> [Classes -> Int]]
    BY <1>10, <2>1, <2>2 DEF ArchiveCommit, PlacementTypeInv, ArchiveJob
  <2>4. torn' \subseteq Students /\ MarkLate(h, s, Idle)
    BY <1>10, <2>2 DEF ArchiveCommit, PlacementTypeInv
  <2>5. student' = [student EXCEPT ![s] = Save(student[s], job[h].seen, job[h].entity)]
    BY <1>10, <2>2 DEF ArchiveCommit
  <2>6. job[h].seen \in Row /\ job[h].entity \in Row /\ Stored(s)
    BY <2>1, <2>2 DEF ArchiveJob
  <2>7. QED
    BY <1>10, <2>3, <2>4, <2>5, <2>6, ProfileSaved DEF ArchiveCommit
<1>11. ASSUME NEW h \in Handlers, NEW s \in Students, NEW g \in Grades, UpdateRead(h, s, g)
       PROVE  PlacementTypeInv'
  <2>1. Stored(s) /\ [student[s] EXCEPT !.grade = g] \in Row
    BY <1>11, StoredRows, EditedRows DEF UpdateRead, Placing
  <2>2. [step |-> "toUpdate", student |-> s, entity |-> [student[s] EXCEPT !.grade = g],
         late |-> FALSE] \in Job
    BY <2>1 DEF Job, ProfileJob, ToUpdateJob
  <2>3. QED
    BY <1>11, <2>1, <2>2, OneJobChanges DEF UpdateRead, Start
<1>12. ASSUME NEW h \in Handlers, UpdateCheck(h) PROVE PlacementTypeInv'
  <2>1. /\ job[h].student \in Students /\ job[h].entity \in Row
        /\ job[h].late \in BOOLEAN /\ Stored(job[h].student)
    BY <1>12, PlacementWork DEF UpdateCheck, PlacementTypeInv, ToUpdateJob, ProfileSteps
  <2>2. student[job[h].student] \in Row
    BY <2>1, StoredRows
  <2>3. [step |-> "update", student |-> job[h].student, entity |-> job[h].entity,
         seen |-> student[job[h].student], late |-> job[h].late] \in Job
    BY <2>1, <2>2 DEF Job, ProfileJob, UpdateJob
  <2>4. job' = [job EXCEPT ![h] =
         [step |-> "update", student |-> job[h].student, entity |-> job[h].entity,
          seen |-> student[job[h].student], late |-> job[h].late]]
    BY <1>12 DEF UpdateCheck, PlacementTypeInv
  <2>5. QED
    BY <1>12, <2>1, <2>3, <2>4, OneJobChanges DEF UpdateCheck
<1>13. ASSUME NEW h \in Handlers, UpdateCommit(h) PROVE PlacementTypeInv'
  <2>1. job[h] \in UpdateJob /\ Stored(job[h].student)
    BY <1>13, PlacementWork DEF UpdateCommit, PlacementTypeInv, ProfileSteps
  <2>2. PICK s \in Students : s = job[h].student
    BY <2>1 DEF UpdateJob
  <2>3. open' \in [Students -> [Classes -> Int]] /\ torn' \subseteq Students
        /\ MarkLate(h, s, Idle)
    BY <1>13, <2>2 DEF UpdateCommit, PlacementTypeInv
  <2>4. student' = [student EXCEPT ![s] = Save(student[s], job[h].seen, job[h].entity)]
    BY <1>13, <2>2 DEF UpdateCommit
  <2>5. job[h].seen \in Row /\ job[h].entity \in Row /\ Stored(s)
    BY <2>1, <2>2 DEF UpdateJob
  <2>6. QED
    BY <1>13, <2>3, <2>4, <2>5, ProfileSaved DEF UpdateCommit
<1>14. ASSUME NEW h \in Handlers, NEW l \in Leads, NEW c \in Classes \cup {None},
              NEW g \in Grades, ConvertCheck(h, l, c, g)
       PROVE  PlacementTypeInv'
  <2>1. [step |-> "convert", lead |-> l, class |-> c, grade |-> g] \in Job
    BY DEF Job, OtherJob, ConvertJob, Placing
  <2>2. QED
    BY <1>14, <2>1, OneJobChanges DEF ConvertCheck, Start, ProfileSteps
<1>15. ASSUME NEW h \in Handlers, NEW s \in Students, ConvertCommit(h, s) PROVE PlacementTypeInv'
  <2>1. job[h].class \in Placing /\ job[h].grade \in Grades /\ job[h].lead \in Leads
    BY <1>15, PlacementWork DEF ConvertCommit, PlacementTypeInv, ConvertJob
  <2>2. [converted |-> s, deleted |-> FALSE] \in LeadRow
    BY DEF LeadRow
  <2>3. /\ student' \in [Students -> Row \cup {Unborn}]
        /\ open' \in [Students -> [Classes -> Int]]
        /\ \A u \in Students : Stored(u) => student'[u] # Unborn
    BY <1>15, <2>1, BirthsAreTyped DEF ConvertCommit
  <2>4. /\ lead' \in [Leads -> LeadRow \cup {Deleted}]
        /\ madeFrom' \in [Students -> Leads \cup {None}]
        /\ job' = [job EXCEPT ![h] = Idle]
        /\ UNCHANGED <<class, torn, reset, overridden>>
    BY <1>15, <2>1, <2>2 DEF ConvertCommit, PlacementTypeInv
  <2>5. QED
    BY <1>0, <2>3, <2>4, StoredStay DEF PlacementTypeInv, Stored
<1>16. ASSUME NEW h \in Handlers, NEW l \in Leads, StageRead(h, l) PROVE PlacementTypeInv'
  <2>1. lead[l] \in LeadRow
    BY <1>16 DEF StageRead, PlacementTypeInv, Deleted
  <2>2. [step |-> "toStage", lead |-> l, entity |-> lead[l]] \in Job
    BY <2>1 DEF Job, OtherJob, ToStageJob
  <2>3. QED
    BY <1>16, <2>2, OneJobChanges DEF StageRead, Start, ProfileSteps
<1>17. ASSUME NEW h \in Handlers, StageCheck(h) PROVE PlacementTypeInv'
  <2>1. job[h].lead \in Leads /\ job[h].entity \in LeadRow
    BY <1>17, PlacementWork DEF StageCheck, PlacementTypeInv, ToStageJob
  <2>2. [step |-> "stage", lead |-> job[h].lead, entity |-> job[h].entity,
         seen |-> lead[job[h].lead]] \in Job
    BY <2>1 DEF Job, OtherJob, StageJob, PlacementTypeInv
  <2>3. job' = [job EXCEPT ![h] = [step |-> "stage", lead |-> job[h].lead,
                                   entity |-> job[h].entity, seen |-> lead[job[h].lead]]]
    BY <1>17 DEF StageCheck, PlacementTypeInv
  <2>4. QED
    BY <1>17, <2>2, <2>3, OneJobChanges DEF StageCheck, ProfileSteps
<1>18. ASSUME NEW h \in Handlers, StageCommit(h) PROVE PlacementTypeInv'
  <2>1. job[h] \in StageJob
    BY <1>18, PlacementWork DEF StageCommit, PlacementTypeInv
  <2>2. PICK l \in Leads : l = job[h].lead
    BY <2>1 DEF StageJob
  <2>3. lead' \in [Leads -> LeadRow \cup {Deleted}]
    <3>1. /\ lead[l] \in LeadRow \cup {Deleted}
          /\ job[h].seen \in LeadRow \cup {Deleted} /\ job[h].entity \in LeadRow
      BY <2>1 DEF PlacementTypeInv, StageJob
    <3>2. PICK saved \in LeadRow \cup {Deleted} : lead' = [lead EXCEPT ![l] = saved]
      BY <1>18, <2>2, <3>1, SavedLeads DEF StageCommit
    <3>3. QED
      BY <3>2 DEF PlacementTypeInv
  <2>4. reset' \in [Leads -> Nat]
    BY <1>18, <2>2 DEF StageCommit, PlacementTypeInv
  <2>5. QED
    BY <1>0, <1>18, <2>3, <2>4, StoredStay DEF StageCommit, PlacementTypeInv, Stored
<1>19. ASSUME NEW l \in Leads, DeleteLead(l) PROVE PlacementTypeInv'
  BY <1>19 DEF DeleteLead, PlacementTypeInv, Stored
<1>20. ASSUME NEW c \in Classes, NEW n \in Capacities, NEW b \in BOOLEAN, ReviseClass(c, n, b)
       PROVE  PlacementTypeInv'
  BY <1>20 DEF ReviseClass, PlacementTypeInv, Stored
<1>21. ASSUME NEW h \in Handlers, Placement(h) PROVE PlacementTypeInv'
  BY <1>2, <1>3, <1>4, <1>5, <1>6, <1>7, <1>8, <1>9, <1>10, <1>11, <1>12, <1>13, <1>21
     DEF Placement
<1>22. ASSUME NEW h \in Handlers, Pipeline(h) PROVE PlacementTypeInv'
  BY <1>14, <1>15, <1>16, <1>17, <1>18, <1>22 DEF Pipeline
<1>23. QED
  BY <1>1, <1>19, <1>20, <1>21, <1>22 DEF Next
-----------------------------------------------------------------------------
(* Placement: what a request holds of its student.                         *)

\* A step of one request, after which what it holds of its student is fresh.
LEMMA OneIsFresh ==
    ASSUME PlacementTypeInv, FreshInv, NEW h \in Handlers, NEW k \in Job,
           job' = [job EXCEPT ![h] = k], UNCHANGED <<student, open>>,
           k.step \in ProfileSteps /\ ~k.late =>
             Fresh(k, student[k.student], open[k.student])
    PROVE  FreshInv'
<1>1. ASSUME NEW g \in Handlers, job'[g].step \in ProfileSteps, ~job'[g].late
      PROVE  Fresh(job'[g], student[job'[g].student], open[job'[g].student])
  <2>1. CASE g = h
    BY <1>1, <2>1 DEF PlacementTypeInv
  <2>2. CASE g # h
    BY <1>1, <2>2 DEF PlacementTypeInv, FreshInv
  <2>3. QED
    BY <2>1, <2>2
<1>2. QED
  BY <1>1 DEF FreshInv

\* A student is born: those who hold another hold it as it is.
LEMMA BirthsAreFresh ==
    ASSUME PlacementTypeInv, FreshInv, NEW h \in Handlers, NEW s \in Students, NEW c \in Placing,
           NEW grade \in Grades, student[s] = Unborn, Born(s, c, grade),
           job' = [job EXCEPT ![h] = Idle]
    PROVE  FreshInv'
<1>1. ASSUME NEW g \in Handlers, job'[g].step \in ProfileSteps, ~job'[g].late
      PROVE  Fresh(job'[g], student'[job'[g].student], open'[job'[g].student])
  <2>1. g # h
    BY <1>1 DEF PlacementTypeInv, Idle, ProfileSteps
  <2>2. job'[g] = job[g] /\ job[g] \in Job
    BY <2>1 DEF PlacementTypeInv
  <2>3. PICK u \in Students : u = job[g].student
    BY <1>1, <2>2, PlacementWork
  <2>4. u # s
    BY <1>1, <2>2, <2>3 DEF PlacementTypeInv, Stored
  <2>5. student'[u] = student[u] /\ open'[u] = open[u]
    BY <2>4 DEF Born, PlacementTypeInv
  <2>6. Fresh(job[g], student[u], open[u])
    BY <1>1, <2>2, <2>3 DEF FreshInv
  <2>7. QED
    BY <2>2, <2>3, <2>5, <2>6
<1>2. QED
  BY <1>1 DEF FreshInv

\* A request about s is done: the others about s are late.
LEMMA SavesMakeLate ==
    ASSUME PlacementTypeInv, FreshInv, NEW h \in Handlers, NEW s \in Students, NEW row, NEW rows,
           student' = [student EXCEPT ![s] = row], open' = [open EXCEPT ![s] = rows],
           MarkLate(h, s, Idle)
    PROVE  FreshInv'
<1>1. ASSUME NEW g \in Handlers, job'[g].step \in ProfileSteps, ~job'[g].late
      PROVE  Fresh(job'[g], student'[job'[g].student], open'[job'[g].student])
  <2>1. Idle \in Job /\ Idle.step \notin ProfileSteps
    BY DEF Job, OtherJob, Idle, ProfileSteps
  <2>2. job'[h] = Idle
    BY <2>1, MarkedJobs DEF PlacementTypeInv
  <2>3. g \in Handlers \ {h}
    BY <1>1, <2>1, <2>2
  <2>4. job'[g] = job[g] /\ ~(job[g].step \in ProfileSteps /\ job[g].student = s)
    BY <1>1, <2>1, <2>3, MarkedJobs DEF PlacementTypeInv
  <2>5. PICK u \in Students : u = job[g].student /\ u # s
    BY <1>1, <2>4, PlacementWork DEF PlacementTypeInv
  <2>6. student'[u] = student[u] /\ open'[u] = open[u]
    BY <2>5 DEF PlacementTypeInv
  <2>7. Fresh(job[g], student[u], open[u])
    BY <1>1, <2>4, <2>5 DEF FreshInv
  <2>8. QED
    BY <2>4, <2>5, <2>6, <2>7
<1>2. QED
  BY <1>1 DEF FreshInv

LEMMA FreshKept == PlacementTypeInv /\ FreshInv /\ [Next]_vars => FreshInv'
<1> SUFFICES ASSUME PlacementTypeInv, FreshInv, [Next]_vars PROVE FreshInv'
  OBVIOUS
<1>0. Idle \in Job /\ Idle.step \notin ProfileSteps
  BY DEF Job, OtherJob, Idle, ProfileSteps
<1>1. CASE UNCHANGED vars
  BY <1>1 DEF vars, FreshInv
<1>2. ASSUME NEW h \in Handlers, NEW s \in Students, NEW g \in Grades, CreateUnplaced(h, s, g)
      PROVE  FreshInv'
  <2>1. job' = [job EXCEPT ![h] = Idle]
    BY <1>2 DEF CreateUnplaced, PlacementTypeInv
  <2>2. QED
    BY <1>2, <2>1, BirthsAreFresh DEF CreateUnplaced, Placing
<1>3. ASSUME NEW h \in Handlers, NEW c \in Classes, NEW g \in Grades, CreateCheck(h, c, g)
      PROVE  FreshInv'
  <2>1. [step |-> "create", class |-> c, grade |-> g] \in Job
    BY DEF Job, OtherJob, CreateJob
  <2>2. QED
    BY <1>3, <2>1, OneIsFresh DEF CreateCheck, Start, ProfileSteps
<1>4. ASSUME NEW h \in Handlers, NEW s \in Students, CreateCommit(h, s) PROVE FreshInv'
  <2>1. job[h].class \in Placing /\ job[h].grade \in Grades
    BY <1>4, PlacementWork DEF CreateCommit, PlacementTypeInv, CreateJob, Placing
  <2>2. QED
    BY <1>4, <2>1, BirthsAreFresh DEF CreateCommit
<1>5. ASSUME NEW h \in Handlers, NEW s \in Students, NEW c \in Classes, AssignRead(h, s, c)
      PROVE  FreshInv'
  <2> DEFINE k == [step |-> "toAssign", student |-> s, class |-> c, entity |-> student[s],
                   late |-> FALSE]
  <2>1. student[s] \in Row
    BY <1>5, StoredRows DEF AssignRead, Stored, Unborn
  <2>2. k \in Job
    BY <2>1 DEF Job, ProfileJob, ToAssignJob
  <2>3. Fresh(k, student[s], open[s])
    BY <1>5 DEF Fresh, AssignRead
  <2>4. QED
    BY <1>5, <2>2, <2>3, OneIsFresh DEF AssignRead, Start
<1>6. ASSUME NEW h \in Handlers, AssignCheck(h) PROVE FreshInv'
  <2>1. /\ job[h] \in ToAssignJob /\ job[h].step = "toAssign"
        /\ Stored(job[h].student) /\ job[h].step \in ProfileSteps
    BY <1>6, PlacementWork DEF AssignCheck, PlacementTypeInv, ProfileSteps
  <2>2. PICK s \in Students, c \in Classes : s = job[h].student /\ c = job[h].class
    BY <2>1 DEF ToAssignJob
  <2>3. student[s] \in Row
    BY <2>1, <2>2, StoredRows
  <2> DEFINE left == IF job[h].entity.class # c THEN job[h].entity.class ELSE None
             k == [step |-> "assign", student |-> s, class |-> c,
                   entity |-> [job[h].entity EXCEPT !.class = c],
                   seen |-> student[s], closes |-> left,
                   rows |-> IF left = None THEN 0 ELSE open[s][left],
                   opens |-> job[h].entity.class # c, late |-> job[h].late]
  <2>4. \/ job' = [job EXCEPT ![h] = Idle]
        \/ job' = [job EXCEPT ![h] = k] /\ Accepts(c, job[h].entity.grade, s)
    BY <1>6, <2>2 DEF AssignCheck
  <2>5. CASE job' = [job EXCEPT ![h] = Idle]
    BY <1>0, <1>6, <2>5, OneIsFresh DEF AssignCheck
  <2>6. CASE job' = [job EXCEPT ![h] = k] /\ Accepts(c, job[h].entity.grade, s)
    <3>1. /\ job[h].entity \in Row /\ job[h].late \in BOOLEAN
          /\ left \in Placing
      BY <2>1 DEF ToAssignJob, Row, Placing
    <3>2. (IF left = None THEN 0 ELSE open[s][left]) \in Int
      BY <3>1 DEF PlacementTypeInv, Placing
    <3>3. k \in Job
      <4>1. [job[h].entity EXCEPT !.class = c] \in Row
        BY <3>1 DEF Row
      <4>2. k \in AssignJob
        BY <2>3, <3>1, <3>2, <4>1 DEF AssignJob
      <4>3. QED
        BY <4>2 DEF Job, ProfileJob
    <3>4. ASSUME ~k.late PROVE Fresh(k, student[s], open[s])
      <4>1. job[h].entity = student[s] /\ student[s].status = "ACTIVE"
        BY <2>1, <2>2, <3>4 DEF FreshInv, Fresh
      <4>2. GradeOf[c] = student[s].grade
        BY <2>6, <4>1 DEF Accepts
      <4>3. QED
        BY <4>1, <4>2 DEF Fresh
    <3>5. UNCHANGED <<student, open>>
      BY <1>6 DEF AssignCheck
    <3>6. k.student = s
      OBVIOUS
    <3> HIDE DEF k
    <3>7. QED
      BY <2>6, <3>3, <3>4, <3>5, <3>6, OneIsFresh
  <2>7. QED
    BY <2>4, <2>5, <2>6
<1>7. ASSUME NEW h \in Handlers, AssignCommit(h) PROVE FreshInv'
  <2>1. PICK s \in Students : s = job[h].student
    BY <1>7, PlacementWork DEF AssignCommit, PlacementTypeInv, AssignJob
  <2>2. QED
    BY <1>7, <2>1, SavesMakeLate DEF AssignCommit
<1>8. ASSUME NEW h \in Handlers, NEW s \in Students, ArchiveRead(h, s) PROVE FreshInv'
  <2> DEFINE k == [step |-> "toArchive", student |-> s, entity |-> student[s], late |-> FALSE]
  <2>1. student[s] \in Row
    BY <1>8, StoredRows DEF ArchiveRead, Stored, Unborn
  <2>2. k \in Job
    BY <2>1 DEF Job, ProfileJob, ToArchiveJob
  <2>3. Fresh(k, student[s], open[s])
    BY DEF Fresh
  <2>4. QED
    BY <1>8, <2>2, <2>3, OneIsFresh DEF ArchiveRead, Start
<1>9. ASSUME NEW h \in Handlers, ArchiveCheck(h) PROVE FreshInv'
  <2>1. /\ job[h] \in ToArchiveJob /\ job[h].step = "toArchive"
        /\ Stored(job[h].student) /\ job[h].step \in ProfileSteps
    BY <1>9, PlacementWork DEF ArchiveCheck, PlacementTypeInv, ProfileSteps
  <2>2. PICK s \in Students : s = job[h].student
    BY <2>1 DEF ToArchiveJob
  <2>3. student[s] \in Row
    BY <2>1, <2>2, StoredRows
  <2> DEFINE left == job[h].entity.class
             k == [step |-> "archive", student |-> s,
                   entity |-> [job[h].entity EXCEPT !.class = None, !.status = "INACTIVE"],
                   seen |-> student[s], closes |-> left,
                   rows |-> IF left = None THEN 0 ELSE open[s][left],
                   late |-> job[h].late]
  <2>4. job' = [job EXCEPT ![h] = k] /\ UNCHANGED <<student, open>>
    BY <1>9, <2>2 DEF ArchiveCheck
  <2>5. /\ job[h].entity \in Row /\ job[h].late \in BOOLEAN
        /\ left \in Placing
    BY <2>1 DEF ToArchiveJob, Row, Placing
  <2>6. (IF left = None THEN 0 ELSE open[s][left]) \in Int
    BY <2>5 DEF PlacementTypeInv, Placing
  <2>7. [job[h].entity EXCEPT !.class = None, !.status = "INACTIVE"] \in Row
    BY <2>5 DEF Row
  <2>8. k \in Job
    BY <2>3, <2>5, <2>6, <2>7 DEF Job, ProfileJob, ArchiveJob
  <2>9. ASSUME ~k.late PROVE Fresh(k, student[s], open[s])
    <3>1. job[h].entity = student[s]
      BY <2>1, <2>2, <2>9 DEF FreshInv, Fresh
    <3>2. QED
      BY <3>1 DEF Fresh
  <2>10. k.student = s
    OBVIOUS
  <2> HIDE DEF k
  <2>11. QED
    BY <2>4, <2>8, <2>9, <2>10, OneIsFresh
<1>10. ASSUME NEW h \in Handlers, ArchiveCommit(h) PROVE FreshInv'
  <2>1. PICK s \in Students : s = job[h].student
    BY <1>10, PlacementWork DEF ArchiveCommit, PlacementTypeInv, ArchiveJob
  <2>2. QED
    BY <1>10, <2>1, SavesMakeLate DEF ArchiveCommit
<1>11. ASSUME NEW h \in Handlers, NEW s \in Students, NEW g \in Grades, UpdateRead(h, s, g)
       PROVE  FreshInv'
  <2> DEFINE k == [step |-> "toUpdate", student |-> s,
                   entity |-> [student[s] EXCEPT !.grade = g], late |-> FALSE]
  <2>1. student[s] \in Row /\ [student[s] EXCEPT !.grade = g] \in Row
    BY <1>11, StoredRows, EditedRows DEF UpdateRead, Placing
  <2>2. k \in Job
    BY <2>1 DEF Job, ProfileJob, ToUpdateJob
  <2>3. [student[s] EXCEPT !.grade = g].grade = g
    BY <2>1 DEF Row
  <2>4. Fresh(k, student[s], open[s])
    BY <1>11, <2>3 DEF Fresh, UpdateRead
  <2>5. QED
    BY <1>11, <2>2, <2>4, OneIsFresh DEF UpdateRead, Start
<1>12. ASSUME NEW h \in Handlers, UpdateCheck(h) PROVE FreshInv'
  <2>1. /\ job[h] \in ToUpdateJob /\ job[h].step = "toUpdate"
        /\ Stored(job[h].student) /\ job[h].step \in ProfileSteps
    BY <1>12, PlacementWork DEF UpdateCheck, PlacementTypeInv, ProfileSteps
  <2>2. PICK s \in Students : s = job[h].student
    BY <2>1 DEF ToUpdateJob
  <2>3. student[s] \in Row
    BY <2>1, <2>2, StoredRows
  <2> DEFINE k == [step |-> "update", student |-> s, entity |-> job[h].entity,
                   seen |-> student[s], late |-> job[h].late]
  <2>4. job' = [job EXCEPT ![h] = k] /\ UNCHANGED <<student, open>>
    BY <1>12, <2>2 DEF UpdateCheck, PlacementTypeInv
  <2>5. k \in Job
    BY <2>1, <2>3 DEF Job, ProfileJob, UpdateJob, ToUpdateJob
  <2>6. ASSUME ~k.late PROVE Fresh(k, student[s], open[s])
    <3>1. Fresh(job[h], student[s], open[s])
      BY <2>1, <2>2, <2>6 DEF FreshInv
    <3>2. QED
      BY <2>1, <3>1 DEF Fresh
  <2>7. k.student = s
    OBVIOUS
  <2> HIDE DEF k
  <2>8. QED
    BY <2>4, <2>5, <2>6, <2>7, OneIsFresh
<1>13. ASSUME NEW h \in Handlers, UpdateCommit(h) PROVE FreshInv'
  <2>1. PICK s \in Students : s = job[h].student
    BY <1>13, PlacementWork DEF UpdateCommit, PlacementTypeInv, UpdateJob
  <2>2. open' = [open EXCEPT ![s] = open[s]]
    BY <1>13 DEF UpdateCommit, PlacementTypeInv
  <2>3. QED
    BY <1>13, <2>1, <2>2, SavesMakeLate DEF UpdateCommit
<1>14. ASSUME NEW h \in Handlers, NEW l \in Leads, NEW c \in Classes \cup {None},
              NEW g \in Grades, ConvertCheck(h, l, c, g)
       PROVE  FreshInv'
  <2>1. [step |-> "convert", lead |-> l, class |-> c, grade |-> g] \in Job
    BY DEF Job, OtherJob, ConvertJob, Placing
  <2>2. QED
    BY <1>14, <2>1, OneIsFresh DEF ConvertCheck, Start, ProfileSteps
<1>15. ASSUME NEW h \in Handlers, NEW s \in Students, ConvertCommit(h, s) PROVE FreshInv'
  <2>1. job[h].class \in Placing /\ job[h].grade \in Grades
    BY <1>15, PlacementWork DEF ConvertCommit, PlacementTypeInv, ConvertJob
  <2>2. QED
    BY <1>15, <2>1, BirthsAreFresh DEF ConvertCommit
<1>16. ASSUME NEW h \in Handlers, NEW l \in Leads, StageRead(h, l) PROVE FreshInv'
  <2>1. lead[l] \in LeadRow
    BY <1>16 DEF StageRead, PlacementTypeInv, Deleted
  <2>2. [step |-> "toStage", lead |-> l, entity |-> lead[l]] \in Job
    BY <2>1 DEF Job, OtherJob, ToStageJob
  <2>3. QED
    BY <1>16, <2>2, OneIsFresh DEF StageRead, Start, ProfileSteps
<1>17. ASSUME NEW h \in Handlers, StageCheck(h) PROVE FreshInv'
  <2>1. job[h].lead \in Leads /\ job[h].entity \in LeadRow
    BY <1>17, PlacementWork DEF StageCheck, PlacementTypeInv, ToStageJob
  <2>2. [step |-> "stage", lead |-> job[h].lead, entity |-> job[h].entity,
         seen |-> lead[job[h].lead]] \in Job
    BY <2>1 DEF Job, OtherJob, StageJob, PlacementTypeInv
  <2>3. job' = [job EXCEPT ![h] = [step |-> "stage", lead |-> job[h].lead,
                                   entity |-> job[h].entity, seen |-> lead[job[h].lead]]]
    BY <1>17 DEF StageCheck, PlacementTypeInv
  <2>4. QED
    BY <1>17, <2>2, <2>3, OneIsFresh DEF StageCheck, ProfileSteps
<1>18. ASSUME NEW h \in Handlers, StageCommit(h) PROVE FreshInv'
  BY <1>0, <1>18, OneIsFresh DEF StageCommit
<1>19. ASSUME NEW l \in Leads, DeleteLead(l) PROVE FreshInv'
  BY <1>19 DEF DeleteLead, FreshInv
<1>20. ASSUME NEW c \in Classes, NEW n \in Capacities, NEW b \in BOOLEAN, ReviseClass(c, n, b)
       PROVE  FreshInv'
  BY <1>20 DEF ReviseClass, FreshInv
<1>21. ASSUME NEW h \in Handlers, Placement(h) PROVE FreshInv'
  BY <1>2, <1>3, <1>4, <1>5, <1>6, <1>7, <1>8, <1>9, <1>10, <1>11, <1>12, <1>13, <1>21
     DEF Placement
<1>22. ASSUME NEW h \in Handlers, Pipeline(h) PROVE FreshInv'
  BY <1>14, <1>15, <1>16, <1>17, <1>18, <1>22 DEF Pipeline
<1>23. QED
  BY <1>1, <1>19, <1>20, <1>21, <1>22 DEF Next
-----------------------------------------------------------------------------
(* Placement: the history of a student.                                    *)

\* Why HistoryFollowsClass stays: the unborn have no history, and who is to be
\* born is given the grade level of its class.
FollowsInv ==
    /\ HistoryFollowsClass
    /\ \A s \in Students : ~Stored(s) => \A c \in Classes : open[s][c] = 0
    /\ \A h \in Handlers :
         job[h].step \in {"create", "convert"} /\ job[h].class # None =>
           GradeOf[job[h].class] = job[h].grade

\* Nothing in FollowsInv is disturbed by a step that leaves the students and
\* their history alone and lets no student in.
LEMMA QuietFollows ==
    ASSUME FollowsInv, UNCHANGED <<student, open, torn>>,
           \A g \in Handlers :
             job'[g] = job[g] \/ job'[g].step \notin {"create", "convert"}
             \/ (job'[g].class # None => GradeOf[job'[g].class] = job'[g].grade)
    PROVE  FollowsInv'
BY DEF FollowsInv, HistoryFollowsClass, Stored

LEMMA BirthsFollow ==
    ASSUME PlacementTypeInv, FollowsInv, NEW h \in Handlers, NEW s \in Students,
           NEW c \in Placing, NEW grade \in Grades, student[s] = Unborn, Born(s, c, grade),
           c # None => GradeOf[c] = grade,
           job' = [job EXCEPT ![h] = Idle], torn' = torn
    PROVE  FollowsInv'
<1> DEFINE row == [status |-> "ACTIVE", class |-> c, grade |-> grade]
<1>1. student' = [student EXCEPT ![s] = row] /\ row # Unborn
  BY DEF Born, Unborn
<1>2. \A u \in Students \ {s} : student'[u] = student[u] /\ open'[u] = open[u]
  BY <1>1 DEF Born, PlacementTypeInv
<1>3. \A d \in Classes : open'[s][d] = IF c = d THEN 1 ELSE 0
  <2>1. \A d \in Classes : open[s][d] = 0
    BY DEF FollowsInv, Stored
  <2>2. CASE c = None
    BY <2>1, <2>2, NoneIsNone DEF Born
  <2>3. CASE c # None
    <3>1. open' = [open EXCEPT ![s][c] = @ + 1] /\ c \in Classes
      BY <2>3 DEF Born, Placing
    <3>2. QED
      BY <2>1, <3>1 DEF PlacementTypeInv
  <2>4. QED
    BY <2>2, <2>3
<1>4. student'[s] = row
  BY <1>1 DEF PlacementTypeInv
<1>5. HistoryFollowsClass'
  <2>1. ASSUME NEW u \in Students, student'[u] # Unborn, u \notin torn
        PROVE  /\ \A d \in Classes : open'[u][d] = IF student'[u].class = d THEN 1 ELSE 0
               /\ student'[u].status = "INACTIVE" => student'[u].class = None
               /\ student'[u].class # None => GradeOf[student'[u].class] = student'[u].grade
    <3>1. CASE u = s
      BY <1>3, <1>4, <3>1
    <3>2. CASE u # s
      BY <1>2, <2>1, <3>2 DEF FollowsInv, HistoryFollowsClass, Stored
    <3>3. QED
      BY <3>1, <3>2
  <2>2. QED
    BY <2>1 DEF HistoryFollowsClass, Stored
<1>6. \A u \in Students : student'[u] = Unborn => \A d \in Classes : open'[u][d] = 0
  <2>1. ASSUME NEW u \in Students, student'[u] = Unborn PROVE \A d \in Classes : open'[u][d] = 0
    <3>1. u # s
      BY <1>1, <1>4, <2>1
    <3>2. QED
      BY <1>2, <2>1, <3>1 DEF FollowsInv, Stored
  <2>2. QED
    BY <2>1
<1>7. \A g \in Handlers : job'[g].step \in {"create", "convert"} /\ job'[g].class # None =>
           GradeOf[job'[g].class] = job'[g].grade
  BY DEF FollowsInv, PlacementTypeInv, Idle
<1>8. QED
  BY <1>5, <1>6, <1>7 DEF FollowsInv, Stored

\* A save follows when the request is late, or what it saves follows.
LEMMA SavesFollow ==
    ASSUME PlacementTypeInv, FollowsInv, NEW h \in Handlers, NEW s \in Students, Stored(s),
           NEW row \in Row, NEW rows,
           student' = [student EXCEPT ![s] = row], open' = [open EXCEPT ![s] = rows],
           MarkLate(h, s, Idle), torn \subseteq torn',
           s \notin torn' =>
             /\ \A c \in Classes : rows[c] = IF row.class = c THEN 1 ELSE 0
             /\ row.status = "INACTIVE" => row.class = None
             /\ row.class # None => GradeOf[row.class] = row.grade
    PROVE  FollowsInv'
<1>1. \A u \in Students \ {s} : student'[u] = student[u] /\ open'[u] = open[u]
  BY DEF PlacementTypeInv
<1>2. student'[s] = row /\ open'[s] = rows /\ row # Unborn
  BY DEF PlacementTypeInv, Row, Unborn
<1>3. HistoryFollowsClass'
  <2>1. ASSUME NEW u \in Students, student'[u] # Unborn, u \notin torn'
        PROVE  /\ \A d \in Classes : open'[u][d] = IF student'[u].class = d THEN 1 ELSE 0
               /\ student'[u].status = "INACTIVE" => student'[u].class = None
               /\ student'[u].class # None => GradeOf[student'[u].class] = student'[u].grade
    <3>1. CASE u = s
      BY <1>2, <2>1, <3>1
    <3>2. CASE u # s
      BY <1>1, <2>1, <3>2 DEF FollowsInv, HistoryFollowsClass, Stored
    <3>3. QED
      BY <3>1, <3>2
  <2>2. QED
    BY <2>1 DEF HistoryFollowsClass, Stored
<1>4. \A u \in Students : student'[u] = Unborn => \A d \in Classes : open'[u][d] = 0
  <2>1. ASSUME NEW u \in Students, student'[u] = Unborn PROVE \A d \in Classes : open'[u][d] = 0
    <3>1. u # s
      BY <1>2, <2>1
    <3>2. QED
      BY <1>1, <2>1, <3>1 DEF FollowsInv, Stored
  <2>2. QED
    BY <2>1
<1>5. \A g \in Handlers : job'[g].step \in {"create", "convert"} /\ job'[g].class # None =>
           GradeOf[job'[g].class] = job'[g].grade
  <2>1. ASSUME NEW g \in Handlers, job'[g].step \in {"create", "convert"}
        PROVE  job'[g] = job[g]
    <3>1. Idle \in Job /\ Idle.step = "idle"
      BY DEF Job, OtherJob, Idle
    <3>2. job'[h] = Idle
      BY <3>1, MarkedJobs DEF PlacementTypeInv
    <3>3. g \in Handlers \ {h}
      BY <2>1, <3>1, <3>2
    <3>4. job'[g] = job[g] \/ job'[g].step \in ProfileSteps
      BY <3>1, <3>3, MarkedJobs DEF PlacementTypeInv
    <3>5. QED
      BY <2>1, <3>4 DEF ProfileSteps
  <2>2. QED
    BY <2>1 DEF FollowsInv
<1>6. QED
  BY <1>3, <1>4, <1>5 DEF FollowsInv, Stored

LEMMA FollowsKept == PlacementTypeInv /\ FreshInv /\ FollowsInv /\ [Next]_vars => FollowsInv'
<1> SUFFICES ASSUME PlacementTypeInv, FreshInv, FollowsInv, [Next]_vars PROVE FollowsInv'
  OBVIOUS
<1> DEFINE Lets(j) == j.step \in {"create", "convert"}
<1>0. ~Lets(Idle)
  BY DEF Idle
<1>1. CASE UNCHANGED vars
  BY <1>1, QuietFollows DEF vars
<1>2. ASSUME NEW h \in Handlers, NEW s \in Students, NEW g \in Grades, CreateUnplaced(h, s, g)
      PROVE  FollowsInv'
  <2>1. job' = [job EXCEPT ![h] = Idle]
    BY <1>2 DEF CreateUnplaced, PlacementTypeInv
  <2>2. QED
    BY <1>2, <2>1, BirthsFollow DEF CreateUnplaced, Placing
<1>3. ASSUME NEW h \in Handlers, NEW c \in Classes, NEW g \in Grades, CreateCheck(h, c, g)
      PROVE  FollowsInv'
  <2>1. GradeOf[c] = g
    BY <1>3 DEF CreateCheck, Accepts
  <2>2. QED
    BY <1>3, <2>1, QuietFollows DEF CreateCheck, Start, PlacementTypeInv
<1>4. ASSUME NEW h \in Handlers, NEW s \in Students, CreateCommit(h, s) PROVE FollowsInv'
  <2>1. /\ job[h].class \in Placing /\ job[h].grade \in Grades
        /\ job[h].class # None => GradeOf[job[h].class] = job[h].grade
    BY <1>4, PlacementWork DEF CreateCommit, PlacementTypeInv, CreateJob, Placing, FollowsInv
  <2>2. QED
    BY <1>4, <2>1, BirthsFollow DEF CreateCommit
<1>5. ASSUME NEW h \in Handlers, NEW s \in Students, NEW c \in Classes, AssignRead(h, s, c)
      PROVE  FollowsInv'
  BY <1>5, QuietFollows DEF AssignRead, Start, PlacementTypeInv
<1>6. ASSUME NEW h \in Handlers, AssignCheck(h) PROVE FollowsInv'
  <2>1. PICK k : job' = [job EXCEPT ![h] = k] /\ ~Lets(k)
    BY <1>0, <1>6 DEF AssignCheck
  <2>2. QED
    BY <1>6, <2>1, QuietFollows DEF AssignCheck, PlacementTypeInv
<1>7. ASSUME NEW h \in Handlers, AssignCommit(h) PROVE FollowsInv'
  <2>1. /\ job[h] \in AssignJob /\ job[h].step = "assign"
        /\ Stored(job[h].student) /\ job[h].step \in ProfileSteps
    BY <1>7, PlacementWork DEF AssignCommit, PlacementTypeInv, ProfileSteps
  <2>2. PICK s \in Students, c \in Classes : s = job[h].student /\ c = job[h].class
    BY <2>1 DEF AssignJob
  <2>3. student[s] \in Row /\ job[h].seen \in Row /\ job[h].entity \in Row
    BY <2>1, <2>2, StoredRows DEF AssignJob
  <2> DEFINE row == Save(student[s], job[h].seen, job[h].entity)
             rows == [d \in Classes |-> open[s][d] - (IF d = job[h].closes THEN job[h].rows ELSE 0)
                                              + (IF d = c /\ job[h].opens THEN 1 ELSE 0)]
  <2>4. student' = [student EXCEPT ![s] = row] /\ open' = [open EXCEPT ![s] = rows]
    BY <1>7, <2>2 DEF AssignCommit
  <2>5. row \in Row
    BY <2>3, SavedRows
  <2>6. MarkLate(h, s, Idle) /\ torn' = IF job[h].late THEN torn \cup {s} ELSE torn
    BY <1>7, <2>2 DEF AssignCommit
  <2>7. ASSUME s \notin torn'
        PROVE  /\ \A d \in Classes : rows[d] = IF row.class = d THEN 1 ELSE 0
               /\ row.status = "INACTIVE" => row.class = None
               /\ row.class # None => GradeOf[row.class] = row.grade
    <3>1. ~job[h].late /\ s \notin torn
      BY <2>6, <2>7
    <3>2. Fresh(job[h], student[s], open[s])
      BY <2>1, <2>2, <3>1 DEF FreshInv
    <3>3. /\ row = [student[s] EXCEPT !.class = c] /\ student[s].status = "ACTIVE"
          /\ job[h].closes = IF student[s].class # c THEN student[s].class ELSE None
          /\ job[h].rows = IF job[h].closes = None THEN 0 ELSE open[s][job[h].closes]
          /\ job[h].opens <=> student[s].class # c
          /\ GradeOf[c] = student[s].grade
      BY <2>1, <2>2, <2>3, <3>2, SavedRows DEF Fresh
    <3>4. row.class = c /\ row.status = "ACTIVE" /\ row.grade = student[s].grade
      BY <2>3, <3>3 DEF Row
    <3>5. \A d \in Classes : open[s][d] = IF student[s].class = d THEN 1 ELSE 0
      BY <2>1, <2>2, <3>1 DEF FollowsInv, HistoryFollowsClass
    <3>6. ASSUME NEW d \in Classes PROVE rows[d] = IF c = d THEN 1 ELSE 0
      <4>1. d # None
        BY NoneIsNone
      <4>2. CASE student[s].class = c
        BY <3>3, <3>5, <4>1, <4>2
      <4>3. CASE student[s].class # c
        BY <3>3, <3>5, <4>1, <4>3
      <4>4. QED
        BY <4>2, <4>3
    <3>7. QED
      BY <3>3, <3>4, <3>6
  <2>8. torn \subseteq torn'
    BY <2>6
  <2>9. Stored(s)
    BY <2>1, <2>2
  <2> HIDE DEF row, rows
  <2>10. QED
    BY <2>4, <2>5, <2>6, <2>7, <2>8, <2>9, SavesFollow
<1>8. ASSUME NEW h \in Handlers, NEW s \in Students, ArchiveRead(h, s) PROVE FollowsInv'
  BY <1>8, QuietFollows DEF ArchiveRead, Start, PlacementTypeInv
<1>9. ASSUME NEW h \in Handlers, ArchiveCheck(h) PROVE FollowsInv'
  <2>1. /\ job'[h].step = "archive"
        /\ \A g \in Handlers \ {h} : job'[g] = job[g]
    BY <1>9 DEF ArchiveCheck, PlacementTypeInv
  <2>2. QED
    BY <1>9, <2>1, QuietFollows DEF ArchiveCheck, PlacementTypeInv
<1>10. ASSUME NEW h \in Handlers, ArchiveCommit(h) PROVE FollowsInv'
  <2>1. /\ job[h] \in ArchiveJob /\ job[h].step = "archive"
        /\ Stored(job[h].student) /\ job[h].step \in ProfileSteps
    BY <1>10, PlacementWork DEF ArchiveCommit, PlacementTypeInv, ProfileSteps
  <2>2. PICK s \in Students : s = job[h].student
    BY <2>1 DEF ArchiveJob
  <2>3. student[s] \in Row /\ job[h].seen \in Row /\ job[h].entity \in Row
    BY <2>1, <2>2, StoredRows DEF ArchiveJob
  <2> DEFINE row == Save(student[s], job[h].seen, job[h].entity)
             rows == [d \in Classes |->
                        open[s][d] - (IF d = job[h].closes THEN job[h].rows ELSE 0)]
  <2>4. student' = [student EXCEPT ![s] = row] /\ open' = [open EXCEPT ![s] = rows]
    BY <1>10, <2>2 DEF ArchiveCommit
  <2>5. row \in Row
    BY <2>3, SavedRows
  <2>6. MarkLate(h, s, Idle) /\ torn' = IF job[h].late THEN torn \cup {s} ELSE torn
    BY <1>10, <2>2 DEF ArchiveCommit
  <2>7. ASSUME s \notin torn'
        PROVE  /\ \A d \in Classes : rows[d] = IF row.class = d THEN 1 ELSE 0
               /\ row.status = "INACTIVE" => row.class = None
               /\ row.class # None => GradeOf[row.class] = row.grade
    <3>1. ~job[h].late /\ s \notin torn
      BY <2>6, <2>7
    <3>2. Fresh(job[h], student[s], open[s])
      BY <2>1, <2>2, <3>1 DEF FreshInv
    <3>3. /\ row = [student[s] EXCEPT !.class = None, !.status = "INACTIVE"]
          /\ job[h].closes = student[s].class
          /\ job[h].rows = IF job[h].closes = None THEN 0 ELSE open[s][job[h].closes]
      BY <2>1, <2>2, <2>3, <3>2, SavedRows DEF Fresh
    <3>4. row.class = None
      BY <2>3, <3>3 DEF Row
    <3>5. \A d \in Classes : open[s][d] = IF student[s].class = d THEN 1 ELSE 0
      BY <2>1, <2>2, <3>1 DEF FollowsInv, HistoryFollowsClass
    <3>6. ASSUME NEW d \in Classes PROVE rows[d] = 0 /\ d # None
      BY <3>3, <3>5, NoneIsNone
    <3>7. QED
      BY <3>4, <3>6
  <2>8. torn \subseteq torn'
    BY <2>6
  <2>9. Stored(s)
    BY <2>1, <2>2
  <2> HIDE DEF row, rows
  <2>10. QED
    BY <2>4, <2>5, <2>6, <2>7, <2>8, <2>9, SavesFollow
<1>11. ASSUME NEW h \in Handlers, NEW s \in Students, NEW g \in Grades, UpdateRead(h, s, g)
       PROVE  FollowsInv'
  BY <1>11, QuietFollows DEF UpdateRead, Start, PlacementTypeInv
<1>12. ASSUME NEW h \in Handlers, UpdateCheck(h) PROVE FollowsInv'
  <2>1. /\ job'[h].step = "update"
        /\ \A g \in Handlers \ {h} : job'[g] = job[g]
    BY <1>12 DEF UpdateCheck, PlacementTypeInv
  <2>2. QED
    BY <1>12, <2>1, QuietFollows DEF UpdateCheck, PlacementTypeInv
<1>13. ASSUME NEW h \in Handlers, UpdateCommit(h) PROVE FollowsInv'
  <2>1. /\ job[h] \in UpdateJob /\ job[h].step = "update"
        /\ Stored(job[h].student) /\ job[h].step \in ProfileSteps
    BY <1>13, PlacementWork DEF UpdateCommit, PlacementTypeInv, ProfileSteps
  <2>2. PICK s \in Students : s = job[h].student
    BY <2>1 DEF UpdateJob
  <2>3. student[s] \in Row /\ job[h].seen \in Row /\ job[h].entity \in Row
    BY <2>1, <2>2, StoredRows DEF UpdateJob
  <2> DEFINE row == Save(student[s], job[h].seen, job[h].entity)
             rows == open[s]
  <2>4. student' = [student EXCEPT ![s] = row] /\ open' = [open EXCEPT ![s] = rows]
    BY <1>13, <2>2 DEF UpdateCommit, PlacementTypeInv
  <2>5. row \in Row
    BY <2>3, SavedRows
  <2>6. MarkLate(h, s, Idle) /\ torn' = IF job[h].late THEN torn \cup {s} ELSE torn
    BY <1>13, <2>2 DEF UpdateCommit
  <2>7. ASSUME s \notin torn'
        PROVE  /\ \A d \in Classes : rows[d] = IF row.class = d THEN 1 ELSE 0
               /\ row.status = "INACTIVE" => row.class = None
               /\ row.class # None => GradeOf[row.class] = row.grade
    <3>1. ~job[h].late /\ s \notin torn
      BY <2>6, <2>7
    <3>2. Fresh(job[h], student[s], open[s])
      BY <2>1, <2>2, <3>1 DEF FreshInv
    <3>3. PICK g \in Grades : g = job[h].entity.grade
      BY <2>3 DEF Row
    <3>4. /\ row = [student[s] EXCEPT !.grade = g]
          /\ student[s].class # None => g = student[s].grade
      BY <2>1, <2>2, <2>3, <3>2, <3>3, SavedRows DEF Fresh
    <3>5. row.class = student[s].class /\ row.status = student[s].status /\ row.grade = g
      BY <2>3, <3>4 DEF Row
    <3>6. /\ \A d \in Classes : open[s][d] = IF student[s].class = d THEN 1 ELSE 0
          /\ student[s].status = "INACTIVE" => student[s].class = None
          /\ student[s].class # None => GradeOf[student[s].class] = student[s].grade
      BY <2>1, <2>2, <3>1 DEF FollowsInv, HistoryFollowsClass
    <3>7. QED
      BY <3>4, <3>5, <3>6
  <2>8. torn \subseteq torn'
    BY <2>6
  <2>9. Stored(s)
    BY <2>1, <2>2
  <2> HIDE DEF row, rows
  <2>10. QED
    BY <2>4, <2>5, <2>6, <2>7, <2>8, <2>9, SavesFollow
<1>14. ASSUME NEW h \in Handlers, NEW l \in Leads, NEW c \in Classes \cup {None},
              NEW g \in Grades, ConvertCheck(h, l, c, g)
       PROVE  FollowsInv'
  <2>1. c # None => GradeOf[c] = g
    BY <1>14 DEF ConvertCheck, Accepts
  <2>2. QED
    BY <1>14, <2>1, QuietFollows DEF ConvertCheck, Start, PlacementTypeInv
<1>15. ASSUME NEW h \in Handlers, NEW s \in Students, ConvertCommit(h, s) PROVE FollowsInv'
  <2>1. /\ job[h].class \in Placing /\ job[h].grade \in Grades
        /\ job[h].class # None => GradeOf[job[h].class] = job[h].grade
    BY <1>15, PlacementWork DEF ConvertCommit, PlacementTypeInv, ConvertJob, FollowsInv
  <2>2. QED
    BY <1>15, <2>1, BirthsFollow DEF ConvertCommit
<1>16. ASSUME NEW h \in Handlers, NEW l \in Leads, StageRead(h, l) PROVE FollowsInv'
  BY <1>16, QuietFollows DEF StageRead, Start, PlacementTypeInv
<1>17. ASSUME NEW h \in Handlers, StageCheck(h) PROVE FollowsInv'
  <2>1. /\ job'[h].step = "stage"
        /\ \A g \in Handlers \ {h} : job'[g] = job[g]
    BY <1>17 DEF StageCheck, PlacementTypeInv
  <2>2. QED
    BY <1>17, <2>1, QuietFollows DEF StageCheck, PlacementTypeInv
<1>18. ASSUME NEW h \in Handlers, StageCommit(h) PROVE FollowsInv'
  BY <1>0, <1>18, QuietFollows DEF StageCommit, PlacementTypeInv
<1>19. ASSUME NEW l \in Leads, DeleteLead(l) PROVE FollowsInv'
  BY <1>19, QuietFollows DEF DeleteLead
<1>20. ASSUME NEW c \in Classes, NEW n \in Capacities, NEW b \in BOOLEAN, ReviseClass(c, n, b)
       PROVE  FollowsInv'
  BY <1>20, QuietFollows DEF ReviseClass
<1>21. ASSUME NEW h \in Handlers, Placement(h) PROVE FollowsInv'
  BY <1>2, <1>3, <1>4, <1>5, <1>6, <1>7, <1>8, <1>9, <1>10, <1>11, <1>12, <1>13, <1>21
     DEF Placement
<1>22. ASSUME NEW h \in Handlers, Pipeline(h) PROVE FollowsInv'
  BY <1>14, <1>15, <1>16, <1>17, <1>18, <1>22 DEF Pipeline
<1>23. QED
  BY <1>1, <1>19, <1>20, <1>21, <1>22 DEF Next
-----------------------------------------------------------------------------
(* Placement: the seats of a class.                                        *)

Count(c) == ActiveIn(c) \ torn
Beside(h) == IF job[h].step = "assign" THEN {job[h].student} ELSE {}

\* A class is held by one request, which found a seat beside its own student.
SeatInv ==
    /\ \A g, h \in Handlers : Holding(g) # None /\ Holding(g) = Holding(h) => g = h
    /\ \A c \in Classes \ overridden : Cardinality(Count(c)) <= class[c].capacity
    /\ \A h \in Handlers : \A c \in Classes \ overridden :
         Holding(h) = c => Cardinality(Count(c) \ Beside(h)) < class[c].capacity

\* Students are counted with natural numbers, and fewer of them by no more.
LEMMA Fewer ==
    ASSUME NEW T \in SUBSET Students, NEW S \in SUBSET T
    PROVE  Cardinality(S) \in Nat /\ Cardinality(T) \in Nat /\ Cardinality(S) <= Cardinality(T)
<1>1. IsFiniteSet(T)
  BY StudentsAreFinite, FS_Subset
<1>2. IsFiniteSet(S) /\ Cardinality(S) <= Cardinality(T)
  BY <1>1, FS_Subset
<1>3. QED
  BY <1>1, <1>2, FS_CardinalityType

LEMMA OneMore ==
    ASSUME NEW T \in SUBSET Students, NEW s \in Students, NEW S \in SUBSET (T \cup {s})
    PROVE  Cardinality(S) <= Cardinality(T) + 1
<1>1. IsFiniteSet(T)
  BY StudentsAreFinite, FS_Subset
<1>2. Cardinality(T \cup {s}) <= Cardinality(T) + 1 /\ Cardinality(T) \in Nat
  <2>1. Cardinality(T) \in Nat
    BY <1>1, FS_CardinalityType
  <2>2. \/ Cardinality(T \cup {s}) = Cardinality(T)
        \/ Cardinality(T \cup {s}) = Cardinality(T) + 1
    BY <1>1, FS_AddElement
  <2>3. QED
    BY <2>1, <2>2
<1>3. T \cup {s} \in SUBSET Students
  OBVIOUS
<1>4. Cardinality(S) <= Cardinality(T \cup {s}) /\ Cardinality(S) \in Nat
      /\ Cardinality(T \cup {s}) \in Nat
  BY <1>3, Fewer
<1>5. QED
  BY <1>2, <1>4

LEMMA CapacitiesAreNumbers == PlacementTypeInv => \A c \in Classes : class[c].capacity \in Nat
BY GradesOfClasses DEF PlacementTypeInv

LEMMA Counted == \A c : Count(c) \in SUBSET Students /\ Count(c) \subseteq ActiveIn(c)
BY DEF Count, ActiveIn

\* Of a step that changes no row and lets no request hold a class.
LEMMA QuietSeats ==
    ASSUME SeatInv, UNCHANGED <<student, torn, class, overridden>>,
           \A g \in Handlers : job'[g] = job[g] \/ Holding(g)' = None
    PROVE  SeatInv'
<1>1. \A c : Count(c)' = Count(c)
  BY DEF Count, ActiveIn
<1>2. \A g \in Handlers : Holding(g)' # None => job'[g] = job[g] /\ Holding(g)' = Holding(g)
                                                  /\ Beside(g)' = Beside(g)
  BY DEF Holding, Beside
<1>3. \A g, h \in Handlers : Holding(g)' # None /\ Holding(g)' = Holding(h)' => g = h
  BY <1>2 DEF SeatInv
<1>4. \A c \in Classes \ overridden : Cardinality(Count(c)') <= class[c].capacity
  BY <1>1 DEF SeatInv
<1>5. ASSUME NEW g \in Handlers, NEW c \in Classes \ overridden, Holding(g)' = c
      PROVE  Cardinality(Count(c)' \ Beside(g)') < class[c].capacity
  BY <1>1, <1>2, <1>5, NoneIsNone DEF SeatInv
<1>6. QED
  BY <1>3, <1>4, <1>5 DEF SeatInv

\* Of a step by which a request comes to hold a class, in which it found a seat.
LEMMA SeatTaken ==
    ASSUME PlacementTypeInv, SeatInv, UNCHANGED <<student, torn, class, overridden>>,
           NEW h \in Handlers, \A g \in Handlers \ {h} : job'[g] = job[g],
           NEW c \in Classes, NEW grade \in Grades, NEW s \in Students \cup {None},
           Accepts(c, grade, s), Holding(h)' = c,
           Beside(h)' = IF s = None THEN {} ELSE {s}
    PROVE  SeatInv'
<1>1. \A d : Count(d)' = Count(d)
  BY DEF Count, ActiveIn
<1>2. \A g \in Handlers \ {h} : Holding(g)' = Holding(g) /\ Beside(g)' = Beside(g)
  BY DEF Holding, Beside
<1>3. \A g \in Handlers : Holding(g) # c
  BY NoneIsNone DEF Accepts, Locked
<1>4. ASSUME NEW f \in Handlers, NEW g \in Handlers, Holding(f)' # None, Holding(f)' = Holding(g)'
      PROVE  f = g
  BY <1>2, <1>3, <1>4 DEF SeatInv
<1>5. \A d \in Classes \ overridden : Cardinality(Count(d)') <= class[d].capacity
  BY <1>1 DEF SeatInv
<1>6. ASSUME NEW g \in Handlers, NEW d \in Classes \ overridden, Holding(g)' = d
      PROVE  Cardinality(Count(d)' \ Beside(g)') < class[d].capacity
  <2>1. CASE g # h
    BY <1>1, <1>2, <1>6, <2>1 DEF SeatInv
  <2>2. CASE g = h
    <3>1. d = c
      BY <1>6, <2>2
    <3>2. Count(c) \ Beside(h)' \subseteq ActiveIn(c) \ {s}
      BY NoneIsNone DEF Count, ActiveIn
    <3>3. ActiveIn(c) \ {s} \in SUBSET Students
      BY DEF ActiveIn
    <3>4. /\ Cardinality(Count(c) \ Beside(h)') <= Cardinality(ActiveIn(c) \ {s})
          /\ Cardinality(Count(c) \ Beside(h)') \in Nat /\ Cardinality(ActiveIn(c) \ {s}) \in Nat
      BY <3>2, <3>3, Fewer
    <3>5. Cardinality(ActiveIn(c) \ {s}) < class[c].capacity /\ class[c].capacity \in Nat
      BY CapacitiesAreNumbers DEF Accepts
    <3>6. Cardinality(Count(c) \ Beside(h)') < class[c].capacity
      BY <3>4, <3>5
    <3>7. QED
      BY <1>1, <2>2, <3>1, <3>6
  <2>3. QED
    BY <2>1, <2>2
<1>7. QED
  BY <1>4, <1>5, <1>6 DEF SeatInv

\* Of a step by which a request is done: it takes at most its own seat.
LEMMA SeatsFall ==
    ASSUME PlacementTypeInv, SeatInv, UNCHANGED <<class, overridden>>,
           NEW h \in Handlers, Holding(h)' = None,
           \A g \in Handlers \ {h} : Holding(g)' = Holding(g) /\ Beside(g)' = Beside(g),
           \A d \in Classes :
             \/ Count(d)' \subseteq Count(d)
             \/ d = Holding(h) /\ (d \in overridden \/ Cardinality(Count(d)') <= class[d].capacity)
    PROVE  SeatInv'
<1>1. ASSUME NEW f \in Handlers, NEW g \in Handlers, Holding(f)' # None, Holding(f)' = Holding(g)'
      PROVE  f = g
  BY <1>1 DEF SeatInv
<1>2. ASSUME NEW d \in Classes \ overridden
      PROVE  Cardinality(Count(d)') <= class[d].capacity
  <2>1. CASE Count(d)' \subseteq Count(d)
    <3>1. /\ Cardinality(Count(d)') <= Cardinality(Count(d))
          /\ Cardinality(Count(d)') \in Nat /\ Cardinality(Count(d)) \in Nat
      BY <2>1, Counted, Fewer
    <3>2. Cardinality(Count(d)) <= class[d].capacity /\ class[d].capacity \in Nat
      BY CapacitiesAreNumbers DEF SeatInv
    <3>3. QED
      BY <3>1, <3>2
  <2>2. QED
    BY <2>1
<1>3. ASSUME NEW g \in Handlers, NEW d \in Classes \ overridden, Holding(g)' = d
      PROVE  Cardinality(Count(d)' \ Beside(g)') < class[d].capacity
  <2>1. g # h /\ Holding(g) = d /\ Beside(g)' = Beside(g)
    BY <1>3, NoneIsNone
  <2>2. d # Holding(h)
    BY <2>1, NoneIsNone DEF SeatInv
  <2>3. Count(d)' \ Beside(g)' \subseteq Count(d) \ Beside(g)
    BY <2>1, <2>2
  <2>4. Count(d) \ Beside(g) \in SUBSET Students
    BY Counted
  <2>5. /\ Cardinality(Count(d)' \ Beside(g)') <= Cardinality(Count(d) \ Beside(g))
        /\ Cardinality(Count(d)' \ Beside(g)') \in Nat
        /\ Cardinality(Count(d) \ Beside(g)) \in Nat
    BY <2>3, <2>4, Fewer
  <2>6. Cardinality(Count(d) \ Beside(g)) < class[d].capacity /\ class[d].capacity \in Nat
    BY <2>1, CapacitiesAreNumbers DEF SeatInv
  <2>7. QED
    BY <2>5, <2>6
<1>4. QED
  BY <1>1, <1>2, <1>3 DEF SeatInv

\* The row of s is written: nobody else is counted who was not.
LEMMA CountsAfterWrite ==
    ASSUME PlacementTypeInv, NEW s \in Students, NEW row, student' = [student EXCEPT ![s] = row],
           torn \subseteq torn', NEW d \in Classes
    PROVE  /\ Count(d)' \subseteq Count(d) \cup {s}
           /\ s \in Count(d)' => s \notin torn' /\ row.status = "ACTIVE" /\ row.class = d
BY DEF PlacementTypeInv, Count, ActiveIn

LEMMA BirthsSeated ==
    ASSUME PlacementTypeInv, SeatInv, NEW h \in Handlers, NEW s \in Students, NEW c \in Placing,
           NEW grade, student[s] = Unborn, Born(s, c, grade),
           c # None => c = Holding(h) /\ Beside(h) = {},
           job' = [job EXCEPT ![h] = Idle], UNCHANGED <<class, torn, overridden>>
    PROVE  SeatInv'
<1> DEFINE row == [status |-> "ACTIVE", class |-> c, grade |-> grade]
<1>1. student' = [student EXCEPT ![s] = row]
  BY DEF Born
<1>2. ASSUME NEW d \in Classes
      PROVE  \/ Count(d)' \subseteq Count(d)
             \/ d = Holding(h) /\ (d \in overridden \/ Cardinality(Count(d)') <= class[d].capacity)
  <2>1. /\ Count(d)' \subseteq Count(d) \cup {s}
        /\ s \in Count(d)' => c = d
    <3>1. \A u \in Students : student'[u] = IF u = s THEN row ELSE student[u]
      BY <1>1 DEF PlacementTypeInv
    <3>2. row.class = c
      OBVIOUS
    <3> HIDE DEF row
    <3>3. QED
      BY <3>1, <3>2 DEF Count, ActiveIn
  <2>2. CASE c # d
    BY <2>1, <2>2
  <2>3. CASE c = d /\ d \notin overridden
    <3>1. d = Holding(h) /\ Beside(h) = {}
      BY <2>3, NoneIsNone
    <3>2. Cardinality(Count(d)) < class[d].capacity
      BY <2>3, <3>1 DEF SeatInv
    <3>3. Count(d) \in SUBSET Students /\ Cardinality(Count(d)) \in Nat
      BY Counted, Fewer
    <3>4. Cardinality(Count(d)') <= Cardinality(Count(d)) + 1
      BY <2>1, <3>3, OneMore
    <3>5. Count(d)' \in SUBSET Students
      BY <2>1, <3>3
    <3>6. Cardinality(Count(d)') \in Nat /\ class[d].capacity \in Nat
      BY <3>5, Fewer, CapacitiesAreNumbers
    <3>7. QED
      BY <3>1, <3>2, <3>3, <3>4, <3>6
  <2>4. CASE c = d /\ d \in overridden
    BY <2>4, NoneIsNone
  <2>5. QED
    BY <2>2, <2>3, <2>4
<1>3. Holding(h)' = None
  BY DEF PlacementTypeInv, Holding, Idle
<1>4. \A g \in Handlers \ {h} : Holding(g)' = Holding(g) /\ Beside(g)' = Beside(g)
  BY DEF PlacementTypeInv, Holding, Beside
<1>5. QED
  BY <1>2, <1>3, <1>4, SeatsFall

\* The requests that are made late hold what they held.
LEMMA MarkedHolds ==
    ASSUME PlacementTypeInv, NEW h \in Handlers, NEW s, MarkLate(h, s, Idle)
    PROVE  /\ Holding(h)' = None
           /\ \A g \in Handlers \ {h} : Holding(g)' = Holding(g) /\ Beside(g)' = Beside(g)
<1>1. Idle \in Job
  BY DEF Job, OtherJob
<1>2. job'[h] = Idle
  BY <1>1, MarkedJobs DEF PlacementTypeInv
<1>3. ASSUME NEW g \in Handlers \ {h}
      PROVE  Holding(g)' = Holding(g) /\ Beside(g)' = Beside(g)
  <2>1. \/ job'[g] = job[g]
        \/ /\ job[g].step \in ProfileSteps /\ job'[g].step = job[g].step
           /\ job'[g].student = job[g].student
           /\ job[g].step = "assign" => job'[g].class = job[g].class
    BY <1>1, MarkedJobs DEF PlacementTypeInv
  <2>2. QED
    BY <2>1 DEF Holding, Beside, ProfileSteps
<1>4. QED
  BY <1>2, <1>3 DEF Holding, Idle

\* A save by which only its own student may come to be counted, in the class the
\* request holds.
LEMMA SavesSeated ==
    ASSUME PlacementTypeInv, SeatInv, NEW h \in Handlers, NEW s \in Students, NEW row,
           student' = [student EXCEPT ![s] = row], MarkLate(h, s, Idle),
           torn \subseteq torn', UNCHANGED <<class, overridden>>,
           s \notin torn' /\ row.status = "ACTIVE" =>
             \/ row.status = student[s].status /\ row.class = student[s].class
             \/ row.class = Holding(h) /\ Beside(h) = {s}
    PROVE  SeatInv'
<1>1. ASSUME NEW d \in Classes
      PROVE  \/ Count(d)' \subseteq Count(d)
             \/ d = Holding(h) /\ (d \in overridden \/ Cardinality(Count(d)') <= class[d].capacity)
  <2>1. /\ Count(d)' \subseteq Count(d) \cup {s}
        /\ s \in Count(d)' => s \notin torn' /\ row.status = "ACTIVE" /\ row.class = d
    BY CountsAfterWrite
  <2>2. CASE s \notin Count(d)' \/ s \in Count(d)
    BY <2>1, <2>2
  <2>3. CASE s \in Count(d)' /\ s \notin Count(d)
    <3>1. s \notin torn' /\ row.status = "ACTIVE" /\ row.class = d
      BY <2>1, <2>3
    <3>2. ~(row.status = student[s].status /\ row.class = student[s].class)
      BY <2>3, <3>1 DEF Count, ActiveIn
    <3>3. d = Holding(h) /\ Beside(h) = {s}
      BY <3>1, <3>2
    <3>4. CASE d \notin overridden
      <4>1. Cardinality(Count(d) \ {s}) < class[d].capacity
        BY <3>3, <3>4 DEF SeatInv
      <4>2. Count(d) \ {s} \in SUBSET Students /\ Count(d)' \in SUBSET ((Count(d) \ {s}) \cup {s})
        BY <2>1, Counted
      <4>3. Cardinality(Count(d)') <= Cardinality(Count(d) \ {s}) + 1
        BY <4>2, OneMore
      <4>4. Count(d)' \in SUBSET Students
        BY <2>1, Counted
      <4>5. /\ Cardinality(Count(d)') \in Nat /\ Cardinality(Count(d) \ {s}) \in Nat
            /\ class[d].capacity \in Nat
        BY <4>2, <4>4, Fewer, CapacitiesAreNumbers
      <4>6. QED
        BY <3>3, <4>1, <4>3, <4>5
    <3>5. QED
      BY <3>3, <3>4
  <2>4. QED
    BY <2>2, <2>3
<1>2. QED
  BY <1>1, MarkedHolds, SeatsFall

LEMMA SeatsKept == PlacementTypeInv /\ FreshInv /\ SeatInv /\ [Next]_vars => SeatInv'
<1> SUFFICES ASSUME PlacementTypeInv, FreshInv, SeatInv, [Next]_vars PROVE SeatInv'
  OBVIOUS
<1>1. CASE UNCHANGED vars
  BY <1>1, QuietSeats DEF vars
<1>2. ASSUME NEW h \in Handlers, NEW s \in Students, NEW g \in Grades, CreateUnplaced(h, s, g)
      PROVE  SeatInv'
  <2>1. job' = [job EXCEPT ![h] = Idle]
    BY <1>2 DEF CreateUnplaced, PlacementTypeInv
  <2>2. QED
    BY <1>2, <2>1, BirthsSeated DEF CreateUnplaced, Placing
<1>3. ASSUME NEW h \in Handlers, NEW c \in Classes, NEW g \in Grades, CreateCheck(h, c, g)
      PROVE  SeatInv'
  <2>1. /\ job'[h] = [step |-> "create", class |-> c, grade |-> g]
        /\ \A f \in Handlers \ {h} : job'[f] = job[f]
    BY <1>3 DEF CreateCheck, Start, PlacementTypeInv
  <2>2. Holding(h)' = c /\ Beside(h)' = {}
    BY <2>1 DEF Holding, Beside
  <2>3. Accepts(c, g, None) /\ UNCHANGED <<student, torn, class, overridden>>
    BY <1>3 DEF CreateCheck
  <2>4. QED
    BY <2>1, <2>2, <2>3, SeatTaken
<1>4. ASSUME NEW h \in Handlers, NEW s \in Students, CreateCommit(h, s) PROVE SeatInv'
  <2>1. job[h].class \in Placing /\ job[h].class = Holding(h) /\ Beside(h) = {}
    BY <1>4, PlacementWork DEF CreateCommit, PlacementTypeInv, CreateJob, Placing, Holding, Beside
  <2>2. QED
    BY <1>4, <2>1, BirthsSeated DEF CreateCommit
<1>5. ASSUME NEW h \in Handlers, NEW s \in Students, NEW c \in Classes, AssignRead(h, s, c)
      PROVE  SeatInv'
  BY <1>5, QuietSeats DEF AssignRead, Start, PlacementTypeInv, Holding
<1>6. ASSUME NEW h \in Handlers, AssignCheck(h) PROVE SeatInv'
  <2>1. PICK c \in Classes, s \in Students : c = job[h].class /\ s = job[h].student
    BY <1>6, PlacementWork DEF AssignCheck, PlacementTypeInv, ToAssignJob
  <2>2. /\ \A g \in Handlers \ {h} : job'[g] = job[g]
        /\ UNCHANGED <<student, torn, class, overridden>>
    BY <1>6 DEF AssignCheck, PlacementTypeInv
  <2>3. \/ job'[h] = Idle
        \/ /\ job'[h].step = "assign" /\ job'[h].class = c /\ job'[h].student = s
           /\ Accepts(c, job[h].entity.grade, s)
    BY <1>6, <2>1 DEF AssignCheck, PlacementTypeInv
  <2>4. CASE job'[h] = Idle
    BY <2>2, <2>4, QuietSeats DEF Holding, Idle
  <2>5. CASE /\ job'[h].step = "assign" /\ job'[h].class = c /\ job'[h].student = s
             /\ Accepts(c, job[h].entity.grade, s)
    <3>1. Holding(h)' = c /\ Beside(h)' = {s}
      BY <2>5 DEF Holding, Beside
    <3>2. PICK g \in Grades : g = job[h].entity.grade
      BY <1>6, PlacementWork DEF AssignCheck, PlacementTypeInv, ToAssignJob, Row
    <3>3. Accepts(c, g, s)
      BY <2>5, <3>2
    <3>4. /\ UNCHANGED <<student, torn, class, overridden>>
          /\ \A f \in Handlers \ {h} : job'[f] = job[f]
      BY <2>2
    <3>5. Beside(h)' = IF s = None THEN {} ELSE {s}
      BY <3>1, NoneIsNone
    <3>6. QED
      BY <3>1, <3>3, <3>4, <3>5, SeatTaken
  <2>6. QED
    BY <2>3, <2>4, <2>5
<1>7. ASSUME NEW h \in Handlers, AssignCommit(h) PROVE SeatInv'
  <2>1. /\ job[h] \in AssignJob /\ job[h].step = "assign"
        /\ Stored(job[h].student) /\ job[h].step \in ProfileSteps
    BY <1>7, PlacementWork DEF AssignCommit, PlacementTypeInv, ProfileSteps
  <2>2. PICK s \in Students, c \in Classes : s = job[h].student /\ c = job[h].class
    BY <2>1 DEF AssignJob
  <2>3. student[s] \in Row /\ job[h].seen \in Row /\ job[h].entity \in Row
    BY <2>1, <2>2, StoredRows DEF AssignJob
  <2> DEFINE row == Save(student[s], job[h].seen, job[h].entity)
  <2>4. student' = [student EXCEPT ![s] = row]
    BY <1>7, <2>2 DEF AssignCommit
  <2>5. MarkLate(h, s, Idle) /\ torn' = IF job[h].late THEN torn \cup {s} ELSE torn
    BY <1>7, <2>2 DEF AssignCommit
  <2>6. ASSUME s \notin torn' PROVE row.class = Holding(h) /\ Beside(h) = {s}
    <3>1. Fresh(job[h], student[s], open[s])
      BY <2>1, <2>2, <2>5, <2>6 DEF FreshInv
    <3>2. row = [student[s] EXCEPT !.class = c]
      BY <2>1, <2>2, <2>3, <3>1, SavedRows DEF Fresh
    <3>3. row.class = c
      BY <2>3, <3>2 DEF Row
    <3>4. QED
      BY <2>1, <2>2, <3>3 DEF Holding, Beside
  <2>7. torn \subseteq torn' /\ UNCHANGED <<class, overridden>>
    BY <1>7, <2>5 DEF AssignCommit
  <2> HIDE DEF row
  <2>8. QED
    BY <2>4, <2>5, <2>6, <2>7, SavesSeated
<1>8. ASSUME NEW h \in Handlers, NEW s \in Students, ArchiveRead(h, s) PROVE SeatInv'
  BY <1>8, QuietSeats DEF ArchiveRead, Start, PlacementTypeInv, Holding
<1>9. ASSUME NEW h \in Handlers, ArchiveCheck(h) PROVE SeatInv'
  BY <1>9, QuietSeats DEF ArchiveCheck, PlacementTypeInv, Holding
<1>10. ASSUME NEW h \in Handlers, ArchiveCommit(h) PROVE SeatInv'
  <2>1. /\ job[h] \in ArchiveJob /\ job[h].step = "archive"
        /\ Stored(job[h].student) /\ job[h].step \in ProfileSteps
    BY <1>10, PlacementWork DEF ArchiveCommit, PlacementTypeInv, ProfileSteps
  <2>2. PICK s \in Students : s = job[h].student
    BY <2>1 DEF ArchiveJob
  <2>3. student[s] \in Row /\ job[h].seen \in Row /\ job[h].entity \in Row
    BY <2>1, <2>2, StoredRows DEF ArchiveJob
  <2> DEFINE row == Save(student[s], job[h].seen, job[h].entity)
  <2>4. student' = [student EXCEPT ![s] = row]
    BY <1>10, <2>2 DEF ArchiveCommit
  <2>5. MarkLate(h, s, Idle) /\ torn' = IF job[h].late THEN torn \cup {s} ELSE torn
    BY <1>10, <2>2 DEF ArchiveCommit
  <2>6. ASSUME s \notin torn' PROVE row.status # "ACTIVE"
    <3>1. Fresh(job[h], student[s], open[s])
      BY <2>1, <2>2, <2>5, <2>6 DEF FreshInv
    <3>2. row = [student[s] EXCEPT !.class = None, !.status = "INACTIVE"]
      BY <2>1, <2>2, <2>3, <3>1, SavedRows DEF Fresh
    <3>3. QED
      BY <2>3, <3>2 DEF Row
  <2>7. torn \subseteq torn' /\ UNCHANGED <<class, overridden>>
    BY <1>10, <2>5 DEF ArchiveCommit
  <2> HIDE DEF row
  <2>8. QED
    BY <2>4, <2>5, <2>6, <2>7, SavesSeated
<1>11. ASSUME NEW h \in Handlers, NEW s \in Students, NEW g \in Grades, UpdateRead(h, s, g)
       PROVE  SeatInv'
  BY <1>11, QuietSeats DEF UpdateRead, Start, PlacementTypeInv, Holding
<1>12. ASSUME NEW h \in Handlers, UpdateCheck(h) PROVE SeatInv'
  BY <1>12, QuietSeats DEF UpdateCheck, PlacementTypeInv, Holding
<1>13. ASSUME NEW h \in Handlers, UpdateCommit(h) PROVE SeatInv'
  <2>1. /\ job[h] \in UpdateJob /\ job[h].step = "update"
        /\ Stored(job[h].student) /\ job[h].step \in ProfileSteps
    BY <1>13, PlacementWork DEF UpdateCommit, PlacementTypeInv, ProfileSteps
  <2>2. PICK s \in Students : s = job[h].student
    BY <2>1 DEF UpdateJob
  <2>3. student[s] \in Row /\ job[h].seen \in Row /\ job[h].entity \in Row
    BY <2>1, <2>2, StoredRows DEF UpdateJob
  <2> DEFINE row == Save(student[s], job[h].seen, job[h].entity)
  <2>4. student' = [student EXCEPT ![s] = row]
    BY <1>13, <2>2 DEF UpdateCommit
  <2>5. MarkLate(h, s, Idle) /\ torn' = IF job[h].late THEN torn \cup {s} ELSE torn
    BY <1>13, <2>2 DEF UpdateCommit
  <2>6. ASSUME s \notin torn'
        PROVE  row.status = student[s].status /\ row.class = student[s].class
    <3>1. Fresh(job[h], student[s], open[s])
      BY <2>1, <2>2, <2>5, <2>6 DEF FreshInv
    <3>2. PICK g \in Grades : g = job[h].entity.grade
      BY <2>3 DEF Row
    <3>3. row = [student[s] EXCEPT !.grade = g]
      BY <2>1, <2>2, <2>3, <3>1, <3>2, SavedRows DEF Fresh
    <3>4. QED
      BY <2>3, <3>3 DEF Row
  <2>7. torn \subseteq torn' /\ UNCHANGED <<class, overridden>>
    BY <1>13, <2>5 DEF UpdateCommit
  <2> HIDE DEF row
  <2>8. QED
    BY <2>4, <2>5, <2>6, <2>7, SavesSeated
<1>14. ASSUME NEW h \in Handlers, NEW l \in Leads, NEW c \in Classes \cup {None},
              NEW g \in Grades, ConvertCheck(h, l, c, g)
       PROVE  SeatInv'
  <2>1. /\ job'[h] = [step |-> "convert", lead |-> l, class |-> c, grade |-> g]
        /\ \A f \in Handlers \ {h} : job'[f] = job[f]
        /\ UNCHANGED <<student, torn, class, overridden>>
    BY <1>14 DEF ConvertCheck, Start, PlacementTypeInv
  <2>2. Holding(h)' = c /\ Beside(h)' = {}
    BY <2>1 DEF Holding, Beside
  <2>3. CASE c = None
    BY <2>1, <2>2, <2>3, QuietSeats
  <2>4. CASE c # None
    <3>1. c \in Classes /\ Accepts(c, g, None)
      BY <1>14, <2>4 DEF ConvertCheck
    <3>2. QED
      BY <2>1, <2>2, <3>1, SeatTaken
  <2>5. QED
    BY <2>3, <2>4
<1>15. ASSUME NEW h \in Handlers, NEW s \in Students, ConvertCommit(h, s) PROVE SeatInv'
  <2>1. job[h].class \in Placing /\ job[h].class = Holding(h) /\ Beside(h) = {}
    BY <1>15, PlacementWork DEF ConvertCommit, PlacementTypeInv, ConvertJob, Placing, Holding, Beside
  <2>2. QED
    BY <1>15, <2>1, BirthsSeated DEF ConvertCommit
<1>16. ASSUME NEW h \in Handlers, NEW l \in Leads, StageRead(h, l) PROVE SeatInv'
  BY <1>16, QuietSeats DEF StageRead, Start, PlacementTypeInv, Holding
<1>17. ASSUME NEW h \in Handlers, StageCheck(h) PROVE SeatInv'
  BY <1>17, QuietSeats DEF StageCheck, PlacementTypeInv, Holding
<1>18. ASSUME NEW h \in Handlers, StageCommit(h) PROVE SeatInv'
  BY <1>18, QuietSeats DEF StageCommit, PlacementTypeInv, Holding, Idle
<1>19. ASSUME NEW l \in Leads, DeleteLead(l) PROVE SeatInv'
  BY <1>19, QuietSeats DEF DeleteLead
<1>20. ASSUME NEW c \in Classes, NEW n \in Capacities, NEW b \in BOOLEAN, ReviseClass(c, n, b)
       PROVE  SeatInv'
  <2>1. /\ \A d : Count(d)' = Count(d)
        /\ \A g \in Handlers : Holding(g)' = Holding(g) /\ Beside(g)' = Beside(g)
    BY <1>20 DEF ReviseClass, Count, ActiveIn, Holding, Beside
  <2>2. \A g \in Handlers : Holding(g) # c
    BY <1>20, NoneIsNone DEF ReviseClass, Locked
  <2>3. \A d \in Classes \ {c} : class'[d] = class[d] /\ (d \in overridden' <=> d \in overridden)
    BY <1>20 DEF ReviseClass, PlacementTypeInv
  <2>4. c \notin overridden' => Cardinality(Count(c)) <= class'[c].capacity
    <3>1. class'[c].capacity = n /\ n \in Nat
      BY <1>20, GradesOfClasses DEF ReviseClass, PlacementTypeInv
    <3>2. /\ Cardinality(Count(c)) <= Cardinality(ActiveIn(c))
          /\ Cardinality(Count(c)) \in Nat /\ Cardinality(ActiveIn(c)) \in Nat
      <4>1. ActiveIn(c) \in SUBSET Students
        BY DEF ActiveIn
      <4>2. QED
        BY <4>1, Counted, Fewer
    <3>3. c \notin overridden' => ~(n < Cardinality(ActiveIn(c)))
      BY <1>20 DEF ReviseClass
    <3>4. QED
      BY <3>1, <3>2, <3>3
  <2>5. \A f, g \in Handlers : Holding(f)' # None /\ Holding(f)' = Holding(g)' => f = g
    BY <2>1 DEF SeatInv
  <2>6. \A d \in Classes \ overridden' : Cardinality(Count(d)') <= class'[d].capacity
    BY <2>1, <2>3, <2>4 DEF SeatInv
  <2>7. \A g \in Handlers : \A d \in Classes \ overridden' :
          Holding(g)' = d => Cardinality(Count(d)' \ Beside(g)') < class'[d].capacity
    BY <2>1, <2>2, <2>3 DEF SeatInv
  <2>8. QED
    BY <2>5, <2>6, <2>7 DEF SeatInv
<1>21. ASSUME NEW h \in Handlers, Placement(h) PROVE SeatInv'
  BY <1>2, <1>3, <1>4, <1>5, <1>6, <1>7, <1>8, <1>9, <1>10, <1>11, <1>12, <1>13, <1>21
     DEF Placement
<1>22. ASSUME NEW h \in Handlers, Pipeline(h) PROVE SeatInv'
  BY <1>14, <1>15, <1>16, <1>17, <1>18, <1>22 DEF Pipeline
<1>23. QED
  BY <1>1, <1>19, <1>20, <1>21, <1>22 DEF Next
-----------------------------------------------------------------------------
(* Placement: the students made from a lead.                               *)

Made(l) == {s \in Students : madeFrom[s] = l}
Converts(h) == job[h].step = "convert"

\* A lead that may be converted has no more students than resets, and the
\* request that is converting it is the only one.
LeadInv ==
    /\ \A l \in Leads :
         /\ Cardinality(Made(l)) <= 1 + reset[l]
         /\ ~lead[l].deleted /\ lead[l].converted = None => Cardinality(Made(l)) <= reset[l]
    /\ \A h \in Handlers : Converts(h) =>
         ~lead[job[h].lead].deleted /\ lead[job[h].lead].converted = None
    /\ \A g, h \in Handlers :
         Converts(g) /\ Converts(h) /\ job[g].lead = job[h].lead => g = h

\* Of a step that neither changes a lead nor starts a conversion.
LEMMA QuietLeads ==
    ASSUME LeadInv, UNCHANGED <<lead, madeFrom, reset>>,
           \A g \in Handlers : job'[g] = job[g] \/ job'[g].step # "convert"
    PROVE  LeadInv'
BY DEF LeadInv, Made, Converts

\* A save of a student starts no conversion.
LEMMA MarkedConverts ==
    ASSUME PlacementTypeInv, NEW h \in Handlers, NEW s, MarkLate(h, s, Idle)
    PROVE  \A g \in Handlers : job'[g] = job[g] \/ job'[g].step # "convert"
<1>1. Idle \in Job /\ Idle.step = "idle"
  BY DEF Job, OtherJob, Idle
<1>2. job'[h] = Idle
  BY <1>1, MarkedJobs DEF PlacementTypeInv
<1>3. \A g \in Handlers \ {h} : job'[g] = job[g] \/ job'[g].step \in ProfileSteps
  BY <1>1, MarkedJobs DEF PlacementTypeInv
<1>4. QED
  BY <1>1, <1>2, <1>3 DEF ProfileSteps

LEMMA LeadsKept == PlacementTypeInv /\ LeadInv /\ [Next]_vars => LeadInv'
<1> SUFFICES ASSUME PlacementTypeInv, LeadInv, [Next]_vars PROVE LeadInv'
  OBVIOUS
<1>0. \A l : Made(l) \in SUBSET Students /\ Cardinality(Made(l)) \in Nat
  <2>1. \A l : Made(l) \in SUBSET Students
    BY DEF Made
  <2>2. QED
    BY <2>1, Fewer
<1>1. CASE UNCHANGED vars
  BY <1>1, QuietLeads DEF vars
<1>2. ASSUME NEW h \in Handlers, NEW l \in Leads, NEW c \in Classes \cup {None},
             NEW g \in Grades, ConvertCheck(h, l, c, g)
      PROVE  LeadInv'
  <2>1. /\ job'[h].step = "convert" /\ job'[h].lead = l
        /\ \A f \in Handlers \ {h} : job'[f] = job[f]
        /\ UNCHANGED <<lead, madeFrom, reset>>
    BY <1>2 DEF ConvertCheck, Start, PlacementTypeInv
  <2>2. /\ ~lead[l].deleted /\ lead[l].converted = None
        /\ \A f \in Handlers : Converts(f) => job[f].lead # l
    BY <1>2 DEF ConvertCheck, LeadLocked, Converts
  <2>3. QED
    BY <2>1, <2>2 DEF LeadInv, Made, Converts
<1>3. ASSUME NEW h \in Handlers, NEW s \in Students, ConvertCommit(h, s) PROVE LeadInv'
  <2>1. PICK l \in Leads : l = job[h].lead
    BY <1>3, PlacementWork DEF ConvertCommit, PlacementTypeInv, ConvertJob
  <2>2. /\ lead'[l].converted = s /\ s # None
        /\ \A k \in Leads \ {l} : lead'[k] = lead[k]
    BY <1>3, <2>1, NoneIsNone DEF ConvertCommit, PlacementTypeInv
  <2>3. /\ job'[h] = Idle /\ reset' = reset
        /\ \A f \in Handlers \ {h} : job'[f] = job[f]
    BY <1>3 DEF ConvertCommit, PlacementTypeInv
  <2>4. \A k \in Leads : Made(k)' \in SUBSET (Made(k) \cup {s})
                        /\ (k # l => Made(k)' \in SUBSET Made(k))
    BY <1>3, <2>1 DEF ConvertCommit, PlacementTypeInv, Made
  <2>5. Cardinality(Made(l)) <= reset[l] /\ reset[l] \in Nat
    BY <1>3, <2>1 DEF ConvertCommit, LeadInv, Converts, PlacementTypeInv
  <2>6. Cardinality(Made(l)') <= 1 + reset[l]
    <3>1. Cardinality(Made(l)') <= Cardinality(Made(l)) + 1
      BY <1>0, <2>4, OneMore
    <3>2. Made(l)' \in SUBSET Students
      BY <1>0, <2>4
    <3>3. Cardinality(Made(l)') \in Nat /\ Cardinality(Made(l)) \in Nat
      BY <1>0, <3>2, Fewer
    <3>4. QED
      BY <2>5, <3>1, <3>3
  <2>7. ASSUME NEW k \in Leads \ {l}
        PROVE  /\ Cardinality(Made(k)') <= 1 + reset[k]
               /\ ~lead[k].deleted /\ lead[k].converted = None => Cardinality(Made(k)') <= reset[k]
    <3>1. /\ Cardinality(Made(k)') <= Cardinality(Made(k))
          /\ Cardinality(Made(k)') \in Nat /\ Cardinality(Made(k)) \in Nat
      BY <1>0, <2>4, Fewer
    <3>2. /\ Cardinality(Made(k)) <= 1 + reset[k]
          /\ ~lead[k].deleted /\ lead[k].converted = None => Cardinality(Made(k)) <= reset[k]
          /\ reset[k] \in Nat
      BY DEF LeadInv, PlacementTypeInv
    <3>3. QED
      BY <3>1, <3>2
  <2>8. \A f \in Handlers : job'[f].step = "convert" =>
          f # h /\ job'[f] = job[f] /\ job[f].lead # l
    BY <1>3, <2>1, <2>3 DEF ConvertCommit, LeadInv, Converts, Idle
  <2>9. \A f \in Handlers : job[f].step = "convert" => job[f].lead \in Leads
    BY PlacementWork DEF PlacementTypeInv, ConvertJob
  <2>10. \A k \in Leads : /\ Cardinality(Made(k)') <= 1 + reset'[k]
                          /\ ~lead'[k].deleted /\ lead'[k].converted = None =>
                               Cardinality(Made(k)') <= reset'[k]
    BY <2>2, <2>3, <2>6, <2>7
  <2>11. \A f \in Handlers : job'[f].step = "convert" =>
           ~lead'[job'[f].lead].deleted /\ lead'[job'[f].lead].converted = None
    BY <2>2, <2>8, <2>9 DEF LeadInv, Converts
  <2>12. \A f, g \in Handlers :
           job'[f].step = "convert" /\ job'[g].step = "convert" /\ job'[f].lead = job'[g].lead => f = g
    BY <2>8 DEF LeadInv, Converts
  <2>13. QED
    BY <2>10, <2>11, <2>12 DEF LeadInv, Converts
<1>4. ASSUME NEW l \in Leads, NEW h \in Handlers, StageCommit(h), l = job[h].lead PROVE LeadInv'
  <2>1. PICK saved : /\ lead' = [lead EXCEPT ![l] = saved]
                     /\ reset' = IF saved.converted # lead[l].converted
                                    \/ (lead[l].deleted /\ ~saved.deleted)
                                   THEN [reset EXCEPT ![l] = @ + 1] ELSE reset
    BY <1>4 DEF StageCommit
  <2>2. /\ madeFrom' = madeFrom
        /\ \A f \in Handlers : job'[f] = job[f] \/ job'[f].step # "convert"
        /\ \A f \in Handlers : Converts(f) => job[f].lead # l
    BY <1>4 DEF StageCommit, LeadLocked, Converts, PlacementTypeInv, Idle
  <2>3. \A k : Made(k)' = Made(k)
    BY <2>2 DEF Made
  <2>4. lead'[l] = saved /\ \A k \in Leads \ {l} : lead'[k] = lead[k] /\ reset'[k] = reset[k]
    BY <2>1 DEF PlacementTypeInv
  <2>5. /\ Cardinality(Made(l)) <= 1 + reset'[l]
        /\ ~saved.deleted /\ saved.converted = None => Cardinality(Made(l)) <= reset'[l]
    <3>1. reset[l] \in Nat /\ Cardinality(Made(l)) \in Nat /\ Cardinality(Made(l)) <= 1 + reset[l]
      BY <1>0 DEF PlacementTypeInv, LeadInv
    <3>2. CASE reset' = [reset EXCEPT ![l] = @ + 1]
      <4>1. reset'[l] = reset[l] + 1
        BY <3>2 DEF PlacementTypeInv
      <4>2. QED
        BY <3>1, <4>1
    <3>3. CASE /\ reset' = reset /\ saved.converted = lead[l].converted
               /\ ~(lead[l].deleted /\ ~saved.deleted)
      <4>1. ~saved.deleted /\ saved.converted = None => Cardinality(Made(l)) <= reset[l]
        BY <3>3 DEF LeadInv
      <4>2. QED
        BY <3>1, <3>3, <4>1
    <3>4. QED
      BY <2>1, <3>2, <3>3
  <2>6. \A k \in Leads : /\ Cardinality(Made(k)') <= 1 + reset'[k]
                         /\ ~lead'[k].deleted /\ lead'[k].converted = None =>
                              Cardinality(Made(k)') <= reset'[k]
    BY <2>3, <2>4, <2>5 DEF LeadInv
  <2>7. \A f \in Handlers : job'[f].step = "convert" =>
          job'[f] = job[f] /\ job[f].lead \in Leads \ {l}
    BY <2>2, PlacementWork DEF Converts, PlacementTypeInv, ConvertJob
  <2>8. \A f \in Handlers : job'[f].step = "convert" =>
           ~lead'[job'[f].lead].deleted /\ lead'[job'[f].lead].converted = None
    BY <2>4, <2>7 DEF LeadInv, Converts
  <2>9. QED
    BY <2>6, <2>7, <2>8 DEF LeadInv, Converts
<1>5. ASSUME NEW l \in Leads, DeleteLead(l) PROVE LeadInv'
  <2>1. /\ UNCHANGED <<job, madeFrom, reset>>
        /\ lead'[l].deleted /\ \A k \in Leads \ {l} : lead'[k] = lead[k]
    BY <1>5 DEF DeleteLead, Deleted, PlacementTypeInv
  <2>2. \A f \in Handlers : job[f].step = "convert" => job[f].lead \in Leads \ {l}
    BY <1>5, PlacementWork DEF DeleteLead, LeadLocked, PlacementTypeInv, ConvertJob
  <2>3. QED
    BY <2>1, <2>2 DEF LeadInv, Made, Converts
<1>6. ASSUME NEW c \in Classes, NEW n \in Capacities, NEW b \in BOOLEAN, ReviseClass(c, n, b)
      PROVE  LeadInv'
  BY <1>6, QuietLeads DEF ReviseClass
<1>7. ASSUME NEW h \in Handlers, Placement(h) PROVE LeadInv'
  <2>1. UNCHANGED <<lead, madeFrom, reset>>
    BY <1>7 DEF Placement, CreateUnplaced, CreateCheck, CreateCommit, AssignRead, AssignCheck,
       AssignCommit, ArchiveRead, ArchiveCheck, ArchiveCommit, UpdateRead, UpdateCheck, UpdateCommit
  <2>2. \A g \in Handlers : job'[g] = job[g] \/ job'[g].step # "convert"
    <3>1. ASSUME NEW s \in Students, NEW g \in Grades,
                 CreateUnplaced(h, s, g) \/ UpdateRead(h, s, g)
          PROVE  \A f \in Handlers : job'[f] = job[f] \/ job'[f].step # "convert"
      BY <3>1 DEF CreateUnplaced, UpdateRead, Start, PlacementTypeInv
    <3>2. ASSUME NEW c \in Classes, NEW g \in Grades, CreateCheck(h, c, g)
          PROVE  \A f \in Handlers : job'[f] = job[f] \/ job'[f].step # "convert"
      BY <3>2 DEF CreateCheck, Start, PlacementTypeInv
    <3>3. ASSUME NEW s \in Students, CreateCommit(h, s) \/ ArchiveRead(h, s)
          PROVE  \A f \in Handlers : job'[f] = job[f] \/ job'[f].step # "convert"
      BY <3>3 DEF CreateCommit, ArchiveRead, Start, PlacementTypeInv, Idle
    <3>4. ASSUME NEW s \in Students, NEW c \in Classes, AssignRead(h, s, c)
          PROVE  \A f \in Handlers : job'[f] = job[f] \/ job'[f].step # "convert"
      BY <3>4 DEF AssignRead, Start, PlacementTypeInv
    <3>5. ASSUME AssignCheck(h)
          PROVE  \A f \in Handlers : job'[f] = job[f] \/ job'[f].step # "convert"
      BY <3>5 DEF AssignCheck, PlacementTypeInv, Idle
    <3>6. ASSUME ArchiveCheck(h) \/ UpdateCheck(h)
          PROVE  \A f \in Handlers : job'[f] = job[f] \/ job'[f].step # "convert"
      BY <3>6 DEF ArchiveCheck, UpdateCheck, PlacementTypeInv
    <3>7. ASSUME AssignCommit(h) \/ ArchiveCommit(h) \/ UpdateCommit(h)
          PROVE  \A f \in Handlers : job'[f] = job[f] \/ job'[f].step # "convert"
      <4>1. PICK s : MarkLate(h, s, Idle)
        BY <3>7 DEF AssignCommit, ArchiveCommit, UpdateCommit
      <4>2. QED
        BY <4>1, MarkedConverts
    <3>8. QED
      BY <1>7, <3>1, <3>2, <3>3, <3>4, <3>5, <3>6, <3>7 DEF Placement
  <2>3. QED
    BY <2>1, <2>2, QuietLeads
<1>8. ASSUME NEW h \in Handlers, NEW l \in Leads, StageRead(h, l) PROVE LeadInv'
  BY <1>8, QuietLeads DEF StageRead, Start, PlacementTypeInv
<1>9. ASSUME NEW h \in Handlers, StageCheck(h) PROVE LeadInv'
  BY <1>9, QuietLeads DEF StageCheck, PlacementTypeInv
<1>10. ASSUME NEW h \in Handlers, StageCommit(h) PROVE LeadInv'
  <2>1. job[h].lead \in Leads
    BY <1>10, PlacementWork DEF StageCommit, PlacementTypeInv, StageJob
  <2>2. QED
    BY <1>4, <1>10, <2>1
<1>11. ASSUME NEW h \in Handlers, Pipeline(h) PROVE LeadInv'
  BY <1>2, <1>3, <1>8, <1>9, <1>10, <1>11 DEF Pipeline
<1>12. QED
  BY <1>1, <1>5, <1>6, <1>7, <1>11 DEF Next

-----------------------------------------------------------------------------
(* Placement: the history rows a request is closing.                       *)

Closes(h) == job[h].step \in {"assign", "archive"} /\ job[h].closes # None

\* The rows one request counted stay open until it commits: it locks them.
ClosersInv ==
    /\ \A s \in Students, c \in Classes : open[s][c] \in 0..MaxOpen
    /\ \A h \in Handlers : Closes(h) => job[h].rows \in 0..open[job[h].student][job[h].closes]
    /\ \A g, h \in Handlers :
         Closes(g) /\ Closes(h) /\ job[g].student = job[h].student
           /\ job[g].closes = job[h].closes => g = h
    /\ \A h \in Handlers : Closes(h) /\ job[h].step = "assign" => job[h].closes # job[h].class

\* Of a step that leaves the history alone and closes nothing.
LEMMA QuietClosers ==
    ASSUME ClosersInv, open' = open,
           \A g \in Handlers : job'[g] = job[g] \/ job'[g].step \notin {"assign", "archive"}
    PROVE  ClosersInv'
BY DEF ClosersInv, Closes

\* Of a step by which a request comes to close what nobody else is closing.
LEMMA CloserJoins ==
    ASSUME PlacementTypeInv, ClosersInv, open' = open, NEW h \in Handlers,
           \A g \in Handlers \ {h} : job'[g] = job[g],
           NEW s \in Students, NEW c \in Placing, job'[h].student = s, job'[h].closes = c,
           c # None => job'[h].rows = open[s][c] /\ ~Closing(s, c),
           c # None /\ job'[h].step = "assign" => c # job'[h].class
    PROVE  ClosersInv'
<1>1. \A t \in Students, d \in Classes : open'[t][d] \in 0..MaxOpen
  BY DEF ClosersInv
<1>2. ASSUME NEW g \in Handlers, Closes(g)'
      PROVE  job'[g].rows \in 0..open'[job'[g].student][job'[g].closes]
  <2>1. CASE g = h
    <3>1. c \in Classes /\ job'[h].rows = open[s][c]
      BY <1>2, <2>1 DEF Closes, Placing
    <3>2. open[s][c] \in 0..MaxOpen
      BY <3>1 DEF ClosersInv
    <3>3. QED
      BY <2>1, <3>1, <3>2
  <2>2. CASE g # h
    BY <1>2, <2>2 DEF ClosersInv, Closes
  <2>3. QED
    BY <2>1, <2>2
<1>3. ASSUME NEW f \in Handlers, NEW g \in Handlers, Closes(f)', Closes(g)',
             job'[f].student = job'[g].student, job'[f].closes = job'[g].closes
      PROVE  f = g
  <2>1. \A k \in Handlers \ {h} : Closes(k)' => Closes(k) /\ job'[k] = job[k]
    BY DEF Closes
  <2>2. \A k \in Handlers \ {h} : Closes(h)' /\ Closes(k)' =>
          ~(job'[k].student = s /\ job'[k].closes = c)
    BY <2>1 DEF Closes, Closing
  <2>3. CASE f # h /\ g # h
    BY <1>3, <2>1, <2>3 DEF ClosersInv
  <2>4. CASE f = h /\ g # h
    BY <1>3, <2>2, <2>4
  <2>5. CASE f # h /\ g = h
    BY <1>3, <2>2, <2>5
  <2>6. QED
    BY <2>3, <2>4, <2>5
<1>4. ASSUME NEW g \in Handlers, Closes(g)', job'[g].step = "assign"
      PROVE  job'[g].closes # job'[g].class
  BY <1>4 DEF ClosersInv, Closes
<1>5. QED
  BY <1>1, <1>2, <1>3, <1>4 DEF ClosersInv

\* Of a commit: it takes rows only from what it was closing.
LEMMA CloserLeaves ==
    ASSUME PlacementTypeInv, ClosersInv, NEW h \in Handlers, NEW s \in Students, NEW rows,
           NEW n \in Placing, n # None => Closes(h) /\ job[h].closes = n,
           job[h].student = s, MarkLate(h, s, Idle), open' = [open EXCEPT ![s] = rows],
           \A d \in Classes : rows[d] \in 0..MaxOpen,
           \A d \in Classes \ {n} : rows[d] >= open[s][d]
    PROVE  ClosersInv'
<1>1. \A t \in Students : open'[t] = IF t = s THEN rows ELSE open[t]
  BY DEF PlacementTypeInv
<1>2. Idle \in Job /\ Idle.step = "idle"
  BY DEF Job, OtherJob, Idle
<1>3. ASSUME NEW g \in Handlers, Closes(g)'
      PROVE  /\ g # h /\ Closes(g) /\ job[g].step = job'[g].step
             /\ job[g].student \in Students /\ job[g].closes \in Classes
             /\ job'[g].student = job[g].student /\ job'[g].closes = job[g].closes
             /\ job'[g].rows = job[g].rows
             /\ job[g].step = "assign" => job'[g].class = job[g].class
  <2>1. job'[h] = Idle
    BY <1>2, MarkedJobs DEF PlacementTypeInv
  <2>2. g \in Handlers \ {h}
    BY <1>2, <1>3, <2>1 DEF Closes
  <2>3. \/ job'[g] = job[g]
        \/ /\ job[g].step \in ProfileSteps /\ job'[g].step = job[g].step
           /\ job'[g].student = job[g].student
           /\ job[g].step = "assign" => job'[g].class = job[g].class
           /\ job[g].step \in {"assign", "archive"} =>
                job'[g].closes = job[g].closes /\ job'[g].rows = job[g].rows
    BY <1>2, <2>2, MarkedJobs DEF PlacementTypeInv
  <2>4. /\ Closes(g) /\ job[g].step = job'[g].step
        /\ job'[g].student = job[g].student /\ job'[g].closes = job[g].closes
        /\ job'[g].rows = job[g].rows
        /\ job[g].step = "assign" => job'[g].class = job[g].class
    BY <1>3, <2>3 DEF Closes
  <2>5. job[g].student \in Students /\ job[g].closes \in Classes
    BY <2>4, PlacementWork DEF PlacementTypeInv, Closes, AssignJob, ArchiveJob, Placing
  <2>6. QED
    BY <2>2, <2>4, <2>5
<1>4. \A t \in Students, d \in Classes : open'[t][d] \in 0..MaxOpen
  BY <1>1 DEF ClosersInv
<1>5. ASSUME NEW g \in Handlers, Closes(g)'
      PROVE  job'[g].rows \in 0..open'[job'[g].student][job'[g].closes]
  <2>1. PICK t \in Students, d \in Classes : t = job[g].student /\ d = job[g].closes
    BY <1>3, <1>5
  <2>2. job[g].rows \in 0..open[t][d] /\ open[t][d] \in 0..MaxOpen
    BY <1>3, <1>5, <2>1 DEF ClosersInv
  <2>3. CASE t = s
    <3>1. d # n
      BY <1>3, <1>5, <2>1, <2>3, NoneIsNone DEF ClosersInv
    <3>2. rows[d] >= open[s][d] /\ rows[d] \in 0..MaxOpen
      BY <3>1
    <3>3. job[g].rows \in 0..rows[d]
      BY <2>2, <2>3, <3>2
    <3>4. QED
      BY <1>1, <1>3, <1>5, <2>1, <2>3, <3>3
  <2>4. CASE t # s
    BY <1>1, <1>3, <1>5, <2>1, <2>2, <2>4
  <2>5. QED
    BY <2>3, <2>4
<1>6. ASSUME NEW f \in Handlers, NEW g \in Handlers, Closes(f)', Closes(g)',
             job'[f].student = job'[g].student, job'[f].closes = job'[g].closes
      PROVE  f = g
  <2>1. /\ Closes(f) /\ Closes(g)
        /\ job[f].student = job[g].student /\ job[f].closes = job[g].closes
    BY <1>3, <1>6
  <2>2. QED
    BY <2>1 DEF ClosersInv
<1>7. ASSUME NEW g \in Handlers, Closes(g)', job'[g].step = "assign"
      PROVE  job'[g].closes # job'[g].class
  BY <1>3, <1>7 DEF ClosersInv
<1>8. QED
  BY <1>4, <1>5, <1>6, <1>7 DEF ClosersInv

LEMMA BirthsCloseNothing ==
    ASSUME PlacementTypeInv, FollowsInv, ClosersInv, NEW h \in Handlers, NEW s \in Students,
           NEW c \in Placing, NEW grade, student[s] = Unborn, Born(s, c, grade),
           job' = [job EXCEPT ![h] = Idle]
    PROVE  ClosersInv'
<1>1. \A t \in Students \ {s} : open'[t] = open[t]
  BY DEF Born, PlacementTypeInv
<1>2. \A d \in Classes : open'[s][d] \in 0..MaxOpen
  <2>1. \A d \in Classes : open[s][d] = 0
    BY DEF FollowsInv, Stored
  <2>2. CASE c = None
    BY <2>1, <2>2, OpenRowsAreCounted DEF Born
  <2>3. CASE c # None
    <3>1. open' = [open EXCEPT ![s][c] = @ + 1] /\ c \in Classes
      BY <2>3 DEF Born, Placing
    <3>2. \A d \in Classes : open'[s][d] = IF d = c THEN 1 ELSE 0
      BY <2>1, <3>1 DEF PlacementTypeInv
    <3>3. QED
      BY <3>2, OpenRowsAreCounted
  <2>4. QED
    BY <2>2, <2>3
<1>3. ASSUME NEW g \in Handlers, Closes(g)'
      PROVE  Closes(g) /\ job'[g] = job[g] /\ job[g].student \in Students \ {s}
  <2>1. g # h
    BY <1>3 DEF Closes, PlacementTypeInv, Idle
  <2>2. job'[g] = job[g] /\ Closes(g)
    BY <1>3, <2>1 DEF Closes, PlacementTypeInv
  <2>3. job[g].step \in ProfileSteps
    BY <2>2 DEF Closes, ProfileSteps
  <2>4. job[g].student \in Students /\ Stored(job[g].student)
    BY <2>3, PlacementWork DEF PlacementTypeInv
  <2>5. QED
    BY <2>2, <2>4 DEF Stored
<1>4. \A t \in Students, d \in Classes : open'[t][d] \in 0..MaxOpen
  BY <1>1, <1>2 DEF ClosersInv
<1>5. \A g \in Handlers : Closes(g)' =>
         job'[g].rows \in 0..open'[job'[g].student][job'[g].closes]
  BY <1>1, <1>3 DEF ClosersInv
<1>6. \A f, g \in Handlers :
         Closes(f)' /\ Closes(g)' /\ job'[f].student = job'[g].student
           /\ job'[f].closes = job'[g].closes => f = g
  BY <1>3 DEF ClosersInv
<1>7. \A g \in Handlers : Closes(g)' /\ job'[g].step = "assign" => job'[g].closes # job'[g].class
  BY <1>3 DEF ClosersInv
<1>8. QED
  BY <1>4, <1>5, <1>6, <1>7 DEF ClosersInv

LEMMA ClosersKept == PlacementTypeInv /\ FollowsInv /\ ClosersInv /\ [Next]_vars => ClosersInv'
<1> SUFFICES ASSUME PlacementTypeInv, FollowsInv, ClosersInv, [Next]_vars PROVE ClosersInv'
  OBVIOUS
<1>1. CASE UNCHANGED vars
  BY <1>1, QuietClosers DEF vars
<1>2. ASSUME NEW h \in Handlers, NEW s \in Students, NEW g \in Grades, CreateUnplaced(h, s, g)
      PROVE  ClosersInv'
  <2>1. job' = [job EXCEPT ![h] = Idle]
    BY <1>2 DEF CreateUnplaced, PlacementTypeInv
  <2>2. QED
    BY <1>2, <2>1, BirthsCloseNothing DEF CreateUnplaced, Placing
<1>3. ASSUME NEW h \in Handlers, NEW c \in Classes, NEW g \in Grades, CreateCheck(h, c, g)
      PROVE  ClosersInv'
  BY <1>3, QuietClosers DEF CreateCheck, Start, PlacementTypeInv
<1>4. ASSUME NEW h \in Handlers, NEW s \in Students, CreateCommit(h, s) PROVE ClosersInv'
  <2>1. job[h].class \in Placing
    BY <1>4, PlacementWork DEF CreateCommit, PlacementTypeInv, CreateJob, Placing
  <2>2. QED
    BY <1>4, <2>1, BirthsCloseNothing DEF CreateCommit
<1>5. ASSUME NEW h \in Handlers, NEW s \in Students, NEW c \in Classes, AssignRead(h, s, c)
      PROVE  ClosersInv'
  BY <1>5, QuietClosers DEF AssignRead, Start, PlacementTypeInv
<1>6. ASSUME NEW h \in Handlers, AssignCheck(h) PROVE ClosersInv'
  <2>1. PICK c \in Classes, s \in Students : c = job[h].class /\ s = job[h].student
    BY <1>6, PlacementWork DEF AssignCheck, PlacementTypeInv, ToAssignJob
  <2>2. PICK left \in Placing : left = IF job[h].entity.class # c THEN job[h].entity.class ELSE None
    BY <1>6, PlacementWork DEF AssignCheck, PlacementTypeInv, ToAssignJob, Row, Placing
  <2>3. \A g \in Handlers \ {h} : job'[g] = job[g]
    BY <1>6 DEF AssignCheck, PlacementTypeInv
  <2>4. \/ job'[h] = Idle
        \/ /\ job'[h].step = "assign" /\ job'[h].class = c /\ job'[h].student = s
           /\ job'[h].closes = left
           /\ (left # None => ~Closing(s, left))
           /\ job'[h].rows = IF left = None THEN 0 ELSE open[s][left]
    BY <1>6, <2>1, <2>2 DEF AssignCheck, PlacementTypeInv
  <2>5. open' = open
    BY <1>6 DEF AssignCheck
  <2>6. CASE job'[h] = Idle
    BY <2>3, <2>5, <2>6, QuietClosers DEF Idle
  <2>7. CASE job'[h] # Idle
    <3>1. left # None => job'[h].rows = open[s][left] /\ ~Closing(s, left) /\ left # c
      BY <2>2, <2>4, <2>7
    <3>2. job'[h].student = s /\ job'[h].closes = left /\ job'[h].class = c
      BY <2>4, <2>7
    <3>3. QED
      BY <2>3, <2>5, <3>1, <3>2, CloserJoins
  <2>8. QED
    BY <2>6, <2>7
<1>7. ASSUME NEW h \in Handlers, AssignCommit(h) PROVE ClosersInv'
  <2>1. job[h] \in AssignJob /\ job[h].step = "assign"
    BY <1>7, PlacementWork DEF AssignCommit, PlacementTypeInv
  <2>2. PICK s \in Students, c \in Classes, n \in Placing :
          s = job[h].student /\ c = job[h].class /\ n = job[h].closes
    BY <2>1 DEF AssignJob
  <2>3. job[h].rows \in Int /\ (n # None => job[h].rows \in 0..open[s][n] /\ n # c)
    BY <2>1, <2>2 DEF AssignJob, ClosersInv, Closes
  <2> DEFINE rows == [d \in Classes |-> open[s][d] - (IF d = n THEN job[h].rows ELSE 0)
                                              + (IF d = c /\ job[h].opens THEN 1 ELSE 0)]
  <2>4. open' = [open EXCEPT ![s] = rows] /\ MarkLate(h, s, Idle)
    BY <1>7, <2>2 DEF AssignCommit
  <2>5. ASSUME NEW d \in Classes
        PROVE  /\ rows[d] \in 0..MaxOpen
               /\ d # n => rows[d] >= open[s][d]
    <3>1. open[s][d] \in 0..MaxOpen /\ MaxOpen \in Nat /\ d # None
      BY OpenRowsAreCounted, NoneIsNone DEF ClosersInv
    <3>2. CASE d = n
      <4>1. rows[d] = open[s][d] - job[h].rows /\ job[h].rows \in 0..open[s][d]
        BY <2>3, <3>1, <3>2
      <4>2. QED
        BY <3>1, <3>2, <4>1
    <3>3. CASE d # n /\ d = c /\ job[h].opens
      <4>1. open[s][d] < MaxOpen
        BY <1>7, <2>2, <3>3 DEF AssignCommit
      <4>2. QED
        BY <3>1, <3>3, <4>1
    <3>4. CASE d # n /\ ~(d = c /\ job[h].opens)
      BY <3>1, <3>4
    <3>5. QED
      BY <3>2, <3>3, <3>4
  <2>6. job[h].student = s /\ (n # None => Closes(h) /\ job[h].closes = n)
    BY <2>1, <2>2 DEF Closes
  <2> HIDE DEF rows
  <2>7. QED
    BY <2>4, <2>5, <2>6, CloserLeaves
<1>8. ASSUME NEW h \in Handlers, NEW s \in Students, ArchiveRead(h, s)
      PROVE  ClosersInv'
  BY <1>8, QuietClosers DEF ArchiveRead, Start, PlacementTypeInv
<1>9. ASSUME NEW h \in Handlers, ArchiveCheck(h) PROVE ClosersInv'
  <2>1. PICK s \in Students, left \in Placing :
          s = job[h].student /\ left = job[h].entity.class
    BY <1>9, PlacementWork DEF ArchiveCheck, PlacementTypeInv, ToArchiveJob, Row, Placing
  <2>2. \A g \in Handlers \ {h} : job'[g] = job[g]
    BY <1>9 DEF ArchiveCheck, PlacementTypeInv
  <2>3. /\ job'[h].step = "archive" /\ job'[h].student = s
        /\ job'[h].closes = left
        /\ (left # None => job'[h].rows = open[s][left] /\ ~Closing(s, left))
    BY <1>9, <2>1 DEF ArchiveCheck, PlacementTypeInv
  <2>4. open' = open
    BY <1>9 DEF ArchiveCheck
  <2>5. QED
    BY <2>2, <2>3, <2>4, CloserJoins
<1>10. ASSUME NEW h \in Handlers, ArchiveCommit(h) PROVE ClosersInv'
  <2>1. job[h] \in ArchiveJob /\ job[h].step = "archive"
    BY <1>10, PlacementWork DEF ArchiveCommit, PlacementTypeInv
  <2>2. PICK s \in Students, n \in Placing : s = job[h].student /\ n = job[h].closes
    BY <2>1 DEF ArchiveJob
  <2>3. n # None => job[h].rows \in 0..open[s][n]
    BY <2>1, <2>2 DEF ClosersInv, Closes
  <2> DEFINE rows == [d \in Classes |-> open[s][d] - (IF d = n THEN job[h].rows ELSE 0)]
  <2>4. open' = [open EXCEPT ![s] = rows] /\ MarkLate(h, s, Idle)
    BY <1>10, <2>2 DEF ArchiveCommit
  <2>5. ASSUME NEW d \in Classes
        PROVE  /\ rows[d] \in 0..MaxOpen
               /\ d # n => rows[d] >= open[s][d]
    <3>1. open[s][d] \in 0..MaxOpen /\ MaxOpen \in Nat /\ d # None
      BY OpenRowsAreCounted, NoneIsNone DEF ClosersInv
    <3>2. CASE d = n
      <4>1. rows[d] = open[s][d] - job[h].rows /\ job[h].rows \in 0..open[s][d]
        BY <2>3, <3>1, <3>2
      <4>2. QED
        BY <3>1, <3>2, <4>1
    <3>3. CASE d # n
      BY <3>1, <3>3
    <3>4. QED
      BY <3>2, <3>3
  <2>6. job[h].student = s /\ (n # None => Closes(h) /\ job[h].closes = n)
    BY <2>1, <2>2 DEF Closes
  <2> HIDE DEF rows
  <2>7. QED
    BY <2>4, <2>5, <2>6, CloserLeaves
<1>11. ASSUME NEW h \in Handlers, NEW s \in Students, NEW g \in Grades, UpdateRead(h, s, g)
      PROVE  ClosersInv'
  BY <1>11, QuietClosers DEF UpdateRead, Start, PlacementTypeInv
<1>12. ASSUME NEW h \in Handlers, UpdateCheck(h)
      PROVE  ClosersInv'
  BY <1>12, QuietClosers DEF UpdateCheck, PlacementTypeInv
<1>13. ASSUME NEW h \in Handlers, UpdateCommit(h) PROVE ClosersInv'
  <2>1. PICK s \in Students : s = job[h].student
    BY <1>13, PlacementWork DEF UpdateCommit, PlacementTypeInv, UpdateJob
  <2>2. PICK rows : rows = open[s]
    OBVIOUS
  <2>3. open' = [open EXCEPT ![s] = rows] /\ MarkLate(h, s, Idle)
    BY <1>13, <2>1, <2>2 DEF UpdateCommit, PlacementTypeInv
  <2>4. \A d \in Classes : rows[d] \in 0..MaxOpen /\ rows[d] >= open[s][d]
    BY <2>2, OpenRowsAreCounted DEF ClosersInv
  <2>5. None \in Placing
    BY DEF Placing
  <2>6. QED
    BY <2>1, <2>3, <2>4, <2>5, CloserLeaves
<1>14. ASSUME NEW h \in Handlers, NEW l \in Leads, NEW c \in Classes \cup {None},
              NEW g \in Grades, ConvertCheck(h, l, c, g)
      PROVE  ClosersInv'
  BY <1>14, QuietClosers DEF ConvertCheck, Start, PlacementTypeInv
<1>15. ASSUME NEW h \in Handlers, NEW s \in Students, ConvertCommit(h, s) PROVE ClosersInv'
  <2>1. job[h].class \in Placing
    BY <1>15, PlacementWork DEF ConvertCommit, PlacementTypeInv, ConvertJob
  <2>2. QED
    BY <1>15, <2>1, BirthsCloseNothing DEF ConvertCommit
<1>16. ASSUME NEW h \in Handlers, NEW l \in Leads, StageRead(h, l)
      PROVE  ClosersInv'
  BY <1>16, QuietClosers DEF StageRead, Start, PlacementTypeInv
<1>17. ASSUME NEW h \in Handlers, StageCheck(h)
      PROVE  ClosersInv'
  BY <1>17, QuietClosers DEF StageCheck, PlacementTypeInv
<1>18. ASSUME NEW h \in Handlers, StageCommit(h)
      PROVE  ClosersInv'
  BY <1>18, QuietClosers DEF StageCommit, Idle, PlacementTypeInv
<1>19. ASSUME NEW l \in Leads, DeleteLead(l)
      PROVE  ClosersInv'
  BY <1>19, QuietClosers DEF DeleteLead
<1>20. ASSUME NEW c \in Classes, NEW n \in Capacities, NEW b \in BOOLEAN, ReviseClass(c, n, b)
      PROVE  ClosersInv'
  BY <1>20, QuietClosers DEF ReviseClass
<1>21. ASSUME NEW h \in Handlers, Placement(h) PROVE ClosersInv'
  BY <1>2, <1>3, <1>4, <1>5, <1>6, <1>7, <1>8, <1>9, <1>10, <1>11, <1>12, <1>13, <1>21
     DEF Placement
<1>22. ASSUME NEW h \in Handlers, Pipeline(h) PROVE ClosersInv'
  BY <1>14, <1>15, <1>16, <1>17, <1>18, <1>22 DEF Pipeline
<1>23. QED
  BY <1>1, <1>19, <1>20, <1>21, <1>22 DEF Next

-----------------------------------------------------------------------------
(* Placement: the theorems.                                                *)

PlacementInv == PlacementTypeInv /\ FreshInv /\ FollowsInv /\ SeatInv /\ LeadInv /\ ClosersInv

LEMMA PlacementInitial == Init => PlacementInv
<1> SUFFICES ASSUME Init PROVE PlacementInv
  OBVIOUS
<1>1. PlacementTypeInv
  <2>1. Idle \in Job /\ Idle.step \notin ProfileSteps
    BY DEF Job, OtherJob, Idle, ProfileSteps
  <2>2. \A c \in Classes : class[c] \in [capacity : Capacities, active : BOOLEAN]
    BY DEF Init
  <2>3. class \in [Classes -> [capacity : Capacities, active : BOOLEAN]]
    BY <2>2 DEF Init
  <2>4. [converted |-> None, deleted |-> FALSE] \in LeadRow
    BY DEF LeadRow
  <2>5. QED
    BY <2>1, <2>3, <2>4 DEF Init, PlacementTypeInv
<1>2. FreshInv
  BY DEF Init, FreshInv, Idle, ProfileSteps
<1>3. FollowsInv
  BY DEF Init, FollowsInv, HistoryFollowsClass, Stored, Idle
<1>4. SeatInv
  <2>1. \A h \in Handlers : Holding(h) = None
    BY DEF Init, Holding, Idle
  <2>2. \A c : Count(c) = {}
    BY DEF Init, Count, ActiveIn, Unborn
  <2>3. Cardinality({}) = 0
    BY FS_EmptySet
  <2>4. \A c \in Classes : class[c].capacity \in Nat
    BY <1>1, CapacitiesAreNumbers
  <2>5. \A c \in Classes : Cardinality(Count(c)) <= class[c].capacity
    BY <2>2, <2>3, <2>4
  <2>6. QED
    BY <2>1, <2>5, NoneIsNone DEF SeatInv
<1>5. LeadInv
  <2>1. \A l \in Leads : Made(l) = {}
    BY NoneIsNone DEF Init, Made
  <2>2. Cardinality({}) = 0
    BY FS_EmptySet
  <2>3. \A l \in Leads : reset[l] = 0
    BY DEF Init
  <2>4. \A h \in Handlers : ~Converts(h)
    BY DEF Init, Converts, Idle
  <2>5. QED
    BY <2>1, <2>2, <2>3, <2>4 DEF LeadInv
<1>6. ClosersInv
  BY OpenRowsAreCounted DEF Init, ClosersInv, Closes, Idle
<1>7. QED
  BY <1>1, <1>2, <1>3, <1>4, <1>5, <1>6 DEF PlacementInv

LEMMA PlacementInvariance == Spec => []PlacementInv
<1>1. PlacementInv /\ [Next]_vars => PlacementInv'
  BY PlacementTypesKept, FreshKept, FollowsKept, SeatsKept, LeadsKept, ClosersKept DEF PlacementInv
<1>2. QED
  BY <1>1, PlacementInitial, PTL DEF Spec

\* Rows stay rows however saves overlap, and no history row is closed twice: the
\* count of open rows stays within its bounds.
THEOREM PlacementTypeCorrect == Spec => []TypeOK
<1>1. ASSUME PlacementInv PROVE TypeOK
  <2>1. open \in [Students -> [Classes -> 0..MaxOpen]]
    <3>1. \A t \in Students : open[t] \in [Classes -> 0..MaxOpen]
      BY <1>1 DEF PlacementInv, PlacementTypeInv, ClosersInv
    <3>2. QED
      BY <1>1, <3>1 DEF PlacementInv, PlacementTypeInv
  <2>2. \A h \in Handlers : job[h].step \in
         {"idle", "create", "toAssign", "assign", "toArchive", "archive", "toUpdate",
          "update", "convert", "toStage", "stage"}
    BY <1>1, PlacementWork DEF PlacementInv, PlacementTypeInv, ProfileSteps
  <2>3. QED
    BY <1>1, <2>1, <2>2 DEF PlacementInv, PlacementTypeInv, TypeOK
<1>2. QED
  BY <1>1, PlacementInvariance, PTL

\* The seats of a class: however many requests place, convert, archive and edit
\* students at once, the row lock lets no more in than the capacity, but for
\* the saves that came late.
THEOREM SeatsAreKept == Spec => []CapacityKept
<1>1. PlacementInv => CapacityKept
  BY DEF PlacementInv, SeatInv, CapacityKept, Count
<1>2. QED
  BY <1>1, PlacementInvariance, PTL

\* The open history rows, the class and the grade level of a student agree as
\* long as no request about it came late.
THEOREM HistoryAgrees == Spec => []HistoryFollowsClass
<1>1. PlacementInv => HistoryFollowsClass
  BY DEF PlacementInv, FollowsInv
<1>2. QED
  BY <1>1, PlacementInvariance, PTL

\* The row lock of a lead: one student comes of it, and one more only for each
\* stage update that wrote back what it had read before the conversion.
THEOREM OneStudentOfALead == Spec => []ConvertedOnce
<1>1. PlacementInv => ConvertedOnce
  BY DEF PlacementInv, LeadInv, ConvertedOnce, Made
<1>2. QED
  BY <1>1, PlacementInvariance, PTL

-----------------------------------------------------------------------------
(* Families.                                                               *)

InviteInv ==
    /\ \A h \in Chores : chore[h].step = "accept" =>
         /\ Issued(chore[h].invite) /\ ~Used(chore[h].invite) /\ ~Revoked(chore[h].invite)
         /\ chore[h].user \in Chats \cup {Nobody}
    /\ \A g, h \in Chores : chore[g].step = "accept" /\ chore[h].step = "accept"
                              /\ chore[g].invite = chore[h].invite => g = h
    /\ \A h \in Chores : chore[h].step = "revoke" =>
         /\ Issued(chore[h].invite)
         /\ Used(chore[h].invite) => chore[h].invite \in overtaken

\* The links are those of the used invites, and of parents.
EntryInv ==
    /\ \A pair \in link : \E i \in Invites :
         Used(i) /\ pair = <<invite[i].usedBy, invite[i].student>>
    /\ \A i \in Invites : Used(i) =>
         invite[i].usedBy \in Chats /\ <<invite[i].usedBy, invite[i].student>> \in link

FamilyInv == FamiliesTypeOK /\ InviteInv /\ EntryInv /\ InviteEndsOnce

-----------------------------------------------------------------------------
(* Families: what a step does to one request or one invite.                *)

\* The kinds of work are told apart by their steps.
LEMMA FamilyWork ==
    ASSUME NEW j \in Chore
    PROVE  /\ j.step \in {"idle", "accept", "revoke", "bind", "unbind"}
           /\ j.step = "accept" => j.invite \in Invites /\ j.chat \in Chats
                                     /\ j.user \in Users \cup {Nobody}
           /\ j.step = "revoke" => j.invite \in Invites
           /\ j.step = "bind" => j.user \in Users /\ j.chat \in Chats
                                   /\ j.code \in Codes \cup {Nobody}
           /\ j.step = "unbind" => j.user \in Users
BY DEF Chore, Rested

\* An issued invite has a row of its own.
LEMMA IssuedRows ==
    ASSUME FamiliesTypeOK, NEW i \in Invites, Issued(i)
    PROVE  invite[i] \in InviteRow
BY DEF FamiliesTypeOK, Issued

\* Binding or clearing a chat leaves an account.
LEMMA BoundAccounts ==
    ASSUME NEW r \in Account \cup {NoAccount}, NEW x \in Chats \cup {Nobody}
    PROVE  [r EXCEPT !.chat = x] \in Account
<1>1. CASE r \in Account
  BY <1>1 DEF Account
<1>2. CASE r = NoAccount
  <2> DEFINE bound == [r EXCEPT !.chat = x]
  <2>1. DOMAIN r = {"deleted", "chat"} /\ r.deleted = FALSE
    BY <1>2 DEF NoAccount
  <2>2. bound = [f \in {"deleted", "chat"} |-> IF f = "chat" THEN x ELSE r[f]]
    BY <2>1
  <2>3. bound = [deleted |-> bound.deleted, chat |-> bound.chat]
    BY <2>2
  <2>4. bound.deleted = FALSE /\ bound.chat = x
    BY <2>1, <2>2
  <2>5. QED
    BY <2>3, <2>4 DEF Account
<1>3. QED
  BY <1>1, <1>2

LEMMA NobodyIsNone == Nobody \notin Users /\ Nobody \notin Siblings
BY NamesDiffer DEF Users

-----------------------------------------------------------------------------
(* Families: the types.                                                    *)

LEMMA FamilyTypesKept == FamiliesTypeOK /\ InviteInv /\ [FamiliesNext]_familyVars => FamiliesTypeOK'
<1> SUFFICES ASSUME FamiliesTypeOK, InviteInv, [FamiliesNext]_familyVars PROVE FamiliesTypeOK'
  OBVIOUS
<1> USE DEF FamiliesTypeOK
<1>1. CASE UNCHANGED familyVars
  BY <1>1 DEF familyVars
<1>2. ASSUME NEW h \in Chores, NEW i \in Invites, NEW x \in Chats, AcceptCheck(h, i, x)
      PROVE  FamiliesTypeOK'
  <2>1. \A u \in Users \cup {Nobody} :
           [step |-> "accept", invite |-> i, chat |-> x, user |-> u] \in Chore
    BY DEF Chore
  <2>2. PICK u \in Users \cup {Nobody} :
           chore' = [chore EXCEPT ![h] = [step |-> "accept", invite |-> i, chat |-> x, user |-> u]]
    BY <1>2 DEF AcceptCheck, StartChore, OwnersOf, Users
  <2>3. QED
    BY <1>2, <2>1, <2>2 DEF AcceptCheck
<1>3. ASSUME NEW h \in Chores, AcceptCommit(h) PROVE FamiliesTypeOK'
  <2>1. /\ chore[h].step = "accept" /\ chore[h].invite \in Invites /\ chore[h].chat \in Chats
        /\ chore[h].user \in Users \cup {Nobody}
    BY <1>3, FamilyWork DEF AcceptCommit
  <2> DEFINE i == chore[h].invite
             u == IF chore[h].user = Nobody THEN chore[h].chat ELSE chore[h].user
  <2>2. i \in Invites /\ invite[i] \in InviteRow /\ u \in Users
    BY <2>1, IssuedRows DEF InviteInv, Users
  <2>3. [invite[i] EXCEPT !.usedBy = u] \in InviteRow /\ invite[i].student \in Siblings
    BY <2>2 DEF InviteRow
  <2>4. invite' \in [Invites -> InviteRow \cup {Unissued}] /\ link' \subseteq Users \X Siblings
    BY <1>3, <2>2, <2>3 DEF AcceptCommit
  <2>5. user' \in [Users -> Account \cup {NoAccount}]
    <3>1. [deleted |-> FALSE, chat |-> chore[h].chat] \in Account
      BY <2>1 DEF Account
    <3>2. QED
      BY <1>3, <3>1 DEF AcceptCommit
  <2>6. overtaken' \subseteq Invites /\ chore' \in [Chores -> Chore]
    BY <1>3, <2>2 DEF AcceptCommit, FinishChore, Chore
  <2>7. QED
    BY <1>3, <2>4, <2>5, <2>6 DEF AcceptCommit
<1>4. ASSUME NEW h \in Chores, NEW i \in Invites, RevokeCheck(h, i) PROVE FamiliesTypeOK'
  <2>1. [step |-> "revoke", invite |-> i] \in Chore
    BY DEF Chore
  <2>2. QED
    BY <1>4, <2>1 DEF RevokeCheck, StartChore
<1>5. ASSUME NEW h \in Chores, Revoke(h) PROVE FamiliesTypeOK'
  <2>1. chore[h].invite \in Invites /\ invite[chore[h].invite] \in InviteRow
    BY <1>5, FamilyWork, IssuedRows DEF Revoke, InviteInv
  <2>2. [invite[chore[h].invite] EXCEPT !.deleted = TRUE] \in InviteRow
    BY <2>1 DEF InviteRow
  <2>3. QED
    BY <1>5, <2>1, <2>2 DEF Revoke, FinishChore, Chore
<1>6. ASSUME NEW h \in Chores, NEW u \in Users, NEW x \in Chats, LinkCheck(h, u, x)
      PROVE  FamiliesTypeOK'
  <2>1. [step |-> "bind", user |-> u, chat |-> x, code |-> Nobody] \in Chore
    BY DEF Chore
  <2>2. QED
    BY <1>6, <2>1 DEF LinkCheck, StartChore
<1>7. ASSUME NEW h \in Chores, NEW c \in Codes, NEW x \in Chats, RedeemCode(h, c, x)
      PROVE  FamiliesTypeOK'
  <2>1. [step |-> "bind", user |-> code[c], chat |-> x, code |-> c] \in Chore
    BY <1>7 DEF Chore, RedeemCode
  <2>2. QED
    BY <1>7, <2>1 DEF RedeemCode, TakeCode, StartChore
<1>8. ASSUME NEW h \in Chores, NEW x \in Chats, UnlinkCheck(h, x) PROVE FamiliesTypeOK'
  <2>1. \A u \in Users : [step |-> "unbind", user |-> u] \in Chore
    BY DEF Chore
  <2>2. QED
    BY <1>8, <2>1 DEF UnlinkCheck, StartChore, OwnersOf
<1>9. ASSUME NEW u \in Users, NEW x \in Chats \cup {Nobody}
      PROVE  [user[u] EXCEPT !.chat = x] \in Account
  BY BoundAccounts
<1>10. ASSUME NEW h \in Chores, Bind(h) PROVE FamiliesTypeOK'
  <2>1. chore[h].user \in Users /\ chore[h].chat \in Chats /\ chore[h].code \in Codes \cup {Nobody}
    BY <1>10, FamilyWork DEF Bind
  <2>2. user' \in [Users -> Account \cup {NoAccount}]
    BY <1>9, <1>10, <2>1 DEF Bind
  <2>3. reached' \in [Codes -> SUBSET Chats]
    BY <1>10, <2>1 DEF Bind
  <2>4. QED
    BY <1>10, <2>2, <2>3 DEF Bind, FinishChore, Chore
<1>11. ASSUME NEW h \in Chores, Unbind(h) PROVE FamiliesTypeOK'
  <2>1. chore[h].user \in Users
    BY <1>11, FamilyWork DEF Unbind
  <2>2. QED
    BY <1>9, <1>11, <2>1 DEF Unbind, FinishChore, Chore
<1>12. ASSUME NEW i \in Invites, NEW k \in Siblings, CreateInvite(i, k) PROVE FamiliesTypeOK'
  <2>1. [student |-> k, usedBy |-> Nobody, expired |-> FALSE, deleted |-> FALSE] \in InviteRow
    BY DEF InviteRow
  <2>2. QED
    BY <1>12, <2>1 DEF CreateInvite
<1>13. ASSUME NEW i \in Invites, Expire(i) PROVE FamiliesTypeOK'
  <2>1. [invite[i] EXCEPT !.expired = TRUE] \in InviteRow
    BY <1>13, IssuedRows DEF InviteRow, Expire
  <2>2. QED
    BY <1>13, <2>1 DEF Expire
<1>14. ASSUME NEW S \in SUBSET Invites, CleanupExpiredInvites(S) PROVE FamiliesTypeOK'
  <2>1. \A i \in S : [invite[i] EXCEPT !.deleted = TRUE] \in InviteRow
    <3>1. ASSUME NEW i \in S PROVE [invite[i] EXCEPT !.deleted = TRUE] \in InviteRow
      <4>1. invite[i] \in InviteRow
        BY <1>14, IssuedRows DEF CleanupExpiredInvites, Outdated
      <4>2. QED
        BY <4>1 DEF InviteRow
    <3>2. QED
      BY <3>1
  <2>2. QED
    BY <1>14, <2>1 DEF CleanupExpiredInvites
<1>15. ASSUME NEW u \in Users, NEW c \in Codes, GenerateCode(u, c) PROVE FamiliesTypeOK'
  BY <1>15 DEF GenerateCode
<1>16. ASSUME NEW c \in Codes, ExpireCode(c) PROVE FamiliesTypeOK'
  BY <1>16 DEF ExpireCode
<1>17. ASSUME NEW x \in Chats, Blocked(x) PROVE FamiliesTypeOK'
  BY <1>9, <1>17 DEF Blocked
<1>18. ASSUME NEW u \in Users, SoftDelete(u) PROVE FamiliesTypeOK'
  <2>1. [user[u] EXCEPT !.deleted = TRUE] \in Account
    BY <1>18 DEF SoftDelete, Visible, HasAccount, Account
  <2>2. QED
    BY <1>18, <2>1 DEF SoftDelete
<1>19. CASE FamiliesCrash
  BY <1>19 DEF FamiliesCrash, Chore
<1>20. QED
  BY <1>1, <1>2, <1>3, <1>4, <1>5, <1>6, <1>7, <1>8, <1>10, <1>11, <1>12, <1>13, <1>14,
     <1>15, <1>16, <1>17, <1>18, <1>19 DEF FamiliesNext, Admission, Binding
-----------------------------------------------------------------------------
(* Families: work, entries and ends.                                       *)

Books == InviteInv /\ EntryInv /\ InviteEndsOnce

\* Where no invite, link or mark changes, and nothing new is accepted or revoked.
LEMMA NothingDecided ==
    ASSUME Books, invite' = invite, link' = link, overtaken' = overtaken,
           \A h \in Chores : chore'[h].step \in {"accept", "revoke"} => chore'[h] = chore[h]
    PROVE  Books'
<1>1. InviteInv'
  BY DEF Books, InviteInv, Issued, Used, Revoked
<1>2. EntryInv'
  BY DEF Books, EntryInv, Issued, Used
<1>3. InviteEndsOnce'
  BY DEF Books, InviteEndsOnce, Issued, Used, Revoked
<1>4. QED
  BY <1>1, <1>2, <1>3 DEF Books

\* Invites change in what nobody under way relies on: some are issued, and some
\* that were not held are deleted or expire.
LEMMA RowsChange ==
    ASSUME FamiliesTypeOK, Books, link' = link, overtaken' = overtaken, chore' = chore,
           \A i \in Invites : Issued(i) =>
             /\ invite'[i] # Unissued
             /\ invite'[i].usedBy = invite[i].usedBy /\ invite'[i].student = invite[i].student
             /\ invite'[i].deleted = invite[i].deleted \/ (~InviteHeld(i) /\ ~Used(i)),
           \A i \in Invites : ~Issued(i) =>
             invite'[i] = Unissued \/ (invite'[i].usedBy = Nobody /\ ~invite'[i].deleted)
    PROVE  Books'
<1>1. \A i \in Invites : Used(i)' <=> Used(i)
  BY DEF Used, Issued
<1>2. \A i \in Invites : Issued(i) => Issued(i)'
  BY DEF Issued
<1>3. InviteInv'
  <2>1. ASSUME NEW h \in Chores, chore[h].step = "accept"
        PROVE  /\ Issued(chore[h].invite)' /\ ~Used(chore[h].invite)'
               /\ ~Revoked(chore[h].invite)'
    <3>1. /\ chore[h].invite \in Invites /\ Issued(chore[h].invite) /\ ~Used(chore[h].invite)
          /\ ~Revoked(chore[h].invite) /\ InviteHeld(chore[h].invite)
      BY <2>1, FamilyWork DEF Books, InviteInv, FamiliesTypeOK, InviteHeld
    <3>2. QED
      BY <1>1, <1>2, <3>1 DEF Revoked, Issued
  <2>2. ASSUME NEW h \in Chores, chore[h].step = "revoke"
        PROVE  /\ Issued(chore[h].invite)'
               /\ Used(chore[h].invite)' => chore[h].invite \in overtaken
    <3>1. /\ chore[h].invite \in Invites /\ Issued(chore[h].invite)
          /\ Used(chore[h].invite) => chore[h].invite \in overtaken
      BY <2>2, FamilyWork DEF Books, InviteInv, FamiliesTypeOK
    <3>2. QED
      BY <1>1, <1>2, <3>1 DEF Issued, Used
  <2>3. QED
    BY <2>1, <2>2 DEF Books, InviteInv
<1>4. EntryInv'
  <2>1. \A i \in Invites : Used(i) => invite'[i].usedBy = invite[i].usedBy
                                       /\ invite'[i].student = invite[i].student
    BY DEF Used
  <2>2. QED
    BY <1>1, <2>1 DEF Books, EntryInv
<1>5. InviteEndsOnce'
  <2>1. \A i \in Invites : Used(i) /\ Revoked(i)' => Revoked(i)
    BY DEF Used, Revoked, Issued
  <2>2. QED
    BY <1>1, <2>1 DEF Books, InviteEndsOnce
<1>6. QED
  BY <1>3, <1>4, <1>5 DEF Books

\* An accept that commits uses an invite nobody else was accepting.
LEMMA AcceptKeepsBooks ==
    ASSUME FamiliesTypeOK, Books, NEW h \in Chores, AcceptCommit(h)
    PROVE  Books'
<1> USE DEF FamiliesTypeOK
<1>1. /\ chore[h].step = "accept" /\ chore[h].invite \in Invites /\ chore[h].chat \in Chats
      /\ chore[h].user \in Chats \cup {Nobody}
  BY FamilyWork DEF AcceptCommit, Books, InviteInv
<1>2. PICK i \in Invites : i = chore[h].invite
  BY <1>1
<1>3. PICK u \in Chats : u = IF chore[h].user = Nobody THEN chore[h].chat ELSE chore[h].user
  BY <1>1
<1>4. chore' = [chore EXCEPT ![h] = Rested]
  BY DEF AcceptCommit, FinishChore
<1>5. /\ Issued(i) /\ ~Used(i) /\ ~Revoked(i) /\ invite[i] \in InviteRow
      /\ u # Nobody
  BY <1>1, <1>2, IssuedRows, NobodyIsNone DEF Books, InviteInv, Users
<1>6. CASE ~Obtainable(chore[h].user, chore[h].chat)
  <2>1. invite' = invite /\ link' = link /\ overtaken' = overtaken
    BY <1>6 DEF AcceptCommit
  <2>2. \A g \in Chores : chore'[g].step \in {"accept", "revoke"} => chore'[g] = chore[g]
    BY <1>4 DEF Rested
  <2>3. QED
    BY <2>1, <2>2, NothingDecided
<1>7. CASE Obtainable(chore[h].user, chore[h].chat)
  <2>1. /\ link' = link \cup {<<u, invite[i].student>>}
        /\ invite' = [invite EXCEPT ![i].usedBy = u]
        /\ overtaken' = IF \E g \in Chores : chore[g].step = "revoke" /\ chore[g].invite = i
                          THEN overtaken \cup {i} ELSE overtaken
    BY <1>2, <1>3, <1>7 DEF AcceptCommit
  <2>2. /\ invite'[i].usedBy = u /\ invite'[i].student = invite[i].student
        /\ invite'[i].deleted = invite[i].deleted /\ invite'[i] # Unissued
        /\ \A k \in Invites \ {i} : invite'[k] = invite[k]
    <3>1. invite'[i] = [invite[i] EXCEPT !.usedBy = u]
      BY <2>1
    <3>2. invite'[i].usedBy = u /\ invite'[i].student \in Siblings
      BY <1>5, <3>1 DEF InviteRow
    <3>3. invite'[i] # Unissued
      BY <3>2, NobodyIsNone DEF Unissued
    <3>4. QED
      BY <1>5, <2>1, <3>1, <3>3 DEF InviteRow
  <2>3. /\ Used(i)' /\ ~Revoked(i)'
        /\ \A k \in Invites \ {i} : (Used(k)' <=> Used(k)) /\ (Issued(k)' <=> Issued(k))
                                     /\ (Revoked(k)' <=> Revoked(k))
    BY <1>5, <2>2 DEF Used, Revoked, Issued
  <2>4. InviteInv'
    <3>1. ASSUME NEW g \in Chores, chore'[g].step = "accept"
          PROVE  /\ chore'[g] = chore[g]
                 /\ Issued(chore[g].invite)' /\ ~Used(chore[g].invite)'
                 /\ ~Revoked(chore[g].invite)' /\ chore'[g].user \in Chats \cup {Nobody}
      <4>1. g # h /\ chore'[g] = chore[g] /\ chore[g].step = "accept"
        BY <1>4, <3>1 DEF Rested
      <4>2. PICK k \in Invites : k = chore[g].invite
        BY <4>1, FamilyWork
      <4>3. k # i
        BY <1>1, <1>2, <4>1, <4>2 DEF Books, InviteInv
      <4>4. Issued(k) /\ ~Used(k) /\ ~Revoked(k) /\ chore[g].user \in Chats \cup {Nobody}
        BY <4>1, <4>2 DEF Books, InviteInv
      <4>5. Issued(k)' /\ ~Used(k)' /\ ~Revoked(k)'
        BY <2>3, <4>3, <4>4
      <4>6. QED
        BY <4>1, <4>2, <4>4, <4>5 DEF Issued, Used, Revoked
    <3>2. ASSUME NEW g \in Chores, chore'[g].step = "revoke"
          PROVE  /\ Issued(chore[g].invite)'
                 /\ Used(chore[g].invite)' => chore'[g].invite \in overtaken'
      <4>1. g # h /\ chore'[g] = chore[g] /\ chore[g].step = "revoke"
        BY <1>4, <3>2 DEF Rested
      <4>2. PICK k \in Invites : k = chore[g].invite
        BY <4>1, FamilyWork
      <4>3. CASE k = i
        <5>1. i \in overtaken' /\ Issued(i)'
          BY <2>1, <2>2, <4>1, <4>2, <4>3 DEF Issued
        <5>2. QED
          BY <4>1, <4>2, <4>3, <5>1 DEF Issued
      <4>4. CASE k # i
        <5>1. Issued(k)' /\ (Used(k)' => k \in overtaken')
          BY <2>1, <2>3, <4>1, <4>2, <4>4 DEF Books, InviteInv
        <5>2. QED
          BY <4>1, <4>2, <5>1 DEF Issued, Used
      <4>5. QED
        BY <4>3, <4>4
    <3>3. \A f, g \in Chores : chore'[f].step = "accept" /\ chore'[g].step = "accept"
                                /\ chore'[f].invite = chore'[g].invite => f = g
      BY <3>1 DEF Books, InviteInv
    <3>4. QED
      BY <3>1, <3>2, <3>3 DEF InviteInv
  <2>5. EntryInv'
    <3>1. ASSUME NEW pair \in link'
          PROVE  \E k \in Invites : Used(k)' /\ pair = <<invite'[k].usedBy, invite'[k].student>>
      <4>1. CASE pair = <<u, invite[i].student>>
        BY <2>2, <2>3, <4>1
      <4>2. CASE pair \in link
        <5>1. PICK k \in Invites : Used(k) /\ pair = <<invite[k].usedBy, invite[k].student>>
          BY <4>2 DEF Books, EntryInv
        <5>2. k # i
          BY <1>5, <5>1
        <5>3. QED
          BY <2>2, <2>3, <5>1, <5>2
      <4>3. QED
        BY <2>1, <3>1, <4>1, <4>2
    <3>2. ASSUME NEW k \in Invites, Used(k)'
          PROVE  invite'[k].usedBy \in Chats /\ <<invite'[k].usedBy, invite'[k].student>> \in link'
      <4>1. CASE k = i
        BY <2>1, <2>2, <4>1
      <4>2. CASE k # i
        BY <2>1, <2>2, <2>3, <3>2, <4>2 DEF Books, EntryInv
      <4>3. QED
        BY <4>1, <4>2
    <3>3. QED
      BY <3>1, <3>2 DEF EntryInv
  <2>6. InviteEndsOnce'
    BY <2>1, <2>3 DEF Books, InviteEndsOnce
  <2>7. QED
    BY <2>4, <2>5, <2>6 DEF Books
<1>8. QED
  BY <1>6, <1>7

LEMMA BooksKept == FamiliesTypeOK /\ Books /\ [FamiliesNext]_familyVars => Books'
<1> SUFFICES ASSUME FamiliesTypeOK, Books, [FamiliesNext]_familyVars PROVE Books'
  OBVIOUS
<1> USE DEF FamiliesTypeOK
<1>1. CASE UNCHANGED familyVars
  BY <1>1, NothingDecided DEF familyVars
<1>2. ASSUME NEW h \in Chores, NEW i \in Invites, NEW x \in Chats, AcceptCheck(h, i, x)
      PROVE  Books'
  <2>1. UNCHANGED <<user, invite, link, code, reached, overtaken>>
        /\ Issued(i) /\ ~Used(i) /\ ~Revoked(i) /\ ~InviteHeld(i)
    BY <1>2 DEF AcceptCheck, Open
  <2>2. PICK u \in Chats \cup {Nobody} :
           chore' = [chore EXCEPT ![h] = [step |-> "accept", invite |-> i, chat |-> x, user |-> u]]
    BY <1>2 DEF AcceptCheck, StartChore
  <2>3. \A g \in Chores \ {h} : chore'[g] = chore[g]
    BY <2>2
  <2>4. /\ chore'[h].step = "accept" /\ chore'[h].invite = i
        /\ chore'[h].user \in Chats \cup {Nobody}
    BY <2>2
  <2>5. \A g \in Chores \ {h} : chore[g].step = "accept" => chore[g].invite # i
    BY <2>1 DEF InviteHeld
  <2>6. InviteInv'
    <3>1. \A g \in Chores : chore'[g].step = "accept" =>
             /\ invite'[chore'[g].invite] # Unissued
             /\ ~(invite'[chore'[g].invite] # Unissued
                   /\ invite'[chore'[g].invite].usedBy # Nobody)
             /\ ~(invite'[chore'[g].invite] # Unissued /\ invite'[chore'[g].invite].deleted)
             /\ chore'[g].user \in Chats \cup {Nobody}
      BY <2>1, <2>3, <2>4 DEF Books, InviteInv, Issued, Used, Revoked
    <3>2. \A f, g \in Chores : chore'[f].step = "accept" /\ chore'[g].step = "accept"
                                /\ chore'[f].invite = chore'[g].invite => f = g
      BY <2>3, <2>4, <2>5 DEF Books, InviteInv
    <3>3. \A g \in Chores : chore'[g].step = "revoke" =>
             /\ invite'[chore'[g].invite] # Unissued
             /\ invite'[chore'[g].invite].usedBy # Nobody => chore'[g].invite \in overtaken'
      BY <2>1, <2>3, <2>4 DEF Books, InviteInv, Issued, Used
    <3>4. QED
      BY <3>1, <3>2, <3>3 DEF InviteInv, Issued, Used, Revoked
  <2>7. EntryInv' /\ InviteEndsOnce'
    BY <2>1 DEF Books, EntryInv, InviteEndsOnce, Used, Revoked, Issued
  <2>8. QED
    BY <2>6, <2>7 DEF Books
<1>3. ASSUME NEW h \in Chores, AcceptCommit(h) PROVE Books'
  BY <1>3, AcceptKeepsBooks
<1>4. ASSUME NEW h \in Chores, NEW i \in Invites, RevokeCheck(h, i) PROVE Books'
  <2>1. /\ UNCHANGED <<user, invite, link, code, reached, overtaken>>
        /\ Issued(i) /\ ~Used(i)
        /\ chore' = [chore EXCEPT ![h] = [step |-> "revoke", invite |-> i]]
    BY <1>4 DEF RevokeCheck, StartChore
  <2>2. chore'[h] = [step |-> "revoke", invite |-> i] /\ \A g \in Chores \ {h} : chore'[g] = chore[g]
    BY <2>1
  <2>3. InviteInv'
    <3>1. \A g \in Chores : chore'[g].step = "accept" => chore'[g] = chore[g]
      BY <2>2
    <3>2. \A g \in Chores : chore'[g].step = "revoke" =>
             chore'[g] = chore[g] \/ chore'[g].invite = i
      BY <2>2
    <3>3. QED
      BY <2>1, <3>1, <3>2 DEF Books, InviteInv, Issued, Used, Revoked
  <2>4. EntryInv' /\ InviteEndsOnce'
    BY <2>1 DEF Books, EntryInv, InviteEndsOnce, Used, Revoked, Issued
  <2>5. QED
    BY <2>3, <2>4 DEF Books
<1>5. ASSUME NEW h \in Chores, Revoke(h) PROVE Books'
  <2>1. PICK i \in Invites : i = chore[h].invite
    BY <1>5, FamilyWork DEF Revoke
  <2>2. /\ Issued(i) /\ (Used(i) => i \in overtaken) /\ ~InviteHeld(i)
        /\ invite' = [invite EXCEPT ![i].deleted = TRUE] /\ invite[i] \in InviteRow
        /\ UNCHANGED <<link, overtaken>>
        /\ chore' = [chore EXCEPT ![h] = Rested]
    BY <1>5, <2>1, IssuedRows DEF Books, InviteInv, Revoke, FinishChore
  <2>3. /\ invite'[i] # Unissued
        /\ invite'[i].usedBy = invite[i].usedBy /\ invite'[i].student = invite[i].student
        /\ \A k \in Invites \ {i} : invite'[k] = invite[k]
    BY <2>2, NobodyIsNone DEF InviteRow, Unissued
  <2>4. /\ \A k \in Invites : (Used(k)' <=> Used(k)) /\ (Issued(k)' <=> Issued(k))
        /\ \A k \in Invites \ {i} : Revoked(k)' <=> Revoked(k)
    BY <2>2, <2>3 DEF Used, Revoked, Issued
  <2>5. InviteInv'
    <3>1. ASSUME NEW g \in Chores, chore'[g].step \in {"accept", "revoke"}
          PROVE  /\ chore'[g] = chore[g] /\ chore[g].invite \in Invites
                 /\ chore[g].step = "accept" => chore[g].invite # i
      BY <2>2, <3>1, FamilyWork DEF Rested, InviteHeld
    <3>2. ASSUME NEW g \in Chores, chore'[g].step = "accept"
          PROVE  /\ Issued(chore[g].invite)' /\ ~Used(chore[g].invite)'
                 /\ ~Revoked(chore[g].invite)' /\ chore'[g].user \in Chats \cup {Nobody}
      <4>1. PICK k \in Invites : k = chore[g].invite /\ k # i /\ chore'[g] = chore[g]
        BY <3>1, <3>2
      <4>2. /\ Issued(k) /\ ~Used(k) /\ ~Revoked(k) /\ chore[g].user \in Chats \cup {Nobody}
        BY <3>2, <4>1 DEF Books, InviteInv
      <4>3. Issued(k)' /\ ~Used(k)' /\ ~Revoked(k)'
        BY <2>4, <4>1, <4>2
      <4>4. QED
        BY <4>1, <4>2, <4>3 DEF Issued, Used, Revoked
    <3>3. ASSUME NEW g \in Chores, chore'[g].step = "revoke"
          PROVE  /\ Issued(chore[g].invite)'
                 /\ Used(chore[g].invite)' => chore'[g].invite \in overtaken'
      <4>1. PICK k \in Invites : k = chore[g].invite /\ chore'[g] = chore[g]
        BY <3>1, <3>3
      <4>2. Issued(k) /\ (Used(k) => k \in overtaken)
        BY <3>3, <4>1 DEF Books, InviteInv
      <4>3. Issued(k)' /\ (Used(k)' => k \in overtaken')
        BY <2>2, <2>4, <4>2
      <4>4. QED
        BY <4>1, <4>3 DEF Issued, Used
    <3>4. \A f, g \in Chores : chore'[f].step = "accept" /\ chore'[g].step = "accept"
                                /\ chore'[f].invite = chore'[g].invite => f = g
      BY <3>1 DEF Books, InviteInv
    <3>5. QED
      BY <3>2, <3>3, <3>4 DEF InviteInv
  <2>6. EntryInv'
    BY <2>2, <2>3, <2>4 DEF Books, EntryInv
  <2>7. InviteEndsOnce'
    BY <2>2, <2>4 DEF Books, InviteEndsOnce
  <2>8. QED
    BY <2>5, <2>6, <2>7 DEF Books
<1>6. ASSUME NEW h \in Chores, NEW j, j.step \in {"bind", "unbind"},
             chore' = [chore EXCEPT ![h] = j], UNCHANGED <<invite, link, overtaken>>
      PROVE  Books'
  <2>1. \A g \in Chores : chore'[g].step \in {"accept", "revoke"} => chore'[g] = chore[g]
    BY <1>6
  <2>2. QED
    BY <1>6, <2>1, NothingDecided
<1>7. /\ \A h \in Chores, u \in Users, x \in Chats : LinkCheck(h, u, x) => Books'
      /\ \A h \in Chores, c \in Codes, x \in Chats : RedeemCode(h, c, x) => Books'
      /\ \A h \in Chores, x \in Chats : UnlinkCheck(h, x) => Books'
  BY <1>6 DEF LinkCheck, RedeemCode, UnlinkCheck, StartChore
<1>8. ASSUME NEW h \in Chores, Bind(h) \/ Unbind(h) PROVE Books'
  <2>1. \A g \in Chores : chore'[g].step \in {"accept", "revoke"} => chore'[g] = chore[g]
    BY <1>8 DEF Bind, Unbind, FinishChore, Rested
  <2>2. QED
    BY <1>8, <2>1, NothingDecided DEF Bind, Unbind
<1>9. ASSUME NEW i \in Invites, NEW k \in Siblings, CreateInvite(i, k) PROVE Books'
  BY <1>9, RowsChange DEF CreateInvite, Issued
<1>10. ASSUME NEW i \in Invites, Expire(i) PROVE Books'
  <2>1. invite[i] \in InviteRow /\ invite' = [invite EXCEPT ![i].expired = TRUE]
        /\ UNCHANGED <<link, overtaken, chore>>
    BY <1>10, IssuedRows DEF Expire
  <2>2. /\ invite'[i].usedBy = invite[i].usedBy /\ invite'[i].student = invite[i].student
        /\ invite'[i].deleted = invite[i].deleted /\ invite'[i] # Unissued
        /\ \A k \in Invites \ {i} : invite'[k] = invite[k]
    BY <2>1, NobodyIsNone DEF InviteRow, Unissued
  <2>3. QED
    BY <1>10, <2>1, <2>2, RowsChange DEF Issued, Expire
<1>11. ASSUME NEW S \in SUBSET Invites, CleanupExpiredInvites(S) PROVE Books'
  <2>1. \A i \in S : invite[i] \in InviteRow /\ Issued(i) /\ ~Used(i) /\ ~InviteHeld(i)
    BY <1>11, IssuedRows DEF CleanupExpiredInvites, Outdated
  <2>2. \A i \in S : /\ invite'[i].usedBy = invite[i].usedBy
                      /\ invite'[i].student = invite[i].student /\ invite'[i] # Unissued
    <3>1. ASSUME NEW i \in S
          PROVE  /\ invite'[i].usedBy = invite[i].usedBy
                 /\ invite'[i].student = invite[i].student /\ invite'[i] # Unissued
      <4>1. invite'[i] = [invite[i] EXCEPT !.deleted = TRUE]
        BY <1>11 DEF CleanupExpiredInvites
      <4>2. QED
        BY <2>1, <4>1, NobodyIsNone DEF InviteRow, Unissued
    <3>2. QED
      BY <3>1
  <2>3. \A i \in Invites \ S : invite'[i] = invite[i]
    BY <1>11 DEF CleanupExpiredInvites
  <2>4. QED
    BY <1>11, <2>1, <2>2, <2>3, RowsChange DEF CleanupExpiredInvites, Issued
<1>12. CASE FamiliesCrash
  <2>1. \A g \in Chores : chore'[g].step \notin {"accept", "revoke"}
    BY <1>12 DEF FamiliesCrash, Rested
  <2>2. QED
    BY <1>12, <2>1, NothingDecided DEF FamiliesCrash
<1>13. ASSUME \/ \E u \in Users, c \in Codes : GenerateCode(u, c)
              \/ \E c \in Codes : ExpireCode(c)
              \/ \E x \in Chats : Blocked(x)
              \/ \E u \in Users : SoftDelete(u)
       PROVE  Books'
  <2>1. UNCHANGED <<invite, link, overtaken, chore>>
    BY <1>13 DEF GenerateCode, ExpireCode, Blocked, SoftDelete
  <2>2. QED
    BY <2>1, NothingDecided
<1>14. ASSUME NEW h \in Chores, Admission(h) \/ Binding(h) PROVE Books'
  <2>1. CASE Admission(h)
    BY <1>2, <1>3, <1>4, <1>5, <2>1 DEF Admission
  <2>2. CASE Binding(h)
    <3>1. CASE Bind(h) \/ Unbind(h)
      BY <1>8, <3>1
    <3>2. CASE ~(Bind(h) \/ Unbind(h))
      BY <1>7, <2>2, <3>2 DEF Binding
    <3>3. QED
      BY <3>1, <3>2
  <2>3. QED
    BY <1>14, <2>1, <2>2
<1>15. QED
  BY <1>1, <1>9, <1>10, <1>11, <1>12, <1>13, <1>14 DEF FamiliesNext

-----------------------------------------------------------------------------
(* Families: the invariant, and what follows.                              *)

LEMMA FamiliesInitial == FamiliesInit => FamilyInv
<1> SUFFICES ASSUME FamiliesInit PROVE FamilyInv
  OBVIOUS
<1> USE DEF FamiliesInit
<1>1. FamiliesTypeOK
  BY DEF FamiliesTypeOK, Account, Chore
<1>2. InviteInv /\ EntryInv /\ InviteEndsOnce
  BY DEF InviteInv, EntryInv, InviteEndsOnce, Rested, Used, Issued
<1>3. QED
  BY <1>1, <1>2 DEF FamilyInv

LEMMA FamilyInvariance == FamiliesSpec => []FamilyInv
<1>1. FamilyInv /\ [FamiliesNext]_familyVars => FamilyInv'
  BY FamilyTypesKept, BooksKept DEF FamilyInv, Books
<1>2. QED
  BY FamiliesInitial, <1>1, PTL DEF FamiliesSpec

\* Every variable of Families keeps its type.
THEOREM FamiliesTypeCorrect == FamiliesSpec => []FamiliesTypeOK
<1>1. FamilyInv => FamiliesTypeOK
  BY DEF FamilyInv
<1>2. QED
  BY <1>1, FamilyInvariance, PTL

\* acceptInvite is the only way to a student, and each used invite admits exactly
\* the parent's account it names.
THEOREM EntryByInvite == FamiliesSpec => []AdmittedByInvite
<1>1. FamilyInv => AdmittedByInvite
  <2> SUFFICES ASSUME FamilyInv PROVE AdmittedByInvite
    OBVIOUS
  <2> DEFINE used == {<<invite[i].usedBy, invite[i].student>> : i \in {j \in Invites : Used(j)}}
  <2>1. link \subseteq used
    BY DEF FamilyInv, EntryInv
  <2>2. used \subseteq link
    BY DEF FamilyInv, EntryInv
  <2>3. \A pair \in link : pair[1] \in Chats
    BY DEF FamilyInv, EntryInv
  <2>4. QED
    BY <2>1, <2>2, <2>3 DEF AdmittedByInvite
<1>2. QED
  BY <1>1, FamilyInvariance, PTL

\* A used invite is never also revoked or cleaned up, unless the revocation had
\* read it before it was used.
THEOREM EndsOnce == FamiliesSpec => []InviteEndsOnce
<1>1. FamilyInv => InviteEndsOnce
  BY DEF FamilyInv
<1>2. QED
  BY <1>1, FamilyInvariance, PTL
=============================================================================
