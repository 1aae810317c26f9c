----------------------------- MODULE Timetable -----------------------------
(***************************************************************************)
(* Lessons and their substitutions: ScheduleService and its tables.        *)
(*                                                                         *)
(* A lesson puts a class, a teacher and a room into a slot of the week.    *)
(* validateConflicts asks three questions, one after the other, about the  *)
(* lessons stored then; the save comes after them, with no constraint      *)
(* behind it.  A substitution holds a lesson and a date through a unique   *)
(* index that does not look at its status.                                 *)
(*                                                                         *)
(* update saves a lesson as getById read it, its relations included.  Of a *)
(* class, a teacher or a room changed by its id beside the relation that   *)
(* was loaded, TypeORM takes one: which one is left open, so a lesson that *)
(* an update gave another of them may or may not have it afterwards.  A    *)
(* substitution added since the read makes the save fail, as it cuts the   *)
(* row and original_entry_id is NOT NULL.                                  *)
(*                                                                         *)
(* Subjects, times and the dates a lesson is effective are left out: no    *)
(* question asks for them.                                                 *)
(***************************************************************************)
EXTENDS Naturals, Sequences

CONSTANTS
    Lessons,        \* the ids lessons get
    Slots,          \* days of the week and lesson numbers
    Groups, Teachers, Rooms,
    Plans,          \* the rows requests ask for
    Dates,
    Clerks          \* the requests that may be under way

ASSUME PlansAreRows ==
    Plans \subseteq [stored : {TRUE}, active : BOOLEAN, slot : Slots,
                    group : Groups, teacher : Teachers, room : Rooms]

VARIABLES
    lesson,         \* lesson[e]: its row, or Unset
    cover,          \* cover[e][d]: the substitution of e on d, or Uncovered
    clerk,          \* clerk[h]: how far request h has come
    raced,          \* the lessons saved after another save in their slot
                    \* that fell between their check and their save
    moved           \* the lessons an update gave another class, teacher or room

timetableVars == <<lesson, cover, clerk, raced, moved>>

-----------------------------------------------------------------------------
Unset == [stored |-> FALSE]
Deleted == [stored |-> FALSE, deleted |-> TRUE]
LessonRow == [stored : {TRUE}, active : BOOLEAN, slot : Slots,
              group : Groups, teacher : Teachers, room : Rooms]
Standing(e) == lesson[e].stored
Held(e) == Standing(e) /\ lesson[e].active

Uncovered == [status |-> "NONE"]
Cover == [status : {"CONFIRMED", "CANCELLED"}, teacher : Teachers]

Free == [step |-> "idle"]

TimetableInit ==
    /\ lesson = [e \in Lessons |-> Unset]
    /\ cover = [e \in Lessons |-> [d \in Dates |-> Uncovered]]
    /\ clerk = [h \in Clerks |-> Free]
    /\ raced = {}
    /\ moved = {}

\* The three questions of validateConflicts, in their order.  A definition whose
\* name adds a word to the one that follows it is a mutant of it.
QuestionsRepeated == <<"room", "teacher", "teacher">>
Questions == <<"room", "teacher", "group">>

\* Is what the row takes taken, by an active lesson other than e?
Taken(row, e, what) ==
    \E f \in Lessons \ {e} :
        Held(f) /\ lesson[f].slot = row.slot /\ lesson[f][what] = row[what]

\* A save in a slot is news to the requests that are checking that slot.
Tell(h, slot, j) ==
    clerk' = [g \in Clerks |->
                IF g = h THEN j
                ELSE IF clerk[g].step = "check" /\ clerk[g].row.slot = slot
                  THEN [clerk[g] EXCEPT !.late = TRUE] ELSE clerk[g]]

-----------------------------------------------------------------------------
\* create and update begin with the row that is to be.
CreateLesson(h, e, row) ==
    /\ clerk[h] = Free /\ lesson[e] = Unset
    /\ \A g \in Clerks : clerk[g] # Free => clerk[g].lesson # e
    /\ clerk' = [clerk EXCEPT ![h] =
         [step |-> "check", lesson |-> e, old |-> Unset, row |-> row, asked |-> 0,
          late |-> FALSE, fails |-> FALSE]]
    /\ UNCHANGED <<lesson, cover, raced, moved>>

UpdateLesson(h, e, row) ==
    /\ clerk[h] = Free /\ Standing(e) /\ row # lesson[e]
    /\ clerk' = [clerk EXCEPT ![h] =
         [step |-> "check", lesson |-> e, old |-> lesson[e], row |-> row, asked |-> 0,
          late |-> FALSE, fails |-> FALSE]]
    /\ UNCHANGED <<lesson, cover, raced, moved>>

Ask(h) ==
    LET j == clerk[h]
    IN  /\ j.step = "check" /\ j.asked < 3
        /\ clerk' = [clerk EXCEPT ![h] =
             IF Taken(j.row, j.lesson, Questions[j.asked + 1])
               THEN Free ELSE [j EXCEPT !.asked = @ + 1]]
        /\ UNCHANGED <<lesson, cover, raced, moved>>

SaveCreated(h) ==
    LET j == clerk[h]
        e == j.lesson
    IN  /\ j.step = "check" /\ j.asked = 3 /\ j.old = Unset
        /\ lesson' = [lesson EXCEPT ![e] = j.row]
        /\ raced' = IF j.late THEN raced \cup {e} ELSE raced
        /\ Tell(h, j.row.slot, Free)
        /\ UNCHANGED <<cover, moved>>

\* The save makes the row what the request holds, a lesson deleted since the
\* read included, and of the class, the teacher and the room what TypeORM takes.
SaveUpdated(h) ==
    LET j == clerk[h]
        e == j.lesson
        ids == {what \in {"group", "teacher", "room"} : j.row[what] # j.old[what]}
    IN  /\ j.step = "check" /\ j.asked = 3 /\ j.old # Unset
        /\ IF j.fails
             THEN clerk' = [clerk EXCEPT ![h] = Free] /\ UNCHANGED <<lesson, raced, moved>>
             ELSE \E kept \in SUBSET ids :
                    /\ lesson' = [lesson EXCEPT ![e] =
                         [what \in DOMAIN j.row |-> IF what \in kept THEN j.old[what]
                                                                     ELSE j.row[what]]]
                    /\ moved' = IF ids = {} THEN moved ELSE moved \cup {e}
                    /\ raced' = IF j.late \/ lesson[e] # j.old THEN raced \cup {e} ELSE raced
                    /\ Tell(h, j.row.slot, Free)
        /\ UNCHANGED cover

DeleteLesson(e) ==
    /\ Standing(e)
    /\ lesson' = [lesson EXCEPT ![e] = Deleted]
    /\ UNCHANGED <<cover, clerk, raced, moved>>

-----------------------------------------------------------------------------
\* createSubstitution: only a confirmed one is refused by the question.
CoverRead(h, e, d, t) ==
    /\ clerk[h] = Free /\ Standing(e)
    /\ cover[e][d].status # "CONFIRMED"
    /\ clerk' = [clerk EXCEPT ![h] =
         [step |-> "cover", lesson |-> e, date |-> d, teacher |-> t]]
    /\ UNCHANGED <<lesson, cover, raced, moved>>

\* The insert fails on a row of the lesson and the date, cancelled or not.
CoverInsertOver(h) ==
    LET j == clerk[h]
    IN  /\ j.step = "cover"
        /\ cover' = [cover EXCEPT ![j.lesson][j.date] =
             IF @.status = "CONFIRMED" THEN @
             ELSE [status |-> "CONFIRMED", teacher |-> j.teacher]]
        /\ clerk' = [clerk EXCEPT ![h] = Free]
        /\ UNCHANGED <<lesson, raced, moved>>
CoverInsert(h) ==
    LET j == clerk[h]
        e == j.lesson
    IN  /\ j.step = "cover"
        /\ IF cover[e][j.date] # Uncovered
             THEN UNCHANGED cover /\ clerk' = [clerk EXCEPT ![h] = Free]
             ELSE /\ cover' = [cover EXCEPT ![e][j.date] =
                       [status |-> "CONFIRMED", teacher |-> j.teacher]]
                  /\ clerk' = [g \in Clerks |->
                       IF g = h THEN Free
                       ELSE IF clerk[g].step = "check" /\ clerk[g].lesson = e
                         THEN [clerk[g] EXCEPT !.fails = TRUE] ELSE clerk[g]]
        /\ UNCHANGED <<lesson, raced, moved>>

CancelCover(e, d) ==
    /\ cover[e][d] # Uncovered
    /\ cover' = [cover EXCEPT ![e][d].status = "CANCELLED"]
    /\ UNCHANGED <<lesson, clerk, raced, moved>>

TimetableNext ==
    \/ \E h \in Clerks, e \in Lessons :
         \/ \E row \in Plans : CreateLesson(h, e, row) \/ UpdateLesson(h, e, row)
         \/ \E d \in Dates, t \in Teachers : CoverRead(h, e, d, t)
    \/ \E h \in Clerks : Ask(h) \/ SaveCreated(h) \/ SaveUpdated(h) \/ CoverInsert(h)
    \/ \E e \in Lessons : DeleteLesson(e) \/ \E d \in Dates : CancelCover(e, d)

TimetableSpec == TimetableInit /\ [][TimetableNext]_timetableVars

-----------------------------------------------------------------------------
(* Properties.                                                             *)

TimetableTypeOK ==
    /\ lesson \in [Lessons -> LessonRow \cup {Unset, Deleted}]
    /\ cover \in [Lessons -> [Dates -> Cover \cup {Uncovered}]]
    /\ raced \subseteq Lessons
    /\ moved \subseteq Lessons

\* Two active lessons of one slot share neither room, nor teacher, nor class,
\* unless one of them was saved after a save its check had not seen, or was
\* given another of the three by an update.
NoDoubleBooking ==
    \A e, f \in Lessons :
        e # f /\ Held(e) /\ Held(f) /\ lesson[e].slot = lesson[f].slot =>
            \/ {e, f} \cap (raced \cup moved) # {}
            \/ \A what \in {"room", "teacher", "group"} : lesson[e][what] # lesson[f][what]

\* A lesson is covered on a date once: the teacher who covered it, the lesson
\* taken back or not, is never followed by another, whatever overlaps.
CoveredOnce ==
    [][\A e \in Lessons, d \in Dates : cover[e][d] # Uncovered =>
         /\ cover'[e][d] # Uncovered /\ cover'[e][d].teacher = cover[e][d].teacher
         /\ cover[e][d].status = "CANCELLED" => cover'[e][d].status = "CANCELLED"]_timetableVars
=============================================================================
