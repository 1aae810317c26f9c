----------------------------- MODULE Registers -----------------------------
(***************************************************************************)
(* The registers of one day: AttendanceService.bulkRecord, and its twin    *)
(* ClubsService.recordAttendance.                                          *)
(*                                                                         *)
(* A sheet is a sequence of marks.  They are entered one after the other,  *)
(* outside any transaction: find the record, change it or make a new one,  *)
(* save it, and in the school's register publish an absence or lateness    *)
(* for the parents, errors swallowed.  A save of a record that was found   *)
(* reads the row once more and updates the columns that differ from it.  A *)
(* new record is inserted, and refused by the unique index of student and  *)
(* date if there is one by then: the rest of the sheet is not entered.     *)
(*                                                                         *)
(* Remarks, dates and classes are left out: the index, and the question    *)
(* for a record, name the student and the date alone.                      *)
(***************************************************************************)
EXTENDS Naturals, Sequences, FiniteSets, SequencesExt

CONSTANTS
    Children,
    Markers,        \* who enters sheets, each one sheet at a time
    MaxSheets,      \* bound: how many sheets there are
    Untouched

ASSUME ChildrenAreFinite == IsFiniteSet(Children)
ASSUME SheetsAreCounted == MaxSheets \in Nat

VARIABLES
    register,       \* which register it is: the school's or a club's
    mark,           \* mark[s]: the record of s, or Untouched
    sheet,          \* sheet[m]: how far the sheet of m has come
    said,           \* said[m]: the marks m has ever entered on a sheet
    told,           \* told[s]: the statuses published of s
    unpublished,    \* the children of whom a publish failed or did not happen
    torn,           \* the records updated while another update fell between
                    \* the second read and the write
    sheets          \* how many sheets there were

registerVars == <<register, mark, sheet, said, told, unpublished, torn, sheets>>

-----------------------------------------------------------------------------
Statuses == {"PRESENT", "ABSENT"}
Notable == {"ABSENT"}
Record == [status : Statuses, by : Markers]

ASSUME UntouchedIsNoRecord == Untouched \notin Record

Away == [step |-> "idle"]
At(m, step) == sheet[m].step = step
Line(m) == Head(sheet[m].lines)

\* The sheet after its first line: entered, or gone on with.
Rest(m) == IF Len(sheet[m].lines) = 1 THEN Away
           ELSE [step |-> "find", lines |-> Tail(sheet[m].lines)]

RegistersInit ==
    /\ register \in {"school", "club"}
    /\ mark = [s \in Children |-> Untouched]
    /\ sheet = [m \in Markers |-> Away]
    /\ said = [m \in Markers |-> {}]
    /\ told = [s \in Children |-> {}]
    /\ unpublished = {}
    /\ torn = {}
    /\ sheets = 0

-----------------------------------------------------------------------------
\* A sheet has a line or several, each child at most once.
Submit(m, lines) ==
    /\ At(m, "idle") /\ sheets < MaxSheets
    /\ sheets' = sheets + 1
    /\ sheet' = [sheet EXCEPT ![m] = [step |-> "find", lines |-> lines]]
    /\ said' = [said EXCEPT ![m] = @ \cup ToSet(lines)]
    /\ UNCHANGED <<register, mark, told, unpublished, torn>>

\* findOne: the record that is to be, made from the one there was or new.
Find(m) ==
    /\ At(m, "find")
    /\ sheet' = [sheet EXCEPT ![m] =
         [step |-> IF mark[Line(m).child] = Untouched THEN "insert" ELSE "reload",
          lines |-> @.lines, entity |-> [status |-> Line(m).status, by |-> m]]]
    /\ UNCHANGED <<register, mark, said, told, unpublished, torn, sheets>>

\* What follows a save: the publish of a notable mark in the school's register,
\* which succeeds, or fails and is not spoken of.
Published(m, s, status) ==
    IF register = "school" /\ status \in Notable
      THEN \/ told' = [told EXCEPT ![s] = @ \cup {status}] /\ UNCHANGED unpublished
           \/ unpublished' = unpublished \cup {s} /\ UNCHANGED told
      ELSE UNCHANGED <<told, unpublished>>

InsertUnnoticed(m) ==
    LET s == Line(m).child
    IN  /\ At(m, "insert") /\ mark[s] = Untouched
        /\ mark' = [mark EXCEPT ![s] = sheet[m].entity]
        /\ sheet' = [sheet EXCEPT ![m] = Rest(m)]
        /\ UNCHANGED <<register, said, told, unpublished, torn, sheets>>
Insert(m) ==
    LET s == Line(m).child
    IN  /\ At(m, "insert")
        /\ IF mark[s] = Untouched
             THEN /\ mark' = [mark EXCEPT ![s] = sheet[m].entity]
                  /\ sheet' = [sheet EXCEPT ![m] = [step |-> "publish", lines |-> @.lines]]
             ELSE UNCHANGED mark /\ sheet' = [sheet EXCEPT ![m] = Away]
        /\ UNCHANGED <<register, said, told, unpublished, torn, sheets>>

Reload(m) ==
    /\ At(m, "reload")
    /\ sheet' = [sheet EXCEPT ![m] =
         [step |-> "write", lines |-> @.lines, entity |-> @.entity,
          seen |-> mark[Line(m).child], late |-> FALSE]]
    /\ UNCHANGED <<register, mark, said, told, unpublished, torn, sheets>>

\* The columns in which the entity differs from what was read last.
WriteUnsigned(m) ==
    LET s == Line(m).child
        j == sheet[m]
    IN  /\ At(m, "write")
        /\ mark' = [mark EXCEPT ![s] = [@ EXCEPT !.status = j.entity.status]]
        /\ sheet' = [sheet EXCEPT ![m] = [step |-> "publish", lines |-> @.lines]]
        /\ UNCHANGED <<register, said, told, unpublished, torn, sheets>>
Write(m) ==
    LET s == Line(m).child
        j == sheet[m]
    IN  /\ At(m, "write")
        /\ mark' = [mark EXCEPT ![s] =
             [f \in DOMAIN @ |-> IF j.entity[f] # j.seen[f] THEN j.entity[f] ELSE @[f]]]
        /\ torn' = IF j.late THEN torn \cup {s} ELSE torn
        /\ sheet' = [g \in Markers |->
             IF g = m THEN [step |-> "publish", lines |-> j.lines]
             ELSE IF At(g, "write") /\ Line(g).child = s
               THEN [sheet[g] EXCEPT !.late = TRUE] ELSE sheet[g]]
        /\ UNCHANGED <<register, said, told, unpublished, sheets>>

Publish(m) ==
    /\ At(m, "publish")
    /\ Published(m, Line(m).child, Line(m).status)
    /\ sheet' = [sheet EXCEPT ![m] = Rest(m)]
    /\ UNCHANGED <<register, mark, said, torn, sheets>>

\* The process stops, and the rest of the sheet is not entered.
Stop(m) ==
    /\ ~At(m, "idle")
    /\ sheet' = [sheet EXCEPT ![m] = Away]
    /\ unpublished' = IF At(m, "publish") THEN unpublished \cup {Line(m).child} ELSE unpublished
    /\ UNCHANGED <<register, mark, said, told, torn, sheets>>

Sheets ==
    {q \in UNION {[1..n -> [child : Children, status : Statuses]] : n \in 1..Cardinality(Children)} :
       \A i, j \in DOMAIN q : i # j => q[i].child # q[j].child}

RegistersNext ==
    \E m \in Markers :
        \/ \E lines \in Sheets : Submit(m, lines)
        \/ Find(m) \/ Insert(m) \/ Reload(m) \/ Write(m) \/ Publish(m) \/ Stop(m)

RegistersSpec == RegistersInit /\ [][RegistersNext]_registerVars

-----------------------------------------------------------------------------
(* Properties.                                                             *)

RegistersTypeOK ==
    /\ register \in {"school", "club"}
    /\ mark \in [Children -> Record \cup {Untouched}]
    /\ told \in [Children -> SUBSET Notable]
    /\ unpublished \subseteq Children /\ torn \subseteq Children
    /\ sheets \in 0..MaxSheets

\* A mark is one that the person it is signed by entered, unless two updates
\* of it crossed between the second read of the row and the write.
SignedByItsAuthor ==
    \A s \in Children : mark[s] # Untouched =>
        s \in torn \/ [child |-> s, status |-> mark[s].status] \in said[mark[s].by]

\* An absence that stands in the school's register was published, or is about
\* to be, unless a publish about the child failed: a sheet refused halfway does
\* not hide the absences it has entered.
AbsenceIsTold ==
    register = "school" =>
        \A s \in Children : mark[s] # Untouched /\ mark[s].status \in Notable =>
            \/ mark[s].status \in told[s] \/ s \in unpublished
            \/ \E m \in Markers : At(m, "publish") /\ Line(m).child = s
=============================================================================
