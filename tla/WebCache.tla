------------------------------ MODULE WebCache ------------------------------
(***************************************************************************)
(* One query of the web client's cache and one change made by the same     *)
(* person: whether what is shown after the change takes it into account.   *)
(*                                                                         *)
(* A query is shown from the cache when what is there is fresh and has not *)
(* been invalidated, and loaded when it is not.  A change that succeeds    *)
(* invalidates the queries its hook names (WebApi): one that is shown is   *)
(* loaded once more, in the place of a load under way if there is          *)
(* something to show meanwhile; of the others it is only noted, until the  *)
(* next answer.  A load that nobody waits for any more goes on.  A change  *)
(* is sent from a page that offers it (WebPages), and that page may be     *)
(* left before the answer.                                                 *)
(*                                                                         *)
(* Which tables a query reads and a change writes is taken from the        *)
(* services.  Names that a row takes from another table are left out, so   *)
(* are the journal, which the bus writes later, and the pages that keep    *)
(* what they read to themselves (the clubs).                               *)
(***************************************************************************)
EXTENDS WebPages

VARIABLES
    pair,       \* the query and the change
    mounted,    \* the query is on the page
    entry,      \* what the cache holds of the query
    load,       \* the load under way: nothing read yet, or whether it saw the change
    change,     \* how far the change has come
    behind      \* a load failed, or read too early and was not repeated, or the page of the
                \* change was left before its answer

cacheVars == <<pair, mounted, entry, load, change, behind>>

-----------------------------------------------------------------------------
Reading(query, tables) == [query |-> query, reads |-> tables]
Queries ==
    [attendance |-> Reading(useAttendanceQuery, {"attendance"}),
     billingStats |-> Reading(useBillingStatsQuery, {"payments", "students"}),
     debtors |-> Reading(useDebtorsQuery, {"payments", "students"}),
     payments |-> Reading(usePaymentsQuery, {"payments"}),
     branches |-> Reading(useBranchesQuery, {"branches"}),
     classes |-> Reading(useClassesQuery, {"classes"}),
     dashboard |-> Reading(useDashboardStatsQuery,
                           {"students", "classes", "users", "attendance", "payments"}),
     gradesSummary |-> Reading(useGradesSummaryQuery, {"grades"}),
     leads |-> Reading(useLeadsQuery, {"leads"}),
     leadStats |-> Reading(useLeadStatsQuery, {"leads"}),
     attendanceReport |-> Reading(useAttendanceReportQuery, {"attendance", "classes", "students"}),
     gradesReport |-> Reading(useGradesReportQuery, {"grades"}),
     financeReport |-> Reading(useFinanceReportQuery, {"payments", "students"}),
     rooms |-> Reading(useRoomsQuery, {"rooms"}),
     schedule |-> Reading(useScheduleQuery, {"schedule"}),
     students |-> Reading(useStudentsQuery, {"students"}),
     subjects |-> Reading(useSubjectsQuery, {"subjects"}),
     myClass |-> Reading(useMyClassQuery, {"classes"}),
     myStudents |-> Reading(useMyStudentsQuery, {"students"}),
     users |-> Reading(useUsersQuery, {"users"}),
     currentUser |-> Reading(useCurrentUserQuery, {"preferences"})]

Writing(mutation, tables) == [mutation |-> mutation, writes |-> tables]
Mutations ==
    [bulkAttendance |-> Writing(useBulkAttendanceMutation, {"attendance"}),
     recordPayment |-> Writing(useRecordPaymentMutation, {"payments"}),
     payByLink |-> Writing(PaymentLinkModal.mutation, {"payments"}),
     createBranch |-> Writing(useCreateBranchMutation, {"branches"}),
     updateBranch |-> Writing(useUpdateBranchMutation, {"branches"}),
     assignTeacher |-> Writing(useAssignTeacherMutation, {"classes"}),
     createClass |-> Writing(useCreateClassMutation, {"classes"}),
     deleteClass |-> Writing(useDeleteClassMutation, {"classes"}),
     recordGrade |-> Writing(useRecordGradeMutation, {"grades"}),
     createLead |-> Writing(useCreateLeadMutation, {"leads"}),
     updateLeadStage |-> Writing(useUpdateLeadStageMutation, {"leads"}),
     convertToStudent |-> Writing(useConvertToStudentMutation, {"leads", "students"}),
     deleteLead |-> Writing(useDeleteLeadMutation, {"leads"}),
     updatePrefs |-> Writing(useUpdateNotificationPrefsMutation, {"preferences"}),
     createRoom |-> Writing(useCreateRoomMutation, {"rooms"}),
     deleteRoom |-> Writing(useDeleteRoomMutation, {"rooms"}),
     archiveStudent |-> Writing(useArchiveStudentMutation, {"students"}),
     assignClass |-> Writing(useAssignClassMutation, {"students"}),
     createStudent |-> Writing(useCreateStudentMutation, {"students"}),
     createSubject |-> Writing(useCreateSubjectMutation, {"subjects"}),
     deleteSubject |-> Writing(useDeleteSubjectMutation, {"subjects"}),
     createUser |-> Writing(useCreateUserMutation, {"users"}),
     deleteUser |-> Writing(useDeleteUserMutation, {"users"})]

Pairs ==
    {p \in (DOMAIN Queries) \X (DOMAIN Mutations) :
       Queries[p[1]].reads \cap Mutations[p[2]].writes # {}}

\* The changes a page offers, itself or in a dialog.
ChangesOf(offers) ==
    {Deeds[o.what] : o \in {x \in offers : x.what \in DOMAIN Deeds}}
    \cup {Dialogs[o.what].mutation : o \in {x \in offers : x.what \in DOMAIN Dialogs}}
Opened(offers) ==
    offers \cup UNION {Dialogs[o.what].offers : o \in {x \in offers : x.what \in DOMAIN Dialogs}}
\* A page that shows the query and offers the change.
Together ==
    {p \in Pairs : \E r \in RoleNames, path \in Paths :
       LET page == PageAt(r, path)
       IN  /\ \E n \in DOMAIN page.loads : page.loads[n].query = Queries[p[1]].query
           /\ Mutations[p[2]].mutation \in ChangesOf(Opened(page.offers))}

Told == Invalidates(Mutations[pair[2]].mutation, Queries[pair[1]].query)
Fresh == Queries[pair[1]].query.fresh
NoLoad == [step |-> "none"]
Asked == [step |-> "asked"]
Made == change \in {"entered", "done"}

CacheInit ==
    /\ pair \in Pairs
    /\ mounted = FALSE /\ load = NoLoad /\ change = "none" /\ behind = FALSE
    /\ entry = [has |-> FALSE, sees |-> FALSE, valid |-> FALSE, fresh |-> FALSE]

-----------------------------------------------------------------------------
Mount ==
    /\ ~mounted /\ mounted' = TRUE
    /\ load' = IF load # NoLoad \/ (entry.valid /\ entry.fresh) THEN load ELSE Asked
    /\ UNCHANGED <<pair, entry, change, behind>>

Unmount ==
    /\ mounted /\ mounted' = FALSE
    /\ UNCHANGED <<pair, entry, load, change, behind>>

Age ==
    /\ entry.fresh /\ entry' = [entry EXCEPT !.fresh = FALSE]
    /\ UNCHANGED <<pair, mounted, load, change, behind>>

LoadRead ==
    /\ load = Asked
    /\ load' = [step |-> "read", sees |-> Made]
    /\ UNCHANGED <<pair, mounted, entry, change, behind>>

\* An answer ends an invalidation that came before it.
LoadEnds(ok) ==
    /\ load.step = "read" /\ load' = NoLoad
    /\ IF ok THEN /\ entry' = [has |-> TRUE, sees |-> load.sees, valid |-> TRUE, fresh |-> Fresh]
                  /\ behind' = (behind /\ ~load.sees)
       ELSE behind' = TRUE /\ UNCHANGED entry
    /\ UNCHANGED <<pair, mounted, change>>

ChangeSent ==
    /\ change = "none" /\ change' = "sent"
    /\ mounted => pair \in Together
    /\ UNCHANGED <<pair, mounted, entry, load, behind>>
ChangeEntered ==
    /\ change = "sent" /\ change' = "entered"
    /\ UNCHANGED <<pair, mounted, entry, load, behind>>

ChangeFails ==
    /\ change \in {"sent", "entered"} /\ change' = "failed"
    /\ UNCHANGED <<pair, mounted, entry, load, behind>>

\* onSuccess of the hook.  A load goes on where nothing is shown yet, and where
\* the query is not on the page.
ChangeDone ==
    LET again == Told /\ mounted /\ (load = NoLoad \/ entry.has)
        early == load.step = "read" /\ ~load.sees
        elsewhere == ~Told /\ mounted /\ pair \notin Together
    IN  /\ change = "entered" /\ change' = "done"
        /\ load' = IF again THEN Asked ELSE load
        /\ entry' = IF Told THEN [entry EXCEPT !.valid = FALSE] ELSE entry
        /\ behind' = (behind \/ (~again /\ early) \/ elsewhere)
        /\ UNCHANGED <<pair, mounted>>

CacheNext ==
    \/ Mount \/ Unmount \/ Age
    \/ LoadRead \/ \E ok \in BOOLEAN : LoadEnds(ok)
    \/ ChangeSent \/ ChangeEntered \/ ChangeFails \/ ChangeDone

CacheSpec == CacheInit /\ [][CacheNext]_cacheVars

-----------------------------------------------------------------------------
(* Properties.                                                             *)

CacheEntry == [has : BOOLEAN, sees : BOOLEAN, valid : BOOLEAN, fresh : BOOLEAN]
LoadUnderWay == {NoLoad, Asked} \cup [step : {"read"}, sees : BOOLEAN]

\* A query and a change that share a table; whether the query is shown, what the
\* cache holds of it, the load under way, how far the change has come.
CacheTypeOK ==
    /\ pair \in Pairs /\ mounted \in BOOLEAN /\ entry \in CacheEntry /\ load \in LoadUnderWay
    /\ change \in {"none", "sent", "entered", "failed", "done"} /\ behind \in BOOLEAN

StudentChanges == {"archiveStudent", "assignClass", "createStudent", "convertToStudent"}
ClassChanges == {"assignTeacher", "createClass", "deleteClass"}

\* The queries that are fresh for a while and not told of a change they depend on:
\* most of what the dashboard counts, the debts of students who come or go, and
\* what a teacher sees of his class.
Unheard ==
    {"dashboard"} \X (DOMAIN Mutations \ {"convertToStudent"})
    \cup {"billingStats", "debtors"} \X StudentChanges
    \cup {"myStudents"} \X StudentChanges \cup {"myClass"} \X ClassChanges

\* What is shown after one's own change succeeded takes it into account once no
\* load of it is under way: save for the queries listed, a load that failed, one
\* that had read already and was not repeated, and a page that was gone to before
\* the answer came.
OwnChangeShows ==
    mounted /\ change = "done" /\ load = NoLoad /\ entry.has =>
        entry.sees \/ behind \/ pair \in Unheard
=============================================================================
