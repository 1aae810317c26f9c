----------------------------- MODULE WebDialogs -----------------------------
(***************************************************************************)
(* The dialogs of the pages, the forms in them and the rows and cards that *)
(* open them.                                                              *)
(*                                                                         *)
(* Every dialog can be closed while its request is under way, by its cross,*)
(* its backdrop or Escape.  What differs is what then remains: whether the *)
(* next opening waits for that request (waits), whether it finds what was  *)
(* typed before (form: cleared when the dialog closes, by a success alone, *)
(* or never), and what the answer does when it comes (ends: a success, or  *)
(* any answer, closes whatever dialog of the kind is open; it leaves a     *)
(* password to be shown; or the dialog stays).                             *)
(***************************************************************************)
EXTENDS WebApi, TLC

\* asks[q]: what a load asks; after: the loads whose rows it needs.
Load(query, asks, limit, after) ==
    [query |-> query, call |-> Call(query.on, asks, limit), after |-> after]
\* A load with a call of its own, outside the query cache.
Fetch(on, asks, limit, after) == Load(Query(<<>>, on, FALSE), asks, limit, after)

NoLoads == [n \in {} |-> 0]

\* What is offered, on the rows of which loads.
Offer(what, rows) == [what |-> what, rows |-> rows]

Dialog(mutation, form, ends, waits) ==
    [mutation |-> mutation, form |-> form, ends |-> ends, waits |-> waits, loads |-> NoLoads,
     offers |-> {}]
Plain(on) == Mutation(on, {})

-----------------------------------------------------------------------------
\* Kept mounted, and reset when it is not open.
ArchiveStudentDialog == Dialog(useArchiveStudentMutation, "cleared", "closes", FALSE)
AssignClassDialog == Dialog(useAssignClassMutation, "cleared", "closes", FALSE)
\* Reset by its own close().
CreateStudentDialog == Dialog(useCreateStudentMutation, "cleared", "closes", FALSE)
CreateClassDialog == Dialog(useCreateClassMutation, "cleared", "closes", FALSE)
CreateRoomDialog == Dialog(useCreateRoomMutation, "cleared", "closes", FALSE)
CreateSubjectDialog == Dialog(useCreateSubjectMutation, "cleared", "closes", FALSE)
CreateUserDialog == Dialog(useCreateUserMutation, "cleared", "secret", FALSE)
\* Its mutant does not reset the password that it showed.
ResetPasswordDialogKept == Dialog(useResetPasswordMutation, "kept", "secret", FALSE)
ResetPasswordDialog == Dialog(useResetPasswordMutation, "cleared", "secret", FALSE)

\* ConfirmDialog, over a mutation of the table, or of a page that overlooks a
\* failure.
ConfirmDialog(mutation, ends) == Dialog(mutation, "cleared", ends, TRUE)

\* Forms over a mutation of the page.
CreateLeadModal == Dialog(useCreateLeadMutation, "by success", "closes", TRUE)
ConvertLeadModal == Dialog(useConvertToStudentMutation, "kept", "closes", TRUE)
RecordPaymentModal == Dialog(useRecordPaymentMutation, "kept", "closes", TRUE)
SendBroadcastModal == Dialog(useSendBroadcastMutation, "by success", "closes", TRUE)

\* Mounted anew by each opening.  A branch is created, or updated.
CreateBranchModal == Dialog(useCreateBranchMutation, "cleared", "closes", FALSE)
EditBranchModal == Dialog(useUpdateBranchMutation, "cleared", "closes", FALSE)
CreateClubModal == Dialog(Plain(clubsApi.create), "cleared", "closes", FALSE)
EnrollStudentModal ==
    [Dialog(Plain(clubsApi.enrollStudent), "cleared", "closes", FALSE) EXCEPT
        !.loads = [pupils |-> Fetch(studentsApi.list, {"limit"}, 150, {})],
        !.offers = {Offer("submit", {"pupils"})}]
PaymentLinkModal ==
    [Dialog(Mutation(billingApi.simulateClickPayment, {<<"billing">>}), "cleared", "stays", FALSE)
        EXCEPT !.loads = [links |-> Fetch(billingApi.getPaymentLink, {"studentCode", "amount"}, 0,
                                          {})]]

\* The tabs of a student load when they are chosen.
StudentProfileModal ==
    [Dialog(Plain(<<>>), "cleared", "stays", FALSE) EXCEPT
        !.loads = [pupilMarks |-> Load(Query(<<"attendance", "stats">>, attendanceApi.getStats,
                                             FALSE), {}, 0, {}),
                   pupilGrades |-> Load(Query(<<"grades", "student">>, gradesApi.list, FALSE),
                                   {"studentId"}, 0, {}),
                   pupilFees |-> Load(Query(<<"billing", "payments">>, billingApi.listPayments,
                                          FALSE), {"studentId"}, 0, {})],
        !.offers = {Offer("assignClass", {})}]

\* The tabs of a club: its students, its timetable, a day's marks, the fees.
ClubStudentsTab == {Offer("enrollStudent", {}), Offer("dropStudent", {})}
ClubAttendanceTab == {Offer("markClub", {})}
ClubDetailsModal ==
    [Dialog(Plain(<<>>), "cleared", "stays", FALSE) EXCEPT
        !.loads = [club |-> Fetch(clubsApi.getById, {}, 0, {}),
                   marks |-> Fetch(clubsApi.getAttendance, {"date"}, 0, {})],
        !.offers = ClubStudentsTab \cup ClubAttendanceTab]

Dialogs ==
    [archiveStudent |-> ArchiveStudentDialog, assignClass |-> AssignClassDialog,
     createStudent |-> CreateStudentDialog, studentProfile |-> StudentProfileModal,
     createClass |-> CreateClassDialog,
     deleteClass |-> ConfirmDialog(useDeleteClassMutation, "always closes"),
     createRoom |-> CreateRoomDialog, deleteRoom |-> ConfirmDialog(useDeleteRoomMutation, "closes"),
     createSubject |-> CreateSubjectDialog,
     deleteSubject |-> ConfirmDialog(useDeleteSubjectMutation, "closes"),
     createUser |-> CreateUserDialog, resetPassword |-> ResetPasswordDialog,
     deleteUser |-> ConfirmDialog(useDeleteUserMutation, "always closes"),
     createLead |-> CreateLeadModal, convertLead |-> ConvertLeadModal,
     recordPayment |-> RecordPaymentModal, paymentLink |-> PaymentLinkModal,
     sendBroadcast |-> SendBroadcastModal,
     createBranch |-> CreateBranchModal, editBranch |-> EditBranchModal,
     createClub |-> CreateClubModal, enrollStudent |-> EnrollStudentModal,
     clubDetails |-> ClubDetailsModal]

\* What is done with no dialog: a card that is dragged or removed, a row that
\* is dropped, a file, a sheet that is saved, a form of the page itself.
Deeds ==
    [moveLead |-> useUpdateLeadStageMutation, deleteLead |-> useDeleteLeadMutation,
     dropStudent |-> Plain(clubsApi.dropStudent), markClub |-> Plain(clubsApi.recordAttendance),
     exportStudents |-> Plain(studentsApi.exportCsv),
     saveAttendance |-> useBulkAttendanceMutation, recordGrade |-> useRecordGradeMutation,
     changePassword |-> useChangePasswordMutation, linkTelegram |-> useGenerateLinkCodeMutation,
     savePreferences |-> useUpdateNotificationPrefsMutation]

-----------------------------------------------------------------------------
(* The tables and cards: what a row offers.                                *)

StudentsTable(rows) ==
    {Offer("studentProfile", rows), Offer("assignClass", rows), Offer("archiveStudent", rows)}
UsersTable(rows) == {Offer("resetPassword", rows), Offer("deleteUser", rows)}
ClassesTable(rows) == {Offer("deleteClass", rows)}
RoomsTable(canManage, rows) ==
    IF canManage THEN {Offer("createRoom", rows), Offer("deleteRoom", rows)} ELSE {}
SubjectsTable(canManage, rows) ==
    IF canManage THEN {Offer("createSubject", rows), Offer("deleteSubject", rows)} ELSE {}
BranchesTable(rows) == {Offer("createBranch", {}), Offer("editBranch", rows)}
LeadCard(rows) == {Offer("convertLead", rows), Offer("deleteLead", rows)}
LeadKanbanBoard(rows) == LeadCard(rows) \cup {Offer("moveLead", rows)}
DebtorsTable(rows) == {Offer("recordPayment", rows), Offer("paymentLink", rows)}
PaymentsTable(rows) == {}
NotificationLogsTable(rows) == {}
WeeklyScheduleGrid(rows) == {}
ClubCard(rows) == {Offer("enrollStudent", rows), Offer("clubDetails", rows)}
AttendanceSheet(rows) == {Offer("saveAttendance", rows)}
GradesSheet(rows) == {Offer("recordGrade", rows)}
ChangePasswordForm == {Offer("changePassword", {})}
TelegramLinkCard == {Offer("linkTelegram", {})}
NotificationPreferencesCard == {Offer("savePreferences", {})}
=============================================================================
