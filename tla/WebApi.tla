------------------------------- MODULE WebApi -------------------------------
(***************************************************************************)
(* What the pages ask the API: the clients of features/*/api, method by    *)
(* method, and the hooks over them.                                        *)
(*                                                                         *)
(* A client is the operation each of its methods calls.  A query has a     *)
(* key, the operation it reads and whether what it read counts as fresh    *)
(* for a while (staleTime).  A mutation has the operation and the keys it  *)
(* invalidates when it succeeds; a key invalidates every key it begins.    *)
(* What follows the kind of query in a key, its parameters, is left out:   *)
(* no mutation names less than all the queries of a kind, save a detail,   *)
(* which no page asks for.                                                 *)
(***************************************************************************)
EXTENDS Endpoints, SequencesExt

attendanceApi == [list |-> <<"attendance", "list">>, bulkRecord |-> <<"attendance", "bulkRecord">>,
                  getStats |-> <<"attendance", "getStats">>]
auditApi == [list |-> <<"audit", "list">>]
\* A simulated payment is two calls of a gateway, of which this is the last.
billingApi ==
    [getStats |-> <<"billing", "getStats">>, getDebtors |-> <<"billing", "getDebtors">>,
     listPayments |-> <<"billing", "listPayments">>,
     recordPayment |-> <<"billing", "recordPayment">>,
     getPaymentLink |-> <<"gateways", "getPaymentLink">>,
     simulatePaymePayment |-> <<"gateways", "payme">>,
     simulateClickPayment |-> <<"gateways", "click">>]
classesApi ==
    [list |-> <<"classes", "list">>, get |-> <<"classes", "findById">>,
     create |-> <<"classes", "create">>, update |-> <<"classes", "update">>,
     remove |-> <<"classes", "remove">>, assignTeacher |-> <<"classes", "assignTeacher">>]
clubsApi ==
    [list |-> <<"clubs", "list">>, getStats |-> <<"clubs", "getStats">>,
     getById |-> <<"clubs", "getOne">>, create |-> <<"clubs", "create">>,
     update |-> <<"clubs", "update">>, archive |-> <<"clubs", "remove">>,
     enrollStudent |-> <<"clubs", "enroll">>, dropStudent |-> <<"clubs", "drop">>,
     recordAttendance |-> <<"clubs", "recordAttendance">>,
     getAttendance |-> <<"clubs", "getAttendance">>,
     checkConflict |-> <<"clubs", "checkConflict">>]
dashboardApi == [stats |-> <<"dashboard", "stats">>, recentActivity |-> <<"dashboard", "recent">>]
gradesApi == [list |-> <<"grades", "list">>, recordGrade |-> <<"grades", "recordGrade">>,
              getSummary |-> <<"grades", "getSummary">>]
leadsApi ==
    [list |-> <<"leads", "findAll">>, getStats |-> <<"leads", "getStats">>,
     getOne |-> <<"leads", "findOne">>, create |-> <<"leads", "create">>,
     updateStage |-> <<"leads", "updateStage">>,
     convertToStudent |-> <<"leads", "convertToStudent">>, delete |-> <<"leads", "delete">>]
\* It asks for a path, logs, that the controller does not have.
notificationsApi == [getLogs |-> <<"notifications", "logs">>,
                     sendBroadcast |-> <<"notifications", "sendBroadcast">>]
profileApi == [changePassword |-> <<"auth", "changePassword">>,
               generateTelegramLinkCode |-> <<"telegram", "linkCode">>,
               updateNotificationPrefs |-> <<"auth", "updatePrefs">>]
reportsApi == [attendance |-> <<"reports", "attendance">>, grades |-> <<"reports", "grades">>,
               finance |-> <<"reports", "finance">>]
roomsApi ==
    [list |-> <<"rooms", "list">>, getById |-> <<"rooms", "findById">>,
     create |-> <<"rooms", "create">>, update |-> <<"rooms", "update">>,
     remove |-> <<"rooms", "remove">>]
scheduleApi == [list |-> <<"schedule", "list">>]
studentsApi ==
    [list |-> <<"students", "list">>, get |-> <<"students", "findById">>,
     create |-> <<"students", "create">>, update |-> <<"students", "update">>,
     assignClass |-> <<"students", "assignClass">>, archive |-> <<"students", "archive">>,
     history |-> <<"students", "history">>, exportCsv |-> <<"students", "export">>]
subjectsApi ==
    [list |-> <<"subjects", "list">>, getById |-> <<"subjects", "findById">>,
     create |-> <<"subjects", "create">>, update |-> <<"subjects", "update">>,
     remove |-> <<"subjects", "remove">>]
teacherSelfApi == [myClass |-> <<"teachers", "myClass">>, myStudents |-> <<"teachers", "myStudents">>]
usersApi ==
    [list |-> <<"users", "list">>, get |-> <<"users", "findById">>,
     create |-> <<"users", "create">>, update |-> <<"users", "update">>,
     remove |-> <<"users", "remove">>, resetPassword |-> <<"users", "resetPassword">>]

-----------------------------------------------------------------------------
(* The queries.                                                            *)

Query(key, on, fresh) == [key |-> key, on |-> on, fresh |-> fresh]

useAttendanceQuery == Query(<<"attendance", "list">>, attendanceApi.list, FALSE)
useAuditLogsQuery == Query(<<"audit-logs", "list">>, auditApi.list, TRUE)
useBillingStatsQuery == Query(<<"billing", "stats">>, billingApi.getStats, TRUE)
useDebtorsQuery == Query(<<"billing", "debtors">>, billingApi.getDebtors, TRUE)
usePaymentsQuery == Query(<<"billing", "payments">>, billingApi.listPayments, TRUE)
useBranchesQuery == Query(<<"branches", "list">>, <<"branches", "findAll">>, FALSE)
useClassesQuery == Query(<<"classes", "list">>, classesApi.list, TRUE)
useDashboardStatsQuery == Query(<<"dashboard", "stats">>, dashboardApi.stats, TRUE)
useGradesSummaryQuery == Query(<<"grades", "summary">>, gradesApi.getSummary, FALSE)
useLeadsQuery == Query(<<"leads", "list">>, leadsApi.list, FALSE)
useLeadStatsQuery == Query(<<"leads", "stats">>, leadsApi.getStats, FALSE)
useNotificationLogsQuery == Query(<<"notifications", "logs">>, notificationsApi.getLogs, FALSE)
useAttendanceReportQuery == Query(<<"reports", "attendance">>, reportsApi.attendance, FALSE)
useGradesReportQuery == Query(<<"reports", "grades">>, reportsApi.grades, FALSE)
useFinanceReportQuery == Query(<<"reports", "finance">>, reportsApi.finance, FALSE)
useRoomsQuery == Query(<<"rooms", "list">>, roomsApi.list, FALSE)
useScheduleQuery == Query(<<"schedule", "list">>, scheduleApi.list, FALSE)
useStudentsQuery == Query(<<"students", "list">>, studentsApi.list, TRUE)
useSubjectsQuery == Query(<<"subjects", "list">>, subjectsApi.list, FALSE)
useMyClassQuery == Query(<<"teachers", "me", "class">>, teacherSelfApi.myClass, TRUE)
useMyStudentsQuery == Query(<<"teachers", "me", "students">>, teacherSelfApi.myStudents, TRUE)
useUsersQuery == Query(<<"users", "list">>, usersApi.list, TRUE)
useCurrentUserQuery == Query(<<"auth", "me">>, <<"auth", "me">>, TRUE)

-----------------------------------------------------------------------------
(* The mutations.                                                          *)

Mutation(on, keys) == [on |-> on, invalidates |-> keys]

useBulkAttendanceMutation == Mutation(attendanceApi.bulkRecord, {<<"attendance">>})
useRecordPaymentMutation == Mutation(billingApi.recordPayment, {<<"billing">>})
useCreateBranchMutation == Mutation(<<"branches", "create">>, {<<"branches">>})
useUpdateBranchMutation == Mutation(<<"branches", "update">>, {<<"branches">>})
useAssignTeacherMutation ==
    Mutation(classesApi.assignTeacher, {<<"classes", "list">>, <<"classes", "detail">>})
useCreateClassMutation == Mutation(classesApi.create, {<<"classes", "list">>})
useDeleteClassMutation == Mutation(classesApi.remove, {<<"classes", "list">>})
useRecordGradeMutation == Mutation(gradesApi.recordGrade, {<<"grades">>})
useCreateLeadMutation == Mutation(leadsApi.create, {<<"leads">>})
useUpdateLeadStageMutation == Mutation(leadsApi.updateStage, {<<"leads">>})
\* Its mutant forgets the students whom the conversion adds.
useConvertToStudentMutationAlone == Mutation(leadsApi.convertToStudent, {<<"leads">>, <<"dashboard">>})
useConvertToStudentMutation ==
    Mutation(leadsApi.convertToStudent, {<<"leads">>, <<"students">>, <<"dashboard">>})
useDeleteLeadMutation == Mutation(leadsApi.delete, {<<"leads">>})
useSendBroadcastMutation == Mutation(notificationsApi.sendBroadcast, {<<"notifications">>})
useChangePasswordMutation == Mutation(profileApi.changePassword, {})
useGenerateLinkCodeMutation == Mutation(profileApi.generateTelegramLinkCode, {})
useUpdateNotificationPrefsMutation ==
    Mutation(profileApi.updateNotificationPrefs, {<<"auth", "me">>})
useCreateRoomMutation == Mutation(roomsApi.create, {<<"rooms">>})
useDeleteRoomMutation == Mutation(roomsApi.remove, {<<"rooms">>})
useArchiveStudentMutation ==
    Mutation(studentsApi.archive, {<<"students", "list">>, <<"students", "detail">>})
useAssignClassMutation ==
    Mutation(studentsApi.assignClass,
             {<<"students", "list">>, <<"students", "detail">>, <<"students", "history">>})
useCreateStudentMutation == Mutation(studentsApi.create, {<<"students", "list">>})
useCreateSubjectMutation == Mutation(subjectsApi.create, {<<"subjects">>})
useDeleteSubjectMutation == Mutation(subjectsApi.remove, {<<"subjects">>})
useCreateUserMutation == Mutation(usersApi.create, {<<"users", "list">>})
useDeleteUserMutation == Mutation(usersApi.remove, {<<"users", "list">>})
useResetPasswordMutation ==
    Mutation(usersApi.resetPassword, {<<"users", "list">>, <<"users", "detail">>})

\* invalidateQueries goes by the beginning of the key.
Invalidates(mutation, query) == \E k \in mutation.invalidates : IsPrefix(k, query.key)
=============================================================================
