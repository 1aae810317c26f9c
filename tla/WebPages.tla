------------------------------ MODULE WebPages ------------------------------
(***************************************************************************)
(* The pages of the web client: the routes that lead to them and the roles *)
(* these turn away, the menus of the shell, and for each page what it      *)
(* loads, what it offers and where it leads.                               *)
(*                                                                         *)
(* A page is a record of its loads, by name, of its offers, and of the     *)
(* paths it links to.  What is offered in a row or a card names the loads  *)
(* whose rows these are.  A filter is a field of what a load asks; which   *)
(* value it has is left out.                                               *)
(***************************************************************************)
EXTENDS WebDialogs

-----------------------------------------------------------------------------
(* The router: where each route sends the roles that it turns away.        *)

Route(path, away) == [path |-> path, away |-> away]
Away(roles, path) == [r \in roles |-> path]

\* AuthenticatedShell: nobody gets past it without a session.
authLayoutRoute(path, away) == Route(path, away @@ Away({Guest}, "/login"))
MyClassFirst(path) == authLayoutRoute(path, Away({"TEACHER"}, "/my-class"))
AnyoneIn(path) == authLayoutRoute(path, Away({}, path))

loginRoute == Route("/login", Away({}, ""))
telegramLoginRoute == Route("/login/telegram", Away({}, ""))
inviteRoute == Route("/invite", Away({}, ""))
dashboardRoute == AnyoneIn("/")
usersRoute == MyClassFirst("/users")
classesRoute == MyClassFirst("/classes")
studentsRoute == MyClassFirst("/students")
clubsRoute == AnyoneIn("/clubs")
myClassRoute == AnyoneIn("/my-class")
subjectsRoute == MyClassFirst("/subjects")
roomsRoute == MyClassFirst("/rooms")
scheduleRoute == AnyoneIn("/schedule")
attendanceRoute == AnyoneIn("/attendance")
gradesRoute == AnyoneIn("/grades")
billingRoute == MyClassFirst("/billing")
leadsRoute == MyClassFirst("/leads")
notificationsRoute == MyClassFirst("/notifications")
reportsRoute == MyClassFirst("/reports")
profileRoute == AnyoneIn("/profile")
branchesRoute == authLayoutRoute("/branches", Away({"TEACHER", "PARENT"}, "/"))
auditLogsRoute == authLayoutRoute("/audit-logs", Away(RoleNames \ Admins, "/"))

routeTree ==
    {loginRoute, telegramLoginRoute, inviteRoute, dashboardRoute, branchesRoute, usersRoute,
     classesRoute, studentsRoute, subjectsRoute, roomsRoute, scheduleRoute, attendanceRoute,
     gradesRoute, clubsRoute, billingRoute, leadsRoute, notificationsRoute, reportsRoute,
     myClassRoute, profileRoute, auditLogsRoute}

Paths == {r.path : r \in routeTree}
\* Where the address path takes role; no route sends to one that turns away.
Arrival(role, path) ==
    LET away == (CHOOSE r \in routeTree : r.path = path).away
    IN IF role \in DOMAIN away THEN away[role] ELSE path

-----------------------------------------------------------------------------
(* The shell: its menus, and what it loads on every page.                  *)

TeacherMenu == {"/", "/my-class", "/attendance", "/grades", "/schedule", "/clubs", "/profile"}
\* The rest of the school's menu, a parent's too.
PeopleMenu == {"/", "/users", "/branches", "/classes", "/students", "/attendance", "/grades"}
OfficeMenu == {"/billing", "/clubs", "/leads", "/notifications", "/reports", "/subjects", "/rooms"}
LastMenu(role) ==
    {"/schedule", "/profile"} \cup IF role \in Admins THEN {"/audit-logs"} ELSE {}

navItems(role) ==
    IF role = "TEACHER" THEN TeacherMenu ELSE PeopleMenu \cup OfficeMenu \cup LastMenu(role)

BranchSwitcher ==
    [loads |-> [switcher |-> Load(useBranchesQuery, {"onlyActive"}, 0, {})],
     links |-> {"/branches"}]
\* Its search is a load of its own, asked for when somebody types.
Spotlight ==
    [loads |-> [spotlight |-> Load(useStudentsQuery, Paged \cup {"search"}, 5, {})],
     links |-> {"/", "/students", "/leads", "/branches", "/classes", "/profile"}]

\* The sidebar and the drawer show the menu; the header has the profile.
Sidebar(role) == navItems(role) \cup {"/"}
Header == BranchSwitcher.links \cup {"/profile"}
ShellLinks(role) == Sidebar(role) \cup Header \cup Spotlight.links
ShellLoads == BranchSwitcher.loads @@ Spotlight.loads

-----------------------------------------------------------------------------
(* The pages.                                                              *)

Page(loads, offers, links) == [loads |-> loads, offers |-> offers, links |-> links]

\* DashboardPage in its parts.
QuickActions == {"/attendance", "/grades", "/billing", "/leads", "/schedule", "/reports"}
NeedsAttention == {"/attendance", "/billing", "/notifications"}
KpiCards == {"/billing", "/attendance", "/students"}
TeacherDashboard == {"/attendance", "/billing"}
Band2Breakdowns ==
    [loads |-> [funnel |-> Load(useLeadStatsQuery, {}, 0, {"stats"}),
                revenue |-> Load(useFinanceReportQuery, {"months"}, 0, {"stats"})],
     links |-> {"/leads", "/classes", "/reports"}]
DashboardPage(role) ==
    LET stats == [stats |-> Load(useDashboardStatsQuery, {}, 0, {})]
    IN IF role = "TEACHER" THEN Page(stats, {}, QuickActions \cup TeacherDashboard)
       ELSE Page(stats @@ Band2Breakdowns.loads, {},
                 QuickActions \cup NeedsAttention \cup KpiCards \cup Band2Breakdowns.links)

\* The tabs of the reports load when they are chosen.
AttendancePanel == [attendance |-> Load(useAttendanceReportQuery, {"month"}, 0, {})]
GradesPanel == [grades |-> Load(useGradesReportQuery, {}, 0, {})]
FinancePanel == [finance |-> Load(useFinanceReportQuery, {"months"}, 0, {})]
ReportsPage == Page(AttendancePanel @@ GradesPanel @@ FinancePanel, {}, {})

UsersFilters == {"role", "search"}
UsersPage ==
    Page([users |-> Load(useUsersQuery, Paged \cup UsersFilters, 20, {})],
         {Offer("createUser", {})} \cup UsersTable({"users"}), {})
ClassesPage ==
    Page([classes |-> Load(useClassesQuery, Paged \cup {"gradeLevel"}, 20, {})],
         {Offer("createClass", {})} \cup ClassesTable({"classes"}), {})
StudentsPage(isAdmin) ==
    Page([students |-> Load(useStudentsQuery, Paged \cup {"search", "gradeLevel", "status"}, 20, {}),
          classes |-> Load(useClassesQuery, Paged, 100, {})],
         {Offer("createStudent", {})} \cup StudentsTable({"students"})
             \cup IF isAdmin THEN {Offer("exportStudents", {})} ELSE {}, {})
BranchesPage ==
    Page([branches |-> Load(useBranchesQuery, {}, 0, {})], BranchesTable({"branches"}), {})
MyClassPage ==
    Page([myClass |-> Load(useMyClassQuery, {}, 0, {}),
          myStudents |-> Load(useMyStudentsQuery, {}, 0, {})], {}, {})
SubjectsPage(role) ==
    Page([subjects |-> Load(useSubjectsQuery, Paged \cup {"search"}, 20, {})],
         SubjectsTable(role \in Desk, {"subjects"}), {})
RoomsPage(role) ==
    Page([rooms |-> Load(useRoomsQuery, Paged \cup {"search"}, 20, {})],
         RoomsTable(role \in Admins, {"rooms"}), {})
SchedulePage ==
    Page([classes |-> Load(useClassesQuery, Paged, 50, {}),
          subjects |-> Load(useSubjectsQuery, {"limit"}, 100, {}),
          rooms |-> Load(useRoomsQuery, {"limit"}, 100, {}),
          teachers |-> Load(useUsersQuery, {"role", "limit"}, 100, {}),
          schedule |-> Load(useScheduleQuery, {"classId"}, 0, {"classes"})],
         WeeklyScheduleGrid({"schedule"}), {})
\* The sheet stays hidden until the lists of the class are there; without a
\* class it is empty and saves nothing.
AttendancePage ==
    Page([classes |-> Load(useClassesQuery, Paged, 50, {}),
          students |-> Load(useStudentsQuery, {"classId", "limit"}, 100, {"classes"}),
          attendance |-> Load(useAttendanceQuery, {"classId", "date"}, 0, {"classes"})],
         AttendanceSheet({"classes", "students"}), {})
GradesPage ==
    Page([classes |-> Load(useClassesQuery, Paged, 50, {}),
          subjects |-> Load(useSubjectsQuery, {"isActive"}, 0, {}),
          students |-> Load(useStudentsQuery, {"classId", "limit"}, 100, {"classes"}),
          summary |-> Load(useGradesSummaryQuery, {"classId", "subjectId"}, 0,
                           {"classes", "subjects"})],
         GradesSheet({"classes", "students"}), {})
BillingPage ==
    Page([stats |-> Load(useBillingStatsQuery, {"month"}, 0, {}),
          payments |-> Load(usePaymentsQuery, Paged \cup {"month"}, 20, {}),
          debtors |-> Load(useDebtorsQuery, {"month"}, 0, {}),
          students |-> Load(useStudentsQuery, {"limit", "status"}, 100, {})],
         {Offer("recordPayment", {})} \cup DebtorsTable({"debtors"}) \cup PaymentsTable({"payments"}),
         {})
LeadsPage ==
    Page([leads |-> Load(useLeadsQuery, {"search", "source"}, 0, {}),
          stats |-> Load(useLeadStatsQuery, {}, 0, {}),
          classes |-> Load(useClassesQuery, {"limit"}, 100, {})],
         {Offer("createLead", {})} \cup LeadKanbanBoard({"leads"}), {})
NotificationsPage ==
    Page([logs |-> Load(useNotificationLogsQuery, {"limit"}, 100, {}),
          classes |-> Load(useClassesQuery, {"limit"}, 100, {})],
         {Offer("sendBroadcast", {})} \cup NotificationLogsTable({"logs"}), {})
ProfilePage ==
    Page(NoLoads, ChangePasswordForm \cup TelegramLinkCard \cup NotificationPreferencesCard, {})
\* Both or neither: one that is refused hides the other.
ClubsPage ==
    Page([clubs |-> Fetch(clubsApi.list, {}, 0, {}),
          clubStats |-> Fetch(clubsApi.getStats, {}, 0, {})],
         {Offer("createClub", {})} \cup ClubCard({"clubs", "clubStats"}), {})
AuditLogsPage ==
    Page([auditLogs |-> Load(useAuditLogsQuery, Paged \cup {"action", "entityType"}, 20, {})],
         {}, {})

\* What role sees at path.
PageAt(role, path) ==
    CASE path = "/" -> DashboardPage(role)
      [] path = "/reports" -> ReportsPage
      [] path = "/users" -> UsersPage
      [] path = "/classes" -> ClassesPage
      [] path = "/students" -> StudentsPage(role \in Admins)
      [] path = "/branches" -> BranchesPage
      [] path = "/my-class" -> MyClassPage
      [] path = "/subjects" -> SubjectsPage(role)
      [] path = "/rooms" -> RoomsPage(role)
      [] path = "/schedule" -> SchedulePage
      [] path = "/attendance" -> AttendancePage
      [] path = "/grades" -> GradesPage
      [] path = "/billing" -> BillingPage
      [] path = "/leads" -> LeadsPage
      [] path = "/notifications" -> NotificationsPage
      [] path = "/profile" -> ProfilePage
      [] path = "/clubs" -> ClubsPage
      [] path = "/audit-logs" -> AuditLogsPage
      [] OTHER -> Page(NoLoads, {}, {})
=============================================================================
