------------------------------ MODULE Endpoints ------------------------------
(***************************************************************************)
(* The door of the API: which roles each operation of each controller      *)
(* serves, which fields its query may have, and what a call is answered    *)
(* before any service sees it.                                             *)
(*                                                                         *)
(* A controller is the set of roles of each of its operations.  The guards *)
(* come first, in the order JWT, roles, flags; then the validation, which  *)
(* strips nothing: a field the DTO does not have is an error.              *)
(***************************************************************************)
EXTENDS Roles, Sequences, FiniteSets

CONSTANT Flags      \* the features that are switched on

-----------------------------------------------------------------------------
Guest == "GUEST"        \* a caller without a session

\* @Public, @AllowAnyRole and @Roles; a route with none of them is the staff's.
Public == RoleNames \cup {Guest}
AnyRole == RoleNames
Staff == UpFrom("TEACHER")
Desk == UpFrom("MANAGER")
Admins == UpFrom("ADMIN")
SuperAdmins == UpFrom("SUPER_ADMIN")

AttendanceController == [bulkRecord |-> Staff, list |-> Staff, getStats |-> UpFrom("PARENT")]
AuditController == [list |-> Admins]
AuthController ==
    [login |-> Public, refresh |-> Public, loginViaTelegram |-> Public,
     acceptParentInvite |-> Public, logout |-> AnyRole, changePassword |-> AnyRole,
     me |-> AnyRole, updatePrefs |-> AnyRole, telegramLink |-> AnyRole,
     createParentInvite |-> Desk]
BillingController ==
    [recordPayment |-> Desk, listPayments |-> Desk, getStats |-> Desk, getDebtors |-> Desk]
PaymentGatewaysController ==
    [payme |-> Public, click |-> Public, getPaymentLink |-> Public, listTransactions |-> Desk]
BranchesController ==
    [findAll |-> Staff, findOne |-> Staff, getStats |-> Desk, create |-> Admins,
     update |-> Admins, remove |-> SuperAdmins]
ClassesController ==
    [create |-> Desk, list |-> Desk, findById |-> Desk, update |-> Desk, remove |-> Desk,
     assignTeacher |-> Desk]
ClubsController ==
    [list |-> Staff, getStats |-> Staff, checkConflict |-> Staff, getOne |-> Staff,
     create |-> Desk, update |-> Desk, remove |-> Admins, enroll |-> Staff, drop |-> Desk,
     recordAttendance |-> Staff, getAttendance |-> Staff]
DashboardController == [stats |-> Staff, recent |-> Admins]
GradesController == [recordGrade |-> Staff, list |-> Staff, getSummary |-> Staff]
HealthController == [check |-> Public, live |-> Public, ready |-> Public]
LeadsController ==
    [create |-> Desk, findAll |-> Desk, getStats |-> Desk, findOne |-> Desk,
     updateStage |-> Desk, convertToStudent |-> Desk, delete |-> Desk]
\* getLogs answers under history.
NotificationsController == [sendBroadcast |-> Desk, getLogs |-> Desk]
ReportsController == [attendance |-> Desk, grades |-> Desk, finance |-> Desk]
RoomsController ==
    [create |-> Admins, list |-> Staff, findById |-> Staff, update |-> Admins,
     remove |-> Admins, availability |-> Desk]
ScheduleController ==
    [create |-> Desk, list |-> Staff, createSubstitution |-> Desk, listSubstitutions |-> Staff,
     cancelSubstitution |-> Desk, findById |-> Staff, update |-> Desk, remove |-> Admins]
StudentsController ==
    [create |-> Desk, list |-> Desk, export |-> Admins, findById |-> Desk, update |-> Desk,
     assignClass |-> Desk, archive |-> Desk, history |-> Desk]
ClassSubjectsController == [assign |-> Desk, list |-> Staff, update |-> Desk, remove |-> Desk]
SubjectsController ==
    [create |-> Desk, list |-> Staff, findById |-> Staff, update |-> Desk, remove |-> Admins]
\* assertExactlyTeacher shuts out the higher roles.
TeachersController ==
    [create |-> Desk, myClass |-> {"TEACHER"}, myStudents |-> {"TEACHER"}, findByUserId |-> Desk]
TelegramController == [linkCode |-> Staff]
UsersController ==
    [create |-> Desk, list |-> Desk, findById |-> Desk, update |-> Desk, remove |-> Desk,
     resetPassword |-> Desk]

AppModule ==
    [attendance |-> AttendanceController, audit |-> AuditController, auth |-> AuthController,
     billing |-> BillingController, gateways |-> PaymentGatewaysController,
     branches |-> BranchesController, classes |-> ClassesController, clubs |-> ClubsController,
     dashboard |-> DashboardController, grades |-> GradesController,
     health |-> HealthController, leads |-> LeadsController,
     notifications |-> NotificationsController, reports |-> ReportsController,
     rooms |-> RoomsController, schedule |-> ScheduleController,
     students |-> StudentsController, classSubjects |-> ClassSubjectsController,
     subjects |-> SubjectsController, teachers |-> TeachersController,
     telegram |-> TelegramController, users |-> UsersController]

-----------------------------------------------------------------------------
(* The fields a query may have.                                            *)

Paged == {"page", "limit"}
MaxLimit == 100

AttendanceQueryDto == {"classId", "studentId", "date", "startDate", "endDate"}
AuditQueryDto == Paged \cup {"userId", "action", "entityType", "from", "to"}
PaymentsQueryDto == Paged \cup {"studentId", "month", "method", "status"}
ClassesQueryDto == Paged \cup {"gradeLevel", "academicYear"}
ClubQueryDto == {"category", "status", "feeType", "branchId", "search"}
GradesQueryDto == {"classId", "studentId", "subjectId", "date", "startDate", "endDate"}
LeadsQueryDto == {"stage", "source", "search"}
RoomsQueryDto == Paged \cup {"search", "type", "active"}
ScheduleQueryDto == {"classId", "teacherId", "roomId", "dayOfWeek", "isActive"}
StudentsQueryDto == Paged \cup {"classId", "status", "gradeLevel", "search"}
SubjectsQueryDto == Paged \cup {"search", "active", "gradeLevel"}
UsersQueryDto == Paged \cup {"role", "search", "isActive"}

\* The operations whose query is one of them; the others take theirs field by
\* field, and overlook what they do not know.
QueryDto ==
    [attendance |-> AttendanceQueryDto, audit |-> AuditQueryDto, billing |-> PaymentsQueryDto,
     classes |-> ClassesQueryDto, clubs |-> ClubQueryDto, grades |-> GradesQueryDto,
     leads |-> LeadsQueryDto, rooms |-> RoomsQueryDto, schedule |-> ScheduleQueryDto,
     students |-> StudentsQueryDto, subjects |-> SubjectsQueryDto, users |-> UsersQueryDto]
Validated(on) ==
    on[2] \in {"list", "findAll", "listPayments"} /\ on[1] \in DOMAIN QueryDto

-----------------------------------------------------------------------------
(* RequireFeature and the answer.                                          *)

FeatureFlag(on) ==
    IF on \in {<<"auth", "loginViaTelegram">>, <<"auth", "telegramLink">>} THEN {"TELEGRAM_LOGIN"}
    ELSE IF on \in {<<"auth", "createParentInvite">>, <<"auth", "acceptParentInvite">>}
      THEN {"PARENT_PORTAL"}
    ELSE {}

\* A call is the operation it is on, the fields of its query and its limit.
Call(on, asks, limit) == [on |-> on, asks |-> asks, limit |-> limit]

Exists(on) == on[1] \in DOMAIN AppModule /\ on[2] \in DOMAIN AppModule[on[1]]

\* A definition whose name adds a word to the one that follows it is a mutant
\* of it.
PassesUnranked(role, on) == role # Guest
Passes(role, on) == role \in AppModule[on[1]][on[2]]

Answer(role, call) ==
    IF ~Exists(call.on) THEN 404
    ELSE IF ~Passes(role, call.on) THEN IF role = Guest THEN 401 ELSE 403
    ELSE IF ~(FeatureFlag(call.on) \subseteq Flags) THEN 503
    ELSE IF Validated(call.on)
              /\ ~(call.asks \subseteq QueryDto[call.on[1]] /\ call.limit <= MaxLimit) THEN 400
    ELSE 200
=============================================================================
