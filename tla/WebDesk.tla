------------------------------- MODULE WebDesk -------------------------------
(***************************************************************************)
(* Somebody at the web client: which page is shown, which of its loads are *)
(* answered, which dialog is open, and the requests that are under way,    *)
(* whose answers come in any order and may find that dialog closed, or     *)
(* open for another row.                                                   *)
(*                                                                         *)
(* The openings of dialogs on one page are numbered; each stands for       *)
(* another row.  An answer to a load depends on who asks and on what is    *)
(* asked (Endpoints); an answer to a change may also be a failure.         *)
(***************************************************************************)
EXTENDS WebPages

CONSTANTS
    MaxOpenings,    \* bound: dialogs opened on one page
    Nothing

ASSUME OpeningsAreCounted == MaxOpenings \in Nat

VARIABLES
    who,           \* who has signed in, or Guest
    page,           \* the page shown
    loaded,         \* the names of the loads that are answered
    dialog,         \* the dialog open and its number, or Nothing
    typed,          \* typed[d]: the opening whose values the form of d holds; 0: its defaults
    shown,          \* shown[d]: the opening whose password d shows; 0: none
    requests,       \* the changes under way
    opened,         \* how many dialogs were opened on this page
    hasty,          \* the openings that were closed over their request
    told            \* what this step was answered to a change, or Nothing

deskVars == <<who, page, loaded, dialog, typed, shown, requests, opened, hasty, told>>

-----------------------------------------------------------------------------
NoForms == [d \in DOMAIN Dialogs |-> 0]
SecretDialogs == {d \in DOMAIN Dialogs : Dialogs[d].ends = "secret"}
NoSecrets == [d \in SecretDialogs |-> 0]

People == RoleNames \cup {Guest}

\* The same function, as a table that TLC makes once.
Table(f) == f @@ NoLoads
Pages == Table([r \in People |-> Table([p \in Paths |-> PageAt(r, p)])])
Menus == Table([r \in People |-> ShellLinks(r)])
Arrivals == Table([r \in People |-> Table([p \in Paths |-> Arrival(r, p)])])

\* The loads of a page and of a dialog over it, and what each is answered.
Answered(r, loads) ==
    Table([n \in DOMAIN loads |->
        [on |-> loads[n].query.on, after |-> loads[n].after, code |-> Answer(r, loads[n].call)]])
Inside == DOMAIN Dialogs \cup {Nothing}
Loadable ==
    Table([r \in People |-> Table([p \in Paths |-> Table([d \in Inside |->
        Answered(r, ShellLoads @@ PageAt(r, p).loads
                      @@ (IF d = Nothing THEN NoLoads ELSE Dialogs[d].loads))])])])

Here == IF dialog = Nothing THEN Nothing ELSE dialog.what
Loads == Loadable[who][page][Here]
Offers == IF dialog = Nothing THEN Pages[who][page].offers ELSE Dialogs[dialog.what].offers
Served(names) == \A n \in names : n \in loaded /\ Loads[n].code = 200
Offered(what) == \E o \in Offers : o.what = what /\ Served(o.rows)

\* A dialog that is open, a change under way, what is told of one.
DialogOpen == [what : DOMAIN Dialogs, opening : 1 .. opened]
ChangeUnderWay == [what : DOMAIN Dialogs, opening : 1 .. opened, values : 0 .. opened]
Notice == [what : DOMAIN Dialogs \cup DOMAIN Deeds, opening : 0 .. opened, closed : 0 .. opened,
           code : {200, 400, 401, 403, 404, 503}]

DialogTypeOK ==
    /\ who \in People
    /\ opened \in 0 .. MaxOpenings /\ hasty \subseteq 1 .. opened
    /\ dialog \in DialogOpen \cup {Nothing}
    /\ typed \in [DOMAIN Dialogs -> 0 .. opened]
    /\ shown \in [SecretDialogs -> 0 .. opened]
    /\ requests \subseteq ChangeUnderWay
    /\ told \in Notice \cup {Nothing}

DeskInit ==
    /\ who = Guest /\ page = "/login"
    /\ loaded = {} /\ dialog = Nothing /\ typed = NoForms /\ shown = NoSecrets
    /\ requests = {} /\ opened = 0 /\ hasty = {} /\ told = Nothing

-----------------------------------------------------------------------------
(* Pages.                                                                  *)

\* A page starts anew; what is still under way finds nobody.
Show(to) ==
    /\ page' = to
    /\ loaded' = {} /\ dialog' = Nothing /\ typed' = NoForms /\ shown' = NoSecrets
    /\ requests' = {} /\ opened' = 0 /\ hasty' = {} /\ told' = Nothing

DeskLogin(r) == who = Guest /\ page = "/login" /\ who' = r /\ Show("/")
DeskLogout == who # Guest /\ who' = Guest /\ Show("/login")

\* By a link or a menu, once the dialog is closed; or by the address.
Follow(to) ==
    /\ who # Guest /\ dialog = Nothing
    /\ to \in Pages[who][page].links \cup Menus[who]
    /\ Show(Arrivals[who][to])
    /\ UNCHANGED who
Address(to) ==
    /\ Show(Arrivals[who][to])
    /\ UNCHANGED who

LoadAnswered(n) ==
    /\ who # Guest
    /\ n \notin loaded /\ Served(Loads[n].after)
    /\ loaded' = loaded \cup {n}
    /\ UNCHANGED <<who, page, dialog, typed, shown, requests, opened, hasty>>
    /\ told' = Nothing

-----------------------------------------------------------------------------
(* Dialogs.                                                                *)

\* The opening that is closed, if one of these requests is its own.
Abandoned(jobs) == IF \E j \in jobs : j.opening = dialog.opening THEN {dialog.opening} ELSE {}
\* The loads of a dialog end with it.
WithoutDialog(names) ==
    IF dialog = Nothing THEN names ELSE names \ DOMAIN Dialogs[dialog.what].loads
\* What a form holds after its dialog is closed.
Cleared(d, f) == IF Dialogs[d].form = "cleared" THEN [f EXCEPT ![d] = 0] ELSE f
Hidden(d, f) ==
    IF d \in SecretDialogs /\ Dialogs[d].form = "cleared" THEN [f EXCEPT ![d] = 0] ELSE f

\* From the page, or out of another dialog, which is closed.
Open(d) ==
    /\ opened < MaxOpenings
    /\ Offered(d)
    /\ opened' = opened + 1
    /\ dialog' = [what |-> d, opening |-> opened + 1]
    /\ loaded' = WithoutDialog(loaded)
    /\ UNCHANGED <<who, page, typed, shown, requests, hasty>>
    /\ told' = Nothing

Fill ==
    /\ dialog # Nothing /\ Dialogs[dialog.what].mutation.on # <<>>
    /\ typed[dialog.what] # dialog.opening
    /\ typed' = [typed EXCEPT ![dialog.what] = dialog.opening]
    /\ UNCHANGED <<who, page, loaded, dialog, shown, requests, opened, hasty>>
    /\ told' = Nothing

\* The button is disabled while the request of this opening is under way, or of
\* any where the mutation outlives the dialog.
Submit ==
    /\ dialog # Nothing /\ Dialogs[dialog.what].mutation.on # <<>>
    /\ "submit" \in {o.what : o \in Offers} => Offered("submit")
    /\ dialog.what \in SecretDialogs => shown[dialog.what] = 0
    /\ \A j \in requests :
         j.what = dialog.what => ~Dialogs[j.what].waits /\ j.opening # dialog.opening
    /\ requests' = requests \cup {[what |-> dialog.what, opening |-> dialog.opening,
                                   values |-> typed[dialog.what]]}
    /\ UNCHANGED <<who, page, loaded, dialog, typed, shown, opened, hasty>>
    /\ told' = Nothing

Close ==
    /\ dialog # Nothing
    /\ hasty' = hasty \cup Abandoned(requests)
    /\ typed' = Cleared(dialog.what, typed)
    /\ shown' = Hidden(dialog.what, shown)
    /\ loaded' = WithoutDialog(loaded)
    /\ dialog' = Nothing
    /\ UNCHANGED <<who, page, requests, opened>>
    /\ told' = Nothing

\* What happens with no dialog of its own; its answer touches none.
Do(what) ==
    /\ Offered(what)
    /\ told' = [what |-> what, opening |-> 0, closed |-> 0,
                code |-> Answer(who, Call(Deeds[what].on, {}, 0))]
    /\ UNCHANGED <<who, page, loaded, dialog, typed, shown, requests, opened, hasty>>

\* The continuation of a dialog's request closes the dialog of its kind, whichever
\* opening that is by now.
Closes(j, ok) ==
    /\ dialog # Nothing /\ dialog.what = j.what
    /\ Dialogs[j.what].ends \in IF ok THEN {"closes", "always closes"} ELSE {"always closes"}

Ends(j, ok) ==
    LET d == Dialogs[j.what]
    IN /\ IF Closes(j, ok) THEN dialog' = Nothing /\ loaded' = WithoutDialog(loaded)
          ELSE UNCHANGED <<dialog, loaded>>
       /\ typed' = IF ok /\ d.form = "by success" THEN [typed EXCEPT ![j.what] = 0]
                  ELSE IF Closes(j, ok) THEN Cleared(j.what, typed) ELSE typed
       /\ shown' = IF ok /\ d.ends = "secret" THEN [shown EXCEPT ![j.what] = j.opening] ELSE shown

Settle(j, ok) ==
    LET code == Answer(who, Call(Dialogs[j.what].mutation.on, {}, 0))
    IN /\ ok => code = 200
       /\ requests' = requests \ {j}
       /\ told' = [what |-> j.what, opening |-> j.opening, code |-> code,
                   closed |-> IF Closes(j, ok) THEN dialog.opening ELSE 0]
       /\ Ends(j, ok)
       /\ hasty' = hasty \cup IF Closes(j, ok) THEN Abandoned(requests \ {j}) ELSE {}
       /\ UNCHANGED <<who, page, opened>>

-----------------------------------------------------------------------------
DeskNext ==
    \/ \E r \in RoleNames : DeskLogin(r)
    \/ DeskLogout
    \/ \E p \in Paths : Follow(p) \/ Address(p)
    \/ \E n \in DOMAIN Loads : LoadAnswered(n)
    \/ \E d \in DOMAIN Dialogs : Open(d)
    \/ Fill \/ Submit \/ Close
    \/ \E d \in DOMAIN Deeds : Do(d)
    \/ \E j \in requests, ok \in BOOLEAN : Settle(j, ok)

DeskSpec == DeskInit /\ [][DeskNext]_deskVars

-----------------------------------------------------------------------------
(* Properties.                                                             *)

\* What is refused to everyone who gets to see the page: the journal of sent
\* messages, which the API does not have; the 150 pupils that the enrolment asks
\* for, where 100 is the most; the active subjects of the grade book, whose field
\* the API calls otherwise; and the own class of whoever is no teacher.
RefusedToAll ==
    {<<notificationsApi.getLogs, 404>>, <<studentsApi.list, 400>>, <<subjectsApi.list, 400>>}
NoTeacherOfIts == {<<teacherSelfApi.myClass, 403>>, <<teacherSelfApi.myStudents, 403>>}
\* What a manager is offered and may not do.
RefusedToManagers ==
    {<<useCreateBranchMutation.on, 403>>, <<useUpdateBranchMutation.on, 403>>,
     <<subjectsApi.remove, 403>>}
\* What a teacher's pages ask for and he may not read, the classes of the
\* attendance, the grades and the schedule first; and what he may not do of the
\* clubs.
RefusedToTeachers ==
    {<<classesApi.list, 403>>, <<studentsApi.list, 403>>, <<usersApi.list, 403>>,
     <<clubsApi.create, 403>>, <<clubsApi.dropStudent, 403>>}

Known(on, code) ==
    CASE who \in Admins -> <<on, code>> \in RefusedToAll \cup NoTeacherOfIts
      [] who = "MANAGER" -> <<on, code>> \in RefusedToAll \cup NoTeacherOfIts \cup RefusedToManagers
      [] who = "TEACHER" -> <<on, code>> \in RefusedToAll \cup RefusedToTeachers
      [] OTHER -> <<on, code>> \in RefusedToAll \/ code = 403

\* The pages and the API agree on who may do what: a load of a page that somebody
\* is let into, and a change that it is offered there, is not refused, save those
\* listed; and a parent, whom the shell shows the menu of the office, is served
\* nothing of the school, only what is his account's.
RefusalsAreKnown ==
    LET Agreed(on, code) ==
            /\ code # 200 => Known(on, code)
            /\ who = "PARENT" /\ code = 200 => on[1] = "auth"
    IN /\ \A n \in loaded : Agreed(Loads[n].on, Loads[n].code)
       /\ told # Nothing =>
            Agreed((IF told.what \in DOMAIN Deeds THEN Deeds[told.what]
                    ELSE Dialogs[told.what].mutation).on, told.code)

\* The forms that hold what was typed for the row before.
KeepsItsForm == {"createLead", "convertLead", "recordPayment", "sendBroadcast"}

\* A dialog is about its own row: what it sends was typed for it, the password it
\* shows is that of its own request, and no other request's answer closes it -
\* unless a dialog of its kind was closed over a request under way, whose answer
\* comes late; the four listed keep what was typed.
AnswersItsOwn ==
    /\ \A j \in requests : j.values \in {0, j.opening} \/ j.what \in KeepsItsForm
    /\ \A d \in SecretDialogs :
         dialog # Nothing /\ dialog.what = d => shown[d] \in {0, dialog.opening} \cup hasty
    /\ told # Nothing /\ told.closed \notin {0, told.opening} => told.opening \in hasty
=============================================================================
