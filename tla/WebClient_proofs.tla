-------------------------- MODULE WebClient_proofs --------------------------
(***************************************************************************)
(* Proofs about what the web client shows and sends: the dialogs of        *)
(* WebDesk, the cache of WebCache and the sheets of WebSheets, for every   *)
(* number of openings, every set of pupils, classes and days and every     *)
(* bound on choices, saves, changes of others and failures.                *)
(*                                                                         *)
(* DialogInv says of each form, request and password for which opening of  *)
(* a dialog it is.  CacheInv says of what is left in the cache from before *)
(* one's own change that it is loaded again where it is shown and is not   *)
(* shown from the cache elsewhere.  SheetInv follows what is known of the  *)
(* register from a load to the page, from the page to the sheet and from   *)
(* the sheet to the save, each time but for what was written since.        *)
(***************************************************************************)
EXTENDS WebDesk, WebCache, WebSheets, SequenceTheorems, TLAPS

-----------------------------------------------------------------------------
(* The table of the dialogs.                                               *)

DialogNames ==
    {"archiveStudent", "assignClass", "createStudent", "studentProfile", "createClass",
     "deleteClass", "createRoom", "deleteRoom", "createSubject", "deleteSubject", "createUser",
     "resetPassword", "deleteUser", "createLead", "convertLead", "recordPayment", "paymentLink",
     "sendBroadcast", "createBranch", "editBranch", "createClub", "enrollStudent", "clubDetails"}

LEMMA NamesOfDialogs == DOMAIN Dialogs = DialogNames
BY DEF Dialogs, DialogNames

\* The dialogs, name by name.
LEMMA DialogsAre ==
    /\ Dialogs.archiveStudent = ArchiveStudentDialog /\ Dialogs.assignClass = AssignClassDialog
    /\ Dialogs.createStudent = CreateStudentDialog /\ Dialogs.studentProfile = StudentProfileModal
    /\ Dialogs.createClass = CreateClassDialog
    /\ Dialogs.deleteClass = ConfirmDialog(useDeleteClassMutation, "always closes")
    /\ Dialogs.createRoom = CreateRoomDialog
    /\ Dialogs.deleteRoom = ConfirmDialog(useDeleteRoomMutation, "closes")
    /\ Dialogs.createSubject = CreateSubjectDialog
    /\ Dialogs.deleteSubject = ConfirmDialog(useDeleteSubjectMutation, "closes")
    /\ Dialogs.createUser = CreateUserDialog /\ Dialogs.resetPassword = ResetPasswordDialog
    /\ Dialogs.deleteUser = ConfirmDialog(useDeleteUserMutation, "always closes")
    /\ Dialogs.createLead = CreateLeadModal /\ Dialogs.convertLead = ConvertLeadModal
    /\ Dialogs.recordPayment = RecordPaymentModal /\ Dialogs.paymentLink = PaymentLinkModal
    /\ Dialogs.sendBroadcast = SendBroadcastModal
    /\ Dialogs.createBranch = CreateBranchModal /\ Dialogs.editBranch = EditBranchModal
    /\ Dialogs.createClub = CreateClubModal /\ Dialogs.enrollStudent = EnrollStudentModal
    /\ Dialogs.clubDetails = ClubDetailsModal
BY DEF Dialogs

\* Forms that start empty.
LEMMA ClearedDialogs ==
    \A d \in {ArchiveStudentDialog, AssignClassDialog, CreateStudentDialog, CreateClassDialog,
              CreateRoomDialog, CreateSubjectDialog, CreateBranchModal, EditBranchModal,
              CreateClubModal, CreateUserDialog, ResetPasswordDialog} :
        d.form = "cleared" /\ d.offers = {}
<1>1. \A d \in {ArchiveStudentDialog, AssignClassDialog, CreateStudentDialog} :
        d.form = "cleared" /\ d.offers = {}
  BY DEF ArchiveStudentDialog, AssignClassDialog, CreateStudentDialog, Dialog
<1>2. \A d \in {CreateClassDialog, CreateRoomDialog, CreateSubjectDialog} :
        d.form = "cleared" /\ d.offers = {}
  BY DEF CreateClassDialog, CreateRoomDialog, CreateSubjectDialog, Dialog
<1>3. \A d \in {CreateBranchModal, EditBranchModal, CreateClubModal} :
        d.form = "cleared" /\ d.offers = {}
  BY DEF CreateBranchModal, EditBranchModal, CreateClubModal, Dialog
<1>4. \A d \in {CreateUserDialog, ResetPasswordDialog} : d.form = "cleared" /\ d.offers = {}
  BY DEF CreateUserDialog, ResetPasswordDialog, Dialog
<1> QED BY <1>1, <1>2, <1>3, <1>4

\* Those over a mutation of the page, which keep what was typed.
LEMMA KeptForms ==
    \A d \in {CreateLeadModal, ConvertLeadModal, RecordPaymentModal, SendBroadcastModal} :
        d.ends = "closes" /\ d.offers = {}
<1>1. CreateLeadModal.ends = "closes" /\ CreateLeadModal.offers = {}
  BY DEF CreateLeadModal, Dialog
<1>2. ConvertLeadModal.ends = "closes" /\ ConvertLeadModal.offers = {}
  BY DEF ConvertLeadModal, Dialog
<1>3. RecordPaymentModal.ends = "closes" /\ RecordPaymentModal.offers = {}
  BY DEF RecordPaymentModal, Dialog
<1>4. SendBroadcastModal.ends = "closes" /\ SendBroadcastModal.offers = {}
  BY DEF SendBroadcastModal, Dialog
<1> QED BY <1>1, <1>2, <1>3, <1>4

\* ConfirmDialog has no form to keep.
LEMMA ConfirmDialogs ==
    ASSUME NEW mutation, NEW ends
    PROVE  /\ ConfirmDialog(mutation, ends).form = "cleared"
           /\ ConfirmDialog(mutation, ends).offers = {}
BY DEF ConfirmDialog, Dialog

\* Those that load or offer something themselves.
LEMMA DialogsWithMore ==
    /\ /\ EnrollStudentModal.form = "cleared" /\ EnrollStudentModal.ends = "closes"
       /\ \A o \in EnrollStudentModal.offers : o.what = "submit"
    /\ /\ PaymentLinkModal.form = "cleared" /\ PaymentLinkModal.ends = "stays"
       /\ PaymentLinkModal.offers = {}
    /\ \A d \in {StudentProfileModal, ClubDetailsModal} :
         d.form = "cleared" /\ d.ends = "stays" /\ d.mutation.on = <<>>
<1>1. /\ EnrollStudentModal.form = "cleared" /\ EnrollStudentModal.ends = "closes"
      /\ EnrollStudentModal.offers = {Offer("submit", {"pupils"})}
  BY DEF EnrollStudentModal, Dialog
<1>2. /\ PaymentLinkModal.form = "cleared" /\ PaymentLinkModal.ends = "stays"
      /\ PaymentLinkModal.offers = {}
  BY DEF PaymentLinkModal, Dialog
<1>3. /\ StudentProfileModal.form = "cleared" /\ StudentProfileModal.ends = "stays"
      /\ StudentProfileModal.mutation = Plain(<<>>)
  BY DEF StudentProfileModal, Dialog
<1>4. /\ ClubDetailsModal.form = "cleared" /\ ClubDetailsModal.ends = "stays"
      /\ ClubDetailsModal.mutation = Plain(<<>>)
  BY DEF ClubDetailsModal, Dialog
<1>5. Plain(<<>>).on = <<>> /\ Offer("submit", {"pupils"}).what = "submit"
  BY DEF Plain, Mutation, Offer
<1> QED BY <1>1, <1>2, <1>3, <1>4, <1>5

\* What the table of the dialogs says, and no more is needed of it.
LEMMA DialogTable ==
    ASSUME NEW d \in DOMAIN Dialogs
    PROVE  /\ d \notin KeepsItsForm => Dialogs[d].form = "cleared"
           /\ Dialogs[d].ends = "secret" => d \notin KeepsItsForm
           /\ \A o \in Dialogs[d].offers :
                o.what # "submit" => Dialogs[d].mutation.on = <<>> /\ Dialogs[d].ends # "secret"
<1>1. CASE d \in {"deleteClass", "deleteRoom", "deleteSubject", "deleteUser"}
  <2>1. \E mutation, ends : Dialogs[d] = ConfirmDialog(mutation, ends)
    BY <1>1, DialogsAre
  <2> QED BY <1>1, <2>1, ConfirmDialogs DEF KeepsItsForm
<1>2. CASE d \in {"studentProfile", "clubDetails"}
  <2>1. Dialogs[d] \in {StudentProfileModal, ClubDetailsModal}
    BY <1>2, DialogsAre
  <2> QED BY <1>2, <2>1, DialogsWithMore DEF KeepsItsForm
<1>3. CASE d \in {"paymentLink", "enrollStudent"}
  <2>1. Dialogs[d] \in {PaymentLinkModal, EnrollStudentModal}
    BY <1>3, DialogsAre
  <2> QED BY <1>3, <2>1, DialogsWithMore DEF KeepsItsForm
<1>4. CASE d \in {"createUser", "resetPassword"}
  <2>1. Dialogs[d] \in {CreateUserDialog, ResetPasswordDialog}
    BY <1>4, DialogsAre
  <2> QED BY <1>4, <2>1, ClearedDialogs DEF KeepsItsForm
<1>5. CASE d \in KeepsItsForm
  <2>1. Dialogs[d] \in {CreateLeadModal, ConvertLeadModal, RecordPaymentModal, SendBroadcastModal}
    BY <1>5, DialogsAre DEF KeepsItsForm
  <2> QED BY <1>5, <2>1, KeptForms
<1>6. CASE d \in {"archiveStudent", "assignClass", "createStudent", "createClass", "createRoom",
                  "createSubject", "createBranch", "editBranch", "createClub"}
  <2>1. Dialogs[d] \in {ArchiveStudentDialog, AssignClassDialog, CreateStudentDialog,
                        CreateClassDialog, CreateRoomDialog, CreateSubjectDialog,
                        CreateBranchModal, EditBranchModal, CreateClubModal}
    BY <1>6, DialogsAre
  <2> QED BY <1>6, <2>1, ClearedDialogs DEF KeepsItsForm
<1> QED
  BY <1>1, <1>2, <1>3, <1>4, <1>5, <1>6, NamesOfDialogs DEF DialogNames, KeepsItsForm

-----------------------------------------------------------------------------
(* The dialogs: each form, request and password is for its own opening.    *)

\* A form that is cleared holds what was typed for the dialog that is open, or
\* nothing; that of a dialog which sends nothing holds nothing.
OpenFor(what, opening) == dialog # Nothing /\ dialog.what = what /\ dialog.opening = opening
FormInv ==
    \A d \in DOMAIN Dialogs :
        /\ Dialogs[d].mutation.on = <<>> => typed[d] = 0
        /\ d \notin KeepsItsForm => typed[d] = 0 \/ OpenFor(d, typed[d])

\* A change under way has what was typed for its own opening, which is the one that
\* is open or was closed over it.
RequestInv ==
    \A j \in requests :
        /\ Dialogs[j.what].mutation.on # <<>>
        /\ j.values \in {0, j.opening} \/ j.what \in KeepsItsForm
        /\ j.opening \in hasty \/ OpenFor(j.what, j.opening)

\* So is a password that is shown.
ShownInv ==
    \A d \in SecretDialogs : shown[d] = 0 \/ shown[d] \in hasty \/ OpenFor(d, shown[d])

ToldInv == told # Nothing /\ told.closed \notin {0, told.opening} => told.opening \in hasty

DialogInv == DialogTypeOK /\ FormInv /\ RequestInv /\ ShownInv /\ ToldInv

LEMMA AnswersAreCodes ==
    ASSUME NEW r, NEW call
    PROVE  Answer(r, call) \in {200, 400, 401, 403, 404, 503}
BY DEF Answer

LEMMA SecretsAreCleared ==
    ASSUME NEW d \in SecretDialogs
    PROVE  d \in DOMAIN Dialogs /\ Dialogs[d].form = "cleared" /\ Dialogs[d].ends = "secret"
BY DialogTable DEF SecretDialogs

\* A dialog is opened from the page, or out of one that sends nothing.
LEMMA OpensOutOf ==
    ASSUME DialogTypeOK, NEW d \in DOMAIN Dialogs, Open(d), dialog # Nothing
    PROVE  /\ dialog.what \in DOMAIN Dialogs \ SecretDialogs
           /\ Dialogs[dialog.what].mutation.on = <<>>
<1>1. dialog.what \in DOMAIN Dialogs
  BY DEF DialogTypeOK, DialogOpen
<1>2. d # "submit"
  BY NamesOfDialogs DEF DialogNames
<1>3. \E o \in Dialogs[dialog.what].offers : o.what = d
  BY DEF Open, Offered, Offers
<1> QED BY <1>1, <1>2, <1>3, DialogTable DEF SecretDialogs

\* A page starts anew.
LEMMA Shows ==
    ASSUME NEW to, Show(to), who' \in People
    PROVE  DialogInv'
<1>1. /\ dialog' = Nothing /\ requests' = {} /\ opened' = 0 /\ hasty' = {} /\ told' = Nothing
      /\ typed' = NoForms /\ shown' = NoSecrets
  BY DEF Show
<1>2. /\ \A d \in DOMAIN Dialogs : NoForms[d] = 0
      /\ \A d \in SecretDialogs : NoSecrets[d] = 0
      /\ NoForms \in [DOMAIN Dialogs -> 0 .. 0] /\ NoSecrets \in [SecretDialogs -> 0 .. 0]
  BY DEF NoForms, NoSecrets
<1>3. DialogTypeOK'
  BY <1>1, <1>2, OpeningsAreCounted DEF DialogTypeOK
<1>4. FormInv' /\ RequestInv' /\ ShownInv' /\ ToldInv'
  BY <1>1, <1>2 DEF FormInv, RequestInv, ShownInv, ToldInv
<1> QED BY <1>3, <1>4 DEF DialogInv

LEMMA DialogOpened ==
    ASSUME DialogInv, NEW d \in DOMAIN Dialogs, Open(d)
    PROVE  DialogInv'
<1> USE DEF DialogInv
<1>1. /\ opened \in Nat /\ opened < MaxOpenings /\ opened' = opened + 1
      /\ dialog' = [what |-> d, opening |-> opened + 1] /\ told' = Nothing
      /\ UNCHANGED <<who, typed, shown, requests, hasty>>
  BY OpeningsAreCounted DEF Open, DialogTypeOK
<1>2. 0 .. opened \subseteq 0 .. opened' /\ 1 .. opened \subseteq 1 .. opened'
      /\ opened' \in 1 .. opened' /\ opened' \in 0 .. MaxOpenings
  BY <1>1, OpeningsAreCounted
<1>3. DialogTypeOK'
  <2>1. dialog' \in DialogOpen'
    BY <1>1, <1>2 DEF DialogOpen
  <2>2. ChangeUnderWay \subseteq ChangeUnderWay'
    BY <1>2 DEF ChangeUnderWay
  <2>3. typed \in [DOMAIN Dialogs -> 0 .. opened'] /\ shown \in [SecretDialogs -> 0 .. opened']
    BY <1>2 DEF DialogTypeOK
  <2> QED BY <1>1, <1>2, <2>1, <2>2, <2>3 DEF DialogTypeOK
<1>4. dialog # Nothing => /\ dialog.what \in DOMAIN Dialogs \ SecretDialogs
                          /\ Dialogs[dialog.what].mutation.on = <<>>
  BY OpensOutOf
<1>5. FormInv'
  BY <1>1, <1>4 DEF FormInv, OpenFor
<1>6. RequestInv'
  BY <1>1, <1>4 DEF RequestInv, OpenFor
<1>7. ShownInv'
  BY <1>1, <1>4 DEF ShownInv, OpenFor
<1> QED BY <1>1, <1>3, <1>5, <1>6, <1>7 DEF ToldInv

LEMMA DialogFilled ==
    ASSUME DialogInv, Fill
    PROVE  DialogInv'
<1> USE DEF DialogInv
<1>1. /\ dialog # Nothing /\ dialog.what \in DOMAIN Dialogs /\ dialog.opening \in 1 .. opened
      /\ Dialogs[dialog.what].mutation.on # <<>>
      /\ typed' = [typed EXCEPT ![dialog.what] = dialog.opening]
      /\ UNCHANGED <<who, dialog, shown, requests, opened, hasty>> /\ told' = Nothing
  BY DEF Fill, DialogTypeOK, DialogOpen
<1>2. opened \in Nat /\ dialog.opening \in 0 .. opened
  BY <1>1, OpeningsAreCounted DEF DialogTypeOK
<1>3. DialogTypeOK'
  BY <1>1, <1>2 DEF DialogTypeOK, DialogOpen, ChangeUnderWay
<1>4. FormInv'
  BY <1>1 DEF FormInv, OpenFor, DialogTypeOK
<1>5. RequestInv' /\ ShownInv' /\ ToldInv'
  BY <1>1 DEF RequestInv, ShownInv, ToldInv, OpenFor
<1> QED BY <1>3, <1>4, <1>5

LEMMA DialogSubmitted ==
    ASSUME DialogInv, Submit
    PROVE  DialogInv'
<1> USE DEF DialogInv
<1> DEFINE j == [what |-> dialog.what, opening |-> dialog.opening, values |-> typed[dialog.what]]
<1>1. /\ dialog # Nothing /\ dialog.what \in DOMAIN Dialogs /\ dialog.opening \in 1 .. opened
      /\ Dialogs[dialog.what].mutation.on # <<>>
      /\ requests' = requests \cup {j}
      /\ UNCHANGED <<who, dialog, typed, shown, opened, hasty>> /\ told' = Nothing
  BY DEF Submit, DialogTypeOK, DialogOpen
<1>2. typed[dialog.what] \in 0 .. opened
  BY <1>1 DEF DialogTypeOK
<1>3. j \in ChangeUnderWay
  BY <1>1, <1>2 DEF ChangeUnderWay
<1>4. DialogTypeOK'
  BY <1>1, <1>3 DEF DialogTypeOK, DialogOpen, ChangeUnderWay
<1>5. typed[dialog.what] \in {0, dialog.opening} \/ dialog.what \in KeepsItsForm
  BY <1>1 DEF FormInv, OpenFor
<1>6. RequestInv'
  BY <1>1, <1>5 DEF RequestInv, OpenFor
<1>7. FormInv' /\ ShownInv' /\ ToldInv'
  BY <1>1 DEF FormInv, ShownInv, ToldInv, OpenFor
<1> QED BY <1>4, <1>6, <1>7

\* What a form holds after its dialog is closed, and what was shown.
LEMMA ClearedForms ==
    ASSUME DialogInv, dialog # Nothing
    PROVE  /\ dialog.what \in DOMAIN Dialogs /\ dialog.opening \in 1 .. opened
           /\ \A what : Cleared(what, typed) \in [DOMAIN Dialogs -> 0 .. opened]
                        /\ \A d \in DOMAIN Dialogs : Cleared(what, typed)[d] \in {0, typed[d]}
           /\ \A d \in DOMAIN Dialogs \ KeepsItsForm : Cleared(dialog.what, typed)[d] = 0
           /\ Hidden(dialog.what, shown) \in [SecretDialogs -> 0 .. opened]
           /\ \A d \in SecretDialogs : Hidden(dialog.what, shown)[d] \in {0, shown[d]}
           /\ dialog.what \in SecretDialogs => Hidden(dialog.what, shown)[dialog.what] = 0
<1> USE DEF DialogInv
<1>1. dialog.what \in DOMAIN Dialogs /\ dialog.opening \in 1 .. opened
  BY DEF DialogTypeOK, DialogOpen
<1>2. opened \in Nat /\ 0 \in 0 .. opened
  BY OpeningsAreCounted DEF DialogTypeOK
<1>3. \A what : Cleared(what, typed) \in [DOMAIN Dialogs -> 0 .. opened]
                /\ \A d \in DOMAIN Dialogs : Cleared(what, typed)[d] \in {0, typed[d]}
  BY <1>2 DEF Cleared, DialogTypeOK
<1>4. \A d \in DOMAIN Dialogs \ KeepsItsForm : Cleared(dialog.what, typed)[d] = 0
  <2> SUFFICES ASSUME NEW d \in DOMAIN Dialogs, d \notin KeepsItsForm
               PROVE  Cleared(dialog.what, typed)[d] = 0
    OBVIOUS
  <2>1. CASE d = dialog.what
    BY <1>1, <2>1, DialogTable DEF Cleared, DialogTypeOK
  <2>2. CASE d # dialog.what
    BY <1>3, <2>2 DEF FormInv, OpenFor
  <2> QED BY <2>1, <2>2
<1>5. /\ Hidden(dialog.what, shown) \in [SecretDialogs -> 0 .. opened]
      /\ \A d \in SecretDialogs : Hidden(dialog.what, shown)[d] \in {0, shown[d]}
  BY <1>2 DEF Hidden, DialogTypeOK
<1>6. dialog.what \in SecretDialogs => Hidden(dialog.what, shown)[dialog.what] = 0
  BY SecretsAreCleared DEF Hidden, DialogTypeOK
<1> QED BY <1>1, <1>3, <1>4, <1>5, <1>6

LEMMA DialogClosed ==
    ASSUME DialogInv, Close
    PROVE  DialogInv'
<1> USE DEF DialogInv
<1>1. /\ dialog # Nothing /\ dialog' = Nothing /\ told' = Nothing
      /\ hasty' = hasty \cup Abandoned(requests)
      /\ typed' = Cleared(dialog.what, typed) /\ shown' = Hidden(dialog.what, shown)
      /\ UNCHANGED <<who, requests, opened>>
  BY DEF Close
<1>2. Abandoned(requests) \subseteq 1 .. opened
  BY <1>1, ClearedForms DEF Abandoned
<1>3. DialogTypeOK'
  BY <1>1, <1>2, ClearedForms DEF DialogTypeOK, ChangeUnderWay
<1>4. FormInv'
  BY <1>1, ClearedForms DEF FormInv
<1>5. RequestInv'
  BY <1>1 DEF RequestInv, OpenFor, Abandoned
<1>6. ShownInv'
  <2> SUFFICES ASSUME NEW d \in SecretDialogs, shown'[d] # 0, shown'[d] \notin hasty'
               PROVE  FALSE
    BY DEF ShownInv
  <2>1. shown'[d] = shown[d] /\ d # dialog.what
    BY <1>1, ClearedForms
  <2> QED BY <1>1, <2>1 DEF ShownInv, OpenFor
<1> QED BY <1>1, <1>3, <1>4, <1>5, <1>6 DEF ToldInv

LEMMA ChangeSettled ==
    ASSUME DialogInv, NEW j \in requests, NEW ok \in BOOLEAN, Settle(j, ok)
    PROVE  DialogInv'
<1> USE DEF DialogInv
<1>1. /\ j.what \in DOMAIN Dialogs /\ j.opening \in 1 .. opened /\ requests' = requests \ {j}
      /\ opened \in Nat /\ UNCHANGED <<who, opened>>
  BY OpeningsAreCounted DEF Settle, DialogTypeOK, ChangeUnderWay
<1>2. told' = [what |-> j.what, opening |-> j.opening,
               code |-> Answer(who, Call(Dialogs[j.what].mutation.on, {}, 0)),
               closed |-> IF Closes(j, ok) THEN dialog.opening ELSE 0]
  BY DEF Settle
<1>3. /\ dialog' = IF Closes(j, ok) THEN Nothing ELSE dialog
      /\ typed' = IF ok /\ Dialogs[j.what].form = "by success" THEN [typed EXCEPT ![j.what] = 0]
                  ELSE IF Closes(j, ok) THEN Cleared(j.what, typed) ELSE typed
      /\ shown' = IF ok /\ Dialogs[j.what].ends = "secret" THEN [shown EXCEPT ![j.what] = j.opening]
                  ELSE shown
      /\ hasty' = hasty \cup IF Closes(j, ok) THEN Abandoned(requests \ {j}) ELSE {}
  BY DEF Settle, Ends
<1>4. CASE Closes(j, ok)
  <2>1. /\ dialog # Nothing /\ dialog.what = j.what /\ dialog' = Nothing
        /\ hasty' = hasty \cup Abandoned(requests \ {j})
        /\ Dialogs[j.what].ends # "secret" /\ shown' = shown
    BY <1>3, <1>4 DEF Closes
  <2>2. Abandoned(requests \ {j}) \subseteq 1 .. opened /\ dialog.opening \in 0 .. opened
    BY <1>1, <2>1, ClearedForms DEF Abandoned
  <2>3. /\ typed' \in [DOMAIN Dialogs -> 0 .. opened]
        /\ \A d \in DOMAIN Dialogs : typed'[d] \in {0, typed[d]}
        /\ \A d \in DOMAIN Dialogs \ KeepsItsForm : typed'[d] = 0
    <3>1. CASE ok /\ Dialogs[j.what].form = "by success"
      <4>1. typed' = [typed EXCEPT ![j.what] = 0]
        BY <1>3, <3>1
      <4> QED BY <1>1, <2>1, <4>1 DEF FormInv, OpenFor, DialogTypeOK
    <3>2. CASE ~(ok /\ Dialogs[j.what].form = "by success")
      BY <1>3, <1>4, <2>1, <3>2, ClearedForms
    <3> QED BY <3>1, <3>2
  <2>4. told' \in Notice'
    <3>1. told'.code \in {200, 400, 401, 403, 404, 503}
      BY <1>2, AnswersAreCodes
    <3> QED BY <1>1, <1>2, <1>4, <2>2, <3>1 DEF Notice
  <2>5. DialogTypeOK'
    BY <1>1, <2>1, <2>2, <2>3, <2>4 DEF DialogTypeOK, ChangeUnderWay
  <2>6. FormInv'
    BY <2>3 DEF FormInv
  <2>7. RequestInv'
    BY <1>1, <2>1 DEF RequestInv, OpenFor, Abandoned
  <2>8. ShownInv'
    BY <2>1, SecretsAreCleared DEF ShownInv, OpenFor
  <2>9. ToldInv'
    BY <1>2, <1>4, <2>1 DEF ToldInv, RequestInv, OpenFor
  <2> QED BY <2>5, <2>6, <2>7, <2>8, <2>9
<1>5. CASE ~Closes(j, ok)
  <2>1. dialog' = dialog /\ hasty' = hasty
    BY <1>3, <1>5
  <2>2. /\ typed' \in [DOMAIN Dialogs -> 0 .. opened]
        /\ \A d \in DOMAIN Dialogs : typed'[d] \in {0, typed[d]}
    <3>1. typed' = typed \/ typed' = [typed EXCEPT ![j.what] = 0]
      BY <1>3, <1>5
    <3> QED BY <1>1, <3>1 DEF DialogTypeOK
  <2>3. /\ shown' \in [SecretDialogs -> 0 .. opened]
        /\ \A d \in SecretDialogs : shown'[d] = shown[d] \/ (d = j.what /\ shown'[d] = j.opening)
    <3>1. shown' = shown \/ shown' = [shown EXCEPT ![j.what] = j.opening]
      BY <1>3
    <3> QED BY <1>1, <3>1 DEF DialogTypeOK
  <2>4. told' \in Notice' /\ told'.closed = 0
    <3>1. told'.code \in {200, 400, 401, 403, 404, 503}
      BY <1>2, AnswersAreCodes
    <3> QED BY <1>1, <1>2, <1>5, <3>1 DEF Notice
  <2>5. DialogTypeOK'
    BY <1>1, <2>1, <2>2, <2>3, <2>4 DEF DialogTypeOK, ChangeUnderWay, DialogOpen
  <2>6. FormInv'
    BY <2>1, <2>2 DEF FormInv, OpenFor
  <2>7. RequestInv'
    BY <1>1, <2>1 DEF RequestInv, OpenFor
  <2>8. ShownInv'
    BY <2>1, <2>3 DEF ShownInv, RequestInv, OpenFor
  <2>9. ToldInv'
    BY <2>4 DEF ToldInv
  <2> QED BY <2>5, <2>6, <2>7, <2>8, <2>9
<1> QED BY <1>4, <1>5

\* What changes no dialog, no form and no request.
LEMMA DialogsStay ==
    ASSUME DialogInv, UNCHANGED <<who, dialog, typed, shown, requests, opened, hasty>>,
           told' = Nothing \/ told' = told \/ (told' \in Notice /\ told'.closed = 0)
    PROVE  DialogInv'
BY DEF DialogInv, DialogTypeOK, DialogOpen, ChangeUnderWay, Notice, FormInv, RequestInv,
   ShownInv, ToldInv, OpenFor

LEMMA DialogInvariance == DeskSpec => []DialogInv
<1>1. DeskInit => DialogInv
  <2> SUFFICES ASSUME DeskInit PROVE DialogInv
    OBVIOUS
  <2>1. /\ \A d \in DOMAIN Dialogs : NoForms[d] = 0
        /\ \A d \in SecretDialogs : NoSecrets[d] = 0
        /\ NoForms \in [DOMAIN Dialogs -> 0 .. 0] /\ NoSecrets \in [SecretDialogs -> 0 .. 0]
    BY DEF NoForms, NoSecrets
  <2>2. DialogTypeOK
    BY <2>1, OpeningsAreCounted DEF DeskInit, DialogTypeOK, People
  <2> QED
    BY <2>1, <2>2 DEF DeskInit, DialogInv, FormInv, RequestInv, ShownInv, ToldInv
<1>2. DialogInv /\ [DeskNext]_deskVars => DialogInv'
  <2> SUFFICES ASSUME DialogInv, [DeskNext]_deskVars PROVE DialogInv'
    OBVIOUS
  <2>1. ASSUME NEW r \in RoleNames, DeskLogin(r)
        PROVE  DialogInv'
    BY <2>1, Shows DEF DeskLogin, People
  <2>2. ASSUME DeskLogout
        PROVE  DialogInv'
    BY <2>2, Shows DEF DeskLogout, People
  <2>3. ASSUME NEW p \in Paths, Follow(p) \/ Address(p)
        PROVE  DialogInv'
    BY <2>3, Shows DEF Follow, Address, DialogInv, DialogTypeOK
  <2>4. ASSUME NEW n \in DOMAIN Loads, LoadAnswered(n)
        PROVE  DialogInv'
    BY <2>4, DialogsStay DEF LoadAnswered
  <2>5. ASSUME NEW d \in DOMAIN Deeds, Do(d)
        PROVE  DialogInv'
    <3>1. told' \in Notice /\ told'.closed = 0
      BY <2>5, AnswersAreCodes, OpeningsAreCounted DEF Do, Notice, DialogInv, DialogTypeOK
    <3> QED BY <2>5, <3>1, DialogsStay DEF Do
  <2>6. CASE UNCHANGED deskVars
    BY <2>6, DialogsStay DEF deskVars
  <2> QED
    BY <2>1, <2>2, <2>3, <2>4, <2>5, <2>6, DialogOpened, DialogFilled, DialogSubmitted,
       DialogClosed, ChangeSettled DEF DeskNext
<1> QED BY <1>1, <1>2, PTL DEF DeskSpec

\* The dialog that is open, the forms, the passwords shown, the requests under way and
\* the last answer told keep to their types on every page and for every role.
THEOREM DialogTypeCorrect == DeskSpec => []DialogTypeOK
<1>1. DialogInv => DialogTypeOK
  BY DEF DialogInv
<1> QED BY <1>1, DialogInvariance, PTL

\* A dialog is about its own row: what it sends was typed for it, the password it shows
\* is of its own request, and no other request's answer closes it, save after a dialog
\* of its kind was closed over a request under way and for the four kept forms (the
\* close handlers, onSuccess callbacks and resets of the pages' modals).
THEOREM DialogAnswersItsOwn == DeskSpec => []AnswersItsOwn
<1>1. DialogInv => AnswersItsOwn
  BY DEF DialogInv, AnswersItsOwn, RequestInv, ShownInv, ToldInv, OpenFor
<1> QED BY <1>1, DialogInvariance, PTL

-----------------------------------------------------------------------------
(* The tables of the queries and of the changes.                           *)

\* A key begins another.
LEMMA KeyBegins ==
    ASSUME NEW a, NEW b
    PROVE  IsPrefix(<<a>>, <<a, b>>) /\ IsPrefix(<<a, b>>, <<a, b>>)
<1>1. Len(<<a>>) = 1 /\ Len(<<a, b>>) = 2
  OBVIOUS
<1>2. SubSeq(<<a>>, 1, 1) = SubSeq(<<a, b>>, 1, 1)
  <2> DEFINE s == SubSeq(<<a>>, 1, 1)
             t == SubSeq(<<a, b>>, 1, 1)
  <2>1. \A i \in 1..1 : <<a>>[i] \in {a} /\ <<a, b>>[i] \in {a}
    OBVIOUS
  <2>2. s \in Seq({a}) /\ Len(s) = 1 /\ \A i \in 1..1 : s[i] = <<a>>[1 + i - 1]
    BY <2>1, SubSeqProperties
  <2>3. t \in Seq({a}) /\ Len(t) = 1 /\ \A i \in 1..1 : t[i] = <<a, b>>[1 + i - 1]
    BY <2>1, SubSeqProperties
  <2>4. \A i \in 1..1 : s[i] = a /\ t[i] = a
    BY <2>2, <2>3
  <2> HIDE DEF s, t
  <2>5. s = t
    BY <2>2, <2>3, <2>4, SeqEqual
  <2> QED BY <2>5 DEF s, t
<1> QED BY <1>1, <1>2 DEF IsPrefix

\* One key of a change is enough.
LEMMA Tells ==
    ASSUME NEW m, NEW q, NEW k \in m.invalidates, IsPrefix(k, q.key)
    PROVE  Invalidates(m, q)
BY DEF Invalidates

\* The queries, name by name; of some, what they read is not needed.
LEMMA QueriesAre ==
    /\ Queries.attendance = Reading(useAttendanceQuery, {"attendance"})
    /\ Queries.billingStats = Reading(useBillingStatsQuery, {"payments", "students"})
    /\ Queries.debtors = Reading(useDebtorsQuery, {"payments", "students"})
    /\ Queries.payments = Reading(usePaymentsQuery, {"payments"})
    /\ Queries.branches = Reading(useBranchesQuery, {"branches"})
    /\ Queries.classes = Reading(useClassesQuery, {"classes"})
    /\ Queries.dashboard.query = useDashboardStatsQuery
    /\ Queries.gradesSummary = Reading(useGradesSummaryQuery, {"grades"})
    /\ Queries.leads = Reading(useLeadsQuery, {"leads"})
    /\ Queries.leadStats = Reading(useLeadStatsQuery, {"leads"})
    /\ Queries.attendanceReport.query = useAttendanceReportQuery
    /\ Queries.gradesReport.query = useGradesReportQuery
    /\ Queries.financeReport.query = useFinanceReportQuery
    /\ Queries.rooms = Reading(useRoomsQuery, {"rooms"})
    /\ Queries.schedule = Reading(useScheduleQuery, {"schedule"})
    /\ Queries.students = Reading(useStudentsQuery, {"students"})
    /\ Queries.subjects = Reading(useSubjectsQuery, {"subjects"})
    /\ Queries.myClass = Reading(useMyClassQuery, {"classes"})
    /\ Queries.myStudents = Reading(useMyStudentsQuery, {"students"})
    /\ Queries.users = Reading(useUsersQuery, {"users"})
    /\ Queries.currentUser = Reading(useCurrentUserQuery, {"preferences"})
<1>1. /\ Queries.dashboard = Reading(useDashboardStatsQuery,
                                    {"students", "classes", "users", "attendance", "payments"})
      /\ Queries.attendanceReport = Reading(useAttendanceReportQuery,
                                            {"attendance", "classes", "students"})
      /\ Queries.gradesReport = Reading(useGradesReportQuery, {"grades"})
      /\ Queries.financeReport = Reading(useFinanceReportQuery, {"payments", "students"})
  BY DEF Queries
<1>2. \A q, t : Reading(q, t).query = q
  BY DEF Reading
<1>3. /\ Queries.attendance = Reading(useAttendanceQuery, {"attendance"})
      /\ Queries.billingStats = Reading(useBillingStatsQuery, {"payments", "students"})
      /\ Queries.debtors = Reading(useDebtorsQuery, {"payments", "students"})
      /\ Queries.payments = Reading(usePaymentsQuery, {"payments"})
      /\ Queries.branches = Reading(useBranchesQuery, {"branches"})
      /\ Queries.classes = Reading(useClassesQuery, {"classes"})
      /\ Queries.gradesSummary = Reading(useGradesSummaryQuery, {"grades"})
      /\ Queries.leads = Reading(useLeadsQuery, {"leads"})
      /\ Queries.leadStats = Reading(useLeadStatsQuery, {"leads"})
  BY DEF Queries
<1>4. /\ Queries.rooms = Reading(useRoomsQuery, {"rooms"})
      /\ Queries.schedule = Reading(useScheduleQuery, {"schedule"})
      /\ Queries.students = Reading(useStudentsQuery, {"students"})
      /\ Queries.subjects = Reading(useSubjectsQuery, {"subjects"})
      /\ Queries.myClass = Reading(useMyClassQuery, {"classes"})
      /\ Queries.myStudents = Reading(useMyStudentsQuery, {"students"})
      /\ Queries.users = Reading(useUsersQuery, {"users"})
      /\ Queries.currentUser = Reading(useCurrentUserQuery, {"preferences"})
  BY DEF Queries
<1> QED BY <1>1, <1>2, <1>3, <1>4

QueryNames ==
    {"attendance", "billingStats", "debtors", "payments", "branches", "classes", "dashboard",
     "gradesSummary", "leads", "leadStats", "attendanceReport", "gradesReport", "financeReport",
     "rooms", "schedule", "students", "subjects", "myClass", "myStudents", "users", "currentUser"}
LEMMA NamesOfQueries == DOMAIN Queries = QueryNames
BY DEF Queries, QueryNames

\* The changes, name by name.
LEMMA MutationsAre ==
    /\ Mutations.bulkAttendance = Writing(useBulkAttendanceMutation, {"attendance"})
    /\ Mutations.recordPayment = Writing(useRecordPaymentMutation, {"payments"})
    /\ Mutations.payByLink = Writing(PaymentLinkModal.mutation, {"payments"})
    /\ Mutations.createBranch = Writing(useCreateBranchMutation, {"branches"})
    /\ Mutations.updateBranch = Writing(useUpdateBranchMutation, {"branches"})
    /\ Mutations.assignTeacher = Writing(useAssignTeacherMutation, {"classes"})
    /\ Mutations.createClass = Writing(useCreateClassMutation, {"classes"})
    /\ Mutations.deleteClass = Writing(useDeleteClassMutation, {"classes"})
    /\ Mutations.recordGrade = Writing(useRecordGradeMutation, {"grades"})
    /\ Mutations.createLead = Writing(useCreateLeadMutation, {"leads"})
    /\ Mutations.updateLeadStage = Writing(useUpdateLeadStageMutation, {"leads"})
    /\ Mutations.convertToStudent = Writing(useConvertToStudentMutation, {"leads", "students"})
    /\ Mutations.deleteLead = Writing(useDeleteLeadMutation, {"leads"})
    /\ Mutations.updatePrefs = Writing(useUpdateNotificationPrefsMutation, {"preferences"})
    /\ Mutations.createRoom = Writing(useCreateRoomMutation, {"rooms"})
    /\ Mutations.deleteRoom = Writing(useDeleteRoomMutation, {"rooms"})
    /\ Mutations.archiveStudent = Writing(useArchiveStudentMutation, {"students"})
    /\ Mutations.assignClass = Writing(useAssignClassMutation, {"students"})
    /\ Mutations.createStudent = Writing(useCreateStudentMutation, {"students"})
    /\ Mutations.createSubject = Writing(useCreateSubjectMutation, {"subjects"})
    /\ Mutations.deleteSubject = Writing(useDeleteSubjectMutation, {"subjects"})
    /\ Mutations.createUser = Writing(useCreateUserMutation, {"users"})
    /\ Mutations.deleteUser = Writing(useDeleteUserMutation, {"users"})
BY DEF Mutations

MutationNames ==
    {"bulkAttendance", "recordPayment", "payByLink", "createBranch", "updateBranch",
     "assignTeacher", "createClass", "deleteClass", "recordGrade", "createLead",
     "updateLeadStage", "convertToStudent", "deleteLead", "updatePrefs", "createRoom",
     "deleteRoom", "archiveStudent", "assignClass", "createStudent", "createSubject",
     "deleteSubject", "createUser", "deleteUser"}
LEMMA NamesOfMutations == DOMAIN Mutations = MutationNames
BY DEF Mutations, MutationNames

\* Which changes write a table.
Writers(table) == {m \in DOMAIN Mutations : table \in Mutations[m].writes}
LEMMA WritersAre ==
    /\ Writers("attendance") = {"bulkAttendance"}
    /\ Writers("payments") = {"recordPayment", "payByLink"}
    /\ Writers("branches") = {"createBranch", "updateBranch"}
    /\ Writers("classes") = ClassChanges
    /\ Writers("grades") = {"recordGrade"}
    /\ Writers("leads") = {"createLead", "updateLeadStage", "convertToStudent", "deleteLead"}
    /\ Writers("preferences") = {"updatePrefs"}
    /\ Writers("rooms") = {"createRoom", "deleteRoom"}
    /\ Writers("students") = StudentChanges
    /\ Writers("subjects") = {"createSubject", "deleteSubject"}
    /\ Writers("users") = {"createUser", "deleteUser"}
    /\ Writers("schedule") = {}
<1>1. \A m, t : Writing(m, t).writes = t
  BY DEF Writing
<1>2. \A m \in MutationNames : Mutations[m].writes =
        CASE m = "bulkAttendance" -> {"attendance"}
          [] m \in {"recordPayment", "payByLink"} -> {"payments"}
          [] m \in {"createBranch", "updateBranch"} -> {"branches"}
          [] m \in ClassChanges -> {"classes"}
          [] m = "recordGrade" -> {"grades"}
          [] m \in {"createLead", "updateLeadStage", "deleteLead"} -> {"leads"}
          [] m = "convertToStudent" -> {"leads", "students"}
          [] m = "updatePrefs" -> {"preferences"}
          [] m \in {"createRoom", "deleteRoom"} -> {"rooms"}
          [] m \in {"archiveStudent", "assignClass", "createStudent"} -> {"students"}
          [] m \in {"createSubject", "deleteSubject"} -> {"subjects"}
          [] m \in {"createUser", "deleteUser"} -> {"users"}
  BY <1>1, MutationsAre DEF MutationNames, ClassChanges
<1>3. DOMAIN Mutations = MutationNames
  BY NamesOfMutations
<1>4. \A t : Writers(t) = {m \in MutationNames : t \in Mutations[m].writes}
  BY <1>3 DEF Writers
<1>5. /\ Writers("attendance") = {"bulkAttendance"}
      /\ Writers("payments") = {"recordPayment", "payByLink"}
      /\ Writers("branches") = {"createBranch", "updateBranch"}
  BY <1>2, <1>4 DEF MutationNames, ClassChanges
<1>6. Writers("classes") = ClassChanges /\ Writers("grades") = {"recordGrade"}
  BY <1>2, <1>4 DEF MutationNames, ClassChanges
<1>7. Writers("leads") = {"createLead", "updateLeadStage", "convertToStudent", "deleteLead"}
  BY <1>2, <1>4 DEF MutationNames, ClassChanges
<1>8. /\ Writers("preferences") = {"updatePrefs"}
      /\ Writers("rooms") = {"createRoom", "deleteRoom"}
  BY <1>2, <1>4 DEF MutationNames, ClassChanges
<1>9. Writers("students") = StudentChanges
  BY <1>2, <1>4 DEF MutationNames, ClassChanges, StudentChanges
<1>10. /\ Writers("subjects") = {"createSubject", "deleteSubject"}
       /\ Writers("users") = {"createUser", "deleteUser"}
       /\ Writers("schedule") = {}
  BY <1>2, <1>4 DEF MutationNames, ClassChanges
<1> QED BY <1>5, <1>6, <1>7, <1>8, <1>9, <1>10

\* What a change tells.
LEMMA ChangesTell ==
    /\ <<"attendance">> \in Mutations["bulkAttendance"].mutation.invalidates
    /\ \A m \in {"recordPayment", "payByLink"} :
         <<"billing">> \in Mutations[m].mutation.invalidates
    /\ \A m \in {"createBranch", "updateBranch"} :
         <<"branches">> \in Mutations[m].mutation.invalidates
    /\ \A m \in ClassChanges : <<"classes", "list">> \in Mutations[m].mutation.invalidates
    /\ <<"grades">> \in Mutations["recordGrade"].mutation.invalidates
    /\ \A m \in {"createLead", "updateLeadStage", "convertToStudent", "deleteLead"} :
         <<"leads">> \in Mutations[m].mutation.invalidates
    /\ <<"dashboard">> \in Mutations["convertToStudent"].mutation.invalidates
    /\ <<"students">> \in Mutations["convertToStudent"].mutation.invalidates
    /\ <<"auth", "me">> \in Mutations["updatePrefs"].mutation.invalidates
    /\ \A m \in {"createRoom", "deleteRoom"} : <<"rooms">> \in Mutations[m].mutation.invalidates
    /\ \A m \in {"archiveStudent", "assignClass", "createStudent"} :
         <<"students", "list">> \in Mutations[m].mutation.invalidates
    /\ \A m \in {"createSubject", "deleteSubject"} :
         <<"subjects">> \in Mutations[m].mutation.invalidates
    /\ \A m \in {"createUser", "deleteUser"} :
         <<"users", "list">> \in Mutations[m].mutation.invalidates
<1>1. \A m, t : Writing(m, t).mutation = m
  BY DEF Writing
<1>2. \A on, keys : Mutation(on, keys).invalidates = keys
  BY DEF Mutation
<1>3. PaymentLinkModal.mutation.invalidates = {<<"billing">>}
  <2>1. PaymentLinkModal.mutation = Mutation(billingApi.simulateClickPayment, {<<"billing">>})
    BY DEF PaymentLinkModal, Dialog
  <2> QED BY <2>1, <1>2
<1>4. /\ <<"attendance">> \in useBulkAttendanceMutation.invalidates
      /\ <<"billing">> \in useRecordPaymentMutation.invalidates
      /\ <<"branches">> \in useCreateBranchMutation.invalidates
      /\ <<"branches">> \in useUpdateBranchMutation.invalidates
      /\ <<"classes", "list">> \in useAssignTeacherMutation.invalidates
      /\ <<"classes", "list">> \in useCreateClassMutation.invalidates
      /\ <<"classes", "list">> \in useDeleteClassMutation.invalidates
      /\ <<"grades">> \in useRecordGradeMutation.invalidates
  BY <1>2 DEF useBulkAttendanceMutation, useRecordPaymentMutation, useCreateBranchMutation,
              useUpdateBranchMutation, useAssignTeacherMutation, useCreateClassMutation,
              useDeleteClassMutation, useRecordGradeMutation
<1>5. /\ <<"leads">> \in useCreateLeadMutation.invalidates
      /\ <<"leads">> \in useUpdateLeadStageMutation.invalidates
      /\ <<"leads">> \in useConvertToStudentMutation.invalidates
      /\ <<"dashboard">> \in useConvertToStudentMutation.invalidates
      /\ <<"students">> \in useConvertToStudentMutation.invalidates
      /\ <<"leads">> \in useDeleteLeadMutation.invalidates
      /\ <<"auth", "me">> \in useUpdateNotificationPrefsMutation.invalidates
      /\ <<"rooms">> \in useCreateRoomMutation.invalidates
      /\ <<"rooms">> \in useDeleteRoomMutation.invalidates
  BY <1>2 DEF useCreateLeadMutation, useUpdateLeadStageMutation, useConvertToStudentMutation,
              useDeleteLeadMutation, useUpdateNotificationPrefsMutation, useCreateRoomMutation,
              useDeleteRoomMutation
<1>6. /\ <<"students", "list">> \in useArchiveStudentMutation.invalidates
      /\ <<"students", "list">> \in useAssignClassMutation.invalidates
      /\ <<"students", "list">> \in useCreateStudentMutation.invalidates
      /\ <<"subjects">> \in useCreateSubjectMutation.invalidates
      /\ <<"subjects">> \in useDeleteSubjectMutation.invalidates
      /\ <<"users", "list">> \in useCreateUserMutation.invalidates
      /\ <<"users", "list">> \in useDeleteUserMutation.invalidates
  BY <1>2 DEF useArchiveStudentMutation, useAssignClassMutation, useCreateStudentMutation,
              useCreateSubjectMutation, useDeleteSubjectMutation, useCreateUserMutation,
              useDeleteUserMutation
<1> QED BY <1>1, <1>3, <1>4, <1>5, <1>6, MutationsAre DEF ClassChanges

\* Where a query stands in the cache.
LEMMA KeysBegin ==
    /\ IsPrefix(<<"attendance">>, useAttendanceQuery.key)
    /\ IsPrefix(<<"billing">>, useBillingStatsQuery.key)
    /\ IsPrefix(<<"billing">>, useDebtorsQuery.key)
    /\ IsPrefix(<<"billing">>, usePaymentsQuery.key)
    /\ IsPrefix(<<"branches">>, useBranchesQuery.key)
    /\ IsPrefix(<<"classes", "list">>, useClassesQuery.key)
    /\ IsPrefix(<<"dashboard">>, useDashboardStatsQuery.key)
    /\ IsPrefix(<<"grades">>, useGradesSummaryQuery.key)
    /\ IsPrefix(<<"leads">>, useLeadsQuery.key)
    /\ IsPrefix(<<"leads">>, useLeadStatsQuery.key)
    /\ IsPrefix(<<"rooms">>, useRoomsQuery.key)
    /\ IsPrefix(<<"students">>, useStudentsQuery.key)
    /\ IsPrefix(<<"students", "list">>, useStudentsQuery.key)
    /\ IsPrefix(<<"subjects">>, useSubjectsQuery.key)
    /\ IsPrefix(<<"users", "list">>, useUsersQuery.key)
    /\ IsPrefix(<<"auth", "me">>, useCurrentUserQuery.key)
<1>1. \A k, on, f : Query(k, on, f).key = k
  BY DEF Query
<1>2. /\ useAttendanceQuery.key = <<"attendance", "list">>
      /\ useBillingStatsQuery.key = <<"billing", "stats">>
      /\ useDebtorsQuery.key = <<"billing", "debtors">>
      /\ usePaymentsQuery.key = <<"billing", "payments">>
      /\ useBranchesQuery.key = <<"branches", "list">>
      /\ useClassesQuery.key = <<"classes", "list">>
      /\ useDashboardStatsQuery.key = <<"dashboard", "stats">>
      /\ useGradesSummaryQuery.key = <<"grades", "summary">>
  BY <1>1 DEF useAttendanceQuery, useBillingStatsQuery, useDebtorsQuery, usePaymentsQuery,
              useBranchesQuery, useClassesQuery, useDashboardStatsQuery, useGradesSummaryQuery
<1>3. /\ useLeadsQuery.key = <<"leads", "list">>
      /\ useLeadStatsQuery.key = <<"leads", "stats">>
      /\ useRoomsQuery.key = <<"rooms", "list">>
      /\ useStudentsQuery.key = <<"students", "list">>
      /\ useSubjectsQuery.key = <<"subjects", "list">>
      /\ useUsersQuery.key = <<"users", "list">>
      /\ useCurrentUserQuery.key = <<"auth", "me">>
  BY <1>1 DEF useLeadsQuery, useLeadStatsQuery, useRoomsQuery, useStudentsQuery,
              useSubjectsQuery, useUsersQuery, useCurrentUserQuery
<1>4. /\ IsPrefix(<<"attendance">>, <<"attendance", "list">>)
      /\ IsPrefix(<<"billing">>, <<"billing", "stats">>)
      /\ IsPrefix(<<"billing">>, <<"billing", "debtors">>)
      /\ IsPrefix(<<"billing">>, <<"billing", "payments">>)
      /\ IsPrefix(<<"branches">>, <<"branches", "list">>)
      /\ IsPrefix(<<"classes", "list">>, <<"classes", "list">>)
      /\ IsPrefix(<<"dashboard">>, <<"dashboard", "stats">>)
      /\ IsPrefix(<<"grades">>, <<"grades", "summary">>)
  BY KeyBegins
<1>5. /\ IsPrefix(<<"leads">>, <<"leads", "list">>)
      /\ IsPrefix(<<"leads">>, <<"leads", "stats">>)
      /\ IsPrefix(<<"rooms">>, <<"rooms", "list">>)
      /\ IsPrefix(<<"students">>, <<"students", "list">>)
      /\ IsPrefix(<<"students", "list">>, <<"students", "list">>)
      /\ IsPrefix(<<"subjects">>, <<"subjects", "list">>)
      /\ IsPrefix(<<"users", "list">>, <<"users", "list">>)
      /\ IsPrefix(<<"auth", "me">>, <<"auth", "me">>)
  BY KeyBegins
<1> QED BY <1>2, <1>3, <1>4, <1>5
\* The reports, which are told of nothing and are never fresh.
Reports == {"attendanceReport", "gradesReport", "financeReport"}

\* What the other queries hear of: every change of what they read but the ones listed.
LEMMA OthersHear ==
    ASSUME NEW q \in DOMAIN Queries, NEW m \in DOMAIN Mutations,
           Queries[q].reads \cap Mutations[m].writes # {},
           q \notin Reports, <<q, m>> \notin Unheard
    PROVE  Invalidates(Mutations[m].mutation, Queries[q].query)
<1>1. PICK t \in Queries[q].reads : m \in Writers(t)
  BY DEF Writers
<1>2. \A x, y : Reading(x, y).query = x /\ Reading(x, y).reads = y
  BY DEF Reading
<1>3. q \in QueryNames /\ m \in MutationNames
  BY NamesOfQueries, NamesOfMutations
<1>4. q # "dashboard" \/ m = "convertToStudent"
  BY NamesOfMutations DEF Unheard
<1>5. q \in {"billingStats", "debtors", "myStudents"} => m \notin StudentChanges
  BY DEF Unheard
<1>6. q = "myClass" => m \notin ClassChanges
  BY DEF Unheard
<1>7. SUFFICES \E k \in Mutations[m].mutation.invalidates : IsPrefix(k, Queries[q].query.key)
  BY Tells
<1>8. CASE q = "dashboard"
  BY <1>2, <1>4, <1>8, QueriesAre, ChangesTell, KeysBegin
<1>9. CASE q \in {"attendance", "branches", "gradesSummary"}
  <2>1. CASE q = "attendance"
    BY <1>1, <1>2, <2>1, QueriesAre, WritersAre, ChangesTell, KeysBegin
  <2>2. CASE q = "branches"
    BY <1>1, <1>2, <2>2, QueriesAre, WritersAre, ChangesTell, KeysBegin
  <2>3. CASE q = "gradesSummary"
    BY <1>1, <1>2, <2>3, QueriesAre, WritersAre, ChangesTell, KeysBegin
  <2> QED BY <1>9, <2>1, <2>2, <2>3
<1>10. CASE q \in {"billingStats", "debtors", "payments"}
  <2>1. m \in {"recordPayment", "payByLink"}
    <3>1. t \in {"payments", "students"}
      BY <1>1, <1>2, <1>10, QueriesAre
    <3>2. q = "payments" => t = "payments"
      BY <1>1, <1>2, QueriesAre
    <3> QED BY <1>1, <1>5, <1>10, <3>1, <3>2, WritersAre
  <2>2. IsPrefix(<<"billing">>, Queries[q].query.key)
    BY <1>2, <1>10, QueriesAre, KeysBegin
  <2> QED BY <2>1, <2>2, ChangesTell
<1>11. CASE q \in {"classes", "myClass", "schedule"}
  <2>1. q = "classes"
    BY <1>1, <1>2, <1>6, <1>11, QueriesAre, WritersAre
  <2> QED BY <1>1, <1>2, <2>1, QueriesAre, WritersAre, ChangesTell, KeysBegin
<1>12. CASE q \in {"leads", "leadStats"}
  <2>1. m \in {"createLead", "updateLeadStage", "convertToStudent", "deleteLead"}
    BY <1>1, <1>2, <1>12, QueriesAre, WritersAre
  <2>2. IsPrefix(<<"leads">>, Queries[q].query.key)
    BY <1>2, <1>12, QueriesAre, KeysBegin
  <2> QED BY <2>1, <2>2, ChangesTell
<1>13. CASE q \in {"students", "myStudents"}
  <2>1. q = "students" /\ m \in StudentChanges
    BY <1>1, <1>2, <1>5, <1>13, QueriesAre, WritersAre
  <2>2. Queries[q].query.key = useStudentsQuery.key
    BY <1>2, <2>1, QueriesAre
  <2> QED BY <2>1, <2>2, ChangesTell, KeysBegin DEF StudentChanges
<1>14. CASE q \in {"rooms", "subjects"}
  <2>1. CASE q = "rooms"
    BY <1>1, <1>2, <2>1, QueriesAre, WritersAre, ChangesTell, KeysBegin
  <2>2. CASE q = "subjects"
    BY <1>1, <1>2, <2>2, QueriesAre, WritersAre, ChangesTell, KeysBegin
  <2> QED BY <1>14, <2>1, <2>2
<1>15. CASE q \in {"users", "currentUser"}
  <2>1. CASE q = "users"
    BY <1>1, <1>2, <2>1, QueriesAre, WritersAre, ChangesTell, KeysBegin
  <2>2. CASE q = "currentUser"
    BY <1>1, <1>2, <2>2, QueriesAre, WritersAre, ChangesTell, KeysBegin
  <2> QED BY <1>15, <2>1, <2>2
<1> QED BY <1>3, <1>8, <1>9, <1>10, <1>11, <1>12, <1>13, <1>14, <1>15 DEF QueryNames, Reports

\* Reports have no staleTime.
LEMMA ReportsNeverFresh == \A q \in Reports : Queries[q].query.fresh = FALSE
<1>1. \A k, on, f : Query(k, on, f).fresh = f
  BY DEF Query
<1>2. \A x, y : Reading(x, y).query = x
  BY DEF Reading
<1>3. /\ useAttendanceReportQuery.fresh = FALSE /\ useGradesReportQuery.fresh = FALSE
      /\ useFinanceReportQuery.fresh = FALSE
  BY <1>1 DEF useAttendanceReportQuery, useGradesReportQuery, useFinanceReportQuery
<1>4. /\ Queries["attendanceReport"].query.fresh = FALSE
      /\ Queries["gradesReport"].query.fresh = FALSE
      /\ Queries["financeReport"].query.fresh = FALSE
  BY <1>3, QueriesAre
<1> QED BY <1>4 DEF Reports

\* Every query has a staleTime or has none.
LEMMA FreshIsBoolean == \A q \in DOMAIN Queries : Queries[q].query.fresh \in BOOLEAN
<1>1. \A k, on, f : Query(k, on, f).fresh = f
  BY DEF Query
<1>2. \A x, y : Reading(x, y).query = x
  BY DEF Reading
<1>3. /\ useAttendanceQuery.fresh = FALSE /\ useBillingStatsQuery.fresh = TRUE
      /\ useDebtorsQuery.fresh = TRUE /\ usePaymentsQuery.fresh = TRUE
      /\ useBranchesQuery.fresh = FALSE /\ useClassesQuery.fresh = TRUE
      /\ useDashboardStatsQuery.fresh = TRUE /\ useGradesSummaryQuery.fresh = FALSE
      /\ useLeadsQuery.fresh = FALSE /\ useLeadStatsQuery.fresh = FALSE
  BY <1>1 DEF useAttendanceQuery, useBillingStatsQuery, useDebtorsQuery, usePaymentsQuery,
              useBranchesQuery, useClassesQuery, useDashboardStatsQuery, useGradesSummaryQuery,
              useLeadsQuery, useLeadStatsQuery
<1>4. /\ useRoomsQuery.fresh = FALSE /\ useScheduleQuery.fresh = FALSE
      /\ useStudentsQuery.fresh = TRUE /\ useSubjectsQuery.fresh = FALSE
      /\ useMyClassQuery.fresh = TRUE /\ useMyStudentsQuery.fresh = TRUE
      /\ useUsersQuery.fresh = TRUE /\ useCurrentUserQuery.fresh = TRUE
  BY <1>1 DEF useRoomsQuery, useScheduleQuery, useStudentsQuery, useSubjectsQuery,
              useMyClassQuery, useMyStudentsQuery, useUsersQuery, useCurrentUserQuery
<1>5. \A q \in QueryNames \ Reports : Queries[q].query.fresh \in BOOLEAN
  <2>1. /\ Queries["attendance"].query = useAttendanceQuery
        /\ Queries["billingStats"].query = useBillingStatsQuery
        /\ Queries["debtors"].query = useDebtorsQuery
        /\ Queries["payments"].query = usePaymentsQuery
        /\ Queries["branches"].query = useBranchesQuery
        /\ Queries["classes"].query = useClassesQuery
        /\ Queries["dashboard"].query = useDashboardStatsQuery
        /\ Queries["gradesSummary"].query = useGradesSummaryQuery
        /\ Queries["leads"].query = useLeadsQuery
        /\ Queries["leadStats"].query = useLeadStatsQuery
    BY <1>2, QueriesAre
  <2>2. /\ Queries["rooms"].query = useRoomsQuery
        /\ Queries["schedule"].query = useScheduleQuery
        /\ Queries["students"].query = useStudentsQuery
        /\ Queries["subjects"].query = useSubjectsQuery
        /\ Queries["myClass"].query = useMyClassQuery
        /\ Queries["myStudents"].query = useMyStudentsQuery
        /\ Queries["users"].query = useUsersQuery
        /\ Queries["currentUser"].query = useCurrentUserQuery
    BY <1>2, QueriesAre
  <2>3. \A q \in {"attendance", "billingStats", "debtors", "payments", "branches", "classes",
                  "dashboard", "gradesSummary", "leads", "leadStats"} :
           Queries[q].query.fresh \in BOOLEAN
    BY <1>3, <2>1
  <2>4. \A q \in {"rooms", "schedule", "students", "subjects", "myClass", "myStudents", "users",
                  "currentUser"} : Queries[q].query.fresh \in BOOLEAN
    BY <1>4, <2>2
  <2> QED BY <2>3, <2>4 DEF QueryNames, Reports
<1>6. \A q \in Reports : Queries[q].query.fresh \in BOOLEAN
  BY ReportsNeverFresh
<1> QED BY <1>5, <1>6, NamesOfQueries

\* The queries and calls of the pages that offer something.
Elsewhere(on) == on[1] # "reports"
LEMMA QueriesElsewhere ==
    /\ Elsewhere(useUsersQuery.on) /\ Elsewhere(useClassesQuery.on)
    /\ Elsewhere(useStudentsQuery.on) /\ Elsewhere(useBranchesQuery.on)
    /\ Elsewhere(useSubjectsQuery.on) /\ Elsewhere(useRoomsQuery.on)
    /\ Elsewhere(useScheduleQuery.on) /\ Elsewhere(useAttendanceQuery.on)
    /\ Elsewhere(useGradesSummaryQuery.on) /\ Elsewhere(useBillingStatsQuery.on)
    /\ Elsewhere(usePaymentsQuery.on) /\ Elsewhere(useDebtorsQuery.on)
    /\ Elsewhere(useLeadsQuery.on) /\ Elsewhere(useLeadStatsQuery.on)
    /\ Elsewhere(useNotificationLogsQuery.on)
    /\ Elsewhere(clubsApi.list) /\ Elsewhere(clubsApi.getStats)
<1>1. \A k, on, f : Query(k, on, f).on = on
  BY DEF Query
<1>2. /\ useUsersQuery.on = usersApi.list /\ useClassesQuery.on = classesApi.list
      /\ useStudentsQuery.on = studentsApi.list
      /\ useBranchesQuery.on = <<"branches", "findAll">>
      /\ useSubjectsQuery.on = subjectsApi.list /\ useRoomsQuery.on = roomsApi.list
      /\ useScheduleQuery.on = scheduleApi.list /\ useAttendanceQuery.on = attendanceApi.list
  BY <1>1 DEF useUsersQuery, useClassesQuery, useStudentsQuery, useBranchesQuery,
              useSubjectsQuery, useRoomsQuery, useScheduleQuery, useAttendanceQuery
<1>3. /\ useGradesSummaryQuery.on = gradesApi.getSummary
      /\ useBillingStatsQuery.on = billingApi.getStats
      /\ usePaymentsQuery.on = billingApi.listPayments
      /\ useDebtorsQuery.on = billingApi.getDebtors
      /\ useLeadsQuery.on = leadsApi.list /\ useLeadStatsQuery.on = leadsApi.getStats
      /\ useNotificationLogsQuery.on = notificationsApi.getLogs
  BY <1>1 DEF useGradesSummaryQuery, useBillingStatsQuery, usePaymentsQuery, useDebtorsQuery,
              useLeadsQuery, useLeadStatsQuery, useNotificationLogsQuery
<1>4. /\ usersApi.list = <<"users", "list">> /\ classesApi.list = <<"classes", "list">>
      /\ studentsApi.list = <<"students", "list">> /\ subjectsApi.list = <<"subjects", "list">>
  BY DEF usersApi, classesApi, studentsApi, subjectsApi
<1>5. /\ roomsApi.list = <<"rooms", "list">> /\ scheduleApi.list = <<"schedule", "list">>
      /\ attendanceApi.list = <<"attendance", "list">>
      /\ gradesApi.getSummary = <<"grades", "getSummary">>
      /\ billingApi.getStats = <<"billing", "getStats">>
      /\ billingApi.listPayments = <<"billing", "listPayments">>
      /\ billingApi.getDebtors = <<"billing", "getDebtors">>
  BY DEF roomsApi, scheduleApi, attendanceApi, gradesApi, billingApi
<1>6. /\ leadsApi.list = <<"leads", "findAll">> /\ leadsApi.getStats = <<"leads", "getStats">>
      /\ notificationsApi.getLogs = <<"notifications", "logs">>
      /\ clubsApi.list = <<"clubs", "list">> /\ clubsApi.getStats = <<"clubs", "getStats">>
  BY DEF leadsApi, notificationsApi, clubsApi
<1>7. \A a, b : a # "reports" => Elsewhere(<<a, b>>)
  BY DEF Elsewhere
<1>8. /\ Elsewhere(<<"users", "list">>) /\ Elsewhere(<<"classes", "list">>)
      /\ Elsewhere(<<"students", "list">>) /\ Elsewhere(<<"branches", "findAll">>)
      /\ Elsewhere(<<"subjects", "list">>) /\ Elsewhere(<<"rooms", "list">>)
      /\ Elsewhere(<<"schedule", "list">>) /\ Elsewhere(<<"attendance", "list">>)
  BY <1>7
<1>9. /\ Elsewhere(<<"grades", "getSummary">>) /\ Elsewhere(<<"billing", "getStats">>)
      /\ Elsewhere(<<"billing", "listPayments">>) /\ Elsewhere(<<"billing", "getDebtors">>)
      /\ Elsewhere(<<"leads", "findAll">>) /\ Elsewhere(<<"leads", "getStats">>)
      /\ Elsewhere(<<"notifications", "logs">>)
      /\ Elsewhere(<<"clubs", "list">>) /\ Elsewhere(<<"clubs", "getStats">>)
  BY <1>7
<1> QED BY <1>2, <1>3, <1>4, <1>5, <1>6, <1>8, <1>9

LEMMA ReportsOn == \A q \in Reports : ~Elsewhere(Queries[q].query.on)
<1>1. \A k, on, f : Query(k, on, f).on = on
  BY DEF Query
<1>2. /\ ~Elsewhere(useAttendanceReportQuery.on) /\ ~Elsewhere(useGradesReportQuery.on)
      /\ ~Elsewhere(useFinanceReportQuery.on)
  <2>1. /\ useAttendanceReportQuery.on = reportsApi.attendance
        /\ useGradesReportQuery.on = reportsApi.grades
        /\ useFinanceReportQuery.on = reportsApi.finance
    BY <1>1 DEF useAttendanceReportQuery, useGradesReportQuery, useFinanceReportQuery
  <2>2. /\ reportsApi.attendance = <<"reports", "attendance">>
        /\ reportsApi.grades = <<"reports", "grades">>
        /\ reportsApi.finance = <<"reports", "finance">>
    BY DEF reportsApi
  <2>3. \A b : ~Elsewhere(<<"reports", b>>)
    BY DEF Elsewhere
  <2> QED BY <2>1, <2>2, <2>3
<1>3. /\ Queries["attendanceReport"].query = useAttendanceReportQuery
      /\ Queries["gradesReport"].query = useGradesReportQuery
      /\ Queries["financeReport"].query = useFinanceReportQuery
  BY QueriesAre
<1> QED BY <1>2, <1>3 DEF Reports

\* A page that offers nothing, or that loads no report.
Quiet(p) ==
    \/ p.offers = {}
    \/ \A n \in DOMAIN p.loads : Elsewhere(p.loads[n].query.on)
LEMMA QuietPages == \A r, path : Quiet(PageAt(r, path))
<1>1. \A l, o, k : Page(l, o, k).loads = l /\ Page(l, o, k).offers = o
  BY DEF Page
<1>2. \A q, a, l, f : Load(q, a, l, f).query = q
  BY DEF Load
<1>3. \A on, a, l, f : Fetch(on, a, l, f).query.on = on
  BY <1>2 DEF Fetch, Query
<1>4. ASSUME NEW r
      PROVE  Quiet(DashboardPage(r)) /\ Quiet(ReportsPage) /\ Quiet(MyClassPage)
             /\ Quiet(SchedulePage) /\ Quiet(AuditLogsPage) /\ Quiet(Page(NoLoads, {}, {}))
  BY <1>1 DEF Quiet, DashboardPage, ReportsPage, MyClassPage, SchedulePage, AuditLogsPage,
              WeeklyScheduleGrid
<1>5. Quiet(UsersPage) /\ Quiet(ClassesPage) /\ Quiet(BranchesPage)
  BY <1>1, <1>2, QueriesElsewhere DEF Quiet, UsersPage, ClassesPage, BranchesPage
<1>6. \A admin : Quiet(StudentsPage(admin))
  BY <1>1, <1>2, QueriesElsewhere DEF Quiet, StudentsPage
<1>7. \A r : Quiet(SubjectsPage(r)) /\ Quiet(RoomsPage(r))
  BY <1>1, <1>2, QueriesElsewhere DEF Quiet, SubjectsPage, RoomsPage
<1>8. Quiet(AttendancePage)
  BY <1>1, <1>2, QueriesElsewhere DEF Quiet, AttendancePage
<1>9. Quiet(GradesPage)
  BY <1>1, <1>2, QueriesElsewhere DEF Quiet, GradesPage
<1>10. Quiet(BillingPage)
  BY <1>1, <1>2, QueriesElsewhere DEF Quiet, BillingPage
<1>11. Quiet(LeadsPage) /\ Quiet(NotificationsPage)
  BY <1>1, <1>2, QueriesElsewhere DEF Quiet, LeadsPage, NotificationsPage
<1>12. Quiet(ProfilePage)
  BY <1>1 DEF Quiet, ProfilePage, NoLoads
<1>13. Quiet(ClubsPage)
  BY <1>1, <1>3, QueriesElsewhere DEF Quiet, ClubsPage
<1> QED
  BY <1>4, <1>5, <1>6, <1>7, <1>8, <1>9, <1>10, <1>11, <1>12, <1>13 DEF PageAt

\* No page shows a report and offers a change.
LEMMA ReportsAlone == \A p \in Pairs : p[1] \in Reports => p \notin Together
<1>1. ChangesOf(Opened({})) = {}
  BY DEF ChangesOf, Opened
<1>2. ASSUME NEW p \in Pairs, p[1] \in Reports, NEW r, NEW path,
             \E n \in DOMAIN PageAt(r, path).loads :
                PageAt(r, path).loads[n].query = Queries[p[1]].query
      PROVE  PageAt(r, path).offers = {}
  BY <1>2, QuietPages, ReportsOn DEF Quiet
<1> QED BY <1>1, <1>2 DEF Together

-----------------------------------------------------------------------------
\* A load that had read before the change was made, and was not asked again.
NoneEarly == change = "done" /\ load.step = "read" /\ ~load.sees => behind

\* What is left in the cache from before the change is loaded again where it is
\* shown, and is not shown from the cache elsewhere.
AskedAgain ==
    change = "done" /\ entry.has /\ ~entry.sees /\ ~behind /\ pair \notin Unheard =>
       (mounted => load # NoLoad) /\ ~(entry.valid /\ entry.fresh)

\* Only what has a staleTime is fresh.
FreshForAWhile == entry.fresh => Fresh

CacheInv == CacheTypeOK /\ NoneEarly /\ AskedAgain /\ FreshForAWhile

\* The two parts of a pair, and what holds of them.
LEMMA ThePair ==
    ASSUME pair \in Pairs
    PROVE  /\ Fresh \in BOOLEAN
           /\ Told \/ pair \in Unheard \/ (~Fresh /\ pair \notin Together)
<1>1. PICK q \in DOMAIN Queries, m \in DOMAIN Mutations :
        pair = <<q, m>> /\ Queries[q].reads \cap Mutations[m].writes # {}
  BY DEF Pairs
<1>2. Fresh = Queries[q].query.fresh
  BY <1>1 DEF Fresh
<1>3. Told = Invalidates(Mutations[m].mutation, Queries[q].query)
  BY <1>1 DEF Told
<1>4. CASE q \in Reports
  BY <1>1, <1>2, <1>4, FreshIsBoolean, ReportsNeverFresh, ReportsAlone
<1>5. CASE q \notin Reports
  BY <1>1, <1>2, <1>3, <1>5, FreshIsBoolean, OthersHear
<1> QED BY <1>4, <1>5

LEMMA CacheStarts == CacheInit => CacheInv
<1> SUFFICES ASSUME CacheInit
             PROVE  CacheInv
  OBVIOUS
<1>1. entry \in CacheEntry /\ ~entry.fresh
  BY DEF CacheInit, CacheEntry
<1>2. load \in LoadUnderWay /\ load = NoLoad /\ change = "none"
  BY DEF CacheInit, LoadUnderWay
<1>3. CacheTypeOK
  BY <1>1, <1>2 DEF CacheInit, CacheTypeOK
<1> QED BY <1>1, <1>2, <1>3 DEF CacheInv, NoneEarly, AskedAgain, FreshForAWhile

\* What a step of the page, of the cache or of time leaves.
LEMMA PagesKeep ==
    ASSUME CacheInv, Mount \/ Unmount \/ Age
    PROVE  CacheInv'
<1> USE DEF CacheInv, CacheTypeOK, NoneEarly, AskedAgain, FreshForAWhile
<1>1. CASE Mount
  BY <1>1 DEF Mount, CacheEntry, LoadUnderWay, NoLoad, Asked, Fresh
<1>2. CASE Unmount
  BY <1>2 DEF Unmount, Fresh
<1>3. CASE Age
  <2>1. /\ entry' \in CacheEntry /\ entry'.has = entry.has /\ entry'.sees = entry.sees
        /\ entry'.valid = entry.valid /\ entry'.fresh = FALSE
    BY <1>3 DEF Age, CacheEntry
  <2> QED BY <1>3, <2>1 DEF Age
<1> QED BY <1>1, <1>2, <1>3

\* What a load leaves, which reads and then answers or fails.
LEMMA LoadsKeep ==
    ASSUME CacheInv, LoadRead \/ \E ok \in BOOLEAN : LoadEnds(ok)
    PROVE  CacheInv'
<1>1. CASE LoadRead
  <2>1. load' = [step |-> "read", sees |-> Made] /\ Made \in BOOLEAN
    BY <1>1 DEF LoadRead, Made
  <2>2. load' \in LoadUnderWay /\ load'.step = "read" /\ load'.sees = Made /\ load' # NoLoad
    BY <2>1 DEF LoadUnderWay, NoLoad
  <2>3. change = "done" => Made
    BY DEF Made
  <2>4. UNCHANGED <<pair, mounted, entry, change, behind>>
    BY <1>1 DEF LoadRead
  <2>5. NoneEarly'
    BY <2>2, <2>3, <2>4 DEF NoneEarly
  <2>6. CacheTypeOK' /\ FreshForAWhile'
    BY <2>2, <2>4 DEF CacheInv, CacheTypeOK, FreshForAWhile, Fresh
  <2>7. AskedAgain'
    BY <2>2, <2>4 DEF CacheInv, AskedAgain
  <2> QED BY <2>5, <2>6, <2>7 DEF CacheInv
<1>2. ASSUME NEW ok \in BOOLEAN, LoadEnds(ok)
      PROVE  CacheInv'
  <2>1. load.step = "read" /\ load' = NoLoad /\ UNCHANGED <<pair, mounted, change>>
    BY <1>2 DEF LoadEnds
  <2>2. load.sees \in BOOLEAN /\ (change = "done" /\ ~load.sees => behind)
    BY <2>1 DEF CacheInv, CacheTypeOK, LoadUnderWay, NoneEarly, NoLoad, Asked
  <2>3. NoneEarly' /\ load' \in LoadUnderWay
    BY <2>1 DEF NoneEarly, NoLoad, LoadUnderWay
  <2>4. CASE ok
    <3>1. /\ entry' = [has |-> TRUE, sees |-> load.sees, valid |-> TRUE, fresh |-> Fresh]
          /\ behind' = (behind /\ ~load.sees)
      BY <1>2, <2>4 DEF LoadEnds
    <3>2. Fresh \in BOOLEAN /\ Fresh' = Fresh
      BY <2>1, ThePair DEF CacheInv, CacheTypeOK, Fresh
    <3>3. entry' \in CacheEntry /\ entry'.sees = load.sees /\ entry'.fresh = Fresh
      BY <2>2, <3>1, <3>2 DEF CacheEntry
    <3>4. CacheTypeOK'
      BY <2>1, <2>3, <3>1, <3>3 DEF CacheInv, CacheTypeOK
    <3>5. AskedAgain'
      BY <2>1, <2>2, <3>1, <3>3 DEF AskedAgain
    <3> QED BY <2>3, <3>2, <3>3, <3>4, <3>5 DEF CacheInv, FreshForAWhile
  <2>5. CASE ~ok
    <3>1. behind' = TRUE /\ entry' = entry
      BY <1>2, <2>5 DEF LoadEnds
    <3> QED
      BY <2>1, <2>3, <3>1 DEF CacheInv, CacheTypeOK, AskedAgain, FreshForAWhile, Fresh
  <2> QED BY <2>4, <2>5
<1> QED BY <1>1, <1>2

\* A change that has not succeeded says nothing yet.
LEMMA ChangesKeep ==
    ASSUME CacheInv, ChangeSent \/ ChangeEntered \/ ChangeFails
    PROVE  CacheInv'
BY DEF CacheInv, CacheTypeOK, NoneEarly, AskedAgain, FreshForAWhile, Fresh, ChangeSent,
       ChangeEntered, ChangeFails

\* One that has tells the queries it names; the others are never fresh, or listed, or
\* not on its page.
LEMMA DoneKeeps ==
    ASSUME CacheInv, ChangeDone
    PROVE  CacheInv'
<1> DEFINE again == Told /\ mounted /\ (load = NoLoad \/ entry.has)
           early == load.step = "read" /\ ~load.sees
           elsewhere == ~Told /\ mounted /\ pair \notin Together
<1>1. /\ change' = "done" /\ UNCHANGED <<pair, mounted>>
      /\ load' = IF again THEN Asked ELSE load
      /\ entry' = IF Told THEN [entry EXCEPT !.valid = FALSE] ELSE entry
      /\ behind' = (behind \/ (~again /\ early) \/ elsewhere)
  BY DEF ChangeDone
<1>2. /\ entry' \in CacheEntry /\ entry'.has = entry.has /\ entry'.sees = entry.sees
      /\ entry'.fresh = entry.fresh /\ (Told => ~entry'.valid)
  BY <1>1 DEF CacheInv, CacheTypeOK, CacheEntry
<1>3. load' \in LoadUnderWay /\ (again => load' = Asked) /\ (~again => load' = load)
  BY <1>1 DEF CacheInv, CacheTypeOK, LoadUnderWay
<1>4. behind' \in BOOLEAN /\ (behind => behind') /\ (~again /\ early => behind')
      /\ (elsewhere => behind')
  BY <1>1 DEF CacheInv, CacheTypeOK
<1>5. Told \/ pair \in Unheard \/ (~Fresh /\ pair \notin Together)
  BY ThePair DEF CacheInv, CacheTypeOK
<1>6. CacheTypeOK'
  BY <1>1, <1>2, <1>3, <1>4 DEF CacheInv, CacheTypeOK
<1>7. NoneEarly'
  BY <1>3, <1>4 DEF NoneEarly, Asked
<1>8. FreshForAWhile'
  BY <1>1, <1>2 DEF CacheInv, FreshForAWhile, Fresh
<1>9. ASSUME entry.has, ~behind', pair \notin Unheard
      PROVE  (mounted => load' # NoLoad) /\ ~(entry'.valid /\ entry'.fresh)
  <2>1. CASE Told
    BY <1>2, <1>3, <1>9, <2>1 DEF Asked, NoLoad
  <2>2. CASE ~Told
    BY <1>2, <1>4, <1>5, <1>9, <2>2 DEF CacheInv, FreshForAWhile
  <2> QED BY <2>1, <2>2
<1>10. AskedAgain'
  BY <1>1, <1>2, <1>9 DEF AskedAgain
<1> QED BY <1>6, <1>7, <1>8, <1>10 DEF CacheInv

LEMMA CacheInvariance == CacheSpec => []CacheInv
<1>1. CacheInit => CacheInv
  BY CacheStarts
<1>2. CacheInv /\ [CacheNext]_cacheVars => CacheInv'
  <2>1. ASSUME CacheInv, CacheNext
        PROVE  CacheInv'
    BY <2>1, PagesKeep, LoadsKeep, ChangesKeep, DoneKeeps DEF CacheNext
  <2>2. ASSUME CacheInv, UNCHANGED cacheVars
        PROVE  CacheInv'
    BY <2>2 DEF cacheVars, CacheInv, CacheTypeOK, NoneEarly, AskedAgain, FreshForAWhile, Fresh
  <2> QED BY <2>1, <2>2
<1> QED BY <1>1, <1>2, PTL DEF CacheSpec

\* The query, what the cache holds of it, the load and the change under way keep to
\* their types, for every pair of a query and a change that share a table.
THEOREM CacheTypeCorrect == CacheSpec => []CacheTypeOK
<1>1. CacheInv => CacheTypeOK
  BY DEF CacheInv
<1> QED BY <1>1, CacheInvariance, PTL

\* What a page shows once one's own change succeeded and nothing is loading takes the
\* change into account, save for the queries no change tells, a load that failed or had
\* read already, and a page left before the answer: the query keys that the hooks'
\* onSuccess pass to invalidateQueries, against what the services read and write.
THEOREM CacheShowsOwnChange == CacheSpec => []OwnChangeShows
<1>1. CacheInv => OwnChangeShows
  BY DEF CacheInv, AskedAgain, OwnChangeShows
<1> QED BY <1>1, CacheInvariance, PTL

-----------------------------------------------------------------------------
(* The sheets: what is known of the register.                              *)

\* The record of k for the class and the day of key is none, or of another class,
\* or was written since, or is what was read.
Agrees(k, key, read, since) ==
    LET was == register[k][key[2]]
    IN  \/ was = Unmarked \/ was.class # key[1] \/ <<k, key[2]>> \in since
        \/ k \in DOMAIN read /\ was.status = read[k]

\* What the dialog of a club never changes.
ClubTypeInv ==
    kind = "club" =>
        /\ listing = {}
        /\ chosen[1] = FirstKey[1] /\ \A k \in Pupils : place[k] = FirstKey[1]
        /\ sheet \in SheetShown /\ DOMAIN sheet.marks = Pupils
        /\ save.step = "sent" => DOMAIN save.marks = Pupils

SheetTypeInv == SheetTypeOK /\ ClubTypeInv

\* What was read agrees with the register but for what was written since, the save
\* under way included.
LoadInv ==
    \A l \in reading : l.seen # Unread =>
        /\ \A k \in Pupils : Agrees(k, l.of, l.seen, l.late)
        /\ save.step = "sent" /\ l.of[2] = save.key[2] =>
             \A k \in DOMAIN save.marks : <<k, l.of[2]>> \in l.late

\* Who is on the list of a class is in it, or was moved.
ListInv ==
    \A c \in SheetClasses : IsList(lists[c]) => \A k \in lists[c] : place[k] = c \/ k \in moved

\* The records of the class and the day chosen could be read, and no load of them
\* is under way.
UpToDate == chosen \notin broken /\ \A l \in reading : l.of # chosen

CurrentInv ==
    kind = "class" /\ UpToDate /\ save.step # "done" /\ records[chosen] # Unread =>
        \A k \in Pupils : Agrees(k, chosen, records[chosen], news)

\* The sheet of a class is that of the list and the records shown, but for what
\* was chosen on it.
MadeOf(pupils, rs) ==
    /\ pupils # Unread /\ rs # Unread
    /\ DOMAIN sheet.marks = pupils
    /\ \A k \in pupils \ sheet.touched : sheet.marks[k] = NewSheet(pupils, rs).marks[k]
MadeInv ==
    kind = "class" /\ sheet # NoSheet =>
        MadeOf(ListShown(chosen[1], lists, kept), RecordsShown(chosen, records, broken))

\* The map of a club agrees with the register on the day it holds, but for what was
\* chosen on it; and with the save of that day under way.
ClubInv ==
    kind = "club" => \A key \in filled :
        /\ \A k \in Pupils \ sheet.touched : Agrees(k, key, sheet.marks, news)
        /\ save.step = "sent" /\ save.key[2] = key[2] =>
             \A k \in Pupils \ sheet.touched :
                 sheet.marks[k] = save.marks[k] \/ <<k, key[2]>> \in news

\* What a save under way will write.
SaveInv ==
    save.step = "sent" => \A k \in DOMAIN save.marks :
        /\ place[k] = save.key[1] \/ save.borrowed \/ k \in moved
        /\ k \in save.touched \/ save.loose \/ save.stray \/ Agrees(k, save.key, save.marks, save.over)

SheetInv ==
    SheetTypeInv /\ LoadInv /\ ListInv /\ CurrentInv /\ MadeInv /\ ClubInv /\ SaveInv

\* A key is a class and a day.
LEMMA KeysArePairs ==
    ASSUME NEW key \in SheetKeys
    PROVE  key[1] \in SheetClasses /\ key[2] \in SheetDays /\ key = <<key[1], key[2]>>
BY KeysAreClassAndDay

\* Of two classes on a day.
LEMMA KeysDiffer ==
    ASSUME NEW a \in SheetKeys, NEW b \in SheetKeys, a # b, a[2] = b[2]
    PROVE  a[1] # b[1]
BY KeysArePairs

LEMMA StatusesOfPupils ==
    ASSUME NEW f
    PROVE  f \in Statuses <=> /\ f = [k \in DOMAIN f |-> f[k]] /\ DOMAIN f \subseteq Pupils
                              /\ \A k \in DOMAIN f : f[k] \in Marks
BY DEF Statuses

LEMMA NewSheetType ==
    ASSUME NEW pupils \in SUBSET Pupils, NEW rs \in Statuses
    PROVE  /\ NewSheet(pupils, rs) \in SheetShown
           /\ DOMAIN NewSheet(pupils, rs).marks = pupils /\ NewSheet(pupils, rs).touched = {}
           /\ \A k \in pupils : NewSheet(pupils, rs).marks[k] = IF k \in DOMAIN rs THEN rs[k]
                                                                ELSE "PRESENT"
<1>1. [k \in pupils |-> IF k \in DOMAIN rs THEN rs[k] ELSE "PRESENT"] \in Statuses
  BY StatusesOfPupils DEF Marks, Statuses
<1> QED BY <1>1 DEF NewSheet, SheetShown

\* What is read agrees with the register.
LEMMA RecordsReadAgree ==
    ASSUME SheetTypeOK, NEW key \in SheetKeys, NEW since
    PROVE  /\ RecordsOf(key) \in Statuses
           /\ \A k \in Pupils : Agrees(k, key, RecordsOf(key), since)
           /\ \A k \in DOMAIN RecordsOf(key) : k \in Pupils /\ register[k][key[2]] # Unmarked
                                               /\ register[k][key[2]].class = key[1]
<1> DEFINE There == {p \in Pupils : register[p][key[2]] # Unmarked
                                    /\ register[p][key[2]].class = key[1]}
<1>1. RecordsOf(key) = [k \in There |-> register[k][key[2]].status]
  BY DEF RecordsOf
<1>2. \A k \in There : register[k][key[2]].status \in Marks
  BY KeysArePairs DEF SheetTypeOK, SheetRecord
<1>3. RecordsOf(key) \in Statuses
  <2>1. RecordsOf(key) \in [There -> Marks] /\ There \in SUBSET Pupils
    BY <1>1, <1>2
  <2> HIDE DEF There
  <2> QED BY <2>1 DEF Statuses
<1>4. DOMAIN RecordsOf(key) = There
  BY <1>1
<1>5. \A k \in There : RecordsOf(key)[k] = register[k][key[2]].status
  BY <1>1
<1> QED BY <1>3, <1>4, <1>5 DEF Agrees

\* The loads after one is asked for.
LEMMA LoadsAsked ==
    ASSUME SheetTypeOK, NEW key \in SheetKeys
    PROVE  /\ Ask(key) \in RecordsLoad
           /\ \A asked \in {Reads(key), Rereads(key)} :
                /\ asked \subseteq RecordsLoad
                /\ \E l \in asked : l.of = key
                /\ \A l \in asked : l \in reading \/ (l = Ask(key) /\ l.seen = Unread)
<1>1. Ask(key) \in RecordsLoad /\ Ask(key).of = key /\ Ask(key).seen = Unread
  BY DEF Ask, RecordsLoad
<1> QED BY <1>1 DEF Reads, Rereads, SheetTypeOK

-----------------------------------------------------------------------------
(* What the page of a class shows.                                         *)

LEMMA ListShownType ==
    ASSUME NEW ls \in [SheetClasses -> (SUBSET Pupils) \cup {Unread, Failed}],
           NEW last \in SheetClasses \cup {Unread}, NEW c \in SheetClasses
    PROVE  ListShown(c, ls, last) \in (SUBSET Pupils) \cup {Unread}
<1>1. ListOf(c, ls, last) \in SheetClasses \cup {Unread}
  BY DEF ListOf
<1> QED BY <1>1 DEF ListShown

LEMMA RecordsShownType ==
    ASSUME NEW rs \in [SheetKeys -> Statuses \cup {Unread}], NEW bs, NEW key \in SheetKeys
    PROVE  RecordsShown(key, rs, bs) \in Statuses \cup {Unread}
<1>1. [k \in {} |-> "PRESENT"] \in Statuses
  BY StatusesOfPupils, {} \in SUBSET Pupils DEF Statuses
<1> QED BY <1>1 DEF RecordsShown

PageTypeOK ==
    /\ chosen \in SheetKeys
    /\ lists \in [SheetClasses -> (SUBSET Pupils) \cup {Unread, Failed}]
    /\ kept \in SheetClasses \cup {Unread}
    /\ records \in [SheetKeys -> Statuses \cup {Unread}]

ShownNow == ListShown(chosen[1], lists, kept)
RecordsNow == RecordsShown(chosen, records, broken)

\* The page is left without a sheet, or with a new one, or as it is when what the
\* sheet was made from is the same.
LEMMA Rendered ==
    ASSUME PageTypeOK', Render
    PROVE  \/ sheet' = NoSheet
           \/ /\ ShownNow' \in SUBSET Pupils /\ RecordsNow' \in Statuses
              /\ ShownNow' # Unread /\ RecordsNow' # Unread
              /\ sheet' = NewSheet(ShownNow', RecordsNow')
           \/ sheet' = sheet /\ sheet # NoSheet /\ ShownNow' = ShownNow /\ RecordsNow' = RecordsNow
<1>1. ShownNow' \in (SUBSET Pupils) \cup {Unread}
  BY ListShownType, KeysArePairs DEF PageTypeOK, ShownNow
<1>2. RecordsNow' \in Statuses \cup {Unread}
  BY RecordsShownType DEF PageTypeOK, RecordsNow
<1>3. Dependencies(chosen, lists, kept, records, broken)
        = Dependencies(chosen', lists', kept', records', broken')
      => ShownNow' = ShownNow /\ RecordsNow' = RecordsNow
  BY DEF Dependencies, ShownNow, RecordsNow
<1>4. Render => \/ sheet' = NoSheet
                \/ /\ ShownNow' # Unread /\ RecordsNow' # Unread
                   /\ sheet' = NewSheet(ShownNow', RecordsNow')
                \/ /\ sheet' = sheet /\ sheet # NoSheet
                   /\ Dependencies(chosen, lists, kept, records, broken)
                        = Dependencies(chosen', lists', kept', records', broken')
  BY DEF Render, ShownNow, RecordsNow
<1> QED BY <1>1, <1>2, <1>3, <1>4

LEMMA RenderKeeps ==
    ASSUME PageTypeOK', Render, sheet \in SheetShown \cup {NoSheet},
           sheet # NoSheet => MadeOf(ShownNow, RecordsNow)
    PROVE  /\ sheet' \in SheetShown \cup {NoSheet}
           /\ sheet' # NoSheet => MadeOf(ShownNow, RecordsNow)'
<1>1. CASE sheet' = NoSheet
  BY <1>1
<1>2. CASE /\ ShownNow' \in SUBSET Pupils /\ RecordsNow' \in Statuses
           /\ ShownNow' # Unread /\ RecordsNow' # Unread
           /\ sheet' = NewSheet(ShownNow', RecordsNow')
  BY <1>2, NewSheetType DEF MadeOf
<1>3. CASE sheet' = sheet /\ sheet # NoSheet /\ ShownNow' = ShownNow /\ RecordsNow' = RecordsNow
  BY <1>3 DEF MadeOf
<1> QED BY <1>1, <1>2, <1>3, Rendered

-----------------------------------------------------------------------------
(* The types.                                                              *)

LEMMA LoadIsLate ==
    ASSUME NEW l \in RecordsLoad, NEW late \in SUBSET PupilDays
    PROVE  LET m == [l EXCEPT !.late = late]
           IN  m \in RecordsLoad /\ m.of = l.of /\ m.seen = l.seen /\ m.late = late
BY DEF RecordsLoad

\* The loads after somebody wrote: those that had read are late for it.
LEMMA LoadsOvertaken ==
    ASSUME SheetTypeOK, NEW pupils \in SUBSET Pupils
    PROVE  /\ Overtaken(pupils) \subseteq RecordsLoad
           /\ \A m \in Overtaken(pupils) : \E l \in reading :
                /\ m.of = l.of /\ m.seen = l.seen /\ l.late \subseteq m.late
                /\ l.seen # Unread /\ l.of[2] = chosen[2] =>
                     \A k \in pupils : <<k, chosen[2]>> \in m.late
           /\ \A l \in reading : \E m \in Overtaken(pupils) : m.of = l.of
<1> DEFINE g(l) == IF l.of[2] = chosen[2] /\ l.seen # Unread
                     THEN [l EXCEPT !.late = @ \cup (pupils \X {chosen[2]})] ELSE l
<1>1. Overtaken(pupils) = {g(l) : l \in reading}
  BY DEF Overtaken
<1>2. ASSUME NEW l \in reading
      PROVE  /\ g(l) \in RecordsLoad /\ g(l).of = l.of /\ g(l).seen = l.seen
             /\ l.late \subseteq g(l).late
             /\ l.seen # Unread /\ l.of[2] = chosen[2] =>
                  \A k \in pupils : <<k, chosen[2]>> \in g(l).late
  <2>1. l \in RecordsLoad /\ chosen \in SheetKeys
    BY DEF SheetTypeOK
  <2>2. l.late \cup (pupils \X {chosen[2]}) \in SUBSET PupilDays
    BY <2>1, KeysArePairs DEF RecordsLoad, PupilDays
  <2>3. CASE l.of[2] = chosen[2] /\ l.seen # Unread
    <3>1. g(l) = [l EXCEPT !.late = l.late \cup (pupils \X {chosen[2]})]
      BY <2>3
    <3> QED BY <3>1, <2>1, <2>2, LoadIsLate
  <2> QED BY <2>1, <2>3
<1> HIDE DEF g
<1> QED BY <1>1, <1>2

\* And after another one wrote.
LEMMA LoadsWrittenOver ==
    ASSUME SheetTypeOK, NEW k \in Pupils, NEW d \in SheetDays,
           reading' = {IF l.seen = Unread THEN l ELSE [l EXCEPT !.late = @ \cup {<<k, d>>}] :
                         l \in reading}
    PROVE  /\ reading' \subseteq RecordsLoad
           /\ \A m \in reading' : \E l \in reading :
                /\ m.of = l.of /\ m.seen = l.seen /\ l.late \subseteq m.late
                /\ l.seen # Unread => <<k, d>> \in m.late
           /\ \A l \in reading : \E m \in reading' : m.of = l.of
<1> DEFINE g(l) == IF l.seen = Unread THEN l ELSE [l EXCEPT !.late = @ \cup {<<k, d>>}]
<1>1. reading' = {g(l) : l \in reading}
  OBVIOUS
<1>2. ASSUME NEW l \in reading
      PROVE  /\ g(l) \in RecordsLoad /\ g(l).of = l.of /\ g(l).seen = l.seen
             /\ l.late \subseteq g(l).late
             /\ l.seen # Unread => <<k, d>> \in g(l).late
  <2>1. l \in RecordsLoad
    BY DEF SheetTypeOK
  <2>2. l.late \cup {<<k, d>>} \in SUBSET PupilDays
    BY <2>1 DEF RecordsLoad, PupilDays
  <2>3. CASE l.seen # Unread
    <3>1. g(l) = [l EXCEPT !.late = l.late \cup {<<k, d>>}]
      BY <2>3
    <3> QED BY <3>1, <2>1, <2>2, LoadIsLate
  <2> QED BY <2>1, <2>3
<1> HIDE DEF g
<1> QED BY <1>1, <1>2

\* A load that has read is late for the save that was under way then.
LEMMA LoadHasRead ==
    ASSUME SheetTypeOK, NEW l \in reading, RecordsRead(l)
    PROVE  \E m \in RecordsLoad :
             /\ m.of = l.of /\ m.seen = RecordsOf(l.of)
             /\ save.step = "sent" /\ save.key[2] = l.of[2] =>
                  \A k \in DOMAIN save.marks : <<k, l.of[2]>> \in m.late
             /\ reading' = (reading \ {l}) \cup {m}
<1> DEFINE late == IF save.step = "sent" /\ save.key[2] = l.of[2]
                     THEN (DOMAIN save.marks) \X {l.of[2]} ELSE {}
           m == [l EXCEPT !.seen = RecordsOf(l.of), !.late = late]
<1>1. l \in RecordsLoad /\ l.of \in SheetKeys
  BY DEF SheetTypeOK, RecordsLoad
<1>2. save.step = "sent" => DOMAIN save.marks \subseteq Pupils
  BY StatusesOfPupils DEF SheetTypeOK, SaveSent
<1>3. late \in SUBSET PupilDays
  BY <1>1, <1>2, KeysArePairs DEF PupilDays
<1>4. RecordsOf(l.of) \in {Unread} \cup Statuses
  BY <1>1, RecordsReadAgree
<1>5. m \in RecordsLoad /\ m.of = l.of /\ m.seen = RecordsOf(l.of) /\ m.late = late
  <2> HIDE DEF late
  <2> QED BY <1>1, <1>3, <1>4 DEF RecordsLoad
<1>6. reading' = (reading \ {l}) \cup {m}
  BY DEF RecordsRead
<1>7. save.step = "sent" /\ save.key[2] = l.of[2] =>
        \A k \in DOMAIN save.marks : <<k, l.of[2]>> \in m.late
  BY <1>5
<1> HIDE DEF m
<1> QED BY <1>5, <1>6, <1>7

LEMMA RenderType ==
    ASSUME PageTypeOK', Render, sheet \in SheetShown \cup {NoSheet}
    PROVE  sheet' \in SheetShown \cup {NoSheet}
<1>1. CASE sheet' = NoSheet
  BY <1>1
<1>2. CASE /\ ShownNow' \in SUBSET Pupils /\ RecordsNow' \in Statuses
           /\ sheet' = NewSheet(ShownNow', RecordsNow')
  BY <1>2, NewSheetType
<1>3. CASE sheet' = sheet
  BY <1>3
<1> QED BY <1>1, <1>2, <1>3, Rendered

\* The failures still count.
LEMMA FailuresCount ==
    ASSUME failures \in Nat, NEW b \in BOOLEAN, Failing(b)
    PROVE  failures' \in Nat
BY DEF Failing

LEMMA EnteredType ==
    ASSUME SheetTypeOK, NEW k \in Pupils, NEW d \in SheetDays, NEW class \in SheetClasses,
           NEW status \in Marks
    PROVE  /\ Enter(k, d, class, status) \in SheetRecord
           /\ Enter(k, d, class, status).status = status
           /\ Enter(k, d, class, status).class = IF register[k][d] = Unmarked THEN class
                                                 ELSE register[k][d].class
BY DEF Enter, SheetTypeOK, SheetRecord

\* What a save writes, and what it leaves.
LEMMA SaveWrites ==
    ASSUME SheetTypeOK, NEW part \in SUBSET Pupils, NEW step, SaveEntered(part, step)
    PROVE  /\ save \in SaveSent /\ part \subseteq DOMAIN save.marks
           /\ save.key[1] \in SheetClasses /\ save.key[2] \in SheetDays
           /\ register' \in [Pupils -> [SheetDays -> SheetRecord \cup {Unmarked}]]
           /\ \A k \in Pupils, d \in SheetDays :
                register'[k][d] = IF k \in part /\ d = save.key[2]
                                    THEN Enter(k, d, save.key[1], save.marks[k])
                                    ELSE register[k][d]
<1>1. save \in SaveSent /\ part \subseteq DOMAIN save.marks
  BY DEF SaveEntered, SheetTypeOK
<1>2. save.key[1] \in SheetClasses /\ save.key[2] \in SheetDays
  BY <1>1, KeysArePairs DEF SaveSent
<1>3. \A k \in part : save.marks[k] \in Marks
  BY <1>1, StatusesOfPupils DEF SaveSent
<1>4. \A k \in part : Enter(k, save.key[2], save.key[1], save.marks[k]) \in SheetRecord
  BY <1>2, <1>3, EnteredType
<1>5. register' = [k \in Pupils |-> IF k \notin part THEN register[k]
         ELSE [register[k] EXCEPT
                  ![save.key[2]] = Enter(k, save.key[2], save.key[1], save.marks[k])]]
  BY DEF SaveEntered
<1>6. \A k \in Pupils : register[k] \in [SheetDays -> SheetRecord \cup {Unmarked}]
  BY DEF SheetTypeOK
<1> QED BY <1>1, <1>2, <1>4, <1>5, <1>6

\* What another one writes.
LEMMA OtherWrites ==
    ASSUME SheetTypeOK, NEW k \in Pupils, NEW d \in SheetDays, NEW status \in Marks,
           Other(k, d, status)
    PROVE  /\ register' \in [Pupils -> [SheetDays -> SheetRecord \cup {Unmarked}]]
           /\ \A j \in Pupils, e \in SheetDays :
                register'[j][e] = IF j = k /\ e = d THEN Enter(k, d, place[k], status)
                                  ELSE register[j][e]
<1>1. Enter(k, d, place[k], status) \in SheetRecord
  BY EnteredType DEF SheetTypeOK
<1>2. register \in [Pupils -> [SheetDays -> SheetRecord \cup {Unmarked}]]
  BY DEF SheetTypeOK
<1>3. register' = [register EXCEPT ![k][d] = Enter(k, d, place[k], status)]
  BY DEF Other
<1> QED BY <1>1, <1>2, <1>3

\* A save under way as another one writes.
LEMMA SaveWrittenOver ==
    ASSUME SheetTypeOK, NEW k \in Pupils, NEW d \in SheetDays,
           save' = IF save.step = "sent" THEN [save EXCEPT !.over = @ \cup {<<k, d>>}] ELSE save
    PROVE  /\ save' \in SaveSent \cup [step : {"idle", "done", "refused"}]
           /\ save'.step = save.step
           /\ save.step = "sent" =>
                /\ save \in SaveSent /\ save' \in SaveSent
                /\ save'.key = save.key /\ save'.marks = save.marks
                /\ save'.touched = save.touched /\ save'.borrowed = save.borrowed
                /\ save'.loose = save.loose /\ save'.stray = save.stray
                /\ save'.over = save.over \cup {<<k, d>>}
<1>1. CASE save.step = "sent"
  <2>1. save \in SaveSent
    BY <1>1 DEF SheetTypeOK
  <2>2. save.over \cup {<<k, d>>} \in SUBSET PupilDays
    BY <2>1 DEF SaveSent, PupilDays
  <2>3. save' = [save EXCEPT !.over = save.over \cup {<<k, d>>}]
    BY <1>1
  <2> QED BY <1>1, <2>1, <2>2, <2>3 DEF SaveSent
<1>2. CASE save.step # "sent"
  BY <1>2 DEF SheetTypeOK
<1> QED BY <1>1, <1>2

LEMMA NewsStaysType ==
    ASSUME SheetTypeOK, NEW l \in reading
    PROVE  NewsAfter(l) \in SUBSET PupilDays
BY DEF SheetTypeOK, NewsAfter, RecordsLoad

LEMMA SheetTypesKept ==
    ASSUME SheetTypeInv, SheetNext
    PROVE  SheetTypeInv'
<1> USE DEF SheetTypeInv
<1>1. ASSUME NEW key \in SheetKeys, Choose(key)
      PROVE  SheetTypeInv'
  <2>1. kind = "class" /\ kind' = kind /\ chosen' = key /\ chosen' \in SheetKeys
    BY <1>1 DEF Choose, SheetTypeOK
  <2>2. lists' \in [SheetClasses -> (SUBSET Pupils) \cup {Unread, Failed}]
    BY <1>1 DEF Choose, SheetTypeOK
  <2>3. kept' \in SheetClasses \cup {Unread} /\ records' = records
    BY <1>1, KeysArePairs DEF Choose, SheetTypeOK
  <2>4. PageTypeOK'
    BY <2>1, <2>2, <2>3 DEF PageTypeOK, SheetTypeOK
  <2>5. sheet' \in SheetShown \cup {NoSheet}
    BY <1>1, <2>4, RenderType DEF Choose, SheetTypeOK
  <2>6. broken' \subseteq SheetKeys /\ reading' \subseteq RecordsLoad
    BY <1>1, LoadsAsked DEF Choose, Hopeful, SheetTypeOK
  <2>7. listing' \subseteq SheetClasses
    BY <1>1, KeysArePairs DEF Choose, SheetTypeOK
  <2>8. choices' \in Nat
    BY <1>1 DEF Choose, SheetTypeOK
  <2> QED
    BY <1>1, <2>1, <2>2, <2>3, <2>5, <2>6, <2>7, <2>8 DEF Choose, SheetTypeOK, ClubTypeInv
<1>2. ASSUME NEW d \in SheetDays, ChooseDay(d)
      PROVE  SheetTypeInv'
  <2>1. chosen' \in SheetKeys /\ chosen'[1] = FirstKey[1]
    BY <1>2, KeysAreClassAndDay DEF ChooseDay, ClubTypeInv
  <2>2. reading' \subseteq RecordsLoad
    BY <1>2, <2>1, LoadsAsked DEF ChooseDay
  <2>3. choices' \in Nat
    BY <1>2 DEF ChooseDay, SheetTypeOK
  <2> QED BY <1>2, <2>1, <2>2, <2>3 DEF ChooseDay, SheetTypeOK, ClubTypeInv
<1>3. ASSUME NEW c \in listing, NEW ok \in BOOLEAN, ListAnswered(c, ok)
      PROVE  SheetTypeInv'
  <2>1. kind = "class"
    BY <1>3 DEF ClubTypeInv, SheetTypeOK
  <2>2. lists' \in [SheetClasses -> (SUBSET Pupils) \cup {Unread, Failed}]
    BY <1>3 DEF ListAnswered, SheetTypeOK
  <2>3. PageTypeOK'
    BY <1>3, <2>2 DEF PageTypeOK, SheetTypeOK, ListAnswered
  <2>4. sheet' \in SheetShown \cup {NoSheet}
    BY <1>3, <2>3, RenderType DEF ListAnswered, SheetTypeOK
  <2>5. failures' \in Nat
    BY <1>3, FailuresCount DEF ListAnswered, SheetTypeOK
  <2> QED BY <1>3, <2>1, <2>2, <2>4, <2>5 DEF ListAnswered, SheetTypeOK, ClubTypeInv
<1>4. ASSUME NEW l \in reading, RecordsRead(l)
      PROVE  SheetTypeInv'
  <2>1. reading' \subseteq RecordsLoad
    BY <1>4, LoadHasRead DEF SheetTypeOK
  <2> QED BY <1>4, <2>1 DEF RecordsRead, pageVars, SheetTypeOK, ClubTypeInv
<1>5. ASSUME NEW l \in reading, NEW ok \in BOOLEAN, RecordsAnswered(l, ok)
      PROVE  SheetTypeInv'
  <2>1. kind = "class" /\ l \in RecordsLoad /\ l.seen # Unread
    BY <1>5 DEF RecordsAnswered, SheetTypeOK
  <2>2. l.of \in SheetKeys /\ l.seen \in Statuses
    BY <2>1 DEF RecordsLoad
  <2>3. records' \in [SheetKeys -> Statuses \cup {Unread}]
    BY <1>5, <2>2 DEF RecordsAnswered, SheetTypeOK
  <2>4. PageTypeOK'
    BY <1>5, <2>3 DEF PageTypeOK, SheetTypeOK, RecordsAnswered
  <2>5. sheet' \in SheetShown \cup {NoSheet}
    BY <1>5, <2>4, RenderType DEF RecordsAnswered, SheetTypeOK
  <2>6. failures' \in Nat
    BY <1>5, FailuresCount DEF RecordsAnswered, SheetTypeOK
  <2>7. broken' \subseteq SheetKeys /\ news' \subseteq PupilDays
    BY <1>5, <2>2, NewsStaysType DEF RecordsAnswered, SheetTypeOK
  <2>8. reading' \subseteq RecordsLoad
    BY <1>5 DEF RecordsAnswered, SheetTypeOK
  <2> QED
    BY <1>5, <2>1, <2>3, <2>5, <2>6, <2>7, <2>8 DEF RecordsAnswered, SheetTypeOK, ClubTypeInv
<1>6. ASSUME NEW l \in reading, NEW ok \in BOOLEAN, DayAnswered(l, ok)
      PROVE  SheetTypeInv'
  <2>1. l \in RecordsLoad /\ l.seen \in Statuses
    BY <1>6 DEF DayAnswered, SheetTypeOK, RecordsLoad
  <2>2. sheet' \in SheetShown /\ DOMAIN sheet'.marks = Pupils
    BY <1>6, <2>1, NewSheetType DEF DayAnswered, ClubTypeInv
  <2>3. failures' \in Nat
    BY <1>6, FailuresCount DEF DayAnswered, SheetTypeOK
  <2>4. filled' \subseteq SheetKeys /\ news' \subseteq PupilDays
    BY <1>6, <2>1, NewsStaysType DEF DayAnswered, SheetTypeOK, RecordsLoad
  <2>5. reading' \subseteq RecordsLoad
    BY <1>6 DEF DayAnswered, SheetTypeOK
  <2> QED BY <1>6, <2>2, <2>3, <2>4, <2>5 DEF DayAnswered, SheetTypeOK, ClubTypeInv
<1>7. ASSUME NEW pupils \in SUBSET Pupils, NEW status \in Marks, Mark(pupils, status)
      PROVE  SheetTypeInv'
  <2>1. sheet \in SheetShown /\ sheet.marks \in Statuses /\ sheet.touched \in SUBSET Pupils
    BY <1>7 DEF Mark, SheetTypeOK, SheetShown
  <2> DEFINE marked ==
               [k \in DOMAIN sheet.marks |-> IF k \in pupils THEN status ELSE sheet.marks[k]]
  <2>2. marked \in Statuses
    <3>1. /\ DOMAIN sheet.marks \in SUBSET Pupils
          /\ \A k \in DOMAIN sheet.marks : sheet.marks[k] \in Marks
      BY <2>1, StatusesOfPupils
    <3>2. marked \in [DOMAIN sheet.marks -> Marks]
      BY <3>1
    <3> HIDE DEF marked
    <3> QED BY <3>1, <3>2 DEF Statuses
  <2>3. sheet' = [marks |-> marked, touched |-> sheet.touched \cup pupils]
    BY <1>7 DEF Mark
  <2>4. DOMAIN marked = DOMAIN sheet.marks
    OBVIOUS
  <2> HIDE DEF marked
  <2>5. sheet' \in SheetShown /\ DOMAIN sheet'.marks = DOMAIN sheet.marks
    BY <2>1, <2>2, <2>3, <2>4 DEF SheetShown
  <2> QED BY <1>7, <2>5 DEF Mark, pageVars, SheetTypeOK, ClubTypeInv
<1>8. ASSUME Save
      PROVE  SheetTypeInv'
  <2>1. sheet \in SheetShown /\ sheet.marks \in Statuses /\ sheet.touched \in SUBSET Pupils
    BY <1>8 DEF Save, SheetTypeOK, SheetShown
  <2>2. DOMAIN sheet.marks \in SUBSET Pupils
    BY <2>1, StatusesOfPupils
  <2>3. save' \in SaveSent /\ save'.marks = sheet.marks
    BY <1>8, <2>1 DEF Save, SaveSent, SheetTypeOK
  <2>4. reading' \subseteq RecordsLoad
    BY <1>8, <2>2, LoadsOvertaken DEF Save
  <2>5. PageTypeOK'
    BY <1>8 DEF PageTypeOK, SheetTypeOK, Save, pageVars
  <2>6. sheet' \in SheetShown \cup {NoSheet} /\ (kind = "club" => sheet' = sheet)
    BY <1>8, <2>1, <2>5, RenderType DEF Save
  <2>7. saves' \in Nat
    BY <1>8 DEF Save, SheetTypeOK
  <2> QED
    BY <1>8, <2>3, <2>4, <2>6, <2>7 DEF Save, pageVars, SheetTypeOK, ClubTypeInv
<1>9. ASSUME SaveAnswered
      PROVE  SheetTypeInv'
  <2>1. PageTypeOK'
    BY <1>9 DEF PageTypeOK, SheetTypeOK, SaveAnswered
  <2>2. sheet' \in SheetShown \cup {NoSheet} /\ (kind = "club" => sheet' = sheet)
    BY <1>9, <2>1, RenderType DEF SaveAnswered, SheetTypeOK
  <2>3. broken' \subseteq SheetKeys /\ reading' \subseteq RecordsLoad
    BY <1>9, LoadsAsked DEF SaveAnswered, Hopeful, SheetTypeOK
  <2>4. save'.step = "idle" /\ save' \in [step : {"idle", "done", "refused"}]
    BY <1>9 DEF SaveAnswered, NoSave
  <2> QED BY <1>9, <2>2, <2>3, <2>4 DEF SaveAnswered, SheetTypeOK, ClubTypeInv
<1>10. ASSUME Heard
       PROVE  SheetTypeInv'
  <2>1. PageTypeOK'
    BY <1>10 DEF PageTypeOK, SheetTypeOK, Heard
  <2>2. sheet' \in SheetShown \cup {NoSheet}
    BY <1>10, <2>1, RenderType DEF Heard, SheetTypeOK
  <2>3. broken' \subseteq SheetKeys /\ reading' \subseteq RecordsLoad
    BY <1>10, LoadsAsked DEF Heard, Hopeful, SheetTypeOK
  <2>4. others' \in Nat
    BY <1>10 DEF Heard, SheetTypeOK
  <2> QED BY <1>10, <2>2, <2>3, <2>4 DEF Heard, SheetTypeOK, ClubTypeInv
<1>11. ASSUME NEW part \in SUBSET Pupils, NEW step \in {"done", "refused"}, SaveEntered(part, step)
       PROVE  SheetTypeInv'
  <2>1. save \in SaveSent /\ save.key[2] \in SheetDays
        /\ register' \in [Pupils -> [SheetDays -> SheetRecord \cup {Unmarked}]]
    BY <1>11, SaveWrites
  <2>2. news' \subseteq PupilDays
    BY <1>11, <2>1 DEF SaveEntered, SheetTypeOK, PupilDays
  <2>3. save' \in [step : {"idle", "done", "refused"}] /\ save'.step # "sent"
    BY <1>11 DEF SaveEntered
  <2>4. failures' \in Nat
    BY <1>11, FailuresCount DEF SaveEntered, SheetTypeOK
  <2> QED BY <1>11, <2>1, <2>2, <2>3, <2>4 DEF SaveEntered, pageVars, SheetTypeOK, ClubTypeInv
<1>12. ASSUME NEW k \in Pupils, NEW d \in SheetDays, NEW status \in Marks, Other(k, d, status)
       PROVE  SheetTypeInv'
  <2>1. register' \in [Pupils -> [SheetDays -> SheetRecord \cup {Unmarked}]]
    BY <1>12, OtherWrites
  <2>2. reading' \subseteq RecordsLoad
    BY <1>12, LoadsWrittenOver DEF Other
  <2>3. /\ save' \in SaveSent \cup [step : {"idle", "done", "refused"}] /\ save'.step = save.step
        /\ save.step = "sent" => save'.marks = save.marks
    BY <1>12, SaveWrittenOver DEF Other
  <2>4. news' \subseteq PupilDays
    BY <1>12 DEF Other, SheetTypeOK, PupilDays
  <2>5. others' \in Nat
    BY <1>12 DEF Other, SheetTypeOK
  <2> QED
    BY <1>12, <2>1, <2>2, <2>3, <2>4, <2>5 DEF Other, pageVars, SheetTypeOK, ClubTypeInv
<1>13. ASSUME NEW k \in Pupils, NEW c \in SheetClasses, Move(k, c)
       PROVE  SheetTypeInv'
  BY <1>13 DEF Move, pageVars, SheetTypeOK, ClubTypeInv
<1> QED
  BY <1>1, <1>2, <1>3, <1>4, <1>5, <1>6, <1>7, <1>8, <1>9, <1>10, <1>11, <1>12, <1>13
  DEF SheetNext, SheetStep

-----------------------------------------------------------------------------
(* The loads and the lists.                                                *)

\* The loads that have read are those there were, later for more perhaps, and
\* the save under way is none or the one there was.
LEMMA LoadsStayLate ==
    ASSUME LoadInv, register' = register,
           \A l \in reading' : l.seen # Unread =>
             \E m \in reading : m.of = l.of /\ m.seen = l.seen /\ m.late \subseteq l.late,
           save'.step = "sent" => save' = save
    PROVE  LoadInv'
BY DEF LoadInv, Agrees

LEMMA LoadKept ==
    ASSUME SheetTypeInv, LoadInv, SheetNext
    PROVE  LoadInv'
<1> USE DEF SheetTypeInv
<1>1. ASSUME NEW key \in SheetKeys, Choose(key)
      PROVE  LoadInv'
  BY <1>1, LoadsAsked, LoadsStayLate DEF Choose
<1>2. ASSUME NEW d \in SheetDays, ChooseDay(d)
      PROVE  LoadInv'
  <2>1. chosen' \in SheetKeys
    BY <1>2, KeysAreClassAndDay DEF ChooseDay, ClubTypeInv
  <2>2. reading' = Reads(chosen') /\ register' = register /\ save' = save
    BY <1>2 DEF ChooseDay
  <2> QED BY <2>1, <2>2, LoadsAsked, LoadsStayLate
<1>3. ASSUME NEW c \in listing, NEW ok \in BOOLEAN, ListAnswered(c, ok)
      PROVE  LoadInv'
  BY <1>3, LoadsStayLate DEF ListAnswered
<1>4. ASSUME NEW l \in reading, RecordsRead(l)
      PROVE  LoadInv'
  <2>1. PICK m \in RecordsLoad :
             /\ m.of = l.of /\ m.seen = RecordsOf(l.of)
             /\ save.step = "sent" /\ save.key[2] = l.of[2] =>
                  \A k \in DOMAIN save.marks : <<k, l.of[2]>> \in m.late
             /\ reading' = (reading \ {l}) \cup {m}
    BY <1>4, LoadHasRead
  <2>2. l.of \in SheetKeys /\ register' = register /\ save' = save
    BY <1>4 DEF RecordsRead, SheetTypeOK, RecordsLoad
  <2>3. \A k \in Pupils : Agrees(k, m.of, m.seen, m.late)
    BY <2>1, <2>2, RecordsReadAgree
  <2> QED BY <2>1, <2>2, <2>3 DEF LoadInv, Agrees
<1>5. ASSUME NEW l \in reading, NEW ok \in BOOLEAN, RecordsAnswered(l, ok) \/ DayAnswered(l, ok)
      PROVE  LoadInv'
  BY <1>5, LoadsStayLate DEF RecordsAnswered, DayAnswered
<1>6. ASSUME NEW pupils \in SUBSET Pupils, NEW status \in Marks, Mark(pupils, status)
      PROVE  LoadInv'
  BY <1>6, LoadsStayLate DEF Mark
<1>7. ASSUME Save
      PROVE  LoadInv'
  <2>1. DOMAIN sheet.marks \in SUBSET Pupils
    BY <1>7, StatusesOfPupils DEF Save, SheetTypeOK, SheetShown
  <2>2. \A m \in reading' : \E l \in reading :
          /\ m.of = l.of /\ m.seen = l.seen /\ l.late \subseteq m.late
          /\ l.seen # Unread /\ l.of[2] = chosen[2] =>
               \A k \in DOMAIN sheet.marks : <<k, chosen[2]>> \in m.late
    BY <1>7, <2>1, LoadsOvertaken DEF Save
  <2>3. save'.key = chosen /\ save'.marks = sheet.marks /\ register' = register
    BY <1>7 DEF Save
  <2> QED BY <2>2, <2>3 DEF LoadInv, Agrees
<1>8. ASSUME SaveAnswered
      PROVE  LoadInv'
  <2>1. register' = register /\ save'.step # "sent"
    BY <1>8 DEF SaveAnswered, NoSave
  <2>2. \A l \in reading' : l.seen # Unread => l \in reading
    BY <1>8, LoadsAsked DEF SaveAnswered, SheetTypeOK
  <2> QED BY <2>1, <2>2, LoadsStayLate
<1>9. ASSUME Heard
      PROVE  LoadInv'
  BY <1>9, LoadsAsked, LoadsStayLate DEF Heard, SheetTypeOK
<1>10. ASSUME NEW part \in SUBSET Pupils, NEW step \in {"done", "refused"}, SaveEntered(part, step)
       PROVE  LoadInv'
  <2>1. save.step = "sent" /\ save'.step # "sent" /\ reading' = reading /\ save \in SaveSent
        /\ part \subseteq DOMAIN save.marks
    BY <1>10, SaveWrites DEF SaveEntered
  <2>2. \A k \in Pupils, d \in SheetDays :
          register'[k][d] = register[k][d] \/ (k \in part /\ d = save.key[2])
    BY <1>10, SaveWrites
  <2>3. ASSUME NEW l \in reading, l.seen # Unread, NEW k \in Pupils
        PROVE  Agrees(k, l.of, l.seen, l.late)'
    <3>1. l.of[2] \in SheetDays
      BY KeysArePairs DEF SheetTypeOK, RecordsLoad
    <3>2. Agrees(k, l.of, l.seen, l.late)
      BY <2>3 DEF LoadInv
    <3>3. l.of[2] = save.key[2] => \A j \in DOMAIN save.marks : <<j, l.of[2]>> \in l.late
      BY <2>1, <2>3 DEF LoadInv
    <3> QED BY <2>1, <2>2, <3>1, <3>2, <3>3 DEF Agrees
  <2> QED BY <2>1, <2>3 DEF LoadInv
<1>11. ASSUME NEW k \in Pupils, NEW d \in SheetDays, NEW status \in Marks, Other(k, d, status)
       PROVE  LoadInv'
  <2>1. \A m \in reading' : \E l \in reading :
          /\ m.of = l.of /\ m.seen = l.seen /\ l.late \subseteq m.late
          /\ l.seen # Unread => <<k, d>> \in m.late
    BY <1>11, LoadsWrittenOver DEF Other
  <2>2. /\ save'.step = save.step
        /\ save.step = "sent" => save'.key = save.key /\ save'.marks = save.marks
    BY <1>11, SaveWrittenOver DEF Other
  <2>3. \A j \in Pupils, e \in SheetDays :
          register'[j][e] = register[j][e] \/ (j = k /\ e = d)
    BY <1>11, OtherWrites
  <2>4. ASSUME NEW m \in reading', m.seen # Unread, NEW j \in Pupils
        PROVE  Agrees(j, m.of, m.seen, m.late)'
    <3>1. PICK l \in reading : /\ m.of = l.of /\ m.seen = l.seen /\ l.late \subseteq m.late
                               /\ <<k, d>> \in m.late
      BY <2>1, <2>4
    <3>2. Agrees(j, l.of, l.seen, l.late)
      BY <2>4, <3>1 DEF LoadInv
    <3>3. m.of[2] \in SheetDays
      BY <3>1, KeysArePairs DEF SheetTypeOK, RecordsLoad
    <3> QED BY <2>3, <3>1, <3>2, <3>3 DEF Agrees
  <2> QED BY <2>1, <2>2, <2>4 DEF LoadInv
<1>12. ASSUME NEW k \in Pupils, NEW c \in SheetClasses, Move(k, c)
       PROVE  LoadInv'
  BY <1>12, LoadsStayLate DEF Move
<1> QED
  BY <1>1, <1>2, <1>3, <1>4, <1>5, <1>6, <1>7, <1>8, <1>9, <1>10, <1>11, <1>12
  DEF SheetNext, SheetStep

LEMMA ListKept ==
    ASSUME SheetTypeInv, ListInv, SheetNext
    PROVE  ListInv'
<1> USE DEF SheetTypeInv
<1>1. ASSUME place' = place, moved' = moved,
             \A c \in SheetClasses : IsList(lists'[c]) => lists'[c] = lists[c]
      PROVE  ListInv'
  BY <1>1 DEF ListInv
<1>2. ASSUME NEW key \in SheetKeys, Choose(key)
      PROVE  ListInv'
  BY <1>1, <1>2 DEF Choose, SheetTypeOK, IsList
<1>3. ASSUME NEW c \in listing, NEW ok \in BOOLEAN, ListAnswered(c, ok)
      PROVE  ListInv'
  <2>1. place' = place /\ moved' = moved /\ c \in SheetClasses
    BY <1>3 DEF ListAnswered, SheetTypeOK
  <2>2. \A b \in SheetClasses : lists'[b] = IF b # c THEN lists[b]
          ELSE IF ok THEN {k \in Pupils : place[k] = c}
          ELSE IF IsList(lists[c]) THEN lists[c] ELSE Failed
    BY <1>3 DEF ListAnswered, SheetTypeOK
  <2> QED BY <2>1, <2>2 DEF ListInv, IsList
<1>4. ASSUME NEW k \in Pupils, NEW c \in SheetClasses, Move(k, c)
      PROVE  ListInv'
  <2>1. lists' = lists /\ moved' = moved \cup {k} /\ \A j \in Pupils : j # k => place'[j] = place[j]
    BY <1>4 DEF Move, pageVars, SheetTypeOK
  <2>2. \A b \in SheetClasses : IsList(lists[b]) => lists[b] \subseteq Pupils
    BY DEF IsList, SheetTypeOK
  <2> QED BY <2>1, <2>2 DEF ListInv
<1> QED
  BY <1>1, <1>2, <1>3, <1>4 DEF SheetNext, SheetStep, ChooseDay, RecordsRead, RecordsAnswered,
     DayAnswered, Mark, Save, SaveAnswered, Heard, SaveEntered, Other, pageVars

-----------------------------------------------------------------------------
(* What is shown.                                                          *)

\* Records are up to date after a step only if they were before, where the step
\* neither chooses nor asks nor answers.
LEMMA StaysUpToDate ==
    ASSUME chosen' = chosen, broken' = broken,
           \A l \in reading : \E m \in reading' : m.of = l.of,
           UpToDate'
    PROVE  UpToDate
BY DEF UpToDate

\* Nor are they where their load was just asked for.
LEMMA AskedIsNotUpToDate ==
    ASSUME SheetTypeOK, chosen' \in SheetKeys, reading' \in {Reads(chosen'), Rereads(chosen')}
    PROVE  ~UpToDate'
BY LoadsAsked DEF UpToDate

LEMMA CurrentKept ==
    ASSUME SheetTypeInv, LoadInv, CurrentInv, SheetNext
    PROVE  CurrentInv'
<1> USE DEF SheetTypeInv
<1> SUFFICES ASSUME kind' = "class", UpToDate', save'.step # "done", records'[chosen'] # Unread,
                    NEW j \in Pupils
             PROVE  Agrees(j, chosen, records[chosen], news)'
  BY DEF CurrentInv
<1>0. chosen \in SheetKeys /\ chosen[2] \in SheetDays
  BY KeysArePairs DEF SheetTypeOK
<1>s. ASSUME kind' = kind, register' = register, chosen' = chosen, records' = records, news' = news,
             save.step # "done", UpToDate
      PROVE  Agrees(j, chosen, records[chosen], news)'
  BY <1>s DEF CurrentInv, Agrees
<1>1. ASSUME NEW key \in SheetKeys, Choose(key)
      PROVE  FALSE
  BY <1>1, AskedIsNotUpToDate DEF Choose
<1>2. ASSUME NEW d \in SheetDays, ChooseDay(d)
      PROVE  FALSE
  BY <1>2 DEF ChooseDay
<1>3. ASSUME NEW c \in listing, NEW ok \in BOOLEAN, ListAnswered(c, ok)
      PROVE  Agrees(j, chosen, records[chosen], news)'
  BY <1>3, <1>s, StaysUpToDate DEF ListAnswered
<1>4. ASSUME NEW l \in reading, RecordsRead(l)
      PROVE  Agrees(j, chosen, records[chosen], news)'
  <2>1. \A n \in reading : \E m \in reading' : m.of = n.of
    BY <1>4, LoadHasRead
  <2> QED BY <1>4, <1>s, <2>1, StaysUpToDate DEF RecordsRead, pageVars
<1>5. ASSUME NEW l \in reading, NEW ok \in BOOLEAN, RecordsAnswered(l, ok)
      PROVE  Agrees(j, chosen, records[chosen], news)'
  <2>1. /\ l \in RecordsLoad /\ l.of \in SheetKeys /\ l.seen # Unread
        /\ kind = "class" /\ register' = register /\ chosen' = chosen /\ save' = save
        /\ reading' = reading \ {l} /\ broken' = IF ok THEN broken \ {l.of} ELSE broken \cup {l.of}
        /\ news' = IF ok THEN NewsAfter(l) ELSE news
    BY <1>5 DEF RecordsAnswered, SheetTypeOK, RecordsLoad
  <2>2. records'[chosen] = IF ok /\ l.of = chosen THEN l.seen ELSE records[chosen]
    BY <1>5, <1>0 DEF RecordsAnswered, SheetTypeOK
  <2>3. CASE l.of = chosen
    <3>1. ok
      BY <2>1, <2>3 DEF UpToDate
    <3>2. Agrees(j, chosen, l.seen, l.late)
      BY <2>1, <2>3 DEF LoadInv
    <3>3. l.late \subseteq news'
      BY <2>1, <3>1 DEF NewsAfter
    <3> QED BY <2>1, <2>2, <2>3, <3>1, <3>2, <3>3 DEF Agrees
  <2>4. CASE l.of # chosen
    <3>1. UpToDate
      BY <2>1, <2>4 DEF UpToDate
    <3>2. Agrees(j, chosen, records[chosen], news)
      BY <2>1, <2>2, <2>4, <3>1 DEF CurrentInv
    <3>3. CASE <<j, chosen[2]>> \notin news \/ <<j, chosen[2]>> \in news'
      BY <2>1, <2>2, <2>4, <3>2, <3>3 DEF Agrees
    <3>4. CASE <<j, chosen[2]>> \in news /\ <<j, chosen[2]>> \notin news'
      <4>1. l.of[2] = chosen[2] /\ j \in DOMAIN RecordsOf(l.of)
        BY <2>1, <3>4 DEF NewsAfter
      <4>2. register[j][l.of[2]].class = l.of[1] /\ l.of[1] # chosen[1]
        BY <1>0, <2>1, <2>4, <4>1, KeysDiffer, RecordsReadAgree
      <4> QED BY <2>1, <4>1, <4>2 DEF Agrees
    <3> QED BY <3>3, <3>4
  <2> QED BY <2>3, <2>4
<1>6. ASSUME NEW l \in reading, NEW ok \in BOOLEAN, DayAnswered(l, ok)
      PROVE  FALSE
  BY <1>6 DEF DayAnswered
<1>7. ASSUME NEW pupils \in SUBSET Pupils, NEW status \in Marks, Mark(pupils, status)
      PROVE  Agrees(j, chosen, records[chosen], news)'
  BY <1>7, <1>s, StaysUpToDate DEF Mark, pageVars
<1>8. ASSUME Save
      PROVE  Agrees(j, chosen, records[chosen], news)'
  <2>1. DOMAIN sheet.marks \in SUBSET Pupils
    BY <1>8, StatusesOfPupils DEF Save, SheetTypeOK, SheetShown
  <2>2. \A l \in reading : \E m \in reading' : m.of = l.of
    BY <1>8, <2>1, LoadsOvertaken DEF Save
  <2> QED BY <1>8, <1>s, <2>2, StaysUpToDate DEF Save, NoSave, pageVars
<1>9. ASSUME SaveAnswered
      PROVE  Agrees(j, chosen, records[chosen], news)'
  <2>1. kind = "class" /\ chosen' = chosen
    BY <1>9 DEF SaveAnswered
  <2>2. save.step # "done"
    BY <1>0, <1>9, <2>1, AskedIsNotUpToDate DEF SaveAnswered
  <2> QED BY <1>9, <1>s, <2>2, StaysUpToDate DEF SaveAnswered
<1>10. ASSUME Heard
       PROVE  FALSE
  BY <1>0, <1>10, AskedIsNotUpToDate DEF Heard
<1>11. ASSUME NEW part \in SUBSET Pupils, NEW step \in {"done", "refused"}, SaveEntered(part, step)
       PROVE  Agrees(j, chosen, records[chosen], news)'
  <2>1. /\ save.step = "sent" /\ step = "refused" /\ kind = "class" /\ chosen' = chosen
        /\ records' = records /\ news' = news \cup (part \X {save.key[2]}) /\ UpToDate
    BY <1>11, StaysUpToDate DEF SaveEntered, pageVars
  <2>2. Agrees(j, chosen, records[chosen], news)
    BY <2>1 DEF CurrentInv
  <2>3. register'[j][chosen[2]] = register[j][chosen[2]] \/ (j \in part /\ chosen[2] = save.key[2])
    <3>1. \A k \in Pupils, d \in SheetDays :
            register'[k][d] = IF k \in part /\ d = save.key[2]
                                THEN Enter(k, d, save.key[1], save.marks[k])
                                ELSE register[k][d]
      BY <1>11, SaveWrites
    <3> QED BY <1>0, <3>1
  <2>4. CASE j \in part /\ chosen[2] = save.key[2]
    <3>1. <<j, chosen[2]>> \in news'
      BY <2>1, <2>4
    <3> QED BY <2>1, <3>1 DEF Agrees
  <2>5. CASE register'[j][chosen[2]] = register[j][chosen[2]]
    BY <2>1, <2>2, <2>5 DEF Agrees
  <2> QED BY <2>3, <2>4, <2>5
<1>12. ASSUME NEW k \in Pupils, NEW d \in SheetDays, NEW status \in Marks, Other(k, d, status)
       PROVE  Agrees(j, chosen, records[chosen], news)'
  <2>1. /\ kind = "class" /\ chosen' = chosen /\ records' = records /\ broken' = broken
        /\ news' = news \cup {<<k, d>>}
    BY <1>12 DEF Other, pageVars
  <2>2. save.step # "done"
    BY <1>12, SaveWrittenOver DEF Other
  <2>3. UpToDate
    BY <1>12, <2>1, LoadsWrittenOver, StaysUpToDate DEF Other
  <2>4. Agrees(j, chosen, records[chosen], news)
    BY <2>1, <2>2, <2>3 DEF CurrentInv
  <2>5. register'[j][chosen[2]] = register[j][chosen[2]] \/ (j = k /\ chosen[2] = d)
    BY <1>0, <1>12, OtherWrites
  <2> QED BY <2>1, <2>4, <2>5 DEF Agrees
<1>13. ASSUME NEW k \in Pupils, NEW c \in SheetClasses, Move(k, c)
       PROVE  Agrees(j, chosen, records[chosen], news)'
  BY <1>13, <1>s, StaysUpToDate DEF Move, pageVars
<1> QED
  BY <1>1, <1>2, <1>3, <1>4, <1>5, <1>6, <1>7, <1>8, <1>9, <1>10, <1>11, <1>12, <1>13
  DEF SheetNext, SheetStep

LEMMA MadeKept ==
    ASSUME SheetTypeInv, SheetTypeInv', MadeInv, SheetNext
    PROVE  MadeInv'
<1> USE DEF SheetTypeInv
<1>1. MadeInv <=> (kind = "class" /\ sheet # NoSheet => MadeOf(ShownNow, RecordsNow))
  BY DEF MadeInv, ShownNow, RecordsNow
<1>2. MadeInv' <=> (kind' = "class" /\ sheet' # NoSheet => MadeOf(ShownNow, RecordsNow)')
  BY DEF MadeInv, ShownNow, RecordsNow
<1>3. PageTypeOK' /\ sheet \in SheetShown \cup {NoSheet} /\ kind' = kind
  BY DEF PageTypeOK, SheetTypeOK, SheetNext, SheetStep, Choose, ChooseDay, ListAnswered,
     RecordsRead, RecordsAnswered, DayAnswered, Mark, Save, SaveAnswered, Heard, SaveEntered,
     Other, Move
<1>4. ASSUME Render
      PROVE  MadeInv'
  <2>1. CASE kind = "class"
    BY <1>1, <1>2, <1>3, <1>4, <2>1, RenderKeeps
  <2> QED BY <1>2, <1>3, <2>1
<1>5. ASSUME pageVars' = pageVars, sheet' = sheet
      PROVE  MadeInv'
  BY <1>3, <1>5 DEF MadeInv, MadeOf, pageVars
<1>6. ASSUME NEW pupils \in SUBSET Pupils, NEW status \in Marks, Mark(pupils, status)
      PROVE  MadeInv'
  <2>1. /\ sheet # NoSheet /\ pageVars' = pageVars
        /\ sheet' = [marks |-> [k \in DOMAIN sheet.marks |->
                                  IF k \in pupils THEN status ELSE sheet.marks[k]],
                     touched |-> sheet.touched \cup pupils]
    BY <1>6 DEF Mark
  <2>2. /\ DOMAIN sheet'.marks = DOMAIN sheet.marks /\ sheet'.touched = sheet.touched \cup pupils
        /\ \A k \in DOMAIN sheet.marks : k \notin pupils => sheet'.marks[k] = sheet.marks[k]
    BY <2>1
  <2> QED BY <1>3, <2>1, <2>2 DEF MadeInv, MadeOf, pageVars
<1>7. ASSUME NEW d \in SheetDays, ChooseDay(d)
      PROVE  MadeInv'
  BY <1>2, <1>3, <1>7 DEF ChooseDay
<1>8. ASSUME NEW l \in reading, NEW ok \in BOOLEAN, DayAnswered(l, ok)
      PROVE  MadeInv'
  BY <1>2, <1>3, <1>8 DEF DayAnswered
<1>9. ASSUME SaveAnswered \/ Save
      PROVE  MadeInv'
  <2>1. CASE kind = "class"
    BY <1>4, <1>9, <2>1 DEF Save, SaveAnswered
  <2> QED BY <1>2, <1>3, <2>1
<1> QED
  BY <1>4, <1>5, <1>6, <1>7, <1>8, <1>9 DEF SheetNext, SheetStep, Choose, ListAnswered,
     RecordsAnswered, Heard, RecordsRead, SaveEntered, Other, Move

LEMMA ClubKept ==
    ASSUME SheetTypeInv, LoadInv, ClubInv, SheetNext
    PROVE  ClubInv'
<1> USE DEF SheetTypeInv
<1> SUFFICES ASSUME kind' = "club", NEW key \in filled', NEW j \in Pupils, j \notin sheet'.touched
             PROVE  /\ Agrees(j, key, sheet.marks, news)'
                    /\ save'.step = "sent" /\ save'.key[2] = key[2] =>
                         sheet'.marks[j] = save'.marks[j] \/ <<j, key[2]>> \in news'
  BY DEF ClubInv
<1> DEFINE Goal == /\ Agrees(j, key, sheet.marks, news)'
                   /\ save'.step = "sent" /\ save'.key[2] = key[2] =>
                        sheet'.marks[j] = save'.marks[j] \/ <<j, key[2]>> \in news'
<1>0. key \in SheetKeys /\ key[2] \in SheetDays
  <2>1. key \in SheetKeys
    BY SheetTypesKept DEF SheetTypeOK
  <2> QED BY <2>1, KeysArePairs
<1>s. ASSUME kind' = kind, register' = register, filled' = filled, sheet' = sheet, news' = news,
             save' = save \/ save'.step # "sent"
      PROVE  Goal
  BY <1>s DEF ClubInv, Agrees
<1>1. ASSUME NEW other \in SheetKeys, Choose(other)
      PROVE  FALSE
  BY <1>1 DEF Choose
<1>2. ASSUME NEW d \in SheetDays, ChooseDay(d)
      PROVE  Goal
  BY <1>2, <1>s DEF ChooseDay
<1>3. ASSUME NEW c \in listing, NEW ok \in BOOLEAN, ListAnswered(c, ok)
      PROVE  FALSE
  BY <1>3 DEF ListAnswered, ClubTypeInv
<1>4. ASSUME NEW l \in reading, RecordsRead(l)
      PROVE  Goal
  BY <1>4, <1>s DEF RecordsRead, pageVars
<1>5. ASSUME NEW l \in reading, NEW ok \in BOOLEAN, RecordsAnswered(l, ok)
      PROVE  FALSE
  BY <1>5 DEF RecordsAnswered
<1>6. ASSUME NEW l \in reading, NEW ok \in BOOLEAN, DayAnswered(l, ok)
      PROVE  Goal
  <2>1. /\ l \in RecordsLoad /\ l.seen \in Statuses /\ l.seen # Unread
        /\ kind = "club" /\ register' = register /\ save' = save
    BY <1>6 DEF DayAnswered, SheetTypeOK, RecordsLoad
  <2>2. CASE ~ok
    BY <1>6, <1>s, <2>1, <2>2 DEF DayAnswered
  <2>3. CASE ok
    <3>1. l.of = key /\ sheet' = NewSheet(Pupils, l.seen) /\ l.late \subseteq news'
      BY <1>6, <2>3 DEF DayAnswered, NewsAfter
    <3>2. /\ DOMAIN sheet'.marks = Pupils
          /\ j \in DOMAIN l.seen => sheet'.marks[j] = l.seen[j]
      BY <2>1, <3>1, NewSheetType
    <3>3. Agrees(j, l.of, l.seen, l.late)
      BY <2>1 DEF LoadInv
    <3>4. save.step = "sent" /\ save.key[2] = key[2] => <<j, key[2]>> \in l.late
      BY <2>1, <3>1 DEF LoadInv, ClubTypeInv
    <3> QED BY <2>1, <3>1, <3>2, <3>3, <3>4 DEF Agrees
  <2> QED BY <2>2, <2>3
<1>7. ASSUME NEW pupils \in SUBSET Pupils, NEW status \in Marks, Mark(pupils, status)
      PROVE  Goal
  <2>1. /\ kind = "club" /\ register' = register /\ filled' = filled
        /\ save' = save /\ news' = news
    BY <1>7 DEF Mark, pageVars
  <2>2. /\ sheet' = [marks |-> [k \in DOMAIN sheet.marks |->
                                  IF k \in pupils THEN status ELSE sheet.marks[k]],
                     touched |-> sheet.touched \cup pupils]
        /\ DOMAIN sheet.marks = Pupils
    BY <1>7, <2>1 DEF Mark, ClubTypeInv
  <2>3. /\ j \notin sheet.touched /\ DOMAIN sheet'.marks = Pupils
        /\ sheet'.marks[j] = sheet.marks[j]
    BY <2>2
  <2> QED BY <2>1, <2>2, <2>3 DEF ClubInv, Agrees
<1>8. ASSUME Save
      PROVE  Goal
  <2>1. /\ kind = "club" /\ register' = register /\ filled' = filled
        /\ sheet' = sheet /\ news' = news /\ save'.marks = sheet.marks
    BY <1>8 DEF Save, pageVars
  <2> QED BY <2>1 DEF ClubInv, Agrees
<1>9. ASSUME SaveAnswered
      PROVE  Goal
  BY <1>9, <1>s DEF SaveAnswered, NoSave
<1>10. ASSUME Heard
       PROVE  FALSE
  BY <1>10 DEF Heard
<1>11. ASSUME NEW part \in SUBSET Pupils, NEW step \in {"done", "refused"}, SaveEntered(part, step)
       PROVE  Goal
  <2>1. /\ save.step = "sent" /\ save'.step # "sent" /\ kind = "club" /\ filled' = filled
        /\ sheet' = sheet /\ news \subseteq news'
    BY <1>11 DEF SaveEntered, pageVars
  <2>2. /\ Agrees(j, key, sheet.marks, news)
        /\ save.key[2] = key[2] =>
             sheet.marks[j] = save.marks[j] \/ <<j, key[2]>> \in news
        /\ j \in DOMAIN sheet.marks
    BY <2>1 DEF ClubInv, ClubTypeInv
  <2>3. register'[j][key[2]] = IF j \in part /\ key[2] = save.key[2]
                                 THEN Enter(j, key[2], save.key[1], save.marks[j])
                                 ELSE register[j][key[2]]
    BY <1>0, <1>11, SaveWrites
  <2>4. j \in part => Enter(j, key[2], save.key[1], save.marks[j]).status = save.marks[j]
    <3>1. save \in SaveSent /\ part \subseteq DOMAIN save.marks /\ save.key[1] \in SheetClasses
      BY <1>11, SaveWrites
    <3>2. j \in part => save.marks[j] \in Marks
      BY <3>1, StatusesOfPupils DEF SaveSent
    <3> QED BY <1>0, <3>1, <3>2, EnteredType
  <2> QED BY <2>1, <2>2, <2>3, <2>4 DEF Agrees
<1>12. ASSUME NEW k \in Pupils, NEW d \in SheetDays, NEW status \in Marks, Other(k, d, status)
       PROVE  Goal
  <2>1. /\ kind = "club" /\ filled' = filled /\ sheet' = sheet /\ news' = news \cup {<<k, d>>}
    BY <1>12 DEF Other, pageVars
  <2>2. /\ save'.step = save.step
        /\ save.step = "sent" => save'.key = save.key /\ save'.marks = save.marks
    BY <1>12, SaveWrittenOver DEF Other
  <2>3. register'[j][key[2]] = register[j][key[2]] \/ (j = k /\ key[2] = d)
    BY <1>0, <1>12, OtherWrites
  <2> QED BY <2>1, <2>2, <2>3 DEF ClubInv, Agrees
<1>13. ASSUME NEW k \in Pupils, NEW c \in SheetClasses, Move(k, c)
       PROVE  FALSE
  BY <1>13 DEF Move
<1> QED
  BY <1>1, <1>2, <1>3, <1>4, <1>5, <1>6, <1>7, <1>8, <1>9, <1>10, <1>11, <1>12, <1>13
  DEF SheetNext, SheetStep

\* A save is sent with what the sheet shows.
LEMMA SavesWhatIsShown ==
    ASSUME SheetTypeInv, ListInv, CurrentInv, MadeInv, ClubInv, Save,
           NEW k \in DOMAIN sheet.marks
    PROVE  /\ k \in Pupils
           /\ \/ place[k] = chosen[1] \/ k \in moved
              \/ kind = "class" /\ lists[chosen[1]] = Unread
           /\ \/ k \in sheet.touched \/ Agrees(k, chosen, sheet.marks, news)
              \/ IF kind = "class" THEN ~UpToDate ELSE filled # {chosen}
<1> USE DEF SheetTypeInv
<1>1. /\ k \in Pupils /\ chosen \in SheetKeys /\ chosen[1] \in SheetClasses
      /\ sheet # NoSheet /\ save = NoSave
  BY StatusesOfPupils, KeysArePairs DEF Save, SheetTypeOK, SheetShown
<1>2. CASE kind = "club"
  BY <1>1, <1>2 DEF ClubInv, ClubTypeInv
<1>3. CASE kind = "class"
  <2> DEFINE pupils == ListShown(chosen[1], lists, kept)
             rs == RecordsShown(chosen, records, broken)
  <2>1. /\ pupils # Unread /\ rs # Unread /\ DOMAIN sheet.marks = pupils
        /\ k \notin sheet.touched => sheet.marks[k] = NewSheet(pupils, rs).marks[k]
    BY <1>1, <1>3 DEF MadeInv, MadeOf
  <2>2. pupils \in SUBSET Pupils
    BY <1>1, <2>1, ListShownType DEF SheetTypeOK
  <2>3. rs \in Statuses
    BY <1>1, <2>1, RecordsShownType DEF SheetTypeOK
  <2>4. lists[chosen[1]] # Unread => place[k] = chosen[1] \/ k \in moved
    <3>1. lists[chosen[1]] # Unread => pupils = IF lists[chosen[1]] = Failed THEN {}
                                                ELSE lists[chosen[1]]
      BY <1>1, <2>1 DEF ListShown, ListOf
    <3> QED BY <1>1, <2>1, <3>1 DEF ListInv, IsList
  <2>5. ASSUME UpToDate, k \notin sheet.touched
        PROVE  Agrees(k, chosen, sheet.marks, news)
    <3>1. rs = records[chosen] /\ records[chosen] # Unread
      BY <2>1, <2>5 DEF RecordsShown, UpToDate
    <3>2. Agrees(k, chosen, rs, news)
      BY <1>1, <1>3, <2>5, <3>1 DEF CurrentInv, NoSave
    <3>3. k \in DOMAIN rs => sheet.marks[k] = rs[k]
      <4> HIDE DEF pupils, rs
      <4> QED BY <2>1, <2>2, <2>3, <2>5, NewSheetType
    <3> QED BY <3>2, <3>3 DEF Agrees
  <2> QED BY <1>1, <1>3, <2>4, <2>5
<1> QED BY <1>2, <1>3 DEF SheetTypeOK

LEMMA SaveKept ==
    ASSUME SheetTypeInv, ListInv, CurrentInv, MadeInv, ClubInv, SaveInv, SheetNext
    PROVE  SaveInv'
<1> USE DEF SheetTypeInv
<1>0. save.step = "sent" => /\ save \in SaveSent /\ DOMAIN save.marks \subseteq Pupils
                            /\ save.key[2] \in SheetDays
  BY StatusesOfPupils, KeysArePairs DEF SheetTypeOK, SaveSent
<1>s. ASSUME register' = register, place' = place, moved' = moved,
             save' = save \/ save'.step # "sent"
      PROVE  SaveInv'
  BY <1>s DEF SaveInv, Agrees
<1>1. ASSUME Save
      PROVE  SaveInv'
  <2>1. /\ register' = register /\ place' = place /\ moved' = moved
        /\ save'.key = chosen /\ save'.marks = sheet.marks /\ save'.touched = sheet.touched
        /\ save'.borrowed = (kind = "class" /\ lists[chosen[1]] = Unread)
        /\ save'.loose = (kind = "class" /\ (chosen \in broken \/ \E l \in reading : l.of = chosen))
        /\ save'.stray = (kind = "club" /\ filled # {chosen})
        /\ save'.over = news
    BY <1>1 DEF Save
  <2>2. (IF kind = "class" THEN ~UpToDate ELSE filled # {chosen}) => save'.loose \/ save'.stray
    BY <2>1 DEF UpToDate, SheetTypeOK
  <2>3. \A k \in DOMAIN sheet.marks :
           /\ \/ place[k] = chosen[1] \/ k \in moved
              \/ kind = "class" /\ lists[chosen[1]] = Unread
           /\ \/ k \in sheet.touched \/ Agrees(k, chosen, sheet.marks, news)
              \/ IF kind = "class" THEN ~UpToDate ELSE filled # {chosen}
    BY <1>1, SavesWhatIsShown
  <2> QED BY <2>1, <2>2, <2>3 DEF SaveInv, Agrees
<1>2. ASSUME NEW part \in SUBSET Pupils, NEW step \in {"done", "refused"}, SaveEntered(part, step)
      PROVE  SaveInv'
  BY <1>2 DEF SaveEntered, SaveInv
<1>3. ASSUME NEW k \in Pupils, NEW d \in SheetDays, NEW status \in Marks, Other(k, d, status)
      PROVE  SaveInv'
  <2>1. /\ save'.step = save.step /\ place' = place /\ moved' = moved
        /\ save.step = "sent" =>
             /\ save'.key = save.key /\ save'.marks = save.marks
             /\ save'.touched = save.touched /\ save'.borrowed = save.borrowed
             /\ save'.loose = save.loose /\ save'.stray = save.stray
             /\ save'.over = save.over \cup {<<k, d>>}
    BY <1>3, SaveWrittenOver DEF Other
  <2>2. \A j \in Pupils, e \in SheetDays :
          register'[j][e] = register[j][e] \/ (j = k /\ e = d)
    BY <1>3, OtherWrites
  <2> QED BY <1>0, <2>1, <2>2 DEF SaveInv, Agrees
<1>4. ASSUME NEW k \in Pupils, NEW c \in SheetClasses, Move(k, c)
      PROVE  SaveInv'
  <2>1. /\ register' = register /\ save' = save /\ moved' = moved \cup {k}
        /\ \A j \in Pupils : j # k => place'[j] = place[j]
    BY <1>4 DEF Move, SheetTypeOK
  <2> QED BY <1>0, <2>1 DEF SaveInv, Agrees
<1>5. ASSUME SaveAnswered
      PROVE  SaveInv'
  BY <1>s, <1>5 DEF SaveAnswered, NoSave
<1> QED
  BY <1>s, <1>1, <1>2, <1>3, <1>4, <1>5 DEF SheetNext, SheetStep, Choose, ChooseDay,
     ListAnswered, RecordsRead, RecordsAnswered, DayAnswered, Mark, Heard

-----------------------------------------------------------------------------
(* The theorems about the sheets.                                          *)

LEMMA SheetInvariance == SheetSpec => []SheetInv
<1>1. SheetInit => SheetInv
  <2> SUFFICES ASSUME SheetInit PROVE SheetInv
    OBVIOUS
  <2>1. FirstKey \in SheetKeys /\ FirstKey[1] \in SheetClasses
    BY KeysAreClassAndDay, KeysArePairs
  <2>2. Ask(FirstKey) \in RecordsLoad /\ Ask(FirstKey).seen = Unread /\ Ask(FirstKey).of = FirstKey
    BY <2>1 DEF Ask, RecordsLoad
  <2>3. [k \in {} |-> "PRESENT"] \in Statuses
    BY {} \in SUBSET Pupils DEF Statuses
  <2>4. /\ NewSheet(Pupils, [k \in {} |-> "PRESENT"]) \in SheetShown
        /\ DOMAIN NewSheet(Pupils, [k \in {} |-> "PRESENT"]).marks = Pupils
    BY <2>3, NewSheetType
  <2>5. /\ lists \in [SheetClasses -> (SUBSET Pupils) \cup {Unread, Failed}]
        /\ records \in [SheetKeys -> Statuses \cup {Unread}]
        /\ register \in [Pupils -> [SheetDays -> SheetRecord \cup {Unmarked}]]
        /\ \A c \in SheetClasses : ~IsList(lists[c])
    BY DEF SheetInit, IsList
  <2>6. save.step = "idle" /\ save \in [step : {"idle", "done", "refused"}]
    BY DEF SheetInit, NoSave
  <2>7. SheetTypeOK
    BY <2>1, <2>2, <2>4, <2>5, <2>6 DEF SheetInit, SheetTypeOK
  <2>8. ClubTypeInv
    BY <2>4, <2>6 DEF SheetInit, ClubTypeInv
  <2>9. LoadInv /\ ListInv /\ SaveInv
    BY <2>2, <2>5, <2>6 DEF SheetInit, LoadInv, ListInv, SaveInv
  <2>10. ~UpToDate
    BY <2>2 DEF SheetInit, UpToDate
  <2>11. CurrentInv /\ ClubInv /\ MadeInv
    BY <2>10 DEF SheetInit, CurrentInv, ClubInv, MadeInv
  <2> QED BY <2>7, <2>8, <2>9, <2>11 DEF SheetInv, SheetTypeInv
<1>2. SheetInv /\ [SheetNext]_sheetVars => SheetInv'
  <2>1. CASE SheetNext
    <3> SUFFICES ASSUME SheetInv PROVE SheetInv'
      BY <2>1
    <3>1. SheetTypeInv'
      BY <2>1, SheetTypesKept DEF SheetInv
    <3> QED
      BY <2>1, <3>1, LoadKept, ListKept, CurrentKept, MadeKept, ClubKept, SaveKept DEF SheetInv
  <2>2. CASE UNCHANGED sheetVars
    BY <2>2 DEF sheetVars, SheetInv, SheetTypeInv, SheetTypeOK, ClubTypeInv, LoadInv, ListInv,
       CurrentInv, MadeInv, MadeOf, ClubInv, SaveInv, UpToDate, Agrees
  <2> QED BY <2>1, <2>2
<1> QED BY <1>1, <1>2, PTL DEF SheetSpec

\* The loads and saves of useAttendanceQuery and useBulkAttendanceMutation, the lists
\* and the sheet over them keep to their types, whatever others write meanwhile.
THEOREM SheetTypeCorrect == SheetSpec => []SheetTypeOK
<1>1. SheetInv => SheetTypeOK
  BY DEF SheetInv, SheetTypeInv
<1> QED BY <1>1, SheetInvariance, PTL

\* A save of a sheet, of a class or of a club, changes the record of no pupil for whom
\* nothing was chosen on it, save what somebody wrote since the sheet had read it, what
\* stands under another class, a page whose records are being read once more or could
\* not be, and a club's map that does not hold the day chosen, as when another day's
\* records came in after its own; and what it adds is of the pupil's own class unless
\* the list was another class's or the pupil was moved: AttendanceSheet, bulkRecord and
\* the club's modal.
THEOREM SheetsKeepWhatStands == SheetSpec => SavesKeepWhatStands
<1> DEFINE Kept == \A k \in Pupils, d \in SheetDays :
              LET was == register[k][d]
              IN  save.step = "sent" /\ save'.step # "sent" /\ register'[k][d] # was =>
                    IF was = Unmarked
                      THEN register'[k][d].class = place[k] \/ save.borrowed \/ k \in moved
                      ELSE \/ k \in save.touched \/ save.loose \/ save.stray
                           \/ <<k, d>> \in save.over \/ was.class # save.key[1]
<1>1. SheetInv /\ [SheetNext]_sheetVars => [Kept]_sheetVars
  <2> SUFFICES ASSUME SheetInv, SheetNext, NEW k \in Pupils, NEW d \in SheetDays,
                      save.step = "sent", save'.step # "sent", register'[k][d] # register[k][d]
               PROVE  IF register[k][d] = Unmarked
                        THEN register'[k][d].class = place[k] \/ save.borrowed \/ k \in moved
                        ELSE \/ k \in save.touched \/ save.loose \/ save.stray
                             \/ <<k, d>> \in save.over \/ register[k][d].class # save.key[1]
    OBVIOUS
  <2>1. SheetTypeOK
    BY DEF SheetInv, SheetTypeInv
  <2>2. PICK part \in SUBSET Pupils, step \in {"done", "refused"} : SaveEntered(part, step)
    <3>1. \A j \in Pupils, e \in SheetDays, status \in Marks : ~Other(j, e, status)
      BY <2>1, SaveWrittenOver DEF Other
    <3> QED
      BY <3>1 DEF SheetNext, SheetStep, Choose, ChooseDay, ListAnswered, RecordsRead,
         RecordsAnswered, DayAnswered, Mark, Save, SaveAnswered, Heard, Move, NoSave
  <2>3. /\ save \in SaveSent /\ part \subseteq DOMAIN save.marks
        /\ k \in part /\ d = save.key[2]
        /\ register'[k][d] = Enter(k, d, save.key[1], save.marks[k])
    BY <2>1, <2>2, SaveWrites
  <2>4. /\ place[k] = save.key[1] \/ save.borrowed \/ k \in moved
        /\ k \in save.touched \/ save.loose \/ save.stray \/ Agrees(k, save.key, save.marks, save.over)
    BY <2>3 DEF SheetInv, SaveInv
  <2>5. register[k][d] \in SheetRecord \cup {Unmarked}
    BY <2>1 DEF SheetTypeOK
  <2>6. CASE register[k][d] = Unmarked
    BY <2>3, <2>4, <2>6 DEF Enter
  <2>7. CASE register[k][d] # Unmarked
    <3>1. register'[k][d] = [register[k][d] EXCEPT !.status = save.marks[k]]
      BY <2>3, <2>7 DEF Enter
    <3>2. register[k][d].status # save.marks[k]
      BY <2>5, <2>7, <3>1 DEF SheetRecord
    <3> QED BY <2>3, <2>4, <2>7, <3>2 DEF Agrees
  <2> QED BY <2>6, <2>7
<1> QED BY <1>1, SheetInvariance, PTL DEF SheetSpec, SavesKeepWhatStands
=============================================================================
