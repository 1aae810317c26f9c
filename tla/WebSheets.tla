----------------------------- MODULE WebSheets -----------------------------
(***************************************************************************)
(* A sheet of attendance at the web client: the page of a class            *)
(* (AttendancePage and AttendanceSheet) or the dialog of a club            *)
(* (ClubDetailsModal), over a register that others write into as well.     *)
(*                                                                         *)
(* The sheet always sends a status for every child it shows: the one that  *)
(* was chosen here, or else the one it was made with.  It is made from two *)
(* loads, the children and the records of the chosen day, which come late, *)
(* in any order, or not at all, while another class or day is chosen.      *)
(*                                                                         *)
(* The page of a class reads through the query cache: what was read of a   *)
(* class or a day is shown at once when it is chosen again, the list of    *)
(* children read last stays until the next one is there, and a list is     *)
(* thought fresh for ten seconds, records never.  The dialog of a club     *)
(* keeps one map, which each answer replaces, whichever day it is of.      *)
(***************************************************************************)
EXTENDS Naturals, FiniteSets

CONSTANTS
    Pupils,
    SheetKeys,                        \* the classes and days that may be chosen
    FirstKey,                         \* of them the first class of the list, today
    Unmarked, Unread, Failed, NoSheet,
    MaxChoices, MaxSaves,             \* bounds: days or classes chosen here, saves,
    MaxOthers, MaxFailures            \* what others do and is heard of them, failures

VARIABLES
    kind,       \* the sheet of a "class" or of a "club"
    place,      \* place[k]: the class of k
    register,   \* register[k][d]: the record of k on d, or Unmarked
    chosen,     \* the class and the day chosen
    lists,      \* lists[c]: the pupils of c as read, Unread or Failed
    kept,       \* the class whose list was shown last, or Unread
    records,    \* records[key]: the statuses of a class on a day as read, or Unread
    broken,     \* the keys whose last load failed; the dialog of a club notes none
    filled,     \* the key whose records the map of a club holds, if any
    listing,    \* the classes whose list is under way
    reading,    \* the loads of records under way
    sheet,      \* the statuses shown and the pupils for whom one was chosen
    save,       \* the save under way
    news,       \* the pupils and days written since they were read, by others or a refused save
    moved,      \* the pupils who changed their class
    choices, saves, others, failures

sheetVars == <<kind, place, register, chosen, lists, kept, records, broken, filled, listing,
               reading, sheet, save, news, moved, choices, saves, others, failures>>
\* What a sheet is made from.
pageVars == <<chosen, lists, kept, records, broken, filled>>

-----------------------------------------------------------------------------
Marks == {"PRESENT", "ABSENT"}
SheetClasses == {key[1] : key \in SheetKeys}
SheetDays == {key[2] : key \in SheetKeys}

\* The dialog of a club, which has one class, lets every day be chosen.
ASSUME KeysAreClassAndDay ==
    /\ SheetKeys \subseteq SheetClasses \X SheetDays
    /\ FirstKey \in SheetKeys
    /\ \A d \in SheetDays : <<FirstKey[1], d>> \in SheetKeys

NoSave == [step |-> "idle"]
IsList(l) == l \notin {Unread, Failed}

\* GET of a class and a day: the records that were entered under this class.
RecordsOf(key) ==
    LET on(k) == register[k][key[2]]
    IN  [k \in {p \in Pupils : on(p) # Unmarked /\ on(p).class = key[1]} |-> on(k).status]

\* The pupils of the sheet, and whose list they are.  A list that has not come yet
\* is stood in for by the one shown last; one that failed is empty.
ListOf(c, ls, last) == IF ls[c] = Unread THEN last ELSE c
ListShown(c, ls, last) ==
    LET of == ListOf(c, ls, last)
    IN  IF of = Unread THEN Unread ELSE IF ls[of] = Failed THEN {} ELSE ls[of]
\* Records that cannot be read are none.
RecordsShown(key, rs, bs) ==
    IF rs[key] # Unread THEN rs[key] ELSE IF key \in bs THEN [k \in {} |-> "PRESENT"] ELSE Unread

NewSheet(pupils, rs) ==
    [marks |-> [k \in pupils |-> IF k \in DOMAIN rs THEN rs[k] ELSE "PRESENT"], touched |-> {}]

\* What the effect of the sheet depends on: the pupils and the records.
DependenciesAlone(key, ls, last, rs, bs) == <<ListOf(key[1], ls, last), ListShown(key[1], ls, last)>>
Dependencies(key, ls, last, rs, bs) ==
    <<ListOf(key[1], ls, last), ListShown(key[1], ls, last), key, RecordsShown(key, rs, bs)>>

\* The page of a class once more: no sheet while something loads, else the one
\* there is, or a new one.  Where the records could not be read they are another
\* empty array each time, and the sheet is new each time.
Render ==
    LET pupils == ListShown(chosen'[1], lists', kept')
        rs == RecordsShown(chosen', records', broken')
    IN  IF pupils = Unread \/ rs = Unread THEN sheet' = NoSheet
        ELSE IF \/ sheet = NoSheet \/ records'[chosen'] = Unread
                \/ Dependencies(chosen, lists, kept, records, broken)
                     # Dependencies(chosen', lists', kept', records', broken')
          THEN sheet' = NewSheet(pupils, rs)
        ELSE UNCHANGED sheet

Ask(key) == [of |-> key, seen |-> Unread, late |-> {}]
\* Whether something fails in this step.
Failing(b) == failures' = failures + (IF b THEN 1 ELSE 0) /\ failures' <= MaxFailures

\* Records that are chosen are read: in the cache a load under way goes on; the
\* dialog of a club asks each time.
Reads(key) ==
    IF kind = "class" /\ \E l \in reading : l.of = key THEN reading
    ELSE reading \cup {Ask(key)}
\* Records that are invalidated are read once more, in place of a load under way,
\* unless that is the first.
Rereads(key) ==
    IF records[key] = Unread THEN Reads(key) ELSE {l \in reading : l.of # key} \cup {Ask(key)}
\* The first load of a key forgets that an earlier one failed.
Hopeful(key) == IF records[key] = Unread THEN broken \ {key} ELSE broken

\* The statuses of some pupils, and what has them: records, a load, a sheet, a save.
Statuses == UNION {[pupils -> Marks] : pupils \in SUBSET Pupils}
PupilDays == Pupils \X SheetDays
SheetRecord == [status : Marks, class : SheetClasses]
RecordsLoad == [of : SheetKeys, seen : {Unread} \cup Statuses, late : SUBSET PupilDays]
SheetShown == [marks : Statuses, touched : SUBSET Pupils]
SaveSent == [step : {"sent"}, key : SheetKeys, marks : Statuses, touched : SUBSET Pupils,
             borrowed : BOOLEAN, loose : BOOLEAN, stray : BOOLEAN, over : SUBSET PupilDays]

SheetTypeOK ==
    /\ kind \in {"class", "club"}
    /\ place \in [Pupils -> SheetClasses]
    /\ register \in [Pupils -> [SheetDays -> SheetRecord \cup {Unmarked}]]
    /\ chosen \in SheetKeys
    /\ lists \in [SheetClasses -> (SUBSET Pupils) \cup {Unread, Failed}]
    /\ kept \in SheetClasses \cup {Unread}
    /\ records \in [SheetKeys -> Statuses \cup {Unread}]
    /\ broken \subseteq SheetKeys /\ filled \subseteq SheetKeys
    /\ listing \subseteq SheetClasses
    /\ reading \subseteq RecordsLoad
    /\ sheet \in SheetShown \cup {NoSheet}
    /\ save \in SaveSent \cup [step : {"idle", "done", "refused"}]
    /\ news \subseteq PupilDays /\ moved \subseteq Pupils
    /\ {choices, saves, others, failures} \subseteq Nat

SheetInit ==
    /\ kind \in {"class", "club"}
    /\ place \in [Pupils -> SheetClasses]
    /\ kind = "club" => \A k \in Pupils : place[k] = FirstKey[1]
    /\ register = [k \in Pupils |-> [d \in SheetDays |-> Unmarked]]
    /\ chosen = FirstKey
    /\ lists = [c \in SheetClasses |-> Unread] /\ kept = Unread
    /\ records = [key \in SheetKeys |-> Unread] /\ broken = {} /\ filled = {}
    /\ listing = IF kind = "class" THEN {FirstKey[1]} ELSE {}
    /\ reading = {Ask(FirstKey)}
    /\ sheet = IF kind = "class" THEN NoSheet ELSE NewSheet(Pupils, [k \in {} |-> "PRESENT"])
    /\ save = NoSave /\ news = {} /\ moved = {}
    /\ choices = 0 /\ saves = 0 /\ others = 0 /\ failures = 0

-----------------------------------------------------------------------------
(* The page of a class.                                                    *)

\* Records are read whenever they are chosen; a list if there is none, or if it
\* is not thought fresh any more.
Choose(key) ==
    LET c == key[1]
        other == c # chosen[1]
    IN  /\ kind = "class" /\ choices < MaxChoices /\ key # chosen
        /\ choices' = choices + 1
        /\ chosen' = key
        /\ kept' = IF IsList(lists[chosen[1]]) THEN chosen[1] ELSE kept
        /\ lists' = IF other /\ lists[c] = Failed THEN [lists EXCEPT ![c] = Unread] ELSE lists
        /\ listing' \in IF ~other THEN {listing}
                        ELSE IF IsList(lists[c]) THEN {listing, listing \cup {c}}
                        ELSE {listing \cup {c}}
        /\ reading' = Reads(key) /\ broken' = Hopeful(key)
        /\ UNCHANGED <<records, filled>>
        /\ Render
        /\ UNCHANGED <<kind, place, register, save, news, moved, saves, others, failures>>

ListAnswered(c, ok) ==
    /\ c \in listing
    /\ Failing(~ok)
    /\ listing' = listing \ {c}
    /\ lists' = [lists EXCEPT ![c] = IF ok THEN {k \in Pupils : place[k] = c}
                                     ELSE IF IsList(@) THEN @ ELSE Failed]
    /\ UNCHANGED <<chosen, kept, records, broken, filled>>
    /\ Render
    /\ UNCHANGED <<kind, place, register, reading, save, news, moved, choices, saves, others>>

\* What others wrote before these records were read is no news any more.
NewsAfter(l) == {n \in news : n[2] # l.of[2] \/ n[1] \notin DOMAIN RecordsOf(l.of)} \cup l.late

RecordsAnswered(l, ok) ==
    /\ kind = "class" /\ l.seen # Unread
    /\ Failing(~ok)
    /\ reading' = reading \ {l}
    /\ records' = IF ok THEN [records EXCEPT ![l.of] = l.seen] ELSE records
    /\ broken' = IF ok THEN broken \ {l.of} ELSE broken \cup {l.of}
    /\ news' = IF ok THEN NewsAfter(l) ELSE news
    /\ UNCHANGED <<chosen, lists, kept, filled>>
    /\ Render
    /\ UNCHANGED <<kind, place, register, listing, save, moved, choices, saves, others>>

\* attendance.updated, which may be lost.
Heard ==
    /\ kind = "class" /\ others + saves > 0 /\ others < MaxOthers
    /\ others' = others + 1
    /\ reading' = Rereads(chosen) /\ broken' = Hopeful(chosen)
    /\ UNCHANGED <<chosen, lists, kept, records, filled>>
    /\ Render
    /\ UNCHANGED <<kind, place, register, listing, save, news, moved, choices, saves, failures>>

-----------------------------------------------------------------------------
(* The dialog of a club.                                                   *)

ChooseDay(d) ==
    /\ kind = "club" /\ choices < MaxChoices /\ d # chosen[2]
    /\ choices' = choices + 1
    /\ chosen' = <<chosen[1], d>>
    /\ reading' = Reads(chosen')
    /\ UNCHANGED <<kind, place, register, lists, kept, records, broken, filled, listing, sheet,
                   save, news, moved, saves, others, failures>>

\* Each answer replaces the map, of whichever day it is; a failure leaves it.
DayAnswered(l, ok) ==
    /\ kind = "club" /\ l.seen # Unread
    /\ Failing(~ok)
    /\ reading' = reading \ {l}
    /\ sheet' = IF ok THEN NewSheet(Pupils, l.seen) ELSE sheet
    /\ filled' = IF ok THEN {l.of} ELSE filled
    /\ news' = IF ok THEN NewsAfter(l) ELSE news
    /\ UNCHANGED <<kind, place, register, chosen, lists, kept, records, broken, listing, save,
                   moved, choices, saves, others>>

-----------------------------------------------------------------------------
(* Either sheet.                                                           *)

\* One pupil, or all of them at once.
Mark(pupils, status) ==
    /\ sheet # NoSheet /\ pupils \subseteq DOMAIN sheet.marks
    /\ sheet' = [marks |-> [k \in DOMAIN sheet.marks |->
                              IF k \in pupils THEN status ELSE sheet.marks[k]],
                 touched |-> sheet.touched \cup pupils]
    /\ UNCHANGED <<kind, place, register, pageVars, listing, reading, save, news, moved,
                   choices, saves, others, failures>>

\* What a save of these pupils may write after it was read.
Overtaken(pupils) ==
    {IF l.of[2] = chosen[2] /\ l.seen # Unread
       THEN [l EXCEPT !.late = @ \cup (pupils \X {chosen[2]})] ELSE l : l \in reading}

\* The whole sheet, for the class and the day chosen; noted with it is what of the
\* sheet is not of this class and day, or not known to be: the list of another class,
\* records that are being read or could not be, another day's map.
Save ==
    /\ save = NoSave /\ saves < MaxSaves
    /\ sheet # NoSheet /\ DOMAIN sheet.marks # {}
    /\ saves' = saves + 1
    /\ save' = [step |-> "sent", key |-> chosen, marks |-> sheet.marks, touched |-> sheet.touched,
                borrowed |-> kind = "class" /\ lists[chosen[1]] = Unread,
                loose |-> kind = "class" /\ (chosen \in broken \/ \E l \in reading : l.of = chosen),
                stray |-> kind = "club" /\ filled # {chosen},
                over |-> news]
    /\ reading' = Overtaken(DOMAIN sheet.marks)
    /\ UNCHANGED pageVars
    /\ IF kind = "class" THEN Render ELSE UNCHANGED sheet
    /\ UNCHANGED <<kind, place, register, listing, news, moved, choices, others, failures>>

\* A save that succeeds makes the page of a class read its records once more.
SaveAnswered ==
    /\ save.step \in {"done", "refused"}
    /\ save' = NoSave
    /\ IF kind = "class" /\ save.step = "done"
         THEN reading' = Rereads(chosen) /\ broken' = Hopeful(chosen)
         ELSE UNCHANGED <<reading, broken>>
    /\ UNCHANGED <<chosen, lists, kept, records, filled>>
    /\ IF kind = "class" THEN Render ELSE UNCHANGED sheet
    /\ UNCHANGED <<kind, place, register, listing, news, moved, choices, saves, others,
                   failures>>

-----------------------------------------------------------------------------
(* The server, and others.                                                 *)

RecordsRead(l) ==
    /\ l.seen = Unread
    /\ reading' = (reading \ {l}) \cup
         {[l EXCEPT !.seen = RecordsOf(l.of),
                    !.late = IF save.step = "sent" /\ save.key[2] = l.of[2]
                               THEN (DOMAIN save.marks) \X {l.of[2]} ELSE {}]}
    /\ UNCHANGED <<kind, place, register, pageVars, listing, sheet, save, news, moved, choices,
                   saves, others, failures>>

\* A record that is there keeps its class.
Enter(k, d, class, status) ==
    IF register[k][d] = Unmarked THEN [status |-> status, class |-> class]
    ELSE [register[k][d] EXCEPT !.status = status]

\* The sheet is entered; or a part of it and then no more, or its answer is lost.
SaveEntered(part, step) ==
    /\ save.step = "sent" /\ part \subseteq DOMAIN save.marks
    /\ step = "done" => part = DOMAIN save.marks
    /\ Failing(step = "refused")
    /\ register' = [k \in Pupils |-> IF k \notin part THEN register[k]
         ELSE [register[k] EXCEPT ![save.key[2]] = Enter(k, save.key[2], save.key[1], save.marks[k])]]
    /\ save' = [step |-> step]
    /\ news' = IF step = "refused" THEN news \cup (part \X {save.key[2]}) ELSE news
    /\ UNCHANGED <<kind, place, pageVars, listing, reading, sheet, moved, choices, saves,
                   others>>

Other(k, d, status) ==
    /\ others < MaxOthers
    /\ others' = others + 1
    /\ register' = [register EXCEPT ![k][d] = Enter(k, d, place[k], status)]
    /\ news' = news \cup {<<k, d>>}
    /\ reading' = {IF l.seen = Unread THEN l ELSE [l EXCEPT !.late = @ \cup {<<k, d>>}] : l \in reading}
    /\ save' = IF save.step = "sent" THEN [save EXCEPT !.over = @ \cup {<<k, d>>}] ELSE save
    /\ UNCHANGED <<kind, place, pageVars, listing, sheet, moved, choices, saves, failures>>

Move(k, c) ==
    /\ kind = "class" /\ others < MaxOthers /\ c # place[k]
    /\ others' = others + 1
    /\ place' = [place EXCEPT ![k] = c]
    /\ moved' = moved \cup {k}
    /\ UNCHANGED <<kind, register, pageVars, listing, reading, sheet, save, news, choices,
                   saves, failures>>

-----------------------------------------------------------------------------
SheetStep ==
    \/ \E key \in SheetKeys : Choose(key)
    \/ \E d \in SheetDays : ChooseDay(d)
    \/ \E c \in listing, ok \in BOOLEAN : ListAnswered(c, ok)
    \/ \E l \in reading : RecordsRead(l)
    \/ \E l \in reading, ok \in BOOLEAN : RecordsAnswered(l, ok) \/ DayAnswered(l, ok)
    \/ \E pupils \in SUBSET Pupils \ {{}}, status \in Marks : Mark(pupils, status)
    \/ Save \/ SaveAnswered \/ Heard
    \/ \E part \in SUBSET Pupils, step \in {"done", "refused"} : SaveEntered(part, step)
    \/ \E k \in Pupils, d \in SheetDays, status \in Marks : Other(k, d, status)
    \/ \E k \in Pupils, c \in SheetClasses : Move(k, c)

\* Nothing is looked at after the last save is entered.
SheetNext == (saves < MaxSaves \/ save.step = "sent") /\ SheetStep

SheetSpec == SheetInit /\ [][SheetNext]_sheetVars

-----------------------------------------------------------------------------
(* Properties.                                                             *)

\* A save writes over no record of a pupil for whom nothing was chosen on the
\* sheet, but in these cases, which do happen:
\*  - somebody wrote that record after the sheet had read it: others, a save of this
\*    sheet that was refused halfway, or one that was under way when it was read;
\*  - the record stands under another class, whose sheet does not show it;
\*  - the page of a class is saved while its records are being read once more, or
\*    when they could not be read;
\*  - the map of a club holds another day's records, or none: those of the day chosen
\*    are not there yet, or could not be read, or were replaced by those of another
\*    day that came in after them.
\* A record that is new is of the pupil's own class, unless the list on the sheet was
\* another class's still, or the pupil changed classes.
SavesKeepWhatStands ==
    [][\A k \in Pupils, d \in SheetDays :
         LET was == register[k][d]
         IN  save.step = "sent" /\ save'.step # "sent" /\ register'[k][d] # was =>
               IF was = Unmarked
                 THEN register'[k][d].class = place[k] \/ save.borrowed \/ k \in moved
                 ELSE \/ k \in save.touched \/ save.loose \/ save.stray
                      \/ <<k, d>> \in save.over \/ was.class # save.key[1]
      ]_sheetVars
=============================================================================
