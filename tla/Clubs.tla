------------------------------- MODULE Clubs -------------------------------
(***************************************************************************)
(* Clubs, their sessions and their members: ClubsService and the indexes   *)
(* behind it.                                                              *)
(*                                                                         *)
(* Nothing here runs in a transaction of its own, and nothing is locked.   *)
(* enrollStudent reads the club, counts its members and inserts, in that   *)
(* order and in separate statements.  update and remove read the club with *)
(* its sessions and its enrolments, and save it with them: TypeORM writes  *)
(* the whole row as it was read, with the changes, and makes the two       *)
(* tables agree with what was read.  A session that is gone is inserted    *)
(* again (the relation cascades); a row that was added since is cut from   *)
(* the club, which the NOT NULL of club_id refuses: the save fails whole.  *)
(* Of two saves without such a row the later writes over the earlier.      *)
(* What update does to the sessions follows in two statements more.        *)
(*                                                                         *)
(* A step is one of those statements.  Names, teachers, rooms and fees are *)
(* left out: nothing here looks at them.  An edit that gives sessions      *)
(* gives one, named after the edit.                                        *)
(***************************************************************************)
EXTENDS Naturals, FiniteSets

CONSTANTS
    Clubs, Pupils,
    Desks,          \* the requests that may be under way
    Levels,         \* the grade levels there are
    LevelOf,        \* LevelOf[s]: the grade level of pupil s
    Seats,          \* what a club's capacity may be set to
    MaxClubEdits    \* bound: how many edits there are

ASSUME PupilsHaveLevels == LevelOf \in [Pupils -> Levels]
ASSUME SeatsArePositive == Seats \subseteq Nat \ {0}
ASSUME DesksAreFinite == IsFiniteSet(Desks) /\ Desks # {}
ASSUME EditsAreCounted == MaxClubEdits \in Nat

VARIABLES
    club,           \* club[c]: its row, or Unfounded
    member,         \* member[c]: the pupils with an ACTIVE enrolment
    session,        \* session[c]: its session rows, by the edit that made them
    desk,           \* desk[h]: how far request h has come
    mostSeats,      \* mostSeats[c]: the largest capacity c has had
    edits,          \* how many edits there were
    crossed         \* the clubs whose sessions two edits replaced at once, or
                    \* a save brought back, since they were last replaced whole

clubVars == <<club, member, session, desk, mostSeats, edits, crossed>>

-----------------------------------------------------------------------------
Unfounded == [status |-> "UNFOUNDED"]
ClubRow == [status : {"ACTIVE", "INACTIVE", "ARCHIVED"}, seats : Seats, levels : SUBSET Levels]
Founded(c) == club[c] # Unfounded

Waiting == [step |-> "idle"]
Filling(h, c) == desk[h].step = "toFill" /\ desk[h].club = c

\* A new enrolment of club c is one that the requests which read c before do not have.
Joined(c) ==
    [h \in Desks |-> IF desk[h].step = "toSave" /\ desk[h].club = c
                       THEN [desk[h] EXCEPT !.joined = TRUE] ELSE desk[h]]

ClubsInit ==
    /\ club = [c \in Clubs |-> Unfounded]
    /\ member = [c \in Clubs |-> {}]
    /\ session = [c \in Clubs |-> {}]
    /\ desk = [h \in Desks |-> Waiting]
    /\ mostSeats = [c \in Clubs |-> 0]
    /\ edits = 0
    /\ crossed = {}

-----------------------------------------------------------------------------
\* create: the row, and its sessions in a statement after it.  A request that
\* dies in between leaves a club with none.
Found(h, c, seats, levels) ==
    /\ desk[h] = Waiting /\ ~Founded(c) /\ edits < MaxClubEdits
    /\ club' = [club EXCEPT ![c] = [status |-> "ACTIVE", seats |-> seats, levels |-> levels]]
    /\ mostSeats' = [mostSeats EXCEPT ![c] = seats]
    /\ edits' = edits + 1
    /\ desk' = [desk EXCEPT ![h] = [step |-> "toFill", club |-> c, edit |-> edits + 1]]
    /\ UNCHANGED <<member, session, crossed>>

\* update reads the club by findById; so does remove, an edit of the status alone.
EditRead(h, c, row, fills) ==
    /\ desk[h] = Waiting /\ Founded(c) /\ edits < MaxClubEdits
    /\ edits' = edits + 1
    /\ desk' = [desk EXCEPT ![h] =
         [step |-> "toSave", club |-> c, edit |-> edits + 1, row |-> row,
          rows |-> session[c], fills |-> fills, joined |-> FALSE]]
    /\ UNCHANGED <<club, member, session, mostSeats, crossed>>
RemoveClub(h, c) == EditRead(h, c, [club[c] EXCEPT !.status = "ARCHIVED"], FALSE)

\* The save makes the row what the request holds, and the sessions those it read:
\* it is refused for a session or an enrolment that was added since.
EditSave(h) ==
    LET j == desk[h]
        c == j.club
    IN  /\ j.step = "toSave"
        /\ IF session[c] \subseteq j.rows /\ ~j.joined
             THEN /\ club' = [club EXCEPT ![c] = j.row]
                  /\ mostSeats' = [mostSeats EXCEPT ![c] = IF j.row.seats > @ THEN j.row.seats
                                                                              ELSE @]
                  /\ session' = [session EXCEPT ![c] = j.rows]
                  /\ crossed' = IF j.rows = session[c] THEN crossed ELSE crossed \cup {c}
                  /\ desk' = [desk EXCEPT ![h] =
                       IF j.fills THEN [step |-> "toClear", club |-> c, edit |-> j.edit]
                                  ELSE Waiting]
             ELSE /\ desk' = [desk EXCEPT ![h] = Waiting]
                  /\ UNCHANGED <<club, session, mostSeats, crossed>>
        /\ UNCHANGED <<member, edits>>

\* The sessions are deleted, and the new ones inserted after.  A definition
\* whose name adds a word to the one that follows it is a mutant of it.
EditClearKept(h) ==
    /\ desk[h].step = "toClear"
    /\ desk' = [desk EXCEPT ![h].step = "toFill"]
    /\ UNCHANGED <<club, member, session, mostSeats, edits, crossed>>
EditClear(h) ==
    LET c == desk[h].club
    IN  /\ desk[h].step = "toClear"
        /\ session' = [session EXCEPT ![c] = {}]
        /\ desk' = [desk EXCEPT ![h].step = "toFill"]
        /\ crossed' = IF \E g \in Desks : Filling(g, c) THEN crossed \cup {c}
                                                        ELSE crossed \ {c}
        /\ UNCHANGED <<club, member, mostSeats, edits>>

EditFill(h) ==
    LET c == desk[h].club
    IN  /\ desk[h].step = "toFill"
        /\ session' = [session EXCEPT ![c] = @ \cup {desk[h].edit}]
        /\ desk' = [desk EXCEPT ![h] = Waiting]
        /\ UNCHANGED <<club, member, mostSeats, edits, crossed>>

\* The process stops between the statements of an edit.
EditDies(h) ==
    /\ desk[h].step \in {"toClear", "toFill"}
    /\ desk' = [desk EXCEPT ![h] = Waiting]
    /\ UNCHANGED <<club, member, session, mostSeats, edits, crossed>>

-----------------------------------------------------------------------------
\* enrollStudent: the club, as it is read, must be active and take the level of
\* the pupil.
EnrolRead(h, c, s) ==
    /\ desk[h] = Waiting /\ Founded(c)
    /\ club[c].status = "ACTIVE"
    /\ LevelOf[s] \in club[c].levels
    /\ desk' = [desk EXCEPT ![h] =
         [step |-> "toCount", club |-> c, pupil |-> s, seats |-> club[c].seats]]
    /\ UNCHANGED <<club, member, session, mostSeats, edits, crossed>>

\* The pupil is no member, and the members are fewer than the seats.
EnrolCountLoose(h) ==
    LET j == desk[h]
    IN  /\ j.step = "toCount"
        /\ desk' = [desk EXCEPT ![h] =
             IF j.pupil \notin member[j.club] /\ Cardinality(member[j.club]) <= j.seats
               THEN [j EXCEPT !.step = "toInsert"] ELSE Waiting]
        /\ UNCHANGED <<club, member, session, mostSeats, edits, crossed>>
EnrolCount(h) ==
    LET j == desk[h]
    IN  /\ j.step = "toCount"
        /\ desk' = [desk EXCEPT ![h] =
             IF j.pupil \notin member[j.club] /\ Cardinality(member[j.club]) < j.seats
               THEN [j EXCEPT !.step = "toInsert"] ELSE Waiting]
        /\ UNCHANGED <<club, member, session, mostSeats, edits, crossed>>

\* The insert, which the partial unique index refuses for a member.
EnrolInsert(h) ==
    LET j == desk[h]
    IN  /\ j.step = "toInsert"
        /\ member' = [member EXCEPT ![j.club] = @ \cup {j.pupil}]
        /\ desk' = [(IF j.pupil \in member[j.club] THEN desk ELSE Joined(j.club))
                      EXCEPT ![h] = Waiting]
        /\ UNCHANGED <<club, session, mostSeats, edits, crossed>>

\* dropStudent writes the enrolment row it read: of two that overlap the second
\* changes nothing here.
Drop(c, s) ==
    /\ s \in member[c]
    /\ member' = [member EXCEPT ![c] = @ \ {s}]
    /\ UNCHANGED <<club, session, desk, mostSeats, edits, crossed>>

ClubsNext ==
    \/ \E h \in Desks, c \in Clubs :
         \/ \E n \in Seats, ls \in SUBSET Levels : Found(h, c, n, ls)
         \/ \E row \in ClubRow, b \in BOOLEAN : EditRead(h, c, row, b)
         \/ RemoveClub(h, c)
         \/ \E s \in Pupils : EnrolRead(h, c, s)
    \/ \E h \in Desks :
         \/ EditSave(h) \/ EditClear(h) \/ EditFill(h) \/ EditDies(h)
         \/ EnrolCount(h) \/ EnrolInsert(h)
    \/ \E c \in Clubs, s \in Pupils : Drop(c, s)

ClubsSpec == ClubsInit /\ [][ClubsNext]_clubVars

-----------------------------------------------------------------------------
(* Properties.                                                             *)

ClubsTypeOK ==
    /\ club \in [Clubs -> ClubRow \cup {Unfounded}]
    /\ member \in [Clubs -> SUBSET Pupils]
    /\ session \in [Clubs -> SUBSET (1..MaxClubEdits)]
    /\ mostSeats \in [Clubs -> Seats \cup {0}]
    /\ edits \in 0..MaxClubEdits
    /\ crossed \subseteq Clubs

\* Enrolments that count before they insert overrun a club by fewer members
\* than there are requests under way, whatever edits and drops come between.
SeatsOverrunBounded ==
    \A c \in Clubs : Cardinality(member[c]) < mostSeats[c] + Cardinality(Desks)

\* A club has the sessions of one edit, or none while they are being replaced.
\* Two ways lead to more, and no other: two edits stand at once between deleting
\* the sessions and inserting their own, or a save brings back sessions that were
\* deleted since it had read them.  Saves that write over each other, edits that
\* overlap otherwise and enrolments in between do not, and the next edit that
\* replaces the sessions with nobody in its way puts an end to it.
OneTimetable ==
    \A c \in Clubs : Cardinality(session[c]) > 1 => c \in crossed
=============================================================================
