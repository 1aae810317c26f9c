-------------------------- MODULE SchoolDesk_proofs --------------------------
(***************************************************************************)
(* Proofs about the four parts of the school's desk, for every set of      *)
(* clubs, pupils, lessons, users, children and requests.                   *)
(*                                                                         *)
(* Clubs: SeatInv counts the members of a club with the requests that have *)
(* counted and are about to insert; a request joins the second number only *)
(* while the first is below the capacity it read, which is never above     *)
(* mostSeats.  EditInv says of a club that is not crossed what the edit    *)
(* that cleared its sessions relies on: they are still gone, and no other  *)
(* edit has cleared them with it.                                          *)
(*                                                                         *)
(* Timetable: CheckInv is what a request that checks a slot may rely on:   *)
(* as long as it is not late, no active lesson of the slot but its own has *)
(* what its row asks for in the questions it has asked so far.             *)
(*                                                                         *)
(* Staffing: UpdateInv says of an update that is not late that its row is  *)
(* the account but for what it was asked to change; AppointInv that whom a *)
(* request may write into a post is a teacher who works, or is in gone.    *)
(*                                                                         *)
(* Registers: SheetInv and SeenInv say what a sheet holds of the record it *)
(* saves, ToldInv which sheet answers for an absence that is not told yet. *)
(***************************************************************************)
EXTENDS Clubs, Timetable, Staffing, Registers, FiniteSetTheorems, SequenceTheorems, TLAPS

-----------------------------------------------------------------------------
(* Clubs.                                                                  *)

Edits == 1..MaxClubEdits

SaveJob == [step : {"toSave"}, club : Clubs, edit : Edits, row : ClubRow,
            rows : SUBSET Edits, fills : BOOLEAN, joined : BOOLEAN]
FillJob == [step : {"toClear", "toFill"}, club : Clubs, edit : Edits]
EnrolJob == [step : {"toCount", "toInsert"}, club : Clubs, pupil : Pupils, seats : Seats]
ClubJob == {Waiting} \cup SaveJob \cup FillJob \cup EnrolJob

ClubTypeInv == ClubsTypeOK /\ desk \in [Desks -> ClubJob]

\* The requests that will insert into club c whatever happens.
Pending(c) == {h \in Desks : desk[h].step = "toInsert" /\ desk[h].club = c}
EditingSteps == {"toSave", "toClear", "toFill"}

CapacityInv ==
    /\ \A c \in Clubs : ~Founded(c) => mostSeats[c] = 0
    /\ \A c \in Clubs : Founded(c) => club[c].seats <= mostSeats[c]
    /\ \A h \in Desks : desk[h].step = "toCount" => desk[h].seats <= mostSeats[desk[h].club]

SeatInv ==
    \A c \in Clubs :
        /\ IsFiniteSet(member[c])
        /\ Cardinality(member[c]) + Cardinality(Pending(c))
             < mostSeats[c] + Cardinality(Desks)

\* Of a club that is not crossed: its sessions, and what an edit that cleared them finds.
EditOK(c) ==
    /\ \A x, y \in session[c] : x = y
    /\ \A h \in Desks : Filling(h, c) =>
         session[c] = {} /\ \A g \in Desks : Filling(g, c) => g = h

EditInv ==
    /\ \A h \in Desks : desk[h].step \in EditingSteps => Founded(desk[h].club)
    /\ \A c \in Clubs : ~Founded(c) => session[c] = {}
    /\ \A c \in Clubs \ crossed : EditOK(c)

ClubInv == ClubTypeInv /\ CapacityInv /\ SeatInv /\ EditInv

-----------------------------------------------------------------------------
(* Clubs: what a step does to one request.                                 *)

\* The kinds of work are told apart by their steps.
LEMMA ClubWork ==
    ASSUME NEW j \in ClubJob
    PROVE  /\ j.step \in {"idle", "toSave", "toClear", "toFill", "toCount", "toInsert"}
           /\ j.step = "idle" => j = Waiting
           /\ j.step = "toSave" => j \in SaveJob
           /\ j.step \in {"toClear", "toFill"} => j \in FillJob
           /\ j.step \in {"toCount", "toInsert"} => j \in EnrolJob
BY DEF ClubJob, Waiting, SaveJob, FillJob, EnrolJob

\* Joined marks requests that have read the club and changes nothing else of them.
LEMMA JoinedMarks ==
    ASSUME desk \in [Desks -> ClubJob], NEW c \in Clubs
    PROVE  /\ Joined(c) \in [Desks -> ClubJob]
           /\ \A h \in Desks :
                \/ Joined(c)[h] = desk[h]
                \/ /\ desk[h] \in SaveJob /\ Joined(c)[h] \in SaveJob
                   /\ Joined(c)[h].club = desk[h].club
<1>1. ASSUME NEW h \in Desks
      PROVE  /\ Joined(c)[h] \in ClubJob
             /\ \/ Joined(c)[h] = desk[h]
                \/ /\ desk[h] \in SaveJob /\ Joined(c)[h] \in SaveJob
                   /\ Joined(c)[h].club = desk[h].club
  <2>1. CASE desk[h].step = "toSave" /\ desk[h].club = c
    <3>1. desk[h] \in SaveJob
      BY <2>1 DEF ClubJob, Waiting, FillJob, EnrolJob
    <3>2. [desk[h] EXCEPT !.joined = TRUE] \in SaveJob
      BY <3>1 DEF SaveJob
    <3>3. Joined(c)[h] = [desk[h] EXCEPT !.joined = TRUE]
      BY <2>1 DEF Joined
    <3>4. QED
      BY <3>1, <3>2, <3>3 DEF SaveJob, ClubJob
  <2>2. CASE ~(desk[h].step = "toSave" /\ desk[h].club = c)
    BY <2>2 DEF Joined
  <2>3. QED
    BY <2>1, <2>2
<1>2. Joined(c) = [h \in Desks |-> Joined(c)[h]]
  BY DEF Joined
<1>3. QED
  BY <1>1, <1>2

\* What an insert of an enrolment leaves of the requests.
LEMMA InsertMarks ==
    ASSUME desk \in [Desks -> ClubJob], NEW h \in Desks, EnrolInsert(h)
    PROVE  /\ desk' \in [Desks -> ClubJob] /\ desk'[h] = Waiting
           /\ \A g \in Desks \ {h} :
                \/ desk'[g] = desk[g]
                \/ /\ desk[g] \in SaveJob /\ desk'[g] \in SaveJob
                   /\ desk'[g].club = desk[g].club
<1>1. desk[h].club \in Clubs
  BY ClubWork DEF EnrolInsert, EnrolJob
<1> DEFINE marked == IF desk[h].pupil \in member[desk[h].club] THEN desk ELSE Joined(desk[h].club)
<1>2. desk' = [marked EXCEPT ![h] = Waiting]
  BY DEF EnrolInsert
<1>3. marked \in [Desks -> ClubJob]
  BY <1>1, JoinedMarks
<1>4. \A g \in Desks : \/ marked[g] = desk[g]
                        \/ /\ desk[g] \in SaveJob /\ marked[g] \in SaveJob
                           /\ marked[g].club = desk[g].club
  BY <1>1, JoinedMarks
<1>5. QED
  BY <1>2, <1>3, <1>4 DEF ClubJob

\* Numbers of members and of requests, and of what is fewer than they are.
LEMMA Counting ==
    ASSUME NEW S, IsFiniteSet(S), NEW T \in SUBSET S
    PROVE  /\ IsFiniteSet(T) /\ Cardinality(T) \in Nat /\ Cardinality(S) \in Nat
           /\ Cardinality(T) <= Cardinality(S)
BY FS_Subset, FS_CardinalityType

\* What has been a capacity is a number.
LEMMA PeaksAreNumbers == \A n \in Seats \cup {0} : n \in Nat
<1>1. \A n \in Seats : n \in Nat
  BY SeatsArePositive
<1>2. QED
  BY <1>1

\* A step after which a club has no more members, no more requests about to
\* insert and no lower peak of its capacity keeps its bound.
LEMMA FewerKeepTheBound ==
    ASSUME ClubTypeInv, SeatInv, ClubTypeInv', NEW c \in Clubs,
           member'[c] \subseteq member[c],
           Pending(c)' \subseteq Pending(c),
           mostSeats[c] <= mostSeats'[c]
    PROVE  /\ IsFiniteSet(member'[c])
           /\ Cardinality(member'[c]) + Cardinality(Pending(c)')
                < mostSeats'[c] + Cardinality(Desks)
<1>1. /\ IsFiniteSet(member[c])
      /\ Cardinality(member[c]) + Cardinality(Pending(c)) < mostSeats[c] + Cardinality(Desks)
  BY DEF SeatInv
<1>2. IsFiniteSet(Pending(c))
  BY Counting, DesksAreFinite DEF Pending
<1>3. /\ IsFiniteSet(member'[c]) /\ Cardinality(member'[c]) <= Cardinality(member[c])
      /\ Cardinality(member'[c]) \in Nat /\ Cardinality(member[c]) \in Nat
  BY <1>1, Counting
<1>4. /\ Cardinality(Pending(c)') <= Cardinality(Pending(c))
      /\ Cardinality(Pending(c)') \in Nat /\ Cardinality(Pending(c)) \in Nat
  BY <1>2, Counting
<1>5. /\ mostSeats[c] \in Nat /\ mostSeats'[c] \in Nat
      /\ Cardinality(Desks) \in Nat
  <2>1. mostSeats[c] \in Seats \cup {0}
    BY DEF ClubTypeInv, ClubsTypeOK
  <2>2. mostSeats'[c] \in Seats \cup {0}
    BY DEF ClubTypeInv, ClubsTypeOK
  <2>3. Cardinality(Desks) \in Nat
    BY DesksAreFinite, FS_CardinalityType
  <2>4. QED
    BY <2>1, <2>2, <2>3, PeaksAreNumbers
<1>6. QED
  BY <1>1, <1>3, <1>4, <1>5

-----------------------------------------------------------------------------
(* Clubs: the types.                                                       *)

\* remove is an edit of the status alone.
LEMMA RemovalIsAnEdit ==
    ASSUME ClubTypeInv, NEW h \in Desks, NEW c \in Clubs, RemoveClub(h, c)
    PROVE  \E row \in ClubRow, b \in BOOLEAN : EditRead(h, c, row, b)
<1>1. club[c] \in ClubRow
  BY DEF RemoveClub, EditRead, Founded, ClubTypeInv, ClubsTypeOK
<1>2. [club[c] EXCEPT !.status = "ARCHIVED"] \in ClubRow
  BY <1>1 DEF ClubRow
<1>3. QED
  BY <1>2 DEF RemoveClub

LEMMA ClubTypesKept == ClubTypeInv /\ [ClubsNext]_clubVars => ClubTypeInv'
<1> SUFFICES ASSUME ClubTypeInv, [ClubsNext]_clubVars PROVE ClubTypeInv'
  OBVIOUS
<1> USE DEF ClubTypeInv, ClubsTypeOK
<1>1. CASE UNCHANGED clubVars
  BY <1>1 DEF clubVars
<1>2. ASSUME NEW h \in Desks, NEW c \in Clubs, NEW n \in Seats, NEW ls \in SUBSET Levels,
             Found(h, c, n, ls)
      PROVE  ClubTypeInv'
  <2>1. [status |-> "ACTIVE", seats |-> n, levels |-> ls] \in ClubRow
    BY DEF ClubRow
  <2>2. edits' \in 0..MaxClubEdits /\ edits + 1 \in Edits
    BY <1>2, EditsAreCounted DEF Found, Edits
  <2>3. [step |-> "toFill", club |-> c, edit |-> edits + 1] \in ClubJob
    BY <2>2 DEF ClubJob, FillJob
  <2>4. QED
    BY <1>2, <2>1, <2>2, <2>3 DEF Found
<1>3. ASSUME NEW h \in Desks, NEW c \in Clubs, NEW row \in ClubRow, NEW b \in BOOLEAN,
             EditRead(h, c, row, b)
      PROVE  ClubTypeInv'
  <2>1. edits' \in 0..MaxClubEdits /\ edits + 1 \in Edits
    BY <1>3, EditsAreCounted DEF EditRead, Edits
  <2>2. [step |-> "toSave", club |-> c, edit |-> edits + 1, row |-> row,
         rows |-> session[c], fills |-> b, joined |-> FALSE] \in ClubJob
    BY <2>1 DEF ClubJob, SaveJob, Edits
  <2>3. QED
    BY <1>3, <2>1, <2>2 DEF EditRead
<1>4. ASSUME NEW h \in Desks, NEW c \in Clubs, RemoveClub(h, c) PROVE ClubTypeInv'
  BY <1>3, <1>4, RemovalIsAnEdit
<1>5. ASSUME NEW h \in Desks, EditSave(h) PROVE ClubTypeInv'
  <2>1. desk[h] \in SaveJob
    BY <1>5, ClubWork DEF EditSave
  <2> DEFINE c == desk[h].club
             stands == session[c] \subseteq desk[h].rows /\ ~desk[h].joined
  <2>2. c \in Clubs /\ desk[h].row \in ClubRow /\ desk[h].rows \subseteq Edits
        /\ desk[h].edit \in Edits /\ desk[h].row.seats \in Seats
    BY <2>1 DEF SaveJob, ClubRow
  <2>3. CASE ~stands
    BY <1>5, <2>3 DEF EditSave, ClubJob
  <2>4. CASE stands
    <3>1. [step |-> "toClear", club |-> c, edit |-> desk[h].edit] \in ClubJob
      BY <2>2 DEF ClubJob, FillJob
    <3>2. desk' \in [Desks -> ClubJob]
      <4>1. desk' = [desk EXCEPT ![h] =
                       IF desk[h].fills
                         THEN [step |-> "toClear", club |-> c, edit |-> desk[h].edit]
                         ELSE Waiting]
        BY <1>5, <2>4 DEF EditSave
      <4>2. QED
        BY <3>1, <4>1 DEF ClubJob
    <3>3. session' \in [Clubs -> SUBSET Edits]
      BY <1>5, <2>2, <2>4 DEF EditSave, Edits
    <3>4. mostSeats' \in [Clubs -> Seats \cup {0}]
      BY <1>5, <2>2, <2>4 DEF EditSave
    <3>5. crossed' \subseteq Clubs
      BY <1>5, <2>2, <2>4 DEF EditSave
    <3>6. QED
      BY <1>5, <2>2, <2>4, <3>2, <3>3, <3>4, <3>5 DEF EditSave, Edits
  <2>5. QED
    BY <2>3, <2>4
<1>6. ASSUME NEW h \in Desks, EditClear(h) PROVE ClubTypeInv'
  <2>1. desk[h] \in FillJob
    BY <1>6, ClubWork DEF EditClear
  <2>2. [desk[h] EXCEPT !.step = "toFill"] \in ClubJob
    BY <2>1 DEF FillJob, ClubJob
  <2>3. QED
    BY <1>6, <2>1, <2>2 DEF EditClear, FillJob
<1>7. ASSUME NEW h \in Desks, EditFill(h) PROVE ClubTypeInv'
  <2>1. desk[h] \in FillJob
    BY <1>7, ClubWork DEF EditFill
  <2>2. desk[h].club \in Clubs /\ desk[h].edit \in Edits
    BY <2>1 DEF FillJob
  <2>3. QED
    BY <1>7, <2>2 DEF EditFill, ClubJob, Edits
<1>8. ASSUME NEW h \in Desks, EditDies(h) PROVE ClubTypeInv'
  BY <1>8 DEF EditDies, ClubJob
<1>9. ASSUME NEW h \in Desks, NEW c \in Clubs, NEW s \in Pupils, EnrolRead(h, c, s)
      PROVE  ClubTypeInv'
  <2>1. club[c].seats \in Seats
    BY <1>9 DEF EnrolRead, Founded, ClubRow
  <2>2. [step |-> "toCount", club |-> c, pupil |-> s, seats |-> club[c].seats] \in ClubJob
    BY <2>1 DEF ClubJob, EnrolJob
  <2>3. QED
    BY <1>9, <2>2 DEF EnrolRead
<1>10. ASSUME NEW h \in Desks, EnrolCount(h) PROVE ClubTypeInv'
  <2>1. desk[h] \in EnrolJob
    BY <1>10, ClubWork DEF EnrolCount
  <2>2. [desk[h] EXCEPT !.step = "toInsert"] \in ClubJob
    BY <2>1 DEF EnrolJob, ClubJob
  <2>3. QED
    BY <1>10, <2>2 DEF EnrolCount, ClubJob
<1>11. ASSUME NEW h \in Desks, EnrolInsert(h) PROVE ClubTypeInv'
  <2>1. desk[h] \in EnrolJob
    BY <1>11, ClubWork DEF EnrolInsert
  <2>2. desk[h].club \in Clubs /\ desk[h].pupil \in Pupils
    BY <2>1 DEF EnrolJob
  <2>3. QED
    BY <1>11, <2>2, InsertMarks DEF EnrolInsert
<1>12. ASSUME NEW c \in Clubs, NEW s \in Pupils, Drop(c, s) PROVE ClubTypeInv'
  BY <1>12 DEF Drop
<1>13. QED
  BY <1>1, <1>2, <1>3, <1>4, <1>5, <1>6, <1>7, <1>8, <1>9, <1>10, <1>11, <1>12
     DEF ClubsNext
-----------------------------------------------------------------------------
(* Clubs: the capacity.                                                    *)

\* A request in hand reads no more seats than the club has had.
LEMMA CapacityKept == ClubTypeInv /\ CapacityInv /\ [ClubsNext]_clubVars => CapacityInv'
<1> SUFFICES ASSUME ClubTypeInv, CapacityInv, [ClubsNext]_clubVars PROVE CapacityInv'
  OBVIOUS
<1>0. ClubTypeInv'
  BY ClubTypesKept
<1> USE DEF ClubTypeInv, ClubsTypeOK, CapacityInv, Founded
<1>1. CASE UNCHANGED clubVars
  BY <1>1 DEF clubVars
<1>2. ASSUME NEW h \in Desks, NEW c \in Clubs, NEW n \in Seats, NEW ls \in SUBSET Levels,
             Found(h, c, n, ls)
      PROVE  CapacityInv'
  <2>1. /\ club' = [club EXCEPT ![c] = [status |-> "ACTIVE", seats |-> n, levels |-> ls]]
        /\ mostSeats' = [mostSeats EXCEPT ![c] = n]
        /\ mostSeats[c] = 0
    BY <1>2 DEF Found
  <2>2. n \in Nat /\ 0 <= n /\ n <= n
    BY PeaksAreNumbers
  <2>3. \A d \in Clubs : ~Founded(d)' => mostSeats'[d] = 0
    BY <2>1 DEF Unfounded
  <2>4. \A d \in Clubs : Founded(d)' => club'[d].seats <= mostSeats'[d]
    BY <2>1, <2>2
  <2>5. ASSUME NEW g \in Desks, desk'[g].step = "toCount"
        PROVE  desk'[g].seats <= mostSeats'[desk'[g].club]
    <3>1. desk'[g] = desk[g] /\ desk[g] \in EnrolJob
      BY <1>2, <2>5, ClubWork DEF Found
    <3>2. desk[g].club \in Clubs /\ desk[g].seats \in Seats
      BY <3>1 DEF EnrolJob
    <3>3. desk[g].seats <= mostSeats[desk[g].club]
      BY <2>5, <3>1
    <3>4. desk[g].seats \in Nat
      BY <3>2, PeaksAreNumbers
    <3>5. CASE desk[g].club = c
      <4>1. mostSeats'[c] = n /\ desk[g].seats <= 0
        BY <2>1, <3>3, <3>5
      <4>2. QED
        BY <2>2, <3>1, <3>4, <3>5, <4>1
    <3>6. CASE desk[g].club # c
      BY <2>1, <3>1, <3>2, <3>3, <3>6
    <3>7. QED
      BY <3>5, <3>6
  <2>6. QED
    BY <2>3, <2>4, <2>5
<1>3. ASSUME NEW h \in Desks, NEW c \in Clubs, NEW row \in ClubRow, NEW b \in BOOLEAN,
             EditRead(h, c, row, b)
      PROVE  CapacityInv'
  BY <1>3 DEF EditRead
<1>4. ASSUME NEW h \in Desks, NEW c \in Clubs, RemoveClub(h, c) PROVE CapacityInv'
  BY <1>3, <1>4, RemovalIsAnEdit
<1>5. ASSUME NEW h \in Desks, EditSave(h) PROVE CapacityInv'
  <2>1. desk[h] \in SaveJob
    BY <1>5, ClubWork DEF EditSave
  <2> DEFINE c == desk[h].club
             stands == session[c] \subseteq desk[h].rows /\ ~desk[h].joined
  <2>2. c \in Clubs /\ desk[h].row \in ClubRow /\ desk[h].row.seats \in Seats
    BY <2>1 DEF SaveJob, ClubRow
  <2>3. CASE ~stands
    BY <1>5, <2>3 DEF EditSave, Waiting
  <2>4. CASE stands
    <3>1. /\ club' = [club EXCEPT ![c] = desk[h].row]
          /\ \A d \in Clubs : mostSeats[d] <= mostSeats'[d]
          /\ \A d \in Clubs \ {c} : mostSeats'[d] = mostSeats[d]
          /\ desk[h].row.seats <= mostSeats'[c]
      <4>1. mostSeats' = [mostSeats EXCEPT ![c] =
                            IF desk[h].row.seats > mostSeats[c] THEN desk[h].row.seats
                                                                ELSE mostSeats[c]]
        BY <1>5, <2>4 DEF EditSave
      <4>2. \A d \in Clubs : mostSeats[d] \in Nat
        BY PeaksAreNumbers
      <4>3. QED
        BY <1>5, <2>2, <2>4, <4>1, <4>2, PeaksAreNumbers DEF EditSave
    <3>2. \A d \in Clubs : ~Founded(d)' => mostSeats'[d] = 0
      BY <2>2, <3>1 DEF Unfounded, ClubRow
    <3>3. \A d \in Clubs : Founded(d)' => club'[d].seats <= mostSeats'[d]
      BY <2>2, <3>1
    <3>4. ASSUME NEW g \in Desks, desk'[g].step = "toCount"
          PROVE  desk'[g].seats <= mostSeats'[desk'[g].club]
      <4>1. desk'[g] = desk[g]
        BY <1>5, <2>4, <3>4 DEF EditSave, Waiting
      <4>2. desk[g].club \in Clubs /\ desk[g].seats \in Seats
        BY <3>4, <4>1, ClubWork DEF EnrolJob
      <4>3. /\ desk[g].seats \in Nat /\ mostSeats[desk[g].club] \in Nat
            /\ mostSeats'[desk[g].club] \in Nat
        BY <1>0, <4>2, PeaksAreNumbers
      <4>4. QED
        BY <3>1, <3>4, <4>1, <4>2, <4>3
    <3>5. QED
      BY <3>2, <3>3, <3>4
  <2>5. QED
    BY <2>3, <2>4
<1>6. ASSUME NEW h \in Desks, EditClear(h) PROVE CapacityInv'
  BY <1>6 DEF EditClear
<1>7. ASSUME NEW h \in Desks, EditFill(h) PROVE CapacityInv'
  BY <1>7 DEF EditFill, Waiting
<1>8. ASSUME NEW h \in Desks, EditDies(h) PROVE CapacityInv'
  BY <1>8 DEF EditDies, Waiting
<1>9. ASSUME NEW h \in Desks, NEW c \in Clubs, NEW s \in Pupils, EnrolRead(h, c, s)
      PROVE  CapacityInv'
  BY <1>9 DEF EnrolRead
<1>10. ASSUME NEW h \in Desks, EnrolCount(h) PROVE CapacityInv'
  BY <1>10 DEF EnrolCount, Waiting
<1>11. ASSUME NEW h \in Desks, EnrolInsert(h) PROVE CapacityInv'
  <2>1. desk[h].club \in Clubs
    BY <1>11, ClubWork DEF EnrolInsert, EnrolJob
  <2>2. \A g \in Desks : desk'[g].step = "toCount" => desk'[g] = desk[g]
    BY <1>11, InsertMarks DEF Waiting, SaveJob
  <2>3. QED
    BY <1>11, <2>2 DEF EnrolInsert
<1>12. ASSUME NEW c \in Clubs, NEW s \in Pupils, Drop(c, s) PROVE CapacityInv'
  BY <1>12 DEF Drop
<1>13. QED
  BY <1>1, <1>2, <1>3, <1>4, <1>5, <1>6, <1>7, <1>8, <1>9, <1>10, <1>11, <1>12
     DEF ClubsNext
-----------------------------------------------------------------------------
(* Clubs: the seats.                                                       *)

\* A request that counted may be about to insert, and then its pupil is a member:
\* everything else leaves the two numbers of SeatInv as they are, or lowers them.
LEMMA SeatsKept ==
    ClubTypeInv /\ CapacityInv /\ SeatInv /\ [ClubsNext]_clubVars => SeatInv'
<1> SUFFICES ASSUME ClubTypeInv, CapacityInv, SeatInv, [ClubsNext]_clubVars PROVE SeatInv'
  OBVIOUS
<1>0. ClubTypeInv'
  BY ClubTypesKept
<1> USE DEF ClubTypeInv, ClubsTypeOK
<1>1. ASSUME \A c \in Clubs : /\ member'[c] \subseteq member[c]
                             /\ Pending(c)' \subseteq Pending(c)
                             /\ mostSeats[c] <= mostSeats'[c]
      PROVE  SeatInv'
  BY <1>0, <1>1, FewerKeepTheBound DEF SeatInv
<1>2. \A c \in Clubs : mostSeats[c] \in Nat /\ mostSeats[c] <= mostSeats[c]
  BY PeaksAreNumbers
<1>3. CASE UNCHANGED clubVars
  BY <1>1, <1>2, <1>3 DEF clubVars, Pending
<1>4. ASSUME NEW h \in Desks, NEW c \in Clubs, NEW n \in Seats, NEW ls \in SUBSET Levels,
             Found(h, c, n, ls)
      PROVE  SeatInv'
  <2>1. mostSeats[c] = 0 /\ n \in Nat
    BY <1>4, PeaksAreNumbers DEF Found, CapacityInv
  <2>2. \A d \in Clubs : mostSeats[d] <= mostSeats'[d]
    BY <1>2, <1>4, <2>1 DEF Found
  <2>3. \A d \in Clubs : Pending(d)' \subseteq Pending(d)
    BY <1>4 DEF Found, Pending
  <2>4. QED
    BY <1>1, <1>4, <2>2, <2>3 DEF Found
<1>5. ASSUME NEW h \in Desks, NEW c \in Clubs, NEW row \in ClubRow, NEW b \in BOOLEAN,
             EditRead(h, c, row, b)
      PROVE  SeatInv'
  BY <1>1, <1>2, <1>5 DEF EditRead, Pending
<1>6. ASSUME NEW h \in Desks, NEW c \in Clubs, RemoveClub(h, c) PROVE SeatInv'
  BY <1>5, <1>6, RemovalIsAnEdit
<1>7. ASSUME NEW h \in Desks, EditSave(h) PROVE SeatInv'
  <2>1. desk[h] \in SaveJob
    BY <1>7, ClubWork DEF EditSave
  <2>2. desk[h].club \in Clubs /\ desk[h].row.seats \in Nat
    BY <2>1, PeaksAreNumbers DEF SaveJob, ClubRow
  <2>3. \A d \in Clubs : mostSeats[d] <= mostSeats'[d]
    BY <1>2, <1>7, <2>2 DEF EditSave
  <2>4. \A d \in Clubs : Pending(d)' \subseteq Pending(d)
    BY <1>7 DEF EditSave, Pending, Waiting
  <2>5. QED
    BY <1>1, <1>7, <2>3, <2>4 DEF EditSave
<1>8. ASSUME NEW h \in Desks, EditClear(h) PROVE SeatInv'
  BY <1>1, <1>2, <1>8 DEF EditClear, Pending
<1>9. ASSUME NEW h \in Desks, EditFill(h) PROVE SeatInv'
  BY <1>1, <1>2, <1>9 DEF EditFill, Pending, Waiting
<1>10. ASSUME NEW h \in Desks, EditDies(h) PROVE SeatInv'
  BY <1>1, <1>2, <1>10 DEF EditDies, Pending, Waiting
<1>11. ASSUME NEW h \in Desks, NEW c \in Clubs, NEW s \in Pupils, EnrolRead(h, c, s)
       PROVE  SeatInv'
  BY <1>1, <1>2, <1>11 DEF EnrolRead, Pending
<1>12. ASSUME NEW h \in Desks, EnrolCount(h) PROVE SeatInv'
  <2>1. desk[h] \in EnrolJob /\ desk[h].step = "toCount"
    BY <1>12, ClubWork DEF EnrolCount
  <2>2. PICK c \in Clubs : c = desk[h].club /\ desk[h].seats <= mostSeats[c]
    BY <2>1 DEF EnrolJob, CapacityInv
  <2>a. desk[h].seats \in Nat
    BY <2>1, PeaksAreNumbers DEF EnrolJob
  <2>3. UNCHANGED <<member, mostSeats>>
    BY <1>12 DEF EnrolCount
  <2>4. \A d \in Clubs \ {c} : Pending(d)' \subseteq Pending(d)
    BY <1>12, <2>1, <2>2 DEF EnrolCount, Pending, Waiting, EnrolJob
  <2>5. CASE desk[h].pupil \notin member[c] /\ Cardinality(member[c]) < desk[h].seats
    <3>1. /\ Cardinality(member[c]) \in Nat /\ Cardinality(Desks) \in Nat
          /\ Cardinality(Pending(c)') \in Nat /\ Cardinality(Pending(c)') <= Cardinality(Desks)
      <4>1. Pending(c)' \subseteq Desks
        BY DEF Pending
      <4>2. Cardinality(member[c]) \in Nat
        BY <2>2, FS_CardinalityType DEF SeatInv
      <4>3. QED
        BY <4>1, <4>2, Counting, DesksAreFinite
    <3>2. Cardinality(member'[c]) + Cardinality(Pending(c)') < mostSeats'[c] + Cardinality(Desks)
      BY <1>2, <2>2, <2>a, <2>3, <2>5, <3>1
    <3>3. \A d \in Clubs \ {c} :
             /\ IsFiniteSet(member'[d])
             /\ Cardinality(member'[d]) + Cardinality(Pending(d)')
                  < mostSeats'[d] + Cardinality(Desks)
      BY <1>0, <1>2, <2>3, <2>4, FewerKeepTheBound
    <3>4. QED
      BY <2>2, <2>3, <3>2, <3>3 DEF SeatInv
  <2>6. CASE ~(desk[h].pupil \notin member[c] /\ Cardinality(member[c]) < desk[h].seats)
    <3>1. desk' = [desk EXCEPT ![h] = Waiting]
      BY <1>12, <2>2, <2>6 DEF EnrolCount
    <3>2. Pending(c)' \subseteq Pending(c)
      BY <3>1 DEF Pending, Waiting
    <3>3. QED
      BY <1>1, <1>2, <2>3, <2>4, <3>2
  <2>7. QED
    BY <2>5, <2>6
<1>13. ASSUME NEW h \in Desks, EnrolInsert(h) PROVE SeatInv'
  <2>1. desk[h] \in EnrolJob /\ desk[h].step = "toInsert"
    BY <1>13, ClubWork DEF EnrolInsert
  <2>2. PICK c \in Clubs : c = desk[h].club
    BY <2>1 DEF EnrolJob
  <2>3. /\ desk'[h] = Waiting
        /\ \A g \in Desks \ {h} : desk'[g].step = "toInsert" => desk'[g] = desk[g]
    BY <1>13, InsertMarks DEF SaveJob
  <2>4. mostSeats' = mostSeats /\ member' = [member EXCEPT ![c] = member[c] \cup {desk[h].pupil}]
    BY <1>13, <2>2 DEF EnrolInsert
  <2>5. \A d \in Clubs : Pending(d)' \subseteq Pending(d) \ {h}
    BY <2>3 DEF Pending, Waiting
  <2>6. \A d \in Clubs \ {c} :
           /\ IsFiniteSet(member'[d])
           /\ Cardinality(member'[d]) + Cardinality(Pending(d)')
                < mostSeats'[d] + Cardinality(Desks)
    BY <1>0, <1>2, <2>4, <2>5, FewerKeepTheBound
  <2>7. /\ IsFiniteSet(member[c])
        /\ Cardinality(member[c]) + Cardinality(Pending(c)) < mostSeats[c] + Cardinality(Desks)
    BY <2>2 DEF SeatInv
  <2>8. /\ IsFiniteSet(member'[c]) /\ Cardinality(member[c]) \in Nat
        /\ Cardinality(member'[c]) \in Nat
        /\ Cardinality(member'[c]) <= Cardinality(member[c]) + 1
    <3>1. member'[c] = member[c] \cup {desk[h].pupil}
      BY <2>2, <2>4
    <3>2. IsFiniteSet(member[c]) /\ Cardinality(member[c]) \in Nat
      BY <2>7, FS_CardinalityType
    <3>3. \A s : /\ IsFiniteSet(member[c] \cup {s})
                 /\ Cardinality(member[c] \cup {s}) =
                      IF s \in member[c] THEN Cardinality(member[c])
                                        ELSE Cardinality(member[c]) + 1
      BY <3>2, FS_AddElement
    <3>4. IsFiniteSet(member'[c])
      BY <3>1, <3>3
    <3>5. Cardinality(member'[c]) \in {Cardinality(member[c]), Cardinality(member[c]) + 1}
      BY <3>1, <3>3
    <3>6. QED
      BY <3>2, <3>4, <3>5
  <2>9. /\ Cardinality(Pending(c)) \in Nat /\ Cardinality(Pending(c)') \in Nat
        /\ Cardinality(Pending(c)') <= Cardinality(Pending(c)) - 1
    <3>1. IsFiniteSet(Pending(c))
      BY Counting, DesksAreFinite DEF Pending
    <3>2. h \in Pending(c)
      BY <2>1, <2>2 DEF Pending
    <3>3. /\ IsFiniteSet(Pending(c) \ {h})
          /\ Cardinality(Pending(c) \ {h}) = Cardinality(Pending(c)) - 1
      BY <3>1, <3>2, FS_RemoveElement
    <3>4. Pending(c)' \subseteq Pending(c) \ {h}
      BY <2>2, <2>5
    <3>5. /\ Cardinality(Pending(c)') \in Nat
          /\ Cardinality(Pending(c)') <= Cardinality(Pending(c) \ {h})
      BY <3>3, <3>4, Counting
    <3>6. Cardinality(Pending(c)) \in Nat
      BY <3>1, FS_CardinalityType
    <3>7. QED
      BY <3>3, <3>5, <3>6
  <2>10. Cardinality(member'[c]) + Cardinality(Pending(c)') < mostSeats'[c] + Cardinality(Desks)
    <3>1. Cardinality(Desks) \in Nat
      BY DesksAreFinite, FS_CardinalityType
    <3>2. QED
      BY <1>2, <2>2, <2>4, <2>7, <2>8, <2>9, <3>1
  <2>11. QED
    BY <2>6, <2>8, <2>10 DEF SeatInv
<1>14. ASSUME NEW c \in Clubs, NEW s \in Pupils, Drop(c, s) PROVE SeatInv'
  BY <1>1, <1>2, <1>14 DEF Drop, Pending
<1>15. QED
  BY <1>3, <1>4, <1>5, <1>6, <1>7, <1>8, <1>9, <1>10, <1>11, <1>12, <1>13, <1>14
     DEF ClubsNext
-----------------------------------------------------------------------------
(* Clubs: the sessions.                                                    *)

\* A step after which a club has the sessions it had and no edit more that has
\* cleared them keeps what EditInv says of it.
LEMMA OthersKeepTheirEdits ==
    ASSUME NEW c \in Clubs, EditOK(c), session'[c] = session[c],
           \A h \in Desks : Filling(h, c)' => Filling(h, c)
    PROVE  EditOK(c)'
BY DEF EditOK

\* One that also founds no club and takes none away, nor sets another at an edit,
\* keeps all of EditInv.
Goes(h) == desk'[h].step \in EditingSteps =>
             desk[h].step \in EditingSteps /\ desk'[h].club = desk[h].club

LEMMA EditsKept == ClubTypeInv /\ EditInv /\ [ClubsNext]_clubVars => EditInv'
<1> SUFFICES ASSUME ClubTypeInv, EditInv, [ClubsNext]_clubVars PROVE EditInv'
  OBVIOUS
<1> USE DEF ClubTypeInv, ClubsTypeOK
<1>0. /\ \A h \in Desks : desk[h].step \in EditingSteps => Founded(desk[h].club)
      /\ \A c \in Clubs : ~Founded(c) => session[c] = {}
      /\ \A c \in Clubs \ crossed : EditOK(c)
  BY DEF EditInv
<1>1. ASSUME club' = club, session' = session, crossed' = crossed,
             \A h \in Desks : Goes(h),
             \A h \in Desks, c \in Clubs : Filling(h, c)' => Filling(h, c)
      PROVE  EditInv'
  <2>1. \A c \in Clubs \ crossed' : EditOK(c)'
    BY <1>0, <1>1, OthersKeepTheirEdits
  <2>2. \A h \in Desks : desk'[h].step \in EditingSteps => Founded(desk[h].club)'
    BY <1>0, <1>1 DEF Goes, Founded
  <2>3. QED
    BY <1>0, <1>1, <2>1, <2>2 DEF EditInv, Founded
<1>2. CASE UNCHANGED clubVars
  BY <1>1, <1>2 DEF clubVars, Goes, Filling
<1>3. ASSUME NEW h \in Desks, NEW c \in Clubs, NEW n \in Seats, NEW ls \in SUBSET Levels,
             Found(h, c, n, ls)
      PROVE  EditInv'
  <2>1. /\ ~Founded(c) /\ session' = session /\ crossed' = crossed /\ session[c] = {}
        /\ desk' = [desk EXCEPT ![h] = [step |-> "toFill", club |-> c, edit |-> edits + 1]]
        /\ club' = [club EXCEPT ![c] = [status |-> "ACTIVE", seats |-> n, levels |-> ls]]
    BY <1>0, <1>3 DEF Found
  <2>2. \A g \in Desks : ~Filling(g, c)
    BY <1>0, <2>1 DEF Filling, EditingSteps
  <2>3. \A d \in Clubs : Founded(d)' <=> d = c \/ Founded(d)
    BY <2>1 DEF Founded, Unfounded
  <2>4. \A g \in Desks : desk'[g].step \in EditingSteps => Founded(desk[g].club)'
    BY <1>0, <2>1, <2>3 DEF Founded, Unfounded
  <2>5. \A g \in Desks : desk'[g] = IF g = h THEN [step |-> "toFill", club |-> c, edit |-> edits + 1]
                                            ELSE desk[g]
    BY <2>1
  <2>6. ASSUME NEW d \in Clubs \ crossed', d # c PROVE EditOK(d)'
    <3>1. \A g \in Desks : Filling(g, d)' => Filling(g, d)
      BY <2>5, <2>6 DEF Filling
    <3>2. QED
      BY <1>0, <2>1, <2>6, <3>1, OthersKeepTheirEdits
  <2>7. EditOK(c)'
    <3>1. \A g \in Desks : Filling(g, c)' => g = h
      BY <2>2, <2>5 DEF Filling
    <3>2. QED
      BY <2>1, <3>1 DEF EditOK
  <2>8. QED
    BY <1>0, <2>1, <2>3, <2>4, <2>6, <2>7 DEF EditInv
<1>4. ASSUME NEW h \in Desks, NEW c \in Clubs, NEW row \in ClubRow, NEW b \in BOOLEAN,
             EditRead(h, c, row, b)
      PROVE  EditInv'
  <2>1. /\ Founded(c) /\ session' = session /\ club' = club /\ crossed' = crossed
        /\ desk' = [desk EXCEPT ![h] =
             [step |-> "toSave", club |-> c, edit |-> edits + 1, row |-> row,
              rows |-> session[c], fills |-> b, joined |-> FALSE]]
    BY <1>4 DEF EditRead
  <2>2. \A g \in Desks : desk'[g].step \in EditingSteps => Founded(desk[g].club)'
    BY <1>0, <2>1 DEF Founded
  <2>3. \A g \in Desks, d \in Clubs : Filling(g, d)' => Filling(g, d)
    BY <2>1 DEF Filling
  <2>4. \A d \in Clubs \ crossed' : EditOK(d)'
    BY <1>0, <2>1, <2>3, OthersKeepTheirEdits
  <2>5. QED
    BY <1>0, <2>1, <2>2, <2>4 DEF EditInv, Founded
<1>5. ASSUME NEW h \in Desks, NEW c \in Clubs, RemoveClub(h, c) PROVE EditInv'
  BY <1>4, <1>5, RemovalIsAnEdit
<1>6. ASSUME NEW h \in Desks, EditSave(h) PROVE EditInv'
  <2>1. desk[h] \in SaveJob /\ desk[h].step = "toSave"
    BY <1>6, ClubWork DEF EditSave
  <2>2. PICK c \in Clubs : c = desk[h].club
    BY <2>1 DEF SaveJob
  <2> DEFINE stands == session[c] \subseteq desk[h].rows /\ ~desk[h].joined
  <2>3. CASE ~stands
    BY <1>1, <1>6, <2>2, <2>3 DEF EditSave, Waiting, Goes, Filling, EditingSteps
  <2>4. CASE stands
    <3>1. /\ club' = [club EXCEPT ![c] = desk[h].row]
          /\ session' = [session EXCEPT ![c] = desk[h].rows]
          /\ crossed' = IF desk[h].rows = session[c] THEN crossed ELSE crossed \cup {c}
          /\ desk' = [desk EXCEPT ![h] =
               IF desk[h].fills THEN [step |-> "toClear", club |-> c, edit |-> desk[h].edit]
                                ELSE Waiting]
      BY <1>6, <2>2, <2>4 DEF EditSave
    <3>2. /\ \A g \in Desks \ {h} : desk'[g] = desk[g]
          /\ desk'[h].step \in {"idle", "toClear"}
          /\ desk'[h].step = "toClear" => desk'[h].club = c
      BY <3>1 DEF Waiting
    <3>3. \A d \in Clubs : Founded(d)' <=> d = c \/ Founded(d)
      BY <2>1, <2>2, <3>1 DEF Founded, Unfounded, SaveJob, ClubRow
    <3>4. Founded(c)
      BY <1>0, <2>1, <2>2 DEF EditingSteps
    <3>5. ASSUME NEW g \in Desks, desk'[g].step \in EditingSteps PROVE Founded(desk[g].club)'
      <4>1. /\ desk[g].step \in EditingSteps
            /\ desk'[g].club = desk[g].club /\ desk[g].club \in Clubs
        BY <2>1, <2>2, <3>2, <3>5, ClubWork DEF EditingSteps, SaveJob, FillJob
      <4>2. PICK d \in Clubs : d = desk'[g].club /\ Founded(d)
        BY <1>0, <4>1
      <4>3. club'[d] # Unfounded
        BY <3>3, <4>2 DEF Founded
      <4>4. QED
        BY <4>2, <4>3 DEF Founded
    <3>6. \A g \in Desks, d \in Clubs : Filling(g, d)' => Filling(g, d)
      BY <3>2 DEF Filling
    <3>7. ASSUME NEW d \in Clubs \ crossed' PROVE EditOK(d)'
      <4>1. d \notin crossed /\ session'[d] = session[d]
        BY <3>1, <3>7
      <4>2. QED
        BY <1>0, <3>6, <3>7, <4>1, OthersKeepTheirEdits
    <3>8. \A d \in Clubs : ~Founded(d)' => session'[d] = {}
      BY <1>0, <3>1, <3>3
    <3>9. QED
      BY <3>5, <3>7, <3>8 DEF EditInv
  <2>5. QED
    BY <2>3, <2>4
<1>7. ASSUME NEW h \in Desks, EditClear(h) PROVE EditInv'
  <2>1. desk[h] \in FillJob /\ desk[h].step = "toClear"
    BY <1>7, ClubWork DEF EditClear
  <2>2. PICK c \in Clubs : c = desk[h].club
    BY <2>1 DEF FillJob
  <2>3. /\ session' = [session EXCEPT ![c] = {}]
        /\ desk' = [desk EXCEPT ![h].step = "toFill"]
        /\ club' = club
        /\ crossed' = IF \E g \in Desks : Filling(g, c) THEN crossed \cup {c} ELSE crossed \ {c}
    BY <1>7, <2>2 DEF EditClear
  <2>4. /\ desk'[h].step = "toFill" /\ desk'[h].club = c
        /\ \A g \in Desks \ {h} : desk'[g] = desk[g]
    BY <2>1, <2>2, <2>3 DEF FillJob
  <2>5. \A g \in Desks : desk'[g].step \in EditingSteps => Founded(desk[g].club)'
    <3>1. Founded(c)
      BY <1>0, <2>1, <2>2 DEF EditingSteps
    <3>2. QED
      BY <1>0, <2>2, <2>3, <2>4, <3>1 DEF Founded, EditingSteps
  <2>6. ASSUME NEW d \in Clubs \ crossed', d # c PROVE EditOK(d)'
    <3>1. \A g \in Desks : Filling(g, d)' => Filling(g, d)
      BY <2>4, <2>6 DEF Filling
    <3>2. d \notin crossed
      BY <2>3, <2>6
    <3>3. QED
      BY <1>0, <2>3, <2>6, <3>1, <3>2, OthersKeepTheirEdits
  <2>7. ASSUME c \notin crossed' PROVE EditOK(c)'
    <3>1. \A g \in Desks : ~Filling(g, c)
      BY <2>3, <2>7
    <3>2. \A g \in Desks : Filling(g, c)' => g = h
      BY <2>4, <3>1 DEF Filling
    <3>3. session'[c] = {}
      BY <2>3
    <3>4. QED
      BY <3>2, <3>3 DEF EditOK
  <2>8. QED
    BY <1>0, <2>3, <2>5, <2>6, <2>7 DEF EditInv, Founded
<1>8. ASSUME NEW h \in Desks, EditFill(h) PROVE EditInv'
  <2>1. desk[h] \in FillJob /\ desk[h].step = "toFill"
    BY <1>8, ClubWork DEF EditFill
  <2>2. PICK c \in Clubs : c = desk[h].club
    BY <2>1 DEF FillJob
  <2>3. /\ session' = [session EXCEPT ![c] = session[c] \cup {desk[h].edit}]
        /\ desk' = [desk EXCEPT ![h] = Waiting]
        /\ club' = club /\ crossed' = crossed
    BY <1>8, <2>2 DEF EditFill
  <2>4. /\ desk'[h] = Waiting
        /\ \A g \in Desks \ {h} : desk'[g] = desk[g]
    BY <2>3
  <2>5. Founded(c)
    BY <1>0, <2>1, <2>2 DEF EditingSteps
  <2>6. \A g \in Desks : desk'[g].step \in EditingSteps => Founded(desk[g].club)'
    BY <1>0, <2>3, <2>4 DEF Founded, EditingSteps, Waiting
  <2>7. ASSUME NEW d \in Clubs \ crossed', d # c PROVE EditOK(d)'
    <3>1. \A g \in Desks : Filling(g, d)' => Filling(g, d)
      BY <2>4 DEF Filling, Waiting
    <3>2. QED
      BY <1>0, <2>3, <2>7, <3>1, OthersKeepTheirEdits
  <2>8. ASSUME c \notin crossed' PROVE EditOK(c)'
    <3>1. /\ session[c] = {}
          /\ \A g \in Desks : Filling(g, c) => g = h
      BY <1>0, <2>1, <2>2, <2>3, <2>8 DEF EditOK, Filling
    <3>2. session'[c] = {desk[h].edit}
      BY <2>3, <3>1
    <3>3. \A g \in Desks : ~Filling(g, c)'
      BY <2>4, <3>1 DEF Filling, Waiting
    <3>4. QED
      BY <3>2, <3>3 DEF EditOK
  <2>9. \A d \in Clubs : ~Founded(d)' => session'[d] = {}
    BY <1>0, <2>3, <2>5 DEF Founded
  <2>10. QED
    BY <2>6, <2>7, <2>8, <2>9 DEF EditInv
<1>9. ASSUME NEW h \in Desks, EditDies(h) PROVE EditInv'
  BY <1>1, <1>9 DEF EditDies, Waiting, Goes, Filling, EditingSteps
<1>10. ASSUME NEW h \in Desks, NEW c \in Clubs, NEW s \in Pupils, EnrolRead(h, c, s)
       PROVE  EditInv'
  BY <1>1, <1>10 DEF EnrolRead, Goes, Filling, EditingSteps
<1>11. ASSUME NEW h \in Desks, EnrolCount(h) PROVE EditInv'
  <2>1. desk[h] \in EnrolJob
    BY <1>11, ClubWork DEF EnrolCount
  <2>2. /\ \A g \in Desks \ {h} : desk'[g] = desk[g]
        /\ desk'[h].step \in {"idle", "toInsert"}
    BY <1>11, <2>1 DEF EnrolCount, EnrolJob, Waiting
  <2>3. QED
    BY <1>1, <1>11, <2>2 DEF EnrolCount, Goes, Filling, EditingSteps
<1>12. ASSUME NEW h \in Desks, EnrolInsert(h) PROVE EditInv'
  <2>1. \A g \in Desks : Goes(g)
    BY <1>12, InsertMarks DEF SaveJob, Waiting, Goes, EditingSteps
  <2>2. \A g \in Desks, c \in Clubs : Filling(g, c)' => Filling(g, c)
    BY <1>12, InsertMarks DEF SaveJob, Waiting, Filling
  <2>3. QED
    BY <1>1, <1>12, <2>1, <2>2 DEF EnrolInsert
<1>13. ASSUME NEW c \in Clubs, NEW s \in Pupils, Drop(c, s) PROVE EditInv'
  BY <1>1, <1>13 DEF Drop, Goes, Filling
<1>14. QED
  BY <1>2, <1>3, <1>4, <1>5, <1>6, <1>7, <1>8, <1>9, <1>10, <1>11, <1>12, <1>13
     DEF ClubsNext

-----------------------------------------------------------------------------
(* Clubs: the invariant, and what follows.                                 *)

LEMMA ClubsInitial == ClubsInit => ClubInv
<1> SUFFICES ASSUME ClubsInit PROVE ClubInv
  OBVIOUS
<1> USE DEF ClubsInit
<1>1. ClubTypeInv
  BY EditsAreCounted DEF ClubTypeInv, ClubsTypeOK, ClubJob
<1>2. CapacityInv
  BY DEF CapacityInv, Founded, Waiting
<1>3. ASSUME NEW c \in Clubs
      PROVE  /\ IsFiniteSet(member[c])
             /\ Cardinality(member[c]) + Cardinality(Pending(c))
                  < mostSeats[c] + Cardinality(Desks)
  <2>1. member[c] = {} /\ Pending(c) = {} /\ mostSeats[c] = 0
    BY DEF Pending, Waiting
  <2>2. Cardinality({}) = 0 /\ IsFiniteSet({})
    BY FS_EmptySet
  <2>3. Cardinality(Desks) \in Nat /\ Cardinality(Desks) # 0
    BY DesksAreFinite, FS_CardinalityType, FS_EmptySet
  <2>4. QED
    BY <2>1, <2>2, <2>3
<1>4. EditInv
  BY DEF EditInv, EditOK, Filling, EditingSteps, Waiting, Founded
<1>5. QED
  BY <1>1, <1>2, <1>3, <1>4 DEF ClubInv, SeatInv

LEMMA ClubStep == ClubInv /\ [ClubsNext]_clubVars => ClubInv'
BY ClubTypesKept, CapacityKept, SeatsKept, EditsKept DEF ClubInv

LEMMA ClubInvariance == ClubsSpec => []ClubInv
BY ClubsInitial, ClubStep, PTL DEF ClubsSpec

\* Every variable of Clubs keeps its type.
THEOREM ClubsTypeCorrect == ClubsSpec => []ClubsTypeOK
<1>1. ClubInv => ClubsTypeOK
  BY DEF ClubInv, ClubTypeInv
<1>2. QED
  BY <1>1, ClubInvariance, PTL

\* A club's members never number more than its largest capacity and the
\* requests that overlap, less one: enrollStudent counts before it inserts.
THEOREM OverrunBounded == ClubsSpec => []SeatsOverrunBounded
<1>1. ClubInv => SeatsOverrunBounded
  <2> SUFFICES ASSUME ClubInv, NEW c \in Clubs
               PROVE  Cardinality(member[c]) < mostSeats[c] + Cardinality(Desks)
    BY DEF SeatsOverrunBounded
  <2>1. /\ IsFiniteSet(member[c])
        /\ Cardinality(member[c]) + Cardinality(Pending(c))
             < mostSeats[c] + Cardinality(Desks)
    BY DEF ClubInv, SeatInv
  <2>2. Cardinality(member[c]) \in Nat
    BY <2>1, FS_CardinalityType
  <2>3. Cardinality(Pending(c)) \in Nat /\ Cardinality(Desks) \in Nat
    BY Counting, DesksAreFinite DEF Pending
  <2>4. mostSeats[c] \in Nat
    BY PeaksAreNumbers DEF ClubInv, ClubTypeInv, ClubsTypeOK
  <2>5. QED
    BY <2>1, <2>2, <2>3, <2>4
<1>2. QED
  BY <1>1, ClubInvariance, PTL

\* A club has the sessions of more than one edit only after two edits stood at
\* once between deleting and inserting, or a save brought deleted ones back, and no
\* longer than until they are next replaced alone.
THEOREM OneEditsSessions == ClubsSpec => []OneTimetable
<1>1. ClubInv => OneTimetable
  <2> SUFFICES ASSUME ClubInv, NEW c \in Clubs, c \notin crossed
               PROVE  ~(Cardinality(session[c]) > 1)
    BY DEF OneTimetable
  <2>1. \A x, y \in session[c] : x = y
    BY DEF ClubInv, EditInv, EditOK
  <2>2. CASE session[c] = {}
    BY <2>2, FS_EmptySet
  <2>3. CASE session[c] # {}
    <3>1. PICK x : session[c] = {x}
      BY <2>1, <2>3
    <3>2. Cardinality({x}) = 1
      BY FS_Singleton
    <3>3. QED
      BY <3>1, <3>2
  <2>4. QED
    BY <2>2, <2>3
<1>2. QED
  BY <1>1, ClubInvariance, PTL

-----------------------------------------------------------------------------
(* Timetable.                                                              *)

CheckJob == [step : {"check"}, lesson : Lessons, old : LessonRow \cup {Unset},
             row : LessonRow, asked : 0..3, late : BOOLEAN, fails : BOOLEAN]
CoverJob == [step : {"cover"}, lesson : Lessons, date : Dates, teacher : Teachers]
ClerkJob == {Free} \cup CheckJob \cup CoverJob

TimetableTypeInv == TimetableTypeOK /\ clerk \in [Clerks -> ClerkJob]

\* Lesson f, where it stands in the slot of row, has none of the first n things
\* that the row is asked about.
Clear(row, f, n) ==
    Held(f) /\ lesson[f].slot = row.slot =>
        \A i \in 1..n : lesson[f][Questions[i]] # row[Questions[i]]

CheckInv ==
    \A h \in Clerks : clerk[h].step = "check" /\ ~clerk[h].late =>
        \A f \in Lessons : f # clerk[h].lesson => Clear(clerk[h].row, f, clerk[h].asked)

TimetableInv == TimetableTypeInv /\ CheckInv /\ NoDoubleBooking

-----------------------------------------------------------------------------
(* Timetable: what a step does to one request.                             *)

LEMMA ClerkWork ==
    ASSUME NEW j \in ClerkJob
    PROVE  /\ j.step \in {"idle", "check", "cover"}
           /\ j.step = "idle" => j = Free
           /\ j.step = "check" => j \in CheckJob
           /\ j.step = "cover" => j \in CoverJob
BY DEF ClerkJob, Free, CheckJob, CoverJob

\* There are three questions, and they ask for all that a lesson takes.
LEMMA ThreeQuestions ==
    /\ \A i \in 1..3 : Questions[i] \in {"room", "teacher", "group"}
    /\ \A what \in {"room", "teacher", "group"} : \E i \in 1..3 : Questions[i] = what
<1>1. Questions[1] = "room" /\ Questions[2] = "teacher" /\ Questions[3] = "group"
  BY DEF Questions
<1>2. \A i \in 1..3 : i = 1 \/ i = 2 \/ i = 3
  OBVIOUS
<1>3. QED
  BY <1>1, <1>2

\* A save tells the requests that check its slot, and no other.
LEMMA TellMarks ==
    ASSUME clerk \in [Clerks -> ClerkJob], NEW h \in Clerks, NEW slot, NEW j \in ClerkJob,
           Tell(h, slot, j)
    PROVE  /\ clerk' \in [Clerks -> ClerkJob]
           /\ clerk'[h] = j
           /\ \A g \in Clerks \ {h} :
                \/ clerk'[g] = clerk[g] /\ ~(clerk[g].step = "check" /\ clerk[g].row.slot = slot)
                \/ clerk[g] \in CheckJob /\ clerk'[g] \in CheckJob /\ clerk'[g].late
<1>1. ASSUME NEW g \in Clerks
      PROVE  /\ clerk'[g] \in ClerkJob
             /\ g = h => clerk'[g] = j
             /\ g # h =>
                  \/ clerk'[g] = clerk[g] /\ ~(clerk[g].step = "check" /\ clerk[g].row.slot = slot)
                  \/ clerk[g] \in CheckJob /\ clerk'[g] \in CheckJob /\ clerk'[g].late
  <2>1. CASE g # h /\ clerk[g].step = "check" /\ clerk[g].row.slot = slot
    <3>1. clerk[g] \in CheckJob
      BY <2>1, ClerkWork
    <3>2. clerk'[g] = [clerk[g] EXCEPT !.late = TRUE]
      BY <2>1 DEF Tell
    <3>3. clerk'[g] \in CheckJob /\ clerk'[g].late
      BY <3>1, <3>2 DEF CheckJob
    <3>4. QED
      BY <2>1, <3>1, <3>3 DEF ClerkJob
  <2>2. CASE ~(g # h /\ clerk[g].step = "check" /\ clerk[g].row.slot = slot)
    BY <2>2 DEF Tell
  <2>3. QED
    BY <2>1, <2>2
<1>2. clerk' = [g \in Clerks |-> clerk'[g]]
  BY DEF Tell
<1>3. QED
  BY <1>1, <1>2

\* The row an update saves: of the request's row, or of the row it read.
LEMMA SavedRow ==
    ASSUME NEW row \in LessonRow, NEW old \in LessonRow,
           NEW kept \in SUBSET {"group", "teacher", "room"}
    PROVE  LET saved == [what \in DOMAIN row |-> IF what \in kept THEN old[what]
                                                                  ELSE row[what]]
           IN  saved \in LessonRow /\ saved.slot = row.slot
<1> DEFINE saved == [what \in DOMAIN row |-> IF what \in kept THEN old[what] ELSE row[what]]
<1>1. DOMAIN row = {"stored", "active", "slot", "group", "teacher", "room"}
  BY DEF LessonRow
<1>2. /\ saved.stored = row.stored /\ saved.active = row.active /\ saved.slot = row.slot
      /\ saved.group \in {old.group, row.group}
      /\ saved.teacher \in {old.teacher, row.teacher}
      /\ saved.room \in {old.room, row.room}
  BY <1>1
<1>3. saved = [stored |-> saved.stored, active |-> saved.active, slot |-> saved.slot,
               group |-> saved.group, teacher |-> saved.teacher, room |-> saved.room]
  BY <1>1
<1>4. /\ row.stored = TRUE /\ row.active \in BOOLEAN /\ row.slot \in Slots
      /\ row.group \in Groups /\ row.teacher \in Teachers /\ row.room \in Rooms
      /\ old.group \in Groups /\ old.teacher \in Teachers /\ old.room \in Rooms
  BY DEF LessonRow
<1>5. saved \in LessonRow
  BY <1>2, <1>3, <1>4 DEF LessonRow
<1>6. QED
  BY <1>2, <1>5

\* An update that changed none of the three saves the row as it is.
LEMMA UnchangedRow ==
    ASSUME NEW row \in LessonRow, NEW old
    PROVE  [what \in DOMAIN row |-> IF what \in {} THEN old[what] ELSE row[what]] = row
BY DEF LessonRow

\* What an update saves, unless the save fails.
LEMMA UpdateSaves ==
    ASSUME TimetableTypeInv, NEW h \in Clerks, SaveUpdated(h), ~clerk[h].fails
    PROVE  /\ \E saved \in LessonRow :
                /\ saved.slot = clerk[h].row.slot
                /\ lesson' = [lesson EXCEPT ![clerk[h].lesson] = saved]
                /\ saved = clerk[h].row \/ clerk[h].lesson \in moved'
           /\ moved \subseteq moved'
           /\ Tell(h, clerk[h].row.slot, Free)
<1> DEFINE ids == {what \in {"group", "teacher", "room"} :
                     clerk[h].row[what] # clerk[h].old[what]}
<1>1. clerk[h] \in CheckJob
  BY ClerkWork DEF SaveUpdated, TimetableTypeInv
<1>2. clerk[h].row \in LessonRow /\ clerk[h].old \in LessonRow
  BY <1>1 DEF SaveUpdated, CheckJob
<1>3. PICK kept \in SUBSET ids :
        /\ lesson' = [lesson EXCEPT ![clerk[h].lesson] =
              [what \in DOMAIN clerk[h].row |-> IF what \in kept THEN clerk[h].old[what]
                                                                 ELSE clerk[h].row[what]]]
        /\ moved' = IF ids = {} THEN moved ELSE moved \cup {clerk[h].lesson}
        /\ Tell(h, clerk[h].row.slot, Free)
  BY DEF SaveUpdated
<1> DEFINE saved == [what \in DOMAIN clerk[h].row |-> IF what \in kept THEN clerk[h].old[what]
                                                                     ELSE clerk[h].row[what]]
<1>4. saved \in LessonRow /\ saved.slot = clerk[h].row.slot
  BY <1>2, SavedRow
<1>5. CASE ids = {}
  <2>1. kept = {}
    BY <1>5
  <2>2. saved = clerk[h].row
    BY <1>2, <2>1, UnchangedRow
  <2>3. QED
    BY <1>3, <1>4, <1>5, <2>2
<1>6. CASE ids # {}
  <2>1. clerk[h].lesson \in moved'
    BY <1>3, <1>6
  <2>2. QED
    BY <1>3, <1>4, <2>1
<1>7. QED
  BY <1>5, <1>6

-----------------------------------------------------------------------------
(* Timetable: the types.                                                   *)

LEMMA TimetableTypesKept == TimetableTypeInv /\ [TimetableNext]_timetableVars => TimetableTypeInv'
<1> SUFFICES ASSUME TimetableTypeInv, [TimetableNext]_timetableVars PROVE TimetableTypeInv'
  OBVIOUS
<1> USE DEF TimetableTypeInv, TimetableTypeOK
<1>1. CASE UNCHANGED timetableVars
  BY <1>1 DEF timetableVars
<1>2. Plans \subseteq LessonRow
  BY PlansAreRows DEF LessonRow
<1>3. ASSUME NEW h \in Clerks, NEW e \in Lessons, NEW row \in Plans, CreateLesson(h, e, row)
      PROVE  TimetableTypeInv'
  <2>1. [step |-> "check", lesson |-> e, old |-> Unset, row |-> row, asked |-> 0,
         late |-> FALSE, fails |-> FALSE] \in ClerkJob
    BY <1>2 DEF ClerkJob, CheckJob
  <2>2. QED
    BY <1>3, <2>1 DEF CreateLesson
<1>4. ASSUME NEW h \in Clerks, NEW e \in Lessons, NEW row \in Plans, UpdateLesson(h, e, row)
      PROVE  TimetableTypeInv'
  <2>1. lesson[e] \in LessonRow \cup {Unset}
    BY <1>4 DEF UpdateLesson, Standing, Unset, Deleted
  <2>2. [step |-> "check", lesson |-> e, old |-> lesson[e], row |-> row, asked |-> 0,
         late |-> FALSE, fails |-> FALSE] \in ClerkJob
    BY <1>2, <2>1 DEF ClerkJob, CheckJob
  <2>3. QED
    BY <1>4, <2>2 DEF UpdateLesson
<1>5. ASSUME NEW h \in Clerks, Ask(h) PROVE TimetableTypeInv'
  <2>1. clerk[h] \in CheckJob /\ clerk[h].asked < 3
    BY <1>5, ClerkWork DEF Ask
  <2>2. clerk[h].asked + 1 \in 0..3
    BY <2>1 DEF CheckJob
  <2>3. [clerk[h] EXCEPT !.asked = clerk[h].asked + 1] \in ClerkJob
    BY <2>1, <2>2 DEF CheckJob, ClerkJob
  <2>4. QED
    BY <1>5, <2>3 DEF Ask, ClerkJob
<1>6. ASSUME NEW h \in Clerks, SaveCreated(h) PROVE TimetableTypeInv'
  <2>1. clerk[h] \in CheckJob
    BY <1>6, ClerkWork DEF SaveCreated
  <2>2. clerk[h].lesson \in Lessons /\ clerk[h].row \in LessonRow
    BY <2>1 DEF CheckJob
  <2>3. clerk' \in [Clerks -> ClerkJob]
    BY <1>6, TellMarks DEF SaveCreated, ClerkJob
  <2>4. QED
    BY <1>6, <2>2, <2>3 DEF SaveCreated
<1>7. ASSUME NEW h \in Clerks, SaveUpdated(h) PROVE TimetableTypeInv'
  <2>1. clerk[h] \in CheckJob
    BY <1>7, ClerkWork DEF SaveUpdated
  <2>2. clerk[h].lesson \in Lessons /\ clerk[h].row \in LessonRow /\ clerk[h].old \in LessonRow
    BY <1>7, <2>1 DEF CheckJob, SaveUpdated
  <2>3. CASE clerk[h].fails
    BY <1>7, <2>3 DEF SaveUpdated, ClerkJob
  <2>4. CASE ~clerk[h].fails
    <3>1. PICK saved \in LessonRow : lesson' = [lesson EXCEPT ![clerk[h].lesson] = saved]
      BY <1>7, <2>4, UpdateSaves
    <3>2. lesson' \in [Lessons -> LessonRow \cup {Unset, Deleted}]
      BY <3>1
    <3>3. clerk' \in [Clerks -> ClerkJob]
      <4>1. Tell(h, clerk[h].row.slot, Free)
        BY <1>7, <2>4, UpdateSaves
      <4>2. Free \in ClerkJob
        BY DEF ClerkJob
      <4>3. QED
        BY <4>1, <4>2, TellMarks
    <3>4. UNCHANGED cover /\ raced' \subseteq Lessons /\ moved' \subseteq Lessons
      <4>1. UNCHANGED cover
        BY <1>7 DEF SaveUpdated
      <4>2. raced' \in {raced, raced \cup {clerk[h].lesson}}
        BY <1>7, <2>4 DEF SaveUpdated
      <4>3. moved' \in {moved, moved \cup {clerk[h].lesson}}
        BY <1>7, <2>4 DEF SaveUpdated
      <4>4. QED
        BY <2>2, <4>1, <4>2, <4>3
    <3>5. QED
      BY <3>2, <3>3, <3>4
  <2>5. QED
    BY <2>3, <2>4
<1>8. ASSUME NEW e \in Lessons, DeleteLesson(e) PROVE TimetableTypeInv'
  BY <1>8 DEF DeleteLesson
<1>9. ASSUME NEW h \in Clerks, NEW e \in Lessons, NEW d \in Dates, NEW t \in Teachers,
             CoverRead(h, e, d, t)
      PROVE  TimetableTypeInv'
  <2>1. [step |-> "cover", lesson |-> e, date |-> d, teacher |-> t] \in ClerkJob
    BY DEF ClerkJob, CoverJob
  <2>2. QED
    BY <1>9, <2>1 DEF CoverRead
<1>10. ASSUME NEW h \in Clerks, CoverInsert(h) PROVE TimetableTypeInv'
  <2>1. clerk[h] \in CoverJob
    BY <1>10, ClerkWork DEF CoverInsert
  <2> DEFINE e == clerk[h].lesson
             d == clerk[h].date
  <2>2. e \in Lessons /\ d \in Dates /\ clerk[h].teacher \in Teachers
    BY <2>1 DEF CoverJob
  <2>3. CASE cover[e][d] # Uncovered
    BY <1>10, <2>3 DEF CoverInsert, ClerkJob
  <2>4. CASE cover[e][d] = Uncovered
    <3>1. [status |-> "CONFIRMED", teacher |-> clerk[h].teacher] \in Cover
      BY <2>2 DEF Cover
    <3>2. cover' \in [Lessons -> [Dates -> Cover \cup {Uncovered}]]
      BY <1>10, <2>2, <2>4, <3>1 DEF CoverInsert
    <3>3. \A g \in Clerks : clerk'[g] \in ClerkJob
      <4>1. \A g \in Clerks : clerk[g].step = "check" => [clerk[g] EXCEPT !.fails = TRUE] \in ClerkJob
        <5>1. ASSUME NEW g \in Clerks, clerk[g].step = "check"
              PROVE  [clerk[g] EXCEPT !.fails = TRUE] \in CheckJob
          <6>1. clerk[g] \in CheckJob
            BY <5>1, ClerkWork
          <6>2. QED
            BY <6>1 DEF CheckJob
        <5>2. QED
          BY <5>1 DEF ClerkJob
      <4>2. QED
        BY <1>10, <2>4, <4>1 DEF CoverInsert, ClerkJob
    <3>4. clerk' = [g \in Clerks |-> clerk'[g]]
      BY <1>10, <2>4 DEF CoverInsert
    <3>5. QED
      BY <1>10, <3>2, <3>3, <3>4 DEF CoverInsert
  <2>5. QED
    BY <2>3, <2>4
<1>11. ASSUME NEW e \in Lessons, NEW d \in Dates, CancelCover(e, d) PROVE TimetableTypeInv'
  <2>1. cover[e][d] \in Cover
    BY <1>11 DEF CancelCover
  <2>2. [cover[e][d] EXCEPT !.status = "CANCELLED"] \in Cover
    BY <2>1 DEF Cover
  <2>3. QED
    BY <1>11, <2>2 DEF CancelCover
<1>12. QED
  BY <1>1, <1>3, <1>4, <1>5, <1>6, <1>7, <1>8, <1>9, <1>10, <1>11 DEF TimetableNext
-----------------------------------------------------------------------------
(* Timetable: the checks and the bookings.                                 *)

\* What two lessons owe each other.
Apart(x, y) ==
    Held(x) /\ Held(y) /\ lesson[x].slot = lesson[y].slot =>
        \/ {x, y} \cap (raced \cup moved) # {}
        \/ \A what \in {"room", "teacher", "group"} : lesson[x][what] # lesson[y][what]

LEMMA PairsAreApart == NoDoubleBooking <=> \A x, y \in Lessons : x # y => Apart(x, y)
BY DEF NoDoubleBooking, Apart

\* Lessons and their marks being what they were, pairs stay apart.
LEMMA NothingSaved ==
    ASSUME NoDoubleBooking, \A e \in Lessons : lesson'[e] = lesson[e] \/ lesson'[e] = Deleted,
           raced \subseteq raced', moved \subseteq moved'
    PROVE  NoDoubleBooking'
<1>1. \A e \in Lessons : Held(e)' => Held(e) /\ lesson'[e] = lesson[e]
  BY DEF Held, Standing, Deleted
<1>2. ASSUME NEW x \in Lessons, NEW y \in Lessons, x # y,
             Held(x)', Held(y)', lesson'[x].slot = lesson'[y].slot
      PROVE  \/ {x, y} \cap (raced' \cup moved') # {}
             \/ \A what \in {"room", "teacher", "group"} : lesson'[x][what] # lesson'[y][what]
  BY <1>1, <1>2 DEF NoDoubleBooking
<1>3. QED
  BY <1>2 DEF NoDoubleBooking

\* A request keeps what it may rely on when it stays as far as it was, and no
\* lesson appears.
LEMMA ChecksStand ==
    ASSUME CheckInv, \A e \in Lessons : lesson'[e] = lesson[e] \/ lesson'[e] = Deleted,
           NEW h \in Clerks,
           clerk'[h].step = "check" /\ ~clerk'[h].late =>
             /\ clerk[h].step = "check" /\ ~clerk[h].late
             /\ clerk'[h].row = clerk[h].row /\ clerk'[h].lesson = clerk[h].lesson
             /\ clerk'[h].asked = clerk[h].asked
    PROVE  clerk'[h].step = "check" /\ ~clerk'[h].late =>
             \A f \in Lessons : f # clerk'[h].lesson => Clear(clerk[h].row, f, clerk[h].asked)'
<1>1. \A e \in Lessons : Held(e)' => Held(e) /\ lesson'[e] = lesson[e]
  BY DEF Held, Standing, Deleted
<1>2. QED
  BY <1>1 DEF CheckInv, Clear

\* A save after three questions that nobody disturbed, or that is marked.
LEMMA SaveKeeps ==
    ASSUME TimetableTypeInv, CheckInv, NoDoubleBooking, NEW h \in Clerks,
           clerk[h].step = "check", clerk[h].asked = 3,
           NEW e \in Lessons, e = clerk[h].lesson,
           NEW saved \in LessonRow, saved.slot = clerk[h].row.slot,
           lesson' = [lesson EXCEPT ![e] = saved],
           raced \subseteq raced', moved \subseteq moved',
           saved = clerk[h].row \/ e \in moved',
           clerk[h].late => e \in raced',
           Tell(h, clerk[h].row.slot, Free)
    PROVE  CheckInv' /\ NoDoubleBooking'
<1> USE DEF TimetableTypeInv, TimetableTypeOK
<1>1. lesson'[e] = saved /\ \A f \in Lessons \ {e} : lesson'[f] = lesson[f]
  OBVIOUS
<1>2. \A f \in Lessons \ {e} : (Held(f)' <=> Held(f)) /\ lesson'[f] = lesson[f]
  BY <1>1 DEF Held, Standing
<1>3. /\ clerk'[h] = Free
      /\ \A g \in Clerks \ {h} :
            \/ clerk'[g] = clerk[g]
               /\ ~(clerk[g].step = "check" /\ clerk[g].row.slot = clerk[h].row.slot)
            \/ clerk'[g].late
  <2>1. Free \in ClerkJob
    BY DEF ClerkJob
  <2>2. QED
    BY <2>1, TellMarks
<1>4. ASSUME NEW g \in Clerks, clerk'[g].step = "check", ~clerk'[g].late,
             NEW f \in Lessons, f # clerk'[g].lesson
      PROVE  Clear(clerk[g].row, f, clerk[g].asked)'
  <2>1. /\ clerk'[g] = clerk[g] /\ clerk[g].step = "check" /\ ~clerk[g].late
        /\ clerk[g].row.slot # clerk[h].row.slot
    BY <1>3, <1>4 DEF Free
  <2>2. CASE f = e
    BY <1>1, <2>1, <2>2 DEF Clear
  <2>3. CASE f # e
    <3>1. Clear(clerk[g].row, f, clerk[g].asked)
      BY <1>4, <2>1 DEF CheckInv
    <3>2. QED
      BY <1>2, <2>1, <2>3, <3>1 DEF Clear
  <2>4. QED
    BY <2>2, <2>3
<1>5. CheckInv'
  BY <1>4 DEF CheckInv
<1>6. ASSUME NEW f \in Lessons, f # e, Held(f)', lesson'[f].slot = lesson'[e].slot,
             e \notin raced' \cup moved'
      PROVE  \A what \in {"room", "teacher", "group"} : lesson'[e][what] # lesson'[f][what]
  <2>1. /\ ~clerk[h].late /\ saved = clerk[h].row
        /\ Held(f) /\ lesson'[f] = lesson[f] /\ lesson[f].slot = clerk[h].row.slot
    BY <1>1, <1>2, <1>6
  <2>2. \A i \in 1..3 : lesson[f][Questions[i]] # clerk[h].row[Questions[i]]
    BY <1>6, <2>1 DEF CheckInv, Clear
  <2>3. \A what \in {"room", "teacher", "group"} : lesson[f][what] # clerk[h].row[what]
    BY <2>2, ThreeQuestions
  <2>4. QED
    BY <1>1, <2>1, <2>3
<1>7. ASSUME NEW x \in Lessons, NEW y \in Lessons, x # y,
             Held(x)', Held(y)', lesson'[x].slot = lesson'[y].slot
      PROVE  \/ {x, y} \cap (raced' \cup moved') # {}
             \/ \A what \in {"room", "teacher", "group"} : lesson'[x][what] # lesson'[y][what]
  <2>1. CASE x = e
    BY <1>6, <1>7, <2>1
  <2>2. CASE y = e
    BY <1>6, <1>7, <2>2
  <2>3. CASE x # e /\ y # e
    BY <1>2, <1>7, <2>3 DEF NoDoubleBooking
  <2>4. QED
    BY <2>1, <2>2, <2>3
<1>8. NoDoubleBooking'
  BY <1>7 DEF NoDoubleBooking
<1>9. QED
  BY <1>5, <1>8

LEMMA BookingsKept == TimetableInv /\ [TimetableNext]_timetableVars => CheckInv' /\ NoDoubleBooking'
<1> SUFFICES ASSUME TimetableInv, [TimetableNext]_timetableVars PROVE CheckInv' /\ NoDoubleBooking'
  OBVIOUS
<1> USE DEF TimetableInv, TimetableTypeInv, TimetableTypeOK
<1>1. ASSUME \A e \in Lessons : lesson'[e] = lesson[e] \/ lesson'[e] = Deleted,
             raced' = raced, moved' = moved,
             \A g \in Clerks : clerk'[g].step = "check" /\ ~clerk'[g].late =>
               \/ clerk'[g].asked = 0
               \/ /\ clerk[g].step = "check" /\ ~clerk[g].late
                  /\ clerk'[g].row = clerk[g].row /\ clerk'[g].lesson = clerk[g].lesson
                  /\ clerk'[g].asked = clerk[g].asked
      PROVE  CheckInv' /\ NoDoubleBooking'
  <2>1. NoDoubleBooking'
    BY <1>1, NothingSaved
  <2>2. ASSUME NEW g \in Clerks, clerk'[g].step = "check", ~clerk'[g].late,
               NEW f \in Lessons, f # clerk'[g].lesson
        PROVE  Clear(clerk[g].row, f, clerk[g].asked)'
    <3>1. CASE clerk'[g].asked = 0
      BY <3>1 DEF Clear
    <3>2. CASE clerk'[g].asked # 0
      BY <1>1, <2>2, <3>2, ChecksStand
    <3>3. QED
      BY <3>1, <3>2
  <2>3. QED
    BY <2>1, <2>2 DEF CheckInv
<1>2. CASE UNCHANGED timetableVars
  BY <1>1, <1>2 DEF timetableVars
<1>3. ASSUME NEW h \in Clerks, NEW e \in Lessons, NEW row \in Plans, CreateLesson(h, e, row)
      PROVE  CheckInv' /\ NoDoubleBooking'
  BY <1>1, <1>3 DEF CreateLesson
<1>4. ASSUME NEW h \in Clerks, NEW e \in Lessons, NEW row \in Plans, UpdateLesson(h, e, row)
      PROVE  CheckInv' /\ NoDoubleBooking'
  BY <1>1, <1>4 DEF UpdateLesson
<1>5. ASSUME NEW h \in Clerks, Ask(h) PROVE CheckInv' /\ NoDoubleBooking'
  <2>1. clerk[h] \in CheckJob /\ clerk[h].asked < 3 /\ UNCHANGED <<lesson, cover, raced, moved>>
    BY <1>5, ClerkWork DEF Ask
  <2>2. CASE Taken(clerk[h].row, clerk[h].lesson, Questions[clerk[h].asked + 1])
    BY <1>1, <1>5, <2>1, <2>2 DEF Ask, Free
  <2>3. CASE ~Taken(clerk[h].row, clerk[h].lesson, Questions[clerk[h].asked + 1])
    <3>1. clerk' = [clerk EXCEPT ![h] = [clerk[h] EXCEPT !.asked = clerk[h].asked + 1]]
      BY <1>5, <2>3 DEF Ask
    <3>2. /\ clerk'[h].row = clerk[h].row /\ clerk'[h].lesson = clerk[h].lesson
          /\ clerk'[h].late = clerk[h].late /\ clerk'[h].step = "check"
          /\ clerk'[h].asked = clerk[h].asked + 1 /\ clerk[h].step = "check"
      BY <2>1, <3>1 DEF CheckJob
    <3>3. ASSUME NEW f \in Lessons, f # clerk[h].lesson, ~clerk[h].late
          PROVE  Clear(clerk[h].row, f, clerk[h].asked)'
      <4>1. Clear(clerk[h].row, f, clerk[h].asked)
        BY <3>2, <3>3 DEF CheckInv
      <4>2. Held(f) /\ lesson[f].slot = clerk[h].row.slot =>
              lesson[f][Questions[clerk[h].asked + 1]] # clerk[h].row[Questions[clerk[h].asked + 1]]
        BY <2>3, <3>3 DEF Taken
      <4>3. \A i \in 1..(clerk[h].asked + 1) : i \in 1..clerk[h].asked \/ i = clerk[h].asked + 1
        BY <2>1 DEF CheckJob
      <4>4. QED
        BY <2>1, <3>2, <4>1, <4>2, <4>3 DEF Clear, Held, Standing
    <3>4. \A g \in Clerks \ {h} : clerk'[g] = clerk[g]
      BY <3>1
    <3>5. ASSUME NEW g \in Clerks, clerk'[g].step = "check", ~clerk'[g].late,
                 NEW f \in Lessons, f # clerk'[g].lesson
          PROVE  Clear(clerk[g].row, f, clerk[g].asked)'
      <4>1. CASE g = h
        BY <3>2, <3>3, <3>5, <4>1
      <4>2. CASE g # h
        BY <2>1, <3>4, <3>5, <4>2, ChecksStand
      <4>3. QED
        BY <4>1, <4>2
    <3>6. NoDoubleBooking'
      BY <2>1, NothingSaved
    <3>7. QED
      BY <3>5, <3>6 DEF CheckInv
  <2>4. QED
    BY <2>2, <2>3
<1>6. ASSUME NEW h \in Clerks, SaveCreated(h) PROVE CheckInv' /\ NoDoubleBooking'
  <2>1. clerk[h] \in CheckJob
    BY <1>6, ClerkWork DEF SaveCreated
  <2>2. PICK e \in Lessons : e = clerk[h].lesson
    BY <2>1 DEF CheckJob
  <2>3. clerk[h].row \in LessonRow
    BY <2>1 DEF CheckJob
  <2>4. /\ clerk[h].step = "check" /\ clerk[h].asked = 3
        /\ lesson' = [lesson EXCEPT ![e] = clerk[h].row]
        /\ raced \subseteq raced' /\ moved \subseteq moved'
        /\ clerk[h].late => e \in raced'
        /\ Tell(h, clerk[h].row.slot, Free)
    BY <1>6, <2>2 DEF SaveCreated
  <2>5. QED
    BY <2>2, <2>3, <2>4, SaveKeeps
<1>7. ASSUME NEW h \in Clerks, SaveUpdated(h) PROVE CheckInv' /\ NoDoubleBooking'
  <2>1. clerk[h] \in CheckJob
    BY <1>7, ClerkWork DEF SaveUpdated
  <2>2. PICK e \in Lessons : e = clerk[h].lesson
    BY <2>1 DEF CheckJob
  <2>3. CASE clerk[h].fails
    BY <1>1, <1>7, <2>3 DEF SaveUpdated, Free
  <2>4. CASE ~clerk[h].fails
    <3>1. PICK saved \in LessonRow :
            /\ saved.slot = clerk[h].row.slot
            /\ lesson' = [lesson EXCEPT ![e] = saved]
            /\ saved = clerk[h].row \/ e \in moved'
      BY <1>7, <2>2, <2>4, UpdateSaves
    <3>2. moved \subseteq moved' /\ Tell(h, clerk[h].row.slot, Free)
      BY <1>7, <2>4, UpdateSaves
    <3>3. /\ clerk[h].step = "check" /\ clerk[h].asked = 3
          /\ raced \subseteq raced'
          /\ clerk[h].late => e \in raced'
      BY <1>7, <2>2, <2>4 DEF SaveUpdated
    <3>4. QED
      BY <2>2, <3>1, <3>2, <3>3, SaveKeeps
  <2>5. QED
    BY <2>3, <2>4
<1>8. ASSUME NEW e \in Lessons, DeleteLesson(e) PROVE CheckInv' /\ NoDoubleBooking'
  BY <1>1, <1>8 DEF DeleteLesson
<1>9. ASSUME NEW h \in Clerks, NEW e \in Lessons, NEW d \in Dates, NEW t \in Teachers,
             CoverRead(h, e, d, t)
      PROVE  CheckInv' /\ NoDoubleBooking'
  BY <1>1, <1>9 DEF CoverRead
<1>10. ASSUME NEW h \in Clerks, CoverInsert(h) PROVE CheckInv' /\ NoDoubleBooking'
  <2>1. \A g \in Clerks : clerk'[g].step = "check" =>
           /\ clerk[g] \in CheckJob
           /\ clerk'[g] = clerk[g] \/ clerk'[g] = [clerk[g] EXCEPT !.fails = TRUE]
    <3>1. \A g \in Clerks : \/ clerk'[g] = Free \/ clerk'[g] = clerk[g]
                           \/ /\ clerk[g].step = "check"
                              /\ clerk'[g] = [clerk[g] EXCEPT !.fails = TRUE]
      BY <1>10 DEF CoverInsert
    <3>2. \A g \in Clerks : clerk[g].step = "check" => clerk[g] \in CheckJob
      BY ClerkWork
    <3>3. \A g \in Clerks : clerk'[g].step = "check" => clerk'[g] # Free
      BY DEF Free
    <3>4. QED
      BY <3>1, <3>2, <3>3, Zenon
  <2>2. \A g \in Clerks : clerk'[g].step = "check" =>
           /\ clerk[g].step = "check" /\ clerk'[g].late = clerk[g].late
           /\ clerk'[g].row = clerk[g].row /\ clerk'[g].lesson = clerk[g].lesson
           /\ clerk'[g].asked = clerk[g].asked
    <3> SUFFICES ASSUME NEW g \in Clerks, clerk'[g].step = "check"
                 PROVE  /\ clerk[g].step = "check" /\ clerk'[g].late = clerk[g].late
                        /\ clerk'[g].row = clerk[g].row /\ clerk'[g].lesson = clerk[g].lesson
                        /\ clerk'[g].asked = clerk[g].asked
      OBVIOUS
    <3>1. clerk[g] \in CheckJob
      BY <2>1
    <3>2. CASE clerk'[g] = clerk[g]
      BY <3>1, <3>2 DEF CheckJob
    <3>3. CASE clerk'[g] = [clerk[g] EXCEPT !.fails = TRUE]
      <4>1. clerk[g].step = "check"
        BY <3>1 DEF CheckJob
      <4>2. clerk'[g].late = clerk[g].late
        BY <3>1, <3>3 DEF CheckJob
      <4>3. clerk'[g].row = clerk[g].row /\ clerk'[g].lesson = clerk[g].lesson
              /\ clerk'[g].asked = clerk[g].asked
        BY <3>1, <3>3 DEF CheckJob
      <4>4. QED
        BY <4>1, <4>2, <4>3
    <3>4. QED
      BY <2>1, <3>2, <3>3
  <2>3. QED
    BY <1>1, <1>10, <2>2 DEF CoverInsert
<1>11. ASSUME NEW e \in Lessons, NEW d \in Dates, CancelCover(e, d)
       PROVE  CheckInv' /\ NoDoubleBooking'
  BY <1>1, <1>11 DEF CancelCover
<1>12. QED
  BY <1>2, <1>3, <1>4, <1>5, <1>6, <1>7, <1>8, <1>9, <1>10, <1>11 DEF TimetableNext

-----------------------------------------------------------------------------
(* Timetable: the invariant, and what follows.                             *)

LEMMA TimetableInitial == TimetableInit => TimetableInv
BY DEF TimetableInit, TimetableInv, TimetableTypeInv, TimetableTypeOK, CheckInv,
   NoDoubleBooking, ClerkJob, Free, Held, Standing, Unset

LEMMA TimetableInvariance == TimetableSpec => []TimetableInv
<1>1. TimetableInv /\ [TimetableNext]_timetableVars => TimetableInv'
  BY TimetableTypesKept, BookingsKept DEF TimetableInv
<1>2. QED
  BY TimetableInitial, <1>1, PTL DEF TimetableSpec

\* Every variable of Timetable keeps its type.
THEOREM TimetableTypeCorrect == TimetableSpec => []TimetableTypeOK
<1>1. TimetableInv => TimetableTypeOK
  BY DEF TimetableInv, TimetableTypeInv
<1>2. QED
  BY <1>1, TimetableInvariance, PTL

\* validateConflicts lets two active lessons share a slot and a room, a teacher
\* or a class only through a save it could not see, or an update that gave a
\* lesson another of them.
THEOREM BookedOnce == TimetableSpec => []NoDoubleBooking
<1>1. TimetableInv => NoDoubleBooking
  BY DEF TimetableInv
<1>2. QED
  BY <1>1, TimetableInvariance, PTL

\* The unique index of substitutions keeps a lesson's cover on a date for ever,
\* for any number of overlapping requests.
THEOREM CoverIsFinal == TimetableSpec => CoveredOnce
<1> DEFINE A == \A e \in Lessons, d \in Dates : cover[e][d] # Uncovered =>
                  /\ cover'[e][d] # Uncovered /\ cover'[e][d].teacher = cover[e][d].teacher
                  /\ cover[e][d].status = "CANCELLED" => cover'[e][d].status = "CANCELLED"
<1>1. TimetableInv /\ [TimetableNext]_timetableVars => [A]_timetableVars
  <2> SUFFICES ASSUME TimetableInv, [TimetableNext]_timetableVars PROVE A
    OBVIOUS
  <2>0. cover \in [Lessons -> [Dates -> Cover \cup {Uncovered}]]
    BY DEF TimetableInv, TimetableTypeInv, TimetableTypeOK
  <2>1. CASE cover' = cover
    BY <2>1
  <2>2. ASSUME NEW h \in Clerks, CoverInsert(h) PROVE A
    BY <2>0, <2>2 DEF CoverInsert
  <2>3. ASSUME NEW x \in Lessons, NEW t \in Dates, CancelCover(x, t) PROVE A
    <3>1. cover[x][t] \in Cover /\ cover' = [cover EXCEPT ![x][t].status = "CANCELLED"]
      BY <2>0, <2>3 DEF CancelCover
    <3>2. /\ cover'[x][t] = [cover[x][t] EXCEPT !.status = "CANCELLED"]
          /\ \A e \in Lessons, d \in Dates : e # x \/ d # t => cover'[e][d] = cover[e][d]
      BY <2>0, <3>1
    <3>3. /\ cover'[x][t] # Uncovered /\ cover'[x][t].teacher = cover[x][t].teacher
          /\ cover'[x][t].status = "CANCELLED"
      BY <3>1, <3>2 DEF Cover, Uncovered
    <3>4. QED
      BY <3>2, <3>3
  <2>4. QED
    BY <2>1, <2>2, <2>3 DEF TimetableNext, timetableVars, CreateLesson, UpdateLesson, Ask,
       SaveCreated, SaveUpdated, DeleteLesson, CoverRead
<1>2. QED
  BY <1>1, TimetableInvariance, PTL DEF TimetableSpec, CoveredOnce

-----------------------------------------------------------------------------
(* Staffing.                                                               *)

UpdateJob == [step : {"save"}, user : Users, row : Account, names : BOOLEAN, late : BOOLEAN]
ResetJob == [step : {"reset"}, user : Users, row : Account]
PostJob == [step : {"appoint", "amend"}, post : Posts, holders : SUBSET (Users \cup {Nobody})]
OfficeJob == {Quiet} \cup UpdateJob \cup ResetJob \cup PostJob

StaffTypeInv ==
    /\ StaffTypeOK
    /\ bidden \in [Users -> Account \cup {NoAccount}]
    /\ office \in [Offices -> OfficeJob]

\* Requests work on accounts there are, and an account there is was asked for.
BornInv ==
    /\ \A h \in Offices : office[h].step \in {"save", "reset"} =>
         account[office[h].user] \in Account
    /\ \A u \in Users : account[u] \in Account => bidden[u] \in Account
    /\ \A u \in Users : RoleOf[u] = "SUPER_ADMIN" => account[u] \in Account

\* An update that is not late saves what the account is, but for what it names.
UpdateInv ==
    \A h \in Offices : office[h].step = "save" =>
        LET j == office[h]
            u == j.user
        IN  /\ RoleOf[u] = "SUPER_ADMIN" => ~j.row.deleted
            /\ ~j.late => /\ j.row = [account[u] EXCEPT !.active = j.row.active]
                          /\ j.names = (j.row.active # account[u].active)

\* Whom a request may write into a post is a teacher that works, or stopped
\* while the request had him.
AppointInv ==
    \A h \in Offices, u \in Users : Holding(h, u) /\ u # Nobody =>
        RoleOf[u] = "TEACHER" /\ (Works(u) \/ u \in gone)

StaffInv ==
    /\ StaffTypeInv /\ BornInv /\ UpdateInv /\ AppointInv
    /\ LastWordStands /\ PostsGoToTeachers

\* The kinds of work are told apart by their steps.
LEMMA OfficeWork ==
    ASSUME StaffTypeInv, NEW h \in Offices
    PROVE  /\ office[h] \in OfficeJob
           /\ office[h].step = "idle" <=> office[h] = Quiet
           /\ office[h].step = "save" <=> office[h] \in UpdateJob
           /\ office[h].step = "reset" <=> office[h] \in ResetJob
           /\ office[h].step \in {"appoint", "amend"} <=> office[h] \in PostJob
<1>1. office[h] \in OfficeJob
  BY DEF StaffTypeInv
<1>2. QED
  BY <1>1 DEF OfficeJob, Quiet, UpdateJob, ResetJob, PostJob

\* An account there is is not NoAccount.
LEMMA AccountsAreBorn ==
    ASSUME NEW row \in Account
    PROVE  row # NoAccount /\ row.born /\ row.active \in BOOLEAN /\ row.deleted \in BOOLEAN
<1>1. row.born \in {TRUE} /\ row.active \in BOOLEAN /\ row.deleted \in BOOLEAN
  BY DEF Account
<1>2. row.born = TRUE
  BY <1>1
<1>3. NoAccount.born = FALSE
  BY DEF NoAccount
<1>4. QED
  BY <1>1, <1>2, <1>3

\* Works(v), after a step.
WorksNext(v) == account'[v].born /\ ~account'[v].deleted /\ account'[v].active

\* What a write of an account does to the accounts, the requests and the gone.
LEMMA WriteSteps ==
    ASSUME StaffTypeInv, NEW h \in Offices, NEW u \in Users, NEW row \in Account,
           Written(h, u, row)
    PROVE  /\ account' \in [Users -> Account \cup {NoAccount}]
           /\ account'[u] = row
           /\ \A v \in Users : v # u => account'[v] = account[v]
           /\ office' \in [Offices -> OfficeJob]
           /\ \A g \in Offices :
                \/ office'[g] = Quiet
                \/ office'[g] = office[g] /\ (office[g].step = "save" => office[g].user # u)
                \/ /\ office[g] \in UpdateJob /\ office'[g] \in UpdateJob
                   /\ office'[g].user = office[g].user /\ office'[g].row = office[g].row
                   /\ office'[g].late
           /\ gone' \subseteq Users /\ \A v \in gone : v # u => v \in gone'
           /\ \/ row.active /\ ~row.deleted
              \/ u \in gone'
              \/ (\A p \in Posts : post[p] # u) /\ (\A g \in Offices : ~Holding(g, u))
<1>1. /\ account \in [Users -> Account \cup {NoAccount}] /\ office \in [Offices -> OfficeJob]
      /\ gone \subseteq Users
  BY DEF StaffTypeInv, StaffTypeOK
<1>2. account' = [account EXCEPT ![u] = row]
  BY DEF Written
<1>3. /\ account' \in [Users -> Account \cup {NoAccount}] /\ account'[u] = row
      /\ \A v \in Users : v # u => account'[v] = account[v]
  BY <1>1, <1>2
<1>4. ASSUME NEW g \in Offices
      PROVE  /\ office'[g] \in OfficeJob
             /\ \/ office'[g] = Quiet
                \/ office'[g] = office[g] /\ (office[g].step = "save" => office[g].user # u)
                \/ /\ office[g] \in UpdateJob /\ office'[g] \in UpdateJob
                   /\ office'[g].user = office[g].user /\ office'[g].row = office[g].row
                   /\ office'[g].late
  <2>1. office'[g] = IF g = h THEN Quiet
                     ELSE IF office[g].step = "save" /\ office[g].user = u
                       THEN [office[g] EXCEPT !.late = TRUE] ELSE office[g]
    BY DEF Written
  <2>2. CASE g # h /\ office[g].step = "save" /\ office[g].user = u
    <3>1. office[g] \in UpdateJob
      BY <2>2, OfficeWork
    <3>2. office'[g] = [office[g] EXCEPT !.late = TRUE]
      BY <2>1, <2>2
    <3>3. /\ office'[g] \in UpdateJob /\ office'[g].user = office[g].user
          /\ office'[g].row = office[g].row /\ office'[g].late
      BY <3>1, <3>2 DEF UpdateJob
    <3>4. QED
      BY <3>1, <3>3 DEF OfficeJob
  <2>3. CASE g = h
    BY <2>1, <2>3 DEF OfficeJob
  <2>4. CASE g # h /\ ~(office[g].step = "save" /\ office[g].user = u)
    BY <1>1, <2>1, <2>4
  <2>5. QED
    BY <2>2, <2>3, <2>4
<1>5. office' \in [Offices -> OfficeJob]
  <2>1. office' = [g \in Offices |-> office'[g]]
    BY DEF Written
  <2>2. QED
    BY <1>4, <2>1
<1>6. /\ gone' \subseteq Users /\ \A v \in gone : v # u => v \in gone'
      /\ \/ row.active /\ ~row.deleted
         \/ u \in gone'
         \/ (\A p \in Posts : post[p] # u) /\ (\A g \in Offices : ~Holding(g, u))
  BY <1>1 DEF Written
<1>7. QED
  BY <1>3, <1>4, <1>5, <1>6

\* A write of an account that was read outdates the updates that read it, and
\* remembers who stops working; all the rest stands.
LEMMA WriteKeeps ==
    ASSUME StaffTypeInv, BornInv, UpdateInv, AppointInv, PostsGoToTeachers,
           NEW h \in Offices, NEW u \in Users, NEW row \in Account,
           Written(h, u, row), UNCHANGED post
    PROVE  /\ \A g \in Offices : office'[g].step \in {"save", "reset"} =>
                account'[office'[g].user] \in Account
           /\ \A v \in Users : RoleOf[v] = "SUPER_ADMIN" => account'[v] \in Account
           /\ UpdateInv' /\ AppointInv' /\ PostsGoToTeachers'
<1>1. /\ account' \in [Users -> Account \cup {NoAccount}] /\ account'[u] = row
      /\ \A v \in Users : v # u => account'[v] = account[v]
  BY WriteSteps
<1>2. \A g \in Offices :
         \/ office'[g] = Quiet
         \/ office'[g] = office[g] /\ (office[g].step = "save" => office[g].user # u)
         \/ /\ office[g] \in UpdateJob /\ office'[g] \in UpdateJob
            /\ office'[g].user = office[g].user /\ office'[g].row = office[g].row
            /\ office'[g].late
  BY WriteSteps
<1>3. /\ \A v \in gone : v # u => v \in gone'
      /\ \/ row.active /\ ~row.deleted
         \/ u \in gone'
         \/ (\A p \in Posts : post[p] # u) /\ (\A g \in Offices : ~Holding(g, u))
  BY WriteSteps
<1>4. \A v \in Users : account[v] \in Account => account'[v] \in Account
  BY <1>1
<1>5. \A j \in UpdateJob \cup ResetJob : j.step \in {"save", "reset"} /\ j.user \in Users
  BY DEF UpdateJob, ResetJob
<1>6. ASSUME NEW g \in Offices, office'[g].step \in {"save", "reset"}
      PROVE  account'[office'[g].user] \in Account
  <2>1. office[g].step \in {"save", "reset"} /\ office'[g].user = office[g].user
    BY <1>2, <1>5, <1>6 DEF Quiet
  <2>2. office[g].user \in Users
    BY <1>5, <2>1, OfficeWork
  <2>3. QED
    BY <1>4, <2>1, <2>2 DEF BornInv
<1>7. \A v \in Users : RoleOf[v] = "SUPER_ADMIN" => account'[v] \in Account
  BY <1>4 DEF BornInv
<1>8. UpdateInv'
  <2>1. SUFFICES ASSUME NEW g \in Offices, office'[g].step = "save"
                 PROVE  LET j == office'[g]
                            v == j.user
                        IN  /\ RoleOf[v] = "SUPER_ADMIN" => ~j.row.deleted
                            /\ ~j.late => /\ j.row = [account'[v] EXCEPT !.active = j.row.active]
                                          /\ j.names = (j.row.active # account'[v].active)
    BY DEF UpdateInv
  <2>2. office'[g] # Quiet
    BY <2>1 DEF Quiet
  <2>3. CASE office'[g] = office[g] /\ office[g].user # u
    <3>1. office[g].user \in Users
      BY <1>5, <2>1, <2>3, OfficeWork
    <3>2. account'[office[g].user] = account[office[g].user]
      BY <1>1, <2>3, <3>1
    <3>3. QED
      BY <2>1, <2>3, <3>2 DEF UpdateInv
  <2>4. CASE /\ office[g] \in UpdateJob /\ office'[g].user = office[g].user
             /\ office'[g].row = office[g].row /\ office'[g].late
    <3>1. office[g].step = "save"
      BY <2>4 DEF UpdateJob
    <3>2. QED
      BY <2>4, <3>1 DEF UpdateInv
  <2>5. QED
    BY <1>2, <2>1, <2>2, <2>3, <2>4
<1>9. \A v \in Users :
         /\ (Works(v) \/ v \in gone)
         /\ (\E p \in Posts : post[p] = v) \/ (\E g \in Offices : Holding(g, v))
         => WorksNext(v) \/ v \in gone'
  <2>1. SUFFICES ASSUME NEW v \in Users, Works(v) \/ v \in gone,
                        (\E p \in Posts : post[p] = v) \/ (\E g \in Offices : Holding(g, v))
                 PROVE  WorksNext(v) \/ v \in gone'
    OBVIOUS
  <2>2. CASE v # u
    BY <1>1, <1>3, <2>1, <2>2 DEF Works, Exists, WorksNext
  <2>3. CASE v = u
    <3>1. row.active /\ ~row.deleted => WorksNext(v)
      BY <1>1, <2>3, AccountsAreBorn DEF WorksNext
    <3>2. QED
      BY <1>3, <2>1, <2>3, <3>1
  <2>4. QED
    BY <2>2, <2>3
<1>10. AppointInv'
  <2>1. SUFFICES ASSUME NEW g \in Offices, NEW v \in Users, Holding(g, v)', v # Nobody
                 PROVE  RoleOf[v] = "TEACHER" /\ (WorksNext(v) \/ v \in gone')
    BY DEF AppointInv, Works, Exists, WorksNext
  <2>2. office'[g] = office[g]
    BY <1>2, <2>1 DEF Holding, Quiet, UpdateJob
  <2>3. Holding(g, v)
    BY <2>1, <2>2 DEF Holding
  <2>4. QED
    BY <1>9, <2>1, <2>3 DEF AppointInv
<1>11. PostsGoToTeachers'
  <2>1. SUFFICES ASSUME NEW p \in Posts, post[p] # Nobody
                 PROVE  /\ RoleOf[post[p]] = "TEACHER"
                        /\ WorksNext(post[p]) \/ post[p] \in gone'
    BY DEF PostsGoToTeachers, Works, Exists, WorksNext
  <2>2. post[p] \in Users
    BY <2>1 DEF StaffTypeInv, StaffTypeOK
  <2>3. QED
    BY <1>9, <2>1, <2>2 DEF PostsGoToTeachers
<1>12. QED
  BY <1>6, <1>7, <1>8, <1>10, <1>11

\* Initially the accounts are new and nobody holds a post.
LEMMA StaffInitial == StaffInit => StaffInv
<1>1. SUFFICES ASSUME StaffInit PROVE StaffInv
  OBVIOUS
<1> DEFINE new == [born |-> TRUE, active |-> TRUE, deleted |-> FALSE, secret |-> 0]
<1>2. new \in Account /\ new # NoAccount
  <2>1. new \in Account
    BY SecretsAreCounted DEF Account
  <2>2. QED
    BY <2>1, AccountsAreBorn
<1>3. /\ account \in [Users -> {NoAccount, new}] /\ bidden = account
      /\ \A h \in Offices : office[h] = Quiet
      /\ \A p \in Posts : post[p] = Nobody
  BY <1>1 DEF StaffInit
<1>4. StaffTypeInv
  <2>1. account \in [Users -> Account \cup {NoAccount}]
    BY <1>2, <1>3
  <2>2. StaffTypeOK
    BY <1>1, <2>1, SecretsAreCounted DEF StaffInit, StaffTypeOK
  <2>3. office \in [Offices -> OfficeJob]
    BY <1>1 DEF StaffInit, OfficeJob
  <2>4. QED
    BY <1>3, <2>1, <2>2, <2>3 DEF StaffTypeInv
<1>5. \A u \in Users : RoleOf[u] = "SUPER_ADMIN" => account[u] = new
  <2>1. ~NoAccount.born
    BY DEF NoAccount
  <2>2. QED
    BY <1>1, <1>3, <2>1 DEF StaffInit
<1>6. BornInv
  <2>1. \A h \in Offices : office[h].step \notin {"save", "reset"}
    BY <1>3 DEF Quiet
  <2>2. \A u \in Users : account[u] \in Account => bidden[u] \in Account
    BY <1>3
  <2>3. QED
    BY <1>2, <1>5, <2>1, <2>2, Zenon DEF BornInv
<1>7. UpdateInv /\ AppointInv
  BY <1>3 DEF UpdateInv, AppointInv, Holding, Quiet
<1>8. LastWordStands
  BY <1>3, <1>5 DEF LastWordStands
<1>9. PostsGoToTeachers
  BY <1>3 DEF PostsGoToTeachers
<1>10. QED
  BY <1>4, <1>6, <1>7, <1>8, <1>9 DEF StaffInv

\* What a write of account u must do to be what was bidden: the other accounts
\* and what was bidden of them stay, and this one is as bidden or is undone.
LEMMA WriteIsBidden ==
    ASSUME StaffInv, NEW h \in Offices, NEW u \in Users, NEW row \in Account,
           Written(h, u, row), UNCHANGED post,
           secrets' \in 0..MaxSecrets, undone' \in {undone, undone \cup {u}},
           NEW bid \in Account, bidden' = [bidden EXCEPT ![u] = bid],
           u \in undone' \/ row = bid,
           RoleOf[u] = "SUPER_ADMIN" => ~row.deleted
    PROVE  StaffInv'
<1>1. /\ StaffTypeInv /\ BornInv /\ UpdateInv /\ AppointInv
      /\ LastWordStands /\ PostsGoToTeachers
  BY DEF StaffInv
<1>2. /\ account' \in [Users -> Account \cup {NoAccount}] /\ account'[u] = row
      /\ \A v \in Users : v # u => account'[v] = account[v]
      /\ office' \in [Offices -> OfficeJob] /\ gone' \subseteq Users
  BY <1>1, WriteSteps
<1>3. /\ \A g \in Offices : office'[g].step \in {"save", "reset"} =>
           account'[office'[g].user] \in Account
      /\ \A v \in Users : RoleOf[v] = "SUPER_ADMIN" => account'[v] \in Account
      /\ UpdateInv' /\ AppointInv' /\ PostsGoToTeachers'
  BY <1>1, WriteKeeps
<1>4. bidden \in [Users -> Account \cup {NoAccount}]
  BY <1>1 DEF StaffTypeInv
<1>5. /\ bidden' \in [Users -> Account \cup {NoAccount}] /\ bidden'[u] = bid
      /\ \A v \in Users : v # u => bidden'[v] = bidden[v]
  BY <1>4
<1>6. StaffTypeInv'
  <2>1. undone' \subseteq Users /\ post' \in [Posts -> Users \cup {Nobody}]
    BY <1>1 DEF StaffTypeInv, StaffTypeOK
  <2>2. QED
    BY <1>2, <1>5, <2>1 DEF StaffTypeInv, StaffTypeOK
<1>7. \A v \in Users : account'[v] \in Account => bidden'[v] \in Account
  BY <1>1, <1>2, <1>5 DEF BornInv
<1>8. BornInv'
  BY <1>3, <1>7 DEF BornInv
<1>9. LastWordStands'
  <2>1. ASSUME NEW v \in Users PROVE v \in undone' \/ account'[v] = bidden'[v]
    BY <1>1, <1>2, <1>5, <2>1 DEF LastWordStands
  <2>2. ASSUME NEW v \in Users, RoleOf[v] = "SUPER_ADMIN"
        PROVE  account'[v].born /\ ~account'[v].deleted
    <3>1. account'[v].born
      BY <1>3, <2>2, AccountsAreBorn
    <3>2. ~account'[v].deleted
      BY <1>1, <1>2, <2>2 DEF LastWordStands
    <3>3. QED
      BY <3>1, <3>2
  <2>3. QED
    BY <2>1, <2>2 DEF LastWordStands
<1>10. QED
  BY <1>3, <1>6, <1>8, <1>9 DEF StaffInv

\* A step of a request that writes no account: its work is done, or was begun
\* on an account there is.
LEMMA RequestSteps ==
    ASSUME StaffInv, NEW h \in Offices, NEW j \in OfficeJob,
           office' = [office EXCEPT ![h] = j],
           UNCHANGED <<account, bidden, secrets, undone, gone>>,
           post' \in [Posts -> Users \cup {Nobody}], PostsGoToTeachers',
           j.step \in {"save", "reset"} => account[j.user] \in Account,
           j.step = "save" =>
               /\ RoleOf[j.user] = "SUPER_ADMIN" => ~j.row.deleted
               /\ j.row = [account[j.user] EXCEPT !.active = j.row.active]
               /\ j.names = (j.row.active # account[j.user].active),
           j.step \in {"appoint", "amend"} => \A u \in j.holders \ {Nobody} :
               RoleOf[u] = "TEACHER" /\ (Works(u) \/ u \in gone)
    PROVE  StaffInv'
<1>1. /\ StaffTypeInv /\ BornInv /\ UpdateInv /\ AppointInv /\ LastWordStands
  BY DEF StaffInv
<1>2. office'[h] = j /\ \A g \in Offices : g # h => office'[g] = office[g]
  BY <1>1 DEF StaffTypeInv
<1>3. StaffTypeInv'
  BY <1>1 DEF StaffTypeInv, StaffTypeOK
<1>4. BornInv'
  <2>1. \A g \in Offices : office'[g].step \in {"save", "reset"} =>
          account[office'[g].user] \in Account
    BY <1>1, <1>2 DEF BornInv
  <2>2. QED
    BY <1>1, <2>1 DEF BornInv
<1>5. UpdateInv'
  <2>1. SUFFICES ASSUME NEW g \in Offices, office'[g].step = "save"
                 PROVE  LET i == office'[g]
                            u == i.user
                        IN  /\ RoleOf[u] = "SUPER_ADMIN" => ~i.row.deleted
                            /\ ~i.late => /\ i.row = [account[u] EXCEPT !.active = i.row.active]
                                          /\ i.names = (i.row.active # account[u].active)
    BY DEF UpdateInv
  <2>2. CASE g = h
    BY <1>2, <2>1, <2>2
  <2>3. CASE g # h
    <3>1. office'[g] = office[g]
      BY <1>2, <2>3
    <3>2. office[g].step = "save" =>
            LET i == office[g]
                u == i.user
            IN  /\ RoleOf[u] = "SUPER_ADMIN" => ~i.row.deleted
                /\ ~i.late => /\ i.row = [account[u] EXCEPT !.active = i.row.active]
                              /\ i.names = (i.row.active # account[u].active)
      BY <1>1, Zenon DEF UpdateInv
    <3>3. QED
      BY <2>1, <3>1, <3>2, Zenon
  <2>4. QED
    BY <2>2, <2>3
<1>6. AppointInv'
  <2>1. \A g \in Offices, u \in Users : Holding(g, u)' /\ u # Nobody =>
          RoleOf[u] = "TEACHER" /\ (Works(u) \/ u \in gone)
    BY <1>1, <1>2 DEF AppointInv, Holding
  <2>2. QED
    BY <2>1 DEF AppointInv, Works, Exists
<1>7. LastWordStands'
  BY <1>1 DEF LastWordStands
<1>8. QED
  BY <1>3, <1>4, <1>5, <1>6, <1>7 DEF StaffInv

\* Nobody manages a SUPER_ADMIN.
LEMMA NobodyManagesTheHighest ==
    ASSUME NEW a \in Users, NEW u \in Users, Manages(a, u)
    PROVE  RoleOf[u] # "SUPER_ADMIN"
<1>1. RoleOf[a] \in RoleNames /\ RoleOf[u] \in RoleNames
  BY RolesAreKnown
<1>2. Rank["SUPER_ADMIN"] = 4 /\ \A r \in RoleNames : r # "SUPER_ADMIN" => Rank[r] \in 0..3
  BY DEF RoleNames, Rank
<1>3. QED
  BY <1>1, <1>2 DEF Manages, ManagesRole

\* Every step keeps the invariant.
LEMMA StaffStep == StaffInv /\ [StaffNext]_staffVars => StaffInv'
<1>1. SUFFICES ASSUME StaffInv, [StaffNext]_staffVars PROVE StaffInv'
  OBVIOUS
<1>2. /\ StaffTypeInv /\ BornInv /\ UpdateInv /\ AppointInv
      /\ LastWordStands /\ PostsGoToTeachers
  BY <1>1 DEF StaffInv
<1>3. /\ account \in [Users -> Account \cup {NoAccount}]
      /\ bidden \in [Users -> Account \cup {NoAccount}]
      /\ secrets \in 0..MaxSecrets /\ MaxSecrets \in Nat
      /\ post \in [Posts -> Users \cup {Nobody}]
  BY <1>2, SecretsAreCounted DEF StaffTypeInv, StaffTypeOK
<1>4. \A u \in Users : Exists(u) => account[u] \in Account
  BY <1>3 DEF Exists, NoAccount
<1>5. secrets < MaxSecrets => secrets + 1 \in 0..MaxSecrets
  BY <1>3
<1>6. UNCHANGED post => PostsGoToTeachers' \/ ~(UNCHANGED <<account, gone>>)
  BY <1>2 DEF PostsGoToTeachers, Works, Exists
<1>7. ASSUME NEW h \in Offices, NEW a \in Users, NEW u \in Users, CreateUser(h, a, u)
      PROVE  StaffInv'
  <2> DEFINE row == [born |-> TRUE, active |-> TRUE, deleted |-> FALSE, secret |-> secrets + 1]
  <2>1. /\ Written(h, u, row) /\ UNCHANGED <<post, undone>> /\ secrets' = secrets + 1
        /\ secrets < MaxSecrets /\ bidden' = [bidden EXCEPT ![u] = row]
    BY <1>7 DEF CreateUser
  <2>2. row \in Account
    BY <1>5, <2>1 DEF Account
  <2>3. ~row.deleted /\ secrets' \in 0..MaxSecrets
    BY <1>5, <2>1
  <2> HIDE DEF row
  <2>4. QED
    BY <1>1, <2>1, <2>2, <2>3, WriteIsBidden
<1>8. ASSUME NEW h \in Offices, NEW a \in Users, NEW u \in Users, SoftDelete(h, a, u)
      PROVE  StaffInv'
  <2> DEFINE row == [account[u] EXCEPT !.deleted = TRUE]
             bid == [bidden[u] EXCEPT !.deleted = TRUE]
  <2>1. /\ Written(h, u, row) /\ UNCHANGED <<post, secrets, undone>>
        /\ bidden' = [bidden EXCEPT ![u] = bid] /\ Exists(u) /\ Manages(a, u)
    BY <1>8 DEF SoftDelete
  <2>2. account[u] \in Account /\ bidden[u] \in Account
    BY <1>2, <1>4, <2>1 DEF BornInv
  <2>3. row \in Account /\ bid \in Account
    BY <2>2 DEF Account
  <2>4. u \in undone' \/ row = bid
    BY <1>2, <2>1 DEF LastWordStands
  <2>5. RoleOf[u] # "SUPER_ADMIN"
    BY <2>1, NobodyManagesTheHighest
  <2> HIDE DEF row, bid
  <2>6. QED
    BY <1>1, <1>3, <2>1, <2>3, <2>4, <2>5, WriteIsBidden
<1>9. ASSUME NEW h \in Offices, ResetWrite(h) PROVE StaffInv'
  <2>1. PICK u \in Users : office[h].user = u /\ account[u] \in Account
    <3>1. office[h] \in ResetJob
      BY <1>2, <1>9, OfficeWork DEF ResetWrite
    <3>2. office[h].user \in Users /\ office[h] # Quiet
      BY <3>1 DEF ResetJob, Quiet
    <3>3. QED
      BY <1>2, <1>9, <3>2 DEF BornInv, ResetWrite
  <2> DEFINE row == [account[u] EXCEPT !.secret = secrets + 1]
             bid == [bidden[u] EXCEPT !.secret = secrets + 1]
  <2>2. /\ Written(h, u, row) /\ UNCHANGED <<post, undone>> /\ secrets' = secrets + 1
        /\ secrets < MaxSecrets /\ bidden' = [bidden EXCEPT ![u] = bid]
    BY <1>9, <2>1 DEF ResetWrite
  <2>3. bidden[u] \in Account
    BY <1>2, <2>1 DEF BornInv
  <2>4. row \in Account /\ bid \in Account /\ secrets' \in 0..MaxSecrets
    BY <1>5, <2>1, <2>2, <2>3 DEF Account
  <2>5. u \in undone' \/ row = bid
    BY <1>2, <2>2 DEF LastWordStands
  <2>6. RoleOf[u] = "SUPER_ADMIN" => ~row.deleted
    BY <1>2, <2>1 DEF LastWordStands, Account
  <2> HIDE DEF row, bid
  <2>7. QED
    BY <1>1, <2>2, <2>4, <2>5, <2>6, WriteIsBidden
<1>10. ASSUME NEW h \in Offices, UpdateSave(h) PROVE StaffInv'
  <2>1. PICK j \in UpdateJob : j = office[h]
    BY <1>2, <1>10, OfficeWork DEF UpdateSave
  <2>2. PICK u \in Users : u = j.user
    BY <2>1 DEF UpdateJob
  <2>3. /\ j.row \in Account /\ account[u] \in Account /\ bidden[u] \in Account
        /\ j.step = "save" /\ j # Quiet
    BY <1>2, <2>1, <2>2 DEF UpdateJob, BornInv, Quiet
  <2>4. /\ Written(h, u, j.row) /\ UNCHANGED <<post, secrets>>
        /\ bidden' = IF j.names THEN [bidden EXCEPT ![u].active = j.row.active] ELSE bidden
        /\ undone' = IF j.late THEN undone \cup {u} ELSE undone
    BY <1>10, <2>1, <2>2 DEF UpdateSave
  <2>5. /\ RoleOf[u] = "SUPER_ADMIN" => ~j.row.deleted
        /\ ~j.late => /\ j.row = [account[u] EXCEPT !.active = j.row.active]
                      /\ j.names = (j.row.active # account[u].active)
    BY <1>2, <2>1, <2>2, <2>3 DEF UpdateInv
  <2> DEFINE bid == IF j.names THEN [bidden[u] EXCEPT !.active = j.row.active] ELSE bidden[u]
  <2>6. bid \in Account
    BY <2>3 DEF Account
  <2>7. bidden' = [bidden EXCEPT ![u] = bid]
    BY <1>3, <2>4
  <2>8. u \in undone' \/ j.row = bid
    <3>1. SUFFICES ASSUME ~j.late, account[u] = bidden[u] PROVE j.row = bid
      BY <1>2, <2>4 DEF LastWordStands
    <3>2. CASE j.names
      BY <2>5, <3>1, <3>2
    <3>3. CASE ~j.names
      <4>1. j.row.active = account[u].active
        BY <2>5, <3>1, <3>3
      <4>2. [account[u] EXCEPT !.active = account[u].active] = account[u]
        BY <2>3 DEF Account
      <4>3. QED
        BY <2>5, <3>1, <3>3, <4>1, <4>2
    <3>4. QED
      BY <3>2, <3>3
  <2>9. undone' \in {undone, undone \cup {u}} /\ secrets' \in 0..MaxSecrets
    BY <1>3, <2>4
  <2> HIDE DEF bid
  <2>10. QED
    BY <1>1, <2>3, <2>4, <2>5, <2>6, <2>7, <2>8, <2>9, WriteIsBidden
<1>11. ASSUME NEW h \in Offices, NEW a \in Users, NEW u \in Users, NEW b \in BOOLEAN,
              UpdateRead(h, a, u, b)
       PROVE  StaffInv'
  <2> DEFINE j == [step |-> "save", user |-> u, row |-> [account[u] EXCEPT !.active = b],
                   names |-> b # account[u].active, late |-> FALSE]
  <2>1. /\ office' = [office EXCEPT ![h] = j] /\ Exists(u)
        /\ UNCHANGED <<account, post, secrets, bidden, undone, gone>>
    BY <1>11 DEF UpdateRead
  <2>2. account[u] \in Account
    BY <1>4, <2>1
  <2>3. j \in UpdateJob /\ j \in OfficeJob
    BY <2>2 DEF UpdateJob, OfficeJob, Account
  <2>4. RoleOf[u] = "SUPER_ADMIN" => ~j.row.deleted
    BY <2>1, <2>2 DEF Exists, Account
  <2>5. /\ j.row = [account[u] EXCEPT !.active = j.row.active]
        /\ j.names = (j.row.active # account[u].active)
    BY <2>2 DEF Account
  <2>6. j.step = "save" /\ j.user = u /\ j.step \notin {"appoint", "amend"}
    OBVIOUS
  <2> HIDE DEF j
  <2>7. QED
    BY <1>1, <1>3, <1>6, <2>1, <2>2, <2>3, <2>4, <2>5, <2>6, RequestSteps
<1>12. ASSUME NEW h \in Offices, NEW a \in Users, NEW u \in Users, ResetRead(h, a, u)
       PROVE  StaffInv'
  <2> DEFINE j == [step |-> "reset", user |-> u, row |-> account[u]]
  <2>1. /\ office' = [office EXCEPT ![h] = j] /\ Exists(u)
        /\ UNCHANGED <<account, post, secrets, bidden, undone, gone>>
    BY <1>12 DEF ResetRead
  <2>2. account[u] \in Account
    BY <1>4, <2>1
  <2>3. j \in OfficeJob /\ j.step = "reset" /\ j.user = u
    BY <2>2 DEF ResetJob, OfficeJob
  <2> HIDE DEF j
  <2>4. QED
    BY <1>1, <1>3, <1>6, <2>1, <2>2, <2>3, RequestSteps
<1>13. ASSUME NEW h \in Offices, NEW p \in Posts, NEW u \in Users, Appoint(h, p, u)
       PROVE  StaffInv'
  <2> DEFINE j == [step |-> "appoint", post |-> p, holders |-> {u}]
  <2>1. /\ office' = [office EXCEPT ![h] = j] /\ Works(u) /\ RoleOf[u] = "TEACHER"
        /\ UNCHANGED <<account, post, secrets, bidden, undone, gone>>
    BY <1>13 DEF Appoint, Teaches
  <2>2. j \in OfficeJob /\ j.step = "appoint" /\ j.holders = {u}
    BY DEF PostJob, OfficeJob
  <2> HIDE DEF j
  <2>3. QED
    BY <1>1, <1>3, <1>6, <2>1, <2>2, RequestSteps
<1>14. ASSUME NEW h \in Offices, NEW p \in Posts, AmendRead(h, p) PROVE StaffInv'
  <2> DEFINE j == [step |-> "amend", post |-> p, holders |-> {post[p]}]
  <2>1. /\ office' = [office EXCEPT ![h] = j]
        /\ UNCHANGED <<account, post, secrets, bidden, undone, gone>>
    BY <1>14 DEF AmendRead
  <2>2. j \in OfficeJob /\ j.step = "amend" /\ j.holders = {post[p]}
    BY <1>3 DEF PostJob, OfficeJob
  <2>3. \A u \in j.holders \ {Nobody} : RoleOf[u] = "TEACHER" /\ (Works(u) \/ u \in gone)
    BY <1>2, <2>2 DEF PostsGoToTeachers
  <2> HIDE DEF j
  <2>4. QED
    BY <1>1, <1>3, <1>6, <2>1, <2>2, <2>3, RequestSteps
<1>15. ASSUME NEW h \in Offices, NEW u \in Users, AmendNames(h, u) PROVE StaffInv'
  <2>1. /\ office[h].step = "amend" /\ Works(u) /\ RoleOf[u] = "TEACHER"
        /\ office' = [office EXCEPT ![h] = [office[h] EXCEPT !.holders = @ \cup {u}]]
        /\ UNCHANGED <<account, post, secrets, bidden, undone, gone>>
    BY <1>15 DEF AmendNames, Teaches
  <2>2. PICK old \in PostJob : old = office[h]
    BY <1>2, <2>1, OfficeWork
  <2> DEFINE j == [old EXCEPT !.holders = @ \cup {u}]
  <2>3. office' = [office EXCEPT ![h] = j]
    BY <2>1, <2>2
  <2>4. j \in OfficeJob /\ j.step = "amend" /\ j.holders = old.holders \cup {u}
    BY <2>1, <2>2 DEF PostJob, OfficeJob
  <2>5. \A v \in j.holders \ {Nobody} : RoleOf[v] = "TEACHER" /\ (Works(v) \/ v \in gone)
    <3>1. ASSUME NEW v \in old.holders, v # Nobody
          PROVE  RoleOf[v] = "TEACHER" /\ (Works(v) \/ v \in gone)
      <4>1. v \in Users
        BY <2>2, <3>1 DEF PostJob
      <4>2. QED
        BY <1>2, <2>1, <2>2, <3>1, <4>1 DEF AppointInv, Holding
    <3>2. QED
      BY <2>1, <2>4, <3>1
  <2> HIDE DEF j
  <2>6. QED
    BY <1>1, <1>3, <1>6, <2>1, <2>3, <2>4, <2>5, RequestSteps
<1>16. ASSUME NEW h \in Offices, Install(h) \/ AmendSave(h) PROVE StaffInv'
  <2>1. PICK j \in PostJob : j = office[h]
    BY <1>2, <1>16, OfficeWork DEF Install, AmendSave
  <2>2. j.post \in Posts /\ j.holders \subseteq Users \cup {Nobody}
    BY <2>1 DEF PostJob
  <2>3. /\ office' = [office EXCEPT ![h] = Quiet]
        /\ UNCHANGED <<account, secrets, bidden, undone, gone>>
        /\ (\E u \in j.holders : post' = [post EXCEPT ![j.post] = u]) \/ UNCHANGED post
    BY <1>16, <2>1 DEF Install, AmendSave
  <2>4. \A u \in j.holders \ {Nobody} : RoleOf[u] = "TEACHER" /\ (Works(u) \/ u \in gone)
    BY <1>2, <2>1, <2>2, OfficeWork DEF AppointInv, Holding
  <2>5. post' \in [Posts -> Users \cup {Nobody}] /\ PostsGoToTeachers'
    <3>1. ASSUME NEW u \in j.holders, post' = [post EXCEPT ![j.post] = u]
          PROVE  post' \in [Posts -> Users \cup {Nobody}] /\ PostsGoToTeachers'
      <4>1. post' \in [Posts -> Users \cup {Nobody}]
        BY <1>3, <2>2, <3>1
      <4>2. \A p \in Posts : post'[p] = post[p] \/ post'[p] = u
        BY <1>3, <2>2, <3>1
      <4>3. QED
        BY <1>2, <2>3, <2>4, <4>1, <4>2 DEF PostsGoToTeachers, Works, Exists
    <3>2. QED
      BY <1>3, <1>6, <2>3, <3>1
  <2>6. Quiet \in OfficeJob /\ Quiet.step = "idle"
    BY DEF OfficeJob, Quiet
  <2>7. QED
    BY <1>1, <2>3, <2>5, <2>6, RequestSteps
<1>17. ASSUME NEW p \in Posts, Vacate(p) PROVE StaffInv'
  <2>1. /\ post' = [post EXCEPT ![p] = Nobody]
        /\ UNCHANGED <<account, office, secrets, bidden, undone, gone>>
    BY <1>17 DEF Vacate
  <2>2. PostsGoToTeachers'
    BY <1>2, <1>3, <2>1 DEF PostsGoToTeachers, Works, Exists
  <2>3. StaffTypeInv'
    BY <1>2, <1>3, <2>1 DEF StaffTypeInv, StaffTypeOK
  <2>4. BornInv' /\ UpdateInv' /\ AppointInv' /\ LastWordStands'
    BY <1>2, <2>1 DEF BornInv, UpdateInv, AppointInv, Holding, LastWordStands, Works, Exists
  <2>5. QED
    BY <2>2, <2>3, <2>4 DEF StaffInv
<1>18. CASE UNCHANGED staffVars
  <2>1. StaffTypeInv'
    BY <1>2, <1>18 DEF StaffTypeInv, StaffTypeOK, staffVars
  <2>2. BornInv' /\ UpdateInv' /\ AppointInv'
    BY <1>2, <1>18 DEF BornInv, UpdateInv, AppointInv, Holding, Works, Exists, staffVars
  <2>3. LastWordStands' /\ PostsGoToTeachers'
    BY <1>2, <1>18 DEF LastWordStands, PostsGoToTeachers, Works, Exists, staffVars
  <2>4. QED
    BY <2>1, <2>2, <2>3 DEF StaffInv
<1>19. QED
  BY <1>1, <1>7, <1>8, <1>9, <1>10, <1>11, <1>12, <1>13, <1>14, <1>15, <1>16,
     <1>17, <1>18
     DEF StaffNext, CreateTeacher

\* The invariant of the accounts and the posts holds throughout.
THEOREM StaffInvariance == StaffSpec => []StaffInv
BY StaffInitial, StaffStep, PTL DEF StaffSpec

\* Accounts, posts, and the numbers of the passwords are what they are said to be.
THEOREM StaffTypeCorrect == StaffSpec => []StaffTypeOK
<1>1. StaffInv => StaffTypeOK
  BY DEF StaffInv, StaffTypeInv
<1>2. QED
  BY <1>1, StaffInvariance, PTL

\* Whatever updates, deletions and resets overlap, an account is what it was last
\* asked to be unless an update saved an outdated row over it, and no SUPER_ADMIN
\* is ever deleted, not even by such an update.
THEOREM LastWordsStand == StaffSpec => []LastWordStands
<1>1. StaffInv => LastWordStands
  BY DEF StaffInv
<1>2. QED
  BY <1>1, StaffInvariance, PTL

\* A post is held by an active teacher, or by one whose work ended while he held
\* one, or while a request that had asked about him or read him was under way:
\* whatever appointments, updates of classes and subjects, removals and dismissals
\* overlap.
THEOREM PostsAreTeachers == StaffSpec => []PostsGoToTeachers
<1>1. StaffInv => PostsGoToTeachers
  BY DEF StaffInv
<1>2. QED
  BY <1>1, StaffInvariance, PTL

-----------------------------------------------------------------------------
(* Registers.                                                              *)

Mark == [child : Children, status : Statuses]
Marks == Seq(Mark) \ {<<>>}

ReadingJob == [step : {"find", "publish"}, lines : Marks]
SavingJob == [step : {"insert", "reload"}, lines : Marks, entity : Record]
WritingJob == [step : {"write"}, lines : Marks, entity : Record, seen : Record,
               late : BOOLEAN]
SheetJob == {Away} \cup ReadingJob \cup SavingJob \cup WritingJob

RegisterTypeInv ==
    /\ RegistersTypeOK
    /\ sheet \in [Markers -> SheetJob]
    /\ said \in [Markers -> SUBSET Mark]

\* What is left of a sheet was said by the one that enters it, and a record that
\* is being saved is that of the line at hand.
SheetInv ==
    \A m \in Markers : sheet[m] # Away =>
        /\ \A i \in 1..Len(sheet[m].lines) : sheet[m].lines[i] \in said[m]
        /\ sheet[m].step \in {"insert", "reload", "write"} =>
             sheet[m].entity = [status |-> Line(m).status, by |-> m]

\* A record that was found is there, and an update that is not late has seen it
\* as it is.
SeenInv ==
    \A m \in Markers :
        /\ sheet[m].step \in {"reload", "write"} => mark[Line(m).child] \in Record
        /\ sheet[m].step = "write" /\ ~sheet[m].late =>
             mark[Line(m).child] = sheet[m].seen

\* An absence that stands is told, or failed to be, or about to be by the sheet
\* that marked it.
ToldInv ==
    register = "school" =>
        \A s \in Children : mark[s] # Untouched /\ mark[s].status \in Notable =>
            \/ mark[s].status \in told[s] \/ s \in unpublished
            \/ \E m \in Markers : /\ sheet[m].step = "publish"
                                  /\ Line(m).child = s /\ Line(m).status \in Notable

RegisterInv ==
    RegisterTypeInv /\ SheetInv /\ SeenInv /\ ToldInv /\ SignedByItsAuthor

\* The kinds of work are told apart by their steps.
LEMMA SheetWork ==
    ASSUME NEW j \in SheetJob
    PROVE  /\ j.step \in {"idle", "find", "insert", "reload", "write", "publish"}
           /\ j.step = "idle" <=> j = Away
           /\ j.step \in {"find", "publish"} <=> j \in ReadingJob
           /\ j.step \in {"insert", "reload"} <=> j \in SavingJob
           /\ j.step = "write" <=> j \in WritingJob
           /\ j # Away => j.lines \in Marks
BY DEF SheetJob, Away, ReadingJob, SavingJob, WritingJob

\* The first line of a sheet, and what is left after it.
LEMMA LinesLeft ==
    ASSUME NEW lines \in Marks
    PROVE  /\ Len(lines) \in Nat \ {0} /\ 1 \in 1..Len(lines)
           /\ Head(lines) = lines[1] /\ Head(lines) \in Mark
           /\ Head(lines).child \in Children /\ Head(lines).status \in Statuses
           /\ Len(lines) # 1 =>
                /\ Tail(lines) \in Marks
                /\ \A i \in 1..Len(Tail(lines)) :
                     i + 1 \in 1..Len(lines) /\ Tail(lines)[i] = lines[i + 1]
<1>1. lines \in Seq(Mark) /\ lines # <<>>
  BY DEF Marks
<1>2. Len(lines) \in Nat \ {0} /\ Head(lines) = lines[1] /\ Head(lines) \in Mark
  BY <1>1
<1>3. Head(lines).child \in Children /\ Head(lines).status \in Statuses
  BY <1>2 DEF Mark
<1>4. ASSUME Len(lines) # 1
      PROVE  /\ Tail(lines) \in Marks
             /\ \A i \in 1..Len(Tail(lines)) :
                  i + 1 \in 1..Len(lines) /\ Tail(lines)[i] = lines[i + 1]
  <2>1. Tail(lines) \in Seq(Mark) /\ Len(Tail(lines)) = Len(lines) - 1
    BY <1>1
  <2>2. Tail(lines) # <<>>
    <3>1. Len(Tail(lines)) # 0
      BY <1>2, <1>4, <2>1
    <3>2. Len(<<>>) = 0
      OBVIOUS
    <3>3. QED
      BY <3>1, <3>2, Zenon
  <2>3. \A i \in 1..Len(Tail(lines)) :
           i + 1 \in 1..Len(lines) /\ Tail(lines)[i] = lines[i + 1]
    <3>1. \A i \in 1..Len(Tail(lines)) : Tail(lines)[i] = lines[i + 1]
      BY <1>1, HeadTailProperties
    <3>2. \A i \in 1..Len(Tail(lines)) : i + 1 \in 1..Len(lines)
      BY <1>2, <2>1
    <3>3. QED
      BY <3>1, <3>2
  <2>4. QED
    BY <2>1, <2>2, <2>3 DEF Marks
<1>5. QED
  BY <1>2, <1>3, <1>4

\* The sheet after its first line.
LEMMA RestSteps ==
    ASSUME RegisterInv, NEW m \in Markers, sheet[m] # Away
    PROVE  /\ Rest(m) \in SheetJob /\ Rest(m).step \in {"idle", "find"}
           /\ Rest(m) # Away => \A i \in 1..Len(Rest(m).lines) : Rest(m).lines[i] \in said[m]
<1>1. /\ sheet[m].lines \in Marks
      /\ \A i \in 1..Len(sheet[m].lines) : sheet[m].lines[i] \in said[m]
  BY SheetWork DEF RegisterInv, RegisterTypeInv, SheetInv
<1>2. CASE Len(sheet[m].lines) = 1
  BY <1>2 DEF Rest, Away, SheetJob
<1>3. CASE Len(sheet[m].lines) # 1
  <2>1. Rest(m) = [step |-> "find", lines |-> Tail(sheet[m].lines)]
    BY <1>3 DEF Rest
  <2>2. /\ Tail(sheet[m].lines) \in Marks
        /\ \A i \in 1..Len(Tail(sheet[m].lines)) :
             /\ i + 1 \in 1..Len(sheet[m].lines)
             /\ Tail(sheet[m].lines)[i] = sheet[m].lines[i + 1]
    BY <1>1, <1>3, LinesLeft
  <2>3. Rest(m) \in SheetJob
    BY <2>1, <2>2 DEF SheetJob, ReadingJob
  <2>4. QED
    BY <1>1, <2>1, <2>2, <2>3
<1>4. QED
  BY <1>2, <1>3

\* A step of one sheet that saves no record.
LEMMA SheetMoves ==
    ASSUME RegisterInv, NEW m \in Markers, NEW j \in SheetJob,
           sheet' = [sheet EXCEPT ![m] = j], UNCHANGED <<register, mark, torn>>,
           told' \in [Children -> SUBSET Notable], unpublished' \subseteq Children,
           said' \in [Markers -> SUBSET Mark], sheets' \in 0..MaxSheets,
           \A s \in Children : told[s] \subseteq told'[s],
           unpublished \subseteq unpublished',
           \A g \in Markers : said[g] \subseteq said'[g],
           j # Away => \A i \in 1..Len(j.lines) : j.lines[i] \in said'[m],
           j.step \in {"insert", "reload", "write"} =>
               j.entity = [status |-> Head(j.lines).status, by |-> m],
           j.step \in {"reload", "write"} => mark[Head(j.lines).child] \in Record,
           j.step = "write" /\ ~j.late => mark[Head(j.lines).child] = j.seen,
           register = "school" /\ sheet[m].step = "publish" /\ Line(m).status \in Notable =>
               Line(m).status \in told'[Line(m).child] \/ Line(m).child \in unpublished'
    PROVE  RegisterInv'
<1>1. RegisterTypeInv /\ SheetInv /\ SeenInv /\ ToldInv /\ SignedByItsAuthor
  BY DEF RegisterInv
<1>2. /\ sheet \in [Markers -> SheetJob] /\ sheet'[m] = j
      /\ \A g \in Markers : g # m => sheet'[g] = sheet[g]
  BY <1>1 DEF RegisterTypeInv
<1>3. /\ Line(m)' = Head(j.lines)
      /\ \A g \in Markers : g # m => Line(g)' = Line(g)
  BY <1>2 DEF Line
<1>4. RegisterTypeInv'
  BY <1>1, <1>2 DEF RegisterTypeInv, RegistersTypeOK
<1>5. SheetInv'
  <2>1. SUFFICES ASSUME NEW g \in Markers, sheet'[g] # Away
                 PROVE  /\ \A i \in 1..Len(sheet'[g].lines) : sheet'[g].lines[i] \in said'[g]
                        /\ sheet'[g].step \in {"insert", "reload", "write"} =>
                             sheet'[g].entity = [status |-> Line(g)'.status, by |-> g]
    BY DEF SheetInv
  <2>2. CASE g = m
    BY <1>2, <1>3, <2>1, <2>2
  <2>3. CASE g # m
    BY <1>1, <1>2, <1>3, <2>1, <2>3 DEF SheetInv
  <2>4. QED
    BY <2>2, <2>3
<1>6. SeenInv'
  BY <1>1, <1>2, <1>3 DEF SeenInv
<1>7. ToldInv'
  <2>1. SUFFICES ASSUME register = "school", NEW s \in Children,
                        mark[s] # Untouched, mark[s].status \in Notable
                 PROVE  \/ mark[s].status \in told'[s] \/ s \in unpublished'
                        \/ \E g \in Markers : /\ sheet'[g].step = "publish"
                                              /\ Line(g)'.child = s
                                              /\ Line(g)'.status \in Notable
    BY DEF ToldInv
  <2>2. CASE mark[s].status \in told[s] \/ s \in unpublished
    BY <2>2
  <2>3. ASSUME NEW g \in Markers, sheet[g].step = "publish", Line(g).child = s,
               Line(g).status \in Notable
        PROVE  \/ mark[s].status \in told'[s] \/ s \in unpublished'
               \/ /\ sheet'[g].step = "publish" /\ Line(g)'.child = s
                  /\ Line(g)'.status \in Notable
    <3>1. CASE g # m
      BY <1>2, <1>3, <2>3, <3>1
    <3>2. CASE g = m
      BY <2>1, <2>3, <3>2 DEF Notable
    <3>3. QED
      BY <3>1, <3>2
  <2>4. QED
    BY <1>1, <2>1, <2>2, <2>3 DEF ToldInv
<1>8. SignedByItsAuthor'
  <2>1. SUFFICES ASSUME NEW s \in Children, mark[s] # Untouched
                 PROVE  s \in torn \/ [child |-> s, status |-> mark[s].status] \in said'[mark[s].by]
    BY DEF SignedByItsAuthor
  <2>2. mark[s].by \in Markers
    BY <1>1, <2>1 DEF RegisterTypeInv, RegistersTypeOK, Record
  <2>3. QED
    BY <1>1, <2>1, <2>2 DEF SignedByItsAuthor
<1>9. QED
  BY <1>4, <1>5, <1>6, <1>7, <1>8 DEF RegisterInv

\* The updates of s that have seen the row are told that m has written it.
OthersAreLate(m, s) ==
    \A g \in Markers : g # m =>
        \/ /\ sheet'[g] = sheet[g]
           /\ (sheet[g].step = "write" => Line(g).child # s)
        \/ /\ sheet[g] \in WritingJob /\ Line(g).child = s
           /\ sheet'[g] = [sheet[g] EXCEPT !.late = TRUE]

\* A step that saves the record of a sheet's first line: what is saved is what
\* the sheet says or what it does not change, where nobody crossed it, and the
\* updates that have seen the row are late.
LEMMA RecordSaved ==
    ASSUME RegisterInv, NEW m \in Markers, NEW s \in Children, NEW new \in Record,
           sheet[m].step \in {"insert", "write"}, s = Line(m).child,
           mark' = [mark EXCEPT ![s] = new],
           sheet'[m] = [step |-> "publish", lines |-> sheet[m].lines],
           sheet' = [g \in Markers |-> sheet'[g]],
           OthersAreLate(m, s),
           torn' \in {torn, torn \cup {s}},
           UNCHANGED <<register, said, told, unpublished, sheets>>,
           s \in torn' \/ new = sheet[m].entity,
           \/ new.status = Line(m).status
           \/ mark[s] # Untouched /\ new.status = mark[s].status
    PROVE  RegisterInv'
<1>1. RegisterTypeInv /\ SheetInv /\ SeenInv /\ ToldInv /\ SignedByItsAuthor
  BY DEF RegisterInv
<1>2. /\ sheet \in [Markers -> SheetJob] /\ mark \in [Children -> Record \cup {Untouched}]
      /\ new # Untouched
  BY <1>1, UntouchedIsNoRecord DEF RegisterTypeInv, RegistersTypeOK
<1>3. mark'[s] = new /\ \A c \in Children : c # s => mark'[c] = mark[c]
  BY <1>2
<1>4. /\ sheet[m] \in SheetJob /\ sheet[m] # Away /\ sheet[m].lines \in Marks
  BY <1>2, SheetWork DEF Away
<1>5. Line(m)' = Line(m) /\ Line(m) \in Mark
  BY <1>4, LinesLeft DEF Line
<1>6. ASSUME NEW g \in Markers, g # m
      PROVE  /\ sheet'[g] \in SheetJob /\ Line(g)' = Line(g)
             /\ sheet'[g].step = sheet[g].step
             /\ sheet'[g] # Away => sheet[g] # Away /\ sheet'[g].lines = sheet[g].lines
             /\ sheet[g].step \in {"insert", "reload", "write"} =>
                  sheet'[g].entity = sheet[g].entity
             /\ sheet[g].step = "write" /\ Line(g).child = s => sheet'[g].late
             /\ sheet[g].step = "write" /\ Line(g).child # s => sheet'[g] = sheet[g]
  <2>1. CASE /\ sheet[g] \in WritingJob /\ Line(g).child = s
             /\ sheet'[g] = [sheet[g] EXCEPT !.late = TRUE]
    <3>1. /\ sheet'[g] \in WritingJob /\ sheet'[g].lines = sheet[g].lines
          /\ sheet'[g].entity = sheet[g].entity /\ sheet'[g].late
          /\ sheet[g].step = "write" /\ sheet'[g].step = "write"
      BY <2>1 DEF WritingJob
    <3>2. sheet'[g] \in SheetJob /\ sheet[g] # Away
      BY <3>1 DEF SheetJob, Away
    <3>3. QED
      BY <2>1, <3>1, <3>2 DEF Line
  <2>2. CASE sheet'[g] = sheet[g] /\ (sheet[g].step = "write" => Line(g).child # s)
    BY <1>2, <2>2 DEF Line
  <2>3. QED
    BY <1>6, <2>1, <2>2 DEF OthersAreLate
<1>7. RegisterTypeInv'
  <2>1. sheet'[m] \in SheetJob
    BY <1>4 DEF SheetJob, ReadingJob
  <2>2. sheet' \in [Markers -> SheetJob]
    <3>1. \A g \in Markers : sheet'[g] \in SheetJob
      BY <1>6, <2>1
    <3>2. QED
      BY <3>1
  <2>3. mark' \in [Children -> Record \cup {Untouched}] /\ torn' \subseteq Children
    BY <1>1, <1>2 DEF RegisterTypeInv, RegistersTypeOK
  <2>4. QED
    BY <1>1, <2>2, <2>3 DEF RegisterTypeInv, RegistersTypeOK
<1>8. SheetInv'
  <2>1. SUFFICES ASSUME NEW g \in Markers, sheet'[g] # Away
                 PROVE  /\ \A i \in 1..Len(sheet'[g].lines) : sheet'[g].lines[i] \in said[g]
                        /\ sheet'[g].step \in {"insert", "reload", "write"} =>
                             sheet'[g].entity = [status |-> Line(g)'.status, by |-> g]
    BY DEF SheetInv
  <2>2. CASE g = m
    <3>1. /\ sheet'[m].lines = sheet[m].lines
          /\ sheet'[m].step \notin {"insert", "reload", "write"}
      OBVIOUS
    <3>2. \A i \in 1..Len(sheet[m].lines) : sheet[m].lines[i] \in said[m]
      BY <1>1, <1>4 DEF SheetInv
    <3>3. QED
      BY <2>2, <3>1, <3>2
  <2>3. CASE g # m
    BY <1>1, <1>6, <2>1, <2>3 DEF SheetInv
  <2>4. QED
    BY <2>2, <2>3
<1>9. SeenInv'
  <2>1. SUFFICES ASSUME NEW g \in Markers
                 PROVE  /\ sheet'[g].step \in {"reload", "write"} =>
                             mark'[Line(g)'.child] \in Record
                        /\ sheet'[g].step = "write" /\ ~sheet'[g].late =>
                             mark'[Line(g)'.child] = sheet'[g].seen
    BY DEF SeenInv
  <2>2. CASE g = m
    BY <2>2
  <2>3. CASE g # m
    <3>1. sheet'[g].step = sheet[g].step /\ Line(g)' = Line(g)
      BY <1>6, <2>3
    <3>2. sheet[g].step \in {"reload", "write"} => mark'[Line(g).child] \in Record
      <4>1. SUFFICES ASSUME sheet[g].step \in {"reload", "write"}
                     PROVE  mark'[Line(g).child] \in Record
        OBVIOUS
      <4>2. Line(g).child \in Children
        BY <1>2, <4>1, SheetWork, LinesLeft DEF Line, Away
      <4>3. mark[Line(g).child] \in Record
        BY <1>1, <4>1 DEF SeenInv
      <4>4. QED
        BY <1>3, <4>2, <4>3
    <3>3. ASSUME sheet[g].step = "write", ~sheet'[g].late
          PROVE  mark'[Line(g).child] = sheet'[g].seen
      <4>1. Line(g).child # s /\ sheet'[g] = sheet[g]
        BY <1>6, <2>3, <3>3
      <4>2. Line(g).child \in Children
        BY <1>2, <3>3, SheetWork, LinesLeft DEF Line, Away
      <4>3. QED
        BY <1>1, <1>3, <3>3, <4>1, <4>2 DEF SeenInv
    <3>4. QED
      BY <3>1, <3>2, <3>3
  <2>4. QED
    BY <2>2, <2>3
<1>10. ToldInv'
  <2>1. SUFFICES ASSUME register = "school", NEW c \in Children,
                        mark'[c] # Untouched, mark'[c].status \in Notable
                 PROVE  \/ mark'[c].status \in told[c] \/ c \in unpublished
                        \/ \E g \in Markers : /\ sheet'[g].step = "publish"
                                              /\ Line(g)'.child = c
                                              /\ Line(g)'.status \in Notable
    BY DEF ToldInv
  <2>2. CASE c = s /\ new.status = Line(m).status
    BY <1>3, <1>5, <2>1, <2>2
  <2>3. CASE mark[c] # Untouched /\ mark'[c].status = mark[c].status
    <3>1. \/ mark[c].status \in told[c] \/ c \in unpublished
          \/ \E g \in Markers : /\ sheet[g].step = "publish"
                                /\ Line(g).child = c /\ Line(g).status \in Notable
      BY <1>1, <2>1, <2>3 DEF ToldInv
    <3>2. ASSUME NEW g \in Markers, sheet[g].step = "publish"
          PROVE  sheet'[g].step = "publish" /\ Line(g)' = Line(g)
      <4>1. g # m
        BY <3>2
      <4>2. QED
        BY <1>6, <3>2, <4>1
    <3>3. QED
      BY <2>3, <3>1, <3>2
  <2>4. QED
    BY <1>3, <2>1, <2>2, <2>3
<1>11. SignedByItsAuthor'
  <2>1. SUFFICES ASSUME NEW c \in Children, mark'[c] # Untouched
                 PROVE  \/ c \in torn'
                        \/ [child |-> c, status |-> mark'[c].status] \in said[mark'[c].by]
    BY DEF SignedByItsAuthor
  <2>2. CASE c # s
    BY <1>1, <1>3, <2>1, <2>2 DEF SignedByItsAuthor
  <2>3. CASE c = s /\ new = sheet[m].entity
    <3>1. new = [status |-> Line(m).status, by |-> m]
      BY <1>1, <1>4, <2>3 DEF SheetInv
    <3>2. Line(m) = [child |-> s, status |-> Line(m).status]
      BY <1>5 DEF Mark
    <3>3. Line(m) \in said[m]
      BY <1>1, <1>4, LinesLeft DEF SheetInv, Line
    <3>4. QED
      BY <1>3, <2>3, <3>1, <3>2, <3>3
  <2>4. QED
    BY <2>2, <2>3
<1>12. QED
  BY <1>7, <1>8, <1>9, <1>10, <1>11 DEF RegisterInv

\* Initially nobody has said anything.
LEMMA RegistersInitial == RegistersInit => RegisterInv
<1>1. SUFFICES ASSUME RegistersInit PROVE RegisterInv
  OBVIOUS
<1>2. /\ \A m \in Markers : sheet[m] = Away
      /\ \A s \in Children : mark[s] = Untouched
  BY <1>1 DEF RegistersInit
<1>3. RegistersTypeOK
  BY <1>1, SheetsAreCounted DEF RegistersInit, RegistersTypeOK
<1>4. RegisterTypeInv
  BY <1>1, <1>3 DEF RegisterTypeInv, RegistersInit, SheetJob
<1>5. SheetInv /\ SeenInv /\ ToldInv /\ SignedByItsAuthor
  BY <1>2 DEF SheetInv, SeenInv, ToldInv, SignedByItsAuthor, Away
<1>6. QED
  BY <1>4, <1>5 DEF RegisterInv

\* What is submitted is a sheet, of marks.
LEMMA SheetsAreMarks ==
    ASSUME NEW lines \in Sheets
    PROVE  /\ lines \in Marks /\ ToSet(lines) \subseteq Mark
           /\ \A i \in 1..Len(lines) : lines[i] \in ToSet(lines)
<1>1. Cardinality(Children) \in Nat
  BY ChildrenAreFinite, FS_CardinalityType
<1>2. PICK n \in 1..Cardinality(Children) : lines \in [1..n -> Mark]
  BY DEF Sheets, Mark
<1>3. n \in Nat /\ n >= 1
  BY <1>1
<1>4. lines \in Seq(Mark) /\ Len(lines) = n
  BY <1>2, <1>3
<1>5. lines # <<>>
  <2>1. Len(lines) # 0 /\ Len(<<>>) = 0
    BY <1>3, <1>4
  <2>2. QED
    BY <2>1, Zenon
<1>6. \A i \in 1..Len(lines) : lines[i] \in ToSet(lines)
  BY <1>2, <1>4 DEF ToSet
<1>7. ToSet(lines) \subseteq Mark
  BY <1>2 DEF ToSet
<1>8. QED
  BY <1>4, <1>5, <1>6, <1>7 DEF Marks

\* Every step keeps the invariant.
LEMMA RegisterStep == RegisterInv /\ [RegistersNext]_registerVars => RegisterInv'
<1>1. SUFFICES ASSUME RegisterInv, [RegistersNext]_registerVars PROVE RegisterInv'
  OBVIOUS
<1>2. /\ RegisterTypeInv /\ SheetInv /\ SeenInv /\ ToldInv /\ SignedByItsAuthor
  BY <1>1 DEF RegisterInv
<1>3. /\ sheet \in [Markers -> SheetJob] /\ said \in [Markers -> SUBSET Mark]
      /\ mark \in [Children -> Record \cup {Untouched}]
      /\ told \in [Children -> SUBSET Notable]
      /\ unpublished \subseteq Children /\ torn \subseteq Children /\ sheets \in 0..MaxSheets
  BY <1>2 DEF RegisterTypeInv, RegistersTypeOK
<1>4. \A m \in Markers : sheet[m] # Away =>
         /\ sheet[m].lines \in Marks /\ Line(m) \in Mark
         /\ Line(m).child \in Children /\ Line(m).status \in Statuses
         /\ \A i \in 1..Len(sheet[m].lines) : sheet[m].lines[i] \in said[m]
  BY <1>2, <1>3, SheetWork, LinesLeft DEF SheetInv, Line
<1>5. Away \in SheetJob /\ Away.step = "idle"
  BY DEF SheetJob, Away
<1>6. ASSUME NEW m \in Markers, NEW lines \in Sheets, Submit(m, lines) PROVE RegisterInv'
  <2> DEFINE j == [step |-> "find", lines |-> lines]
  <2>1. /\ sheet[m].step = "idle" /\ sheets < MaxSheets /\ sheets' = sheets + 1
        /\ sheet' = [sheet EXCEPT ![m] = j]
        /\ said' = [said EXCEPT ![m] = @ \cup ToSet(lines)]
        /\ UNCHANGED <<register, mark, told, unpublished, torn>>
    BY <1>6 DEF Submit, At
  <2>2. /\ lines \in Marks /\ ToSet(lines) \subseteq Mark
        /\ \A i \in 1..Len(lines) : lines[i] \in ToSet(lines)
    BY SheetsAreMarks
  <2>3. j \in SheetJob /\ j.step = "find" /\ j.lines = lines
    BY <2>2 DEF SheetJob, ReadingJob
  <2>4. /\ said' \in [Markers -> SUBSET Mark] /\ \A g \in Markers : said[g] \subseteq said'[g]
        /\ \A i \in 1..Len(j.lines) : j.lines[i] \in said'[m]
    BY <1>3, <2>1, <2>2
  <2>5. sheets' \in 0..MaxSheets
    BY <1>3, <2>1, SheetsAreCounted
  <2>6. sheet[m].step # "publish"
    BY <2>1
  <2> HIDE DEF j
  <2>7. QED
    BY <1>1, <1>3, <2>1, <2>3, <2>4, <2>5, <2>6, SheetMoves
<1>7. ASSUME NEW m \in Markers, Find(m) PROVE RegisterInv'
  <2> DEFINE j == [step |-> IF mark[Line(m).child] = Untouched THEN "insert" ELSE "reload",
                   lines |-> sheet[m].lines,
                   entity |-> [status |-> Line(m).status, by |-> m]]
  <2>1. /\ sheet[m].step = "find" /\ sheet' = [sheet EXCEPT ![m] = j]
        /\ UNCHANGED <<register, mark, said, told, unpublished, torn, sheets>>
    BY <1>3, <1>7 DEF Find, At
  <2>2. sheet[m] # Away /\ sheet[m].step # "publish"
    BY <2>1, <1>5
  <2>3. [status |-> Line(m).status, by |-> m] \in Record
    BY <1>4, <2>2 DEF Record
  <2>4. j \in SheetJob /\ Head(j.lines) = Line(m) /\ j.lines = sheet[m].lines
    BY <1>4, <2>2, <2>3 DEF SheetJob, SavingJob, Line
  <2>5. j.entity = [status |-> Head(j.lines).status, by |-> m]
    BY <2>4
  <2>6. j.step # "write" /\ (j.step = "reload" => mark[Line(m).child] \in Record)
    BY <1>3, <1>4, <2>2
  <2> HIDE DEF j
  <2>7. QED
    BY <1>1, <1>3, <1>4, <2>1, <2>2, <2>4, <2>5, <2>6, SheetMoves
<1>8. ASSUME NEW m \in Markers, Insert(m) PROVE RegisterInv'
  <2>1. /\ sheet[m].step = "insert" /\ sheet[m] # Away
        /\ UNCHANGED <<register, said, told, unpublished, torn, sheets>>
    BY <1>5, <1>8 DEF Insert, At
  <2>2. PICK s \in Children : s = Line(m).child
    BY <1>4, <2>1
  <2>3. CASE mark[s] = Untouched
    <3> DEFINE new == sheet[m].entity
    <3>1. /\ mark' = [mark EXCEPT ![s] = new]
          /\ sheet' = [sheet EXCEPT ![m] = [step |-> "publish", lines |-> sheet[m].lines]]
      BY <1>8, <2>2, <2>3 DEF Insert
    <3>2. new \in Record /\ new.status = Line(m).status
      <4>1. sheet[m] \in SavingJob
        BY <1>3, <2>1, SheetWork
      <4>2. new = [status |-> Line(m).status, by |-> m]
        BY <1>2, <2>1 DEF SheetInv
      <4>3. QED
        BY <4>1, <4>2 DEF SavingJob
    <3>3. /\ sheet'[m] = [step |-> "publish", lines |-> sheet[m].lines]
          /\ sheet' = [g \in Markers |-> sheet'[g]]
          /\ \A g \in Markers : g # m => sheet'[g] = sheet[g]
      BY <1>3, <3>1
    <3>4. OthersAreLate(m, s)
      <4>1. \A g \in Markers : sheet[g].step = "write" => Line(g).child # s
        BY <1>2, <2>3, UntouchedIsNoRecord DEF SeenInv
      <4>2. QED
        BY <3>3, <4>1 DEF OthersAreLate
    <3> HIDE DEF new
    <3>5. torn' \in {torn, torn \cup {s}}
      BY <2>1
    <3>6. s \in torn' \/ new = sheet[m].entity
      BY DEF new
    <3>7. QED
      BY <1>1, <2>1, <2>2, <3>1, <3>2, <3>3, <3>4, <3>5, <3>6, RecordSaved
  <2>4. CASE mark[s] # Untouched
    <3>1. UNCHANGED mark /\ sheet' = [sheet EXCEPT ![m] = Away]
      BY <1>8, <2>2, <2>4 DEF Insert
    <3>2. sheet[m].step # "publish"
      BY <2>1
    <3>3. QED
      BY <1>1, <1>3, <1>5, <2>1, <3>1, <3>2, SheetMoves
  <2>5. QED
    BY <2>3, <2>4
<1>9. ASSUME NEW m \in Markers, Reload(m) PROVE RegisterInv'
  <2> DEFINE j == [step |-> "write", lines |-> sheet[m].lines, entity |-> sheet[m].entity,
                   seen |-> mark[Line(m).child], late |-> FALSE]
  <2>1. /\ sheet[m].step = "reload" /\ sheet' = [sheet EXCEPT ![m] = j]
        /\ UNCHANGED <<register, mark, said, told, unpublished, torn, sheets>>
    BY <1>3, <1>9 DEF Reload, At
  <2>2. sheet[m] # Away /\ sheet[m] \in SavingJob
    BY <1>3, <1>5, <2>1, SheetWork
  <2>3. mark[Line(m).child] \in Record
    BY <1>2, <2>1 DEF SeenInv
  <2>4. j \in SheetJob
    BY <2>2, <2>3 DEF SheetJob, WritingJob, SavingJob
  <2>5. /\ j.step = "write" /\ j.lines = sheet[m].lines /\ Head(j.lines) = Line(m)
        /\ j.entity = [status |-> Line(m).status, by |-> m]
        /\ j.seen = mark[Line(m).child]
    BY <1>2, <2>1, <2>2 DEF SheetInv, Line
  <2>6. sheet[m].step # "publish"
    BY <2>1
  <2> HIDE DEF j
  <2>7. QED
    BY <1>1, <1>3, <1>4, <2>1, <2>2, <2>3, <2>4, <2>5, <2>6, SheetMoves
<1>10. ASSUME NEW m \in Markers, Write(m) PROVE RegisterInv'
  <2>1. sheet[m].step = "write" /\ sheet[m] # Away /\ sheet[m] \in WritingJob
    BY <1>3, <1>5, <1>10, SheetWork DEF Write, At
  <2>2. PICK s \in Children : s = Line(m).child
    BY <1>4, <2>1
  <2>3. PICK e \in Record : e = sheet[m].entity
    BY <2>1 DEF WritingJob
  <2>4. PICK seen \in Record : seen = sheet[m].seen
    BY <2>1 DEF WritingJob
  <2>5. PICK old \in Record : old = mark[s]
    BY <1>2, <2>1, <2>2 DEF SeenInv
  <2> DEFINE new == [f \in DOMAIN old |-> IF e[f] # seen[f] THEN e[f] ELSE old[f]]
  <2>6. /\ mark' = [mark EXCEPT ![s] = new]
        /\ torn' = IF sheet[m].late THEN torn \cup {s} ELSE torn
        /\ sheet' = [g \in Markers |->
             IF g = m THEN [step |-> "publish", lines |-> sheet[m].lines]
             ELSE IF sheet[g].step = "write" /\ Line(g).child = s
               THEN [sheet[g] EXCEPT !.late = TRUE] ELSE sheet[g]]
        /\ UNCHANGED <<register, said, told, unpublished, sheets>>
    BY <1>10, <2>2, <2>3, <2>4, <2>5 DEF Write, At
  <2>7. DOMAIN old = {"status", "by"}
    BY DEF Record
  <2>8. /\ new = [status |-> IF e.status # seen.status THEN e.status ELSE old.status,
                  by |-> IF e.by # seen.by THEN e.by ELSE old.by]
    BY <2>7
  <2>9. new \in Record
    BY <2>8 DEF Record
  <2>10. new.status = e.status \/ new.status = old.status
    BY <2>8
  <2>11. ~sheet[m].late => new = e
    <3>1. ~sheet[m].late => seen = old
      BY <1>2, <2>1, <2>2, <2>4, <2>5 DEF SeenInv
    <3>2. seen = old => new = e
      BY <2>8 DEF Record
    <3>3. QED
      BY <3>1, <3>2
  <2>12. e.status = Line(m).status
    <3>1. e = [status |-> Line(m).status, by |-> m]
      BY <1>2, <2>1, <2>3 DEF SheetInv
    <3>2. QED
      BY <3>1
  <2>13. /\ sheet'[m] = [step |-> "publish", lines |-> sheet[m].lines]
         /\ sheet' = [g \in Markers |-> sheet'[g]]
    BY <2>6
  <2>14. OthersAreLate(m, s)
    <3>1. ASSUME NEW g \in Markers, g # m, sheet[g].step = "write", Line(g).child = s
          PROVE  /\ sheet[g] \in WritingJob
                 /\ sheet'[g] = [sheet[g] EXCEPT !.late = TRUE]
      BY <1>3, <2>6, <3>1, SheetWork
    <3>2. ASSUME NEW g \in Markers, g # m, ~(sheet[g].step = "write" /\ Line(g).child = s)
          PROVE  sheet'[g] = sheet[g]
      BY <2>6, <3>2
    <3>3. QED
      BY <3>1, <3>2 DEF OthersAreLate
  <2>15. torn' \in {torn, torn \cup {s}} /\ (s \in torn' \/ new = sheet[m].entity)
    BY <2>3, <2>6, <2>11
  <2>16. mark[s] # Untouched
    BY <2>5, UntouchedIsNoRecord
  <2> HIDE DEF new
  <2>17. \/ new.status = Line(m).status
         \/ mark[s] # Untouched /\ new.status = mark[s].status
    BY <2>5, <2>10, <2>12, <2>16
  <2>18. QED
    BY <1>1, <2>1, <2>2, <2>6, <2>9, <2>13, <2>14, <2>15, <2>17, RecordSaved
<1>11. ASSUME NEW m \in Markers, Publish(m) PROVE RegisterInv'
  <2>1. /\ sheet[m].step = "publish" /\ sheet[m] # Away
        /\ sheet' = [sheet EXCEPT ![m] = Rest(m)]
        /\ Published(m, Line(m).child, Line(m).status)
        /\ UNCHANGED <<register, mark, said, torn, sheets>>
    BY <1>5, <1>11 DEF Publish, At
  <2>2. PICK s \in Children : s = Line(m).child
    BY <1>4, <2>1
  <2>3. /\ Rest(m) \in SheetJob /\ Rest(m).step \in {"idle", "find"}
        /\ Rest(m) # Away => \A i \in 1..Len(Rest(m).lines) : Rest(m).lines[i] \in said[m]
    BY <1>1, <2>1, RestSteps
  <2>4. /\ told' \in [Children -> SUBSET Notable] /\ unpublished' \subseteq Children
        /\ \A c \in Children : told[c] \subseteq told'[c]
        /\ unpublished \subseteq unpublished'
        /\ register = "school" /\ Line(m).status \in Notable =>
             Line(m).status \in told'[s] \/ s \in unpublished'
    BY <1>3, <2>1, <2>2 DEF Published
  <2>5. QED
    BY <1>1, <1>3, <2>1, <2>2, <2>3, <2>4, SheetMoves
<1>12. ASSUME NEW m \in Markers, Stop(m) PROVE RegisterInv'
  <2>1. /\ sheet' = [sheet EXCEPT ![m] = Away] /\ sheet[m].step # "idle"
        /\ unpublished' = IF sheet[m].step = "publish" THEN unpublished \cup {Line(m).child}
                                                       ELSE unpublished
        /\ UNCHANGED <<register, mark, said, told, torn, sheets>>
    BY <1>12 DEF Stop, At
  <2>2. sheet[m] # Away
    BY <1>5, <2>1
  <2>3. Line(m).child \in Children
    BY <1>4, <2>2
  <2>4. /\ unpublished' \subseteq Children /\ unpublished \subseteq unpublished'
        /\ sheet[m].step = "publish" => Line(m).child \in unpublished'
    BY <1>3, <2>1, <2>3
  <2>5. QED
    BY <1>1, <1>3, <1>5, <2>1, <2>4, SheetMoves
<1>13. CASE UNCHANGED registerVars
  <2>1. RegisterTypeInv'
    BY <1>2, <1>13 DEF RegisterTypeInv, RegistersTypeOK, registerVars
  <2>2. SheetInv' /\ SeenInv'
    BY <1>2, <1>13 DEF SheetInv, SeenInv, Line, registerVars
  <2>3. ToldInv' /\ SignedByItsAuthor'
    BY <1>2, <1>13 DEF ToldInv, SignedByItsAuthor, Line, registerVars
  <2>4. QED
    BY <2>1, <2>2, <2>3 DEF RegisterInv
<1>14. QED
  BY <1>1, <1>6, <1>7, <1>8, <1>9, <1>10, <1>11, <1>12, <1>13 DEF RegistersNext

\* The invariant of the registers holds throughout.
THEOREM RegisterInvariance == RegistersSpec => []RegisterInv
BY RegistersInitial, RegisterStep, PTL DEF RegistersSpec

\* A register holds signed marks, and tells of those that are notable.
THEOREM RegistersTypeCorrect == RegistersSpec => []RegistersTypeOK
<1>1. RegisterInv => RegistersTypeOK
  BY DEF RegisterInv, RegisterTypeInv
<1>2. QED
  BY <1>1, RegisterInvariance, PTL

\* Whoever's name is under a mark has entered it, unless two updates of the
\* record crossed: however many sheets are entered at a time and stop halfway.
THEOREM MarksAreSigned == RegistersSpec => []SignedByItsAuthor
<1>1. RegisterInv => SignedByItsAuthor
  BY DEF RegisterInv
<1>2. QED
  BY <1>1, RegisterInvariance, PTL

\* No absence that stands in the school's register is passed over in silence: it
\* was published, or is about to be, or a publish about the child failed.
THEOREM AbsencesAreTold == RegistersSpec => []AbsenceIsTold
<1>1. RegisterInv => AbsenceIsTold
  BY DEF RegisterInv, ToldInv, AbsenceIsTold, At
<1>2. QED
  BY <1>1, RegisterInvariance, PTL
=============================================================================
