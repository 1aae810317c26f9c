------------------------------ MODULE Staffing ------------------------------
(***************************************************************************)
(* The accounts of the staff and the posts teachers hold: UsersService,    *)
(* TeachersService, ClassesService and ClassSubjectsService.               *)
(*                                                                         *)
(* A post is the class teacher of a class, or a subject of a class.  Who   *)
(* takes one is asked to be an active teacher, and the post is written in  *)
(* a statement after it.  An update of a class, or of its subject, that    *)
(* names no teacher reads who has the post and saves him with the rest.    *)
(*                                                                         *)
(* update reads the account and saves what it read with the changes: as    *)
(* TypeORM compares the entity with the row when it saves, every column    *)
(* gets the value that was read, deleted_at and the password included.  A  *)
(* reset of the password and a deletion write their own columns alone.     *)
(***************************************************************************)
EXTENDS Roles, FiniteSets

CONSTANTS
    Users,
    RoleOf,         \* RoleOf[u]: its role, which is immutable
    HeadPosts,      \* the classes, which have a class teacher
    SubjectPosts,   \* a subject of a class in a year
    Offices,        \* the requests that may be under way
    MaxSecrets,     \* bound: how many passwords are set
    Nobody

ASSUME RolesAreKnown == RoleOf \in [Users -> RoleNames]
ASSUME SecretsAreCounted == MaxSecrets \in Nat

VARIABLES
    account,        \* account[u]: its row, or NoAccount
    post,           \* post[p]: who holds it, or Nobody
    office,         \* office[h]: how far request h has come
    secrets,        \* how many passwords were set
    bidden,         \* bidden[u]: the row the requests about u asked for, each
                    \* with what it names
    undone,         \* the accounts saved over by an update that had read them
                    \* before a change it did not know of
    gone            \* the users whose work ended while they held a post, or
                    \* while a request under way was to give it to them

staffVars == <<account, post, office, secrets, bidden, undone, gone>>

-----------------------------------------------------------------------------
\* canManageRole, of two accounts.
Manages(a, u) == ManagesRole(RoleOf[a], RoleOf[u])

NoAccount == [born |-> FALSE]
Account == [born : {TRUE}, active : BOOLEAN, deleted : BOOLEAN, secret : 0..MaxSecrets]

Exists(u) == account[u].born /\ ~account[u].deleted
Works(u) == Exists(u) /\ account[u].active
Teaches(u) == Works(u) /\ RoleOf[u] = "TEACHER"
Posts == HeadPosts \cup SubjectPosts

Quiet == [step |-> "idle"]

\* JwtStrategy and the roles guard of UsersController, when a request begins.
Acts(h, a) == office[h] = Quiet /\ Works(a) /\ AtLeast(RoleOf[a], "MANAGER")

\* What a request that has read a post, or looked at a teacher for it, may still
\* write there.
Holding(h, u) == office[h].step \in {"appoint", "amend"} /\ u \in office[h].holders

\* A write of u is news to the requests that have read it; and one that ends
\* its work is remembered when a post, or a request about one, has it.
Written(h, u, row) ==
    /\ account' = [account EXCEPT ![u] = row]
    /\ office' = [g \in Offices |->
                    IF g = h THEN Quiet
                    ELSE IF office[g].step = "save" /\ office[g].user = u
                      THEN [office[g] EXCEPT !.late = TRUE] ELSE office[g]]
    /\ gone' = IF row.active /\ ~row.deleted THEN gone \ {u}
               ELSE IF (\E p \in Posts : post[p] = u) \/ (\E g \in Offices : Holding(g, u))
                 THEN gone \cup {u} ELSE gone

StaffInit ==
    /\ account \in [Users -> {NoAccount, [born |-> TRUE, active |-> TRUE, deleted |-> FALSE,
                                          secret |-> 0]}]
    /\ \A u \in Users : RoleOf[u] = "SUPER_ADMIN" => account[u].born
    /\ post = [p \in Posts |-> Nobody]
    /\ office = [h \in Offices |-> Quiet]
    /\ secrets = 0
    /\ bidden = account
    /\ undone = {}
    /\ gone = {}

-----------------------------------------------------------------------------
\* create; of a teacher also with the profile, in the same transaction.
CreateUser(h, a, u) ==
    LET row == [born |-> TRUE, active |-> TRUE, deleted |-> FALSE, secret |-> secrets + 1]
    IN  /\ Acts(h, a) /\ Manages(a, u) /\ account[u] = NoAccount
        /\ secrets < MaxSecrets
        /\ Written(h, u, row)
        /\ secrets' = secrets + 1
        /\ bidden' = [bidden EXCEPT ![u] = row]
        /\ UNCHANGED <<post, undone>>

CreateTeacher(h, a, u) == RoleOf[u] = "TEACHER" /\ CreateUser(h, a, u)

\* update: of those it manages, and of itself.  It may set is_active.
UpdateRead(h, a, u, active) ==
    /\ Acts(h, a) /\ Exists(u)
    /\ Manages(a, u) \/ a = u
    /\ office' = [office EXCEPT ![h] =
         [step |-> "save", user |-> u, row |-> [account[u] EXCEPT !.active = active],
          names |-> active # account[u].active, late |-> FALSE]]
    /\ UNCHANGED <<account, post, secrets, bidden, undone, gone>>

UpdateSave(h) ==
    LET j == office[h]
        u == j.user
    IN  /\ j.step = "save"
        /\ Written(h, u, j.row)
        /\ bidden' = IF j.names THEN [bidden EXCEPT ![u].active = j.row.active] ELSE bidden
        /\ undone' = IF j.late THEN undone \cup {u} ELSE undone
        /\ UNCHANGED <<post, secrets>>

\* softDelete: never itself nor a SUPER_ADMIN, and of one it manages.
SoftDelete(h, a, u) ==
    /\ Acts(h, a) /\ a # u /\ Exists(u) /\ Manages(a, u)
    /\ Written(h, u, [account[u] EXCEPT !.deleted = TRUE])
    /\ bidden' = [bidden EXCEPT ![u].deleted = TRUE]
    /\ UNCHANGED <<post, secrets, undone>>

\* resetPassword reads the account, and writes the password and the duty to
\* change it.  Hashing it takes its time; the account may change meanwhile.
ResetRead(h, a, u) ==
    /\ Acts(h, a) /\ Exists(u)
    /\ Manages(a, u) \/ a = u
    /\ office' = [office EXCEPT ![h] =
         [step |-> "reset", user |-> u, row |-> account[u]]]
    /\ UNCHANGED <<account, post, secrets, bidden, undone, gone>>

ResetWriteWhole(h) ==
    LET u == office[h].user
    IN  /\ office[h].step = "reset" /\ secrets < MaxSecrets
        /\ Written(h, u, [office[h].row EXCEPT !.secret = secrets + 1])
        /\ secrets' = secrets + 1
        /\ bidden' = [bidden EXCEPT ![u].secret = secrets + 1]
        /\ UNCHANGED <<post, undone>>
ResetWrite(h) ==
    LET u == office[h].user
    IN  /\ office[h].step = "reset" /\ secrets < MaxSecrets
        /\ Written(h, u, [account[u] EXCEPT !.secret = secrets + 1])
        /\ secrets' = secrets + 1
        /\ bidden' = [bidden EXCEPT ![u].secret = secrets + 1]
        /\ UNCHANGED <<post, undone>>

-----------------------------------------------------------------------------
\* assignTeacher and assign: ensureUserIsTeacher and ensureUserIsActiveTeacher.
AppointAnyone(h, p, u) ==
    /\ office[h] = Quiet
    /\ Exists(u) /\ RoleOf[u] = "TEACHER"
    /\ office' = [office EXCEPT ![h] = [step |-> "appoint", post |-> p, holders |-> {u}]]
    /\ UNCHANGED <<account, post, secrets, bidden, undone, gone>>
Appoint(h, p, u) ==
    /\ office[h] = Quiet
    /\ Teaches(u)
    /\ office' = [office EXCEPT ![h] = [step |-> "appoint", post |-> p, holders |-> {u}]]
    /\ UNCHANGED <<account, post, secrets, bidden, undone, gone>>

\* The class is saved with its teacher.  A subject of a class is inserted, which
\* the unique index refuses when it is there.
Install(h) ==
    LET j == office[h]
    IN  /\ j.step = "appoint"
        /\ IF j.post \in HeadPosts \/ post[j.post] = Nobody
             THEN \E u \in j.holders : post' = [post EXCEPT ![j.post] = u]
             ELSE UNCHANGED post
        /\ office' = [office EXCEPT ![h] = Quiet]
        /\ UNCHANGED <<account, secrets, bidden, undone, gone>>

\* ClassesService.update and ClassSubjectsService.update read the row, and with it
\* who has the post; a subject that nobody teaches has no row.
AmendRead(h, p) ==
    /\ office[h] = Quiet
    /\ p \in SubjectPosts => post[p] # Nobody
    /\ office' = [office EXCEPT ![h] = [step |-> "amend", post |-> p, holders |-> {post[p]}]]
    /\ UNCHANGED <<account, post, secrets, bidden, undone, gone>>

\* The update of a subject may name another teacher.  The row was read with the
\* one it had, and TypeORM may take either.
AmendNames(h, u) ==
    LET j == office[h]
    IN  /\ j.step = "amend" /\ j.post \in SubjectPosts /\ Cardinality(j.holders) = 1
        /\ Teaches(u)
        /\ office' = [office EXCEPT ![h].holders = @ \cup {u}]
        /\ UNCHANGED <<account, post, secrets, bidden, undone, gone>>

\* The row is saved as it was read: with a teacher who has lost the post since, and
\* of a subject that was removed since once more.  For another row of that subject,
\* or another year, the unique index may refuse it.
AmendSave(h) ==
    LET j == office[h]
    IN  /\ j.step = "amend"
        /\ \/ \E u \in j.holders : post' = [post EXCEPT ![j.post] = u]
           \/ j.post \in SubjectPosts /\ UNCHANGED post
        /\ office' = [office EXCEPT ![h] = Quiet]
        /\ UNCHANGED <<account, secrets, bidden, undone, gone>>

\* ClassSubjectsService.remove
Vacate(p) ==
    /\ p \in SubjectPosts /\ post[p] # Nobody
    /\ post' = [post EXCEPT ![p] = Nobody]
    /\ UNCHANGED <<account, office, secrets, bidden, undone, gone>>

StaffNext ==
    \/ \E h \in Offices, a, u \in Users :
         \/ CreateUser(h, a, u) \/ CreateTeacher(h, a, u)
         \/ SoftDelete(h, a, u) \/ ResetRead(h, a, u)
         \/ \E b \in BOOLEAN : UpdateRead(h, a, u, b)
    \/ \E h \in Offices : UpdateSave(h) \/ ResetWrite(h) \/ Install(h) \/ AmendSave(h)
    \/ \E h \in Offices, p \in Posts : AmendRead(h, p) \/ \E u \in Users : Appoint(h, p, u)
    \/ \E h \in Offices, u \in Users : AmendNames(h, u)
    \/ \E p \in Posts : Vacate(p)

StaffSpec == StaffInit /\ [][StaffNext]_staffVars

-----------------------------------------------------------------------------
(* Properties.                                                             *)

StaffTypeOK ==
    /\ account \in [Users -> Account \cup {NoAccount}]
    /\ post \in [Posts -> Users \cup {Nobody}]
    /\ secrets \in 0..MaxSecrets
    /\ undone \subseteq Users /\ gone \subseteq Users

\* An account is what it was last asked to be, active or not, deleted or not,
\* with the password set last, unless an update that had read it before saved
\* over it.  No SUPER_ADMIN is ever deleted.
LastWordStands ==
    \A u \in Users :
        /\ u \in undone \/ account[u] = bidden[u]
        /\ RoleOf[u] = "SUPER_ADMIN" => account[u].born /\ ~account[u].deleted

\* Who holds a post is an active teacher, or his work ended when he held one
\* already or a request under way was to give him one: it had looked at him
\* before, or had read him as the holder to save him back.  Nobody whose work had
\* ended with neither gets a post again, by whatever order of appointments, updates
\* and dismissals, unless he is taken back.
PostsGoToTeachers ==
    \A p \in Posts : post[p] # Nobody =>
        RoleOf[post[p]] = "TEACHER" /\ (Works(post[p]) \/ post[p] \in gone)
=============================================================================
