------------------------------ MODULE Families ------------------------------
(***************************************************************************)
(* How a parent gets into the system and how a Telegram chat is bound to   *)
(* an account: ParentInviteService, the linking half of                    *)
(* TelegramLoginService, the bot's /link and /unlink, and the binding the  *)
(* bot clears when it is blocked.                                          *)
(*                                                                         *)
(* Accepting an invite is one database transaction that holds the row lock *)
(* of the invite from its first statement to its commit.  It looks for the *)
(* owner of the chat in a statement of its own (READ COMMITTED) before it  *)
(* writes.  From its first write to users it also excludes every other     *)
(* writer of that account or chat, so the writes and the commit are one    *)
(* action.  Everything else reads in one statement and writes in another,  *)
(* with no transaction around them.                                        *)
(*                                                                         *)
(* The account an invite creates for chat x has the e-mail tg_x@nis.parent,*)
(* which is unique and stays taken when the account is deleted: there is   *)
(* at most one such account for ever, and the model calls it x too.        *)
(* Signatures of Telegram, names, photos and roles among staff are left    *)
(* out; a link code is a number nobody held before.                        *)
(***************************************************************************)
EXTENDS Naturals, FiniteSets

CONSTANTS
    Staff,      \* accounts that were created by an administrator
    Chats,      \* Telegram ids, and the parent accounts made for them
    Siblings,   \* students
    Invites, Codes,
    Chores,     \* requests and bot commands that may be under way at once
    Nobody

ASSUME NamesDiffer == Staff \cap Chats = {} /\ Nobody \notin Staff \cup Chats \cup Siblings

VARIABLES
    user,       \* user[u]: the users row of u, or NoAccount
    invite,     \* invite[i]: the parent_invites row of i, or Unissued
    link,       \* the pairs of parent_students
    code,       \* code[c]: the account a link code stands for, Nobody or Spent
    chore,      \* chore[h]: what handler h has left to do
    reached,    \* reached[c]: the chats that were bound with code c
    overtaken   \* the invites accepted while a revocation had found them unused

familyVars == <<user, invite, link, code, chore, reached, overtaken>>

-----------------------------------------------------------------------------
Users == Staff \cup Chats
Spent == "spent"

NoAccount == [deleted |-> FALSE, chat |-> "unborn"]
Account == [deleted : BOOLEAN, chat : Chats \cup {Nobody}]
HasAccount(u) == user[u] # NoAccount
Visible(u) == HasAccount(u) /\ ~user[u].deleted

Unissued == [student |-> Nobody]
InviteRow == [student : Siblings, usedBy : Users \cup {Nobody}, expired : BOOLEAN, deleted : BOOLEAN]
Issued(i) == invite[i] # Unissued
Used(i) == Issued(i) /\ invite[i].usedBy # Nobody
Revoked(i) == Issued(i) /\ invite[i].deleted

Rested == [step |-> "idle"]
Chore == {Rested}
       \cup [step : {"accept"}, invite : Invites, chat : Chats, user : Users \cup {Nobody}]
       \cup [step : {"revoke"}, invite : Invites]
       \cup [step : {"bind"}, user : Users, chat : Chats, code : Codes \cup {Nobody}]
       \cup [step : {"unbind"}, user : Users]

\* findOne leaves deleted accounts out; the unique index does not.
OwnersOf(x) == {u \in Users : Visible(u) /\ user[u].chat = x}
TakenByOther(x, u) == \E v \in Users \ {u} : HasAccount(v) /\ user[v].chat = x

\* The row of the invite a running accept holds under FOR UPDATE.
InviteHeld(i) == \E h \in Chores : chore[h].step = "accept" /\ chore[h].invite = i

\* What an invite must be to be accepted.
Open(i) == Issued(i) /\ ~Used(i) /\ ~Revoked(i) /\ ~invite[i].expired

\* What the nightly cleanup deletes, once it expired a week ago.  A definition
\* whose name adds a word to the one that follows it is a mutant of it.
OutdatedEvenUsed(i) == Issued(i) /\ ~Revoked(i) /\ invite[i].expired
Outdated(i) == Issued(i) /\ ~Used(i) /\ ~Revoked(i) /\ invite[i].expired

\* GETDEL of a link code.
TakeCodeKept(c) == UNCHANGED code
TakeCode(c) == code' = [code EXCEPT ![c] = Spent]

StartChore(h, j) == chore[h] = Rested /\ chore' = [chore EXCEPT ![h] = j]
FinishChore(h) == chore' = [chore EXCEPT ![h] = Rested]

-----------------------------------------------------------------------------
FamiliesInit ==
    /\ user = [u \in Users |-> IF u \in Staff THEN [deleted |-> FALSE, chat |-> Nobody]
                                              ELSE NoAccount]
    /\ invite = [i \in Invites |-> Unissued]
    /\ link = {}
    /\ code = [c \in Codes |-> Nobody]
    /\ chore = [h \in Chores |-> Rested]
    /\ reached = [c \in Codes |-> {}]
    /\ overtaken = {}

CreateInviteUnaddressed(i, k) ==
    /\ ~Issued(i)
    /\ invite' = [invite EXCEPT ![i] =
                    [student |-> Nobody, usedBy |-> Nobody, expired |-> FALSE, deleted |-> FALSE]]
    /\ UNCHANGED <<user, link, code, chore, reached, overtaken>>
CreateInvite(i, k) ==
    /\ ~Issued(i)
    /\ invite' = [invite EXCEPT ![i] =
                    [student |-> k, usedBy |-> Nobody, expired |-> FALSE, deleted |-> FALSE]]
    /\ UNCHANGED <<user, link, code, chore, reached, overtaken>>

\* acceptInvite locks and checks the invite and looks for the owner of the
\* chat; an account of the staff is refused.
AcceptCheck(h, i, x) ==
    /\ ~InviteHeld(i) /\ Open(i)
    /\ \/ \E u \in OwnersOf(x) \cap Chats :
            StartChore(h, [step |-> "accept", invite |-> i, chat |-> x, user |-> u])
       \/ /\ OwnersOf(x) = {}
          /\ StartChore(h, [step |-> "accept", invite |-> i, chat |-> x, user |-> Nobody])
    /\ UNCHANGED <<user, invite, link, code, reached, overtaken>>

\* Can the account still be had: the one that was found, if nobody deleted it
\* since, or a new one, if neither its e-mail nor the chat is taken?
Obtainable(u, x) ==
    IF u = Nobody THEN ~HasAccount(x) /\ ~TakenByOther(x, x) ELSE Visible(u)

\* It finds or creates the account, links it to the student unless it is, and
\* burns the invite, or fails and leaves nothing behind.
AcceptCommitBurning(h) ==
    /\ chore[h].step = "accept"
    /\ LET i == chore[h].invite
           x == chore[h].chat
           u == IF chore[h].user = Nobody THEN x ELSE chore[h].user
       IN  /\ invite' = [invite EXCEPT ![i].usedBy = u]
           /\ overtaken' = IF \E g \in Chores : chore[g].step = "revoke" /\ chore[g].invite = i
                             THEN overtaken \cup {i} ELSE overtaken
           /\ IF Obtainable(chore[h].user, x)
                THEN /\ user' = IF chore[h].user = Nobody
                                  THEN [user EXCEPT ![x] = [deleted |-> FALSE, chat |-> x]]
                                  ELSE user
                     /\ link' = link \cup {<<u, invite[i].student>>}
                ELSE UNCHANGED <<user, link>>
    /\ FinishChore(h)
    /\ UNCHANGED <<code, reached>>
AcceptCommit(h) ==
    /\ chore[h].step = "accept"
    /\ LET i == chore[h].invite
           x == chore[h].chat
           u == IF chore[h].user = Nobody THEN x ELSE chore[h].user
       IN  IF Obtainable(chore[h].user, x)
             THEN /\ user' = IF chore[h].user = Nobody
                               THEN [user EXCEPT ![x] = [deleted |-> FALSE, chat |-> x]]
                               ELSE user
                  /\ link' = link \cup {<<u, invite[i].student>>}
                  /\ invite' = [invite EXCEPT ![i].usedBy = u]
                  /\ overtaken' =
                       IF \E g \in Chores : chore[g].step = "revoke" /\ chore[g].invite = i
                         THEN overtaken \cup {i} ELSE overtaken
             ELSE UNCHANGED <<user, link, invite, overtaken>>
    /\ FinishChore(h)
    /\ UNCHANGED <<code, reached>>

\* revokeInvite checks that the invite is unused, and deletes it by its id.  No
\* route leads to it yet.
RevokeCheck(h, i) ==
    /\ Issued(i) /\ ~Used(i) /\ ~Revoked(i)
    /\ StartChore(h, [step |-> "revoke", invite |-> i])
    /\ UNCHANGED <<user, invite, link, code, reached, overtaken>>

Revoke(h) ==
    /\ chore[h].step = "revoke"
    /\ ~InviteHeld(chore[h].invite)
    /\ invite' = [invite EXCEPT ![chore[h].invite].deleted = TRUE]
    /\ FinishChore(h)
    /\ UNCHANGED <<user, link, code, reached, overtaken>>

\* Time passes expires_at, perhaps while an accept is under way.
Expire(i) ==
    /\ Issued(i) /\ ~invite[i].expired
    /\ invite' = [invite EXCEPT ![i].expired = TRUE]
    /\ UNCHANGED <<user, link, code, chore, reached, overtaken>>

\* cleanupExpiredInvites, one UPDATE, of the invites S that expired a week ago;
\* no accept of theirs is still under way.
CleanupExpiredInvites(S) ==
    /\ S # {}
    /\ \A i \in S : Outdated(i) /\ ~InviteHeld(i)
    /\ invite' = [i \in Invites |-> IF i \in S THEN [invite[i] EXCEPT !.deleted = TRUE]
                                               ELSE invite[i]]
    /\ UNCHANGED <<user, link, code, chore, reached, overtaken>>

\* linkToCurrentUser: nobody else may own the chat.
LinkCheck(h, u, x) ==
    /\ Visible(u)
    /\ OwnersOf(x) \subseteq {u}
    /\ StartChore(h, [step |-> "bind", user |-> u, chat |-> x, code |-> Nobody])
    /\ UNCHANGED <<user, invite, link, code, reached, overtaken>>

\* A code for /link, and its end after ten minutes.
GenerateCode(u, c) ==
    /\ Visible(u) /\ code[c] = Nobody
    /\ code' = [code EXCEPT ![c] = u]
    /\ UNCHANGED <<user, invite, link, chore, reached, overtaken>>

ExpireCode(c) ==
    /\ code[c] \in Users
    /\ code' = [code EXCEPT ![c] = Spent]
    /\ UNCHANGED <<user, invite, link, chore, reached, overtaken>>

\* onLink takes the code, and binds its account to the chat without a look.
RedeemCode(h, c, x) ==
    /\ code[c] \in Users
    /\ TakeCode(c)
    /\ StartChore(h, [step |-> "bind", user |-> code[c], chat |-> x, code |-> c])
    /\ UNCHANGED <<user, invite, link, reached, overtaken>>

\* The UPDATE of both, unless the unique index refuses the chat.
Bind(h) ==
    /\ chore[h].step = "bind"
    /\ IF TakenByOther(chore[h].chat, chore[h].user)
         THEN UNCHANGED <<user, reached>>
         ELSE /\ user' = [user EXCEPT ![chore[h].user].chat = chore[h].chat]
              /\ reached' = IF chore[h].code = Nobody THEN reached
                            ELSE [reached EXCEPT ![chore[h].code] = @ \cup {chore[h].chat}]
    /\ FinishChore(h)
    /\ UNCHANGED <<invite, link, code, overtaken>>

\* onUnlink finds the owner, and clears whatever its binding is by then.
UnlinkCheck(h, x) ==
    /\ \E u \in OwnersOf(x) : StartChore(h, [step |-> "unbind", user |-> u])
    /\ UNCHANGED <<user, invite, link, code, reached, overtaken>>

Unbind(h) ==
    /\ chore[h].step = "unbind"
    /\ user' = [user EXCEPT ![chore[h].user].chat = Nobody]
    /\ FinishChore(h)
    /\ UNCHANGED <<invite, link, code, reached, overtaken>>

\* A message came back with 403: clearBindingByChatId.
Blocked(x) ==
    /\ \E u \in Users : user[u].chat = x
    /\ user' = [u \in Users |-> IF user[u].chat = x THEN [user[u] EXCEPT !.chat = Nobody]
                                                    ELSE user[u]]
    /\ UNCHANGED <<invite, link, code, chore, reached, overtaken>>

SoftDelete(u) ==
    /\ Visible(u)
    /\ user' = [user EXCEPT ![u].deleted = TRUE]
    /\ UNCHANGED <<invite, link, code, chore, reached, overtaken>>

\* The process stops and starts again: an open transaction leaves nothing.
FamiliesCrash ==
    /\ \E h \in Chores : chore[h] # Rested
    /\ chore' = [h \in Chores |-> Rested]
    /\ UNCHANGED <<user, invite, link, code, reached, overtaken>>

Admission(h) ==
    \/ \E i \in Invites, x \in Chats : AcceptCheck(h, i, x)
    \/ \E i \in Invites : RevokeCheck(h, i)
    \/ AcceptCommit(h) \/ Revoke(h)

Binding(h) ==
    \/ \E u \in Users, x \in Chats : LinkCheck(h, u, x)
    \/ \E c \in Codes, x \in Chats : RedeemCode(h, c, x)
    \/ \E x \in Chats : UnlinkCheck(h, x)
    \/ Bind(h) \/ Unbind(h)

FamiliesNext ==
    \/ \E h \in Chores : Admission(h) \/ Binding(h)
    \/ \E i \in Invites, k \in Siblings : CreateInvite(i, k)
    \/ \E i \in Invites : Expire(i)
    \/ \E S \in SUBSET Invites : CleanupExpiredInvites(S)
    \/ \E u \in Users, c \in Codes : GenerateCode(u, c)
    \/ \E c \in Codes : ExpireCode(c)
    \/ \E x \in Chats : Blocked(x)
    \/ \E u \in Users : SoftDelete(u)
    \/ FamiliesCrash

FamiliesSpec == FamiliesInit /\ [][FamiliesNext]_familyVars

-----------------------------------------------------------------------------
(* Properties.                                                             *)

FamiliesTypeOK ==
    /\ user \in [Users -> Account \cup {NoAccount}]
    /\ invite \in [Invites -> InviteRow \cup {Unissued}]
    /\ link \subseteq Users \X Siblings
    /\ code \in [Codes -> Users \cup {Nobody, Spent}]
    /\ chore \in [Chores -> Chore]
    /\ reached \in [Codes -> SUBSET Chats]
    /\ overtaken \subseteq Invites

\* An invite admits one parent to one student, and nobody gets at a student any
\* other way: the links are exactly what the used invites account for, however
\* accepts of one invite, of one chat or of one family overlap, whatever fails.
\* And it is always a parent's account that is admitted, never one of the staff.
AdmittedByInvite ==
    /\ link = {<<invite[i].usedBy, invite[i].student>> : i \in {j \in Invites : Used(j)}}
    /\ \A pair \in link : pair[1] \in Chats

\* An invite ends once.  A revoked or cleaned-up one admits nobody any more,
\* not even by an accept under way; and a used one is kept for the audit trail,
\* unless its revocation had found it unused before it was accepted.
InviteEndsOnce ==
    \A i \in Invites : Used(i) /\ Revoked(i) => i \in overtaken

\* A link code binds one chat, however many /link commands carry it.
CodeBindsOnce == \A c \in Codes : Cardinality(reached[c]) <= 1

=============================================================================
