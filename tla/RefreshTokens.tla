---------------------------- MODULE RefreshTokens ----------------------------
(***************************************************************************)
(* Sessions: RefreshTokenService and the callers that issue, rotate and    *)
(* revoke refresh tokens (AuthService, TelegramLoginService, the nightly   *)
(* purge).                                                                 *)
(*                                                                         *)
(* Every handler reads first and writes later, in statements of their own: *)
(* consume looks a token up together with its user, and the rotation, the  *)
(* revocation or the burning of the family that follows is another step.   *)
(* A rotation inserts the successor and revokes the presented token in one *)
(* database transaction, with no lock and no second look at the token.     *)
(*                                                                         *)
(* A family is named by the token its login issued.  Passwords, access     *)
(* tokens and requests that are refused without touching a row (an unknown *)
(* or expired token, a logout with somebody else's token) are left out.    *)
(***************************************************************************)
EXTENDS Naturals, FiniteSets

CONSTANTS
    Tokens,     \* refresh tokens that may ever be handed out
    Users,
    Handlers,   \* requests the API can be serving at the same time
    None        \* the NULL of replaced_by

ASSUME NoneIsNoToken == None \notin Tokens

VARIABLES
    token,      \* token[t]: the refresh_tokens row of t
    account,    \* account[u]: may u log in
    job,        \* job[h]: what handler h has left to do
    parent,     \* parent[t]: the token t was rotated from; None after a login
    swept       \* swept[f]: the last mass revocation of family f, or Unswept

vars == <<token, account, job, parent, swept>>

-----------------------------------------------------------------------------
(* Rows.                                                                   *)

Unissued == [phase |-> "unissued"]
\* A definition whose name adds a word to the one that follows it
\* (NewRowOrphaned before NewRow) is a mutant of it.
NewRowOrphaned(u, f) == [phase |-> "issued", user |-> u, family |-> None,
                         revoked |-> FALSE, replacedBy |-> None, expired |-> FALSE]
NewRow(u, f) == [phase |-> "issued", user |-> u, family |-> f,
                 revoked |-> FALSE, replacedBy |-> None, expired |-> FALSE]

\* revoke and both mass revocations set one column and leave the others alone.
RevokedSaved(r) == [r EXCEPT !.revoked = TRUE, !.replacedBy = None]
Revoked(r) == [r EXCEPT !.revoked = TRUE]
RotatedUnrevoked(r, n) == [r EXCEPT !.replacedBy = n]
Rotated(r, n) == [r EXCEPT !.revoked = TRUE, !.replacedBy = n]

Purged(r) == [phase |-> "purged", family |-> r.family]
Row == [phase : {"issued"}, user : Users, family : Tokens,
        revoked : BOOLEAN, replacedBy : Tokens \cup {None}, expired : BOOLEAN]

Reason == {"reuse", "disabled", "password"}
Unswept == [by |-> "nobody"]
Sweep == [by : Reason, raced : BOOLEAN]

Idle == [step |-> "idle"]
Job == {Idle}
       \cup [step : {"issue", "revokeAll"}, user : Users]
       \cup [step : {"rotate", "revoke"}, token : Tokens]
       \cup [step : {"burn"}, family : Tokens, by : Reason]

Fresh(t) == token[t].phase = "unissued"
Stored(t) == token[t].phase = "issued"
Live(t) == Stored(t) /\ ~token[t].revoked /\ ~token[t].expired
Member(t, f) == ~Fresh(t) /\ token[t].family = f
Successors(t) == {n \in Tokens : parent[n] = t}

\* What consume lets through, and what it takes for a reuse.
ConsumableUnchecked(t) == Stored(t) /\ ~token[t].expired
Consumable(t) == Stored(t) /\ ~token[t].expired /\ ~token[t].revoked
Reused(t) == Stored(t) /\ ~token[t].expired /\ token[t].revoked

\* Is some handler about to give a token of this family a successor?
Rotating(f) == \E h \in Handlers : job[h].step = "rotate" /\ Member(job[h].token, f)

\* UPDATE ... SET revoked = true for the tokens of S, and the note that the
\* families of S were revoked, with or without a rotation of theirs in flight.
RevokeEach(S, by) ==
    /\ token' = [t \in Tokens |-> IF t \in S THEN Revoked(token[t]) ELSE token[t]]
    /\ swept' = [f \in Tokens |->
                   IF \E t \in S : token[t].family = f
                     THEN [by |-> by, raced |-> Rotating(f)] ELSE swept[f]]

Start(h, j) == job[h] = Idle /\ job' = [job EXCEPT ![h] = j]
Finish(h) == job' = [job EXCEPT ![h] = Idle]

-----------------------------------------------------------------------------
Init ==
    /\ token = [t \in Tokens |-> Unissued]
    /\ account = [u \in Users |-> "active"]
    /\ job = [h \in Handlers |-> Idle]
    /\ parent = [t \in Tokens |-> None]
    /\ swept = [f \in Tokens |-> Unswept]

\* A login that passed every check, by password, by Telegram or by invite.
Login(h, u) ==
    /\ account[u] = "active"
    /\ Start(h, [step |-> "issue", user |-> u])
    /\ UNCHANGED <<token, account, parent, swept>>

Issue(h, n) ==
    /\ job[h].step = "issue"
    /\ Fresh(n)
    /\ token' = [token EXCEPT ![n] = NewRow(job[h].user, n)]
    /\ Finish(h)
    /\ UNCHANGED <<account, parent, swept>>

\* consume, called by refresh and by logout, finds a revoked token.
PresentReused(h, t) ==
    /\ Reused(t)
    /\ Start(h, [step |-> "burn", family |-> token[t].family, by |-> "reuse"])
    /\ UNCHANGED <<token, account, parent, swept>>

\* refresh of a good token: of a user who may not log in, or of one who may.
Refresh(h, t) ==
    /\ Consumable(t)
    /\ IF account[token[t].user] = "active"
         THEN Start(h, [step |-> "rotate", token |-> t])
         ELSE Start(h, [step |-> "burn", family |-> token[t].family, by |-> "disabled"])
    /\ UNCHANGED <<token, account, parent, swept>>

\* rotate inserts the successor n and updates the presented token by its id,
\* whatever became of that token since it was read.
Rotate(h, n) ==
    /\ job[h].step = "rotate"
    /\ Fresh(n)
    /\ LET t == job[h].token
       IN  /\ token' = [token EXCEPT ![n] = NewRow(token[t].user, token[t].family),
                                     ![t] = Rotated(token[t], n)]
           /\ parent' = [parent EXCEPT ![n] = t]
    /\ Finish(h)
    /\ UNCHANGED <<account, swept>>

\* revokeFamily: the unrevoked tokens of the family.
Burn(h) ==
    /\ job[h].step = "burn"
    /\ RevokeEach({t \in Tokens : Stored(t) /\ token[t].family = job[h].family}, job[h].by)
    /\ Finish(h)
    /\ UNCHANGED <<account, parent>>

\* logout with a good token of the caller's own; the guard of the route lets
\* only active users call it.
Logout(h, t) ==
    /\ Consumable(t)
    /\ account[token[t].user] = "active"
    /\ Start(h, [step |-> "revoke", token |-> t])
    /\ UNCHANGED <<token, account, parent, swept>>

Revoke(h) ==
    /\ job[h].step = "revoke"
    /\ token' = [token EXCEPT ![job[h].token] = Revoked(@)]
    /\ Finish(h)
    /\ UNCHANGED <<account, parent, swept>>

\* changePassword stores the new hash, then revokes every token of the user.
ChangePassword(h, u) ==
    /\ account[u] = "active"
    /\ Start(h, [step |-> "revokeAll", user |-> u])
    /\ UNCHANGED <<token, account, parent, swept>>

RevokeAllForUser(h) ==
    /\ job[h].step = "revokeAll"
    /\ RevokeEach({t \in Tokens : Stored(t) /\ token[t].user = job[h].user}, "password")
    /\ Finish(h)
    /\ UNCHANGED <<account, parent>>

\* An administrator switches an account off and on, or deletes it for good.
SetActive(u, status) ==
    /\ account[u] # "deleted"
    /\ account' = [account EXCEPT ![u] = status]
    /\ UNCHANGED <<token, job, parent, swept>>

SoftDelete(u) ==
    /\ account[u] # "deleted"
    /\ account' = [account EXCEPT ![u] = "deleted"]
    /\ UNCHANGED <<token, job, parent, swept>>

\* Time passes expires_at.
Expire(t) ==
    /\ Stored(t) /\ ~token[t].expired
    /\ token' = [token EXCEPT ![t].expired = TRUE]
    /\ UNCHANGED <<account, job, parent, swept>>

\* The nightly purge deletes what expired a week ago; no request lasts that long.
PurgeExpired(S) ==
    /\ S # {}
    /\ \A t \in S : /\ Stored(t) /\ token[t].expired
                    /\ \A h \in Handlers : job[h].step \in {"rotate", "revoke"}
                                              => job[h].token # t
    /\ token' = [t \in Tokens |->
                   IF t \in S THEN Purged(token[t]) ELSE token[t]]
    /\ UNCHANGED <<account, job, parent, swept>>

\* The API process stops and starts again.
Crash ==
    /\ \E h \in Handlers : job[h] # Idle
    /\ job' = [h \in Handlers |-> Idle]
    /\ UNCHANGED <<token, account, parent, swept>>

Request(h) ==
    \/ \E u \in Users : Login(h, u) \/ ChangePassword(h, u)
    \/ \E t \in Tokens : PresentReused(h, t) \/ Refresh(h, t) \/ Logout(h, t)

Continue(h) ==
    \/ \E n \in Tokens : Issue(h, n) \/ Rotate(h, n)
    \/ Burn(h) \/ Revoke(h) \/ RevokeAllForUser(h)

Surroundings ==
    \/ \E u \in Users : SoftDelete(u) \/ \E s \in {"active", "disabled"} : SetActive(u, s)
    \/ \E t \in Tokens : Expire(t)
    \/ \E S \in SUBSET Tokens : PurgeExpired(S)
    \/ Crash

Next == (\E h \in Handlers : Request(h) \/ Continue(h)) \/ Surroundings

Spec == Init /\ [][Next]_vars

-----------------------------------------------------------------------------
(* What holds however requests overlap.                                    *)

TypeOK ==
    /\ token \in [Tokens -> Row \cup {Unissued} \cup [phase : {"purged"}, family : Tokens]]
    /\ account \in [Users -> {"active", "disabled", "deleted"}]
    /\ job \in [Handlers -> Job]
    /\ parent \in [Tokens -> Tokens \cup {None}]
    /\ swept \in [Tokens -> Sweep \cup {Unswept}]

\* ADR-004, atomic rotation: there is no state, whatever crashes or overlaps,
\* in which a token and a token handed out for it are both usable, and the
\* rotated row names a token that really was handed out for it.
RotatedIsDead ==
    \A t \in Tokens : Stored(t) /\ Successors(t) # {} =>
        token[t].revoked /\ token[t].replacedBy \in Successors(t)

\* A session is one chain of tokens: as long as no token of the family was
\* rotated twice, at most one of them is usable.
ForkedSessionOnly ==
    \A t, s \in Tokens :
        /\ Live(t) /\ Live(s) /\ t # s
        /\ token[t].family = token[s].family
        => \E m \in Tokens : /\ Member(m, token[t].family)
                             /\ \E a, b \in Successors(m) : a # b

\* A family that was revoked as a whole, while none of its tokens was being
\* rotated, stays without a usable token for ever.
SweptIsDead ==
    \A f \in Tokens : swept[f] # Unswept /\ ~swept[f].raced =>
        \A t \in Tokens : Member(t, f) => ~Live(t)

\* No handler that acts on what it read earlier makes a revoked token usable
\* again or loses the link to its successor.
RevokedIsFinal ==
    [][\A t \in Tokens : Stored(t) /\ Stored(t)' =>
         /\ token[t].revoked => token'[t].revoked
         /\ token[t].replacedBy # None => token'[t].replacedBy # None]_vars

-----------------------------------------------------------------------------
(* What the documents say and the code does not keep.                      *)

\* The password form: all other sessions have been revoked.
PasswordChangeEndsSessions ==
    \A f \in Tokens : swept[f].by = "password" =>
        \A t \in Tokens : Member(t, f) => ~Live(t)
=============================================================================
