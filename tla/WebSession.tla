----------------------------- MODULE WebSession -----------------------------
(***************************************************************************)
(* One browser tab and its session: the axios interceptors (lib/api), the  *)
(* token store, the router's guard (lib/session), the logins, the logout,  *)
(* the query cache and the web socket.                                     *)
(*                                                                         *)
(* An access token is kept in memory and a refresh token in the session    *)
(* storage, which a reload keeps.  A call that is refused with 401 joins   *)
(* the refresh that is under way, or begins one, and is sent once more     *)
(* with what it brings.  The guard refreshes on its own, and knows nothing *)
(* of the other.  Answers arrive in any order, requests and answers are    *)
(* lost, and the tab may be reloaded at any moment.                        *)
(*                                                                         *)
(* The API answers a request in one step, and rotates or burns a family as *)
(* RefreshTokens has it where requests do not overlap.  A token is a pair  *)
(* of its family and its number; the access token that came with it has    *)
(* the same name.                                                          *)
(***************************************************************************)
EXTENDS Naturals, FiniteSets

CONSTANTS
    People,         \* who logs in at this tab
    Calls,          \* the requests that may be under way
    Guards,         \* the navigations that may be
    MaxLogins,      \* bounds: logins; the tokens of a family; and how often a
    MaxTokens,      \* message is lost, the page reloaded, a session revoked or
    MaxFaults,      \* a login sent beside another, all together
    Nil

VARIABLES
    access, refresh,    \* the token store
    page,               \* the login page, the shell, or the way to it
    cached,             \* whose data the query cache holds
    socket,             \* the web socket: whose it is, and how far
    call,               \* call[k]: how far request k has come
    flight,             \* refreshInFlight
    guard,              \* guard[g]: the refresh of navigation g
    stray,              \* refresh tokens on their way that nobody waits for
    family,             \* family[f]: what the API has of login f
    expired,            \* the access tokens that are
    faults,             \* how many messages were lost and pages reloaded
    reused, excused,    \* families burned for a reuse; and those that may be
    ended,              \* families whose logout was not lost
    signedOut,          \* the last thing the person did was to log out
    late,               \* tokens were set or cleared with a refresh under way
    outlived            \* whose data a failed refresh left in the cache, and
                        \* whose socket was connecting when it was to close

store == <<access, refresh, page, cached, socket>>
marks == <<reused, excused, ended, signedOut, late, outlived>>
webVars == <<store, call, flight, guard, stray, family, expired, faults, marks>>

-----------------------------------------------------------------------------
Families == 1..MaxLogins
Token == [family : Families, n : 1..MaxTokens]
ASSUME SessionsAreCounted == MaxLogins \in Nat \ {0} /\ MaxTokens \in Nat \ {0} /\ MaxFaults \in Nat
ASSUME NilIsNoName == Nil \notin Token \cup People \cup Guards
Unmade == [live |-> 0]
Owner(t) == family[t.family].user

Idle == [step |-> "idle"]
Off == [step |-> "off"]
Under(r) == r.step # "idle"
Refreshing == Under(flight) \/ \E g \in Guards : Under(guard[g])
RefreshesOf(f) == {r \in {flight} \cup {guard[g] : g \in Guards} : Under(r) /\ r.token.family = f}
Asks(k, kind) == Under(call[k]) /\ call[k].kind = kind

\* A tab is opened without a session, or with one its storage has kept.
WebInit ==
    /\ access = Nil /\ page = "login"
    /\ \/ refresh = Nil /\ family = [f \in Families |-> Unmade]
       \/ /\ refresh = [family |-> 1, n |-> 1]
          /\ family \in {[f \in Families |-> IF f = 1 THEN [user |-> u, live |-> 1, dead |-> FALSE]
                                             ELSE Unmade] : u \in People}
    /\ cached = {} /\ socket = Off
    /\ call = [k \in Calls |-> Idle]
    /\ flight = Idle /\ guard = [g \in Guards |-> Idle] /\ stray = {}
    /\ expired = {} /\ faults = 0
    /\ reused = {} /\ excused = {} /\ ended = {}
    /\ signedOut = FALSE /\ late = FALSE /\ outlived = {}

-----------------------------------------------------------------------------
(* The token store, with the subscriptions of the socket and of the shell. *)

\* setTokens: the socket connects with the new token, unless it is connected;
\* if it is connecting, its auth may have been sent already.
SetTokens(t) ==
    /\ access' = t /\ refresh' = t
    /\ \/ socket.step # "on" /\ socket' = [step |-> "connecting", user |-> Owner(t)]
       \/ socket.step # "off" /\ UNCHANGED socket

\* clear: a socket that is connected is disconnected, and the shell gives way
\* to the login page.  A definition whose name adds a word to the one that
\* follows it is a mutant of it.
ClearMemory ==
    /\ access' = Nil /\ UNCHANGED refresh
    /\ socket' = IF socket.step = "on" THEN Off ELSE socket
    /\ page' = "login"
Clear ==
    /\ access' = Nil /\ refresh' = Nil
    /\ socket' = IF socket.step = "on" THEN Off ELSE socket
    /\ page' = "login"

Connecting == IF socket.step = "connecting" THEN {socket.user} ELSE {}
Left == cached \cup Connecting \cup IF access = Nil THEN {} ELSE {Owner(access)}

\* What the cache holds after the logout's queryClient.clear().
AfterLogoutKept == cached
AfterLogout == {}

-----------------------------------------------------------------------------
(* The API.                                                                *)

\* POST /auth/refresh with t: the live token is rotated, an earlier one, and
\* any of a revoked family, has the family burned.
Present(t) ==
    LET r == family[t.family]
    IN  IF t.n = r.live /\ ~r.dead
          THEN /\ r.live < MaxTokens
               /\ family' = [family EXCEPT ![t.family].live = @ + 1]
               /\ UNCHANGED reused
          ELSE /\ family' = [family EXCEPT ![t.family].dead = TRUE]
               /\ reused' = IF t.n < r.live THEN reused \cup {t.family} ELSE reused
Given(t) == IF t.n = family[t.family].live /\ ~family[t.family].dead
              THEN [t EXCEPT !.n = @ + 1] ELSE Nil

Valid(t) == t # Nil /\ t \notin expired

Answered(k, status, body) ==
    call' = [call EXCEPT ![k].step = "answered", ![k].status = status, ![k].body = body]

\* A query goes by the access token alone.  A logout consumes the refresh token as
\* well, which burns the family of one that was rotated, whoever it belongs to; only
\* then is the token revoked, or refused as another person's, which the tab takes
\* alike.  A login begins a family.
Serve(k) ==
    LET c == call[k]
        f == c.body.family
    IN  /\ c.step = "sent"
        /\ CASE c.kind = "query" ->
                  /\ IF Valid(c.access) THEN Answered(k, 200, Owner(c.access))
                                        ELSE Answered(k, 401, c.body)
                  /\ UNCHANGED <<family, reused, excused>>
             [] c.kind = "logout" ->
                  IF ~Valid(c.access)
                  THEN Answered(k, 401, c.body) /\ UNCHANGED <<family, reused, excused>>
                  ELSE /\ Answered(k, 200, c.body)
                       /\ family' = IF Owner(c.access) = Owner(c.body) \/ c.body.n < family[f].live
                                       THEN [family EXCEPT ![f].dead = TRUE] ELSE family
                       /\ LET stale == IF c.body.n < family[f].live THEN {f} ELSE {}
                          IN  reused' = reused \cup stale /\ excused' = excused \cup stale
             [] c.kind \in {"password", "telegram"} ->
                  \/ \E f1 \in Families :
                       /\ family[f1] = Unmade /\ \A f2 \in Families : f2 < f1 => family[f2] # Unmade
                       /\ family' = [family EXCEPT ![f1] =
                            [user |-> c.body, live |-> 1, dead |-> FALSE]]
                       /\ Answered(k, 200, [family |-> f1, n |-> 1])
                       /\ UNCHANGED <<reused, excused>>
                  \/ Answered(k, 401, c.body) /\ UNCHANGED <<family, reused, excused>>
        /\ UNCHANGED <<store, flight, guard, stray, expired, faults, ended, signedOut, late,
                       outlived>>

ServeFlight ==
    /\ flight.step = "sent"
    /\ Present(flight.token)
    /\ flight' = [flight EXCEPT !.step = "answered", !.result = Given(flight.token)]
    /\ UNCHANGED <<store, call, guard, stray, expired, faults, excused, ended, signedOut, late,
                   outlived>>
ServeGuard(g) ==
    /\ guard[g].step = "sent"
    /\ Present(guard[g].token)
    /\ guard' = [guard EXCEPT ![g].step = "answered", ![g].result = Given(guard[g].token)]
    /\ UNCHANGED <<store, call, flight, stray, expired, faults, excused, ended, signedOut, late,
                   outlived>>
ServeStray(t) ==
    /\ t \in stray
    /\ Present(t)
    /\ stray' = stray \ {t}
    /\ UNCHANGED <<store, call, flight, guard, expired, faults, excused, ended, signedOut, late,
                   outlived>>

-----------------------------------------------------------------------------
(* The requests of the tab.                                                *)

Sent(k, kind, body) ==
    /\ call[k] = Idle
    /\ call' = [call EXCEPT ![k] =
         [step |-> "sent", kind |-> kind, body |-> body, access |-> access, again |-> FALSE,
          orphan |-> FALSE, status |-> 0]]
    /\ UNCHANGED <<store, flight, guard, stray, family, expired, marks>>

SendQuery(k) ==
    /\ page = "shell"
    /\ Sent(k, "query", Nil)
    /\ UNCHANGED faults
SendLogout(k) ==
    /\ page = "shell" /\ refresh # Nil
    /\ \A j \in Calls : ~Asks(j, "logout")
    /\ Sent(k, "logout", refresh)
    /\ UNCHANGED faults

\* The form waits for its answer; the Telegram widget may call once more.
SendLogin(k, u, kind) ==
    /\ page = "login"
    /\ Sent(k, kind, u)
    /\ IF \E j \in Calls : Asks(j, "password") \/ Asks(j, "telegram")
         THEN kind = "telegram" /\ faults < MaxFaults /\ faults' = faults + 1
         ELSE UNCHANGED faults

\* The request, or its answer, is lost.
Lose(k) ==
    /\ call[k].step \in {"sent", "answered"} /\ faults < MaxFaults
    /\ faults' = faults + 1
    /\ call' = [call EXCEPT ![k].step = "answered", ![k].status = 0]
    /\ UNCHANGED <<store, flight, guard, stray, family, expired, marks>>

\* onSuccess of the three logins, and the navigation to the shell.
LoggedIn(k, t) ==
    /\ SetTokens(t)
    /\ page' = "shell"
    /\ cached' = cached \cup {Owner(t)}
    /\ call' = [call EXCEPT ![k] = Idle]
    /\ signedOut' = FALSE
    /\ late' = (late \/ Refreshing \/ access # Nil)
    /\ UNCHANGED <<flight, stray, ended, excused, outlived>>

\* onSettled of the logout; queries under way lose their place in the cache.
LoggedOut(k) ==
    /\ Clear
    /\ cached' = AfterLogout
    /\ call' = [j \in Calls |-> IF j = k THEN Idle
                                ELSE IF Under(call[j]) THEN [call[j] EXCEPT !.orphan = TRUE]
                                ELSE Idle]
    /\ signedOut' = TRUE
    /\ late' = (late \/ Refreshing)
    /\ outlived' = Connecting
    /\ ended' = IF /\ faults = 0 /\ ~(call[k].again /\ call[k].status = 401)
                   /\ refresh # Nil /\ refresh.family = call[k].body.family
                  THEN ended \cup {call[k].body.family} ELSE ended
    /\ UNCHANGED <<flight, stray, excused>>

\* tryRefresh, for a call that was refused.
TryRefreshUnshared(k) ==
    /\ call' = [call EXCEPT ![k].step = "waiting"]
    /\ IF Under(flight) THEN stray' = stray \cup {refresh} /\ UNCHANGED flight
       ELSE /\ flight' = [step |-> "sent", token |-> refresh, result |-> Nil]
            /\ UNCHANGED stray
    /\ excused' = IF \E g \in Guards : Under(guard[g]) /\ guard[g].token.family = refresh.family
                    THEN excused \cup {refresh.family} ELSE excused
TryRefresh(k) ==
    /\ call' = [call EXCEPT ![k].step = "waiting"]
    /\ IF Under(flight) THEN UNCHANGED <<flight, excused>>
       ELSE /\ flight' = [step |-> "sent", token |-> refresh, result |-> Nil]
            /\ excused' = IF RefreshesOf(refresh.family) # {} THEN excused \cup {refresh.family}
                          ELSE excused
    /\ UNCHANGED stray

SkipsRefreshLogout(kind) == kind \in {"password", "logout"}
SkipsRefresh(kind) == kind = "password"

Receive(k) ==
    LET c == call[k]
    IN  /\ c.step = "answered"
        /\ \/ /\ c.status = 200 /\ c.kind \in {"password", "telegram"}
              /\ LoggedIn(k, c.body)
           \/ /\ c.status = 200 /\ c.kind = "query"
              /\ cached' = IF c.orphan THEN cached ELSE cached \cup {c.body}
              /\ call' = [call EXCEPT ![k] = Idle]
              /\ UNCHANGED <<access, refresh, page, socket, flight, stray, excused, ended,
                             signedOut, late, outlived>>
           \/ /\ c.status = 401 /\ ~c.again /\ ~SkipsRefresh(c.kind)
              /\ Under(flight) \/ refresh # Nil
              /\ TryRefresh(k)
              /\ UNCHANGED <<store, ended, signedOut, late, outlived>>
           \/ /\ c.status # 200
              /\ c.status = 0 \/ c.again \/ SkipsRefresh(c.kind) \/ (refresh = Nil /\ ~Under(flight))
              /\ c.kind # "logout"
              /\ call' = [call EXCEPT ![k] = Idle]
              /\ UNCHANGED <<store, flight, stray, excused, ended, signedOut, late, outlived>>
           \/ /\ c.kind = "logout"
              /\ c.status \in {0, 200} \/ c.again \/ SkipsRefresh(c.kind)
                   \/ (refresh = Nil /\ ~Under(flight))
              /\ LoggedOut(k)
        /\ UNCHANGED <<guard, family, expired, faults, reused>>

-----------------------------------------------------------------------------
\* The shared refresh is answered: those who wait are sent again, or give up;
\* a logout that gives up logs out.
FlightReceived ==
    /\ flight.step = "answered" /\ flight.result # Nil
    /\ SetTokens(flight.result)
    /\ call' = [k \in Calls |->
         IF call[k].step = "waiting"
           THEN [call[k] EXCEPT !.step = "sent", !.again = TRUE, !.access = flight.result]
           ELSE call[k]]
    /\ flight' = Idle
    /\ UNCHANGED <<page, cached, guard, stray, family, expired, faults, marks>>

FlightFailed ==
    LET leaving == {k \in Calls : call[k].step = "waiting" /\ call[k].kind = "logout"}
    IN  /\ flight.step = "answered" /\ flight.result = Nil
        /\ Clear
        /\ flight' = Idle
        /\ call' = [k \in Calls |-> IF call[k].step = "waiting" THEN Idle
                       ELSE IF Under(call[k]) /\ leaving # {} THEN [call[k] EXCEPT !.orphan = TRUE]
                       ELSE call[k]]
        /\ cached' = IF leaving = {} THEN cached ELSE AfterLogout
        /\ outlived' = IF leaving = {} THEN outlived \cup Left ELSE Connecting
        /\ signedOut' = (signedOut \/ leaving # {})
        /\ late' = (late \/ \E g \in Guards : Under(guard[g]))
        /\ ended' = IF faults = 0
             THEN ended \cup ({flight.token.family} \cap {call[k].body.family : k \in leaving})
             ELSE ended
        /\ UNCHANGED <<guard, stray, family, expired, faults, reused, excused>>

FlightLost ==
    /\ Under(flight) /\ faults < MaxFaults
    /\ faults' = faults + 1
    /\ flight' = [flight EXCEPT !.step = "answered", !.result = Nil]
    /\ excused' = excused \cup {flight.token.family}
    /\ UNCHANGED <<store, call, guard, stray, family, expired, reused, ended, signedOut, late,
                   outlived>>

-----------------------------------------------------------------------------
\* A navigation to the shell: with an access token it is let in; with a refresh
\* token alone the guard refreshes first, on its own.
Enter ==
    /\ page = "login" /\ access # Nil
    /\ page' = "shell"
    /\ UNCHANGED <<access, refresh, cached, socket, call, flight, guard, stray, family, expired,
                   faults, marks>>

GuardStart(g) ==
    /\ page \in {"login", "entering"} /\ access = Nil /\ refresh # Nil
    /\ guard[g] = Idle
    /\ guard' = [guard EXCEPT ![g] = [step |-> "sent", token |-> refresh, result |-> Nil]]
    /\ page' = "entering"
    /\ excused' = IF RefreshesOf(refresh.family) # {} THEN excused \cup {refresh.family}
                  ELSE excused
    /\ UNCHANGED <<access, refresh, cached, socket, call, flight, stray, family, expired, faults,
                   reused, ended, signedOut, late, outlived>>

GuardReceived(g) ==
    /\ guard[g].step = "answered"
    /\ guard' = [guard EXCEPT ![g] = Idle]
    /\ IF guard[g].result # Nil
         THEN /\ SetTokens(guard[g].result)
              /\ page' = IF page = "entering" THEN "shell" ELSE page
              /\ UNCHANGED outlived
         ELSE Clear /\ outlived' = outlived \cup Left
    /\ UNCHANGED <<cached, call, flight, stray, family, expired, faults, reused, excused, ended,
                   signedOut, late>>

GuardLost(g) ==
    /\ Under(guard[g]) /\ faults < MaxFaults
    /\ faults' = faults + 1
    /\ guard' = [guard EXCEPT ![g].step = "answered", ![g].result = Nil]
    /\ excused' = excused \cup {guard[g].token.family}
    /\ UNCHANGED <<store, call, flight, stray, family, expired, reused, ended, signedOut, late,
                   outlived>>

\* The tab is reloaded, or brought to the login page by its address: what is
\* on its way stays on its way.
Reload ==
    /\ faults < MaxFaults
    /\ faults' = faults + 1
    /\ LET gone == {flight} \cup {guard[g] : g \in Guards}
       IN  /\ stray' = stray \cup {r.token : r \in {q \in gone : q.step = "sent"}}
           /\ excused' = excused \cup {r.token.family : r \in {q \in gone : Under(q)}}
    /\ access' = Nil /\ cached' = {} /\ socket' = Off /\ page' = "login"
    /\ call' = [k \in Calls |-> Idle] /\ flight' = Idle /\ guard' = [g \in Guards |-> Idle]
    /\ late' = (late /\ signedOut) /\ outlived' = {}
    /\ UNCHANGED <<refresh, family, expired, reused, ended, signedOut>>

SocketOpens ==
    /\ socket.step = "connecting"
    /\ socket' = [socket EXCEPT !.step = "on"]
    /\ UNCHANGED <<access, refresh, page, cached, call, flight, guard, stray, family, expired,
                   faults, marks>>

\* Time passes the end of an access token that somebody holds; and a session is
\* revoked elsewhere.
Expire(t) ==
    /\ t \notin expired
    /\ t = access \/ \E k \in Calls : call[k].step = "sent" /\ call[k].access = t
    /\ expired' = expired \cup {t}
    /\ UNCHANGED <<store, call, flight, guard, stray, family, faults, marks>>
RevokeElsewhere(f) ==
    /\ family[f] # Unmade /\ ~family[f].dead /\ faults < MaxFaults
    /\ faults' = faults + 1
    /\ family' = [family EXCEPT ![f].dead = TRUE]
    /\ UNCHANGED <<store, call, flight, guard, stray, expired, marks>>

WebNext ==
    \/ \E k \in Calls :
         \/ SendQuery(k) \/ SendLogout(k) \/ Serve(k) \/ Lose(k) \/ Receive(k)
         \/ \E u \in People, kind \in {"password", "telegram"} : SendLogin(k, u, kind)
    \/ ServeFlight \/ FlightReceived \/ FlightFailed \/ FlightLost
    \/ \E g \in Guards : GuardStart(g) \/ ServeGuard(g) \/ GuardReceived(g) \/ GuardLost(g)
    \/ \E t \in Token : ServeStray(t) \/ Expire(t)
    \/ \E f \in Families : RevokeElsewhere(f)
    \/ Enter \/ Reload \/ SocketOpens

WebSpec == WebInit /\ [][WebNext]_webVars

-----------------------------------------------------------------------------
(* Properties.                                                             *)

WebTypeOK ==
    /\ {access, refresh} \subseteq Token \cup {Nil}
    /\ page \in {"login", "entering", "shell"}
    /\ cached \subseteq People /\ outlived \subseteq People
    /\ \A k \in Calls : call[k].step \in {"idle", "sent", "answered", "waiting"}
    /\ stray \subseteq Token /\ expired \subseteq Token
    /\ faults \in 0..MaxFaults

\* However many calls are refused at once, the interceptor presents a refresh
\* token once: the API burns a family for a reuse only if an answer was lost,
\* the page reloaded or a navigation refreshed meanwhile, or a logout named a
\* token that had been rotated while it was under way, as its retry always does.
ReuseIsExcused == reused \subseteq excused

\* Who has logged out stays logged out until the next login, whatever arrives
\* after, unless a refresh was under way when the tokens were cleared.
SignedOutStaysOut == signedOut /\ ~late => access = Nil /\ refresh = Nil

\* The shell shows the data, and the socket hears the news, of the person whose
\* tokens it holds, unless a refresh answered across a login or a logout, a failed
\* refresh, which clears no cache, ended the session before, or somebody logged in
\* while the session before still had its tokens.
TabIsOfOnePerson ==
    page = "shell" /\ access # Nil /\ ~late =>
        /\ Owner(access) = Owner(refresh)
        /\ cached \subseteq {Owner(access)} \cup outlived
        /\ socket.step = "on" => socket.user \in {Owner(access)} \cup outlived

\* A logout that was not lost leaves the API no usable token of the session,
\* with an access token that was good and with one that had expired.
LogoutEndsSession == \A f \in ended : family[f].dead
=============================================================================
