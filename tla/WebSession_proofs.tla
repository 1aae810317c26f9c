------------------------- MODULE WebSession_proofs -------------------------
(***************************************************************************)
(* Proofs about WebSession, for all people, requests, navigations and      *)
(* bounds.  The refresh of the interceptor and those of the navigations    *)
(* are treated alike (Asked), and every step is brought to one of a few    *)
(* kinds (KindsOfStep), of which the lemmas about where a token, a refresh *)
(* or an answer of a step comes from are read off.                         *)
(*                                                                         *)
(* The invariant has a part for each property: OutInv, TabInv, ReuseInv    *)
(* and EndInv; they rest on the types, on KnownInv (every token held was   *)
(* given), StoreInv (the two tokens are of one pair) and NewInv (nobody    *)
(* holds a token of a login that has not arrived).                         *)
(***************************************************************************)
EXTENDS WebSession, TLAPS

-----------------------------------------------------------------------------
(* What the state holds.                                                   *)

Made == [user : People, live : 1..MaxTokens, dead : BOOLEAN]
Refreshment == [step : {"sent", "answered"}, token : Token, result : Token \cup {Nil}]
Connection == [step : {"connecting", "on"}, user : People]
Logins == {"password", "telegram"}
Call == [step : {"sent", "answered", "waiting"}, kind : {"query", "logout"} \cup Logins,
         body : Token \cup People \cup {Nil}, access : Token \cup {Nil},
         again : BOOLEAN, orphan : BOOLEAN, status : {0, 200, 401}]

BodyIsOfItsKind(c) ==
    /\ c.kind = "query" =>
         /\ c.body \in People \cup {Nil}
         /\ c.step = "answered" /\ c.status = 200 => c.body \in People
    /\ c.kind = "logout" => c.body \in Token
    /\ c.kind \in Logins =>
         /\ c.step \in {"sent", "waiting"} => c.body \in People
         /\ c.step = "answered" /\ c.status = 200 => c.body \in Token
         /\ c.step = "answered" /\ c.status = 401 => c.body \in People

\* A request under way, with a body of its kind; or none.
Asking == {c \in Call : BodyIsOfItsKind(c)} \cup {Idle}

WebTypeInv ==
    /\ access \in Token \cup {Nil} /\ refresh \in Token \cup {Nil}
    /\ page \in {"login", "entering", "shell"}
    /\ cached \subseteq People /\ outlived \subseteq People
    /\ socket \in Connection \cup {Off}
    /\ call \in [Calls -> Asking]
    /\ flight \in Refreshment \cup {Idle}
    /\ guard \in [Guards -> Refreshment \cup {Idle}]
    /\ stray \subseteq Token /\ expired \subseteq Token
    /\ family \in [Families -> Made \cup {Unmade}]
    /\ faults \in 0..MaxFaults
    /\ reused \subseteq Families /\ excused \subseteq Families /\ ended \subseteq Families
    /\ signedOut \in BOOLEAN /\ late \in BOOLEAN

\* Steps tell requests, refreshes and connections that are under way from none.
LEMMA CallKinds ==
    ASSUME NEW c \in Asking
    PROVE  /\ c.step \in {"idle", "sent", "answered", "waiting"}
           /\ Under(c) => c \in Call /\ BodyIsOfItsKind(c)
           /\ ~Under(c) => c = Idle
BY DEF Asking, Call, Idle, Under
LEMMA RefreshKinds ==
    ASSUME NEW r \in Refreshment \cup {Idle}
    PROVE  /\ r.step \in {"idle", "sent", "answered"}
           /\ Under(r) => r \in Refreshment /\ r.token \in Token /\ r.result \in Token \cup {Nil}
           /\ ~Under(r) => r = Idle
BY DEF Refreshment, Idle, Under
LEMMA SocketKinds ==
    ASSUME NEW s \in Connection \cup {Off}
    PROVE  /\ s.step \in {"off", "connecting", "on"}
           /\ s.step # "off" => s \in Connection /\ s.user \in People
BY DEF Connection, Off
LEMMA FamilyKinds ==
    ASSUME NEW r \in Made \cup {Unmade}
    PROVE  /\ r.live \in 0..MaxTokens
           /\ r.live = 0 => r = Unmade
           /\ r = Unmade => r.live = 0
           /\ r.live # 0 => r \in Made /\ r.user \in People /\ r.dead \in BOOLEAN
BY SessionsAreCounted DEF Made, Unmade

\* Tokens have a family, and Nil is none of them.
LEMMA Tokens ==
    ASSUME NEW t \in Token
    PROVE  t # Nil /\ t.family \in Families /\ t.n \in 1..MaxTokens
BY NilIsNoName DEF Token

\* A request that is answered, sent again, orphaned or waits is a request still.
Reply(c, s, b) == [c EXCEPT !.step = "answered", !.status = s, !.body = b]
Resent(c, t) == [c EXCEPT !.step = "sent", !.again = TRUE, !.access = t]
Orphan(c) == [c EXCEPT !.orphan = TRUE]
Wait(c) == [c EXCEPT !.step = "waiting"]
Again(c) == [c EXCEPT !.again = TRUE]

LEMMA Waits ==
    ASSUME NEW c \in Call
    PROVE  /\ Wait(c) \in Call /\ Wait(c).step = "waiting" /\ Wait(c).access = c.access
           /\ Wait(c).body = c.body /\ Wait(c).kind = c.kind /\ Wait(c).status = c.status
           /\ Wait(c).orphan = c.orphan
BY DEF Call, Wait
LEMMA Orphans ==
    ASSUME NEW c \in Call
    PROVE  /\ Orphan(c) \in Call /\ Orphan(c).step = c.step /\ Orphan(c).access = c.access
           /\ Orphan(c).body = c.body /\ Orphan(c).kind = c.kind /\ Orphan(c).status = c.status
           /\ Orphan(c).orphan = TRUE
<1>1. Orphan(c) \in Call
  <2>1. ASSUME NEW b \in BOOLEAN PROVE [c EXCEPT !.orphan = b] \in Call
    BY DEF Call
  <2> DEFINE b == TRUE
  <2>2. b \in BOOLEAN /\ Orphan(c) = [c EXCEPT !.orphan = b]
    BY DEF Orphan
  <2> HIDE DEF b
  <2> QED BY <2>1, <2>2
<1>2. Orphan(c).step = c.step /\ Orphan(c).access = c.access /\ Orphan(c).body = c.body
  BY DEF Call, Orphan
<1>3. Orphan(c).kind = c.kind /\ Orphan(c).status = c.status /\ Orphan(c).orphan = TRUE
  BY DEF Call, Orphan
<1> QED BY <1>1, <1>2, <1>3
LEMMA Repeats ==
    ASSUME NEW c \in Call
    PROVE  /\ Again(c) \in Call /\ Again(c).step = c.step /\ Again(c).access = c.access
           /\ Again(c).body = c.body /\ Again(c).kind = c.kind /\ Again(c).status = c.status
           /\ Again(c).orphan = c.orphan
<1>1. Again(c) \in Call
  <2>1. ASSUME NEW b \in BOOLEAN PROVE [c EXCEPT !.again = b] \in Call
    BY DEF Call
  <2> DEFINE b == TRUE
  <2>2. b \in BOOLEAN /\ Again(c) = [c EXCEPT !.again = b]
    BY DEF Again
  <2> HIDE DEF b
  <2> QED BY <2>1, <2>2
<1>2. Again(c).step = c.step /\ Again(c).access = c.access /\ Again(c).body = c.body
  BY DEF Call, Again
<1>3. Again(c).kind = c.kind /\ Again(c).status = c.status /\ Again(c).orphan = c.orphan
  BY DEF Call, Again
<1> QED BY <1>1, <1>2, <1>3
LEMMA Resends ==
    ASSUME NEW c \in Call, NEW t \in Token
    PROVE  /\ Resent(c, t) \in Call /\ Resent(c, t).step = "sent" /\ Resent(c, t).access = t
           /\ Resent(c, t).body = c.body /\ Resent(c, t).kind = c.kind
           /\ Resent(c, t).status = c.status /\ Resent(c, t).orphan = c.orphan
<1> DEFINE e == [c EXCEPT !.step = "sent"]
           g == Again(e)
           h == [g EXCEPT !.access = t]
<1>1. e \in Call /\ e.step = "sent" /\ e.kind = c.kind /\ e.body = c.body
        /\ e.status = c.status /\ e.orphan = c.orphan
  BY DEF Call
<1>2. h = Resent(c, t)  BY DEF Resent, Again
<1> HIDE DEF e
<1>3. g \in Call /\ g.step = e.step /\ g.kind = e.kind /\ g.body = e.body
        /\ g.status = e.status /\ g.orphan = e.orphan
  BY <1>1, Repeats
<1> HIDE DEF g
<1>4. h \in Call /\ h.access = t /\ h.step = g.step /\ h.kind = g.kind /\ h.body = g.body
        /\ h.status = g.status /\ h.orphan = g.orphan
  BY <1>3 DEF Call
<1> HIDE DEF h
<1> QED BY <1>1, <1>2, <1>3, <1>4
LEMMA Replies ==
    ASSUME NEW c \in Call, NEW s \in {0, 200, 401}, NEW b \in Token \cup People \cup {Nil}
    PROVE  /\ Reply(c, s, b) \in Call /\ Reply(c, s, b).step = "answered"
           /\ Reply(c, s, b).status = s /\ Reply(c, s, b).body = b
           /\ Reply(c, s, b).kind = c.kind /\ Reply(c, s, b).access = c.access
           /\ Reply(c, s, b).orphan = c.orphan
<1> DEFINE e == [c EXCEPT !.step = "answered"]
           g == [e EXCEPT !.status = s]
           h == [g EXCEPT !.body = b]
<1>1. e \in Call /\ e.step = "answered" /\ e.kind = c.kind /\ e.access = c.access
        /\ e.orphan = c.orphan
  BY DEF Call
<1>2. h = Reply(c, s, b)  BY DEF Reply
<1> HIDE DEF e
<1>3. g \in Call /\ g.status = s /\ g.step = e.step /\ g.kind = e.kind /\ g.access = e.access
        /\ g.orphan = e.orphan
  BY <1>1 DEF Call
<1> HIDE DEF g
<1>4. h \in Call /\ h.body = b /\ h.status = g.status /\ h.step = g.step /\ h.kind = g.kind
        /\ h.access = g.access /\ h.orphan = g.orphan
  BY <1>3 DEF Call
<1> HIDE DEF h
<1> QED BY <1>1, <1>2, <1>3, <1>4

-----------------------------------------------------------------------------
(* What a step does to the sessions.                                       *)

Refreshers == Guards \cup {Nil}
Asked(p) == IF p = Nil THEN flight ELSE guard[p]
LoginAnswer(k) == call[k].step = "answered" /\ call[k].kind \in Logins /\ call[k].status = 200

\* Every token that somebody holds was given.
Known(t) == t.n <= family[t.family].live
KnownInv ==
    /\ access # Nil => Known(access)
    /\ refresh # Nil => Known(refresh)
    /\ \A p \in Refreshers : Under(Asked(p)) =>
         /\ Known(Asked(p).token)
         /\ Asked(p).result # Nil =>
              Known(Asked(p).result) /\ Asked(p).result.family = Asked(p).token.family
    /\ \A t \in stray : Known(t)
    /\ \A k \in Calls : Under(call[k]) =>
         /\ call[k].access # Nil => Known(call[k].access)
         /\ call[k].kind = "logout" => Known(call[k].body)
         /\ LoginAnswer(k) => Known(call[k].body)

\* A session is kept by a step: it stays its user's, its tokens are numbered on,
\* and it stays dead.
Kept(f) ==
    /\ family[f].live <= family'[f].live
    /\ family[f].live # 0 => family[f].user = family'[f].user
                               /\ (family[f].dead = TRUE => family'[f].dead = TRUE)
SessionsKept == \A f \in Families : Kept(f)

\* A token that is presented, and what is given for it.
LEMMA Presented ==
    ASSUME WebTypeInv, NEW t \in Token, Known(t), Present(t), NEW f, f = t.family
    PROVE  /\ family' \in [Families -> Made \cup {Unmade}]
           /\ reused' \subseteq Families
           /\ SessionsKept
           /\ \A g \in Families \ {f} : family'[g] = family[g]
           /\ family[f].live # 0 /\ family[f].dead \in BOOLEAN
           /\ \/ /\ t.n = family[f].live /\ ~family[f].dead
                 /\ Given(t) \in Token /\ Given(t).family = f
                 /\ Given(t).n = family[f].live + 1
                 /\ family'[f].live = family[f].live + 1 /\ family'[f].dead = family[f].dead
                 /\ reused' = reused
              \/ /\ t.n # family[f].live \/ family[f].dead
                 /\ Given(t) = Nil
                 /\ family'[f].live = family[f].live /\ family'[f].dead = TRUE
                 /\ reused' = reused \/ (t.n < family[f].live /\ reused' = reused \cup {f})
<1>1. t.n \in 1..MaxTokens /\ f \in Families /\ family[f] \in Made \cup {Unmade}
  BY Tokens DEF WebTypeInv
<1>2. family[f].live # 0 /\ family[f].live \in 1..MaxTokens /\ family[f] \in Made
        /\ family[f].dead \in BOOLEAN
  BY <1>1, FamilyKinds, SessionsAreCounted DEF Known
<1> DEFINE more == [family[f] EXCEPT !.live = family[f].live + 1]
           burnt == [family[f] EXCEPT !.dead = TRUE]
<1>3. CASE t.n = family[f].live /\ ~family[f].dead
  <2>1. family[f].live < MaxTokens /\ family' = [family EXCEPT ![f] = more] /\ reused' = reused
    BY <1>3 DEF Present
  <2>2. more \in Made /\ more.live = family[f].live + 1 /\ more.dead = family[f].dead
          /\ more.user = family[f].user
    BY <1>2, <2>1, SessionsAreCounted DEF Made
  <2> HIDE DEF more
  <2>3. Given(t) \in Token /\ Given(t).family = f /\ Given(t).n = family[f].live + 1
    <3>1. Given(t) = [t EXCEPT !.n = t.n + 1]
      BY <1>3 DEF Given
    <3>2. t.n + 1 \in 1..MaxTokens
      BY <1>1, <1>3, <2>1, <1>2, SessionsAreCounted
    <3> QED BY <3>1, <3>2, <1>3 DEF Token
  <2>4. family' \in [Families -> Made \cup {Unmade}]
    BY <2>1, <2>2, <1>1 DEF WebTypeInv
  <2>5. family'[f] = more /\ \A g \in Families \ {f} : family'[g] = family[g]
    BY <2>1, <1>1 DEF WebTypeInv
  <2>6. \A g \in Families : Kept(g)
    <3> TAKE g \in Families
    <3>1. CASE g = f
      BY <3>1, <2>5, <2>2, <1>2 DEF Kept
    <3>2. CASE g # f
      <4>1. family[g].live \in 0..MaxTokens
        BY FamilyKinds DEF WebTypeInv
      <4> QED BY <3>2, <2>5, <4>1, SessionsAreCounted DEF Kept
    <3> QED BY <3>1, <3>2
  <2>7. reused' \subseteq Families
    BY <2>1 DEF WebTypeInv
  <2>8. family'[f].live = family[f].live + 1 /\ family'[f].dead = family[f].dead
    BY <2>5, <2>2
  <2> QED BY <2>1, <2>3, <2>4, <2>5, <2>6, <2>7, <2>8, <1>2, <1>3 DEF SessionsKept
<1>4. CASE t.n # family[f].live \/ family[f].dead
  <2>1. /\ family' = [family EXCEPT ![f] = burnt]
        /\ reused' = IF t.n < family[f].live THEN reused \cup {f} ELSE reused
    BY <1>4 DEF Present
  <2>2. burnt \in Made /\ burnt.live = family[f].live /\ burnt.dead = TRUE
          /\ burnt.user = family[f].user
    BY <1>2 DEF Made
  <2> HIDE DEF burnt
  <2>3. Given(t) = Nil
    BY <1>4 DEF Given
  <2>4. family' \in [Families -> Made \cup {Unmade}]
    BY <2>1, <2>2, <1>1 DEF WebTypeInv
  <2>5. family'[f] = burnt /\ \A g \in Families \ {f} : family'[g] = family[g]
    BY <2>1, <1>1 DEF WebTypeInv
  <2>6. \A g \in Families : Kept(g)
    <3> TAKE g \in Families
    <3>1. CASE g = f
      <4>1. family'[g].user = family[g].user /\ family'[g].dead = TRUE
              /\ family'[g].live = family[g].live
        BY <3>1, <2>5, <2>2
      <4> QED BY <4>1, <3>1, <1>2, SessionsAreCounted DEF Kept
    <3>2. CASE g # f
      <4>1. family[g].live \in 0..MaxTokens
        BY FamilyKinds DEF WebTypeInv
      <4> QED BY <3>2, <2>5, <4>1, SessionsAreCounted DEF Kept
    <3> QED BY <3>1, <3>2
  <2>7. reused' \subseteq Families
    BY <2>1, <1>1 DEF WebTypeInv
  <2>8. family'[f].live = family[f].live /\ family'[f].dead = TRUE
    BY <2>5, <2>2
  <2> QED BY <2>1, <2>3, <2>4, <2>5, <2>6, <2>7, <2>8, <1>2, <1>4 DEF SessionsKept
<1> QED BY <1>3, <1>4

\* A session whose family is burned, and that changes in nothing else.
LEMMA Burned ==
    ASSUME WebTypeInv, NEW f \in Families, family[f].live # 0,
           family' = [family EXCEPT ![f].dead = TRUE]
    PROVE  /\ family' \in [Families -> Made \cup {Unmade}]
           /\ SessionsKept
           /\ \A g \in Families : family'[g].live = family[g].live
           /\ \A g \in Families \ {f} : family'[g] = family[g]
           /\ family'[f].dead = TRUE
<1> DEFINE burnt == [family[f] EXCEPT !.dead = TRUE]
<1>1. family[f] \in Made /\ family[f].live \in 1..MaxTokens
  BY FamilyKinds, SessionsAreCounted DEF WebTypeInv
<1>2. burnt \in Made /\ burnt.live = family[f].live /\ burnt.dead = TRUE
        /\ burnt.user = family[f].user
  BY <1>1 DEF Made
<1>3. family' = [family EXCEPT ![f] = burnt]
  OBVIOUS
<1> HIDE DEF burnt
<1>4. family' \in [Families -> Made \cup {Unmade}]
  BY <1>2, <1>3 DEF WebTypeInv
<1>5. family'[f] = burnt /\ \A g \in Families \ {f} : family'[g] = family[g]
  BY <1>3 DEF WebTypeInv
<1>6. \A g \in Families : Kept(g) /\ family'[g].live = family[g].live
  <2> TAKE g \in Families
  <2>1. family[g].live \in 0..MaxTokens
    BY FamilyKinds DEF WebTypeInv
  <2> QED BY <2>1, <1>1, <1>2, <1>5, SessionsAreCounted DEF Kept
<1> QED BY <1>2, <1>4, <1>5, <1>6 DEF SessionsKept

\* A token that is known is of a session that was made.
LEMMA KnownSessions ==
    ASSUME WebTypeInv, NEW t \in Token, Known(t)
    PROVE  /\ family[t.family] \in Made /\ family[t.family].live \in 1..MaxTokens
           /\ Owner(t) \in People /\ family[t.family].dead \in BOOLEAN
<1>1. t.n \in 1..MaxTokens /\ t.family \in Families /\ family[t.family] \in Made \cup {Unmade}
  BY Tokens DEF WebTypeInv
<1>2. family[t.family].live # 0 /\ family[t.family].live \in 0..MaxTokens
  BY <1>1, FamilyKinds, SessionsAreCounted DEF Known
<1> QED BY <1>1, <1>2, FamilyKinds, SessionsAreCounted DEF Owner

\* A request that is answered.
LEMMA AnsweredCalls ==
    ASSUME WebTypeInv, NEW k \in Calls, Under(call[k]), NEW s \in {0, 200, 401},
           NEW b \in Token \cup People \cup {Nil}, Answered(k, s, b)
    PROVE  /\ call' = [call EXCEPT ![k] = call'[k]]
           /\ \A j \in Calls \ {k} : call'[j] = call[j]
           /\ call'[k] \in Call /\ call'[k].step = "answered" /\ call'[k].status = s
           /\ call'[k].body = b /\ call'[k].kind = call[k].kind
           /\ call'[k].access = call[k].access /\ call'[k].orphan = call[k].orphan
<1>1. call[k] \in Call
  BY CallKinds DEF WebTypeInv
<1> DEFINE d == Reply(call[k], s, b)
<1>2. call' = [call EXCEPT ![k] = d]
  <2> DEFINE call1 == [call EXCEPT ![k].step = "answered"]
             call2 == [call1 EXCEPT ![k].status = s]
  <2>1. call' = [call2 EXCEPT ![k].body = b]
    BY DEF Answered
  <2>2. call2[k] = [call1[k] EXCEPT !.status = s] /\ call1[k] = [call[k] EXCEPT !.step = "answered"]
    BY DEF WebTypeInv
  <2> QED BY <2>1, <2>2 DEF Reply, WebTypeInv
<1>3. /\ d \in Call /\ d.step = "answered" /\ d.status = s /\ d.body = b
      /\ d.kind = call[k].kind /\ d.access = call[k].access /\ d.orphan = call[k].orphan
  BY <1>1, Replies
<1> HIDE DEF d
<1>4. call'[k] = d /\ \A j \in Calls \ {k} : call'[j] = call[j]
  BY <1>2 DEF WebTypeInv
<1> QED BY <1>2, <1>3, <1>4

\* What the API does with a request.
ServedQuery(k) ==
    /\ call[k].kind = "query" /\ UNCHANGED <<family, reused, excused>>
    /\ call'[k].status = 200 => call[k].access # Nil /\ call'[k].body = Owner(call[k].access)
    /\ call'[k].status = 401 => call'[k].body = call[k].body
ServedLogout(k) ==
    /\ call[k].kind = "logout" /\ call'[k].body = call[k].body
    /\ \A g \in Families : family'[g].live = family[g].live
    /\ call'[k].status = 200 =>
         /\ call[k].access # Nil
         /\ Owner(call[k].access) = Owner(call[k].body) => family'[call[k].body.family].dead = TRUE
    /\ \E stale \in SUBSET Families : reused' = reused \cup stale /\ excused' = excused \cup stale
ServedLogin(k) ==
    /\ call[k].kind \in Logins /\ UNCHANGED <<reused, excused>>
    /\ call'[k].status = 401 => UNCHANGED family /\ call'[k].body = call[k].body
    /\ call'[k].status = 200 =>
         /\ call'[k].body \in Token /\ call'[k].body.n = 1
         /\ family[call'[k].body.family].live = 0 /\ family'[call'[k].body.family].live = 1
         /\ \A g \in Families \ {call'[k].body.family} : family'[g] = family[g]

LEMMA UnchangedSessions ==
    ASSUME WebTypeInv, UNCHANGED family
    PROVE  SessionsKept /\ \A g \in Families : family'[g].live = family[g].live
<1>1. \A g \in Families : family[g].live \in 0..MaxTokens
  BY FamilyKinds DEF WebTypeInv
<1> QED BY <1>1, SessionsAreCounted DEF SessionsKept, Kept

\* What the API answers, and what it makes of the sessions.
LEMMA Served ==
    ASSUME WebTypeInv, KnownInv, NEW k \in Calls, Serve(k)
    PROVE  /\ call[k] \in Call /\ call[k].step = "sent"
           /\ call' = [call EXCEPT ![k] = call'[k]]
           /\ \A j \in Calls \ {k} : call'[j] = call[j]
           /\ call'[k] \in Call /\ BodyIsOfItsKind(call'[k])
           /\ call'[k].step = "answered" /\ call'[k].status \in {200, 401}
           /\ call'[k].kind = call[k].kind /\ call'[k].access = call[k].access
           /\ call'[k].orphan = call[k].orphan
           /\ family' \in [Families -> Made \cup {Unmade}] /\ SessionsKept
           /\ reused' \subseteq Families /\ excused' \subseteq Families
           /\ ServedQuery(k) \/ ServedLogout(k) \/ ServedLogin(k)
<1> DEFINE c == call[k]
           f == c.body.family
<1>1. c.step = "sent" /\ c \in Call /\ BodyIsOfItsKind(c) /\ Under(c)
  BY CallKinds DEF Serve, WebTypeInv, Under
<1>2. c.kind \in {"query", "logout"} \cup Logins /\ c.body \in Token \cup People \cup {Nil}
        /\ c.access \in Token \cup {Nil} /\ c.status \in {0, 200, 401}
  BY <1>1 DEF Call
<1>3. c.access # Nil => c.access \in Token /\ Known(c.access) /\ Owner(c.access) \in People
  BY <1>1, <1>2, KnownSessions DEF KnownInv
<1>4. CASE c.kind = "query"
  <2>1. /\ UNCHANGED <<family, reused, excused>>
        /\ \/ c.access # Nil /\ Answered(k, 200, Owner(c.access))
           \/ Answered(k, 401, c.body)
    BY <1>4 DEF Serve, Valid
  <2>2. SessionsKept
    BY <2>1, UnchangedSessions
  <2>3. c.body \in People \cup {Nil}
    BY <1>1, <1>4 DEF BodyIsOfItsKind
  <2>4. CASE c.access # Nil /\ Answered(k, 200, Owner(c.access))
    <3>1. Owner(c.access) \in Token \cup People \cup {Nil}
      BY <1>3, <2>4
    <3>2. /\ call' = [call EXCEPT ![k] = call'[k]]
          /\ \A j \in Calls \ {k} : call'[j] = call[j]
          /\ call'[k] \in Call /\ call'[k].step = "answered" /\ call'[k].status = 200
          /\ call'[k].body = Owner(c.access) /\ call'[k].kind = call[k].kind
          /\ call'[k].access = call[k].access /\ call'[k].orphan = call[k].orphan
      BY <3>1, <2>4, <1>1, AnsweredCalls
    <3>3. BodyIsOfItsKind(call'[k])
      BY <3>2, <1>3, <2>4, <1>4 DEF BodyIsOfItsKind, Logins
    <3>4. ServedQuery(k)
      BY <3>2, <2>1, <2>4, <1>4 DEF ServedQuery
    <3> QED BY <3>2, <3>3, <3>4, <2>1, <2>2, <1>1 DEF WebTypeInv
  <2>5. CASE Answered(k, 401, c.body)
    <3>2. /\ call' = [call EXCEPT ![k] = call'[k]]
          /\ \A j \in Calls \ {k} : call'[j] = call[j]
          /\ call'[k] \in Call /\ call'[k].step = "answered" /\ call'[k].status = 401
          /\ call'[k].body = c.body /\ call'[k].kind = call[k].kind
          /\ call'[k].access = call[k].access /\ call'[k].orphan = call[k].orphan
      BY <2>5, <1>1, <1>2, AnsweredCalls
    <3>3. BodyIsOfItsKind(call'[k])
      BY <3>2, <2>3, <1>4 DEF BodyIsOfItsKind, Logins
    <3>4. ServedQuery(k)
      BY <3>2, <2>1, <1>4 DEF ServedQuery
    <3> QED BY <3>2, <3>3, <3>4, <2>1, <2>2, <1>1 DEF WebTypeInv
  <2> QED BY <2>1, <2>4, <2>5
<1>5. CASE c.kind = "logout"
  <2>1. c.body \in Token /\ Known(c.body) /\ f \in Families
    BY <1>1, <1>5, Tokens DEF BodyIsOfItsKind, KnownInv
  <2>2. CASE ~Valid(c.access)
    <3>1. Answered(k, 401, c.body) /\ UNCHANGED <<family, reused, excused>>
      BY <1>5, <2>2 DEF Serve
    <3>2. /\ call' = [call EXCEPT ![k] = call'[k]]
          /\ \A j \in Calls \ {k} : call'[j] = call[j]
          /\ call'[k] \in Call /\ call'[k].step = "answered" /\ call'[k].status = 401
          /\ call'[k].body = c.body /\ call'[k].kind = call[k].kind
          /\ call'[k].access = call[k].access /\ call'[k].orphan = call[k].orphan
      BY <3>1, <1>1, <1>2, AnsweredCalls
    <3>3. BodyIsOfItsKind(call'[k])
      BY <3>2, <2>1, <1>5 DEF BodyIsOfItsKind, Logins
    <3>4. SessionsKept /\ \A g \in Families : family'[g].live = family[g].live
      BY <3>1, UnchangedSessions
    <3>5. \E stale \in SUBSET Families : reused' = reused \cup stale /\ excused' = excused \cup stale
      <4> DEFINE none == {}
      <4>1. none \in SUBSET Families /\ reused' = reused \cup none /\ excused' = excused \cup none
        BY <3>1
      <4> HIDE DEF none
      <4> QED BY <4>1
    <3>6. ServedLogout(k)
      BY <3>2, <3>4, <3>5, <1>5 DEF ServedLogout
    <3> QED BY <3>2, <3>3, <3>4, <3>1, <3>6, <1>1 DEF WebTypeInv
  <2>3. CASE Valid(c.access)
    <3> DEFINE stale == IF c.body.n < family[f].live THEN {f} ELSE {}
               burns == Owner(c.access) = Owner(c.body) \/ c.body.n < family[f].live
    <3>1. /\ Answered(k, 200, c.body)
          /\ family' = IF burns THEN [family EXCEPT ![f].dead = TRUE] ELSE family
          /\ reused' = reused \cup stale /\ excused' = excused \cup stale
          /\ c.access # Nil
      BY <1>5, <2>3 DEF Serve, Valid
    <3>2. /\ call' = [call EXCEPT ![k] = call'[k]]
          /\ \A j \in Calls \ {k} : call'[j] = call[j]
          /\ call'[k] \in Call /\ call'[k].step = "answered" /\ call'[k].status = 200
          /\ call'[k].body = c.body /\ call'[k].kind = call[k].kind
          /\ call'[k].access = call[k].access /\ call'[k].orphan = call[k].orphan
      BY <3>1, <1>1, <1>2, AnsweredCalls
    <3>3. BodyIsOfItsKind(call'[k])
      BY <3>2, <2>1, <1>5 DEF BodyIsOfItsKind, Logins
    <3>4. /\ SessionsKept /\ \A g \in Families : family'[g].live = family[g].live
          /\ family' \in [Families -> Made \cup {Unmade}]
          /\ Owner(c.access) = Owner(c.body) => family'[f].dead = TRUE
      <4>1. CASE burns
        <5>1. family' = [family EXCEPT ![f].dead = TRUE] /\ family[f].live # 0
          BY <4>1, <3>1, <2>1, KnownSessions
        <5> QED BY <5>1, <2>1, Burned
      <4>2. CASE ~burns
        BY <4>2, <3>1, UnchangedSessions DEF WebTypeInv
      <4> QED BY <4>1, <4>2
    <3>5. stale \in SUBSET Families
      BY <2>1
    <3>6. ServedLogout(k)
      BY <3>1, <3>2, <3>4, <3>5, <1>5 DEF ServedLogout
    <3> QED BY <3>1, <3>2, <3>3, <3>4, <3>5, <3>6, <1>1 DEF WebTypeInv
  <2> QED BY <2>2, <2>3
<1>6. CASE c.kind \in Logins
  <2>1. c.body \in People
    BY <1>1, <1>6 DEF BodyIsOfItsKind
  <2>2. CASE Answered(k, 401, c.body) /\ UNCHANGED <<family, reused, excused>>
    <3>2. /\ call' = [call EXCEPT ![k] = call'[k]]
          /\ \A j \in Calls \ {k} : call'[j] = call[j]
          /\ call'[k] \in Call /\ call'[k].step = "answered" /\ call'[k].status = 401
          /\ call'[k].body = c.body /\ call'[k].kind = call[k].kind
          /\ call'[k].access = call[k].access /\ call'[k].orphan = call[k].orphan
      BY <2>2, <1>1, <1>2, AnsweredCalls
    <3>3. BodyIsOfItsKind(call'[k])
      BY <3>2, <2>1, <1>6 DEF BodyIsOfItsKind, Logins
    <3>4. SessionsKept
      BY <2>2, UnchangedSessions
    <3>6. ServedLogin(k)
      BY <3>2, <2>2, <1>6 DEF ServedLogin
    <3> QED BY <3>2, <3>3, <3>4, <2>2, <3>6, <1>1 DEF WebTypeInv
  <2>3. CASE \E f1 \in Families :
               /\ family[f1] = Unmade
               /\ family' = [family EXCEPT ![f1] = [user |-> c.body, live |-> 1, dead |-> FALSE]]
               /\ Answered(k, 200, [family |-> f1, n |-> 1])
               /\ UNCHANGED <<reused, excused>>
    <3>1. PICK f1 \in Families :
               /\ family[f1] = Unmade
               /\ family' = [family EXCEPT ![f1] = [user |-> c.body, live |-> 1, dead |-> FALSE]]
               /\ Answered(k, 200, [family |-> f1, n |-> 1])
               /\ UNCHANGED <<reused, excused>>
      BY <2>3
    <3> DEFINE t == [family |-> f1, n |-> 1]
               r == [user |-> c.body, live |-> 1, dead |-> FALSE]
    <3>2. t \in Token /\ t.family = f1 /\ t.n = 1
      BY SessionsAreCounted DEF Token
    <3>3. r \in Made /\ r.live = 1
      BY <2>1, SessionsAreCounted DEF Made
    <3>4. family' = [family EXCEPT ![f1] = r] /\ Answered(k, 200, t)
      BY <3>1
    <3> HIDE DEF t, r
    <3>5. /\ call' = [call EXCEPT ![k] = call'[k]]
          /\ \A j \in Calls \ {k} : call'[j] = call[j]
          /\ call'[k] \in Call /\ call'[k].step = "answered" /\ call'[k].status = 200
          /\ call'[k].body = t /\ call'[k].kind = call[k].kind
          /\ call'[k].access = call[k].access /\ call'[k].orphan = call[k].orphan
      BY <3>2, <3>4, <1>1, AnsweredCalls
    <3>6. BodyIsOfItsKind(call'[k])
      BY <3>2, <3>5, <1>6 DEF BodyIsOfItsKind, Logins
    <3>7. family' \in [Families -> Made \cup {Unmade}] /\ family'[f1] = r
            /\ \A g \in Families \ {f1} : family'[g] = family[g]
      BY <3>3, <3>4 DEF WebTypeInv
    <3>8. family[f1].live = 0 /\ family'[f1].live = 1
      BY <3>1, <3>3, <3>7, FamilyKinds
    <3>9. \A g \in Families : Kept(g)
      <4> TAKE g \in Families
      <4>1. family[g].live \in 0..MaxTokens
        BY FamilyKinds DEF WebTypeInv
      <4> QED BY <4>1, <3>7, <3>8, SessionsAreCounted DEF Kept
    <3>10. ServedLogin(k)
      BY <3>1, <3>2, <3>5, <3>7, <3>8, <1>6 DEF ServedLogin
    <3> QED BY <3>1, <3>5, <3>6, <3>7, <3>9, <3>10, <1>1 DEF WebTypeInv, SessionsKept
  <2>4. \/ Answered(k, 401, c.body) /\ UNCHANGED <<family, reused, excused>>
        \/ \E f1 \in Families :
               /\ family[f1] = Unmade
               /\ family' = [family EXCEPT ![f1] = [user |-> c.body, live |-> 1, dead |-> FALSE]]
               /\ Answered(k, 200, [family |-> f1, n |-> 1])
               /\ UNCHANGED <<reused, excused>>
    BY <1>6 DEF Serve, Logins
  <2> QED BY <2>2, <2>3, <2>4
<1> QED BY <1>2, <1>4, <1>5, <1>6

-----------------------------------------------------------------------------
(* What a step does to the store, to one refresh and to the calls.         *)

\* The tokens are set, or cleared.
LEMMA TokensSet ==
    ASSUME WebTypeInv, NEW t \in Token, Known(t), SetTokens(t)
    PROVE  /\ access' = t /\ refresh' = t
           /\ socket' \in Connection \cup {Off} /\ socket'.step # "off"
           /\ socket'.user = Owner(t) \/ (socket.step # "off" /\ socket' = socket)
<1>1. Owner(t) \in People
  BY KnownSessions
<1>2. CASE socket' = [step |-> "connecting", user |-> Owner(t)]
  BY <1>1, <1>2 DEF SetTokens, Connection
<1>3. CASE socket.step # "off" /\ socket' = socket
  BY <1>3 DEF SetTokens, WebTypeInv
<1> QED BY <1>2, <1>3 DEF SetTokens
\* The store is cleared, with the socket that was connected.
LEMMA TokensCleared ==
    ASSUME WebTypeInv, Clear
    PROVE  /\ access' = Nil /\ refresh' = Nil /\ page' = "login"
           /\ socket' \in Connection \cup {Off}
           /\ socket'.step # "off" => socket.step = "connecting" /\ socket' = socket
BY SocketKinds DEF Clear, WebTypeInv, Off

\* A refresh that is asked for, answered, and lost.
AskFor(t) == [step |-> "sent", token |-> t, result |-> Nil]
Give(r, v) == [r EXCEPT !.step = "answered", !.result = v]
LEMMA Refreshments ==
    /\ \A t \in Token : AskFor(t) \in Refreshment /\ AskFor(t).step = "sent"
                          /\ AskFor(t).token = t /\ AskFor(t).result = Nil
    /\ \A r \in Refreshment, v \in Token \cup {Nil} :
         Give(r, v) \in Refreshment /\ Give(r, v).step = "answered"
           /\ Give(r, v).token = r.token /\ Give(r, v).result = v
BY DEF AskFor, Give, Refreshment

\* One refresh comes to be r: that of the interceptor or that of a navigation.
Becomes(p, r) ==
    \/ p = Nil /\ flight' = r /\ guard' = guard
    \/ p \in Guards /\ guard' = [guard EXCEPT ![p] = r] /\ flight' = flight
\* The others stay as they are.
LEMMA OneRefresh ==
    ASSUME WebTypeInv, NEW p \in Refreshers, NEW r \in Refreshment \cup {Idle}, Becomes(p, r)
    PROVE  /\ flight' \in Refreshment \cup {Idle} /\ guard' \in [Guards -> Refreshment \cup {Idle}]
           /\ Asked(p)' = r /\ \A q \in Refreshers \ {p} : Asked(q)' = Asked(q)
BY NilIsNoName DEF Becomes, Asked, Refreshers, WebTypeInv
\* Of a refresh under way everything is known to be what it should be.
LEMMA RefreshTypes ==
    ASSUME WebTypeInv, NEW p \in Refreshers
    PROVE  /\ Asked(p) \in Refreshment \cup {Idle}
           /\ Asked(p).step \in {"idle", "sent", "answered"}
           /\ Under(Asked(p)) => Asked(p) \in Refreshment /\ Asked(p).token \in Token
                                   /\ Asked(p).result \in Token \cup {Nil}
                                   /\ Asked(p).token.family \in Families
<1>1. Asked(p) \in Refreshment \cup {Idle}
  BY DEF Asked, Refreshers, WebTypeInv
<1> QED BY <1>1, RefreshKinds, Tokens

\* The refresh of the interceptor and of a navigation are answered, lost and
\* received alike.
ServeRefresh(p) ==
    /\ Asked(p).step = "sent" /\ Present(Asked(p).token)
    /\ Becomes(p, Give(Asked(p), Given(Asked(p).token)))
    /\ UNCHANGED <<store, call, stray, expired, faults, excused, ended, signedOut, late, outlived>>
LoseRefresh(p) ==
    /\ Under(Asked(p)) /\ faults < MaxFaults /\ faults' = faults + 1
    /\ Becomes(p, Give(Asked(p), Nil))
    /\ excused' = excused \cup {Asked(p).token.family}
    /\ UNCHANGED <<store, call, stray, family, expired, reused, ended, signedOut, late, outlived>>
LEMMA RefreshesAlike ==
    ASSUME WebTypeInv
    PROVE  /\ ServeFlight => ServeRefresh(Nil)
           /\ FlightLost => LoseRefresh(Nil)
           /\ \A g \in Guards : /\ ServeGuard(g) => ServeRefresh(g)
                                /\ GuardLost(g) => LoseRefresh(g)
<1>1. ServeFlight => ServeRefresh(Nil)
  BY DEF ServeFlight, ServeRefresh, Becomes, Asked, Give
<1>2. FlightLost => LoseRefresh(Nil)
  BY DEF FlightLost, LoseRefresh, Becomes, Asked, Give
<1>3. ASSUME NEW g \in Guards, NEW v
      PROVE  [guard EXCEPT ![g].step = "answered", ![g].result = v]
               = [guard EXCEPT ![g] = Give(guard[g], v)]
  <2> DEFINE guard1 == [guard EXCEPT ![g].step = "answered"]
  <2>1. guard1[g] = [guard[g] EXCEPT !.step = "answered"]
    BY DEF WebTypeInv
  <2> QED BY <2>1 DEF Give, WebTypeInv
<1>4. \A g \in Guards : Asked(g) = guard[g]
  BY NilIsNoName DEF Asked
<1>5. ASSUME NEW g \in Guards, ServeGuard(g) PROVE ServeRefresh(g)
  BY <1>3, <1>4, <1>5 DEF ServeGuard, ServeRefresh, Becomes
<1>6. ASSUME NEW g \in Guards, GuardLost(g) PROVE LoseRefresh(g)
  BY <1>3, <1>4, <1>6 DEF GuardLost, LoseRefresh, Becomes
<1> QED BY <1>1, <1>2, <1>5, <1>6

\* One call comes to be d.
LEMMA OneCall ==
    ASSUME WebTypeInv, NEW k \in Calls, NEW d \in Asking, call' = [call EXCEPT ![k] = d]
    PROVE  call' \in [Calls -> Asking] /\ call'[k] = d /\ \A j \in Calls \ {k} : call'[j] = call[j]
BY DEF WebTypeInv
\* And so of a request.
LEMMA CallTypes ==
    ASSUME WebTypeInv, NEW k \in Calls
    PROVE  /\ call[k] \in Asking /\ call[k].step \in {"idle", "sent", "answered", "waiting"}
           /\ ~Under(call[k]) => call[k] = Idle
           /\ Under(call[k]) => /\ call[k] \in Call /\ BodyIsOfItsKind(call[k])
                                /\ call[k].kind \in {"query", "logout"} \cup Logins
                                /\ call[k].body \in Token \cup People \cup {Nil}
                                /\ call[k].access \in Token \cup {Nil}
                                /\ call[k].status \in {0, 200, 401}
<1>1. call[k] \in Asking
  BY DEF WebTypeInv
<1> QED BY <1>1, CallKinds DEF Call

\* A request that is sent.
Sends(k) ==
    /\ call[k] = Idle /\ call' = [call EXCEPT ![k] = call'[k]]
    /\ call'[k] \in Call /\ BodyIsOfItsKind(call'[k])
    /\ call'[k].step = "sent" /\ call'[k].access = access
    /\ call'[k].kind = "query" => page = "shell"
    /\ call'[k].kind = "logout" => page = "shell" /\ refresh # Nil /\ call'[k].body = refresh
    /\ faults' = faults \/ (faults < MaxFaults /\ faults' = faults + 1)
    /\ UNCHANGED <<store, flight, guard, stray, family, expired, marks>>
\* All that is sent is sent alike, by a query, a logout and a login.
LEMMA Sendings ==
    ASSUME WebTypeInv, NEW k \in Calls
    PROVE  /\ SendQuery(k) => Sends(k)
           /\ SendLogout(k) => Sends(k)
           /\ \A u \in People, kind \in Logins : SendLogin(k, u, kind) => Sends(k)
<1>1. ASSUME NEW kind \in {"query", "logout"} \cup Logins, NEW b \in Token \cup People \cup {Nil},
             Sent(k, kind, b)
      PROVE  /\ call[k] = Idle /\ call' = [call EXCEPT ![k] = call'[k]]
             /\ call'[k] \in Call /\ call'[k].step = "sent" /\ call'[k].access = access
             /\ call'[k].kind = kind /\ call'[k].body = b
             /\ UNCHANGED <<store, flight, guard, stray, family, expired, marks>>
  <2> DEFINE d == [step |-> "sent", kind |-> kind, body |-> b, access |-> access,
                   again |-> FALSE, orphan |-> FALSE, status |-> 0]
  <2>1. call[k] = Idle /\ call' = [call EXCEPT ![k] = d]
          /\ UNCHANGED <<store, flight, guard, stray, family, expired, marks>>
    BY <1>1 DEF Sent
  <2>2. access \in Token \cup {Nil}
    BY DEF WebTypeInv
  <2>3. d \in Call
    BY <2>2 DEF Call
  <2>4. d.step = "sent" /\ d.access = access /\ d.kind = kind /\ d.body = b
    OBVIOUS
  <2> HIDE DEF d
  <2>5. call'[k] = d
    BY <2>1 DEF WebTypeInv
  <2> QED BY <2>1, <2>3, <2>4, <2>5
<1>2. ASSUME SendQuery(k) PROVE Sends(k)
  <2>1. Sent(k, "query", Nil) /\ page = "shell" /\ faults' = faults
    BY <1>2 DEF SendQuery
  <2>2. Nil \in Token \cup People \cup {Nil} /\ "query" \in {"query", "logout"} \cup Logins
    OBVIOUS
  <2>3. /\ call[k] = Idle /\ call' = [call EXCEPT ![k] = call'[k]]
        /\ call'[k] \in Call /\ call'[k].step = "sent" /\ call'[k].access = access
        /\ call'[k].kind = "query" /\ call'[k].body = Nil
        /\ UNCHANGED <<store, flight, guard, stray, family, expired, marks>>
    BY <1>1, <2>1, <2>2
  <2> QED BY <2>1, <2>3 DEF Sends, BodyIsOfItsKind, Logins
<1>3. ASSUME SendLogout(k) PROVE Sends(k)
  <2>1. Sent(k, "logout", refresh) /\ page = "shell" /\ refresh # Nil /\ faults' = faults
    BY <1>3 DEF SendLogout
  <2>2. refresh \in Token /\ "logout" \in {"query", "logout"} \cup Logins
    BY <2>1 DEF WebTypeInv
  <2>3. /\ call[k] = Idle /\ call' = [call EXCEPT ![k] = call'[k]]
        /\ call'[k] \in Call /\ call'[k].step = "sent" /\ call'[k].access = access
        /\ call'[k].kind = "logout" /\ call'[k].body = refresh
        /\ UNCHANGED <<store, flight, guard, stray, family, expired, marks>>
    BY <1>1, <2>1, <2>2
  <2> QED BY <2>1, <2>2, <2>3 DEF Sends, BodyIsOfItsKind, Logins
<1>4. ASSUME NEW u \in People, NEW kind \in Logins, SendLogin(k, u, kind) PROVE Sends(k)
  <2>1. Sent(k, kind, u) /\ (faults' = faults \/ (faults < MaxFaults /\ faults' = faults + 1))
    BY <1>4 DEF SendLogin
  <2>2. kind \in {"query", "logout"} \cup Logins /\ u \in Token \cup People \cup {Nil}
    OBVIOUS
  <2>3. /\ call[k] = Idle /\ call' = [call EXCEPT ![k] = call'[k]]
        /\ call'[k] \in Call /\ call'[k].step = "sent" /\ call'[k].access = access
        /\ call'[k].kind = kind /\ call'[k].body = u
        /\ UNCHANGED <<store, flight, guard, stray, family, expired, marks>>
    BY <1>1, <2>1, <2>2
  <2> QED BY <2>1, <2>3 DEF Sends, BodyIsOfItsKind, Logins
<1> QED BY <1>2, <1>3, <1>4

\* A request or its answer is lost.
Loses(k) ==
    /\ call[k].step \in {"sent", "answered"} /\ call' = [call EXCEPT ![k] = call'[k]]
    /\ call'[k] \in Call /\ BodyIsOfItsKind(call'[k])
    /\ call'[k].step = "answered" /\ call'[k].status = 0
    /\ call'[k].kind = call[k].kind /\ call'[k].body = call[k].body
    /\ call'[k].access = call[k].access /\ call'[k].orphan = call[k].orphan
    /\ faults < MaxFaults /\ faults' = faults + 1
    /\ UNCHANGED <<store, flight, guard, stray, family, expired, marks>>
\* A loss leaves the rest of the request alone.
LEMMA Losings ==
    ASSUME WebTypeInv, NEW k \in Calls, Lose(k)
    PROVE  Loses(k)
<1> DEFINE c == call[k]
<1>1. c \in Call /\ BodyIsOfItsKind(c) /\ Under(c) /\ c.step \in {"sent", "answered"}
        /\ c.body \in Token \cup People \cup {Nil}
  BY CallTypes DEF Lose, Under
<1>2. Answered(k, 0, c.body)
  <2> DEFINE call1 == [call EXCEPT ![k].step = "answered"]
             call2 == [call1 EXCEPT ![k].status = 0]
  <2>1. call' = call2
    BY DEF Lose
  <2>2. call2[k].body = c.body
    BY <1>1 DEF WebTypeInv, Call
  <2>3. call2 = [call2 EXCEPT ![k].body = c.body]
    BY <2>2 DEF WebTypeInv
  <2> QED BY <2>1, <2>3 DEF Answered
<1>3. /\ call' = [call EXCEPT ![k] = call'[k]] /\ call'[k] \in Call
      /\ call'[k].step = "answered" /\ call'[k].status = 0
      /\ call'[k].body = c.body /\ call'[k].kind = c.kind
      /\ call'[k].access = c.access /\ call'[k].orphan = c.orphan
  BY <1>1, <1>2, AnsweredCalls
<1>4. BodyIsOfItsKind(call'[k])
  BY <1>1, <1>3 DEF BodyIsOfItsKind
<1> QED BY <1>1, <1>3, <1>4 DEF Lose, Loses

\* What Receive does, by what it was that arrived.
ReceivesLogin(k) ==
    /\ LoginAnswer(k) /\ call[k].body \in Token /\ Known(call[k].body)
    /\ call' = [call EXCEPT ![k] = Idle]
    /\ SetTokens(call[k].body) /\ page' = "shell"
    /\ cached' = cached \cup {Owner(call[k].body)}
    /\ signedOut' = FALSE /\ late' = (late \/ Refreshing \/ access # Nil)
    /\ UNCHANGED <<flight, guard, stray, family, expired, faults, reused, excused, ended, outlived>>
ReceivesQuery(k) ==
    /\ call[k].kind = "query" /\ call[k].step = "answered" /\ call[k].status = 200
    /\ call' = [call EXCEPT ![k] = Idle]
    /\ cached' = IF call[k].orphan THEN cached ELSE cached \cup {call[k].body}
    /\ UNCHANGED <<access, refresh, page, socket, flight, guard, stray, family, expired, faults,
                   marks>>
GivesUp(k) ==
    /\ call[k].step = "answered" /\ call' = [call EXCEPT ![k] = Idle]
    /\ UNCHANGED <<store, flight, guard, stray, family, expired, faults, marks>>
Joins(k) ==
    /\ call[k].step = "answered" /\ call[k].status = 401
    /\ call' = [call EXCEPT ![k] = Wait(call[k])]
    /\ UNCHANGED <<store, flight, guard, stray, family, expired, faults, marks>>
Begins(k) ==
    /\ call[k].step = "answered" /\ call[k].status = 401
    /\ call' = [call EXCEPT ![k] = Wait(call[k])]
    /\ ~Under(flight) /\ refresh # Nil /\ Becomes(Nil, AskFor(refresh))
    /\ excused' = IF RefreshesOf(refresh.family) # {} THEN excused \cup {refresh.family}
                  ELSE excused
    /\ UNCHANGED <<store, stray, family, expired, faults, reused, ended, signedOut, late, outlived>>
SameCall(j) == call'[j] = call[j] \/ (Under(call[j]) /\ call'[j] = Orphan(call[j]))
ReceivesLogout(k) ==
    /\ call[k].kind = "logout" /\ call[k].step = "answered"
    /\ call[k].status \in {0, 200} \/ call[k].again \/ (refresh = Nil /\ ~Under(flight))
    /\ LoggedOut(k)
    /\ call'[k] = Idle /\ call' \in [Calls -> Asking]
    /\ \A j \in Calls \ {k} : SameCall(j) /\ (Under(call[j]) => call'[j] = Orphan(call[j]))
    /\ UNCHANGED <<guard, family, expired, faults, reused>>

LEMMA OrphansAreOfTheirKind ==
    ASSUME NEW c \in Call, BodyIsOfItsKind(c)
    PROVE  Orphan(c) \in Asking
<1>1. Orphan(c) \in Call /\ Orphan(c).step = c.step /\ Orphan(c).kind = c.kind
        /\ Orphan(c).body = c.body /\ Orphan(c).status = c.status
  BY Orphans
<1> QED BY <1>1 DEF Asking, BodyIsOfItsKind

\* A request that is left, or orphaned, goes on as it was.
LEMMA SameCalls ==
    ASSUME WebTypeInv, NEW j \in Calls, SameCall(j)
    PROVE  /\ call'[j] \in Asking /\ call'[j].step = call[j].step
           /\ Under(call[j]) => /\ call'[j].kind = call[j].kind /\ call'[j].body = call[j].body
                                /\ call'[j].access = call[j].access
                                /\ call'[j].status = call[j].status
<1>1. CASE call'[j] = call[j]
  BY <1>1, CallTypes
<1>2. CASE Under(call[j]) /\ call'[j] = Orphan(call[j])
  <2>1. call[j] \in Call /\ BodyIsOfItsKind(call[j])
    BY <1>2, CallTypes
  <2>2. Orphan(call[j]) \in Asking
    BY <2>1, OrphansAreOfTheirKind
  <2>3. PICK c \in Call : c = call[j]
    BY <2>1
  <2>4. call'[j].step = c.step /\ call'[j].kind = c.kind /\ call'[j].body = c.body
          /\ call'[j].access = c.access /\ call'[j].status = c.status
    BY <1>2, <2>3, Orphans
  <2> QED BY <1>2, <2>2, <2>3, <2>4
<1> QED BY <1>1, <1>2 DEF SameCall

\* A refused request waits with the body it has.
LEMMA WaitsAreOfTheirKind ==
    ASSUME NEW c \in Call, BodyIsOfItsKind(c), c.step = "answered", c.status = 401
    PROVE  Wait(c) \in Asking
<1>1. Wait(c) \in Call /\ Wait(c).step = "waiting" /\ Wait(c).kind = c.kind
        /\ Wait(c).body = c.body /\ Wait(c).status = c.status
  BY Waits
<1> QED BY <1>1 DEF Asking, BodyIsOfItsKind
LEMMA ResentAreOfTheirKind ==
    ASSUME NEW c \in Call, BodyIsOfItsKind(c), c.step = "waiting", NEW t \in Token
    PROVE  Resent(c, t) \in Asking
<1>1. Resent(c, t) \in Call /\ Resent(c, t).step = "sent" /\ Resent(c, t).kind = c.kind
        /\ Resent(c, t).body = c.body /\ Resent(c, t).status = c.status
  BY Resends
<1> QED BY <1>1 DEF Asking, BodyIsOfItsKind

LEMMA IdleIsAsking == Idle \in Asking /\ ~Under(Idle) /\ Idle.step = "idle"
BY DEF Asking, Under, Idle

\* And nothing else: Receive is one of these.
LEMMA Received ==
    ASSUME WebTypeInv, KnownInv, NEW k \in Calls, Receive(k)
    PROVE  \/ ReceivesLogin(k) \/ ReceivesQuery(k) \/ GivesUp(k) \/ Joins(k) \/ Begins(k)
           \/ ReceivesLogout(k)
<1> DEFINE c == call[k]
<1>1. c.step = "answered" /\ c \in Call /\ BodyIsOfItsKind(c) /\ Under(c)
        /\ UNCHANGED <<guard, family, expired, faults, reused>>
  BY CallTypes DEF Receive, Under
<1>2. CASE c.status = 200 /\ c.kind \in Logins /\ LoggedIn(k, c.body)
  <2>1. LoginAnswer(k) /\ c.body \in Token /\ Known(c.body)
    BY <1>1, <1>2 DEF LoginAnswer, KnownInv, BodyIsOfItsKind
  <2> QED BY <2>1, <1>1, <1>2 DEF LoggedIn, ReceivesLogin
<1>3. CASE /\ c.status = 200 /\ c.kind = "query"
           /\ cached' = IF c.orphan THEN cached ELSE cached \cup {c.body}
           /\ call' = [call EXCEPT ![k] = Idle]
           /\ UNCHANGED <<access, refresh, page, socket, flight, stray, excused, ended, signedOut,
                          late, outlived>>
  BY <1>1, <1>3 DEF ReceivesQuery, marks
<1>4. CASE /\ c.status = 401 /\ (Under(flight) \/ refresh # Nil)
           /\ TryRefresh(k) /\ UNCHANGED <<store, ended, signedOut, late, outlived>>
  <2>1. call' = [call EXCEPT ![k] = Wait(c)] /\ UNCHANGED stray
    BY <1>4 DEF TryRefresh, Wait, WebTypeInv
  <2>2. CASE Under(flight)
    BY <2>1, <2>2, <1>1, <1>4 DEF TryRefresh, Joins, marks
  <2>3. CASE ~Under(flight)
    BY <2>1, <2>3, <1>1, <1>4 DEF TryRefresh, Begins, Becomes, AskFor
  <2> QED BY <2>2, <2>3
<1>5. CASE /\ c.kind # "logout" /\ call' = [call EXCEPT ![k] = Idle]
           /\ UNCHANGED <<store, flight, stray, excused, ended, signedOut, late, outlived>>
  BY <1>1, <1>5 DEF GivesUp, marks
<1>6. CASE /\ c.kind = "logout"
           /\ c.status \in {0, 200} \/ c.again \/ (refresh = Nil /\ ~Under(flight))
           /\ LoggedOut(k)
  <2>1. call' = [j \in Calls |-> IF j = k THEN Idle
                                 ELSE IF Under(call[j]) THEN [call[j] EXCEPT !.orphan = TRUE]
                                 ELSE Idle]
    BY <1>6 DEF LoggedOut
  <2>2. call'[k] = Idle
    BY <2>1
  <2>3. \A j \in Calls \ {k} : call'[j] = IF Under(call[j]) THEN Orphan(call[j]) ELSE Idle
    BY <2>1 DEF Orphan
  <2>4. \A j \in Calls \ {k} : SameCall(j) /\ (Under(call[j]) => call'[j] = Orphan(call[j]))
    BY <2>3, CallTypes DEF SameCall
  <2>5. \A j \in Calls : call'[j] \in Asking
    BY <2>2, <2>4, SameCalls, IdleIsAsking
  <2>6. call' \in [Calls -> Asking]
    <3>1. DOMAIN call' = Calls /\ call' = [j \in Calls |-> call'[j]]
      BY <2>1
    <3> QED BY <3>1, <2>5
  <2> QED BY <2>2, <2>4, <2>6, <1>1, <1>6 DEF ReceivesLogout
<1> QED BY <1>1, <1>2, <1>3, <1>4, <1>5, <1>6 DEF Receive, Logins, SkipsRefresh

\* A refresh arrives with a token, or fails, or is begun by a navigation.
Arrives(p) ==
    /\ Asked(p).step = "answered" /\ Asked(p).result \in Token /\ Known(Asked(p).result)
    /\ Asked(p).result.family = Asked(p).token.family
    /\ SetTokens(Asked(p).result) /\ Becomes(p, Idle)
    /\ page' \in {page, "shell"}
    /\ call' \in [Calls -> Asking]
    /\ \A j \in Calls : \/ call'[j] = call[j] /\ (p = Nil => call[j].step # "waiting")
                        \/ /\ p = Nil /\ call[j].step = "waiting"
                           /\ call'[j] = Resent(call[j], Asked(p).result)
    /\ UNCHANGED <<cached, stray, family, expired, faults, marks>>
FlightFails ==
    /\ flight.step = "answered" /\ flight.result = Nil
    /\ Clear /\ Becomes(Nil, Idle)
    /\ call' \in [Calls -> Asking]
    /\ \A j \in Calls : call'[j] = Idle \/ SameCall(j)
    /\ \/ cached' = cached /\ outlived' = outlived \cup Left /\ signedOut' = signedOut
       \/ /\ cached' = {} /\ outlived' = Connecting /\ signedOut' = TRUE
          /\ \A j \in Calls : Under(call'[j]) => call'[j].orphan = TRUE
    /\ late' = (late \/ \E g \in Guards : Under(guard[g]))
    /\ ended' = ended \/ (faults = 0 /\ ended' \subseteq ended \cup {flight.token.family})
    /\ UNCHANGED <<stray, family, expired, faults, reused, excused>>
GuardFails(g) ==
    /\ guard[g].step = "answered" /\ guard[g].result = Nil
    /\ Clear /\ Becomes(g, Idle) /\ outlived' = outlived \cup Left
    /\ UNCHANGED <<cached, call, stray, family, expired, faults, reused, excused, ended,
                   signedOut, late>>
Navigates(g) ==
    /\ page # "shell" /\ access = Nil /\ refresh # Nil /\ ~Under(guard[g])
    /\ Becomes(g, AskFor(refresh)) /\ page' = "entering"
    /\ excused' = IF RefreshesOf(refresh.family) # {} THEN excused \cup {refresh.family}
                  ELSE excused
    /\ UNCHANGED <<access, refresh, cached, socket, call, stray, family, expired, faults, reused,
                   ended, signedOut, late, outlived>>

\* The interceptor's refresh that brings a token.
LEMMA FlightArrives ==
    ASSUME WebTypeInv, KnownInv, FlightReceived
    PROVE  Arrives(Nil)
<1> DEFINE t == flight.result
<1>1. Asked(Nil) = flight /\ Nil \in Refreshers /\ Under(flight)
  BY DEF Asked, Refreshers, FlightReceived, Under
<1>2. t \in Token /\ Known(t) /\ t.family = flight.token.family
  BY <1>1, RefreshTypes DEF FlightReceived, KnownInv
<1>3. call' = [k \in Calls |-> IF call[k].step = "waiting" THEN Resent(call[k], t) ELSE call[k]]
  BY DEF FlightReceived, Resent
<1>4. \A j \in Calls : /\ call[j].step = "waiting" => call'[j] = Resent(call[j], t)
                       /\ call[j].step # "waiting" => call'[j] = call[j]
  BY <1>3
<1>5. \A j \in Calls : call'[j] \in Asking
  <2> TAKE j \in Calls
  <2>1. CASE call[j].step = "waiting"
    <3>1. call[j] \in Call /\ BodyIsOfItsKind(call[j])
      BY <2>1, CallTypes DEF Under
    <3> QED BY <1>2, <1>4, <2>1, <3>1, ResentAreOfTheirKind
  <2>2. CASE call[j].step # "waiting"
    BY <1>4, <2>2, CallTypes
  <2> QED BY <2>1, <2>2
<1>6. call' \in [Calls -> Asking]
  <2>1. call' = [j \in Calls |-> call'[j]]
    BY <1>3
  <2> QED BY <2>1, <1>5
<1>7. /\ SetTokens(t) /\ Becomes(Nil, Idle) /\ page' = page /\ flight.step = "answered"
      /\ UNCHANGED <<cached, stray, family, expired, faults, marks>>
  BY DEF FlightReceived, Becomes
<1> QED BY <1>1, <1>2, <1>4, <1>6, <1>7 DEF Arrives

\* A navigation's refresh that brings a token, or fails.
LEMMA GuardArrives ==
    ASSUME WebTypeInv, KnownInv, NEW g \in Guards, GuardReceived(g)
    PROVE  Arrives(g) \/ GuardFails(g)
<1>1. Asked(g) = guard[g] /\ g \in Refreshers /\ Under(guard[g]) /\ g # Nil
        /\ guard[g].step = "answered" /\ Becomes(g, Idle)
        /\ UNCHANGED <<cached, call, stray, family, expired, faults, reused, excused, ended,
                       signedOut, late>>
  BY NilIsNoName DEF Asked, Refreshers, GuardReceived, Under, Becomes
<1>2. CASE guard[g].result # Nil
  <2>1. guard[g].result \in Token /\ Known(guard[g].result)
          /\ guard[g].result.family = guard[g].token.family
    BY <1>1, <1>2, RefreshTypes DEF KnownInv
  <2>2. SetTokens(guard[g].result) /\ page' \in {page, "shell"} /\ UNCHANGED outlived
    BY <1>2 DEF GuardReceived
  <2>3. call' \in [Calls -> Asking]
    BY <1>1 DEF WebTypeInv
  <2> QED BY <1>1, <2>1, <2>2, <2>3 DEF Arrives, marks
<1>3. CASE guard[g].result = Nil
  BY <1>1, <1>3 DEF GuardFails, GuardReceived
<1> QED BY <1>2, <1>3

\* The interceptor's refresh that fails, with a logout among those who wait or none.
LEMMA FlightFailing ==
    ASSUME WebTypeInv, FlightFailed
    PROVE  FlightFails
<1> DEFINE leaving == {k \in Calls : call[k].step = "waiting" /\ call[k].kind = "logout"}
<1>1. call' = [k \in Calls |-> IF call[k].step = "waiting" THEN Idle
                 ELSE IF Under(call[k]) /\ leaving # {} THEN Orphan(call[k])
                 ELSE call[k]]
  BY DEF FlightFailed, Orphan
<1>2. \A j \in Calls :
        /\ call[j].step = "waiting" => call'[j] = Idle
        /\ call[j].step # "waiting" /\ Under(call[j]) /\ leaving # {} => call'[j] = Orphan(call[j])
        /\ call[j].step # "waiting" /\ (leaving = {} \/ ~Under(call[j])) => call'[j] = call[j]
  BY <1>1
<1> HIDE DEF leaving
<1>3. \A j \in Calls : call'[j] = Idle \/ SameCall(j)
  BY <1>2 DEF SameCall
<1>4. \A j \in Calls : call'[j] \in Asking
  BY <1>3, SameCalls, IdleIsAsking
<1>5. call' \in [Calls -> Asking]
  <2>1. call' = [j \in Calls |-> call'[j]]
    BY <1>1
  <2> QED BY <2>1, <1>4
<1>6. leaving # {} => \A j \in Calls : Under(call'[j]) => call'[j].orphan = TRUE
  <2> SUFFICES ASSUME leaving # {}, NEW j \in Calls, Under(call'[j]) PROVE call'[j].orphan = TRUE
    OBVIOUS
  <2>1. Under(call[j]) /\ call'[j] = Orphan(call[j])
    BY <1>2, IdleIsAsking
  <2>2. call[j] \in Call
    BY <2>1, CallTypes
  <2>3. Orphan(call[j]).orphan = TRUE
    BY <2>2, Orphans
  <2> QED BY <2>1, <2>3, Zenon
<1>7. /\ flight.step = "answered" /\ flight.result = Nil /\ Clear /\ Becomes(Nil, Idle)
      /\ cached' = IF leaving = {} THEN cached ELSE AfterLogout
      /\ outlived' = IF leaving = {} THEN outlived \cup Left ELSE Connecting
      /\ signedOut' = (signedOut \/ leaving # {})
      /\ late' = (late \/ \E g \in Guards : Under(guard[g]))
      /\ ended' = IF faults = 0
             THEN ended \cup ({flight.token.family} \cap {call[k].body.family : k \in leaving})
             ELSE ended
      /\ UNCHANGED <<stray, family, expired, faults, reused, excused>>
  BY DEF FlightFailed, Becomes, leaving
<1>8. signedOut \in BOOLEAN
  BY DEF WebTypeInv
<1>9. ended' = ended \/ (faults = 0 /\ ended' \subseteq ended \cup {flight.token.family})
  BY <1>7
<1>10. \/ cached' = cached /\ outlived' = outlived \cup Left /\ signedOut' = signedOut
       \/ /\ cached' = {} /\ outlived' = Connecting /\ signedOut' = TRUE
          /\ \A j \in Calls : Under(call'[j]) => call'[j].orphan = TRUE
  <2>1. CASE leaving = {}
    BY <2>1, <1>7, <1>8
  <2>2. CASE leaving # {}
    BY <2>2, <1>6, <1>7 DEF AfterLogout
  <2> QED BY <2>1, <2>2
<1> QED BY <1>3, <1>5, <1>7, <1>9, <1>10 DEF FlightFails

LEMMA Navigations ==
    ASSUME WebTypeInv, NEW g \in Guards, GuardStart(g)
    PROVE  Navigates(g)
<1>1. Becomes(g, AskFor(refresh)) /\ ~Under(guard[g])
  BY DEF GuardStart, Becomes, AskFor, Idle, Under
<1> QED BY <1>1 DEF GuardStart, Navigates

\* Every step is one of these.
StepOfCall(k) ==
    \/ Sends(k) \/ Serve(k) \/ Loses(k) \/ ReceivesLogin(k) \/ ReceivesQuery(k) \/ GivesUp(k)
    \/ Joins(k) \/ Begins(k) \/ ReceivesLogout(k)
StepOfRefresh(p) == ServeRefresh(p) \/ LoseRefresh(p) \/ Arrives(p)
\* KindsOfStep is what the rest is proved from: WebNext is not unfolded again.
LEMMA KindsOfStep ==
    ASSUME WebTypeInv, KnownInv, [WebNext]_webVars
    PROVE  \/ \E k \in Calls : StepOfCall(k)
           \/ \E p \in Refreshers : StepOfRefresh(p)
           \/ \E g \in Guards : GuardFails(g) \/ Navigates(g)
           \/ FlightFails
           \/ \E t \in Token : ServeStray(t) \/ Expire(t)
           \/ \E f \in Families : RevokeElsewhere(f)
           \/ Enter \/ Reload \/ SocketOpens \/ UNCHANGED webVars
<1>1. Nil \in Refreshers /\ Guards \subseteq Refreshers
  BY DEF Refreshers
<1>2. ASSUME NEW k \in Calls,
             \/ SendQuery(k) \/ SendLogout(k) \/ Serve(k) \/ Lose(k) \/ Receive(k)
             \/ \E u \in People, kind \in {"password", "telegram"} : SendLogin(k, u, kind)
      PROVE  StepOfCall(k)
  BY <1>2, Sendings, Losings, Received DEF StepOfCall, Logins
<1>3. ServeFlight \/ FlightReceived \/ FlightLost => StepOfRefresh(Nil)
  BY RefreshesAlike, FlightArrives DEF StepOfRefresh
<1>4. FlightFailed => FlightFails
  BY FlightFailing
<1>5. \A g \in Guards : ServeGuard(g) \/ GuardLost(g) => StepOfRefresh(g)
  BY RefreshesAlike DEF StepOfRefresh
<1>6. \A g \in Guards : GuardReceived(g) => StepOfRefresh(g) \/ GuardFails(g)
  BY GuardArrives DEF StepOfRefresh
<1>7. \A g \in Guards : GuardStart(g) => Navigates(g)
  BY Navigations
<1> QED BY <1>1, <1>2, <1>3, <1>4, <1>5, <1>6, <1>7 DEF WebNext

-----------------------------------------------------------------------------
(* The types, and what is known.                                           *)

\* Sessions are kept by every step.
LEMMA SessionsAreKept ==
    ASSUME WebTypeInv, KnownInv, [WebNext]_webVars
    PROVE  SessionsKept /\ family' \in [Families -> Made \cup {Unmade}]
<1>1. UNCHANGED family => SessionsKept /\ family' \in [Families -> Made \cup {Unmade}]
  BY UnchangedSessions DEF WebTypeInv
<1>2. ASSUME NEW k \in Calls, StepOfCall(k)
      PROVE  SessionsKept /\ family' \in [Families -> Made \cup {Unmade}]
  <2>1. CASE Serve(k)
    BY <2>1, Served
  <2>2. ~Serve(k) => UNCHANGED family
    BY <1>2 DEF StepOfCall, Sends, Loses, ReceivesLogin, ReceivesQuery, GivesUp, Joins, Begins,
                ReceivesLogout
  <2> QED BY <2>1, <2>2, <1>1
<1>3. ASSUME NEW p \in Refreshers, StepOfRefresh(p)
      PROVE  SessionsKept /\ family' \in [Families -> Made \cup {Unmade}]
  <2>1. CASE ServeRefresh(p)
    <3>1. Under(Asked(p)) /\ Asked(p).token \in Token /\ Known(Asked(p).token)
            /\ Present(Asked(p).token)
      BY <2>1, RefreshTypes DEF ServeRefresh, Under, KnownInv
    <3> QED BY <3>1, Presented
  <2>2. ~ServeRefresh(p) => UNCHANGED family
    BY <1>3 DEF StepOfRefresh, LoseRefresh, Arrives
  <2> QED BY <2>1, <2>2, <1>1
<1>4. ASSUME NEW t \in Token, ServeStray(t)
      PROVE  SessionsKept /\ family' \in [Families -> Made \cup {Unmade}]
  BY <1>4, Presented DEF ServeStray, KnownInv
<1>5. ASSUME NEW f \in Families, RevokeElsewhere(f)
      PROVE  SessionsKept /\ family' \in [Families -> Made \cup {Unmade}]
  <2>1. family[f].live # 0
    BY <1>5, FamilyKinds DEF RevokeElsewhere, WebTypeInv
  <2> QED BY <1>5, <2>1, Burned DEF RevokeElsewhere
<1>6. (\E g \in Guards : GuardFails(g) \/ Navigates(g)) \/ FlightFails => UNCHANGED family
  BY DEF GuardFails, Navigates, FlightFails
<1>7. (\E t \in Token : Expire(t)) \/ Enter \/ Reload \/ SocketOpens \/ UNCHANGED webVars
        => UNCHANGED family
  BY DEF Expire, Enter, Reload, SocketOpens, webVars
<1> QED BY <1>1, <1>2, <1>3, <1>4, <1>5, <1>6, <1>7, KindsOfStep

\* The types are kept, by the steps of the requests and of the refreshes.
LEMMA TypesOfCallSteps ==
    ASSUME WebTypeInv, KnownInv, NEW k \in Calls, StepOfCall(k),
           family' \in [Families -> Made \cup {Unmade}]
    PROVE  WebTypeInv'
<1> USE DEF store, marks
<1>1. \A d \in Asking : call' = [call EXCEPT ![k] = d] => call' \in [Calls -> Asking]
  BY OneCall
<1>2. \A d \in Call : BodyIsOfItsKind(d) => d \in Asking
  BY DEF Asking
<1>3. CASE Sends(k)
  <2>1. call' \in [Calls -> Asking]
    BY <1>1, <1>2, <1>3 DEF Sends
  <2>2. faults' \in 0..MaxFaults
    BY <1>3, SessionsAreCounted DEF Sends, WebTypeInv
  <2> QED BY <1>3, <2>1, <2>2 DEF Sends, WebTypeInv
<1>4. CASE Serve(k)
  <2>1. call' \in [Calls -> Asking]
    BY <1>1, <1>2, <1>4, Served
  <2>2. reused' \subseteq Families /\ excused' \subseteq Families
    BY <1>4, Served
  <2>3. UNCHANGED <<store, flight, guard, stray, expired, faults, ended, signedOut, late, outlived>>
    BY <1>4 DEF Serve
  <2> QED BY <2>1, <2>2, <2>3 DEF WebTypeInv
<1>5. CASE Loses(k)
  <2>1. call' \in [Calls -> Asking]
    BY <1>1, <1>2, <1>5 DEF Loses
  <2>2. faults' \in 0..MaxFaults
    BY <1>5, SessionsAreCounted DEF Loses, WebTypeInv
  <2> QED BY <1>5, <2>1, <2>2 DEF Loses, WebTypeInv
<1>6. CASE ReceivesLogin(k)
  <2>1. call' \in [Calls -> Asking]
    BY <1>1, <1>6, IdleIsAsking DEF ReceivesLogin
  <2>2. /\ access' \in Token /\ refresh' \in Token /\ socket' \in Connection \cup {Off}
        /\ Owner(call[k].body) \in People
    BY <1>6, TokensSet, KnownSessions DEF ReceivesLogin
  <2>3. late' \in BOOLEAN /\ signedOut' \in BOOLEAN /\ page' = "shell"
    BY <1>6 DEF ReceivesLogin
  <2>4. cached' \subseteq People
    BY <1>6, <2>2 DEF ReceivesLogin, WebTypeInv
  <2> QED BY <1>6, <2>1, <2>2, <2>3, <2>4 DEF ReceivesLogin, WebTypeInv
<1>7. CASE ReceivesQuery(k)
  <2>1. call' \in [Calls -> Asking]
    BY <1>1, <1>7, IdleIsAsking DEF ReceivesQuery
  <2>2. cached' \subseteq People
    <3>1. call[k].body \in People
      BY <1>7, CallTypes DEF ReceivesQuery, BodyIsOfItsKind, Under
    <3> QED BY <3>1, <1>7 DEF ReceivesQuery, WebTypeInv
  <2> QED BY <1>7, <2>1, <2>2 DEF ReceivesQuery, WebTypeInv
<1>8. CASE GivesUp(k)
  <2>1. call' \in [Calls -> Asking]
    BY <1>1, <1>8, IdleIsAsking DEF GivesUp
  <2> QED BY <1>8, <2>1 DEF GivesUp, WebTypeInv
<1>9. ASSUME Joins(k) \/ Begins(k) PROVE call' \in [Calls -> Asking]
  <2>1. call' = [call EXCEPT ![k] = Wait(call[k])] /\ call[k].step = "answered"
          /\ call[k].status = 401
    BY <1>9 DEF Joins, Begins
  <2>2. call[k] \in Call /\ BodyIsOfItsKind(call[k])
    BY <2>1, CallTypes DEF Under
  <2>3. Wait(call[k]) \in Asking
    BY <2>1, <2>2, WaitsAreOfTheirKind
  <2> QED BY <2>1, <2>3, <1>1
<1>10. CASE Joins(k)
  BY <1>9, <1>10 DEF Joins, WebTypeInv
<1>11. CASE Begins(k)
  <2>1. refresh \in Token /\ refresh.family \in Families
    BY <1>11, Tokens DEF Begins, WebTypeInv
  <2>2. AskFor(refresh) \in Refreshment
    BY <2>1, Refreshments
  <2>3. flight' \in Refreshment \cup {Idle} /\ guard' \in [Guards -> Refreshment \cup {Idle}]
    BY <2>2, <1>11, OneRefresh DEF Begins, Refreshers
  <2>4. excused' \subseteq Families
    BY <2>1, <1>11 DEF Begins, WebTypeInv
  <2> QED BY <1>9, <1>11, <2>3, <2>4 DEF Begins, WebTypeInv
<1>12. CASE ReceivesLogout(k)
  <2>1. Clear /\ cached' = {} /\ outlived' = Connecting /\ signedOut' = TRUE
          /\ late' = (late \/ Refreshing) /\ UNCHANGED <<flight, stray, excused>>
    BY <1>12 DEF ReceivesLogout, LoggedOut, AfterLogout
  <2>2. Connecting \subseteq People
    BY SocketKinds DEF Connecting, WebTypeInv
  <2>3. ended' \subseteq Families
    <3>1. call[k].body \in Token
      BY <1>12, CallTypes DEF ReceivesLogout, BodyIsOfItsKind, Under
    <3>2. call[k].body.family \in Families
      BY <3>1, Tokens
    <3>3. ended' = ended \/ ended' = ended \cup {call[k].body.family}
      BY <1>12 DEF ReceivesLogout, LoggedOut
    <3> QED BY <3>2, <3>3 DEF WebTypeInv
  <2>4. access' = Nil /\ refresh' = Nil /\ page' = "login" /\ socket' \in Connection \cup {Off}
    BY <2>1, TokensCleared
  <2>5. late' \in BOOLEAN
    BY <2>1
  <2>6. call' \in [Calls -> Asking] /\ UNCHANGED <<guard, expired, faults, reused>>
    BY <1>12 DEF ReceivesLogout
  <2> QED BY <2>1, <2>2, <2>3, <2>4, <2>5, <2>6 DEF WebTypeInv
<1> QED BY <1>3, <1>4, <1>5, <1>6, <1>7, <1>8, <1>10, <1>11, <1>12 DEF StepOfCall

\* The interceptor's refresh and a navigation's change the types alike.
LEMMA TypesOfRefreshSteps ==
    ASSUME WebTypeInv, KnownInv, NEW p \in Refreshers, StepOfRefresh(p),
           family' \in [Families -> Made \cup {Unmade}]
    PROVE  WebTypeInv'
<1> USE DEF store, marks
<1>1. \A r \in Refreshment \cup {Idle} : Becomes(p, r) =>
        flight' \in Refreshment \cup {Idle} /\ guard' \in [Guards -> Refreshment \cup {Idle}]
  BY OneRefresh
<1>2. CASE ServeRefresh(p)
  <2>1. /\ Asked(p) \in Refreshment /\ Asked(p).token \in Token /\ Known(Asked(p).token)
        /\ Present(Asked(p).token)
    BY <1>2, RefreshTypes DEF ServeRefresh, Under, KnownInv
  <2>2. reused' \subseteq Families /\ Given(Asked(p).token) \in Token \cup {Nil}
    BY <2>1, Presented
  <2>3. Give(Asked(p), Given(Asked(p).token)) \in Refreshment
    BY <2>1, <2>2, Refreshments
  <2>4. flight' \in Refreshment \cup {Idle} /\ guard' \in [Guards -> Refreshment \cup {Idle}]
    BY <1>1, <1>2, <2>3 DEF ServeRefresh
  <2> QED BY <1>2, <2>2, <2>4 DEF ServeRefresh, WebTypeInv
<1>3. CASE LoseRefresh(p)
  <2>1. Asked(p) \in Refreshment /\ Asked(p).token.family \in Families
    BY <1>3, RefreshTypes DEF LoseRefresh
  <2>2. Give(Asked(p), Nil) \in Refreshment
    BY <2>1, Refreshments
  <2>3. flight' \in Refreshment \cup {Idle} /\ guard' \in [Guards -> Refreshment \cup {Idle}]
    BY <1>1, <1>3, <2>2 DEF LoseRefresh
  <2>4. faults' \in 0..MaxFaults
    BY <1>3, SessionsAreCounted DEF LoseRefresh, WebTypeInv
  <2>5. excused' \subseteq Families
    BY <1>3, <2>1 DEF LoseRefresh, WebTypeInv
  <2> QED BY <1>3, <2>3, <2>4, <2>5 DEF LoseRefresh, WebTypeInv
<1>4. CASE Arrives(p)
  <2>1. flight' \in Refreshment \cup {Idle} /\ guard' \in [Guards -> Refreshment \cup {Idle}]
    BY <1>1, <1>4 DEF Arrives
  <2>2. access' \in Token /\ refresh' \in Token /\ socket' \in Connection \cup {Off}
    BY <1>4, TokensSet DEF Arrives
  <2> QED BY <1>4, <2>1, <2>2 DEF Arrives, WebTypeInv
<1> QED BY <1>2, <1>3, <1>4 DEF StepOfRefresh

LEMMA WebTypesKept ==
    ASSUME WebTypeInv, KnownInv, [WebNext]_webVars
    PROVE  WebTypeInv'
<1> USE DEF store, marks
<1>1. family' \in [Families -> Made \cup {Unmade}]
  BY SessionsAreKept
<1>2. Connecting \subseteq People /\ Left \subseteq People
  <2>1. Connecting \subseteq People
    BY SocketKinds DEF Connecting, WebTypeInv
  <2>2. access # Nil => access \in Token /\ Owner(access) \in People
    BY KnownSessions DEF KnownInv, WebTypeInv
  <2> QED BY <2>1, <2>2 DEF Left, WebTypeInv
<1>3. ASSUME NEW g \in Guards, GuardFails(g) PROVE WebTypeInv'
  <2>1. flight' \in Refreshment \cup {Idle} /\ guard' \in [Guards -> Refreshment \cup {Idle}]
    BY <1>3, OneRefresh DEF GuardFails, Refreshers
  <2>2. access' = Nil /\ refresh' = Nil /\ page' = "login" /\ socket' \in Connection \cup {Off}
    BY <1>3, TokensCleared DEF GuardFails
  <2> QED BY <1>1, <1>2, <1>3, <2>1, <2>2 DEF GuardFails, WebTypeInv
<1>4. ASSUME NEW g \in Guards, Navigates(g) PROVE WebTypeInv'
  <2>1. refresh \in Token /\ refresh.family \in Families
    BY <1>4, Tokens DEF Navigates, WebTypeInv
  <2>2. AskFor(refresh) \in Refreshment
    BY <2>1, Refreshments
  <2>3. flight' \in Refreshment \cup {Idle} /\ guard' \in [Guards -> Refreshment \cup {Idle}]
    BY <2>2, <1>4, OneRefresh DEF Navigates, Refreshers
  <2>4. excused' \subseteq Families
    BY <2>1, <1>4 DEF Navigates, WebTypeInv
  <2> QED BY <1>1, <1>4, <2>3, <2>4 DEF Navigates, WebTypeInv
<1>5. CASE FlightFails
  <2>1. flight' \in Refreshment \cup {Idle} /\ guard' \in [Guards -> Refreshment \cup {Idle}]
    BY <1>5, OneRefresh DEF FlightFails, Refreshers
  <2>2. access' = Nil /\ refresh' = Nil /\ page' = "login" /\ socket' \in Connection \cup {Off}
    BY <1>5, TokensCleared DEF FlightFails
  <2>3. cached' \subseteq People /\ outlived' \subseteq People /\ signedOut' \in BOOLEAN
          /\ late' \in BOOLEAN
    BY <1>2, <1>5 DEF FlightFails, WebTypeInv
  <2>4. ended' \subseteq Families
    <3>1. flight.token.family \in Families
      BY <1>5, RefreshTypes DEF FlightFails, Asked, Refreshers, Under
    <3> QED BY <3>1, <1>5 DEF FlightFails, WebTypeInv
  <2> QED BY <1>1, <1>5, <2>1, <2>2, <2>3, <2>4 DEF FlightFails, WebTypeInv
<1>6. ASSUME NEW t \in Token, ServeStray(t) \/ Expire(t) PROVE WebTypeInv'
  <2>1. CASE ServeStray(t)
    <3>1. reused' \subseteq Families
      BY <2>1, Presented DEF ServeStray, KnownInv
    <3> QED BY <1>1, <2>1, <3>1 DEF ServeStray, WebTypeInv
  <2>2. CASE Expire(t)
    BY <1>1, <2>2 DEF Expire, WebTypeInv
  <2> QED BY <1>6, <2>1, <2>2
<1>7. ASSUME NEW f \in Families, RevokeElsewhere(f) PROVE WebTypeInv'
  <2>1. faults' \in 0..MaxFaults
    BY <1>7, SessionsAreCounted DEF RevokeElsewhere, WebTypeInv
  <2> QED BY <1>1, <1>7, <2>1 DEF RevokeElsewhere, WebTypeInv
<1>8. CASE Enter
  BY <1>1, <1>8 DEF Enter, WebTypeInv
<1>9. CASE Reload
  <2>1. faults' \in 0..MaxFaults
    BY <1>9, SessionsAreCounted DEF Reload, WebTypeInv
  <2>2. /\ call' = [k \in Calls |-> Idle] /\ flight' = Idle /\ guard' = [g \in Guards |-> Idle]
        /\ access' = Nil /\ cached' = {} /\ socket' = Off /\ page' = "login" /\ outlived' = {}
        /\ late' = (late /\ signedOut)
        /\ UNCHANGED <<refresh, expired, reused, ended, signedOut>>
    BY <1>9 DEF Reload
  <2>3. \A r \in {flight} \cup {guard[g] : g \in Guards} :
          Under(r) => r.token \in Token /\ r.token.family \in Families
    BY RefreshKinds, Tokens DEF WebTypeInv
  <2>4. stray' \subseteq Token /\ excused' \subseteq Families
    BY <1>9, <2>3 DEF Reload, Under, WebTypeInv
  <2>5. call' \in [Calls -> Asking] /\ late' \in BOOLEAN
    BY <2>2, IdleIsAsking
  <2> QED BY <1>1, <2>1, <2>2, <2>4, <2>5 DEF WebTypeInv
<1>10. CASE SocketOpens
  <2>1. socket' \in Connection \cup {Off}
    BY <1>10, SocketKinds DEF SocketOpens, WebTypeInv, Connection
  <2> QED BY <1>1, <1>10, <2>1 DEF SocketOpens, WebTypeInv
<1>11. CASE UNCHANGED webVars
  BY <1>11 DEF webVars, WebTypeInv
<1> QED BY <1>1, <1>3, <1>4, <1>5, <1>6, <1>7, <1>8, <1>9, <1>10, <1>11, KindsOfStep,
           TypesOfCallSteps, TypesOfRefreshSteps

\* What was known is known, for sessions are kept.
LEMMA StaysKnown ==
    ASSUME WebTypeInv, WebTypeInv', SessionsKept
    PROVE  \A t \in Token : Known(t) => Known(t)' /\ Owner(t)' = Owner(t)
                                          /\ (family[t.family].dead = TRUE => family'[t.family].dead = TRUE)
<1> SUFFICES ASSUME NEW t \in Token, Known(t)
             PROVE  Known(t)' /\ Owner(t)' = Owner(t)
                      /\ (family[t.family].dead = TRUE => family'[t.family].dead = TRUE)
  OBVIOUS
<1>1. t.family \in Families /\ t.n \in 1..MaxTokens /\ family[t.family].live \in 1..MaxTokens
  BY Tokens, KnownSessions
<1>2. family'[t.family].live \in 0..MaxTokens
  BY <1>1, FamilyKinds DEF WebTypeInv
<1>3. Kept(t.family)
  BY <1>1 DEF SessionsKept
<1> QED BY <1>1, <1>2, <1>3, SessionsAreCounted DEF Kept, Known, Owner

\* What any step may do to one refresh, and to one request.
RefreshMoves(p) ==
    \/ Asked(p)' = Asked(p)
    \/ Asked(p)' = Idle
    \/ ~Under(Asked(p)) /\ refresh # Nil /\ Asked(p)' = AskFor(refresh)
    \/ Under(Asked(p)) /\ Asked(p)' = Give(Asked(p), Nil) /\ faults' # 0
    \/ ServeRefresh(p) /\ Asked(p)' = Give(Asked(p), Given(Asked(p).token))
CallMoves(k) ==
    \/ call'[k] = call[k]
    \/ call'[k] = Idle
    \/ Sends(k)
    \/ Serve(k)
    \/ Loses(k)
    \/ call[k].step = "answered" /\ call[k].status = 401 /\ call'[k] = Wait(call[k])
    \/ Under(call[k]) /\ call'[k] = Orphan(call[k])
    \/ /\ call[k].step = "waiting" /\ Arrives(Nil)
       /\ call'[k] = Resent(call[k], Asked(Nil).result)

\* A refresh goes its own way, whatever the step is of.
LEMMA MovesOfRefreshes ==
    ASSUME WebTypeInv, KnownInv, [WebNext]_webVars, NEW p \in Refreshers
    PROVE  RefreshMoves(p)
<1> USE DEF store, marks
<1>1. UNCHANGED <<flight, guard>> => RefreshMoves(p)
  BY DEF RefreshMoves, Asked
<1>2. ASSUME NEW q \in Refreshers, NEW r \in Refreshment \cup {Idle}, Becomes(q, r)
      PROVE  Asked(p)' = IF p = q THEN r ELSE Asked(p)
  BY <1>2, OneRefresh
<1>3. ASSUME NEW k \in Calls, StepOfCall(k) PROVE RefreshMoves(p)
  <2>1. CASE Begins(k)
    <3>1. refresh \in Token /\ AskFor(refresh) \in Refreshment /\ Nil \in Refreshers
            /\ ~Under(Asked(Nil))
      BY <2>1, Refreshments DEF Begins, WebTypeInv, Refreshers, Asked
    <3>2. Asked(p)' = IF p = Nil THEN AskFor(refresh) ELSE Asked(p)
      BY <2>1, <3>1, <1>2 DEF Begins
    <3> QED BY <3>1, <3>2, <2>1 DEF RefreshMoves, Begins
  <2>2. ~Begins(k) => UNCHANGED <<flight, guard>>
    BY <1>3 DEF StepOfCall, Sends, Serve, Loses, ReceivesLogin, ReceivesQuery, GivesUp, Joins,
                ReceivesLogout, LoggedOut
  <2> QED BY <2>1, <2>2, <1>1
<1>4. ASSUME NEW q \in Refreshers, StepOfRefresh(q) PROVE RefreshMoves(p)
  <2>1. CASE ServeRefresh(q)
    <3>1. /\ Asked(q) \in Refreshment /\ Asked(q).token \in Token /\ Known(Asked(q).token)
          /\ Present(Asked(q).token)
      BY <2>1, RefreshTypes DEF ServeRefresh, Under, KnownInv
    <3>2. Give(Asked(q), Given(Asked(q).token)) \in Refreshment
      BY <3>1, Presented, Refreshments
    <3>3. Asked(p)' = IF p = q THEN Give(Asked(q), Given(Asked(q).token)) ELSE Asked(p)
      BY <2>1, <3>2, <1>2 DEF ServeRefresh
    <3> QED BY <2>1, <3>3 DEF RefreshMoves
  <2>2. CASE LoseRefresh(q)
    <3>1. Give(Asked(q), Nil) \in Refreshment
      BY <2>2, RefreshTypes, Refreshments DEF LoseRefresh
    <3>2. Asked(p)' = IF p = q THEN Give(Asked(q), Nil) ELSE Asked(p)
      BY <2>2, <3>1, <1>2 DEF LoseRefresh
    <3>3. faults' # 0
      BY <2>2, SessionsAreCounted DEF LoseRefresh, WebTypeInv
    <3> QED BY <2>2, <3>2, <3>3 DEF RefreshMoves, LoseRefresh
  <2>3. CASE Arrives(q)
    <3>1. Asked(p)' = IF p = q THEN Idle ELSE Asked(p)
      BY <2>3, <1>2 DEF Arrives
    <3> QED BY <3>1 DEF RefreshMoves
  <2> QED BY <1>4, <2>1, <2>2, <2>3 DEF StepOfRefresh
<1>5. ASSUME NEW g \in Guards, GuardFails(g) PROVE RefreshMoves(p)
  <2>1. Asked(p)' = IF p = g THEN Idle ELSE Asked(p)
    BY <1>5, <1>2 DEF GuardFails, Refreshers
  <2> QED BY <2>1 DEF RefreshMoves
<1>6. ASSUME NEW g \in Guards, Navigates(g) PROVE RefreshMoves(p)
  <2>1. refresh \in Token /\ AskFor(refresh) \in Refreshment /\ g \in Refreshers
          /\ Asked(g) = guard[g]
    BY <1>6, Refreshments, NilIsNoName DEF Navigates, WebTypeInv, Refreshers, Asked
  <2>2. Asked(p)' = IF p = g THEN AskFor(refresh) ELSE Asked(p)
    BY <1>6, <2>1, <1>2 DEF Navigates
  <2> QED BY <1>6, <2>1, <2>2 DEF RefreshMoves, Navigates
<1>7. CASE FlightFails
  <2>1. Asked(p)' = IF p = Nil THEN Idle ELSE Asked(p)
    BY <1>7, <1>2 DEF FlightFails, Refreshers
  <2> QED BY <2>1 DEF RefreshMoves
<1>8. CASE Reload
  BY <1>8 DEF Reload, RefreshMoves, Asked, Refreshers
<1>9. (\E t \in Token : ServeStray(t) \/ Expire(t)) \/ (\E f \in Families : RevokeElsewhere(f))
        \/ Enter \/ SocketOpens \/ UNCHANGED webVars => UNCHANGED <<flight, guard>>
  BY DEF ServeStray, Expire, RevokeElsewhere, Enter, SocketOpens, webVars
<1> QED BY <1>1, <1>3, <1>4, <1>5, <1>6, <1>7, <1>8, <1>9, KindsOfStep

\* And so does a request.
LEMMA MovesOfCalls ==
    ASSUME WebTypeInv, KnownInv, [WebNext]_webVars, NEW k \in Calls
    PROVE  CallMoves(k)
<1> USE DEF store, marks
<1>1. UNCHANGED call => CallMoves(k)
  BY DEF CallMoves
<1>2. ASSUME NEW j \in Calls, NEW d, call' = [call EXCEPT ![j] = d]
      PROVE  call'[k] = IF k = j THEN d ELSE call[k]
  BY <1>2 DEF WebTypeInv
<1>3. ASSUME NEW j \in Calls, StepOfCall(j) PROVE CallMoves(k)
  <2>1. CASE Sends(j) \/ Loses(j)
    <3>1. k # j => call'[k] = call[k]
      BY <2>1 DEF Sends, Loses, WebTypeInv
    <3> QED BY <2>1, <3>1 DEF CallMoves
  <2>2. CASE Serve(j)
    <3>1. k # j => call'[k] = call[k]
      BY <2>2, Served
    <3> QED BY <2>2, <3>1 DEF CallMoves
  <2>3. CASE ReceivesLogin(j) \/ ReceivesQuery(j) \/ GivesUp(j)
    <3>1. call' = [call EXCEPT ![j] = Idle]
      BY <2>3 DEF ReceivesLogin, ReceivesQuery, GivesUp
    <3> QED BY <3>1, <1>2 DEF CallMoves
  <2>4. CASE Joins(j) \/ Begins(j)
    <3>1. call' = [call EXCEPT ![j] = Wait(call[j])] /\ call[j].step = "answered"
            /\ call[j].status = 401
      BY <2>4 DEF Joins, Begins
    <3> QED BY <3>1, <1>2 DEF CallMoves
  <2>5. CASE ReceivesLogout(j)
    BY <2>5 DEF ReceivesLogout, SameCall, CallMoves
  <2> QED BY <1>3, <2>1, <2>2, <2>3, <2>4, <2>5 DEF StepOfCall
<1>4. ASSUME NEW p \in Refreshers, StepOfRefresh(p) PROVE CallMoves(k)
  <2>1. CASE Arrives(p)
    <3>1. CASE p = Nil
      BY <2>1, <3>1 DEF Arrives, CallMoves
    <3>2. CASE p # Nil
      BY <2>1, <3>2 DEF Arrives, CallMoves
    <3> QED BY <3>1, <3>2
  <2>2. CASE ServeRefresh(p) \/ LoseRefresh(p)
    BY <2>2, <1>1 DEF ServeRefresh, LoseRefresh
  <2> QED BY <1>4, <2>1, <2>2 DEF StepOfRefresh
<1>5. CASE FlightFails
  BY <1>5 DEF FlightFails, SameCall, CallMoves
<1>6. CASE Reload
  BY <1>6 DEF Reload, CallMoves
<1>7. (\E t \in Token : ServeStray(t) \/ Expire(t)) \/ (\E f \in Families : RevokeElsewhere(f))
        \/ (\E g \in Guards : GuardFails(g) \/ Navigates(g))
        \/ Enter \/ SocketOpens \/ UNCHANGED webVars => UNCHANGED call
  BY DEF ServeStray, Expire, RevokeElsewhere, Enter, SocketOpens, webVars, GuardFails, Navigates
<1> QED BY <1>1, <1>3, <1>4, <1>5, <1>6, <1>7, KindsOfStep

\* What one refresh, and one request, hold that is known.
RefreshKnows(p) ==
    Under(Asked(p)) =>
      /\ Known(Asked(p).token)
      /\ Asked(p).result # Nil =>
           Known(Asked(p).result) /\ Asked(p).result.family = Asked(p).token.family
CallKnows(k) ==
    Under(call[k]) =>
      /\ call[k].access # Nil => Known(call[k].access)
      /\ call[k].kind = "logout" => Known(call[k].body)
      /\ LoginAnswer(k) => Known(call[k].body)

\* What is known stays known: in the store, the refreshes and the requests.
LEMMA StoreStaysKnown ==
    ASSUME WebTypeInv, WebTypeInv', KnownInv, [WebNext]_webVars
    PROVE  /\ access' # Nil => Known(access)'
           /\ refresh' # Nil => Known(refresh)'
<1> USE DEF store, marks
<1>1. \A t \in Token : Known(t) => Known(t)'
  BY SessionsAreKept, StaysKnown
<1>2. access \in Token \cup {Nil} /\ refresh \in Token \cup {Nil}
  BY DEF WebTypeInv
<1>3. access' \in {access, Nil} /\ refresh' \in {refresh, Nil}
        => (access' # Nil => Known(access)') /\ (refresh' # Nil => Known(refresh)')
  <2> SUFFICES ASSUME access' \in {access, Nil}, refresh' \in {refresh, Nil}
               PROVE  (access' # Nil => Known(access)') /\ (refresh' # Nil => Known(refresh)')
    OBVIOUS
  <2>1. \A t \in Token : access = t \/ refresh = t => Known(t)'
    BY <1>1, Tokens DEF KnownInv
  <2> QED BY <2>1, <1>2 DEF Known
<1>4. ASSUME NEW t \in Token, Known(t), SetTokens(t)
      PROVE  Known(access)' /\ Known(refresh)'
  <2>1. access' = t /\ refresh' = t /\ Known(t)'
    BY <1>1, <1>4, TokensSet
  <2> QED BY <2>1 DEF Known
<1>5. ASSUME NEW k \in Calls, StepOfCall(k)
      PROVE  (access' # Nil => Known(access)') /\ (refresh' # Nil => Known(refresh)')
  <2>1. CASE ReceivesLogin(k)
    BY <2>1, <1>4 DEF ReceivesLogin
  <2>2. ~ReceivesLogin(k) => access' \in {access, Nil} /\ refresh' \in {refresh, Nil}
    BY <1>5 DEF StepOfCall, Sends, Serve, Loses, ReceivesQuery, GivesUp, Joins, Begins,
                ReceivesLogout, LoggedOut, Clear
  <2> QED BY <2>1, <2>2, <1>3
<1>6. ASSUME NEW p \in Refreshers, StepOfRefresh(p)
      PROVE  (access' # Nil => Known(access)') /\ (refresh' # Nil => Known(refresh)')
  <2>1. CASE Arrives(p)
    BY <2>1, <1>4 DEF Arrives
  <2>2. ~Arrives(p) => access' \in {access, Nil} /\ refresh' \in {refresh, Nil}
    BY <1>6 DEF StepOfRefresh, ServeRefresh, LoseRefresh
  <2> QED BY <2>1, <2>2, <1>3
<1>7. (\E g \in Guards : GuardFails(g) \/ Navigates(g)) \/ FlightFails
        \/ (\E t \in Token : ServeStray(t) \/ Expire(t)) \/ (\E f \in Families : RevokeElsewhere(f))
        \/ Enter \/ Reload \/ SocketOpens \/ UNCHANGED webVars
        => access' \in {access, Nil} /\ refresh' \in {refresh, Nil}
  BY DEF GuardFails, Navigates, FlightFails, Clear, ServeStray, Expire, RevokeElsewhere, Enter,
         Reload, SocketOpens, webVars
<1> QED BY <1>3, <1>5, <1>6, <1>7, KindsOfStep

LEMMA RefreshesStayKnown ==
    ASSUME WebTypeInv, WebTypeInv', KnownInv, [WebNext]_webVars, NEW p \in Refreshers
    PROVE  RefreshKnows(p)'
<1>1. \A t \in Token : Known(t) => Known(t)'
  BY SessionsAreKept, StaysKnown
<1>2. ASSUME NEW r \in Refreshment, Asked(p)' = r, Known(r.token)',
             r.result # Nil => Known(r.result)' /\ r.result.family = r.token.family
      PROVE  RefreshKnows(p)'
  BY <1>2 DEF RefreshKnows, Known
<1>3. Under(Asked(p)) =>
        /\ Asked(p) \in Refreshment /\ Asked(p).token \in Token
        /\ Asked(p).result \in Token \cup {Nil} /\ Known(Asked(p).token)
        /\ Asked(p).result # Nil =>
             Known(Asked(p).result) /\ Asked(p).result.family = Asked(p).token.family
  BY RefreshTypes DEF KnownInv
<1>4. CASE Asked(p)' = Asked(p)
  <2>1. CASE Under(Asked(p))
    <3>1. PICK r \in Refreshment : r = Asked(p)
      BY <2>1, <1>3
    <3> QED BY <1>1, <1>2, <1>3, <1>4, <2>1, <3>1
  <2>2. CASE ~Under(Asked(p))
    BY <1>4, <2>2 DEF RefreshKnows, Under
  <2> QED BY <2>1, <2>2
<1>5. CASE Asked(p)' = Idle
  BY <1>5 DEF RefreshKnows, Under, Idle
<1>6. CASE refresh # Nil /\ Asked(p)' = AskFor(refresh)
  <2>1. refresh \in Token /\ Known(refresh)
    BY <1>6 DEF KnownInv, WebTypeInv
  <2>2. PICK r \in Refreshment : r = AskFor(refresh) /\ r.token = refresh /\ r.result = Nil
    BY <2>1, Refreshments
  <2>3. PICK t \in Token : t = refresh
    BY <2>1
  <2>4. r.token = t /\ Known(t)'
    BY <2>1, <2>2, <2>3, <1>1
  <2> QED BY <1>2, <1>6, <2>2, <2>4
<1>7. CASE Under(Asked(p)) /\ Asked(p)' = Give(Asked(p), Nil)
  <2>1. PICK r \in Refreshment : r = Give(Asked(p), Nil) /\ r.token = Asked(p).token /\ r.result = Nil
    BY <1>3, <1>7, Refreshments
  <2>2. Known(r.token)'
    BY <2>1, <1>1, <1>3, <1>7
  <2> QED BY <1>2, <1>7, <2>1, <2>2
<1>8. CASE ServeRefresh(p) /\ Asked(p)' = Give(Asked(p), Given(Asked(p).token))
  <2>1. Under(Asked(p)) /\ Present(Asked(p).token)
    BY <1>8 DEF ServeRefresh, Under
  <2> DEFINE t == Asked(p).token
             v == Given(t)
  <2>2. v \in Token \cup {Nil} /\ (v # Nil => v.family = t.family /\ v.n = family'[t.family].live)
    <3>1. \/ t.n = family[t.family].live /\ v \in Token /\ v.family = t.family
               /\ v.n = family[t.family].live + 1
               /\ family'[t.family].live = family[t.family].live + 1
          \/ v = Nil
      BY <2>1, <1>3, Presented
    <3> QED BY <3>1, Tokens
  <2>3. PICK w \in Token \cup {Nil} : w = v
    BY <2>2
  <2>4. PICK r \in Refreshment : r = Give(Asked(p), w) /\ r.token = t /\ r.result = w
    BY <2>1, <1>3, Refreshments
  <2>5. Known(r.token)'
    BY <2>1, <2>4, <1>1, <1>3
  <2>6. w # Nil => Known(w)'
    <3> SUFFICES ASSUME w # Nil PROVE Known(w)'
      OBVIOUS
    <3>1. w \in Token /\ w.family = t.family /\ w.n = family'[w.family].live /\ w.n \in 1..MaxTokens
      BY <2>2, <2>3, Tokens
    <3> QED BY <3>1, SessionsAreCounted DEF Known
  <2>7. w # Nil => w.family = r.token.family
    BY <2>2, <2>3, <2>4
  <2> QED BY <1>2, <1>8, <2>3, <2>4, <2>5, <2>6, <2>7
<1> QED BY <1>4, <1>5, <1>6, <1>7, <1>8, MovesOfRefreshes DEF RefreshMoves

LEMMA CallsStayKnown ==
    ASSUME WebTypeInv, WebTypeInv', KnownInv, [WebNext]_webVars, NEW k \in Calls
    PROVE  CallKnows(k)'
<1>1. \A t \in Token : Known(t) => Known(t)'
  BY SessionsAreKept, StaysKnown
<1>2. ASSUME NEW d \in Call, call'[k] = d, d.access # Nil => Known(d.access)',
             d.kind = "logout" => Known(d.body)',
             d.step = "answered" /\ d.kind \in Logins /\ d.status = 200 => Known(d.body)'
      PROVE  CallKnows(k)'
  BY <1>2 DEF CallKnows, LoginAnswer, Known
\* A request that goes on with the body and the access token it has.
<1>3. ASSUME NEW d \in Call, call'[k] = d, Under(call[k]), d.kind = call[k].kind,
             d.body = call[k].body, d.access = call[k].access,
             d.step = "answered" /\ d.status = 200 => call[k].step = "answered" /\ call[k].status = 200
      PROVE  CallKnows(k)'
  <2>1. PICK c \in Call : c = call[k]
    BY <1>3, CallTypes
  <2>2. /\ c.access \in Token \cup {Nil} /\ BodyIsOfItsKind(c)
        /\ c.access # Nil => Known(c.access)
        /\ c.kind = "logout" => Known(c.body)
        /\ c.step = "answered" /\ c.kind \in Logins /\ c.status = 200 => Known(c.body)
    BY <1>3, <2>1, CallTypes DEF KnownInv, LoginAnswer
  <2>3. d.access # Nil => Known(d.access)'
    BY <1>1, <1>3, <2>1, <2>2
  <2>4. d.kind = "logout" => Known(d.body)'
    BY <1>1, <1>3, <2>1, <2>2 DEF BodyIsOfItsKind
  <2>5. d.step = "answered" /\ d.kind \in Logins /\ d.status = 200 => Known(d.body)'
    BY <1>1, <1>3, <2>1, <2>2 DEF BodyIsOfItsKind
  <2> QED BY <1>2, <1>3, <2>3, <2>4, <2>5
<1>4. CASE call'[k] = call[k]
  <2>1. CASE Under(call[k])
    BY <1>3, <1>4, <2>1, CallTypes
  <2>2. CASE ~Under(call[k])
    BY <1>4, <2>2 DEF CallKnows, Under
  <2> QED BY <2>1, <2>2
<1>5. CASE call'[k] = Idle
  BY <1>5 DEF CallKnows, Under, Idle
<1>6. CASE Sends(k)
  <2>1. PICK d \in Call : d = call'[k]
    BY <1>6 DEF Sends
  <2>2. d.step = "sent" /\ d.access = access /\ (d.kind = "logout" => refresh # Nil /\ d.body = refresh)
    BY <2>1, <1>6 DEF Sends
  <2>3. \A t \in Token : t = access \/ t = refresh => Known(t)'
    BY <1>1, Tokens DEF KnownInv
  <2>4. access \in Token \cup {Nil} /\ refresh \in Token \cup {Nil}
    BY DEF WebTypeInv
  <2>5. d.access # Nil => Known(d.access)'
    BY <2>2, <2>3, <2>4
  <2>6. d.kind = "logout" => Known(d.body)'
    BY <2>2, <2>3, <2>4
  <2> QED BY <1>2, <2>1, <2>2, <2>5, <2>6
<1>7. CASE Serve(k)
  <2>1. PICK d \in Call : d = call'[k]
    BY <1>7, Served
  <2>2. /\ d.kind = call[k].kind /\ d.access = call[k].access /\ call[k] \in Call
        /\ Under(call[k]) /\ d.step = "answered" /\ d.status \in {200, 401}
        /\ ServedQuery(k) \/ ServedLogout(k) \/ ServedLogin(k)
    BY <1>7, <2>1, Served DEF Under
  <2>3. CASE ServedLogin(k) /\ d.status = 200
    <3>1. d.body \in Token /\ d.body.n = 1 /\ family'[d.body.family].live = 1 /\ d.kind \in Logins
      BY <2>1, <2>2, <2>3 DEF ServedLogin
    <3>2. Known(d.body)'
      BY <3>1 DEF Known
    <3>3. PICK c \in Call : c = call[k] /\ c.access \in Token \cup {Nil}
                             /\ (c.access # Nil => Known(c.access))
      BY <2>2, CallTypes DEF KnownInv
    <3>4. d.access # Nil => Known(d.access)'
      BY <1>1, <2>2, <3>3
    <3>5. d.kind # "logout"
      BY <3>1 DEF Logins
    <3> QED BY <1>2, <2>1, <3>2, <3>4, <3>5
  <2>4. CASE ~(ServedLogin(k) /\ d.status = 200)
    <3>1. PICK c \in Call : c = call[k] /\ c.access \in Token \cup {Nil}
                             /\ (c.access # Nil => Known(c.access)) /\ BodyIsOfItsKind(c)
                             /\ (c.kind = "logout" => Known(c.body))
      BY <2>2, CallTypes DEF KnownInv
    <3>2. d.access # Nil => Known(d.access)'
      BY <1>1, <2>2, <3>1
    <3>3. d.kind = "logout" => Known(d.body)'
      <4> SUFFICES ASSUME d.kind = "logout" PROVE Known(d.body)'
        OBVIOUS
      <4>1. d.body = c.body /\ c.kind = "logout"
        BY <2>1, <2>2, <3>1 DEF ServedLogout, ServedQuery, ServedLogin, Logins
      <4> QED BY <4>1, <3>1, <1>1 DEF BodyIsOfItsKind
    <3>4. ~(d.kind \in Logins /\ d.status = 200)
      BY <2>2, <2>4 DEF ServedLogout, ServedQuery, Logins
    <3> QED BY <1>2, <2>1, <3>2, <3>3, <3>4
  <2> QED BY <2>3, <2>4
<1>8. CASE Loses(k)
  <2>1. PICK d \in Call : d = call'[k]
    BY <1>8 DEF Loses
  <2>2. Under(call[k]) /\ d.kind = call[k].kind /\ d.body = call[k].body
          /\ d.access = call[k].access /\ d.status = 0
    BY <1>8, <2>1 DEF Loses, Under
  <2> QED BY <1>3, <2>1, <2>2
<1>9. CASE call[k].step = "answered" /\ call'[k] = Wait(call[k])
  <2>1. call[k] \in Call /\ Under(call[k])
    BY <1>9, CallTypes DEF Under
  <2>2. /\ Wait(call[k]) \in Call /\ Wait(call[k]).step = "waiting"
        /\ Wait(call[k]).access = call[k].access /\ Wait(call[k]).body = call[k].body
        /\ Wait(call[k]).kind = call[k].kind
    BY <2>1, Waits
  <2> QED BY <1>3, <1>9, <2>1, <2>2
<1>10. CASE Under(call[k]) /\ call'[k] = Orphan(call[k])
  <2>1. /\ Orphan(call[k]) \in Call /\ Orphan(call[k]).step = call[k].step
        /\ Orphan(call[k]).access = call[k].access /\ Orphan(call[k]).body = call[k].body
        /\ Orphan(call[k]).kind = call[k].kind /\ Orphan(call[k]).status = call[k].status
    <3>1. call[k] \in Call
      BY <1>10, CallTypes
    <3> QED BY <3>1, Orphans
  <2> QED BY <1>3, <1>10, <2>1
<1>11. CASE call[k].step = "waiting" /\ Arrives(Nil) /\ call'[k] = Resent(call[k], Asked(Nil).result)
  <2>1. PICK t \in Token : t = Asked(Nil).result /\ Known(t)
    BY <1>11 DEF Arrives
  <2>2. PICK c \in Call : c = call[k] /\ BodyIsOfItsKind(c) /\ (c.kind = "logout" => Known(c.body))
    BY <1>11, CallTypes DEF Under, KnownInv
  <2>3. PICK d \in Call : d = Resent(c, t) /\ d.step = "sent" /\ d.access = t
                            /\ d.body = c.body /\ d.kind = c.kind
    BY Resends
  <2>4. call'[k] = d /\ Known(d.access)'
    BY <1>1, <1>11, <2>1, <2>2, <2>3
  <2>5. d.kind = "logout" => Known(d.body)'
    BY <1>1, <2>2, <2>3 DEF BodyIsOfItsKind
  <2> QED BY <1>2, <2>3, <2>4, <2>5
<1> QED BY <1>4, <1>5, <1>6, <1>7, <1>8, <1>9, <1>10, <1>11, MovesOfCalls DEF CallMoves

\* Tokens on their way that nobody waits for were those of refreshes.
LEMMA KnownKept ==
    ASSUME WebTypeInv, WebTypeInv', KnownInv, [WebNext]_webVars
    PROVE  KnownInv'
<1>1. \A t \in stray' : Known(t)'
  <2>1. \A t \in Token : Known(t) => Known(t)'
    BY SessionsAreKept, StaysKnown
  <2>2. stray \subseteq Token /\ \A t \in stray : Known(t)
    BY DEF KnownInv, WebTypeInv
  <2>3. CASE Reload
    <3>1. \A r \in {flight} \cup {guard[g] : g \in Guards} :
            r.step = "sent" => r.token \in Token /\ Known(r.token)
      <4> SUFFICES ASSUME NEW p \in Refreshers, Asked(p).step = "sent"
                   PROVE  Asked(p).token \in Token /\ Known(Asked(p).token)
        BY NilIsNoName DEF Asked, Refreshers
      <4> QED BY RefreshTypes DEF KnownInv, Under
    <3> QED BY <2>1, <2>2, <2>3, <3>1 DEF Reload
  <2>4. ~Reload => stray' \subseteq stray
    <3>1. \A k \in Calls : StepOfCall(k) => UNCHANGED stray
      <4>1. \A k \in Calls : Sends(k) \/ Serve(k) \/ Loses(k) \/ ReceivesLogin(k) => UNCHANGED stray
        BY DEF Sends, Serve, Loses, ReceivesLogin
      <4>2. \A k \in Calls : ReceivesQuery(k) \/ GivesUp(k) \/ Joins(k) \/ Begins(k) => UNCHANGED stray
        BY DEF ReceivesQuery, GivesUp, Joins, Begins
      <4>3. \A k \in Calls : ReceivesLogout(k) => UNCHANGED stray
        BY DEF ReceivesLogout, LoggedOut
      <4> QED BY <4>1, <4>2, <4>3 DEF StepOfCall
    <3>2. \A p \in Refreshers : StepOfRefresh(p) => UNCHANGED stray
      BY DEF StepOfRefresh, ServeRefresh, LoseRefresh, Arrives
    <3>3. \A g \in Guards : GuardFails(g) \/ Navigates(g) => UNCHANGED stray
      BY DEF GuardFails, Navigates
    <3>4. FlightFails \/ Enter \/ SocketOpens \/ UNCHANGED webVars
            \/ (\E f \in Families : RevokeElsewhere(f)) => UNCHANGED stray
      BY DEF FlightFails, Enter, SocketOpens, webVars, RevokeElsewhere
    <3>5. \A t \in Token : ServeStray(t) \/ Expire(t) => stray' \subseteq stray
      BY DEF ServeStray, Expire
    <3> QED BY <3>1, <3>2, <3>3, <3>4, <3>5, KindsOfStep
  <2> QED BY <2>1, <2>2, <2>3, <2>4
<1>2. \A p \in Refreshers : RefreshKnows(p)'
  BY RefreshesStayKnown
<1>3. \A k \in Calls : CallKnows(k)'
  BY CallsStayKnown
<1> QED BY <1>1, <1>2, <1>3, StoreStaysKnown DEF KnownInv, RefreshKnows, CallKnows

-----------------------------------------------------------------------------
(* The token store, and who has logged out.                                *)

\* The two tokens are of one pair, and the shell is shown with an access token.
StoreInv ==
    /\ access # Nil => access = refresh
    /\ page = "shell" => access # Nil

\* Who has logged out has no tokens and waits for none.
OutInv ==
    signedOut /\ ~late =>
      access = Nil /\ refresh = Nil /\ \A p \in Refreshers : ~Under(Asked(p))

\* Refreshing speaks of the interceptor and of the navigations.
LEMMA RefreshingIsAsked == Refreshing <=> \E p \in Refreshers : Under(Asked(p))
<1>1. Refreshing => \E p \in Refreshers : Under(Asked(p))
  <2>1. Under(flight) => Nil \in Refreshers /\ Under(Asked(Nil))
    BY DEF Refreshers, Asked
  <2>2. \A g \in Guards : Under(guard[g]) => g \in Refreshers /\ Under(Asked(g))
    BY NilIsNoName DEF Refreshers, Asked
  <2> QED BY <2>1, <2>2 DEF Refreshing
<1>2. \A p \in Refreshers : Under(Asked(p)) => Refreshing
  BY DEF Refreshing, Refreshers, Asked
<1> QED BY <1>1, <1>2

\* Clear and SetTokens write both tokens; a reload forgets the one in memory and
\* leaves the shell.
LEMMA StoreKept ==
    ASSUME WebTypeInv, KnownInv, StoreInv, [WebNext]_webVars
    PROVE  StoreInv'
<1> USE DEF store, marks
<1>1. UNCHANGED <<access, refresh, page>> => StoreInv'
  BY DEF StoreInv
<1>2. ASSUME Clear PROVE StoreInv'
  BY <1>2 DEF Clear, StoreInv
<1>3. ASSUME NEW k \in Calls, StepOfCall(k) PROVE StoreInv'
  <2>1. CASE ReceivesLogin(k)
    BY <2>1, Tokens, TokensSet DEF ReceivesLogin, StoreInv
  <2>2. CASE ReceivesLogout(k)
    BY <2>2, <1>2 DEF ReceivesLogout, LoggedOut
  <2>3. ~ReceivesLogin(k) /\ ~ReceivesLogout(k) => UNCHANGED <<access, refresh, page>>
    BY <1>3 DEF StepOfCall, Sends, Serve, Loses, ReceivesQuery, GivesUp, Joins, Begins
  <2> QED BY <2>1, <2>2, <2>3, <1>1
<1>4. ASSUME NEW p \in Refreshers, StepOfRefresh(p) PROVE StoreInv'
  <2>1. CASE Arrives(p)
    BY <2>1, Tokens, TokensSet DEF Arrives, StoreInv
  <2>2. ~Arrives(p) => UNCHANGED <<access, refresh, page>>
    BY <1>4 DEF StepOfRefresh, ServeRefresh, LoseRefresh
  <2> QED BY <2>1, <2>2, <1>1
<1>5. ASSUME NEW g \in Guards, GuardFails(g) \/ Navigates(g) PROVE StoreInv'
  BY <1>2, <1>5 DEF GuardFails, Navigates, StoreInv
<1>6. FlightFails => StoreInv'
  BY <1>2 DEF FlightFails
<1>7. Enter \/ Reload => StoreInv'
  BY DEF Enter, Reload, StoreInv
<1>8. (\E t \in Token : ServeStray(t) \/ Expire(t)) \/ (\E f \in Families : RevokeElsewhere(f))
        \/ SocketOpens \/ UNCHANGED webVars => UNCHANGED <<access, refresh, page>>
  BY DEF ServeStray, Expire, RevokeElsewhere, SocketOpens, webVars
<1> QED BY <1>1, <1>3, <1>4, <1>5, <1>6, <1>7, <1>8, KindsOfStep

\* A refresh begins with a stored token only, and none is stored.
LEMMA OutKept ==
    ASSUME WebTypeInv, KnownInv, OutInv, [WebNext]_webVars
    PROVE  OutInv'
<1> USE DEF store, marks
\* With no tokens and no refresh under way none begins.
<1>2. ASSUME signedOut' = signedOut, late' = late, UNCHANGED <<access, refresh>> PROVE OutInv'
  <2> SUFFICES ASSUME signedOut, ~late, NEW p \in Refreshers PROVE ~Under(Asked(p)')
    BY <1>2 DEF OutInv, Under
  <2>1. refresh = Nil /\ ~Under(Asked(p))
    BY DEF OutInv
  <2>2. Asked(p)' = Asked(p) \/ Asked(p)' = Idle
    BY <2>1, MovesOfRefreshes DEF RefreshMoves, ServeRefresh, Under
  <2> QED BY <2>1, <2>2 DEF Under, Idle
<1>3. ASSUME NEW k \in Calls, StepOfCall(k) PROVE OutInv'
  <2>1. CASE ReceivesLogin(k)
    BY <2>1 DEF ReceivesLogin, OutInv
  <2>2. CASE ReceivesLogout(k)
    <3>1. Clear /\ late' = (late \/ Refreshing) /\ UNCHANGED <<flight, guard>>
      BY <2>2 DEF ReceivesLogout, LoggedOut
    <3>2. ~late' => \A p \in Refreshers : ~Under(Asked(p)')
      BY <3>1, RefreshingIsAsked DEF Asked
    <3> QED BY <3>1, <3>2 DEF Clear, OutInv, Under
  <2>3. ~ReceivesLogin(k) /\ ~ReceivesLogout(k)
          => signedOut' = signedOut /\ late' = late /\ UNCHANGED <<access, refresh>>
    BY <1>3 DEF StepOfCall, Sends, Serve, Loses, ReceivesQuery, GivesUp, Joins, Begins
  <2> QED BY <2>1, <2>2, <2>3, <1>2
<1>4. ASSUME NEW p \in Refreshers, StepOfRefresh(p) PROVE OutInv'
  <2>1. CASE Arrives(p)
    <3>1. Under(Asked(p)) /\ signedOut' = signedOut /\ late' = late
      BY <2>1 DEF Arrives, Under
    <3> QED BY <3>1 DEF OutInv
  <2>2. ~Arrives(p) => signedOut' = signedOut /\ late' = late /\ UNCHANGED <<access, refresh>>
    BY <1>4 DEF StepOfRefresh, ServeRefresh, LoseRefresh
  <2> QED BY <2>1, <2>2, <1>2
<1>5. ASSUME NEW g \in Guards, GuardFails(g) PROVE OutInv'
  <2>1. Under(Asked(g)) /\ g \in Refreshers
    BY <1>5, NilIsNoName DEF GuardFails, Asked, Refreshers, Under
  <2> QED BY <1>5, <2>1 DEF GuardFails, OutInv
<1>6. CASE FlightFails
  <2>1. late' = (late \/ \E g \in Guards : Under(guard[g])) /\ Clear /\ Becomes(Nil, Idle)
    BY <1>6 DEF FlightFails
  <2>2. ~late' => \A p \in Refreshers : ~Under(Asked(p)')
    BY <2>1, IdleIsAsking, NilIsNoName DEF Asked, Becomes, Refreshers
  <2> QED BY <2>1, <2>2 DEF Clear, OutInv, Under
<1>7. CASE Reload
  <2>1. /\ signedOut' = signedOut /\ late' = (late /\ signedOut) /\ access' = Nil
        /\ refresh' = refresh /\ flight' = Idle /\ guard' = [g \in Guards |-> Idle]
    BY <1>7 DEF Reload
  <2>2. \A p \in Refreshers : ~Under(Asked(p)')
    BY <2>1, IdleIsAsking DEF Asked, Refreshers
  <2>3. signedOut /\ ~late' => refresh = Nil
    BY <2>1 DEF OutInv
  <2> QED BY <2>1, <2>2, <2>3 DEF OutInv, Under
<1>8. (\E t \in Token : ServeStray(t) \/ Expire(t)) \/ (\E f \in Families : RevokeElsewhere(f))
        \/ Enter \/ SocketOpens \/ (\E g \in Guards : Navigates(g)) \/ UNCHANGED webVars
        => signedOut' = signedOut /\ late' = late /\ UNCHANGED <<access, refresh>>
  BY DEF ServeStray, Expire, RevokeElsewhere, SocketOpens, Enter, Navigates, webVars
<1> QED BY <1>2, <1>3, <1>4, <1>5, <1>6, <1>7, <1>8, KindsOfStep

-----------------------------------------------------------------------------
(* A tab is of one person.                                                 *)

\* Whose data may be seen: of the session's person, and what outlived another's.
Holder == IF access = Nil THEN {} ELSE {Owner(access)}
Seen == outlived \cup Holder

\* A request that is not orphaned brings the data of a person who may be seen.
Fits(k) ==
    Asks(k, "query") /\ call[k].orphan # TRUE =>
      /\ call[k].step = "sent" /\ call[k].access # Nil => Owner(call[k].access) \in Seen
      /\ call[k].step = "answered" /\ call[k].status = 200 => call[k].body \in Seen

\* The refreshes under way are of one person, who is the session's.
OnePerson ==
    /\ \A p, q \in Refreshers : Under(Asked(p)) /\ Under(Asked(q))
                                  => Owner(Asked(p).token) = Owner(Asked(q).token)
    /\ \A p \in Refreshers : Under(Asked(p)) /\ refresh # Nil
                               => Owner(Asked(p).token) = Owner(refresh)
OneTab ==
    /\ cached \subseteq Seen
    /\ socket.step # "off" => socket.user \in Seen
    /\ \A k \in Calls : Fits(k)
TabInv == ~late => OnePerson /\ OneTab

\* The owner of a token that is known stays so.
LEMMA OwnersStay ==
    ASSUME WebTypeInv, KnownInv, [WebNext]_webVars
    PROVE  \A t \in Token : Known(t) => Owner(t)' = Owner(t)
BY WebTypesKept, SessionsAreKept, StaysKnown

\* Where the tokens of a step come from: the store, and the refreshes under way.
LEMMA TokensOfStep ==
    ASSUME WebTypeInv, KnownInv, [WebNext]_webVars, NEW p \in Refreshers, Under(Asked(p)')
    PROVE  \/ Under(Asked(p)) /\ Asked(p)'.token = Asked(p).token
           \/ refresh # Nil /\ Asked(p)'.token = refresh
<1>1. CASE Asked(p)' = Asked(p) \/ Asked(p)' = Idle
  BY <1>1, IdleIsAsking
<1>2. CASE refresh # Nil /\ Asked(p)' = AskFor(refresh)
  BY <1>2, Refreshments DEF WebTypeInv
<1>3. CASE Under(Asked(p)) /\ Asked(p)' = Give(Asked(p), Nil)
  BY <1>3, RefreshTypes, Refreshments
<1>4. CASE ServeRefresh(p) /\ Asked(p)' = Give(Asked(p), Given(Asked(p).token))
  <2>1. Under(Asked(p)) /\ Asked(p) \in Refreshment /\ Asked(p).token \in Token
          /\ Known(Asked(p).token) /\ Present(Asked(p).token)
    BY <1>4, RefreshTypes DEF ServeRefresh, Under, KnownInv
  <2>2. Given(Asked(p).token) \in Token \cup {Nil}
    BY <2>1, Presented
  <2> QED BY <1>4, <2>1, <2>2, Refreshments
<1> QED BY <1>1, <1>2, <1>3, <1>4, MovesOfRefreshes DEF RefreshMoves

\* A refresh that begins is of the stored token, and is answered with one of its
\* session.
LEMMA OnePersonKept ==
    ASSUME WebTypeInv, KnownInv, OnePerson, [WebNext]_webVars,
           refresh' \in {refresh, Nil} \/ \E p \in Refreshers : Arrives(p)
    PROVE  OnePerson'
<1>1. \A t \in Token : Known(t) => Owner(t)' = Owner(t)
  BY OwnersStay
<1>2. refresh # Nil => refresh \in Token /\ Known(refresh)
  BY DEF WebTypeInv, KnownInv
<1>3. \A p \in Refreshers : Under(Asked(p)) => Asked(p).token \in Token /\ Known(Asked(p).token)
  BY RefreshTypes DEF KnownInv
<1>4. ASSUME NEW p \in Refreshers, Under(Asked(p)')
      PROVE  \E t \in Token : /\ Asked(p)'.token = t /\ Owner(t)' = Owner(t)
                              /\ \/ refresh = t
                                 \/ Under(Asked(p)) /\ Asked(p).token = t
  BY <1>1, <1>2, <1>3, <1>4, TokensOfStep
<1>5. ASSUME refresh' # Nil
      PROVE  \E t \in Token : /\ refresh' = t /\ Owner(t)' = Owner(t)
                              /\ \/ refresh = t
                                 \/ \E p \in Refreshers : Under(Asked(p)) /\ Owner(Asked(p).token) = Owner(t)
  <2>1. CASE refresh' \in {refresh, Nil}
    BY <1>1, <1>2, <1>5, <2>1
  <2>2. CASE \E p \in Refreshers : Arrives(p)
    <3>1. PICK p \in Refreshers : Arrives(p)
      BY <2>2
    <3>2. PICK t \in Token : t = Asked(p).result
      BY <3>1 DEF Arrives
    <3>3. refresh' = t /\ Known(t) /\ Under(Asked(p)) /\ Owner(Asked(p).token) = Owner(t)
      BY <3>1, <3>2, TokensSet DEF Arrives, Under, Owner
    <3> QED BY <1>1, <3>3
  <2> QED BY <2>1, <2>2
<1>6. ASSUME NEW p \in Refreshers, NEW q \in Refreshers, Under(Asked(p)'), Under(Asked(q)')
      PROVE  Owner(Asked(p).token)' = Owner(Asked(q).token)'
  <2>1. PICK t \in Token : /\ Asked(p)'.token = t /\ Owner(t)' = Owner(t)
                           /\ refresh = t \/ (Under(Asked(p)) /\ Asked(p).token = t)
    BY <1>4, <1>6
  <2>2. PICK u \in Token : /\ Asked(q)'.token = u /\ Owner(u)' = Owner(u)
                           /\ refresh = u \/ (Under(Asked(q)) /\ Asked(q).token = u)
    BY <1>4, <1>6
  <2>3. Owner(t) = Owner(u)
    BY <2>1, <2>2, Tokens DEF OnePerson
  <2> QED BY <2>1, <2>2, <2>3 DEF Owner
<1>7. ASSUME NEW p \in Refreshers, Under(Asked(p)'), refresh' # Nil
      PROVE  Owner(Asked(p).token)' = Owner(refresh)'
  <2>1. PICK t \in Token : /\ Asked(p)'.token = t /\ Owner(t)' = Owner(t)
                           /\ refresh = t \/ (Under(Asked(p)) /\ Asked(p).token = t)
    BY <1>4, <1>7
  <2>2. PICK u \in Token :
          /\ refresh' = u /\ Owner(u)' = Owner(u)
          /\ \/ refresh = u
             \/ \E q \in Refreshers : Under(Asked(q)) /\ Owner(Asked(q).token) = Owner(u)
    BY <1>5, <1>7
  <2>3. Owner(t) = Owner(u)
    BY <2>1, <2>2, Tokens DEF OnePerson
  <2> QED BY <2>1, <2>2, <2>3 DEF Owner
<1> QED BY <1>6, <1>7 DEF OnePerson, Under

\* As long as nobody is seen no more, the answers of the requests fit.
LEMMA AnswersFit ==
    ASSUME WebTypeInv, KnownInv, StoreInv, [WebNext]_webVars, Seen \subseteq Seen',
           NEW k \in Calls, Fits(k)
    PROVE  Fits(k)'
<1>1. \A t \in Token : Known(t) => Owner(t)' = Owner(t)
  BY OwnersStay
<1>2. CASE call'[k] = call[k]
  <2>1. CASE Asks(k, "query")
    <3>1. call[k].access # Nil => call[k].access \in Token /\ Known(call[k].access)
      BY <2>1, CallTypes DEF Asks, KnownInv
    <3>2. PICK c : c = call[k]
      OBVIOUS
    <3>3. c.access # Nil => Owner(c.access)' = Owner(c.access)
      BY <1>1, <3>1, <3>2
    <3> QED BY <1>2, <3>2, <3>3 DEF Fits, Asks, Under, Owner
  <2>2. CASE ~Asks(k, "query")
    BY <1>2, <2>2 DEF Fits, Asks, Under
  <2> QED BY <2>1, <2>2
<1>3. CASE call'[k] = Idle
  BY <1>3, IdleIsAsking DEF Fits, Asks, Under
<1>4. CASE Sends(k)
  <2>1. call'[k].step = "sent" /\ call'[k].access = access /\ access' = access
          /\ (call'[k].kind = "query" => access # Nil)
    BY <1>4 DEF Sends, StoreInv, store
  <2>2. access # Nil => Owner(access)' \in Seen'
    BY <2>1 DEF Seen, Holder
  <2> QED BY <2>1, <2>2 DEF Fits, Asks, Owner
<1>5. CASE Serve(k)
  <2>1. /\ call'[k].step = "answered" /\ call'[k].kind = call[k].kind
        /\ call'[k].orphan = call[k].orphan /\ Under(call[k]) /\ call[k].step = "sent"
    BY <1>5, Served DEF Under
  <2>2. call'[k].kind = "query" /\ call'[k].status = 200
          => call[k].access # Nil /\ call'[k].body = Owner(call[k].access)
    BY <1>5, <2>1, Served DEF ServedQuery, ServedLogout, ServedLogin, Logins
  <2> QED BY <2>1, <2>2 DEF Fits, Asks
<1>6. CASE Loses(k)
  BY <1>6 DEF Loses, Fits
<1>7. CASE call[k].step = "answered" /\ call'[k] = Wait(call[k])
  <2>1. Wait(call[k]).step = "waiting"
    BY <1>7, CallTypes, Waits DEF Under
  <2> QED BY <1>7, <2>1 DEF Fits
<1>8. CASE Under(call[k]) /\ call'[k] = Orphan(call[k])
  <2>1. Orphan(call[k]).orphan = TRUE
    BY <1>8, CallTypes, Orphans
  <2> QED BY <1>8, <2>1 DEF Fits
<1>9. CASE call[k].step = "waiting" /\ Arrives(Nil) /\ call'[k] = Resent(call[k], Asked(Nil).result)
  <2>1. PICK t \in Token : t = Asked(Nil).result /\ access' = t
    BY <1>9, TokensSet DEF Arrives
  <2>2. call[k] \in Call
    BY <1>9, CallTypes DEF Under
  <2>3. call'[k].step = "sent" /\ call'[k].access = t
    BY <1>9, <2>1, <2>2, Resends
  <2>4. Owner(access)' \in Seen'
    BY <2>1, Tokens DEF Seen, Holder
  <2> QED BY <2>1, <2>3, <2>4 DEF Fits, Owner
<1> QED BY <1>2, <1>3, <1>4, <1>5, <1>6, <1>7, <1>8, <1>9, MovesOfCalls DEF CallMoves

\* The rest of a tab stays one person's, as long as nobody is seen no more.
LEMMA OneTabGrows ==
    ASSUME WebTypeInv, KnownInv, StoreInv, OneTab, [WebNext]_webVars, Seen \subseteq Seen',
           cached' \subseteq Seen', socket'.step # "off" => socket'.user \in Seen'
    PROVE  OneTab'
<1>1. \A k \in Calls : Fits(k)'
  BY AnswersFit DEF OneTab
<1> QED BY <1>1 DEF OneTab

\* What becomes of the tab, step by step.
LEMMA TabKept ==
    ASSUME WebTypeInv, KnownInv, StoreInv, TabInv, [WebNext]_webVars
    PROVE  TabInv'
<1> USE DEF store, marks
<1>1. \A t \in Token : Known(t) => Owner(t)' = Owner(t)
  BY OwnersStay
<1>2. access # Nil => access \in Token /\ Known(access)
  BY DEF WebTypeInv, KnownInv
<1>3. access' = access => Holder' = Holder
  BY <1>1, <1>2 DEF Holder, Owner
\* A step that leaves the store and the marks alone.
<1>4. ASSUME late' = late, outlived' = outlived, UNCHANGED <<access, refresh>>,
             cached' \subseteq cached \cup Seen,
             socket' = socket \/ (socket.step # "off" /\ socket'.user = socket.user)
      PROVE  TabInv'
  <2> SUFFICES ASSUME ~late PROVE OnePerson' /\ OneTab'
    BY <1>4 DEF TabInv
  <2>1. OnePerson /\ OneTab
    BY DEF TabInv
  <2>2. Seen' = Seen
    BY <1>3, <1>4 DEF Seen
  <2>3. cached' \subseteq Seen' /\ (socket'.step # "off" => socket'.user \in Seen')
    BY <1>4, <2>1, <2>2 DEF OneTab
  <2> QED BY <1>4, <2>1, <2>2, <2>3, OnePersonKept, OneTabGrows
<1>5. ASSUME NEW k \in Calls, StepOfCall(k) PROVE TabInv'
  <2>1. CASE ReceivesLogin(k)
    <3> SUFFICES ASSUME ~late' PROVE OnePerson' /\ OneTab'
      BY DEF TabInv
    <3>1. ~late /\ access = Nil /\ ~Refreshing /\ UNCHANGED <<flight, guard, outlived>>
      BY <2>1 DEF ReceivesLogin, WebTypeInv
    <3>2. \A p \in Refreshers : ~Under(Asked(p)')
      BY <3>1, RefreshingIsAsked DEF Asked
    <3>3. PICK t \in Token : t = call[k].body /\ Known(t) /\ SetTokens(t)
      BY <2>1 DEF ReceivesLogin
    <3>4. access' = t /\ Owner(t)' = Owner(t) /\ Seen' = outlived \cup {Owner(t)} /\ Seen = outlived
      BY <3>1, <3>3, <1>1, TokensSet, Tokens DEF Seen, Holder, Owner
    <3>5. cached' = cached \cup {Owner(t)}
      BY <2>1, <3>3 DEF ReceivesLogin
    <3>6. socket'.user = Owner(t) \/ (socket.step # "off" /\ socket' = socket)
      BY <3>3, TokensSet
    <3>7. OneTab
      BY <3>1 DEF TabInv
    <3>8. Seen \subseteq Seen' /\ cached' \subseteq Seen' /\ socket'.user \in Seen'
      BY <3>4, <3>5, <3>6, <3>7 DEF OneTab
    <3>9. OnePerson'
      BY <3>2 DEF OnePerson, Under
    <3> QED BY <3>7, <3>8, <3>9, OneTabGrows
  <2>2. CASE ReceivesLogout(k)
    <3> SUFFICES ASSUME ~late' PROVE OnePerson' /\ OneTab'
      BY DEF TabInv
    <3>1. Clear /\ cached' = {} /\ outlived' = Connecting /\ late' = (late \/ Refreshing)
            /\ UNCHANGED <<flight, guard>>
      BY <2>2 DEF ReceivesLogout, LoggedOut, AfterLogout
    <3>2. \A p \in Refreshers : ~Under(Asked(p)')
      BY <3>1, RefreshingIsAsked DEF Asked, WebTypeInv
    <3>3. socket'.step # "off" => socket'.user \in Connecting
      BY <3>1, TokensCleared DEF Connecting
    <3>4. \A j \in Calls : Fits(j)'
      <4> SUFFICES ASSUME NEW j \in Calls, Asks(j, "query")', call'[j].orphan # TRUE PROVE FALSE
        BY DEF Fits
      <4>1. Under(call'[j]) /\ j # k
        BY <2>2, IdleIsAsking DEF Asks, Under, ReceivesLogout
      <4>2. SameCall(j) /\ (Under(call[j]) => call'[j] = Orphan(call[j]))
        BY <2>2, <4>1 DEF ReceivesLogout
      <4>3. Under(call[j])
        BY <4>1, <4>2 DEF SameCall, Under
      <4>4. Orphan(call[j]).orphan = TRUE
        BY <4>3, CallTypes, Orphans
      <4> QED BY <4>2, <4>3, <4>4
    <3>5. outlived' \subseteq Seen'
      BY DEF Seen
    <3>6. OnePerson'
      BY <3>2 DEF OnePerson, Under
    <3> QED BY <3>1, <3>3, <3>4, <3>5, <3>6 DEF OneTab
  <2>3. CASE ReceivesQuery(k)
    <3>1. UNCHANGED <<access, refresh, socket, late, outlived>>
      BY <2>3 DEF ReceivesQuery
    <3>2. ~late => cached' \subseteq cached \cup Seen
      <4> SUFFICES ASSUME ~late PROVE cached' \subseteq cached \cup Seen
        OBVIOUS
      <4>1. Fits(k) /\ Asks(k, "query")
        BY <2>3 DEF TabInv, OneTab, ReceivesQuery, Asks, Under
      <4>2. call[k].orphan # TRUE => call[k].body \in Seen
        BY <4>1, <2>3 DEF Fits, ReceivesQuery
      <4> QED BY <4>2, <2>3 DEF ReceivesQuery
    <3> QED BY <3>1, <3>2, <1>4 DEF TabInv
  <2>4. ~ReceivesLogin(k) /\ ~ReceivesLogout(k) /\ ~ReceivesQuery(k)
          => UNCHANGED <<access, refresh, cached, socket, late, outlived>>
    <3>1. Sends(k) \/ Serve(k) \/ Loses(k) => UNCHANGED <<access, refresh, cached, socket, late, outlived>>
      BY DEF Sends, Serve, Loses
    <3>2. GivesUp(k) \/ Joins(k) \/ Begins(k) => UNCHANGED <<access, refresh, cached, socket, late, outlived>>
      BY DEF GivesUp, Joins, Begins
    <3> QED BY <1>5, <3>1, <3>2 DEF StepOfCall
  <2> QED BY <2>1, <2>2, <2>3, <2>4, <1>4
\* The tokens that a refresh brings are of the session's person.
<1>6. ASSUME NEW p \in Refreshers, Arrives(p) PROVE TabInv'
  <2> SUFFICES ASSUME ~late PROVE OnePerson' /\ OneTab'
    BY <1>6 DEF TabInv, Arrives
  <2>1. OnePerson /\ OneTab
    BY DEF TabInv
  <2>2. PICK t \in Token : t = Asked(p).result /\ Known(t) /\ SetTokens(t)
    BY <1>6 DEF Arrives
  <2>3. Under(Asked(p)) /\ Owner(t) = Owner(Asked(p).token) /\ UNCHANGED <<cached, outlived>>
    BY <1>6, <2>2 DEF Arrives, Under, Owner
  <2>4. access' = t /\ Holder' = {Owner(t)}
    BY <2>2, <1>1, TokensSet, Tokens DEF Holder, Owner
  <2>5. Holder \subseteq Holder'
    <3>1. access # Nil => Owner(access) = Owner(t)
      BY <2>1, <2>3 DEF StoreInv, OnePerson
    <3> QED BY <2>4, <3>1 DEF Holder
  <2>6. Seen \subseteq Seen'
    BY <2>3, <2>5 DEF Seen
  <2>7. socket'.user \in Seen'
    <3>1. socket'.user = Owner(t) \/ (socket.step # "off" /\ socket' = socket)
      BY <2>2, TokensSet
    <3> QED BY <3>1, <2>1, <2>4, <2>6 DEF OneTab, Seen
  <2>8. cached' \subseteq Seen'
    BY <2>1, <2>3, <2>6 DEF OneTab
  <2> QED BY <1>6, <2>1, <2>6, <2>7, <2>8, OnePersonKept, OneTabGrows
<1>7. ASSUME NEW p \in Refreshers, StepOfRefresh(p) PROVE TabInv'
  <2>1. ~Arrives(p) => UNCHANGED <<access, refresh, cached, socket, late, outlived>>
    BY <1>7 DEF StepOfRefresh, ServeRefresh, LoseRefresh
  <2> QED BY <2>1, <1>4, <1>6
\* A refresh that fails leaves what there is to outlive the session.
<1>8. ASSUME Clear, outlived' = outlived \cup Left, cached' = cached, ~late, ~late'
      PROVE  OnePerson' /\ OneTab'
  <2>1. OnePerson /\ OneTab
    BY <1>8 DEF TabInv
  <2>2. outlived' \subseteq Seen' /\ Seen \subseteq outlived' /\ cached \subseteq outlived'
    BY <1>8 DEF Seen, Holder, Left
  <2>3. socket'.step # "off" => socket'.user \in outlived'
    BY <1>8, TokensCleared DEF Connecting, Left
  <2>4. refresh' = Nil
    BY <1>8 DEF Clear
  <2> QED BY <1>8, <2>1, <2>2, <2>3, <2>4, OnePersonKept, OneTabGrows
<1>9. ASSUME NEW g \in Guards, GuardFails(g) PROVE TabInv'
  BY <1>8, <1>9 DEF GuardFails, TabInv
<1>10. CASE FlightFails
  <2> SUFFICES ASSUME ~late' PROVE OnePerson' /\ OneTab'
    BY DEF TabInv
  <2>1. ~late /\ Clear
    BY <1>10 DEF FlightFails, WebTypeInv
  <2>2. CASE cached' = cached /\ outlived' = outlived \cup Left
    BY <1>8, <2>1, <2>2
  <2>3. CASE /\ cached' = {} /\ outlived' = Connecting
             /\ \A j \in Calls : Under(call'[j]) => call'[j].orphan = TRUE
    <3>1. \A j \in Calls : Fits(j)'
      BY <2>3 DEF Fits, Asks, Under
    <3>2. socket'.step # "off" => socket'.user \in Connecting
      BY <2>1, TokensCleared DEF Connecting
    <3>3. OnePerson'
      <4>1. OnePerson /\ refresh' = Nil
        BY <2>1 DEF TabInv, Clear
      <4> QED BY <4>1, OnePersonKept
    <3> QED BY <2>3, <3>1, <3>2, <3>3 DEF OneTab, Seen
  <2> QED BY <1>10, <2>2, <2>3 DEF FlightFails
<1>11. CASE Reload
  <2>1. /\ access' = Nil /\ cached' = {} /\ socket' = Off /\ call' = [k \in Calls |-> Idle]
        /\ flight' = Idle /\ guard' = [g \in Guards |-> Idle]
    BY <1>11 DEF Reload
  <2>2. OnePerson'
    BY <2>1, IdleIsAsking DEF OnePerson, Asked, Refreshers, Under
  <2>3. \A k \in Calls : Fits(k)'
    BY <2>1, IdleIsAsking DEF Fits, Asks, Under
  <2>4. socket'.step = "off"
    BY <2>1 DEF Off
  <2> QED BY <2>1, <2>2, <2>3, <2>4 DEF TabInv, OneTab
<1>12. CASE SocketOpens
  <2>1. socket.step # "off" /\ socket'.user = socket.user
          /\ UNCHANGED <<access, refresh, cached, late, outlived>>
    BY <1>12, SocketKinds DEF SocketOpens, WebTypeInv, Connection
  <2> QED BY <2>1, <1>4
<1>13. (\E t \in Token : ServeStray(t) \/ Expire(t)) \/ (\E f \in Families : RevokeElsewhere(f))
        \/ Enter \/ (\E g \in Guards : Navigates(g)) \/ UNCHANGED webVars
        => UNCHANGED <<access, refresh, cached, socket, late, outlived>>
  BY DEF ServeStray, Expire, RevokeElsewhere, Enter, Navigates, webVars
<1>14. UNCHANGED <<access, refresh, cached, socket, late, outlived>> => TabInv'
  BY <1>4
<1> QED BY <1>5, <1>7, <1>9, <1>10, <1>11, <1>12, <1>13, <1>14, KindsOfStep

-----------------------------------------------------------------------------
(* Who holds a token of a session.                                         *)

Stored(f) == refresh # Nil /\ refresh.family = f
AskedFor(p, f) == Under(Asked(p)) /\ Asked(p).token.family = f
Unheld(f) ==
    /\ ~Stored(f)
    /\ \A p \in Refreshers : ~AskedFor(p, f)
    /\ \A t \in stray : t.family # f
    /\ \A k \in Calls : Asks(k, "logout") => call[k].body.family # f

\* The session of a login that is answered is new: nobody holds a token of it yet.
NewInv ==
    \A k \in Calls : LoginAnswer(k) =>
      /\ call[k].body.n = family[call[k].body.family].live
      /\ Unheld(call[k].body.family)
      /\ \A j \in Calls : LoginAnswer(j) /\ call[j].body.family = call[k].body.family => j = k

\* Where what the store holds, what is on its way, and what a logout or the answer
\* of a login names comes from, and what numbers the tokens of a session on.
LEMMA StoreOfStep ==
    ASSUME WebTypeInv, KnownInv, [WebNext]_webVars
    PROVE  \/ refresh' \in {refresh, Nil}
           \/ \E p \in Refreshers : Arrives(p) /\ refresh' = Asked(p).result
           \/ \E k \in Calls : ReceivesLogin(k) /\ refresh' = call[k].body
<1> USE DEF store, marks
<1>1. ASSUME NEW k \in Calls, StepOfCall(k), ~ReceivesLogin(k) PROVE refresh' \in {refresh, Nil}
  BY <1>1 DEF StepOfCall, Sends, Serve, Loses, ReceivesQuery, GivesUp, Joins, Begins,
              ReceivesLogout, LoggedOut, Clear
<1>2. ASSUME NEW p \in Refreshers, StepOfRefresh(p), ~Arrives(p) PROVE refresh' \in {refresh, Nil}
  BY <1>2 DEF StepOfRefresh, ServeRefresh, LoseRefresh
<1>3. \A k \in Calls : ReceivesLogin(k) => refresh' = call[k].body
  BY TokensSet DEF ReceivesLogin
<1>4. \A p \in Refreshers : Arrives(p) => refresh' = Asked(p).result
  BY TokensSet DEF Arrives
<1>5. (\E g \in Guards : GuardFails(g) \/ Navigates(g)) \/ FlightFails
        \/ (\E t \in Token : ServeStray(t) \/ Expire(t)) \/ (\E f \in Families : RevokeElsewhere(f))
        \/ Enter \/ Reload \/ SocketOpens \/ UNCHANGED webVars
        => refresh' \in {refresh, Nil}
  BY DEF GuardFails, Navigates, FlightFails, Clear, ServeStray, Expire, RevokeElsewhere, Enter,
         Reload, SocketOpens, webVars
<1> QED BY <1>1, <1>2, <1>3, <1>4, <1>5, KindsOfStep

LEMMA StrayOfStep ==
    ASSUME WebTypeInv, KnownInv, [WebNext]_webVars, NEW t \in stray'
    PROVE  \/ t \in stray /\ excused \subseteq excused'
           \/ /\ Reload /\ t.family \in excused'
              /\ \E p \in Refreshers : Asked(p).step = "sent" /\ t = Asked(p).token
<1> USE DEF store, marks
<1>1. CASE Reload
  <2>1. \A r : r \in {flight} \cup {guard[g] : g \in Guards} => \E p \in Refreshers : r = Asked(p)
    BY NilIsNoName DEF Asked, Refreshers
  <2>2. excused \subseteq excused'
          /\ \A r \in {flight} \cup {guard[g] : g \in Guards} : Under(r) => r.token.family \in excused'
    BY <1>1 DEF Reload
  <2>3. CASE t \in stray
    BY <2>2, <2>3
  <2>4. CASE t \notin stray
    <3>1. PICK r \in {flight} \cup {guard[g] : g \in Guards} : r.step = "sent" /\ t = r.token
      BY <1>1, <2>4 DEF Reload
    <3> QED BY <1>1, <2>1, <2>2, <3>1 DEF Under
  <2> QED BY <2>3, <2>4
<1>2. CASE ~Reload
  <2>1. \A k \in Calls : StepOfCall(k) => UNCHANGED stray /\ excused \subseteq excused'
    <3>1. \A k \in Calls : Serve(k) => UNCHANGED stray /\ excused \subseteq excused'
      <4> SUFFICES ASSUME NEW k \in Calls, Serve(k) PROVE UNCHANGED stray /\ excused \subseteq excused'
        OBVIOUS
      <4>1. ServedQuery(k) \/ ServedLogout(k) \/ ServedLogin(k)
        BY Served
      <4>2. UNCHANGED stray
        BY DEF Serve
      <4>3. excused \subseteq excused'
        BY <4>1 DEF ServedQuery, ServedLogout, ServedLogin
      <4> QED BY <4>2, <4>3
    <3>2. \A k \in Calls : StepOfCall(k) /\ ~Serve(k) => UNCHANGED stray /\ excused \subseteq excused'
      BY DEF StepOfCall, Sends, Loses, ReceivesLogin, ReceivesQuery, GivesUp, Joins, Begins,
             ReceivesLogout, LoggedOut
    <3> QED BY <3>1, <3>2
  <2>2. \A p \in Refreshers : StepOfRefresh(p) => UNCHANGED stray /\ excused \subseteq excused'
    BY DEF StepOfRefresh, ServeRefresh, LoseRefresh, Arrives
  <2>3. \A g \in Guards : GuardFails(g) \/ Navigates(g) => UNCHANGED stray /\ excused \subseteq excused'
    BY DEF GuardFails, Navigates
  <2>4. FlightFails \/ Enter \/ SocketOpens \/ UNCHANGED webVars
          \/ (\E f \in Families : RevokeElsewhere(f)) => UNCHANGED stray /\ excused \subseteq excused'
    BY DEF FlightFails, Enter, SocketOpens, webVars, RevokeElsewhere
  <2>5. \A s \in Token : ServeStray(s) \/ Expire(s) => stray' \subseteq stray /\ excused \subseteq excused'
    BY DEF ServeStray, Expire
  <2> QED BY <1>2, <2>1, <2>2, <2>3, <2>4, <2>5, KindsOfStep
<1> QED BY <1>1, <1>2

LEMMA LogoutsOfStep ==
    ASSUME WebTypeInv, KnownInv, [WebNext]_webVars, NEW k \in Calls, Asks(k, "logout")'
    PROVE  \/ Asks(k, "logout") /\ call'[k].body = call[k].body
           \/ Sends(k) /\ refresh # Nil /\ call'[k].body = refresh
<1>1. Under(call'[k]) /\ call'[k].kind = "logout"
  BY DEF Asks, Under
<1>2. CASE call'[k] = call[k]
  BY <1>1, <1>2 DEF Asks
<1>3. CASE Sends(k)
  BY <1>1, <1>3 DEF Sends
<1>4. CASE Serve(k)
  BY <1>1, <1>4, Served DEF ServedQuery, ServedLogout, ServedLogin, Asks, Under, Logins
<1>5. CASE Loses(k)
  BY <1>1, <1>5 DEF Loses, Asks, Under
<1>6. CASE call[k].step = "answered" /\ call'[k] = Wait(call[k])
  BY <1>1, <1>6, CallTypes, Waits DEF Asks, Under
<1>7. CASE Under(call[k]) /\ call'[k] = Orphan(call[k])
  BY <1>1, <1>7, SameCalls DEF SameCall, Asks
<1>8. CASE call[k].step = "waiting" /\ Arrives(Nil) /\ call'[k] = Resent(call[k], Asked(Nil).result)
  <2>1. PICK t \in Token : t = Asked(Nil).result
    BY <1>8 DEF Arrives
  <2>2. call[k] \in Call /\ Under(call[k])
    BY <1>8, CallTypes DEF Under
  <2> QED BY <1>1, <1>8, <2>1, <2>2, Resends DEF Asks
<1> QED BY <1>1, <1>2, <1>3, <1>4, <1>5, <1>6, <1>7, <1>8, IdleIsAsking, MovesOfCalls DEF CallMoves

LEMMA AnswersOfStep ==
    ASSUME WebTypeInv, KnownInv, [WebNext]_webVars, NEW k \in Calls, LoginAnswer(k)'
    PROVE  \/ LoginAnswer(k) /\ call'[k].body = call[k].body
           \/ Serve(k) /\ ServedLogin(k) /\ call'[k].status = 200
<1>1. call'[k].step = "answered" /\ call'[k].kind \in Logins /\ call'[k].status = 200
  BY DEF LoginAnswer
<1>2. CASE call'[k] = call[k]
  BY <1>1, <1>2 DEF LoginAnswer
<1>3. CASE Sends(k)
  BY <1>1, <1>3 DEF Sends
<1>4. CASE Serve(k)
  BY <1>1, <1>4, Served DEF ServedQuery, ServedLogout, Logins
<1>5. CASE Loses(k)
  BY <1>1, <1>5 DEF Loses
<1>6. CASE call[k].step = "answered" /\ call'[k] = Wait(call[k])
  BY <1>1, <1>6, CallTypes, Waits DEF Under
<1>7. CASE Under(call[k]) /\ call'[k] = Orphan(call[k])
  BY <1>1, <1>7, SameCalls DEF SameCall, LoginAnswer
<1>8. CASE call[k].step = "waiting" /\ Arrives(Nil) /\ call'[k] = Resent(call[k], Asked(Nil).result)
  <2>1. PICK t \in Token : t = Asked(Nil).result
    BY <1>8 DEF Arrives
  <2>2. call[k] \in Call
    BY <1>8, CallTypes DEF Under
  <2> QED BY <1>1, <1>8, <2>1, <2>2, Resends
<1> QED BY <1>1, <1>2, <1>3, <1>4, <1>5, <1>6, <1>7, <1>8, IdleIsAsking, MovesOfCalls DEF CallMoves

LEMMA CallsKeepLive ==
    ASSUME WebTypeInv, KnownInv, NEW k \in Calls, StepOfCall(k), NEW f \in Families,
           family[f].live # 0
    PROVE  family'[f].live = family[f].live
<1> USE DEF store, marks
<1>1. CASE Serve(k)
  <2>1. call'[k].status \in {200, 401} /\ (ServedQuery(k) \/ ServedLogout(k) \/ ServedLogin(k))
    BY <1>1, Served
  <2>2. CASE ServedQuery(k)
    BY <2>2 DEF ServedQuery
  <2>3. CASE ServedLogout(k)
    BY <2>3 DEF ServedLogout
  <2>4. CASE ServedLogin(k)
    BY <2>1, <2>4 DEF ServedLogin
  <2> QED BY <2>1, <2>2, <2>3, <2>4
<1>2. ~Serve(k) => UNCHANGED family
  BY DEF StepOfCall, Sends, Loses, ReceivesLogin, ReceivesQuery, GivesUp, Joins, Begins,
              ReceivesLogout
<1> QED BY <1>1, <1>2

LEMMA LiveOfStep ==
    ASSUME WebTypeInv, KnownInv, [WebNext]_webVars, NEW f \in Families
    PROVE  \/ family'[f].live = family[f].live
           \/ family[f].live = 0
           \/ \E p \in Refreshers : ServeRefresh(p) /\ AskedFor(p, f)
           \/ \E t \in stray : ServeStray(t) /\ t.family = f
<1> USE DEF store, marks
<1>1. ASSUME NEW k \in Calls, StepOfCall(k), family[f].live # 0
      PROVE  family'[f].live = family[f].live
  BY <1>1, CallsKeepLive
<1>2. ASSUME NEW p \in Refreshers, StepOfRefresh(p), ~AskedFor(p, f)
      PROVE  family'[f].live = family[f].live
  <2>1. CASE ServeRefresh(p)
    <3>1. Under(Asked(p)) /\ Asked(p).token \in Token /\ Known(Asked(p).token)
            /\ Present(Asked(p).token) /\ Asked(p).token.family # f
      BY <1>2, <2>1, RefreshTypes DEF ServeRefresh, Under, KnownInv, AskedFor
    <3>2. PICK t \in Token : t = Asked(p).token
      BY <3>1
    <3>3. \A g \in Families \ {t.family} : family'[g] = family[g]
      BY <3>1, <3>2, Presented
    <3> QED BY <3>1, <3>2, <3>3
  <2>2. ~ServeRefresh(p) => UNCHANGED family
    BY <1>2 DEF StepOfRefresh, LoseRefresh, Arrives
  <2> QED BY <2>1, <2>2
<1>3. ASSUME NEW p \in Refreshers, StepOfRefresh(p), ~ServeRefresh(p)
      PROVE  family'[f].live = family[f].live
  BY <1>3 DEF StepOfRefresh, LoseRefresh, Arrives
<1>4. ASSUME NEW t \in Token, ServeStray(t), t.family # f
      PROVE  family'[f].live = family[f].live
  <2>1. Known(t) /\ Present(t)
    BY <1>4 DEF ServeStray, KnownInv
  <2>2. \A g \in Families \ {t.family} : family'[g] = family[g]
    BY <2>1, Presented
  <2> QED BY <1>4, <2>2
<1>5. ASSUME NEW g \in Families, RevokeElsewhere(g)
      PROVE  family'[f].live = family[f].live
  <2>1. family[g].live # 0
    BY <1>5, FamilyKinds DEF RevokeElsewhere, WebTypeInv
  <2> QED BY <1>5, <2>1, Burned DEF RevokeElsewhere
<1>6. (\E g \in Guards : GuardFails(g) \/ Navigates(g)) \/ FlightFails
        \/ (\E t \in Token : Expire(t)) \/ Enter \/ Reload \/ SocketOpens \/ UNCHANGED webVars
        => UNCHANGED family
  BY DEF GuardFails, Navigates, FlightFails, Expire, Enter, Reload, SocketOpens, webVars
<1>7. \A t \in Token : ServeStray(t) => t \in stray
  BY DEF ServeStray
<1> QED BY <1>1, <1>2, <1>3, <1>4, <1>5, <1>6, <1>7, KindsOfStep

\* A session nobody holds a token of is held by nobody until its login arrives.
LEMMA UnheldStays ==
    ASSUME WebTypeInv, KnownInv, [WebNext]_webVars, NEW f \in Families, Unheld(f),
           \A k \in Calls : ReceivesLogin(k) => call[k].body.family # f
    PROVE  Unheld(f)'
<1>1. ~Stored(f)'
  <2>1. CASE refresh' \in {refresh, Nil}
    BY <2>1 DEF Unheld, Stored
  <2>2. CASE \E p \in Refreshers : Arrives(p) /\ refresh' = Asked(p).result
    BY <2>2 DEF Unheld, Stored, AskedFor, Arrives, Under
  <2>3. CASE \E k \in Calls : ReceivesLogin(k) /\ refresh' = call[k].body
    BY <2>3 DEF Stored
  <2> QED BY <2>1, <2>2, <2>3, StoreOfStep
<1>2. ASSUME NEW p \in Refreshers, AskedFor(p, f)' PROVE FALSE
  <2>1. Under(Asked(p)') /\ Asked(p)'.token.family = f
    BY <1>2 DEF AskedFor, Under
  <2> QED BY <2>1, TokensOfStep DEF Unheld, AskedFor, Stored
<1>3. ASSUME NEW t \in stray' PROVE t.family # f
  BY <1>3, StrayOfStep DEF Unheld, AskedFor, Under
<1>4. ASSUME NEW k \in Calls, Asks(k, "logout")' PROVE call'[k].body.family # f
  BY <1>4, LogoutsOfStep DEF Unheld, Stored
<1> QED BY <1>1, <1>2, <1>3, <1>4 DEF Unheld

\* Of a session that was not made nobody holds a token.
LEMMA UnmadeIsUnheld ==
    ASSUME WebTypeInv, KnownInv, NEW f \in Families, family[f].live = 0
    PROVE  Unheld(f) /\ \A k \in Calls : LoginAnswer(k) => call[k].body.family # f
<1>1. \A t \in Token : Known(t) => t.family # f
  BY Tokens, SessionsAreCounted DEF Known
<1>2. \A k \in Calls : LoginAnswer(k) => call[k].body \in Token /\ Known(call[k].body)
  BY CallTypes DEF LoginAnswer, BodyIsOfItsKind, KnownInv, Under
<1>3. \A k \in Calls : Asks(k, "logout") => call[k].body \in Token /\ Known(call[k].body)
  BY CallTypes DEF Asks, BodyIsOfItsKind, KnownInv
<1>4. \A p \in Refreshers : Under(Asked(p)) => Asked(p).token \in Token /\ Known(Asked(p).token)
  BY RefreshTypes DEF KnownInv
<1>5. /\ refresh # Nil => refresh \in Token /\ Known(refresh)
      /\ \A t \in stray : t \in Token /\ Known(t)
  BY DEF WebTypeInv, KnownInv
<1> QED BY <1>1, <1>2, <1>3, <1>4, <1>5 DEF Unheld, Stored, AskedFor

\* An answered login is new when it is made, and stays so until it arrives.
LEMMA NewKept ==
    ASSUME WebTypeInv, KnownInv, NewInv, [WebNext]_webVars
    PROVE  NewInv'
\* An answer that was there.
<1>1. ASSUME NEW k \in Calls, LoginAnswer(k), LoginAnswer(k)', call'[k].body = call[k].body,
             NEW f \in Families, f = call[k].body.family
      PROVE  /\ call'[k].body.n = family'[f].live
             /\ Unheld(f)'
             /\ \A j \in Calls : LoginAnswer(j)' /\ call'[j].body.family = f => j = k
  <2>1. call[k].body.n = family[f].live /\ Unheld(f) /\ call[k].body \in Token /\ family[f].live # 0
    BY <1>1, CallTypes, Tokens, SessionsAreCounted DEF NewInv, LoginAnswer, BodyIsOfItsKind, Under
  <2>2. \A j \in Calls : ReceivesLogin(j) => call[j].body.family # f
    <3> SUFFICES ASSUME NEW j \in Calls, ReceivesLogin(j), call[j].body.family = f PROVE FALSE
      OBVIOUS
    <3>1. j = k
      BY <1>1 DEF ReceivesLogin, NewInv
    <3>2. call'[k] = Idle
      BY <3>1 DEF ReceivesLogin, WebTypeInv
    <3> QED BY <1>1, <3>2 DEF LoginAnswer, Idle
  <2>3. family'[f].live = family[f].live
    BY <2>1, LiveOfStep DEF Unheld
  <2>4. ASSUME NEW j \in Calls, LoginAnswer(j)', call'[j].body.family = f PROVE j = k
    <3>1. CASE LoginAnswer(j) /\ call'[j].body = call[j].body
      BY <1>1, <2>4, <3>1 DEF NewInv
    <3>2. CASE ServedLogin(j) /\ call'[j].status = 200
      BY <2>1, <2>4, <3>2 DEF ServedLogin
    <3> QED BY <2>4, <3>1, <3>2, AnswersOfStep
  <2> QED BY <1>1, <2>1, <2>2, <2>3, <2>4, UnheldStays
\* An answer that has just been made.
<1>2. ASSUME NEW k \in Calls, Serve(k), ServedLogin(k), call'[k].status = 200,
             NEW f \in Families, f = call'[k].body.family
      PROVE  /\ call'[k].body.n = family'[f].live
             /\ Unheld(f)'
             /\ \A j \in Calls : LoginAnswer(j)' /\ call'[j].body.family = f => j = k
  <2>1. call'[k].body.n = 1 /\ family'[f].live = 1 /\ family[f].live = 0
    BY <1>2 DEF ServedLogin
  <2>2. Unheld(f) /\ \A j \in Calls : LoginAnswer(j) => call[j].body.family # f
    BY <2>1, UnmadeIsUnheld
  <2>3. Unheld(f)'
    BY <2>2, UnheldStays DEF ReceivesLogin
  <2>4. \A j \in Calls \ {k} : call'[j] = call[j]
    BY <1>2, Served
  <2> QED BY <2>1, <2>2, <2>3, <2>4 DEF LoginAnswer
<1>3. ASSUME NEW k \in Calls, LoginAnswer(k)'
      PROVE  /\ call'[k].body.n = family'[call'[k].body.family].live
             /\ Unheld(call[k].body.family)'
             /\ \A j \in Calls : LoginAnswer(j)' /\ call'[j].body.family = call'[k].body.family => j = k
  <2>1. PICK f \in Families : f = call'[k].body.family
    <3>1. call'[k] \in Asking /\ call'[k].step = "answered" /\ call'[k].kind \in Logins
            /\ call'[k].status = 200
      BY <1>3, WebTypesKept DEF LoginAnswer, WebTypeInv
    <3>2. call'[k].body \in Token
      BY <3>1, CallKinds DEF Under, BodyIsOfItsKind
    <3> QED BY <3>2, Tokens
  <2>2. /\ call'[k].body.n = family'[f].live
        /\ Unheld(f)'
        /\ \A j \in Calls : LoginAnswer(j)' /\ call'[j].body.family = f => j = k
    <3>1. CASE LoginAnswer(k) /\ call'[k].body = call[k].body
      BY <1>1, <1>3, <2>1, <3>1
    <3>2. CASE Serve(k) /\ ServedLogin(k) /\ call'[k].status = 200
      BY <1>2, <2>1, <3>2
    <3> QED BY <1>3, <3>1, <3>2, AnswersOfStep
  <2>3. Unheld(call[k].body.family)'
    BY <2>1, <2>2 DEF Unheld, Stored, AskedFor
  <2> QED BY <2>1, <2>2, <2>3
<1> QED BY <1>3 DEF NewInv

-----------------------------------------------------------------------------
(* A token is presented once.                                              *)

Ok(p) == Asked(p).step = "answered" /\ Asked(p).result # Nil

\* Unless it may be reused, a session is refreshed by one at a time, with the live
\* token; and who holds its tokens while nobody refreshes it holds the live one.
Single(f) ==
    /\ \A p, q \in Refreshers : AskedFor(p, f) /\ AskedFor(q, f) => p = q
    /\ \A p \in Refreshers : AskedFor(p, f) =>
         /\ Asked(p).step = "sent" => Asked(p).token.n = family[f].live
         /\ Ok(p) => Asked(p).result.n = family[f].live
    /\ Stored(f) /\ (\A p \in Refreshers : ~AskedFor(p, f)) => refresh.n = family[f].live
ReuseInv ==
    /\ reused \subseteq excused
    /\ \A t \in stray : t.family \in excused
    /\ \A f \in Families : f \notin excused => Single(f)

\* What is excused stays excused.
LEMMA ExcusedStay ==
    ASSUME WebTypeInv, KnownInv, [WebNext]_webVars
    PROVE  excused \subseteq excused'
<1> USE DEF store, marks
<1>1. \A k \in Calls : Serve(k) => excused \subseteq excused'
  <2> SUFFICES ASSUME NEW k \in Calls, Serve(k) PROVE excused \subseteq excused'
    OBVIOUS
  <2>1. ServedQuery(k) \/ ServedLogout(k) \/ ServedLogin(k)
    BY Served
  <2> QED BY <2>1 DEF ServedQuery, ServedLogout, ServedLogin
<1>2. \A k \in Calls : StepOfCall(k) /\ ~Serve(k) => excused \subseteq excused'
  BY DEF StepOfCall, Sends, Loses, ReceivesLogin, ReceivesQuery, GivesUp, Joins, Begins,
         ReceivesLogout, LoggedOut
<1>3. \A p \in Refreshers : StepOfRefresh(p) => excused \subseteq excused'
  BY DEF StepOfRefresh, ServeRefresh, LoseRefresh, Arrives
<1>4. (\E g \in Guards : GuardFails(g) \/ Navigates(g)) \/ FlightFails
        \/ (\E t \in Token : ServeStray(t) \/ Expire(t)) \/ (\E f \in Families : RevokeElsewhere(f))
        \/ Enter \/ Reload \/ SocketOpens \/ UNCHANGED webVars => excused \subseteq excused'
  BY DEF GuardFails, Navigates, FlightFails, ServeStray, Expire, RevokeElsewhere, Enter,
         Reload, SocketOpens, webVars
<1> QED BY <1>1, <1>2, <1>3, <1>4, KindsOfStep

\* A refresh is begun beside another of the session only if that excuses it.
Starts(p) ==
    /\ ~Under(Asked(p)) /\ refresh \in Token /\ Becomes(p, AskFor(refresh))
    /\ refresh.family \notin excused' => \A q \in Refreshers : ~AskedFor(q, refresh.family)
    /\ UNCHANGED <<refresh, stray, family, reused>>
LEMMA Startings ==
    ASSUME WebTypeInv
    PROVE  /\ \A k \in Calls : Begins(k) => Starts(Nil)
           /\ \A g \in Guards : Navigates(g) => Starts(g)
<1>1. refresh # Nil => refresh \in Token
  BY DEF WebTypeInv
<1>2. ASSUME NEW f, RefreshesOf(f) = {}, NEW q \in Refreshers PROVE ~AskedFor(q, f)
  <2>1. Asked(q) \in {flight} \cup {guard[g] : g \in Guards}
    BY DEF Asked, Refreshers
  <2> QED BY <1>2, <2>1 DEF RefreshesOf, AskedFor
<1>3. excused' = (IF RefreshesOf(refresh.family) # {} THEN excused \cup {refresh.family} ELSE excused)
        => (refresh.family \notin excused' => \A q \in Refreshers : ~AskedFor(q, refresh.family))
  BY <1>2
<1>4. \A k \in Calls : Begins(k) => Starts(Nil)
  BY <1>1, <1>3 DEF Begins, Starts, Asked, store
<1>5. \A g \in Guards : Navigates(g) => Starts(g)
  BY <1>1, <1>3, NilIsNoName DEF Navigates, Starts, Asked
<1> QED BY <1>4, <1>5

\* A session of which no refresh is new, and the store's token is live.
LEMMA SingleStays ==
    ASSUME WebTypeInv, NEW f \in Families, Single(f), family'[f].live = family[f].live,
           \A q \in Refreshers : AskedFor(q, f)' => Asked(q)' = Asked(q),
           Stored(f)' /\ (\A q \in Refreshers : ~AskedFor(q, f)') =>
             \/ refresh' = refresh /\ \A q \in Refreshers : ~AskedFor(q, f)
             \/ refresh'.n = family[f].live
    PROVE  Single(f)'
<1>1. \A q \in Refreshers : AskedFor(q, f)' => AskedFor(q, f) /\ Asked(q)' = Asked(q)
  BY DEF AskedFor, Under
<1>2. \A p, q \in Refreshers : AskedFor(p, f)' /\ AskedFor(q, f)' => p = q
  BY <1>1 DEF Single
<1>3. ASSUME NEW p \in Refreshers, AskedFor(p, f)'
      PROVE  /\ Asked(p)'.step = "sent" => Asked(p)'.token.n = family'[f].live
             /\ Ok(p)' => Asked(p)'.result.n = family'[f].live
  BY <1>1, <1>3 DEF Single, Ok
<1>4. Stored(f)' /\ (\A q \in Refreshers : ~AskedFor(q, f)') => refresh'.n = family'[f].live
  BY DEF Single, Stored
<1> QED BY <1>2, <1>3, <1>4 DEF Single

\* A token that is given is the live one, and whoever else holds one holds an
\* earlier one.
LEMMA SingleKept ==
    ASSUME WebTypeInv, KnownInv, NewInv, ReuseInv, [WebNext]_webVars,
           NEW f \in Families, f \notin excused'
    PROVE  Single(f)'
<1> USE DEF store, marks
<1>1. Single(f) /\ \A t \in stray : t.family # f
  BY ExcusedStay DEF ReuseInv
\* Nothing of the session changes, or its store is cleared.
<1>2. ASSUME UNCHANGED <<flight, guard>>, refresh' \in {refresh, Nil}, family'[f].live = family[f].live
      PROVE  Single(f)'
  <2>1. \A q \in Refreshers : Asked(q)' = Asked(q)
    BY <1>2 DEF Asked
  <2>2. \A q \in Refreshers : AskedFor(q, f) = AskedFor(q, f)'
    BY <2>1 DEF AskedFor, Under
  <2> QED BY <1>1, <1>2, <2>1, <2>2, SingleStays DEF Stored
<1>3. ASSUME NEW p \in Refreshers, Starts(p) PROVE Single(f)'
  <2>1. AskFor(refresh) \in Refreshment /\ AskFor(refresh).step = "sent"
          /\ AskFor(refresh).token = refresh /\ AskFor(refresh).result = Nil
    BY <1>3, Refreshments DEF Starts
  <2>2. Asked(p)' = AskFor(refresh) /\ \A q \in Refreshers \ {p} : Asked(q)' = Asked(q)
    BY <1>3, <2>1, OneRefresh DEF Starts
  <2>3. CASE refresh.family = f
    <3>1. \A q \in Refreshers : ~AskedFor(q, f)
      BY <1>3, <2>3 DEF Starts
    <3>2. refresh.n = family[f].live /\ family' = family
      BY <1>1, <1>3, <2>3, <3>1, Tokens DEF Single, Stored, Starts
    <3>3. \A q \in Refreshers : AskedFor(q, f)' => q = p
      BY <2>2, <3>1 DEF AskedFor, Under
    <3>4. AskedFor(p, f)' /\ ~Ok(p)'
      BY <2>1, <2>2, <2>3 DEF AskedFor, Under, Ok
    <3> QED BY <2>1, <2>2, <3>2, <3>3, <3>4 DEF Single, Ok, Stored
  <2>4. CASE refresh.family # f
    <3>1. \A q \in Refreshers : AskedFor(q, f)' => Asked(q)' = Asked(q)
      BY <2>1, <2>2, <2>4 DEF AskedFor
    <3>2. ~Stored(f)' /\ family' = family
      BY <1>3, <2>4 DEF Stored, Starts
    <3> QED BY <1>1, <3>1, <3>2, SingleStays
  <2> QED BY <2>3, <2>4
<1>4. ASSUME NEW k \in Calls, StepOfCall(k) PROVE Single(f)'
  <2>1. CASE ReceivesLogin(k)
    <3>1. refresh' = call[k].body /\ UNCHANGED <<flight, guard, family>> /\ LoginAnswer(k)
      BY <2>1, TokensSet DEF ReceivesLogin
    <3>2. call[k].body.n = family[call[k].body.family].live
      BY <3>1 DEF NewInv
    <3>3. \A q \in Refreshers : Asked(q)' = Asked(q)
      BY <3>1 DEF Asked
    <3>4. Stored(f)' => refresh'.n = family[f].live
      BY <3>1, <3>2 DEF Stored
    <3> QED BY <1>1, <3>1, <3>3, <3>4, SingleStays
  <2>2. CASE Begins(k)
    BY <2>2, <1>3, Startings DEF Refreshers
  <2>3. CASE Serve(k) /\ family[f].live = 0
    <3>1. Unheld(f)
      BY <2>3, UnmadeIsUnheld
    <3>2. UNCHANGED <<flight, guard, refresh>>
      BY <2>3 DEF Serve
    <3>3. ~Stored(f)' /\ \A q \in Refreshers : ~AskedFor(q, f)'
      BY <3>1, <3>2 DEF Unheld, Stored, AskedFor, Asked, Under
    <3> QED BY <3>3 DEF Single
  <2>4. CASE Serve(k) /\ family[f].live # 0
    <3>1. family'[f].live = family[f].live
      BY <1>4, <2>4, CallsKeepLive
    <3> QED BY <2>4, <3>1, <1>2 DEF Serve
  <2>5. CASE ReceivesLogout(k)
    BY <2>5, <1>2 DEF ReceivesLogout, LoggedOut, Clear
  <2>6. CASE Sends(k) \/ Loses(k) \/ ReceivesQuery(k) \/ GivesUp(k) \/ Joins(k)
    BY <2>6, <1>2 DEF Sends, Loses, ReceivesQuery, GivesUp, Joins
  <2> QED BY <1>4, <2>1, <2>2, <2>3, <2>4, <2>5, <2>6 DEF StepOfCall
<1>5. ASSUME NEW p \in Refreshers, StepOfRefresh(p) PROVE Single(f)'
  <2>1. CASE ServeRefresh(p)
    <3>1. /\ Under(Asked(p)) /\ Asked(p) \in Refreshment /\ Known(Asked(p).token)
          /\ Present(Asked(p).token) /\ UNCHANGED refresh
      BY <2>1, RefreshTypes DEF ServeRefresh, Under, KnownInv
    <3>2. PICK t \in Token : t = Asked(p).token /\ t.family \in Families
      BY <3>1, RefreshTypes
    <3>3. PICK v \in Token \cup {Nil} : v = Given(t)
      BY <3>1, <3>2, Presented
    <3>4. PICK r \in Refreshment : r = Give(Asked(p), v) /\ r.step = "answered" /\ r.token = t
                                     /\ r.result = v
      BY <3>1, <3>2, Refreshments
    <3>5. Asked(p)' = r /\ \A q \in Refreshers \ {p} : Asked(q)' = Asked(q)
      BY <2>1, <3>2, <3>3, <3>4, OneRefresh DEF ServeRefresh
    <3>6. CASE t.family = f
      <4>1. AskedFor(p, f) /\ AskedFor(p, f)'
        BY <3>1, <3>2, <3>4, <3>5, <3>6 DEF AskedFor, Under
      <4>2. \A q \in Refreshers : AskedFor(q, f)' => q = p
        BY <1>1, <3>5, <4>1 DEF Single, AskedFor, Under
      <4>3. v # Nil => v.n = family'[f].live
        <5>1. Known(t) /\ Present(t)
          BY <3>1, <3>2
        <5>2. Given(t) = Nil \/ (Given(t).n = family[f].live + 1 /\ family'[f].live = family[f].live + 1)
          BY <5>1, <3>6, Presented
        <5> QED BY <5>2, <3>3
      <4> QED BY <3>4, <3>5, <4>1, <4>2, <4>3 DEF Single, Ok
    <3>7. CASE t.family # f
      <4>1. family'[f] = family[f]
        <5>1. \A g \in Families \ {t.family} : family'[g] = family[g]
          BY <3>1, <3>2, Presented
        <5> QED BY <5>1, <3>7
      <4>2. \A q \in Refreshers : AskedFor(q, f)' => Asked(q)' = Asked(q)
        BY <3>4, <3>5, <3>7 DEF AskedFor
      <4>3. ~AskedFor(p, f)
        BY <3>2, <3>7 DEF AskedFor
      <4>4. \A q \in Refreshers : ~AskedFor(q, f)' => ~AskedFor(q, f)
        BY <3>5, <4>3 DEF AskedFor, Under
      <4> QED BY <1>1, <3>1, <4>1, <4>2, <4>4, SingleStays DEF Stored
    <3> QED BY <3>6, <3>7
  <2>2. CASE LoseRefresh(p)
    <3>1. Under(Asked(p)) /\ Asked(p).token.family # f /\ UNCHANGED <<refresh, family>>
      BY <2>2 DEF LoseRefresh
    <3>2. /\ Give(Asked(p), Nil) \in Refreshment /\ Give(Asked(p), Nil).token = Asked(p).token
      BY <3>1, RefreshTypes, Refreshments
    <3>3. Asked(p)' = Give(Asked(p), Nil) /\ \A q \in Refreshers \ {p} : Asked(q)' = Asked(q)
      BY <2>2, <3>2, OneRefresh DEF LoseRefresh
    <3>4. ~AskedFor(p, f) /\ ~AskedFor(p, f)'
      BY <3>1, <3>2, <3>3 DEF AskedFor
    <3>5. \A q \in Refreshers : /\ AskedFor(q, f)' => Asked(q)' = Asked(q)
                                /\ ~AskedFor(q, f)' => ~AskedFor(q, f)
      BY <3>3, <3>4 DEF AskedFor, Under
    <3> QED BY <1>1, <3>1, <3>5, SingleStays DEF Stored
  <2>3. CASE Arrives(p)
    <3>1. /\ refresh' = Asked(p).result /\ Asked(p).result.family = Asked(p).token.family
          /\ Asked(p).result # Nil /\ Asked(p).step = "answered" /\ UNCHANGED family
      BY <2>3, Tokens, TokensSet DEF Arrives
    <3>2. Asked(p)' = Idle /\ \A q \in Refreshers \ {p} : Asked(q)' = Asked(q)
      BY <2>3, OneRefresh DEF Arrives
    <3>3. \A q \in Refreshers : AskedFor(q, f)' => Asked(q)' = Asked(q)
      BY <3>2, IdleIsAsking DEF AskedFor, Under
    <3>4. Stored(f)' => refresh'.n = family[f].live
      <4>1. SUFFICES ASSUME Stored(f)' PROVE refresh'.n = family[f].live
        OBVIOUS
      <4>2. AskedFor(p, f) /\ Ok(p)
        BY <3>1, <4>1 DEF Stored, AskedFor, Under, Ok
      <4> QED BY <1>1, <3>1, <4>2 DEF Single
    <3> QED BY <1>1, <3>1, <3>3, <3>4, SingleStays
  <2> QED BY <1>5, <2>1, <2>2, <2>3 DEF StepOfRefresh
\* A refresh that fails clears the store.
<1>6. ASSUME NEW p \in Refreshers, Becomes(p, Idle), refresh' = Nil, UNCHANGED family
      PROVE  Single(f)'
  <2>1. Asked(p)' = Idle /\ \A q \in Refreshers \ {p} : Asked(q)' = Asked(q)
    BY <1>6, OneRefresh
  <2>2. \A q \in Refreshers : AskedFor(q, f)' => Asked(q)' = Asked(q)
    BY <2>1, IdleIsAsking DEF AskedFor, Under
  <2> QED BY <1>1, <1>6, <2>2, SingleStays DEF Stored
<1>7. (\E g \in Guards : GuardFails(g)) \/ FlightFails => Single(f)'
  BY <1>6 DEF GuardFails, FlightFails, Clear, Refreshers
<1>8. \A g \in Guards : Navigates(g) => Single(f)'
  BY <1>3, Startings DEF Refreshers
<1>9. CASE Reload
  <2>1. flight' = Idle /\ guard' = [g \in Guards |-> Idle] /\ UNCHANGED <<refresh, family>>
    BY <1>9 DEF Reload
  <2>2. \A q \in Refreshers : ~AskedFor(q, f)'
    BY <2>1, IdleIsAsking DEF AskedFor, Asked, Refreshers, Under
  <2>3. \A q \in Refreshers : ~AskedFor(q, f)
    <3> SUFFICES ASSUME NEW q \in Refreshers, AskedFor(q, f) PROVE FALSE
      OBVIOUS
    <3>1. Asked(q) \in {flight} \cup {guard[g] : g \in Guards} /\ Under(Asked(q))
            /\ Asked(q).token.family = f
      BY DEF AskedFor, Asked, Refreshers
    <3> QED BY <1>9, <3>1 DEF Reload
  <2> QED BY <1>1, <2>1, <2>2, <2>3, SingleStays DEF Stored
<1>10. ASSUME NEW t \in Token, ServeStray(t) \/ Expire(t) PROVE Single(f)'
  <2>1. UNCHANGED <<flight, guard, refresh>>
    BY <1>10 DEF ServeStray, Expire
  <2>2. family'[f].live = family[f].live
    <3>1. CASE Expire(t)
      BY <3>1 DEF Expire
    <3>2. CASE ServeStray(t)
      <4>1. Known(t) /\ Present(t) /\ t.family # f
        BY <1>1, <3>2 DEF ServeStray, KnownInv
      <4>2. \A g \in Families \ {t.family} : family'[g] = family[g]
        BY <4>1, Presented
      <4> QED BY <4>1, <4>2
    <3> QED BY <1>10, <3>1, <3>2
  <2> QED BY <2>1, <2>2, <1>2
<1>11. ASSUME NEW g \in Families, RevokeElsewhere(g) PROVE Single(f)'
  <2>1. UNCHANGED <<flight, guard, refresh>>
    BY <1>11 DEF RevokeElsewhere
  <2>2. family'[f].live = family[f].live
    <3>1. family[g].live # 0
      BY <1>11, FamilyKinds DEF RevokeElsewhere, WebTypeInv
    <3> QED BY <1>11, <3>1, Burned DEF RevokeElsewhere
  <2> QED BY <2>1, <2>2, <1>2
<1>12. Enter \/ SocketOpens \/ UNCHANGED webVars => Single(f)'
  BY <1>2 DEF Enter, SocketOpens, webVars
<1> QED BY <1>4, <1>5, <1>7, <1>8, <1>9, <1>10, <1>11, <1>12, KindsOfStep

\* A token that is presented is live, or its session is excused.
LEMMA ReuseKept ==
    ASSUME WebTypeInv, KnownInv, NewInv, ReuseInv, [WebNext]_webVars
    PROVE  ReuseInv'
<1> USE DEF store, marks
<1>1. excused \subseteq excused' /\ reused \subseteq excused
  BY ExcusedStay DEF ReuseInv
<1>2. ASSUME NEW k \in Calls, StepOfCall(k) PROVE reused' \subseteq excused'
  <2>1. CASE Serve(k)
    BY <2>1, <1>1, Served DEF ServedQuery, ServedLogout, ServedLogin
  <2>2. ~Serve(k) => reused' = reused
    BY <1>2 DEF StepOfCall, Sends, Loses, ReceivesLogin, ReceivesQuery, GivesUp, Joins, Begins,
                ReceivesLogout
  <2> QED BY <2>1, <2>2, <1>1
<1>3. ASSUME NEW p \in Refreshers, StepOfRefresh(p) PROVE reused' \subseteq excused'
  <2>1. CASE ServeRefresh(p)
    <3>1. PICK t \in Token : t = Asked(p).token /\ Present(t) /\ Known(t) /\ t.family \in Families
      BY <2>1, RefreshTypes DEF ServeRefresh, Under, KnownInv
    <3>2. reused' = reused \/ (t.n # family[t.family].live /\ reused' = reused \cup {t.family})
      <4>1. t.n < family[t.family].live => t.n # family[t.family].live
        BY <3>1, Tokens, KnownSessions, SessionsAreCounted
      <4> QED BY <3>1, <4>1, Presented
    <3>3. t.family \notin excused => t.n = family[t.family].live
      BY <2>1, <3>1 DEF ServeRefresh, ReuseInv, Single, AskedFor, Under
    <3> QED BY <3>2, <3>3, <1>1
  <2>2. ~ServeRefresh(p) => reused' = reused
    BY <1>3 DEF StepOfRefresh, LoseRefresh, Arrives
  <2> QED BY <2>1, <2>2, <1>1
<1>4. ASSUME NEW t \in Token, ServeStray(t) PROVE reused' \subseteq excused'
  <2>1. Known(t) /\ Present(t) /\ t.family \in excused
    BY <1>4 DEF ServeStray, KnownInv, ReuseInv
  <2>2. reused' = reused \/ reused' = reused \cup {t.family}
    BY <2>1, Presented
  <2> QED BY <1>1, <2>1, <2>2
<1>5. (\E g \in Guards : GuardFails(g) \/ Navigates(g)) \/ FlightFails
        \/ (\E t \in Token : Expire(t)) \/ (\E f \in Families : RevokeElsewhere(f))
        \/ Enter \/ Reload \/ SocketOpens \/ UNCHANGED webVars => reused' = reused
  BY DEF GuardFails, Navigates, FlightFails, Expire, RevokeElsewhere, Enter, Reload, SocketOpens,
         webVars
<1>6. reused' \subseteq excused'
  BY <1>1, <1>2, <1>3, <1>4, <1>5, KindsOfStep
<1>7. \A t \in stray' : t.family \in excused'
  BY StrayOfStep DEF ReuseInv
<1>8. \A f \in Families : f \notin excused' => Single(f)'
  BY SingleKept
<1> QED BY <1>6, <1>7, <1>8 DEF ReuseInv

-----------------------------------------------------------------------------
(* A logout ends the session.                                              *)

\* While nothing is lost, a session that lives may be refreshed with the live token
\* that is presented, or has been with the token that was given.
Lives(f) == family[f].live # 0 /\ family[f].dead # TRUE
May(p) == Ok(p) \/ (Asked(p).step = "sent" /\ Asked(p).token.n = family[Asked(p).token.family].live)

\* No navigation may refresh the session; and nobody may, nor is its token stored.
Silent(f) == \A g \in Guards : AskedFor(g, f) => ~May(g)
Gone(f) ==
    /\ ~Stored(f)
    /\ \A p \in Refreshers : AskedFor(p, f) => ~May(p)
    /\ \A k \in Calls : LoginAnswer(k) => call[k].body.family # f

\* Who was answered holds the live token, which the store does not yet, and may
\* alone refresh the session.
Alone(p, f) ==
    /\ Asked(p).result.n = family[f].live
    /\ Stored(f) => refresh.n < family[f].live
    /\ \A q \in Refreshers : AskedFor(q, f) /\ May(q) => q = p

\* A logout under way names a session that navigations may not refresh, and is
\* sent with an access token of its owner, or when the session is gone.
Leaves(k, f) ==
    /\ Silent(f)
    /\ call[k].step = "sent" /\ call[k].access # Nil =>
         Owner(call[k].access) = Owner(call[k].body) \/ Gone(f)
    /\ call[k].step = "answered" /\ call[k].status = 200 => Gone(f)

Failing(p) == Asked(p).step = "answered" /\ Asked(p).result = Nil
OfTheShell(k) == Asks(k, "query") \/ Asks(k, "logout")
EndInv ==
    faults = 0 =>
      /\ stray = {}
      /\ \A p \in Refreshers : Failing(p) => family[Asked(p).token.family].dead = TRUE
      /\ \A k \in Calls : call[k].step = "answered" => call[k].status \in {200, 401}
      /\ access = Nil /\ refresh # Nil => \A k \in Calls : ~OfTheShell(k)
      /\ \A f \in Families : Lives(f) =>
           /\ \A p \in Refreshers : AskedFor(p, f) /\ Ok(p) => Alone(p, f)
           /\ access # Nil /\ access.family = f => Silent(f)
           /\ \A k \in Calls : Asks(k, "logout") /\ call[k].body.family = f => Leaves(k, f)
EndedInv == \A f \in ended : family[f].live # 0 /\ family[f].dead = TRUE

\* A step after which nothing was lost is none that loses.
LEMMA Faultless ==
    ASSUME WebTypeInv, KnownInv, [WebNext]_webVars, faults' = 0
    PROVE  /\ faults = 0 /\ ~Reload /\ \A f \in Families : ~RevokeElsewhere(f)
           /\ \A k \in Calls : ~Loses(k)
           /\ \A p \in Refreshers : ~LoseRefresh(p)
<1> USE DEF store, marks
<1>1. faults \in Nat /\ faults + 1 # 0
  BY SessionsAreCounted DEF WebTypeInv
<1>2. \A k \in Calls : StepOfCall(k) => faults' \in {faults, faults + 1}
  <2>1. \A k \in Calls : Sends(k) \/ Serve(k) \/ Loses(k) \/ ReceivesLogin(k) =>
          faults' \in {faults, faults + 1}
    BY DEF Sends, Serve, Loses, ReceivesLogin
  <2>2. \A k \in Calls : ReceivesQuery(k) \/ GivesUp(k) \/ Joins(k) \/ Begins(k) \/ ReceivesLogout(k)
          => faults' \in {faults, faults + 1}
    BY DEF ReceivesQuery, GivesUp, Joins, Begins, ReceivesLogout
  <2> QED BY <2>1, <2>2 DEF StepOfCall
<1>3. \A p \in Refreshers : StepOfRefresh(p) => faults' \in {faults, faults + 1}
  BY DEF StepOfRefresh, ServeRefresh, LoseRefresh, Arrives
<1>4. (\E g \in Guards : GuardFails(g) \/ Navigates(g)) \/ FlightFails
        \/ (\E t \in Token : ServeStray(t) \/ Expire(t)) \/ (\E f \in Families : RevokeElsewhere(f))
        \/ Enter \/ Reload \/ SocketOpens \/ UNCHANGED webVars
        => faults' \in {faults, faults + 1}
  BY DEF GuardFails, Navigates, FlightFails, ServeStray, Expire, RevokeElsewhere, Enter,
         Reload, SocketOpens, webVars
<1>5. faults' \in {faults, faults + 1}
  BY <1>2, <1>3, <1>4, KindsOfStep
<1>6. faults' # faults + 1
  BY <1>1
<1> QED BY <1>5, <1>6 DEF Reload, RevokeElsewhere, Loses, LoseRefresh

\* A session that lives after a step did so before; and a token that is known is
\* of a session that was made.
LEMMA LivesBefore ==
    ASSUME WebTypeInv, KnownInv, [WebNext]_webVars, NEW f \in Families, family[f].live # 0, Lives(f)'
    PROVE  Lives(f)
BY SessionsAreKept DEF SessionsKept, Kept, Lives
LEMMA MadeSessions ==
    ASSUME WebTypeInv, KnownInv, NEW f \in Families
    PROVE  /\ Stored(f) => family[f].live # 0 /\ refresh \in Token /\ Known(refresh)
           /\ \A p \in Refreshers : AskedFor(p, f) => family[f].live # 0
           /\ \A k \in Calls : Asks(k, "logout") /\ call[k].body.family = f
                                 => family[f].live # 0 /\ call[k].body \in Token /\ Known(call[k].body)
           /\ \A k \in Calls : LoginAnswer(k) /\ call[k].body.family = f => family[f].live # 0
<1> SUFFICES /\ Stored(f) => refresh \in Token /\ Known(refresh)
             /\ \A k \in Calls : Asks(k, "logout") => call[k].body \in Token /\ Known(call[k].body)
             /\ family[f].live = 0 => Unheld(f) /\ \A k \in Calls : LoginAnswer(k) => call[k].body.family # f
  BY DEF Unheld
<1>1. Stored(f) => refresh \in Token /\ Known(refresh)
  BY DEF Stored, WebTypeInv, KnownInv
<1>2. \A k \in Calls : Asks(k, "logout") => call[k].body \in Token /\ Known(call[k].body)
  BY CallTypes DEF Asks, BodyIsOfItsKind, KnownInv
<1> QED BY <1>1, <1>2, UnmadeIsUnheld

\* Where the pair that is stored comes from.
LEMMA PairOfStep ==
    ASSUME WebTypeInv, KnownInv, [WebNext]_webVars, ~Reload
    PROVE  \/ access' = access /\ refresh' = refresh
           \/ access' = Nil /\ refresh' = Nil
           \/ \E p \in Refreshers : /\ Arrives(p) /\ refresh' = Asked(p).result
                                    /\ access' = Asked(p).result
           \/ \E k \in Calls : /\ ReceivesLogin(k) /\ refresh' = call[k].body
                               /\ access' = call[k].body
<1> USE DEF store, marks
<1>1. ASSUME NEW k \in Calls, StepOfCall(k), ~ReceivesLogin(k)
      PROVE  (access' = access /\ refresh' = refresh) \/ (access' = Nil /\ refresh' = Nil)
  BY <1>1 DEF StepOfCall, Sends, Serve, Loses, ReceivesQuery, GivesUp, Joins, Begins,
              ReceivesLogout, LoggedOut, Clear
<1>2. ASSUME NEW p \in Refreshers, StepOfRefresh(p), ~Arrives(p)
      PROVE  access' = access /\ refresh' = refresh
  BY <1>2 DEF StepOfRefresh, ServeRefresh, LoseRefresh
<1>3. \A k \in Calls : ReceivesLogin(k) => refresh' = call[k].body /\ access' = call[k].body
  BY TokensSet DEF ReceivesLogin
<1>4. \A p \in Refreshers : Arrives(p) => refresh' = Asked(p).result /\ access' = Asked(p).result
  BY TokensSet DEF Arrives
<1>5. (\E g \in Guards : GuardFails(g) \/ Navigates(g)) \/ FlightFails
        \/ (\E t \in Token : ServeStray(t) \/ Expire(t)) \/ (\E f \in Families : RevokeElsewhere(f))
        \/ Enter \/ SocketOpens \/ UNCHANGED webVars
        => (access' = access /\ refresh' = refresh) \/ (access' = Nil /\ refresh' = Nil)
  BY DEF GuardFails, Navigates, FlightFails, Clear, ServeStray, Expire, RevokeElsewhere, Enter,
         SocketOpens, webVars
<1> QED BY <1>1, <1>2, <1>3, <1>4, <1>5, KindsOfStep

\* A query or a logout under way was so, or is sent from the shell.
LEMMA AsksOfStep ==
    ASSUME WebTypeInv, KnownInv, [WebNext]_webVars, NEW k \in Calls, OfTheShell(k)'
    PROVE  OfTheShell(k) \/ (Sends(k) /\ page = "shell")
<1>1. Under(call'[k]) /\ call'[k].kind \in {"query", "logout"}
  BY DEF OfTheShell, Asks, Under
<1>2. SUFFICES ASSUME ~Sends(k) PROVE Under(call[k]) /\ call[k].kind = call'[k].kind
  BY <1>1 DEF OfTheShell, Asks, Sends
<1>3. CASE call'[k] = call[k]
  BY <1>1, <1>3
<1>4. CASE Serve(k)
  BY <1>1, <1>4, Served DEF Under
<1>5. CASE Loses(k)
  BY <1>1, <1>5 DEF Loses, Under
<1>6. CASE call[k].step = "answered" /\ call'[k] = Wait(call[k])
  BY <1>1, <1>6, CallTypes, Waits DEF Under
<1>7. CASE Under(call[k]) /\ call'[k] = Orphan(call[k])
  BY <1>1, <1>7, SameCalls DEF SameCall
<1>8. CASE call[k].step = "waiting" /\ Arrives(Nil) /\ call'[k] = Resent(call[k], Asked(Nil).result)
  <2>1. PICK t \in Token : t = Asked(Nil).result
    BY <1>8 DEF Arrives
  <2>2. call[k] \in Call /\ Under(call[k])
    BY <1>8, CallTypes DEF Under
  <2> QED BY <1>1, <1>8, <2>1, <2>2, Resends
<1> QED BY <1>1, <1>2, <1>3, <1>4, <1>5, <1>6, <1>7, <1>8, IdleIsAsking, MovesOfCalls DEF CallMoves

\* Who may refresh a session after a step could before, and holds what is held or is
\* given it now, or asks for the token that is stored.
IsGiven(p, f) ==
    /\ ServeRefresh(p) /\ family'[f].live = family[f].live + 1
    /\ Asked(p)'.result.n = family'[f].live
    /\ \A q \in Refreshers \ {p} : Asked(q)' = Asked(q)
LEMMA MayBefore ==
    ASSUME WebTypeInv, KnownInv, [WebNext]_webVars, faults' = 0, NEW p \in Refreshers,
           NEW f \in Families, AskedFor(p, f)', May(p)', Lives(f)'
    PROVE  \/ AskedFor(p, f) /\ May(p) /\ (Asked(p)' = Asked(p) \/ IsGiven(p, f))
           \/ /\ ~Under(Asked(p)) /\ Stored(f) /\ Asked(p)' = AskFor(refresh)
              /\ refresh.n = family'[f].live /\ ~Ok(p)'
<1>1. Under(Asked(p)') /\ Asked(p)'.token.family = f
  BY DEF AskedFor, Under
<1>2. Ok(p)' \/ (Asked(p)'.step = "sent" /\ Asked(p)'.token.n = family'[f].live)
  BY <1>1 DEF May
<1>3. CASE Asked(p)' = Asked(p)
  <2>1. AskedFor(p, f) /\ Asked(p).token \in Token /\ Known(Asked(p).token)
    BY <1>1, <1>3, RefreshTypes DEF AskedFor, KnownInv
  <2>2. /\ Asked(p).token.n \in Nat /\ Asked(p).token.n <= family[f].live
        /\ family[f].live <= family'[f].live
    <3>1. PICK t \in Token : t = Asked(p).token /\ t.family = f /\ Known(t)
      BY <2>1 DEF AskedFor
    <3>2. t.n \in Nat /\ t.n <= family[f].live
      BY <3>1, Tokens, SessionsAreCounted DEF Known
    <3>3. Kept(f)
      BY SessionsAreKept DEF SessionsKept
    <3> QED BY <3>1, <3>2, <3>3 DEF Kept
  <2>3. family[f].live \in Nat
    BY FamilyKinds, SessionsAreCounted DEF WebTypeInv
  <2>4. Asked(p).token.n = family'[f].live => Asked(p).token.n = family[f].live
    BY <2>2, <2>3
  <2> QED BY <1>2, <1>3, <2>1, <2>4 DEF May, Ok, AskedFor
<1>4. CASE ~Under(Asked(p)) /\ refresh # Nil /\ Asked(p)' = AskFor(refresh)
  <2>1. refresh \in Token
    BY <1>4 DEF WebTypeInv
  <2>2. Asked(p)'.step = "sent" /\ Asked(p)'.token = refresh
    BY <1>4, <2>1, Refreshments
  <2> QED BY <1>1, <1>2, <1>4, <2>2 DEF Stored, Ok
<1>5. CASE ServeRefresh(p) /\ Asked(p)' = Give(Asked(p), Given(Asked(p).token))
  <2>1. PICK t \in Token : t = Asked(p).token /\ Present(t) /\ Known(t) /\ t.family \in Families
    BY <1>5, RefreshTypes DEF ServeRefresh, Under, KnownInv
  <2>2. Under(Asked(p)) /\ Asked(p) \in Refreshment
    BY <1>5, RefreshTypes DEF ServeRefresh, Under
  <2>3. PICK v \in Token \cup {Nil} : v = Given(t)
    BY <2>1, Presented
  <2>4. PICK r \in Refreshment : r = Give(Asked(p), v) /\ r.step = "answered" /\ r.token = t
                                   /\ r.result = v
    BY <2>1, <2>2, <2>3, Refreshments
  <2>5. Asked(p)' = r /\ \A q \in Refreshers \ {p} : Asked(q)' = Asked(q)
    BY <1>5, <2>1, <2>3, <2>4, OneRefresh DEF ServeRefresh
  <2>6. t.family = f /\ AskedFor(p, f) /\ v # Nil
    BY <1>1, <1>2, <2>1, <2>2, <2>4, <2>5 DEF AskedFor, Ok
  <2>7. t.n = family[f].live /\ v.n = family[f].live + 1 /\ family'[f].live = family[f].live + 1
    BY <2>1, <2>3, <2>6, Presented
  <2>8. May(p)
    BY <1>5, <2>1, <2>6, <2>7 DEF May, ServeRefresh
  <2> QED BY <1>5, <2>4, <2>5, <2>6, <2>7, <2>8 DEF IsGiven
<1>6. Asked(p)' # Idle /\ faults' = 0
  BY <1>1, IdleIsAsking
<1> QED BY <1>3, <1>4, <1>5, <1>6, MovesOfRefreshes DEF RefreshMoves

\* A session that is gone stays so.
LEMMA GoneStays ==
    ASSUME WebTypeInv, KnownInv, [WebNext]_webVars, faults' = 0,
           NEW f \in Families, family[f].live # 0, Lives(f)', Gone(f)
    PROVE  Gone(f)'
<1>1. ~Stored(f)'
  <2>1. CASE refresh' \in {refresh, Nil}
    BY <2>1 DEF Gone, Stored
  <2>2. CASE \E p \in Refreshers : Arrives(p) /\ refresh' = Asked(p).result
    BY <2>2, Tokens DEF Gone, Stored, AskedFor, Arrives, Under, May, Ok
  <2>3. CASE \E k \in Calls : ReceivesLogin(k) /\ refresh' = call[k].body
    BY <2>3 DEF Stored, Gone, ReceivesLogin
  <2> QED BY <2>1, <2>2, <2>3, StoreOfStep
<1>2. \A p \in Refreshers : AskedFor(p, f)' => ~May(p)'
  BY MayBefore DEF Gone
<1>3. ASSUME NEW k \in Calls, LoginAnswer(k)' PROVE call'[k].body.family # f
  BY <1>3, AnswersOfStep DEF Gone, ServedLogin
<1> QED BY <1>1, <1>2, <1>3 DEF Gone

\* A navigation begins its refresh without an access token.
LEMMA GuardsNavigate ==
    ASSUME WebTypeInv, KnownInv, [WebNext]_webVars, NEW g \in Guards,
           ~Under(Asked(g)), Under(Asked(g)')
    PROVE  access = Nil /\ refresh # Nil /\ Asked(g)' = AskFor(refresh)
<1> USE DEF store, marks
<1>1. g \in Refreshers /\ g # Nil /\ Asked(g) = guard[g] /\ Asked(g)' = guard'[g]
  BY NilIsNoName DEF Refreshers, Asked
<1>2. UNCHANGED guard => FALSE
  BY <1>1
<1>3. ASSUME NEW q \in Refreshers, NEW r \in Refreshment \cup {Idle}, Becomes(q, r)
      PROVE  q = g /\ Asked(g)' = r
  <2>1. q # g => Asked(g)' = Asked(g)
    BY <1>1, <1>3, OneRefresh
  <2> QED BY <1>1, <1>3, <2>1, OneRefresh
<1>4. ASSUME NEW k \in Calls, StepOfCall(k) PROVE FALSE
  BY <1>2, <1>4, NilIsNoName DEF StepOfCall, Sends, Serve, Loses, ReceivesLogin, ReceivesQuery,
       GivesUp, Joins, Begins, Becomes, ReceivesLogout
<1>5. ASSUME NEW q \in Refreshers, StepOfRefresh(q) PROVE FALSE
  <2>1. PICK r : Becomes(q, r)
    BY <1>5 DEF StepOfRefresh, ServeRefresh, LoseRefresh, Arrives
  <2>2. CASE q = g
    <3>1. ServeRefresh(q) \/ LoseRefresh(q) \/ Arrives(q) => Under(Asked(q))
      BY DEF ServeRefresh, LoseRefresh, Arrives, Under
    <3> QED BY <1>5, <2>2, <3>1 DEF StepOfRefresh
  <2>3. CASE q # g
    <3>1. guard'[g] = guard[g]
      BY <1>1, <2>1, <2>3 DEF Becomes, WebTypeInv
    <3> QED BY <1>1, <3>1
  <2> QED BY <2>2, <2>3
<1>6. ASSUME NEW h \in Guards, GuardFails(h) PROVE FALSE
  <2>1. h \in Refreshers /\ Becomes(h, Idle)
    BY <1>6 DEF GuardFails, Refreshers
  <2> QED BY <1>3, <2>1, IdleIsAsking
<1>7. ASSUME NEW h \in Guards, Navigates(h)
      PROVE  access = Nil /\ refresh # Nil /\ Asked(g)' = AskFor(refresh)
  <2>1. h \in Refreshers /\ Becomes(h, AskFor(refresh)) /\ AskFor(refresh) \in Refreshment
          /\ access = Nil /\ refresh # Nil
    BY <1>7, Refreshments DEF Navigates, Refreshers, WebTypeInv
  <2> QED BY <1>3, <2>1
<1>8. FlightFails => FALSE
  BY <1>2, NilIsNoName DEF FlightFails, Becomes
<1>9. Reload => FALSE
  BY <1>1, IdleIsAsking DEF Reload
<1>10. (\E t \in Token : ServeStray(t) \/ Expire(t)) \/ (\E f \in Families : RevokeElsewhere(f))
        \/ Enter \/ SocketOpens \/ UNCHANGED webVars => FALSE
  BY <1>2 DEF ServeStray, Expire, RevokeElsewhere, Enter, SocketOpens, webVars
<1> QED BY <1>4, <1>5, <1>6, <1>7, <1>8, <1>9, <1>10, KindsOfStep

\* Navigations that may not refresh a session do not come to, while there is an
\* access token or no refresh token.
LEMMA SilentStays ==
    ASSUME WebTypeInv, KnownInv, [WebNext]_webVars, faults' = 0,
           NEW f \in Families, Lives(f)', Silent(f), access # Nil \/ refresh = Nil
    PROVE  Silent(f)'
<1> SUFFICES ASSUME NEW g \in Guards, AskedFor(g, f)', May(g)' PROVE FALSE
  BY DEF Silent
<1>1. g \in Refreshers /\ g # Nil
  BY NilIsNoName DEF Refreshers
<1>2. ~Under(Asked(g)) /\ Stored(f) /\ Asked(g)' = AskFor(refresh)
  BY <1>1, MayBefore DEF Silent
<1>3. Under(Asked(g)')
  BY DEF AskedFor, Under
<1> QED BY <1>2, <1>3, GuardsNavigate

\* A refresh fails, while nothing is lost, only if its session is dead.
LEMMA FailingKept ==
    ASSUME WebTypeInv, KnownInv, EndInv, [WebNext]_webVars, faults' = 0,
           NEW p \in Refreshers, Failing(p)'
    PROVE  family'[Asked(p)'.token.family].dead = TRUE
<1>1. faults = 0 /\ Asked(p)'.step = "answered" /\ Asked(p)'.result = Nil
  BY Faultless DEF Failing
<1>2. CASE Asked(p)' = Asked(p)
  <2>1. Under(Asked(p)) /\ family[Asked(p).token.family].dead = TRUE
    BY <1>1, <1>2 DEF Failing, EndInv, Under
  <2>2. PICK t \in Token : t = Asked(p).token /\ Known(t)
    BY <2>1, RefreshTypes DEF KnownInv
  <2>3. family[t.family].live # 0 /\ t.family \in Families
    <3>1. family[t.family].live \in 1..MaxTokens
      BY <2>2, KnownSessions
    <3> QED BY <3>1, <2>2, Tokens, SessionsAreCounted
  <2>4. Kept(t.family)
    BY <2>3, SessionsAreKept DEF SessionsKept
  <2> QED BY <1>2, <2>1, <2>2, <2>3, <2>4 DEF Kept
<1>3. CASE refresh # Nil /\ Asked(p)' = AskFor(refresh)
  BY <1>1, <1>3, Refreshments DEF WebTypeInv
<1>4. CASE ServeRefresh(p) /\ Asked(p)' = Give(Asked(p), Given(Asked(p).token))
  <2>1. PICK t \in Token : t = Asked(p).token /\ Present(t) /\ Known(t) /\ t.family \in Families
    BY <1>4, RefreshTypes DEF ServeRefresh, Under, KnownInv
  <2>2. Under(Asked(p)) /\ Asked(p) \in Refreshment
    BY <1>4, RefreshTypes DEF ServeRefresh, Under
  <2>3. PICK v \in Token \cup {Nil} : v = Given(t)
    BY <2>1, Presented
  <2>4. Give(Asked(p), v).token = t /\ Give(Asked(p), v).result = v
    BY <2>1, <2>2, <2>3, Refreshments
  <2>5. v = Nil /\ Asked(p)'.token = t
    BY <1>1, <1>4, <2>1, <2>3, <2>4
  <2>6. family'[t.family].dead = TRUE
    <3>1. Given(t) = Nil /\ Nil \notin Token
      BY <2>3, <2>5, NilIsNoName
    <3>2. Given(t) \in Token \/ family'[t.family].dead = TRUE
      BY <2>1, Presented
    <3> QED BY <3>1, <3>2
  <2> QED BY <2>5, <2>6
<1> QED BY <1>1, <1>2, <1>3, <1>4, IdleIsAsking, MovesOfRefreshes DEF RefreshMoves

\* Every answer is one of the API.
LEMMA StatusKept ==
    ASSUME WebTypeInv, KnownInv, EndInv, [WebNext]_webVars, faults' = 0,
           NEW k \in Calls, call'[k].step = "answered"
    PROVE  call'[k].status \in {200, 401}
<1>1. faults = 0 /\ ~Loses(k)
  BY Faultless
<1>2. call[k].step = "answered" => call[k].status \in {200, 401}
  BY <1>1 DEF EndInv
<1>3. CASE call'[k] = call[k]
  BY <1>2, <1>3
<1>4. CASE Serve(k)
  BY <1>4, Served
<1>5. CASE call[k].step = "answered" /\ call'[k] = Wait(call[k])
  BY <1>5, CallTypes, Waits DEF Under
<1>6. CASE Under(call[k]) /\ call'[k] = Orphan(call[k])
  BY <1>2, <1>6, SameCalls DEF SameCall
<1>7. CASE call[k].step = "waiting" /\ Arrives(Nil) /\ call'[k] = Resent(call[k], Asked(Nil).result)
  <2>1. PICK t \in Token : t = Asked(Nil).result
    BY <1>7 DEF Arrives
  <2>2. call[k] \in Call
    BY <1>7, CallTypes DEF Under
  <2> QED BY <1>7, <2>1, <2>2, Resends
<1>8. ~Sends(k)
  BY DEF Sends
<1> QED BY <1>1, <1>3, <1>4, <1>5, <1>6, <1>7, <1>8, IdleIsAsking, MovesOfCalls DEF CallMoves

\* While nothing is lost, the tokens of a session that lives are numbered on by who
\* may refresh it.
LEMMA LiveOfLiving ==
    ASSUME WebTypeInv, KnownInv, EndInv, [WebNext]_webVars, faults' = 0,
           NEW f \in Families, family[f].live # 0, Lives(f)'
    PROVE  \/ family'[f].live = family[f].live
           \/ \E q \in Refreshers : ServeRefresh(q) /\ AskedFor(q, f) /\ May(q)
<1>1. stray = {}
  BY Faultless DEF EndInv
<1>2. ASSUME NEW q \in Refreshers, ServeRefresh(q), AskedFor(q, f), ~May(q)
      PROVE  family'[f].live = family[f].live
  <2>1. PICK t \in Token : t = Asked(q).token /\ Present(t) /\ Known(t) /\ t.family = f
    BY <1>2, RefreshTypes DEF ServeRefresh, Under, KnownInv, AskedFor
  <2>2. t.n # family[f].live
    BY <1>2, <2>1 DEF May, ServeRefresh
  <2> QED BY <2>1, <2>2, Presented
<1> QED BY <1>1, <1>2, LiveOfStep

\* Who was answered stays alone.
LEMMA AloneKept ==
    ASSUME WebTypeInv, KnownInv, NewInv, EndInv, [WebNext]_webVars, faults' = 0,
           NEW f \in Families, Lives(f)', NEW p \in Refreshers, AskedFor(p, f)', Ok(p)'
    PROVE  Alone(p, f)'
<1>1. faults = 0 /\ May(p)'
  BY Faultless DEF May
<1>2. AskedFor(p, f) /\ May(p) /\ (Asked(p)' = Asked(p) \/ IsGiven(p, f))
  BY <1>1, MayBefore
<1>3. family[f].live # 0 /\ Lives(f)
  BY <1>2, MadeSessions, LivesBefore
<1>4. \A q \in Refreshers : AskedFor(q, f) /\ Ok(q) => Alone(q, f)
  BY <1>1, <1>3 DEF EndInv
<1>5. CASE Asked(p)' = Asked(p)
  <2>1. Ok(p) /\ Alone(p, f)
    BY <1>2, <1>4, <1>5 DEF Ok
  <2>2. family'[f].live = family[f].live
    <3>1. ASSUME NEW q \in Refreshers, ServeRefresh(q), AskedFor(q, f), May(q) PROVE FALSE
      BY <2>1, <3>1 DEF Alone, ServeRefresh, Ok
    <3> QED BY <3>1, <1>3, LiveOfLiving
  <2>3. Stored(f)' => refresh' = refresh /\ Stored(f)
    <3>1. CASE refresh' \in {refresh, Nil}
      BY <3>1 DEF Stored
    <3>2. ASSUME NEW q \in Refreshers, Arrives(q), refresh' = Asked(q).result, Stored(f)' PROVE FALSE
      <4>1. AskedFor(q, f) /\ Ok(q)
        BY <3>2, Tokens DEF Stored, AskedFor, Arrives, Under, Ok
      <4>2. q = p
        BY <4>1, <2>1 DEF Alone, May
      <4>3. Asked(p)' = Idle
        BY <3>2, <4>2, OneRefresh DEF Arrives
      <4> QED BY <4>3, IdleIsAsking DEF Ok
    <3>3. ASSUME NEW k \in Calls, ReceivesLogin(k), refresh' = call[k].body, Stored(f)' PROVE FALSE
      BY <3>3, <1>2 DEF Stored, ReceivesLogin, NewInv, Unheld
    <3> QED BY <3>1, <3>2, <3>3, StoreOfStep
  <2>4. ASSUME NEW q \in Refreshers, AskedFor(q, f)', May(q)' PROVE q = p
    <3>1. CASE AskedFor(q, f) /\ May(q)
      BY <2>1, <3>1 DEF Alone
    <3>2. CASE Stored(f) /\ refresh.n = family'[f].live
      <4>1. refresh.n \in Nat /\ refresh.n < family[f].live
        BY <2>1, <3>2, MadeSessions, Tokens, SessionsAreCounted DEF Alone
      <4> QED BY <3>2, <4>1, <2>2
    <3> QED BY <2>4, <3>1, <3>2, MayBefore
  <2> QED BY <1>5, <2>1, <2>2, <2>3, <2>4 DEF Alone
<1>6. CASE IsGiven(p, f)
  <2>1. family'[f].live = family[f].live + 1 /\ Asked(p)'.result.n = family'[f].live
          /\ refresh' = refresh /\ Asked(p).step = "sent" /\ family[f].live \in Nat
    BY <1>6, FamilyKinds, SessionsAreCounted DEF IsGiven, ServeRefresh, store, WebTypeInv
  <2>2. Stored(f)' => refresh'.n < family'[f].live
    <3>1. Stored(f) => refresh.n \in Nat /\ refresh.n <= family[f].live
      BY MadeSessions, Tokens, SessionsAreCounted DEF Known, Stored
    <3> QED BY <2>1, <3>1 DEF Stored
  <2>3. ASSUME NEW q \in Refreshers, AskedFor(q, f)', May(q)', q # p PROVE FALSE
    <3>1. Asked(q)' = Asked(q) /\ AskedFor(q, f)
      BY <1>6, <2>3 DEF IsGiven, AskedFor, Under
    <3>2. CASE Ok(q)
      BY <1>2, <1>4, <2>3, <3>1, <3>2 DEF Alone
    <3>3. CASE ~Ok(q)
      <4>1. PICK t \in Token : t = Asked(q).token /\ t.family = f /\ Known(t)
        BY <3>1, RefreshTypes DEF AskedFor, KnownInv
      <4>2. t.n = family'[f].live
        BY <2>3, <3>1, <3>3, <4>1 DEF May, Ok
      <4>3. t.n \in Nat /\ t.n <= family[f].live
        BY <4>1, Tokens, SessionsAreCounted DEF Known
      <4> QED BY <2>1, <4>2, <4>3
    <3> QED BY <3>2, <3>3
  <2> QED BY <2>1, <2>2, <2>3 DEF Alone
<1> QED BY <1>2, <1>5, <1>6

\* Navigations may not refresh the session whose access token is held.
LEMMA HolderIsSilent ==
    ASSUME WebTypeInv, KnownInv, StoreInv, NewInv, EndInv, [WebNext]_webVars, faults' = 0,
           NEW f \in Families, Lives(f)', access' # Nil, access'.family = f
    PROVE  Silent(f)'
<1>1. faults = 0 /\ ~Reload
  BY Faultless
<1>2. CASE access' = access
  <2>1. Stored(f) /\ family[f].live # 0
    BY <1>2, MadeSessions DEF StoreInv, Stored
  <2>2. Silent(f)
    BY <1>1, <1>2, <2>1, LivesBefore DEF EndInv
  <2> QED BY <1>2, <2>2, SilentStays
<1>3. ASSUME NEW p \in Refreshers, Arrives(p), access' = Asked(p).result PROVE Silent(f)'
  <2>1. AskedFor(p, f) /\ Ok(p)
    BY <1>3, Tokens DEF AskedFor, Arrives, Under, Ok
  <2>2. Alone(p, f)
    BY <1>1, <2>1, MadeSessions, LivesBefore DEF EndInv
  <2>3. Asked(p)' = Idle /\ \A q \in Refreshers \ {p} : Asked(q)' = Asked(q)
    BY <1>3, OneRefresh DEF Arrives
  <2>4. ASSUME NEW g \in Guards, AskedFor(g, f)', May(g)' PROVE FALSE
    <3>1. g \in Refreshers /\ g # p /\ Under(Asked(g)')
      BY <2>3, <2>4, IdleIsAsking DEF Refreshers, AskedFor, Under
    <3>2. Asked(g)' = Asked(g) /\ Under(Asked(g))
      BY <2>3, <3>1
    <3>3. AskedFor(g, f) /\ May(g)
      BY <2>4, <3>1, <3>2, MayBefore
    <3> QED BY <2>2, <3>1, <3>3 DEF Alone
  <2> QED BY <2>4 DEF Silent
<1>4. ASSUME NEW k \in Calls, ReceivesLogin(k), access' = call[k].body PROVE Silent(f)'
  <2>1. Unheld(f) /\ UNCHANGED <<flight, guard>>
    BY <1>4 DEF ReceivesLogin, NewInv
  <2>2. \A p \in Refreshers : ~AskedFor(p, f)'
    BY <2>1 DEF Unheld, AskedFor, Asked, Under
  <2> QED BY <2>2 DEF Silent, Refreshers
<1> QED BY <1>1, <1>2, <1>3, <1>4, PairOfStep

\* With a refresh token alone, the tab has asked for nothing.
LEMMA ReloadedIsQuiet ==
    ASSUME WebTypeInv, KnownInv, StoreInv, EndInv, [WebNext]_webVars, faults' = 0,
           access' = Nil, refresh' # Nil, NEW k \in Calls
    PROVE  ~OfTheShell(k)'
<1>1. faults = 0 /\ ~Reload
  BY Faultless
<1>2. access = Nil /\ refresh # Nil
  <2>1. \A p \in Refreshers : Arrives(p) => Asked(p).result # Nil
    BY Tokens DEF Arrives
  <2>2. \A j \in Calls : ReceivesLogin(j) => call[j].body # Nil
    BY Tokens DEF ReceivesLogin
  <2> QED BY <1>1, <2>1, <2>2, PairOfStep
<1>3. ~OfTheShell(k) /\ page # "shell"
  BY <1>1, <1>2 DEF EndInv, StoreInv
<1> QED BY <1>3, AsksOfStep

\* A logout that is sent names the session of the access token.
LEMMA SentLeaves ==
    ASSUME WebTypeInv, KnownInv, StoreInv, NewInv, EndInv, [WebNext]_webVars, faults' = 0,
           NEW k \in Calls, Sends(k), call'[k].kind = "logout",
           NEW f \in Families, Lives(f)', call'[k].body.family = f
    PROVE  Leaves(k, f)'
<1> USE DEF store, marks
<1>1. /\ access # Nil /\ access = refresh /\ access' = access /\ call'[k].body = access
      /\ call'[k].access = access /\ call'[k].step = "sent"
  BY DEF Sends, StoreInv
<1>2. Silent(f)'
  BY <1>1, HolderIsSilent
<1> QED BY <1>1, <1>2 DEF Leaves, Owner

\* And stays one that leaves.
LEMMA LeavesKept ==
    ASSUME WebTypeInv, KnownInv, NewInv, EndInv, [WebNext]_webVars, faults' = 0,
           NEW k \in Calls, Asks(k, "logout"), Asks(k, "logout")', call'[k].body = call[k].body,
           NEW f \in Families, Lives(f)', call[k].body.family = f
    PROVE  Leaves(k, f)'
<1> USE DEF store, marks
<1>1. faults = 0 /\ ~Loses(k) /\ family[f].live # 0 /\ Lives(f)
  BY Faultless, MadeSessions, LivesBefore
<1>2. Leaves(k, f) /\ (access # Nil \/ refresh = Nil)
  BY <1>1 DEF EndInv, OfTheShell
<1>3. Silent(f)'
  BY <1>2, SilentStays DEF Leaves
<1>4. Gone(f) => Gone(f)'
  BY <1>1, GoneStays
<1>5. call[k].body \in Token /\ Known(call[k].body) /\ Under(call[k])
  BY MadeSessions DEF Asks
<1>6. Owner(call[k].body)' = Owner(call[k].body)
  <2>1. PICK t \in Token : t = call[k].body /\ Known(t)
    BY <1>5
  <2>2. Owner(t)' = Owner(t)
    BY <2>1, OwnersStay
  <2> QED BY <2>1, <2>2, <1>5 DEF Owner
\* It is as it was, but for what becomes of its place in the cache.
<1>7. ASSUME call'[k].step = call[k].step, call'[k].status = call[k].status,
             call'[k].access = call[k].access
      PROVE  Leaves(k, f)'
  <2>1. call[k].access # Nil => Owner(call[k].access)' = Owner(call[k].access)
    <3>1. SUFFICES ASSUME call[k].access # Nil
                   PROVE  Owner(call[k].access)' = Owner(call[k].access)
      OBVIOUS
    <3>2. call[k].access \in Token /\ Known(call[k].access)
      BY <1>5, <3>1, CallTypes DEF KnownInv
    <3>3. family'[call[k].access.family].user = family[call[k].access.family].user
      <4>1. PICK t \in Token : t = call[k].access /\ Known(t)
        BY <3>2
      <4>2. Owner(t)' = Owner(t)
        BY <4>1, OwnersStay
      <4> QED BY <4>1, <4>2 DEF Owner
    <3> QED BY <1>7, <3>3 DEF Owner
  <2> QED BY <1>2, <1>3, <1>4, <1>6, <1>7, <2>1 DEF Leaves, Owner
<1>8. CASE Serve(k)
  <2>1. ServedLogout(k) /\ call'[k].step = "answered" /\ call[k].step = "sent"
    BY <1>8, Served DEF Asks, ServedQuery, ServedLogin, Logins
  <2>2. call'[k].status = 200 => Gone(f)
    BY <1>1, <1>2, <2>1 DEF ServedLogout, Leaves, Lives
  <2> QED BY <1>3, <1>4, <2>1, <2>2 DEF Leaves
<1>9. CASE call'[k].step = "waiting"
  BY <1>3, <1>9 DEF Leaves
<1>10. CASE call[k].step = "waiting" /\ Arrives(Nil) /\ call'[k] = Resent(call[k], Asked(Nil).result)
  <2>1. PICK t \in Token : t = Asked(Nil).result /\ Known(t)
    BY <1>10 DEF Arrives
  <2>2. call'[k].access = t /\ call'[k].step = "sent"
    BY <1>5, <1>10, <2>1, CallTypes, Resends
  <2>3. CASE t.family = f
    BY <1>3, <2>2, <2>3 DEF Leaves, Owner
  <2>4. CASE t.family # f
    <3>1. ~Stored(f)'
      BY <1>10, <2>1, <2>4, TokensSet DEF Arrives, Stored
    <3>2. Asked(Nil)' = Idle /\ Nil \in Refreshers
      BY <1>10, OneRefresh, IdleIsAsking DEF Arrives, Refreshers
    <3>3. \A p \in Refreshers : AskedFor(p, f)' => ~May(p)'
      BY <1>3, <3>2, IdleIsAsking DEF Silent, Refreshers, AskedFor
    <3>4. ASSUME NEW j \in Calls, LoginAnswer(j)', call'[j].body.family = f PROVE FALSE
      <4>1. LoginAnswer(j) /\ call[j].body.family = f
        BY <1>1, <3>4, AnswersOfStep DEF ServedLogin
      <4> QED BY <4>1 DEF NewInv, Unheld
    <3>5. Gone(f)'
      BY <3>1, <3>3, <3>4 DEF Gone
    <3> QED BY <1>3, <2>2, <3>5 DEF Leaves
  <2> QED BY <2>3, <2>4
<1>11. ~Sends(k) /\ Under(call'[k])
  BY <1>5, IdleIsAsking DEF Sends, Asks
<1>12. CASE call'[k] = Orphan(call[k])
  <2>1. PICK c \in Call : c = call[k]
    BY <1>5, CallTypes
  <2>2. call'[k].step = c.step /\ call'[k].status = c.status /\ call'[k].access = c.access
    BY <1>12, <2>1, Orphans
  <2> QED BY <1>7, <2>1, <2>2
<1>13. CASE call[k].step = "answered" /\ call'[k] = Wait(call[k])
  BY <1>5, <1>9, <1>13, CallTypes, Waits
<1> QED BY <1>1, <1>7, <1>8, <1>10, <1>11, <1>12, <1>13, IdleIsAsking, MovesOfCalls DEF CallMoves

\* The parts together.
LEMMA EndKept ==
    ASSUME WebTypeInv, KnownInv, StoreInv, NewInv, EndInv, [WebNext]_webVars
    PROVE  EndInv'
<1> SUFFICES ASSUME faults' = 0
             PROVE  /\ stray' = {}
                    /\ \A p \in Refreshers : Failing(p)' => family'[Asked(p)'.token.family].dead = TRUE
                    /\ \A k \in Calls : call'[k].step = "answered" => call'[k].status \in {200, 401}
                    /\ access' = Nil /\ refresh' # Nil => \A k \in Calls : ~OfTheShell(k)'
                    /\ \A f \in Families : Lives(f)' =>
                         /\ \A p \in Refreshers : AskedFor(p, f)' /\ Ok(p)' => Alone(p, f)'
                         /\ access' # Nil /\ access'.family = f => Silent(f)'
                         /\ \A k \in Calls : Asks(k, "logout")' /\ call'[k].body.family = f
                                               => Leaves(k, f)'
  BY DEF EndInv
<1>1. stray' = {}
  BY Faultless, StrayOfStep DEF EndInv
<1>2. ASSUME NEW f \in Families, Lives(f)', NEW k \in Calls, Asks(k, "logout")',
             call'[k].body.family = f
      PROVE  Leaves(k, f)'
  <2>1. call'[k].kind = "logout"
    BY <1>2 DEF Asks
  <2>2. CASE Sends(k)
    BY <1>2, <2>1, <2>2, SentLeaves
  <2>3. CASE Asks(k, "logout") /\ call'[k].body = call[k].body
    BY <1>2, <2>3, LeavesKept
  <2> QED BY <1>2, <2>2, <2>3, LogoutsOfStep
<1> QED BY <1>1, <1>2, FailingKept, StatusKept, ReloadedIsQuiet, AloneKept, HolderIsSilent

\* The session of a logout that is over was dead already, or is held by nobody.
LEMMA EndedKept ==
    ASSUME WebTypeInv, KnownInv, EndInv, EndedInv, [WebNext]_webVars
    PROVE  EndedInv'
<1> USE DEF store, marks
<1>1. ASSUME NEW f \in Families, family[f].live # 0, family[f].dead = TRUE
      PROVE  family'[f].live # 0 /\ family'[f].dead = TRUE
  <2>1. Kept(f) /\ family[f].live \in 0..MaxTokens /\ family'[f].live \in 0..MaxTokens
    BY SessionsAreKept, WebTypesKept, FamilyKinds DEF SessionsKept, WebTypeInv
  <2> QED BY <1>1, <2>1, SessionsAreCounted DEF Kept
<1>2. ended \subseteq Families /\ ended' \subseteq Families
  BY WebTypesKept DEF WebTypeInv
<1>3. ASSUME NEW f \in ended', f \notin ended
      PROVE  family[f].live # 0 /\ family[f].dead = TRUE
  <2>1. ASSUME NEW k \in Calls, ReceivesLogout(k) PROVE family[f].live # 0 /\ family[f].dead = TRUE
    <3>1. /\ faults = 0 /\ ~(call[k].again /\ call[k].status = 401) /\ refresh # Nil
          /\ refresh.family = f /\ call[k].body.family = f
      BY <1>3, <2>1 DEF ReceivesLogout, LoggedOut
    <3>2. call[k].step = "answered" /\ call[k].kind = "logout" /\ Asks(k, "logout")
      BY <2>1 DEF ReceivesLogout, Asks, Under
    <3>3. call[k].status = 200
      <4>1. call[k].status \in {200, 401}
        BY <3>1, <3>2 DEF EndInv
      <4>2. call[k].status \in {0, 200} \/ call[k].again
        BY <2>1, <3>1 DEF ReceivesLogout
      <4> QED BY <3>1, <4>1, <4>2
    <3>4. Lives(f) => Gone(f)
      BY <1>2, <1>3, <3>1, <3>2, <3>3 DEF EndInv, Leaves
    <3>5. Stored(f) /\ family[f].live # 0
      BY <1>2, <1>3, <3>1, <3>2, MadeSessions DEF Stored
    <3> QED BY <3>4, <3>5 DEF Gone, Lives
  <2>2. CASE FlightFails
    <3>1. faults = 0 /\ f = flight.token.family /\ Nil \in Refreshers /\ Failing(Nil)
            /\ Asked(Nil) = flight
      BY <1>3, <2>2 DEF FlightFails, Failing, Asked, Refreshers
    <3>2. family[f].dead = TRUE
      BY <3>1 DEF EndInv
    <3>3. AskedFor(Nil, f)
      BY <3>1 DEF AskedFor, Failing, Under
    <3> QED BY <1>2, <1>3, <3>1, <3>2, <3>3, MadeSessions
  <2>3. \A k \in Calls : StepOfCall(k) /\ ~ReceivesLogout(k) => ended' = ended
    <3>1. \A k \in Calls : Sends(k) \/ Serve(k) \/ Loses(k) \/ ReceivesLogin(k) => ended' = ended
      BY DEF Sends, Serve, Loses, ReceivesLogin
    <3>2. \A k \in Calls : ReceivesQuery(k) \/ GivesUp(k) \/ Joins(k) \/ Begins(k) => ended' = ended
      BY DEF ReceivesQuery, GivesUp, Joins, Begins
    <3> QED BY <3>1, <3>2 DEF StepOfCall
  <2>4. \A p \in Refreshers : StepOfRefresh(p) => ended' = ended
    BY DEF StepOfRefresh, ServeRefresh, LoseRefresh, Arrives
  <2>5. (\E g \in Guards : GuardFails(g) \/ Navigates(g))
          \/ (\E t \in Token : ServeStray(t) \/ Expire(t)) \/ (\E g \in Families : RevokeElsewhere(g))
          \/ Enter \/ Reload \/ SocketOpens \/ UNCHANGED webVars => ended' = ended
    BY DEF GuardFails, Navigates, ServeStray, Expire, RevokeElsewhere, Enter, Reload, SocketOpens,
           webVars
  <2> QED BY <1>3, <2>1, <2>2, <2>3, <2>4, <2>5, KindsOfStep
<1> QED BY <1>1, <1>2, <1>3 DEF EndedInv

-----------------------------------------------------------------------------
(* The inductive invariant, and what it says.                              *)

WebInv == /\ WebTypeInv /\ KnownInv /\ StoreInv /\ OutInv /\ TabInv
          /\ NewInv /\ ReuseInv /\ EndInv /\ EndedInv

\* It holds of a tab that is opened, with a stored session or without.
LEMMA WebInitial == WebInit => WebInv
<1> SUFFICES ASSUME WebInit PROVE WebInv
  OBVIOUS
<1>1. /\ access = Nil /\ page = "login" /\ cached = {} /\ socket = Off
      /\ flight = Idle /\ stray = {} /\ expired = {} /\ faults = 0
      /\ reused = {} /\ excused = {} /\ ended = {}
      /\ signedOut = FALSE /\ late = FALSE /\ outlived = {}
      /\ guard = [g \in Guards |-> Idle] /\ call = [k \in Calls |-> Idle]
  BY DEF WebInit
<1>2. \A k \in Calls : call[k] = Idle /\ ~Under(call[k]) /\ ~LoginAnswer(k)
  BY <1>1, IdleIsAsking DEF LoginAnswer
<1>3. \A p \in Refreshers : Asked(p) = Idle /\ ~Under(Asked(p))
  BY <1>1, IdleIsAsking DEF Asked, Refreshers
<1>4. \A f : \A p \in Refreshers : ~AskedFor(p, f)
  BY <1>3 DEF AskedFor
<1>5. \A k \in Calls, kind \in {"query", "logout"} : ~Asks(k, kind)
  BY <1>2 DEF Asks
<1>6. /\ family \in [Families -> Made \cup {Unmade}] /\ refresh \in Token \cup {Nil}
      /\ refresh # Nil => refresh.n = 1 /\ family[refresh.family].live = 1
  <2>1. CASE refresh = Nil /\ family = [f \in Families |-> Unmade]
    BY <2>1
  <2>2. ASSUME NEW u \in People, refresh = [family |-> 1, n |-> 1],
               family = [f \in Families |-> IF f = 1 THEN [user |-> u, live |-> 1, dead |-> FALSE]
                                            ELSE Unmade]
        PROVE  /\ family \in [Families -> Made \cup {Unmade}] /\ refresh \in Token
               /\ refresh.n = 1 /\ family[refresh.family].live = 1
    <3>1. 1 \in Families /\ 1 \in 1..MaxTokens
      BY SessionsAreCounted DEF Families
    <3>2. [user |-> u, live |-> 1, dead |-> FALSE] \in Made
      BY <3>1 DEF Made
    <3> QED BY <2>2, <3>1, <3>2 DEF Token
  <2> QED BY <2>1, <2>2 DEF WebInit
<1>7. WebTypeInv
  <2>1. call \in [Calls -> Asking] /\ guard \in [Guards -> Refreshment \cup {Idle}]
    BY <1>1, IdleIsAsking
  <2>2. faults \in 0..MaxFaults
    BY <1>1, SessionsAreCounted
  <2> QED BY <1>1, <1>6, <2>1, <2>2 DEF WebTypeInv
<1>8. KnownInv
  BY <1>1, <1>2, <1>3, <1>6 DEF KnownInv, Known
<1>9. StoreInv /\ OutInv
  BY <1>1 DEF StoreInv, OutInv
<1>10. TabInv
  <2>1. OnePerson
    BY <1>3 DEF OnePerson
  <2>2. OneTab
    BY <1>1, <1>5 DEF OneTab, Fits, Off
  <2> QED BY <2>1, <2>2 DEF TabInv
<1>11. NewInv /\ EndedInv
  BY <1>1, <1>2 DEF NewInv, EndedInv
<1>12. ReuseInv
  <2>1. \A f \in Families : Single(f)
    BY <1>4, <1>6 DEF Single, Stored
  <2> QED BY <1>1, <2>1 DEF ReuseInv
<1>13. EndInv
  <2>1. \A p \in Refreshers : ~Failing(p)
    BY <1>3, IdleIsAsking DEF Failing
  <2>2. \A k \in Calls : call[k].step # "answered" /\ ~OfTheShell(k)
    BY <1>2, <1>5, IdleIsAsking DEF OfTheShell
  <2> QED BY <1>1, <1>4, <1>5, <2>1, <2>2 DEF EndInv
<1> QED BY <1>7, <1>8, <1>9, <1>10, <1>11, <1>12, <1>13 DEF WebInv

\* And every step keeps it.
LEMMA WebInductive == WebInv /\ [WebNext]_webVars => WebInv'
BY WebTypesKept, KnownKept, StoreKept, OutKept, TabKept, NewKept, ReuseKept, EndKept, EndedKept
   DEF WebInv

\* Whatever the people, the requests, the navigations and the bounds, the invariant
\* holds of every reachable state of the tab.
THEOREM WebInvariance == WebSpec => []WebInv
<1>1. WebInit => WebInv
  BY WebInitial
<1>2. WebInv /\ [WebNext]_webVars => WebInv'
  BY WebInductive
<1> QED BY <1>1, <1>2, PTL DEF WebSpec

\* The token store, the page, the cache, the requests and what the API has of the
\* sessions stay what WebTypeOK says.
THEOREM WebTypeCorrect == WebSpec => []WebTypeOK
<1>1. WebInv => WebTypeOK
  <2> SUFFICES ASSUME WebInv PROVE WebTypeOK
    OBVIOUS
  <2>1. WebTypeInv
    BY DEF WebInv
  <2>2. \A k \in Calls : call[k].step \in {"idle", "sent", "answered", "waiting"}
    BY <2>1, CallTypes
  <2> QED BY <2>1, <2>2 DEF WebTypeInv, WebTypeOK
<1> QED BY <1>1, WebInvariance, PTL

\* However many calls of the tab are refused at once (tryRefresh, lib/api.ts), the
\* API burns a session for a reuse only where ReuseIsExcused allows it.
THEOREM TokensArePresentedOnce == WebSpec => []ReuseIsExcused
<1>1. WebInv => ReuseIsExcused
  BY DEF WebInv, ReuseInv, ReuseIsExcused
<1> QED BY <1>1, WebInvariance, PTL

\* After a logout no answer that arrives late brings tokens back to the store,
\* unless a refresh was under way when the store was cleared.
THEOREM LogoutsHold == WebSpec => []SignedOutStaysOut
<1>1. WebInv => SignedOutStaysOut
  BY DEF WebInv, OutInv, SignedOutStaysOut
<1> QED BY <1>1, WebInvariance, PTL

\* The shell shows the data, and the socket is, of the person whose tokens the store
\* holds, with the exceptions that TabIsOfOnePerson names.
THEOREM TabsAreOfOnePerson == WebSpec => []TabIsOfOnePerson
<1>1. WebInv => TabIsOfOnePerson
  <2> SUFFICES ASSUME WebInv, page = "shell", access # Nil, ~late
               PROVE  /\ Owner(access) = Owner(refresh)
                      /\ cached \subseteq {Owner(access)} \cup outlived
                      /\ socket.step = "on" => socket.user \in {Owner(access)} \cup outlived
    BY DEF TabIsOfOnePerson
  <2>1. OneTab /\ access = refresh
    BY DEF WebInv, TabInv, StoreInv
  <2>2. Seen = {Owner(access)} \cup outlived
    BY DEF Seen, Holder
  <2>3. socket.step = "on" => socket.step # "off"
    OBVIOUS
  <2> QED BY <2>1, <2>2, <2>3 DEF OneTab
<1> QED BY <1>1, WebInvariance, PTL

\* A logout whose messages were not lost leaves the API no token of the session that
\* it would take (the retry of a refused logout, lib/api.ts, included).
THEOREM LogoutsEndSessions == WebSpec => []LogoutEndsSession
<1>1. WebInv => LogoutEndsSession
  BY Zenon DEF WebInv, EndedInv, LogoutEndsSession
<1> QED BY <1>1, WebInvariance, PTL
=============================================================================
