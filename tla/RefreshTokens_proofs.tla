------------------------ MODULE RefreshTokens_proofs ------------------------
(***************************************************************************)
(* Proofs about RefreshTokens, for any number of tokens, users and         *)
(* handlers.  A row changes in three ways only: it is new, it is rotated,  *)
(* or it is worn (revoked, expired, purged or left alone).  IInv describes *)
(* the forest of tokens: who belongs to a family, what a token that has    *)
(* successors looks like, and why two tokens without successors in one     *)
(* family need a token that was rotated twice.                             *)
(***************************************************************************)
EXTENDS RefreshTokens, TLAPS

TokenState == Row \cup {Unissued} \cup [phase : {"purged"}, family : Tokens]

\* Row q may be what revocation, time or the purge made of row r.
Worn(r, q) ==
    \/ q = r
    \/ r.phase = "issued" /\ q \in {Revoked(r), [r EXCEPT !.expired = TRUE], Purged(r)}

Dead(f) == \A t \in Tokens : Member(t, f) => ~Live(t)
Forked(f) ==
    \E m \in Tokens : Member(m, f) /\ \E a, b \in Successors(m) : a # b
Leaf(t) == Successors(t) = {}

\* The founder of a family is no longer fresh, and the stored tokens of a
\* family have one owner.
FamiliesOK ==
    /\ \A t \in Tokens : ~Fresh(t) => ~Fresh(token[t].family)
    /\ \A t, s \in Tokens :
         Stored(t) /\ Stored(s) /\ token[t].family = token[s].family
           => token[t].user = token[s].user

\* A successor and the token it was made from are of one family.
ParentsOK ==
    \A t, n \in Tokens : parent[n] = t =>
        ~Fresh(t) /\ ~Fresh(n) /\ token[n].family = token[t].family

\* Two tokens without successors in one family: some token has two.
ForksOK ==
    \A t, s \in Tokens :
        ~Fresh(t) /\ ~Fresh(s) /\ Leaf(t) /\ Leaf(s) /\ t # s
          /\ token[t].family = token[s].family
        => Forked(token[t].family)

\* A family swept with no rotation in flight is dead, and none can start.
SweptOK ==
    \A f \in Tokens : swept[f] # Unswept =>
        ~Fresh(f) /\ (~swept[f].raced => Dead(f) /\ ~Rotating(f))

JobsOK ==
    \A h \in Handlers : job[h].step \in {"rotate", "revoke"} => Stored(job[h].token)

IInv == TypeOK /\ FamiliesOK /\ ParentsOK /\ RotatedIsDead /\ ForksOK /\ SweptOK /\ JobsOK

USE NoneIsNoToken

-----------------------------------------------------------------------------
(* How a row changes.                                                      *)

LEMMA NewRowLemma ==
    ASSUME NEW u \in Users, NEW f \in Tokens
    PROVE  /\ NewRow(u, f) \in Row
           /\ NewRow(u, f).phase = "issued" /\ NewRow(u, f).family = f
           /\ NewRow(u, f).user = u /\ NewRow(u, f).revoked = FALSE
           /\ NewRow(u, f).replacedBy = None
BY DEF NewRow, Row

LEMMA RotatedLemma ==
    ASSUME NEW r \in Row, NEW n \in Tokens
    PROVE  /\ Rotated(r, n) \in Row
           /\ Rotated(r, n).phase = "issued" /\ Rotated(r, n).family = r.family
           /\ Rotated(r, n).user = r.user /\ Rotated(r, n).revoked = TRUE
           /\ Rotated(r, n).replacedBy = n
BY DEF Rotated, Row

LEMMA RevokedLemma ==
    ASSUME NEW r \in Row
    PROVE  Revoked(r).revoked = TRUE /\ Worn(r, Revoked(r))
BY DEF Revoked, Row, Worn

LEMMA RacedLemma ==
    ASSUME NEW b, NEW r
    PROVE  [by |-> b, raced |-> r].raced = r
OBVIOUS

LEMMA StateLemma ==
    ASSUME NEW r \in TokenState
    PROVE  /\ r.phase = "issued" => r \in Row
           /\ r.phase \in {"unissued", "issued", "purged"}
           /\ r.phase # "unissued" => r.family \in Tokens
BY DEF TokenState, Row, Unissued

\* What wearing a row leaves as it was.
LEMMA WornLemma ==
    ASSUME NEW r \in TokenState, NEW q, Worn(r, q)
    PROVE  /\ q \in TokenState
           /\ q.phase = "unissued" <=> r.phase = "unissued"
           /\ r.phase # "unissued" => q.family = r.family
           /\ q.phase = "issued" =>
                /\ r.phase = "issued" /\ q.user = r.user /\ q.replacedBy = r.replacedBy
                /\ r.revoked => q.revoked
                /\ r.expired => q.expired
<1>1. CASE q = r
  BY <1>1
<1>2. CASE r.phase = "issued" /\ q = Revoked(r)
  <2>1. r \in Row
    BY <1>2, StateLemma
  <2>2. QED
    BY <1>2, <2>1 DEF Revoked, Row, TokenState
<1>3. CASE r.phase = "issued" /\ q = [r EXCEPT !.expired = TRUE]
  <2>1. r \in Row
    BY <1>3, StateLemma
  <2>2. QED
    BY <1>3, <2>1 DEF Row, TokenState
<1>4. CASE r.phase = "issued" /\ q = Purged(r)
  <2>1. r \in Row
    BY <1>4, StateLemma
  <2>2. QED
    BY <1>4, <2>1 DEF Purged, Row, TokenState
<1>5. QED
  BY <1>1, <1>2, <1>3, <1>4 DEF Worn

LEMMA TypeLemma ==
    TypeOK <=> /\ token \in [Tokens -> TokenState]
               /\ account \in [Users -> {"active", "disabled", "deleted"}]
               /\ job \in [Handlers -> Job]
               /\ parent \in [Tokens -> Tokens \cup {None}]
               /\ swept \in [Tokens -> Sweep \cup {Unswept}]
BY DEF TypeOK, TokenState

-----------------------------------------------------------------------------
(* Steps that wear rows keep the shape of the forest.                      *)

Wears == /\ token' \in [Tokens -> TokenState]
         /\ \A t \in Tokens : Worn(token[t], token'[t])
         /\ UNCHANGED parent

Forest == FamiliesOK /\ ParentsOK /\ RotatedIsDead /\ ForksOK

LEMMA WearingKeepsForest ==
    ASSUME TypeOK, Forest, Wears
    PROVE  /\ Forest'
           /\ \A t \in Tokens : Fresh(t)' <=> Fresh(t)
           /\ \A t, f \in Tokens : Member(t, f)' <=> Member(t, f)
           /\ \A t \in Tokens : Live(t)' => Live(t)
<1>1. \A t \in Tokens :
        /\ Fresh(t)' <=> Fresh(t)
        /\ ~Fresh(t) => token'[t].family = token[t].family /\ token[t].family \in Tokens
        /\ Stored(t)' => /\ Stored(t) /\ token'[t].user = token[t].user
                         /\ token'[t].replacedBy = token[t].replacedBy
                         /\ token[t].revoked => token'[t].revoked
                         /\ token[t].expired => token'[t].expired
  <2>1. SUFFICES ASSUME NEW t \in Tokens
                 PROVE  /\ Fresh(t)' <=> Fresh(t)
                        /\ ~Fresh(t) => token'[t].family = token[t].family
                                        /\ token[t].family \in Tokens
                        /\ Stored(t)' => /\ Stored(t) /\ token'[t].user = token[t].user
                                         /\ token'[t].replacedBy = token[t].replacedBy
                                         /\ token[t].revoked => token'[t].revoked
                                         /\ token[t].expired => token'[t].expired
    OBVIOUS
  <2>2. token[t] \in TokenState /\ Worn(token[t], token'[t])
    BY TypeLemma DEF Wears
  <2>3. QED
    BY <2>2, WornLemma, StateLemma DEF Fresh, Stored
<1>2. \A t, f \in Tokens : Member(t, f)' <=> Member(t, f)
  BY <1>1 DEF Member
<1>3. \A t \in Tokens : Live(t)' => Live(t)
  <2>1. SUFFICES ASSUME NEW t \in Tokens, Live(t)' PROVE Live(t)
    OBVIOUS
  <2>2. token[t] \in Row /\ token'[t] \in Row
    BY <1>1, <2>1, TypeLemma, StateLemma DEF Live, Stored, Wears
  <2>3. QED
    BY <1>1, <2>1, <2>2 DEF Live, Stored, Row
<1>4. \A t \in Tokens : Successors(t)' = Successors(t)
  BY DEF Successors, Wears
<1>5. FamiliesOK'
  BY <1>1 DEF FamiliesOK, Forest, Fresh, Stored
<1>6. ParentsOK'
  BY <1>1 DEF ParentsOK, Forest, Wears
<1>7. RotatedIsDead'
  BY <1>1, <1>4 DEF RotatedIsDead, Forest
<1>8. ForksOK'
  BY <1>1, <1>2, <1>4 DEF ForksOK, Forest, Forked, Leaf
<1>9. QED
  BY <1>1, <1>2, <1>3, <1>5, <1>6, <1>7, <1>8 DEF Forest

-----------------------------------------------------------------------------
(* Steps that add a token.                                                 *)

LEMMA IssueKeepsForest ==
    ASSUME TypeOK, Forest, NEW u \in Users, NEW n \in Tokens, Fresh(n),
           token' = [token EXCEPT ![n] = NewRow(u, n)], UNCHANGED parent
    PROVE  Forest'
<1> DEFINE r == NewRow(u, n)
<1>1. /\ r \in Row /\ r.phase = "issued" /\ r.family = n /\ r.user = u
      /\ r.revoked = FALSE /\ r.replacedBy = None
  BY NewRowLemma
<1> HIDE DEF r
<1>2. token' = [token EXCEPT ![n] = r] /\ token \in [Tokens -> TokenState]
  BY TypeLemma DEF r
<1>3. \A t \in Tokens : t # n => token'[t] = token[t]
  BY <1>2
<1>4. token'[n] = r
  BY <1>2
<1>5. /\ ~Fresh(n)' /\ Stored(n)'
      /\ \A t \in Tokens : t # n => (Fresh(t)' <=> Fresh(t)) /\ (Stored(t)' <=> Stored(t))
  BY <1>1, <1>3, <1>4 DEF Fresh, Stored
<1>6. \A t \in Tokens : ~Fresh(t) => token[t].family # n /\ token[t].family \in Tokens
  BY <1>2, StateLemma DEF Forest, FamiliesOK, Fresh
<1>7. \A t \in Tokens : parent[t] # n /\ Successors(t)' = Successors(t)
  BY DEF Forest, ParentsOK, Successors
<1>8. FamiliesOK'
  BY <1>1, <1>3, <1>4, <1>5, <1>6 DEF FamiliesOK, Forest, Fresh, Stored
<1>9. ParentsOK'
  BY <1>3, <1>5, <1>7 DEF ParentsOK, Forest
<1>10. RotatedIsDead'
  BY <1>3, <1>5, <1>7 DEF RotatedIsDead, Forest, Successors
<1>11. ForksOK'
  <2>1. SUFFICES ASSUME NEW t \in Tokens, NEW s \in Tokens, ~Fresh(t)', ~Fresh(s)',
                        Leaf(t)', Leaf(s)', t # s, token'[t].family = token'[s].family
                 PROVE  Forked(token[t].family)'
    BY DEF ForksOK
  <2>2. t # n /\ s # n
    BY <1>1, <1>3, <1>4, <1>5, <1>6, <2>1
  <2>3. Forked(token[t].family)
    BY <1>3, <1>5, <1>7, <2>1, <2>2 DEF ForksOK, Forest, Leaf
  <2>4. PICK m \in Tokens : Member(m, token[t].family) /\ \E a, b \in Successors(m) : a # b
    BY <2>3 DEF Forked
  <2>5. m # n
    BY <2>4 DEF Member
  <2>6. Member(m, token[t].family)'
    BY <1>3, <1>5, <2>2, <2>4, <2>5 DEF Member
  <2>7. QED
    BY <1>7, <2>4, <2>6 DEF Forked
<1>12. QED
  BY <1>8, <1>9, <1>10, <1>11 DEF Forest

\* Token t of family f gets the successor n.
Rotates(t, n, f) ==
    /\ token[t].phase = "issued" /\ token[t].family = f /\ token[n].phase = "unissued"
    /\ \A s \in Tokens : s # n => /\ token'[s].phase = token[s].phase
                                /\ token'[s].family = token[s].family
                                /\ token'[s].user = token[s].user
    /\ \A s \in Tokens : s # n /\ s # t => token'[s] = token[s]
    /\ token'[n].phase = "issued" /\ token'[n].family = f /\ token'[n].user = token[t].user
    /\ token'[t].revoked /\ token'[t].replacedBy = n
    /\ parent'[n] = t
    /\ \A s \in Tokens : s # n => parent'[s] = parent[s]

LEMMA RotateShape ==
    ASSUME TypeOK, NEW t \in Tokens, NEW n \in Tokens, Stored(t), Fresh(n),
           token' = [token EXCEPT ![n] = NewRow(token[t].user, token[t].family),
                                  ![t] = Rotated(token[t], n)],
           parent' = [parent EXCEPT ![n] = t]
    PROVE  Rotates(t, n, token[t].family) /\ token' \in [Tokens -> TokenState]
<1> DEFINE r == NewRow(token[t].user, token[t].family)
           q == Rotated(token[t], n)
<1>1. token \in [Tokens -> TokenState] /\ parent \in [Tokens -> Tokens \cup {None}]
  BY TypeLemma
<1>2. token[t] \in Row /\ t # n
  BY <1>1, StateLemma DEF Stored, Fresh
<1>3. token[t].family \in Tokens /\ token[t].user \in Users
  BY <1>2 DEF Row
<1>4. /\ r \in Row /\ r.phase = "issued" /\ r.family = token[t].family
      /\ r.user = token[t].user
  <2>1. r \in Row
    BY <1>3, NewRowLemma
  <2>2. r.phase = "issued" /\ r.family = token[t].family /\ r.user = token[t].user
    BY DEF NewRow
  <2>3. QED
    BY <2>1, <2>2
<1>5. /\ q \in Row /\ q.phase = "issued" /\ q.family = token[t].family
      /\ q.user = token[t].user /\ q.revoked = TRUE /\ q.replacedBy = n
  BY <1>2, RotatedLemma
<1>6. token' = [token EXCEPT ![n] = r, ![t] = q]
  OBVIOUS
<1> HIDE DEF r, q
<1>7. /\ token'[n] = r /\ token'[t] = q
      /\ \A s \in Tokens : s # n /\ s # t => token'[s] = token[s]
  BY <1>1, <1>2, <1>6
<1>8. token' \in [Tokens -> TokenState]
  BY <1>1, <1>4, <1>5, <1>6 DEF TokenState
<1>9. parent'[n] = t /\ \A s \in Tokens : s # n => parent'[s] = parent[s]
  BY <1>1
<1>10. QED
  BY <1>2, <1>4, <1>5, <1>7, <1>8, <1>9 DEF Rotates, Stored, Fresh

LEMMA RotateKeepsForest ==
    ASSUME TypeOK, Forest, NEW t \in Tokens, NEW n \in Tokens, NEW f \in Tokens,
           Rotates(t, n, f)
    PROVE  Forest'
<1> USE DEF Fresh, Stored
<1>1. \A s \in Tokens : token[s].phase # "unissued" =>
         token[s].family \in Tokens /\ token[token[s].family].phase # "unissued"
  BY TypeLemma, StateLemma DEF Forest, FamiliesOK
<1>2. t # n /\ f # n /\ token[f].phase # "unissued"
  BY <1>1 DEF Rotates
<1>3. \A s \in Tokens : parent[s] # n /\ parent[n] # s
  BY DEF Forest, ParentsOK, Rotates
<1>4. /\ Successors(t)' = Successors(t) \cup {n}
      /\ n \notin Successors(t)
      /\ \A s \in Tokens : s # t => Successors(s)' = Successors(s)
  BY <1>2, <1>3 DEF Successors, Rotates
<1>5. FamiliesOK'
  <2>1. ASSUME NEW s \in Tokens, token'[s].phase # "unissued"
        PROVE  token'[token'[s].family].phase # "unissued"
    BY <1>1, <1>2, <2>1 DEF Rotates
  <2>2. ASSUME NEW a \in Tokens, NEW b \in Tokens, token'[a].phase = "issued",
               token'[b].phase = "issued", token'[a].family = token'[b].family
        PROVE  token'[a].user = token'[b].user
    BY <2>2 DEF FamiliesOK, Forest, Rotates
  <2>3. QED
    BY <2>1, <2>2 DEF FamiliesOK
<1>6. ParentsOK'
  BY <1>2, <1>3 DEF ParentsOK, Forest, Rotates
<1>7. RotatedIsDead'
  <2>1. SUFFICES ASSUME NEW s \in Tokens, token'[s].phase = "issued", Successors(s)' # {}
                 PROVE  token'[s].revoked /\ token'[s].replacedBy \in Successors(s)'
    BY DEF RotatedIsDead
  <2>2. CASE s = t
    BY <1>4, <2>2 DEF Rotates
  <2>3. CASE s = n
    BY <1>2, <1>3, <1>4, <2>1, <2>3 DEF Successors
  <2>4. CASE s # t /\ s # n
    BY <1>4, <2>1, <2>4 DEF Rotates, RotatedIsDead, Forest
  <2>5. QED
    BY <2>2, <2>3, <2>4
<1>8. ForksOK'
  <2> DEFINE ForkedNext(g) ==
        \E m \in Tokens : /\ token'[m].phase # "unissued" /\ token'[m].family = g
                          /\ \E x, y \in Successors(m)' : x # y
  <2>1. SUFFICES ASSUME NEW a \in Tokens, NEW b \in Tokens,
                        token'[a].phase # "unissued", token'[b].phase # "unissued",
                        Successors(a)' = {}, Successors(b)' = {}, a # b,
                        token'[a].family = token'[b].family
                 PROVE  ForkedNext(token'[a].family)
    BY DEF ForksOK, Forked, Member, Leaf
  <2>2. ASSUME NEW g \in Tokens, Forked(g) PROVE ForkedNext(g)
    <3>1. PICK m \in Tokens : /\ token[m].phase # "unissued" /\ token[m].family = g
                              /\ \E x, y \in Successors(m) : x # y
      BY <2>2 DEF Forked, Member
    <3>2. token'[m].phase # "unissued" /\ token'[m].family = g
      BY <3>1 DEF Rotates
    <3>3. \E x, y \in Successors(m)' : x # y
      BY <1>4, <3>1
    <3>4. QED
      BY <3>2, <3>3
  <2>3. a # t /\ b # t
    BY <1>4, <2>1
  <2>4. ASSUME NEW c \in Tokens, c # n, c # t, token'[c].phase # "unissued",
               Successors(c)' = {}
        PROVE  /\ token[c].phase # "unissued" /\ Successors(c) = {}
               /\ token'[c].family = token[c].family /\ token[c].family \in Tokens
    BY <1>1, <1>4, <2>4 DEF Rotates
  <2> HIDE DEF ForkedNext
  <2>5. CASE a # n /\ b # n
    BY <2>1, <2>2, <2>3, <2>4, <2>5 DEF ForksOK, Forest, Leaf
  <2>6. CASE a = n \/ b = n
    <3>1. token'[a].family = f /\ token'[b].family = f
      BY <2>1, <2>6 DEF Rotates
    <3>2. CASE Successors(t) # {}
      <4>1. token'[t].phase # "unissued" /\ token'[t].family = f
        BY <1>2 DEF Rotates
      <4>2. \E x, y \in Successors(t)' : x # y
        BY <1>4, <3>2
      <4>3. QED
        BY <3>1, <4>1, <4>2 DEF ForkedNext
    <3>3. CASE Successors(t) = {}
      <4>1. ASSUME NEW c \in Tokens, c # n, c # t, token'[c].phase # "unissued",
                   Successors(c)' = {}, token'[c].family = f
            PROVE  ForkedNext(f)
        <5>1. Forked(f)
          BY <2>4, <3>3, <4>1 DEF ForksOK, Forest, Leaf, Rotates
        <5>2. QED
          BY <2>2, <5>1
      <4>2. QED
        BY <2>1, <2>3, <2>6, <3>1, <4>1
    <3>4. QED
      BY <3>2, <3>3
  <2>7. QED
    BY <2>5, <2>6
<1>9. QED
  BY <1>5, <1>6, <1>7, <1>8 DEF Forest

-----------------------------------------------------------------------------
(* What a step may do to the handlers, and the two shapes of a step that   *)
(* leaves the set of tokens alone.                                         *)

\* Every handler goes on with what it was doing, or is done.
Settles == /\ job' \in [Handlers -> Job]
           /\ \A h \in Handlers : job'[h] = job[h] \/ job'[h] = Idle

LEMMA FinishSettles ==
    ASSUME TypeOK, NEW h \in Handlers, Finish(h)
    PROVE  Settles /\ \A g \in Handlers : g # h => job'[g] = job[g]
BY DEF TypeOK, Finish, Settles, Job

LEMMA JobTokenLemma ==
    ASSUME TypeOK, NEW h \in Handlers, job[h].step \in {"rotate", "revoke"}
    PROVE  job[h].token \in Tokens
<1>1. job[h] \in Job
  BY DEF TypeOK
<1>2. QED
  BY <1>1 DEF Job, Idle

\* A handler starts something; what it will rotate or revoke is usable now.
LEMMA StartStep ==
    ASSUME IInv, NEW h \in Handlers, NEW j \in Job, Start(h, j),
           j.step \in {"rotate", "revoke"} => j.token \in Tokens /\ Live(j.token),
           UNCHANGED <<token, account, parent, swept>>
    PROVE  IInv'
<1>1. TypeOK'
  BY DEF IInv, TypeOK, Start
<1>2. /\ job'[h] = j
      /\ \A g \in Handlers : g # h => job'[g] = job[g]
  BY DEF IInv, TypeOK, Start
<1>3. (FamiliesOK /\ ParentsOK /\ RotatedIsDead /\ ForksOK)'
  BY DEF IInv, FamiliesOK, ParentsOK, RotatedIsDead, ForksOK, Forked, Leaf, Member,
         Successors, Fresh, Stored
<1>4. JobsOK'
  BY <1>2 DEF IInv, JobsOK, Live, Stored
<1>5. SweptOK'
  <2>1. SUFFICES ASSUME NEW f \in Tokens, swept[f] # Unswept
                 PROVE  ~Fresh(f) /\ (~swept[f].raced => Dead(f) /\ ~Rotating(f)')
    BY DEF SweptOK, Dead, Fresh, Live, Stored, Member
  <2>2. ~Fresh(f) /\ (~swept[f].raced => Dead(f) /\ ~Rotating(f))
    BY <2>1 DEF IInv, SweptOK
  <2>3. ASSUME Dead(f), ~Rotating(f), NEW g \in Handlers, job'[g].step = "rotate",
               Member(job'[g].token, f)
        PROVE  FALSE
    BY <1>2, <2>3 DEF Dead, Rotating
  <2>4. QED
    BY <2>2, <2>3 DEF Rotating, Member, Fresh
<1>6. QED
  BY <1>1, <1>3, <1>4, <1>5 DEF IInv

\* Family f does not start, come back to life or get into a rotation.
Calm(f) == /\ Fresh(f)' <=> Fresh(f)
           /\ Dead(f) => Dead(f)'
           /\ ~Rotating(f) => ~Rotating(f)'

\* Rows wear, handlers settle.
LEMMA WearStep ==
    ASSUME IInv, Wears, Settles,
           account' \in [Users -> {"active", "disabled", "deleted"}],
           swept' \in [Tokens -> Sweep \cup {Unswept}],
           \A h \in Handlers :
             job'[h].step \in {"rotate", "revoke"} => token'[job'[h].token].phase = "issued"
    PROVE  /\ TypeOK' /\ (FamiliesOK /\ ParentsOK /\ RotatedIsDead /\ ForksOK)' /\ JobsOK'
           /\ \A f \in Tokens : Calm(f)
<1>1. TypeOK /\ Forest
  BY DEF IInv, Forest
<1>2. TypeOK'
  BY <1>1 DEF TypeOK, TokenState, Wears, Settles
<1>3. /\ Forest'
      /\ \A t \in Tokens : Fresh(t)' <=> Fresh(t)
      /\ \A t, f \in Tokens : Member(t, f)' <=> Member(t, f)
      /\ \A t \in Tokens : Live(t)' => Live(t)
  BY <1>1, WearingKeepsForest
<1>4. JobsOK'
  BY DEF JobsOK, Stored
<1>5. ASSUME NEW f \in Tokens, Dead(f) PROVE Dead(f)'
  BY <1>3, <1>5 DEF Dead
<1>6. ASSUME NEW f \in Tokens, Rotating(f)' PROVE Rotating(f)
  <2>1. PICK h \in Handlers : /\ job'[h].step = "rotate"
                              /\ token'[job'[h].token].phase # "unissued"
                              /\ token'[job'[h].token].family = f
    BY <1>6 DEF Rotating, Member, Fresh
  <2>2. job'[h] = job[h]
    BY <2>1 DEF Settles, Idle
  <2>3. job[h].token \in Tokens
    BY <1>1, <2>1, <2>2, JobTokenLemma
  <2>4. Member(job[h].token, f)
    BY <1>3, <2>1, <2>2, <2>3 DEF Member, Fresh
  <2>5. QED
    BY <2>1, <2>2, <2>4 DEF Rotating
<1>7. QED
  BY <1>2, <1>3, <1>4, <1>5, <1>6 DEF Forest, Calm

-----------------------------------------------------------------------------
(* The initial state and every step keep the invariant.                    *)

LEMMA InitLemma == Init => IInv
<1>1. SUFFICES ASSUME Init PROVE IInv
  OBVIOUS
<1>2. \A t \in Tokens : Fresh(t) /\ parent[t] = None /\ swept[t] = Unswept
  BY <1>1 DEF Init, Fresh, Unissued
<1>3. \A h \in Handlers : job[h] = Idle
  BY <1>1 DEF Init
<1>4. TypeOK
  BY <1>1 DEF Init, TypeOK, Job
<1>5. FamiliesOK /\ ParentsOK /\ RotatedIsDead /\ ForksOK
  BY <1>2 DEF FamiliesOK, ParentsOK, RotatedIsDead, ForksOK, Successors, Fresh, Stored
<1>6. SweptOK
  BY <1>2 DEF SweptOK
<1>7. JobsOK
  BY <1>3 DEF JobsOK, Idle
<1>8. QED
  BY <1>4, <1>5, <1>6, <1>7 DEF IInv

LEMMA RequestStep ==
    ASSUME IInv, NEW h \in Handlers, Request(h)
    PROVE  IInv'
<1>1. ASSUME NEW u \in Users, Login(h, u) \/ ChangePassword(h, u) PROVE IInv'
  <2>1. CASE Login(h, u)
    BY <2>1, StartStep DEF Login, Job
  <2>2. CASE ChangePassword(h, u)
    BY <2>2, StartStep DEF ChangePassword, Job
  <2>3. QED
    BY <1>1, <2>1, <2>2
<1>2. ASSUME NEW t \in Tokens, PresentReused(h, t) \/ Refresh(h, t) \/ Logout(h, t)
      PROVE  IInv'
  <2> DEFINE burn(why) == [step |-> "burn", family |-> token[t].family, by |-> why]
  <2>1. token[t].phase = "issued"
    BY <1>2 DEF PresentReused, Refresh, Logout, Consumable, Reused, Stored
  <2>2. token[t].family \in Tokens
    BY <2>1, TypeLemma, StateLemma DEF IInv
  <2>3. burn("reuse") \in Job /\ burn("disabled") \in Job
    BY <2>2 DEF Job, Reason
  <2>4. \A s \in {"rotate", "revoke"} : [step |-> s, token |-> t] \in Job
    BY DEF Job
  <2>5. Consumable(t) => Live(t)
    BY DEF Consumable, Live
  <2>6. CASE PresentReused(h, t)
    BY <2>3, <2>6, StartStep DEF PresentReused
  <2>7. CASE Refresh(h, t) /\ account[token[t].user] = "active"
    BY <2>4, <2>5, <2>7, StartStep DEF Refresh
  <2>8. CASE Refresh(h, t) /\ account[token[t].user] # "active"
    BY <2>3, <2>8, StartStep DEF Refresh
  <2>9. CASE Logout(h, t)
    BY <2>4, <2>5, <2>9, StartStep DEF Logout
  <2>10. QED
    BY <1>2, <2>6, <2>7, <2>8, <2>9
<1>3. QED
  BY <1>1, <1>2 DEF Request

LEMMA IssueStep ==
    ASSUME IInv, NEW h \in Handlers, NEW n \in Tokens, Issue(h, n)
    PROVE  IInv'
<1>1. TypeOK /\ Forest /\ Settles /\ Fresh(n)
  BY FinishSettles DEF IInv, Forest, Issue
<1>2. job[h].user \in Users
  <2>1. job[h] \in Job /\ job[h].step = "issue"
    BY <1>1 DEF TypeOK, Issue
  <2>2. QED
    BY <2>1 DEF Job, Idle
<1> DEFINE r == NewRow(job[h].user, n)
<1>3. r \in Row /\ r.phase = "issued" /\ r.family = n
  BY <1>2, NewRowLemma
<1>4. token' = [token EXCEPT ![n] = r] /\ UNCHANGED <<account, parent, swept>>
  BY DEF Issue
<1>5. Forest'
  BY <1>1, <1>2, <1>4, IssueKeepsForest
<1> HIDE DEF r
<1>6. token'[n] = r /\ \A t \in Tokens : t # n => token'[t] = token[t]
  BY <1>1, <1>4, TypeLemma
<1>7. TypeOK'
  BY <1>1, <1>3, <1>4 DEF TypeOK, TokenState, Settles
<1>8. ASSUME NEW g \in Handlers, job'[g].step \in {"rotate", "revoke"}
      PROVE  /\ job'[g] = job[g] /\ job[g].token \in Tokens /\ job[g].token # n
             /\ token'[job[g].token].phase = "issued"
  <2>1. job'[g] = job[g]
    BY <1>1, <1>8 DEF Settles, Idle
  <2>2. job[g].token \in Tokens /\ Stored(job[g].token)
    BY <1>1, <1>8, <2>1, JobTokenLemma DEF IInv, JobsOK
  <2>3. QED
    BY <1>1, <1>6, <2>1, <2>2 DEF Stored, Fresh
<1>9. JobsOK'
  BY <1>8 DEF JobsOK, Stored
<1>10. SweptOK'
  <2>1. SUFFICES ASSUME NEW f \in Tokens, swept[f] # Unswept
                 PROVE  ~Fresh(f)' /\ (~swept[f].raced => Dead(f)' /\ ~Rotating(f)')
    BY <1>4 DEF SweptOK
  <2>2. ~Fresh(f) /\ (~swept[f].raced => Dead(f) /\ ~Rotating(f)) /\ f # n
    BY <1>1, <2>1 DEF IInv, SweptOK
  <2>3. ~Fresh(f)'
    BY <1>6, <2>2 DEF Fresh
  <2>4. Dead(f) => Dead(f)'
    BY <1>3, <1>6, <2>2 DEF Dead, Member, Live, Stored, Fresh
  <2>5. ASSUME Rotating(f)' PROVE Rotating(f)
    <3>1. PICK g \in Handlers : /\ job'[g].step = "rotate"
                                /\ token'[job'[g].token].phase # "unissued"
                                /\ token'[job'[g].token].family = f
      BY <2>5 DEF Rotating, Member, Fresh
    <3>2. Member(job[g].token, f) /\ job[g].step = "rotate"
      BY <1>6, <1>8, <3>1 DEF Member, Fresh
    <3>3. QED
      BY <3>2 DEF Rotating
  <2>6. QED
    BY <2>2, <2>3, <2>4, <2>5
<1>11. QED
  BY <1>5, <1>7, <1>9, <1>10 DEF IInv, Forest

LEMMA RotateStep ==
    ASSUME IInv, NEW h \in Handlers, NEW n \in Tokens, Rotate(h, n)
    PROVE  IInv'
<1> DEFINE t == job[h].token
           f == token[t].family
<1>1. TypeOK /\ Forest /\ Settles
  BY FinishSettles DEF IInv, Forest, Rotate
<1>2. t \in Tokens /\ Stored(t) /\ Fresh(n)
  BY <1>1, JobTokenLemma DEF IInv, JobsOK, Rotate
<1>3. f \in Tokens /\ Rotating(f)
  <2>1. f \in Tokens
    BY <1>1, <1>2, TypeLemma, StateLemma DEF Stored
  <2>2. Member(t, f)
    BY <1>2 DEF Member, Stored, Fresh
  <2>3. QED
    BY <2>1, <2>2 DEF Rotating, Rotate
<1>4. Rotates(t, n, f) /\ token' \in [Tokens -> TokenState]
  BY <1>1, <1>2, RotateShape DEF Rotate
<1> HIDE DEF t, f
<1>5. Forest'
  BY <1>1, <1>2, <1>3, <1>4, RotateKeepsForest
<1>6. UNCHANGED <<account, swept>>
  BY DEF Rotate
<1>7. TypeOK'
  <2>1. parent' \in [Tokens -> Tokens \cup {None}]
    BY <1>1, <1>2 DEF Rotate, TypeOK, t
  <2>2. QED
    BY <1>1, <1>4, <1>6, <2>1 DEF TypeOK, TokenState, Settles
<1>8. ASSUME NEW g \in Handlers, job'[g].step \in {"rotate", "revoke"}
      PROVE  /\ job'[g] = job[g] /\ job[g].token \in Tokens /\ job[g].token # n
             /\ token'[job[g].token].phase = "issued"
             /\ token'[job[g].token].family = token[job[g].token].family
  <2>1. job'[g] = job[g]
    BY <1>1, <1>8 DEF Settles, Idle
  <2>2. job[g].token \in Tokens /\ Stored(job[g].token)
    BY <1>1, <1>8, <2>1, JobTokenLemma DEF IInv, JobsOK
  <2>3. QED
    BY <1>2, <1>4, <2>1, <2>2 DEF Stored, Fresh, Rotates
<1>9. JobsOK'
  BY <1>8 DEF JobsOK, Stored
<1>10. SweptOK'
  <2>1. SUFFICES ASSUME NEW g \in Tokens, swept[g] # Unswept
                 PROVE  ~Fresh(g)' /\ (~swept[g].raced => Dead(g)' /\ ~Rotating(g)')
    BY <1>6 DEF SweptOK
  <2>2. ~Fresh(g) /\ (~swept[g].raced => Dead(g) /\ ~Rotating(g) /\ g # f)
    BY <1>3, <2>1 DEF IInv, SweptOK
  <2>3. ~Fresh(g)'
    BY <1>2, <1>4, <2>2 DEF Fresh, Rotates
  <2>4. ASSUME Dead(g), g # f PROVE Dead(g)'
    BY <1>2, <1>4, <2>4 DEF Dead, Member, Live, Stored, Fresh, Rotates
  <2>5. ASSUME Rotating(g)' PROVE Rotating(g)
    <3>1. PICK a \in Handlers : /\ job'[a].step = "rotate"
                                /\ token'[job'[a].token].phase # "unissued"
                                /\ token'[job'[a].token].family = g
      BY <2>5 DEF Rotating, Member, Fresh
    <3>2. Member(job[a].token, g) /\ job[a].step = "rotate"
      BY <1>4, <1>8, <3>1 DEF Member, Fresh, Rotates
    <3>3. QED
      BY <3>2 DEF Rotating
  <2>6. QED
    BY <2>2, <2>3, <2>4, <2>5
<1>11. QED
  BY <1>5, <1>7, <1>9, <1>10 DEF IInv, Forest

\* A mass revocation of the tokens of S, which is a union of families or at
\* least of everything stored in them.
LEMMA SweepStep ==
    ASSUME IInv, NEW h \in Handlers, job[h].step \notin {"rotate", "revoke"}, Finish(h),
           NEW S \in SUBSET Tokens, \A t \in S : Stored(t),
           \A t \in S, s \in Tokens :
             Stored(s) /\ token[s].family = token[t].family => s \in S,
           NEW by \in Reason, RevokeEach(S, by), UNCHANGED <<account, parent>>
    PROVE  IInv'
<1>1. /\ TypeOK /\ Settles /\ \A g \in Handlers : g # h => job'[g] = job[g]
      /\ job'[h] = Idle
  BY FinishSettles DEF IInv, Finish, TypeOK
<1>2. \A t \in Tokens : /\ t \in S => token'[t] = Revoked(token[t]) /\ token[t] \in Row
                        /\ t \notin S => token'[t] = token[t]
                        /\ token[t] \in TokenState
  BY <1>1, TypeLemma, StateLemma DEF RevokeEach, Stored
<1>3. \A t \in Tokens : /\ Worn(token[t], token'[t]) /\ token'[t] \in TokenState
                        /\ token'[t].phase = token[t].phase
                        /\ t \in S => token'[t].revoked
  <2>1. SUFFICES ASSUME NEW t \in Tokens
                 PROVE  /\ Worn(token[t], token'[t]) /\ token'[t] \in TokenState
                        /\ token'[t].phase = token[t].phase
                        /\ t \in S => token'[t].revoked
    OBVIOUS
  <2>2. CASE t \in S
    <3>1. /\ Revoked(token[t]).revoked /\ Worn(token[t], Revoked(token[t]))
          /\ Revoked(token[t]).phase = "issued" /\ token[t].phase = "issued"
      BY <1>2, <2>2, RevokedLemma DEF Revoked, Row
    <3>2. QED
      BY <1>2, <2>2, <3>1, WornLemma
  <2>3. CASE t \notin S
    BY <1>2, <2>3 DEF Worn
  <2>4. QED
    BY <2>2, <2>3
<1>4. Wears
  BY <1>3 DEF Wears, RevokeEach
<1>5. \A f \in Tokens : swept'[f] = IF \E t \in S : token[t].family = f
                                     THEN [by |-> by, raced |-> Rotating(f)] ELSE swept[f]
  BY DEF RevokeEach
<1>6. swept' \in [Tokens -> Sweep \cup {Unswept}]
  <2>1. \A f \in Tokens : Rotating(f) \in BOOLEAN
    BY DEF Rotating
  <2>2. swept \in [Tokens -> Sweep \cup {Unswept}]
    BY <1>1, TypeLemma
  <2>3. QED
    BY <2>1, <2>2 DEF RevokeEach, Sweep
<1>7. \A g \in Handlers :
         job'[g].step \in {"rotate", "revoke"} => token'[job'[g].token].phase = "issued"
  <2>1. SUFFICES ASSUME NEW g \in Handlers, job'[g].step \in {"rotate", "revoke"}
                 PROVE  token'[job'[g].token].phase = "issued"
    OBVIOUS
  <2>2. job'[g] = job[g]
    BY <1>1, <2>1 DEF Idle
  <2>3. job[g].token \in Tokens /\ Stored(job[g].token)
    BY <1>1, <2>1, <2>2, JobTokenLemma DEF IInv, JobsOK
  <2>4. QED
    BY <1>3, <2>2, <2>3 DEF Stored
<1>8. account' \in [Users -> {"active", "disabled", "deleted"}]
  BY <1>1 DEF TypeOK
<1>9. /\ TypeOK' /\ (FamiliesOK /\ ParentsOK /\ RotatedIsDead /\ ForksOK)' /\ JobsOK'
      /\ \A f \in Tokens : Calm(f)
  BY <1>1, <1>4, <1>6, <1>7, <1>8, WearStep
<1>10. SweptOK'
  <2>1. SUFFICES ASSUME NEW f \in Tokens, swept'[f] # Unswept
                 PROVE  ~Fresh(f)' /\ (~swept'[f].raced => Dead(f)' /\ ~Rotating(f)')
    BY DEF SweptOK
  <2>2. CASE \E t \in S : token[t].family = f
    <3>1. ~Fresh(f)
      BY <2>2 DEF IInv, FamiliesOK, Stored, Fresh
    <3>2. ~swept'[f].raced => ~Rotating(f)
      <4>1. swept'[f] = [by |-> by, raced |-> Rotating(f)]
        BY <1>5, <2>2, Zenon
      <4>2. swept'[f].raced = Rotating(f)
        BY <4>1, RacedLemma, Zenon
      <4>3. QED
        BY <4>2
    <3>3. ASSUME NEW s \in Tokens, Member(s, f)', Live(s)' PROVE FALSE
      <4>1. Stored(s) /\ token'[s].phase = "issued" /\ ~token'[s].revoked
        BY <1>3, <3>3 DEF Live, Stored
      <4>2. token[s].family = f
        BY <1>3, <3>3, <4>1, WornLemma, <1>2 DEF Member, Fresh, Stored
      <4>3. s \in S
        BY <2>2, <4>1, <4>2
      <4>4. QED
        BY <1>3, <4>1, <4>3
    <3>4. QED
      BY <1>9, <3>1, <3>2, <3>3 DEF Calm, Dead
  <2>3. CASE ~\E t \in S : token[t].family = f
    <3>1. swept'[f] = swept[f]
      BY <1>5, <2>3
    <3>2. ~Fresh(f) /\ (~swept[f].raced => Dead(f) /\ ~Rotating(f))
      BY <2>1, <3>1 DEF IInv, SweptOK
    <3>3. QED
      BY <1>9, <3>1, <3>2 DEF Calm
  <2>4. QED
    BY <2>2, <2>3
<1>11. QED
  BY <1>9, <1>10 DEF IInv

LEMMA BurnStep ==
    ASSUME IInv, NEW h \in Handlers, Burn(h)
    PROVE  IInv'
<1> DEFINE S == {t \in Tokens : Stored(t) /\ token[t].family = job[h].family}
<1>1. job[h].by \in Reason
  <2>1. job[h] \in Job /\ job[h].step = "burn"
    BY DEF IInv, TypeOK, Burn
  <2>2. QED
    BY <2>1 DEF Job, Idle
<1>2. RevokeEach(S, job[h].by) /\ Finish(h) /\ UNCHANGED <<account, parent>>
      /\ job[h].step = "burn"
  BY DEF Burn
<1>3. /\ S \in SUBSET Tokens /\ \A t \in S : Stored(t)
      /\ \A t \in S, s \in Tokens : Stored(s) /\ token[s].family = token[t].family => s \in S
  OBVIOUS
<1> HIDE DEF S
<1>4. QED
  BY <1>1, <1>2, <1>3, SweepStep

LEMMA RevokeAllStep ==
    ASSUME IInv, NEW h \in Handlers, RevokeAllForUser(h)
    PROVE  IInv'
<1> DEFINE S == {t \in Tokens : Stored(t) /\ token[t].user = job[h].user}
<1>1. RevokeEach(S, "password") /\ Finish(h) /\ UNCHANGED <<account, parent>>
      /\ job[h].step = "revokeAll" /\ "password" \in Reason
  BY DEF RevokeAllForUser, Reason
<1>2. S \in SUBSET Tokens /\ \A t \in S : Stored(t)
  OBVIOUS
<1>3. \A t \in S, s \in Tokens : Stored(s) /\ token[s].family = token[t].family => s \in S
  BY DEF IInv, FamiliesOK
<1> HIDE DEF S
<1>4. QED
  BY <1>1, <1>2, <1>3, SweepStep

\* The steps that wear rows without being a mass revocation.
LEMMA QuietWearStep ==
    ASSUME IInv, Wears, Settles, UNCHANGED swept,
           account' \in [Users -> {"active", "disabled", "deleted"}],
           \A h \in Handlers :
             job'[h].step \in {"rotate", "revoke"} => token'[job'[h].token].phase = "issued"
    PROVE  IInv'
<1>1. swept' \in [Tokens -> Sweep \cup {Unswept}]
  BY DEF IInv, TypeOK
<1>2. /\ TypeOK' /\ (FamiliesOK /\ ParentsOK /\ RotatedIsDead /\ ForksOK)' /\ JobsOK'
      /\ \A f \in Tokens : Calm(f)
  BY <1>1, WearStep
<1>3. SweptOK'
  <2>1. SUFFICES ASSUME NEW f \in Tokens, swept[f] # Unswept
                 PROVE  ~Fresh(f)' /\ (~swept[f].raced => Dead(f)' /\ ~Rotating(f)')
    BY DEF SweptOK
  <2>2. ~Fresh(f) /\ (~swept[f].raced => Dead(f) /\ ~Rotating(f))
    BY <2>1 DEF IInv, SweptOK
  <2>3. QED
    BY <1>2, <2>2 DEF Calm
<1>4. QED
  BY <1>2, <1>3 DEF IInv

LEMMA RevokeStep ==
    ASSUME IInv, NEW h \in Handlers, Revoke(h)
    PROVE  IInv'
<1> DEFINE t == job[h].token
<1>1. TypeOK /\ t \in Tokens /\ Stored(t)
  BY JobTokenLemma DEF IInv, JobsOK, Revoke
<1>2. token \in [Tokens -> TokenState] /\ token[t] \in Row
  BY <1>1, TypeLemma, StateLemma DEF Stored
<1>3. Worn(token[t], Revoked(token[t])) /\ Revoked(token[t]) \in Row
  BY <1>2, RevokedLemma DEF Revoked, Row
<1>4. token' = [token EXCEPT ![t] = Revoked(token[t])] /\ Finish(h)
      /\ UNCHANGED <<account, parent, swept>>
  BY DEF Revoke
<1> HIDE DEF t
<1>5. Wears
  BY <1>1, <1>2, <1>3, <1>4 DEF Wears, Worn, TokenState
<1>6. \A s \in Tokens : Stored(s) => token'[s].phase = "issued"
  BY <1>1, <1>2, <1>3, <1>4 DEF Stored, Row
<1>7. Settles
  BY <1>1, <1>4, FinishSettles
<1>8. ASSUME NEW g \in Handlers, job'[g].step \in {"rotate", "revoke"}
      PROVE  token'[job'[g].token].phase = "issued"
  BY <1>1, <1>6, <1>7, <1>8, JobTokenLemma DEF Settles, Idle, IInv, JobsOK
<1>9. QED
  BY <1>1, <1>4, <1>5, <1>7, <1>8, QuietWearStep DEF TypeOK

LEMMA ExpireStep ==
    ASSUME IInv, NEW t \in Tokens, Expire(t)
    PROVE  IInv'
<1> DEFINE q == [token[t] EXCEPT !.expired = TRUE]
<1>1. TypeOK /\ token \in [Tokens -> TokenState] /\ token[t] \in Row
  BY TypeLemma, StateLemma DEF IInv, Expire, Stored
<1>2. q \in Row /\ Worn(token[t], q)
  BY <1>1 DEF Row, Worn
<1>3. token' = [token EXCEPT ![t] = q] /\ UNCHANGED <<account, job, parent, swept>>
  BY DEF Expire
<1> HIDE DEF q
<1>4. Wears /\ Settles
  BY <1>1, <1>2, <1>3 DEF Wears, Worn, TokenState, Settles, TypeOK
<1>5. \A s \in Tokens : Stored(s) => token'[s].phase = "issued"
  BY <1>1, <1>2, <1>3 DEF Stored, Row
<1>6. ASSUME NEW g \in Handlers, job'[g].step \in {"rotate", "revoke"}
      PROVE  token'[job'[g].token].phase = "issued"
  BY <1>1, <1>3, <1>5, <1>6, JobTokenLemma DEF IInv, JobsOK
<1>7. QED
  BY <1>1, <1>3, <1>4, <1>6, QuietWearStep DEF TypeOK

LEMMA PurgeStep ==
    ASSUME IInv, NEW S \in SUBSET Tokens, PurgeExpired(S)
    PROVE  IInv'
<1>1. TypeOK /\ token \in [Tokens -> TokenState] /\ \A t \in S : token[t] \in Row
  BY TypeLemma, StateLemma DEF IInv, PurgeExpired, Stored
<1>2. \A t \in Tokens : token'[t] = IF t \in S THEN Purged(token[t]) ELSE token[t]
  BY DEF PurgeExpired
<1>3. \A t \in Tokens : Worn(token[t], token'[t])
  BY <1>1, <1>2 DEF Worn, Row
<1>4. token' \in [Tokens -> TokenState]
  <2>1. \A t \in Tokens : token'[t] \in TokenState
    BY <1>1, <1>3, WornLemma
  <2>2. QED
    BY <2>1 DEF PurgeExpired
<1>5. Wears /\ Settles
  BY <1>1, <1>3, <1>4 DEF Wears, Settles, TypeOK, PurgeExpired
<1>6. ASSUME NEW g \in Handlers, job'[g].step \in {"rotate", "revoke"}
      PROVE  token'[job'[g].token].phase = "issued"
  <2>1. job' = job
    BY DEF PurgeExpired
  <2>2. job[g].token \in Tokens /\ Stored(job[g].token)
    BY <1>1, <1>6, <2>1, JobTokenLemma DEF IInv, JobsOK
  <2>3. job[g].token \notin S
    BY <1>6, <2>1 DEF PurgeExpired
  <2>4. QED
    BY <1>2, <2>1, <2>2, <2>3 DEF Stored
<1>7. QED
  BY <1>1, <1>5, <1>6, QuietWearStep DEF TypeOK, PurgeExpired

LEMMA SurroundingsStep ==
    ASSUME IInv, Surroundings
    PROVE  IInv'
<1>1. ASSUME NEW u \in Users, SoftDelete(u) \/ \E s \in {"active", "disabled"} : SetActive(u, s)
      PROVE  IInv'
  <2>1. UNCHANGED <<token, job, parent, swept>>
    BY <1>1 DEF SoftDelete, SetActive
  <2>2. account' \in [Users -> {"active", "disabled", "deleted"}]
    BY <1>1 DEF IInv, TypeOK, SoftDelete, SetActive
  <2>3. QED
    BY <2>1, <2>2 DEF IInv, TypeOK, FamiliesOK, ParentsOK, RotatedIsDead, ForksOK, SweptOK,
       JobsOK, Forked, Leaf, Dead, Rotating, Member, Successors, Live, Fresh, Stored
<1>2. ASSUME NEW t \in Tokens, Expire(t) PROVE IInv'
  BY <1>2, ExpireStep
<1>3. ASSUME NEW S \in SUBSET Tokens, PurgeExpired(S) PROVE IInv'
  BY <1>3, PurgeStep
<1>4. CASE Crash
  <2>1. /\ UNCHANGED <<token, account, parent, swept>>
        /\ job' = [h \in Handlers |-> Idle]
    BY <1>4 DEF Crash
  <2>2. TypeOK'
    BY <2>1 DEF IInv, TypeOK, Job
  <2>3. (FamiliesOK /\ ParentsOK /\ RotatedIsDead /\ ForksOK)'
    BY <2>1 DEF IInv, FamiliesOK, ParentsOK, RotatedIsDead, ForksOK, Forked, Leaf, Member,
       Successors, Fresh, Stored
  <2>4. JobsOK' /\ \A f \in Tokens : ~Rotating(f)'
    BY <2>1 DEF JobsOK, Rotating, Idle
  <2>5. SweptOK'
    BY <2>1, <2>4 DEF IInv, SweptOK, Dead, Member, Live, Fresh, Stored, Rotating, Idle
  <2>6. QED
    BY <2>2, <2>3, <2>4, <2>5 DEF IInv
<1>5. QED
  BY <1>1, <1>2, <1>3, <1>4 DEF Surroundings

LEMMA NextLemma == IInv /\ [Next]_vars => IInv'
<1>1. SUFFICES ASSUME IInv, [Next]_vars PROVE IInv'
  OBVIOUS
<1>2. CASE UNCHANGED vars
  BY <1>1, <1>2 DEF vars, IInv, TypeOK, FamiliesOK, ParentsOK, RotatedIsDead, ForksOK, SweptOK,
     JobsOK, Forked, Leaf, Dead, Rotating, Member, Successors, Live, Fresh, Stored
<1>3. ASSUME NEW h \in Handlers, Request(h) \/ Continue(h) PROVE IInv'
  BY <1>1, <1>3, RequestStep, IssueStep, RotateStep, BurnStep, RevokeStep, RevokeAllStep
     DEF Continue
<1>4. CASE Surroundings
  BY <1>1, <1>4, SurroundingsStep
<1>5. QED
  BY <1>1, <1>2, <1>3, <1>4 DEF Next

LEMMA Invariance == Spec => []IInv
BY InitLemma, NextLemma, PTL DEF Spec

-----------------------------------------------------------------------------
(* The theorems.                                                           *)

\* Every variable keeps its type.
THEOREM TypeCorrect == Spec => []TypeOK
<1>1. IInv => TypeOK
  BY DEF IInv
<1>2. QED
  BY <1>1, Invariance, PTL

\* A token and a token it was exchanged for are never usable together.
THEOREM RotationIsAtomic == Spec => []RotatedIsDead
<1>1. IInv => RotatedIsDead
  BY DEF IInv
<1>2. QED
  BY <1>1, Invariance, PTL

\* Two usable tokens in one family betray a token that was rotated twice.
THEOREM OnlyForksAreForked == Spec => []ForkedSessionOnly
<1>1. IInv => ForkedSessionOnly
  <2>1. SUFFICES ASSUME IInv, NEW t \in Tokens, NEW s \in Tokens, Live(t), Live(s), t # s,
                        token[t].family = token[s].family
                 PROVE  Forked(token[t].family)
    BY DEF ForkedSessionOnly, Forked
  <2>2. \A r \in {t, s} : r \in Tokens /\ ~Fresh(r) /\ Leaf(r)
    BY <2>1 DEF IInv, RotatedIsDead, Live, Stored, Fresh, Leaf
  <2>3. QED
    BY <2>1, <2>2 DEF IInv, ForksOK
<1>2. QED
  BY <1>1, Invariance, PTL

\* A family revoked while none of its tokens was being rotated stays dead.
THEOREM SweptStaysDead == Spec => []SweptIsDead
<1>1. IInv => SweptIsDead
  BY DEF IInv, SweptOK, SweptIsDead, Dead
<1>2. QED
  BY <1>1, Invariance, PTL

\* What RevokedIsFinal says of one token.
Final(t) ==
    Stored(t) /\ Stored(t)' =>
        /\ token[t].revoked => token'[t].revoked
        /\ token[t].replacedBy # None => token'[t].replacedBy # None

LEMMA SameRowFinal ==
    ASSUME NEW t \in Tokens, token'[t] = token[t]
    PROVE  Final(t)
BY DEF Final

LEMMA RevokedFinal ==
    ASSUME NEW t \in Tokens, token[t] \in TokenState, Stored(t) => token'[t] = Revoked(token[t])
    PROVE  Final(t)
<1>1. SUFFICES ASSUME Stored(t)
               PROVE  /\ token[t].revoked => token'[t].revoked
                      /\ token[t].replacedBy # None => token'[t].replacedBy # None
  BY DEF Final
<1>2. token[t] \in Row /\ token'[t] = Revoked(token[t])
  BY <1>1, StateLemma DEF Stored
<1>3. QED
  BY <1>2 DEF Revoked, Row

LEMMA StepFinal ==
    ASSUME IInv, [Next]_vars, NEW t \in Tokens
    PROVE  Final(t)
<1>1. TypeOK /\ token \in [Tokens -> TokenState]
  BY TypeLemma DEF IInv
<1>2. CASE token' = token
  BY <1>2, SameRowFinal
<1>3. ASSUME NEW h \in Handlers, NEW n \in Tokens, Issue(h, n) PROVE Final(t)
  <2>1. t # n => token'[t] = token[t]
    BY <1>1, <1>3 DEF Issue
  <2>2. QED
    BY <1>3, <2>1 DEF Final, Issue, Stored, Fresh
<1>4. ASSUME NEW h \in Handlers, NEW n \in Tokens, Rotate(h, n) PROVE Final(t)
  <2>1. job[h].token \in Tokens /\ Stored(job[h].token) /\ Fresh(n)
    BY <1>1, <1>4, JobTokenLemma DEF IInv, JobsOK, Rotate
  <2>2. Rotates(job[h].token, n, token[job[h].token].family)
    BY <1>1, <1>4, <2>1, RotateShape DEF Rotate
  <2>3. QED
    BY <2>1, <2>2 DEF Rotates, Final, Stored, Fresh
<1>5. ASSUME NEW S \in SUBSET Tokens, NEW by, RevokeEach(S, by) PROVE Final(t)
  <2>1. token'[t] = IF t \in S THEN Revoked(token[t]) ELSE token[t]
    BY <1>5 DEF RevokeEach
  <2>2. QED
    BY <1>1, <2>1, SameRowFinal, RevokedFinal
<1>6. ASSUME NEW h \in Handlers, Burn(h) \/ RevokeAllForUser(h) PROVE Final(t)
  BY <1>5, <1>6 DEF Burn, RevokeAllForUser
<1>7. ASSUME NEW h \in Handlers, Revoke(h) PROVE Final(t)
  <2>1. CASE t = job[h].token
    BY <1>1, <1>7, <2>1, RevokedFinal DEF Revoke
  <2>2. CASE t # job[h].token
    BY <1>1, <1>7, <2>2, SameRowFinal DEF Revoke
  <2>3. QED
    BY <2>1, <2>2
<1>8. ASSUME NEW s \in Tokens, Expire(s) PROVE Final(t)
  <2>1. CASE t = s
    <3>1. token[t] \in Row /\ token'[t] = [token[t] EXCEPT !.expired = TRUE]
      BY <1>1, <1>8, <2>1, StateLemma DEF Expire, Stored
    <3>2. QED
      BY <3>1 DEF Row, Final
  <2>2. CASE t # s
    BY <1>1, <1>8, <2>2, SameRowFinal DEF Expire
  <2>3. QED
    BY <2>1, <2>2
<1>9. ASSUME NEW S \in SUBSET Tokens, PurgeExpired(S) PROVE Final(t)
  <2>1. CASE t \in S
    BY <1>9, <2>1 DEF PurgeExpired, Purged, Final, Stored
  <2>2. CASE t \notin S
    BY <1>9, <2>2, SameRowFinal DEF PurgeExpired
  <2>3. QED
    BY <2>1, <2>2
<1>10. ASSUME NEW h \in Handlers, Request(h) PROVE Final(t)
  BY <1>2, <1>10 DEF Request, Login, ChangePassword, PresentReused, Refresh, Logout
<1>11. CASE Surroundings
  BY <1>2, <1>8, <1>9, <1>11 DEF Surroundings, SoftDelete, SetActive, Crash
<1>12. ASSUME NEW h \in Handlers, Continue(h) PROVE Final(t)
  BY <1>3, <1>4, <1>6, <1>7, <1>12 DEF Continue
<1>13. CASE UNCHANGED vars
  BY <1>2, <1>13 DEF vars
<1>14. QED
  BY <1>10, <1>11, <1>12, <1>13 DEF Next

\* A revoked token stays revoked and keeps its link to a successor.
THEOREM RevocationIsFinal == Spec => RevokedIsFinal
<1>1. IInv /\ [Next]_vars =>
        [\A t \in Tokens : Stored(t) /\ Stored(t)' =>
           /\ token[t].revoked => token'[t].revoked
           /\ token[t].replacedBy # None => token'[t].replacedBy # None]_vars
  BY StepFinal DEF Final
<1>2. QED
  BY <1>1, Invariance, PTL DEF Spec, RevokedIsFinal
=============================================================================
