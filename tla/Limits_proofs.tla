---------------------------- MODULE Limits_proofs ----------------------------
(***************************************************************************)
(* Proofs about LoginThrottle and RequestQuota, for every set of keys and  *)
(* requests, every limit and every window.  The inductive invariants tie   *)
(* a counter to the time it has left: what it counts is younger than it is *)
(* (LockInv), and what it does not count is older (WindowInv), so that two *)
(* counters are all that one window of time can meet.  RoomInv counts the  *)
(* failures of a key together with the logins under way that may add one.  *)
(***************************************************************************)
EXTENDS LoginThrottle, RequestQuota, FiniteSetTheorems, TLAPS

-----------------------------------------------------------------------------
(* The counter and the ages.                                               *)

\* The commands of Redis and the clock keep a counter a counter.
LEMMA CountersStay ==
    ASSUME NEW c \in Counter
    PROVE  /\ Absent \in Counter
           /\ Seeded(c) \in Counter
           /\ Incremented(c) \in Counter
           /\ Aged(c) \in Counter
<1>1. Window \in Nat \ {0}
  BY WindowIsPositive
<1>2. Absent \in Counter
  BY <1>1 DEF Absent, Counter, NoKey
<1>3. Seeded(c) \in Counter
  BY <1>1 DEF Seeded, Counter
<1>4. Incremented(c) \in Counter
  BY <1>1 DEF Incremented, Counter, NoExpiry
<1>5. Aged(c) \in Counter
  <2>1. CASE c.ttl = 1
    BY <2>1, <1>2 DEF Aged
  <2>2. CASE c.ttl # 1 /\ c.ttl > 1
    <3>1. c.ttl \in 1..Window /\ c.ttl - 1 \in 1..Window
      BY <2>2, <1>1 DEF Counter, NoKey, NoExpiry
    <3>2. Aged(c) = [c EXCEPT !.ttl = @ - 1]
      BY <2>2 DEF Aged
    <3>3. QED
      BY <3>1, <3>2 DEF Counter
  <2>3. CASE c.ttl # 1 /\ ~(c.ttl > 1)
    BY <2>3 DEF Aged
  <2>4. QED
    BY <2>1, <2>2, <2>3
<1>6. QED
  BY <1>2, <1>3, <1>4, <1>5

\* What each of them does to a counter whose expiry is known.
LEMMA CounterSteps ==
    ASSUME NEW c \in Counter
    PROVE  /\ c.value \in Nat /\ Window \in Nat \ {0}
           /\ c.ttl \in {NoKey, NoExpiry} \cup 1..Window
           /\ \/ Seeded(c) = c
              \/ c = Absent /\ Seeded(c).value = 0 /\ Seeded(c).ttl = Window
           /\ Incremented(c).value = c.value + 1
           /\ Incremented(c).ttl > 0 => Incremented(c).ttl = c.ttl
           /\ \/ Aged(c) = c /\ ~(c.ttl > 0)
              \/ Aged(c) = Absent /\ c.ttl = 1
              \/ Aged(c).value = c.value /\ Aged(c).ttl = c.ttl - 1 /\ c.ttl > 1
<1>1. Window \in Nat \ {0} /\ c.value \in Nat /\ c.ttl \in {NoKey, NoExpiry} \cup 1..Window
  BY WindowIsPositive DEF Counter
<1>2. \/ Seeded(c) = c
      \/ c = Absent /\ Seeded(c).value = 0 /\ Seeded(c).ttl = Window
  BY DEF Seeded
<1>3. /\ Incremented(c).value = c.value + 1
      /\ Incremented(c).ttl > 0 => Incremented(c).ttl = c.ttl
  <2>1. CASE c = Absent
    BY <2>1 DEF Incremented, Absent, NoExpiry
  <2>2. CASE c # Absent
    BY <2>2 DEF Incremented, Counter
  <2>3. QED
    BY <2>1, <2>2
<1>4. \/ Aged(c) = c /\ ~(c.ttl > 0)
      \/ Aged(c) = Absent /\ c.ttl = 1
      \/ Aged(c).value = c.value /\ Aged(c).ttl = c.ttl - 1 /\ c.ttl > 1
  <2>1. CASE c.ttl = 1
    BY <2>1 DEF Aged
  <2>2. CASE c.ttl # 1 /\ c.ttl > 1
    BY <2>2 DEF Aged, Counter
  <2>3. CASE c.ttl # 1 /\ ~(c.ttl > 1)
    BY <2>3, <1>1 DEF Aged, NoKey, NoExpiry
  <2>4. QED
    BY <2>1, <2>2, <2>3
<1>5. QED
  BY <1>1, <1>2, <1>3, <1>4

\* No event, one more event, and a tick, of the ages of the last n events.
LEMMA AgesStay ==
    ASSUME NEW n \in Nat \ {0}, NEW ages \in Ages(n)
    PROVE  /\ NoEvent(n) \in Ages(n)
           /\ OneMore(ages) \in Ages(n)
           /\ OneMore(ages)[1] = 0
           /\ \A i \in 1..n : i # 1 => i - 1 \in 1..n /\ OneMore(ages)[i] = ages[i - 1]
           /\ Older(ages) \in Ages(n)
           /\ \A i \in 1..n :
                \/ ages[i] < Window /\ Older(ages)[i] = ages[i] + 1
                \/ ages[i] = Window /\ Older(ages)[i] = Window
<1>1. Window \in Nat /\ DOMAIN ages = 1..n /\ \A i \in 1..n : ages[i] \in 0..Window
  BY WindowIsPositive DEF Ages
<1>2. NoEvent(n) \in Ages(n)
  BY <1>1 DEF NoEvent, Ages
<1>3. \A i \in 1..n : i # 1 => i - 1 \in 1..n /\ OneMore(ages)[i] = ages[i - 1]
  BY <1>1 DEF OneMore
<1>4. OneMore(ages)[1] = 0
  BY <1>1 DEF OneMore
<1>5. OneMore(ages) \in Ages(n)
  <2>1. \A i \in 1..n : OneMore(ages)[i] \in 0..Window
    BY <1>1, <1>3, <1>4
  <2>2. OneMore(ages) = [i \in 1..n |-> OneMore(ages)[i]]
    BY <1>1 DEF OneMore
  <2>3. QED
    BY <2>1, <2>2 DEF Ages
<1>6. \A i \in 1..n :
         \/ ages[i] < Window /\ Older(ages)[i] = ages[i] + 1
         \/ ages[i] = Window /\ Older(ages)[i] = Window
  BY <1>1 DEF Older
<1>7. Older(ages) \in Ages(n)
  <2>1. \A i \in 1..n : Older(ages)[i] \in 0..Window
    BY <1>1, <1>6
  <2>2. Older(ages) = [i \in 1..n |-> Older(ages)[i]]
    BY <1>1 DEF Older
  <2>3. QED
    BY <2>1, <2>2 DEF Ages
<1>8. QED
  BY <1>2, <1>3, <1>4, <1>5, <1>6, <1>7

-----------------------------------------------------------------------------
(* LoginThrottle.                                                          *)

\* The logins under way that have not yet counted their failure of k.
Pending(k) == {r \in Requests : job[r] # Idle /\ k \in job[r].keys}

\* Until it expires, a counter counts failures that are younger than itself.
LockInv ==
    \A k \in Keys : counter[k].ttl > 0 =>
        \A n \in 1..MaxAttempts :
            n <= counter[k].value => recent[k][n] <= Window - counter[k].ttl

\* The failures of a key and the logins that may fail it: a login joins the
\* second number only while the first is below the limit.
RoomInv ==
    \A k \in Keys : counter[k].value + Cardinality(Pending(k))
                        < MaxAttempts + Cardinality(Requests)

LoginInv == TypeOK /\ LockInv /\ RoomInv

\* The kinds of work are told apart by their steps.
LEMMA WorkIsKnown ==
    ASSUME TypeOK, NEW r \in Requests
    PROVE  /\ job[r] = Idle \/ job[r] \in Jobs
           /\ job[r] \in Jobs => job[r] # Idle
           /\ job[r].step \in {"checked", "seeded"} => job[r] \in Jobs
<1>1. job[r] = Idle \/ job[r] \in Jobs
  BY DEF TypeOK
<1>2. QED
  BY <1>1 DEF Jobs, Idle

\* A step that leaves a key no higher a counter and no more logins under way
\* keeps its room.
LEMMA LessKeepsRoom ==
    ASSUME TypeOK, TypeOK', RoomInv, NEW k \in Keys,
           counter'[k].value <= counter[k].value,
           Pending(k)' \subseteq Pending(k)
    PROVE  counter'[k].value + Cardinality(Pending(k)')
                < MaxAttempts + Cardinality(Requests)
<1>1. /\ IsFiniteSet(Pending(k)) /\ IsFiniteSet(Requests) /\ IsFiniteSet(Pending(k)')
  BY RequestsAreFinite, FS_Subset DEF Pending
<1>2. /\ Cardinality(Pending(k)') <= Cardinality(Pending(k))
      /\ Cardinality(Pending(k)) \in Nat /\ Cardinality(Pending(k)') \in Nat
      /\ Cardinality(Requests) \in Nat
  BY <1>1, FS_Subset, FS_CardinalityType
<1>3. counter[k].value \in Nat /\ counter'[k].value \in Nat /\ MaxAttempts \in Nat
  BY LimitIsPositive DEF TypeOK, Counter
<1>4. counter[k].value + Cardinality(Pending(k)) < MaxAttempts + Cardinality(Requests)
  BY DEF RoomInv
<1>5. QED
  BY <1>2, <1>3, <1>4

\* Initially nothing is counted and nothing is under way.
LEMMA LoginInitial == Init => LoginInv
<1>1. SUFFICES ASSUME Init PROVE LoginInv
  OBVIOUS
<1>2. /\ \A k \in Keys : counter[k] = Absent
      /\ \A r \in Requests : job[r] = Idle
  BY <1>1 DEF Init
<1>3. TypeOK
  <2>1. Absent \in Counter
    BY WindowIsPositive DEF Absent, Counter, NoKey
  <2>2. NoEvent(MaxAttempts) \in Ages(MaxAttempts)
    BY WindowIsPositive DEF NoEvent, Ages
  <2>3. counter \in [Keys -> Counter]
    BY <1>1, <2>1 DEF Init
  <2>4. job \in [Requests -> {Idle} \cup Jobs]
    BY <1>1 DEF Init
  <2>5. recent \in [Keys -> Ages(MaxAttempts)]
    BY <1>1, <2>2 DEF Init
  <2>6. QED
    BY <2>3, <2>4, <2>5 DEF TypeOK
<1>4. LockInv
  BY <1>2 DEF LockInv, Absent, NoKey
<1>5. RoomInv
  <2>1. ASSUME NEW k \in Keys
        PROVE  counter[k].value + Cardinality(Pending(k))
                 < MaxAttempts + Cardinality(Requests)
    <3>1. Pending(k) = {}
      BY <1>2 DEF Pending
    <3>2. Cardinality(Pending(k)) = 0
      BY <3>1, FS_EmptySet
    <3>3. Cardinality(Requests) \in Nat /\ MaxAttempts \in Nat \ {0}
      BY RequestsAreFinite, FS_CardinalityType, LimitIsPositive
    <3>4. counter[k].value = 0
      BY <1>2, <2>1 DEF Absent
    <3>5. QED
      BY <3>2, <3>3, <3>4
  <2>2. QED
    BY <2>1 DEF RoomInv
<1>6. QED
  BY <1>3, <1>4, <1>5 DEF LoginInv

\* Every step keeps the types.
LEMMA LoginTyping == TypeOK /\ [Next]_vars => TypeOK'
<1>1. SUFFICES ASSUME TypeOK, [Next]_vars PROVE TypeOK'
  OBVIOUS
<1>2. /\ counter \in [Keys -> Counter] /\ job \in [Requests -> {Idle} \cup Jobs]
      /\ recent \in [Keys -> Ages(MaxAttempts)] /\ MaxAttempts \in Nat \ {0}
  BY <1>1, LimitIsPositive DEF TypeOK
<1>3. ASSUME NEW r \in Requests, NEW e \in Emails, NEW i \in Ips, Check(r, e, i)
      PROVE  TypeOK'
  <2>1. Job("checked", e, i) \in Jobs
    BY <1>3 DEF Job, Jobs, Keys
  <2>2. QED
    BY <1>2, <1>3, <2>1 DEF Check, TypeOK
<1>4. ASSUME NEW r \in Requests, Seed(r) PROVE TypeOK'
  <2>1. \A k \in Keys : Seeded(counter[k]) \in Counter
    BY <1>2, CountersStay
  <2>2. counter' \in [Keys -> Counter]
    BY <1>2, <1>4, <2>1 DEF Seed
  <2>3. job[r] \in Jobs
    BY <1>1, <1>4, WorkIsKnown DEF Seed
  <2>4. [job[r] EXCEPT !.step = "seeded"] \in Jobs
    BY <2>3 DEF Jobs
  <2>5. QED
    BY <1>2, <1>4, <2>2, <2>4 DEF Seed, TypeOK
<1>5. ASSUME NEW r \in Requests, NEW k \in Keys, Increment(r, k) PROVE TypeOK'
  <2>1. Incremented(counter[k]) \in Counter
    BY <1>2, CountersStay
  <2>2. OneMore(recent[k]) \in Ages(MaxAttempts)
    BY <1>2, AgesStay
  <2>3. job[r] \in Jobs
    BY <1>1, <1>5, WorkIsKnown DEF Increment
  <2>4. [job[r] EXCEPT !.keys = job[r].keys \ {k}] \in Jobs
    BY <2>3 DEF Jobs
  <2>5. job' \in [Requests -> {Idle} \cup Jobs]
    BY <1>2, <1>5, <2>4 DEF Increment
  <2>6. QED
    BY <1>2, <1>5, <2>1, <2>2, <2>5 DEF Increment, TypeOK
<1>6. ASSUME NEW r \in Requests, Clear(r) PROVE TypeOK'
  <2>1. Absent \in Counter
    BY WindowIsPositive DEF Absent, Counter, NoKey
  <2>2. QED
    BY <1>2, <1>6, <2>1 DEF Clear, TypeOK
<1>7. CASE Crash
  BY <1>2, <1>7 DEF Crash, TypeOK
<1>8. CASE Tick
  <2>1. \A k \in Keys : Aged(counter[k]) \in Counter
    BY <1>2, CountersStay
  <2>2. \A k \in Keys : Older(recent[k]) \in Ages(MaxAttempts)
    BY <1>2, AgesStay
  <2>3. QED
    BY <1>2, <1>8, <2>1, <2>2 DEF Tick, TypeOK
<1>9. CASE UNCHANGED vars
  BY <1>2, <1>9 DEF vars, TypeOK
<1>10. QED
  BY <1>1, <1>3, <1>4, <1>5, <1>6, <1>7, <1>8, <1>9 DEF Next

\* Every step keeps the failures counted younger than their counter.
LEMMA LocksStay == TypeOK /\ LockInv /\ [Next]_vars => LockInv'
<1>1. SUFFICES ASSUME TypeOK, LockInv, [Next]_vars, NEW k \in Keys, counter'[k].ttl > 0,
                      NEW n \in 1..MaxAttempts, n <= counter'[k].value
               PROVE  recent'[k][n] <= Window - counter'[k].ttl
  BY DEF LockInv
<1>2. /\ counter \in [Keys -> Counter] /\ recent \in [Keys -> Ages(MaxAttempts)]
      /\ counter[k] \in Counter /\ recent[k] \in Ages(MaxAttempts)
      /\ MaxAttempts \in Nat \ {0}
  BY <1>1, LimitIsPositive DEF TypeOK
<1>3. counter[k].ttl > 0 /\ n <= counter[k].value
        => recent[k][n] <= Window - counter[k].ttl
  BY <1>1 DEF LockInv
<1>4. /\ counter[k].value \in Nat /\ Window \in Nat \ {0}
      /\ counter[k].ttl \in {NoKey, NoExpiry} \cup 1..Window
  BY <1>2, CounterSteps
<1>5. Absent.ttl = -2 /\ Absent.value = 0
  BY DEF Absent, NoKey
<1>6. counter'[k] = counter[k] /\ recent'[k] = recent[k]
        => recent'[k][n] <= Window - counter'[k].ttl
  BY <1>1, <1>3
<1>7. ASSUME NEW r \in Requests, NEW e \in Emails, NEW i \in Ips, Check(r, e, i)
      PROVE  recent'[k][n] <= Window - counter'[k].ttl
  BY <1>6, <1>7 DEF Check
<1>8. ASSUME NEW r \in Requests, Seed(r)
      PROVE  recent'[k][n] <= Window - counter'[k].ttl
  <2>1. recent' = recent /\ counter'[k] \in {counter[k], Seeded(counter[k])}
    BY <1>8 DEF Seed
  <2>2. \/ Seeded(counter[k]) = counter[k]
        \/ Seeded(counter[k]).value = 0
    BY <1>2, CounterSteps
  <2>3. n > 0
    BY <1>2
  <2>4. QED
    BY <1>1, <1>6, <2>1, <2>2, <2>3
<1>9. ASSUME NEW r \in Requests, NEW q \in Keys, Increment(r, q)
      PROVE  recent'[k][n] <= Window - counter'[k].ttl
  <2>1. CASE q # k
    BY <1>2, <1>6, <1>9, <2>1 DEF Increment
  <2>2. CASE q = k
    <3>1. counter'[k] = Incremented(counter[k]) /\ recent'[k] = OneMore(recent[k])
      BY <1>2, <1>9, <2>2 DEF Increment
    <3>2. counter'[k].value = counter[k].value + 1 /\ counter'[k].ttl = counter[k].ttl
      BY <1>1, <1>2, <3>1, CounterSteps
    <3>3. CASE n = 1
      <4>1. recent'[k][n] = 0
        BY <1>2, <3>1, <3>3, AgesStay
      <4>2. counter[k].ttl \in 1..Window
        BY <1>1, <1>4, <3>2 DEF NoKey, NoExpiry
      <4>3. QED
        BY <1>4, <3>2, <4>1, <4>2
    <3>4. CASE n # 1
      <4>1. n - 1 \in 1..MaxAttempts /\ recent'[k][n] = recent[k][n - 1]
        BY <1>2, <3>1, <3>4, AgesStay
      <4>2. counter[k].ttl > 0 /\ n - 1 <= counter[k].value
        BY <1>1, <1>2, <1>4, <3>2
      <4>3. recent[k][n - 1] <= Window - counter[k].ttl
        BY <1>1, <4>1, <4>2 DEF LockInv
      <4>4. QED
        BY <3>2, <4>1, <4>3
    <3>5. QED
      BY <3>3, <3>4
  <2>3. QED
    BY <2>1, <2>2
<1>10. ASSUME NEW r \in Requests, Clear(r)
       PROVE  recent'[k][n] <= Window - counter'[k].ttl
  <2>1. recent' = recent /\ counter'[k] \in {counter[k], Absent}
    BY <1>10 DEF Clear
  <2>2. QED
    BY <1>1, <1>5, <1>6, <2>1
<1>11. CASE Crash
  BY <1>6, <1>11 DEF Crash
<1>12. CASE Tick
  <2>1. counter'[k] = Aged(counter[k]) /\ recent'[k] = Older(recent[k])
    BY <1>12 DEF Tick
  <2>2. \/ counter'[k] = counter[k] /\ ~(counter[k].ttl > 0)
        \/ counter'[k] = Absent
        \/ /\ counter'[k].value = counter[k].value
           /\ counter'[k].ttl = counter[k].ttl - 1 /\ counter[k].ttl > 1
    BY <1>2, <2>1, CounterSteps
  <2>3. /\ counter'[k].value = counter[k].value
        /\ counter'[k].ttl = counter[k].ttl - 1 /\ counter[k].ttl > 1
    BY <1>1, <1>5, <2>2
  <2>4. recent[k][n] <= Window - counter[k].ttl
    <3>1. counter[k].ttl > 0
      BY <1>4, <2>3 DEF NoKey, NoExpiry
    <3>2. QED
      BY <1>1, <1>3, <2>3, <3>1
  <2>5. recent'[k][n] = recent[k][n] + 1 \/ recent[k][n] = Window
    BY <1>2, <2>1, AgesStay
  <2>6. recent[k][n] \in Nat
    BY <1>2 DEF Ages
  <2>7. counter[k].ttl \in Nat
    BY <1>4, <2>3 DEF NoKey, NoExpiry
  <2>8. QED
    BY <1>4, <2>3, <2>4, <2>5, <2>6, <2>7
<1>13. CASE UNCHANGED vars
  BY <1>6, <1>13 DEF vars
<1>14. QED
  BY <1>1, <1>7, <1>8, <1>9, <1>10, <1>11, <1>12, <1>13 DEF Next

\* Every step keeps the room a key has.
LEMMA RoomStays == TypeOK /\ TypeOK' /\ RoomInv /\ [Next]_vars => RoomInv'
<1>1. SUFFICES ASSUME TypeOK, TypeOK', RoomInv, [Next]_vars, NEW k \in Keys
               PROVE  counter'[k].value + Cardinality(Pending(k)')
                        < MaxAttempts + Cardinality(Requests)
  BY DEF RoomInv
<1> DEFINE Goal == counter'[k].value + Cardinality(Pending(k)')
                     < MaxAttempts + Cardinality(Requests)
<1>2. /\ counter \in [Keys -> Counter] /\ counter[k] \in Counter
      /\ job \in [Requests -> {Idle} \cup Jobs] /\ counter[k].value \in Nat
      /\ MaxAttempts \in Nat \ {0}
  BY <1>1, LimitIsPositive DEF TypeOK, Counter
<1>3. counter'[k].value <= counter[k].value /\ Pending(k)' \subseteq Pending(k) => Goal
  BY <1>1, LessKeepsRoom
<1>4. counter'[k] = counter[k] => counter'[k].value <= counter[k].value
  BY <1>2
<1>5. ASSUME NEW r \in Requests, NEW e \in Emails, NEW i \in Ips, Check(r, e, i)
      PROVE  Goal
  <2>1. counter' = counter /\ job' = [job EXCEPT ![r] = Job("checked", e, i)]
    BY <1>5 DEF Check
  <2>2. CASE k \notin {e, i}
    <3>1. Pending(k)' \subseteq Pending(k)
      BY <1>2, <2>1, <2>2 DEF Pending, Job
    <3>2. QED
      BY <1>3, <1>4, <2>1, <3>1
  <2>3. CASE k \in {e, i}
    <3>1. counter[k].value < MaxAttempts
      BY <1>2, <1>5, <2>3 DEF Check, IsLocked, AtLimit
    <3>2. IsFiniteSet(Requests) /\ Pending(k)' \subseteq Requests
      BY RequestsAreFinite DEF Pending
    <3>3. /\ Cardinality(Pending(k)') <= Cardinality(Requests)
          /\ Cardinality(Pending(k)') \in Nat /\ Cardinality(Requests) \in Nat
      BY <3>2, FS_Subset, FS_CardinalityType
    <3>4. QED
      BY <1>2, <2>1, <3>1, <3>3
  <2>4. QED
    BY <2>2, <2>3
<1>6. ASSUME NEW r \in Requests, Seed(r) PROVE Goal
  <2>1. counter'[k] \in {counter[k], Seeded(counter[k])}
    BY <1>6 DEF Seed
  <2>2. counter'[k].value <= counter[k].value
    BY <1>2, <2>1, CounterSteps
  <2>3. job[r] \in Jobs
    BY <1>1, <1>6, WorkIsKnown DEF Seed
  <2>4. Pending(k)' \subseteq Pending(k)
    BY <1>2, <1>6, <2>3 DEF Seed, Pending, Jobs, Idle
  <2>5. QED
    BY <1>3, <2>2, <2>4
<1>7. ASSUME NEW r \in Requests, NEW q \in Keys, Increment(r, q) PROVE Goal
  <2>1. job[r] \in Jobs /\ job[r] # Idle /\ q \in job[r].keys
    BY <1>1, <1>7, WorkIsKnown DEF Increment
  <2>2. \A g \in Requests : g # r => job'[g] = job[g]
    BY <1>2, <1>7 DEF Increment
  <2>3. job'[r] = Idle \/ job'[r].keys = job[r].keys \ {q}
    BY <1>2, <1>7, <2>1 DEF Increment, Jobs
  <2>4. Pending(k)' \subseteq Pending(k)
    BY <2>1, <2>2, <2>3 DEF Pending
  <2>5. CASE q # k
    <3>1. counter'[k] = counter[k]
      BY <1>2, <1>7, <2>5 DEF Increment
    <3>2. QED
      BY <1>3, <1>4, <2>4, <3>1
  <2>6. CASE q = k
    <3>1. counter'[k].value = counter[k].value + 1
      BY <1>2, <1>7, <2>6, CounterSteps DEF Increment
    <3>2. r \in Pending(k) /\ r \notin Pending(k)'
      BY <2>1, <2>3, <2>6 DEF Pending
    <3>3. IsFiniteSet(Pending(k)) /\ IsFiniteSet(Pending(k)')
      BY RequestsAreFinite, FS_Subset DEF Pending
    <3>4. Pending(k)' \subseteq Pending(k) \ {r}
      BY <2>4, <3>2
    <3>5. /\ IsFiniteSet(Pending(k) \ {r})
          /\ Cardinality(Pending(k) \ {r}) = Cardinality(Pending(k)) - 1
      BY <3>2, <3>3, FS_RemoveElement
    <3>6. /\ Cardinality(Pending(k)') <= Cardinality(Pending(k)) - 1
          /\ Cardinality(Pending(k)') \in Nat /\ Cardinality(Pending(k)) \in Nat
      BY <3>3, <3>4, <3>5, FS_Subset, FS_CardinalityType
    <3>7. counter[k].value + Cardinality(Pending(k)) < MaxAttempts + Cardinality(Requests)
      BY <1>1 DEF RoomInv
    <3>8. Cardinality(Requests) \in Nat
      BY RequestsAreFinite, FS_CardinalityType
    <3>9. QED
      BY <1>2, <3>1, <3>6, <3>7, <3>8
  <2>7. QED
    BY <2>5, <2>6
<1>8. ASSUME NEW r \in Requests, Clear(r) PROVE Goal
  <2>1. counter'[k] \in {counter[k], Absent}
    BY <1>8 DEF Clear
  <2>2. counter'[k].value <= counter[k].value
    BY <1>2, <2>1 DEF Absent
  <2>3. Pending(k)' \subseteq Pending(k)
    BY <1>2, <1>8 DEF Clear, Pending
  <2>4. QED
    BY <1>3, <2>2, <2>3
<1>9. CASE Crash
  BY <1>3, <1>4, <1>9 DEF Crash, Pending
<1>10. CASE Tick
  <2>1. counter'[k] = Aged(counter[k])
    BY <1>10 DEF Tick
  <2>2. counter'[k].value <= counter[k].value
    BY <1>2, <2>1, CounterSteps DEF Absent
  <2>3. QED
    BY <1>3, <1>10, <2>2 DEF Tick, Pending
<1>11. CASE UNCHANGED vars
  BY <1>3, <1>4, <1>11 DEF vars, Pending
<1>12. QED
  BY <1>1, <1>5, <1>6, <1>7, <1>8, <1>9, <1>10, <1>11 DEF Next

\* The invariant of the throttle holds throughout.
THEOREM LoginInvariance == Spec => []LoginInv
<1>1. Init => LoginInv
  BY LoginInitial
<1>2. LoginInv /\ [Next]_vars => LoginInv'
  BY LoginTyping, LocksStay, RoomStays DEF LoginInv
<1>3. QED
  BY <1>1, <1>2, PTL DEF Spec

\* A counter is a value and the time it has left, and a login under way has
\* looked, or has seeded, and has some of its keys to count.
THEOREM LoginTypeCorrect == Spec => []TypeOK
<1>1. LoginInv => TypeOK
  BY DEF LoginInv
<1>2. QED
  BY <1>1, LoginInvariance, PTL

\* No email and no address is locked, but for a counter that cannot expire, that
\* has not seen MaxAttempts failed logins within the last window: however the
\* seeds, the increments, the clock and the logins that succeed fall together.
THEOREM LocksAreEarned == Spec => []LockIsEarned
<1>1. LoginInv => LockIsEarned
  <2>1. SUFFICES ASSUME LoginInv, NEW k \in Keys, AtLimit(k), counter[k].ttl > 0,
                        NEW n \in 1..MaxAttempts
                 PROVE  recent[k][n] < Window
    BY DEF LockIsEarned
  <2>2. /\ counter[k] \in Counter /\ recent[k] \in Ages(MaxAttempts)
        /\ MaxAttempts \in Nat \ {0}
    BY <2>1, LimitIsPositive DEF LoginInv, TypeOK
  <2>3. n <= counter[k].value
    BY <2>1, <2>2 DEF AtLimit, Counter
  <2>4. recent[k][n] <= Window - counter[k].ttl
    BY <2>1, <2>3 DEF LoginInv, LockInv
  <2>5. /\ Window \in Nat /\ recent[k][n] \in Nat
        /\ counter[k].ttl \in {NoKey, NoExpiry} \cup 1..Window
    BY <2>2, WindowIsPositive DEF Counter, Ages
  <2>6. QED
    BY <2>1, <2>4, <2>5 DEF NoKey, NoExpiry
<1>2. QED
  BY <1>1, LoginInvariance, PTL

\* Logins that overlap count fewer failures beyond the limit than there are
\* logins under way at once.
THEOREM OverrunsAreBounded == Spec => []OverrunIsBounded
<1>1. LoginInv => OverrunIsBounded
  <2>1. SUFFICES ASSUME LoginInv, NEW k \in Keys
                 PROVE  counter[k].value < MaxAttempts + Cardinality(Requests)
    BY DEF OverrunIsBounded
  <2>2. counter[k].value + Cardinality(Pending(k)) < MaxAttempts + Cardinality(Requests)
    BY <2>1 DEF LoginInv, RoomInv
  <2>3. IsFiniteSet(Pending(k))
    BY RequestsAreFinite, FS_Subset DEF Pending
  <2>4. /\ Cardinality(Pending(k)) \in Nat /\ Cardinality(Requests) \in Nat
        /\ counter[k].value \in Nat /\ MaxAttempts \in Nat
    BY <2>1, <2>3, RequestsAreFinite, FS_CardinalityType, LimitIsPositive
       DEF LoginInv, TypeOK, Counter
  <2>5. QED
    BY <2>2, <2>4
<1>2. QED
  BY <1>1, LoginInvariance, PTL

-----------------------------------------------------------------------------
(* RequestQuota.                                                           *)

\* One more attempt than two counters let through.
Noted == 2 * MaxPerWindow + 1

\* How many attempts the counter has let through.
Passed == IF quota.value <= MaxPerWindow THEN quota.value ELSE MaxPerWindow

\* The attempts before those of this counter and of MaxPerWindow more are older
\* than a window; and those before this counter are older than it is.
WindowInv ==
    /\ \A n \in 1..Noted : n > Passed + MaxPerWindow => allowed[n] = Window
    /\ quota.ttl > 0 => \A n \in 1..Noted : n > Passed => allowed[n] >= Window - quota.ttl

QuotaInv == QuotaTypeOK /\ WindowInv

LEMMA QuotaNumbers ==
    ASSUME QuotaTypeOK
    PROVE  /\ MaxPerWindow \in Nat \ {0} /\ Noted \in Nat \ {0}
           /\ quota.value \in Nat /\ Passed \in 0..MaxPerWindow
           /\ quota.ttl \in {NoKey, NoExpiry} \cup 1..Window
           /\ Window \in Nat \ {0}
<1>1. /\ MaxPerWindow \in Nat \ {0} /\ quota.value \in Nat /\ Window \in Nat \ {0}
      /\ quota.ttl \in {NoKey, NoExpiry} \cup 1..Window
  BY QuotaIsPositive, WindowIsPositive DEF QuotaTypeOK, Counter
<1>2. QED
  BY <1>1 DEF Noted, Passed

\* Initially nothing is counted.
LEMMA QuotaInitial == QuotaInit => QuotaInv
<1>1. SUFFICES ASSUME QuotaInit PROVE QuotaInv
  OBVIOUS
<1>2. Window \in Nat \ {0} /\ MaxPerWindow \in Nat \ {0} /\ Noted \in Nat \ {0}
  BY WindowIsPositive, QuotaIsPositive DEF Noted
<1>3. quota = Absent /\ seeded = {} /\ allowed = NoEvent(Noted)
  BY <1>1 DEF QuotaInit, Noted
<1>4. QuotaTypeOK
  <2>1. NoEvent(Noted) \in Ages(Noted)
    BY <1>2 DEF NoEvent, Ages
  <2>2. Absent \in Counter
    BY <1>2 DEF Absent, Counter, NoKey
  <2>3. QED
    BY <1>3, <2>1, <2>2 DEF QuotaTypeOK, Noted
<1>5. WindowInv
  BY <1>3 DEF WindowInv, NoEvent, Absent, NoKey
<1>6. QED
  BY <1>4, <1>5 DEF QuotaInv

\* Every step keeps the types.
LEMMA QuotaTyping == QuotaTypeOK /\ [QuotaNext]_quotaVars => QuotaTypeOK'
<1>1. SUFFICES ASSUME QuotaTypeOK, [QuotaNext]_quotaVars PROVE QuotaTypeOK'
  OBVIOUS
<1>2. /\ quota \in Counter /\ seeded \subseteq Attempts /\ allowed \in Ages(Noted)
      /\ Noted \in Nat \ {0}
  BY <1>1, QuotaNumbers DEF QuotaTypeOK, Noted
<1>3. /\ Seeded(quota) \in Counter /\ Incremented(quota) \in Counter
      /\ Aged(quota) \in Counter
  BY <1>2, CountersStay
<1>4. OneMore(allowed) \in Ages(Noted) /\ Older(allowed) \in Ages(Noted)
  BY <1>2, AgesStay
<1>5. ASSUME NEW r \in Attempts, SeedQuota(r) PROVE QuotaTypeOK'
  BY <1>2, <1>3, <1>5 DEF SeedQuota, QuotaTypeOK, Noted
<1>6. ASSUME NEW r \in Attempts, CountAttempt(r) PROVE QuotaTypeOK'
  BY <1>2, <1>3, <1>4, <1>6 DEF CountAttempt, QuotaTypeOK, Noted
<1>7. CASE QuotaCrash
  BY <1>2, <1>7 DEF QuotaCrash, QuotaTypeOK, Noted
<1>8. CASE QuotaTick
  BY <1>2, <1>3, <1>4, <1>8 DEF QuotaTick, QuotaTypeOK, Noted
<1>9. CASE UNCHANGED quotaVars
  BY <1>2, <1>9 DEF quotaVars, QuotaTypeOK, Noted
<1>10. QED
  BY <1>1, <1>5, <1>6, <1>7, <1>8, <1>9 DEF QuotaNext

\* Every step keeps the attempts of earlier counters older than this one.
LEMMA WindowsStay ==
    QuotaTypeOK /\ QuotaTypeOK' /\ WindowInv /\ [QuotaNext]_quotaVars => WindowInv'
<1>1. SUFFICES ASSUME QuotaTypeOK, QuotaTypeOK', WindowInv, [QuotaNext]_quotaVars
               PROVE  WindowInv'
  OBVIOUS
<1>2. /\ quota \in Counter /\ allowed \in Ages(Noted) /\ Noted = 2 * MaxPerWindow + 1
      /\ MaxPerWindow \in Nat \ {0} /\ Noted \in Nat \ {0}
      /\ quota.value \in Nat /\ Passed \in 0..MaxPerWindow /\ Window \in Nat \ {0}
      /\ quota.ttl \in {NoKey, NoExpiry} \cup 1..Window
  BY <1>1, QuotaNumbers DEF QuotaTypeOK, Noted
<1>3. \A n \in 1..Noted : allowed[n] \in 0..Window
  BY <1>2 DEF Ages
<1>4. \A n \in 1..Noted : n > Passed + MaxPerWindow => allowed[n] = Window
  BY <1>1 DEF WindowInv
<1>5. quota.ttl > 0 => \A n \in 1..Noted : n > Passed => allowed[n] >= Window - quota.ttl
  BY <1>1 DEF WindowInv
<1>6. Passed' = IF quota'.value <= MaxPerWindow THEN quota'.value ELSE MaxPerWindow
  BY DEF Passed
<1>7. quota' = quota /\ allowed' = allowed => WindowInv'
  BY <1>4, <1>5 DEF WindowInv, Passed
<1>8. ASSUME NEW r \in Attempts, SeedQuota(r) PROVE WindowInv'
  <2>1. quota' = Seeded(quota) /\ allowed' = allowed
    BY <1>8 DEF SeedQuota
  <2>2. \/ Seeded(quota) = quota
        \/ quota = Absent /\ Seeded(quota).value = 0 /\ Seeded(quota).ttl = Window
    BY <1>2, CounterSteps
  <2>3. CASE quota = Absent /\ quota'.value = 0 /\ quota'.ttl = Window
    <3>1. Passed' = 0 /\ Passed = 0
      BY <1>2, <2>3, <1>6 DEF Passed, Absent
    <3>2. \A n \in 1..Noted : n > Passed' + MaxPerWindow => allowed'[n] = Window
      BY <1>4, <2>1, <3>1
    <3>3. \A n \in 1..Noted : allowed'[n] >= Window - quota'.ttl
      BY <1>2, <1>3, <2>1, <2>3
    <3>4. QED
      BY <3>2, <3>3 DEF WindowInv
  <2>4. QED
    BY <1>7, <2>1, <2>2, <2>3
<1>9. ASSUME NEW r \in Attempts, CountAttempt(r) PROVE WindowInv'
  <2>1. quota' = Incremented(quota)
    BY <1>9 DEF CountAttempt
  <2>2. quota'.value = quota.value + 1 /\ (quota'.ttl > 0 => quota'.ttl = quota.ttl)
    BY <1>2, <2>1, CounterSteps
  <2>3. CASE quota'.value <= MaxPerWindow
    <3>1. allowed' = OneMore(allowed)
      BY <1>9, <2>3 DEF CountAttempt, WithinLimit
    <3>2. Passed' = Passed + 1
      BY <1>2, <1>6, <2>2, <2>3 DEF Passed
    <3>3. \A n \in 1..Noted : n # 1 => n - 1 \in 1..Noted /\ allowed'[n] = allowed[n - 1]
      BY <1>2, <3>1, AgesStay
    <3>4. ASSUME NEW n \in 1..Noted, n > Passed' + MaxPerWindow
          PROVE  allowed'[n] = Window
      <4>1. n # 1 /\ n - 1 > Passed + MaxPerWindow
        BY <1>2, <3>2, <3>4
      <4>2. QED
        BY <1>4, <3>3, <4>1
    <3>5. ASSUME quota'.ttl > 0, NEW n \in 1..Noted, n > Passed'
          PROVE  allowed'[n] >= Window - quota'.ttl
      <4>1. n # 1 /\ n - 1 > Passed
        BY <1>2, <3>2, <3>5
      <4>2. quota'.ttl = quota.ttl /\ quota.ttl > 0
        BY <2>2, <3>5
      <4>3. QED
        BY <1>5, <3>3, <4>1, <4>2
    <3>6. QED
      BY <3>4, <3>5 DEF WindowInv, Noted
  <2>4. CASE ~(quota'.value <= MaxPerWindow)
    <3>1. allowed' = allowed
      BY <1>9, <2>4 DEF CountAttempt, WithinLimit
    <3>2. Passed' = MaxPerWindow /\ Passed = MaxPerWindow
      BY <1>2, <1>6, <2>2, <2>4 DEF Passed
    <3>3. QED
      BY <1>4, <1>5, <2>2, <3>1, <3>2 DEF WindowInv, Noted
  <2>5. QED
    BY <2>3, <2>4
<1>10. CASE QuotaCrash
  BY <1>7, <1>10 DEF QuotaCrash
<1>11. CASE QuotaTick
  <2>1. quota' = Aged(quota) /\ allowed' = Older(allowed)
    BY <1>11 DEF QuotaTick
  <2>2. \/ quota' = quota /\ ~(quota.ttl > 0)
        \/ quota' = Absent /\ quota.ttl = 1
        \/ quota'.value = quota.value /\ quota'.ttl = quota.ttl - 1 /\ quota.ttl > 1
    BY <1>2, <2>1, CounterSteps
  <2>3. \A n \in 1..Noted :
           \/ allowed[n] < Window /\ allowed'[n] = allowed[n] + 1
           \/ allowed[n] = Window /\ allowed'[n] = Window
    BY <1>2, <2>1, AgesStay
  <2>4. \A n \in 1..Noted : n > Passed + MaxPerWindow => allowed'[n] = Window
    BY <1>2, <1>3, <1>4, <2>3
  <2>5. CASE quota' = quota /\ ~(quota.ttl > 0)
    BY <2>4, <2>5 DEF WindowInv, Noted, Passed
  <2>6. CASE quota' = Absent /\ quota.ttl = 1
    <3>1. Passed' = 0 /\ ~(quota'.ttl > 0)
      BY <1>2, <1>6, <2>6 DEF Absent, NoKey
    <3>2. ASSUME NEW n \in 1..Noted, n > MaxPerWindow PROVE allowed'[n] = Window
      <4>1. allowed[n] >= Window - 1
        BY <1>2, <1>5, <2>6, <3>2
      <4>2. QED
        BY <1>2, <1>3, <2>3, <4>1
    <3>3. QED
      BY <1>2, <3>1, <3>2 DEF WindowInv, Noted
  <2>7. CASE quota'.value = quota.value /\ quota'.ttl = quota.ttl - 1 /\ quota.ttl > 1
    <3>1. Passed' = Passed
      BY <2>7 DEF Passed
    <3>2. quota.ttl \in Nat
      BY <1>2, <2>7 DEF NoKey, NoExpiry
    <3>3. ASSUME NEW n \in 1..Noted, n > Passed
          PROVE  allowed'[n] >= Window - quota'.ttl
      <4>1. allowed[n] >= Window - quota.ttl
        BY <1>5, <2>7, <3>2, <3>3
      <4>2. QED
        BY <1>2, <1>3, <2>3, <2>7, <3>2, <4>1
    <3>4. QED
      BY <2>4, <3>1, <3>3 DEF WindowInv, Noted
  <2>8. QED
    BY <2>2, <2>5, <2>6, <2>7
<1>12. CASE UNCHANGED quotaVars
  BY <1>7, <1>12 DEF quotaVars
<1>13. QED
  BY <1>1, <1>8, <1>9, <1>10, <1>11, <1>12 DEF QuotaNext

\* The invariant of the quota holds throughout.
THEOREM QuotaInvariance == QuotaSpec => []QuotaInv
<1>1. QuotaInit => QuotaInv
  BY QuotaInitial
<1>2. QuotaInv /\ [QuotaNext]_quotaVars => QuotaInv'
  BY QuotaTyping, WindowsStay DEF QuotaInv
<1>3. QED
  BY <1>1, <1>2, PTL DEF QuotaSpec

\* A quota is a value and the time it has left.
THEOREM QuotaTypeCorrect == QuotaSpec => []QuotaTypeOK
<1>1. QuotaInv => QuotaTypeOK
  BY DEF QuotaInv
<1>2. QED
  BY <1>1, QuotaInvariance, PTL

\* Whatever attempts overlap, stop between their commands or come when a counter
\* expires, no window of time lets more than two counters' worth of them through.
THEOREM TwoWindowsHold == QuotaSpec => []TwoWindowsAtMost
<1>1. QuotaInv => TwoWindowsAtMost
  <2>1. SUFFICES ASSUME QuotaInv PROVE allowed[Noted] = Window
    BY DEF TwoWindowsAtMost, Noted
  <2>2. /\ MaxPerWindow \in Nat \ {0} /\ Noted \in Nat \ {0} /\ Passed \in 0..MaxPerWindow
    BY <2>1, QuotaNumbers DEF QuotaInv
  <2>3. Noted \in 1..Noted /\ Noted > Passed + MaxPerWindow
    BY <2>2 DEF Noted
  <2>4. QED
    BY <2>1, <2>3 DEF QuotaInv, WindowInv
<1>2. QED
  BY <1>1, QuotaInvariance, PTL
=============================================================================
