---------------------------- MODULE LoginThrottle ----------------------------
(***************************************************************************)
(* Password login against BruteForceService: a failed login bumps two      *)
(* counters, of the email and of the address it came from; either at       *)
(* MaxAttempts refuses further logins; a login that succeeds deletes both. *)
(*                                                                         *)
(* A request looks at the counters, compares the password, and then seeds  *)
(* and increments, each of which other requests, the clock and a stop of   *)
(* the process may come between.  The commands issued together by one      *)
(* Promise.all reach Redis together, but each increment waits for the      *)
(* reply to its own seed.                                                  *)
(***************************************************************************)
EXTENDS RateCounter, FiniteSets

CONSTANTS
    Emails, Ips,    \* what logins are tried with, and where from
    Requests,       \* logins that may be under way at once
    MaxAttempts,    \* AUTH_THROTTLE_LIMIT
    MaxValue        \* bound: no counter is taken beyond it

ASSUME LimitIsPositive == MaxAttempts \in Nat \ {0} /\ MaxValue \in Nat
ASSUME KeysDiffer == Emails \cap Ips = {}
ASSUME RequestsAreFinite == IsFiniteSet(Requests)

VARIABLES
    counter,        \* counter[k]: what Redis holds for email or address k
    job,            \* job[r]: how far request r has come
    recent          \* recent[k]: the ages of the last MaxAttempts failures
                    \* counted for k

vars == <<counter, job, recent>>

-----------------------------------------------------------------------------
Keys == Emails \cup Ips

Idle == [step |-> "idle"]
Job(step, e, i) == [step |-> step, keys |-> {e, i}]
Jobs == [step : {"checked", "seeded"}, keys : SUBSET Keys]

AtLimit(k) == counter[k].value >= MaxAttempts

\* isLocked
IsLockedBoth(e, i) == AtLimit(e) /\ AtLimit(i)
IsLocked(e, i) == AtLimit(e) \/ AtLimit(i)

-----------------------------------------------------------------------------
Init ==
    /\ counter = [k \in Keys |-> Absent]
    /\ job = [r \in Requests |-> Idle]
    /\ recent = [k \in Keys |-> NoEvent(MaxAttempts)]

\* A login that is not refused goes on to compare the password.
Check(r, e, i) ==
    /\ job[r] = Idle
    /\ ~IsLocked(e, i)
    /\ job' = [job EXCEPT ![r] = Job("checked", e, i)]
    /\ UNCHANGED <<counter, recent>>

\* The password is wrong or the account disabled: recordFailure seeds both keys.
Seed(r) ==
    /\ job[r].step = "checked"
    /\ counter' = [k \in Keys |-> IF k \in job[r].keys THEN Seeded(counter[k])
                                                       ELSE counter[k]]
    /\ job' = [job EXCEPT ![r].step = "seeded"]
    /\ UNCHANGED <<recent>>

\* One of the two increments, and with the last of them the login has failed.
Increment(r, k) ==
    /\ job[r].step = "seeded"
    /\ k \in job[r].keys
    /\ counter[k].value < MaxValue
    /\ counter' = [counter EXCEPT ![k] = Incremented(@)]
    /\ recent' = [recent EXCEPT ![k] = OneMore(@)]
    /\ job' = [job EXCEPT ![r] = IF @.keys = {k} THEN Idle
                                 ELSE [@ EXCEPT !.keys = job[r].keys \ {k}]]

\* The password is right: clear.
Clear(r) ==
    /\ job[r].step = "checked"
    /\ counter' = [k \in Keys |-> IF k \in job[r].keys THEN Absent ELSE counter[k]]
    /\ job' = [job EXCEPT ![r] = Idle]
    /\ UNCHANGED <<recent>>

\* The process stops: requests under way are lost, Redis keeps its keys.
Crash ==
    /\ job' = [r \in Requests |-> Idle]
    /\ UNCHANGED <<counter, recent>>

Tick ==
    /\ counter' = [k \in Keys |-> Aged(counter[k])]
    /\ recent' = [k \in Keys |-> Older(recent[k])]
    /\ UNCHANGED job

Next ==
    \/ \E r \in Requests, e \in Emails, i \in Ips : Check(r, e, i)
    \/ \E r \in Requests : Seed(r) \/ Clear(r)
    \/ \E r \in Requests, k \in Keys : Increment(r, k)
    \/ Crash
    \/ Tick

Spec == Init /\ [][Next]_vars

-----------------------------------------------------------------------------
(* Properties.                                                             *)

TypeOK ==
    /\ counter \in [Keys -> Counter]
    /\ job \in [Requests -> {Idle} \cup Jobs]
    /\ recent \in [Keys -> Ages(MaxAttempts)]

\* A lock that will expire is earned: MaxAttempts logins with this email or
\* from this address failed within the last window.
LockIsEarned ==
    \A k \in Keys : AtLimit(k) /\ counter[k].ttl > 0 =>
        \A n \in 1..MaxAttempts : recent[k][n] < Window

\* Overlapping logins get past the limit, but only those that were under way
\* when it was reached.
OverrunIsBounded ==
    \A k \in Keys : counter[k].value < MaxAttempts + Cardinality(Requests)

\* The comments of recordFailure and bumpKey: the first hit on a key sets its
\* expiry, and no key is left without one.
EveryCounterExpires == \A k \in Keys : counter[k].ttl # NoExpiry
=============================================================================
