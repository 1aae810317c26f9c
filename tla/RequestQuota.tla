---------------------------- MODULE RequestQuota ----------------------------
(***************************************************************************)
(* The two limits that count every attempt: Telegram logins per address    *)
(* (registerAttempt) and messages per chat (checkAndBump).  An attempt     *)
(* seeds the quota, increments it, and is let through when the value it    *)
(* gets back is within the limit; nothing ever deletes the quota.          *)
(***************************************************************************)
EXTENDS RateCounter

CONSTANTS
    Attempts,       \* attempts that may be under way at once, on one key
    MaxPerWindow,   \* MAX_ATTEMPTS, MAX_PER_WINDOW
    QuotaBound      \* bound: the quota is not taken beyond it

ASSUME QuotaIsPositive == MaxPerWindow \in Nat \ {0} /\ QuotaBound \in Nat

VARIABLES
    quota,          \* what Redis holds for the key
    seeded,         \* the requests between their two commands
    allowed         \* the ages of the last attempts let through, one more of
                    \* them than two counters let through

quotaVars == <<quota, seeded, allowed>>

-----------------------------------------------------------------------------
QuotaInit ==
    /\ quota = Absent
    /\ seeded = {}
    /\ allowed = NoEvent(2 * MaxPerWindow + 1)

SeedQuota(r) ==
    /\ r \notin seeded
    /\ quota' = Seeded(quota)
    /\ seeded' = seeded \cup {r}
    /\ UNCHANGED allowed

\* A definition whose name adds a word to the one that follows it is a mutant
\* of it.
WithinLimitOffByOne(value) == value <= MaxPerWindow + 1
WithinLimit(value) == value <= MaxPerWindow

\* The increment, and the verdict on the value it returned.
CountAttempt(r) ==
    /\ r \in seeded
    /\ quota.value < QuotaBound
    /\ quota' = Incremented(quota)
    /\ seeded' = seeded \ {r}
    /\ allowed' = IF WithinLimit(quota'.value) THEN OneMore(allowed) ELSE allowed

\* The process stops: attempts under way are lost, Redis keeps the quota.
QuotaCrash ==
    /\ seeded' = {}
    /\ UNCHANGED <<quota, allowed>>

QuotaTick ==
    /\ quota' = Aged(quota)
    /\ allowed' = Older(allowed)
    /\ UNCHANGED seeded

QuotaNext ==
    \/ \E r \in Attempts : SeedQuota(r) \/ CountAttempt(r)
    \/ QuotaCrash
    \/ QuotaTick

QuotaSpec == QuotaInit /\ [][QuotaNext]_quotaVars

-----------------------------------------------------------------------------
(* Properties.                                                             *)

QuotaTypeOK ==
    /\ quota \in Counter
    /\ seeded \subseteq Attempts
    /\ allowed \in Ages(2 * MaxPerWindow + 1)

\* Any window of time lets at most the attempts of two counters through: the
\* one that ends in it and the one that begins.
TwoWindowsAtMost == allowed[2 * MaxPerWindow + 1] = Window
=============================================================================
