----------------------------- MODULE RateCounter -----------------------------
(***************************************************************************)
(* The counter with a time to live that the login throttle and the two     *)
(* Telegram limits keep in Redis: SET key 0 EX window NX, then, as a       *)
(* second command, INCR key.  A counter is a value and the time it has     *)
(* left, with the replies of Redis TTL for a key that never expires and    *)
(* for one that is not there.                                              *)
(***************************************************************************)
EXTENDS Integers

CONSTANT Window     \* time to live of a counter, in ticks

ASSUME WindowIsPositive == Window \in Nat \ {0}

NoExpiry == -1
NoKey == -2
Absent == [value |-> 0, ttl |-> NoKey]

Counter == [value : Nat, ttl : {NoKey, NoExpiry} \cup 1..Window]

\* SET key 0 EX Window NX.  A definition whose name adds a word to the one that
\* follows it is a mutant of it.
SeededRenewed(c) ==
    IF c = Absent THEN [value |-> 0, ttl |-> Window] ELSE [c EXCEPT !.ttl = Window]
Seeded(c) == IF c = Absent THEN [value |-> 0, ttl |-> Window] ELSE c

\* INCR key: a key that is not there is taken for 0, and gets no expiry.
Incremented(c) ==
    IF c = Absent THEN [value |-> 1, ttl |-> NoExpiry] ELSE [c EXCEPT !.value = @ + 1]

\* A tick of the clock.
AgedLate(c) == IF c.ttl >= 0 THEN [c EXCEPT !.ttl = @ - 1] ELSE c
Aged(c) ==
    CASE c.ttl = 1 -> Absent
      [] c.ttl > 1 -> [c EXCEPT !.ttl = @ - 1]
      [] OTHER -> c

\* What happened to a key, as the ages of its last events, newest first: an age
\* of Window stands for older than a window, and for no event at all.
Ages(n) == [1..n -> 0..Window]
NoEvent(n) == [i \in 1..n |-> Window]
OneMore(ages) == [i \in DOMAIN ages |-> IF i = 1 THEN 0 ELSE ages[i - 1]]
Older(ages) == [i \in DOMAIN ages |-> IF ages[i] < Window THEN ages[i] + 1 ELSE Window]
=============================================================================
