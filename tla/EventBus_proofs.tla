-------------------------- MODULE EventBus_proofs --------------------------
(***************************************************************************)
(* Proofs about EventBus, for any number of events, recipients, retries,   *)
(* places and stops.  The state counts nothing by itself: that a queue has *)
(* between one copy of an event and one for every stop more follows from   *)
(* where each copy is.  OwnInv says that what a queue has is published,    *)
(* bound to it and not younger than the last stop; OneInv that a copy is   *)
(* in one place only; FirstInv that the copy first published is somewhere. *)
(* Copies are then counted by their numbers.  How often an effect is       *)
(* applied follows from SpentInv, which counts what may still apply it,    *)
(* and AttemptInv.                                                         *)
(***************************************************************************)
EXTENDS EventBus, FiniteSetTheorems, TLAPS

\* What lies in one of the queues' three sets.
Gathered(q) == ready[q] \cup dead[q] \cup done[q]

Same(m, n) == m.event = n.event /\ m.copy = n.copy

Owned(q, m) ==
    m.event \notin unpublished /\ q = QueueOf(m.event) /\ m.copy <= stops

\* A timer is set for a message that has a retry left.
TimerInv ==
    \A q \in Queues, s \in Slots :
        slot[q][s].step = "waiting" => ~Exhausted(slot[q][s].msg)

OwnInv ==
    /\ \A q \in Queues : \A m \in Gathered(q) : Owned(q, m)
    /\ \A q \in Queues : \A s \in Held(q) : Owned(q, slot[q][s].msg)
    /\ \A o \in orphans : Owned(o.queue, o.work.msg)

OneInv ==
    \A q \in Queues :
        /\ \A m, n \in Gathered(q) : Same(m, n) => m = n
        /\ ready[q] \cap dead[q] = {} /\ ready[q] \cap done[q] = {}
        /\ dead[q] \cap done[q] = {}
        /\ \A s \in Held(q), m \in Gathered(q) : ~Same(slot[q][s].msg, m)
        /\ \A s, t \in Held(q) : Same(slot[q][s].msg, slot[q][t].msg) => s = t

First(e, m) == m.event = e /\ m.copy = 0

FirstInv ==
    \A e \in Events \ unpublished :
        \/ \E m \in Gathered(QueueOf(e)) : First(e, m)
        \/ \E s \in Held(QueueOf(e)) : First(e, slot[QueueOf(e)][s].msg)

Reached(q, e, i) == effects[q][e][i] > 0 \/ i \in skipped[q][e]
ReachedNext(q, e, i) == effects'[q][e][i] > 0 \/ i \in skipped'[q][e]

\* A handler has tried what it has left behind, and all of it when it is done.
TriedInv ==
    /\ \A q \in Queues, s \in Slots : slot[q][s].step = "handling" =>
         \A i \in EffectsOf(q) : i < slot[q][s].next => Reached(q, slot[q][s].msg.event, i)
    /\ \A q \in Queues : \A m \in done[q] : \A i \in EffectsOf(q) : Reached(q, m.event, i)

IInv == TypeOK /\ TimerInv /\ OwnInv /\ OneInv /\ FirstInv /\ TriedInv
-----------------------------------------------------------------------------
(* Deliveries and messages.                                                *)

LEMMA WorkTypes ==
    ASSUME NEW w \in Works \cup {Free}
    PROVE  /\ w.step \in {"free", "waiting", "handling"}
           /\ w # Free <=> w.step # "free"
           /\ w # Free => w.msg \in Message /\ w \in Works
           /\ w.step = "handling" => w.next \in Nat \ {0}
  BY DEF Works, Free

LEMMA WorkMade ==
    ASSUME NEW m \in Message, NEW i \in Nat \ {0}
    PROVE  /\ Waiting(m) \in Works /\ Waiting(m).step = "waiting" /\ Waiting(m).msg = m
           /\ Handling(m, i) \in Works /\ Handling(m, i).step = "handling"
           /\ Handling(m, i).msg = m /\ Handling(m, i).next = i
           /\ Waiting(m) # Free /\ Handling(m, i) # Free
  BY DEF Works, Free, Waiting, Handling

LEMMA MessageTypes ==
    ASSUME NEW m \in Message
    PROVE  /\ m.event \in Events /\ m.copy \in Nat /\ m.retry \in 0..MaxRetries
           /\ QueueOf(m.event) \in Queues
  BY DEF Message, QueueOf, Queues

\* The message a retry publishes is the same copy, or one with another number.
LEMMA RetriedTypes ==
    ASSUME NEW m \in Message, ~Exhausted(m), NEW n \in Nat
    PROVE  /\ Retried(m) \in Message /\ Same(Retried(m), m)
           /\ [Retried(m) EXCEPT !.copy = n] \in Message
           /\ [Retried(m) EXCEPT !.copy = n].event = m.event
           /\ [Retried(m) EXCEPT !.copy = n].copy = n
<1>1. m.retry \in Nat /\ m.retry + 1 \in 0..MaxRetries
  BY BoundsAreNatural DEF Exhausted, Message
<1>2. Retried(m) = [event |-> m.event, copy |-> m.copy, retry |-> m.retry + 1]
  BY DEF Retried, Message
<1>3. [Retried(m) EXCEPT !.copy = n] = [event |-> m.event, copy |-> n, retry |-> m.retry + 1]
  BY <1>2
<1>4. QED
  BY <1>1, <1>2, <1>3 DEF Message, Same

\* An event is bound to its own queue alone.
LEMMA OwnQueue ==
    ASSUME NEW e \in Events, NEW q \in Queues
    PROVE  q \in BoundTo(e) <=> q = QueueOf(e)
  BY DEF BoundTo, QueueOf, Queues

LEMMA SlotTypes ==
    ASSUME TypeOK, NEW q \in Queues, NEW s \in Slots
    PROVE  /\ slot[q][s] \in Works \cup {Free}
           /\ s \in Held(q) <=> slot[q][s].step # "free"
           /\ s \in Held(q) => slot[q][s].msg \in Message
  <1>1. slot[q][s] \in Works \cup {Free}
    BY DEF TypeOK
  <1>2. QED
    BY <1>1, WorkTypes DEF Held

-----------------------------------------------------------------------------
(* Copies are counted by their numbers.                                    *)

LEMMA Numbered ==
    ASSUME NEW A, NEW n \in Nat, NEW f \in [A -> 0..n],
           \A x, y \in A : f[x] = f[y] => x = y
    PROVE  /\ IsFiniteSet(A)
           /\ IsFiniteSet({f[x] : x \in A})
           /\ Cardinality(A) = Cardinality({f[x] : x \in A})
<1> DEFINE T == {f[x] : x \in A}
<1>1. IsFiniteSet(0..n)
  BY FS_Interval
<1>2. f \in Injection(A, 0..n)
  BY DEF Injection, IsInjective
<1>3. IsFiniteSet(A)
  BY <1>1, <1>2, FS_Injection
<1>4. f \in Bijection(A, T)
  BY DEF Bijection, Injection, IsInjective, Surjection
<1>5. ExistsBijection(A, T)
  BY <1>4 DEF ExistsBijection
<1>6. QED
  BY <1>3, <1>5, FS_Bijection

LEMMA TwoCounted ==
    ASSUME NEW S, NEW T, IsFiniteSet(S), IsFiniteSet(T), S \cap T = {}
    PROVE  /\ IsFiniteSet(S \cup T)
           /\ Cardinality(S \cup T) = Cardinality(S) + Cardinality(T)
<1>1. IsFiniteSet(S \cup T)
      /\ Cardinality(S \cup T) = Cardinality(S) + Cardinality(T) - Cardinality(S \cap T)
  BY FS_Union
<1>2. Cardinality(S \cap T) = 0
  BY FS_EmptySet
<1>3. Cardinality(S) \in Nat /\ Cardinality(T) \in Nat
  BY FS_CardinalityType
<1>4. QED
  BY <1>1, <1>2, <1>3

\* Four sets whose numbers differ have no more than 0..n has, and at least one
\* if some number is there.
LEMMA FourCounted ==
    ASSUME NEW n \in Nat, NEW A, NEW B, NEW C, NEW D,
           A \in SUBSET (0..n), B \in SUBSET (0..n), C \in SUBSET (0..n),
           D \in SUBSET (0..n),
           A \cap B = {}, (A \cup B) \cap C = {}, (A \cup B \cup C) \cap D = {}
    PROVE  LET sum == Cardinality(A) + Cardinality(B) + Cardinality(C) + Cardinality(D)
           IN  /\ sum \in 0..(1 + n)
               /\ A \cup B \cup C \cup D # {} => sum \in 1..(1 + n)
<1>1. IsFiniteSet(0..n) /\ Cardinality(0..n) = n + 1
  BY FS_Interval
<1>2. IsFiniteSet(A) /\ IsFiniteSet(B) /\ IsFiniteSet(C) /\ IsFiniteSet(D)
  BY <1>1, FS_Subset
<1>3. IsFiniteSet(A \cup B) /\ Cardinality(A \cup B) = Cardinality(A) + Cardinality(B)
  BY <1>2, TwoCounted
<1>4. IsFiniteSet((A \cup B) \cup C)
      /\ Cardinality((A \cup B) \cup C) = Cardinality(A \cup B) + Cardinality(C)
  BY <1>2, <1>3, TwoCounted
<1>5. IsFiniteSet((A \cup B \cup C) \cup D)
      /\ Cardinality((A \cup B \cup C) \cup D) = Cardinality((A \cup B) \cup C) + Cardinality(D)
  BY <1>2, <1>4, TwoCounted
<1> DEFINE U == (A \cup B \cup C) \cup D
<1>6. U \in SUBSET (0..n)
  OBVIOUS
<1>7. Cardinality(U) \in Nat /\ Cardinality(U) <= n + 1
  BY <1>1, <1>5, <1>6, FS_Subset, FS_CardinalityType
<1>8. U # {} => Cardinality(U) # 0
  BY <1>5, FS_EmptySet
<1>9. Cardinality(U) = Cardinality(A) + Cardinality(B) + Cardinality(C) + Cardinality(D)
  BY <1>3, <1>4, <1>5
<1>10. QED
  BY <1>7, <1>8, <1>9

LEMMA CopiesCounted ==
    ASSUME IInv, NEW q \in Queues, NEW e \in Events
    PROVE  /\ Copies(q, e) \in 0..(1 + stops)
           /\ HeldOf(q, e) \cup About(e, Gathered(q)) # {} => Copies(q, e) \in 1..(1 + stops)
           /\ HeldOf(q, e) \cup About(e, Gathered(q)) = {} => Copies(q, e) = 0
<1> DEFINE H == HeldOf(q, e)
           R == About(e, ready[q])
           D == About(e, dead[q])
           N == About(e, done[q])
           fH == [s \in H |-> slot[q][s].msg.copy]
           fR == [m \in R |-> m.copy]
           fD == [m \in D |-> m.copy]
           fN == [m \in N |-> m.copy]
           kH == {fH[s] : s \in H}
           kR == {fR[m] : m \in R}
           kD == {fD[m] : m \in D}
           kN == {fN[m] : m \in N}
<1>1. stops \in Nat
  BY DEF IInv, TypeOK
<1>2. \A m \in R \cup D \cup N :
        m \in Message /\ m \in Gathered(q) /\ m.event = e /\ m.copy \in 0..stops
  <2> SUFFICES ASSUME NEW m \in R \cup D \cup N
               PROVE  m \in Message /\ m \in Gathered(q) /\ m.event = e /\ m.copy \in 0..stops
    OBVIOUS
  <2>1. m \in Message /\ m \in Gathered(q) /\ m.event = e
    BY DEF IInv, TypeOK, About, Gathered
  <2>2. Owned(q, m)
    BY <2>1 DEF IInv, OwnInv
  <2>3. QED
    BY <1>1, <2>1, <2>2, MessageTypes DEF Owned
<1>3. \A s \in H :
        /\ s \in Held(q) /\ slot[q][s].msg \in Message /\ slot[q][s].msg.event = e
        /\ slot[q][s].msg.copy \in 0..stops
  <2> SUFFICES ASSUME NEW s \in H
               PROVE  /\ s \in Held(q) /\ slot[q][s].msg \in Message
                      /\ slot[q][s].msg.event = e /\ slot[q][s].msg.copy \in 0..stops
    OBVIOUS
  <2>1. s \in Held(q) /\ s \in Slots /\ slot[q][s].msg.event = e
    BY DEF HeldOf, Held
  <2>2. slot[q][s].msg \in Message
    BY <2>1, SlotTypes DEF IInv
  <2>3. Owned(q, slot[q][s].msg)
    BY <2>1 DEF IInv, OwnInv
  <2>4. QED
    BY <1>1, <2>1, <2>2, <2>3, MessageTypes DEF Owned
<1>4. /\ \A m, n \in R \cup D \cup N : m.copy = n.copy => m = n
      /\ R \cap D = {} /\ R \cap N = {} /\ D \cap N = {}
      /\ \A s \in H, m \in R \cup D \cup N : slot[q][s].msg.copy # m.copy
      /\ \A s, t \in H : slot[q][s].msg.copy = slot[q][t].msg.copy => s = t
  BY <1>2, <1>3 DEF IInv, OneInv, Same, About
<1>5. /\ fH \in [H -> 0..stops] /\ fR \in [R -> 0..stops]
      /\ fD \in [D -> 0..stops] /\ fN \in [N -> 0..stops]
  BY <1>2, <1>3
<1>6. /\ \A s, t \in H : fH[s] = fH[t] => s = t
      /\ \A m, n \in R : fR[m] = fR[n] => m = n
      /\ \A m, n \in D : fD[m] = fD[n] => m = n
      /\ \A m, n \in N : fN[m] = fN[n] => m = n
  BY <1>4
<1>11. /\ kH \cap kR = {} /\ (kH \cup kR) \cap kD = {} /\ (kH \cup kR \cup kD) \cap kN = {}
  BY <1>4
<1>10. /\ kH \in SUBSET (0..stops) /\ kR \in SUBSET (0..stops)
       /\ kD \in SUBSET (0..stops) /\ kN \in SUBSET (0..stops)
  BY <1>5
<1>7. /\ Cardinality(H) = Cardinality(kH) /\ Cardinality(R) = Cardinality(kR)
      /\ Cardinality(D) = Cardinality(kD) /\ Cardinality(N) = Cardinality(kN)
  <2> HIDE DEF fH, fR, fD, fN, H, R, D, N
  <2>1. Cardinality(H) = Cardinality(kH)
    BY <1>1, <1>5, <1>6, Numbered
  <2>2. Cardinality(R) = Cardinality(kR)
    BY <1>1, <1>5, <1>6, Numbered
  <2>3. Cardinality(D) = Cardinality(kD)
    BY <1>1, <1>5, <1>6, Numbered
  <2>4. Cardinality(N) = Cardinality(kN)
    BY <1>1, <1>5, <1>6, Numbered
  <2>5. QED
    BY <2>1, <2>2, <2>3, <2>4
<1>12. /\ H \cup About(e, Gathered(q)) = H \cup R \cup D \cup N
       /\ H \cup R \cup D \cup N = {} <=> kH \cup kR \cup kD \cup kN = {}
  <2>1. About(e, Gathered(q)) = R \cup D \cup N
    BY DEF Gathered, About
  <2>2. /\ H = {} <=> kH = {}
        /\ R = {} <=> kR = {}
        /\ D = {} <=> kD = {}
        /\ N = {} <=> kN = {}
    <3> HIDE DEF fH, fR, fD, fN, H, R, D, N
    <3> QED OBVIOUS
  <2>3. QED
    BY <2>1, <2>2
<1> DEFINE sum == Cardinality(kH) + Cardinality(kR) + Cardinality(kD) + Cardinality(kN)
<1>13. Copies(q, e) = sum
  BY <1>7 DEF Copies
<1> HIDE DEF kH, kR, kD, kN
<1>14. /\ sum \in 0..(1 + stops)
       /\ kH \cup kR \cup kD \cup kN # {} => sum \in 1..(1 + stops)
  BY <1>1, <1>10, <1>11, FourCounted
<1>15. kH \cup kR \cup kD \cup kN = {} => sum = 0
  <2>1. Cardinality({}) = 0
    BY FS_EmptySet
  <2>2. SUFFICES ASSUME kH \cup kR \cup kD \cup kN = {} PROVE sum = 0
    OBVIOUS
  <2>3. kH = {} /\ kR = {} /\ kD = {} /\ kN = {}
    BY <2>2
  <2>4. QED
    BY <2>1, <2>3
<1>16. QED
  BY <1>12, <1>13, <1>14, <1>15

LEMMA CountsFollow == IInv => NeverLost
<1> SUFFICES ASSUME IInv, NEW e \in Events, NEW q \in Queues
             PROVE  IF e \notin unpublished /\ q = QueueOf(e)
                      THEN Copies(q, e) \in 1..(1 + stops)
                      ELSE Copies(q, e) = 0
  BY DEF NeverLost
<1>1. CASE e \notin unpublished /\ q = QueueOf(e)
  <2>1. HeldOf(q, e) \cup About(e, Gathered(q)) # {}
    BY <1>1 DEF IInv, FirstInv, First, HeldOf, About
  <2>2. QED
    BY <1>1, <2>1, CopiesCounted
<1>2. CASE ~(e \notin unpublished /\ q = QueueOf(e))
  <2>1. HeldOf(q, e) \cup About(e, Gathered(q)) = {}
    BY <1>2 DEF IInv, OwnInv, Owned, HeldOf, About
  <2>2. QED
    BY <1>2, <2>1, CopiesCounted
<1>3. QED
  BY <1>1, <1>2
-----------------------------------------------------------------------------
(* What a step does to one place, and to what was tried.                   *)

Placed(q, s, w) == slot' = [slot EXCEPT ![q][s] = w]

LEMMA SlotPlaced ==
    ASSUME TypeOK, NEW q \in Queues, NEW s \in Slots, NEW w \in Works \cup {Free},
           Placed(q, s, w)
    PROVE  /\ slot' \in [Queues -> [Slots -> Works \cup {Free}]]
           /\ slot'[q][s] = w
           /\ \A p \in Queues, t \in Slots :
                ~(p = q /\ t = s) => slot'[p][t] = slot[p][t]
           /\ w # Free => Held(q)' = Held(q) \cup {s}
           /\ w = Free => Held(q)' = Held(q) \ {s}
           /\ \A p \in Queues \ {q} : Held(p)' = Held(p)
<1>1. /\ slot' \in [Queues -> [Slots -> Works \cup {Free}]]
      /\ slot'[q][s] = w
      /\ \A p \in Queues, t \in Slots :
           ~(p = q /\ t = s) => slot'[p][t] = slot[p][t]
  BY DEF TypeOK, Placed
<1>2. QED
  BY <1>1 DEF Held

LEMMA SlotChanged ==
    ASSUME TypeOK, NEW q \in Queues, NEW s \in Slots, NEW w \in Works \cup {Free},
           slot' = [slot EXCEPT ![q][s] = w]
    PROVE  /\ slot' \in [Queues -> [Slots -> Works \cup {Free}]]
           /\ slot'[q][s] = w
           /\ \A p \in Queues, t \in Slots :
                ~(p = q /\ t = s) => slot'[p][t] = slot[p][t]
           /\ w # Free => Held(q)' = Held(q) \cup {s}
           /\ w = Free => Held(q)' = Held(q) \ {s}
           /\ \A p \in Queues \ {q} : Held(p)' = Held(p)
<1>1. Placed(q, s, w)
  BY DEF Placed
<1>2. QED
  BY <1>1, SlotPlaced

\* Nothing that was tried becomes untried, and the effect applied is.
LEMMA Applied ==
    ASSUME TypeOK, NEW q \in Queues, NEW e \in Events, NEW i \in EffectsOf(q), Apply(q, e, i)
    PROVE  /\ DOMAIN effects' = Queues /\ DOMAIN skipped' = Queues
           /\ \A p \in Queues : effects'[p] \in [Events -> [EffectsOf(p) -> Nat]]
           /\ \A p \in Queues : skipped'[p] \in [Events -> SUBSET EffectsOf(p)]
           /\ ReachedNext(q, e, i)
           /\ \A p \in Queues, f \in Events : \A j \in EffectsOf(p) :
                Reached(p, f, j) => ReachedNext(p, f, j)
<1>2. CASE effects' = [effects EXCEPT ![q][e][i] = @ + 1] /\ UNCHANGED skipped
  <2>1. \A p \in Queues : effects'[p] \in [Events -> [EffectsOf(p) -> Nat]]
    BY <1>2 DEF TypeOK
  <2>2. effects'[q][e][i] = effects[q][e][i] + 1
    BY <1>2 DEF TypeOK
  <2>3. \A p \in Queues, f \in Events : \A j \in EffectsOf(p) :
          ~(p = q /\ f = e /\ j = i) => effects'[p][f][j] = effects[p][f][j]
    BY <1>2 DEF TypeOK
  <2>4. effects[q][e][i] \in Nat
    BY DEF TypeOK
  <2>5. ReachedNext(q, e, i)
    BY <2>2, <2>4 DEF ReachedNext
  <2>6. \A p \in Queues, f \in Events : \A j \in EffectsOf(p) :
          Reached(p, f, j) => ReachedNext(p, f, j)
    BY <1>2, <2>3, <2>5 DEF Reached, ReachedNext
  <2>7. QED
    BY <1>2, <2>1, <2>5, <2>6 DEF TypeOK
<1>3. CASE skipped' = [skipped EXCEPT ![q][e] = @ \cup {i}] /\ UNCHANGED effects
  <2>1. \A p \in Queues : skipped'[p] \in [Events -> SUBSET EffectsOf(p)]
    BY <1>3 DEF TypeOK
  <2>2. i \in skipped'[q][e]
    BY <1>3 DEF TypeOK
  <2>3. \A p \in Queues, f \in Events : skipped[p][f] \subseteq skipped'[p][f]
    BY <1>3 DEF TypeOK
  <2>4. QED
    BY <1>3, <2>1, <2>2, <2>3 DEF Reached, ReachedNext, TypeOK
<1>4. QED
  BY <1>2, <1>3 DEF Apply

\* Whether a message is owned depends on nothing but what is published and the stops.
LEMMA OwnedStays ==
    ASSUME TypeOK, unpublished' \subseteq unpublished, stops' \in Nat, stops <= stops',
           NEW q \in Queues, NEW m \in Message, Owned(q, m)
    PROVE  Owned(q, m)'
  BY MessageTypes DEF Owned, TypeOK

-----------------------------------------------------------------------------
(* The invariant holds at first, and every step keeps it.                  *)

LEMMA InitHolds == Init => IInv
<1> SUFFICES ASSUME Init PROVE IInv
  OBVIOUS
<1>1. \A q \in Queues : Held(q) = {} /\ Gathered(q) = {}
  BY DEF Init, Held, Gathered
<1>2. TypeOK
  <2>1. DOMAIN effects = Queues /\ DOMAIN skipped = Queues
    BY DEF Init
  <2>2. \A q \in Queues : /\ effects[q] \in [Events -> [EffectsOf(q) -> Nat]]
                          /\ skipped[q] \in [Events -> SUBSET EffectsOf(q)]
    BY DEF Init
  <2>3. QED
    BY <2>1, <2>2 DEF Init, TypeOK
<1>3. TimerInv
  BY DEF Init, TimerInv, Free
<1>4. OwnInv
  BY <1>1 DEF Init, OwnInv
<1>5. OneInv
  BY <1>1 DEF Init, OneInv
<1>6. FirstInv
  BY DEF Init, FirstInv
<1>7. TriedInv
  BY DEF Init, TriedInv, Free
<1>8. QED
  BY <1>2, <1>3, <1>4, <1>5, <1>6, <1>7 DEF IInv

LEMMA PublishKeeps == ASSUME IInv, NEW e \in Events, Publish(e) PROVE IInv'
<1> DEFINE m == [event |-> e, copy |-> 0, retry |-> 0]
           q == QueueOf(e)
<1>1. /\ m \in Message /\ m.event = e /\ m.copy = 0
      /\ q \in Queues /\ e \in unpublished /\ stops \in Nat
  BY BoundsAreNatural DEF Message, QueueOf, Queues, Publish, IInv, TypeOK
<1> HIDE DEF m, q
<1>2. /\ ready' = Routed(m) /\ unpublished' = unpublished \ {e}
      /\ UNCHANGED <<slot, orphans, dead, done, effects, skipped, attempts, stops>>
  BY DEF Publish, m
<1>3. /\ \A p \in Queues : p = q <=> p \in BoundTo(m.event)
      /\ ready'[q] = ready[q] \cup {m}
      /\ \A p \in Queues \ {q} : ready'[p] = ready[p]
  BY <1>1, <1>2, OwnQueue DEF Routed, q
<1>4. /\ \A p \in Queues : Held(p)' = Held(p)
      /\ Gathered(q)' = Gathered(q) \cup {m}
      /\ \A p \in Queues \ {q} : Gathered(p)' = Gathered(p)
  BY <1>2, <1>3 DEF Held, Gathered
<1>5. TypeOK'
  <2>1. ready' \in [Queues -> SUBSET Message]
    BY <1>1, <1>2 DEF IInv, TypeOK, Routed
  <2>2. QED
    BY <1>2, <2>1 DEF IInv, TypeOK
<1>6. TimerInv'
  BY <1>2 DEF IInv, TimerInv
<1>7. /\ \A p \in Queues : \A n \in Gathered(p) : n.event # e /\ Owned(p, n)
      /\ \A p \in Queues : \A s \in Held(p) :
           slot[p][s].msg.event # e /\ Owned(p, slot[p][s].msg)
      /\ \A o \in orphans : o.work.msg.event # e /\ Owned(o.queue, o.work.msg)
  BY <1>1 DEF IInv, OwnInv, Owned
<1>8. OwnInv'
  <2>1. Owned(q, m)'
    BY <1>1, <1>2 DEF Owned, q
  <2>2. \A p, n : n.event # e /\ Owned(p, n) => Owned(p, n)'
    BY <1>2 DEF Owned
  <2>3. \A p \in Queues : \A n \in Gathered(p)' : Owned(p, n)'
    BY <1>4, <1>7, <2>1, <2>2
  <2>4. \A p \in Queues : \A s \in Held(p)' : Owned(p, slot[p][s].msg)'
    BY <1>2, <1>4, <1>7, <2>2
  <2>5. \A o \in orphans' : Owned(o.queue, o.work.msg)'
    BY <1>2, <1>7, <2>2
  <2>6. QED
    BY <1>2, <2>3, <2>4, <2>5 DEF OwnInv
<1>9. OneInv'
  <2> SUFFICES ASSUME NEW p \in Queues
               PROVE  /\ \A k, n \in Gathered(p)' : Same(k, n) => k = n
                      /\ ready'[p] \cap dead'[p] = {} /\ ready'[p] \cap done'[p] = {}
                      /\ dead'[p] \cap done'[p] = {}
                      /\ \A s \in Held(p)', n \in Gathered(p)' : ~Same(slot'[p][s].msg, n)
                      /\ \A s, t \in Held(p)' :
                           Same(slot'[p][s].msg, slot'[p][t].msg) => s = t
    BY DEF OneInv, Same
  <2>1. CASE p = q
    BY <1>1, <1>2, <1>3, <1>4, <1>7, <2>1 DEF IInv, OneInv, Same, Gathered
  <2>2. CASE p # q
    BY <1>2, <1>3, <1>4, <2>2 DEF IInv, OneInv
  <2>3. QED
    BY <2>1, <2>2
<1>10. FirstInv'
  <2> SUFFICES ASSUME NEW f \in Events \ unpublished'
               PROVE  \/ \E n \in Gathered(QueueOf(f))' : First(f, n)
                      \/ \E s \in Held(QueueOf(f))' : First(f, slot'[QueueOf(f)][s].msg)
    BY DEF FirstInv, First, QueueOf
  <2>1. QueueOf(f) \in Queues
    BY DEF QueueOf, Queues
  <2>2. CASE f = e
    BY <1>1, <1>4, <2>2 DEF First, q
  <2>3. CASE f # e
    <3>1. f \in Events \ unpublished
      BY <1>2, <2>3
    <3>2. Gathered(QueueOf(f)) \subseteq Gathered(QueueOf(f))'
      BY <1>4, <2>1
    <3>3. QED
      BY <1>2, <1>4, <2>1, <3>1, <3>2 DEF IInv, FirstInv
  <2>4. QED
    BY <2>2, <2>3
<1>11. TriedInv'
  BY <1>2 DEF IInv, TriedInv, Reached
<1>12. QED
  BY <1>5, <1>6, <1>8, <1>9, <1>10, <1>11 DEF IInv
\* A message that stays where it is, while its handler goes on.
LEMMA StayKeeps ==
    ASSUME IInv, NEW q \in Queues, NEW s \in Slots, NEW w \in Works,
           s \in Held(q), w.msg = slot[q][s].msg, slot' = [slot EXCEPT ![q][s] = w],
           UNCHANGED <<unpublished, ready, dead, done, orphans, stops>>
    PROVE  OwnInv' /\ OneInv' /\ FirstInv'
<1>1. w # Free
  BY DEF Works, Free
<1>2. \A p \in Queues : /\ Held(p)' = Held(p) /\ Gathered(p)' = Gathered(p)
                        /\ \A t \in Held(p) : slot'[p][t].msg = slot[p][t].msg
  BY <1>1, SlotChanged DEF Gathered, IInv, Held
<1>3. OwnInv'
  BY <1>2 DEF IInv, OwnInv, Owned
<1>4. OneInv'
  BY <1>2 DEF IInv, OneInv
<1>5. FirstInv'
  <2>1. \A e : QueueOf(e) \in Queues
    BY DEF QueueOf, Queues
  <2>2. QED
    BY <1>2, <2>1 DEF IInv, FirstInv
<1>6. QED
  BY <1>3, <1>4, <1>5

\* A message that is put down, as what it was or with its retry counted.
LEMMA PutDownKeeps ==
    ASSUME IInv, NEW q \in Queues, NEW s \in Slots, NEW m \in Message,
           s \in Held(q), Same(m, slot[q][s].msg), slot' = [slot EXCEPT ![q][s] = Free],
           UNCHANGED <<unpublished, orphans, stops>>,
           ready' \in [Queues -> SUBSET Message], dead' \in [Queues -> SUBSET Message],
           done' \in [Queues -> SUBSET Message],
           \A p \in Queues \ {q} :
               ready'[p] = ready[p] /\ dead'[p] = dead[p] /\ done'[p] = done[p],
           \/ ready'[q] = ready[q] \cup {m} /\ dead'[q] = dead[q] /\ done'[q] = done[q]
           \/ ready'[q] = ready[q] /\ dead'[q] = dead[q] \cup {m} /\ done'[q] = done[q]
           \/ ready'[q] = ready[q] /\ dead'[q] = dead[q] /\ done'[q] = done[q] \cup {m}
    PROVE  OwnInv' /\ OneInv' /\ FirstInv'
<1>1. /\ Held(q)' = Held(q) \ {s} /\ \A p \in Queues \ {q} : Held(p)' = Held(p)
      /\ \A p \in Queues : \A t \in Held(p)' : slot'[p][t] = slot[p][t]
  <2>1. s \in Slots /\ TypeOK /\ Free \in Works \cup {Free}
    BY DEF IInv
  <2>2. /\ Held(q)' = Held(q) \ {s} /\ \A p \in Queues \ {q} : Held(p)' = Held(p)
        /\ \A p \in Queues, t \in Slots : ~(p = q /\ t = s) => slot'[p][t] = slot[p][t]
    <3>1. Placed(q, s, Free)
      BY DEF Placed
    <3>2. QED
      BY <2>1, <3>1, SlotPlaced
  <2>3. \A p \in Queues : Held(p)' \subseteq Slots
    BY DEF Held
  <2>4. QED
    BY <2>2, <2>3
<1>2. /\ Gathered(q)' = Gathered(q) \cup {m}
      /\ \A p \in Queues \ {q} : Gathered(p)' = Gathered(p)
  BY DEF Gathered
<1>3. \A n \in Gathered(q) : ~Same(m, n)
  BY DEF IInv, OneInv, Same
<1>4. Owned(q, m)
  BY DEF IInv, OwnInv, Owned, Same
<1>5. OwnInv'
  <2>1. \A p \in Queues : \A n \in Gathered(p)' : Owned(p, n)
    BY <1>2, <1>4 DEF IInv, OwnInv
  <2>2. \A p \in Queues : \A t \in Held(p)' : Owned(p, slot'[p][t].msg)
    BY <1>1 DEF IInv, OwnInv
  <2>3. QED
    BY <2>1, <2>2 DEF IInv, OwnInv, Owned
<1>6. OneInv'
  <2> SUFFICES ASSUME NEW p \in Queues
               PROVE  /\ \A k, n \in Gathered(p)' : Same(k, n) => k = n
                      /\ ready'[p] \cap dead'[p] = {} /\ ready'[p] \cap done'[p] = {}
                      /\ dead'[p] \cap done'[p] = {}
                      /\ \A t \in Held(p)', n \in Gathered(p)' : ~Same(slot'[p][t].msg, n)
                      /\ \A t, u \in Held(p)' :
                           Same(slot'[p][t].msg, slot'[p][u].msg) => t = u
    BY DEF OneInv, Same
  <2>1. CASE p = q
    <3>1. \A k, n \in Gathered(p)' : Same(k, n) => k = n
      BY <1>2, <1>3, <2>1 DEF IInv, OneInv, Same
    <3>2. /\ ready'[p] \cap dead'[p] = {} /\ ready'[p] \cap done'[p] = {}
          /\ dead'[p] \cap done'[p] = {}
      BY <1>3, <2>1 DEF IInv, OneInv, Same, Gathered
    <3>3. \A t \in Held(p)', n \in Gathered(p)' : ~Same(slot'[p][t].msg, n)
      BY <1>1, <1>2, <2>1 DEF IInv, OneInv, Same
    <3>4. \A t, u \in Held(p)' : Same(slot'[p][t].msg, slot'[p][u].msg) => t = u
      BY <1>1, <2>1 DEF IInv, OneInv
    <3>5. QED
      BY <3>1, <3>2, <3>3, <3>4
  <2>2. CASE p # q
    BY <1>1, <1>2, <2>2 DEF IInv, OneInv
  <2>3. QED
    BY <2>1, <2>2
<1>7. FirstInv'
  <2> SUFFICES ASSUME NEW e \in Events \ unpublished
               PROVE  \/ \E n \in Gathered(QueueOf(e))' : First(e, n)
                      \/ \E t \in Held(QueueOf(e))' : First(e, slot'[QueueOf(e)][t].msg)
    BY DEF FirstInv, First, QueueOf
  <2> DEFINE p == QueueOf(e)
  <2>1. p \in Queues
    BY DEF QueueOf, Queues
  <2>2. CASE \E n \in Gathered(p) : First(e, n)
    BY <1>2, <2>1, <2>2
  <2>3. CASE \E t \in Held(p) : First(e, slot[p][t].msg)
    <3>1. PICK t \in Held(p) : First(e, slot[p][t].msg)
      BY <2>3
    <3>2. CASE p = q /\ t = s
      BY <1>2, <3>1, <3>2 DEF First, Same
    <3>3. CASE ~(p = q /\ t = s)
      BY <1>1, <2>1, <3>1, <3>3
    <3>4. QED
      BY <3>2, <3>3
  <2>4. QED
    BY <2>2, <2>3 DEF IInv, FirstInv
<1>8. QED
  BY <1>5, <1>6, <1>7

LEMMA DeliverKeeps ==
    ASSUME IInv, NEW q \in Queues, NEW s \in Slots, NEW m \in ready[q], Deliver(q, s, m)
    PROVE  IInv'
<1>1. /\ m \in Message /\ m.event \in Events /\ 1 \in Nat \ {0} /\ s \notin Held(q)
      /\ slot' = [slot EXCEPT ![q][s] = Handling(m, 1)]
      /\ UNCHANGED <<unpublished, orphans, dead, done, effects, skipped, stops>>
  BY MessageTypes DEF IInv, TypeOK, Deliver, Held
<1>2. /\ Handling(m, 1) \in Works /\ Handling(m, 1) # Free
      /\ Handling(m, 1).step = "handling" /\ Handling(m, 1).msg = m
      /\ Handling(m, 1).next = 1
  BY <1>1, WorkMade
<1>3. /\ Held(q)' = Held(q) \cup {s} /\ \A p \in Queues \ {q} : Held(p)' = Held(p)
      /\ slot'[q][s] = Handling(m, 1)
      /\ \A p \in Queues, t \in Slots : ~(p = q /\ t = s) => slot'[p][t] = slot[p][t]
      /\ slot' \in [Queues -> [Slots -> Works \cup {Free}]]
  <2> DEFINE w == Handling(m, 1)
  <2>1. w \in Works \cup {Free} /\ w # Free /\ slot' = [slot EXCEPT ![q][s] = w]
    BY <1>1, <1>2
  <2> HIDE DEF w
  <2>2. TypeOK
    BY DEF IInv
  <2>3. /\ slot' \in [Queues -> [Slots -> Works \cup {Free}]]
        /\ slot'[q][s] = w
        /\ \A p \in Queues, t \in Slots : ~(p = q /\ t = s) => slot'[p][t] = slot[p][t]
        /\ Held(q)' = Held(q) \cup {s}
        /\ \A p \in Queues \ {q} : Held(p)' = Held(p)
    <3>1. Placed(q, s, w)
      BY <2>1 DEF Placed
    <3>2. QED
      BY <2>1, <2>2, <3>1, SlotPlaced
  <2>4. QED
    BY <2>3 DEF w
<1>4. /\ ready'[q] = ready[q] \ {m} /\ \A p \in Queues \ {q} : ready'[p] = ready[p]
      /\ ready' \in [Queues -> SUBSET Message]
      /\ attempts' \in [Queues -> [Events -> Nat]]
  BY <1>1 DEF IInv, TypeOK, Deliver
<1>5. /\ m \in Gathered(q) /\ m \notin Gathered(q)'
      /\ Gathered(q)' = Gathered(q) \ {m}
      /\ \A p \in Queues \ {q} : Gathered(p)' = Gathered(p)
  BY <1>1, <1>4 DEF IInv, OneInv, Gathered
<1>6. TypeOK'
  BY <1>1, <1>3, <1>4 DEF IInv, TypeOK
<1>7. TimerInv'
  BY <1>2, <1>3 DEF IInv, TimerInv
<1>8. OwnInv'
  <2>1. \A p \in Queues : \A n \in Gathered(p)' : Owned(p, n)
    BY <1>5 DEF IInv, OwnInv
  <2>2. Owned(q, m)
    BY <1>5 DEF IInv, OwnInv
  <2>3. \A p \in Queues : \A t \in Held(p) : t \in Slots /\ Owned(p, slot[p][t].msg)
    BY DEF IInv, OwnInv, Held
  <2>4. \A p \in Queues : \A t \in Held(p)' : Owned(p, slot'[p][t].msg)
    <3> SUFFICES ASSUME NEW p \in Queues, NEW t \in Held(p)'
                 PROVE  Owned(p, slot'[p][t].msg)
      OBVIOUS
    <3>1. CASE p = q /\ t = s
      BY <1>2, <1>3, <2>2, <3>1
    <3>2. CASE ~(p = q /\ t = s)
      BY <1>3, <2>3, <3>2
    <3>3. QED
      BY <3>1, <3>2
  <2>5. QED
    BY <1>1, <2>1, <2>4 DEF IInv, OwnInv, Owned
<1>9. OneInv'
  <2> SUFFICES ASSUME NEW p \in Queues
               PROVE  /\ \A k, n \in Gathered(p)' : Same(k, n) => k = n
                      /\ ready'[p] \cap dead'[p] = {} /\ ready'[p] \cap done'[p] = {}
                      /\ dead'[p] \cap done'[p] = {}
                      /\ \A t \in Held(p)', n \in Gathered(p)' : ~Same(slot'[p][t].msg, n)
                      /\ \A t, u \in Held(p)' :
                           Same(slot'[p][t].msg, slot'[p][u].msg) => t = u
    BY DEF OneInv, Same
  <2>1. CASE p = q
    <3>1. \A t \in Held(q) : t # s /\ slot'[q][t] = slot[q][t]
      BY <1>1, <1>3 DEF Held
    <3>2. \A n \in Gathered(p)' : ~Same(m, n)
      BY <1>5, <2>1 DEF IInv, OneInv
    <3>3. \A t \in Held(q) : ~Same(slot[q][t].msg, m)
      BY <1>5 DEF IInv, OneInv
    <3>4. /\ \A k, n \in Gathered(p)' : Same(k, n) => k = n
          /\ ready'[p] \cap dead'[p] = {} /\ ready'[p] \cap done'[p] = {}
          /\ dead'[p] \cap done'[p] = {}
      BY <1>1, <1>4, <1>5, <2>1 DEF IInv, OneInv
    <3>5. \A t \in Held(p)', n \in Gathered(p)' : ~Same(slot'[p][t].msg, n)
      BY <1>2, <1>3, <1>5, <2>1, <3>1, <3>2 DEF IInv, OneInv
    <3>6. \A t, u \in Held(p)' : Same(slot'[p][t].msg, slot'[p][u].msg) => t = u
      BY <1>2, <1>3, <2>1, <3>1, <3>3 DEF IInv, OneInv, Same
    <3>7. QED
      BY <3>4, <3>5, <3>6
  <2>2. CASE p # q
    <3>1. Held(p)' = Held(p) /\ \A t \in Held(p) : slot'[p][t] = slot[p][t]
      BY <1>3, <2>2 DEF Held
    <3>2. QED
      BY <1>1, <1>4, <1>5, <2>2, <3>1 DEF IInv, OneInv
  <2>3. QED
    BY <2>1, <2>2
<1>10. FirstInv'
  <2> SUFFICES ASSUME NEW e \in Events \ unpublished
               PROVE  \/ \E n \in Gathered(QueueOf(e))' : First(e, n)
                      \/ \E t \in Held(QueueOf(e))' : First(e, slot'[QueueOf(e)][t].msg)
    BY <1>1 DEF FirstInv, First, QueueOf
  <2> DEFINE p == QueueOf(e)
  <2>1. p \in Queues
    BY DEF QueueOf, Queues
  <2>2. CASE \E n \in Gathered(p) : First(e, n)
    <3>1. PICK n \in Gathered(p) : First(e, n)
      BY <2>2
    <3>2. CASE p = q /\ n = m
      BY <1>2, <1>3, <3>1, <3>2
    <3>3. CASE ~(p = q /\ n = m)
      BY <1>5, <2>1, <3>1, <3>3
    <3>4. QED
      BY <3>2, <3>3
  <2>3. CASE \E t \in Held(p) : First(e, slot[p][t].msg)
    <3>1. PICK t \in Held(p) : First(e, slot[p][t].msg)
      BY <2>3
    <3>2. t \in Slots /\ ~(p = q /\ t = s)
      BY <1>1, <3>1 DEF Held
    <3>3. QED
      BY <1>3, <2>1, <3>1, <3>2
  <2>4. QED
    BY <2>2, <2>3 DEF IInv, FirstInv
<1>11. TriedInv'
  <2>1. \A p \in Queues, t \in Slots : slot'[p][t].step = "handling" =>
          \A i \in EffectsOf(p) : i < slot'[p][t].next => Reached(p, slot'[p][t].msg.event, i)
    <3> SUFFICES ASSUME NEW p \in Queues, NEW t \in Slots, slot'[p][t].step = "handling",
                        NEW i \in EffectsOf(p), i < slot'[p][t].next
                 PROVE  Reached(p, slot'[p][t].msg.event, i)
      OBVIOUS
    <3>1. i \in Nat \ {0}
      BY BoundsAreNatural DEF EffectsOf
    <3>2. ~(p = q /\ t = s)
      BY <1>2, <1>3, <3>1
    <3>3. QED
      BY <1>3, <3>2 DEF IInv, TriedInv
  <2>2. QED
    BY <1>1, <2>1 DEF IInv, TriedInv, Reached
<1>12. QED
  BY <1>6, <1>7, <1>8, <1>9, <1>10, <1>11 DEF IInv

\* What the steps of a handler that goes on have in common with an orphan's.
LEMMA TriedKept ==
    ASSUME IInv, NEW q \in Queues, NEW e \in Events, NEW i \in EffectsOf(q), Apply(q, e, i)
    PROVE  /\ \A p \in Queues, s \in Slots : slot[p][s].step = "handling" =>
                \A j \in EffectsOf(p) :
                   j < slot[p][s].next => ReachedNext(p, slot[p][s].msg.event, j)
           /\ \A p \in Queues : \A n \in done[p] :
                \A j \in EffectsOf(p) : ReachedNext(p, n.event, j)
<1>1. TypeOK
  BY DEF IInv
<1>2. \A p \in Queues, f \in Events : \A j \in EffectsOf(p) :
         Reached(p, f, j) => ReachedNext(p, f, j)
  BY <1>1, Applied
<1>3. \A p \in Queues, s \in Slots :
         slot[p][s].step = "handling" => slot[p][s].msg.event \in Events
  BY <1>1, SlotTypes, MessageTypes
<1>4. \A p \in Queues : \A n \in done[p] : n.event \in Events
  BY <1>1, MessageTypes DEF TypeOK
<1>5. QED
  BY <1>2, <1>3, <1>4 DEF IInv, TriedInv

LEMMA HandleKeeps ==
    ASSUME IInv, NEW q \in Queues, NEW s \in Slots, Handle(q, s) PROVE IInv'
<1>1. PICK m \in Message, i \in EffectsOf(q) :
        /\ slot[q][s].step = "handling" /\ s \in Held(q)
        /\ slot[q][s].msg = m /\ slot[q][s].next = i
        /\ Apply(q, m.event, i) /\ slot' = [slot EXCEPT ![q][s] = Handling(m, i + 1)]
  <2>1. slot[q][s].step = "handling"
    BY DEF Handle
  <2>2. s \in Held(q) /\ slot[q][s].msg \in Message
    BY <2>1, SlotTypes DEF IInv
  <2>3. slot[q][s].next \in EffectsOf(q)
    BY DEF Handle, Apply
  <2>4. QED
    BY <2>1, <2>2, <2>3 DEF Handle
<1> DEFINE w == Handling(m, i + 1)
<1>2. UNCHANGED <<unpublished, ready, orphans, dead, done, attempts, stops>>
  BY DEF Handle
<1>3. i \in Nat \ {0} /\ i + 1 \in Nat \ {0} /\ m.event \in Events
  BY MessageTypes, BoundsAreNatural DEF EffectsOf
<1>4. w \in Works /\ w.step = "handling" /\ w.msg = m /\ w.next = i + 1 /\ w # Free
  BY <1>3, WorkMade
<1>5. TypeOK /\ slot' = [slot EXCEPT ![q][s] = w] /\ w \in Works \cup {Free}
  <2>1. TypeOK /\ w \in Works \cup {Free}
    BY <1>4 DEF IInv
  <2>2. slot' = [slot EXCEPT ![q][s] = w]
    BY <1>1
  <2>3. QED
    BY <2>1, <2>2
<1> HIDE DEF w
<1>6. /\ slot' \in [Queues -> [Slots -> Works \cup {Free}]] /\ slot'[q][s] = w
      /\ \A p \in Queues, t \in Slots : ~(p = q /\ t = s) => slot'[p][t] = slot[p][t]
  <2>1. Placed(q, s, w)
    BY <1>5 DEF Placed
  <2>2. QED
    BY <1>5, <2>1, SlotPlaced
<1>7. /\ DOMAIN effects' = Queues /\ DOMAIN skipped' = Queues
      /\ \A p \in Queues : effects'[p] \in [Events -> [EffectsOf(p) -> Nat]]
      /\ \A p \in Queues : skipped'[p] \in [Events -> SUBSET EffectsOf(p)]
      /\ ReachedNext(q, m.event, i)
  BY <1>1, <1>3, <1>5, Applied
<1>8. OwnInv' /\ OneInv' /\ FirstInv'
  <2>1. w.msg = slot[q][s].msg
    BY <1>1, <1>4
  <2>2. QED
    BY <1>1, <1>2, <1>4, <1>5, <2>1, StayKeeps
<1>9. TypeOK'
  BY <1>2, <1>6, <1>7 DEF IInv, TypeOK
<1>10. TimerInv'
  BY <1>4, <1>6 DEF IInv, TimerInv
<1>11. TriedInv'
  <2>1. \A p \in Queues, t \in Slots : slot[p][t].step = "handling" =>
           \A j \in EffectsOf(p) :
              j < slot[p][t].next => ReachedNext(p, slot[p][t].msg.event, j)
    BY <1>1, <1>3, TriedKept
  <2>2. \A p \in Queues : \A n \in done[p] :
           \A j \in EffectsOf(p) : ReachedNext(p, n.event, j)
    BY <1>1, <1>3, TriedKept
  <2>3. \A p \in Queues, t \in Slots : slot'[p][t].step = "handling" =>
           \A j \in EffectsOf(p) :
              j < slot'[p][t].next => ReachedNext(p, slot'[p][t].msg.event, j)
    <3> SUFFICES ASSUME NEW p \in Queues, NEW t \in Slots, slot'[p][t].step = "handling",
                        NEW j \in EffectsOf(p), j < slot'[p][t].next
                 PROVE  ReachedNext(p, slot'[p][t].msg.event, j)
      OBVIOUS
    <3>1. CASE p = q /\ t = s
      <4>1. slot'[p][t].msg = m /\ j < i + 1
        BY <1>4, <1>6, <3>1
      <4>2. j \in Nat
        BY BoundsAreNatural DEF EffectsOf
      <4>3. j = i \/ j < i
        BY <1>3, <4>1, <4>2
      <4>4. j < i => ReachedNext(q, m.event, j)
        BY <1>1, <2>1, <3>1
      <4>5. QED
        BY <1>7, <3>1, <4>1, <4>3, <4>4
    <3>2. CASE ~(p = q /\ t = s)
      BY <1>6, <2>1, <3>2
    <3>3. QED
      BY <3>1, <3>2
  <2>4. QED
    BY <1>2, <2>2, <2>3 DEF TriedInv, Reached, ReachedNext
<1>12. QED
  BY <1>8, <1>9, <1>10, <1>11 DEF IInv

\* What the steps that put a message down have in common.
LEMMA SlotFreed ==
    ASSUME IInv, NEW q \in Queues, NEW s \in Slots,
           slot' = [slot EXCEPT ![q][s] = Free],
           UNCHANGED <<unpublished, orphans, effects, skipped, attempts, stops>>,
           ready' \in [Queues -> SUBSET Message], dead' \in [Queues -> SUBSET Message],
           done' \in [Queues -> SUBSET Message],
           \A p \in Queues : \A n \in done'[p] : n \in done[p]
             \/ \A i \in EffectsOf(p) : Reached(p, n.event, i)
    PROVE  TypeOK' /\ TimerInv' /\ TriedInv'
<1>1. /\ slot' \in [Queues -> [Slots -> Works \cup {Free}]] /\ slot'[q][s] = Free
      /\ \A p \in Queues, t \in Slots : ~(p = q /\ t = s) => slot'[p][t] = slot[p][t]
  <2>1. TypeOK /\ Free \in Works \cup {Free}
    BY DEF IInv
  <2>2. QED
    BY <2>1, SlotChanged
<1>2. TypeOK'
  BY <1>1 DEF IInv, TypeOK
<1>3. TimerInv'
  BY <1>1 DEF IInv, TimerInv, Free
<1>4. TriedInv'
  <2>1. \A p \in Queues, t \in Slots : slot'[p][t].step = "handling" =>
          slot'[p][t] = slot[p][t]
    BY <1>1 DEF Free
  <2>2. \A p \in Queues : \A n \in done'[p] : \A i \in EffectsOf(p) : Reached(p, n.event, i)
    BY DEF IInv, TriedInv
  <2>3. QED
    BY <2>1, <2>2 DEF IInv, TriedInv, Reached
<1>5. QED
  BY <1>2, <1>3, <1>4

\* A message is acknowledged with all its effects tried.
LEMMA Finished ==
    ASSUME IInv, NEW q \in Queues, NEW s \in Slots, Ack(q, s)
    PROVE  \E m \in Message :
             /\ s \in Held(q) /\ slot[q][s].msg = m
             /\ done' = [done EXCEPT ![q] = @ \cup {m}] /\ slot' = [slot EXCEPT ![q][s] = Free]
             /\ \A i \in EffectsOf(q) : Reached(q, m.event, i)
<1>1. PICK m \in Message, k \in Nat \ {0} :
        /\ slot[q][s].step = "handling" /\ s \in Held(q)
        /\ slot[q][s].msg = m /\ slot[q][s].next = k /\ k \notin EffectsOf(q)
        /\ done' = [done EXCEPT ![q] = @ \cup {m}] /\ slot' = [slot EXCEPT ![q][s] = Free]
  <2>1. slot[q][s].step = "handling"
    BY DEF Ack
  <2>2. s \in Held(q) /\ slot[q][s].msg \in Message /\ slot[q][s].next \in Nat \ {0}
    BY <2>1, SlotTypes, WorkTypes DEF IInv
  <2>3. QED
    BY <2>1, <2>2 DEF Ack
<1>2. \A i \in EffectsOf(q) : i < k
  <2>1. CASE q = "audit.log"
    BY <1>1, <2>1 DEF EffectsOf
  <2>2. CASE q # "audit.log"
    BY <1>1, <2>2, BoundsAreNatural DEF EffectsOf
  <2>3. QED
    BY <2>1, <2>2
<1>3. \A i \in EffectsOf(q) : Reached(q, m.event, i)
  BY <1>1, <1>2 DEF IInv, TriedInv
<1>4. QED
  BY <1>1, <1>3

LEMMA AckKeeps ==
    ASSUME IInv, NEW q \in Queues, NEW s \in Slots, Ack(q, s) PROVE IInv'
<1>1. PICK m \in Message :
        /\ s \in Held(q) /\ slot[q][s].msg = m
        /\ done' = [done EXCEPT ![q] = @ \cup {m}] /\ slot' = [slot EXCEPT ![q][s] = Free]
        /\ \A i \in EffectsOf(q) : Reached(q, m.event, i)
  BY Finished
<1>2. UNCHANGED <<unpublished, ready, orphans, dead, effects, skipped, attempts, stops>>
  BY DEF Ack
<1>3. /\ done' \in [Queues -> SUBSET Message] /\ done'[q] = done[q] \cup {m}
      /\ \A p \in Queues \ {q} : done'[p] = done[p]
      /\ ready' \in [Queues -> SUBSET Message] /\ dead' \in [Queues -> SUBSET Message]
  BY <1>1, <1>2 DEF IInv, TypeOK
<1>5. TypeOK' /\ TimerInv' /\ TriedInv'
  <2>1. \A p \in Queues : \A n \in done'[p] : n \in done[p]
          \/ \A i \in EffectsOf(p) : Reached(p, n.event, i)
    BY <1>1, <1>3
  <2>2. QED
    BY <1>1, <1>2, <1>3, <2>1, SlotFreed
<1>6. OwnInv' /\ OneInv' /\ FirstInv'
  <2>1. Same(m, slot[q][s].msg)
    BY <1>1 DEF Same
  <2>2. QED
    BY <1>1, <1>2, <1>3, <2>1, PutDownKeeps
<1>7. QED
  BY <1>5, <1>6 DEF IInv

LEMMA FailKeeps ==
    ASSUME IInv, NEW q \in Queues, NEW s \in Slots, Fail(q, s) PROVE IInv'
<1>1. PICK m \in Message :
        /\ slot[q][s].step = "handling" /\ s \in Held(q) /\ slot[q][s].msg = m
  <2>1. slot[q][s].step = "handling"
    BY DEF Fail
  <2>2. QED
    BY <2>1, SlotTypes DEF IInv
<1>2. UNCHANGED <<unpublished, ready, orphans, done, effects, skipped, attempts, stops>>
  BY DEF Fail
<1>3. CASE Exhausted(m)
  <2>1. dead' = [dead EXCEPT ![q] = @ \cup {m}] /\ slot' = [slot EXCEPT ![q][s] = Free]
    BY <1>1, <1>3 DEF Fail
  <2>2. /\ dead' \in [Queues -> SUBSET Message] /\ dead'[q] = dead[q] \cup {m}
        /\ \A p \in Queues \ {q} : dead'[p] = dead[p]
        /\ ready' \in [Queues -> SUBSET Message] /\ done' \in [Queues -> SUBSET Message]
    BY <1>1, <1>2, <2>1 DEF IInv, TypeOK
  <2>3. Same(m, slot[q][s].msg)
    BY <1>1 DEF Same
  <2>4. TypeOK' /\ TimerInv' /\ TriedInv'
    BY <1>2, <2>1, <2>2, SlotFreed
  <2>5. OwnInv' /\ OneInv' /\ FirstInv'
    BY <1>1, <1>2, <2>1, <2>2, <2>3, PutDownKeeps
  <2>6. QED
    BY <2>4, <2>5 DEF IInv
<1>4. CASE ~Exhausted(m)
  <2> DEFINE w == Waiting(m)
  <2>1. slot' = [slot EXCEPT ![q][s] = w] /\ UNCHANGED dead
    BY <1>1, <1>4 DEF Fail
  <2>2. w \in Works /\ w.step = "waiting" /\ w.msg = m /\ w \in Works \cup {Free}
    BY WorkMade
  <2>3. w.msg = slot[q][s].msg
    BY <1>1, <2>2
  <2> HIDE DEF w
  <2>4. /\ slot' \in [Queues -> [Slots -> Works \cup {Free}]] /\ slot'[q][s] = w
        /\ \A p \in Queues, t \in Slots : ~(p = q /\ t = s) => slot'[p][t] = slot[p][t]
    <3>1. TypeOK
      BY DEF IInv
    <3>2. Placed(q, s, w)
      BY <2>1 DEF Placed
    <3>3. QED
      BY <2>2, <3>1, <3>2, SlotPlaced
  <2>5. OwnInv' /\ OneInv' /\ FirstInv'
    <3>1. w \in Works
      BY <2>2
    <3>2. QED
      BY <1>1, <1>2, <2>1, <2>3, <3>1, StayKeeps
  <2>6. TypeOK'
    BY <1>2, <2>1, <2>4 DEF IInv, TypeOK
  <2>7. TimerInv'
    BY <1>4, <2>2, <2>4 DEF IInv, TimerInv
  <2>8. TriedInv'
    <3>1. \A p \in Queues, t \in Slots : slot'[p][t].step = "handling" =>
            slot'[p][t] = slot[p][t]
      BY <2>2, <2>4
    <3>2. QED
      BY <1>2, <3>1 DEF IInv, TriedInv, Reached
  <2>9. QED
    BY <2>5, <2>6, <2>7, <2>8 DEF IInv
<1>5. QED
  BY <1>3, <1>4

LEMMA RetryKeeps ==
    ASSUME IInv, NEW q \in Queues, NEW s \in Slots, Retry(q, s) PROVE IInv'
<1>1. PICK m \in Message :
        /\ slot[q][s].step = "waiting" /\ s \in Held(q) /\ slot[q][s].msg = m
        /\ ready' = Routed(Retried(m)) /\ slot' = [slot EXCEPT ![q][s] = Free]
  <2>1. slot[q][s].step = "waiting"
    BY DEF Retry
  <2>2. QED
    BY <2>1, SlotTypes DEF IInv, Retry
<1>2. UNCHANGED <<unpublished, orphans, dead, done, effects, skipped, attempts, stops>>
  BY DEF Retry
<1>3. ~Exhausted(m) /\ q = QueueOf(m.event)
  BY <1>1 DEF IInv, TimerInv, OwnInv, Owned
<1> DEFINE n == Retried(m)
<1>4. n \in Message /\ Same(n, m) /\ n.event = m.event
  BY <1>3, RetriedTypes DEF Same
<1> HIDE DEF n
<1>5. \A p \in Queues : p \in BoundTo(n.event) <=> p = q
  BY <1>3, <1>4, OwnQueue, MessageTypes
<1>6. /\ ready' \in [Queues -> SUBSET Message] /\ ready'[q] = ready[q] \cup {n}
      /\ \A p \in Queues \ {q} : ready'[p] = ready[p]
  <2>1. ready' = Routed(n)
    BY <1>1 DEF n
  <2>2. QED
    BY <1>4, <1>5, <2>1 DEF Routed, IInv, TypeOK
<1>7. dead' \in [Queues -> SUBSET Message] /\ done' \in [Queues -> SUBSET Message]
  BY <1>2 DEF IInv, TypeOK
<1>8. TypeOK' /\ TimerInv' /\ TriedInv'
  BY <1>1, <1>2, <1>6, <1>7, SlotFreed
<1>9. OwnInv' /\ OneInv' /\ FirstInv'
  <2>1. Same(n, slot[q][s].msg)
    BY <1>1, <1>4
  <2>2. QED
    BY <1>1, <1>2, <1>4, <1>6, <1>7, <2>1, PutDownKeeps
<1>10. QED
  BY <1>8, <1>9 DEF IInv

-----------------------------------------------------------------------------
(* The steps that close the channels.                                      *)

Back(q) == {slot[q][s].msg : s \in Held(q)}
More(r, q) == r[q] \ ready[q]

\* What the queues may hold when the channels are closed: at most one message
\* more than before, a copy of its own of an event in its own queue.
Fits(r) ==
    /\ r \in [Queues -> SUBSET Message]
    /\ \A q \in Queues : ready[q] \subseteq r[q]
    /\ \A q \in Queues : \A m \in More(r, q) :
         m.event \notin unpublished /\ q = QueueOf(m.event) /\ m.copy = stops + 1
    /\ \A q \in Queues : \A m, n \in More(r, q) : m = n

OrphanTypes == [queue : Queues, since : Nat, work : Works]

LEMMA ReadyFits == ASSUME IInv PROVE Fits(ready)
  BY DEF IInv, TypeOK, Fits, More

LEMMA HalfRetriedFits ==
    ASSUME IInv, NEW q \in Queues, NEW s \in Held(q), slot[q][s].step = "waiting"
    PROVE  Fits(HalfRetried(q, s))
<1>1. PICK m \in Message : slot[q][s].msg = m /\ s \in Slots
  BY SlotTypes DEF IInv, Held
<1>2. ~Exhausted(m) /\ m.event \notin unpublished /\ q = QueueOf(m.event)
  BY <1>1 DEF IInv, TimerInv, OwnInv, Owned
<1>3. stops \in Nat /\ stops + 1 \in Nat
  BY DEF IInv, TypeOK
<1>4. PICK n \in Message :
        /\ n = [Retried(m) EXCEPT !.copy = stops + 1]
        /\ n.event = m.event /\ n.copy = stops + 1
  BY <1>2, <1>3, RetriedTypes
<1>5. \A p \in Queues : p \in BoundTo(n.event) <=> p = q
  BY <1>2, <1>4, OwnQueue, MessageTypes
<1>6. HalfRetried(q, s) = Routed(n)
  BY <1>1, <1>4 DEF HalfRetried
<1>7. \A p \in Queues : Routed(n)[p] = ready[p] \cup IF p = q THEN {n} ELSE {}
  BY <1>5 DEF Routed
<1>8. Routed(n) \in [Queues -> SUBSET Message]
  BY DEF IInv, TypeOK, Routed
<1>9. \A p \in Queues : \A k \in More(Routed(n), p) : k = n /\ p = q
  BY <1>7 DEF More
<1>10. Fits(Routed(n))
  BY <1>2, <1>4, <1>7, <1>8, <1>9 DEF Fits
<1>11. QED
  BY <1>6, <1>10

LEMMA CloseKeeps ==
    ASSUME IInv, NEW r, Fits(r), Close(r), orphans' \subseteq OrphanTypes,
           \A o \in orphans' : Owned(o.queue, o.work.msg)
    PROVE  IInv'
<1>1. /\ stops \in Nat /\ stops' = stops + 1
      /\ slot' = [q \in Queues |-> [s \in Slots |-> Free]]
      /\ ready' = [q \in Queues |-> r[q] \cup Back(q)]
      /\ UNCHANGED <<unpublished, dead, done, effects, skipped, attempts>>
  BY DEF Back, Close, IInv, TypeOK
<1>2. \A q \in Queues : Back(q) \subseteq Message
  BY SlotTypes DEF Back, IInv, Held
<1>3. \A q \in Queues : Held(q)' = {}
  BY <1>1 DEF Held
<1>4. \A q \in Queues :
        /\ ready'[q] = ready[q] \cup More(r, q) \cup Back(q)
        /\ Gathered(q)' = Gathered(q) \cup More(r, q) \cup Back(q)
  BY <1>1 DEF Back, More, Fits, Gathered
<1>5. TypeOK'
  <2>1. ready' \in [Queues -> SUBSET Message]
    BY <1>1, <1>2 DEF Fits
  <2>2. slot' \in [Queues -> [Slots -> Works \cup {Free}]]
    BY <1>1
  <2>3. QED
    BY <1>1, <2>1, <2>2 DEF IInv, TypeOK, OrphanTypes
<1>6. TimerInv'
  BY <1>1 DEF TimerInv, Free
<1>7. \A q \in Queues :
        /\ \A m \in Gathered(q) : m \in Message /\ m.copy \in Nat /\ Owned(q, m)
        /\ \A m \in Back(q) : m.copy \in Nat /\ Owned(q, m)
        /\ \A m \in More(r, q) :
             m.event \notin unpublished /\ q = QueueOf(m.event) /\ m.copy = stops + 1
  <2> SUFFICES ASSUME NEW q \in Queues
               PROVE  /\ \A m \in Gathered(q) : m \in Message /\ m.copy \in Nat /\ Owned(q, m)
                      /\ \A m \in Back(q) : m.copy \in Nat /\ Owned(q, m)
                      /\ \A m \in More(r, q) :
                           m.event \notin unpublished /\ q = QueueOf(m.event)
                             /\ m.copy = stops + 1
    OBVIOUS
  <2>1. Gathered(q) \subseteq Message
    BY DEF IInv, TypeOK, Gathered
  <2>2. \A m \in Gathered(q) : Owned(q, m)
    BY DEF IInv, OwnInv
  <2>3. \A m \in Back(q) : Owned(q, m)
    BY DEF Back, IInv, OwnInv
  <2>4. QED
    BY <1>2, <2>1, <2>2, <2>3, MessageTypes DEF Fits
<1>8. OwnInv'
  <2>1. \A q \in Queues : \A m \in Gathered(q)' :
          m.event \notin unpublished /\ q = QueueOf(m.event) /\ m.copy <= stops + 1
    BY <1>1, <1>4, <1>7 DEF Owned
  <2>2. \A o \in orphans' :
          /\ o.work.msg.event \notin unpublished /\ o.queue = QueueOf(o.work.msg.event)
          /\ o.work.msg.copy <= stops + 1
    <3> SUFFICES ASSUME NEW o \in orphans'
                 PROVE  o.work.msg.copy <= stops + 1
      BY DEF Owned
    <3>1. o.work \in Works
      BY DEF OrphanTypes
    <3>2. o.work.msg.copy \in Nat /\ o.work.msg.copy <= stops
      BY <3>1, MessageTypes DEF Works, Owned
    <3>3. QED
      BY <1>1, <3>2
  <2>3. QED
    BY <1>1, <1>3, <2>1, <2>2 DEF OwnInv, Owned
<1>9. OneInv'
  <2> SUFFICES ASSUME NEW q \in Queues
               PROVE  /\ \A m, n \in Gathered(q)' : Same(m, n) => m = n
                      /\ ready'[q] \cap dead'[q] = {} /\ ready'[q] \cap done'[q] = {}
                      /\ dead'[q] \cap done'[q] = {}
    BY <1>3 DEF OneInv, Same
  <2>1. \A m \in More(r, q) : \A n \in Gathered(q) \cup Back(q) : m.copy # n.copy
    BY <1>1, <1>7 DEF Owned
  <2>2. \A m \in Back(q), n \in Gathered(q) : ~Same(m, n)
    BY DEF Back, IInv, OneInv
  <2>3. \A m, n \in Back(q) : Same(m, n) => m = n
    BY DEF Back, IInv, OneInv
  <2>4. \A m, n \in More(r, q) : m = n
    BY DEF Fits
  <2>5. \A m, n \in Gathered(q) : Same(m, n) => m = n
    BY DEF IInv, OneInv
  <2>6. \A m, n \in Gathered(q)' : Same(m, n) => m = n
    BY <1>4, <2>1, <2>2, <2>3, <2>4, <2>5 DEF Same
  <2>7. \A m \in More(r, q) \cup Back(q) : m \notin Gathered(q)
    BY <2>1, <2>2 DEF Same
  <2>8. QED
    BY <1>1, <1>4, <2>6, <2>7 DEF IInv, OneInv, Gathered
<1>10. FirstInv'
  <2> SUFFICES ASSUME NEW e \in Events \ unpublished
               PROVE  \E m \in Gathered(QueueOf(e))' : First(e, m)
    BY <1>1 DEF FirstInv, First, QueueOf
  <2>1. QueueOf(e) \in Queues
    BY DEF QueueOf, Queues
  <2>2. \/ \E m \in Gathered(QueueOf(e)) : First(e, m)
        \/ \E m \in Back(QueueOf(e)) : First(e, m)
    BY DEF Back, IInv, FirstInv
  <2>3. QED
    BY <1>4, <2>1, <2>2
<1>11. TriedInv'
  BY <1>1 DEF IInv, TriedInv, Reached, Free
<1>12. QED
  BY <1>5, <1>6, <1>8, <1>9, <1>10, <1>11 DEF IInv

LEMMA CrashKeeps == ASSUME IInv, Crash PROVE IInv'
<1>1. /\ orphans' \subseteq OrphanTypes
      /\ \A o \in orphans' : Owned(o.queue, o.work.msg)
  BY DEF Crash
<1>2. CASE Close(ready)
  BY <1>1, <1>2, ReadyFits, CloseKeeps
<1>3. CASE \E q \in Queues : \E s \in Held(q) :
             slot[q][s].step = "waiting" /\ Close(HalfRetried(q, s))
  BY <1>1, <1>3, HalfRetriedFits, CloseKeeps
<1>4. QED
  BY <1>2, <1>3 DEF Crash

LEMMA CutKeeps == ASSUME IInv, Cut PROVE IInv'
<1>1. /\ orphans' \subseteq OrphanTypes
      /\ \A o \in orphans' : Owned(o.queue, o.work.msg)
  <2>1. PICK on \in SUBSET {o \in Queues \X Slots : o[2] \in Held(o[1])} :
          orphans' = orphans \cup {Orphan(o[1], o[2]) : o \in on}
    BY DEF Cut
  <2>2. \A q \in Queues : \A s \in Held(q) :
          /\ Orphan(q, s) \in OrphanTypes /\ Orphan(q, s).queue = q
          /\ Orphan(q, s).work = slot[q][s] /\ Owned(q, slot[q][s].msg)
    <3> SUFFICES ASSUME NEW q \in Queues, NEW s \in Held(q)
                 PROVE  /\ Orphan(q, s) \in OrphanTypes /\ Orphan(q, s).queue = q
                        /\ Orphan(q, s).work = slot[q][s] /\ Owned(q, slot[q][s].msg)
      OBVIOUS
    <3>1. slot[q][s] \in Works /\ stops \in Nat
      BY SlotTypes, WorkTypes DEF IInv, TypeOK, Held
    <3>2. Owned(q, slot[q][s].msg)
      BY DEF IInv, OwnInv
    <3>3. QED
      BY <3>1, <3>2 DEF Orphan, OrphanTypes
  <2>3. /\ orphans \subseteq OrphanTypes
        /\ \A o \in orphans : Owned(o.queue, o.work.msg)
    BY DEF IInv, TypeOK, OwnInv, OrphanTypes
  <2>4. \A o \in on : o[1] \in Queues /\ o[2] \in Held(o[1])
    OBVIOUS
  <2>5. \A x \in orphans' : x \in OrphanTypes /\ Owned(x.queue, x.work.msg)
    <3> SUFFICES ASSUME NEW x \in orphans'
                 PROVE  x \in OrphanTypes /\ Owned(x.queue, x.work.msg)
      OBVIOUS
    <3>1. CASE x \in orphans
      BY <2>3, <3>1
    <3>2. CASE \E o \in on : x = Orphan(o[1], o[2])
      BY <2>2, <2>4, <3>2
    <3>3. QED
      BY <2>1, <3>1, <3>2
  <2>6. QED
    BY <2>5
<1>2. CASE Close(ready)
  BY <1>1, <1>2, ReadyFits, CloseKeeps
<1>3. CASE \E q \in Queues : \E s \in Held(q) :
             slot[q][s].step = "waiting" /\ Close(HalfRetried(q, s))
  BY <1>1, <1>3, HalfRetriedFits, CloseKeeps
<1>4. QED
  BY <1>2, <1>3 DEF Cut

LEMMA StopByOrphanKeeps == ASSUME IInv, NEW o \in orphans, StopByOrphan(o) PROVE IInv'
<1>1. /\ orphans' \subseteq OrphanTypes
      /\ \A x \in orphans' : Owned(x.queue, x.work.msg)
  BY DEF StopByOrphan
<1>2. QED
  BY <1>1, ReadyFits, CloseKeeps DEF StopByOrphan

-----------------------------------------------------------------------------
(* What is worked on after its channel is closed.                          *)

LEMMA OrphanGoesOn ==
    ASSUME IInv, NEW o \in orphans, NEW w \in Works, w.msg = o.work.msg,
           orphans' = (orphans \ {o}) \cup {[o EXCEPT !.work = w]},
           UNCHANGED <<unpublished, ready, slot, dead, done, attempts, stops>>
    PROVE  /\ orphans' \subseteq OrphanTypes
           /\ TimerInv' /\ OwnInv' /\ OneInv' /\ FirstInv'
<1>1. /\ orphans \subseteq OrphanTypes
      /\ \A x \in orphans : Owned(x.queue, x.work.msg)
  BY DEF IInv, TypeOK, OwnInv, OrphanTypes
<1>2. PICK x \in OrphanTypes :
        /\ x = [o EXCEPT !.work = w] /\ x.queue = o.queue /\ x.work = w
  <2>1. o \in OrphanTypes
    BY <1>1
  <2>2. [o EXCEPT !.work = w] = [queue |-> o.queue, since |-> o.since, work |-> w]
    BY <2>1 DEF OrphanTypes
  <2>3. [o EXCEPT !.work = w] \in OrphanTypes
    BY <2>1, <2>2 DEF OrphanTypes
  <2>4. QED
    BY <2>2, <2>3
<1>3. orphans' \subseteq OrphanTypes
  BY <1>1, <1>2
<1>4. \A y \in orphans' : Owned(y.queue, y.work.msg)
  BY <1>1, <1>2
<1>5. /\ \A q \in Queues : Held(q)' = Held(q) /\ Gathered(q)' = Gathered(q)
      /\ \A e : QueueOf(e) \in Queues
  BY DEF Held, Gathered, QueueOf, Queues
<1>6. OwnInv'
  BY <1>4, <1>5 DEF IInv, OwnInv, Owned
<1>7. OneInv'
  BY <1>5 DEF IInv, OneInv
<1>8. FirstInv'
  BY <1>5 DEF IInv, FirstInv
<1>9. TimerInv'
  BY DEF IInv, TimerInv
<1>10. QED
  BY <1>3, <1>6, <1>7, <1>8, <1>9

LEMMA HandleOrphanKeeps == ASSUME IInv, NEW o \in orphans, HandleOrphan(o) PROVE IInv'
<1>1. PICK q \in Queues, m \in Message, i \in Nat \ {0} :
        /\ o.queue = q /\ o.work.msg = m /\ i \in EffectsOf(q)
        /\ Apply(q, m.event, i)
        /\ orphans' = (orphans \ {o}) \cup {[o EXCEPT !.work = Handling(m, i + 1)]}
  <2>1. o.queue \in Queues /\ o.work.msg \in Message
    BY DEF IInv, TypeOK, Works
  <2>2. o.work.next \in EffectsOf(o.queue)
    BY DEF HandleOrphan, Apply
  <2>3. \A p : EffectsOf(p) \subseteq Nat \ {0}
    BY BoundsAreNatural DEF EffectsOf
  <2>4. QED
    BY <2>1, <2>2, <2>3 DEF HandleOrphan
<1>2. UNCHANGED <<unpublished, ready, slot, dead, done, attempts, stops>>
  BY DEF HandleOrphan
<1>3. i + 1 \in Nat \ {0} /\ m.event \in Events
  BY MessageTypes
<1>4. Handling(m, i + 1) \in Works /\ Handling(m, i + 1).msg = o.work.msg
  BY <1>1, <1>3, WorkMade
<1>5. /\ orphans' \subseteq OrphanTypes
      /\ TimerInv' /\ OwnInv' /\ OneInv' /\ FirstInv'
  BY <1>1, <1>2, <1>4, OrphanGoesOn
<1>6. /\ DOMAIN effects' = Queues /\ DOMAIN skipped' = Queues
      /\ \A p \in Queues : effects'[p] \in [Events -> [EffectsOf(p) -> Nat]]
      /\ \A p \in Queues : skipped'[p] \in [Events -> SUBSET EffectsOf(p)]
  BY <1>1, <1>3, Applied DEF IInv
<1>7. TypeOK'
  BY <1>2, <1>5, <1>6 DEF IInv, TypeOK, OrphanTypes
<1>8. TriedInv'
  <2>1. \A p \in Queues, t \in Slots : slot[p][t].step = "handling" =>
           \A j \in EffectsOf(p) :
              j < slot[p][t].next => ReachedNext(p, slot[p][t].msg.event, j)
    BY <1>1, <1>3, TriedKept
  <2>2. \A p \in Queues : \A n \in done[p] :
           \A j \in EffectsOf(p) : ReachedNext(p, n.event, j)
    BY <1>1, <1>3, TriedKept
  <2>3. QED
    BY <1>2, <2>1, <2>2 DEF TriedInv, Reached, ReachedNext
<1>9. QED
  BY <1>5, <1>7, <1>8 DEF IInv

LEMMA FailOrphanKeeps == ASSUME IInv, NEW o \in orphans, FailOrphan(o) PROVE IInv'
<1>1. PICK m \in Message :
        /\ o.work.msg = m
        /\ orphans' = (orphans \ {o}) \cup {[o EXCEPT !.work = Waiting(m)]}
  BY DEF FailOrphan, IInv, TypeOK, Works
<1>2. UNCHANGED <<unpublished, ready, slot, dead, done, effects, skipped, attempts, stops>>
  BY DEF FailOrphan
<1>3. Waiting(m) \in Works /\ Waiting(m).msg = o.work.msg
  BY <1>1, WorkMade
<1>4. /\ orphans' \subseteq OrphanTypes
      /\ TimerInv' /\ OwnInv' /\ OneInv' /\ FirstInv'
  BY <1>1, <1>2, <1>3, OrphanGoesOn
<1>5. TypeOK' /\ TriedInv'
  BY <1>2, <1>4 DEF IInv, TypeOK, TriedInv, Reached, OrphanTypes
<1>6. QED
  BY <1>4, <1>5 DEF IInv

-----------------------------------------------------------------------------
(* Theorems.                                                               *)

LEMMA StepKeeps == IInv /\ [Next]_vars => IInv'
<1> SUFFICES ASSUME IInv, [Next]_vars PROVE IInv'
  OBVIOUS
<1>1. CASE UNCHANGED vars
  BY <1>1 DEF vars, IInv, TypeOK, TimerInv, OwnInv, OneInv, FirstInv, TriedInv, Reached,
     Owned, Held, Gathered
<1>2. ASSUME NEW e \in Events, Publish(e) PROVE IInv'
  BY <1>2, PublishKeeps
<1>3. ASSUME NEW q \in Queues, NEW s \in Slots, Consume(q, s) PROVE IInv'
  BY <1>3, DeliverKeeps, HandleKeeps, AckKeeps, FailKeeps, RetryKeeps DEF Consume
<1>4. CASE Crash
  BY <1>4, CrashKeeps
<1>5. CASE Cut
  BY <1>5, CutKeeps
<1>6. ASSUME NEW o \in orphans, HandleOrphan(o) \/ FailOrphan(o) \/ StopByOrphan(o)
      PROVE  IInv'
  BY <1>6, HandleOrphanKeeps, FailOrphanKeeps, StopByOrphanKeeps
<1>7. QED
  BY <1>1, <1>2, <1>3, <1>4, <1>5, <1>6 DEF Next

LEMMA Invariance == Spec => []IInv
  BY InitHolds, StepKeeps, PTL DEF Spec

\* Whatever the numbers of events, recipients, retries, places and stops, the
\* queues, the deliveries and what the handlers have done keep their types.
THEOREM TypeCorrect == Spec => []TypeOK
<1>1. IInv => TypeOK
  BY DEF IInv
<1>2. QED
  BY <1>1, Invariance, PTL

\* A published event is in its own queue, worked on, done or dead at every
\* moment, in at most one copy for every stop of the process or its connection
\* and one more, and never in the queue of the other consumer.
THEOREM PublishedIsNeverLost == Spec => []NeverLost
  BY CountsFollow, Invariance, PTL

-----------------------------------------------------------------------------
(* What a step does to an event, as DeliveryContract sees it.              *)

OneApplied(e, i) ==
    /\ e \notin unpublished /\ i \in EffectsOf(QueueOf(e))
    /\ Apply(QueueOf(e), e, i)
    /\ UNCHANGED <<unpublished, dead, done>>

OneDone(m) ==
    /\ m.event \notin unpublished
    /\ \A i \in EffectsOf(QueueOf(m.event)) : Reached(QueueOf(m.event), m.event, i)
    /\ done' = [done EXCEPT ![QueueOf(m.event)] = @ \cup {m}]
    /\ UNCHANGED <<unpublished, dead, effects, skipped>>

OneDead(m) ==
    /\ m.event \notin unpublished
    /\ dead' = [dead EXCEPT ![QueueOf(m.event)] = @ \cup {m}]
    /\ UNCHANGED <<unpublished, done, effects, skipped>>

BusStep ==
    \/ UNCHANGED <<unpublished, dead, done, effects, skipped>>
    \/ \E e \in Events : Publish(e)
    \/ \E e \in Events, i \in Nat : OneApplied(e, i)
    \/ \E m \in Message : OneDone(m) \/ OneDead(m)

LEMMA ConsumerStep ==
    ASSUME IInv, NEW q \in Queues, NEW s \in Slots, Consume(q, s)
    PROVE  BusStep
<1>1. s \in Held(q) => slot[q][s].msg \in Message /\ Owned(q, slot[q][s].msg)
  BY SlotTypes DEF IInv, OwnInv
<1>2. slot[q][s].step \in {"handling", "waiting"} => s \in Held(q)
  BY SlotTypes DEF IInv
<1>3. CASE \E m \in ready[q] : Deliver(q, s, m)
  BY <1>3 DEF Deliver, BusStep
<1>4. CASE Handle(q, s)
  <2>1. PICK m \in Message, i \in Nat \ {0} :
          /\ i \in EffectsOf(q) /\ Apply(q, m.event, i) /\ Owned(q, m)
          /\ UNCHANGED <<unpublished, dead, done>>
    <3>1. \A p : EffectsOf(p) \subseteq Nat \ {0}
      BY BoundsAreNatural DEF EffectsOf
    <3>2. slot[q][s].next \in EffectsOf(q)
      BY <1>4 DEF Handle, Apply
    <3>3. QED
      BY <1>1, <1>2, <1>4, <3>1, <3>2 DEF Handle
  <2>2. m.event \in Events /\ OneApplied(m.event, i)
    BY <2>1, MessageTypes DEF OneApplied, Owned
  <2>3. QED
    BY <2>2 DEF BusStep
<1>5. CASE Ack(q, s)
  <2>1. PICK m \in Message :
          /\ slot[q][s].msg = m /\ Owned(q, m)
          /\ done' = [done EXCEPT ![q] = @ \cup {m}]
          /\ \A i \in EffectsOf(q) : Reached(q, m.event, i)
    BY <1>1, <1>5, Finished
  <2>2. OneDone(m)
    BY <1>5, <2>1 DEF OneDone, Ack, Owned
  <2>3. QED
    BY <2>2 DEF BusStep
<1>6. CASE Fail(q, s)
  <2>1. PICK m \in Message : slot[q][s].msg = m /\ Owned(q, m)
    BY <1>1, <1>2, <1>6 DEF Fail
  <2>2. CASE Exhausted(m)
    <3>1. OneDead(m)
      BY <1>6, <2>1, <2>2 DEF OneDead, Fail, Owned
    <3>2. QED
      BY <3>1 DEF BusStep
  <2>3. CASE ~Exhausted(m)
    BY <1>6, <2>1, <2>3 DEF Fail, BusStep
  <2>4. QED
    BY <2>2, <2>3
<1>7. CASE Retry(q, s)
  BY <1>7 DEF Retry, BusStep
<1>8. QED
  BY <1>3, <1>4, <1>5, <1>6, <1>7 DEF Consume

LEMMA OrphanStep ==
    ASSUME IInv, NEW o \in orphans, HandleOrphan(o) \/ FailOrphan(o) \/ StopByOrphan(o)
    PROVE  BusStep
<1>1. CASE HandleOrphan(o)
  <2>1. PICK q \in Queues, m \in Message, i \in Nat \ {0} :
          /\ i \in EffectsOf(q) /\ Apply(q, m.event, i) /\ Owned(q, m)
          /\ UNCHANGED <<unpublished, dead, done>>
    <3>1. \A p : EffectsOf(p) \subseteq Nat \ {0}
      BY BoundsAreNatural DEF EffectsOf
    <3>2. o.work.next \in EffectsOf(o.queue)
      BY <1>1 DEF HandleOrphan, Apply
    <3>3. o.queue \in Queues /\ o.work.msg \in Message /\ Owned(o.queue, o.work.msg)
      BY DEF IInv, TypeOK, OwnInv, Works
    <3>4. QED
      BY <1>1, <3>1, <3>2, <3>3 DEF HandleOrphan
  <2>2. m.event \in Events /\ OneApplied(m.event, i)
    BY <2>1, MessageTypes DEF OneApplied, Owned
  <2>3. QED
    BY <2>2 DEF BusStep
<1>2. CASE FailOrphan(o)
  BY <1>2 DEF FailOrphan, BusStep
<1>3. CASE StopByOrphan(o)
  BY <1>3 DEF StopByOrphan, Close, BusStep
<1>4. QED
  BY <1>1, <1>2, <1>3

LEMMA EveryStep == IInv /\ [Next]_vars => BusStep
<1> SUFFICES ASSUME IInv, [Next]_vars PROVE BusStep
  OBVIOUS
<1>1. CASE UNCHANGED vars
  BY <1>1 DEF vars, BusStep
<1>2. CASE Crash
  BY <1>2 DEF Crash, Close, BusStep
<1>3. CASE Cut
  BY <1>3 DEF Cut, Close, BusStep
<1>4. CASE \E e \in Events : Publish(e)
  BY <1>4 DEF BusStep
<1>5. QED
  BY <1>1, <1>2, <1>3, <1>4, ConsumerStep, OrphanStep DEF Next

\* What an event's standing is made of.
LEMMA StandingIs ==
    ASSUME NEW d \in Events
    PROVE  Standing(d) =
             IF d \in unpublished THEN {}
             ELSE {"published"}
                  \cup (IF About(d, done[QueueOf(d)]) # {} THEN {"done"} ELSE {})
                  \cup (IF About(d, dead[QueueOf(d)]) # {} THEN {"dead"} ELSE {})
  BY DEF Standing

StandingNext(d) ==
    IF d \in unpublished' THEN {}
    ELSE {"published"}
         \cup (IF About(d, done'[QueueOf(d)]) # {} THEN {"done"} ELSE {})
         \cup (IF About(d, dead'[QueueOf(d)]) # {} THEN {"dead"} ELSE {})

TriedNext(d) ==
    {i \in EffectsOf(QueueOf(d)) : effects'[QueueOf(d)][d][i] > 0} \cup skipped'[QueueOf(d)][d]

\* The two variables of the contract, as the bus has them.
StandingOf == [d \in Events |-> Standing(d)]
TriedOf == [d \in Events |-> Tried(d)]

LEMMA NextIs ==
    /\ StandingOf' = [d \in Events |-> StandingNext(d)]
    /\ TriedOf' = [d \in Events |-> TriedNext(d)]
<1>1. \A d \in Events : Standing(d)' = StandingNext(d)
  BY DEF Standing, StandingNext, About, QueueOf
<1>2. \A d \in Events : Tried(d)' = TriedNext(d)
  BY DEF Tried, TriedNext, QueueOf, EffectsOf
<1>3. QED
  BY <1>1, <1>2 DEF StandingOf, TriedOf

ContractStep ==
    \E d \in Events :
        \/ /\ StandingOf[d] = {}
           /\ StandingOf' = [StandingOf EXCEPT ![d] = {"published"}]
           /\ UNCHANGED TriedOf
        \/ \E i \in EffectsOf(QueueOf(d)) :
             /\ "published" \in StandingOf[d]
             /\ TriedOf' = [TriedOf EXCEPT ![d] = @ \cup {i}]
             /\ UNCHANGED StandingOf
        \/ \E outcome \in {"done", "dead"} :
             /\ "published" \in StandingOf[d]
             /\ outcome = "done" => TriedOf[d] = EffectsOf(QueueOf(d))
             /\ StandingOf' = [StandingOf EXCEPT ![d] = @ \cup {outcome}]
             /\ UNCHANGED TriedOf

LEMMA PublishedInContract ==
    ASSUME IInv, NEW e \in Events, Publish(e) PROVE ContractStep
<1>1. /\ e \in unpublished /\ unpublished' = unpublished \ {e}
      /\ UNCHANGED <<dead, done, effects, skipped>>
  BY DEF Publish
<1>2. QueueOf(e) \in Queues
  BY DEF QueueOf, Queues
<1>3. About(e, done[QueueOf(e)]) = {} /\ About(e, dead[QueueOf(e)]) = {}
  BY <1>1, <1>2 DEF About, IInv, OwnInv, Owned, Gathered
<1>4. /\ Standing(e) = {} /\ StandingNext(e) = {"published"}
      /\ \A d \in Events \ {e} : StandingNext(d) = Standing(d)
      /\ \A d \in Events : TriedNext(d) = Tried(d)
  BY <1>1, <1>3, StandingIs DEF StandingNext, Tried, TriedNext
<1>5. /\ StandingOf[e] = {}
      /\ StandingOf' = [StandingOf EXCEPT ![e] = {"published"}]
      /\ TriedOf' = TriedOf
  BY <1>4, NextIs DEF StandingOf, TriedOf
<1>6. QED
  BY <1>5 DEF ContractStep

LEMMA AppliedInContract ==
    ASSUME IInv, NEW e \in Events, NEW i \in Nat, OneApplied(e, i) PROVE ContractStep
<1> DEFINE q == QueueOf(e)
<1>1. /\ e \notin unpublished /\ i \in EffectsOf(q) /\ q \in Queues
      /\ Apply(q, e, i) /\ UNCHANGED <<unpublished, dead, done>>
  BY DEF OneApplied, QueueOf, Queues
<1>2. \A d \in Events : /\ QueueOf(d) \in Queues
                        /\ effects[QueueOf(d)] \in [Events -> [EffectsOf(QueueOf(d)) -> Nat]]
                        /\ skipped[QueueOf(d)] \in [Events -> SUBSET EffectsOf(QueueOf(d))]
                        /\ effects[QueueOf(d)][d] \in [EffectsOf(QueueOf(d)) -> Nat]
  BY DEF IInv, TypeOK, QueueOf, Queues
<1>3. \A d \in Events : StandingNext(d) = Standing(d)
  BY <1>1, StandingIs DEF StandingNext
<1>4. "published" \in Standing(e)
  BY <1>1, StandingIs
<1>5. /\ TriedNext(e) = Tried(e) \cup {i}
      /\ \A d \in Events \ {e} : TriedNext(d) = Tried(d)
  <2>1. CASE effects' = [effects EXCEPT ![q][e][i] = @ + 1] /\ UNCHANGED skipped
    <3>1. effects'[q][e] = [effects[q][e] EXCEPT ![i] = @ + 1]
      BY <1>1, <1>2, <2>1 DEF IInv, TypeOK
    <3>2. \A d \in Events \ {e} : effects'[QueueOf(d)][d] = effects[QueueOf(d)][d]
      BY <1>1, <1>2, <2>1 DEF IInv, TypeOK
    <3>3. effects[q][e] \in [EffectsOf(q) -> Nat]
      BY <1>2
    <3>4. {j \in EffectsOf(q) : effects'[q][e][j] > 0}
            = {j \in EffectsOf(q) : effects[q][e][j] > 0} \cup {i}
      BY <1>1, <3>1, <3>3
    <3>5. QED
      BY <2>1, <3>2, <3>4 DEF Tried, TriedNext
  <2>2. CASE skipped' = [skipped EXCEPT ![q][e] = @ \cup {i}] /\ UNCHANGED effects
    <3>1. skipped'[q][e] = skipped[q][e] \cup {i}
      BY <1>1, <2>2 DEF IInv, TypeOK
    <3>2. \A d \in Events \ {e} : skipped'[QueueOf(d)][d] = skipped[QueueOf(d)][d]
      BY <1>1, <1>2, <2>2 DEF IInv, TypeOK
    <3>3. QED
      BY <2>2, <3>1, <3>2 DEF Tried, TriedNext
  <2>3. QED
    BY <1>1, <2>1, <2>2 DEF Apply
<1>6. /\ "published" \in StandingOf[e]
      /\ TriedOf' = [TriedOf EXCEPT ![e] = @ \cup {i}]
      /\ StandingOf' = StandingOf
  BY <1>3, <1>4, <1>5, NextIs DEF StandingOf, TriedOf
<1>7. QED
  BY <1>1, <1>6 DEF ContractStep

LEMMA SettledInContract ==
    ASSUME IInv, NEW m \in Message, OneDone(m) \/ OneDead(m) PROVE ContractStep
<1>1. PICK e \in Events, q \in Queues : e = m.event /\ q = QueueOf(e) /\ e \notin unpublished
  BY MessageTypes DEF OneDone, OneDead
<1>2. \A d \in Events : QueueOf(d) \in Queues
  BY DEF QueueOf, Queues
<1>3. \A d \in Events : d \in unpublished => d # e
  BY <1>1
<1>4. \A d \in Events : TriedNext(d) = Tried(d)
  BY DEF OneDone, OneDead, Tried, TriedNext
<1>5. CASE OneDone(m)
  <2>1. /\ done'[q] = done[q] \cup {m} /\ \A p \in Queues \ {q} : done'[p] = done[p]
        /\ unpublished' = unpublished /\ dead' = dead
    BY <1>1, <1>5 DEF OneDone, IInv, TypeOK
  <2>2. /\ StandingNext(e) = Standing(e) \cup {"done"}
        /\ \A d \in Events \ {e} : StandingNext(d) = Standing(d)
        /\ "published" \in Standing(e)
    <3>1. m \in About(e, done'[q])
      BY <1>1, <2>1 DEF About
    <3>2. \A d \in Events \ {e} : About(d, done'[QueueOf(d)]) = About(d, done[QueueOf(d)])
      BY <1>1, <1>2, <2>1 DEF About
    <3>3. QED
      BY <1>1, <1>3, <2>1, <3>1, <3>2, StandingIs DEF StandingNext
  <2>3. Tried(e) = EffectsOf(q)
    <3>1. \A i \in EffectsOf(q) : Reached(q, e, i)
      BY <1>1, <1>5 DEF OneDone
    <3>2. skipped[q][e] \subseteq EffectsOf(q)
      BY DEF IInv, TypeOK
    <3>3. QED
      BY <1>1, <3>1, <3>2 DEF Tried, Reached
  <2>4. /\ "published" \in StandingOf[e] /\ TriedOf[e] = EffectsOf(QueueOf(e))
        /\ StandingOf' = [StandingOf EXCEPT ![e] = @ \cup {"done"}]
        /\ TriedOf' = TriedOf
    BY <1>1, <1>4, <2>2, <2>3, NextIs DEF StandingOf, TriedOf
  <2>5. QED
    BY <2>4 DEF ContractStep
<1>6. CASE OneDead(m)
  <2>1. /\ dead'[q] = dead[q] \cup {m} /\ \A p \in Queues \ {q} : dead'[p] = dead[p]
        /\ unpublished' = unpublished /\ done' = done
    BY <1>1, <1>6 DEF OneDead, IInv, TypeOK
  <2>2. /\ StandingNext(e) = Standing(e) \cup {"dead"}
        /\ \A d \in Events \ {e} : StandingNext(d) = Standing(d)
        /\ "published" \in Standing(e)
    <3>1. m \in About(e, dead'[q])
      BY <1>1, <2>1 DEF About
    <3>2. \A d \in Events \ {e} : About(d, dead'[QueueOf(d)]) = About(d, dead[QueueOf(d)])
      BY <1>1, <1>2, <2>1 DEF About
    <3>3. QED
      BY <1>1, <1>3, <2>1, <3>1, <3>2, StandingIs DEF StandingNext
  <2>3. /\ "published" \in StandingOf[e]
        /\ StandingOf' = [StandingOf EXCEPT ![e] = @ \cup {"dead"}]
        /\ TriedOf' = TriedOf
    BY <1>4, <2>2, NextIs DEF StandingOf, TriedOf
  <2>4. QED
    BY <2>3 DEF ContractStep
<1>7. QED
  BY <1>5, <1>6

\* Step by step the bus does what DeliveryContract says: a handler works on
\* published events only, an event is done only with every effect applied or
\* passed over, and neither outcome is taken back, whenever the process stops,
\* its connection is cut or a copy of a settled event is worked on.
THEOREM BusKeepsContract == Spec => ImplementsContract
<1>1. Init => Contract!Init
  <2> SUFFICES ASSUME Init PROVE Contract!Init
    OBVIOUS
  <2>1. \A d \in Events : Standing(d) = {}
    BY DEF Init, Standing
  <2>2. \A d \in Events : Tried(d) = {}
    BY DEF Init, Tried, QueueOf, Queues
  <2>3. QED
    BY <2>1, <2>2 DEF Contract!Init
<1>2. IInv /\ [Next]_vars => [Contract!Next]_<<StandingOf, TriedOf>>
  <2> SUFFICES ASSUME IInv, [Next]_vars
               PROVE  Contract!Next \/ UNCHANGED <<StandingOf, TriedOf>>
    OBVIOUS
  <2>1. CASE UNCHANGED <<unpublished, dead, done, effects, skipped>>
    BY <2>1 DEF StandingOf, TriedOf, Standing, Tried
  <2>2. ASSUME ContractStep PROVE Contract!Next
    BY <2>2 DEF ContractStep, StandingOf, TriedOf, Contract!Next, Contract!Publish,
       Contract!Try, Contract!Settle
  <2>3. QED
    BY <2>1, <2>2, EveryStep, PublishedInContract, AppliedInContract, SettledInContract
    DEF BusStep
<1>3. QED
  BY <1>1, <1>2, Invariance, PTL DEF Spec, ImplementsContract, Contract!Spec, StandingOf,
     TriedOf
-----------------------------------------------------------------------------
(* How often an effect is applied.  A chance of effect i is a copy of its  *)
(* event and a retry count with which a handler may still come to i; a     *)
(* late one is a handler of a closed channel that has not passed i.  Every *)
(* application uses up a chance or a late one.  A stop adds a late one or  *)
(* a chance for each delivery under way, of which there is one for every   *)
(* copy at most, and the retries of one copy more.                         *)

Chance(q, e, i, c, k) ==
    \/ \E m \in ready[q] : m.event = e /\ m.copy = c /\ m.retry <= k
    \/ \E s \in Held(q) :
         /\ slot[q][s].msg.event = e /\ slot[q][s].msg.copy = c
         /\ \/ slot[q][s].msg.retry < k
            \/ /\ slot[q][s].step = "handling" /\ slot[q][s].next <= i
               /\ slot[q][s].msg.retry = k

Chances(q, e, i) ==
    {t \in (0..stops) \X (0..MaxRetries) : Chance(q, e, i, t[1], t[2])}

Late(q, e, i) ==
    {o \in orphans : /\ o.queue = q /\ o.work.msg.event = e
                     /\ o.work.step = "handling" /\ o.work.next <= i}

Most(n) == MaxRetries + 1 + n * MaxRetries + (n * (n + 1)) \div 2

Affordable(q, e, i) ==
    effects[q][e][i] + Cardinality(Chances(q, e, i)) + Cardinality(Late(q, e, i))
      <= Most(stops)

SpentInv ==
    /\ IsFiniteSet(orphans)
    /\ \A q \in Queues, e \in Events : \A i \in EffectsOf(q) :
         /\ Affordable(q, e, i)
         /\ e \in unpublished => effects[q][e][i] = 0

\* A message that has been retried was tried before, and a dead one as often as
\* a message is.
AttemptInv ==
    \A q \in Queues :
        /\ \A m \in ready[q] : attempts[q][m.event] >= m.retry
        /\ \A s \in Held(q) : attempts[q][slot[q][s].msg.event] > slot[q][s].msg.retry
        /\ \A m \in dead[q] : attempts[q][m.event] > MaxRetries

RepeatInv == IInv /\ SpentInv /\ AttemptInv

LEMMA MostGrows ==
    ASSUME NEW n \in Nat
    PROVE  Most(n) \in Nat /\ Most(n + 1) = Most(n) + MaxRetries + n + 1
<1>1. MaxRetries \in Nat
  BY BoundsAreNatural
<1>2. n * (n + 1) \in Nat /\ n * MaxRetries \in Nat
  BY <1>1
<1>3. (n + 1) * MaxRetries = n * MaxRetries + MaxRetries
  BY <1>1
<1>4. (n + 1) * ((n + 1) + 1) = n * (n + 1) + 2 * (n + 1)
  OBVIOUS
<1>5. \A x, y \in Nat : (x + 2 * y) \div 2 = x \div 2 + y /\ x \div 2 \in Nat
  OBVIOUS
<1>6. ((n + 1) * ((n + 1) + 1)) \div 2 = (n * (n + 1)) \div 2 + n + 1
      /\ (n * (n + 1)) \div 2 \in Nat
  <2> DEFINE x == n * (n + 1)
  <2>1. x \in Nat /\ (n + 1) * ((n + 1) + 1) = x + 2 * (n + 1)
    BY <1>2, <1>4
  <2> HIDE DEF x
  <2>2. (x + 2 * (n + 1)) \div 2 = x \div 2 + (n + 1) /\ x \div 2 \in Nat
    BY <1>5, <2>1
  <2>3. QED
    BY <2>1, <2>2 DEF x
<1> DEFINE a == n * MaxRetries
           b == (n * (n + 1)) \div 2
<1>7. Most(n) = MaxRetries + 1 + a + b
  BY DEF Most
<1>8. Most(n + 1) = MaxRetries + 1 + (a + MaxRetries) + (b + n + 1)
  BY <1>3, <1>6 DEF Most
<1>9. a \in Nat /\ b \in Nat
  BY <1>2, <1>6
<1> HIDE DEF a, b
<1>10. QED
  BY <1>1, <1>7, <1>8, <1>9

\* Chances and late handlers are finitely many.
LEMMA ChancesFinite ==
    ASSUME TypeOK, NEW q \in Queues, NEW e \in Events, NEW i \in EffectsOf(q)
    PROVE  IsFiniteSet(Chances(q, e, i)) /\ Cardinality(Chances(q, e, i)) \in Nat
<1>1. stops \in Nat /\ MaxRetries \in Nat
  BY BoundsAreNatural DEF TypeOK
<1>2. IsFiniteSet(0..stops) /\ IsFiniteSet(0..MaxRetries)
  BY <1>1, FS_Interval
<1>3. IsFiniteSet((0..stops) \X (0..MaxRetries))
  BY <1>2, FS_Product
<1>4. Chances(q, e, i) \in SUBSET ((0..stops) \X (0..MaxRetries))
  BY DEF Chances
<1>5. QED
  BY <1>3, <1>4, FS_Subset, FS_CardinalityType

LEMMA LateFinite ==
    ASSUME IsFiniteSet(orphans), NEW q \in Queues, NEW e \in Events, NEW i \in EffectsOf(q)
    PROVE  IsFiniteSet(Late(q, e, i)) /\ Cardinality(Late(q, e, i)) \in Nat
<1>1. Late(q, e, i) \in SUBSET orphans
  BY DEF Late
<1>2. QED
  BY <1>1, FS_Subset, FS_CardinalityType

\* A queue whose messages and places stay as they are keeps its chances.
LEMMA SameChances ==
    ASSUME NEW q \in Queues, ready'[q] = ready[q], slot'[q] = slot[q], UNCHANGED stops,
           NEW e \in Events, NEW i \in EffectsOf(q)
    PROVE  Chances(q, e, i)' = Chances(q, e, i)
  BY DEF Chances, Chance, Held

\* With fewer chances and late handlers the bound stays kept.
LEMMA LessIsAffordable ==
    ASSUME IInv, IsFiniteSet(orphans), UNCHANGED stops,
           NEW q \in Queues, NEW e \in Events, NEW i \in EffectsOf(q),
           Affordable(q, e, i), effects'[q][e][i] = effects[q][e][i],
           Chances(q, e, i)' \subseteq Chances(q, e, i), Late(q, e, i)' \subseteq Late(q, e, i)
    PROVE  Affordable(q, e, i)'
<1> DEFINE C == Chances(q, e, i)
           L == Late(q, e, i)
           D == Chances(q, e, i)'
           K == Late(q, e, i)'
<1>1. stops \in Nat /\ effects[q][e][i] \in Nat
  BY DEF IInv, TypeOK
<1>2. IsFiniteSet(C) /\ Cardinality(C) \in Nat /\ IsFiniteSet(L) /\ Cardinality(L) \in Nat
  BY ChancesFinite, LateFinite DEF IInv
<1>3. Most(stops) \in Nat
  BY <1>1, MostGrows
<1>4. effects[q][e][i] + Cardinality(C) + Cardinality(L) <= Most(stops)
  BY DEF Affordable
<1>5. Most(stops)' = Most(stops)
  BY DEF Most
<1>6. D \in SUBSET C /\ K \in SUBSET L
  OBVIOUS
<1>7. SUFFICES effects[q][e][i] + Cardinality(D) + Cardinality(K) <= Most(stops)
  BY <1>5 DEF Affordable
<1> HIDE DEF C, L, D, K
<1>8. /\ Cardinality(D) <= Cardinality(C) /\ Cardinality(K) <= Cardinality(L)
      /\ Cardinality(D) \in Nat /\ Cardinality(K) \in Nat
  BY <1>2, <1>6, FS_Subset, FS_CardinalityType
<1>9. QED
  BY <1>1, <1>2, <1>3, <1>4, <1>8

\* A queue holds at most one copy of an event for every stop, and one.
LEMMA HeldCounted ==
    ASSUME IInv, NEW q \in Queues, NEW e \in Events
    PROVE  /\ IsFiniteSet(HeldOf(q, e)) /\ Cardinality(HeldOf(q, e)) \in Nat
           /\ Cardinality(HeldOf(q, e)) <= stops + 1
<1> DEFINE H == HeldOf(q, e)
           f == [s \in H |-> slot[q][s].msg.copy]
           K == {f[s] : s \in H}
<1>1. stops \in Nat
  BY DEF IInv, TypeOK
<1>2. \A s \in H : s \in Held(q) /\ slot[q][s].msg.event = e /\ slot[q][s].msg.copy \in 0..stops
  <2> SUFFICES ASSUME NEW s \in H
               PROVE  /\ s \in Held(q) /\ slot[q][s].msg.event = e
                      /\ slot[q][s].msg.copy \in 0..stops
    OBVIOUS
  <2>1. s \in Held(q) /\ s \in Slots /\ slot[q][s].msg.event = e
    BY DEF HeldOf, Held
  <2>2. slot[q][s].msg \in Message
    BY <2>1, SlotTypes DEF IInv
  <2>3. Owned(q, slot[q][s].msg)
    BY <2>1 DEF IInv, OwnInv
  <2>4. QED
    BY <1>1, <2>1, <2>2, <2>3, MessageTypes DEF Owned
<1>3. f \in [H -> 0..stops]
  BY <1>2
<1>4. \A s, t \in H : f[s] = f[t] => s = t
  BY <1>2 DEF IInv, OneInv, Same
<1> HIDE DEF f, H
<1>5. IsFiniteSet(H) /\ Cardinality(H) = Cardinality(K)
  <2>1. IsFiniteSet(H)
    BY <1>1, <1>3, <1>4, Numbered
  <2>2. Cardinality(H) = Cardinality(K)
    BY <1>1, <1>3, <1>4, Numbered
  <2>3. QED
    BY <2>1, <2>2
<1>6. K \in SUBSET (0..stops)
  BY <1>3
<1>7. IsFiniteSet(0..stops) /\ Cardinality(0..stops) = stops + 1
  BY <1>1, FS_Interval
<1>8. Cardinality(K) <= stops + 1
  BY <1>6, <1>7, FS_Subset
<1>9. Cardinality(H) \in Nat
  BY <1>5, FS_CardinalityType
<1>10. QED
  BY <1>5, <1>8, <1>9 DEF H

\* An image has no more members than what it is the image of, a union no more
\* than its parts together.
LEMMA ImageCounted ==
    ASSUME NEW S, IsFiniteSet(S), NEW f
    PROVE  /\ IsFiniteSet({f[x] : x \in S})
           /\ Cardinality({f[x] : x \in S}) \in Nat
           /\ Cardinality({f[x] : x \in S}) <= Cardinality(S)
<1> DEFINE T == {f[x] : x \in S}
           g == [x \in S |-> f[x]]
<1>1. g \in Surjection(S, T)
  BY DEF Surjection
<1>2. IsFiniteSet(T) /\ Cardinality(T) <= Cardinality(S)
  BY <1>1, FS_Surjection
<1>3. QED
  BY <1>2, FS_CardinalityType

LEMMA UnionCounted ==
    ASSUME NEW S, NEW T, IsFiniteSet(S), IsFiniteSet(T)
    PROVE  /\ IsFiniteSet(S \cup T) /\ Cardinality(S \cup T) \in Nat
           /\ Cardinality(S \cup T) <= Cardinality(S) + Cardinality(T)
<1>1. /\ IsFiniteSet(S \cup T)
      /\ Cardinality(S \cup T) = Cardinality(S) + Cardinality(T) - Cardinality(S \cap T)
  BY FS_Union
<1>2. IsFiniteSet(S \cap T)
  BY FS_Subset
<1>3. /\ Cardinality(S) \in Nat /\ Cardinality(T) \in Nat /\ Cardinality(S \cap T) \in Nat
      /\ Cardinality(S \cup T) \in Nat
  BY <1>1, <1>2, FS_CardinalityType
<1>4. QED
  BY <1>1, <1>3

\* A place that changes gives no chances but those of what it holds now.
LEMMA PlacedChances ==
    ASSUME IInv, NEW q \in Queues, NEW s \in Slots, NEW w \in Works \cup {Free},
           Placed(q, s, w), NEW p \in Queues, NEW e \in Events, NEW i \in EffectsOf(p),
           NEW c \in Nat, NEW k \in Nat, Chance(p, e, i, c, k)'
    PROVE  \/ Chance(p, e, i, c, k)
           \/ \E m \in ready'[p] : /\ m \notin ready[p]
                                   /\ m.event = e /\ m.copy = c /\ m.retry <= k
           \/ /\ p = q /\ w # Free /\ w.msg.event = e /\ w.msg.copy = c
              /\ \/ w.msg.retry < k
                 \/ w.step = "handling" /\ w.next <= i /\ w.msg.retry = k
<1>1. /\ slot'[q][s] = w
      /\ \A r \in Queues, t \in Slots : ~(r = q /\ t = s) => slot'[r][t] = slot[r][t]
  <2>1. TypeOK
    BY DEF IInv
  <2>2. QED
    BY <2>1, SlotPlaced
<1>2. CASE \E m \in ready'[p] : m.event = e /\ m.copy = c /\ m.retry <= k
  BY <1>2 DEF Chance
<1>3. ASSUME NEW t \in Held(p)',
             /\ slot'[p][t].msg.event = e /\ slot'[p][t].msg.copy = c
             /\ \/ slot'[p][t].msg.retry < k
                \/ /\ slot'[p][t].step = "handling" /\ slot'[p][t].next <= i
                   /\ slot'[p][t].msg.retry = k
      PROVE  \/ Chance(p, e, i, c, k)
             \/ /\ p = q /\ w # Free /\ w.msg.event = e /\ w.msg.copy = c
                /\ \/ w.msg.retry < k
                   \/ w.step = "handling" /\ w.next <= i /\ w.msg.retry = k
  <2>1. t \in Slots /\ slot'[p][t] # Free
    BY DEF Held
  <2>2. CASE p = q /\ t = s
    BY <1>1, <1>3, <2>1, <2>2
  <2>3. CASE ~(p = q /\ t = s)
    <3>1. slot'[p][t] = slot[p][t] /\ t \in Held(p)
      BY <1>1, <2>1, <2>3 DEF Held
    <3>2. QED
      BY <1>3, <3>1 DEF Chance
  <2>4. QED
    BY <2>2, <2>3
<1>4. QED
  BY <1>2, <1>3 DEF Chance

\* Steps that apply nothing and give no new chance.
LEMMA SpentStays ==
    ASSUME IInv, SpentInv, IsFiniteSet(orphans'), UNCHANGED <<stops, effects, unpublished>>,
           \A q \in Queues, e \in Events : \A i \in EffectsOf(q) :
              /\ Chances(q, e, i)' \subseteq Chances(q, e, i)
              /\ Late(q, e, i)' \subseteq Late(q, e, i)
    PROVE  SpentInv'
<1>1. \A q \in Queues, e \in Events : \A i \in EffectsOf(q) : Affordable(q, e, i)'
  <2> SUFFICES ASSUME NEW q \in Queues, NEW e \in Events, NEW i \in EffectsOf(q)
               PROVE  Affordable(q, e, i)'
    OBVIOUS
  <2>1. Affordable(q, e, i) /\ IsFiniteSet(orphans)
    BY DEF SpentInv
  <2>2. effects'[q][e][i] = effects[q][e][i]
    OBVIOUS
  <2>3. QED
    BY <2>1, <2>2, LessIsAffordable
<1>2. \A q : EffectsOf(q)' = EffectsOf(q)
  BY DEF EffectsOf
<1>3. QED
  BY <1>1, <1>2 DEF SpentInv

\* The same for a step that changes one place.
LEMMA PlacedSpends ==
    ASSUME IInv, SpentInv, UNCHANGED <<stops, effects, unpublished, orphans>>,
           NEW q \in Queues, NEW s \in Slots, NEW w \in Works \cup {Free}, Placed(q, s, w),
           \A p \in Queues : \A m \in ready'[p] : m \notin ready[p] =>
              \A e \in Events : \A i \in EffectsOf(p), c \in Nat, k \in Nat :
                 m.event = e /\ m.copy = c /\ m.retry <= k => Chance(p, e, i, c, k),
           w # Free => \A e \in Events : \A i \in EffectsOf(q), c \in Nat, k \in Nat :
              /\ w.msg.event = e /\ w.msg.copy = c
              /\ \/ w.msg.retry < k
                 \/ w.step = "handling" /\ w.next <= i /\ w.msg.retry = k
              => Chance(q, e, i, c, k)
    PROVE  SpentInv'
<1>1. IsFiniteSet(orphans')
  BY DEF SpentInv
<1>2. ASSUME NEW p \in Queues, NEW e \in Events, NEW i \in EffectsOf(p)
      PROVE  /\ Chances(p, e, i)' \subseteq Chances(p, e, i)
             /\ Late(p, e, i)' \subseteq Late(p, e, i)
  <2>1. Late(p, e, i)' = Late(p, e, i)
    BY DEF Late
  <2>2. \A c, k \in Nat : Chance(p, e, i, c, k)' => Chance(p, e, i, c, k)
    BY PlacedChances
  <2>3. 0..stops \subseteq Nat /\ 0..MaxRetries \subseteq Nat
    OBVIOUS
  <2>4. QED
    BY <2>1, <2>2, <2>3 DEF Chances
<1>3. QED
  BY <1>1, <1>2, SpentStays

LEMMA MostIsEnough == ASSUME NEW n \in Nat PROVE Most(n) >= MaxRetries + 1
<1>1. MaxRetries \in Nat
  BY BoundsAreNatural
<1> DEFINE a == n * MaxRetries
           b == n * (n + 1)
<1>2. a \in Nat /\ b \in Nat
  BY <1>1
<1>3. Most(n) = MaxRetries + 1 + a + b \div 2
  BY DEF Most
<1> HIDE DEF a, b
<1>4. b \div 2 \in Nat
  BY <1>2
<1> DEFINE c == b \div 2
<1>5. c \in Nat /\ Most(n) = MaxRetries + 1 + a + c
  BY <1>3, <1>4
<1> HIDE DEF c
<1>6. QED
  BY <1>1, <1>2, <1>5

\* The retries of one copy.
LEMMA RetriesCounted ==
    ASSUME NEW n, NEW a \in {0, 1}, NEW S, \A t \in S : \E k \in a..MaxRetries : t = <<n, k>>
    PROVE  IsFiniteSet(S) /\ Cardinality(S) \in Nat /\ Cardinality(S) <= MaxRetries + 1 - a
<1> DEFINE I == a..MaxRetries
           f == [k \in I |-> <<n, k>>]
           T == {f[k] : k \in I}
<1>1. MaxRetries \in Nat
  BY BoundsAreNatural
<1>2. IsFiniteSet(I) /\ Cardinality(I) = MaxRetries + 1 - a
  BY <1>1, FS_Interval
<1>3. \A t \in S : t \in T
  OBVIOUS
<1> HIDE DEF I, f
<1>4. IsFiniteSet(T) /\ Cardinality(T) \in Nat /\ Cardinality(T) <= Cardinality(I)
  BY <1>2, ImageCounted
<1>5. S \in SUBSET T
  BY <1>3
<1>6. IsFiniteSet(S) /\ Cardinality(S) <= Cardinality(T)
  BY <1>4, <1>5, FS_Subset
<1>7. Cardinality(S) \in Nat
  BY <1>6, FS_CardinalityType
<1>8. QED
  BY <1>1, <1>2, <1>4, <1>6, <1>7

\* A chance, or a late handler, pays for an application.
LEMMA ChancePays ==
    ASSUME IInv, IsFiniteSet(orphans), UNCHANGED stops,
           NEW q \in Queues, NEW e \in Events, NEW i \in EffectsOf(q),
           Affordable(q, e, i), effects'[q][e][i] = effects[q][e][i] + 1,
           NEW t \in Chances(q, e, i), Chances(q, e, i)' \subseteq Chances(q, e, i) \ {t},
           Late(q, e, i)' \subseteq Late(q, e, i)
    PROVE  Affordable(q, e, i)'
<1> DEFINE C == Chances(q, e, i)
           L == Late(q, e, i)
           D == Chances(q, e, i)'
           K == Late(q, e, i)'
           n == effects[q][e][i]
<1>1. stops \in Nat /\ n \in Nat
  BY DEF IInv, TypeOK
<1>2. IsFiniteSet(C) /\ Cardinality(C) \in Nat /\ IsFiniteSet(L) /\ Cardinality(L) \in Nat
  BY ChancesFinite, LateFinite DEF IInv
<1>3. Most(stops) \in Nat
  BY <1>1, MostGrows
<1>4. n + Cardinality(C) + Cardinality(L) <= Most(stops)
  BY DEF Affordable
<1>5. Most(stops)' = Most(stops)
  BY DEF Most
<1>6. t \in C /\ D \in SUBSET (C \ {t}) /\ K \in SUBSET L
  OBVIOUS
<1>7. SUFFICES n + 1 + Cardinality(D) + Cardinality(K) <= Most(stops)
  BY <1>5 DEF Affordable
<1> HIDE DEF C, L, D, K, n
<1>8. IsFiniteSet(C \ {t}) /\ Cardinality(C \ {t}) = Cardinality(C) - 1
  BY <1>2, <1>6, FS_RemoveElement
<1>9. IsFiniteSet(D) /\ Cardinality(D) <= Cardinality(C \ {t})
  BY <1>6, <1>8, FS_Subset
<1>10. IsFiniteSet(K) /\ Cardinality(K) <= Cardinality(L)
  BY <1>2, <1>6, FS_Subset
<1>11. Cardinality(D) \in Nat /\ Cardinality(K) \in Nat
  BY <1>9, <1>10, FS_CardinalityType
<1>12. QED
  BY <1>1, <1>2, <1>3, <1>4, <1>8, <1>9, <1>10, <1>11

LEMMA LatePays ==
    ASSUME IInv, IsFiniteSet(orphans), UNCHANGED stops,
           NEW q \in Queues, NEW e \in Events, NEW i \in EffectsOf(q),
           Affordable(q, e, i), effects'[q][e][i] = effects[q][e][i] + 1,
           Chances(q, e, i)' \subseteq Chances(q, e, i),
           NEW o \in Late(q, e, i), Late(q, e, i)' \subseteq Late(q, e, i) \ {o}
    PROVE  Affordable(q, e, i)'
<1> DEFINE C == Chances(q, e, i)
           L == Late(q, e, i)
           D == Chances(q, e, i)'
           K == Late(q, e, i)'
           n == effects[q][e][i]
<1>1. stops \in Nat /\ n \in Nat
  BY DEF IInv, TypeOK
<1>2. IsFiniteSet(C) /\ Cardinality(C) \in Nat /\ IsFiniteSet(L) /\ Cardinality(L) \in Nat
  BY ChancesFinite, LateFinite DEF IInv
<1>3. Most(stops) \in Nat
  BY <1>1, MostGrows
<1>4. n + Cardinality(C) + Cardinality(L) <= Most(stops)
  BY DEF Affordable
<1>5. Most(stops)' = Most(stops)
  BY DEF Most
<1>6. o \in L /\ D \in SUBSET C /\ K \in SUBSET (L \ {o})
  OBVIOUS
<1>7. SUFFICES n + 1 + Cardinality(D) + Cardinality(K) <= Most(stops)
  BY <1>5 DEF Affordable
<1> HIDE DEF C, L, D, K, n
<1>8. IsFiniteSet(L \ {o}) /\ Cardinality(L \ {o}) = Cardinality(L) - 1
  BY <1>2, <1>6, FS_RemoveElement
<1>9. IsFiniteSet(K) /\ Cardinality(K) <= Cardinality(L \ {o})
  BY <1>6, <1>8, FS_Subset
<1>10. IsFiniteSet(D) /\ Cardinality(D) <= Cardinality(C)
  BY <1>2, <1>6, FS_Subset
<1>11. Cardinality(D) \in Nat /\ Cardinality(K) \in Nat
  BY <1>9, <1>10, FS_CardinalityType
<1>12. QED
  BY <1>1, <1>2, <1>3, <1>4, <1>8, <1>9, <1>10, <1>11
\* A late handler that another takes the place of.
LEMMA SwapIsAffordable ==
    ASSUME IInv, IsFiniteSet(orphans), UNCHANGED stops,
           NEW q \in Queues, NEW e \in Events, NEW i \in EffectsOf(q),
           Affordable(q, e, i), effects'[q][e][i] = effects[q][e][i],
           Chances(q, e, i)' \subseteq Chances(q, e, i),
           NEW o \in Late(q, e, i), NEW x, Late(q, e, i)' \subseteq (Late(q, e, i) \ {o}) \cup {x}
    PROVE  Affordable(q, e, i)'
<1> DEFINE C == Chances(q, e, i)
           L == Late(q, e, i)
           D == Chances(q, e, i)'
           K == Late(q, e, i)'
           n == effects[q][e][i]
<1>1. stops \in Nat /\ n \in Nat
  BY DEF IInv, TypeOK
<1>2. IsFiniteSet(C) /\ Cardinality(C) \in Nat /\ IsFiniteSet(L) /\ Cardinality(L) \in Nat
  BY ChancesFinite, LateFinite DEF IInv
<1>3. Most(stops) \in Nat
  BY <1>1, MostGrows
<1>4. n + Cardinality(C) + Cardinality(L) <= Most(stops)
  BY DEF Affordable
<1>5. Most(stops)' = Most(stops)
  BY DEF Most
<1>6. o \in L /\ D \in SUBSET C /\ K \in SUBSET ((L \ {o}) \cup {x})
  OBVIOUS
<1>7. SUFFICES n + Cardinality(D) + Cardinality(K) <= Most(stops)
  BY <1>5 DEF Affordable
<1> HIDE DEF C, L, D, K, n
<1>8. IsFiniteSet(L \ {o}) /\ Cardinality(L \ {o}) = Cardinality(L) - 1
  BY <1>2, <1>6, FS_RemoveElement
<1>9. /\ IsFiniteSet((L \ {o}) \cup {x})
      /\ Cardinality((L \ {o}) \cup {x})
           = IF x \in L \ {o} THEN Cardinality(L \ {o}) ELSE Cardinality(L \ {o}) + 1
  BY <1>8, FS_AddElement
<1>10. IsFiniteSet(K) /\ Cardinality(K) <= Cardinality((L \ {o}) \cup {x})
  BY <1>6, <1>9, FS_Subset
<1>11. IsFiniteSet(D) /\ Cardinality(D) <= Cardinality(C)
  BY <1>2, <1>6, FS_Subset
<1>12. Cardinality(D) \in Nat /\ Cardinality(K) \in Nat
  BY <1>10, <1>11, FS_CardinalityType
<1>13. QED
  BY <1>1, <1>2, <1>3, <1>4, <1>8, <1>9, <1>10, <1>11, <1>12

LEMMA PublishSpends == ASSUME IInv, SpentInv, NEW e \in Events, Publish(e) PROVE SpentInv'
<1> DEFINE m == [event |-> e, copy |-> 0, retry |-> 0]
           q == QueueOf(e)
<1>1. /\ m \in Message /\ m.event = e /\ m.copy = 0 /\ m.retry = 0
      /\ q \in Queues /\ e \in unpublished /\ stops \in Nat
  BY BoundsAreNatural DEF Message, QueueOf, Queues, Publish, IInv, TypeOK
<1> HIDE DEF m, q
<1>2. /\ ready' = Routed(m) /\ unpublished' = unpublished \ {e}
      /\ UNCHANGED <<slot, orphans, dead, done, effects, skipped, attempts, stops>>
  BY DEF Publish, m
<1>3. /\ \A p \in Queues : p = q <=> p \in BoundTo(m.event)
      /\ ready'[q] = ready[q] \cup {m}
      /\ \A p \in Queues \ {q} : ready'[p] = ready[p]
  BY <1>1, <1>2, OwnQueue DEF Routed, q
<1>4. \A p \in Queues, f \in Events : \A i \in EffectsOf(p), c \in Nat, k \in Nat :
        Chance(p, f, i, c, k)' =>
          Chance(p, f, i, c, k) \/ (p = q /\ f = e /\ c = 0)
  BY <1>1, <1>2, <1>3 DEF Chance, Held
<1>5. ASSUME NEW p \in Queues, NEW f \in Events, NEW i \in EffectsOf(p)
      PROVE  Affordable(p, f, i)'
  <2>1. Affordable(p, f, i) /\ IsFiniteSet(orphans) /\ effects'[p][f][i] = effects[p][f][i]
    BY <1>2 DEF SpentInv
  <2>2. Late(p, f, i)' = Late(p, f, i)
    BY <1>2 DEF Late
  <2>3. CASE ~(p = q /\ f = e)
    <3>1. Chances(p, f, i)' \subseteq Chances(p, f, i)
      BY <1>2, <1>4, <2>3 DEF Chances
    <3>2. QED
      BY <1>2, <2>1, <2>2, <3>1, LessIsAffordable
  <2>4. CASE p = q /\ f = e
    <3>1. effects'[p][f][i] = 0
      BY <1>1, <2>1, <2>4 DEF SpentInv
    <3>2. \A c, k \in Nat : ~Chance(p, f, i, c, k)
      BY <1>1, <2>4 DEF Chance, IInv, OwnInv, Owned, Gathered
    <3>3. \A t \in Chances(p, f, i)' : \E k \in 0..MaxRetries : t = <<0, k>>
      BY <1>2, <1>4, <3>2 DEF Chances
    <3>4. /\ Cardinality(Chances(p, f, i)') \in Nat
          /\ Cardinality(Chances(p, f, i)') <= MaxRetries + 1
      <4>1. MaxRetries + 1 - 0 = MaxRetries + 1
        BY BoundsAreNatural
      <4>2. QED
        BY <3>3, <4>1, RetriesCounted
    <3>5. Late(p, f, i) = {}
      BY <1>1, <2>4 DEF Late, IInv, OwnInv, Owned
    <3>6. Cardinality(Late(p, f, i)') = 0
      BY <2>2, <3>5, FS_EmptySet
    <3>7. Most(stops)' = Most(stops) /\ Most(stops) >= MaxRetries + 1 /\ Most(stops) \in Nat
      BY <1>1, <1>2, MostIsEnough, MostGrows DEF Most
    <3> DEFINE n == Cardinality(Chances(p, f, i)')
    <3>8. effects'[p][f][i] + n + Cardinality(Late(p, f, i)') <= Most(stops)
      <4>1. n \in Nat /\ n <= MaxRetries + 1 /\ MaxRetries \in Nat
        BY <3>4, BoundsAreNatural
      <4> HIDE DEF n
      <4>2. QED
        BY <3>1, <3>6, <3>7, <4>1
    <3>9. QED
      BY <3>7, <3>8 DEF Affordable
  <2>5. QED
    BY <2>3, <2>4
<1>6. IsFiniteSet(orphans') /\ \A p : EffectsOf(p)' = EffectsOf(p)
  BY <1>2 DEF SpentInv, EffectsOf
<1>7. QED
  BY <1>2, <1>5, <1>6 DEF SpentInv

\* What Apply does to the counts.
LEMMA AppliedCounts ==
    ASSUME TypeOK, NEW q \in Queues, NEW e \in Events, NEW j \in EffectsOf(q), Apply(q, e, j),
           NEW p \in Queues, NEW f \in Events, NEW i \in EffectsOf(p)
    PROVE  \/ effects'[p][f][i] = effects[p][f][i]
           \/ p = q /\ f = e /\ i = j /\ effects'[p][f][i] = effects[p][f][i] + 1
<1>1. CASE UNCHANGED effects
  BY <1>1
<1>2. CASE effects' = [effects EXCEPT ![q][e][j] = @ + 1]
  <2>1. DOMAIN effects = Queues /\ effects[p] \in [Events -> [EffectsOf(p) -> Nat]]
        /\ effects[q] \in [Events -> [EffectsOf(q) -> Nat]]
    BY DEF TypeOK
  <2>2. DOMAIN effects[q] = Events /\ DOMAIN effects[q][e] = EffectsOf(q)
    BY <2>1
  <2> DEFINE g == [effects[q][e] EXCEPT ![j] = @ + 1]
             h == [effects[q] EXCEPT ![e] = g]
  <2>3. effects' = [effects EXCEPT ![q] = h]
    BY <1>2
  <2>4. \A k \in EffectsOf(q) : g[k] = IF k = j THEN effects[q][e][k] + 1 ELSE effects[q][e][k]
    BY <2>2
  <2> HIDE DEF g
  <2>5. \A d \in Events : h[d] = IF d = e THEN g ELSE effects[q][d]
    BY <2>2
  <2> HIDE DEF h
  <2>6. \A r \in Queues : effects'[r] = IF r = q THEN h ELSE effects[r]
    BY <2>1, <2>3
  <2>7. QED
    BY <2>4, <2>5, <2>6
<1>3. QED
  BY <1>1, <1>2 DEF Apply

\* What a step of the consumer has in hand.
LEMMA InHand ==
    ASSUME IInv, NEW q \in Queues, NEW s \in Slots,
           slot[q][s].step = "handling" \/ slot[q][s].step = "waiting"
    PROVE  \E m \in Message : s \in Held(q) /\ slot[q][s].msg = m /\ m.event \in Events
                              /\ m.copy \in Nat /\ m.retry \in 0..MaxRetries
<1>1. s \in Held(q) /\ slot[q][s].msg \in Message
  BY SlotTypes DEF IInv
<1>2. QED
  BY <1>1, MessageTypes

LEMMA DeliverSpends ==
    ASSUME IInv, SpentInv, NEW q \in Queues, NEW s \in Slots, NEW m \in ready[q],
           Deliver(q, s, m)
    PROVE  SpentInv'
<1>1. /\ m \in Message /\ m.retry \in Nat /\ Placed(q, s, Handling(m, 1))
      /\ ready' = [ready EXCEPT ![q] = @ \ {m}]
      /\ UNCHANGED <<unpublished, orphans, dead, done, effects, skipped, stops>>
  BY MessageTypes, BoundsAreNatural DEF IInv, TypeOK, Deliver, Placed
<1> DEFINE w == Handling(m, 1)
<1>2. w \in Works \cup {Free} /\ w.msg = m /\ w.next = 1 /\ Placed(q, s, w)
  <2>1. 1 \in Nat \ {0}
    OBVIOUS
  <2>2. QED
    BY <1>1, <2>1, WorkMade
<1> HIDE DEF w
<1>3. \A p \in Queues : \A n \in ready'[p] : n \in ready[p]
  BY <1>1 DEF IInv, TypeOK
<1>4. \A e \in Events : \A i \in EffectsOf(q), c \in Nat, k \in Nat :
        /\ w.msg.event = e /\ w.msg.copy = c
        /\ \/ w.msg.retry < k
           \/ w.step = "handling" /\ w.next <= i /\ w.msg.retry = k
        => Chance(q, e, i, c, k)
  BY <1>1, <1>2 DEF Chance
<1>5. QED
  BY <1>1, <1>2, <1>3, <1>4, PlacedSpends

LEMMA AckSpends ==
    ASSUME IInv, SpentInv, NEW q \in Queues, NEW s \in Slots, Ack(q, s) PROVE SpentInv'
<1>1. /\ Placed(q, s, Free) /\ Free \in Works \cup {Free} /\ ready' = ready
      /\ UNCHANGED <<stops, effects, unpublished, orphans>>
  BY DEF Ack, Placed
<1>2. QED
  BY <1>1, PlacedSpends

LEMMA FailSpends ==
    ASSUME IInv, SpentInv, NEW q \in Queues, NEW s \in Slots, Fail(q, s) PROVE SpentInv'
<1>1. slot[q][s].step = "handling" /\ ready' = ready
      /\ UNCHANGED <<stops, effects, unpublished, orphans>>
  BY DEF Fail
<1>2. PICK m \in Message : s \in Held(q) /\ slot[q][s].msg = m
  BY <1>1, InHand
<1>3. CASE Exhausted(m)
  <2>1. Placed(q, s, Free) /\ Free \in Works \cup {Free}
    BY <1>2, <1>3 DEF Fail, Placed
  <2>2. QED
    BY <1>1, <2>1, PlacedSpends
<1>4. CASE ~Exhausted(m)
  <2> DEFINE w == Waiting(m)
  <2>1. Placed(q, s, w)
    BY <1>2, <1>4 DEF Fail, Placed
  <2>2. w \in Works \cup {Free} /\ w.msg = m /\ w.step = "waiting"
    BY <1>2, WorkMade
  <2> HIDE DEF w
  <2>3. \A e \in Events : \A i \in EffectsOf(q), c \in Nat, k \in Nat :
          /\ w.msg.event = e /\ w.msg.copy = c
          /\ \/ w.msg.retry < k
             \/ w.step = "handling" /\ w.next <= i /\ w.msg.retry = k
          => Chance(q, e, i, c, k)
    BY <1>2, <2>2 DEF Chance
  <2>4. QED
    BY <1>1, <2>1, <2>2, <2>3, PlacedSpends
<1>5. QED
  BY <1>3, <1>4

\* What a retry puts into the queue of its event.
LEMMA RetriedIs ==
    ASSUME NEW m \in Message
    PROVE  /\ Retried(m).event = m.event /\ Retried(m).copy = m.copy
           /\ Retried(m).retry = m.retry + 1
  BY DEF Retried, Message

LEMMA Retries ==
    ASSUME IInv, NEW q \in Queues, NEW s \in Slots, Retry(q, s)
    PROVE  \E m \in Message :
             /\ s \in Held(q) /\ slot[q][s].msg = m /\ Placed(q, s, Free)
             /\ \A p \in Queues : \A n \in ready'[p] :
                  \/ n \in ready[p]
                  \/ p = q /\ n.event = m.event /\ n.copy = m.copy /\ n.retry = m.retry + 1
             /\ UNCHANGED <<stops, effects, unpublished, orphans, dead, attempts>>
<1>1. slot[q][s].step = "waiting" /\ Placed(q, s, Free)
      /\ UNCHANGED <<stops, effects, unpublished, orphans, dead, attempts>>
  BY DEF Retry, Placed
<1>2. PICK m \in Message : s \in Held(q) /\ slot[q][s].msg = m
  BY <1>1, InHand
<1>3. q = QueueOf(m.event) /\ m.event \in Events
  BY <1>2, MessageTypes DEF IInv, OwnInv, Owned
<1> DEFINE n == Retried(m)
<1>4. n.event = m.event /\ n.copy = m.copy /\ n.retry = m.retry + 1
  BY RetriedIs
<1>5. ready' = Routed(n)
  BY <1>2 DEF Retry
<1> HIDE DEF n
<1>6. \A p \in Queues : p \in BoundTo(n.event) <=> p = q
  BY <1>3, <1>4, OwnQueue
<1>7. \A p \in Queues : \A x \in ready'[p] : x \in ready[p] \/ (p = q /\ x = n)
  BY <1>5, <1>6 DEF Routed
<1>8. QED
  BY <1>1, <1>2, <1>4, <1>7

LEMMA RetrySpends ==
    ASSUME IInv, SpentInv, NEW q \in Queues, NEW s \in Slots, Retry(q, s) PROVE SpentInv'
<1>1. PICK m \in Message :
        /\ s \in Held(q) /\ slot[q][s].msg = m /\ Placed(q, s, Free)
        /\ \A p \in Queues : \A n \in ready'[p] :
             \/ n \in ready[p]
             \/ p = q /\ n.event = m.event /\ n.copy = m.copy /\ n.retry = m.retry + 1
        /\ UNCHANGED <<stops, effects, unpublished, orphans, dead, attempts>>
  BY Retries
<1>2. m.retry \in Nat
  BY MessageTypes, BoundsAreNatural
<1>3. \A p \in Queues : \A n \in ready'[p] : n \notin ready[p] =>
        \A e \in Events : \A i \in EffectsOf(p), c \in Nat, k \in Nat :
           n.event = e /\ n.copy = c /\ n.retry <= k => Chance(p, e, i, c, k)
  BY <1>1, <1>2 DEF Chance
<1>4. Free \in Works \cup {Free}
  OBVIOUS
<1>5. QED
  BY <1>1, <1>3, <1>4, PlacedSpends

\* The handler that applies an effect uses up the chance it had.
LEMMA HandleSpends ==
    ASSUME IInv, SpentInv, NEW q \in Queues, NEW s \in Slots, Handle(q, s) PROVE SpentInv'
<1>1. slot[q][s].step = "handling"
      /\ UNCHANGED <<unpublished, ready, orphans, dead, done, attempts, stops>>
  BY DEF Handle
<1>2. PICK m \in Message : s \in Held(q) /\ slot[q][s].msg = m /\ m.event \in Events
                           /\ m.copy \in Nat /\ m.retry \in 0..MaxRetries
  BY <1>1, InHand
<1>3. PICK j \in EffectsOf(q) :
        /\ slot[q][s].next = j /\ Apply(q, m.event, j) /\ Placed(q, s, Handling(m, j + 1))
  <2>1. slot[q][s].next \in EffectsOf(q)
    BY DEF Handle, Apply
  <2>2. QED
    BY <1>2, <2>1 DEF Handle, Placed
<1>4. \A p \in Queues : EffectsOf(p) \subseteq Nat \ {0}
  BY BoundsAreNatural DEF EffectsOf
<1> DEFINE w == Handling(m, j + 1)
           t == <<m.copy, m.retry>>
<1>5. /\ w \in Works \cup {Free} /\ w.msg = m /\ w.next = j + 1 /\ w.step = "handling"
      /\ w # Free /\ Placed(q, s, w)
  <2>1. j + 1 \in Nat \ {0}
    BY <1>4
  <2>2. QED
    BY <1>3, <2>1, WorkMade
<1> HIDE DEF w
<1>6. \A p \in Queues, e \in Events : \A i \in EffectsOf(p), c \in Nat, k \in Nat :
        Chance(p, e, i, c, k)' => Chance(p, e, i, c, k)
  <2> SUFFICES ASSUME NEW p \in Queues, NEW e \in Events, NEW i \in EffectsOf(p),
                      NEW c \in Nat, NEW k \in Nat, Chance(p, e, i, c, k)'
               PROVE  Chance(p, e, i, c, k)
    OBVIOUS
  <2>1. \/ Chance(p, e, i, c, k)
        \/ /\ p = q /\ w # Free /\ w.msg.event = e /\ w.msg.copy = c
           /\ \/ w.msg.retry < k
              \/ w.step = "handling" /\ w.next <= i /\ w.msg.retry = k
    BY <1>1, <1>5, PlacedChances
  <2>2. i \in Nat /\ j \in Nat
    BY <1>4
  <2>3. QED
    BY <1>1, <1>2, <1>3, <1>5, <2>1, <2>2 DEF Chance
<1>7. \A p \in Queues, e \in Events : \A i \in EffectsOf(p) :
        /\ Chances(p, e, i)' \subseteq Chances(p, e, i)
        /\ Late(p, e, i)' \subseteq Late(p, e, i)
  BY <1>1, <1>6 DEF Chances, Late
<1>8. t \in Chances(q, m.event, j)
  <2>1. Chance(q, m.event, j, m.copy, m.retry)
    BY <1>1, <1>2, <1>3, <1>4 DEF Chance
  <2>2. m.copy \in 0..stops
    BY <1>2 DEF IInv, OwnInv, Owned, TypeOK
  <2>3. QED
    BY <1>2, <2>1, <2>2 DEF Chances
<1>9. t \notin Chances(q, m.event, j)'
  <2>1. \A n \in ready'[q] : ~Same(m, n)
    BY <1>1, <1>2 DEF IInv, OneInv, Gathered
  <2>2. \A u \in Held(q)' : u # s => slot'[q][u] = slot[q][u] /\ ~Same(slot'[q][u].msg, m)
    <3>1. TypeOK
      BY DEF IInv
    <3>2. \A u \in Slots : u # s => slot'[q][u] = slot[q][u]
      BY <1>5, <3>1, SlotPlaced
    <3>3. \A u \in Held(q)' : u # s => u \in Held(q)
      BY <3>2 DEF Held
    <3>4. QED
      BY <1>2, <3>2, <3>3 DEF IInv, OneInv, Held
  <2>3. slot'[q][s] = w
    <3>1. TypeOK
      BY DEF IInv
    <3>2. QED
      BY <1>5, <3>1, SlotPlaced
  <2>4. ~(w.msg.retry < m.retry) /\ ~(w.next <= j)
    BY <1>2, <1>4, <1>5
  <2>5. ~Chance(q, m.event, j, m.copy, m.retry)'
    BY <2>1, <2>2, <2>3, <2>4 DEF Chance, Same
  <2>6. QED
    BY <2>5 DEF Chances
<1>10. ASSUME NEW p \in Queues, NEW e \in Events, NEW i \in EffectsOf(p)
       PROVE  Affordable(p, e, i)'
  <2>1. /\ Affordable(p, e, i) /\ IsFiniteSet(orphans) /\ UNCHANGED stops
        /\ Chances(p, e, i)' \subseteq Chances(p, e, i)
        /\ Late(p, e, i)' \subseteq Late(p, e, i)
    BY <1>1, <1>7 DEF SpentInv
  <2>2. CASE effects'[p][e][i] = effects[p][e][i]
    BY <2>1, <2>2, LessIsAffordable
  <2>3. CASE p = q /\ e = m.event /\ i = j /\ effects'[p][e][i] = effects[p][e][i] + 1
    <3>1. t \in Chances(p, e, i) /\ Chances(p, e, i)' \subseteq Chances(p, e, i) \ {t}
      BY <1>8, <1>9, <2>1, <2>3
    <3>2. QED
      BY <2>1, <2>3, <3>1, ChancePays
  <2>4. QED
    BY <1>2, <1>3, <2>2, <2>3, AppliedCounts DEF IInv
<1>11. \A p \in Queues, e \in Events : \A i \in EffectsOf(p) :
         e \in unpublished' => effects'[p][e][i] = 0
  <2>1. m.event \notin unpublished
    BY <1>2 DEF IInv, OwnInv, Owned
  <2>2. QED
    BY <1>1, <1>2, <1>3, <2>1, AppliedCounts DEF IInv, SpentInv
<1>12. IsFiniteSet(orphans') /\ \A p : EffectsOf(p)' = EffectsOf(p)
  BY <1>1 DEF SpentInv, EffectsOf
<1>13. QED
  BY <1>10, <1>11, <1>12 DEF SpentInv

\* A handler of a closed channel that applies an effect is not late for it any
\* more.
LEMMA HandleOrphanSpends ==
    ASSUME IInv, SpentInv, NEW o \in orphans, HandleOrphan(o) PROVE SpentInv'
<1>1. PICK q \in Queues, m \in Message, j \in Nat :
        /\ j \in EffectsOf(q)
        /\ o.queue = q /\ o.work.msg = m /\ o.work.next = j /\ o.work.step = "handling"
        /\ Apply(q, m.event, j)
        /\ orphans' = (orphans \ {o}) \cup {[o EXCEPT !.work = Handling(m, j + 1)]}
  <2>1. o.queue \in Queues /\ o.work.msg \in Message
    BY DEF IInv, TypeOK, Works
  <2>2. o.work.next \in EffectsOf(o.queue)
    BY DEF HandleOrphan, Apply
  <2>3. \A p : EffectsOf(p) \subseteq Nat
    BY BoundsAreNatural DEF EffectsOf
  <2>4. QED
    BY <2>1, <2>2, <2>3 DEF HandleOrphan
<1>2. UNCHANGED <<unpublished, ready, slot, dead, done, attempts, stops>>
  BY DEF HandleOrphan
<1>3. \A p \in Queues : EffectsOf(p) \subseteq Nat \ {0}
  BY BoundsAreNatural DEF EffectsOf
<1>4. PICK x : /\ orphans' = (orphans \ {o}) \cup {x}
               /\ x.queue = q /\ x.work.msg = m /\ x.work.next = j + 1
  <2>1. o \in OrphanTypes
    BY DEF IInv, TypeOK, OrphanTypes
  <2>2. [o EXCEPT !.work = Handling(m, j + 1)]
          = [queue |-> q, since |-> o.since, work |-> Handling(m, j + 1)]
    BY <1>1, <2>1 DEF OrphanTypes
  <2>3. j + 1 \in Nat \ {0}
    BY <1>3
  <2>4. Handling(m, j + 1).msg = m /\ Handling(m, j + 1).next = j + 1
    BY <2>3, WorkMade
  <2>5. QED
    BY <1>1, <2>2, <2>4
<1>5. m.event \in Events /\ m.event \notin unpublished
  BY <1>1, MessageTypes DEF IInv, OwnInv, Owned
<1>6. \A p \in Queues, e \in Events : \A i \in EffectsOf(p) :
        Chances(p, e, i)' \subseteq Chances(p, e, i)
  BY <1>2 DEF Chances, Chance, Held
<1>7. ASSUME NEW p \in Queues, NEW e \in Events, NEW i \in EffectsOf(p)
      PROVE  /\ x \notin Late(p, e, i)' => Late(p, e, i)' \subseteq Late(p, e, i) \ {o}
             /\ Late(p, e, i)' \subseteq (Late(p, e, i) \ {o}) \cup {x}
             /\ x \in Late(p, e, i)' => o \in Late(p, e, i)
             /\ p = q /\ e = m.event /\ i = j =>
                  x \notin Late(p, e, i)' /\ o \in Late(p, e, i)
  <2>1. i \in Nat /\ j \in Nat
    BY <1>3
  <2>2. /\ x.work.next <= i => o.work.next <= i
        /\ i = j => ~(x.work.next <= i) /\ o.work.next <= i
    BY <1>1, <1>4, <2>1
  <2>3. \A y \in Late(p, e, i)' : y = x \/ (y \in Late(p, e, i) /\ y # o)
    BY <1>4 DEF Late
  <2>4. /\ x \in Late(p, e, i)' => o \in Late(p, e, i)
        /\ p = q /\ e = m.event /\ i = j =>
             x \notin Late(p, e, i)' /\ o \in Late(p, e, i)
    BY <1>1, <1>4, <2>2 DEF Late
  <2>5. QED
    BY <2>3, <2>4
<1>8. ASSUME NEW p \in Queues, NEW e \in Events, NEW i \in EffectsOf(p)
      PROVE  Affordable(p, e, i)'
  <2>1. /\ Affordable(p, e, i) /\ IsFiniteSet(orphans) /\ UNCHANGED stops
        /\ Chances(p, e, i)' \subseteq Chances(p, e, i)
    BY <1>2, <1>6 DEF SpentInv
  <2>2. CASE effects'[p][e][i] = effects[p][e][i]
    <3>1. CASE x \notin Late(p, e, i)'
      <4>1. Late(p, e, i)' \subseteq Late(p, e, i)
        BY <1>7, <3>1
      <4>2. QED
        BY <2>1, <2>2, <4>1, LessIsAffordable
    <3>2. CASE x \in Late(p, e, i)'
      <4>1. /\ o \in Late(p, e, i)
            /\ Late(p, e, i)' \subseteq (Late(p, e, i) \ {o}) \cup {x}
        BY <1>7, <3>2
      <4>2. QED
        BY <2>1, <2>2, <4>1, SwapIsAffordable
    <3>3. QED
      BY <3>1, <3>2
  <2>3. CASE p = q /\ e = m.event /\ i = j /\ effects'[p][e][i] = effects[p][e][i] + 1
    <3>1. o \in Late(p, e, i) /\ Late(p, e, i)' \subseteq Late(p, e, i) \ {o}
      BY <1>7, <2>3
    <3>2. QED
      BY <2>1, <2>3, <3>1, LatePays
  <2>4. QED
    BY <1>1, <1>5, <2>2, <2>3, AppliedCounts DEF IInv
<1>9. \A p \in Queues, e \in Events : \A i \in EffectsOf(p) :
        e \in unpublished' => effects'[p][e][i] = 0
  BY <1>1, <1>2, <1>5, AppliedCounts DEF IInv, SpentInv
<1>10. IsFiniteSet(orphans') /\ \A p : EffectsOf(p)' = EffectsOf(p)
  <2>1. IsFiniteSet(orphans)
    BY DEF SpentInv
  <2>2. IsFiniteSet(orphans \ {o})
    BY <2>1, FS_RemoveElement
  <2>3. IsFiniteSet((orphans \ {o}) \cup {x})
    BY <2>2, FS_AddElement
  <2>4. QED
    BY <1>4, <2>3 DEF EffectsOf
<1>11. QED
  BY <1>8, <1>9, <1>10 DEF SpentInv

LEMMA FailOrphanSpends ==
    ASSUME IInv, SpentInv, NEW o \in orphans, FailOrphan(o) PROVE SpentInv'
<1>1. /\ orphans' = (orphans \ {o}) \cup {[o EXCEPT !.work = Waiting(o.work.msg)]}
      /\ UNCHANGED <<unpublished, ready, slot, effects, stops>>
  BY DEF FailOrphan
<1>2. PICK x : orphans' = (orphans \ {o}) \cup {x} /\ x.work.step = "waiting"
  <2>1. o \in OrphanTypes /\ o.work.msg \in Message
    BY DEF IInv, TypeOK, OrphanTypes, Works
  <2>2. [o EXCEPT !.work = Waiting(o.work.msg)]
          = [queue |-> o.queue, since |-> o.since, work |-> Waiting(o.work.msg)]
    BY <2>1 DEF OrphanTypes
  <2>3. Waiting(o.work.msg).step = "waiting"
    BY <2>1, WorkMade
  <2>4. QED
    BY <1>1, <2>2, <2>3
<1>3. \A q \in Queues, e \in Events : \A i \in EffectsOf(q) :
        /\ Chances(q, e, i)' \subseteq Chances(q, e, i)
        /\ Late(q, e, i)' \subseteq Late(q, e, i)
  BY <1>1, <1>2 DEF Chances, Chance, Held, Late
<1>4. IsFiniteSet(orphans')
  <2>1. IsFiniteSet(orphans)
    BY DEF SpentInv
  <2>2. IsFiniteSet(orphans \ {o})
    BY <2>1, FS_RemoveElement
  <2>3. IsFiniteSet((orphans \ {o}) \cup {x})
    BY <2>2, FS_AddElement
  <2>4. QED
    BY <1>2, <2>3
<1>5. UNCHANGED <<stops, effects, unpublished>>
  BY <1>1
<1>6. QED
  BY <1>3, <1>4, <1>5, SpentStays

\* Closing the channels gives, for each delivery under way, a late handler or a
\* chance more, and the retries of one copy.
LEMMA CloseCounts ==
    ASSUME IInv, SpentInv, NEW r, Fits(r), Close(r), IsFiniteSet(orphans'),
           \A q \in Queues : \A m \in More(r, q) : m.retry \in 1..MaxRetries,
           \A x \in orphans' : x \in orphans
             \/ \E p \in Queues : \E s \in Held(p) : x = Orphan(p, s),
           NEW q \in Queues, NEW e \in Events, NEW i \in EffectsOf(q)
    PROVE  Affordable(q, e, i)'
<1> DEFINE H == HeldOf(q, e)
           A == {s \in H : slot[q][s].step = "handling" /\ slot[q][s].next <= i}
           B == H \ A
           f == [s \in Slots |-> <<slot[q][s].msg.copy, slot[q][s].msg.retry>>]
           g == [s \in Slots |-> Orphan(q, s)]
           N == {f[s] : s \in B}
           O == {g[s] : s \in A}
           C == Chances(q, e, i)
           L == Late(q, e, i)
           D == Chances(q, e, i)'
           K == Late(q, e, i)'
           X == {t \in D : t[1] = stops + 1}
           n == effects[q][e][i]
<1>1. /\ stops \in Nat /\ stops' = stops + 1 /\ n \in Nat /\ MaxRetries \in Nat
      /\ slot' = [p \in Queues |-> [s \in Slots |-> Free]]
      /\ ready' = [p \in Queues |-> r[p] \cup Back(p)]
      /\ UNCHANGED <<unpublished, effects>>
  BY BoundsAreNatural DEF Back, Close, IInv, TypeOK
<1>2. Held(q)' = {}
  BY <1>1 DEF Held
<1>3. ready'[q] = ready[q] \cup More(r, q) \cup Back(q)
  BY <1>1 DEF Back, More, Fits
<1>4. \A c, k \in Nat : Chance(q, e, i, c, k)' =>
        \E m \in ready'[q] : m.event = e /\ m.copy = c /\ m.retry <= k
  BY <1>2 DEF Chance
<1>5. \A t \in D : t \in C \/ t \in N \/ t \in X
  <2> SUFFICES ASSUME NEW t \in D PROVE t \in C \/ t \in N \/ t \in X
    OBVIOUS
  <2>1. PICK c \in 0..(stops + 1), k \in 0..MaxRetries :
          t = <<c, k>> /\ Chance(q, e, i, c, k)'
    BY <1>1 DEF Chances
  <2>2. PICK m \in ready'[q] : m.event = e /\ m.copy = c /\ m.retry <= k
    BY <1>1, <1>4, <2>1
  <2>3. CASE m \in ready[q]
    <3>1. c \in 0..stops
      BY <1>1, <2>1, <2>2, <2>3 DEF IInv, OwnInv, Owned, Gathered
    <3>2. Chance(q, e, i, c, k)
      BY <2>2, <2>3 DEF Chance
    <3>3. QED
      BY <2>1, <3>1, <3>2 DEF Chances
  <2>4. CASE m \in More(r, q)
    BY <2>1, <2>2, <2>4 DEF Fits
  <2>5. CASE m \in Back(q)
    <3>1. PICK s \in Held(q) : m = slot[q][s].msg
      BY <2>5 DEF Back
    <3>2. s \in H /\ s \in Slots /\ m \in Message
      BY <2>2, <3>1, SlotTypes DEF HeldOf, Held, IInv
    <3>3. c \in 0..stops /\ m.retry \in Nat
      BY <1>1, <2>1, <2>2, <3>1, <3>2, MessageTypes DEF IInv, OwnInv, Owned
    <3>4. CASE s \in A \/ m.retry < k
      <4>1. k \in Nat
        BY <1>1, <2>1
      <4>2. m.retry < k \/ (slot[q][s].step = "handling" /\ slot[q][s].next <= i /\ m.retry = k)
        BY <2>2, <3>1, <3>3, <3>4, <4>1
      <4>3. Chance(q, e, i, c, k)
        BY <2>2, <3>1, <4>2 DEF Chance
      <4>4. QED
        BY <2>1, <3>3, <4>3 DEF Chances
    <3>5. CASE s \in B /\ m.retry = k
      BY <2>1, <2>2, <3>1, <3>2, <3>5
    <3>6. QED
      <4>1. k \in Nat
        BY <1>1, <2>1
      <4>2. m.retry < k \/ m.retry = k
        BY <2>2, <3>3, <4>1
      <4>3. QED
        BY <3>2, <3>4, <3>5, <4>2
  <2>6. QED
    BY <1>3, <2>3, <2>4, <2>5
<1>6. \A o \in K : o \in L \/ o \in O
  <2> SUFFICES ASSUME NEW o \in K PROVE o \in L \/ o \in O
    OBVIOUS
  <2>1. o \in orphans' /\ o.queue = q /\ o.work.msg.event = e /\ o.work.step = "handling"
        /\ o.work.next <= i
    BY DEF Late
  <2>2. CASE o \in orphans
    BY <2>1, <2>2 DEF Late
  <2>3. CASE \E p \in Queues : \E s \in Held(p) : o = Orphan(p, s)
    <3>1. PICK p \in Queues, s \in Slots : s \in Held(p) /\ o = Orphan(p, s)
      BY <2>3 DEF Held
    <3>2. p = q /\ o.work = slot[q][s]
      BY <2>1, <3>1 DEF Orphan
    <3>3. s \in A
      BY <2>1, <3>1, <3>2 DEF HeldOf
    <3>4. QED
      BY <3>1, <3>2, <3>3
  <2>4. QED
    BY <2>1, <2>2, <2>3
<1>7. \A t \in X : \E k \in 1..MaxRetries : t = <<stops + 1, k>>
  <2> SUFFICES ASSUME NEW t \in X PROVE \E k \in 1..MaxRetries : t = <<stops + 1, k>>
    OBVIOUS
  <2>1. PICK c \in 0..(stops + 1), k \in 0..MaxRetries :
          t = <<c, k>> /\ Chance(q, e, i, c, k)'
    BY <1>1 DEF Chances
  <2>2. c = stops + 1 /\ c \in Nat /\ k \in Nat
    BY <1>1, <2>1
  <2>3. PICK m \in ready'[q] : m.event = e /\ m.copy = stops + 1 /\ m.retry <= k
    BY <1>4, <2>1, <2>2
  <2>4. m \notin ready[q]
    BY <1>1, <2>3 DEF IInv, OwnInv, Owned, Gathered
  <2>5. m \notin Back(q)
    <3>1. \A s \in Held(q) : slot[q][s].msg.copy <= stops
      BY DEF IInv, OwnInv, Owned
    <3>2. QED
      BY <1>1, <2>3, <3>1 DEF Back
  <2>6. m.retry \in 1..MaxRetries
    BY <1>3, <2>4, <2>5
  <2>7. QED
    BY <1>1, <2>1, <2>2, <2>3, <2>6
<1>8. IsFiniteSet(H) /\ Cardinality(H) \in Nat /\ Cardinality(H) <= stops + 1
  BY HeldCounted
<1>9. IsFiniteSet(C) /\ Cardinality(C) \in Nat /\ IsFiniteSet(L) /\ Cardinality(L) \in Nat
  <2>1. IsFiniteSet(orphans)
    BY DEF SpentInv
  <2>2. QED
    BY <2>1, ChancesFinite, LateFinite DEF IInv
<1>10. n + Cardinality(C) + Cardinality(L) <= Most(stops)
  BY DEF SpentInv, Affordable
<1>11. Most(stops) \in Nat /\ Most(stops)' = Most(stops) + MaxRetries + stops + 1
  <2>1. Most(stops)' = Most(stops + 1)
    BY <1>1 DEF Most
  <2>2. QED
    BY <1>1, <2>1, MostGrows
<1>12. SUFFICES n + Cardinality(D) + Cardinality(K) <= Most(stops) + MaxRetries + stops + 1
  BY <1>1, <1>11 DEF Affordable
<1>13. A \in SUBSET H /\ B \in SUBSET H /\ A \cap B = {} /\ A \cup B = H
  OBVIOUS
<1>14. X \in SUBSET D
  OBVIOUS
<1> HIDE DEF H, A, B, C, L, D, K, X, n, f, g
<1>15. /\ IsFiniteSet(A) /\ IsFiniteSet(B) /\ Cardinality(A) \in Nat /\ Cardinality(B) \in Nat
       /\ Cardinality(A) + Cardinality(B) = Cardinality(H)
  <2>1. IsFiniteSet(A) /\ IsFiniteSet(B)
    BY <1>8, <1>13, FS_Subset
  <2>2. Cardinality(A \cup B) = Cardinality(A) + Cardinality(B)
    BY <1>13, <2>1, TwoCounted
  <2>3. QED
    BY <1>13, <2>1, <2>2, FS_CardinalityType
<1>16. IsFiniteSet(N) /\ Cardinality(N) \in Nat /\ Cardinality(N) <= Cardinality(B)
  <2>1. IsFiniteSet(B)
    BY <1>15
  <2>2. IsFiniteSet(N)
    BY <2>1, ImageCounted
  <2>3. Cardinality(N) <= Cardinality(B)
    BY <2>1, ImageCounted
  <2>4. QED
    BY <2>2, <2>3, FS_CardinalityType
<1>17. IsFiniteSet(O) /\ Cardinality(O) \in Nat /\ Cardinality(O) <= Cardinality(A)
  <2>1. IsFiniteSet(A)
    BY <1>15
  <2>2. IsFiniteSet(O)
    BY <2>1, ImageCounted
  <2>3. Cardinality(O) <= Cardinality(A)
    BY <2>1, ImageCounted
  <2>4. QED
    BY <2>2, <2>3, FS_CardinalityType
<1>18. IsFiniteSet(X) /\ Cardinality(X) \in Nat /\ Cardinality(X) <= MaxRetries
  <2>1. MaxRetries + 1 - 1 = MaxRetries
    BY <1>1
  <2>2. QED
    BY <1>7, <2>1, RetriesCounted
<1> HIDE DEF N, O
<1>19. /\ IsFiniteSet(D) /\ Cardinality(D) \in Nat
       /\ Cardinality(D) <= Cardinality(C) + Cardinality(N) + Cardinality(X)
  <2>1. /\ IsFiniteSet(C \cup N) /\ Cardinality(C \cup N) \in Nat
        /\ Cardinality(C \cup N) <= Cardinality(C) + Cardinality(N)
    BY <1>9, <1>16, UnionCounted
  <2>2. /\ IsFiniteSet((C \cup N) \cup X) /\ Cardinality((C \cup N) \cup X) \in Nat
        /\ Cardinality((C \cup N) \cup X) <= Cardinality(C \cup N) + Cardinality(X)
    BY <1>18, <2>1, UnionCounted
  <2>3. D \in SUBSET ((C \cup N) \cup X)
    BY <1>5
  <2>4. IsFiniteSet(D) /\ Cardinality(D) <= Cardinality((C \cup N) \cup X)
    BY <2>2, <2>3, FS_Subset
  <2>5. Cardinality(D) \in Nat
    BY <2>4, FS_CardinalityType
  <2>6. QED
    BY <1>9, <1>16, <1>18, <2>1, <2>2, <2>4, <2>5
<1>20. Cardinality(K) \in Nat /\ Cardinality(K) <= Cardinality(L) + Cardinality(O)
  <2>1. /\ IsFiniteSet(L \cup O) /\ Cardinality(L \cup O) \in Nat
        /\ Cardinality(L \cup O) <= Cardinality(L) + Cardinality(O)
    BY <1>9, <1>17, UnionCounted
  <2>2. K \in SUBSET (L \cup O)
    BY <1>6
  <2>3. IsFiniteSet(K) /\ Cardinality(K) <= Cardinality(L \cup O)
    BY <2>1, <2>2, FS_Subset
  <2>4. Cardinality(K) \in Nat
    BY <2>3, FS_CardinalityType
  <2>5. QED
    BY <1>9, <1>17, <2>1, <2>3, <2>4
<1>21. QED
  BY <1>1, <1>8, <1>9, <1>10, <1>11, <1>15, <1>16, <1>17, <1>18, <1>19, <1>20

LEMMA CloseSpends ==
    ASSUME IInv, SpentInv, NEW r, Fits(r), Close(r), IsFiniteSet(orphans'),
           \A q \in Queues : \A m \in More(r, q) : m.retry \in 1..MaxRetries,
           \A x \in orphans' : x \in orphans
             \/ \E p \in Queues : \E s \in Held(p) : x = Orphan(p, s)
    PROVE  SpentInv'
<1>1. \A q \in Queues, e \in Events : \A i \in EffectsOf(q) : Affordable(q, e, i)'
  BY CloseCounts
<1>2. \A q \in Queues, e \in Events : \A i \in EffectsOf(q) :
        e \in unpublished' => effects'[q][e][i] = 0
  BY DEF Close, SpentInv
<1>3. \A q : EffectsOf(q)' = EffectsOf(q)
  BY DEF EffectsOf
<1>4. QED
  BY <1>1, <1>2, <1>3 DEF SpentInv

\* The copy that is left when the connection goes away inside a retry.
LEMMA HalfRetriedIs ==
    ASSUME IInv, AttemptInv, NEW q \in Queues, NEW s \in Held(q), slot[q][s].step = "waiting",
           NEW p \in Queues, NEW n \in More(HalfRetried(q, s), p)
    PROVE  n.retry \in 1..MaxRetries /\ attempts[p][n.event] >= n.retry
<1>1. PICK m \in Message : slot[q][s].msg = m /\ s \in Slots
  BY SlotTypes DEF IInv, Held
<1>2. ~Exhausted(m) /\ q = QueueOf(m.event) /\ m.event \in Events /\ m.retry \in Nat
  BY <1>1, MessageTypes, BoundsAreNatural DEF IInv, TimerInv, OwnInv, Owned
<1>3. stops + 1 \in Nat
  BY DEF IInv, TypeOK
<1> DEFINE k == [Retried(m) EXCEPT !.copy = stops + 1]
<1>4. k.event = m.event /\ k.retry = m.retry + 1
  BY DEF Retried, Message
<1>5. HalfRetried(q, s) = Routed(k)
  BY <1>1 DEF HalfRetried
<1> HIDE DEF k
<1>6. n = k /\ p = q
  <2>1. p \in BoundTo(k.event) <=> p = q
    BY <1>2, <1>4, OwnQueue
  <2>2. QED
    BY <1>5, <2>1 DEF More, Routed
<1>7. attempts[q][m.event] > m.retry /\ attempts[q][m.event] \in Nat
  BY <1>1, <1>2 DEF AttemptInv, IInv, TypeOK
<1>8. QED
  BY <1>2, <1>4, <1>6, <1>7, BoundsAreNatural DEF Exhausted

LEMMA NoMore == ASSUME NEW q PROVE More(ready, q) = {}
  BY DEF More

LEMMA CrashSpends == ASSUME IInv, SpentInv, AttemptInv, Crash PROVE SpentInv'
<1>1. orphans' = {} /\ IsFiniteSet(orphans')
  BY FS_EmptySet DEF Crash
<1>2. CASE Close(ready)
  BY <1>1, <1>2, NoMore, ReadyFits, CloseSpends
<1>3. ASSUME NEW q \in Queues, NEW s \in Held(q), slot[q][s].step = "waiting",
             Close(HalfRetried(q, s))
      PROVE  SpentInv'
  <2>1. Fits(HalfRetried(q, s))
    BY <1>3, HalfRetriedFits
  <2>2. \A p \in Queues : \A m \in More(HalfRetried(q, s), p) : m.retry \in 1..MaxRetries
    BY <1>3, HalfRetriedIs
  <2>3. QED
    BY <1>1, <1>3, <2>1, <2>2, CloseSpends
<1>4. QED
  BY <1>2, <1>3 DEF Crash

LEMMA CutSpends == ASSUME IInv, SpentInv, AttemptInv, Cut PROVE SpentInv'
<1>1. PICK on \in SUBSET {o \in Queues \X Slots : o[2] \in Held(o[1])} :
        orphans' = orphans \cup {Orphan(o[1], o[2]) : o \in on}
  BY DEF Cut
<1>2. IsFiniteSet(orphans')
  <2>1. IsFiniteSet(Queues) /\ IsFiniteSet(Slots)
    <3>1. IsFiniteSet({"audit.log"}) /\ IsFiniteSet({"notifications.telegram"})
      BY FS_Singleton
    <3>2. Queues = {"audit.log"} \cup {"notifications.telegram"}
      BY DEF Queues
    <3>3. QED
      BY <3>1, <3>2, FS_Union, BoundsAreNatural
  <2>2. IsFiniteSet(Queues \X Slots)
    BY <2>1, FS_Product
  <2>3. IsFiniteSet(on)
    <3>1. on \in SUBSET (Queues \X Slots)
      OBVIOUS
    <3>2. QED
      BY <2>2, <3>1, FS_Subset
  <2> DEFINE f == [o \in Queues \X Slots |-> Orphan(o[1], o[2])]
             O == {f[o] : o \in on}
  <2>4. orphans' = orphans \cup O
    BY <1>1
  <2> HIDE DEF f
  <2>5. IsFiniteSet(O) /\ IsFiniteSet(orphans)
    <3>1. IsFiniteSet(O)
      BY <2>3, ImageCounted
    <3>2. QED
      BY <3>1 DEF SpentInv
  <2>6. QED
    BY <2>4, <2>5, FS_Union
<1>3. \A x \in orphans' : x \in orphans
        \/ \E p \in Queues : \E s \in Held(p) : x = Orphan(p, s)
  <2>1. \A o \in on : o[1] \in Queues /\ o[2] \in Held(o[1])
    OBVIOUS
  <2>2. QED
    BY <1>1, <2>1
<1>4. CASE Close(ready)
  BY <1>2, <1>3, <1>4, NoMore, ReadyFits, CloseSpends
<1>5. ASSUME NEW q \in Queues, NEW s \in Held(q), slot[q][s].step = "waiting",
             Close(HalfRetried(q, s))
      PROVE  SpentInv'
  <2>1. Fits(HalfRetried(q, s))
    BY <1>5, HalfRetriedFits
  <2>2. \A p \in Queues : \A m \in More(HalfRetried(q, s), p) : m.retry \in 1..MaxRetries
    BY <1>5, HalfRetriedIs
  <2>3. QED
    BY <1>2, <1>3, <1>5, <2>1, <2>2, CloseSpends
<1>6. QED
  BY <1>4, <1>5 DEF Cut

LEMMA StopByOrphanSpends ==
    ASSUME IInv, SpentInv, NEW o \in orphans, StopByOrphan(o) PROVE SpentInv'
<1>1. orphans' = {} /\ IsFiniteSet(orphans') /\ Close(ready)
  BY FS_EmptySet DEF StopByOrphan
<1>2. QED
  BY <1>1, NoMore, ReadyFits, CloseSpends

-----------------------------------------------------------------------------
(* How often a message was tried.                                          *)

\* Steps that give no message to a handler.
LEMMA AttemptsStay ==
    ASSUME IInv, AttemptInv, UNCHANGED attempts,
           \A q \in Queues : \A m \in ready'[q] :
              m \in ready[q] \/ attempts[q][m.event] >= m.retry,
           \A q \in Queues : \A s \in Held(q)' :
              s \in Held(q) /\ slot'[q][s].msg = slot[q][s].msg,
           \A q \in Queues : \A m \in dead'[q] :
              m \in dead[q] \/ attempts[q][m.event] > MaxRetries
    PROVE  AttemptInv'
<1>1. \A q \in Queues : \A m \in ready'[q] : attempts'[q][m.event] >= m.retry
  BY DEF AttemptInv
<1>2. \A q \in Queues : \A s \in Held(q)' :
        attempts'[q][slot'[q][s].msg.event] > slot'[q][s].msg.retry
  BY DEF AttemptInv
<1>3. \A q \in Queues : \A m \in dead'[q] : attempts'[q][m.event] > MaxRetries
  BY DEF AttemptInv
<1>4. QED
  BY <1>1, <1>2, <1>3 DEF AttemptInv

\* What is held after a place got a delivery with the message it had, or none.
LEMMA PlacedHolds ==
    ASSUME IInv, NEW q \in Queues, NEW s \in Held(q), NEW w \in Works \cup {Free},
           w = Free \/ w.msg = slot[q][s].msg, Placed(q, s, w)
    PROVE  \A p \in Queues : \A t \in Held(p)' :
             t \in Held(p) /\ slot'[p][t].msg = slot[p][t].msg
<1>1. TypeOK /\ s \in Slots
  BY DEF IInv, Held
<1>2. /\ slot'[q][s] = w
      /\ \A p \in Queues, t \in Slots : ~(p = q /\ t = s) => slot'[p][t] = slot[p][t]
  BY <1>1, SlotPlaced
<1>3. SUFFICES ASSUME NEW p \in Queues, NEW t \in Held(p)'
               PROVE  t \in Held(p) /\ slot'[p][t].msg = slot[p][t].msg
  OBVIOUS
<1>4. t \in Slots /\ slot'[p][t] # Free
  BY DEF Held
<1>5. QED
  BY <1>2, <1>4 DEF Held

LEMMA DeliverTries ==
    ASSUME IInv, AttemptInv, NEW q \in Queues, NEW s \in Slots, NEW m \in ready[q],
           Deliver(q, s, m)
    PROVE  AttemptInv'
<1>1. /\ m \in Message /\ m.event \in Events /\ m.retry \in Nat
      /\ Placed(q, s, Handling(m, 1)) /\ UNCHANGED dead
      /\ ready' = [ready EXCEPT ![q] = @ \ {m}]
      /\ attempts' = [attempts EXCEPT ![q][m.event] = @ + 1]
  BY MessageTypes, BoundsAreNatural DEF IInv, TypeOK, Deliver, Placed
<1>2. Handling(m, 1) \in Works /\ Handling(m, 1).msg = m
  <2>1. 1 \in Nat \ {0}
    OBVIOUS
  <2>2. QED
    BY <1>1, <2>1, WorkMade
<1>3. /\ slot'[q][s] = Handling(m, 1)
      /\ \A p \in Queues, t \in Slots : ~(p = q /\ t = s) => slot'[p][t] = slot[p][t]
  <2>1. TypeOK
    BY DEF IInv
  <2>2. QED
    BY <1>1, <1>2, <2>1, SlotPlaced
<1>4. /\ \A p \in Queues, e \in Events : attempts'[p][e] >= attempts[p][e]
      /\ attempts'[q][m.event] = attempts[q][m.event] + 1
      /\ \A p \in Queues, e \in Events : attempts'[p][e] \in Nat /\ attempts[p][e] \in Nat
  <2>1. attempts \in [Queues -> [Events -> Nat]]
    BY DEF IInv, TypeOK
  <2>2. QED
    BY <1>1, <2>1
<1>5. \A p \in Queues : \A n \in ready[p] \cup dead[p] :
        n \in Message /\ n.event \in Events /\ n.retry \in Nat
  BY MessageTypes, BoundsAreNatural DEF IInv, TypeOK
<1>6. \A p \in Queues : \A n \in ready'[p] : attempts'[p][n.event] >= n.retry
  <2>1. \A p \in Queues : \A n \in ready'[p] : n \in ready[p]
    BY <1>1 DEF IInv, TypeOK
  <2>2. QED
    BY <1>4, <1>5, <2>1 DEF AttemptInv
<1>7. \A p \in Queues : \A t \in Held(p)' :
        attempts'[p][slot'[p][t].msg.event] > slot'[p][t].msg.retry
  <2> SUFFICES ASSUME NEW p \in Queues, NEW t \in Held(p)'
               PROVE  attempts'[p][slot'[p][t].msg.event] > slot'[p][t].msg.retry
    OBVIOUS
  <2>1. t \in Slots /\ slot'[p][t] # Free
    BY DEF Held
  <2>2. CASE p = q /\ t = s
    <3>1. attempts[q][m.event] >= m.retry
      BY DEF AttemptInv
    <3>2. QED
      BY <1>1, <1>2, <1>3, <1>4, <2>2, <3>1
  <2>3. CASE ~(p = q /\ t = s)
    <3>1. slot'[p][t] = slot[p][t] /\ t \in Held(p)
      BY <1>3, <2>1, <2>3 DEF Held
    <3>2. PICK n \in Message : slot[p][t].msg = n /\ n.event \in Events /\ n.retry \in Nat
      BY <2>1, <3>1, SlotTypes, MessageTypes, BoundsAreNatural DEF IInv
    <3>3. attempts[p][n.event] > n.retry
      BY <3>1, <3>2 DEF AttemptInv
    <3>4. QED
      BY <1>4, <3>1, <3>2, <3>3
  <2>4. QED
    BY <2>2, <2>3
<1>8. \A p \in Queues : \A n \in dead'[p] : attempts'[p][n.event] > MaxRetries
  <2>1. MaxRetries \in Nat
    BY BoundsAreNatural
  <2>2. QED
    BY <1>1, <1>4, <1>5, <2>1 DEF AttemptInv
<1>9. QED
  BY <1>6, <1>7, <1>8 DEF AttemptInv

LEMMA FailTries ==
    ASSUME IInv, AttemptInv, NEW q \in Queues, NEW s \in Slots, Fail(q, s) PROVE AttemptInv'
<1>1. slot[q][s].step = "handling" /\ UNCHANGED <<ready, attempts>>
  BY DEF Fail
<1>2. PICK m \in Message : s \in Held(q) /\ slot[q][s].msg = m /\ m.event \in Events
                           /\ m.retry \in 0..MaxRetries
  BY <1>1, InHand
<1>3. PICK w \in Works \cup {Free} : Placed(q, s, w) /\ (w = Free \/ w.msg = m)
  <2>1. CASE Exhausted(m)
    BY <1>2, <2>1 DEF Fail, Placed
  <2>2. CASE ~Exhausted(m)
    <3>1. Waiting(m) \in Works /\ Waiting(m).msg = m /\ Placed(q, s, Waiting(m))
      BY <1>2, <2>2, WorkMade DEF Fail, Placed
    <3>2. QED
      BY <3>1
  <2>3. QED
    BY <2>1, <2>2
<1>4. \A p \in Queues : \A t \in Held(p)' :
        t \in Held(p) /\ slot'[p][t].msg = slot[p][t].msg
  BY <1>2, <1>3, PlacedHolds
<1>5. \A p \in Queues : \A n \in dead'[p] :
        n \in dead[p] \/ attempts[p][n.event] > MaxRetries
  <2>1. CASE ~Exhausted(m)
    BY <1>2, <2>1 DEF Fail
  <2>2. CASE Exhausted(m)
    <3>1. dead' = [dead EXCEPT ![q] = @ \cup {m}]
      BY <1>2, <2>2 DEF Fail
    <3>2. \A p \in Queues : \A n \in dead'[p] : n \in dead[p] \/ (p = q /\ n = m)
      BY <3>1 DEF IInv, TypeOK
    <3>3. attempts[q][m.event] > m.retry /\ attempts[q][m.event] \in Nat
      BY <1>2 DEF AttemptInv, IInv, TypeOK
    <3>4. attempts[q][m.event] > MaxRetries
      BY <1>2, <2>2, <3>3, BoundsAreNatural DEF Exhausted
    <3>5. QED
      BY <3>2, <3>4
  <2>3. QED
    BY <2>1, <2>2
<1>6. QED
  BY <1>1, <1>4, <1>5, AttemptsStay

LEMMA RetryTries ==
    ASSUME IInv, AttemptInv, NEW q \in Queues, NEW s \in Slots, Retry(q, s) PROVE AttemptInv'
<1>1. PICK m \in Message :
        /\ s \in Held(q) /\ slot[q][s].msg = m /\ Placed(q, s, Free)
        /\ \A p \in Queues : \A n \in ready'[p] :
             \/ n \in ready[p]
             \/ p = q /\ n.event = m.event /\ n.copy = m.copy /\ n.retry = m.retry + 1
        /\ UNCHANGED <<stops, effects, unpublished, orphans, dead, attempts>>
  BY Retries
<1>2. attempts[q][m.event] > m.retry /\ attempts[q][m.event] \in Nat /\ m.retry \in Nat
  BY <1>1, MessageTypes, BoundsAreNatural DEF AttemptInv, IInv, TypeOK
<1>3. \A p \in Queues : \A n \in ready'[p] :
        n \in ready[p] \/ attempts[p][n.event] >= n.retry
  BY <1>1, <1>2
<1>4. \A p \in Queues : \A t \in Held(p)' :
        t \in Held(p) /\ slot'[p][t].msg = slot[p][t].msg
  <2>1. Free \in Works \cup {Free}
    OBVIOUS
  <2>2. QED
    BY <1>1, <2>1, PlacedHolds
<1>5. QED
  BY <1>1, <1>3, <1>4, AttemptsStay

\* What goes on, or is acknowledged, changes no message.
LEMMA HandleTries ==
    ASSUME IInv, AttemptInv, NEW q \in Queues, NEW s \in Slots, Handle(q, s) \/ Ack(q, s)
    PROVE  AttemptInv'
<1>1. slot[q][s].step = "handling" /\ UNCHANGED <<ready, dead, attempts>>
  BY DEF Handle, Ack
<1>2. PICK m \in Message : s \in Held(q) /\ slot[q][s].msg = m
  BY <1>1, InHand
<1>3. PICK w \in Works \cup {Free} : Placed(q, s, w) /\ (w = Free \/ w.msg = m)
  <2>1. CASE Ack(q, s)
    BY <2>1 DEF Ack, Placed
  <2>2. CASE Handle(q, s)
    <3>1. PICK j \in Nat \ {0} : Placed(q, s, Handling(m, j))
      <4>1. slot[q][s].next \in EffectsOf(q)
        BY <2>2 DEF Handle, Apply
      <4>2. EffectsOf(q) \subseteq Nat \ {0}
        BY BoundsAreNatural DEF EffectsOf
      <4>3. slot[q][s].next + 1 \in Nat \ {0}
        BY <4>1, <4>2
      <4>4. Placed(q, s, Handling(m, slot[q][s].next + 1))
        BY <1>2, <2>2 DEF Handle, Placed
      <4>5. QED
        BY <4>3, <4>4
    <3>2. Handling(m, j) \in Works /\ Handling(m, j).msg = m
      BY <3>1, WorkMade
    <3>3. QED
      BY <3>1, <3>2
  <2>3. QED
    BY <2>1, <2>2
<1>4. \A p \in Queues : \A t \in Held(p)' :
        t \in Held(p) /\ slot'[p][t].msg = slot[p][t].msg
  BY <1>2, <1>3, PlacedHolds
<1>5. QED
  BY <1>1, <1>4, AttemptsStay

LEMMA PublishTries == ASSUME IInv, AttemptInv, NEW e \in Events, Publish(e) PROVE AttemptInv'
<1> DEFINE m == [event |-> e, copy |-> 0, retry |-> 0]
<1>1. ready' = Routed(m) /\ UNCHANGED <<slot, dead, attempts>> /\ m.event = e /\ m.retry = 0
  BY DEF Publish
<1> HIDE DEF m
<1>2. \A q \in Queues : \A n \in ready'[q] :
        n \in ready[q] \/ attempts[q][n.event] >= n.retry
  <2>1. \A q \in Queues : \A n \in ready'[q] : n \in ready[q] \/ n = m
    BY <1>1 DEF Routed
  <2>2. \A q \in Queues : attempts[q][e] \in Nat
    BY DEF IInv, TypeOK
  <2>3. QED
    BY <1>1, <2>1, <2>2
<1>3. \A q \in Queues : \A s \in Held(q)' :
        s \in Held(q) /\ slot'[q][s].msg = slot[q][s].msg
  BY <1>1 DEF Held
<1>4. QED
  BY <1>1, <1>2, <1>3, AttemptsStay

LEMMA CloseTries ==
    ASSUME IInv, AttemptInv, NEW r, Fits(r), Close(r),
           \A q \in Queues : \A m \in More(r, q) : attempts[q][m.event] >= m.retry
    PROVE  AttemptInv'
<1>1. /\ slot' = [q \in Queues |-> [s \in Slots |-> Free]]
      /\ ready' = [q \in Queues |-> r[q] \cup Back(q)]
      /\ UNCHANGED <<dead, attempts>>
  BY DEF Back, Close
<1>2. \A q \in Queues : Held(q)' = {}
  BY <1>1 DEF Held
<1>3. ASSUME NEW q \in Queues, NEW m \in ready'[q]
      PROVE  m \in ready[q] \/ attempts[q][m.event] >= m.retry
  <2>1. CASE m \in Back(q)
    <3>1. PICK s \in Held(q) : m = slot[q][s].msg
      BY <2>1 DEF Back
    <3>2. s \in Slots /\ m \in Message
      BY <3>1, SlotTypes DEF IInv, Held
    <3>3. attempts[q][m.event] > m.retry /\ attempts[q][m.event] \in Nat /\ m.retry \in Nat
      BY <3>1, <3>2, MessageTypes, BoundsAreNatural DEF AttemptInv, IInv, TypeOK
    <3>4. QED
      BY <3>3
  <2>2. CASE m \notin Back(q)
    BY <1>1, <2>2 DEF More
  <2>3. QED
    BY <2>1, <2>2
<1>4. QED
  BY <1>1, <1>2, <1>3, AttemptsStay

LEMMA StopTries ==
    ASSUME IInv, AttemptInv, Crash \/ Cut \/ \E o \in orphans : StopByOrphan(o)
    PROVE  AttemptInv'
<1>1. CASE Close(ready)
  BY <1>1, NoMore, ReadyFits, CloseTries
<1>2. ASSUME NEW q \in Queues, NEW s \in Held(q), slot[q][s].step = "waiting",
             Close(HalfRetried(q, s))
      PROVE  AttemptInv'
  <2>1. Fits(HalfRetried(q, s))
    BY <1>2, HalfRetriedFits
  <2>2. \A p \in Queues : \A m \in More(HalfRetried(q, s), p) :
          attempts[p][m.event] >= m.retry
    BY <1>2, HalfRetriedIs
  <2>3. QED
    BY <1>2, <2>1, <2>2, CloseTries
<1>3. QED
  BY <1>1, <1>2 DEF Crash, Cut, StopByOrphan

-----------------------------------------------------------------------------
LEMMA RepeatInit == Init => RepeatInv
<1> SUFFICES ASSUME Init PROVE RepeatInv
  OBVIOUS
<1>1. IInv
  BY InitHolds
<1>2. \A q \in Queues : ready[q] = {} /\ Held(q) = {} /\ dead[q] = {}
  BY DEF Init, Held
<1>3. AttemptInv
  BY <1>2 DEF AttemptInv
<1>4. ASSUME NEW q \in Queues, NEW e \in Events, NEW i \in EffectsOf(q)
      PROVE  Affordable(q, e, i) /\ effects[q][e][i] = 0
  <2>1. Chances(q, e, i) = {}
    BY <1>2 DEF Chances, Chance
  <2>2. Late(q, e, i) = {} /\ effects[q][e][i] = 0 /\ stops = 0
    BY DEF Init, Late
  <2>3. Cardinality(Chances(q, e, i)) = 0 /\ Cardinality(Late(q, e, i)) = 0
    BY <2>1, <2>2, FS_EmptySet
  <2>4. Most(stops) \in Nat
    BY <2>2, MostGrows
  <2>5. QED
    BY <2>2, <2>3, <2>4 DEF Affordable
<1>5. IsFiniteSet(orphans)
  BY FS_EmptySet DEF Init
<1>6. QED
  BY <1>1, <1>3, <1>4, <1>5 DEF RepeatInv, SpentInv

LEMMA RepeatStep == RepeatInv /\ [Next]_vars => RepeatInv'
<1> SUFFICES ASSUME RepeatInv, [Next]_vars PROVE RepeatInv'
  OBVIOUS
<1>1. IInv /\ SpentInv /\ AttemptInv /\ IInv'
  BY StepKeeps DEF RepeatInv
<1>2. CASE UNCHANGED vars
  <2>1. AttemptInv'
    BY <1>1, <1>2 DEF vars, AttemptInv, Held
  <2>2. SpentInv'
    <3>1. /\ UNCHANGED <<stops, effects, unpublished, orphans, ready, slot>>
          /\ IsFiniteSet(orphans')
      BY <1>1, <1>2 DEF vars, SpentInv
    <3>2. \A q \in Queues, e \in Events : \A i \in EffectsOf(q) :
            /\ Chances(q, e, i)' \subseteq Chances(q, e, i)
            /\ Late(q, e, i)' \subseteq Late(q, e, i)
      BY <3>1 DEF Chances, Chance, Held, Late
    <3>3. QED
      BY <1>1, <3>1, <3>2, SpentStays
  <2>3. QED
    BY <1>1, <2>1, <2>2 DEF RepeatInv
<1>3. ASSUME NEW e \in Events, Publish(e) PROVE SpentInv' /\ AttemptInv'
  BY <1>1, <1>3, PublishSpends, PublishTries
<1>4. ASSUME NEW q \in Queues, NEW s \in Slots, Consume(q, s) PROVE SpentInv' /\ AttemptInv'
  <2>1. ASSUME NEW m \in ready[q], Deliver(q, s, m) PROVE SpentInv' /\ AttemptInv'
    BY <1>1, <2>1, DeliverSpends, DeliverTries
  <2>2. CASE Handle(q, s)
    BY <1>1, <2>2, HandleSpends, HandleTries
  <2>3. CASE Ack(q, s)
    BY <1>1, <2>3, AckSpends, HandleTries
  <2>4. CASE Fail(q, s)
    BY <1>1, <2>4, FailSpends, FailTries
  <2>5. CASE Retry(q, s)
    BY <1>1, <2>5, RetrySpends, RetryTries
  <2>6. QED
    BY <1>4, <2>1, <2>2, <2>3, <2>4, <2>5 DEF Consume
<1>5. CASE Crash \/ Cut
  BY <1>1, <1>5, CrashSpends, CutSpends, StopTries DEF RepeatInv
<1>6. ASSUME NEW o \in orphans, HandleOrphan(o) \/ FailOrphan(o) \/ StopByOrphan(o)
      PROVE  SpentInv' /\ AttemptInv'
  <2>1. CASE HandleOrphan(o) \/ FailOrphan(o)
    <3>1. AttemptInv'
      <4>1. UNCHANGED <<ready, slot, dead, attempts>>
        BY <2>1 DEF HandleOrphan, FailOrphan
      <4>2. QED
        BY <1>1, <4>1 DEF AttemptInv, Held
    <3>2. QED
      BY <1>1, <2>1, <3>1, HandleOrphanSpends, FailOrphanSpends
  <2>2. CASE StopByOrphan(o)
    BY <1>1, <2>2, StopByOrphanSpends, StopTries
  <2>3. QED
    BY <1>6, <2>1, <2>2
<1>7. QED
  BY <1>1, <1>2, <1>3, <1>4, <1>5, <1>6 DEF Next, RepeatInv

\* What has not been used up is no less than nothing.
LEMMA SpentIsBounded == RepeatInv => RepeatsAreBounded
<1> SUFFICES ASSUME RepeatInv, NEW q \in Queues, NEW e \in Events, NEW i \in EffectsOf(q)
             PROVE  /\ effects[q][e][i] <= MaxRetries + 1 + stops * MaxRetries
                                            + (stops * (stops + 1)) \div 2
                    /\ About(e, done[q]) # {} =>
                         effects[q][e][i] > 0 \/ i \in skipped[q][e]
                    /\ About(e, dead[q]) # {} => attempts[q][e] > MaxRetries
  BY DEF RepeatsAreBounded
<1>1. IInv /\ SpentInv /\ AttemptInv
  BY DEF RepeatInv
<1>2. /\ Cardinality(Chances(q, e, i)) \in Nat /\ Cardinality(Late(q, e, i)) \in Nat
      /\ effects[q][e][i] \in Nat /\ stops \in Nat
  <2>1. IsFiniteSet(orphans)
    BY <1>1 DEF SpentInv
  <2>2. QED
    BY <1>1, <2>1, ChancesFinite, LateFinite DEF IInv, TypeOK
<1>3. Most(stops) \in Nat
  BY <1>2, MostGrows
<1>4. effects[q][e][i] <= Most(stops)
  <2>1. effects[q][e][i] + Cardinality(Chances(q, e, i)) + Cardinality(Late(q, e, i))
          <= Most(stops)
    BY <1>1 DEF SpentInv, Affordable
  <2>2. QED
    BY <1>2, <1>3, <2>1
<1>5. About(e, done[q]) # {} => effects[q][e][i] > 0 \/ i \in skipped[q][e]
  BY <1>1 DEF IInv, TriedInv, Reached, About
<1>6. About(e, dead[q]) # {} => attempts[q][e] > MaxRetries
  BY <1>1 DEF AttemptInv, About
<1>7. QED
  BY <1>4, <1>5, <1>6 DEF Most

\* How often a recipient hears of an event is bounded by the retries and the
\* stops, however the process stops, its connection is cut and the handlers of
\* closed channels go on; an event is done only with everybody told or passed
\* over, and dead only after its last retry.
THEOREM RepeatsStayBounded == Spec => []RepeatsAreBounded
<1>1. Spec => []RepeatInv
  BY RepeatInit, RepeatStep, PTL DEF Spec
<1>2. QED
  BY <1>1, SpentIsBounded, PTL
=============================================================================
