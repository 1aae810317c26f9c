------------------------------ MODULE EventBus ------------------------------
(***************************************************************************)
(* Domain events: EventBusService over RabbitMQ, and its two consumers,    *)
(* the audit log and the Telegram notifier.                                *)
(*                                                                         *)
(* A consumer works on up to a prefetch of unacknowledged messages.  A     *)
(* handler applies its effects one after the other (the audit row; one     *)
(* message per recipient) and may fail before any of them; the notifier    *)
(* passes over a recipient who opted out, blocked the bot or is over the   *)
(* quota of messages, and calls that success.  A failed message stays      *)
(* unacknowledged while a timer of the process runs, and is then published *)
(* again through the exchange, to whatever queues its routing key is bound *)
(* to, with its retry count in a header, and acknowledged.                 *)
(*                                                                         *)
(* A process that stops, for a shutdown or a crash, loses its timers, and  *)
(* the broker delivers every unacknowledged message again with the header  *)
(* it had.  It does so too when the connection is cut and the process      *)
(* lives on: the channel is opened anew with a prefetch of its own, while  *)
(* the handlers and timers of the old one go on.  Whatever they then say   *)
(* to the closed channel throws: an ack, which counts as a failure of the  *)
(* handler, a publish, and the nack that answers both.  Nobody catches     *)
(* that one, and the process stops.  A connection that goes away between   *)
(* the two frames of a retry leaves one copy more.                         *)
(*                                                                         *)
(* The broker keeps what it has confirmed.  Messages that are no JSON are  *)
(* left out: every publisher of these queues is this program.              *)
(***************************************************************************)
EXTENDS Naturals, FiniteSets

CONSTANTS
    AuditEvents,    \* events with routing key audit.write
    NoticeEvents,   \* events with one of the notifier's routing keys
    Recipients,     \* how many users a notification goes to
    MaxRetries,     \* maxRetries of both queues
    Slots,          \* deliveries a consumer may hold unacknowledged (prefetch)
    MaxStops        \* bound: how often the process stops of itself, or is cut off

ASSUME BoundsAreNatural ==
    /\ AuditEvents \cap NoticeEvents = {}
    /\ Recipients \in Nat \ {0}
    /\ MaxRetries \in Nat
    /\ MaxStops \in Nat
    /\ IsFiniteSet(Slots)

VARIABLES
    unpublished,    \* events not yet published
    ready,          \* ready[q]: the messages waiting in queue q
    slot,           \* slot[q][s]: the delivery a consumer holds, or Free
    orphans,        \* the deliveries of closed channels that are worked on
    dead,           \* dead[q]: the messages that went from q to nis.dlq
    done,           \* done[q]: the messages q's consumer acknowledged as handled
    effects,        \* effects[q][e][i]: how often effect i of e was applied
    skipped,        \* skipped[q][e]: effects passed over, at some attempt
    attempts,       \* attempts[q][e]: how often the handler of q was given e
    stops           \* how often the process stopped or was cut off

vars ==
    <<unpublished, ready, slot, orphans, dead, done, effects, skipped, attempts, stops>>

-----------------------------------------------------------------------------
Events == AuditEvents \cup NoticeEvents
Queues == {"audit.log", "notifications.telegram"}

\* A message is a copy of an event with the retry count in its header: copy 0
\* is what was published, copy n what the nth stop added.
Message == [event : Events, copy : Nat, retry : 0..MaxRetries]

\* The queues an event is routed to.  A definition whose name adds a word to
\* the one that follows it is a mutant of it.
BoundToCatchAll(e) ==
    IF e \in AuditEvents THEN {"audit.log"} ELSE {"audit.log", "notifications.telegram"}
BoundTo(e) == IF e \in AuditEvents THEN {"audit.log"} ELSE {"notifications.telegram"}

EffectsOf(q) == IF q = "audit.log" THEN 1..1 ELSE 1..Recipients

Free == [step |-> "free"]
Handling(m, i) == [step |-> "handling", msg |-> m, next |-> i]
Waiting(m) == [step |-> "waiting", msg |-> m]

Held(q) == {s \in Slots : slot[q][s] # Free}

\* m in every queue its event is bound to.
Routed(m) == [q \in Queues |-> ready[q] \cup IF q \in BoundTo(m.event) THEN {m} ELSE {}]

\* The message a failed delivery of m is retried with.
RetriedUncounted(m) == m
Retried(m) == [m EXCEPT !.retry = @ + 1]

\* Was this the last attempt a message gets?
Exhausted(m) == m.retry + 1 > MaxRetries

-----------------------------------------------------------------------------
Init ==
    /\ unpublished = Events
    /\ ready = [q \in Queues |-> {}]
    /\ slot = [q \in Queues |-> [s \in Slots |-> Free]]
    /\ orphans = {}
    /\ dead = [q \in Queues |-> {}]
    /\ done = [q \in Queues |-> {}]
    /\ effects = [q \in Queues |-> [e \in Events |-> [i \in EffectsOf(q) |-> 0]]]
    /\ skipped = [q \in Queues |-> [e \in Events |-> {}]]
    /\ attempts = [q \in Queues |-> [e \in Events |-> 0]]
    /\ stops = 0

\* publish, confirmed by the broker.
Publish(e) ==
    /\ e \in unpublished
    /\ unpublished' = unpublished \ {e}
    /\ ready' = Routed([event |-> e, copy |-> 0, retry |-> 0])
    /\ UNCHANGED <<slot, orphans, dead, done, effects, skipped, attempts, stops>>

\* The broker hands a message to a consumer below its prefetch, and the
\* handler starts.
Deliver(q, s, m) ==
    /\ slot[q][s] = Free
    /\ m \in ready[q]
    /\ ready' = [ready EXCEPT ![q] = @ \ {m}]
    /\ slot' = [slot EXCEPT ![q][s] = Handling(m, 1)]
    /\ attempts' = [attempts EXCEPT ![q][m.event] = @ + 1]
    /\ UNCHANGED <<unpublished, orphans, dead, done, effects, skipped, stops>>

\* The handler that has come to effect i of e applies it, or the notifier
\* passes over that recipient.
Apply(q, e, i) ==
    /\ i \in EffectsOf(q)
    /\ \/ /\ effects' = [effects EXCEPT ![q][e][i] = @ + 1]
          /\ UNCHANGED skipped
       \/ /\ q = "notifications.telegram"
          /\ skipped' = [skipped EXCEPT ![q][e] = @ \cup {i}]
          /\ UNCHANGED effects

Handle(q, s) ==
    /\ slot[q][s].step = "handling"
    /\ LET m == slot[q][s].msg
           i == slot[q][s].next
       IN  /\ Apply(q, m.event, i)
           /\ slot' = [slot EXCEPT ![q][s] = Handling(m, i + 1)]
    /\ UNCHANGED <<unpublished, ready, orphans, dead, done, attempts, stops>>

\* The handler has returned: the message is acknowledged.
Ack(q, s) ==
    /\ slot[q][s].step = "handling"
    /\ slot[q][s].next \notin EffectsOf(q)
    /\ done' = [done EXCEPT ![q] = @ \cup {slot[q][s].msg}]
    /\ slot' = [slot EXCEPT ![q][s] = Free]
    /\ UNCHANGED <<unpublished, ready, orphans, dead, effects, skipped, attempts, stops>>

\* The handler throws, before its next effect or because it never learns that
\* the last one worked: the message is given up to the dead-letter queue, or a
\* timer is set.
FailAcked(q, s) ==
    /\ slot[q][s].step = "handling"
    /\ LET m == slot[q][s].msg
       IN  IF Exhausted(m)
             THEN /\ done' = [done EXCEPT ![q] = @ \cup {m}]
                  /\ slot' = [slot EXCEPT ![q][s] = Free]
             ELSE slot' = [slot EXCEPT ![q][s] = Waiting(m)] /\ UNCHANGED done
    /\ UNCHANGED <<unpublished, ready, orphans, dead, effects, skipped, attempts, stops>>
Fail(q, s) ==
    /\ slot[q][s].step = "handling"
    /\ LET m == slot[q][s].msg
       IN  IF Exhausted(m)
             THEN /\ dead' = [dead EXCEPT ![q] = @ \cup {m}]
                  /\ slot' = [slot EXCEPT ![q][s] = Free]
             ELSE slot' = [slot EXCEPT ![q][s] = Waiting(m)] /\ UNCHANGED dead
    /\ UNCHANGED <<unpublished, ready, orphans, done, effects, skipped, attempts, stops>>

\* The timer fires: the message is published again and the delivery it came
\* with is acknowledged.
Retry(q, s) ==
    /\ slot[q][s].step = "waiting"
    /\ ready' = Routed(Retried(slot[q][s].msg))
    /\ slot' = [slot EXCEPT ![q][s] = Free]
    /\ UNCHANGED <<unpublished, orphans, dead, done, effects, skipped, attempts, stops>>

-----------------------------------------------------------------------------
(* The process stops, or its connection is cut.                            *)

\* The channels are closed; the broker takes every unacknowledged message back
\* into its queue, which held r.
CloseForgetful(r) ==
    /\ stops' = stops + 1
    /\ slot' = [q \in Queues |-> [s \in Slots |-> Free]]
    /\ ready' = [q \in Queues |->
          r[q] \cup {slot[q][s].msg : s \in {s \in Held(q) : slot[q][s].step = "handling"}}]
    /\ UNCHANGED <<unpublished, dead, done, effects, skipped, attempts>>
Close(r) ==
    /\ stops' = stops + 1
    /\ slot' = [q \in Queues |-> [s \in Slots |-> Free]]
    /\ ready' = [q \in Queues |-> r[q] \cup {slot[q][s].msg : s \in Held(q)}]
    /\ UNCHANGED <<unpublished, dead, done, effects, skipped, attempts>>

\* The queues when the broker has got the publish of a retry and not the ack.
HalfRetried(q, s) == Routed([Retried(slot[q][s].msg) EXCEPT !.copy = stops + 1])

\* The process stops and starts again.
Crash ==
    /\ stops < MaxStops
    /\ orphans' = {}
    /\ \/ Close(ready)
       \/ \E q \in Queues : \E s \in Held(q) :
            slot[q][s].step = "waiting" /\ Close(HalfRetried(q, s))

Orphan(q, s) == [queue |-> q, since |-> stops, work |-> slot[q][s]]

\* A handler that has something left to do or to say goes on; the last word of
\* one that is done, or has failed, may just have been said.
GoesOn(q, s) ==
    LET w == slot[q][s]
    IN  w.step = "handling" /\ w.next \in EffectsOf(q) /\ ~Exhausted(w.msg)

\* The connection is cut, and opened again.
Cut ==
    /\ stops < MaxStops
    /\ \E on \in SUBSET {o \in Queues \X Slots : o[2] \in Held(o[1])} :
         /\ \A q \in Queues : \A s \in Held(q) : GoesOn(q, s) => <<q, s>> \in on
         /\ orphans' = orphans \cup {Orphan(o[1], o[2]) : o \in on}
         /\ \/ Close(ready)
            \/ \E q \in Queues : \E s \in Held(q) :
                 /\ slot[q][s].step = "waiting" /\ <<q, s>> \notin on
                 /\ Close(HalfRetried(q, s))

\* An orphaned handler goes on with its effects.
HandleOrphan(o) ==
    /\ o.work.step = "handling"
    /\ LET m == o.work.msg
           i == o.work.next
       IN  /\ Apply(o.queue, m.event, i)
           /\ orphans' = (orphans \ {o}) \cup {[o EXCEPT !.work = Handling(m, i + 1)]}
    /\ UNCHANGED <<unpublished, ready, slot, dead, done, attempts, stops>>

\* It throws, or its ack does, and a timer is set.
FailOrphan(o) ==
    /\ o.work.step = "handling" /\ ~Exhausted(o.work.msg)
    /\ orphans' = (orphans \ {o}) \cup {[o EXCEPT !.work = Waiting(o.work.msg)]}
    /\ UNCHANGED <<unpublished, ready, slot, dead, done, effects, skipped, attempts, stops>>

\* Its timer fires, or its last attempt has failed: the nack throws as well, and
\* nobody catches it.
StopByOrphan(o) ==
    /\ o.work.step = "waiting" \/ Exhausted(o.work.msg)
    /\ orphans' = {}
    /\ Close(ready)

-----------------------------------------------------------------------------
Consume(q, s) ==
    \/ \E m \in ready[q] : Deliver(q, s, m)
    \/ Handle(q, s) \/ Ack(q, s) \/ Fail(q, s)
    \/ Retry(q, s)

Next ==
    \/ \E e \in Events : Publish(e)
    \/ \E q \in Queues, s \in Slots : Consume(q, s)
    \/ Crash \/ Cut
    \/ \E o \in orphans : HandleOrphan(o) \/ FailOrphan(o) \/ StopByOrphan(o)

Spec == Init /\ [][Next]_vars

\* A consumer keeps taking messages, its handlers come to an end and its
\* timers fire; that anything is published, or the process stops, is no duty.
FairSpec == Spec /\ \A q \in Queues, s \in Slots : WF_vars(Consume(q, s))

-----------------------------------------------------------------------------
(* Properties.                                                             *)

Works ==
    [step : {"waiting"}, msg : Message]
    \cup [step : {"handling"}, msg : Message, next : Nat \ {0}]

\* The state has the types the code gives it.
TypeOK ==
    /\ unpublished \subseteq Events
    /\ ready \in [Queues -> SUBSET Message]
    /\ slot \in [Queues -> [Slots -> Works \cup {Free}]]
    /\ orphans \subseteq [queue : Queues, since : Nat, work : Works]
    /\ dead \in [Queues -> SUBSET Message]
    /\ done \in [Queues -> SUBSET Message]
    /\ DOMAIN effects = Queues
    /\ \A q \in Queues : effects[q] \in [Events -> [EffectsOf(q) -> Nat]]
    /\ DOMAIN skipped = Queues
    /\ \A q \in Queues : skipped[q] \in [Events -> SUBSET EffectsOf(q)]
    /\ attempts \in [Queues -> [Events -> Nat]]
    /\ stops \in Nat

\* The queues the code binds, spelt out for the properties.
QueueOf(e) == IF e \in AuditEvents THEN "audit.log" ELSE "notifications.telegram"

About(e, ms) == {m \in ms : m.event = e}
HeldOf(q, e) == {s \in Held(q) : slot[q][s].msg.event = e}

\* How many times event e is anywhere on its way through queue q.
Copies(q, e) ==
    Cardinality(HeldOf(q, e)) + Cardinality(About(e, ready[q]))
      + Cardinality(About(e, dead[q])) + Cardinality(About(e, done[q]))

\* A published event is always somewhere on its way through its own queue and
\* nowhere in the other: it is never lost, whenever the process stops or is cut
\* off, and a failure in one consumer gives no work to the other.  While the
\* process runs there is one copy, and each stop adds at most one.
NeverLost ==
    \A e \in Events, q \in Queues :
        IF e \notin unpublished /\ q = QueueOf(e)
          THEN Copies(q, e) \in 1..(1 + stops)
          ELSE Copies(q, e) = 0

\* Without a stop, a recipient hears of an event at most as often as a message
\* is tried.  Each stop may repeat the attempts under way, of one copy for
\* every stop so far, and add a copy with its retries.  The event is done only
\* when the handler has told everybody or passed them over, and dead only when
\* every retry was used.
RepeatsAreBounded ==
    \A q \in Queues, e \in Events : \A i \in EffectsOf(q) :
        /\ effects[q][e][i] <= MaxRetries + 1 + stops * MaxRetries
                                 + (stops * (stops + 1)) \div 2
        /\ About(e, done[q]) # {} => effects[q][e][i] > 0 \/ i \in skipped[q][e]
        /\ About(e, dead[q]) # {} => attempts[q][e] > MaxRetries

\* Every published event is settled, also when all slots of its consumer wait
\* for the timers of failing ones.
Settled ==
    \A e \in Events : e \notin unpublished
        ~> About(e, done[QueueOf(e)] \cup dead[QueueOf(e)]) # {}

Standing(d) ==
    IF d \in unpublished THEN {}
    ELSE {"published"}
         \cup {o \in {"done", "dead"} :
                 About(d, IF o = "done" THEN done[QueueOf(d)] ELSE dead[QueueOf(d)]) # {}}
Tried(d) ==
    {i \in EffectsOf(QueueOf(d)) : effects[QueueOf(d)][d][i] > 0}
    \cup skipped[QueueOf(d)][d]

\* The bus keeps the contract: handlers run for published events only, one is
\* done only with every effect tried, and no outcome is taken back.
Contract == INSTANCE DeliveryContract
              WITH Deliveries <- Events, Effects <- [d \in Events |-> EffectsOf(QueueOf(d))],
                   standing <- [d \in Events |-> Standing(d)],
                   tried <- [d \in Events |-> Tried(d)]

ImplementsContract == Contract!Spec
=============================================================================
