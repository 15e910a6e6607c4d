--------------------------- MODULE AuditConsumer ---------------------------
(***************************************************************************)
(* The audit consumers, their inbox table and the RabbitMQ queues between  *)
(* them: the work queue with its unacknowledged deliveries, the retry      *)
(* queue that sends a message back when its TTL is over, and the           *)
(* dead-letter queue.                                                      *)
(*                                                                         *)
(* Time is relative, as in Outbox.  The work queue is unordered: with      *)
(* several consumers and redeliveries nothing may rest on its order.       *)
(* Faults, late ticks and publications are drawn from budgets, so that a   *)
(* property can say what it takes to break a promise.                      *)
(***************************************************************************)
EXTENDS Integers, FiniteSets

CONSTANTS
    Events,      \* event_id of the published events
    Malformed,   \* those whose body cannot be decoded or validated
    Consumers,   \* Consumer instances, one connection each
    Copies,      \* bound: slots for the messages RabbitMQ holds
    MaxRetries,  \* Consumer.maxRetries
    LockFor,     \* Consumer.lockFor, in ticks
    RetryTTL,    \* x-message-ttl of the retry queue, in ticks
    Prefetch,    \* CONSUMER_PREFETCH
    FaultKinds,  \* the faults that may happen, of those below
    Budget       \* bounds: publications, faults and late ticks that may happen

Disturbances == {"publish", "fault", "late"}

ASSUME ConsumerAssumption ==
    /\ Events # {}
    /\ Malformed \subseteq Events
    /\ MaxRetries \in Nat \ {0}
    /\ LockFor \in Nat \ {0}
    /\ RetryTTL \in Nat
    /\ Prefetch \in Nat \ {0}
    /\ FaultKinds \subseteq {"crash", "database", "connection", "nack"}
    /\ Budget \in [Disturbances -> Nat]

VARIABLES
    msg,       \* msg[m] is the message in slot m of the broker
    inbox,     \* inbox[e] is the row of event e in inbox_events
    consumer,  \* consumer[c] is where Run and process are
    sent,      \* history: the events published so far
    handled,   \* history: successful runs of the handler, up to 2
    failures,  \* history: failed runs of the handler, up to MaxRetries
    budget     \* what is left of Budget

vars == <<msg, inbox, consumer, sent, handled, failures, budget>>

Nobody == "nobody"

ASSUME NobodyAssumption == Nobody \notin Consumers

Delivery == [copy : Copies, event : Events, attempt : 1 .. MaxRetries]

Message == [place   : {"free", "queue", "unacked", "retry", "dlq"},
            event   : Events,
            attempt : 1 .. MaxRetries,
            ttl     : 0 .. RetryTTL,
            holder  : Consumers \union {Nobody}]

PC == {"idle", "handling", "handled", "failed", "retrying", "burying", "acking"}

TypeOK ==
    /\ msg \in [Copies -> Message]
    /\ inbox \in [Events -> [status : {"none", "processing", "processed"},
                             lock   : Nat]]
    /\ \A c \in Consumers :
        /\ consumer[c].pc \in PC
        /\ consumer[c].online \in BOOLEAN
        /\ consumer[c].buffer \subseteq Delivery
        /\ consumer[c].pc # "idle" => consumer[c].current \in Delivery
    /\ sent \subseteq Events
    /\ handled \in [Events -> 0 .. 2]
    /\ failures \in [Events -> 0 .. MaxRetries]
    /\ budget \in [Disturbances -> Nat]

-----------------------------------------------------------------------------
Before(t) == IF t > 0 THEN t - 1 ELSE 0

UpTo(bound, n) == IF n < bound THEN n + 1 ELSE bound

Spend(what) ==
    /\ budget[what] > 0
    /\ budget' = [budget EXCEPT ![what] = @ - 1]

Spent(what) == budget[what] < Budget[what]

Fault(kind) == kind \in FaultKinds /\ Spend("fault")

Faulty == Spent("fault")

SomeEvent == CHOOSE e \in Events : TRUE

Free == [place |-> "free", event |-> SomeEvent, attempt |-> 1,
         ttl |-> 0, holder |-> Nobody]

FreeCopies == {m \in Copies : msg[m].place = "free"}

\* A retry or a crash in the middle of one needs a slot beyond those in use.
SpareCopies == Cardinality(Consumers) + budget["fault"]

\* The message in slot `m` is put back by the broker as it was delivered.
Requeued(m) == [msg[m] EXCEPT !.place = "queue", !.holder = Nobody]

Unacked(c) == {m \in Copies : msg[m].holder = c}

Resting == [pc |-> "idle", online |-> TRUE, buffer |-> {}]

Current(c) == consumer[c].current

\* process(delivery) has returned.
Done(c) == [pc |-> "idle", online |-> consumer[c].online,
            buffer |-> consumer[c].buffer]

GoTo(c, pc) == consumer' = [consumer EXCEPT ![c].pc = pc]

-----------------------------------------------------------------------------
Init ==
    /\ msg = [m \in Copies |-> Free]
    /\ inbox = [e \in Events |-> [status |-> "none", lock |-> 0]]
    /\ consumer = [c \in Consumers |-> Resting]
    /\ sent = {}
    /\ handled = [e \in Events |-> 0]
    /\ failures = [e \in Events |-> 0]
    /\ budget = Budget

\* RabbitBroker.Publish, called by the outbox: at least once per event, so the
\* same event may come again.  A message without the header counts as attempt 1.
PublishEvent(e) ==
    /\ Spend("publish")
    /\ Cardinality(FreeCopies) > SpareCopies
    /\ \E m \in FreeCopies :
        /\ m = CHOOSE n \in FreeCopies : TRUE
        /\ msg' = [msg EXCEPT ![m] =
              [place |-> "queue", event |-> e, attempt |-> 1,
               ttl |-> 0, holder |-> Nobody]]
    /\ sent' = sent \union {e}
    /\ UNCHANGED <<inbox, consumer, handled, failures>>

\* The broker pushes a message to a connected consumer, up to its prefetch.
Deliver(c, m) ==
    /\ consumer[c].online
    /\ msg[m].place = "queue"
    /\ Cardinality(Unacked(c)) < Prefetch
    /\ msg' = [msg EXCEPT ![m].place = "unacked", ![m].holder = c]
    /\ consumer' = [consumer EXCEPT ![c].buffer = @ \union
          {[copy |-> m, event |-> msg[m].event, attempt |-> msg[m].attempt]}]
    /\ UNCHANGED <<inbox, sent, handled, failures, budget>>

\* The TTL of the retry queue is over: the message is dead-lettered back to the
\* exchange, which routes it to the work queue.
ExpireRetryDrops(m) ==  \* faulty: the retry queue has no dead-letter exchange
    /\ msg[m].place = "retry"
    /\ msg[m].ttl = 0
    /\ msg' = [msg EXCEPT ![m] = Free]
    /\ UNCHANGED <<inbox, consumer, sent, handled, failures, budget>>

ExpireRetry(m) ==
    /\ msg[m].place = "retry"
    /\ msg[m].ttl = 0
    /\ msg' = [msg EXCEPT ![m].place = "queue"]
    /\ UNCHANGED <<inbox, consumer, sent, handled, failures, budget>>

-----------------------------------------------------------------------------
\* process takes the delivery `d` out of the channel and continues at `pc`.
Start(c, d, pc) ==
    consumer' = [consumer EXCEPT ![c] =
        [pc |-> pc, online |-> @.online, buffer |-> @.buffer \ {d},
         current |-> d]]

\* Decoding or Validate fails: the delivery goes straight to the DLQ.
Reject(c, d) ==
    /\ consumer[c].pc = "idle"
    /\ d.event \in Malformed
    /\ Start(c, d, "burying")
    /\ UNCHANGED <<msg, inbox, sent, handled, failures, budget>>

ClaimsLocked(e) == inbox[e].status # "processed"  \* faulty: ignores the lock

ClaimsProcessed(e) == inbox[e].lock = 0  \* faulty: ignores the status

Claims(e) == inbox[e].status # "processed" /\ inbox[e].lock = 0

ClaimedRow == [status |-> "processing", lock |-> LockFor]

ClaimInbox(c, d) ==
    /\ consumer[c].pc = "idle"
    /\ d.event \notin Malformed
    /\ IF Claims(d.event)
       THEN /\ inbox' = [inbox EXCEPT ![d.event] = ClaimedRow]
            /\ Start(c, d, "handling")
       ELSE /\ Start(c, d, "acking")
            /\ UNCHANGED inbox
    /\ UNCHANGED <<msg, sent, handled, failures, budget>>

\* ClaimInbox returns an error: process returns without an answer to the
\* broker, and the delivery stays unacknowledged.
ClaimInboxFails(c, d) ==
    /\ consumer[c].pc = "idle"
    /\ d.event \notin Malformed
    /\ Fault("database")
    /\ consumer' = [consumer EXCEPT ![c].buffer = @ \ {d}]
    /\ UNCHANGED <<msg, inbox, sent, handled, failures>>

HandlerSucceeds(c) ==
    /\ consumer[c].pc = "handling"
    /\ handled' = [handled EXCEPT ![Current(c).event] = UpTo(2, @)]
    /\ GoTo(c, "handled")
    /\ UNCHANGED <<msg, inbox, sent, failures, budget>>

HandlerFails(c) ==
    /\ consumer[c].pc = "handling"
    /\ failures' = [failures EXCEPT ![Current(c).event] = UpTo(MaxRetries, @)]
    /\ GoTo(c, "failed")
    /\ UNCHANGED <<msg, inbox, sent, handled, budget>>

\* The UPDATE names neither the status nor the lock; nor does the one of
\* MarkInboxFailed.
MarkInboxProcessed(c) ==
    /\ consumer[c].pc = "handled"
    /\ inbox' = [inbox EXCEPT ![Current(c).event] =
                    [status |-> "processed", lock |-> 0]]
    /\ GoTo(c, "acking")
    /\ UNCHANGED <<msg, sent, handled, failures, budget>>

MarkInboxProcessedFails(c) ==
    /\ consumer[c].pc = "handled"
    /\ Fault("database")
    /\ consumer' = [consumer EXCEPT ![c] = Done(c)]
    /\ UNCHANGED <<msg, inbox, sent, handled, failures>>

AfterFailureLate(c) ==  \* faulty: one retry too many
    IF Current(c).attempt > MaxRetries THEN "burying" ELSE "retrying"

AfterFailureEarly(c) ==  \* faulty: one retry too few
    IF Current(c).attempt + 1 >= MaxRetries THEN "burying" ELSE "retrying"

AfterFailure(c) ==
    IF Current(c).attempt >= MaxRetries THEN "burying" ELSE "retrying"

RetryDelayKeepsLock(c) == LockFor  \* faulty: the lock of the claim stays

\* retryAt, in seconds.
RetryDelay(c) == Current(c).attempt

MarkInboxFailed(c) ==
    /\ consumer[c].pc = "failed"
    /\ inbox' = [inbox EXCEPT ![Current(c).event] =
                    [status |-> "processing", lock |-> RetryDelay(c)]]
    /\ GoTo(c, AfterFailure(c))
    /\ UNCHANGED <<msg, sent, handled, failures, budget>>

\* process ignores the error of MarkInboxFailed and goes on.
MarkInboxFailedFails(c) ==
    /\ consumer[c].pc = "failed"
    /\ Fault("database")
    /\ GoTo(c, AfterFailure(c))
    /\ UNCHANGED <<msg, inbox, sent, handled, failures>>

\* publishRetry and publishDead: a copy of the message is published, then the
\* original is acknowledged.  Without a connection both fail, and process
\* ignores that.
Republish(c, place, attempt, ttl) ==
    /\ IF consumer[c].online
       THEN /\ \E m \in FreeCopies :
                /\ m = CHOOSE n \in FreeCopies : TRUE
                /\ msg' = [msg EXCEPT ![m] =
                      [place |-> place, event |-> Current(c).event,
                       attempt |-> attempt, ttl |-> ttl, holder |-> Nobody]]
            /\ GoTo(c, "acking")
       ELSE /\ consumer' = [consumer EXCEPT ![c] = Done(c)]
            /\ UNCHANGED msg
    /\ UNCHANGED <<inbox, sent, handled, failures, budget>>

\* The broker refuses the copy: its nack is among the confirmations, which
\* neither function reads, and the original is acknowledged all the same.
RepublishIsRefused(c) ==
    /\ consumer[c].pc \in {"retrying", "burying"}
    /\ consumer[c].online
    /\ Fault("nack")
    /\ GoTo(c, "acking")
    /\ UNCHANGED <<msg, inbox, sent, handled, failures>>

Retry(c) ==
    /\ consumer[c].pc = "retrying"
    /\ Republish(c, "retry", Current(c).attempt + 1, RetryTTL)

DeadLetter(c) ==
    /\ consumer[c].pc = "burying"
    /\ Republish(c, "dlq", Current(c).attempt, 0)

Ack(c) ==
    /\ consumer[c].pc = "acking"
    /\ msg' = IF consumer[c].online
              THEN [msg EXCEPT ![Current(c).copy] = Free]
              ELSE msg
    /\ consumer' = [consumer EXCEPT ![c] = Done(c)]
    /\ UNCHANGED <<inbox, sent, handled, failures, budget>>

-----------------------------------------------------------------------------
\* The broker puts back everything the connection of `c` has not acknowledged.
RequeueUnacked(c) ==
    msg' = [m \in Copies |-> IF m \in Unacked(c) THEN Requeued(m) ELSE msg[m]]

\* The process dies, at any point of process, and is started again.
Crash(c) ==
    /\ Fault("crash")
    /\ RequeueUnacked(c)
    /\ consumer' = [consumer EXCEPT ![c] = Resting]
    /\ UNCHANGED <<inbox, sent, handled, failures>>

\* The connection is lost.  Deliveries already in the channel are still
\* processed; then the channel is closed, Run returns and nothing starts it
\* again or connects again.
LoseConnection(c) ==
    /\ consumer[c].online
    /\ Fault("connection")
    /\ RequeueUnacked(c)
    /\ consumer' = [consumer EXCEPT ![c].online = FALSE]
    /\ UNCHANGED <<inbox, sent, handled, failures>>

\* One second.  A tick while some consumer is inside process is a late one:
\* enough of them and its lock is over before its handler is.
Tick ==
    /\ \/ \E e \in Events : inbox[e].lock > 0
       \/ \E m \in Copies : msg[m].ttl > 0
    /\ inbox' = [e \in Events |-> [inbox[e] EXCEPT !.lock = Before(@)]]
    /\ msg' = [m \in Copies |-> [msg[m] EXCEPT !.ttl = Before(@)]]
    /\ IF \A c \in Consumers : consumer[c].pc = "idle"
       THEN UNCHANGED budget
       ELSE Spend("late")
    /\ UNCHANGED <<consumer, sent, handled, failures>>

Process(c) ==
    \/ \E d \in consumer[c].buffer :
        Reject(c, d) \/ ClaimInbox(c, d) \/ ClaimInboxFails(c, d)
    \/ HandlerSucceeds(c) \/ HandlerFails(c)
    \/ MarkInboxProcessed(c) \/ MarkInboxProcessedFails(c)
    \/ MarkInboxFailed(c) \/ MarkInboxFailedFails(c)
    \/ Retry(c) \/ DeadLetter(c) \/ RepublishIsRefused(c) \/ Ack(c)

Next ==
    \/ \E e \in Events : PublishEvent(e)
    \/ \E m \in Copies : ExpireRetry(m)
    \/ \E c \in Consumers : \/ \E m \in Copies : Deliver(c, m)
                            \/ Process(c)
                            \/ Crash(c)
                            \/ LoseConnection(c)
    \/ Tick

Spec == Init /\ [][Next]_vars

\* RabbitMQ delivers what is ready, a consumer works through its channel, and
\* time passes.  No crash, no fault and no publication has to happen.
Fairness ==
    /\ WF_vars(Tick)
    /\ \A m \in Copies : WF_vars(ExpireRetry(m))
    /\ \A m \in Copies : WF_vars(\E c \in Consumers : Deliver(c, m))
    /\ \A c \in Consumers : WF_vars(Process(c))

FairSpec == Spec /\ Fairness

-----------------------------------------------------------------------------
\* The broker still holds a copy of the event, in whatever queue.
Alive(e) == \E m \in Copies : msg[m].place # "free" /\ msg[m].event = e

Lost(e) == e \in sent /\ handled[e] = 0 /\ ~Alive(e)

\* With no crash, no failing statement, no lost connection and no copy that the
\* broker refuses, an event that was published has been handled or is still
\* somewhere in the broker: copies acknowledged because another one holds the
\* inbox lock never add up to a loss, however late the handlers are.  A
\* well-formed event that a fault has lost can at least be found: its inbox row
\* says processing, and no row says processed that was not handled.
LossTakesAFault ==
    \A e \in Events :
        /\ Lost(e) => /\ Faulty
                      /\ inbox[e].status = "processing" \/ e \in Malformed
        /\ inbox[e].status = "processed" => handled[e] > 0

\* A well-formed event is in the dead-letter queue only after the handler has
\* failed on it as often as CONSUMER_MAX_RETRIES says, with crashes,
\* redeliveries and duplicates.
DeadLetterIsEarned ==
    \A m \in Copies :
        msg[m].place = "dlq" =>
            \/ msg[m].event \in Malformed
            \/ failures[msg[m].event] = MaxRetries

\* The inbox lock keeps two deliveries of an event out of the handler at the
\* same time, unless a handler outlives its lock.  Crashes do not break it: the
\* lock outlives the process.
OneHandlerAtATime ==
    \A c, d \in Consumers :
        /\ c # d
        /\ consumer[c].pc = "handling"
        /\ consumer[d].pc = "handling"
        /\ Current(c).event = Current(d).event
        => Spent("late")

\* The handler succeeds on an event once, however often it is published,
\* unless a handler is late, a process dies between the handler and
\* MarkInboxProcessed, or that statement fails.
HandledTwiceTakesAFault ==
    \A e \in Events : handled[e] > 1 => Faulty \/ Spent("late")

\* An event recorded as processed stays so, and is therefore never claimed
\* again, unless a handler outlived its lock: neither MarkInboxFailed nor
\* MarkInboxProcessed looks at the state of the row, the lock alone keeps a
\* failing delivery from undoing what another one has completed.
ProcessedIsFinal ==
    [][\A e \in Events :
        inbox[e].status = "processed" /\ ~Spent("late")
            => inbox'[e].status = "processed"]_vars

\* Without faults every published event is in the end handled or dead-lettered,
\* late handlers or not: a copy that is acknowledged unhandled, because another
\* one holds the inbox lock, leaves that other one to go on.
EveryEventSettles ==
    \A e \in Events :
        e \in sent ~>
            \/ handled[e] > 0
            \/ \E m \in Copies : msg[m].place = "dlq" /\ msg[m].event = e
            \/ Faulty

\* Design, "Consumer": a lock left by a process that died expires and the event
\* is processed again; no event is lost to the order of claim and side effect.
NoEventLost == \A e \in Events : ~Lost(e)

\* Design, "RabbitMQ disconnected while running": after the connection is back,
\* the consumer goes on with what it had not acknowledged.
ConsumptionResumes ==
    \A e \in Events :
        e \in sent ~>
            \/ handled[e] > 0
            \/ \E m \in Copies : msg[m].place = "dlq" /\ msg[m].event = e
=============================================================================
