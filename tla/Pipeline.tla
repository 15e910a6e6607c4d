------------------------------ MODULE Pipeline ------------------------------
(***************************************************************************)
(* The way of a business write into the audit trail: the outbox, the       *)
(* broker and the audit consumer composed as NewProduction wires them.     *)
(* Every process runs one Publisher and one Consumer over one connection;  *)
(* a crash takes both, and without the connection neither gets through.    *)
(*                                                                         *)
(* The instances Out and In are the modules of the two ends.  They share   *)
(* the events and no clock: neither reads a time the other has written.    *)
(***************************************************************************)
EXTENDS Integers, FiniteSets

CONSTANTS
    Deployments,  \* the ways the application may have been put together
    Events,       \* one per business write, by its id in the outbox
    Processes,    \* API instances

    \* of Outbox, and its LockFor
    Tokens, NoToken, MaxAttempts, BatchSize, PublishLock, BackoffBase,
    MaxBackoff, MaxDisturbances,

    \* of AuditConsumer, and its LockFor
    Copies, MaxRetries, InboxLock, RetryTTL, Prefetch, FaultKinds, Budget

\* NewMemory; NewProduction without and with RABBITMQ_URL.
ASSUME DeploymentsAssumption == Deployments \subseteq {"memory", "local", "broker"}

\* What Outbox and AuditConsumer assume of their constants.
ASSUME OutboxAssumption ==
    /\ Events # {}
    /\ Events \subseteq Nat
    /\ IsFiniteSet(Events)
    /\ NoToken \notin Tokens
    /\ {MaxAttempts, BatchSize, PublishLock} \subseteq Nat \ {0}
    /\ {MaxBackoff, MaxDisturbances} \subseteq Nat
    /\ \A attempts \in 1 .. MaxAttempts : BackoffBase ^ (attempts - 1) \in Nat
ASSUME InboxAssumption ==
    /\ {MaxRetries, InboxLock, Prefetch} \subseteq Nat \ {0}
    /\ RetryTTL \in Nat
    /\ FaultKinds \subseteq {"crash", "database", "connection", "nack"}
    /\ Budget \in [{"publish", "fault", "late"} -> Nat]
    /\ "nobody" \notin Processes

VARIABLES
    deployment,  \* chosen at the start, never changed
    recorded,    \* the writes that were given to the AsyncLogger
    row, worker, accepted, outOfStep, doubtful, tried, disturbances,  \* of Outbox
    msg, inbox, consumer, sent, handled, failures, budget      \* of AuditConsumer

\* Publisher and Consumer of a process were given the same RabbitBroker.
Out == INSTANCE Outbox WITH
        Workers <- Processes, Sharing <- Processes, LockFor <- PublishLock

\* AppendTx and NewEvent validate what goes into the outbox.
In == INSTANCE AuditConsumer WITH
        Consumers <- Processes, LockFor <- InboxLock, Malformed <- {}

outVars == <<row, worker, accepted, outOfStep, doubtful, tried, disturbances>>

inVars == <<msg, inbox, consumer, sent, handled, failures, budget>>

vars == <<deployment, recorded, outVars, inVars>>

TypeOK ==
    /\ deployment \in Deployments
    /\ recorded \subseteq Events
    /\ Out!TypeOK
    /\ In!TypeOK

-----------------------------------------------------------------------------
\* The repositories were given an outbox; the workers were started.
HasOutbox == deployment # "memory"

HasBroker == deployment = "broker"

Online(p) == consumer[p].online

Init ==
    /\ deployment \in Deployments
    /\ recorded = {}
    /\ Out!Init
    /\ In!Init

\* CreateWithEvent: the transaction of a write commits with its event.
CreateWithEvent(e) ==
    /\ HasOutbox
    /\ Out!AppendTx(e)
    /\ UNCHANGED recorded

\* Without an outbox the repository reports that no event was persisted, and the
\* service records the write itself.
Record(e) ==
    /\ ~HasOutbox
    /\ e \notin recorded
    /\ recorded' = recorded \union {e}
    /\ UNCHANGED outVars

Write(e) ==
    /\ CreateWithEvent(e) \/ Record(e)
    /\ UNCHANGED <<deployment, inVars>>

\* The message of the current item is in the work queue.
HandOver(p) ==
    \E item \in worker[p].batch :
        Out!IsCurrent(p, item) /\ In!PublishEvent(item.id)

ConfirmsBlindly(p, reached, confirmed) ==  \* faulty: does not wait
    reached => Online(p)

\* RabbitBroker.Publish gets through, and returns nil, over a connection only.
MayReturn(p, reached, confirmed) ==
    /\ reached \/ confirmed => Online(p)
    /\ Out!MayTell(p, reached, confirmed)

Publish(p, reached, confirmed) ==
    /\ MayReturn(p, reached, confirmed)
    /\ Out!Publish(p, reached, confirmed)
    /\ IF reached THEN HandOver(p) ELSE UNCHANGED inVars
    /\ UNCHANGED <<deployment, recorded>>

\* The other steps of PublishOnce.
Bookkeep(p) ==
    /\ Out!ClaimBatch(p) \/ Out!MarkPublished(p) \/ Out!MarkRetry(p)
    /\ UNCHANGED <<deployment, recorded, inVars>>

\* A statement of the outbox fails.
Abandon(p) ==
    /\ Out!Abandon(p)
    /\ UNCHANGED <<deployment, recorded, inVars>>

Republishes(p) == consumer[p].pc \in {"retrying", "burying"} /\ Online(p)

\* The consumer publishes a retry or a dead letter over the channel of the
\* Publisher, whether the broker takes it or not.
Consume(p) ==
    /\ \/ /\ \E m \in Copies : In!Deliver(p, m)
          /\ UNCHANGED outVars
       \/ /\ In!Process(p)
          /\ IF Republishes(p) /\ p \notin outOfStep
             THEN Out!Republish(p)
             ELSE UNCHANGED outVars
    /\ UNCHANGED <<deployment, recorded>>

ExpireRetry ==
    /\ \E m \in Copies : In!ExpireRetry(m)
    /\ UNCHANGED <<deployment, recorded, outVars>>

\* The process starts again with a new connection.
Crash(p) ==
    /\ In!Crash(p)
    /\ IF worker[p].pc = "idle" /\ p \notin outOfStep
       THEN UNCHANGED outVars
       ELSE Out!Restart(p)
    /\ UNCHANGED <<deployment, recorded>>

LoseConnection(p) ==
    /\ In!LoseConnection(p)
    /\ UNCHANGED <<deployment, recorded, outVars>>

Tick ==
    /\ \/ Out!Tick /\ UNCHANGED inVars
       \/ In!Tick /\ UNCHANGED outVars
    /\ UNCHANGED <<deployment, recorded>>

PublishReturns(p) ==
    \E reached, confirmed \in BOOLEAN : Publish(p, reached, confirmed)

Work(p) ==
    \/ PublishReturns(p) \/ Bookkeep(p) \/ Abandon(p)
    \/ Consume(p)
    \/ Crash(p) \/ LoseConnection(p)

Next ==
    \/ \E e \in Events : Write(e)
    \/ HasBroker /\ \E p \in Processes : Work(p)
    \/ HasBroker /\ (ExpireRetry \/ Tick)

Spec == Init /\ [][Next]_vars

\* As for the two modules.  No write, fault or crash has to happen.
Fairness ==
    /\ WF_vars(HasBroker /\ ExpireRetry)
    /\ WF_vars(HasBroker /\ Tick)
    /\ \A p \in Processes :
        /\ WF_vars(HasBroker /\ PublishReturns(p))
        /\ WF_vars(HasBroker /\ Bookkeep(p))
        /\ WF_vars(HasBroker /\ Consume(p))

FairSpec == Spec /\ Fairness

-----------------------------------------------------------------------------
Committed(e) == e \in recorded \/ row[e].status # "absent"

\* An event that the outbox has filed as published, and will never look at
\* again, has reached the handler or is in one of the queues: between the two
\* tables, which no transaction spans, nothing falls through.  A crash between
\* broker.Publish and MarkPublished does not break it.  Two things do: the
\* broker refused the event over a channel that was out of step, or a fault hit
\* a consumer that had claimed the inbox row, which then says processing.
PublishedIsInGoodHands ==
    \A e \in Events :
        row[e].status = "published" =>
            \/ handled[e] > 0
            \/ In!Alive(e)
            \/ e \in doubtful
            \/ In!Faulty /\ inbox[e].status = "processing"

\* The outbox files as published what never got to the broker only after the
\* handler has failed on some other event, whose retry or dead letter left the
\* confirmations out of step: the audit of one write is lost by the failure of
\* that of another, and by nothing else.
UnsentTakesAnothersFailure ==
    \A e \in Events :
        row[e].status = "published" /\ e \notin sent =>
            \E f \in Events \ {e} : failures[f] > 0

\* What keeps an event from its audit: it was refused unnoticed; it is lost, as
\* PublishedIsInGoodHands says; a connection is gone, after which nothing is
\* delivered any more; or a statement on the inbox failed, after which the
\* delivery is neither acknowledged nor given back.
Hindered(e) ==
    \/ e \in doubtful
    \/ In!Lost(e)
    \/ \E p \in Processes : ~Online(p)
    \/ "database" \in FaultKinds /\ In!Faulty

\* With RabbitMQ every committed write is in the end audited, dead-lettered or
\* given up by the outbox, through crashes of the process at any point and
\* handlers that fail.  That confirmations which nobody reads may hold up the
\* deliveries is left to PublisherConfirms (DeliveriesFlow).
EveryWriteIsAudited ==
    \A e \in Events :
        HasBroker /\ Committed(e) ~>
            \/ handled[e] > 0
            \/ \E m \in Copies : msg[m].place = "dlq" /\ msg[m].event = e
            \/ row[e].status = "dead"
            \/ Hindered(e)
=============================================================================
