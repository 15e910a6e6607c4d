------------------------- MODULE PublisherConfirms -------------------------
(***************************************************************************)
(* RabbitBroker inside one process: the Publisher and the Consumer share a *)
(* connection and, to publish, one channel in confirm mode.  Publish sends *)
(* and waits for the next confirmation of that channel; publishRetry and   *)
(* publishDead send and do not wait, although the broker confirms their    *)
(* messages too.  At shutdown the context of the workers is cancelled: the *)
(* Publish in progress may return without its confirmation, and none but   *)
(* the one about to be made follows, because the statement after a Publish *)
(* fails on the cancelled context and ends the cycle.                      *)
(*                                                                         *)
(* The broker and the client library are modelled from how the code uses   *)
(* them: confirmations come in the order of the messages; one goroutine    *)
(* reads everything that comes over the connection, in order, and blocks   *)
(* while the Go channel a frame is for is full.                            *)
(***************************************************************************)
EXTENDS Integers, Sequences, FiniteSets

CONSTANTS
    Events,           \* events the outbox hands to Publish
    Retry,            \* stands for a message of publishRetry or publishDead
    ConfirmsCapacity, \* capacity of the Go channel b.confirms
    MaxDeliveries     \* bound: messages the broker delivers to the consumer

ASSUME ConfirmsAssumption ==
    /\ Retry \notin Events
    /\ ConfirmsCapacity \in Nat \ {0}
    /\ MaxDeliveries \in Nat
    /\ "nothing" \notin Events

VARIABLES
    outbound,    \* messages sent on the channel, not yet handled by the broker
    inbound,     \* frames from the broker that the library has not read
    confirms,    \* the Go channel b.confirms
    waiting,     \* the event Publish waits for, holding b.mu, or Nothing
    buffer,      \* deliveries the consumer has not processed
    open,        \* the connection is up
    undelivered, \* deliveries the broker may still make
    ctx,         \* context of the workers: "live", "cancelled", or "spent" once
                 \* no Publish can follow
    accepted,    \* history: events the broker has accepted
    published,   \* history: events for which Publish returned nil
    republished, \* history: messages of publishRetry and publishDead
    abandoned    \* history: times Publish returned the error of its context

vars == <<outbound, inbound, confirms, waiting, buffer, open, undelivered, ctx,
          accepted, published, republished, abandoned>>

Nothing == "nothing"

\* The code looks at `ack` only; `of` records which message it confirms.
Confirmation ==
    [kind : {"confirmation"}, of : Events \union {Retry}, ack : BOOLEAN]

Delivery == [kind |-> "delivery"]

TypeOK ==
    /\ outbound \in Seq(Events \union {Retry})
    /\ inbound \in Seq(Confirmation \union {Delivery})
    /\ confirms \in Seq(Confirmation)
    /\ Len(confirms) <= ConfirmsCapacity
    /\ waiting \in Events \union {Nothing}
    /\ buffer \in Nat
    /\ open \in BOOLEAN
    /\ undelivered \in 0 .. MaxDeliveries
    /\ accepted \subseteq Events
    /\ published \subseteq Events
    /\ ctx \in {"live", "cancelled", "spent"}
    /\ republished \in Nat
    /\ abandoned \in Nat

-----------------------------------------------------------------------------
Init ==
    /\ outbound = <<>>
    /\ inbound = <<>>
    /\ confirms = <<>>
    /\ waiting = Nothing
    /\ buffer = 0
    /\ open = TRUE
    /\ undelivered = MaxDeliveries
    /\ accepted = {}
    /\ published = {}
    /\ ctx = "live"
    /\ republished = 0
    /\ abandoned = 0

SentTwice(m) == outbound \o <<m, m>>  \* faulty: sends again at once

\* PublishWithContext and Publish of the client library.
Sent(m) == Append(outbound, m)

\* Publish takes b.mu and sends; the library does not look at the context.  It
\* is called again for an event that failed.
PublishSend(e) ==
    /\ open
    /\ waiting = Nothing
    /\ ctx # "spent"
    /\ e \notin published
    /\ outbound' = Sent(e)
    /\ waiting' = e
    /\ ctx' = IF ctx = "live" THEN "live" ELSE "spent"
    /\ UNCHANGED <<inbound, confirms, buffer, open, undelivered, accepted,
                   published, republished, abandoned>>

Received(confirmation) == TRUE  \* faulty: does not look at Ack

Succeeds(confirmation) == confirmation.ack

\* case confirmation := <-b.confirms: whichever confirmation is there is taken
\* for the one of this event.
PublishReceive ==
    /\ waiting # Nothing
    /\ confirms # <<>>
    /\ published' = IF Succeeds(Head(confirms))
                    THEN published \union {waiting} ELSE published
    /\ confirms' = Tail(confirms)
    /\ waiting' = Nothing
    /\ UNCHANGED <<outbound, inbound, buffer, open, undelivered, ctx, accepted,
                   republished, abandoned>>

ReceiveOpenOnly == FALSE /\ UNCHANGED vars  \* faulty: nobody ends the wait

\* The library closes b.confirms with the connection: once it is empty, Publish
\* receives the zero Confirmation, which is a nack.
PublishReceiveClosed ==
    /\ waiting # Nothing
    /\ confirms = <<>>
    /\ ~open
    /\ waiting' = Nothing
    /\ UNCHANGED <<outbound, inbound, confirms, buffer, open, undelivered, ctx,
                   accepted, published, republished, abandoned>>

\* case <-ctx.Done(): the confirmation is left to come.  When there is one as
\* well, the select takes either.
PublishAbandon ==
    /\ waiting # Nothing
    /\ ctx # "live"
    /\ waiting' = Nothing
    /\ abandoned' = abandoned + 1
    /\ UNCHANGED <<outbound, inbound, confirms, buffer, open, undelivered, ctx,
                   accepted, published, republished>>

\* workerCancel, when the application closes.  After a Publish in progress the
\* cycle ends; otherwise it may be just before the Publish of its next event.
Cancel ==
    /\ ctx = "live"
    /\ ctx' = IF waiting = Nothing THEN "cancelled" ELSE "spent"
    /\ UNCHANGED <<outbound, inbound, confirms, waiting, buffer, open,
                   undelivered, accepted, published, republished, abandoned>>

\* The consumer processes a delivery without publishing anything.
Process ==
    /\ buffer > 0
    /\ buffer' = buffer - 1
    /\ UNCHANGED <<outbound, inbound, confirms, waiting, open, undelivered, ctx,
                   accepted, published, republished, abandoned>>

\* The handler fails: publishRetry or publishDead takes b.mu, sends and returns.
\* Neither has a context.
Republish ==
    /\ open
    /\ waiting = Nothing
    /\ buffer > 0
    /\ buffer' = buffer - 1
    /\ outbound' = Sent(Retry)
    /\ republished' = republished + 1
    /\ UNCHANGED <<inbound, confirms, waiting, open, undelivered, ctx, accepted,
                   published, abandoned>>

\* The broker takes the next message and confirms it, or refuses and nacks it.
BrokerHandle(ack) ==
    /\ outbound # <<>>
    /\ outbound' = Tail(outbound)
    /\ inbound' = Append(inbound, [kind |-> "confirmation",
                                   of |-> Head(outbound), ack |-> ack])
    /\ accepted' = IF ack /\ Head(outbound) # Retry
                   THEN accepted \union {Head(outbound)} ELSE accepted
    /\ UNCHANGED <<confirms, waiting, buffer, open, undelivered, ctx, published,
                   republished, abandoned>>

BrokerDeliver ==
    /\ open
    /\ undelivered > 0
    /\ undelivered' = undelivered - 1
    /\ inbound' = Append(inbound, Delivery)
    /\ UNCHANGED <<outbound, confirms, waiting, buffer, open, ctx, accepted,
                   published, republished, abandoned>>

HasRoomForMore == Len(confirms) <= ConfirmsCapacity  \* faulty: one too many

HasRoom == Len(confirms) < ConfirmsCapacity

\* The reader of the connection hands out the next frame; a confirmation it
\* cannot place holds up everything behind it.
ReadFrame ==
    /\ inbound # <<>>
    /\ inbound' = Tail(inbound)
    /\ IF Head(inbound).kind = "delivery"
       THEN /\ buffer' = buffer + 1
            /\ UNCHANGED confirms
       ELSE /\ HasRoom
            /\ confirms' = Append(confirms, Head(inbound))
            /\ UNCHANGED buffer
    /\ UNCHANGED <<outbound, waiting, open, undelivered, ctx, accepted, published,
                   republished, abandoned>>

\* What is on its way in either direction is gone.
LoseConnection ==
    /\ open
    /\ open' = FALSE
    /\ outbound' = <<>>
    /\ inbound' = <<>>
    /\ UNCHANGED <<confirms, waiting, buffer, undelivered, ctx, accepted,
                   published, republished, abandoned>>

Next ==
    \/ \E e \in Events : PublishSend(e)
    \/ PublishReceive \/ PublishReceiveClosed \/ PublishAbandon
    \/ Cancel
    \/ Process \/ Republish
    \/ \E ack \in BOOLEAN : BrokerHandle(ack)
    \/ BrokerDeliver
    \/ ReadFrame
    \/ LoseConnection

Spec == Init /\ [][Next]_vars

\* The broker and the two goroutines that read go on; nothing has to be
\* published, delivered or lost.
Fairness ==
    /\ WF_vars(PublishReceive)
    /\ WF_vars(PublishReceiveClosed)
    /\ WF_vars(PublishAbandon)
    /\ WF_vars(\E ack \in BOOLEAN : BrokerHandle(ack))
    /\ WF_vars(ReadFrame)
    /\ WF_vars(Process \/ Republish)

FairSpec == Spec /\ Fairness

-----------------------------------------------------------------------------
\* Where in the frames the confirmations are.
Confirmations(frames) == {i \in 1 .. Len(frames) : frames[i].kind = "confirmation"}

\* Confirmations that are due to the channel and that nobody has taken.
Outstanding ==
    Len(outbound) + Cardinality(Confirmations(inbound)) + Len(confirms)

\* Confirmations that nobody waits for.
Unawaited == republished + abandoned

\* What leaves the channel a confirmation behind, for as long as the connection
\* lives: every retry, every dead letter and the Publish that is abandoned at
\* shutdown.  Nacks, a lost connection and repeated publications do not, and
\* nothing ever takes the channel into step again.  The one abandoned Publish
\* misleads no other: until the first retry or dead letter, Publish returns nil
\* for accepted events only, before the shutdown and during it.
BehindByUnawaited ==
    /\ open => Outstanding = Unawaited + (IF waiting = Nothing THEN 0 ELSE 1)
    /\ \A e \in published : e \in accepted \/ republished > 0

\* Publish returns, and lets go of b.mu: the goroutine it waits for is not
\* waiting for it, or for the consumer, in turn.
PublishReturns == \A e \in Events : waiting = e ~> waiting = Nothing

InTransit == SelectSeq(inbound, LAMBDA frame : frame.kind = "delivery")

\* A delivery that has reached the process is read, unless there are more
\* confirmations that nobody waits for than b.confirms can hold: those hold up
\* the connection until the outbox publishes something.
DeliveriesFlow ==
    (InTransit # <<>> /\ Unawaited <= ConfirmsCapacity)
        ~> (InTransit = <<>> \/ Unawaited > ConfirmsCapacity)

\* Design, "RabbitMQ topology": an event is marked as published only after
\* RabbitMQ has confirmed it.
PublishedWasConfirmed == published \subseteq accepted
=============================================================================
