------------------------------- MODULE Outbox -------------------------------
(***************************************************************************)
(* The transactional outbox: the table outbox_events, its repository and   *)
(* the Publisher workers (one per API instance) that poll it, publish each *)
(* claimed event to the broker and record the outcome.                     *)
(*                                                                         *)
(* Time is relative: a row keeps the ticks left until it is available      *)
(* again (delay) and until its lock expires (lock), so that no clock has   *)
(* to be bounded.  All instances read the same clock.                      *)
(*                                                                         *)
(* Attempts saturate at MaxAttempts: the code compares them with           *)
(* MaxAttempts and computes the backoff of an event that still has         *)
(* attempts left, so larger values cannot be told apart.                   *)
(***************************************************************************)
EXTENDS Integers, FiniteSets

CONSTANTS
    Events,          \* primary keys of outbox_events, ordered as integers
    Workers,         \* Publisher instances
    Sharing,         \* those over whose connection a Consumer publishes too
    Tokens,          \* supply of lock tokens, unique per claim in the code
    NoToken,         \* SQL NULL
    MaxAttempts,     \* Publisher.maxAttempts
    BatchSize,       \* Publisher.batchSize
    LockFor,         \* Publisher.lockFor, in ticks
    BackoffBase,     \* base of the exponential backoff, 5 in the code
    MaxBackoff,      \* largest backoff, in ticks
    MaxDisturbances  \* bound on abandoned cycles, restarts, ticks in a cycle

ASSUME EventsAssumption == Events \subseteq Nat /\ IsFiniteSet(Events)
ASSUME SharingAssumption == Sharing \subseteq Workers
ASSUME TokensAssumption == NoToken \notin Tokens
ASSUME LimitsAssumption ==
    /\ MaxAttempts \in Nat \ {0}
    /\ BatchSize \in Nat \ {0}
    /\ LockFor \in Nat \ {0}
    /\ MaxBackoff \in Nat
    /\ MaxDisturbances \in Nat
\* Weaker than BackoffBase \in Nat, from which no prover here derives it.
ASSUME BackoffAssumption ==
    \A attempts \in 1 .. MaxAttempts : BackoffBase ^ (attempts - 1) \in Nat

VARIABLES
    row,           \* row[e] is the row of event e in outbox_events
    worker,        \* worker[w] is the cycle PublishOnce is in
    accepted,      \* events of which the broker took a copy
    outOfStep,     \* those over whose channel one has published
    doubtful,      \* history: events that were refused, though Publish told nil
    tried,         \* history: events that were handed to the broker
    disturbances   \* disturbances so far

vars == <<row, worker, accepted, outOfStep, doubtful, tried, disturbances>>

Status == {"absent", "pending", "publishing", "published", "dead"}

Row == [status   : Status,
        attempts : 0 .. MaxAttempts,
        delay    : Nat,
        lock     : Nat,
        token    : Tokens \union {NoToken}]

\* ClaimedEvent: the attempts include the one of this claim.
Item == [id : Events, attempts : 1 .. MaxAttempts]

\* "publishing" is before broker.Publish, "confirmed" and "failed" are after
\* it and before the outcome is written.
Cycle == [pc    : {"idle", "publishing", "confirmed", "failed"},
          token : Tokens \union {NoToken},
          batch : SUBSET Item]

TypeOK ==
    /\ row \in [Events -> Row]
    /\ worker \in [Workers -> Cycle]
    /\ accepted \subseteq Events
    /\ outOfStep \subseteq Sharing
    /\ doubtful \subseteq Events
    /\ tried \subseteq Events
    /\ disturbances \in 0 .. MaxDisturbances

-----------------------------------------------------------------------------
Bump(n) == IF n < MaxAttempts THEN n + 1 ELSE n

Before(t) == IF t > 0 THEN t - 1 ELSE 0

Backoff(attempts) ==
    LET exponential == BackoffBase ^ (attempts - 1)
    IN  IF exponential < MaxBackoff THEN exponential ELSE MaxBackoff

Idle == [pc |-> "idle", token |-> NoToken, batch |-> {}]

IDs(batch) == {item.id : item \in batch}

\* The item PublishOnce is at: it walks the batch in the order of the ids.
IsCurrent(w, item) ==
    /\ item \in worker[w].batch
    /\ \A other \in worker[w].batch : item.id <= other.id

ClaimableAnyStatus(e) ==  \* faulty: selects by the times alone
    row[e].status # "absent" /\ row[e].delay = 0 /\ row[e].lock = 0

ClaimablePending(e) ==  \* faulty: never takes over an expired lock
    row[e].status = "pending" /\ row[e].delay = 0

Claimable(e) ==
    \/ row[e].status = "pending" /\ row[e].delay = 0
    \/ row[e].status = "publishing" /\ row[e].lock = 0

ClaimableRows == {e \in Events : Claimable(e)}

\* ORDER BY id ASC LIMIT batchSize
NextBatch ==
    {e \in ClaimableRows :
        Cardinality({f \in ClaimableRows : f < e}) < BatchSize}

TokensOfCycles ==  \* faulty: a token may come again after a crash
    {worker[w].token : w \in Workers}

TokensInUse ==
    {row[e].token : e \in Events} \union {worker[w].token : w \in Workers}

\* PublishOnce returns an error: the rest of the batch is left as it is.
EndCycle(w) == worker' = [worker EXCEPT ![w] = Idle]

ContinueNot(w, item) == EndCycle(w)  \* faulty: stops at the first item

\* The rest of the loop of PublishOnce, after `item` has been dealt with.
Continue(w, item) ==
    LET rest == worker[w].batch \ {item}
    IN  worker' = [worker EXCEPT ![w] =
            IF rest = {} THEN Idle
            ELSE [@ EXCEPT !.pc = "publishing", !.batch = rest]]

-----------------------------------------------------------------------------
Init ==
    /\ row = [e \in Events |-> [status |-> "absent", attempts |-> 0,
                                delay |-> 0, lock |-> 0, token |-> NoToken]]
    /\ worker = [w \in Workers |-> Idle]
    /\ accepted = {}
    /\ outOfStep = {}
    /\ doubtful = {}
    /\ tried = {}
    /\ disturbances = 0

\* AppendTx, at the commit of the business transaction that calls it.  Ids are
\* assigned at the INSERT, so commits may come in any order of the ids.
AppendTx(e) ==
    /\ row[e].status = "absent"
    /\ row' = [row EXCEPT ![e].status = "pending"]
    /\ UNCHANGED <<worker, accepted, outOfStep, doubtful, tried, disturbances>>

\* ClaimedEvent
Claimed(e) == [id |-> e, attempts |-> Bump(row[e].attempts)]

\* A token of the supply that nothing refers to any more stands for a new one.
ClaimBatch(w) ==
    /\ worker[w].pc = "idle"
    /\ NextBatch # {}
    /\ \E token \in Tokens \ TokensInUse :
        /\ token = CHOOSE t \in Tokens \ TokensInUse : TRUE
        /\ row' = [e \in Events |->
              IF e \in NextBatch
              THEN [row[e] EXCEPT !.status = "publishing",
                                  !.attempts = Bump(@),
                                  !.lock = LockFor,
                                  !.token = token]
              ELSE row[e]]
        /\ worker' = [worker EXCEPT ![w] =
              [pc |-> "publishing", token |-> token,
               batch |-> {Claimed(e) : e \in NextBatch}]]
    /\ UNCHANGED <<accepted, outOfStep, doubtful, tried, disturbances>>

\* broker.Publish: `reached` says whether the broker takes the message (now, or
\* later when Publish has not waited for it), and `confirmed` whether Publish
\* returned nil.
Publish(w, reached, confirmed) ==
    /\ worker[w].pc = "publishing"
    /\ \E item \in worker[w].batch :
        /\ IsCurrent(w, item)
        /\ accepted' = IF reached THEN accepted \union {item.id} ELSE accepted
        /\ doubtful' = IF confirmed /\ ~reached /\ w \in outOfStep
                       THEN doubtful \union {item.id} ELSE doubtful
        /\ tried' = tried \union {item.id}
    /\ worker' = [worker EXCEPT ![w].pc =
                     IF confirmed THEN "confirmed" ELSE "failed"]
    /\ UNCHANGED <<row, outOfStep, disturbances>>

MayTellAnything(w, reached, confirmed) == TRUE  \* faulty: does not look at Ack

\* What RabbitBroker.Publish may tell.  It reads one confirmation and returns
\* nil when that is an ack.  In step, the confirmation is the one of this
\* message; out of step, it may be the one of a message before it, and nil and
\* refused go together.  A nack, a closed channel and a cancelled context are
\* errors, whatever became of the message.
MayTell(w, reached, confirmed) == confirmed => reached \/ w \in outOfStep

PublishOutcome(w) ==
    \E reached, confirmed \in BOOLEAN :
        MayTell(w, reached, confirmed) /\ Publish(w, reached, confirmed)

\* The consumer that shares the connection of w publishes a retry or a dead
\* letter and does not read the confirmation: PublisherConfirms has the channel
\* of the confirmations itself.
Republish(w) ==
    /\ w \in Sharing \ outOfStep
    /\ outOfStep' = outOfStep \union {w}
    /\ UNCHANGED <<row, worker, accepted, doubtful, tried, disturbances>>

OwnedByAnyone(w, e) == row[e].status = "publishing"  \* faulty: no token

Owned(w, e) ==
    /\ row[e].status = "publishing"
    /\ row[e].token = worker[w].token

\* The UPDATE is by id, and only if the row still carries the token.
MarkPublished(w) ==
    /\ worker[w].pc = "confirmed"
    /\ \E item \in worker[w].batch :
        /\ IsCurrent(w, item)
        /\ IF Owned(w, item.id)
           THEN /\ row' = [row EXCEPT ![item.id].status = "published",
                                      ![item.id].lock = 0,
                                      ![item.id].token = NoToken]
                /\ Continue(w, item)
           ELSE /\ EndCycle(w)
                /\ UNCHANGED row
    /\ UNCHANGED <<accepted, outOfStep, doubtful, tried, disturbances>>

\* The UPDATE is by token alone: it takes every row of the batch that is still
\* locked, and any number of them but one is an error that ends the cycle.
MarkRetry(w) ==
    /\ worker[w].pc = "failed"
    /\ \E item \in worker[w].batch :
        /\ IsCurrent(w, item)
        /\ LET hit == {e \in Events : Owned(w, e)}
               next == IF item.attempts >= MaxAttempts
                       THEN "dead" ELSE "pending"
           IN  /\ row' = [e \in Events |->
                     IF e \in hit
                     THEN [row[e] EXCEPT !.status = next,
                                         !.delay = Backoff(item.attempts),
                                         !.lock = 0,
                                         !.token = NoToken]
                     ELSE row[e]]
               /\ IF Cardinality(hit) = 1 THEN Continue(w, item)
                                          ELSE EndCycle(w)
    /\ UNCHANGED <<accepted, outOfStep, doubtful, tried, disturbances>>

\* A statement of the repository fails: the cycle is over and the rows stay as
\* they are.
Abandon(w) ==
    /\ worker[w].pc # "idle"
    /\ disturbances < MaxDisturbances
    /\ EndCycle(w)
    /\ disturbances' = disturbances + 1
    /\ UNCHANGED <<row, accepted, outOfStep, doubtful, tried>>

\* The process crashes or is shut down, in a cycle or between two, and starts
\* again with a new connection.
Restart(w) ==
    /\ worker[w].pc # "idle" \/ w \in outOfStep
    /\ disturbances < MaxDisturbances
    /\ EndCycle(w)
    /\ outOfStep' = outOfStep \ {w}
    /\ disturbances' = disturbances + 1
    /\ UNCHANGED <<row, accepted, doubtful, tried>>

\* One unit of time.  A tick in the middle of a cycle is a disturbance: enough
\* of them and the lock expires while its owner is still publishing.
Tick ==
    /\ \E e \in Events : row[e].delay > 0 \/ row[e].lock > 0
    /\ row' = [e \in Events |-> [row[e] EXCEPT !.delay = Before(@),
                                               !.lock = Before(@)]]
    /\ IF \A w \in Workers : worker[w].pc = "idle"
       THEN UNCHANGED disturbances
       ELSE /\ disturbances < MaxDisturbances
            /\ disturbances' = disturbances + 1
    /\ UNCHANGED <<worker, accepted, outOfStep, doubtful, tried>>

Next ==
    \/ \E e \in Events : AppendTx(e)
    \/ \E w \in Workers : \/ ClaimBatch(w)
                          \/ PublishOutcome(w)
                          \/ MarkPublished(w)
                          \/ MarkRetry(w)
                          \/ Abandon(w)
                          \/ Restart(w)
                          \/ Republish(w)
    \/ Tick

Spec == Init /\ [][Next]_vars

\* Run polls at every tick of its ticker and finishes each cycle it starts;
\* time passes.  Nothing obliges a business transaction to happen.
Fairness ==
    /\ WF_vars(Tick)
    /\ \A w \in Workers :
        /\ WF_vars(ClaimBatch(w))
        /\ WF_vars(PublishOutcome(w))
        /\ WF_vars(MarkPublished(w))
        /\ WF_vars(MarkRetry(w))

FairSpec == Spec /\ Fairness

-----------------------------------------------------------------------------
\* A row is published only when Publish has told nil of this very event, however
\* batches, locks and late workers interleave: the broker took it, or refused it
\* over a channel that was out of step.  A process whose consumer has neither
\* retried nor buried anything files nothing that the broker did not take.
Told(e) == e \in accepted \union doubtful

PublishedWasAccepted ==
    \A e \in Events : row[e].status = "published" => Told(e)

\* The token of a worker's cycle is on no row outside the part of its batch
\* that is still to do.  The UPDATE of MarkRetry, which names no id, relies on
\* it: it can only reach rows of its own batch.
LockTokenNamesOneBatch ==
    \A w \in Workers :
        worker[w].token # NoToken =>
            /\ \A e \in Events : row[e].token = worker[w].token
                                    => e \in IDs(worker[w].batch)
            /\ \A v \in Workers : worker[v].token = worker[w].token => v = w

\* A cycle that ends with an error releases what it locked: only a crash, a
\* failing statement or an expired lock leaves a row in publishing with no
\* worker behind it, waiting for the lock to run out.
NoStrandedLock ==
    \A e \in Events :
        row[e].status = "publishing" =>
            \/ \E w \in Workers : worker[w].token = row[e].token
            \/ disturbances > 0

\* Published and dead are final: no late worker, no expired lock and no retry
\* of the batch brings a row back or turns one into the other, and nothing
\* appended is ever withdrawn; the outbox implements its abstract promise.
Abstract(status) ==
    CASE status = "absent" -> "none"
      [] status \in {"pending", "publishing"} -> "queued"
      [] OTHER -> status

Promise == INSTANCE AtLeastOnce WITH
              state <- [e \in Events |-> Abstract(row[e].status)]

ImplementsAtLeastOnce == Promise!Spec

\* Every event whose business transaction committed is in the end published or
\* declared dead, whatever finitely many crashes and late cycles do.
EverySubmittedEventSettles ==
    \A e \in Events :
        row[e].status # "absent" ~> row[e].status \in {"published", "dead"}

-----------------------------------------------------------------------------
\* The inductive invariant behind the theorems of OutboxProofs.

\* Exactly the rows that are being published are locked.
LockedWhilePublishing ==
    \A e \in Events : row[e].token # NoToken <=> row[e].status = "publishing"

\* A batch is there as long as its cycle lasts; it holds committed events, each
\* once.
BatchesWellFormed ==
    \A w \in Workers :
        /\ worker[w].pc = "idle" <=> worker[w].token = NoToken
        /\ worker[w].pc = "idle" => worker[w].batch = {}
        /\ \A item \in worker[w].batch : row[item.id].status # "absent"
        /\ \A item, other \in worker[w].batch : item.id = other.id => item = other

\* Between broker.Publish and MarkPublished: nil was told of the current event.
ConfirmedWasAccepted ==
    \A w \in Workers : \A item \in worker[w].batch :
        worker[w].pc = "confirmed" /\ IsCurrent(w, item) => Told(item.id)

\* Without disturbances no lock ever expires and workers keep what they claim.
LocksHoldUndisturbed ==
    disturbances = 0 =>
        /\ \A e \in Events : row[e].status = "publishing" =>
              /\ row[e].lock > 0
              /\ \E w \in Workers : worker[w].token = row[e].token
        /\ \A w \in Workers : \A item \in worker[w].batch : Owned(w, item.id)

\* The conjunction that every step preserves: what a cycle of PublishOnce may
\* rely on between its calls of the repository and of the broker.
IInv ==
    /\ TypeOK
    /\ PublishedWasAccepted
    /\ LockTokenNamesOneBatch
    /\ LockedWhilePublishing
    /\ BatchesWellFormed
    /\ ConfirmedWasAccepted
    /\ LocksHoldUndisturbed

-----------------------------------------------------------------------------
\* README: an event turns dead when publishing it failed too many times; so one
\* that was never handed to the broker is not dead.
DeadWasTried ==
    \A e \in Events : row[e].status = "dead" => e \in tried
=============================================================================
