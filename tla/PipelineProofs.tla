--------------------------- MODULE PipelineProofs ---------------------------
(***************************************************************************)
(* Proofs about Pipeline.  The two ends are proved about in their own      *)
(* modules; OutP and InP are those modules at the constants and variables  *)
(* of the composition, so that what each end keeps by itself need not be   *)
(* shown again.  What is left is what goes on between them.                *)
(***************************************************************************)
EXTENDS Pipeline, TLAPS

OutP == INSTANCE OutboxProofs WITH
        Workers <- Processes, Sharing <- Processes, LockFor <- PublishLock

InP == INSTANCE AuditConsumerProofs WITH
        Consumers <- Processes, LockFor <- InboxLock, Malformed <- {}

-----------------------------------------------------------------------------
(* The names of InP and OutP stand for the same as those of In and Out.     *)

\* Both instances of the consumer start alike.
LEMMA SameInboxInit == In!Init => InP!Init
  BY DEF In!Init, InP!Init, In!Free, InP!Free, In!SomeEvent, InP!SomeEvent,
         In!Nobody, InP!Nobody, In!Resting, InP!Resting

\* A set has the same cardinality in every instance.
LEMMA SameCardinality ==
    ASSUME NEW S
    PROVE  /\ In!Cardinality(S) = InP!Cardinality(S)
           /\ Out!Cardinality(S) = OutP!Cardinality(S)
  BY DEF In!Cardinality, InP!Cardinality, Out!Cardinality, OutP!Cardinality

\* Both instances of the consumer take the same steps.
LEMMA SameInboxNext == In!Next => InP!Next
<1>1. /\ In!FreeCopies = InP!FreeCopies
      /\ In!Free = InP!Free
      /\ In!Resting = InP!Resting
      /\ In!Nobody = InP!Nobody
      /\ In!ClaimedRow = InP!ClaimedRow
  BY DEF In!FreeCopies, InP!FreeCopies, In!Free, InP!Free, In!SomeEvent,
         InP!SomeEvent, In!Resting, InP!Resting, In!Nobody, InP!Nobody,
         In!ClaimedRow, InP!ClaimedRow
<1>2. ASSUME NEW kind
      PROVE  /\ In!Spend(kind) = InP!Spend(kind)
             /\ In!Fault(kind) = InP!Fault(kind)
  BY DEF In!Spend, InP!Spend, In!Fault, InP!Fault
<1>3. ASSUME NEW n, NEW t
      PROVE  In!UpTo(n, t) = InP!UpTo(n, t) /\ In!Before(t) = InP!Before(t)
  BY DEF In!UpTo, InP!UpTo, In!Before, InP!Before
<1>4. ASSUME NEW e \in Events, In!PublishEvent(e)
      PROVE  InP!PublishEvent(e)
  <2>1. In!SpareCopies = InP!SpareCopies
    BY SameCardinality DEF In!SpareCopies, InP!SpareCopies
  <2>2. In!Cardinality(In!FreeCopies) = InP!Cardinality(InP!FreeCopies)
    BY <1>1, SameCardinality
  <2>3. In!Spend("publish") = InP!Spend("publish")
    BY <1>2
  <2> QED
    BY <1>1, <1>4, <2>1, <2>2, <2>3 DEF In!PublishEvent, InP!PublishEvent
<1>5. ASSUME NEW m \in Copies, In!ExpireRetry(m)
      PROVE  InP!ExpireRetry(m)
  BY <1>5 DEF In!ExpireRetry, InP!ExpireRetry
<1>6. ASSUME NEW c \in Processes
      PROVE  /\ In!Unacked(c) = InP!Unacked(c)
             /\ In!Current(c) = InP!Current(c)
             /\ In!Done(c) = InP!Done(c)
             /\ In!AfterFailure(c) = InP!AfterFailure(c)
             /\ In!RetryDelay(c) = InP!RetryDelay(c)
             /\ In!RequeueUnacked(c) = InP!RequeueUnacked(c)
  BY DEF In!Unacked, InP!Unacked, In!Current, InP!Current, In!Done, InP!Done,
         In!AfterFailure, InP!AfterFailure, In!RetryDelay, InP!RetryDelay,
         In!RequeueUnacked, InP!RequeueUnacked, In!Requeued, InP!Requeued,
         In!Nobody, InP!Nobody
<1>7. ASSUME NEW c \in Processes, NEW pc
      PROVE  In!GoTo(c, pc) = InP!GoTo(c, pc)
  BY DEF In!GoTo, InP!GoTo
<1>8. ASSUME NEW c \in Processes, NEW m \in Copies, In!Deliver(c, m)
      PROVE  InP!Deliver(c, m)
  BY <1>6, <1>8, SameCardinality DEF In!Deliver, InP!Deliver
<1>9. ASSUME NEW c \in Processes, NEW d \in consumer[c].buffer,
             In!Reject(c, d) \/ In!ClaimInbox(c, d) \/ In!ClaimInboxFails(c, d)
      PROVE  InP!Reject(c, d) \/ InP!ClaimInbox(c, d) \/ InP!ClaimInboxFails(c, d)
  BY <1>1, <1>2, <1>9
     DEF In!Reject, InP!Reject, In!ClaimInbox, InP!ClaimInbox, In!Claims, InP!Claims,
         In!Start, InP!Start, In!ClaimInboxFails, InP!ClaimInboxFails
<1>10. ASSUME NEW c \in Processes,
              \/ In!HandlerSucceeds(c) \/ In!HandlerFails(c)
              \/ In!MarkInboxProcessed(c) \/ In!MarkInboxProcessedFails(c)
              \/ In!MarkInboxFailed(c) \/ In!MarkInboxFailedFails(c)
       PROVE  InP!Process(c)
  BY <1>2, <1>3, <1>6, <1>7, <1>10
     DEF InP!Process, In!HandlerSucceeds, InP!HandlerSucceeds, In!HandlerFails,
         InP!HandlerFails, In!MarkInboxProcessed, InP!MarkInboxProcessed,
         In!MarkInboxProcessedFails, InP!MarkInboxProcessedFails, In!MarkInboxFailed,
         InP!MarkInboxFailed, In!MarkInboxFailedFails, InP!MarkInboxFailedFails
<1>11. ASSUME NEW c \in Processes,
              \/ In!Retry(c) \/ In!DeadLetter(c)
              \/ In!RepublishIsRefused(c) \/ In!Ack(c)
       PROVE  InP!Process(c)
  BY <1>1, <1>2, <1>6, <1>7, <1>11
     DEF InP!Process, In!Retry, InP!Retry, In!DeadLetter, InP!DeadLetter,
         In!Republish, InP!Republish, In!RepublishIsRefused,
         InP!RepublishIsRefused, In!Ack, InP!Ack
<1>12. ASSUME NEW c \in Processes, In!Crash(c) \/ In!LoseConnection(c)
       PROVE  InP!Crash(c) \/ InP!LoseConnection(c)
  BY <1>1, <1>2, <1>6, <1>12
     DEF In!Crash, InP!Crash, In!LoseConnection, InP!LoseConnection
<1>13. In!Tick => InP!Tick
  BY <1>2, <1>3 DEF In!Tick, InP!Tick
<1> QED
  BY <1>4, <1>5, <1>8, <1>9, <1>10, <1>11, <1>12, <1>13
     DEF In!Next, InP!Next, In!Process, InP!Process

\* Both say the same of faults and copies.
LEMMA SameInboxWords ==
    /\ In!Faulty <=> InP!Faulty
    /\ \A e \in Events : In!Alive(e) <=> InP!Alive(e)
  BY DEF In!Faulty, InP!Faulty, In!Spent, InP!Spent, In!Alive, InP!Alive

\* Both instances of the outbox start alike.
LEMMA SameOutboxInit == Out!Init => OutP!Init
  BY DEF Out!Init, OutP!Init, Out!Idle, OutP!Idle

\* Both take the same steps.
LEMMA SameOutboxSteps ==
    /\ \A e \in Events : Out!AppendTx(e) => OutP!AppendTx(e)
    /\ \A p \in Processes :
        /\ Out!ClaimBatch(p) => OutP!ClaimBatch(p)
        /\ Out!MarkPublished(p) => OutP!MarkPublished(p)
        /\ Out!MarkRetry(p) => OutP!MarkRetry(p)
        /\ Out!Abandon(p) => OutP!Abandon(p)
        /\ Out!Restart(p) => OutP!Restart(p)
        /\ Out!Republish(p) => OutP!Republish(p)
    /\ Out!Tick => OutP!Tick
<1>1. \A e \in Events : Out!AppendTx(e) => OutP!AppendTx(e)
  BY DEF Out!AppendTx, OutP!AppendTx
<1>2. \A p \in Processes : Out!ClaimBatch(p) => OutP!ClaimBatch(p)
  <2>1. Out!ClaimableRows = OutP!ClaimableRows
    BY DEF Out!ClaimableRows, OutP!ClaimableRows, Out!Claimable, OutP!Claimable
  <2>2. Out!NextBatch = OutP!NextBatch
    BY <2>1, SameCardinality DEF Out!NextBatch, OutP!NextBatch
  <2>3. Out!TokensInUse = OutP!TokensInUse
    BY DEF Out!TokensInUse, OutP!TokensInUse
  <2>4. ASSUME NEW n
        PROVE  Out!Bump(n) = OutP!Bump(n)
    BY DEF Out!Bump, OutP!Bump
  <2>5. ASSUME NEW e
        PROVE  Out!Claimed(e) = OutP!Claimed(e)
    BY <2>4 DEF Out!Claimed, OutP!Claimed
  <2>6. {Out!Claimed(e) : e \in Out!NextBatch}
            = {OutP!Claimed(e) : e \in OutP!NextBatch}
    BY <2>2, <2>5
  <2> SUFFICES ASSUME NEW p \in Processes, Out!ClaimBatch(p)
               PROVE  OutP!ClaimBatch(p)
    OBVIOUS
  <2>7. PICK token \in Tokens \ Out!TokensInUse :
          /\ token = CHOOSE t \in Tokens \ Out!TokensInUse : TRUE
          /\ row' = [e \in Events |->
                IF e \in Out!NextBatch
                THEN [row[e] EXCEPT !.status = "publishing",
                                    !.attempts = Out!Bump(@),
                                    !.lock = PublishLock,
                                    !.token = token]
                ELSE row[e]]
          /\ worker' = [worker EXCEPT ![p] =
                [pc |-> "publishing", token |-> token,
                 batch |-> {Out!Claimed(e) : e \in Out!NextBatch}]]
    BY DEF Out!ClaimBatch
  <2>8. row' = [e \in Events |->
            IF e \in OutP!NextBatch
            THEN [row[e] EXCEPT !.status = "publishing",
                                !.attempts = OutP!Bump(@),
                                !.lock = PublishLock,
                                !.token = token]
            ELSE row[e]]
    BY <2>2, <2>4, <2>7
  <2>9. worker' = [worker EXCEPT ![p] =
            [pc |-> "publishing", token |-> token,
             batch |-> {OutP!Claimed(e) : e \in OutP!NextBatch}]]
    BY <2>6, <2>7
  <2>10. token = CHOOSE t \in Tokens \ OutP!TokensInUse : TRUE
    BY <2>3, <2>7
  <2>11. token \in Tokens \ OutP!TokensInUse
    BY <2>3, <2>7
  <2>12. /\ worker[p].pc = "idle"
         /\ OutP!NextBatch # {}
         /\ UNCHANGED <<accepted, outOfStep, doubtful, tried, disturbances>>
    BY <2>2 DEF Out!ClaimBatch
  <2> QED
    BY <2>8, <2>9, <2>10, <2>11, <2>12 DEF OutP!ClaimBatch
<1>3. \A p \in Processes : Out!MarkPublished(p) => OutP!MarkPublished(p)
  BY DEF Out!MarkPublished, OutP!MarkPublished, Out!IsCurrent, OutP!IsCurrent,
         Out!Owned, OutP!Owned, Out!Continue, OutP!Continue, Out!EndCycle,
         OutP!EndCycle, Out!Idle, OutP!Idle
<1>4. \A p \in Processes : Out!MarkRetry(p) => OutP!MarkRetry(p)
  <2>1. ASSUME NEW p \in Processes, NEW item
        PROVE  /\ Out!IsCurrent(p, item) = OutP!IsCurrent(p, item)
               /\ Out!Continue(p, item) = OutP!Continue(p, item)
               /\ Out!EndCycle(p) = OutP!EndCycle(p)
               /\ Out!Owned(p, item) = OutP!Owned(p, item)
               /\ Out!Backoff(item) = OutP!Backoff(item)
    BY DEF Out!IsCurrent, OutP!IsCurrent, Out!Continue, OutP!Continue,
           Out!EndCycle, OutP!EndCycle, Out!Idle, OutP!Idle, Out!Owned, OutP!Owned,
           Out!Backoff, OutP!Backoff
  <2> QED
    BY <2>1, SameCardinality DEF Out!MarkRetry, OutP!MarkRetry
<1>5. \A p \in Processes : /\ Out!Abandon(p) => OutP!Abandon(p)
                           /\ Out!Restart(p) => OutP!Restart(p)
                           /\ Out!Republish(p) => OutP!Republish(p)
  BY DEF Out!Abandon, OutP!Abandon, Out!Restart, OutP!Restart, Out!Republish,
         OutP!Republish, Out!EndCycle, OutP!EndCycle, Out!Idle, OutP!Idle
<1>6. Out!Tick => OutP!Tick
  BY DEF Out!Tick, OutP!Tick, Out!Before, OutP!Before
<1> QED
  BY <1>1, <1>2, <1>3, <1>4, <1>5, <1>6

\* And both let broker.Publish return the same.
LEMMA SamePublish ==
    ASSUME NEW p \in Processes, NEW reached \in BOOLEAN, NEW confirmed \in BOOLEAN
    PROVE  /\ Out!Publish(p, reached, confirmed)
              => OutP!Publish(p, reached, confirmed)
           /\ Out!MayTell(p, reached, confirmed)
              => OutP!MayTell(p, reached, confirmed)
  BY DEF Out!Publish, OutP!Publish, Out!MayTell, OutP!MayTell, Out!IsCurrent,
         OutP!IsCurrent

\* Finite is the same, too.
LEMMA SameFinite == IsFiniteSet(Events) => OutP!IsFiniteSet(Events)
  BY DEF IsFiniteSet, OutP!IsFiniteSet

-----------------------------------------------------------------------------
(* What holds between the two ends.                                         *)

\* The broker took nothing from the outbox that it did not put into its queues.
AcceptedWasSent == accepted \subseteq sent

\* Only the retry of a failed handler leaves confirmations unread.
DoubtTakesAFailure ==
    outOfStep # {} \/ doubtful # {} => \E e \in Events : failures[e] > 0

IInv ==
    /\ OutP!IInv
    /\ InP!IInv
    /\ InP!NothingIsLost
    /\ InP!WasSent
    /\ InP!FailuresWereSent
    /\ AcceptedWasSent
    /\ DoubtTakesAFailure

-----------------------------------------------------------------------------
\* To hand an event over is to publish the current one of the batch.
LEMMA HandOverPublishes ==
    ASSUME OutP!TypeOK, NEW p \in Processes, HandOver(p)
    PROVE  \E item \in worker[p].batch :
              /\ OutP!IsCurrent(p, item)
              /\ item.id \in Events
              /\ In!PublishEvent(item.id)
              /\ sent' = sent \union {item.id}
<1>1. PICK item \in worker[p].batch :
        Out!IsCurrent(p, item) /\ In!PublishEvent(item.id)
  BY DEF HandOver
<1>2. OutP!IsCurrent(p, item)
  BY <1>1 DEF Out!IsCurrent, OutP!IsCurrent
<1>3. item.id \in Events
  BY OutboxAssumption, SameFinite, OutP!BatchIDs
<1> QED
  BY <1>1, <1>2, <1>3 DEF In!PublishEvent

\* Every step is one of the consumers and the broker, or leaves them alone.
LEMMA InboxSteps ==
    ASSUME OutP!TypeOK, [Next]_vars
    PROVE  [InP!Next]_(InP!vars)
<1>1. In!Next \/ UNCHANGED inVars
  <2>1. ASSUME NEW p \in Processes, PublishReturns(p)
        PROVE  In!Next \/ UNCHANGED inVars
    BY <2>1, HandOverPublishes DEF PublishReturns, Publish, In!Next
  <2>2. ASSUME NEW p \in Processes, Consume(p) \/ Crash(p) \/ LoseConnection(p)
        PROVE  In!Next
    BY <2>2 DEF Consume, Crash, LoseConnection, In!Next
  <2>3. ASSUME ExpireRetry
        PROVE  In!Next
    BY <2>3 DEF ExpireRetry, In!Next
  <2>4. ASSUME Tick
        PROVE  In!Next \/ UNCHANGED inVars
    BY <2>4 DEF Tick, In!Next
  <2>5. ASSUME NEW p \in Processes, Bookkeep(p) \/ Abandon(p)
        PROVE  UNCHANGED inVars
    BY <2>5 DEF Bookkeep, Abandon
  <2>6. (\E e \in Events : Write(e)) \/ UNCHANGED vars => UNCHANGED inVars
    BY DEF Write, vars
  <2> QED
    BY <2>1, <2>2, <2>3, <2>4, <2>5, <2>6 DEF Next, Work
<1> QED
  BY <1>1, SameInboxNext DEF inVars, InP!vars

\* Every step is one of the outbox, or leaves it alone.
LEMMA OutboxSteps ==
    ASSUME [Next]_vars
    PROVE  [OutP!Next]_(OutP!vars)
<1> USE SameOutboxSteps
<1>1. ASSUME NEW e \in Events, Write(e)
      PROVE  OutP!Next \/ UNCHANGED outVars
  BY <1>1 DEF Write, CreateWithEvent, Record, OutP!Next
<1>2. ASSUME NEW p \in Processes, PublishReturns(p)
      PROVE  OutP!Next
  <2>1. OutP!PublishOutcome(p)
    BY <1>2, SamePublish DEF PublishReturns, Publish, MayReturn, OutP!PublishOutcome
  <2> QED
    BY <2>1 DEF OutP!Next
<1>3. ASSUME NEW p \in Processes, Bookkeep(p) \/ Abandon(p)
      PROVE  OutP!Next
  BY <1>3 DEF Bookkeep, Abandon, OutP!Next
<1>4. ASSUME NEW p \in Processes, Consume(p) \/ Crash(p) \/ LoseConnection(p)
      PROVE  OutP!Next \/ UNCHANGED outVars
  BY <1>4 DEF Consume, Crash, LoseConnection, OutP!Next
<1>5. ASSUME ExpireRetry \/ Tick
      PROVE  OutP!Next \/ UNCHANGED outVars
  BY <1>5 DEF ExpireRetry, Tick, OutP!Next
<1>6. UNCHANGED vars => UNCHANGED outVars
  BY DEF vars
<1>7. UNCHANGED outVars => UNCHANGED OutP!vars
  BY DEF outVars, OutP!vars
<1> QED
  BY <1>1, <1>2, <1>3, <1>4, <1>5, <1>6, <1>7 DEF Next, Work

\* Each end keeps what it keeps by itself.
LEMMA EndsStay ==
    ASSUME IInv, [Next]_vars
    PROVE  /\ OutP!IInv'
           /\ InP!IInv' /\ InP!NothingIsLost' /\ InP!WasSent'
           /\ InP!FailuresWereSent'
           /\ sent \subseteq sent'
           /\ \A e \in Events : failures[e] > 0 => failures'[e] > 0
<1>1. OutP!IInv'
  BY OutboxSteps, OutboxAssumption, SameFinite, OutP!NextKeeps DEF IInv
<1>2. [InP!Next]_(InP!vars)
  BY InboxSteps DEF IInv, OutP!IInv
<1> QED
  BY <1>1, <1>2, OutboxAssumption, InboxAssumption, InP!NextKeeps,
     InP!NextLosesNothing, InP!WasSentStays, InP!FailuresStaySent,
     InP!HistoryGrows DEF IInv, InP!Disturbances, InP!Nobody

\* The current item of a batch is one.
LEMMA OneIsCurrent ==
    ASSUME OutP!TypeOK, NEW p \in Processes,
           NEW item \in worker[p].batch, NEW other \in worker[p].batch,
           OutP!IsCurrent(p, item), OutP!IsCurrent(p, other)
    PROVE  item.id = other.id
<1>1. item.id \in Nat /\ other.id \in Nat
  BY OutboxAssumption, SameFinite, OutP!BatchIDs
<1>2. item.id <= other.id /\ other.id <= item.id
  BY DEF OutP!IsCurrent
<1> QED
  BY <1>1, <1>2

\* What a step makes of the broker's word: Publish hands the event over that it
\* says was taken, and doubts come over a channel that is out of step, which
\* takes a consumer that republishes.
LEMMA WordsOfTheBroker ==
    ASSUME IInv, [Next]_vars
    PROVE  /\ accepted' \subseteq accepted \union sent'
           /\ \/ outOfStep' \subseteq outOfStep
              \/ \E p \in Processes : Republishes(p)
           /\ doubtful' # {} => doubtful # {} \/ outOfStep # {}
<1> DEFINE Goal == /\ accepted' \subseteq accepted \union sent'
                   /\ \/ outOfStep' \subseteq outOfStep
                      \/ \E p \in Processes : Republishes(p)
                   /\ doubtful' # {} => doubtful # {} \/ outOfStep # {}
<1>1. ASSUME NEW p \in Processes, PublishReturns(p)
      PROVE  Goal
  <2>1. PICK reached \in BOOLEAN, confirmed \in BOOLEAN :
            Publish(p, reached, confirmed)
    BY <1>1 DEF PublishReturns
  <2>2. PICK item \in worker[p].batch :
            /\ OutP!IsCurrent(p, item)
            /\ accepted' = IF reached THEN accepted \union {item.id}
                           ELSE accepted
            /\ doubtful' = IF confirmed /\ ~reached /\ p \in outOfStep
                           THEN doubtful \union {item.id} ELSE doubtful
            /\ outOfStep' = outOfStep
    BY <2>1, SamePublish DEF Publish, OutP!Publish
  <2>3. CASE reached
    <3>1. PICK other \in worker[p].batch :
            OutP!IsCurrent(p, other) /\ sent' = sent \union {other.id}
      BY <2>1, <2>3, HandOverPublishes DEF Publish, IInv, OutP!IInv
    <3>2. item.id = other.id
      BY <2>2, <3>1, OneIsCurrent DEF IInv, OutP!IInv
    <3> QED
      BY <2>2, <2>3, <3>1, <3>2
  <2>4. CASE ~ reached
    BY <2>2, <2>4
  <2> QED
    BY <2>3, <2>4
<1>2. ASSUME UNCHANGED <<accepted, outOfStep, doubtful>>
      PROVE  Goal
  BY <1>2
<1>3. ASSUME NEW p \in Processes, Bookkeep(p) \/ Abandon(p)
      PROVE  UNCHANGED <<accepted, outOfStep, doubtful>>
  BY <1>3 DEF Bookkeep, Abandon, Out!ClaimBatch, Out!MarkPublished,
              Out!MarkRetry, Out!Abandon
<1>4. ASSUME NEW p \in Processes, Consume(p)
      PROVE  Goal
  <2>1. CASE Republishes(p)
    BY <1>4, <2>1 DEF Consume, Out!Republish, outVars
  <2>2. CASE ~ Republishes(p)
    BY <1>2, <1>4, <2>2 DEF Consume, outVars
  <2> QED
    BY <2>1, <2>2
<1>5. ASSUME NEW p \in Processes, Crash(p) \/ LoseConnection(p)
      PROVE  Goal
  BY <1>5 DEF Crash, LoseConnection, Out!Restart, outVars
<1>6. ASSUME \/ \E e \in Events : Write(e)
             \/ ExpireRetry \/ Tick
             \/ UNCHANGED vars
      PROVE  UNCHANGED <<accepted, outOfStep, doubtful>>
  BY <1>6 DEF Write, CreateWithEvent, Record, Out!AppendTx, ExpireRetry, Tick,
              Out!Tick, vars, outVars
<1> HIDE DEF Goal
<1>7. Goal
  BY <1>1, <1>2, <1>3, <1>4, <1>5, <1>6 DEF Next, Work
<1> QED
  BY <1>7 DEF Goal

\* A consumer that publishes a retry or a dead letter has had a failure.
LEMMA RepublishTakesAFailure ==
    ASSUME InP!IInv, NEW p \in Processes, Republishes(p)
    PROVE  \E e \in Events : failures[e] > 0
<1>1. InP!Busy(p) /\ consumer[p].pc \in {"retrying", "burying"}
  BY DEF Republishes, InP!Busy
<1>2. InP!Current(p) \in InP!Delivery
  BY <1>1, OutboxAssumption, InboxAssumption, InP!WorkerFields
     DEF InP!IInv, InP!Typed, InP!Busy, InP!Current, InP!Disturbances, InP!Nobody
<1>3. PICK e \in Events : InP!Current(p).event = e
  BY <1>2 DEF InP!Delivery
<1>4. InP!Current(p).attempt \in 1 .. MaxRetries
  BY <1>2 DEF InP!Delivery
<1>5. failures[e] \in 0 .. MaxRetries
  BY DEF InP!IInv, InP!Typed
<1>6. \/ failures[e] >= InP!Current(p).attempt
      \/ failures[e] = MaxRetries
  BY <1>1, <1>3 DEF InP!IInv, InP!FailuresAreCounted
<1> QED
  BY <1>4, <1>5, <1>6, InboxAssumption

\* With empty tables, empty queues and idle processes everything holds.
LEMMA InitIInv == Init => IInv
<1> SUFFICES ASSUME Init PROVE IInv
  OBVIOUS
<1>1. OutP!IInv
  BY OutboxAssumption, SameFinite, SameOutboxInit, OutP!InitIInv DEF Init
<1>2. InP!IInv
  BY OutboxAssumption, InboxAssumption, SameInboxInit, InP!InitIInv
     DEF Init, InP!Disturbances, InP!Nobody
<1>3. InP!NothingIsLost
  BY DEF Init, In!Init, InP!NothingIsLost, InP!CopySurvives, InP!LockIsGuarded
<1>4. InP!WasSent /\ InP!FailuresWereSent
  BY DEF Init, In!Init, In!Free, In!Resting, InP!WasSent, InP!FailuresWereSent,
         InP!Busy
<1>5. accepted = {} /\ outOfStep = {} /\ doubtful = {}
  BY DEF Init, Out!Init
<1> QED
  BY <1>1, <1>2, <1>3, <1>4, <1>5
     DEF IInv, AcceptedWasSent, DoubtTakesAFailure

\* The conjunction of the ends and of what is between them is inductive.
LEMMA Invariance == Spec => []IInv
<1>1. ASSUME IInv, [Next]_vars
      PROVE  IInv'
  <2>1. AcceptedWasSent'
    BY <1>1, EndsStay, WordsOfTheBroker DEF IInv, AcceptedWasSent
  <2>2. DoubtTakesAFailure'
    <3>1. (\E p \in Processes : Republishes(p)) =>
              \E e \in Events : failures[e] > 0
      BY <1>1, RepublishTakesAFailure DEF IInv
    <3>2. outOfStep' # {} \/ doubtful' # {} =>
              \E e \in Events : failures[e] > 0
      BY <1>1, <3>1, WordsOfTheBroker DEF IInv, DoubtTakesAFailure
    <3> QED
      BY <1>1, <3>2, EndsStay DEF DoubtTakesAFailure
  <2> QED
    BY <1>1, <2>1, <2>2, EndsStay DEF IInv
<1> QED
  BY InitIInv, <1>1, PTL DEF Spec

\* What never got to the broker is filed as published only after the handler has
\* failed on some other event.
THEOREM UnsentNeedsAnothersFailure == Spec => []UnsentTakesAnothersFailure
<1>1. IInv => UnsentTakesAnothersFailure
  <2> SUFFICES ASSUME IInv, NEW e \in Events, row[e].status = "published",
                      e \notin sent
               PROVE  \E f \in Events \ {e} : failures[f] > 0
    BY DEF UnsentTakesAnothersFailure
  <2>1. e \in doubtful
    BY DEF IInv, OutP!IInv, OutP!PublishedWasAccepted, OutP!Told,
           AcceptedWasSent
  <2>2. PICK f \in Events : failures[f] > 0
    BY <2>1 DEF IInv, DoubtTakesAFailure
  <2>3. f \in sent
    BY <2>2 DEF IInv, InP!FailuresWereSent
  <2> QED
    BY <2>2, <2>3
<1> QED
  BY <1>1, Invariance, PTL

\* Nothing falls through between the two tables: if a copy never comes back
\* before the lock of its failure is over, an event that the outbox has filed as
\* published was handled or is in a queue, or it was refused over a channel out
\* of step, or a fault hit a consumer that had claimed its row.
THEOREM NothingFallsThrough ==
    ASSUME MaxRetries <= RetryTTL + 1
    PROVE  Spec => []PublishedIsInGoodHands
<1>1. IInv => PublishedIsInGoodHands
  <2> SUFFICES ASSUME IInv, NEW e \in Events, row[e].status = "published",
                      ~ (handled[e] > 0), ~ In!Alive(e), e \notin doubtful
               PROVE  In!Faulty /\ inbox[e].status = "processing"
    BY DEF PublishedIsInGoodHands
  <2>1. e \in sent
    BY DEF IInv, OutP!IInv, OutP!PublishedWasAccepted, OutP!Told,
           AcceptedWasSent
  <2>2. handled[e] = 0
    BY DEF IInv, InP!IInv, InP!Typed
  <2>3. InP!Lost(e)
    BY <2>1, <2>2, SameInboxWords DEF InP!Lost
  <2>4. InP!CopySurvives
    BY DEF IInv, InP!NothingIsLost
  <2>5. InP!LossTakesAFault
    BY <2>4, OutboxAssumption, InboxAssumption, InP!LossIsExcused
       DEF IInv, InP!Disturbances, InP!Nobody
  <2> QED
    BY <2>3, <2>5, SameInboxWords DEF InP!LossTakesAFault
<1> QED
  BY <1>1, Invariance, PTL
=============================================================================
