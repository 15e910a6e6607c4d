---------------------------- MODULE OutboxProofs ----------------------------
(***************************************************************************)
(* Proofs about Outbox, for any number of events, workers and tokens and   *)
(* any limits.  The inductive invariant IInv is in Outbox, where TLC checks *)
(* it; here each action is shown to preserve each of its parts.            *)
(***************************************************************************)
EXTENDS Outbox, FiniteSetTheorems, TLAPS

-----------------------------------------------------------------------------
\* The backoff of MarkRetry is a number of ticks, whatever the attempt.
LEMMA BackoffType ==
    ASSUME NEW attempts \in 1 .. MaxAttempts
    PROVE  Backoff(attempts) \in Nat
  BY LimitsAssumption, BackoffAssumption DEF Backoff

\* An event that is claimed or published once more stays within the attempts.
LEMMA BumpType ==
    ASSUME NEW n \in 0 .. MaxAttempts
    PROVE  /\ Bump(n) \in 0 .. MaxAttempts
           /\ Bump(n) \in 1 .. MaxAttempts
  BY LimitsAssumption DEF Bump

\* The idle cycle is a cycle, and so is what is left of one.
LEMMA CycleType ==
    ASSUME TypeOK, NEW w \in Workers
    PROVE  /\ Idle \in Cycle
           /\ EndCycle(w) => worker' \in [Workers -> Cycle]
           /\ \A item \in worker[w].batch :
                 Continue(w, item) => worker' \in [Workers -> Cycle]
<1>1. Idle \in Cycle
  BY DEF Idle, Cycle
<1>2. EndCycle(w) => worker' \in [Workers -> Cycle]
  BY <1>1 DEF EndCycle, TypeOK
<1>3. ASSUME NEW item \in worker[w].batch, Continue(w, item)
      PROVE  worker' \in [Workers -> Cycle]
  <2> DEFINE rest == worker[w].batch \ {item}
             next == [worker[w] EXCEPT !.pc = "publishing", !.batch = rest]
  <2>1. worker[w] \in Cycle
    BY DEF TypeOK
  <2>2. rest \in SUBSET Item
    BY <2>1 DEF Cycle
  <2>3. next \in Cycle
    BY <2>1, <2>2 DEF Cycle
  <2>4. worker' = [worker EXCEPT ![w] = IF rest = {} THEN Idle ELSE next]
    BY <1>3 DEF Continue
  <2> HIDE DEF rest, next
  <2> QED
    BY <1>1, <2>3, <2>4 DEF TypeOK
<1> QED
  BY <1>1, <1>2, <1>3

\* What a batch holds are keys of the table.
LEMMA BatchIDs ==
    ASSUME TypeOK, NEW w \in Workers, NEW item \in worker[w].batch
    PROVE  item.id \in Events /\ item.id \in Nat
<1>1. worker[w].batch \in SUBSET Item
  BY DEF TypeOK, Cycle
<1>2. item.id \in Events
  BY <1>1 DEF Item
<1>3. Events \subseteq Nat
  BY EventsAssumption
<1> QED
  BY <1>2, <1>3

\* Whatever broker.Publish returns, its types are kept.
LEMMA PublishTypes ==
    ASSUME TypeOK, NEW w \in Workers,
           NEW reached \in BOOLEAN, NEW confirmed \in BOOLEAN,
           Publish(w, reached, confirmed)
    PROVE  TypeOK'
<1>1. PICK item \in worker[w].batch :
        /\ accepted' \subseteq accepted \union {item.id}
        /\ doubtful' \subseteq doubtful \union {item.id}
        /\ tried' = tried \union {item.id}
  BY DEF Publish
<1>2. item.id \in Events
  BY BatchIDs
<1>3. tried' \subseteq Events
  BY <1>1, <1>2 DEF TypeOK
<1>4. worker' \in [Workers -> Cycle]
  BY DEF Publish, TypeOK, Cycle
<1> QED
  BY <1>1, <1>2, <1>3, <1>4 DEF Publish, TypeOK

-----------------------------------------------------------------------------
\* Every step of every handler leaves rows and cycles of their types.
LEMMA TypePreserved == TypeOK /\ [Next]_vars => TypeOK'
<1> SUFFICES ASSUME TypeOK, [Next]_vars PROVE TypeOK'
  OBVIOUS
<1> USE LimitsAssumption, TokensAssumption
<1>1. ASSUME NEW e \in Events, AppendTx(e) PROVE TypeOK'
  BY <1>1 DEF AppendTx, TypeOK, Row, Status
<1>2. ASSUME NEW w \in Workers, ClaimBatch(w) PROVE TypeOK'
  <2>1. PICK token \in Tokens :
          /\ row' = [e \in Events |->
                IF e \in NextBatch
                THEN [row[e] EXCEPT !.status = "publishing",
                                    !.attempts = Bump(@),
                                    !.lock = LockFor,
                                    !.token = token]
                ELSE row[e]]
          /\ worker' = [worker EXCEPT ![w] =
                [pc |-> "publishing", token |-> token,
                 batch |-> {Claimed(e) : e \in NextBatch}]]
    BY <1>2 DEF ClaimBatch
  <2>2. \A e \in Events : Bump(row[e].attempts) \in 1 .. MaxAttempts
    BY BumpType DEF TypeOK, Row
  <2>3. row' \in [Events -> Row]
    <3>1. ASSUME NEW e \in Events, NEW n \in 0 .. MaxAttempts
          PROVE  [row[e] EXCEPT !.status = "publishing", !.attempts = n,
                                !.lock = LockFor, !.token = token] \in Row
      BY DEF TypeOK, Row, Status
    <3>2. ASSUME NEW e \in Events
          PROVE  [row[e] EXCEPT !.status = "publishing",
                                !.attempts = Bump(@),
                                !.lock = LockFor,
                                !.token = token] \in Row
      <4>1. Bump(row[e].attempts) \in 0 .. MaxAttempts
        BY <2>2
      <4> QED
        BY <3>1, <4>1
    <3> QED
      BY <2>1, <3>2 DEF TypeOK
  <2>4. NextBatch \subseteq Events
    BY DEF NextBatch, ClaimableRows
  <2>5. {Claimed(e) : e \in NextBatch} \subseteq Item
    BY <2>2, <2>4 DEF Item, Claimed
  <2>6. worker' \in [Workers -> Cycle]
    BY <2>1, <2>5 DEF TypeOK, Cycle
  <2> QED
    BY <1>2, <2>3, <2>6 DEF ClaimBatch, TypeOK
<1>3. ASSUME NEW w \in Workers, PublishOutcome(w) PROVE TypeOK'
  BY <1>3, PublishTypes DEF PublishOutcome
<1>4. ASSUME NEW w \in Workers, MarkPublished(w) PROVE TypeOK'
  <2>1. PICK item \in worker[w].batch :
            IF Owned(w, item.id)
            THEN /\ row' = [row EXCEPT ![item.id].status = "published",
                                       ![item.id].lock = 0,
                                       ![item.id].token = NoToken]
                 /\ Continue(w, item)
            ELSE /\ EndCycle(w)
                 /\ UNCHANGED row
    BY <1>4 DEF MarkPublished
  <2>2. worker' \in [Workers -> Cycle]
    BY <2>1, CycleType
  <2>3. row' \in [Events -> Row]
    BY <2>1 DEF TypeOK, Row, Status
  <2> QED
    BY <1>4, <2>2, <2>3 DEF MarkPublished, TypeOK
<1>5. ASSUME NEW w \in Workers, MarkRetry(w) PROVE TypeOK'
  <2>1. PICK item \in worker[w].batch :
            /\ row' = [e \in Events |->
                  IF e \in {f \in Events : Owned(w, f)}
                  THEN [row[e] EXCEPT
                          !.status = IF item.attempts >= MaxAttempts
                                     THEN "dead" ELSE "pending",
                          !.delay = Backoff(item.attempts),
                          !.lock = 0,
                          !.token = NoToken]
                  ELSE row[e]]
            /\ IF Cardinality({f \in Events : Owned(w, f)}) = 1
               THEN Continue(w, item) ELSE EndCycle(w)
    BY <1>5 DEF MarkRetry
  <2>2. worker' \in [Workers -> Cycle]
    BY <2>1, CycleType
  <2>3. Backoff(item.attempts) \in Nat
    BY BackoffType DEF TypeOK, Cycle, Item
  <2>4. row' \in [Events -> Row]
    BY <2>1, <2>3 DEF TypeOK, Row, Status
  <2> QED
    BY <1>5, <2>2, <2>4 DEF MarkRetry, TypeOK
<1>6. ASSUME NEW w \in Workers, Abandon(w) \/ Restart(w) \/ Republish(w)
      PROVE  TypeOK'
  BY <1>6, CycleType DEF Abandon, Restart, Republish, TypeOK
<1>7. ASSUME Tick PROVE TypeOK'
  <2>1. row' \in [Events -> Row]
    <3>1. ASSUME NEW e \in Events, NEW d \in Nat, NEW l \in Nat
          PROVE  [row[e] EXCEPT !.delay = d, !.lock = l] \in Row
      BY DEF TypeOK, Row
    <3>2. ASSUME NEW e \in Events
          PROVE  Before(row[e].delay) \in Nat /\ Before(row[e].lock) \in Nat
      BY DEF TypeOK, Row, Before
    <3> QED
      BY <1>7, <3>1, <3>2 DEF Tick
  <2>2. disturbances' \in 0 .. MaxDisturbances
    <3>1. \/ disturbances' = disturbances
          \/ /\ disturbances < MaxDisturbances
             /\ disturbances' = disturbances + 1
      BY <1>7 DEF Tick
    <3> QED
      BY <3>1 DEF TypeOK
  <2> QED
    BY <1>7, <2>1, <2>2 DEF Tick, TypeOK
<1>8. ASSUME UNCHANGED vars PROVE TypeOK'
  BY <1>8 DEF vars, TypeOK
<1> QED
  BY <1>1, <1>2, <1>3, <1>4, <1>5, <1>6, <1>7, <1>8 DEF Next

-----------------------------------------------------------------------------
(* What the steps do to single rows and cycles, so that the proofs below     *)
(* need not look into records again.                                         *)

Others(w) == \A v \in Workers \ {w} : worker'[v] = worker[v]

\* The cycle of w is over.
Stops(w) == Others(w) /\ worker'[w] = Idle

\* The cycle of w goes on with what is left after the item.
GoesOn(w, item) ==
    /\ Others(w)
    /\ worker'[w].pc = "publishing"
    /\ worker'[w].token = worker[w].token
    /\ worker'[w].batch = worker[w].batch \ {item}
    /\ worker'[w].batch # {}

\* A worker that has dealt with an item stops or goes on with the others.
LEMMA CycleEffect ==
    ASSUME TypeOK, NEW w \in Workers
    PROVE  /\ EndCycle(w) => Stops(w)
           /\ \A item \in worker[w].batch : Continue(w, item) =>
                 \/ worker[w].batch = {item} /\ Stops(w)
                 \/ GoesOn(w, item)
<1>1. EndCycle(w) => Stops(w)
  BY DEF EndCycle, Stops, Others, TypeOK
<1>2. ASSUME NEW item \in worker[w].batch, Continue(w, item)
      PROVE  \/ worker[w].batch = {item} /\ Stops(w)
             \/ GoesOn(w, item)
  <2>1. CASE worker[w].batch \ {item} = {}
    BY <1>2, <2>1 DEF Continue, Stops, Others, TypeOK
  <2>2. CASE worker[w].batch \ {item} # {}
    <3>1. worker' = [worker EXCEPT ![w] =
              [@ EXCEPT !.pc = "publishing", !.batch = worker[w].batch \ {item}]]
      BY <1>2, <2>2 DEF Continue
    <3>2. worker[w] \in Cycle
      BY DEF TypeOK
    <3> QED
      BY <2>2, <3>1, <3>2 DEF GoesOn, Others, TypeOK, Cycle
  <2> QED
    BY <2>1, <2>2
<1> QED
  BY <1>1, <1>2

\* A claim puts one new token on every row of the batch, and on nothing else.
LEMMA ClaimEffect ==
    ASSUME TypeOK, NEW w \in Workers, ClaimBatch(w)
    PROVE  \E token \in Tokens \ TokensInUse :
              /\ \A e \in NextBatch : /\ row'[e].status = "publishing"
                                      /\ row'[e].token = token
                                      /\ row'[e].lock = LockFor
              /\ \A e \in Events \ NextBatch : row'[e] = row[e]
              /\ Others(w)
              /\ worker'[w].pc = "publishing"
              /\ worker'[w].token = token
              /\ IDs(worker'[w].batch) = NextBatch
              /\ \A item, other \in worker'[w].batch :
                    item.id = other.id => item = other
<1>1. PICK token \in Tokens \ TokensInUse :
        /\ row' = [e \in Events |->
              IF e \in NextBatch
              THEN [row[e] EXCEPT !.status = "publishing",
                                  !.attempts = Bump(@),
                                  !.lock = LockFor,
                                  !.token = token]
              ELSE row[e]]
        /\ worker' = [worker EXCEPT ![w] =
              [pc |-> "publishing", token |-> token,
               batch |-> {Claimed(e) : e \in NextBatch}]]
  BY DEF ClaimBatch
<1>2. NextBatch \subseteq Events
  BY DEF NextBatch, ClaimableRows
<1>3. \A e \in NextBatch : /\ row'[e].status = "publishing"
                           /\ row'[e].token = token
                           /\ row'[e].lock = LockFor
  BY <1>1, <1>2 DEF TypeOK, Row
<1>4. \A e \in Events \ NextBatch : row'[e] = row[e]
  BY <1>1
<1>5. /\ Others(w)
      /\ worker'[w].pc = "publishing"
      /\ worker'[w].token = token
      /\ worker'[w].batch = {Claimed(e) : e \in NextBatch}
  BY <1>1 DEF Others, TypeOK
<1>6. IDs(worker'[w].batch) = NextBatch
  <2>1. ASSUME NEW e \in NextBatch
        PROVE  \E item \in worker'[w].batch : item.id = e
    <3>1. Claimed(e) \in worker'[w].batch
      BY <1>5
    <3> QED
      BY <3>1 DEF Claimed
  <2>2. \A item \in worker'[w].batch : item.id \in NextBatch
    BY <1>5 DEF Claimed
  <2> QED
    BY <2>1, <2>2 DEF IDs
<1>7. \A item, other \in worker'[w].batch : item.id = other.id => item = other
  BY <1>5 DEF Claimed
<1> QED
  BY <1>3, <1>4, <1>5, <1>6, <1>7

\* MarkPublished settles the row of the current item if it is still locked by
\* this batch, and otherwise changes no row.
LEMMA MarkPublishedEffect ==
    ASSUME TypeOK, NEW w \in Workers, MarkPublished(w)
    PROVE  \E item \in worker[w].batch :
              /\ IsCurrent(w, item)
              /\ \/ /\ Owned(w, item.id)
                    /\ row'[item.id].status = "published"
                    /\ row'[item.id].token = NoToken
                    /\ \A e \in Events \ {item.id} : row'[e] = row[e]
                    /\ \/ worker[w].batch = {item} /\ Stops(w)
                       \/ GoesOn(w, item)
                 \/ ~ Owned(w, item.id) /\ row' = row /\ Stops(w)
<1>1. PICK item \in worker[w].batch :
        /\ IsCurrent(w, item)
        /\ IF Owned(w, item.id)
           THEN /\ row' = [row EXCEPT ![item.id].status = "published",
                                      ![item.id].lock = 0,
                                      ![item.id].token = NoToken]
                /\ Continue(w, item)
           ELSE /\ EndCycle(w)
                /\ UNCHANGED row
  BY DEF MarkPublished
<1>2. CASE Owned(w, item.id)
  <2>1. item.id \in Events
    BY BatchIDs
  <2>2. /\ row'[item.id].status = "published"
        /\ row'[item.id].token = NoToken
        /\ \A e \in Events \ {item.id} : row'[e] = row[e]
    BY <1>1, <1>2, <2>1 DEF TypeOK, Row
  <2> QED
    BY <1>1, <1>2, <2>2, CycleEffect
<1>3. CASE ~ Owned(w, item.id)
  BY <1>1, <1>3, CycleEffect
<1> QED
  BY <1>2, <1>3

\* MarkRetry releases every row that is still locked by the batch, and goes on
\* only if that was one row.
LEMMA MarkRetryEffect ==
    ASSUME TypeOK, NEW w \in Workers, MarkRetry(w)
    PROVE  \E item \in worker[w].batch :
              /\ \A e \in Events : Owned(w, e) =>
                    /\ row'[e].status = IF item.attempts >= MaxAttempts
                                        THEN "dead" ELSE "pending"
                    /\ row'[e].token = NoToken
              /\ \A e \in Events : ~ Owned(w, e) => row'[e] = row[e]
              /\ \/ Stops(w)
                 \/ /\ Cardinality({e \in Events : Owned(w, e)}) = 1
                    /\ GoesOn(w, item)
<1>1. PICK item \in worker[w].batch :
        /\ row' = [e \in Events |->
              IF e \in {f \in Events : Owned(w, f)}
              THEN [row[e] EXCEPT
                      !.status = IF item.attempts >= MaxAttempts
                                 THEN "dead" ELSE "pending",
                      !.delay = Backoff(item.attempts),
                      !.lock = 0,
                      !.token = NoToken]
              ELSE row[e]]
        /\ IF Cardinality({f \in Events : Owned(w, f)}) = 1
           THEN Continue(w, item) ELSE EndCycle(w)
  BY DEF MarkRetry
<1>2. \A e \in Events : Owned(w, e) =>
        /\ row'[e].status = IF item.attempts >= MaxAttempts
                            THEN "dead" ELSE "pending"
        /\ row'[e].token = NoToken
  BY <1>1 DEF TypeOK, Row
<1>3. \A e \in Events : ~ Owned(w, e) => row'[e] = row[e]
  BY <1>1
<1>4. \/ Stops(w)
      \/ /\ Cardinality({e \in Events : Owned(w, e)}) = 1
         /\ GoesOn(w, item)
  BY <1>1, CycleEffect
<1> QED
  BY <1>2, <1>3, <1>4

\* Whatever broker.Publish returns, it changes nothing of the cycle but where it
\* is.
LEMMA PublishCycle ==
    ASSUME TypeOK, NEW w \in Workers,
           NEW reached \in BOOLEAN, NEW confirmed \in BOOLEAN,
           Publish(w, reached, confirmed)
    PROVE  /\ row' = row
           /\ Others(w)
           /\ worker[w].pc = "publishing"
           /\ worker'[w].token = worker[w].token
           /\ worker'[w].batch = worker[w].batch
           /\ worker'[w].pc = IF confirmed THEN "confirmed" ELSE "failed"
  BY DEF Publish, Others, TypeOK, Cycle

\* What PublishOutcome leaves of the cycle, and that nil is told of the current
\* event.
LEMMA PublishEffect ==
    ASSUME TypeOK, NEW w \in Workers, PublishOutcome(w)
    PROVE  /\ row' = row
           /\ disturbances' = disturbances
           /\ \A e \in Events : Told(e) => Told(e)'
           /\ Others(w)
           /\ worker[w].pc = "publishing"
           /\ worker'[w].token = worker[w].token
           /\ worker'[w].batch = worker[w].batch
           /\ worker'[w].pc \in {"confirmed", "failed"}
           /\ \E item \in worker[w].batch :
                 /\ IsCurrent(w, item)
                 /\ \/ doubtful' = doubtful
                       /\ accepted' \subseteq accepted \union {item.id}
                       /\ accepted \subseteq accepted'
                    \/ accepted' = accepted
                       /\ doubtful' = doubtful \union {item.id}
                 /\ worker'[w].pc = "confirmed" => Told(item.id)'
<1>1. PICK reached \in BOOLEAN, confirmed \in BOOLEAN :
        /\ Publish(w, reached, confirmed)
        /\ MayTell(w, reached, confirmed)
  BY DEF PublishOutcome
<1>2. /\ Others(w)
      /\ worker'[w].token = worker[w].token
      /\ worker'[w].batch = worker[w].batch
      /\ worker'[w].pc = IF confirmed THEN "confirmed" ELSE "failed"
  BY <1>1, PublishCycle
<1>3. PICK item \in worker[w].batch :
        /\ IsCurrent(w, item)
        /\ accepted' = IF reached THEN accepted \union {item.id} ELSE accepted
        /\ doubtful' = IF confirmed /\ ~reached /\ w \in outOfStep
                       THEN doubtful \union {item.id} ELSE doubtful
  BY <1>1 DEF Publish
<1>4. confirmed => Told(item.id)'
  BY <1>1, <1>3 DEF MayTell, Told
<1>5. \A e \in Events : Told(e) => Told(e)'
  BY <1>3 DEF Told
<1> QED
  BY <1>1, <1>2, <1>3, <1>4, <1>5 DEF Publish

\* A cycle that is given up ends as it is; a publication of the consumer leaves
\* the cycles alone.
LEMMA InterruptionEffect ==
    ASSUME TypeOK, NEW w \in Workers, Abandon(w) \/ Restart(w) \/ Republish(w)
    PROVE  /\ row' = row
           /\ UNCHANGED <<accepted, doubtful>>
           /\ \/ Stops(w) /\ disturbances' = disturbances + 1
              \/ worker' = worker /\ disturbances' = disturbances
  BY CycleEffect DEF Abandon, Restart, Republish

\* A tick only counts down.
LEMMA TickEffect ==
    ASSUME TypeOK, Tick
    PROVE  /\ \A e \in Events : /\ row'[e].status = row[e].status
                                /\ row'[e].token = row[e].token
           /\ UNCHANGED <<worker, accepted, doubtful>>
           /\ disturbances' = 0 => /\ disturbances = 0
                                   /\ \A w \in Workers : worker[w].pc = "idle"
<1>1. \A e \in Events : /\ row'[e].status = row[e].status
                        /\ row'[e].token = row[e].token
  BY DEF Tick, TypeOK, Row
<1>2. UNCHANGED <<worker, accepted, doubtful>>
  BY DEF Tick
<1>3. disturbances' = 0 => /\ disturbances = 0
                           /\ \A w \in Workers : worker[w].pc = "idle"
  <2>1. disturbances \in Nat
    BY LimitsAssumption DEF TypeOK
  <2>2. CASE \A w \in Workers : worker[w].pc = "idle"
    BY <2>2 DEF Tick
  <2>3. CASE ~ \A w \in Workers : worker[w].pc = "idle"
    <3>1. disturbances' = disturbances + 1
      BY <2>3 DEF Tick
    <3> QED
      BY <2>1, <3>1
  <2> QED
    BY <2>2, <2>3
<1> QED
  BY <1>1, <1>2, <1>3

-----------------------------------------------------------------------------
\* Exactly the rows that are being published stay locked.
LEMMA LockedPreserved ==
    IInv /\ [Next]_vars => LockedWhilePublishing'
<1> SUFFICES ASSUME IInv, [Next]_vars PROVE LockedWhilePublishing'
  OBVIOUS
<1> USE TokensAssumption DEF IInv, LockedWhilePublishing
<1>1. ASSUME NEW e \in Events, AppendTx(e) PROVE LockedWhilePublishing'
  BY <1>1 DEF AppendTx, TypeOK, Row
<1>2. ASSUME NEW w \in Workers, ClaimBatch(w) PROVE LockedWhilePublishing'
  BY <1>2, ClaimEffect
<1>3. ASSUME NEW w \in Workers, PublishOutcome(w) PROVE LockedWhilePublishing'
  BY <1>3 DEF PublishOutcome, Publish
<1>4. ASSUME NEW w \in Workers, MarkPublished(w) PROVE LockedWhilePublishing'
  BY <1>4, MarkPublishedEffect
<1>5. ASSUME NEW w \in Workers, MarkRetry(w) PROVE LockedWhilePublishing'
  BY <1>5, MarkRetryEffect
<1>6. ASSUME NEW w \in Workers, Abandon(w) \/ Restart(w) \/ Republish(w)
      PROVE  LockedWhilePublishing'
  BY <1>6, InterruptionEffect
<1>7. ASSUME Tick PROVE LockedWhilePublishing'
  BY <1>7, TickEffect
<1>8. ASSUME UNCHANGED vars PROVE LockedWhilePublishing'
  BY <1>8 DEF vars
<1> QED
  BY <1>1, <1>2, <1>3, <1>4, <1>5, <1>6, <1>7, <1>8 DEF Next

\* Batches stay well formed: claimed rows are committed ones, and none of the
\* updates makes a row disappear.
LEMMA BatchesPreserved ==
    TypeOK /\ BatchesWellFormed /\ [Next]_vars => BatchesWellFormed'
<1> SUFFICES ASSUME TypeOK, BatchesWellFormed, [Next]_vars
             PROVE  BatchesWellFormed'
  OBVIOUS
<1> USE TokensAssumption DEF BatchesWellFormed
<1>1. ASSUME NEW e \in Events, AppendTx(e) PROVE BatchesWellFormed'
  <2>1. \A f \in Events : row[f].status # "absent" => row'[f].status # "absent"
    BY <1>1 DEF AppendTx, TypeOK, Row
  <2>2. \A w \in Workers : \A item \in worker[w].batch : item.id \in Events
    BY BatchIDs
  <2> QED
    BY <1>1, <2>1, <2>2 DEF AppendTx
<1>2. ASSUME NEW w \in Workers, ClaimBatch(w) PROVE BatchesWellFormed'
  <2>1. \A f \in Events : row[f].status # "absent" => row'[f].status # "absent"
    BY <1>2, ClaimEffect
  <2>2. \A v \in Workers : \A item \in worker[v].batch : item.id \in Events
    BY BatchIDs
  <2>3. \A e \in NextBatch : row'[e].status # "absent"
    BY <1>2, ClaimEffect
  <2>4. \A item \in worker'[w].batch : item.id \in NextBatch
    BY <1>2, ClaimEffect DEF IDs
  <2>5. /\ Others(w)
        /\ worker'[w].pc = "publishing"
        /\ worker'[w].token # NoToken
        /\ \A item, other \in worker'[w].batch :
              item.id = other.id => item = other
    BY <1>2, ClaimEffect
  <2> QED
    BY <2>1, <2>2, <2>3, <2>4, <2>5 DEF Others
<1>3. ASSUME NEW w \in Workers, PublishOutcome(w) PROVE BatchesWellFormed'
  BY <1>3, PublishEffect DEF Others
<1>4. ASSUME NEW w \in Workers, Stops(w) \/ \E item \in worker[w].batch : GoesOn(w, item),
             \A e \in Events : row[e].status # "absent" => row'[e].status # "absent"
      PROVE  BatchesWellFormed'
  <2>1. \A v \in Workers : \A item \in worker[v].batch : item.id \in Events
    BY BatchIDs
  <2>2. CASE Stops(w)
    BY <1>4, <2>1, <2>2 DEF Stops, Others, Idle
  <2>3. CASE \E item \in worker[w].batch : GoesOn(w, item)
    BY <1>4, <2>1, <2>3 DEF GoesOn, Others
  <2> QED
    BY <1>4, <2>2, <2>3
<1>5. ASSUME NEW w \in Workers, MarkPublished(w) PROVE BatchesWellFormed'
  BY <1>4, <1>5, MarkPublishedEffect
<1>6. ASSUME NEW w \in Workers, MarkRetry(w) PROVE BatchesWellFormed'
  BY <1>4, <1>6, MarkRetryEffect
<1>7. ASSUME NEW w \in Workers, Abandon(w) \/ Restart(w) \/ Republish(w)
      PROVE  BatchesWellFormed'
  BY <1>4, <1>7, InterruptionEffect
<1>8. ASSUME Tick PROVE BatchesWellFormed'
  BY <1>8, TickEffect DEF TypeOK, Cycle, Item
<1>9. ASSUME UNCHANGED vars PROVE BatchesWellFormed'
  BY <1>9 DEF vars
<1> QED
  BY <1>1, <1>2, <1>3, <1>5, <1>6, <1>7, <1>8, <1>9 DEF Next

\* A token stays with one batch: a claim takes a new one, and what a worker has
\* dealt with carries it no more.
LEMMA TokensPreserved ==
    IInv /\ [Next]_vars => LockTokenNamesOneBatch'
<1> SUFFICES ASSUME IInv, [Next]_vars PROVE LockTokenNamesOneBatch'
  OBVIOUS
<1> USE TokensAssumption DEF IInv, LockTokenNamesOneBatch
<1>1. ASSUME NEW e \in Events, AppendTx(e) PROVE LockTokenNamesOneBatch'
  <2>1. \A f \in Events : row'[f].token = row[f].token
    BY <1>1 DEF AppendTx, TypeOK, Row
  <2> QED
    BY <1>1, <2>1 DEF AppendTx
<1>2. ASSUME NEW w \in Workers, ClaimBatch(w) PROVE LockTokenNamesOneBatch'
  <2>1. PICK token \in Tokens \ TokensInUse :
          /\ \A e \in NextBatch : row'[e].token = token
          /\ \A e \in Events \ NextBatch : row'[e] = row[e]
          /\ Others(w)
          /\ worker'[w].token = token
          /\ IDs(worker'[w].batch) = NextBatch
    BY <1>2, ClaimEffect
  <2>2. /\ \A e \in Events : row[e].token # token
        /\ \A v \in Workers : worker[v].token # token
    BY <2>1 DEF TokensInUse
  <2>3. \A v \in Workers : worker'[v].token = worker'[w].token => v = w
    BY <2>1, <2>2 DEF Others
  <2>4. \A e \in Events : row'[e].token = token => e \in IDs(worker'[w].batch)
    BY <2>1, <2>2
  <2>5. ASSUME NEW v \in Workers \ {w}, worker'[v].token # NoToken
        PROVE  /\ \A e \in Events : row'[e].token = worker'[v].token
                                       => e \in IDs(worker'[v].batch)
               /\ \A u \in Workers : worker'[u].token = worker'[v].token => u = v
    BY <2>1, <2>2, <2>5 DEF Others
  <2> QED
    BY <2>1, <2>3, <2>4, <2>5
<1>3. ASSUME NEW w \in Workers, PublishOutcome(w) PROVE LockTokenNamesOneBatch'
  BY <1>3, PublishEffect DEF Others
<1>4. ASSUME NEW w \in Workers, Stops(w),
             \A e \in Events : row'[e].token \in {row[e].token, NoToken}
      PROVE  LockTokenNamesOneBatch'
  <2>1. worker'[w].token = NoToken
    BY <1>4 DEF Stops, Idle
  <2> QED
    BY <1>4, <2>1 DEF Stops, Others
<1>5. ASSUME NEW w \in Workers, NEW item \in worker[w].batch, GoesOn(w, item),
             \A e \in Events : row'[e].token \in {row[e].token, NoToken},
             row'[item.id].token = NoToken
      PROVE  LockTokenNamesOneBatch'
  <2>1. \A e \in Events : e \in IDs(worker[w].batch) /\ e # item.id
                             => e \in IDs(worker'[w].batch)
    BY <1>5 DEF GoesOn, IDs
  <2>2. \A v \in Workers : worker'[v].token = worker[v].token
    BY <1>5 DEF GoesOn, Others
  <2>3. \A v \in Workers \ {w} : worker'[v].batch = worker[v].batch
    BY <1>5 DEF GoesOn, Others
  <2>4. ASSUME NEW v \in Workers, worker'[v].token # NoToken,
               NEW e \in Events, row'[e].token = worker'[v].token
        PROVE  e \in IDs(worker'[v].batch)
    <3>1. row[e].token = worker[v].token /\ e # item.id
      BY <1>5, <2>2, <2>4
    <3>2. e \in IDs(worker[v].batch)
      BY <2>2, <2>4, <3>1
    <3> QED
      BY <2>1, <2>3, <3>1, <3>2
  <2> QED
    BY <2>2, <2>4
<1>6. ASSUME NEW w \in Workers, MarkPublished(w) PROVE LockTokenNamesOneBatch'
  BY <1>4, <1>5, <1>6, MarkPublishedEffect
<1>7. ASSUME NEW w \in Workers, MarkRetry(w) PROVE LockTokenNamesOneBatch'
  <2>1. PICK item \in worker[w].batch :
          /\ \A e \in Events : Owned(w, e) => row'[e].token = NoToken
          /\ \A e \in Events : ~ Owned(w, e) => row'[e] = row[e]
          /\ Stops(w) \/ GoesOn(w, item)
    BY <1>7, MarkRetryEffect
  <2>2. \A e \in Events : row'[e].token \in {row[e].token, NoToken}
    BY <2>1
  <2>3. CASE Stops(w)
    BY <1>4, <2>2, <2>3
  <2>4. CASE GoesOn(w, item)
    <3>1. worker[w].token # NoToken
      BY DEF BatchesWellFormed
    <3>2. \A e \in Events : row[e].token = worker[w].token => Owned(w, e)
      BY <3>1 DEF Owned, LockedWhilePublishing
    <3>3. \A e \in Events : row'[e].token # worker[w].token
      BY <2>1, <3>1, <3>2
    <3> QED
      BY <2>2, <2>4, <3>3 DEF GoesOn, Others
  <2> QED
    BY <2>1, <2>3, <2>4
<1>8. ASSUME NEW w \in Workers, Abandon(w) \/ Restart(w) \/ Republish(w)
      PROVE  LockTokenNamesOneBatch'
  BY <1>4, <1>8, InterruptionEffect
<1>9. ASSUME Tick PROVE LockTokenNamesOneBatch'
  BY <1>9, TickEffect
<1>10. ASSUME UNCHANGED vars PROVE LockTokenNamesOneBatch'
  BY <1>10 DEF vars
<1> QED
  BY <1>1, <1>2, <1>3, <1>6, <1>7, <1>8, <1>9, <1>10 DEF Next

\* A confirmation that a cycle still holds is one of its current event.
LEMMA ConfirmedPreserved ==
    IInv /\ [Next]_vars => ConfirmedWasAccepted'
<1> SUFFICES ASSUME IInv, [Next]_vars PROVE ConfirmedWasAccepted'
  OBVIOUS
<1> USE DEF IInv, ConfirmedWasAccepted, IsCurrent
<1>1. ASSUME NEW e \in Events, AppendTx(e) PROVE ConfirmedWasAccepted'
  BY <1>1 DEF AppendTx, Told
<1>2. ASSUME NEW w \in Workers, ClaimBatch(w) PROVE ConfirmedWasAccepted'
  <2>1. UNCHANGED <<accepted, doubtful>>
    BY <1>2 DEF ClaimBatch
  <2> QED
    BY <1>2, <2>1, ClaimEffect DEF Others, Told
<1>3. ASSUME NEW w \in Workers, PublishOutcome(w) PROVE ConfirmedWasAccepted'
  <2>1. ASSUME NEW v \in Workers \ {w}, NEW other \in worker'[v].batch,
               worker'[v].pc = "confirmed" /\ IsCurrent(v, other)'
        PROVE  Told(other.id)'
    <3>1. Told(other.id) /\ other.id \in Events
      BY <1>3, <2>1, PublishEffect, BatchIDs DEF Others
    <3> QED
      BY <1>3, <3>1, PublishEffect
  <2>2. ASSUME NEW other \in worker'[w].batch,
               worker'[w].pc = "confirmed" /\ IsCurrent(w, other)'
        PROVE  Told(other.id)'
    <3>1. PICK item \in worker[w].batch :
              IsCurrent(w, item) /\ Told(item.id)'
      BY <1>3, <2>2, PublishEffect
    <3>2. item.id <= other.id /\ other.id <= item.id
      BY <1>3, <2>2, <3>1, PublishEffect
    <3>3. item.id \in Nat /\ other.id \in Nat
      <4>1. worker'[w].batch = worker[w].batch
        BY <1>3, PublishEffect
      <4>2. \A any \in worker[w].batch : any.id \in Nat
        BY BatchIDs
      <4> QED
        BY <4>1, <4>2
    <3> QED
      BY <3>1, <3>2, <3>3
  <2> QED
    BY <2>1, <2>2
<1>4. ASSUME NEW w \in Workers, UNCHANGED <<accepted, doubtful>>,
             Stops(w) \/ \E item \in worker[w].batch : GoesOn(w, item)
      PROVE  ConfirmedWasAccepted'
  BY <1>4 DEF Stops, GoesOn, Others, Idle, Told
<1>5. ASSUME NEW w \in Workers, MarkPublished(w) PROVE ConfirmedWasAccepted'
  <2>1. UNCHANGED <<accepted, doubtful>>
    BY <1>5 DEF MarkPublished
  <2> QED
    BY <1>4, <1>5, <2>1, MarkPublishedEffect
<1>6. ASSUME NEW w \in Workers, MarkRetry(w) PROVE ConfirmedWasAccepted'
  <2>1. UNCHANGED <<accepted, doubtful>>
    BY <1>6 DEF MarkRetry
  <2> QED
    BY <1>4, <1>6, <2>1, MarkRetryEffect
<1>7. ASSUME NEW w \in Workers, Abandon(w) \/ Restart(w) \/ Republish(w)
      PROVE  ConfirmedWasAccepted'
  BY <1>4, <1>7, InterruptionEffect DEF Told
<1>8. ASSUME Tick PROVE ConfirmedWasAccepted'
  BY <1>8, TickEffect DEF Told
<1>9. ASSUME UNCHANGED vars PROVE ConfirmedWasAccepted'
  BY <1>9 DEF vars, Told
<1> QED
  BY <1>1, <1>2, <1>3, <1>5, <1>6, <1>7, <1>8, <1>9 DEF Next

\* Only MarkPublished turns a row into a published one, and it acts upon a
\* confirmation.
LEMMA PublishedPreserved ==
    IInv /\ [Next]_vars => PublishedWasAccepted'
<1> SUFFICES ASSUME IInv, [Next]_vars PROVE PublishedWasAccepted'
  OBVIOUS
<1> USE DEF IInv, PublishedWasAccepted
<1>1. ASSUME NEW e \in Events, AppendTx(e) PROVE PublishedWasAccepted'
  BY <1>1 DEF AppendTx, TypeOK, Row, Told
<1>2. ASSUME NEW w \in Workers, ClaimBatch(w) PROVE PublishedWasAccepted'
  <2>1. UNCHANGED <<accepted, doubtful>>
    BY <1>2 DEF ClaimBatch
  <2> QED
    BY <1>2, <2>1, ClaimEffect DEF Told
<1>3. ASSUME NEW w \in Workers, PublishOutcome(w) PROVE PublishedWasAccepted'
  BY <1>3, PublishEffect
<1>4. ASSUME NEW w \in Workers, MarkPublished(w) PROVE PublishedWasAccepted'
  <2>1. UNCHANGED <<accepted, doubtful>> /\ worker[w].pc = "confirmed"
    BY <1>4 DEF MarkPublished
  <2> QED
    BY <1>4, <2>1, MarkPublishedEffect DEF ConfirmedWasAccepted, Told
<1>5. ASSUME NEW w \in Workers, MarkRetry(w) PROVE PublishedWasAccepted'
  <2>1. UNCHANGED <<accepted, doubtful>>
    BY <1>5 DEF MarkRetry
  <2> QED
    BY <1>5, <2>1, MarkRetryEffect DEF Told
<1>6. ASSUME NEW w \in Workers, Abandon(w) \/ Restart(w) \/ Republish(w)
      PROVE  PublishedWasAccepted'
  BY <1>6, InterruptionEffect DEF Told
<1>7. ASSUME Tick PROVE PublishedWasAccepted'
  BY <1>7, TickEffect DEF Told
<1>8. ASSUME UNCHANGED vars PROVE PublishedWasAccepted'
  BY <1>8 DEF vars, Told
<1> QED
  BY <1>1, <1>2, <1>3, <1>4, <1>5, <1>6, <1>7, <1>8 DEF Next

\* Without disturbances every cycle ends with the rows it locked released.
LEMMA LocksPreserved ==
    IInv /\ [Next]_vars => LocksHoldUndisturbed'
<1> SUFFICES ASSUME IInv, [Next]_vars, disturbances' = 0
             PROVE  LocksHoldUndisturbed'
  BY DEF LocksHoldUndisturbed
<1> USE DEF IInv
<1>0. disturbances \in Nat
  BY LimitsAssumption DEF TypeOK
<1>1. ASSUME NEW e \in Events, AppendTx(e) PROVE LocksHoldUndisturbed'
  <2>1. \A f \in Events : /\ row'[f] = row[f] \/ row'[f].status = "pending"
                          /\ row[f].status = "publishing" => row'[f] = row[f]
    BY <1>1 DEF AppendTx, TypeOK, Row
  <2>2. worker' = worker /\ disturbances' = disturbances
    BY <1>1 DEF AppendTx
  <2> QED
    BY <2>1, <2>2, BatchIDs DEF LocksHoldUndisturbed, Owned
<1>2. ASSUME NEW w \in Workers, ClaimBatch(w) PROVE LocksHoldUndisturbed'
  <2>1. PICK token \in Tokens \ TokensInUse :
          /\ \A e \in NextBatch : /\ row'[e].status = "publishing"
                                  /\ row'[e].token = token
                                  /\ row'[e].lock = LockFor
          /\ \A e \in Events \ NextBatch : row'[e] = row[e]
          /\ Others(w)
          /\ worker'[w].token = token
          /\ IDs(worker'[w].batch) = NextBatch
    BY <1>2, ClaimEffect
  <2>2. disturbances = 0 /\ worker[w].pc = "idle"
    BY <1>2 DEF ClaimBatch
  <2>3. NextBatch \subseteq {e \in Events : Claimable(e)}
    BY DEF NextBatch, ClaimableRows
  <2>4. \A e \in NextBatch : row[e].status # "publishing"
    BY <2>2, <2>3 DEF LocksHoldUndisturbed, Claimable
  <2>5. \A e \in Events \ NextBatch : row[e].status = "publishing" =>
            \E v \in Workers \ {w} : worker'[v].token = row[e].token
    BY <2>1, <2>2 DEF LocksHoldUndisturbed, Others, LockedWhilePublishing,
                      BatchesWellFormed
  <2>6. LockFor > 0
    BY LimitsAssumption
  <2>7. \A e \in Events : row'[e].status = "publishing" =>
            /\ row'[e].lock > 0
            /\ \E v \in Workers : worker'[v].token = row'[e].token
    BY <2>1, <2>2, <2>5, <2>6 DEF LocksHoldUndisturbed
  <2>8. \A item \in worker'[w].batch : Owned(w, item.id)'
    BY <2>1 DEF IDs, Owned
  <2>9. ASSUME NEW v \in Workers \ {w}, NEW item \in worker'[v].batch
        PROVE  Owned(v, item.id)'
    <3>1. Owned(v, item.id) /\ item.id \in Events
      BY <2>1, <2>2, <2>9, BatchIDs DEF LocksHoldUndisturbed, Others
    <3>2. row'[item.id] = row[item.id]
      BY <2>1, <2>4, <3>1 DEF Owned
    <3> QED
      BY <2>1, <3>1, <3>2 DEF Owned, Others
  <2> QED
    BY <2>7, <2>8, <2>9 DEF LocksHoldUndisturbed
<1>3. ASSUME NEW w \in Workers, PublishOutcome(w) PROVE LocksHoldUndisturbed'
  <2>1. /\ row' = row
        /\ disturbances' = disturbances
        /\ \A v \in Workers : /\ worker'[v].token = worker[v].token
                              /\ worker'[v].batch = worker[v].batch
    BY <1>3, PublishEffect DEF Others
  <2> QED
    BY <2>1 DEF LocksHoldUndisturbed, Owned
<1>4. ASSUME NEW w \in Workers, MarkPublished(w) PROVE LocksHoldUndisturbed'
  <2>1. disturbances = 0
    BY <1>4 DEF MarkPublished
  <2>2. PICK item \in worker[w].batch :
          /\ Owned(w, item.id)
          /\ row'[item.id].status = "published"
          /\ \A e \in Events \ {item.id} : row'[e] = row[e]
          /\ \/ worker[w].batch = {item} /\ Stops(w)
             \/ GoesOn(w, item)
    BY <1>4, <2>1, MarkPublishedEffect DEF LocksHoldUndisturbed
  <2>3. item.id \in Events
    BY BatchIDs
  <2>4. worker[w].token # NoToken
    BY <2>2, <2>3 DEF Owned, LockedWhilePublishing
  <2>5. Others(w)
    BY <2>2 DEF Stops, GoesOn
  <2>6. ASSUME NEW e \in Events, row'[e].status = "publishing"
        PROVE  row'[e].lock > 0 /\ \E v \in Workers : worker'[v].token = row'[e].token
    <3>1. e # item.id /\ row'[e] = row[e]
      BY <2>2, <2>6
    <3>2. PICK v \in Workers : worker[v].token = row[e].token
      BY <2>1, <2>6, <3>1 DEF LocksHoldUndisturbed
    <3>3. CASE v = w
      <4>1. e \in IDs(worker[w].batch)
        BY <2>4, <3>2, <3>3 DEF LockTokenNamesOneBatch
      <4>2. GoesOn(w, item)
        BY <2>2, <3>1, <4>1 DEF IDs
      <4> QED
        BY <2>1, <2>6, <3>1, <3>2, <3>3, <4>2 DEF GoesOn, LocksHoldUndisturbed
    <3>4. CASE v # w
      BY <2>1, <2>5, <2>6, <3>1, <3>2, <3>4 DEF Others, LocksHoldUndisturbed
    <3> QED
      BY <3>3, <3>4
  <2>7. ASSUME NEW other \in worker'[w].batch PROVE Owned(w, other.id)'
    <3>1. GoesOn(w, item)
      BY <2>2, <2>7 DEF Stops, Idle
    <3>2. other \in worker[w].batch /\ other # item
      BY <2>7, <3>1 DEF GoesOn
    <3>3. other.id # item.id /\ other.id \in Events /\ Owned(w, other.id)
      BY <2>1, <3>2, BatchIDs DEF BatchesWellFormed, LocksHoldUndisturbed
    <3> QED
      BY <2>2, <3>1, <3>3 DEF GoesOn, Owned
  <2>8. ASSUME NEW v \in Workers \ {w}, NEW other \in worker'[v].batch
        PROVE  Owned(v, other.id)'
    <3>1. Owned(v, other.id) /\ other.id \in Events
      BY <2>1, <2>5, <2>8, BatchIDs DEF LocksHoldUndisturbed, Others
    <3>2. other.id # item.id
      BY <2>2, <2>4, <3>1 DEF Owned, LockTokenNamesOneBatch
    <3> QED
      BY <2>2, <2>5, <3>1, <3>2 DEF Owned, Others
  <2> QED
    BY <2>6, <2>7, <2>8 DEF LocksHoldUndisturbed
<1>5. ASSUME NEW w \in Workers, MarkRetry(w) PROVE LocksHoldUndisturbed'
  <2>1. disturbances = 0 /\ worker[w].pc = "failed"
    BY <1>5 DEF MarkRetry
  <2>2. PICK item \in worker[w].batch :
          /\ \A e \in Events : Owned(w, e) => row'[e].status \in {"dead", "pending"}
          /\ \A e \in Events : ~ Owned(w, e) => row'[e] = row[e]
          /\ \/ Stops(w)
             \/ /\ Cardinality({e \in Events : Owned(w, e)}) = 1
                /\ GoesOn(w, item)
    BY <1>5, MarkRetryEffect
  <2>3. Stops(w)
    <3> SUFFICES ASSUME Cardinality({e \in Events : Owned(w, e)}) = 1,
                        GoesOn(w, item)
                 PROVE  FALSE
      BY <2>2
    <3>1. PICK other \in worker[w].batch : other # item
      BY DEF GoesOn
    <3>2. other.id # item.id
      BY <3>1 DEF BatchesWellFormed
    <3>3. {other.id, item.id} \subseteq {e \in Events : Owned(w, e)}
      BY <2>1, BatchIDs DEF LocksHoldUndisturbed
    <3>4. IsFiniteSet({e \in Events : Owned(w, e)})
      BY EventsAssumption, FS_Subset
    <3>5. PICK x : {e \in Events : Owned(w, e)} = {x}
      BY <3>4, FS_Singleton
    <3> QED
      BY <3>2, <3>3, <3>5
  <2>4. worker[w].token # NoToken
    BY <2>1 DEF BatchesWellFormed
  <2>5. ASSUME NEW e \in Events, row'[e].status = "publishing"
        PROVE  row'[e].lock > 0 /\ \E v \in Workers : worker'[v].token = row'[e].token
    <3>1. ~ Owned(w, e) /\ row'[e] = row[e]
      BY <2>2, <2>5
    <3>2. PICK v \in Workers : worker[v].token = row[e].token
      BY <2>1, <2>5, <3>1 DEF LocksHoldUndisturbed
    <3>3. v # w
      BY <2>5, <3>1, <3>2 DEF Owned
    <3> QED
      BY <2>1, <2>3, <2>5, <3>1, <3>2, <3>3 DEF Stops, Others, LocksHoldUndisturbed
  <2>6. worker'[w].batch = {}
    BY <2>3 DEF Stops, Idle
  <2>7. ASSUME NEW v \in Workers \ {w}, NEW other \in worker'[v].batch
        PROVE  Owned(v, other.id)'
    <3>1. Owned(v, other.id) /\ other.id \in Events
      BY <2>1, <2>3, <2>7, BatchIDs DEF LocksHoldUndisturbed, Stops, Others
    <3>2. ~ Owned(w, other.id)
      BY <2>4, <3>1 DEF Owned, LockTokenNamesOneBatch
    <3> QED
      BY <2>2, <2>3, <3>1, <3>2 DEF Owned, Stops, Others
  <2> QED
    BY <2>5, <2>6, <2>7 DEF LocksHoldUndisturbed
<1>6. ASSUME NEW w \in Workers, Abandon(w) \/ Restart(w) \/ Republish(w)
      PROVE  LocksHoldUndisturbed'
  BY <1>0, <1>6, InterruptionEffect DEF LocksHoldUndisturbed, Owned
<1>7. ASSUME Tick PROVE LocksHoldUndisturbed'
  <2>1. disturbances = 0 /\ worker' = worker /\ \A w \in Workers : worker[w].pc = "idle"
    BY <1>7, TickEffect
  <2>2. \A w \in Workers : worker[w].token = NoToken /\ worker[w].batch = {}
    BY <2>1 DEF BatchesWellFormed
  <2>3. \A e \in Events : row[e].status # "publishing"
    BY <2>1, <2>2 DEF LocksHoldUndisturbed, LockedWhilePublishing
  <2>4. \A e \in Events : row'[e].status # "publishing"
    BY <1>7, <2>3, TickEffect
  <2> QED
    BY <2>1, <2>2, <2>4 DEF LocksHoldUndisturbed
<1>8. ASSUME UNCHANGED vars PROVE LocksHoldUndisturbed'
  BY <1>8 DEF vars, LocksHoldUndisturbed, Owned
<1> QED
  BY <1>1, <1>2, <1>3, <1>4, <1>5, <1>6, <1>7, <1>8 DEF Next, LocksHoldUndisturbed

-----------------------------------------------------------------------------
\* With no row and every worker idle, all parts of the invariant hold.
LEMMA InitIInv == Init => IInv
<1> SUFFICES ASSUME Init PROVE IInv
  OBVIOUS
<1> USE LimitsAssumption, TokensAssumption DEF Init, Idle
<1>1. TypeOK
  BY DEF TypeOK, Row, Status, Cycle
<1>2. PublishedWasAccepted
  BY DEF PublishedWasAccepted
<1>3. LockTokenNamesOneBatch
  BY DEF LockTokenNamesOneBatch
<1>4. LockedWhilePublishing
  BY DEF LockedWhilePublishing
<1>5. BatchesWellFormed
  BY DEF BatchesWellFormed
<1>6. ConfirmedWasAccepted
  BY DEF ConfirmedWasAccepted
<1>7. LocksHoldUndisturbed
  BY DEF LocksHoldUndisturbed
<1> QED
  BY <1>1, <1>2, <1>3, <1>4, <1>5, <1>6, <1>7 DEF IInv

\* Every step keeps all of them.
LEMMA NextKeeps == IInv /\ [Next]_vars => IInv'
  BY TypePreserved, PublishedPreserved, TokensPreserved, LockedPreserved,
     BatchesPreserved, ConfirmedPreserved, LocksPreserved DEF IInv

\* The conjunction of the parts is inductive: repository, workers, crashes and
\* the clock may interleave in any way.
THEOREM InductiveInvariant == Spec => []IInv
  BY InitIInv, NextKeeps, PTL DEF Spec

\* Rows of outbox_events and cycles of PublishOnce always have their types.
THEOREM TypeCorrect == Spec => []TypeOK
<1>1. IInv => TypeOK
  BY DEF IInv
<1> QED
  BY InductiveInvariant, <1>1, PTL

\* MarkPublished never marks an event of which Publish has not told nil, in
\* spite of expired locks, late workers and failed batches; and nil is a copy at
\* the broker unless the channel was out of step.
THEOREM PublishedEventsWereAccepted == Spec => []PublishedWasAccepted
<1>1. IInv => PublishedWasAccepted
  BY DEF IInv
<1> QED
  BY InductiveInvariant, <1>1, PTL

\* The update of MarkRetry, which names no id, never reaches a row that is not
\* left in the batch of the worker that runs it.
THEOREM TokensNameOneBatch == Spec => []LockTokenNamesOneBatch
<1>1. IInv => LockTokenNamesOneBatch
  BY DEF IInv
<1> QED
  BY InductiveInvariant, <1>1, PTL

\* No cycle that runs to its end, with success or with an error, leaves a lock
\* behind: only disturbances do.
THEOREM NoLockIsStranded == Spec => []NoStrandedLock
<1>1. IInv => NoStrandedLock
  BY LimitsAssumption DEF IInv, NoStrandedLock, LocksHoldUndisturbed, TypeOK
<1> QED
  BY InductiveInvariant, <1>1, PTL

-----------------------------------------------------------------------------
\* Each step of the outbox is a step of its abstract promise, or none.
LEMMA StepRefinement ==
    IInv /\ [Next]_vars => [Promise!Next]_(Promise!vars)
<1> SUFFICES ASSUME IInv, [Next]_vars PROVE [Promise!Next]_(Promise!vars)
  OBVIOUS
<1> DEFINE state == [e \in Events |-> Abstract(row[e].status)]
<1> USE DEF IInv
<1>0. ASSUME UNCHANGED <<accepted, doubtful>>,
             \A e \in Events : Abstract(row'[e].status) = Abstract(row[e].status)
      PROVE  UNCHANGED Promise!vars
  BY <1>0 DEF Promise!vars
<1>1. ASSUME NEW e \in Events, AppendTx(e) PROVE Promise!Submit(e)
  <2>1. /\ Abstract(row[e].status) = "none"
        /\ Abstract(row'[e].status) = "queued"
        /\ \A f \in Events \ {e} : row'[f] = row[f]
    BY <1>1 DEF AppendTx, TypeOK, Row, Abstract
  <2>2. \A f \in Events : Abstract(row'[f].status) =
                            IF f = e THEN "queued" ELSE Abstract(row[f].status)
    BY <2>1
  <2>3. state' = [state EXCEPT ![e] = "queued"]
    BY <2>2
  <2> QED
    BY <1>1, <2>1, <2>3 DEF AppendTx, Promise!Submit
<1>2. ASSUME NEW w \in Workers, ClaimBatch(w) PROVE UNCHANGED Promise!vars
  <2>1. \A e \in NextBatch : row[e].status \in {"pending", "publishing"}
    BY DEF NextBatch, ClaimableRows, Claimable
  <2>2. \A e \in Events : Abstract(row'[e].status) = Abstract(row[e].status)
    BY <1>2, <2>1, ClaimEffect DEF Abstract
  <2> QED
    BY <1>0, <1>2, <2>2 DEF ClaimBatch
<1>3. ASSUME NEW w \in Workers, PublishOutcome(w)
      PROVE  \/ \E e \in Events : Promise!Accept(e) \/ Promise!Doubt(e)
             \/ UNCHANGED Promise!vars
  <2>1. row' = row
    BY <1>3, PublishEffect
  <2>2. PICK item \in worker[w].batch :
            \/ UNCHANGED <<accepted, doubtful>>
            \/ accepted' = accepted \union {item.id} /\ doubtful' = doubtful
            \/ doubtful' = doubtful \union {item.id} /\ accepted' = accepted
    BY <1>3, PublishEffect
  <2>3. item.id \in Events /\ row[item.id].status # "absent"
    BY BatchIDs DEF BatchesWellFormed
  <2>4. Abstract(row[item.id].status) # "none"
    BY <2>3 DEF Abstract, TypeOK, Row, Status
  <2> QED
    BY <2>1, <2>2, <2>3, <2>4
    DEF Promise!Accept, Promise!Doubt, Promise!vars
<1>4. ASSUME NEW w \in Workers, MarkPublished(w)
      PROVE  \/ \E e \in Events : Promise!Settle(e)
             \/ UNCHANGED Promise!vars
  <2>1. UNCHANGED <<accepted, doubtful>> /\ worker[w].pc = "confirmed"
    BY <1>4 DEF MarkPublished
  <2>2. PICK item \in worker[w].batch :
          /\ IsCurrent(w, item)
          /\ \/ /\ Owned(w, item.id)
                /\ row'[item.id].status = "published"
                /\ \A e \in Events \ {item.id} : row'[e] = row[e]
             \/ row' = row
    BY <1>4, MarkPublishedEffect
  <2>3. item.id \in Events /\ item.id \in accepted \union doubtful
    BY <2>1, <2>2, BatchIDs DEF ConfirmedWasAccepted, Told
  <2>4. CASE row' = row
    BY <2>1, <2>4 DEF Promise!vars
  <2>5. CASE /\ Owned(w, item.id)
             /\ row'[item.id].status = "published"
             /\ \A e \in Events \ {item.id} : row'[e] = row[e]
    <3>1. /\ Abstract(row[item.id].status) = "queued"
          /\ Abstract(row'[item.id].status) = "published"
      BY <2>5 DEF Owned, Abstract
    <3>2. state' = [state EXCEPT ![item.id] = "published"]
      BY <2>3, <2>5, <3>1
    <3> QED
      BY <2>1, <2>3, <3>1, <3>2 DEF Promise!Settle
  <2> QED
    BY <2>2, <2>4, <2>5
<1>5. ASSUME NEW w \in Workers, MarkRetry(w)
      PROVE  \/ \E S \in SUBSET Events : Promise!GiveUp(S)
             \/ UNCHANGED Promise!vars
  <2>1. UNCHANGED <<accepted, doubtful>>
    BY <1>5 DEF MarkRetry
  <2>2. PICK item \in worker[w].batch :
          /\ \A e \in Events : Owned(w, e) =>
                row'[e].status = IF item.attempts >= MaxAttempts
                                 THEN "dead" ELSE "pending"
          /\ \A e \in Events : ~ Owned(w, e) => row'[e] = row[e]
    BY <1>5, MarkRetryEffect
  <2>3. CASE item.attempts >= MaxAttempts
    <3> DEFINE S == {e \in Events : Owned(w, e)}
    <3>1. \A e \in S : Abstract(row[e].status) = "queued"
      BY DEF Owned, Abstract
    <3>2. \A e \in Events : Abstract(row'[e].status) =
                              IF e \in S THEN "dead" ELSE Abstract(row[e].status)
      BY <2>2, <2>3 DEF Abstract
    <3>3. Promise!GiveUp(S)
      BY <2>1, <3>1, <3>2 DEF Promise!GiveUp
    <3> QED
      BY <3>3
  <2>4. CASE ~ item.attempts >= MaxAttempts
    <3>1. \A e \in Events : Abstract(row'[e].status) = Abstract(row[e].status)
      BY <2>2, <2>4 DEF Owned, Abstract
    <3> QED
      BY <1>0, <2>1, <3>1
  <2> QED
    BY <2>3, <2>4
<1>6. ASSUME NEW w \in Workers, Abandon(w) \/ Restart(w) \/ Republish(w)
      PROVE  UNCHANGED Promise!vars
  BY <1>6, InterruptionEffect DEF Promise!vars
<1>7. ASSUME Tick PROVE UNCHANGED Promise!vars
  BY <1>0, <1>7, TickEffect
<1>8. ASSUME UNCHANGED vars PROVE UNCHANGED Promise!vars
  BY <1>8 DEF vars, Promise!vars
<1> QED
  BY <1>1, <1>2, <1>3, <1>4, <1>5, <1>6, <1>7, <1>8 DEF Next, Promise!Next

\* Polling, locks, batches, crashes and clocks implement the abstract promise:
\* an event stays queued until it is published, after the broker took a copy or
\* confirmed one by mistake, or dead, and both are final.
THEOREM OutboxKeepsPromise == Spec => ImplementsAtLeastOnce
<1>1. Init => Promise!Init
  BY DEF Init, Promise!Init, Abstract
<1> QED
  BY <1>1, StepRefinement, InductiveInvariant, PTL
  DEF Spec, ImplementsAtLeastOnce, Promise!Spec
=============================================================================
