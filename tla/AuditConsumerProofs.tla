------------------------ MODULE AuditConsumerProofs ------------------------
(***************************************************************************)
(* Proofs about AuditConsumer, for any number of events, consumers and     *)
(* publications and any budget of faults.  The chain of reasons is: a      *)
(* delivery in a consumer's hands is a message the broker holds for it,    *)
(* the inbox lock belongs to the one delivery inside the handler, and as   *)
(* long as it is held some copy other than those about to be acknowledged  *)
(* is on its way.                                                          *)
(***************************************************************************)
EXTENDS AuditConsumer, TLAPS

-----------------------------------------------------------------------------
IdleWorker == [pc : {"idle"}, online : BOOLEAN, buffer : SUBSET Delivery]

BusyWorker == [pc : PC \ {"idle"}, online : BOOLEAN, buffer : SUBSET Delivery,
               current : Delivery]

Worker == IdleWorker \union BusyWorker

Row == [status : {"none", "processing", "processed"}, lock : Nat]

Typed ==
    /\ msg \in [Copies -> Message]
    /\ inbox \in [Events -> Row]
    /\ consumer \in [Consumers -> Worker]
    /\ sent \subseteq Events
    /\ handled \in [Events -> 0 .. 2]
    /\ failures \in [Events -> 0 .. MaxRetries]
    /\ budget \in [Disturbances -> Nat]

Busy(c) == consumer[c].pc # "idle"

\* The delivery `d` is the message that the broker holds in its slot for `c`.
Held(c, d) ==
    /\ msg[d.copy].place = "unacked"
    /\ msg[d.copy].holder = c
    /\ msg[d.copy].event = d.event
    /\ msg[d.copy].attempt = d.attempt

\* Consumer `c` is between its claim and the statement that ends it.
Handles(c) == consumer[c].pc \in {"handling", "handled", "failed"}

\* Consumer `c` is about to free the slot `m`.
Acks(c, m) == consumer[c].pc = "acking" /\ Current(c).copy = m

BudgetShrinks == \A x \in Disturbances : budget[x] <= Budget[x]

\* What a connected consumer has in its hands is what the broker holds for it,
\* and each message once.
DeliveriesAreHeld ==
    \A c \in Consumers : consumer[c].online =>
        /\ \A d \in consumer[c].buffer : Held(c, d)
        /\ Busy(c) =>
            /\ Held(c, Current(c))
            /\ \A d \in consumer[c].buffer : d.copy # Current(c).copy

HoldersHold ==
    \A m \in Copies : msg[m].holder # Nobody => msg[m].place = "unacked"

\* Only what can be decoded gets to the handler, and a row of the inbox is
\* written before that; what cannot be decoded leaves a dead letter, unless the
\* broker refuses it.
PathsAreTaken ==
    \A c \in Consumers : Busy(c) =>
        IF Current(c).event \in Malformed
        THEN /\ consumer[c].pc \in {"burying", "acking"}
             /\ consumer[c].pc = "acking" =>
                    \/ Faulty
                    \/ \E m \in Copies : /\ msg[m].place = "dlq"
                                         /\ msg[m].event = Current(c).event
        ELSE inbox[Current(c).event].status # "none"

LockedIsClaimed ==
    \A e \in Events : inbox[e].lock > 0 => inbox[e].status # "none"

\* Every attempt but the first stands for a failure of the handler.
FailuresAreCounted ==
    /\ \A m \in Copies :
        msg[m].place # "free" => failures[msg[m].event] >= msg[m].attempt - 1
    /\ \A c \in Consumers :
        /\ \A d \in consumer[c].buffer : failures[d.event] >= d.attempt - 1
        /\ Busy(c) => failures[Current(c).event] >= Current(c).attempt - 1
        /\ consumer[c].pc \in {"failed", "retrying"} =>
               failures[Current(c).event] >= Current(c).attempt
        /\ consumer[c].pc = "retrying" => Current(c).attempt < MaxRetries
        /\ consumer[c].pc = "burying" /\ Current(c).event \notin Malformed =>
               failures[Current(c).event] = MaxRetries

\* No success is recorded that was none.
SuccessIsTrue ==
    /\ \A e \in Events : inbox[e].status = "processed" => handled[e] > 0
    /\ \A c \in Consumers :
        consumer[c].pc = "handled" => handled[Current(c).event] > 0

\* While no handler was late, a delivery in the handler owns the row.
HandlersHoldTheLock ==
    ~ Spent("late") =>
        \A c \in Consumers : Handles(c) =>
            /\ inbox[Current(c).event].status = "processing"
            /\ inbox[Current(c).event].lock > 0
            /\ \A d \in Consumers \ {c} :
                Handles(d) => Current(d).event # Current(c).event

\* Without faults and late handlers, a success is recorded or about to be.
SuccessIsRecorded ==
    ~ Faulty /\ ~ Spent("late") =>
        \A e \in Events :
            /\ handled[e] <= 1
            /\ handled[e] = 1 =>
                \/ inbox[e].status = "processed"
                \/ \E c \in Consumers : /\ consumer[c].pc = "handled"
                                        /\ Current(c).event = e

\* Whatever the faults, a well-formed event that nobody has claimed is in the
\* broker.
UnclaimedIsAlive ==
    \A e \in Events : e \in sent /\ inbox[e].status = "none" =>
        Alive(e) \/ (e \in Malformed /\ Faulty)

AllOnline == ~ Faulty => \A c \in Consumers : consumer[c].online

\* Nothing went wrong with the event `e`, or no more than its retries make good:
\* a copy must not come back before the lock of the failure is over.
Spared(e) == ~ Faulty /\ (MaxRetries <= RetryTTL + 1 \/ failures[e] = 0)

\* An event that has not been handled has a copy that nobody is about to
\* acknowledge.
CopySurvives ==
    \A e \in sent : Spared(e) /\ handled[e] = 0 =>
        \E m \in Copies : /\ msg[m].place # "free"
                          /\ msg[m].event = e
                          /\ \A c \in Consumers : ~ Acks(c, m)

\* A lock on an event that has not been handled is there for a delivery in
\* progress, or for a copy that comes back when it is over.
Guards(c, e) ==
    /\ Busy(c)
    /\ Current(c).event = e
    /\ \/ consumer[c].pc \in {"handling", "failed", "burying"}
       \/ consumer[c].pc = "retrying" /\ inbox[e].lock <= RetryTTL

Returns(m, e) ==
    /\ msg[m].event = e
    /\ \/ msg[m].place = "retry" /\ msg[m].ttl >= inbox[e].lock
       \/ msg[m].place = "dlq"

LockIsGuarded ==
    \A e \in Events : Spared(e) /\ handled[e] = 0 /\ inbox[e].lock > 0 =>
        \/ \E c \in Consumers : Guards(c, e)
        \/ \E m \in Copies : Returns(m, e)

IInv ==
    /\ Typed
    /\ BudgetShrinks
    /\ DeliveriesAreHeld
    /\ HoldersHold
    /\ PathsAreTaken
    /\ LockedIsClaimed
    /\ FailuresAreCounted
    /\ SuccessIsTrue
    /\ HandlersHoldTheLock
    /\ SuccessIsRecorded
    /\ UnclaimedIsAlive
    /\ AllOnline

-----------------------------------------------------------------------------
(* What EXCEPT does to the record of a busy worker, and to that of an idle  *)
(* one; B stands for BOOLEAN, S for the sets of deliveries, D for the       *)
(* deliveries.                                                              *)

\* A busy worker goes to another place, and nothing else changes.
LEMMA BusySetPc ==
    ASSUME NEW P, NEW B, NEW S, NEW D,
           NEW r \in [pc : P, online : B, buffer : S, current : D],
           NEW q \in P
    PROVE  LET s == [r EXCEPT !.pc = q]
           IN  /\ s.pc = q
               /\ s.online = r.online
               /\ s.buffer = r.buffer
               /\ s.current = r.current
               /\ s \in [pc : P, online : B, buffer : S, current : D]
  OBVIOUS

\* The buffer of a busy worker changes, and nothing else.
LEMMA BusySetBuffer ==
    ASSUME NEW P, NEW B, NEW S, NEW D,
           NEW r \in [pc : P, online : B, buffer : S, current : D],
           NEW b \in S
    PROVE  LET s == [r EXCEPT !.buffer = b]
           IN  /\ s.pc = r.pc
               /\ s.online = r.online
               /\ s.buffer = b
               /\ s.current = r.current
               /\ s \in [pc : P, online : B, buffer : S, current : D]
  OBVIOUS

\* The connection of a busy worker changes, and nothing else.
LEMMA BusySetOnline ==
    ASSUME NEW P, NEW B, NEW S, NEW D,
           NEW r \in [pc : P, online : B, buffer : S, current : D],
           NEW b \in B
    PROVE  LET s == [r EXCEPT !.online = b]
           IN  /\ s.pc = r.pc
               /\ s.online = b
               /\ s.buffer = r.buffer
               /\ s.current = r.current
               /\ s \in [pc : P, online : B, buffer : S, current : D]
  OBVIOUS

\* The buffer of an idle worker changes, and nothing else.
LEMMA IdleSetBuffer ==
    ASSUME NEW P, NEW B, NEW S,
           NEW r \in [pc : P, online : B, buffer : S], NEW b \in S
    PROVE  LET s == [r EXCEPT !.buffer = b]
           IN  /\ s.pc = r.pc
               /\ s.online = r.online
               /\ s.buffer = b
               /\ s \in [pc : P, online : B, buffer : S]
  OBVIOUS

\* The connection of an idle worker changes, and nothing else.
LEMMA IdleSetOnline ==
    ASSUME NEW P, NEW B, NEW S,
           NEW r \in [pc : P, online : B, buffer : S], NEW b \in B
    PROVE  LET s == [r EXCEPT !.online = b]
           IN  /\ s.pc = r.pc
               /\ s.online = b
               /\ s.buffer = r.buffer
               /\ s \in [pc : P, online : B, buffer : S]
  OBVIOUS

\* The record of a worker that is put together at once.
LEMMA BusyRecord ==
    ASSUME NEW P, NEW B, NEW S, NEW D,
           NEW p \in P, NEW o \in B, NEW b \in S, NEW d \in D
    PROVE  LET s == [pc |-> p, online |-> o, buffer |-> b, current |-> d]
           IN  /\ s.pc = p
               /\ s.online = o
               /\ s.buffer = b
               /\ s.current = d
               /\ s \in [pc : P, online : B, buffer : S, current : D]
  OBVIOUS

\* The same for an idle one.
LEMMA IdleRecord ==
    ASSUME NEW P, NEW B, NEW S, NEW p \in P, NEW o \in B, NEW b \in S
    PROVE  LET s == [pc |-> p, online |-> o, buffer |-> b]
           IN  /\ s.pc = p
               /\ s.online = o
               /\ s.buffer = b
               /\ s \in [pc : P, online : B, buffer : S]
  OBVIOUS

-----------------------------------------------------------------------------
\* The record of a worker is that of where it is.
LEMMA WorkerFields ==
    ASSUME NEW w \in Worker
    PROVE  /\ w.pc \in PC
           /\ w.online \in BOOLEAN
           /\ w.buffer \in SUBSET Delivery
           /\ w.pc = "idle" => w \in IdleWorker
           /\ w.pc # "idle" => w \in BusyWorker /\ w.current \in Delivery
<1>1. CASE w \in IdleWorker
  <2>1. ASSUME NEW B, NEW S, NEW v \in [pc : {"idle"}, online : B, buffer : S]
        PROVE  v.pc = "idle" /\ v.online \in B /\ v.buffer \in S
    BY <2>1
  <2>2. w.pc = "idle" /\ w.online \in BOOLEAN /\ w.buffer \in SUBSET Delivery
    BY <1>1, <2>1 DEF IdleWorker
  <2> QED
    BY <1>1, <2>2 DEF PC
<1>2. CASE w \in BusyWorker
  <2>1. ASSUME NEW P, NEW B, NEW S, NEW D,
               NEW v \in [pc : P, online : B, buffer : S, current : D]
        PROVE  v.pc \in P /\ v.online \in B /\ v.buffer \in S /\ v.current \in D
    BY <2>1
  <2>2. /\ w.pc \in PC \ {"idle"}
        /\ w.online \in BOOLEAN
        /\ w.buffer \in SUBSET Delivery
        /\ w.current \in Delivery
    BY <1>2, <2>1 DEF BusyWorker
  <2> QED
    BY <1>2, <2>2
<1> QED
  BY <1>1, <1>2 DEF Worker

-----------------------------------------------------------------------------
(* What a step does to the workers.                                         *)

Others(c) == \A k \in Consumers \ {c} : consumer'[k] = consumer[k]

Connection(c) == consumer'[c].online = consumer[c].online

Walks(c, pc) ==
    /\ consumer' \in [Consumers -> Worker]
    /\ Others(c)
    /\ Connection(c)
    /\ consumer'[c].pc = pc
    /\ consumer'[c].buffer = consumer[c].buffer
    /\ consumer'[c].current = consumer[c].current

Takes(c, d, pc) ==
    /\ consumer' \in [Consumers -> Worker]
    /\ Others(c)
    /\ Connection(c)
    /\ consumer'[c].pc = pc
    /\ consumer'[c].buffer = consumer[c].buffer \ {d}
    /\ consumer'[c].current = d

Rests(c) ==
    /\ consumer' \in [Consumers -> Worker]
    /\ Others(c)
    /\ Connection(c)
    /\ consumer'[c].pc = "idle"
    /\ consumer'[c].buffer = consumer[c].buffer

\* The buffer changes, or the connection is lost, whatever the worker does.
Keeps(c) ==
    /\ consumer' \in [Consumers -> Worker]
    /\ Others(c)
    /\ consumer'[c].pc = consumer[c].pc
    /\ Busy(c) => consumer'[c].current = consumer[c].current

\* GoTo changes where the worker is.
LEMMA GoToWalks ==
    ASSUME Typed, NEW c \in Consumers, Busy(c), NEW pc \in PC \ {"idle"}, GoTo(c, pc)
    PROVE  Walks(c, pc)
<1>1. consumer[c] \in BusyWorker
  BY WorkerFields DEF Typed, Busy
<1> DEFINE s == [consumer[c] EXCEPT !.pc = pc]
<1>2. /\ s.pc = pc
      /\ s.online = consumer[c].online
      /\ s.buffer = consumer[c].buffer
      /\ s.current = consumer[c].current
      /\ s \in BusyWorker
  BY <1>1, BusySetPc DEF BusyWorker
<1>3. consumer' = [consumer EXCEPT ![c] = s]
  BY DEF GoTo
<1> HIDE DEF s
<1>4. consumer \in [Consumers -> Worker] /\ s \in Worker
  BY <1>2 DEF Typed, Worker
<1>5. consumer' \in [Consumers -> Worker] /\ consumer'[c] = s /\ Others(c)
  BY <1>3, <1>4 DEF Others
<1> QED
  BY <1>2, <1>5 DEF Walks, Connection

\* Start takes a delivery out of the channel.
LEMMA StartTakes ==
    ASSUME Typed, NEW c \in Consumers, NEW d \in consumer[c].buffer,
           NEW pc \in PC \ {"idle"}, Start(c, d, pc)
    PROVE  Takes(c, d, pc)
<1> DEFINE b == consumer[c].buffer \ {d}
           s == [pc |-> pc, online |-> consumer[c].online, buffer |-> b, current |-> d]
<1>1. /\ consumer[c].online \in BOOLEAN
      /\ b \in SUBSET Delivery
      /\ d \in Delivery
  BY WorkerFields DEF Typed
<1>2. consumer' = [consumer EXCEPT ![c] = s]
  BY DEF Start
<1> HIDE DEF b
<1>3. /\ s.pc = pc
      /\ s.online = consumer[c].online
      /\ s.buffer = b
      /\ s.current = d
      /\ s \in BusyWorker
  BY <1>1, BusyRecord DEF BusyWorker
<1> HIDE DEF s
<1>4. consumer \in [Consumers -> Worker] /\ s \in Worker
  BY <1>3 DEF Typed, Worker
<1>5. consumer' \in [Consumers -> Worker] /\ consumer'[c] = s /\ Others(c)
  BY <1>2, <1>4 DEF Others
<1> QED
  BY <1>3, <1>5 DEF Takes, Connection, b

\* When process returns the worker is idle.
LEMMA DoneRests ==
    ASSUME Typed, NEW c \in Consumers, consumer' = [consumer EXCEPT ![c] = Done(c)]
    PROVE  Rests(c)
<1> DEFINE s == Done(c)
<1>1. /\ consumer[c].online \in BOOLEAN
      /\ consumer[c].buffer \in SUBSET Delivery
  BY WorkerFields DEF Typed
<1>2. /\ s.pc = "idle"
      /\ s.online = consumer[c].online
      /\ s.buffer = consumer[c].buffer
      /\ s \in IdleWorker
  BY <1>1, IdleRecord DEF IdleWorker, Done
<1> HIDE DEF s
<1>3. consumer \in [Consumers -> Worker] /\ s \in Worker
  BY <1>2 DEF Typed, Worker
<1>4. consumer' \in [Consumers -> Worker] /\ consumer'[c] = s /\ Others(c)
  BY <1>3 DEF Others, s
<1> QED
  BY <1>2, <1>4 DEF Rests, Connection

\* A restarted worker has nothing in its hands.
LEMMA RestingRests ==
    ASSUME Typed, NEW c \in Consumers, consumer' = [consumer EXCEPT ![c] = Resting]
    PROVE  /\ consumer' \in [Consumers -> Worker]
           /\ Others(c)
           /\ consumer'[c].pc = "idle"
           /\ consumer'[c].online
           /\ consumer'[c].buffer = {}
<1> DEFINE s == Resting
<1>2. /\ s.pc = "idle"
      /\ s.online = TRUE
      /\ s.buffer = {}
      /\ s \in IdleWorker
  BY IdleRecord DEF IdleWorker, Resting
<1> HIDE DEF s
<1>3. consumer \in [Consumers -> Worker] /\ s \in Worker
  BY <1>2 DEF Typed, Worker
<1>4. consumer' \in [Consumers -> Worker] /\ consumer'[c] = s /\ Others(c)
  BY <1>3 DEF Others, s
<1> QED
  BY <1>2, <1>4

\* A change of the buffer changes nothing else.
LEMMA BufferKeeps ==
    ASSUME Typed, NEW c \in Consumers, NEW b \in SUBSET Delivery,
           consumer' = [consumer EXCEPT ![c].buffer = b]
    PROVE  Keeps(c) /\ Connection(c) /\ consumer'[c].buffer = b
<1> DEFINE s == [consumer[c] EXCEPT !.buffer = b]
<1>1. /\ s.pc = consumer[c].pc
      /\ s.online = consumer[c].online
      /\ s.buffer = b
      /\ Busy(c) => s.current = consumer[c].current
      /\ s \in Worker
  <2>1. CASE Busy(c)
    <3>1. consumer[c] \in BusyWorker
      BY <2>1, WorkerFields DEF Typed, Busy
    <3> QED
      BY <3>1, BusySetBuffer DEF BusyWorker, Worker
  <2>2. CASE ~ Busy(c)
    <3>1. consumer[c] \in IdleWorker
      BY <2>2, WorkerFields DEF Typed, Busy
    <3> QED
      BY <2>2, <3>1, IdleSetBuffer DEF IdleWorker, Worker
  <2> QED
    BY <2>1, <2>2
<1>2. consumer' = [consumer EXCEPT ![c] = s]
  OBVIOUS
<1> HIDE DEF s
<1>3. consumer \in [Consumers -> Worker]
  BY DEF Typed
<1>4. consumer' \in [Consumers -> Worker] /\ consumer'[c] = s /\ Others(c)
  BY <1>1, <1>2, <1>3 DEF Others
<1> QED
  BY <1>1, <1>4 DEF Keeps, Connection

\* A lost connection changes nothing else.
LEMMA OfflineKeeps ==
    ASSUME Typed, NEW c \in Consumers,
           consumer' = [consumer EXCEPT ![c].online = FALSE]
    PROVE  Keeps(c) /\ ~ consumer'[c].online /\ consumer'[c].buffer = consumer[c].buffer
<1> DEFINE s == [consumer[c] EXCEPT !.online = FALSE]
<1>1. /\ s.pc = consumer[c].pc
      /\ s.online = FALSE
      /\ s.buffer = consumer[c].buffer
      /\ Busy(c) => s.current = consumer[c].current
      /\ s \in Worker
  <2>1. CASE Busy(c)
    <3>1. consumer[c] \in BusyWorker
      BY <2>1, WorkerFields DEF Typed, Busy
    <3> QED
      BY <3>1, BusySetOnline DEF BusyWorker, Worker
  <2>2. CASE ~ Busy(c)
    <3>1. consumer[c] \in IdleWorker
      BY <2>2, WorkerFields DEF Typed, Busy
    <3> QED
      BY <2>2, <3>1, IdleSetOnline DEF IdleWorker, Worker
  <2> QED
    BY <2>1, <2>2
<1>2. consumer' = [consumer EXCEPT ![c] = s]
  OBVIOUS
<1> HIDE DEF s
<1>3. consumer \in [Consumers -> Worker]
  BY DEF Typed
<1>4. consumer' \in [Consumers -> Worker] /\ consumer'[c] = s /\ Others(c)
  BY <1>1, <1>2, <1>3 DEF Others
<1> QED
  BY <1>1, <1>4 DEF Keeps

-----------------------------------------------------------------------------
USE DEF Busy, Current

\* A change of nothing but a worker's place keeps what is in its hands.
LEMMA WalkHolds ==
    ASSUME Typed, NEW c \in Consumers, NEW pc \in PC \ {"idle"}, Busy(c),
           Walks(c, pc), UNCHANGED msg, DeliveriesAreHeld
    PROVE  DeliveriesAreHeld'
  BY DEF Walks, Others, Connection, DeliveriesAreHeld, Held

\* Two deliveries of the same message are the same.
LEMMA SameDelivery ==
    ASSUME NEW c \in Consumers, NEW d \in Delivery, NEW f \in Delivery,
           Held(c, d), Held(c, f), d.copy = f.copy
    PROVE  d = f
<1>1. /\ d = [copy |-> d.copy, event |-> d.event, attempt |-> d.attempt]
      /\ f = [copy |-> f.copy, event |-> f.event, attempt |-> f.attempt]
  BY DEF Delivery
<1>2. d.event = f.event /\ d.attempt = f.attempt
  BY DEF Held
<1> QED
  BY <1>1, <1>2

\* A delivery that moves from the channel into process stays in one place.
LEMMA TakeHolds ==
    ASSUME Typed, NEW c \in Consumers, ~ Busy(c), NEW d \in consumer[c].buffer,
           NEW pc \in PC \ {"idle"}, Takes(c, d, pc), UNCHANGED msg,
           DeliveriesAreHeld
    PROVE  DeliveriesAreHeld'
<1>1. consumer[c].buffer \subseteq Delivery
  BY WorkerFields DEF Typed
<1>2. consumer[c].online =>
          \A f \in consumer[c].buffer \ {d} : f.copy # d.copy
  BY <1>1, SameDelivery DEF DeliveriesAreHeld
<1> QED
  BY <1>2 DEF Takes, Others, Connection, DeliveriesAreHeld, Held

\* Without a worker's current delivery the others are still held.
LEMMA RestHolds ==
    ASSUME Typed, NEW c \in Consumers, Rests(c), UNCHANGED msg, DeliveriesAreHeld
    PROVE  DeliveriesAreHeld'
  BY DEF Rests, Others, Connection, DeliveriesAreHeld, Held

\* A fault stays on the books.
LEMMA FaultShows ==
    ASSUME Typed, BudgetShrinks, NEW x \in Disturbances, Spend(x)
    PROVE  /\ budget' \in [Disturbances -> Nat]
           /\ BudgetShrinks'
           /\ Spent(x)'
           /\ Faulty => Faulty'
           /\ Spent("late") => Spent("late")'
           /\ x # "fault" /\ Faulty' => Faulty
           /\ x # "late" /\ Spent("late")' => Spent("late")
  BY ConsumerAssumption
     DEF Typed, BudgetShrinks, Spend, Spent, Faulty, Disturbances

\* A delivery in the handler is of an event that nobody has handled.
LEMMA InTheHandlerUnhandled ==
    ASSUME IInv, ~ Faulty, ~ Spent("late"), NEW c \in Consumers,
           consumer[c].pc \in {"handling", "failed"}
    PROVE  handled[Current(c).event] = 0
<1> DEFINE e == Current(c).event
<1>1. e \in Events /\ handled[e] \in 0 .. 2
  BY WorkerFields DEF IInv, Typed, Delivery, PC
<1>2. /\ inbox[e].status = "processing"
      /\ \A d \in Consumers \ {c} : Handles(d) => Current(d).event # e
  BY DEF IInv, HandlersHoldTheLock, Handles
<1>3. ~ \E d \in Consumers : consumer[d].pc = "handled" /\ Current(d).event = e
  BY <1>2 DEF Handles
<1>4. handled[e] <= 1 /\ handled[e] # 1
  BY <1>1, <1>2, <1>3 DEF IInv, SuccessIsRecorded
<1> QED
  BY <1>1, <1>4

\* Nor has anybody handled an event whose row can be claimed.
LEMMA ClaimedUnhandled ==
    ASSUME IInv, ~ Faulty, ~ Spent("late"), NEW e \in Events, Claims(e)
    PROVE  /\ handled[e] = 0
           /\ \A c \in Consumers : Handles(c) => Current(c).event # e
<1>1. \A c \in Consumers : Handles(c) => Current(c).event # e
  BY DEF IInv, HandlersHoldTheLock, Claims
<1>2. handled[e] \in 0 .. 2
  BY DEF IInv, Typed
<1>3. handled[e] <= 1 /\ handled[e] # 1
  BY <1>1, <1>2 DEF IInv, SuccessIsRecorded, Handles, Claims
<1> QED
  BY <1>1, <1>2, <1>3

\* The handler returns nil.
LEMMA HandlerSucceedsKeeps ==
    ASSUME IInv, NEW c \in Consumers, HandlerSucceeds(c)
    PROVE  IInv'
<1> DEFINE e == Current(c).event
<1>1. /\ Typed
      /\ UNCHANGED <<msg, inbox, sent, failures, budget>>
      /\ consumer[c].pc = "handling"
      /\ e \in Events
      /\ handled' = [handled EXCEPT ![e] = UpTo(2, @)]
  BY WorkerFields DEF IInv, Typed, HandlerSucceeds, Delivery, PC
<1>2. Walks(c, "handled")
  BY <1>1, GoToWalks DEF HandlerSucceeds, PC
<1>3. /\ handled' \in [Events -> 0 .. 2]
      /\ handled'[e] = UpTo(2, handled[e])
      /\ handled'[e] > 0
      /\ \A x \in Events \ {e} : handled'[x] = handled[x]
  BY <1>1 DEF Typed, UpTo
<1>4. Typed'
  BY <1>1, <1>2, <1>3 DEF Typed, Walks
<1>5. DeliveriesAreHeld'
  BY <1>1, <1>2, WalkHolds DEF IInv, PC
<1>6. PathsAreTaken'
  BY <1>1, <1>2 DEF IInv, PathsAreTaken, Walks, Others, Faulty, Spent
<1>7. FailuresAreCounted'
  BY <1>1, <1>2 DEF IInv, FailuresAreCounted, Walks, Others
<1>8. SuccessIsTrue'
  BY <1>1, <1>2, <1>3 DEF IInv, SuccessIsTrue, Walks, Others
<1>9. HandlersHoldTheLock'
  BY <1>1, <1>2 DEF IInv, HandlersHoldTheLock, Handles, Walks, Others, Spent
<1>10. SuccessIsRecorded'
  <2>1. ASSUME ~ Faulty, ~ Spent("late")
        PROVE  handled'[e] = 1
    BY <1>1, <1>3, <2>1, InTheHandlerUnhandled DEF UpTo
  <2> QED
    BY <1>1, <1>2, <1>3, <2>1
       DEF IInv, SuccessIsRecorded, Walks, Others, Spent, Faulty
<1>11. /\ BudgetShrinks'
       /\ HoldersHold'
       /\ LockedIsClaimed'
       /\ UnclaimedIsAlive'
  BY <1>1
     DEF IInv, BudgetShrinks, HoldersHold, LockedIsClaimed, UnclaimedIsAlive,
         Alive, Faulty, Spent
<1>12. AllOnline'
  BY <1>1, <1>2 DEF IInv, AllOnline, Walks, Others, Connection, Faulty, Spent
<1> QED
  BY <1>4, <1>5, <1>6, <1>7, <1>8, <1>9, <1>10, <1>11, <1>12 DEF IInv

\* The handler returns an error.
LEMMA HandlerFailsKeeps ==
    ASSUME IInv, NEW c \in Consumers, HandlerFails(c)
    PROVE  IInv'
<1> DEFINE e == Current(c).event
<1>1. /\ Typed
      /\ UNCHANGED <<msg, inbox, sent, handled, budget>>
      /\ consumer[c].pc = "handling"
      /\ e \in Events
      /\ Current(c).attempt \in 1 .. MaxRetries
      /\ failures' = [failures EXCEPT ![e] = UpTo(MaxRetries, @)]
  BY WorkerFields DEF IInv, Typed, HandlerFails, Delivery, PC
<1>2. Walks(c, "failed")
  BY <1>1, GoToWalks DEF HandlerFails, PC
<1>3. /\ failures' \in [Events -> 0 .. MaxRetries]
      /\ failures'[e] = UpTo(MaxRetries, failures[e])
      /\ failures[e] >= Current(c).attempt - 1
      /\ \A x \in Events \ {e} : failures'[x] = failures[x]
  BY <1>1, ConsumerAssumption DEF Typed, UpTo, IInv, FailuresAreCounted
<1>4. \A x \in Events : failures'[x] >= failures[x]
  BY <1>1, <1>3, ConsumerAssumption DEF UpTo, Typed
<1>5. failures'[e] >= Current(c).attempt
  BY <1>1, <1>3, ConsumerAssumption DEF UpTo, Typed
<1>6. Typed'
  BY <1>1, <1>2, <1>3 DEF Typed, Walks
<1>7. DeliveriesAreHeld'
  BY <1>1, <1>2, WalkHolds DEF IInv, PC
<1>8. PathsAreTaken'
  BY <1>1, <1>2 DEF IInv, PathsAreTaken, Walks, Others, Faulty, Spent
<1>9. FailuresAreCounted'
  <2>1. ASSUME NEW m \in Copies, msg[m].place # "free"
        PROVE  failures'[msg[m].event] >= msg[m].attempt - 1
    <3>1. msg[m].event \in Events /\ msg[m].attempt \in Nat
      BY <1>1 DEF Typed, Message
    <3>2. failures[msg[m].event] >= msg[m].attempt - 1
      BY <2>1 DEF IInv, FailuresAreCounted
    <3>3. /\ failures[msg[m].event] \in Nat
          /\ failures'[msg[m].event] \in Nat
      BY <1>1, <1>3, <3>1, ConsumerAssumption DEF Typed
    <3> QED
      BY <1>4, <3>1, <3>2, <3>3
  <2>2. ASSUME NEW k \in Consumers, NEW d \in Delivery, d \in consumer'[k].buffer
        PROVE  failures'[d.event] >= d.attempt - 1
    <3>1. d \in consumer[k].buffer /\ d.event \in Events /\ d.attempt \in Nat
      BY <1>2, <2>2 DEF Walks, Others, Delivery
    <3>2. failures[d.event] >= d.attempt - 1
      BY <3>1 DEF IInv, FailuresAreCounted
    <3>3. failures[d.event] \in Nat /\ failures'[d.event] \in Nat
      BY <1>1, <1>3, <3>1, ConsumerAssumption DEF Typed
    <3> QED
      BY <1>4, <3>1, <3>2, <3>3
  <2>3. \A k \in Consumers : /\ consumer'[k].buffer \subseteq Delivery
                             /\ Busy(k) => Current(k) \in Delivery
    BY <1>1, <1>2, WorkerFields DEF Walks, Typed
  <2>4. ASSUME NEW k \in Consumers \ {c}, Busy(k)
        PROVE  /\ consumer'[k] = consumer[k]
               /\ failures'[Current(k).event] >= failures[Current(k).event]
               /\ failures'[Current(k).event] \in 0 .. MaxRetries
               /\ failures[Current(k).event] \in 0 .. MaxRetries
               /\ Current(k).attempt \in 1 .. MaxRetries
    BY <1>1, <1>2, <1>3, <1>4, <2>3, <2>4 DEF Walks, Others, Delivery, Typed
  <2>5. ASSUME NEW k \in Consumers \ {c}, Busy(k)
        PROVE  /\ failures'[Current(k).event] >= Current(k).attempt - 1
               /\ consumer[k].pc \in {"failed", "retrying"} =>
                      failures'[Current(k).event] >= Current(k).attempt
               /\ consumer[k].pc = "retrying" => Current(k).attempt < MaxRetries
               /\ consumer[k].pc = "burying" /\ Current(k).event \notin Malformed =>
                      failures'[Current(k).event] = MaxRetries
    BY <2>4, <2>5, ConsumerAssumption DEF IInv, FailuresAreCounted
  <2>6. /\ consumer'[c].pc = "failed"
        /\ consumer'[c].current = Current(c)
        /\ failures'[e] \in Nat
        /\ Current(c).attempt \in Nat
    BY <1>1, <1>2, <1>3, ConsumerAssumption DEF Walks
  <2>7. ASSUME NEW k \in Consumers
        PROVE  /\ \A d \in consumer'[k].buffer : failures'[d.event] >= d.attempt - 1
               /\ Busy(k)' => failures'[Current(k).event'] >= Current(k).attempt' - 1
               /\ consumer'[k].pc \in {"failed", "retrying"} =>
                      failures'[Current(k).event'] >= Current(k).attempt'
               /\ consumer'[k].pc = "retrying" => Current(k).attempt' < MaxRetries
               /\ consumer'[k].pc = "burying" /\ Current(k).event' \notin Malformed =>
                      failures'[Current(k).event'] = MaxRetries
    <3>1. CASE k = c
      BY <1>5, <2>2, <2>3, <2>6, <3>1
    <3>2. CASE k # c
      <4>1. consumer'[k] = consumer[k]
        BY <1>2, <3>2 DEF Walks, Others
      <4>2. CASE Busy(k)
        BY <2>2, <2>3, <2>5, <3>2, <4>1, <4>2
      <4>3. CASE ~ Busy(k)
        BY <2>2, <2>3, <4>1, <4>3
      <4> QED
        BY <4>2, <4>3
    <3> QED
      BY <3>1, <3>2
  <2> QED
    BY <1>1, <2>1, <2>7 DEF FailuresAreCounted
<1>10. SuccessIsTrue'
  BY <1>1, <1>2 DEF IInv, SuccessIsTrue, Walks, Others
<1>11. HandlersHoldTheLock'
  BY <1>1, <1>2 DEF IInv, HandlersHoldTheLock, Handles, Walks, Others, Spent
<1>12. SuccessIsRecorded'
  BY <1>1, <1>2 DEF IInv, SuccessIsRecorded, Walks, Others, Spent, Faulty
<1>13. /\ BudgetShrinks'
       /\ HoldersHold'
       /\ LockedIsClaimed'
       /\ UnclaimedIsAlive'
  BY <1>1
     DEF IInv, BudgetShrinks, HoldersHold, LockedIsClaimed, UnclaimedIsAlive,
         Alive, Faulty, Spent
<1>14. AllOnline'
  BY <1>1, <1>2 DEF IInv, AllOnline, Walks, Others, Connection, Faulty, Spent
<1> QED
  BY <1>6, <1>7, <1>8, <1>9, <1>10, <1>11, <1>12, <1>13, <1>14 DEF IInv

\* MarkInboxProcessed records what has been handled.
LEMMA MarkInboxProcessedKeeps ==
    ASSUME IInv, NEW c \in Consumers, MarkInboxProcessed(c)
    PROVE  IInv'
<1> DEFINE e == Current(c).event
           row == [status |-> "processed", lock |-> 0]
<1>1. /\ Typed
      /\ UNCHANGED <<msg, sent, handled, failures, budget>>
      /\ consumer[c].pc = "handled"
      /\ e \in Events
      /\ handled[e] > 0
      /\ inbox' = [inbox EXCEPT ![e] = row]
  BY WorkerFields
     DEF IInv, Typed, MarkInboxProcessed, Delivery, PC, SuccessIsTrue
<1>2. Walks(c, "acking")
  BY <1>1, GoToWalks DEF MarkInboxProcessed, PC
<1>3. /\ inbox' \in [Events -> Row]
      /\ inbox'[e].status = "processed"
      /\ inbox'[e].lock = 0
      /\ \A x \in Events \ {e} : inbox'[x] = inbox[x]
  BY <1>1 DEF Typed, Row
<1>4. Typed'
  BY <1>1, <1>2, <1>3 DEF Typed, Walks
<1>5. DeliveriesAreHeld'
  BY <1>1, <1>2, WalkHolds DEF IInv, PC
<1>6. PathsAreTaken'
  <2>1. ASSUME NEW k \in Consumers, Busy(k)
        PROVE  Current(k).event \in Events
    BY <1>1, <2>1, WorkerFields DEF Typed, Delivery
  <2> QED
    BY <1>1, <1>2, <1>3, <2>1
       DEF IInv, PathsAreTaken, Walks, Others, Faulty, Spent
<1>7. FailuresAreCounted'
  BY <1>1, <1>2 DEF IInv, FailuresAreCounted, Walks, Others
<1>8. SuccessIsTrue'
  BY <1>1, <1>2, <1>3 DEF IInv, SuccessIsTrue, Walks, Others
<1>9. HandlersHoldTheLock'
  <2>1. ASSUME NEW k \in Consumers, Busy(k)
        PROVE  Current(k).event \in Events
    BY <1>1, <2>1, WorkerFields DEF Typed, Delivery
  <2> QED
    BY <1>1, <1>2, <1>3, <2>1
       DEF IInv, HandlersHoldTheLock, Handles, Walks, Others, Spent, PC
<1>10. SuccessIsRecorded'
  BY <1>1, <1>2, <1>3 DEF IInv, SuccessIsRecorded, Walks, Others, Spent, Faulty
<1>11. /\ LockedIsClaimed'
       /\ UnclaimedIsAlive'
  BY <1>1, <1>3
     DEF IInv, LockedIsClaimed, UnclaimedIsAlive, Alive, Faulty, Spent
<1>12. BudgetShrinks' /\ HoldersHold'
  BY <1>1 DEF IInv, BudgetShrinks, HoldersHold
<1>13. AllOnline'
  BY <1>1, <1>2 DEF IInv, AllOnline, Walks, Others, Connection, Faulty, Spent
<1> QED
  BY <1>4, <1>5, <1>6, <1>7, <1>8, <1>9, <1>10, <1>11, <1>12, <1>13 DEF IInv

\* MarkInboxProcessed fails: a handled event that no row records.
LEMMA MarkInboxProcessedFailsKeeps ==
    ASSUME IInv, NEW c \in Consumers, MarkInboxProcessedFails(c)
    PROVE  IInv'
<1>1. /\ Typed
      /\ UNCHANGED <<msg, inbox, sent, handled, failures>>
      /\ Spend("fault")
  BY DEF IInv, MarkInboxProcessedFails, Fault
<1>2. Rests(c)
  BY <1>1, DoneRests DEF MarkInboxProcessedFails
<1>3. /\ budget' \in [Disturbances -> Nat]
      /\ BudgetShrinks'
      /\ Faulty'
      /\ Spent("late") => Spent("late")'
  BY <1>1, FaultShows DEF IInv, Disturbances, Faulty
<1>4. Typed'
  BY <1>1, <1>2, <1>3 DEF Typed, Rests
<1>5. DeliveriesAreHeld'
  BY <1>1, <1>2, RestHolds DEF IInv
<1>6. PathsAreTaken'
  BY <1>1, <1>2, <1>3 DEF IInv, PathsAreTaken, Rests, Others
<1>7. FailuresAreCounted'
  BY <1>1, <1>2 DEF IInv, FailuresAreCounted, Rests, Others
<1>8. SuccessIsTrue'
  BY <1>1, <1>2 DEF IInv, SuccessIsTrue, Rests, Others
<1>9. HandlersHoldTheLock'
  BY <1>1, <1>2, <1>3 DEF IInv, HandlersHoldTheLock, Handles, Rests, Others
<1>10. SuccessIsRecorded' /\ AllOnline'
  BY <1>3 DEF SuccessIsRecorded, AllOnline
<1>11. HoldersHold' /\ LockedIsClaimed' /\ UnclaimedIsAlive'
  BY <1>1, <1>3 DEF IInv, HoldersHold, LockedIsClaimed, UnclaimedIsAlive, Alive
<1> QED
  BY <1>3, <1>4, <1>5, <1>6, <1>7, <1>8, <1>9, <1>10, <1>11 DEF IInv

\* After a failure comes a retry as long as there is one left.
LEMMA AfterFailureCounts ==
    ASSUME Typed, FailuresAreCounted, NEW c \in Consumers, consumer[c].pc = "failed",
           UNCHANGED <<msg, failures>>, Walks(c, AfterFailure(c))
    PROVE  /\ FailuresAreCounted'
           /\ AfterFailure(c) \in {"retrying", "burying"}
<1>1. /\ Current(c).attempt \in 1 .. MaxRetries
      /\ failures[Current(c).event] \in 0 .. MaxRetries
      /\ failures[Current(c).event] >= Current(c).attempt
  BY WorkerFields DEF Typed, Delivery, FailuresAreCounted, PC
<1>2. /\ AfterFailure(c) = "retrying" => Current(c).attempt < MaxRetries
      /\ AfterFailure(c) = "burying" => failures[Current(c).event] = MaxRetries
      /\ AfterFailure(c) \in {"retrying", "burying"}
  BY <1>1, ConsumerAssumption DEF AfterFailure
<1> QED
  BY <1>1, <1>2 DEF FailuresAreCounted, Walks, Others

\* MarkInboxFailed gives the row the lock of the retry.
LEMMA MarkInboxFailedKeeps ==
    ASSUME IInv, NEW c \in Consumers, MarkInboxFailed(c)
    PROVE  IInv'
<1> DEFINE e == Current(c).event
           row == [status |-> "processing", lock |-> RetryDelay(c)]
<1>1. /\ Typed
      /\ UNCHANGED <<msg, sent, handled, failures, budget>>
      /\ consumer[c].pc = "failed"
      /\ e \in Events
      /\ RetryDelay(c) \in Nat
      /\ inbox' = [inbox EXCEPT ![e] = row]
  BY WorkerFields, ConsumerAssumption
     DEF IInv, Typed, MarkInboxFailed, Delivery, PC, RetryDelay
<1>2. Walks(c, AfterFailure(c))
  BY <1>1, GoToWalks DEF MarkInboxFailed, PC, AfterFailure
<1>3. FailuresAreCounted' /\ AfterFailure(c) \in {"retrying", "burying"}
  BY <1>1, <1>2, AfterFailureCounts DEF IInv
<1>4. /\ inbox' \in [Events -> Row]
      /\ inbox'[e].status = "processing"
      /\ \A x \in Events \ {e} : inbox'[x] = inbox[x]
  BY <1>1 DEF Typed, Row
<1>5. ASSUME NEW k \in Consumers, Busy(k)
      PROVE  Current(k).event \in Events
  BY <1>1, <1>5, WorkerFields DEF Typed, Delivery
<1>6. Typed'
  BY <1>1, <1>2, <1>4 DEF Typed, Walks
<1>7. DeliveriesAreHeld'
  BY <1>1, <1>2, <1>3, WalkHolds DEF IInv, PC
<1>8. PathsAreTaken'
  BY <1>1, <1>2, <1>3, <1>4, <1>5
     DEF IInv, PathsAreTaken, Walks, Others, Faulty, Spent
<1>9. SuccessIsTrue'
  BY <1>1, <1>2, <1>3, <1>4 DEF IInv, SuccessIsTrue, Walks, Others
<1>10. HandlersHoldTheLock'
  BY <1>1, <1>2, <1>3, <1>4, <1>5
     DEF IInv, HandlersHoldTheLock, Handles, Walks, Others, Spent, PC
<1>11. SuccessIsRecorded'
  <2>1. ASSUME ~ Faulty, ~ Spent("late")
        PROVE  handled[e] = 0
    BY <1>1, <2>1, InTheHandlerUnhandled
  <2> QED
    BY <1>1, <1>2, <1>4, <2>1
       DEF IInv, SuccessIsRecorded, Walks, Others, Spent, Faulty
<1>12. /\ LockedIsClaimed'
       /\ UnclaimedIsAlive'
  BY <1>1, <1>4
     DEF IInv, LockedIsClaimed, UnclaimedIsAlive, Alive, Faulty, Spent
<1>13. BudgetShrinks' /\ HoldersHold'
  BY <1>1 DEF IInv, BudgetShrinks, HoldersHold
<1>14. AllOnline'
  BY <1>1, <1>2 DEF IInv, AllOnline, Walks, Others, Connection, Faulty, Spent
<1> QED
  BY <1>3, <1>6, <1>7, <1>8, <1>9, <1>10, <1>11, <1>12, <1>13, <1>14 DEF IInv

\* MarkInboxFailed fails, and process goes on.
LEMMA MarkInboxFailedFailsKeeps ==
    ASSUME IInv, NEW c \in Consumers, MarkInboxFailedFails(c)
    PROVE  IInv'
<1>1. /\ Typed
      /\ UNCHANGED <<msg, inbox, sent, handled, failures>>
      /\ consumer[c].pc = "failed"
      /\ Spend("fault")
  BY DEF IInv, MarkInboxFailedFails, Fault
<1>2. Walks(c, AfterFailure(c))
  BY <1>1, GoToWalks DEF MarkInboxFailedFails, PC, AfterFailure
<1>3. FailuresAreCounted' /\ AfterFailure(c) \in {"retrying", "burying"}
  BY <1>1, <1>2, AfterFailureCounts DEF IInv
<1>4. /\ budget' \in [Disturbances -> Nat]
      /\ BudgetShrinks'
      /\ Faulty'
      /\ Spent("late") => Spent("late")'
  BY <1>1, FaultShows DEF IInv, Disturbances, Faulty
<1>5. Typed'
  BY <1>1, <1>2, <1>4 DEF Typed, Walks
<1>6. DeliveriesAreHeld'
  BY <1>1, <1>2, <1>3, WalkHolds DEF IInv, PC
<1>7. PathsAreTaken'
  BY <1>1, <1>2, <1>3, <1>4 DEF IInv, PathsAreTaken, Walks, Others
<1>8. SuccessIsTrue'
  BY <1>1, <1>2, <1>3 DEF IInv, SuccessIsTrue, Walks, Others
<1>9. HandlersHoldTheLock'
  BY <1>1, <1>2, <1>3, <1>4
     DEF IInv, HandlersHoldTheLock, Handles, Walks, Others
<1>10. SuccessIsRecorded' /\ AllOnline'
  BY <1>4 DEF SuccessIsRecorded, AllOnline
<1>11. HoldersHold' /\ LockedIsClaimed' /\ UnclaimedIsAlive'
  BY <1>1, <1>4 DEF IInv, HoldersHold, LockedIsClaimed, UnclaimedIsAlive, Alive
<1> QED
  BY <1>3, <1>4, <1>5, <1>6, <1>7, <1>8, <1>9, <1>10, <1>11 DEF IInv

\* A delivery in process has as many failures behind it as it had in the channel.
LEMMA TakeCounts ==
    ASSUME Typed, FailuresAreCounted, NEW c \in Consumers,
           NEW d \in consumer[c].buffer, NEW pc \in {"handling", "acking", "burying"},
           Takes(c, d, pc), pc = "burying" => d.event \in Malformed,
           UNCHANGED <<msg, failures>>
    PROVE  FailuresAreCounted'
  BY DEF FailuresAreCounted, Takes, Others

\* What cannot be decoded is on its way to the dead letters.
LEMMA RejectKeeps ==
    ASSUME IInv, NEW c \in Consumers, NEW d \in consumer[c].buffer, Reject(c, d)
    PROVE  IInv'
<1>1. /\ Typed
      /\ UNCHANGED <<msg, inbox, sent, handled, failures, budget>>
      /\ consumer[c].pc = "idle"
      /\ d.event \in Malformed
  BY DEF IInv, Reject
<1>2. Takes(c, d, "burying")
  BY <1>1, StartTakes DEF Reject, PC
<1>3. Typed'
  BY <1>1, <1>2 DEF Typed, Takes
<1>4. DeliveriesAreHeld'
  BY <1>1, <1>2, TakeHolds DEF IInv, PC
<1>5. PathsAreTaken'
  BY <1>1, <1>2 DEF IInv, PathsAreTaken, Takes, Others, Faulty, Spent
<1>6. FailuresAreCounted'
  BY <1>1, <1>2, TakeCounts DEF IInv
<1>7. SuccessIsTrue'
  BY <1>1, <1>2 DEF IInv, SuccessIsTrue, Takes, Others
<1>8. HandlersHoldTheLock'
  BY <1>1, <1>2 DEF IInv, HandlersHoldTheLock, Handles, Takes, Others, Spent
<1>9. SuccessIsRecorded'
  BY <1>1, <1>2 DEF IInv, SuccessIsRecorded, Takes, Others, Spent, Faulty
<1>10. /\ BudgetShrinks'
       /\ HoldersHold'
       /\ LockedIsClaimed'
       /\ UnclaimedIsAlive'
  BY <1>1
     DEF IInv, BudgetShrinks, HoldersHold, LockedIsClaimed, UnclaimedIsAlive,
         Alive, Faulty, Spent
<1>11. AllOnline'
  BY <1>1, <1>2 DEF IInv, AllOnline, Takes, Others, Connection, Faulty, Spent
<1> QED
  BY <1>3, <1>4, <1>5, <1>6, <1>7, <1>8, <1>9, <1>10, <1>11 DEF IInv

\* A delivery claims the row of its event, or finds it done or locked.
LEMMA ClaimInboxKeeps ==
    ASSUME IInv, NEW c \in Consumers, NEW d \in consumer[c].buffer, ClaimInbox(c, d)
    PROVE  IInv'
<1> DEFINE e == d.event
           pc == IF Claims(e) THEN "handling" ELSE "acking"
<1>1. /\ Typed
      /\ UNCHANGED <<msg, sent, handled, failures, budget>>
      /\ consumer[c].pc = "idle"
      /\ e \in Events
      /\ e \notin Malformed
      /\ IF Claims(e) THEN inbox' = [inbox EXCEPT ![e] = ClaimedRow]
                      ELSE inbox' = inbox
  BY WorkerFields DEF IInv, Typed, ClaimInbox, Delivery
<1>2. pc \in {"handling", "acking"} /\ Takes(c, d, pc)
  BY <1>1, StartTakes DEF ClaimInbox, PC
<1>3. /\ inbox' \in [Events -> Row]
      /\ Claims(e) => inbox'[e].status = "processing" /\ inbox'[e].lock > 0
      /\ inbox'[e].status # "none"
      /\ \A x \in Events : ~ (Claims(e) /\ x = e) => inbox'[x] = inbox[x]
  <2>1. inbox[e] \in Row
    BY <1>1 DEF Typed
  <2>2. CASE Claims(e)
    BY <1>1, <2>2, ConsumerAssumption DEF Typed, Row, ClaimedRow
  <2>3. CASE ~ Claims(e)
    <3>1. inbox[e].status = "processed" \/ inbox[e].lock > 0
      BY <2>1, <2>3 DEF Claims, Row
    <3> QED
      BY <1>1, <2>3, <3>1 DEF IInv, LockedIsClaimed, Typed
  <2> QED
    BY <2>2, <2>3
<1>4. ASSUME ~ Faulty, ~ Spent("late"), Claims(e)
      PROVE  handled[e] = 0
  BY <1>1, <1>4, ClaimedUnhandled
<1>5. ASSUME ~ Spent("late"), Claims(e)
      PROVE  \A k \in Consumers : Handles(k) => Current(k).event # e
  BY <1>5 DEF IInv, HandlersHoldTheLock, Claims
<1>6. ASSUME NEW k \in Consumers, Busy(k)
      PROVE  Current(k).event \in Events
  BY <1>1, <1>6, WorkerFields DEF Typed, Delivery
<1> HIDE DEF pc
<1>7. Typed'
  BY <1>1, <1>2, <1>3 DEF Typed, Takes
<1>8. DeliveriesAreHeld'
  BY <1>1, <1>2, TakeHolds DEF IInv, PC
<1>9. PathsAreTaken'
  BY <1>1, <1>2, <1>3, <1>6
     DEF IInv, PathsAreTaken, Takes, Others, Faulty, Spent
<1>10. FailuresAreCounted'
  BY <1>1, <1>2, TakeCounts DEF IInv
<1>11. SuccessIsTrue'
  BY <1>1, <1>2, <1>3 DEF IInv, SuccessIsTrue, Takes, Others
<1>12. HandlersHoldTheLock'
  BY <1>1, <1>2, <1>3, <1>5, <1>6
     DEF IInv, HandlersHoldTheLock, Handles, Takes, Others, Spent, PC, pc
<1>13. SuccessIsRecorded'
  BY <1>1, <1>2, <1>3, <1>4
     DEF IInv, SuccessIsRecorded, Takes, Others, Spent, Faulty
<1>14. /\ BudgetShrinks'
       /\ HoldersHold'
  BY <1>1 DEF IInv, BudgetShrinks, HoldersHold
<1>15. LockedIsClaimed' /\ UnclaimedIsAlive'
  BY <1>1, <1>3
     DEF IInv, LockedIsClaimed, UnclaimedIsAlive, Alive, Faulty, Spent
<1>16. AllOnline'
  BY <1>1, <1>2 DEF IInv, AllOnline, Takes, Others, Connection, Faulty, Spent
<1> QED
  BY <1>7, <1>8, <1>9, <1>10, <1>11, <1>12, <1>13, <1>14, <1>15, <1>16 DEF IInv

\* ClaimInbox fails: the delivery is forgotten.
LEMMA ClaimInboxFailsKeeps ==
    ASSUME IInv, NEW c \in Consumers, NEW d \in consumer[c].buffer, ClaimInboxFails(c, d)
    PROVE  IInv'
<1> DEFINE b == consumer[c].buffer \ {d}
<1>1. /\ Typed
      /\ UNCHANGED <<msg, inbox, sent, handled, failures>>
      /\ consumer[c].pc = "idle"
      /\ Spend("fault")
      /\ b \in SUBSET Delivery
      /\ consumer' = [consumer EXCEPT ![c].buffer = b]
  BY WorkerFields DEF IInv, ClaimInboxFails, Fault, Typed
<1>2. Keeps(c) /\ Connection(c) /\ consumer'[c].buffer \subseteq consumer[c].buffer
  <2> HIDE DEF b
  <2>1. Keeps(c) /\ Connection(c) /\ consumer'[c].buffer = b
    BY <1>1, BufferKeeps
  <2> QED
    BY <2>1 DEF b
<1>3. /\ budget' \in [Disturbances -> Nat]
      /\ BudgetShrinks'
      /\ Faulty'
      /\ Spent("late") => Spent("late")'
  BY <1>1, FaultShows DEF IInv, Disturbances, Faulty
<1>4. Typed'
  BY <1>1, <1>2, <1>3 DEF Typed, Keeps
<1>5. DeliveriesAreHeld'
  BY <1>1, <1>2 DEF IInv, DeliveriesAreHeld, Held, Keeps, Others, Connection
<1>6. PathsAreTaken'
  BY <1>1, <1>2, <1>3 DEF IInv, PathsAreTaken, Keeps, Others
<1>7. FailuresAreCounted'
  BY <1>1, <1>2 DEF IInv, FailuresAreCounted, Keeps, Others
<1>8. SuccessIsTrue'
  BY <1>1, <1>2 DEF IInv, SuccessIsTrue, Keeps, Others
<1>9. HandlersHoldTheLock'
  BY <1>1, <1>2, <1>3 DEF IInv, HandlersHoldTheLock, Handles, Keeps, Others
<1>10. SuccessIsRecorded' /\ AllOnline'
  BY <1>3 DEF SuccessIsRecorded, AllOnline
<1>11. HoldersHold' /\ LockedIsClaimed' /\ UnclaimedIsAlive'
  BY <1>1, <1>3 DEF IInv, HoldersHold, LockedIsClaimed, UnclaimedIsAlive, Alive
<1> QED
  BY <1>3, <1>4, <1>5, <1>6, <1>7, <1>8, <1>9, <1>10, <1>11 DEF IInv

-----------------------------------------------------------------------------
(* What a step does to the messages.                                        *)

Elsewhere(m) == \A n \in Copies \ {m} : msg'[n] = msg[n]

\* No message is gone, and a dead letter stays one.
MessagesStay ==
    \A m \in Copies :
        /\ msg[m].place # "free" =>
            /\ msg'[m].place # "free"
            /\ msg'[m].event = msg[m].event
            /\ msg'[m].attempt = msg[m].attempt
        /\ msg[m].place = "dlq" => msg'[m].place = "dlq"

\* A message is put into a free slot.
LEMMA PutStays ==
    ASSUME Typed, NEW m \in Copies, msg[m].place = "free",
           NEW place \in {"queue", "retry", "dlq"}, NEW e \in Events,
           NEW attempt \in 1 .. MaxRetries, NEW ttl \in 0 .. RetryTTL,
           msg' = [msg EXCEPT ![m] =
                      [place |-> place, event |-> e, attempt |-> attempt,
                       ttl |-> ttl, holder |-> Nobody]]
    PROVE  /\ msg' \in [Copies -> Message]
           /\ Elsewhere(m)
           /\ MessagesStay
           /\ msg'[m].place = place
           /\ msg'[m].event = e
           /\ msg'[m].attempt = attempt
           /\ msg'[m].ttl = ttl
           /\ msg'[m].holder = Nobody
<1> DEFINE x == [place |-> place, event |-> e, attempt |-> attempt,
                 ttl |-> ttl, holder |-> Nobody]
<1>1. /\ x \in Message
      /\ x.place = place
      /\ x.event = e
      /\ x.attempt = attempt
      /\ x.ttl = ttl
      /\ x.holder = Nobody
  BY DEF Message
<1> HIDE DEF x
<1>2. msg' \in [Copies -> Message] /\ msg'[m] = x /\ Elsewhere(m)
  BY <1>1 DEF Typed, Elsewhere, x
<1> QED
  BY <1>1, <1>2 DEF MessagesStay, Elsewhere

\* A free slot is nobody's delivery.
LEMMA PutHolds ==
    ASSUME Typed, DeliveriesAreHeld, NEW m \in Copies, msg[m].place = "free",
           Elsewhere(m), UNCHANGED consumer
    PROVE  DeliveriesAreHeld'
<1>1. ASSUME NEW c \in Consumers, NEW d \in Delivery, Held(c, d)
      PROVE  Held(c, d)'
  BY <1>1 DEF Held, Elsewhere, Delivery
<1>2. ASSUME NEW c \in Consumers
      PROVE  /\ consumer[c].buffer \subseteq Delivery
             /\ Busy(c) => Current(c) \in Delivery
  BY WorkerFields DEF Typed
<1> QED
  BY <1>1, <1>2 DEF DeliveriesAreHeld

\* The outbox publishes an event, for the first time or again.
LEMMA PublishEventKeeps ==
    ASSUME IInv, NEW e \in Events, PublishEvent(e)
    PROVE  IInv'
<1>1. /\ Typed
      /\ UNCHANGED <<inbox, consumer, handled, failures>>
      /\ sent' = sent \union {e}
      /\ Spend("publish")
  BY DEF IInv, PublishEvent
<1>2. /\ budget' \in [Disturbances -> Nat]
      /\ BudgetShrinks'
      /\ Faulty => Faulty'
      /\ Faulty' => Faulty
      /\ Spent("late") => Spent("late")'
  BY <1>1, FaultShows DEF IInv, Disturbances
<1>3. PICK m \in Copies :
          /\ msg[m].place = "free"
          /\ msg' = [msg EXCEPT ![m] =
                [place |-> "queue", event |-> e, attempt |-> 1,
                 ttl |-> 0, holder |-> Nobody]]
  BY DEF PublishEvent, FreeCopies
<1>4. /\ msg' \in [Copies -> Message]
      /\ Elsewhere(m)
      /\ MessagesStay
      /\ msg'[m].place = "queue"
      /\ msg'[m].event = e
      /\ msg'[m].attempt = 1
      /\ msg'[m].holder = Nobody
  <2>1. 1 \in 1 .. MaxRetries /\ 0 \in 0 .. RetryTTL
    BY ConsumerAssumption
  <2> QED
    BY <1>1, <1>3, <2>1, PutStays
<1>5. Typed'
  BY <1>1, <1>2, <1>4 DEF Typed
<1>6. DeliveriesAreHeld'
  BY <1>1, <1>3, <1>4, PutHolds DEF IInv
<1>7. HoldersHold'
  BY <1>4 DEF IInv, HoldersHold, Elsewhere
<1>8. PathsAreTaken'
  BY <1>1, <1>4, <1>2 DEF IInv, PathsAreTaken, MessagesStay
<1>9. FailuresAreCounted'
  <2>1. failures[e] \in Nat
    BY <1>1, ConsumerAssumption DEF Typed
  <2> QED
    BY <1>1, <1>4, <2>1 DEF IInv, FailuresAreCounted, Elsewhere
<1>10. SuccessIsTrue' /\ LockedIsClaimed'
  BY <1>1 DEF IInv, SuccessIsTrue, LockedIsClaimed
<1>11. HandlersHoldTheLock'
  BY <1>1, <1>2 DEF IInv, HandlersHoldTheLock, Handles
<1>12. SuccessIsRecorded' /\ AllOnline'
  BY <1>1, <1>2 DEF IInv, SuccessIsRecorded, AllOnline
<1>13. UnclaimedIsAlive'
  BY <1>1, <1>4, <1>2 DEF IInv, UnclaimedIsAlive, Alive, MessagesStay
<1> QED
  BY <1>2, <1>5, <1>6, <1>7, <1>8, <1>9, <1>10, <1>11, <1>12, <1>13 DEF IInv

\* A retry or a dead letter is published in place of the current delivery.
LEMMA RepublishKeeps ==
    ASSUME IInv, NEW c \in Consumers, consumer[c].pc \in {"retrying", "burying"},
           NEW place \in {"retry", "dlq"}, NEW attempt \in 1 .. MaxRetries,
           NEW ttl \in 0 .. RetryTTL,
           consumer[c].pc = "retrying" => attempt = Current(c).attempt + 1,
           consumer[c].pc = "burying" =>
               place = "dlq" /\ attempt = Current(c).attempt,
           Republish(c, place, attempt, ttl)
    PROVE  IInv'
<1> DEFINE e == Current(c).event
<1>1. /\ Typed
      /\ UNCHANGED <<inbox, sent, handled, failures, budget>>
      /\ e \in Events
      /\ failures[e] \in Nat
      /\ Current(c).attempt \in Nat
  BY WorkerFields, ConsumerAssumption DEF IInv, Republish, Typed, Delivery
<1>2. SuccessIsTrue' /\ LockedIsClaimed' /\ BudgetShrinks'
  <2>1. Walks(c, "acking") \/ Rests(c)
    BY <1>1, DoneRests, GoToWalks DEF Republish, PC
  <2> QED
    BY <1>1, <2>1
       DEF IInv, SuccessIsTrue, LockedIsClaimed, BudgetShrinks, Walks, Rests,
           Others
<1>3. CASE consumer[c].online
  <2>1. PICK m \in Copies :
            /\ msg[m].place = "free"
            /\ msg' = [msg EXCEPT ![m] =
                  [place |-> place, event |-> e, attempt |-> attempt,
                   ttl |-> ttl, holder |-> Nobody]]
    BY <1>3 DEF Republish, FreeCopies
  <2>2. /\ msg' \in [Copies -> Message]
        /\ Elsewhere(m)
        /\ MessagesStay
        /\ msg'[m].place = place
        /\ msg'[m].event = e
        /\ msg'[m].attempt = attempt
        /\ msg'[m].holder = Nobody
    BY <1>1, <2>1, PutStays
  <2>3. Walks(c, "acking")
    BY <1>1, <1>3, GoToWalks DEF Republish, PC
  <2>4. Typed'
    BY <1>1, <2>2, <2>3 DEF Typed, Walks
  <2>5. DeliveriesAreHeld'
    <3>1. ASSUME NEW k \in Consumers, NEW d \in Delivery, Held(k, d)
          PROVE  Held(k, d)'
      BY <2>1, <2>2, <3>1 DEF Held, Elsewhere, Delivery
    <3>2. ASSUME NEW k \in Consumers
          PROVE  /\ consumer[k].buffer \subseteq Delivery
                 /\ Busy(k) => Current(k) \in Delivery
      BY <1>1, WorkerFields DEF Typed
    <3> QED
      BY <2>3, <3>1, <3>2 DEF IInv, DeliveriesAreHeld, Walks, Others, Connection
  <2>6. HoldersHold'
    BY <2>2 DEF IInv, HoldersHold, Elsewhere
  <2>7. PathsAreTaken'
    BY <1>1, <2>2, <2>3
       DEF IInv, PathsAreTaken, MessagesStay, Walks, Others, Faulty, Spent
  <2>8. FailuresAreCounted'
    <3>1. failures[e] >= attempt - 1
      BY <1>1 DEF IInv, FailuresAreCounted
    <3> QED
      BY <1>1, <2>2, <2>3, <3>1
         DEF IInv, FailuresAreCounted, Elsewhere, Walks, Others
  <2>9. HandlersHoldTheLock'
    BY <1>1, <2>3 DEF IInv, HandlersHoldTheLock, Handles, Walks, Others, Spent
  <2>10. SuccessIsRecorded'
    BY <1>1, <2>3 DEF IInv, SuccessIsRecorded, Walks, Others, Spent, Faulty
  <2>11. AllOnline'
    BY <1>1, <2>3 DEF IInv, AllOnline, Walks, Others, Connection, Faulty, Spent
  <2>12. UnclaimedIsAlive'
    BY <1>1, <2>2 DEF IInv, UnclaimedIsAlive, Alive, MessagesStay, Faulty, Spent
  <2> QED
    BY <1>2, <2>4, <2>5, <2>6, <2>7, <2>8, <2>9, <2>10, <2>11, <2>12 DEF IInv
<1>4. CASE ~ consumer[c].online
  <2>1. UNCHANGED msg /\ Rests(c)
    BY <1>1, <1>4, DoneRests DEF Republish
  <2>2. Typed'
    BY <1>1, <2>1 DEF Typed, Rests
  <2>3. DeliveriesAreHeld'
    BY <1>1, <2>1, RestHolds DEF IInv
  <2>4. PathsAreTaken'
    BY <1>1, <2>1 DEF IInv, PathsAreTaken, Rests, Others, Faulty, Spent
  <2>5. FailuresAreCounted'
    BY <1>1, <2>1 DEF IInv, FailuresAreCounted, Rests, Others
  <2>6. HandlersHoldTheLock'
    BY <1>1, <2>1 DEF IInv, HandlersHoldTheLock, Handles, Rests, Others, Spent
  <2>7. SuccessIsRecorded'
    BY <1>1, <2>1 DEF IInv, SuccessIsRecorded, Rests, Others, Spent, Faulty
  <2>8. AllOnline'
    BY <1>1, <2>1 DEF IInv, AllOnline, Rests, Others, Connection, Faulty, Spent
  <2>9. UnclaimedIsAlive' /\ HoldersHold'
    BY <1>1, <2>1 DEF IInv, UnclaimedIsAlive, Alive, HoldersHold, Faulty, Spent
  <2> QED
    BY <1>2, <2>2, <2>3, <2>4, <2>5, <2>6, <2>7, <2>8, <2>9 DEF IInv
<1> QED
  BY <1>3, <1>4

\* A retry has one attempt more, of those that are left.
LEMMA RetryKeeps ==
    ASSUME IInv, NEW c \in Consumers, Retry(c)
    PROVE  IInv'
<1>1. Current(c).attempt + 1 \in 1 .. MaxRetries
  BY WorkerFields, ConsumerAssumption
     DEF IInv, Typed, FailuresAreCounted, Retry, Delivery
<1> QED
  BY <1>1, RepublishKeeps, ConsumerAssumption DEF Retry

\* The broker refuses the copy of a retry or a dead letter.
LEMMA RepublishIsRefusedKeeps ==
    ASSUME IInv, NEW c \in Consumers, RepublishIsRefused(c)
    PROVE  IInv'
<1>1. /\ Typed
      /\ UNCHANGED <<msg, inbox, sent, handled, failures>>
      /\ consumer[c].pc \in {"retrying", "burying"}
      /\ Spend("fault")
  BY DEF IInv, RepublishIsRefused, Fault
<1>2. Walks(c, "acking")
  BY <1>1, GoToWalks DEF RepublishIsRefused, PC
<1>3. /\ budget' \in [Disturbances -> Nat]
      /\ BudgetShrinks'
      /\ Faulty'
      /\ Spent("late") => Spent("late")'
  BY <1>1, FaultShows DEF IInv, Disturbances, Faulty
<1>4. Typed'
  BY <1>1, <1>2, <1>3 DEF Typed, Walks
<1>5. DeliveriesAreHeld'
  BY <1>1, <1>2, WalkHolds DEF IInv, PC
<1>6. PathsAreTaken'
  BY <1>1, <1>2, <1>3 DEF IInv, PathsAreTaken, Walks, Others
<1>7. FailuresAreCounted'
  BY <1>1, <1>2 DEF IInv, FailuresAreCounted, Walks, Others
<1>8. SuccessIsTrue'
  BY <1>1, <1>2 DEF IInv, SuccessIsTrue, Walks, Others
<1>9. HandlersHoldTheLock'
  BY <1>1, <1>2, <1>3 DEF IInv, HandlersHoldTheLock, Handles, Walks, Others
<1>10. SuccessIsRecorded' /\ AllOnline'
  BY <1>3 DEF SuccessIsRecorded, AllOnline
<1>11. HoldersHold' /\ LockedIsClaimed' /\ UnclaimedIsAlive'
  BY <1>1, <1>3 DEF IInv, HoldersHold, LockedIsClaimed, UnclaimedIsAlive, Alive
<1> QED
  BY <1>3, <1>4, <1>5, <1>6, <1>7, <1>8, <1>9, <1>10, <1>11 DEF IInv

\* A dead letter is the current delivery once more.
LEMMA DeadLetterKeeps ==
    ASSUME IInv, NEW c \in Consumers, DeadLetter(c)
    PROVE  IInv'
<1>1. Current(c).attempt \in 1 .. MaxRetries
  BY WorkerFields DEF IInv, Typed, DeadLetter, Delivery
<1> QED
  BY <1>1, RepublishKeeps, ConsumerAssumption DEF DeadLetter

\* A free slot is a message.
LEMMA FreeFields ==
    /\ Free \in Message
    /\ Free.place = "free"
    /\ Free.holder = Nobody
<1>1. SomeEvent \in Events /\ 1 \in 1 .. MaxRetries /\ 0 \in 0 .. RetryTTL
  BY ConsumerAssumption DEF SomeEvent
<1> QED
  BY <1>1 DEF Free, Message

\* The current delivery is acknowledged; its slot is free again.
LEMMA AckKeeps ==
    ASSUME IInv, NEW c \in Consumers, Ack(c)
    PROVE  IInv'
<1> DEFINE e == Current(c).event
           m == Current(c).copy
<1>1. /\ Typed
      /\ UNCHANGED <<inbox, sent, handled, failures, budget>>
      /\ consumer[c].pc = "acking"
      /\ e \in Events
      /\ m \in Copies
      /\ Rests(c)
  BY WorkerFields, DoneRests DEF IInv, Ack, Typed, Delivery
<1>2. CASE consumer[c].online
  <2>1. /\ msg' \in [Copies -> Message]
        /\ Elsewhere(m)
        /\ msg'[m].place = "free"
        /\ msg'[m].holder = Nobody
    BY <1>1, <1>2, FreeFields DEF Ack, Typed, Elsewhere
  <2>2. Held(c, Current(c))
    BY <1>1, <1>2 DEF IInv, DeliveriesAreHeld
  <2>3. Typed'
    BY <1>1, <2>1 DEF Typed, Rests
  <2>4. DeliveriesAreHeld'
    <3>1. ASSUME NEW k \in Consumers, NEW d \in Delivery, Held(k, d), d.copy # m
          PROVE  Held(k, d)'
      BY <2>1, <3>1 DEF Held, Elsewhere, Delivery
    <3>2. ASSUME NEW k \in Consumers \ {c}, NEW d \in Delivery, Held(k, d)
          PROVE  d.copy # m
      BY <2>2, <3>2 DEF Held
    <3>3. ASSUME NEW k \in Consumers
          PROVE  /\ consumer[k].buffer \subseteq Delivery
                 /\ Busy(k) => Current(k) \in Delivery
      BY <1>1, WorkerFields DEF Typed
    <3> QED
      BY <1>1, <3>1, <3>2, <3>3
         DEF IInv, DeliveriesAreHeld, Rests, Others, Connection
  <2>5. HoldersHold'
    BY <2>1 DEF IInv, HoldersHold, Elsewhere
  <2>6. PathsAreTaken'
    <3>1. \A n \in Copies : msg[n].place = "dlq" => n # m
      BY <2>2 DEF Held
    <3> QED
      BY <1>1, <2>1, <3>1
         DEF IInv, PathsAreTaken, Elsewhere, Rests, Others, Faulty, Spent
  <2>7. FailuresAreCounted'
    BY <1>1, <2>1 DEF IInv, FailuresAreCounted, Elsewhere, Rests, Others
  <2>8. UnclaimedIsAlive'
    <3>1. ASSUME inbox[e].status = "none"
          PROVE  \/ e \in Malformed /\ Faulty
                 \/ \E n \in Copies \ {m} :
                        msg[n].place # "free" /\ msg[n].event = e
      <4>1. e \in Malformed
        BY <1>1, <3>1 DEF IInv, PathsAreTaken
      <4>2. Faulty \/ \E n \in Copies : msg[n].place = "dlq" /\ msg[n].event = e
        BY <1>1, <4>1 DEF IInv, PathsAreTaken
      <4> QED
        BY <2>2, <4>1, <4>2 DEF Held
    <3>2. ASSUME NEW x \in Events, NEW n \in Copies, msg[n].place # "free",
                 msg[n].event = x, x # e
          PROVE  n # m
      BY <2>2, <3>2 DEF Held
    <3> QED
      BY <1>1, <2>1, <3>1, <3>2
         DEF IInv, UnclaimedIsAlive, Alive, Elsewhere, Faulty, Spent
  <2> QED
    BY <1>1, <2>3, <2>4, <2>5, <2>6, <2>7, <2>8
       DEF IInv, BudgetShrinks, LockedIsClaimed, SuccessIsTrue,
           HandlersHoldTheLock,
           Handles, SuccessIsRecorded, AllOnline, Rests, Others, Connection,
           Spent, Faulty
<1>3. CASE ~ consumer[c].online
  <2>1. UNCHANGED msg
    BY <1>3 DEF Ack
  <2>2. Typed'
    BY <1>1, <2>1 DEF Typed, Rests
  <2>3. DeliveriesAreHeld'
    BY <1>1, <2>1, RestHolds DEF IInv
  <2>4. PathsAreTaken' /\ FailuresAreCounted'
    BY <1>1, <2>1
       DEF IInv, PathsAreTaken, FailuresAreCounted, Rests, Others, Faulty, Spent
  <2>5. UnclaimedIsAlive' /\ HoldersHold'
    BY <1>1, <2>1 DEF IInv, UnclaimedIsAlive, Alive, HoldersHold, Faulty, Spent
  <2> QED
    BY <1>1, <2>2, <2>3, <2>4, <2>5
       DEF IInv, BudgetShrinks, LockedIsClaimed, SuccessIsTrue,
           HandlersHoldTheLock,
           Handles, SuccessIsRecorded, AllOnline, Rests, Others, Connection,
           Spent, Faulty
<1> QED
  BY <1>2, <1>3

\* A message is pushed to a consumer: it is in its channel, and held for it.
LEMMA DeliverKeeps ==
    ASSUME IInv, NEW c \in Consumers, NEW m \in Copies, Deliver(c, m)
    PROVE  IInv'
<1> PICK d : d = [copy |-> m, event |-> msg[m].event, attempt |-> msg[m].attempt]
  OBVIOUS
<1> DEFINE b == consumer[c].buffer \union {d}
<1>1. /\ Typed
      /\ UNCHANGED <<inbox, sent, handled, failures, budget>>
      /\ msg[m].place = "queue"
      /\ msg[m].event \in Events
      /\ msg[m].attempt \in 1 .. MaxRetries
      /\ consumer' = [consumer EXCEPT ![c].buffer = b]
  BY DEF IInv, Deliver, Typed, Message
<1>2. /\ d \in Delivery
      /\ d.copy = m
      /\ d.event = msg[m].event
      /\ d.attempt = msg[m].attempt
  BY <1>1 DEF Delivery
<1>3. b \in SUBSET Delivery
  BY <1>1, <1>2, WorkerFields DEF Typed
<1>4. Keeps(c) /\ Connection(c) /\ consumer'[c].buffer = b
  <2> HIDE DEF b
  <2> QED
    BY <1>1, <1>3, BufferKeeps
<1>5. /\ msg' \in [Copies -> Message]
      /\ Elsewhere(m)
      /\ msg'[m].place = "unacked"
      /\ msg'[m].holder = c
      /\ msg'[m].event = msg[m].event
      /\ msg'[m].attempt = msg[m].attempt
  BY <1>1 DEF Deliver, Typed, Elsewhere, Message
<1>6. Typed'
  BY <1>1, <1>4, <1>5 DEF Typed, Keeps
<1>7. DeliveriesAreHeld'
  <2>1. ASSUME NEW k \in Consumers, NEW f \in Delivery, Held(k, f)
        PROVE  Held(k, f)' /\ f.copy # m
    BY <1>1, <1>5, <2>1 DEF Held, Elsewhere, Delivery
  <2>2. Held(c, d)'
    BY <1>2, <1>5 DEF Held
  <2>3. ASSUME NEW k \in Consumers
        PROVE  /\ consumer[k].buffer \subseteq Delivery
               /\ Busy(k) => Current(k) \in Delivery
    BY <1>1, WorkerFields DEF Typed
  <2> QED
    BY <1>2, <1>4, <2>1, <2>2, <2>3
       DEF IInv, DeliveriesAreHeld, Keeps, Others, Connection
<1>8. HoldersHold'
  BY <1>5 DEF IInv, HoldersHold, Elsewhere
<1>9. PathsAreTaken'
  BY <1>1, <1>4, <1>5
     DEF IInv, PathsAreTaken, Elsewhere, Keeps, Others, Faulty, Spent
<1>10. FailuresAreCounted'
  BY <1>1, <1>2, <1>4, <1>5
     DEF IInv, FailuresAreCounted, Elsewhere, Keeps, Others
<1>11. UnclaimedIsAlive'
  BY <1>1, <1>5 DEF IInv, UnclaimedIsAlive, Alive, Elsewhere, Faulty, Spent
<1>12. SuccessIsTrue' /\ LockedIsClaimed' /\ BudgetShrinks'
  BY <1>1, <1>4
     DEF IInv, SuccessIsTrue, LockedIsClaimed, BudgetShrinks, Keeps, Others
<1>13. HandlersHoldTheLock'
  BY <1>1, <1>4 DEF IInv, HandlersHoldTheLock, Handles, Keeps, Others, Spent
<1>14. SuccessIsRecorded'
  BY <1>1, <1>4 DEF IInv, SuccessIsRecorded, Keeps, Others, Spent, Faulty
<1>15. AllOnline'
  BY <1>1, <1>4 DEF IInv, AllOnline, Keeps, Others, Connection, Faulty, Spent
<1> QED
  BY <1>6, <1>7, <1>8, <1>9, <1>10, <1>11, <1>12, <1>13, <1>14, <1>15 DEF IInv

\* The TTL of a retry is over.
LEMMA ExpireRetryKeeps ==
    ASSUME IInv, NEW m \in Copies, ExpireRetry(m)
    PROVE  IInv'
<1>1. /\ Typed
      /\ UNCHANGED <<inbox, consumer, sent, handled, failures, budget>>
      /\ msg[m].place = "retry"
  BY DEF IInv, ExpireRetry
<1>2. /\ msg' \in [Copies -> Message]
      /\ Elsewhere(m)
      /\ msg'[m].place = "queue"
      /\ msg'[m].holder = msg[m].holder
      /\ msg'[m].event = msg[m].event
      /\ msg'[m].attempt = msg[m].attempt
  BY <1>1 DEF ExpireRetry, Typed, Elsewhere, Message
<1>3. Typed'
  BY <1>1, <1>2 DEF Typed
<1>4. DeliveriesAreHeld'
  <2>1. ASSUME NEW k \in Consumers, NEW f \in Delivery, Held(k, f)
        PROVE  Held(k, f)'
    BY <1>1, <1>2, <2>1 DEF Held, Elsewhere, Delivery
  <2>2. ASSUME NEW k \in Consumers
        PROVE  /\ consumer[k].buffer \subseteq Delivery
               /\ Busy(k) => Current(k) \in Delivery
    BY <1>1, WorkerFields DEF Typed
  <2> QED
    BY <1>1, <2>1, <2>2 DEF IInv, DeliveriesAreHeld
<1>5. HoldersHold'
  BY <1>1, <1>2 DEF IInv, HoldersHold, Elsewhere
<1>6. PathsAreTaken'
  BY <1>1, <1>2 DEF IInv, PathsAreTaken, Elsewhere, Faulty, Spent
<1>7. FailuresAreCounted'
  BY <1>1, <1>2 DEF IInv, FailuresAreCounted, Elsewhere
<1>8. UnclaimedIsAlive'
  BY <1>1, <1>2 DEF IInv, UnclaimedIsAlive, Alive, Elsewhere, Faulty, Spent
<1>9. /\ SuccessIsTrue'
      /\ LockedIsClaimed'
      /\ BudgetShrinks'
      /\ HandlersHoldTheLock'
      /\ SuccessIsRecorded'
      /\ AllOnline'
  BY <1>1 DEF IInv, SuccessIsTrue, LockedIsClaimed, BudgetShrinks,
              HandlersHoldTheLock, Handles, SuccessIsRecorded, AllOnline, Spent, Faulty
<1> QED
  BY <1>3, <1>4, <1>5, <1>6, <1>7, <1>8, <1>9 DEF IInv

\* The broker puts back what it held for a consumer, and nothing else changes.
LEMMA RequeueStays ==
    ASSUME Typed, HoldersHold, NEW c \in Consumers, RequeueUnacked(c)
    PROVE  /\ msg' \in [Copies -> Message]
           /\ MessagesStay
           /\ HoldersHold'
           /\ \A m \in Copies :
                /\ msg'[m].event = msg[m].event
                /\ msg'[m].attempt = msg[m].attempt
                /\ msg[m].holder # c => msg'[m] = msg[m]
                /\ msg[m].place = "free" => msg'[m].place = "free"
<1>1. ASSUME NEW m \in Copies
      PROVE  /\ msg'[m] \in Message
             /\ msg[m].holder # c => msg'[m] = msg[m]
             /\ msg[m].holder = c =>
                  /\ msg[m].place = "unacked"
                  /\ msg'[m].place = "queue"
                  /\ msg'[m].holder = Nobody
                  /\ msg'[m].event = msg[m].event
                  /\ msg'[m].attempt = msg[m].attempt
  <2>1. msg[m] \in Message
    BY DEF Typed
  <2>2. msg'[m] = IF msg[m].holder = c THEN Requeued(m) ELSE msg[m]
    BY DEF RequeueUnacked, Unacked
  <2>3. msg[m].holder = c => msg[m].place = "unacked"
    BY NobodyAssumption DEF HoldersHold
  <2> QED
    BY <2>1, <2>2, <2>3 DEF Requeued, Message
<1>2. msg' \in [Copies -> Message]
  BY <1>1 DEF RequeueUnacked
<1> QED
  BY <1>1, <1>2 DEF MessagesStay, HoldersHold

\* A process dies and is started again.
LEMMA CrashKeeps ==
    ASSUME IInv, NEW c \in Consumers, Crash(c)
    PROVE  IInv'
<1>1. /\ Typed
      /\ UNCHANGED <<inbox, sent, handled, failures>>
      /\ Spend("fault")
  BY DEF IInv, Crash, Fault
<1>2. /\ budget' \in [Disturbances -> Nat]
      /\ BudgetShrinks'
      /\ Faulty'
      /\ Spent("late") => Spent("late")'
  BY <1>1, FaultShows DEF IInv, Disturbances, Faulty
<1>3. /\ consumer' \in [Consumers -> Worker]
      /\ Others(c)
      /\ consumer'[c].pc = "idle"
      /\ consumer'[c].online
      /\ consumer'[c].buffer = {}
  BY <1>1, RestingRests DEF Crash
<1>4. /\ msg' \in [Copies -> Message]
      /\ MessagesStay
      /\ HoldersHold'
      /\ \A m \in Copies :
           /\ msg'[m].event = msg[m].event
           /\ msg'[m].attempt = msg[m].attempt
           /\ msg[m].holder # c => msg'[m] = msg[m]
           /\ msg[m].place = "free" => msg'[m].place = "free"
  BY <1>1, RequeueStays DEF IInv, Crash
<1>5. Typed'
  BY <1>1, <1>2, <1>3, <1>4 DEF Typed
<1>6. DeliveriesAreHeld'
  <2>1. ASSUME NEW k \in Consumers \ {c}, NEW f \in Delivery, Held(k, f)
        PROVE  Held(k, f)'
    BY <1>4, <2>1 DEF Held, Delivery
  <2>2. ASSUME NEW k \in Consumers
        PROVE  /\ consumer[k].buffer \subseteq Delivery
               /\ Busy(k) => Current(k) \in Delivery
    BY <1>1, WorkerFields DEF Typed
  <2> QED
    BY <1>3, <2>1, <2>2 DEF IInv, DeliveriesAreHeld, Others
<1>7. PathsAreTaken'
  BY <1>1, <1>3, <1>4, <1>2 DEF IInv, PathsAreTaken, MessagesStay, Others
<1>8. FailuresAreCounted'
  BY <1>1, <1>3, <1>4 DEF IInv, FailuresAreCounted, Others
<1>9. SuccessIsTrue' /\ LockedIsClaimed'
  BY <1>1, <1>3 DEF IInv, SuccessIsTrue, LockedIsClaimed, Others
<1>10. HandlersHoldTheLock'
  BY <1>1, <1>2, <1>3 DEF IInv, HandlersHoldTheLock, Handles, Others
<1>11. SuccessIsRecorded' /\ AllOnline'
  BY <1>2 DEF SuccessIsRecorded, AllOnline
<1>12. UnclaimedIsAlive'
  BY <1>1, <1>4, <1>2 DEF IInv, UnclaimedIsAlive, Alive, MessagesStay
<1> QED
  BY <1>2, <1>4, <1>5, <1>6, <1>7, <1>8, <1>9, <1>10, <1>11, <1>12 DEF IInv

\* A connection is lost.
LEMMA LoseConnectionKeeps ==
    ASSUME IInv, NEW c \in Consumers, LoseConnection(c)
    PROVE  IInv'
<1>1. /\ Typed
      /\ UNCHANGED <<inbox, sent, handled, failures>>
      /\ Spend("fault")
  BY DEF IInv, LoseConnection, Fault
<1>2. /\ budget' \in [Disturbances -> Nat]
      /\ BudgetShrinks'
      /\ Faulty'
      /\ Spent("late") => Spent("late")'
  BY <1>1, FaultShows DEF IInv, Disturbances, Faulty
<1>3. /\ Keeps(c)
      /\ ~ consumer'[c].online
      /\ consumer'[c].buffer = consumer[c].buffer
  BY <1>1, OfflineKeeps DEF LoseConnection
<1>4. /\ msg' \in [Copies -> Message]
      /\ MessagesStay
      /\ HoldersHold'
      /\ \A m \in Copies :
           /\ msg'[m].event = msg[m].event
           /\ msg'[m].attempt = msg[m].attempt
           /\ msg[m].holder # c => msg'[m] = msg[m]
           /\ msg[m].place = "free" => msg'[m].place = "free"
  BY <1>1, RequeueStays DEF IInv, LoseConnection
<1>5. Typed'
  BY <1>1, <1>2, <1>3, <1>4 DEF Typed, Keeps
<1>6. DeliveriesAreHeld'
  <2>1. ASSUME NEW k \in Consumers \ {c}, NEW f \in Delivery, Held(k, f)
        PROVE  Held(k, f)'
    BY <1>4, <2>1 DEF Held, Delivery
  <2>2. ASSUME NEW k \in Consumers
        PROVE  /\ consumer[k].buffer \subseteq Delivery
               /\ Busy(k) => Current(k) \in Delivery
    BY <1>1, WorkerFields DEF Typed
  <2> QED
    BY <1>3, <2>1, <2>2 DEF IInv, DeliveriesAreHeld, Keeps, Others
<1>7. PathsAreTaken'
  BY <1>1, <1>3, <1>4, <1>2 DEF IInv, PathsAreTaken, MessagesStay, Keeps, Others
<1>8. FailuresAreCounted'
  BY <1>1, <1>3, <1>4 DEF IInv, FailuresAreCounted, Keeps, Others
<1>9. SuccessIsTrue' /\ LockedIsClaimed'
  BY <1>1, <1>3 DEF IInv, SuccessIsTrue, LockedIsClaimed, Keeps, Others
<1>10. HandlersHoldTheLock'
  BY <1>1, <1>2, <1>3 DEF IInv, HandlersHoldTheLock, Handles, Keeps, Others
<1>11. SuccessIsRecorded' /\ AllOnline'
  BY <1>2 DEF SuccessIsRecorded, AllOnline
<1>12. UnclaimedIsAlive'
  BY <1>1, <1>4, <1>2 DEF IInv, UnclaimedIsAlive, Alive, MessagesStay
<1> QED
  BY <1>2, <1>4, <1>5, <1>6, <1>7, <1>8, <1>9, <1>10, <1>11, <1>12 DEF IInv

\* What a second does to the messages and the rows.
LEMMA TickEffect ==
    ASSUME Typed, Tick
    PROVE  /\ msg' \in [Copies -> Message]
           /\ MessagesStay
           /\ \A m \in Copies :
                /\ msg'[m].place = msg[m].place
                /\ msg'[m].event = msg[m].event
                /\ msg'[m].attempt = msg[m].attempt
                /\ msg'[m].holder = msg[m].holder
                /\ msg'[m].ttl = Before(msg[m].ttl)
           /\ inbox' \in [Events -> Row]
           /\ \A e \in Events :
                /\ inbox'[e].status = inbox[e].status
                /\ inbox'[e].lock = Before(inbox[e].lock)
<1>1. ASSUME NEW m \in Copies
      PROVE  /\ msg'[m] \in Message
             /\ msg'[m].place = msg[m].place
             /\ msg'[m].event = msg[m].event
             /\ msg'[m].attempt = msg[m].attempt
             /\ msg'[m].holder = msg[m].holder
             /\ msg'[m].ttl = Before(msg[m].ttl)
  <2>1. msg[m] \in Message
    BY DEF Typed
  <2>2. Before(msg[m].ttl) \in 0 .. RetryTTL
    BY <2>1, ConsumerAssumption DEF Message, Before
  <2>3. msg'[m] = [msg[m] EXCEPT !.ttl = Before(msg[m].ttl)]
    BY DEF Tick
  <2> QED
    BY <2>1, <2>2, <2>3 DEF Message
<1>2. ASSUME NEW e \in Events
      PROVE  /\ inbox'[e] \in Row
             /\ inbox'[e].status = inbox[e].status
             /\ inbox'[e].lock = Before(inbox[e].lock)
  <2>1. inbox[e] \in Row
    BY DEF Typed
  <2>2. Before(inbox[e].lock) \in Nat
    BY <2>1 DEF Row, Before
  <2>3. inbox'[e] = [inbox[e] EXCEPT !.lock = Before(inbox[e].lock)]
    BY DEF Tick
  <2> QED
    BY <2>1, <2>2, <2>3 DEF Row
<1>3. msg' \in [Copies -> Message] /\ inbox' \in [Events -> Row]
  BY <1>1, <1>2 DEF Tick
<1> QED
  BY <1>1, <1>2, <1>3 DEF MessagesStay

\* A second passes; a late one if somebody is at work.
LEMMA TickKeeps ==
    ASSUME IInv, Tick
    PROVE  IInv'
<1>1. /\ Typed
      /\ UNCHANGED <<consumer, sent, handled, failures>>
  BY DEF IInv, Tick
<1>2. /\ msg' \in [Copies -> Message]
      /\ MessagesStay
      /\ \A m \in Copies :
           /\ msg'[m].place = msg[m].place
           /\ msg'[m].event = msg[m].event
           /\ msg'[m].attempt = msg[m].attempt
           /\ msg'[m].holder = msg[m].holder
           /\ msg'[m].ttl = Before(msg[m].ttl)
      /\ inbox' \in [Events -> Row]
      /\ \A e \in Events :
           /\ inbox'[e].status = inbox[e].status
           /\ inbox'[e].lock = Before(inbox[e].lock)
  BY <1>1, TickEffect
<1>3. /\ budget' \in [Disturbances -> Nat]
      /\ BudgetShrinks'
      /\ Faulty => Faulty'
      /\ Spent("late") => Spent("late")'
      /\ ~ Spent("late")' => \A c \in Consumers : ~ Busy(c)
  <2>1. CASE \A c \in Consumers : ~ Busy(c)
    BY <1>1, <2>1 DEF Tick, IInv, Typed, BudgetShrinks, Faulty, Spent
  <2>2. CASE ~ \A c \in Consumers : ~ Busy(c)
    <3>1. Spend("late")
      BY <2>2 DEF Tick
    <3> QED
      BY <1>1, <3>1, FaultShows DEF IInv, Disturbances
  <2> QED
    BY <2>1, <2>2
<1>4. Typed'
  BY <1>1, <1>2, <1>3 DEF Typed
<1>5. DeliveriesAreHeld'
  <2>1. ASSUME NEW k \in Consumers, NEW f \in Delivery, Held(k, f)
        PROVE  Held(k, f)'
    BY <1>2, <2>1 DEF Held, Delivery
  <2>2. ASSUME NEW k \in Consumers
        PROVE  /\ consumer[k].buffer \subseteq Delivery
               /\ Busy(k) => Current(k) \in Delivery
    BY <1>1, WorkerFields DEF Typed
  <2> QED
    BY <1>1, <2>1, <2>2 DEF IInv, DeliveriesAreHeld
<1>6. HoldersHold'
  BY <1>2 DEF IInv, HoldersHold
<1>7. PathsAreTaken'
  <2>1. ASSUME NEW k \in Consumers, Busy(k)
        PROVE  Current(k).event \in Events
    BY <1>1, <2>1, WorkerFields DEF Typed, Delivery
  <2> QED
    BY <1>1, <1>2, <2>1, <1>3 DEF IInv, PathsAreTaken
<1>8. FailuresAreCounted'
  BY <1>1, <1>2 DEF IInv, FailuresAreCounted
<1>9. SuccessIsTrue'
  BY <1>1, <1>2 DEF IInv, SuccessIsTrue
<1>10. LockedIsClaimed'
  BY <1>1, <1>2 DEF IInv, LockedIsClaimed, Before, Typed, Row
<1>11. HandlersHoldTheLock'
  BY <1>1, <1>3 DEF HandlersHoldTheLock, Handles
<1>12. SuccessIsRecorded'
  BY <1>1, <1>2, <1>3 DEF IInv, SuccessIsRecorded
<1>13. UnclaimedIsAlive'
  BY <1>1, <1>2, <1>3 DEF IInv, UnclaimedIsAlive, Alive
<1>14. AllOnline'
  BY <1>1, <1>3 DEF IInv, AllOnline
<1> QED
  BY <1>2, <1>3, <1>4, <1>5, <1>6, <1>7, <1>8, <1>9, <1>10, <1>11, <1>12, <1>13,
     <1>14 DEF IInv

-----------------------------------------------------------------------------
\* At the start nothing has been published and everybody is connected.
LEMMA InitIInv == Init => IInv
<1> SUFFICES ASSUME Init PROVE IInv
  OBVIOUS
<1>1. /\ Resting.pc = "idle"
      /\ Resting.online
      /\ Resting.buffer = {}
      /\ Resting \in Worker
  BY IdleRecord DEF Resting, IdleWorker, Worker
<1>2. Typed
  BY <1>1, FreeFields, ConsumerAssumption DEF Init, Typed, Row
<1>3. \A c \in Consumers : /\ consumer[c].pc = "idle"
                           /\ consumer[c].online
                           /\ consumer[c].buffer = {}
  BY <1>1 DEF Init
<1>4. \A m \in Copies : msg[m].place = "free" /\ msg[m].holder = Nobody
  BY FreeFields DEF Init
<1>5. \A e \in Events : inbox[e].status = "none" /\ inbox[e].lock = 0
  BY DEF Init
<1>6. ~ Faulty /\ BudgetShrinks
  BY ConsumerAssumption DEF Init, Faulty, Spent, BudgetShrinks, Disturbances
<1>7. sent = {} /\ handled = [e \in Events |-> 0]
  BY DEF Init
<1> QED
  BY <1>2, <1>3, <1>4, <1>5, <1>6, <1>7
     DEF IInv, DeliveriesAreHeld, HoldersHold, PathsAreTaken, LockedIsClaimed,
         FailuresAreCounted, SuccessIsTrue, HandlersHoldTheLock, Handles,
         SuccessIsRecorded, UnclaimedIsAlive, AllOnline, Faulty, Spent

\* A step that changes nothing keeps everything.
LEMMA StutterKeeps ==
    ASSUME IInv, UNCHANGED vars
    PROVE  IInv'
<1>1. UNCHANGED <<msg, inbox, consumer, sent, handled, failures, budget>>
  BY DEF vars
<1> QED
  BY <1>1
     DEF IInv, Typed, BudgetShrinks, DeliveriesAreHeld, Held, HoldersHold,
         PathsAreTaken, LockedIsClaimed, FailuresAreCounted, SuccessIsTrue,
         HandlersHoldTheLock, Handles, SuccessIsRecorded, UnclaimedIsAlive, Alive,
         AllOnline, Spent, Faulty

\* Every step keeps the inductive invariant.
LEMMA NextKeeps ==
    ASSUME IInv, [Next]_vars
    PROVE  IInv'
<1>1. ASSUME NEW e \in Events, PublishEvent(e)
      PROVE  IInv'
  BY <1>1, PublishEventKeeps
<1>2. ASSUME NEW m \in Copies, ExpireRetry(m)
      PROVE  IInv'
  BY <1>2, ExpireRetryKeeps
<1>3. ASSUME NEW c \in Consumers, NEW m \in Copies, Deliver(c, m)
      PROVE  IInv'
  BY <1>3, DeliverKeeps
<1>4. ASSUME NEW c \in Consumers, Process(c)
      PROVE  IInv'
  BY <1>4, RejectKeeps, ClaimInboxKeeps, ClaimInboxFailsKeeps, HandlerSucceedsKeeps,
     HandlerFailsKeeps, MarkInboxProcessedKeeps, MarkInboxProcessedFailsKeeps,
     MarkInboxFailedKeeps, MarkInboxFailedFailsKeeps, RetryKeeps, DeadLetterKeeps,
     RepublishIsRefusedKeeps, AckKeeps DEF Process
<1>5. ASSUME NEW c \in Consumers, Crash(c) \/ LoseConnection(c)
      PROVE  IInv'
  BY <1>5, CrashKeeps, LoseConnectionKeeps
<1> QED
  BY <1>1, <1>2, <1>3, <1>4, <1>5, TickKeeps, StutterKeeps DEF Next

-----------------------------------------------------------------------------
(* What was spared is not lost.                                             *)

NothingIsLost == CopySurvives /\ LockIsGuarded

\* Without faults, what a worker has in its hands the broker holds for it.
LEMMA InHandIsHeld ==
    ASSUME IInv, ~ Faulty, NEW c \in Consumers
    PROVE  /\ \A d \in consumer[c].buffer : Held(c, d)
           /\ Busy(c) => Held(c, Current(c)) /\ Current(c) \in Delivery
           /\ \A m \in Copies : Acks(c, m) =>
                /\ msg[m].place = "unacked"
                /\ msg[m].holder = c
                /\ msg[m].event = Current(c).event
<1>1. consumer[c].online
  BY DEF IInv, AllOnline
<1> QED
  BY <1>1, WorkerFields DEF IInv, Typed, DeliveriesAreHeld, Held, Acks

\* As long as nobody starts to acknowledge and no message goes, copies survive.
LEMMA CopiesSurvive ==
    ASSUME CopySurvives, MessagesStay, UNCHANGED sent,
           sent \subseteq Events,
           \A e \in Events : Spared(e)' => Spared(e),
           \A e \in Events : handled'[e] = 0 => handled[e] = 0,
           \A c \in Consumers, m \in Copies : Acks(c, m)' => Acks(c, m)
    PROVE  CopySurvives'
  BY DEF CopySurvives, MessagesStay

\* A publication adds a copy and moves none.
LEMMA PublishLosesNothing ==
    ASSUME IInv, NothingIsLost, NEW e \in Events, PublishEvent(e)
    PROVE  NothingIsLost'
<1>1. /\ Typed
      /\ UNCHANGED <<inbox, consumer, handled, failures>>
      /\ sent' = sent \union {e}
      /\ Spend("publish")
  BY DEF IInv, PublishEvent
<1>2. \A x \in Events : Spared(x)' => Spared(x)
  BY <1>1, FaultShows DEF IInv, Disturbances, Spared
<1>3. PICK m \in Copies :
          /\ msg[m].place = "free"
          /\ msg' = [msg EXCEPT ![m] =
                [place |-> "queue", event |-> e, attempt |-> 1,
                 ttl |-> 0, holder |-> Nobody]]
  BY DEF PublishEvent, FreeCopies
<1>4. /\ Elsewhere(m)
      /\ MessagesStay
      /\ msg'[m].place = "queue"
      /\ msg'[m].event = e
  <2>1. 1 \in 1 .. MaxRetries /\ 0 \in 0 .. RetryTTL
    BY ConsumerAssumption
  <2> QED
    BY <1>1, <1>3, <2>1, PutStays
<1>5. ASSUME NEW x \in Events, Spared(x)
      PROVE  \A c \in Consumers : ~ Acks(c, m)
  BY <1>3, <1>5, InHandIsHeld DEF Spared
<1>6. CopySurvives'
  BY <1>1, <1>2, <1>4, <1>5
     DEF NothingIsLost, CopySurvives, MessagesStay, Acks, Typed
<1>7. LockIsGuarded'
  BY <1>1, <1>2, <1>3, <1>4
     DEF NothingIsLost, LockIsGuarded, Guards, Returns, Elsewhere
<1> QED
  BY <1>6, <1>7 DEF NothingIsLost

\* The copy of a retry returns when the lock is over, not before.
LEMMA ExpireLosesNothing ==
    ASSUME IInv, NothingIsLost, NEW m \in Copies, ExpireRetry(m)
    PROVE  NothingIsLost'
<1>1. /\ Typed
      /\ UNCHANGED <<inbox, consumer, sent, handled, failures, budget>>
      /\ msg[m].place = "retry"
      /\ msg[m].ttl = 0
  BY DEF IInv, ExpireRetry
<1>2. /\ Elsewhere(m)
      /\ msg'[m].place = "queue"
      /\ msg'[m].event = msg[m].event
      /\ msg'[m].attempt = msg[m].attempt
  BY <1>1 DEF ExpireRetry, Typed, Elsewhere, Message
<1>3. MessagesStay
  BY <1>1, <1>2 DEF MessagesStay, Elsewhere
<1>4. CopySurvives'
  BY <1>1, <1>3, CopiesSurvive
     DEF NothingIsLost, Acks, Spared, Faulty, Spent, Typed
<1>5. ASSUME NEW e \in Events, inbox[e].lock > 0
      PROVE  ~ Returns(m, e)
  <2>1. inbox[e].lock \in Nat
    BY <1>1 DEF Typed, Row
  <2> QED
    BY <1>1, <1>5, <2>1 DEF Returns
<1>6. LockIsGuarded'
  BY <1>1, <1>2, <1>5
     DEF NothingIsLost, LockIsGuarded, Guards, Returns, Elsewhere, Spared,
         Faulty, Spent
<1> QED
  BY <1>4, <1>6 DEF NothingIsLost

\* A message that is pushed to a consumer was in nobody's way.
LEMMA DeliverLosesNothing ==
    ASSUME IInv, NothingIsLost, NEW c \in Consumers, NEW m \in Copies, Deliver(c, m)
    PROVE  NothingIsLost'
<1> DEFINE b == consumer[c].buffer \union
                  {[copy |-> m, event |-> msg[m].event, attempt |-> msg[m].attempt]}
<1>1. /\ Typed
      /\ UNCHANGED <<inbox, sent, handled, failures, budget>>
      /\ msg[m].place = "queue"
      /\ msg[m].event \in Events
      /\ msg[m].attempt \in 1 .. MaxRetries
      /\ consumer' = [consumer EXCEPT ![c].buffer = b]
  BY DEF IInv, Deliver, Typed, Message
<1>2. b \in SUBSET Delivery
  BY <1>1, WorkerFields DEF Typed, Delivery
<1>3. Keeps(c)
  <2> HIDE DEF b
  <2> QED
    BY <1>1, <1>2, BufferKeeps
<1>4. /\ Elsewhere(m)
      /\ msg'[m].place = "unacked"
      /\ msg'[m].event = msg[m].event
      /\ msg'[m].attempt = msg[m].attempt
  BY <1>1 DEF Deliver, Typed, Elsewhere, Message
<1>5. MessagesStay
  BY <1>1, <1>4 DEF MessagesStay, Elsewhere
<1>6. CopySurvives'
  <2>1. ASSUME NEW k \in Consumers, NEW n \in Copies, Acks(k, n)'
        PROVE  Acks(k, n)
    BY <1>3, <2>1 DEF Acks, Keeps, Others
  <2> QED
    BY <1>1, <1>5, <2>1, CopiesSurvive
       DEF NothingIsLost, Spared, Faulty, Spent, Typed
<1>7. LockIsGuarded'
  <2>1. ASSUME NEW k \in Consumers, NEW e \in Events, Guards(k, e)
        PROVE  Guards(k, e)'
    BY <1>1, <1>3, <2>1 DEF Guards, Keeps, Others
  <2>2. ASSUME NEW n \in Copies, NEW e \in Events, Returns(n, e)
        PROVE  Returns(n, e)'
    BY <1>1, <1>4, <2>2 DEF Returns, Elsewhere
  <2> QED
    BY <1>1, <2>1, <2>2 DEF NothingIsLost, LockIsGuarded, Spared, Faulty, Spent
<1> QED
  BY <1>6, <1>7 DEF NothingIsLost

\* What cannot be decoded is still unacknowledged on its way to the dead letters.
LEMMA RejectLosesNothing ==
    ASSUME IInv, NothingIsLost, NEW c \in Consumers, NEW d \in consumer[c].buffer,
           Reject(c, d)
    PROVE  NothingIsLost'
<1>1. /\ Typed
      /\ UNCHANGED <<msg, inbox, sent, handled, failures, budget>>
      /\ consumer[c].pc = "idle"
  BY DEF IInv, Reject
<1>2. Takes(c, d, "burying")
  BY <1>1, StartTakes DEF Reject, PC
<1>3. CopySurvives'
  BY <1>1, <1>2, CopiesSurvive
     DEF NothingIsLost, Acks, Takes, Others, MessagesStay, Spared, Faulty,
         Spent, Typed
<1>4. LockIsGuarded'
  BY <1>1, <1>2
     DEF NothingIsLost, LockIsGuarded, Guards, Returns, Takes, Others, Spared,
         Faulty, Spent
<1> QED
  BY <1>3, <1>4 DEF NothingIsLost

\* A delivery that finds the row locked is acknowledged, and what the lock is
\* there for survives it.
LEMMA ClaimLosesNothing ==
    ASSUME IInv, NothingIsLost, NEW c \in Consumers, NEW d \in consumer[c].buffer,
           ClaimInbox(c, d)
    PROVE  NothingIsLost'
<1> DEFINE e == d.event
<1>1. /\ Typed
      /\ UNCHANGED <<msg, sent, handled, failures, budget>>
      /\ consumer[c].pc = "idle"
      /\ e \in Events
      /\ d.copy \in Copies
      /\ \A x \in Events \ {e} : inbox'[x] = inbox[x]
  BY WorkerFields DEF IInv, Typed, ClaimInbox, Delivery
<1>2. CASE Claims(e)
  <2>1. Takes(c, d, "handling")
    BY <1>1, <1>2, StartTakes DEF ClaimInbox, PC
  <2>2. CopySurvives'
    BY <1>1, <2>1, CopiesSurvive
       DEF NothingIsLost, Acks, Takes, Others, MessagesStay, Spared, Faulty,
           Spent, Typed
  <2>3. Guards(c, e)'
    BY <2>1 DEF Guards, Takes
  <2>4. ASSUME NEW x \in Events \ {e}, NEW k \in Consumers, Guards(k, x)
        PROVE  Guards(k, x)'
    BY <1>1, <2>1, <2>4 DEF Guards, Takes, Others
  <2>5. ASSUME NEW x \in Events \ {e}, NEW m \in Copies, Returns(m, x)
        PROVE  Returns(m, x)'
    BY <1>1, <2>5 DEF Returns
  <2>6. LockIsGuarded'
    BY <1>1, <2>3, <2>4, <2>5
       DEF NothingIsLost, LockIsGuarded, Spared, Faulty, Spent
  <2> QED
    BY <2>2, <2>6 DEF NothingIsLost
<1>3. CASE ~ Claims(e)
  <2>1. Takes(c, d, "acking") /\ UNCHANGED inbox
    BY <1>1, <1>3, StartTakes DEF ClaimInbox, PC
  <2>2. LockIsGuarded'
    BY <1>1, <2>1
       DEF NothingIsLost, LockIsGuarded, Guards, Returns, Takes, Others,
           Spared, Faulty, Spent
  <2>3. ASSUME ~ Faulty, NEW m \in Copies, m # d.copy,
               \A k \in Consumers : ~ Acks(k, m)
        PROVE  \A k \in Consumers : ~ Acks(k, m)'
    BY <2>1, <2>3 DEF Acks, Takes, Others
  <2>4. ASSUME ~ Faulty PROVE Held(c, d)
    BY <2>4, InHandIsHeld
  <2>5. ASSUME Spared(e), ~ Faulty, handled[e] = 0
        PROVE  \E m \in Copies \ {d.copy} :
                   /\ msg[m].place # "free"
                   /\ msg[m].event = e
                   /\ \A k \in Consumers : ~ Acks(k, m)
    <3>1. inbox[e].lock > 0
      <4>1. inbox[e] \in Row /\ inbox[e].status # "processed"
        BY <1>1, <2>5 DEF IInv, SuccessIsTrue, Typed
      <4> QED
        BY <1>3, <4>1 DEF Claims, Row
    <3>2. CASE \E k \in Consumers : Guards(k, e)
      <4>1. PICK k \in Consumers : Guards(k, e)
        BY <3>2
      <4>2. /\ Busy(k)
            /\ consumer[k].pc # "acking"
            /\ Current(k).event = e
            /\ k # c
        BY <1>1, <4>1 DEF Guards
      <4>3. Held(k, Current(k)) /\ Current(k) \in Delivery
        BY <2>5, <4>2, InHandIsHeld
      <4> DEFINE m == Current(k).copy
      <4>4. /\ m \in Copies
            /\ msg[m].place = "unacked"
            /\ msg[m].holder = k
            /\ msg[m].event = e
        BY <4>2, <4>3 DEF Held, Delivery
      <4>5. m # d.copy
        BY <2>4, <2>5, <4>2, <4>4 DEF Held
      <4>6. \A x \in Consumers : ~ Acks(x, m)
        <5>1. ASSUME NEW x \in Consumers, Acks(x, m)
              PROVE  FALSE
          <6>1. msg[m].holder = x
            BY <2>5, <4>4, <5>1, InHandIsHeld
          <6> QED
            BY <4>2, <4>4, <5>1, <6>1 DEF Acks
        <5> QED
          BY <5>1
      <4> HIDE DEF m
      <4> QED
        BY <4>4, <4>5, <4>6
    <3>3. CASE \E m \in Copies : Returns(m, e)
      <4>1. PICK m \in Copies : Returns(m, e)
        BY <3>3
      <4>2. /\ msg[m].place # "free"
            /\ msg[m].place # "unacked"
            /\ msg[m].event = e
        BY <4>1 DEF Returns
      <4>3. \A x \in Consumers : ~ Acks(x, m)
        BY <2>5, <4>2, InHandIsHeld
      <4> QED
        BY <2>4, <2>5, <4>2, <4>3 DEF Held
    <3> QED
      BY <1>1, <2>5, <3>1, <3>2, <3>3 DEF NothingIsLost, LockIsGuarded
  <2>6. CopySurvives'
    <3>1. ASSUME NEW x \in sent, Spared(x), ~ Faulty, handled[x] = 0
          PROVE  \E m \in Copies : /\ msg[m].place # "free"
                                   /\ msg[m].event = x
                                   /\ \A k \in Consumers : ~ Acks(k, m)'
      <4>1. PICK m \in Copies :
                /\ m # d.copy
                /\ msg[m].place # "free"
                /\ msg[m].event = x
                /\ \A k \in Consumers : ~ Acks(k, m)
        <5>1. CASE x = e
          BY <2>5, <3>1, <5>1
        <5>2. CASE x # e
          <6>1. PICK m \in Copies :
                    /\ msg[m].place # "free"
                    /\ msg[m].event = x
                    /\ \A k \in Consumers : ~ Acks(k, m)
            BY <3>1 DEF NothingIsLost, CopySurvives
          <6>2. m # d.copy
            BY <2>4, <3>1, <5>2, <6>1 DEF Held
          <6> QED
            BY <6>1, <6>2
        <5> QED
          BY <5>1, <5>2
      <4> QED
        BY <2>3, <3>1, <4>1
    <3> QED
      BY <1>1, <3>1 DEF CopySurvives, Spared, Faulty, Spent
  <2> QED
    BY <2>2, <2>6 DEF NothingIsLost
<1> QED
  BY <1>2, <1>3

\* In the handler, and from there to the answer, a delivery keeps its copy.
LEMMA HandlerSucceedsLosesNothing ==
    ASSUME IInv, NothingIsLost, NEW c \in Consumers, HandlerSucceeds(c)
    PROVE  NothingIsLost'
<1> DEFINE e == Current(c).event
<1>1. /\ Typed
      /\ UNCHANGED <<msg, inbox, sent, failures, budget>>
      /\ consumer[c].pc = "handling"
      /\ e \in Events
      /\ handled' = [handled EXCEPT ![e] = UpTo(2, @)]
  BY WorkerFields DEF IInv, Typed, HandlerSucceeds, Delivery, PC
<1>2. Walks(c, "handled")
  BY <1>1, GoToWalks DEF HandlerSucceeds, PC
<1>3. /\ handled'[e] > 0
      /\ \A x \in Events \ {e} : handled'[x] = handled[x]
  BY <1>1 DEF Typed, UpTo
<1>4. CopySurvives'
  <2>1. \A x \in Events : handled'[x] = 0 => handled[x] = 0
    BY <1>3
  <2> QED
    BY <1>1, <1>2, <2>1, CopiesSurvive
       DEF NothingIsLost, Acks, Walks, Others, MessagesStay, Spared, Faulty,
           Spent, Typed
<1>5. ASSUME NEW x \in Events \ {e}, NEW k \in Consumers, Guards(k, x)
      PROVE  Guards(k, x)'
  BY <1>1, <1>2, <1>5 DEF Guards, Walks, Others
<1>6. ASSUME NEW x \in Events, NEW m \in Copies, Returns(m, x)
      PROVE  Returns(m, x)'
  BY <1>1, <1>6 DEF Returns
<1>7. LockIsGuarded'
  BY <1>1, <1>3, <1>5, <1>6
     DEF NothingIsLost, LockIsGuarded, Spared, Faulty, Spent
<1> QED
  BY <1>4, <1>7 DEF NothingIsLost

\* A failed handler still guards the lock it holds.
LEMMA HandlerFailsLosesNothing ==
    ASSUME IInv, NothingIsLost, NEW c \in Consumers, HandlerFails(c)
    PROVE  NothingIsLost'
<1>1. /\ Typed
      /\ UNCHANGED <<msg, inbox, sent, handled, budget>>
      /\ consumer[c].pc = "handling"
  BY DEF IInv, HandlerFails
<1>2. Walks(c, "failed")
  BY <1>1, GoToWalks DEF HandlerFails, PC
<1>3. \A x \in Events : Spared(x)' => Spared(x)
  <2>1. \A x \in Events : failures'[x] >= failures[x] /\ failures[x] \in Nat
    BY <1>1, ConsumerAssumption DEF HandlerFails, Typed, UpTo
  <2> QED
    BY <1>1, <2>1, ConsumerAssumption DEF Spared, Faulty, Spent
<1>4. CopySurvives'
  BY <1>1, <1>2, <1>3, CopiesSurvive
     DEF NothingIsLost, Acks, Walks, Others, MessagesStay, Typed
<1>5. ASSUME NEW x \in Events, NEW k \in Consumers, Guards(k, x)
      PROVE  Guards(k, x)'
  BY <1>1, <1>2, <1>5 DEF Guards, Walks, Others
<1>6. LockIsGuarded'
  BY <1>1, <1>5, <1>3 DEF NothingIsLost, LockIsGuarded, Returns
<1> QED
  BY <1>4, <1>6 DEF NothingIsLost

\* What MarkInboxProcessed records has been handled, and may be acknowledged.
LEMMA MarkInboxProcessedLosesNothing ==
    ASSUME IInv, NothingIsLost, NEW c \in Consumers, MarkInboxProcessed(c)
    PROVE  NothingIsLost'
<1> DEFINE e == Current(c).event
<1>1. /\ Typed
      /\ UNCHANGED <<msg, sent, handled, failures, budget>>
      /\ consumer[c].pc = "handled"
      /\ e \in Events
      /\ handled[e] > 0
      /\ inbox' = [inbox EXCEPT ![e] = [status |-> "processed", lock |-> 0]]
  BY WorkerFields
     DEF IInv, Typed, MarkInboxProcessed, Delivery, PC, SuccessIsTrue
<1>2. Walks(c, "acking")
  BY <1>1, GoToWalks DEF MarkInboxProcessed, PC
<1>3. /\ inbox'[e].lock = 0
      /\ \A x \in Events \ {e} : inbox'[x] = inbox[x]
  BY <1>1 DEF Typed
<1>4. CopySurvives'
  <2>1. ASSUME NEW x \in sent, Spared(x), ~ Faulty, handled[x] = 0
        PROVE  \E m \in Copies : /\ msg[m].place # "free"
                                 /\ msg[m].event = x
                                 /\ \A k \in Consumers : ~ Acks(k, m)'
    <3>1. PICK m \in Copies : /\ msg[m].place # "free"
                             /\ msg[m].event = x
                             /\ \A k \in Consumers : ~ Acks(k, m)
      BY <2>1 DEF NothingIsLost, CopySurvives
    <3>2. m # Current(c).copy
      BY <1>1, <2>1, <3>1, InHandIsHeld DEF Held
    <3> QED
      BY <1>2, <3>1, <3>2 DEF Acks, Walks, Others
  <2> QED
    BY <1>1, <2>1 DEF CopySurvives, Spared, Faulty, Spent
<1>5. ASSUME NEW x \in Events \ {e}, NEW k \in Consumers, Guards(k, x)
      PROVE  Guards(k, x)'
  BY <1>1, <1>2, <1>3, <1>5 DEF Guards, Walks, Others
<1>6. ASSUME NEW x \in Events \ {e}, NEW m \in Copies, Returns(m, x)
      PROVE  Returns(m, x)'
  BY <1>1, <1>3, <1>6 DEF Returns
<1>7. LockIsGuarded'
  BY <1>1, <1>3, <1>5, <1>6
     DEF NothingIsLost, LockIsGuarded, Spared, Faulty, Spent
<1> QED
  BY <1>4, <1>7 DEF NothingIsLost

\* The lock of a failure is no longer than the retry takes.
LEMMA MarkInboxFailedLosesNothing ==
    ASSUME IInv, NothingIsLost, NEW c \in Consumers, MarkInboxFailed(c)
    PROVE  NothingIsLost'
<1> DEFINE e == Current(c).event
<1>1. /\ Typed
      /\ UNCHANGED <<msg, sent, handled, failures, budget>>
      /\ consumer[c].pc = "failed"
      /\ e \in Events
      /\ Current(c).attempt \in 1 .. MaxRetries
      /\ inbox' = [inbox EXCEPT ![e] =
                      [status |-> "processing", lock |-> RetryDelay(c)]]
  BY WorkerFields DEF IInv, Typed, MarkInboxFailed, Delivery, PC
<1>2. Walks(c, AfterFailure(c)) /\ AfterFailure(c) \in {"retrying", "burying"}
  BY <1>1, GoToWalks DEF MarkInboxFailed, PC, AfterFailure
<1>3. /\ inbox'[e].lock = Current(c).attempt
      /\ \A x \in Events \ {e} : inbox'[x] = inbox[x]
  BY <1>1 DEF Typed, RetryDelay
<1>4. CopySurvives'
  BY <1>1, <1>2, CopiesSurvive
     DEF NothingIsLost, Acks, Walks, Others, MessagesStay, Spared, Faulty,
         Spent, Typed
<1>5. ASSUME NEW x \in Events, x = e, Spared(x)
      PROVE  Guards(c, x)'
  <2>1. MaxRetries <= RetryTTL + 1
    <3>1. failures[e] >= Current(c).attempt /\ failures[e] \in Nat
      BY <1>1, ConsumerAssumption DEF IInv, FailuresAreCounted, Typed
    <3> QED
      BY <1>1, <1>5, <3>1, ConsumerAssumption DEF Spared
  <2>2. AfterFailure(c) = "retrying" => inbox'[e].lock <= RetryTTL
    BY <1>1, <1>3, <2>1, ConsumerAssumption DEF AfterFailure
  <2> QED
    BY <1>1, <1>2, <1>5, <2>2 DEF Guards, Walks
<1>6. ASSUME NEW x \in Events \ {e}, NEW k \in Consumers, Guards(k, x)
      PROVE  Guards(k, x)'
  BY <1>1, <1>2, <1>3, <1>6 DEF Guards, Walks, Others
<1>7. ASSUME NEW x \in Events \ {e}, NEW m \in Copies, Returns(m, x)
      PROVE  Returns(m, x)'
  BY <1>1, <1>3, <1>7 DEF Returns
<1>8. LockIsGuarded'
  BY <1>1, <1>5, <1>6, <1>7
     DEF NothingIsLost, LockIsGuarded, Spared, Faulty, Spent
<1> QED
  BY <1>4, <1>8 DEF NothingIsLost

\* The copy of a retry or a dead letter is there before the original goes.
LEMMA RepublishLosesNothing ==
    ASSUME IInv, NothingIsLost, NEW c \in Consumers,
           consumer[c].pc \in {"retrying", "burying"},
           NEW place \in {"retry", "dlq"}, NEW attempt \in 1 .. MaxRetries,
           NEW ttl \in 0 .. RetryTTL,
           consumer[c].pc = "retrying" => place = "retry" /\ ttl = RetryTTL,
           consumer[c].pc = "burying" => place = "dlq",
           Republish(c, place, attempt, ttl)
    PROVE  NothingIsLost'
<1> DEFINE e == Current(c).event
<1>1. /\ Typed
      /\ UNCHANGED <<inbox, sent, handled, failures, budget>>
      /\ e \in Events
  BY WorkerFields DEF IInv, Republish, Typed, Delivery
<1>2. CASE Faulty
  BY <1>1, <1>2
     DEF NothingIsLost, CopySurvives, LockIsGuarded, Spared, Faulty, Spent
<1>3. CASE ~ Faulty
  <2>1. consumer[c].online
    BY <1>3 DEF IInv, AllOnline
  <2>2. PICK m \in Copies :
            /\ msg[m].place = "free"
            /\ msg' = [msg EXCEPT ![m] =
                  [place |-> place, event |-> e, attempt |-> attempt,
                   ttl |-> ttl, holder |-> Nobody]]
    BY <2>1 DEF Republish, FreeCopies
  <2>3. /\ Elsewhere(m)
        /\ MessagesStay
        /\ msg'[m].place = place
        /\ msg'[m].event = e
        /\ msg'[m].ttl = ttl
    BY <1>1, <2>2, PutStays
  <2>4. Walks(c, "acking")
    BY <1>1, <2>1, GoToWalks DEF Republish, PC
  <2>5. Held(c, Current(c)) /\ Current(c) \in Delivery
    BY <1>3, InHandIsHeld
  <2>6. CopySurvives'
    <3>1. \A k \in Consumers : ~ Acks(k, m)'
      <4>1. \A k \in Consumers : ~ Acks(k, m)
        BY <1>3, <2>2, InHandIsHeld
      <4>2. m # Current(c).copy
        BY <2>2, <2>5 DEF Held
      <4> QED
        BY <2>4, <4>1, <4>2 DEF Acks, Walks, Others
    <3>2. ASSUME NEW x \in sent, Spared(x), handled[x] = 0
          PROVE  \E n \in Copies : /\ msg'[n].place # "free"
                                   /\ msg'[n].event = x
                                   /\ \A k \in Consumers : ~ Acks(k, n)'
      <4>1. CASE x = e
        BY <2>3, <3>1, <4>1
      <4>2. CASE x # e
        <5>1. PICK n \in Copies : /\ msg[n].place # "free"
                                 /\ msg[n].event = x
                                 /\ \A k \in Consumers : ~ Acks(k, n)
          BY <1>3, <3>2 DEF NothingIsLost, CopySurvives
        <5>2. n # Current(c).copy
          BY <2>5, <4>2, <5>1 DEF Held
        <5>3. \A k \in Consumers : ~ Acks(k, n)'
          BY <2>4, <5>1, <5>2 DEF Acks, Walks, Others
        <5> QED
          BY <2>3, <5>1, <5>3 DEF MessagesStay
      <4> QED
        BY <4>1, <4>2
    <3> QED
      BY <1>1, <3>2 DEF CopySurvives, Spared, Faulty, Spent
  <2>7. LockIsGuarded'
    <3>1. ASSUME NEW x \in Events, NEW k \in Consumers \ {c}, Guards(k, x)
          PROVE  Guards(k, x)'
      BY <1>1, <2>4, <3>1 DEF Guards, Walks, Others
    <3>2. ASSUME NEW x \in Events, Guards(c, x)
          PROVE  Returns(m, x)'
      BY <1>1, <2>3, <3>2, ConsumerAssumption DEF Guards, Returns
    <3>3. ASSUME NEW x \in Events, NEW n \in Copies, Returns(n, x)
          PROVE  Returns(n, x)'
      BY <1>1, <2>2, <2>3, <3>3 DEF Returns, Elsewhere
    <3>4. ASSUME NEW x \in Events, Spared(x), handled[x] = 0, inbox[x].lock > 0
          PROVE  \/ \E k \in Consumers : Guards(k, x)'
                 \/ \E n \in Copies : Returns(n, x)'
      BY <1>3, <3>1, <3>2, <3>3, <3>4 DEF NothingIsLost, LockIsGuarded
    <3> QED
      BY <1>1, <3>4 DEF LockIsGuarded, Spared, Faulty, Spent
  <2> QED
    BY <2>6, <2>7 DEF NothingIsLost
<1> QED
  BY <1>2, <1>3

\* The copy of a retry guards the lock of the failure.
LEMMA RetryLosesNothing ==
    ASSUME IInv, NothingIsLost, NEW c \in Consumers, Retry(c)
    PROVE  NothingIsLost'
<1>1. Current(c).attempt + 1 \in 1 .. MaxRetries
  BY WorkerFields, ConsumerAssumption
     DEF IInv, Typed, FailuresAreCounted, Retry, Delivery
<1> QED
  BY <1>1, RepublishLosesNothing, ConsumerAssumption DEF Retry

\* A dead letter is a copy that stays.
LEMMA DeadLetterLosesNothing ==
    ASSUME IInv, NothingIsLost, NEW c \in Consumers, DeadLetter(c)
    PROVE  NothingIsLost'
<1>1. Current(c).attempt \in 1 .. MaxRetries
  BY WorkerFields DEF IInv, Typed, DeadLetter, Delivery
<1> QED
  BY <1>1, RepublishLosesNothing, ConsumerAssumption DEF DeadLetter

\* Only the copy that is acknowledged goes.
LEMMA AckLosesNothing ==
    ASSUME IInv, NothingIsLost, NEW c \in Consumers, Ack(c)
    PROVE  NothingIsLost'
<1> DEFINE m == Current(c).copy
<1>1. /\ Typed
      /\ UNCHANGED <<inbox, sent, handled, failures, budget>>
      /\ consumer[c].pc = "acking"
      /\ m \in Copies
      /\ Rests(c)
  BY WorkerFields, DoneRests DEF IInv, Ack, Typed, Delivery
<1>2. CASE Faulty
  BY <1>1, <1>2
     DEF NothingIsLost, CopySurvives, LockIsGuarded, Spared, Faulty, Spent
<1>3. CASE ~ Faulty
  <2>1. Elsewhere(m)
    BY <1>1 DEF Ack, Typed, Elsewhere
  <2>2. msg[m].place = "unacked" /\ Acks(c, m)
    BY <1>1, <1>3, InHandIsHeld DEF Acks
  <2>3. CopySurvives'
    <3>1. ASSUME NEW x \in sent, Spared(x), handled[x] = 0
          PROVE  \E n \in Copies : /\ msg'[n].place # "free"
                                   /\ msg'[n].event = x
                                   /\ \A k \in Consumers : ~ Acks(k, n)'
      <4>1. PICK n \in Copies : /\ msg[n].place # "free"
                               /\ msg[n].event = x
                               /\ \A k \in Consumers : ~ Acks(k, n)
        BY <1>3, <3>1 DEF NothingIsLost, CopySurvives
      <4>2. n # m
        BY <2>2, <4>1
      <4>3. \A k \in Consumers : ~ Acks(k, n)'
        BY <1>1, <4>1 DEF Acks, Rests, Others
      <4> QED
        BY <2>1, <4>1, <4>2, <4>3 DEF Elsewhere
    <3> QED
      BY <1>1, <3>1 DEF CopySurvives, Spared, Faulty, Spent
  <2>4. LockIsGuarded'
    <3>1. ASSUME NEW x \in Events, NEW k \in Consumers, Guards(k, x)
          PROVE  Guards(k, x)'
      BY <1>1, <3>1 DEF Guards, Rests, Others
    <3>2. ASSUME NEW x \in Events, NEW n \in Copies, Returns(n, x)
          PROVE  Returns(n, x)'
      BY <1>1, <2>1, <2>2, <3>2 DEF Returns, Elsewhere
    <3> QED
      BY <1>1, <1>3, <3>1, <3>2
         DEF NothingIsLost, LockIsGuarded, Spared, Faulty, Spent
  <2> QED
    BY <2>3, <2>4 DEF NothingIsLost
<1> QED
  BY <1>2, <1>3

\* Locks and retries run down at the same pace.
LEMMA TickLosesNothing ==
    ASSUME IInv, NothingIsLost, Tick
    PROVE  NothingIsLost'
<1>1. /\ Typed
      /\ UNCHANGED <<consumer, sent, handled, failures>>
      /\ MessagesStay
      /\ \A m \in Copies :
           /\ msg'[m].place = msg[m].place
           /\ msg'[m].event = msg[m].event
           /\ msg'[m].ttl = Before(msg[m].ttl)
      /\ \A e \in Events : inbox'[e].lock = Before(inbox[e].lock)
  BY TickEffect DEF IInv, Tick
<1>2. \A x \in Events : Spared(x)' => Spared(x)
  <2>1. UNCHANGED budget \/ Spend("late")
    BY DEF Tick
  <2> QED
    BY <1>1, <2>1, FaultShows DEF IInv, Spared, Faulty, Spent, Disturbances
<1>3. CopySurvives'
  BY <1>1, <1>2, CopiesSurvive DEF NothingIsLost, Acks, Typed
<1>4. \A e \in Events : inbox[e].lock \in Nat
  BY <1>1 DEF Typed, Row
<1>5. \A m \in Copies : msg[m].ttl \in Nat
  BY <1>1, ConsumerAssumption DEF Typed, Message
<1>6. ASSUME NEW x \in Events, NEW k \in Consumers, Guards(k, x)
      PROVE  Guards(k, x)'
  BY <1>1, <1>4, <1>6, ConsumerAssumption DEF Guards, Before
<1>7. ASSUME NEW x \in Events, NEW m \in Copies, Returns(m, x)
      PROVE  Returns(m, x)'
  BY <1>1, <1>4, <1>5, <1>7 DEF Returns, Before
<1>8. \A x \in Events : inbox'[x].lock > 0 => inbox[x].lock > 0
  BY <1>1, <1>4 DEF Before
<1>9. LockIsGuarded'
  BY <1>1, <1>2, <1>6, <1>7, <1>8 DEF NothingIsLost, LockIsGuarded
<1> QED
  BY <1>3, <1>9 DEF NothingIsLost

\* After a fault nothing is claimed.
LEMMA FaultsExcuse ==
    ASSUME IInv, NEW x \in {"crash", "database", "connection", "nack"}, Fault(x)
    PROVE  NothingIsLost'
<1>1. Faulty'
  BY FaultShows DEF IInv, Fault, Faulty, Disturbances
<1> QED
  BY <1>1 DEF NothingIsLost, CopySurvives, LockIsGuarded, Spared

\* No step loses an event, unless it is a fault.
LEMMA NextLosesNothing ==
    ASSUME IInv, NothingIsLost, [Next]_vars
    PROVE  NothingIsLost'
<1>1. ASSUME NEW e \in Events, PublishEvent(e)
      PROVE  NothingIsLost'
  BY <1>1, PublishLosesNothing
<1>2. ASSUME NEW m \in Copies, ExpireRetry(m)
      PROVE  NothingIsLost'
  BY <1>2, ExpireLosesNothing
<1>3. ASSUME NEW c \in Consumers, NEW m \in Copies, Deliver(c, m)
      PROVE  NothingIsLost'
  BY <1>3, DeliverLosesNothing
<1>4. ASSUME NEW c \in Consumers, NEW d \in consumer[c].buffer,
             Reject(c, d) \/ ClaimInbox(c, d) \/ ClaimInboxFails(c, d)
      PROVE  NothingIsLost'
  BY <1>4, RejectLosesNothing, ClaimLosesNothing, FaultsExcuse
     DEF ClaimInboxFails
<1>5. ASSUME NEW c \in Consumers,
             \/ HandlerSucceeds(c) \/ HandlerFails(c)
             \/ MarkInboxProcessed(c) \/ MarkInboxProcessedFails(c)
             \/ MarkInboxFailed(c) \/ MarkInboxFailedFails(c)
      PROVE  NothingIsLost'
  BY <1>5, HandlerSucceedsLosesNothing, HandlerFailsLosesNothing,
     MarkInboxProcessedLosesNothing, MarkInboxFailedLosesNothing, FaultsExcuse
     DEF MarkInboxProcessedFails, MarkInboxFailedFails
<1>6. ASSUME NEW c \in Consumers, Retry(c) \/ DeadLetter(c) \/ Ack(c)
      PROVE  NothingIsLost'
  BY <1>6, RetryLosesNothing, DeadLetterLosesNothing, AckLosesNothing
<1>7. ASSUME NEW c \in Consumers,
             Crash(c) \/ LoseConnection(c) \/ RepublishIsRefused(c)
      PROVE  NothingIsLost'
  BY <1>7, FaultsExcuse DEF Crash, LoseConnection, RepublishIsRefused
<1>8. ASSUME UNCHANGED vars
      PROVE  NothingIsLost'
  BY <1>8 DEF vars, NothingIsLost, CopySurvives, LockIsGuarded, Acks, Guards,
              Returns, Spared, Faulty, Spent
<1> QED
  BY <1>1, <1>2, <1>3, <1>4, <1>5, <1>6, <1>7, <1>8, TickLosesNothing
     DEF Next, Process

-----------------------------------------------------------------------------
\* The inductive invariant holds.
LEMMA Invariance == Spec => []IInv
<1>1. IInv /\ [Next]_vars => IInv'
  BY NextKeeps
<1> QED
  BY InitIInv, <1>1, PTL DEF Spec

\* Every variable has its type, and every worker the record of where it is.
THEOREM TypeCorrect == Spec => []TypeOK
<1>1. IInv => TypeOK
  <2> SUFFICES ASSUME IInv PROVE TypeOK
    OBVIOUS
  <2>1. Typed
    BY DEF IInv
  <2>2. ASSUME NEW c \in Consumers
        PROVE  /\ consumer[c].pc \in PC
               /\ consumer[c].online \in BOOLEAN
               /\ consumer[c].buffer \subseteq Delivery
               /\ consumer[c].pc # "idle" => consumer[c].current \in Delivery
    BY <2>1, WorkerFields DEF Typed
  <2> QED
    BY <2>1, <2>2 DEF TypeOK, Typed, Row
<1> QED
  BY <1>1, Invariance, PTL

\* No step but that of publishDead makes a dead letter, and no success takes a
\* failure back.
LEMMA EarnedStays ==
    ASSUME IInv, DeadLetterIsEarned, [Next]_vars
    PROVE  DeadLetterIsEarned'
<1> USE DEF DeadLetterIsEarned
<1>1. Typed /\ msg \in [Copies -> Message]
  BY DEF IInv, Typed
<1>2. ASSUME UNCHANGED <<msg, failures>>
      PROVE  DeadLetterIsEarned'
  BY <1>2
<1>3. ASSUME NEW e \in Events, PublishEvent(e)
      PROVE  DeadLetterIsEarned'
  <2>1. PICK m \in Copies : msg' = [msg EXCEPT ![m] =
                [place |-> "queue", event |-> e, attempt |-> 1,
                 ttl |-> 0, holder |-> Nobody]]
    BY <1>3 DEF PublishEvent, FreeCopies
  <2>2. msg'[m].place = "queue" /\ UNCHANGED failures /\ Elsewhere(m)
    BY <1>1, <1>3, <2>1 DEF PublishEvent, Elsewhere
  <2> QED
    BY <2>2 DEF Elsewhere
<1>4. ASSUME NEW m \in Copies, ExpireRetry(m)
      PROVE  DeadLetterIsEarned'
  <2>1. msg'[m].place = "queue" /\ UNCHANGED failures /\ Elsewhere(m)
    BY <1>1, <1>4 DEF ExpireRetry, Elsewhere, Message
  <2> QED
    BY <2>1 DEF Elsewhere
<1>5. ASSUME NEW c \in Consumers, NEW m \in Copies, Deliver(c, m)
      PROVE  DeadLetterIsEarned'
  <2>1. msg'[m].place = "unacked" /\ UNCHANGED failures /\ Elsewhere(m)
    BY <1>1, <1>5 DEF Deliver, Elsewhere, Message
  <2> QED
    BY <2>1 DEF Elsewhere
<1>6. ASSUME NEW c \in Consumers, NEW d \in consumer[c].buffer,
             Reject(c, d) \/ ClaimInbox(c, d) \/ ClaimInboxFails(c, d)
      PROVE  DeadLetterIsEarned'
  BY <1>2, <1>6 DEF Reject, ClaimInbox, ClaimInboxFails
<1>7. ASSUME NEW c \in Consumers,
             \/ HandlerSucceeds(c)
             \/ MarkInboxProcessed(c) \/ MarkInboxProcessedFails(c)
             \/ MarkInboxFailed(c) \/ MarkInboxFailedFails(c)
             \/ RepublishIsRefused(c)
      PROVE  DeadLetterIsEarned'
  BY <1>2, <1>7
     DEF HandlerSucceeds, MarkInboxProcessed, MarkInboxProcessedFails,
                    MarkInboxFailed, MarkInboxFailedFails, RepublishIsRefused
<1>8. ASSUME NEW c \in Consumers, HandlerFails(c)
      PROVE  DeadLetterIsEarned'
  <2> DEFINE e == Current(c).event
  <2>1. /\ UNCHANGED msg
        /\ e \in Events
        /\ failures' = [failures EXCEPT ![e] = UpTo(MaxRetries, @)]
    BY <1>1, <1>8, WorkerFields DEF HandlerFails, Typed, Delivery, PC
  <2>2. \A x \in Events : failures[x] = MaxRetries => failures'[x] = MaxRetries
    BY <1>1, <2>1, ConsumerAssumption DEF Typed, UpTo
  <2> QED
    BY <1>1, <2>1, <2>2 DEF Message
<1>9. ASSUME NEW c \in Consumers, Retry(c)
      PROVE  DeadLetterIsEarned'
  <2>1. CASE ~ consumer[c].online
    BY <1>2, <1>9, <2>1 DEF Retry, Republish
  <2>2. CASE consumer[c].online
    <3>1. PICK m \in Copies : msg' = [msg EXCEPT ![m] =
                  [place |-> "retry", event |-> Current(c).event,
                   attempt |-> Current(c).attempt + 1, ttl |-> RetryTTL,
                   holder |-> Nobody]]
      BY <1>9, <2>2 DEF Retry, Republish, FreeCopies
    <3>2. msg'[m].place = "retry" /\ UNCHANGED failures /\ Elsewhere(m)
      BY <1>1, <1>9, <3>1 DEF Retry, Republish, Elsewhere
    <3> QED
      BY <3>2 DEF Elsewhere
  <2> QED
    BY <2>1, <2>2
<1>10. ASSUME NEW c \in Consumers, DeadLetter(c)
       PROVE  DeadLetterIsEarned'
  <2> DEFINE e == Current(c).event
  <2>1. CASE ~ consumer[c].online
    BY <1>2, <1>10, <2>1 DEF DeadLetter, Republish
  <2>2. CASE consumer[c].online
    <3>1. PICK m \in Copies : msg' = [msg EXCEPT ![m] =
                  [place |-> "dlq", event |-> e, attempt |-> Current(c).attempt,
                   ttl |-> 0, holder |-> Nobody]]
      BY <1>10, <2>2 DEF DeadLetter, Republish, FreeCopies
    <3>2. msg'[m].event = e /\ UNCHANGED failures /\ Elsewhere(m)
      BY <1>1, <1>10, <3>1 DEF DeadLetter, Republish, Elsewhere
    <3>3. e \in Malformed \/ failures[e] = MaxRetries
      BY <1>10 DEF IInv, FailuresAreCounted, DeadLetter
    <3> QED
      BY <3>2, <3>3 DEF Elsewhere
  <2> QED
    BY <2>1, <2>2
<1>11. ASSUME NEW c \in Consumers, Ack(c)
       PROVE  DeadLetterIsEarned'
  <2>1. CASE ~ consumer[c].online
    BY <1>2, <1>11, <2>1 DEF Ack
  <2>2. CASE consumer[c].online
    <3>1. Current(c).copy \in Copies
      BY <1>1, <1>11, WorkerFields DEF Typed, Ack, Delivery
    <3>2. /\ msg'[Current(c).copy].place = "free"
          /\ UNCHANGED failures
          /\ Elsewhere(Current(c).copy)
      BY <1>1, <1>11, <2>2, <3>1, FreeFields DEF Ack, Elsewhere
    <3> QED
      BY <3>2 DEF Elsewhere
  <2> QED
    BY <2>1, <2>2
<1>12. ASSUME NEW c \in Consumers, Crash(c) \/ LoseConnection(c)
       PROVE  DeadLetterIsEarned'
  <2>1. RequeueUnacked(c) /\ UNCHANGED failures
    BY <1>12 DEF Crash, LoseConnection
  <2>2. \A m \in Copies :
            /\ msg'[m].event = msg[m].event
            /\ msg[m].holder # c => msg'[m] = msg[m]
            /\ msg[m].holder = c => msg'[m].place # "dlq"
    BY <1>1, <2>1 DEF RequeueUnacked, Unacked, Requeued, Message
  <2> QED
    BY <2>1, <2>2
<1>13. ASSUME Tick
       PROVE  DeadLetterIsEarned'
  BY <1>1, <1>13, TickEffect DEF Tick
<1> QED
  BY <1>2, <1>3, <1>4, <1>5, <1>6, <1>7, <1>8, <1>9, <1>10, <1>11, <1>12, <1>13
     DEF Next, Process, vars

\* A well-formed event is in the dead-letter queue only after as many failures
\* of the handler as CONSUMER_MAX_RETRIES says.
THEOREM DeadLettersAreEarned == Spec => []DeadLetterIsEarned
<1>1. Init => DeadLetterIsEarned
  BY FreeFields DEF Init, DeadLetterIsEarned
<1>2. IInv /\ DeadLetterIsEarned /\ [Next]_vars => DeadLetterIsEarned'
  BY EarnedStays
<1> QED
  BY <1>1, <1>2, Invariance, PTL DEF Spec

-----------------------------------------------------------------------------
(* For the composition with the outbox.                                     *)

\* Whatever is in a queue, in a channel or in process was sent, and so was what
\* has been handled.
WasSent ==
    /\ \A m \in Copies : msg[m].place # "free" => msg[m].event \in sent
    /\ \A c \in Consumers :
        /\ \A d \in consumer[c].buffer : d.event \in sent
        /\ Busy(c) => Current(c).event \in sent
    /\ \A e \in Events : handled[e] > 0 => e \in sent

\* No step brings an event in from anywhere but broker.Publish.
LEMMA WasSentStays ==
    ASSUME IInv, WasSent, [Next]_vars
    PROVE  WasSent'
<1> USE DEF WasSent
<1>1. Typed /\ msg \in [Copies -> Message]
  BY DEF IInv, Typed
<1>2. ASSUME NEW c \in Consumers, NEW pc \in PC \ {"idle"}, Busy(c), GoTo(c, pc),
             UNCHANGED <<msg, sent, handled>>
      PROVE  WasSent'
  <2>1. Walks(c, pc)
    BY <1>1, <1>2, GoToWalks
  <2> QED
    BY <1>2, <2>1 DEF Walks, Others
<1>3. ASSUME NEW c \in Consumers, consumer' = [consumer EXCEPT ![c] = Done(c)],
             UNCHANGED <<msg, sent, handled>>
      PROVE  WasSent'
  <2>1. Rests(c)
    BY <1>1, <1>3, DoneRests
  <2> QED
    BY <1>3, <2>1 DEF Rests, Others
<1>4. ASSUME NEW e \in Events, PublishEvent(e)
      PROVE  WasSent'
  <2>1. PICK m \in Copies : msg' = [msg EXCEPT ![m] =
                [place |-> "queue", event |-> e, attempt |-> 1,
                 ttl |-> 0, holder |-> Nobody]]
    BY <1>4 DEF PublishEvent, FreeCopies
  <2>2. msg'[m].event = e /\ Elsewhere(m)
    BY <1>1, <2>1 DEF Elsewhere
  <2>3. sent' = sent \union {e} /\ UNCHANGED <<consumer, handled>>
    BY <1>4 DEF PublishEvent
  <2> QED
    BY <2>2, <2>3 DEF Elsewhere
<1>5. ASSUME NEW m \in Copies, ExpireRetry(m)
      PROVE  WasSent'
  <2>1. /\ msg[m].place = "retry"
        /\ msg'[m].event = msg[m].event
        /\ Elsewhere(m)
        /\ UNCHANGED <<consumer, sent, handled>>
    BY <1>1, <1>5 DEF ExpireRetry, Elsewhere, Message
  <2> QED
    BY <2>1 DEF Elsewhere
<1>6. ASSUME NEW c \in Consumers, NEW m \in Copies, Deliver(c, m)
      PROVE  WasSent'
  <2> PICK d : d = [copy |-> m, event |-> msg[m].event, attempt |-> msg[m].attempt]
    OBVIOUS
  <2> DEFINE b == consumer[c].buffer \union {d}
  <2>1. /\ msg[m].place = "queue"
        /\ msg'[m].event = msg[m].event
        /\ Elsewhere(m)
        /\ UNCHANGED <<sent, handled>>
        /\ consumer' = [consumer EXCEPT ![c].buffer = b]
    BY <1>1, <1>6 DEF Deliver, Elsewhere, Message
  <2>2. d.event = msg[m].event /\ d \in Delivery
    BY <1>1 DEF Message, Delivery
  <2>3. b \in SUBSET Delivery
    BY <1>1, <2>2, WorkerFields DEF Typed
  <2>4. Keeps(c) /\ consumer'[c].buffer = b
    <3> HIDE DEF b
    <3> QED
      BY <1>1, <2>1, <2>3, BufferKeeps
  <2> QED
    BY <2>1, <2>2, <2>4 DEF Elsewhere, Keeps, Others
<1>7. ASSUME NEW c \in Consumers, NEW d \in consumer[c].buffer,
             Reject(c, d) \/ ClaimInbox(c, d)
      PROVE  WasSent'
  <2>1. UNCHANGED <<msg, sent, handled>>
    BY <1>7 DEF Reject, ClaimInbox
  <2>2. PICK pc \in PC \ {"idle"} : Start(c, d, pc)
    BY <1>7 DEF Reject, ClaimInbox, PC
  <2>3. Takes(c, d, pc)
    BY <1>1, <2>2, StartTakes
  <2> QED
    BY <2>1, <2>3 DEF Takes, Others
<1>8. ASSUME NEW c \in Consumers, NEW d \in consumer[c].buffer, ClaimInboxFails(c, d)
      PROVE  WasSent'
  <2> DEFINE b == consumer[c].buffer \ {d}
  <2>1. /\ UNCHANGED <<msg, sent, handled>>
        /\ b \in SUBSET Delivery
        /\ consumer' = [consumer EXCEPT ![c].buffer = b]
    BY <1>1, <1>8, WorkerFields DEF ClaimInboxFails, Typed
  <2>2. Keeps(c) /\ consumer'[c].buffer = b
    <3> HIDE DEF b
    <3> QED
      BY <1>1, <2>1, BufferKeeps
  <2> QED
    BY <2>1, <2>2 DEF Keeps, Others
<1>9. ASSUME NEW c \in Consumers, HandlerSucceeds(c)
      PROVE  WasSent'
  <2> DEFINE e == Current(c).event
  <2>1. /\ Walks(c, "handled")
        /\ UNCHANGED <<msg, sent>>
        /\ handled' = [handled EXCEPT ![e] = UpTo(2, @)]
        /\ Busy(c)
    BY <1>1, <1>9, GoToWalks DEF HandlerSucceeds, PC
  <2>2. \A x \in Events : x # e => handled'[x] = handled[x]
    BY <1>1, <2>1 DEF Typed
  <2> QED
    BY <2>1, <2>2 DEF Walks, Others
<1>10. ASSUME NEW c \in Consumers,
              \/ HandlerFails(c) \/ MarkInboxProcessed(c)
              \/ MarkInboxFailed(c) \/ MarkInboxFailedFails(c)
              \/ RepublishIsRefused(c)
       PROVE  WasSent'
  <2>1. UNCHANGED <<msg, sent, handled>> /\ Busy(c)
    BY <1>10 DEF HandlerFails, MarkInboxProcessed, MarkInboxFailed,
                 MarkInboxFailedFails, RepublishIsRefused
  <2>2. PICK pc \in PC \ {"idle"} : GoTo(c, pc)
    BY <1>10 DEF HandlerFails, MarkInboxProcessed, MarkInboxFailed,
                 MarkInboxFailedFails, RepublishIsRefused, AfterFailure, PC
  <2> QED
    BY <1>2, <2>1, <2>2
<1>11. ASSUME NEW c \in Consumers, MarkInboxProcessedFails(c)
       PROVE  WasSent'
  BY <1>3, <1>11 DEF MarkInboxProcessedFails
<1>12. ASSUME NEW c \in Consumers, NEW place, NEW attempt, NEW ttl, Busy(c),
              Republish(c, place, attempt, ttl)
       PROVE  WasSent'
  <2>1. CASE ~ consumer[c].online
    BY <1>3, <1>12, <2>1 DEF Republish
  <2>2. CASE consumer[c].online
    <3>1. PICK m \in Copies : msg' = [msg EXCEPT ![m] =
                  [place |-> place, event |-> Current(c).event,
                   attempt |-> attempt, ttl |-> ttl, holder |-> Nobody]]
      BY <1>12, <2>2 DEF Republish, FreeCopies
    <3>2. msg'[m].event = Current(c).event /\ Elsewhere(m)
      BY <1>1, <3>1 DEF Elsewhere
    <3>3. Walks(c, "acking") /\ UNCHANGED <<sent, handled>>
      BY <1>1, <1>12, <2>2, GoToWalks DEF Republish, PC
    <3> QED
      BY <1>12, <3>2, <3>3 DEF Elsewhere, Walks, Others
  <2> QED
    BY <2>1, <2>2
<1>13. ASSUME NEW c \in Consumers, Retry(c) \/ DeadLetter(c)
       PROVE  WasSent'
  BY <1>12, <1>13 DEF Retry, DeadLetter
<1>14. ASSUME NEW c \in Consumers, Ack(c)
       PROVE  WasSent'
  <2>1. Current(c).copy \in Copies /\ Rests(c) /\ UNCHANGED <<sent, handled>>
    BY <1>1, <1>14, DoneRests, WorkerFields DEF Typed, Ack, Delivery
  <2>2. \A m \in Copies : msg'[m] = msg[m] \/ msg'[m].place = "free"
    BY <1>1, <1>14, <2>1, FreeFields DEF Ack
  <2> QED
    BY <2>1, <2>2 DEF Rests, Others
<1>15. ASSUME NEW c \in Consumers, RequeueUnacked(c), UNCHANGED <<sent, handled>>,
              \/ consumer' = [consumer EXCEPT ![c] = Resting]
              \/ consumer' = [consumer EXCEPT ![c].online = FALSE]
       PROVE  WasSent'
  <2>1. \A m \in Copies :
            /\ msg'[m].event = msg[m].event
            /\ msg[m].place = "free" => msg'[m].place = "free"
    BY <1>1, <1>15, RequeueStays DEF IInv
  <2>2. CASE consumer' = [consumer EXCEPT ![c] = Resting]
    BY <1>1, <1>15, <2>1, <2>2, RestingRests DEF Others
  <2>3. CASE consumer' = [consumer EXCEPT ![c].online = FALSE]
    BY <1>1, <1>15, <2>1, <2>3, OfflineKeeps DEF Others, Keeps
  <2> QED
    BY <1>15, <2>2, <2>3
<1>16. ASSUME NEW c \in Consumers, Crash(c) \/ LoseConnection(c)
       PROVE  WasSent'
  BY <1>15, <1>16 DEF Crash, LoseConnection
<1>17. ASSUME Tick
       PROVE  WasSent'
  <2>1. \A m \in Copies : /\ msg'[m].place = msg[m].place
                          /\ msg'[m].event = msg[m].event
    BY <1>1, <1>17, TickEffect
  <2>2. UNCHANGED <<consumer, sent, handled>>
    BY <1>17 DEF Tick
  <2> QED
    BY <2>1, <2>2
<1>18. ASSUME UNCHANGED vars
       PROVE  WasSent'
  BY <1>18 DEF vars
<1> QED
  BY <1>4, <1>5, <1>6, <1>7, <1>8, <1>9, <1>10, <1>11, <1>13, <1>14, <1>16, <1>17,
     <1>18 DEF Next, Process

\* Failures, successes and faults are never taken back, and nothing is unsent.
LEMMA HistoryGrows ==
    ASSUME IInv, [Next]_vars
    PROVE  /\ \A e \in Events : failures[e] > 0 => failures'[e] > 0
           /\ \A e \in Events : handled[e] > 0 => handled'[e] > 0
           /\ sent \subseteq sent'
           /\ Faulty => Faulty'
           /\ Spent("late") => Spent("late")'
<1>1. Typed /\ BudgetShrinks
  BY DEF IInv
<1>2. \/ UNCHANGED failures
      \/ \E e : failures' = [failures EXCEPT ![e] = UpTo(MaxRetries, @)]
  BY
     DEF Next, Process, vars, PublishEvent, ExpireRetry, Deliver, Reject,
         ClaimInbox,
         ClaimInboxFails, HandlerSucceeds, HandlerFails, MarkInboxProcessed,
         MarkInboxProcessedFails, MarkInboxFailed, MarkInboxFailedFails, Retry,
         DeadLetter, Republish, RepublishIsRefused, Ack, Crash, LoseConnection, Tick
<1>3. \/ UNCHANGED handled
      \/ \E e : handled' = [handled EXCEPT ![e] = UpTo(2, @)]
  BY
     DEF Next, Process, vars, PublishEvent, ExpireRetry, Deliver, Reject,
         ClaimInbox,
         ClaimInboxFails, HandlerSucceeds, HandlerFails, MarkInboxProcessed,
         MarkInboxProcessedFails, MarkInboxFailed, MarkInboxFailedFails, Retry,
         DeadLetter, Republish, RepublishIsRefused, Ack, Crash, LoseConnection, Tick
<1>4. UNCHANGED sent \/ \E e \in Events : sent' = sent \union {e}
  BY
     DEF Next, Process, vars, PublishEvent, ExpireRetry, Deliver, Reject,
         ClaimInbox,
         ClaimInboxFails, HandlerSucceeds, HandlerFails, MarkInboxProcessed,
         MarkInboxProcessedFails, MarkInboxFailed, MarkInboxFailedFails, Retry,
         DeadLetter, Republish, RepublishIsRefused, Ack, Crash, LoseConnection, Tick
<1>5. UNCHANGED budget \/ \E x \in Disturbances : Spend(x)
  BY
     DEF Next, Process, vars, PublishEvent, ExpireRetry, Deliver, Reject,
         ClaimInbox,
         ClaimInboxFails, HandlerSucceeds, HandlerFails, MarkInboxProcessed,
         MarkInboxProcessedFails, MarkInboxFailed, MarkInboxFailedFails, Retry,
         DeadLetter, Republish, RepublishIsRefused, Ack, Crash, LoseConnection, Tick, Fault, Disturbances
<1>6. \A e \in Events : failures[e] > 0 => failures'[e] > 0
  BY <1>1, <1>2, ConsumerAssumption DEF Typed, UpTo
<1>7. \A e \in Events : handled[e] > 0 => handled'[e] > 0
  BY <1>1, <1>3 DEF Typed, UpTo
<1>8. (Faulty => Faulty') /\ (Spent("late") => Spent("late")')
  BY <1>1, <1>5, FaultShows DEF Faulty, Spent
<1> QED
  BY <1>4, <1>6, <1>7, <1>8

\* The handler fails on what was published, too.
FailuresWereSent == \A e \in Events : failures[e] > 0 => e \in sent

LEMMA FailuresStaySent ==
    ASSUME IInv, WasSent, FailuresWereSent, [Next]_vars
    PROVE  FailuresWereSent'
<1>1. sent \subseteq sent'
  BY HistoryGrows
<1>2. ASSUME UNCHANGED failures
      PROVE  FailuresWereSent'
  BY <1>1, <1>2 DEF FailuresWereSent
<1>3. ASSUME NEW c \in Consumers, HandlerFails(c)
      PROVE  FailuresWereSent'
  <2> DEFINE e == Current(c).event
  <2>1. e \in sent
    BY <1>3 DEF WasSent, HandlerFails
  <2>2. \A x \in Events : x # e => failures'[x] = failures[x]
    BY <1>3 DEF HandlerFails, IInv, Typed
  <2> QED
    BY <1>1, <2>1, <2>2 DEF FailuresWereSent
<1> QED
  BY <1>2, <1>3
     DEF Next, Process, vars, PublishEvent, ExpireRetry, Deliver, Reject,
         ClaimInbox, ClaimInboxFails, HandlerSucceeds, MarkInboxProcessed,
         MarkInboxProcessedFails, MarkInboxFailed, MarkInboxFailedFails, Retry,
         DeadLetter, Republish, RepublishIsRefused, Ack, Crash, LoseConnection,
         Tick

\* Two deliveries of an event are in the handler at the same time only if some
\* handler was late.
THEOREM OneHandler == Spec => []OneHandlerAtATime
<1>1. IInv => OneHandlerAtATime
  BY DEF IInv, HandlersHoldTheLock, Handles, OneHandlerAtATime
<1> QED
  BY <1>1, Invariance, PTL

\* The handler succeeds on an event twice only after a fault or a late handler.
THEOREM HandledOnce == Spec => []HandledTwiceTakesAFault
<1>1. IInv => HandledTwiceTakesAFault
  BY DEF IInv, Typed, SuccessIsRecorded, HandledTwiceTakesAFault
<1> QED
  BY <1>1, Invariance, PTL

\* What is processed stays so, unless some handler was late.
THEOREM ProcessedStays == Spec => ProcessedIsFinal
<1>1. ASSUME IInv, [Next]_vars, NEW e \in Events,
             inbox[e].status = "processed", ~ Spent("late")
      PROVE  inbox'[e].status = "processed"
  <2>1. Typed
    BY <1>1 DEF IInv
  <2>2. \A c \in Consumers : Handles(c) => Current(c).event # e
    BY <1>1 DEF IInv, HandlersHoldTheLock
  <2>3. ASSUME NEW c \in Consumers, NEW d \in consumer[c].buffer, ClaimInbox(c, d)
        PROVE  inbox'[e].status = "processed"
    BY <1>1, <2>1, <2>3 DEF ClaimInbox, Claims, Typed
  <2>4. ASSUME NEW c \in Consumers, MarkInboxProcessed(c) \/ MarkInboxFailed(c)
        PROVE  inbox'[e].status = "processed"
    <3>1. Current(c).event # e
      BY <2>2, <2>4 DEF Handles, MarkInboxProcessed, MarkInboxFailed
    <3> QED
      BY <1>1, <2>1, <2>4, <3>1 DEF MarkInboxProcessed, MarkInboxFailed, Typed
  <2>5. ASSUME Tick
        PROVE  inbox'[e].status = "processed"
    BY <1>1, <2>1, <2>5, TickEffect
  <2>6. ASSUME UNCHANGED inbox
        PROVE  inbox'[e].status = "processed"
    BY <1>1, <2>6
  <2> QED
    BY <1>1, <2>3, <2>4, <2>5, <2>6
       DEF Next, Process, vars, PublishEvent, ExpireRetry, Deliver, Reject,
           ClaimInboxFails, HandlerSucceeds, HandlerFails, MarkInboxProcessedFails,
           MarkInboxFailedFails, Retry, DeadLetter, Republish, RepublishIsRefused,
           Ack, Crash, LoseConnection
<1>2. IInv /\ [Next]_vars =>
          [\A e \in Events :
              inbox[e].status = "processed" /\ ~ Spent("late")
                  => inbox'[e].status = "processed"]_vars
  BY <1>1
<1> QED
  BY <1>2, Invariance, PTL DEF Spec, ProcessedIsFinal

\* An event that was published and spared is handled or still in the broker.
THEOREM SparedIsNotLost ==
    Spec => [](CopySurvives /\ \A e \in Events : Lost(e) => ~ Spared(e))
<1>1. Init => NothingIsLost
  <2> SUFFICES ASSUME Init PROVE NothingIsLost
    OBVIOUS
  <2>1. sent = {} /\ \A e \in Events : inbox[e].lock = 0
    BY DEF Init
  <2> QED
    BY <2>1 DEF NothingIsLost, CopySurvives, LockIsGuarded
<1>2. IInv /\ NothingIsLost /\ [Next]_vars => NothingIsLost'
  BY NextLosesNothing
<1>3. NothingIsLost => CopySurvives /\ \A e \in Events : Lost(e) => ~ Spared(e)
  BY DEF NothingIsLost, CopySurvives, Lost, Alive
<1> QED
  BY <1>1, <1>2, <1>3, Invariance, PTL DEF Spec

\* If a copy never comes back before the lock of its failure is over, only a
\* fault loses an event, and a well-formed one only after its row was claimed.
LEMMA LossIsExcused ==
    ASSUME MaxRetries <= RetryTTL + 1, IInv, CopySurvives
    PROVE  LossTakesAFault
<1> SUFFICES ASSUME NEW e \in Events
             PROVE  /\ Lost(e) => /\ Faulty
                                  /\ \/ inbox[e].status = "processing"
                                     \/ e \in Malformed
                    /\ inbox[e].status = "processed" => handled[e] > 0
  BY DEF LossTakesAFault
<1>1. inbox[e].status \in {"none", "processing", "processed"}
  BY DEF IInv, Typed, Row
<1>2. inbox[e].status = "processed" => handled[e] > 0
  BY DEF IInv, SuccessIsTrue
<1>3. Lost(e) => inbox[e].status # "none" \/ e \in Malformed
  BY DEF IInv, UnclaimedIsAlive, Lost
<1>4. Lost(e) => Faulty
  BY DEF CopySurvives, Spared, Lost, Alive
<1> QED
  BY <1>1, <1>2, <1>3, <1>4 DEF Lost

\* Under the same assumption an event is lost only to a crash, a failing
\* statement, a lost connection or a refused copy, and whatever the faults no
\* row says processed that was not handled.
THEOREM LossNeedsAFault ==
    ASSUME MaxRetries <= RetryTTL + 1
    PROVE  Spec => []LossTakesAFault
<1>1. IInv /\ CopySurvives => LossTakesAFault
  BY LossIsExcused
<1> QED
  BY <1>1, SparedIsNotLost, Invariance, PTL
=============================================================================
