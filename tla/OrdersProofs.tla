---------------------------- MODULE OrdersProofs ----------------------------
(***************************************************************************)
(* Proofs about Orders, for any number of users, keys, orders and requests *)
(* in progress.  The argument is that of the locks: what a transaction has *)
(* found when it wrote is still so when it commits, because no other       *)
(* transaction holds the same row or the same key.                         *)
(***************************************************************************)
EXTENDS Orders, TLAPS

-----------------------------------------------------------------------------
(* The records of a request, by where it is.                                *)

AnyKey == Keys \union {NoKey}

Asked == [pc : {"insert"}, type : {"created"},
          user : Users, amount : Amounts, key : AnyKey]

Placing == [pc : {"append", "commit"}, type : {"created"}, id : Orders,
            user : Users, amount : Amounts, key : AnyKey]

Looking == [pc : {"find"}, type : Targets, principal : Principals, id : Orders]

Closing == [pc : {"update", "append", "commit"}, type : Targets, id : Orders]

Request == {Idle} \union Asked \union Placing \union Looking \union Closing

Typed ==
    /\ order \in [Orders -> Row]
    /\ events \in [Types \X Orders -> 0 .. 2]
    /\ request \in [Requests -> Request]
    /\ placed \subseteq Placement
    /\ closed \subseteq Orders \X Targets

InTransaction(r) == request[r].pc \in {"append", "commit"}

Creates(r) == InTransaction(r) /\ request[r].type = "created"

\* No two open transactions have written the same row or the same key.
LocksExclude ==
    \A r, q \in Requests :
        r # q /\ InTransaction(r) /\ InTransaction(q) =>
            /\ request[r].id # request[q].id
            /\ Creates(r) /\ Creates(q) /\ request[r].key = request[q].key
                   => request[r].key = NoKey

\* What an open transaction has found is still so: the id and the key it
\* inserts are of no order, the order it closes is pending.
WritesStand ==
    \A r \in Requests :
        InTransaction(r) =>
            IF request[r].type = "created"
            THEN ~ Exists(request[r].id) /\ WithKey(request[r].key) = {}
            ELSE order[request[r].id].status = "pending"

\* The committed events are those of the committed status.
EventsMatch ==
    \A o \in Orders :
        /\ events[<<"created", o>>] = IF Exists(o) THEN 1 ELSE 0
        /\ \A target \in Targets :
              events[<<target, o>>] = IF order[o].status = target THEN 1 ELSE 0

IInv ==
    /\ Typed
    /\ LocksExclude
    /\ WritesStand
    /\ EventsMatch
    /\ KeyNamesOneOrder
    /\ AnswersStand

-----------------------------------------------------------------------------
\* Where a request is tells what its record holds.
LEMMA RecordOf ==
    ASSUME Typed, NEW r \in Requests
    PROVE  /\ request[r] \in Request
           /\ request[r].pc = "insert" => request[r] \in Asked
           /\ request[r].pc = "find" => request[r] \in Looking
           /\ request[r].pc = "update" => request[r] \in Closing
           /\ InTransaction(r) =>
                 /\ request[r].id \in Orders
                 /\ request[r].type \in Types
                 /\ request[r].type = "created" => request[r] \in Placing
                 /\ request[r].type # "created" => request[r] \in Closing
<1>1. request[r] \in Request
  BY DEF Typed
<1>2. CASE request[r] = Idle
  BY <1>1, <1>2 DEF Idle, InTransaction
<1>3. CASE request[r] \in Asked
  BY <1>1, <1>3 DEF Asked, InTransaction
<1>4. CASE request[r] \in Placing
  BY <1>1, <1>4 DEF Placing, InTransaction, Types
<1>5. CASE request[r] \in Looking
  BY <1>1, <1>5 DEF Looking, InTransaction
<1>6. CASE request[r] \in Closing
  BY <1>1, <1>6 DEF Closing, InTransaction, Types, Targets
<1> QED
  BY <1>1, <1>2, <1>3, <1>4, <1>5, <1>6 DEF Request

\* The step of r leaves the other requests alone.
Others(r) == \A q \in Requests \ {r} : request'[q] = request[q]

\* The step of r puts its record to another one.
Becomes(r, record) == Others(r) /\ request'[r] = record

\* A request that takes another record leaves the other requests alone.
LEMMA StepOfOne ==
    ASSUME Typed, NEW r \in Requests, NEW record \in Request,
           request' = [request EXCEPT ![r] = record]
    PROVE  request' \in [Requests -> Request] /\ Becomes(r, record)
  BY DEF Typed, Becomes, Others

\* Nothing is committed, and r holds nothing in an open transaction that it has
\* not found free.
Prepares(r) ==
    /\ order' = order
    /\ events' = events
    /\ request' \in [Requests -> Request]
    /\ Others(r)
    /\ \/ ~ InTransaction(r)'
       \/ /\ InTransaction(r)
          /\ request'[r].id = request[r].id
          /\ request'[r].type = request[r].type
          /\ Creates(r) => request'[r].key = request[r].key
       \/ /\ request'[r].type = "created"
          /\ request'[r].id \in UnusedIDs
          /\ ~ KeyIsLocked(r, request'[r].key)
          /\ WithKey(request'[r].key) = {}
       \/ /\ request'[r].type \in Targets
          /\ ~ RowIsLocked(r, request'[r].id)
          /\ order[request'[r].id].status = "pending"

\* A request that is answered is idle again.
LEMMA FinishEffect ==
    ASSUME Typed, NEW r \in Requests, Finish(r)
    PROVE  request' \in [Requests -> Request] /\ Becomes(r, Idle)
<1>1. Idle \in Request
  BY DEF Request
<1> QED
  BY <1>1, StepOfOne DEF Finish

\* Every step but a commit prepares one.
LEMMA PrepareEffect ==
    ASSUME Typed, NEW r \in Requests,
           \/ StartCreate(r) \/ Insert(r) \/ InsertDuplicate(r)
           \/ StartTransition(r) \/ Find(r) \/ Update(r)
           \/ AppendEvent(r) \/ Rollback(r)
    PROVE  Prepares(r)
<1>1. ASSUME order' = order, events' = events, Finish(r)
      PROVE  Prepares(r)
  <2>1. request' \in [Requests -> Request] /\ Becomes(r, Idle)
    BY <1>1, FinishEffect
  <2>2. ~ InTransaction(r)'
    BY <2>1 DEF Becomes, Idle, InTransaction
  <2> QED
    BY <1>1, <2>1, <2>2 DEF Prepares, Becomes
<1>2. CASE StartCreate(r)
  <2>1. PICK u \in Users, a \in Amounts, k \in AnyKey :
            request' = [request EXCEPT ![r] =
                [pc |-> "insert", type |-> "created",
                 user |-> u, amount |-> a, key |-> k]]
    BY <1>2 DEF StartCreate, AnyKey
  <2> DEFINE record == [pc |-> "insert", type |-> "created",
                        user |-> u, amount |-> a, key |-> k]
  <2>2. record \in Request
    BY DEF Request, Asked
  <2>3. request' \in [Requests -> Request] /\ Becomes(r, record)
    BY <2>1, <2>2, StepOfOne
  <2>4. ~ InTransaction(r)'
    BY <2>3 DEF Becomes, InTransaction
  <2> QED
    BY <1>2, <2>3, <2>4 DEF Prepares, StartCreate, Becomes
<1>3. CASE Insert(r)
  <2>1. request[r] \in Asked
    BY <1>3, RecordOf DEF Insert
  <2>2. PICK o \in UnusedIDs :
            request' = [request EXCEPT ![r] =
              [pc |-> "append", type |-> "created", id |-> o,
               user |-> request[r].user, amount |-> request[r].amount,
               key |-> request[r].key]]
    BY <1>3 DEF Insert, Typed
  <2> DEFINE record == [pc |-> "append", type |-> "created", id |-> o,
                        user |-> request[r].user,
                        amount |-> request[r].amount, key |-> request[r].key]
  <2>3. record \in Request
    BY <2>1 DEF Request, Asked, Placing, UnusedIDs
  <2>4. request' \in [Requests -> Request] /\ Becomes(r, record)
    BY <2>2, <2>3, StepOfOne
  <2>5. /\ request'[r].type = "created"
        /\ request'[r].id = o
        /\ request'[r].key = request[r].key
    BY <2>4 DEF Becomes
  <2>6. /\ ~ KeyIsLocked(r, request[r].key)
        /\ WithKey(request[r].key) = {}
        /\ order' = order /\ events' = events
    BY <1>3 DEF Insert
  <2> QED
    BY <2>4, <2>5, <2>6 DEF Prepares, Becomes
<1>4. CASE InsertDuplicate(r)
  BY <1>1, <1>4 DEF InsertDuplicate
<1>5. CASE StartTransition(r)
  <2>1. PICK p \in Principals, target \in Targets, o \in Orders :
            request' = [request EXCEPT ![r] =
                [pc |-> "find", type |-> target, principal |-> p, id |-> o]]
    BY <1>5 DEF StartTransition
  <2> DEFINE record == [pc |-> "find", type |-> target, principal |-> p, id |-> o]
  <2>2. record \in Request
    BY DEF Request, Looking
  <2>3. request' \in [Requests -> Request] /\ Becomes(r, record)
    BY <2>1, <2>2, StepOfOne
  <2>4. ~ InTransaction(r)'
    BY <2>3 DEF Becomes, InTransaction
  <2> QED
    BY <1>5, <2>3, <2>4 DEF Prepares, StartTransition, Becomes
<1>6. CASE Find(r)
  <2>1. CASE Finish(r)
    BY <1>1, <1>6, <2>1 DEF Find
  <2>2. CASE ~ Finish(r)
    <3>1. request[r] \in Looking
      BY <1>6, RecordOf DEF Find
    <3> DEFINE record == [pc |-> "update", type |-> request[r].type,
                          id |-> request[r].id]
    <3>2. request' = [request EXCEPT ![r] = record]
      BY <1>6, <2>2 DEF Find, Typed
    <3>3. record \in Request
      BY <3>1 DEF Request, Looking, Closing
    <3>4. request' \in [Requests -> Request] /\ Becomes(r, record)
      BY <3>2, <3>3, StepOfOne
    <3>5. ~ InTransaction(r)'
      BY <3>4 DEF Becomes, InTransaction
    <3> QED
      BY <1>6, <3>4, <3>5 DEF Prepares, Find, Becomes
  <2> QED
    BY <2>1, <2>2
<1>7. CASE Update(r)
  <2>1. CASE Finish(r)
    BY <1>1, <1>7, <2>1 DEF Update
  <2>2. CASE ~ Finish(r)
    <3>1. request[r] \in Closing
      BY <1>7, RecordOf DEF Update
    <3>2. IsPending(r) /\ Advance(r, "append")
      BY <1>7, <2>2 DEF Update
    <3> DEFINE record == [request[r] EXCEPT !.pc = "append"]
    <3>3. record \in Closing
      BY <3>1 DEF Closing
    <3>4. request' \in [Requests -> Request] /\ Becomes(r, record)
      BY <3>2, <3>3, StepOfOne DEF Advance, Request
    <3>5. /\ request'[r].type = request[r].type
          /\ request'[r].id = request[r].id
          /\ request[r].type \in Targets
      BY <3>1, <3>4 DEF Becomes, Closing
    <3> QED
      BY <1>7, <3>2, <3>4, <3>5 DEF Prepares, Update, Becomes, IsPending
  <2> QED
    BY <2>1, <2>2
<1>8. CASE AppendEvent(r)
  <2> DEFINE record == [request[r] EXCEPT !.pc = "commit"]
  <2>1. InTransaction(r) /\ request[r].pc = "append"
    BY <1>8 DEF AppendEvent, InTransaction
  <2>2. request' = [request EXCEPT ![r] = record]
    BY <1>8 DEF AppendEvent, Advance
  <2>3. CASE request[r].type = "created"
    <3>1. request[r] \in Placing
      BY <2>1, <2>3, RecordOf
    <3>2. record \in Request
      BY <3>1 DEF Placing, Request
    <3>3. request' \in [Requests -> Request] /\ Becomes(r, record)
      BY <2>2, <3>2, StepOfOne
    <3>4. /\ request'[r].id = request[r].id
          /\ request'[r].type = request[r].type
          /\ request'[r].key = request[r].key
      BY <3>1, <3>3 DEF Becomes, Placing
    <3> QED
      BY <1>8, <2>1, <3>3, <3>4 DEF Prepares, AppendEvent, Becomes
  <2>4. CASE request[r].type # "created"
    <3>1. request[r] \in Closing
      BY <2>1, <2>4, RecordOf
    <3>2. record \in Request
      BY <3>1 DEF Closing, Request
    <3>3. request' \in [Requests -> Request] /\ Becomes(r, record)
      BY <2>2, <3>2, StepOfOne
    <3>4. /\ request'[r].id = request[r].id
          /\ request'[r].type = request[r].type
          /\ ~ Creates(r)
      BY <2>4, <3>1, <3>3 DEF Becomes, Closing, Creates
    <3> QED
      BY <1>8, <2>1, <3>3, <3>4 DEF Prepares, AppendEvent, Becomes
  <2> QED
    BY <2>3, <2>4
<1>9. CASE Rollback(r)
  BY <1>1, <1>9 DEF Rollback
<1> QED
  BY <1>2, <1>3, <1>4, <1>5, <1>6, <1>7, <1>8, <1>9

\* A commit replaces one row, adds one event and ends the request.
Commits(r) ==
    /\ InTransaction(r)
    /\ request' \in [Requests -> Request]
    /\ Becomes(r, Idle)
    /\ order' = [order EXCEPT ![request[r].id] = Written(r)]
    /\ events' = [events EXCEPT ![<<request[r].type, request[r].id>>] =
                      IF @ < 2 THEN @ + 1 ELSE @]

\* Both outcomes of Commit commit.
LEMMA CommitEffect ==
    ASSUME Typed, NEW r \in Requests, Commit(r, TRUE) \/ Commit(r, FALSE)
    PROVE  Commits(r)
<1>1. Finish(r) /\ InTransaction(r)
  BY DEF Commit, InTransaction
<1> QED
  BY <1>1, FinishEffect DEF Commit, Commits

\* What it writes is a row: a pending order with the arguments of the request,
\* or the order as it was with its final status.
LEMMA WrittenRow ==
    ASSUME Typed, NEW r \in Requests, InTransaction(r)
    PROVE  /\ Written(r) \in Row
           /\ request[r].type = "created" =>
                 /\ Written(r).status = "pending"
                 /\ Written(r).user = request[r].user
                 /\ Written(r).amount = request[r].amount
                 /\ Written(r).key = request[r].key
           /\ request[r].type # "created" =>
                 /\ Written(r).status = request[r].type
                 /\ request[r].type \in Targets
                 /\ Written(r).user = order[request[r].id].user
                 /\ Written(r).amount = order[request[r].id].amount
                 /\ Written(r).key = order[request[r].id].key
<1>1. CASE request[r].type = "created"
  <2>1. request[r] \in Placing
    BY <1>1, RecordOf
  <2> QED
    BY <1>1, <2>1 DEF Written, Placing, Row, AnyKey
<1>2. CASE request[r].type # "created"
  <2>1. request[r] \in Closing
    BY <1>2, RecordOf
  <2>2. order[request[r].id] \in Row /\ request[r].type \in Targets
    BY <2>1 DEF Typed, Closing
  <2> QED
    BY <1>2, <2>2 DEF Written, Row, Targets
<1> QED
  BY <1>1, <1>2

-----------------------------------------------------------------------------
\* A step of a request that commits nothing keeps what the transactions have
\* found and the exclusion of their locks.
LEMMA PrepareKeepsLocks ==
    ASSUME IInv, NEW r \in Requests, Prepares(r)
    PROVE  LocksExclude' /\ WritesStand'
<1>1. /\ order' = order
      /\ \A q \in Requests \ {r} : request'[q] = request[q]
  BY DEF Prepares, Others
<1>2. /\ \A q \in Requests \ {r} : InTransaction(q)' <=> InTransaction(q)
      /\ \A q \in Requests \ {r} : Creates(q)' <=> Creates(q)
  BY <1>1 DEF InTransaction, Creates
<1>3. /\ \A o \in Orders : Exists(o)' <=> Exists(o)
      /\ \A k \in AnyKey : WithKey(k)' = WithKey(k)
  BY <1>1 DEF Exists, WithKey
<1>4. ASSUME NEW q \in Requests \ {r}, InTransaction(r)', InTransaction(q)
      PROVE  /\ request'[r].id # request[q].id
             /\ Creates(r)' /\ Creates(q) /\ request'[r].key = request[q].key
                    => request[q].key = NoKey
  <2>1. CASE /\ InTransaction(r)
             /\ request'[r].id = request[r].id
             /\ request'[r].type = request[r].type
             /\ Creates(r) => request'[r].key = request[r].key
    <3>1. Creates(r)' => Creates(r) /\ request'[r].key = request[r].key
      BY <2>1 DEF Creates
    <3> QED
      BY <1>4, <2>1, <3>1 DEF IInv, LocksExclude
  <2>2. CASE /\ request'[r].type = "created"
             /\ request'[r].id \in UnusedIDs
             /\ ~ KeyIsLocked(r, request'[r].key)
    <3>1. request'[r].id # request[q].id
      BY <1>4, <2>2 DEF UnusedIDs, Holds, InTransaction
    <3>2. Creates(q) /\ request'[r].key # NoKey
              => request[q].key # request'[r].key
      BY <1>4, <2>2 DEF KeyIsLocked, HoldsKey, Creates, InTransaction
    <3> QED
      BY <3>1, <3>2
  <2>3. CASE /\ request'[r].type \in Targets
             /\ ~ RowIsLocked(r, request'[r].id)
    <3>1. request'[r].id # request[q].id
      BY <1>4, <2>3 DEF RowIsLocked, Holds, InTransaction
    <3>2. ~ Creates(r)'
      BY <2>3 DEF Creates, Targets
    <3> QED
      BY <3>1, <3>2
  <2> QED
    BY <1>4, <2>1, <2>2, <2>3 DEF Prepares
<1>5. LocksExclude'
  <2> SUFFICES ASSUME NEW p \in Requests, NEW q \in Requests, p # q,
                      InTransaction(p)', InTransaction(q)'
               PROVE  /\ request'[p].id # request'[q].id
                      /\ Creates(p)' /\ Creates(q)'
                         /\ request'[p].key = request'[q].key
                             => request'[p].key = NoKey
    BY DEF LocksExclude
  <2>1. CASE p # r /\ q # r
    BY <1>1, <1>2, <2>1 DEF IInv, LocksExclude
  <2>2. CASE p = r
    <3>1. q \in Requests \ {r} /\ request'[q] = request[q]
      BY <1>1, <2>2
    <3> QED
      BY <1>2, <1>4, <2>2, <3>1
  <2>3. CASE q = r
    <3>1. p \in Requests \ {r} /\ request'[p] = request[p]
      BY <1>1, <2>3
    <3> QED
      BY <1>2, <1>4, <2>3, <3>1
  <2> QED
    BY <2>1, <2>2, <2>3
<1>6. WritesStand'
  <2> SUFFICES ASSUME NEW q \in Requests, InTransaction(q)'
               PROVE  IF request'[q].type = "created"
                      THEN /\ ~ Exists(request[q].id)'
                           /\ WithKey(request[q].key)' = {}
                      ELSE order'[request'[q].id].status = "pending"
    BY DEF WritesStand
  <2>1. CASE q # r
    <3>1. InTransaction(q) /\ request'[q] = request[q]
      BY <1>1, <1>2, <2>1
    <3> QED
      BY <1>1, <3>1 DEF IInv, WritesStand, Exists, WithKey
  <2>2. CASE q = r
    <3>1. CASE /\ InTransaction(r)
               /\ request'[r].id = request[r].id
               /\ request'[r].type = request[r].type
               /\ Creates(r) => request'[r].key = request[r].key
      BY <1>1, <2>2, <3>1 DEF IInv, WritesStand, Exists, WithKey, Creates
    <3>2. CASE /\ request'[r].type = "created"
               /\ request'[r].id \in UnusedIDs
               /\ WithKey(request'[r].key) = {}
      BY <1>1, <2>2, <3>2 DEF UnusedIDs, Exists, WithKey
    <3>3. CASE /\ request'[r].type \in Targets
               /\ order[request'[r].id].status = "pending"
      BY <1>1, <2>2, <3>3 DEF Targets
    <3> QED
      BY <2>2, <3>1, <3>2, <3>3 DEF Prepares
  <2> QED
    BY <2>1, <2>2
<1> QED
  BY <1>5, <1>6

\* What a commit makes of the tables, in terms of what it found.
LEMMA CommitWrites ==
    ASSUME IInv, NEW r \in Requests, Commits(r)
    PROVE  LET o == request[r].id
           IN  /\ o \in Orders
               /\ order' \in [Orders -> Row]
               /\ order'[o] = Written(r)
               /\ \A p \in Orders \ {o} : order'[p] = order[p]
               /\ order[o].status = IF request[r].type = "created"
                                    THEN "none" ELSE "pending"
               /\ order'[o].status = IF request[r].type = "created"
                                     THEN "pending" ELSE request[r].type
               /\ events[<<request[r].type, o>>] = 0
               /\ events' = [events EXCEPT ![<<request[r].type, o>>] = @ + 1]
<1> DEFINE o == request[r].id
           type == request[r].type
<1>1. o \in Orders /\ type \in Types
  BY RecordOf DEF IInv, Commits
<1>2. order' = [order EXCEPT ![o] = Written(r)] /\ order \in [Orders -> Row]
  BY DEF Commits, IInv, Typed
<1>3. /\ order' \in [Orders -> Row]
      /\ order'[o] = Written(r)
      /\ \A p \in Orders \ {o} : order'[p] = order[p]
  <2>1. Written(r) \in Row
    BY WrittenRow DEF IInv, Commits
  <2> QED
    BY <1>1, <1>2, <2>1
<1>4. order[o].status = IF type = "created" THEN "none" ELSE "pending"
  BY DEF Commits, IInv, WritesStand, Exists
<1>5. order'[o].status = IF type = "created" THEN "pending" ELSE type
  BY <1>3, WrittenRow DEF IInv, Commits
<1>6. events[<<type, o>>] = 0
  <2>1. CASE type = "created"
    BY <1>1, <1>4, <2>1 DEF IInv, EventsMatch, Exists
  <2>2. CASE type # "created"
    BY <1>1, <1>4, <2>2 DEF IInv, EventsMatch, Targets, Types
  <2> QED
    BY <2>1, <2>2
<1>7. events' = [events EXCEPT ![<<type, o>>] = @ + 1]
  <2>1. events' = [events EXCEPT ![<<type, o>>] =
            IF events[<<type, o>>] < 2
            THEN events[<<type, o>>] + 1 ELSE events[<<type, o>>]]
    BY DEF Commits
  <2> QED
    BY <1>6, <2>1
<1> QED
  BY <1>1, <1>3, <1>4, <1>5, <1>6, <1>7

\* An order keeps its key for good, and a commit gives a key to the order it
\* creates at most.
LEMMA CommitKeys ==
    ASSUME IInv, NEW r \in Requests, Commits(r)
    PROVE  \A k \in AnyKey :
              /\ WithKey(k) \subseteq WithKey(k)'
              /\ WithKey(k)' \subseteq WithKey(k) \union {request[r].id}
              /\ WithKey(k)' # WithKey(k) =>
                    Creates(r) /\ k = request[r].key /\ k # NoKey
<1> DEFINE o == request[r].id
<1>1. /\ o \in Orders
      /\ order'[o] = Written(r)
      /\ \A p \in Orders \ {o} : order'[p] = order[p]
      /\ order[o].status = IF request[r].type = "created"
                           THEN "none" ELSE "pending"
      /\ order'[o].status = IF request[r].type = "created"
                            THEN "pending" ELSE request[r].type
  BY CommitWrites
<1>2. InTransaction(r) /\ Typed
  BY DEF Commits, IInv
<1> HIDE DEF o
<1>3. CASE request[r].type = "created"
  <2>1. order'[o].key = request[r].key /\ Creates(r)
    BY <1>1, <1>2, <1>3, WrittenRow DEF Creates
  <2> QED
    BY <1>1, <1>3, <2>1 DEF WithKey, Exists, o
<1>4. CASE request[r].type # "created"
  <2>1. order'[o].key = order[o].key /\ request[r].type \in Targets
    BY <1>1, <1>2, <1>4, WrittenRow DEF o
  <2>2. \A p \in Orders : /\ order'[p].key = order[p].key
                          /\ Exists(p)' <=> Exists(p)
    BY <1>1, <1>4, <2>1 DEF Exists, Targets
  <2> QED
    BY <2>2 DEF WithKey
<1> QED
  BY <1>3, <1>4

\* A commit keeps the exclusion of the locks, and what the other transactions
\* have found: their rows and keys are not those of this one.
LEMMA CommitKeepsLocks ==
    ASSUME IInv, NEW r \in Requests, Commits(r)
    PROVE  LocksExclude' /\ WritesStand'
<1>1. /\ \A q \in Requests \ {r} : request'[q] = request[q]
      /\ request'[r] = Idle
      /\ InTransaction(r)
  BY DEF Commits, Becomes, Others
<1>2. /\ \A q \in Requests : InTransaction(q)' =>
            /\ q # r /\ InTransaction(q) /\ request'[q] = request[q]
            /\ Creates(q)' <=> Creates(q)
  BY <1>1 DEF InTransaction, Creates, Idle
<1>3. LocksExclude'
  BY <1>2 DEF LocksExclude, IInv
<1>4. ASSUME NEW q \in Requests, InTransaction(q)'
      PROVE  IF request'[q].type = "created"
             THEN ~ Exists(request[q].id)' /\ WithKey(request[q].key)' = {}
             ELSE order'[request[q].id].status = "pending"
  <2>1. /\ q # r /\ InTransaction(q) /\ request'[q] = request[q]
        /\ request[q].id # request[r].id
        /\ Creates(q) /\ Creates(r) /\ request[q].key = request[r].key
              => request[q].key = NoKey
    BY <1>1, <1>2, <1>4 DEF IInv, LocksExclude
  <2>2. request[q].id \in Orders
    BY <2>1, RecordOf DEF IInv
  <2>3. order'[request[q].id] = order[request[q].id]
    BY <2>1, <2>2, CommitWrites
  <2>4. CASE request[q].type = "created"
    <3>1. Creates(q) /\ request[q].key \in AnyKey
      BY <2>1, <2>4, RecordOf DEF IInv, Creates, Placing
    <3>2. WithKey(request[q].key) = {} /\ ~ Exists(request[q].id)
      BY <2>1, <2>4 DEF IInv, WritesStand
    <3>3. WithKey(request[q].key)' = {}
      <4>1. ASSUME NEW k \in AnyKey, k = request[q].key, k # NoKey
            PROVE  WithKey(k)' = WithKey(k)
        BY <2>1, <3>1, <4>1, CommitKeys
      <4>2. ASSUME NEW k \in AnyKey, k = NoKey
            PROVE  WithKey(k)' = {}
        BY <4>2 DEF WithKey
      <4>3. \A k \in AnyKey : k = request[q].key => WithKey(k)' = {}
        BY <3>2, <4>1, <4>2
      <4> DEFINE k == request'[q].key
      <4>4. k \in AnyKey /\ k = request[q].key
        BY <2>1, <3>1
      <4>5. {p \in Orders : k # NoKey /\ Exists(p)' /\ order'[p].key = k} = {}
        BY <4>3, <4>4 DEF WithKey
      <4> QED
        BY <4>5 DEF WithKey
    <3>4. ~ Exists(request[q].id)'
      BY <2>1, <2>3, <3>2 DEF Exists
    <3> QED
      BY <2>1, <2>4, <3>3, <3>4
  <2>5. CASE request[q].type # "created"
    <3>1. order[request[q].id].status = "pending"
      BY <2>1, <2>5 DEF IInv, WritesStand
    <3> QED
      BY <2>1, <2>3, <2>5, <3>1
  <2> QED
    BY <2>4, <2>5
<1>5. WritesStand'
  BY <1>2, <1>4 DEF WritesStand
<1> QED
  BY <1>3, <1>5

\* The event of a commit is the one its new status calls for.
LEMMA CommitKeepsEvents ==
    ASSUME IInv, NEW r \in Requests, Commits(r)
    PROVE  EventsMatch' /\ events' \in [Types \X Orders -> 0 .. 2]
<1> DEFINE o == request[r].id
           type == request[r].type
<1>1. o \in Orders /\ type \in Types
  BY RecordOf DEF IInv, Commits
<1>2. /\ \A p \in Orders \ {o} : order'[p] = order[p]
      /\ order[o].status = IF type = "created" THEN "none" ELSE "pending"
      /\ order'[o].status = IF type = "created" THEN "pending" ELSE type
      /\ events[<<type, o>>] = 0
      /\ events' = [events EXCEPT ![<<type, o>>] = @ + 1]
  BY CommitWrites
<1>3. events \in [Types \X Orders -> 0 .. 2]
  BY DEF IInv, Typed
<1> HIDE DEF o, type
<1>4. /\ events'[<<type, o>>] = 1
      /\ \A e \in Types \X Orders : e # <<type, o>> => events'[e] = events[e]
      /\ events' \in [Types \X Orders -> 0 .. 2]
  BY <1>1, <1>2, <1>3
<1>5. ASSUME NEW p \in Orders, p # o
      PROVE  /\ events'[<<"created", p>>] = IF Exists(p)' THEN 1 ELSE 0
             /\ \A target \in Targets :
                  events'[<<target, p>>] =
                      IF order'[p].status = target THEN 1 ELSE 0
  <2>1. \A t \in Types : events'[<<t, p>>] = events[<<t, p>>]
    BY <1>1, <1>4, <1>5
  <2>2. Targets \subseteq Types /\ "created" \in Types
    BY DEF Types
  <2> QED
    BY <1>2, <1>5, <2>1, <2>2 DEF IInv, EventsMatch, Exists
<1>6. ASSUME NEW p \in Orders, p = o
      PROVE  /\ events'[<<"created", p>>] = IF Exists(p)' THEN 1 ELSE 0
             /\ \A target \in Targets :
                  events'[<<target, p>>] =
                      IF order'[p].status = target THEN 1 ELSE 0
  <2>1. \A t \in Types : events'[<<t, o>>] =
            IF t = type THEN 1 ELSE events[<<t, o>>]
    BY <1>1, <1>4
  <2>2. /\ events[<<"created", o>>] = IF type = "created" THEN 0 ELSE 1
        /\ \A target \in Targets : events[<<target, o>>] = 0
    <3>1. \A target \in Targets : order[o].status # target
      BY <1>2 DEF Targets
    <3>2. Exists(o) <=> type # "created"
      BY <1>2 DEF Exists
    <3> QED
      BY <1>1, <3>1, <3>2 DEF IInv, EventsMatch
  <2>3. Exists(p)'
    BY <1>1, <1>2, <1>6 DEF Exists, Types, Targets
  <2>4. CASE type = "created"
    BY <1>2, <1>6, <2>1, <2>2, <2>3, <2>4 DEF Types, Targets
  <2>5. CASE type # "created"
    BY <1>1, <1>2, <1>6, <2>1, <2>2, <2>3, <2>5 DEF Types, Targets
  <2> QED
    BY <2>4, <2>5
<1> QED
  BY <1>4, <1>5, <1>6 DEF EventsMatch

\* Nothing that was true of an order with a key stops to be so: a commit leaves
\* its user and amount alone, and the final status of a closed one.
LEMMA CommitKeepsOrders ==
    ASSUME IInv, NEW r \in Requests, Commits(r)
    PROVE  \A o \in Orders :
              /\ Exists(o) => /\ Exists(o)'
                              /\ order'[o].user = order[o].user
                              /\ order'[o].amount = order[o].amount
              /\ order[o].status \in Targets =>
                              order'[o].status = order[o].status
<1>1. /\ request[r].id \in Orders
      /\ order'[request[r].id] = Written(r)
      /\ \A p \in Orders \ {request[r].id} : order'[p] = order[p]
      /\ order[request[r].id].status = IF request[r].type = "created"
                                       THEN "none" ELSE "pending"
      /\ order'[request[r].id].status = IF request[r].type = "created"
                                        THEN "pending" ELSE request[r].type
  BY CommitWrites
<1>2. InTransaction(r) /\ Typed
  BY DEF Commits, IInv
<1>3. CASE request[r].type = "created"
  BY <1>1, <1>3 DEF Exists, Targets
<1>4. CASE request[r].type # "created"
  <2>1. /\ request[r].type \in Targets
        /\ Written(r).user = order[request[r].id].user
        /\ Written(r).amount = order[request[r].id].amount
    BY <1>2, <1>4, WrittenRow
  <2> QED
    BY <1>1, <1>4, <2>1 DEF Exists, Targets
<1> QED
  BY <1>3, <1>4

\* The commit gives its key to an order only if no order had it.
LEMMA CommitKeepsKeys ==
    ASSUME IInv, NEW r \in Requests, Commits(r)
    PROVE  KeyNamesOneOrder'
<1> SUFFICES ASSUME NEW o \in Orders, NEW p \in Orders, NEW k \in Keys,
                    o \in WithKey(k)', p \in WithKey(k)'
             PROVE  o = p
  BY DEF KeyNamesOneOrder
<1>1. /\ WithKey(k)' \subseteq WithKey(k) \union {request[r].id}
      /\ WithKey(k)' # WithKey(k) => Creates(r) /\ k = request[r].key
  BY CommitKeys DEF AnyKey
<1>2. CASE WithKey(k)' = WithKey(k)
  BY <1>2 DEF IInv, KeyNamesOneOrder
<1>3. CASE Creates(r) /\ k = request[r].key
  <2>1. WithKey(k) = {}
    BY <1>3 DEF IInv, WritesStand, Creates
  <2> QED
    BY <1>1, <2>1
<1> QED
  BY <1>1, <1>2, <1>3

-----------------------------------------------------------------------------
\* An answer to a creation with a key: the order o has that key and was placed
\* with those arguments, before and after the step.
LEMMA PlacedEffect ==
    ASSUME IInv, NEW r \in Requests,
           \/ InsertDuplicate(r)
           \/ Commit(r, TRUE) \/ Commit(r, FALSE)
    PROVE  \A a \in placed' \ placed :
              /\ a \in Placement
              /\ a.id \in WithKey(a.key)'
              /\ order'[a.id].user = a.user
              /\ order'[a.id].amount = a.amount
<1> SUFFICES ASSUME NEW a \in placed', a \notin placed
             PROVE  /\ a \in Placement
                    /\ a.id \in WithKey(a.key)'
                    /\ order'[a.id].user = a.user
                    /\ order'[a.id].amount = a.amount
  OBVIOUS
<1>1. CASE InsertDuplicate(r)
  <2>1. PICK o \in WithKey(request[r].key) :
            IF SameArguments(r, o) THEN AnswerPlaced(r, o)
                                   ELSE UNCHANGED placed
    BY <1>1 DEF InsertDuplicate
  <2>2. /\ SameArguments(r, o)
        /\ request[r].key # NoKey
        /\ a = [id |-> o, key |-> request[r].key,
                user |-> request[r].user, amount |-> request[r].amount]
    BY <2>1 DEF AnswerPlaced
  <2>3. request[r] \in Asked
    BY <1>1, RecordOf DEF InsertDuplicate, IInv
  <2>4. a \in Placement
    BY <2>2, <2>3 DEF Asked, AnyKey, Placement, WithKey
  <2>5. order' = order
    BY <1>1 DEF InsertDuplicate
  <2>6. a.id \in WithKey(a.key)
    BY <2>2
  <2> QED
    BY <2>2, <2>4, <2>5, <2>6 DEF SameArguments, WithKey, Exists
<1>2. CASE Commit(r, TRUE) \/ Commit(r, FALSE)
  <2> DEFINE o == request[r].id
  <2>1. Commits(r) /\ Typed /\ InTransaction(r)
    BY <1>2, CommitEffect DEF IInv, Commits
  <2>2. /\ request[r].type = "created"
        /\ request[r].key # NoKey
        /\ a = [id |-> o, key |-> request[r].key,
                user |-> request[r].user, amount |-> request[r].amount]
    BY <1>2 DEF Commit, AnswerPlaced
  <2>3. request[r] \in Placing
    BY <2>1, <2>2, RecordOf
  <2>4. a \in Placement
    BY <2>2, <2>3 DEF Placing, AnyKey, Placement
  <2>5. order'[o] = Written(r)
    BY <2>1, CommitWrites
  <2>6. /\ Written(r).status = "pending"
        /\ Written(r).user = request[r].user
        /\ Written(r).amount = request[r].amount
        /\ Written(r).key = request[r].key
    BY <2>1, <2>2, WrittenRow
  <2> HIDE DEF o
  <2>7. /\ order'[a.id].status = "pending"
        /\ order'[a.id].user = a.user
        /\ order'[a.id].amount = a.amount
        /\ order'[a.id].key = a.key
    BY <2>2, <2>5, <2>6
  <2> QED
    BY <2>2, <2>4, <2>7 DEF WithKey, Exists, Placement
<1> QED
  BY <1>1, <1>2

\* An answer to a payment or a cancellation: the order has that status.
LEMMA ClosedEffect ==
    ASSUME IInv, NEW r \in Requests,
           \/ Update(r)
           \/ Commit(r, TRUE) \/ Commit(r, FALSE)
    PROVE  \A c \in closed' \ closed :
              c \in Orders \X Targets /\ order'[c[1]].status = c[2]
<1> SUFFICES ASSUME NEW c \in closed', c \notin closed
             PROVE  c \in Orders \X Targets /\ order'[c[1]].status = c[2]
  OBVIOUS
<1>1. CASE Update(r)
  <2>1. /\ c = <<request[r].id, request[r].type>>
        /\ order[request[r].id].status = request[r].type
        /\ order' = order
    BY <1>1 DEF Update, AnswerClosed
  <2>2. request[r] \in Closing
    BY <1>1, RecordOf DEF Update, IInv
  <2> QED
    BY <2>1, <2>2 DEF Closing
<1>2. CASE Commit(r, TRUE) \/ Commit(r, FALSE)
  <2>1. Commits(r) /\ Typed /\ InTransaction(r)
    BY <1>2, CommitEffect DEF IInv, Commits
  <2>2. /\ c = <<request[r].id, request[r].type>>
        /\ request[r].type # "created"
    BY <1>2 DEF Commit, AnswerClosed
  <2>3. request[r] \in Closing
    BY <2>1, <2>2, RecordOf
  <2>4. order'[request[r].id].status = request[r].type
    BY <2>1, <2>2, CommitWrites
  <2> QED
    BY <2>2, <2>3, <2>4 DEF Closing
<1> QED
  BY <1>1, <1>2

\* What was answered before stays so.
LEMMA AnswersKept ==
    ASSUME IInv, NEW r \in Requests, Prepares(r) \/ Commits(r)
    PROVE  /\ \A a \in placed : /\ a.id \in WithKey(a.key)'
                                /\ order'[a.id].user = a.user
                                /\ order'[a.id].amount = a.amount
           /\ \A c \in closed : order'[c[1]].status = c[2]
<1>1. \A a \in placed : /\ a \in Placement
                        /\ a.id \in WithKey(a.key)
                        /\ order[a.id].user = a.user
                        /\ order[a.id].amount = a.amount
  BY DEF IInv, AnswersStand, Typed
<1>2. \A c \in closed : c[1] \in Orders /\ c[2] \in Targets
                        /\ order[c[1]].status = c[2]
  BY DEF IInv, AnswersStand, Typed
<1>3. CASE Prepares(r)
  <2>1. order' = order
    BY <1>3 DEF Prepares
  <2> QED
    BY <1>1, <1>2, <2>1 DEF WithKey, Exists
<1>4. CASE Commits(r)
  <2>1. ASSUME NEW a \in placed
        PROVE  /\ a.id \in WithKey(a.key)'
               /\ order'[a.id].user = a.user
               /\ order'[a.id].amount = a.amount
    <3>1. a.id \in Orders /\ a.key \in AnyKey
      BY <1>1 DEF Placement, AnyKey
    <3>2. Exists(a.id)
      BY <1>1 DEF WithKey
    <3>3. WithKey(a.key) \subseteq WithKey(a.key)'
      BY <1>4, <3>1, CommitKeys
    <3> QED
      BY <1>1, <1>4, <3>1, <3>2, <3>3, CommitKeepsOrders
  <2>2. ASSUME NEW c \in closed
        PROVE  order'[c[1]].status = c[2]
    BY <1>2, <1>4, CommitKeepsOrders
  <2> QED
    BY <2>1, <2>2
<1> QED
  BY <1>3, <1>4

\* The history variables change in few actions.
LEMMA HistoryEffect ==
    ASSUME IInv, NEW r \in Requests,
           \/ StartCreate(r) \/ Insert(r) \/ InsertDuplicate(r)
           \/ StartTransition(r) \/ Find(r) \/ Update(r)
           \/ AppendEvent(r) \/ Commit(r, TRUE) \/ Commit(r, FALSE)
           \/ Rollback(r)
    PROVE  /\ Prepares(r) \/ Commits(r)
           /\ \A a \in placed' \ placed :
                 /\ a \in Placement
                 /\ a.id \in WithKey(a.key)'
                 /\ order'[a.id].user = a.user
                 /\ order'[a.id].amount = a.amount
           /\ \A c \in closed' \ closed :
                 c \in Orders \X Targets /\ order'[c[1]].status = c[2]
<1>1. Prepares(r) \/ Commits(r)
  BY PrepareEffect, CommitEffect DEF IInv
<1>2. \/ placed' = placed
      \/ InsertDuplicate(r) \/ Commit(r, TRUE) \/ Commit(r, FALSE)
  BY DEF StartCreate, Insert, StartTransition, Find, Update, AppendEvent,
         Rollback
<1>3. \/ closed' = closed
      \/ Update(r) \/ Commit(r, TRUE) \/ Commit(r, FALSE)
  BY DEF StartCreate, Insert, InsertDuplicate, StartTransition, Find,
         AppendEvent, Rollback
<1> QED
  BY <1>1, <1>2, <1>3, PlacedEffect, ClosedEffect

-----------------------------------------------------------------------------
\* Nothing is stored and nothing in progress.
LEMMA InitIInv == Init => IInv
<1> SUFFICES ASSUME Init PROVE IInv
  OBVIOUS
<1>1. NoRow \in Row /\ NoRow.status = "none"
  BY OrdersAssumption DEF NoRow, Row
<1>2. \A o \in Orders : order[o] = NoRow /\ ~ Exists(o)
  BY <1>1 DEF Init, Exists
<1>3. \A r \in Requests : request[r] = Idle /\ ~ InTransaction(r)
  BY DEF Init, Idle, InTransaction
<1>4. Typed
  BY <1>1 DEF Init, Typed, Request
<1>5. LocksExclude /\ WritesStand
  BY <1>3 DEF LocksExclude, WritesStand
<1>6. EventsMatch
  <2>1. \A t \in Types, o \in Orders : events[<<t, o>>] = 0
    BY DEF Init
  <2>2. \A o \in Orders, t \in Targets : order[o].status # t
    BY <1>1, <1>2 DEF Targets
  <2> QED
    BY <1>2, <2>1, <2>2 DEF EventsMatch, Types
<1>7. KeyNamesOneOrder
  BY <1>2 DEF KeyNamesOneOrder, WithKey
<1>8. AnswersStand
  BY DEF Init, AnswersStand
<1> QED
  BY <1>4, <1>5, <1>6, <1>7, <1>8 DEF IInv

\* Each step of each request keeps the invariant.
LEMMA NextIInv == IInv /\ [Next]_vars => IInv'
<1>1. ASSUME IInv, NEW r \in Requests,
             Prepares(r) \/ Commits(r),
             \A a \in placed' \ placed :
                 /\ a \in Placement
                 /\ a.id \in WithKey(a.key)'
                 /\ order'[a.id].user = a.user
                 /\ order'[a.id].amount = a.amount,
             \A c \in closed' \ closed :
                 c \in Orders \X Targets /\ order'[c[1]].status = c[2]
      PROVE  IInv'
  <2>1. /\ order' \in [Orders -> Row]
        /\ events' \in [Types \X Orders -> 0 .. 2]
        /\ request' \in [Requests -> Request]
    <3>1. CASE Prepares(r)
      BY <1>1, <3>1 DEF Prepares, IInv, Typed
    <3>2. CASE Commits(r)
      BY <1>1, <3>2, CommitWrites, CommitKeepsEvents DEF Commits
    <3> QED
      BY <1>1, <3>1, <3>2
  <2>2. placed' \subseteq Placement /\ closed' \subseteq Orders \X Targets
    BY <1>1 DEF IInv, Typed
  <2>3. LocksExclude' /\ WritesStand'
    BY <1>1, PrepareKeepsLocks, CommitKeepsLocks
  <2>4. EventsMatch'
    <3>1. CASE Prepares(r)
      BY <1>1, <3>1 DEF Prepares, IInv, EventsMatch, Exists
    <3>2. CASE Commits(r)
      BY <1>1, <3>2, CommitKeepsEvents
    <3> QED
      BY <1>1, <3>1, <3>2
  <2>5. KeyNamesOneOrder'
    <3>1. CASE Prepares(r)
      BY <1>1, <3>1 DEF Prepares, IInv, KeyNamesOneOrder, WithKey, Exists
    <3>2. CASE Commits(r)
      BY <1>1, <3>2, CommitKeepsKeys
    <3> QED
      BY <1>1, <3>1, <3>2
  <2>6. AnswersStand'
    BY <1>1, AnswersKept DEF AnswersStand
  <2> QED
    BY <2>1, <2>2, <2>3, <2>4, <2>5, <2>6 DEF IInv, Typed
<1>2. ASSUME IInv, UNCHANGED vars PROVE IInv'
  <2>1. Typed' /\ LocksExclude' /\ WritesStand' /\ EventsMatch'
    BY <1>2 DEF vars, IInv, Typed, LocksExclude, WritesStand, EventsMatch,
                InTransaction, Creates, Exists, WithKey
  <2>2. KeyNamesOneOrder' /\ AnswersStand'
    BY <1>2 DEF vars, IInv, KeyNamesOneOrder, AnswersStand, WithKey, Exists
  <2> QED
    BY <2>1, <2>2 DEF IInv
<1> QED
  BY <1>1, <1>2, HistoryEffect DEF Next

\* What the locks guarantee holds at all times.
LEMMA Invariance == Spec => []IInv
  BY InitIInv, NextIInv, PTL DEF Spec

\* The tables, the events and the answers are of their types, and a request
\* holds in each of its states what that state needs.
THEOREM TypeCorrect == Spec => []TypeOK
<1>1. IInv => TypeOK
  <2> SUFFICES ASSUME IInv, NEW r \in Requests
               PROVE  /\ request[r].pc \in PC
                      /\ request[r].pc # "idle" => request[r].type \in Types
                      /\ request[r].pc \notin {"idle", "insert"} =>
                            request[r].id \in Orders
    BY DEF IInv, Typed, TypeOK
  <2>1. request[r] \in Request
    BY DEF IInv, Typed
  <2> QED
    BY <2>1 DEF Request, Idle, Asked, Placing, Looking, Closing, PC, Types
<1> QED
  BY <1>1, Invariance, PTL

\* A key names one order, however many requests with the key are in progress,
\* repeated or rolled back: the index makes the second INSERT wait for the
\* first transaction and then fail.
THEOREM OneOrderForAKey == Spec => []KeyNamesOneOrder
<1>1. IInv => KeyNamesOneOrder
  BY DEF IInv
<1> QED
  BY <1>1, Invariance, PTL

\* What a client was answered stays true.
THEOREM AnswersHold == Spec => []AnswersStand
<1>1. IInv => AnswersStand
  BY DEF IInv
<1> QED
  BY <1>1, Invariance, PTL

-----------------------------------------------------------------------------
\* The commit of a creation places an order in the ledger, that of a payment or
\* a cancellation closes one; every other step leaves the ledger as it is.
LEMMA StepOfLedger == IInv /\ [Next]_vars => [Ledger!Next]_Ledger!vars
<1> DEFINE status == [o \in Orders |-> order[o].status]
<1>1. ASSUME IInv, NEW r \in Requests, Commits(r)
      PROVE  Ledger!Next
  <2> DEFINE o == request[r].id
  <2>1. /\ o \in Orders
        /\ \A p \in Orders \ {o} : order'[p] = order[p]
        /\ order[o].status = IF request[r].type = "created"
                             THEN "none" ELSE "pending"
        /\ order'[o].status = IF request[r].type = "created"
                              THEN "pending" ELSE request[r].type
        /\ events' = [events EXCEPT ![<<request[r].type, o>>] = @ + 1]
    BY <1>1, CommitWrites
  <2>2. request[r].type \in Types
    BY <1>1, RecordOf DEF Commits, IInv
  <2> HIDE DEF o
  <2>3. status' = [status EXCEPT ![o] = order'[o].status]
    <3>1. \A p \in Orders : status'[p] = order'[p].status
                            /\ status[p] = order[p].status
      OBVIOUS
    <3> QED
      BY <2>1, <3>1
  <2>4. status[o] = order[o].status
    BY <2>1
  <2>5. CASE request[r].type = "created"
    <3>1. status[o] = "none" /\ status' = [status EXCEPT ![o] = "pending"]
      BY <2>1, <2>3, <2>4, <2>5
    <3> QED
      BY <2>1, <2>5, <3>1 DEF Ledger!Next, Ledger!Place
  <2>6. CASE request[r].type # "created"
    <3>1. request[r].type \in Ledger!Targets
      BY <2>2, <2>6 DEF Types, Targets, Ledger!Targets
    <3>2. /\ status[o] = "pending"
          /\ status' = [status EXCEPT ![o] = request[r].type]
      BY <2>1, <2>3, <2>4, <2>6
    <3> QED
      BY <2>1, <2>6, <3>1, <3>2 DEF Ledger!Next, Ledger!Close
  <2> QED
    BY <2>5, <2>6
<1>2. ASSUME IInv, NEW r \in Requests, Prepares(r)
      PROVE  UNCHANGED Ledger!vars
  BY <1>2 DEF Prepares, Ledger!vars
<1>3. ASSUME UNCHANGED vars
      PROVE  UNCHANGED Ledger!vars
  BY <1>3 DEF vars, Ledger!vars
<1> QED
  BY <1>1, <1>2, <1>3, HistoryEffect DEF Next

\* The order service implements the ledger: orders are placed once and closed
\* once, each time with its one event.
THEOREM OrdersImplementLedger == Spec => ImplementsLedger
<1>1. Init => Ledger!Init
  <2> SUFFICES ASSUME Init PROVE Ledger!Init
    OBVIOUS
  <2>1. \A o \in Orders : order[o].status = "none"
    BY DEF Init, NoRow
  <2>2. [o \in Orders |-> order[o].status] = [o \in Orders |-> "none"]
    BY <2>1
  <2> QED
    BY <2>2 DEF Init, Ledger!Init, Types, Targets, Ledger!Types, Ledger!Targets
<1> QED
  BY <1>1, StepOfLedger, Invariance, PTL DEF Spec, ImplementsLedger, Ledger!Spec
=============================================================================
