------------------------------- MODULE Orders -------------------------------
(***************************************************************************)
(* Concurrent HTTP requests on orders: creation, with or without an        *)
(* Idempotency-Key, payment and cancellation, each a MySQL transaction     *)
(* that writes the order and its outbox event.                             *)
(*                                                                         *)
(* What a transaction has written stays in the record of its request, and  *)
(* locks the key and the row, until the commit copies it to the tables.    *)
(* An id whose transaction rolled back was never seen and is used again.   *)
(* A request answered with an error leaves its client free to try again.   *)
(***************************************************************************)
EXTENDS Integers, FiniteSets

CONSTANTS
    Users,      \* registered users
    Admin,      \* a principal with the admin role
    Keys,       \* values of the header Idempotency-Key
    NoKey,      \* the header is absent
    Amounts,
    Orders,     \* bound: primary keys of the table orders
    Requests    \* bound: requests in progress at the same time

ASSUME OrdersAssumption ==
    /\ Admin \notin Users
    /\ NoKey \notin Keys
    /\ Users # {} /\ Amounts # {}

VARIABLES
    order,      \* order[o] is the committed row of o
    events,     \* events[<<type, o>>] counts the committed outbox rows, up to 2
    request,    \* request[r] is the request in slot r
    placed,     \* history: the answers 200 and 201 to POST /orders
    closed      \* history: the answers 200 to pay and cancel

vars == <<order, events, request, placed, closed>>

Targets == {"paid", "cancelled"}

Types == Targets \union {"created"}

Principals == Users \union {Admin}

Row == [status : {"none", "pending", "paid", "cancelled"},
        user   : Users,
        amount : Amounts,
        key    : Keys \union {NoKey}]

PC == {"idle", "insert", "find", "update", "append", "commit"}

\* What a client that asked for an order with a key was answered.
Placement == [id : Orders, key : Keys, user : Users, amount : Amounts]

TypeOK ==
    /\ order \in [Orders -> Row]
    /\ events \in [Types \X Orders -> 0 .. 2]
    /\ \A r \in Requests :
        /\ request[r].pc \in PC
        /\ request[r].pc # "idle" => request[r].type \in Types
        /\ request[r].pc \notin {"idle", "insert"} => request[r].id \in Orders
    /\ placed \subseteq Placement
    /\ closed \subseteq Orders \X Targets

-----------------------------------------------------------------------------
CanAccess(principal, user) == principal = Admin \/ principal = user

Exists(o) == order[o].status # "none"

\* The request has written in a transaction that is still open.
Holds(r, o) == request[r].pc \in {"append", "commit"} /\ request[r].id = o

RowIsFree(r, o) == FALSE  \* faulty: transactions do not wait for each other

RowIsLocked(r, o) == \E q \in Requests \ {r} : Holds(q, o)

HoldsKey(r, key) ==
    /\ request[r].pc \in {"append", "commit"}
    /\ request[r].type = "created"
    /\ request[r].key = key

KeyIsFree(r, key) == FALSE  \* faulty: the key is looked up, and no index

KeyIsLocked(r, key) ==
    key # NoKey /\ \E q \in Requests \ {r} : HoldsKey(q, key)

\* NULL is no duplicate of NULL.
WithKey(key) ==
    {o \in Orders : key # NoKey /\ Exists(o) /\ order[o].key = key}

UnusedIDs ==
    {o \in Orders : ~Exists(o) /\ \A r \in Requests : ~Holds(r, o)}

Idle == [pc |-> "idle"]

Finish(r) == request' = [request EXCEPT ![r] = Idle]

Advance(r, pc) == request' = [request EXCEPT ![r].pc = pc]

\* The answer to a creation with a key; without one a client cannot ask again.
AnswerPlaced(r, o) ==
    placed' = IF request[r].key = NoKey THEN placed
              ELSE placed \union {[id |-> o, key |-> request[r].key,
                                   user |-> request[r].user,
                                   amount |-> request[r].amount]}

AnswerClosed(r) ==
    closed' = closed \union {<<request[r].id, request[r].type>>}

NoRow == [status |-> "none", user |-> CHOOSE u \in Users : TRUE,
          amount |-> CHOOSE a \in Amounts : TRUE, key |-> NoKey]

-----------------------------------------------------------------------------
Init ==
    /\ order = [o \in Orders |-> NoRow]
    /\ events = [e \in Types \X Orders |-> 0]
    /\ request = [r \in Requests |-> Idle]
    /\ placed = {}
    /\ closed = {}

\* POST /orders, up to the transaction.  A request for somebody else's account
\* is answered 403, one with bad input or an unknown user 400.
StartCreate(r) ==
    /\ request[r].pc = "idle"
    /\ \E p \in Principals, u \in Users, a \in Amounts, k \in Keys \union {NoKey} :
        /\ CanAccess(p, u)
        /\ request' = [request EXCEPT ![r] =
              [pc |-> "insert", type |-> "created",
               user |-> u, amount |-> a, key |-> k]]
    /\ UNCHANGED <<order, events, placed, closed>>

\* INSERT.  The unique index makes it wait for an open transaction that has
\* inserted the same key.
Insert(r) ==
    /\ request[r].pc = "insert"
    /\ ~KeyIsLocked(r, request[r].key)
    /\ WithKey(request[r].key) = {}
    /\ \E o \in UnusedIDs :
        /\ \A other \in UnusedIDs : o <= other
        /\ request' = [request EXCEPT ![r] =
              [pc |-> "append", type |-> "created", id |-> o,
               user |-> @.user, amount |-> @.amount, key |-> @.key]]
    /\ UNCHANGED <<order, events, placed, closed>>

SameAmount(r, o) ==  \* faulty: whoever placed the order
    order[o].amount = request[r].amount

SameArguments(r, o) ==
    /\ order[o].user = request[r].user
    /\ order[o].amount = request[r].amount

\* Error 1062, duplicate key: the existing order is the answer if it was asked
\* for with the same arguments, otherwise the request is answered 409.
InsertDuplicate(r) ==
    /\ request[r].pc = "insert"
    /\ ~KeyIsLocked(r, request[r].key)
    /\ \E o \in WithKey(request[r].key) :
        IF SameArguments(r, o)
        THEN AnswerPlaced(r, o)
        ELSE UNCHANGED placed
    /\ Finish(r)
    /\ UNCHANGED <<order, events, closed>>

\* POST /orders/{id}/pay and /cancel, up to the look-up of the order.
StartTransition(r) ==
    /\ request[r].pc = "idle"
    /\ \E p \in Principals, target \in Targets, o \in Orders :
        request' = [request EXCEPT ![r] =
            [pc |-> "find", type |-> target, principal |-> p, id |-> o]]
    /\ UNCHANGED <<order, events, placed, closed>>

\* 404 and 403 end the request.
Find(r) ==
    /\ request[r].pc = "find"
    /\ IF /\ Exists(request[r].id)
          /\ CanAccess(request[r].principal, order[request[r].id].user)
       THEN request' = [request EXCEPT ![r] =
                [pc |-> "update", type |-> @.type, id |-> @.id]]
       ELSE Finish(r)
    /\ UNCHANGED <<order, events, placed, closed>>

IsPending(r) == order[request[r].id].status = "pending"

\* UPDATE ... WHERE id = ? AND status = 'pending', which waits for the row, and
\* the SELECT behind it.  A row that has the status already is answered 200,
\* one in the other final status 409.
Update(r) ==
    /\ request[r].pc = "update"
    /\ ~RowIsLocked(r, request[r].id)
    /\ CASE IsPending(r) ->
                Advance(r, "append") /\ UNCHANGED closed
         [] order[request[r].id].status = request[r].type ->
                Finish(r) /\ AnswerClosed(r)
         [] OTHER ->
                Finish(r) /\ UNCHANGED closed
    /\ UNCHANGED <<order, events, placed>>

\* AppendTx: the event is inserted in the same transaction.
AppendEvent(r) ==
    /\ request[r].pc = "append"
    /\ Advance(r, "commit")
    /\ UNCHANGED <<order, events, placed, closed>>

WrittenType(r) ==  \* faulty: the name of the event as the status
    [status |-> request[r].type, user |-> order[request[r].id].user,
     amount |-> order[request[r].id].amount, key |-> NoKey]

Written(r) ==
    IF request[r].type = "created"
    THEN [status |-> "pending", user |-> request[r].user,
          amount |-> request[r].amount, key |-> request[r].key]
    ELSE [order[request[r].id] EXCEPT !.status = request[r].type]

\* COMMIT makes the row and the event visible.  The client may be gone by then:
\* its timeout, or the request's own two seconds, can pass during the commit.
Commit(r, answered) ==
    /\ request[r].pc = "commit"
    /\ order' = [order EXCEPT ![request[r].id] = Written(r)]
    /\ events' = [events EXCEPT ![<<request[r].type, request[r].id>>] =
                      IF @ < 2 THEN @ + 1 ELSE @]
    /\ IF answered /\ request[r].type = "created"
       THEN AnswerPlaced(r, request[r].id)
       ELSE UNCHANGED placed
    /\ IF answered /\ request[r].type # "created"
       THEN AnswerClosed(r)
       ELSE UNCHANGED closed
    /\ Finish(r)

\* Any statement may fail, and the context may be over: the deferred Rollback
\* undoes the transaction and the client is answered 500.
Rollback(r) ==
    /\ request[r].pc # "idle"
    /\ Finish(r)
    /\ UNCHANGED <<order, events, placed, closed>>

Next ==
    \E r \in Requests :
        \/ StartCreate(r) \/ Insert(r) \/ InsertDuplicate(r)
        \/ StartTransition(r) \/ Find(r) \/ Update(r)
        \/ AppendEvent(r)
        \/ Commit(r, TRUE) \/ Commit(r, FALSE)
        \/ Rollback(r)

Spec == Init /\ [][Next]_vars

-----------------------------------------------------------------------------
\* However often a client repeats a creation with its key, after timeouts and
\* against concurrent copies of itself, there is one order for the key.
KeyNamesOneOrder ==
    \A o, p \in Orders : \A k \in Keys :
        o \in WithKey(k) /\ p \in WithKey(k) => o = p

\* What a client was answered stays true.  An answer to a key names an order
\* with that key and with the arguments the client sent, so that no client is
\* given the order another user placed under the same key; and who was told that
\* an order is paid, or cancelled, can rely on it: of two clients racing to pay
\* and to cancel, one at most gets its way.
AnswersStand ==
    /\ \A a \in placed :
        /\ a.id \in WithKey(a.key)
        /\ order[a.id].user = a.user
        /\ order[a.id].amount = a.amount
    /\ \A c \in closed : order[c[1]].status = c[2]

Ledger == INSTANCE OrderLedger WITH
    status <- [o \in Orders |-> order[o].status], log <- events

\* Orders are placed once and closed once, whatever the requests in progress
\* have read before they write, and each of these changes has exactly one event:
\* a repeated request, a lost race and a rollback leave none.  The service
\* implements the ledger.
ImplementsLedger == Ledger!Spec
=============================================================================
