--------------------------- MODULE SessionsProofs ---------------------------
(***************************************************************************)
(* Proofs about Sessions, for any number of email addresses, sessions and  *)
(* requests in progress.  The sessions of a login form a chain, of which   *)
(* at most the last is in force; the row locks and the unique index on the *)
(* email address keep what an open transaction has found until it commits. *)
(***************************************************************************)
EXTENDS Sessions, FiniteSetTheorems, TLAPS

-----------------------------------------------------------------------------
(* The records of a request, by where it is.                                *)

Waiting == [pc : {"insert_user", "create_user", "find_admin", "create_admin"},
            user : Users]

Holding == [pc : {"rotate", "revoke", "serve"}, user : Users, old : Sessions]

Writing == [pc : {"commit"}, type : Types \union {"created"},
            user : Users, old : Sessions, new : Sessions]

Request == {Idle} \union Waiting \union Holding \union Writing

Starts == [created : 0 .. 2, started : Ways]

Typed ==
    /\ account \in [Users -> Accounts]
    /\ session \in [Sessions -> Row]
    /\ events \in [Events -> 0 .. 2]
    /\ request \in [Requests -> Request]
    /\ issued \subseteq Sessions
    /\ loggedOut \subseteq Sessions
    /\ bootstrap \in [Users -> Starts]

Creates(r) == InTransaction(r) /\ request[r].type \in Creating

Registers(r) == InTransaction(r) /\ request[r].type \in {"registered", "created"}

Revokes(r) == InTransaction(r) /\ request[r].type \in {"refreshed", "logged_out"}

\* No two open transactions insert the same session or the same email address,
\* or update the same session.
LocksExclude ==
    \A r, q \in Requests :
        r # q =>
            /\ Creates(r) /\ Creates(q) => request[r].new # request[q].new
            /\ Registers(r) /\ Registers(q) => request[r].user # request[q].user
            /\ Revokes(r) /\ Revokes(q) => request[r].old # request[q].old

\* What an open transaction has found is still so: it inserts a session that
\* does not exist, for an account that does not exist if it registers one, and
\* ends a session that is not revoked.
WritesStand ==
    \A r \in Requests :
        /\ Creates(r) => ~ Exists(request[r].new)
        /\ Registers(r) => ~ HasAccount(request[r].user)
        /\ Revokes(r) => session[request[r].old].state = "active"
        /\ Creates(r) /\ request[r].type # "refreshed" =>
               request[r].old = request[r].new
        /\ InTransaction(r) /\ request[r].type = "logged_out" =>
               request[r].new = request[r].old

\* The session that a session replaced, and the one its login began with, are
\* sessions of the login.
ChainsAreClosed ==
    \A s \in Sessions :
        Exists(s) =>
            /\ Exists(session[s].parent)
            /\ Exists(session[s].root)
            /\ session[session[s].parent].root = session[s].root

\* A session with a successor is revoked, and no two have the same predecessor.
ChainsDoNotFork ==
    \A s, t \in Sessions :
        Exists(s) /\ Exists(t) /\ s # t =>
            /\ session[t].parent = s => session[s].state = "revoked"
            /\ session[s].parent # s /\ session[t].parent # t
                   => session[s].parent # session[t].parent

\* A login has one session in force at most.
OneInForce ==
    \A s, t \in Sessions :
        Exists(s) /\ Exists(t) /\ s # t /\ session[s].root = session[t].root
            => session[s].state = "revoked" \/ session[t].state = "revoked"

\* LogoutIsFinal, with the fact that nobody is logged out of nothing.
LogoutsStand ==
    /\ \A s \in loggedOut : Exists(s)
    /\ LogoutIsFinal

Replaced(s) == \E t \in Sessions : Exists(t) /\ session[t].parent = s /\ t # s

\* A session has the event of its beginning and no other beginning.
BeginningsMatch ==
    \A s \in Sessions :
        /\ ~ Exists(s) => \A type \in Creating : events[<<type, s>>] = 0
        /\ Exists(s) =>
            \E begun \in Creating :
                /\ begun = "refreshed" <=> session[s].parent # s
                /\ \A type \in Creating :
                      events[<<type, s>>] = IF type = begun THEN 1 ELSE 0

\* It has the event of its end if it was not replaced.
EndsMatch ==
    \A s \in Sessions :
        events[<<"logged_out", s>>] =
            IF session[s].state = "revoked" /\ ~ Replaced(s) THEN 1 ELSE 0

Registrations(u) ==
    {s \in Sessions : events[<<"registered", s>>] > 0 /\ session[s].user = u}

OriginsMatch ==
    \A u \in Users :
        /\ IF account[u] = "user" THEN \E s \in Sessions : Registrations(u) = {s}
                                  ELSE Registrations(u) = {}
        /\ events[<<"created", u>>] = IF account[u] = "passwordless" THEN 1 ELSE 0
        /\ bootstrap[u].created = IF account[u] = "admin" THEN 1 ELSE 0

IInv ==
    /\ Typed
    /\ LocksExclude
    /\ WritesStand
    /\ ChainsAreClosed
    /\ ChainsDoNotFork
    /\ OneInForce
    /\ LogoutsStand
    /\ BeginningsMatch
    /\ EndsMatch
    /\ OriginsMatch
    /\ StartLeavesAnAccount

-----------------------------------------------------------------------------
\* Where a request is tells what its record holds.
LEMMA RecordOf ==
    ASSUME Typed, NEW r \in Requests
    PROVE  /\ request[r].pc \in PC
           /\ request[r].pc \in {"insert_user", "create_user", "find_admin",
                                 "create_admin"} => request[r] \in Waiting
           /\ request[r].pc \in {"rotate", "revoke", "serve"} =>
                 request[r] \in Holding
           /\ InTransaction(r) => request[r] \in Writing
<1>1. request[r] \in Request
  BY DEF Typed
<1>2. CASE request[r] = Idle
  BY <1>2 DEF Idle, InTransaction, PC
<1>3. CASE request[r] \in Waiting
  BY <1>3 DEF Waiting, InTransaction, PC
<1>4. CASE request[r] \in Holding
  BY <1>4 DEF Holding, InTransaction, PC
<1>5. CASE request[r] \in Writing
  BY <1>5 DEF Writing, InTransaction, PC
<1> QED
  BY <1>1, <1>2, <1>3, <1>4, <1>5 DEF Request

\* The step of r leaves the other requests alone.
Others(r) == \A q \in Requests \ {r} : request'[q] = request[q]

\* A request that takes another record leaves the other requests alone.
LEMMA BecomeEffect ==
    ASSUME Typed, NEW r \in Requests, NEW record \in Request, Become(r, record)
    PROVE  /\ request' \in [Requests -> Request]
           /\ Others(r)
           /\ request'[r] = record
  BY DEF Typed, Become, Others

\* A request that is answered is idle again, and in no transaction.
LEMMA FinishEffect ==
    ASSUME Typed, NEW r \in Requests, Finish(r)
    PROVE  /\ request' \in [Requests -> Request]
           /\ Others(r)
           /\ request'[r] = Idle
           /\ ~ InTransaction(r)'
<1>1. Idle \in Request
  BY DEF Request
<1>2. request' \in [Requests -> Request] /\ Others(r) /\ request'[r] = Idle
  BY <1>1, BecomeEffect DEF Finish
<1> QED
  BY <1>2 DEF Idle, InTransaction

-----------------------------------------------------------------------------
(* Three kinds of steps: one that prepares a commit and leaves the tables    *)
(* alone, one that commits, and one that changes a row outside transactions. *)

\* What r writes in an open transaction it has found free.
Prepares(r) ==
    /\ request' \in [Requests -> Request]
    /\ Others(r)
    /\ \/ ~ InTransaction(r)'
       \/ /\ request'[r].type = "registered"
          /\ ~ EmailIsLocked(r, request'[r].user)
          /\ ~ HasAccount(request'[r].user)
          /\ request'[r].new \in UnusedIDs
          /\ request'[r].old = request'[r].new
       \/ /\ request'[r].type = "created"
          /\ ~ EmailIsLocked(r, request'[r].user)
          /\ ~ HasAccount(request'[r].user)
       \/ /\ request'[r].type = "logged_in"
          /\ request'[r].new \in UnusedIDs
          /\ request'[r].old = request'[r].new
       \/ /\ request'[r].type = "refreshed"
          /\ ~ RowIsLocked(r, request'[r].old)
          /\ session[request'[r].old].state = "active"
          /\ request'[r].new \in UnusedIDs
       \/ /\ request'[r].type = "logged_out"
          /\ ~ RowIsLocked(r, request'[r].old)
          /\ session[request'[r].old].state = "active"
          /\ request'[r].new = request'[r].old

\* The steps of a request that leave all tables alone but for FindAdmin.
Preparing(r) ==
    \/ Start(r, "insert_user") \/ InsertUser(r)
    \/ Start(r, "create_user") \/ CreateUser(r)
    \/ Start(r, "find_admin") \/ FindAdmin(r)
    \/ Login(r)
    \/ Find(r, "rotate") \/ Rotate(r)
    \/ Find(r, "revoke") \/ Revoke(r)
    \/ Find(r, "serve") \/ Serve(r)
    \/ Rollback(r)

\* A request that has been accepted is in no transaction yet.
LEMMA StartPrepares ==
    ASSUME Typed, NEW r \in Requests,
           NEW pc \in {"insert_user", "create_user", "find_admin"},
           Start(r, pc)
    PROVE  Prepares(r)
<1>1. PICK u \in Users : Become(r, [pc |-> pc, user |-> u])
  BY DEF Start
<1> DEFINE record == [pc |-> pc, user |-> u]
<1>2. record \in Request /\ record.pc # "commit"
  BY DEF Request, Waiting
<1> HIDE DEF record
<1>3. /\ request' \in [Requests -> Request]
      /\ Others(r)
      /\ request'[r] = record
  BY <1>1, <1>2, BecomeEffect DEF record
<1>4. ~ InTransaction(r)'
  BY <1>2, <1>3 DEF InTransaction
<1> QED
  BY <1>3, <1>4 DEF Prepares

\* Nor is one that has looked up its session.
LEMMA FindPrepares ==
    ASSUME Typed, NEW r \in Requests, NEW pc \in {"rotate", "revoke", "serve"},
           Find(r, pc)
    PROVE  Prepares(r)
<1>1. PICK s \in issued :
          Become(r, [pc |-> pc, user |-> session[s].user, old |-> s])
  BY DEF Find
<1> DEFINE record == [pc |-> pc, user |-> session[s].user, old |-> s]
<1>2. s \in Sessions /\ session[s].user \in Users
  BY DEF Typed, Row
<1>3. record \in Request /\ record.pc # "commit"
  BY <1>2 DEF Request, Holding
<1> HIDE DEF record
<1>4. /\ request' \in [Requests -> Request]
      /\ Others(r)
      /\ request'[r] = record
  BY <1>1, <1>3, BecomeEffect DEF record
<1>5. ~ InTransaction(r)'
  BY <1>3, <1>4 DEF InTransaction
<1> QED
  BY <1>4, <1>5 DEF Prepares

\* The record of a transaction that has been opened.
LEMMA WritingEffect ==
    ASSUME Typed, NEW r \in Requests,
           NEW type \in Types \union {"created"}, NEW u \in Users,
           NEW old \in Sessions, NEW new \in Sessions,
           Become(r, [pc |-> "commit", type |-> type, user |-> u,
                      old |-> old, new |-> new])
    PROVE  /\ request' \in [Requests -> Request]
           /\ Others(r)
           /\ request'[r].type = type
           /\ request'[r].user = u
           /\ request'[r].old = old
           /\ request'[r].new = new
<1> DEFINE record == [pc |-> "commit", type |-> type, user |-> u,
                      old |-> old, new |-> new]
<1>1. record \in Writing
  BY DEF Writing
<1>2. request' \in [Requests -> Request] /\ Others(r) /\ request'[r] = record
  BY <1>1, BecomeEffect DEF Request
<1> QED
  BY <1>2

\* Every such step prepares one.
LEMMA PreparingEffect ==
    ASSUME Typed, NEW r \in Requests, Preparing(r)
    PROVE  Prepares(r)
<1>1. ASSUME Finish(r) PROVE Prepares(r)
  BY <1>1, FinishEffect DEF Prepares
<1>2. CASE InsertUser(r)
  <2>1. CASE Finish(r)
    BY <1>1, <2>1
  <2>2. CASE ~ Finish(r)
    <3>1. request[r] \in Waiting
      BY <1>2, RecordOf DEF InsertUser
    <3> DEFINE u == request[r].user
    <3>2. u \in Users
      BY <3>1 DEF Waiting
    <3>3. PICK s \in UnusedIDs :
            Become(r, [pc |-> "commit", type |-> "registered", user |-> u,
                       old |-> s, new |-> s])
      BY <1>2, <2>2 DEF InsertUser, NewSessionID
    <3>4. s \in Sessions /\ "registered" \in Types \union {"created"}
      BY DEF UnusedIDs, Types, Creating
    <3>5. ~ EmailIsLocked(r, u) /\ ~ HasAccount(u)
      BY <1>2, <2>2 DEF InsertUser
    <3> HIDE DEF u
    <3>6. /\ request' \in [Requests -> Request]
          /\ Others(r)
          /\ request'[r].type = "registered"
          /\ request'[r].user = u
          /\ request'[r].old = s
          /\ request'[r].new = s
      BY <3>2, <3>3, <3>4, WritingEffect
    <3> QED
      BY <3>5, <3>6 DEF Prepares
  <2> QED
    BY <2>1, <2>2
<1>3. CASE CreateUser(r)
  <2>1. CASE Finish(r)
    BY <1>1, <2>1
  <2>2. CASE ~ Finish(r)
    <3>1. request[r] \in Waiting
      BY <1>3, RecordOf DEF CreateUser
    <3> DEFINE u == request[r].user
               none == CHOOSE s \in Sessions : TRUE
    <3>2. u \in Users
      BY <3>1 DEF Waiting
    <3>3. Become(r, [pc |-> "commit", type |-> "created", user |-> u,
                     old |-> none, new |-> none])
      BY <1>3, <2>2 DEF CreateUser
    <3>4. none \in Sessions
      BY SessionsAssumption
    <3>5. ~ EmailIsLocked(r, u) /\ ~ HasAccount(u)
      BY <1>3, <2>2 DEF CreateUser
    <3> HIDE DEF u, none
    <3>6. /\ request' \in [Requests -> Request]
          /\ Others(r)
          /\ request'[r].type = "created"
          /\ request'[r].user = u
      BY <3>2, <3>3, <3>4, WritingEffect
    <3> QED
      BY <3>5, <3>6 DEF Prepares
  <2> QED
    BY <2>1, <2>2
<1>4. CASE FindAdmin(r)
  <2>1. CASE Finish(r)
    BY <1>1, <2>1
  <2>2. CASE ~ Finish(r)
    <3>1. request[r] \in Waiting
      BY <1>4, RecordOf DEF FindAdmin
    <3> DEFINE record == [pc |-> "create_admin", user |-> request[r].user]
    <3>2. record \in Request /\ record.pc # "commit"
      BY <3>1 DEF Request, Waiting
    <3>3. Become(r, record)
      BY <1>4, <2>2 DEF FindAdmin
    <3> HIDE DEF record
    <3>4. /\ request' \in [Requests -> Request]
          /\ Others(r)
          /\ request'[r] = record
      BY <3>2, <3>3, BecomeEffect
    <3>5. ~ InTransaction(r)'
      BY <3>2, <3>4 DEF InTransaction
    <3> QED
      BY <3>4, <3>5 DEF Prepares
  <2> QED
    BY <2>1, <2>2
<1>5. CASE Login(r)
  <2>1. PICK u \in Users, s \in UnusedIDs :
            Become(r, [pc |-> "commit", type |-> "logged_in", user |-> u,
                       old |-> s, new |-> s])
    BY <1>5 DEF Login, NewSessionID
  <2>2. s \in Sessions /\ "logged_in" \in Types \union {"created"}
    BY DEF UnusedIDs, Types, Creating
  <2>3. /\ request' \in [Requests -> Request]
        /\ Others(r)
        /\ request'[r].type = "logged_in"
        /\ request'[r].old = s
        /\ request'[r].new = s
    BY <2>1, <2>2, WritingEffect
  <2> QED
    BY <2>3 DEF Prepares
<1>6. CASE Rotate(r)
  <2>1. CASE Finish(r)
    BY <1>1, <2>1
  <2>2. CASE ~ Finish(r)
    <3>1. request[r] \in Holding
      BY <1>6, RecordOf DEF Rotate
    <3> DEFINE u == request[r].user
               old == request[r].old
    <3>2. u \in Users /\ old \in Sessions
      BY <3>1 DEF Holding
    <3>3. PICK s \in UnusedIDs :
            Become(r, [pc |-> "commit", type |-> "refreshed", user |-> u,
                       old |-> old, new |-> s])
      BY <1>6, <2>2 DEF Rotate, NewSessionID
    <3>4. s \in Sessions /\ "refreshed" \in Types \union {"created"}
      BY DEF UnusedIDs, Types, Creating
    <3>5. ~ RowIsLocked(r, old) /\ session[old].state = "active"
      BY <1>6, <2>2 DEF Rotate, Active
    <3> HIDE DEF u, old
    <3>6. /\ request' \in [Requests -> Request]
          /\ Others(r)
          /\ request'[r].type = "refreshed"
          /\ request'[r].old = old
          /\ request'[r].new = s
      BY <3>2, <3>3, <3>4, WritingEffect
    <3> QED
      BY <3>5, <3>6 DEF Prepares
  <2> QED
    BY <2>1, <2>2
<1>7. CASE Revoke(r)
  <2>1. CASE Finish(r)
    BY <1>1, <2>1
  <2>2. CASE ~ Finish(r)
    <3>1. request[r] \in Holding
      BY <1>7, RecordOf DEF Revoke
    <3> DEFINE u == request[r].user
               old == request[r].old
    <3>2. u \in Users /\ old \in Sessions
      BY <3>1 DEF Holding
    <3>3. Become(r, [pc |-> "commit", type |-> "logged_out", user |-> u,
                     old |-> old, new |-> old])
      BY <1>7, <2>2 DEF Revoke
    <3>4. "logged_out" \in Types \union {"created"}
      BY DEF Types
    <3>5. ~ RowIsLocked(r, old) /\ session[old].state = "active"
      BY <1>7, <2>2 DEF Revoke, Revocable
    <3> HIDE DEF u, old
    <3>6. /\ request' \in [Requests -> Request]
          /\ Others(r)
          /\ request'[r].type = "logged_out"
          /\ request'[r].old = old
          /\ request'[r].new = old
      BY <3>2, <3>3, <3>4, WritingEffect
    <3> QED
      BY <3>5, <3>6 DEF Prepares
  <2> QED
    BY <2>1, <2>2
<1>8. CASE Serve(r) \/ Rollback(r)
  BY <1>1, <1>8 DEF Serve, Rollback
<1>9. CASE Start(r, "insert_user") \/ Start(r, "create_user") \/ Start(r, "find_admin")
  BY <1>9, StartPrepares
<1>10. CASE Find(r, "rotate") \/ Find(r, "revoke") \/ Find(r, "serve")
  BY <1>10, FindPrepares
<1> QED
  BY <1>2, <1>3, <1>4, <1>5, <1>6, <1>7, <1>8, <1>9, <1>10 DEF Preparing

\* The tables are as before, but for what has expired.
Calm ==
    /\ account' = account
    /\ events' = events
    /\ loggedOut' = loggedOut
    /\ \A s \in Sessions : /\ session'[s].state = session[s].state
                           /\ session'[s].user = session[s].user
                           /\ session'[s].parent = session[s].parent
                           /\ session'[s].root = session[s].root

\* One event is recorded for the first time.
Records(e) ==
    /\ events[e] = 0
    /\ events' \in [Events -> 0 .. 2]
    /\ events'[e] = 1
    /\ \A f \in Events \ {e} : events'[f] = events[f]

\* The effects of a commit.  A login, or a registration, begins a chain.
Begins(type, s, u) ==
    /\ type \in {"registered", "logged_in"}
    /\ ~ Exists(s)
    /\ session'[s].state = "active"
    /\ session'[s].user = u
    /\ session'[s].parent = s
    /\ session'[s].root = s
    /\ \A t \in Sessions \ {s} : session'[t] = session[t]
    /\ Records(<<type, s>>)
    /\ loggedOut' = loggedOut
    /\ type = "logged_in" => account' = account
    /\ type = "registered" =>
          ~ HasAccount(u) /\ account' = [account EXCEPT ![u] = "user"]

\* A user created by an administrator gets no session.
CreatesAccount(u) ==
    /\ session' = session
    /\ Records(<<"created", u>>)
    /\ loggedOut' = loggedOut
    /\ ~ HasAccount(u)
    /\ account' = [account EXCEPT ![u] = "passwordless"]

\* A refresh adds a session to the chain of the one it revokes.
Replaces(old, new) ==
    /\ ~ Exists(new)
    /\ session[old].state = "active"
    /\ session'[new].state = "active"
    /\ session'[new].parent = old
    /\ session'[new].root = session[old].root
    /\ session'[old].state = "revoked"
    /\ session'[old].user = session[old].user
    /\ session'[old].parent = session[old].parent
    /\ session'[old].root = session[old].root
    /\ \A t \in Sessions \ {old, new} : session'[t] = session[t]
    /\ Records(<<"refreshed", new>>)
    /\ loggedOut' = loggedOut
    /\ account' = account

\* A logout revokes a session.
Ends(s) ==
    /\ session[s].state = "active"
    /\ session'[s].state = "revoked"
    /\ session'[s].user = session[s].user
    /\ session'[s].parent = session[s].parent
    /\ session'[s].root = session[s].root
    /\ \A t \in Sessions \ {s} : session'[t] = session[t]
    /\ Records(<<"logged_out", s>>)
    /\ loggedOut' \subseteq loggedOut \union {s}
    /\ account' = account

\* The transaction of r ends with one of these.
Commits(r) ==
    /\ InTransaction(r)
    /\ request[r] \in Writing
    /\ request' \in [Requests -> Request]
    /\ Others(r)
    /\ ~ InTransaction(r)'
    /\ account' \in [Users -> Accounts]
    /\ session' \in [Sessions -> Row]
    /\ issued' \subseteq Sessions
    /\ bootstrap' = bootstrap
    /\ \/ Begins(request[r].type, request[r].new, request[r].user)
       \/ /\ request[r].type = "created"
          /\ CreatesAccount(request[r].user)
       \/ /\ request[r].type = "refreshed"
          /\ Replaces(request[r].old, request[r].new)
       \/ /\ request[r].type = "logged_out"
          /\ Ends(request[r].old)

\* An event that was not there is recorded once.
LEMMA RecordEffect ==
    ASSUME Typed, NEW e \in Events, events[e] = 0,
           events' = [events EXCEPT ![e] = UpTo(2, @)]
    PROVE  Records(e)
  BY DEF Typed, Records, UpTo

\* A commit has one of the four effects, by its type.
LEMMA CommitEffect ==
    ASSUME IInv, NEW r \in Requests, NEW answered \in BOOLEAN,
           Commit(r, answered)
    PROVE  Commits(r)
<1> DEFINE type == request[r].type
           old == request[r].old
           new == request[r].new
           u == request[r].user
<1>1. Typed /\ InTransaction(r) /\ request[r].pc = "commit"
  BY DEF IInv, Commit, InTransaction
<1>2. request[r] \in Writing
  BY <1>1, RecordOf
<1>3. /\ type \in Types \union {"created"}
      /\ old \in Sessions /\ new \in Sessions /\ u \in Users
  BY <1>2 DEF Writing
<1>4. /\ request' \in [Requests -> Request]
      /\ Others(r)
      /\ ~ InTransaction(r)'
  BY <1>1, FinishEffect DEF Commit
<1>5. /\ account' = IF type \in {"registered", "created"}
                    THEN [account EXCEPT ![u] =
                             IF type = "registered" THEN "user"
                             ELSE "passwordless"]
                    ELSE account
      /\ session' = [s \in Sessions |->
            IF s = new /\ type \in Creating THEN Replacement(r)
            ELSE IF s = old /\ type # "created"
            THEN [session[s] EXCEPT !.state = "revoked"]
            ELSE session[s]]
      /\ events' = [events EXCEPT
            ![<<type, IF type = "created" THEN u ELSE new>>] = UpTo(2, @)]
      /\ issued' \subseteq issued \union {new}
      /\ loggedOut' \subseteq loggedOut \union {old}
      /\ type # "logged_out" => loggedOut' = loggedOut
      /\ bootstrap' = bootstrap
  <2>1. /\ DOMAIN Inserted = {"registered", "created"}
        /\ Inserted["registered"] = "user"
        /\ Inserted["created"] = "passwordless"
    BY DEF Inserted
  <2>2. account' = IF type \in {"registered", "created"}
                   THEN [account EXCEPT ![u] = Inserted[type]] ELSE account
    BY <2>1 DEF Commit
  <2>3. account' = IF type \in {"registered", "created"}
                   THEN [account EXCEPT ![u] =
                            IF type = "registered" THEN "user"
                            ELSE "passwordless"]
                   ELSE account
    BY <2>1, <2>2
  <2>4. /\ session' = [s \in Sessions |->
              IF s = new /\ type \in Creating THEN Replacement(r)
              ELSE IF s = old /\ type # "created"
              THEN [session[s] EXCEPT !.state = "revoked"]
              ELSE session[s]]
        /\ events' = [events EXCEPT
              ![<<type, IF type = "created" THEN u ELSE new>>] = UpTo(2, @)]
        /\ bootstrap' = bootstrap
    BY DEF Commit
  <2>5. /\ issued' \subseteq issued \union {new}
        /\ loggedOut' \subseteq loggedOut \union {old}
        /\ type # "logged_out" => loggedOut' = loggedOut
    BY DEF Commit
  <2> QED
    BY <2>3, <2>4, <2>5
<1>6. /\ type \in Creating => ~ Exists(new)
      /\ type \in {"registered", "created"} => ~ HasAccount(u)
      /\ type \in {"refreshed", "logged_out"} => session[old].state = "active"
      /\ type \in {"registered", "logged_in"} => old = new
      /\ type = "logged_out" => new = old
  BY <1>1 DEF IInv, WritesStand, Creates, Registers, Revokes, Creating
<1>7. /\ Replacement(r).state = "active"
      /\ Replacement(r).user = u
      /\ Replacement(r).parent = old
      /\ Replacement(r).root = IF type = "refreshed"
                               THEN session[old].root ELSE new
      /\ Replacement(r) \in Row
  <2>1. session[old].root \in Sessions
    BY <1>1, <1>3 DEF Typed, Row
  <2> QED
    BY <1>3, <2>1 DEF Replacement, Row
<1>8. account' \in [Users -> Accounts]
  BY <1>1, <1>3, <1>5 DEF Typed, Accounts
<1>9. \A s \in Sessions :
          /\ session[s] \in Row
          /\ [session[s] EXCEPT !.state = "revoked"] \in Row
          /\ [session[s] EXCEPT !.state = "revoked"].state = "revoked"
          /\ [session[s] EXCEPT !.state = "revoked"].user = session[s].user
          /\ [session[s] EXCEPT !.state = "revoked"].parent = session[s].parent
          /\ [session[s] EXCEPT !.state = "revoked"].root = session[s].root
  <2>1. \A s \in Sessions : session[s] \in Row
    BY <1>1 DEF Typed
  <2> QED
    BY <2>1 DEF Row
<1> HIDE DEF type, old, new, u
<1>10. session' \in [Sessions -> Row]
  BY <1>5, <1>7, <1>9
<1>11. issued' \subseteq Sessions
  BY <1>1, <1>3, <1>5 DEF Typed
<1>12. CASE type \in {"registered", "logged_in"}
  <2>1. <<type, new>> \in Events /\ type \in Creating /\ type # "refreshed"
    BY <1>3, <1>12 DEF Events, Types, Creating
  <2>2. events[<<type, new>>] = 0
    BY <1>3, <1>6, <2>1 DEF IInv, BeginningsMatch
  <2>3. Records(<<type, new>>)
    BY <1>1, <1>5, <1>12, <2>1, <2>2, RecordEffect
  <2>4. /\ session'[new] = Replacement(r)
        /\ \A t \in Sessions \ {new} : session'[t] = session[t]
    BY <1>3, <1>5, <1>6, <1>12, <2>1
  <2>5. Begins(type, new, u)
    BY <1>5, <1>6, <1>7, <1>12, <2>1, <2>3, <2>4 DEF Begins
  <2> QED
    BY <1>1, <1>2, <1>4, <1>5, <1>8, <1>10, <1>11, <2>5
    DEF Commits, type, new, u
<1>13. CASE type = "created"
  <2>1. <<"created", u>> \in Events
    BY <1>3 DEF Events
  <2>2. events[<<"created", u>>] = 0
    BY <1>3, <1>6, <1>13 DEF IInv, OriginsMatch, HasAccount
  <2>3. Records(<<"created", u>>)
    BY <1>1, <1>5, <1>13, <2>1, <2>2, RecordEffect
  <2>4. session' = session
    <3>1. \A s \in Sessions : session'[s] = session[s]
      BY <1>5, <1>13 DEF Creating
    <3> QED
      BY <1>1, <1>5, <3>1 DEF Typed
  <2>5. CreatesAccount(u)
    BY <1>5, <1>6, <1>13, <2>3, <2>4 DEF CreatesAccount
  <2> QED
    BY <1>1, <1>2, <1>4, <1>5, <1>8, <1>10, <1>11, <1>13, <2>5
    DEF Commits, type, u
<1>14. CASE type = "refreshed"
  <2>1. <<"refreshed", new>> \in Events /\ "refreshed" \in Creating
    BY <1>3 DEF Events, Types, Creating
  <2>2. events[<<"refreshed", new>>] = 0
    BY <1>3, <1>6, <1>14, <2>1 DEF IInv, BeginningsMatch
  <2>3. Records(<<"refreshed", new>>)
    BY <1>1, <1>5, <1>14, <2>1, <2>2, RecordEffect
  <2>4. old # new
    BY <1>6, <1>14, <2>1 DEF Exists
  <2>5. /\ session'[new] = Replacement(r)
        /\ session'[old] = [session[old] EXCEPT !.state = "revoked"]
        /\ \A t \in Sessions \ {old, new} : session'[t] = session[t]
    BY <1>3, <1>5, <1>14, <2>1, <2>4
  <2>6. Replaces(old, new)
    BY <1>3, <1>5, <1>6, <1>7, <1>9, <1>14, <2>1, <2>3, <2>5 DEF Replaces
  <2> QED
    BY <1>1, <1>2, <1>4, <1>5, <1>8, <1>10, <1>11, <1>14, <2>6
    DEF Commits, type, old, new
<1>15. CASE type = "logged_out"
  <2>1. <<"logged_out", old>> \in Events /\ type \notin Creating
    BY <1>3, <1>15 DEF Events, Types, Creating
  <2>2. events[<<"logged_out", old>>] = 0
    BY <1>3, <1>6, <1>15 DEF IInv, EndsMatch
  <2>3. Records(<<"logged_out", old>>)
    BY <1>1, <1>5, <1>6, <1>15, <2>1, <2>2, RecordEffect
  <2>4. /\ session'[old] = [session[old] EXCEPT !.state = "revoked"]
        /\ \A t \in Sessions \ {old} : session'[t] = session[t]
    BY <1>3, <1>5, <1>15, <2>1
  <2>5. Ends(old)
    BY <1>3, <1>5, <1>6, <1>9, <1>15, <2>3, <2>4 DEF Ends
  <2> QED
    BY <1>1, <1>2, <1>4, <1>5, <1>8, <1>10, <1>11, <1>15, <2>5
    DEF Commits, type, old
<1> QED
  BY <1>3, <1>12, <1>13, <1>14, <1>15 DEF Types, Creating

-----------------------------------------------------------------------------
(* The open transactions.                                                    *)

\* A request that the step leaves alone is in the same transaction as before.
LEMMA SameTransaction ==
    ASSUME NEW q \in Requests, request'[q] = request[q]
    PROVE  /\ InTransaction(q)' <=> InTransaction(q)
           /\ Creates(q)' <=> Creates(q)
           /\ Registers(q)' <=> Registers(q)
           /\ Revokes(q)' <=> Revokes(q)
  BY DEF InTransaction, Creates, Registers, Revokes

\* A request that is in no transaction after its step excludes nobody.
LEMMA LeavingKeepsExclusion ==
    ASSUME LocksExclude, NEW r \in Requests, Others(r), ~ InTransaction(r)'
    PROVE  LocksExclude'
<1>1. \A q \in Requests :
          Creates(q)' \/ Registers(q)' \/ Revokes(q)' =>
              /\ request'[q] = request[q]
              /\ Creates(q)' <=> Creates(q)
              /\ Registers(q)' <=> Registers(q)
              /\ Revokes(q)' <=> Revokes(q)
  BY DEF Others, InTransaction, Creates, Registers, Revokes
<1> QED
  BY <1>1 DEF LocksExclude

\* What r has found free is held by no other transaction.
LEMMA PrepareKeepsExclusion ==
    ASSUME IInv, NEW r \in Requests, Prepares(r)
    PROVE  LocksExclude'
<1>1. LocksExclude
  BY DEF IInv
<1>2. CASE ~ InTransaction(r)'
  BY <1>1, <1>2, LeavingKeepsExclusion DEF Prepares
<1>3. CASE InTransaction(r)'
  <2>1. \A q \in Requests \ {r} : request'[q] = request[q]
    BY DEF Prepares, Others
  <2>2. ASSUME NEW q \in Requests \ {r}
        PROVE  /\ Creates(r)' /\ Creates(q) => request'[r].new # request[q].new
               /\ Registers(r)' /\ Registers(q) =>
                      request'[r].user # request[q].user
               /\ Revokes(r)' /\ Revokes(q) => request'[r].old # request[q].old
    <3>1. Creates(r)' => request'[r].new \in UnusedIDs
      BY <1>3 DEF Prepares, Creates, Creating
    <3>2. Registers(r)' => ~ EmailIsLocked(r, request'[r].user)
      BY <1>3 DEF Prepares, Registers
    <3>3. Revokes(r)' => ~ RowIsLocked(r, request'[r].old)
      BY <1>3 DEF Prepares, Revokes
    <3>4. Creates(r)' /\ Creates(q) => request'[r].new # request[q].new
      BY <3>1 DEF UnusedIDs, Creates, Creating
    <3>5. Registers(r)' /\ Registers(q) => request'[r].user # request[q].user
      BY <3>2 DEF EmailIsLocked, Registers
    <3>6. Revokes(r)' /\ Revokes(q) => request'[r].old # request[q].old
      BY <3>3 DEF RowIsLocked, Revokes
    <3> QED
      BY <3>4, <3>5, <3>6
  <2> SUFFICES ASSUME NEW p \in Requests, NEW q \in Requests, p # q
               PROVE  /\ Creates(p)' /\ Creates(q)' =>
                             request'[p].new # request'[q].new
                      /\ Registers(p)' /\ Registers(q)' =>
                             request'[p].user # request'[q].user
                      /\ Revokes(p)' /\ Revokes(q)' =>
                             request'[p].old # request'[q].old
    BY DEF LocksExclude
  <2>3. CASE p # r /\ q # r
    BY <1>1, <2>1, <2>3, SameTransaction DEF LocksExclude
  <2>4. CASE p = r
    <3>1. q \in Requests \ {r} /\ request'[q] = request[q]
      BY <2>1, <2>4
    <3>2. /\ Creates(q)' <=> Creates(q)
          /\ Registers(q)' <=> Registers(q)
          /\ Revokes(q)' <=> Revokes(q)
      BY <3>1, SameTransaction
    <3> QED
      BY <2>2, <2>4, <3>1, <3>2
  <2>5. CASE q = r
    <3>1. p \in Requests \ {r} /\ request'[p] = request[p]
      BY <2>1, <2>5
    <3>2. /\ Creates(p)' <=> Creates(p)
          /\ Registers(p)' <=> Registers(p)
          /\ Revokes(p)' <=> Revokes(p)
      BY <3>1, SameTransaction
    <3> QED
      BY <2>2, <2>5, <3>1, <3>2
  <2> QED
    BY <2>3, <2>4, <2>5
<1> QED
  BY <1>2, <1>3

\* The conjunct of WritesStand about q, of the record and the tables after a
\* step.
Stands(q) ==
    /\ Creates(q) => ~ Exists(request[q].new)
    /\ Registers(q) => ~ HasAccount(request[q].user)
    /\ Revokes(q) => session[request[q].old].state = "active"
    /\ Creates(q) /\ request[q].type # "refreshed" =>
           request[q].old = request[q].new
    /\ InTransaction(q) /\ request[q].type = "logged_out" =>
           request[q].new = request[q].old

\* It outlives every step that leaves the record alone, keeps the absence of
\* its new session and its account, and keeps its old session in force.
LEMMA StandsStill ==
    ASSUME IInv, NEW q \in Requests, request'[q] = request[q],
           Creates(q) => session'[request[q].new].state = "none",
           Registers(q) => account'[request[q].user] = "none",
           Revokes(q) => session'[request[q].old].state = "active"
    PROVE  Stands(q)'
<1>1. Stands(q)
  BY DEF IInv, WritesStand, Stands
<1>2. /\ InTransaction(q)' <=> InTransaction(q)
      /\ Creates(q)' <=> Creates(q)
      /\ Registers(q)' <=> Registers(q)
      /\ Revokes(q)' <=> Revokes(q)
  BY SameTransaction
<1> QED
  BY <1>1, <1>2 DEF Stands, Exists, HasAccount

\* What an open transaction needs to commit.
LEMMA NowStands ==
    ASSUME IInv, NEW q \in Requests
    PROVE  /\ Creates(q) => /\ request[q].new \in Sessions
                            /\ session[request[q].new].state = "none"
           /\ Registers(q) => /\ request[q].user \in Users
                              /\ account[request[q].user] = "none"
           /\ Revokes(q) => /\ request[q].old \in Sessions
                            /\ session[request[q].old].state = "active"
<1>1. InTransaction(q) => request[q] \in Writing
  BY RecordOf DEF IInv
<1> QED
  BY <1>1 DEF IInv, WritesStand, Exists, HasAccount, Writing, Creates,
              Registers, Revokes

\* What r has found when it wrote is so.
LEMMA PrepareKeepsWrites ==
    ASSUME IInv, NEW r \in Requests, Prepares(r),
           account' = account, session' = session
    PROVE  WritesStand'
<1>1. ASSUME NEW q \in Requests \ {r} PROVE Stands(q)'
  <2>1. request'[q] = request[q]
    BY DEF Prepares, Others
  <2> QED
    BY <2>1, NowStands, StandsStill
<1>2. Stands(r)'
  <2>1. CASE ~ InTransaction(r)'
    BY <2>1 DEF Stands, Creates, Registers, Revokes
  <2>2. CASE InTransaction(r)'
    <3>1. \A s \in Sessions : Exists(s)' <=> Exists(s)
      BY DEF Exists
    <3>2. \A u \in Users : HasAccount(u)' <=> HasAccount(u)
      BY DEF HasAccount
    <3>3. Creates(r)' => request'[r].new \in UnusedIDs
      BY <2>2 DEF Prepares, Creates, Creating
    <3>4. Creates(r)' => ~ Exists(request[r].new)'
      BY <3>3 DEF UnusedIDs, Exists
    <3>5. Registers(r)' => ~ HasAccount(request[r].user)'
      BY <2>2 DEF Prepares, Registers, HasAccount
    <3>6. Revokes(r)' => session'[request'[r].old].state = "active"
      BY <2>2 DEF Prepares, Revokes
    <3>7. /\ Creates(r)' /\ request'[r].type # "refreshed" =>
                 request'[r].old = request'[r].new
          /\ request'[r].type = "logged_out" =>
                 request'[r].new = request'[r].old
      BY <2>2 DEF Prepares, Creates, Creating
    <3> QED
      BY <3>4, <3>5, <3>6, <3>7 DEF Stands
  <2> QED
    BY <2>1, <2>2
<1> QED
  BY <1>1, <1>2 DEF WritesStand, Stands

\* A commit touches none of the rows and accounts of another transaction.
LEMMA CommitKeepsWrites ==
    ASSUME IInv, NEW r \in Requests, Commits(r)
    PROVE  WritesStand'
<1> DEFINE type == request[r].type
           old == request[r].old
           new == request[r].new
           u == request[r].user
<1>1. /\ type \in Types \union {"created"}
      /\ old \in Sessions /\ new \in Sessions /\ u \in Users
  BY DEF Commits, Writing
<1>2. InTransaction(r) /\ ~ InTransaction(r)'
  BY DEF Commits
<1>3. ASSUME NEW q \in Requests \ {r} PROVE Stands(q)'
  <2>1. request'[q] = request[q]
    BY DEF Commits, Others
  <2>2. /\ Creates(q) => /\ request[q].new \in Sessions
                         /\ session[request[q].new].state = "none"
        /\ Registers(q) => /\ request[q].user \in Users
                           /\ account[request[q].user] = "none"
        /\ Revokes(q) => /\ request[q].old \in Sessions
                         /\ session[request[q].old].state = "active"
    BY NowStands
  <2>3. /\ Creates(r) /\ Creates(q) => new # request[q].new
        /\ Registers(r) /\ Registers(q) => u # request[q].user
        /\ Revokes(r) /\ Revokes(q) => old # request[q].old
    BY DEF IInv, LocksExclude
  <2>4. /\ type \in Creating => Creates(r)
        /\ type \in {"registered", "created"} => Registers(r)
        /\ type \in {"refreshed", "logged_out"} => Revokes(r)
    BY <1>2 DEF Creates, Registers, Revokes
  <2>5. account \in [Users -> Accounts]
    BY DEF IInv, Typed
  <2> HIDE DEF type, old, new, u
  <2>6. /\ Creates(q) => session'[request[q].new].state = "none"
        /\ Registers(q) => account'[request[q].user] = "none"
        /\ Revokes(q) => session'[request[q].old].state = "active"
    <3>1. CASE Begins(type, new, u)
      <4>1. type \in Creating
        BY <3>1 DEF Begins, Creating
      <4>2. /\ \A t \in Sessions \ {new} : session'[t] = session[t]
            /\ session[new].state = "none"
        BY <3>1 DEF Begins, Exists
      <4>3. \A v \in Users : v # u => account'[v] = account[v]
        BY <1>1, <2>5, <3>1 DEF Begins
      <4>4. type = "registered" \/ account' = account
        BY <3>1 DEF Begins
      <4> QED
        BY <1>1, <2>2, <2>3, <2>4, <4>1, <4>2, <4>3, <4>4
    <3>2. CASE type = "created" /\ CreatesAccount(u)
      <4>1. session' = session
        BY <3>2 DEF CreatesAccount
      <4>2. \A v \in Users : v # u => account'[v] = account[v]
        BY <1>1, <2>5, <3>2 DEF CreatesAccount
      <4> QED
        BY <2>2, <2>3, <2>4, <3>2, <4>1, <4>2
    <3>3. CASE type = "refreshed" /\ Replaces(old, new)
      <4>1. /\ type \in Creating /\ account' = account
            /\ \A t \in Sessions \ {old, new} : session'[t] = session[t]
            /\ session[new].state = "none" /\ session[old].state = "active"
        BY <3>3 DEF Replaces, Creating, Exists
      <4> QED
        BY <2>2, <2>3, <2>4, <3>3, <4>1
    <3>4. CASE type = "logged_out" /\ Ends(old)
      <4>1. /\ account' = account
            /\ \A t \in Sessions \ {old} : session'[t] = session[t]
            /\ session[old].state = "active"
        BY <3>4 DEF Ends
      <4> QED
        BY <2>2, <2>3, <2>4, <3>4, <4>1
    <3> QED
      BY <3>1, <3>2, <3>3, <3>4 DEF Commits, type, old, new, u
  <2> QED
    BY <2>1, <2>6, StandsStill
<1>4. Stands(r)'
  BY <1>2 DEF Stands, Creates, Registers, Revokes
<1> QED
  BY <1>3, <1>4 DEF WritesStand, Stands

-----------------------------------------------------------------------------
(* The chains of sessions.                                                   *)

\* The fields of a row that the chains are made of.
LEMMA RowFields ==
    ASSUME Typed, NEW s \in Sessions
    PROVE  session[s].parent \in Sessions /\ session[s].root \in Sessions
  BY DEF Typed, Row

ChainInv == ChainsAreClosed /\ ChainsDoNotFork /\ OneInForce /\ LogoutsStand

\* A new chain touches no other.
LEMMA BeginKeepsChains ==
    ASSUME IInv, NEW type, NEW s \in Sessions, NEW u \in Users,
           Begins(type, s, u)
    PROVE  ChainInv'
<1>1. /\ ~ Exists(s) /\ Exists(s)'
      /\ session'[s].state = "active"
      /\ session'[s].parent = s
      /\ session'[s].root = s
      /\ loggedOut' = loggedOut
  BY DEF Begins, Exists
<1>2. \A t \in Sessions : t # s =>
          session'[t] = session[t] /\ (Exists(t)' <=> Exists(t))
  BY DEF Begins, Exists
<1>3. \A t \in Sessions : Exists(t) =>
          /\ t # s
          /\ session[t].parent \in Sessions /\ session[t].parent # s
          /\ session[t].root \in Sessions /\ session[t].root # s
  <2> SUFFICES ASSUME NEW t \in Sessions, Exists(t)
               PROVE  /\ t # s
                      /\ session[t].parent \in Sessions /\ session[t].parent # s
                      /\ session[t].root \in Sessions /\ session[t].root # s
    OBVIOUS
  <2>1. session[t].parent \in Sessions /\ session[t].root \in Sessions
    BY RowFields DEF IInv
  <2>2. Exists(session[t].parent) /\ Exists(session[t].root)
    BY DEF IInv, ChainsAreClosed
  <2> QED
    BY <1>1, <2>1, <2>2
<1>4. ChainsAreClosed'
  <2> SUFFICES ASSUME NEW t \in Sessions, Exists(t)'
               PROVE  /\ Exists(session[t].parent)'
                      /\ Exists(session[t].root)'
                      /\ session'[session'[t].parent].root = session'[t].root
    BY DEF ChainsAreClosed
  <2>1. CASE t = s
    BY <1>1, <2>1 DEF Exists
  <2>2. CASE t # s
    BY <1>2, <1>3, <2>2 DEF IInv, ChainsAreClosed, Exists
  <2> QED
    BY <2>1, <2>2
<1>5. ChainsDoNotFork'
  <2> SUFFICES ASSUME NEW a \in Sessions, NEW b \in Sessions,
                      Exists(a)', Exists(b)', a # b
               PROVE  /\ session'[b].parent = a => session'[a].state = "revoked"
                      /\ session'[a].parent # a /\ session'[b].parent # b
                            => session'[a].parent # session'[b].parent
    BY DEF ChainsDoNotFork
  <2>1. CASE a = s \/ b = s
    BY <1>1, <1>2, <1>3, <2>1
  <2>2. CASE a # s /\ b # s
    BY <1>2, <2>2 DEF IInv, ChainsDoNotFork
  <2> QED
    BY <2>1, <2>2
<1>6. OneInForce'
  <2> SUFFICES ASSUME NEW a \in Sessions, NEW b \in Sessions,
                      Exists(a)', Exists(b)', a # b,
                      session'[a].root = session'[b].root
               PROVE  session'[a].state = "revoked" \/ session'[b].state = "revoked"
    BY DEF OneInForce
  <2>1. CASE a = s \/ b = s
    BY <1>1, <1>2, <1>3, <2>1
  <2>2. CASE a # s /\ b # s
    BY <1>2, <2>2 DEF IInv, OneInForce
  <2> QED
    BY <2>1, <2>2
<1>7. LogoutsStand'
  <2>1. \A a \in loggedOut : a \in Sessions /\ Exists(a) /\ a # s
    BY <1>1 DEF IInv, Typed, LogoutsStand
  <2>2. \A a \in loggedOut' : Exists(a)'
    BY <1>1, <1>2, <2>1
  <2>3. ASSUME NEW a \in loggedOut', NEW t \in Sessions, Exists(t)',
               session'[t].root = session'[a].root
        PROVE  session'[t].state = "revoked"
    <3>1. /\ a \in loggedOut /\ a \in Sessions
          /\ session'[a] = session[a] /\ session[a].root # s
      BY <1>1, <1>2, <1>3, <2>1, <2>3
    <3>2. t # s
      BY <1>1, <2>3, <3>1
    <3> QED
      BY <1>2, <2>3, <3>1, <3>2 DEF IInv, LogoutsStand, LogoutIsFinal
  <2> QED
    BY <2>2, <2>3 DEF LogoutsStand, LogoutIsFinal
<1> QED
  BY <1>4, <1>5, <1>6, <1>7 DEF ChainInv

\* The session that is replaced had no successor and was alone in force.
LEMMA ReplaceKeepsChains ==
    ASSUME IInv, NEW old \in Sessions, NEW new \in Sessions,
           Replaces(old, new)
    PROVE  ChainInv'
<1>1. /\ ~ Exists(new) /\ Exists(new)' /\ Exists(old) /\ Exists(old)'
      /\ old # new
      /\ session[old].state = "active"
      /\ session'[new].state = "active"
      /\ session'[new].parent = old
      /\ session'[new].root = session[old].root
      /\ session'[old].state = "revoked"
      /\ loggedOut' = loggedOut
  BY DEF Replaces, Exists
<1>2. \A t \in Sessions : t # new =>
          /\ Exists(t)' <=> Exists(t)
          /\ session'[t].parent = session[t].parent
          /\ session'[t].root = session[t].root
          /\ t # old => session'[t].state = session[t].state
  <2>1. \A t \in Sessions \ {old, new} : session'[t] = session[t]
    BY DEF Replaces
  <2>2. /\ session'[old].parent = session[old].parent
        /\ session'[old].root = session[old].root
    BY DEF Replaces
  <2> QED
    BY <1>1, <2>1, <2>2 DEF Exists
<1>3. \A t \in Sessions : Exists(t) =>
          /\ t # new
          /\ session[t].parent \in Sessions /\ session[t].parent # new
          /\ session[t].root \in Sessions /\ session[t].root # new
          /\ t # old => session[t].parent # old
          /\ t # old /\ session[t].root = session[old].root =>
                session[t].state = "revoked"
  <2> SUFFICES ASSUME NEW t \in Sessions, Exists(t)
               PROVE  /\ t # new
                      /\ session[t].parent \in Sessions
                      /\ session[t].parent # new
                      /\ session[t].root \in Sessions
                      /\ session[t].root # new
                      /\ t # old => session[t].parent # old
                      /\ t # old /\ session[t].root = session[old].root =>
                            session[t].state = "revoked"
    OBVIOUS
  <2>1. session[t].parent \in Sessions /\ session[t].root \in Sessions
    BY RowFields DEF IInv
  <2>2. Exists(session[t].parent) /\ Exists(session[t].root)
    BY DEF IInv, ChainsAreClosed
  <2>3. t # old => session[t].parent # old
    BY <1>1 DEF IInv, ChainsDoNotFork
  <2>4. t # old /\ session[t].root = session[old].root =>
            session[t].state = "revoked"
    BY <1>1 DEF IInv, OneInForce
  <2> QED
    BY <1>1, <2>1, <2>2, <2>3, <2>4
<1>4. ChainsAreClosed'
  <2> SUFFICES ASSUME NEW t \in Sessions, Exists(t)'
               PROVE  /\ Exists(session[t].parent)'
                      /\ Exists(session[t].root)'
                      /\ session'[session'[t].parent].root = session'[t].root
    BY DEF ChainsAreClosed
  <2>1. \A a \in Sessions : Exists(a)' <=> session'[a].state # "none"
    BY DEF Exists
  <2>2. \A a \in Sessions : Exists(a) =>
            /\ Exists(session[a].parent)
            /\ Exists(session[a].root)
            /\ session[session[a].parent].root = session[a].root
    BY DEF IInv, ChainsAreClosed
  <2>3. CASE t = new
    <3>1. session'[t].parent = old /\ session'[t].root = session[old].root
      BY <1>1, <2>3
    <3>2. Exists(session[old].root) /\ session[old].root \in Sessions
          /\ session[old].root # new
      BY <1>1, <1>3, <2>2
    <3> QED
      BY <1>1, <1>2, <2>1, <3>1, <3>2 DEF Exists
  <2>4. CASE t # new
    <3>1. /\ Exists(t)
          /\ session'[t].parent = session[t].parent
          /\ session'[t].root = session[t].root
      BY <1>2, <2>4
    <3> QED
      BY <1>2, <1>3, <2>1, <2>2, <3>1 DEF Exists
  <2> QED
    BY <2>3, <2>4
<1>5. ChainsDoNotFork'
  <2> SUFFICES ASSUME NEW a \in Sessions, NEW b \in Sessions,
                      Exists(a)', Exists(b)', a # b
               PROVE  /\ session'[b].parent = a => session'[a].state = "revoked"
                      /\ session'[a].parent # a /\ session'[b].parent # b
                            => session'[a].parent # session'[b].parent
    BY DEF ChainsDoNotFork
  <2>1. CASE a = new
    BY <1>1, <1>2, <1>3, <2>1
  <2>2. CASE b = new
    BY <1>1, <1>2, <1>3, <2>2
  <2>3. CASE a # new /\ b # new
    BY <1>1, <1>2, <2>3 DEF IInv, ChainsDoNotFork
  <2> QED
    BY <2>1, <2>2, <2>3
<1>6. OneInForce'
  <2> SUFFICES ASSUME NEW a \in Sessions, NEW b \in Sessions,
                      Exists(a)', Exists(b)', a # b,
                      session'[a].root = session'[b].root
               PROVE  session'[a].state = "revoked" \/ session'[b].state = "revoked"
    BY DEF OneInForce
  <2>1. CASE a = new \/ b = new
    BY <1>1, <1>2, <1>3, <2>1
  <2>2. CASE a # new /\ b # new
    BY <1>1, <1>2, <2>2 DEF IInv, OneInForce
  <2> QED
    BY <2>1, <2>2
<1>7. LogoutsStand'
  <2>1. \A a \in loggedOut : a \in Sessions /\ Exists(a) /\ a # new
    BY <1>1 DEF IInv, Typed, LogoutsStand
  <2>2. \A a \in loggedOut' : Exists(a)'
    BY <1>1, <1>2, <2>1
  <2>3. ASSUME NEW a \in loggedOut', NEW t \in Sessions, Exists(t)',
               session'[t].root = session'[a].root
        PROVE  session'[t].state = "revoked"
    <3>1. a \in loggedOut /\ session'[a].root = session[a].root
      BY <1>1, <1>2, <2>1, <2>3
    <3>2. session[a].root # session[old].root
      BY <1>1, <3>1 DEF IInv, LogoutsStand, LogoutIsFinal
    <3>3. t # new
      BY <1>1, <2>3, <3>1, <3>2
    <3>4. session[t].state = "revoked" /\ t # old
      BY <1>1, <1>2, <2>3, <3>1, <3>2, <3>3
      DEF IInv, LogoutsStand, LogoutIsFinal
    <3> QED
      BY <1>2, <3>3, <3>4
  <2> QED
    BY <2>2, <2>3 DEF LogoutsStand, LogoutIsFinal
<1> QED
  BY <1>4, <1>5, <1>6, <1>7 DEF ChainInv

\* The session that a logout ends was alone in force, so none is left.
LEMMA EndKeepsChains ==
    ASSUME IInv, NEW s \in Sessions, Ends(s)
    PROVE  ChainInv'
<1>1. /\ Exists(s) /\ session[s].state = "active"
      /\ session'[s].state = "revoked"
      /\ loggedOut' \subseteq loggedOut \union {s}
  BY DEF Ends, Exists
<1>2. \A t \in Sessions :
          /\ Exists(t)' <=> Exists(t)
          /\ session'[t].parent = session[t].parent
          /\ session'[t].root = session[t].root
          /\ t # s => session'[t].state = session[t].state
  <2>1. \A t \in Sessions \ {s} : session'[t] = session[t]
    BY DEF Ends
  <2>2. /\ session'[s].parent = session[s].parent
        /\ session'[s].root = session[s].root
    BY DEF Ends
  <2> QED
    BY <1>1, <2>1, <2>2 DEF Exists
<1>3. ChainsAreClosed'
  <2>1. \A t \in Sessions :
            session[t].parent \in Sessions /\ session[t].root \in Sessions
    BY RowFields DEF IInv
  <2> QED
    BY <1>2, <2>1 DEF IInv, ChainsAreClosed, Exists
<1>4. ChainsDoNotFork'
  BY <1>1, <1>2 DEF IInv, ChainsDoNotFork
<1>5. OneInForce'
  BY <1>1, <1>2 DEF IInv, OneInForce
<1>6. LogoutsStand'
  <2>1. \A a \in loggedOut' : a \in Sessions /\ Exists(a)'
    BY <1>1, <1>2 DEF IInv, Typed, LogoutsStand
  <2>2. ASSUME NEW a \in loggedOut', NEW t \in Sessions, Exists(t)',
               session'[t].root = session'[a].root
        PROVE  session'[t].state = "revoked"
    <3>1. Exists(t) /\ session[t].root = session[a].root
      BY <1>2, <2>1, <2>2
    <3>2. CASE a = s
      <4>1. t = s \/ session[t].state = "revoked"
        BY <1>1, <3>1, <3>2 DEF IInv, OneInForce
      <4> QED
        BY <1>1, <1>2, <4>1
    <3>3. CASE a # s
      <4>1. session[t].state = "revoked"
        BY <1>1, <3>1, <3>3 DEF IInv, LogoutsStand, LogoutIsFinal
      <4> QED
        BY <1>1, <1>2, <4>1
    <3> QED
      BY <3>2, <3>3
  <2> QED
    BY <2>1, <2>2 DEF LogoutsStand, LogoutIsFinal
<1> QED
  BY <1>3, <1>4, <1>5, <1>6 DEF ChainInv

\* An expiry changes nothing of a chain.
LEMMA CalmKeepsChains ==
    ASSUME IInv,
           loggedOut' = loggedOut,
           \A s \in Sessions : /\ session'[s].state = session[s].state
                               /\ session'[s].user = session[s].user
                               /\ session'[s].parent = session[s].parent
                               /\ session'[s].root = session[s].root
    PROVE  ChainInv'
<1>1. \A t \in Sessions :
          session[t].parent \in Sessions /\ session[t].root \in Sessions
  BY RowFields DEF IInv
<1>2. ChainsAreClosed'
  BY <1>1 DEF IInv, ChainsAreClosed, Exists
<1>3. ChainsDoNotFork' /\ OneInForce'
  BY DEF IInv, ChainsDoNotFork, OneInForce, Exists
<1>4. LogoutsStand'
  BY DEF IInv, Typed, LogoutsStand, LogoutIsFinal, Exists
<1> QED
  BY <1>2, <1>3, <1>4 DEF ChainInv

-----------------------------------------------------------------------------
(* The events of the sessions and of the accounts.                           *)

EventInv == BeginningsMatch /\ EndsMatch

\* The events of other sessions are as before, and so is the predecessor of a
\* session that existed: only what the step does to one or two sessions is left
\* to show.
LEMMA EventsOfOthers ==
    ASSUME NEW e \in Events, Records(e)
    PROVE  /\ \A type \in Types, s \in Sessions :
                 events'[<<type, s>>] =
                     IF <<type, s>> = e THEN 1 ELSE events[<<type, s>>]
           /\ \A u \in Users :
                 events'[<<"created", u>>] =
                     IF <<"created", u>> = e THEN 1 ELSE events[<<"created", u>>]
  BY DEF Records, Events

\* A session that begins has the event of its beginning.
LEMMA BeginKeepsEvents ==
    ASSUME IInv, NEW type, NEW s \in Sessions, NEW u \in Users,
           Begins(type, s, u)
    PROVE  EventInv'
<1>1. /\ ~ Exists(s) /\ Exists(s)'
      /\ session[s].state = "none"
      /\ session'[s].state = "active"
      /\ session'[s].parent = s
      /\ type \in Creating /\ type # "refreshed" /\ type \in Types
  BY DEF Begins, Exists, Creating, Types
<1>2. \A t \in Sessions : t # s =>
          session'[t] = session[t] /\ (Exists(t)' <=> Exists(t))
  BY DEF Begins, Exists
<1>3. \A c \in Types, t \in Sessions :
          events'[<<c, t>>] =
              IF c = type /\ t = s THEN 1 ELSE events[<<c, t>>]
  <2>1. <<type, s>> \in Events /\ Records(<<type, s>>)
    BY <1>1 DEF Begins, Events
  <2> QED
    BY <2>1, EventsOfOthers
<1>4. BeginningsMatch'
  <2> SUFFICES ASSUME NEW t \in Sessions
               PROVE  /\ ~ Exists(t)' =>
                            \A c \in Creating : events'[<<c, t>>] = 0
                      /\ Exists(t)' =>
                            \E begun \in Creating :
                              /\ begun = "refreshed" <=> session'[t].parent # t
                              /\ \A c \in Creating : events'[<<c, t>>] =
                                    IF c = begun THEN 1 ELSE 0
    BY DEF BeginningsMatch
  <2>1. Creating \subseteq Types
    BY DEF Types
  <2>2. CASE t = s
    <3>1. \A c \in Creating : events[<<c, t>>] = 0
      BY <1>1, <2>2 DEF IInv, BeginningsMatch
    <3>2. \A c \in Creating : events'[<<c, t>>] = IF c = type THEN 1 ELSE 0
      BY <1>3, <2>1, <2>2, <3>1
    <3> QED
      BY <1>1, <2>2, <3>2
  <2>3. CASE t # s
    <3>1. \A c \in Creating : events'[<<c, t>>] = events[<<c, t>>]
      BY <1>3, <2>1, <2>3
    <3> QED
      BY <1>2, <2>3, <3>1 DEF IInv, BeginningsMatch
  <2> QED
    BY <2>2, <2>3
<1>5. EndsMatch'
  <2>1. \A t \in Sessions : t # s => (Replaced(t)' <=> Replaced(t))
    BY <1>1, <1>2 DEF Replaced
  <2>2. \A t \in Sessions :
            events'[<<"logged_out", t>>] = events[<<"logged_out", t>>]
    BY <1>1, <1>3 DEF Types, Creating
  <2>3. ASSUME NEW t \in Sessions
        PROVE  events'[<<"logged_out", t>>] =
                  IF session'[t].state = "revoked" /\ ~ Replaced(t)'
                  THEN 1 ELSE 0
    <3>1. CASE t = s
      BY <1>1, <2>2, <3>1 DEF IInv, EndsMatch
    <3>2. CASE t # s
      BY <1>2, <2>1, <2>2, <3>2 DEF IInv, EndsMatch
    <3> QED
      BY <3>1, <3>2
  <2> QED
    BY <2>3 DEF EndsMatch
<1> QED
  BY <1>4, <1>5 DEF EventInv

\* What is replaced is revoked without an event of its own.
LEMMA ReplaceKeepsEvents ==
    ASSUME IInv, NEW old \in Sessions, NEW new \in Sessions,
           Replaces(old, new)
    PROVE  EventInv'
<1>1. /\ ~ Exists(new) /\ Exists(new)' /\ Exists(old)
      /\ old # new
      /\ session[new].state = "none"
      /\ session[old].state = "active"
      /\ session'[new].state = "active"
      /\ session'[new].parent = old
      /\ session'[old].state = "revoked"
  BY DEF Replaces, Exists
<1>2. \A t \in Sessions : t # new =>
          /\ Exists(t)' <=> Exists(t)
          /\ session'[t].parent = session[t].parent
          /\ t # old => session'[t].state = session[t].state
  <2>1. \A t \in Sessions \ {old, new} : session'[t] = session[t]
    BY DEF Replaces
  <2>2. session'[old].parent = session[old].parent
    BY DEF Replaces
  <2> QED
    BY <1>1, <2>1, <2>2 DEF Exists
<1>3. \A c \in Types, t \in Sessions :
          events'[<<c, t>>] =
              IF c = "refreshed" /\ t = new THEN 1 ELSE events[<<c, t>>]
  <2>1. <<"refreshed", new>> \in Events /\ Records(<<"refreshed", new>>)
    BY DEF Replaces, Events, Types, Creating
  <2> QED
    BY <2>1, EventsOfOthers
<1>4. BeginningsMatch'
  <2> SUFFICES ASSUME NEW t \in Sessions
               PROVE  /\ ~ Exists(t)' =>
                            \A c \in Creating : events'[<<c, t>>] = 0
                      /\ Exists(t)' =>
                            \E begun \in Creating :
                              /\ begun = "refreshed" <=> session'[t].parent # t
                              /\ \A c \in Creating : events'[<<c, t>>] =
                                    IF c = begun THEN 1 ELSE 0
    BY DEF BeginningsMatch
  <2>1. Creating \subseteq Types /\ "refreshed" \in Creating
    BY DEF Types, Creating
  <2>2. CASE t = new
    <3>1. \A c \in Creating : events[<<c, t>>] = 0
      BY <1>1, <2>2 DEF IInv, BeginningsMatch
    <3>2. \A c \in Creating : events'[<<c, t>>] =
              IF c = "refreshed" THEN 1 ELSE 0
      BY <1>3, <2>1, <2>2, <3>1
    <3> QED
      BY <1>1, <2>1, <2>2, <3>2
  <2>3. CASE t # new
    <3>1. \A c \in Creating : events'[<<c, t>>] = events[<<c, t>>]
      BY <1>3, <2>1, <2>3
    <3> QED
      BY <1>2, <2>3, <3>1 DEF IInv, BeginningsMatch
  <2> QED
    BY <2>2, <2>3
<1>5. EndsMatch'
  <2>1. \A t \in Sessions : events'[<<"logged_out", t>>] = events[<<"logged_out", t>>]
    BY <1>3 DEF Types, Creating
  <2>2. Replaced(old)'
    BY <1>1 DEF Replaced
  <2>3. \A t \in Sessions : t # old => (Replaced(t)' <=> Replaced(t))
    BY <1>1, <1>2 DEF Replaced
  <2>4. ASSUME NEW t \in Sessions
        PROVE  events'[<<"logged_out", t>>] =
                  IF session'[t].state = "revoked" /\ ~ Replaced(t)'
                  THEN 1 ELSE 0
    <3>1. CASE t = old
      BY <1>1, <2>1, <2>2, <3>1 DEF IInv, EndsMatch
    <3>2. CASE t = new
      BY <1>1, <2>1, <3>2 DEF IInv, EndsMatch
    <3>3. CASE t # old /\ t # new
      BY <1>2, <2>1, <2>3, <3>3 DEF IInv, EndsMatch
    <3> QED
      BY <3>1, <3>2, <3>3
  <2> QED
    BY <2>4 DEF EndsMatch
<1> QED
  BY <1>4, <1>5 DEF EventInv

\* A logout leaves the event of the end.
LEMMA EndKeepsEvents ==
    ASSUME IInv, NEW s \in Sessions, Ends(s)
    PROVE  EventInv'
<1>1. /\ Exists(s) /\ session[s].state = "active"
      /\ session'[s].state = "revoked"
  BY DEF Ends, Exists
<1>2. \A t \in Sessions :
          /\ Exists(t)' <=> Exists(t)
          /\ session'[t].parent = session[t].parent
          /\ t # s => session'[t].state = session[t].state
  <2>1. \A t \in Sessions \ {s} : session'[t] = session[t]
    BY DEF Ends
  <2>2. session'[s].parent = session[s].parent
    BY DEF Ends
  <2> QED
    BY <1>1, <2>1, <2>2 DEF Exists
<1>3. \A c \in Types, t \in Sessions :
          events'[<<c, t>>] =
              IF c = "logged_out" /\ t = s THEN 1 ELSE events[<<c, t>>]
  <2>1. <<"logged_out", s>> \in Events /\ Records(<<"logged_out", s>>)
    BY DEF Ends, Events, Types, Creating
  <2> QED
    BY <2>1, EventsOfOthers
<1>4. BeginningsMatch'
  <2>1. \A c \in Creating, t \in Sessions : events'[<<c, t>>] = events[<<c, t>>]
    BY <1>3 DEF Types, Creating
  <2> QED
    BY <1>2, <2>1 DEF IInv, BeginningsMatch
<1>5. EndsMatch'
  <2>1. \A t \in Sessions : Replaced(t)' <=> Replaced(t)
    BY <1>2 DEF Replaced
  <2>2. ~ Replaced(s)
    BY <1>1 DEF Replaced, IInv, ChainsDoNotFork
  <2>3. \A t \in Sessions : events'[<<"logged_out", t>>] =
            IF t = s THEN 1 ELSE events[<<"logged_out", t>>]
    BY <1>3 DEF Types
  <2>4. ASSUME NEW t \in Sessions
        PROVE  events'[<<"logged_out", t>>] =
                  IF session'[t].state = "revoked" /\ ~ Replaced(t)'
                  THEN 1 ELSE 0
    <3>1. CASE t = s
      BY <1>1, <2>1, <2>2, <2>3, <3>1
    <3>2. CASE t # s
      BY <1>2, <2>1, <2>3, <3>2 DEF IInv, EndsMatch
    <3> QED
      BY <3>1, <3>2
  <2> QED
    BY <2>4 DEF EndsMatch
<1> QED
  BY <1>4, <1>5 DEF EventInv

\* A step that changes neither the chains nor the events of sessions.
LEMMA CalmKeepsEvents ==
    ASSUME IInv,
           \A c \in Types, s \in Sessions : events'[<<c, s>>] = events[<<c, s>>],
           \A s \in Sessions : /\ session'[s].state = session[s].state
                               /\ session'[s].user = session[s].user
                               /\ session'[s].parent = session[s].parent
                               /\ session'[s].root = session[s].root
    PROVE  EventInv'
<1>1. \A s \in Sessions : /\ Exists(s)' <=> Exists(s)
                          /\ Replaced(s)' <=> Replaced(s)
  BY DEF Exists, Replaced
<1>2. BeginningsMatch'
  <2>1. \A c \in Creating, s \in Sessions : events'[<<c, s>>] = events[<<c, s>>]
    BY DEF Types
  <2> QED
    BY <1>1, <2>1 DEF IInv, BeginningsMatch
<1>3. EndsMatch'
  <2>1. \A s \in Sessions : events'[<<"logged_out", s>>] = events[<<"logged_out", s>>]
    BY DEF Types
  <2> QED
    BY <1>1, <2>1 DEF IInv, EndsMatch
<1> QED
  BY <1>2, <1>3 DEF EventInv

\* The registrations of an account are as before if no session is registered
\* and no session changes hands.
LEMMA RegistrationsKept ==
    ASSUME IInv,
           \A s \in Sessions : events'[<<"registered", s>>] = events[<<"registered", s>>],
           \A s \in Sessions : Exists(s) => session'[s].user = session[s].user
    PROVE  \A u \in Users : Registrations(u)' = Registrations(u)
<1>1. \A s \in Sessions : ~ Exists(s) => events[<<"registered", s>>] = 0
  BY DEF IInv, BeginningsMatch, Creating
<1> SUFFICES ASSUME NEW u \in Users
             PROVE  Registrations(u)' = Registrations(u)
  OBVIOUS
<1>2. ASSUME NEW s \in Sessions
      PROVE  s \in Registrations(u)' <=> s \in Registrations(u)
  <2>1. s \in Registrations(u)' <=>
            events'[<<"registered", s>>] > 0 /\ session'[s].user = u
    BY DEF Registrations
  <2>2. s \in Registrations(u) <=>
            events[<<"registered", s>>] > 0 /\ session[s].user = u
    BY DEF Registrations
  <2>3. CASE Exists(s)
    BY <2>1, <2>2, <2>3
  <2>4. CASE ~ Exists(s)
    BY <1>1, <2>1, <2>2, <2>4
  <2> QED
    BY <2>3, <2>4
<1>3. Registrations(u)' \subseteq Sessions /\ Registrations(u) \subseteq Sessions
  BY DEF Registrations
<1> QED
  BY <1>2, <1>3

\* A registration is the origin of an account that had none.
LEMMA BeginKeepsOrigins ==
    ASSUME IInv, NEW type, NEW s \in Sessions, NEW u \in Users,
           Begins(type, s, u), bootstrap' = bootstrap
    PROVE  OriginsMatch'
<1>1. /\ ~ Exists(s) /\ session'[s].user = u
      /\ type \in Types /\ type # "refreshed" /\ type \in {"registered", "logged_in"}
      /\ \A t \in Sessions : t # s => session'[t] = session[t]
  BY DEF Begins, Types, Creating
<1>2. /\ \A c \in Types, t \in Sessions :
             events'[<<c, t>>] = IF c = type /\ t = s THEN 1 ELSE events[<<c, t>>]
      /\ \A v \in Users : events'[<<"created", v>>] = events[<<"created", v>>]
  <2>1. <<type, s>> \in Events /\ Records(<<type, s>>)
    BY <1>1 DEF Begins, Events
  <2>2. type # "created"
    BY <1>1
  <2> QED
    BY <2>1, <2>2, EventsOfOthers
<1>3. "registered" \in Types
  BY DEF Types, Creating
<1>4. CASE type = "logged_in"
  <2>1. \A v \in Users : Registrations(v)' = Registrations(v)
    BY <1>1, <1>2, <1>3, <1>4, RegistrationsKept
  <2>2. account' = account
    BY <1>4 DEF Begins
  <2> QED
    BY <1>2, <2>1, <2>2 DEF IInv, OriginsMatch
<1>5. CASE type = "registered"
  <2>1. /\ ~ HasAccount(u)
        /\ account' = [account EXCEPT ![u] = "user"]
        /\ account \in [Users -> Accounts]
    BY <1>5 DEF Begins, IInv, Typed
  <2>2. /\ account[u] = "none" /\ account'[u] = "user"
        /\ \A v \in Users : v # u => account'[v] = account[v]
    BY <2>1 DEF HasAccount
  <2>3. \A t \in Sessions : events'[<<"registered", t>>] =
            IF t = s THEN 1 ELSE events[<<"registered", t>>]
    BY <1>2, <1>3, <1>5
  <2>4. events[<<"registered", s>>] = 0
    BY <1>1 DEF IInv, BeginningsMatch, Creating
  <2>5. Registrations(u) = {}
    BY <2>2 DEF IInv, OriginsMatch
  <2>6. \A v \in Users, t \in Sessions :
            t \in Registrations(v)' <=> IF t = s THEN v = u
                                        ELSE t \in Registrations(v)
    <3> SUFFICES ASSUME NEW v \in Users, NEW t \in Sessions
                 PROVE  t \in Registrations(v)' <=>
                            IF t = s THEN v = u ELSE t \in Registrations(v)
      OBVIOUS
    <3>1. t \in Registrations(v)' <=>
              events'[<<"registered", t>>] > 0 /\ session'[t].user = v
      BY DEF Registrations
    <3>2. t \in Registrations(v) <=>
              events[<<"registered", t>>] > 0 /\ session[t].user = v
      BY DEF Registrations
    <3>3. CASE t = s
      BY <1>1, <2>3, <3>1, <3>3
    <3>4. CASE t # s
      BY <1>1, <2>3, <3>1, <3>2, <3>4
    <3> QED
      BY <3>3, <3>4
  <2>7. \A v \in Users : /\ Registrations(v) \subseteq Sessions
                         /\ Registrations(v)' \subseteq Sessions
                         /\ s \notin Registrations(v)
    BY <2>4 DEF Registrations
  <2>8. Registrations(u)' = {s}
    BY <2>5, <2>6, <2>7
  <2>9. \A v \in Users : v # u => Registrations(v)' = Registrations(v)
    <3> SUFFICES ASSUME NEW v \in Users, v # u
                 PROVE  Registrations(v)' = Registrations(v)
      OBVIOUS
    <3>1. \A t \in Sessions : t \in Registrations(v)' <=> t \in Registrations(v)
      BY <2>6, <2>7
    <3> QED
      BY <2>7, <3>1
  <2>10. ASSUME NEW v \in Users
         PROVE /\ IF account'[v] = "user"
                  THEN \E t \in Sessions : Registrations(v)' = {t}
                  ELSE Registrations(v)' = {}
               /\ events'[<<"created", v>>] =
                      IF account'[v] = "passwordless" THEN 1 ELSE 0
               /\ bootstrap'[v].created = IF account'[v] = "admin" THEN 1 ELSE 0
    <3>1. CASE v = u
      BY <1>2, <2>2, <2>8, <3>1 DEF IInv, OriginsMatch
    <3>2. CASE v # u
      BY <1>2, <2>2, <2>9, <3>2 DEF IInv, OriginsMatch
    <3> QED
      BY <3>1, <3>2
  <2> QED
    BY <2>10 DEF OriginsMatch
<1> QED
  BY <1>1, <1>4, <1>5

\* So is POST /users, which leaves the sessions alone.
LEMMA CreateKeepsOrigins ==
    ASSUME IInv, NEW u \in Users, CreatesAccount(u), bootstrap' = bootstrap
    PROVE  OriginsMatch' /\ EventInv'
<1>1. /\ session' = session
      /\ account[u] = "none"
      /\ account \in [Users -> Accounts]
      /\ account' = [account EXCEPT ![u] = "passwordless"]
  BY DEF CreatesAccount, HasAccount, IInv, Typed
<1>2. /\ \A c \in Types, t \in Sessions : events'[<<c, t>>] = events[<<c, t>>]
      /\ \A v \in Users : events'[<<"created", v>>] =
             IF v = u THEN 1 ELSE events[<<"created", v>>]
  <2>1. <<"created", u>> \in Events /\ Records(<<"created", u>>)
    BY DEF CreatesAccount, Events
  <2>2. "created" \notin Types
    BY DEF Types, Creating
  <2> QED
    BY <2>1, <2>2, EventsOfOthers
<1>3. \A v \in Users : Registrations(v)' = Registrations(v)
  BY <1>1, <1>2, RegistrationsKept DEF Types, Creating
<1>4. /\ account'[u] = "passwordless"
      /\ \A v \in Users : v # u => account'[v] = account[v]
  BY <1>1
<1>5. OriginsMatch'
  <2>1. ASSUME NEW v \in Users
         PROVE /\ IF account'[v] = "user"
                  THEN \E t \in Sessions : Registrations(v)' = {t}
                  ELSE Registrations(v)' = {}
               /\ events'[<<"created", v>>] =
                      IF account'[v] = "passwordless" THEN 1 ELSE 0
               /\ bootstrap'[v].created = IF account'[v] = "admin" THEN 1 ELSE 0
    <3>1. CASE v = u
      BY <1>1, <1>2, <1>3, <1>4, <3>1 DEF IInv, OriginsMatch
    <3>2. CASE v # u
      BY <1>2, <1>3, <1>4, <3>2 DEF IInv, OriginsMatch
    <3> QED
      BY <3>1, <3>2
  <2> QED
    BY <2>1 DEF OriginsMatch
<1>6. EventInv'
  BY <1>1, <1>2, CalmKeepsEvents
<1> QED
  BY <1>5, <1>6

\* Steps that leave the accounts alone and register no session.
LEMMA CalmKeepsOrigins ==
    ASSUME IInv,
           account' = account,
           \A s \in Sessions : events'[<<"registered", s>>] = events[<<"registered", s>>],
           \A u \in Users : events'[<<"created", u>>] = events[<<"created", u>>],
           \A s \in Sessions : Exists(s) => session'[s].user = session[s].user,
           \A u \in Users : bootstrap'[u].created = bootstrap[u].created
    PROVE  OriginsMatch'
<1>1. \A u \in Users : Registrations(u)' = Registrations(u)
  BY RegistrationsKept
<1> QED
  BY <1>1 DEF IInv, OriginsMatch

-----------------------------------------------------------------------------
\* A record of two fields, each set anew.
LEMMA StartSetAnew ==
    ASSUME NEW A, NEW B, NEW x \in A, NEW y \in B,
           NEW s \in [created : A, started : B]
    PROVE  LET t == [s EXCEPT !.created = x, !.started = y]
           IN  /\ t \in [created : A, started : B]
               /\ t.created = x /\ t.started = y
  OBVIOUS

\* What CreateAdmin does to an account and to the history of its starts.
LEMMA CreateAdminEffect ==
    ASSUME IInv, NEW r \in Requests, NEW answered \in BOOLEAN,
           CreateAdmin(r, answered)
    PROVE  \E u \in Users :
              /\ request' \in [Requests -> Request]
              /\ Others(r)
              /\ ~ InTransaction(r) /\ ~ InTransaction(r)'
              /\ ~ EmailIsLocked(r, u)
              /\ account' \in [Users -> Accounts]
              /\ \A v \in Users : v # u => account'[v] = account[v]
              /\ account'[u] = IF HasAccount(u) THEN account[u] ELSE "admin"
              /\ bootstrap' \in [Users -> Starts]
              /\ \A v \in Users : v # u => bootstrap'[v] = bootstrap[v]
              /\ bootstrap'[u].created = IF HasAccount(u)
                                         THEN bootstrap[u].created
                                         ELSE UpTo(2, bootstrap[u].created)
              /\ bootstrap'[u].started \in {bootstrap[u].started,
                     IF HasAccount(u) THEN "overtaken" ELSE "made"}
              /\ UNCHANGED <<session, events, issued, loggedOut>>
<1> DEFINE u == request[r].user
<1>1. Typed /\ request[r].pc = "create_admin"
  BY DEF IInv, CreateAdmin
<1>2. u \in Users
  BY <1>1, RecordOf DEF Waiting
<1>3. /\ request' \in [Requests -> Request]
      /\ Others(r)
      /\ ~ InTransaction(r) /\ ~ InTransaction(r)'
  BY <1>1, FinishEffect DEF CreateAdmin, InTransaction
<1>4. /\ ~ EmailIsLocked(r, u)
      /\ account' = IF HasAccount(u) THEN account
                    ELSE [account EXCEPT ![u] = "admin"]
      /\ UNCHANGED <<session, events, issued, loggedOut>>
  BY DEF CreateAdmin
<1> DEFINE a == IF HasAccount(u) THEN bootstrap[u].created
                ELSE UpTo(2, bootstrap[u].created)
           b == IF ~answered THEN bootstrap[u].started
                ELSE IF HasAccount(u) THEN "overtaken" ELSE "made"
           start == [bootstrap[u] EXCEPT !.created = a, !.started = b]
<1>5. bootstrap \in [Users -> Starts] /\ account \in [Users -> Accounts]
  BY <1>1 DEF Typed
<1>6. bootstrap' = [bootstrap EXCEPT ![u] = start]
  BY <1>2, <1>5 DEF CreateAdmin
<1>7. a \in 0 .. 2
  <2>1. bootstrap[u].created \in 0 .. 2
    BY <1>2, <1>5 DEF Starts
  <2> QED
    BY <2>1 DEF UpTo
<1>8. b \in Ways
  <2>1. bootstrap[u].started \in Ways
    BY <1>2, <1>5 DEF Starts
  <2> QED
    BY <2>1 DEF Ways
<1>9. bootstrap[u] \in Starts
  BY <1>2, <1>5
<1> HIDE DEF a, b
<1>10. start \in Starts /\ start.created = a /\ start.started = b
  <2>1. bootstrap[u] \in [created : 0 .. 2, started : Ways]
    BY <1>9 DEF Starts
  <2> QED
    BY <1>7, <1>8, <2>1, StartSetAnew DEF Starts
<1> HIDE DEF start, u
<1>12. /\ bootstrap' \in [Users -> Starts]
       /\ \A v \in Users : v # u => bootstrap'[v] = bootstrap[v]
       /\ bootstrap'[u] = start
  BY <1>2, <1>5, <1>6, <1>10
<1>13. /\ account' \in [Users -> Accounts]
       /\ \A v \in Users : v # u => account'[v] = account[v]
       /\ account'[u] = IF HasAccount(u) THEN account[u] ELSE "admin"
  BY <1>2, <1>4, <1>5 DEF Accounts
<1>14. /\ bootstrap'[u].created = a
       /\ bootstrap'[u].started = b
  BY <1>10, <1>12
<1>15. bootstrap'[u].started \in {bootstrap[u].started,
           IF HasAccount(u) THEN "overtaken" ELSE "made"}
  BY <1>14 DEF b
<1>16. bootstrap'[u].created = IF HasAccount(u) THEN bootstrap[u].created
                               ELSE UpTo(2, bootstrap[u].created)
  BY <1>14 DEF a
<1> QED
  BY <1>2, <1>3, <1>4, <1>12, <1>13, <1>15, <1>16

\* An account that exists is never changed.
AccountsStay == \A u \in Users : HasAccount(u) => account'[u] = account[u]

\* A step that changes neither an account that exists nor what became of the
\* starts keeps what they left behind.
LEMMA AccountsStayKeepsStarts ==
    ASSUME IInv, AccountsStay, bootstrap' = bootstrap
    PROVE  StartLeavesAnAccount'
  BY DEF IInv, AccountsStay, StartLeavesAnAccount, HasPassword, HasAccount

\* A process that bootstraps an administrator does not come between a
\* transaction and its commit.
LEMMA CreateAdminKeepsInvariant ==
    ASSUME IInv, NEW r \in Requests, NEW answered \in BOOLEAN,
           CreateAdmin(r, answered)
    PROVE  IInv'
<1>1. PICK u \in Users :
          /\ request' \in [Requests -> Request]
          /\ Others(r)
          /\ ~ InTransaction(r) /\ ~ InTransaction(r)'
          /\ ~ EmailIsLocked(r, u)
          /\ account' \in [Users -> Accounts]
          /\ \A v \in Users : v # u => account'[v] = account[v]
          /\ account'[u] = IF HasAccount(u) THEN account[u] ELSE "admin"
          /\ bootstrap' \in [Users -> Starts]
          /\ \A v \in Users : v # u => bootstrap'[v] = bootstrap[v]
          /\ bootstrap'[u].created = IF HasAccount(u)
                                     THEN bootstrap[u].created
                                     ELSE UpTo(2, bootstrap[u].created)
          /\ bootstrap'[u].started \in {bootstrap[u].started,
                 IF HasAccount(u) THEN "overtaken" ELSE "made"}
          /\ UNCHANGED <<session, events, issued, loggedOut>>
  BY CreateAdminEffect
<1>2. Typed'
  BY <1>1 DEF IInv, Typed
<1>3. LocksExclude'
  BY <1>1, LeavingKeepsExclusion DEF IInv
<1>4. WritesStand'
  <2>1. ASSUME NEW q \in Requests \ {r} PROVE Stands(q)'
    <3>1. request'[q] = request[q]
      BY <1>1 DEF Others
    <3>2. Registers(q) => request[q].user # u
      BY <1>1 DEF EmailIsLocked, Registers
    <3> QED
      BY <1>1, <3>1, <3>2, NowStands, StandsStill
  <2>2. Stands(r)'
    BY <1>1 DEF Stands, Creates, Registers, Revokes
  <2> QED
    BY <2>1, <2>2 DEF WritesStand, Stands
<1>5. ChainInv'
  BY <1>1, CalmKeepsChains
<1>6. EventInv'
  BY <1>1, CalmKeepsEvents
<1>7. OriginsMatch'
  <2>1. \A v \in Users : Registrations(v)' = Registrations(v)
    BY <1>1, RegistrationsKept
  <2>2. ASSUME NEW v \in Users
        PROVE /\ IF account'[v] = "user"
                 THEN \E t \in Sessions : Registrations(v)' = {t}
                 ELSE Registrations(v)' = {}
              /\ events'[<<"created", v>>] =
                     IF account'[v] = "passwordless" THEN 1 ELSE 0
              /\ bootstrap'[v].created = IF account'[v] = "admin" THEN 1 ELSE 0
    <3>1. /\ IF account[v] = "user"
             THEN \E t \in Sessions : Registrations(v) = {t}
             ELSE Registrations(v) = {}
          /\ events[<<"created", v>>] =
                 IF account[v] = "passwordless" THEN 1 ELSE 0
          /\ bootstrap[v].created = IF account[v] = "admin" THEN 1 ELSE 0
      BY DEF IInv, OriginsMatch
    <3>2. CASE v = u /\ ~ HasAccount(u)
      <4>1. account[v] = "none" /\ account'[v] = "admin"
        BY <1>1, <3>2 DEF HasAccount
      <4>2. bootstrap'[v].created = 1
        BY <1>1, <3>1, <3>2, <4>1 DEF UpTo
      <4> QED
        BY <1>1, <2>1, <3>1, <4>1, <4>2
    <3>3. CASE v # u \/ HasAccount(u)
      <4>1. account'[v] = account[v] /\ bootstrap'[v].created = bootstrap[v].created
        BY <1>1, <3>3
      <4> QED
        BY <1>1, <2>1, <3>1, <4>1
    <3> QED
      BY <3>2, <3>3
  <2> QED
    BY <2>2 DEF OriginsMatch
<1>8. StartLeavesAnAccount'
  <2> SUFFICES ASSUME NEW v \in Users
               PROVE  /\ bootstrap'[v].started = "made" => account'[v] = "admin"
                      /\ bootstrap'[v].started = "found" =>
                            account'[v] \in {"user", "admin"}
                      /\ bootstrap'[v].started = "overtaken" =>
                            account'[v] # "none"
    BY DEF StartLeavesAnAccount, HasPassword, HasAccount
  <2>1. /\ bootstrap[v].started = "made" => account[v] = "admin"
        /\ bootstrap[v].started = "found" => account[v] \in {"user", "admin"}
        /\ bootstrap[v].started = "overtaken" => account[v] # "none"
    BY DEF IInv, StartLeavesAnAccount, HasPassword, HasAccount
  <2>2. CASE v # u
    BY <1>1, <2>1, <2>2
  <2>3. CASE v = u /\ ~ HasAccount(u)
    BY <1>1, <2>1, <2>3 DEF HasAccount
  <2>4. CASE v = u /\ HasAccount(u)
    BY <1>1, <2>1, <2>4 DEF HasAccount
  <2> QED
    BY <2>2, <2>3, <2>4
<1> QED
  BY <1>2, <1>3, <1>4, <1>5, <1>6, <1>7, <1>8 DEF IInv, ChainInv, EventInv

\* The steps that prepare a commit leave the tables alone, and what FindAdmin
\* records of a start is one that found an account with a password.
LEMMA FindAdminEffect ==
    ASSUME IInv, NEW r \in Requests, Preparing(r)
    PROVE  /\ UNCHANGED <<account, session, events, issued, loggedOut>>
           /\ bootstrap' \in [Users -> Starts]
           /\ \A u \in Users :
                 /\ bootstrap'[u].created = bootstrap[u].created
                 /\ \/ bootstrap'[u].started = bootstrap[u].started
                    \/ /\ bootstrap'[u].started = "found"
                       /\ HasPassword(u)
<1>1. UNCHANGED <<account, session, events, issued, loggedOut>>
  BY DEF Preparing, Start, InsertUser, CreateUser, FindAdmin, Login, Find,
         Rotate, Revoke, Serve, Rollback, tables
<1>2. bootstrap \in [Users -> Starts] /\ account \in [Users -> Accounts]
  BY DEF IInv, Typed
<1>3. CASE bootstrap' = bootstrap
  BY <1>1, <1>2, <1>3
<1>4. CASE bootstrap' # bootstrap
  <2>1. FindAdmin(r)
    BY <1>4 DEF Preparing, Start, InsertUser, CreateUser, Login, Find,
                Rotate, Revoke, Serve, Rollback, tables
  <2> DEFINE u == request[r].user
  <2>2. u \in Users
    BY <2>1, RecordOf DEF FindAdmin, IInv, Waiting
  <2>3. /\ HasAccount(u) /\ ~ ScanFails(u)
        /\ bootstrap' = [bootstrap EXCEPT ![u].started = "found"]
    BY <1>4, <2>1 DEF FindAdmin
  <2> HIDE DEF u
  <2>4. account[u] \in Accounts /\ HasPassword(u)
    BY <1>2, <2>2, <2>3 DEF HasAccount, ScanFails, HasPassword, Accounts
  <2> DEFINE start == [bootstrap[u] EXCEPT !.started = "found"]
  <2>5. /\ start \in Starts
        /\ start.created = bootstrap[u].created
        /\ start.started = "found"
    BY <1>2, <2>2 DEF Starts, Ways
  <2>6. bootstrap' = [bootstrap EXCEPT ![u] = start]
    BY <1>2, <2>2, <2>3
  <2> HIDE DEF start
  <2>7. /\ bootstrap' \in [Users -> Starts]
        /\ bootstrap'[u] = start
        /\ \A v \in Users : v # u => bootstrap'[v] = bootstrap[v]
    BY <1>2, <2>2, <2>5, <2>6
  <2> QED
    BY <1>1, <2>4, <2>5, <2>7
<1> QED
  BY <1>3, <1>4

\* A step that prepares a commit keeps the invariant.
LEMMA PrepareKeepsInvariant ==
    ASSUME IInv, NEW r \in Requests, Preparing(r)
    PROVE  IInv'
<1>1. Prepares(r)
  BY PreparingEffect DEF IInv
<1>2. /\ UNCHANGED <<account, session, events, issued, loggedOut>>
      /\ bootstrap' \in [Users -> Starts]
      /\ \A u \in Users :
            /\ bootstrap'[u].created = bootstrap[u].created
            /\ \/ bootstrap'[u].started = bootstrap[u].started
               \/ /\ bootstrap'[u].started = "found"
                  /\ HasPassword(u)
  BY FindAdminEffect
<1>3. Typed'
  BY <1>1, <1>2 DEF IInv, Typed, Prepares
<1>4. LocksExclude' /\ WritesStand'
  BY <1>1, <1>2, PrepareKeepsExclusion, PrepareKeepsWrites
<1>5. ChainInv' /\ EventInv' /\ OriginsMatch'
  BY <1>2, CalmKeepsChains, CalmKeepsEvents, CalmKeepsOrigins
<1>6. StartLeavesAnAccount'
  BY <1>2 DEF IInv, StartLeavesAnAccount, HasPassword, HasAccount
<1> QED
  BY <1>3, <1>4, <1>5, <1>6 DEF IInv, ChainInv, EventInv

\* So does a commit, whatever its type.
LEMMA CommitKeepsInvariant ==
    ASSUME IInv, NEW r \in Requests, Commits(r)
    PROVE  IInv'
<1> DEFINE type == request[r].type
           old == request[r].old
           new == request[r].new
           u == request[r].user
<1>1. /\ type \in Types \union {"created"}
      /\ old \in Sessions /\ new \in Sessions /\ u \in Users
  BY DEF Commits, Writing
<1>2. /\ request' \in [Requests -> Request]
      /\ Others(r) /\ ~ InTransaction(r)'
      /\ account' \in [Users -> Accounts]
      /\ session' \in [Sessions -> Row]
      /\ issued' \subseteq Sessions
      /\ bootstrap' = bootstrap
  BY DEF Commits
<1>3. \/ Begins(type, new, u)
      \/ type = "created" /\ CreatesAccount(u)
      \/ type = "refreshed" /\ Replaces(old, new)
      \/ type = "logged_out" /\ Ends(old)
  BY DEF Commits
<1>4. account \in [Users -> Accounts] /\ bootstrap \in [Users -> Starts]
      /\ loggedOut \subseteq Sessions
  BY DEF IInv, Typed
<1>5. LocksExclude' /\ WritesStand'
  BY <1>2, LeavingKeepsExclusion, CommitKeepsWrites DEF IInv
<1> HIDE DEF type, old, new, u
<1>6. ASSUME events' \in [Events -> 0 .. 2], loggedOut' \subseteq Sessions,
             AccountsStay, ChainInv', EventInv', OriginsMatch'
      PROVE  IInv'
  <2>1. Typed'
    BY <1>2, <1>4, <1>6 DEF Typed
  <2>2. StartLeavesAnAccount'
    BY <1>2, <1>6, AccountsStayKeepsStarts
  <2> QED
    BY <1>5, <1>6, <2>1, <2>2 DEF IInv, ChainInv, EventInv
<1>7. CASE Begins(type, new, u)
  <2>1. AccountsStay
    BY <1>4, <1>7 DEF Begins, AccountsStay, HasAccount
  <2>2. events' \in [Events -> 0 .. 2] /\ loggedOut' \subseteq Sessions
    BY <1>4, <1>7 DEF Begins, Records
  <2>3. ChainInv' /\ EventInv' /\ OriginsMatch'
    BY <1>1, <1>2, <1>7, BeginKeepsChains, BeginKeepsEvents, BeginKeepsOrigins
  <2> QED
    BY <1>6, <2>1, <2>2, <2>3
<1>8. CASE type = "created" /\ CreatesAccount(u)
  <2>1. AccountsStay
    BY <1>4, <1>8 DEF CreatesAccount, AccountsStay, HasAccount
  <2>2. events' \in [Events -> 0 .. 2] /\ loggedOut' = loggedOut
        /\ session' = session
    BY <1>8 DEF CreatesAccount, Records
  <2>3. ChainInv'
    BY <2>2, CalmKeepsChains
  <2>4. EventInv' /\ OriginsMatch'
    BY <1>1, <1>2, <1>8, CreateKeepsOrigins
  <2> QED
    BY <1>4, <1>6, <2>1, <2>2, <2>3, <2>4
<1>9. CASE type = "refreshed" /\ Replaces(old, new)
  <2>1. account' = account /\ AccountsStay
    BY <1>9 DEF Replaces, AccountsStay
  <2>2. events' \in [Events -> 0 .. 2] /\ loggedOut' \subseteq Sessions
    BY <1>4, <1>9 DEF Replaces, Records
  <2>3. ChainInv' /\ EventInv'
    BY <1>1, <1>9, ReplaceKeepsChains, ReplaceKeepsEvents
  <2>4. /\ \A s \in Sessions :
              events'[<<"registered", s>>] = events[<<"registered", s>>]
        /\ \A v \in Users : events'[<<"created", v>>] = events[<<"created", v>>]
    <3>1. <<"refreshed", new>> \in Events /\ Records(<<"refreshed", new>>)
      BY <1>1, <1>9 DEF Replaces, Events, Types, Creating
    <3> QED
      BY <3>1, EventsOfOthers DEF Types, Creating
  <2>5. \A s \in Sessions : Exists(s) => session'[s].user = session[s].user
    BY <1>9 DEF Replaces, Exists
  <2>6. OriginsMatch'
    BY <1>2, <2>1, <2>4, <2>5, CalmKeepsOrigins
  <2> QED
    BY <1>6, <2>1, <2>2, <2>3, <2>6
<1>10. CASE type = "logged_out" /\ Ends(old)
  <2>1. account' = account /\ AccountsStay
    BY <1>10 DEF Ends, AccountsStay
  <2>2. events' \in [Events -> 0 .. 2] /\ loggedOut' \subseteq Sessions
    BY <1>1, <1>4, <1>10 DEF Ends, Records
  <2>3. ChainInv' /\ EventInv'
    BY <1>1, <1>10, EndKeepsChains, EndKeepsEvents
  <2>4. /\ \A s \in Sessions :
              events'[<<"registered", s>>] = events[<<"registered", s>>]
        /\ \A v \in Users : events'[<<"created", v>>] = events[<<"created", v>>]
    <3>1. <<"logged_out", old>> \in Events /\ Records(<<"logged_out", old>>)
      BY <1>1, <1>10 DEF Ends, Events, Types, Creating
    <3> QED
      BY <3>1, EventsOfOthers DEF Types, Creating
  <2>5. \A s \in Sessions : Exists(s) => session'[s].user = session[s].user
    BY <1>10 DEF Ends
  <2>6. OriginsMatch'
    BY <1>2, <2>1, <2>4, <2>5, CalmKeepsOrigins
  <2> QED
    BY <1>6, <2>1, <2>2, <2>3, <2>6
<1> QED
  BY <1>3, <1>7, <1>8, <1>9, <1>10

\* A row of which one field is set anew.
LEMMA RowSetAnew ==
    ASSUME NEW A, NEW B, NEW C, NEW D, NEW x \in B,
           NEW s \in [state : A, expired : B, user : C, parent : D, root : D]
    PROVE  LET t == [s EXCEPT !.expired = x]
           IN  /\ t \in [state : A, expired : B, user : C, parent : D, root : D]
               /\ t.state = s.state /\ t.user = s.user
               /\ t.parent = s.parent /\ t.root = s.root
  OBVIOUS

\* Time passes for the sessions, and changes nothing of a chain.
LEMMA ExpireKeepsInvariant ==
    ASSUME IInv, NEW s \in Sessions, Expire(s)
    PROVE  IInv'
<1>1. /\ session' = [session EXCEPT ![s].expired = TRUE]
      /\ UNCHANGED <<account, events, request, issued, loggedOut, bootstrap>>
  BY DEF Expire
<1>2. session \in [Sessions -> Row]
  BY DEF IInv, Typed
<1>3. ASSUME NEW t \in Sessions
      PROVE  /\ [session[t] EXCEPT !.expired = TRUE] \in Row
             /\ [session[t] EXCEPT !.expired = TRUE].state = session[t].state
             /\ [session[t] EXCEPT !.expired = TRUE].user = session[t].user
             /\ [session[t] EXCEPT !.expired = TRUE].parent = session[t].parent
             /\ [session[t] EXCEPT !.expired = TRUE].root = session[t].root
  <2>1. session[t] \in [state : {"none", "active", "revoked"},
                        expired : BOOLEAN, user : Users,
                        parent : Sessions, root : Sessions]
    BY <1>2 DEF Row
  <2>2. TRUE \in BOOLEAN
    OBVIOUS
  <2> QED
    BY <2>1, <2>2, RowSetAnew DEF Row
<1>4. /\ session' \in [Sessions -> Row]
      /\ session'[s] = [session[s] EXCEPT !.expired = TRUE]
      /\ \A t \in Sessions : t # s => session'[t] = session[t]
  BY <1>1, <1>2, <1>3
<1>5. \A t \in Sessions : /\ session'[t].state = session[t].state
                          /\ session'[t].user = session[t].user
                          /\ session'[t].parent = session[t].parent
                          /\ session'[t].root = session[t].root
  BY <1>3, <1>4
<1>6. Typed'
  BY <1>1, <1>4 DEF IInv, Typed
<1>7. LocksExclude'
  BY <1>1 DEF IInv, LocksExclude, Creates, Registers, Revokes, InTransaction
<1>8. WritesStand'
  <2>1. ASSUME NEW q \in Requests PROVE Stands(q)'
    BY <1>1, <1>5, NowStands, StandsStill
  <2> QED
    BY <2>1 DEF WritesStand, Stands
<1>9. ChainInv' /\ EventInv' /\ OriginsMatch'
  BY <1>1, <1>5, CalmKeepsChains, CalmKeepsEvents, CalmKeepsOrigins
<1>10. StartLeavesAnAccount'
  BY <1>1 DEF IInv, StartLeavesAnAccount, HasPassword, HasAccount
<1> QED
  BY <1>6, <1>7, <1>8, <1>9, <1>10 DEF IInv, ChainInv, EventInv

\* No account, no session and nothing in progress.
LEMMA InitIInv == Init => IInv
<1> SUFFICES ASSUME Init PROVE IInv
  OBVIOUS
<1>1. NoSession \in Row /\ NoSession.state = "none"
  BY SessionsAssumption DEF NoSession, Row
<1>2. \A s \in Sessions : session[s] = NoSession /\ ~ Exists(s)
  BY <1>1 DEF Init, Exists
<1>3. \A r \in Requests : request[r] = Idle /\ ~ InTransaction(r)
  BY DEF Init, Idle, InTransaction
<1>4. Typed
  <2>1. [created |-> 0, started |-> "not_yet"] \in Starts
    BY DEF Starts, Ways
  <2> QED
    BY <1>1, <2>1 DEF Init, Typed, Request, Accounts
<1>5. LocksExclude /\ WritesStand
  BY <1>3 DEF LocksExclude, WritesStand, Creates, Registers, Revokes
<1>6. ChainsAreClosed /\ ChainsDoNotFork /\ OneInForce
  BY <1>2 DEF ChainsAreClosed, ChainsDoNotFork, OneInForce
<1>7. LogoutsStand
  BY DEF Init, LogoutsStand, LogoutIsFinal
<1>8. /\ \A type \in Types, s \in Sessions : events[<<type, s>>] = 0
      /\ \A u \in Users : events[<<"created", u>>] = 0
  BY DEF Init, Events
<1>9. BeginningsMatch
  BY <1>2, <1>8 DEF BeginningsMatch, Types
<1>10. EndsMatch
  BY <1>1, <1>2, <1>8 DEF EndsMatch, Types
<1>11. OriginsMatch
  <2>1. \A u \in Users : Registrations(u) = {}
    BY <1>8 DEF Registrations, Types, Creating
  <2>2. \A u \in Users : account[u] = "none" /\ bootstrap[u].created = 0
    BY DEF Init
  <2> QED
    BY <1>8, <2>1, <2>2 DEF OriginsMatch
<1>12. StartLeavesAnAccount
  <2>1. \A u \in Users : bootstrap[u] = [created |-> 0, started |-> "not_yet"]
    BY DEF Init
  <2>2. \A u \in Users : bootstrap[u].started = "not_yet"
    BY <2>1
  <2> QED
    BY <2>2 DEF StartLeavesAnAccount
<1> QED
  BY <1>4, <1>5, <1>6, <1>7, <1>9, <1>10, <1>11, <1>12 DEF IInv

\* Each step of each request keeps the invariant.
LEMMA NextIInv == IInv /\ [Next]_vars => IInv'
<1> SUFFICES ASSUME IInv, [Next]_vars PROVE IInv'
  OBVIOUS
<1>1. ASSUME NEW r \in Requests, Preparing(r) PROVE IInv'
  BY <1>1, PrepareKeepsInvariant
<1>2. ASSUME NEW r \in Requests, NEW answered \in BOOLEAN, Commit(r, answered)
      PROVE  IInv'
  BY <1>2, CommitEffect, CommitKeepsInvariant
<1>3. ASSUME NEW r \in Requests, NEW answered \in BOOLEAN,
             CreateAdmin(r, answered)
      PROVE  IInv'
  BY <1>3, CreateAdminKeepsInvariant
<1>4. ASSUME NEW s \in Sessions, Expire(s) PROVE IInv'
  BY <1>4, ExpireKeepsInvariant
<1>5. CASE UNCHANGED vars
  <2>1. Typed' /\ LocksExclude' /\ WritesStand'
    BY <1>5 DEF vars, IInv, Typed, LocksExclude, WritesStand, Creates,
                Registers, Revokes, InTransaction, Exists, HasAccount
  <2>2. ChainInv' /\ EventInv' /\ OriginsMatch'
    BY <1>5, CalmKeepsChains, CalmKeepsEvents, CalmKeepsOrigins DEF vars
  <2>3. StartLeavesAnAccount'
    BY <1>5 DEF vars, IInv, StartLeavesAnAccount, HasPassword, HasAccount
  <2> QED
    BY <2>1, <2>2, <2>3 DEF IInv, ChainInv, EventInv
<1> QED
  BY <1>1, <1>2, <1>3, <1>4, <1>5 DEF Next, Preparing

\* What the locks and the index guarantee holds at all times.
LEMMA Invariance == Spec => []IInv
  BY InitIInv, NextIInv, PTL DEF Spec

-----------------------------------------------------------------------------
\* The tables, the events, the requests and the history are of their types.
THEOREM TypeCorrect == Spec => []TypeOK
<1>1. IInv => TypeOK
  <2> SUFFICES ASSUME IInv PROVE TypeOK
    OBVIOUS
  <2>1. ASSUME NEW r \in Requests
        PROVE  /\ request[r].pc \in PC
               /\ request[r].pc = "commit" =>
                     /\ request[r].type \in Types \union {"created"}
                     /\ request[r].new \in Sessions
               /\ request[r].pc \in {"rotate", "revoke", "serve"} =>
                     request[r].old \in Sessions
    BY RecordOf DEF IInv, InTransaction, Writing, Holding
  <2> QED
    BY <2>1 DEF IInv, Typed, TypeOK, Starts
<1> QED
  BY <1>1, Invariance, PTL

\* However many use a refresh token at once, it is turned into one session, and
\* a login has one session in force.
THEOREM TokensRotate == Spec => []RefreshTokenWorksOnce
<1>1. IInv => RefreshTokenWorksOnce
  BY DEF IInv, ChainsDoNotFork, OneInForce, RefreshTokenWorksOnce
<1> QED
  BY <1>1, Invariance, PTL

\* No session of a login that a client was told it is logged out of is ever in
\* force again.
THEOREM LogoutsLast == Spec => []LogoutIsFinal
<1>1. IInv => LogoutIsFinal
  BY DEF IInv, LogoutsStand
<1> QED
  BY <1>1, Invariance, PTL

\* The events of a session are one for its beginning and one for its end.
THEOREM EventsAreTrue == Spec => []EventsTellTheStory
<1>1. ASSUME IInv, NEW s \in Sessions
      PROVE  LET begun == {type \in Creating : events[<<type, s>>] > 0}
                 replaced == \E t \in Sessions :
                                Exists(t) /\ session[t].parent = s /\ t # s
             IN  /\ Cardinality(begun) = IF Exists(s) THEN 1 ELSE 0
                 /\ \A type \in Types : events[<<type, s>>] < 2
                 /\ events[<<"refreshed", s>>] > 0
                        <=> Exists(s) /\ session[s].parent # s
                 /\ events[<<"logged_out", s>>] > 0
                        <=> session[s].state = "revoked" /\ ~ replaced
  <2> DEFINE begun == {type \in Creating : events[<<type, s>>] > 0}
  <2>1. "refreshed" \in Creating
    BY DEF Creating
  <2>2. /\ events[<<"logged_out", s>>] < 2
        /\ events[<<"logged_out", s>>] > 0
               <=> session[s].state = "revoked" /\ ~ Replaced(s)
    BY <1>1 DEF IInv, EndsMatch
  <2>3. CASE Exists(s)
    <3>1. PICK c \in Creating :
              /\ c = "refreshed" <=> session[s].parent # s
              /\ \A type \in Creating :
                    events[<<type, s>>] = IF type = c THEN 1 ELSE 0
      BY <1>1, <2>3 DEF IInv, BeginningsMatch
    <3>2. begun = {c}
      BY <3>1
    <3>3. Cardinality(begun) = 1
      BY <3>2, FS_Singleton
    <3>4. /\ \A type \in Creating : events[<<type, s>>] < 2
          /\ events[<<"refreshed", s>>] > 0 <=> c = "refreshed"
      BY <2>1, <3>1
    <3> HIDE DEF begun
    <3>5. \A type \in Types : events[<<type, s>>] < 2
      BY <2>2, <3>4 DEF Types
    <3> QED
      BY <2>2, <2>3, <3>1, <3>3, <3>4, <3>5 DEF Replaced, begun
  <2>4. CASE ~ Exists(s)
    <3>1. \A type \in Creating : events[<<type, s>>] = 0
      BY <1>1, <2>4 DEF IInv, BeginningsMatch
    <3>2. begun = {}
      BY <3>1
    <3>3. Cardinality(begun) = 0
      BY <3>2, FS_EmptySet
    <3>4. ~ (events[<<"refreshed", s>>] > 0)
      BY <2>1, <3>1
    <3>5. \A type \in Types : events[<<type, s>>] < 2
      BY <2>2, <3>1 DEF Types
    <3> HIDE DEF begun
    <3> QED
      BY <2>2, <2>4, <3>3, <3>4, <3>5 DEF Replaced, begun
  <2> QED
    BY <2>3, <2>4
<1>2. IInv => EventsTellTheStory
  BY <1>1 DEF EventsTellTheStory
<1> QED
  BY <1>2, Invariance, PTL

\* An account has the one origin that its role and password tell.
THEOREM OneOrigin == Spec => []AccountHasOneOrigin
<1>1. ASSUME IInv, NEW u \in Users
      PROVE  LET registrations ==
                     {s \in Sessions : /\ events[<<"registered", s>>] > 0
                                       /\ session[s].user = u}
                 origins == [user |-> Cardinality(registrations),
                             passwordless |-> events[<<"created", u>>],
                             admin |-> bootstrap[u].created]
             IN  \A kind \in DOMAIN origins :
                     origins[kind] = IF account[u] = kind THEN 1 ELSE 0
  <2>1. /\ IF account[u] = "user"
           THEN \E s \in Sessions : Registrations(u) = {s}
           ELSE Registrations(u) = {}
        /\ events[<<"created", u>>] = IF account[u] = "passwordless" THEN 1 ELSE 0
        /\ bootstrap[u].created = IF account[u] = "admin" THEN 1 ELSE 0
    BY <1>1 DEF IInv, OriginsMatch
  <2>2. Cardinality(Registrations(u)) = IF account[u] = "user" THEN 1 ELSE 0
    BY <2>1, FS_Singleton, FS_EmptySet
  <2> DEFINE n == Cardinality(Registrations(u))
             origins == [user |-> n,
                         passwordless |-> events[<<"created", u>>],
                         admin |-> bootstrap[u].created]
  <2>3. /\ DOMAIN origins = {"user", "passwordless", "admin"}
        /\ origins["user"] = n
        /\ origins["passwordless"] = events[<<"created", u>>]
        /\ origins["admin"] = bootstrap[u].created
    OBVIOUS
  <2> HIDE DEF origins
  <2>4. \A kind \in DOMAIN origins :
            origins[kind] = IF account[u] = kind THEN 1 ELSE 0
    BY <2>1, <2>2, <2>3
  <2> QED
    BY <2>4 DEF origins, Registrations
<1>2. IInv => AccountHasOneOrigin
  BY <1>1 DEF AccountHasOneOrigin
<1> QED
  BY <1>2, Invariance, PTL

\* A start that bootstrapped an administrator made the account and it is an
\* administrator's, or found one with a password, whoever registered it, or was
\* overtaken, and then there is an account of any kind.
THEOREM StartsLeaveAccounts == Spec => []StartLeavesAnAccount
<1>1. IInv => StartLeavesAnAccount
  BY DEF IInv
<1> QED
  BY <1>1, Invariance, PTL
=============================================================================
