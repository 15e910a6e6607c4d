------------------------------ MODULE Sessions ------------------------------
(***************************************************************************)
(* Accounts and login sessions: concurrent registrations, users created by *)
(* an administrator, logins, refreshes, logouts, requests with an access   *)
(* token and starting processes that bootstrap an administrator, over the  *)
(* MySQL tables users and sessions and the outbox.                         *)
(*                                                                         *)
(* The refresh token and the access token of a session are known to those  *)
(* who were answered when it was created; any of them may present either   *)
(* again, at any time and several at once.  As in Orders, what an open     *)
(* transaction has written stays in the record of its request, and an id   *)
(* whose transaction rolled back is used again.  The session of the        *)
(* administrator who calls POST /users is not among those modelled.        *)
(***************************************************************************)
EXTENDS Integers, FiniteSets

CONSTANTS
    Users,      \* email addresses
    Sessions,   \* bound: primary keys of the table sessions
    Requests    \* bound: requests in progress, and processes starting, at once

ASSUME SessionsAssumption ==
    /\ Sessions \subseteq Nat
    /\ Users # {} /\ Sessions # {}

VARIABLES
    account,    \* account[u] is the row of users with that email address
    session,    \* session[s] is the committed row of s
    events,     \* events[e] counts the committed outbox rows, up to 2
    request,    \* request[r] is the request in slot r
    issued,     \* history: sessions whose tokens a client has been given
    loggedOut,  \* history: sessions a client was told it is logged out of
    bootstrap   \* history: bootstrap[u] is what became of the starts that were
                \* to bootstrap u

vars == <<account, session, events, request, issued, loggedOut, bootstrap>>

\* The transactions that create a session, and the one that only ends one.
Creating == {"registered", "logged_in", "refreshed"}

Types == Creating \union {"logged_out"}

\* The session an event is about, and for user.created the account.
Events == (Types \X Sessions) \union ({"created"} \X Users)

\* A user created by POST /users has NULL for password_hash.
Accounts == {"none", "user", "admin", "passwordless"}

Row == [state  : {"none", "active", "revoked"},
        expired : BOOLEAN,
        user   : Users,
        parent : Sessions,   \* the session it replaced, itself if none
        root   : Sessions]   \* the session the login began with

\* How a BootstrapAdmin came through last: there was an account, it made that of
\* the administrator, or somebody made one after it had looked.
Ways == {"not_yet", "found", "made", "overtaken"}

PC == {"idle", "insert_user", "create_user", "rotate", "revoke", "commit",
       "serve", "find_admin", "create_admin"}

TypeOK ==
    /\ account \in [Users -> Accounts]
    /\ session \in [Sessions -> Row]
    /\ events \in [Events -> 0 .. 2]
    /\ \A r \in Requests :
        /\ request[r].pc \in PC
        /\ request[r].pc = "commit" =>
            /\ request[r].type \in Types \union {"created"}
            /\ request[r].new \in Sessions
        /\ request[r].pc \in {"rotate", "revoke", "serve"} =>
            request[r].old \in Sessions
    /\ issued \subseteq Sessions
    /\ loggedOut \subseteq Sessions
    /\ bootstrap \in [Users -> [created : 0 .. 2, started : Ways]]

-----------------------------------------------------------------------------
UpTo(bound, n) == IF n < bound THEN n + 1 ELSE bound

Exists(s) == session[s].state # "none"

Unexpired(s) == Exists(s) /\ ~session[s].expired  \* faulty: even if revoked

\* revoked_at IS NULL AND expires_at > now
Active(s) == session[s].state = "active" /\ ~session[s].expired

InTransaction(r) == request[r].pc = "commit"

RowIsFree(r, s) == FALSE  \* faulty: transactions do not wait for each other

\* The row is locked by the UPDATE of an open transaction.
RowIsLocked(r, s) ==
    \E q \in Requests \ {r} :
        /\ InTransaction(q)
        /\ request[q].type \in {"refreshed", "logged_out"}
        /\ request[q].old = s

HasAccount(u) == account[u] # "none"

HasPassword(u) == account[u] \in {"user", "admin"}

EmailIsFree(r, u) == FALSE  \* faulty: the account is looked up, and no index

EmailIsLocked(r, u) ==
    \E q \in Requests \ {r} :
        /\ InTransaction(q)
        /\ request[q].type \in {"registered", "created"}
        /\ request[q].user = u

UnusedIDs ==
    {s \in Sessions :
        ~Exists(s) /\ \A r \in Requests :
            InTransaction(r) /\ request[r].type # "created"
                => request[r].new # s}

\* newSessionID is random; which unused id it is makes no difference.
NewSessionID(s) == s \in UnusedIDs /\ \A t \in UnusedIDs : s <= t

tables == <<account, session, events, issued, loggedOut, bootstrap>>

Idle == [pc |-> "idle"]

Become(r, record) == request' = [request EXCEPT ![r] = record]

Finish(r) == Become(r, Idle)

-----------------------------------------------------------------------------
NoSession ==
    [state |-> "none", expired |-> FALSE, user |-> CHOOSE u \in Users : TRUE,
     parent |-> CHOOSE s \in Sessions : TRUE,
     root |-> CHOOSE s \in Sessions : TRUE]

Init ==
    /\ account = [u \in Users |-> "none"]
    /\ session = [s \in Sessions |-> NoSession]
    /\ events = [e \in Events |-> 0]
    /\ request = [r \in Requests |-> Idle]
    /\ issued = {}
    /\ loggedOut = {}
    /\ bootstrap = [u \in Users |-> [created |-> 0, started |-> "not_yet"]]

\* Register, up to the transaction of RegisterWithEvent; POST /users by an
\* administrator, up to that of CreateWithEvent; BootstrapAdmin of a process
\* that starts.
Start(r, pc) ==
    /\ request[r].pc = "idle"
    /\ \E u \in Users : Become(r, [pc |-> pc, user |-> u])
    /\ UNCHANGED tables

\* INSERT INTO users waits for an open transaction with the same email, and
\* fails on an account that exists; the session is inserted behind it.
InsertUser(r) ==
    /\ request[r].pc = "insert_user"
    /\ ~EmailIsLocked(r, request[r].user)
    /\ IF HasAccount(request[r].user)
       THEN Finish(r)
       ELSE \E s \in Sessions :
                /\ NewSessionID(s)
                /\ Become(r, [pc |-> "commit", type |-> "registered",
                              user |-> request[r].user, old |-> s, new |-> s])
    /\ UNCHANGED tables

\* POST /users writes no password_hash and no session.
CreateUser(r) ==
    /\ request[r].pc = "create_user"
    /\ ~EmailIsLocked(r, request[r].user)
    /\ IF HasAccount(request[r].user)
       THEN Finish(r)
       ELSE LET none == CHOOSE s \in Sessions : TRUE
            IN  Become(r, [pc |-> "commit", type |-> "created",
                           user |-> request[r].user, old |-> none, new |-> none])
    /\ UNCHANGED tables

ScannedAsEmpty(u) == FALSE  \* faulty: NULL is taken for an empty password

\* scanIdentity reads password_hash into a string and fails on NULL.
ScanFails(u) == account[u] = "passwordless"

\* Login with the right password, up to the INSERT of CreateSessionWithEvent.
\* Anything else is answered 401.
Login(r) ==
    /\ request[r].pc = "idle"
    /\ \E u \in Users, s \in Sessions :
        /\ HasPassword(u)
        /\ NewSessionID(s)
        /\ Become(r, [pc |-> "commit", type |-> "logged_in",
                      user |-> u, old |-> s, new |-> s])
    /\ UNCHANGED tables

\* Refresh, Logout and RequireBearer first look for the active session of the
\* token they are given, outside any transaction.
Find(r, pc) ==
    /\ request[r].pc = "idle"
    /\ \E s \in issued :
        /\ Active(s)
        /\ Become(r, [pc |-> pc, user |-> session[s].user, old |-> s])
    /\ UNCHANGED tables

\* The UPDATE of RotateWithEvent takes the session only if it is still active;
\* the replacement is inserted behind it.
Rotate(r) ==
    /\ request[r].pc = "rotate"
    /\ ~RowIsLocked(r, request[r].old)
    /\ IF Active(request[r].old)
       THEN \E s \in Sessions :
                /\ NewSessionID(s)
                /\ Become(r, [pc |-> "commit", type |-> "refreshed",
                              user |-> request[r].user,
                              old |-> request[r].old, new |-> s])
       ELSE Finish(r)
    /\ UNCHANGED tables

RevocableTwice(s) == Exists(s)  \* faulty: also what was revoked or replaced

Revocable(s) == session[s].state = "active"

\* The UPDATE of RevokeWithEvent does not look at expires_at.
Revoke(r) ==
    /\ request[r].pc = "revoke"
    /\ ~RowIsLocked(r, request[r].old)
    /\ IF Revocable(request[r].old)
       THEN Become(r, [pc |-> "commit", type |-> "logged_out",
                       user |-> request[r].user,
                       old |-> request[r].old, new |-> request[r].old])
       ELSE Finish(r)
    /\ UNCHANGED tables

ReplacementSwapped(r) ==  \* faulty: the ids of session and user swapped
    [state |-> "active", expired |-> FALSE, user |-> request[r].old,
     parent |-> request[r].old, root |-> request[r].new]

Replacement(r) ==
    [state |-> "active", expired |-> FALSE, user |-> request[r].user,
     parent |-> request[r].old,
     root |-> IF request[r].type = "refreshed"
              THEN session[request[r].old].root ELSE request[r].new]

\* The row of users that a transaction inserts.
Inserted == [registered |-> "user", created |-> "passwordless"]

\* AppendTx, in the same transaction, and COMMIT.  The client may be gone before
\* the answer.
Commit(r, answered) ==
    /\ request[r].pc = "commit"
    /\ LET type == request[r].type
           old  == request[r].old
           new  == request[r].new
       IN  /\ account' = IF type \in DOMAIN Inserted
                         THEN [account EXCEPT ![request[r].user] = Inserted[type]]
                         ELSE account
           /\ session' = [s \in Sessions |->
                 IF s = new /\ type \in Creating THEN Replacement(r)
                 ELSE IF s = old /\ type # "created"
                 THEN [session[s] EXCEPT !.state = "revoked"]
                 ELSE session[s]]
           /\ events' = [events EXCEPT
                 ![<<type, IF type = "created" THEN request[r].user ELSE new>>] =
                     UpTo(2, @)]
           /\ issued' = IF answered /\ type \in Creating
                        THEN issued \union {new} ELSE issued
           /\ loggedOut' = IF answered /\ type = "logged_out"
                           THEN loggedOut \union {old} ELSE loggedOut
           /\ UNCHANGED bootstrap
    /\ Finish(r)

\* The handler behind RequireBearer runs with the principal that was checked.
Serve(r) ==
    /\ request[r].pc = "serve"
    /\ Finish(r)
    /\ UNCHANGED tables

\* A statement fails or the client is gone: the transaction, if any, is rolled
\* back and the request is answered with an error.
Rollback(r) ==
    /\ request[r].pc # "idle"
    /\ Finish(r)
    /\ UNCHANGED tables

\* expires_at passes.
Expire(s) ==
    /\ session[s].state = "active"
    /\ ~session[s].expired
    /\ session' = [session EXCEPT ![s].expired = TRUE]
    /\ UNCHANGED <<account, events, request, issued, loggedOut, bootstrap>>

-----------------------------------------------------------------------------
\* BootstrapAdmin looks for the account, outside any transaction.  If the scan
\* fails the process does not start.
FindAdmin(r) ==
    /\ request[r].pc = "find_admin"
    /\ LET u == request[r].user
       IN  IF ~HasAccount(u)
           THEN Become(r, [pc |-> "create_admin", user |-> u]) /\ UNCHANGED bootstrap
           ELSE /\ Finish(r)
                /\ bootstrap' = IF ScanFails(u) THEN bootstrap
                                ELSE [bootstrap EXCEPT ![u].started = "found"]
    /\ UNCHANGED <<account, session, events, issued, loggedOut>>

\* CreateIdentity is an INSERT without a transaction: it waits for one with the
\* same email, and an account that has come up in the meantime is as good.
\* When the answer is lost the account is there, and the process does not start.
CreateAdmin(r, answered) ==
    /\ request[r].pc = "create_admin"
    /\ LET u == request[r].user
       IN  /\ ~EmailIsLocked(r, u)
           /\ account' = IF HasAccount(u) THEN account
                         ELSE [account EXCEPT ![u] = "admin"]
           /\ bootstrap' = [bootstrap EXCEPT
                 ![u].created = IF HasAccount(u) THEN @ ELSE UpTo(2, @),
                 ![u].started = IF ~answered THEN @
                                ELSE IF HasAccount(u) THEN "overtaken" ELSE "made"]
    /\ Finish(r)
    /\ UNCHANGED <<session, events, issued, loggedOut>>

Next ==
    \/ \E r \in Requests :
        \/ Start(r, "insert_user") \/ InsertUser(r)
        \/ Start(r, "create_user") \/ CreateUser(r)
        \/ Start(r, "find_admin") \/ FindAdmin(r)
        \/ CreateAdmin(r, TRUE) \/ CreateAdmin(r, FALSE)
        \/ Login(r)
        \/ Find(r, "rotate") \/ Rotate(r)
        \/ Find(r, "revoke") \/ Revoke(r)
        \/ Find(r, "serve") \/ Serve(r)
        \/ Commit(r, TRUE) \/ Commit(r, FALSE)
        \/ Rollback(r)
    \/ \E s \in Sessions : Expire(s)

Spec == Init /\ [][Next]_vars

-----------------------------------------------------------------------------
\* However many hold a refresh token and use it at once, it works once and
\* cannot be turned into two: no session has two successors, one that has a
\* successor is revoked, and a login has one session in force at a time.
RefreshTokenWorksOnce ==
    \A s, t \in Sessions :
        Exists(s) /\ Exists(t) /\ s # t =>
            /\ session[t].parent = s => session[s].state = "revoked"
            /\ session[s].root = session[t].root =>
                /\ "revoked" \in {session[s].state, session[t].state}
                /\ session[s].parent # s /\ session[t].parent # t
                    => session[s].parent # session[t].parent

\* Once a client was told that it is logged out, no session of that login is in
\* force again: no refresh that was in progress leaves one behind, so no later
\* request is let through with whatever token of the login.
LogoutIsFinal ==
    \A s \in loggedOut, t \in Sessions :
        Exists(t) /\ session[t].root = session[s].root
            => session[t].state = "revoked"

\* The outbox tells exactly what happened to a session: one event for its
\* beginning, and one for its end unless it was replaced.
EventsTellTheStory ==
    \A s \in Sessions :
        LET begun == {type \in Creating : events[<<type, s>>] > 0}
            replaced == \E t \in Sessions :
                            Exists(t) /\ session[t].parent = s /\ t # s
        IN  /\ Cardinality(begun) = IF Exists(s) THEN 1 ELSE 0
            /\ \A type \in Types : events[<<type, s>>] < 2
            /\ events[<<"refreshed", s>>] > 0
                    <=> Exists(s) /\ session[s].parent # s
            /\ events[<<"logged_out", s>>] > 0
                    <=> session[s].state = "revoked" /\ ~replaced

\* Registrations, POST /users and starting processes may all go for one email
\* address: it has one origin, which alone leaves an event, for a registration
\* with its session, and its role and password are those of that origin.
AccountHasOneOrigin ==
    \A u \in Users :
        LET registrations == {s \in Sessions : /\ events[<<"registered", s>>] > 0
                                               /\ session[s].user = u}
            origins == [user |-> Cardinality(registrations),
                        passwordless |-> events[<<"created", u>>],
                        admin |-> bootstrap[u].created]
        IN  \A kind \in DOMAIN origins :
                origins[kind] = IF account[u] = kind THEN 1 ELSE 0

\* What a process that was to bootstrap an administrator and has started leaves,
\* however many start at once and whatever answer was lost.  Only if it was the
\* first is the account certain to be an administrator's.  If it found one, that
\* may be an ordinary registration's, but it has a password: an account of
\* POST /users stops the start.  If it was overtaken there is an account, which
\* may be anybody's, even one that nobody can log in to.
StartLeavesAnAccount ==
    \A u \in Users :
        /\ bootstrap[u].started = "made" => account[u] = "admin"
        /\ bootstrap[u].started = "found" => HasPassword(u)
        /\ bootstrap[u].started = "overtaken" => HasAccount(u)
=============================================================================
