------------------------------ MODULE Lifecycle ------------------------------
(***************************************************************************)
(* The life of a process: the start of main, among other processes that    *)
(* migrate the schema as well, and the end: the HTTP server,               *)
(* Application.Close with its deadline and the deferred functions of main, *)
(* against requests, background workers and the goroutine of the audit     *)
(* logger.  A process that has ended is started again.                     *)
(*                                                                         *)
(* A request records when its repository has persisted no event, as with   *)
(* NewMemory; NewProduction starts workers if it has RabbitMQ.             *)
(* NewWithDependencies allows both.                                        *)
(***************************************************************************)
EXTENDS AuditLogger, Migrations

CONSTANTS
    Self,         \* the instance whose process this is
    Requests,     \* bound: requests in progress at the same time
    Workers       \* "publisher" and "consumer", or none

ASSUME LifecycleAssumption == Self \in Instances /\ Requests \subseteq Callers

VARIABLES
    main,        \* what main is about to do
    request,     \* request[r] is the handler in slot r
    worker,      \* worker[w] between and within its cycles
    cancelled,   \* the context of the workers
    open,        \* the resources that are open
    jammed,      \* the reader of the broker's connection is blocked
    outcome      \* how far the end was orderly

processVars == <<loggerVars, main, request, worker, cancelled, open, jammed, outcome>>

vars == <<processVars, schemaVars>>

\* What main does before it listens for signals.
Starting == {"open", "migrate", "connect", "assemble", "assembled"}

Resources == {"broker", "redis", "database"}

TypeOK ==
    /\ LoggerTypeOK
    /\ MigrationsTypeOK
    /\ main \in Starting \union
                {"serving", "shutdown", "cancel", "wait", "broker", "audit",
                 "drain", "redis", "database", "telemetry", "exited"}
    /\ request \in [Requests -> {"idle", "running", "recorded"}]
    /\ worker \in [Workers -> {"idle", "working", "stopped"}]
    /\ cancelled \in BOOLEAN
    /\ open \subseteq Resources
    /\ jammed \in BOOLEAN
    /\ outcome \in {"orderly", "late", "fatal"}

Init ==
    /\ LoggerInit
    /\ MigrationsInit
    /\ main = "open"
    /\ request = [r \in Requests |-> "idle"]
    /\ worker = [w \in Workers |-> "stopped"]
    /\ cancelled = FALSE
    /\ open = {}
    /\ jammed = FALSE
    /\ outcome = "orderly"

Alive == main # "exited"

-----------------------------------------------------------------------------
\* Shutdown closes the listener first, but a connection that was accepted before
\* may still send its request.
Accept(r) ==
    /\ main \in {"serving", "shutdown"}
    /\ request[r] = "idle"
    /\ request' = [request EXCEPT ![r] = "running"]
    /\ UNCHANGED <<loggerVars, main, worker, cancelled, open, jammed, outcome>>

Handle(r) ==
    /\ request[r] = "running"
    /\ Record(r)
    /\ request' = [request EXCEPT ![r] = "recorded"]
    /\ UNCHANGED <<main, worker, cancelled, open, jammed, outcome>>

Enqueue(r) ==
    /\ Send(r)
    /\ UNCHANGED <<main, request, worker, cancelled, open, jammed, outcome>>

Answer(r) ==
    /\ request[r] # "idle"
    /\ r \notin holding
    /\ request' = [request EXCEPT ![r] = "idle"]
    /\ UNCHANGED <<loggerVars, main, worker, cancelled, open, jammed, outcome>>

\* A cycle may begin after the cancellation: if the tick or the delivery is
\* there as well, select takes either.
Begin(w) ==
    /\ worker[w] = "idle"
    /\ worker' = [worker EXCEPT ![w] = "working"]
    /\ UNCHANGED <<loggerVars, main, request, cancelled, open, jammed, outcome>>

End(w) ==
    /\ worker[w] = "working"
    /\ worker' = [worker EXCEPT ![w] = "idle"]
    /\ UNCHANGED <<loggerVars, main, request, cancelled, open, jammed, outcome>>

\* Run returns; the consumer's also when its deliveries end.
Stop(w) ==
    /\ worker[w] = "idle"
    /\ cancelled \/ w = "consumer"
    /\ worker' = [worker EXCEPT ![w] = "stopped"]
    /\ UNCHANGED <<loggerVars, main, request, cancelled, open, jammed, outcome>>

RunLogger == Run /\ UNCHANGED <<main, request, worker, cancelled, open, jammed,
                                outcome>>

\* The one reader of the broker's connection comes to a confirmation for which
\* b.confirms has no room: retries and dead letters leave them there
\* (PublisherConfirms, DeliveriesFlow).
ReaderJams ==
    /\ "broker" \in open
    /\ "consumer" \in Workers
    /\ ~jammed
    /\ jammed' = TRUE
    /\ UNCHANGED <<loggerVars, main, request, worker, cancelled, open, outcome>>

\* A Publish takes a confirmation out.
ReaderGoesOn ==
    /\ jammed
    /\ \E w \in Workers : w = "publisher" /\ worker[w] = "working"
    /\ jammed' = FALSE
    /\ UNCHANGED <<loggerVars, main, request, worker, cancelled, open, outcome>>

-----------------------------------------------------------------------------
\* main goes on to its next step.
Proceed(from, to) == main = from /\ main' = to

Elsewhere == UNCHANGED <<request, worker>>

\* Somebody, or something, starts the process again.
Launch ==
    /\ Proceed("exited", "open")
    /\ NewLogger
    /\ request' = [r \in Requests |-> "idle"]
    /\ worker' = [w \in Workers |-> "stopped"]
    /\ cancelled' = FALSE
    /\ open' = {}
    /\ jammed' = FALSE
    /\ outcome' = "orderly"
    /\ Leave(Self)
    /\ UNCHANGED <<applied, versions, faults>>

OpenDatabase ==
    /\ Proceed("open", "migrate")
    /\ open' = {"database"}
    /\ StartMigrator(Self)
    /\ UNCHANGED <<loggerVars, cancelled, jammed, outcome>> /\ Elsewhere

\* main waits for its migrations, or for the error that ends it.
FollowMigrations ==
    /\ main = "migrate"
    /\ LET pc == migrator'[Self].pc
       IN  /\ main' = CASE pc = "out"  -> "exited"
                        [] pc = "done" -> "connect"
                        [] OTHER       -> main
           /\ outcome' = IF pc = "out" THEN "fatal" ELSE outcome
    /\ UNCHANGED <<loggerVars, cancelled, open, jammed>> /\ Elsewhere

Migrate == ApplyMigrations(Self) /\ FollowMigrations

MigrationIsCutOff == CutOff(Self) /\ FollowMigrations

OpenRedis ==
    /\ Proceed("connect", "assemble")
    /\ open' = open \union {"redis"}
    /\ UNCHANGED <<loggerVars, schemaVars, cancelled, jammed, outcome>> /\ Elsewhere

\* NewProduction opens the broker and starts the workers.
Assemble ==
    /\ Proceed("assemble", "assembled")
    /\ open' = open \union {"broker"}
    /\ worker' = [w \in Workers |-> "idle"]
    /\ UNCHANGED <<loggerVars, schemaVars, request, cancelled, jammed, outcome>>

Listen ==
    /\ Proceed("assembled", "serving")
    /\ UNCHANGED <<loggerVars, schemaVars, cancelled, open, jammed,
                   outcome>> /\ Elsewhere

\* Something cannot be opened or bootstrapped, or a signal comes before main
\* listens for it: no deferred function runs.
StartFails ==
    /\ main \in Starting \ {"migrate"}
    /\ main' = "exited"
    /\ outcome' = "fatal"
    /\ faults < MaxFaults
    /\ faults' = faults + 1
    /\ UNCHANGED <<loggerVars, applied, versions, migrator, cancelled, open, jammed>>
    /\ Elsewhere

StartUp == OpenDatabase \/ Migrate \/ OpenRedis \/ Assemble \/ Listen

\* Another process starts, with its migrations.
PeerStarts(i) ==
    /\ StartMigrator(i) \/ ApplyMigrations(i)
    /\ UNCHANGED processVars

PeerIsCutOff(i) == CutOff(i) /\ UNCHANGED processVars

-----------------------------------------------------------------------------

Signal ==
    /\ Proceed("serving", "shutdown")
    /\ UNCHANGED <<loggerVars, cancelled, open, jammed, outcome>> /\ Elsewhere

\* Serve failed: log.Fatal runs no deferred function.
ServeFails ==
    /\ Proceed("serving", "exited")
    /\ outcome' = "fatal"
    /\ UNCHANGED <<loggerVars, cancelled, open, jammed>> /\ Elsewhere

HandlersDone == \A r \in Requests : request[r] = "idle"

ServerStops ==
    /\ Proceed("shutdown", "cancel")
    /\ HandlersDone
    /\ UNCHANGED <<loggerVars, cancelled, open, jammed, outcome>> /\ Elsewhere

\* Shutdown ran out of time before it saw all connections idle, and log.Fatal
\* follows.
ShutdownTimesOut ==
    /\ Proceed("shutdown", "exited")
    /\ outcome' = "fatal"
    /\ UNCHANGED <<loggerVars, cancelled, open, jammed>> /\ Elsewhere

CancelWorkers ==
    /\ Proceed("cancel", "wait")
    /\ cancelled' = TRUE
    /\ UNCHANGED <<loggerVars, open, jammed, outcome>> /\ Elsewhere

NoneWaitedFor == TRUE  \* faulty: Close cancels the workers and goes on

WorkersDone == \A w \in Workers : worker[w] = "stopped"

WorkersStop ==
    /\ Proceed("wait", "broker")
    /\ WorkersDone
    /\ UNCHANGED <<loggerVars, cancelled, open, jammed, outcome>> /\ Elsewhere

Never == FALSE  \* faulty: Close waits for the workers without its deadline

\* Close returns at its deadline and leaves the broker and the logger open.
WaitTimesOut ==
    /\ Proceed("wait", "redis")
    /\ outcome' = "late"
    /\ UNCHANGED <<loggerVars, cancelled, open, jammed>> /\ Elsewhere

\* A resource is closed, and nothing is waited for.
Release(resource, next) ==
    /\ Proceed(resource, next)
    /\ open' = open \ {resource}
    /\ UNCHANGED <<loggerVars, cancelled, jammed, outcome>> /\ Elsewhere

\* Close of the channels and of the connection has no deadline: each waits for
\* the broker's answer, which comes through the reader.
CloseBroker == ~jammed /\ Release("broker", "audit")

CloseLogger ==
    /\ Proceed("audit", "drain")
    /\ CloseEvents
    /\ UNCHANGED <<cancelled, open, jammed, outcome>> /\ Elsewhere

Drained ==
    /\ Proceed("drain", "redis")
    /\ run = "done"
    /\ UNCHANGED <<loggerVars, cancelled, open, jammed, outcome>> /\ Elsewhere

DrainTimesOut ==
    /\ Proceed("drain", "redis")
    /\ outcome' = "late"
    /\ UNCHANGED <<loggerVars, cancelled, open, jammed>> /\ Elsewhere

\* The last deferred function has a deadline of its own, and main returns.
StopTelemetry ==
    /\ Proceed("telemetry", "exited")
    /\ UNCHANGED <<loggerVars, cancelled, open, jammed, outcome>> /\ Elsewhere

\* The first deferred function, stop, gives up the signals: another one ends the
\* process at once.
SecondSignal ==
    /\ main \in {"cancel", "wait", "broker", "audit", "drain", "redis", "database",
                 "telemetry"}
    /\ main' = "exited"
    /\ outcome' = "fatal"
    /\ UNCHANGED <<loggerVars, cancelled, open, jammed>> /\ Elsewhere

Shutdown ==
    \/ ServerStops \/ ShutdownTimesOut
    \/ CancelWorkers \/ WorkersStop \/ WaitTimesOut
    \/ CloseBroker \/ CloseLogger
    \/ Drained \/ DrainTimesOut
    \/ Release("redis", "database") \/ Release("database", "telemetry")
    \/ StopTelemetry

Live ==
    /\ Alive
    /\ \/ \E r \in Requests : Accept(r) \/ Handle(r) \/ Enqueue(r) \/ Answer(r)
       \/ \E w \in Workers : Begin(w) \/ End(w) \/ Stop(w)
       \/ RunLogger
       \/ ReaderJams \/ ReaderGoesOn
       \/ Signal \/ ServeFails \/ SecondSignal
       \/ Shutdown
    /\ UNCHANGED schemaVars

Peers == Instances \ {Self}

Next ==
    \/ Launch \/ StartUp \/ MigrationIsCutOff \/ StartFails
    \/ Live
    \/ \E i \in Peers : PeerStarts(i) \/ PeerIsCutOff(i)

Spec == Init /\ [][Next]_vars

\* Of main alone: it takes each of its steps that it can take, and no handler and
\* no worker has to come to an end.  Its waits have deadlines, except that for the
\* broker, which fairness does not end while the reader is blocked.  A process
\* that has ended is started again.
Fairness ==
    /\ WF_vars(Alive /\ Shutdown /\ UNCHANGED schemaVars)
    /\ WF_vars(StartUp)
    /\ WF_vars(Launch)
    /\ \A i \in Peers : WF_vars(PeerStarts(i))

FairSpec == Spec /\ Fairness

-----------------------------------------------------------------------------
\* The order HTTP, workers, RabbitMQ, audit log, Redis, database: a handler
\* finds everything open and its tables in place, and a worker its broker and
\* its database, unless Close gave the workers up at its deadline: then the
\* database is closed under them, but never the broker.
ResourcesOutliveTheirUsers ==
    Alive =>
        /\ (\E r \in Requests : request[r] # "idle") =>
            /\ open = Resources /\ ~closed
            /\ 1 .. Known[Self] \subseteq applied
        /\ (\E w \in Workers : worker[w] # "stopped") =>
            /\ "broker" \in open
            /\ "database" \notin open => outcome = "late"

\* After an orderly shutdown every record that a request made is in the log,
\* but for those the full queue refused and counted: none is left in the queue
\* and none came after the logger was closed.
NothingRecordedIsLost ==
    ~Alive /\ outcome = "orderly" =>
        recorded = logged + dropped["full"]

\* A signal ends the process, even if a handler or a worker hangs, unless it comes
\* to close a broker whose reader is blocked: that alone takes another signal.
SignalEndsProcess ==
    main = "shutdown" ~> main = "exited" \/ (main = "broker" /\ jammed)
=============================================================================
