----------------------------- MODULE AuditLogger -----------------------------
(***************************************************************************)
(* audit.AsyncLogger: a bounded queue that requests write to and one       *)
(* goroutine writes to the log from.  A record is told from another only   *)
(* by its number, so the queue is its length.                              *)
(***************************************************************************)
EXTENDS Integers

CONSTANTS
    Callers,     \* goroutines that may call Record
    QueueSize,   \* defaultQueueSize
    MaxRecords   \* bound: calls of Record

ASSUME QueueAssumption == QueueSize \in Nat /\ MaxRecords \in Nat

VARIABLES
    holding,    \* the callers in Record, past the test of closed
    queued,     \* length of events
    closed,
    run,        \* the goroutine: waits, logs one record, has returned
    recorded,   \* history: the calls of Record
    logged,     \* history: the records written to the log
    dropped     \* dropped[reason] of the counter dropped

loggerVars == <<holding, queued, closed, run, recorded, logged, dropped>>

Reasons == {"closed", "full"}

LoggerTypeOK ==
    /\ holding \subseteq Callers
    /\ queued \in 0 .. QueueSize
    /\ closed \in BOOLEAN
    /\ run \in {"waiting", "logging", "done"}
    /\ recorded \in 0 .. MaxRecords
    /\ logged \in 0 .. MaxRecords
    /\ dropped \in [Reasons -> 0 .. MaxRecords]

LoggerInit ==
    /\ holding = {}
    /\ queued = 0
    /\ closed = FALSE
    /\ run = "waiting"
    /\ recorded = 0
    /\ logged = 0
    /\ dropped = [reason \in Reasons |-> 0]

\* newAsyncLogger, in a process that starts again.
NewLogger ==
    /\ holding' = {}
    /\ queued' = 0
    /\ closed' = FALSE
    /\ run' = "waiting"
    /\ recorded' = 0
    /\ logged' = 0
    /\ dropped' = [reason \in Reasons |-> 0]

Drop(reason) == dropped' = [dropped EXCEPT ![reason] = @ + 1]

\* Record, up to the test of closed under the read lock.
Record(c) ==
    /\ c \notin holding
    /\ recorded < MaxRecords
    /\ recorded' = recorded + 1
    /\ IF closed
       THEN Drop("closed") /\ UNCHANGED holding
       ELSE holding' = holding \union {c} /\ UNCHANGED dropped
    /\ UNCHANGED <<queued, closed, run, logged>>

HasRoomForOneMore == queued <= QueueSize  \* faulty: off by one

HasRoom == queued < QueueSize

\* The send that does not block, and the end of the read lock.
Send(c) ==
    /\ c \in holding
    /\ holding' = holding \ {c}
    /\ IF HasRoom
       THEN queued' = queued + 1 /\ UNCHANGED dropped
       ELSE Drop("full") /\ UNCHANGED queued
    /\ UNCHANGED <<closed, run, recorded, logged>>

\* Close takes the write lock, so that nobody sends to a closed channel.
CloseEvents ==
    /\ holding = {}
    /\ closed' = TRUE
    /\ UNCHANGED <<holding, queued, run, recorded, logged, dropped>>

Take ==
    /\ run = "waiting"
    /\ queued > 0
    /\ queued' = queued - 1
    /\ run' = "logging"
    /\ UNCHANGED <<holding, closed, recorded, logged, dropped>>

Log ==
    /\ run = "logging"
    /\ run' = "waiting"
    /\ logged' = logged + 1
    /\ UNCHANGED <<holding, queued, closed, recorded, dropped>>

Interrupted == closed  \* faulty: returns although the queue holds records

\* A closed channel ends the range loop when it is empty.
Exhausted == closed /\ queued = 0

Return ==
    /\ run = "waiting"
    /\ Exhausted
    /\ run' = "done"
    /\ UNCHANGED <<holding, queued, closed, recorded, logged, dropped>>

Run == Take \/ Log \/ Return
=============================================================================
