--------------------------- MODULE LifecycleProofs ---------------------------
(***************************************************************************)
(* Theorems about Lifecycle, for every number of instances, migrations,    *)
(* requests, workers, records and faults and every length of the queue.    *)
(*                                                                         *)
(* The schema comes first: it does not depend on what processes do beside  *)
(* their migrations.  Then the process, whose stages say what is open and  *)
(* who may still run, and the books of the audit logger.                   *)
(***************************************************************************)
EXTENDS Lifecycle, TLAPS, FiniteSetTheorems, WellFoundedInduction

-----------------------------------------------------------------------------
(***************************************************************************)
(* The schema.                                                             *)
(***************************************************************************)

LEMMA LeastExists ==
    ASSUME NEW S \in SUBSET Nat, S # {}
    PROVE  Min(S) \in S /\ \A m \in S : Min(S) <= m
<1>1. PICK x \in S : \A y \in S : ~ (<<y, x>> \in OpToRel(<, Nat))
  BY NatLessThanWellFounded, WFMin
<1>2. \A y \in S : ~ (y < x)
  BY <1>1 DEF OpToRel
<1>3. \A y \in S : x <= y
  BY <1>2
<1>4. QED
  BY <1>3 DEF Min

SchemaTypes ==
    /\ applied \subseteq Nat \ {0}
    /\ versions \subseteq applied
    /\ migrator \in [Instances -> [pc : {"out", "load", "apply", "record", "done"},
                                   pending : SUBSET Nat]]
    /\ faults \in 0 .. MaxFaults

\* Migrations are applied, and recorded, in order.
InOrder ==
    /\ \A m \in applied : 1 .. m \subseteq applied
    /\ \A m \in versions : 1 .. m \subseteq versions

\* What a process has still to do, of which the least is next: all it knows but
\* what is recorded.
WorkIsLeft ==
    \A i \in Instances :
        /\ At(i, "apply") \/ At(i, "record") =>
            /\ migrator[i].pending # {}
            /\ migrator[i].pending \subseteq 1 .. Known[i]
            /\ 1 .. Known[i] \ migrator[i].pending \subseteq versions
        /\ At(i, "record") => Current(i) \in applied
        /\ At(i, "done") => 1 .. Known[i] \subseteq versions

\* What was executed is recorded or about to be, until there was a fault.
RecordFollows ==
    \A m \in applied \ versions : InFlight(m) \/ faults > 0

SchemaInv == SchemaTypes /\ InOrder /\ WorkIsLeft /\ RecordFollows

LEMMA SchemaInit == MigrationsInit => SchemaInv
BY MigrationsAssumption
DEF MigrationsInit, SchemaInv, SchemaTypes, InOrder, WorkIsLeft, RecordFollows,
    At, Out

\* The next migration of a process is the least that is not recorded, and all
\* before it are.
LEMMA CurrentIsNext ==
    ASSUME SchemaInv, NEW i \in Instances, At(i, "apply") \/ At(i, "record")
    PROVE  /\ Current(i) \in migrator[i].pending
           /\ Current(i) \in 1 .. Known[i]
           /\ 1 .. Current(i) - 1 \subseteq versions
<1>1. /\ migrator[i].pending \in SUBSET Nat
      /\ migrator[i].pending # {}
      /\ migrator[i].pending \subseteq 1 .. Known[i]
      /\ 1 .. Known[i] \ migrator[i].pending \subseteq versions
  BY DEF SchemaInv, SchemaTypes, WorkIsLeft
<1>2. /\ Current(i) \in migrator[i].pending
      /\ \A m \in migrator[i].pending : Current(i) <= m
  BY <1>1, LeastExists DEF Current
<1>3. Known[i] \in Nat /\ Current(i) \in 1 .. Known[i]
  BY <1>1, <1>2, MigrationsAssumption
<1>4. ASSUME NEW m \in 1 .. Current(i) - 1
      PROVE  m \in versions
  <2>1. m \in Nat /\ m < Current(i) /\ m \in 1 .. Known[i]
    BY <1>3
  <2>2. m \notin migrator[i].pending
    BY <1>2, <1>3, <2>1
  <2>3. QED
    BY <1>1, <2>1, <2>2
<1>5. QED
  BY <1>2, <1>3, <1>4

\* A process that leaves the migrations, or begins them, disturbs nothing unless
\* it has executed a statement that it has not recorded.
LEMMA MigratorElsewhere ==
    ASSUME SchemaInv, NEW i \in Instances, NEW next,
           next \in [pc : {"out", "load"}, pending : SUBSET Nat],
           migrator' = [migrator EXCEPT ![i] = next],
           UNCHANGED <<applied, versions>>,
           faults' \in 0 .. MaxFaults, faults' >= faults,
           At(i, "record") => Current(i) \in versions \/ faults' > 0
    PROVE  SchemaInv'
<1>1. /\ SchemaTypes'
      /\ \A k \in Instances \ {i} : migrator'[k] = migrator[k]
      /\ migrator'[i] = next
  BY DEF SchemaInv, SchemaTypes
<1>2. InOrder'
  BY DEF SchemaInv, InOrder
<1>3. WorkIsLeft'
  BY <1>1 DEF SchemaInv, WorkIsLeft, At, Current
<1>4. RecordFollows'
  <2> SUFFICES ASSUME NEW m \in applied \ versions, ~ (faults' > 0)
               PROVE  InFlight(m)'
    BY DEF RecordFollows
  <2>1. PICK k \in Instances : At(k, "record") /\ Current(k) = m
    BY DEF SchemaInv, SchemaTypes, RecordFollows, InFlight
  <2>2. k # i
    BY <2>1
  <2>3. QED
    BY <1>1, <2>1, <2>2 DEF InFlight, At, Current
<1>5. QED
  BY <1>1, <1>2, <1>3, <1>4 DEF SchemaInv

LEMMA LoadStep ==
    ASSUME SchemaInv, NEW i \in Instances, Load(i)
    PROVE  SchemaInv'
<1> DEFINE todo == NotRecorded(i)
<1>1. Known[i] \in Nat
  BY MigrationsAssumption
<1>2. /\ todo \in SUBSET Nat /\ todo \subseteq 1 .. Known[i]
      /\ 1 .. Known[i] \ todo \subseteq versions
  BY <1>1 DEF NotRecorded
<1> HIDE DEF todo
<1>3. /\ migrator' = [migrator EXCEPT ![i] =
              [pc |-> IF todo = {} THEN "done" ELSE "apply", pending |-> todo]]
      /\ UNCHANGED <<applied, versions, faults>>
  BY DEF Load, GoOn, todo
<1>4. /\ SchemaTypes'
      /\ \A k \in Instances \ {i} : migrator'[k] = migrator[k]
      /\ migrator'[i] = [pc |-> IF todo = {} THEN "done" ELSE "apply", pending |-> todo]
  BY <1>2, <1>3 DEF SchemaInv, SchemaTypes
<1>5. InOrder'
  BY <1>3 DEF SchemaInv, InOrder
<1>6. WorkIsLeft'
  <2>1. ASSUME NEW k \in Instances \ {i}
        PROVE  /\ \A pc \in {"apply", "record", "done"} : At(k, pc)' = At(k, pc)
               /\ Current(k)' = Current(k)
               /\ migrator'[k] = migrator[k]
    BY <1>4 DEF At, Current
  <2>2. /\ migrator'[i].pending = todo
        /\ ~ At(i, "record")'
        /\ At(i, "apply")' => todo # {}
        /\ At(i, "done")' => 1 .. Known[i] \subseteq versions
    BY <1>2, <1>4 DEF At
  <2>3. QED
    BY <1>2, <1>3, <2>1, <2>2 DEF SchemaInv, WorkIsLeft
<1>7. RecordFollows'
  <2> SUFFICES ASSUME NEW m \in applied \ versions, ~ (faults > 0)
               PROVE  InFlight(m)'
    BY <1>3 DEF RecordFollows
  <2>1. PICK k \in Instances : At(k, "record") /\ Current(k) = m
    BY DEF SchemaInv, RecordFollows, InFlight
  <2>2. k # i
    BY <2>1 DEF Load, At
  <2>3. QED
    BY <1>4, <2>1, <2>2 DEF InFlight, At, Current
<1>8. QED
  BY <1>4, <1>5, <1>6, <1>7 DEF SchemaInv

\* The statement of the next migration is executed; the process is still there
\* to record it, or there was a fault.
LEMMA Executed ==
    ASSUME SchemaInv, NEW i \in Instances, At(i, "apply"), Executes(Current(i)),
           applied' = applied \union {Current(i)}, UNCHANGED versions,
           faults' \in 0 .. MaxFaults, faults' >= faults,
           \/ migrator' = [migrator EXCEPT ![i].pc = "record"]
           \/ Leave(i) /\ faults' > 0
    PROVE  SchemaInv'
<1> DEFINE c == Current(i)
<1>1. c \in Nat \ {0} /\ Known[i] \in Nat
  BY CurrentIsNext, MigrationsAssumption
<1>2. /\ \A k \in Instances \ {i} : migrator'[k] = migrator[k]
      /\ migrator'[i] \in {[migrator[i] EXCEPT !.pc = "record"], Out}
      /\ migrator' \in [Instances -> [pc : {"out", "load", "apply", "record", "done"},
                                      pending : SUBSET Nat]]
  BY DEF SchemaInv, SchemaTypes, Leave, Out
<1>3. SchemaTypes'
  BY <1>1, <1>2 DEF SchemaInv, SchemaTypes
<1>4. InOrder'
  <2>1. 1 .. c \subseteq applied \union {c}
    BY <1>1 DEF Executes
  <2> HIDE DEF c
  <2>2. QED
    BY <2>1 DEF SchemaInv, InOrder, c
<1>5. WorkIsLeft'
  <2> SUFFICES ASSUME NEW k \in Instances
               PROVE  /\ (At(k, "apply") \/ At(k, "record"))' =>
                          /\ migrator'[k].pending # {}
                          /\ migrator'[k].pending \subseteq 1 .. Known[k]
                          /\ 1 .. Known[k] \ migrator'[k].pending \subseteq versions'
                      /\ At(k, "record")' => Current(k)' \in applied'
                      /\ At(k, "done")' => 1 .. Known[k] \subseteq versions'
    BY DEF WorkIsLeft
  <2>1. CASE k # i
    BY <1>2, <2>1 DEF SchemaInv, WorkIsLeft, At, Current
  <2>2. CASE k = i /\ migrator'[i] = Out
    BY <2>2 DEF At, Out
  <2>3. CASE k = i /\ migrator'[i] = [migrator[i] EXCEPT !.pc = "record"]
    <3>1. migrator[i] \in [pc : {"out", "load", "apply", "record", "done"},
                           pending : SUBSET Nat]
      BY DEF SchemaInv, SchemaTypes
    <3>2. migrator'[i].pending = migrator[i].pending /\ migrator'[i].pc = "record"
      BY <2>3, <3>1
    <3>3. Current(i)' = Current(i)
      BY <3>2 DEF Current
    <3>4. QED
      BY <2>3, <3>2, <3>3 DEF SchemaInv, WorkIsLeft, At
  <2>4. QED
    BY <1>2, <2>1, <2>2, <2>3
<1>6. RecordFollows'
  <2> SUFFICES ASSUME NEW m \in applied' \ versions, ~ (faults' > 0)
               PROVE  InFlight(m)'
    BY DEF RecordFollows
  <2>1. migrator' = [migrator EXCEPT ![i].pc = "record"]
    OBVIOUS
  <2>2. At(i, "record")' /\ Current(i)' = Current(i)
    BY <2>1 DEF SchemaInv, SchemaTypes, At, Current
  <2>3. CASE m = Current(i)
    BY <2>2, <2>3 DEF InFlight
  <2>4. CASE m # Current(i)
    <3>1. PICK k \in Instances : At(k, "record") /\ Current(k) = m
      BY <2>4 DEF SchemaInv, SchemaTypes, RecordFollows, InFlight
    <3>2. k # i
      BY <3>1 DEF At
    <3>3. QED
      BY <1>2, <3>1, <3>2 DEF InFlight, At, Current
  <2>5. QED
    BY <2>3, <2>4
<1>7. QED
  BY <1>3, <1>4, <1>5, <1>6 DEF SchemaInv

LEMMA ApplyStep ==
    ASSUME SchemaInv, NEW i \in Instances, Apply(i)
    PROVE  SchemaInv'
<1>1. faults' \in 0 .. MaxFaults /\ faults' >= faults
  BY MigrationsAssumption DEF Apply, SchemaInv, SchemaTypes
<1>2. CASE Executes(Current(i))
  BY <1>1, <1>2, Executed DEF Apply
<1>3. CASE ~ Executes(Current(i))
  <2>1. ~ At(i, "record") /\ Out \in [pc : {"out", "load"}, pending : SUBSET Nat]
    BY DEF Apply, At, Out
  <2>2. migrator' = [migrator EXCEPT ![i] = Out] /\ UNCHANGED <<applied, versions>>
    BY <1>3 DEF Apply, Leave
  <2>3. QED
    BY <1>1, <2>1, <2>2, MigratorElsewhere
<1>4. QED
  BY <1>2, <1>3

\* The current migration is recorded and the process goes on, or is cut off.
LEMMA Recorded ==
    ASSUME SchemaInv, NEW i \in Instances, At(i, "record"),
           versions' = versions \union {Current(i)}, UNCHANGED applied,
           faults' \in 0 .. MaxFaults, faults' >= faults,
           \/ GoOn(i, migrator[i].pending \ {Current(i)})
           \/ Leave(i)
    PROVE  SchemaInv'
<1> DEFINE c == Current(i)
           todo == migrator[i].pending \ {c}
           next == [pc |-> IF todo = {} THEN "done" ELSE "apply", pending |-> todo]
<1>1. /\ c \in 1 .. Known[i] /\ c \in Nat \ {0} /\ c \in applied
      /\ 1 .. c - 1 \subseteq versions
  BY CurrentIsNext, MigrationsAssumption DEF SchemaInv, WorkIsLeft
<1>2. /\ todo \in SUBSET Nat /\ todo \subseteq 1 .. Known[i]
      /\ 1 .. Known[i] \ todo \subseteq versions \union {c}
  BY DEF SchemaInv, SchemaTypes, WorkIsLeft
<1>3. /\ \A k \in Instances \ {i} : migrator'[k] = migrator[k]
      /\ migrator'[i] \in {next, Out}
      /\ migrator' \in [Instances -> [pc : {"out", "load", "apply", "record", "done"},
                                      pending : SUBSET Nat]]
  <2>1. next \in [pc : {"out", "load", "apply", "record", "done"}, pending : SUBSET Nat]
    BY <1>2
  <2>2. Out \in [pc : {"out", "load", "apply", "record", "done"}, pending : SUBSET Nat]
    BY DEF Out
  <2>3. \/ migrator' = [migrator EXCEPT ![i] = next]
        \/ migrator' = [migrator EXCEPT ![i] = Out]
    BY DEF GoOn, Leave
  <2> HIDE DEF next
  <2>4. QED
    BY <2>1, <2>2, <2>3 DEF SchemaInv, SchemaTypes
<1>4. SchemaTypes'
  <2> HIDE DEF c
  <2>1. QED
    BY <1>1, <1>3 DEF SchemaInv, SchemaTypes, c
<1>5. InOrder'
  <2>1. 1 .. c \subseteq versions \union {c}
    BY <1>1
  <2> HIDE DEF c
  <2>2. QED
    BY <2>1 DEF SchemaInv, InOrder, c
<1>6. WorkIsLeft'
  <2>1. ASSUME NEW k \in Instances \ {i}
        PROVE  /\ \A pc \in {"apply", "record", "done"} : At(k, pc)' = At(k, pc)
               /\ Current(k)' = Current(k)
               /\ migrator'[k] = migrator[k]
    BY <1>3 DEF At, Current
  <2>2. CASE migrator'[i] = Out
    <3>1. ~ At(i, "apply")' /\ ~ At(i, "record")' /\ ~ At(i, "done")'
      BY <2>2 DEF At, Out
    <3>2. QED
      BY <2>1, <3>1 DEF SchemaInv, WorkIsLeft
  <2>3. CASE migrator'[i] = next
    <3>1. /\ migrator'[i].pending = todo
          /\ ~ At(i, "record")'
          /\ At(i, "apply")' => todo # {}
          /\ At(i, "done")' => todo = {}
      BY <2>3 DEF At
    <3> HIDE DEF todo, c
    <3>2. At(i, "done")' => 1 .. Known[i] \subseteq versions \union {c}
      BY <1>2, <3>1
    <3>3. versions' = versions \union {c}
      BY DEF c
    <3>4. QED
      BY <1>2, <2>1, <3>1, <3>2, <3>3 DEF SchemaInv, WorkIsLeft
  <2>4. QED
    BY <1>3, <2>2, <2>3
<1>7. RecordFollows'
  <2> SUFFICES ASSUME NEW m \in applied \ versions', ~ (faults' > 0)
               PROVE  InFlight(m)'
    BY DEF RecordFollows
  <2>1. PICK k \in Instances : At(k, "record") /\ Current(k) = m
    BY DEF SchemaInv, SchemaTypes, RecordFollows, InFlight
  <2>2. k # i
    BY <2>1
  <2>3. QED
    BY <1>3, <2>1, <2>2 DEF InFlight, At, Current
<1>8. QED
  BY <1>4, <1>5, <1>6, <1>7 DEF SchemaInv

LEMMA InsertVersionStep ==
    ASSUME SchemaInv, NEW i \in Instances, InsertVersion(i)
    PROVE  SchemaInv'
<1>1. faults' \in 0 .. MaxFaults /\ faults' >= faults
  BY MigrationsAssumption DEF InsertVersion, SchemaInv, SchemaTypes
<1>2. CASE Current(i) \notin versions
  BY <1>1, <1>2, Recorded DEF InsertVersion
<1>3. CASE Current(i) \in versions
  <2>1. Out \in [pc : {"out", "load"}, pending : SUBSET Nat]
    BY DEF Out
  <2>2. migrator' = [migrator EXCEPT ![i] = Out] /\ UNCHANGED <<applied, versions>>
    BY <1>3 DEF InsertVersion, Leave
  <2>3. QED
    BY <1>1, <1>3, <2>1, <2>2, MigratorElsewhere
<1>4. QED
  BY <1>2, <1>3

LEMMA StartMigratorStep ==
    ASSUME SchemaInv, NEW i \in Instances, StartMigrator(i)
    PROVE  SchemaInv'
<1> DEFINE next == [migrator[i] EXCEPT !.pc = "load"]
<1>1. migrator[i] \in [pc : {"out", "load", "apply", "record", "done"},
                       pending : SUBSET Nat]
  BY DEF SchemaInv, SchemaTypes
<1>2. next \in [pc : {"out", "load"}, pending : SUBSET Nat]
  BY <1>1
<1>3. migrator' = [migrator EXCEPT ![i] = next]
  BY <1>1 DEF StartMigrator, SchemaInv, SchemaTypes
<1>4. ~ At(i, "record")
  BY DEF StartMigrator, At
<1>5. /\ faults' \in 0 .. MaxFaults /\ faults' >= faults
      /\ UNCHANGED <<applied, versions>>
  BY MigrationsAssumption DEF StartMigrator, SchemaInv, SchemaTypes
<1> HIDE DEF next
<1>6. QED
  BY <1>2, <1>3, <1>4, <1>5, MigratorElsewhere

LEMMA CutOffStep ==
    ASSUME SchemaInv, NEW i \in Instances, CutOff(i)
    PROVE  SchemaInv'
<1>1. faults' \in 0 .. MaxFaults /\ faults' >= faults /\ faults' > 0
  BY MigrationsAssumption DEF CutOff, SchemaInv, SchemaTypes
<1>2. Leave(i)
  BY DEF CutOff
<1>3. CASE UNCHANGED <<applied, versions>>
  <2>1. Out \in [pc : {"out", "load"}, pending : SUBSET Nat]
    BY DEF Out
  <2>2. QED
    BY <1>1, <1>2, <1>3, <2>1, MigratorElsewhere DEF Leave
<1>4. CASE /\ At(i, "apply") /\ Executes(Current(i))
           /\ applied' = applied \union {Current(i)} /\ UNCHANGED versions
  BY <1>1, <1>2, <1>4, Executed
<1>5. CASE /\ At(i, "record")
           /\ versions' = versions \union {Current(i)} /\ UNCHANGED applied
  BY <1>1, <1>2, <1>5, Recorded
<1>6. QED
  BY <1>3, <1>4, <1>5 DEF CutOff

-----------------------------------------------------------------------------
(***************************************************************************)
(* The process.                                                            *)
(***************************************************************************)

Stages == Starting \union
    {"serving", "shutdown", "cancel", "wait", "broker", "audit", "drain",
     "redis", "database", "telemetry", "exited"}

ProcessTypes ==
    /\ holding \subseteq Requests
    /\ queued \in 0 .. QueueSize
    /\ closed \in BOOLEAN
    /\ run \in {"waiting", "logging", "done"}
    /\ recorded \in 0 .. MaxRecords
    /\ logged \in Nat
    /\ dropped \in [Reasons -> Nat]
    /\ main \in Stages
    /\ request \in [Requests -> {"idle", "running", "recorded"}]
    /\ worker \in [Workers -> {"idle", "working", "stopped"}]
    /\ cancelled \in BOOLEAN
    /\ open \subseteq Resources
    /\ jammed \in BOOLEAN
    /\ outcome \in {"orderly", "late", "fatal"}

\* main follows the migrations of its process.
MainMigrates ==
    /\ main = "open" => At(Self, "out")
    /\ main = "migrate" => \E pc \in {"load", "apply", "record"} : At(Self, pc)
    /\ main = "exited" => At(Self, "out") \/ At(Self, "done")
    /\ main \notin {"open", "migrate", "exited"} => At(Self, "done")

\* What is open at each stage.
OpenByStage ==
    /\ main = "migrate" \/ main = "connect" => open = {"database"}
    /\ main = "assemble" => open = {"database", "redis"}
    /\ main \in {"assembled", "serving", "shutdown", "cancel", "wait", "broker"}
           => open = Resources
    /\ main \in {"audit", "drain", "redis"} => {"redis", "database"} \subseteq open
    /\ main = "database" => "database" \in open

\* Who may still run at each stage, and when the logger is closed.
RunningByStage ==
    /\ Alive =>
        /\ HandlersDone \/ main \in {"serving", "shutdown"}
        /\ \/ WorkersDone
           \/ main \in {"assembled", "serving", "shutdown", "cancel", "wait"}
           \/ /\ main \in {"redis", "database", "telemetry"}
              /\ "broker" \in open /\ outcome = "late"
    /\ closed => main \in {"drain", "redis", "database", "telemetry", "exited"}
    /\ main \notin {"redis", "database", "telemetry", "exited"} => outcome = "orderly"

\* Once the logger is closed nobody is on the way into its queue, and its
\* goroutine has returned only with the queue empty.
LoggerByStage ==
    /\ closed => holding = {}
    /\ run = "done" => closed /\ queued = 0
    /\ dropped["closed"] = 0
    /\ main \in {"redis", "database", "telemetry", "exited"} /\ outcome = "orderly"
           => run = "done"

ProcessInv ==
    ProcessTypes /\ MainMigrates /\ OpenByStage /\ RunningByStage /\ LoggerByStage

\* What the inductive invariant says of the schema and of the process.
IInv == SchemaInv /\ ProcessInv

LEMMA ProcessInit == Init => IInv
<1> SUFFICES ASSUME Init PROVE IInv
  OBVIOUS
<1>1. SchemaInv
  BY SchemaInit DEF Init
<1>2. ProcessTypes
  <2>1. main \in Stages
    BY DEF Init, Stages, Starting
  <2>2. /\ request \in [Requests -> {"idle", "running", "recorded"}]
        /\ worker \in [Workers -> {"idle", "working", "stopped"}]
        /\ dropped \in [Reasons -> Nat]
    BY DEF Init, LoggerInit
  <2>3. /\ holding \subseteq Requests /\ closed \in BOOLEAN
        /\ cancelled \in BOOLEAN /\ open \subseteq Resources /\ jammed \in BOOLEAN
        /\ run \in {"waiting", "logging", "done"}
        /\ outcome \in {"orderly", "late", "fatal"}
    BY DEF Init, LoggerInit
  <2>4. /\ queued \in 0 .. QueueSize
        /\ recorded \in 0 .. MaxRecords /\ logged \in Nat
    BY QueueAssumption DEF Init, LoggerInit
  <2>5. QED
    BY <2>1, <2>2, <2>3, <2>4 DEF ProcessTypes
<1>3. MainMigrates
  BY LifecycleAssumption DEF Init, MigrationsInit, MainMigrates, At, Out
<1>4. OpenByStage /\ RunningByStage /\ LoggerByStage
  BY DEF Init, LoggerInit, OpenByStage, RunningByStage, LoggerByStage,
         HandlersDone, WorkersDone, Reasons
<1>5. QED
  BY <1>1, <1>2, <1>3, <1>4 DEF IInv, ProcessInv

-----------------------------------------------------------------------------
\* The start.
LEMMA LaunchStep ==
    ASSUME IInv, Launch
    PROVE  IInv'
<1>1. SchemaInv'
  <2>1. Out \in [pc : {"out", "load"}, pending : SUBSET Nat]
    BY DEF Out
  <2>2. ~ At(Self, "record") /\ Self \in Instances
    BY LifecycleAssumption DEF Launch, Proceed, IInv, ProcessInv, MainMigrates, At
  <2>3. /\ migrator' = [migrator EXCEPT ![Self] = Out]
        /\ UNCHANGED <<applied, versions>>
        /\ faults' \in 0 .. MaxFaults /\ faults' >= faults
    BY MigrationsAssumption DEF Launch, Leave, IInv, SchemaInv, SchemaTypes
  <2>4. QED
    BY <2>1, <2>2, <2>3, MigratorElsewhere DEF IInv
<1>2. ProcessTypes'
  <2>1. main' \in Stages
    BY DEF Launch, Proceed, Stages, Starting
  <2>2. /\ request' \in [Requests -> {"idle", "running", "recorded"}]
        /\ worker' \in [Workers -> {"idle", "working", "stopped"}]
        /\ dropped' \in [Reasons -> Nat]
    BY DEF Launch, NewLogger
  <2>3. /\ holding' \subseteq Requests /\ closed' \in BOOLEAN
        /\ cancelled' \in BOOLEAN /\ open' \subseteq Resources /\ jammed' \in BOOLEAN
        /\ run' \in {"waiting", "logging", "done"}
        /\ outcome' \in {"orderly", "late", "fatal"}
    BY DEF Launch, NewLogger
  <2>4. /\ queued' \in 0 .. QueueSize
        /\ recorded' \in 0 .. MaxRecords /\ logged' \in Nat
    BY QueueAssumption DEF Launch, NewLogger
  <2>5. QED
    BY <2>1, <2>2, <2>3, <2>4 DEF ProcessTypes
<1>3. MainMigrates'
  <2>1. At(Self, "out")'
    BY LifecycleAssumption
    DEF Launch, Leave, IInv, SchemaInv, SchemaTypes, At, Out
  <2>2. QED
    BY <2>1 DEF Launch, Proceed, MainMigrates
<1>4. OpenByStage' /\ RunningByStage'
  BY DEF Launch, Proceed, NewLogger, OpenByStage, RunningByStage, HandlersDone,
         WorkersDone
<1>5. LoggerByStage'
  BY DEF Launch, Proceed, NewLogger, LoggerByStage, Reasons
<1>6. QED
  BY <1>1, <1>2, <1>3, <1>4, <1>5 DEF IInv, ProcessInv

LEMMA OpenDatabaseStep ==
    ASSUME IInv, OpenDatabase
    PROVE  IInv'
<1>1. SchemaInv'
  BY StartMigratorStep, LifecycleAssumption DEF OpenDatabase, IInv
<1>2. ProcessTypes'
  BY DEF OpenDatabase, Proceed, Elsewhere, loggerVars, IInv, ProcessInv,
         ProcessTypes, Stages, Starting, Resources
<1>3. MainMigrates'
  <2>1. At(Self, "load")'
    BY LifecycleAssumption
    DEF OpenDatabase, StartMigrator, IInv, SchemaInv, SchemaTypes, At
  <2>2. QED
    BY <2>1 DEF OpenDatabase, Proceed, MainMigrates
<1>4. OpenByStage'
  BY DEF OpenDatabase, Proceed, OpenByStage
<1>5. RunningByStage'
  BY DEF OpenDatabase, Proceed, Elsewhere, loggerVars, IInv, ProcessInv,
         RunningByStage, HandlersDone, WorkersDone, Alive
<1>6. LoggerByStage'
  BY DEF OpenDatabase, Proceed, loggerVars, IInv, ProcessInv, LoggerByStage
<1>7. QED
  BY <1>1, <1>2, <1>3, <1>4, <1>5, <1>6 DEF IInv, ProcessInv

LEMMA MigrateStep ==
    ASSUME IInv, Migrate \/ MigrationIsCutOff
    PROVE  IInv'
<1>1. SchemaInv'
  BY LoadStep, ApplyStep, InsertVersionStep, CutOffStep, LifecycleAssumption
  DEF Migrate, MigrationIsCutOff, ApplyMigrations, IInv
<1> DEFINE pc == migrator'[Self].pc
<1>2. /\ main = "migrate"
      /\ pc \in {"out", "load", "apply", "record", "done"}
      /\ main' = CASE pc = "out"  -> "exited"
                   [] pc = "done" -> "connect"
                   [] OTHER       -> main
      /\ outcome' = IF pc = "out" THEN "fatal" ELSE outcome
      /\ UNCHANGED <<loggerVars, request, worker, cancelled, open, jammed>>
  BY <1>1, LifecycleAssumption
  DEF Migrate, MigrationIsCutOff, FollowMigrations, Elsewhere, SchemaInv, SchemaTypes
<1>3. \/ pc = "out" /\ main' = "exited" /\ outcome' = "fatal"
      \/ pc = "done" /\ main' = "connect" /\ outcome' = outcome
      \/ pc \in {"load", "apply", "record"} /\ main' = "migrate" /\ outcome' = outcome
  BY <1>2
<1>4. ProcessTypes'
  BY <1>2, <1>3 DEF loggerVars, IInv, ProcessInv, ProcessTypes, Stages, Starting
<1>5. MainMigrates'
  BY <1>3 DEF MainMigrates, At
<1>6. OpenByStage' /\ RunningByStage' /\ LoggerByStage'
  BY <1>2, <1>3
  DEF loggerVars, IInv, ProcessInv, OpenByStage, RunningByStage, LoggerByStage,
      HandlersDone, WorkersDone, Alive
<1>7. QED
  BY <1>1, <1>4, <1>5, <1>6 DEF IInv, ProcessInv

\* The rest of the start leaves the schema alone.
LEMMA StartStep ==
    ASSUME IInv, OpenRedis \/ Assemble \/ Listen
    PROVE  IInv'
<1>1. UNCHANGED schemaVars
  BY DEF OpenRedis, Assemble, Listen
<1>2. SchemaInv'
  BY <1>1
  DEF schemaVars, IInv, SchemaInv, SchemaTypes, InOrder, WorkIsLeft, RecordFollows,
      InFlight, At, Current
<1>3. ProcessTypes'
  BY DEF OpenRedis, Assemble, Listen, Proceed, Elsewhere, loggerVars, IInv, ProcessInv,
         ProcessTypes, Stages, Starting, Resources
<1>4. MainMigrates'
  BY <1>1 DEF OpenRedis, Assemble, Listen, Proceed, schemaVars, IInv, ProcessInv,
              MainMigrates, At
<1>5. OpenByStage'
  BY DEF OpenRedis, Assemble, Listen, Proceed, IInv, ProcessInv, OpenByStage, Resources
<1>6. RunningByStage'
  BY DEF OpenRedis, Assemble, Listen, Proceed, Elsewhere, loggerVars, IInv, ProcessInv,
         RunningByStage, HandlersDone, WorkersDone, Alive
<1>7. LoggerByStage'
  <2>1. /\ main' \in {"assemble", "assembled", "serving"}
        /\ UNCHANGED loggerVars
    BY DEF OpenRedis, Assemble, Listen, Proceed
  <2>2. QED
    BY <2>1 DEF loggerVars, IInv, ProcessInv, LoggerByStage
<1>8. QED
  BY <1>2, <1>3, <1>4, <1>5, <1>6, <1>7 DEF IInv, ProcessInv

LEMMA StartFailsStep ==
    ASSUME IInv, StartFails
    PROVE  IInv'
<1>1. SchemaInv'
  BY MigrationsAssumption
  DEF StartFails, IInv, SchemaInv, SchemaTypes, InOrder, WorkIsLeft, RecordFollows,
      InFlight, At, Current
<1>2. ProcessTypes'
  BY DEF StartFails, Elsewhere, loggerVars, IInv, ProcessInv, ProcessTypes, Stages
<1>3. MainMigrates'
  BY DEF StartFails, Starting, IInv, ProcessInv, MainMigrates, At
<1>4. OpenByStage' /\ RunningByStage' /\ LoggerByStage'
  BY DEF StartFails, Elsewhere, loggerVars, IInv, ProcessInv, OpenByStage,
         RunningByStage, LoggerByStage, Alive
<1>5. QED
  BY <1>1, <1>2, <1>3, <1>4 DEF IInv, ProcessInv

\* Other processes touch the schema only.
LEMMA PeerStep ==
    ASSUME IInv, NEW i \in Peers, PeerStarts(i) \/ PeerIsCutOff(i)
    PROVE  IInv'
<1>1. i \in Instances /\ i # Self
  BY DEF Peers
<1>2. SchemaInv'
  BY <1>1, StartMigratorStep, LoadStep, ApplyStep, InsertVersionStep, CutOffStep
  DEF PeerStarts, PeerIsCutOff, ApplyMigrations, IInv
<1>3. migrator'[Self] = migrator[Self]
  <2>1. \/ \E next : migrator' = [migrator EXCEPT ![i] = next]
        \/ \E pc : migrator' = [migrator EXCEPT ![i].pc = pc]
    BY DEF PeerStarts, PeerIsCutOff, StartMigrator, ApplyMigrations, Load, Apply,
           InsertVersion, CutOff, Leave, GoOn
  <2>2. QED
    BY <1>1, <2>1, LifecycleAssumption DEF IInv, SchemaInv, SchemaTypes
<1>4. UNCHANGED processVars
  BY DEF PeerStarts, PeerIsCutOff
<1>5. ProcessTypes'
  BY <1>4 DEF processVars, loggerVars, IInv, ProcessInv, ProcessTypes
<1>6. MainMigrates'
  BY <1>3, <1>4 DEF processVars, IInv, ProcessInv, MainMigrates, At
<1>7. OpenByStage' /\ RunningByStage' /\ LoggerByStage'
  BY <1>4
  DEF processVars, loggerVars, IInv, ProcessInv, OpenByStage, RunningByStage,
      LoggerByStage, HandlersDone, WorkersDone, Alive
<1>8. QED
  BY <1>2, <1>5, <1>6, <1>7 DEF IInv, ProcessInv

-----------------------------------------------------------------------------
(***************************************************************************)
(* The process at work, and its end.                                       *)
(***************************************************************************)

LEMMA SchemaRests ==
    ASSUME SchemaInv, UNCHANGED schemaVars
    PROVE  SchemaInv'
BY DEF schemaVars, SchemaInv, SchemaTypes, InOrder, WorkIsLeft, RecordFollows,
       InFlight, At, Current

\* A handler runs only while the server serves or shuts down, when the logger is
\* not closed yet.
LEMMA HandlerStep ==
    ASSUME ProcessInv, UNCHANGED schemaVars, NEW r \in Requests, Alive,
           Accept(r) \/ Handle(r) \/ Enqueue(r) \/ Answer(r)
    PROVE  ProcessInv'
<1>1. UNCHANGED <<main, worker, cancelled, open, jammed, outcome, closed, run>>
  BY DEF Accept, Handle, Enqueue, Answer, Record, Send, loggerVars
<1>2. main \in {"serving", "shutdown"} \/ UNCHANGED request
  BY DEF Accept, Handle, Enqueue, Answer, ProcessInv, RunningByStage, HandlersDone
<1>3. ~ closed \/ UNCHANGED <<holding, dropped>>
  BY DEF Accept, Handle, Enqueue, Answer, Send, loggerVars, ProcessInv,
         RunningByStage, LoggerByStage, HandlersDone
<1>4. ProcessTypes'
  <2>1. request' \in [Requests -> {"idle", "running", "recorded"}]
    BY DEF Accept, Handle, Enqueue, Answer, ProcessInv, ProcessTypes
  <2>2. holding' \subseteq Requests
    BY DEF Accept, Handle, Enqueue, Answer, Record, Send, loggerVars, ProcessInv,
           ProcessTypes
  <2>3. queued' \in 0 .. QueueSize /\ recorded' \in 0 .. MaxRecords /\ logged' \in Nat
    <3>1. /\ recorded' = recorded \/ (recorded < MaxRecords /\ recorded' = recorded + 1)
          /\ queued' = queued \/ (queued < QueueSize /\ queued' = queued + 1)
          /\ logged' = logged
      BY DEF Accept, Handle, Enqueue, Answer, Record, Send, HasRoom, loggerVars
    <3>2. QED
      BY <3>1, QueueAssumption DEF ProcessInv, ProcessTypes
  <2>4. dropped' \in [Reasons -> Nat]
    <3>1. dropped' = dropped \/ \E reason \in Reasons : Drop(reason)
      BY DEF Accept, Handle, Enqueue, Answer, Record, Send, Reasons, loggerVars
    <3>2. QED
      BY <3>1 DEF Drop, ProcessInv, ProcessTypes
  <2>5. QED
    BY <1>1, <2>1, <2>2, <2>3, <2>4 DEF ProcessInv, ProcessTypes
<1>5. MainMigrates' /\ OpenByStage'
  BY <1>1 DEF schemaVars, ProcessInv, MainMigrates, At, OpenByStage
<1>6. RunningByStage'
  BY <1>1, <1>2 DEF ProcessInv, RunningByStage, HandlersDone, WorkersDone, Alive
<1>7. LoggerByStage'
  <2>1. dropped'["closed"] = dropped["closed"]
    BY <1>3 DEF Accept, Handle, Enqueue, Answer, Record, Send, Drop, Reasons,
                loggerVars, ProcessInv, ProcessTypes
  <2>2. run = "done" => queued' = queued
    BY <1>3 DEF Accept, Handle, Enqueue, Answer, Record, Send, loggerVars,
                ProcessInv, LoggerByStage
  <2>3. closed => holding' = holding
    BY <1>3
  <2>4. QED
    BY <1>1, <2>1, <2>2, <2>3 DEF ProcessInv, LoggerByStage
<1>8. QED
  BY <1>4, <1>5, <1>6, <1>7 DEF ProcessInv

LEMMA WorkerStep ==
    ASSUME ProcessInv, UNCHANGED schemaVars, NEW w \in Workers, Alive,
           Begin(w) \/ End(w) \/ Stop(w)
    PROVE  ProcessInv'
<1>1. UNCHANGED <<loggerVars, main, request, cancelled, open, jammed, outcome>>
  BY DEF Begin, End, Stop
<1>2. /\ worker' \in [Workers -> {"idle", "working", "stopped"}]
      /\ worker[w] # "stopped"
      /\ \A v \in Workers \ {w} : worker'[v] = worker[v]
  BY DEF Begin, End, Stop, ProcessInv, ProcessTypes
<1>3. ProcessTypes'
  BY <1>1, <1>2 DEF loggerVars, ProcessInv, ProcessTypes
<1>4. MainMigrates' /\ OpenByStage' /\ LoggerByStage'
  BY <1>1
  DEF loggerVars, schemaVars, ProcessInv, MainMigrates, At, OpenByStage, LoggerByStage
<1>5. RunningByStage'
  <2>1. ~ WorkersDone
    BY <1>2 DEF WorkersDone
  <2>2. QED
    BY <1>1, <2>1 DEF loggerVars, ProcessInv, RunningByStage, HandlersDone, Alive
<1>6. QED
  BY <1>3, <1>4, <1>5 DEF ProcessInv

LEMMA LoggerStep ==
    ASSUME ProcessInv, UNCHANGED schemaVars, RunLogger
    PROVE  ProcessInv'
<1>1. UNCHANGED <<main, request, worker, cancelled, open, jammed, outcome, holding,
                  closed, recorded, dropped>>
  BY DEF RunLogger, Run, Take, Log, Return
<1>2. run # "done"
  BY DEF RunLogger, Run, Take, Log, Return
<1>3. /\ queued' \in 0 .. QueueSize /\ logged' \in Nat
      /\ run' \in {"waiting", "logging", "done"}
      /\ run' = "done" => closed /\ queued' = 0
  BY QueueAssumption
  DEF RunLogger, Run, Take, Log, Return, Exhausted, ProcessInv, ProcessTypes
<1>4. ProcessTypes'
  BY <1>1, <1>3 DEF ProcessInv, ProcessTypes
<1>5. MainMigrates' /\ OpenByStage'
  BY <1>1 DEF schemaVars, ProcessInv, MainMigrates, At, OpenByStage
<1>6. RunningByStage'
  BY <1>1 DEF ProcessInv, RunningByStage, HandlersDone, WorkersDone, Alive
<1>7. LoggerByStage'
  BY <1>1, <1>2, <1>3 DEF ProcessInv, LoggerByStage
<1>8. QED
  BY <1>4, <1>5, <1>6, <1>7 DEF ProcessInv

LEMMA ShutdownStep ==
    ASSUME ProcessInv, UNCHANGED schemaVars,
           Signal \/ ServeFails \/ SecondSignal \/ Shutdown
    PROVE  ProcessInv'
<1>1. main \in {"serving", "shutdown", "cancel", "wait", "broker", "audit", "drain",
                "redis", "database", "telemetry"}
  BY DEF Signal, ServeFails, SecondSignal, Shutdown, ServerStops, ShutdownTimesOut,
         CancelWorkers, WorkersStop, WaitTimesOut, CloseBroker, Release,
         CloseLogger, Drained,
         DrainTimesOut, StopTelemetry, Proceed
<1>2. /\ main' \in {"shutdown", "cancel", "wait", "broker", "audit", "drain",
                    "redis", "database", "telemetry", "exited"}
      /\ UNCHANGED <<request, worker, queued, run, recorded, logged, dropped, holding>>
  BY DEF Signal, ServeFails, SecondSignal, Shutdown, ServerStops, ShutdownTimesOut,
         CancelWorkers, WorkersStop, WaitTimesOut, CloseBroker, Release,
         CloseLogger, CloseEvents,
         Drained, DrainTimesOut, StopTelemetry, Proceed, Elsewhere, loggerVars
<1>3. ProcessTypes'
  <2>1. closed' \in BOOLEAN /\ cancelled' \in BOOLEAN /\ open' \subseteq Resources
        /\ jammed' \in BOOLEAN /\ outcome' \in {"orderly", "late", "fatal"}
    BY DEF Signal, ServeFails, SecondSignal, Shutdown, ServerStops, ShutdownTimesOut,
           CancelWorkers, WorkersStop, WaitTimesOut, CloseBroker, Release,
           CloseLogger, CloseEvents,
           Drained, DrainTimesOut, StopTelemetry, loggerVars, ProcessInv, ProcessTypes
  <2>2. QED
    BY <1>2, <2>1 DEF ProcessInv, ProcessTypes, Stages
<1>4. MainMigrates'
  <2>1. At(Self, "done")'
    BY <1>1 DEF schemaVars, ProcessInv, MainMigrates, At
  <2>2. QED
    BY <1>2, <2>1 DEF MainMigrates
<1>5. OpenByStage'
  BY DEF Signal, ServeFails, SecondSignal, Shutdown, ServerStops, ShutdownTimesOut,
         CancelWorkers, WorkersStop, WaitTimesOut, CloseBroker, Release,
         CloseLogger, Drained,
         DrainTimesOut, StopTelemetry, Proceed, Resources, ProcessInv, OpenByStage
<1>6. RunningByStage'
  <2>1. HandlersDone' = HandlersDone /\ WorkersDone' = WorkersDone
    BY <1>2 DEF HandlersDone, WorkersDone
  <2>2. CASE CloseLogger
    BY <2>1, <2>2 DEF CloseLogger, Proceed, ProcessInv, RunningByStage, Alive
  <2>3. CASE Signal \/ ServeFails \/ ServerStops \/ ShutdownTimesOut \/ CancelWorkers
    BY <2>1, <2>3
    DEF Signal, ServeFails, ServerStops, ShutdownTimesOut, CancelWorkers, Proceed,
        loggerVars, ProcessInv, RunningByStage, Alive
  <2>4. CASE WorkersStop \/ Drained \/ DrainTimesOut \/ StopTelemetry
    BY <2>1, <2>4
    DEF WorkersStop, Drained, DrainTimesOut, StopTelemetry, Proceed,
        loggerVars, ProcessInv, RunningByStage, Alive
  <2>5. CASE WaitTimesOut
    BY <2>1, <2>5
    DEF WaitTimesOut, Proceed, loggerVars, Resources, ProcessInv, RunningByStage,
        OpenByStage, Alive
  <2>6. CASE CloseBroker \/ SecondSignal
    BY <2>1, <2>6
    DEF CloseBroker, SecondSignal, Release, Proceed, loggerVars, ProcessInv,
        RunningByStage, Alive
  <2>7. CASE Release("redis", "database") \/ Release("database", "telemetry")
    BY <2>1, <2>7
    DEF Release, Proceed, loggerVars, ProcessInv, RunningByStage, Alive
  <2>8. QED
    BY <2>2, <2>3, <2>4, <2>5, <2>6, <2>7 DEF Shutdown
<1>7. LoggerByStage'
  <2>1. closed' = closed \/ (closed' /\ holding = {})
    BY DEF Signal, ServeFails, SecondSignal, Shutdown, ServerStops, ShutdownTimesOut,
           CancelWorkers, WorkersStop, WaitTimesOut, CloseBroker, Release,
           CloseLogger, CloseEvents,
           Drained, DrainTimesOut, StopTelemetry, loggerVars
  <2>2. /\ main' \in {"redis", "database", "telemetry", "exited"}
        /\ outcome' = "orderly"
        => run = "done"
    BY DEF Signal, ServeFails, SecondSignal, Shutdown, ServerStops, ShutdownTimesOut,
           CancelWorkers, WorkersStop, WaitTimesOut, CloseBroker, Release,
           CloseLogger, Drained,
           DrainTimesOut, StopTelemetry, Proceed, ProcessInv, LoggerByStage
  <2>3. /\ closed' => holding' = {}
        /\ run' = "done" => closed' /\ queued' = 0
        /\ dropped'["closed"] = 0
    <3>1. /\ closed => holding = {}
          /\ run = "done" => closed /\ queued = 0
          /\ dropped["closed"] = 0
      BY DEF ProcessInv, LoggerByStage
    <3>2. closed => closed'
      BY <2>1
    <3>3. closed' => closed \/ holding = {}
      BY <2>1
    <3>4. QED
      BY <1>2, <3>1, <3>2, <3>3
  <2>4. QED
    BY <1>2, <2>2, <2>3 DEF LoggerByStage
<1>8. QED
  BY <1>3, <1>4, <1>5, <1>6, <1>7 DEF ProcessInv

\* Nothing but the close of the broker depends on the reader of its connection.
LEMMA ReaderStep ==
    ASSUME ProcessInv, UNCHANGED schemaVars, ReaderJams \/ ReaderGoesOn
    PROVE  ProcessInv'
<1>1. /\ jammed' \in BOOLEAN
      /\ UNCHANGED <<loggerVars, main, request, worker, cancelled, open, outcome>>
  BY DEF ReaderJams, ReaderGoesOn
<1>2. ProcessTypes' /\ MainMigrates' /\ OpenByStage'
  BY <1>1 DEF loggerVars, schemaVars, ProcessInv, ProcessTypes, MainMigrates, At,
              OpenByStage
<1>3. RunningByStage' /\ LoggerByStage'
  BY <1>1 DEF loggerVars, ProcessInv, RunningByStage, LoggerByStage, HandlersDone,
              WorkersDone, Alive
<1> QED
  BY <1>2, <1>3 DEF ProcessInv

LEMMA LiveStep ==
    ASSUME IInv, Live
    PROVE  IInv'
<1>1. UNCHANGED schemaVars /\ Alive
  BY DEF Live
<1>2. SchemaInv'
  BY <1>1, SchemaRests DEF IInv
<1>3. ProcessInv'
  <2>1. ASSUME NEW r \in Requests, Accept(r) \/ Handle(r) \/ Enqueue(r) \/ Answer(r)
        PROVE  ProcessInv'
    BY <1>1, <2>1, HandlerStep DEF IInv
  <2>2. ASSUME NEW w \in Workers, Begin(w) \/ End(w) \/ Stop(w)
        PROVE  ProcessInv'
    BY <1>1, <2>2, WorkerStep DEF IInv
  <2>3. CASE RunLogger
    BY <1>1, <2>3, LoggerStep DEF IInv
  <2>4. CASE Signal \/ ServeFails \/ SecondSignal \/ Shutdown
    BY <1>1, <2>4, ShutdownStep DEF IInv
  <2>5. CASE ReaderJams \/ ReaderGoesOn
    BY <1>1, <2>5, ReaderStep DEF IInv
  <2>6. QED
    BY <2>1, <2>2, <2>3, <2>4, <2>5 DEF Live
<1>4. QED
  BY <1>2, <1>3 DEF IInv

LEMMA StepKeepsIInv ==
    ASSUME IInv, [Next]_vars
    PROVE  IInv'
<1>1. CASE UNCHANGED vars
  <2>1. SchemaInv'
    BY <1>1, SchemaRests DEF vars, IInv
  <2>2. ProcessTypes' /\ MainMigrates'
    BY <1>1 DEF vars, processVars, loggerVars, schemaVars, IInv, ProcessInv,
                ProcessTypes, MainMigrates, At
  <2>3. OpenByStage' /\ RunningByStage' /\ LoggerByStage'
    BY <1>1 DEF vars, processVars, loggerVars, IInv, ProcessInv, OpenByStage,
                RunningByStage, LoggerByStage, HandlersDone, WorkersDone, Alive
  <2>4. QED
    BY <2>1, <2>2, <2>3 DEF IInv, ProcessInv
<1>2. CASE Launch
  BY <1>2, LaunchStep
<1>3. CASE StartUp
  BY <1>3, OpenDatabaseStep, MigrateStep, StartStep DEF StartUp
<1>4. CASE MigrationIsCutOff
  BY <1>4, MigrateStep
<1>5. CASE StartFails
  BY <1>5, StartFailsStep
<1>6. CASE Live
  BY <1>6, LiveStep
<1>7. ASSUME NEW i \in Peers, PeerStarts(i) \/ PeerIsCutOff(i)
      PROVE  IInv'
  BY <1>7, PeerStep
<1>8. QED
  BY <1>1, <1>2, <1>3, <1>4, <1>5, <1>6, <1>7 DEF Next

\* The inductive invariant: the schema's, the stages of main, and what is open,
\* running and closed at each of them.
THEOREM LifecycleInvariant == Spec => []IInv
BY ProcessInit, StepKeepsIInv, PTL DEF Spec

\* However many processes of whatever releases migrate, a process that has come
\* through finds its tables, migrations are recorded in order and only after
\* they were applied, and only a fault leaves one half done.
THEOREM SchemaStaysWhole == Spec => []SchemaIsWhole
<1>1. SchemaInv => SchemaIsWhole
  <2> SUFFICES ASSUME SchemaInv PROVE SchemaIsWhole
    OBVIOUS
  <2>1. HalfDone => faults > 0
    BY DEF SchemaInv, RecordFollows, HalfDone
  <2>2. \A m \in versions : 1 .. m \subseteq applied \intersect versions
    BY DEF SchemaInv, SchemaTypes, InOrder
  <2>3. \A i \in Instances :
            At(i, "done") => 1 .. Known[i] \subseteq applied \intersect versions
    BY DEF SchemaInv, SchemaTypes, WorkIsLeft
  <2>4. QED
    BY <2>1, <2>2, <2>3 DEF SchemaIsWhole
<1>2. QED
  BY <1>1, LifecycleInvariant, PTL DEF IInv

\* Handlers find everything open and their tables in place, and the database is
\* closed under a worker only if Close gave it up at its deadline.
THEOREM ResourcesOutlive == Spec => []ResourcesOutliveTheirUsers
<1>1. IInv => ResourcesOutliveTheirUsers
  <2> SUFFICES ASSUME IInv, Alive PROVE ResourcesOutliveTheirUsers
    BY DEF ResourcesOutliveTheirUsers
  <2>1. ASSUME ~ HandlersDone
        PROVE  open = Resources /\ ~ closed /\ 1 .. Known[Self] \subseteq applied
    <3>1. main \in {"serving", "shutdown"}
      BY <2>1 DEF IInv, ProcessInv, RunningByStage
    <3>2. open = Resources /\ ~ closed /\ At(Self, "done")
      BY <3>1 DEF IInv, ProcessInv, OpenByStage, RunningByStage, MainMigrates
    <3>3. 1 .. Known[Self] \subseteq applied
      BY <3>2, LifecycleAssumption DEF IInv, SchemaInv, SchemaTypes, WorkIsLeft
    <3>4. QED
      BY <3>2, <3>3
  <2>2. ASSUME ~ WorkersDone
        PROVE  "broker" \in open /\ ("database" \notin open => outcome = "late")
    BY <2>2 DEF IInv, ProcessInv, RunningByStage, OpenByStage, Resources
  <2>3. QED
    BY <2>1, <2>2 DEF ResourcesOutliveTheirUsers, HandlersDone, WorkersDone
<1>2. QED
  BY <1>1, LifecycleInvariant, PTL

-----------------------------------------------------------------------------
(***************************************************************************)
(* The books of the logger.                                                *)
(***************************************************************************)

Writing == IF run = "logging" THEN 1 ELSE 0

\* Every record is on its way into the queue, in it, being written, written or
\* dropped.
Total ==
    Cardinality(holding) + queued + Writing + logged
        + dropped["closed"] + dropped["full"]

Books == IsFiniteSet(holding) /\ recorded = Total

LEMMA EmptyBooks ==
    /\ Init => Books
    /\ Launch => Books'
<1>1. IsFiniteSet({}) /\ Cardinality({}) = 0
  BY FS_EmptySet
<1>2. ASSUME Init PROVE Books
  <2>1. /\ holding = {} /\ queued = 0 /\ Writing = 0 /\ recorded = 0 /\ logged = 0
        /\ dropped["closed"] = 0 /\ dropped["full"] = 0
    BY <1>2 DEF Init, LoggerInit, Writing, Reasons
  <2>2. Total = 0
    BY <1>1, <2>1 DEF Total
  <2>3. QED
    BY <1>1, <2>1, <2>2 DEF Books
<1>3. ASSUME Launch PROVE Books'
  <2>1. /\ holding' = {} /\ queued' = 0 /\ Writing' = 0 /\ recorded' = 0 /\ logged' = 0
        /\ dropped'["closed"] = 0 /\ dropped'["full"] = 0
    BY <1>3 DEF Launch, NewLogger, Writing, Reasons
  <2>2. Total' = 0
    BY <1>1, <2>1 DEF Total
  <2>3. QED
    BY <1>1, <2>1, <2>2 DEF Books
<1>4. QED
  BY <1>2, <1>3

LEMMA BooksKept ==
    ASSUME IInv, Books, [Next]_vars
    PROVE  Books'
<1>1. CASE UNCHANGED <<holding, queued, run, recorded, logged, dropped>>
  BY <1>1 DEF Books, Total, Writing
<1>2. CASE Launch
  BY <1>2, EmptyBooks
<1>3. /\ queued \in Nat /\ recorded \in Nat /\ logged \in Nat
      /\ dropped["closed"] \in Nat /\ dropped["full"] \in Nat
      /\ dropped \in [Reasons -> Nat]
  BY QueueAssumption DEF IInv, ProcessInv, ProcessTypes, Reasons
<1> DEFINE n == Cardinality(holding)
<1>4. n \in Nat /\ Writing \in Nat
  BY FS_CardinalityType DEF Books, Writing
<1>5. ASSUME NEW reason \in Reasons, Drop(reason)
      PROVE  /\ dropped'[reason] = dropped[reason] + 1
             /\ \A other \in Reasons \ {reason} : dropped'[other] = dropped[other]
  BY <1>3, <1>5 DEF Drop
<1>6. ASSUME NEW r \in Requests, Record(r)
      PROVE  Books'
  <2>1. queued' = queued /\ logged' = logged /\ recorded' = recorded + 1
        /\ Writing' = Writing
    BY <1>6 DEF Record, Writing
  <2>2. CASE closed
    <3>1. Drop("closed") /\ holding' = holding
      BY <1>6, <2>2 DEF Record
    <3>2. /\ dropped'["closed"] = dropped["closed"] + 1
          /\ dropped'["full"] = dropped["full"]
          /\ n' = n
      BY <1>5, <3>1 DEF Reasons
    <3>3. Total' = Total + 1
      BY <1>3, <1>4, <2>1, <3>2 DEF Total
    <3>4. QED
      BY <2>1, <3>1, <3>3 DEF Books
  <2>3. CASE ~ closed
    <3>1. r \notin holding /\ holding' = holding \union {r} /\ dropped' = dropped
      BY <1>6, <2>3 DEF Record
    <3>2. IsFiniteSet(holding') /\ n' = n + 1
      BY <3>1, FS_AddElement DEF Books
    <3>3. Total' = Total + 1
      BY <1>3, <1>4, <2>1, <3>1, <3>2 DEF Total
    <3>4. QED
      BY <2>1, <3>2, <3>3 DEF Books
  <2>4. QED
    BY <2>2, <2>3
<1>7. ASSUME NEW r \in Requests, Send(r)
      PROVE  Books'
  <2>1. logged' = logged /\ recorded' = recorded /\ Writing' = Writing
    BY <1>7 DEF Send, Writing
  <2>2. r \in holding /\ holding' = holding \ {r}
    BY <1>7 DEF Send
  <2>3. IsFiniteSet(holding') /\ n' = n - 1
    BY <2>2, FS_RemoveElement DEF Books
  <2>4. CASE HasRoom
    <3>1. queued' = queued + 1 /\ dropped' = dropped
      BY <1>7, <2>4 DEF Send
    <3>2. Total' = Total
      BY <1>3, <1>4, <2>1, <2>3, <3>1 DEF Total
    <3>3. QED
      BY <2>1, <2>3, <3>2 DEF Books
  <2>5. CASE ~ HasRoom
    <3>1. Drop("full") /\ queued' = queued
      BY <1>7, <2>5 DEF Send
    <3>2. /\ dropped'["full"] = dropped["full"] + 1
          /\ dropped'["closed"] = dropped["closed"]
      BY <1>5, <3>1 DEF Reasons
    <3>3. Total' = Total
      BY <1>3, <1>4, <2>1, <2>3, <3>1, <3>2 DEF Total
    <3>4. QED
      BY <2>1, <2>3, <3>3 DEF Books
  <2>6. QED
    BY <2>4, <2>5
<1>8. CASE RunLogger
  <2>1. /\ holding' = holding /\ recorded' = recorded /\ dropped' = dropped
        /\ queued' + Writing' + logged' = queued + Writing + logged
    BY <1>3, <1>8 DEF RunLogger, Run, Take, Log, Return, Writing
  <2>2. queued' \in Int /\ Writing' \in Int /\ logged' \in Int /\ n' = n
    BY <1>3, <1>8, <2>1 DEF RunLogger, Run, Take, Log, Return, Writing
  <2>3. /\ dropped'["closed"] = dropped["closed"]
        /\ dropped'["full"] = dropped["full"]
    BY <2>1
  <2>4. Total' = Total
    <3> DEFINE moving == queued + Writing + logged
    <3>1. Total = n + moving + dropped["closed"] + dropped["full"]
      BY <1>3, <1>4 DEF Total
    <3>2. Total' = n + moving' + dropped["closed"] + dropped["full"]
      BY <1>3, <1>4, <2>2, <2>3 DEF Total
    <3>3. QED
      BY <2>1, <3>1, <3>2
  <2>5. QED
    BY <2>1, <2>4 DEF Books
<1>9. CASE CloseLogger
  BY <1>1, <1>9 DEF CloseLogger, CloseEvents
<1>10. CASE StartUp \/ MigrationIsCutOff \/ StartFails
  BY <1>1, <1>10
  DEF StartUp, OpenDatabase, Migrate, MigrationIsCutOff, FollowMigrations, OpenRedis,
      Assemble, Listen, StartFails, loggerVars
<1>11. CASE \E i \in Peers : PeerStarts(i) \/ PeerIsCutOff(i)
  BY <1>1, <1>11 DEF PeerStarts, PeerIsCutOff, processVars, loggerVars
<1>12. CASE Live
  <2>1. CASE \E r \in Requests : Accept(r) \/ Answer(r)
    BY <1>1, <2>1 DEF Accept, Answer, loggerVars
  <2>2. CASE \E r \in Requests : Handle(r) \/ Enqueue(r)
    BY <1>6, <1>7, <2>2 DEF Handle, Enqueue
  <2>3. CASE \E w \in Workers : Begin(w) \/ End(w) \/ Stop(w)
    BY <1>1, <2>3 DEF Begin, End, Stop, loggerVars
  <2>4. CASE \/ Signal \/ ServeFails \/ SecondSignal \/ Shutdown
           \/ ReaderJams \/ ReaderGoesOn
    BY <1>1, <1>9, <2>4
    DEF Signal, ServeFails, SecondSignal, Shutdown, ServerStops, ShutdownTimesOut,
        CancelWorkers, WorkersStop, WaitTimesOut, CloseBroker, Release, ReaderJams,
        ReaderGoesOn, Drained, DrainTimesOut, StopTelemetry,
        loggerVars
  <2>5. QED
    BY <1>8, <1>12, <2>1, <2>2, <2>3, <2>4 DEF Live
<1>13. CASE UNCHANGED vars
  BY <1>1, <1>13 DEF vars, processVars, loggerVars
<1>14. QED
  BY <1>2, <1>10, <1>11, <1>12, <1>13 DEF Next

\* After an orderly shutdown every record is in the log, but for those that the
\* full queue refused and counted.
THEOREM NothingIsLost == Spec => []NothingRecordedIsLost
<1>1. Spec => []Books
  BY EmptyBooks, BooksKept, LifecycleInvariant, PTL DEF Spec
<1>2. IInv /\ Books => NothingRecordedIsLost
  <2> SUFFICES ASSUME IInv, Books, main = "exited", outcome = "orderly"
               PROVE  recorded = logged + dropped["full"]
    BY DEF NothingRecordedIsLost, Alive
  <2>1. /\ run = "done" /\ queued = 0 /\ holding = {}
        /\ dropped["closed"] = 0
    BY DEF IInv, ProcessInv, LoggerByStage
  <2>2. Cardinality(holding) = 0 /\ Writing = 0
    BY <2>1, FS_EmptySet DEF Writing
  <2>3. logged \in Nat /\ dropped["full"] \in Nat
    BY DEF IInv, ProcessInv, ProcessTypes, Reasons
  <2>4. recorded = Total
    BY DEF Books
  <2>5. QED
    BY <2>1, <2>2, <2>3, <2>4 DEF Total
<1>3. QED
  BY <1>1, <1>2, LifecycleInvariant, PTL

-----------------------------------------------------------------------------
(***************************************************************************)
(* The types.                                                              *)
(***************************************************************************)

\* Nobody has executed, or has still to do, what no release knows.
OnlyKnown ==
    /\ applied \subseteq AllMigrations
    /\ \A i \in Instances : migrator[i].pending \subseteq AllMigrations

\* A process takes what it has to do from what it knows.
LEMMA MigrationKeepsKnown ==
    ASSUME SchemaInv, OnlyKnown, NEW i \in Instances,
           \/ StartMigrator(i)
           \/ ApplyMigrations(i)
           \/ CutOff(i)
           \/ Leave(i) /\ UNCHANGED applied
    PROVE  OnlyKnown'
<1>1. /\ migrator \in [Instances -> [pc : {"out", "load", "apply", "record", "done"},
                                     pending : SUBSET Nat]]
      /\ 1 .. Known[i] \subseteq AllMigrations
  BY DEF SchemaInv, SchemaTypes, AllMigrations
<1>2. At(i, "apply") \/ At(i, "record") => Current(i) \in AllMigrations
  BY <1>1, CurrentIsNext
<1>3. applied' \subseteq AllMigrations
  BY <1>2 DEF OnlyKnown, StartMigrator, ApplyMigrations, Load, Apply, InsertVersion,
              CutOff
<1>4. /\ \A j \in Instances : j # i => migrator'[j] = migrator[j]
      /\ migrator'[i].pending \subseteq AllMigrations
  <2>1. ASSUME Leave(i)
        PROVE  /\ \A j \in Instances : j # i => migrator'[j] = migrator[j]
               /\ migrator'[i].pending \subseteq AllMigrations
    BY <1>1, <2>1 DEF Leave, Out
  <2>2. ASSUME NEW pending \in SUBSET AllMigrations, GoOn(i, pending)
        PROVE  /\ \A j \in Instances : j # i => migrator'[j] = migrator[j]
               /\ migrator'[i].pending \subseteq AllMigrations
    BY <1>1, <2>2 DEF GoOn
  <2>3. ASSUME NEW pc, migrator' = [migrator EXCEPT ![i].pc = pc]
        PROVE  /\ \A j \in Instances : j # i => migrator'[j] = migrator[j]
               /\ migrator'[i].pending \subseteq AllMigrations
    BY <1>1, <2>3 DEF OnlyKnown
  <2>4. CASE StartMigrator(i)
    BY <2>3, <2>4 DEF StartMigrator
  <2>5. CASE Load(i)
    <3>1. NotRecorded(i) \in SUBSET AllMigrations
      BY <1>1 DEF NotRecorded
    <3> QED
      BY <2>2, <2>5, <3>1 DEF Load
  <2>6. CASE Apply(i)
    BY <2>1, <2>3, <2>6 DEF Apply
  <2>7. CASE InsertVersion(i)
    <3>1. migrator[i].pending \ {Current(i)} \in SUBSET AllMigrations
      BY DEF OnlyKnown
    <3> QED
      BY <2>1, <2>2, <2>7, <3>1 DEF InsertVersion
  <2>8. CASE CutOff(i) \/ Leave(i)
    BY <2>1, <2>8 DEF CutOff
  <2> QED
    BY <2>4, <2>5, <2>6, <2>7, <2>8 DEF ApplyMigrations
<1> QED
  BY <1>3, <1>4 DEF OnlyKnown, AllMigrations

\* So do all steps.
LEMMA KnownKept ==
    ASSUME IInv, OnlyKnown, [Next]_vars
    PROVE  OnlyKnown'
<1>1. SchemaInv /\ Self \in Instances
  BY LifecycleAssumption DEF IInv
<1>2. ASSUME UNCHANGED <<applied, migrator>> PROVE OnlyKnown'
  BY <1>2 DEF OnlyKnown, AllMigrations
<1>3. CASE Launch \/ OpenDatabase \/ Migrate \/ MigrationIsCutOff
  BY <1>1, <1>3, MigrationKeepsKnown
  DEF Launch, OpenDatabase, Migrate, MigrationIsCutOff
<1>4. CASE OpenRedis \/ Assemble \/ Listen \/ StartFails \/ Live \/ UNCHANGED vars
  BY <1>2, <1>4 DEF OpenRedis, Assemble, Listen, StartFails, Live, vars, schemaVars
<1>5. ASSUME NEW i \in Peers, PeerStarts(i) \/ PeerIsCutOff(i) PROVE OnlyKnown'
  BY <1>1, <1>5, MigrationKeepsKnown DEF Peers, PeerStarts, PeerIsCutOff
<1> QED
  BY <1>3, <1>4, <1>5 DEF Next, StartUp

\* Stages, resources, queues and counters have their types: among them, that no
\* process has a migration to do that no release knows, and that the counters
\* of the logger, which nothing bounds but the records there are, are within
\* these.
THEOREM TypeCorrect == Spec => []TypeOK
<1>1. Init => OnlyKnown
  BY DEF Init, MigrationsInit, Out, OnlyKnown
<1>2. Spec => []OnlyKnown
  BY <1>1, KnownKept, LifecycleInvariant, PTL DEF Spec
<1>3. Spec => []Books
  BY EmptyBooks, BooksKept, LifecycleInvariant, PTL DEF Spec
<1>4. IInv /\ Books => LoggerTypeOK
  <2> SUFFICES ASSUME IInv, Books PROVE LoggerTypeOK
    OBVIOUS
  <2>1. ProcessTypes
    BY DEF IInv, ProcessInv
  <2>2. /\ Cardinality(holding) \in Nat /\ queued \in Nat /\ Writing \in Nat
        /\ logged \in Nat /\ recorded \in Nat /\ recorded <= MaxRecords
        /\ dropped["closed"] \in Nat /\ dropped["full"] \in Nat /\ MaxRecords \in Nat
        /\ recorded = Cardinality(holding) + queued + Writing + logged
                        + dropped["closed"] + dropped["full"]
    BY <2>1, FS_CardinalityType, QueueAssumption
    DEF Books, Total, ProcessTypes, Writing, Reasons
  <2>3. /\ logged \in 0 .. MaxRecords
        /\ dropped["closed"] \in 0 .. MaxRecords /\ dropped["full"] \in 0 .. MaxRecords
    BY <2>2
  <2>4. dropped \in [Reasons -> 0 .. MaxRecords]
    BY <2>1, <2>3 DEF ProcessTypes, Reasons
  <2> QED
    BY <2>1, <2>3, <2>4, LifecycleAssumption DEF ProcessTypes, LoggerTypeOK
<1>5. IInv /\ OnlyKnown => MigrationsTypeOK
  <2> SUFFICES ASSUME IInv, OnlyKnown PROVE MigrationsTypeOK
    OBVIOUS
  <2>1. SchemaTypes
    BY DEF IInv, SchemaInv
  <2>2. migrator \in [Instances -> [pc : {"out", "load", "apply", "record", "done"},
                                    pending : SUBSET AllMigrations]]
    BY <2>1 DEF SchemaTypes, OnlyKnown
  <2> QED
    BY <2>1, <2>2 DEF SchemaTypes, OnlyKnown, MigrationsTypeOK
<1>6. IInv /\ LoggerTypeOK /\ MigrationsTypeOK => TypeOK
  BY DEF IInv, ProcessInv, ProcessTypes, Stages, TypeOK
<1> QED
  BY <1>2, <1>3, <1>4, <1>5, <1>6, LifecycleInvariant, PTL
=============================================================================
