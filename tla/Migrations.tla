----------------------------- MODULE Migrations -----------------------------
(***************************************************************************)
(* database.ApplyMigrations, as run by every process that starts, over one *)
(* schema and with no lock around it.  Releases embed different numbers of *)
(* migrations.  MySQL executes a DDL statement as a whole and commits it.  *)
(***************************************************************************)
EXTENDS Integers, FiniteSetsExt

CONSTANTS
    Instances,   \* API processes
    Known,       \* Known[i]: the migrations of i are 1 .. Known[i], in order
    MaxFaults    \* bound: statements cut off and starts that fail

ASSUME MigrationsAssumption ==
    /\ Known \in [Instances -> Nat]
    /\ MaxFaults \in Nat

VARIABLES
    applied,     \* the migrations whose statement is in force
    versions,    \* the rows of schema_migrations
    migrator,    \* migrator[i]: where the process is, and what is left to do
    faults       \* history: the faults so far

schemaVars == <<applied, versions, migrator, faults>>

AllMigrations == UNION {1 .. Known[i] : i \in Instances}

Out == [pc |-> "out", pending |-> {}]

MigrationsTypeOK ==
    /\ applied \subseteq AllMigrations
    /\ versions \subseteq AllMigrations
    /\ migrator \in [Instances -> [pc : {"out", "load", "apply", "record", "done"},
                                   pending : SUBSET AllMigrations]]
    /\ faults \in 0 .. MaxFaults

MigrationsInit ==
    /\ applied = {}
    /\ versions = {}
    /\ migrator = [i \in Instances |-> Out]
    /\ faults = 0

-----------------------------------------------------------------------------
At(i, pc) == migrator[i].pc = pc

Current(i) == Min(migrator[i].pending)

GoOn(i, pending) ==
    migrator' = [migrator EXCEPT ![i] =
        [pc |-> IF pending = {} THEN "done" ELSE "apply", pending |-> pending]]

\* log.Fatal follows every error.
Leave(i) == migrator' = [migrator EXCEPT ![i] = Out]

\* schema_migrations is created if it is not there.
StartMigrator(i) ==
    /\ At(i, "out")
    /\ migrator' = [migrator EXCEPT ![i].pc = "load"]
    /\ UNCHANGED <<applied, versions, faults>>

NotApplied(i) == 1 .. Known[i] \ applied  \* faulty: goes by the tables there are

AllKnown(i) == 1 .. Known[i]  \* faulty: begins with the first at every start

NotRecorded(i) == 1 .. Known[i] \ versions

\* The versions are read once, before the first statement.
Load(i) ==
    /\ At(i, "load")
    /\ GoOn(i, NotRecorded(i))
    /\ UNCHANGED <<applied, versions, faults>>

\* CREATE TABLE and ALTER TABLE fail on what is there already, and without the
\* tables they build on.  Not every migration builds on all before it; as they
\* are applied in order, those before are there whenever this is asked.
Executes(m) == m \notin applied /\ 1 .. m - 1 \subseteq applied

Apply(i) ==
    /\ At(i, "apply")
    /\ IF Executes(Current(i))
       THEN /\ applied' = applied \union {Current(i)}
            /\ migrator' = [migrator EXCEPT ![i].pc = "record"]
       ELSE Leave(i) /\ UNCHANGED applied
    /\ UNCHANGED <<versions, faults>>

InsertVersion(i) ==
    /\ At(i, "record")
    /\ IF Current(i) \in versions
       THEN Leave(i) /\ UNCHANGED versions
       ELSE /\ versions' = versions \union {Current(i)}
            /\ GoOn(i, migrator[i].pending \ {Current(i)})
    /\ UNCHANGED <<applied, faults>>

\* The process dies, or its ten seconds are over, before the statement it has
\* sent is executed or after.
CutOff(i) ==
    /\ faults < MaxFaults
    /\ faults' = faults + 1
    /\ \/ At(i, "load") /\ UNCHANGED <<applied, versions>>
       \/ At(i, "apply") /\ UNCHANGED <<applied, versions>>
       \/ /\ At(i, "apply") /\ Executes(Current(i))
          /\ applied' = applied \union {Current(i)} /\ UNCHANGED versions
       \/ At(i, "record") /\ UNCHANGED <<applied, versions>>
       \/ /\ At(i, "record")
          /\ versions' = versions \union {Current(i)} /\ UNCHANGED applied
    /\ Leave(i)

ApplyMigrations(i) == Load(i) \/ Apply(i) \/ InsertVersion(i)

-----------------------------------------------------------------------------
InFlight(m) == \E i \in Instances : At(i, "record") /\ Current(i) = m

\* A statement was executed that nobody will ever record: every later start
\* fails on it.
HalfDone == \E m \in applied \ versions : ~InFlight(m)

\* However many processes of whatever releases migrate at once, one that has
\* come through finds the tables of its release, nothing is recorded that was
\* not applied or out of order, and only a fault leaves a migration half done.
SchemaIsWhole ==
    /\ \A i \in Instances : At(i, "done") => 1 .. Known[i] \subseteq applied \intersect versions
    /\ \A m \in versions : 1 .. m \subseteq applied \intersect versions
    /\ HalfDone => faults > 0

\* A start that loses the race against another process, or is cut off, comes
\* through when it is tried again, unless a migration is half done.
StartsUnlessHalfDone ==
    \A i \in Instances : At(i, "load") ~> At(i, "done") \/ HalfDone
=============================================================================
