----------------------------- MODULE Migrations -----------------------------
(***************************************************************************)
(* The schema and its version (database/migrate.go), as golang-migrate     *)
(* drives them: to move up or down by one migration it marks the target    *)
(* version dirty, runs the statements of the migration one by one, each    *)
(* committed by itself, and marks the version clean.  Its lock is a no-op  *)
(* in this driver, so that two processes may migrate at once.              *)
(***************************************************************************)
EXTENDS Integers, FiniteSets

CONSTANTS
    Procs,     \* server and command processes on one database file
    Versions,  \* number of migrations
    Size,      \* Size[v]: statements of migration v
    Columns,   \* objects whose removal fails when they are not there
    Faults,    \* TRUE: a statement may fail, a process may crash
    None       \* no version

ASSUME MigrationsOK ==
    /\ Versions \in Nat
    /\ Size \in [1 .. Versions -> Nat \ {0}]
    /\ Faults \in BOOLEAN
    /\ None \notin 1 .. Versions
    /\ None \notin [v : 1 .. Versions, dirty : BOOLEAN]

VARIABLES
    schema,   \* the objects (tables, columns, indexes, triggers) that exist
    version,  \* the row of schema_migrations, None if there is none
    runner    \* the migrator of each process

migrationVars == <<schema, version, runner>>

\* What statement k of migration v creates.
ObjectsOf(v) == {v} \X (1 .. Size[v])
Complete(v) == UNION {ObjectsOf(i) : i \in 1 .. v}

Directions == {"up", "down"}
RunnerPCs == {"idle", "version", "mark", "run", "clean", "done", "failed"}

\* at: the migration being run; next: its next statement.
Runner == [pc : RunnerPCs, dir : Directions, at : 0 .. Versions + 1, next : Nat]
NoRunner == [pc |-> "idle", dir |-> "up", at |-> 0, next |-> 0]

Migrating(p) == runner[p].pc \in {"version", "mark", "run", "clean"}
Goto(p, label) == runner' = [runner EXCEPT ![p].pc = label]
EndsAs(p, label) == runner' = [runner EXCEPT ![p] = [NoRunner EXCEPT !.pc = label]]

-----------------------------------------------------------------------------

\* The row of no version cannot be dirty: there is none.
SetVersion(v, dirty) ==
    version' = IF v = None THEN None ELSE [v |-> v, dirty |-> dirty]

\* Mutant: the version below the first is numbered like any other.
TargetNumber(p) == IF runner[p].dir = "up" THEN runner[p].at ELSE runner[p].at - 1

\* The version that running the migration leads to.
Target(p) ==
    IF runner[p].dir = "up" THEN runner[p].at
    ELSE IF runner[p].at = 1 THEN None ELSE runner[p].at - 1

\* The migration to run after v, if there is one, else the work is done.
\* Nothing to do is a success.
Proceed(p, v) ==
    LET dir == runner[p].dir
        next == IF dir = "up" THEN v + 1 ELSE v
    IN IF next \in 1 .. Versions
       THEN runner' = [runner EXCEPT ![p] = [pc |-> "mark", dir |-> dir, at |-> next,
                                             next |-> 1]]
       ELSE EndsAs(p, "done")

Migrate(p, dir) ==
    /\ runner[p].pc = "idle"
    /\ runner' = [runner EXCEPT ![p] = [NoRunner EXCEPT !.pc = "version", !.dir = dir]]
    /\ UNCHANGED <<schema, version>>

\* Mutant: a dirty version is taken for a clean one.
ReadVersionDirty(p) ==
    /\ runner[p].pc = "version"
    /\ Proceed(p, IF version = None THEN 0 ELSE version.v)
    /\ UNCHANGED <<schema, version>>

\* Mutant: a dirty version is read again until it is clean.
ReadVersionAgain(p) ==
    /\ runner[p].pc = "version"
    /\ version # None => ~version.dirty
    /\ Proceed(p, IF version = None THEN 0 ELSE version.v)
    /\ UNCHANGED <<schema, version>>

\* The version is read once; a dirty one ends the process.
ReadVersion(p) ==
    /\ runner[p].pc = "version"
    /\ IF version = None THEN Proceed(p, 0)
       ELSE IF version.dirty THEN EndsAs(p, "failed") ELSE Proceed(p, version.v)
    /\ UNCHANGED <<schema, version>>

\* Mutant: the version is not marked before the statements run.
MarkDirtyNot(p) ==
    /\ runner[p].pc = "mark"
    /\ Goto(p, "run")
    /\ UNCHANGED <<schema, version>>

MarkDirty(p) ==
    /\ runner[p].pc = "mark"
    /\ SetVersion(Target(p), TRUE)
    /\ Goto(p, "run")
    /\ UNCHANGED schema

\* One statement, committed by itself.  CREATE and ADD COLUMN fail if the
\* object is there, DROP COLUMN if it is not; the other drops never do.  Down
\* drops in the opposite order.
RunStatement(p) ==
    LET r == runner[p]
        up == r.dir = "up"
        object == <<r.at, IF up THEN r.next ELSE Size[r.at] + 1 - r.next>>
        fails == IF up THEN object \in schema ELSE object \in Columns \ schema
    IN /\ r.pc = "run"
       /\ IF fails
          THEN EndsAs(p, "failed") /\ UNCHANGED schema
          ELSE /\ schema' = IF up THEN schema \cup {object} ELSE schema \ {object}
               /\ runner' = [runner EXCEPT
                    ![p].pc = IF r.next = Size[r.at] THEN "clean" ELSE "run",
                    ![p].next = @ + 1]
       /\ UNCHANGED version

MarkClean(p) ==
    /\ runner[p].pc = "clean"
    /\ SetVersion(Target(p), FALSE)
    /\ Proceed(p, IF runner[p].dir = "up" THEN runner[p].at ELSE runner[p].at - 1)
    /\ UNCHANGED schema

\* Any statement may fail; what was committed before stays.
StatementFails(p) ==
    /\ Faults
    /\ Migrating(p)
    /\ EndsAs(p, "failed")
    /\ UNCHANGED <<schema, version>>

MigrationsInit ==
    /\ schema = {}
    /\ version = None
    /\ runner = [p \in Procs |-> NoRunner]

MigrationsStep(p) ==
    ReadVersion(p) \/ MarkDirty(p) \/ RunStatement(p) \/ MarkClean(p)

MigrationsTypeOK ==
    /\ schema \subseteq Complete(Versions)
    /\ version \in [v : 1 .. Versions, dirty : BOOLEAN] \cup {None}
    /\ runner \in [Procs -> Runner]
=============================================================================
