------------------------------- MODULE Server -------------------------------
(***************************************************************************)
(* Migrations and Lifecycle composed: processes of the forum command on    *)
(* one database file and one set of ports.  A process opens the database,  *)
(* migrates it up, serves and stops; or it runs one migrate command.  It   *)
(* may crash at any step and be started again, and nothing keeps a second  *)
(* process from being started beside it.                                   *)
(***************************************************************************)
EXTENDS Lifecycle

CONSTANTS
    Roles,  \* Roles[p]: what process p may be started for
    Alone   \* commands the operator runs only while no other process runs

Commands == {"serve", "up", "down"}

ASSUME ServerOK ==
    /\ Roles \in [Procs -> SUBSET Commands]
    /\ Alone \subseteq Commands
    /\ None \notin Commands

VARIABLES
    command  \* what each process was started for, None when it does not run

vars == <<migrationVars, lifeVars, command>>

\* A roll-back takes the schema away from a server that runs beside it.  The
\* code leaves that to the operator, and Alone says what the operator does.
Launch(p, c) ==
    /\ command[p] = None
    /\ \A q \in Procs \ {p} :
         command[q] # None => c \notin Alone /\ command[q] \notin Alone
    /\ command' = [command EXCEPT ![p] = c]
    /\ Migrate(p, IF c = "down" THEN "down" ELSE "up")
    /\ UNCHANGED lifeVars

Exits(p) ==
    /\ command' = [command EXCEPT ![p] = None]
    /\ runner' = [runner EXCEPT ![p] = NoRunner]
    /\ Gone(p)
    /\ UNCHANGED <<schema, version>>

\* The store is open: the server is built and run.
Serve(p) ==
    /\ command[p] = "serve" /\ runner[p].pc = "done"
    /\ runner' = [runner EXCEPT ![p] = NoRunner]
    /\ server' = [server EXCEPT ![p] = [NoServer EXCEPT !.pc = "start"]]
    /\ UNCHANGED <<schema, version, listener, handlers, command>>

\* A command is done, the migration failed, or the server has stopped.
Exit(p) ==
    /\ \/ runner[p].pc = "failed"
       \/ runner[p].pc = "done" /\ command[p] # "serve"
       \/ MainAt(p, "exit")
    /\ Exits(p)

Crash(p) ==
    /\ Faults
    /\ command[p] # None
    /\ Exits(p)

Init ==
    /\ MigrationsInit
    /\ LifecycleInit
    /\ command = [p \in Procs |-> None]

Migration(step) == step /\ UNCHANGED <<lifeVars, command>>
Life(step) == step /\ UNCHANGED <<migrationVars, command>>

\* What a process does by itself.
Work(p) == Migration(MigrationsStep(p)) \/ Serve(p) \/ Life(MainStep(p)) \/ Exit(p)

Next ==
    \E p \in Procs :
        \/ \E c \in Roles[p] : Launch(p, c)
        \/ Work(p)
        \/ \E l \in Listeners : Life(ListenerStep(p, l))
        \/ Life(Surroundings(p))
        \/ Migration(StatementFails(p))
        \/ Crash(p)

\* The scheduler runs every goroutine and the clock runs on, so that a Shutdown
\* that has to give up does.  Nothing makes a handler return, and nobody has
\* to start a process or send a signal.
Fairness ==
    \A p \in Procs :
        /\ WF_vars(Work(p))
        /\ \A l \in Listeners : WF_vars(Life(ListenerStep(p, l)))

Spec == Init /\ [][Next]_vars /\ Fairness

-----------------------------------------------------------------------------
(* Properties.                                                             *)

TypeOK ==
    /\ MigrationsTypeOK /\ LifecycleTypeOK
    /\ command \in [Procs -> Commands \cup {None}]

\* A process serves on the complete schema only, whatever crashed before it in
\* the middle of a migration and whoever migrates beside it.
ServesCompleteSchema ==
    \A p \in Procs : ~MainAt(p, "off") => schema = Complete(Versions)

\* A clean version tells the truth, also while somebody migrates: the objects
\* are those of the migrations up to it.
CleanMeansComplete ==
    version # None /\ ~version.dirty => schema = Complete(version.v)

\* Once the store is closed nobody takes a request any more, and one still in
\* flight outlasted the drain or its own listener had failed.
StoreOutlivesRequests ==
    \A p \in Procs : server[p].closed =>
        /\ \A l \in Listeners : listener[p][l] # "accept"
        /\ handlers[p]["primary"] > 0
             => "primary" \in server[p].timedOut \/ listener[p]["primary"] = "failed"

\* A process that was started comes to serve or ends: no migration, its own or
\* another's, keeps it waiting.
StartsOrEnds ==
    \A p \in Procs : command[p] # None ~> command[p] = None \/ MainAt(p, "select")

\* A server that is told to stop stops, though a request never ends.
SignalStops == \A p \in Procs : server[p].cancelled ~> MainAt(p, "off")

\* A server one of whose listeners has failed does not go on with the other.
FailureStops ==
    \A p \in Procs, l \in Listeners : listener[p][l] = "failed" ~> MainAt(p, "off")
=============================================================================
