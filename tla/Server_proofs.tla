---------------------------- MODULE Server_proofs ---------------------------
(***************************************************************************)
(* Proofs about Server, for any processes, any migrations and any bound on *)
(* the requests in flight.                                                 *)
(***************************************************************************)
EXTENDS Server, TLAPS

-----------------------------------------------------------------------------
(* Types.                                                                  *)

\* A runner that is at work is at a migration there is, and at one of its
\* statements.
Fits(r) ==
    /\ r.pc \in {"mark", "run", "clean"} => r.at \in 1 .. Versions
    /\ r.pc = "mark" => r.next = 1
    /\ r.pc = "run" => r.next \in 1 .. Size[r.at]
    /\ r.pc = "clean" => r.next = Size[r.at] + 1

TypeInv == TypeOK /\ \A p \in Procs : Fits(runner[p])

LEMMA NoRunnerType == NoRunner \in Runner /\ Fits(NoRunner)
BY MigrationsOK DEF NoRunner, Runner, RunnerPCs, Directions, Fits

LEMMA EndedType ==
    ASSUME NEW label \in {"done", "failed"}
    PROVE  [NoRunner EXCEPT !.pc = label] \in Runner /\ Fits([NoRunner EXCEPT !.pc = label])
BY MigrationsOK DEF NoRunner, Runner, RunnerPCs, Directions, Fits

\* One runner takes a step.
LEMMA RunnerStep ==
    ASSUME TypeInv, NEW p \in Procs, NEW r \in Runner, Fits(r),
           runner' = [runner EXCEPT ![p] = r],
           schema' \subseteq Complete(Versions),
           version' \in [v : 1 .. Versions, dirty : BOOLEAN] \cup {None}
    PROVE  MigrationsTypeOK' /\ \A q \in Procs : Fits(runner'[q])
<1>1. runner \in [Procs -> Runner] /\ \A q \in Procs : Fits(runner[q])
  BY DEF TypeInv, TypeOK, MigrationsTypeOK
<1>2. \A q \in Procs : runner'[q] = IF q = p THEN r ELSE runner[q]
  BY <1>1
<1>3. runner' \in [Procs -> Runner]
  BY <1>1
<1>4. Complete(Versions)' = Complete(Versions)
  BY DEF Complete, ObjectsOf
<1> HIDE DEF Complete, Fits
<1>5. QED BY <1>1, <1>2, <1>3, <1>4 DEF MigrationsTypeOK

\* Where a runner goes after version v.
LEMMA ProceedType ==
    ASSUME TypeInv, NEW p \in Procs, NEW v \in 0 .. Versions, Proceed(p, v)
    PROVE  \E r \in Runner : Fits(r) /\ runner' = [runner EXCEPT ![p] = r]
<1>1. runner[p].dir \in Directions
  BY DEF TypeInv, TypeOK, MigrationsTypeOK, Runner
<1> DEFINE next == IF runner[p].dir = "up" THEN v + 1 ELSE v
           r == [pc |-> "mark", dir |-> runner[p].dir, at |-> next, next |-> 1]
<1>2. CASE next \in 1 .. Versions
  <2>1. runner' = [runner EXCEPT ![p] = r]
    BY <1>2 DEF Proceed
  <2>2. r \in Runner /\ Fits(r)
    BY <1>1, <1>2, MigrationsOK DEF Runner, RunnerPCs, Fits
  <2>3. QED BY <2>1, <2>2
<1>3. CASE next \notin 1 .. Versions
  <2>1. runner' = [runner EXCEPT ![p] = [NoRunner EXCEPT !.pc = "done"]]
    BY <1>3 DEF Proceed, EndsAs
  <2>2. QED BY <2>1, EndedType
<1>4. QED BY <1>2, <1>3

LEMMA EndsType ==
    ASSUME NEW p \in Procs, NEW label \in {"done", "failed"}, EndsAs(p, label)
    PROVE  \E r \in Runner : Fits(r) /\ runner' = [runner EXCEPT ![p] = r]
BY EndedType DEF EndsAs

\* What is at some place of a migration belongs to the schema.
LEMMA InComplete ==
    ASSUME NEW v \in Int, NEW u \in 1 .. v, NEW k \in 1 .. Size[u]
    PROVE  <<u, k>> \in Complete(v)
BY DEF Complete, ObjectsOf

LEMMA TypeMigrating ==
    ASSUME TypeInv, NEW p \in Procs,
           \/ ReadVersion(p) \/ MarkDirty(p) \/ RunStatement(p) \/ MarkClean(p)
           \/ StatementFails(p)
    PROVE  MigrationsTypeOK' /\ \A q \in Procs : Fits(runner'[q])
<1>1. /\ runner \in [Procs -> Runner] /\ runner[p] \in Runner /\ Fits(runner[p])
      /\ schema \subseteq Complete(Versions)
      /\ version \in [v : 1 .. Versions, dirty : BOOLEAN] \cup {None}
      /\ Versions \in Nat /\ \A v \in 1 .. Versions : Size[v] \in Nat \ {0}
  BY MigrationsOK DEF TypeInv, TypeOK, MigrationsTypeOK
<1>2. CASE ReadVersion(p)
  <2>1. UNCHANGED <<schema, version>>
    BY <1>2 DEF ReadVersion
  <2>2. \E r \in Runner : Fits(r) /\ runner' = [runner EXCEPT ![p] = r]
    <3>1. CASE version = None
      <4>1. Proceed(p, 0) /\ 0 \in 0 .. Versions
        BY <1>1, <1>2, <3>1 DEF ReadVersion
      <4>2. QED BY <4>1, ProceedType
    <3>2. CASE version # None /\ version.dirty
      <4>1. EndsAs(p, "failed")
        BY <1>2, <3>2 DEF ReadVersion
      <4>2. QED BY <4>1, EndsType
    <3>3. CASE version # None /\ ~version.dirty
      <4>1. Proceed(p, version.v) /\ version.v \in 0 .. Versions
        BY <1>1, <1>2, <3>3 DEF ReadVersion
      <4>2. QED BY <4>1, ProceedType
    <3>4. QED BY <3>1, <3>2, <3>3
  <2>3. QED BY <1>1, <2>1, <2>2, RunnerStep
<1>3. CASE MarkDirty(p)
  <2>1. PICK r : r = [runner[p] EXCEPT !.pc = "run"]
    OBVIOUS
  <2>2. runner' = [runner EXCEPT ![p] = r] /\ UNCHANGED schema
    BY <1>1, <1>3, <2>1 DEF MarkDirty, Goto
  <2>3. runner[p].pc = "mark" /\ runner[p].at \in 1 .. Versions /\ runner[p].next = 1
    BY <1>1, <1>3 DEF MarkDirty, Fits
  <2>4. r \in Runner /\ Fits(r)
    BY <1>1, <2>1, <2>3 DEF Runner, RunnerPCs, Fits
  <2>5. Target(p) \in (1 .. Versions) \cup {None}
    BY <1>1, <2>3 DEF Target
  <2>6. version' \in [v : 1 .. Versions, dirty : BOOLEAN] \cup {None}
    BY <1>3, <2>5 DEF MarkDirty, SetVersion
  <2>7. QED BY <1>1, <2>2, <2>4, <2>6, RunnerStep
<1>4. CASE RunStatement(p)
  <2>1. /\ runner[p].pc = "run" /\ runner[p].at \in 1 .. Versions
        /\ runner[p].next \in 1 .. Size[runner[p].at] /\ runner[p].next \in Nat
        /\ Size[runner[p].at] \in Nat
    BY <1>1, <1>4 DEF RunStatement, Fits, Runner
  <2>2. PICK object : object = <<runner[p].at, IF runner[p].dir = "up" THEN runner[p].next
                                 ELSE Size[runner[p].at] + 1 - runner[p].next>>
    OBVIOUS
  <2>3. object \in Complete(Versions)
    BY <1>1, <2>1, <2>2, InComplete
  <2>4. UNCHANGED version
    BY <1>4 DEF RunStatement
  <2>5. CASE EndsAs(p, "failed") /\ UNCHANGED schema
    <3>1. \E r \in Runner : Fits(r) /\ runner' = [runner EXCEPT ![p] = r]
      BY <2>5, EndsType
    <3>2. QED BY <1>1, <2>4, <2>5, <3>1, RunnerStep
  <2>6. CASE ~(EndsAs(p, "failed") /\ UNCHANGED schema)
    <3>1. PICK r : r = [runner[p] EXCEPT
                          !.pc = IF runner[p].next = Size[runner[p].at] THEN "clean" ELSE "run",
                          !.next = @ + 1]
      OBVIOUS
    <3>2. /\ runner' = [runner EXCEPT
                 ![p].pc = IF runner[p].next = Size[runner[p].at] THEN "clean" ELSE "run",
                 ![p].next = @ + 1]
          /\ schema' = schema \cup {object} \/ schema' = schema \ {object}
      BY <1>4, <2>2, <2>6 DEF RunStatement
    <3>3. runner' = [runner EXCEPT ![p] = r]
      BY <1>1, <3>1, <3>2 DEF Runner
    <3>4. r \in Runner
      <4>1. /\ runner[p].dir \in Directions /\ runner[p].at \in 0 .. Versions + 1
            /\ runner[p].next + 1 \in Nat
        BY <1>1, <2>1 DEF Runner
      <4>2. r = [pc |-> IF runner[p].next = Size[runner[p].at] THEN "clean" ELSE "run",
                 dir |-> runner[p].dir, at |-> runner[p].at, next |-> runner[p].next + 1]
        BY <1>1, <3>1 DEF Runner
      <4>3. QED BY <4>1, <4>2 DEF Runner, RunnerPCs
    <3>5. /\ r.pc = IF runner[p].next = Size[runner[p].at] THEN "clean" ELSE "run"
          /\ r.at = runner[p].at /\ r.next = runner[p].next + 1
      BY <1>1, <3>1 DEF Runner
    <3>6. Fits(r)
      BY <2>1, <3>5 DEF Fits
    <3>7. schema' \subseteq Complete(Versions)
      BY <1>1, <2>3, <3>2
    <3>8. QED BY <1>1, <2>4, <3>3, <3>4, <3>6, <3>7, RunnerStep
  <2>7. QED BY <2>5, <2>6
<1>5. CASE MarkClean(p)
  <2>1. /\ UNCHANGED schema /\ SetVersion(Target(p), FALSE)
        /\ Proceed(p, IF runner[p].dir = "up" THEN runner[p].at ELSE runner[p].at - 1)
    BY <1>5 DEF MarkClean
  <2>2. runner[p].at \in 1 .. Versions
    BY <1>1, <1>5 DEF MarkClean, Fits
  <2>3. \E r \in Runner : Fits(r) /\ runner' = [runner EXCEPT ![p] = r]
    <3>1. (IF runner[p].dir = "up" THEN runner[p].at ELSE runner[p].at - 1) \in 0 .. Versions
      BY <1>1, <2>2
    <3>2. QED BY <2>1, <3>1, ProceedType
  <2>4. Target(p) \in (1 .. Versions) \cup {None}
    BY <1>1, <2>2 DEF Target
  <2>5. version' \in [v : 1 .. Versions, dirty : BOOLEAN] \cup {None}
    BY <2>1, <2>4 DEF SetVersion
  <2>6. QED BY <1>1, <2>1, <2>3, <2>5, RunnerStep
<1>6. CASE StatementFails(p)
  <2>1. EndsAs(p, "failed") /\ UNCHANGED <<schema, version>>
    BY <1>6 DEF StatementFails
  <2>2. \E r \in Runner : Fits(r) /\ runner' = [runner EXCEPT ![p] = r]
    BY <2>1, EndsType
  <2>3. QED BY <1>1, <2>1, <2>2, RunnerStep
<1>7. QED BY <1>2, <1>3, <1>4, <1>5, <1>6

\* One server process takes a step.
LEMMA MainStepType ==
    ASSUME TypeInv, NEW p \in Procs, NEW m \in Main, server' = [server EXCEPT ![p] = m],
           UNCHANGED handlers, listener' \in [Procs -> [Listeners -> ListenerStates]]
    PROVE  LifecycleTypeOK'
BY DEF TypeInv, TypeOK, LifecycleTypeOK

LEMMA ListenerStepType ==
    ASSUME TypeInv, NEW p \in Procs, NEW l \in Listeners, NEW s \in ListenerStates,
           listener' = [listener EXCEPT ![p][l] = s], UNCHANGED <<server, handlers>>
    PROVE  LifecycleTypeOK'
<1>1. listener \in [Procs -> [Listeners -> ListenerStates]]
  BY DEF TypeInv, TypeOK, LifecycleTypeOK
<1>2. listener[p] \in [Listeners -> ListenerStates]
  BY <1>1
<1>3. [listener[p] EXCEPT ![l] = s] \in [Listeners -> ListenerStates]
  BY <1>2
<1>4. listener' \in [Procs -> [Listeners -> ListenerStates]]
  BY <1>1, <1>3
<1>5. QED BY <1>4 DEF TypeInv, TypeOK, LifecycleTypeOK

LEMMA HandlerStepType ==
    ASSUME TypeInv, NEW p \in Procs, NEW l \in Listeners, NEW n \in 0 .. Busy,
           handlers' = [handlers EXCEPT ![p][l] = n], UNCHANGED <<server, listener>>
    PROVE  LifecycleTypeOK'
<1>1. handlers \in [Procs -> [Listeners -> 0 .. Busy]]
  BY DEF TypeInv, TypeOK, LifecycleTypeOK
<1>2. handlers[p] \in [Listeners -> 0 .. Busy]
  BY <1>1
<1>3. [handlers[p] EXCEPT ![l] = n] \in [Listeners -> 0 .. Busy]
  BY <1>2
<1>4. handlers' \in [Procs -> [Listeners -> 0 .. Busy]]
  BY <1>1, <1>3
<1>5. QED BY <1>4 DEF TypeInv, TypeOK, LifecycleTypeOK

\* The main goroutine.
LEMMA TypeMain ==
    ASSUME TypeInv, NEW p \in Procs, MainStep(p) \/ Signal(p)
    PROVE  LifecycleTypeOK'
<1>1. /\ server \in [Procs -> Main] /\ server[p] \in Main
      /\ listener \in [Procs -> [Listeners -> ListenerStates]]
  BY DEF TypeInv, TypeOK, LifecycleTypeOK
<1>2. /\ server[p].shut \in SUBSET Listeners /\ server[p].timedOut \in SUBSET Listeners
      /\ server[p].cancelled \in BOOLEAN /\ server[p].closed \in BOOLEAN
  BY <1>1 DEF Main
<1>3. CASE StartListeners(p)
  <2>1. PICK m : m = [server[p] EXCEPT !.pc = "select"]
    OBVIOUS
  <2>2. server' = [server EXCEPT ![p] = m]
    BY <1>1, <1>3, <2>1 DEF StartListeners
  <2>3. m \in Main
    BY <1>1, <1>2, <2>1 DEF Main, MainPCs, Listeners
  <2>5. /\ [l \in Listeners |-> IF l = "primary" \/ p \in Second THEN "start" ELSE "off"]
            \in [Listeners -> ListenerStates]
        /\ UNCHANGED handlers
    BY <1>3 DEF StartListeners, ListenerStates
  <2>6. listener' \in [Procs -> [Listeners -> ListenerStates]]
    BY <1>1, <1>3, <2>5 DEF StartListeners
  <2>7. QED BY <2>2, <2>3, <2>5, <2>6, MainStepType
<1>4. ASSUME NEW label \in MainPCs, NEW l \in Listeners, ShutDown(p, label, l),
             UNCHANGED <<listener, handlers>>
      PROVE  LifecycleTypeOK'
  <2>1. PICK m : m = [server[p] EXCEPT !.pc = label, !.shut = @ \cup {l}]
    OBVIOUS
  <2>2. server' = [server EXCEPT ![p] = m]
    BY <1>1, <1>4, <2>1 DEF ShutDown
  <2>3. m \in Main
    BY <1>1, <1>2, <2>1 DEF Main, MainPCs, Listeners
  <2>5. QED BY <1>1, <1>4, <2>2, <2>3, MainStepType
<1>5. CASE Select(p)
  <2>1. UNCHANGED <<listener, handlers>>
    BY <1>5 DEF Select
  <2>2. CASE server' = [server EXCEPT ![p].pc = "close"]
    <3>1. PICK m : m = [server[p] EXCEPT !.pc = "close"]
      OBVIOUS
    <3>2. server' = [server EXCEPT ![p] = m]
      BY <1>1, <2>2, <3>1
    <3>3. m \in Main
      BY <1>1, <1>2, <3>1 DEF Main, MainPCs, Listeners
    <3>5. QED BY <1>1, <2>1, <3>2, <3>3, MainStepType
  <2>3. CASE \/ ShutDown(p, "drain", "primary") \/ ShutDown(p, "stopSecond", "secondary")
             \/ ShutDown(p, "stop", "primary")
    BY <1>4, <2>1, <2>3 DEF MainPCs, Listeners
  <2>4. QED BY <1>5, <2>2, <2>3 DEF Select
<1>6. CASE Drained(p) \/ Timeout(p)
  <2>1. PICK gaveUp \in SUBSET Listeners : Leave(p, gaveUp)
    BY <1>6 DEF Drained, Timeout, Draining, Listeners
  <2>2. UNCHANGED <<listener, handlers>>
    BY <1>6 DEF Drained, Timeout
  <2>3. CASE MainAt(p, "drain") /\ p \in Second
    <3>1. PICK m : m = [server[p] EXCEPT !.pc = "drainSecond", !.shut = Listeners,
                                            !.timedOut = @ \cup gaveUp]
      OBVIOUS
    <3>2. server' = [server EXCEPT ![p] = m]
      BY <1>1, <2>1, <2>3, <3>1 DEF Leave
    <3>3. m \in Main
      BY <1>1, <1>2, <3>1 DEF Main, MainPCs, Listeners
    <3>5. QED BY <1>1, <2>2, <3>2, <3>3, MainStepType
  <2>4. CASE ~(MainAt(p, "drain") /\ p \in Second)
    <3>1. PICK m : m = [server[p] EXCEPT !.pc = "close", !.timedOut = @ \cup gaveUp]
      OBVIOUS
    <3>2. server' = [server EXCEPT ![p] = m]
      BY <1>1, <2>1, <2>4, <3>1 DEF Leave
    <3>3. m \in Main
      BY <1>1, <1>2, <3>1 DEF Main, MainPCs, Listeners
    <3>5. QED BY <1>1, <2>2, <3>2, <3>3, MainStepType
  <2>5. QED BY <2>3, <2>4
<1>7. CASE CloseStore(p)
  <2>1. PICK m : m = [server[p] EXCEPT !.pc = "exit", !.closed = TRUE]
    OBVIOUS
  <2>2. server' = [server EXCEPT ![p] = m]
    BY <1>1, <1>7, <2>1 DEF CloseStore
  <2>3. m \in Main
    BY <1>1, <1>2, <2>1 DEF Main, MainPCs, Listeners
  <2>5. UNCHANGED <<listener, handlers>>
    BY <1>7 DEF CloseStore
  <2>6. QED BY <1>1, <2>2, <2>3, <2>5, MainStepType
<1>8. CASE Signal(p)
  <2>1. PICK m : m = [server[p] EXCEPT !.cancelled = TRUE]
    OBVIOUS
  <2>2. server' = [server EXCEPT ![p] = m]
    BY <1>1, <1>8, <2>1 DEF Signal
  <2>3. m \in Main
    BY <1>1, <1>2, <2>1 DEF Main, MainPCs, Listeners
  <2>5. UNCHANGED <<listener, handlers>>
    BY <1>8 DEF Signal
  <2>6. QED BY <1>1, <2>2, <2>3, <2>5, MainStepType
<1>9. QED BY <1>3, <1>5, <1>6, <1>7, <1>8 DEF MainStep

\* A listener, or a request it accepted.
LEMMA TypeListener ==
    ASSUME TypeInv, NEW p \in Procs, NEW l \in Listeners,
           \/ Listen(p, l) \/ ListenerEnds(p, l) \/ ListenerFails(p, l)
           \/ RequestBegins(p, l) \/ RequestEnds(p, l)
    PROVE  LifecycleTypeOK'
<1>1. CASE Listen(p, l) \/ ListenerEnds(p, l) \/ ListenerFails(p, l)
  <2>1. PICK s \in ListenerStates : listener' = [listener EXCEPT ![p][l] = s]
    BY <1>1 DEF Listen, ListenerEnds, ListenerFails, ListenerStates
  <2>2. UNCHANGED <<server, handlers>>
    BY <1>1 DEF Listen, ListenerEnds, ListenerFails
  <2>3. QED BY <2>1, <2>2, ListenerStepType
<1>2. CASE RequestBegins(p, l) \/ RequestEnds(p, l)
  <2>1. PICK h \in 0 .. Busy : h = handlers[p][l]
    BY DEF TypeInv, TypeOK, LifecycleTypeOK
  <2>2. PICK n \in 0 .. Busy : handlers' = [handlers EXCEPT ![p][l] = n]
    <3>1. CASE RequestBegins(p, l)
      <4>1. h + 1 \in 0 .. Busy
        BY <2>1, <3>1, LifecycleOK DEF RequestBegins
      <4>2. handlers' = [handlers EXCEPT ![p][l] = h + 1]
        BY <2>1, <3>1 DEF RequestBegins
      <4>3. QED BY <4>1, <4>2
    <3>2. CASE RequestEnds(p, l)
      <4>1. h - 1 \in 0 .. Busy
        BY <2>1, <3>2, LifecycleOK DEF RequestEnds
      <4>2. handlers' = [handlers EXCEPT ![p][l] = h - 1]
        BY <2>1, <3>2 DEF RequestEnds
      <4>3. QED BY <4>1, <4>2
    <3>3. QED BY <1>2, <3>1, <3>2
  <2>3. UNCHANGED <<server, listener>>
    BY <1>2 DEF RequestBegins, RequestEnds
  <2>4. QED BY <2>2, <2>3, HandlerStepType
<1>3. QED BY <1>1, <1>2

LEMMA TypeServing ==
    ASSUME TypeInv, NEW p \in Procs,
           \/ MainStep(p) \/ Surroundings(p)
           \/ \E l \in Listeners : ListenerStep(p, l)
    PROVE  LifecycleTypeOK'
BY TypeMain, TypeListener DEF Surroundings, ListenerStep

LEMMA GoneType ==
    ASSUME TypeInv, NEW p \in Procs, Gone(p)
    PROVE  LifecycleTypeOK'
<1>1. NoServer \in Main
  BY DEF NoServer, Main, MainPCs
<1>2. [l \in Listeners |-> "off"] \in [Listeners -> ListenerStates]
  BY DEF ListenerStates
<1>3. [l \in Listeners |-> 0] \in [Listeners -> 0 .. Busy]
  BY LifecycleOK
<1>4. QED BY <1>1, <1>2, <1>3 DEF Gone, TypeInv, TypeOK, LifecycleTypeOK

\* A process starts, serves or ends.
LEMMA TypeProcess ==
    ASSUME TypeInv, NEW p \in Procs,
           \/ \E c \in Roles[p] : Launch(p, c)
           \/ Serve(p) \/ Exit(p) \/ Crash(p)
    PROVE  TypeInv'
<1>1. /\ schema \subseteq Complete(Versions)
      /\ version \in [v : 1 .. Versions, dirty : BOOLEAN] \cup {None}
      /\ command \in [Procs -> Commands \cup {None}] /\ LifecycleTypeOK
  BY DEF TypeInv, TypeOK, MigrationsTypeOK
<1>2. ASSUME NEW c \in Roles[p], Launch(p, c)
      PROVE  TypeInv'
  <2>1. c \in Commands
    BY ServerOK
  <2>2. PICK r : r = [NoRunner EXCEPT !.pc = "version",
                                      !.dir = IF c = "down" THEN "down" ELSE "up"]
    OBVIOUS
  <2>3. runner' = [runner EXCEPT ![p] = r] /\ UNCHANGED <<schema, version>>
    BY <1>2, <2>2 DEF Launch, Migrate
  <2>4. r \in Runner /\ Fits(r)
    <3>1. r = [pc |-> "version", dir |-> IF c = "down" THEN "down" ELSE "up", at |-> 0,
               next |-> 0]
      BY <2>2 DEF NoRunner
    <3>2. QED BY <3>1, MigrationsOK DEF Runner, RunnerPCs, Directions, Fits
  <2>5. command' \in [Procs -> Commands \cup {None}] /\ UNCHANGED lifeVars
    BY <1>1, <1>2, <2>1 DEF Launch
  <2>6. LifecycleTypeOK'
    BY <1>1, <2>5 DEF LifecycleTypeOK, lifeVars
  <2>7. QED BY <1>1, <2>3, <2>4, <2>5, <2>6, RunnerStep DEF TypeInv, TypeOK
<1>3. CASE Serve(p)
  <2>1. /\ runner' = [runner EXCEPT ![p] = NoRunner]
        /\ UNCHANGED <<schema, version, listener, handlers, command>>
    BY <1>3 DEF Serve
  <2>2. server' \in [Procs -> Main]
    BY <1>1, <1>3 DEF Serve, LifecycleTypeOK, NoServer, Main, MainPCs
  <2>3. LifecycleTypeOK'
    BY <1>1, <2>1, <2>2 DEF LifecycleTypeOK
  <2>4. QED BY <1>1, <2>1, <2>3, NoRunnerType, RunnerStep DEF TypeInv, TypeOK
<1>4. CASE Exit(p) \/ Crash(p)
  <2>1. Exits(p)
    BY <1>4 DEF Exit, Crash
  <2>2. LifecycleTypeOK'
    BY <2>1, GoneType DEF Exits
  <2>3. command' \in [Procs -> Commands \cup {None}]
    BY <1>1, <2>1 DEF Exits
  <2>4. QED BY <1>1, <2>1, <2>2, <2>3, NoRunnerType, RunnerStep DEF Exits, TypeInv, TypeOK
<1>5. QED BY <1>2, <1>3, <1>4

\* The steps there are, sorted by what they change.
LEMMA NextCases ==
    ASSUME Next
    PROVE  \E p \in Procs :
             \/ /\ \/ ReadVersion(p) \/ MarkDirty(p) \/ RunStatement(p) \/ MarkClean(p)
                   \/ StatementFails(p)
                /\ UNCHANGED <<lifeVars, command>>
             \/ /\ \/ MainStep(p) \/ Surroundings(p)
                   \/ \E l \in Listeners : ListenerStep(p, l)
                /\ UNCHANGED <<migrationVars, command>>
             \/ \E c \in Roles[p] : Launch(p, c)
             \/ Serve(p) \/ Exit(p) \/ Crash(p)
BY DEF Next, Work, Migration, Life, MigrationsStep

LEMMA TypeStep ==
    ASSUME TypeInv, [Next]_vars
    PROVE  TypeInv'
<1>1. CASE UNCHANGED vars
  BY <1>1 DEF vars, migrationVars, lifeVars, TypeInv, TypeOK, MigrationsTypeOK,
              LifecycleTypeOK, Complete, ObjectsOf, Fits
<1>2. CASE Next
  <2>1. PICK p \in Procs :
          \/ /\ \/ ReadVersion(p) \/ MarkDirty(p) \/ RunStatement(p) \/ MarkClean(p)
                \/ StatementFails(p)
             /\ UNCHANGED <<lifeVars, command>>
          \/ /\ \/ MainStep(p) \/ Surroundings(p)
                \/ \E l \in Listeners : ListenerStep(p, l)
             /\ UNCHANGED <<migrationVars, command>>
          \/ \E c \in Roles[p] : Launch(p, c)
          \/ Serve(p) \/ Exit(p) \/ Crash(p)
    BY <1>2, NextCases
  <2>2. CASE /\ \/ ReadVersion(p) \/ MarkDirty(p) \/ RunStatement(p) \/ MarkClean(p)
                \/ StatementFails(p)
             /\ UNCHANGED <<lifeVars, command>>
    <3>1. MigrationsTypeOK' /\ \A q \in Procs : Fits(runner'[q])
      BY <2>2, TypeMigrating
    <3>2. UNCHANGED <<server, listener, handlers, command>>
      BY <2>2 DEF lifeVars
    <3>3. QED BY <3>1, <3>2 DEF TypeInv, TypeOK, LifecycleTypeOK
  <2>3. CASE /\ \/ MainStep(p) \/ Surroundings(p)
                \/ \E l \in Listeners : ListenerStep(p, l)
             /\ UNCHANGED <<migrationVars, command>>
    <3>1. LifecycleTypeOK'
      BY <2>3, TypeServing
    <3>2. UNCHANGED <<schema, version, runner, command>>
      BY <2>3 DEF migrationVars
    <3>3. QED BY <3>1, <3>2 DEF TypeInv, TypeOK, MigrationsTypeOK, Complete, ObjectsOf
  <2>4. CASE (\E c \in Roles[p] : Launch(p, c)) \/ Serve(p) \/ Exit(p) \/ Crash(p)
    BY <2>4, TypeProcess
  <2>5. QED BY <2>1, <2>2, <2>3, <2>4
<1>3. QED BY <1>1, <1>2

LEMMA TypeInvHolds == Spec => []TypeInv
<1>1. Init => TypeInv
  <2>1. SUFFICES ASSUME Init PROVE TypeInv
    OBVIOUS
  <2>2. MigrationsTypeOK /\ \A p \in Procs : Fits(runner[p])
    BY <2>1, NoRunnerType DEF Init, MigrationsInit, MigrationsTypeOK
  <2>3. LifecycleTypeOK
    BY <2>1, LifecycleOK DEF Init, LifecycleInit, LifecycleTypeOK, NoServer, Main, MainPCs,
                             ListenerStates
  <2>4. QED BY <2>1, <2>2, <2>3 DEF Init, TypeInv, TypeOK
<1>2. TypeInv /\ [Next]_vars => TypeInv'
  BY TypeStep
<1>3. QED BY <1>1, <1>2, PTL DEF Spec

\* The schema, its version, and the state of every process keep their shape.
THEOREM TypeCorrect == Spec => []TypeOK
<1>1. TypeInv => TypeOK
  BY DEF TypeInv
<1>2. QED BY <1>1, TypeInvHolds, PTL

-----------------------------------------------------------------------------
(* The store and the requests that use it.                                 *)

\* A listener that accepts no request, now or later.
Silent(p, l) ==
    \/ listener[p][l] \in {"off", "failed"}
    \/ l \in server[p].shut /\ listener[p][l] # "accept"

\* A shutdown leaves a listener behind only when it is silent.  The requests it
\* had are done then or were given up; or it had failed.
Drains(p) ==
    /\ server[p].closed => server[p].pc = "exit"
    /\ p \notin Second => listener[p]["secondary"] = "off"
    /\ server[p].pc \in {"drain", "stop"} => "primary" \in server[p].shut
    /\ server[p].pc \in {"drainSecond", "stopSecond"} => "secondary" \in server[p].shut
    /\ server[p].pc = "stop" => listener[p]["secondary"] = "failed"
    /\ server[p].pc \in {"drainSecond", "stopSecond", "close", "exit"} =>
         \/ listener[p]["primary"] = "failed"
         \/ /\ "primary" \in server[p].shut
            /\ listener[p]["primary"] # "accept"
            /\ handlers[p]["primary"] = 0 \/ "primary" \in server[p].timedOut
    /\ server[p].pc \in {"close", "exit"} => Silent(p, "secondary")

LEMMA DrainMain ==
    ASSUME TypeInv, NEW p \in Procs, Drains(p), MainStep(p) \/ Signal(p)
    PROVE  Drains(p)' /\ \A q \in Procs \ {p} : server'[q] = server[q] /\ listener'[q] = listener[q]
                                               /\ handlers'[q] = handlers[q]
<1>1. /\ server \in [Procs -> Main] /\ server[p] \in Main
      /\ listener \in [Procs -> [Listeners -> ListenerStates]]
      /\ handlers[p]["primary"] \in Nat
  BY LifecycleOK DEF TypeInv, TypeOK, LifecycleTypeOK, Listeners
<1>2. CASE StartListeners(p)
  BY <1>1, <1>2 DEF StartListeners, Drains, Silent, MainAt, Main, Listeners
<1>3. CASE Signal(p)
  BY <1>1, <1>3 DEF Signal, Drains, Silent, Main
<1>4. CASE Select(p)
  BY <1>1, <1>4 DEF Select, ShutDown, Drains, Silent, MainAt, Main
<1>5. CASE Drained(p) \/ Timeout(p)
  BY <1>1, <1>5 DEF Drained, Timeout, Leave, Draining, InShutdown, Drains, Silent, MainAt, Main,
                    Listeners
<1>6. CASE CloseStore(p)
  BY <1>1, <1>6 DEF CloseStore, Drains, Silent, MainAt, Main
<1>7. QED BY <1>2, <1>3, <1>4, <1>5, <1>6 DEF MainStep

LEMMA DrainListener ==
    ASSUME TypeInv, NEW p \in Procs, Drains(p), NEW l \in Listeners,
           \/ Listen(p, l) \/ ListenerEnds(p, l) \/ ListenerFails(p, l)
           \/ RequestBegins(p, l) \/ RequestEnds(p, l)
    PROVE  Drains(p)' /\ \A q \in Procs \ {p} : server'[q] = server[q] /\ listener'[q] = listener[q]
                                               /\ handlers'[q] = handlers[q]
<1>1. /\ server \in [Procs -> Main] /\ server[p] \in Main
      /\ listener \in [Procs -> [Listeners -> ListenerStates]]
      /\ handlers \in [Procs -> [Listeners -> 0 .. Busy]]
      /\ handlers[p]["primary"] \in Nat /\ "primary" \in Listeners
  BY LifecycleOK DEF TypeInv, TypeOK, LifecycleTypeOK, Listeners
<1>2. CASE Listen(p, l)
  BY <1>1, <1>2 DEF Listen, Drains, Silent
<1>3. CASE ListenerEnds(p, l)
  BY <1>1, <1>3 DEF ListenerEnds, Drains, Silent
<1>4. CASE ListenerFails(p, l)
  BY <1>1, <1>4 DEF ListenerFails, Drains, Silent
<1>5. CASE RequestBegins(p, l)
  BY <1>1, <1>5 DEF RequestBegins, Drains, Silent
<1>6. CASE RequestEnds(p, l)
  BY <1>1, <1>6 DEF RequestEnds, Drains, Silent
<1>7. QED BY <1>2, <1>3, <1>4, <1>5, <1>6

LEMMA DrainStep ==
    ASSUME TypeInv, \A p \in Procs : Drains(p), [Next]_vars
    PROVE  \A p \in Procs : Drains(p)'
<1>1. server \in [Procs -> Main] /\ listener \in [Procs -> [Listeners -> ListenerStates]]
      /\ handlers \in [Procs -> [Listeners -> 0 .. Busy]]
  BY DEF TypeInv, TypeOK, LifecycleTypeOK
<1>2. CASE UNCHANGED lifeVars
  BY <1>2 DEF lifeVars, Drains, Silent
<1>3. ASSUME NEW p \in Procs, \/ MainStep(p) \/ Surroundings(p)
                               \/ \E l \in Listeners : ListenerStep(p, l)
      PROVE  \A q \in Procs : Drains(q)'
  <2>1. Drains(p)' /\ \A q \in Procs \ {p} : server'[q] = server[q] /\ listener'[q] = listener[q]
                                             /\ handlers'[q] = handlers[q]
    BY <1>3, DrainMain, DrainListener DEF Surroundings, ListenerStep
  <2>2. QED BY <2>1 DEF Drains, Silent
<1>4. ASSUME NEW p \in Procs, Serve(p)
      PROVE  \A q \in Procs : Drains(q)'
  BY <1>1, <1>4 DEF Serve, Drains, Silent, NoServer
<1>5. ASSUME NEW p \in Procs, Exit(p) \/ Crash(p)
      PROVE  \A q \in Procs : Drains(q)'
  <2>1. Gone(p)
    BY <1>5 DEF Exit, Crash, Exits
  <2>2. QED BY <1>1, <2>1 DEF Gone, Drains, Silent, NoServer, Listeners
<1>6. ASSUME NEW p \in Procs, NEW c \in Roles[p], Launch(p, c)
      PROVE  UNCHANGED lifeVars
  BY <1>6 DEF Launch
<1>7. CASE UNCHANGED vars
  BY <1>2, <1>7 DEF vars
<1>8. QED BY <1>2, <1>3, <1>4, <1>5, <1>6, <1>7, NextCases

\* Once the store is closed nobody takes a request any more, and one still in
\* flight on the primary listener outlasted the drain or its listener had
\* failed, whatever the processes do.
THEOREM StoreIsKept == Spec => []StoreOutlivesRequests
<1>1. Init => \A p \in Procs : Drains(p)
  BY DEF Init, LifecycleInit, Drains, NoServer, Listeners
<1>2. TypeInv /\ (\A p \in Procs : Drains(p)) /\ [Next]_vars => (\A p \in Procs : Drains(p)')
  BY DrainStep
<1>3. TypeInv /\ (\A p \in Procs : Drains(p)) => StoreOutlivesRequests
  <2>1. SUFFICES ASSUME TypeInv, NEW p \in Procs, Drains(p), server[p].closed
                 PROVE  /\ \A l \in Listeners : listener[p][l] # "accept"
                        /\ handlers[p]["primary"] > 0
                             => "primary" \in server[p].timedOut
                                \/ listener[p]["primary"] = "failed"
    BY DEF StoreOutlivesRequests
  <2>2. server[p].pc = "exit"
    BY <2>1 DEF Drains
  <2>3. \A l \in Listeners : listener[p][l] # "accept"
    BY <2>1, <2>2 DEF Drains, Silent, Listeners
  <2>4. handlers[p]["primary"] \in 0 .. Busy
    BY <2>1 DEF TypeInv, TypeOK, LifecycleTypeOK, Listeners
  <2>5. handlers[p]["primary"] > 0
          => "primary" \in server[p].timedOut \/ listener[p]["primary"] = "failed"
    BY <2>1, <2>2, <2>4, LifecycleOK DEF Drains
  <2>6. QED BY <2>3, <2>5
<1> DEFINE DrainInv == \A p \in Procs : Drains(p)
<1>4. DrainInv /\ TypeInv /\ [Next]_vars => DrainInv'
  BY <1>2
<1>5. Init => DrainInv
  BY <1>1
<1>6. TypeInv /\ DrainInv => StoreOutlivesRequests
  BY <1>3
<1> HIDE DEF DrainInv
<1>7. QED BY <1>4, <1>5, <1>6, TypeInvHolds, PTL DEF Spec

-----------------------------------------------------------------------------
(* The schema and its version.                                             *)

\* The schema in the middle of migration v: the migrations before it, and
\* the objects of its first k statements.
Part(v, k) == Complete(v - 1) \cup ({v} \X (1 .. k))

\* A statement adds or takes one object.
LEMMA PartStep ==
    ASSUME NEW v \in 1 .. Versions, NEW k \in Nat
    PROVE  /\ <<v, k + 1>> \notin Part(v, k)
           /\ Part(v, k) \cup {<<v, k + 1>>} = Part(v, k + 1)
           /\ Part(v, k + 1) \ {<<v, k + 1>>} = Part(v, k)
<1>1. \A x \in Complete(v - 1) : x[1] \in 1 .. v - 1
  BY DEF Complete, ObjectsOf
<1>2. <<v, k + 1>> \notin Complete(v - 1)
  BY <1>1, MigrationsOK
<1>3. 1 .. k + 1 = (1 .. k) \cup {k + 1} /\ k + 1 \notin 1 .. k
  OBVIOUS
<1>4. QED BY <1>2, <1>3 DEF Part

LEMMA PartsGrow ==
    ASSUME NEW v \in 1 .. Versions
    PROVE  /\ Part(v, 0) = Complete(v - 1)
           /\ Part(v, Size[v]) = Complete(v)
           /\ \A k \in 1 .. Size[v] : <<v, 1>> \in Part(v, k)
<1>1. Versions \in Nat /\ Size[v] \in Nat \ {0} /\ v \in Nat
  BY MigrationsOK
<1>2. Complete(v) = Complete(v - 1) \cup ({v} \X (1 .. Size[v]))
  <2>1. 1 .. v = (1 .. v - 1) \cup {v}
    BY <1>1
  <2>2. QED BY <2>1 DEF Complete, ObjectsOf
<1>3. Part(v, 0) = Complete(v - 1)
  BY DEF Part
<1>4. \A k \in 1 .. Size[v] : <<v, 1>> \in Part(v, k)
  BY <1>1 DEF Part
<1>5. QED BY <1>2, <1>3, <1>4 DEF Part

LEMMA CompleteGrows ==
    ASSUME NEW u \in Int, NEW v \in Int, u <= v
    PROVE  Complete(u) \subseteq Complete(v)
BY DEF Complete

\* The first object of a migration tells how far the schema is.
LEMMA FirstStatement ==
    ASSUME NEW u \in 1 .. Versions
    PROVE  /\ \A v \in 0 .. Versions : <<u, 1>> \in Complete(v) <=> u <= v
           /\ \A v \in 1 .. Versions :
                \A k \in 1 .. Size[v] : <<u, 1>> \in Part(v, k) <=> u <= v
<1>1. 1 \in 1 .. Size[u] /\ Versions \in Nat
  BY MigrationsOK
<1>2. ASSUME NEW v \in 0 .. Versions
      PROVE  <<u, 1>> \in Complete(v) <=> u <= v
  <2>1. u <= v => <<u, 1>> \in Complete(v)
    BY <1>1, InComplete
  <2>2. \A x \in Complete(v) : x[1] \in 1 .. v
    BY DEF Complete, ObjectsOf
  <2>3. <<u, 1>> \in Complete(v) => u <= v
    BY <2>2
  <2>4. QED BY <2>1, <2>3
<1>3. ASSUME NEW v \in 1 .. Versions, NEW k \in 1 .. Size[v]
      PROVE  <<u, 1>> \in Part(v, k) <=> u <= v
  <2>1. <<u, 1>> \in Part(v, k) <=> u <= v - 1 \/ u = v
    BY <1>1, <1>2 DEF Part
  <2>2. QED BY <1>1, <2>1
<1>4. QED BY <1>2, <1>3

\* What can be in the schema: whole migrations and then part of one.
Shape == schema = {} \/ \E v \in 1 .. Versions : \E k \in 1 .. Size[v] : schema = Part(v, k)

LEMMA EmptyComplete == Complete(0) = {}
BY DEF Complete

LEMMA PartShape ==
    ASSUME NEW v \in 1 .. Versions, NEW k \in 0 .. Size[v], schema' = Part(v, k)
    PROVE  Shape'
<1>1. Versions \in Nat /\ \A u \in 1 .. Versions : Size[u] \in Nat \ {0}
  BY MigrationsOK
<1>2. CASE k \in 1 .. Size[v]
  BY <1>2 DEF Shape
<1>3. CASE k = 0 /\ v = 1
  <2>1. Part(v, 0) = Complete(v - 1)
    BY PartsGrow
  <2>2. v - 1 = 0
    BY <1>3
  <2>3. schema' = {}
    BY <1>3, <2>1, <2>2, EmptyComplete
  <2>4. QED BY <2>3 DEF Shape
<1>4. CASE k = 0 /\ v # 1
  <2>1. v - 1 \in 1 .. Versions /\ Size[v - 1] \in 1 .. Size[v - 1]
    BY <1>1, <1>4
  <2>2. schema' = Part(v - 1, Size[v - 1])
    BY <1>4, <2>1, PartsGrow
  <2>3. QED BY <2>1, <2>2 DEF Shape
<1>5. QED BY <1>1, <1>2, <1>3, <1>4

\* A schema in which the migrations before v are complete, and v not begun, has
\* nothing else.
LEMMA NotBegun ==
    ASSUME Shape, NEW v \in 1 .. Versions, Complete(v - 1) \subseteq schema,
           <<v, 1>> \notin schema
    PROVE  schema = Complete(v - 1)
<1>1. Versions \in Nat /\ \A u \in 1 .. Versions : Size[u] \in Nat \ {0}
  BY MigrationsOK
<1>2. CASE schema = {}
  BY <1>2
<1>3. ASSUME NEW w \in 1 .. Versions, NEW k \in 1 .. Size[w], schema = Part(w, k)
      PROVE  schema = Complete(v - 1)
  <2>1. w <= v - 1
    BY <1>1, <1>3, FirstStatement
  <2>2. Part(w, k) \subseteq Complete(w)
    <3>1. 1 .. k \subseteq 1 .. Size[w]
      BY <1>1
    <3>2. Part(w, k) \subseteq Part(w, Size[w])
      BY <3>1 DEF Part
    <3>3. Part(w, Size[w]) = Complete(w)
      BY PartsGrow
    <3>4. QED BY <3>2, <3>3
  <2>3. Complete(w) \subseteq Complete(v - 1)
    BY <1>1, <2>1, CompleteGrows
  <2>4. QED BY <1>3, <2>2, <2>3
<1>4. QED BY <1>2, <1>3 DEF Shape

-----------------------------------------------------------------------------
(* Who runs beside whom, when a roll-back runs alone.                      *)

OneAtATime ==
    \A p \in Procs :
        /\ command[p] = None => ~Migrating(p) /\ MainAt(p, "off")
        /\ Migrating(p) => (runner[p].dir = "down" <=> command[p] = "down")
        /\ command[p] = "down" => \A q \in Procs \ {p} : command[q] = None
        /\ ~MainAt(p, "off") => command[p] = "serve"

\* A migrator that goes on keeps its direction.
LEMMA DirectionKept ==
    ASSUME TypeInv, NEW p \in Procs,
           \/ ReadVersion(p) \/ MarkDirty(p) \/ RunStatement(p) \/ MarkClean(p)
           \/ StatementFails(p)
    PROVE  /\ Migrating(p) /\ Migrating(p)' => runner'[p].dir = runner[p].dir
           /\ Migrating(p)
           /\ \A q \in Procs \ {p} : runner'[q] = runner[q]
<1>1. runner \in [Procs -> Runner]
  BY DEF TypeInv, TypeOK, MigrationsTypeOK
<1>2. ASSUME NEW label \in {"done", "failed"}, EndsAs(p, label)
      PROVE  ~Migrating(p)' /\ \A q \in Procs \ {p} : runner'[q] = runner[q]
  BY <1>1, <1>2 DEF EndsAs, NoRunner, Migrating
<1>3. ASSUME NEW v \in Int, Proceed(p, v)
      PROVE  /\ Migrating(p)' => runner'[p].dir = runner[p].dir
             /\ \A q \in Procs \ {p} : runner'[q] = runner[q]
  BY <1>1, <1>2, <1>3 DEF Proceed, Migrating
<1>4. CASE ReadVersion(p)
  <2>1. \/ \E v \in Int : Proceed(p, v)
        \/ EndsAs(p, "failed")
    BY <1>4 DEF ReadVersion, TypeInv, TypeOK, MigrationsTypeOK
  <2>2. Migrating(p)
    BY <1>4 DEF ReadVersion, Migrating
  <2>3. QED BY <1>2, <1>3, <2>1, <2>2
<1>5. CASE MarkDirty(p)
  BY <1>1, <1>5 DEF MarkDirty, Goto, Migrating, Runner
<1>6. CASE RunStatement(p)
  <2>1. CASE EndsAs(p, "failed")
    BY <1>2, <1>6, <2>1 DEF RunStatement, Migrating
  <2>2. CASE ~EndsAs(p, "failed")
    <3>1. runner' = [runner EXCEPT
            ![p].pc = IF runner[p].next = Size[runner[p].at] THEN "clean" ELSE "run",
            ![p].next = @ + 1] /\ runner[p].pc = "run"
      BY <1>6, <2>2 DEF RunStatement
    <3>2. QED BY <1>1, <3>1 DEF Migrating, Runner
  <2>3. QED BY <2>1, <2>2
<1>7. CASE MarkClean(p)
  <2>1. PICK v : v = IF runner[p].dir = "up" THEN runner[p].at ELSE runner[p].at - 1
    OBVIOUS
  <2>2. runner[p].at \in 0 .. Versions + 1
    BY <1>1 DEF Runner
  <2>3. v \in Int /\ Proceed(p, v) /\ runner[p].pc = "clean"
    BY <1>7, <2>1, <2>2, MigrationsOK DEF MarkClean
  <2>4. QED BY <1>3, <2>3 DEF Migrating
<1>8. CASE StatementFails(p)
  BY <1>2, <1>8 DEF StatementFails
<1>9. QED BY <1>4, <1>5, <1>6, <1>7, <1>8

\* Only a server that runs takes steps.
LEMMA ServerKept ==
    ASSUME TypeInv, NEW p \in Procs,
           \/ MainStep(p) \/ Surroundings(p)
           \/ \E l \in Listeners : ListenerStep(p, l)
    PROVE  \A q \in Procs : ~MainAt(q, "off")' => ~MainAt(q, "off")
<1>1. server \in [Procs -> Main]
  BY DEF TypeInv, TypeOK, LifecycleTypeOK
<1>2. UNCHANGED server \/ (~MainAt(p, "off") /\ \A q \in Procs \ {p} : server'[q] = server[q])
  <2>1. CASE StartListeners(p)
    BY <1>1, <2>1 DEF StartListeners, MainAt
  <2>2. CASE Select(p)
    BY <1>1, <2>2 DEF Select, ShutDown, MainAt
  <2>3. CASE Drained(p) \/ Timeout(p)
    BY <1>1, <2>3 DEF Drained, Timeout, Leave, InShutdown, MainAt
  <2>4. CASE CloseStore(p)
    BY <1>1, <2>4 DEF CloseStore, MainAt
  <2>5. CASE Signal(p)
    BY <1>1, <2>5 DEF Signal, InShutdown, MainAt
  <2>6. ASSUME NEW l \in Listeners,
               \/ Listen(p, l) \/ ListenerEnds(p, l) \/ ListenerFails(p, l)
               \/ RequestBegins(p, l) \/ RequestEnds(p, l)
        PROVE  UNCHANGED server
    BY <2>6 DEF Listen, ListenerEnds, ListenerFails, RequestBegins, RequestEnds
  <2>7. QED BY <2>1, <2>2, <2>3, <2>4, <2>5, <2>6 DEF MainStep, Surroundings, ListenerStep
<1>3. QED BY <1>2 DEF MainAt

LEMMA AloneProcess ==
    ASSUME "down" \in Alone, TypeInv, OneAtATime, NEW p \in Procs,
           \/ \E c \in Roles[p] : Launch(p, c)
           \/ Serve(p) \/ Exit(p) \/ Crash(p)
    PROVE  OneAtATime'
<1>1. /\ runner \in [Procs -> Runner] /\ server \in [Procs -> Main]
      /\ command \in [Procs -> Commands \cup {None}]
  BY DEF TypeInv, TypeOK, MigrationsTypeOK, LifecycleTypeOK
<1>2. ASSUME NEW c \in Roles[p], Launch(p, c)
      PROVE  OneAtATime'
  <2>1. c \in Commands /\ c # None /\ "serve" # None /\ "down" # None
    BY ServerOK DEF Commands
  <2>2. PICK r : r = [NoRunner EXCEPT !.pc = "version",
                                      !.dir = IF c = "down" THEN "down" ELSE "up"]
    OBVIOUS
  <2>3. /\ r.pc = "version" /\ r.dir = IF c = "down" THEN "down" ELSE "up"
        /\ runner' = [runner EXCEPT ![p] = r] /\ UNCHANGED server
        /\ command' = [command EXCEPT ![p] = c] /\ command[p] = None
    BY <1>2, <2>2 DEF Launch, Migrate, NoRunner, lifeVars
  <2>4. \A q \in Procs \ {p} : command[q] # None => c # "down" /\ command[q] # "down"
    BY <1>2 DEF Launch
  <2>5. QED BY <1>1, <2>1, <2>3, <2>4 DEF OneAtATime, Migrating, MainAt
<1>3. CASE Serve(p)
  BY <1>1, <1>3, ServerOK DEF Serve, OneAtATime, Migrating, MainAt, NoRunner, Commands
<1>4. CASE Exit(p) \/ Crash(p)
  <2>1. /\ command' = [command EXCEPT ![p] = None]
        /\ runner' = [runner EXCEPT ![p] = NoRunner]
        /\ server' = [server EXCEPT ![p] = NoServer]
    BY <1>4 DEF Exit, Crash, Exits, Gone
  <2>2. "serve" # None /\ "down" # None
    BY ServerOK DEF Commands
  <2>3. QED BY <1>1, <2>1, <2>2 DEF OneAtATime, Migrating, MainAt, NoRunner, NoServer
<1>5. QED BY <1>2, <1>3, <1>4

LEMMA AloneStep ==
    ASSUME "down" \in Alone, TypeInv, OneAtATime, [Next]_vars
    PROVE  OneAtATime'
<1>1. ASSUME NEW p \in Procs,
             \/ ReadVersion(p) \/ MarkDirty(p) \/ RunStatement(p) \/ MarkClean(p)
             \/ StatementFails(p),
             UNCHANGED <<lifeVars, command>>
      PROVE  OneAtATime'
  <2>1. UNCHANGED <<server, command>>
    BY <1>1 DEF lifeVars
  <2>2. QED BY <1>1, <2>1, DirectionKept DEF OneAtATime, MainAt, Migrating
<1>2. ASSUME NEW p \in Procs,
             \/ MainStep(p) \/ Surroundings(p)
             \/ \E l \in Listeners : ListenerStep(p, l),
             UNCHANGED <<migrationVars, command>>
      PROVE  OneAtATime'
  <2>1. UNCHANGED <<runner, command>>
    BY <1>2 DEF migrationVars
  <2>2. QED BY <1>2, <2>1, ServerKept DEF OneAtATime, MainAt, Migrating
<1>3. CASE UNCHANGED vars
  BY <1>3 DEF vars, migrationVars, lifeVars, OneAtATime, MainAt, Migrating
<1>4. QED BY <1>1, <1>2, <1>3, AloneProcess, NextCases

-----------------------------------------------------------------------------
(* The migrators and the schema.                                           *)

Dirty == version # None /\ version.dirty
Working(p) == runner[p].pc \in {"mark", "run", "clean"}
GoingUp(p) == Working(p) /\ runner[p].dir = "up"
GoingDown(p) == Working(p) /\ runner[p].dir = "down"

\* p has committed a statement of the migration it runs.
Creating(p) == GoingUp(p) /\
               (runner[p].pc = "clean" \/ (runner[p].pc = "run" /\ runner[p].next > 1))

\* The migrations before p's are complete, and its first statement runs under
\* a dirty version, or is going to fail.
Ready(p) ==
    GoingUp(p) =>
      /\ Complete(runner[p].at - 1) \subseteq schema
      /\ runner[p].pc = "run" /\ runner[p].next = 1 => <<runner[p].at, 1>> \in schema \/ Dirty

\* What p has committed is all there is of its migration, the version is dirty,
\* and whoever migrates beside it has come too late.
Creates(p) ==
    Creating(p) =>
      /\ schema = Part(runner[p].at, runner[p].next - 1)
      /\ Dirty
      /\ \A q \in Procs \ {p} : GoingUp(q) => ~Creating(q) /\ runner[q].at <= runner[p].at

Drops(p) ==
    GoingDown(p) =>
      IF runner[p].pc = "mark"
      THEN version # None /\ ~version.dirty /\ version.v = runner[p].at
      ELSE /\ schema = Part(runner[p].at, Size[runner[p].at] + 1 - runner[p].next)
           /\ version # None => version.dirty

SchemaInv ==
    /\ Shape
    /\ CleanMeansComplete
    /\ \A p \in Procs : Ready(p) /\ Creates(p) /\ Drops(p)

\* A migrator ends, or begins to look: nothing of the schema changes.
LEMMA Settles ==
    ASSUME TypeInv, SchemaInv, NEW p \in Procs, NEW r, r.pc \notin {"mark", "run", "clean"},
           runner' = [runner EXCEPT ![p] = r], UNCHANGED <<schema, version>>
    PROVE  SchemaInv'
<1>1. runner \in [Procs -> Runner]
  BY DEF TypeInv, TypeOK, MigrationsTypeOK
<1>2. /\ ~Working(p)'
      /\ \A q \in Procs \ {p} : runner'[q] = runner[q]
  BY <1>1 DEF Working
<1>3. Shape' /\ CleanMeansComplete'
  BY DEF SchemaInv, Shape, CleanMeansComplete
<1>4. ASSUME NEW q \in Procs
      PROVE  Ready(q)' /\ Creates(q)' /\ Drops(q)'
  <2>1. CASE q = p
    BY <1>2, <2>1 DEF Ready, Creates, Creating, Drops, GoingUp, GoingDown
  <2>2. CASE q # p
    <3>1. Ready(q)' /\ Drops(q)'
      BY <1>2, <2>2 DEF SchemaInv, Ready, Drops, GoingUp, GoingDown, Working, Dirty
    <3>2. Creates(q)'
      BY <1>2, <2>2 DEF SchemaInv, Creates, Creating, GoingUp, Working, Dirty
    <3>3. QED BY <3>1, <3>2
  <2>3. QED BY <2>1, <2>2
<1>5. QED BY <1>3, <1>4 DEF SchemaInv

\* Nobody else is in the middle of a migration: p goes on after version v.
LEMMA GoesOn ==
    ASSUME TypeInv, Shape, CleanMeansComplete', UNCHANGED schema,
           NEW p \in Procs, NEW v \in 0 .. Versions, Proceed(p, v),
           Complete(v) \subseteq schema,
           runner[p].dir = "down" /\ v # 0 =>
             version' # None /\ ~version'.dirty /\ version'.v = v,
           \A q \in Procs \ {p} :
             /\ ~Creating(q) /\ ~GoingDown(q)
             /\ GoingUp(q) => /\ Complete(runner[q].at - 1) \subseteq schema
                              /\ runner[q].pc = "run" /\ runner[q].next = 1
                                   => <<runner[q].at, 1>> \in schema
    PROVE  /\ SchemaInv'
           /\ runner'[p].pc = "done" /\ runner[p].dir = "up" => schema = Complete(Versions)
<1>1. /\ runner \in [Procs -> Runner] /\ runner[p].dir \in Directions
      /\ Versions \in Nat /\ schema \subseteq Complete(Versions)
  BY MigrationsOK DEF TypeInv, TypeOK, MigrationsTypeOK, Runner
<1>2. \A q \in Procs \ {p} : runner'[q] = runner[q]
  BY <1>1 DEF Proceed, EndsAs
<1>3. Shape'
  BY DEF Shape
<1>4. ASSUME NEW q \in Procs \ {p}
      PROVE  Ready(q)' /\ Creates(q)' /\ Drops(q)'
  BY <1>2, <1>4 DEF Ready, Creates, Creating, Drops, GoingUp, GoingDown, Working
<1> DEFINE next == IF runner[p].dir = "up" THEN v + 1 ELSE v
<1>5. CASE next \in 1 .. Versions
  <2>1. PICK r : r = [pc |-> "mark", dir |-> runner[p].dir, at |-> next, next |-> 1]
    OBVIOUS
  <2>2. runner' = [runner EXCEPT ![p] = r]
    BY <1>5, <2>1 DEF Proceed
  <2>3. runner'[p] = r
    BY <1>1, <2>2
  <2>4. r.pc = "mark" /\ r.dir = runner[p].dir /\ r.at = next
    BY <2>1
  <2>5. ~Creating(p)'
    BY <2>3, <2>4 DEF Creating
  <2>6. Ready(p)'
    <3>1. CASE runner[p].dir = "up"
      <4>1. r.at - 1 = v
        BY <1>1, <2>4, <3>1
      <4>2. QED BY <2>3, <2>4, <4>1 DEF Ready
    <3>2. CASE runner[p].dir # "up"
      BY <2>3, <2>4, <3>2 DEF Ready, GoingUp
    <3>3. QED BY <3>1, <3>2
  <2>7. Drops(p)'
    BY <1>5, <2>3, <2>4 DEF Drops, GoingDown
  <2>8. runner'[p].pc # "done"
    BY <2>3, <2>4
  <2>9. Creates(p)'
    BY <2>5 DEF Creates
  <2>10. QED BY <1>3, <1>4, <2>6, <2>7, <2>8, <2>9 DEF SchemaInv
<1>6. CASE next \notin 1 .. Versions
  <2>1. ~Working(p)'
    BY <1>1, <1>6 DEF Proceed, EndsAs, NoRunner, Working
  <2>2. Ready(p)' /\ Creates(p)' /\ Drops(p)'
    BY <2>1 DEF Ready, Creates, Creating, Drops, GoingUp, GoingDown
  <2>3. runner[p].dir = "up" => schema = Complete(Versions)
    <3>1. SUFFICES ASSUME runner[p].dir = "up" PROVE schema = Complete(Versions)
      OBVIOUS
    <3>2. v = Versions
      BY <1>1, <1>6, <3>1
    <3>3. QED BY <1>1, <3>2
  <2>4. QED BY <1>3, <1>4, <2>2, <2>3 DEF SchemaInv
<1>7. QED BY <1>5, <1>6

\* While one process rolls back, nobody migrates beside it.
LEMMA Lone ==
    ASSUME TypeInv, OneAtATime, NEW p \in Procs, Migrating(p), NEW q \in Procs \ {p},
           runner[p].dir = "down" \/ GoingDown(q)
    PROVE  ~Migrating(q) /\ ~Working(q)
<1>1. Migrating(q) => command[q] # None /\ command[p] # None
  BY DEF OneAtATime
<1>2. "down" \in {command[p], command[q]} \/ ~Migrating(q)
  BY DEF OneAtATime, GoingDown, Working, Migrating
<1>3. ~Migrating(q)
  BY <1>1, <1>2 DEF OneAtATime
<1>4. QED BY <1>3 DEF Migrating, Working

LEMMA ReadVersionStep ==
    ASSUME TypeInv, SchemaInv, OneAtATime, NEW p \in Procs, ReadVersion(p)
    PROVE  /\ SchemaInv'
           /\ runner'[p].pc = "done" /\ runner[p].dir = "up" => schema = Complete(Versions)
<1>1. /\ runner \in [Procs -> Runner] /\ Versions \in Nat
      /\ version \in [v : 1 .. Versions, dirty : BOOLEAN] \cup {None}
      /\ UNCHANGED <<schema, version>> /\ Migrating(p)
  BY MigrationsOK DEF TypeInv, TypeOK, MigrationsTypeOK, ReadVersion, Migrating
<1>2. CASE Dirty
  <2>1. PICK r : r = [NoRunner EXCEPT !.pc = "failed"]
    OBVIOUS
  <2>2. runner' = [runner EXCEPT ![p] = r]
    BY <1>2, <2>1 DEF Dirty, ReadVersion, EndsAs
  <2>3. r.pc = "failed"
    BY <2>1 DEF NoRunner
  <2>4. runner'[p].pc = "failed"
    BY <1>1, <2>2, <2>3
  <2>5. QED BY <1>1, <2>2, <2>3, <2>4, Settles
<1>3. CASE ~Dirty
  <2>1. PICK v \in 0 .. Versions :
          /\ Proceed(p, v) /\ Complete(v) \subseteq schema
          /\ v # 0 => version # None /\ ~version.dirty /\ version.v = v
    <3>1. CASE version = None
      <4>1. Proceed(p, 0) /\ 0 \in 0 .. Versions
        BY <1>1, <3>1 DEF ReadVersion
      <4>2. Complete(0) \subseteq schema
        BY EmptyComplete
      <4>3. QED BY <4>1, <4>2
    <3>2. CASE version # None
      <4>1. Proceed(p, version.v) /\ version.v \in 0 .. Versions /\ ~version.dirty
        BY <1>1, <1>3, <3>2 DEF ReadVersion, Dirty
      <4>2. Complete(version.v) \subseteq schema
        BY <3>2, <4>1 DEF SchemaInv, CleanMeansComplete
      <4>3. QED BY <3>2, <4>1, <4>2
    <3>3. QED BY <3>1, <3>2
  <2>2. CleanMeansComplete' /\ Shape
    BY <1>1 DEF SchemaInv, CleanMeansComplete
  <2>3. runner[p].dir = "down" /\ v # 0 =>
          version' # None /\ ~version'.dirty /\ version'.v = v
    BY <1>1, <2>1
  <2>4. ASSUME NEW q \in Procs \ {p}
        PROVE  /\ ~Creating(q) /\ ~GoingDown(q)
               /\ GoingUp(q) => /\ Complete(runner[q].at - 1) \subseteq schema
                                /\ runner[q].pc = "run" /\ runner[q].next = 1
                                     => <<runner[q].at, 1>> \in schema
    <3>1. Ready(q) /\ Creates(q)
      BY DEF SchemaInv
    <3>2. ~GoingDown(q)
      BY <1>1, Lone DEF GoingDown
    <3>3. ~Creating(q)
      BY <1>3, <3>1 DEF Creates
    <3>4. QED BY <1>3, <3>1, <3>2, <3>3 DEF Ready
  <2>5. QED BY <1>1, <2>1, <2>2, <2>3, <2>4, GoesOn
<1>4. QED BY <1>2, <1>3

LEMMA MarkDirtyStep ==
    ASSUME TypeInv, SchemaInv, OneAtATime, NEW p \in Procs, MarkDirty(p)
    PROVE  SchemaInv'
<1>1. /\ runner \in [Procs -> Runner] /\ runner[p] \in Runner /\ Fits(runner[p])
      /\ version' = (IF Target(p) = None THEN None ELSE [v |-> Target(p), dirty |-> TRUE])
      /\ UNCHANGED schema /\ Migrating(p) /\ runner[p].pc = "mark"
      /\ GoingUp(p) \/ GoingDown(p)
  BY DEF TypeInv, TypeOK, MigrationsTypeOK, MarkDirty, SetVersion, Migrating, GoingUp, GoingDown,
         Working, Runner, Directions
<1>2. PICK r : r = [runner[p] EXCEPT !.pc = "run"]
  OBVIOUS
<1>3. /\ runner' = [runner EXCEPT ![p] = r] /\ runner'[p] = r
      /\ r.pc = "run" /\ r.next = 1 /\ r.dir = runner[p].dir /\ r.at = runner[p].at
      /\ runner[p].at \in 1 .. Versions
  BY <1>1, <1>2 DEF MarkDirty, Goto, Fits, Runner
<1>4. \A q \in Procs \ {p} : runner'[q] = runner[q]
  BY <1>1, <1>3
<1>5. version' # None => version'.dirty
  BY <1>1
<1>6. CleanMeansComplete' /\ Shape'
  BY <1>1, <1>5 DEF CleanMeansComplete, SchemaInv, Shape
<1>7. CASE GoingUp(p)
  <2>1. Dirty'
    <3>1. Target(p) \in 1 .. Versions
      BY <1>3, <1>7 DEF Target, GoingUp
    <3>2. version' = [v |-> Target(p), dirty |-> TRUE]
      BY <1>1, <3>1, MigrationsOK
    <3>3. version' \in [v : 1 .. Versions, dirty : BOOLEAN]
      BY <3>1, <3>2
    <3>4. QED BY <3>2, <3>3, MigrationsOK DEF Dirty
  <2>2. ~Creating(p) /\ ~Creating(p)' /\ ~GoingDown(p)'
    BY <1>1, <1>3, <1>7 DEF Creating, GoingUp, GoingDown
  <2>3. Ready(p)'
    <3>1. Complete(runner[p].at - 1) \subseteq schema
      BY <1>7 DEF SchemaInv, Ready
    <3>2. QED BY <1>1, <1>3, <2>1, <3>1 DEF Ready
  <2>4. ASSUME NEW q \in Procs \ {p}
        PROVE  Ready(q)' /\ Creates(q)' /\ Drops(q)'
    <3>1. Ready(q) /\ Creates(q) /\ ~GoingDown(q)
      BY <1>1, Lone, <1>7 DEF SchemaInv, GoingDown
    <3>2. Ready(q)'
      BY <1>1, <1>4, <2>1, <3>1 DEF Ready, GoingUp, Working
    <3>3. Drops(q)'
      BY <1>4, <3>1 DEF Drops, GoingDown, Working
    <3>4. Creates(q)'
      <4>1. SUFFICES ASSUME Creating(q)' PROVE Creates(q)'
        BY DEF Creates
      <4>2. Creating(q)
        BY <1>4, <4>1 DEF Creating, GoingUp, Working
      <4>3. schema' = Part(runner'[q].at, runner'[q].next - 1)
        BY <1>1, <1>4, <3>1, <4>2 DEF Creates
      <4>4. ASSUME NEW o \in Procs \ {q}, GoingUp(o)'
            PROVE  ~Creating(o)' /\ runner'[o].at <= runner'[q].at
        <5>1. GoingUp(o)
          BY <1>3, <1>4, <1>7, <4>4 DEF GoingUp, Working
        <5>2. ~Creating(o) /\ runner[o].at <= runner[q].at
          BY <3>1, <4>2, <5>1 DEF Creates
        <5>3. CASE o = p
          BY <1>3, <1>4, <2>2, <5>2, <5>3
        <5>4. CASE o # p
          BY <1>4, <5>2, <5>4 DEF Creating, GoingUp, Working
        <5>5. QED BY <5>3, <5>4
      <4>5. QED BY <2>1, <4>3, <4>4 DEF Creates
    <3>5. QED BY <3>2, <3>3, <3>4
  <2>5. Creates(p)' /\ Drops(p)'
    BY <2>2 DEF Creates, Drops
  <2>6. QED BY <1>6, <2>3, <2>4, <2>5 DEF SchemaInv
<1>8. CASE GoingDown(p)
  <2>1. \A q \in Procs \ {p} : ~Working(q)'
    BY <1>1, <1>4, <1>8, Lone DEF GoingDown, Working
  <2>2. \A q \in Procs \ {p} : Ready(q)' /\ Creates(q)' /\ Drops(q)'
    BY <2>1 DEF Ready, Creates, Creating, Drops, GoingUp, GoingDown
  <2>3. schema = Complete(runner[p].at)
    BY <1>1, <1>8 DEF SchemaInv, Drops, CleanMeansComplete
  <2>4. /\ Part(runner[p].at, Size[runner[p].at]) = Complete(runner[p].at)
        /\ Size[runner[p].at] + 1 - 1 = Size[runner[p].at]
    <3>1. Size[runner[p].at] \in Nat
      BY <1>3, MigrationsOK
    <3>2. Part(runner[p].at, Size[runner[p].at]) = Complete(runner[p].at)
      BY <1>3, PartsGrow
    <3>3. QED BY <3>1, <3>2
  <2>5. Drops(p)'
    BY <1>1, <1>3, <1>5, <2>3, <2>4 DEF Drops
  <2>6. Ready(p)' /\ Creates(p)'
    BY <1>3, <1>8 DEF Ready, Creates, Creating, GoingUp, GoingDown
  <2>7. QED BY <1>6, <2>2, <2>5, <2>6 DEF SchemaInv
<1>9. QED BY <1>1, <1>7, <1>8

\* The state of a migrator whose statement succeeds.
LEMMA StatementRuns ==
    ASSUME TypeInv, NEW p \in Procs, RunStatement(p), ~EndsAs(p, "failed")
    PROVE  /\ runner'[p].pc = IF runner[p].next = Size[runner[p].at] THEN "clean" ELSE "run"
           /\ runner'[p].dir = runner[p].dir /\ runner'[p].at = runner[p].at
           /\ runner'[p].next = runner[p].next + 1
           /\ runner'[p].next > 1
           /\ runner[p].at \in 1 .. Versions
           /\ runner[p].next \in 1 .. Size[runner[p].at]
           /\ \A q \in Procs \ {p} : runner'[q] = runner[q]
<1>1. runner \in [Procs -> Runner] /\ runner[p] \in Runner /\ Fits(runner[p])
  BY DEF TypeInv, TypeOK, MigrationsTypeOK
<1>2. /\ runner' = [runner EXCEPT
            ![p].pc = IF runner[p].next = Size[runner[p].at] THEN "clean" ELSE "run",
            ![p].next = @ + 1]
      /\ runner[p].pc = "run"
  BY DEF RunStatement
<1>3. runner[p].at \in 1 .. Versions /\ runner[p].next \in 1 .. Size[runner[p].at]
  BY <1>1, <1>2 DEF Fits
<1>4. /\ runner'[p].pc = IF runner[p].next = Size[runner[p].at] THEN "clean" ELSE "run"
      /\ runner'[p].dir = runner[p].dir /\ runner'[p].at = runner[p].at
      /\ runner'[p].next = runner[p].next + 1
      /\ \A q \in Procs \ {p} : runner'[q] = runner[q]
  BY <1>1, <1>2 DEF Runner
<1>5. Size[runner[p].at] \in Nat
  BY <1>3, MigrationsOK
<1>6. runner[p].next + 1 > 1
  BY <1>3, <1>5
<1>7. QED BY <1>3, <1>4, <1>6

LEMMA UpStatementStep ==
    ASSUME TypeInv, SchemaInv, OneAtATime, NEW p \in Procs, RunStatement(p),
           ~EndsAs(p, "failed"), runner[p].dir = "up"
    PROVE  SchemaInv'
<1>1. PICK v \in 1 .. Versions, n \in Nat : v = runner[p].at /\ n = runner[p].next - 1
  <2>1. runner[p].at \in 1 .. Versions /\ runner[p].next \in 1 .. Size[runner[p].at]
    BY StatementRuns
  <2>2. Size[runner[p].at] \in Nat
    BY <2>1, MigrationsOK
  <2>3. runner[p].next - 1 \in Nat
    BY <2>1, <2>2
  <2>4. QED BY <2>1, <2>3
<1>2. /\ runner[p].next = n + 1 /\ n + 1 \in 1 .. Size[v] /\ Size[v] \in Nat /\ Versions \in Nat
      /\ v - 1 \in 0 .. Versions
  <2>1. runner[p].next \in 1 .. Size[v]
    BY <1>1, StatementRuns
  <2>2. Size[v] \in Nat /\ Versions \in Nat
    BY MigrationsOK
  <2>3. QED BY <1>1, <2>1, <2>2
<1>3. /\ <<v, n + 1>> \notin schema
      /\ schema' = schema \cup {<<v, n + 1>>}
      /\ UNCHANGED version /\ runner[p].pc = "run" /\ Migrating(p) /\ GoingUp(p)
  <2>1. /\ UNCHANGED version /\ runner[p].pc = "run"
    BY DEF RunStatement
  <2>2. /\ <<runner[p].at, runner[p].next>> \notin schema
        /\ schema' = schema \cup {<<runner[p].at, runner[p].next>>}
    BY DEF RunStatement
  <2>3. QED BY <1>1, <1>2, <2>1, <2>2 DEF Migrating, GoingUp, Working
<1>4. Ready(p) /\ Creates(p) /\ Shape
  BY DEF SchemaInv
<1>5. /\ schema = Part(v, n) /\ Dirty
      /\ \A q \in Procs \ {p} : GoingUp(q) => ~Creating(q) /\ runner[q].at <= v
  <2>1. CASE n = 0
    <3>1. /\ Complete(v - 1) \subseteq schema /\ runner[p].next = 1
          /\ <<v, 1>> \notin schema /\ Dirty
      <4>1. n + 1 = 1
        BY <2>1
      <4>2. runner[p].next = 1 /\ <<v, 1>> \notin schema
        BY <1>2, <1>3, <4>1
      <4>3. QED BY <1>1, <1>3, <1>4, <4>2 DEF Ready
    <3>2. schema = Complete(v - 1)
      BY <1>4, <3>1, NotBegun
    <3>3. schema = Part(v, n)
      BY <2>1, <3>2, PartsGrow
    <3>4. ASSUME NEW q \in Procs \ {p}, GoingUp(q)
          PROVE  ~Creating(q) /\ runner[q].at <= v
      <4>1. Ready(q) /\ Creates(q) /\ runner[q].at \in 1 .. Versions
        BY <3>4 DEF SchemaInv, TypeInv, Fits, GoingUp, Working
      <4>2. runner[q].at <= v
        <5>1. PICK u \in 1 .. Versions : u = runner[q].at
          BY <4>1
        <5>2. Complete(u - 1) \subseteq Complete(v - 1)
          BY <3>2, <3>4, <4>1, <5>1 DEF Ready
        <5>3. CASE u = 1
          BY <5>1, <5>3
        <5>4. CASE u # 1
          <6>1. u - 1 \in 1 .. Versions /\ u - 1 \in 0 .. Versions
            BY <1>2, <5>4
          <6>2. <<u - 1, 1>> \in Complete(u - 1)
            BY <6>1, FirstStatement
          <6>3. u - 1 <= v - 1
            BY <1>2, <5>2, <6>1, <6>2, FirstStatement
          <6>4. QED BY <5>1, <6>3
        <5>5. QED BY <5>3, <5>4
      <4>3. ~Creating(q)
        <5>1. SUFFICES ASSUME Creating(q) PROVE FALSE
          OBVIOUS
        <5>2. v <= runner[q].at
          BY <1>1, <1>3, <4>1, <5>1 DEF Creates
        <5>3. schema = Part(v, runner[q].next - 1)
          BY <4>1, <4>2, <5>1, <5>2 DEF Creates
        <5>4. runner[q].next - 1 \in 1 .. Size[v]
          <6>1. runner[q].at = v
            BY <4>1, <4>2, <5>2
          <6>2. \/ runner[q].pc = "clean" /\ runner[q].next = Size[v] + 1
                \/ runner[q].next \in 1 .. Size[v] /\ runner[q].next > 1
            BY <5>1, <6>1 DEF Creating, GoingUp, Working, TypeInv, Fits
          <6>3. QED BY <1>2, <6>2, MigrationsOK
        <5>5. <<v, 1>> \in schema
          BY <5>3, <5>4, PartsGrow
        <5>6. QED BY <3>1, <5>5
      <4>4. QED BY <4>2, <4>3
    <3>5. QED BY <3>1, <3>3, <3>4
  <2>2. CASE n # 0
    <3>1. Creating(p)
      BY <1>2, <1>3, <2>2 DEF Creating
    <3>2. QED BY <1>1, <1>4, <3>1 DEF Creates
  <2>3. QED BY <2>1, <2>2
<1>6. schema' = Part(v, n + 1)
  BY <1>3, <1>5, PartStep
<1>7. Shape'
  <2>1. n + 1 \in 0 .. Size[v]
    BY <1>2
  <2>2. QED BY <1>6, <2>1, PartShape
<1>8. Dirty' /\ CleanMeansComplete'
  BY <1>3, <1>5 DEF Dirty, CleanMeansComplete
<1>9. /\ runner'[p].dir = "up" /\ runner'[p].at = v /\ runner'[p].next = n + 2
      /\ runner'[p].pc \in {"run", "clean"} /\ runner'[p].next > 1
      /\ \A q \in Procs \ {p} : runner'[q] = runner[q]
  <2>1. n + 1 + 1 = n + 2
    OBVIOUS
  <2>2. QED BY <1>1, <1>2, <2>1, StatementRuns
<1>10. ASSUME NEW q \in Procs \ {p}
       PROVE  Ready(q)' /\ Creates(q)' /\ Drops(q)'
  <2>1. Ready(q) /\ ~GoingDown(q) /\ (GoingUp(q) => ~Creating(q))
    BY <1>3, <1>5, Lone DEF SchemaInv, GoingDown
  <2>2. Ready(q)'
    BY <1>3, <1>8, <1>9, <2>1 DEF Ready, GoingUp, Working
  <2>3. ~GoingDown(q)' /\ ~Creating(q)'
    BY <1>9, <2>1 DEF GoingDown, Creating, GoingUp, Working
  <2>4. QED BY <2>2, <2>3 DEF Creates, Drops
<1>11. Ready(p)' /\ Creates(p)' /\ Drops(p)'
  <2>1. Complete(v - 1) \subseteq schema'
    BY <1>1, <1>3, <1>4 DEF Ready
  <2>2. Ready(p)'
    BY <1>9, <2>1 DEF Ready
  <2>3. Drops(p)'
    BY <1>9 DEF Drops, GoingDown
  <2>4. \A q \in Procs \ {p} : GoingUp(q)' => ~Creating(q)' /\ runner'[q].at <= v
    BY <1>5, <1>9 DEF GoingUp, Creating, Working
  <2>5. runner'[p].next - 1 = n + 1
    BY <1>9
  <2>6. Creates(p)'
    BY <1>6, <1>8, <1>9, <2>4, <2>5 DEF Creates
  <2>7. QED BY <2>2, <2>3, <2>6
<1>12. QED BY <1>7, <1>8, <1>10, <1>11 DEF SchemaInv

LEMMA DownStatementStep ==
    ASSUME TypeInv, SchemaInv, OneAtATime, NEW p \in Procs, RunStatement(p),
           runner[p].dir = "down"
    PROVE  SchemaInv'
<1>1. /\ runner[p].pc = "run" /\ Migrating(p) /\ GoingDown(p) /\ UNCHANGED version
      /\ runner[p] \in Runner /\ Fits(runner[p])
  BY DEF RunStatement, Migrating, GoingDown, Working, TypeInv, TypeOK, MigrationsTypeOK
<1>2. PICK v \in 1 .. Versions : v = runner[p].at
  BY <1>1 DEF Fits
<1>3. PICK k \in Nat : /\ k + 1 = Size[v] + 1 - runner[p].next
                       /\ k = Size[v] + 1 - (runner[p].next + 1)
                       /\ k \in 0 .. Size[v]
  <2>1. Size[v] \in Nat /\ runner[p].next \in 1 .. Size[v]
    BY <1>1, <1>2, MigrationsOK DEF Fits
  <2>2. Size[v] - runner[p].next \in Nat /\ Size[v] - runner[p].next \in 0 .. Size[v]
    BY <2>1
  <2>3. /\ (Size[v] - runner[p].next) + 1 = Size[v] + 1 - runner[p].next
        /\ Size[v] - runner[p].next = Size[v] + 1 - (runner[p].next + 1)
    BY <2>1
  <2>4. QED BY <2>2, <2>3
<1>4. /\ schema = Part(v, k + 1)
      /\ version # None => version.dirty
  BY <1>1, <1>2, <1>3 DEF SchemaInv, Drops
<1>5. <<v, k + 1>> \in schema /\ schema \ {<<v, k + 1>>} = Part(v, k)
  <2>1. /\ Part(v, k) \cup {<<v, k + 1>>} = Part(v, k + 1)
        /\ Part(v, k + 1) \ {<<v, k + 1>>} = Part(v, k)
    BY <1>3, PartStep
  <2>2. QED BY <1>4, <2>1
<1>6. schema' = schema \ {<<v, k + 1>>} /\ ~EndsAs(p, "failed")
  <2>1. runner'[p].pc # "failed"
    <3>1. runner' = [runner EXCEPT
            ![p].pc = IF runner[p].next = Size[runner[p].at] THEN "clean" ELSE "run",
            ![p].next = @ + 1]
      BY <1>2, <1>3, <1>5 DEF RunStatement
    <3>2. QED BY <1>1, <3>1 DEF TypeInv, TypeOK, MigrationsTypeOK, Runner
  <2>2. ~EndsAs(p, "failed")
    BY <2>1 DEF EndsAs, NoRunner, TypeInv, TypeOK, MigrationsTypeOK
  <2>3. schema' = schema \ {<<v, k + 1>>}
    BY <1>1, <1>2, <1>3, <1>5 DEF RunStatement
  <2>4. QED BY <2>2, <2>3
<1>7. /\ runner'[p].pc \in {"run", "clean"} /\ runner'[p].dir = "down" /\ runner'[p].at = v
      /\ k = Size[v] + 1 - runner'[p].next
      /\ \A q \in Procs \ {p} : runner'[q] = runner[q]
  BY <1>2, <1>3, <1>6, StatementRuns
<1>8. Shape' /\ CleanMeansComplete'
  <2>1. Shape'
    BY <1>3, <1>5, <1>6, PartShape
  <2>2. QED BY <1>1, <1>4, <2>1 DEF CleanMeansComplete
<1>9. \A q \in Procs \ {p} : ~Working(q)'
  BY <1>1, <1>7, Lone DEF Working
<1>10. \A q \in Procs \ {p} : Ready(q)' /\ Creates(q)' /\ Drops(q)'
  BY <1>9 DEF Ready, Creates, Creating, Drops, GoingUp, GoingDown
<1>11. Ready(p)' /\ Creates(p)'
  BY <1>7 DEF Ready, Creates, Creating, GoingUp
<1>12. Drops(p)'
  <2>1. schema' = Part(v, k)
    BY <1>5, <1>6
  <2>2. QED BY <1>1, <1>4, <1>7, <2>1 DEF Drops
<1>13. QED BY <1>8, <1>10, <1>11, <1>12 DEF SchemaInv

LEMMA MarkCleanStep ==
    ASSUME TypeInv, SchemaInv, OneAtATime, NEW p \in Procs, MarkClean(p)
    PROVE  /\ SchemaInv'
           /\ runner'[p].pc = "done" /\ runner[p].dir = "up" => schema = Complete(Versions)
<1>1. /\ runner[p].pc = "clean" /\ Migrating(p) /\ Working(p) /\ UNCHANGED schema
      /\ runner[p] \in Runner /\ Fits(runner[p]) /\ Versions \in Nat
      /\ version' = (IF Target(p) = None THEN None ELSE [v |-> Target(p), dirty |-> FALSE])
  BY MigrationsOK DEF MarkClean, SetVersion, Migrating, Working, TypeInv, TypeOK, MigrationsTypeOK
<1>2. PICK v \in 1 .. Versions : v = runner[p].at /\ runner[p].next = Size[v] + 1
  BY <1>1 DEF Fits
<1>3. Ready(p) /\ Creates(p) /\ Drops(p) /\ Shape
  BY DEF SchemaInv
<1>4. Size[v] \in Nat /\ Part(v, Size[v]) = Complete(v) /\ Part(v, 0) = Complete(v - 1)
  BY MigrationsOK, PartsGrow
<1>5. CASE runner[p].dir = "up"
  <2>1. Creating(p)
    BY <1>1, <1>5 DEF Creating, GoingUp
  <2>2. runner[p].next - 1 = Size[v]
    BY <1>2, <1>4
  <2>3. schema = Complete(v)
    BY <1>2, <1>3, <1>4, <2>1, <2>2 DEF Creates
  <2>4. version' = [v |-> v, dirty |-> FALSE]
    BY <1>1, <1>2, <1>5, MigrationsOK DEF Target
  <2>5. CleanMeansComplete'
    BY <1>1, <2>3, <2>4 DEF CleanMeansComplete
  <2>6. Proceed(p, v) /\ v \in 0 .. Versions
    BY <1>2, <1>5 DEF MarkClean
  <2>7. ASSUME NEW q \in Procs \ {p}
        PROVE  /\ ~Creating(q) /\ ~GoingDown(q)
               /\ GoingUp(q) => /\ Complete(runner[q].at - 1) \subseteq schema
                                /\ runner[q].pc = "run" /\ runner[q].next = 1
                                     => <<runner[q].at, 1>> \in schema
    <3>1. Ready(q)
      BY DEF SchemaInv
    <3>2. ~GoingDown(q)
      BY <1>1, Lone DEF GoingDown
    <3>3. ~Creating(q) /\ (GoingUp(q) => runner[q].at <= v)
      BY <1>2, <1>3, <2>1 DEF Creates, Creating
    <3>4. GoingUp(q) => <<runner[q].at, 1>> \in schema
      <4>1. GoingUp(q) => runner[q].at \in 1 .. Versions
        BY DEF TypeInv, Fits, GoingUp, Working
      <4>2. QED BY <2>3, <2>6, <3>3, <4>1, FirstStatement
    <3>5. QED BY <3>1, <3>2, <3>3, <3>4 DEF Ready
  <2>8. QED BY <1>1, <1>3, <1>5, <2>3, <2>5, <2>6, <2>7, GoesOn
<1>6. CASE runner[p].dir # "up"
  <2>1. runner[p].dir = "down" /\ GoingDown(p)
    BY <1>1, <1>6 DEF Runner, Directions, GoingDown
  <2>2. Size[v] + 1 - runner[p].next = 0
    BY <1>2, <1>4
  <2>3. schema = Complete(v - 1)
    BY <1>1, <1>2, <1>3, <1>4, <2>1, <2>2 DEF Drops
  <2>4. v - 1 # 0 => version' # None /\ ~version'.dirty /\ version'.v = v - 1
    <3>1. SUFFICES ASSUME v - 1 # 0
                   PROVE  version' # None /\ ~version'.dirty /\ version'.v = v - 1
      OBVIOUS
    <3>2. Target(p) = v - 1 /\ v - 1 \in 1 .. Versions
      BY <1>1, <1>2, <1>6, <3>1 DEF Target
    <3>3. version' = [v |-> v - 1, dirty |-> FALSE]
      BY <1>1, <3>2, MigrationsOK
    <3>4. version' \in [v : 1 .. Versions, dirty : BOOLEAN]
      BY <3>2, <3>3
    <3>5. QED BY <3>3, <3>4, MigrationsOK
  <2>5. v - 1 = 0 => version' = None
    BY <1>1, <1>2, <1>6 DEF Target
  <2>6. CleanMeansComplete'
    BY <1>1, <2>3, <2>4, <2>5 DEF CleanMeansComplete
  <2>7. Proceed(p, v - 1) /\ v - 1 \in 0 .. Versions
    BY <1>1, <1>2, <1>6 DEF MarkClean
  <2>8. \A q \in Procs \ {p} : ~Working(q)
    BY <1>1, <2>1, Lone
  <2>9. \A q \in Procs \ {p} : ~Creating(q) /\ ~GoingDown(q) /\ ~GoingUp(q)
    BY <2>8 DEF Creating, GoingDown, GoingUp
  <2>10. QED BY <1>1, <1>3, <2>1, <2>3, <2>4, <2>6, <2>7, <2>9, GoesOn
<1>7. QED BY <1>5, <1>6

\* A server that serves, or is about to, has the complete schema.
ServesInv ==
    \A p \in Procs :
        command[p] = "serve" /\ (runner[p].pc = "done" \/ ~MainAt(p, "off"))
            => schema = Complete(Versions)

\* Nothing changes a complete schema while nobody rolls back.
LEMMA CompleteStays ==
    ASSUME TypeInv, NEW p \in Procs, schema = Complete(Versions), runner[p].dir = "up",
           \/ ReadVersion(p) \/ MarkDirty(p) \/ RunStatement(p) \/ MarkClean(p)
           \/ StatementFails(p)
    PROVE  UNCHANGED schema
<1>1. CASE RunStatement(p)
  <2>1. runner[p].at \in 1 .. Versions /\ runner[p].next \in 1 .. Size[runner[p].at]
    BY <1>1 DEF RunStatement, TypeInv, Fits
  <2>2. <<runner[p].at, runner[p].next>> \in Complete(Versions)
    BY <2>1, InComplete, MigrationsOK
  <2>3. QED BY <1>1, <2>2 DEF RunStatement
<1>2. QED BY <1>1 DEF ReadVersion, MarkDirty, MarkClean, StatementFails

LEMMA MigratorStep ==
    ASSUME TypeInv, SchemaInv, OneAtATime, ServesInv, NEW p \in Procs,
           \/ ReadVersion(p) \/ MarkDirty(p) \/ RunStatement(p) \/ MarkClean(p)
           \/ StatementFails(p),
           UNCHANGED <<lifeVars, command>>
    PROVE  SchemaInv' /\ ServesInv'
<1>1. /\ runner \in [Procs -> Runner] /\ Migrating(p) /\ UNCHANGED <<server, command>>
      /\ \A q \in Procs \ {p} : runner'[q] = runner[q]
  BY DirectionKept DEF TypeInv, TypeOK, MigrationsTypeOK, lifeVars
<1>2. runner[p].dir \in {"up", "down"}
  BY <1>1 DEF Runner, Directions
<1>3. ASSUME EndsAs(p, "failed"), UNCHANGED <<schema, version>>
      PROVE  SchemaInv' /\ runner'[p].pc # "done"
  <2>1. PICK r : r = [NoRunner EXCEPT !.pc = "failed"]
    OBVIOUS
  <2>2. r.pc = "failed" /\ runner' = [runner EXCEPT ![p] = r] /\ runner'[p].pc = "failed"
    BY <1>1, <1>3, <2>1 DEF EndsAs, NoRunner
  <2>3. QED BY <1>3, <2>2, Settles
<1>4. SchemaInv' /\ (runner'[p].pc = "done" /\ runner[p].dir = "up" => schema = Complete(Versions))
  <2>1. CASE ReadVersion(p) \/ MarkClean(p)
    BY <2>1, ReadVersionStep, MarkCleanStep
  <2>2. CASE MarkDirty(p)
    BY <1>1, <2>2, MarkDirtyStep DEF MarkDirty, Goto, Runner
  <2>3. CASE RunStatement(p)
    <3>1. CASE EndsAs(p, "failed")
      <4>1. UNCHANGED version
        BY <2>3 DEF RunStatement
      <4>2. UNCHANGED schema
        BY <1>1, <2>3, <3>1 DEF RunStatement, EndsAs, NoRunner, Runner
      <4>3. QED BY <1>3, <3>1, <4>1, <4>2
    <3>2. CASE ~EndsAs(p, "failed")
      BY <1>2, <2>3, <3>2, UpStatementStep, DownStatementStep, StatementRuns
    <3>3. QED BY <3>1, <3>2
  <2>4. CASE StatementFails(p)
    BY <1>3, <2>4 DEF StatementFails
  <2>5. QED BY <2>1, <2>2, <2>3, <2>4
<1>5. ServesInv'
  <2>1. SUFFICES ASSUME NEW q \in Procs, command'[q] = "serve",
                        runner'[q].pc = "done" \/ ~MainAt(q, "off")'
                 PROVE  schema' = Complete(Versions)
    BY DEF ServesInv
  <2>2. command[p] # "down" /\ runner[p].dir = "up"
    BY <1>1, <1>2, <2>1, ServerOK DEF OneAtATime, Commands
  <2>3. schema = Complete(Versions)
    BY <1>1, <1>4, <2>1, <2>2 DEF ServesInv, MainAt
  <2>4. QED BY <2>2, <2>3, CompleteStays
<1>6. QED BY <1>4, <1>5

LEMMA ProcessStep ==
    ASSUME TypeInv, SchemaInv, OneAtATime, ServesInv, NEW p \in Procs,
           \/ \E c \in Roles[p] : Launch(p, c)
           \/ Serve(p) \/ Exit(p) \/ Crash(p)
    PROVE  SchemaInv' /\ ServesInv'
<1>1. /\ runner \in [Procs -> Runner] /\ server \in [Procs -> Main]
      /\ command \in [Procs -> Commands \cup {None}]
  BY DEF TypeInv, TypeOK, MigrationsTypeOK, LifecycleTypeOK
<1>2. ASSUME NEW c \in Roles[p], Launch(p, c)
      PROVE  SchemaInv' /\ ServesInv'
  <2>1. PICK r : r = [NoRunner EXCEPT !.pc = "version",
                                      !.dir = IF c = "down" THEN "down" ELSE "up"]
    OBVIOUS
  <2>2. /\ r.pc = "version" /\ runner' = [runner EXCEPT ![p] = r]
        /\ UNCHANGED <<schema, version, server>>
        /\ command' = [command EXCEPT ![p] = c] /\ command[p] = None
    BY <1>2, <2>1 DEF Launch, Migrate, NoRunner, lifeVars
  <2>3. MainAt(p, "off")
    BY <2>2 DEF OneAtATime
  <2>4. ServesInv'
    BY <1>1, <2>2, <2>3 DEF ServesInv, MainAt
  <2>5. QED BY <2>2, <2>4, Settles
<1>3. CASE Serve(p)
  <2>1. /\ runner' = [runner EXCEPT ![p] = NoRunner] /\ NoRunner.pc = "idle"
        /\ UNCHANGED <<schema, version, command>>
    BY <1>3 DEF Serve, NoRunner
  <2>2. schema = Complete(Versions)
    BY <1>3 DEF Serve, ServesInv
  <2>3. QED BY <2>1, <2>2, Settles DEF ServesInv
<1>4. CASE Exit(p) \/ Crash(p)
  <2>1. /\ runner' = [runner EXCEPT ![p] = NoRunner] /\ NoRunner.pc = "idle"
        /\ UNCHANGED <<schema, version>>
        /\ command' = [command EXCEPT ![p] = None]
        /\ server' = [server EXCEPT ![p] = NoServer]
    BY <1>4 DEF Exit, Crash, Exits, Gone, NoRunner
  <2>2. ServesInv'
    BY <1>1, <2>1, ServerOK DEF ServesInv, MainAt, Commands
  <2>3. QED BY <2>1, <2>2, Settles
<1>5. QED BY <1>2, <1>3, <1>4

LEMMA SchemaStep ==
    ASSUME TypeInv, SchemaInv, OneAtATime, ServesInv, [Next]_vars
    PROVE  SchemaInv' /\ ServesInv'
<1>1. ASSUME UNCHANGED <<schema, version, runner>>
      PROVE  SchemaInv'
  BY <1>1 DEF SchemaInv, Shape, CleanMeansComplete, Ready, Creates, Drops, Creating, GoingUp,
              GoingDown, Working, Dirty
<1>2. ASSUME NEW p \in Procs,
             \/ MainStep(p) \/ Surroundings(p)
             \/ \E l \in Listeners : ListenerStep(p, l),
             UNCHANGED <<migrationVars, command>>
      PROVE  SchemaInv' /\ ServesInv'
  <2>1. UNCHANGED <<schema, version, runner, command>>
    BY <1>2 DEF migrationVars
  <2>2. \A q \in Procs : ~MainAt(q, "off")' => ~MainAt(q, "off")
    BY <1>2, ServerKept
  <2>3. ServesInv'
    BY <2>1, <2>2 DEF ServesInv
  <2>4. QED BY <1>1, <2>1, <2>3
<1>3. CASE UNCHANGED vars
  <2>1. UNCHANGED <<schema, version, runner, command, server>>
    BY <1>3 DEF vars, migrationVars, lifeVars
  <2>2. QED BY <1>1, <2>1 DEF ServesInv, MainAt
<1>4. QED BY <1>2, <1>3, MigratorStep, ProcessStep, NextCases

LEMMA SchemaInvHolds ==
    ASSUME "down" \in Alone
    PROVE  Spec => [](SchemaInv /\ OneAtATime /\ ServesInv)
<1>1. Init => SchemaInv /\ OneAtATime /\ ServesInv
  <2>1. SUFFICES ASSUME Init PROVE SchemaInv /\ OneAtATime /\ ServesInv
    OBVIOUS
  <2>2. /\ schema = {} /\ version = None /\ command = [p \in Procs |-> None]
        /\ \A p \in Procs : runner[p].pc = "idle" /\ server[p].pc = "off"
    BY <2>1 DEF Init, MigrationsInit, LifecycleInit, NoRunner, NoServer
  <2>3. SchemaInv
    BY <2>2 DEF SchemaInv, Shape, CleanMeansComplete, Ready, Creates, Drops, Creating, GoingUp,
                GoingDown, Working
  <2>4. OneAtATime
    BY <2>2, ServerOK DEF OneAtATime, Migrating, MainAt, Commands
  <2>5. ServesInv
    BY <2>2, ServerOK DEF ServesInv, Commands
  <2>6. QED BY <2>3, <2>4, <2>5
<1>2. TypeInv /\ SchemaInv /\ OneAtATime /\ ServesInv /\ [Next]_vars
        => SchemaInv' /\ OneAtATime' /\ ServesInv'
  BY AloneStep, SchemaStep
<1>3. QED BY <1>1, <1>2, TypeInvHolds, PTL DEF Spec

\* Where a roll-back runs alone, a clean version tells the truth about the
\* schema, though any number of processes migrate at once without a lock and
\* any of them crashes or fails in the middle of a migration.
THEOREM CleanIsComplete == "down" \in Alone => (Spec => []CleanMeansComplete)
<1>1. SUFFICES ASSUME "down" \in Alone PROVE Spec => []CleanMeansComplete
  OBVIOUS
<1>2. SchemaInv => CleanMeansComplete
  BY DEF SchemaInv
<1>3. QED BY <1>1, <1>2, SchemaInvHolds, PTL

\* Where a roll-back runs alone, a server serves on the complete schema only.
THEOREM ServesOnlyComplete == "down" \in Alone => (Spec => []ServesCompleteSchema)
<1>1. SUFFICES ASSUME "down" \in Alone PROVE Spec => []ServesCompleteSchema
  OBVIOUS
<1>2. OneAtATime /\ ServesInv => ServesCompleteSchema
  BY DEF OneAtATime, ServesInv, ServesCompleteSchema
<1>3. QED BY <1>1, <1>2, SchemaInvHolds, PTL
=============================================================================
