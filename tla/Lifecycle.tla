----------------------------- MODULE Lifecycle ------------------------------
(***************************************************************************)
(* The life of a server process once its store is open (cmd/forum/main.go, *)
(* server/server.go): the main goroutine starts one goroutine per listener *)
(* and waits for a signal or for a listener's error, shuts the listeners   *)
(* down, closes the store and exits.  A listener reports its error through *)
(* a channel with room for one, so that it never waits for the receiver.   *)
(***************************************************************************)
EXTENDS Migrations

CONSTANTS
    Second,  \* processes configured with a second listener, on :80
    Busy     \* bound on the requests in flight on one listener

ASSUME LifecycleOK == Second \subseteq Procs /\ Busy \in Nat

VARIABLES
    server,    \* the main goroutine of each process
    listener,  \* the listener goroutines of each process
    handlers   \* the requests in flight on each listener

lifeVars == <<server, listener, handlers>>

Listeners == {"primary", "secondary"}

\* select: in the select of runMultiServer or runWithShutdown.  drain and
\* drainSecond: in Shutdown because of a signal; stop and stopSecond: because
\* the other listener failed.
MainPCs == {"off", "start", "select", "drain", "drainSecond", "stop", "stopSecond",
            "close", "exit"}

\* shut: Shutdown was called.  timedOut is history: the listeners whose Shutdown
\* gave up.
Main == [pc : MainPCs, cancelled : BOOLEAN, shut : SUBSET Listeners,
         timedOut : SUBSET Listeners, closed : BOOLEAN]

NoServer == [pc |-> "off", cancelled |-> FALSE, shut |-> {}, timedOut |-> {},
             closed |-> FALSE]

\* failed: the error is in the channel.  ended: http.ErrServerClosed is.
ListenerStates == {"off", "start", "accept", "failed", "ended"}

MainAt(p, label) == server[p].pc = label

-----------------------------------------------------------------------------
(* The listeners.                                                          *)

\* ListenAndServe: the port is taken, or another process has it.
Listen(p, l) ==
    /\ listener[p][l] = "start"
    /\ l \notin server[p].shut
    /\ listener' = [listener EXCEPT ![p][l] =
         IF \E q \in Procs : listener[q][l] = "accept" THEN "failed" ELSE "accept"]
    /\ UNCHANGED <<server, handlers>>

\* Shutdown ends a listener, also one that does not listen yet.
ListenerEnds(p, l) ==
    /\ listener[p][l] \in {"start", "accept"}
    /\ l \in server[p].shut
    /\ listener' = [listener EXCEPT ![p][l] = "ended"]
    /\ UNCHANGED <<server, handlers>>

\* The certificate does not load, accept returns an error.
ListenerFails(p, l) ==
    /\ Faults
    /\ listener[p][l] \in {"start", "accept"}
    /\ listener' = [listener EXCEPT ![p][l] = "failed"]
    /\ UNCHANGED <<server, handlers>>

RequestBegins(p, l) ==
    /\ listener[p][l] = "accept"
    /\ handlers[p][l] < Busy
    /\ handlers' = [handlers EXCEPT ![p][l] = @ + 1]
    /\ UNCHANGED <<server, listener>>

\* Nothing bounds how long a handler runs.
RequestEnds(p, l) ==
    /\ handlers[p][l] > 0
    /\ handlers' = [handlers EXCEPT ![p][l] = @ - 1]
    /\ UNCHANGED <<server, listener>>

-----------------------------------------------------------------------------
(* The main goroutine.                                                     *)

\* Run starts the goroutines.
StartListeners(p) ==
    /\ MainAt(p, "start")
    /\ server' = [server EXCEPT ![p].pc = "select"]
    /\ listener' = [listener EXCEPT ![p] =
         [l \in Listeners |-> IF l = "primary" \/ p \in Second THEN "start" ELSE "off"]]
    /\ UNCHANGED handlers

InShutdown(p) == server[p].pc \in {"drain", "drainSecond", "stop", "stopSecond"}

\* SIGINT or SIGTERM, once the context listens to it; a second one is lost.
Signal(p) ==
    /\ MainAt(p, "start") \/ MainAt(p, "select") \/ InShutdown(p)
    /\ ~server[p].cancelled
    /\ server' = [server EXCEPT ![p].cancelled = TRUE]
    /\ UNCHANGED <<listener, handlers>>

ShutDown(p, label, l) ==
    server' = [server EXCEPT ![p].pc = label, ![p].shut = @ \cup {l}]

\* Mutant: the error of the second listener is not received.
SelectPrimary(p) ==
    /\ MainAt(p, "select")
    /\ \/ server[p].cancelled /\ ShutDown(p, "drain", "primary")
       \/ /\ listener[p]["primary"] = "failed"
          /\ IF p \in Second THEN ShutDown(p, "stopSecond", "secondary")
             ELSE server' = [server EXCEPT ![p].pc = "close"]
    /\ UNCHANGED <<listener, handlers>>

\* Of the events that are ready one is taken.
Select(p) ==
    /\ MainAt(p, "select")
    /\ \/ server[p].cancelled /\ ShutDown(p, "drain", "primary")
       \/ /\ listener[p]["primary"] = "failed"
          /\ IF p \in Second THEN ShutDown(p, "stopSecond", "secondary")
             ELSE server' = [server EXCEPT ![p].pc = "close"]
       \/ listener[p]["secondary"] = "failed" /\ ShutDown(p, "stop", "primary")
    /\ UNCHANGED <<listener, handlers>>

\* The listener that Shutdown waits for.
Draining(p) == IF server[p].pc \in {"drain", "stop"} THEN "primary" ELSE "secondary"

\* Of the listeners, those whose Shutdown gave up are gaveUp.
Leave(p, gaveUp) ==
    server' = [server EXCEPT
        ![p].pc = IF MainAt(p, "drain") /\ p \in Second THEN "drainSecond" ELSE "close",
        ![p].shut = IF MainAt(p, "drain") /\ p \in Second THEN Listeners ELSE @,
        ![p].timedOut = @ \cup gaveUp]

\* Mutant: Shutdown returns once nobody listens.
DrainedUnserved(p) ==
    /\ InShutdown(p)
    /\ listener[p][Draining(p)] # "accept"
    /\ Leave(p, {})
    /\ UNCHANGED <<listener, handlers>>

\* Shutdown returns once nobody listens and no request is in flight.
Drained(p) ==
    /\ InShutdown(p)
    /\ listener[p][Draining(p)] # "accept"
    /\ handlers[p][Draining(p)] = 0
    /\ Leave(p, {})
    /\ UNCHANGED <<listener, handlers>>

\* Mutant: Shutdown has no deadline.
TimeoutNever(p) == FALSE /\ UNCHANGED lifeVars

\* Shutdown gives up after shutdownTimeout.
Timeout(p) ==
    /\ InShutdown(p)
    /\ listener[p][Draining(p)] # "accept"
    /\ handlers[p][Draining(p)] > 0
    /\ Leave(p, {Draining(p)})
    /\ UNCHANGED <<listener, handlers>>

\* The deferred Close; requests still in flight lose the store.
CloseStore(p) ==
    /\ MainAt(p, "close")
    /\ server' = [server EXCEPT ![p].pc = "exit", ![p].closed = TRUE]
    /\ UNCHANGED <<listener, handlers>>

\* Nothing of a process outlives it.
Gone(p) ==
    /\ server' = [server EXCEPT ![p] = NoServer]
    /\ listener' = [listener EXCEPT ![p] = [l \in Listeners |-> "off"]]
    /\ handlers' = [handlers EXCEPT ![p] = [l \in Listeners |-> 0]]

-----------------------------------------------------------------------------

LifecycleInit ==
    /\ server = [p \in Procs |-> NoServer]
    /\ listener = [p \in Procs |-> [l \in Listeners |-> "off"]]
    /\ handlers = [p \in Procs |-> [l \in Listeners |-> 0]]

MainStep(p) == StartListeners(p) \/ Select(p) \/ Drained(p) \/ Timeout(p) \/ CloseStore(p)
ListenerStep(p, l) == Listen(p, l) \/ ListenerEnds(p, l)
Surroundings(p) ==
    \/ Signal(p)
    \/ \E l \in Listeners : ListenerFails(p, l) \/ RequestBegins(p, l) \/ RequestEnds(p, l)

LifecycleTypeOK ==
    /\ server \in [Procs -> Main]
    /\ listener \in [Procs -> [Listeners -> ListenerStates]]
    /\ handlers \in [Procs -> [Listeners -> 0 .. Busy]]
=============================================================================
