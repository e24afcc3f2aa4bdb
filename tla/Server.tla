------------------------------- MODULE Server -------------------------------
(***************************************************************************)
(* The life of the process, src/server.ts, around the plugin registry it   *)
(* loads and the usage log it flushes: it connects to MongoDB and Redis,   *)
(* loads the plugins and listens; on a signal it flushes the usage log and *)
(* disconnects, all at once, and then closes the server, whose last        *)
(* connection takes the process along.  Signals may come at any time, and  *)
(* requests are served until the server is closed.                         *)
(*                                                                         *)
(* Of a request only what touches these parts is kept: it waits for the    *)
(* rate limiter's Redis call, goes on to its answer, and finishes with a   *)
(* usage entry.  Requests that end without an entry, or before the rate    *)
(* limiter, are left out.                                                  *)
(***************************************************************************)
EXTENDS Integers, Sequences

CONSTANTS
    FlushAt, BatchLimit,    \* USAGE_LOG_BATCH_SIZE, see UsageLog
    Files, Names, Exports, NoName, NoFile,    \* see PluginRegistry
    NoPromise,     \* no signal has met a server yet
    MaxEntries,    \* bound: requests in one behaviour
    MaxFailures,   \* bound: insertMany calls that fail with MongoDB connected,
                   \* or that an interval starts
    MaxSignals     \* bound: SIGTERM and SIGINT received

ASSUME ServerAssumption ==
    /\ FlushAt \in Nat \ {0}
    /\ BatchLimit \in {FlushAt, FlushAt - 1}
    /\ Exports \in [Files -> Names \union {NoName}]
    /\ NoName \notin Names
    /\ NoFile \notin Files
    /\ MaxEntries \in Nat /\ MaxFailures \in Nat /\ MaxSignals \in Nat
    /\ NoPromise \notin [entries : 0..MaxEntries, failures : Nat]

Stores == {"mongo", "redis"}

(* Without MongoDB the flushes of enqueues and signals fail, too.          *)
AllFailures == MaxFailures + MaxEntries + MaxSignals + 1

VARIABLES
    queue, batch, flushing, flushTimer, sent, stored, failures,
    registry, loaded, loading, importing,
    awaiting,      \* stores whose connection startServer awaits
    stores,        \* the client of a store
    commandDefined,    \* `commandDefined`
    server,        \* `server`: "none", "listening", "unbound" (its port is
                   \* taken), or "closing"
    requests,      \* how many requests wait for the limiter, go on to their
                   \* answer, or to an error for want of Redis
    shutdowns,     \* per signal: what its Promise.all still awaits, and
                   \* whether closeServer has been called
    promise,       \* history: the entries the first signal that met a server
                   \* found stored or flushed itself, and the failures then
    exit           \* "no", or how the process ended

log == <<queue, batch, flushing, flushTimer, sent, stored, failures>>
plugins == <<registry, loaded, loading, importing>>
process == <<awaiting, server, exit>>
vars == <<log, plugins, process, stores, commandDefined, requests, shutdowns, promise>>

Log == INSTANCE UsageLog WITH MaxFailures <- AllFailures
Registry == INSTANCE PluginRegistry

Init ==
    /\ Log!Init
    /\ Registry!Init
    /\ awaiting = Stores
    /\ stores = [s \in Stores |-> "connecting"]
    /\ commandDefined = FALSE
    /\ server = "none"
    /\ requests = [limiting |-> 0, served |-> 0, refused |-> 0]
    /\ shutdowns = <<>>
    /\ promise = NoPromise
    /\ exit = "no"

-----------------------------------------------------------------------------
(* startServer.                                                            *)

(* A connection is there.  Disconnecting may have begun in the meantime.   *)
Connected(s) ==
    /\ exit = "no" /\ s \in awaiting
    /\ stores[s] \in {"connecting", "closing"}
    /\ awaiting' = awaiting \ {s}
    /\ stores' = [stores EXCEPT ![s] = IF @ = "connecting" THEN "up" ELSE @]
    /\ UNCHANGED <<log, plugins, server, exit, commandDefined, requests, shutdowns, promise>>

(* It cannot be had: the process gives up.                                 *)
ConnectFails(s) ==
    /\ exit = "no" /\ s \in awaiting
    /\ exit' = "failed"
    /\ UNCHANGED <<log, plugins, awaiting, server, stores, commandDefined, requests,
                   shutdowns, promise>>

(* loadPlugins, once both connections are there.                           *)
Load ==
    /\ exit = "no" /\ awaiting = {}
    /\ Registry!Next
    /\ UNCHANGED <<log, process, stores, commandDefined, requests, shutdowns, promise>>

(* Mutant: the server listens while its plugins are loaded.                 *)
ListenFirst ==
    /\ exit = "no" /\ loaded /\ server = "none"
    /\ server' \in {"listening", "unbound"}
    /\ UNCHANGED <<log, plugins, awaiting, exit, stores, commandDefined, requests,
                   shutdowns, promise>>

(* app.listen.  Express hands an error to bind to the same callback, which *)
(* ignores it: the process stays without a port.                           *)
Listen ==
    /\ exit = "no" /\ Registry!Loaded /\ server = "none"
    /\ server' \in {"listening", "unbound"}
    /\ UNCHANGED <<log, plugins, awaiting, exit, stores, commandDefined, requests,
                   shutdowns, promise>>
-----------------------------------------------------------------------------
(* Requests and the usage log.                                             *)

InFlight == requests.limiting + requests.served + requests.refused

(* A request comes to the rate limiter, which without MongoDB takes routes *)
(* in the cache.  While the server closes, connections that were busy      *)
(* still carry requests.                                                   *)
Arrive ==
    /\ exit = "no" /\ server \in {"listening", "closing"}
    /\ InFlight + sent < MaxEntries
    /\ stores["mongo"] = "up" \/ InFlight + sent > 0
    /\ requests' = [requests EXCEPT !.limiting = @ + 1]
    /\ UNCHANGED <<log, plugins, process, stores, commandDefined, shutdowns, promise>>

Proceed(to) ==
    requests' = [requests EXCEPT !.limiting = @ - 1, ![to] = @ + 1]

(* consumeRateLimit, with Redis answering ...                              *)
Consume ==
    /\ exit = "no" /\ requests.limiting > 0
    /\ stores["redis"] \in {"up", "closing"}
    /\ commandDefined' = TRUE
    /\ Proceed("served")
    /\ UNCHANGED <<log, plugins, process, stores, shutdowns, promise>>

(* ... with a client that is, or is being, closed ...                      *)
ConsumeFails ==
    /\ exit = "no" /\ requests.limiting > 0
    /\ stores["redis"] \in {"closing", "dead", "bare"}
    /\ commandDefined' = TRUE
    /\ Proceed("refused")
    /\ UNCHANGED <<log, plugins, process, stores, shutdowns, promise>>

(* ... and with no client: getRedisClient makes a new one, which lacks the *)
(* command if it was ever defined on the old one, and connects if not.     *)
ConsumeAnew ==
    /\ exit = "no" /\ requests.limiting > 0
    /\ stores["redis"] = "down"
    /\ commandDefined' = TRUE
    /\ \/ commandDefined /\ Proceed("refused") /\ stores' = [stores EXCEPT !["redis"] = "bare"]
       \/ ~commandDefined /\ Proceed("served") /\ stores' = [stores EXCEPT !["redis"] = "up"]
    /\ UNCHANGED <<log, plugins, process, shutdowns, promise>>

(* A response is finished, and its usage entry enqueued.                   *)
Finish(kind) ==
    /\ exit = "no" /\ requests[kind] > 0
    /\ requests' = [requests EXCEPT ![kind] = @ - 1]
    /\ Log!Enqueue
    /\ UNCHANGED <<plugins, process, stores, commandDefined, shutdowns, promise>>

Tick ==
    /\ exit = "no" /\ failures < MaxFailures
    /\ Log!Tick
    /\ UNCHANGED <<plugins, process, stores, commandDefined, requests, shutdowns, promise>>

(* What `it` was to every shutdown that awaits it is done.                 *)
Settled(it) ==
    shutdowns' = [k \in DOMAIN shutdowns |->
                     [shutdowns[k] EXCEPT !.awaits = @ \ {it}]]

MongoOpen == stores["mongo"] \in {"up", "closing"}

(* The flush in flight settles, and never rejects.                         *)
InsertSettles ==
    /\ exit = "no"
    /\ \/ MongoOpen /\ Log!InsertSucceeds
       \/ (MongoOpen => failures < MaxFailures) /\ Log!InsertFails
    /\ Settled("flush")
    /\ UNCHANGED <<plugins, process, stores, commandDefined, requests, promise>>
-----------------------------------------------------------------------------
(* gracefulShutdown.                                                       *)

(* Mutant: the flush is started and not awaited.                            *)
FlushForgotten(flush, open) == open

(* What Promise.all awaits: a flush of its own if it started one, and the  *)
(* stores that were not disconnected already.                              *)
Awaits(flush, open) == open \union (IF flush THEN {"flush"} ELSE {})

(* SIGTERM or SIGINT: one batch is flushed, unless a flush is in flight,   *)
(* and both stores are being disconnected.                                 *)
Signal ==
    /\ exit = "no" /\ Len(shutdowns) < MaxSignals
    /\ Log!FlushQueue(queue)
    /\ LET open == {s \in Stores : stores[s] # "down"} IN
       /\ shutdowns' = Append(shutdowns,
              [awaits |-> Awaits(flushing' /\ ~flushing, open), over |-> FALSE])
       /\ stores' = [s \in Stores |-> IF s \in open THEN "closing" ELSE "down"]
    /\ promise' =
           IF promise = NoPromise /\ server # "none"
           THEN [entries |-> Log!Durable + (IF flushing THEN 0 ELSE Len(batch')),
                 failures |-> failures]
           ELSE promise
    /\ UNCHANGED <<flushTimer, sent, stored, failures, plugins, process,
                   commandDefined, requests>>

Disconnected(s) ==
    /\ exit = "no" /\ stores[s] = "closing"
    /\ stores' = [stores EXCEPT ![s] = "down"]
    /\ Settled(s)
    /\ UNCHANGED <<log, plugins, process, commandDefined, requests, promise>>

Awaited(s, but) ==
    \E k \in DOMAIN shutdowns \ {but} : s \in shutdowns[k].awaits

(* Mutant: closeServer only after disconnects that succeed.                 *)
RejectedShutdown(k, s) ==
    /\ exit = "no" /\ s \in shutdowns[k].awaits /\ s \in Stores
    /\ shutdowns' = [shutdowns EXCEPT ![k] = [awaits |-> {}, over |-> TRUE]]
    /\ stores' = [stores EXCEPT ![s] = IF Awaited(s, k) THEN @ ELSE "dead"]
    /\ UNCHANGED <<log, plugins, process, commandDefined, requests, promise>>

(* A disconnect rejects, and Promise.all with it, whatever else it awaits. *)
DisconnectFails(k, s) ==
    /\ exit = "no" /\ s \in shutdowns[k].awaits /\ s \in Stores
    /\ shutdowns' = [shutdowns EXCEPT ![k].awaits = {}]
    /\ stores' = [stores EXCEPT ![s] = IF Awaited(s, k) THEN @ ELSE "dead"]
    /\ UNCHANGED <<log, plugins, process, commandDefined, requests, promise>>

(* Mutant: the process exits without waiting for connections to end.        *)
CloseAndExit(k) ==
    /\ exit = "no" /\ ~shutdowns[k].over /\ shutdowns[k].awaits = {}
    /\ shutdowns' = [shutdowns EXCEPT ![k].over = TRUE]
    /\ exit' = IF server = "listening" THEN "clean"
               ELSE IF server = "unbound" THEN "failed"
               ELSE exit
    /\ UNCHANGED <<log, plugins, awaiting, server, stores, commandDefined, requests, promise>>

(* closeServer.  With no server yet it does nothing, and the signal with   *)
(* it; a server without a port has an error for its callback; one that is  *)
(* closing already adds a callback behind the first.                       *)
CloseServer(k) ==
    /\ exit = "no" /\ ~shutdowns[k].over /\ shutdowns[k].awaits = {}
    /\ shutdowns' = [shutdowns EXCEPT ![k].over = TRUE]
    /\ server' = IF server = "listening" THEN "closing" ELSE server
    /\ exit' = IF server = "listening" /\ InFlight = 0 THEN "clean"
               ELSE IF server = "unbound" THEN "failed"
               ELSE exit
    /\ UNCHANGED <<log, plugins, awaiting, stores, commandDefined, requests, promise>>

(* The last connection of a closing server has ended: its callback exits.  *)
Closed ==
    /\ exit = "no" /\ server = "closing" /\ InFlight = 0
    /\ exit' = "clean"
    /\ UNCHANGED <<log, plugins, awaiting, server, stores, commandDefined, requests,
                   shutdowns, promise>>
-----------------------------------------------------------------------------
Start ==
    \/ \E s \in Stores : Connected(s) \/ ConnectFails(s)
    \/ Load
    \/ Listen

Serve ==
    \/ Consume \/ ConsumeFails \/ ConsumeAnew
    \/ \E kind \in {"served", "refused"} : Finish(kind)

ShutDown ==
    \E k \in DOMAIN shutdowns :
        CloseServer(k) \/ \E s \in Stores : DisconnectFails(k, s)

Next ==
    \/ Start
    \/ Arrive \/ Serve
    \/ Tick \/ InsertSettles
    \/ Signal
    \/ \E s \in Stores : Disconnected(s)
    \/ ShutDown
    \/ Closed

Spec == Init /\ [][Next]_vars

(* Calls to MongoDB and Redis settle, requests get their answers (see      *)
(* EveryRequestEnds of Gateway), and Node runs what is due.  Clients do    *)
(* not go on sending on connections of a closing server for ever, which    *)
(* MaxEntries stands for.                                                  *)
FairSpec ==
    /\ Spec
    /\ WF_vars(Serve)
    /\ WF_vars(InsertSettles)
    /\ WF_vars(\E s \in Stores : Disconnected(s))
    /\ WF_vars(ShutDown)
    /\ WF_vars(Closed)
-----------------------------------------------------------------------------
(* Properties.                                                             *)

TypeOK ==
    /\ Log!TypeOK
    /\ Registry!TypeOK
    /\ awaiting \subseteq Stores
    /\ stores \in [Stores -> {"connecting", "up", "closing", "down", "dead", "bare"}]
    /\ commandDefined \in BOOLEAN
    /\ server \in {"none", "listening", "unbound", "closing"}
    /\ requests \in [{"limiting", "served", "refused"} -> 0..MaxEntries]
    /\ InFlight + sent <= MaxEntries
    /\ shutdowns \in Seq([awaits : SUBSET (Stores \union {"flush"}), over : BOOLEAN])
    /\ promise \in [entries : 0..MaxEntries, failures : Nat] \union {NoPromise}
    /\ exit \in {"no", "clean", "failed"}

(* As long as no signal has come, a server that listens has its stores,    *)
(* its routes' references find the plugins that exist, and no request is   *)
(* refused for want of a Redis client with the limiter's command.          *)
ServesUntilSignalled ==
    shutdowns = <<>> =>
        /\ server = "listening" =>
               /\ \A s \in Stores : stores[s] = "up"
               /\ Registry!Loaded /\ Registry!ReferencesResolve
        /\ requests.refused = 0

(* However many signals come, and whatever fails: a process that has been  *)
(* listening does not exit before every request it accepted is answered,   *)
(* and reports success; after a single signal, disconnecting is over, too. *)
ExitsIdle ==
    exit # "no" /\ server \in {"listening", "closing"} =>
        /\ InFlight = 0
        /\ exit = "clean"
        /\ Len(shutdowns) = 1 =>
               (\A s \in Stores : stores[s] # "closing") \/ (\E s \in Stores : stores[s] = "dead")

(* What the shutdown does promise of the usage log: after a single signal, *)
(* with no failure since, the entries whose insertion was acknowledged and *)
(* those of the batch it flushed are stored when the process is gone.      *)
KeptOnExit ==
    /\ exit # "no" /\ promise # NoPromise /\ Len(shutdowns) = 1
    /\ failures = promise.failures
    /\ \A s \in Stores : stores[s] # "dead"
    => \A e \in 1..promise.entries : stored[e] >= 1

(* A signal that meets a server ends the process.  One that comes earlier  *)
(* may not: closeServer finds no server and startServer goes on.           *)
SignalEndsProcess == promise # NoPromise ~> exit # "no"

(* "process bootstrap and graceful shutdown" (README.md:16) with usage     *)
(* entries "persisted in usage_logs" (README.md:96): after one signal and  *)
(* no failure, every request's entry is stored when the process is gone.   *)
EntriesPersisted ==
    /\ exit = "clean" /\ promise # NoPromise /\ Len(shutdowns) = 1
    /\ failures = 0
    /\ \A s \in Stores : stores[s] # "dead"
    => \A e \in 1..sent : stored[e] >= 1
=============================================================================
