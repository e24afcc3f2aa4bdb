----------------------------- MODULE RouteCache -----------------------------
(***************************************************************************)
(* The in-memory route cache of src/proxy/route.cache.ts, the admin        *)
(* operations of src/proxy/route.service.ts that write the collection and  *)
(* invalidate the cache, and the requests routed by it.                    *)
(*                                                                         *)
(* Several gateways, one process each with a cache of its own, share the   *)
(* collection.  A table is named by its place in `history`, the sequence   *)
(* of tables the collection has held, so the cached array is the number of *)
(* the table it was compiled from.  Within a process the code between two  *)
(* awaits is one step: getCompiledRoutes up to the query, the query itself *)
(* in MongoDB, and the rest once all patterns are compiled.                *)
(***************************************************************************)
EXTENDS RouteTable, RouteInput, FiniteSets

CONSTANTS
    Gateways,      \* gateway processes
    Requests,      \* proxied requests
    Admins,        \* connections that issue admin operations
    GatewayOf,     \* the gateway that serves each request and admin
    Creates,       \* bodies administrators POST
    Patches,       \* bodies they PATCH routes with
    TTL,           \* CACHE_TTL_MS
    Refused,       \* the answer 500 of a request that could not be routed
    NotYet,        \* no arrival, no answer, no operation
    MaxTime,       \* bound: the clock
    MaxTables,     \* bound: tables in one behaviour
    MaxFailures    \* bound: calls of MongoDB that fail in one behaviour

ASSUME RouteCacheAssumption ==
    /\ GatewayOf \in [Requests \union Admins -> Gateways]
    /\ \A body \in Creates : Created(body) \in Definitions
    /\ \A body \in Patches :
          /\ DOMAIN Normalized(body) # {}
          /\ \A d \in Definitions : Patched(d, body) \in Definitions
    /\ \A d \in Definitions :
          /\ {"pattern", "enabled", "priority", "upstream", "plugins", "rateLimit"}
                 \subseteq DOMAIN d
          /\ {"target", "timeoutMs"} \subseteq DOMAIN d.upstream
    /\ TTL \in Nat \ {0}
    /\ MaxTime \in Nat /\ MaxTables \in Nat \ {0} /\ MaxFailures \in Nat
    /\ NotYet \notin RouteIds \union {NoRoute, Refused}
    /\ Refused \notin RouteIds \union {NoRoute}
    /\ NotYet \notin [target : Targets, at : Nat]

VARIABLES
    now,        \* Date.now()
    history,    \* tables of the collection, oldest first, the last current
    cache,      \* `cache` of each gateway: a place in history, 0 for []
    loadedAt,   \* `loadedAt` of each gateway
    arrival,    \* target and time of arrival of each request
    phase,      \* what each request awaits: its query, the compilation
    fetched,    \* the table each request's query returned
    answer,     \* the route, NoRoute (404) or Refused (500)
    operation,  \* the admin operation each connection has under way
    acked,      \* the newest table whose write each gateway acknowledged
    failures    \* calls of MongoDB that failed so far

vars == <<now, history, cache, loadedAt, arrival, phase, fetched, answer,
          operation, acked, failures>>

Table(v) == history[v].table
Current == Len(history)

Arrivals == [target : Targets, at : Nat]

(* What an admin operation does, the time mongoose stamped it with, and    *)
(* the place of the table it produced, 0 before MongoDB has applied it.    *)
Saves == [kind : {"create"}, id : RouteIds, body : Creates]
             \union [kind : {"update"}, id : RouteIds, body : Patches]
Deletes == [kind : {"delete"}, id : RouteIds]
Operations == [does : Saves \union Deletes, at : Nat, applied : Nat]

(* A table, the time it became current, and what the write that made it    *)
(* did.                                                                    *)
Versions == [table : Tables, at : Nat, by : Saves \union Deletes \union {NotYet}]

Init ==
    /\ now = 0
    /\ \E table \in [RouteIds -> [def : {Created(body) : body \in Creates},
                                   updatedAt : {0}] \union {Absent}] :
          history = <<[table |-> table, at |-> 0, by |-> NotYet]>>
    /\ cache = [g \in Gateways |-> 0]
    /\ loadedAt = [g \in Gateways |-> 0]
    /\ arrival = [r \in Requests |-> NotYet]
    /\ phase = [r \in Requests |-> "idle"]
    /\ fetched = [r \in Requests |-> 0]
    /\ answer = [r \in Requests |-> NotYet]
    /\ operation = [a \in Admins |-> NotYet]
    /\ acked = [g \in Gateways |-> 0]
    /\ failures = 0

-----------------------------------------------------------------------------
(* Mutants: plausible bugs, each of which breaks one of the properties     *)
(* below.  An expiry test that is off by one; a fetch stamped with the     *)
(* time it ended; an invalidation that leaves `loadedAt` undefined.        *)
LateExpiry(g) ==
    /\ cache[g] # 0 /\ Active(Table(cache[g])) # {}
    /\ now - loadedAt[g] <= TTL

LateStamp(r) ==
    /\ cache' = [cache EXCEPT ![GatewayOf[r]] = fetched[r]]
    /\ loadedAt' = [loadedAt EXCEPT ![GatewayOf[r]] = now]

UnsetInvalidate(g) ==
    /\ cache' = [cache EXCEPT ![g] = 0]
    /\ loadedAt' = [loadedAt EXCEPT ![g] = NotYet]
-----------------------------------------------------------------------------
(* The cache of g may be used: it is not empty and not expired.            *)
Fresh(g) ==
    /\ cache[g] # 0 /\ Active(Table(cache[g])) # {}
    /\ now - loadedAt[g] < TTL

Answer(r, a) ==
    /\ answer' = [answer EXCEPT ![r] = a]
    /\ phase' = [phase EXCEPT ![r] = "done"]
    /\ fetched' = [fetched EXCEPT ![r] = 0]

Ask(r, target) ==
    /\ phase[r] = "idle"
    /\ arrival' = [arrival EXCEPT ![r] = [target |-> target, at |-> now]]

(* resolveRoute, getCompiledRoutes up to the query: a request that finds a *)
(* fresh cache is routed by it at once ...                                 *)
Hit(r) ==
    /\ Fresh(GatewayOf[r])
    /\ \E target \in Targets :
          /\ Ask(r, target)
          /\ \E i \in Resolve(Table(cache[GatewayOf[r]]), target) : Answer(r, i)
    /\ UNCHANGED <<now, history, cache, loadedAt, operation, acked, failures>>

(* ... and one that does not starts a fetch of its own; the time of the    *)
(* call, kept for `loadedAt`, is the time of arrival.                      *)
Miss(r) ==
    /\ ~Fresh(GatewayOf[r])
    /\ \E target \in Targets : Ask(r, target)
    /\ phase' = [phase EXCEPT ![r] = "fetching"]
    /\ UNCHANGED <<now, history, cache, loadedAt, fetched, answer, operation,
                   acked, failures>>

(* MongoDB answers the find of r's fetch.                                  *)
Find(r) ==
    /\ phase[r] = "fetching"
    /\ fetched' = [fetched EXCEPT ![r] = Current]
    /\ phase' = [phase EXCEPT ![r] = "compiling"]
    /\ UNCHANGED <<now, history, cache, loadedAt, arrival, answer, operation,
                   acked, failures>>

(* cache = await fetchRoutes(); loadedAt = now                             *)
Keep(r) ==
    /\ cache' = [cache EXCEPT ![GatewayOf[r]] = fetched[r]]
    /\ loadedAt' = [loadedAt EXCEPT ![GatewayOf[r]] = arrival[r].at]

(* The fetch of r ends and r is routed by what it returned.                *)
Fill(r) ==
    /\ phase[r] = "compiling" /\ Compilable(Table(fetched[r]))
    /\ Keep(r)
    /\ \E i \in Resolve(Table(fetched[r]), arrival[r].target) : Answer(r, i)
    /\ UNCHANGED <<now, history, arrival, operation, acked, failures>>

(* path-to-regexp rejects a pattern: the fetch rejects, the cache stays.   *)
Reject(r) ==
    /\ phase[r] = "compiling" /\ ~Compilable(Table(fetched[r]))
    /\ Answer(r, Refused)
    /\ UNCHANGED <<now, history, cache, loadedAt, arrival, operation, acked,
                   failures>>

(* The find of r's fetch fails.                                            *)
FindFails(r) ==
    /\ phase[r] = "fetching"
    /\ failures < MaxFailures
    /\ failures' = failures + 1
    /\ Answer(r, Refused)
    /\ UNCHANGED <<now, history, cache, loadedAt, arrival, operation, acked>>

-----------------------------------------------------------------------------
Underway == {a \in Admins : operation[a] # NotYet}

(* The id of a create is fresh.                                            *)
Allowed(does) ==
    does.kind = "create" =>
        /\ does.id \notin Present(Table(Current))
        /\ \A a \in Underway : operation[a].does.id # does.id

(* createRoute, updateRoute and deleteRoute up to the call of MongoDB.     *)
Issue(a) ==
    /\ operation[a] = NotYet
    /\ Current + Cardinality(Underway) < MaxTables
    /\ \E does \in Saves \union Deletes :
          /\ Allowed(does)
          /\ operation' = [operation EXCEPT ![a] =
                               [does |-> does, at |-> now, applied |-> 0]]
    /\ UNCHANGED <<now, history, cache, loadedAt, arrival, phase, fetched,
                   answer, acked, failures>>

(* update and delete need the document.                                    *)
Applicable(does) == does.kind = "create" \/ does.id \in Present(Table(Current))

(* Mutant: an update saves the document as it was when it began.            *)
StaleEffect(op) ==
    LET read == Table(CHOOSE v \in 1..Current :
                          /\ v = Current \/ history[v + 1].at >= op.at
                          /\ v = 1 \/ history[v].at < op.at) IN
    [Table(Current) EXCEPT ![op.does.id] =
        CASE op.does.kind = "create" ->
                 [def |-> Created(op.does.body), updatedAt |-> op.at]
          [] op.does.kind = "update" ->
                 [def |-> Patched((IF read[op.does.id] = Absent THEN @
                                   ELSE read[op.does.id]).def, op.does.body),
                  updatedAt |-> op.at]
          [] op.does.kind = "delete" -> Absent]

(* The table after the operation: a patch is applied to the document       *)
(* MongoDB finds then.                                                     *)
Effect(op) ==
    [Table(Current) EXCEPT ![op.does.id] =
        CASE op.does.kind = "create" ->
                 [def |-> Created(op.does.body), updatedAt |-> op.at]
          [] op.does.kind = "update" ->
                 [def |-> Patched(@.def, op.does.body), updatedAt |-> op.at]
          [] op.does.kind = "delete" -> Absent]

Written(op) ==
    Append(history, [table |-> Effect(op), at |-> now, by |-> op.does])

(* MongoDB applies the operation of a.                                     *)
Apply(a) ==
    /\ operation[a] # NotYet
    /\ operation[a].applied = 0
    /\ Applicable(operation[a].does)
    /\ history' = Written(operation[a])
    /\ operation' = [operation EXCEPT ![a].applied = Current + 1]
    /\ UNCHANGED <<now, cache, loadedAt, arrival, phase, fetched, answer,
                   acked, failures>>

(* invalidateRouteCache                                                    *)
Invalidate(g) ==
    /\ cache' = [cache EXCEPT ![g] = 0]
    /\ loadedAt' = [loadedAt EXCEPT ![g] = 0]

(* MongoDB's answer arrives: the cache is invalidated and the operation    *)
(* acknowledged.                                                           *)
Acknowledge(a) ==
    /\ operation[a] # NotYet
    /\ operation[a].applied # 0
    /\ Invalidate(GatewayOf[a])
    /\ acked' = [acked EXCEPT ![GatewayOf[a]] =
          IF @ < operation[a].applied THEN operation[a].applied ELSE @]
    /\ operation' = [operation EXCEPT ![a] = NotYet]
    /\ UNCHANGED <<now, history, arrival, phase, fetched, answer, failures>>

(* update or delete of a document that is not there: 404, no invalidation. *)
(* (A patch with nothing to set is refused before updateRoute is called.)  *)
NotFound(a) ==
    /\ operation[a] # NotYet
    /\ operation[a].applied = 0
    /\ ~Applicable(operation[a].does)
    /\ operation' = [operation EXCEPT ![a] = NotYet]
    /\ UNCHANGED <<now, history, cache, loadedAt, arrival, phase, fetched,
                   answer, acked, failures>>

(* The call of MongoDB fails, before or after it was applied: 500, and no  *)
(* invalidation either way.                                                *)
AdminFails(a) ==
    /\ operation[a] # NotYet
    /\ failures < MaxFailures
    /\ failures' = failures + 1
    /\ operation' = [operation EXCEPT ![a] = NotYet]
    /\ UNCHANGED <<now, history, cache, loadedAt, arrival, phase, fetched,
                   answer, acked>>

Tick ==
    /\ now < MaxTime
    /\ now' = now + 1
    /\ UNCHANGED <<history, cache, loadedAt, arrival, phase, fetched, answer,
                   operation, acked, failures>>

FetchStep(r) == Find(r) \/ Fill(r) \/ Reject(r) \/ FindFails(r)

Next ==
    \/ Tick
    \/ \E r \in Requests : Hit(r) \/ Miss(r) \/ FetchStep(r)
    \/ \E a \in Admins :
          Issue(a) \/ Apply(a) \/ Acknowledge(a) \/ NotFound(a) \/ AdminFails(a)

Spec == Init /\ [][Next]_vars

(* MongoDB answers or fails every call; compiling ends.                    *)
FairSpec == Spec /\ \A r \in Requests : WF_vars(FetchStep(r))
-----------------------------------------------------------------------------
(* The v-th table was still current at time t.                             *)
CurrentAt(v, t) == v = Current \/ history[v + 1].at >= t

(* Type invariant.                                                         *)
TypeOK ==
    /\ now \in 0..MaxTime
    /\ history \in Seq(Versions)
    /\ Current >= 1
    /\ cache \in [Gateways -> 0..Current]
    /\ loadedAt \in [Gateways -> Nat]
    /\ arrival \in [Requests -> Arrivals \union {NotYet}]
    /\ phase \in [Requests -> {"idle", "fetching", "compiling", "done"}]
    /\ fetched \in [Requests -> 0..Current]
    /\ answer \in [Requests -> RouteIds \union {NoRoute, Refused, NotYet}]
    /\ operation \in [Admins -> Operations \union {NotYet}]
    /\ acked \in [Gateways -> 0..Current]
    /\ failures \in 0..MaxFailures

(* A cached table was current when `loadedAt` says it was loaded, and a    *)
(* table being compiled was current when its fetch began, whichever        *)
(* writes, invalidations and other fetches overtook it: `loadedAt` is the  *)
(* time the call began, never when it ended.                               *)
NeverOlderThanStamped ==
    /\ \A g \in Gateways : cache[g] # 0 => CurrentAt(cache[g], loadedAt[g])
    /\ \A r \in Requests :
          phase[r] = "compiling" => CurrentAt(fetched[r], arrival[r].at)

(* As long as MongoDB answers, a request is refused only because a route   *)
(* that was enabled at some time since the request arrived has a pattern   *)
(* that does not compile.  Routes marked disabled never interfere.         *)
RefusedForEnabledOnly ==
    failures = 0 =>
        \A r \in Requests : answer[r] = Refused =>
            \E v \in 1..Current :
                /\ CurrentAt(v, arrival[r].at)
                /\ \E i \in Present(Table(v)) :
                      Table(v)[i].def.enabled /\ ~Table(v)[i].def.pattern.wellFormed

(* The cache implements BoundedStaleness: no request is routed by a table  *)
(* that stopped being current TTL or longer before it arrived, on any      *)
(* gateway, and every request is answered, if only by a refusal.           *)
Abstract == INSTANCE BoundedStaleness WITH MaxStaleness <- TTL

ImplementsBoundedStaleness == Abstract!Spec

(* "On success the gateway immediately serves traffic for matching         *)
(* requests" (README.md, of a POST): once the newest write a gateway has   *)
(* acknowledged is the creation of a route, what the gateway answers from  *)
(* its cache is what the table with that route, or a later one, answers.   *)
CreatesServedAtOnce ==
    \A g \in Gateways, target \in Targets :
        Fresh(g) /\ acked[g] # 0 /\ history[acked[g]].by.kind = "create" =>
            \E v \in acked[g]..Current :
                Resolve(Table(cache[g]), target) \subseteq Resolve(Table(v), target)

(* The same sentence, for a route that was created and never touched: as   *)
(* long as MongoDB answers, a request that some enabled, compilable route  *)
(* serves in every table is not refused.                                   *)
GoodRoutesServed ==
    failures = 0 /\ Compilable(Table(1)) =>
        \A r \in Requests : answer[r] = Refused =>
            \E v \in 1..Current :
                ~\E i \in Matching(Table(v), arrival[r].target) :
                      Table(v)[i].def.pattern.wellFormed

(* "Requests are matched by HTTP method and path-to-regexp pattern         *)
(* priority (higher priority wins)", "Routes marked enabled: false are     *)
(* ignored" (README.md): the route a request is given was, in a table less *)
(* than TTL old, enabled and of the highest priority of those that serve   *)
(* it, whichever writes overtook the request.                              *)
HighestPriorityWins ==
    \A r \in Requests : answer[r] \in RouteIds =>
        \E v \in 1..Current :
            LET serving == {i \in Present(Table(v)) :
                              /\ Table(v)[i].def.enabled
                              /\ arrival[r].target \in Table(v)[i].def.pattern.serves}
            IN  /\ CurrentAt(v, arrival[r].at - TTL + 1)
                /\ answer[r] \in serving
                /\ \A i \in serving : Table(v)[i].def.priority
                                       <= Table(v)[answer[r]].def.priority

(* The fields of a route, and what a definition has there.                 *)
Paths ==
    {<<f>> : f \in {"pattern", "enabled", "priority", "rateLimit"}}
        \union ({"upstream"} \X {"target", "timeoutMs"})
        \union ({"plugins"} \X PluginLists)

At(def, path) == IF Len(path) = 1 THEN def[path[1]] ELSE def[path[1]][path[2]]

(* Whether a write says what a field shall be: a create does of all, a     *)
(* patch of those it names, and of all lists if it names any plugins.      *)
Names(does, path) ==
    \/ does.kind = "create"
    \/ /\ does.kind = "update" /\ path[1] \in DOMAIN does.body
       /\ path[1] = "upstream" => path[2] \in DOMAIN does.body.upstream

(* ... and what: the lists it does not name are empty.                     *)
Says(does, path) ==
    IF does.kind = "create" THEN At(Created(does.body), path)
    ELSE IF path[1] = "plugins" THEN Given(does.body.plugins, path[2], <<>>)
    ELSE IF path = <<"rateLimit">> /\ does.body.rateLimit = Null THEN NoLimit
    ELSE At(does.body, path)

(* Writes merge, however they overlap: each field of a route is what the   *)
(* last write applied that names it says, or else what it was at first.    *)
(* "Send {"rateLimit": null} in a PATCH request to remove an override"     *)
(* (README.md); one plugin list in a patch empties the others.             *)
WritesMerge ==
    \A i \in Present(Table(Current)), path \in Paths :
        LET naming == {v \in 2..Current :
                           history[v].by.id = i /\ Names(history[v].by, path)}
            is == At(Table(Current)[i].def, path) IN
        IF naming = {}
        THEN i \in Present(Table(1)) /\ is = At(Table(1)[i].def, path)
        ELSE \E last \in naming :
                 (\A v \in naming : v <= last) /\ is = Says(history[last].by, path)
=============================================================================
