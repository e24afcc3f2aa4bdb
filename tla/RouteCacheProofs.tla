-------------------------- MODULE RouteCacheProofs --------------------------
(***************************************************************************)
(* Proofs about RouteCache, for any number of gateways, requests,          *)
(* administrators and routes and for every TTL.  The inductive invariant   *)
(* is IInv: a table in a cache, or on its way into one, was still current  *)
(* at the time that is or will be its `loadedAt`, which only makes sense   *)
(* together with the types, with the fact that no recorded time lies in    *)
(* the future (so a table that is replaced now is not replaced too early), *)
(* and with what each phase of a request says of its arrival and answer.   *)
(***************************************************************************)
EXTENDS RouteCache, SequenceTheorems, TLAPS

(* No recorded time lies in the future, and no operation claims a table    *)
(* that has not been written.                                              *)
Past ==
    /\ \A v \in 1..Current : history[v].at <= now
    /\ \A g \in Gateways : loadedAt[g] <= now
    /\ \A r \in Requests : arrival[r] # NotYet => arrival[r].at <= now
    /\ \A a \in Admins : operation[a] # NotYet => operation[a].applied <= Current

(* A request has arrived unless it is idle and is answered once it is done.*)
Linked ==
    \A r \in Requests :
        /\ phase[r] = "idle" <=> arrival[r] = NotYet
        /\ phase[r] = "done" <=> answer[r] # NotYet
        /\ phase[r] = "compiling" => fetched[r] # 0

IInv == TypeOK /\ Past /\ Linked /\ NeverOlderThanStamped

LEMMA CurrentNat == TypeOK => Current \in Nat \ {0}
<1>. SUFFICES ASSUME TypeOK PROVE Current \in Nat \ {0}
  OBVIOUS
<1>1. Len(history) \in Nat
  BY LenProperties DEF TypeOK
<1>. QED
  BY <1>1 DEF TypeOK, Current

(* A table resolves to a route of its own or to none.                      *)
LEMMA ResolveType ==
    ASSUME NEW table, NEW target, NEW i \in Resolve(table, target)
    PROVE  i \in RouteIds \union {NoRoute}
BY DEF Resolve, Matching, Active, Present

LEMMA InitIInv == Init => IInv
<1>. SUFFICES ASSUME Init PROVE IInv
  OBVIOUS
<1>1. PICK table \in [RouteIds -> [def : {Created(body) : body \in Creates},
                                   updatedAt : {0}] \union {Absent}] :
          history = <<[table |-> table, at |-> 0, by |-> NotYet]>>
  BY DEF Init
<1>2. table \in Tables
  <2>1. {Created(body) : body \in Creates} \subseteq Definitions
    BY RouteCacheAssumption
  <2>. QED
    BY <1>1, <2>1 DEF Tables, Documents
<1>3. /\ history \in Seq(Versions)
      /\ Len(history) = 1 /\ history[1].at = 0
  BY <1>1, <1>2 DEF Versions
<1>4. Current = 1
  BY <1>3 DEF Current
<1>5. TypeOK
  BY <1>3, <1>4, RouteCacheAssumption DEF Init, TypeOK
<1>6. Past /\ Linked /\ NeverOlderThanStamped
  BY <1>3, <1>4, RouteCacheAssumption DEF Init, Past, Linked, NeverOlderThanStamped
<1>. QED
  BY <1>5, <1>6 DEF IInv

LEMMA HitIInv ==
    ASSUME IInv, NEW r \in Requests, Hit(r)
    PROVE  IInv'
<1>. USE DEF IInv
<1>1. PICK target \in Targets, i \in RouteIds \union {NoRoute} :
          /\ phase[r] = "idle"
          /\ arrival' = [arrival EXCEPT ![r] = [target |-> target, at |-> now]]
          /\ answer' = [answer EXCEPT ![r] = i]
          /\ phase' = [phase EXCEPT ![r] = "done"]
          /\ fetched' = [fetched EXCEPT ![r] = 0]
  BY ResolveType DEF Hit, Ask, Answer
<1>2. UNCHANGED <<now, history, cache, loadedAt, operation, acked, failures>>
  BY DEF Hit
<1>3. Current' = Current /\ Current \in Nat
  BY <1>2, CurrentNat DEF Current
<1>4. [target |-> target, at |-> now] \in Arrivals
  BY DEF TypeOK, Arrivals
<1>5. TypeOK'
  BY <1>1, <1>2, <1>3, <1>4 DEF TypeOK
<1>6. Past'
  BY <1>1, <1>2, <1>3 DEF TypeOK, Past
<1>7. Linked'
  BY <1>1, <1>4, RouteCacheAssumption DEF TypeOK, Linked, Arrivals
<1>8. NeverOlderThanStamped'
  BY <1>1, <1>2, <1>3 DEF TypeOK, NeverOlderThanStamped, CurrentAt
<1>. QED
  BY <1>5, <1>6, <1>7, <1>8

LEMMA MissIInv ==
    ASSUME IInv, NEW r \in Requests, Miss(r)
    PROVE  IInv'
<1>. USE DEF IInv
<1>1. PICK target \in Targets :
          /\ phase[r] = "idle"
          /\ arrival' = [arrival EXCEPT ![r] = [target |-> target, at |-> now]]
          /\ phase' = [phase EXCEPT ![r] = "fetching"]
  BY DEF Miss, Ask
<1>2. UNCHANGED <<now, history, cache, loadedAt, fetched, answer, operation,
                  acked, failures>>
  BY DEF Miss
<1>3. Current' = Current /\ Current \in Nat
  BY <1>2, CurrentNat DEF Current
<1>4. [target |-> target, at |-> now] \in Arrivals
  BY DEF TypeOK, Arrivals
<1>5. TypeOK'
  BY <1>1, <1>2, <1>3, <1>4 DEF TypeOK
<1>6. Past'
  BY <1>1, <1>2, <1>3 DEF TypeOK, Past
<1>7. Linked'
  BY <1>1, <1>2, <1>4, RouteCacheAssumption DEF TypeOK, Linked, Arrivals
<1>8. NeverOlderThanStamped'
  BY <1>1, <1>2, <1>3 DEF TypeOK, NeverOlderThanStamped, CurrentAt
<1>. QED
  BY <1>5, <1>6, <1>7, <1>8

(* What the find returns is current now, hence later than the arrival.     *)
LEMMA FindIInv ==
    ASSUME IInv, NEW r \in Requests, Find(r)
    PROVE  IInv'
<1>. USE DEF IInv
<1>1. /\ phase[r] = "fetching"
      /\ fetched' = [fetched EXCEPT ![r] = Current]
      /\ phase' = [phase EXCEPT ![r] = "compiling"]
      /\ UNCHANGED <<now, history, cache, loadedAt, arrival, answer, operation,
                     acked, failures>>
  BY DEF Find
<1>2. Current' = Current /\ Current \in Nat \ {0}
  BY <1>1, CurrentNat DEF Current
<1>3. TypeOK'
  BY <1>1, <1>2 DEF TypeOK
<1>4. Past'
  BY <1>1, <1>2 DEF Past
<1>5. Linked'
  BY <1>1, <1>2 DEF TypeOK, Linked
<1>6. NeverOlderThanStamped'
  BY <1>1, <1>2 DEF TypeOK, NeverOlderThanStamped, CurrentAt
<1>. QED
  BY <1>3, <1>4, <1>5, <1>6

(* The table kept is the one fetched, stamped with the arrival.            *)
LEMMA FillIInv ==
    ASSUME IInv, NEW r \in Requests, Fill(r)
    PROVE  IInv'
<1>. USE DEF IInv
<1>. DEFINE g == GatewayOf[r]
<1>1. PICK i \in RouteIds \union {NoRoute} :
          /\ phase[r] = "compiling"
          /\ answer' = [answer EXCEPT ![r] = i]
          /\ phase' = [phase EXCEPT ![r] = "done"]
          /\ fetched' = [fetched EXCEPT ![r] = 0]
  BY ResolveType DEF Fill, Answer
<1>2. /\ cache' = [cache EXCEPT ![g] = fetched[r]]
      /\ loadedAt' = [loadedAt EXCEPT ![g] = arrival[r].at]
      /\ UNCHANGED <<now, history, arrival, operation, acked, failures>>
  BY DEF Fill, Keep
<1>3. Current' = Current /\ Current \in Nat
  BY <1>2, CurrentNat DEF Current
<1>4. arrival[r] # NotYet /\ arrival[r] \in Arrivals
  BY <1>1 DEF TypeOK, Linked
<1>5. g \in Gateways
  BY RouteCacheAssumption
<1>6. TypeOK'
  <2>1. fetched[r] \in 0..Current /\ arrival[r].at \in Nat
    BY <1>4 DEF TypeOK, Arrivals
  <2>2. /\ cache' \in [Gateways -> 0..Current]
        /\ loadedAt' \in [Gateways -> Nat]
    BY <1>2, <2>1 DEF TypeOK
  <2>3. /\ answer' \in [Requests -> RouteIds \union {NoRoute, Refused, NotYet}]
        /\ phase' \in [Requests -> {"idle", "fetching", "compiling", "done"}]
        /\ fetched' \in [Requests -> 0..Current]
    BY <1>1, <1>3 DEF TypeOK
  <2>. QED
    BY <1>2, <1>3, <2>2, <2>3 DEF TypeOK
<1>7. Past'
  <2>. HIDE DEF g
  <2>. QED
    BY <1>1, <1>2, <1>3, <1>4, <1>5 DEF TypeOK, Past
<1>8. Linked'
  BY <1>1, <1>2, RouteCacheAssumption DEF TypeOK, Linked
<1>9. NeverOlderThanStamped'
  <2>1. CurrentAt(fetched[r], arrival[r].at)
    BY <1>1 DEF NeverOlderThanStamped
  <2>. HIDE DEF g
  <2>. QED
    BY <1>1, <1>2, <1>3, <1>5, <2>1 DEF TypeOK, NeverOlderThanStamped, CurrentAt
<1>. QED
  BY <1>6, <1>7, <1>8, <1>9

(* A fetch that fails, at the find or at a pattern, leaves the cache alone. *)
LEMMA RefusalIInv ==
    ASSUME IInv, NEW r \in Requests, Reject(r) \/ FindFails(r)
    PROVE  IInv'
<1>. USE DEF IInv
<1>1. /\ phase[r] \in {"fetching", "compiling"}
      /\ answer' = [answer EXCEPT ![r] = Refused]
      /\ phase' = [phase EXCEPT ![r] = "done"]
      /\ fetched' = [fetched EXCEPT ![r] = 0]
      /\ UNCHANGED <<now, history, cache, loadedAt, arrival, operation, acked>>
  BY DEF Reject, FindFails, Answer
<1>2. failures' \in 0..MaxFailures
  BY RouteCacheAssumption DEF TypeOK, Reject, FindFails
<1>3. Current' = Current /\ Current \in Nat
  BY <1>1, CurrentNat DEF Current
<1>4. TypeOK'
  BY <1>1, <1>2, <1>3 DEF TypeOK
<1>5. Past'
  BY <1>1, <1>3 DEF Past
<1>6. Linked'
  BY <1>1, RouteCacheAssumption DEF TypeOK, Linked
<1>7. NeverOlderThanStamped'
  BY <1>1, <1>3 DEF TypeOK, NeverOlderThanStamped, CurrentAt
<1>. QED
  BY <1>4, <1>5, <1>6, <1>7

(* The steps of an admin operation that leave tables and caches alone.     *)
LEMMA BookkeepingIInv ==
    ASSUME IInv, NEW a \in Admins, Issue(a) \/ NotFound(a) \/ AdminFails(a)
    PROVE  IInv'
<1>. USE DEF IInv
<1>1. UNCHANGED <<now, history, cache, loadedAt, arrival, phase, fetched,
                  answer, acked>>
  BY DEF Issue, NotFound, AdminFails
<1>2. failures' \in 0..MaxFailures
  BY RouteCacheAssumption DEF TypeOK, Issue, NotFound, AdminFails
<1>3. operation' \in [Admins -> Operations \union {NotYet}]
  <2>1. CASE Issue(a)
    <3>1. PICK does \in Saves \union Deletes :
              operation' = [operation EXCEPT ![a] =
                               [does |-> does, at |-> now, applied |-> 0]]
      BY <2>1 DEF Issue
    <3>2. [does |-> does, at |-> now, applied |-> 0] \in Operations
      BY DEF TypeOK, Operations
    <3>. QED
      BY <3>1, <3>2 DEF TypeOK
  <2>2. CASE NotFound(a) \/ AdminFails(a)
    BY <2>2 DEF TypeOK, NotFound, AdminFails
  <2>. QED
    BY <2>1, <2>2
<1>4. Current' = Current
  BY <1>1 DEF Current
<1>5. TypeOK'
  BY <1>1, <1>2, <1>3, <1>4 DEF TypeOK
<1>6. Linked' /\ NeverOlderThanStamped'
  BY <1>1, <1>4 DEF Linked, NeverOlderThanStamped, CurrentAt
<1>7. Past'
  <2>1. \A b \in Admins \ {a} : operation'[b] = operation[b]
    BY DEF TypeOK, Issue, NotFound, AdminFails
  <2>2. operation'[a] # NotYet => operation'[a].applied = 0
    BY DEF TypeOK, Issue, NotFound, AdminFails
  <2>3. Current \in Nat
    BY CurrentNat
  <2>. QED
    BY <1>1, <1>4, <2>1, <2>2, <2>3 DEF Past
<1>. QED
  BY <1>5, <1>6, <1>7

(* The table an applied operation leaves is a table.                       *)
LEMMA EffectType ==
    ASSUME TypeOK, NEW op \in Operations, Applicable(op.does)
    PROVE  Effect(op) \in Tables
<1>1. Table(Current) \in Tables
  <2>1. Current \in 1..Len(history)
    BY CurrentNat DEF Current
  <2>2. history[Current] \in Versions
    BY <2>1, ElementOfSeq DEF TypeOK
  <2>. QED
    BY <2>2 DEF Table, Versions
<1>2. op.does \in Saves \union Deletes /\ op.at \in Nat
  BY DEF Operations
<1>3. CASE op.does.kind = "delete"
  BY <1>1, <1>3 DEF Effect, Tables
<1>4. CASE op.does.kind = "create"
  <2>1. op.does.body \in Creates
    BY <1>2, <1>4 DEF Saves, Deletes
  <2>2. [def |-> Created(op.does.body), updatedAt |-> op.at] \in Documents
    BY <1>2, <2>1, RouteCacheAssumption DEF Documents
  <2>. QED
    BY <1>1, <1>4, <2>2 DEF Effect, Tables
<1>5. CASE op.does.kind = "update"
  <2>. DEFINE found == Table(Current)[op.does.id]
  <2>1. op.does.body \in Patches /\ op.does.id \in RouteIds
    BY <1>2, <1>5 DEF Saves, Deletes
  <2>2. found \in Documents
    BY <1>1, <1>5, <2>1 DEF Applicable, Present, Tables
  <2>3. [def |-> Patched(found.def, op.does.body), updatedAt |-> op.at] \in Documents
    BY <1>2, <2>1, <2>2, RouteCacheAssumption DEF Documents
  <2>4. Effect(op) =
            [Table(Current) EXCEPT ![op.does.id] =
                [def |-> Patched(found.def, op.does.body), updatedAt |-> op.at]]
    BY <1>5 DEF Effect
  <2>. QED
    BY <1>1, <2>3, <2>4 DEF Tables
<1>. QED
  BY <1>2, <1>3, <1>4, <1>5 DEF Saves, Deletes

(* A write appends a table stamped now, at or after everything recorded:   *)
(* what was current stays "current at" every time recorded for it.         *)
LEMMA ApplyIInv ==
    ASSUME IInv, NEW a \in Admins, Apply(a)
    PROVE  IInv'
<1>. USE DEF IInv
<1>. DEFINE entry == [table |-> Effect(operation[a]), at |-> now,
                      by |-> operation[a].does]
<1>1. /\ operation[a] \in Operations
      /\ Applicable(operation[a].does)
      /\ history' = Append(history, entry)
      /\ operation' = [operation EXCEPT ![a].applied = Current + 1]
      /\ UNCHANGED <<now, cache, loadedAt, arrival, phase, fetched, answer,
                     acked, failures>>
  BY DEF TypeOK, Apply, Written
<1>2. Current \in Nat \ {0}
  BY CurrentNat
<1>3. entry \in Versions
  <2>1. operation[a].does \in Saves \union Deletes
    BY <1>1 DEF Operations
  <2>2. now \in Nat
    BY RouteCacheAssumption DEF TypeOK
  <2>3. Effect(operation[a]) \in Tables
    BY <1>1, EffectType
  <2>. QED
    BY <2>1, <2>2, <2>3 DEF Versions
<1>4. /\ history' \in Seq(Versions)
      /\ Current' = Current + 1
      /\ \A v \in 1..Current : history'[v] = history[v]
      /\ history'[Current + 1] = entry
  <2>. HIDE DEF entry
  <2>1. history \in Seq(Versions)
    BY DEF TypeOK
  <2>. QED
    BY <1>1, <1>3, <2>1, AppendProperties DEF Current
<1>5. history'[Current + 1].at = now
  BY <1>4
<1>6. TypeOK'
  <2>1. [operation[a] EXCEPT !.applied = Current + 1] \in Operations
    BY <1>1, <1>2 DEF Operations
  <2>2. operation' \in [Admins -> Operations \union {NotYet}]
    BY <1>1, <2>1 DEF TypeOK
  <2>. HIDE DEF entry
  <2>. QED
    BY <1>1, <1>2, <1>4, <2>2 DEF TypeOK
<1>7. Past'
  <2>. HIDE DEF entry
  <2>1. \A v \in 1..(Current + 1) : history'[v].at <= now
    <3>1. TAKE v \in 1..(Current + 1)
    <3>2. CASE v = Current + 1
      BY <1>5, <3>2 DEF TypeOK
    <3>3. CASE v \in 1..Current
      BY <1>4, <3>3 DEF Past
    <3>. QED
      BY <1>2, <3>1, <3>2, <3>3
  <2>2. \A b \in Admins : operation'[b] # NotYet => operation'[b].applied <= Current + 1
    <3>1. \A b \in Admins : operation[b] # NotYet => operation[b].applied \in Nat
      BY DEF TypeOK, Operations
    <3>2. operation'[a].applied = Current + 1
      BY <1>1 DEF TypeOK, Operations
    <3>3. \A b \in Admins \ {a} : operation'[b] = operation[b]
      BY <1>1 DEF TypeOK
    <3>. QED
      BY <1>2, <3>1, <3>2, <3>3 DEF Past
  <2>. QED
    BY <1>1, <1>4, <2>1, <2>2 DEF Past
<1>8. Linked'
  BY <1>1 DEF Linked
<1>9. ASSUME NEW v \in 1..Current, NEW t \in Nat, t <= now, CurrentAt(v, t)
      PROVE  CurrentAt(v, t)'
  <2>. HIDE DEF entry
  <2>1. CASE v = Current
    BY <1>1, <1>2, <1>5, <1>9, <2>1 DEF CurrentAt
  <2>2. CASE v # Current
    BY <1>2, <1>4, <1>9, <2>2 DEF CurrentAt
  <2>. QED
    BY <2>1, <2>2
<1>10. NeverOlderThanStamped'
  <2>1. ASSUME NEW g \in Gateways, cache[g] # 0
        PROVE  CurrentAt(cache[g], loadedAt[g])'
    <3>1. /\ cache[g] \in 1..Current
          /\ loadedAt[g] \in Nat /\ loadedAt[g] <= now
      BY <1>2, <2>1 DEF TypeOK, Past
    <3>2. CurrentAt(cache[g], loadedAt[g])
      BY <2>1 DEF NeverOlderThanStamped
    <3>3. \A v \in 1..Current, t \in Nat :
              t <= now /\ CurrentAt(v, t) => CurrentAt(v, t)'
      BY <1>9
    <3>. QED
      BY <1>1, <3>1, <3>2, <3>3 DEF CurrentAt
  <2>2. ASSUME NEW r \in Requests, phase[r] = "compiling"
        PROVE  CurrentAt(fetched[r], arrival[r].at)'
    <3>1. arrival[r] \in Arrivals /\ arrival[r].at <= now /\ fetched[r] \in 1..Current
      BY <1>2, <2>2 DEF TypeOK, Past, Linked
    <3>. QED
      BY <1>1, <1>9, <2>2, <3>1 DEF Arrivals, NeverOlderThanStamped
  <2>. QED
    BY <1>1, <2>1, <2>2 DEF NeverOlderThanStamped
<1>. QED
  BY <1>6, <1>7, <1>8, <1>10

LEMMA AcknowledgeIInv ==
    ASSUME IInv, NEW a \in Admins, Acknowledge(a)
    PROVE  IInv'
<1>. USE DEF IInv
<1>. DEFINE g == GatewayOf[a]
<1>1. /\ cache' = [cache EXCEPT ![g] = 0]
      /\ loadedAt' = [loadedAt EXCEPT ![g] = 0]
      /\ operation' = [operation EXCEPT ![a] = NotYet]
      /\ UNCHANGED <<now, history, arrival, phase, fetched, answer, failures>>
  BY DEF Acknowledge, Invalidate
<1>2. g \in Gateways
  BY RouteCacheAssumption
<1>3. Current' = Current /\ Current \in Nat
  BY <1>1, CurrentNat DEF Current
<1>4. now \in Nat
  BY RouteCacheAssumption DEF TypeOK
<1>5. acked' \in [Gateways -> 0..Current]
  <2>1. operation[a].applied \in 0..Current
    BY <1>3 DEF Acknowledge, TypeOK, Past, Operations
  <2>. QED
    BY <1>2, <2>1 DEF Acknowledge, TypeOK
<1>. HIDE DEF g
<1>6. TypeOK'
  <2>1. cache' \in [Gateways -> 0..Current] /\ loadedAt' \in [Gateways -> Nat]
    <3>1. 0 \in 0..Current /\ 0 \in Nat
      BY <1>3
    <3>. QED
      BY <1>1, <3>1 DEF TypeOK
  <2>2. operation' \in [Admins -> Operations \union {NotYet}]
    BY <1>1 DEF TypeOK
  <2>. QED
    BY <1>1, <1>3, <1>5, <2>1, <2>2 DEF TypeOK
<1>7. Past'
  <2>1. \A b \in Admins : operation'[b] # NotYet => operation'[b] = operation[b]
    BY <1>1 DEF TypeOK
  <2>2. \A h \in Gateways : loadedAt'[h] <= now
    BY <1>1, <1>2, <1>4 DEF TypeOK, Past
  <2>. QED
    BY <1>1, <1>3, <2>1, <2>2 DEF Past
<1>8. Linked'
  BY <1>1 DEF Linked
<1>9. NeverOlderThanStamped'
  BY <1>1, <1>2, <1>3 DEF TypeOK, NeverOlderThanStamped, CurrentAt
<1>. QED
  BY <1>6, <1>7, <1>8, <1>9

LEMMA TickIInv == IInv /\ Tick => IInv'
<1>. SUFFICES ASSUME IInv, Tick PROVE IInv'
  OBVIOUS
<1>. USE DEF IInv
<1>1. /\ now' = now + 1 /\ now' \in 0..MaxTime /\ now \in Nat
      /\ UNCHANGED <<history, cache, loadedAt, arrival, phase, fetched, answer,
                     operation, acked, failures>>
  BY RouteCacheAssumption DEF TypeOK, Tick
<1>2. Current' = Current /\ Current \in Nat
  BY <1>1, CurrentNat DEF Current
<1>3. TypeOK'
  BY <1>1, <1>2 DEF TypeOK
<1>4. Past'
  <2>1. \A v \in 1..Current : history[v].at \in Nat
    <3>1. TAKE v \in 1..Current
    <3>2. history[v] \in Versions
      BY <3>1, ElementOfSeq DEF TypeOK, Current
    <3>. QED
      BY <3>2 DEF Versions
  <2>2. \A g \in Gateways : loadedAt[g] \in Nat
    BY DEF TypeOK
  <2>3. \A r \in Requests : arrival[r] # NotYet => arrival[r].at \in Nat
    BY DEF TypeOK, Arrivals
  <2>. QED
    BY <1>1, <1>2, <2>1, <2>2, <2>3 DEF Past
<1>5. Linked' /\ NeverOlderThanStamped'
  BY <1>1, <1>2 DEF Linked, NeverOlderThanStamped, CurrentAt
<1>. QED
  BY <1>3, <1>4, <1>5

LEMMA StutterIInv == IInv /\ UNCHANGED vars => IInv'
<1>. SUFFICES ASSUME IInv, UNCHANGED vars PROVE IInv'
  OBVIOUS
<1>1. Current' = Current
  BY DEF vars, Current
<1>2. TypeOK'
  BY <1>1 DEF IInv, TypeOK, vars
<1>3. Past' /\ Linked' /\ NeverOlderThanStamped'
  BY <1>1 DEF IInv, vars, Past, Linked, NeverOlderThanStamped, CurrentAt
<1>. QED
  BY <1>2, <1>3 DEF IInv

(* IInv holds in every reachable state.                                    *)
THEOREM Invariance == Spec => []IInv
<1>1. IInv /\ [Next]_vars => IInv'
  <2>. SUFFICES ASSUME IInv, [Next]_vars PROVE IInv'
    OBVIOUS
  <2>1. CASE Tick
    BY <2>1, TickIInv
  <2>2. ASSUME NEW r \in Requests, Hit(r) \/ Miss(r) \/ FetchStep(r)
        PROVE  IInv'
    BY <2>2, HitIInv, MissIInv, FindIInv, FillIInv, RefusalIInv DEF FetchStep
  <2>3. ASSUME NEW a \in Admins,
               Issue(a) \/ Apply(a) \/ Acknowledge(a) \/ NotFound(a) \/ AdminFails(a)
        PROVE  IInv'
    BY <2>3, BookkeepingIInv, ApplyIInv, AcknowledgeIInv
  <2>4. CASE UNCHANGED vars
    BY <2>4, StutterIInv
  <2>. QED
    BY <2>1, <2>2, <2>3, <2>4 DEF Next
<1>. QED
  BY <1>1, InitIInv, PTL DEF Spec

(* Every variable keeps its type.                                          *)
THEOREM TypeCorrect == Spec => []TypeOK
<1>1. IInv => TypeOK
  BY DEF IInv
<1>. QED
  BY <1>1, Invariance, PTL

(* Whatever overtakes a fetch, a cached table was current at the time its  *)
(* `loadedAt` says.                                                        *)
THEOREM StampsHonest == Spec => []NeverOlderThanStamped
<1>1. IInv => NeverOlderThanStamped
  BY DEF IInv
<1>. QED
  BY <1>1, Invariance, PTL

(* A table that was current at t was current after every time before t.    *)
LEMMA CurrentAfterwards ==
    ASSUME TypeOK, NEW v \in 1..Current, NEW t \in Nat, NEW u \in Int, u < t,
           CurrentAt(v, t)
    PROVE  Abstract!CurrentAfter(v, u)
<1>1. CASE v = Current
  BY <1>1 DEF Abstract!CurrentAfter, Current
<1>2. CASE v # Current
  <2>1. v + 1 \in 1..Len(history)
    BY <1>2, CurrentNat DEF Current
  <2>2. history[v + 1] \in Versions
    BY <2>1, ElementOfSeq DEF TypeOK
  <2>3. history[v + 1].at \in Nat /\ history[v + 1].at >= t
    BY <1>2, <2>2 DEF CurrentAt, Versions
  <2>. QED
    BY <2>3 DEF Abstract!CurrentAfter
<1>. QED
  BY <1>1, <1>2

(* The abstract specification resolves as the cache does.                  *)
LEMMA SameResolve ==
    ASSUME NEW table, NEW target
    PROVE  Abstract!Resolve(table, target) = Resolve(table, target)
BY DEF Abstract!Resolve, Abstract!Matching, Abstract!Active, Abstract!Present,
       Abstract!Precedes, Resolve, Matching, Active, Present, Precedes

(* Resolving with a table that was current late enough is an answer the    *)
(* abstract specification allows.                                          *)
LEMMA RecentAnswers ==
    ASSUME TypeOK, NEW v \in 1..Current, NEW target, NEW at \in Nat,
           NEW t \in Nat, t > at - TTL, CurrentAt(v, t),
           NEW i \in Resolve(Table(v), target)
    PROVE  i \in Abstract!Answers(target, at)
<1>1. at - TTL \in Int /\ at - TTL < t
  BY RouteCacheAssumption
<1>2. Abstract!CurrentAfter(v, at - TTL)
  BY <1>1, CurrentAfterwards
<1>3. i \in Abstract!Resolve(history[v].table, target)
  BY SameResolve DEF Table
<1>4. v \in {w \in 1..Len(history) : Abstract!CurrentAfter(w, at - TTL)}
  BY <1>2 DEF Current
<1>. QED
  BY <1>3, <1>4 DEF Abstract!Answers

(* The cache implements the safety part of BoundedStaleness: no request is *)
(* routed by a table that was replaced TTL or longer before it arrived.    *)
THEOREM StalenessBounded == Spec => Abstract!Safety
<1>1. Init => Abstract!Init
  BY DEF Init, Abstract!Init
<1>2. IInv /\ [Next]_vars => [Abstract!Next]_(Abstract!vars)
  <2>. SUFFICES ASSUME IInv, [Next]_vars
                PROVE  [Abstract!Next]_(Abstract!vars)
    OBVIOUS
  <2>. USE DEF IInv
  <2>1. CASE Tick
    BY <2>1 DEF Tick, Abstract!Next, Abstract!Advance
  <2>2. ASSUME NEW r \in Requests, Hit(r)
        PROVE  Abstract!ReplyAtOnce(r)
    <3>. DEFINE g == GatewayOf[r]
    <3>0. PICK target \in Targets :
              /\ Ask(r, target)
              /\ \E i \in Resolve(Table(cache[g]), target) : Answer(r, i)
      BY <2>2 DEF Hit
    <3>1. PICK i \in Resolve(Table(cache[g]), target) :
              Ask(r, target) /\ Answer(r, i)
      BY <3>0
    <3>2. /\ g \in Gateways
          /\ cache[g] \in 1..Current /\ loadedAt[g] \in Nat
          /\ now \in Nat /\ loadedAt[g] > now - TTL
      <4>1. g \in Gateways /\ cache[g] # 0 /\ now - loadedAt[g] < TTL
        BY <2>2, RouteCacheAssumption DEF Hit, Fresh
      <4>2. cache[g] \in 0..Current /\ loadedAt[g] \in Nat /\ now \in Nat
        BY <4>1, RouteCacheAssumption DEF TypeOK
      <4>3. Current \in Nat /\ TTL \in Nat
        BY CurrentNat, RouteCacheAssumption
      <4>. HIDE DEF g
      <4>. QED
        BY <4>1, <4>2, <4>3
    <3>3. CurrentAt(cache[g], loadedAt[g])
      BY <3>2 DEF NeverOlderThanStamped
    <3>4. i \in Abstract!Answers(target, now)
      <4>. HIDE DEF g
      <4>. QED
        BY <3>1, <3>2, <3>3, RecentAnswers
    <3>5. arrival[r] = NotYet /\ answer[r] = NotYet
      BY <3>1 DEF Ask, Linked
    <3>6. arrival' = [arrival EXCEPT ![r] = [target |-> target, at |-> now]]
      BY <3>1 DEF Ask
    <3>7. arrival'[r].target = target
      BY <3>6 DEF TypeOK
    <3>8. answer' = [answer EXCEPT ![r] = i]
      BY <3>1 DEF Answer
    <3>9. UNCHANGED <<now, history>>
      BY <2>2 DEF Hit
    <3>. QED
      BY <3>4, <3>5, <3>6, <3>7, <3>8, <3>9
         DEF Abstract!ReplyAtOnce, Abstract!Ask
  <2>3. ASSUME NEW r \in Requests, Miss(r)
        PROVE  Abstract!Arrive(r)
    BY <2>3 DEF Miss, Ask, Linked, Abstract!Arrive, Abstract!Ask
  <2>4. ASSUME NEW r \in Requests, Fill(r)
        PROVE  Abstract!Reply(r)
    <3>1. PICK i \in Resolve(Table(fetched[r]), arrival[r].target) : Answer(r, i)
      BY <2>4 DEF Fill
    <3>2. phase[r] = "compiling" /\ UNCHANGED <<now, history, arrival>>
      BY <2>4 DEF Fill
    <3>3. arrival[r] # NotYet /\ answer[r] = NotYet
      BY <3>2 DEF Linked
    <3>4. arrival[r].at \in Nat /\ fetched[r] \in 1..Current
      BY <3>2, <3>3, CurrentNat DEF TypeOK, Arrivals, Linked
    <3>5. CurrentAt(fetched[r], arrival[r].at)
      BY <3>2 DEF NeverOlderThanStamped
    <3>6. i \in Abstract!Answers(arrival[r].target, arrival[r].at)
      <4>1. arrival[r].at > arrival[r].at - TTL
        BY <3>4, RouteCacheAssumption
      <4>. QED
        BY <3>1, <3>4, <3>5, <4>1, RecentAnswers
    <3>7. answer' = [answer EXCEPT ![r] = i]
      BY <3>1 DEF Answer
    <3>. QED
      BY <3>2, <3>3, <3>6, <3>7 DEF Abstract!Reply
  <2>5. ASSUME NEW r \in Requests, Reject(r) \/ FindFails(r)
        PROVE  Abstract!Reply(r)
    BY <2>5 DEF Reject, FindFails, Answer, Linked, Abstract!Reply, Abstract!Answers
  <2>6. ASSUME NEW r \in Requests, Find(r)
        PROVE  UNCHANGED Abstract!vars
    BY <2>6 DEF Find, Abstract!vars
  <2>7. ASSUME NEW a \in Admins, Apply(a)
        PROVE  Abstract!Write
    <3>. DEFINE entry == [table |-> Effect(operation[a]), at |-> now,
                          by |-> operation[a].does]
    <3>1. /\ operation[a] \in Operations
          /\ Applicable(operation[a].does)
          /\ history' = Append(history, entry)
          /\ UNCHANGED <<now, arrival, answer>>
      BY <2>7 DEF TypeOK, Apply, Written
    <3>2. entry \in Versions /\ entry.at = now
      <4>1. operation[a].does \in Saves \union Deletes
        BY <3>1 DEF Operations
      <4>2. now \in Nat
        BY RouteCacheAssumption DEF TypeOK
      <4>3. Effect(operation[a]) \in Tables
        BY <3>1, EffectType
      <4>. QED
        BY <4>1, <4>2, <4>3 DEF Versions
    <3>. HIDE DEF entry
    <3>3. history \in Seq(Versions)
      BY DEF TypeOK
    <3>4. /\ Len(history') = Len(history) + 1
          /\ \A v \in 1..Len(history) : history'[v] = history[v]
          /\ history'[Len(history')] = entry
      BY <3>1, <3>2, <3>3, AppendProperties
    <3>. QED
      BY <3>1, <3>2, <3>4 DEF Abstract!Write
  <2>8. ASSUME NEW a \in Admins,
               Issue(a) \/ Acknowledge(a) \/ NotFound(a) \/ AdminFails(a)
        PROVE  UNCHANGED Abstract!vars
    BY <2>8 DEF Issue, Acknowledge, NotFound, AdminFails, Abstract!vars
  <2>9. CASE UNCHANGED vars
    BY <2>9 DEF vars, Abstract!vars
  <2>. QED
    BY <2>1, <2>2, <2>3, <2>4, <2>5, <2>6, <2>7, <2>8, <2>9
       DEF Next, FetchStep, Abstract!Next
<1>. QED
  BY <1>1, <1>2, Invariance, PTL DEF Spec, Abstract!Safety
-----------------------------------------------------------------------------
(* The history only grows, by tables stamped now; what was current at some *)
(* time in the past still was.                                             *)
LEMMA HistoryGrows ==
    ASSUME IInv, [Next]_vars
    PROVE  /\ Current' \in {Current, Current + 1}
           /\ \A v \in 1..Current : v \in 1..Current' /\ history'[v] = history[v]
           /\ \A v \in 1..Current, t \in Int :
                 t <= now /\ CurrentAt(v, t) => CurrentAt(v, t)'
<1>. USE DEF IInv
<1>0. Current \in Nat \ {0} /\ now \in Nat
  BY CurrentNat, RouteCacheAssumption DEF TypeOK
<1>1. ASSUME NEW a \in Admins, Apply(a)
      PROVE  /\ Current' = Current + 1
             /\ \A v \in 1..Current : history'[v] = history[v]
             /\ history'[Current + 1].at = now
  <2>1. PICK entry : entry = [table |-> Effect(operation[a]), at |-> now,
                              by |-> operation[a].does]
    OBVIOUS
  <2>2. /\ operation[a] \in Operations /\ Applicable(operation[a].does)
        /\ history' = Append(history, entry)
    BY <1>1, <2>1 DEF TypeOK, Apply, Written
  <2>3. entry \in Versions /\ entry.at = now
    <3>1. operation[a].does \in Saves \union Deletes
      BY <2>2 DEF Operations
    <3>2. Effect(operation[a]) \in Tables
      BY <2>2, EffectType
    <3>. QED
      BY <1>0, <2>1, <3>1, <3>2 DEF Versions
  <2>4. history \in Seq(Versions)
    BY DEF TypeOK
  <2>. QED
    BY <2>2, <2>3, <2>4, AppendProperties DEF Current
<1>2. CASE \E a \in Admins : Apply(a)
  <2>1. /\ Current' = Current + 1
        /\ \A v \in 1..Current : history'[v] = history[v]
        /\ history'[Current + 1].at = now
    BY <1>1, <1>2
  <2>2. PICK n \in Nat : n = Current /\ n # 0
    BY <1>0
  <2>3. ASSUME NEW v \in 1..n, NEW t \in Int, t <= now, CurrentAt(v, t)
        PROVE  CurrentAt(v, t)'
    <3>1. CASE v = n
      BY <1>0, <2>1, <2>2, <2>3, <3>1 DEF CurrentAt
    <3>2. CASE v # n
      <4>1. v + 1 \in 1..n
        BY <2>2, <3>2
      <4>. QED
        BY <2>1, <2>2, <2>3, <3>2, <4>1 DEF CurrentAt
    <3>. QED
      BY <3>1, <3>2
  <2>. QED
    BY <2>1, <2>2, <2>3
<1>3. CASE ~\E a \in Admins : Apply(a)
  <2>1. history' = history
    BY <1>3 DEF Next, FetchStep, Tick, Hit, Miss, Find, Fill, Reject, FindFails, Issue,
       Acknowledge, NotFound, AdminFails, vars
  <2>. QED
    BY <2>1 DEF Current, CurrentAt
<1>. QED
  BY <1>2, <1>3

(* A step either leaves a request's answer alone or is what answers it.    *)
LEMMA AnswerStep ==
    ASSUME IInv, [Next]_vars, NEW r \in Requests
    PROVE  \/ /\ answer'[r] = answer[r]
              /\ answer[r] # NotYet => arrival'[r] = arrival[r]
           \/ Hit(r) \/ Fill(r) \/ Reject(r) \/ FindFails(r)
<1>. USE DEF IInv
<1>1. ASSUME NEW q \in Requests, q # r,
             Hit(q) \/ Miss(q) \/ Fill(q) \/ Reject(q) \/ FindFails(q)
      PROVE  answer'[r] = answer[r] /\ arrival'[r] = arrival[r]
  BY <1>1 DEF Hit, Miss, Ask, Fill, Reject, FindFails, Answer, TypeOK
<1>2. ASSUME Miss(r)
      PROVE  answer'[r] = answer[r] /\ answer[r] = NotYet
  BY <1>2 DEF Miss, Ask, Linked
<1>3. ASSUME Tick \/ (\E q \in Requests : Find(q)) \/ UNCHANGED vars
             \/ \E a \in Admins : \/ Issue(a) \/ Apply(a) \/ Acknowledge(a)
                                  \/ NotFound(a) \/ AdminFails(a)
      PROVE  answer'[r] = answer[r] /\ arrival'[r] = arrival[r]
  BY <1>3 DEF Tick, Find, Issue, Apply, Acknowledge, NotFound, AdminFails, vars
<1>. QED
  BY <1>1, <1>2, <1>3 DEF Next, FetchStep

(* The v-th table holds an enabled route whose pattern is rejected.        *)
Refusing(v) ==
    \E i \in Present(Table(v)) :
        Table(v)[i].def.enabled /\ ~Table(v)[i].def.pattern.wellFormed

LEMMA RefusedKept ==
    IInv /\ [Next]_vars /\ RefusedForEnabledOnly => RefusedForEnabledOnly'
<1>. SUFFICES ASSUME IInv, [Next]_vars, RefusedForEnabledOnly, failures' = 0,
                     NEW r \in Requests, answer'[r] = Refused,
                     NEW since, since = arrival'[r].at
              PROVE  \E v \in 1..Current' : CurrentAt(v, since)' /\ Refusing(v)'
  BY DEF RefusedForEnabledOnly, Refusing, CurrentAt
<1>. USE DEF IInv
<1>1. failures = 0
  <2>1. failures' = failures \/ failures' = failures + 1
    BY DEF Next, FetchStep, Tick, Hit, Miss, Find, Fill, Reject, FindFails, Issue, Apply,
       Acknowledge, NotFound, AdminFails, vars
  <2>. QED
    BY <2>1 DEF TypeOK
<1>2. ASSUME NEW v \in 1..Current, since \in Nat, since <= now, CurrentAt(v, since),
             Refusing(v)
      PROVE  \E w \in 1..Current' : CurrentAt(w, since)' /\ Refusing(w)'
  <2>1. v \in 1..Current' /\ history'[v] = history[v] /\ CurrentAt(v, since)'
    BY <1>2, HistoryGrows
  <2>2. Refusing(v)'
    BY <1>2, <2>1 DEF Refusing, Table
  <2>. QED
    BY <2>1, <2>2
<1>3. CASE answer'[r] = answer[r] /\ (answer[r] # NotYet => arrival'[r] = arrival[r])
  <2>1. answer[r] = Refused /\ arrival'[r] = arrival[r]
    BY <1>3, RouteCacheAssumption
  <2>2. PICK v \in 1..Current : CurrentAt(v, arrival[r].at) /\ Refusing(v)
    BY <1>1, <2>1 DEF RefusedForEnabledOnly, Refusing
  <2>3. arrival[r].at \in Nat /\ arrival[r].at <= now
    BY <2>1, RouteCacheAssumption DEF Linked, Past, TypeOK, Arrivals
  <2>. QED
    BY <1>2, <2>1, <2>2, <2>3
<1>4. CASE Reject(r)
  <2>1. phase[r] = "compiling" /\ ~Compilable(Table(fetched[r])) /\ arrival' = arrival
    BY <1>4 DEF Reject
  <2>2. fetched[r] \in 1..Current /\ arrival[r].at \in Nat /\ arrival[r].at <= now
    <3>1. fetched[r] \in 0..Current /\ fetched[r] # 0
      BY <2>1 DEF Linked, TypeOK
    <3>2. arrival[r] # NotYet
      BY <2>1 DEF Linked
    <3>3. arrival[r].at \in Nat /\ arrival[r].at <= now
      BY <3>2 DEF Past, TypeOK, Arrivals
    <3>. QED
      BY <3>1, <3>3, CurrentNat
  <2>3. CurrentAt(fetched[r], arrival[r].at)
    BY <2>1 DEF NeverOlderThanStamped
  <2>4. Refusing(fetched[r])
    BY <2>1 DEF Compilable, Active, Refusing
  <2>5. PICK v \in 1..Current : v = fetched[r]
    BY <2>2
  <2>. QED
    BY <1>2, <2>1, <2>2, <2>3, <2>4, <2>5
<1>5. CASE FindFails(r)
  BY <1>1, <1>5 DEF FindFails
<1>6. CASE Hit(r) \/ Fill(r)
  <2>1. PICK table, target : \E i \in Resolve(table, target) : Answer(r, i)
    BY <1>6 DEF Hit, Fill
  <2>2. PICK i \in Resolve(table, target) : answer'[r] = i
    BY <2>1 DEF Answer, TypeOK
  <2>. QED
    BY <2>2, ResolveType, RouteCacheAssumption
<1>. QED
  BY <1>3, <1>4, <1>5, <1>6, AnswerStep

(* Route i serves the target in the v-th table, and none that does has a   *)
(* higher priority.                                                        *)
Serving(v, target) ==
    {i \in Present(Table(v)) : /\ Table(v)[i].def.enabled
                               /\ target \in Table(v)[i].def.pattern.serves}

Wins(i, v, target) ==
    /\ i \in Serving(v, target)
    /\ \A j \in Serving(v, target) : Table(v)[j].def.priority <= Table(v)[i].def.priority

(* The order of the sort puts the highest priority first.                  *)
LEMMA ResolvedWins ==
    ASSUME TypeOK, NEW v \in 1..Current, NEW target,
           NEW i \in Resolve(Table(v), target), i \in RouteIds
    PROVE  Wins(i, v, target)
<1>1. Table(v) \in Tables
  <2>1. history[v] \in Versions
    BY ElementOfSeq DEF TypeOK, Current
  <2>. QED
    BY <2>1 DEF Table, Versions
<1>2. Serving(v, target) = Matching(Table(v), target)
  BY DEF Serving, Matching, Active
<1>3. /\ i \in Matching(Table(v), target)
      /\ \A j \in Matching(Table(v), target) : ~Precedes(Table(v)[j], Table(v)[i])
  BY RouteTableAssumption DEF Resolve
<1>4. \A j \in Matching(Table(v), target) : Table(v)[j].def.priority \in Nat
  <2>1. \A j \in Matching(Table(v), target) : Table(v)[j] \in Documents
    BY <1>1 DEF Matching, Active, Present, Tables
  <2>. QED
    BY <2>1, RouteTableAssumption DEF Documents
<1>. QED
  BY <1>2, <1>3, <1>4 DEF Wins, Precedes

LEMMA HighestPriorityKept ==
    IInv /\ [Next]_vars /\ HighestPriorityWins => HighestPriorityWins'
<1>. SUFFICES ASSUME IInv, [Next]_vars, HighestPriorityWins,
                     NEW r \in Requests, answer'[r] \in RouteIds,
                     NEW i, i = answer'[r], NEW target, target = arrival'[r].target,
                     NEW since, since = arrival'[r].at - TTL + 1
              PROVE  \E v \in 1..Current' : CurrentAt(v, since)' /\ Wins(i, v, target)'
  BY DEF HighestPriorityWins, Wins, Serving, CurrentAt
<1>. USE DEF IInv
<1>0. TTL \in Nat \ {0} /\ now \in Nat /\ Current \in Nat
  BY CurrentNat, RouteCacheAssumption DEF TypeOK
<1>1. ASSUME NEW v \in 1..Current, since \in Int, since <= now, CurrentAt(v, since),
             Wins(i, v, target)
      PROVE  \E w \in 1..Current' : CurrentAt(w, since)' /\ Wins(i, w, target)'
  <2>1. v \in 1..Current' /\ history'[v] = history[v] /\ CurrentAt(v, since)'
    BY <1>1, HistoryGrows
  <2>2. Wins(i, v, target)'
    BY <1>1, <2>1 DEF Wins, Serving, Table
  <2>. QED
    BY <2>1, <2>2
<1>2. ASSUME NEW v \in 1..Current, NEW t \in Nat, since \in Int, since <= t, t <= now,
             CurrentAt(v, t), i \in Resolve(Table(v), target)
      PROVE  \E w \in 1..Current' : CurrentAt(w, since)' /\ Wins(i, w, target)'
  <2>1. Wins(i, v, target)
    BY <1>2, ResolvedWins
  <2>2. CurrentAt(v, since)
    <3>1. CASE v = Current
      BY <3>1 DEF CurrentAt
    <3>2. CASE v # Current
      <4>1. v + 1 \in 1..Len(history)
        BY <1>0, <3>2 DEF Current
      <4>2. history[v + 1] \in Versions
        BY <4>1, ElementOfSeq DEF TypeOK
      <4>3. history[v + 1].at \in Nat /\ history[v + 1].at >= t
        BY <1>2, <3>2, <4>2 DEF CurrentAt, Versions
      <4>. QED
        BY <1>2, <4>3 DEF CurrentAt
    <3>. QED
      BY <3>1, <3>2
  <2>3. since <= now
    BY <1>0, <1>2
  <2>. QED
    BY <1>1, <1>2, <2>1, <2>2, <2>3
<1>3. CASE answer'[r] = answer[r] /\ (answer[r] # NotYet => arrival'[r] = arrival[r])
  <2>1. answer[r] \in RouteIds /\ answer[r] # NotYet /\ arrival'[r] = arrival[r]
    BY <1>3, RouteCacheAssumption
  <2>2. arrival[r].at \in Nat /\ arrival[r].at <= now
    BY <2>1 DEF Linked, Past, TypeOK, Arrivals
  <2>3. since = arrival[r].at - TTL + 1 /\ since \in Int /\ since <= now
    BY <1>0, <2>1, <2>2
  <2>4. \E v \in 1..Current : CurrentAt(v, since) /\ Wins(i, v, target)
    BY <1>3, <2>1, <2>3 DEF HighestPriorityWins, Wins, Serving
  <2>. QED
    BY <1>1, <2>3, <2>4
<1>4. CASE Hit(r)
  <2>1. PICK g, place : g = GatewayOf[r] /\ place = cache[g]
    OBVIOUS
  <2>2. PICK asked \in Targets :
            /\ Ask(r, asked)
            /\ \E j \in Resolve(Table(place), asked) : Answer(r, j)
    BY <1>4, <2>1 DEF Hit
  <2>3. arrival'[r] = [target |-> asked, at |-> now]
    BY <2>2 DEF Ask, TypeOK
  <2>4. target = asked /\ since = now - TTL + 1
    BY <2>3
  <2>5. i \in Resolve(Table(place), target)
    BY <2>2, <2>4 DEF Answer, TypeOK
  <2>6. g \in Gateways /\ place # 0 /\ now - loadedAt[g] < TTL
    BY <1>4, <2>1, RouteCacheAssumption DEF Hit, Fresh
  <2>7. /\ place \in 1..Current /\ loadedAt[g] \in Nat /\ loadedAt[g] <= now
        /\ CurrentAt(place, loadedAt[g])
    BY <1>0, <2>1, <2>6 DEF TypeOK, Past, NeverOlderThanStamped
  <2>8. since \in Int /\ since <= loadedAt[g]
    BY <1>0, <2>4, <2>6, <2>7
  <2>. QED
    BY <1>2, <2>5, <2>7, <2>8
<1>5. CASE Fill(r)
  <2>1. PICK place : place = fetched[r]
    OBVIOUS
  <2>2. /\ phase[r] = "compiling" /\ arrival' = arrival
        /\ \E j \in Resolve(Table(place), arrival[r].target) : Answer(r, j)
    BY <1>5, <2>1 DEF Fill
  <2>3. i \in Resolve(Table(place), target)
    BY <2>2 DEF Answer, TypeOK
  <2>4. PICK t \in Nat : t = arrival[r].at /\ t <= now
    BY <2>2 DEF Linked, Past, TypeOK, Arrivals
  <2>5. place \in 1..Current /\ CurrentAt(place, t)
    <3>1. place \in 0..Current /\ place # 0
      BY <2>1, <2>2 DEF Linked, TypeOK
    <3>2. CurrentAt(place, t)
      BY <2>1, <2>2, <2>4 DEF NeverOlderThanStamped
    <3>. QED
      BY <1>0, <3>1, <3>2
  <2>6. since \in Int /\ since <= t
    BY <1>0, <2>2, <2>4
  <2>. QED
    BY <1>2, <2>3, <2>4, <2>5, <2>6
<1>6. CASE Reject(r) \/ FindFails(r)
  <2>1. answer'[r] = Refused
    BY <1>6 DEF Reject, FindFails, Answer, TypeOK
  <2>. QED
    BY <2>1, RouteCacheAssumption
<1>. QED
  BY <1>3, <1>4, <1>5, <1>6, AnswerStep

(* As long as MongoDB answers, a request is refused only because of the    *)
(* pattern of a route that was enabled at some time since it arrived.      *)
THEOREM RefusedForCause == Spec => []RefusedForEnabledOnly
<1>1. Init => RefusedForEnabledOnly
  BY RouteCacheAssumption DEF Init, RefusedForEnabledOnly
<1>. QED
  BY <1>1, RefusedKept, Invariance, PTL DEF Spec

(* The route a request is given was, in a table less than TTL old when it  *)
(* arrived, enabled and of the highest priority of those that serve it.    *)
THEOREM BestRoute == Spec => []HighestPriorityWins
<1>1. Init => HighestPriorityWins
  BY RouteCacheAssumption DEF Init, HighestPriorityWins
<1>. QED
  BY <1>1, HighestPriorityKept, Invariance, PTL DEF Spec

(* A patch sets the fields it names to what it says and keeps the others.  *)
LEMMA PatchedField ==
    ASSUME NEW d \in Definitions, NEW body \in Patches, NEW path \in Paths,
           NEW does, does.kind = "update", does.body = body
    PROVE  At(Patched(d, body), path) =
               IF Names(does, path) THEN Says(does, path) ELSE At(d, path)
<1>. DEFINE new == Patched(d, body)
<1>1. /\ {"pattern", "enabled", "priority", "upstream", "plugins", "rateLimit"}
             \subseteq DOMAIN d
      /\ {"target", "timeoutMs"} \subseteq DOMAIN d.upstream
  BY RouteCacheAssumption
<1>2. CASE path \in {<<f>> : f \in {"pattern", "enabled", "priority"}}
  <2>1. PICK f \in {"pattern", "enabled", "priority"} : path = <<f>>
    BY <1>2
  <2>2. new[f] = IF f \in DOMAIN body THEN body[f] ELSE d[f]
    BY <1>1, <2>1 DEF Patched, Normalized
  <2>3. Names(does, path) <=> f \in DOMAIN body
    BY <2>1 DEF Names
  <2>4. f \in DOMAIN body => Says(does, path) = body[f]
    BY <2>1 DEF Says, At
  <2>. QED
    BY <2>1, <2>2, <2>3, <2>4 DEF At
<1>3. CASE path = <<"rateLimit">>
  <2>1. new.rateLimit = IF "rateLimit" \in DOMAIN body
                        THEN IF body.rateLimit = Null THEN NoLimit ELSE body.rateLimit
                        ELSE d.rateLimit
    BY <1>1 DEF Patched, Normalized
  <2>2. Names(does, path) <=> "rateLimit" \in DOMAIN body
    BY <1>3 DEF Names
  <2>3. Says(does, path) = IF body.rateLimit = Null THEN NoLimit ELSE body.rateLimit
    BY <1>3 DEF Says, At
  <2>. QED
    BY <1>3, <2>1, <2>2, <2>3 DEF At
<1>4. CASE path \in {"upstream"} \X {"target", "timeoutMs"}
  <2>1. PICK k \in {"target", "timeoutMs"} : path = <<"upstream", k>>
    BY <1>4
  <2>2. new.upstream[k] = IF "upstream" \in DOMAIN body /\ k \in DOMAIN body.upstream
                          THEN body.upstream[k] ELSE d.upstream[k]
    <3>1. CASE "upstream" \in DOMAIN body /\ DOMAIN body.upstream # {}
      <4>1. new.upstream = [l \in DOMAIN d.upstream |->
                                Given(body.upstream, l, d.upstream[l])]
        BY <1>1, <3>1 DEF Patched, Normalized
      <4>. QED
        BY <1>1, <3>1, <4>1 DEF Given
    <3>2. CASE ~("upstream" \in DOMAIN body /\ DOMAIN body.upstream # {})
      BY <1>1, <3>2 DEF Patched, Normalized
    <3>. QED
      BY <3>1, <3>2
  <2>3. Names(does, path) <=> "upstream" \in DOMAIN body /\ k \in DOMAIN body.upstream
    BY <2>1 DEF Names
  <2>4. Says(does, path) = body.upstream[k]
    BY <2>1 DEF Says, At
  <2>. QED
    BY <2>1, <2>2, <2>3, <2>4 DEF At
<1>5. CASE path \in {"plugins"} \X PluginLists
  <2>1. PICK l \in PluginLists : path = <<"plugins", l>>
    BY <1>5
  <2>2. new.plugins = IF "plugins" \in DOMAIN body THEN AllLists(body.plugins) ELSE d.plugins
    BY <1>1 DEF Patched, Normalized
  <2>3. Names(does, path) <=> "plugins" \in DOMAIN body
    BY <2>1 DEF Names
  <2>4. Says(does, path) = AllLists(body.plugins)[l]
    BY <2>1 DEF Says, AllLists
  <2>. QED
    BY <2>1, <2>2, <2>3, <2>4 DEF At
<1>. QED
  BY <1>2, <1>3, <1>4, <1>5 DEF Paths

(* The writes that say what field `path` of route i shall be, and that the *)
(* last of them had its way.                                               *)
Naming(i, path) ==
    {v \in 2..Current : history[v].by.id = i /\ Names(history[v].by, path)}

Merged(i, path) ==
    LET is == At(Table(Current)[i].def, path) IN
    IF Naming(i, path) = {}
    THEN i \in Present(Table(1)) /\ is = At(Table(1)[i].def, path)
    ELSE \E last \in Naming(i, path) :
             (\A v \in Naming(i, path) : v <= last) /\ is = Says(history[last].by, path)

LEMMA WritesMergeKept ==
    IInv /\ [Next]_vars /\ WritesMerge => WritesMerge'
<1>. SUFFICES ASSUME IInv, [Next]_vars, WritesMerge,
                     NEW i \in Present(Table(Current)'), NEW path \in Paths
              PROVE  Merged(i, path)'
  BY DEF WritesMerge, Merged, Naming
<1>0. ASSUME i \in Present(Table(Current)) PROVE Merged(i, path)
  BY <1>0 DEF WritesMerge, Merged, Naming
<1>1. PICK n \in Nat \ {0} : n = Current
  BY CurrentNat DEF IInv
<1>2. CASE \A a \in Admins : ~Apply(a)
  <2>1. history' = history
    BY <1>2 DEF Next, FetchStep, Tick, Hit, Miss, Find, Fill, Reject, FindFails, Issue,
       Acknowledge, NotFound, AdminFails, vars
  <2>. QED
    BY <1>0, <2>1 DEF Merged, Naming, Table, Current
<1>3. ASSUME NEW a \in Admins, Apply(a)
      PROVE  Merged(i, path)'
  <2>1. PICK op \in Operations : op = operation[a] /\ Applicable(op.does)
    BY <1>3 DEF IInv, TypeOK, Apply
  <2>2. PICK before, after, first :
            /\ before = Table(Current) /\ after = Effect(op) /\ first = Table(1)
    OBVIOUS
  <2>3. before \in Tables /\ after \in Tables
    <3>1. history[Current] \in Versions
      BY <1>1, ElementOfSeq DEF IInv, TypeOK, Current
    <3>. QED
      BY <2>1, <2>2, <3>1, EffectType DEF IInv, Table, Versions
  <2>4. PICK entry : entry = [table |-> after, at |-> now, by |-> op.does]
    OBVIOUS
  <2>5. /\ Current' = n + 1 /\ Table(1)' = first
        /\ \A v \in 1..n : history'[v] = history[v]
        /\ history'[n + 1] = entry
    <3>1. history' = Append(history, entry)
      BY <1>3, <2>1, <2>2, <2>4 DEF Apply, Written
    <3>2. entry \in Versions
      BY <2>1, <2>3, <2>4, RouteCacheAssumption
         DEF IInv, TypeOK, Versions, Operations
    <3>3. history \in Seq(Versions) /\ n = Len(history)
      BY <1>1 DEF IInv, TypeOK, Current
    <3>4. /\ Len(history') = n + 1
          /\ \A v \in 1..n : history'[v] = history[v]
          /\ history'[n + 1] = entry
      BY <3>1, <3>2, <3>3, AppendProperties
    <3>. QED
      BY <1>1, <2>2, <3>4 DEF Current, Table
  <2>6. Table(Current)' = after /\ i \in RouteIds /\ after[i] # Absent
    BY <2>4, <2>5 DEF Table, Present
  <2>7. ASSUME before[i] # Absent, At(after[i].def, path) = At(before[i].def, path),
               op.does.id # i \/ ~Names(op.does, path)
        PROVE  Merged(i, path)'
    <3>1. Naming(i, path)' = Naming(i, path)
      BY <1>1, <2>4, <2>5, <2>7 DEF Naming
    <3>2. Merged(i, path)
      BY <1>0, <2>2, <2>6, <2>7 DEF Present
    <3>3. CASE Naming(i, path) = {}
      BY <2>2, <2>5, <2>6, <2>7, <3>1, <3>2, <3>3 DEF Merged
    <3>4. CASE Naming(i, path) # {}
      <4>1. PICK last \in Naming(i, path) :
                /\ \A v \in Naming(i, path) : v <= last
                /\ At(before[i].def, path) = Says(history[last].by, path)
        BY <2>2, <3>2, <3>4 DEF Merged
      <4>2. last \in 1..n /\ history'[last] = history[last]
        BY <1>1, <2>5, <4>1 DEF Naming
      <4>. QED
        BY <2>6, <2>7, <3>1, <3>4, <4>1, <4>2 DEF Merged
    <3>. QED
      BY <3>3, <3>4
  <2>8. ASSUME op.does.id = i, Names(op.does, path),
               At(after[i].def, path) = Says(op.does, path)
        PROVE  Merged(i, path)'
    <3>1. n + 1 \in Naming(i, path)'
      BY <1>1, <2>4, <2>5, <2>8 DEF Naming
    <3>2. \A v \in Naming(i, path)' : v <= n + 1
      BY <2>5 DEF Naming
    <3>. QED
      BY <2>4, <2>5, <2>6, <2>8, <3>1, <3>2 DEF Merged
  <2>9. CASE op.does.id # i
    <3>1. after[i] = before[i]
      BY <2>2, <2>3, <2>6, <2>9 DEF Effect, Tables
    <3>. QED
      BY <2>6, <2>7, <2>9, <3>1
  <2>10. CASE op.does.id = i /\ op.does.kind = "create"
    <3>1. after[i].def = Created(op.does.body)
      BY <2>2, <2>3, <2>6, <2>10 DEF Effect, Tables
    <3>. QED
      BY <2>8, <2>10, <3>1 DEF Names, Says
  <2>11. CASE op.does.id = i /\ op.does.kind = "delete"
    BY <2>2, <2>3, <2>6, <2>11 DEF Effect, Tables
  <2>12. CASE op.does.id = i /\ op.does.kind = "update"
    <3>1. op.does.body \in Patches
      BY <2>12 DEF Operations, Saves, Deletes
    <3>2. before[i] # Absent
      BY <2>1, <2>2, <2>12 DEF Applicable, Present
    <3>3. before[i].def \in Definitions
      BY <2>3, <2>6, <3>2 DEF Tables, Documents
    <3>4. after[i].def = Patched(before[i].def, op.does.body)
      BY <2>2, <2>3, <2>6, <2>12 DEF Effect, Tables
    <3>5. At(after[i].def, path) =
              IF Names(op.does, path) THEN Says(op.does, path)
              ELSE At(before[i].def, path)
      BY <2>12, <3>1, <3>3, <3>4, PatchedField
    <3>. QED
      BY <2>7, <2>8, <2>12, <3>2, <3>5
  <2>. QED
    BY <2>9, <2>10, <2>11, <2>12 DEF Operations, Saves, Deletes
<1>. QED
  BY <1>2, <1>3

(* Writes merge, however they overlap: each field of a route is what the   *)
(* last write applied that names it says, or else what it was at first.    *)
THEOREM OverlappingWritesMerge == Spec => []WritesMerge
<1>1. Init => WritesMerge
  <2>. SUFFICES ASSUME Init PROVE WritesMerge
    OBVIOUS
  <2>1. Current = 1
    BY DEF Init, Current
  <2>. QED
    BY <2>1 DEF WritesMerge
<1>. QED
  BY <1>1, WritesMergeKept, Invariance, PTL DEF Spec
=============================================================================
