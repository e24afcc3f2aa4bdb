---------------------------- MODULE ServerProofs ----------------------------
(***************************************************************************)
(* Proofs about Server, for every batch size, any plugin files, any number *)
(* of requests, failures and signals.  What the usage log keeps is taken   *)
(* from UsageLogProofs, whose invariant holds here, too, although a signal *)
(* flushes at a time of its own.  Beside it the inductive invariant IInv   *)
(* says how far the plugin registry is, in which order the process comes   *)
(* up, and what the first shutdown still awaits.                           *)
(***************************************************************************)
EXTENDS Server, SequenceTheorems, TLAPS

LogProofs == INSTANCE UsageLogProofs WITH MaxFailures <- AllFailures

LogInv == LogProofs!IInv

(* What the usage log promises, see DurablePrefix.                         *)
Promises == INSTANCE DurablePrefix WITH accepted <- sent, durable <- Log!Durable

(* A name in the registry is one its file exports, and the files that have *)
(* been imported have their names taken, by them or by others.             *)
RegistryInv ==
    /\ Registry!TypeOK
    /\ \A n \in Names : registry[n] # NoFile => Exports[registry[n]] = n
    /\ loading \in {"importing", "done"} =>
           \A f \in Files \ importing :
               Exports[f] # NoName => registry[Exports[f]] # NoFile

Shutdowns == [awaits : SUBSET (Stores \union {"flush"}), over : BOOLEAN]

Types ==
    /\ awaiting \subseteq Stores
    /\ stores \in [Stores -> {"connecting", "up", "closing", "down", "dead", "bare"}]
    /\ commandDefined \in BOOLEAN
    /\ server \in {"none", "listening", "unbound", "closing"}
    /\ requests \in [{"limiting", "served", "refused"} -> 0..MaxEntries]
    /\ InFlight + sent <= MaxEntries
    /\ shutdowns \in Seq(Shutdowns)
    /\ promise \in [entries : 0..MaxEntries, failures : Nat] \union {NoPromise}
    /\ exit \in {"no", "clean", "failed"}

(* Connections come before the plugins, those before the server; shutdowns *)
(* are over when nothing is awaited, and end what they meet.               *)
Over == \E k \in DOMAIN shutdowns : shutdowns[k].over

Stages ==
    /\ loading # "no" => awaiting = {}
    /\ server # "none" => Registry!Loaded
    /\ \A k \in DOMAIN shutdowns : shutdowns[k].over => shutdowns[k].awaits = {}
    /\ server = "closing" => Over
    /\ exit # "no" /\ server # "none" => Over

(* Without a signal nothing is disconnected.                               *)
Calm ==
    shutdowns = <<>> =>
        /\ \A s \in Stores : stores[s] = IF s \in awaiting THEN "connecting" ELSE "up"
        /\ requests.refused = 0

SomeDead == \E s \in Stores : stores[s] = "dead"

(* A single shutdown awaits the stores that are being disconnected, unless *)
(* it was rejected ...                                                     *)
Draining ==
    Len(shutdowns) = 1 =>
        SomeDead \/ \A s \in Stores :
                        stores[s] = "closing" => s \in shutdowns[1].awaits

(* ... and the flush it started, while the entries it found or flushed are *)
(* not all stored.                                                         *)
Pledged ==
    /\ promise # NoPromise =>
           server # "none" /\ shutdowns # <<>> /\ promise.failures <= failures
    /\ promise # NoPromise /\ Len(shutdowns) = 1 /\ failures = promise.failures =>
           \/ SomeDead
           \/ promise.entries <= Log!Durable
           \/ /\ flushing /\ "flush" \in shutdowns[1].awaits
              /\ promise.entries <= Log!Durable + Len(batch)

IInv ==
    /\ LogInv /\ RegistryInv /\ Types /\ Stages
    /\ Calm /\ Draining /\ Pledged /\ ExitsIdle
-----------------------------------------------------------------------------
(* The usage log.                                                          *)

LEMMA LogConstants ==
    /\ MaxEntries \in Nat /\ AllFailures \in Nat
    /\ FlushAt \in Nat \ {0} /\ BatchLimit \in {FlushAt, FlushAt - 1}
BY ServerAssumption DEF AllFailures

LEMMA SameLog ==
    /\ LogProofs!Durable = Log!Durable
    /\ LogProofs!TypeOK <=> Log!TypeOK
    /\ LogProofs!NothingLost <=> Log!NothingLost
BY DEF LogProofs!Durable, Log!Durable, LogProofs!TypeOK, Log!TypeOK, LogProofs!Entries,
       Log!Entries, LogProofs!NothingLost, Log!NothingLost

(* What the invariant says of the sizes.                                   *)
LEMMA LogFacts ==
    LogInv => /\ Log!TypeOK /\ Log!NothingLost
              /\ sent \in 0..MaxEntries /\ failures \in Nat
              /\ Len(batch) \in Nat
              /\ Log!Durable \in Nat /\ Log!Durable + Len(batch) <= sent
<1>. SUFFICES ASSUME LogInv
              PROVE  /\ Log!TypeOK /\ Log!NothingLost
                     /\ sent \in 0..MaxEntries /\ failures \in Nat
                     /\ Len(batch) \in Nat
                     /\ Log!Durable \in Nat /\ Log!Durable + Len(batch) <= sent
  OBVIOUS
<1>1. LogProofs!TypeOK /\ LogProofs!PendingInOrder /\ LogProofs!NothingLost
  BY DEF LogInv, LogProofs!IInv
<1>2. /\ LogProofs!Pending \in Seq(LogProofs!Entries)
      /\ Len(LogProofs!Pending) = Len(batch) + Len(queue)
      /\ LogProofs!Durable = sent - Len(LogProofs!Pending)
      /\ Len(batch) \in Nat /\ Len(queue) \in Nat
      /\ LogProofs!Durable \in Int /\ sent \in Int
  BY <1>1, LogProofs!PendingFacts, LogConstants
<1>3. sent \in 0..MaxEntries /\ failures \in Nat
  BY <1>1, LogConstants DEF LogProofs!TypeOK
<1>4. LogProofs!Durable >= 0
  <2>1. CASE Len(LogProofs!Pending) = 0
    BY <1>2, <1>3, <2>1
  <2>2. CASE Len(LogProofs!Pending) # 0
    <3>1. 1 \in 1..Len(LogProofs!Pending)
      BY <1>2, <2>2
    <3>2. LogProofs!Pending[1] = LogProofs!Durable + 1
      BY <1>1, <3>1 DEF LogProofs!PendingInOrder
    <3>3. LogProofs!Pending[1] \in LogProofs!Entries
      BY <1>2, <3>1, ElementOfSeq
    <3>. QED
      BY <1>2, <3>2, <3>3 DEF LogProofs!Entries
  <2>. QED
    BY <2>1, <2>2
<1>. QED
  BY <1>1, <1>2, <1>3, <1>4, SameLog

LEMMA LogInit == Log!Init => LogInv /\ sent = 0
<1>1. Log!Init <=> LogProofs!Init
  BY DEF Log!Init, LogProofs!Init, Log!Entries, LogProofs!Entries
<1>. QED
  BY <1>1, LogProofs!InitIInv, LogConstants DEF LogInv, Log!Init

LEMMA LogUnchanged ==
    ASSUME LogInv, UNCHANGED log
    PROVE  LogInv' /\ Log!Durable' = Log!Durable
<1>1. UNCHANGED LogProofs!vars
  BY DEF log, LogProofs!vars
<1>. QED
  BY <1>1, LogProofs!StutterIInv, LogConstants DEF LogInv, log, Log!Durable

LEMMA LogEnqueue ==
    ASSUME LogInv, Log!Enqueue
    PROVE  /\ LogInv' /\ Log!Durable' = Log!Durable
           /\ sent' = sent + 1 /\ failures' = failures
           /\ flushing => batch' = batch /\ flushing' = flushing
<1>1. Log!Enqueue <=> LogProofs!Enqueue
  BY Zenon DEF Log!Enqueue, LogProofs!Enqueue, Log!FlushQueue, LogProofs!FlushQueue,
     Log!Smaller, LogProofs!Smaller
<1>2. LogInv'
  BY <1>1, LogProofs!EnqueueIInv, LogConstants DEF LogInv
<1>3. LogProofs!Durable' = LogProofs!Durable
  BY <1>1, LogProofs!EnqueueEffect, LogConstants DEF LogInv, LogProofs!IInv
<1>. QED
  BY <1>2, <1>3 DEF Log!Enqueue, Log!FlushQueue, LogProofs!Durable, Log!Durable

LEMMA LogFlush ==
    ASSUME LogInv, Log!FlushQueue(queue), UNCHANGED <<flushTimer, sent, stored, failures>>
    PROVE  /\ LogInv' /\ Log!Durable' = Log!Durable
           /\ flushing => batch' = batch /\ flushing' = flushing
           /\ ~flushing' => Len(batch') = 0
<1>1. LogProofs!FlushQueue(queue)
  BY Zenon DEF Log!FlushQueue, LogProofs!FlushQueue, Log!Smaller, LogProofs!Smaller
<1>2. LogInv'
  BY <1>1, LogProofs!FlushIInv, LogConstants DEF LogInv
<1>3. LogProofs!Durable' = LogProofs!Durable
  BY <1>1, LogProofs!FlushEffect, LogConstants DEF LogInv, LogProofs!IInv
<1>4. ~flushing' => batch' = <<>>
  BY <1>2 DEF LogInv, LogProofs!IInv, LogProofs!TypeOK
<1>. QED
  BY <1>2, <1>3, <1>4, EmptySeq
     DEF Log!FlushQueue, LogProofs!Durable, Log!Durable

LEMMA LogSucceeds ==
    ASSUME LogInv, Log!InsertSucceeds
    PROVE  /\ LogInv' /\ Log!Durable' = Log!Durable + Len(batch)
           /\ sent' = sent /\ failures' = failures
<1>1. Log!InsertSucceeds <=> LogProofs!InsertSucceeds
  BY Zenon DEF Log!InsertSucceeds, LogProofs!InsertSucceeds, Log!EndFlush,
     LogProofs!EndFlush, Log!Store, LogProofs!Store, Log!InFlight, LogProofs!InFlight,
     Log!Entries, LogProofs!Entries
<1>2. LogInv'
  BY <1>1, LogProofs!SuccessIInv, LogConstants DEF LogInv
<1>3. LogProofs!Durable' = LogProofs!Durable + Len(batch)
  BY <1>1, LogProofs!SuccessEffect, LogConstants DEF LogInv, LogProofs!IInv
<1>. QED
  BY <1>2, <1>3 DEF Log!InsertSucceeds, LogProofs!Durable, Log!Durable

LEMMA LogFails ==
    ASSUME LogInv, Log!InsertFails
    PROVE  /\ LogInv' /\ Log!Durable' = Log!Durable
           /\ sent' = sent /\ failures' = failures + 1
<1>1. Log!InsertFails <=> LogProofs!InsertFails
  BY Zenon DEF Log!InsertFails, LogProofs!InsertFails, Log!EndFlush, LogProofs!EndFlush,
     Log!Requeue, LogProofs!Requeue, Log!Store, LogProofs!Store, Log!InFlight,
     LogProofs!InFlight, Log!Entries, LogProofs!Entries
<1>2. LogInv'
  BY <1>1, LogProofs!FailureIInv, LogConstants DEF LogInv
<1>3. LogProofs!Durable' = LogProofs!Durable
  BY <1>1, LogProofs!FailureEffect, LogConstants DEF LogInv, LogProofs!IInv
<1>. QED
  BY <1>2, <1>3 DEF Log!InsertFails, LogProofs!Durable, Log!Durable

-----------------------------------------------------------------------------
(* The plugin registry.                                                    *)

LEMMA RegistryInit == Registry!Init => RegistryInv
BY ServerAssumption DEF Registry!Init, Registry!Empty, RegistryInv, Registry!TypeOK

LEMMA RegistryUnchanged == RegistryInv /\ UNCHANGED plugins => RegistryInv'
BY DEF RegistryInv, plugins, Registry!TypeOK

LEMMA RegistryImport ==
    ASSUME RegistryInv, NEW f \in Files, Registry!Import(f)
    PROVE  RegistryInv'
<1>1. /\ registry \in [Names -> Files \union {NoFile}]
      /\ Exports[f] \in Names \union {NoName}
      /\ f # NoFile /\ NoName \notin Names
  BY ServerAssumption DEF RegistryInv, Registry!TypeOK
<1>2. /\ loading = "importing"
      /\ importing' = importing \ {f}
      /\ registry' = IF Exports[f] # NoName /\ registry[Exports[f]] = NoFile
                     THEN [registry EXCEPT ![Exports[f]] = f] ELSE registry
      /\ loading' = IF importing' = {} THEN "done" ELSE "importing"
      /\ loaded' = loaded
  BY DEF Registry!Import
<1>3. registry' \in [Names -> Files \union {NoFile}]
  BY <1>1, <1>2
<1>4. Registry!TypeOK'
  BY <1>2, <1>3 DEF RegistryInv, Registry!TypeOK
<1>5. \A n \in Names : registry'[n] # NoFile => Exports[registry'[n]] = n
  BY <1>1, <1>2 DEF RegistryInv
<1>6. \A g \in Files \ importing' : Exports[g] # NoName => registry'[Exports[g]] # NoFile
  <2>. SUFFICES ASSUME NEW g \in Files \ importing', Exports[g] # NoName
                PROVE  registry'[Exports[g]] # NoFile
    OBVIOUS
  <2>1. Exports[g] \in Names
    BY ServerAssumption
  <2>2. CASE g = f
    BY <1>1, <1>2, <2>1, <2>2
  <2>3. CASE g # f
    <3>1. registry[Exports[g]] # NoFile
      BY <1>2, <2>3 DEF RegistryInv
    <3>. QED
      BY <1>1, <1>2, <2>1, <3>1
  <2>. QED
    BY <2>2, <2>3
<1>. QED
  BY <1>4, <1>5, <1>6 DEF RegistryInv

LEMMA RegistryNext == RegistryInv /\ Registry!Next => RegistryInv'
<1>. SUFFICES ASSUME RegistryInv, Registry!Next PROVE RegistryInv'
  OBVIOUS
<1>1. CASE Registry!LoadPlugins
  BY <1>1, ServerAssumption
     DEF Registry!LoadPlugins, Registry!Empty, RegistryInv, Registry!TypeOK
<1>2. CASE Registry!ScanFails
  BY <1>2 DEF Registry!ScanFails, RegistryInv, Registry!TypeOK
<1>3. CASE Registry!Scan
  BY <1>3 DEF Registry!Scan, RegistryInv, Registry!TypeOK
<1>. QED
  BY <1>1, <1>2, <1>3, RegistryImport DEF Registry!Next

(* A registry whose files have all been imported resolves every name that  *)
(* is exported to a file that exports it.                                  *)
LEMMA RegistryResolves == RegistryInv => Registry!ReferencesResolve
<1>. SUFFICES ASSUME RegistryInv, loading = "done", NEW n \in Names
              PROVE  IF \E f \in Files : Exports[f] = n
                     THEN /\ 1 \in DOMAIN Registry!Resolve(<<n>>)
                          /\ Exports[Registry!Resolve(<<n>>)[1]] = n
                     ELSE Registry!Resolve(<<n>>) = <<>>
  BY DEF Registry!ReferencesResolve
<1>1. /\ registry[n] \in Files \union {NoFile}
      /\ registry[n] # NoFile => Exports[registry[n]] = n
      /\ \A f \in Files : Exports[f] = n => registry[n] # NoFile
  BY ServerAssumption DEF RegistryInv, Registry!TypeOK
<1>2. DOMAIN <<n>> = {1} /\ <<n>>[1] = n
  OBVIOUS
<1>3. Registry!Resolve(<<n>>) =
          [i \in {j \in {1} : registry[n] # NoFile} |-> registry[n]]
  BY <1>2 DEF Registry!Resolve
<1>4. CASE registry[n] # NoFile
  <2>1. Registry!Resolve(<<n>>) = [i \in {1} |-> registry[n]]
    BY <1>3, <1>4
  <2>. QED
    BY <1>1, <1>4, <2>1
<1>5. CASE registry[n] = NoFile
  <2>1. Registry!Resolve(<<n>>) = [i \in {} |-> registry[n]]
    BY <1>3, <1>5
  <2>. QED
    BY <1>1, <1>5, <2>1
<1>. QED
  BY <1>4, <1>5

-----------------------------------------------------------------------------
(* The process.                                                            *)

LEMMA ShutdownFacts ==
    ASSUME Types
    PROVE  /\ Len(shutdowns) \in Nat
           /\ DOMAIN shutdowns = 1..Len(shutdowns)
           /\ shutdowns = <<>> <=> Len(shutdowns) = 0
           /\ \A k \in DOMAIN shutdowns : shutdowns[k] \in Shutdowns
<1>1. shutdowns \in Seq(Shutdowns)
  BY DEF Types
<1>. QED
  BY <1>1, LenProperties, EmptySeq, ElementOfSeq

(* Whoever did not start, await or end a flush leaves the pledge alone.    *)
LEMMA PledgeKept ==
    ASSUME Pledged, UNCHANGED <<server, shutdowns, promise, failures>>,
           SomeDead => SomeDead', Log!Durable' = Log!Durable,
           flushing => flushing' = flushing /\ batch' = batch
    PROVE  Pledged'
<1>1. PICK durable : durable = Log!Durable
  OBVIOUS
<1>. QED
  BY <1>1 DEF Pledged

LEMMA DrainingKept ==
    ASSUME Draining, UNCHANGED shutdowns, SomeDead => SomeDead',
           \A s \in Stores : stores'[s] = "closing" => stores[s] = "closing"
    PROVE  Draining'
BY DEF Draining

LEMMA StagesKept ==
    ASSUME Stages, UNCHANGED <<loading, process, shutdowns>>
    PROVE  Stages'
BY DEF Stages, process, Over, Registry!Loaded

LEMMA InitIInv == Init => IInv
<1>. SUFFICES ASSUME Init PROVE IInv
  OBVIOUS
<1>1. LogInv /\ sent = 0
  BY LogInit DEF Init
<1>2. RegistryInv /\ loading = "no"
  BY RegistryInit DEF Init, Registry!Init
<1>3. MaxEntries \in Nat /\ shutdowns \in Seq(Shutdowns) /\ Len(shutdowns) = 0
  BY ServerAssumption, EmptySeq DEF Init
<1>4. Types
  <2>1. /\ requests \in [{"limiting", "served", "refused"} -> 0..MaxEntries]
        /\ InFlight = 0
    BY <1>3 DEF Init, InFlight
  <2>2. InFlight + sent <= MaxEntries
    BY <1>1, <1>3, <2>1
  <2>. QED
    BY <1>3, <2>1, <2>2 DEF Init, Types
<1>5. Stages /\ Calm /\ Draining /\ Pledged /\ ExitsIdle
  BY <1>2, <1>3 DEF Init, Stages, Calm, Draining, Pledged, ExitsIdle
<1>. QED
  BY <1>1, <1>2, <1>4, <1>5 DEF IInv

LEMMA ConnectedIInv ==
    ASSUME IInv, NEW s \in Stores, Connected(s)
    PROVE  IInv'
<1>. USE DEF IInv
<1>1. /\ exit = "no" /\ s \in awaiting
      /\ stores[s] \in {"connecting", "closing"}
      /\ awaiting' = awaiting \ {s}
      /\ stores' = [stores EXCEPT ![s] = IF @ = "connecting" THEN "up" ELSE @]
      /\ UNCHANGED <<log, plugins, server, exit, commandDefined, requests, shutdowns,
                     promise>>
  BY DEF Connected
<1>2. LogInv' /\ Log!Durable' = Log!Durable
  BY <1>1, LogUnchanged
<1>3. RegistryInv'
  BY <1>1, RegistryUnchanged
<1>4. Types'
  BY <1>1 DEF Types, log, InFlight
<1>5. SomeDead => SomeDead'
  BY <1>1 DEF Types, SomeDead
<1>6. Stages'
  BY <1>1 DEF Stages, Over, plugins, Registry!Loaded
<1>7. Calm'
  BY <1>1 DEF Calm, Types
<1>8. Draining'
  BY <1>1, <1>5, DrainingKept DEF Types
<1>9. Pledged'
  BY <1>1, <1>2, <1>5, PledgeKept DEF log
<1>10. ExitsIdle'
  BY <1>1 DEF ExitsIdle
<1>. QED
  BY <1>2, <1>3, <1>4, <1>6, <1>7, <1>8, <1>9, <1>10

(* Only before there is a server.                                          *)
LEMMA ConnectFailsIInv ==
    ASSUME IInv, NEW s \in Stores, ConnectFails(s)
    PROVE  IInv'
<1>. USE DEF IInv
<1>1. /\ s \in awaiting /\ exit' = "failed"
      /\ UNCHANGED <<log, plugins, awaiting, server, stores, commandDefined, requests,
                     shutdowns, promise>>
  BY DEF ConnectFails
<1>2. server = "none"
  BY <1>1 DEF Stages, Registry!Loaded
<1>3. LogInv' /\ Log!Durable' = Log!Durable
  BY <1>1, LogUnchanged
<1>4. RegistryInv'
  BY <1>1, RegistryUnchanged
<1>5. Types'
  BY <1>1 DEF Types, log, InFlight
<1>6. Stages'
  BY <1>1, <1>2 DEF Stages, Over, plugins
<1>7. Calm' /\ Draining'
  BY <1>1 DEF Calm, Draining, SomeDead
<1>8. Pledged'
  BY <1>1, <1>3, PledgeKept DEF log, SomeDead
<1>9. ExitsIdle'
  BY <1>1, <1>2 DEF ExitsIdle
<1>. QED
  BY <1>3, <1>4, <1>5, <1>6, <1>7, <1>8, <1>9

LEMMA LoadIInv ==
    ASSUME IInv, Load
    PROVE  IInv'
<1>. USE DEF IInv
<1>1. /\ exit = "no" /\ awaiting = {} /\ Registry!Next
      /\ UNCHANGED <<log, process, stores, commandDefined, requests, shutdowns, promise>>
  BY DEF Load
<1>2. LogInv' /\ Log!Durable' = Log!Durable
  BY <1>1, LogUnchanged
<1>3. RegistryInv'
  BY <1>1, RegistryNext
<1>4. Types'
  BY <1>1 DEF Types, log, process, InFlight
<1>5. Registry!Loaded => Registry!Loaded'
  BY <1>1 DEF Registry!Next, Registry!LoadPlugins, Registry!ScanFails, Registry!Scan,
     Registry!Import, Registry!Loaded
<1>6. Stages'
  BY <1>1, <1>5 DEF Stages, Over, process
<1>7. Calm' /\ Draining'
  BY <1>1 DEF Calm, Draining, SomeDead, process
<1>8. Pledged'
  BY <1>1, <1>2, PledgeKept DEF log, SomeDead, process
<1>9. ExitsIdle'
  BY <1>1 DEF ExitsIdle, process
<1>. QED
  BY <1>2, <1>3, <1>4, <1>6, <1>7, <1>8, <1>9

LEMMA ListenIInv ==
    ASSUME IInv, Listen
    PROVE  IInv'
<1>. USE DEF IInv
<1>1. /\ exit = "no" /\ Registry!Loaded /\ server = "none"
      /\ server' \in {"listening", "unbound"}
      /\ UNCHANGED <<log, plugins, awaiting, exit, stores, commandDefined, requests,
                     shutdowns, promise>>
  BY DEF Listen
<1>2. LogInv' /\ Log!Durable' = Log!Durable
  BY <1>1, LogUnchanged
<1>3. RegistryInv'
  BY <1>1, RegistryUnchanged
<1>4. Types'
  BY <1>1 DEF Types, log, InFlight
<1>5. Stages'
  BY <1>1 DEF Stages, Over, plugins, Registry!Loaded
<1>6. Calm' /\ Draining'
  BY <1>1 DEF Calm, Draining, SomeDead
<1>7. Pledged'
  BY <1>1 DEF Pledged
<1>8. ExitsIdle'
  BY <1>1 DEF ExitsIdle
<1>. QED
  BY <1>2, <1>3, <1>4, <1>5, <1>6, <1>7, <1>8

LEMMA RequestTypes ==
    ASSUME LogInv, Types
    PROVE  /\ requests.limiting \in Nat /\ requests.served \in Nat /\ requests.refused \in Nat
           /\ InFlight \in Nat /\ sent \in Nat /\ MaxEntries \in Nat
           /\ InFlight + sent <= MaxEntries
BY LogFacts, ServerAssumption DEF Types, InFlight

(* The three counts may move as long as their sum stays in bounds.         *)
LEMMA RequestCounts ==
    ASSUME Types, MaxEntries \in Nat, InFlight' <= MaxEntries,
           requests'.limiting \in Nat, requests'.served \in Nat, requests'.refused \in Nat,
           DOMAIN requests' = DOMAIN requests,
           requests' = [kind \in DOMAIN requests' |-> requests'[kind]]
    PROVE  requests' \in [{"limiting", "served", "refused"} -> 0..MaxEntries]
<1>1. DOMAIN requests' = {"limiting", "served", "refused"}
  BY DEF Types
<1>2. \A kind \in {"limiting", "served", "refused"} : requests'[kind] \in 0..MaxEntries
  BY DEF InFlight
<1>. QED
  BY <1>1, <1>2

LEMMA ArriveIInv ==
    ASSUME IInv, Arrive
    PROVE  IInv'
<1>. USE DEF IInv
<1>1. /\ exit = "no" /\ server \in {"listening", "closing"}
      /\ InFlight + sent < MaxEntries
      /\ requests' = [requests EXCEPT !.limiting = @ + 1]
      /\ UNCHANGED <<log, plugins, process, stores, commandDefined, shutdowns, promise>>
  BY DEF Arrive
<1>2. LogInv' /\ Log!Durable' = Log!Durable
  BY <1>1, LogUnchanged
<1>3. RegistryInv'
  BY <1>1, RegistryUnchanged
<1>4. Types'
  <2>1. /\ requests' \in [{"limiting", "served", "refused"} -> 0..MaxEntries]
        /\ InFlight' = InFlight + 1
    <3>1. /\ requests' = [kind \in DOMAIN requests' |-> requests'[kind]]
          /\ DOMAIN requests' = DOMAIN requests
          /\ requests'.limiting = requests.limiting + 1
          /\ requests'.served = requests.served /\ requests'.refused = requests.refused
      BY <1>1 DEF Types
    <3>2. InFlight' = InFlight + 1
      BY <3>1, RequestTypes DEF InFlight
    <3>. QED
      BY <1>1, <3>1, <3>2, RequestCounts, RequestTypes
  <2>2. InFlight' + sent' <= MaxEntries
    BY <1>1, <2>1, RequestTypes DEF log
  <2>. QED
    BY <1>1, <2>1, <2>2 DEF Types, process
<1>5. Stages'
  BY <1>1, StagesKept DEF plugins
<1>6. Calm' /\ Draining'
  BY <1>1 DEF Calm, Draining, SomeDead, process, Types
<1>7. Pledged'
  BY <1>1, <1>2, PledgeKept DEF log, SomeDead, process
<1>8. ExitsIdle'
  BY <1>1 DEF ExitsIdle, process
<1>. QED
  BY <1>2, <1>3, <1>4, <1>5, <1>6, <1>7, <1>8

(* A request leaves the limiter.  Redis may be given a new client, but is  *)
(* never disconnected, and nobody is refused before the first signal.      *)
LEMMA ProceedIInv ==
    ASSUME IInv, exit = "no", NEW to \in {"served", "refused"},
           requests.limiting > 0, Proceed(to), commandDefined' = TRUE,
           UNCHANGED <<log, plugins, process, shutdowns, promise>>,
           stores' \in [Stores -> {"connecting", "up", "closing", "down", "dead", "bare"}],
           \A s \in Stores : \/ stores'[s] = stores[s]
                             \/ stores[s] = "down" /\ stores'[s] \in {"up", "bare"},
           to = "refused" => stores["redis"] \notin {"connecting", "up"}
    PROVE  IInv'
<1>. USE DEF IInv
<1>1. LogInv' /\ Log!Durable' = Log!Durable
  BY LogUnchanged
<1>2. RegistryInv'
  BY RegistryUnchanged
<1>3. /\ requests' \in [{"limiting", "served", "refused"} -> 0..MaxEntries]
      /\ InFlight' = InFlight
      /\ to = "served" => requests'.refused = requests.refused
  <2>1. /\ requests' = [kind \in DOMAIN requests' |-> requests'[kind]]
        /\ DOMAIN requests' = DOMAIN requests
        /\ requests'.limiting = requests.limiting - 1
        /\ requests'.served = requests.served + (IF to = "served" THEN 1 ELSE 0)
        /\ requests'.refused = requests.refused + (IF to = "refused" THEN 1 ELSE 0)
    <3>1. requests' = [requests EXCEPT !["limiting"] = @ - 1, ![to] = @ + 1]
      BY DEF Proceed
    <3>2. DOMAIN requests = {"limiting", "served", "refused"}
      BY DEF Types
    <3>3. DOMAIN requests' = DOMAIN requests
      BY <3>1
    <3>4. requests' = [kind \in DOMAIN requests' |-> requests'[kind]]
      BY <3>1
    <3>5. /\ requests'.limiting = requests.limiting - 1
          /\ requests'.served = requests.served + (IF to = "served" THEN 1 ELSE 0)
          /\ requests'.refused = requests.refused + (IF to = "refused" THEN 1 ELSE 0)
      BY <3>1, <3>2, RequestTypes
    <3>. QED
      BY <3>3, <3>4, <3>5
  <2>2. InFlight' = InFlight
    BY <2>1, RequestTypes DEF InFlight
  <2>3. /\ requests'.limiting \in Nat /\ requests'.served \in Nat /\ requests'.refused \in Nat
        /\ InFlight' <= MaxEntries
    BY <2>1, <2>2, RequestTypes
  <2>. QED
    BY <2>1, <2>2, <2>3, RequestCounts, RequestTypes
<1>4. Types'
  BY <1>3 DEF Types, log, process
<1>5. Stages'
  BY StagesKept DEF plugins
<1>6. SomeDead => SomeDead'
  BY DEF SomeDead
<1>7. Calm'
  BY <1>3 DEF Calm, Stores, process
<1>8. Draining'
  BY <1>6, DrainingKept
<1>9. Pledged'
  BY <1>1, <1>6, PledgeKept DEF log, process
<1>10. ExitsIdle'
  BY DEF ExitsIdle, process
<1>. QED
  BY <1>1, <1>2, <1>4, <1>5, <1>7, <1>8, <1>9, <1>10

LEMMA ConsumeIInv ==
    ASSUME IInv, Consume \/ ConsumeFails \/ ConsumeAnew
    PROVE  IInv'
<1>1. stores \in [Stores -> {"connecting", "up", "closing", "down", "dead", "bare"}]
  BY DEF IInv, Types
<1>2. CASE Consume
  BY <1>1, <1>2, ProceedIInv DEF Consume
<1>3. CASE ConsumeFails
  BY <1>1, <1>3, ProceedIInv DEF ConsumeFails
<1>4. CASE ConsumeAnew
  <2>1. PICK to \in {"served", "refused"}, client \in {"up", "bare"} :
            Proceed(to) /\ stores' = [stores EXCEPT !["redis"] = client]
    BY <1>4 DEF ConsumeAnew
  <2>2. /\ stores' \in [Stores -> {"connecting", "up", "closing", "down", "dead", "bare"}]
        /\ stores["redis"] = "down"
        /\ \A s \in Stores : \/ stores'[s] = stores[s]
                             \/ stores[s] = "down" /\ stores'[s] \in {"up", "bare"}
    BY <1>1, <1>4, <2>1 DEF ConsumeAnew, Stores
  <2>. QED
    BY <1>4, <2>1, <2>2, ProceedIInv DEF ConsumeAnew
<1>. QED
  BY <1>2, <1>3, <1>4

LEMMA FinishIInv ==
    ASSUME IInv, NEW kind \in {"served", "refused"}, Finish(kind)
    PROVE  IInv'
<1>. USE DEF IInv
<1>1. /\ exit = "no" /\ requests[kind] > 0 /\ Log!Enqueue
      /\ requests' = [requests EXCEPT ![kind] = @ - 1]
      /\ UNCHANGED <<plugins, process, stores, commandDefined, shutdowns, promise>>
  BY DEF Finish
<1>2. /\ LogInv' /\ Log!Durable' = Log!Durable
      /\ sent' = sent + 1 /\ failures' = failures
      /\ flushing => batch' = batch /\ flushing' = flushing
  BY <1>1, LogEnqueue
<1>3. RegistryInv'
  BY <1>1, RegistryUnchanged
<1>4. /\ requests' \in [{"limiting", "served", "refused"} -> 0..MaxEntries]
      /\ InFlight' = InFlight - 1
      /\ requests.refused = 0 => requests'.refused = 0
  <2>1. /\ requests' = [other \in DOMAIN requests' |-> requests'[other]]
        /\ DOMAIN requests' = DOMAIN requests
        /\ requests'.limiting = requests.limiting
        /\ requests'.served = requests.served - (IF kind = "served" THEN 1 ELSE 0)
        /\ requests'.refused = requests.refused - (IF kind = "refused" THEN 1 ELSE 0)
    <3>1. DOMAIN requests = {"limiting", "served", "refused"}
      BY DEF Types
    <3>2. DOMAIN requests' = DOMAIN requests
      BY <1>1
    <3>3. requests' = [other \in DOMAIN requests' |-> requests'[other]]
      BY <1>1
    <3>4. /\ requests'.limiting = requests.limiting
          /\ requests'.served = requests.served - (IF kind = "served" THEN 1 ELSE 0)
          /\ requests'.refused = requests.refused - (IF kind = "refused" THEN 1 ELSE 0)
      BY <1>1, <3>1, RequestTypes
    <3>. QED
      BY <3>2, <3>3, <3>4
  <2>2. InFlight' = InFlight - 1
    BY <2>1, RequestTypes DEF InFlight
  <2>3. /\ requests'.limiting \in Nat /\ requests'.served \in Nat /\ requests'.refused \in Nat
        /\ InFlight' <= MaxEntries
        /\ requests.refused = 0 => requests'.refused = 0
    BY <1>1, <2>1, <2>2, RequestTypes
  <2>. QED
    BY <2>1, <2>2, <2>3, RequestCounts, RequestTypes
<1>5. InFlight' + sent' <= MaxEntries
  BY <1>2, <1>4, RequestTypes
<1>6. Types'
  BY <1>1, <1>4, <1>5 DEF Types, process
<1>7. Stages'
  BY <1>1, StagesKept DEF plugins
<1>8. Calm' /\ Draining'
  BY <1>1, <1>4 DEF Calm, Draining, SomeDead, process
<1>9. Pledged'
  BY <1>1, <1>2, PledgeKept DEF SomeDead, process
<1>10. ExitsIdle'
  BY <1>1 DEF ExitsIdle, process
<1>. QED
  BY <1>2, <1>3, <1>6, <1>7, <1>8, <1>9, <1>10

LEMMA TickIInv ==
    ASSUME IInv, Tick
    PROVE  IInv'
<1>. USE DEF IInv
<1>1. /\ exit = "no" /\ Log!FlushQueue(queue)
      /\ UNCHANGED <<flushTimer, sent, stored, failures>>
      /\ UNCHANGED <<plugins, process, stores, commandDefined, requests, shutdowns, promise>>
  BY DEF Tick, Log!Tick
<1>2. /\ LogInv' /\ Log!Durable' = Log!Durable
      /\ flushing => batch' = batch /\ flushing' = flushing
  BY <1>1, LogFlush
<1>3. RegistryInv'
  BY <1>1, RegistryUnchanged
<1>4. Types'
  BY <1>1 DEF Types, process, InFlight
<1>5. Stages'
  BY <1>1, StagesKept DEF plugins
<1>6. Calm' /\ Draining'
  BY <1>1 DEF Calm, Draining, SomeDead, process
<1>7. Pledged'
  BY <1>1, <1>2, PledgeKept DEF SomeDead, process
<1>8. ExitsIdle'
  BY <1>1 DEF ExitsIdle, process
<1>. QED
  BY <1>2, <1>3, <1>4, <1>5, <1>6, <1>7, <1>8

(* Something that is done is no longer awaited by any shutdown.            *)
LEMMA SettledFacts ==
    ASSUME Types, NEW it, Settled(it)
    PROVE  /\ shutdowns' \in Seq(Shutdowns)
           /\ Len(shutdowns') = Len(shutdowns) /\ DOMAIN shutdowns' = DOMAIN shutdowns
           /\ shutdowns' = <<>> <=> shutdowns = <<>>
           /\ \A k \in DOMAIN shutdowns :
                 /\ shutdowns'[k].awaits = shutdowns[k].awaits \ {it}
                 /\ shutdowns'[k].over = shutdowns[k].over
<1>1. PICK n \in Nat : n = Len(shutdowns)
  BY ShutdownFacts
<1>2. DOMAIN shutdowns = 1..n /\ \A k \in 1..n : shutdowns[k] \in Shutdowns
  BY <1>1, ShutdownFacts
<1>3. shutdowns' = [k \in 1..n |-> [shutdowns[k] EXCEPT !.awaits = @ \ {it}]]
  BY <1>2 DEF Settled
<1>4. \A k \in 1..n :
          /\ shutdowns'[k] \in Shutdowns
          /\ shutdowns'[k].awaits = shutdowns[k].awaits \ {it}
          /\ shutdowns'[k].over = shutdowns[k].over
  BY <1>2, <1>3 DEF Shutdowns
<1>5. shutdowns' \in [1..n -> Shutdowns]
  BY <1>3, <1>4
<1>6. shutdowns' \in Seq(Shutdowns) /\ Len(shutdowns') = n
  BY <1>5
<1>7. shutdowns' = <<>> <=> n = 0
  BY <1>6, EmptySeq
<1>8. shutdowns = <<>> <=> n = 0
  BY <1>1, ShutdownFacts
<1>. QED
  BY <1>1, <1>2, <1>3, <1>4, <1>6, <1>7, <1>8

LEMMA InsertSettlesIInv ==
    ASSUME IInv, InsertSettles
    PROVE  IInv'
<1>. USE DEF IInv
<1>1. /\ exit = "no" /\ Settled("flush")
      /\ UNCHANGED <<plugins, process, stores, commandDefined, requests, promise>>
  BY DEF InsertSettles
<1>2. /\ LogInv' /\ sent' = sent
      /\ \/ Log!Durable' = Log!Durable + Len(batch) /\ failures' = failures
         \/ failures' = failures + 1
  BY LogSucceeds, LogFails DEF InsertSettles
<1>3. RegistryInv'
  BY <1>1, RegistryUnchanged
<1>4. Types'
  BY <1>1, <1>2, SettledFacts DEF Types, process, InFlight
<1>5. Stages'
  BY <1>1, SettledFacts DEF Stages, Over, plugins, process, Registry!Loaded
<1>6. Calm'
  BY <1>1, SettledFacts DEF Calm, process
<1>7. 1 \in DOMAIN shutdowns \/ Len(shutdowns) # 1
  BY ShutdownFacts
<1>8. Draining'
  BY <1>1, <1>7, SettledFacts DEF Draining, SomeDead, Stores
<1>9. Pledged'
  <2>1. /\ Log!Durable \in Nat /\ Len(batch) \in Nat /\ failures \in Nat
        /\ promise # NoPromise => promise.entries \in Nat /\ promise.failures \in Nat
    BY LogFacts, ServerAssumption DEF Types
  <2>2. CASE failures' = failures + 1
    BY <1>1, <2>1, <2>2, SettledFacts DEF Pledged, process
  <2>3. CASE Log!Durable' = Log!Durable + Len(batch) /\ failures' = failures
    <3>. SUFFICES ASSUME promise # NoPromise, Len(shutdowns) = 1,
                         failures = promise.failures, ~SomeDead
                  PROVE  promise.entries <= Log!Durable'
      BY <1>1, <2>1, <2>3, SettledFacts DEF Pledged, process, SomeDead
    <3>. QED
      BY <2>1, <2>3 DEF Pledged
  <2>. QED
    BY <1>2, <2>2, <2>3
<1>10. ExitsIdle'
  BY <1>1 DEF ExitsIdle, process
<1>. QED
  BY <1>2, <1>3, <1>4, <1>5, <1>6, <1>8, <1>9, <1>10

LEMMA SignalIInv ==
    ASSUME IInv, Signal
    PROVE  IInv'
<1>. USE DEF IInv
<1>0. PICK n \in Nat : n = Len(shutdowns)
  BY ShutdownFacts
<1>1. PICK open, started :
          /\ exit = "no"
          /\ open = {s \in Stores : stores[s] # "down"}
          /\ started = [awaits |-> Awaits(flushing' /\ ~flushing, open), over |-> FALSE]
          /\ Log!FlushQueue(queue)
          /\ shutdowns' = Append(shutdowns, started)
          /\ stores' = [s \in Stores |-> IF s \in open THEN "closing" ELSE "down"]
          /\ UNCHANGED <<flushTimer, sent, stored, failures>>
          /\ UNCHANGED <<plugins, process, commandDefined, requests>>
  BY DEF Signal
<1>2. /\ LogInv' /\ Log!Durable' = Log!Durable
      /\ flushing => batch' = batch /\ flushing' = flushing
      /\ ~flushing' => Len(batch') = 0
  BY <1>1, LogFlush
<1>3. /\ Log!Durable \in Nat /\ Len(batch') \in Nat /\ Log!Durable + Len(batch') <= sent
      /\ sent \in 0..MaxEntries /\ MaxEntries \in Nat /\ failures \in Nat
  <2>1. (Len(batch) \in Nat /\ Log!Durable + Len(batch) <= sent)'
    BY <1>2, LogFacts, PTL
  <2>. QED
    BY <1>1, <1>2, <2>1, LogFacts, ServerAssumption
<1>4. RegistryInv'
  BY <1>1, RegistryUnchanged
<1>5. /\ started \in Shutdowns /\ started.over = FALSE
      /\ open \subseteq started.awaits
      /\ flushing' /\ ~flushing => "flush" \in started.awaits
  BY <1>1 DEF Shutdowns, Awaits
<1>6. /\ shutdowns' \in Seq(Shutdowns)
      /\ Len(shutdowns') = n + 1 /\ DOMAIN shutdowns' = 1..(n + 1)
      /\ \A k \in 1..n : shutdowns'[k] = shutdowns[k]
      /\ shutdowns'[n + 1] = started
      /\ shutdowns' # <<>> /\ DOMAIN shutdowns = 1..n
  <2>1. shutdowns \in Seq(Shutdowns)
    BY DEF Types
  <2>2. /\ shutdowns' \in Seq(Shutdowns) /\ Len(shutdowns') = n + 1
        /\ \A k \in 1..n : shutdowns'[k] = shutdowns[k]
        /\ shutdowns'[n + 1] = started
    BY <1>0, <1>1, <1>5, <2>1, AppendProperties
  <2>3. DOMAIN shutdowns' = 1..(n + 1)
    BY <2>2, LenProperties
  <2>. QED
    BY <1>0, <2>2, <2>3, ShutdownFacts, EmptySeq
<1>7. promise' =
          IF promise = NoPromise /\ server # "none"
          THEN [entries |-> Log!Durable + (IF flushing THEN 0 ELSE Len(batch')),
                failures |-> failures]
          ELSE promise
  BY DEF Signal
<1>8. Types'
  <2>1. promise' \in [entries : 0..MaxEntries, failures : Nat] \union {NoPromise}
    <3>1. Log!Durable + (IF flushing THEN 0 ELSE Len(batch')) \in 0..MaxEntries
      BY <1>3
    <3>. QED
      BY <1>3, <1>7, <3>1 DEF Types
  <2>2. stores' \in [Stores -> {"connecting", "up", "closing", "down", "dead", "bare"}]
    BY <1>1
  <2>. QED
    BY <1>1, <1>6, <2>1, <2>2 DEF Types, process, InFlight
<1>9. Stages'
  <2>1. Over => Over'
    BY <1>0, <1>6 DEF Over
  <2>2. \A k \in DOMAIN shutdowns' : shutdowns'[k].over => shutdowns'[k].awaits = {}
    <3>1. TAKE k \in DOMAIN shutdowns'
    <3>2. CASE k \in 1..n
      BY <1>6, <3>2 DEF Stages
    <3>3. CASE k = n + 1
      BY <1>5, <1>6, <3>3
    <3>. QED
      BY <1>0, <1>6, <3>1, <3>2, <3>3
  <2>. QED
    BY <1>1, <2>1, <2>2 DEF Stages, plugins, process, Registry!Loaded
<1>10. Calm'
  BY <1>6 DEF Calm
<1>11. Draining'
  <2>. SUFFICES ASSUME Len(shutdowns') = 1, NEW s \in Stores, stores'[s] = "closing"
                PROVE  s \in shutdowns'[1].awaits
    BY DEF Draining
  <2>1. shutdowns'[1] = started
    BY <1>0, <1>6
  <2>. QED
    BY <1>1, <1>5, <2>1
<1>12. Pledged'
  <2>1. CASE promise = NoPromise /\ server # "none"
    <3>1. /\ promise'.entries = Log!Durable + (IF flushing THEN 0 ELSE Len(batch'))
          /\ promise'.failures = failures
      BY <1>7, <2>1
    <3>2. server' # "none" /\ shutdowns' # <<>> /\ failures' = failures
      BY <1>1, <1>6, <2>1 DEF process
    <3>3. Len(shutdowns') = 1 => shutdowns'[1] = started
      BY <1>0, <1>6
    <3>4. \/ promise'.entries <= Log!Durable'
          \/ /\ flushing' /\ "flush" \in started.awaits
             /\ promise'.entries <= Log!Durable' + Len(batch')
      BY <1>2, <1>3, <1>5, <3>1
    <3>. QED
      BY <1>3, <3>1, <3>2, <3>3, <3>4 DEF Pledged
  <2>2. CASE ~(promise = NoPromise /\ server # "none")
    <3>1. promise' = promise
      BY <1>7, <2>2
    <3>2. promise # NoPromise => n # 0
      BY <1>0, ShutdownFacts DEF Pledged
    <3>3. promise # NoPromise => Len(shutdowns') # 1
      BY <1>0, <1>6, <3>2
    <3>. QED
      BY <1>1, <1>6, <3>1, <3>3 DEF Pledged, process
  <2>. QED
    BY <2>1, <2>2
<1>13. ExitsIdle'
  BY <1>1 DEF ExitsIdle, process
<1>. QED
  BY <1>2, <1>4, <1>8, <1>9, <1>10, <1>11, <1>12, <1>13

LEMMA DisconnectedIInv ==
    ASSUME IInv, NEW s \in Stores, Disconnected(s)
    PROVE  IInv'
<1>. USE DEF IInv
<1>1. /\ exit = "no" /\ stores[s] = "closing" /\ Settled(s)
      /\ stores' = [stores EXCEPT ![s] = "down"]
      /\ UNCHANGED <<log, plugins, process, commandDefined, requests, promise>>
  BY DEF Disconnected
<1>2. LogInv' /\ Log!Durable' = Log!Durable
  BY <1>1, LogUnchanged
<1>3. RegistryInv'
  BY <1>1, RegistryUnchanged
<1>4. Types'
  BY <1>1, SettledFacts DEF Types, log, process, InFlight
<1>5. SomeDead => SomeDead'
  BY <1>1 DEF Types, SomeDead
<1>6. Stages'
  BY <1>1, SettledFacts DEF Stages, Over, plugins, process, Registry!Loaded
<1>7. Calm'
  BY <1>1, SettledFacts DEF Calm
<1>8. 1 \in DOMAIN shutdowns \/ Len(shutdowns) # 1
  BY ShutdownFacts
<1>9. \A t \in Stores : stores'[t] = "closing" => stores[t] = "closing" /\ t # s
  BY <1>1 DEF Types
<1>10. Draining'
  BY <1>1, <1>5, <1>8, <1>9, SettledFacts DEF Draining
<1>11. Pledged'
  <2>1. PICK durable : durable = Log!Durable
    OBVIOUS
  <2>2. s # "flush"
    BY DEF Stores
  <2>. QED
    BY <1>1, <1>2, <1>5, <1>8, <2>1, <2>2, SettledFacts DEF Pledged, log, process
<1>12. ExitsIdle'
  BY <1>1 DEF ExitsIdle, process
<1>. QED
  BY <1>2, <1>3, <1>4, <1>6, <1>7, <1>10, <1>11, <1>12

(* A rejected shutdown awaits nothing, and the store it left is dead unless*)
(* another shutdown awaits it.                                             *)
LEMMA DisconnectFailsIInv ==
    ASSUME IInv, NEW k \in DOMAIN shutdowns, NEW s \in Stores, DisconnectFails(k, s)
    PROVE  IInv'
<1>. USE DEF IInv
<1>1. /\ exit = "no" /\ s \in shutdowns[k].awaits
      /\ shutdowns' = [shutdowns EXCEPT ![k].awaits = {}]
      /\ stores' = [stores EXCEPT ![s] = IF Awaited(s, k) THEN @ ELSE "dead"]
      /\ UNCHANGED <<log, plugins, process, commandDefined, requests, promise>>
  BY DEF DisconnectFails
<1>2. LogInv' /\ Log!Durable' = Log!Durable
  BY <1>1, LogUnchanged
<1>3. RegistryInv'
  BY <1>1, RegistryUnchanged
<1>4. /\ shutdowns' \in Seq(Shutdowns) /\ Len(shutdowns') = Len(shutdowns)
      /\ DOMAIN shutdowns' = DOMAIN shutdowns
      /\ shutdowns' # <<>> /\ shutdowns # <<>>
      /\ shutdowns'[k].awaits = {}
      /\ \A j \in DOMAIN shutdowns : /\ shutdowns'[j].over = shutdowns[j].over
                                     /\ j # k => shutdowns'[j] = shutdowns[j]
  <2>1. [shutdowns[k] EXCEPT !.awaits = {}] \in Shutdowns
    BY ShutdownFacts DEF Shutdowns
  <2>2. shutdowns \in Seq(Shutdowns) /\ k \in 1..Len(shutdowns)
    BY ShutdownFacts DEF Types
  <2>3. shutdowns' \in Seq(Shutdowns) /\ Len(shutdowns') = Len(shutdowns)
    BY <1>1, <2>1, <2>2, ExceptSeq
  <2>4. DOMAIN shutdowns' = DOMAIN shutdowns
    BY <1>1
  <2>5. \A j \in DOMAIN shutdowns :
            shutdowns'[j] = IF j = k THEN [shutdowns[k] EXCEPT !.awaits = {}]
                            ELSE shutdowns[j]
    BY <1>1
  <2>6. shutdowns[k] \in Shutdowns
    BY ShutdownFacts
  <2>7. shutdowns'[k].awaits = {} /\ shutdowns'[k].over = shutdowns[k].over
    BY <2>5, <2>6 DEF Shutdowns
  <2>. QED
    BY <2>2, <2>3, <2>4, <2>5, <2>7, EmptySeq
<1>5. Types'
  <2>1. stores' \in [Stores -> {"connecting", "up", "closing", "down", "dead", "bare"}]
    BY <1>1 DEF Types
  <2>. QED
    BY <1>1, <1>4, <2>1 DEF Types, log, process, InFlight
<1>6. Stages'
  BY <1>1, <1>4 DEF Stages, Over, plugins, process, Registry!Loaded
<1>7. Calm'
  BY <1>4 DEF Calm
<1>8. Len(shutdowns) = 1 => SomeDead'
  <2>1. Len(shutdowns) = 1 => ~Awaited(s, k)
    BY ShutdownFacts DEF Awaited
  <2>. QED
    BY <1>1, <2>1 DEF Types, SomeDead
<1>9. Draining'
  BY <1>4, <1>8 DEF Draining
<1>10. Pledged'
  BY <1>1, <1>4, <1>8 DEF Pledged, log, process
<1>11. ExitsIdle'
  BY <1>1 DEF ExitsIdle, process
<1>. QED
  BY <1>2, <1>3, <1>5, <1>6, <1>7, <1>9, <1>10, <1>11

LEMMA CloseServerIInv ==
    ASSUME IInv, NEW k \in DOMAIN shutdowns, CloseServer(k)
    PROVE  IInv'
<1>. USE DEF IInv
<1>1. /\ exit = "no" /\ shutdowns[k].awaits = {}
      /\ shutdowns' = [shutdowns EXCEPT ![k].over = TRUE]
      /\ server' = IF server = "listening" THEN "closing" ELSE server
      /\ exit' = IF server = "listening" /\ InFlight = 0 THEN "clean"
                 ELSE IF server = "unbound" THEN "failed" ELSE exit
      /\ UNCHANGED <<log, plugins, awaiting, stores, commandDefined, requests, promise>>
  BY DEF CloseServer
<1>2. LogInv' /\ Log!Durable' = Log!Durable
  BY <1>1, LogUnchanged
<1>3. RegistryInv'
  BY <1>1, RegistryUnchanged
<1>4. /\ shutdowns' \in Seq(Shutdowns) /\ Len(shutdowns') = Len(shutdowns)
      /\ DOMAIN shutdowns' = DOMAIN shutdowns
      /\ shutdowns' # <<>> /\ shutdowns # <<>>
      /\ shutdowns'[k].over
      /\ \A j \in DOMAIN shutdowns : /\ shutdowns'[j].awaits = shutdowns[j].awaits
                                     /\ j # k => shutdowns'[j] = shutdowns[j]
  <2>1. [shutdowns[k] EXCEPT !.over = TRUE] \in Shutdowns
    BY ShutdownFacts DEF Shutdowns
  <2>2. shutdowns \in Seq(Shutdowns) /\ k \in 1..Len(shutdowns)
    BY ShutdownFacts DEF Types
  <2>3. shutdowns' \in Seq(Shutdowns) /\ Len(shutdowns') = Len(shutdowns)
    BY <1>1, <2>1, <2>2, ExceptSeq
  <2>4. DOMAIN shutdowns' = DOMAIN shutdowns
    BY <1>1
  <2>5. \A j \in DOMAIN shutdowns :
            shutdowns'[j] = IF j = k THEN [shutdowns[k] EXCEPT !.over = TRUE]
                            ELSE shutdowns[j]
    BY <1>1
  <2>6. shutdowns[k] \in Shutdowns
    BY ShutdownFacts
  <2>7. shutdowns'[k].over /\ shutdowns'[k].awaits = shutdowns[k].awaits
    BY <2>5, <2>6 DEF Shutdowns
  <2>. QED
    BY <2>2, <2>3, <2>4, <2>5, <2>7, EmptySeq
<1>5. Types'
  BY <1>1, <1>4 DEF Types, log, InFlight
<1>6. Stages'
  <2>1. Over'
    BY <1>4 DEF Over
  <2>2. \A j \in DOMAIN shutdowns' : shutdowns'[j].over => shutdowns'[j].awaits = {}
    BY <1>1, <1>4 DEF Stages
  <2>. QED
    BY <1>1, <2>1, <2>2 DEF Stages, plugins, Registry!Loaded
<1>7. Calm'
  BY <1>4 DEF Calm
<1>8. (1 \in DOMAIN shutdowns /\ k = 1) \/ Len(shutdowns) # 1
  BY ShutdownFacts
<1>9. Draining'
  BY <1>1, <1>4, <1>8 DEF Draining, SomeDead
<1>10. Pledged'
  BY <1>1, <1>2, <1>4, <1>8 DEF Pledged, log, SomeDead
<1>11. ExitsIdle'
  <2>. SUFFICES ASSUME exit' # "no", server' \in {"listening", "closing"}
                PROVE  /\ InFlight = 0 /\ exit' = "clean"
                       /\ Len(shutdowns) = 1 =>
                              \/ \A s \in Stores : stores[s] # "closing"
                              \/ SomeDead
    BY <1>1, <1>4 DEF ExitsIdle, InFlight, SomeDead
  <2>1. InFlight = 0 /\ exit' = "clean"
    BY <1>1
  <2>2. Len(shutdowns) = 1 => SomeDead \/ \A s \in Stores : stores[s] # "closing"
    BY <1>1, <1>8 DEF Draining
  <2>. QED
    BY <2>1, <2>2
<1>. QED
  BY <1>2, <1>3, <1>5, <1>6, <1>7, <1>9, <1>10, <1>11

LEMMA ClosedIInv ==
    ASSUME IInv, Closed
    PROVE  IInv'
<1>. USE DEF IInv
<1>1. /\ exit = "no" /\ server = "closing" /\ InFlight = 0 /\ exit' = "clean"
      /\ UNCHANGED <<log, plugins, awaiting, server, stores, commandDefined, requests,
                     shutdowns, promise>>
  BY DEF Closed
<1>2. LogInv' /\ Log!Durable' = Log!Durable
  BY <1>1, LogUnchanged
<1>3. RegistryInv'
  BY <1>1, RegistryUnchanged
<1>4. Types'
  BY <1>1 DEF Types, log, InFlight
<1>5. Stages'
  BY <1>1 DEF Stages, Over, plugins, Registry!Loaded
<1>6. Calm' /\ Draining'
  BY <1>1 DEF Calm, Draining, SomeDead
<1>7. Pledged'
  BY <1>1, <1>2, PledgeKept DEF log, SomeDead
<1>8. Len(shutdowns) = 1 => shutdowns[1].awaits = {}
  BY <1>1, ShutdownFacts DEF Stages, Over
<1>9. Len(shutdowns) = 1 => SomeDead \/ \A s \in Stores : stores[s] # "closing"
  BY <1>8 DEF Draining
<1>10. ExitsIdle'
  BY <1>1, <1>9 DEF ExitsIdle, SomeDead, InFlight
<1>. QED
  BY <1>2, <1>3, <1>4, <1>5, <1>6, <1>7, <1>10

LEMMA StutterIInv == IInv /\ UNCHANGED vars => IInv'
<1>. SUFFICES ASSUME IInv, UNCHANGED vars PROVE IInv'
  OBVIOUS
<1>. USE DEF IInv
<1>1. UNCHANGED <<log, plugins, process, stores, commandDefined, requests, shutdowns, promise>>
  BY DEF vars
<1>2. LogInv' /\ Log!Durable' = Log!Durable
  BY <1>1, LogUnchanged
<1>3. RegistryInv'
  BY <1>1, RegistryUnchanged
<1>4. Types'
  BY <1>1 DEF Types, log, process, InFlight
<1>5. Stages'
  BY <1>1, StagesKept DEF plugins
<1>6. Calm' /\ Draining'
  BY <1>1 DEF Calm, Draining, SomeDead, process
<1>7. Pledged'
  BY <1>1, <1>2, PledgeKept DEF log, SomeDead, process
<1>8. ExitsIdle'
  BY <1>1 DEF ExitsIdle, process, InFlight
<1>. QED
  BY <1>2, <1>3, <1>4, <1>5, <1>6, <1>7, <1>8
-----------------------------------------------------------------------------
(* IInv holds in every reachable state.                                    *)
THEOREM Invariance == Spec => []IInv
<1>1. IInv /\ [Next]_vars => IInv'
  <2>. SUFFICES ASSUME IInv, [Next]_vars PROVE IInv'
    OBVIOUS
  <2>1. CASE Start
    BY <2>1, ConnectedIInv, ConnectFailsIInv, LoadIInv, ListenIInv DEF Start
  <2>2. CASE Arrive \/ Serve
    BY <2>2, ArriveIInv, ConsumeIInv, FinishIInv DEF Serve
  <2>3. CASE Tick \/ InsertSettles
    BY <2>3, TickIInv, InsertSettlesIInv
  <2>4. CASE Signal
    BY <2>4, SignalIInv
  <2>5. CASE \E s \in Stores : Disconnected(s)
    BY <2>5, DisconnectedIInv
  <2>6. CASE ShutDown
    BY <2>6, CloseServerIInv, DisconnectFailsIInv DEF ShutDown
  <2>7. CASE Closed
    BY <2>7, ClosedIInv
  <2>8. CASE UNCHANGED vars
    BY <2>8, StutterIInv
  <2>. QED
    BY <2>1, <2>2, <2>3, <2>4, <2>5, <2>6, <2>7, <2>8 DEF Next
<1>. QED
  BY <1>1, InitIInv, PTL DEF Spec

(* Every variable keeps its type, those of the usage log and the registry  *)
(* included, and no more requests are under way than were accepted.        *)
THEOREM TypeCorrect == Spec => []TypeOK
<1>1. IInv => TypeOK
  BY LogFacts DEF IInv, RegistryInv, Types, TypeOK, Shutdowns
<1>. QED
  BY <1>1, Invariance, PTL

(* Until the first signal a listening server has its stores and plugins,   *)
(* and no request is refused for want of Redis.                            *)
THEOREM ServesUntilSignal == Spec => []ServesUntilSignalled
<1>1. IInv => ServesUntilSignalled
  <2>. SUFFICES ASSUME IInv, shutdowns = <<>>, server = "listening"
                PROVE  /\ \A s \in Stores : stores[s] = "up"
                       /\ Registry!Loaded /\ Registry!ReferencesResolve
    BY DEF IInv, Calm, ServesUntilSignalled
  <2>1. Registry!Loaded
    BY DEF IInv, Stages
  <2>2. awaiting = {}
    BY <2>1 DEF IInv, Stages, Registry!Loaded
  <2>. QED
    BY <2>1, <2>2, RegistryResolves DEF IInv, Calm
<1>. QED
  BY <1>1, Invariance, PTL

(* A process that has been listening exits only once every request it      *)
(* accepted is answered, and reports success; after a single signal,       *)
(* disconnecting is over, too.                                             *)
THEOREM IdleOnExit == Spec => []ExitsIdle
<1>1. IInv => ExitsIdle
  BY DEF IInv
<1>. QED
  BY <1>1, Invariance, PTL

(* After a single signal and no failure since, the entries that were       *)
(* stored or flushed by it are stored when the process is gone.            *)
THEOREM PledgeHonoured == Spec => []KeptOnExit
<1>1. IInv => KeptOnExit
  <2>. SUFFICES ASSUME IInv, exit # "no", promise # NoPromise, Len(shutdowns) = 1,
                       failures = promise.failures, ~SomeDead,
                       NEW e \in 1..promise.entries
                PROVE  stored[e] >= 1
    BY DEF KeptOnExit, SomeDead
  <2>. USE DEF IInv
  <2>1. Over
    BY DEF Stages, Pledged
  <2>2. shutdowns[1].awaits = {}
    BY <2>1, ShutdownFacts DEF Stages, Over
  <2>3. promise.entries <= Log!Durable
    BY <2>2 DEF Pledged
  <2>4. Log!Durable \in Nat /\ Log!NothingLost /\ promise.entries \in Nat
    BY LogFacts, ServerAssumption DEF Types
  <2>. QED
    BY <2>3, <2>4 DEF Log!NothingLost
<1>. QED
  BY <1>1, Invariance, PTL

(* In the process as a whole, too, where signals flush beside enqueues and *)
(* ticks, entries become durable in the order of arrival and stay so.      *)
THEOREM LogRefinement == Spec => Promises!Safety
<1>1. Init => Promises!Init
  <2>. SUFFICES ASSUME Init PROVE Promises!Init
    OBVIOUS
  <2>1. /\ sent = 0 /\ Log!Durable \in Nat /\ Log!Durable + Len(batch) <= sent
        /\ Len(batch) \in Nat
    BY LogInit, LogFacts DEF Init
  <2>2. Log!Durable = 0
    BY <2>1
  <2>. QED
    BY <2>1, <2>2 DEF Promises!Init
<1>2. IInv /\ [Next]_vars => [Promises!Next]_<<sent, Log!Durable>>
  <2>. SUFFICES ASSUME IInv, [Next]_vars
                PROVE  [Promises!Next]_<<sent, Log!Durable>>
    OBVIOUS
  <2>1. LogInv
    BY DEF IInv
  <2>2. CASE UNCHANGED log
    BY <2>1, <2>2, LogUnchanged DEF log
  <2>3. CASE \E kind \in {"served", "refused"} : Finish(kind)
    BY <2>1, <2>3, LogEnqueue DEF Finish, Promises!Next, Promises!Accept
  <2>4. CASE Tick \/ Signal
    BY <2>1, <2>4, LogFlush DEF Tick, Log!Tick, Signal
  <2>5. CASE InsertSettles
    <3>1. CASE Log!InsertFails
      BY <2>1, <3>1, LogFails
    <3>2. CASE Log!InsertSucceeds
      <4>1. /\ Log!Durable' = Log!Durable + Len(batch) /\ sent' = sent
            /\ Len(batch) \in Nat \ {0}
        <5>1. batch # <<>> /\ batch \in Seq(Log!Entries)
          BY <2>1, <3>2, LogFacts DEF Log!InsertSucceeds, Log!TypeOK
        <5>. QED
          BY <2>1, <3>2, <5>1, LogSucceeds, EmptySeq
      <4>2. Log!Durable \in Nat /\ sent \in Nat /\ Log!Durable + Len(batch) <= sent
        BY <2>1, LogFacts
      <4>3. Log!Durable' \in (Log!Durable + 1)..sent
        BY <4>1, <4>2
      <4>. QED
        BY <4>1, <4>3 DEF Promises!Next, Promises!Persist
    <3>. QED
      BY <2>5, <3>1, <3>2 DEF InsertSettles
  <2>. QED
    BY <2>2, <2>3, <2>4, <2>5
       DEF vars, Next, Start, Connected, ConnectFails, Load, Listen, Arrive, Serve, Consume,
           ConsumeFails, ConsumeAnew, Disconnected, ShutDown, CloseServer, DisconnectFails,
           Closed
<1>. QED
  BY <1>1, <1>2, Invariance, PTL DEF Spec, Promises!Safety
=============================================================================
