----------------------------- MODULE RouteTable -----------------------------
(***************************************************************************)
(* The routes collection of src/proxy/route.model.ts as the gateway reads  *)
(* it, and the choice of a route for a request (fetchRoutes and            *)
(* resolveRoute of src/proxy/route.cache.ts).                              *)
(*                                                                         *)
(* A definition is what the administrator chooses of a route (see          *)
(* RouteInput).  Its pattern is the set of targets, method and path, it    *)
(* serves, and whether path-to-regexp accepts it: the validation only      *)
(* checks the leading slash.                                               *)
(***************************************************************************)
EXTENDS Integers

CONSTANTS
    RouteIds,      \* names of routes
    Targets,       \* method and path of a request, its escapes well-formed
    Definitions,   \* the definitions routes may have
    Absent,        \* what an id without a document maps to
    NoRoute        \* resolveRoute returned null

ASSUME RouteTableAssumption ==
    /\ \A d \in Definitions :
          /\ d.priority \in Nat
          /\ d.enabled \in BOOLEAN
          /\ d.pattern.serves \subseteq Targets
          /\ d.pattern.wellFormed \in BOOLEAN
    /\ NoRoute \notin RouteIds

(* A stored document: the definition and mongoose's timestamp of its last  *)
(* update.                                                                 *)
Documents == [def : Definitions, updatedAt : Nat]

Tables == [RouteIds -> Documents \union {Absent}]

Present(table) == {i \in RouteIds : table[i] # Absent}

(* find({ enabled: true })                                                 *)
Active(table) == {i \in Present(table) : table[i].def.enabled}

(* Mutant: the patterns of disabled routes are compiled as well.            *)
EveryPattern(table) == \A i \in Present(table) : table[i].def.pattern.wellFormed

(* buildCompiledRoute succeeds for every record found; one pattern that is *)
(* rejected makes Promise.all, and with it the whole fetch, reject.        *)
Compilable(table) == \A i \in Active(table) : table[i].def.pattern.wellFormed

(* Mutant: sort({ priority: 1, updatedAt: -1 }).                            *)
LowestFirst(a, b) ==
    \/ a.def.priority < b.def.priority
    \/ a.def.priority = b.def.priority /\ a.updatedAt > b.updatedAt

(* sort({ priority: -1, updatedAt: -1 })                                   *)
Precedes(a, b) ==
    \/ a.def.priority > b.def.priority
    \/ a.def.priority = b.def.priority /\ a.updatedAt > b.updatedAt

Matching(table, target) ==
    {i \in Active(table) : target \in table[i].def.pattern.serves}

(* The routes resolveRoute may return for a target: the first match in the *)
(* order of the sort, any of those the sort does not tell apart.           *)
Resolve(table, target) ==
    LET found == Matching(table, target) IN
    IF found = {}
    THEN {NoRoute}
    ELSE {i \in found : \A j \in found : ~Precedes(table[j], table[i])}
=============================================================================
