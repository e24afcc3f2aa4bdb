--------------------------- MODULE PluginRegistry ---------------------------
(***************************************************************************)
(* The plugin registry of src/plugins/registry.ts: loadPlugins scans a     *)
(* directory and imports its files concurrently; each import that yields a *)
(* plugin enters it under its name, unless the name is taken.              *)
(***************************************************************************)
EXTENDS Integers, Sequences

CONSTANTS
    Files,       \* the module files of the plugins directory
    Names,       \* plugin names
    Exports,     \* the name of the plugin a file exports
    NoName,      \* ... or that its import throws or yields no plugin
    NoFile       \* no plugin of that name

VARIABLES
    registry,    \* `registry`: the file whose plugin has a name
    loaded,      \* `loaded`
    loading,     \* how far loadPlugins has come
    importing    \* files whose import is under way

vars == <<registry, loaded, loading, importing>>

Empty == [n \in Names |-> NoFile]

Init ==
    /\ registry = Empty
    /\ loaded = FALSE
    /\ loading = "no"
    /\ importing = {}

-----------------------------------------------------------------------------
(* loadPlugins up to its first await.                                      *)
LoadPlugins ==
    /\ loading = "no"
    /\ registry' = Empty
    /\ loaded' = TRUE
    /\ loading' = "scanning"
    /\ UNCHANGED importing

(* The directory is missing or cannot be read: there are no plugins.       *)
ScanFails ==
    /\ loading = "scanning"
    /\ loading' = "failed"
    /\ UNCHANGED <<registry, loaded, importing>>

(* The directory has been read: all its files are imported at once.        *)
Scan ==
    /\ loading = "scanning"
    /\ importing' = Files
    /\ loading' = IF Files = {} THEN "done" ELSE "importing"
    /\ UNCHANGED <<registry, loaded>>

(* Mutant: the first import that throws ends the load, as without the inner *)
(* try.                                                                     *)
ImportRejects(f) ==
    /\ loading = "importing" /\ f \in importing
    /\ importing' = importing \ {f}
    /\ registry' = IF Exports[f] # NoName /\ registry[Exports[f]] = NoFile
                   THEN [registry EXCEPT ![Exports[f]] = f]
                   ELSE registry
    /\ loading' = IF importing' = {} \/ Exports[f] = NoName THEN "done" ELSE "importing"
    /\ UNCHANGED loaded

(* The import of `f` settles.  A file without a plugin is skipped, and so  *)
(* is one whose plugin's name is taken: between has and set nothing else   *)
(* runs.  The load is over with the last of them.                          *)
Import(f) ==
    /\ loading = "importing" /\ f \in importing
    /\ importing' = importing \ {f}
    /\ registry' = IF Exports[f] # NoName /\ registry[Exports[f]] = NoFile
                   THEN [registry EXCEPT ![Exports[f]] = f]
                   ELSE registry
    /\ loading' = IF importing' = {} THEN "done" ELSE "importing"
    /\ UNCHANGED loaded

Next ==
    \/ LoadPlugins \/ ScanFails \/ Scan
    \/ \E f \in Files : Import(f)

Loaded == loading \in {"done", "failed"}

(* The plugins whose hooks a route's references resolve to, each at the    *)
(* place of its reference: a reference to no plugin is skipped.            *)
Resolve(refs) ==
    [i \in {j \in DOMAIN refs : registry[refs[j]] # NoFile} |-> registry[refs[i]]]
-----------------------------------------------------------------------------
TypeOK ==
    /\ registry \in [Names -> Files \union {NoFile}]
    /\ loaded \in BOOLEAN
    /\ loading \in {"no", "scanning", "importing", "done", "failed"}
    /\ importing \subseteq Files
    /\ importing # {} => loading = "importing"

(* Once the directory has been loaded, a reference resolves to the plugin  *)
(* of a file that exports its name, if there is any: of several such files *)
(* one is taken, and files that do not load stand in nobody's way.         *)
ReferencesResolve ==
    loading = "done" =>
        \A n \in Names :
            IF \E f \in Files : Exports[f] = n
            THEN 1 \in DOMAIN Resolve(<<n>>) /\ Exports[Resolve(<<n>>)[1]] = n
            ELSE Resolve(<<n>>) = <<>>
=============================================================================
