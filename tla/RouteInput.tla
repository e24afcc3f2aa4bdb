----------------------------- MODULE RouteInput -----------------------------
(***************************************************************************)
(* What the bodies of POST and PATCH make of a route: the normalisation of *)
(* src/proxy/route.validation.ts and the update document updateRoute of    *)
(* src/proxy/route.service.ts builds.  A body that validates is a function *)
(* on the fields it names; `upstream` and `plugins` name fields of their   *)
(* own.  Name, description, methods and authMode, which are treated like   *)
(* `enabled`, are left out, methods being a part of the pattern.           *)
(***************************************************************************)
EXTENDS Sequences

CONSTANTS
    Null,           \* null, which a PATCH may give for rateLimit
    NoLimit,        \* a document without rateLimit
    DefaultTimeout  \* upstream.timeoutMs if none is given

PluginLists == {"pre", "post", "error"}

Given(body, field, default) ==
    IF field \in DOMAIN body THEN body[field] ELSE default

(* A plugins object is always completed to its three lists.                *)
AllLists(plugins) == [l \in PluginLists |-> Given(plugins, l, <<>>)]

(* normalizeRouteCreateInput, whose result is stored as it is.             *)
Created(body) ==
    [pattern |-> body.pattern,
     enabled |-> Given(body, "enabled", TRUE),
     priority |-> Given(body, "priority", 0),
     upstream |-> [target |-> body.upstream.target,
                   timeoutMs |-> Given(body.upstream, "timeoutMs", DefaultTimeout)],
     plugins |-> AllLists(Given(body, "plugins", <<>>)),
     rateLimit |-> Given(body, "rateLimit", NoLimit)]

(* normalizeRouteUpdateInput: an upstream object that names nothing is     *)
(* dropped.                                                                *)
Normalized(body) ==
    LET kept == {f \in DOMAIN body : f = "upstream" => DOMAIN body.upstream # {}} IN
    [f \in kept |-> IF f = "plugins" THEN AllLists(body.plugins) ELSE body[f]]

(* The document after findByIdAndUpdate with the $set and $unset of        *)
(* updateRoute: an upstream's fields are set one by one, plugins and       *)
(* rateLimit as a whole.                                                   *)
Patched(def, body) ==
    LET input == Normalized(body)
        unset == {f \in DOMAIN input : f = "rateLimit" /\ input[f] = Null}
        set == DOMAIN input \ unset IN
    [f \in DOMAIN def |->
        CASE f \in unset -> NoLimit
          [] f \in set /\ f = "upstream" ->
                 [k \in DOMAIN def.upstream |-> Given(input.upstream, k, def.upstream[k])]
          [] f \in set /\ f # "upstream" -> input[f]
          [] OTHER -> def[f]]
=============================================================================
