---------------------------- MODULE MCRouteCache ----------------------------
(* Instances of RouteCache: two requests compete on one gateway.           *)
EXTENDS RouteCache, TLC

CONSTANTS g1, g2, q1, q2, a1, a2, get

(* One administrator uses that gateway, another one a second.              *)
MCGatewayOf == [c \in Requests \union Admins |-> IF c = a2 THEN g2 ELSE g1]

Pattern(wellFormed) == [serves |-> {get}, wellFormed |-> wellFormed]

Route(wellFormed) ==
    [pattern |-> Pattern(wellFormed), upstream |-> [target |-> "orders"]]

(* A good route, and one with a bad pattern; switching either off and on,  *)
(* and spoiling the pattern.                                               *)
MCCreates == {Route(TRUE), Route(FALSE)}
MCPatches ==
    {[enabled |-> FALSE], [enabled |-> TRUE], [pattern |-> Pattern(FALSE)]}
MCDefinitions ==
    {[Created(c) EXCEPT !.enabled = e] : c \in MCCreates, e \in BOOLEAN}

(* Two administrators on one gateway.                                      *)
OneGateway == [c \in Requests \union Admins |-> g1]
Interchangeable == Permutations(Requests) \union Permutations(Admins)

(* Good routes of different priority, one with a limit and hooks; a patch  *)
(* of the priority and one field of the upstream, and one of a plugin list *)
(* and the limit.                                                          *)
Limited ==
    [pattern |-> Pattern(TRUE), upstream |-> [target |-> "orders"],
     plugins |-> [post |-> <<"audit">>], rateLimit |-> "low"]
Urgent ==
    [pattern |-> Pattern(TRUE), upstream |-> [target |-> "stock", timeoutMs |-> "short"],
     priority |-> 1]
MCMergeCreates == {Limited, Urgent}
Raise == [priority |-> 1, upstream |-> [timeoutMs |-> "long"]]
Refit == [plugins |-> [pre |-> <<"header">>], rateLimit |-> Null]
MCMergePatches == {Raise, Refit}
MCMergeDefinitions ==
    LET created == {Created(c) : c \in MCMergeCreates}
        refitted == {Patched(d, Refit) : d \in created} IN
    created \union refitted \union {Patched(d, Raise) : d \in created \union refitted}

(* Good routes of different priority, never patched.                       *)
MCGoodCreates == {Route(TRUE), Urgent}
MCGoodDefinitions == {Created(c) : c \in MCGoodCreates}
=============================================================================
