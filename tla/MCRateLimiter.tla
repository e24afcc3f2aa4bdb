--------------------------- MODULE MCRateLimiter ---------------------------
(* Instance of RateLimiter for TLC. *)
EXTENDS RateLimiter, TLC

(* A clock behind Redis's, and one that agrees with it.                   *)
MCSkews == {-2, 0}

(* With 4 units a token and 2 a millisecond: 1 per 2 ms, 0.5 per 1 ms,    *)
(* which never grants anything, and 1.5 per 1.5 ms, a window which PEXPIRE *)
(* rejects.                                                                *)
MCPolicies == {[limit |-> 4, window |-> 4],
               [limit |-> 2, window |-> 2],
               [limit |-> 6, window |-> 3]}

(* One policy, 2.5 per 3 ms with 6 units a token, and clocks that agree    *)
(* with each other.                                                        *)
MCOnePolicy == {[limit |-> 15, window |-> 3]}
MCOneSkew == {-1}

Symmetry == Permutations(Calls)
=============================================================================
