----------------------------- MODULE MCGateway -----------------------------
(* Instances of Gateway for TLC. *)
EXTENDS Gateway

(* Every authentication mode, with no hook of any kind, or with several.   *)
MCRoutes ==
    {[authMode |-> m, pre |-> 3, post |-> 2, error |-> 2] : m \in Modes}
        \union {[authMode |-> m, pre |-> 0, post |-> 0, error |-> 0] : m \in Modes}
=============================================================================
