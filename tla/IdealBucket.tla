---------------------------- MODULE IdealBucket ----------------------------
(***************************************************************************)
(* A token bucket that is refilled all the time and forgets nothing: what  *)
(* the rate limiter amounts to if the gateways' clocks agree.              *)
(***************************************************************************)
EXTENDS Integers, Sequences

CONSTANTS
    Capacity,   \* what the bucket holds when it is full
    Step,       \* by how much time passes
    Rate,       \* what accrues in a step of time
    Token       \* what a request takes

VARIABLES
    time,
    level,    \* what the bucket holds
    taken     \* what each request took, in order: a token or nothing

vars == <<time, level, taken>>

Init == time = 0 /\ level = Capacity /\ taken = <<>>

Accrue ==
    /\ time' = time + Step
    /\ level' = IF level + Rate > Capacity THEN Capacity ELSE level + Rate
    /\ UNCHANGED taken

Admit ==
    /\ level >= Token
    /\ level' = level - Token
    /\ taken' = Append(taken, Token)
    /\ UNCHANGED time

Refuse ==
    /\ level < Token
    /\ taken' = Append(taken, 0)
    /\ UNCHANGED <<time, level>>

Next == Accrue \/ Admit \/ Refuse

Spec == Init /\ [][Next]_vars
=============================================================================
