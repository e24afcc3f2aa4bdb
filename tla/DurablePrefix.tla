--------------------------- MODULE DurablePrefix ---------------------------
(***************************************************************************)
(* What the usage log promises its callers, with no queue, batch or timer: *)
(* entries are accepted one after the other, and a growing prefix of them  *)
(* is durable.  Nothing durable is ever taken back, nothing is made        *)
(* durable ahead of an older entry, and every accepted entry becomes       *)
(* durable in the end.                                                     *)
(***************************************************************************)
EXTENDS Naturals

VARIABLES
    accepted,   \* number of entries accepted so far
    durable     \* the first `durable` of them are in the store for good

Init == accepted = 0 /\ durable = 0

Accept ==
    /\ accepted' = accepted + 1
    /\ UNCHANGED durable

(* One bulk write may make several entries durable, always the oldest.     *)
Persist ==
    /\ durable' \in (durable + 1)..accepted
    /\ UNCHANGED accepted

Next == Accept \/ Persist

Safety == Init /\ [][Next]_<<accepted, durable>>

Spec == Safety /\ WF_<<accepted, durable>>(Persist)
=============================================================================
