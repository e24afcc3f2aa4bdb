-------------------------- MODULE BoundedStaleness --------------------------
(***************************************************************************)
(* What the routing layer promises, with no cache, no fetch and no         *)
(* invalidation: a request is routed by a table that was current at some   *)
(* moment less than MaxStaleness before its arrival, or later, or else it  *)
(* is refused; and every request is answered.                              *)
(***************************************************************************)
EXTENDS RouteTable, Sequences

CONSTANTS
    Requests,       \* the requests
    MaxStaleness,   \* how far a routing decision may lag behind the table
    Refused,        \* the answer of a request that could not be routed
    NotYet          \* no arrival, no answer

VARIABLES
    now,       \* the clock
    history,   \* the tables that were current, oldest first, each with the
               \* time it became so
    arrival,   \* target and time of each request that has arrived
    answer     \* what each request was answered

vars == <<now, history, arrival, answer>>

(* The v-th table was still current at some time later than t.             *)
CurrentAfter(v, t) == v = Len(history) \/ history[v + 1].at > t

Answers(target, at) ==
    {Refused} \union
    UNION {Resolve(history[v].table, target) :
              v \in {w \in 1..Len(history) : CurrentAfter(w, at - MaxStaleness)}}

Init ==
    /\ Len(history) = 1 /\ history[1].at = now
    /\ arrival = [r \in Requests |-> NotYet]
    /\ answer = [r \in Requests |-> NotYet]

Advance ==
    /\ now' = now + 1
    /\ UNCHANGED <<history, arrival, answer>>

(* Another table becomes current.                                          *)
Write ==
    /\ Len(history') = Len(history) + 1
    /\ \A v \in 1..Len(history) : history'[v] = history[v]
    /\ history'[Len(history')].at = now
    /\ UNCHANGED <<now, arrival, answer>>

Ask(r) ==
    /\ arrival[r] = NotYet
    /\ \E target \in Targets :
          arrival' = [arrival EXCEPT ![r] = [target |-> target, at |-> now]]
    /\ UNCHANGED <<now, history>>

Arrive(r) == Ask(r) /\ UNCHANGED answer

Reply(r) ==
    /\ arrival[r] # NotYet /\ answer[r] = NotYet
    /\ \E a \in Answers(arrival[r].target, arrival[r].at) :
          answer' = [answer EXCEPT ![r] = a]
    /\ UNCHANGED <<now, history, arrival>>

(* A request answered the moment it arrives.                               *)
ReplyAtOnce(r) ==
    /\ Ask(r) /\ answer[r] = NotYet
    /\ \E a \in Answers(arrival'[r].target, now) :
          answer' = [answer EXCEPT ![r] = a]

Next ==
    \/ Advance
    \/ Write
    \/ \E r \in Requests : Arrive(r) \/ Reply(r) \/ ReplyAtOnce(r)

Safety == Init /\ [][Next]_vars

Spec == Safety /\ \A r \in Requests : WF_vars(Reply(r))
=============================================================================
