----------------------------- MODULE AtomicKeys -----------------------------
(***************************************************************************)
(* What the key service promises of a key, with nothing ever suspended: a  *)
(* secret is new when it is put in force, and handed out once, after that; *)
(* administrators change the key in one step each; and a token is judged   *)
(* in one step, by the key as it is then.                                  *)
(***************************************************************************)
EXTENDS Integers

CONSTANTS
    Requests,   \* requests that present a token of the key
    Scopes,     \* scopes a key may have
    None        \* no key, no verdict

VARIABLES
    key,         \* the key, once it has been issued
    installed,   \* secrets that are or have been in force
    handed,      \* secrets whose tokens an administrator has been given
    verdict      \* how each request's token was judged

vars == <<key, installed, handed, verdict>>

Active == key # None /\ key.status = "active"

Init ==
    /\ key = None
    /\ installed = {}
    /\ handed = {}
    /\ verdict = [r \in Requests |-> None]

(* The key gets a secret it never had.                                     *)
Install ==
    /\ key'.secret \notin installed \union {0}
    /\ installed' = installed \union {key'.secret}
    /\ UNCHANGED <<handed, verdict>>

Issue ==
    /\ key = None
    /\ key' \in [secret : Nat, status : {"active"}, scopes : SUBSET Scopes]
    /\ Install

Rotate ==
    /\ key # None
    /\ key' = [key EXCEPT !.secret = key'.secret, !.status = "active"]
    /\ Install

(* An update or a revocation.                                              *)
Edit ==
    /\ key # None
    /\ key' \in [secret : {key.secret}, status : {"active", "revoked"},
                 scopes : SUBSET Scopes]
    /\ UNCHANGED <<installed, handed, verdict>>

HandOut ==
    /\ \E secret \in installed \ handed : handed' = handed \union {secret}
    /\ UNCHANGED <<key, installed, verdict>>

Judged(secret) ==
    IF Active /\ key.secret = secret
    THEN [accepted |-> TRUE, secret |-> secret, scopes |-> key.scopes]
    ELSE [accepted |-> FALSE, secret |-> secret, scopes |-> {}]

(* A token that was handed out, or a made-up one with secret 0.            *)
Verify(r) ==
    /\ verdict[r] = None
    /\ \E secret \in handed \union {0} :
          verdict' = [verdict EXCEPT ![r] = Judged(secret)]
    /\ UNCHANGED <<key, installed, handed>>

Next == Issue \/ Rotate \/ Edit \/ HandOut \/ \E r \in Requests : Verify(r)

Spec == Init /\ [][Next]_vars
=============================================================================
