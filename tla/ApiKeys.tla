------------------------------ MODULE ApiKeys ------------------------------
(***************************************************************************)
(* The life of one API key (src/auth/api-key.service.ts): issued, updated, *)
(* rotated and revoked by administrators, and verified by requests, all of *)
(* them suspended in argon2 or in MongoDB between reading and writing.     *)
(*                                                                         *)
(* Keys share nothing, so one is all there is.  A secret is the number it  *)
(* was generated as; argon2 accepts a secret against the hash of that      *)
(* secret only.  The collection is remembered write by write: `writes` is  *)
(* the history of the document, its last element the document now.  A      *)
(* token stands for the secret in it: what buildToken makes,               *)
(* parseApiKeyToken takes apart again, as long as API_KEY_PREFIX has no    *)
(* dot.  A malformed token is refused before anything is awaited and left  *)
(* out, and so is `lastUsedAt`, which nothing reads.                       *)
(***************************************************************************)
EXTENDS Integers, Sequences, FiniteSets

CONSTANTS
    Admins,        \* connections that issue admin operations
    Requests,      \* requests that present a token of the key
    Scopes,        \* scopes a key may have
    None,          \* no operation, no verification, no verdict
    Unset,         \* a field an update does not set
    MaxWrites,     \* bound: writes of the document
    MaxFailures    \* bound: calls of MongoDB that fail

ASSUME ApiKeysAssumption ==
    /\ IsFiniteSet(Admins)
    /\ MaxWrites \in Nat /\ MaxFailures \in Nat
    /\ Unset \notin {"active", "revoked"}
    /\ \A scopes \in SUBSET Scopes : Unset # scopes
    /\ None \notin [secret : Nat, status : {"active", "revoked"}, scopes : SUBSET Scopes]
    /\ None \notin [secret : Nat, since : Nat, found : Nat]
    /\ None \notin [accepted : BOOLEAN, secret : Nat, scopes : SUBSET Scopes,
                    since : Nat, until : Nat]

VARIABLES
    writes,       \* the document after each write, and the kind of the write
    secrets,      \* secrets generated so far
    handed,       \* secrets whose tokens an administrator has been given
    operation,    \* the admin operation each connection has under way
    underway,     \* what each request's verification has read
    verdict,      \* what came of it
    failures      \* calls of MongoDB that failed

vars == <<writes, secrets, handed, operation, underway, verdict, failures>>

Kinds == {"issue", "update", "rotate", "revoke"}
States == {"active", "revoked"}
Keys == [secret : Nat, status : States, scopes : SUBSET Scopes]

Exists == writes # <<>>
Key == writes[Len(writes)].key

(* The fields of an update: a status, scopes, or neither (other metadata). *)
Patches == [status : {Unset} \union States,
            scopes : {Unset} \union SUBSET Scopes]

Init ==
    /\ writes = <<>>
    /\ secrets = 0
    /\ handed = {}
    /\ operation = [a \in Admins |-> None]
    /\ underway = [r \in Requests |-> None]
    /\ verdict = [r \in Requests |-> None]
    /\ failures = 0

-----------------------------------------------------------------------------
(* Administration.                                                         *)

Busy == {a \in Admins : operation[a] # None}

(* Writes that have happened or may still.                                 *)
Expected == Len(writes) + Cardinality(Busy)

Idle(a) == operation[a] = None /\ Expected < MaxWrites

Begin(a, kind, patch, secret) ==
    operation' = [operation EXCEPT ![a] =
        [kind |-> kind, patch |-> patch, secret |-> secret, written |-> FALSE]]

NoPatch == [status |-> Unset, scopes |-> Unset]

(* issueApiKey and rotateApiKey up to the hashing of a new secret.         *)
BeginIssue(a) ==
    /\ Idle(a) /\ Expected = 0
    /\ \E scopes \in SUBSET Scopes :
          Begin(a, "issue", [status |-> "active", scopes |-> scopes], secrets + 1)
    /\ secrets' = secrets + 1
    /\ UNCHANGED <<writes, handed, underway, verdict, failures>>

BeginRotate(a) ==
    /\ Idle(a) /\ Exists
    /\ Begin(a, "rotate", NoPatch, secrets + 1)
    /\ secrets' = secrets + 1
    /\ UNCHANGED <<writes, handed, underway, verdict, failures>>

(* updateApiKey and revokeApiKey up to the call of MongoDB.                *)
BeginEdit(a) ==
    /\ Idle(a) /\ Exists
    /\ \/ \E patch \in Patches : Begin(a, "update", patch, 0)
       \/ Begin(a, "revoke", NoPatch, 0)
    /\ UNCHANGED <<writes, secrets, handed, underway, verdict, failures>>

(* Mutant: a rotation leaves the status alone.                              *)
SilentRotation(op) == [Key EXCEPT !.secret = op.secret]

Rotated(op) == [Key EXCEPT !.secret = op.secret, !.status = "active"]

(* validateScopes turns an empty list into no scopes at all, which for an  *)
(* update means that they stay as they are.                                *)
Updated(op) ==
    [Key EXCEPT
        !.status = IF op.patch.status = Unset THEN @ ELSE op.patch.status,
        !.scopes = IF op.patch.scopes \in {Unset, {}} THEN @ ELSE op.patch.scopes]

Written(op) ==
    CASE op.kind = "issue" -> [secret |-> op.secret, status |-> op.patch.status,
                               scopes |-> op.patch.scopes]
      [] op.kind = "rotate" -> Rotated(op)
      [] op.kind = "update" -> Updated(op)
      [] op.kind = "revoke" -> [Key EXCEPT !.status = "revoked"]

(* MongoDB applies the write.                                              *)
Write(a) ==
    /\ operation[a] # None /\ ~operation[a].written
    /\ writes' = Append(writes, [kind |-> operation[a].kind,
                                 key |-> Written(operation[a])])
    /\ operation' = [operation EXCEPT ![a].written = TRUE]
    /\ UNCHANGED <<secrets, handed, underway, verdict, failures>>

(* Mutant: the token is built from another secret than the one hashed.      *)
HandAnother(op) ==
    IF op.kind \in {"issue", "rotate"} THEN handed \union {secrets + 1} ELSE handed

(* The token an operation answers with, given out this once.               *)
HandOut(op) ==
    IF op.kind \in {"issue", "rotate"} THEN handed \union {op.secret} ELSE handed

(* MongoDB's answer arrives and the administrator is answered.             *)
Acknowledge(a) ==
    /\ operation[a] # None /\ operation[a].written
    /\ handed' = HandOut(operation[a])
    /\ operation' = [operation EXCEPT ![a] = None]
    /\ UNCHANGED <<writes, secrets, underway, verdict, failures>>

(* The call fails, before or after the write: 500, and a new secret is     *)
(* lost.                                                                   *)
AdminFails(a) ==
    /\ operation[a] # None
    /\ failures < MaxFailures
    /\ failures' = failures + 1
    /\ operation' = [operation EXCEPT ![a] = None]
    /\ UNCHANGED <<writes, secrets, handed, underway, verdict>>
-----------------------------------------------------------------------------
(* Verification.                                                           *)

(* verifyApiKeyToken up to findOne, with a token that was handed out or    *)
(* one with the right display id and a made-up secret, 0.                  *)
Present(r) ==
    /\ underway[r] = None /\ verdict[r] = None
    /\ \E secret \in handed \union {0} :
          underway' = [underway EXCEPT ![r] =
              [secret |-> secret, since |-> Len(writes), found |-> 0]]
    /\ UNCHANGED <<writes, secrets, handed, operation, verdict, failures>>

Conclude(r, accepted, scopes) ==
    /\ verdict' = [verdict EXCEPT ![r] =
           [accepted |-> accepted, secret |-> underway[r].secret,
            scopes |-> scopes, since |-> underway[r].since, until |-> Len(writes)]]
    /\ underway' = [underway EXCEPT ![r] = None]

(* Mutant: the query does not ask for the status.                           *)
AnyStatus == Exists

(* findOne({ displayId, status: 'active' })                                *)
Findable == Exists /\ Key.status = "active"

(* The document is found, and argon2 is awaited ...                        *)
Find(r) ==
    /\ underway[r] # None /\ underway[r].found = 0
    /\ Findable
    /\ underway' = [underway EXCEPT ![r].found = Len(writes)]
    /\ UNCHANGED <<writes, secrets, handed, operation, verdict, failures>>

(* ... or it is not.                                                       *)
NotFound(r) ==
    /\ underway[r] # None /\ underway[r].found = 0
    /\ ~Findable
    /\ Conclude(r, FALSE, {})
    /\ UNCHANGED <<writes, secrets, handed, operation, failures>>

(* Mutant: the key is read again once its secret has been verified.         *)
CompareAndReread(r) ==
    /\ underway[r] # None /\ underway[r].found # 0
    /\ IF writes[underway[r].found].key.secret = underway[r].secret
       THEN Conclude(r, TRUE, Key.scopes)
       ELSE Conclude(r, FALSE, {})
    /\ UNCHANGED <<writes, secrets, handed, operation, failures>>

(* argon2.verify answers for the hash that was read, and the key is given  *)
(* the scopes that were read, whatever was written meanwhile.              *)
Compare(r) ==
    /\ underway[r] # None /\ underway[r].found # 0
    /\ LET read == writes[underway[r].found].key IN
       IF read.secret = underway[r].secret
       THEN Conclude(r, TRUE, read.scopes)
       ELSE Conclude(r, FALSE, {})
    /\ UNCHANGED <<writes, secrets, handed, operation, failures>>

(* findOne fails: the request is answered 500.                             *)
FindFails(r) ==
    /\ underway[r] # None /\ underway[r].found = 0
    /\ failures < MaxFailures
    /\ failures' = failures + 1
    /\ underway' = [underway EXCEPT ![r] = None]
    /\ UNCHANGED <<writes, secrets, handed, operation, verdict>>

Next ==
    \/ \E a \in Admins :
          \/ BeginIssue(a) \/ BeginRotate(a) \/ BeginEdit(a)
          \/ Write(a) \/ Acknowledge(a) \/ AdminFails(a)
    \/ \E r \in Requests :
          Present(r) \/ Find(r) \/ NotFound(r) \/ Compare(r) \/ FindFails(r)

Spec == Init /\ [][Next]_vars
-----------------------------------------------------------------------------
(* Properties.                                                             *)

(* Type invariant.                                                         *)
TypeOK ==
    /\ writes \in Seq([kind : Kinds, key : Keys])
    /\ Len(writes) <= MaxWrites
    /\ secrets \in Nat
    /\ handed \subseteq 1..secrets
    /\ operation \in [Admins -> [kind : Kinds, patch : Patches, secret : 0..secrets,
                                written : BOOLEAN] \union {None}]
    /\ underway \in [Requests -> [secret : 0..secrets, since : 0..Len(writes),
                                 found : 0..Len(writes)] \union {None}]
    /\ verdict \in [Requests -> [accepted : BOOLEAN, secret : 0..secrets,
                                scopes : SUBSET Scopes, since : 0..Len(writes),
                                until : 0..Len(writes)] \union {None}]
    /\ failures \in 0..MaxFailures

(* The document while a verification ran.                                  *)
Seen(v) == {writes[i].key : i \in {n \in v.since..v.until : n > 0}}

(* Verifying a token is as good as an atomic look at the key: a token is   *)
(* accepted only if, at one moment while it was being verified, the key    *)
(* was active, had its secret, and had the scopes that were granted.  In   *)
(* particular a key whose revocation or rotation was complete when the     *)
(* verification began is refused, and a made-up secret always is.          *)
AcceptedWhileValid ==
    \A r \in Requests : verdict[r] # None /\ verdict[r].accepted =>
        \E key \in Seen(verdict[r]) :
            /\ key.status = "active"
            /\ key.secret = verdict[r].secret
            /\ key.scopes = verdict[r].scopes

(* The write that put a secret in force.                                   *)
Installed(secret) ==
    {i \in DOMAIN writes : /\ writes[i].kind \in {"issue", "rotate"}
                           /\ writes[i].key.secret = secret}

(* A token handed out works: one that is refused was revoked, or replaced  *)
(* by another rotation, by a write later than the one that installed it.   *)
(* Rotations overlap, so the token handed out last need not be in force.   *)
HandedTokenWorks ==
    \A r \in Requests :
        verdict[r] # None /\ ~verdict[r].accepted /\ verdict[r].secret # 0 =>
            \E i \in Installed(verdict[r].secret), j \in 1..verdict[r].until :
                /\ i < j
                /\ \/ writes[j].key.status = "revoked"
                   \/ writes[j].kind = "rotate"

Judgement(secret, read) ==
    IF read.secret = secret
    THEN [accepted |-> TRUE, secret |-> secret, scopes |-> read.scopes]
    ELSE [accepted |-> FALSE, secret |-> secret, scopes |-> {}]

(* The key, if there is one.                                               *)
Document == IF Exists THEN Key ELSE None

(* The secrets that have been put in force.                                *)
EverInForce ==
    {writes[i].key.secret :
        i \in {n \in DOMAIN writes : writes[n].kind \in {"issue", "rotate"}}}

(* A verification is decided once the document has been found.             *)
Decided(r) ==
    IF underway[r] # None /\ underway[r].found # 0
    THEN Judgement(underway[r].secret, writes[underway[r].found].key)
    ELSE IF verdict[r] = None THEN None
    ELSE [accepted |-> verdict[r].accepted, secret |-> verdict[r].secret,
          scopes |-> verdict[r].scopes]

Decisions == [r \in Requests |-> Decided(r)]

(* The key service implements AtomicKeys: however operations and           *)
(* verifications overlap and fail, it is as if each took effect at one     *)
(* moment, where a verification does when it finds the document.           *)
Abstract == INSTANCE AtomicKeys WITH
    key <- Document, installed <- EverInForce, verdict <- Decisions

ImplementsAtomicKeys == Abstract!Spec
=============================================================================
