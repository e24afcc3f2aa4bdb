-------------------------- MODULE AtomicKeysProofs --------------------------
(***************************************************************************)
(* Proof that ApiKeys implements AtomicKeys, for any number of             *)
(* administrators and requests.  To the invariant of ApiKeysProofs it adds *)
(* Fresh: a secret under way was never in force and is nobody else's, so   *)
(* that rotations that overlap are one rotation after the other, and a     *)
(* request is judged once, by a token that was handed out.                 *)
(***************************************************************************)
EXTENDS ApiKeysProofs

(* The secret of an operation is its own until it is written, and its      *)
(* token not handed out before the operation is over.                      *)
Own(a) ==
    LET op == operation[a] IN
    op.kind \in Installs =>
        /\ op.secret \notin handed
        /\ ~op.written => op.secret \notin EverInForce
        /\ \A b \in Admins \ {a} :
              operation[b] # None /\ operation[b].kind \in Installs =>
                  operation[b].secret # op.secret

Fresh ==
    /\ EverInForce \subseteq 1..secrets
    /\ \A a \in Admins : operation[a] # None => Own(a)
    /\ \A r \in Requests : underway[r] # None =>
          verdict[r] = None /\ underway[r].secret \in handed \union {0}
-----------------------------------------------------------------------------
LEMMA EverInForceIs ==
    ASSUME TypeOK
    PROVE  EverInForce = {s \in Nat : Installed(s) # {}}
<1>1. \A i \in DOMAIN writes : writes[i].key.secret \in Nat
  BY WritesType DEF Keys
<1>. QED
  BY <1>1 DEF EverInForce, Installed

(* An operation begins, with the next secret if it needs one.              *)
LEMMA BeginFresh ==
    ASSUME IInv, Fresh, NEW a \in Admins, NEW op,
           operation' = [operation EXCEPT ![a] = op],
           UNCHANGED <<writes, handed, underway, verdict>>,
           \/ op.kind \notin Installs /\ secrets' = secrets
           \/ op.secret = secrets + 1 /\ secrets' = secrets + 1
    PROVE  Fresh'
<1>1. /\ operation'[a] = op
      /\ \A b \in Admins \ {a} : operation'[b] = operation[b]
  BY DEF IInv, TypeOK
<1>2. /\ EverInForce' = EverInForce /\ secrets \in Nat /\ secrets' \in Nat
      /\ secrets <= secrets' /\ EverInForce \subseteq 1..secrets
      /\ handed' = handed /\ handed \subseteq 1..secrets
  BY DEF EverInForce, IInv, TypeOK, Fresh
<1>3. \A b \in Admins : operation[b] # None => operation[b].secret \in 0..secrets
  BY OperationType DEF IInv
<1>4. ASSUME NEW b \in Admins, operation'[b] # None, operation'[b].kind \in Installs
      PROVE  /\ operation'[b].secret \notin handed'
             /\ ~operation'[b].written => operation'[b].secret \notin EverInForce'
             /\ \A c \in Admins \ {b} :
                   operation'[c] # None /\ operation'[c].kind \in Installs =>
                       operation'[c].secret # operation'[b].secret
  <2>1. CASE b = a
    <3>1. operation'[b].secret = secrets + 1
      BY <1>1, <1>4, <2>1
    <3>. QED
      BY <1>1, <1>2, <1>3, <2>1, <3>1
  <2>2. CASE b # a
    <3>1. operation'[b] = operation[b] /\ Own(b)
      BY <1>1, <1>4, <2>2 DEF Fresh
    <3>2. ASSUME NEW c \in Admins \ {b}, operation'[c] # None,
                 operation'[c].kind \in Installs
          PROVE  operation'[c].secret # operation'[b].secret
      <4>1. CASE c = a
        BY <1>1, <1>2, <1>3, <1>4, <3>1, <3>2, <4>1
      <4>2. CASE c # a
        BY <1>1, <1>4, <3>1, <3>2, <4>2 DEF Own
      <4>. QED
        BY <4>1, <4>2
    <3>. QED
      BY <1>2, <1>4, <3>1, <3>2 DEF Own
  <2>. QED
    BY <2>1, <2>2
<1>5. \A b \in Admins : operation'[b] # None => Own(b)'
  BY <1>4 DEF Own
<1>6. EverInForce' \subseteq 1..secrets'
  BY <1>2
<1>7. \A r \in Requests : underway'[r] # None =>
          verdict'[r] = None /\ underway'[r].secret \in handed' \union {0}
  BY DEF Fresh
<1>. QED
  BY <1>5, <1>6, <1>7 DEF Fresh

LEMMA AdminBeginsFresh ==
    ASSUME IInv, Fresh, NEW a \in Admins,
           BeginIssue(a) \/ BeginRotate(a) \/ BeginEdit(a)
    PROVE  Fresh'
<1>1. UNCHANGED <<writes, handed, underway, verdict>>
  BY DEF BeginIssue, BeginRotate, BeginEdit
<1>2. PICK kind, patch, secret :
          /\ Begin(a, kind, patch, secret)
          /\ \/ kind \notin Installs /\ secrets' = secrets
             \/ secret = secrets + 1 /\ secrets' = secrets + 1
  <2>1. CASE BeginIssue(a)
    <3>1. PICK scopes : Begin(a, "issue", [status |-> "active", scopes |-> scopes],
                              secrets + 1)
      BY <2>1 DEF BeginIssue
    <3>. QED
      BY <2>1, <3>1 DEF BeginIssue
  <2>2. CASE BeginRotate(a)
    BY <2>2 DEF BeginRotate
  <2>3. CASE BeginEdit(a)
    <3>1. /\ secrets' = secrets
          /\ (\E patch : Begin(a, "update", patch, 0)) \/ Begin(a, "revoke", NoPatch, 0)
      BY <2>3 DEF BeginEdit
    <3>2. "update" \notin Installs /\ "revoke" \notin Installs
      BY DEF Installs
    <3>. QED
      BY <3>1, <3>2
  <2>. QED
    BY <2>1, <2>2, <2>3
<1>3. PICK op : op = [kind |-> kind, patch |-> patch, secret |-> secret, written |-> FALSE]
  OBVIOUS
<1>4. /\ operation' = [operation EXCEPT ![a] = op]
      /\ op.kind = kind /\ op.secret = secret
  BY <1>2, <1>3 DEF Begin
<1>5. \/ op.kind \notin Installs /\ secrets' = secrets
      \/ op.secret = secrets + 1 /\ secrets' = secrets + 1
  BY <1>2, <1>4
<1>. QED
  BY <1>1, <1>4, <1>5, BeginFresh

(* What a write puts in force.                                             *)
LEMMA WriteInForce ==
    ASSUME IInv, NEW a \in Admins, Write(a)
    PROVE  EverInForce' = IF operation[a].kind \in Installs
                          THEN EverInForce \union {operation[a].secret}
                          ELSE EverInForce
<1>1. PICK op, n : op = operation[a] /\ n = Len(writes)
  OBVIOUS
<1>2. op # None /\ ~op.written
  BY <1>1 DEF Write
<1>3. /\ n \in Nat /\ DOMAIN writes = 1..n /\ DOMAIN writes' = 1..(n + 1)
      /\ \A i \in 1..n : writes'[i] = writes[i]
      /\ writes'[n + 1].kind = op.kind /\ writes'[n + 1].key = Written(op)
  BY <1>1, WriteAdded
<1>4. op.kind \in Installs => Written(op).secret = op.secret
  BY <1>1, <1>2, WrittenFacts
<1>5. ASSUME NEW s
      PROVE  s \in EverInForce' <=> \/ s \in EverInForce
                                    \/ op.kind \in Installs /\ s = op.secret
  <2>1. s \in EverInForce <=>
            \E i \in 1..n : writes[i].kind \in Installs /\ writes[i].key.secret = s
    BY <1>3 DEF EverInForce, Installs
  <2>2. s \in EverInForce' <=>
            \E i \in 1..(n + 1) : writes'[i].kind \in Installs /\ writes'[i].key.secret = s
    BY <1>3 DEF EverInForce, Installs
  <2>3. \A i : i \in 1..(n + 1) <=> i \in 1..n \/ i = n + 1
    BY <1>3
  <2>4. s \in EverInForce' <=>
            \/ \E i \in 1..n : writes'[i].kind \in Installs /\ writes'[i].key.secret = s
            \/ op.kind \in Installs /\ Written(op).secret = s
    BY <1>3, <2>2, <2>3, Zenon
  <2>5. (\E i \in 1..n : writes'[i].kind \in Installs /\ writes'[i].key.secret = s)
            <=> s \in EverInForce
    BY <1>3, <2>1
  <2>. QED
    BY <1>4, <2>4, <2>5
<1>6. CASE op.kind \in Installs
  <2>1. EverInForce' = EverInForce \union {op.secret}
    BY <1>5, <1>6
  <2>. QED
    BY <1>1, <1>6, <2>1
<1>7. CASE op.kind \notin Installs
  <2>1. EverInForce' = EverInForce
    BY <1>5, <1>7
  <2>. QED
    BY <1>1, <1>7, <2>1
<1>. QED
  BY <1>6, <1>7

LEMMA WriteFresh ==
    ASSUME IInv, Fresh, NEW a \in Admins, Write(a)
    PROVE  Fresh'
<1>1. PICK op : op = operation[a]
  OBVIOUS
<1>2. /\ op # None /\ ~op.written
      /\ operation' = [operation EXCEPT ![a] = [op EXCEPT !.written = TRUE]]
      /\ UNCHANGED <<secrets, handed, underway, verdict>>
  BY <1>1 DEF Write
<1>3. /\ op \in [kind : Kinds, patch : Patches, secret : 0..secrets, written : BOOLEAN]
      /\ secrets \in Nat
  BY <1>1, <1>2, OperationType DEF IInv, TypeOK
<1>4. PICK new : new = [op EXCEPT !.written = TRUE]
  OBVIOUS
<1>5. /\ new.kind = op.kind /\ new.secret = op.secret /\ new.written
      /\ operation'[a] = new
      /\ \A b \in Admins \ {a} : operation'[b] = operation[b]
  BY <1>2, <1>3, <1>4 DEF IInv, TypeOK
<1>6. /\ op.kind \in Installs => op.secret # 0 /\ EverInForce' = EverInForce \union {op.secret}
      /\ op.kind \notin Installs => EverInForce' = EverInForce
  <2>1. op.kind \in Installs => op.secret # 0
    BY <1>1, <1>2 DEF IInv, OperationsSound, OperationSound
  <2>. QED
    BY <1>1, <2>1, WriteInForce
<1>7. EverInForce' \subseteq 1..secrets'
  <2>1. EverInForce \subseteq 1..secrets
    BY DEF Fresh
  <2>2. op.kind \in Installs => op.secret \in 1..secrets
    BY <1>3, <1>6
  <2>. QED
    BY <1>2, <1>6, <2>1, <2>2
<1>8. Own(a)
  BY <1>1, <1>2 DEF Fresh
<1>9. \A b \in Admins : operation'[b] # None => Own(b)'
  <2>1. SUFFICES ASSUME NEW b \in Admins, operation'[b] # None,
                        operation'[b].kind \in Installs
                 PROVE  /\ operation'[b].secret \notin handed'
                        /\ ~operation'[b].written => operation'[b].secret \notin EverInForce'
                        /\ \A c \in Admins \ {b} :
                              operation'[c] # None /\ operation'[c].kind \in Installs =>
                                  operation'[c].secret # operation'[b].secret
    BY DEF Own
  <2>2. CASE b = a
    <3>1. \A c \in Admins \ {a} :
              operation[c] # None /\ operation[c].kind \in Installs =>
                  operation[c].secret # op.secret
      BY <1>1, <1>5, <1>8, <2>1, <2>2 DEF Own
    <3>. QED
      BY <1>1, <1>2, <1>5, <1>8, <2>1, <2>2, <3>1 DEF Own
  <2>3. CASE b # a
    <3>1. /\ operation'[b] = operation[b] /\ operation[b].kind \in Installs
          /\ Own(b) /\ handed' = handed
      BY <1>2, <1>5, <2>1, <2>3 DEF Fresh
    <3>2. op.kind \in Installs => op.secret # operation[b].secret
      BY <1>1, <1>2, <2>1, <2>3, <3>1 DEF Own
    <3>3. ASSUME NEW c \in Admins \ {b}, operation'[c] # None,
                 operation'[c].kind \in Installs
          PROVE  operation'[c].secret # operation'[b].secret
      <4>1. CASE c = a
        BY <1>5, <3>1, <3>2, <3>3, <4>1
      <4>2. CASE c # a
        BY <1>5, <2>1, <3>1, <3>3, <4>2 DEF Own
      <4>. QED
        BY <4>1, <4>2
    <3>4. ~operation'[b].written => operation'[b].secret \notin EverInForce'
      BY <1>6, <2>1, <3>1, <3>2 DEF Own
    <3>5. operation'[b].secret \notin handed'
      BY <3>1 DEF Own
    <3>. QED
      BY <3>3, <3>4, <3>5
  <2>. QED
    BY <2>2, <2>3
<1>10. \A r \in Requests : underway'[r] # None =>
           verdict'[r] = None /\ underway'[r].secret \in handed' \union {0}
  BY <1>2 DEF Fresh
<1>. QED
  BY <1>7, <1>9, <1>10 DEF Fresh

LEMMA AdminEndsFresh ==
    ASSUME IInv, Fresh, NEW a \in Admins, Acknowledge(a) \/ AdminFails(a)
    PROVE  Fresh'
<1>1. PICK op : op = operation[a]
  OBVIOUS
<1>2. /\ op # None
      /\ operation' = [operation EXCEPT ![a] = None]
      /\ UNCHANGED <<writes, secrets, underway, verdict>>
      /\ handed \subseteq handed'
      /\ \A s \in handed' : s \in handed \/ (op.kind \in Installs /\ s = op.secret)
  BY <1>1 DEF Acknowledge, AdminFails, HandOut, Installs
<1>3. /\ operation'[a] = None
      /\ \A b \in Admins \ {a} : operation'[b] = operation[b]
  BY <1>2 DEF IInv, TypeOK
<1>4. EverInForce' = EverInForce
  BY <1>2 DEF EverInForce
<1>5. ASSUME NEW b \in Admins, operation'[b] # None, operation'[b].kind \in Installs
      PROVE  /\ operation'[b].secret \notin handed'
             /\ ~operation'[b].written => operation'[b].secret \notin EverInForce'
             /\ \A c \in Admins \ {b} :
                   operation'[c] # None /\ operation'[c].kind \in Installs =>
                       operation'[c].secret # operation'[b].secret
  <2>1. b # a /\ operation'[b] = operation[b] /\ Own(b)
    BY <1>3, <1>5 DEF Fresh
  <2>2. op.kind \in Installs => op.secret # operation[b].secret
    BY <1>1, <1>2, <1>5, <2>1 DEF Own
  <2>3. operation'[b].secret \notin handed'
    BY <1>2, <1>5, <2>1, <2>2 DEF Own
  <2>4. ASSUME NEW c \in Admins \ {b}, operation'[c] # None, operation'[c].kind \in Installs
        PROVE  operation'[c].secret # operation'[b].secret
    <3>1. c # a /\ operation'[c] = operation[c]
      BY <1>3, <2>4
    <3>. QED
      BY <1>5, <2>1, <2>4, <3>1 DEF Own
  <2>. QED
    BY <1>4, <1>5, <2>1, <2>3, <2>4 DEF Own
<1>6. \A b \in Admins : operation'[b] # None => Own(b)'
  BY <1>5 DEF Own
<1>7. EverInForce' \subseteq 1..secrets'
  BY <1>2, <1>4 DEF Fresh
<1>8. \A r \in Requests : underway'[r] # None =>
          verdict'[r] = None /\ underway'[r].secret \in handed' \union {0}
  BY <1>2 DEF Fresh
<1>. QED
  BY <1>6, <1>7, <1>8 DEF Fresh

LEMMA RequestFresh ==
    ASSUME IInv, Fresh, NEW r \in Requests,
           Present(r) \/ Find(r) \/ NotFound(r) \/ Compare(r) \/ FindFails(r)
    PROVE  Fresh'
<1>1. UNCHANGED <<writes, secrets, handed, operation>>
  BY DEF Present, Find, NotFound, Compare, FindFails, Conclude
<1>2. EverInForce' = EverInForce
  BY <1>1 DEF EverInForce
<1>3. /\ EverInForce' \subseteq 1..secrets'
      /\ \A a \in Admins : operation'[a] # None => Own(a)'
  BY <1>1, <1>2 DEF Fresh, Own
<1>4. /\ underway \in [Requests -> [secret : 0..secrets, since : 0..Len(writes),
                                    found : 0..Len(writes)] \union {None}]
      /\ DOMAIN verdict = Requests
  BY DEF IInv, TypeOK
<1>5. ASSUME NEW q \in Requests, underway'[q] # None
      PROVE  verdict'[q] = None /\ underway'[q].secret \in handed' \union {0}
  <2>1. CASE Present(r)
    <3>1. PICK secret \in handed \union {0} :
              underway' = [underway EXCEPT ![r] =
                  [secret |-> secret, since |-> Len(writes), found |-> 0]]
      BY <2>1 DEF Present
    <3>2. verdict' = verdict /\ verdict[r] = None
      BY <2>1 DEF Present
    <3>3. CASE q = r
      <4>1. underway'[q].secret = secret
        BY <1>4, <3>1, <3>3
      <4>. QED
        BY <1>1, <3>2, <3>3, <4>1
    <3>4. CASE q # r
      BY <1>1, <1>4, <1>5, <3>1, <3>2, <3>4 DEF Fresh
    <3>. QED
      BY <3>3, <3>4
  <2>2. CASE Find(r)
    <3>1. /\ underway[r] # None
          /\ underway' = [underway EXCEPT ![r] = [underway[r] EXCEPT !.found = Len(writes)]]
          /\ verdict' = verdict
      BY <2>2 DEF Find
    <3>2. underway[q] # None /\ underway'[q].secret = underway[q].secret
      BY <1>4, <1>5, <3>1
    <3>. QED
      BY <1>1, <3>1, <3>2 DEF Fresh
  <2>3. CASE NotFound(r) \/ Compare(r) \/ FindFails(r)
    <3>1. underway' = [underway EXCEPT ![r] = None]
      BY <2>3 DEF NotFound, Compare, FindFails, Conclude
    <3>2. q # r /\ underway'[q] = underway[q]
      BY <1>4, <1>5, <3>1
    <3>3. verdict'[q] = verdict[q]
      BY <1>4, <2>3, <3>2 DEF NotFound, Compare, FindFails, Conclude
    <3>. QED
      BY <1>1, <1>5, <3>2, <3>3 DEF Fresh
  <2>. QED
    BY <2>1, <2>2, <2>3
<1>. QED
  BY <1>3, <1>5 DEF Fresh

(* A secret is put in force by one operation only, and its token is not    *)
(* handed out before, or twice: overlapping rotations never share one.     *)
THEOREM FreshSecrets == Spec => []Fresh
<1>1. Init => Fresh
  BY DEF Init, Fresh, EverInForce
<1>2. IInv /\ Fresh /\ [Next]_vars => Fresh'
  <2>. SUFFICES ASSUME IInv, Fresh, [Next]_vars PROVE Fresh'
    OBVIOUS
  <2>1. ASSUME NEW a \in Admins,
               BeginIssue(a) \/ BeginRotate(a) \/ BeginEdit(a)
               \/ Write(a) \/ Acknowledge(a) \/ AdminFails(a)
        PROVE  Fresh'
    BY <2>1, AdminBeginsFresh, WriteFresh, AdminEndsFresh
  <2>2. ASSUME NEW r \in Requests,
               Present(r) \/ Find(r) \/ NotFound(r) \/ Compare(r) \/ FindFails(r)
        PROVE  Fresh'
    BY <2>2, RequestFresh
  <2>3. CASE UNCHANGED vars
    BY <2>3 DEF vars, Fresh, Own, EverInForce
  <2>. QED
    BY <2>1, <2>2, <2>3 DEF Next
<1>. QED
  BY <1>1, <1>2, Invariance, PTL DEF Spec
-----------------------------------------------------------------------------
LEMMA DocumentIs ==
    ASSUME IInv
    PROVE  /\ Exists => Document = Key /\ Key \in Keys /\ Document # None
           /\ ~Exists => Document = None
<1>1. Exists => Key \in Keys
  BY WritesType DEF IInv, Key
<1>2. None \notin Keys
  BY ApiKeysAssumption DEF Keys, States
<1>. QED
  BY <1>1, <1>2 DEF Document

(* What is decided is decided by the document that was found, or by the    *)
(* verdict.                                                                *)
LEMMA DecidedSame ==
    ASSUME NEW r \in Requests, IInv,
           underway'[r] = underway[r], verdict'[r] = verdict[r],
           \A i \in 1..Len(writes) : writes'[i] = writes[i]
    PROVE  Decided(r)' = Decided(r)
<1>1. CASE underway[r] # None /\ underway[r].found # 0
  <2>1. underway[r].found \in 1..Len(writes)
    <3>1. underway[r].found \in 0..Len(writes) /\ Len(writes) \in Nat
      BY <1>1, UnderwayType, WritesType DEF IInv
    <3>. QED
      BY <1>1, <3>1
  <2>2. writes'[underway[r].found].key = writes[underway[r].found].key
    BY <2>1
  <2>. QED
    BY <1>1, <2>2 DEF Decided, Judgement
<1>2. CASE ~(underway[r] # None /\ underway[r].found # 0)
  BY <1>2 DEF Decided
<1>. QED
  BY <1>1, <1>2

(* A step of an administrator that does not write.                         *)
LEMMA AdminStutters ==
    ASSUME IInv, UNCHANGED <<writes, underway, verdict>>
    PROVE  /\ UNCHANGED <<Document, EverInForce, Decisions>>
           /\ handed' = handed => UNCHANGED Abstract!vars
<1>1. Document' = Document /\ EverInForce' = EverInForce
  BY DEF Document, Exists, Key, EverInForce
<1>2. \A r \in Requests : Decided(r)' = Decided(r)
  BY DecidedSame
<1>3. Decisions' = Decisions
  BY <1>2 DEF Decisions
<1>. QED
  BY <1>1, <1>3 DEF Abstract!vars

LEMMA AcknowledgeStep ==
    ASSUME IInv, Fresh, NEW a \in Admins, Acknowledge(a)
    PROVE  Abstract!HandOut \/ UNCHANGED Abstract!vars
<1>1. PICK op : op = operation[a]
  OBVIOUS
<1>2. /\ op # None /\ op.written /\ handed' = HandOut(op)
      /\ UNCHANGED <<writes, underway, verdict>>
  BY <1>1 DEF Acknowledge
<1>3. CASE op.kind \in Installs
  <2>1. handed' = handed \union {op.secret}
    BY <1>2, <1>3 DEF HandOut, Installs
  <2>2. op.secret \notin handed
    BY <1>1, <1>2, <1>3 DEF Fresh, Own
  <2>3. Installed(op.secret) # {}
    BY <1>1, <1>2, <1>3 DEF IInv, OperationsSound, OperationSound
  <2>4. op.secret \in EverInForce
    BY <2>3 DEF Installed, EverInForce
  <2>5. \E secret \in EverInForce \ handed : handed' = handed \union {secret}
    BY <2>1, <2>2, <2>4
  <2>. QED
    BY <1>2, <2>5, AdminStutters DEF Abstract!HandOut
<1>4. CASE op.kind \notin Installs
  <2>1. handed' = handed
    BY <1>2, <1>4 DEF HandOut, Installs
  <2>. QED
    BY <1>2, <2>1, AdminStutters
<1>. QED
  BY <1>3, <1>4

(* A write is the whole operation, as far as the key is concerned.         *)
LEMMA WriteStep ==
    ASSUME IInv, Fresh, NEW a \in Admins, Write(a)
    PROVE  Abstract!Issue \/ Abstract!Rotate \/ Abstract!Edit
<1>1. PICK op, n : op = operation[a] /\ n = Len(writes)
  OBVIOUS
<1>2. op # None /\ ~op.written /\ UNCHANGED <<handed, underway, verdict>>
  BY <1>1 DEF Write
<1>3. /\ n \in Nat /\ Len(writes') = n + 1
      /\ \A i \in 1..n : writes'[i] = writes[i]
      /\ writes'[n + 1].key = Written(op)
  BY <1>1, WriteAdded
<1>4. Decisions' = Decisions
  <2>1. \A r \in Requests : Decided(r)' = Decided(r)
    BY <1>1, <1>2, <1>3, DecidedSame
  <2>. QED
    BY <2>1 DEF Decisions
<1>5. Document' = Written(op) /\ Written(op) \in Keys
  <2>1. Written(op) \in Keys
    BY <1>1, <1>2, WrittenFacts
  <2>2. writes' # <<>>
    <3>1. Len(writes') # 0
      BY <1>3
    <3>. QED
      BY <3>1, EmptySeq
  <2>. QED
    BY <1>3, <2>1, <2>2 DEF Document, Exists, Key
<1>6. CASE op.kind \in Installs
  <2>1. EverInForce' = EverInForce \union {op.secret}
    BY <1>1, <1>6, WriteInForce
  <2>2. op.secret \notin EverInForce \union {0}
    <3>1. op.secret # 0
      BY <1>1, <1>2, <1>6 DEF IInv, OperationsSound, OperationSound
    <3>2. op.secret \notin EverInForce
      BY <1>1, <1>2, <1>6 DEF Fresh, Own
    <3>. QED
      BY <3>1, <3>2
  <2>3. Written(op).secret = op.secret
    BY <1>1, <1>2, <1>6, WrittenFacts
  <2>4. Abstract!Install
    BY <1>2, <1>4, <1>5, <2>1, <2>2, <2>3 DEF Abstract!Install
  <2>5. CASE op.kind = "issue"
    <3>1. ~Exists
      BY <1>1, <1>2, <2>5, WrittenFacts DEF Exists
    <3>2. Written(op).status = "active"
      BY <1>1, <1>2, <1>6, WrittenFacts
    <3>3. Written(op) \in [secret : Nat, status : {"active"}, scopes : SUBSET Scopes]
      BY <1>5, <3>2 DEF Keys
    <3>. QED
      BY <1>5, <2>4, <3>1, <3>3, DocumentIs DEF Abstract!Issue
  <2>6. CASE op.kind = "rotate"
    <3>1. Exists
      BY <1>1, <1>2, <2>6 DEF IInv, OperationsSound, OperationSound
    <3>2. Written(op) = [Key EXCEPT !.secret = op.secret, !.status = "active"]
      BY <2>6 DEF Written, Rotated
    <3>3. Written(op) = [Key EXCEPT !.secret = Written(op).secret, !.status = "active"]
      BY <2>3, <3>2
    <3>. QED
      BY <1>5, <2>4, <3>1, <3>3, DocumentIs DEF Abstract!Rotate
  <2>. QED
    BY <1>6, <2>5, <2>6 DEF Installs
<1>7. CASE op.kind \notin Installs
  <2>1. op.kind \in {"update", "revoke"}
    BY <1>1, <1>2, <1>7, OperationType DEF IInv, Kinds, Installs
  <2>2. Written(op).secret = Key.secret
    BY <1>1, <1>2, <2>1, WrittenFacts
  <2>3. Exists
    BY <1>1, <1>2, <2>1 DEF IInv, OperationsSound, OperationSound
  <2>4. EverInForce' = EverInForce
    BY <1>1, <1>7, WriteInForce
  <2>5. Written(op) \in [secret : {Key.secret}, status : {"active", "revoked"},
                         scopes : SUBSET Scopes]
    BY <1>5, <2>2 DEF Keys, States
  <2>. QED
    BY <1>2, <1>4, <1>5, <2>3, <2>4, <2>5, DocumentIs DEF Abstract!Edit
<1>. QED
  BY <1>6, <1>7

(* A step of a request changes its own decision only.                      *)
LEMMA RequestDecides ==
    ASSUME IInv, NEW r \in Requests, NEW u, NEW v,
           underway' = [underway EXCEPT ![r] = u],
           verdict' = [verdict EXCEPT ![r] = v],
           UNCHANGED <<writes, handed>>
    PROVE  /\ underway'[r] = u /\ verdict'[r] = v
           /\ Decisions' = [Decisions EXCEPT ![r] = Decided(r)']
           /\ UNCHANGED <<Document, EverInForce, handed>>
           /\ Decided(r)' = Decided(r) => UNCHANGED Abstract!vars
<1>1. /\ underway'[r] = u /\ verdict'[r] = v
      /\ \A q \in Requests \ {r} : underway'[q] = underway[q] /\ verdict'[q] = verdict[q]
  BY DEF IInv, TypeOK
<1>2. \A q \in Requests \ {r} : Decided(q)' = Decided(q)
  BY <1>1, DecidedSame
<1>3. Decisions' = [Decisions EXCEPT ![r] = Decided(r)']
  BY <1>2 DEF Decisions
<1>4. UNCHANGED <<Document, EverInForce, handed>>
  BY DEF Document, Exists, Key, EverInForce
<1>5. Decided(r)' = Decided(r) => Decisions' = Decisions
  BY <1>2 DEF Decisions
<1>. QED
  BY <1>1, <1>3, <1>4, <1>5 DEF Abstract!vars

LEMMA NoVerdictYet ==
    ASSUME TypeOK, NEW r \in Requests, verdict[r] = None
    PROVE  verdict = [verdict EXCEPT ![r] = None]
<1>1. PICK V : verdict \in [Requests -> V]
  BY Zenon DEF TypeOK
<1>. QED
  BY <1>1

(* Finding the document, or no document, is the judgement.                 *)
LEMMA FindStep ==
    ASSUME IInv, Fresh, NEW r \in Requests, Find(r) \/ NotFound(r)
    PROVE  Abstract!Verify(r)
<1>1. PICK old : old = underway[r]
  OBVIOUS
<1>2. old # None /\ old.found = 0 /\ UNCHANGED <<writes, handed>>
  BY <1>1 DEF Find, NotFound
<1>3. /\ verdict[r] = None /\ old.secret \in handed \union {0}
      /\ DOMAIN verdict = Requests
  BY <1>1, <1>2 DEF IInv, TypeOK, Fresh
<1>4. Decisions[r] = None
  BY <1>1, <1>2, <1>3 DEF Decisions, Decided
<1>5. /\ old \in [secret : 0..secrets, since : 0..Len(writes), found : 0..Len(writes)]
      /\ Len(writes) \in Nat /\ (Exists <=> Len(writes) # 0) /\ secrets \in Nat
  BY <1>1, <1>2, UnderwayType, WritesType DEF IInv, TypeOK
<1>6. /\ Decisions' = [Decisions EXCEPT ![r] = Decided(r)']
      /\ UNCHANGED <<Document, EverInForce, handed>>
      /\ Decided(r)' = Abstract!Judged(old.secret)
  <2>1. CASE Find(r)
    <3>1. PICK u : u = [old EXCEPT !.found = Len(writes)]
      OBVIOUS
    <3>2. /\ Findable /\ underway' = [underway EXCEPT ![r] = u]
          /\ verdict' = [verdict EXCEPT ![r] = None]
      <4>1. Findable /\ underway' = [underway EXCEPT ![r] = u]
        BY <1>1, <2>1, <3>1 DEF Find
      <4>2. verdict' = verdict
        BY <2>1 DEF Find
      <4>3. verdict = [verdict EXCEPT ![r] = None]
        BY <1>3, NoVerdictYet DEF IInv
      <4>. QED
        BY <4>1, <4>2, <4>3
    <3>3. /\ underway'[r] = u /\ Decisions' = [Decisions EXCEPT ![r] = Decided(r)']
          /\ UNCHANGED <<Document, EverInForce, handed>>
      BY <1>2, <3>2, RequestDecides
    <3>4. u # None /\ u.found = Len(writes) /\ u.secret = old.secret /\ u.found # 0
      <4>1. u \in [secret : Nat, since : Nat, found : Nat]
        BY <1>5, <3>1
      <4>2. u.found = Len(writes) /\ u.secret = old.secret
        BY <1>5, <3>1
      <4>. QED
        BY <1>5, <3>2, <4>1, <4>2, ApiKeysAssumption DEF Findable
    <3>5. Decided(r)' = Judgement(old.secret, Key)
      BY <1>2, <3>3, <3>4 DEF Decided, Judgement, Key
    <3>6. Document = Key /\ Document # None /\ Key.status = "active"
      BY <3>2, DocumentIs DEF Findable
    <3>. QED
      BY <3>3, <3>5, <3>6 DEF Judgement, Abstract!Judged, Abstract!Active
  <2>2. CASE NotFound(r)
    <3>1. PICK v : v = [accepted |-> FALSE, secret |-> old.secret, scopes |-> {},
                        since |-> old.since, until |-> Len(writes)]
      OBVIOUS
    <3>2. /\ ~Findable /\ underway' = [underway EXCEPT ![r] = None]
          /\ verdict' = [verdict EXCEPT ![r] = v]
      BY <1>1, <2>2, <3>1 DEF NotFound, Conclude
    <3>3. /\ underway'[r] = None /\ verdict'[r] = v
          /\ Decisions' = [Decisions EXCEPT ![r] = Decided(r)']
          /\ UNCHANGED <<Document, EverInForce, handed>>
      BY <1>2, <3>2, RequestDecides
    <3>4. v # None
      <4>1. v \in [accepted : BOOLEAN, secret : Nat, scopes : SUBSET Scopes,
                   since : Nat, until : Nat]
        BY <1>5, <3>1
      <4>. QED
        BY <4>1, ApiKeysAssumption
    <3>5. Decided(r)' = [accepted |-> FALSE, secret |-> old.secret, scopes |-> {}]
      BY <3>1, <3>3, <3>4 DEF Decided
    <3>6. ~Abstract!Active
      BY <3>2, DocumentIs DEF Findable, Abstract!Active
    <3>. QED
      BY <3>3, <3>5, <3>6 DEF Abstract!Judged
  <2>. QED
    BY <2>1, <2>2
<1>. QED
  BY <1>3, <1>4, <1>6 DEF Abstract!Verify

LEMMA PresentStutters ==
    ASSUME IInv, NEW r \in Requests, Present(r)
    PROVE  UNCHANGED Abstract!vars
<1>1. PICK secret : underway' = [underway EXCEPT ![r] =
              [secret |-> secret, since |-> Len(writes), found |-> 0]]
  BY DEF Present
<1>2. PICK u : u.found = 0 /\ underway' = [underway EXCEPT ![r] = u]
  <2>1. PICK u : u = [secret |-> secret, since |-> Len(writes), found |-> 0]
    OBVIOUS
  <2>2. u.found = 0
    BY <2>1
  <2>. QED
    BY <1>1, <2>1, <2>2
<1>3. /\ underway[r] = None /\ verdict[r] = None /\ verdict' = verdict
      /\ UNCHANGED <<writes, handed>>
  BY DEF Present
<1>4. verdict' = [verdict EXCEPT ![r] = None]
  BY <1>3, NoVerdictYet DEF IInv
<1>5. /\ underway'[r] = u /\ verdict'[r] = None
      /\ Decided(r)' = Decided(r) => UNCHANGED Abstract!vars
  BY <1>2, <1>3, <1>4, RequestDecides
<1>6. Decided(r) = None
  BY <1>3 DEF Decided
<1>7. Decided(r)' = None
  BY <1>2, <1>5 DEF Decided
<1>. QED
  BY <1>5, <1>6, <1>7

(* A verdict is what had been decided.                                     *)
LEMMA CompareStutters ==
    ASSUME IInv, NEW r \in Requests, Compare(r)
    PROVE  UNCHANGED Abstract!vars
<1>1. PICK u : u = underway[r]
  OBVIOUS
<1>2. PICK read : read = writes[u.found].key
  OBVIOUS
<1>3. u # None /\ u.found # 0 /\ UNCHANGED <<writes, handed>>
  BY <1>1 DEF Compare
<1>4. PICK accepted, scopes :
          /\ accepted \in BOOLEAN /\ scopes \in SUBSET Scopes
          /\ Conclude(r, accepted, scopes)
          /\ Judgement(u.secret, read) =
                [accepted |-> accepted, secret |-> u.secret, scopes |-> scopes]
  <2>1. read.scopes \in SUBSET Scopes
    <3>1. u.found \in 1..Len(writes)
      <4>1. u.found \in 0..Len(writes) /\ Len(writes) \in Nat
        BY <1>1, <1>3, UnderwayType, WritesType DEF IInv
      <4>. QED
        BY <1>3, <4>1
    <3>. QED
      BY <1>2, <3>1, WritesType DEF IInv, Keys
  <2>2. CASE read.secret = u.secret
    <3>1. Conclude(r, TRUE, read.scopes)
      BY <1>1, <1>2, <2>2 DEF Compare
    <3>. QED
      BY <2>1, <2>2, <3>1 DEF Judgement
  <2>3. CASE read.secret # u.secret
    <3>1. Conclude(r, FALSE, {})
      BY <1>1, <1>2, <2>3 DEF Compare
    <3>. QED
      BY <2>3, <3>1 DEF Judgement
  <2>. QED
    BY <2>2, <2>3
<1>5. PICK v : v = [accepted |-> accepted, secret |-> u.secret, scopes |-> scopes,
                    since |-> u.since, until |-> Len(writes)]
  OBVIOUS
<1>6. /\ underway' = [underway EXCEPT ![r] = None]
      /\ verdict' = [verdict EXCEPT ![r] = v]
  BY <1>1, <1>4, <1>5 DEF Conclude
<1>7. /\ underway'[r] = None /\ verdict'[r] = v
      /\ Decided(r)' = Decided(r) => UNCHANGED Abstract!vars
  BY <1>3, <1>6, RequestDecides
<1>8. v # None
  <2>1. /\ u \in [secret : 0..secrets, since : 0..Len(writes), found : 0..Len(writes)]
        /\ Len(writes) \in Nat /\ secrets \in Nat
    BY <1>1, <1>3, UnderwayType, WritesType DEF IInv, TypeOK
  <2>2. v \in [accepted : BOOLEAN, secret : Nat, scopes : SUBSET Scopes,
               since : Nat, until : Nat]
    BY <1>4, <1>5, <2>1
  <2>. QED
    BY <2>2, ApiKeysAssumption
<1>9. Decided(r)' = [accepted |-> accepted, secret |-> u.secret, scopes |-> scopes]
  BY <1>5, <1>7, <1>8 DEF Decided
<1>10. Decided(r) = Judgement(u.secret, read)
  BY <1>1, <1>2, <1>3 DEF Decided
<1>. QED
  BY <1>4, <1>7, <1>9, <1>10

LEMMA FindFailsStutters ==
    ASSUME IInv, Fresh, NEW r \in Requests, FindFails(r)
    PROVE  UNCHANGED Abstract!vars
<1>1. /\ underway[r] # None /\ underway[r].found = 0
      /\ underway' = [underway EXCEPT ![r] = None]
      /\ verdict' = verdict /\ UNCHANGED <<writes, handed>>
  BY DEF FindFails
<1>2. verdict[r] = None
  BY <1>1 DEF Fresh
<1>3. verdict' = [verdict EXCEPT ![r] = None]
  BY <1>1, <1>2, NoVerdictYet DEF IInv
<1>4. /\ underway'[r] = None /\ verdict'[r] = None
      /\ Decided(r)' = Decided(r) => UNCHANGED Abstract!vars
  BY <1>1, <1>3, RequestDecides
<1>. QED
  BY <1>1, <1>2, <1>4 DEF Decided

(* The key service implements AtomicKeys: every step issues, rotates or    *)
(* edits the key, hands out a secret, judges a token by the key as it is   *)
(* then, or changes none of it.                                            *)
THEOREM Refinement == Spec => ImplementsAtomicKeys
<1>1. Init => Abstract!Init
  <2>. SUFFICES ASSUME Init PROVE Abstract!Init
    OBVIOUS
  <2>1. Document = None /\ EverInForce = {} /\ handed = {}
    BY DEF Init, Document, Exists, EverInForce
  <2>2. Decisions = [r \in Requests |-> None]
    BY DEF Init, Decisions, Decided
  <2>. QED
    BY <2>1, <2>2 DEF Abstract!Init
<1>2. IInv /\ Fresh /\ [Next]_vars => [Abstract!Next]_(Abstract!vars)
  <2>. SUFFICES ASSUME IInv, Fresh, [Next]_vars
                PROVE  Abstract!Next \/ UNCHANGED Abstract!vars
    OBVIOUS
  <2>1. ASSUME NEW a \in Admins, BeginIssue(a) \/ BeginRotate(a) \/ BeginEdit(a) \/ AdminFails(a)
        PROVE  UNCHANGED Abstract!vars
    <3>1. UNCHANGED <<writes, underway, verdict, handed>>
      BY <2>1 DEF BeginIssue, BeginRotate, BeginEdit, AdminFails
    <3>. QED
      BY <3>1, AdminStutters
  <2>2. ASSUME NEW a \in Admins, Write(a)
        PROVE  Abstract!Issue \/ Abstract!Rotate \/ Abstract!Edit
    BY <2>2, WriteStep
  <2>3. ASSUME NEW a \in Admins, Acknowledge(a)
        PROVE  Abstract!HandOut \/ UNCHANGED Abstract!vars
    BY <2>3, AcknowledgeStep
  <2>4. ASSUME NEW r \in Requests, Present(r) \/ Compare(r) \/ FindFails(r)
        PROVE  UNCHANGED Abstract!vars
    BY <2>4, PresentStutters, CompareStutters, FindFailsStutters
  <2>5. ASSUME NEW r \in Requests, Find(r) \/ NotFound(r)
        PROVE  Abstract!Verify(r)
    BY <2>5, FindStep
  <2>6. CASE UNCHANGED vars
    <3>1. UNCHANGED <<writes, underway, verdict, handed>>
      BY <2>6 DEF vars
    <3>. QED
      BY <3>1, AdminStutters
  <2>7. Abstract!Issue \/ Abstract!Rotate \/ Abstract!Edit \/ Abstract!HandOut
        \/ (\E r \in Requests : Abstract!Verify(r)) => Abstract!Next
    BY DEF Abstract!Next
  <2>. QED
    BY <2>1, <2>2, <2>3, <2>4, <2>5, <2>6, <2>7 DEF Next
<1>. QED
  BY <1>1, <1>2, Invariance, FreshSecrets, PTL
     DEF Spec, ImplementsAtomicKeys, Abstract!Spec
=============================================================================
