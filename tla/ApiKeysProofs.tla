---------------------------- MODULE ApiKeysProofs ---------------------------
(***************************************************************************)
(* Proofs about ApiKeys, for any number of administrators, verifications   *)
(* and writes.  The inductive invariant is IInv: what an operation has     *)
(* established before and after its write, what the history of the         *)
(* document looks like, and what a verification under way knows of it.     *)
(* That a token handed out is refused for a reason, say, rests on the      *)
(* secret changing by rotations only, and on a key being issued once.      *)
(***************************************************************************)
EXTENDS ApiKeys, SequenceTheorems, FiniteSetTheorems, TLAPS

Installs == {"issue", "rotate"}

(* The writes still to come stay within the bound.                         *)
Unwritten == {a \in Admins : operation[a] # None /\ ~operation[a].written}

Bounded == Len(writes) + Cardinality(Unwritten) <= MaxWrites

(* A key is issued once, with nothing else under way; a new secret is in   *)
(* the document by the time its operation has written it.                  *)
OperationSound(a) ==
    LET op == operation[a] IN
    /\ op.kind # "issue" => Exists
    /\ op.kind = "issue" =>
          /\ op.patch.status = "active" /\ op.patch.scopes \in SUBSET Scopes
          /\ ~op.written => /\ writes = <<>>
                            /\ \A b \in Admins \ {a} : operation[b] = None
    /\ op.kind \in Installs =>
          /\ op.secret # 0
          /\ op.written => Installed(op.secret) # {}

OperationsSound == \A a \in Admins : operation[a] # None => OperationSound(a)

(* Secrets are put in force by writes that activate the key, and replaced  *)
(* by rotations only.                                                      *)
WritesSound ==
    /\ \A i \in DOMAIN writes : writes[i].kind \in Installs => writes[i].key.status = "active"
    /\ \A i, k \in DOMAIN writes : i < k /\ writes[i].key.secret # writes[k].key.secret =>
          \E j \in (i + 1)..k : writes[j].kind = "rotate"
    /\ \A secret \in handed : Installed(secret) # {}

(* The token presented was in force by then, unless it is made up, and the *)
(* document found was active, no earlier than the verification began.      *)
Looked ==
    \A r \in Requests : underway[r] # None =>
        /\ underway[r].secret # 0 =>
              \E i \in Installed(underway[r].secret) : i <= underway[r].since
        /\ underway[r].found # 0 =>
              /\ underway[r].since <= underway[r].found
              /\ writes[underway[r].found].key.status = "active"

IInv ==
    /\ TypeOK /\ Bounded /\ OperationsSound /\ WritesSound /\ Looked
    /\ AcceptedWhileValid /\ HandedTokenWorks
-----------------------------------------------------------------------------
LEMMA OperationType ==
    ASSUME TypeOK, NEW a \in Admins, operation[a] # None
    PROVE  operation[a] \in [kind : Kinds, patch : Patches, secret : 0..secrets,
                             written : BOOLEAN]
BY DEF TypeOK

LEMMA UnderwayType ==
    ASSUME TypeOK, NEW r \in Requests, underway[r] # None
    PROVE  underway[r] \in [secret : 0..secrets, since : 0..Len(writes),
                            found : 0..Len(writes)]
BY DEF TypeOK

LEMMA VerdictType ==
    ASSUME TypeOK, NEW r \in Requests, verdict[r] # None
    PROVE  verdict[r] \in [accepted : BOOLEAN, secret : 0..secrets,
                           scopes : SUBSET Scopes, since : 0..Len(writes),
                           until : 0..Len(writes)]
BY DEF TypeOK

LEMMA WritesType ==
    ASSUME TypeOK
    PROVE  /\ Len(writes) \in Nat
           /\ DOMAIN writes = 1..Len(writes)
           /\ \A i \in 1..Len(writes) : writes[i] \in [kind : Kinds, key : Keys]
           /\ Exists <=> Len(writes) # 0
<1>1. writes \in Seq([kind : Kinds, key : Keys])
  BY DEF TypeOK
<1>. QED
  BY <1>1, LenProperties, ElementOfSeq, EmptySeq DEF Exists

LEMMA UnwrittenCount ==
    /\ IsFiniteSet(Unwritten) /\ Cardinality(Unwritten) \in Nat
    /\ IsFiniteSet(Busy) /\ Cardinality(Busy) \in Nat
    /\ Cardinality(Unwritten) <= Cardinality(Busy)
<1>1. IsFiniteSet(Busy) /\ Unwritten \subseteq Busy
  <2>1. Busy \subseteq Admins /\ Unwritten \subseteq Busy
    BY DEF Busy, Unwritten
  <2>. QED
    BY <2>1, ApiKeysAssumption, FS_Subset
<1>. QED
  BY <1>1, FS_Subset, FS_CardinalityType

LEMMA InitIInv == Init => IInv
<1>. SUFFICES ASSUME Init PROVE IInv
  OBVIOUS
<1>1. writes \in Seq([kind : Kinds, key : Keys]) /\ Len(writes) = 0
  BY EmptySeq DEF Init
<1>2. TypeOK
  BY <1>1, ApiKeysAssumption DEF Init, TypeOK
<1>3. Bounded
  <2>1. Unwritten = {}
    BY DEF Init, Unwritten
  <2>2. Cardinality(Unwritten) = 0
    BY <2>1, FS_EmptySet
  <2>. QED
    BY <1>1, <2>2, ApiKeysAssumption DEF Bounded
<1>4. OperationsSound /\ Looked /\ AcceptedWhileValid /\ HandedTokenWorks
  BY DEF Init, OperationsSound, Looked, AcceptedWhileValid, HandedTokenWorks
<1>5. WritesSound
  BY DEF Init, WritesSound
<1>. QED
  BY <1>2, <1>3, <1>4, <1>5 DEF IInv

(* An operation begins: of all, it alone changes.                          *)
LEMMA BeginIInv ==
    ASSUME IInv, NEW a \in Admins, NEW kind \in Kinds, NEW patch \in Patches,
           NEW secret \in 0..secrets',
           Idle(a), Begin(a, kind, patch, secret),
           secrets' \in {secrets, secrets + 1},
           kind \in Installs => secret # 0,
           kind # "issue" => Exists,
           kind = "issue" => /\ Expected = 0
                             /\ patch.status = "active" /\ patch.scopes \in SUBSET Scopes,
           UNCHANGED <<writes, handed, underway, verdict, failures>>
    PROVE  IInv'
<1>. USE DEF IInv
<1>. DEFINE op == [kind |-> kind, patch |-> patch, secret |-> secret, written |-> FALSE]
<1>1. /\ operation[a] = None
      /\ operation' = [operation EXCEPT ![a] = op]
      /\ operation'[a] = op
      /\ \A b \in Admins \ {a} : operation'[b] = operation[b]
  BY DEF Idle, Begin, TypeOK
<1>2. secrets \in Nat /\ secrets' \in Nat /\ secrets <= secrets'
  BY DEF TypeOK
<1>3. TypeOK'
  <2>1. op \in [kind : Kinds, patch : Patches, secret : 0..secrets', written : BOOLEAN]
    OBVIOUS
  <2>. HIDE DEF op
  <2>2. operation' \in [Admins -> [kind : Kinds, patch : Patches, secret : 0..secrets',
                                  written : BOOLEAN] \union {None}]
    BY <1>1, <1>2, <2>1 DEF TypeOK
  <2>3. underway' \in [Requests -> [secret : 0..secrets', since : 0..Len(writes'),
                                   found : 0..Len(writes')] \union {None}]
    BY <1>2 DEF TypeOK
  <2>4. verdict' \in [Requests -> [accepted : BOOLEAN, secret : 0..secrets',
                                  scopes : SUBSET Scopes, since : 0..Len(writes'),
                                  until : 0..Len(writes')] \union {None}]
    BY <1>2 DEF TypeOK
  <2>5. handed' \subseteq 1..secrets'
    BY <1>2 DEF TypeOK
  <2>. QED
    BY <1>2, <2>2, <2>3, <2>4, <2>5 DEF TypeOK
<1>4. Bounded'
  <2>1. Unwritten' = Unwritten \union {a} \/ Unwritten' = Unwritten
    BY <1>1 DEF Unwritten
  <2>2. /\ Cardinality(Unwritten') \in Nat
        /\ Cardinality(Unwritten') <= Cardinality(Unwritten) + 1
    <3>1. CASE Unwritten' = Unwritten
      BY <3>1, UnwrittenCount
    <3>2. CASE Unwritten' = Unwritten \union {a}
      <4>1. /\ IsFiniteSet(Unwritten') /\ Cardinality(Unwritten') \in Nat
            /\ Cardinality(Unwritten') = IF a \in Unwritten THEN Cardinality(Unwritten)
                                         ELSE Cardinality(Unwritten) + 1
        BY <3>2, UnwrittenCount, FS_AddElement, FS_CardinalityType
      <4>. QED
        BY <4>1, UnwrittenCount
    <3>. QED
      BY <2>1, <3>1, <3>2
  <2>3. Len(writes) + Cardinality(Unwritten) < MaxWrites
    BY UnwrittenCount, WritesType, ApiKeysAssumption DEF Idle, Expected
  <2>. QED
    BY <2>2, <2>3, UnwrittenCount, WritesType, ApiKeysAssumption DEF Bounded
<1>5. kind = "issue" => writes = <<>> /\ \A b \in Admins : operation[b] = None
  <2>1. SUFFICES ASSUME kind = "issue"
                 PROVE  writes = <<>> /\ \A b \in Admins : operation[b] = None
    OBVIOUS
  <2>2. Len(writes) = 0 /\ Cardinality(Busy) = 0
    BY <2>1, UnwrittenCount, WritesType DEF Expected
  <2>3. Busy = {}
    BY <2>2, UnwrittenCount, FS_EmptySet
  <2>. QED
    BY <2>2, <2>3, WritesType DEF Exists, Busy
<1>6. OperationsSound'
  <2>1. SUFFICES ASSUME NEW b \in Admins, operation'[b] # None
                 PROVE  OperationSound(b)'
    BY DEF OperationsSound
  <2>2. CASE b = a
    BY <1>1, <1>5, <2>2 DEF OperationSound, Exists, Installs
  <2>3. CASE b # a
    <3>1. operation'[b] = operation[b] /\ operation[b] # None /\ OperationSound(b)
      BY <1>1, <2>1, <2>3 DEF OperationsSound
    <3>2. Exists
      BY <1>5, <3>1
    <3>. QED
      BY <3>1, <3>2 DEF OperationSound, Exists, Installed
  <2>. QED
    BY <2>2, <2>3
<1>7. WritesSound' /\ Looked' /\ AcceptedWhileValid' /\ HandedTokenWorks'
  BY DEF WritesSound, Looked, AcceptedWhileValid, HandedTokenWorks, Installed, Seen
<1>. QED
  BY <1>3, <1>4, <1>6, <1>7

LEMMA AdminBeginsIInv ==
    ASSUME IInv, NEW a \in Admins, BeginIssue(a) \/ BeginRotate(a) \/ BeginEdit(a)
    PROVE  IInv'
<1>0. secrets \in Nat /\ NoPatch \in Patches
  BY DEF IInv, TypeOK, NoPatch, Patches
<1>1. CASE BeginIssue(a)
  <2>1. PICK scopes \in SUBSET Scopes :
            Begin(a, "issue", [status |-> "active", scopes |-> scopes], secrets + 1)
    BY <1>1 DEF BeginIssue
  <2>. DEFINE patch == [status |-> "active", scopes |-> scopes]
  <2>2. /\ patch \in Patches /\ patch.status = "active" /\ patch.scopes \in SUBSET Scopes
        /\ "issue" \in Kinds
    BY DEF Patches, States, Kinds
  <2>3. /\ Idle(a) /\ Expected = 0 /\ secrets' = secrets + 1
        /\ UNCHANGED <<writes, handed, underway, verdict, failures>>
        /\ Begin(a, "issue", patch, secrets')
        /\ secrets' \in 0..secrets' /\ secrets' # 0
    BY <1>0, <1>1, <2>1 DEF BeginIssue
  <2>. HIDE DEF patch
  <2>4. PICK secret \in 0..secrets' : secret = secrets'
    BY <2>3
  <2>. QED
    BY <2>2, <2>3, <2>4, BeginIInv DEF Begin
<1>2. CASE BeginRotate(a)
  <2>1. /\ Idle(a) /\ Exists /\ secrets' = secrets + 1
        /\ UNCHANGED <<writes, handed, underway, verdict, failures>>
        /\ Begin(a, "rotate", NoPatch, secrets')
        /\ secrets' \in 0..secrets' /\ secrets' # 0 /\ "rotate" \in Kinds
    BY <1>0, <1>2 DEF BeginRotate, Kinds
  <2>2. PICK secret \in 0..secrets' : secret = secrets'
    BY <2>1
  <2>3. Begin(a, "rotate", NoPatch, secret) /\ secret # 0
    BY <2>1, <2>2
  <2>. QED
    BY <1>0, <2>1, <2>3, BeginIInv
<1>3. CASE BeginEdit(a)
  <2>1. PICK kind \in {"update", "revoke"}, patch \in Patches : Begin(a, kind, patch, 0)
    BY <1>0, <1>3 DEF BeginEdit
  <2>2. /\ Idle(a) /\ Exists /\ secrets' = secrets
        /\ UNCHANGED <<writes, handed, underway, verdict, failures>>
        /\ 0 \in 0..secrets'
        /\ kind \in Kinds /\ kind \notin Installs /\ kind # "issue"
    BY <1>0, <1>3 DEF BeginEdit, Kinds, Installs
  <2>. QED
    BY <2>1, <2>2, BeginIInv
<1>. QED
  BY <1>1, <1>2, <1>3

(* What an operation is about to write.                                    *)
LEMMA WrittenFacts ==
    ASSUME IInv, NEW a \in Admins, operation[a] # None, ~operation[a].written
    PROVE  LET op == operation[a] IN
           /\ Written(op) \in Keys
           /\ op.kind \in Installs =>
                 Written(op).status = "active" /\ Written(op).secret = op.secret
           /\ op.kind = "issue" => writes = <<>>
           /\ op.kind \in {"update", "revoke"} => Written(op).secret = Key.secret
<1>. USE DEF IInv
<1>0. PICK op : op = operation[a]
  OBVIOUS
<1>1. /\ op \in [kind : Kinds, patch : Patches, secret : 0..secrets, written : BOOLEAN]
      /\ op.kind \in {"issue", "update", "rotate", "revoke"}
      /\ op.secret \in Nat
  BY <1>0, OperationType DEF Kinds, TypeOK
<1>2. /\ op.kind # "issue" => Exists
      /\ op.kind = "issue" => /\ op.patch.status = "active"
                             /\ op.patch.scopes \in SUBSET Scopes
                             /\ writes = <<>>
  BY <1>0 DEF OperationsSound, OperationSound
<1>3. Exists => Key \in [secret : Nat, status : States, scopes : SUBSET Scopes]
  <2>1. Exists => Len(writes) \in 1..Len(writes)
    BY WritesType
  <2>. QED
    BY <2>1, WritesType DEF Key, Keys
<1>. SUFFICES /\ Written(op) \in Keys
              /\ op.kind \in Installs =>
                    Written(op).status = "active" /\ Written(op).secret = op.secret
              /\ op.kind \in {"update", "revoke"} => Written(op).secret = Key.secret
  BY <1>0, <1>2
<1>4. CASE op.kind = "issue"
  <2>1. Written(op) = [secret |-> op.secret, status |-> op.patch.status,
                       scopes |-> op.patch.scopes]
    BY <1>4 DEF Written
  <2>. QED
    BY <1>1, <1>2, <1>4, <2>1 DEF Keys, States, Installs
<1>5. CASE op.kind = "rotate"
  <2>1. Written(op) = [Key EXCEPT !.secret = op.secret, !.status = "active"]
    BY <1>5 DEF Written, Rotated
  <2>. QED
    BY <1>1, <1>2, <1>3, <1>5, <2>1 DEF Keys, States, Installs
<1>6. CASE op.kind = "revoke"
  <2>1. Written(op) = [Key EXCEPT !.status = "revoked"]
    BY <1>6 DEF Written
  <2>. QED
    BY <1>1, <1>2, <1>3, <1>6, <2>1 DEF Keys, States, Installs
<1>7. CASE op.kind = "update"
  <2>1. /\ op.patch.status \in {Unset} \union States
        /\ op.patch.scopes \in {Unset} \union SUBSET Scopes
    BY <1>1 DEF Patches
  <2>2. PICK status \in States, scopes \in SUBSET Scopes :
            Written(op) = [Key EXCEPT !.status = status, !.scopes = scopes]
    <3>1. Key.status \in States /\ Key.scopes \in SUBSET Scopes
      BY <1>2, <1>3, <1>7
    <3>2. Written(op) = Updated(op)
      BY <1>7 DEF Written
    <3>3. (IF op.patch.status = Unset THEN Key.status ELSE op.patch.status) \in States
      BY <2>1, <3>1
    <3>4. (IF op.patch.scopes \in {Unset, {}} THEN Key.scopes ELSE op.patch.scopes)
            \in SUBSET Scopes
      BY <2>1, <3>1
    <3>. QED
      BY <3>2, <3>3, <3>4 DEF Updated
  <2>. QED
    BY <1>2, <1>3, <1>7, <2>2 DEF Keys, Installs
<1>. QED
  BY <1>1, <1>4, <1>5, <1>6, <1>7

(* A write is added to the history, which otherwise stays.                 *)
LEMMA WriteAdded ==
    ASSUME IInv, NEW a \in Admins, Write(a)
    PROVE  /\ writes' \in Seq([kind : Kinds, key : Keys])
           /\ Len(writes) \in Nat /\ Len(writes') = Len(writes) + 1
           /\ DOMAIN writes = 1..Len(writes)
           /\ DOMAIN writes' = 1..(Len(writes) + 1)
           /\ \A i \in 1..Len(writes) : writes'[i] = writes[i]
           /\ writes'[Len(writes) + 1].kind = operation[a].kind
           /\ writes'[Len(writes) + 1].key = Written(operation[a])
           /\ \A secret : Installed(secret) \subseteq Installed(secret)'
<1>. DEFINE w == [kind |-> operation[a].kind, key |-> Written(operation[a])]
<1>1. /\ operation[a] # None /\ ~operation[a].written
      /\ writes' = Append(writes, w)
  BY DEF Write
<1>2. w \in [kind : Kinds, key : Keys]
  <2>1. operation[a].kind \in Kinds
    BY <1>1, OperationType DEF IInv
  <2>2. Written(operation[a]) \in Keys
    BY <1>1, WrittenFacts
  <2>. QED
    BY <2>1, <2>2
<1>3. w.kind = operation[a].kind /\ w.key = Written(operation[a])
  OBVIOUS
<1>4. writes \in Seq([kind : Kinds, key : Keys])
  BY DEF IInv, TypeOK
<1>. HIDE DEF w
<1>5. /\ writes' \in Seq([kind : Kinds, key : Keys])
      /\ Len(writes) \in Nat /\ Len(writes') = Len(writes) + 1
      /\ \A i \in 1..Len(writes) : writes'[i] = writes[i]
      /\ writes'[Len(writes) + 1] = w
  BY <1>1, <1>2, <1>4, AppendProperties, LenProperties
<1>6. DOMAIN writes = 1..Len(writes) /\ DOMAIN writes' = 1..(Len(writes) + 1)
  BY <1>4, <1>5, LenProperties
<1>7. \A secret : Installed(secret) \subseteq Installed(secret)'
  BY <1>5, <1>6 DEF Installed
<1>. QED
  BY <1>3, <1>5, <1>6, <1>7

LEMMA WriteIInv ==
    ASSUME IInv, NEW a \in Admins, Write(a)
    PROVE  IInv'
<1>. USE DEF IInv
<1>0. PICK op, n : op = operation[a] /\ n = Len(writes)
  OBVIOUS
<1>1. /\ op # None /\ ~op.written /\ operation[a] # None
      /\ operation' = [operation EXCEPT ![a] = [op EXCEPT !.written = TRUE]]
      /\ UNCHANGED <<secrets, handed, underway, verdict, failures>>
  BY <1>0 DEF Write
<1>2. /\ writes' \in Seq([kind : Kinds, key : Keys])
      /\ n \in Nat /\ Len(writes') = n + 1
      /\ DOMAIN writes = 1..n /\ DOMAIN writes' = 1..(n + 1)
      /\ \A i \in 1..n : writes'[i] = writes[i]
      /\ writes'[n + 1].kind = op.kind /\ writes'[n + 1].key = Written(op)
      /\ \A secret : Installed(secret) \subseteq Installed(secret)'
  BY <1>0, WriteAdded
<1>3. /\ op \in [kind : Kinds, patch : Patches, secret : 0..secrets, written : BOOLEAN]
      /\ op.kind \in {"issue", "update", "rotate", "revoke"}
  BY <1>0, <1>1, OperationType DEF Kinds
<1>4. /\ op.kind \in Installs =>
            Written(op).status = "active" /\ Written(op).secret = op.secret
      /\ op.kind = "issue" => n = 0
      /\ op.kind \in {"update", "revoke"} => n > 0 /\ Written(op).secret = writes[n].key.secret
  <2>1. op.kind # "issue" => n > 0
    BY <1>0, <1>1, WritesType DEF OperationsSound, OperationSound
  <2>2. /\ op.kind \in Installs =>
            Written(op).status = "active" /\ Written(op).secret = op.secret
        /\ op.kind = "issue" => writes = <<>>
        /\ op.kind \in {"update", "revoke"} => Written(op).secret = Key.secret
    BY <1>0, <1>1, WrittenFacts, Zenon
  <2>3. writes = <<>> => n = 0
    BY <1>0, WritesType DEF Exists
  <2>. QED
    BY <1>0, <2>1, <2>2, <2>3 DEF Key
<1>5. /\ operation'[a] = [op EXCEPT !.written = TRUE]
      /\ \A b \in Admins \ {a} : operation'[b] = operation[b]
  BY <1>1 DEF TypeOK
<1>6. Bounded' /\ Cardinality(Unwritten') \in Nat
  <2>1. Unwritten' \subseteq Unwritten \ {a} /\ a \in Unwritten
    <3>1. operation'[a].written = TRUE
      BY <1>3, <1>5
    <3>. QED
      BY <1>0, <1>1, <1>5, <3>1 DEF Unwritten
  <2>2. /\ IsFiniteSet(Unwritten \ {a})
        /\ Cardinality(Unwritten \ {a}) = Cardinality(Unwritten) - 1
    BY <2>1, UnwrittenCount, FS_RemoveElement
  <2>3. /\ Cardinality(Unwritten') \in Nat
        /\ Cardinality(Unwritten') <= Cardinality(Unwritten) - 1
    BY <2>1, <2>2, FS_Subset, FS_CardinalityType
  <2>. QED
    BY <1>0, <1>2, <2>3, UnwrittenCount, ApiKeysAssumption DEF Bounded
<1>7. TypeOK'
  <2>1. operation' \in [Admins -> [kind : Kinds, patch : Patches, secret : 0..secrets,
                                  written : BOOLEAN] \union {None}]
    <3>1. [op EXCEPT !.written = TRUE] \in [kind : Kinds, patch : Patches,
                                           secret : 0..secrets, written : BOOLEAN]
      BY <1>3
    <3>. QED
      BY <1>1, <3>1 DEF TypeOK
  <2>2. Len(writes') <= MaxWrites
    BY <1>2, <1>6, ApiKeysAssumption DEF Bounded
  <2>3. underway' \in [Requests -> [secret : 0..secrets, since : 0..Len(writes'),
                                   found : 0..Len(writes')] \union {None}]
    BY <1>0, <1>1, <1>2 DEF TypeOK
  <2>4. verdict' \in [Requests -> [accepted : BOOLEAN, secret : 0..secrets,
                                  scopes : SUBSET Scopes, since : 0..Len(writes'),
                                  until : 0..Len(writes')] \union {None}]
    BY <1>0, <1>1, <1>2 DEF TypeOK
  <2>. QED
    BY <1>1, <1>2, <2>1, <2>2, <2>3, <2>4 DEF TypeOK
<1>8. OperationsSound'
  <2>1. SUFFICES ASSUME NEW b \in Admins, operation'[b] # None
                 PROVE  OperationSound(b)'
    BY DEF OperationsSound
  <2>2. Exists'
    <3>1. writes' # <<>>
      BY <1>2, EmptySeq
    <3>. QED
      BY <3>1 DEF Exists
  <2>3. CASE b = a
    <3>1. /\ operation'[a].kind = op.kind /\ operation'[a].patch = op.patch
          /\ operation'[a].secret = op.secret /\ operation'[a].written = TRUE
      BY <1>3, <1>5
    <3>2. OperationSound(a)
      BY <1>0, <1>1 DEF OperationsSound
    <3>3. op.kind \in Installs => n + 1 \in Installed(op.secret)'
      BY <1>2, <1>4 DEF Installed, Installs
    <3>. QED
      BY <1>0, <2>2, <2>3, <3>1, <3>2, <3>3 DEF OperationSound
  <2>4. CASE b # a
    <3>1. operation'[b] = operation[b] /\ operation[b] # None /\ OperationSound(b)
      BY <1>5, <2>1, <2>4 DEF OperationsSound
    <3>2. operation[b].kind = "issue" => operation[b].written
      BY <1>0, <1>1, <2>4, <3>1 DEF OperationSound
    <3>3. PICK secret : secret = operation[b].secret
      OBVIOUS
    <3>4. Installed(secret) \subseteq Installed(secret)'
      BY <1>2
    <3>. QED
      BY <2>2, <3>1, <3>2, <3>3, <3>4 DEF OperationSound
  <2>. QED
    BY <2>3, <2>4
<1>9. WritesSound'
  <2>1. ASSUME NEW i \in DOMAIN writes', writes'[i].kind \in Installs
        PROVE  writes'[i].key.status = "active"
    BY <1>2, <1>4, <2>1 DEF WritesSound
  <2>2. ASSUME NEW i \in DOMAIN writes', NEW k \in DOMAIN writes', i < k,
               writes'[i].key.secret # writes'[k].key.secret
        PROVE  \E j \in (i + 1)..k : writes'[j].kind = "rotate"
    <3>1. i \in 1..n /\ writes'[i] = writes[i]
      BY <1>2, <2>2
    <3>2. CASE k \in 1..n
      <4>1. writes'[k] = writes[k]
        BY <1>2, <3>2
      <4>2. PICK j \in (i + 1)..k : writes[j].kind = "rotate"
        BY <1>2, <2>2, <3>1, <3>2, <4>1 DEF WritesSound
      <4>. QED
        BY <1>2, <3>1, <3>2, <4>2
    <3>3. CASE k = n + 1 /\ op.kind = "rotate"
      BY <1>2, <3>1, <3>3
    <3>4. CASE k = n + 1 /\ op.kind \in {"update", "revoke"}
      <4>1. writes'[k].key.secret = writes[n].key.secret /\ n \in 1..n
        BY <1>2, <1>4, <3>4
      <4>2. i < n /\ writes[i].key.secret # writes[n].key.secret
        BY <1>2, <2>2, <3>1, <4>1
      <4>3. PICK j \in (i + 1)..n : writes[j].kind = "rotate"
        BY <1>2, <3>1, <4>1, <4>2 DEF WritesSound
      <4>. QED
        BY <1>2, <3>1, <3>4, <4>3
    <3>5. CASE op.kind = "issue"
      BY <1>4, <3>1, <3>5
    <3>. QED
      BY <1>2, <1>3, <3>2, <3>3, <3>4, <3>5
  <2>3. ASSUME NEW secret \in handed' PROVE Installed(secret)' # {}
    BY <1>1, <1>2, <2>3 DEF WritesSound
  <2>. QED
    BY <2>1, <2>2, <2>3 DEF WritesSound
<1>10. Looked'
  <2>1. SUFFICES ASSUME NEW r \in Requests, underway[r] # None,
                        NEW u, u = underway[r]
                 PROVE  /\ u.secret # 0 => \E i \in Installed(u.secret)' : i <= u.since
                        /\ u.found # 0 => /\ u.since <= u.found
                                          /\ writes'[u.found].key.status = "active"
    BY <1>1 DEF Looked
  <2>2. u.found \in 0..n
    BY <1>0, <2>1, UnderwayType
  <2>3. Installed(u.secret) \subseteq Installed(u.secret)'
    BY <1>2
  <2>4. /\ u.secret # 0 => \E i \in Installed(u.secret) : i <= u.since
        /\ u.found # 0 => u.since <= u.found /\ writes[u.found].key.status = "active"
    BY <2>1 DEF Looked
  <2>. QED
    BY <1>2, <2>2, <2>3, <2>4
<1>11. AcceptedWhileValid'
  <2>1. SUFFICES ASSUME NEW r \in Requests, verdict[r] # None, verdict[r].accepted,
                        NEW v, v = verdict[r]
                 PROVE  \E key \in Seen(v)' : /\ key.status = "active"
                                             /\ key.secret = v.secret
                                             /\ key.scopes = v.scopes
    BY <1>1 DEF AcceptedWhileValid
  <2>2. v.until \in 0..n /\ v.since \in 0..n
    BY <1>0, <2>1, VerdictType
  <2>3. Seen(v) \subseteq Seen(v)'
    BY <1>2, <2>2 DEF Seen
  <2>. QED
    BY <2>1, <2>3 DEF AcceptedWhileValid
<1>12. HandedTokenWorks'
  <2>1. SUFFICES ASSUME NEW r \in Requests, verdict[r] # None, ~verdict[r].accepted,
                        verdict[r].secret # 0, NEW v, v = verdict[r]
                 PROVE  \E i \in Installed(v.secret)', j \in 1..v.until :
                            /\ i < j
                            /\ \/ writes'[j].key.status = "revoked"
                               \/ writes'[j].kind = "rotate"
    BY <1>1 DEF HandedTokenWorks
  <2>2. v.until \in 0..n
    BY <1>0, <2>1, VerdictType
  <2>3. Installed(v.secret) \subseteq Installed(v.secret)'
    BY <1>2
  <2>. QED
    BY <1>2, <2>1, <2>2, <2>3 DEF HandedTokenWorks
<1>. QED
  BY <1>6, <1>7, <1>8, <1>9, <1>10, <1>11, <1>12

(* The administrator is answered, or the call fails: the operation ends.   *)
LEMMA OperationEnds ==
    ASSUME IInv, NEW a \in Admins,
           operation' = [operation EXCEPT ![a] = None],
           UNCHANGED <<writes, secrets, underway, verdict>>,
           handed' \subseteq 1..secrets,
           \A secret \in handed' : Installed(secret) # {},
           failures' \in 0..MaxFailures
    PROVE  IInv'
<1>. USE DEF IInv
<1>1. /\ operation'[a] = None
      /\ \A b \in Admins \ {a} : operation'[b] = operation[b]
  BY DEF TypeOK
<1>2. TypeOK'
  <2>1. operation' \in [Admins -> [kind : Kinds, patch : Patches, secret : 0..secrets,
                                  written : BOOLEAN] \union {None}]
    BY DEF TypeOK
  <2>. QED
    BY <2>1 DEF TypeOK
<1>3. Bounded'
  <2>1. Unwritten' \subseteq Unwritten
    BY <1>1 DEF Unwritten
  <2>2. /\ Cardinality(Unwritten') \in Nat
        /\ Cardinality(Unwritten') <= Cardinality(Unwritten)
    BY <2>1, UnwrittenCount, FS_Subset, FS_CardinalityType
  <2>. QED
    BY <2>2, UnwrittenCount, WritesType, ApiKeysAssumption DEF Bounded
<1>4. OperationsSound'
  <2>1. SUFFICES ASSUME NEW b \in Admins, operation'[b] # None
                 PROVE  OperationSound(b)'
    BY DEF OperationsSound
  <2>2. operation'[b] = operation[b] /\ OperationSound(b)
    BY <1>1, <2>1 DEF OperationsSound
  <2>3. \A c \in Admins : operation[c] = None => operation'[c] = None
    BY <1>1
  <2>. QED
    BY <2>2, <2>3 DEF OperationSound, Exists, Installed
<1>5. WritesSound' /\ Looked' /\ AcceptedWhileValid' /\ HandedTokenWorks'
  BY DEF WritesSound, Looked, AcceptedWhileValid, HandedTokenWorks, Installed, Seen
<1>. QED
  BY <1>2, <1>3, <1>4, <1>5

LEMMA AdminEndsIInv ==
    ASSUME IInv, NEW a \in Admins, Acknowledge(a) \/ AdminFails(a)
    PROVE  IInv'
<1>1. CASE Acknowledge(a)
  <2>1. PICK op : op = operation[a]
    OBVIOUS
  <2>2. /\ op # None /\ op.written /\ handed' = HandOut(op)
        /\ operation' = [operation EXCEPT ![a] = None]
        /\ UNCHANGED <<writes, secrets, underway, verdict, failures>>
    BY <1>1, <2>1 DEF Acknowledge
  <2>3. op.secret \in 0..secrets /\ secrets \in Nat
    BY <2>1, <2>2, OperationType DEF IInv, TypeOK
  <2>4. op.kind \in Installs => op.secret # 0 /\ Installed(op.secret) # {}
    BY <2>1, <2>2 DEF IInv, OperationsSound, OperationSound
  <2>5. handed' = handed \/ (op.kind \in Installs /\ handed' = handed \union {op.secret})
    BY <2>2 DEF HandOut, Installs
  <2>6. handed \subseteq 1..secrets /\ \A secret \in handed : Installed(secret) # {}
    BY DEF IInv, TypeOK, WritesSound
  <2>7. handed' \subseteq 1..secrets
    <3>1. op.kind \in Installs => op.secret \in 1..secrets
      BY <2>3, <2>4
    <3>. QED
      BY <2>5, <2>6, <3>1
  <2>8. \A secret \in handed' : Installed(secret) # {}
    BY <2>4, <2>5, <2>6
  <2>9. failures' \in 0..MaxFailures
    BY <2>2 DEF IInv, TypeOK
  <2>. QED
    BY <2>2, <2>7, <2>8, <2>9, OperationEnds
<1>2. CASE AdminFails(a)
  <2>1. /\ operation' = [operation EXCEPT ![a] = None]
        /\ UNCHANGED <<writes, secrets, handed, underway, verdict>>
        /\ failures < MaxFailures /\ failures' = failures + 1
    BY <1>2 DEF AdminFails
  <2>2. /\ handed' \subseteq 1..secrets
        /\ \A secret \in handed' : Installed(secret) # {}
        /\ failures' \in 0..MaxFailures
    BY <2>1, ApiKeysAssumption DEF IInv, TypeOK, WritesSound
  <2>. QED
    BY <2>1, <2>2, OperationEnds
<1>. QED
  BY <1>1, <1>2
-----------------------------------------------------------------------------
(* A verification moves on: the invariant holds if what it now has under   *)
(* way and what it has concluded are sound.                                *)
Sound(u) ==
    /\ u \in [secret : 0..secrets, since : 0..Len(writes), found : 0..Len(writes)]
    /\ u.secret # 0 => \E i \in Installed(u.secret) : i <= u.since
    /\ u.found # 0 => /\ u.since <= u.found
                      /\ writes[u.found].key.status = "active"

Justified(v) ==
    /\ v \in [accepted : BOOLEAN, secret : 0..secrets, scopes : SUBSET Scopes,
              since : 0..Len(writes), until : 0..Len(writes)]
    /\ v.accepted => \E key \in Seen(v) : /\ key.status = "active"
                                          /\ key.secret = v.secret
                                          /\ key.scopes = v.scopes
    /\ ~v.accepted /\ v.secret # 0 =>
          \E i \in Installed(v.secret), j \in 1..v.until :
              i < j /\ (writes[j].key.status = "revoked" \/ writes[j].kind = "rotate")

(* What an invariant state says of a verdict.                              *)
LEMMA VerdictJustified ==
    ASSUME IInv, NEW r \in Requests
    PROVE  verdict[r] = None \/ Justified(verdict[r])
<1>. SUFFICES ASSUME verdict[r] # None PROVE Justified(verdict[r])
  OBVIOUS
<1>1. verdict[r] \in [accepted : BOOLEAN, secret : 0..secrets, scopes : SUBSET Scopes,
                      since : 0..Len(writes), until : 0..Len(writes)]
  BY VerdictType DEF IInv
<1>2. verdict[r].accepted =>
          \E key \in Seen(verdict[r]) : /\ key.status = "active"
                                        /\ key.secret = verdict[r].secret
                                        /\ key.scopes = verdict[r].scopes
  BY DEF IInv, AcceptedWhileValid
<1>3. ~verdict[r].accepted /\ verdict[r].secret # 0 =>
          \E i \in Installed(verdict[r].secret), j \in 1..verdict[r].until :
              i < j /\ (writes[j].key.status = "revoked" \/ writes[j].kind = "rotate")
  BY DEF IInv, HandedTokenWorks
<1>. QED
  BY <1>1, <1>2, <1>3 DEF Justified

LEMMA VerificationMoves ==
    ASSUME IInv, NEW r \in Requests, NEW u, NEW v,
           underway' = [underway EXCEPT ![r] = u], u = None \/ Sound(u),
           verdict' = [verdict EXCEPT ![r] = v], v = None \/ Justified(v),
           UNCHANGED <<writes, secrets, handed, operation>>,
           failures' \in 0..MaxFailures
    PROVE  IInv'
<1>. USE DEF IInv
<1>1. /\ underway'[r] = u /\ verdict'[r] = v
      /\ \A q \in Requests \ {r} : underway'[q] = underway[q] /\ verdict'[q] = verdict[q]
  BY DEF TypeOK
<1>2. TypeOK'
  <2>1. underway' \in [Requests -> [secret : 0..secrets, since : 0..Len(writes),
                                   found : 0..Len(writes)] \union {None}]
    BY DEF TypeOK, Sound
  <2>2. verdict' \in [Requests -> [accepted : BOOLEAN, secret : 0..secrets,
                                  scopes : SUBSET Scopes, since : 0..Len(writes),
                                  until : 0..Len(writes)] \union {None}]
    BY DEF TypeOK, Justified
  <2>. QED
    BY <2>1, <2>2 DEF TypeOK
<1>3. Bounded' /\ OperationsSound' /\ WritesSound'
  BY DEF Bounded, Unwritten, OperationsSound, OperationSound, WritesSound, Installed, Exists
<1>4. Looked'
  <2>1. \A q \in Requests : underway'[q] # None =>
            /\ underway'[q].secret # 0 =>
                  \E i \in Installed(underway'[q].secret) : i <= underway'[q].since
            /\ underway'[q].found # 0 =>
                  /\ underway'[q].since <= underway'[q].found
                  /\ writes[underway'[q].found].key.status = "active"
    BY <1>1 DEF Looked, Sound
  <2>. QED
    BY <2>1 DEF Looked, Installed
<1>5. AcceptedWhileValid'
  <2>1. \A q \in Requests : verdict'[q] # None /\ verdict'[q].accepted =>
            \E key \in Seen(verdict'[q]) : /\ key.status = "active"
                                           /\ key.secret = verdict'[q].secret
                                           /\ key.scopes = verdict'[q].scopes
    BY <1>1 DEF AcceptedWhileValid, Justified
  <2>. QED
    BY <2>1 DEF AcceptedWhileValid, Seen
<1>6. HandedTokenWorks'
  <2>1. ASSUME NEW q \in Requests, verdict'[q] # None, ~verdict'[q].accepted,
               verdict'[q].secret # 0
        PROVE  \E i \in Installed(verdict'[q].secret), j \in 1..verdict'[q].until :
                   i < j /\ (writes[j].key.status = "revoked" \/ writes[j].kind = "rotate")
    <3>1. CASE q = r
      <4>1. verdict'[q] = v /\ Justified(v)
        BY <1>1, <2>1, <3>1
      <4>. QED
        BY <2>1, <4>1 DEF Justified
    <3>2. CASE q # r
      <4>1. verdict'[q] = verdict[q]
        BY <1>1, <3>2
      <4>. QED
        BY <2>1, <4>1 DEF HandedTokenWorks
    <3>. QED
      BY <3>1, <3>2
  <2>. QED
    BY <2>1 DEF HandedTokenWorks, Installed
<1>. QED
  BY <1>2, <1>3, <1>4, <1>5, <1>6

(* What an invariant state says of one verification under way.             *)
LEMMA UnderwaySound ==
    ASSUME IInv, NEW r \in Requests, underway[r] # None
    PROVE  Sound(underway[r])
BY UnderwayType DEF IInv, Looked, Sound

LEMMA PresentIInv ==
    ASSUME IInv, NEW r \in Requests, Present(r)
    PROVE  IInv'
<1>1. PICK secret \in handed \union {0} :
          underway' = [underway EXCEPT ![r] =
              [secret |-> secret, since |-> Len(writes), found |-> 0]]
  BY DEF Present
<1>2. PICK u : u = [secret |-> secret, since |-> Len(writes), found |-> 0]
  OBVIOUS
<1>3. u.secret = secret /\ u.since = Len(writes) /\ u.found = 0
  BY <1>2
<1>4. /\ secrets \in Nat /\ handed \subseteq 1..secrets
      /\ Len(writes) \in Nat /\ DOMAIN writes = 1..Len(writes)
  BY WritesType DEF IInv, TypeOK
<1>5. Sound(u)
  <2>1. u \in [secret : 0..secrets, since : 0..Len(writes), found : 0..Len(writes)]
    BY <1>2, <1>4
  <2>2. ASSUME u.secret # 0
        PROVE  \E i \in Installed(u.secret) : i <= u.since
    <3>1. Installed(secret) # {}
      BY <1>3, <2>2 DEF IInv, WritesSound
    <3>2. \A i \in Installed(secret) : i <= Len(writes)
      BY <1>4 DEF Installed
    <3>. QED
      BY <1>3, <3>1, <3>2
  <2>. QED
    BY <1>3, <2>1, <2>2 DEF Sound
<1>6. /\ underway' = [underway EXCEPT ![r] = u]
      /\ verdict' = [verdict EXCEPT ![r] = None]
      /\ UNCHANGED <<writes, secrets, handed, operation>>
      /\ failures' \in 0..MaxFailures
  BY <1>1, <1>2 DEF Present, IInv, TypeOK
<1>. QED
  BY <1>5, <1>6, VerificationMoves

LEMMA FindIInv ==
    ASSUME IInv, NEW r \in Requests, Find(r)
    PROVE  IInv'
<1>1. PICK old, u : old = underway[r] /\ u = [old EXCEPT !.found = Len(writes)]
  OBVIOUS
<1>2. /\ old # None /\ Findable
      /\ underway' = [underway EXCEPT ![r] = u]
      /\ UNCHANGED <<writes, secrets, handed, operation, verdict, failures>>
  BY <1>1 DEF Find
<1>3. Sound(old)
  BY <1>1, <1>2, UnderwaySound
<1>4. /\ u \in [secret : 0..secrets, since : 0..Len(writes), found : 0..Len(writes)]
      /\ u.secret = old.secret /\ u.since = old.since /\ u.found = Len(writes)
      /\ old.since <= Len(writes)
  <2>1. Len(writes) \in 0..Len(writes)
    BY WritesType DEF IInv
  <2>. QED
    BY <1>1, <1>3, <2>1 DEF Sound
<1>5. Sound(u)
  BY <1>2, <1>3, <1>4 DEF Sound, Findable, Key
<1>6. /\ verdict' = [verdict EXCEPT ![r] = verdict[r]]
      /\ verdict[r] = None \/ Justified(verdict[r])
      /\ failures' \in 0..MaxFailures
  <2>1. verdict' = [verdict EXCEPT ![r] = verdict[r]]
    BY <1>2 DEF IInv, TypeOK
  <2>2. verdict[r] = None \/ Justified(verdict[r])
    BY VerdictJustified
  <2>. QED
    BY <1>2, <2>1, <2>2 DEF IInv, TypeOK
<1>7. PICK v : v = verdict[r]
  OBVIOUS
<1>. QED
  BY <1>2, <1>5, <1>6, <1>7, VerificationMoves

(* A verification concludes with a verdict of its own.                     *)
LEMMA ConcludeIInv ==
    ASSUME IInv, NEW r \in Requests, NEW u, u = underway[r], u # None,
           NEW accepted \in BOOLEAN, NEW scopes \in SUBSET Scopes,
           Conclude(r, accepted, scopes),
           UNCHANGED <<writes, secrets, handed, operation, failures>>,
           accepted => \E n \in 1..Len(writes) :
                          /\ u.since <= n
                          /\ writes[n].key.status = "active"
                          /\ writes[n].key.secret = u.secret
                          /\ writes[n].key.scopes = scopes,
           ~accepted /\ u.secret # 0 =>
                       \E i \in Installed(u.secret), j \in 1..Len(writes) :
                           i < j /\ (writes[j].key.status = "revoked"
                                     \/ writes[j].kind = "rotate")
    PROVE  IInv'
<1>1. PICK v : v = [accepted |-> accepted, secret |-> u.secret, scopes |-> scopes,
                    since |-> u.since, until |-> Len(writes)]
  OBVIOUS
<1>2. /\ v.accepted = accepted /\ v.secret = u.secret /\ v.scopes = scopes
      /\ v.since = u.since /\ v.until = Len(writes)
  BY <1>1
<1>3. Len(writes) \in Nat /\ u.since \in 0..Len(writes) /\ u.secret \in 0..secrets
  BY WritesType, UnderwayType DEF IInv
<1>4. Justified(v)
  <2>1. v \in [accepted : BOOLEAN, secret : 0..secrets, scopes : SUBSET Scopes,
               since : 0..Len(writes), until : 0..Len(writes)]
    BY <1>1, <1>3
  <2>2. ASSUME accepted
        PROVE  \E key \in Seen(v) : /\ key.status = "active"
                                    /\ key.secret = v.secret
                                    /\ key.scopes = v.scopes
    <3>1. PICK n \in 1..Len(writes) : /\ u.since <= n
                                      /\ writes[n].key.status = "active"
                                      /\ writes[n].key.secret = u.secret
                                      /\ writes[n].key.scopes = scopes
      BY <2>2
    <3>2. writes[n].key \in Seen(v)
      BY <1>2, <1>3, <3>1 DEF Seen
    <3>. QED
      BY <1>2, <3>1, <3>2
  <2>. QED
    BY <1>2, <2>1, <2>2 DEF Justified
<1>5. /\ verdict' = [verdict EXCEPT ![r] = v]
      /\ underway' = [underway EXCEPT ![r] = None]
      /\ failures' \in 0..MaxFailures
  BY <1>1 DEF Conclude, IInv, TypeOK
<1>. QED
  BY <1>4, <1>5, VerificationMoves

(* The token presented was in force before; since the document is not      *)
(* active now, the last write revoked the key.                             *)
LEMMA NotFoundIInv ==
    ASSUME IInv, NEW r \in Requests, NotFound(r)
    PROVE  IInv'
<1>1. PICK u : u = underway[r]
  OBVIOUS
<1>2. /\ u # None /\ ~Findable /\ Conclude(r, FALSE, {})
      /\ UNCHANGED <<writes, secrets, handed, operation, failures>>
  BY <1>1 DEF NotFound
<1>3. u.since \in 0..Len(writes) /\ Len(writes) \in Nat /\ DOMAIN writes = 1..Len(writes)
  BY <1>1, <1>2, UnderwayType, WritesType DEF IInv
<1>4. ASSUME u.secret # 0
      PROVE  \E i \in Installed(u.secret), j \in 1..Len(writes) :
                 i < j /\ (writes[j].key.status = "revoked" \/ writes[j].kind = "rotate")
  <2>1. PICK i \in Installed(u.secret) : i <= u.since
    BY <1>1, <1>2, <1>4 DEF IInv, Looked
  <2>2. /\ i \in 1..Len(writes) /\ Len(writes) \in 1..Len(writes)
        /\ writes[i].kind \in Installs
    BY <1>3, <2>1 DEF Installed, Installs
  <2>3. writes[i].key.status = "active"
    BY <1>3, <2>2 DEF IInv, WritesSound
  <2>4. writes[Len(writes)].key.status \in States /\ Exists
    BY <2>2, WritesType DEF IInv, Keys
  <2>5. writes[Len(writes)].key.status = "revoked"
    BY <1>2, <2>4 DEF Findable, Key, States
  <2>6. i < Len(writes)
    BY <1>3, <2>2, <2>3, <2>5
  <2>. QED
    BY <2>2, <2>5, <2>6
<1>. QED
  BY <1>1, <1>2, <1>4, ConcludeIInv

(* The hash compared is the one read: the document was active then, and if *)
(* the secret does not match, a rotation replaced it between the write     *)
(* that installed it and the one that was read.                            *)
LEMMA CompareIInv ==
    ASSUME IInv, NEW r \in Requests, Compare(r)
    PROVE  IInv'
<1>1. PICK u : u = underway[r]
  OBVIOUS
<1>2. PICK read : read = writes[u.found].key
  OBVIOUS
<1>3. /\ u # None /\ u.found # 0
      /\ read.secret = u.secret => Conclude(r, TRUE, read.scopes)
      /\ read.secret # u.secret => Conclude(r, FALSE, {})
      /\ UNCHANGED <<writes, secrets, handed, operation, failures>>
  BY <1>1, <1>2 DEF Compare
<1>4. /\ u.since \in 0..Len(writes) /\ u.found \in 1..Len(writes)
      /\ Len(writes) \in Nat /\ DOMAIN writes = 1..Len(writes)
      /\ u.since <= u.found /\ read.status = "active"
  BY <1>1, <1>2, <1>3, UnderwayType, WritesType DEF IInv, Looked
<1>5. read.scopes \in SUBSET Scopes
  BY <1>2, <1>4, WritesType DEF IInv, Keys
<1>6. CASE read.secret = u.secret
  BY <1>1, <1>2, <1>3, <1>4, <1>5, <1>6, ConcludeIInv
<1>7. CASE read.secret # u.secret
  <2>1. ASSUME u.secret # 0
        PROVE  \E i \in Installed(u.secret), j \in 1..Len(writes) :
                   i < j /\ (writes[j].key.status = "revoked" \/ writes[j].kind = "rotate")
    <3>1. PICK i \in Installed(u.secret) : i <= u.since
      BY <1>1, <1>3, <2>1 DEF IInv, Looked
    <3>2. i \in 1..Len(writes) /\ writes[i].key.secret = u.secret
      BY <1>4, <3>1 DEF Installed
    <3>3. i < u.found
      BY <1>2, <1>4, <1>7, <3>1, <3>2
    <3>4. PICK j \in (i + 1)..u.found : writes[j].kind = "rotate"
      BY <1>2, <1>4, <1>7, <3>2, <3>3 DEF IInv, WritesSound
    <3>. QED
      BY <1>4, <3>1, <3>2, <3>4
  <2>. QED
    BY <1>1, <1>3, <1>7, <2>1, ConcludeIInv
<1>. QED
  BY <1>6, <1>7

LEMMA FindFailsIInv ==
    ASSUME IInv, NEW r \in Requests, FindFails(r)
    PROVE  IInv'
<1>1. /\ underway' = [underway EXCEPT ![r] = None]
      /\ verdict' = [verdict EXCEPT ![r] = verdict[r]]
      /\ verdict[r] = None \/ Justified(verdict[r])
      /\ UNCHANGED <<writes, secrets, handed, operation>>
      /\ failures' \in 0..MaxFailures
  <2>1. underway' = [underway EXCEPT ![r] = None]
    BY DEF FindFails
  <2>2. UNCHANGED <<writes, secrets, handed, operation, verdict>>
    BY DEF FindFails
  <2>3. verdict' = [verdict EXCEPT ![r] = verdict[r]]
    BY <2>2 DEF IInv, TypeOK
  <2>4. failures' \in 0..MaxFailures
    BY ApiKeysAssumption DEF FindFails, IInv, TypeOK
  <2>5. verdict[r] = None \/ Justified(verdict[r])
    BY VerdictJustified
  <2>. QED
    BY <2>1, <2>2, <2>3, <2>4, <2>5
<1>2. PICK v : v = verdict[r]
  OBVIOUS
<1>. QED
  BY <1>1, <1>2, VerificationMoves

(* IInv holds in every reachable state.                                    *)
THEOREM Invariance == Spec => []IInv
<1>1. IInv /\ [Next]_vars => IInv'
  <2>1. SUFFICES ASSUME IInv, [Next]_vars PROVE IInv'
    OBVIOUS
  <2>2. ASSUME NEW a \in Admins,
               BeginIssue(a) \/ BeginRotate(a) \/ BeginEdit(a)
               \/ Write(a) \/ Acknowledge(a) \/ AdminFails(a)
        PROVE  IInv'
    BY <2>1, <2>2, AdminBeginsIInv, WriteIInv, AdminEndsIInv
  <2>3. ASSUME NEW r \in Requests,
               Present(r) \/ Find(r) \/ NotFound(r) \/ Compare(r) \/ FindFails(r)
        PROVE  IInv'
    BY <2>1, <2>3, PresentIInv, FindIInv, NotFoundIInv, CompareIInv, FindFailsIInv
  <2>4. CASE UNCHANGED vars
    BY <2>1, <2>4 DEF vars, IInv, TypeOK, Bounded, Unwritten, OperationsSound,
       OperationSound, WritesSound, Looked, AcceptedWhileValid, HandedTokenWorks,
       Installed, Seen, Exists
  <2>. QED
    BY <2>1, <2>2, <2>3, <2>4 DEF Next
<1>. QED
  BY <1>1, InitIInv, PTL DEF Spec
-----------------------------------------------------------------------------
(* Every variable has its type in every reachable state, for any number of *)
(* connections, requests, writes and failures (src/auth/api-key.service.ts *)
(* and the collection it writes).                                          *)
THEOREM TypeCorrect == Spec => []TypeOK
<1>1. IInv => TypeOK
  BY DEF IInv
<1>. QED
  BY <1>1, Invariance, PTL

(* verifyApiKeyToken is as good as an atomic look at the key: what it      *)
(* accepts was active, with that secret and those scopes, at one moment    *)
(* of the verification, whatever was rotated or revoked meanwhile.         *)
THEOREM AtomicVerification == Spec => []AcceptedWhileValid
<1>1. IInv => AcceptedWhileValid
  BY DEF IInv
<1>. QED
  BY <1>1, Invariance, PTL

(* A token issueApiKey or rotateApiKey has handed out is refused only      *)
(* after a later write that revoked or rotated the key, however the        *)
(* operations of the administrators overlap and fail.                      *)
THEOREM TokensWork == Spec => []HandedTokenWorks
<1>1. IInv => HandedTokenWorks
  BY DEF IInv
<1>. QED
  BY <1>1, Invariance, PTL
=============================================================================
