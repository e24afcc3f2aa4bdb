---------------------------- MODULE GatewayProofs ----------------------------
(***************************************************************************)
(* Proofs about Gateway, for all routes, whatever their hooks, and all     *)
(* status codes.  The inductive invariant is IInv: what the handler has    *)
(* established by the time it reaches each of its stages, and how far the  *)
(* exchange has come by then.  The properties cannot be proved without     *)
(* it: that the status logged is the one sent, say, rests on no step after *)
(* the last byte of a response leading back to a stage that writes one.    *)
(***************************************************************************)
EXTENDS Gateway, SequenceTheorems, TLAPS

(* The stages before a token was taken, and those an error leads out of.   *)
Early == Checks \union {"resolving", "limiting"}
Faultless == Early \union {"pre", "proxying"}

Admitted == route # NoRoute /\ Needed(route.authMode) \subseteq principals

(* Credentials are verified one by one and become the principal together.  *)
Authenticated ==
    /\ \A c \in principals : credentials[c] = "good"
    /\ route = NoRoute => principals = {}
    /\ route # NoRoute => principals \subseteq Needed(route.authMode)
    /\ principal = IF Admitted THEN Needed(route.authMode) ELSE {}
    /\ charged = 1 => Admitted
    /\ executedProxy => charged = 1

(* What holds at each stage.                                               *)
Staged ==
    /\ stage = "resolving" => route = NoRoute
    /\ route = NoRoute => stage \in {"resolving", "reporting", "done"}
    /\ stage \in Checks => stage \in Needed(route.authMode) \ principals
    /\ stage = "limiting" => Admitted
    /\ stage \in Early => charged = 0
    /\ stage = "pre" => charged = 1
    /\ stage \in Faultless => error = 0
    /\ stage \in ErrorChains \union {"reporting"} => error # 0
    /\ stage \in {"proxying", "post"} => executedProxy
    /\ executedProxy => stage \notin Early \union {"pre"}

(* A response is written by the upstream's answer or by the error handler, *)
(* never by both, and nothing that writes one follows its end.             *)
Exchanged ==
    /\ response = "open" => sent = 0 /\ upstream # "ended"
    /\ response = "finished" => stage \in {"post", "done"}

(* The edits when n hooks of the chain are over: the k-th hook's edit is   *)
(* in place, or is late, or the hook has failed.                           *)
EditedBy(n) ==
    /\ IsInjective(edits)
    /\ failed \subseteq 1..n
    /\ late \subseteq failed
    /\ Range(edits) \subseteq (1..n) \ late
    /\ (1..n) \ failed \subseteq Range(edits)
    /\ \A i, j \in DOMAIN edits :
          i < j /\ {edits[i], edits[j]} \intersect failed = {} => edits[i] < edits[j]

Edited ==
    /\ stage \in Early => edits = <<>> /\ failed = {} /\ late = {}
    /\ stage = "pre" => hook \in 1..(route.pre + 1) /\ EditedBy(hook - 1)
    /\ executedProxy => EditedBy(route.pre)

(* What the code logs, to the letter: nothing of a connection that is lost. *)
LoggedExactly ==
    LET admitted == \A c \in Needed(route.authMode) : c \in principals
        named == IF admitted THEN Needed(route.authMode) ELSE {} IN
    logged = IF response = "finished" /\ route # NoRoute
             THEN <<[status |-> sent, principal |-> named]>> ELSE <<>>

IInv ==
    /\ TypeOK /\ Authenticated /\ Staged /\ Exchanged /\ Edited
    /\ LoggedExactly /\ WholeAnswerOrError /\ HooksFollowOutcome
-----------------------------------------------------------------------------
(* The next check is one that is needed and not done yet, if there is any. *)
LEMMA NextCheckFacts ==
    ASSUME NEW mode, NEW done
    PROVE  \/ /\ NextCheck(mode, done) = "limiting"
              /\ Needed(mode) \subseteq done
           \/ /\ NextCheck(mode, done) \in Needed(mode) \ done
              /\ NextCheck(mode, done) \in Checks
BY DEF NextCheck, Needed, Checks

(* A route's hooks can be counted.                                         *)
LEMMA RouteFacts ==
    ASSUME TypeOK, route # NoRoute
    PROVE  /\ route \in Routes
           /\ route.pre \in Nat /\ route.post \in Nat /\ route.error \in Nat
BY GatewayAssumption DEF TypeOK

(* A chain that starts takes the next place.                               *)
LEMMA RunPlaces ==
    ASSUME TypeOK, NEW chain \in Chains, Run(chain)
    PROVE  /\ stage' = chain /\ hook' = 1
           /\ chains' \in Seq(Chains)
           /\ Len(chains') \in DOMAIN chains'
           /\ \A kinds : Places(kinds)' =
                  IF chain \in kinds THEN Places(kinds) \union {Len(chains')}
                  ELSE Places(kinds)
<1>1. chains \in Seq(Chains) /\ chains' = Append(chains, chain)
  BY DEF TypeOK, Run
<1>2. /\ chains' \in Seq(Chains)
      /\ Len(chains') = Len(chains) + 1
      /\ \A k \in 1..Len(chains) : chains'[k] = chains[k]
      /\ chains'[Len(chains) + 1] = chain
  BY <1>1, AppendProperties
<1>3. /\ Len(chains) \in Nat
      /\ DOMAIN chains = 1..Len(chains)
      /\ DOMAIN chains' = 1..(Len(chains) + 1)
  BY <1>1, <1>2, LenProperties
<1>4. ASSUME NEW kinds
      PROVE  Places(kinds)' = IF chain \in kinds
                              THEN Places(kinds) \union {Len(chains')}
                              ELSE Places(kinds)
  BY <1>2, <1>3 DEF Places
<1>. QED
  BY <1>2, <1>3, <1>4 DEF Run

LEMMA InitIInv == Init => IInv
<1>. SUFFICES ASSUME Init PROVE IInv
  OBVIOUS
<1>1. TypeOK
  <2>1. chains \in Seq(Chains) /\ edits \in Seq(Nat)
    BY EmptySeq DEF Init
  <2>2. logged \in Seq([status : Codes, principal : SUBSET Checks])
    BY EmptySeq DEF Init
  <2>3. /\ status \in Codes /\ sent \in Codes \union {0} /\ error \in Codes \union {0}
        /\ stage \in {"resolving"} /\ upstream \in {"idle"}
        /\ charged \in 0..1 /\ hook \in Nat
    BY DEF Init, Codes
  <2>. QED
    BY <2>1, <2>2, <2>3, Zenon DEF Init, TypeOK
<1>2. Authenticated /\ Staged /\ Exchanged /\ Edited
  BY DEF Init, Authenticated, Admitted, Staged, Exchanged, Edited, Checks,
         ErrorChains, Faultless, Early
<1>3. LoggedExactly /\ WholeAnswerOrError
  BY DEF Init, LoggedExactly, WholeAnswerOrError
<1>4. HooksFollowOutcome
  BY DEF Init, HooksFollowOutcome, Places
<1>. QED
  BY <1>1, <1>2, <1>3, <1>4 DEF IInv

LEMMA MatchIInv ==
    ASSUME IInv, Match
    PROVE  IInv'
<1>. USE DEF IInv
<1>. DEFINE mode == route'.authMode
<1>1. /\ stage = "resolving" /\ route = NoRoute
      /\ route' \in Routes /\ route' # NoRoute
      /\ stage' = NextCheck(mode, {})
  BY GatewayAssumption DEF Match, Staged
<1>2. UNCHANGED <<credentials, auth, charged, hooks, hook, chains, error,
                  executedProxy, outside>>
  BY DEF Match
<1>3. /\ stage' \in Checks \union {"limiting"}
      /\ stage' = "limiting" => Needed(mode) = {}
      /\ stage' # "limiting" => stage' \in Needed(mode)
  <2>. HIDE DEF mode
  <2>. QED
    BY <1>1, NextCheckFacts DEF Checks
<1>4. /\ principals = {} /\ principal = {} /\ charged = 0 /\ error = 0
      /\ ~executedProxy /\ response # "finished"
  BY <1>1 DEF Authenticated, Admitted, Staged, Exchanged, Early, Faultless
<1>5. TypeOK'
  BY <1>1, <1>2, <1>3 DEF TypeOK, auth, hooks, outside
<1>6. Authenticated'
  BY <1>1, <1>2, <1>4 DEF Authenticated, Admitted, auth
<1>7. Staged'
  BY <1>1, <1>2, <1>3, <1>4
     DEF Staged, Admitted, auth, outside, Checks, ErrorChains, Early, Faultless
<1>8. Exchanged' /\ LoggedExactly' /\ WholeAnswerOrError'
  BY <1>1, <1>2, <1>4
     DEF Exchanged, LoggedExactly, WholeAnswerOrError, outside
<1>9. Edited'
  BY <1>1, <1>2, <1>3, <1>4 DEF Edited, hooks, Checks, Early
<1>10. HooksFollowOutcome'
  BY <1>1, <1>2, <1>4 DEF HooksFollowOutcome, Places, outside
<1>. QED
  BY <1>5, <1>6, <1>7, <1>8, <1>9, <1>10

LEMMA NoMatchIInv ==
    ASSUME IInv, NoMatch
    PROVE  IInv'
<1>. USE DEF IInv
<1>1. /\ stage = "resolving" /\ route = NoRoute
      /\ error' \in {404, 500} /\ stage' = "reporting"
      /\ UNCHANGED <<credentials, route, auth, charged, hooks, hook, chains,
                     executedProxy, outside>>
  BY DEF NoMatch, Staged
<1>2. ~executedProxy /\ response # "finished" /\ charged = 0
  BY <1>1 DEF Authenticated, Staged, Exchanged, Early
<1>3. TypeOK'
  BY <1>1 DEF TypeOK, Codes, auth, hooks, outside
<1>4. Authenticated' /\ Staged'
  BY <1>1, <1>2
     DEF Authenticated, Staged, Admitted, auth, Checks, ErrorChains, Early, Faultless
<1>5. Exchanged' /\ LoggedExactly' /\ WholeAnswerOrError'
  BY <1>1, <1>2 DEF Exchanged, LoggedExactly, WholeAnswerOrError, outside
<1>6. Edited'
  BY <1>1, <1>2 DEF Edited, hooks, Checks, Early
<1>7. HooksFollowOutcome'
  BY <1>1, <1>2 DEF HooksFollowOutcome, Places, outside
<1>. QED
  BY <1>3, <1>4, <1>5, <1>6, <1>7

(* The last credential makes the principals the principal.                 *)
LEMMA CheckIInv ==
    ASSUME IInv, Check
    PROVE  IInv'
<1>. USE DEF IInv
<1>. DEFINE mode == route.authMode
<1>1. /\ stage \in Checks
      /\ credentials[stage] = "good"
      /\ principals' = principals \union {stage}
      /\ stage' = NextCheck(mode, principals')
      /\ principal' = IF stage' = "limiting" THEN principals' ELSE principal
      /\ UNCHANGED <<credentials, route, charged, hook, chains, hooks, error,
                     executedProxy, outside>>
  BY DEF Check
<1>2. /\ route # NoRoute /\ error = 0 /\ charged = 0 /\ ~executedProxy
      /\ response # "finished"
      /\ stage \in Needed(mode) \ principals
      /\ principals \subseteq Needed(mode)
  BY <1>1 DEF Authenticated, Staged, Exchanged, Checks, Early, Faultless
<1>3. /\ stage' \in Checks \union {"limiting"}
      /\ stage' = "limiting" => Needed(mode) \subseteq principals'
      /\ stage' # "limiting" => stage' \in Needed(mode) \ principals'
  <2>. HIDE DEF mode
  <2>. QED
    BY <1>1, NextCheckFacts DEF Checks
<1>4. /\ principals' \subseteq Needed(mode)
      /\ Admitted' <=> stage' = "limiting"
      /\ principal = {}
  BY <1>1, <1>2, <1>3 DEF Authenticated, Admitted
<1>5. TypeOK'
  BY <1>1, <1>3 DEF TypeOK, hooks, outside
<1>6. Authenticated'
  BY <1>1, <1>2, <1>3, <1>4 DEF Authenticated, Admitted
<1>7. Staged'
  BY <1>1, <1>2, <1>3, <1>4 DEF Staged, Checks, ErrorChains, Early, Faultless
<1>8. Exchanged' /\ LoggedExactly' /\ WholeAnswerOrError'
  BY <1>1, <1>2, <1>3 DEF Exchanged, LoggedExactly, WholeAnswerOrError, outside
<1>9. Edited'
  BY <1>1, <1>2, <1>3 DEF Edited, hooks, Checks, Early
<1>10. HooksFollowOutcome'
  BY <1>1, <1>2 DEF HooksFollowOutcome, Places, outside
<1>. QED
  BY <1>5, <1>6, <1>7, <1>8, <1>9, <1>10

LEMMA AdmitIInv ==
    ASSUME IInv, Admit
    PROVE  IInv'
<1>. USE DEF IInv
<1>1. /\ stage = "limiting"
      /\ charged' = charged + 1
      /\ Run("pre")
      /\ UNCHANGED <<credentials, route, auth, hooks, error, executedProxy, outside>>
  BY DEF Admit
<1>2. /\ Admitted /\ route # NoRoute /\ error = 0 /\ charged = 0 /\ ~executedProxy
      /\ response # "finished"
      /\ edits = <<>> /\ failed = {} /\ late = {}
  BY <1>1 DEF Staged, Exchanged, Edited, Early, Faultless, Admitted
<1>3. /\ stage' = "pre" /\ hook' = 1
      /\ chains' \in Seq(Chains)
      /\ Places(ErrorChains)' = Places(ErrorChains)
      /\ Places({"post"})' = Places({"post"})
  BY <1>1, RunPlaces DEF Chains, ErrorChains
<1>4. TypeOK'
  BY <1>1, <1>2, <1>3 DEF TypeOK, Chains, auth, hooks, outside
<1>5. Authenticated' /\ Staged'
  BY <1>1, <1>2, <1>3
     DEF Authenticated, Staged, Admitted, auth, Checks, ErrorChains, Early, Faultless
<1>6. Exchanged' /\ LoggedExactly' /\ WholeAnswerOrError'
  BY <1>1, <1>2, <1>3 DEF Exchanged, LoggedExactly, WholeAnswerOrError, auth, outside
<1>7. Edited'
  <2>1. EditedBy(0)'
    BY <1>1, <1>2 DEF EditedBy, IsInjective, Range, hooks
  <2>2. route.pre \in Nat
    BY <1>2, RouteFacts
  <2>. QED
    BY <1>1, <1>2, <1>3, <2>1, <2>2 DEF Edited, hooks, Checks, Early
<1>8. HooksFollowOutcome'
  BY <1>1, <1>2, <1>3 DEF HooksFollowOutcome, outside
<1>. QED
  BY <1>4, <1>5, <1>6, <1>7, <1>8

(* An error leads from any stage that precedes the end of the response to  *)
(* the error hooks, and nothing of the response has been completed.        *)
LEMMA RaiseIInv ==
    ASSUME IInv, NEW chain \in ErrorChains, NEW code \in {401, 429, 500, 502},
           Raise(chain, code),
           UNCHANGED <<credentials, route, auth, charged, hooks, status, response,
                       sent, left, logged>>,
           upstream' \in {upstream, "broken"},
           stage \in Checks \union {"limiting", "proxying"} \/ HooksOver("pre"),
           executedProxy' \in BOOLEAN, executedProxy => executedProxy',
           executedProxy' => executedProxy \/ HooksOver("pre")
    PROVE  IInv'
<1>. USE DEF IInv
<1>1. /\ stage \in Faultless /\ route # NoRoute /\ error = 0
      /\ response # "finished"
  BY DEF HooksOver, Staged, Exchanged, Checks, Early, Faultless
<1>2. /\ stage' = chain /\ error' = code
      /\ hook' = 1 /\ chains' \in Seq(Chains)
      /\ Len(chains') \in DOMAIN chains'
      /\ Places(ErrorChains)' = Places(ErrorChains) \union {Len(chains')}
      /\ Places({"post"})' = Places({"post"})
  BY RunPlaces DEF Raise, Chains, ErrorChains
<1>3. TypeOK'
  <2>1. chain \in Chains /\ code \in Codes /\ hook' \in Nat
    BY <1>2 DEF Codes, Chains
  <2>. QED
    BY <1>2, <2>1 DEF TypeOK, auth, hooks
<1>4. executedProxy' => charged = 1
  <2>1. executedProxy => charged = 1
    BY DEF Authenticated
  <2>2. HooksOver("pre") => charged = 1
    BY DEF HooksOver, Staged
  <2>. QED
    BY <2>1, <2>2
<1>5. Authenticated' /\ Staged'
  BY <1>1, <1>2, <1>4
     DEF Authenticated, Staged, Admitted, auth, Checks, ErrorChains, Early, Faultless
<1>6. Exchanged' /\ LoggedExactly' /\ WholeAnswerOrError'
  BY <1>1, <1>2 DEF Exchanged, LoggedExactly, WholeAnswerOrError
<1>7. Edited'
  <2>1. executedProxy' => EditedBy(route.pre)
    <3>1. CASE executedProxy
      BY <3>1 DEF Edited
    <3>2. CASE HooksOver("pre")
      <4>1. stage = "pre" /\ hook > route.pre
        BY <3>2 DEF HooksOver, Hooks
      <4>2. hook \in 1..(route.pre + 1) /\ route.pre \in Nat /\ EditedBy(hook - 1)
        BY <1>1, <4>1, RouteFacts DEF Edited
      <4>3. hook - 1 = route.pre
        BY <4>1, <4>2
      <4>. QED
        BY <4>2, <4>3
    <3>. QED
      BY <3>1, <3>2
  <2>. QED
    BY <1>2, <2>1 DEF Edited, EditedBy, hooks, Checks, ErrorChains, Early
<1>8. HooksFollowOutcome'
  <2>1. Places(ErrorChains) = {} /\ Places({"post"}) = {}
    BY <1>1 DEF HooksFollowOutcome
  <2>. QED
    BY <1>1, <1>2, <2>1 DEF HooksFollowOutcome, Codes
<1>. QED
  BY <1>3, <1>5, <1>6, <1>7, <1>8

LEMMA ErrorIInv ==
    ASSUME IInv,
           \/ KeyRefused \/ KeyLookupFails \/ JwtRefused \/ KeySetThrows
           \/ Refuse \/ ForwardThrows \/ UpstreamFails
    PROVE  IInv'
<1>0. executedProxy' \in BOOLEAN /\ (executedProxy => executedProxy')
  <2>1. CASE executedProxy' = executedProxy
    BY <2>1, Zenon DEF IInv, TypeOK
  <2>2. CASE ForwardThrows
    BY <2>2 DEF ForwardThrows
  <2>. QED
    BY <2>1, <2>2 DEF KeyRefused, KeyLookupFails, JwtRefused, KeySetThrows, CheckFails,
                      Refuse, UpstreamFails, outside
<1>1. ASSUME KeyRefused \/ KeyLookupFails \/ JwtRefused \/ KeySetThrows
      PROVE  IInv'
  <2>1. CASE KeyRefused
    BY <2>1, <1>0, RaiseIInv DEF KeyRefused, CheckFails, ErrorChains, Checks, outside
  <2>2. CASE KeyLookupFails
    BY <2>2, <1>0, RaiseIInv DEF KeyLookupFails, CheckFails, ErrorChains, Checks, outside
  <2>3. CASE JwtRefused
    BY <2>3, <1>0, RaiseIInv DEF JwtRefused, CheckFails, ErrorChains, Checks, outside
  <2>4. CASE KeySetThrows
    BY <2>4, <1>0, RaiseIInv DEF KeySetThrows, CheckFails, ErrorChains, Checks, outside
  <2>. QED
    BY <1>1, <2>1, <2>2, <2>3, <2>4
<1>2. CASE Refuse
  BY <1>2, <1>0, RaiseIInv DEF Refuse, ErrorChains, outside
<1>3. CASE ForwardThrows
  BY <1>3, <1>0, RaiseIInv DEF ForwardThrows, ErrorChains, outside
<1>4. CASE UpstreamFails
  BY <1>4, <1>0, RaiseIInv DEF UpstreamFails, ErrorChains
<1>. QED
  BY <1>1, <1>2, <1>3, <1>4
-----------------------------------------------------------------------------
(* An edit made keeps the order of those that matter: it is the edit of    *)
(* the latest hook, or of one that was given up.                           *)
LEMMA EditPlaced ==
    ASSUME edits \in Seq(Nat), NEW n \in Nat, EditedBy(n),
           NEW h \in 1..(n + 1), h \notin Range(edits),
           edits' = Append(edits, h),
           failed \subseteq failed', h \in failed' \/ h = n + 1
    PROVE  /\ edits' \in Seq(Nat)
           /\ IsInjective(edits)'
           /\ Range(edits)' = Range(edits) \union {h}
           /\ (\A i, j \in DOMAIN edits :
                   i < j /\ {edits[i], edits[j]} \intersect failed = {}
                       => edits[i] < edits[j])'
<1>1. /\ edits' \in Seq(Nat)
      /\ Len(edits) \in Nat
      /\ DOMAIN edits = 1..Len(edits)
      /\ DOMAIN edits' = 1..(Len(edits) + 1)
      /\ \A i \in 1..Len(edits) : edits'[i] = edits[i]
      /\ edits'[Len(edits) + 1] = h
  <2>1. h \in Nat
    OBVIOUS
  <2>2. edits' \in Seq(Nat) /\ Len(edits') = Len(edits) + 1
    BY <2>1, AppendProperties
  <2>. QED
    BY <2>1, <2>2, AppendProperties, LenProperties
<1>2. \A i \in DOMAIN edits : edits[i] \in 1..n /\ edits[i] # h
  BY DEF EditedBy, Range
<1>3. IsInjective(edits)'
  BY <1>1, <1>2 DEF EditedBy, IsInjective
<1>4. Range(edits)' = Range(edits) \union {h}
  BY <1>1 DEF Range
<1>5. ASSUME NEW i \in DOMAIN edits', NEW j \in DOMAIN edits', i < j,
             {edits'[i], edits'[j]} \intersect failed' = {}
      PROVE  edits'[i] < edits'[j]
  <2>1. i \in 1..Len(edits) /\ edits'[i] = edits[i] /\ edits[i] \in 1..n
    BY <1>1, <1>2, <1>5
  <2>2. CASE j = Len(edits) + 1
    BY <1>1, <1>5, <2>1, <2>2
  <2>3. CASE j \in 1..Len(edits)
    BY <1>1, <1>5, <2>1, <2>3 DEF EditedBy
  <2>. QED
    BY <1>1, <2>2, <2>3
<1>. QED
  BY <1>1, <1>3, <1>4, <1>5

(* When a hook is over its edit is in place, or it has failed.             *)
LEMMA HookIInv ==
    ASSUME IInv, HookEnds \/ HookFails \/ HookTimesOut
    PROVE  IInv'
<1>. USE DEF IInv
<1>1. /\ stage \in Chains /\ hook <= Hooks /\ hook' = hook + 1
      /\ UNCHANGED <<credentials, stage, route, auth, charged, chains, error,
                     executedProxy, outside>>
  BY DEF HookEnds, HookFails, HookTimesOut, NextHook
<1>2. /\ edits' \in Seq(Nat) /\ failed' \subseteq Nat /\ late' \subseteq Nat
      /\ Edited'
  <2>1. CASE stage # "pre"
    <3>1. UNCHANGED hooks
      BY <2>1 DEF HookEnds, HookFails, HookTimesOut, hooks
    <3>. QED
      BY <1>1, <2>1, <3>1 DEF TypeOK, Edited, EditedBy, hooks
  <2>2. CASE stage = "pre"
    <3>1. /\ hook \in 1..(route.pre + 1) /\ route.pre \in Nat /\ EditedBy(hook - 1)
          /\ hook <= route.pre
          /\ ~executedProxy
      BY <1>1, <2>2, RouteFacts DEF Edited, Staged, Authenticated, Admitted, Hooks
    <3>2. /\ edits \in Seq(Nat) /\ failed \subseteq Nat /\ late \subseteq Nat
          /\ hook \in Nat \ {0} /\ hook - 1 \in Nat
          /\ hook \notin Range(edits) /\ hook \notin failed
      BY <3>1 DEF TypeOK, EditedBy
    <3>3. PICK n \in Nat : n = hook - 1
      BY <3>2
    <3>4. /\ EditedBy(n) /\ hook = n + 1 /\ hook' = n + 2
          /\ n + 1 \in 1..(n + 1) /\ n + 1 \notin Range(edits) /\ n + 1 \notin failed
          /\ n + 1 <= route.pre
      BY <1>1, <3>1, <3>2, <3>3
    <3>5. CASE /\ edits' = Append(edits, hook) /\ late' = late
               /\ failed' \in {failed, failed \union {hook}}
      <4>1. /\ failed \subseteq failed' /\ edits' = Append(edits, n + 1)
        BY <3>4, <3>5
      <4>2. /\ edits' \in Seq(Nat)
            /\ IsInjective(edits)'
            /\ Range(edits)' = Range(edits) \union {n + 1}
            /\ (\A i, j \in DOMAIN edits :
                    i < j /\ {edits[i], edits[j]} \intersect failed = {}
                        => edits[i] < edits[j])'
        BY <3>2, <3>4, <4>1, EditPlaced
      <4>3. EditedBy(n + 1)'
        <5>1. (IsInjective(edits) /\ failed \subseteq 1..(n + 1) /\ late \subseteq failed)'
          BY <3>4, <3>5, <4>2 DEF EditedBy
        <5>2. (Range(edits) \subseteq 1..(n + 1) \ late)'
          BY <3>4, <3>5, <4>2 DEF EditedBy
        <5>3. (1..(n + 1) \ failed \subseteq Range(edits))'
          BY <3>4, <3>5, <4>2 DEF EditedBy
        <5>. QED
          BY <4>2, <5>1, <5>2, <5>3 DEF EditedBy
      <4>4. hook' - 1 = n + 1 /\ hook' \in 1..(route'.pre + 1)
        BY <1>1, <3>1, <3>4
      <4>5. EditedBy(hook - 1)'
        BY <4>3, <4>4 DEF EditedBy
      <4>6. Edited'
        BY <1>1, <2>2, <3>1, <4>4, <4>5 DEF Edited, Checks, Early
      <4>. QED
        BY <3>2, <3>5, <4>2, <4>6
    <3>6. CASE /\ edits' = edits /\ failed' = failed \union {hook}
               /\ late' \in {late, late \union {hook}}
      <4>1. EditedBy(n + 1)'
        BY <3>2, <3>4, <3>6 DEF EditedBy
      <4>. QED
        BY <1>1, <2>2, <3>1, <3>2, <3>4, <3>6, <4>1 DEF Edited, EditedBy, Checks, Early
    <3>. QED
      BY <2>2, <3>5, <3>6 DEF HookEnds, HookFails, HookTimesOut
  <2>. QED
    BY <2>1, <2>2
<1>3. TypeOK'
  BY <1>1, <1>2 DEF TypeOK, auth, outside
<1>4. Authenticated' /\ Staged' /\ Exchanged'
  BY <1>1 DEF Authenticated, Staged, Exchanged, Admitted, auth, outside
<1>5. LoggedExactly' /\ WholeAnswerOrError' /\ HooksFollowOutcome'
  BY <1>1
     DEF LoggedExactly, WholeAnswerOrError, HooksFollowOutcome, Places, auth, outside
<1>. QED
  BY <1>2, <1>3, <1>4, <1>5

(* A late edit is one that was given up.                                   *)
LEMMA LateEditIInv ==
    ASSUME IInv, NEW i \in late, LateEdit(i)
    PROVE  IInv'
<1>. USE DEF IInv
<1>1. /\ stage = "pre"
      /\ late' = late \ {i} /\ edits' = Append(edits, i) /\ failed' = failed
      /\ UNCHANGED <<credentials, stage, route, auth, charged, hook, chains,
                     error, executedProxy, outside>>
  BY DEF LateEdit
<1>2. /\ hook \in 1..(route.pre + 1) /\ route.pre \in Nat /\ EditedBy(hook - 1)
      /\ ~executedProxy
  BY <1>1, RouteFacts DEF Edited, Staged, Authenticated, Admitted
<1>3. PICK n \in Nat : n = hook - 1 /\ EditedBy(n)
  BY <1>2
<1>4. /\ edits \in Seq(Nat) /\ i \in 1..n /\ i \in failed /\ i \notin Range(edits)
      /\ i \in 1..(n + 1) /\ failed \subseteq failed' /\ i \in failed'
  BY <1>1, <1>3 DEF TypeOK, EditedBy
<1>5. /\ edits' \in Seq(Nat)
      /\ IsInjective(edits)'
      /\ Range(edits)' = Range(edits) \union {i}
      /\ (\A k, j \in DOMAIN edits :
              k < j /\ {edits[k], edits[j]} \intersect failed = {}
                  => edits[k] < edits[j])'
  BY <1>1, <1>3, <1>4, EditPlaced
<1>6. EditedBy(n)'
  BY <1>1, <1>3, <1>4, <1>5 DEF EditedBy
<1>7. Edited'
  BY <1>1, <1>2, <1>3, <1>6 DEF Edited, EditedBy, Checks, Early
<1>8. TypeOK'
  BY <1>1, <1>5 DEF TypeOK, auth, outside
<1>9. Authenticated' /\ Staged' /\ Exchanged'
  BY <1>1 DEF Authenticated, Staged, Exchanged, Admitted, auth, outside
<1>10. LoggedExactly' /\ WholeAnswerOrError' /\ HooksFollowOutcome'
  BY <1>1
     DEF LoggedExactly, WholeAnswerOrError, HooksFollowOutcome, Places, auth, outside
<1>. QED
  BY <1>7, <1>8, <1>9, <1>10

(* When all pre hooks are over the edits are complete.                     *)
LEMMA ForwardIInv ==
    ASSUME IInv, Forward
    PROVE  IInv'
<1>. USE DEF IInv
<1>1. /\ stage = "pre" /\ hook > route.pre
      /\ executedProxy' = TRUE /\ stage' = "proxying" /\ upstream' = "working"
      /\ UNCHANGED <<credentials, route, auth, charged, hooks, hook, chains, error,
                     status, response, sent, left, logged>>
  BY DEF Forward, HooksOver, Hooks
<1>2. /\ charged = 1 /\ route # NoRoute /\ error = 0 /\ response # "finished"
      /\ hook \in 1..(route.pre + 1) /\ route.pre \in Nat /\ EditedBy(hook - 1)
  BY <1>1, RouteFacts
     DEF Authenticated, Staged, Exchanged, Edited, Admitted, Faultless
<1>3. hook - 1 = route.pre
  BY <1>1, <1>2
<1>4. TypeOK'
  BY <1>1 DEF TypeOK, auth, hooks
<1>5. Authenticated' /\ Staged'
  BY <1>1, <1>2
     DEF Authenticated, Staged, Admitted, auth, Checks, ErrorChains, Early, Faultless
<1>6. Exchanged' /\ LoggedExactly' /\ WholeAnswerOrError'
  BY <1>1, <1>2 DEF Exchanged, LoggedExactly, WholeAnswerOrError, auth
<1>7. Edited'
  <2>1. EditedBy(route.pre)'
    BY <1>1, <1>2, <1>3 DEF EditedBy, hooks
  <2>. QED
    BY <1>1, <2>1 DEF Edited, Checks, Early
<1>8. HooksFollowOutcome'
  BY <1>1, <1>2 DEF HooksFollowOutcome, Places
<1>. QED
  BY <1>4, <1>5, <1>6, <1>7, <1>8

(* What a step outside the handler leaves as it was.                       *)
LEMMA InsideKept ==
    ASSUME IInv, UNCHANGED <<credentials, inside>>,
           stage' = stage
    PROVE  Authenticated' /\ Staged' /\ Edited'
<1>1. Authenticated' /\ Staged'
  BY DEF IInv, Authenticated, Staged, Admitted, inside, auth
<1>2. Edited'
  BY DEF IInv, Edited, EditedBy, inside, hooks
<1>. QED
  BY <1>1, <1>2

(* The upstream answers, breaks off, or the client's connection ends: the  *)
(* response is not complete before nor after.                              *)
LEMMA ExchangeIInv ==
    ASSUME IInv,
           \/ UpstreamAnswers \/ Relay \/ UpstreamEnds \/ UpstreamBreaksOff
           \/ ClientTimer \/ ClientLeaves
    PROVE  IInv'
<1>. USE DEF IInv
<1>1. UNCHANGED <<credentials, stage, inside, logged>>
  BY DEF UpstreamAnswers, Relay, UpstreamEnds, UpstreamBreaksOff, ClientTimer,
         ClientLeaves
<1>2. /\ response # "finished" /\ response' # "finished"
      /\ response' = "open" => /\ response = "open" /\ sent' = sent
                               /\ upstream' # "ended"
  <2>1. CASE UpstreamAnswers \/ Relay \/ UpstreamEnds \/ ClientTimer \/ ClientLeaves
    BY <2>1 DEF Exchanged, UpstreamAnswers, Relay, UpstreamEnds, ClientTimer, ClientLeaves
  <2>2. CASE UpstreamBreaksOff
    BY <2>2 DEF Exchanged, UpstreamBreaksOff
  <2>. QED
    BY <2>1, <2>2
<1>3. /\ status' \in Codes /\ sent' \in Codes \union {0} /\ left' \in BOOLEAN
      /\ response' \in {"open", "streaming", "finished", "closed"}
      /\ upstream' \in {"idle", "working", "answered", "ended", "broken"}
  <2>1. CASE UpstreamAnswers
    BY <2>1 DEF TypeOK, Codes, UpstreamAnswers
  <2>2. CASE Relay \/ UpstreamEnds \/ UpstreamBreaksOff
    BY <2>2 DEF TypeOK, Relay, UpstreamEnds, UpstreamBreaksOff
  <2>3. CASE ClientTimer \/ ClientLeaves
    BY <2>3 DEF TypeOK, ClientTimer, ClientLeaves
  <2>. QED
    BY <2>1, <2>2, <2>3
<1>4. TypeOK'
  BY <1>1, <1>3 DEF TypeOK, inside, auth, hooks
<1>5. Authenticated' /\ Staged' /\ Edited'
  BY <1>1, InsideKept
<1>6. Exchanged' /\ LoggedExactly' /\ WholeAnswerOrError'
  BY <1>1, <1>2 DEF Exchanged, LoggedExactly, WholeAnswerOrError
<1>7. HooksFollowOutcome'
  BY <1>1, <1>2 DEF HooksFollowOutcome, Places, inside
<1>. QED
  BY <1>4, <1>5, <1>6, <1>7

(* A chain is over, or the exchange is abandoned: nothing but the stage    *)
(* changes, and of a lost exchange the upstream's side.                    *)
LEMMA StageIInv ==
    ASSUME IInv, PostHooksOver \/ ErrorHooksOver \/ Abandon
    PROVE  IInv'
<1>. USE DEF IInv
<1>1. /\ UNCHANGED <<credentials, inside, status, response, sent, left, logged>>
      /\ \/ stage = "post" /\ stage' = "done" /\ upstream' = upstream
         \/ stage \in ErrorChains /\ stage' = "reporting" /\ upstream' = upstream
         \/ /\ stage = "proxying" /\ stage' = "done" /\ upstream' = "broken"
            /\ response # "finished"
  <2>1. CASE PostHooksOver
    BY <2>1 DEF PostHooksOver, HooksOver, outside
  <2>2. CASE ErrorHooksOver
    BY <2>2 DEF ErrorHooksOver, HooksOver, outside
  <2>3. CASE Abandon
    BY <2>3 DEF Abandon
  <2>. QED
    BY <2>1, <2>2, <2>3
<1>2. TypeOK'
  BY <1>1 DEF TypeOK, inside, auth, hooks
<1>3. Authenticated'
  BY <1>1 DEF Authenticated, Admitted, inside, auth
<1>4. Staged'
  BY <1>1 DEF Staged, inside, auth, Admitted, Checks, ErrorChains, Early, Faultless
<1>5. Exchanged' /\ LoggedExactly' /\ WholeAnswerOrError'
  BY <1>1
     DEF Exchanged, LoggedExactly, WholeAnswerOrError, inside, auth, ErrorChains
<1>6. Edited'
  BY <1>1 DEF Edited, EditedBy, inside, hooks, Checks, Early
<1>7. HooksFollowOutcome'
  BY <1>1 DEF HooksFollowOutcome, Places, inside
<1>. QED
  BY <1>2, <1>3, <1>4, <1>5, <1>6, <1>7

(* The one step that completes a response logs it.                         *)
LEMMA FinishIInv ==
    ASSUME IInv, NEW code \in Codes, Finish(code),
           stage \in {"proxying", "reporting"}, response # "finished",
           \/ upstream = "ended" /\ error = 0
           \/ upstream # "ended" /\ code = error,
           UNCHANGED <<credentials, route, auth, charged, hooks, error,
                       executedProxy, upstream, left>>
    PROVE  IInv'
<1>. USE DEF IInv
<1>1. /\ response' = "finished" /\ status' = code /\ sent' = code
      /\ logged' = IF route = NoRoute THEN logged ELSE Append(logged, Entry(code))
      /\ IF executedProxy
         THEN Run("post")
         ELSE stage' = "done" /\ UNCHANGED <<hook, chains>>
  BY DEF Finish
<1>2. /\ chains' \in Seq(Chains) /\ hook' \in Nat
      /\ stage' = IF executedProxy THEN "post" ELSE "done"
      /\ Places(ErrorChains)' = Places(ErrorChains)
      /\ Places({"post"})' = IF executedProxy THEN Places({"post"}) \union {Len(chains')}
                              ELSE Places({"post"})
  <2>1. CASE executedProxy
    BY <1>1, <2>1, RunPlaces DEF Chains, ErrorChains
  <2>2. CASE ~executedProxy
    BY <1>1, <2>2 DEF TypeOK, Places
  <2>. QED
    BY <2>1, <2>2
<1>3. /\ logged = <<>>
      /\ logged' = IF route = NoRoute THEN <<>> ELSE <<Entry(code)>>
      /\ logged' \in Seq([status : Codes, principal : SUBSET Checks])
  <2>1. logged = <<>>
    BY DEF LoggedExactly
  <2>2. Entry(code) \in [status : Codes, principal : SUBSET Checks]
    BY DEF TypeOK, Entry
  <2>3. logged' = IF route = NoRoute THEN <<>> ELSE <<Entry(code)>>
    BY <1>1, <2>1
  <2>4. logged' \in Seq([status : Codes, principal : SUBSET Checks])
    <3>1. CASE route = NoRoute
      BY <2>3, <3>1, EmptySeq
    <3>2. CASE route # NoRoute
      BY <2>2, <2>3, <3>2
    <3>. QED
      BY <3>1, <3>2
  <2>. QED
    BY <2>1, <2>3, <2>4
<1>4. TypeOK'
  BY <1>1, <1>2, <1>3 DEF TypeOK, Chains, auth, hooks
<1>5. Authenticated'
  BY DEF Authenticated, Admitted, auth
<1>6. Staged'
  <2>1. executedProxy => route # NoRoute
    BY DEF Authenticated, Admitted
  <2>2. stage' \in {"post", "done"} /\ (stage' = "post" => executedProxy)
    <3>1. CASE executedProxy
      BY <1>2, <3>1
    <3>2. CASE ~executedProxy
      BY <1>2, <3>2
    <3>. QED
      BY <3>1, <3>2
  <2>3. /\ executedProxy' => route' # NoRoute
        /\ stage' = "post" => executedProxy'
    BY <2>1, <2>2, Zenon
  <2>. QED
    BY <2>2, <2>3 DEF Staged, Checks, ErrorChains, Early, Faultless
<1>7. Exchanged' /\ WholeAnswerOrError'
  BY <1>1, <1>2 DEF Exchanged, WholeAnswerOrError
<1>8. LoggedExactly'
  BY <1>1, <1>3 DEF LoggedExactly, Entry, Authenticated, Admitted, auth
<1>9. Edited'
  BY <1>2 DEF Edited, EditedBy, hooks, Checks, Early
<1>10. HooksFollowOutcome'
  BY <1>1, <1>2 DEF HooksFollowOutcome, Places
<1>. QED
  BY <1>4, <1>5, <1>6, <1>7, <1>8, <1>9, <1>10

LEMMA DrainIInv ==
    ASSUME IInv, Drain
    PROVE  IInv'
<1>1. status \in Codes /\ error = 0 /\ stage = "proxying" /\ upstream = "ended"
  BY DEF IInv, TypeOK, Staged, Faultless, Drain
<1>. QED
  BY <1>1, FinishIInv DEF Drain

(* The error handler answers, unless headers are sent or nobody is there.  *)
LEMMA ReportIInv ==
    ASSUME IInv, Report
    PROVE  IInv'
<1>. USE DEF IInv
<1>1. stage = "reporting" /\ error # 0 /\ error \in Codes /\ response # "finished"
  BY DEF Report, TypeOK, Staged, Exchanged
<1>2. CASE response = "open" /\ Finish(error)
  BY <1>1, <1>2, FinishIInv DEF Report, Exchanged
<1>3. CASE /\ response # "open"
           /\ stage' = "done" /\ status' = error /\ response' = "closed"
           /\ UNCHANGED <<hook, chains, sent, logged>>
  <2>1. UNCHANGED <<credentials, route, auth, charged, hooks, error,
                    executedProxy, upstream, left>>
    BY DEF Report
  <2>2. TypeOK'
    BY <1>1, <1>3, <2>1 DEF TypeOK, auth, hooks
  <2>3. Authenticated' /\ Staged'
    BY <1>1, <1>3, <2>1
       DEF Authenticated, Staged, Admitted, auth, Checks, ErrorChains, Early, Faultless
  <2>4. Exchanged' /\ LoggedExactly' /\ WholeAnswerOrError'
    BY <1>1, <1>3, <2>1 DEF Exchanged, LoggedExactly, WholeAnswerOrError
  <2>5. Edited'
    BY <1>1, <1>3, <2>1 DEF Edited, EditedBy, hooks, Checks, Early
  <2>6. HooksFollowOutcome'
    BY <1>1, <1>3, <2>1 DEF HooksFollowOutcome, Places
  <2>. QED
    BY <2>2, <2>3, <2>4, <2>5, <2>6
<1>. QED
  BY <1>2, <1>3 DEF Report

LEMMA StutterIInv ==
    ASSUME IInv, UNCHANGED vars
    PROVE  IInv'
<1>1. Authenticated' /\ Staged' /\ Edited'
  BY InsideKept DEF vars
<1>. QED
  BY <1>1
     DEF IInv, TypeOK, Exchanged, LoggedExactly, WholeAnswerOrError,
         HooksFollowOutcome, Places, vars, inside, outside, auth, hooks
-----------------------------------------------------------------------------
(* IInv holds in every reachable state.                                    *)
THEOREM Invariance == Spec => []IInv
<1>1. IInv /\ [Next]_vars => IInv'
  <2>. SUFFICES ASSUME IInv, [Next]_vars PROVE IInv'
    OBVIOUS
  <2>1. CASE Match \/ NoMatch \/ Check \/ Admit
    BY <2>1, MatchIInv, NoMatchIInv, CheckIInv, AdmitIInv
  <2>2. CASE \/ KeyRefused \/ KeyLookupFails \/ JwtRefused \/ KeySetThrows
             \/ Refuse \/ ForwardThrows \/ UpstreamFails
    BY <2>2, ErrorIInv
  <2>3. CASE HookEnds \/ HookFails \/ HookTimesOut
    BY <2>3, HookIInv
  <2>4. ASSUME NEW i \in late, LateEdit(i) PROVE IInv'
    BY <2>4, LateEditIInv
  <2>5. CASE Forward
    BY <2>5, ForwardIInv
  <2>6. CASE \/ UpstreamAnswers \/ Relay \/ UpstreamEnds \/ UpstreamBreaksOff
             \/ ClientTimer \/ ClientLeaves
    BY <2>6, ExchangeIInv
  <2>7. CASE PostHooksOver \/ ErrorHooksOver \/ Abandon
    BY <2>7, StageIInv
  <2>8. CASE Drain \/ Report
    BY <2>8, DrainIInv, ReportIInv
  <2>9. CASE UNCHANGED vars
    BY <2>9, StutterIInv
  <2>. QED
    BY <2>1, <2>2, <2>3, <2>4, <2>5, <2>6, <2>7, <2>8, <2>9
       DEF Next, Handle, ProxyTimer, Over
<1>. QED
  BY <1>1, InitIInv, PTL DEF Spec

(* Type correctness.                                                       *)
THEOREM TypeCorrect == Spec => []TypeOK
<1>1. IInv => TypeOK
  BY DEF IInv
<1>. QED
  BY <1>1, Invariance, PTL

(* Whatever fails or times out on the way, no request reaches an upstream  *)
(* without every credential its route asks for and exactly one token, and  *)
(* no token is taken for a request that is not authenticated.              *)
THEOREM Admission == Spec => []ForwardedOnlyWhenAdmitted
<1>1. IInv => ForwardedOnlyWhenAdmitted
  BY DEF IInv, TypeOK, Authenticated, Admitted, ForwardedOnlyWhenAdmitted
<1>. QED
  BY <1>1, Invariance, PTL

(* A routed request that is answered in full is logged once, and what is   *)
(* logged is what its client was sent.                                     *)
THEOREM HonestLog == Spec => []LoggedAsSent
<1>1. IInv => LoggedAsSent
  <2>. SUFFICES ASSUME IInv PROVE LoggedAsSent
    OBVIOUS
  <2>. DEFINE named == IF \A c \in Needed(route.authMode) : c \in principals
                       THEN Needed(route.authMode) ELSE {}
  <2>1. CASE response = "finished" /\ route # NoRoute
    <3>1. logged = <<[status |-> sent, principal |-> named]>>
      BY <2>1 DEF IInv, LoggedExactly
    <3>2. /\ Len(logged) = 1 /\ DOMAIN logged = {1} /\ logged # <<>>
          /\ logged[1].principal = named /\ logged[1].status = sent
      BY <3>1
    <3>. QED
      BY <3>2 DEF LoggedAsSent
  <2>2. CASE ~(response = "finished" /\ route # NoRoute)
    <3>1. logged = <<>>
      BY <2>2 DEF IInv, LoggedExactly
    <3>2. Len(logged) = 0 /\ DOMAIN logged = {}
      BY <3>1
    <3>. QED
      BY <2>2, <3>2 DEF LoggedAsSent
  <2>. QED
    BY <2>1, <2>2
<1>. QED
  BY <1>1, Invariance, PTL

(* A complete response is a whole answer or a whole error.                 *)
THEOREM WholeResponses == Spec => []WholeAnswerOrError
<1>1. IInv => WholeAnswerOrError
  BY DEF IInv
<1>. QED
  BY <1>1, Invariance, PTL

(* Error and post hooks run when, and only when, they should.              *)
THEOREM HookChains == Spec => []HooksFollowOutcome
<1>1. IInv => HooksFollowOutcome
  BY DEF IInv
<1>. QED
  BY <1>1, Invariance, PTL

(* The edits an upstream is sent are those of the hooks that worked, each  *)
(* once and in order, for chains of any length.                            *)
THEOREM EditOrder == Spec => []EditsInChainOrder
<1>1. IInv => EditsInChainOrder
  BY DEF IInv, Edited, EditedBy, EditsInChainOrder
<1>. QED
  BY <1>1, Invariance, PTL
-----------------------------------------------------------------------------
(* The status of an answer under way is the one on the wire.               *)
OnTheWire == response = "streaming" => sent = status

(* A step that writes the response finds it open, or goes on with an       *)
(* answer that is under way.                                               *)
LEMMA StepAnswersOnce ==
    ASSUME IInv, OnTheWire, [Next]_vars
    PROVE  /\ OnTheWire'
           /\ sent # 0 => sent' = sent
           /\ response \in {"finished", "closed"} => UNCHANGED <<response, logged>>
<1>1. response = "open" => sent = 0
  BY DEF IInv, Exchanged
<1>2. CASE UNCHANGED <<status, response, sent, logged>>
  BY <1>2 DEF OnTheWire
<1>3. CASE UpstreamAnswers
  BY <1>3 DEF UpstreamAnswers, OnTheWire
<1>4. CASE Relay \/ UpstreamEnds
  <2>1. /\ response \in {"open", "streaming"} /\ response' = "streaming"
        /\ sent' = status /\ status' = status
    BY <1>4 DEF Relay, UpstreamEnds
  <2>. QED
    BY <1>1, <2>1 DEF OnTheWire
<1>5. CASE ClientTimer \/ ClientLeaves
  <2>1. response \in {"open", "streaming"} /\ response' = "closed" /\ sent' = sent
    BY <1>5 DEF ClientTimer, ClientLeaves
  <2>. QED
    BY <2>1 DEF OnTheWire
<1>6. CASE Drain
  <2>1. response = "streaming" /\ response' = "finished" /\ sent' = status
    BY <1>6 DEF Drain, Finish
  <2>. QED
    BY <2>1 DEF OnTheWire
<1>7. CASE Report
  <2>1. CASE response = "open" /\ Finish(error)
    BY <1>1, <2>1 DEF Finish, OnTheWire
  <2>2. CASE /\ response # "open" /\ response' = "closed"
             /\ UNCHANGED <<sent, logged>>
    <3>1. response # "finished"
      BY <1>7 DEF IInv, Exchanged, Report
    <3>. QED
      BY <2>2, <3>1 DEF OnTheWire
  <2>. QED
    BY <1>7, <2>1, <2>2 DEF Report
<1>8. CASE \/ Match \/ NoMatch \/ Check \/ Admit \/ Refuse
           \/ KeyRefused \/ KeyLookupFails \/ JwtRefused \/ KeySetThrows
  <2>1. UNCHANGED outside
    BY <1>8 DEF Match, NoMatch, Check, Admit, Refuse, KeyRefused, KeyLookupFails,
                JwtRefused, KeySetThrows, CheckFails
  <2>. QED
    BY <1>2, <2>1 DEF outside
<1>9. CASE HookEnds \/ HookFails \/ HookTimesOut \/ PostHooksOver \/ ErrorHooksOver
  <2>1. UNCHANGED outside
    BY <1>9 DEF HookEnds, HookFails, HookTimesOut, NextHook, PostHooksOver, ErrorHooksOver
  <2>. QED
    BY <1>2, <2>1 DEF outside
<1>10. CASE Forward \/ ForwardThrows \/ UpstreamFails \/ UpstreamBreaksOff \/ Abandon
  <2>1. UNCHANGED <<status, response, sent, logged>>
    BY <1>10 DEF Forward, ForwardThrows, UpstreamFails, UpstreamBreaksOff, Abandon, outside
  <2>. QED
    BY <1>2, <2>1
<1>11. ASSUME NEW i \in late, LateEdit(i)
       PROVE  UNCHANGED <<status, response, sent, logged>>
  BY <1>11 DEF LateEdit, outside
<1>12. CASE UNCHANGED vars
  BY <1>2, <1>12 DEF vars, outside
<1>. QED
  BY <1>2, <1>3, <1>4, <1>5, <1>6, <1>7, <1>8, <1>9, <1>10, <1>11, <1>12
     DEF Next, Handle, ProxyTimer, Over

(* A client is sent one status, and a response that has ended, either way, *)
(* stays as it is, whatever fails later; so does a usage entry once made.  *)
THEOREM OneAnswer == Spec => AnsweredOnce
<1>1. Init => OnTheWire
  BY DEF Init, OnTheWire
<1>2. IInv /\ OnTheWire /\ [Next]_vars => OnTheWire'
  BY StepAnswersOnce
<1>3. IInv /\ OnTheWire /\ [Next]_vars =>
          [/\ sent # 0 => sent' = sent
           /\ response \in {"finished", "closed"} => UNCHANGED response
           /\ logged # <<>> => UNCHANGED logged]_vars
  <2>. SUFFICES ASSUME IInv, OnTheWire, [Next]_vars
                PROVE  /\ sent # 0 => sent' = sent
                       /\ response \in {"finished", "closed"} => UNCHANGED response
                       /\ logged # <<>> => UNCHANGED logged
    OBVIOUS
  <2>1. logged # <<>> => response = "finished"
    BY DEF IInv, LoggedExactly
  <2>. QED
    BY <2>1, StepAnswersOnce
<1>. QED
  BY <1>1, <1>2, <1>3, Invariance, PTL DEF Spec, AnsweredOnce
=============================================================================
