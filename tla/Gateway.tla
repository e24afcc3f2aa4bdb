------------------------------ MODULE Gateway ------------------------------
(***************************************************************************)
(* The life of one proxied request: the handler of src/routes/gateway.ts   *)
(* with the authentication, rate limiting and plugin hooks it awaits, the  *)
(* error handler of src/http/app.ts and, external, what http-proxy and     *)
(* Node's HTTP server do with the exchange they are handed.                *)
(*                                                                         *)
(* The handlers of two requests share no state but the stores and caches   *)
(* modelled elsewhere, so one request is all there is.  Its handler is     *)
(* suspended at an await, its `stage`; meanwhile the client may leave, the *)
(* upstream may answer, fail, break off or say nothing, and either of the  *)
(* two timers http-proxy arms may expire.  A hook that has timed out runs  *)
(* on beside the rest.  Hooks are assumed not to write the response; what  *)
(* a pre hook does to the request is one edit, made once.                  *)
(***************************************************************************)
EXTENDS Integers, Sequences, Functions

CONSTANTS
    Routes,      \* compiled routes: authMode, and how many hooks of each kind
    Statuses,    \* status codes upstreams answer with
    NoRoute      \* no route (yet)

Modes == {"none", "apiKey", "jwt", "both"}
ErrorChains == {"catch", "callback"}
Chains == {"pre", "post"} \union ErrorChains
Checks == {"apiKey", "jwt"}

ASSUME GatewayAssumption ==
    /\ Routes \subseteq [authMode : Modes, pre : Nat, post : Nat, error : Nat]
    /\ Statuses \subseteq Nat \ {0}
    /\ NoRoute \notin Routes

VARIABLES
    credentials,   \* the API key and the bearer token the request carries
    stage,         \* where the handler is suspended
    route,         \* the route it was matched with
    principals,    \* the credentials verified so far
    principal,     \* `req.principal`: those it was merged from
    charged,       \* rate-limit tokens it was admitted with
    hook,          \* the hook that runs, of the chain under way
    chains,        \* history: the chains of hooks started, in order
    edits,         \* history: the pre hooks that have edited the request
    failed,        \* history: the pre hooks reported as failed
    late,          \* those of them that timed out and have yet to edit
    error,         \* the status code of the error to report
    executedProxy, \* `executedProxy`
    upstream,      \* the upstream's side of the exchange
    status,        \* res.statusCode
    response,      \* "open"; "streaming" once headers are sent; "finished"; or
                   \* "closed": the connection ended before the response did
    sent,          \* the status code on the wire, 0 before the headers
    left,          \* the client went away of its own accord
    logged         \* what was handed to enqueueUsageLog: the status code, and
                   \* the credentials of `req.principal`

auth == <<principals, principal>>
hooks == <<edits, failed, late>>
inside == <<route, auth, charged, hook, chains, hooks, error, executedProxy>>
outside == <<upstream, status, response, sent, left, logged>>
vars == <<credentials, stage, inside, outside>>

Init ==
    /\ credentials \in [Checks -> {"none", "bad", "good"}]
    /\ stage = "resolving"
    /\ route = NoRoute
    /\ principals = {}
    /\ principal = {}
    /\ charged = 0
    /\ hook = 0
    /\ chains = <<>>
    /\ edits = <<>>
    /\ failed = {}
    /\ late = {}
    /\ error = 0
    /\ executedProxy = FALSE
    /\ upstream = "idle"
    /\ status = 200
    /\ response = "open"
    /\ sent = 0
    /\ left = FALSE
    /\ logged = <<>>

-----------------------------------------------------------------------------
(* Where the handler goes next.                                            *)

(* The credentials a route asks for.                                       *)
Needed(mode) ==
    {c \in Checks : mode \in {c, "both"}}

(* Mutant: the second of two checks is skipped.                             *)
FirstCheckOnly(mode, done) ==
    IF "apiKey" \in Needed(mode) \ done THEN "apiKey"
    ELSE IF "jwt" \in Needed(mode) /\ done = {} THEN "jwt"
    ELSE "limiting"

(* The check resolvePrincipalForRoute makes next, if any is left.          *)
NextCheck(mode, done) ==
    IF "apiKey" \in Needed(mode) \ done THEN "apiKey"
    ELSE IF "jwt" \in Needed(mode) \ done THEN "jwt"
    ELSE "limiting"

(* A chain of hooks starts.                                                *)
Run(chain) ==
    /\ stage' = chain
    /\ hook' = 1
    /\ chains' = Append(chains, chain)

(* The handler throws, or the callback reports an upstream failure: error  *)
(* hooks run before the error is reported.                                 *)
Raise(chain, code) ==
    /\ Run(chain)
    /\ error' = code

(* The usage entry of a response that ends with this status.               *)
Entry(code) == [status |-> code, principal |-> principal]

(* Mutant: post hooks run whenever a response finishes.                     *)
AlwaysPost(code) ==
    /\ response' = "finished"
    /\ status' = code
    /\ sent' = code
    /\ IF route = NoRoute
       THEN stage' = "done" /\ UNCHANGED <<hook, chains, logged>>
       ELSE Run("post") /\ logged' = Append(logged, Entry(code))

(* The response ends, and with a route matched the `finish` listener runs: *)
(* post hooks if the request was proxied, and the usage entry.             *)
Finish(code) ==
    /\ response' = "finished"
    /\ status' = code
    /\ sent' = code
    /\ logged' = IF route = NoRoute THEN logged ELSE Append(logged, Entry(code))
    /\ IF executedProxy
       THEN Run("post")
       ELSE stage' = "done" /\ UNCHANGED <<hook, chains>>
-----------------------------------------------------------------------------
(* From the request to the upstream.                                       *)

(* resolveRoute finds a route, and the finish listener is installed ...    *)
Match ==
    /\ stage = "resolving"
    /\ route' \in Routes
    /\ stage' = NextCheck(route'.authMode, {})
    /\ UNCHANGED <<credentials, auth, charged, hooks, hook, chains, error,
                   executedProxy, outside>>

(* ... or finds none, or fails: the error goes straight to the error       *)
(* handler.                                                                *)
NoMatch ==
    /\ stage = "resolving"
    /\ error' \in {404, 500}
    /\ stage' = "reporting"
    /\ UNCHANGED <<credentials, route, auth, charged, hooks, hook, chains,
                   executedProxy, outside>>

(* A credential is verified.  With the last of them the principals are     *)
(* merged into req.principal.                                              *)
Check ==
    /\ stage \in Checks
    /\ credentials[stage] = "good"
    /\ principals' = principals \union {stage}
    /\ stage' = NextCheck(route.authMode, principals')
    /\ principal' = IF stage' = "limiting" THEN principals' ELSE principal
    /\ UNCHANGED <<credentials, route, charged, hook, chains, hooks, error,
                   executedProxy, outside>>

CheckFails(code) ==
    /\ Raise("catch", code)
    /\ UNCHANGED <<credentials, route, auth, charged, hooks, executedProxy, outside>>

(* There is no API key, or verifyApiKeyToken refuses it ...                *)
KeyRefused == stage = "apiKey" /\ credentials.apiKey # "good" /\ CheckFails(401)

(* ... or it cannot look the key up.                                       *)
KeyLookupFails == stage = "apiKey" /\ credentials.apiKey # "none" /\ CheckFails(500)

(* There is no bearer token, or jwtVerify refuses it, or there is nothing  *)
(* to verify it with: no secret, no JWKS, or a JWKS that does not answer.  *)
JwtRefused == stage = "jwt" /\ CheckFails(401)

(* ... and the URL of a JWKS that is no URL throws an error of its own.     *)
KeySetThrows == stage = "jwt" /\ credentials.jwt # "none" /\ CheckFails(500)

(* Mutant: a token is taken before and one after the request is admitted.   *)
AdmitTwice ==
    /\ stage = "limiting"
    /\ charged' = charged + 2
    /\ Run("pre")
    /\ UNCHANGED <<credentials, route, auth, hooks, error, executedProxy, outside>>

(* consumeRateLimit admits the request ...                                 *)
Admit ==
    /\ stage = "limiting"
    /\ charged' = charged + 1
    /\ Run("pre")
    /\ UNCHANGED <<credentials, route, auth, hooks, error, executedProxy, outside>>

(* ... or refuses it, or Redis answers with an error.                      *)
Refuse ==
    /\ stage = "limiting"
    /\ \E code \in {429, 500} : Raise("catch", code)
    /\ UNCHANGED <<credentials, route, auth, charged, hooks, executedProxy, outside>>

(* How many hooks the chain under way has.                                 *)
Hooks ==
    CASE stage = "pre" -> route.pre
      [] stage = "post" -> route.post
      [] OTHER -> route.error

(* The hook that runs is over, and the next one starts.                    *)
NextHook ==
    /\ stage \in Chains /\ hook <= Hooks
    /\ hook' = hook + 1
    /\ UNCHANGED <<credentials, stage, route, auth, charged, chains, error,
                   executedProxy, outside>>

(* Mutant: a hook is not awaited.                                           *)
HookStarted ==
    /\ NextHook
    /\ late' = IF stage = "pre" THEN late \union {hook} ELSE late
    /\ UNCHANGED <<edits, failed>>

(* It has settled.                                                         *)
HookEnds ==
    /\ NextHook
    /\ edits' = IF stage = "pre" THEN Append(edits, hook) ELSE edits
    /\ UNCHANGED <<failed, late>>

(* It throws or rejects, with or without its edit, which is logged.        *)
HookFails ==
    /\ NextHook
    /\ IF stage = "pre"
       THEN failed' = failed \union {hook} /\ edits' \in {edits, Append(edits, hook)}
       ELSE UNCHANGED <<failed, edits>>
    /\ UNCHANGED late

(* runWithTimeout gives it up, which is logged as a failure.  It runs on.  *)
HookTimesOut ==
    /\ NextHook
    /\ IF stage = "pre"
       THEN failed' = failed \union {hook} /\ late' = late \union {hook}
       ELSE UNCHANGED <<failed, late>>
    /\ UNCHANGED edits

(* A pre hook given up edits the request after all.  Once the request is   *)
(* on its way, or reported, nothing reads it any more.                     *)
LateEdit(i) ==
    /\ i \in late /\ stage = "pre"
    /\ late' = late \ {i}
    /\ edits' = Append(edits, i)
    /\ UNCHANGED <<credentials, stage, route, auth, charged, hook, chains, failed,
                   error, executedProxy, outside>>

HooksOver(chain) == stage = chain /\ hook > Hooks

(* proxyServer.web sends the request on ...                                *)
Forward ==
    /\ HooksOver("pre")
    /\ executedProxy' = TRUE
    /\ stage' = "proxying"
    /\ upstream' = "working"
    /\ UNCHANGED <<credentials, route, auth, charged, hooks, hook, chains, error,
                   status, response, sent, left, logged>>

(* ... or throws, when Node refuses a header value (a JWT's subject is     *)
(* sent as it is).                                                         *)
ForwardThrows ==
    /\ HooksOver("pre")
    /\ executedProxy' = TRUE
    /\ Raise("catch", 500)
    /\ UNCHANGED <<credentials, route, auth, charged, hooks, outside>>
-----------------------------------------------------------------------------
(* External: http-proxy, the upstream and the client.                      *)

(* The upstream's status line and headers are copied to the response.      *)
UpstreamAnswers ==
    /\ stage = "proxying" /\ upstream = "working" /\ response = "open"
    /\ upstream' = "answered"
    /\ status' \in Statuses
    /\ UNCHANGED <<credentials, stage, inside, response, sent, left, logged>>

(* The first of its body is piped, and takes the headers along.            *)
Relay ==
    /\ stage = "proxying" /\ upstream = "answered" /\ response = "open"
    /\ response' = "streaming"
    /\ sent' = status
    /\ UNCHANGED <<credentials, stage, inside, upstream, status, left, logged>>

(* The whole answer has come in: the pipe ends the response.               *)
UpstreamEnds ==
    /\ stage = "proxying" /\ upstream = "answered"
    /\ response \in {"open", "streaming"}
    /\ upstream' = "ended"
    /\ response' = "streaming"
    /\ sent' = status
    /\ UNCHANGED <<credentials, stage, inside, status, left, logged>>

(* The client's connection has taken all of it: `finish`.                  *)
Drain ==
    /\ stage = "proxying" /\ upstream = "ended" /\ response = "streaming"
    /\ Finish(status)
    /\ UNCHANGED <<credentials, route, auth, charged, hooks, error,
                   executedProxy, upstream, left>>

(* The upstream cannot be reached or resets the connection: the callback.  *)
UpstreamFails ==
    /\ stage = "proxying" /\ upstream \in {"working", "answered"}
    /\ upstream' = "broken"
    /\ Raise("callback", 502)
    /\ UNCHANGED <<credentials, route, auth, charged, hooks, executedProxy,
                   status, response, sent, left, logged>>

(* Its connection ends in the middle of the answer, which http-proxy does  *)
(* not report: the response is left as it is.                              *)
UpstreamBreaksOff ==
    /\ stage = "proxying" /\ upstream = "answered"
    /\ upstream' = "broken"
    /\ UNCHANGED <<credentials, stage, inside, status, response, sent, left, logged>>

(* `proxyTimeout`: the upstream has been silent, its request is aborted.   *)
ProxyTimer ==
    \/ upstream = "working" /\ response = "open" /\ UpstreamFails
    \/ UpstreamBreaksOff

(* Mutant: `timeout` only until the headers are sent.                       *)
HeadersTimer ==
    /\ executedProxy /\ response = "open"
    /\ response' = "closed"
    /\ UNCHANGED <<credentials, stage, inside, upstream, status, sent, left, logged>>

(* `timeout`: the client's connection has been silent, it is destroyed.    *)
ClientTimer ==
    /\ executedProxy /\ response \in {"open", "streaming"}
    /\ response' = "closed"
    /\ UNCHANGED <<credentials, stage, inside, upstream, status, sent, left, logged>>

ClientLeaves ==
    /\ response \in {"open", "streaming"}
    /\ response' = "closed"
    /\ left' = TRUE
    /\ UNCHANGED <<credentials, stage, inside, upstream, status, sent, logged>>

(* http-proxy aborts a request whose client is gone, and reports nothing.  *)
Abandon ==
    /\ stage = "proxying" /\ response = "closed"
    /\ stage' = "done"
    /\ upstream' = "broken"
    /\ UNCHANGED <<credentials, inside, status, response, sent, left, logged>>
-----------------------------------------------------------------------------
(* Back to the client.                                                     *)

PostHooksOver ==
    /\ HooksOver("post")
    /\ stage' = "done"
    /\ UNCHANGED <<credentials, inside, outside>>

(* The error hooks are over: the error is thrown on, or passed to next.    *)
ErrorHooksOver ==
    /\ \E chain \in ErrorChains : HooksOver(chain)
    /\ stage' = "reporting"
    /\ UNCHANGED <<credentials, inside, outside>>

(* Mutant: an answer under way is completed when an error comes up.         *)
ReportTruncated ==
    /\ stage = "reporting"
    /\ \/ response = "open" /\ Finish(error)
       \/ response = "streaming" /\ Finish(sent)
       \/ /\ response = "closed"
          /\ stage' = "done" /\ status' = error
          /\ UNCHANGED <<hook, chains, response, sent, logged>>
    /\ UNCHANGED <<credentials, route, auth, charged, hooks, error,
                   executedProxy, upstream, left>>

(* Mutant: usage is logged when a response closes, too.                     *)
ReportClosed ==
    /\ stage = "reporting"
    /\ \/ response = "open" /\ Finish(error)
       \/ /\ response # "open"
          /\ stage' = "done" /\ status' = error
          /\ response' = "closed" /\ logged' = Append(logged, Entry(error))
          /\ UNCHANGED <<hook, chains, sent>>
    /\ UNCHANGED <<credentials, route, auth, charged, hooks, error,
                   executedProxy, upstream, left>>

(* Mutant: an error that comes up during an answer is appended to it.       *)
ReportAppended ==
    /\ stage = "reporting"
    /\ \/ response \in {"open", "streaming"} /\ Finish(error)
       \/ /\ response \in {"finished", "closed"}
          /\ stage' = "done" /\ status' = error
          /\ response' = "closed"
          /\ UNCHANGED <<hook, chains, sent, logged>>
    /\ UNCHANGED <<credentials, route, auth, charged, hooks, error,
                   executedProxy, upstream, left>>

(* errorHandler: res.status(...).json(...).  Once headers are sent json    *)
(* throws and Express destroys the connection; once it is closed nothing   *)
(* is sent.                                                                *)
Report ==
    /\ stage = "reporting"
    /\ \/ response = "open" /\ Finish(error)
       \/ /\ response # "open"
          /\ stage' = "done" /\ status' = error
          /\ response' = "closed"
          /\ UNCHANGED <<hook, chains, sent, logged>>
    /\ UNCHANGED <<credentials, route, auth, charged, hooks, error,
                   executedProxy, upstream, left>>

(* The request is over.                                                    *)
Over ==
    /\ stage = "done"
    /\ UNCHANGED vars

(* The steps of the gateway's own code.                                    *)
Handle ==
    \/ Match \/ NoMatch
    \/ Check \/ KeyRefused \/ KeyLookupFails \/ JwtRefused \/ KeySetThrows
    \/ Admit \/ Refuse
    \/ HookEnds \/ HookFails \/ HookTimesOut \/ Forward \/ ForwardThrows
    \/ PostHooksOver \/ ErrorHooksOver \/ Report

Next ==
    \/ Handle
    \/ \E i \in late : LateEdit(i)
    \/ UpstreamAnswers \/ Relay \/ UpstreamEnds \/ Drain
    \/ UpstreamFails \/ UpstreamBreaksOff
    \/ ProxyTimer \/ ClientTimer \/ ClientLeaves \/ Abandon
    \/ Over

Spec == Init /\ [][Next]_vars

(* The gateway's code is run by Node's event loop, the hooks it awaits are *)
(* bounded by PLUGIN_TIMEOUT_MS, MongoDB and Redis are assumed to answer,  *)
(* and http-proxy's timer on a silent client connection expires (an answer *)
(* that trickles for ever, and so never is silent, is left out).  Nothing  *)
(* else is assumed of the upstream or of the client.                       *)
FairSpec ==
    /\ Spec
    /\ WF_vars(Handle)
    /\ WF_vars(ClientTimer)
    /\ WF_vars(Abandon)
-----------------------------------------------------------------------------
(* Properties.                                                             *)

Codes == Statuses \union {200, 401, 404, 429, 500, 502}

TypeOK ==
    /\ credentials \in [Checks -> {"none", "bad", "good"}]
    /\ stage \in Checks \union Chains
                   \union {"resolving", "limiting", "proxying", "reporting", "done"}
    /\ route \in Routes \union {NoRoute}
    /\ principals \subseteq Checks
    /\ principal \subseteq Checks
    /\ charged \in 0..1
    /\ hook \in Nat
    /\ chains \in Seq(Chains)
    /\ edits \in Seq(Nat)
    /\ failed \subseteq Nat
    /\ late \subseteq Nat
    /\ error \in Codes \union {0}
    /\ executedProxy \in BOOLEAN
    /\ upstream \in {"idle", "working", "answered", "ended", "broken"}
    /\ status \in Codes
    /\ response \in {"open", "streaming", "finished", "closed"}
    /\ sent \in Codes \union {0}
    /\ left \in BOOLEAN
    /\ logged \in Seq([status : Codes, principal : SUBSET Checks])

(* A request reaches its upstream only with every credential its route     *)
(* asks for verified and one token taken from its bucket, and no token is  *)
(* taken from a bucket by a request that is not authenticated.             *)
ForwardedOnlyWhenAdmitted ==
    /\ charged > 0 => \A c \in Needed(route.authMode) : credentials[c] = "good"
    /\ executedProxy => charged = 1

(* A routed request whose response is complete has been logged, once, and  *)
(* whatever is logged has the status the client was sent, not one the      *)
(* error handler set afterwards, and names the credentials of a request    *)
(* that passed every check, and none of one that failed, not even a key    *)
(* that had been verified.  Whether a request whose connection is lost is  *)
(* logged is left open: the code, which listens to `finish` alone, never   *)
(* does, and README.md:96 has requests logged without exception.           *)
LoggedAsSent ==
    LET admitted == \A c \in Needed(route.authMode) : c \in principals
        named == IF admitted THEN Needed(route.authMode) ELSE {} IN
    /\ Len(logged) <= 1
    /\ response = "finished" /\ route # NoRoute => logged # <<>>
    /\ \A k \in DOMAIN logged :
          /\ route # NoRoute => logged[k].principal = named
          /\ sent # 0 => logged[k].status = sent

(* The upstream is sent the request with the edits of the route's pre      *)
(* hooks, each once: those that were not reported as failed are all in     *)
(* place and in the chain's order, whichever hooks failed or timed out     *)
(* before, and only the edits of these may be missing or late.             *)
EditsInChainOrder ==
    executedProxy =>
        /\ IsInjective(edits)
        /\ (1..route.pre) \ failed \subseteq Range(edits)
        /\ Range(edits) \subseteq 1..route.pre
        /\ \A i, j \in DOMAIN edits :
              i < j /\ {edits[i], edits[j]} \intersect failed = {} => edits[i] < edits[j]

(* What a client receives as a complete response is either the whole of    *)
(* the upstream's answer, or an error of the gateway's own: an answer that *)
(* broke off is never completed, nor is an error appended to it.           *)
WholeAnswerOrError ==
    response = "finished" =>
        \/ upstream = "ended" /\ error = 0
        \/ upstream # "ended" /\ sent = error

(* A client is answered once: the status it was sent stays what it is,     *)
(* whatever fails afterwards, a response that is complete, or whose        *)
(* connection is gone, is not taken up again, and what is logged of it is  *)
(* neither changed nor added to.                                           *)
AnsweredOnce ==
    [][/\ sent # 0 => sent' = sent
       /\ response \in {"finished", "closed"} => UNCHANGED response
       /\ logged # <<>> => UNCHANGED logged]_vars

(* Where chains of some kinds stand among those started.                   *)
Places(kinds) == {k \in DOMAIN chains : chains[k] \in kinds}

(* Error hooks run at most once, before a routed request's error is        *)
(* reported and never for an answer that was delivered; post hooks run     *)
(* once the response to a request that was forwarded is complete, after    *)
(* error hooks if it failed, and for no other.                             *)
HooksFollowOutcome ==
    /\ IF route # NoRoute /\ error # 0
       THEN \E k \in DOMAIN chains : Places(ErrorChains) = {k}
       ELSE Places(ErrorChains) = {}
    /\ Places({"post"}) =
          IF response = "finished" /\ executedProxy THEN {Len(chains)} ELSE {}

(* Every request ends: its handler is done and its connection complete or  *)
(* closed, however the upstream, the hooks and the client behave.          *)
EveryRequestEnds ==
    <>(stage = "done" /\ response \in {"finished", "closed"})

(* "errors produce `502` with a JSON body" (README.md:148): a request that *)
(* was forwarded, and whose client waits, gets the upstream's answer or a  *)
(* status of the gateway's.  The code arms the client's timer and the      *)
(* upstream's with the same timeout.                                       *)
ErrorsAre502 ==
    executedProxy /\ stage = "done" /\ ~left => sent # 0
=============================================================================
