----------------------------- MODULE HemSession -----------------------------
(***************************************************************************)
(* The session engine of one context: a public call, the shared request    *)
(* path under it (proto_common.c), the token acquisition the path asks for *)
(* (proto_auth.c) and the three-leg check-in either of them may run as a   *)
(* recovery (proto_system.c), against a device with a certificate, a       *)
(* real-time clock and its own view of which bearers are good.             *)
(*                                                                         *)
(* The calls nest at most three deep, so each activation of                *)
(* ehem_proto_request_raw has a frame of its own:                          *)
(*    "op"    the binding's request, the only one that carries a bearer    *)
(*    "auth"  the challenge GET or token POST of acquire_token             *)
(*    "leg"   a leg of a check-in                                          *)
(* rpc[f] is where the activation f is; apc and cpc are the same for       *)
(* ensure_token and checkin_run; rc is the code the last activation to end *)
(* returned.  One thread uses a context, so the client is sequential: what *)
(* interleaves with it is the device, the network and time.                *)
(***************************************************************************)
EXTENDS HemTypes

CONSTANTS
  Scopes,     \* scope strings a binding may declare
  Lifetime,   \* AUTH_TOKEN_LIFETIME: the lifetime a token is asked for
  Lives,      \* lifetimes the device may grant instead
  Skew,       \* AUTH_TOKEN_SKEW: how early a token counts as expired
  Offsets,    \* how far the device clock may be off the local one
  CallKinds,  \* the kinds of call the application makes
  MaxNow      \* bound: the local clock stops here

ASSUME SessionAssumption ==
  /\ Skew \in Nat
  /\ Lifetime \in Nat
  /\ Lifetime > Skew
  /\ Lives \subseteq Nat \ {0}
  /\ Offsets \subseteq Int
  /\ 0 \in Offsets
  /\ MaxNow \in Nat

CONSTANT NoScope
ASSUME NoScopeAssumption == NoScope \notin Scopes

-----------------------------------------------------------------------------
Frames == {"op", "auth", "leg"}

\* What the public bindings make of the shared path's answer tells them apart:
\*   json     a JSON answer with required fields (most bindings)
\*   delete   an empty 200 is success, a 406 is NOT_FOUND (delete, update)
\*   reboot   an empty 200 is success, every token is dropped
\*   wipeout  an empty 200 is success, the session is ended
\*   search   a 404 is an empty success
\*   open     no scope: status, version
\*   checkin  ehem_system_checkin
Kinds == {"json", "delete", "reboot", "wipeout", "search", "open", "checkin"}
ScopedKinds == Kinds \ {"open", "checkin"}
Empty200Kinds == {"delete", "reboot", "wipeout"}
ASSUME CallKindsAssumption == CallKinds \subseteq Kinds

NoCall == [kind |-> "none", scope |-> NoScope]

VARIABLES
  \* struct ehem_ctx
  opts,           \* no_auto_checkin, checkin_on_login, no_credential_retention
  inCheckin, certRefreshed, loginDone, err,
  \* struct ehem_auth ("out": ctx->auth is NULL)
  mode, pass, retain, cache,
  \* the activations under way
  call, rpc, apc, cpc, rc,
  \* locals: bearer of "op"; now, recovery_spent, drift_evident of ensure_token
  bearer, nowA, spent, drift, granted,
  \* the device and the clock
  now, certExpired, rtcSet, off, live,
  \* history of the call: executions by the device, check-ins, faults met
  applied, checkins, proactives, disturbed,
  kept            \* a check-in of the call left an expired certificate in service

ctxVars == <<opts, inCheckin, certRefreshed, loginDone, err>>
authVars == <<mode, pass, retain, cache>>
frameVars == <<call, rpc, apc, cpc, rc>>
localVars == <<bearer, nowA, spent, drift, granted>>
deviceVars == <<certExpired, rtcSet, off, live>>
historyVars == <<applied, checkins, proactives, disturbed, kept>>
vars == <<ctxVars, authVars, frameVars, localVars, deviceVars, historyVars, now>>

RequestPcs ==
  {"idle", "ensure", "send", "cert", "resend", "ensure2", "send2", "ret"}
AuthPcs ==
  {"idle", "proactive", "confirm", "get", "rtc", "reget", "post", "driftck"}

FlagType ==
  /\ inCheckin \in BOOLEAN /\ certRefreshed \in BOOLEAN /\ loginDone \in BOOLEAN
  /\ retain \in BOOLEAN /\ spent \in BOOLEAN /\ drift \in BOOLEAN
  /\ certExpired \in BOOLEAN /\ rtcSet \in BOOLEAN /\ disturbed \in BOOLEAN
  /\ kept \in BOOLEAN
CtxType ==
  /\ opts \in [noAuto : BOOLEAN, onLogin : BOOLEAN, noRetain : BOOLEAN]
  /\ err \in Errs
AuthType ==
  /\ mode \in {"out", "pass", "mobile"} /\ pass \in {"none", "right", "wrong"}
  /\ cache \in [Scopes -> Int]
FrameType ==
  /\ call \in [kind : Kinds \union {"none"}, scope : Scopes \union {NoScope}]
  /\ rpc \in [Frames -> RequestPcs] /\ apc \in AuthPcs /\ cpc \in 0..3
  /\ rc \in Codes
LocalType == bearer \in Int /\ nowA \in Int /\ granted \in Int
DeviceType ==
  now \in Nat /\ off \in Offsets /\ live \subseteq Scopes \union {NoScope}
HistoryType ==
  /\ applied \in 0..3 /\ checkins \in 0..3
  /\ proactives \in 0..3

TypeOK ==
  /\ FlagType /\ CtxType /\ AuthType /\ FrameType
  /\ LocalType /\ DeviceType /\ HistoryType

\* History counters saturate: no property tells 3 from more
Bump(n) == IF n < 3 THEN n + 1 ELSE n

Absent == 0   \* no cached token: never fresh, as the clock starts at 0

\* ehem_ctx_create: no session, the options fixed
Init ==
  /\ opts \in [noAuto : BOOLEAN, onLogin : BOOLEAN, noRetain : BOOLEAN]
  /\ inCheckin = FALSE /\ certRefreshed = FALSE /\ loginDone = FALSE
  /\ err = NoErr
  /\ mode = "out" /\ pass = "none" /\ retain = FALSE
  /\ cache = [s \in Scopes |-> Absent]
  /\ call = NoCall /\ rpc = [f \in Frames |-> "idle"]
  /\ apc = "idle" /\ cpc = 0 /\ rc = "OK"
  /\ bearer = Absent /\ nowA = 0 /\ granted = 0
  /\ spent = FALSE /\ drift = FALSE
  /\ now = 0 /\ certExpired \in BOOLEAN /\ rtcSet \in BOOLEAN
  /\ off \in Offsets /\ live = {}
  /\ applied = 0 /\ checkins = 0
  /\ proactives = 0 /\ disturbed = FALSE /\ kept = FALSE

Idle == call = NoCall

DeviceNow == now + off

-----------------------------------------------------------------------------
(* Session lifecycle: ehem_login, ehem_login_mobile, ehem_logout           *)

NoTokens == [s \in Scopes |-> Absent]

Login(p) ==
  /\ Idle
  /\ mode' = "pass" /\ pass' = p /\ retain' = ~opts.noRetain
  /\ cache' = NoTokens /\ err' = NoErr
  /\ UNCHANGED <<opts, inCheckin, certRefreshed, loginDone, frameVars,
                 localVars, deviceVars, historyVars, now>>

LoginMobile ==
  /\ Idle
  /\ mode' = "mobile" /\ pass' = "none"
  /\ cache' = NoTokens /\ err' = NoErr
  /\ UNCHANGED <<opts, inCheckin, certRefreshed, loginDone, retain, frameVars,
                 localVars, deviceVars, historyVars, now>>

Logout ==
  /\ Idle
  /\ mode # "out"
  /\ mode' = "out" /\ pass' = "none" /\ retain' = FALSE
  /\ cache' = NoTokens /\ err' = NoErr
  /\ UNCHANGED <<opts, inCheckin, certRefreshed, loginDone, frameVars,
                 localVars, deviceVars, historyVars, now>>

-----------------------------------------------------------------------------
(* The check-in: ehem_checkin_run                                          *)

\* Entry: the recursion guard goes up, leg 1 is dispatched
StartCheckin ==
  /\ inCheckin' = TRUE /\ cpc' = 1
  /\ checkins' = Bump(checkins)

NoCheckin == UNCHANGED <<inCheckin, cpc, checkins>>

\* TLS posture of an activation: the device legs are relaxed, the cloud leg is
\* fully verified, everything else follows the context's mode
Tls(f) ==
  IF f # "leg" THEN "DEFAULT" ELSE IF cpc = 2 THEN "VERIFY" ELSE "RELAX"

ToDevice(f) == f # "leg" \/ cpc # 2

MoreLegs_OffByOne == rc = "OK" /\ cpc <= 3
MoreLegs == rc = "OK" /\ cpc < 3

EndCheckin_EarlyReturn ==
  cpc' = 0 /\ inCheckin' = (rc # "OK") /\ rpc' = [rpc EXCEPT !["leg"] = "idle"]
\* The common exit: the guard comes down on success and on failure
EndCheckin ==
  cpc' = 0 /\ inCheckin' = FALSE /\ rpc' = [rpc EXCEPT !["leg"] = "idle"]

\* A leg came back: the next leg, or the end of the check-in
LegReturned ==
  /\ rpc["leg"] = "ret"
  /\ \/ /\ MoreLegs
        /\ cpc' = cpc + 1 /\ rpc' = [rpc EXCEPT !["leg"] = "send"]
        /\ UNCHANGED inCheckin
     \/ ~MoreLegs /\ EndCheckin
  /\ UNCHANGED <<opts, certRefreshed, loginDone, err, authVars, call, apc, rc,
                 localVars, deviceVars, historyVars, now>>

CheckinOver == cpc = 0

-----------------------------------------------------------------------------
(* A public call                                                           *)

\* Entry of a binding: last_error is cleared; scoped requests go through
\* ensure_token first
Begin(k, s) ==
  /\ Idle
  /\ (k \in ScopedKinds) <=> (s # NoScope)
  /\ call' = [kind |-> k, scope |-> s]
  /\ err' = NoErr
  /\ IF k = "checkin"
     THEN /\ StartCheckin
          /\ rpc' = [rpc EXCEPT !["leg"] = "send"]
     ELSE /\ NoCheckin
          /\ rpc' = [rpc EXCEPT !["op"] = IF k = "open" THEN "send" ELSE "ensure"]
  /\ UNCHANGED <<opts, certRefreshed, loginDone, authVars, apc, rc, localVars,
                 deviceVars, now, applied, proactives, kept, disturbed>>

\* An empty 200 reaches the binding as PROTOCOL with status 200
EmptyOk == rc = "PROTOCOL" /\ err.http = 200

\* What the binding returns for what the shared path answered
BindingCode(k) ==
  IF k \in Empty200Kinds /\ EmptyOk THEN "OK"
  ELSE IF k = "delete" /\ rc = "DEVICE" /\ err.http = 406 THEN "NOT_FOUND"
  ELSE IF k = "search" /\ rc = "NOT_FOUND" THEN "OK"
  ELSE rc

\* The bindings that rewrite the answer leave a clean last_error behind
BindingErr(k) ==
  IF BindingCode(k) = "OK" /\ (k \in Empty200Kinds \/ (k = "search" /\ rc # "OK"))
  THEN NoErr ELSE err

Outcome == BindingCode(call.kind)

\* The binding returns to its caller
Finish ==
  /\ call.kind # "none"
  /\ \/ rpc["op"] = "ret"
     \/ call.kind = "checkin" /\ CheckinOver
  /\ LET k == call.kind
         ok == Outcome = "OK"
     IN /\ err' = BindingErr(k)
        /\ cache' = IF ok /\ k \in {"reboot", "wipeout"} THEN NoTokens ELSE cache
        /\ mode' = IF ok /\ k = "wipeout" THEN "out" ELSE mode
        /\ pass' = IF ok /\ k = "wipeout" THEN "none" ELSE pass
        /\ retain' = IF ok /\ k = "wipeout" THEN FALSE ELSE retain
  /\ call' = NoCall
  /\ rpc' = [rpc EXCEPT !["op"] = "idle"]
  /\ rc' = "OK" /\ bearer' = Absent
  /\ applied' = 0 /\ checkins' = 0 /\ disturbed' = FALSE /\ kept' = FALSE
  /\ UNCHANGED <<opts, inCheckin, certRefreshed, loginDone, apc, cpc, nowA,
                 spent, drift, granted, deviceVars, proactives, now>>

-----------------------------------------------------------------------------
(* ehem_auth_ensure_token                                                  *)

Ensuring == rpc["op"] \in {"ensure", "ensure2"}
Hit == mode # "out" /\ cache[call.scope] > now

\* ensure_token returns a bearer: the request goes out with it
AfterEnsure == IF rpc["op"] = "ensure" THEN "send" ELSE "send2"

\* ensure_token is left: its locals are gone
EndEnsure ==
  /\ apc' = "idle" /\ nowA' = 0 /\ granted' = 0
  /\ spent' = FALSE /\ drift' = FALSE

\* ensure_token fails: the request is never sent
FailEnsure_KeepError(code, e) ==
  /\ EndEnsure
  /\ rc' = code /\ UNCHANGED err
  /\ rpc' = [rpc EXCEPT !["op"] = "ret", !["auth"] = "idle"]
FailEnsure(code, e) ==
  /\ EndEnsure
  /\ rc' = code /\ err' = e
  /\ rpc' = [rpc EXCEPT !["op"] = "ret", !["auth"] = "idle"]

EnsureHit ==
  /\ Ensuring /\ apc = "idle" /\ Hit
  /\ bearer' = cache[call.scope]
  /\ rpc' = [rpc EXCEPT !["op"] = AfterEnsure]
  /\ UNCHANGED <<ctxVars, authVars, call, apc, cpc, rc, nowA, spent, drift,
                 granted, deviceVars, historyVars, now>>

CredentialHeld_Always == TRUE
CredentialHeld == mode = "mobile" \/ (mode = "pass" /\ pass # "none")

\* No passphrase held: AUTH_EXPIRED, no traffic
EnsureNoCredential ==
  /\ Ensuring /\ apc = "idle" /\ ~Hit /\ ~CredentialHeld
  /\ FailEnsure("AUTH_EXPIRED", NoErr)
  /\ UNCHANGED <<opts, inCheckin, certRefreshed, loginDone, authVars, call, cpc,
                 bearer, deviceVars, applied, checkins, proactives, kept, disturbed,
                 now>>

ProactiveDue_NoLatch == opts.onLogin /\ ~inCheckin
ProactiveDue == opts.onLogin /\ ~loginDone /\ ~inCheckin

\* The acquisition starts: the push confirmation, or the challenge GET
StartAcquire ==
  IF mode = "mobile"
  THEN apc' = "confirm" /\ UNCHANGED rpc
  ELSE apc' = "get" /\ rpc' = [rpc EXCEPT !["auth"] = "send"]

\* A miss that can be served: the clock is read once, then the proactive
\* check-in or the acquisition itself starts
EnsureMiss ==
  /\ Ensuring /\ apc = "idle" /\ ~Hit /\ CredentialHeld
  /\ nowA' = now
  /\ IF ProactiveDue
     THEN /\ loginDone' = TRUE /\ apc' = "proactive" /\ StartCheckin
          /\ proactives' = Bump(proactives)
          /\ rpc' = [rpc EXCEPT !["leg"] = "send"]
     ELSE /\ NoCheckin /\ UNCHANGED <<loginDone, proactives>>
          /\ StartAcquire
  /\ UNCHANGED <<opts, certRefreshed, err, authVars, call, rc, bearer, spent,
                 drift, granted, deviceVars, applied, disturbed, kept, now>>

\* The proactive check-in is best effort: its code is ignored
ProactiveDone ==
  /\ apc = "proactive" /\ CheckinOver
  /\ StartAcquire
  /\ UNCHANGED <<ctxVars, authVars, call, cpc, rc, localVars, deviceVars,
                 historyVars, now>>

RecoveryOpen == ~spent /\ ~opts.noAuto /\ ~inCheckin

StartRecovery(pc) ==
  /\ spent' = TRUE /\ apc' = pc /\ StartCheckin
  /\ rpc' = [rpc EXCEPT !["auth"] = "idle", !["leg"] = "send"]

\* A 403 on the challenge means that the device clock is not set
RtcRecoverable == apc = "get" /\ err.http = 403 /\ RecoveryOpen

\* fetch_challenge: a challenge, a 403 that is worth a check-in, or a failure
ChallengeReturned ==
  /\ apc \in {"get", "reget"} /\ rpc["auth"] = "ret"
  /\ \/ /\ rc = "OK"
        /\ apc' = "post" /\ rpc' = [rpc EXCEPT !["auth"] = "send"]
        /\ NoCheckin /\ UNCHANGED <<nowA, granted, spent, drift>>
     \/ /\ rc # "OK" /\ RtcRecoverable
        /\ StartRecovery("rtc")
        /\ UNCHANGED <<nowA, granted, drift>>
     \/ /\ rc # "OK" /\ ~RtcRecoverable
        /\ EndEnsure
        /\ rpc' = [rpc EXCEPT !["op"] = "ret", !["auth"] = "idle"]
        /\ NoCheckin
  /\ UNCHANGED <<opts, certRefreshed, loginDone, err, authVars, call, rc, bearer,
                 deviceVars, applied, proactives, kept, disturbed, now>>

RtcCheckinDone ==
  /\ apc = "rtc" /\ CheckinOver
  /\ IF rc = "OK"
     THEN /\ apc' = "reget" /\ rpc' = [rpc EXCEPT !["auth"] = "send"]
          /\ UNCHANGED <<rc, err, nowA, granted, spent, drift>>
     ELSE FailEnsure("SCOPE_DENIED", Err(403, FALSE))
  /\ UNCHANGED <<opts, inCheckin, certRefreshed, loginDone, authVars, call, cpc,
                 bearer, deviceVars, applied, checkins, proactives, kept, disturbed,
                 now>>

\* A 401 on the token with measured drift is blamed on the clock
DriftRecoverable == rc = "AUTH_FAILED" /\ drift /\ err.http = 401 /\ RecoveryOpen

PassAfterUse_Kept == pass
PassAfterUse == IF retain THEN pass ELSE "none"

\* The token POST came back: cache it (and scrub a passphrase not to be kept),
\* treat a 401 with measured drift as recoverable, or fail
TokenReturned ==
  /\ apc = "post" /\ rpc["auth"] = "ret"
  /\ \/ /\ rc = "OK"
        /\ cache' = [cache EXCEPT ![call.scope] = granted - Skew]
        /\ pass' = PassAfterUse
        /\ bearer' = granted - Skew
        /\ EndEnsure
        /\ rpc' = [rpc EXCEPT !["op"] = AfterEnsure, !["auth"] = "idle"]
        /\ NoCheckin
     \/ /\ DriftRecoverable
        /\ StartRecovery("driftck")
        /\ UNCHANGED <<cache, pass, bearer, nowA, granted, drift>>
     \/ /\ rc # "OK" /\ ~DriftRecoverable
        /\ EndEnsure
        /\ rpc' = [rpc EXCEPT !["op"] = "ret", !["auth"] = "idle"]
        /\ NoCheckin /\ UNCHANGED <<cache, pass, bearer>>
  /\ UNCHANGED <<opts, certRefreshed, loginDone, err, mode, retain, call, rc,
                 deviceVars, applied, proactives, kept, disturbed, now>>

\* After the drift check-in the clock is read again and the whole flow retried
DriftCheckinDone ==
  /\ apc = "driftck" /\ CheckinOver
  /\ IF rc = "OK"
     THEN /\ nowA' = now
          /\ apc' = "get" /\ rpc' = [rpc EXCEPT !["auth"] = "send"]
          /\ UNCHANGED <<rc, err, granted, spent, drift>>
     ELSE FailEnsure("AUTH_FAILED", Err(401, FALSE))
  /\ UNCHANGED <<opts, inCheckin, certRefreshed, loginDone, authVars, call, cpc,
                 bearer, deviceVars, applied, checkins, proactives, kept, disturbed,
                 now>>

\* Mobile mode: the confirm engine as its caller sees it (ConfirmEngine is its
\* own model). Its requests run through the same path, so they may repair the
\* device by a check-in (an expired certificate, an unset or drifted clock).
\* Each clears last_error on entry, but a refused push keeps its AUTH_FAILED
\* while a failed drift check-in overwrites last_error with whatever a leg met.
ConfirmFailures ==
  [code : {"USER_REJECTED", "CONFIRM_TIMEOUT", "UNREACHABLE", "NETWORK"}, http : {0}]
  \union [code : {"PROTOCOL"}, http : {0, 200}]
  \union [code : {"SCOPE_DENIED"}, http : {403}]
  \union [code : {"NOT_FOUND"}, http : {404}]
  \union [code : {"DEVICE"}, http : {406, 500}]

ConfirmFailed ==
  \/ \E x \in ConfirmFailures : FailEnsure(x.code, Err(x.http, FALSE))
  \/ FailEnsure("NETWORK", Err(0, TRUE))
  \/ \E e \in Errs : FailEnsure("AUTH_FAILED", e)

\* A completed check-in sets the device clock.  The device accepts the new
\* certificate, but may go on serving the old one.
Repaired ==
  /\ rtcSet' = TRUE /\ off' = 0
  /\ certExpired' \in {FALSE, certExpired}
  /\ kept' = (kept \/ certExpired')

NotRepaired == UNCHANGED <<rtcSet, off, certExpired, kept>>

MobileConfirm ==
  /\ apc = "confirm"
  /\ \/ /\ ~opts.noAuto /\ (certExpired \/ ~rtcSet \/ off # 0)
        /\ Repaired
        /\ certRefreshed' = (certRefreshed \/ (certExpired /\ ~certExpired'))
        /\ checkins' = Bump(checkins)
     \/ NotRepaired /\ UNCHANGED <<certRefreshed, checkins>>
  /\ \/ /\ rtcSet' /\ ~certExpired'
        /\ \E life \in Lives :
             /\ cache' = [cache EXCEPT ![call.scope] = now + off' + life - Skew]
             /\ bearer' = now + off' + life - Skew
        /\ live' = live \union {call.scope}
        /\ EndEnsure /\ rpc' = [rpc EXCEPT !["op"] = AfterEnsure]
        /\ err' \in {NoErr, IF rtcSet THEN NoErr ELSE Err(403, FALSE)}
        /\ UNCHANGED <<rc, disturbed>>
     \/ /\ ConfirmFailed
        /\ disturbed' = TRUE
        /\ UNCHANGED <<cache, bearer, live>>
  /\ UNCHANGED <<opts, inCheckin, loginDone, mode, pass, retain, call, cpc,
                 applied, proactives, now>>

-----------------------------------------------------------------------------
(* ehem_proto_request_raw: one transport send and what follows it          *)

Sending(f) == rpc[f] \in {"send", "resend", "send2"}

\* The path gives up on an activation: code, status and the expired verdict
Fail(f, code, http, expired) ==
  /\ rpc' = [rpc EXCEPT ![f] = "ret"]
  /\ rc' = code /\ err' = Err(http, expired)

\* Automatic certificate recovery: not while a check-in is under way, and only
\* for requests under the context's own TLS posture
CertRecoverable(f) ==
  /\ ~opts.noAuto /\ ~inCheckin
  /\ Tls(f) = "DEFAULT"

\* Executing a reboot or a wipeout restarts the device
Executed ==
  /\ applied' = Bump(applied)
  /\ IF call.kind \in {"reboot", "wipeout"}
     THEN live' = {} /\ rtcSet' = FALSE
     ELSE UNCHANGED <<live, rtcSet>>

NotExecuted == UNCHANGED <<applied, live, rtcSet>>

\* No connection could be made: UNREACHABLE, nothing was executed
SendUnreachable(f) ==
  /\ Sending(f)
  /\ Fail(f, "UNREACHABLE", 0, FALSE)
  /\ disturbed' = TRUE
  /\ UNCHANGED <<opts, inCheckin, certRefreshed, loginDone, authVars, call, apc,
                 cpc, localVars, deviceVars, applied, checkins,
                 proactives, kept, now>>

BrokenOffCode_Unreachable == "UNREACHABLE"
BrokenOffCode == "NETWORK"

\* The exchange broke off: NETWORK. The device may have executed the request,
\* or taken the last leg of a check-in, all the same.
SendLost(f) ==
  /\ Sending(f)
  /\ Fail(f, BrokenOffCode, 0, FALSE)
  /\ \/ NotExecuted /\ UNCHANGED <<off, certExpired, kept>>
     \/ f = "op" /\ Executed /\ UNCHANGED <<off, certExpired, kept>>
     \/ f = "leg" /\ cpc = 3 /\ Repaired /\ UNCHANGED <<applied, live>>
  /\ disturbed' = TRUE
  /\ UNCHANGED <<opts, inCheckin, certRefreshed, loginDone, authVars, call, apc,
                 cpc, localVars, checkins, proactives, now>>

\* The handshake failed on an expired certificate, the device's or the cloud's:
\* nothing was executed. A first send may start the recovery; a resend reports
\* that the device still serves the old certificate; the resend after a 401
\* leaves tls_expired at 0.
SendExpired(f) ==
  /\ Sending(f) /\ Tls(f) # "RELAX"
  /\ ToDevice(f) => certExpired
  /\ IF rpc[f] = "send" /\ CertRecoverable(f)
     THEN /\ StartCheckin
          /\ rpc' = [rpc EXCEPT ![f] = "cert", !["leg"] = "send"]
          /\ UNCHANGED <<rc, err>>
     ELSE /\ Fail(f, "NETWORK", 0, rpc[f] # "send2")
          /\ NoCheckin
  /\ UNCHANGED <<opts, certRefreshed, loginDone, authVars, call, apc, localVars,
                 deviceVars, applied, proactives, kept, now>>
  /\ disturbed' = (disturbed \/ ~ToDevice(f))

\* The recovery check-in is over: resend on a fresh connection, or report the
\* verdict that started it
CertCheckinDone(f) ==
  /\ rpc[f] = "cert" /\ CheckinOver
  /\ IF rc = "OK"
     THEN rpc' = [rpc EXCEPT ![f] = "resend"] /\ UNCHANGED <<rc, err>>
     ELSE Fail(f, "NETWORK", 0, TRUE)
  /\ UNCHANGED <<opts, inCheckin, certRefreshed, loginDone, authVars, call, apc,
                 cpc, localVars, deviceVars, historyVars, now>>

TokenRejected_AnyError(f, r) ==
  f = "op" /\ call.scope # NoScope /\ r.status >= 400 /\ rpc[f] # "send2"
TokenRejected_Again(f, r) ==
  f = "op" /\ call.scope # NoScope /\ r.status = 401
\* The one 401 of a call that is answered by a new token
TokenRejected(f, r) ==
  f = "op" /\ call.scope # NoScope /\ r.status = 401 /\ rpc[f] # "send2"

RefreshProven_AnyReply(f) == certRefreshed \/ rpc[f] \in {"send", "resend"}
RefreshProven(f) == certRefreshed \/ rpc[f] = "resend"

\* A reply was read. A 401 on a scoped request drops its token and re-acquires
\* once; anything else is mapped. A resend that got a reply proves the refresh.
Deliver(f, r, code, http) ==
  /\ certRefreshed' = RefreshProven(f)
  /\ IF TokenRejected(f, r)
     THEN /\ cache' = [cache EXCEPT ![call.scope] = Absent]
          /\ bearer' = Absent
          /\ rpc' = [rpc EXCEPT ![f] = "ensure2"]
          /\ UNCHANGED <<rc, err>>
     ELSE /\ rpc' = [rpc EXCEPT ![f] = "ret"]
          /\ rc' = code
          /\ err' = IF code = "OK" THEN err ELSE Err(http, FALSE)
          /\ UNCHANGED <<cache, bearer>>

Reachable(f) == certExpired => ~ToDevice(f) \/ Tls(f) = "RELAX"

-----------------------------------------------------------------------------
(* The device and the cloud as their answers show them (external)          *)

BearerGood ==
  /\ rtcSet /\ call.scope \in live /\ DeviceNow < bearer + Skew

\* A binding parses raw or JSON, and needs its fields
OpCode(r) ==
  IF call.kind \in Empty200Kinds THEN RawCode(r)
  ELSE IF JsonCode(r) = "OK" /\ r.body = "nofield" THEN "PROTOCOL" ELSE JsonCode(r)
OpHttp(r) == IF call.kind \in Empty200Kinds THEN RawHttp(r) ELSE JsonHttp(r)

Success == Reply(200, IF call.kind \in Empty200Kinds THEN "empty" ELSE "json")

\* A 404 to a search is its answer: nothing matched
Answers(st) == call.kind = "search" /\ st = 404

\* The device answers the binding's request: it executes it, refuses a bearer
\* it does not take (401), refuses the request (403, 404, 406), fails half way
\* (500), or executes it and answers with a body the binding does not expect
OpReply ==
  /\ Sending("op") /\ Reachable("op")
  /\ \/ /\ call.scope # NoScope => BearerGood
        /\ Executed /\ Deliver("op", Success, OpCode(Success), OpHttp(Success))
        /\ UNCHANGED disturbed
     \/ /\ call.scope # NoScope /\ ~BearerGood
        /\ NotExecuted /\ Deliver("op", Reply(401, "json"), "AUTH_FAILED", 401)
        /\ UNCHANGED disturbed
     \/ /\ call.scope # NoScope => BearerGood
        /\ \E st \in {403, 404, 406, 500} :
             /\ Deliver("op", Reply(st, "json"), MapStatus(st), st)
             /\ \/ (st = 500 \/ Answers(st)) /\ Executed
                \/ ~Answers(st) /\ NotExecuted
        /\ disturbed' = TRUE
     \/ /\ call.scope # NoScope => BearerGood
        /\ \E b \in {"empty", "bad", "nofield"} :
             LET r == Reply(200, b) IN Deliver("op", r, OpCode(r), OpHttp(r))
        /\ Executed /\ disturbed' = TRUE
  /\ UNCHANGED <<opts, inCheckin, loginDone, mode, pass, retain, call, apc, cpc,
                 nowA, spent, drift, granted, certExpired, off,
                 checkins, proactives, kept, now>>

\* A malformed challenge is PROTOCOL with status 0, a token answer without a
\* token is PROTOCOL with status 200
Garbage == {Reply(404, "json"), Reply(500, "json"), Reply(200, "empty"),
            Reply(200, "bad"), Reply(200, "nofield")}

DriftEvident_BehindOnly == DeviceNow - nowA < -Skew
\* challenge_drift_evident: the device clock, as the exp of the challenge shows
\* it, against the time ensure_token read on entry
DriftEvident == DeviceNow - nowA > Skew \/ DeviceNow - nowA < -Skew

\* GET /api/auth/token: 403 while the clock is unset, else a challenge
ChallengeReply ==
  /\ Sending("auth") /\ apc \in {"get", "reget"} /\ Reachable("auth")
  /\ \/ /\ rtcSet
        /\ drift' = DriftEvident
        /\ Deliver("auth", Reply(200, "json"), "OK", 0)
        /\ UNCHANGED disturbed
     \/ /\ ~rtcSet
        /\ Deliver("auth", Reply(403, "json"), "SCOPE_DENIED", 403)
        /\ UNCHANGED <<drift, disturbed>>
     \/ /\ \E r \in Garbage :
             Deliver("auth", r,
                     IF r.body = "nofield" THEN "PROTOCOL" ELSE JsonCode(r),
                     IF r.body = "nofield" THEN 0 ELSE JsonHttp(r))
        /\ disturbed' = TRUE /\ UNCHANGED drift
  /\ UNCHANGED <<opts, inCheckin, loginDone, mode, pass, retain, call, apc, cpc,
                 nowA, spent, granted, deviceVars, applied,
                 checkins, proactives, kept, now>>

\* POST /api/auth/token: a token, unless the credential is wrong or the
\* requested expiry is already past on the device clock
TokenAccepted == rtcSet /\ pass = "right" /\ nowA + Lifetime > DeviceNow

TokenReply ==
  /\ Sending("auth") /\ apc = "post" /\ Reachable("auth")
  /\ \/ /\ TokenAccepted
        /\ \E life \in Lives :
             granted' = IF nowA + Lifetime < DeviceNow + life
                        THEN nowA + Lifetime ELSE DeviceNow + life
        /\ live' = live \union {call.scope}
        /\ Deliver("auth", Reply(200, "json"), "OK", 0)
        /\ UNCHANGED disturbed
     \/ /\ ~TokenAccepted
        /\ Deliver("auth", Reply(401, "json"), "AUTH_FAILED", 401)
        /\ UNCHANGED <<granted, live, disturbed>>
     \/ /\ \E r \in Garbage :
             Deliver("auth", r,
                     IF r.body = "nofield" THEN "PROTOCOL" ELSE JsonCode(r),
                     JsonHttp(r))
        /\ disturbed' = TRUE /\ UNCHANGED <<granted, live>>
  /\ UNCHANGED <<opts, inCheckin, loginDone, mode, pass, retain, call, apc, cpc,
                 nowA, spent, drift, certExpired, rtcSet, off, applied,
                 checkins, proactives, kept, now>>

\* A check-in leg is answered. The third repairs the device; it parses JSON, the
\* first two are relayed verbatim.
LegReply ==
  /\ Sending("leg")
  /\ \/ /\ Deliver("leg", Reply(200, "json"), "OK", 0)
        /\ IF cpc = 3
           THEN Repaired
           ELSE NotRepaired
        /\ UNCHANGED disturbed
     \/ /\ \E r \in Garbage \union {Reply(403, "json")} :
             Deliver("leg", r, IF cpc = 3 THEN JsonCode(r) ELSE RawCode(r),
                               IF cpc = 3 THEN JsonHttp(r) ELSE RawHttp(r))
        /\ disturbed' = TRUE
        /\ NotRepaired
  /\ UNCHANGED <<opts, inCheckin, loginDone, mode, pass, retain, call, apc, cpc,
                 nowA, spent, drift, granted, live, applied,
                 checkins, proactives, now>>

-----------------------------------------------------------------------------
(* What happens around the client.  Steps of the client between two waits  *)
(* touch nothing the world sees, so the world moves only while the client  *)
(* waits.                                                                  *)

Waiting == Idle \/ apc = "confirm" \/ \E f \in Frames : Sending(f)

\* The acquisition has lasted as long as the token it asks for is good for.  The
\* transport's total_timeout_ms (30 s by default, against an hour) keeps it shorter.
Outlasted == apc # "idle" /\ now' - nowA >= Lifetime - Skew

\* Time passes.  The time a bearer spends on the wire counts as a disturbance
\* of the call: a token may expire there whatever the client does.  So does an
\* acquisition that takes too long to be served.
Tick ==
  /\ Waiting /\ now < MaxNow
  /\ now' = now + 1
  /\ disturbed' = (disturbed \/ Sending("op") \/ Outlasted)
  /\ UNCHANGED <<ctxVars, authVars, frameVars, localVars, deviceVars, applied,
                 checkins, proactives, kept>>

\* The device restarts: its clock is unset and the tokens it issued are void
Restart ==
  /\ Waiting /\ (rtcSet \/ live # {})
  /\ rtcSet' = FALSE /\ live' = {} /\ disturbed' = ~Idle
  /\ UNCHANGED <<ctxVars, authVars, frameVars, localVars, certExpired, off,
                 applied, checkins, proactives, kept, now>>

CertExpires ==
  /\ Waiting /\ ~certExpired
  /\ certExpired' = TRUE /\ disturbed' = ~Idle
  /\ UNCHANGED <<ctxVars, authVars, frameVars, localVars, rtcSet, off, live,
                 applied, checkins, proactives, kept, now>>

\* The device clock wanders between calls (a call is too short for it)
ClockDrifts(o) ==
  /\ Idle /\ off # o
  /\ off' = o
  /\ UNCHANGED <<ctxVars, authVars, frameVars, localVars, certExpired, rtcSet,
                 live, historyVars, now>>

-----------------------------------------------------------------------------
Client ==
  \/ LegReturned
  \/ EnsureHit \/ EnsureNoCredential \/ EnsureMiss
  \/ ProactiveDone \/ ChallengeReturned \/ RtcCheckinDone
  \/ TokenReturned \/ DriftCheckinDone
  \/ \E f \in {"op", "auth"} : CertCheckinDone(f)
  \/ Finish

Exchange ==
  \/ \E f \in Frames : SendUnreachable(f) \/ SendLost(f) \/ SendExpired(f)
  \/ OpReply \/ ChallengeReply \/ TokenReply \/ LegReply \/ MobileConfirm

User ==
  \/ \E p \in {"right", "wrong"} : Login(p)
  \/ LoginMobile \/ Logout
  \/ \E k \in CallKinds, s \in Scopes \union {NoScope} : Begin(k, s)

World == Tick \/ Restart \/ CertExpires \/ \E o \in Offsets : ClockDrifts(o)

Next == Client \/ Exchange \/ User \/ World

\* The client runs while a call is open, and every exchange ends: the transport
\* bounds it with connect_timeout_ms and total_timeout_ms
Fairness == WF_vars(Client) /\ WF_vars(Exchange)

Spec == Init /\ [][Next]_vars /\ Fairness
-----------------------------------------------------------------------------
(* Properties                                                              *)

\* Recursion guard: in_checkin is up exactly while a check-in is under way, on
\* every path out of ehem_checkin_run. A guard left up would switch every
\* automatic recovery of the context off; one that is down too early would let
\* a leg start a check-in of its own.
GuardExact ==
  /\ inCheckin <=> cpc # 0
  /\ cpc # 0 <=> rpc["leg"] # "idle"
  /\ Idle => /\ \A f \in Frames : rpc[f] = "idle"
             /\ apc = "idle"

\* Activations nest: token acquisition only inside the request that needs the
\* token, a check-in only under the one activation that waits for it, so no two
\* exchanges of a context are ever on the wire together.
Nesting ==
  /\ rpc["leg"] \in {"idle", "send", "ret"}
  /\ rpc["auth"] \in {"idle", "send", "cert", "resend", "ret"}
  /\ rpc["auth"] # "idle" <=> apc \in {"get", "reget", "post"}
  /\ apc # "idle" => Ensuring
  /\ apc = "confirm" => mode = "mobile"
  /\ rpc["op"] # "idle" <=> call.kind \notin {"none", "checkin"}
  /\ rpc["op"] \in {"ensure", "ensure2", "send2"} => call.scope # NoScope
  /\ call.scope # NoScope <=> call.kind \in ScopedKinds
  /\ rpc["leg"] # "idle" =>
       \/ call.kind = "checkin"
       \/ "cert" \in {rpc["op"], rpc["auth"]}
       \/ apc \in {"proactive", "rtc", "driftck"}

\* The effect of a call on the device shows in its code: nothing is executed
\* before the request path returns, an OK from it was executed, and what was
\* executed is never reported as an authentication or connection failure.
Effects ==
  /\ rpc["op"] # "ret" => applied = 0
  /\ applied <= 1
  /\ rpc["op"] = "ret" /\ rc = "OK" => applied = 1
  /\ applied = 1 => \/ rc \in {"OK", "NETWORK", "DEVICE", "PROTOCOL"}
                    \/ rc = "NOT_FOUND" /\ call.kind = "search"

\* At most once: whatever the request path resends (after an expired
\* certificate, after a 401), the device executes a call's request at most once.
AtMostOnce == applied <= 1

\* A call that ends OK was executed by the device, for the bindings that take
\* their answer from a JSON body.
OkMeansExecuted ==
  [][Finish /\ call.kind = "json" /\ Outcome = "OK" => applied = 1]_vars

\* Some failures are definite: after an authentication failure, or when no
\* connection could be made, the device did not execute the call, through all
\* the resends the path makes, so the caller may safely repeat it.
DefiniteErrors ==
  [][Finish /\ Outcome \in {"AUTH_EXPIRED", "AUTH_FAILED", "SCOPE_DENIED",
                            "USER_REJECTED", "CONFIRM_TIMEOUT", "UNREACHABLE"}
       => applied = 0]_vars

\* The recoveries compose: when nothing goes wrong during the call itself, a
\* call with the right passphrase succeeds whatever state the device was left
\* in (expired certificate, unset or drifted clock, voided tokens).  If it does
\* not, a check-in went through and the device still serves the expired
\* certificate, and that is what the caller is told: ERR_NETWORK, tls_expired.
RecoveryComplete ==
  [][Finish /\ call.kind \in ScopedKinds /\ ~disturbed /\ ~opts.noAuto
       /\ mode = "pass" /\ pass = "right"
       => \/ Outcome = "OK"
          \/ kept /\ Outcome = "NETWORK" /\ err'.expired]_vars

\* One check-in sets everything right that it can: whatever is wrong with the
\* device when the call starts, an undisturbed call with a good credential runs
\* at most one, and a second only where the first left an expired certificate in
\* service, so the proactive, certificate, clock and drift recoveries do not
\* multiply.
OneCheckinRepairs ==
  ~disturbed /\ pass # "wrong" => checkins <= IF kept THEN 2 ELSE 1

\* The code returned and the last_error kept agree, after every recovery that
\* ran in between and overwrote last_error with its own failure (a passphrase
\* session; the confirm engine gives no such promise).
ErrorsAgree ==
  [][Finish /\ mode # "mobile" =>
       /\ Outcome = "AUTH_FAILED" => err'.http = 401
       /\ Outcome = "SCOPE_DENIED" => err'.http = 403
       /\ Outcome = "NOT_FOUND" => err'.http \in {404, 406}
       /\ Outcome \in {"NETWORK", "UNREACHABLE", "AUTH_EXPIRED"} => err'.http = 0
       /\ err'.expired => Outcome \in {"NETWORK", "OK"}]_vars

\* checkin_on_login: one proactive check-in per context, even if it fails.
ProactiveOnce == proactives <= 1

\* cert_refreshed is set only by a request that the device answered under the
\* context's own TLS posture, that is, with a certificate that verifies.
RefreshVerified == [][certRefreshed' # certRefreshed => ~certExpired']_vars

\* no_credential_retention: once a token was obtained with it, the passphrase
\* is gone.
PassphraseSpent ==
  mode = "pass" /\ ~retain /\ pass # "none" => \A s \in Scopes : cache[s] = Absent

\* Without a session an authenticated call causes no traffic at all.
NoTrafficAfterLogout ==
  mode = "out" /\ call.scope # NoScope => \A f \in Frames : ~Sending(f)

\* Every call returns to its caller.
CallsReturn == call # NoCall ~> call = NoCall
=============================================================================
