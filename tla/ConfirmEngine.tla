--------------------------- MODULE ConfirmEngine ----------------------------
(***************************************************************************)
(* The mobile confirmation engine (proto_ext.c): begin, poll, wait and     *)
(* cancel on single-use handles, over the broker's session, event/new and  *)
(* event/check and the device's ext/request and ext/token.  The phone      *)
(* answers whenever it likes, also after the caller has given up; an       *)
(* exchange may be lost before or after the peer acted on it; the device   *)
(* may restart and its clock may run ahead of the broker's.                *)
(*                                                                         *)
(* A check-in is one step here (HemSession is the model of its legs), and  *)
(* the certificate recovery below a device exchange is left to HemSession. *)
(* Time is counted from the moments that matter: the stamp of the authreq, *)
(* the start of a wait, the start of an exchange.                          *)
(***************************************************************************)
EXTENDS HemTypes

CONSTANTS
  Handles,      \* confirmation handles of the application
  Scopes,       \* scopes it asks confirmation for
  NoScope,
  Timeout,      \* timeout_ms of a wait
  Interval,     \* g_poll_interval_ms
  MaxLatency,   \* total_timeout_ms: how long one exchange can take
  FutureSkew,   \* EXT_BROKER_IAT_FUTURE_SKEW
  PastSkew,     \* EXT_BROKER_IAT_PAST_SKEW
  Offsets,      \* how far the device clock may be off
  MaxEvents     \* bound: pushes that reach the phone in all

ASSUME ConfirmAssumption ==
  /\ Timeout \in Nat \ {0} /\ Interval \in Nat \ {0} /\ MaxLatency \in Nat
  /\ FutureSkew \in Nat /\ PastSkew \in Nat
  /\ Offsets \subseteq Int /\ 0 \in Offsets
  /\ MaxEvents \in Nat
  /\ NoScope \notin Scopes

Events == 1..MaxEvents

VARIABLES
  noAuto,     \* no_auto_checkin
  handle,     \* struct ehem_ext_confirm; "done" is its terminal flag
  call,       \* the call under way: [op, h, scope]
  pc,         \* where it is
  refired,    \* begin: the push is being fired a second time
  elapsed,    \* wait: time slept so far
  rc, http,   \* code and last_error status, of the last call once it returned
  tokens,     \* token cache: scope -> event its bearer was redeemed from, 0 none
  asked, answer,        \* broker: the scope of an event, the phone's answer
  redeemed,             \* device: how often it evaluated the reply to an event
  rtcSet, off,          \* device clock: set at all, and its offset
  iat, age,             \* the authreq: its clock offset, and its age
  lat, waited,          \* time spent in the exchange, and in the wait
  rings, disturbed      \* history: phone rung, faults met in this call

phoneVars == <<asked, answer>>
deviceVars == <<redeemed, rtcSet, off>>
pushVars == <<refired, iat, age>>
waitVars == <<elapsed, waited>>
historyVars == <<rings, disturbed>>
vars == <<noAuto, handle, call, pc, rc, http, tokens, lat, phoneVars,
          deviceVars, pushVars, waitVars, historyVars>>

Pcs == {"idle", "session", "request", "reqck", "request2", "push", "driftck",
        "check", "sleep", "redeem", "redck", "redeem2"}
OnWire == pc \notin {"idle", "sleep"}

NoCall == [op |-> "none", h |-> NoScope, scope |-> NoScope]
Unused == [st |-> "free", event |-> 0, scope |-> NoScope]

TypeOK ==
  /\ noAuto \in BOOLEAN
  /\ handle \in [Handles -> [st : {"free", "live", "done"}, event : 0..MaxEvents,
                             scope : Scopes \union {NoScope}]]
  /\ call \in [op : {"begin"}, h : Handles, scope : Scopes]
       \union [op : {"poll", "wait"}, h : Handles, scope : {NoScope}]
       \union {NoCall}
  /\ pc \in Pcs /\ refired \in BOOLEAN /\ elapsed \in 0..Timeout
  /\ rc \in Codes \union {"ARG"} /\ http \in Statuses
  /\ tokens \in [Scopes -> 0..MaxEvents]
  /\ asked \in [Events -> Scopes \union {NoScope}]
  /\ answer \in [Events -> {"unasked", "pending", "approved", "denied"}]
  /\ redeemed \in [Events -> 0..2]
  /\ rtcSet \in BOOLEAN /\ off \in Offsets /\ iat \in Offsets
  /\ age \in Nat /\ lat \in 0..MaxLatency /\ waited \in Nat
  /\ rings \in 0..2 /\ disturbed \in BOOLEAN

\* History counters saturate: no property tells 2 from more
Bump(n) == IF n < 2 THEN n + 1 ELSE n

Init ==
  /\ noAuto \in BOOLEAN
  /\ handle = [h \in Handles |-> Unused] /\ tokens = [s \in Scopes |-> 0]
  /\ call = NoCall /\ pc = "idle" /\ refired = FALSE /\ elapsed = 0
  /\ rc = "OK" /\ http = 0
  /\ asked = [e \in Events |-> NoScope]
  /\ answer = [e \in Events |-> "unasked"] /\ redeemed = [e \in Events |-> 0]
  /\ rtcSet \in BOOLEAN /\ off \in Offsets /\ iat = 0
  /\ age = 0 /\ lat = 0 /\ waited = 0
  /\ rings = 0 /\ disturbed = FALSE

Idle == call = NoCall
Held(h) == handle[h].st # "free"
Event == handle[call.h].event

-----------------------------------------------------------------------------
(* Steps of a call: on to the next exchange, or back to the application    *)

GoTo(p) == pc' = p /\ lat' = 0 /\ UNCHANGED call

Return(code, st) ==
  /\ rc' = code /\ http' = st
  /\ call' = NoCall /\ pc' = "idle" /\ lat' = 0
  /\ refired' = FALSE /\ iat' = 0 /\ age' = 0
  /\ elapsed' = 0 /\ waited' = 0

\* How an exchange fails: the peer is not reached, the answer breaks off or is
\* malformed, or the peer refuses
Broken == {<<"NETWORK", 0>>, <<"PROTOCOL", 200>>}
Failures ==
  Broken \union {<<"UNREACHABLE", 0>>, <<"AUTH_FAILED", 401>>,
                 <<"NOT_FOUND", 404>>, <<"DEVICE", 500>>}

\* A check-in sets the device clock right; when it fails its last leg may have
\* reached the device all the same
Resynced == rtcSet' = TRUE /\ off' = 0
CheckinFailed == UNCHANGED <<rtcSet, off>> \/ Resynced

-----------------------------------------------------------------------------
(* ehem_ext_confirm_begin                                                  *)

\* fire_push starts with an anonymous broker session
Begin(h, s) ==
  /\ Idle /\ ~Held(h) /\ \E e \in Events : answer[e] = "unasked"
  /\ call' = [op |-> "begin", h |-> h, scope |-> s]
  /\ pc' = "session" /\ http' = 0
  /\ rings' = 0 /\ disturbed' = FALSE
  /\ UNCHANGED <<noAuto, handle, rc, tokens, lat, phoneVars, deviceVars,
                 pushVars, waitVars>>

\* A begin that fails frees the handle it was building: none is handed out
SessionReply ==
  /\ pc = "session"
  /\ \/ /\ GoTo("request") /\ http' = 0
        /\ UNCHANGED <<rc, pushVars, waitVars, historyVars>>
     \/ /\ \E f \in Failures : Return(f[1], f[2])
        /\ disturbed' = TRUE /\ UNCHANGED rings
  /\ UNCHANGED <<noAuto, handle, tokens, phoneVars, deviceVars>>

\* ext_login_post: a 403 of the first attempt is worth one check-in
RtcRecoverable == pc \in {"request", "redeem"} /\ ~noAuto

\* POST /api/auth/ext/request: 403 while the clock is unset, else the authreq,
\* stamped with the device clock
RequestReply ==
  /\ pc \in {"request", "request2"}
  /\ \/ /\ rtcSet
        /\ GoTo("push") /\ http' = 0 /\ iat' = off /\ age' = 0
        /\ UNCHANGED <<rc, refired, waitVars, historyVars>>
     \/ /\ ~rtcSet /\ RtcRecoverable
        /\ GoTo("reqck") /\ http' = 403
        /\ UNCHANGED <<rc, pushVars, waitVars, historyVars>>
     \/ /\ ~rtcSet /\ ~RtcRecoverable
        /\ Return("SCOPE_DENIED", 403) /\ UNCHANGED historyVars
     \/ /\ \E f \in Failures : Return(f[1], f[2])
        /\ disturbed' = TRUE /\ UNCHANGED rings
  /\ UNCHANGED <<noAuto, handle, tokens, phoneVars, deviceVars>>

RequestCheckinDone ==
  /\ pc = "reqck"
  /\ \/ /\ Resynced /\ GoTo("request2")
        /\ UNCHANGED <<rc, http, pushVars, waitVars, historyVars>>
     \/ /\ CheckinFailed /\ Return("SCOPE_DENIED", 403)
        /\ disturbed' = TRUE /\ UNCHANGED rings
  /\ UNCHANGED <<noAuto, handle, tokens, phoneVars, redeemed>>

\* How far the stamp of the authreq is ahead of the clock now
Ahead == iat - age

\* The broker has no tolerance for a stamp in its future
BrokerAccepts == Ahead <= 0

DriftEvident_Symmetric == Ahead > PastSkew \/ Ahead < -PastSkew
DriftEvident == Ahead > FutureSkew \/ Ahead < -PastSkew

DriftRecoverable_AnyFailure(st) == DriftEvident /\ ~refired /\ ~noAuto
\* A 401 on the push with drift in evidence is blamed on the device clock, once
DriftRecoverable(st) == st = 401 /\ DriftEvident /\ ~refired /\ ~noAuto

\* The push failed: check in and fire again, or fail begin
PushFailed(code, st) ==
  \/ /\ DriftRecoverable(st)
     /\ GoTo("driftck") /\ rc' = code /\ http' = st
     /\ UNCHANGED <<pushVars, waitVars>>
  \/ /\ ~DriftRecoverable(st)
     /\ Return(code, st)

\* The phone rings
Delivered(e) ==
  /\ answer[e] = "unasked" /\ \A d \in Events : answer[d] = "unasked" => e <= d
  /\ answer' = [answer EXCEPT ![e] = "pending"]
  /\ asked' = [asked EXCEPT ![e] = call.scope]
  /\ rings' = Bump(rings)

\* POST /event/new: the phone rings and the handle is handed out, the consumer
\* is notified; it rings but the caller is not told; the stamp is refused; or
\* the push fails altogether
PushReply ==
  /\ pc = "push"
  /\ \/ /\ BrokerAccepts
        /\ \E e \in Events :
             /\ Delivered(e)
             /\ handle' = [handle EXCEPT ![call.h] =
                  [st |-> "live", event |-> e, scope |-> call.scope]]
        /\ Return("OK", 0) /\ UNCHANGED disturbed
     \/ /\ BrokerAccepts
        /\ \E e \in Events : Delivered(e)
        /\ \E f \in Broken : PushFailed(f[1], f[2])
        /\ disturbed' = TRUE /\ UNCHANGED handle
     \/ /\ ~BrokerAccepts
        /\ PushFailed("AUTH_FAILED", 401)
        /\ UNCHANGED <<handle, phoneVars, historyVars>>
     \/ /\ \E f \in Failures : PushFailed(f[1], f[2])
        /\ disturbed' = TRUE /\ UNCHANGED <<handle, phoneVars, rings>>
  /\ UNCHANGED <<noAuto, tokens, deviceVars>>

\* After a good check-in all three legs again; after a failed one begin returns
\* the refusal, with the last_error a leg of the check-in left
DriftCheckinDone ==
  /\ pc = "driftck"
  /\ \/ /\ Resynced /\ GoTo("session") /\ http' = 0 /\ refired' = TRUE
        /\ UNCHANGED <<rc, iat, age, waitVars, historyVars>>
     \/ /\ CheckinFailed /\ \E st \in Statuses : Return(rc, st)
        /\ disturbed' = TRUE /\ UNCHANGED rings
  /\ UNCHANGED <<noAuto, handle, tokens, phoneVars, redeemed>>

-----------------------------------------------------------------------------
(* ehem_ext_confirm_poll and ehem_ext_confirm_wait                         *)

\* One call of poll, or a wait, which polls until its time is up.  A handle
\* that is used up is refused without traffic.
Poll(op, h) ==
  /\ Idle /\ Held(h)
  /\ rings' = 0 /\ disturbed' = FALSE /\ http' = 0
  /\ IF handle[h].st = "done"
     THEN rc' = "ARG" /\ UNCHANGED <<call, pc>>
     ELSE /\ call' = [op |-> op, h |-> h, scope |-> NoScope]
          /\ pc' = "check"
          /\ UNCHANGED rc
  /\ UNCHANGED <<noAuto, handle, tokens, lat, phoneVars, deviceVars, pushVars,
                 waitVars>>

TimeUp_BeforeLastPoll == elapsed + Interval >= Timeout
TimeUp == elapsed >= Timeout

UsedUp_NotOnFailure(code) ==
  IF code \in {"OK", "USER_REJECTED"}
  THEN handle' = [handle EXCEPT ![call.h].st = "done"] ELSE UNCHANGED handle
UsedUp_OnlyIfDenied(code) ==
  IF code = "USER_REJECTED"
  THEN handle' = [handle EXCEPT ![call.h].st = "done"] ELSE UNCHANGED handle
\* The handle is terminal: granted, denied, or redeemed in vain
UsedUp(code) == handle' = [handle EXCEPT ![call.h].st = "done"]

Approved_Answered == answer[Event] # "pending"
\* A 200 without a deny field
Approved == answer[Event] = "approved"

\* GET /event/check: still pending, denied, approved, or a failure that leaves
\* the handle as it is
CheckReply ==
  /\ pc = "check"
  /\ \/ /\ answer[Event] = "pending"
        /\ \/ call.op = "poll" /\ Return("OK", 0)
           \/ call.op = "wait" /\ TimeUp /\ Return("CONFIRM_TIMEOUT", 0)
           \/ /\ call.op = "wait" /\ ~TimeUp /\ GoTo("sleep")
              /\ UNCHANGED <<rc, http, pushVars, waitVars>>
        /\ UNCHANGED <<handle, historyVars>>
     \/ /\ answer[Event] = "denied"
        /\ UsedUp("USER_REJECTED") /\ Return("USER_REJECTED", 0)
        /\ UNCHANGED historyVars
     \/ /\ Approved
        /\ GoTo("redeem") /\ http' = 0
        /\ UNCHANGED <<handle, rc, pushVars, waitVars, historyVars>>
     \/ /\ \E f \in Failures : Return(f[1], f[2])
        /\ disturbed' = TRUE /\ UNCHANGED <<handle, rings>>
  /\ UNCHANGED <<noAuto, tokens, phoneVars, deviceVars>>

NapOf_OneShort(slept) ==
  IF Interval > Timeout - slept THEN Timeout - slept - 1 ELSE Interval
\* The interval is cut to what is left of the timeout
NapOf(slept) ==
  IF Interval > Timeout - slept THEN Timeout - slept ELSE Interval

Sleep ==
  /\ pc = "sleep"
  /\ elapsed' = elapsed + NapOf(elapsed)
  /\ waited' = waited + NapOf(elapsed)
  /\ GoTo("check") /\ http' = 0
  /\ UNCHANGED <<noAuto, handle, rc, tokens, phoneVars, deviceVars, pushVars,
                 historyVars>>

\* The device evaluates the reply: its nonce is spent
Evaluated == redeemed' = [redeemed EXCEPT ![Event] = Bump(@)]

\* POST /api/auth/ext/token: 403 while the clock is unset; a bearer for a reply
\* not seen before; 401 or 406 for one it does not take; or no usable answer
RedeemReply ==
  /\ pc \in {"redeem", "redeem2"}
  /\ \/ /\ rtcSet /\ redeemed[Event] = 0
        /\ Evaluated
        /\ tokens' = [tokens EXCEPT ![handle[call.h].scope] = Event]
        /\ UsedUp("OK") /\ Return("OK", IF pc = "redeem" THEN 0 ELSE 403)
        /\ UNCHANGED historyVars
     \/ /\ ~rtcSet /\ RtcRecoverable
        /\ GoTo("redck") /\ http' = 403
        /\ UNCHANGED <<handle, rc, tokens, redeemed, pushVars, waitVars, historyVars>>
     \/ /\ ~rtcSet /\ ~RtcRecoverable
        /\ UsedUp("SCOPE_DENIED") /\ Return("SCOPE_DENIED", 403)
        /\ UNCHANGED <<tokens, redeemed, historyVars>>
     \/ /\ rtcSet /\ Evaluated
        /\ \E f \in Broken \union {<<"AUTH_FAILED", 401>>, <<"AUTH_FAILED", 406>>} :
             UsedUp(f[1]) /\ Return(f[1], f[2])
        /\ disturbed' = TRUE /\ UNCHANGED <<tokens, rings>>
     \/ /\ \E f \in Failures : UsedUp(f[1]) /\ Return(f[1], f[2])
        /\ disturbed' = TRUE /\ UNCHANGED <<tokens, redeemed, rings>>
  /\ UNCHANGED <<noAuto, phoneVars, rtcSet, off>>

RedeemCheckinDone ==
  /\ pc = "redck"
  /\ \/ /\ Resynced /\ GoTo("redeem2")
        /\ UNCHANGED <<handle, rc, http, pushVars, waitVars, historyVars>>
     \/ /\ CheckinFailed /\ UsedUp("SCOPE_DENIED") /\ Return("SCOPE_DENIED", 403)
        /\ disturbed' = TRUE /\ UNCHANGED rings
  /\ UNCHANGED <<noAuto, tokens, phoneVars, redeemed>>

-----------------------------------------------------------------------------
(* ehem_ext_confirm_cancel and the end of a session: no traffic            *)

Cancel(h) ==
  /\ Idle /\ Held(h)
  /\ handle' = [handle EXCEPT ![h] = Unused]
  /\ UNCHANGED <<noAuto, call, pc, rc, http, tokens, lat, phoneVars, deviceVars,
                 pushVars, waitVars, historyVars>>

\* ehem_logout, and ehem_login or ehem_login_mobile again: the cache is cleared
Logout ==
  /\ Idle
  /\ tokens' = [s \in Scopes |-> 0] /\ rc' = "OK" /\ http' = 0
  /\ UNCHANGED <<noAuto, handle, call, pc, lat, phoneVars, deviceVars, pushVars,
                 waitVars, historyVars>>

-----------------------------------------------------------------------------
(* The phone, the device and time (external)                               *)

Phone(e, a) ==
  /\ answer[e] = "pending"
  /\ answer' = [answer EXCEPT ![e] = a]
  /\ UNCHANGED <<noAuto, handle, call, pc, rc, http, tokens, lat, asked,
                 deviceVars, pushVars, waitVars, historyVars>>

\* Time passes in an exchange, up to its own timeout
Tick ==
  /\ OnWire /\ lat < MaxLatency
  /\ lat' = lat + 1
  /\ age' = IF pc = "push" THEN age + 1 ELSE age
  /\ waited' = IF call.op = "wait" THEN waited + 1 ELSE waited
  /\ UNCHANGED <<noAuto, handle, call, pc, rc, http, tokens, phoneVars,
                 deviceVars, refired, iat, elapsed, historyVars>>

Restart ==
  /\ rtcSet /\ rtcSet' = FALSE
  /\ disturbed' = (disturbed \/ ~Idle)
  /\ UNCHANGED <<noAuto, handle, call, pc, rc, http, tokens, lat, phoneVars,
                 redeemed, off, pushVars, waitVars, rings>>

ClockDrifts(o) ==
  /\ Idle /\ off # o /\ off' = o
  /\ UNCHANGED <<noAuto, handle, call, pc, rc, http, tokens, lat, phoneVars,
                 redeemed, rtcSet, pushVars, waitVars, historyVars>>

-----------------------------------------------------------------------------
Engine ==
  \/ SessionReply \/ RequestReply \/ RequestCheckinDone \/ PushReply
  \/ DriftCheckinDone \/ CheckReply \/ Sleep \/ RedeemReply \/ RedeemCheckinDone

User ==
  \/ \E h \in Handles :
       \/ \E s \in Scopes : Begin(h, s)
       \/ \E op \in {"poll", "wait"} : Poll(op, h)
       \/ Cancel(h)
  \/ Logout

World ==
  \/ \E e \in Events, a \in {"approved", "denied"} : Phone(e, a)
  \/ Tick \/ Restart
  \/ \E o \in Offsets : ClockDrifts(o)

Next == Engine \/ User \/ World

\* Every exchange ends, by its timeout if not by an answer, and every sleep
Spec == Init /\ [][Next]_vars /\ WF_vars(Engine)
-----------------------------------------------------------------------------
(* Properties                                                              *)

\* A cached bearer comes from a push for this very scope that was approved on
\* the phone; through all failures, resumed waits and re-fired pushes no denied
\* or unanswered one ever produces a bearer.
TokenOrigin ==
  \A s \in Scopes : LET e == tokens[s] IN
    e # 0 => asked[e] = s /\ answer[e] = "approved" /\ redeemed[e] = 1

\* The device is asked to evaluate the reply of the phone at most once, however
\* redemption ends: a handle whose redemption failed cannot be polled again.
RedeemedOnce == \A e \in Events : redeemed[e] <= 1

\* One begin rings the phone at most once, although it may fire the push twice.
RingsOnce == rings <= 1

Returned == call # NoCall /\ call' = NoCall

\* A wait that times out has given the phone its full timeout, and the phone
\* had not answered by then: the last poll comes after the last sleep, whatever
\* timeout and interval are.
TimeoutMeansUnanswered ==
  [][Returned /\ rc' = "CONFIRM_TIMEOUT"
       => waited >= Timeout /\ answer[Event] = "pending"]_vars

\* Drift recovery: an undisturbed begin is refused only inside the window of
\* FutureSkew seconds in which the engine has no evidence against the clock.
RefusedOnlyInWindow ==
  [][Returned /\ call.op = "begin" /\ ~disturbed' /\ ~noAuto /\ rc' # "OK"
       => Ahead \in 1..FutureSkew]_vars

\* Every begin, poll and wait returns.
CallsReturn == call # NoCall ~> call = NoCall

Promised == INSTANCE ConfirmPromise WITH
  handle <- [h \in Handles |-> [st |-> handle[h].st, event |-> handle[h].event]]

\* The engine keeps its promise: seen from the application it asks, grants,
\* refuses and drops as ConfirmPromise does, whatever the network does.
KeepsPromise == Promised!Promise
=============================================================================
