--------------------------- MODULE ConfirmProofs ----------------------------
(***************************************************************************)
(* Proofs about ConfirmEngine: its safety invariants, its action           *)
(* properties and that it implements ConfirmPromise, for any number of     *)
(* handles, scopes and pushes and any timeout, interval and skew.          *)
(***************************************************************************)
EXTENDS ConfirmEngine, TLAPS

BeginPcs == {"session", "request", "reqck", "request2", "push", "driftck"}
RedeemPcs == {"redeem", "redck", "redeem2"}
PollPcs == {"check", "sleep"} \union RedeemPcs

\* Where a call is, which call it is, and what an idle context remembers.
CallOK ==
  /\ call = NoCall <=> pc = "idle"
  /\ call.op = "begin" <=> pc \in BeginPcs
  /\ call.op \in {"poll", "wait"} <=> pc \in PollPcs
  /\ pc = "sleep" => call.op = "wait"
  /\ pc = "idle" => refired = FALSE /\ elapsed = 0 /\ waited = 0

\* The handle of a call: free while begin builds it, live while it is polled,
\* its question approved once it is redeemed.
CallHandle ==
  /\ pc \in BeginPcs => handle[call.h].st = "free"
  /\ pc \in PollPcs => handle[call.h].st = "live"
  /\ pc \in RedeemPcs => answer[Event] = "approved"

\* A live handle asked a question of its own, about its scope, whose reply the
\* device has not seen.
LiveOK ==
  \A h \in Handles : handle[h].st = "live" =>
    /\ handle[h].event \in Events
    /\ handle[h].scope \in Scopes
    /\ asked[handle[h].event] = handle[h].scope
    /\ answer[handle[h].event] # "unasked"
    /\ redeemed[handle[h].event] = 0

LiveApart ==
  \A g, h \in Handles :
    /\ handle[g].st = "live"
    /\ handle[h].st = "live"
    /\ handle[g].event = handle[h].event
    => g = h

\* A question nobody asked has no reply to evaluate.
FreshOK == \A e \in Events : answer[e] = "unasked" => redeemed[e] = 0

\* While begin runs it has not rung the phone.
QuietOK == pc \in BeginPcs => rings = 0

\* The time a wait took is at least the time it slept.
WaitOK == call.op = "wait" => waited >= elapsed

\* After a drift check-in the clock is right, and so is the next authreq; what
\* led to that check-in was a refusal.
ClockOK ==
  /\ pc = "driftck" => rc = "AUTH_FAILED"
  /\ refired => off = 0
  /\ pc = "push" /\ refired => iat = 0
  /\ pc = "request2" /\ ~rtcSet => disturbed

IInv ==
  /\ TypeOK /\ CallOK /\ CallHandle /\ LiveOK /\ LiveApart /\ FreshOK
  /\ QuietOK /\ WaitOK /\ ClockOK
  /\ TokenOrigin /\ RedeemedOnce /\ RingsOnce

-----------------------------------------------------------------------------
(* Types                                                                   *)

\* A counter that stops at 2 stays below it.
LEMMA BumpType == \A n \in 0..2 : Bump(n) \in 0..2
  BY DEF Bump

\* The calls there are.
Calls == [op : {"begin"}, h : Handles, scope : Scopes]
           \union [op : {"poll", "wait"}, h : Handles, scope : {NoScope}]
           \union {NoCall}

\* What begin, poll and wait make of a call is one of Calls.
LEMMA CallTypes ==
  /\ \A h \in Handles, s \in Scopes : [op |-> "begin", h |-> h, scope |-> s] \in Calls
  /\ \A h \in Handles, op \in {"poll", "wait"} :
       [op |-> op, h |-> h, scope |-> NoScope] \in Calls
  /\ NoCall \in Calls
  BY DEF Calls

\* The flags, and everything else: the provers like them apart.
FlagType ==
  /\ noAuto \in BOOLEAN /\ refired \in BOOLEAN
  /\ rtcSet \in BOOLEAN /\ disturbed \in BOOLEAN
DataType ==
  /\ handle \in [Handles -> [st : {"free", "live", "done"}, event : 0..MaxEvents,
                             scope : Scopes \union {NoScope}]]
  /\ call \in Calls
  /\ pc \in Pcs /\ elapsed \in 0..Timeout
  /\ rc \in Codes \union {"ARG"} /\ http \in Statuses
  /\ tokens \in [Scopes -> 0..MaxEvents]
  /\ asked \in [Events -> Scopes \union {NoScope}]
  /\ answer \in [Events -> {"unasked", "pending", "approved", "denied"}]
  /\ redeemed \in [Events -> 0..2]
  /\ off \in Offsets /\ iat \in Offsets
  /\ age \in Nat /\ lat \in 0..MaxLatency /\ waited \in Nat
  /\ rings \in 0..2

\* The type invariant in two halves, one for each prover.
LEMMA TypeSplit == TypeOK <=> FlagType /\ DataType
  BY Zenon DEF TypeOK, FlagType, DataType, Calls

\* The variables that a step of a call sets as it goes on or returns.
ProgressType ==
  /\ call \in Calls /\ pc \in Pcs
  /\ rc \in Codes \union {"ARG"} /\ http \in Statuses
  /\ elapsed \in 0..Timeout /\ waited \in Nat /\ lat \in 0..MaxLatency
  /\ iat \in Offsets /\ age \in Nat

\* A return leaves the progress of a call in its types.
LEMMA ReturnType ==
  ASSUME DataType, NEW c \in Codes, NEW st \in Statuses, Return(c, st)
  PROVE  ProgressType'
  BY CallTypes, ConfirmAssumption DEF Return, ProgressType, DataType, Pcs

\* So does a push that failed, whether begin returns or fires again.
LEMMA PushFailedType ==
  ASSUME DataType, NEW c \in Codes, NEW st \in Statuses, PushFailed(c, st)
  PROVE  ProgressType'
<1>1. CASE Return(c, st)
  BY <1>1, ReturnType
<1>2. CASE GoTo("driftck") /\ rc' = c /\ http' = st /\ UNCHANGED <<pushVars, waitVars>>
  BY <1>2, ConfirmAssumption
     DEF GoTo, DataType, ProgressType, Pcs, pushVars, waitVars
<1> QED BY <1>1, <1>2 DEF PushFailed

\* A begin names a handle and a scope, a poll or a wait a handle.
LEMMA CallFields ==
  ASSUME DataType, CallOK
  PROVE  /\ pc \in BeginPcs => call.h \in Handles /\ call.scope \in Scopes
         /\ pc \in PollPcs => call.h \in Handles
         /\ call.scope \in Scopes \union {NoScope}
  BY DEF DataType, CallOK, Calls, NoCall

\* The flags stay Boolean.
LEMMA FlagStep ==
  ASSUME FlagType, [Next]_vars
  PROVE  FlagType'
<1>1. CASE SessionReply
  BY <1>1, Zenon DEF FlagType, SessionReply, GoTo, Return, phoneVars,
     deviceVars, pushVars, waitVars, historyVars
<1>2. CASE RequestReply
  BY <1>2, Zenon DEF FlagType, RequestReply, GoTo, Return, phoneVars,
     deviceVars, pushVars, waitVars, historyVars
<1>3. CASE RequestCheckinDone
  BY <1>3, Zenon DEF FlagType, RequestCheckinDone, Resynced, CheckinFailed,
     GoTo, Return, phoneVars, deviceVars, pushVars, waitVars, historyVars
<1>4. CASE PushReply
  <2>1. ASSUME NEW c, NEW st, PushFailed(c, st)
        PROVE  refired' = refired \/ refired' = FALSE
    BY <2>1, Zenon DEF PushFailed, Return, pushVars
  <2>2. Return("OK", 0) => refired' = FALSE
    BY Zenon DEF Return
  <2>3. refired' = refired \/ refired' = FALSE
    BY <1>4, <2>1, <2>2, Zenon DEF PushReply
  <2>4. disturbed' = disturbed \/ disturbed' = TRUE
    BY <1>4, Zenon DEF PushReply, historyVars
  <2>5. UNCHANGED <<noAuto, rtcSet>>
    BY <1>4, Zenon DEF PushReply, deviceVars
  <2> QED BY <2>3, <2>4, <2>5, Zenon DEF FlagType
<1>5. CASE DriftCheckinDone
  BY <1>5, Zenon DEF FlagType, DriftCheckinDone, Resynced, CheckinFailed,
     GoTo, Return, phoneVars, deviceVars, pushVars, waitVars, historyVars
<1>6. CASE CheckReply
  BY <1>6, Zenon DEF FlagType, CheckReply, GoTo, Return, UsedUp, phoneVars,
     deviceVars, pushVars, waitVars, historyVars
<1>7. CASE Sleep
  BY <1>7, Zenon DEF FlagType, Sleep, GoTo, phoneVars, deviceVars, pushVars,
     waitVars, historyVars
<1>8. CASE RedeemReply
  BY <1>8, Zenon DEF FlagType, RedeemReply, GoTo, Return, UsedUp, Evaluated,
     phoneVars, deviceVars, pushVars, waitVars, historyVars
<1>9. CASE RedeemCheckinDone
  BY <1>9, Zenon DEF FlagType, RedeemCheckinDone, Resynced, CheckinFailed,
     GoTo, Return, UsedUp, phoneVars, deviceVars, pushVars, waitVars,
     historyVars
<1>10. ASSUME NEW h \in Handles, NEW s \in Scopes, Begin(h, s)
       PROVE  FlagType'
  BY <1>10, Zenon DEF FlagType, Begin, phoneVars, deviceVars, pushVars,
     waitVars, historyVars
<1>11. ASSUME NEW h \in Handles, NEW op \in {"poll", "wait"}, Poll(op, h)
       PROVE  FlagType'
  BY <1>11, Zenon DEF FlagType, Poll, phoneVars, deviceVars, pushVars,
     waitVars, historyVars
<1>12. ASSUME NEW h \in Handles, Cancel(h)
       PROVE  FlagType'
  BY <1>12, Zenon DEF FlagType, Cancel, phoneVars, deviceVars, pushVars,
     waitVars, historyVars
<1>13. CASE Logout
  BY <1>13, Zenon DEF FlagType, Logout, phoneVars, deviceVars, pushVars,
     waitVars, historyVars
<1>14. ASSUME NEW e \in Events, NEW a \in {"approved", "denied"}, Phone(e, a)
       PROVE  FlagType'
  BY <1>14, Zenon DEF FlagType, Phone, phoneVars, deviceVars, pushVars,
     waitVars, historyVars
<1>15. CASE Tick
  BY <1>15, Zenon DEF FlagType, Tick, phoneVars, deviceVars, pushVars,
     waitVars, historyVars
<1>16. CASE Restart
  BY <1>16, Zenon DEF FlagType, Restart, phoneVars, deviceVars, pushVars,
     waitVars, historyVars
<1>17. ASSUME NEW o \in Offsets, ClockDrifts(o)
       PROVE  FlagType'
  BY <1>17, Zenon DEF FlagType, ClockDrifts, phoneVars, deviceVars, pushVars,
     waitVars, historyVars
<1>18. CASE UNCHANGED vars
  BY <1>18, Zenon DEF FlagType, vars, phoneVars, deviceVars, pushVars,
     waitVars, historyVars
<1> QED
  BY <1>1, <1>2, <1>3, <1>4, <1>5, <1>6, <1>7, <1>8, <1>9, <1>10, <1>11,
     <1>12, <1>13, <1>14, <1>15, <1>16, <1>17, <1>18 DEF Next, Engine, User,
     World


\* Everything else keeps its type.
LEMMA DataStep ==
  ASSUME DataType, CallOK, [Next]_vars
  PROVE  DataType'
<1>1. CASE SessionReply
  BY <1>1, CallTypes, ConfirmAssumption DEF DataType, SessionReply, GoTo,
     Return, phoneVars, deviceVars, pushVars, waitVars, historyVars, Pcs,
     Codes, Statuses, Failures, Broken, Unused, NapOf
<1>2. CASE RequestReply
  BY <1>2, CallTypes, ConfirmAssumption DEF DataType, RequestReply, GoTo,
     Return, phoneVars, deviceVars, pushVars, waitVars, historyVars, Pcs,
     Codes, Statuses, Failures, Broken, Unused, NapOf
<1>3. CASE RequestCheckinDone
  BY <1>3, CallTypes, ConfirmAssumption DEF DataType, RequestCheckinDone,
     Resynced, CheckinFailed, GoTo, Return, phoneVars, deviceVars, pushVars,
     waitVars, historyVars, Pcs, Codes, Statuses, Failures, Broken, Unused,
     NapOf
<1>4. CASE PushReply
  <2>1. ProgressType'
    <3>1. (\E f \in Failures : PushFailed(f[1], f[2])) => ProgressType'
      BY PushFailedType DEF Failures, Broken, Codes, Statuses
    <3>2. (\E f \in Broken : PushFailed(f[1], f[2])) => ProgressType'
      BY PushFailedType DEF Broken, Codes, Statuses
    <3>3. PushFailed("AUTH_FAILED", 401) => ProgressType'
      BY PushFailedType DEF Codes, Statuses
    <3>4. Return("OK", 0) => ProgressType'
      BY ReturnType DEF Codes, Statuses
    <3> QED BY <1>4, <3>1, <3>2, <3>3, <3>4 DEF PushReply
  <2>2. /\ asked' \in [Events -> Scopes \union {NoScope}]
        /\ answer' \in [Events -> {"unasked", "pending", "approved", "denied"}]
        /\ rings' \in 0..2
    <3>1. ASSUME NEW e \in Events, Delivered(e)
          PROVE  /\ asked' \in [Events -> Scopes \union {NoScope}]
                 /\ answer' \in [Events -> {"unasked", "pending", "approved", "denied"}]
                 /\ rings' \in 0..2
      BY <3>1, BumpType, CallFields DEF Delivered, DataType
    <3> QED BY <1>4, <3>1 DEF PushReply, DataType, phoneVars, historyVars
  <2>3. handle' \in [Handles -> [st : {"free", "live", "done"}, event : 0..MaxEvents,
                                 scope : Scopes \union {NoScope}]]
    <3>1. call.h \in Handles /\ call.scope \in Scopes
      BY <1>4, CallFields DEF PushReply, BeginPcs
    <3>2. \A e \in Events : [handle EXCEPT ![call.h] =
                             [st |-> "live", event |-> e, scope |-> call.scope]]
            \in [Handles -> [st : {"free", "live", "done"}, event : 0..MaxEvents,
                             scope : Scopes \union {NoScope}]]
      BY <3>1, ConfirmAssumption DEF DataType, Events
    <3> QED BY <1>4, <3>2, ZenonT(60) DEF PushReply, DataType
  <2> QED
    BY <1>4, <2>1, <2>2, <2>3 DEF PushReply, DataType, ProgressType, deviceVars
<1>5. CASE DriftCheckinDone
  BY <1>5, CallTypes, ConfirmAssumption DEF DataType, DriftCheckinDone,
     Resynced, CheckinFailed, GoTo, Return, phoneVars, deviceVars, pushVars,
     waitVars, historyVars, Pcs, Codes, Statuses, Failures, Broken, Unused,
     NapOf
<1>6. CASE CheckReply
  BY <1>6, CallTypes, ConfirmAssumption DEF DataType, CheckReply, GoTo,
     Return, UsedUp, phoneVars, deviceVars, pushVars, waitVars, historyVars,
     Pcs, Codes, Statuses, Failures, Broken, Unused, NapOf
<1>7. CASE Sleep
  BY <1>7, CallTypes, ConfirmAssumption DEF DataType, Sleep, GoTo, phoneVars,
     deviceVars, pushVars, waitVars, historyVars, Pcs, Codes, Statuses,
     Failures, Broken, Unused, NapOf
<1>8. CASE RedeemReply
  <2>1. ProgressType'
    <3>1. (\E f \in Failures : UsedUp(f[1]) /\ Return(f[1], f[2])) => ProgressType'
      BY ReturnType DEF Failures, Broken, Codes, Statuses
    <3>2. (\E f \in Broken \union {<<"AUTH_FAILED", 401>>, <<"AUTH_FAILED", 406>>} :
             UsedUp(f[1]) /\ Return(f[1], f[2])) => ProgressType'
      BY ReturnType DEF Broken, Codes, Statuses
    <3>3. Return("OK", IF pc = "redeem" THEN 0 ELSE 403) => ProgressType'
      BY ReturnType DEF Codes, Statuses
    <3>4. Return("SCOPE_DENIED", 403) => ProgressType'
      BY ReturnType DEF Codes, Statuses
    <3>5. GoTo("redck") /\ http' = 403 /\ UNCHANGED <<rc, pushVars, waitVars>>
            => ProgressType'
      BY ConfirmAssumption
         DEF GoTo, DataType, ProgressType, Pcs, Statuses, pushVars, waitVars
    <3> QED BY <1>8, <3>1, <3>2, <3>3, <3>4, <3>5 DEF RedeemReply
  <2>2. redeemed' \in [Events -> 0..2]
    <3>1. \A e \in Events : Bump(redeemed[e]) \in 0..2
      BY BumpType DEF DataType
    <3>2. ASSUME Evaluated
          PROVE  redeemed' \in [Events -> 0..2]
      <4>1. redeemed' = [redeemed EXCEPT ![Event] = Bump(redeemed[Event])]
        BY <3>2 DEF Evaluated
      <4> QED BY <3>1, <4>1 DEF DataType
    <3> QED BY <1>8, <3>2 DEF RedeemReply, DataType
  <2>3. call.h \in Handles /\ pc \in PollPcs
    BY <1>8, CallFields DEF RedeemReply, PollPcs, RedeemPcs
  <2>4. tokens' \in [Scopes -> 0..MaxEvents]
    BY <1>8, <2>3 DEF RedeemReply, DataType, Event
  <2>5. handle' \in [Handles -> [st : {"free", "live", "done"}, event : 0..MaxEvents,
                                 scope : Scopes \union {NoScope}]]
    BY <1>8, <2>3 DEF RedeemReply, UsedUp, DataType
  <2>6. UNCHANGED <<asked, answer, off>> /\ rings' = rings
    BY <1>8 DEF RedeemReply, phoneVars, historyVars
  <2> QED
    BY <2>1, <2>2, <2>4, <2>5, <2>6 DEF DataType, ProgressType
<1>9. CASE RedeemCheckinDone
  BY <1>9, CallTypes, ConfirmAssumption DEF DataType, RedeemCheckinDone,
     Resynced, CheckinFailed, GoTo, Return, UsedUp, phoneVars, deviceVars,
     pushVars, waitVars, historyVars, Pcs, Codes, Statuses, Failures, Broken,
     Unused, NapOf
<1>10. ASSUME NEW h \in Handles, NEW s \in Scopes, Begin(h, s)
       PROVE  DataType'
  BY <1>10, CallTypes, ConfirmAssumption DEF DataType, Begin, phoneVars,
     deviceVars, pushVars, waitVars, historyVars, Pcs, Codes, Statuses,
     Failures, Broken, Unused, NapOf
<1>11. ASSUME NEW h \in Handles, NEW op \in {"poll", "wait"}, Poll(op, h)
       PROVE  DataType'
  <2>1. call' \in Calls
    BY <1>11, CallTypes DEF Poll, DataType
  <2> QED
    BY <1>11, <2>1 DEF DataType, Poll, Pcs, Statuses, phoneVars, deviceVars,
       pushVars, waitVars
<1>12. ASSUME NEW h \in Handles, Cancel(h)
       PROVE  DataType'
  BY <1>12, CallTypes, ConfirmAssumption DEF DataType, Cancel, phoneVars,
     deviceVars, pushVars, waitVars, historyVars, Pcs, Codes, Statuses,
     Failures, Broken, Unused, NapOf
<1>13. CASE Logout
  BY <1>13, CallTypes, ConfirmAssumption DEF DataType, Logout, phoneVars,
     deviceVars, pushVars, waitVars, historyVars, Pcs, Codes, Statuses,
     Failures, Broken, Unused, NapOf
<1>14. ASSUME NEW e \in Events, NEW a \in {"approved", "denied"}, Phone(e, a)
       PROVE  DataType'
  BY <1>14, CallTypes, ConfirmAssumption DEF DataType, Phone, phoneVars,
     deviceVars, pushVars, waitVars, historyVars, Pcs, Codes, Statuses,
     Failures, Broken, Unused, NapOf
<1>15. CASE Tick
  BY <1>15, CallTypes, ConfirmAssumption DEF DataType, Tick, phoneVars,
     deviceVars, pushVars, waitVars, historyVars, Pcs, Codes, Statuses,
     Failures, Broken, Unused, NapOf
<1>16. CASE Restart
  BY <1>16, CallTypes, ConfirmAssumption DEF DataType, Restart, phoneVars,
     deviceVars, pushVars, waitVars, historyVars, Pcs, Codes, Statuses,
     Failures, Broken, Unused, NapOf
<1>17. ASSUME NEW o \in Offsets, ClockDrifts(o)
       PROVE  DataType'
  BY <1>17, CallTypes, ConfirmAssumption DEF DataType, ClockDrifts, phoneVars,
     deviceVars, pushVars, waitVars, historyVars, Pcs, Codes, Statuses,
     Failures, Broken, Unused, NapOf
<1>18. CASE UNCHANGED vars
  BY <1>18, CallTypes, ConfirmAssumption DEF DataType, vars, phoneVars,
     deviceVars, pushVars, waitVars, historyVars, Pcs, Codes, Statuses,
     Failures, Broken, Unused, NapOf
<1> QED
  BY <1>1, <1>2, <1>3, <1>4, <1>5, <1>6, <1>7, <1>8, <1>9, <1>10, <1>11,
     <1>12, <1>13, <1>14, <1>15, <1>16, <1>17, <1>18 DEF Next, Engine, User,
     World

-----------------------------------------------------------------------------
(* Where a call is                                                         *)

\* After a return no call is under way.
LEMMA ReturnCallOK ==
  ASSUME NEW c, NEW st, Return(c, st)
  PROVE  CallOK'
  BY DEF Return, CallOK, NoCall, BeginPcs, PollPcs, RedeemPcs

\* A call is where its operation can be.
LEMMA CallStep ==
  ASSUME DataType, CallOK, [Next]_vars
  PROVE  CallOK'
<1>1. CASE SessionReply
  BY <1>1, ReturnCallOK DEF DataType, CallOK, SessionReply, GoTo, pushVars,
     waitVars, Calls, NoCall, Idle, BeginPcs, PollPcs, RedeemPcs
<1>2. CASE RequestReply
  BY <1>2, ReturnCallOK DEF DataType, CallOK, RequestReply, GoTo, pushVars,
     waitVars, Calls, NoCall, Idle, BeginPcs, PollPcs, RedeemPcs
<1>3. CASE RequestCheckinDone
  BY <1>3, ReturnCallOK DEF DataType, CallOK, RequestCheckinDone, GoTo,
     pushVars, waitVars, Calls, NoCall, Idle, BeginPcs, PollPcs, RedeemPcs
<1>4. CASE PushReply
  BY <1>4, ReturnCallOK DEF DataType, CallOK, PushReply, PushFailed, GoTo,
     pushVars, waitVars, Calls, NoCall, Idle, BeginPcs, PollPcs, RedeemPcs
<1>5. CASE DriftCheckinDone
  BY <1>5, ReturnCallOK DEF DataType, CallOK, DriftCheckinDone, GoTo,
     pushVars, waitVars, Calls, NoCall, Idle, BeginPcs, PollPcs, RedeemPcs
<1>6. CASE CheckReply
  BY <1>6, ReturnCallOK DEF DataType, CallOK, CheckReply, GoTo, pushVars,
     waitVars, Calls, NoCall, Idle, BeginPcs, PollPcs, RedeemPcs
<1>7. CASE Sleep
  BY <1>7, ReturnCallOK DEF DataType, CallOK, Sleep, GoTo, pushVars, waitVars,
     Calls, NoCall, Idle, BeginPcs, PollPcs, RedeemPcs
<1>8. CASE RedeemReply
  BY <1>8, ReturnCallOK, ZenonT(60) DEF DataType, CallOK, RedeemReply, GoTo, pushVars,
     waitVars, Calls, NoCall, Idle, BeginPcs, PollPcs, RedeemPcs
<1>9. CASE RedeemCheckinDone
  BY <1>9, ReturnCallOK DEF DataType, CallOK, RedeemCheckinDone, GoTo,
     pushVars, waitVars, Calls, NoCall, Idle, BeginPcs, PollPcs, RedeemPcs
<1>10. ASSUME NEW h \in Handles, NEW s \in Scopes, Begin(h, s)
       PROVE  CallOK'
  BY <1>10, ReturnCallOK DEF DataType, CallOK, Begin, pushVars, waitVars,
     Calls, NoCall, Idle, BeginPcs, PollPcs, RedeemPcs
<1>11. ASSUME NEW h \in Handles, NEW op \in {"poll", "wait"}, Poll(op, h)
       PROVE  CallOK'
  BY <1>11, ReturnCallOK DEF DataType, CallOK, Poll, pushVars, waitVars,
     Calls, NoCall, Idle, BeginPcs, PollPcs, RedeemPcs
<1>12. ASSUME NEW h \in Handles, Cancel(h)
       PROVE  CallOK'
  BY <1>12, ReturnCallOK DEF DataType, CallOK, Cancel, pushVars, waitVars,
     Calls, NoCall, Idle, BeginPcs, PollPcs, RedeemPcs
<1>13. CASE Logout
  BY <1>13, ReturnCallOK DEF DataType, CallOK, Logout, pushVars, waitVars,
     Calls, NoCall, Idle, BeginPcs, PollPcs, RedeemPcs
<1>14. ASSUME NEW e \in Events, NEW a \in {"approved", "denied"}, Phone(e, a)
       PROVE  CallOK'
  BY <1>14, ReturnCallOK DEF DataType, CallOK, Phone, pushVars, waitVars,
     Calls, NoCall, Idle, BeginPcs, PollPcs, RedeemPcs
<1>15. CASE Tick
  BY <1>15, ReturnCallOK DEF DataType, CallOK, Tick, pushVars, waitVars,
     Calls, NoCall, Idle, BeginPcs, PollPcs, RedeemPcs
<1>16. CASE Restart
  BY <1>16, ReturnCallOK DEF DataType, CallOK, Restart, pushVars, waitVars,
     Calls, NoCall, Idle, BeginPcs, PollPcs, RedeemPcs
<1>17. ASSUME NEW o \in Offsets, ClockDrifts(o)
       PROVE  CallOK'
  BY <1>17, ReturnCallOK DEF DataType, CallOK, ClockDrifts, pushVars,
     waitVars, Calls, NoCall, Idle, BeginPcs, PollPcs, RedeemPcs
<1>18. CASE UNCHANGED vars
  BY <1>18, ReturnCallOK DEF DataType, CallOK, vars, pushVars, waitVars,
     Calls, NoCall, Idle, BeginPcs, PollPcs, RedeemPcs
<1> QED
  BY <1>1, <1>2, <1>3, <1>4, <1>5, <1>6, <1>7, <1>8, <1>9, <1>10, <1>11,
     <1>12, <1>13, <1>14, <1>15, <1>16, <1>17, <1>18 DEF Next, Engine, User,
     World

-----------------------------------------------------------------------------
(* The phone, the wait and the clock                                       *)

\* A push that rang the phone ends begin: only a 401 fires it again, and a
\* refused push does not ring.
LEMMA QuietStep ==
  ASSUME DataType, CallOK, QuietOK, RingsOnce, [Next]_vars
  PROVE  QuietOK' /\ RingsOnce'
<1>1. CASE SessionReply
  BY <1>1 DEF QuietOK, RingsOnce, CallOK, SessionReply, GoTo, Return,
     phoneVars, deviceVars, pushVars, waitVars, historyVars, Calls, NoCall,
     Idle, BeginPcs, PollPcs, RedeemPcs
<1>2. CASE RequestReply
  BY <1>2 DEF QuietOK, RingsOnce, CallOK, RequestReply, GoTo, Return,
     phoneVars, deviceVars, pushVars, waitVars, historyVars, Calls, NoCall,
     Idle, BeginPcs, PollPcs, RedeemPcs
<1>3. CASE RequestCheckinDone
  BY <1>3 DEF QuietOK, RingsOnce, CallOK, RequestCheckinDone, Resynced,
     CheckinFailed, GoTo, Return, phoneVars, deviceVars, pushVars, waitVars,
     historyVars, Calls, NoCall, Idle, BeginPcs, PollPcs, RedeemPcs
<1>4. CASE PushReply
  <2>1. rings = 0 /\ rings' \in {0, 1}
    <3>1. rings = 0
      BY <1>4 DEF PushReply, QuietOK, BeginPcs
    <3>2. ASSUME NEW e \in Events, Delivered(e)
          PROVE  rings' = 1
      BY <3>1, <3>2 DEF Delivered, Bump
    <3> QED BY <1>4, <3>1, <3>2 DEF PushReply, historyVars
  <2>2. pc' \in BeginPcs => rings' = 0
    <3>1. ASSUME \E e \in Events : Delivered(e), \E f \in Broken : PushFailed(f[1], f[2])
          PROVE  pc' = "idle"
      BY <3>1 DEF PushFailed, DriftRecoverable, Return, Broken
    <3>2. Return("OK", 0) => pc' = "idle"
      BY DEF Return
    <3> QED BY <1>4, <2>1, <3>1, <3>2 DEF PushReply, historyVars, BeginPcs
  <2> QED BY <2>1, <2>2 DEF QuietOK, RingsOnce
<1>5. CASE DriftCheckinDone
  BY <1>5 DEF QuietOK, RingsOnce, CallOK, DriftCheckinDone, Resynced,
     CheckinFailed, GoTo, Return, phoneVars, deviceVars, pushVars, waitVars,
     historyVars, Calls, NoCall, Idle, BeginPcs, PollPcs, RedeemPcs
<1>6. CASE CheckReply
  BY <1>6 DEF QuietOK, RingsOnce, CallOK, CheckReply, GoTo, Return, UsedUp,
     phoneVars, deviceVars, pushVars, waitVars, historyVars, Calls, NoCall,
     Idle, BeginPcs, PollPcs, RedeemPcs
<1>7. CASE Sleep
  BY <1>7 DEF QuietOK, RingsOnce, CallOK, Sleep, GoTo, phoneVars, deviceVars,
     pushVars, waitVars, historyVars, Calls, NoCall, Idle, BeginPcs, PollPcs,
     RedeemPcs
<1>8. CASE RedeemReply
  BY <1>8 DEF QuietOK, RingsOnce, CallOK, RedeemReply, GoTo, Return, UsedUp,
     Evaluated, phoneVars, deviceVars, pushVars, waitVars, historyVars, Calls,
     NoCall, Idle, BeginPcs, PollPcs, RedeemPcs
<1>9. CASE RedeemCheckinDone
  BY <1>9 DEF QuietOK, RingsOnce, CallOK, RedeemCheckinDone, Resynced,
     CheckinFailed, GoTo, Return, UsedUp, phoneVars, deviceVars, pushVars,
     waitVars, historyVars, Calls, NoCall, Idle, BeginPcs, PollPcs, RedeemPcs
<1>10. ASSUME NEW h \in Handles, NEW s \in Scopes, Begin(h, s)
       PROVE  QuietOK' /\ RingsOnce'
  BY <1>10 DEF QuietOK, RingsOnce, CallOK, Begin, phoneVars, deviceVars,
     pushVars, waitVars, historyVars, Calls, NoCall, Idle, BeginPcs, PollPcs,
     RedeemPcs
<1>11. ASSUME NEW h \in Handles, NEW op \in {"poll", "wait"}, Poll(op, h)
       PROVE  QuietOK' /\ RingsOnce'
  BY <1>11 DEF QuietOK, RingsOnce, CallOK, Poll, phoneVars, deviceVars,
     pushVars, waitVars, historyVars, Calls, NoCall, Idle, BeginPcs, PollPcs,
     RedeemPcs
<1>12. ASSUME NEW h \in Handles, Cancel(h)
       PROVE  QuietOK' /\ RingsOnce'
  BY <1>12 DEF QuietOK, RingsOnce, CallOK, Cancel, phoneVars, deviceVars,
     pushVars, waitVars, historyVars, Calls, NoCall, Idle, BeginPcs, PollPcs,
     RedeemPcs
<1>13. CASE Logout
  BY <1>13 DEF QuietOK, RingsOnce, CallOK, Logout, phoneVars, deviceVars,
     pushVars, waitVars, historyVars, Calls, NoCall, Idle, BeginPcs, PollPcs,
     RedeemPcs
<1>14. ASSUME NEW e \in Events, NEW a \in {"approved", "denied"}, Phone(e, a)
       PROVE  QuietOK' /\ RingsOnce'
  BY <1>14 DEF QuietOK, RingsOnce, CallOK, Phone, phoneVars, deviceVars,
     pushVars, waitVars, historyVars, Calls, NoCall, Idle, BeginPcs, PollPcs,
     RedeemPcs
<1>15. CASE Tick
  BY <1>15 DEF QuietOK, RingsOnce, CallOK, Tick, phoneVars, deviceVars,
     pushVars, waitVars, historyVars, Calls, NoCall, Idle, BeginPcs, PollPcs,
     RedeemPcs
<1>16. CASE Restart
  BY <1>16 DEF QuietOK, RingsOnce, CallOK, Restart, phoneVars, deviceVars,
     pushVars, waitVars, historyVars, Calls, NoCall, Idle, BeginPcs, PollPcs,
     RedeemPcs
<1>17. ASSUME NEW o \in Offsets, ClockDrifts(o)
       PROVE  QuietOK' /\ RingsOnce'
  BY <1>17 DEF QuietOK, RingsOnce, CallOK, ClockDrifts, phoneVars, deviceVars,
     pushVars, waitVars, historyVars, Calls, NoCall, Idle, BeginPcs, PollPcs,
     RedeemPcs
<1>18. CASE UNCHANGED vars
  BY <1>18 DEF QuietOK, RingsOnce, CallOK, vars, phoneVars, deviceVars,
     pushVars, waitVars, historyVars, Calls, NoCall, Idle, BeginPcs, PollPcs,
     RedeemPcs
<1> QED
  BY <1>1, <1>2, <1>3, <1>4, <1>5, <1>6, <1>7, <1>8, <1>9, <1>10, <1>11,
     <1>12, <1>13, <1>14, <1>15, <1>16, <1>17, <1>18 DEF Next, Engine, User,
     World


\* The clock of a wait runs at least as fast as its sleeps.
LEMMA WaitStep ==
  ASSUME DataType, CallOK, WaitOK, [Next]_vars
  PROVE  WaitOK'
<1>1. CASE SessionReply
  BY <1>1, ConfirmAssumption DEF WaitOK, DataType, CallOK, SessionReply, GoTo,
     Return, phoneVars, deviceVars, pushVars, waitVars, historyVars, Calls,
     NoCall, Idle, BeginPcs, PollPcs, RedeemPcs
<1>2. CASE RequestReply
  BY <1>2, ConfirmAssumption DEF WaitOK, DataType, CallOK, RequestReply, GoTo,
     Return, phoneVars, deviceVars, pushVars, waitVars, historyVars, Calls,
     NoCall, Idle, BeginPcs, PollPcs, RedeemPcs
<1>3. CASE RequestCheckinDone
  BY <1>3, ConfirmAssumption DEF WaitOK, DataType, CallOK, RequestCheckinDone,
     Resynced, CheckinFailed, GoTo, Return, phoneVars, deviceVars, pushVars,
     waitVars, historyVars, Calls, NoCall, Idle, BeginPcs, PollPcs, RedeemPcs
<1>4. CASE PushReply
  BY <1>4, ConfirmAssumption DEF WaitOK, DataType, CallOK, PushReply,
     PushFailed, GoTo, Return, phoneVars, deviceVars, pushVars, waitVars,
     historyVars, Calls, NoCall, Idle, BeginPcs, PollPcs, RedeemPcs
<1>5. CASE DriftCheckinDone
  BY <1>5, ConfirmAssumption DEF WaitOK, DataType, CallOK, DriftCheckinDone,
     Resynced, CheckinFailed, GoTo, Return, phoneVars, deviceVars, pushVars,
     waitVars, historyVars, Calls, NoCall, Idle, BeginPcs, PollPcs, RedeemPcs
<1>6. CASE CheckReply
  BY <1>6, ConfirmAssumption DEF WaitOK, DataType, CallOK, CheckReply, GoTo,
     Return, UsedUp, phoneVars, deviceVars, pushVars, waitVars, historyVars,
     Calls, NoCall, Idle, BeginPcs, PollPcs, RedeemPcs
<1>7. CASE Sleep
  BY <1>7, ConfirmAssumption DEF WaitOK, DataType, CallOK, Sleep, GoTo,
     phoneVars, deviceVars, pushVars, waitVars, historyVars, Calls, NoCall,
     Idle, BeginPcs, PollPcs, RedeemPcs, NapOf
<1>8. CASE RedeemReply
  BY <1>8, ConfirmAssumption DEF WaitOK, DataType, CallOK, RedeemReply, GoTo,
     Return, UsedUp, Evaluated, phoneVars, deviceVars, pushVars, waitVars,
     historyVars, Calls, NoCall, Idle, BeginPcs, PollPcs, RedeemPcs
<1>9. CASE RedeemCheckinDone
  BY <1>9, ConfirmAssumption DEF WaitOK, DataType, CallOK, RedeemCheckinDone,
     Resynced, CheckinFailed, GoTo, Return, UsedUp, phoneVars, deviceVars,
     pushVars, waitVars, historyVars, Calls, NoCall, Idle, BeginPcs, PollPcs,
     RedeemPcs
<1>10. ASSUME NEW h \in Handles, NEW s \in Scopes, Begin(h, s)
       PROVE  WaitOK'
  BY <1>10, ConfirmAssumption DEF WaitOK, DataType, CallOK, Begin, phoneVars,
     deviceVars, pushVars, waitVars, historyVars, Calls, NoCall, Idle,
     BeginPcs, PollPcs, RedeemPcs
<1>11. ASSUME NEW h \in Handles, NEW op \in {"poll", "wait"}, Poll(op, h)
       PROVE  WaitOK'
  BY <1>11, ConfirmAssumption DEF WaitOK, DataType, CallOK, Poll, phoneVars,
     deviceVars, pushVars, waitVars, historyVars, Calls, NoCall, Idle,
     BeginPcs, PollPcs, RedeemPcs
<1>12. ASSUME NEW h \in Handles, Cancel(h)
       PROVE  WaitOK'
  BY <1>12, ConfirmAssumption DEF WaitOK, DataType, CallOK, Cancel, phoneVars,
     deviceVars, pushVars, waitVars, historyVars, Calls, NoCall, Idle,
     BeginPcs, PollPcs, RedeemPcs
<1>13. CASE Logout
  BY <1>13, ConfirmAssumption DEF WaitOK, DataType, CallOK, Logout, phoneVars,
     deviceVars, pushVars, waitVars, historyVars, Calls, NoCall, Idle,
     BeginPcs, PollPcs, RedeemPcs
<1>14. ASSUME NEW e \in Events, NEW a \in {"approved", "denied"}, Phone(e, a)
       PROVE  WaitOK'
  BY <1>14, ConfirmAssumption DEF WaitOK, DataType, CallOK, Phone, phoneVars,
     deviceVars, pushVars, waitVars, historyVars, Calls, NoCall, Idle,
     BeginPcs, PollPcs, RedeemPcs
<1>15. CASE Tick
  BY <1>15, ConfirmAssumption DEF WaitOK, DataType, CallOK, Tick, phoneVars,
     deviceVars, pushVars, waitVars, historyVars, Calls, NoCall, Idle,
     BeginPcs, PollPcs, RedeemPcs
<1>16. CASE Restart
  BY <1>16, ConfirmAssumption DEF WaitOK, DataType, CallOK, Restart,
     phoneVars, deviceVars, pushVars, waitVars, historyVars, Calls, NoCall,
     Idle, BeginPcs, PollPcs, RedeemPcs
<1>17. ASSUME NEW o \in Offsets, ClockDrifts(o)
       PROVE  WaitOK'
  BY <1>17, ConfirmAssumption DEF WaitOK, DataType, CallOK, ClockDrifts,
     phoneVars, deviceVars, pushVars, waitVars, historyVars, Calls, NoCall,
     Idle, BeginPcs, PollPcs, RedeemPcs
<1>18. CASE UNCHANGED vars
  BY <1>18, ConfirmAssumption DEF WaitOK, DataType, CallOK, vars, phoneVars,
     deviceVars, pushVars, waitVars, historyVars, Calls, NoCall, Idle,
     BeginPcs, PollPcs, RedeemPcs
<1> QED
  BY <1>1, <1>2, <1>3, <1>4, <1>5, <1>6, <1>7, <1>8, <1>9, <1>10, <1>11,
     <1>12, <1>13, <1>14, <1>15, <1>16, <1>17, <1>18 DEF Next, Engine, User,
     World


\* A drift check-in sets the clock right for the second push, and only a
\* restart of the device can unset it once a check-in set it.
LEMMA ClockStep ==
  ASSUME FlagType, DataType, CallOK, ClockOK, [Next]_vars
  PROVE  ClockOK'
<1>1. CASE SessionReply
  BY <1>1 DEF ClockOK, FlagType, CallOK, SessionReply, GoTo, Return,
     phoneVars, deviceVars, pushVars, waitVars, historyVars, Calls, NoCall,
     Idle, BeginPcs, PollPcs, RedeemPcs
<1>2. CASE RequestReply
  BY <1>2 DEF ClockOK, FlagType, CallOK, RequestReply, GoTo, Return,
     phoneVars, deviceVars, pushVars, waitVars, historyVars, Calls, NoCall,
     Idle, BeginPcs, PollPcs, RedeemPcs
<1>3. CASE RequestCheckinDone
  BY <1>3 DEF ClockOK, FlagType, CallOK, RequestCheckinDone, Resynced,
     CheckinFailed, GoTo, Return, phoneVars, deviceVars, pushVars, waitVars,
     historyVars, Calls, NoCall, Idle, BeginPcs, PollPcs, RedeemPcs
<1>4. CASE PushReply
  BY <1>4 DEF ClockOK, FlagType, CallOK, PushReply, PushFailed, GoTo, Return,
     phoneVars, deviceVars, pushVars, waitVars, historyVars, Calls, NoCall,
     Idle, BeginPcs, PollPcs, RedeemPcs, DriftRecoverable, Failures, Broken
<1>5. CASE DriftCheckinDone
  BY <1>5 DEF ClockOK, FlagType, CallOK, DriftCheckinDone, Resynced,
     CheckinFailed, GoTo, Return, phoneVars, deviceVars, pushVars, waitVars,
     historyVars, Calls, NoCall, Idle, BeginPcs, PollPcs, RedeemPcs
<1>6. CASE CheckReply
  BY <1>6 DEF ClockOK, FlagType, CallOK, CheckReply, GoTo, Return, UsedUp,
     phoneVars, deviceVars, pushVars, waitVars, historyVars, Calls, NoCall,
     Idle, BeginPcs, PollPcs, RedeemPcs
<1>7. CASE Sleep
  BY <1>7 DEF ClockOK, FlagType, CallOK, Sleep, GoTo, phoneVars, deviceVars,
     pushVars, waitVars, historyVars, Calls, NoCall, Idle, BeginPcs, PollPcs,
     RedeemPcs
<1>8. CASE RedeemReply
  BY <1>8 DEF ClockOK, FlagType, CallOK, RedeemReply, GoTo, Return, UsedUp,
     Evaluated, phoneVars, deviceVars, pushVars, waitVars, historyVars, Calls,
     NoCall, Idle, BeginPcs, PollPcs, RedeemPcs
<1>9. CASE RedeemCheckinDone
  BY <1>9 DEF ClockOK, FlagType, CallOK, RedeemCheckinDone, Resynced,
     CheckinFailed, GoTo, Return, UsedUp, phoneVars, deviceVars, pushVars,
     waitVars, historyVars, Calls, NoCall, Idle, BeginPcs, PollPcs, RedeemPcs
<1>10. ASSUME NEW h \in Handles, NEW s \in Scopes, Begin(h, s)
       PROVE  ClockOK'
  BY <1>10 DEF ClockOK, FlagType, CallOK, Begin, phoneVars, deviceVars,
     pushVars, waitVars, historyVars, Calls, NoCall, Idle, BeginPcs, PollPcs,
     RedeemPcs
<1>11. ASSUME NEW h \in Handles, NEW op \in {"poll", "wait"}, Poll(op, h)
       PROVE  ClockOK'
  BY <1>11 DEF ClockOK, FlagType, CallOK, Poll, phoneVars, deviceVars,
     pushVars, waitVars, historyVars, Calls, NoCall, Idle, BeginPcs, PollPcs,
     RedeemPcs
<1>12. ASSUME NEW h \in Handles, Cancel(h)
       PROVE  ClockOK'
  BY <1>12 DEF ClockOK, FlagType, CallOK, Cancel, phoneVars, deviceVars,
     pushVars, waitVars, historyVars, Calls, NoCall, Idle, BeginPcs, PollPcs,
     RedeemPcs
<1>13. CASE Logout
  BY <1>13 DEF ClockOK, FlagType, CallOK, Logout, phoneVars, deviceVars,
     pushVars, waitVars, historyVars, Calls, NoCall, Idle, BeginPcs, PollPcs,
     RedeemPcs
<1>14. ASSUME NEW e \in Events, NEW a \in {"approved", "denied"}, Phone(e, a)
       PROVE  ClockOK'
  BY <1>14 DEF ClockOK, FlagType, CallOK, Phone, phoneVars, deviceVars,
     pushVars, waitVars, historyVars, Calls, NoCall, Idle, BeginPcs, PollPcs,
     RedeemPcs
<1>15. CASE Tick
  BY <1>15 DEF ClockOK, FlagType, CallOK, Tick, phoneVars, deviceVars,
     pushVars, waitVars, historyVars, Calls, NoCall, Idle, BeginPcs, PollPcs,
     RedeemPcs
<1>16. CASE Restart
  BY <1>16 DEF ClockOK, FlagType, CallOK, Restart, phoneVars, deviceVars,
     pushVars, waitVars, historyVars, Calls, NoCall, Idle, BeginPcs, PollPcs,
     RedeemPcs
<1>17. ASSUME NEW o \in Offsets, ClockDrifts(o)
       PROVE  ClockOK'
  BY <1>17 DEF ClockOK, FlagType, CallOK, ClockDrifts, phoneVars, deviceVars,
     pushVars, waitVars, historyVars, Calls, NoCall, Idle, BeginPcs, PollPcs,
     RedeemPcs
<1>18. CASE UNCHANGED vars
  BY <1>18 DEF ClockOK, FlagType, CallOK, vars, phoneVars, deviceVars,
     pushVars, waitVars, historyVars, Calls, NoCall, Idle, BeginPcs, PollPcs,
     RedeemPcs
<1> QED
  BY <1>1, <1>2, <1>3, <1>4, <1>5, <1>6, <1>7, <1>8, <1>9, <1>10, <1>11,
     <1>12, <1>13, <1>14, <1>15, <1>16, <1>17, <1>18 DEF Next, Engine, User,
     World

-----------------------------------------------------------------------------
(* Handles and tokens                                                      *)

\* What a delivered push does to the questions.
LEMMA DeliveredFresh ==
  ASSUME DataType, NEW e \in Events, Delivered(e)
  PROVE  /\ answer[e] = "unasked" /\ answer'[e] = "pending" /\ asked'[e] = call.scope
         /\ \A d \in Events \ {e} : answer'[d] = answer[d] /\ asked'[d] = asked[d]
  BY DEF DataType, Delivered

\* A call used its handle up.
LEMMA UsedUpEffect ==
  ASSUME DataType, call.h \in Handles, NEW c, UsedUp(c)
  PROVE  /\ handle'[call.h].st = "done"
         /\ \A g \in Handles \ {call.h} : handle'[g] = handle[g]
  BY DEF DataType, UsedUp

\* What redemption is about: a live handle and its approved question.
LEMMA RedeemContext ==
  ASSUME DataType, CallOK, CallHandle, LiveOK, RedeemReply
  PROVE  /\ call.h \in Handles /\ handle[call.h].st = "live"
         /\ Event \in Events /\ handle[call.h].scope \in Scopes
         /\ asked[Event] = handle[call.h].scope
         /\ answer[Event] = "approved" /\ redeemed[Event] = 0
<1>1. pc \in RedeemPcs /\ pc \in PollPcs
  BY DEF RedeemReply, RedeemPcs, PollPcs
<1>2. call.h \in Handles /\ handle[call.h].st = "live" /\ answer[Event] = "approved"
  BY <1>1, CallFields DEF CallHandle
<1> QED BY <1>2 DEF LiveOK, Event

\* The device evaluated the reply to one question.
LEMMA EvaluatedEffect ==
  ASSUME DataType
  PROVE  /\ Evaluated => \A e \in Events \ {Event} : redeemed'[e] = redeemed[e]
         /\ Evaluated /\ Event \in Events /\ redeemed[Event] = 0 => redeemed'[Event] = 1
<1>1. Evaluated => redeemed' = [redeemed EXCEPT ![Event] = Bump(redeemed[Event])]
  BY DEF Evaluated
<1>2. Bump(0) = 1
  BY DEF Bump
<1> QED BY <1>1, <1>2 DEF DataType

\* The handle of a call stays what the call needs.
LEMMA CallHandleStep ==
  ASSUME DataType, CallOK, CallHandle, [Next]_vars
  PROVE  CallHandle'
<1>1. CASE SessionReply
  BY <1>1, CallFields DEF CallHandle, DataType, CallOK, SessionReply, GoTo,
     Return, phoneVars, deviceVars, pushVars, waitVars, historyVars, Event,
     NoCall, Idle, BeginPcs, PollPcs, RedeemPcs
<1>2. CASE RequestReply
  BY <1>2, CallFields DEF CallHandle, DataType, CallOK, RequestReply, GoTo,
     Return, phoneVars, deviceVars, pushVars, waitVars, historyVars, Event,
     NoCall, Idle, BeginPcs, PollPcs, RedeemPcs
<1>3. CASE RequestCheckinDone
  BY <1>3, CallFields DEF CallHandle, DataType, CallOK, RequestCheckinDone,
     Resynced, CheckinFailed, GoTo, Return, phoneVars, deviceVars, pushVars,
     waitVars, historyVars, Event, NoCall, Idle, BeginPcs, PollPcs, RedeemPcs
<1>4. CASE PushReply
  BY <1>4, CallFields DEF CallHandle, DataType, CallOK, PushReply, PushFailed,
     GoTo, Return, phoneVars, deviceVars, pushVars, waitVars, historyVars,
     Event, NoCall, Idle, BeginPcs, PollPcs, RedeemPcs
<1>5. CASE DriftCheckinDone
  BY <1>5, CallFields DEF CallHandle, DataType, CallOK, DriftCheckinDone,
     Resynced, CheckinFailed, GoTo, Return, phoneVars, deviceVars, pushVars,
     waitVars, historyVars, Event, NoCall, Idle, BeginPcs, PollPcs, RedeemPcs
<1>6. CASE CheckReply
  BY <1>6, CallFields DEF CallHandle, DataType, CallOK, CheckReply, GoTo,
     Return, UsedUp, phoneVars, deviceVars, pushVars, waitVars, historyVars,
     Event, NoCall, Idle, BeginPcs, PollPcs, RedeemPcs, Approved
<1>7. CASE Sleep
  BY <1>7, CallFields DEF CallHandle, DataType, CallOK, Sleep, GoTo,
     phoneVars, deviceVars, pushVars, waitVars, historyVars, Event, NoCall,
     Idle, BeginPcs, PollPcs, RedeemPcs
<1>8. CASE RedeemReply
  BY <1>8, CallFields DEF CallHandle, DataType, CallOK, RedeemReply, GoTo,
     Return, UsedUp, Evaluated, phoneVars, deviceVars, pushVars, waitVars,
     historyVars, Event, NoCall, Idle, BeginPcs, PollPcs, RedeemPcs
<1>9. CASE RedeemCheckinDone
  BY <1>9, CallFields DEF CallHandle, DataType, CallOK, RedeemCheckinDone,
     Resynced, CheckinFailed, GoTo, Return, UsedUp, phoneVars, deviceVars,
     pushVars, waitVars, historyVars, Event, NoCall, Idle, BeginPcs, PollPcs,
     RedeemPcs
<1>10. ASSUME NEW h \in Handles, NEW s \in Scopes, Begin(h, s)
       PROVE  CallHandle'
  BY <1>10, CallFields DEF CallHandle, DataType, CallOK, Begin, phoneVars,
     deviceVars, pushVars, waitVars, historyVars, Event, NoCall, Idle,
     BeginPcs, PollPcs, RedeemPcs, Held
<1>11. ASSUME NEW h \in Handles, NEW op \in {"poll", "wait"}, Poll(op, h)
       PROVE  CallHandle'
  BY <1>11, CallFields DEF CallHandle, DataType, CallOK, Poll, phoneVars,
     deviceVars, pushVars, waitVars, historyVars, Event, NoCall, Idle,
     BeginPcs, PollPcs, RedeemPcs, Held
<1>12. ASSUME NEW h \in Handles, Cancel(h)
       PROVE  CallHandle'
  BY <1>12, CallFields DEF CallHandle, DataType, CallOK, Cancel, phoneVars,
     deviceVars, pushVars, waitVars, historyVars, Event, NoCall, Idle,
     BeginPcs, PollPcs, RedeemPcs
<1>13. CASE Logout
  BY <1>13, CallFields DEF CallHandle, DataType, CallOK, Logout, phoneVars,
     deviceVars, pushVars, waitVars, historyVars, Event, NoCall, Idle,
     BeginPcs, PollPcs, RedeemPcs
<1>14. ASSUME NEW e \in Events, NEW a \in {"approved", "denied"}, Phone(e, a)
       PROVE  CallHandle'
  BY <1>14, CallFields DEF CallHandle, DataType, CallOK, Phone, phoneVars,
     deviceVars, pushVars, waitVars, historyVars, Event, NoCall, Idle,
     BeginPcs, PollPcs, RedeemPcs
<1>15. CASE Tick
  BY <1>15, CallFields DEF CallHandle, DataType, CallOK, Tick, phoneVars,
     deviceVars, pushVars, waitVars, historyVars, Event, NoCall, Idle,
     BeginPcs, PollPcs, RedeemPcs
<1>16. CASE Restart
  BY <1>16, CallFields DEF CallHandle, DataType, CallOK, Restart, phoneVars,
     deviceVars, pushVars, waitVars, historyVars, Event, NoCall, Idle,
     BeginPcs, PollPcs, RedeemPcs
<1>17. ASSUME NEW o \in Offsets, ClockDrifts(o)
       PROVE  CallHandle'
  BY <1>17, CallFields DEF CallHandle, DataType, CallOK, ClockDrifts,
     phoneVars, deviceVars, pushVars, waitVars, historyVars, Event, NoCall,
     Idle, BeginPcs, PollPcs, RedeemPcs
<1>18. CASE UNCHANGED vars
  BY <1>18, CallFields DEF CallHandle, DataType, CallOK, vars, phoneVars,
     deviceVars, pushVars, waitVars, historyVars, Event, NoCall, Idle,
     BeginPcs, PollPcs, RedeemPcs
<1> QED
  BY <1>1, <1>2, <1>3, <1>4, <1>5, <1>6, <1>7, <1>8, <1>9, <1>10, <1>11,
     <1>12, <1>13, <1>14, <1>15, <1>16, <1>17, <1>18 DEF Next, Engine, User,
     World


\* Live handles keep questions of their own, unseen by the device.
LEMMA LiveStep ==
  ASSUME DataType, CallOK, CallHandle, LiveOK, LiveApart, FreshOK, [Next]_vars
  PROVE  LiveOK' /\ LiveApart' /\ FreshOK'
<1>1. CASE SessionReply
  BY <1>1, CallFields DEF CallHandle, LiveOK, LiveApart, FreshOK, DataType,
     SessionReply, GoTo, Return, phoneVars, deviceVars, pushVars, waitVars,
     historyVars, Event, NoCall, Idle, BeginPcs, PollPcs, RedeemPcs
<1>2. CASE RequestReply
  BY <1>2, CallFields DEF CallHandle, LiveOK, LiveApart, FreshOK, DataType,
     RequestReply, GoTo, Return, phoneVars, deviceVars, pushVars, waitVars,
     historyVars, Event, NoCall, Idle, BeginPcs, PollPcs, RedeemPcs
<1>3. CASE RequestCheckinDone
  BY <1>3, CallFields DEF CallHandle, LiveOK, LiveApart, FreshOK, DataType,
     RequestCheckinDone, Resynced, CheckinFailed, GoTo, Return, phoneVars,
     deviceVars, pushVars, waitVars, historyVars, Event, NoCall, Idle,
     BeginPcs, PollPcs, RedeemPcs
<1>4. CASE PushReply
  <2>1. /\ call.h \in Handles /\ call.scope \in Scopes
        /\ handle[call.h].st = "free"
    BY <1>4, CallFields DEF PushReply, CallHandle, BeginPcs
  <2>2. redeemed' = redeemed
    BY <1>4 DEF PushReply, deviceVars
  <2>3. ASSUME NEW e \in Events, Delivered(e),
               handle' = handle \/
               handle' = [handle EXCEPT ![call.h] =
                            [st |-> "live", event |-> e, scope |-> call.scope]]
        PROVE  LiveOK' /\ LiveApart' /\ FreshOK'
    <3>1. FreshOK'
      BY <2>2, <2>3, DeliveredFresh DEF FreshOK
    <3>2. LiveOK'
      BY <2>1, <2>2, <2>3, DeliveredFresh DEF LiveOK, FreshOK, DataType
    <3>3. LiveApart'
      BY <2>1, <2>3, DeliveredFresh DEF LiveOK, LiveApart, DataType
    <3> QED BY <3>1, <3>2, <3>3
  <2>4. ASSUME UNCHANGED <<handle, phoneVars>>
        PROVE  LiveOK' /\ LiveApart' /\ FreshOK'
    BY <2>2, <2>4 DEF phoneVars, LiveOK, LiveApart, FreshOK
  <2> QED BY <1>4, <2>3, <2>4 DEF PushReply
<1>5. CASE DriftCheckinDone
  BY <1>5, CallFields DEF CallHandle, LiveOK, LiveApart, FreshOK, DataType,
     DriftCheckinDone, Resynced, CheckinFailed, GoTo, Return, phoneVars,
     deviceVars, pushVars, waitVars, historyVars, Event, NoCall, Idle,
     BeginPcs, PollPcs, RedeemPcs
<1>6. CASE CheckReply
  BY <1>6, CallFields DEF CallHandle, LiveOK, LiveApart, FreshOK, DataType,
     CheckReply, GoTo, Return, UsedUp, phoneVars, deviceVars, pushVars,
     waitVars, historyVars, Event, NoCall, Idle, BeginPcs, PollPcs, RedeemPcs
<1>7. CASE Sleep
  BY <1>7, CallFields DEF CallHandle, LiveOK, LiveApart, FreshOK, DataType,
     Sleep, GoTo, phoneVars, deviceVars, pushVars, waitVars, historyVars,
     Event, NoCall, Idle, BeginPcs, PollPcs, RedeemPcs
<1>8. CASE RedeemReply
  <2>1. UNCHANGED <<asked, answer>>
    BY <1>8 DEF RedeemReply, phoneVars
  <2>2. CASE UNCHANGED <<handle, redeemed>>
    BY <2>1, <2>2 DEF LiveOK, LiveApart, FreshOK
  <2>3. ASSUME NEW c, UsedUp(c), redeemed' = redeemed \/ Evaluated
        PROVE  LiveOK' /\ LiveApart' /\ FreshOK'
    <3>1. /\ handle'[call.h].st = "done"
          /\ \A g \in Handles \ {call.h} : handle'[g] = handle[g]
      BY <1>8, <2>3, RedeemContext, UsedUpEffect
    <3>2. \A e \in Events \ {Event} : redeemed'[e] = redeemed[e]
      BY <2>3, EvaluatedEffect
    <3>3. FreshOK'
      BY <1>8, <2>1, <3>2, RedeemContext DEF FreshOK
    <3>4. LiveOK'
      BY <1>8, <2>1, <3>1, <3>2, RedeemContext DEF LiveOK, LiveApart, Event
    <3>5. LiveApart'
      BY <3>1 DEF LiveApart
    <3> QED BY <3>3, <3>4, <3>5
  <2> QED BY <1>8, <2>2, <2>3 DEF RedeemReply
<1>9. CASE RedeemCheckinDone
  BY <1>9, CallFields DEF CallHandle, LiveOK, LiveApart, FreshOK, DataType,
     RedeemCheckinDone, Resynced, CheckinFailed, GoTo, Return, UsedUp,
     phoneVars, deviceVars, pushVars, waitVars, historyVars, Event, NoCall,
     Idle, BeginPcs, PollPcs, RedeemPcs
<1>10. ASSUME NEW h \in Handles, NEW s \in Scopes, Begin(h, s)
       PROVE  LiveOK' /\ LiveApart' /\ FreshOK'
  BY <1>10, CallFields DEF CallHandle, LiveOK, LiveApart, FreshOK, DataType,
     Begin, phoneVars, deviceVars, pushVars, waitVars, historyVars, Event,
     NoCall, Idle, BeginPcs, PollPcs, RedeemPcs
<1>11. ASSUME NEW h \in Handles, NEW op \in {"poll", "wait"}, Poll(op, h)
       PROVE  LiveOK' /\ LiveApart' /\ FreshOK'
  BY <1>11, CallFields DEF CallHandle, LiveOK, LiveApart, FreshOK, DataType,
     Poll, phoneVars, deviceVars, pushVars, waitVars, historyVars, Event,
     NoCall, Idle, BeginPcs, PollPcs, RedeemPcs
<1>12. ASSUME NEW h \in Handles, Cancel(h)
       PROVE  LiveOK' /\ LiveApart' /\ FreshOK'
  <2>1. UNCHANGED <<asked, answer, redeemed>>
    BY <1>12 DEF Cancel, phoneVars, deviceVars
  <2>2. /\ handle'[h].st = "free"
        /\ \A g \in Handles \ {h} : handle'[g] = handle[g]
    BY <1>12 DEF Cancel, Unused, DataType
  <2> QED BY <2>1, <2>2 DEF LiveOK, LiveApart, FreshOK
<1>13. CASE Logout
  BY <1>13, CallFields DEF CallHandle, LiveOK, LiveApart, FreshOK, DataType,
     Logout, phoneVars, deviceVars, pushVars, waitVars, historyVars, Event,
     NoCall, Idle, BeginPcs, PollPcs, RedeemPcs
<1>14. ASSUME NEW e \in Events, NEW a \in {"approved", "denied"}, Phone(e, a)
       PROVE  LiveOK' /\ LiveApart' /\ FreshOK'
  BY <1>14, CallFields DEF CallHandle, LiveOK, LiveApart, FreshOK, DataType,
     Phone, phoneVars, deviceVars, pushVars, waitVars, historyVars, Event,
     NoCall, Idle, BeginPcs, PollPcs, RedeemPcs
<1>15. CASE Tick
  BY <1>15, CallFields DEF CallHandle, LiveOK, LiveApart, FreshOK, DataType,
     Tick, phoneVars, deviceVars, pushVars, waitVars, historyVars, Event,
     NoCall, Idle, BeginPcs, PollPcs, RedeemPcs
<1>16. CASE Restart
  BY <1>16, CallFields DEF CallHandle, LiveOK, LiveApart, FreshOK, DataType,
     Restart, phoneVars, deviceVars, pushVars, waitVars, historyVars, Event,
     NoCall, Idle, BeginPcs, PollPcs, RedeemPcs
<1>17. ASSUME NEW o \in Offsets, ClockDrifts(o)
       PROVE  LiveOK' /\ LiveApart' /\ FreshOK'
  BY <1>17, CallFields DEF CallHandle, LiveOK, LiveApart, FreshOK, DataType,
     ClockDrifts, phoneVars, deviceVars, pushVars, waitVars, historyVars,
     Event, NoCall, Idle, BeginPcs, PollPcs, RedeemPcs
<1>18. CASE UNCHANGED vars
  BY <1>18, CallFields DEF CallHandle, LiveOK, LiveApart, FreshOK, DataType,
     vars, phoneVars, deviceVars, pushVars, waitVars, historyVars, Event,
     NoCall, Idle, BeginPcs, PollPcs, RedeemPcs
<1> QED
  BY <1>1, <1>2, <1>3, <1>4, <1>5, <1>6, <1>7, <1>8, <1>9, <1>10, <1>11,
     <1>12, <1>13, <1>14, <1>15, <1>16, <1>17, <1>18 DEF Next, Engine, User,
     World


\* A token comes from an approved question the device evaluated once.
LEMMA TokenStep ==
  ASSUME DataType, CallOK, CallHandle, LiveOK, LiveApart, FreshOK, TokenOrigin, RedeemedOnce, [Next]_vars
  PROVE  TokenOrigin' /\ RedeemedOnce'
<1>1. CASE SessionReply
  BY <1>1, CallFields DEF TokenOrigin, RedeemedOnce, CallHandle, LiveOK,
     LiveApart, FreshOK, DataType, SessionReply, GoTo, Return, phoneVars,
     deviceVars, pushVars, waitVars, historyVars, Event, NoCall, Idle,
     BeginPcs, PollPcs, RedeemPcs
<1>2. CASE RequestReply
  BY <1>2, CallFields DEF TokenOrigin, RedeemedOnce, CallHandle, LiveOK,
     LiveApart, FreshOK, DataType, RequestReply, GoTo, Return, phoneVars,
     deviceVars, pushVars, waitVars, historyVars, Event, NoCall, Idle,
     BeginPcs, PollPcs, RedeemPcs
<1>3. CASE RequestCheckinDone
  BY <1>3, CallFields DEF TokenOrigin, RedeemedOnce, CallHandle, LiveOK,
     LiveApart, FreshOK, DataType, RequestCheckinDone, Resynced,
     CheckinFailed, GoTo, Return, phoneVars, deviceVars, pushVars, waitVars,
     historyVars, Event, NoCall, Idle, BeginPcs, PollPcs, RedeemPcs
<1>4. CASE PushReply
  <2>1. UNCHANGED <<tokens, redeemed>>
    BY <1>4 DEF PushReply, deviceVars
  <2>2. ASSUME NEW e \in Events, Delivered(e)
        PROVE  TokenOrigin'
    BY <2>1, <2>2, DeliveredFresh DEF TokenOrigin, DataType, Events
  <2>3. ASSUME UNCHANGED phoneVars
        PROVE  TokenOrigin'
    BY <2>1, <2>3 DEF TokenOrigin, phoneVars
  <2>4. RedeemedOnce'
    BY <2>1 DEF RedeemedOnce
  <2> QED BY <1>4, <2>2, <2>3, <2>4 DEF PushReply
<1>5. CASE DriftCheckinDone
  BY <1>5, CallFields DEF TokenOrigin, RedeemedOnce, CallHandle, LiveOK,
     LiveApart, FreshOK, DataType, DriftCheckinDone, Resynced, CheckinFailed,
     GoTo, Return, phoneVars, deviceVars, pushVars, waitVars, historyVars,
     Event, NoCall, Idle, BeginPcs, PollPcs, RedeemPcs
<1>6. CASE CheckReply
  BY <1>6, CallFields DEF TokenOrigin, RedeemedOnce, CallHandle, LiveOK,
     LiveApart, FreshOK, DataType, CheckReply, GoTo, Return, UsedUp,
     phoneVars, deviceVars, pushVars, waitVars, historyVars, Event, NoCall,
     Idle, BeginPcs, PollPcs, RedeemPcs
<1>7. CASE Sleep
  BY <1>7, CallFields DEF TokenOrigin, RedeemedOnce, CallHandle, LiveOK,
     LiveApart, FreshOK, DataType, Sleep, GoTo, phoneVars, deviceVars,
     pushVars, waitVars, historyVars, Event, NoCall, Idle, BeginPcs, PollPcs,
     RedeemPcs
<1>8. CASE RedeemReply
  <2>1. UNCHANGED <<asked, answer>>
    BY <1>8 DEF RedeemReply, phoneVars
  <2>2. CASE UNCHANGED <<tokens, redeemed>>
    BY <2>1, <2>2 DEF TokenOrigin, RedeemedOnce
  <2>3. ASSUME Evaluated,
               tokens' = tokens \/
               tokens' = [tokens EXCEPT ![handle[call.h].scope] = Event]
        PROVE  TokenOrigin' /\ RedeemedOnce'
    <3>1. redeemed'[Event] = 1
      BY <1>8, <2>3, RedeemContext, EvaluatedEffect
    <3>2. \A e \in Events \ {Event} : redeemed'[e] = redeemed[e]
      BY <2>3, EvaluatedEffect
    <3>3. \A s \in Scopes : tokens'[s] = tokens[s] \/ (tokens'[s] = Event /\ asked[Event] = s)
      BY <1>8, <2>3, RedeemContext DEF DataType
    <3>4. TokenOrigin'
      BY <1>8, <2>1, <3>1, <3>2, <3>3, RedeemContext DEF TokenOrigin, DataType, Events
    <3>5. RedeemedOnce'
      BY <3>1, <3>2 DEF RedeemedOnce
    <3> QED BY <3>4, <3>5
  <2> QED BY <1>8, <2>2, <2>3 DEF RedeemReply
<1>9. CASE RedeemCheckinDone
  BY <1>9, CallFields DEF TokenOrigin, RedeemedOnce, CallHandle, LiveOK,
     LiveApart, FreshOK, DataType, RedeemCheckinDone, Resynced, CheckinFailed,
     GoTo, Return, UsedUp, phoneVars, deviceVars, pushVars, waitVars,
     historyVars, Event, NoCall, Idle, BeginPcs, PollPcs, RedeemPcs
<1>10. ASSUME NEW h \in Handles, NEW s \in Scopes, Begin(h, s)
       PROVE  TokenOrigin' /\ RedeemedOnce'
  BY <1>10, CallFields DEF TokenOrigin, RedeemedOnce, CallHandle, LiveOK,
     LiveApart, FreshOK, DataType, Begin, phoneVars, deviceVars, pushVars,
     waitVars, historyVars, Event, NoCall, Idle, BeginPcs, PollPcs, RedeemPcs
<1>11. ASSUME NEW h \in Handles, NEW op \in {"poll", "wait"}, Poll(op, h)
       PROVE  TokenOrigin' /\ RedeemedOnce'
  BY <1>11, CallFields DEF TokenOrigin, RedeemedOnce, CallHandle, LiveOK,
     LiveApart, FreshOK, DataType, Poll, phoneVars, deviceVars, pushVars,
     waitVars, historyVars, Event, NoCall, Idle, BeginPcs, PollPcs, RedeemPcs
<1>12. ASSUME NEW h \in Handles, Cancel(h)
       PROVE  TokenOrigin' /\ RedeemedOnce'
  BY <1>12, CallFields DEF TokenOrigin, RedeemedOnce, CallHandle, LiveOK,
     LiveApart, FreshOK, DataType, Cancel, phoneVars, deviceVars, pushVars,
     waitVars, historyVars, Event, NoCall, Idle, BeginPcs, PollPcs, RedeemPcs
<1>13. CASE Logout
  BY <1>13, CallFields DEF TokenOrigin, RedeemedOnce, CallHandle, LiveOK,
     LiveApart, FreshOK, DataType, Logout, phoneVars, deviceVars, pushVars,
     waitVars, historyVars, Event, NoCall, Idle, BeginPcs, PollPcs, RedeemPcs
<1>14. ASSUME NEW e \in Events, NEW a \in {"approved", "denied"}, Phone(e, a)
       PROVE  TokenOrigin' /\ RedeemedOnce'
  BY <1>14, CallFields DEF TokenOrigin, RedeemedOnce, CallHandle, LiveOK,
     LiveApart, FreshOK, DataType, Phone, phoneVars, deviceVars, pushVars,
     waitVars, historyVars, Event, NoCall, Idle, BeginPcs, PollPcs, RedeemPcs
<1>15. CASE Tick
  BY <1>15, CallFields DEF TokenOrigin, RedeemedOnce, CallHandle, LiveOK,
     LiveApart, FreshOK, DataType, Tick, phoneVars, deviceVars, pushVars,
     waitVars, historyVars, Event, NoCall, Idle, BeginPcs, PollPcs, RedeemPcs
<1>16. CASE Restart
  BY <1>16, CallFields DEF TokenOrigin, RedeemedOnce, CallHandle, LiveOK,
     LiveApart, FreshOK, DataType, Restart, phoneVars, deviceVars, pushVars,
     waitVars, historyVars, Event, NoCall, Idle, BeginPcs, PollPcs, RedeemPcs
<1>17. ASSUME NEW o \in Offsets, ClockDrifts(o)
       PROVE  TokenOrigin' /\ RedeemedOnce'
  BY <1>17, CallFields DEF TokenOrigin, RedeemedOnce, CallHandle, LiveOK,
     LiveApart, FreshOK, DataType, ClockDrifts, phoneVars, deviceVars,
     pushVars, waitVars, historyVars, Event, NoCall, Idle, BeginPcs, PollPcs,
     RedeemPcs
<1>18. CASE UNCHANGED vars
  BY <1>18, CallFields DEF TokenOrigin, RedeemedOnce, CallHandle, LiveOK,
     LiveApart, FreshOK, DataType, vars, phoneVars, deviceVars, pushVars,
     waitVars, historyVars, Event, NoCall, Idle, BeginPcs, PollPcs, RedeemPcs
<1> QED
  BY <1>1, <1>2, <1>3, <1>4, <1>5, <1>6, <1>7, <1>8, <1>9, <1>10, <1>11,
     <1>12, <1>13, <1>14, <1>15, <1>16, <1>17, <1>18 DEF Next, Engine, User,
     World

-----------------------------------------------------------------------------
(* The inductive invariant                                                 *)

\* At the start nothing was asked, answered or redeemed.
LEMMA InitIInv == Init => IInv
<1> SUFFICES ASSUME Init
             PROVE  IInv
  OBVIOUS
<1>1. FlagType
  BY Zenon DEF Init, FlagType
<1>2. DataType
  BY CallTypes, ConfirmAssumption DEF Init, DataType, Pcs, Codes, Statuses, Unused
<1>3. CallOK /\ CallHandle
  BY DEF Init, CallOK, CallHandle, NoCall, BeginPcs, PollPcs, RedeemPcs
<1>4. LiveOK /\ LiveApart /\ FreshOK
  BY DEF Init, LiveOK, LiveApart, FreshOK, Unused
<1>5. QuietOK /\ WaitOK /\ ClockOK
  BY DEF Init, QuietOK, WaitOK, ClockOK, NoCall
<1>6. TokenOrigin /\ RedeemedOnce /\ RingsOnce
  BY DEF Init, TokenOrigin, RedeemedOnce, RingsOnce
<1> QED BY <1>1, <1>2, <1>3, <1>4, <1>5, <1>6, TypeSplit DEF IInv

\* Every exchange, call and step of the world keeps the invariant.
LEMMA StepIInv == IInv /\ [Next]_vars => IInv'
<1> SUFFICES ASSUME IInv, [Next]_vars
             PROVE  IInv'
  OBVIOUS
<1>1. FlagType /\ DataType
  BY TypeSplit DEF IInv
<1>2. FlagType' /\ DataType'
  BY <1>1, FlagStep, DataStep DEF IInv
<1>3. TypeOK'
  BY <1>2, Zenon DEF TypeOK, FlagType, DataType, Calls
<1>4. CallOK' /\ CallHandle'
  BY <1>1, CallStep, CallHandleStep DEF IInv
<1>5. LiveOK' /\ LiveApart' /\ FreshOK'
  BY <1>1, LiveStep DEF IInv
<1>6. QuietOK' /\ RingsOnce' /\ WaitOK' /\ ClockOK'
  BY <1>1, QuietStep, WaitStep, ClockStep DEF IInv
<1>7. TokenOrigin' /\ RedeemedOnce'
  BY <1>1, TokenStep DEF IInv
<1> QED BY <1>3, <1>4, <1>5, <1>6, <1>7 DEF IInv

\* The invariant holds in every state of the engine.
THEOREM Invariance == Spec => []IInv
  BY InitIInv, StepIInv, PTL DEF Spec

\* Every variable of the engine stays in its type, whatever the peers do.
THEOREM TypeCorrect == Spec => []TypeOK
<1>1. IInv => TypeOK
  BY DEF IInv
<1> QED BY <1>1, Invariance, PTL

\* A cached bearer was redeemed, once, from a push for its own scope that the
\* user approved: for any number of handles and scopes, all failures included.
THEOREM TokenOriginHolds == Spec => []TokenOrigin
<1>1. IInv => TokenOrigin
  BY DEF IInv
<1> QED BY <1>1, Invariance, PTL

\* The device evaluates the reply to a push at most once.
THEOREM RedeemedOnceHolds == Spec => []RedeemedOnce
<1>1. IInv => RedeemedOnce
  BY DEF IInv
<1> QED BY <1>1, Invariance, PTL

\* One begin rings the phone at most once, its second push included.
THEOREM RingsOnceHolds == Spec => []RingsOnce
<1>1. IInv => RingsOnce
  BY DEF IInv
<1> QED BY <1>1, Invariance, PTL

-----------------------------------------------------------------------------
(* What a returning call may say                                           *)

TimedOut ==
  Returned /\ rc' = "CONFIRM_TIMEOUT" => waited >= Timeout /\ answer[Event] = "pending"

InWindow ==
  Returned /\ call.op = "begin" /\ ~disturbed' /\ ~noAuto /\ rc' # "OK"
    => Ahead \in 1..FutureSkew


\* Only a wait whose time is up returns CONFIRM_TIMEOUT.
LEMMA TimeoutStep ==
  ASSUME IInv, DataType, [Next]_vars
  PROVE  TimedOut
<1>1. CASE SessionReply
  BY <1>1 DEF TimedOut, Returned, IInv, DataType, CallOK, WaitOK,
     SessionReply, GoTo, Return, phoneVars, deviceVars, pushVars, waitVars,
     historyVars, Failures, Broken, NoCall, Idle, BeginPcs, PollPcs, RedeemPcs
<1>2. CASE RequestReply
  BY <1>2 DEF TimedOut, Returned, IInv, DataType, CallOK, WaitOK,
     RequestReply, GoTo, Return, phoneVars, deviceVars, pushVars, waitVars,
     historyVars, Failures, Broken, NoCall, Idle, BeginPcs, PollPcs, RedeemPcs
<1>3. CASE RequestCheckinDone
  BY <1>3 DEF TimedOut, Returned, IInv, DataType, CallOK, WaitOK,
     RequestCheckinDone, Resynced, CheckinFailed, GoTo, Return, phoneVars,
     deviceVars, pushVars, waitVars, historyVars, Failures, Broken, NoCall,
     Idle, BeginPcs, PollPcs, RedeemPcs
<1>4. CASE PushReply
  BY <1>4 DEF TimedOut, Returned, IInv, DataType, CallOK, WaitOK, PushReply,
     PushFailed, GoTo, Return, phoneVars, deviceVars, pushVars, waitVars,
     historyVars, Failures, Broken, NoCall, Idle, BeginPcs, PollPcs, RedeemPcs
<1>5. CASE DriftCheckinDone
  <2>1. rc = "AUTH_FAILED"
    BY <1>5 DEF DriftCheckinDone, IInv, ClockOK
  <2> QED
    BY <1>5, <2>1 DEF TimedOut, Returned, DriftCheckinDone, GoTo, Return
<1>6. CASE CheckReply
  <2>1. ASSUME Return("CONFIRM_TIMEOUT", 0), TimeUp, call.op = "wait"
        PROVE  waited >= Timeout
    BY <2>1, ConfirmAssumption DEF TimeUp, IInv, WaitOK, DataType
  <2>2. rc' = "CONFIRM_TIMEOUT" /\ call' # call
          => call.op = "wait" /\ TimeUp /\ Return("CONFIRM_TIMEOUT", 0)
             /\ answer[Event] = "pending"
    BY <1>6 DEF CheckReply, GoTo, Return, Failures, Broken
  <2> QED BY <2>1, <2>2 DEF TimedOut, Returned
<1>7. CASE Sleep
  BY <1>7 DEF TimedOut, Returned, IInv, DataType, CallOK, WaitOK, Sleep, GoTo,
     phoneVars, deviceVars, pushVars, waitVars, historyVars, Failures, Broken,
     NoCall, Idle, BeginPcs, PollPcs, RedeemPcs
<1>8. CASE RedeemReply
  BY <1>8 DEF TimedOut, Returned, IInv, DataType, CallOK, WaitOK, RedeemReply,
     GoTo, Return, UsedUp, Evaluated, phoneVars, deviceVars, pushVars,
     waitVars, historyVars, Failures, Broken, NoCall, Idle, BeginPcs, PollPcs,
     RedeemPcs
<1>9. CASE RedeemCheckinDone
  BY <1>9 DEF TimedOut, Returned, IInv, DataType, CallOK, WaitOK,
     RedeemCheckinDone, Resynced, CheckinFailed, GoTo, Return, UsedUp,
     phoneVars, deviceVars, pushVars, waitVars, historyVars, Failures, Broken,
     NoCall, Idle, BeginPcs, PollPcs, RedeemPcs
<1>10. ASSUME NEW h \in Handles, NEW s \in Scopes, Begin(h, s)
       PROVE  TimedOut
  BY <1>10 DEF TimedOut, Returned, IInv, DataType, CallOK, WaitOK, Begin,
     phoneVars, deviceVars, pushVars, waitVars, historyVars, Failures, Broken,
     NoCall, Idle, BeginPcs, PollPcs, RedeemPcs
<1>11. ASSUME NEW h \in Handles, NEW op \in {"poll", "wait"}, Poll(op, h)
       PROVE  TimedOut
  BY <1>11 DEF TimedOut, Returned, IInv, DataType, CallOK, WaitOK, Poll,
     phoneVars, deviceVars, pushVars, waitVars, historyVars, Failures, Broken,
     NoCall, Idle, BeginPcs, PollPcs, RedeemPcs
<1>12. ASSUME NEW h \in Handles, Cancel(h)
       PROVE  TimedOut
  BY <1>12 DEF TimedOut, Returned, IInv, DataType, CallOK, WaitOK, Cancel,
     phoneVars, deviceVars, pushVars, waitVars, historyVars, Failures, Broken,
     NoCall, Idle, BeginPcs, PollPcs, RedeemPcs
<1>13. CASE Logout
  BY <1>13 DEF TimedOut, Returned, IInv, DataType, CallOK, WaitOK, Logout,
     phoneVars, deviceVars, pushVars, waitVars, historyVars, Failures, Broken,
     NoCall, Idle, BeginPcs, PollPcs, RedeemPcs
<1>14. ASSUME NEW e \in Events, NEW a \in {"approved", "denied"}, Phone(e, a)
       PROVE  TimedOut
  BY <1>14 DEF TimedOut, Returned, IInv, DataType, CallOK, WaitOK, Phone,
     phoneVars, deviceVars, pushVars, waitVars, historyVars, Failures, Broken,
     NoCall, Idle, BeginPcs, PollPcs, RedeemPcs
<1>15. CASE Tick
  BY <1>15 DEF TimedOut, Returned, IInv, DataType, CallOK, WaitOK, Tick,
     phoneVars, deviceVars, pushVars, waitVars, historyVars, Failures, Broken,
     NoCall, Idle, BeginPcs, PollPcs, RedeemPcs
<1>16. CASE Restart
  BY <1>16 DEF TimedOut, Returned, IInv, DataType, CallOK, WaitOK, Restart,
     phoneVars, deviceVars, pushVars, waitVars, historyVars, Failures, Broken,
     NoCall, Idle, BeginPcs, PollPcs, RedeemPcs
<1>17. ASSUME NEW o \in Offsets, ClockDrifts(o)
       PROVE  TimedOut
  BY <1>17 DEF TimedOut, Returned, IInv, DataType, CallOK, WaitOK,
     ClockDrifts, phoneVars, deviceVars, pushVars, waitVars, historyVars,
     Failures, Broken, NoCall, Idle, BeginPcs, PollPcs, RedeemPcs
<1>18. CASE UNCHANGED vars
  BY <1>18 DEF TimedOut, Returned, IInv, DataType, CallOK, WaitOK, vars,
     phoneVars, deviceVars, pushVars, waitVars, historyVars, Failures, Broken,
     NoCall, Idle, BeginPcs, PollPcs, RedeemPcs
<1> QED
  BY <1>1, <1>2, <1>3, <1>4, <1>5, <1>6, <1>7, <1>8, <1>9, <1>10, <1>11,
     <1>12, <1>13, <1>14, <1>15, <1>16, <1>17, <1>18 DEF Next, Engine, User,
     World


\* Every other way begin fails is marked as a disturbance.
LEMMA RefusalStep ==
  ASSUME IInv, DataType, [Next]_vars
  PROVE  InWindow
<1>1. CASE SessionReply
  BY <1>1, ConfirmAssumption DEF InWindow, Returned, IInv, DataType, CallOK,
     ClockOK, RtcRecoverable, SessionReply, GoTo, Return, phoneVars,
     deviceVars, pushVars, waitVars, historyVars, Failures, Broken, NoCall,
     Idle, BeginPcs, PollPcs, RedeemPcs
<1>2. CASE RequestReply
  BY <1>2, ConfirmAssumption DEF InWindow, Returned, IInv, DataType, CallOK,
     ClockOK, RtcRecoverable, RequestReply, GoTo, Return, phoneVars,
     deviceVars, pushVars, waitVars, historyVars, Failures, Broken, NoCall,
     Idle, BeginPcs, PollPcs, RedeemPcs
<1>3. CASE RequestCheckinDone
  BY <1>3, ConfirmAssumption DEF InWindow, Returned, IInv, DataType, CallOK,
     ClockOK, RtcRecoverable, RequestCheckinDone, Resynced, CheckinFailed,
     GoTo, Return, phoneVars, deviceVars, pushVars, waitVars, historyVars,
     Failures, Broken, NoCall, Idle, BeginPcs, PollPcs, RedeemPcs
<1>4. CASE PushReply
  BY <1>4, ConfirmAssumption DEF InWindow, Returned, IInv, DataType, CallOK,
     ClockOK, RtcRecoverable, PushReply, PushFailed, GoTo, Return, phoneVars,
     deviceVars, pushVars, waitVars, historyVars, Failures, Broken, NoCall,
     Idle, BeginPcs, PollPcs, RedeemPcs, BrokerAccepts, Ahead,
     DriftRecoverable, DriftEvident
<1>5. CASE DriftCheckinDone
  BY <1>5, ConfirmAssumption DEF InWindow, Returned, IInv, DataType, CallOK,
     ClockOK, RtcRecoverable, DriftCheckinDone, Resynced, CheckinFailed, GoTo,
     Return, phoneVars, deviceVars, pushVars, waitVars, historyVars, Failures,
     Broken, NoCall, Idle, BeginPcs, PollPcs, RedeemPcs
<1>6. CASE CheckReply
  BY <1>6, ConfirmAssumption DEF InWindow, Returned, IInv, DataType, CallOK,
     ClockOK, RtcRecoverable, CheckReply, GoTo, Return, UsedUp, phoneVars,
     deviceVars, pushVars, waitVars, historyVars, Failures, Broken, NoCall,
     Idle, BeginPcs, PollPcs, RedeemPcs
<1>7. CASE Sleep
  BY <1>7, ConfirmAssumption DEF InWindow, Returned, IInv, DataType, CallOK,
     ClockOK, RtcRecoverable, Sleep, GoTo, phoneVars, deviceVars, pushVars,
     waitVars, historyVars, Failures, Broken, NoCall, Idle, BeginPcs, PollPcs,
     RedeemPcs
<1>8. CASE RedeemReply
  BY <1>8, ConfirmAssumption DEF InWindow, Returned, IInv, DataType, CallOK,
     ClockOK, RtcRecoverable, RedeemReply, GoTo, Return, UsedUp, Evaluated,
     phoneVars, deviceVars, pushVars, waitVars, historyVars, Failures, Broken,
     NoCall, Idle, BeginPcs, PollPcs, RedeemPcs
<1>9. CASE RedeemCheckinDone
  BY <1>9, ConfirmAssumption DEF InWindow, Returned, IInv, DataType, CallOK,
     ClockOK, RtcRecoverable, RedeemCheckinDone, Resynced, CheckinFailed,
     GoTo, Return, UsedUp, phoneVars, deviceVars, pushVars, waitVars,
     historyVars, Failures, Broken, NoCall, Idle, BeginPcs, PollPcs, RedeemPcs
<1>10. ASSUME NEW h \in Handles, NEW s \in Scopes, Begin(h, s)
       PROVE  InWindow
  BY <1>10, ConfirmAssumption DEF InWindow, Returned, IInv, DataType, CallOK,
     ClockOK, RtcRecoverable, Begin, phoneVars, deviceVars, pushVars,
     waitVars, historyVars, Failures, Broken, NoCall, Idle, BeginPcs, PollPcs,
     RedeemPcs
<1>11. ASSUME NEW h \in Handles, NEW op \in {"poll", "wait"}, Poll(op, h)
       PROVE  InWindow
  BY <1>11, ConfirmAssumption DEF InWindow, Returned, IInv, DataType, CallOK,
     ClockOK, RtcRecoverable, Poll, phoneVars, deviceVars, pushVars, waitVars,
     historyVars, Failures, Broken, NoCall, Idle, BeginPcs, PollPcs, RedeemPcs
<1>12. ASSUME NEW h \in Handles, Cancel(h)
       PROVE  InWindow
  BY <1>12, ConfirmAssumption DEF InWindow, Returned, IInv, DataType, CallOK,
     ClockOK, RtcRecoverable, Cancel, phoneVars, deviceVars, pushVars,
     waitVars, historyVars, Failures, Broken, NoCall, Idle, BeginPcs, PollPcs,
     RedeemPcs
<1>13. CASE Logout
  BY <1>13, ConfirmAssumption DEF InWindow, Returned, IInv, DataType, CallOK,
     ClockOK, RtcRecoverable, Logout, phoneVars, deviceVars, pushVars,
     waitVars, historyVars, Failures, Broken, NoCall, Idle, BeginPcs, PollPcs,
     RedeemPcs
<1>14. ASSUME NEW e \in Events, NEW a \in {"approved", "denied"}, Phone(e, a)
       PROVE  InWindow
  BY <1>14, ConfirmAssumption DEF InWindow, Returned, IInv, DataType, CallOK,
     ClockOK, RtcRecoverable, Phone, phoneVars, deviceVars, pushVars,
     waitVars, historyVars, Failures, Broken, NoCall, Idle, BeginPcs, PollPcs,
     RedeemPcs
<1>15. CASE Tick
  BY <1>15, ConfirmAssumption DEF InWindow, Returned, IInv, DataType, CallOK,
     ClockOK, RtcRecoverable, Tick, phoneVars, deviceVars, pushVars, waitVars,
     historyVars, Failures, Broken, NoCall, Idle, BeginPcs, PollPcs, RedeemPcs
<1>16. CASE Restart
  BY <1>16, ConfirmAssumption DEF InWindow, Returned, IInv, DataType, CallOK,
     ClockOK, RtcRecoverable, Restart, phoneVars, deviceVars, pushVars,
     waitVars, historyVars, Failures, Broken, NoCall, Idle, BeginPcs, PollPcs,
     RedeemPcs
<1>17. ASSUME NEW o \in Offsets, ClockDrifts(o)
       PROVE  InWindow
  BY <1>17, ConfirmAssumption DEF InWindow, Returned, IInv, DataType, CallOK,
     ClockOK, RtcRecoverable, ClockDrifts, phoneVars, deviceVars, pushVars,
     waitVars, historyVars, Failures, Broken, NoCall, Idle, BeginPcs, PollPcs,
     RedeemPcs
<1>18. CASE UNCHANGED vars
  BY <1>18, ConfirmAssumption DEF InWindow, Returned, IInv, DataType, CallOK,
     ClockOK, RtcRecoverable, vars, phoneVars, deviceVars, pushVars, waitVars,
     historyVars, Failures, Broken, NoCall, Idle, BeginPcs, PollPcs, RedeemPcs
<1> QED
  BY <1>1, <1>2, <1>3, <1>4, <1>5, <1>6, <1>7, <1>8, <1>9, <1>10, <1>11,
     <1>12, <1>13, <1>14, <1>15, <1>16, <1>17, <1>18 DEF Next, Engine, User,
     World

\* A wait that returns CONFIRM_TIMEOUT gave the phone its whole timeout, and no
\* answer was in when it gave up.
THEOREM TimeoutHolds == Spec => TimeoutMeansUnanswered
<1>1. IInv /\ [Next]_vars => [Returned /\ rc' = "CONFIRM_TIMEOUT"
                               => waited >= Timeout /\ answer[Event] = "pending"]_vars
  BY TimeoutStep, TypeSplit DEF IInv, TimedOut
<1> QED
  BY <1>1, Invariance, PTL DEF Spec, TimeoutMeansUnanswered

\* An undisturbed begin is refused only with a stamp inside the window in which
\* the engine cannot tell the clock is wrong.
THEOREM RefusalHolds == Spec => RefusedOnlyInWindow
<1>1. IInv /\ [Next]_vars =>
        [Returned /\ call.op = "begin" /\ ~disturbed' /\ ~noAuto /\ rc' # "OK"
           => Ahead \in 1..FutureSkew]_vars
  BY RefusalStep, TypeSplit DEF IInv, InWindow
<1> QED
  BY <1>1, Invariance, PTL DEF Spec, RefusedOnlyInWindow

-----------------------------------------------------------------------------
(* The engine implements ConfirmPromise                                    *)

\* What the application sees of the handles: ConfirmPromise's handle.
Seen == [h \in Handles |-> [st |-> handle[h].st, event |-> handle[h].event]]

\* A step that leaves handles, questions, answers and tokens alone.
LEMMA PromiseStutter ==
  ASSUME UNCHANGED <<handle, asked, answer, tokens>>
  PROVE  UNCHANGED Promised!promiseVars
  BY DEF Promised!promiseVars

\* A delivered push is a question asked, with or without a handle.
LEMMA PushAsks ==
  ASSUME DataType, CallOK, CallHandle, NEW e \in Events, Delivered(e), pc = "push",
         UNCHANGED tokens,
         handle' = handle \/
         handle' = [handle EXCEPT ![call.h] =
                      [st |-> "live", event |-> e, scope |-> call.scope]]
  PROVE  Promised!PromiseNext
<1>1. call.h \in Handles /\ call.scope \in Scopes /\ handle[call.h].st = "free"
  BY CallFields DEF CallHandle, BeginPcs
<1>2. handle' = handle => Seen' = Seen
  BY DEF Seen
<1>3. ASSUME handle' = [handle EXCEPT ![call.h] =
                          [st |-> "live", event |-> e, scope |-> call.scope]]
      PROVE  /\ Seen[call.h].st = "free"
             /\ Seen' = [Seen EXCEPT ![call.h] = [st |-> "live", event |-> e]]
  BY <1>1, <1>3 DEF Seen, DataType
<1>4. PICK s \in Scopes : s = call.scope
  BY <1>1
<1>5. Promised!Ask(e, s)
  BY <1>1, <1>2, <1>3, <1>4 DEF Promised!Ask, Delivered, Seen
<1>6. Promised!Ask(e, s) /\ e \in Promised!Events
  BY <1>5 DEF Promised!Events, Events
<1> QED BY <1>6, Zenon DEF Promised!PromiseNext

\* A handle used up by a call is a handle used up in the promise.
LEMMA UsedUpUses ==
  ASSUME DataType, NEW h \in Handles, h = call.h, handle[call.h].st = "live",
         answer[Event] # "pending", UNCHANGED <<asked, answer>>, NEW c, UsedUp(c)
  PROVE  Promised!UseUp(h)
<1>1. Seen[h] = [st |-> handle[call.h].st, event |-> handle[call.h].event]
  BY DEF Seen
<1>2. Seen' = [Seen EXCEPT ![h].st = "done"]
  BY DEF Seen, UsedUp, DataType
<1> QED BY <1>1, <1>2 DEF Promised!UseUp, Seen, Event

\* A handle used up after its answer is the refusal of the promise.
LEMMA RefusalRefuses ==
  ASSUME DataType, call.h \in Handles, handle[call.h].st = "live",
         answer[Event] # "pending", UNCHANGED <<asked, answer, tokens>>,
         NEW c, UsedUp(c)
  PROVE  Promised!PromiseNext
<1>1. PICK h \in Handles : h = call.h
  OBVIOUS
<1>2. Promised!UseUp(h)
  BY <1>1, UsedUpUses
<1>3. Promised!Refuse(h)
  BY <1>2 DEF Promised!Refuse
<1> QED BY <1>3, Zenon DEF Promised!PromiseNext


\* Every step of the engine is a step of the promise, or none.
LEMMA PromiseStep ==
  ASSUME IInv, DataType, [Next]_vars
  PROVE  [Promised!PromiseNext]_(Promised!promiseVars)
<1>1. CASE SessionReply
  BY <1>1, PromiseStutter DEF SessionReply, phoneVars
<1>2. CASE RequestReply
  BY <1>2, PromiseStutter DEF RequestReply, phoneVars
<1>3. CASE RequestCheckinDone
  BY <1>3, PromiseStutter DEF RequestCheckinDone, phoneVars
<1>4. CASE PushReply
  <2>1. UNCHANGED tokens
    BY <1>4 DEF PushReply
  <2>2. CASE UNCHANGED <<handle, phoneVars>>
    BY <2>1, <2>2, PromiseStutter DEF phoneVars
  <2>3. ASSUME NEW e \in Events, Delivered(e),
               handle' = handle \/
               handle' = [handle EXCEPT ![call.h] =
                            [st |-> "live", event |-> e, scope |-> call.scope]]
        PROVE  Promised!PromiseNext
    BY <1>4, <2>1, <2>3, PushAsks DEF PushReply, IInv
  <2> QED BY <1>4, <2>2, <2>3 DEF PushReply
<1>5. CASE DriftCheckinDone
  BY <1>5, PromiseStutter DEF DriftCheckinDone, phoneVars
<1>6. CASE CheckReply
  <2>1. UNCHANGED <<asked, answer, tokens>>
    BY <1>6 DEF CheckReply, phoneVars
  <2>2. CASE UNCHANGED handle
    BY <2>1, <2>2, PromiseStutter
  <2>3. CASE answer[Event] = "denied" /\ UsedUp("USER_REJECTED")
    <3>1. call.h \in Handles /\ handle[call.h].st = "live"
      BY <1>6, CallFields DEF CheckReply, IInv, CallHandle, PollPcs
    <3> QED BY <2>1, <2>3, <3>1, RefusalRefuses
  <2> QED BY <1>6, <2>2, <2>3 DEF CheckReply
<1>7. CASE Sleep
  BY <1>7, PromiseStutter DEF Sleep, phoneVars
<1>8. CASE RedeemReply
  <2>1. UNCHANGED <<asked, answer>>
    BY <1>8 DEF RedeemReply, phoneVars
  <2>2. /\ call.h \in Handles /\ handle[call.h].st = "live"
        /\ asked[Event] = handle[call.h].scope
        /\ answer[Event] = "approved"
    BY <1>8, RedeemContext DEF IInv
  <2>3. CASE UNCHANGED <<handle, tokens>>
    BY <2>1, <2>3, PromiseStutter
  <2>4. ASSUME NEW c, UsedUp(c), UNCHANGED tokens
        PROVE  Promised!PromiseNext
    BY <2>1, <2>2, <2>4, RefusalRefuses
  <2>5. CASE /\ UsedUp("OK")
             /\ tokens' = [tokens EXCEPT ![handle[call.h].scope] = Event]
    <3>1. PICK h \in Handles : h = call.h
      BY <2>2
    <3>2. Promised!UseUp(h)
      BY <2>1, <2>2, <2>5, <3>1, UsedUpUses
    <3>3. Seen[h].event = Event
      BY <2>2, <3>1 DEF Seen, Event
    <3>4. Promised!Grant(h)
      BY <2>2, <2>5, <3>2, <3>3 DEF Promised!Grant, Seen
    <3> QED BY <3>4, Zenon DEF Promised!PromiseNext
  <2> QED BY <1>8, <2>3, <2>4, <2>5 DEF RedeemReply
<1>9. CASE RedeemCheckinDone
  <2>1. UNCHANGED <<asked, answer, tokens>>
    BY <1>9 DEF RedeemCheckinDone, phoneVars
  <2>2. CASE UNCHANGED handle
    BY <2>1, <2>2, PromiseStutter
  <2>3. CASE UsedUp("SCOPE_DENIED")
    <3>1. call.h \in Handles /\ handle[call.h].st = "live" /\ answer[Event] = "approved"
      BY <1>9, CallFields DEF RedeemCheckinDone, IInv, CallHandle, PollPcs, RedeemPcs
    <3> QED BY <2>1, <2>3, <3>1, RefusalRefuses
  <2> QED BY <1>9, <2>2, <2>3 DEF RedeemCheckinDone
<1>10. ASSUME NEW h \in Handles, NEW s \in Scopes, Begin(h, s)
       PROVE  [Promised!PromiseNext]_(Promised!promiseVars)
  BY <1>10, PromiseStutter DEF Begin, phoneVars
<1>11. ASSUME NEW h \in Handles, NEW op \in {"poll", "wait"}, Poll(op, h)
       PROVE  [Promised!PromiseNext]_(Promised!promiseVars)
  BY <1>11, PromiseStutter DEF Poll, phoneVars
<1>12. ASSUME NEW h \in Handles, Cancel(h)
       PROVE  [Promised!PromiseNext]_(Promised!promiseVars)
  <2>1. Seen[h].st # "free"
    BY <1>12 DEF Cancel, Held, Seen
  <2>2. Seen' = [Seen EXCEPT ![h] = Promised!Unused]
    BY <1>12 DEF Cancel, Seen, Unused, Promised!Unused, DataType
  <2>3. Promised!Drop(h)
    BY <1>12, <2>1, <2>2 DEF Cancel, Promised!Drop, Seen, phoneVars
  <2> QED BY <2>3 DEF Promised!PromiseNext
<1>13. CASE Logout
  <2>1. Promised!EndSession
    BY <1>13 DEF Logout, Promised!EndSession, phoneVars
  <2> QED BY <2>1 DEF Promised!PromiseNext
<1>14. ASSUME NEW e \in Events, NEW a \in {"approved", "denied"}, Phone(e, a)
       PROVE  [Promised!PromiseNext]_(Promised!promiseVars)
  <2>1. Promised!Answer(e)
    BY <1>14 DEF Phone, Promised!Answer
  <2> QED BY <2>1 DEF Promised!PromiseNext, Promised!Events, Events
<1>15. CASE Tick
  BY <1>15, PromiseStutter DEF Tick, phoneVars
<1>16. CASE Restart
  BY <1>16, PromiseStutter DEF Restart, phoneVars
<1>17. ASSUME NEW o \in Offsets, ClockDrifts(o)
       PROVE  [Promised!PromiseNext]_(Promised!promiseVars)
  BY <1>17, PromiseStutter DEF ClockDrifts, phoneVars
<1>18. CASE UNCHANGED vars
  BY <1>18, PromiseStutter DEF vars, phoneVars
<1> QED
  BY <1>1, <1>2, <1>3, <1>4, <1>5, <1>6, <1>7, <1>8, <1>9, <1>10, <1>11,
     <1>12, <1>13, <1>14, <1>15, <1>16, <1>17, <1>18 DEF Next, Engine, User,
     World


\* The engine keeps the promise made to the application: whatever the network,
\* the phone and the device do, it asks, grants, refuses and drops as
\* ConfirmPromise does.
THEOREM PromiseKept == Spec => KeepsPromise
<1>1. Init => Promised!PromiseInit
  BY DEF Init, Promised!PromiseInit, Promised!Unused, Promised!Events, Unused, Events
<1>2. IInv /\ [Next]_vars => [Promised!PromiseNext]_(Promised!promiseVars)
  BY PromiseStep, TypeSplit DEF IInv
<1> QED
  BY <1>1, <1>2, Invariance, PTL DEF Spec, KeepsPromise, Promised!Promise
=============================================================================
